SPECIFICATION Spec
CONSTANTS
  c1 = c1
  c2 = c2
  c3 = c3
  Clients = {c1, c2, c3}
  Modes = {"seamless"}
  Semi = {c1, c2}
  MaxMig = 3
INVARIANTS
  SeamlessPerMigration
