SPECIFICATION Spec
CONSTANTS
  Clients = {c1, c2}
  Main = "main"
  Others = {"inputs"}
  OfWorker = {"display"}
  NeedData = {"main", "display"}
  MaxLinks = 4
  MaxArrivals = 1
INVARIANTS FreedUnused ListsAgree TargetBookkeeping
PROPERTIES ImplementsSessions ClientGoesWithMain
CHECK_DEADLOCK FALSE
