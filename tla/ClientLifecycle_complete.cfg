SPECIFICATION Spec
CONSTANTS
  Clients = {c1, c2}
  Main = "main"
  Others = {"inputs"}
  OfWorker = {"display"}
  NeedData = {"main", "display"}
  MaxLinks = 2
  MaxArrivals = 1
PROPERTY AllChannelsMigrated
CHECK_DEADLOCK FALSE
