SPECIFICATION Spec
CONSTANTS
  Sections <- MCSections
  Lan = "lan"
  Always = {"lan"}
  Disruptive = {"lan"}
  Optional = {}
  FileDriven = {"dns"}
  Values = {0, 1}
  DefaultBody <- MCDefault
  MaxRevision = 3
  MaxQueue = 1
  Ids = {1, 2, 3, 4, 5}
  Images = {"provisioned"}
  MaxRollbackAttempts = 1
  MaxFaults = 1
INVARIANT RolledBackIsRestored
