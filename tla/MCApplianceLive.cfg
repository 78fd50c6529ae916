SPECIFICATION FairSpec
CONSTANTS
  Sections <- MCLanOnly
  Lan = "lan"
  Always = {"lan"}
  Disruptive = {"lan"}
  Optional = {}
  FileDriven = {}
  Values = {0, 1}
  DefaultBody <- MCLanDefault
  MaxRevision = 3
  MaxQueue = 1
  Ids = {1, 2, 3, 4, 5}
  Images = {"provisioned"}
  MaxRollbackAttempts = 1
  MaxFaults = 2
PROPERTY HandlersReturn
PROPERTY ProvisionalResolved
