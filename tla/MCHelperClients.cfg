SPECIFICATION Spec
CONSTANTS
  Sections <- MCSections
  Lan = "lan"
  Always = {"lan"}
  Disruptive = {"lan"}
  Optional = {}
  FileDriven = {}
  Values = {0, 1}
  DefaultBody <- MCDefault
  MaxRevision = 2
  MaxQueue = 1
  Ids = {a, b}
  MaxFaults = 1
SYMMETRY AnyId
INVARIANT ReplayIsTrue
PROPERTY ConfirmationGate
