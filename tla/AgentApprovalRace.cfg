SPECIFICATION Spec
CONSTANTS
  RawName <- MCRawName
  Name <- MCName
  canon <- MCcanon
  Blank = ""
  Star = "*"
  Wild = {"*"}
  NoSource = "none"
  NoOne = "null"
  Configs <- MCConfigs
  Requests <- MCRequests
  Approvers <- MCApprovers
  Client = {c1, c2}
  EventsEnabled = TRUE
  MinSeverity = "info"
  MaxActions = 2
  MaxFailures = 1
PROPERTIES
  SettledOnce
