CONSTANTS
  Browser = {"b1", "b2"}
  NoBrowser = "none"
  Hosts = 2
  Proxied = {2}
  Queries <- Forms
  Commands = 2
  Outputs <- SomeOutputs
  Buffer = 3
SPECIFICATION FairSpec
INVARIANTS EndsWithProgram OneProgram PageRight OneRow
PROPERTY Served
CHECK_DEADLOCK FALSE
