CONSTANTS
  Size = 5
  SizeMod = 16
  Characters = {"a", "0"}
  Backspaces = {"bs", "del"}
  Enters = {"nl", "cr"}
  Terminator = "0"
  Contents = {"0", "?"}
SPECIFICATION PollSpec
INVARIANTS StaysNear LineIsString
PROPERTY ImplementsEditor
CHECK_DEADLOCK FALSE
