SPECIFICATION Spec
CONSTANTS
  TcbTableSize = 4
  NumIrqs = 1
  WildTid = 99
  WildReadable = TRUE
  Calls = {"create_tcb", "start", "sleep", "send", "receive"}
  FlagArgs = {{}}
  LengthArgs = {1}
  PmapArgs = {"other"}
  Outcomes = {TRUE}
INVARIANTS ReceiverWaits
CHECK_DEADLOCK FALSE
