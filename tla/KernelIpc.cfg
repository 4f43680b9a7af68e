SPECIFICATION LiveSpec
CONSTANTS
  TcbTableSize = 4
  NumIrqs = 1
  WildTid = 99
  WildReadable = TRUE
  Calls = {"create_tcb", "start", "sleep", "send", "receive"}
  FlagArgs = {{}, {"MSG_KERNEL"}, {"MSG_NOBLOCK"}}
  LengthArgs = {1}
  PmapArgs = {"other"}
  Outcomes = {TRUE}
INVARIANTS NoLostThread
PROPERTIES SendCompletedByRecipient NoOvertaking ReadyRuns
CHECK_DEADLOCK FALSE
