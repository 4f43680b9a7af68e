SPECIFICATION Spec
CONSTANTS
  TcbTableSize = 3
  NumIrqs = 1
  WildTid = 99
  WildReadable = TRUE
  Calls = {"create_tcb", "destroy_tcb", "update_tcb", "sleep", "send", "receive", "wild_tid", "create_int", "update_int", "destroy_int", "irq", "exception"}
  FlagArgs = {{}, {"MSG_NOBLOCK"}, {"MSG_KERNEL"}}
  LengthArgs = {1}
  PmapArgs = {"other"}
  Outcomes = {TRUE, FALSE}
INVARIANTS TypeOK QueuesMatchStates RunningIsCurrent IrqHandlersLive RecipientAssertHolds
CHECK_DEADLOCK FALSE
