SPECIFICATION GaugeSpec
CONSTANTS
  Readers = {"a", "b"}
  GaugeBusFails = FALSE
  Others = FALSE
INVARIANTS NoWorkAfterUnregister
CHECK_DEADLOCK FALSE
