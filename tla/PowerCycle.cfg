SPECIFICATION PowerSpec
CONSTANTS
  Boards = {"esp32", "nrf52"}
  Supplies = {4150, 3250}
  Delays = {0, 3}
  IdleTicks = 4
  WdtTicks = 6
  None = None
INVARIANT PowerTypeOK
INVARIANT NeverStarved
PROPERTY ShutdownObeyed
PROPERTY LowBatterySleeps
