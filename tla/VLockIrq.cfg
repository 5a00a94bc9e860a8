SPECIFICATION Spec
CONSTANTS
  NCpus = 1
  Loads = {{"timed wait", "expiry"}}
INVARIANTS IrqLockSafety
