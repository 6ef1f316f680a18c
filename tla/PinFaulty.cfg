\* Chip errors, lost replies, power losses and wrong I/O keys.
CONSTANTS
  Pins = {p0, p1}
  Puks = {k0, k1}
  DefaultPin = p0
  Malformed = bad
  WrongIoKey = TRUE
  EccSlots = 2
  SessionTimeout = 1
  CounterMax = 11
  Faulty = TRUE
SPECIFICATION Spec
SYMMETRY PukSymmetry
INVARIANTS TypeOK GuessBudget TriesExact ResetComplete
PROPERTIES KeysSafe ImplementsPolicy
