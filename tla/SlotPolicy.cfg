SPECIFICATION Spec
CONSTANTS
  AskedSlots = {0, 2, 5, 6, 8, 15}
INVARIANTS
  OwnerGetsIn
PROPERTIES
  SignServed
