\* A reset that is permitted, asked with the right I/O key, and refused.
SPECIFICATION Spec
CONSTANTS
  AskedSlots = {0, 2, 5, 6, 8, 15}
INVARIANTS
  ResetServed
