\* The threshold of the code.
CONSTANT DEBOUNCE_STABLE_SAMPLES = 5
SPECIFICATION Spec
INVARIANTS TypeOK Responsive
PROPERTIES GlitchFree PressesApart
