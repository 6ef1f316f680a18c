SPECIFICATION Spec
CONSTANTS
  Zones <- MCZones
  Asked <- MCAsked
  StrayOpcodes <- MCStrayOpcodes
  ChipRefusals = {5, 15, 66}
  Noise <- MCNoise
  MaxFaults = 1
  MaxCommands = 3
INVARIANTS
  ShowsTheTruth
  ErrorsNamed
  CorruptionRefused
  CleanRunSucceeds
  CalledAsTyped
