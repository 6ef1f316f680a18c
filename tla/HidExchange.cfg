SPECIFICATION Spec
CONSTANTS
  Runs = {r1, r2}
  Programs <- MCPrograms
  Lengths <- MCLengths
  ReplyLength <- MCReplyLength
  PipeSize = 1
  InboxSize = 1
INVARIANTS
  OwnWhenAlone
PROPERTIES
  CommandEnds
  LoopGoesOn
