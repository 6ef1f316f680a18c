\* Five seconds to the tick, as 30 s, 30 s and 5 s.
CONSTANTS
  SESSION_TIMEOUT = 6
  TOUCH_TIMEOUT = 6
  ERROR_DISPLAY = 1
  EVENT_QUEUE_DEPTH = 5
SPECIFICATION FairSpec
INVARIANTS TypeOK SignatureNeedsFreshTouch SigningShown WaitingIsReal RoomInQueue LedsFollow
PROPERTIES RequestAnswered ErrorClears
