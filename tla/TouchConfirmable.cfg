\* The comment on is_session_active.
CONSTANTS
  SESSION_TIMEOUT = 2
  TOUCH_TIMEOUT = 2
  ERROR_DISPLAY = 1
  EVENT_QUEUE_DEPTH = 5
SPECIFICATION Spec
INVARIANT AcceptedCanBeConfirmed
