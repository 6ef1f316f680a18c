---------------------------- MODULE TokenFirmware ----------------------------
(***************************************************************************)
(* Touch-to-sign in hsm-firmware: four cooperative tasks on one executor.  *)
(* dispatch_loop owns the service and answers one request at a time,       *)
(* touch_task posts debounced presses, state_task drives TokenState and    *)
(* its two deadlines, animation_task shows the state on the LEDs.  They    *)
(* share the event channel, the TOUCH_CONFIRMED pulse and the TOKEN_STATE  *)
(* signal.                                                                 *)
(*                                                                         *)
(* A step is what a task does between two awaits that make it wait, except *)
(* that state_task handles one event per step and keeps the executor until *)
(* the channel is empty.                                                   *)
(*                                                                         *)
(* Time is discrete and shared.  It passes only when no task is ready,     *)
(* except that a chip command may last any number of ticks; within a tick  *)
(* ready tasks run in any order, which is how a timer and the event it     *)
(* races with meet.  The service is represented by its session, by what    *)
(* each request does to it (PinService has the rest) and by whether the    *)
(* request succeeds.                                                       *)
(***************************************************************************)
EXTENDS Integers, Sequences

CONSTANTS
  SESSION_TIMEOUT,    \* SESSION_TIMEOUT_MS, in ticks
  TOUCH_TIMEOUT,      \* TOUCH_TIMEOUT_MS, in ticks
  ERROR_DISPLAY,      \* ERROR_DISPLAY_MS, in ticks
  EVENT_QUEUE_DEPTH   \* capacity of EVENT_CHANNEL

(***************************************************************************)
(* ERROR_DISPLAY < TOUCH_TIMEOUT is asserted at compile time.  The code    *)
(* also gives both 30 s timeouts the same value without asserting it, and  *)
(* the freshness of touches rests on TOUCH_TIMEOUT not being the shorter.  *)
(***************************************************************************)
ASSUME TimesAssumption ==
  /\ SESSION_TIMEOUT \in Nat \ {0}
  /\ TOUCH_TIMEOUT \in Nat /\ TOUCH_TIMEOUT >= SESSION_TIMEOUT
  /\ ERROR_DISPLAY \in Nat \ {0} /\ ERROR_DISPLAY < TOUCH_TIMEOUT
  /\ EVENT_QUEUE_DEPTH \in Nat /\ EVENT_QUEUE_DEPTH > 1

VARIABLES
  sm,         \* state_task: the TokenState
  sessionDl,  \* state_task: ticks to session_deadline, Off for None
  errorDl,    \* state_task: ticks to error_deadline, Off for None
  draining,   \* state_task: has taken an event and not yet yielded
  queue,      \* EVENT_CHANNEL
  confirmed,  \* TOUCH_CONFIRMED holds a pulse
  published,  \* TOKEN_STATE: the state not yet taken, or "None"
  shown,      \* animation_task: the state on the LEDs
  disp,       \* dispatch_loop: where it awaits
  kind,       \* dispatch_loop: the request in progress
  touchLeft,  \* dispatch_loop: ticks to the end of the touch window
  since,      \* service: time since the method in progress read the clock
  open, age,  \* service: Session, as in PinService
  resp,       \* status of the last response
  fresh       \* history: a press since the Sign in progress was accepted

stateTask == <<sm, sessionDl, errorDl, draining>>
dispatch == <<disp, kind, touchLeft, since, resp>>
service == <<open, age>>
vars == <<sm, sessionDl, errorDl, draining, queue, confirmed, published, shown, disp,
          kind, touchLeft, since, open, age, resp, fresh>>

Off == -1

TokenStates == {"Booting", "Idle", "Authenticated", "WaitingForTouch",
                "Signing", "Error"}

Events == {"BootComplete", "PinVerified", "SessionEnded", "SignRequested",
           "TouchPressed", "TouchTimeout", "SignComplete", "ErrorRaised",
           "ErrorDisplayElapsed"}

(* Requests that run chip commands; "Other" changes no session and posts *)
(* no event (Info, GetPubKey, GenKey, UnblockPin, EmergencyReset, ...).  *)
ChipKinds == {"VerifyPin", "SetPin", "SetPuk", "Other"}

(* Variant to test the properties: a session may end while signing. *)
on_event_EndSigning(state, e) ==
  CASE e = "ErrorRaised" -> "Error"
    [] \/ state = "Booting" /\ e = "BootComplete"
       \/ state \in {"Authenticated", "WaitingForTouch", "Signing"} /\ e = "SessionEnded"
       \/ state = "Error" /\ e = "ErrorDisplayElapsed" -> "Idle"
    [] \/ state \in {"Idle", "Authenticated"} /\ e = "PinVerified"
       \/ state = "WaitingForTouch" /\ e = "TouchTimeout"
       \/ state = "Signing" /\ e = "SignComplete" -> "Authenticated"
    [] state = "Authenticated" /\ e = "SignRequested" -> "WaitingForTouch"
    [] state = "WaitingForTouch" /\ e = "TouchPressed" -> "Signing"
    [] OTHER -> state

on_event(state, e) ==
  CASE e = "ErrorRaised" -> "Error"
    [] \/ state = "Booting" /\ e = "BootComplete"
       \/ state \in {"Authenticated", "WaitingForTouch"} /\ e = "SessionEnded"
       \/ state = "Error" /\ e = "ErrorDisplayElapsed" -> "Idle"
    [] \/ state \in {"Idle", "Authenticated"} /\ e = "PinVerified"
       \/ state = "WaitingForTouch" /\ e = "TouchTimeout"
       \/ state = "Signing" /\ e = "SignComplete" -> "Authenticated"
    [] state = "Authenticated" /\ e = "SignRequested" -> "WaitingForTouch"
    [] state = "WaitingForTouch" /\ e = "TouchPressed" -> "Signing"
    [] OTHER -> state

(* update_timers, for the session deadline and for the error deadline. *)
session_timer(state, e, deadline) ==
  IF state \notin {"Authenticated", "WaitingForTouch", "Signing"} THEN Off
  ELSE IF \/ e \in {"PinVerified", "SignComplete", "SignRequested", "TouchPressed"}
          \/ deadline = Off
       THEN SESSION_TIMEOUT
       ELSE deadline

(* Variant: the error deadline is never armed. *)
error_timer_Unarmed(state, deadline) == IF state # "Error" THEN Off ELSE deadline

error_timer(state, deadline) ==
  IF state # "Error" THEN Off
  ELSE IF deadline = Off THEN ERROR_DISPLAY ELSE deadline

(* try_send: an event that does not fit is dropped. *)
post_event(q, e) == IF Len(q) < EVENT_QUEUE_DEPTH THEN Append(q, e) ELSE q

is_session_active == open /\ age < SESSION_TIMEOUT

Holds(q, e) == \E i \in 1..Len(q) : q[i] = e
HoldsOnly(q, e) == \A i \in 1..Len(q) : q[i] = e

(* main has spawned the tasks and posted BootComplete. *)
Init ==
  /\ sm = "Booting" /\ sessionDl = Off /\ errorDl = Off
  /\ draining = FALSE
  /\ queue = <<"BootComplete">>
  /\ confirmed = FALSE
  /\ published = "Booting" /\ shown = "None"
  /\ disp = "idle" /\ kind = "None" /\ touchLeft = Off /\ since = 0
  /\ open = FALSE /\ age = 0
  /\ resp = "None"
  /\ fresh = FALSE
-----------------------------------------------------------------------------
(* Variant: a state not yet taken by animation_task is not overwritten. *)
StateLoop_FirstWrite(e, sdl, edl) ==
  LET next == on_event(sm, e) IN
  /\ sm' = next
  /\ published' = IF next # sm /\ published = "None" THEN next ELSE published
  /\ confirmed' = (confirmed \/ (next # sm /\ next = "Signing"))
  /\ sessionDl' = session_timer(next, e, sdl)
  /\ errorDl' = error_timer(next, edl)
  /\ UNCHANGED <<shown, dispatch, service, fresh>>

(* state_task: one pass of the loop with its next event. *)
StateLoop(e, sdl, edl) ==
  LET next == on_event(sm, e) IN
  /\ sm' = next
  /\ published' = IF next # sm THEN next ELSE published
  /\ confirmed' = (confirmed \/ (next # sm /\ next = "Signing"))
  /\ sessionDl' = session_timer(next, e, sdl)
  /\ errorDl' = error_timer(next, edl)
  /\ UNCHANGED <<shown, dispatch, service, fresh>>

state_task ==
  /\ queue # <<>>
  /\ queue' = Tail(queue)
  /\ draining' = (Tail(queue) # <<>>)
  /\ StateLoop(Head(queue), sessionDl, errorDl)

(***************************************************************************)
(* The channel is empty and the timer of the select fires: one of the      *)
(* deadlines, or the one-hour stand-in when neither is armed.              *)
(***************************************************************************)
derive_timer_event ==
  /\ queue = <<>>
  /\ UNCHANGED <<queue, draining>>
  /\ \/ sessionDl = 0 /\ StateLoop("SessionEnded", Off, errorDl)
     \/ sessionDl # 0 /\ errorDl = 0 /\ StateLoop("ErrorDisplayElapsed", sessionDl, Off)
     \/ sessionDl = Off /\ errorDl = Off /\ StateLoop("SessionEnded", Off, Off)

animation_task ==
  /\ ~ draining /\ published # "None"
  /\ shown' = published
  /\ published' = "None"
  /\ UNCHANGED <<stateTask, queue, confirmed, dispatch, service, fresh>>

(* Variant: presses without a debouncer. *)
touch_task_Bouncing ==
  /\ ~ draining
  /\ queue' = post_event(queue, "TouchPressed")
  /\ fresh' = (fresh \/ disp = "waiting")
  /\ UNCHANGED <<stateTask, confirmed, published, shown, dispatch, service>>

(***************************************************************************)
(* touch_task: the debouncer accepts a press.  Presses are at least ten    *)
(* samples apart, so state_task has taken the previous one.                *)
(***************************************************************************)
touch_task ==
  /\ ~ draining /\ ~ Holds(queue, "TouchPressed")
  /\ queue' = post_event(queue, "TouchPressed")
  /\ fresh' = (fresh \/ disp = "waiting")
  /\ UNCHANGED <<stateTask, confirmed, published, shown, dispatch, service>>
-----------------------------------------------------------------------------
(* Write the response and go back to reading reports. *)
Respond(status) ==
  /\ disp' = "idle" /\ kind' = "None" /\ touchLeft' = Off /\ since' = 0
  /\ resp' = status
  /\ fresh' = FALSE

(* A report that no handler accepts: bad frame, opcode, payload or slot. *)
handle_one_request ==
  /\ ~ draining /\ disp = "idle"
  /\ Respond("Invalid")
  /\ UNCHANGED <<stateTask, queue, confirmed, published, shown, service>>

(* The handlers that await chip commands; set_puk asks for a session first. *)
handle_chip_request == \E k \in ChipKinds :
  /\ ~ draining /\ disp = "idle"
  /\ IF k = "SetPuk" /\ ~ is_session_active
     THEN Respond("PinRequired")
     ELSE /\ disp' = "chip" /\ kind' = k /\ since' = 0 /\ resp' = "None"
          /\ UNCHANGED <<touchLeft, fresh>>
  /\ UNCHANGED <<stateTask, queue, confirmed, published, shown, service>>

(***************************************************************************)
(* The method returns.  It has awaited at least the chip's wake-up delay,  *)
(* so state_task has taken what the previous request posted.  Only         *)
(* VerifyPin tells the state machine.                                      *)
(***************************************************************************)
ChipRequestDone ==
  /\ ~ draining /\ disp = "chip"
  /\ HoldsOnly(queue, "TouchPressed")
  /\ \/ /\ Respond("Ok")
        /\ open' = (open \/ kind \in {"VerifyPin", "SetPin"})
        /\ age' = CASE kind \in {"VerifyPin", "SetPin"} -> 0
                    [] kind = "SetPuk" /\ open          -> since
                    [] OTHER                            -> age
        /\ queue' = IF kind = "VerifyPin" THEN post_event(queue, "PinVerified")
                    ELSE queue
     \/ Respond("Error") /\ UNCHANGED <<service, queue>>
  /\ UNCHANGED <<stateTask, confirmed, published, shown>>

handle_close_session ==
  /\ ~ draining /\ disp = "idle"
  /\ open' = FALSE /\ age' = 0
  /\ Respond("Ok")
  /\ UNCHANGED <<stateTask, queue, confirmed, published, shown>>

(* Variant: a pulse left by an earlier request is not drained. *)
handle_sign_NoReset ==
  /\ ~ draining /\ disp = "idle"
  /\ IF is_session_active
     THEN /\ queue' = post_event(queue, "SignRequested")
          /\ disp' = "waiting" /\ kind' = "Sign"
          /\ touchLeft' = TOUCH_TIMEOUT
          /\ resp' = "None" /\ fresh' = FALSE
          /\ UNCHANGED since
     ELSE Respond("PinRequired") /\ UNCHANGED queue
  /\ UNCHANGED <<stateTask, confirmed, published, shown, service>>

(* Variant: the touch wait has no timer. *)
handle_sign_NoTimer ==
  /\ ~ draining /\ disp = "idle"
  /\ IF is_session_active
     THEN /\ confirmed' = FALSE
          /\ queue' = post_event(queue, "SignRequested")
          /\ disp' = "waiting" /\ kind' = "Sign"
          /\ resp' = "None" /\ fresh' = FALSE
          /\ UNCHANGED <<touchLeft, since>>
     ELSE Respond("PinRequired") /\ UNCHANGED <<confirmed, queue>>
  /\ UNCHANGED <<stateTask, published, shown, service>>

(* handle_sign up to its select. *)
handle_sign ==
  /\ ~ draining /\ disp = "idle"
  /\ IF is_session_active
     THEN /\ confirmed' = FALSE
          /\ queue' = post_event(queue, "SignRequested")
          /\ disp' = "waiting" /\ kind' = "Sign"
          /\ touchLeft' = TOUCH_TIMEOUT
          /\ resp' = "None" /\ fresh' = FALSE
          /\ UNCHANGED since
     ELSE Respond("PinRequired") /\ UNCHANGED <<confirmed, queue>>
  /\ UNCHANGED <<stateTask, published, shown, service>>

(* Variant: the state machine is not told of the timeout. *)
SignTimeout_Silent ==
  /\ ~ draining /\ disp = "waiting" /\ touchLeft = 0
  /\ Respond("TouchTimeout")
  /\ UNCHANGED <<stateTask, queue, confirmed, published, shown, service>>

(* select polls the timer first. *)
SignTimeout ==
  /\ ~ draining /\ disp = "waiting" /\ touchLeft = 0
  /\ queue' = post_event(queue, "TouchTimeout")
  /\ Respond("TouchTimeout")
  /\ UNCHANGED <<stateTask, confirmed, published, shown, service>>

(* The pulse arrived: service.sign reads the clock and checks the session. *)
SignConfirmed ==
  /\ ~ draining /\ disp = "waiting" /\ touchLeft # 0 /\ confirmed
  /\ confirmed' = FALSE
  /\ IF is_session_active
     THEN /\ disp' = "signing" /\ touchLeft' = Off /\ since' = 0
          /\ UNCHANGED <<queue, kind, resp, fresh>>
     ELSE /\ queue' = post_event(post_event(queue, "SignComplete"), "ErrorRaised")
          /\ Respond("PinRequired")
  /\ UNCHANGED <<stateTask, published, shown, service>>

SignDone ==
  /\ ~ draining /\ disp = "signing"
  /\ \/ /\ queue' = post_event(queue, "SignComplete")
        /\ age' = IF open THEN since ELSE age
        /\ Respond("Ok")
     \/ /\ queue' = post_event(post_event(queue, "SignComplete"), "ErrorRaised")
        /\ Respond("Error")
        /\ UNCHANGED age
  /\ UNCHANGED <<stateTask, confirmed, published, shown, open>>
-----------------------------------------------------------------------------
Ready ==
  \/ queue # <<>> \/ published # "None"
  \/ sessionDl = 0 \/ errorDl = 0
  \/ disp = "waiting" /\ (confirmed \/ touchLeft = 0)

(* Variant: the wait for a deadline is computed without a check. *)
Sooner_Unchecked(t) == t - 1

Sooner(t) == IF t > 0 THEN t - 1 ELSE t
Later(t) == IF t < SESSION_TIMEOUT THEN t + 1 ELSE t

Tick ==
  /\ ~ Ready
  /\ sessionDl' = Sooner(sessionDl)
  /\ errorDl' = Sooner(errorDl)
  /\ touchLeft' = Sooner(touchLeft)
  /\ age' = IF open THEN Later(age) ELSE age
  /\ since' = IF kind = "SetPuk" \/ disp = "signing" THEN Later(since) ELSE since
  /\ UNCHANGED <<sm, draining, queue, confirmed, published, shown, disp, kind, open,
                 resp, fresh>>

Dispatch ==
  \/ handle_one_request \/ handle_chip_request \/ handle_close_session
  \/ handle_sign
  \/ ChipRequestDone \/ SignTimeout \/ SignConfirmed \/ SignDone

Next ==
  \/ state_task \/ derive_timer_event \/ animation_task \/ touch_task
  \/ Dispatch \/ Tick

Spec == Init /\ [][Next]_vars

(***************************************************************************)
(* Fairness: the executor polls every woken task in each of its rounds, a  *)
(* chip command ends (the driver bounds its polls) and time passes.        *)
(* Another task's turn interrupts a step's enabledness, hence strong       *)
(* fairness.  Nothing is assumed of the host and of the user.              *)
(***************************************************************************)
Fairness ==
  /\ WF_vars(state_task)
  /\ SF_vars(derive_timer_event) /\ SF_vars(animation_task)
  /\ SF_vars(SignTimeout) /\ SF_vars(SignConfirmed)
  /\ SF_vars(ChipRequestDone) /\ SF_vars(SignDone)
  /\ SF_vars(Tick)

FairSpec == Spec /\ Fairness
-----------------------------------------------------------------------------
Statuses == {"None", "Ok", "Invalid", "PinRequired", "TouchTimeout", "Error"}

(* Type invariant. *)
TypeOK ==
  /\ sm \in TokenStates
  /\ sessionDl \in Off..SESSION_TIMEOUT
  /\ errorDl \in Off..ERROR_DISPLAY
  /\ draining \in BOOLEAN
  /\ queue \in Seq(Events)
  /\ confirmed \in BOOLEAN
  /\ published \in TokenStates \cup {"None"}
  /\ shown \in TokenStates \cup {"None"}
  /\ disp \in {"idle", "chip", "waiting", "signing"}
  /\ kind \in ChipKinds \cup {"Sign", "None"}
  /\ touchLeft \in Off..TOUCH_TIMEOUT
  /\ since \in 0..SESSION_TIMEOUT
  /\ open \in BOOLEAN
  /\ age \in 0..SESSION_TIMEOUT
  /\ resp \in Statuses
  /\ fresh \in BOOLEAN

(***************************************************************************)
(* No signature without a fresh touch: when the service is asked to sign,  *)
(* the button was pressed after this very request was accepted.  A press   *)
(* left in the channel, or a pulse left by a request that timed out, never *)
(* authorises a later one (handle_sign, TOUCH_CONFIRMED.reset).            *)
(***************************************************************************)
SignatureNeedsFreshTouch == disp = "signing" => fresh

(***************************************************************************)
(* The state machine is in Signing for as long as the service signs, also  *)
(* when the session deadline passes meanwhile.                             *)
(***************************************************************************)
SigningShown == disp = "signing" => sm = "Signing"

(***************************************************************************)
(* The yellow light does not outlive the request: the machine waits for a  *)
(* touch only while handle_sign does, or its TouchTimeout is on its way.   *)
(***************************************************************************)
WaitingIsReal ==
  sm = "WaitingForTouch" => disp = "waiting" \/ Holds(queue, "TouchTimeout")

(***************************************************************************)
(* The channel always has room, so post_event drops nothing.               *)
(***************************************************************************)
RoomInQueue == Len(queue) < EVENT_QUEUE_DEPTH

(***************************************************************************)
(* The LEDs show the current state or the signal that will correct them is *)
(* pending, although TOKEN_STATE keeps the last write only.                *)
(***************************************************************************)
LedsFollow == shown = sm \/ published = sm

(* Every request is answered, whether or not the user touches the button. *)
RequestAnswered == disp # "idle" ~> disp = "idle"

(* The error display always ends. *)
ErrorClears == sm = "Error" ~> sm # "Error"
-----------------------------------------------------------------------------
(***************************************************************************)
(* The parts of the inductive invariant behind SignatureNeedsFreshTouch,   *)
(* SigningShown and WaitingIsReal.                                         *)
(***************************************************************************)

(* While a Sign waits untouched no pulse is pending, and a press in the *)
(* channel comes before the request that could make it count.           *)
Untouched ==
  disp = "waiting" /\ ~ fresh =>
    /\ ~ confirmed
    /\ \/ ~ Holds(queue, "TouchPressed")
       \/ /\ sm # "WaitingForTouch"
          /\ \A i, j \in 1..Len(queue) :
               queue[i] = "SignRequested" /\ queue[j] = "TouchPressed" => j < i

(* SignRequested is only in the channel at the start of its own wait, and *)
(* only presses follow it.                                                *)
RequestQueued ==
  /\ Holds(queue, "SignRequested") =>
       /\ disp = "waiting" /\ touchLeft = TOUCH_TIMEOUT
       /\ ~ confirmed /\ sm # "WaitingForTouch"
  /\ \A i, j \in 1..Len(queue) :
       queue[i] = "SignRequested" /\ i < j => queue[j] = "TouchPressed"

(* A touch window is as long as a session, so a TouchTimeout in the channel *)
(* means that no further Sign can be accepted before it is handled.         *)
TimeoutQueued ==
  Holds(queue, "TouchTimeout") => disp \in {"idle", "chip"} /\ ~ is_session_active

WindowCoversSession ==
  disp = "waiting" =>
    /\ touchLeft >= 0
    /\ open => age + touchLeft >= SESSION_TIMEOUT

(* Once the request in progress has reached the machine, or time has *)
(* passed, the channel holds nothing but presses.                    *)
OnlyPresses ==
  /\ disp = "signing" => sm = "Signing" /\ HoldsOnly(queue, "TouchPressed")
  /\ disp = "waiting" /\ confirmed => sm = "Signing"
  /\ disp = "waiting" /\ (sm = "WaitingForTouch" \/ confirmed) =>
       HoldsOnly(queue, "TouchPressed")
  /\ disp = "waiting" /\ touchLeft # TOUCH_TIMEOUT =>
       HoldsOnly(queue, "TouchPressed") /\ Len(queue) <= 1

TouchInv ==
  /\ TypeOK /\ SignatureNeedsFreshTouch /\ WaitingIsReal /\ Untouched
  /\ RequestQueued /\ TimeoutQueued /\ WindowCoversSession /\ OnlyPresses

(* Behind RoomInQueue: one press at most, two other events when a request  *)
(* ends, and the SignRequested of the next.                                *)
OnePress ==
  \A i, j \in 1..Len(queue) :
    queue[i] = "TouchPressed" /\ queue[j] = "TouchPressed" => i = j

QueueBound ==
  /\ OnePress
  /\ Len(queue) <= 4
  /\ disp \in {"idle", "chip"} => Len(queue) <= 3
  /\ ~ Holds(queue, "TouchPressed") =>
       /\ Len(queue) <= 3
       /\ disp \in {"idle", "chip"} => Len(queue) <= 2

(* Behind LedsFollow: a pending signal is never out of date. *)
SignalCurrent == published = sm \/ (published = "None" /\ shown = sm)
-----------------------------------------------------------------------------
(***************************************************************************)
(* What the repository's comments and docs say and the code does not do.   *)
(***************************************************************************)

(***************************************************************************)
(* handle_sign's comment: SignComplete is fired on error too "so the SM    *)
(* does not stay stuck in Signing".                                        *)
(***************************************************************************)
SigningEnds == sm = "Signing" ~> sm # "Signing"

(***************************************************************************)
(* is_session_active's comment: the check before arming the touch wait     *)
(* makes the request fail fast rather than after a pointless wait.         *)
(***************************************************************************)
AcceptedCanBeConfirmed ==
  disp = "waiting" /\ queue = <<>> /\ touchLeft > 0 =>
    sm \in {"WaitingForTouch", "Signing"}
=============================================================================
