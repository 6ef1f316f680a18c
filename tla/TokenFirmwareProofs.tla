------------------------- MODULE TokenFirmwareProofs -------------------------
(***************************************************************************)
(* Proofs about TokenFirmware for every length of the session, of the      *)
(* touch window and of the error display, and every channel capacity, as   *)
(* TimesAssumption allows them.                                            *)
(***************************************************************************)
EXTENDS TokenFirmware, TLAPS

(***************************************************************************)
(* The channel: what taking the first event and posting one leave in it.   *)
(***************************************************************************)
LEMMA TakeEvent ==
  ASSUME NEW q \in Seq(Events), q # <<>>
  PROVE  /\ Head(q) \in Events /\ Head(q) = q[1] /\ Len(q) >= 1 /\ Len(q) \in Nat
         /\ Tail(q) \in Seq(Events)
         /\ Len(Tail(q)) = Len(q) - 1
         /\ \A i \in 1..Len(q) - 1 : Tail(q)[i] = q[i + 1]
  OBVIOUS

LEMMA PostEvent ==
  ASSUME NEW q \in Seq(Events), NEW e \in Events
  PROVE  /\ post_event(q, e) \in Seq(Events)
         /\ Len(q) \in Nat
         /\ \/ post_event(q, e) = q
            \/ /\ Len(post_event(q, e)) = Len(q) + 1
               /\ post_event(q, e)[Len(q) + 1] = e
               /\ \A i \in 1..Len(q) : post_event(q, e)[i] = q[i]
         /\ Len(q) <= 1 => Len(post_event(q, e)) = Len(q) + 1
  BY TimesAssumption DEF post_event

LEMMA HoldsTake ==
  ASSUME NEW q \in Seq(Events), q # <<>>, NEW x
  PROVE  /\ Holds(Tail(q), x) => Holds(q, x)
         /\ Holds(q, x) /\ Head(q) # x => Holds(Tail(q), x)
         /\ HoldsOnly(q, x) => Head(q) = x /\ HoldsOnly(Tail(q), x)
  <1>1. Len(q) \in Nat /\ Len(q) >= 1 /\ Head(q) = q[1] /\ Len(Tail(q)) = Len(q) - 1
        /\ \A i \in 1..Len(q) - 1 : Tail(q)[i] = q[i + 1]
    BY TakeEvent
  <1>2. Holds(Tail(q), x) => Holds(q, x)
    <2> SUFFICES ASSUME NEW i \in 1..Len(Tail(q)), Tail(q)[i] = x PROVE Holds(q, x)
      BY DEF Holds
    <2>1. i + 1 \in 1..Len(q) /\ q[i + 1] = x BY <1>1
    <2>2. QED BY <2>1 DEF Holds
  <1>3. Holds(q, x) /\ Head(q) # x => Holds(Tail(q), x)
    <2> SUFFICES ASSUME NEW i \in 1..Len(q), q[i] = x, Head(q) # x
                 PROVE  Holds(Tail(q), x)
      BY DEF Holds
    <2>1. i - 1 \in 1..Len(Tail(q)) /\ Tail(q)[i - 1] = x BY <1>1
    <2>2. QED BY <2>1 DEF Holds
  <1>4. HoldsOnly(q, x) => Head(q) = x /\ HoldsOnly(Tail(q), x)
    BY <1>1 DEF HoldsOnly
  <1>5. QED BY <1>2, <1>3, <1>4

LEMMA HoldsPost ==
  ASSUME NEW q \in Seq(Events), NEW e \in Events, NEW x
  PROVE  /\ Holds(post_event(q, e), x) => Holds(q, x) \/ x = e
         /\ Holds(q, x) => Holds(post_event(q, e), x)
         /\ Len(q) <= 1 => Holds(post_event(q, e), e)
         /\ HoldsOnly(q, e) => HoldsOnly(post_event(q, e), e)
  <1> DEFINE p == post_event(q, e)
  <1>1. Len(q) \in Nat BY PostEvent
  <1>2. \/ p = q
        \/ Len(p) = Len(q) + 1 /\ p[Len(q) + 1] = e /\ \A i \in 1..Len(q) : p[i] = q[i]
    BY PostEvent
  <1>3. Len(q) <= 1 => Len(p) = Len(q) + 1 BY PostEvent
  <1> HIDE DEF p
  <1>4. Holds(p, x) => Holds(q, x) \/ x = e BY <1>1, <1>2 DEF Holds
  <1>5. Holds(q, x) => Holds(p, x) BY <1>1, <1>2 DEF Holds
  <1>6. Len(q) <= 1 => Holds(p, e)
    <2> SUFFICES ASSUME Len(q) <= 1 PROVE Holds(p, e) OBVIOUS
    <2>1. Len(q) + 1 \in 1..Len(p) /\ p[Len(q) + 1] = e BY <1>1, <1>2, <1>3
    <2>2. QED BY <2>1 DEF Holds
  <1>7. HoldsOnly(q, e) => HoldsOnly(p, e) BY <1>1, <1>2 DEF HoldsOnly
  <1>8. QED BY <1>4, <1>5, <1>6, <1>7 DEF p
-----------------------------------------------------------------------------
LEMMA OnEventType ==
  ASSUME NEW s \in TokenStates, NEW e \in Events
  PROVE  on_event(s, e) \in TokenStates
  BY DEF on_event, TokenStates, Events

LEMMA StateLoopType ==
  ASSUME TypeOK, NEW e \in Events,
         NEW sdl \in Off..SESSION_TIMEOUT, NEW edl \in Off..ERROR_DISPLAY,
         StateLoop(e, sdl, edl), queue' \in Seq(Events), draining' \in BOOLEAN
  PROVE  TypeOK'
  <1>1. sm' \in TokenStates /\ published' \in TokenStates \cup {"None"}
    BY OnEventType DEF StateLoop, TypeOK
  <1>2. sessionDl' \in Off..SESSION_TIMEOUT /\ errorDl' \in Off..ERROR_DISPLAY
    BY TimesAssumption DEF StateLoop, TypeOK, session_timer, error_timer, Off
  <1>3. confirmed' \in BOOLEAN
    BY Zenon DEF StateLoop, TypeOK
  <1>4. QED
    BY <1>1, <1>2, <1>3 DEF StateLoop, TypeOK, dispatch, service

LEMMA RespondType ==
  ASSUME NEW st \in Statuses, Respond(st)
  PROVE  /\ disp' \in {"idle", "chip", "waiting", "signing"}
         /\ kind' \in ChipKinds \cup {"Sign", "None"}
         /\ touchLeft' \in Off..TOUCH_TIMEOUT
         /\ since' \in 0..SESSION_TIMEOUT
         /\ resp' \in Statuses
         /\ fresh' \in BOOLEAN
  <1>1. fresh' \in BOOLEAN BY Zenon DEF Respond
  <1>2. QED BY <1>1, TimesAssumption DEF Respond, Off

LEMMA TypeStep ==
  ASSUME TypeOK, Next
  PROVE  TypeOK'
  <1> USE DEF stateTask, dispatch, service
  <1>0. \A e \in Events : post_event(queue, e) \in Seq(Events)
    BY PostEvent DEF TypeOK
  <1>1. CASE state_task
    <2>1. Head(queue) \in Events /\ queue' \in Seq(Events)
      BY <1>1, TakeEvent DEF state_task, TypeOK
    <2>2. draining' \in BOOLEAN BY <1>1, Zenon DEF state_task
    <2>3. QED BY <1>1, <2>1, <2>2, StateLoopType DEF state_task, TypeOK
  <1>2. CASE derive_timer_event
    <2>1. Off \in Off..SESSION_TIMEOUT /\ Off \in Off..ERROR_DISPLAY
      BY TimesAssumption DEF Off
    <2>2. "SessionEnded" \in Events /\ "ErrorDisplayElapsed" \in Events BY DEF Events
    <2>3. queue' \in Seq(Events) /\ draining' \in BOOLEAN
      BY <1>2 DEF derive_timer_event, TypeOK
    <2>4. QED BY <1>2, <2>1, <2>2, <2>3, StateLoopType DEF derive_timer_event, TypeOK
  <1>3. CASE animation_task
    BY <1>3 DEF animation_task, TypeOK
  <1>4. CASE touch_task
    <2>1. fresh' \in BOOLEAN BY <1>4, Zenon DEF touch_task, TypeOK
    <2>2. queue' \in Seq(Events) BY <1>4, <1>0 DEF touch_task, Events
    <2>3. QED BY <1>4, <2>1, <2>2 DEF touch_task, TypeOK
  <1>5. CASE handle_one_request
    BY <1>5, RespondType DEF handle_one_request, TypeOK, Statuses
  <1>6. CASE handle_chip_request
    <2> PICK k \in ChipKinds : handle_chip_request!(k) BY <1>6 DEF handle_chip_request
    <2>1. CASE k = "SetPuk" /\ ~ is_session_active
      <3>1. Respond("PinRequired") BY <2>1
      <3>2. QED BY <3>1, RespondType DEF TypeOK, Statuses
    <2>2. CASE ~ (k = "SetPuk" /\ ~ is_session_active)
      BY <2>2, TimesAssumption DEF TypeOK, Statuses
    <2>3. QED BY <2>1, <2>2
  <1>7. CASE ChipRequestDone
    <2>1. Respond("Ok") \/ Respond("Error") BY <1>7 DEF ChipRequestDone
    <2>2. open' \in BOOLEAN BY <1>7, Zenon DEF ChipRequestDone, TypeOK
    <2>3. age' \in 0..SESSION_TIMEOUT
      BY <1>7, TimesAssumption DEF ChipRequestDone, TypeOK
    <2>4. queue' \in Seq(Events)
      BY <1>7, <1>0 DEF ChipRequestDone, TypeOK, Events
    <2>5. UNCHANGED <<stateTask, confirmed, published, shown>>
      BY <1>7 DEF ChipRequestDone
    <2>6. QED BY <2>1, <2>2, <2>3, <2>4, <2>5, RespondType DEF TypeOK, Statuses
  <1>8. CASE handle_close_session
    <2>1. open' \in BOOLEAN BY <1>8, Zenon DEF handle_close_session
    <2>2. QED BY <1>8, <2>1, RespondType, TimesAssumption
              DEF handle_close_session, TypeOK, Statuses
  <1>9. CASE handle_sign
    <2>1. CASE is_session_active
      <3>1. confirmed' \in BOOLEAN /\ fresh' \in BOOLEAN
        BY <1>9, <2>1, Zenon DEF handle_sign
      <3>2. queue' \in Seq(Events)
        BY <1>9, <2>1, <1>0 DEF handle_sign, Events
      <3>3. QED BY <1>9, <2>1, <3>1, <3>2, TimesAssumption
                DEF handle_sign, TypeOK, Statuses, Off
    <2>2. CASE ~ is_session_active
      BY <1>9, <2>2, RespondType DEF handle_sign, TypeOK, Statuses
    <2>3. QED BY <2>1, <2>2
  <1>10. CASE SignTimeout
    <2>1. queue' \in Seq(Events) BY <1>10, <1>0 DEF SignTimeout, Events
    <2>2. QED BY <1>10, <2>1, RespondType DEF SignTimeout, TypeOK, Statuses
  <1>11. CASE SignConfirmed
    <2>1. confirmed' \in BOOLEAN BY <1>11, Zenon DEF SignConfirmed
    <2>2. CASE is_session_active
      BY <1>11, <2>1, <2>2, TimesAssumption DEF SignConfirmed, TypeOK, Off
    <2>3. CASE ~ is_session_active
      <3>1. queue' \in Seq(Events)
        BY <1>11, <2>3, <1>0, PostEvent DEF SignConfirmed, Events
      <3>2. QED BY <1>11, <2>1, <2>3, <3>1, RespondType
                DEF SignConfirmed, TypeOK, Statuses
    <2>4. QED BY <2>2, <2>3
  <1>12. CASE SignDone
    <2>1. queue' \in Seq(Events)
      <3>1. "SignComplete" \in Events /\ "ErrorRaised" \in Events BY DEF Events
      <3>2. post_event(post_event(queue, "SignComplete"), "ErrorRaised") \in Seq(Events)
        BY <1>0, <3>1, PostEvent
      <3>3. QED BY <1>12, <1>0, <3>1, <3>2 DEF SignDone
    <2>2. age' \in 0..SESSION_TIMEOUT BY <1>12 DEF SignDone, TypeOK
    <2>3. Respond("Ok") \/ Respond("Error") BY <1>12 DEF SignDone
    <2>4. QED BY <1>12, <2>1, <2>2, <2>3, RespondType DEF SignDone, TypeOK, Statuses
  <1>13. CASE Tick
    BY <1>13, TimesAssumption DEF Tick, TypeOK, Sooner, Later, Off
  <1>14. QED
    BY <1>1, <1>2, <1>3, <1>4, <1>5, <1>6, <1>7, <1>8, <1>9, <1>10, <1>11,
       <1>12, <1>13
    DEF Next, Dispatch

(***************************************************************************)
(* The type invariant holds in every reachable state.                      *)
(***************************************************************************)
THEOREM FirmwareTypeCorrect == Spec => []TypeOK
  <1>1. Init => TypeOK
    <2> SUFFICES ASSUME Init PROVE TypeOK OBVIOUS
    <2>1. queue \in Seq(Events) BY DEF Init, Events
    <2>2. draining \in BOOLEAN /\ confirmed \in BOOLEAN /\ open \in BOOLEAN /\ fresh \in BOOLEAN
      BY Zenon DEF Init
    <2>3. QED BY <2>1, <2>2, TimesAssumption
              DEF Init, TypeOK, Off, TokenStates, Statuses
  <1>2. TypeOK /\ [Next]_vars => TypeOK'
    <2>1. TypeOK /\ UNCHANGED vars => TypeOK' BY DEF TypeOK, vars
    <2>2. QED BY <2>1, TypeStep
  <1>3. QED BY <1>1, <1>2, PTL DEF Spec
-----------------------------------------------------------------------------
(***************************************************************************)
(* One pass of state_task's loop, by what it can do to the state: only     *)
(* SignRequested leads to WaitingForTouch, only a press there to Signing,  *)
(* and only SignComplete and ErrorRaised away from Signing.                *)
(***************************************************************************)
LEMMA OnEventCases ==
  ASSUME NEW s \in TokenStates, NEW e \in Events
  PROVE  /\ on_event(s, e) = "WaitingForTouch" =>
              s = "WaitingForTouch" \/ e = "SignRequested"
         /\ on_event(s, e) = "Signing" /\ s # "Signing" =>
              s = "WaitingForTouch" /\ e = "TouchPressed"
         /\ s = "Signing" /\ e \notin {"SignComplete", "ErrorRaised"} =>
              on_event(s, e) = "Signing"
         /\ s = "WaitingForTouch" /\ e = "TouchTimeout" =>
              on_event(s, e) # "WaitingForTouch"
         /\ s = "WaitingForTouch" /\ e = "TouchPressed" => on_event(s, e) = "Signing"
  BY DEF on_event, TokenStates, Events

LEMMA TakeStep ==
  ASSUME TouchInv, state_task
  PROVE  /\ SignatureNeedsFreshTouch' /\ WaitingIsReal' /\ Untouched'
         /\ RequestQueued' /\ TimeoutQueued' /\ WindowCoversSession' /\ OnlyPresses'
  <1> DEFINE e == Head(queue)
  <1>1. TypeOK /\ queue \in Seq(Events) /\ queue # <<>> BY DEF TouchInv, TypeOK, state_task
  <1>2. /\ e \in Events /\ e = queue[1] /\ Len(queue) >= 1 /\ Len(queue) \in Nat
        /\ queue' \in Seq(Events)
        /\ Len(queue') = Len(queue) - 1
        /\ \A i \in 1..Len(queue) - 1 : queue'[i] = queue[i + 1]
    BY <1>1, TakeEvent DEF state_task
  <1>3. /\ \A x : Holds(queue', x) => Holds(queue, x)
        /\ \A x : Holds(queue, x) /\ e # x => Holds(queue', x)
        /\ \A x : HoldsOnly(queue, x) => e = x /\ HoldsOnly(queue', x)
    BY <1>1, HoldsTake DEF state_task
  <1>4. /\ sm' = on_event(sm, e) /\ sm \in TokenStates
        /\ confirmed' = (confirmed \/ (sm' # sm /\ sm' = "Signing"))
        /\ UNCHANGED <<disp, kind, touchLeft, since, resp, open, age, fresh>>
    BY <1>1 DEF state_task, StateLoop, dispatch, service, TypeOK
  <1>5. Holds(queue, e) BY <1>2 DEF Holds
  <1> HIDE DEF e
  <1>6. SignatureNeedsFreshTouch' BY <1>4 DEF TouchInv, SignatureNeedsFreshTouch
  <1>7. WindowCoversSession' BY <1>4 DEF TouchInv, WindowCoversSession
  <1>8. TimeoutQueued'
    BY <1>3, <1>4 DEF TouchInv, TimeoutQueued, is_session_active
  <1>9. WaitingIsReal'
    <2> SUFFICES ASSUME sm' = "WaitingForTouch", disp # "waiting"
                 PROVE  Holds(queue', "TouchTimeout")
      BY <1>4 DEF WaitingIsReal
    <2>1. e # "SignRequested" BY <1>5 DEF TouchInv, RequestQueued
    <2>2. sm = "WaitingForTouch" /\ e # "TouchTimeout"
      BY <2>1, <1>2, <1>4, OnEventCases
    <2>3. QED BY <2>2, <1>3 DEF TouchInv, WaitingIsReal
  <1>10. RequestQueued'
    <2>1. \A i, j \in 1..Len(queue') :
            queue'[i] = "SignRequested" /\ i < j => queue'[j] = "TouchPressed"
      <3> SUFFICES ASSUME NEW i \in 1..Len(queue'), NEW j \in 1..Len(queue'),
                          queue'[i] = "SignRequested", i < j
                   PROVE  queue'[j] = "TouchPressed"
        OBVIOUS
      <3>1. i + 1 \in 1..Len(queue) /\ j + 1 \in 1..Len(queue) /\ i + 1 < j + 1
            /\ queue[i + 1] = "SignRequested" /\ queue'[j] = queue[j + 1]
        BY <1>2
      <3>2. QED BY <3>1 DEF TouchInv, RequestQueued
    <2>2. ASSUME Holds(queue', "SignRequested")
          PROVE  e # "SignRequested"
      <3>1. PICK i \in 1..Len(queue') : queue'[i] = "SignRequested" BY <2>2 DEF Holds
      <3>2. i + 1 \in 1..Len(queue) /\ 1 \in 1..Len(queue) /\ 1 < i + 1
            /\ queue[i + 1] = "SignRequested"
        BY <1>2, <3>1
      <3>3. queue[1] = "SignRequested" => queue[i + 1] = "TouchPressed"
        BY <3>2 DEF TouchInv, RequestQueued
      <3>4. QED BY <3>2, <3>3, <1>2
    <2>3. ASSUME Holds(queue', "SignRequested")
          PROVE  /\ disp' = "waiting" /\ touchLeft' = TOUCH_TIMEOUT
                 /\ ~ confirmed' /\ sm' # "WaitingForTouch"
      <3>1. /\ disp = "waiting" /\ touchLeft = TOUCH_TIMEOUT
            /\ ~ confirmed /\ sm # "WaitingForTouch"
        BY <2>3, <1>3 DEF TouchInv, RequestQueued
      <3>2. sm' # "WaitingForTouch" /\ (sm' = "Signing" => sm = "Signing")
        BY <2>2, <2>3, <3>1, <1>2, <1>4, OnEventCases
      <3>3. QED BY <3>1, <3>2, <1>4
    <2>4. QED BY <2>1, <2>3 DEF RequestQueued
  <1>11. Untouched'
    <2> SUFFICES ASSUME disp = "waiting", ~ fresh
                 PROVE  /\ ~ confirmed'
                        /\ \/ ~ Holds(queue', "TouchPressed")
                           \/ /\ sm' # "WaitingForTouch"
                              /\ \A i, j \in 1..Len(queue') :
                                   queue'[i] = "SignRequested" /\ queue'[j] = "TouchPressed"
                                     => j < i
      BY <1>4 DEF Untouched
    <2>1. ~ confirmed BY DEF TouchInv, Untouched
    <2>2. CASE ~ Holds(queue, "TouchPressed")
      <3>1. e # "TouchPressed" BY <2>2, <1>5
      <3>2. sm' = "Signing" => sm = "Signing" BY <3>1, <1>2, <1>4, OnEventCases
      <3>3. QED BY <2>1, <2>2, <3>2, <1>3, <1>4
    <2>3. CASE /\ sm # "WaitingForTouch"
               /\ \A i, j \in 1..Len(queue) :
                    queue[i] = "SignRequested" /\ queue[j] = "TouchPressed" => j < i
      <3>1. sm' = "Signing" => sm = "Signing" BY <2>3, <1>2, <1>4, OnEventCases
      <3>2. ~ confirmed' BY <2>1, <3>1, <1>4
      <3>3. \A i, j \in 1..Len(queue') :
              queue'[i] = "SignRequested" /\ queue'[j] = "TouchPressed" => j < i
        <4> SUFFICES ASSUME NEW i \in 1..Len(queue'), NEW j \in 1..Len(queue'),
                            queue'[i] = "SignRequested", queue'[j] = "TouchPressed"
                     PROVE  j < i
          OBVIOUS
        <4>1. i + 1 \in 1..Len(queue) /\ j + 1 \in 1..Len(queue)
              /\ queue[i + 1] = "SignRequested" /\ queue[j + 1] = "TouchPressed"
          BY <1>2
        <4>2. j + 1 < i + 1 BY <4>1, <2>3
        <4>3. QED BY <4>2, <1>2
      <3>4. CASE e # "SignRequested"
        <4>1. sm' # "WaitingForTouch" BY <3>4, <2>3, <1>2, <1>4, OnEventCases
        <4>2. QED BY <3>2, <3>3, <4>1
      <3>5. CASE e = "SignRequested"
        <4>1. ~ Holds(queue', "TouchPressed")
          <5> SUFFICES ASSUME NEW j \in 1..Len(queue'), queue'[j] = "TouchPressed"
                       PROVE  FALSE
            BY DEF Holds
          <5>1. 1 \in 1..Len(queue) /\ j + 1 \in 1..Len(queue)
                /\ queue[1] = "SignRequested" /\ queue[j + 1] = "TouchPressed"
            BY <3>5, <1>2
          <5>2. j + 1 < 1 BY <5>1, <2>3
          <5>3. QED BY <5>2, <1>2
        <4>2. QED BY <3>2, <4>1
      <3>6. QED BY <3>4, <3>5
    <2>4. QED BY <2>2, <2>3 DEF TouchInv, Untouched
  <1>12. OnlyPresses'
    <2>1. disp = "signing" => sm' = "Signing" /\ HoldsOnly(queue', "TouchPressed")
      <3> SUFFICES ASSUME disp = "signing"
                   PROVE  sm' = "Signing" /\ HoldsOnly(queue', "TouchPressed")
        OBVIOUS
      <3>1. sm = "Signing" /\ HoldsOnly(queue, "TouchPressed")
        BY DEF TouchInv, OnlyPresses
      <3>2. e = "TouchPressed" /\ HoldsOnly(queue', "TouchPressed") BY <3>1, <1>3
      <3>3. QED BY <3>1, <3>2, <1>2, <1>4, OnEventCases
    <2>2. disp = "waiting" /\ confirmed' => sm' = "Signing"
      <3> SUFFICES ASSUME disp = "waiting", confirmed' PROVE sm' = "Signing"
        OBVIOUS
      <3>1. CASE confirmed
        <4>1. sm = "Signing" /\ HoldsOnly(queue, "TouchPressed")
          BY <3>1 DEF TouchInv, OnlyPresses
        <4>2. e = "TouchPressed" BY <4>1, <1>3
        <4>3. QED BY <4>1, <4>2, <1>2, <1>4, OnEventCases
      <3>2. CASE ~ confirmed BY <3>2, <1>4
      <3>3. QED BY <3>1, <3>2
    <2>3. disp = "waiting" /\ (sm' = "WaitingForTouch" \/ confirmed') =>
            HoldsOnly(queue', "TouchPressed")
      <3> SUFFICES ASSUME disp = "waiting", sm' = "WaitingForTouch" \/ confirmed'
                   PROVE  HoldsOnly(queue', "TouchPressed")
        OBVIOUS
      <3>1. CASE sm = "WaitingForTouch" \/ confirmed
        BY <3>1, <1>3 DEF TouchInv, OnlyPresses
      <3>2. CASE sm # "WaitingForTouch" /\ ~ confirmed
        <4>1. e = "SignRequested"
          BY <3>2, <1>2, <1>4, OnEventCases
        <4>2. \A j \in 1..Len(queue') : queue'[j] = "TouchPressed"
          <5> TAKE j \in 1..Len(queue')
          <5>1. 1 \in 1..Len(queue) /\ j + 1 \in 1..Len(queue) /\ 1 < j + 1
                /\ queue[1] = "SignRequested" /\ queue'[j] = queue[j + 1]
            BY <4>1, <1>2
          <5>2. QED BY <5>1 DEF TouchInv, RequestQueued
        <4>3. QED BY <4>2 DEF HoldsOnly
      <3>3. QED BY <3>1, <3>2
    <2>4. disp = "waiting" /\ touchLeft # TOUCH_TIMEOUT =>
            HoldsOnly(queue', "TouchPressed") /\ Len(queue') <= 1
      BY <1>2, <1>3 DEF TouchInv, OnlyPresses
    <2>5. QED BY <2>1, <2>2, <2>3, <2>4, <1>4 DEF OnlyPresses
  <1>13. QED BY <1>6, <1>7, <1>8, <1>9, <1>10, <1>11, <1>12

(* A timer event never leads to WaitingForTouch or Signing, nor away from *)
(* Signing, and the channel is empty.                                     *)
LEMMA TimerStep ==
  ASSUME TouchInv, derive_timer_event
  PROVE  /\ SignatureNeedsFreshTouch' /\ WaitingIsReal' /\ Untouched'
         /\ RequestQueued' /\ TimeoutQueued' /\ WindowCoversSession' /\ OnlyPresses'
  <1>1. \E e \in {"SessionEnded", "ErrorDisplayElapsed"} :
          /\ sm' = on_event(sm, e)
          /\ confirmed' = (confirmed \/ (sm' # sm /\ sm' = "Signing"))
    BY DEF derive_timer_event, StateLoop
  <1>2. UNCHANGED <<queue, disp, kind, touchLeft, since, resp, open, age, fresh>>
    BY DEF derive_timer_event, StateLoop, dispatch, service
  <1>3. sm \in TokenStates BY DEF TouchInv, TypeOK
  <1>4. /\ sm' = "WaitingForTouch" => sm = "WaitingForTouch"
        /\ sm' = "Signing" <=> sm = "Signing"
    BY <1>1, <1>3, OnEventCases DEF Events
  <1>5. confirmed' = confirmed BY <1>1, <1>4 DEF TouchInv, TypeOK
  <1>6. QED
    BY <1>2, <1>4, <1>5 DEF TouchInv, SignatureNeedsFreshTouch, WaitingIsReal,
       Untouched, RequestQueued, TimeoutQueued, WindowCoversSession, OnlyPresses,
       is_session_active

(* A press can only make the request in progress fresh. *)
LEMMA PressStep ==
  ASSUME TouchInv, touch_task
  PROVE  /\ SignatureNeedsFreshTouch' /\ WaitingIsReal' /\ Untouched'
         /\ RequestQueued' /\ TimeoutQueued' /\ WindowCoversSession' /\ OnlyPresses'
  <1>1. /\ queue \in Seq(Events) /\ "TouchPressed" \in Events
        /\ ~ Holds(queue, "TouchPressed")
        /\ queue' = post_event(queue, "TouchPressed")
        /\ fresh' = (fresh \/ disp = "waiting")
        /\ UNCHANGED <<sm, confirmed, disp, touchLeft, open, age>>
    BY DEF TouchInv, TypeOK, touch_task, Events, stateTask, dispatch, service
  <1>2. /\ \A x : Holds(queue', x) => Holds(queue, x) \/ x = "TouchPressed"
        /\ \A x : Holds(queue, x) => Holds(queue', x)
        /\ HoldsOnly(queue, "TouchPressed") => HoldsOnly(queue', "TouchPressed")
    BY <1>1, HoldsPost
  <1>3. SignatureNeedsFreshTouch' /\ Untouched' /\ WindowCoversSession' /\ WaitingIsReal'
    BY <1>1, <1>2 DEF TouchInv, SignatureNeedsFreshTouch, Untouched, WindowCoversSession,
       WaitingIsReal
  <1>4. TimeoutQueued' BY <1>1, <1>2 DEF TouchInv, TimeoutQueued, is_session_active
  <1>5. RequestQueued'
    <2>1. \A i, j \in 1..Len(queue') :
            queue'[i] = "SignRequested" /\ i < j => queue'[j] = "TouchPressed"
      <3>1. Len(queue) \in Nat BY <1>1, PostEvent
      <3>2. \/ queue' = queue
            \/ /\ Len(queue') = Len(queue) + 1 /\ queue'[Len(queue) + 1] = "TouchPressed"
               /\ \A i \in 1..Len(queue) : queue'[i] = queue[i]
        BY <1>1, PostEvent
      <3>3. QED BY <3>1, <3>2 DEF TouchInv, RequestQueued
    <2>2. QED BY <2>1, <1>1, <1>2 DEF TouchInv, RequestQueued
  <1>6. OnlyPresses'
    <2>1. HoldsOnly(queue, "TouchPressed") => Len(queue) = 0
      BY <1>1 DEF HoldsOnly, Holds
    <2>2. Len(queue) = 0 => Len(queue') <= 1
      <3>1. Len(queue) \in Nat /\ (Len(queue) <= 1 => Len(queue') = Len(queue) + 1)
        BY <1>1, PostEvent
      <3>2. SUFFICES ASSUME Len(queue) = 0 PROVE Len(queue') <= 1 OBVIOUS
      <3>3. Len(queue') = 1 BY <3>1, <3>2
      <3>4. QED BY <3>3
    <2>3. QED BY <1>1, <1>2, <2>1, <2>2 DEF TouchInv, OnlyPresses
  <1>7. QED BY <1>3, <1>4, <1>5, <1>6

(* Between requests, what the invariant asks for is little. *)
LEMMA QuietStep ==
  ASSUME disp' \in {"idle", "chip"},
         sm' = "WaitingForTouch" => Holds(queue', "TouchTimeout"),
         ~ Holds(queue', "SignRequested"),
         Holds(queue', "TouchTimeout") => ~ is_session_active'
  PROVE  /\ SignatureNeedsFreshTouch' /\ WaitingIsReal' /\ Untouched'
         /\ RequestQueued' /\ TimeoutQueued' /\ WindowCoversSession' /\ OnlyPresses'
  <1>1. \A i \in 1..Len(queue') : queue'[i] # "SignRequested" BY DEF Holds
  <1>2. RequestQueued' BY <1>1 DEF RequestQueued
  <1>3. QED
    BY <1>2 DEF SignatureNeedsFreshTouch, WaitingIsReal, Untouched, TimeoutQueued,
       WindowCoversSession, OnlyPresses

LEMMA DispatchStep ==
  ASSUME TouchInv, Dispatch
  PROVE  /\ SignatureNeedsFreshTouch' /\ WaitingIsReal' /\ Untouched'
         /\ RequestQueued' /\ TimeoutQueued' /\ WindowCoversSession' /\ OnlyPresses'
  <1> USE DEF stateTask, dispatch, service
  <1>a. /\ TypeOK /\ queue \in Seq(Events) /\ Len(queue) \in Nat
        /\ "TouchTimeout" \in Events /\ "SignRequested" \in Events
        /\ "SignComplete" \in Events /\ "ErrorRaised" \in Events /\ "PinVerified" \in Events
    BY DEF TouchInv, TypeOK, Events
  <1>b. HoldsOnly(queue, "TouchPressed") =>
          \A x : x # "TouchPressed" => ~ Holds(queue, x)
    BY DEF Holds, HoldsOnly
  <1>c. disp \in {"idle", "chip"} =>
          /\ ~ Holds(queue, "SignRequested")
          /\ sm = "WaitingForTouch" => Holds(queue, "TouchTimeout")
    BY DEF TouchInv, RequestQueued, WaitingIsReal
  <1>d. \A x : Holds(post_event(post_event(queue, "SignComplete"), "ErrorRaised"), x) =>
          Holds(queue, x) \/ x \in {"SignComplete", "ErrorRaised"}
    <2>1. post_event(queue, "SignComplete") \in Seq(Events) BY <1>a, PostEvent
    <2>2. QED BY <2>1, <1>a, HoldsPost
  <1>1. CASE handle_one_request \/ handle_chip_request \/ handle_close_session
             \/ (handle_sign /\ ~ is_session_active)
    <2>1. disp = "idle" /\ UNCHANGED <<sm, queue>>
      BY <1>1 DEF handle_one_request, handle_chip_request, handle_close_session, handle_sign
    <2>2. disp' \in {"idle", "chip"}
      BY <1>1 DEF handle_one_request, handle_chip_request, handle_close_session,
         handle_sign, Respond
    <2>3. is_session_active' => is_session_active
      BY <1>1 DEF handle_one_request, handle_chip_request, handle_close_session,
         handle_sign, Respond, is_session_active
    <2>4. Holds(queue', "TouchTimeout") => ~ is_session_active'
      BY <2>1, <2>3 DEF TouchInv, TimeoutQueued
    <2>5. QED BY <2>1, <2>2, <2>4, <1>c, QuietStep
  <1>2. CASE ChipRequestDone
    <2>1. /\ disp = "chip" /\ disp' = "idle" /\ UNCHANGED sm
          /\ HoldsOnly(queue, "TouchPressed")
          /\ queue' \in {queue, post_event(queue, "PinVerified")}
      BY <1>2 DEF ChipRequestDone, Respond
    <2>2. ~ Holds(queue', "SignRequested") /\ ~ Holds(queue', "TouchTimeout")
      BY <2>1, <1>a, <1>b, HoldsPost
    <2>3. sm # "WaitingForTouch" BY <2>1, <1>b, <1>c
    <2>4. QED BY <2>1, <2>2, <2>3, QuietStep
  <1>3. CASE handle_sign /\ is_session_active
    <2>1. /\ disp = "idle" /\ disp' = "waiting" /\ ~ fresh' /\ ~ confirmed'
          /\ queue' = post_event(queue, "SignRequested")
          /\ touchLeft' = TOUCH_TIMEOUT
          /\ UNCHANGED <<sm, open, age>>
      BY <1>3 DEF handle_sign
    <2>2. ~ Holds(queue, "TouchTimeout") /\ ~ Holds(queue, "SignRequested")
          /\ sm # "WaitingForTouch"
      BY <1>3, <1>c, <2>1 DEF TouchInv, TimeoutQueued
    <2>3. \A i \in 1..Len(queue) : queue[i] # "SignRequested" BY <2>2 DEF Holds
    <2>4. \/ queue' = queue
          \/ /\ Len(queue') = Len(queue) + 1 /\ queue'[Len(queue) + 1] = "SignRequested"
             /\ \A i \in 1..Len(queue) : queue'[i] = queue[i]
      BY <2>1, <1>a, PostEvent
    <2>5. /\ \A i, j \in 1..Len(queue') :
               queue'[i] = "SignRequested" /\ queue'[j] = "TouchPressed" => j < i
          /\ \A i, j \in 1..Len(queue') :
               queue'[i] = "SignRequested" /\ i < j => queue'[j] = "TouchPressed"
      BY <2>3, <2>4, <1>a
    <2>6. ~ Holds(queue', "TouchTimeout") BY <2>1, <2>2, <1>a, HoldsPost
    <2>7. Untouched' /\ RequestQueued' BY <2>1, <2>2, <2>5 DEF Untouched, RequestQueued
    <2>8. WindowCoversSession'
      BY <2>1, <1>a, TimesAssumption DEF WindowCoversSession, TypeOK
    <2>9. QED BY <2>1, <2>2, <2>6, <2>7, <2>8
              DEF SignatureNeedsFreshTouch, WaitingIsReal, TimeoutQueued, OnlyPresses
  <1>4. CASE SignTimeout
    <2>1. /\ disp = "waiting" /\ touchLeft = 0 /\ disp' = "idle"
          /\ queue' = post_event(queue, "TouchTimeout")
          /\ UNCHANGED <<sm, open, age>>
      BY <1>4 DEF SignTimeout, Respond
    <2>2. touchLeft # TOUCH_TIMEOUT BY <2>1, TimesAssumption
    <2>3. HoldsOnly(queue, "TouchPressed") /\ Len(queue) <= 1
      BY <2>1, <2>2 DEF TouchInv, OnlyPresses
    <2>4. ~ Holds(queue', "SignRequested") /\ Holds(queue', "TouchTimeout")
      BY <2>1, <2>3, <1>a, <1>b, HoldsPost
    <2>5. ~ is_session_active'
      BY <2>1, <1>a, TimesAssumption DEF TouchInv, WindowCoversSession, TypeOK,
         is_session_active
    <2>6. QED BY <2>1, <2>4, <2>5, QuietStep
  <1>5. CASE SignConfirmed
    <2>1. disp = "waiting" /\ confirmed /\ UNCHANGED sm BY <1>5 DEF SignConfirmed
    <2>2. sm = "Signing" /\ HoldsOnly(queue, "TouchPressed") /\ fresh
      BY <2>1 DEF TouchInv, OnlyPresses, Untouched
    <2>3. CASE is_session_active
      <3>1. disp' = "signing" /\ UNCHANGED <<queue, fresh>>
        BY <1>5, <2>3 DEF SignConfirmed
      <3>2. RequestQueued' /\ TimeoutQueued'
        BY <2>2, <3>1 DEF RequestQueued, TimeoutQueued, Holds, HoldsOnly
      <3>3. QED BY <2>1, <2>2, <3>1, <3>2
                DEF SignatureNeedsFreshTouch, WaitingIsReal, Untouched,
                    WindowCoversSession, OnlyPresses
    <2>4. CASE ~ is_session_active
      <3>1. /\ disp' = "idle"
            /\ queue' = post_event(post_event(queue, "SignComplete"), "ErrorRaised")
        BY <1>5, <2>4 DEF SignConfirmed, Respond
      <3>2. ~ Holds(queue', "SignRequested") /\ ~ Holds(queue', "TouchTimeout")
        BY <2>2, <3>1, <1>b, <1>d
      <3>3. QED BY <2>1, <2>2, <3>1, <3>2, QuietStep
    <2>5. QED BY <2>3, <2>4
  <1>6. CASE SignDone
    <2>1. /\ disp = "signing" /\ disp' = "idle" /\ UNCHANGED sm
          /\ queue' \in {post_event(queue, "SignComplete"),
                         post_event(post_event(queue, "SignComplete"), "ErrorRaised")}
      BY <1>6 DEF SignDone, Respond
    <2>2. sm = "Signing" /\ HoldsOnly(queue, "TouchPressed")
      BY <2>1 DEF TouchInv, OnlyPresses
    <2>3. ~ Holds(queue', "SignRequested") /\ ~ Holds(queue', "TouchTimeout")
      BY <2>1, <2>2, <1>a, <1>b, <1>d, HoldsPost
    <2>4. QED BY <2>1, <2>2, <2>3, QuietStep
  <1>7. QED BY <1>1, <1>2, <1>3, <1>4, <1>5, <1>6 DEF Dispatch

(* Time passes only when the channel is empty and no pulse is pending. *)
LEMMA TickStep ==
  ASSUME TouchInv, Tick
  PROVE  /\ SignatureNeedsFreshTouch' /\ WaitingIsReal' /\ Untouched'
         /\ RequestQueued' /\ TimeoutQueued' /\ WindowCoversSession' /\ OnlyPresses'
  <1>1. /\ queue = <<>> /\ UNCHANGED <<queue, sm, confirmed, disp, open, fresh>>
        /\ disp = "waiting" => ~ confirmed /\ touchLeft # 0
        /\ touchLeft' = Sooner(touchLeft) /\ age' = IF open THEN Later(age) ELSE age
    BY DEF Tick, Ready
  <1>2. Len(queue') = 0 BY <1>1
  <1>3. RequestQueued' /\ TimeoutQueued' /\ Untouched'
    BY <1>1, <1>2 DEF RequestQueued, TimeoutQueued, Untouched, Holds
  <1>4. WindowCoversSession'
    BY <1>1, TimesAssumption DEF TouchInv, TypeOK, WindowCoversSession, Sooner, Later, Off
  <1>5. OnlyPresses'
    BY <1>1, <1>2 DEF TouchInv, OnlyPresses, HoldsOnly
  <1>6. SignatureNeedsFreshTouch' /\ WaitingIsReal'
    BY <1>1 DEF TouchInv, SignatureNeedsFreshTouch, WaitingIsReal
  <1>7. QED BY <1>3, <1>4, <1>5, <1>6

(* The inductive invariant of touch-to-sign. *)
LEMMA TouchInvHolds == Spec => []TouchInv
  <1>1. Init /\ TypeOK => TouchInv
    <2> SUFFICES ASSUME Init, TypeOK PROVE TouchInv OBVIOUS
    <2>1. disp = "idle" /\ sm = "Booting" /\ queue = <<"BootComplete">> BY DEF Init
    <2>2. \A i \in 1..Len(queue) : queue[i] = "BootComplete" BY <2>1
    <2>3. QED
      BY <2>1, <2>2 DEF TouchInv, SignatureNeedsFreshTouch, WaitingIsReal, Untouched,
         RequestQueued, TimeoutQueued, WindowCoversSession, OnlyPresses, Holds
  <1>2. TouchInv /\ TypeOK' /\ [Next]_vars => TouchInv'
    <2> SUFFICES ASSUME TouchInv, TypeOK', [Next]_vars PROVE TouchInv' OBVIOUS
    <2>1. CASE state_task BY <2>1, TakeStep DEF TouchInv
    <2>2. CASE derive_timer_event BY <2>2, TimerStep DEF TouchInv
    <2>3. CASE touch_task BY <2>3, PressStep DEF TouchInv
    <2>4. CASE Dispatch BY <2>4, DispatchStep DEF TouchInv
    <2>5. CASE Tick BY <2>5, TickStep DEF TouchInv
    <2>6. CASE animation_task \/ UNCHANGED vars
      <3>1. UNCHANGED <<sm, queue, confirmed, disp, touchLeft, open, age, fresh>>
        BY <2>6 DEF animation_task, vars, stateTask, dispatch, service
      <3>2. QED
        BY <3>1 DEF TouchInv, SignatureNeedsFreshTouch, WaitingIsReal, Untouched,
           RequestQueued, TimeoutQueued, WindowCoversSession, OnlyPresses,
           is_session_active
    <2>7. QED BY <2>1, <2>2, <2>3, <2>4, <2>5, <2>6 DEF Next
  <1>3. QED BY <1>1, <1>2, FirmwareTypeCorrect, PTL DEF Spec

(***************************************************************************)
(* No signature without a fresh touch, whatever the host sends and         *)
(* whenever the button is pressed, for every touch window that is at least *)
(* as long as the session.                                                 *)
(***************************************************************************)
THEOREM FreshTouch == Spec => []SignatureNeedsFreshTouch
  <1>1. TouchInv => SignatureNeedsFreshTouch BY DEF TouchInv
  <1>2. QED BY <1>1, TouchInvHolds, PTL

(***************************************************************************)
(* The state machine stays in Signing while the service signs.             *)
(***************************************************************************)
THEOREM SigningIsShown == Spec => []SigningShown
  <1>1. TouchInv => SigningShown BY DEF TouchInv, OnlyPresses, SigningShown
  <1>2. QED BY <1>1, TouchInvHolds, PTL

(***************************************************************************)
(* The machine waits for a touch only on behalf of a pending Sign.         *)
(***************************************************************************)
THEOREM WaitingHasRequest == Spec => []WaitingIsReal
  <1>1. TouchInv => WaitingIsReal BY DEF TouchInv
  <1>2. QED BY <1>1, TouchInvHolds, PTL
-----------------------------------------------------------------------------
(***************************************************************************)
(* The channel's bound.                                                    *)
(***************************************************************************)

(* With one press at most, a channel of presses only is short. *)
LEMMA OnlyOnePress ==
  ASSUME TypeOK, OnePress, HoldsOnly(queue, "TouchPressed")
  PROVE  Len(queue) \in 0..1 /\ (~ Holds(queue, "TouchPressed") => Len(queue) = 0)
  <1>1. Len(queue) \in Nat BY DEF TypeOK
  <1>2. ASSUME Len(queue) > 1 PROVE FALSE
    <2>1. 1 \in 1..Len(queue) /\ 2 \in 1..Len(queue) /\ 1 # 2 BY <1>1, <1>2
    <2>2. queue[1] = "TouchPressed" /\ queue[2] = "TouchPressed" BY <2>1 DEF HoldsOnly
    <2>3. QED BY <2>1, <2>2 DEF OnePress
  <1>3. ASSUME Len(queue) = 1 PROVE Holds(queue, "TouchPressed")
    BY <1>3 DEF HoldsOnly, Holds
  <1>4. Len(queue) <= 1 BY <1>1, <1>2
  <1>5. Len(queue) = 0 \/ Len(queue) = 1 BY <1>1, <1>4
  <1>6. QED BY <1>3, <1>5

(* An event that is no press lengthens the channel by one at most. *)
LEMMA PostOther ==
  ASSUME NEW q \in Seq(Events), NEW e \in Events, e # "TouchPressed",
         \A i, j \in 1..Len(q) : q[i] = "TouchPressed" /\ q[j] = "TouchPressed" => i = j
  PROVE  LET p == post_event(q, e) IN
         /\ p \in Seq(Events) /\ Len(p) \in Nat /\ Len(p) <= Len(q) + 1
         /\ \A i, j \in 1..Len(p) : p[i] = "TouchPressed" /\ p[j] = "TouchPressed" => i = j
         /\ Holds(q, "TouchPressed") => Holds(p, "TouchPressed")
  <1> DEFINE p == post_event(q, e)
  <1>1. p \in Seq(Events) /\ Len(p) \in Nat /\ Len(q) \in Nat BY PostEvent
  <1>2. \/ p = q
        \/ Len(p) = Len(q) + 1 /\ p[Len(q) + 1] = e /\ \A i \in 1..Len(q) : p[i] = q[i]
    BY PostEvent
  <1>3. Holds(q, "TouchPressed") => Holds(p, "TouchPressed") BY HoldsPost
  <1> HIDE DEF p
  <1>4. \A i, j \in 1..Len(p) : p[i] = "TouchPressed" /\ p[j] = "TouchPressed" => i = j
    BY <1>1, <1>2
  <1>5. Len(p) <= Len(q) + 1 BY <1>1, <1>2
  <1>6. QED BY <1>1, <1>3, <1>4, <1>5 DEF p

LEMMA QueueBoundStep ==
  ASSUME TouchInv, QueueBound, Next
  PROVE  QueueBound'
  <1> USE DEF stateTask, dispatch, service
  <1>a. TypeOK /\ queue \in Seq(Events) /\ Len(queue) \in Nat BY DEF TouchInv, TypeOK
  <1>b. /\ "TouchPressed" \in Events /\ "SignRequested" \in Events /\ "TouchTimeout" \in Events
        /\ "SignComplete" \in Events /\ "ErrorRaised" \in Events /\ "PinVerified" \in Events
    BY DEF Events
  <1>c. OnePress BY DEF QueueBound
  <1>d. \A e \in Events \ {"TouchPressed"} :
          LET p == post_event(queue, e) IN
          /\ p \in Seq(Events) /\ Len(p) \in Nat /\ Len(p) <= Len(queue) + 1
          /\ \A i, j \in 1..Len(p) : p[i] = "TouchPressed" /\ p[j] = "TouchPressed" => i = j
          /\ Holds(queue, "TouchPressed") => Holds(p, "TouchPressed")
    BY <1>a, <1>c, PostOther DEF OnePress
  <1>1. CASE state_task
    <2>1. /\ Len(queue) >= 1 /\ Len(queue') = Len(queue) - 1
          /\ \A i \in 1..Len(queue) - 1 : queue'[i] = queue[i + 1]
          /\ Head(queue) = queue[1] /\ disp' = disp
      BY <1>1, <1>a, TakeEvent DEF state_task, StateLoop
    <2>2. OnePress'
      <3> SUFFICES ASSUME NEW i \in 1..Len(queue'), NEW j \in 1..Len(queue'),
                          queue'[i] = "TouchPressed", queue'[j] = "TouchPressed"
                   PROVE  i = j
        BY DEF OnePress
      <3>1. i + 1 \in 1..Len(queue) /\ j + 1 \in 1..Len(queue)
            /\ queue[i + 1] = "TouchPressed" /\ queue[j + 1] = "TouchPressed"
        BY <2>1, <1>a
      <3>2. i + 1 = j + 1 BY <3>1, <1>c DEF OnePress
      <3>3. QED BY <3>2
    <2>3. Holds(queue, "TouchPressed") /\ Head(queue) # "TouchPressed" =>
            Holds(queue', "TouchPressed")
      BY <1>1, <1>a, HoldsTake DEF state_task
    <2>4. ~ Holds(queue', "TouchPressed") =>
            /\ Len(queue') <= 3
            /\ disp \in {"idle", "chip"} => Len(queue') <= 2
      BY <2>1, <2>3, <1>a DEF QueueBound
    <2>5. Len(queue') <= 4 /\ (disp \in {"idle", "chip"} => Len(queue') <= 3)
      BY <2>1, <1>a DEF QueueBound
    <2>6. QED BY <2>1, <2>2, <2>4, <2>5 DEF QueueBound
  <1>2. CASE touch_task
    <2>1. /\ ~ Holds(queue, "TouchPressed") /\ disp' = disp
          /\ queue' = post_event(queue, "TouchPressed")
      BY <1>2 DEF touch_task
    <2>2. \A i \in 1..Len(queue) : queue[i] # "TouchPressed" BY <2>1 DEF Holds
    <2>3. \/ queue' = queue
          \/ /\ Len(queue') = Len(queue) + 1
             /\ queue'[Len(queue) + 1] = "TouchPressed"
             /\ \A i \in 1..Len(queue) : queue'[i] = queue[i]
      BY <2>1, <1>a, <1>b, PostEvent
    <2>4. OnePress' BY <2>2, <2>3, <1>a DEF OnePress
    <2>5. queue' # queue => Holds(queue', "TouchPressed")
      <3> SUFFICES ASSUME queue' # queue PROVE Holds(queue', "TouchPressed") OBVIOUS
      <3>1. Len(queue) + 1 \in 1..Len(queue') /\ queue'[Len(queue) + 1] = "TouchPressed"
        BY <2>3, <1>a
      <3>2. QED BY <3>1 DEF Holds
    <2>6. Len(queue) <= 3 /\ (disp \in {"idle", "chip"} => Len(queue) <= 2)
      BY <2>1 DEF QueueBound
    <2>7. Len(queue') <= 4 /\ (disp \in {"idle", "chip"} => Len(queue') <= 3)
      BY <2>3, <2>6, <1>a
    <2>8. QED BY <2>1, <2>4, <2>5, <2>6, <2>7 DEF QueueBound
  <1>3. CASE handle_sign /\ is_session_active
    <2>1. disp = "idle" /\ disp' = "waiting" /\ queue' = post_event(queue, "SignRequested")
      BY <1>3 DEF handle_sign
    <2>2. /\ Len(queue') \in Nat /\ Len(queue') <= Len(queue) + 1
          /\ Holds(queue, "TouchPressed") => Holds(queue', "TouchPressed")
          /\ OnePress'
      BY <2>1, <1>b, <1>d DEF OnePress
    <2>3. Len(queue) <= 3 /\ (~ Holds(queue, "TouchPressed") => Len(queue) <= 2)
      BY <2>1 DEF QueueBound
    <2>4. Len(queue') <= 4 /\ (~ Holds(queue', "TouchPressed") => Len(queue') <= 3)
      BY <2>2, <2>3, <1>a
    <2>5. QED BY <2>1, <2>2, <2>4 DEF QueueBound
  <1>4. CASE ChipRequestDone \/ SignTimeout \/ SignDone \/ (SignConfirmed /\ ~ is_session_active)
    <2>1. HoldsOnly(queue, "TouchPressed")
      BY <1>4, TimesAssumption DEF ChipRequestDone, SignTimeout, SignDone, SignConfirmed,
         TouchInv, OnlyPresses
    <2>2. Len(queue) \in 0..1 /\ (~ Holds(queue, "TouchPressed") => Len(queue) = 0)
      BY <2>1, <1>a, <1>c, OnlyOnePress
    <2>3. \/ queue' = queue
          \/ \E e \in Events \ {"TouchPressed"} : queue' = post_event(queue, e)
          \/ queue' = post_event(post_event(queue, "SignComplete"), "ErrorRaised")
      <3>1. /\ "PinVerified" \in Events \ {"TouchPressed"}
            /\ "TouchTimeout" \in Events \ {"TouchPressed"}
            /\ "SignComplete" \in Events \ {"TouchPressed"}
        BY <1>b
      <3>2. CASE ChipRequestDone BY <3>1, <3>2 DEF ChipRequestDone
      <3>3. CASE SignTimeout BY <3>1, <3>3 DEF SignTimeout
      <3>4. CASE SignDone BY <3>1, <3>4 DEF SignDone
      <3>5. CASE SignConfirmed /\ ~ is_session_active BY <3>5 DEF SignConfirmed
      <3>6. QED BY <1>4, <3>2, <3>3, <3>4, <3>5
    <2>4. /\ Len(queue') \in Nat /\ Len(queue') <= Len(queue) + 2
          /\ Holds(queue, "TouchPressed") => Holds(queue', "TouchPressed")
          /\ OnePress'
      <3>1. CASE queue' = queue BY <3>1, <1>a, <1>c DEF OnePress
      <3>2. CASE \E e \in Events \ {"TouchPressed"} : queue' = post_event(queue, e)
        <4>1. PICK e \in Events \ {"TouchPressed"} : queue' = post_event(queue, e)
          BY <3>2
        <4>2. /\ Len(queue') \in Nat /\ Len(queue') <= Len(queue) + 1
              /\ Holds(queue, "TouchPressed") => Holds(queue', "TouchPressed")
              /\ OnePress'
          BY <4>1, <1>d DEF OnePress
        <4>3. QED BY <4>2, <1>a
      <3>3. CASE queue' = post_event(post_event(queue, "SignComplete"), "ErrorRaised")
        <4> DEFINE q == post_event(queue, "SignComplete")
        <4>1. /\ q \in Seq(Events) /\ Len(q) \in Nat /\ Len(q) <= Len(queue) + 1
              /\ \A i, j \in 1..Len(q) :
                   q[i] = "TouchPressed" /\ q[j] = "TouchPressed" => i = j
              /\ Holds(queue, "TouchPressed") => Holds(q, "TouchPressed")
          BY <1>b, <1>d
        <4>2. queue' = post_event(q, "ErrorRaised") BY <3>3
        <4> HIDE DEF q
        <4>3. /\ Len(queue') \in Nat /\ Len(queue') <= Len(q) + 1
              /\ Holds(q, "TouchPressed") => Holds(queue', "TouchPressed")
              /\ OnePress'
          BY <4>1, <4>2, <1>b, PostOther DEF OnePress
        <4>4. QED BY <4>1, <4>3, <1>a
      <3>4. QED BY <2>3, <3>1, <3>2, <3>3
    <2>5. Len(queue') <= 3 /\ (~ Holds(queue', "TouchPressed") => Len(queue') <= 2)
      <3> DEFINE m == Len(queue')
                 n == Len(queue)
      <3>a. m \in Nat /\ m <= n + 2 /\ n \in 0..1 BY <2>2, <2>4
      <3> HIDE DEF m, n
      <3>1. m <= 3 BY <3>a
      <3>2. ASSUME ~ Holds(queue', "TouchPressed") PROVE m <= 2
        <4>1. n = 0 BY <2>2, <2>4, <3>2 DEF n
        <4>2. QED BY <3>a, <4>1
      <3>3. QED BY <3>1, <3>2 DEF m
    <2>6. Len(queue') <= 4 BY <2>4, <2>5
    <2>7. QED BY <2>4, <2>5, <2>6 DEF QueueBound
  <1>5. CASE \/ derive_timer_event \/ animation_task \/ Tick
             \/ handle_one_request \/ handle_chip_request \/ handle_close_session
             \/ (handle_sign /\ ~ is_session_active) \/ (SignConfirmed /\ is_session_active)
    <2>1. UNCHANGED queue
      BY <1>5 DEF derive_timer_event, animation_task, Tick, handle_one_request,
         handle_chip_request, handle_close_session, handle_sign, SignConfirmed
    <2>2. disp' \in {"idle", "chip"} => disp \in {"idle", "chip"}
      BY <1>5 DEF derive_timer_event, animation_task, Tick, handle_one_request,
         handle_chip_request, handle_close_session, handle_sign, SignConfirmed,
         StateLoop, Respond
    <2>3. QED BY <2>1, <2>2 DEF QueueBound, OnePress
  <1>6. QED BY <1>1, <1>2, <1>3, <1>4, <1>5 DEF Next, Dispatch

(***************************************************************************)
(* The channel never holds more than four events, so with the code's 16    *)
(* places, and with any number above four, post_event drops nothing.       *)
(***************************************************************************)
THEOREM NothingDropped ==
  ASSUME EVENT_QUEUE_DEPTH > 4
  PROVE  Spec => []RoomInQueue
  <1>1. Init => QueueBound
    <2> SUFFICES ASSUME Init PROVE QueueBound OBVIOUS
    <2>1. disp = "idle" /\ queue = <<"BootComplete">> BY DEF Init
    <2>2. Len(queue) = 1 /\ queue[1] = "BootComplete" BY <2>1
    <2>3. OnePress BY <2>2 DEF OnePress
    <2>4. Len(queue) <= 2 /\ Len(queue) <= 3 /\ Len(queue) <= 4 BY <2>2
    <2>5. QED BY <2>3, <2>4 DEF QueueBound
  <1>2. TouchInv /\ QueueBound /\ [Next]_vars => QueueBound'
    <2>1. QueueBound /\ UNCHANGED vars => QueueBound' BY DEF QueueBound, OnePress, vars
    <2>2. QED BY <2>1, QueueBoundStep
  <1>3. TouchInv /\ QueueBound => RoomInQueue
    BY TimesAssumption DEF TouchInv, TypeOK, QueueBound, RoomInQueue
  <1>4. QED BY <1>1, <1>2, <1>3, TouchInvHolds, PTL DEF Spec

(***************************************************************************)
(* The LEDs show the machine's state, or will once animation_task runs:    *)
(* TOKEN_STATE may lose states, never the last one.                        *)
(***************************************************************************)
THEOREM LedsAreCurrent == Spec => []LedsFollow
  <1>1. Init => SignalCurrent BY DEF Init, SignalCurrent
  <1>2. SignalCurrent /\ TypeOK /\ [Next]_vars => SignalCurrent'
    <2> SUFFICES ASSUME SignalCurrent, TypeOK, [Next]_vars PROVE SignalCurrent' OBVIOUS
    <2>1. ASSUME NEW e, NEW sdl, NEW edl, StateLoop(e, sdl, edl) PROVE SignalCurrent'
      BY <2>1 DEF StateLoop, SignalCurrent
    <2>2. CASE state_task \/ derive_timer_event
      BY <2>1, <2>2 DEF state_task, derive_timer_event
    <2>3. CASE animation_task
      BY <2>3 DEF animation_task, SignalCurrent, stateTask
    <2>4. CASE touch_task \/ Dispatch \/ Tick \/ UNCHANGED vars
      <3>1. UNCHANGED <<sm, published, shown>>
        BY <2>4 DEF touch_task, Dispatch, Tick, vars, handle_one_request,
           handle_chip_request, handle_close_session, handle_sign, ChipRequestDone,
           SignTimeout, SignConfirmed, SignDone, stateTask
      <3>2. QED BY <3>1 DEF SignalCurrent
    <2>5. QED BY <2>2, <2>3, <2>4 DEF Next
  <1>3. SignalCurrent => LedsFollow BY DEF SignalCurrent, LedsFollow
  <1>4. QED BY <1>1, <1>2, <1>3, FirmwareTypeCorrect, PTL DEF Spec
=============================================================================
