-------------------------- MODULE AteccDriverProofs --------------------------
(***************************************************************************)
(* The driver never returns an old answer and never signs or writes with   *)
(* another flow's nonce, for every watchdog, polling window and execution  *)
(* time of the chip, on a faulty bus or not.                               *)
(***************************************************************************)
EXTENDS AteccDriver, TLAPS

(* The commands that need a nonce come after their flow's own. *)
LEMMA FlowFacts ==
  ASSUME NEW f \in DOMAIN Flows
  PROVE  /\ Len(Flows[f]) \in Nat \ {0}
         /\ \A n \in 1..Len(Flows[f]) :
              /\ Flows[f][n] \in NeedsNonce =>
                   (f = "Sign" /\ n = 2) \/ (f = "EncryptedWrite" /\ n \in {3, 4})
              /\ f = "Sign" /\ n = 1 => Flows[f][n] = "Nonce"
              /\ f = "EncryptedWrite" /\ n = 2 => Flows[f][n] = "Nonce"
<1>1. f \in {"One", "Lock", "Sign", "CheckMac", "Refresh", "EncryptedWrite", "ResetKeys"}
  BY DEF Flows
<1>2. CASE f \in {"One", "Lock", "CheckMac", "Refresh"}
  BY <1>2 DEF Flows, NeedsNonce
<1>3. CASE f = "Sign"
  <2>1. Flows[f] = <<"Nonce", "Sign">>
    BY <1>3 DEF Flows
  <2>2. Len(Flows[f]) = 2
    BY <2>1
  <2>3. Flows[f][1] = "Nonce" /\ 1..Len(Flows[f]) = {1, 2}
    BY <2>1, <2>2
  <2> QED BY <1>3, <2>2, <2>3 DEF NeedsNonce
<1>4. CASE f = "EncryptedWrite"
  BY <1>4 DEF Flows, NeedsNonce
<1>5. CASE f = "ResetKeys"
  <2>1. Flows[f] = [n \in 1..RESET_KEYS |-> "GenKey"]
    BY <1>5 DEF Flows
  <2>2. Len(Flows[f]) = RESET_KEYS
    BY <2>1, DriverAssumption
  <2> QED BY <1>5, <2>1, <2>2, DriverAssumption DEF NeedsNonce
<1> QED BY <1>1, <1>2, <1>3, <1>4, <1>5

(* An error leaves no command on its way. *)
LEMMA FailStep ==
  ASSUME DriverInv, Fail
  PROVE  DriverInv'
<1> USE DriverAssumption
<1>1. pc' \in {"closing", "closed"} /\ failed' \in BOOLEAN
  BY DEF Fail, DriverInv, TypeOK
<1>2. job' \in Owners /\ buffer' \in Owners
  BY DEF Fail, Aged, Owners, DriverInv, TypeOK
<1>3. TypeOK' /\ OwnAnswer'
  BY <1>1, <1>2 DEF Fail, DriverInv, TypeOK, OwnAnswer
<1> QED BY <1>1, <1>3 DEF DriverInv, OnItsWay, NothingOlder, NonceHeld, InCommand

(* Every step of driver, chip and time keeps the invariant. *)
LEMMA DriverInvStep == DriverInv /\ [Next]_vars => DriverInv'
<1> SUFFICES ASSUME DriverInv, [Next]_vars PROVE DriverInv'
  OBVIOUS
<1> USE DriverAssumption
<1>0. flow \in DOMAIN Flows /\ Len(Flows[flow]) \in Nat \ {0} /\ i \in 1..(Len(Flows[flow]) + 1)
  BY FlowFacts DEF DriverInv, TypeOK
<1>1. CASE open_channel
  <2>1. PICK f \in DOMAIN Flows : pc' = "open" /\ flow' = f /\ i' = 1
    BY <1>1 DEF open_channel
  <2>2. i' \in 1..(Len(Flows[flow']) + 1) /\ flow' \in DOMAIN Flows
    BY <2>1, FlowFacts
  <2>3. wd' \in 0..(WATCHDOG - 1) /\ loaded' \in Owners /\ buffer' \in Owners
    BY <1>1 DEF open_channel, DriverInv, TypeOK, Owners, Aged
  <2>4. TypeOK' /\ OwnAnswer'
    BY <1>1, <2>1, <2>2, <2>3 DEF open_channel, DriverInv, TypeOK, OwnAnswer
  <2> QED BY <2>1, <2>4 DEF DriverInv, OnItsWay, NothingOlder, NonceHeld, NonceRun, InCommand
<1>2. CASE WakeFailed
  <2>1. pc' = "closed" /\ power' \in {"asleep", "idle", "awake"}
    BY <1>2 DEF WakeFailed, DriverInv, TypeOK
  <2>2. TypeOK' /\ OwnAnswer'
    BY <1>2, <2>1 DEF WakeFailed, DriverInv, TypeOK, OwnAnswer
  <2> QED BY <2>1, <2>2 DEF DriverInv, OnItsWay, NothingOlder, NonceHeld, InCommand
<1>3. CASE run_command
  <2>1. /\ pc' = "delay" /\ job' = "own" /\ buffer' \in {"own", "none"} /\ wait' \in 0..1
        /\ loaded' \in {loaded, "own"} /\ busy' \in 0..EXEC_MAX
        /\ i <= Len(Flows[flow]) /\ UNCHANGED <<power, wd, flow, i, elapsed, failed, got>>
    BY <1>3 DEF run_command, expected_exec
  <2>2. TypeOK' /\ OwnAnswer'
    BY <2>1 DEF DriverInv, TypeOK, Owners, OwnAnswer
  <2>3. NonceHeld'
    <3> SUFFICES ASSUME NonceRun', power' = "awake" PROVE loaded' = "own"
      BY DEF NonceHeld
    <3>1. CASE NonceRun
      BY <1>3, <2>1, <3>1 DEF DriverInv, NonceHeld, run_command
    <3>2. CASE ~ NonceRun
      <4>1. (flow = "Sign" /\ i = 1) \/ (flow = "EncryptedWrite" /\ i = 2)
        BY <1>0, <2>1, <3>2 DEF NonceRun, InCommand
      <4>2. Command = "Nonce"
        BY <1>0, <2>1, <4>1, FlowFacts DEF Command
      <4> QED BY <1>3, <4>2 DEF run_command
    <3> QED BY <3>1, <3>2
  <2> QED BY <2>1, <2>2, <2>3 DEF DriverInv, OnItsWay, NothingOlder, InCommand
<1>4. CASE WriteNacked \/ PollError
  BY <1>4, FailStep DEF WriteNacked, PollError
<1>5. CASE StartPolling
  <2>1. pc = "delay" /\ pc' = "polling" /\ UNCHANGED <<chip, flow, i, wait, elapsed, failed, got>>
    BY <1>5 DEF StartPolling
  <2>2. TypeOK' /\ OwnAnswer'
    BY <2>1 DEF DriverInv, TypeOK, OwnAnswer, chip
  <2> QED BY <2>1, <2>2 DEF DriverInv, OnItsWay, NothingOlder, NonceHeld, NonceRun, InCommand, chip
<1>6. CASE PollAnswer
  <2>1. /\ pc = "polling" /\ pc' = "open" /\ i' = i + 1 /\ elapsed' = 0 /\ got' = buffer
        /\ job' = Aged(job) /\ buffer' = Aged(buffer)
        /\ UNCHANGED <<power, wd, busy, loaded, flow, wait, failed>>
    BY <1>6 DEF PollAnswer
  <2>2. i <= Len(Flows[flow]) /\ buffer # "stale"
    BY <2>1 DEF DriverInv, OnItsWay, NothingOlder, InCommand
  <2>3. job' \in Owners /\ buffer' \in Owners
    BY <2>1 DEF DriverInv, TypeOK, Owners, Aged
  <2>4. TypeOK' /\ OwnAnswer'
    BY <1>0, <2>1, <2>2, <2>3 DEF DriverInv, TypeOK, OwnAnswer
  <2>5. NonceRun' => NonceRun
    BY <1>0, <2>1 DEF NonceRun, InCommand
  <2> QED BY <2>1, <2>4, <2>5 DEF DriverInv, OnItsWay, NothingOlder, NonceHeld, InCommand
<1>7. CASE PollNack
  <2>1. CASE Fail
    BY <2>1, FailStep
  <2>2. CASE ~ Fail
    <3>1. /\ pc = "polling" /\ ~ (elapsed >= POLLING_MAX) /\ pc' = "backoff"
          /\ UNCHANGED <<chip, flow, i, wait, elapsed, failed, got>>
      BY <1>7, <2>2 DEF PollNack
    <3>2. elapsed' < POLLING_MAX
      BY <3>1 DEF DriverInv, TypeOK
    <3>3. TypeOK' /\ OwnAnswer'
      BY <3>1 DEF DriverInv, TypeOK, OwnAnswer, chip
    <3> QED BY <3>1, <3>2, <3>3
            DEF DriverInv, OnItsWay, NothingOlder, NonceHeld, NonceRun, InCommand, chip
  <2> QED BY <2>1, <2>2
<1>8. CASE close \/ CloseNacked
  <2>1. pc' = "closed" /\ failed' = FALSE
        /\ UNCHANGED <<busy, job, buffer, loaded, flow, i, wait, elapsed, got>>
    BY <1>8 DEF close, CloseNacked, chip
  <2>2. power' \in {"asleep", "idle", "awake"} /\ wd' \in 0..(WATCHDOG - 1)
    BY <1>8 DEF close, CloseNacked, chip, DriverInv, TypeOK
  <2>3. TypeOK' /\ OwnAnswer'
    BY <2>1, <2>2 DEF DriverInv, TypeOK, OwnAnswer
  <2> QED BY <2>1, <2>3 DEF DriverInv, OnItsWay, NothingOlder, NonceHeld, InCommand
<1>9. CASE Tick
  <2>1. /\ UNCHANGED <<flow, i, failed, got>>
        /\ pc' \in {"closed", "delay", "polling"}
        /\ pc' = "closed" <=> pc = "closed"
        /\ pc' # "closed" => InCommand
        /\ wait' \in 0..1 /\ elapsed' \in 0..POLLING_MAX
    BY <1>9 DEF Tick, DriverInv, TypeOK, OnItsWay, InCommand
  <2>2. /\ power' \in {"asleep", "idle", "awake"} /\ wd' \in 0..(WATCHDOG - 1)
        /\ busy' \in 0..EXEC_MAX
        /\ job' \in {job, "none"} /\ buffer' \in {job, buffer, "none"}
        /\ power' = "awake" => power = "awake" /\ loaded' = loaded
        /\ loaded' \in {loaded, "none"}
    BY <1>9 DEF Tick, ChipTick, chip, DriverInv, TypeOK
  <2>3. TypeOK' /\ OwnAnswer'
    BY <2>1, <2>2 DEF DriverInv, TypeOK, Owners, OwnAnswer
  <2>4. NonceHeld'
    BY <2>1, <2>2 DEF DriverInv, NonceHeld, NonceRun, InCommand
  <2>5. OnItsWay' /\ NothingOlder'
    BY <2>1, <2>2 DEF DriverInv, OnItsWay, NothingOlder, InCommand
  <2> QED BY <2>3, <2>4, <2>5 DEF DriverInv
<1>10. CASE UNCHANGED vars
  BY <1>10 DEF vars, DriverInv, TypeOK, OwnAnswer, OnItsWay, NothingOlder, NonceHeld, NonceRun,
               InCommand
<1> QED BY <1>1, <1>2, <1>3, <1>4, <1>5, <1>6, <1>7, <1>8, <1>9, <1>10 DEF Next, Driver

-----------------------------------------------------------------------------
(* The invariant: types, the answer in hand and on its way, the nonce.     *)
THEOREM DriverInvHolds == Spec => []DriverInv
<1>1. Init => DriverInv
  <2>1. "One" \in DOMAIN Flows
    BY DEF Flows
  <2>2. Len(Flows["One"]) \in Nat \ {0}
    BY <2>1, FlowFacts
  <2>3. ASSUME Init PROVE TypeOK
    <3>1. flow \in DOMAIN Flows /\ i \in 1..(Len(Flows[flow]) + 1)
      BY <2>1, <2>2, <2>3 DEF Init
    <3>2. wd \in 0..(WATCHDOG - 1) /\ busy \in 0..EXEC_MAX /\ elapsed \in 0..POLLING_MAX
      BY <2>3, DriverAssumption DEF Init
    <3>3. failed \in BOOLEAN
      BY <2>3 DEF Init
    <3>4. wait \in 0..1
      BY <2>3 DEF Init
    <3>5. /\ power \in {"asleep", "idle", "awake"}
          /\ pc \in {"closed", "open", "delay", "polling", "backoff", "closing"}
          /\ job \in Owners /\ buffer \in Owners /\ loaded \in Owners /\ got \in Owners
      BY <2>3 DEF Init, Owners
    <3> QED BY <3>1, <3>2, <3>3, <3>4, <3>5 DEF TypeOK
  <2>4. Init => OwnAnswer /\ OnItsWay /\ NothingOlder /\ NonceHeld
    BY DEF Init, OwnAnswer, OnItsWay, NothingOlder, NonceHeld, InCommand
  <2> QED BY <2>3, <2>4 DEF DriverInv
<1> QED BY <1>1, DriverInvStep, PTL DEF Spec

(* Types; in particular poll_for_response stops within its window and a    *)
(* method never runs past its last command.                                *)
THEOREM DriverTypeCorrect == Spec => []TypeOK
<1>1. DriverInv => TypeOK
  BY DEF DriverInv
<1> QED BY <1>1, DriverInvHolds, PTL

(* execute_command returns the answer to its own command, whatever was     *)
(* left by channels dropped before.                                        *)
THEOREM OwnAnswerHolds == Spec => []OwnAnswer
<1>1. DriverInv => OwnAnswer
  BY DEF DriverInv
<1> QED BY <1>1, DriverInvHolds, PTL

(* sign_external, GenDig and the encrypted Write run only on the Nonce of  *)
(* their own flow, although the chip may fall asleep at any time.          *)
THEOREM OwnNonceHolds == Spec => OwnNonce
<1>1. ASSUME DriverInv, [Next]_vars, pc = "open", pc' = "delay", Command \in NeedsNonce
      PROVE  loaded = "own"
  <2>1. run_command
    BY <1>1 DEF Next, Driver, vars, open_channel, WakeFailed, WriteNacked, Fail, StartPolling,
                PollAnswer, PollError, PollNack, close, CloseNacked, Tick
  <2>2. flow \in DOMAIN Flows /\ i \in 1..Len(Flows[flow]) /\ power = "awake"
    BY <1>1, <2>1, FlowFacts DEF DriverInv, TypeOK, run_command, Answers
  <2>3. (flow = "Sign" /\ i = 2) \/ (flow = "EncryptedWrite" /\ i \in {3, 4})
    BY <1>1, <2>2, FlowFacts DEF Command
  <2>4. NonceRun
    BY <2>3 DEF NonceRun
  <2> QED BY <1>1, <2>2, <2>4 DEF DriverInv, NonceHeld
<1> QED BY <1>1, DriverInvHolds, PTL DEF Spec, OwnNonce
=============================================================================
