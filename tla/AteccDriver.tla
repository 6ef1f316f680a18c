----------------------------- MODULE AteccDriver -----------------------------
(***************************************************************************)
(* The ATECC608B driver (atecc608b/driver.rs, wake.rs) between the         *)
(* service's methods and the chip: open a channel by waking the chip, run  *)
(* commands by writing a frame and polling for its answer, close the       *)
(* channel by idling the chip.  A channel dropped without close leaves the *)
(* chip awake until its watchdog puts it to sleep.                         *)
(*                                                                         *)
(* A tick is the nominal execution time of GenKey (215 ms); the other      *)
(* times are counted in it.  Command contents are left out: what matters   *)
(* is which command an answer belongs to and which Nonce loaded the chip's *)
(* volatile key.  PinService has what the commands do to the token.        *)
(***************************************************************************)
EXTENDS Naturals, Sequences

CONSTANTS
  POLLING_MAX,  \* POLLING_MAX_MS
  WATCHDOG,     \* the chip's watchdog (about 1.3 s), external
  EXEC_MAX,     \* the longest the chip computes
  RESET_KEYS,   \* identity slots emergency_reset regenerates in one channel
  Faulty        \* may transfers fail and the chip refuse commands?

ASSUME DriverAssumption ==
  /\ POLLING_MAX \in Nat
  /\ WATCHDOG \in Nat \ {0}
  /\ EXEC_MAX \in Nat
  /\ RESET_KEYS \in Nat \ {0}
  /\ Faulty \in BOOLEAN

(* The command sequences the service runs in one channel each. *)
Flows ==
  [ One            |-> <<"Read">>,    \* any method of one command
    Lock           |-> <<"Lock">>,
    Sign           |-> <<"Nonce", "Sign">>,
    CheckMac       |-> <<"Random", "CheckMac">>,
    Refresh        |-> <<"Counter", "Counter">>,
    EncryptedWrite |-> <<"Random", "Nonce", "GenDig", "Write">>,
    ResetKeys      |-> [i \in 1..RESET_KEYS |-> "GenKey"] ]

(* Commands that work on what the Nonce of their own flow loaded. *)
NeedsNonce == {"Sign", "GenDig", "Write"}

(* Where a method keeps the error and closes the channel before returning; *)
(* elsewhere "?" drops the channel.                                        *)
ClosesOnError(f, i) ==
  \/ f = "Lock"
  \/ f \in {"CheckMac", "Refresh"} /\ i > 1

(* EXEC_TIME_*: the wait before the first poll. *)
expected_exec(cmd) == IF cmd \in {"GenKey", "Sign"} THEN 1 ELSE 0

VARIABLES
  power,    \* chip: "asleep", "idle" or "awake"
  wd,       \* chip: time since it woke
  busy,     \* chip: time left of the command it executes
  job,      \* chip: whose command it executes or executed last
  buffer,   \* chip: whose answer its output buffer holds
  loaded,   \* chip: whose Nonce loaded TempKey or MsgDigBuf
  pc,       \* driver: no channel, or where the method awaits
  flow, i,  \* driver: the method's commands and the one it is at
  wait,     \* driver: time left of the wait before the first poll
  elapsed,  \* driver: elapsed_ms of poll_for_response
  failed,   \* driver: an error was kept while the channel is closed
  got       \* history: whose answer the last successful command returned

chip == <<power, wd, busy, job, buffer, loaded>>
vars == <<power, wd, busy, job, buffer, loaded, pc, flow, i, wait, elapsed,
          failed, got>>

Init ==
  /\ power = "asleep" /\ wd = 0 /\ busy = 0
  /\ job = "none" /\ buffer = "none" /\ loaded = "none"
  /\ pc = "closed" /\ flow = "One" /\ i = 1
  /\ wait = 0 /\ elapsed = 0 /\ failed = FALSE
  /\ got = "none"

Command == Flows[flow][i]

Answers == power = "awake" /\ busy = 0

(* What belonged to the command or flow in progress no longer does. *)
Aged(owner) == IF owner = "none" THEN "none" ELSE "stale"
-----------------------------------------------------------------------------
(***************************************************************************)
(* open_channel: the wake pulse and the read of the wake token.  A chip    *)
(* that a dropped channel left awake ignores the pulse and is read in      *)
(* whatever state it is in: the token may be taken for good or not.        *)
(***************************************************************************)
open_channel == \E f \in DOMAIN Flows :
  /\ pc = "closed" /\ busy = 0
  /\ power' = "awake"
  /\ wd' = IF power = "awake" THEN wd ELSE 0
  /\ loaded' = Aged(loaded)
  /\ buffer' = IF power = "awake" THEN buffer ELSE "none"
  /\ pc' = "open" /\ flow' = f /\ i' = 1
  /\ UNCHANGED <<busy, job, wait, elapsed, failed, got>>

(* wake fails: no channel, the chip awake or as it was. *)
WakeFailed ==
  /\ pc = "closed" /\ (power = "awake" \/ Faulty)
  /\ power' \in {power, "awake"}
  /\ UNCHANGED <<wd, busy, job, buffer, loaded, pc, flow, i, wait, elapsed,
                 failed, got>>

(* The command returns an error. *)
Fail ==
  /\ job' = Aged(job) /\ buffer' = Aged(buffer)
  /\ wait' = 0 /\ elapsed' = 0
  /\ IF ClosesOnError(flow, i)
     THEN pc' = "closing" /\ failed' = TRUE
     ELSE pc' = "closed" /\ UNCHANGED failed
  /\ UNCHANGED <<power, wd, busy, loaded, flow, i, got>>

(* run_command up to its delay: the chip takes the frame. *)
run_command ==
  /\ pc = "open" /\ i <= Len(Flows[flow]) /\ Answers
  /\ busy' \in 0..EXEC_MAX
  /\ job' = "own"
  /\ buffer' = IF busy' = 0 THEN "own" ELSE "none"
  /\ loaded' = IF Command = "Nonce" THEN "own" ELSE loaded
  /\ pc' = "delay" /\ wait' = expected_exec(Command)
  /\ UNCHANGED <<power, wd, flow, i, elapsed, failed, got>>

(* Variant to test the properties: the error of i2c_write is dropped. *)
WriteNacked_Dropped ==
  /\ pc = "open" /\ i <= Len(Flows[flow]) /\ (~ Answers \/ Faulty)
  /\ pc' = "delay" /\ wait' = expected_exec(Command)
  /\ UNCHANGED <<chip, flow, i, elapsed, failed, got>>

(* i2c_write fails: the chip is asleep or busy, or the bus is at fault. *)
WriteNacked ==
  /\ pc = "open" /\ i <= Len(Flows[flow]) /\ (~ Answers \/ Faulty)
  /\ Fail

(* The nominal wait is over. *)
StartPolling ==
  /\ pc = "delay" /\ wait = 0
  /\ pc' = "polling"
  /\ UNCHANGED <<chip, flow, i, wait, elapsed, failed, got>>

(* poll_for_response finds an answer that execute_command accepts. *)
PollAnswer ==
  /\ pc = "polling" /\ Answers /\ buffer # "none"
  /\ got' = buffer
  /\ job' = Aged(job) /\ buffer' = Aged(buffer)
  /\ pc' = "open" /\ i' = i + 1 /\ elapsed' = 0
  /\ UNCHANGED <<power, wd, busy, loaded, flow, wait, failed>>

(* The answer is a chip error, or it is cut short or damaged. *)
PollError ==
  /\ Faulty
  /\ pc = "polling" /\ Answers /\ buffer # "none"
  /\ Fail

(* Variant: the window starts again at every poll. *)
PollNack_Forever ==
  /\ pc = "polling" /\ (~ Answers \/ buffer = "none" \/ Faulty)
  /\ pc' = "backoff" /\ elapsed' = 0
  /\ UNCHANGED <<chip, flow, i, wait, failed, got>>

(* Variant: one poll too many. *)
PollNack_Late ==
  /\ pc = "polling" /\ (~ Answers \/ buffer = "none" \/ Faulty)
  /\ IF elapsed > POLLING_MAX
     THEN Fail
     ELSE /\ pc' = "backoff"
          /\ UNCHANGED <<chip, flow, i, wait, elapsed, failed, got>>

(* Variant: after a timeout the chip is woken and the command sent again. *)
PollNack_Retry ==
  /\ pc = "polling" /\ (~ Answers \/ buffer = "none" \/ Faulty)
  /\ IF elapsed >= POLLING_MAX
     THEN /\ power' = "awake" /\ wd' = 0
          /\ pc' = "open" /\ elapsed' = 0
          /\ UNCHANGED <<busy, job, buffer, loaded, flow, i, wait, failed, got>>
     ELSE /\ pc' = "backoff"
          /\ UNCHANGED <<chip, flow, i, wait, elapsed, failed, got>>

(* Any error of the read counts as busy until POLLING_MAX has passed. *)
PollNack ==
  /\ pc = "polling" /\ (~ Answers \/ buffer = "none" \/ Faulty)
  /\ IF elapsed >= POLLING_MAX
     THEN Fail
     ELSE /\ pc' = "backoff"
          /\ UNCHANGED <<chip, flow, i, wait, elapsed, failed, got>>

Closing == pc = "closing" \/ (pc = "open" /\ i > Len(Flows[flow]))

(* close: idle keeps TempKey and stops the watchdog. *)
close ==
  /\ Closing /\ Answers
  /\ power' = "idle" /\ wd' = 0
  /\ pc' = "closed" /\ failed' = FALSE
  /\ UNCHANGED <<busy, job, buffer, loaded, flow, i, wait, elapsed, got>>

CloseNacked ==
  /\ Closing /\ (~ Answers \/ Faulty)
  /\ pc' = "closed" /\ failed' = FALSE
  /\ UNCHANGED <<chip, flow, i, wait, elapsed, got>>
-----------------------------------------------------------------------------
(* The chip over one tick: a command may end, the watchdog may fire. *)
ChipTick ==
  IF power # "awake" THEN UNCHANGED chip
  ELSE IF wd + 1 >= WATCHDOG
  THEN /\ power' = "asleep" /\ wd' = 0 /\ busy' = 0
       /\ job' = "none" /\ buffer' = "none" /\ loaded' = "none"
  ELSE /\ wd' = wd + 1
       /\ busy' = IF busy > 0 THEN busy - 1 ELSE 0
       /\ buffer' = IF busy = 1 THEN job ELSE buffer
       /\ UNCHANGED <<power, job, loaded>>

(* Time passes while the driver sleeps and between requests. *)
Tick ==
  /\ \/ pc = "closed" /\ UNCHANGED <<pc, wait, elapsed>>
     \/ /\ pc = "delay" /\ wait > 0
        /\ wait' = wait - 1
        /\ UNCHANGED <<pc, elapsed>>
     \/ /\ pc = "backoff"
        /\ pc' = "polling" /\ elapsed' = elapsed + 1
        /\ UNCHANGED wait
  /\ ChipTick
  /\ UNCHANGED <<flow, i, failed, got>>

Driver ==
  \/ run_command \/ WriteNacked \/ StartPolling
  \/ PollAnswer \/ PollError \/ PollNack
  \/ close \/ CloseNacked

Next == open_channel \/ WakeFailed \/ Driver \/ Tick

Spec == Init /\ [][Next]_vars

(* The executor resumes the method, and time passes. *)
FairSpec == Spec /\ WF_vars(Driver) /\ WF_vars(Tick)
-----------------------------------------------------------------------------
Owners == {"none", "stale", "own"}

(* Type invariant. *)
TypeOK ==
  /\ power \in {"asleep", "idle", "awake"}
  /\ wd \in 0..(WATCHDOG - 1)
  /\ busy \in 0..EXEC_MAX
  /\ job \in Owners /\ buffer \in Owners /\ loaded \in Owners
  /\ pc \in {"closed", "open", "delay", "polling", "backoff", "closing"}
  /\ flow \in DOMAIN Flows
  /\ i \in 1..(Len(Flows[flow]) + 1)
  /\ wait \in 0..1
  /\ elapsed \in 0..POLLING_MAX
  /\ failed \in BOOLEAN
  /\ got \in Owners

(***************************************************************************)
(* A command never returns the answer of an earlier one, although a        *)
(* channel may be dropped while the chip still computes and the next       *)
(* channel may find the chip awake with an old answer in its buffer.       *)
(***************************************************************************)
OwnAnswer == got # "stale"

(***************************************************************************)
(* A signature or an encrypted write never works on a key or digest left   *)
(* by another flow: the chip executes them only after the Nonce of the     *)
(* same channel, with no sleep in between (write_slot_encrypted, sign).    *)
(***************************************************************************)
OwnNonce ==
  [][pc = "open" /\ pc' = "delay" /\ Command \in NeedsNonce => loaded = "own"]_vars

(***************************************************************************)
(* Every method returns, whatever chip and bus answer: what lets           *)
(* dispatch_loop always answer.  That each single I2C transfer ends, with  *)
(* an error or without, is assumed: the HAL's transfers have no timeout.   *)
(***************************************************************************)
MethodReturns == pc # "closed" ~> pc = "closed"
-----------------------------------------------------------------------------
(* The parts of the inductive invariant: a command on its way is one of    *)
(* its flow and polls in time, chip and buffer hold nothing older than it, *)
(* and what the flow's Nonce loaded lasts as long as the chip is awake.    *)
InCommand == pc \in {"delay", "polling", "backoff"}

OnItsWay ==
  /\ InCommand => i <= Len(Flows[flow])
  /\ pc = "backoff" => elapsed < POLLING_MAX

NothingOlder == InCommand => job # "stale" /\ buffer # "stale"

NonceRun ==
  \/ flow = "Sign" /\ (i > 1 \/ (i = 1 /\ InCommand))
  \/ flow = "EncryptedWrite" /\ (i > 2 \/ (i = 2 /\ InCommand))

NonceHeld ==
  pc = "open" \/ InCommand => (NonceRun /\ power = "awake" => loaded = "own")

DriverInv == TypeOK /\ OwnAnswer /\ OnItsWay /\ NothingOlder /\ NonceHeld
=============================================================================
