------------------------------ MODULE Debouncer ------------------------------
(***************************************************************************)
(* The debouncer between the touch button and the state machine            *)
(* (hsm-firmware-logic/io.rs) and the sampler that feeds it a raw level    *)
(* every millisecond and posts TouchPressed (hsm-firmware/touch.rs).       *)
(***************************************************************************)
EXTENDS Naturals

CONSTANT DEBOUNCE_STABLE_SAMPLES

ASSUME SamplesAssumption ==
  DEBOUNCE_STABLE_SAMPLES \in Nat /\ DEBOUNCE_STABLE_SAMPLES > 1

VARIABLES
  stable,     \* the accepted level
  candidate,  \* the level being observed
  count,      \* consecutive samples that matched candidate
  posted,     \* the event the last sample posted, or "None"
  raw, run,   \* history: last sample, and for how many samples it has held
  sincePress  \* history: samples since the last TouchPressed

vars == <<stable, candidate, count, posted, raw, run, sincePress>>

Levels == {"released", "pressed"}

(* Where the histories stop counting. *)
HistoryBound == 2 * DEBOUNCE_STABLE_SAMPLES

Longer(n) == IF n < HistoryBound THEN n + 1 ELSE n

(* touch_task starts from the level it finds. *)
Init == \E initial \in Levels :
  /\ stable = initial /\ candidate = initial /\ count = 0
  /\ posted = "None"
  /\ raw = initial /\ run = 1
  /\ sincePress = HistoryBound

(* Variant to test the properties: releases are posted too. *)
sample_once_AnyEdge(level) ==
  /\ posted' = IF stable' # stable THEN "TouchPressed" ELSE "None"
  /\ raw' = level
  /\ run' = IF level = raw THEN Longer(run) ELSE 1
  /\ sincePress' = IF posted' = "TouchPressed" THEN 0 ELSE Longer(sincePress)

(* sample_once: a change to pressed is posted, a release is not. *)
sample_once(level) ==
  /\ posted' = IF stable' # stable /\ stable' = "pressed" THEN "TouchPressed" ELSE "None"
  /\ raw' = level
  /\ run' = IF level = raw THEN Longer(run) ELSE 1
  /\ sincePress' = IF posted' = "TouchPressed" THEN 0 ELSE Longer(sincePress)

(* Variant: a bounce back does not restart the count. *)
SampleSame_KeepCount(level) ==
  /\ level = stable
  /\ UNCHANGED <<stable, candidate, count>>
  /\ sample_once(level)

(* The accepted level again: forget the candidate. *)
SampleSame(level) ==
  /\ level = stable
  /\ candidate' = stable /\ count' = 0
  /\ UNCHANGED stable
  /\ sample_once(level)

(* Variant: one sample too many is asked for. *)
SampleCandidate_Late(level) ==
  /\ level # stable /\ level = candidate
  /\ IF count + 1 > DEBOUNCE_STABLE_SAMPLES
     THEN stable' = candidate /\ count' = 0
     ELSE count' = count + 1 /\ UNCHANGED stable
  /\ UNCHANGED candidate
  /\ sample_once(level)

(* The candidate again: accept it if it has held long enough. *)
SampleCandidate(level) ==
  /\ level # stable /\ level = candidate
  /\ IF count + 1 >= DEBOUNCE_STABLE_SAMPLES
     THEN stable' = candidate /\ count' = 0
     ELSE count' = count + 1 /\ UNCHANGED stable
  /\ UNCHANGED candidate
  /\ sample_once(level)

SampleNew(level) ==
  /\ level # stable /\ level # candidate
  /\ candidate' = level /\ count' = 1
  /\ UNCHANGED stable
  /\ sample_once(level)

Next == \E level \in Levels :
  SampleSame(level) \/ SampleCandidate(level) \/ SampleNew(level)

Spec == Init /\ [][Next]_vars
-----------------------------------------------------------------------------
(* Type invariant; count stays below the threshold, far from its u8 limit. *)
TypeOK ==
  /\ stable \in Levels /\ candidate \in Levels
  /\ count \in 0..(DEBOUNCE_STABLE_SAMPLES - 1)
  /\ posted \in {"None", "TouchPressed"}
  /\ raw \in Levels
  /\ run \in 1..HistoryBound
  /\ sincePress \in 0..HistoryBound

(***************************************************************************)
(* A glitch is never accepted: the level changes only to one that has held *)
(* for DEBOUNCE_STABLE_SAMPLES samples in a row.                           *)
(***************************************************************************)
GlitchFree ==
  [][stable' # stable => stable' = raw' /\ run' >= DEBOUNCE_STABLE_SAMPLES]_vars

(***************************************************************************)
(* No press is missed: a level that has held for DEBOUNCE_STABLE_SAMPLES   *)
(* samples is the accepted one.                                            *)
(***************************************************************************)
Responsive == run >= DEBOUNCE_STABLE_SAMPLES => stable = raw

(***************************************************************************)
(* Two TouchPressed events are at least a debounced release and a          *)
(* debounced press apart, what TokenFirmware assumes of touch_task.        *)
(***************************************************************************)
PressesApart ==
  [][posted' = "TouchPressed" => sincePress + 1 >= HistoryBound]_vars
-----------------------------------------------------------------------------
(* The parts of the inductive invariant: the candidate is the last sample, *)
(* its count is the length of its run, and the two halves of a press and   *)
(* release cycle take DEBOUNCE_STABLE_SAMPLES samples each.                *)
Tracking ==
  /\ candidate = raw
  /\ raw = stable => count = 0
  /\ raw # stable => count = run

Cycle ==
  /\ stable = "released" => sincePress >= DEBOUNCE_STABLE_SAMPLES
  /\ stable = "released" /\ raw = "pressed" =>
       sincePress >= DEBOUNCE_STABLE_SAMPLES + run
  /\ stable = "pressed" /\ raw = "released" => sincePress >= run

DebounceInv == TypeOK /\ Tracking /\ Cycle
=============================================================================
