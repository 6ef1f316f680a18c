--------------------------- MODULE DebouncerProofs ---------------------------
(***************************************************************************)
(* The debouncer's promises for every threshold above one sample.          *)
(***************************************************************************)
EXTENDS Debouncer, TLAPS

(***************************************************************************)
(* The debouncer's count is the length of the current run of samples that  *)
(* differ from the accepted level, so it stays below the threshold.        *)
(***************************************************************************)
THEOREM DebounceInvHolds == Spec => []DebounceInv
  <1> USE SamplesAssumption DEF Levels, HistoryBound
  <1>1. Init => DebounceInv
    BY DEF Init, DebounceInv, TypeOK, Tracking, Cycle
  <1>2. ASSUME DebounceInv, NEW level \in Levels,
               SampleSame(level) \/ SampleCandidate(level) \/ SampleNew(level)
        PROVE  DebounceInv'
    <2> DEFINE N == DEBOUNCE_STABLE_SAMPLES
    <2>1. /\ N \in Nat /\ N > 1 /\ run \in 1..(2 * N) /\ sincePress \in 0..(2 * N)
          /\ count \in 0..(N - 1)
          /\ stable \in Levels /\ raw \in Levels /\ candidate = raw
          /\ raw = stable => count = 0
          /\ raw # stable => count = run
          /\ Cycle
      BY <1>2 DEF DebounceInv, TypeOK, Tracking
    <2>2. /\ raw' = level
          /\ run' = IF level = raw THEN Longer(run) ELSE 1
          /\ posted' = IF stable' # stable /\ stable' = "pressed" THEN "TouchPressed" ELSE "None"
          /\ sincePress' = IF posted' = "TouchPressed" THEN 0 ELSE Longer(sincePress)
      BY <1>2 DEF SampleSame, SampleCandidate, SampleNew, sample_once
    <2>3. run' \in 1..(2 * N) /\ sincePress' \in 0..(2 * N)
          /\ Longer(sincePress) \in {sincePress + 1, 2 * N}
          /\ Longer(run) \in {run + 1, 2 * N}
      BY <2>1, <2>2 DEF Longer
    <2>4. CASE SampleSame(level)
      <3>1. stable' = stable /\ raw' = stable' /\ candidate' = stable /\ count' = 0
            /\ posted' = "None" /\ sincePress' = Longer(sincePress)
        BY <2>2, <2>4 DEF SampleSame
      <3>2. Cycle' BY <2>1, <2>3, <3>1 DEF Cycle
      <3>3. QED BY <2>1, <2>2, <2>3, <3>1, <3>2 DEF DebounceInv, TypeOK, Tracking
    <2>5. CASE SampleCandidate(level) /\ count + 1 >= N
      <3>1. stable' = raw /\ raw' = raw /\ raw # stable /\ candidate' = raw /\ count' = 0
            /\ run' = Longer(run) /\ count = run
        BY <2>1, <2>2, <2>5 DEF SampleCandidate
      <3>2. CASE stable' = "pressed"
        <4>1. Cycle' BY <3>1, <3>2 DEF Cycle
        <4>2. QED BY <2>1, <2>2, <2>3, <3>1, <4>1 DEF DebounceInv, TypeOK, Tracking
      <3>3. CASE stable' = "released"
        <4>1. stable = "pressed" /\ raw = "released" BY <2>1, <3>1, <3>3
        <4>2. posted' = "None" /\ sincePress' = Longer(sincePress) BY <2>2, <3>3
        <4>3. sincePress >= run /\ run + 1 >= N BY <2>1, <2>5, <3>1, <4>1 DEF Cycle
        <4>4. sincePress' >= N BY <2>1, <2>3, <4>2, <4>3
        <4>5. Cycle' BY <3>1, <3>3, <4>4 DEF Cycle
        <4>6. QED BY <2>1, <2>3, <3>1, <4>2, <4>5 DEF DebounceInv, TypeOK, Tracking
      <3>4. QED BY <2>1, <3>1, <3>2, <3>3
    <2>6. CASE SampleCandidate(level) /\ ~ (count + 1 >= N)
      <3>1. stable' = stable /\ raw' = raw /\ raw # stable /\ candidate' = raw
            /\ count' = count + 1 /\ run' = Longer(run) /\ count = run
            /\ posted' = "None" /\ sincePress' = Longer(sincePress)
        BY <2>1, <2>2, <2>6 DEF SampleCandidate
      <3>2. run' = run + 1 /\ count' \in 0..(N - 1) BY <2>1, <2>6, <3>1 DEF Longer
      <3>3. Cycle' BY <2>1, <2>3, <2>6, <3>1, <3>2 DEF Cycle
      <3>4. QED BY <2>1, <2>2, <2>3, <3>1, <3>2, <3>3 DEF DebounceInv, TypeOK, Tracking
    <2>7. CASE SampleNew(level)
      <3>1. stable' = stable /\ raw' = level /\ level # stable /\ candidate' = level
            /\ count' = 1 /\ run' = 1 /\ raw = stable
            /\ posted' = "None" /\ sincePress' = Longer(sincePress)
        BY <2>1, <2>2, <2>7, <1>2 DEF SampleNew
      <3>2. Cycle' BY <2>1, <2>3, <3>1 DEF Cycle
      <3>3. QED BY <2>1, <2>3, <3>1, <3>2 DEF DebounceInv, TypeOK, Tracking
    <2>8. QED BY <1>2, <2>4, <2>5, <2>6, <2>7
  <1>3. DebounceInv /\ [Next]_vars => DebounceInv'
    <2>1. DebounceInv /\ UNCHANGED vars => DebounceInv'
      BY DEF DebounceInv, TypeOK, Tracking, Cycle, vars
    <2>2. QED BY <1>2, <2>1 DEF Next
  <1>4. QED BY <1>1, <1>3, PTL DEF Spec

(***************************************************************************)
(* No glitch shorter than the threshold changes the accepted level.        *)
(***************************************************************************)
THEOREM GlitchFreeHolds == Spec => GlitchFree
  <1>1. DebounceInv /\ [Next]_vars =>
          [stable' # stable => stable' = raw' /\ run' >= DEBOUNCE_STABLE_SAMPLES]_vars
    <2> SUFFICES ASSUME DebounceInv, NEW level \in Levels, stable' # stable,
                        SampleSame(level) \/ SampleCandidate(level) \/ SampleNew(level)
                 PROVE  stable' = raw' /\ run' >= DEBOUNCE_STABLE_SAMPLES
      BY DEF Next, vars
    <2>1. SampleCandidate(level) BY DEF SampleSame, SampleNew
    <2>2. QED BY <2>1, SamplesAssumption DEF SampleCandidate, sample_once, Longer,
                 DebounceInv, TypeOK, Tracking, HistoryBound
  <1>2. QED BY <1>1, DebounceInvHolds, PTL DEF Spec, GlitchFree

(***************************************************************************)
(* A level that lasts for the threshold has been accepted.                 *)
(***************************************************************************)
THEOREM ResponsiveHolds == Spec => []Responsive
  <1>1. DebounceInv => Responsive
    BY SamplesAssumption DEF DebounceInv, TypeOK, Tracking, Responsive
  <1>2. QED BY <1>1, DebounceInvHolds, PTL

(***************************************************************************)
(* Consecutive presses are two thresholds apart.                           *)
(***************************************************************************)
THEOREM PressesApartHolds == Spec => PressesApart
  <1>1. DebounceInv /\ [Next]_vars =>
          [posted' = "TouchPressed" => sincePress + 1 >= HistoryBound]_vars
    <2> SUFFICES ASSUME DebounceInv, NEW level \in Levels, posted' = "TouchPressed",
                        SampleSame(level) \/ SampleCandidate(level) \/ SampleNew(level)
                 PROVE  sincePress + 1 >= HistoryBound
      BY DEF Next, vars, DebounceInv
    <2>1. stable' # stable /\ stable' = "pressed"
      BY DEF SampleSame, SampleCandidate, SampleNew, sample_once
    <2>2. SampleCandidate(level) BY <2>1 DEF SampleSame, SampleNew
    <2>3. /\ stable = "released" /\ raw = "pressed"
          /\ count + 1 >= DEBOUNCE_STABLE_SAMPLES
      BY <2>1, <2>2 DEF SampleCandidate, DebounceInv, TypeOK, Tracking, Levels
    <2>4. QED BY <2>3, SamplesAssumption
              DEF DebounceInv, TypeOK, Tracking, Cycle, HistoryBound
  <1>2. QED BY <1>1, DebounceInvHolds, PTL DEF Spec, PressesApart

(***************************************************************************)
(* The counter of DebouncerState stays below its threshold: sample_once    *)
(* resets it with every level it accepts.                                  *)
(***************************************************************************)
THEOREM DebouncerTypeCorrect == Spec => []TypeOK
  <1>1. DebounceInv => TypeOK
    BY DEF DebounceInv
  <1>2. QED BY <1>1, DebounceInvHolds, PTL
=============================================================================
