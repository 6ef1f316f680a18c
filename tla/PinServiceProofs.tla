-------------------------- MODULE PinServiceProofs --------------------------
(***************************************************************************)
(* Proofs about PinService for every set of secrets, session timeout,      *)
(* number of identity slots and counter limit of the assumed form.         *)
(***************************************************************************)
EXTENDS PinService, TLAPS

(***************************************************************************)
(* retries_remaining stays within a batch, drops by exactly one when a     *)
(* counted attempt was still available, and is zero only on a positive     *)
(* multiple of the batch.                                                  *)
(***************************************************************************)
LEMMA RetriesRange ==
  ASSUME NEW n \in Nat, NEW b \in {5, 10}
  PROVE  retries_remaining(n, b) \in 0..b
  <1>1. CASE b = 5 BY <1>1 DEF retries_remaining
  <1>2. CASE b = 10 BY <1>2 DEF retries_remaining
  <1>3. QED BY <1>1, <1>2

LEMMA RetriesStep ==
  ASSUME NEW n \in Nat, NEW b \in {5, 10}, retries_remaining(n, b) # 0
  PROVE  retries_remaining(n + 1, b) = retries_remaining(n, b) - 1
  <1>1. CASE b = 5 BY <1>1 DEF retries_remaining
  <1>2. CASE b = 10 BY <1>2 DEF retries_remaining
  <1>3. QED BY <1>1, <1>2

LEMMA RetriesZero ==
  ASSUME NEW n \in Nat, NEW b \in {5, 10}, retries_remaining(n, b) = 0
  PROVE  n > 0 /\ n % b = 0
  <1>1. CASE b = 5 BY <1>1 DEF retries_remaining
  <1>2. CASE b = 10 BY <1>2 DEF retries_remaining
  <1>3. QED BY <1>1, <1>2

(***************************************************************************)
(* The increments refresh_counter_batch computes end one past a multiple   *)
(* of the batch and never run into the hardware limit.                     *)
(***************************************************************************)
LEMMA BumpsLand ==
  ASSUME NEW n \in 0..CounterMax, NEW b \in {5, 10}
  PROVE  /\ refresh_bumps(n, b) \in Nat
         /\ (n + refresh_bumps(n, b)) % b = 1
         /\ n + refresh_bumps(n, b) <= CounterMax
  <1>1. CASE b = 5 BY <1>1, CounterMaxAssumption DEF refresh_bumps
  <1>2. CASE b = 10 BY <1>2, CounterMaxAssumption DEF refresh_bumps
  <1>3. QED BY <1>1, <1>2

LEMMA BatchValues == \A c \in Counters : batch_size(c) \in {5, 10}
  BY DEF batch_size, PIN_MAX_RETRIES, PUK_MAX_RETRIES

-----------------------------------------------------------------------------
(***************************************************************************)
(* The type invariant holds in every reachable state.                      *)
(***************************************************************************)
LEMMA FinishType ==
  ASSUME TypeOK, NEW st \in Statuses, Finish(st)
  PROVE  /\ req' \in Requests /\ req'.kind = "None" /\ step' = "idle"
         /\ left' \in Nat /\ since' \in 0..SessionTimeout
         /\ resp' \in [kind : Kinds \cup {"None", "CloseSession"}, status : Statuses]
         /\ proven' = "nothing"
  <1>1. resp' \in [kind : Kinds \cup {"None", "CloseSession"}, status : Statuses]
    <2>1. resp' = Answer(req.kind, st) BY DEF Finish
    <2>2. CASE req.kind = "EmergencyReset" /\ st = "Ok"
      BY <2>1, <2>2 DEF Answer, Kinds, Follow, Statuses
    <2>3. CASE ~ (req.kind = "EmergencyReset" /\ st = "Ok")
      BY <2>1, <2>3 DEF Answer, Statuses
    <2>4. QED BY <2>2, <2>3
  <1>2. QED
    BY <1>1, SecretsAssumption, BoundsAssumption
       DEF TypeOK, Finish, Requests, NoReq, Secrets

(* Every method falls through to one of its own commands, or returns. *)
LEMMA FollowType ==
  ASSUME NEW k \in Kinds, NEW s \in DOMAIN Follow[k]
  PROVE  Follow[k][s] = "idle" \/ Follow[k][s] \in DOMAIN Follow[k]
  <1>1. k \in {"VerifyPin", "SetPin", "UnblockPin", "SetPuk", "EmergencyReset",
               "GenKey", "Sign"}
    BY DEF Kinds, Follow
  <1>2. CASE k = "VerifyPin" BY <1>2 DEF Follow
  <1>3. CASE k = "SetPin" BY <1>3 DEF Follow
  <1>4. CASE k = "UnblockPin" BY <1>4 DEF Follow
  <1>5. CASE k = "SetPuk" BY <1>5 DEF Follow
  <1>6. CASE k = "EmergencyReset" BY <1>6 DEF Follow
  <1>7. CASE k = "GenKey" BY <1>7 DEF Follow
  <1>8. CASE k = "Sign" BY <1>8 DEF Follow
  <1>9. QED BY <1>1, <1>2, <1>3, <1>4, <1>5, <1>6, <1>7, <1>8

LEMMA ProceedType ==
  ASSUME TypeOK, step # "idle", Proceed
  PROVE  /\ req' \in Requests
         /\ req'.kind \in {"SetPin", "UnblockPin", "EmergencyReset"} => req'.new \in Pins
         /\ IF req'.kind = "None" THEN step' = "idle" ELSE step' \in DOMAIN Follow[req'.kind]
         /\ left' \in Nat /\ since' \in 0..SessionTimeout
         /\ resp' \in [kind : Kinds \cup {"None", "CloseSession"}, status : Statuses]
         /\ proven' \in {"nothing", "pin", "puk", "saturation"}
  <1>1. req.kind \in Kinds /\ step \in DOMAIN Follow[req.kind]
    BY DEF TypeOK, Requests
  <1>2. CASE Follow[req.kind][step] = "idle"
    <2>1. Finish("Ok") BY <1>2 DEF Proceed
    <2>2. QED BY <2>1, FinishType DEF Statuses
  <1>3. CASE Follow[req.kind][step] # "idle"
    <2>1. step' \in DOMAIN Follow[req.kind]
      BY <1>1, <1>3, FollowType DEF Proceed
    <2>2. QED BY <2>1, <1>3, <1>1 DEF Proceed, TypeOK
  <1>4. QED BY <1>2, <1>3

(* Where each method starts. *)
LEMMA EntryPoints ==
  /\ \A k \in PinKinds \cup {"UnblockPin", "EmergencyReset"} :
       k \in Kinds /\ "counter" \in DOMAIN Follow[k]
  /\ \A k \in {"SetPuk", "Sign"} : k \in Kinds /\ "session" \in DOMAIN Follow[k]
  /\ "GenKey" \in Kinds /\ "genkey" \in DOMAIN Follow["GenKey"]
  /\ "None" \notin Kinds
  BY DEF PinKinds, Kinds, Follow

LEMMA StartType ==
  ASSUME TypeOK, NEW k \in Kinds, NEW cand \in Secrets, NEW new \in Secrets,
         NEW s \in 1..EccSlots,
         NEW first \in DOMAIN Follow[k], Start(k, cand, new, s, first),
         k \in {"SetPin", "UnblockPin", "EmergencyReset"} => new \in Pins
  PROVE  TypeOK'
  <1>1. resp' \in [kind : Kinds \cup {"None", "CloseSession"}, status : Statuses]
    BY DEF Start, NoResp, Statuses
  <1>2. /\ req' \in Requests /\ req'.kind = k /\ req'.new = new
        /\ step' \in DOMAIN Follow[k]
    BY DEF Start, Requests
  <1>3. QED BY <1>1, <1>2, EntryPoints DEF Start, TypeOK, chip, session

LEMMA RequestType ==
  ASSUME TypeOK, Request
  PROVE  TypeOK'
  <1>1. /\ 1 \in 1..EccSlots /\ Malformed \in Secrets
        /\ Pins \subseteq Secrets /\ Puks \subseteq Secrets
        /\ DefaultPin \in Pins
    BY SecretsAssumption, BoundsAssumption DEF Secrets
  <1>2. CASE verify_pin
    BY <1>1, <1>2, EntryPoints, StartType DEF verify_pin, PinKinds
  <1>3. CASE set_pin
    BY <1>1, <1>3, EntryPoints, StartType DEF set_pin, PinKinds
  <1>4. CASE unblock_pin
    BY <1>1, <1>4, EntryPoints, StartType DEF unblock_pin
  <1>5. CASE set_puk
    BY <1>1, <1>5, EntryPoints, StartType DEF set_puk
  <1>6. CASE emergency_reset
    BY <1>1, <1>6, EntryPoints, StartType DEF emergency_reset
  <1>7. CASE genkey_create
    BY <1>1, <1>7, EntryPoints, StartType DEF genkey_create
  <1>8. CASE sign
    BY <1>1, <1>8, EntryPoints, StartType DEF sign
  <1>9. CASE validate_digits
    <2>1. resp' \in [kind : Kinds \cup {"None", "CloseSession"}, status : Statuses]
      BY <1>9 DEF validate_digits, Answer, Statuses
    <2>2. QED BY <1>9, <2>1 DEF validate_digits, TypeOK, chip, session
  <1>10. CASE close_session
    <2>1. resp' \in [kind : Kinds \cup {"None", "CloseSession"}, status : Statuses]
      BY <1>10 DEF close_session, Answer, Statuses
    <2>2. open' \in BOOLEAN BY <1>10, Zenon DEF close_session
    <2>3. QED BY <1>10, <2>1, <2>2, BoundsAssumption DEF close_session, TypeOK, chip
  <1>11. QED
    BY <1>2, <1>3, <1>4, <1>5, <1>6, <1>7, <1>8, <1>9, <1>10 DEF Request

LEMMA StepType ==
  ASSUME TypeOK, ServiceStep \/ ChipFault \/ PowerLoss \/ Tick
  PROVE  TypeOK'
  <1> USE SecretsAssumption, BoundsAssumption, CounterMaxAssumption
  <1> USE DEF chip, session, ReplyLost
  <1> DEFINE CallOK ==
         /\ req' \in Requests
         /\ req'.kind \in {"SetPin", "UnblockPin", "EmergencyReset"} => req'.new \in Pins
         /\ IF req'.kind = "None" THEN step' = "idle" ELSE step' \in DOMAIN Follow[req'.kind]
         /\ left' \in Nat /\ since' \in 0..SessionTimeout
         /\ resp' \in [kind : Kinds \cup {"None", "CloseSession"}, status : Statuses]
         /\ proven' \in {"nothing", "pin", "puk", "saturation"}
  <1>a. ASSUME NEW st \in Statuses, Finish(st) PROVE CallOK
    BY <1>a, FinishType
  <1>b. ASSUME step # "idle", Proceed PROVE CallOK
    BY <1>b, ProceedType
  <1>c. step # "idle" => req.kind \in Kinds /\ step \in DOMAIN Follow[req.kind]
    BY DEF TypeOK, Requests
  <1>d. Guarding(req.kind) \in Counters /\ RefreshCounter \in Counters
    BY DEF Guarding, RefreshCounter, Counters
  <1> HIDE DEF CallOK
  <1>1. CASE CheckSession
    <2>1. CallOK BY <1>1, <1>a, <1>b DEF CheckSession, Statuses
    <2>2. QED BY <1>1, <2>1 DEF CheckSession, TypeOK, CallOK
  <1>2. CASE CheckTries
    <2>1. CallOK BY <1>2, <1>a, <1>b DEF CheckTries, Statuses
    <2>2. QED BY <1>2, <2>1 DEF CheckTries, TypeOK, CallOK
  <1>3. CASE CheckSaturated
    <2>1. CallOK
      <3>1. CASE \A c \in Counters : Tries(c) = 0
        BY <1>3, <3>1, <1>c DEF CheckSaturated, CallOK, TypeOK, Follow
      <3>2. CASE ~ \A c \in Counters : Tries(c) = 0
        BY <1>3, <3>2, <1>a DEF CheckSaturated, Statuses
      <3>3. QED BY <3>1, <3>2
    <2>2. wrong' \in [Counters -> Nat]
      BY <1>3 DEF CheckSaturated, TypeOK
    <2>3. QED BY <1>3, <2>1, <2>2 DEF CheckSaturated, TypeOK, CallOK
  <1>4. CASE cached_serial
    <2>1. CallOK
      <3>1. CASE Follow[req.kind].serial = "genkey"
        <4>1. "genkey" \in DOMAIN Follow[req.kind]
          BY <1>4, <1>c, <3>1, FollowType DEF cached_serial
        <4>2. QED BY <1>4, <3>1, <1>c, <4>1 DEF cached_serial, CallOK, TypeOK
      <3>2. CASE Follow[req.kind].serial # "genkey"
        BY <1>4, <3>2, <1>b DEF cached_serial
      <3>3. QED BY <3>1, <3>2
    <2>2. QED BY <1>4, <2>1 DEF cached_serial, TypeOK, CallOK
  <1>5. CASE CheckMacRight
    <2>1. CallOK
      <3>1. CASE ReplyLost BY <3>1, <1>a DEF Statuses
      <3>2. CASE step' = Follow[req.kind].checkmac /\ UNCHANGED <<req, left, since, resp>>
                 /\ proven' \in {"pin", "puk"}
        <4>1. step = "checkmac" BY <1>5 DEF CheckMacRight
        <4>2. Follow[req.kind].checkmac # "idle"
          BY <1>c, <4>1 DEF Kinds, Follow
        <4>3. step' \in DOMAIN Follow[req.kind]
          BY <3>2, <4>1, <4>2, <1>c, FollowType
        <4>4. QED BY <3>2, <4>3, <4>1, <1>c DEF CallOK, TypeOK
      <3>3. QED BY <1>5, <3>1, <3>2 DEF CheckMacRight
    <2>2. count' \in [Counters -> 0..CounterMax]
      BY <1>5, <1>d DEF CheckMacRight, TypeOK
    <2>3. wrong' \in [Counters -> Nat]
      BY <1>5, <1>d DEF CheckMacRight, TypeOK
    <2>4. owed' \subseteq Counters
      BY <1>5, <1>c DEF CheckMacRight, Refreshes, TypeOK, Counters, PinKinds
    <2>5. QED BY <1>5, <2>1, <2>2, <2>3, <2>4 DEF CheckMacRight, TypeOK, CallOK
  <1>6. CASE CheckMacWrong
    <2>1. CallOK BY <1>6, <1>a DEF CheckMacWrong, Statuses
    <2>2. count' \in [Counters -> 0..CounterMax]
      BY <1>6, <1>d DEF CheckMacWrong, TypeOK
    <2>3. wrong' \in [Counters -> Nat]
      BY <1>6, <1>d DEF CheckMacWrong, TypeOK
    <2>4. QED BY <1>6, <2>1, <2>2, <2>3 DEF CheckMacWrong, TypeOK, CallOK
  <1>7. CASE CheckMacExhausted
    <2>1. CallOK BY <1>7, <1>a DEF CheckMacExhausted, Statuses
    <2>2. QED BY <1>7, <2>1 DEF CheckMacExhausted, TypeOK, CallOK
  <1>8. CASE WritePin
    <2>1. CallOK BY <1>8, <1>a, <1>b DEF WritePin, Statuses
    <2>2. pin' \in Pins
      <3>1. req.kind \in {"SetPin", "UnblockPin", "EmergencyReset"}
        BY <1>8, <1>c DEF WritePin, Kinds, Follow
      <3>2. QED BY <1>8, <3>1 DEF WritePin, TypeOK
    <2>3. QED BY <1>8, <2>1, <2>2 DEF WritePin, TypeOK, CallOK
  <1>9. CASE WritePuk
    <2>1. CallOK BY <1>9, <1>a, <1>b DEF WritePuk, Statuses
    <2>2. QED BY <1>9, <2>1 DEF WritePuk, TypeOK, CallOK
  <1>10. CASE WriteRefused
    <2>1. CallOK BY <1>10, <1>a DEF WriteRefused, Statuses
    <2>2. QED BY <1>10, <2>1 DEF WriteRefused, TypeOK, CallOK
  <1>11. CASE RefreshRead
    <2>1. left' \in Nat
      BY <1>11, <1>d, BumpsLand, BatchValues DEF RefreshRead, TypeOK
    <2>2. step \in {"refresh0", "refresh1"} /\ step # "idle"
      BY <1>11 DEF RefreshRead
    <2>3. Follow[req.kind][step] # "idle"
      BY <1>c, <2>2 DEF Kinds, Follow
    <2>4. step' \in DOMAIN Follow[req.kind]
      BY <1>11, <1>c, <2>2, <2>3, FollowType DEF RefreshRead
    <2>5. QED BY <1>11, <1>c, <2>1, <2>2, <2>4 DEF RefreshRead, TypeOK
  <1>12. CASE RefreshBump
    <2>1. CallOK
      <3>1. CASE ReplyLost BY <3>1, <1>a DEF Statuses
      <3>2. CASE left' = left - 1 /\ UNCHANGED <<req, step, since, resp, proven>>
        BY <3>2, <1>12 DEF RefreshBump, CallOK, TypeOK
      <3>3. QED BY <1>12, <3>1, <3>2 DEF RefreshBump
    <2>2. count' \in [Counters -> 0..CounterMax]
      BY <1>12, <1>d DEF RefreshBump, TypeOK
    <2>3. QED BY <1>12, <2>1, <2>2 DEF RefreshBump, TypeOK, CallOK
  <1>13. CASE RefreshDone \/ RefreshRefused
    <2>1. CallOK
      <3>0. step # "idle" /\ EndRefresh BY <1>13 DEF RefreshDone, RefreshRefused
      <3>1. CASE Finish("Ok") BY <3>1, <1>a DEF Statuses
      <3>2. CASE Follow[req.kind][step] # "idle"
        <4>1. step' \in DOMAIN Follow[req.kind]
          BY <3>0, <3>2, <1>c, FollowType DEF EndRefresh
        <4>2. QED BY <3>0, <3>2, <4>1, <1>c DEF EndRefresh, CallOK, TypeOK
      <3>3. QED BY <3>0, <3>1, <3>2 DEF EndRefresh
    <2>2. owed' \subseteq Counters BY <1>13 DEF RefreshDone, RefreshRefused, TypeOK
    <2>3. QED BY <1>13, <2>1, <2>2 DEF RefreshDone, RefreshRefused, TypeOK, CallOK
  <1>14. CASE OpenSession
    <2>1. CallOK BY <1>14, <1>a DEF OpenSession, Statuses
    <2>2. QED BY <1>14, <2>1 DEF OpenSession, TypeOK, CallOK
  <1>15. CASE TouchSession
    <2>1. CallOK BY <1>15, <1>a DEF TouchSession, Statuses
    <2>2. QED BY <1>15, <2>1 DEF TouchSession, TypeOK, CallOK
  <1>16. CASE GenKeySlot
    <2>1. CallOK BY <1>16, <1>a, <1>b DEF GenKeySlot, Statuses
    <2>2. QED BY <1>16, <2>1 DEF GenKeySlot, TypeOK, CallOK
  <1>17. CASE GenKeyLoop
    <2>1. CallOK
      <3>1. CASE ReplyLost BY <3>1, <1>a DEF Statuses
      <3>2. CASE /\ left' = left - 1
                 /\ step' = IF left = 1 THEN "random" ELSE "genkey"
                 /\ UNCHANGED <<req, since, resp, proven>>
        <4>1. {"random", "genkey"} \subseteq DOMAIN Follow["EmergencyReset"]
          BY DEF Follow
        <4>2. QED BY <3>2, <4>1, <1>17, EntryPoints DEF GenKeyLoop, CallOK, TypeOK
      <3>3. QED BY <1>17, <3>1, <3>2 DEF GenKeyLoop
    <2>2. QED BY <1>17, <2>1 DEF GenKeyLoop, TypeOK, CallOK
  <1>18. CASE ChipCompute
    <2>1. CallOK BY <1>18, <1>b DEF ChipCompute
    <2>2. QED BY <1>18, <2>1 DEF ChipCompute, TypeOK, CallOK
  <1>19. CASE ChipFault
    <2>1. CallOK BY <1>19, <1>a DEF ChipFault, Statuses
    <2>2. QED BY <1>19, <2>1 DEF ChipFault, TypeOK, CallOK
  <1>20. CASE PowerLoss
    <2>1. req' \in Requests /\ req'.kind = "None"
      BY <1>20 DEF PowerLoss, NoReq, Requests, Secrets
    <2>2. resp' \in [kind : Kinds \cup {"None", "CloseSession"}, status : Statuses]
      BY <1>20 DEF PowerLoss, NoResp, Statuses
    <2>3. open' \in BOOLEAN BY <1>20, Zenon DEF PowerLoss
    <2>4. QED BY <1>20, <2>1, <2>2, <2>3 DEF PowerLoss, TypeOK
  <1>21. CASE Tick
    BY <1>21 DEF Tick, TypeOK, Older
  <1>22. QED
    BY <1>1, <1>2, <1>3, <1>4, <1>5, <1>6, <1>7, <1>8, <1>9, <1>10, <1>11,
       <1>12, <1>13, <1>14, <1>15, <1>16, <1>17, <1>18, <1>19, <1>20, <1>21
    DEF ServiceStep

(***************************************************************************)
(* The type invariant holds in every reachable state.                      *)
(***************************************************************************)
THEOREM TypeCorrect == Spec => []TypeOK
  <1>1. Init => TypeOK
    <2>1. NoReq \in Requests /\ NoReq.kind = "None"
      BY SecretsAssumption, BoundsAssumption DEF NoReq, Requests, Secrets
    <2>2. NoResp \in [kind : Kinds \cup {"None", "CloseSession"}, status : Statuses]
      BY DEF NoResp, Statuses
    <2>3. Init => open \in BOOLEAN BY Zenon DEF Init
    <2>4. QED BY <2>1, <2>2, <2>3, SecretsAssumption, BoundsAssumption,
                 CounterMaxAssumption
              DEF Init, TypeOK
  <1>2. TypeOK /\ [Next]_vars => TypeOK'
    <2>1. TypeOK /\ Next => TypeOK'
      BY RequestType, StepType DEF Next
    <2>2. TypeOK /\ UNCHANGED vars => TypeOK'
      BY DEF TypeOK, vars
    <2>3. QED BY <2>1, <2>2
  <1>3. QED BY <1>1, <1>2, PTL DEF Spec
-----------------------------------------------------------------------------
(***************************************************************************)
(* What the methods' orders of commands have in common.                    *)
(***************************************************************************)
LEMMA FollowTable ==
  ASSUME NEW k \in Kinds, NEW s \in DOMAIN Follow[k]
  PROVE  /\ s = "session" => Follow[k][s] \in {"counter", "sign"} /\ k \in {"SetPuk", "Sign"}
         /\ s = "counter" => Follow[k][s] = "serial" /\ k \notin {"GenKey", "Sign"}
         /\ s = "serial"  => Follow[k][s] = IF k = "EmergencyReset" THEN "genkey" ELSE "checkmac"
         /\ s = "checkmac" => k \in PinKinds \cup PukKinds
         /\ s \in {"checkmac", "write_pin", "write_puk", "refresh0", "refresh1",
                   "bump0", "bump1", "genkey", "random", "sign"} =>
              Follow[k][s] \in {"idle", "random", "write_pin", "write_puk", "refresh0",
                               "bump0", "refresh1", "bump1", "open", "touch"}
         /\ s \in {"refresh0", "bump0"} => "Counter0" \in Refreshes(k)
         /\ s \in {"refresh1", "bump1"} => "Counter1" \in Refreshes(k)
         /\ s # "idle"
         /\ s = "sign" => k = "Sign"
         /\ s = "genkey" => k \in {"GenKey", "EmergencyReset"}
         /\ s = "random" => k = "EmergencyReset"
  <1> USE DEF PinKinds, PukKinds, Refreshes, Counters
  <1>1. k \in {"VerifyPin", "SetPin", "UnblockPin", "SetPuk", "EmergencyReset",
               "GenKey", "Sign"}
    BY DEF Kinds, Follow
  <1>2. CASE k = "VerifyPin" BY <1>2 DEF Follow
  <1>3. CASE k = "SetPin" BY <1>3 DEF Follow
  <1>4. CASE k = "UnblockPin" BY <1>4 DEF Follow
  <1>5. CASE k = "SetPuk" BY <1>5 DEF Follow
  <1>6. CASE k = "EmergencyReset" BY <1>6 DEF Follow
  <1>7. CASE k = "GenKey" BY <1>7 DEF Follow
  <1>8. CASE k = "Sign" BY <1>8 DEF Follow
  <1>9. QED BY <1>1, <1>2, <1>3, <1>4, <1>5, <1>6, <1>7, <1>8

(* A return leaves nothing for Gated and Proved to say. *)
LEMMA FinishBudget ==
  ASSUME NEW st, Finish(st)
  PROVE  Gated' /\ Proved'
  BY DEF Finish, Gated, Proved, NoReq, PinKinds, PukKinds

(* Falling through from a command that follows the proof keeps Gated and *)
(* Proved, if neither the counters nor the misses changed.               *)
LEMMA ProceedBudget ==
  ASSUME BudgetInv, Proceed, UNCHANGED wrong,
         step \in {"write_pin", "write_puk", "bump0", "bump1", "genkey", "random", "sign"},
         step = "genkey" => req.kind = "GenKey"
  PROVE  Gated' /\ Proved'
  <1>1. req.kind \in Kinds /\ step \in DOMAIN Follow[req.kind]
    BY DEF BudgetInv, TypeOK, Requests
  <1>2. CASE Follow[req.kind][step] = "idle"
    BY <1>2, FinishBudget DEF Proceed
  <1>3. CASE Follow[req.kind][step] # "idle"
    <2>1. step' \in {"random", "write_pin", "write_puk", "refresh0",
                     "bump0", "refresh1", "bump1", "open", "touch"}
      BY <1>1, <1>3, FollowTable DEF Proceed
    <2>2. req.kind # "GenKey"
      BY <1>1, <1>3 DEF Follow
    <2>3. step = "sign" => step' = "touch"
      BY <1>1, <1>3, FollowTable DEF Proceed, Follow
    <2>4. step # "sign" => proven = Proof(req.kind)
      BY <2>2 DEF BudgetInv, Proved
    <2>5. req' = req /\ proven' = proven
      BY <1>3 DEF Proceed
    <2>6. Gated'
      BY <2>1 DEF Gated
    <2>7. Proved'
      BY <2>1, <2>3, <2>4, <2>5, <1>1, FollowTable DEF BudgetInv, Proved, Proof, PinKinds, PukKinds
    <2>8. QED BY <2>6, <2>7
  <1>4. QED BY <1>2, <1>3

(* The budget depends on the counters and the misses alone. *)
LEMMA BudgetFrame ==
  ASSUME GuessBudget, UNCHANGED <<count, wrong>>
  PROVE  GuessBudget'
  BY DEF GuessBudget, Tries

(* Every step of a request, of the service or of its environment keeps the *)
(* budget: one case per action, one obligation per conjunct it can disturb.*)
LEMMA BudgetStep ==
  ASSUME BudgetInv, Next
  PROVE  GuessBudget' /\ Gated' /\ Proved'
  <1> USE DEF chip, session
  <1>a. TypeOK BY DEF BudgetInv
  <1>b. step # "idle" => req.kind \in Kinds /\ step \in DOMAIN Follow[req.kind]
    BY <1>a DEF TypeOK, Requests
  <1>c. Guarding(req.kind) \in Counters /\ RefreshCounter \in Counters
    BY DEF Guarding, RefreshCounter, Counters
  <1>d. \A c \in Counters : count[c] \in Nat /\ wrong[c] \in Nat
    BY <1>a, CounterMaxAssumption DEF TypeOK
  <1>1. CASE Request
    <2>1. UNCHANGED <<count, wrong>>
      BY <1>1 DEF Request, verify_pin, set_pin, unblock_pin, set_puk, emergency_reset,
              genkey_create, sign, validate_digits, close_session, Start
    <2>2. step = "idle" /\ proven = "nothing" /\ proven' = "nothing"
      BY <1>1 DEF BudgetInv, Proved, Request, verify_pin, set_pin, unblock_pin, set_puk,
              emergency_reset, genkey_create, sign, validate_digits, close_session, Start
    <2>3. \/ step' \in {"counter", "session"}
          \/ step' = "genkey" /\ req'.kind = "GenKey"
          \/ step' = step /\ req' = req
      BY <1>1 DEF Request, verify_pin, set_pin, unblock_pin, set_puk, emergency_reset,
              genkey_create, sign, validate_digits, close_session, Start
    <2>4. req'.kind = "EmergencyReset" => step' = "counter"
      <3>1. req.kind = "None" BY <2>2, <1>a, FollowTable DEF TypeOK, Requests
      <3>2. QED
        BY <1>1, <3>1 DEF Request, verify_pin, set_pin, unblock_pin, set_puk,
           emergency_reset, genkey_create, sign, validate_digits, close_session, Start
    <2>5. Gated' BY <2>2, <2>3 DEF Gated
    <2>6. Proved' BY <2>2, <2>3, <2>4 DEF Proved
    <2>7. QED BY <2>1, <2>5, <2>6, BudgetFrame DEF BudgetInv
  <1>2. CASE CheckSession
    <2>1. UNCHANGED <<count, wrong>> BY <1>2 DEF CheckSession
    <2>2. CASE Finish("PinRequired")
      BY <2>1, <2>2, FinishBudget, BudgetFrame DEF BudgetInv
    <2>3. CASE Proceed
      <3>1. req.kind \in {"SetPuk", "Sign"} /\ step' \in {"counter", "sign"}
            /\ req' = req /\ proven' = proven
        BY <1>2, <1>b, <2>3, FollowTable DEF CheckSession, Proceed
      <3>2. step' = "counter" => proven = "nothing"
        BY <1>2 DEF CheckSession, BudgetInv, Proved
      <3>3. Gated' /\ Proved'
        BY <3>1, <3>2, <2>1 DEF Gated, BudgetInv, Proved
      <3>4. QED BY <2>1, <3>3, BudgetFrame DEF BudgetInv
    <2>4. QED BY <1>2, <2>2, <2>3 DEF CheckSession
  <1>3. CASE CheckTries
    <2>1. UNCHANGED <<count, wrong>> BY <1>3 DEF CheckTries
    <2>2. CASE \E st : Finish(st)
      BY <2>1, <2>2, FinishBudget, BudgetFrame DEF BudgetInv
    <2>3. CASE Proceed /\ Tries(Guarding(req.kind)) # 0
      <3>1. step' = "serial" /\ req' = req /\ proven' = proven
        BY <1>3, <1>b, <2>3, FollowTable DEF CheckTries, Proceed
      <3>2. Gated' BY <2>1, <2>3, <3>1 DEF Gated, Tries
      <3>3. Proved'
        BY <1>3, <2>1, <3>1 DEF CheckTries, BudgetInv, Proved
      <3>4. QED BY <2>1, <3>2, <3>3, BudgetFrame DEF BudgetInv
    <2>4. QED BY <1>3, <2>2, <2>3 DEF CheckTries
  <1>4. CASE CheckSaturated
    <2>1. CASE \A c \in Counters : Tries(c) = 0
      <3>1. /\ step' = "serial" /\ req' = req /\ req.kind = "EmergencyReset"
            /\ proven' = "saturation" /\ wrong' = [c \in Counters |-> 0]
            /\ UNCHANGED count
        BY <1>4, <2>1 DEF CheckSaturated
      <3>2. GuessBudget'
        BY <3>1, <1>d, RetriesRange, BatchValues DEF GuessBudget, Tries
      <3>3. Gated' /\ Proved'
        BY <3>1 DEF Gated, Proved, PinKinds, PukKinds, Refreshes
      <3>4. QED BY <3>2, <3>3
    <2>2. CASE ~ \A c \in Counters : Tries(c) = 0
      BY <1>4, <2>2, FinishBudget, BudgetFrame DEF CheckSaturated, BudgetInv
    <2>3. QED BY <2>1, <2>2
  <1>5. CASE cached_serial
    <2>1. UNCHANGED <<count, wrong>> BY <1>5 DEF cached_serial
    <2>2. /\ req' = req /\ proven' = proven
          /\ step' = IF req.kind = "EmergencyReset" THEN "genkey" ELSE "checkmac"
      BY <1>5, <1>b, FollowTable DEF cached_serial, Proceed
    <2>3. Gated' /\ Proved'
      BY <1>5, <2>1, <2>2 DEF cached_serial, BudgetInv, Gated, Proved, Tries, PinKinds, PukKinds
    <2>4. QED BY <2>1, <2>3, BudgetFrame DEF BudgetInv
  <1>6. CASE CheckMacRight
    <2> DEFINE c == Guarding(req.kind)
    <2>1. /\ step = "checkmac" /\ req.kind \in PinKinds \cup PukKinds
          /\ req.kind \in Kinds /\ step \in DOMAIN Follow[req.kind]
      BY <1>6, <1>b, FollowTable DEF CheckMacRight
    <2>2. c \in Refreshes(req.kind)
      BY <2>1 DEF Guarding, Refreshes, Counters, PinKinds, PukKinds
    <2>3. /\ Tries(c) # 0
          /\ count' = [count EXCEPT ![c] = @ + 1]
          /\ wrong' = [d \in Counters |-> IF d \in Refreshes(req.kind) THEN 0 ELSE wrong[d]]
      BY <1>6, <2>1 DEF CheckMacRight, BudgetInv, Gated
    <2>4. GuessBudget'
      <3> SUFFICES ASSUME NEW d \in Counters
                   PROVE  wrong'[d] + Tries(d)' <= batch_size(d)
        BY DEF GuessBudget
      <3>1. CASE d = c
        <4>1. wrong'[d] = 0 /\ count'[d] \in Nat
          BY <3>1, <2>2, <2>3, <1>a, <1>d DEF TypeOK
        <4>2. Tries(d)' \in 0..batch_size(d) /\ batch_size(d) \in Nat
          BY <4>1, RetriesRange, BatchValues DEF Tries
        <4>3. QED BY <4>1, <4>2
      <3>2. CASE d # c
        <4>1. count'[d] = count[d] /\ wrong'[d] \in {0, wrong[d]}
          BY <3>2, <2>3, <1>a DEF TypeOK
        <4>2. Tries(d)' = Tries(d)
          BY <4>1 DEF Tries
        <4>3. Tries(d) \in Nat /\ batch_size(d) \in Nat
          BY <1>d, RetriesRange, BatchValues DEF Tries
        <4>4. wrong[d] + Tries(d) <= batch_size(d)
          BY DEF BudgetInv, GuessBudget
        <4>5. QED BY <4>1, <4>2, <4>3, <4>4, <1>d
      <3>3. QED BY <3>1, <3>2
    <2>5. CASE ReplyLost
      BY <2>4, <2>5, FinishBudget DEF ReplyLost
    <2>6. CASE step' = Follow[req.kind].checkmac /\ UNCHANGED req
               /\ proven' = IF c = "Counter0" THEN "pin" ELSE "puk"
      <3>1. step' \in {"idle", "random", "write_pin", "write_puk", "refresh0",
                       "bump0", "refresh1", "bump1", "open", "touch"} /\ step' # "idle"
        BY <2>1, <2>6, FollowTable DEF Follow, PinKinds, PukKinds
      <3>2. proven' = Proof(req.kind)
        BY <2>1, <2>6 DEF Guarding, Proof, PinKinds, PukKinds
      <3>3. \A d \in Refreshes(req.kind) : wrong'[d] = 0
        BY <2>1, <2>3 DEF Refreshes, Counters
      <3>4. req.kind # "EmergencyReset"
        BY <2>1 DEF PinKinds, PukKinds
      <3>5. Gated' /\ Proved'
        BY <2>6, <3>1, <3>2, <3>3, <3>4 DEF Gated, Proved
      <3>6. QED BY <2>4, <3>5
    <2>7. QED BY <1>6, <2>5, <2>6 DEF CheckMacRight
  <1>7. CASE CheckMacWrong
    <2> DEFINE c == Guarding(req.kind)
    <2>1. step = "checkmac" /\ req.kind \in PinKinds \cup PukKinds
      BY <1>7, <1>b, FollowTable DEF CheckMacWrong
    <2>2. /\ Tries(c) # 0
          /\ count' = [count EXCEPT ![c] = @ + 1]
          /\ wrong' = [wrong EXCEPT ![c] = @ + 1]
      BY <1>7, <2>1 DEF CheckMacWrong, BudgetInv, Gated
    <2>3. GuessBudget'
      <3> SUFFICES ASSUME NEW d \in Counters
                   PROVE  wrong'[d] + Tries(d)' <= batch_size(d)
        BY DEF GuessBudget
      <3>1. CASE d = c
        <4>1. Tries(d)' = Tries(d) - 1
          BY <3>1, <2>2, <1>a, <1>d, RetriesStep, BatchValues DEF Tries, TypeOK
        <4>2. Tries(d) \in Nat /\ batch_size(d) \in Nat
          BY <1>d, RetriesRange, BatchValues DEF Tries
        <4>3. QED BY <3>1, <4>1, <4>2, <2>2, <1>a, <1>d DEF TypeOK, BudgetInv, GuessBudget
      <3>2. CASE d # c
        BY <3>2, <2>2, <1>a, <1>d DEF Tries, TypeOK, BudgetInv, GuessBudget
      <3>3. QED BY <3>1, <3>2
    <2>4. QED BY <1>7, <2>3, FinishBudget DEF CheckMacWrong, ReplyLost
  <1>8. CASE WritePin \/ WritePuk \/ GenKeySlot \/ ChipCompute
    <2>1. /\ UNCHANGED <<count, wrong>>
          /\ step \in {"write_pin", "write_puk", "genkey", "random", "sign"}
          /\ step = "genkey" => req.kind = "GenKey"
          /\ Proceed \/ ReplyLost
      BY <1>8 DEF WritePin, WritePuk, GenKeySlot, ChipCompute
    <2>2. Gated' /\ Proved'
      BY <2>1, ProceedBudget, FinishBudget DEF ReplyLost
    <2>3. QED BY <2>1, <2>2, BudgetFrame DEF BudgetInv
  <1>9. CASE CheckMacExhausted \/ WriteRefused \/ ChipFault
    <2>1. UNCHANGED <<count, wrong>> /\ Finish("Atecc")
      BY <1>9 DEF CheckMacExhausted, WriteRefused, ChipFault
    <2>2. QED BY <2>1, FinishBudget, BudgetFrame DEF BudgetInv
  <1>10. CASE PowerLoss
    <2>1. Gated' /\ Proved'
      BY <1>10 DEF PowerLoss, Gated, Proved, NoReq, PinKinds, PukKinds
    <2>2. QED BY <1>10, <2>1, BudgetFrame DEF PowerLoss, BudgetInv
  <1>11. CASE RefreshRead
    <2>1. /\ UNCHANGED <<count, wrong, req, proven>>
          /\ step \in {"refresh0", "refresh1"}
          /\ step' = Follow[req.kind][step]
      BY <1>11 DEF RefreshRead
    <2>2. step' \in {"bump0", "bump1"}
      BY <2>1, <1>b DEF Kinds, Follow
    <2>3. Gated' /\ Proved'
      BY <2>1, <2>2 DEF Gated, BudgetInv, Proved
    <2>4. QED BY <2>1, <2>3, BudgetFrame DEF BudgetInv
  <1>12. CASE RefreshBump
    <2> DEFINE c == RefreshCounter
    <2>1. /\ step \in {"bump0", "bump1"} /\ UNCHANGED wrong
          /\ count' = [count EXCEPT ![c] = @ + 1]
      BY <1>12 DEF RefreshBump
    <2>2. c \in Refreshes(req.kind)
      BY <2>1, <1>b, FollowTable DEF RefreshCounter
    <2>3. wrong[c] = 0
      <3>1. req.kind \notin {"GenKey", "Sign"}
        BY <2>2 DEF Refreshes, PinKinds
      <3>2. proven # "nothing"
        BY <2>1, <3>1, <1>b DEF BudgetInv, Proved, Proof, PinKinds, PukKinds, Kinds, Follow
      <3>3. QED BY <3>2, <2>2 DEF BudgetInv, Proved
    <2>4. GuessBudget'
      <3> SUFFICES ASSUME NEW d \in Counters
                   PROVE  wrong'[d] + Tries(d)' <= batch_size(d)
        BY DEF GuessBudget
      <3>1. CASE d = c
        <4>1. wrong'[d] = 0 /\ count'[d] \in Nat
          BY <3>1, <2>1, <2>3, <1>a, <1>d DEF TypeOK
        <4>2. Tries(d)' \in 0..batch_size(d) /\ batch_size(d) \in Nat
          BY <4>1, RetriesRange, BatchValues DEF Tries
        <4>3. QED BY <4>1, <4>2
      <3>2. CASE d # c
        BY <3>2, <2>1, <1>a, <1>d DEF Tries, TypeOK, BudgetInv, GuessBudget
      <3>3. QED BY <3>1, <3>2
    <2>5. CASE ReplyLost
      BY <2>4, <2>5, FinishBudget DEF ReplyLost
    <2>6. CASE UNCHANGED <<req, step, proven>>
      BY <2>1, <2>4, <2>6 DEF BudgetInv, Gated, Proved
    <2>7. QED BY <1>12, <2>5, <2>6 DEF RefreshBump
  <1>13. CASE RefreshDone \/ RefreshRefused
    <2>1. UNCHANGED <<count, wrong>> /\ step \in {"bump0", "bump1"} /\ EndRefresh
      BY <1>13 DEF RefreshDone, RefreshRefused
    <2>2. CASE Finish("Ok")
      BY <2>1, <2>2, FinishBudget, BudgetFrame DEF BudgetInv
    <2>3. CASE Follow[req.kind][step] # "idle"
      <3>1. /\ step' = Follow[req.kind][step]
            /\ UNCHANGED <<req, proven>>
        BY <2>1, <2>3 DEF EndRefresh
      <3>2. step' \in {"random", "write_pin", "write_puk", "refresh0",
                       "bump0", "refresh1", "bump1", "open", "touch"}
        BY <2>1, <2>3, <3>1, <1>b, FollowTable
      <3>3. Gated' BY <3>2 DEF Gated
      <3>4. Proved' BY <2>1, <3>1, <3>2 DEF BudgetInv, Proved
      <3>5. QED BY <2>1, <3>3, <3>4, BudgetFrame DEF BudgetInv
    <2>4. QED BY <2>1, <2>2, <2>3 DEF EndRefresh
  <1>14. CASE OpenSession \/ TouchSession
    <2>1. UNCHANGED <<count, wrong>> /\ Finish("Ok")
      BY <1>14 DEF OpenSession, TouchSession
    <2>2. QED BY <2>1, FinishBudget, BudgetFrame DEF BudgetInv
  <1>15. CASE GenKeyLoop
    <2>1. UNCHANGED <<count, wrong>> /\ step = "genkey" /\ req.kind = "EmergencyReset"
      BY <1>15 DEF GenKeyLoop
    <2>2. CASE ReplyLost
      BY <2>1, <2>2, FinishBudget, BudgetFrame DEF ReplyLost, BudgetInv
    <2>3. CASE step' \in {"random", "genkey"} /\ UNCHANGED <<req, proven>>
      <3>1. Gated' /\ Proved'
        BY <2>1, <2>3 DEF Gated, BudgetInv, Proved, Proof, PinKinds, PukKinds
      <3>2. QED BY <2>1, <3>1, BudgetFrame DEF BudgetInv
    <2>4. QED BY <1>15, <2>2, <2>3 DEF GenKeyLoop
  <1>16. CASE Tick
    <2>1. UNCHANGED <<count, wrong, req, step, proven>> BY <1>16 DEF Tick
    <2>2. Gated' /\ Proved' BY <2>1 DEF BudgetInv, Gated, Proved, Tries
    <2>3. QED BY <2>1, <2>2, BudgetFrame DEF BudgetInv
  <1>17. QED
    BY <1>1, <1>2, <1>3, <1>4, <1>5, <1>6, <1>7, <1>8, <1>9, <1>10, <1>11,
       <1>12, <1>13, <1>14, <1>15, <1>16
    DEF Next, ServiceStep

LEMMA BudgetInvHolds == Spec => []BudgetInv
  <1>1. Init /\ TypeOK => BudgetInv
    <2> SUFFICES ASSUME Init, TypeOK PROVE GuessBudget /\ Gated /\ Proved
      BY DEF BudgetInv
    <2>1. GuessBudget
      <3> SUFFICES ASSUME NEW c \in Counters
                   PROVE  wrong[c] + Tries(c) <= batch_size(c)
        BY DEF GuessBudget
      <3>1. wrong[c] = 0 /\ count[c] = 0 BY DEF Init
      <3>2. Tries(c) \in 0..batch_size(c) /\ batch_size(c) \in Nat
        BY <3>1, RetriesRange, BatchValues DEF Tries
      <3>3. QED BY <3>1, <3>2
    <2>2. Gated /\ Proved
      BY DEF Init, Gated, Proved, NoReq, PinKinds, PukKinds
    <2>3. QED BY <2>1, <2>2
  <1>2. BudgetInv /\ TypeOK' /\ [Next]_vars => BudgetInv'
    <2>1. BudgetInv /\ TypeOK' /\ Next => BudgetInv'
      BY BudgetStep DEF BudgetInv
    <2>2. BudgetInv /\ UNCHANGED vars => BudgetInv'
      BY DEF BudgetInv, vars, TypeOK, GuessBudget, Gated, Proved, Tries
    <2>3. QED BY <2>1, <2>2
  <1>3. QED BY <1>1, <1>2, TypeCorrect, PTL DEF Spec

(***************************************************************************)
(* The lockout promise holds in every reachable state, for every set of    *)
(* secrets, every counter limit and with every interleaving of chip        *)
(* errors, lost replies and power losses.                                  *)
(***************************************************************************)
THEOREM GuessBudgetHolds == Spec => []GuessBudget
  <1>1. BudgetInv => GuessBudget BY DEF BudgetInv
  <1>2. QED BY <1>1, BudgetInvHolds, PTL
-----------------------------------------------------------------------------
(***************************************************************************)
(* Which command leads to the ones Landing speaks about, and where the     *)
(* methods return Ok.                                                      *)
(***************************************************************************)
LEMMA LandingTable ==
  ASSUME NEW k \in Kinds, NEW s \in DOMAIN Follow[k]
  PROVE  /\ Follow[k][s] = "bump0" <=> s = "refresh0"
         /\ Follow[k][s] = "bump1" <=> s = "refresh1"
         /\ Follow[k][s] = "open" => s = "bump0"
         /\ k = "SetPuk" /\ Follow[k][s] = "touch" => s = "bump1"
         /\ k = "UnblockPin" /\ Follow[k][s] = "refresh0" => s = "bump1"
         /\ k = "EmergencyReset" /\ Follow[k][s] = "write_pin" => s = "bump1"
         /\ k = "EmergencyReset" /\ Follow[k][s] = "refresh0" => s = "write_pin"
         /\ Follow[k][s] = "idle" => s \in {"open", "touch", "bump0", "genkey"}
         /\ s = "bump0" /\ Follow[k][s] = "idle" => k \in {"UnblockPin", "EmergencyReset"}
         /\ s = "genkey" /\ Follow[k][s] = "idle" => k = "GenKey"
         /\ s = "open" => k \in PinKinds
         /\ s = "touch" => k \in {"SetPuk", "Sign"}
         /\ s = "bump1" /\ k = "UnblockPin" => Follow[k][s] = "refresh0"
         /\ s = "bump1" /\ k = "EmergencyReset" => Follow[k][s] = "write_pin"
  <1> USE DEF PinKinds, Kinds
  <1>1. k \in {"VerifyPin", "SetPin", "UnblockPin", "SetPuk", "EmergencyReset",
               "GenKey", "Sign"}
    BY DEF Follow
  <1>2. CASE k = "VerifyPin" BY <1>2 DEF Follow
  <1>3. CASE k = "SetPin" BY <1>3 DEF Follow
  <1>4. CASE k = "UnblockPin" BY <1>4 DEF Follow
  <1>5. CASE k = "SetPuk" BY <1>5 DEF Follow
  <1>6. CASE k = "EmergencyReset" BY <1>6 DEF Follow
  <1>7. CASE k = "GenKey" BY <1>7 DEF Follow
  <1>8. CASE k = "Sign" BY <1>8 DEF Follow
  <1>9. QED BY <1>1, <1>2, <1>3, <1>4, <1>5, <1>6, <1>7, <1>8

(***************************************************************************)
(* A refresh in progress heads for remainder 1.                            *)
(***************************************************************************)
LEMMA LandingStep ==
  ASSUME TypeOK, Landing, Next
  PROVE  Landing'
  <1> USE DEF chip, session
  <1>b. step # "idle" => req.kind \in Kinds /\ step \in DOMAIN Follow[req.kind]
    BY DEF TypeOK, Requests
  <1>c. count["Counter0"] \in 0..CounterMax /\ count["Counter1"] \in 0..CounterMax
    BY DEF TypeOK, Counters
  <1>d. left \in Nat BY DEF TypeOK
  <1>e. batch_size("Counter0") = 5 /\ batch_size("Counter1") = 10
    BY DEF batch_size, PIN_MAX_RETRIES, PUK_MAX_RETRIES
  <1>f. ASSUME step' \notin {"bump0", "bump1"} PROVE Landing'
    BY <1>f DEF Landing
  <1>g. ASSUME NEW st, Finish(st) PROVE Landing'
    BY <1>f, <1>g DEF Finish
  <1>h. ASSUME Proceed, step \notin {"idle", "refresh0", "refresh1"} PROVE Landing'
    <2>1. step' \notin {"bump0", "bump1"}
      BY <1>b, <1>h, LandingTable DEF Proceed, Finish
    <2>2. QED BY <2>1, <1>f
  <1>1. CASE Request
    <2>1. step' \in {"idle", "counter", "session", "genkey"}
      BY <1>1 DEF Request, verify_pin, set_pin, unblock_pin, set_puk, emergency_reset,
              genkey_create, sign, validate_digits, close_session, Start
    <2>2. QED BY <2>1, <1>f
  <1>2. CASE \/ CheckSession \/ CheckTries \/ WritePin \/ WritePuk \/ GenKeySlot
             \/ ChipCompute
    BY <1>2, <1>g, <1>h
    DEF CheckSession, CheckTries, WritePin, WritePuk, GenKeySlot, ChipCompute, ReplyLost
  <1>3. CASE CheckSaturated
    <2>1. step' = "serial" \/ Finish("EmergencyResetNotPermitted") BY <1>3 DEF CheckSaturated
    <2>2. QED BY <2>1, <1>f, <1>g
  <1>4. CASE cached_serial
    <2>1. step = "serial" /\ (step' = "genkey" \/ Proceed) BY <1>4 DEF cached_serial
    <2>2. QED BY <2>1, <1>f, <1>h
  <1>5. CASE CheckMacRight
    <2>1. step = "checkmac" /\ (ReplyLost \/ step' = Follow[req.kind].checkmac)
      BY <1>5 DEF CheckMacRight
    <2>2. CASE step' = Follow[req.kind].checkmac
      <3>1. step' \notin {"bump0", "bump1"} BY <1>b, <2>1, <2>2, LandingTable
      <3>2. QED BY <3>1, <1>f
    <2>3. QED BY <2>1, <2>2, <1>g DEF ReplyLost
  <1>6. CASE CheckMacWrong \/ CheckMacExhausted \/ WriteRefused \/ ChipFault
             \/ OpenSession \/ TouchSession
    BY <1>6, <1>g
    DEF CheckMacWrong, CheckMacExhausted, WriteRefused, ChipFault, OpenSession, TouchSession,
        ReplyLost
  <1>7. CASE PowerLoss BY <1>7, <1>f DEF PowerLoss
  <1>8. CASE RefreshRead
    <2>1. /\ UNCHANGED <<count, req>> /\ step \in {"refresh0", "refresh1"}
          /\ step' = IF step = "refresh0" THEN "bump0" ELSE "bump1"
      BY <1>8, <1>b, LandingTable DEF RefreshRead
    <2>2. CASE step = "refresh0"
      <3>1. left' = refresh_bumps(count["Counter0"], 5)
        BY <1>8, <1>e, <2>2 DEF RefreshRead, RefreshCounter
      <3>2. /\ (count["Counter0"] + left') % 5 = 1
            /\ count["Counter0"] + left' <= CounterMax
        BY <1>c, <3>1, BumpsLand
      <3>3. QED BY <2>1, <2>2, <3>2 DEF Landing, PIN_MAX_RETRIES
    <2>3. CASE step = "refresh1"
      <3>1. left' = refresh_bumps(count["Counter1"], 10)
        BY <1>8, <1>e, <2>3 DEF RefreshRead, RefreshCounter
      <3>2. /\ (count["Counter1"] + left') % 10 = 1
            /\ count["Counter1"] + left' <= CounterMax
        BY <1>c, <3>1, BumpsLand
      <3>3. QED BY <2>1, <2>3, <3>2 DEF Landing, PUK_MAX_RETRIES
    <2>4. QED BY <2>1, <2>2, <2>3
  <1>9. CASE RefreshBump
    <2>1. CASE ReplyLost BY <2>1, <1>g DEF ReplyLost
    <2>2. CASE left' = left - 1 /\ UNCHANGED <<req, step, resp>>
      <3>1. CASE step = "bump0"
        <4>1. count'["Counter0"] = count["Counter0"] + 1
          BY <1>9, <3>1 DEF RefreshBump, RefreshCounter, TypeOK, Counters
        <4>2. count'["Counter0"] + left' = count["Counter0"] + left
          BY <4>1, <2>2, <1>c, <1>d, CounterMaxAssumption
        <4>3. QED BY <4>1, <4>2, <2>2, <3>1 DEF Landing
      <3>2. CASE step = "bump1"
        <4>1. count'["Counter1"] = count["Counter1"] + 1
          BY <1>9, <3>2 DEF RefreshBump, RefreshCounter, TypeOK, Counters
        <4>2. count'["Counter1"] + left' = count["Counter1"] + left
          BY <4>1, <2>2, <1>c, <1>d, CounterMaxAssumption
        <4>3. QED BY <4>1, <4>2, <2>2, <3>2 DEF Landing
      <3>3. QED BY <1>9, <3>1, <3>2 DEF RefreshBump
    <2>3. QED BY <1>9, <2>1, <2>2 DEF RefreshBump
  <1>10. CASE RefreshDone \/ RefreshRefused
    <2>1. step \in {"bump0", "bump1"} /\ EndRefresh
      BY <1>10 DEF RefreshDone, RefreshRefused
    <2>2. CASE step' = Follow[req.kind][step]
      <3>1. step' \notin {"bump0", "bump1"} BY <1>b, <2>1, <2>2, LandingTable
      <3>2. QED BY <3>1, <1>f
    <2>3. QED BY <2>1, <2>2, <1>g DEF EndRefresh
  <1>11. CASE GenKeyLoop
    <2>1. ReplyLost \/ step' \in {"random", "genkey"} BY <1>11 DEF GenKeyLoop
    <2>2. QED BY <2>1, <1>f, <1>g DEF ReplyLost
  <1>12. CASE Tick
    BY <1>12 DEF Tick, Landing
  <1>13. QED
    BY <1>1, <1>2, <1>3, <1>4, <1>5, <1>6, <1>7, <1>8, <1>9, <1>10, <1>11, <1>12
    DEF Next, ServiceStep
-----------------------------------------------------------------------------
(***************************************************************************)
(* Nothing moves a counter between emergency_reset's reads of both and its *)
(* loop over the identity slots.                                           *)
(***************************************************************************)
LEMMA SaturatedStep ==
  ASSUME TypeOK, StillSaturated, Next
  PROVE  StillSaturated'
  <1> USE DEF chip, session
  <1> SUFFICES ASSUME req'.kind = "EmergencyReset", step' \in {"serial", "genkey"}
               PROVE  \A c \in Counters : Tries(c)' = 0
    BY DEF StillSaturated
  <1>a. step # "idle" => req.kind \in Kinds /\ step \in DOMAIN Follow[req.kind]
    BY DEF TypeOK, Requests
  <1>b. \A st : ~ Finish(st)
    BY DEF Finish, NoReq
  <1>c. Proceed => /\ req' = req /\ step' = Follow[req.kind][step]
                   /\ step \notin {"write_pin", "write_puk", "random", "sign"}
    <2>1. Proceed => req' = req /\ step' = Follow[req.kind][step]
      BY <1>b DEF Proceed
    <2>2. QED BY <2>1, <1>a, FollowTable
  <1>1. CASE Request
    <2>1. step = "idle" /\ req.kind = "None"
      BY <1>1, FollowTable DEF Request, verify_pin, set_pin, unblock_pin, set_puk,
         emergency_reset, genkey_create, sign, validate_digits, close_session, Start,
         TypeOK, Requests
    <2>2. QED
      BY <1>1, <2>1 DEF Request, verify_pin, set_pin, unblock_pin, set_puk,
         emergency_reset, genkey_create, sign, validate_digits, close_session, Start
  <1>2. CASE CheckSaturated
    BY <1>2, <1>b DEF CheckSaturated, Tries
  <1>3. CASE CheckSession \/ CheckTries
    <2>1. Proceed /\ UNCHANGED count /\ step \in {"session", "counter"}
          /\ (step = "counter" => req.kind # "EmergencyReset")
      BY <1>3, <1>b DEF CheckSession, CheckTries
    <2>2. QED BY <2>1, <1>a, <1>c, FollowTable
  <1>4. CASE cached_serial
    <2>1. req' = req /\ step = "serial" /\ UNCHANGED count
      BY <1>4, <1>c DEF cached_serial
    <2>2. QED BY <2>1 DEF StillSaturated, Tries
  <1>5. CASE CheckMacRight
    <2>1. step = "checkmac" /\ step' = Follow[req.kind].checkmac
      BY <1>5, <1>b DEF CheckMacRight, ReplyLost
    <2>2. QED BY <2>1, <1>a, FollowTable
  <1>6. CASE GenKeySlot \/ WritePin \/ WritePuk \/ ChipCompute
    BY <1>6, <1>b, <1>c DEF GenKeySlot, WritePin, WritePuk, ChipCompute, ReplyLost
  <1>7. CASE GenKeyLoop
    BY <1>7, <1>b DEF GenKeyLoop, ReplyLost, StillSaturated, Tries
  <1>8. CASE RefreshRead \/ RefreshBump \/ RefreshDone \/ RefreshRefused
    <2>1. /\ step \in {"refresh0", "refresh1", "bump0", "bump1"}
          /\ step' \in {step, Follow[req.kind][step]}
      BY <1>8, <1>b DEF RefreshRead, RefreshBump, RefreshDone, RefreshRefused, EndRefresh,
         ReplyLost
    <2>2. QED BY <2>1, <1>a, FollowTable
  <1>9. CASE Tick
    BY <1>9 DEF Tick, StillSaturated, Tries
  <1>10. CASE PowerLoss
    BY <1>10 DEF PowerLoss, NoReq
  <1>11. CASE CheckMacWrong \/ CheckMacExhausted \/ WriteRefused \/ ChipFault
              \/ OpenSession \/ TouchSession
    BY <1>11, <1>b DEF CheckMacWrong, CheckMacExhausted, WriteRefused, ChipFault,
       OpenSession, TouchSession, ReplyLost
  <1>12. QED
    BY <1>1, <1>2, <1>3, <1>4, <1>5, <1>6, <1>7, <1>8, <1>9, <1>10, <1>11
    DEF Next, ServiceStep

(***************************************************************************)
(* emergency_reset is no back door to the identity keys: a key the owner   *)
(* enrolled is only ever replaced by a GenKey on its own slot, or while    *)
(* both counters stand on a positive multiple of their batch.              *)
(***************************************************************************)
THEOREM KeysSafeHolds == Spec => KeysSafe
  <1>1. Init => StillSaturated
    BY DEF Init, StillSaturated, NoReq
  <1>2. TypeOK /\ StillSaturated /\ [Next]_vars => StillSaturated'
    <2>1. UNCHANGED vars /\ StillSaturated => StillSaturated'
      BY DEF vars, StillSaturated, Tries
    <2>2. QED BY <2>1, SaturatedStep
  <1>3. TypeOK /\ StillSaturated /\ [Next]_vars =>
          [\A s \in 1..EccSlots :
             keys[s] = "owner" /\ keys'[s] # "owner" =>
               \/ req.kind = "GenKey" /\ req.slot = s
               \/ \A c \in Counters : count[c] > 0 /\ count[c] % batch_size(c) = 0]_vars
    <2> SUFFICES ASSUME TypeOK, StillSaturated, Next, NEW s \in 1..EccSlots,
                        keys[s] = "owner", keys'[s] # "owner"
                 PROVE  \/ req.kind = "GenKey" /\ req.slot = s
                        \/ \A c \in Counters : count[c] > 0 /\ count[c] % batch_size(c) = 0
      BY DEF vars
    <2>1. GenKeySlot \/ GenKeyLoop
      BY DEF Next, Request, verify_pin, set_pin, unblock_pin, set_puk, emergency_reset,
         genkey_create, sign, validate_digits, close_session, Start, ServiceStep,
         CheckSession, CheckTries, CheckSaturated, cached_serial, CheckMacRight,
         CheckMacWrong, CheckMacExhausted, WritePin, WritePuk, WriteRefused,
         RefreshRead, RefreshBump, RefreshDone, RefreshRefused, OpenSession, TouchSession,
         ChipCompute, ChipFault, PowerLoss, Tick, chip
    <2>2. CASE GenKeySlot BY <2>2 DEF GenKeySlot, TypeOK
    <2>3. CASE GenKeyLoop
      <3>1. \A c \in Counters : retries_remaining(count[c], batch_size(c)) = 0
        BY <2>3 DEF GenKeyLoop, StillSaturated, Tries
      <3>2. \A c \in Counters : count[c] \in Nat
        BY CounterMaxAssumption DEF TypeOK
      <3>3. QED BY <3>1, <3>2, BatchValues, RetriesZero
    <2>4. QED BY <2>1, <2>2, <2>3
  <1>4. QED BY <1>1, <1>2, <1>3, TypeCorrect, PTL DEF Spec, KeysSafe
-----------------------------------------------------------------------------
(***************************************************************************)
(* The reset: its commands in order, and what each leaves behind.          *)
(***************************************************************************)
LEMMA ResetTable ==
  ASSUME NEW s \in DOMAIN Follow["EmergencyReset"]
  PROVE  LET next == Follow["EmergencyReset"][s] IN
         /\ next = "serial" => s = "counter"
         /\ s \notin {"counter", "serial"} => next \notin {"counter", "serial", "genkey"}
         /\ next = "genkey" => s = "serial"
         /\ next = "refresh0" => s = "write_pin"
         /\ next = "bump0" => s = "refresh0"
         /\ next = "idle" => s = "bump0"
         /\ s \notin {"open", "touch", "checkmac"}
  BY DEF Follow

LEMMA ResetCommands ==
  ASSUME TypeOK, step # "idle"
  PROVE  req.kind \in Kinds /\ step \in DOMAIN Follow[req.kind]
  BY DEF TypeOK, Requests

LEMMA FinishReset ==
  ASSUME NEW st, Finish(st), st # "Ok" \/ req.kind # "EmergencyReset"
  PROVE  ResetComplete' /\ ResetSoFar'
  <1>1. resp' # [kind |-> "EmergencyReset", status |-> "Ok"]
    BY DEF Finish, Answer
  <1>2. step' = "idle" /\ req'.kind = "None"
    BY DEF Finish, NoReq
  <1>3. QED BY <1>1, <1>2 DEF ResetComplete, ResetSoFar

(* Steps of the other methods. *)
LEMMA OtherMethod ==
  ASSUME ResetInv, step # "idle", step' # "idle", UNCHANGED <<req, resp>>,
         req.kind # "EmergencyReset"
  PROVE  ResetComplete' /\ ResetSoFar'
  <1>1. resp' = NoResp /\ req'.kind # "EmergencyReset"
    BY DEF ResetInv, ResetSoFar
  <1>2. QED BY <1>1 DEF ResetComplete, ResetSoFar, NoResp

(* The next command of a method, none of its loops. *)
LEMMA NextCommand ==
  ASSUME ResetInv, step \notin {"idle", "serial", "genkey"}, UNCHANGED <<req, resp, keys>>,
         step' = Follow[req.kind][step], step' # "idle",
         pin' = IF step = "write_pin" THEN req.new ELSE pin
  PROVE  ResetComplete' /\ ResetSoFar'
  <1>1. CASE req.kind # "EmergencyReset"
    BY <1>1, OtherMethod
  <1>2. CASE req.kind = "EmergencyReset"
    <2>1. TypeOK /\ ResetSoFar BY DEF ResetInv
    <2>2. step \in DOMAIN Follow["EmergencyReset"] BY <1>2, <2>1, ResetCommands
    <2>3. /\ step' # "genkey"
          /\ step' \notin {"counter", "serial"} => step # "counter"
          /\ step' \in {"refresh0", "bump0"} => step \in {"write_pin", "refresh0"}
      BY <1>2, <2>2, ResetTable DEF Follow
    <2>4. resp' = NoResp BY <2>1 DEF ResetSoFar
    <2>5. req'.new = DefaultPin BY <1>2, <2>1 DEF ResetSoFar
    <2>6. step' \notin {"counter", "serial"} => \A s \in 1..EccSlots : keys'[s] = "fresh"
      BY <1>2, <2>1, <2>3 DEF ResetSoFar
    <2>7. step' \in {"refresh0", "bump0"} => pin' = DefaultPin
      BY <1>2, <2>1, <2>3 DEF ResetSoFar
    <2>8. QED BY <1>2, <2>3, <2>4, <2>5, <2>6, <2>7 DEF ResetComplete, ResetSoFar, NoResp
  <1>3. QED BY <1>1, <1>2

LEMMA ProceedReset ==
  ASSUME ResetInv, Proceed, step \notin {"idle", "serial", "genkey", "bump0"}, UNCHANGED keys,
         pin' = IF step = "write_pin" THEN req.new ELSE pin
  PROVE  ResetComplete' /\ ResetSoFar'
  <1>1. CASE Follow[req.kind][step] = "idle"
    <2>1. req.kind # "EmergencyReset"
      BY <1>1, ResetCommands, ResetTable DEF ResetInv
    <2>2. QED BY <1>1, <2>1, FinishReset DEF Proceed
  <1>2. CASE Follow[req.kind][step] # "idle"
    BY <1>2, NextCommand DEF Proceed
  <1>3. QED BY <1>1, <1>2

LEMMA StartReset ==
  ASSUME NEW k, NEW cand, NEW new, NEW s, NEW first, Start(k, cand, new, s, first),
         k = "EmergencyReset" => new = DefaultPin /\ first = "counter"
  PROVE  ResetComplete' /\ ResetSoFar'
  <1>1. resp' = NoResp /\ req'.kind = k /\ req'.new = new /\ step' = first
    BY DEF Start
  <1>2. QED BY <1>1 DEF ResetComplete, ResetSoFar, NoResp

LEMMA ResetStep ==
  ASSUME ResetInv, Next
  PROVE  ResetComplete' /\ ResetSoFar'
  <1> USE DEF chip, session
  <1>a. TypeOK /\ ResetSoFar /\ ResetComplete BY DEF ResetInv
  <1>b. step # "idle" => req.kind \in Kinds /\ step \in DOMAIN Follow[req.kind]
    BY <1>a, ResetCommands
  <1>c. step = "idle" => req.kind = "None"
    BY <1>a, FollowTable DEF TypeOK, Requests
  <1>1. CASE Request
    <2>1. CASE verify_pin BY <2>1, StartReset DEF verify_pin
    <2>2. CASE set_pin BY <2>2, StartReset DEF set_pin
    <2>3. CASE unblock_pin BY <2>3, StartReset DEF unblock_pin
    <2>4. CASE set_puk BY <2>4, StartReset DEF set_puk
    <2>5. CASE emergency_reset BY <2>5, StartReset DEF emergency_reset
    <2>6. CASE genkey_create BY <2>6, StartReset DEF genkey_create
    <2>7. CASE sign BY <2>7, StartReset DEF sign
    <2>8. CASE validate_digits \/ close_session
      <3>1. /\ step = "idle" /\ step' = "idle" /\ UNCHANGED req
            /\ resp' # [kind |-> "EmergencyReset", status |-> "Ok"]
        BY <2>8 DEF validate_digits, close_session, Answer
      <3>2. QED BY <3>1, <1>c DEF ResetComplete, ResetSoFar
    <2>9. QED BY <1>1, <2>1, <2>2, <2>3, <2>4, <2>5, <2>6, <2>7, <2>8 DEF Request
  <1>2. CASE CheckSession \/ CheckTries
    <2>1. /\ UNCHANGED <<pin, keys>> /\ step \in {"session", "counter"}
          /\ Proceed \/ \E st \in Statuses \ {"Ok"} : Finish(st)
      BY <1>2 DEF CheckSession, CheckTries, Statuses
    <2>2. QED BY <2>1, ProceedReset, FinishReset
  <1>3. CASE CheckSaturated
    <2>1. CASE \A c \in Counters : Tries(c) = 0
      <3>1. /\ step = "counter" /\ step' = "serial" /\ UNCHANGED <<req, resp>>
        BY <1>3, <2>1 DEF CheckSaturated
      <3>2. QED BY <3>1, <1>a DEF ResetComplete, ResetSoFar, NoResp
    <2>2. CASE ~ \A c \in Counters : Tries(c) = 0
      BY <1>3, <2>2, FinishReset DEF CheckSaturated
    <2>3. QED BY <2>1, <2>2
  <1>4. CASE cached_serial
    <2>1. /\ step = "serial" /\ UNCHANGED <<req, resp>>
          /\ step' = IF req.kind = "EmergencyReset" THEN "genkey" ELSE "checkmac"
          /\ req.kind = "EmergencyReset" => left' = EccSlots
      BY <1>4, <1>b, FollowTable DEF cached_serial, Proceed
    <2>2. CASE req.kind # "EmergencyReset" BY <2>1, <2>2, OtherMethod
    <2>3. CASE req.kind = "EmergencyReset"
      <3>1. left' \in 1..EccSlots /\ 1..EccSlots - left' = {}
        BY <2>1, <2>3, BoundsAssumption
      <3>2. QED BY <2>1, <2>3, <3>1, <1>a DEF ResetComplete, ResetSoFar, NoResp
    <2>4. QED BY <2>2, <2>3
  <1>5. CASE CheckMacRight
    <2>1. CASE ReplyLost BY <2>1, FinishReset DEF ReplyLost
    <2>2. CASE step' = Follow[req.kind].checkmac /\ UNCHANGED <<req, resp>>
      <3>1. step = "checkmac" /\ UNCHANGED <<keys, pin>> BY <1>5 DEF CheckMacRight
      <3>2. step' # "idle" BY <3>1, <2>2, <1>b, LandingTable
      <3>3. QED BY <2>2, <3>1, <3>2, NextCommand
    <2>3. QED BY <1>5, <2>1, <2>2 DEF CheckMacRight
  <1>6. CASE CheckMacWrong
    BY <1>6, FinishReset DEF CheckMacWrong, ReplyLost
  <1>7. CASE WritePin \/ WritePuk \/ ChipCompute
    <2>1. /\ step \in {"write_pin", "write_puk", "random", "sign"} /\ UNCHANGED keys
          /\ pin' = IF step = "write_pin" THEN req.new ELSE pin
          /\ Proceed \/ ReplyLost
      BY <1>7 DEF WritePin, WritePuk, ChipCompute
    <2>2. QED BY <2>1, ProceedReset, FinishReset DEF ReplyLost
  <1>8. CASE CheckMacExhausted \/ WriteRefused \/ ChipFault
    BY <1>8, FinishReset DEF CheckMacExhausted, WriteRefused, ChipFault
  <1>9. CASE PowerLoss
    BY <1>9 DEF PowerLoss, ResetComplete, ResetSoFar, NoReq, NoResp
  <1>10. CASE RefreshRead
    <2>1. /\ step \in {"refresh0", "refresh1"} /\ UNCHANGED <<req, resp, keys, pin>>
          /\ step' = Follow[req.kind][step]
      BY <1>10 DEF RefreshRead
    <2>2. step' # "idle" BY <2>1, <1>b, LandingTable
    <2>3. QED BY <2>1, <2>2, NextCommand
  <1>11. CASE RefreshBump
    <2>1. CASE ReplyLost BY <2>1, FinishReset DEF ReplyLost
    <2>2. CASE UNCHANGED <<req, step, resp>>
      <3>1. step \in {"bump0", "bump1"} /\ UNCHANGED <<keys, pin>> BY <1>11 DEF RefreshBump
      <3>2. QED BY <2>2, <3>1, <1>a DEF ResetComplete, ResetSoFar
    <2>3. QED BY <1>11, <2>1, <2>2 DEF RefreshBump
  <1>12. CASE RefreshDone \/ RefreshRefused
    <2>1. step \in {"bump0", "bump1"} /\ UNCHANGED <<keys, pin>> /\ EndRefresh
      BY <1>12 DEF RefreshDone, RefreshRefused
    <2>2. CASE Follow[req.kind][step] # "idle"
      BY <2>1, <2>2, NextCommand DEF EndRefresh
    <2>3. CASE Follow[req.kind][step] = "idle"
      <3>1. Finish("Ok") BY <2>1, <2>3 DEF EndRefresh
      <3>2. CASE req.kind # "EmergencyReset" BY <3>1, <3>2, FinishReset
      <3>3. CASE req.kind = "EmergencyReset"
        <4>1. step = "bump0" BY <2>1, <2>3, <3>3, <1>b, ResetTable
        <4>2. pin' = DefaultPin /\ \A s \in 1..EccSlots : keys'[s] = "fresh"
          BY <4>1, <2>1, <3>3, <1>a DEF ResetSoFar
        <4>3. step' = "idle" /\ req'.kind = "None" BY <3>1 DEF Finish, NoReq
        <4>4. QED BY <4>2, <4>3 DEF ResetComplete, ResetSoFar
      <3>4. QED BY <3>2, <3>3
    <2>4. QED BY <2>2, <2>3
  <1>13. CASE OpenSession \/ TouchSession
    <2>1. step \in {"open", "touch"} /\ Finish("Ok")
      BY <1>13 DEF OpenSession, TouchSession
    <2>2. req.kind # "EmergencyReset" BY <2>1, <1>b, ResetTable
    <2>3. QED BY <2>1, <2>2, FinishReset
  <1>14. CASE GenKeySlot
    <2>1. step = "genkey" /\ req.kind = "GenKey" BY <1>14 DEF GenKeySlot
    <2>2. Follow[req.kind][step] = "idle" BY <2>1 DEF Follow
    <2>3. \E st : Finish(st) BY <1>14, <2>2 DEF GenKeySlot, Proceed, ReplyLost
    <2>4. QED BY <2>1, <2>3, FinishReset
  <1>15. CASE GenKeyLoop
    <2>1. CASE ReplyLost BY <2>1, FinishReset DEF ReplyLost
    <2>2. CASE /\ left' = left - 1
               /\ step' = IF left = 1 THEN "random" ELSE "genkey"
               /\ UNCHANGED <<req, since, resp, proven>>
      <3>1. /\ step = "genkey" /\ req.kind = "EmergencyReset"
            /\ keys' = [keys EXCEPT ![EccSlots - left + 1] = "fresh"]
        BY <1>15 DEF GenKeyLoop
      <3>2. left \in 1..EccSlots /\ EccSlots \in Nat
            /\ \A s \in 1..EccSlots - left : keys[s] = "fresh"
        BY <3>1, <1>a, BoundsAssumption DEF ResetSoFar
      <3>3. \A s \in 1..EccSlots - left + 1 : keys'[s] = "fresh"
        <4> TAKE s \in 1..EccSlots - left + 1
        <4>1. s \in 1..EccSlots BY <3>2
        <4>2. CASE s = EccSlots - left + 1
          BY <4>1, <4>2, <3>1, <1>a DEF TypeOK
        <4>3. CASE s # EccSlots - left + 1
          <5>1. s \in 1..EccSlots - left BY <3>2, <4>3
          <5>2. QED BY <4>1, <4>3, <5>1, <3>1, <3>2, <1>a DEF TypeOK
        <4>4. QED BY <4>2, <4>3
      <3>4. CASE left = 1
        <4>1. step' = "random" /\ \A s \in 1..EccSlots : keys'[s] = "fresh"
          <5>1. EccSlots - left + 1 = EccSlots BY <3>2, <3>4
          <5>2. QED BY <2>2, <3>3, <3>4, <5>1
        <4>2. resp' = NoResp /\ req' = req BY <2>2, <3>1, <1>a DEF ResetSoFar
        <4>3. QED BY <4>1, <4>2, <3>1, <1>a DEF ResetComplete, ResetSoFar, NoResp
      <3>5. CASE left # 1
        <4>1. step' = "genkey" /\ left' \in 1..EccSlots
              /\ EccSlots - left' = EccSlots - left + 1
          BY <2>2, <3>2, <3>5
        <4>2. resp' = NoResp /\ req' = req BY <2>2, <3>1, <1>a DEF ResetSoFar
        <4>3. \A s \in 1..EccSlots - left' : keys'[s] = "fresh" BY <3>3, <4>1
        <4>4. QED BY <4>1, <4>2, <4>3, <3>1, <1>a DEF ResetComplete, ResetSoFar, NoResp
      <3>6. QED BY <3>4, <3>5
    <2>3. QED BY <1>15, <2>1, <2>2 DEF GenKeyLoop
  <1>16. CASE Tick
    BY <1>16, <1>a DEF Tick, ResetComplete, ResetSoFar
  <1>17. QED
    BY <1>1, <1>2, <1>3, <1>4, <1>5, <1>6, <1>7, <1>8, <1>9, <1>10, <1>11,
       <1>12, <1>13, <1>14, <1>15, <1>16
    DEF Next, ServiceStep

LEMMA ResetInvHolds == Spec => []ResetInv
  <1>1. Init /\ TypeOK => ResetInv
    BY DEF Init, ResetInv, ResetComplete, ResetSoFar, NoReq, NoResp
  <1>2. ResetInv /\ TypeOK' /\ [Next]_vars => ResetInv'
    <2>1. ResetInv /\ TypeOK' /\ Next => ResetInv'
      BY ResetStep DEF ResetInv
    <2>2. ResetInv /\ UNCHANGED vars => ResetInv'
      BY DEF ResetInv, vars, TypeOK, ResetComplete, ResetSoFar
    <2>3. QED BY <2>1, <2>2
  <1>3. QED BY <1>1, <1>2, TypeCorrect, PTL DEF Spec

(***************************************************************************)
(* A reset that answers Ok has replaced the keys of all identity slots,    *)
(* however many there are, and restored the default PIN, with or without   *)
(* chip errors and power losses.                                           *)
(***************************************************************************)
THEOREM ResetCompleteHolds == Spec => []ResetComplete
  <1>1. ResetInv => ResetComplete BY DEF ResetInv
  <1>2. QED BY <1>1, ResetInvHolds, PTL
-----------------------------------------------------------------------------
(***************************************************************************)
(* The attempts of a credential drift from the wrong secrets presented     *)
(* only while a refresh is owed to it.                                     *)
(***************************************************************************)
LEMMA TriesAtOne ==
  ASSUME NEW n \in Nat, NEW b \in {5, 10}, n % b = 1
  PROVE  retries_remaining(n, b) = b - 1
  <1>1. CASE b = 5 BY <1>1 DEF retries_remaining
  <1>2. CASE b = 10 BY <1>2 DEF retries_remaining
  <1>3. QED BY <1>1, <1>2

(* A method has fewer refreshes to make at each of its commands, and only *)
(* the end of a refresh takes one away while a proof stands.              *)
LEMMA DueTable ==
  ASSUME NEW k \in Kinds, NEW s \in DOMAIN Follow[k], Follow[k][s] # "idle"
  PROVE  /\ Due(k, Follow[k][s]) \subseteq Due(k, s)
         /\ s = "bump0" => "Counter0" \notin Due(k, Follow[k][s])
         /\ s = "bump1" => "Counter1" \notin Due(k, Follow[k][s])
  <1> USE DEF Due, Refreshes, Counters, PinKinds
  <1>1. k \in {"VerifyPin", "SetPin", "UnblockPin", "SetPuk", "EmergencyReset",
               "GenKey", "Sign"}
    BY DEF Kinds, Follow
  <1>2. CASE k = "VerifyPin" BY <1>2 DEF Follow
  <1>3. CASE k = "SetPin" BY <1>3 DEF Follow
  <1>4. CASE k = "UnblockPin" BY <1>4 DEF Follow
  <1>5. CASE k = "SetPuk" BY <1>5 DEF Follow
  <1>6. CASE k = "EmergencyReset" BY <1>6 DEF Follow
  <1>7. CASE k = "GenKey" BY <1>7 DEF Follow
  <1>8. CASE k = "Sign" BY <1>8 DEF Follow
  <1>9. QED BY <1>1, <1>2, <1>3, <1>4, <1>5, <1>6, <1>7, <1>8

LEMMA DueAtRefresh ==
  ASSUME NEW k \in Kinds, NEW s \in DOMAIN Follow[k]
  PROVE  /\ s \in {"refresh0", "bump0"} => "Counter0" \in Due(k, s)
         /\ s \in {"refresh1", "bump1"} => "Counter1" \in Due(k, s)
  BY FollowTable DEF Due

LEMMA OwingStep ==
  ASSUME TypeOK, Proved, Owing, Next
  PROVE  Owing'
  <1> USE DEF chip, session
  <1>b. step # "idle" => req.kind \in Kinds /\ step \in DOMAIN Follow[req.kind]
    BY DEF TypeOK, Requests
  <1>c. ASSUME proven' = "nothing" PROVE Owing'
    BY <1>c DEF Owing
  <1>d. ASSUME proven' = proven, req' = req, Due(req.kind, step') \subseteq Due(req.kind, step),
               owed \subseteq owed'
        PROVE  Owing'
    BY <1>d DEF Owing
  <1>e. ASSUME NEW st, Finish(st) PROVE proven' = "nothing"
    BY <1>e DEF Finish
  <1>f. ASSUME Proceed, step # "idle", owed' = owed PROVE Owing'
    <2>1. CASE Follow[req.kind][step] = "idle" BY <1>f, <2>1, <1>c, <1>e DEF Proceed
    <2>2. CASE Follow[req.kind][step] # "idle"
      <3>1. proven' = proven /\ req' = req /\ step' = Follow[req.kind][step]
        BY <1>f, <2>2 DEF Proceed
      <3>2. Due(req.kind, step') \subseteq Due(req.kind, step)
        BY <1>b, <1>f, <2>2, <3>1, DueTable
      <3>3. QED BY <1>d, <1>f, <3>1, <3>2
    <2>3. QED BY <2>1, <2>2
  <1>1. CASE Request
    <2>1. step = "idle" /\ proven' = proven
      BY <1>1 DEF Request, verify_pin, set_pin, unblock_pin, set_puk, emergency_reset,
              genkey_create, sign, validate_digits, close_session, Start
    <2>2. QED BY <2>1, <1>c DEF Proved
  <1>2. CASE \/ CheckSession \/ CheckTries \/ WritePin \/ WritePuk \/ GenKeySlot
             \/ ChipCompute
    <2>1. step # "idle" /\ owed' = owed /\ (Proceed \/ \E st : Finish(st))
      BY <1>2
      DEF CheckSession, CheckTries, WritePin, WritePuk, GenKeySlot, ChipCompute, ReplyLost
    <2>2. QED BY <2>1, <1>c, <1>e, <1>f
  <1>3. CASE CheckSaturated
    <2>1. CASE \A c \in Counters : Tries(c) = 0
      <3>1. owed' = Counters /\ req' = req /\ req.kind = "EmergencyReset"
        BY <1>3, <2>1 DEF CheckSaturated
      <3>2. Refreshes("EmergencyReset") = Counters BY DEF Refreshes, PinKinds
      <3>3. QED BY <3>1, <3>2 DEF Owing, Due
    <2>2. CASE ~ \A c \in Counters : Tries(c) = 0
      BY <1>3, <2>2, <1>c, <1>e DEF CheckSaturated
    <2>3. QED BY <2>1, <2>2
  <1>4. CASE cached_serial
    <2>1. CASE Follow[req.kind].serial = "genkey"
      <3>1. step = "serial" /\ step' = "genkey" /\ UNCHANGED <<req, proven, owed>>
        BY <1>4, <2>1 DEF cached_serial
      <3>2. Due(req.kind, step') \subseteq Due(req.kind, step)
        BY <3>1 DEF Due
      <3>3. QED BY <3>1, <3>2, <1>d
    <2>2. CASE Follow[req.kind].serial # "genkey"
      BY <1>4, <2>2, <1>f DEF cached_serial
    <2>3. QED BY <2>1, <2>2
  <1>5. CASE CheckMacRight
    <2>1. owed' = owed \cup Refreshes(req.kind) BY <1>5 DEF CheckMacRight
    <2>2. CASE ReplyLost BY <2>2, <1>c, <1>e DEF ReplyLost
    <2>3. CASE UNCHANGED req BY <2>1, <2>3 DEF Owing, Due
    <2>4. QED BY <1>5, <2>2, <2>3 DEF CheckMacRight
  <1>6. CASE CheckMacWrong \/ CheckMacExhausted \/ WriteRefused \/ ChipFault
             \/ OpenSession \/ TouchSession
    BY <1>6, <1>c, <1>e
    DEF CheckMacWrong, CheckMacExhausted, WriteRefused, ChipFault, OpenSession, TouchSession,
        ReplyLost
  <1>7. CASE PowerLoss BY <1>7, <1>c DEF PowerLoss
  <1>8. CASE RefreshRead
    <2>1. /\ step \in {"refresh0", "refresh1"} /\ step' = Follow[req.kind][step]
          /\ UNCHANGED <<req, proven, owed>>
      BY <1>8 DEF RefreshRead
    <2>2. Follow[req.kind][step] # "idle" BY <2>1, <1>b, LandingTable
    <2>3. Due(req.kind, step') \subseteq Due(req.kind, step)
      BY <2>1, <2>2, <1>b, DueTable
    <2>4. QED BY <2>1, <2>3, <1>d
  <1>9. CASE RefreshBump
    <2>1. CASE ReplyLost BY <2>1, <1>c, <1>e DEF ReplyLost
    <2>2. CASE UNCHANGED <<req, step, proven>>
      BY <1>9, <2>2, <1>d DEF RefreshBump
    <2>3. QED BY <1>9, <2>1, <2>2 DEF RefreshBump
  <1>10. CASE RefreshDone \/ RefreshRefused
    <2>1. /\ step \in {"bump0", "bump1"} /\ EndRefresh
          /\ owed \ {RefreshCounter} \subseteq owed'
      BY <1>10 DEF RefreshDone, RefreshRefused
    <2>2. CASE Follow[req.kind][step] = "idle"
      BY <2>1, <2>2, <1>c, <1>e DEF EndRefresh
    <2>3. CASE Follow[req.kind][step] # "idle"
      <3>1. step' = Follow[req.kind][step] /\ UNCHANGED <<req, proven>>
        BY <2>1, <2>3 DEF EndRefresh
      <3>2. Due(req.kind, step') \subseteq Due(req.kind, step) \ {RefreshCounter}
        BY <2>1, <2>3, <3>1, <1>b, DueTable DEF RefreshCounter
      <3>3. QED BY <2>1, <3>1, <3>2 DEF Owing
    <2>4. QED BY <2>2, <2>3
  <1>11. CASE GenKeyLoop
    <2>1. CASE ReplyLost BY <2>1, <1>c, <1>e DEF ReplyLost
    <2>2. CASE step' \in {"random", "genkey"} /\ UNCHANGED <<req, proven>>
      <3>1. step = "genkey" /\ owed' = owed BY <1>11 DEF GenKeyLoop
      <3>2. Due(req.kind, step') \subseteq Due(req.kind, step) BY <2>2, <3>1 DEF Due
      <3>3. QED BY <2>2, <3>1, <3>2, <1>d
    <2>3. QED BY <1>11, <2>1, <2>2 DEF GenKeyLoop
  <1>12. CASE Tick
    BY <1>12, <1>d DEF Tick
  <1>13. QED
    BY <1>1, <1>2, <1>3, <1>4, <1>5, <1>6, <1>7, <1>8, <1>9, <1>10, <1>11, <1>12
    DEF Next, ServiceStep

(* What a step that touches neither counters nor misses needs. *)
LEMMA ExactFrame ==
  ASSUME TriesExact, UNCHANGED <<count, wrong>>, owed \subseteq owed'
  PROVE  TriesExact'
  BY DEF TriesExact, Tries

LEMMA ExactStep ==
  ASSUME BudgetInv, ExactInv, Next
  PROVE  TriesExact'
  <1> USE DEF chip, session
  <1>a. TypeOK /\ TriesExact /\ Landing /\ Owing BY DEF BudgetInv, ExactInv
  <1>b. step # "idle" => req.kind \in Kinds /\ step \in DOMAIN Follow[req.kind]
    BY <1>a DEF TypeOK, Requests
  <1>c. Guarding(req.kind) \in Counters /\ RefreshCounter \in Counters
    BY DEF Guarding, RefreshCounter, Counters
  <1>d. \A c \in Counters : count[c] \in Nat /\ wrong[c] \in Nat
    BY <1>a, CounterMaxAssumption DEF TypeOK
  <1>1. CASE Request
    BY <1>1, <1>a, ExactFrame
    DEF Request, verify_pin, set_pin, unblock_pin, set_puk, emergency_reset,
        genkey_create, sign, validate_digits, close_session, Start
  <1>2. CASE CheckSaturated
    <2>1. CASE \A c \in Counters : Tries(c) = 0
      BY <1>2, <2>1 DEF CheckSaturated, TriesExact
    <2>2. CASE ~ \A c \in Counters : Tries(c) = 0
      BY <1>2, <2>2, <1>a, ExactFrame DEF CheckSaturated
    <2>3. QED BY <2>1, <2>2
  <1>3. CASE CheckMacRight
    <2> DEFINE c == Guarding(req.kind)
    <2>1. step = "checkmac" /\ req.kind \in PinKinds \cup PukKinds
      BY <1>3, <1>b, FollowTable DEF CheckMacRight
    <2>2. c \in Refreshes(req.kind)
      BY <2>1 DEF Guarding, Refreshes, Counters, PinKinds, PukKinds
    <2>3. /\ count' = [count EXCEPT ![c] = @ + 1]
          /\ wrong' = [d \in Counters |-> IF d \in Refreshes(req.kind) THEN 0 ELSE wrong[d]]
          /\ owed' = owed \cup Refreshes(req.kind)
      BY <1>3 DEF CheckMacRight
    <2> SUFFICES ASSUME NEW d \in Counters, d \notin owed'
                 PROVE  wrong'[d] + Tries(d)' \in {batch_size(d) - 1, batch_size(d)}
      BY DEF TriesExact
    <2>4. d \notin owed /\ d \notin Refreshes(req.kind) BY <2>3
    <2>5. count'[d] = count[d] /\ wrong'[d] = wrong[d]
      BY <2>2, <2>3, <2>4, <1>a DEF TypeOK
    <2>6. QED BY <2>4, <2>5, <1>a DEF TriesExact, Tries
  <1>4. CASE CheckMacWrong
    <2> DEFINE c == Guarding(req.kind)
    <2>1. step = "checkmac" /\ req.kind \in PinKinds \cup PukKinds
      BY <1>4, <1>b, FollowTable DEF CheckMacWrong
    <2>2. /\ Tries(c) # 0
          /\ count' = [count EXCEPT ![c] = @ + 1]
          /\ wrong' = [wrong EXCEPT ![c] = @ + 1]
          /\ owed' = owed
      BY <1>4, <2>1 DEF CheckMacWrong, BudgetInv, Gated
    <2>3. ASSUME NEW d \in Counters PROVE wrong'[d] + Tries(d)' = wrong[d] + Tries(d)
      <3>1. CASE d = c
        <4>1. Tries(d)' = Tries(d) - 1
          BY <3>1, <2>2, <1>a, <1>d, RetriesStep, BatchValues DEF Tries, TypeOK
        <4>2. Tries(d) \in Nat
          BY <1>d, RetriesRange, BatchValues DEF Tries
        <4>3. wrong'[d] = wrong[d] + 1 BY <3>1, <2>2, <1>a DEF TypeOK
        <4>4. QED BY <4>1, <4>2, <4>3, <1>d
      <3>2. CASE d # c
        BY <3>2, <2>2, <1>a, <1>d DEF Tries, TypeOK
      <3>3. QED BY <3>1, <3>2
    <2>4. QED BY <2>2, <2>3, <1>a DEF TriesExact
  <1>5. CASE RefreshBump
    <2> DEFINE c == RefreshCounter
    <2>1. /\ step \in {"bump0", "bump1"} /\ UNCHANGED <<wrong, owed>>
          /\ count' = [count EXCEPT ![c] = @ + 1]
      BY <1>5 DEF RefreshBump
    <2>2. c \in Refreshes(req.kind) /\ c \in Due(req.kind, step)
      BY <2>1, <1>b, FollowTable, DueAtRefresh DEF RefreshCounter
    <2>3. proven # "nothing"
      <3>1. req.kind \notin {"GenKey", "Sign"}
        BY <2>2 DEF Refreshes, PinKinds
      <3>2. QED BY <2>1, <3>1, <1>b DEF BudgetInv, Proved, Proof, PinKinds, PukKinds, Kinds, Follow
    <2>4. c \in owed BY <2>2, <2>3, <1>a DEF Owing
    <2>5. ASSUME NEW d \in Counters, d # c
          PROVE  wrong'[d] = wrong[d] /\ Tries(d)' = Tries(d)
      BY <2>1, <2>5, <1>a DEF Tries, TypeOK
    <2>6. QED BY <2>1, <2>4, <2>5, <1>a DEF TriesExact
  <1>6. CASE RefreshDone
    <2>1. /\ step \in {"bump0", "bump1"} /\ left = 0 /\ UNCHANGED <<count, wrong>>
          /\ owed' = owed \ {RefreshCounter}
      BY <1>6 DEF RefreshDone
    <2>2. RefreshCounter \in Refreshes(req.kind)
      BY <2>1, <1>b, FollowTable DEF RefreshCounter
    <2>3. wrong[RefreshCounter] = 0
      <3>1. req.kind \notin {"GenKey", "Sign"}
        BY <2>2 DEF Refreshes, PinKinds
      <3>2. proven # "nothing"
        BY <2>1, <3>1, <1>b DEF BudgetInv, Proved, Proof, PinKinds, PukKinds, Kinds, Follow
      <3>3. QED BY <3>2, <2>2 DEF BudgetInv, Proved
    <2>4. count[RefreshCounter] % batch_size(RefreshCounter) = 1
      <3>1. count["Counter0"] \in Nat /\ count["Counter1"] \in Nat
        BY <1>d DEF Counters
      <3>2. QED
        BY <2>1, <3>1, <1>a DEF Landing, RefreshCounter, batch_size
    <2>5. Tries(RefreshCounter) = batch_size(RefreshCounter) - 1
      BY <2>4, <1>c, <1>d, BatchValues, TriesAtOne DEF Tries
    <2>6. QED BY <2>1, <2>3, <2>5, <1>a, <1>c, BatchValues DEF TriesExact, Tries
  <1>7. CASE \/ CheckSession \/ CheckTries \/ cached_serial \/ CheckMacExhausted
             \/ WritePin \/ WritePuk \/ WriteRefused \/ RefreshRead \/ RefreshRefused
             \/ OpenSession \/ TouchSession \/ GenKeySlot \/ GenKeyLoop \/ ChipCompute
             \/ ChipFault \/ PowerLoss \/ Tick
    <2>1. UNCHANGED <<count, wrong, owed>>
      BY <1>7 DEF CheckSession, CheckTries, cached_serial, CheckMacExhausted, WritePin,
         WritePuk, WriteRefused, RefreshRead, RefreshRefused, OpenSession, TouchSession,
         GenKeySlot, GenKeyLoop, ChipCompute, ChipFault, PowerLoss, Tick
    <2>2. QED BY <2>1, <1>a, ExactFrame
  <1>8. QED
    BY <1>1, <1>2, <1>3, <1>4, <1>5, <1>6, <1>7 DEF Next, ServiceStep

LEMMA ExactInvHolds == Spec => []ExactInv
  <1>1. Init => ExactInv
    <2> SUFFICES ASSUME Init PROVE ExactInv OBVIOUS
    <2>1. \A c \in Counters : wrong[c] = 0 /\ Tries(c) = batch_size(c)
      BY DEF Init, Tries, retries_remaining
    <2>2. TriesExact BY <2>1, BatchValues DEF TriesExact
    <2>3. Landing /\ Owing BY DEF Init, Landing, Owing
    <2>4. QED BY <2>2, <2>3 DEF ExactInv
  <1>2. BudgetInv /\ ExactInv /\ [Next]_vars => ExactInv'
    <2>1. BudgetInv /\ ExactInv /\ Next => ExactInv'
      BY ExactStep, LandingStep, OwingStep DEF ExactInv, BudgetInv
    <2>2. ExactInv /\ UNCHANGED vars => ExactInv'
      BY DEF vars, ExactInv, TriesExact, Tries, Landing, Owing
    <2>3. QED BY <2>1, <2>2
  <1>3. QED BY <1>1, <1>2, BudgetInvHolds, PTL DEF Spec

(***************************************************************************)
(* The attempts reported are exact for every credential no refresh is owed *)
(* to, whatever chip errors, lost replies, refused increments, refused     *)
(* writes and power losses came before.                                    *)
(***************************************************************************)
THEOREM TriesExactHolds == Spec => []TriesExact
  <1>1. ExactInv => TriesExact BY DEF ExactInv
  <1>2. QED BY <1>1, ExactInvHolds, PTL
-----------------------------------------------------------------------------
(***************************************************************************)
(* The service implements PinPolicy: each of its steps is one of the       *)
(* policy's, or leaves all the policy sees alone.                          *)
(***************************************************************************)
LEMMA PolicyCreds == Policy!Creds = Counters
  BY DEF Policy!Creds

LEMMA Stutters ==
  ASSUME UNCHANGED <<pin, puk, keys, open, count, wrong, proven>>
  PROVE  UNCHANGED Policy!avars
  BY DEF Policy!avars, Tries

LEMMA Returns ==
  ASSUME UNCHANGED <<pin, puk, keys, count, wrong>>, open' \in {open, FALSE},
         proven' = "nothing"
  PROVE  Policy!Next
  <1>1. Policy!Return BY DEF Policy!Return, Tries
  <1>2. QED BY <1>1 DEF Policy!Next

(* One counter moves, so do the attempts of its credential alone. *)
LEMMA TriesMove ==
  ASSUME TypeOK, NEW c \in Counters, count' = [count EXCEPT ![c] = @ + 1]
  PROVE  [d \in Counters |-> Tries(d)]' = [[d \in Counters |-> Tries(d)] EXCEPT ![c] = Tries(c)']
  <1>1. \A d \in Counters \ {c} : count'[d] = count[d]
    BY DEF TypeOK
  <1>2. \A d \in Counters \ {c} : Tries(d)' = Tries(d)
    BY <1>1 DEF Tries
  <1>3. QED BY <1>2

LEMMA AttemptCounted ==
  ASSUME BudgetInv, step = "checkmac", NEW c, c = Guarding(req.kind),
         count' = [count EXCEPT ![c] = @ + 1]
  PROVE  /\ c \in Counters /\ Tries(c) \in Nat /\ Tries(c) > 0 /\ proven = "nothing"
         /\ [d \in Counters |-> Tries(d)]' =
              [[d \in Counters |-> Tries(d)] EXCEPT ![c] = Tries(c) - 1]
  <1>1. TypeOK /\ req.kind \in PinKinds \cup PukKinds
    BY FollowTable DEF BudgetInv, TypeOK, Requests
  <1>2. c \in Counters BY DEF Guarding, Counters
  <1>3. Tries(c) # 0 /\ proven = "nothing" BY <1>1 DEF BudgetInv, Gated, Proved
  <1>4. count[c] \in Nat /\ batch_size(c) \in {5, 10}
    BY <1>1, <1>2, CounterMaxAssumption, BatchValues DEF TypeOK
  <1>5. Tries(c) \in Nat BY <1>4, RetriesRange DEF Tries
  <1>6. count'[c] = count[c] + 1 BY <1>1, <1>2 DEF TypeOK
  <1>7. Tries(c)' = Tries(c) - 1 BY <1>3, <1>4, <1>6, RetriesStep DEF Tries
  <1>8. [d \in Counters |-> Tries(d)]' =
          [[d \in Counters |-> Tries(d)] EXCEPT ![c] = Tries(c)']
    BY <1>1, <1>2, TriesMove
  <1>9. Tries(c) > 0 BY <1>3, <1>5
  <1>10. QED BY <1>2, <1>3, <1>5, <1>7, <1>8, <1>9

(* A proof stands, and what it is. *)
LEMMA ProofStands ==
  ASSUME BudgetInv, step \in {"write_pin", "write_puk", "bump0", "bump1"}
  PROVE  /\ proven # "nothing" /\ proven = Proof(req.kind) /\ req.kind \in Kinds
         /\ req.kind \in PinKinds \cup PukKinds \cup {"EmergencyReset"}
         /\ step = "write_puk" => req.kind \in {"SetPuk", "EmergencyReset"}
         /\ step = "write_pin" => req.kind \in {"SetPin", "UnblockPin", "EmergencyReset"}
  <1>1. TypeOK /\ req.kind \in Kinds /\ step \in DOMAIN Follow[req.kind]
    BY DEF BudgetInv, TypeOK, Requests
  <1>2. /\ req.kind \in PinKinds \cup PukKinds \cup {"EmergencyReset"}
        /\ step = "write_puk" => req.kind \in {"SetPuk", "EmergencyReset"}
        /\ step = "write_pin" => req.kind \in {"SetPin", "UnblockPin", "EmergencyReset"}
    BY <1>1 DEF Kinds, Follow, PinKinds, PukKinds
  <1>3. proven = Proof(req.kind) BY DEF BudgetInv, Proved
  <1>4. QED BY <1>1, <1>2, <1>3 DEF Proof, PinKinds, PukKinds

LEMMA PolicyStep ==
  ASSUME BudgetInv, ResetInv, Next
  PROVE  Policy!Next \/ UNCHANGED Policy!avars
  <1> USE DEF chip, session
  <1>a. TypeOK BY DEF BudgetInv
  <1>b. step # "idle" => req.kind \in Kinds /\ step \in DOMAIN Follow[req.kind]
    BY <1>a, ResetCommands
  <1>c. ASSUME Proceed \/ ReplyLost PROVE proven' \in {proven, "nothing"}
    BY <1>c DEF Proceed, Finish, ReplyLost
  <1>1. CASE close_session
    <2>1. proven = "nothing" BY <1>1 DEF close_session, BudgetInv, Proved
    <2>2. QED BY <1>1, <2>1, Returns DEF close_session
  <1>2. CASE Request /\ ~ close_session
    <2>1. UNCHANGED <<pin, puk, keys, open, count, wrong, proven>>
      BY <1>2 DEF Request, verify_pin, set_pin, unblock_pin, set_puk, emergency_reset,
              genkey_create, sign, validate_digits, Start
    <2>2. QED BY <2>1, Stutters
  <1>3. CASE \/ CheckSession \/ CheckTries \/ cached_serial \/ CheckMacExhausted
             \/ WriteRefused \/ RefreshRead \/ RefreshDone \/ RefreshRefused \/ TouchSession \/ ChipCompute
             \/ ChipFault \/ Tick
    <2>1. UNCHANGED <<pin, puk, keys, open, count, wrong>>
      BY <1>3 DEF CheckSession, CheckTries, cached_serial, CheckMacExhausted, WriteRefused,
         RefreshRead, RefreshDone, RefreshRefused, TouchSession, ChipCompute, ChipFault, Tick
    <2>2. proven' \in {proven, "nothing"}
      BY <1>3, <1>c DEF CheckSession, CheckTries, cached_serial, CheckMacExhausted,
         WriteRefused, RefreshRead, RefreshDone, RefreshRefused, EndRefresh, TouchSession,
         ChipCompute, ChipFault, Tick, Finish
    <2>3. QED BY <2>1, <2>2, Stutters, Returns
  <1>4. CASE PowerLoss
    BY <1>4, Returns DEF PowerLoss
  <1>5. CASE CheckSaturated
    <2>1. step = "counter" /\ UNCHANGED <<pin, puk, keys, open, count>>
      BY <1>5 DEF CheckSaturated
    <2>2. CASE ~ \A c \in Counters : Tries(c) = 0
      BY <1>5, <2>1, <2>2, Returns DEF CheckSaturated, Finish
    <2>3. CASE \A c \in Counters : Tries(c) = 0
      <3>1. proven' = "saturation" /\ wrong' = [c \in Counters |-> 0]
        BY <1>5, <2>3 DEF CheckSaturated
      <3>2. proven = "nothing" BY <2>1 DEF BudgetInv, Proved
      <3>3. Policy!Exhausted
        BY <2>1, <2>3, <3>1, <3>2, PolicyCreds DEF Policy!Exhausted, Tries
      <3>4. QED BY <3>3 DEF Policy!Next
    <2>4. QED BY <2>2, <2>3
  <1>6. CASE CheckMacRight
    <2>0. PICK c \in Counters : c = Guarding(req.kind) BY DEF Guarding, Counters
    <2>1. /\ step = "checkmac" /\ count' = [count EXCEPT ![c] = @ + 1]
          /\ wrong' = [d \in Counters |-> IF d \in Refreshes(req.kind) THEN 0 ELSE wrong[d]]
          /\ proven' \in {"nothing", IF c = "Counter0" THEN "pin" ELSE "puk"}
          /\ UNCHANGED <<pin, puk, keys, open>>
      BY <1>6, <2>0 DEF CheckMacRight, ReplyLost, Finish
    <2>2. /\ c \in Counters /\ Tries(c) > 0 /\ proven = "nothing"
          /\ [d \in Counters |-> Tries(d)]' =
               [[d \in Counters |-> Tries(d)] EXCEPT ![c] = Tries(c) - 1]
      BY <2>0, <2>1, AttemptCounted
    <2>3. Refreshes(req.kind) \in {{c}, Counters}
      BY <2>0, <2>1, <1>b, FollowTable DEF Refreshes, Guarding, PinKinds, PukKinds
    <2>4. Policy!Hit(c)
      BY <2>1, <2>2, <2>3, PolicyCreds DEF Policy!Hit
    <2>5. QED BY <2>2, <2>4, PolicyCreds DEF Policy!Next
  <1>7. CASE CheckMacWrong
    <2>0. PICK c \in Counters : c = Guarding(req.kind) BY DEF Guarding, Counters
    <2>1. /\ step = "checkmac" /\ count' = [count EXCEPT ![c] = @ + 1]
          /\ wrong' = [wrong EXCEPT ![c] = @ + 1]
          /\ proven' = "nothing" /\ UNCHANGED <<pin, puk, keys, open>>
      BY <1>7, <2>0 DEF CheckMacWrong, ReplyLost, Finish
    <2>2. /\ c \in Counters /\ Tries(c) > 0 /\ proven = "nothing"
          /\ [d \in Counters |-> Tries(d)]' =
               [[d \in Counters |-> Tries(d)] EXCEPT ![c] = Tries(c) - 1]
      BY <2>0, <2>1, AttemptCounted
    <2>3. Policy!Miss(c)
      BY <2>1, <2>2 DEF Policy!Miss
    <2>4. QED BY <2>2, <2>3, PolicyCreds DEF Policy!Next
  <1>8. CASE WritePin
    <2>1. /\ step = "write_pin" /\ pin' = req.new /\ proven' \in {proven, "nothing"}
          /\ UNCHANGED <<count, puk, keys, open, wrong>>
      BY <1>8, <1>c DEF WritePin
    <2>2. /\ proven # "nothing" /\ proven = Proof(req.kind)
          /\ req.kind \in {"SetPin", "UnblockPin", "EmergencyReset"}
      BY <2>1, ProofStands
    <2>3. req.new \in IF proven = "saturation" THEN {DefaultPin} ELSE Pins
      BY <2>2, <1>a DEF TypeOK, Proof, PinKinds, PukKinds, ResetInv, ResetSoFar
    <2>4. Policy!ChangePin
      BY <2>1, <2>2, <2>3 DEF Policy!ChangePin, Policy!MayReturn, Tries
    <2>5. QED BY <2>4 DEF Policy!Next
  <1>9. CASE WritePuk
    <2>1. /\ step = "write_puk" /\ puk' \in Puks /\ proven' \in {proven, "nothing"}
          /\ UNCHANGED <<count, pin, keys, open, wrong>>
      BY <1>9, <1>c DEF WritePuk
    <2>2. proven \in {"puk", "saturation"}
      BY <2>1, ProofStands DEF Proof, PinKinds, PukKinds
    <2>3. Policy!ChangePuk
      BY <2>1, <2>2 DEF Policy!ChangePuk, Policy!MayReturn, Tries
    <2>4. QED BY <2>3 DEF Policy!Next
  <1>10. CASE RefreshBump
    <2>0. PICK c \in Counters : c = RefreshCounter BY DEF RefreshCounter, Counters
    <2>1. /\ step \in {"bump0", "bump1"} /\ count' = [count EXCEPT ![c] = @ + 1]
          /\ proven' \in {proven, "nothing"} /\ UNCHANGED <<pin, puk, keys, open, wrong>>
      BY <1>10, <1>c, <2>0 DEF RefreshBump
    <2>2. c \in Refreshes(req.kind) /\ c \in Counters
      BY <2>0, <2>1, <1>b, FollowTable DEF RefreshCounter
    <2>3. proven # "nothing" /\ wrong[c] = 0
      BY <2>1, <2>2, ProofStands DEF BudgetInv, Proved
    <2>4. Tries(c)' \in 0..batch_size(c)
      <3>1. count'[c] \in Nat /\ batch_size(c) \in {5, 10}
        BY <2>1, <2>2, <1>a, CounterMaxAssumption, BatchValues DEF TypeOK
      <3>2. QED BY <3>1, RetriesRange DEF Tries
    <2>5. [d \in Counters |-> Tries(d)]' =
            [[d \in Counters |-> Tries(d)] EXCEPT ![c] = Tries(c)']
      BY <2>1, <2>2, <1>a, TriesMove
    <2>6. Policy!Refresh(c)
      BY <2>1, <2>2, <2>3, <2>4, <2>5 DEF Policy!Refresh, Policy!MayReturn
    <2>7. QED BY <2>2, <2>6, PolicyCreds DEF Policy!Next
  <1>11. CASE OpenSession
    <2>1. /\ step = "open" /\ open' = TRUE /\ proven' = "nothing"
          /\ UNCHANGED <<pin, puk, keys, count, wrong>>
      BY <1>11 DEF OpenSession, Finish
    <2>2. req.kind \in PinKinds BY <2>1, <1>b, LandingTable
    <2>3. proven = "pin"
      <3>1. proven = Proof(req.kind) BY <2>1 DEF BudgetInv, Proved
      <3>2. QED BY <2>2, <3>1 DEF Proof, PinKinds, PukKinds
    <2>4. Policy!OpenSession
      BY <2>1, <2>3 DEF Policy!OpenSession, Tries
    <2>5. QED BY <2>4 DEF Policy!Next
  <1>12. CASE GenKeySlot \/ GenKeyLoop
    <2>1. /\ proven' \in {proven, "nothing"} /\ UNCHANGED <<pin, puk, open, count, wrong>>
      BY <1>12, <1>c DEF GenKeySlot, GenKeyLoop
    <2>2. PICK s \in 1..EccSlots : keys' = [keys EXCEPT ![s] = "fresh"]
      <3>1. CASE GenKeySlot BY <3>1, <1>a DEF GenKeySlot, TypeOK, Requests
      <3>2. CASE GenKeyLoop
        <4>1. left \in 1..EccSlots /\ EccSlots \in Nat
          BY <3>2, BoundsAssumption DEF GenKeyLoop, ResetInv, ResetSoFar
        <4>2. EccSlots - left + 1 \in 1..EccSlots BY <4>1
        <4>3. QED BY <3>2, <4>2 DEF GenKeyLoop
      <3>3. QED BY <1>12, <3>1, <3>2
    <2>3. Policy!ReplaceKey(s)
      BY <2>1, <2>2 DEF Policy!ReplaceKey, Policy!MayReturn, Tries
    <2>4. QED BY <2>3 DEF Policy!Next
  <1>13. QED
    BY <1>1, <1>2, <1>3, <1>4, <1>5, <1>6, <1>7, <1>8, <1>9, <1>10, <1>11, <1>12
    DEF Next, ServiceStep

(***************************************************************************)
(* The service implements the policy, chip errors, lost replies, power     *)
(* losses and wrong I/O keys included: only the right secret or both       *)
(* budgets spent entitle a call to change PIN, PUK or attempts, and only   *)
(* the PIN opens a session.                                                *)
(***************************************************************************)
THEOREM PolicyImplemented == Spec => ImplementsPolicy
  <1>1. Init => Policy!Init
    <2> SUFFICES ASSUME Init PROVE Policy!Init OBVIOUS
    <2>1. \A c \in Counters : Tries(c) = batch_size(c)
      BY DEF Init, Tries, retries_remaining
    <2>2. [c \in Counters |-> Tries(c)] = [c \in Counters |-> batch_size(c)]
      BY <2>1
    <2>3. QED BY <2>2, PolicyCreds DEF Init, Policy!Init
  <1>2. BudgetInv /\ ResetInv /\ [Next]_vars => [Policy!Next]_(Policy!avars)
    <2>1. BudgetInv /\ ResetInv /\ Next => Policy!Next \/ UNCHANGED Policy!avars
      BY PolicyStep
    <2>2. UNCHANGED vars => UNCHANGED Policy!avars
      BY Stutters DEF vars
    <2>3. QED BY <2>1, <2>2
  <1>3. QED
    BY <1>1, <1>2, BudgetInvHolds, ResetInvHolds, PTL DEF Spec, ImplementsPolicy, Policy!Spec
=============================================================================
