----------------------------- MODULE PinService -----------------------------
(***************************************************************************)
(* The credential side of CryptoService (hsm-crypto-service/service.rs):   *)
(* PIN and PUK verification against the secure element's two monotonic     *)
(* counters, credential changes, the last-chance reset and the 30 s PIN    *)
(* session.                                                                *)
(*                                                                         *)
(* Every service method is a chain of chip commands, each followed by an   *)
(* early return on error.  One step of the model is one such command, so   *)
(* that an I/O error, a lost reply or a power loss can hit between any     *)
(* two of them.  dispatch_loop owns the service and runs one method at a   *)
(* time, hence the single request in progress.                             *)
(*                                                                         *)
(* Abstractions.  A slot stores the salted hash of its secret; the model   *)
(* stores the secret (the hash is injective on well-formed secrets and the *)
(* salt is fixed by the chip serial).  Time is the age of the session, the *)
(* only thing Session::is_active looks at.                                 *)
(*                                                                         *)
(* Left out.  The configuration blob sets ReqAuth on the identity slots    *)
(* (config-generator/blob.rs), by which the chip itself may refuse Sign    *)
(* and GenKey without an earlier CheckMac.  The model has the checks that  *)
(* the service makes, and lets GenKey succeed without CheckMac, as         *)
(* emergency_reset needs, which verifies nothing before it.                *)
(***************************************************************************)
EXTENDS Naturals

CONSTANTS
  Pins,            \* well-formed PINs (4 ASCII digits)
  Puks,            \* well-formed PUKs (8 ASCII digits)
  DefaultPin,      \* PIN_DEFAULT, "0000"
  Malformed,       \* a PIN or PUK that validate_digits refuses
  WrongIoKey,      \* may a host present a wrong I/O protection key?
  EccSlots,        \* number of identity slots emergency_reset regenerates (6)
  SessionTimeout,  \* SESSION_TIMEOUT_MS
  CounterMax,      \* hardware limit of a monotonic counter (2^21 - 1)
  Faulty           \* may chip I/O fail and power be lost?

ASSUME SecretsAssumption ==
  /\ DefaultPin \in Pins
  /\ Puks # {}
  /\ Malformed \notin Pins \cup Puks
  /\ WrongIoKey \in BOOLEAN

ASSUME BoundsAssumption ==
  /\ EccSlots \in Nat \ {0}
  /\ SessionTimeout \in Nat \ {0}
  /\ Faulty \in BOOLEAN

(***************************************************************************)
(* The hardware limit is one past a multiple of both batch sizes, as       *)
(* 2^21 - 1 = 2097151 is.                                                  *)
(***************************************************************************)
ASSUME CounterMaxAssumption ==
  /\ CounterMax \in Nat
  /\ CounterMax % 5 = 1
  /\ CounterMax % 10 = 1

PIN_MAX_RETRIES == 5
PUK_MAX_RETRIES == 10

Counters == {"Counter0", "Counter1"}

batch_size(c) == IF c = "Counter0" THEN PIN_MAX_RETRIES ELSE PUK_MAX_RETRIES

(* CheckMac attempts left before the next batch threshold. *)
retries_remaining(count, batch) ==
  IF count = 0 THEN batch
  ELSE IF count % batch = 0 THEN 0
  ELSE IF count % batch = 1 THEN batch - 1
  ELSE batch - (count % batch)

(* Variant to test the properties: stops one increment short. *)
refresh_bumps_Short(count, batch) ==
  IF count % batch = 0 THEN 1
  ELSE IF count % batch = 1 THEN 0
  ELSE batch - (count % batch)

(* How many increments refresh_counter_batch issues to reach remainder 1. *)
refresh_bumps(count, batch) ==
  IF count % batch = 0 THEN 1
  ELSE IF count % batch = 1 THEN 0
  ELSE batch - (count % batch) + 1

-----------------------------------------------------------------------------
VARIABLES
  count,    \* chip: the two monotonic counters
  pin,      \* chip: secret behind the hash in slot 5
  puk,      \* chip: secret behind the hash in slot 6
  keys,     \* chip: "owner" while a slot holds the key the owner enrolled
  open,     \* Session::last_activity_ms is Some
  age,      \* time since last activity, saturating at SessionTimeout
  req,      \* the request in progress and its arguments
  step,     \* the chip command the method is about to issue
  left,     \* iterations left of the loop the method is in
  since,    \* time since the method read the clock (its local "now")
  resp,     \* the last response
  wrong,    \* history: wrong secrets presented since a right one
  proven,   \* history: what the request in progress has proved
  owed      \* history: counters with a refresh earned and not completed

chip == <<count, pin, puk, keys>>
session == <<open, age>>
call == <<req, step, left, since, resp>>
vars == <<count, pin, puk, keys, open, age, req, step, left, since, resp,
          wrong, proven, owed>>

(***************************************************************************)
(* The order in which each method issues its chip commands.                *)
(***************************************************************************)
Follow ==
  [ VerifyPin |-> [ counter |-> "serial", serial |-> "checkmac",
                    checkmac |-> "refresh0", refresh0 |-> "bump0",
                    bump0 |-> "open", open |-> "idle" ],
    SetPin    |-> [ counter |-> "serial", serial |-> "checkmac",
                    checkmac |-> "write_pin", write_pin |-> "refresh0",
                    refresh0 |-> "bump0", bump0 |-> "open", open |-> "idle" ],
    UnblockPin |-> [ counter |-> "serial", serial |-> "checkmac",
                    checkmac |-> "write_pin", write_pin |-> "refresh1",
                    refresh1 |-> "bump1", bump1 |-> "refresh0",
                    refresh0 |-> "bump0", bump0 |-> "idle" ],
    SetPuk    |-> [ session |-> "counter", counter |-> "serial",
                    serial |-> "checkmac", checkmac |-> "write_puk",
                    write_puk |-> "refresh1", refresh1 |-> "bump1",
                    bump1 |-> "touch", touch |-> "idle" ],
    EmergencyReset |-> [ counter |-> "serial", serial |-> "genkey",
                    genkey |-> "random", random |-> "write_puk",
                    write_puk |-> "refresh1", refresh1 |-> "bump1",
                    bump1 |-> "write_pin", write_pin |-> "refresh0",
                    refresh0 |-> "bump0", bump0 |-> "idle" ],
    GenKey    |-> [ genkey |-> "idle" ],
    Sign      |-> [ session |-> "sign", sign |-> "touch", touch |-> "idle" ] ]

Kinds == DOMAIN Follow
PinKinds == {"VerifyPin", "SetPin"}
PukKinds == {"UnblockPin", "SetPuk"}

(* The counter that limits the slot a method runs CheckMac against. *)
Guarding(kind) == IF kind \in PinKinds THEN "Counter0" ELSE "Counter1"

(* The counters a method refreshes once it has proved its right to. *)
Refreshes(kind) ==
  CASE kind \in PinKinds  -> {"Counter0"}
    [] kind = "SetPuk"    -> {"Counter1"}
    [] kind \in {"UnblockPin", "EmergencyReset"} -> Counters
    [] OTHER              -> {}

Stored(c) == IF c = "Counter0" THEN pin ELSE puk

Tries(c) == retries_remaining(count[c], batch_size(c))

is_active == open /\ age < SessionTimeout

NoReq  == [kind |-> "None", cand |-> Malformed, new |-> Malformed,
           slot |-> 1]
NoResp == [kind |-> "None", status |-> "None"]

Init ==
  /\ count = [c \in Counters |-> 0]
  /\ pin = DefaultPin
  /\ puk \in Puks
  /\ keys = [s \in 1..EccSlots |-> "owner"]
  /\ open = FALSE
  /\ age = 0
  /\ req = NoReq
  /\ step = "idle"
  /\ left = 0
  /\ since = 0
  /\ resp = NoResp
  /\ wrong = [c \in Counters |-> 0]
  /\ proven = "nothing"
  /\ owed = {}
-----------------------------------------------------------------------------
(* What is remembered of an answer: whether it was Ok, and of an Ok whether *)
(* a reset ended with it.                                                   *)
Answer(kind, status) ==
  [kind   |-> IF kind = "EmergencyReset" /\ status = "Ok" THEN kind ELSE "None",
   status |-> IF status = "Ok" THEN status ELSE "Error"]

(* Return from the method with a status. *)
Finish(status) ==
  /\ step' = "idle"
  /\ req' = NoReq
  /\ left' = 0
  /\ since' = 0
  /\ resp' = Answer(req.kind, status)
  /\ proven' = "nothing"

(* Fall through to the next command of the method, or return Ok. *)
Proceed ==
  IF Follow[req.kind][step] = "idle"
  THEN Finish("Ok")
  ELSE /\ step' = Follow[req.kind][step]
       /\ UNCHANGED <<req, left, since, resp, proven>>

(***************************************************************************)
(* A chip command whose effect took place: the reply arrives, or (an I2C   *)
(* error, or an error of the closing idle) it does not and the method      *)
(* returns early.                                                          *)
(***************************************************************************)
ReplyLost == Faulty /\ Finish("Atecc")

Start(kind, cand, new, slot, first) ==
  /\ step = "idle"
  /\ req' = [kind |-> kind, cand |-> cand, new |-> new, slot |-> slot]
  /\ step' = first
  /\ resp' = NoResp
  /\ UNCHANGED <<chip, session, left, since, wrong, proven, owed>>

verify_pin == \E p \in Pins : Start("VerifyPin", p, Malformed, 1, "counter")

set_pin == \E old, new \in Pins : Start("SetPin", old, new, 1, "counter")

(* Variant: the new PIN goes unvalidated. *)
unblock_pin_Unchecked == \E p \in Puks, new \in Pins \cup {Malformed} :
  Start("UnblockPin", p, new, 1, "counter")

unblock_pin == \E p \in Puks, new \in Pins :
  Start("UnblockPin", p, new, 1, "counter")

set_puk == \E old, new \in Puks : Start("SetPuk", old, new, 1, "session")

emergency_reset == Start("EmergencyReset", Malformed, DefaultPin, 1, "counter")

genkey_create == \E s \in 1..EccSlots :
  Start("GenKey", Malformed, Malformed, s, "genkey")

(* No step below depends on the slot that signs. *)
sign == Start("Sign", Malformed, Malformed, 1, "session")

(* validate_digits refuses an argument before anything is read or written. *)
validate_digits ==
  /\ step = "idle"
  /\ resp' = Answer("None", "InvalidFormat")
  /\ UNCHANGED <<chip, session, req, step, left, since, wrong, proven, owed>>

close_session ==
  /\ step = "idle"
  /\ open' = FALSE
  /\ age' = 0
  /\ resp' = Answer("CloseSession", "Ok")
  /\ UNCHANGED <<chip, req, step, left, since, wrong, proven, owed>>
-----------------------------------------------------------------------------
(* set_puk and sign read the clock and require an active session. *)
CheckSession ==
  /\ step = "session"
  /\ IF is_active THEN Proceed ELSE Finish("PinRequired")
  /\ UNCHANGED <<chip, session, wrong, owed>>

(* Variant: the method does not stop when no attempt is left. *)
CheckTries_NoGate ==
  /\ step = "counter" /\ req.kind # "EmergencyReset"
  /\ Proceed
  /\ UNCHANGED <<chip, session, wrong, owed>>

(* The early read of the counter behind the credential to be checked. *)
CheckTries ==
  /\ step = "counter" /\ req.kind # "EmergencyReset"
  /\ IF Tries(Guarding(req.kind)) = 0
     THEN Finish(IF req.kind \in PinKinds THEN "PinBlocked" ELSE "Bricked")
     ELSE Proceed
  /\ UNCHANGED <<chip, session, wrong, owed>>

(* Variant: one saturated counter is enough. *)
CheckSaturated_Either ==
  /\ step = "counter" /\ req.kind = "EmergencyReset"
  /\ IF \E c \in Counters : Tries(c) = 0
     THEN /\ step' = "serial"
          /\ proven' = "saturation"
          /\ wrong' = [c \in Counters |-> 0]
          /\ owed' = Counters
          /\ UNCHANGED <<req, left, since, resp>>
     ELSE /\ Finish("EmergencyResetNotPermitted")
          /\ UNCHANGED <<wrong, owed>>
  /\ UNCHANGED <<chip, session>>

(* emergency_reset reads both counters and requires both to be saturated. *)
CheckSaturated ==
  /\ step = "counter" /\ req.kind = "EmergencyReset"
  /\ IF \A c \in Counters : Tries(c) = 0
     THEN /\ step' = "serial"
          /\ proven' = "saturation"
          /\ wrong' = [c \in Counters |-> 0]
          /\ owed' = Counters
          /\ UNCHANGED <<req, left, since, resp>>
     ELSE /\ Finish("EmergencyResetNotPermitted")
          /\ UNCHANGED <<wrong, owed>>
  /\ UNCHANGED <<chip, session>>

(* Variant: the loop over the identity slots misses one. *)
cached_serial_Short ==
  /\ step = "serial"
  /\ IF Follow[req.kind].serial = "genkey"
     THEN /\ step' = "genkey"
          /\ left' = EccSlots - 1
          /\ UNCHANGED <<req, since, resp, proven>>
     ELSE Proceed
  /\ UNCHANGED <<chip, session, wrong, owed>>

(* The serial, read from the config zone or from the service's cache. *)
cached_serial ==
  /\ step = "serial"
  /\ IF Follow[req.kind].serial = "genkey"
     THEN /\ step' = "genkey"
          /\ left' = EccSlots
          /\ UNCHANGED <<req, since, resp, proven>>
     ELSE Proceed
  /\ UNCHANGED <<chip, session, wrong, owed>>

(***************************************************************************)
(* CheckMac.  The chip counts the attempt whatever its outcome, refuses to *)
(* run once the counter is at its limit, and reports a match or a miss.    *)
(* After a miss the service reads the counter again for its answer.        *)
(***************************************************************************)
RightSecret == req.cand = Stored(Guarding(req.kind))

CheckMacRight ==
  LET c == Guarding(req.kind) IN
  /\ step = "checkmac" /\ count[c] < CounterMax /\ RightSecret
  /\ count' = [count EXCEPT ![c] = @ + 1]
  /\ wrong' = [d \in Counters |-> IF d \in Refreshes(req.kind) THEN 0 ELSE wrong[d]]
  /\ owed' = owed \cup Refreshes(req.kind)
  /\ \/ /\ step' = Follow[req.kind].checkmac
        /\ proven' = IF c = "Counter0" THEN "pin" ELSE "puk"
        /\ UNCHANGED <<req, left, since, resp>>
     \/ ReplyLost
  /\ UNCHANGED <<pin, puk, keys, session>>

(* Variant: the outcome of CheckMac is ignored. *)
CheckMacWrong_Ignored ==
  LET c == Guarding(req.kind) IN
  /\ step = "checkmac" /\ count[c] < CounterMax /\ ~RightSecret
  /\ count' = [count EXCEPT ![c] = @ + 1]
  /\ wrong' = [wrong EXCEPT ![c] = @ + 1]
  /\ step' = Follow[req.kind].checkmac
  /\ UNCHANGED <<req, left, since, resp, proven>>
  /\ UNCHANGED <<pin, puk, keys, session, owed>>

CheckMacWrong ==
  LET c == Guarding(req.kind) IN
  /\ step = "checkmac" /\ count[c] < CounterMax /\ ~RightSecret
  /\ count' = [count EXCEPT ![c] = @ + 1]
  /\ wrong' = [wrong EXCEPT ![c] = @ + 1]
  /\ \/ Finish(IF c = "Counter0" THEN "PinIncorrect" ELSE "PukIncorrect")
     \/ ReplyLost
  /\ UNCHANGED <<pin, puk, keys, session, owed>>

CheckMacExhausted ==
  /\ step = "checkmac" /\ count[Guarding(req.kind)] = CounterMax
  /\ Finish("Atecc")
  /\ UNCHANGED <<chip, session, wrong, owed>>

(***************************************************************************)
(* write_slot_encrypted.  The chip accepts a write only if its MAC was     *)
(* built with the I/O key it holds.  The host's I/O key has no other use,  *)
(* so whether it is right is chosen where it first shows: at the first     *)
(* encrypted write of the method (write_puk in emergency_reset).           *)
(***************************************************************************)
WritePin ==
  /\ step = "write_pin"
  /\ pin' = req.new
  /\ Proceed \/ ReplyLost
  /\ UNCHANGED <<count, puk, keys, session, wrong, owed>>

WritePuk ==
  /\ step = "write_puk"
  /\ \E new \in Puks :
       /\ req.kind = "SetPuk" => new = req.new
       /\ puk' = new
  /\ Proceed \/ ReplyLost
  /\ UNCHANGED <<count, pin, keys, session, wrong, owed>>

WriteRefused ==
  /\ WrongIoKey
  /\ step = "write_puk" \/ (step = "write_pin" /\ req.kind # "EmergencyReset")
  /\ Finish("Atecc")
  /\ UNCHANGED <<chip, session, wrong, owed>>

(***************************************************************************)
(* refresh_counter_batch: one read that fixes the number of increments,    *)
(* then the increments one by one.                                         *)
(***************************************************************************)
RefreshCounter == IF step \in {"refresh0", "bump0"} THEN "Counter0" ELSE "Counter1"

RefreshRead ==
  /\ step \in {"refresh0", "refresh1"}
  /\ left' = LET c == RefreshCounter IN refresh_bumps(count[c], batch_size(c))
  /\ step' = Follow[req.kind][step]
  /\ UNCHANGED <<chip, session, req, since, resp, wrong, proven, owed>>

RefreshBump ==
  LET c == RefreshCounter IN
  /\ step \in {"bump0", "bump1"} /\ left > 0 /\ count[c] < CounterMax
  /\ count' = [count EXCEPT ![c] = @ + 1]
  /\ \/ left' = left - 1 /\ UNCHANGED <<req, step, since, resp, proven>>
     \/ ReplyLost
  /\ UNCHANGED <<pin, puk, keys, session, wrong, owed>>

(* On to the next command of the method, or its Ok. *)
EndRefresh ==
  IF Follow[req.kind][step] = "idle" THEN Finish("Ok")
  ELSE /\ step' = Follow[req.kind][step]
       /\ left' = 0
       /\ UNCHANGED <<req, since, resp, proven>>

RefreshDone ==
  /\ step \in {"bump0", "bump1"} /\ left = 0
  /\ owed' = owed \ {RefreshCounter}
  /\ EndRefresh
  /\ UNCHANGED <<chip, session, wrong>>

(***************************************************************************)
(* The chip refuses an increment, at its hardware limit or with any other  *)
(* ExecutionError: refresh_counter_batch gives up where the counter stands *)
(* and answers Ok.                                                         *)
(***************************************************************************)
RefreshRefused ==
  /\ step \in {"bump0", "bump1"} /\ left > 0
  /\ Faulty \/ count[RefreshCounter] = CounterMax
  /\ EndRefresh
  /\ UNCHANGED <<chip, session, wrong, owed>>

OpenSession ==
  /\ step = "open"
  /\ open' = TRUE
  /\ age' = 0
  /\ Finish("Ok")
  /\ UNCHANGED <<chip, wrong, owed>>

(* Session::touch with the time read at the start of the method. *)
TouchSession ==
  /\ step = "touch"
  /\ age' = IF open THEN since ELSE age
  /\ Finish("Ok")
  /\ UNCHANGED <<chip, open, wrong, owed>>

(* genkey_create on one slot, or the reset's loop over the identity slots. *)
GenKeySlot ==
  /\ step = "genkey" /\ req.kind = "GenKey"
  /\ keys' = [keys EXCEPT ![req.slot] = "fresh"]
  /\ Proceed \/ ReplyLost
  /\ UNCHANGED <<count, pin, puk, session, wrong, owed>>

GenKeyLoop ==
  /\ step = "genkey" /\ req.kind = "EmergencyReset" /\ left > 0
  /\ keys' = [keys EXCEPT ![EccSlots - left + 1] = "fresh"]
  /\ \/ /\ left' = left - 1
        /\ step' = IF left = 1 THEN "random" ELSE "genkey"
        /\ UNCHANGED <<req, since, resp, proven>>
     \/ ReplyLost
  /\ UNCHANGED <<count, pin, puk, session, wrong, owed>>

(* generate_random_puk, and the chip part of sign. *)
ChipCompute ==
  /\ step \in {"random", "sign"}
  /\ Proceed
  /\ UNCHANGED <<chip, session, wrong, owed>>
-----------------------------------------------------------------------------
(* A chip command fails before it takes effect: "?" returns early.  (Of an *)
(* increment: any error but ExecutionError, or the close after that one.)  *)
ChipFault ==
  /\ Faulty
  /\ step \notin {"idle", "session", "open", "touch"}
  /\ Finish("Atecc")
  /\ UNCHANGED <<chip, session, wrong, owed>>

(* Unplugging the token: RAM is lost, the chip keeps its memory. *)
PowerLoss ==
  /\ Faulty
  /\ open' = FALSE
  /\ age' = 0
  /\ req' = NoReq
  /\ step' = "idle"
  /\ left' = 0
  /\ since' = 0
  /\ resp' = NoResp
  /\ proven' = "nothing"
  /\ UNCHANGED <<chip, wrong, owed>>

Older(t) == IF t < SessionTimeout THEN t + 1 ELSE t

Tick ==
  /\ open
  /\ age' = Older(age)
  /\ since' = IF req.kind \in {"SetPuk", "Sign"} /\ step # "session"
              THEN Older(since) ELSE since
  /\ UNCHANGED <<chip, open, req, step, left, resp, wrong, proven, owed>>

Request ==
  \/ verify_pin \/ set_pin \/ unblock_pin \/ set_puk \/ emergency_reset
  \/ genkey_create \/ sign \/ validate_digits \/ close_session

ServiceStep ==
  \/ CheckSession \/ CheckTries \/ CheckSaturated \/ cached_serial
  \/ CheckMacRight \/ CheckMacWrong \/ CheckMacExhausted
  \/ WritePin \/ WritePuk \/ WriteRefused
  \/ RefreshRead \/ RefreshBump \/ RefreshDone \/ RefreshRefused
  \/ OpenSession \/ TouchSession \/ GenKeySlot \/ GenKeyLoop \/ ChipCompute

Next == Request \/ ServiceStep \/ ChipFault \/ PowerLoss \/ Tick

Spec == Init /\ [][Next]_vars
-----------------------------------------------------------------------------
Secrets == Pins \cup Puks \cup {Malformed}

Requests == [kind : Kinds \cup {"None"}, cand : Secrets, new : Secrets,
             slot : 1..EccSlots]

Statuses == {"None", "Ok", "InvalidFormat", "PinRequired", "PinBlocked",
             "Bricked", "PinIncorrect", "PukIncorrect",
             "EmergencyResetNotPermitted", "Atecc", "Error"}

(***************************************************************************)
(* Type invariant: the counters stay within the hardware limit, and the    *)
(* method in progress is always at one of its own commands.                *)
(***************************************************************************)
TypeOK ==
  /\ count \in [Counters -> 0..CounterMax]
  /\ pin \in Pins
  /\ puk \in Puks
  /\ keys \in [1..EccSlots -> {"owner", "fresh"}]
  /\ open \in BOOLEAN
  /\ age \in 0..SessionTimeout
  /\ req \in Requests
  /\ req.kind \in {"SetPin", "UnblockPin", "EmergencyReset"} => req.new \in Pins
  /\ IF req.kind = "None" THEN step = "idle" ELSE step \in DOMAIN Follow[req.kind]
  /\ left \in Nat
  /\ since \in 0..SessionTimeout
  /\ resp \in [kind : Kinds \cup {"None", "CloseSession"}, status : Statuses]
  /\ wrong \in [Counters -> Nat]
  /\ proven \in {"nothing", "pin", "puk", "saturation"}
  /\ owed \subseteq Counters

(***************************************************************************)
(* The lockout promise: wrong secrets presented since a right one, plus    *)
(* the attempts the token still grants, never exceed one batch, whatever   *)
(* the order of commands, I/O errors, lost replies and power losses        *)
(* (verify_pin, refresh_counter_batch, retries_remaining).                 *)
(***************************************************************************)
GuessBudget == \A c \in Counters : wrong[c] + Tries(c) <= batch_size(c)

(***************************************************************************)
(* The attempts reported are exact: a batch (the first one) or a batch     *)
(* less the refresh's own increment, minus the wrong secrets presented     *)
(* since.  Chip errors, lost replies, refused writes and power losses      *)
(* spoil the count of no credential but one whose refresh was earned and   *)
(* did not complete, and the next refresh that completes mends it          *)
(* (retries_remaining, refresh_counter_batch).                             *)
(***************************************************************************)
TriesExact ==
  \A c \in Counters \ owed :
    wrong[c] + Tries(c) \in {batch_size(c) - 1, batch_size(c)}

(***************************************************************************)
(* An emergency_reset that answers Ok has replaced every identity key and  *)
(* restored the default PIN.                                               *)
(***************************************************************************)
ResetComplete ==
  resp = [kind |-> "EmergencyReset", status |-> "Ok"] =>
    /\ pin = DefaultPin
    /\ \A s \in 1..EccSlots : keys[s] = "fresh"

(***************************************************************************)
(* An identity key is destroyed only by an explicit GenKey on its slot or  *)
(* while both counters are saturated (the guarantee that emergency_reset   *)
(* is not a back door).                                                    *)
(***************************************************************************)
KeysSafe ==
  [][\A s \in 1..EccSlots :
       keys[s] = "owner" /\ keys'[s] # "owner" =>
         \/ req.kind = "GenKey" /\ req.slot = s
         \/ \A c \in Counters : count[c] > 0 /\ count[c] % batch_size(c) = 0]_vars
-----------------------------------------------------------------------------
(***************************************************************************)
(* The parts of the inductive invariants behind GuessBudget, TriesExact    *)
(* and KeysSafe.                                                           *)
(***************************************************************************)

(* Between the early read of the counter and CheckMac an attempt is left. *)
Gated ==
  req.kind \in PinKinds \cup PukKinds /\ step \in {"serial", "checkmac"} =>
    Tries(Guarding(req.kind)) # 0

(* What a method must have proved before its first change to the chip. *)
Proof(kind) ==
  CASE kind \in PinKinds -> "pin"
    [] kind \in PukKinds -> "puk"
    [] kind = "EmergencyReset" -> "saturation"
    [] OTHER -> "nothing"

Proved ==
  /\ step \in {"random", "write_pin", "write_puk", "refresh0", "bump0",
               "refresh1", "bump1", "open"} => proven = Proof(req.kind)
  /\ req.kind = "EmergencyReset" /\ step # "counter" => proven = "saturation"
  /\ \/ step \in {"idle", "session", "counter", "checkmac"}
     \/ step = "serial" /\ req.kind # "EmergencyReset"
     => proven = "nothing"
  /\ proven # "nothing" => \A c \in Refreshes(req.kind) : wrong[c] = 0

BudgetInv == TypeOK /\ GuessBudget /\ Gated /\ Proved

(* A refresh that nothing interrupts ends on remainder 1, within the *)
(* hardware limit.                                                   *)
Landing ==
  /\ step = "bump0" => /\ (count["Counter0"] + left) % PIN_MAX_RETRIES = 1
                       /\ count["Counter0"] + left <= CounterMax
  /\ step = "bump1" => /\ (count["Counter1"] + left) % PUK_MAX_RETRIES = 1
                       /\ count["Counter1"] + left <= CounterMax

(* The refreshes a method has yet to make, all of them owed. *)
Due(kind, at) ==
  {c \in Refreshes(kind) :
     IF c = "Counter0" THEN at # "open"
     ELSE /\ at \notin {"refresh0", "bump0", "touch"}
          /\ ~ (kind = "EmergencyReset" /\ at = "write_pin")}

Owing == proven # "nothing" => Due(req.kind, step) \subseteq owed

ExactInv == TriesExact /\ Landing /\ Owing

(* The counters emergency_reset found saturated still are when it starts *)
(* to destroy keys.                                                      *)
StillSaturated ==
  req.kind = "EmergencyReset" /\ step \in {"serial", "genkey"} =>
    \A c \in Counters : Tries(c) = 0

(* What emergency_reset has done so far, and that no answer stands while a *)
(* request is in progress.                                                 *)
ResetSoFar ==
  /\ step # "idle" => resp = NoResp
  /\ req.kind = "EmergencyReset" =>
       /\ req.new = DefaultPin
       /\ step = "genkey" =>
            left \in 1..EccSlots /\ \A s \in 1..EccSlots - left : keys[s] = "fresh"
       /\ step \notin {"counter", "serial", "genkey"} =>
            \A s \in 1..EccSlots : keys[s] = "fresh"
       /\ step \in {"refresh0", "bump0"} => pin = DefaultPin

ResetInv == TypeOK /\ ResetComplete /\ ResetSoFar
-----------------------------------------------------------------------------
(***************************************************************************)
(* The service implements the policy: PIN and PUK change only behind a     *)
(* proof, a wrong secret always finds an attempt left, only the PIN opens  *)
(* a session.                                                              *)
(***************************************************************************)
Policy == INSTANCE PinPolicy WITH
  Slots <- 1..EccSlots,
  Limit <- [c \in Counters |-> batch_size(c)],
  tries <- [c \in Counters |-> Tries(c)]

ImplementsPolicy == Policy!Spec
=============================================================================
