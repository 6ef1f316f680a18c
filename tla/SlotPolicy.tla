----------------------------- MODULE SlotPolicy -----------------------------
(***************************************************************************)
(* The service against the policy of the slots: what each method may and   *)
(* may not do to a token whose configuration zone holds config-generator's *)
(* words.  A method is the chip commands it issues, in order; the first    *)
(* one the chip refuses ends it.  Retry counters are PinService's: here a  *)
(* counter has tries left or has none.                                     *)
(***************************************************************************)
EXTENDS Integers, Sequences

Zone  == INSTANCE ConfigZone
Slots == Zone!Slots

CONSTANT AskedSlots      \* the slots hosts name in their requests

ASSUME AskedAssumption == AskedSlots \subseteq Slots

SLOT_PIN_HASH == 5
SLOT_PUK_HASH == 6
SLOT_IO_KEY   == 8

SlotConfig(s) == Zone!describe_slot_config(Zone!slot_config_for(s))
KeyConfig(s)  == Zone!describe_key_config(Zone!key_config_for(s))
KeySlots      == {s \in Slots : KeyConfig(s).Private}

VARIABLES
  dataLocked,  \* chip: LockValue
  frozen,      \* chip: slots locked one by one
  verified,    \* chip: slots whose CheckMac succeeded, forgotten when it sleeps
  out,         \* chip: credential slots with no tries left
  awake,       \* chip: left awake by a dropped channel
  session,     \* service: the PIN session is active
  method,      \* service: the method called
  plan,        \* service: chip commands it has still to issue
  owed,        \* history: who has a claim to the call, nothing having failed
  outcome,     \* history: how the last method ended
  shaky        \* history: a CheckMac failed or the chip slept since the PIN's

chip == <<dataLocked, frozen, verified, out, awake>>
vars == <<chip, session, method, plan, owed, outcome, shaky>>

Step(op, slot, right) == [op |-> op, slot |-> slot, right |-> right]

Init ==
  /\ dataLocked = FALSE /\ frozen = {} /\ verified = {} /\ out = {} /\ awake = FALSE
  /\ session = FALSE /\ method = "none" /\ plan = <<>>
  /\ owed = "nobody" /\ outcome = "none" /\ shaky = FALSE

-----------------------------------------------------------------------------
(* The methods, past the checks that end them without a chip command that  *)
(* matters: no tries left, no session.  pin, puk and io say whether the    *)
(* caller has the right one.                                               *)
Call(name, steps, claim) ==
  /\ method = "none"
  /\ method' = name /\ plan' = steps /\ owed' = claim
  /\ outcome' = "none"
  /\ UNCHANGED <<chip, session, shaky>>

Owner(entitled) == IF entitled THEN "owner" ELSE "nobody"

CheckMac(slot, right)     == Step("CheckMac", slot, right)
write_slot_encrypted(slot, io) == Step("WriteEncrypted", slot, io)

verify_pin(pin) ==
  /\ SLOT_PIN_HASH \notin out
  /\ Call("verify_pin", <<CheckMac(SLOT_PIN_HASH, pin)>>, Owner(pin))

set_pin(pin, io) ==
  /\ SLOT_PIN_HASH \notin out
  /\ Call("set_pin", <<CheckMac(SLOT_PIN_HASH, pin), write_slot_encrypted(SLOT_PIN_HASH, io)>>,
          Owner(pin /\ io /\ dataLocked))

unblock_pin(puk, io) ==
  /\ SLOT_PUK_HASH \notin out
  /\ Call("unblock_pin",
          <<CheckMac(SLOT_PUK_HASH, puk), write_slot_encrypted(SLOT_PIN_HASH, io)>>,
          Owner(puk /\ io /\ dataLocked))

set_puk(puk, io) ==
  /\ session /\ SLOT_PUK_HASH \notin out
  /\ Call("set_puk", <<CheckMac(SLOT_PUK_HASH, puk), write_slot_encrypted(SLOT_PUK_HASH, io)>>,
          Owner(puk /\ io /\ dataLocked))

sign(slot) == session /\ Call("sign", <<Step("Sign", slot, TRUE)>>, "nobody")

genkey_create(slot) == Call("genkey_create", <<Step("GenKey", slot, TRUE)>>, "nobody")

(* Keys first, then the PUK, then the PIN.  Neither CheckMac nor session.  *)
(* On a locked token with no slot frozen, the right I/O key is all it asks.*)
emergency_reset(io) ==
  /\ out = {SLOT_PIN_HASH, SLOT_PUK_HASH}
  /\ Call("emergency_reset",
          [i \in 1..6 |-> Step("GenKey", <<0, 1, 2, 3, 4, 7>>[i], TRUE)]
            \o <<write_slot_encrypted(SLOT_PUK_HASH, io), write_slot_encrypted(SLOT_PIN_HASH, io)>>,
          IF io /\ dataLocked /\ frozen = {} THEN "reset" ELSE "nobody")

(* provision_initial_pin, _puk and _io_key end in this one. *)
provision_slot(slot) ==
  /\ slot \in {SLOT_PIN_HASH, SLOT_PUK_HASH, SLOT_IO_KEY}
  /\ Call("provision_slot", <<Step("Write", slot, TRUE)>>, "nobody")

read_slot_block(slot) == Call("read_slot_block", <<Step("Read", slot, TRUE)>>, "nobody")

lock_data_zone  == Call("lock_data_zone", <<Step("LockData", 0, TRUE)>>, "nobody")
lock_slot(slot) == Call("lock_slot", <<Step("LockSlot", slot, TRUE)>>, "nobody")

-----------------------------------------------------------------------------
(* External: the chip's rule for a command, from the meaning blob.rs gives *)
(* the bits.  Whether a use needs its CheckMac already before the data     *)
(* zone is locked is left open.                                            *)
Authorised(s) == KeyConfig(s).ReqAuth => KeyConfig(s).AuthKey \in verified

(* The writes a WriteConfig lets through. *)
Accepts(policy) ==
  CASE policy = "Always"              -> IF dataLocked THEN {} ELSE {"Write"}
    [] policy = "Always_then_Encrypt" -> IF dataLocked THEN {"WriteEncrypted"} ELSE {"Write"}
    [] policy = "Encrypt"             -> {"WriteEncrypted"}
    [] policy = "Never_then_Encrypt"  -> IF dataLocked THEN {"WriteEncrypted"} ELSE {}
    [] OTHER                          -> {}

Allows(c) ==
  LET s == c.slot
  IN  CASE c.op = "GenKey" ->
             /\ s \in KeySlots /\ SlotConfig(s).GenKey /\ s \notin frozen
             /\ dataLocked => Authorised(s)
        [] c.op = "Sign" -> s \in KeySlots /\ (dataLocked => Authorised(s))
        [] c.op = "Write" ->
             "Write" \in Accepts(SlotConfig(s).WriteConfig) /\ s \notin frozen
        [] c.op = "WriteEncrypted" ->
             /\ "WriteEncrypted" \in Accepts(SlotConfig(s).WriteConfig) /\ s \notin frozen
             /\ c.right /\ SlotConfig(s).WriteKey = SLOT_IO_KEY
        [] c.op = "Read"     -> ~SlotConfig(s).IsSecret
        [] c.op = "LockData" -> ~dataLocked
        [] c.op = "LockSlot" -> KeyConfig(s).Lockable /\ s \notin frozen
        [] c.op = "CheckMac" -> c.right

MayRefuse(c) == ~dataLocked /\ c.op \in {"GenKey", "Sign"} /\ ~Authorised(c.slot)

(* What an accepted command does.  A CheckMac may use up the last try. *)
Effect(c) ==
  /\ dataLocked' = (dataLocked \/ c.op = "LockData")
  /\ frozen' = IF c.op = "LockSlot" THEN frozen \cup {c.slot} ELSE frozen
  /\ verified' = IF c.op = "CheckMac" THEN verified \cup {c.slot} ELSE verified
  /\ out' \in IF c.op = "CheckMac" THEN {out, out \cup {c.slot}} ELSE {out}
  /\ shaky' = (shaky /\ ~(c.op = "CheckMac" /\ c.slot = SLOT_PIN_HASH))

(* The methods that open the session when they succeed. *)
OpensSession_Unblock(name) == name \in {"verify_pin", "set_pin", "unblock_pin"}

OpensSession(name) == name \in {"verify_pin", "set_pin"}

(* refresh_counter_batch at the end of a method gives new tries. *)
Refreshed(name) ==
  CASE name \in {"verify_pin", "set_pin"}        -> {SLOT_PIN_HASH}
    [] name = "set_puk"                          -> {SLOT_PUK_HASH}
    [] name \in {"unblock_pin", "emergency_reset"} -> {SLOT_PIN_HASH, SLOT_PUK_HASH}
    [] OTHER                                     -> {}

(* The channel is closed: the chip idles and forgets nothing. *)
Accept ==
  /\ plan # <<>> /\ Allows(Head(plan))
  /\ Effect(Head(plan)) /\ awake' = FALSE
  /\ plan' = Tail(plan)
  /\ outcome' = IF Tail(plan) = <<>> THEN "ok" ELSE "none"
  /\ UNCHANGED <<session, method, owed>>

(* The method returns once its plan is done. *)
Return ==
  /\ method # "none" /\ plan = <<>>
  /\ out' = out \ Refreshed(method)
  /\ session' = (session \/ OpensSession(method))
  /\ method' = "none"
  /\ UNCHANGED <<dataLocked, frozen, verified, awake, plan, owed, outcome, shaky>>

(* An increment fails on the bus: the counter stays where it is.           *)
(* refresh_counter_batch closes its channel, or tries to.                  *)
RefreshFails ==
  /\ plan = <<>> /\ Refreshed(method) # {}
  /\ \E s \in SUBSET Refreshed(method) : s # Refreshed(method) /\ out' = out \ s
  /\ awake' \in BOOLEAN
  /\ method' = "none" /\ outcome' = "failed" /\ owed' = "nobody"
  /\ UNCHANGED <<dataLocked, frozen, verified, session, plan, shaky>>

(* After a refused CheckMac or lock the channel is closed; after any other *)
(* command it is dropped.                                                  *)
Closes(c) == c.op \in {"CheckMac", "LockData", "LockSlot"}

(* A failed CheckMac uses a try and may undo what earlier ones proved. *)
Refuse ==
  /\ plan # <<>> /\ (~Allows(Head(plan)) \/ MayRefuse(Head(plan)))
  /\ LET c == Head(plan)
     IN  /\ out' \in IF c.op = "CheckMac" THEN {out, out \cup {c.slot}} ELSE {out}
         /\ verified' \in IF c.op = "CheckMac" THEN {verified, {}} ELSE {verified}
         /\ shaky' = (shaky \/ c.op = "CheckMac")
         /\ awake' = ~Closes(c)
  /\ plan' = <<>> /\ outcome' = "refused" /\ method' = "none"
  /\ UNCHANGED <<dataLocked, frozen, session, owed>>

(* The bus fails, after the chip has done the command or before, with the  *)
(* chip awake or not.                                                      *)
Fail ==
  /\ plan # <<>>
  /\ \/ Allows(Head(plan)) /\ Effect(Head(plan))
     \/ UNCHANGED <<dataLocked, frozen, verified, out, shaky>>
  /\ awake' \in BOOLEAN
  /\ plan' = <<>> /\ outcome' = "failed" /\ method' = "none" /\ owed' = "nobody"
  /\ UNCHANGED session

(* External: the watchdog puts a chip that was left awake to sleep, and it *)
(* forgets who has proved what.  Nobody tells the service.                 *)
Sleep ==
  /\ awake
  /\ awake' = FALSE /\ verified' = {} /\ shaky' = TRUE
  /\ UNCHANGED <<dataLocked, frozen, out, session, method, plan, owed, outcome>>

(* close_session, or 30 s without use. *)
close_session ==
  /\ session
  /\ session' = FALSE
  /\ UNCHANGED <<chip, method, plan, owed, outcome, shaky>>

PowerCycle ==
  /\ verified' = {} /\ awake' = FALSE /\ session' = FALSE /\ shaky' = FALSE
  /\ plan' = <<>> /\ method' = "none" /\ outcome' = "none" /\ owed' = "nobody"
  /\ UNCHANGED <<dataLocked, frozen, out>>

Next ==
  \/ \E right, io \in BOOLEAN :
       \/ verify_pin(right) \/ set_pin(right, io) \/ unblock_pin(right, io)
       \/ set_puk(right, io) \/ emergency_reset(io)
  \/ \E s \in AskedSlots :
       \/ sign(s) \/ genkey_create(s) \/ provision_slot(s) \/ read_slot_block(s) \/ lock_slot(s)
  \/ lock_data_zone \/ close_session
  \/ Accept \/ Return \/ RefreshFails \/ Refuse \/ Fail \/ Sleep \/ PowerCycle

Spec == Init /\ [][Next]_vars

-----------------------------------------------------------------------------
(* Whoever gives the right PIN or PUK, and I/O key, to a token with tries  *)
(* left is not refused, whatever slots were locked, sessions lost and      *)
(* methods cut short before.  That the secrets given are the ones the chip *)
(* holds is assumed: a reset that failed half-way may have set a PUK       *)
(* nobody was told.                                                        *)
OwnerGetsIn == ~(owed = "owner" /\ outcome = "refused")

(* The session stands for the chip's own record of the PIN: while one is   *)
(* active, the chip refuses a signature with a private key only if, since  *)
(* the PIN's last CheckMac, another CheckMac failed or a failing method    *)
(* left the chip awake and it went to sleep.  (Then it does, and the       *)
(* session stays active: the service asks its own clock only.)             *)
SignServed ==
  [][/\ plan # <<>> /\ Head(plan).op = "Sign" /\ Head(plan).slot \in KeySlots
     /\ outcome' = "refused"
     => shaky]_vars

(* What the protocol document and emergency_reset's own comment say: with  *)
(* both batches exhausted and the right I/O key, no PIN is required, and   *)
(* the keys are replaced.  The chip refuses the first GenKey: ReqAuth.     *)
ResetServed == ~(owed = "reset" /\ outcome = "refused")
-----------------------------------------------------------------------------
(***************************************************************************)
(* The parts of the inductive invariant behind the properties.             *)
(***************************************************************************)
Credentials == {SLOT_PIN_HASH, SLOT_PUK_HASH}

ChipCommands ==
  [ op    : {"CheckMac", "WriteEncrypted", "Sign", "GenKey", "Write", "Read", "LockData",
             "LockSlot"},
    slot  : Slots,
    right : BOOLEAN ]

PlanOK == plan \in Seq(ChipCommands) /\ (plan # <<>> => outcome = "none")

(* No slot of a credential can be locked. *)
CredentialsUnlocked == frozen \cap Credentials = {}

(* What is left of a method its caller may expect to succeed is allowed. *)
OwedAllowed ==
  owed = "owner" => \A i \in 1..Len(plan) :
    /\ plan[i].right /\ plan[i].slot \in Credentials
    /\ plan[i].op = "CheckMac" \/ (plan[i].op = "WriteEncrypted" /\ dataLocked)

(* The chip has the PIN's CheckMac on record, or the record is shaky. *)
Backed == SLOT_PIN_HASH \in verified \/ shaky

(* A method that opens the session has the PIN's CheckMac ahead or passed. *)
PinFirst ==
  OpensSession(method) =>
    \/ Backed
    \/ plan # <<>> /\ Head(plan).op = "CheckMac" /\ Head(plan).slot = SLOT_PIN_HASH

(* So does a session, and a signature that was begun in one. *)
SessionBacked == session => Backed

SignBacked == \A i \in 1..Len(plan) : plan[i].op = "Sign" => Backed

SlotInv ==
  /\ PlanOK /\ CredentialsUnlocked /\ OwedAllowed /\ PinFirst
  /\ SessionBacked /\ SignBacked /\ OwnerGetsIn
=============================================================================
