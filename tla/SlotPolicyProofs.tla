-------------------------- MODULE SlotPolicyProofs --------------------------
(***************************************************************************)
(* What config-generator's words guarantee against the service's methods,  *)
(* for every set of slots that hosts name.                                 *)
(***************************************************************************)
EXTENDS SlotPolicy, SequenceTheorems, TLAPS

(***************************************************************************)
(* The generator's words, slot by slot.                                    *)
(***************************************************************************)
LEMMA SlotWords ==
  ASSUME NEW s \in Slots
  PROVE  /\ s \in {0, 1} => Zone!slot_config_for(s) = 8577
         /\ s \in {5, 6} => Zone!slot_config_for(s) = 18600
         /\ s = 8 => Zone!slot_config_for(s) = 128
         /\ s \notin {0, 1, 5, 6, 8} => Zone!slot_config_for(s) = 9089
  BY DEF Zone!slot_config_for, Zone!SLOT_CFG_ECC_GENKEY_ONLY, Zone!SLOT_CFG_DATA_PIN_PUK,
         Zone!SLOT_CFG_DATA_IO_KEY, Zone!SLOT_CFG_ECC_GENKEY_OR_IMPORT

LEMMA KeyWords ==
  ASSUME NEW s \in Slots
  PROVE  /\ s \in {0, 1} => Zone!key_config_for(s) = 1427
         /\ s \in {5, 6, 8} => Zone!key_config_for(s) = 28
         /\ s \notin {0, 1, 5, 6, 8} => Zone!key_config_for(s) = 1459
  BY DEF Zone!key_config_for, Zone!KEY_CFG_ECC_LOCKABLE_OFF, Zone!KEY_CFG_DATA_GENERIC,
         Zone!KEY_CFG_ECC_LOCKABLE_ON

(* The write policy of the credentials (bits 12 to 15). *)
LEMMA WritePolicy == Zone!WriteConfigs[Zone!Bits(18600, 12, 4)] = "Always_then_Encrypt"
  <1>1. Zone!Bits(18600, 12, 4) = 4
    BY DEF Zone!Bits
  <1>2. Zone!WriteConfigs[4] = "Always_then_Encrypt"
    BY DEF Zone!WriteConfigs
  <1> QED BY <1>1, <1>2

(* The fields of a slot are bits of its words. *)
LEMMA SlotFields ==
  ASSUME NEW s
  PROVE  LET w == Zone!slot_config_for(s)
             k == Zone!key_config_for(s)
         IN  /\ SlotConfig(s).WriteKey = Zone!Bits(w, 8, 4)
             /\ SlotConfig(s).WriteConfig = Zone!WriteConfigs[Zone!Bits(w, 12, 4)]
             /\ KeyConfig(s).Private <=> Zone!Bits(k, 0, 1) = 1
             /\ KeyConfig(s).Lockable <=> Zone!Bits(k, 5, 1) = 1
             /\ KeyConfig(s).ReqAuth <=> Zone!Bits(k, 7, 1) = 1
             /\ KeyConfig(s).AuthKey = Zone!Bits(k, 8, 4)
  BY DEF SlotConfig, KeyConfig, Zone!describe_slot_config, Zone!describe_key_config

(***************************************************************************)
(* The policy the words amount to: private keys ask for the PIN's CheckMac *)
(* and for no other; the credentials are written with the I/O key and      *)
(* cannot be locked.                                                       *)
(***************************************************************************)
LEMMA Policy ==
  ASSUME NEW s \in Slots
  PROVE  /\ s \in KeySlots => KeyConfig(s).AuthKey = SLOT_PIN_HASH
         /\ s \in Credentials =>
              /\ s \notin KeySlots /\ ~ KeyConfig(s).Lockable
              /\ SlotConfig(s).WriteConfig = "Always_then_Encrypt"
              /\ SlotConfig(s).WriteKey = SLOT_IO_KEY
  <1> USE SlotFields DEF KeySlots, SLOT_PIN_HASH, SLOT_PUK_HASH, SLOT_IO_KEY, Credentials
  <1>1. CASE s \in {0, 1}
    <2>1. Zone!Bits(1427, 8, 4) = 5
      BY DEF Zone!Bits
    <2> QED BY <1>1, <2>1, KeyWords
  <1>2. CASE s \in {5, 6}
    <2>1. /\ Zone!Bits(18600, 8, 4) = 8
          /\ Zone!Bits(28, 0, 1) = 0 /\ Zone!Bits(28, 5, 1) = 0
      BY DEF Zone!Bits
    <2> QED BY <1>2, <2>1, SlotWords, KeyWords, WritePolicy
  <1>3. CASE s = 8
    <2>1. Zone!Bits(28, 0, 1) = 0
      BY DEF Zone!Bits
    <2> QED BY <1>3, <2>1, KeyWords
  <1>4. CASE s \notin {0, 1, 5, 6, 8}
    <2>1. Zone!Bits(1459, 8, 4) = 5
      BY DEF Zone!Bits
    <2> QED BY <1>4, <2>1, KeyWords
  <1> QED BY <1>1, <1>2, <1>3, <1>4

-----------------------------------------------------------------------------
(***************************************************************************)
(* What follows for the commands: the chip locks no credential, refuses no *)
(* command on one to who has what it takes, and signs for who has the PIN  *)
(* on record.                                                              *)
(***************************************************************************)
LEMMA LocksNoCredential ==
  ASSUME NEW c \in ChipCommands, Allows(c), c.op = "LockSlot"
  PROVE  c.slot \notin Credentials
  <1>1. c.slot \in Slots
    BY DEF ChipCommands
  <1>2. KeyConfig(c.slot).Lockable
    BY DEF Allows
  <1> QED BY <1>1, <1>2, Policy

LEMMA RightIsAllowed ==
  ASSUME CredentialsUnlocked, NEW c \in ChipCommands, c.right, c.slot \in Credentials,
         c.op = "CheckMac" \/ (c.op = "WriteEncrypted" /\ dataLocked)
  PROVE  Allows(c) /\ ~ MayRefuse(c)
  <1>1. ~ MayRefuse(c)
    BY DEF MayRefuse
  <1>2. CASE c.op = "CheckMac"
    BY <1>1, <1>2 DEF Allows
  <1>3. CASE c.op = "WriteEncrypted"
    <2>1. c.slot \notin frozen /\ c.slot \in Slots
      BY DEF CredentialsUnlocked, ChipCommands
    <2>2. /\ SlotConfig(c.slot).WriteConfig = "Always_then_Encrypt"
          /\ SlotConfig(c.slot).WriteKey = SLOT_IO_KEY
      BY <2>1, Policy
    <2>3. "WriteEncrypted" \in Accepts("Always_then_Encrypt")
      BY <1>3 DEF Accepts
    <2> QED BY <1>1, <1>3, <2>1, <2>2, <2>3 DEF Allows
  <1> QED BY <1>2, <1>3

LEMMA SignAllowed ==
  ASSUME SLOT_PIN_HASH \in verified, NEW c \in ChipCommands, c.op = "Sign", c.slot \in KeySlots
  PROVE  Allows(c) /\ ~ MayRefuse(c)
  <1>1. Authorised(c.slot)
    BY Policy DEF Authorised, ChipCommands
  <1> QED BY <1>1 DEF Allows, MayRefuse

LEMMA EffectKeeps ==
  ASSUME SlotInv, NEW c \in ChipCommands, Allows(c), Effect(c)
  PROVE  /\ CredentialsUnlocked'
         /\ dataLocked => dataLocked'
         /\ Backed => Backed'
         /\ c.op = "CheckMac" /\ c.slot = SLOT_PIN_HASH => Backed'
  <1>1. CredentialsUnlocked'
    BY LocksNoCredential DEF Effect, SlotInv, CredentialsUnlocked
  <1> QED BY <1>1 DEF Effect, Backed

-----------------------------------------------------------------------------
(* A command still due to a caller with a claim to it. *)
Due(c) ==
  /\ c.right /\ c.slot \in Credentials
  /\ c.op = "CheckMac" \/ (c.op = "WriteEncrypted" /\ dataLocked)

(* A call keeps the invariant if its plan is well formed. *)
LEMMA CallStep ==
  ASSUME SlotInv, NEW name, NEW steps \in Seq(ChipCommands), NEW claim,
         Call(name, steps, claim),
         claim = "owner" => \A i \in 1..Len(steps) : Due(steps[i]),
         \A i \in 1..Len(steps) : steps[i].op = "Sign" => session,
         OpensSession(name) =>
           steps # <<>> /\ Head(steps).op = "CheckMac" /\ Head(steps).slot = SLOT_PIN_HASH
  PROVE  SlotInv'
  <1>1. PlanOK' /\ CredentialsUnlocked'
    BY DEF Call, PlanOK, SlotInv, CredentialsUnlocked, chip
  <1>2. OwedAllowed' /\ PinFirst'
    BY DEF Call, OwedAllowed, PinFirst, Due, chip
  <1>3. SessionBacked' /\ SignBacked'
    BY DEF Call, SlotInv, SessionBacked, SignBacked, Backed, chip
  <1>4. OwnerGetsIn'
    BY DEF Call, OwnerGetsIn
  <1> QED BY <1>1, <1>2, <1>3, <1>4 DEF SlotInv

(* The plans of one and of two commands. *)
LEMMA OneCommand ==
  ASSUME NEW c \in ChipCommands
  PROVE  /\ <<c>> \in Seq(ChipCommands) /\ <<c>> # <<>> /\ Head(<<c>>) = c
         /\ Due(c) => \A i \in 1..Len(<<c>>) : Due(<<c>>[i])
         /\ \A i \in 1..Len(<<c>>) : <<c>>[i] = c
  <1>1. \A i \in 1..Len(<<c>>) : <<c>>[i] = c
    OBVIOUS
  <1> QED BY <1>1

LEMMA TwoCommands ==
  ASSUME NEW c \in ChipCommands, NEW d \in ChipCommands
  PROVE  /\ <<c, d>> \in Seq(ChipCommands) /\ <<c, d>> # <<>> /\ Head(<<c, d>>) = c
         /\ Due(c) /\ Due(d) => \A i \in 1..Len(<<c, d>>) : Due(<<c, d>>[i])
         /\ \A i \in 1..Len(<<c, d>>) : <<c, d>>[i] \in {c, d}
  <1>1. \A i \in 1..Len(<<c, d>>) : <<c, d>>[i] \in {c, d}
    OBVIOUS
  <1> QED BY <1>1

LEMMA CommandsTyped ==
  ASSUME NEW s \in Slots, NEW b \in BOOLEAN
  PROVE  \A op \in {"CheckMac", "WriteEncrypted", "Sign", "GenKey", "Write", "Read", "LockData",
                    "LockSlot"} : Step(op, s, b) \in ChipCommands
  BY DEF Step, ChipCommands

(* Methods that prove a credential and then write one. *)
LEMMA CredentialCalls ==
  ASSUME SlotInv, NEW right \in BOOLEAN, NEW io \in BOOLEAN,
         verify_pin(right) \/ set_pin(right, io) \/ unblock_pin(right, io) \/ set_puk(right, io)
  PROVE  SlotInv'
  <1> DEFINE check(s) == CheckMac(s, right)
             write(s) == write_slot_encrypted(s, io)
  <1>1. \A s \in Credentials : check(s) \in ChipCommands /\ write(s) \in ChipCommands
    BY CommandsTyped
       DEF CheckMac, write_slot_encrypted, Credentials, SLOT_PIN_HASH, SLOT_PUK_HASH, Slots,
           Zone!Slots
  <1>2. \A s \in Credentials :
          /\ check(s).op = "CheckMac" /\ check(s).slot = s /\ write(s).op = "WriteEncrypted"
          /\ right => Due(check(s))
          /\ io /\ dataLocked => Due(write(s))
    BY DEF CheckMac, write_slot_encrypted, Step, Due
  <1>3. SLOT_PIN_HASH \in Credentials /\ SLOT_PUK_HASH \in Credentials
    BY DEF Credentials
  <1>4. /\ Owner(right) = "owner" => right
        /\ Owner(right /\ io /\ dataLocked) = "owner" => right /\ io /\ dataLocked
    BY DEF Owner
  <1> HIDE DEF check, write
  <1>5. ASSUME NEW name, NEW s \in Credentials, NEW t \in Credentials,
               OpensSession(name) => s = SLOT_PIN_HASH,
               Call(name, <<check(s), write(t)>>, Owner(right /\ io /\ dataLocked))
        PROVE  SlotInv'
    <2>1. \A i \in 1..Len(<<check(s), write(t)>>) : <<check(s), write(t)>>[i].op # "Sign"
      BY <1>1, <1>2, TwoCommands
    <2>2. Owner(right /\ io /\ dataLocked) = "owner" =>
            \A i \in 1..Len(<<check(s), write(t)>>) : Due(<<check(s), write(t)>>[i])
      BY <1>1, <1>2, <1>4, TwoCommands
    <2>3. /\ <<check(s), write(t)>> \in Seq(ChipCommands) /\ <<check(s), write(t)>> # <<>>
          /\ Head(<<check(s), write(t)>>) = check(s)
      BY <1>1, TwoCommands
    <2> QED BY <1>2, <1>5, <2>1, <2>2, <2>3, CallStep
  <1>6. CASE verify_pin(right)
    <2> DEFINE c == check(SLOT_PIN_HASH)
    <2>1. Call("verify_pin", <<c>>, Owner(right))
      BY <1>6 DEF verify_pin, check
    <2>2. /\ c \in ChipCommands /\ c.op = "CheckMac" /\ c.slot = SLOT_PIN_HASH
          /\ Owner(right) = "owner" => Due(c)
      BY <1>1, <1>2, <1>3, <1>4
    <2> HIDE DEF c
    <2>3. \A i \in 1..Len(<<c>>) : <<c>>[i] = c
      BY <2>2, OneCommand
    <2>4. <<c>> \in Seq(ChipCommands) /\ <<c>> # <<>> /\ Head(<<c>>) = c
      BY <2>2, OneCommand
    <2> QED BY <2>1, <2>2, <2>3, <2>4, CallStep
  <1>7. CASE set_pin(right, io)
    <2>1. Call("set_pin", <<check(SLOT_PIN_HASH), write(SLOT_PIN_HASH)>>,
               Owner(right /\ io /\ dataLocked))
      BY <1>7 DEF set_pin, check, write
    <2> QED BY <2>1, <1>3, <1>5
  <1>8. CASE unblock_pin(right, io)
    <2>1. Call("unblock_pin", <<check(SLOT_PUK_HASH), write(SLOT_PIN_HASH)>>,
               Owner(right /\ io /\ dataLocked))
      BY <1>8 DEF unblock_pin, check, write
    <2>2. ~ OpensSession("unblock_pin")
      BY DEF OpensSession
    <2> QED BY <2>1, <2>2, <1>3, <1>5
  <1>9. CASE set_puk(right, io)
    <2>1. Call("set_puk", <<check(SLOT_PUK_HASH), write(SLOT_PUK_HASH)>>,
               Owner(right /\ io /\ dataLocked))
      BY <1>9 DEF set_puk, check, write
    <2>2. ~ OpensSession("set_puk")
      BY DEF OpensSession
    <2> QED BY <2>1, <2>2, <1>3, <1>5
  <1> QED BY <1>6, <1>7, <1>8, <1>9

(* The methods of one command that promise nothing. *)
LEMMA PlainCalls ==
  ASSUME SlotInv,
         lock_data_zone
           \/ \E s \in AskedSlots : \/ sign(s) \/ genkey_create(s) \/ provision_slot(s)
                                    \/ read_slot_block(s) \/ lock_slot(s)
  PROVE  SlotInv'
  <1>1. ASSUME NEW name \in {"sign", "genkey_create", "provision_slot", "read_slot_block",
                             "lock_slot", "lock_data_zone"},
               NEW op \in {"Sign", "GenKey", "Write", "Read", "LockSlot", "LockData"},
               NEW s \in Slots, Call(name, <<Step(op, s, TRUE)>>, "nobody"),
               op = "Sign" => session
        PROVE  SlotInv'
    <2>1. Step(op, s, TRUE) \in ChipCommands
      BY CommandsTyped
    <2>2. ~ OpensSession(name) /\ Step(op, s, TRUE).op = op
      BY DEF OpensSession, Step
    <2> QED BY <1>1, <2>1, <2>2, OneCommand, CallStep
  <1>2. CASE lock_data_zone
    <2>1. 0 \in Slots
      BY DEF Slots, Zone!Slots
    <2> QED BY <1>1, <1>2, <2>1 DEF lock_data_zone
  <1>3. ASSUME NEW s \in AskedSlots,
               \/ sign(s) \/ genkey_create(s) \/ provision_slot(s)
               \/ read_slot_block(s) \/ lock_slot(s)
        PROVE  SlotInv'
    <2>1. s \in Slots
      BY AskedAssumption
    <2>2. CASE sign(s)
      BY <1>1, <2>1, <2>2 DEF sign
    <2>3. CASE genkey_create(s)
      BY <1>1, <2>1, <2>3 DEF genkey_create
    <2>4. CASE provision_slot(s)
      BY <1>1, <2>1, <2>4 DEF provision_slot
    <2>5. CASE read_slot_block(s)
      BY <1>1, <2>1, <2>5 DEF read_slot_block
    <2>6. CASE lock_slot(s)
      BY <1>1, <2>1, <2>6 DEF lock_slot
    <2> QED BY <1>3, <2>2, <2>3, <2>4, <2>5, <2>6
  <1> QED BY <1>2, <1>3

LEMMA ResetCall ==
  ASSUME SlotInv, NEW io \in BOOLEAN, emergency_reset(io)
  PROVE  SlotInv'
  <1> DEFINE gens   == [i \in 1..6 |-> Step("GenKey", <<0, 1, 2, 3, 4, 7>>[i], TRUE)]
             writes == <<write_slot_encrypted(SLOT_PUK_HASH, io),
                         write_slot_encrypted(SLOT_PIN_HASH, io)>>
  <1>1. gens \in Seq(ChipCommands)
    <2>1. \A i \in 1..6 : <<0, 1, 2, 3, 4, 7>>[i] \in Slots
      BY DEF Slots, Zone!Slots
    <2>2. \A i \in 1..6 : gens[i] \in ChipCommands
      BY <2>1, CommandsTyped
    <2>3. gens \in [1..6 -> ChipCommands]
      BY <2>2
    <2>4. Seq(ChipCommands) = UNION {[1..n -> ChipCommands] : n \in Nat}
      BY SeqDef
    <2>5. 6 \in Nat
      OBVIOUS
    <2> HIDE DEF gens
    <2> QED BY <2>3, <2>4, <2>5, Zenon
  <1>2. writes \in Seq(ChipCommands)
    BY CommandsTyped
       DEF write_slot_encrypted, SLOT_PIN_HASH, SLOT_PUK_HASH, Slots, Zone!Slots
  <1>3. \E claim \in {"reset", "nobody"} : Call("emergency_reset", gens \o writes, claim)
    BY DEF emergency_reset
  <1>4. ~ OpensSession("emergency_reset")
    BY DEF OpensSession
  <1>5. Len(gens) = 6 /\ \A i \in 1..6 : gens[i].op = "GenKey"
    BY DEF Step
  <1>6. Len(writes) = 2 /\ \A i \in 1..2 : writes[i].op = "WriteEncrypted"
    BY DEF write_slot_encrypted, Step
  <1> HIDE DEF gens, writes
  <1>7. /\ gens \o writes \in Seq(ChipCommands)
        /\ \A i \in 1..Len(gens \o writes) : (gens \o writes)[i].op # "Sign"
    <2>1. /\ gens \o writes \in Seq(ChipCommands)
          /\ Len(gens \o writes) = Len(gens) + Len(writes)
          /\ \A i \in 1..Len(gens) + Len(writes) :
               (gens \o writes)[i] = IF i <= Len(gens) THEN gens[i] ELSE writes[i - Len(gens)]
      BY <1>1, <1>2, ConcatProperties, Zenon
    <2>2. SUFFICES ASSUME NEW i \in 1..8 PROVE (gens \o writes)[i].op # "Sign"
      BY <2>1, <1>5, <1>6
    <2>3. CASE i <= 6
      <3>1. (gens \o writes)[i] = gens[i] /\ i \in 1..6
        BY <2>1, <2>3, <1>5, <1>6
      <3> QED BY <3>1, <1>5
    <2>4. CASE ~ (i <= 6)
      <3>1. (gens \o writes)[i] = writes[i - 6] /\ i - 6 \in 1..2
        BY <2>1, <2>4, <1>5, <1>6
      <3> QED BY <3>1, <1>6
    <2> QED BY <2>3, <2>4
  <1> QED BY <1>3, <1>4, <1>7, CallStep

-----------------------------------------------------------------------------
(* Between methods nothing is planned and nothing owed. *)
LEMMA NothingPlanned ==
  ASSUME plan' = <<>>, owed' # "owner", method' = "none"
  PROVE  PlanOK' /\ OwedAllowed' /\ PinFirst' /\ SignBacked'
  <1>1. <<>> \in Seq(ChipCommands) /\ \A i \in 1..Len(<<>>) : FALSE
    OBVIOUS
  <1>2. OwedAllowed' /\ SignBacked'
    BY <1>1 DEF OwedAllowed, SignBacked
  <1> QED BY <1>1, <1>2 DEF PlanOK, PinFirst, OpensSession

(* Every step of the methods, of the chip and of the bus keeps it. *)
LEMMA SlotInvStep == SlotInv /\ [Next]_vars => SlotInv'
  <1> SUFFICES ASSUME SlotInv, [Next]_vars PROVE SlotInv'
    OBVIOUS
  <1>0. plan # <<>> => Head(plan) \in ChipCommands /\ Tail(plan) \in Seq(ChipCommands)
    BY DEF SlotInv, PlanOK
  <1>1. ASSUME NEW right \in BOOLEAN, NEW io \in BOOLEAN,
               \/ verify_pin(right) \/ set_pin(right, io) \/ unblock_pin(right, io)
               \/ set_puk(right, io) \/ emergency_reset(io)
        PROVE  SlotInv'
    BY <1>1, CredentialCalls, ResetCall
  <1>2. CASE Accept
    <2> DEFINE c == Head(plan)
    <2>1. c \in ChipCommands /\ Allows(c) /\ Effect(c)
      BY <1>0, <1>2 DEF Accept
    <2>2. /\ plan # <<>> /\ plan' = Tail(plan)
          /\ outcome' = IF Tail(plan) = <<>> THEN "ok" ELSE "none"
          /\ UNCHANGED <<session, method, owed>>
      BY <1>2 DEF Accept
    <2> HIDE DEF c
    <2>3. CredentialsUnlocked' /\ (Backed => Backed')
      BY <2>1, EffectKeeps
    <2>4. PlanOK' /\ OwnerGetsIn'
      BY <1>0, <2>2 DEF SlotInv, PlanOK, OwnerGetsIn
    <2>5. \A i \in 1..Len(Tail(plan)) : i + 1 \in 1..Len(plan) /\ Tail(plan)[i] = plan[i + 1]
      BY <2>2 DEF SlotInv, PlanOK
    <2>6. OwedAllowed'
      <3> SUFFICES ASSUME owed = "owner", NEW i \in 1..Len(Tail(plan))
                   PROVE  LET d == Tail(plan)[i]
                          IN  /\ d.right /\ d.slot \in Credentials
                              /\ d.op = "CheckMac" \/ (d.op = "WriteEncrypted" /\ dataLocked')
        BY <2>2 DEF OwedAllowed
      <3>1. Due(plan[i + 1])
        BY <2>5 DEF SlotInv, OwedAllowed, Due
      <3>2. dataLocked => dataLocked'
        BY <2>1, EffectKeeps
      <3> QED BY <2>5, <3>1, <3>2 DEF Due
    <2>7. PinFirst'
      BY <2>1, <2>2, EffectKeeps DEF SlotInv, PinFirst, c
    <2>8. SessionBacked' /\ SignBacked'
      BY <2>2, <2>3, <2>5 DEF SlotInv, SessionBacked, SignBacked
    <2> QED BY <2>3, <2>4, <2>6, <2>7, <2>8 DEF SlotInv
  <1>3. CASE Return
    <2>1. /\ plan = <<>> /\ method' = "none"
          /\ session' = (session \/ OpensSession(method))
          /\ UNCHANGED <<dataLocked, frozen, verified, plan, owed, outcome, shaky>>
      BY <1>3 DEF Return
    <2>2. SessionBacked' /\ SignBacked'
      BY <2>1 DEF SlotInv, SessionBacked, SignBacked, PinFirst, Backed
    <2> QED BY <2>1, <2>2
            DEF SlotInv, PlanOK, CredentialsUnlocked, OwedAllowed, PinFirst, OpensSession,
                OwnerGetsIn
  <1>4. CASE RefreshFails
    <2>1. /\ plan' = <<>> /\ owed' = "nobody" /\ method' = "none" /\ outcome' = "failed"
          /\ UNCHANGED <<frozen, verified, session, shaky>>
      BY <1>4 DEF RefreshFails
    <2> QED BY <2>1, NothingPlanned
            DEF SlotInv, CredentialsUnlocked, SessionBacked, Backed, OwnerGetsIn
  <1>5. CASE Refuse
    <2> DEFINE c == Head(plan)
    <2>1. /\ plan # <<>> /\ (~ Allows(c) \/ MayRefuse(c))
          /\ plan' = <<>> /\ method' = "none"
          /\ verified' \in (IF c.op = "CheckMac" THEN {verified, {}} ELSE {verified})
          /\ shaky' = (shaky \/ c.op = "CheckMac")
          /\ UNCHANGED <<dataLocked, frozen, session, owed>>
      BY <1>5 DEF Refuse
    <2>2. owed # "owner"
      <3> SUFFICES ASSUME owed = "owner" PROVE FALSE
        OBVIOUS
      <3>1. 1 \in 1..Len(plan) /\ plan[1] = c
        BY <2>1 DEF SlotInv, PlanOK
      <3>2. Due(c)
        BY <3>1 DEF SlotInv, OwedAllowed, Due
      <3> QED BY <1>0, <2>1, <3>2, RightIsAllowed DEF SlotInv, Due
    <2>3. PlanOK' /\ OwedAllowed' /\ PinFirst' /\ SignBacked'
      BY <2>1, <2>2, NothingPlanned
    <2>4. CredentialsUnlocked' /\ OwnerGetsIn'
      BY <2>1, <2>2 DEF SlotInv, CredentialsUnlocked, OwnerGetsIn
    <2>5. SessionBacked'
      BY <2>1 DEF SlotInv, SessionBacked, Backed
    <2> QED BY <2>3, <2>4, <2>5 DEF SlotInv
  <1>6. CASE Fail
    <2>1. /\ plan # <<>> /\ plan' = <<>> /\ outcome' = "failed" /\ method' = "none"
          /\ owed' = "nobody" /\ UNCHANGED session
      BY <1>6 DEF Fail
    <2>2. PlanOK' /\ OwedAllowed' /\ PinFirst' /\ SignBacked' /\ OwnerGetsIn'
      BY <2>1, NothingPlanned DEF OwnerGetsIn
    <2>3. CASE Allows(Head(plan)) /\ Effect(Head(plan))
      <3>1. CredentialsUnlocked' /\ SessionBacked'
        BY <1>0, <2>1, <2>3, EffectKeeps DEF SlotInv, SessionBacked
      <3> QED BY <2>2, <3>1 DEF SlotInv
    <2>4. CASE UNCHANGED <<dataLocked, frozen, verified, out, shaky>>
      <3>1. CredentialsUnlocked' /\ SessionBacked'
        BY <2>1, <2>4 DEF SlotInv, CredentialsUnlocked, SessionBacked, Backed
      <3> QED BY <2>2, <3>1 DEF SlotInv
    <2> QED BY <1>6, <2>3, <2>4 DEF Fail
  <1>7. CASE close_session
    BY <1>7 DEF close_session, chip, SlotInv, PlanOK, CredentialsUnlocked, OwedAllowed, PinFirst,
                SessionBacked, SignBacked, Backed, OwnerGetsIn
  <1>8. CASE PowerCycle
    <2>1. /\ plan' = <<>> /\ owed' = "nobody" /\ method' = "none" /\ outcome' = "none"
          /\ session' = FALSE /\ UNCHANGED frozen
      BY <1>8 DEF PowerCycle
    <2> QED BY <2>1, NothingPlanned
            DEF SlotInv, CredentialsUnlocked, SessionBacked, OwnerGetsIn
  <1>9. CASE UNCHANGED vars
    BY <1>9 DEF vars, chip, SlotInv, PlanOK, CredentialsUnlocked, OwedAllowed, PinFirst,
                SessionBacked, SignBacked, Backed, OwnerGetsIn
  <1>12. CASE Sleep
    <2>1. /\ shaky' = TRUE
          /\ UNCHANGED <<dataLocked, frozen, session, method, plan, owed, outcome>>
      BY <1>12 DEF Sleep
    <2> QED BY <2>1 DEF SlotInv, PlanOK, CredentialsUnlocked, OwedAllowed, PinFirst,
                        SessionBacked, SignBacked, Backed, OwnerGetsIn
  <1>10. ASSUME NEW s \in AskedSlots,
                \/ sign(s) \/ genkey_create(s) \/ provision_slot(s)
                \/ read_slot_block(s) \/ lock_slot(s)
         PROVE  SlotInv'
    BY <1>10, PlainCalls
  <1>11. CASE lock_data_zone
    BY <1>11, PlainCalls
  <1> QED BY <1>1, <1>2, <1>3, <1>4, <1>5, <1>6, <1>7, <1>8, <1>9, <1>10, <1>11, <1>12 DEF Next

(***************************************************************************)
(* The inductive invariant holds of every behaviour.                       *)
(***************************************************************************)
THEOREM SlotInvHolds == Spec => []SlotInv
  <1>1. Init => SlotInv
    <2> SUFFICES ASSUME Init PROVE SlotInv
      OBVIOUS
    <2>1. plan = <<>> /\ <<>> \in Seq(ChipCommands) /\ \A i \in 1..Len(<<>>) : FALSE
      BY DEF Init
    <2>2. PlanOK /\ OwedAllowed /\ SignBacked
      BY <2>1 DEF PlanOK, OwedAllowed, SignBacked
    <2>3. CredentialsUnlocked /\ PinFirst /\ SessionBacked /\ OwnerGetsIn
      BY DEF Init, CredentialsUnlocked, PinFirst, OpensSession, SessionBacked, OwnerGetsIn
    <2> QED BY <2>2, <2>3 DEF SlotInv
  <1> QED BY <1>1, SlotInvStep, PTL DEF Spec

(***************************************************************************)
(* verify_pin, set_pin, unblock_pin and set_puk are never refused to who   *)
(* gives the credentials the chip holds while tries are left.              *)
(***************************************************************************)
THEOREM OwnerGetsInHolds == Spec => []OwnerGetsIn
  <1>1. SlotInv => OwnerGetsIn
    BY DEF SlotInv
  <1> QED BY <1>1, SlotInvHolds, PTL

(***************************************************************************)
(* sign, past the service's check of its session, is refused by the chip   *)
(* only after a failed CheckMac or a sleep.                                *)
(***************************************************************************)
THEOREM SignServedHolds == Spec => SignServed
  <1> DEFINE Served ==
        /\ plan # <<>> /\ Head(plan).op = "Sign" /\ Head(plan).slot \in KeySlots
        /\ outcome' = "refused"
        => shaky
  <1>1. SlotInv /\ [Next]_vars => [Served]_vars
    <2> SUFFICES ASSUME SlotInv, Next, ~ (UNCHANGED vars), plan # <<>>, Head(plan).op = "Sign",
                        Head(plan).slot \in KeySlots, outcome' = "refused", ~ shaky
                 PROVE  FALSE
      OBVIOUS
    <2>1. Head(plan) \in ChipCommands /\ 1 \in 1..Len(plan) /\ plan[1] = Head(plan)
      BY DEF SlotInv, PlanOK
    <2>2. SLOT_PIN_HASH \in verified
      BY <2>1 DEF SlotInv, SignBacked, Backed
    <2>3. Allows(Head(plan)) /\ ~ MayRefuse(Head(plan))
      BY <2>1, <2>2, SignAllowed
    <2>4. ~ Refuse
      BY <2>3 DEF Refuse
    <2>5. UNCHANGED <<plan, outcome>> \/ outcome' \in {"none", "ok", "failed"}
      BY <2>4, Zenon
         DEF Next, Call, verify_pin, set_pin, unblock_pin, set_puk, emergency_reset, sign,
             genkey_create, provision_slot, read_slot_block, lock_slot, lock_data_zone,
             close_session, Accept, Return, RefreshFails, Fail, Sleep, PowerCycle
    <2>6. outcome = "none"
      BY DEF SlotInv, PlanOK
    <2> QED BY <2>5, <2>6
  <1> QED BY <1>1, SlotInvHolds, PTL DEF Spec, SignServed
=============================================================================
