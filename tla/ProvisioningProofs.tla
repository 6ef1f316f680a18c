------------------------- MODULE ProvisioningProofs -------------------------
(***************************************************************************)
(* Provisioning and locking for any finite number of overlapping hsm-host  *)
(* processes, any choice of commands and any failures.                     *)
(***************************************************************************)
EXTENDS Provisioning, FiniteSetTheorems, TLAPS

(* At most one image per element. *)
LEMMA ImageBound ==
  ASSUME NEW S, IsFiniteSet(S), NEW f, NEW T, f \in Surjection(S, T)
  PROVE  IsFiniteSet(T) /\ Cardinality(T) <= Cardinality(S)
  BY FS_Surjection

(* Union adds cardinalities at most. *)
LEMMA UnionBound ==
  ASSUME NEW S, NEW T, IsFiniteSet(S), IsFiniteSet(T), NEW m \in Nat, NEW n \in Nat,
         Cardinality(S) <= m, Cardinality(T) <= n
  PROVE  IsFiniteSet(S \cup T) /\ Cardinality(S \cup T) <= m + n
  <1>1. /\ Cardinality(S) \in Nat /\ Cardinality(T) \in Nat
        /\ IsFiniteSet(S \cap T) /\ Cardinality(S \cap T) \in Nat
    BY FS_CardinalityType, FS_Intersection
  <1>2. /\ IsFiniteSet(S \cup T)
        /\ Cardinality(S \cup T) = Cardinality(S) + Cardinality(T) - Cardinality(S \cap T)
    BY FS_Union
  <1> QED BY <1>1, <1>2

LEMMA PairBound ==
  ASSUME NEW x, NEW y
  PROVE  IsFiniteSet({x, y}) /\ Cardinality({x, y}) <= 2
  <1> DEFINE S == {x}
             T == {y}
  <1>1. {x, y} = S \cup T
    OBVIOUS
  <1>2. IsFiniteSet(S) /\ Cardinality(S) = 1 /\ IsFiniteSet(T) /\ Cardinality(T) = 1
    BY FS_Singleton
  <1> HIDE DEF S, T
  <1>3. Cardinality(S) <= 1 /\ Cardinality(T) <= 1
    BY <1>2
  <1>4. IsFiniteSet(S \cup T) /\ Cardinality(S \cup T) <= 1 + 1
    BY <1>2, <1>3, UnionBound
  <1> QED BY <1>1, <1>4

(***************************************************************************)
(* The chip always finds a secret that is nowhere around.                  *)
(***************************************************************************)
LEMMA DrawnFresh ==
  ASSUME TypeOK, PinSlotPublic
  PROVE  Drawn \in Secrets
  <1> DEFINE ios   == [c \in Clis |-> held[c].io]
             puks  == [c \in Clis |-> held[c].puk]
             inIos == {ios[c] : c \in Clis}
             inPuks == {puks[c] : c \in Clis}
             inSlots == {slot[SLOT_PUK_HASH], slot[SLOT_IO_KEY]}
             inFile == {file.io, file.puk}
             N == Cardinality(Clis)
             used == (inIos \cup inPuks) \cup (inSlots \cup inFile)
  <1>1. IsFiniteSet(Clis) /\ N \in Nat
    BY ProvisioningAssumption, FS_CardinalityType
  <1>2. /\ IsFiniteSet(inIos) /\ Cardinality(inIos) <= N
        /\ IsFiniteSet(inPuks) /\ Cardinality(inPuks) <= N
    <2>1. ios \in Surjection(Clis, inIos) /\ puks \in Surjection(Clis, inPuks)
      BY DEF Surjection
    <2> HIDE DEF inIos, inPuks, ios, puks
    <2> QED BY <1>1, <2>1, ImageBound
  <1>3. /\ IsFiniteSet(inSlots) /\ Cardinality(inSlots) <= 2
        /\ IsFiniteSet(inFile) /\ Cardinality(inFile) <= 2
    BY PairBound
  <1>4. IsFiniteSet(used) /\ Cardinality(used) <= 2 * N + 4
    <2> HIDE DEF inIos, inPuks, inSlots, inFile, N
    <2>1. IsFiniteSet(inIos \cup inPuks) /\ Cardinality(inIos \cup inPuks) <= N + N
      BY <1>1, <1>2, UnionBound
    <2>2. IsFiniteSet(inSlots \cup inFile) /\ Cardinality(inSlots \cup inFile) <= 2 + 2
      BY <1>3, UnionBound
    <2>3. N + N \in Nat /\ 2 + 2 \in Nat /\ N + N + (2 + 2) = 2 * N + 4
      BY <1>1
    <2> QED BY <2>1, <2>2, <2>3, UnionBound
  <1>5. \E s \in Secrets : s \notin used
    <2> HIDE DEF used, N
    <2>1. ~ (Secrets \subseteq used)
      <3> SUFFICES ASSUME Secrets \subseteq used PROVE FALSE
        OBVIOUS
      <3>1. Cardinality(Secrets) <= Cardinality(used)
        BY <1>4, FS_Subset
      <3>2. Cardinality(Secrets) \in Nat /\ Cardinality(used) \in Nat
        BY <1>4, ProvisioningAssumption, FS_CardinalityType
      <3>3. Cardinality(Secrets) > 2 * N + 4
        BY ProvisioningAssumption DEF N
      <3> QED BY <1>1, <1>4, <3>1, <3>2, <3>3
    <2> QED BY <2>1
  <1>6. PICK s \in Secrets : s \notin used
    BY <1>5
  <1>7. /\ \A x \in SecretSlots : slot[x] # s
        /\ file # Nil => s \notin {file.io, file.puk}
        /\ \A c \in Clis : s \notin {held[c].io, held[c].puk}
    <2>1. slot[SLOT_PIN_HASH] # s
      BY ProvisioningAssumption DEF PinSlotPublic
    <2>2. \A c \in Clis : ios[c] # s /\ puks[c] # s
      BY <1>6
    <2> QED BY <1>6, <2>1, <2>2 DEF SecretSlots
  <1> QED BY <1>7 DEF Drawn

-----------------------------------------------------------------------------
(***************************************************************************)
(* The processes: how each way of going on leaves the one that goes on and *)
(* all the others.                                                         *)
(***************************************************************************)
ControlOK ==
  /\ cmd \in [Clis -> Commands \cup {"None"}]
  /\ step \in [Clis -> 0..5] /\ \A c \in Clis : step[c] <= Last[cmd[c]]
  /\ out \in [Clis -> {"running", "done", "failed", "LockCrcMismatch"}]
  /\ seen \in [Clis -> [Words -> {"factory", "blob"}]]
  /\ held \in [Clis -> [io : Secrets \cup {Nil}, puk : Secrets \cup {Nil}]]

ChipOK ==
  /\ config \in [Words -> {"factory", "blob"}]
  /\ configLocked \in BOOLEAN /\ dataLocked \in BOOLEAN
  /\ frozen \subseteq 0..15
  /\ slot \in [SecretSlots -> Secrets \cup {"blank", "given", "default"}]
  /\ key0 \in BOOLEAN

FileOK == file \in [io : Secrets \cup {Nil}, puk : Secrets \cup {Nil}] \cup {Nil}

LEMMA TypeParts == TypeOK <=> ControlOK /\ ChipOK /\ FileOK /\ alone \in [Clis -> BOOLEAN]
  BY DEF TypeOK, ControlOK, ChipOK, FileOK

Others(c) == \A d \in Clis \ {c} :
  cmd'[d] = cmd[d] /\ step'[d] = step[d] /\ out'[d] = out[d] /\ held'[d] = held[d]
  /\ seen'[d] = seen[d]

(* The others saw nothing change, or know that they are not alone. *)
Undisturbed(c) == \A d \in Clis \ {c} :
  ~ alone'[d] \/ (alone'[d] = alone[d] /\ UNCHANGED <<chip, file>>)

LEMMA LastFacts ==
  /\ \A k \in Commands \cup {"None"} : Last[k] \in 0..5
  /\ Last["ProvisionToken"] = 5 /\ Last["LockConfig"] = 5 /\ Last["WriteConfig"] = 3
  /\ Last["None"] = 0
  BY DEF Commands, Last

LEMMA FactoryType == Factory \in [Words -> {"factory", "blob"}]
  BY DEF Factory

LEMMA NoSecretsType == NoSecrets \in [io : Secrets \cup {Nil}, puk : Secrets \cup {Nil}]
  BY DEF NoSecrets

LEMMA ExitsStep ==
  ASSUME ControlOK, NEW c \in Clis, NEW status \in {"done", "failed", "LockCrcMismatch"},
         Exits(c, status), cmd' \in {cmd, [cmd EXCEPT ![c] = "None"]}
  PROVE  ControlOK' /\ Others(c) /\ out'[c] = status /\ step'[c] = 0
  <1>1. cmd' \in [Clis -> Commands \cup {"None"}] /\ \A d \in Clis \ {c} : cmd'[d] = cmd[d]
    BY DEF ControlOK
  <1>2. /\ out' \in [Clis -> {"running", "done", "failed", "LockCrcMismatch"}]
        /\ out'[c] = status /\ \A d \in Clis \ {c} : out'[d] = out[d]
    BY DEF ControlOK, Exits
  <1>3. /\ step' \in [Clis -> 0..5] /\ step'[c] = 0
        /\ \A d \in Clis \ {c} : step'[d] = step[d]
    BY DEF ControlOK, Exits
  <1>4. \A d \in Clis : step'[d] <= Last[cmd'[d]]
    BY <1>1, <1>3, LastFacts DEF ControlOK
  <1>5. /\ seen' \in [Clis -> [Words -> {"factory", "blob"}]]
        /\ \A d \in Clis \ {c} : seen'[d] = seen[d]
    BY FactoryType DEF ControlOK, Exits
  <1>6. /\ held' \in [Clis -> [io : Secrets \cup {Nil}, puk : Secrets \cup {Nil}]]
        /\ \A d \in Clis \ {c} : held'[d] = held[d]
    BY NoSecretsType DEF ControlOK, Exits
  <1> QED BY <1>1, <1>2, <1>3, <1>4, <1>5, <1>6 DEF ControlOK, Others

LEMMA EndsStep ==
  ASSUME ControlOK, NEW c \in Clis, Ends(c)
  PROVE  ControlOK' /\ Others(c) /\ cmd'[c] = "None"
  <1>1. ControlOK' /\ Others(c)
    BY ExitsStep DEF Ends
  <1>2. cmd'[c] = "None"
    BY DEF Ends, ControlOK
  <1> QED BY <1>1, <1>2

LEMMA ProceedStep ==
  ASSUME ControlOK, NEW c \in Clis, Proceed(c)
  PROVE  /\ ControlOK' /\ Others(c) /\ cmd'[c] = cmd[c]
         /\ \/ /\ step[c] < Last[cmd[c]] /\ step'[c] = step[c] + 1
               /\ out'[c] = out[c] /\ held'[c] = held[c] /\ seen'[c] = seen[c]
            \/ step[c] = Last[cmd[c]] /\ out'[c] = "done" /\ step'[c] = 0
  <1>1. CASE /\ step[c] < Last[cmd[c]]
             /\ step' = [step EXCEPT ![c] = @ + 1]
             /\ UNCHANGED <<cmd, out, seen, held>>
    <2>1. Last[cmd[c]] \in 0..5 /\ step[c] \in 0..5
      BY LastFacts DEF ControlOK
    <2>2. step[c] + 1 \in 0..5 /\ step[c] + 1 <= Last[cmd[c]]
      BY <1>1, <2>1
    <2>3. step' \in [Clis -> 0..5] /\ step'[c] = step[c] + 1
          /\ \A d \in Clis \ {c} : step'[d] = step[d]
      BY <1>1, <2>2 DEF ControlOK
    <2>4. \A d \in Clis : step'[d] <= Last[cmd'[d]]
      BY <1>1, <2>2, <2>3 DEF ControlOK
    <2> QED BY <1>1, <2>3, <2>4 DEF ControlOK, Others
  <1>2. CASE step[c] = Last[cmd[c]] /\ Exits(c, "done") /\ UNCHANGED cmd
    BY <1>2, ExitsStep
  <1> QED BY <1>1, <1>2 DEF Proceed

LEMMA ReceiveStep ==
  ASSUME ControlOK, NEW c \in Clis, step[c] < Last[cmd[c]],
         NEW zone \in [Words -> {"factory", "blob"}],
         NEW secrets \in [io : Secrets \cup {Nil}, puk : Secrets \cup {Nil}],
         Receive(c, zone, secrets)
  PROVE  /\ ControlOK' /\ Others(c) /\ cmd'[c] = cmd[c] /\ step'[c] = step[c] + 1
         /\ out'[c] = out[c] /\ held'[c] = secrets /\ seen'[c] = zone
  <1>1. Last[cmd[c]] \in 0..5 /\ step[c] \in 0..5
    BY LastFacts DEF ControlOK
  <1>2. step[c] + 1 \in 0..5 /\ step[c] + 1 <= Last[cmd[c]]
    BY <1>1
  <1>3. step' \in [Clis -> 0..5] /\ step'[c] = step[c] + 1
        /\ \A d \in Clis \ {c} : step'[d] = step[d]
    BY <1>2 DEF ControlOK, Receive
  <1>4. \A d \in Clis : step'[d] <= Last[cmd'[d]]
    BY <1>2, <1>3 DEF ControlOK, Receive
  <1>5. /\ seen' \in [Clis -> [Words -> {"factory", "blob"}]]
        /\ seen'[c] = zone /\ \A d \in Clis \ {c} : seen'[d] = seen[d]
    BY DEF ControlOK, Receive
  <1>6. /\ held' \in [Clis -> [io : Secrets \cup {Nil}, puk : Secrets \cup {Nil}]]
        /\ held'[c] = secrets /\ \A d \in Clis \ {c} : held'[d] = held[d]
    BY DEF ControlOK, Receive
  <1> QED BY <1>3, <1>4, <1>5, <1>6 DEF ControlOK, Others, Receive

LEMMA AloneStep ==
  ASSUME NEW c \in Clis, alone \in [Clis -> BOOLEAN], Alone(c)
  PROVE  alone' \in [Clis -> BOOLEAN] /\ alone'[c] = alone[c]
         /\ \A d \in Clis \ {c} : ~ alone'[d]
  BY DEF Alone

(* A step of one process leaves what the others are owed. *)
LEMMA OthersKept ==
  ASSUME ProvisioningInv, NEW c \in Clis, Others(c),
         Undisturbed(c)
  PROVE  \A d \in Clis \ {c} : SoFar(d)'
  <1> SUFFICES ASSUME NEW d \in Clis \ {c} PROVE SoFar(d)'
    OBVIOUS
  <1>1. SoFar(d)
    BY DEF ProvisioningInv
  <1>2. /\ cmd'[d] = cmd[d] /\ step'[d] = step[d] /\ out'[d] = out[d] /\ held'[d] = held[d]
        /\ seen'[d] = seen[d]
    BY DEF Others
  <1>3. CASE ~ alone'[d]
    BY <1>3 DEF SoFar, TokenSoFar, ConfigSoFar, ReadSoFar
  <1>4. CASE alone'[d] = alone[d] /\ UNCHANGED <<chip, file>>
    BY <1>1, <1>2, <1>4 DEF SoFar, TokenSoFar, ConfigSoFar, ReadSoFar, chip
  <1> QED BY <1>3, <1>4 DEF Undisturbed

LEMMA Assembled ==
  ASSUME ProvisioningInv, NEW c \in Clis, ControlOK', ChipOK', FileOK',
         alone' \in [Clis -> BOOLEAN], PinSlotPublic', Others(c),
         Undisturbed(c),
         SoFar(c)'
  PROVE  ProvisioningInv'
  <1>1. TypeOK'
    BY DEF TypeOK, ControlOK, ChipOK, FileOK
  <1>2. \A d \in Clis : SoFar(d)'
    BY OthersKept
  <1> QED BY <1>1, <1>2 DEF ProvisioningInv

(* A command that has failed owes nothing. *)
LEMMA EndedOwesNothing ==
  ASSUME NEW c \in Clis, cmd'[c] = "None"
  PROVE  SoFar(c)'
  BY DEF SoFar, TokenSoFar, ConfigSoFar, ReadSoFar

(***************************************************************************)
(* The transfers of a block reach every word of it that can be written.    *)
(***************************************************************************)
LEMMA TransfersReach ==
  ASSUME NEW b \in 0..3, NEW w \in Words \ WriteRefuses, w \div 8 = b
  PROVE  \E i \in 1..Len(Transfers(b)) : w \in Transfers(b)[i]
  <1>1. CASE b \in {1, 3}
    <2>1. Transfers(b) = <<{WordOf(b, o) : o \in 0..7}>>
      BY <1>1 DEF Transfers, can_write_block_in_one_transfer
    <2>2. w % 8 \in 0..7 /\ w = WordOf(b, w % 8)
      BY DEF Words, WordOf
    <2>3. w \in {WordOf(b, o) : o \in 0..7}
      BY <2>2
    <2>4. Len(Transfers(b)) = 1 /\ Transfers(b)[1] = {WordOf(b, o) : o \in 0..7}
      BY <2>1
    <2> QED BY <2>3, <2>4
  <1>2. CASE b = 0
    <2>1. Transfers(b) = [i \in 1..4 |-> {WordOf(0, <<4, 5, 6, 7>>[i])}]
      BY <1>2 DEF Transfers, can_write_block_in_one_transfer, writable_words_in_block
    <2>2. Len(Transfers(b)) = 4
      BY <2>1
    <2>3. w \in 4..7
      BY <1>2 DEF Words, WriteRefuses
    <2>4. w - 3 \in 1..4 /\ <<4, 5, 6, 7>>[w - 3] = w
      BY <2>3
    <2> QED BY <2>1, <2>2, <2>4 DEF WordOf
  <1>3. CASE b = 2
    <2>1. Transfers(b) = [i \in 1..7 |-> {WordOf(2, <<0, 1, 2, 3, 4, 6, 7>>[i])}]
      BY <1>3 DEF Transfers, can_write_block_in_one_transfer, writable_words_in_block
    <2>2. Len(Transfers(b)) = 7
      BY <2>1
    <2>3. w \in 16..20 \cup {22, 23}
      BY <1>3 DEF Words, WriteRefuses
    <2>4. PICK i \in 1..7 : 16 + <<0, 1, 2, 3, 4, 6, 7>>[i] = w
      <3>1. CASE w \in 16..20
        <4>1. w - 15 \in 1..7 /\ <<0, 1, 2, 3, 4, 6, 7>>[w - 15] = w - 16
          BY <3>1
        <4> QED BY <3>1, <4>1
      <3>2. CASE w = 22
        <4>1. <<0, 1, 2, 3, 4, 6, 7>>[6] = 6
          OBVIOUS
        <4> QED BY <3>2, <4>1
      <3>3. CASE w = 23
        <4>1. <<0, 1, 2, 3, 4, 6, 7>>[7] = 7
          OBVIOUS
        <4> QED BY <3>3, <4>1
      <3> QED BY <2>3, <3>1, <3>2, <3>3
    <2> QED BY <2>1, <2>2, <2>4 DEF WordOf
  <1> QED BY <1>1, <1>2, <1>3

-----------------------------------------------------------------------------
(***************************************************************************)
(* The operations.  Those that change neither chip nor file first.         *)
(***************************************************************************)
LEMMA QuietStep ==
  ASSUME ProvisioningInv, NEW c \in Clis, UNCHANGED <<chip, file, alone>>,
         ControlOK', Others(c), SoFar(c)'
  PROVE  ProvisioningInv'
  <1>1. ChipOK' /\ FileOK' /\ alone' \in [Clis -> BOOLEAN] /\ PinSlotPublic'
    BY DEF ProvisioningInv, TypeOK, ChipOK, FileOK, PinSlotPublic, chip
  <1>2. Undisturbed(c)
    BY DEF Undisturbed
  <1> QED BY <1>1, <1>2, Assembled

LEMMA StartKeeps ==
  ASSUME ProvisioningInv, NEW c \in Clis, NEW k \in Offered[c], Start(c, k)
  PROVE  ProvisioningInv'
  <1>0. k \in Commands /\ Last[k] \in 0..5
    BY OfferedAssumption, LastFacts
  <1>1. ControlOK' /\ Others(c)
    <2>1. /\ cmd' \in [Clis -> Commands \cup {"None"}] /\ cmd'[c] = k
          /\ \A d \in Clis \ {c} : cmd'[d] = cmd[d]
      BY <1>0 DEF Start, ProvisioningInv, TypeOK
    <2>2. /\ step' \in [Clis -> 0..5] /\ step'[c] = 0
          /\ \A d \in Clis \ {c} : step'[d] = step[d]
      BY DEF Start, ProvisioningInv, TypeOK
    <2>3. \A d \in Clis : step'[d] <= Last[cmd'[d]]
      <3>1. step'[c] <= Last[cmd'[c]]
        BY <1>0, <2>1, <2>2
      <3>2. \A d \in Clis : step[d] <= Last[cmd[d]]
        BY DEF ProvisioningInv, TypeOK
      <3> QED BY <2>1, <2>2, <3>1, <3>2
    <2>4. /\ out' \in [Clis -> {"running", "done", "failed", "LockCrcMismatch"}]
          /\ \A d \in Clis \ {c} : out'[d] = out[d]
      BY DEF Start, ProvisioningInv, TypeOK
    <2>5. /\ seen' \in [Clis -> [Words -> {"factory", "blob"}]]
          /\ \A d \in Clis \ {c} : seen'[d] = seen[d]
      BY FactoryType DEF Start, ProvisioningInv, TypeOK
    <2>6. /\ held' \in [Clis -> [io : Secrets \cup {Nil}, puk : Secrets \cup {Nil}]]
          /\ \A d \in Clis \ {c} : held'[d] = held[d]
      BY NoSecretsType DEF Start, ProvisioningInv, TypeOK
    <2> QED BY <2>1, <2>2, <2>3, <2>4, <2>5, <2>6 DEF ControlOK, Others
  <1>2. ChipOK' /\ FileOK' /\ PinSlotPublic'
    BY DEF Start, ProvisioningInv, TypeOK, ChipOK, FileOK, PinSlotPublic, chip
  <1>3. alone' \in [Clis -> BOOLEAN] /\ Undisturbed(c)
    BY DEF Start, ProvisioningInv, TypeOK, Undisturbed
  <1>4. out'[c] = "running" /\ step'[c] = 0
    BY DEF Start, ProvisioningInv, TypeOK
  <1>5. SoFar(c)'
    <2>1. \A w \in Words : ~ (w \div 8 < 0)
      BY DEF Words
    <2> QED BY <1>4, <2>1 DEF SoFar, TokenSoFar, ConfigSoFar, ReadSoFar
  <1> QED BY <1>1, <1>2, <1>3, <1>5, Assembled

LEMMA ControlHolds == ProvisioningInv => ControlOK
  BY TypeParts DEF ProvisioningInv

LEMMA FailsKeeps ==
  ASSUME ProvisioningInv, NEW c \in Clis, Fails(c)
  PROVE  ProvisioningInv'
  <1>1. ControlOK' /\ Others(c) /\ cmd'[c] = "None"
    BY ControlHolds, EndsStep DEF Fails
  <1> QED BY <1>1, EndedOwesNothing, QuietStep DEF Fails

LEMMA ReadKeeps ==
  ASSUME ProvisioningInv, NEW c \in Clis, read_config_block(c)
  PROVE  ProvisioningInv'
  <1> DEFINE zone == [w \in Words |-> IF w \div 8 = step[c] THEN config[w] ELSE seen[c][w]]
  <1>1. zone \in [Words -> {"factory", "blob"}]
        /\ held[c] \in [io : Secrets \cup {Nil}, puk : Secrets \cup {Nil}]
    BY DEF ProvisioningInv, TypeOK
  <1>2. Receive(c, zone, held[c]) /\ UNCHANGED <<chip, file, alone>> /\ cmd[c] = "LockConfig"
    BY DEF read_config_block
  <1>3. step[c] < Last[cmd[c]]
    BY LastFacts DEF read_config_block, Blocks
  <1> HIDE DEF zone
  <1>4. /\ ControlOK' /\ Others(c) /\ cmd'[c] = "LockConfig" /\ step'[c] = step[c] + 1
        /\ out'[c] = "running" /\ seen'[c] = zone
    BY <1>1, <1>2, <1>3, ControlHolds, ReceiveStep DEF read_config_block
  <1>5. \A w \in Words : alone[c] /\ w \div 8 <= step[c] => zone[w] = config[w]
    <2>1. ReadSoFar(c) /\ out[c] = "running" /\ step[c] \in 0..5
      BY DEF ProvisioningInv, TypeOK, SoFar, read_config_block
    <2>2. \A w \in Words : w \div 8 \in 0..3
      BY DEF Words
    <2> QED BY <1>2, <2>1, <2>2 DEF ReadSoFar, zone
  <1>6. \A w \in Words : w \div 8 < step[c] + 1 => w \div 8 <= step[c]
    BY DEF ProvisioningInv, TypeOK, Words
  <1>7. SoFar(c)'
    BY <1>2, <1>4, <1>5, <1>6 DEF SoFar, TokenSoFar, ConfigSoFar, ReadSoFar, chip
  <1> QED BY <1>2, <1>4, <1>7, QuietStep

LEMMA ConfirmKeeps ==
  ASSUME ProvisioningInv, NEW c \in Clis, confirm_interactive(c)
  PROVE  ProvisioningInv'
  <1>1. /\ ControlOK' /\ Others(c) /\ cmd'[c] = cmd[c]
        /\ out'[c] = "running" => out[c] = "running" /\ seen'[c] = seen[c]
        /\ out'[c] # "LockCrcMismatch"
    BY ControlHolds, ProceedStep DEF confirm_interactive, Running
  <1>2. /\ cmd[c] \notin {"ProvisionToken", "WriteConfig"}
        /\ cmd[c] = "LockConfig" => step[c] = 4
        /\ UNCHANGED <<chip, file, alone>>
    BY DEF confirm_interactive, Running
  <1>3. \A w \in Words : w \div 8 < 4
    BY DEF Words
  <1>4. ReadSoFar(c)
    BY DEF ProvisioningInv, SoFar
  <1>5. SoFar(c)'
    BY <1>1, <1>2, <1>3, <1>4 DEF SoFar, TokenSoFar, ConfigSoFar, ReadSoFar, chip
  <1> QED BY <1>1, <1>2, <1>5, QuietStep

(* Whoever has read the whole zone undisturbed has read what is in it. *)
LEMMA RefusedKeeps ==
  ASSUME ProvisioningInv, NEW c \in Clis, NEW s, write_lock_error(c, s)
  PROVE  ProvisioningInv'
  <1>1. /\ ControlOK' /\ Others(c) /\ out'[c] = "LockCrcMismatch"
        /\ UNCHANGED <<chip, file, cmd, alone>>
    BY ControlHolds, ExitsStep DEF write_lock_error
  <1>2. ASSUME cmd[c] = "LockConfig", alone[c] PROVE configLocked
    <2>1. Running(c, "LockConfig", 5) /\ (configLocked \/ seen[c] # config)
      BY <1>2, Zenon DEF write_lock_error, Refused, Running
    <2>2. \A w \in Words : w \div 8 < 5
      BY DEF Words
    <2>3. \A w \in Words : seen[c][w] = config[w]
      BY <1>2, <2>1, <2>2 DEF ProvisioningInv, SoFar, ReadSoFar, Running
    <2>4. config \in [Words -> {"factory", "blob"}] /\ seen[c] \in [Words -> {"factory", "blob"}]
      BY DEF ProvisioningInv, TypeOK
    <2>5. seen[c] = config
      BY <2>3, <2>4
    <2> QED BY <2>1, <2>5
  <1>3. SoFar(c)'
    BY <1>1, <1>2 DEF SoFar, TokenSoFar, ConfigSoFar, ReadSoFar, chip
  <1> QED BY <1>1, <1>3, QuietStep

LEMMA TokenInfoKeeps ==
  ASSUME ProvisioningInv, NEW c \in Clis, TokenInfo(c)
  PROVE  ProvisioningInv'
  <1>1. cmd[c] = "ProvisionToken" /\ step[c] = 0 /\ out[c] = "running"
    BY DEF TokenInfo, Running
  <1>2. ControlOK' /\ Others(c) /\ cmd'[c] = cmd[c] /\ step'[c] = 1 /\ out'[c] = "running"
    BY <1>1, LastFacts, ControlHolds, ProceedStep DEF TokenInfo
  <1>3. SoFar(c)'
    BY <1>1, <1>2 DEF SoFar, TokenSoFar, ConfigSoFar, ReadSoFar
  <1> QED BY <1>2, <1>3, QuietStep DEF TokenInfo

(***************************************************************************)
(* Those that change the chip or the file: the others are alone no more.   *)
(***************************************************************************)
LEMMA LoudStep ==
  ASSUME ProvisioningInv, NEW c \in Clis, Alone(c), ChipOK', FileOK', PinSlotPublic',
         ControlOK', Others(c), SoFar(c)'
  PROVE  ProvisioningInv'
  <1>1. alone \in [Clis -> BOOLEAN]
    BY DEF ProvisioningInv, TypeOK
  <1>2. alone' \in [Clis -> BOOLEAN] /\ \A d \in Clis \ {c} : ~ alone'[d]
    BY <1>1, AloneStep
  <1>3. Undisturbed(c)
    BY <1>2 DEF Undisturbed
  <1> QED BY <1>2, <1>3, Assembled

(* What a reply that may be lost does, in one place. *)
LEMMA RepliedStep ==
  ASSUME ControlOK, NEW c \in Clis, Replied(c), cmd[c] \notin {"ProvisionToken", "WriteConfig"},
         step[c] = Last[cmd[c]]
  PROVE  ControlOK' /\ Others(c) /\ SoFar(c)'
  <1>1. CASE Proceed(c)
    <2>1. step[c] \in 0..5 /\ ~ (step[c] < Last[cmd[c]])
      BY DEF ControlOK
    <2>2. ControlOK' /\ Others(c) /\ cmd'[c] = cmd[c] /\ out'[c] = "done"
      BY <1>1, <2>1, ProceedStep
    <2>3. SoFar(c)'
      BY <2>2 DEF SoFar, TokenSoFar, ConfigSoFar, ReadSoFar
    <2> QED BY <2>2, <2>3
  <1>2. CASE Ends(c)
    BY <1>2, EndsStep, EndedOwesNothing
  <1> QED BY <1>1, <1>2 DEF Replied

LEMMA LocksKeep ==
  ASSUME ProvisioningInv, NEW c \in Clis,
         lock_config_zone(c) \/ lock_data_zone(c) \/ \E s \in AskedSlots : lock_slot(c, s)
  PROVE  ProvisioningInv'
  <1>1. Replied(c) /\ Alone(c) /\ UNCHANGED <<config, slot, key0, file>>
    BY DEF lock_config_zone, lock_data_zone, lock_slot
  <1>2. cmd[c] \notin {"ProvisionToken", "WriteConfig"} /\ step[c] = Last[cmd[c]]
    BY DEF lock_config_zone, lock_data_zone, lock_slot, Running, Last
  <1>3. configLocked' \in BOOLEAN /\ dataLocked' \in BOOLEAN
    BY Zenon DEF lock_config_zone, lock_data_zone, lock_slot, ProvisioningInv, TypeOK
  <1>4. frozen' \subseteq 0..15
    <2>1. frozen \subseteq 0..15 /\ AskedSlots \subseteq 0..15
      BY DEF ProvisioningInv, TypeOK, AskedSlots, SLOT_IO_KEY
    <2>2. frozen' = frozen \/ \E s \in AskedSlots : frozen' = frozen \cup {s}
      BY Zenon DEF lock_config_zone, lock_data_zone, lock_slot
    <2> QED BY <2>1, <2>2
  <1>5. ChipOK' /\ FileOK' /\ PinSlotPublic'
    BY <1>1, <1>3, <1>4 DEF ProvisioningInv, TypeOK, ChipOK, FileOK, PinSlotPublic
  <1> QED BY <1>1, <1>2, <1>5, ControlHolds, RepliedStep, LoudStep

(* A cleartext write of a value the slot may hold. *)
LEMMA WriteStep ==
  ASSUME ProvisioningInv, NEW s \in SecretSlots,
         NEW v \in Secrets \cup {"given", "default"}, s = SLOT_PIN_HASH => v \notin Secrets,
         write_32(s, v), UNCHANGED file
  PROVE  /\ ChipOK' /\ FileOK' /\ PinSlotPublic'
         /\ slot'[s] = v /\ \A x \in SecretSlots \ {s} : slot'[x] = slot[x]
         /\ UNCHANGED <<config, key0>>
  <1>1. slot \in [SecretSlots -> Secrets \cup {"blank", "given", "default"}]
    BY DEF ProvisioningInv, TypeOK
  <1>2. slot' \in [SecretSlots -> Secrets \cup {"blank", "given", "default"}]
        /\ slot'[s] = v /\ \A x \in SecretSlots \ {s} : slot'[x] = slot[x]
    BY <1>1 DEF write_32
  <1>3. UNCHANGED <<config, configLocked, dataLocked, frozen, key0>>
    BY DEF write_32
  <1>4. PinSlotPublic'
    BY <1>2 DEF ProvisioningInv, PinSlotPublic, SecretSlots
  <1> QED BY <1>2, <1>3, <1>4 DEF ProvisioningInv, TypeOK, ChipOK, FileOK

LEMMA ProvisionSlotKeeps ==
  ASSUME ProvisioningInv, NEW c \in Clis, NEW s, provision_slot(c, s)
  PROVE  ProvisioningInv'
  <1>1. /\ s \in SecretSlots /\ write_32(s, "given") /\ Alone(c) /\ Replied(c) /\ UNCHANGED file
        /\ cmd[c] = "ProvisionSlot" /\ step[c] = Last[cmd[c]]
    BY DEF provision_slot, Running, Last
  <1>2. "given" \notin Secrets
    BY ProvisioningAssumption
  <1>3. ChipOK' /\ FileOK' /\ PinSlotPublic'
    BY <1>1, <1>2, WriteStep
  <1> QED BY <1>1, <1>3, ControlHolds, RepliedStep, LoudStep

LEMMA SlotNames ==
  /\ SLOT_PIN_HASH \in SecretSlots /\ SLOT_PUK_HASH \in SecretSlots /\ SLOT_IO_KEY \in SecretSlots
  /\ SLOT_PIN_HASH # SLOT_PUK_HASH /\ SLOT_PIN_HASH # SLOT_IO_KEY /\ SLOT_PUK_HASH # SLOT_IO_KEY
  BY DEF SecretSlots, SLOT_PIN_HASH, SLOT_PUK_HASH, SLOT_IO_KEY

(* Of a process at step n of provision-token. *)
LEMMA TokenAt ==
  ASSUME ProvisioningInv, NEW c \in Clis, NEW n \in 0..5, Running(c, "ProvisionToken", n), Alone(c)
  PROVE  /\ cmd[c] = "ProvisionToken" /\ step[c] = n /\ out[c] = "running"
         /\ alone'[c] => alone[c]
         /\ alone[c] => /\ n > 1 => held[c].io = slot[SLOT_IO_KEY]
                        /\ n > 2 => slot[SLOT_PIN_HASH] = "default"
                        /\ n > 3 => held[c].puk = slot[SLOT_PUK_HASH]
                        /\ n > 4 => key0
  <1>1. cmd[c] = "ProvisionToken" /\ step[c] = n /\ out[c] = "running"
    BY DEF Running
  <1>2. alone'[c] = alone[c]
    BY AloneStep DEF ProvisioningInv, TypeOK
  <1>3. TokenSoFar(c)
    BY DEF ProvisioningInv, SoFar
  <1> QED BY <1>1, <1>2, <1>3 DEF TokenSoFar

LEMMA IoKeyKeeps ==
  ASSUME ProvisioningInv, NEW c \in Clis, provision_initial_io_key(c)
  PROVE  ProvisioningInv'
  <1> DEFINE secrets == [held[c] EXCEPT !.io = Drawn]
  <1>1. /\ Running(c, "ProvisionToken", 1) /\ write_32(SLOT_IO_KEY, Drawn) /\ Alone(c)
        /\ Receive(c, seen[c], secrets) \/ Ends(c)
        /\ UNCHANGED file
    BY DEF provision_initial_io_key
  <1>2. Drawn \in Secrets
    BY DrawnFresh DEF ProvisioningInv
  <1>3. ChipOK' /\ FileOK' /\ PinSlotPublic' /\ slot'[SLOT_IO_KEY] = Drawn
    BY <1>1, <1>2, SlotNames, WriteStep
  <1>4. CASE Ends(c)
    BY <1>1, <1>3, <1>4, ControlHolds, EndsStep, EndedOwesNothing, LoudStep
  <1>5. CASE Receive(c, seen[c], secrets)
    <2>1. /\ secrets \in [io : Secrets \cup {Nil}, puk : Secrets \cup {Nil}]
          /\ secrets.io = Drawn /\ seen[c] \in [Words -> {"factory", "blob"}]
      BY <1>2, ControlHolds DEF ControlOK
    <2> HIDE DEF secrets
    <2>2. cmd[c] = "ProvisionToken" /\ step[c] = 1 /\ out[c] = "running"
      BY <1>1 DEF Running
    <2>3. ControlOK' /\ Others(c) /\ cmd'[c] = cmd[c] /\ step'[c] = 2 /\ out'[c] = "running"
          /\ held'[c] = secrets
      BY <1>5, <2>1, <2>2, LastFacts, ControlHolds, ReceiveStep
    <2>4. SoFar(c)'
      BY <1>3, <2>1, <2>2, <2>3 DEF SoFar, TokenSoFar, ConfigSoFar, ReadSoFar
    <2> QED BY <1>1, <1>3, <2>3, <2>4, LoudStep
  <1> QED BY <1>1, <1>4, <1>5

LEMMA PinKeeps ==
  ASSUME ProvisioningInv, NEW c \in Clis, provision_initial_pin(c)
  PROVE  ProvisioningInv'
  <1>1. /\ Running(c, "ProvisionToken", 2) /\ write_32(SLOT_PIN_HASH, "default") /\ Alone(c)
        /\ Proceed(c) \/ Ends(c)
        /\ UNCHANGED file
    BY DEF provision_initial_pin, Replied
  <1>2. "default" \notin Secrets
    BY ProvisioningAssumption
  <1>3. /\ ChipOK' /\ FileOK' /\ PinSlotPublic' /\ slot'[SLOT_PIN_HASH] = "default"
        /\ slot'[SLOT_IO_KEY] = slot[SLOT_IO_KEY]
    BY <1>1, <1>2, SlotNames, WriteStep
  <1>4. CASE Ends(c)
    BY <1>1, <1>3, <1>4, ControlHolds, EndsStep, EndedOwesNothing, LoudStep
  <1>5. CASE Proceed(c)
    <2>1. /\ cmd[c] = "ProvisionToken" /\ step[c] = 2 /\ out[c] = "running"
          /\ alone'[c] => alone[c] /\ held[c].io = slot[SLOT_IO_KEY]
      BY <1>1, TokenAt
    <2>2. ControlOK' /\ Others(c) /\ cmd'[c] = cmd[c] /\ step'[c] = 3 /\ out'[c] = "running"
          /\ held'[c] = held[c]
      BY <1>5, <2>1, LastFacts, ControlHolds, ProceedStep
    <2>3. SoFar(c)'
      BY <1>3, <2>1, <2>2 DEF SoFar, TokenSoFar, ConfigSoFar, ReadSoFar
    <2> QED BY <1>1, <1>3, <2>2, <2>3, LoudStep
  <1> QED BY <1>1, <1>4, <1>5

LEMMA PukKeeps ==
  ASSUME ProvisioningInv, NEW c \in Clis, provision_initial_puk(c)
  PROVE  ProvisioningInv'
  <1> DEFINE secrets == [held[c] EXCEPT !.puk = Drawn]
  <1>1. /\ Running(c, "ProvisionToken", 3) /\ write_32(SLOT_PUK_HASH, Drawn) /\ Alone(c)
        /\ Receive(c, seen[c], secrets) \/ Ends(c)
        /\ UNCHANGED file
    BY DEF provision_initial_puk
  <1>2. Drawn \in Secrets
    BY DrawnFresh DEF ProvisioningInv
  <1>3. /\ ChipOK' /\ FileOK' /\ PinSlotPublic' /\ slot'[SLOT_PUK_HASH] = Drawn
        /\ slot'[SLOT_IO_KEY] = slot[SLOT_IO_KEY] /\ slot'[SLOT_PIN_HASH] = slot[SLOT_PIN_HASH]
    BY <1>1, <1>2, SlotNames, WriteStep
  <1>4. CASE Ends(c)
    BY <1>1, <1>3, <1>4, ControlHolds, EndsStep, EndedOwesNothing, LoudStep
  <1>5. CASE Receive(c, seen[c], secrets)
    <2>1. /\ secrets \in [io : Secrets \cup {Nil}, puk : Secrets \cup {Nil}]
          /\ secrets.puk = Drawn /\ secrets.io = held[c].io
          /\ seen[c] \in [Words -> {"factory", "blob"}]
      BY <1>2, ControlHolds DEF ControlOK
    <2> HIDE DEF secrets
    <2>2. /\ cmd[c] = "ProvisionToken" /\ step[c] = 3 /\ out[c] = "running"
          /\ alone'[c] => /\ held[c].io = slot[SLOT_IO_KEY]
                          /\ slot[SLOT_PIN_HASH] = "default"
      BY <1>1, TokenAt
    <2>3. ControlOK' /\ Others(c) /\ cmd'[c] = cmd[c] /\ step'[c] = 4 /\ out'[c] = "running"
          /\ held'[c] = secrets
      BY <1>5, <2>1, <2>2, LastFacts, ControlHolds, ReceiveStep
    <2>4. SoFar(c)'
      BY <1>3, <2>1, <2>2, <2>3 DEF SoFar, TokenSoFar, ConfigSoFar, ReadSoFar
    <2> QED BY <1>1, <1>3, <2>3, <2>4, LoudStep
  <1> QED BY <1>1, <1>4, <1>5

LEMMA GenKeyKeeps ==
  ASSUME ProvisioningInv, NEW c \in Clis, TokenGenKey(c)
  PROVE  ProvisioningInv'
  <1>1. /\ Running(c, "ProvisionToken", 4) /\ Alone(c) /\ key0' = TRUE
        /\ Proceed(c) \/ Ends(c)
        /\ UNCHANGED <<config, configLocked, dataLocked, frozen, slot, file>>
    BY DEF TokenGenKey, Replied
  <1>2. key0' \in BOOLEAN
    BY <1>1
  <1>3. ChipOK' /\ FileOK' /\ PinSlotPublic'
    BY <1>1, <1>2 DEF ProvisioningInv, TypeOK, ChipOK, FileOK, PinSlotPublic
  <1>4. CASE Ends(c)
    BY <1>1, <1>3, <1>4, ControlHolds, EndsStep, EndedOwesNothing, LoudStep
  <1>5. CASE Proceed(c)
    <2>1. /\ cmd[c] = "ProvisionToken" /\ step[c] = 4 /\ out[c] = "running"
          /\ alone'[c] => /\ held[c].io = slot[SLOT_IO_KEY]
                          /\ slot[SLOT_PIN_HASH] = "default"
                          /\ held[c].puk = slot[SLOT_PUK_HASH]
      BY <1>1, TokenAt
    <2>2. ControlOK' /\ Others(c) /\ cmd'[c] = cmd[c] /\ step'[c] = 5 /\ out'[c] = "running"
          /\ held'[c] = held[c]
      BY <1>5, <2>1, LastFacts, ControlHolds, ProceedStep
    <2>3. SoFar(c)'
      BY <1>1, <2>1, <2>2 DEF SoFar, TokenSoFar, ConfigSoFar, ReadSoFar
    <2> QED BY <1>1, <1>3, <2>2, <2>3, LoudStep
  <1> QED BY <1>1, <1>4, <1>5

LEMMA SaveKeeps ==
  ASSUME ProvisioningInv, NEW c \in Clis, SaveSecrets(c)
  PROVE  ProvisioningInv'
  <1>1. /\ Running(c, "ProvisionToken", 5) /\ Alone(c) /\ Proceed(c) /\ file' = held[c]
        /\ UNCHANGED <<config, configLocked, dataLocked, frozen, slot, key0>>
    BY DEF SaveSecrets, chip
  <1>2. /\ held[c] \in [io : Secrets \cup {Nil}, puk : Secrets \cup {Nil}]
        /\ held[c] = [io |-> held[c].io, puk |-> held[c].puk]
    BY DEF ProvisioningInv, TypeOK
  <1>3. ChipOK' /\ FileOK' /\ PinSlotPublic'
    BY <1>1, <1>2 DEF ProvisioningInv, TypeOK, ChipOK, FileOK, PinSlotPublic
  <1>4. /\ cmd[c] = "ProvisionToken" /\ step[c] = 5 /\ out[c] = "running"
        /\ alone'[c] => /\ held[c].io = slot[SLOT_IO_KEY]
                        /\ slot[SLOT_PIN_HASH] = "default"
                        /\ held[c].puk = slot[SLOT_PUK_HASH] /\ key0
    BY <1>1, TokenAt
  <1>5. ControlOK' /\ Others(c) /\ cmd'[c] = cmd[c] /\ out'[c] = "done"
    BY <1>1, <1>4, LastFacts, ControlHolds, ProceedStep
  <1>6. SoFar(c)'
    BY <1>1, <1>2, <1>4, <1>5 DEF SoFar, TokenSoFar, ConfigSoFar, ReadSoFar
  <1> QED BY <1>1, <1>3, <1>5, <1>6, LoudStep

LEMMA WriteConfigKeeps ==
  ASSUME ProvisioningInv, NEW c \in Clis, write_config_block(c)
  PROVE  ProvisioningInv'
  <1> DEFINE all == Transfers(step[c])
             reached(n) == UNION {all[i] : i \in 1..n}
  <1>1. /\ cmd[c] = "WriteConfig" /\ out[c] = "running" /\ Alone(c)
        /\ UNCHANGED <<configLocked, dataLocked, frozen, slot, key0, file>>
    BY DEF write_config_block
  <1>2. PICK n \in 1..Len(all) :
          /\ config' = [w \in Words |-> IF w \in reached(n) THEN "blob" ELSE config[w]]
          /\ (n = Len(all) /\ Proceed(c)) \/ Ends(c)
    BY DEF write_config_block
  <1>3. config \in [Words -> {"factory", "blob"}]
    BY DEF ProvisioningInv, TypeOK
  <1>4. config' \in [Words -> {"factory", "blob"}]
        /\ \A w \in Words : config[w] = "blob" => config'[w] = "blob"
    <2> HIDE DEF reached
    <2> QED BY <1>2, <1>3
  <1>5. ChipOK' /\ FileOK' /\ PinSlotPublic'
    BY <1>1, <1>4 DEF ProvisioningInv, TypeOK, ChipOK, FileOK, PinSlotPublic
  <1>6. CASE Ends(c)
    BY <1>1, <1>5, <1>6, ControlHolds, EndsStep, EndedOwesNothing, LoudStep
  <1>7. CASE n = Len(all) /\ Proceed(c)
    <2>1. step[c] \in 0..3 /\ Last[cmd[c]] = 3
      BY <1>1, LastFacts, ControlHolds DEF ControlOK
    <2>2. \A w \in Words \ WriteRefuses : w \div 8 = step[c] => config'[w] = "blob"
      <3> SUFFICES ASSUME NEW w \in Words \ WriteRefuses, w \div 8 = step[c]
                   PROVE  config'[w] = "blob"
        OBVIOUS
      <3>1. \E i \in 1..Len(all) : w \in all[i]
        BY <2>1, TransfersReach
      <3> HIDE DEF all
      <3>2. w \in reached(n)
        BY <1>7, <3>1
      <3> HIDE DEF reached
      <3> QED BY <1>2, <3>2
    <2>3. \A w \in Words \ WriteRefuses :
            alone[c] /\ w \div 8 <= step[c] => config'[w] = "blob"
      <3>1. ConfigSoFar(c)
        BY DEF ProvisioningInv, SoFar
      <3>2. \A w \in Words : w \div 8 \in 0..3
        BY DEF Words
      <3>3. \A w \in Words \ WriteRefuses :
              alone[c] /\ w \div 8 < step[c] => config[w] = "blob"
        BY <1>1, <3>1 DEF ConfigSoFar
      <3> QED BY <1>4, <2>1, <2>2, <3>2, <3>3
    <2>4. ControlOK' /\ Others(c) /\ cmd'[c] = "WriteConfig"
          /\ \/ out'[c] = "running" /\ step'[c] = step[c] + 1
             \/ out'[c] = "done" /\ step[c] = 3
      BY <1>1, <1>7, <2>1, ControlHolds, ProceedStep
    <2>5. alone'[c] = alone[c]
      BY <1>1, AloneStep DEF ProvisioningInv, TypeOK
    <2>6. \A w \in Words : w \div 8 \in 0..3
      BY DEF Words
    <2>7. SoFar(c)'
      <3>1. TokenSoFar(c)' /\ ReadSoFar(c)'
        BY <2>4 DEF TokenSoFar, ReadSoFar
      <3>2. SUFFICES ASSUME alone'[c], NEW w \in Words \ WriteRefuses,
                            (out'[c] = "running" /\ w \div 8 < step'[c]) \/ out'[c] = "done"
                     PROVE  config'[w] = "blob"
        BY <3>1 DEF SoFar, ConfigSoFar
      <3>3. w \div 8 <= step[c]
        BY <2>1, <2>4, <2>6, <3>2
      <3> QED BY <2>3, <2>5, <3>2, <3>3
    <2> QED BY <1>1, <1>5, <2>4, <2>7, LoudStep
  <1> QED BY <1>2, <1>6, <1>7

-----------------------------------------------------------------------------
LEMMA ProvisioningInvInit == Init => ProvisioningInv
  <1> SUFFICES ASSUME Init PROVE ProvisioningInv
    OBVIOUS
  <1>1. ControlOK
    <2>1. \A c \in Clis : step[c] <= Last[cmd[c]]
      BY LastFacts DEF Init
    <2> QED BY <2>1, FactoryType, NoSecretsType DEF Init, ControlOK
  <1>2. configLocked \in BOOLEAN /\ dataLocked \in BOOLEAN /\ key0 \in BOOLEAN
    BY DEF Init
  <1>3. ChipOK /\ FileOK /\ PinSlotPublic
    BY <1>2, FactoryType, SlotNames DEF Init, ChipOK, FileOK, PinSlotPublic
  <1>4. alone \in [Clis -> BOOLEAN]
    BY DEF Init
  <1>5. \A c \in Clis : SoFar(c)
    BY DEF Init, SoFar, TokenSoFar, ConfigSoFar, ReadSoFar
  <1> QED BY <1>1, <1>3, <1>4, <1>5, TypeParts DEF ProvisioningInv

LEMMA ProvisioningInvStep == ProvisioningInv /\ [Next]_vars => ProvisioningInv'
  <1> SUFFICES ASSUME ProvisioningInv, [Next]_vars PROVE ProvisioningInv'
    OBVIOUS
  <1>1. CASE UNCHANGED vars
    BY <1>1 DEF vars, ProvisioningInv, TypeOK, PinSlotPublic, SoFar, TokenSoFar, ConfigSoFar, ReadSoFar
  <1>2. CASE Next
    <2>1. PICK c \in Clis :
            \/ \E k \in Offered[c] : Start(c, k)
            \/ Fails(c)
            \/ write_config_block(c)
            \/ read_config_block(c)
            \/ confirm_interactive(c)
            \/ lock_config_zone(c)
            \/ lock_data_zone(c)
            \/ \E s \in AskedSlots :
                 lock_slot(c, s) \/ write_lock_error(c, s) \/ provision_slot(c, s)
            \/ TokenInfo(c)
            \/ provision_initial_io_key(c)
            \/ provision_initial_pin(c)
            \/ provision_initial_puk(c)
            \/ TokenGenKey(c)
            \/ SaveSecrets(c)
      BY <1>2, Zenon DEF Next
    <2>2. CASE \E k \in Offered[c] : Start(c, k)
      BY <2>2, StartKeeps
    <2>3. CASE Fails(c) \/ read_config_block(c) \/ confirm_interactive(c) \/ TokenInfo(c)
      BY <2>3, FailsKeeps, ReadKeeps, ConfirmKeeps, TokenInfoKeeps
    <2>4. CASE write_config_block(c)
      BY <2>4, WriteConfigKeeps
    <2>5. CASE lock_config_zone(c) \/ lock_data_zone(c) \/ \E s \in AskedSlots : lock_slot(c, s)
      BY <2>5, LocksKeep
    <2>6. CASE \E s \in AskedSlots : write_lock_error(c, s) \/ provision_slot(c, s)
      BY <2>6, RefusedKeeps, ProvisionSlotKeeps
    <2>7. CASE \/ provision_initial_io_key(c) \/ provision_initial_pin(c)
               \/ provision_initial_puk(c) \/ TokenGenKey(c) \/ SaveSecrets(c)
      BY <2>7, IoKeyKeeps, PinKeeps, PukKeeps, GenKeyKeeps, SaveKeeps
    <2> QED BY <2>1, <2>2, <2>3, <2>4, <2>5, <2>6, <2>7, Zenon
  <1> QED BY <1>1, <1>2

(* The inductive invariant: types, what each undisturbed process has done  *)
(* so far, and no secret in the PIN's slot.                                *)
THEOREM ProvisioningInvHolds == Spec => []ProvisioningInv
  BY ProvisioningInvInit, ProvisioningInvStep, PTL DEF Spec

(* Chip, file and every process stay in their types, a command never goes  *)
(* past its last request, and the generator always has a secret to draw.   *)
THEOREM ProvisioningTypeCorrect == Spec => []TypeOK
  <1>1. ProvisioningInv => TypeOK
    BY DEF ProvisioningInv
  <1> QED BY <1>1, ProvisioningInvHolds, PTL

(* A provision-token that reports success undisturbed has saved the very   *)
(* secrets the chip holds (cmd_provision_token).                           *)
THEOREM SecretsKeptHolds == Spec => []SecretsKept
  <1>1. ProvisioningInv => SecretsKept
    BY Zenon DEF ProvisioningInv, SoFar, TokenSoFar, SecretsKept
  <1> QED BY <1>1, ProvisioningInvHolds, PTL

(* A write-config that reports success undisturbed has written every word  *)
(* that can be written (cmd_write_config, write_config_block).             *)
THEOREM WriteConfigWholeHolds == Spec => []WriteConfigWhole
  <1>1. ProvisioningInv => WriteConfigWhole
    BY Zenon DEF ProvisioningInv, SoFar, ConfigSoFar, WriteConfigWhole
  <1> QED BY <1>1, ProvisioningInvHolds, PTL

(* An undisturbed lock-config answered LockCrcMismatch has met a zone that *)
(* was locked before, never one that drifted (lock_config_zone).           *)
THEOREM MismatchIsLockedHolds == Spec => []MismatchIsLocked
  <1>1. ProvisioningInv => MismatchIsLocked
    BY Zenon DEF ProvisioningInv, SoFar, ReadSoFar, MismatchIsLocked
  <1> QED BY <1>1, ProvisioningInvHolds, PTL
=============================================================================
