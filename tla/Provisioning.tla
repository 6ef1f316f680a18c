---------------------------- MODULE Provisioning ----------------------------
(***************************************************************************)
(* Bringing a token up: hsm-host commands that write and lock the          *)
(* configuration zone, provision the secrets and lock the data zone or a   *)
(* slot, run by processes that may overlap and may be killed.  A command   *)
(* is a sequence of requests; the firmware serves one request at a time    *)
(* (dispatch_loop), so a request is one step, and what is interleaved is   *)
(* the requests of different commands.                                     *)
(*                                                                         *)
(* A request may fail before, while or after it takes effect: the chip or  *)
(* the bus fails, closing the channel fails, or the reply is lost.         *)
(* Contents of words and slots are names; the CRC-16 of the zone is taken  *)
(* as the zone itself.                                                     *)
(***************************************************************************)
EXTENDS Naturals, Sequences, FiniteSets

CONSTANTS
  Clis,     \* hsm-host processes
  Offered,  \* the commands each one's operator runs
  Secrets,  \* what the chip's random number generator draws
  Nil       \* neither a secret nor a secrets file

(* Slots, held values and the file use at most 2 * |Clis| + 4 secrets. *)
ASSUME ProvisioningAssumption ==
  /\ IsFiniteSet(Clis) /\ Clis # {}
  /\ IsFiniteSet(Secrets) /\ Cardinality(Secrets) > 2 * Cardinality(Clis) + 4
  /\ Secrets \cap {Nil, "blank", "given", "default"} = {}

Blocks == 0..3
Words  == 0..31                    \* 4-byte words of the configuration zone
WordOf(block, offset) == 8 * block + offset

SLOT_PIN_HASH == 5
SLOT_PUK_HASH == 6
SLOT_IO_KEY   == 8
SecretSlots   == {SLOT_PIN_HASH, SLOT_PUK_HASH, SLOT_IO_KEY}

(* External: the words the chip's Write refuses, the factory area and the  *)
(* word of the lock bytes.                                                 *)
WriteRefuses == 0..3 \cup {21}

(* key_config_for: slots whose KeyConfig in the blob has Lockable = 1. *)
Lockable == {2, 3, 4, 7} \cup 9..15

(* The slots hosts ask for: a lockable key, a secret that is not lockable. *)
AskedSlots == {2, SLOT_IO_KEY}

can_write_block_in_one_transfer(block) == block \in {1, 3}

writable_words_in_block_Short(block) ==
  CASE block = 0 -> <<4, 5, 6, 7>>
    [] block = 2 -> <<0, 1, 2, 3, 4, 6>>
    [] OTHER     -> <<>>

writable_words_in_block(block) ==
  CASE block = 0 -> <<4, 5, 6, 7>>
    [] block = 2 -> <<0, 1, 2, 3, 4, 6, 7>>
    [] OTHER     -> <<>>

(* The transfers of write_config_block in order, each the set of words it  *)
(* writes.                                                                 *)
Transfers(block) ==
  IF can_write_block_in_one_transfer(block)
    THEN <<{WordOf(block, o) : o \in 0..7}>>
    ELSE [i \in DOMAIN writable_words_in_block(block) |->
            {WordOf(block, writable_words_in_block(block)[i])}]

(* The last step of each command, the first being 0. *)
Last ==
  [ None           |-> 0,
    WriteConfig    |-> 3,   \* a block each
    LockConfig     |-> 5,   \* four blocks read, the prompt, the lock
    ProvisionToken |-> 5,   \* info, I/O key, PIN, PUK, key, file
    ProvisionSlot  |-> 0,
    LockData       |-> 1,   \* the prompt, the lock
    LockSlot       |-> 1 ]

Commands == DOMAIN Last \ {"None"}

ASSUME OfferedAssumption == Offered \in [Clis -> SUBSET Commands]

VARIABLES
  config,        \* chip: each word's contents, the factory's or the blob's
  configLocked,  \* chip: LockConfig
  dataLocked,    \* chip: LockValue
  frozen,        \* chip: SlotLocked
  slot,          \* chip: contents of the secret slots
  key0,          \* chip: is there a key in slot 0?
  file,          \* host: the secrets file
  cmd, step,     \* process: its command and the step it is at
  out,           \* process: running, or how its command ended
  seen,          \* process: the zone read_full_config_zone has read
  held,          \* process: the secrets provision-token was given
  alone          \* history: no other process changed chip or file since start

chip == <<config, configLocked, dataLocked, frozen, slot, key0>>
vars == <<config, configLocked, dataLocked, frozen, slot, key0, file, cmd,
          step, out, seen, held, alone>>

NoSecrets == [io |-> Nil, puk |-> Nil]
Factory   == [w \in Words |-> "factory"]

Init ==
  /\ config = Factory /\ configLocked = FALSE /\ dataLocked = FALSE
  /\ frozen = {}
  /\ slot = [s \in SecretSlots |-> "blank"] /\ key0 = FALSE
  /\ file = Nil
  /\ cmd = [c \in Clis |-> "None"] /\ step = [c \in Clis |-> 0]
  /\ out = [c \in Clis |-> "failed"]
  /\ seen = [c \in Clis |-> Factory]
  /\ held = [c \in Clis |-> NoSecrets]
  /\ alone = [c \in Clis |-> FALSE]

Running(c, k, n) == out[c] = "running" /\ cmd[c] = k /\ step[c] = n

(* The process exits and forgets what it read and was given. *)
Exits(c, status) ==
  /\ out' = [out EXCEPT ![c] = status] /\ step' = [step EXCEPT ![c] = 0]
  /\ seen' = [seen EXCEPT ![c] = Factory]
  /\ held' = [held EXCEPT ![c] = NoSecrets]

(* The request failed, or so it seems: "?" ends the command. *)
Ends(c) == Exits(c, "failed") /\ cmd' = [cmd EXCEPT ![c] = "None"]

Proceed_Late(c) ==
  \/ /\ step[c] <= Last[cmd[c]]
     /\ step' = [step EXCEPT ![c] = @ + 1]
     /\ UNCHANGED <<cmd, out, seen, held>>
  \/ step[c] > Last[cmd[c]] /\ Exits(c, "done") /\ UNCHANGED cmd

(* The request succeeded: the command goes on, or prints that it is done. *)
Proceed(c) ==
  \/ /\ step[c] < Last[cmd[c]]
     /\ step' = [step EXCEPT ![c] = @ + 1]
     /\ UNCHANGED <<cmd, out, seen, held>>
  \/ step[c] = Last[cmd[c]] /\ Exits(c, "done") /\ UNCHANGED cmd

(* The reply brings the process something to keep. *)
Receive(c, zone, secrets) ==
  /\ step' = [step EXCEPT ![c] = @ + 1]
  /\ seen' = [seen EXCEPT ![c] = zone] /\ held' = [held EXCEPT ![c] = secrets]
  /\ UNCHANGED <<cmd, out>>

(* The request took effect, but its reply may not arrive. *)
Replied(c) == Proceed(c) \/ Ends(c)

(* The chip or the file was changed on behalf of c. *)
Alone(c) == alone' = [d \in Clis |-> d = c /\ alone[d]]

(* External: the generator never draws a value that is still around. *)
Drawn ==
  CHOOSE s \in Secrets :
    /\ \A x \in SecretSlots : slot[x] # s
    /\ file # Nil => s \notin {file.io, file.puk}
    /\ \A c \in Clis : s \notin {held[c].io, held[c].puk}

-----------------------------------------------------------------------------
Start(c, k) ==
  /\ out[c] # "running"
  /\ k = "ProvisionToken" => file = Nil      \* "refusing to overwrite"
  /\ cmd' = [cmd EXCEPT ![c] = k] /\ step' = [step EXCEPT ![c] = 0]
  /\ out' = [out EXCEPT ![c] = "running"]
  /\ seen' = [seen EXCEPT ![c] = Factory]
  /\ held' = [held EXCEPT ![c] = NoSecrets]
  /\ alone' = [alone EXCEPT ![c] = TRUE]
  /\ UNCHANGED <<chip, file>>

(* The process is killed, the device does not answer, or a request fails   *)
(* before it changes anything.                                             *)
Fails(c) ==
  /\ out[c] = "running"
  /\ Ends(c)
  /\ UNCHANGED <<chip, file, alone>>

(* write_config_block stops at the first transfer that fails or that the   *)
(* chip refuses; the words written so far stay.                            *)
write_config_block(c) ==
  /\ out[c] = "running" /\ cmd[c] = "WriteConfig" /\ ~configLocked
  /\ LET all == Transfers(step[c]) IN
     \E n \in 1..Len(all) :
       LET written == UNION {all[i] : i \in 1..n} IN
       /\ written \cap WriteRefuses = {}
       /\ config' = [w \in Words |-> IF w \in written THEN "blob" ELSE config[w]]
       /\ \/ n = Len(all) /\ Proceed(c)
          \/ Ends(c)
  /\ Alone(c)
  /\ UNCHANGED <<configLocked, dataLocked, frozen, slot, key0, file>>

read_config_block_First(c) ==
  /\ out[c] = "running" /\ cmd[c] = "LockConfig" /\ step[c] \in Blocks
  /\ Receive(c, [w \in Words |->
                   IF w \div 8 = step[c] THEN config[w % 8] ELSE seen[c][w]], held[c])
  /\ UNCHANGED <<chip, file, alone>>

(* One call of read_full_config_zone. *)
read_config_block(c) ==
  /\ out[c] = "running" /\ cmd[c] = "LockConfig" /\ step[c] \in Blocks
  /\ Receive(c, [w \in Words |->
                   IF w \div 8 = step[c] THEN config[w] ELSE seen[c][w]], held[c])
  /\ UNCHANGED <<chip, file, alone>>

(* The operator types the confirmation; typing anything else is Fails. *)
confirm_interactive(c) ==
  /\ \/ Running(c, "LockConfig", 4)
     \/ Running(c, "LockData", 0)
     \/ Running(c, "LockSlot", 0)
  /\ Proceed(c)
  /\ UNCHANGED <<chip, file, alone>>

(* The chip locks only the zone whose CRC the host computed. *)
lock_config_zone(c) ==
  /\ Running(c, "LockConfig", 5)
  /\ ~configLocked /\ seen[c] = config
  /\ configLocked' = TRUE
  /\ Alone(c)
  /\ Replied(c)
  /\ UNCHANGED <<config, dataLocked, frozen, slot, key0, file>>

(* The chip locks the data zone, no CRC asked, once the configuration is   *)
(* locked.                                                                 *)
lock_data_zone(c) ==
  /\ Running(c, "LockData", 1)
  /\ configLocked /\ ~dataLocked
  /\ dataLocked' = TRUE
  /\ Alone(c)
  /\ Replied(c)
  /\ UNCHANGED <<config, configLocked, frozen, slot, key0, file>>

(* A KeyConfig left as the factory made it may or may not be lockable. *)
KeyConfigWritten(s) == config[WordOf(3, s \div 2)] = "blob"

lock_slot(c, s) ==
  /\ Running(c, "LockSlot", 1)
  /\ configLocked /\ s \notin frozen
  /\ KeyConfigWritten(s) => s \in Lockable
  /\ frozen' = frozen \cup {s}
  /\ Alone(c)
  /\ Replied(c)
  /\ UNCHANGED <<config, configLocked, dataLocked, slot, key0, file>>

(* What the chip refuses to lock: a drifted or locked zone, a slot that is *)
(* locked or not lockable.                                                 *)
Refused(c, s) ==
  \/ Running(c, "LockConfig", 5) /\ (configLocked \/ seen[c] # config)
  \/ Running(c, "LockData", 1) /\ (~configLocked \/ dataLocked)
  \/ /\ Running(c, "LockSlot", 1) /\ configLocked
     /\ s \in frozen \/ s \notin Lockable \/ ~KeyConfigWritten(s)

(* The service closes the channel and returns the chip's error, which the  *)
(* handlers of all three locks report as LockCrcMismatch when it is an     *)
(* ExecutionError.  The other errors are in Fails.                         *)
write_lock_error(c, s) ==
  /\ Refused(c, s)
  /\ Exits(c, "LockCrcMismatch")
  /\ UNCHANGED <<chip, file, cmd, alone>>

(* The chip takes cleartext writes of data slots between the two locks;    *)
(* that a slot with the factory's policy words may refuse them is in Fails.*)
DataOpen == configLocked /\ ~dataLocked

write_32(s, v) ==
  /\ DataOpen /\ s \notin frozen
  /\ slot' = [slot EXCEPT ![s] = v]
  /\ UNCHANGED <<config, configLocked, dataLocked, frozen, key0>>

(* A host may provision any slot with any value; the service takes three. *)
provision_slot(c, s) ==
  /\ Running(c, "ProvisionSlot", 0)
  /\ s \in SecretSlots                       \* else InvalidSlot: Fails
  /\ write_32(s, "given")
  /\ Alone(c)
  /\ Replied(c)
  /\ UNCHANGED file

is_provisioned == configLocked /\ dataLocked

(* provision-token's first request; a provisioned chip is refused: Fails. *)
TokenInfo(c) ==
  /\ Running(c, "ProvisionToken", 0)
  /\ ~is_provisioned
  /\ Proceed(c)
  /\ UNCHANGED <<chip, file, alone>>

(* The secret is the host's once the reply arrives. *)
provision_initial_io_key(c) ==
  /\ Running(c, "ProvisionToken", 1)
  /\ write_32(SLOT_IO_KEY, Drawn)
  /\ Alone(c)
  /\ Receive(c, seen[c], [held[c] EXCEPT !.io = Drawn]) \/ Ends(c)
  /\ UNCHANGED file

provision_initial_pin(c) ==
  /\ Running(c, "ProvisionToken", 2)
  /\ write_32(SLOT_PIN_HASH, "default")
  /\ Alone(c)
  /\ Replied(c)
  /\ UNCHANGED file

provision_initial_puk_Ignored(c) ==
  /\ Running(c, "ProvisionToken", 3)
  /\ write_32(SLOT_PUK_HASH, Drawn)
  /\ Alone(c)
  /\ Receive(c, seen[c], [held[c] EXCEPT !.puk = Drawn]) \/ Proceed(c)
  /\ UNCHANGED file

provision_initial_puk(c) ==
  /\ Running(c, "ProvisionToken", 3)
  /\ write_32(SLOT_PUK_HASH, Drawn)
  /\ Alone(c)
  /\ Receive(c, seen[c], [held[c] EXCEPT !.puk = Drawn]) \/ Ends(c)
  /\ UNCHANGED file

TokenGenKey(c) ==
  /\ Running(c, "ProvisionToken", 4)
  /\ configLocked
  /\ key0' = TRUE
  /\ Alone(c)
  /\ Replied(c)
  /\ UNCHANGED <<config, configLocked, dataLocked, frozen, slot, file>>

(* fs::write replaces the file; when it fails the secrets are lost: Fails. *)
SaveSecrets(c) ==
  /\ Running(c, "ProvisionToken", 5)
  /\ file' = held[c]
  /\ Alone(c)
  /\ Proceed(c)
  /\ UNCHANGED chip

Next ==
  \E c \in Clis :
    \/ \E k \in Offered[c] : Start(c, k)
    \/ Fails(c)
    \/ write_config_block(c)
    \/ read_config_block(c)
    \/ confirm_interactive(c)
    \/ lock_config_zone(c)
    \/ lock_data_zone(c)
    \/ \E s \in AskedSlots :
         lock_slot(c, s) \/ write_lock_error(c, s) \/ provision_slot(c, s)
    \/ TokenInfo(c)
    \/ provision_initial_io_key(c)
    \/ provision_initial_pin(c)
    \/ provision_initial_puk(c)
    \/ TokenGenKey(c)
    \/ SaveSecrets(c)

Spec == Init /\ [][Next]_vars

-----------------------------------------------------------------------------
(* Type correctness; a command never takes a step past its last. *)
TypeOK ==
  /\ config \in [Words -> {"factory", "blob"}]
  /\ configLocked \in BOOLEAN /\ dataLocked \in BOOLEAN
  /\ frozen \subseteq 0..15
  /\ slot \in [SecretSlots -> Secrets \cup {"blank", "given", "default"}]
  /\ key0 \in BOOLEAN
  /\ file \in [io : Secrets \cup {Nil}, puk : Secrets \cup {Nil}] \cup {Nil}
  /\ cmd \in [Clis -> Commands \cup {"None"}]
  /\ step \in [Clis -> 0..5] /\ \A c \in Clis : step[c] <= Last[cmd[c]]
  /\ out \in [Clis -> {"running", "done", "failed", "LockCrcMismatch"}]
  /\ seen \in [Clis -> [Words -> {"factory", "blob"}]]
  /\ held \in [Clis -> [io : Secrets \cup {Nil}, puk : Secrets \cup {Nil}]]
  /\ alone \in [Clis -> BOOLEAN]

(* A lock-config that nobody interfered with and that was answered         *)
(* LockCrcMismatch has met a configuration zone that was locked before,    *)
(* by an earlier attempt whose lock took effect although its reply or its  *)
(* closing failed: the zone had not drifted, and nothing is left to write  *)
(* again (cmd_lock_config_dangerous, read_full_config_zone,                *)
(* lock_config_zone, HsmErrorCode::LockCrcMismatch).                       *)
MismatchIsLocked ==
  \A c \in Clis :
    out[c] = "LockCrcMismatch" /\ cmd[c] = "LockConfig" /\ alone[c] => configLocked

(* What the comment on the lock handlers says: LockDataZone and LockSlot   *)
(* let the chip verify no CRC, so LockCrcMismatch cannot occur for them    *)
(* (tasks.rs, above handle_lock_config_zone).  It does: write_lock_error   *)
(* serves all three.                                                       *)
MismatchOnlyOfConfig ==
  \A c \in Clis : out[c] = "LockCrcMismatch" => cmd[c] = "LockConfig"

(* When provision-token reports success and nobody interfered, the file    *)
(* holds the secrets the chip holds, however many earlier attempts were    *)
(* cut short, and PIN and key are in place (cmd_provision_token: "The      *)
(* secrets file is your only durable copy").                               *)
SecretsKept ==
  \A c \in Clis :
    out[c] = "done" /\ cmd[c] = "ProvisionToken" /\ alone[c] =>
      /\ file = [io |-> slot[SLOT_IO_KEY], puk |-> slot[SLOT_PUK_HASH]]
      /\ slot[SLOT_PIN_HASH] = "default" /\ key0

(* When write-config reports success and nobody interfered, every word     *)
(* that can be written has the blob's contents, also after attempts that   *)
(* stopped within a block (write_config_block, cmd_write_config).          *)
WriteConfigWhole ==
  \A c \in Clis :
    out[c] = "done" /\ cmd[c] = "WriteConfig" /\ alone[c] =>
      \A w \in Words \ WriteRefuses : config[w] = "blob"
-----------------------------------------------------------------------------
(***************************************************************************)
(* The parts of the inductive invariant behind SecretsKept,                *)
(* WriteConfigWhole and MismatchIsLocked: what a process that nobody       *)
(* interferes with has done so far, and where the chip keeps no secret.    *)
(***************************************************************************)
TokenSoFar(c) ==
  cmd[c] = "ProvisionToken" /\ alone[c] =>
    /\ out[c] = "running" =>
         /\ step[c] > 1 => held[c].io = slot[SLOT_IO_KEY]
         /\ step[c] > 2 => slot[SLOT_PIN_HASH] = "default"
         /\ step[c] > 3 => held[c].puk = slot[SLOT_PUK_HASH]
         /\ step[c] > 4 => key0
    /\ out[c] = "done" =>
         /\ file = [io |-> slot[SLOT_IO_KEY], puk |-> slot[SLOT_PUK_HASH]]
         /\ slot[SLOT_PIN_HASH] = "default" /\ key0

ConfigSoFar(c) ==
  cmd[c] = "WriteConfig" /\ alone[c] =>
    \A w \in Words \ WriteRefuses :
      \/ out[c] = "running" /\ w \div 8 < step[c]
      \/ out[c] = "done"
      => config[w] = "blob"

ReadSoFar(c) ==
  cmd[c] = "LockConfig" /\ alone[c] =>
    /\ out[c] = "running" =>
         \A w \in Words : w \div 8 < step[c] => seen[c][w] = config[w]
    /\ out[c] = "LockCrcMismatch" => configLocked

SoFar(c) == TokenSoFar(c) /\ ConfigSoFar(c) /\ ReadSoFar(c)

PinSlotPublic == slot[SLOT_PIN_HASH] \in {"blank", "given", "default"}

ProvisioningInv ==
  /\ TypeOK /\ PinSlotPublic
  /\ \A c \in Clis : SoFar(c)
=============================================================================
