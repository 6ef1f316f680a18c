----------------------------- MODULE ConfigZone -----------------------------
(***************************************************************************)
(* The 128 bytes config-generator makes for the configuration zone, and    *)
(* what their bits mean: the policy every slot of a provisioned token has. *)
(* Constant-level; byte i of the zone is element i + 1.                    *)
(***************************************************************************)
EXTENDS AteccWire

Slots == 0..15

COUNTER_MAX_VALUE == 2097151

(* Two 16-bit halves of ones shifted out, two of 32s counted, big-endian. *)
encode_counter_value(count) ==
  LET v      == IF count > COUNTER_MAX_VALUE THEN COUNTER_MAX_VALUE ELSE count
      BE(w)  == <<w \div 256, w % 256>>
      lin(n) == IF n >= 16 THEN 0 ELSE 65535 \div 2^n
      lin_a  == lin(v % 32)
      lin_b  == IF v >= 16 THEN lin((v - 16) % 32) ELSE 65535
      bin_b  == IF v >= 16 THEN (v - 16) \div 32 ELSE 0
  IN  BE(lin_a) \o BE(lin_b) \o BE(v \div 32) \o BE(bin_b)

SLOT_CFG_ECC_GENKEY_ONLY == 8577             \* 0x2181
SLOT_CFG_ECC_GENKEY_OR_IMPORT == 9089        \* 0x2381
SLOT_CFG_DATA_PIN_PUK == 18600               \* 0x48A8
SLOT_CFG_DATA_IO_KEY == 128                  \* 0x0080

slot_config_for(slot) ==
  CASE slot \in {0, 1} -> SLOT_CFG_ECC_GENKEY_ONLY
    [] slot \in {5, 6} -> SLOT_CFG_DATA_PIN_PUK
    [] slot = 8        -> SLOT_CFG_DATA_IO_KEY
    [] OTHER           -> SLOT_CFG_ECC_GENKEY_OR_IMPORT

KEY_CFG_ECC_LOCKABLE_OFF == 1427             \* 0x0593
KEY_CFG_ECC_LOCKABLE_ON == 1459              \* 0x05B3

KEY_CFG_DATA_GENERIC_Lockable == 60          \* 0x003C
KEY_CFG_DATA_GENERIC == 28                   \* 0x001C

key_config_for(slot) ==
  CASE slot \in {0, 1}    -> KEY_CFG_ECC_LOCKABLE_OFF
    [] slot \in {5, 6, 8} -> KEY_CFG_DATA_GENERIC
    [] OTHER              -> KEY_CFG_ECC_LOCKABLE_ON

I2C_ADDRESS_BYTE == 192
UNLOCKED         == 85                       \* 0x55

(* A u16 per slot, low byte first. *)
PerSlot(Config(_)) ==
  [i \in 1..32 |-> LowHigh(Config((i - 1) \div 2))[1 + ((i - 1) % 2)]]

build ==
  Zeros(16)                                              \* factory area
    \o <<I2C_ADDRESS_BYTE, 0, 0, 0>>
    \o PerSlot(slot_config_for)                          \* 20..51
    \o encode_counter_value(0) \o encode_counter_value(0)
    \o Zeros(18)                                         \* features, UserExtra
    \o <<UNLOCKED, UNLOCKED, 255, 255>>                  \* 86..89
    \o Zeros(6)                                          \* options, X509
    \o PerSlot(key_config_for)                           \* 96..127

EXPECTED_CRC == 51501                                    \* 0xC92D

(* The generator's own check, before it writes the file (main). *)
ASSUME GeneratorInSync ==
  Len(build) = 128 /\ crc16(SubSeq(build, 17, 128)) = EXPECTED_CRC

-----------------------------------------------------------------------------
(* annotate.rs: the fields of the two words. *)
WriteConfigs ==
  [w \in 0..15 |->
     CASE w = 0  -> "Always"
       [] w = 2  -> "Never"
       [] w = 4  -> "Always_then_Encrypt"
       [] w = 6  -> "Encrypt"
       [] w = 8  -> "Never"
       [] w = 12 -> "Never_then_Encrypt"
       [] OTHER  -> "reserved"]

describe_slot_config(word) ==
  [ ExtSig      |-> Bits(word, 0, 1) = 1,
    LimitedUse  |-> Bits(word, 5, 1) = 1,
    IsSecret    |-> Bits(word, 7, 1) = 1,
    GenKey      |-> Bits(word, 8, 1) = 1,
    PrivWrite   |-> Bits(word, 9, 1) = 1,
    ReadKey     |-> Bits(word, 0, 4),
    WriteKey    |-> Bits(word, 8, 4),
    WriteConfig |-> WriteConfigs[Bits(word, 12, 4)] ]

describe_key_config(word) ==
  [ Private  |-> Bits(word, 0, 1) = 1,
    PubInfo  |-> Bits(word, 1, 1) = 1,
    KeyType  |-> Bits(word, 2, 3),
    Lockable |-> Bits(word, 5, 1) = 1,
    ReqAuth  |-> Bits(word, 7, 1) = 1,
    AuthKey  |-> Bits(word, 8, 4) ]
=============================================================================
