----------------------------- MODULE UsbProtocol -----------------------------
(***************************************************************************)
(* hsm-usb-protocol: the reports hsm-host and the token exchange, the      *)
(* command opcodes and response statuses, and how the token takes a        *)
(* command's payload apart.  Constant-level; bytes as in AteccWire.        *)
(***************************************************************************)
EXTENDS AteccWire

HID_REPORT_SIZE  == 128
HEADER_SIZE      == 3
MAX_PAYLOAD_SIZE == HID_REPORT_SIZE - HEADER_SIZE

RuntimeOpcodes ==
  [ Info |-> 1, GetPubkey |-> 2, Sign |-> 3, GenKey |-> 4,
    ReadConfigZone |-> 5, ReadConfigSlot |-> 6, VerifyPin |-> 7, SetPin |-> 8,
    UnblockPin |-> 9, GetPinStatus |-> 10, SetPuk |-> 11, CloseSession |-> 12,
    EmergencyReset |-> 13, ReadSlotBlock |-> 14, ReadSlotWord |-> 15 ]

ProvisioningOpcodes ==
  [ WriteConfigZone |-> 16, ProvisionSlot |-> 17, ProvisionInitialPin |-> 18,
    ProvisionInitialPuk |-> 19, ProvisionIoKey |-> 20, ReadCounter |-> 21 ]

LockOpcodes == [ LockConfigZone |-> 240, LockDataZone |-> 241, LockSlot |-> 242 ]

Commands == DOMAIN RuntimeOpcodes \cup DOMAIN ProvisioningOpcodes \cup DOMAIN LockOpcodes

CommandOpcode ==
  [c \in Commands |->
     CASE c \in DOMAIN RuntimeOpcodes      -> RuntimeOpcodes[c]
       [] c \in DOMAIN ProvisioningOpcodes -> ProvisioningOpcodes[c]
       [] c \in DOMAIN LockOpcodes         -> LockOpcodes[c]]

CommandFrom(b) ==
  IF \E c \in Commands : CommandOpcode[c] = b
    THEN CHOOSE c \in Commands : CommandOpcode[c] = b
    ELSE "UnknownOpcode"

ResponseStatus ==
  [ Ok |-> 0, InvalidCommand |-> 1, InvalidPayload |-> 2, InvalidSlot |-> 3,
    AteccCommunicationError |-> 4, AteccChipError |-> 5, TouchTimeout |-> 6,
    NotProvisioned |-> 7, LockMagicMismatch |-> 8, LockCrcMismatch |-> 9,
    Busy |-> 10, WrongPin |-> 11, PinRequired |-> 12, PinBlocked |-> 13,
    WrongPuk |-> 14, Bricked |-> 15, EmergencyResetNotPermitted |-> 16 ]

StatusFrom(b) ==
  IF \E s \in DOMAIN ResponseStatus : ResponseStatus[s] = b
    THEN CHOOSE s \in DOMAIN ResponseStatus : ResponseStatus[s] = b
    ELSE "Unknown"

-----------------------------------------------------------------------------
to_report(opcode, payload) ==
  IF Len(payload) > MAX_PAYLOAD_SIZE
    THEN Err("PayloadTooLarge")
    ELSE Ok(<<opcode>> \o LowHigh(Len(payload)) \o payload
              \o Zeros(MAX_PAYLOAD_SIZE - Len(payload)))

(* The bytes past the declared length are not looked at. *)
FrameParse(report) ==
  LET len == FromLowHigh(report[2], report[3])
  IN  IF Len(report) # HID_REPORT_SIZE THEN Err("WrongReportSize")
      ELSE IF len > MAX_PAYLOAD_SIZE   THEN Err("PayloadLenTooLarge")
      ELSE Ok([opcode  |-> report[1],
               payload |-> SubSeq(report, HEADER_SIZE + 1, HEADER_SIZE + len)])

write_status(status, payload) ==
  LET written == to_report(ResponseStatus[status], payload)
  IN  IF written.ok
        THEN written.value
        ELSE to_report(ResponseStatus["InvalidPayload"], <<>>).value

-----------------------------------------------------------------------------
PIN_LEN    == 4
PUK_LEN    == 8
DIGEST_LEN == 32
IO_KEY_LEN == 32
MAGIC_LEN  == 4

EMERGENCY_RESET_MAGIC == <<186, 220, 15, 254>>            \* BA DC 0F FE
LOCK_CONFIG_MAGIC     == <<222, 173, 190, 239>>           \* DE AD BE EF
LOCK_DATA_MAGIC       == <<202, 254, 186, 190>>           \* CA FE BA BE
LOCK_SLOT_MAGIC       == <<240, 13, 202, 254>>            \* F0 0D CA FE

(* n bytes of the payload from the source's index i. *)
Field(payload, i, n) == SubSeq(payload, i + 1, i + n)

require_len(payload, n, parsed) ==
  IF Len(payload) = n THEN Ok(parsed) ELSE Err("InvalidPayload")

require_magic(payload, magic, n, parsed) ==
  IF Len(payload) # n                          THEN Err("InvalidPayload")
  ELSE IF Field(payload, 0, MAGIC_LEN) # magic THEN Err("LockMagicMismatch")
  ELSE Ok(parsed)

(* The parsers return the tuple of the command's arguments. *)
parse_slot_only(p) == require_len(p, 1, <<p[1]>>)

parse_sign(p) == require_len(p, 1 + DIGEST_LEN, <<p[1], Field(p, 1, DIGEST_LEN)>>)

parse_verify_pin(p) == require_len(p, PIN_LEN, <<p>>)

parse_set_pin(p) ==
  require_len(p, 2 * PIN_LEN + IO_KEY_LEN,
    <<Field(p, 0, PIN_LEN), Field(p, PIN_LEN, PIN_LEN), Field(p, 2 * PIN_LEN, IO_KEY_LEN)>>)

parse_unblock_pin(p) ==
  require_len(p, PUK_LEN + PIN_LEN + IO_KEY_LEN,
    <<Field(p, 0, PUK_LEN), Field(p, PUK_LEN, PIN_LEN),
      Field(p, PUK_LEN + PIN_LEN, IO_KEY_LEN)>>)

parse_set_puk(p) ==
  require_len(p, 2 * PUK_LEN + IO_KEY_LEN,
    <<Field(p, 0, PUK_LEN), Field(p, PUK_LEN, PUK_LEN), Field(p, 2 * PUK_LEN, IO_KEY_LEN)>>)

parse_emergency_reset(p) ==
  require_magic(p, EMERGENCY_RESET_MAGIC, MAGIC_LEN + IO_KEY_LEN,
                <<Field(p, MAGIC_LEN, IO_KEY_LEN)>>)

parse_lock_config_zone(p) ==
  require_magic(p, LOCK_CONFIG_MAGIC, MAGIC_LEN + 2, <<FromLowHigh(p[5], p[6])>>)

parse_lock_data_zone_NoMagic(p) == require_len(p, MAGIC_LEN, <<>>)

parse_lock_data_zone(p) == require_magic(p, LOCK_DATA_MAGIC, MAGIC_LEN, <<>>)

parse_lock_slot(p) == require_magic(p, LOCK_SLOT_MAGIC, MAGIC_LEN + 1, <<p[5]>>)

parse_write_config_zone(p) == require_len(p, 1 + 32, <<p[1], Field(p, 1, 32)>>)

parse_provision_slot(p) == require_len(p, 1 + 32, <<p[1], Field(p, 1, 32)>>)

parse_read_slot_block(p) == require_len(p, 2, p)

parse_read_slot_word(p) == require_len(p, 3, p)

(* Which parser each handler calls; the others ignore their payload. *)
ParsePayload(cmd, p) ==
  CASE cmd \in {"GetPubkey", "GenKey", "ReadConfigZone", "ReadConfigSlot",
                "ReadCounter"}     -> parse_slot_only(p)
    [] cmd = "Sign"                -> parse_sign(p)
    [] cmd = "VerifyPin"           -> parse_verify_pin(p)
    [] cmd = "SetPin"              -> parse_set_pin(p)
    [] cmd = "UnblockPin"          -> parse_unblock_pin(p)
    [] cmd = "SetPuk"              -> parse_set_puk(p)
    [] cmd = "EmergencyReset"      -> parse_emergency_reset(p)
    [] cmd = "ReadSlotBlock"       -> parse_read_slot_block(p)
    [] cmd = "ReadSlotWord"        -> parse_read_slot_word(p)
    [] cmd = "WriteConfigZone"     -> parse_write_config_zone(p)
    [] cmd = "ProvisionSlot"       -> parse_provision_slot(p)
    [] cmd = "LockConfigZone"      -> parse_lock_config_zone(p)
    [] cmd = "LockDataZone"        -> parse_lock_data_zone(p)
    [] cmd = "LockSlot"            -> parse_lock_slot(p)
    [] OTHER                       -> Ok(<<>>)
=============================================================================
