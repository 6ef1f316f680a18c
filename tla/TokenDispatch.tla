---------------------------- MODULE TokenDispatch ----------------------------
(***************************************************************************)
(* The token between a request report and a response report: the checks of *)
(* handle_one_request and its handlers, the chip commands each method of   *)
(* the service issues, the result it makes of the replies and the report   *)
(* an error becomes.  Constant-level; the methods whose steps depend on    *)
(* credentials are in PinService, TokenFirmware and Provisioning.          *)
(***************************************************************************)
EXTENDS UsbProtocol

MAX_SLOT == 15

(* A call of the service, or the status the handler answers at once.       *)
(* Slot::new and CounterId reject before the service is reached.           *)
TakesSlot == {"GetPubkey", "Sign", "GenKey", "ReadConfigSlot", "ReadSlotBlock",
              "ReadSlotWord", "ProvisionSlot", "LockSlot"}

handle_one_request(report) ==
  LET frame == FrameParse(report)
      cmd   == CommandFrom(frame.value.opcode)
      args  == ParsePayload(cmd, frame.value.payload)
  IN  IF ~frame.ok THEN Err("InvalidPayload")
      ELSE IF cmd = "UnknownOpcode" THEN Err("InvalidCommand")
      ELSE IF ~args.ok THEN args
      ELSE IF cmd \in TakesSlot /\ args.value[1] > MAX_SLOT THEN Err("InvalidSlot")
      ELSE IF cmd = "ReadCounter" /\ args.value[1] > 1 THEN Err("InvalidPayload")
      ELSE Ok([cmd |-> cmd, args |-> args.value])

-----------------------------------------------------------------------------
(* The calls whose steps are modelled elsewhere. *)
CredentialCalls ==
  {"Sign", "VerifyPin", "SetPin", "UnblockPin", "SetPuk", "EmergencyReset",
   "GetPinStatus", "CloseSession", "ProvisionInitialPin", "ProvisionInitialPuk",
   "ProvisionIoKey"}

(* What a method refuses before it opens a channel. *)
Refusal(call) ==
  CASE call.cmd \in {"ReadConfigZone", "WriteConfigZone"} /\ call.args[1] > 3 ->
         Err([kind |-> "InvalidFormat", data |-> <<>>])
    [] call.cmd = "ProvisionSlot" /\ call.args[1] \notin {5, 6, 8} ->
         Err([kind |-> "InvalidSlot", data |-> <<call.args[1]>>])
    [] OTHER -> Ok(<<>>)

can_write_block_in_one_transfer(block) == block \in {1, 3}

writable_words_in_block_Five(block) ==
  IF block = 0 THEN <<4, 5, 6, 7>> ELSE <<0, 1, 2, 3, 4, 5, 6, 7>>

writable_words_in_block(block) ==
  IF block = 0 THEN <<4, 5, 6, 7>> ELSE <<0, 1, 2, 3, 4, 6, 7>>

write_config_block(block, data) ==
  IF can_write_block_in_one_transfer(block)
    THEN <<write_32("Config", config_or_otp_address(block, 0), data)>>
    ELSE LET words == writable_words_in_block(block)
         IN  [i \in 1..Len(words) |->
                write_4("Config", config_or_otp_address(block, words[i]),
                        Field(data, 4 * words[i], 4))]

(* The chip commands of a method, in order; the first error ends it. *)
ChipCommands(call, serial) ==
  LET a == call.args
  IN  CASE call.cmd = "Info"            ->
             <<info_revision>> \o (IF serial = <<>> THEN read_config_zone ELSE <<>>)
               \o read_config_zone                  \* cached_serial, is_provisioned
        [] call.cmd = "GetPubkey"       -> <<genkey_public(a[1])>>
        [] call.cmd = "GenKey"          -> <<genkey_create(a[1])>>
        [] call.cmd \in {"ReadConfigZone", "ReadConfigSlot"} -> read_config_zone
        [] call.cmd = "WriteConfigZone" -> write_config_block(a[1], a[2])
        [] call.cmd = "ProvisionSlot"   -> <<write_slot_block(a[1], 0, a[2])>>
        [] call.cmd = "ReadSlotBlock"   -> <<read_slot_block(a[1], a[2])>>
        [] call.cmd = "ReadSlotWord"    -> <<read_slot_word(a[1], a[2], a[3])>>
        [] call.cmd = "ReadCounter"     -> <<counter_read(a[1])>>
        [] call.cmd = "LockConfigZone"  -> <<lock_config_zone(a[1])>>
        [] call.cmd = "LockDataZone"    -> <<lock_data_zone>>
        [] call.cmd = "LockSlot"        -> <<lock_slot(a[1])>>

(* Four replies to read_config_zone, from the n-th on. *)
ZoneFrom(replies, n) ==
  replies[n] \o replies[n + 1] \o replies[n + 2] \o replies[n + 3]

cached_serial(zone) == Field(zone, 0, 4) \o Field(zone, 8, 5)

is_provisioned(zone) == Field(zone, 87, 1) = <<0>> /\ Field(zone, 86, 1) = <<0>>

info(replies, serial) ==
  LET known == serial # <<>>
      own   == IF known THEN serial ELSE cached_serial(ZoneFrom(replies, 2))
      zone  == ZoneFrom(replies, IF known THEN 2 ELSE 6)
  IN  replies[1] \o own \o (IF is_provisioned(zone) THEN <<1>> ELSE <<0>>)

read_config_slot(zone, slot) ==
  Field(zone, 20 + 2 * slot, 2) \o Field(zone, 96 + 2 * slot, 2)

(* The payload of an Ok response. *)
Result(call, replies, serial) ==
  CASE call.cmd = "Info"           -> info(replies, serial)
    [] call.cmd = "ReadConfigZone" -> Field(ZoneFrom(replies, 1), 32 * call.args[1], 32)
    [] call.cmd = "ReadConfigSlot" -> read_config_slot(ZoneFrom(replies, 1), call.args[1])
    [] call.cmd = "ReadCounter"    -> ToLeBytes(FromLeBytes(replies[1]))
    [] call.cmd \in {"WriteConfigZone", "ProvisionSlot", "LockConfigZone",
                     "LockDataZone", "LockSlot"} -> <<>>
    [] OTHER                       -> replies[1]

-----------------------------------------------------------------------------
(* CryptoServiceError's variants that are not the driver's. *)
StatusOf ==
  [ InvalidFormat |-> "InvalidPayload", PinIncorrect |-> "WrongPin",
    PinBlocked |-> "PinBlocked", PukIncorrect |-> "WrongPuk",
    Bricked |-> "Bricked", PinRequired |-> "PinRequired",
    NotProvisioned |-> "NotProvisioned",
    EmergencyResetNotPermitted |-> "EmergencyResetNotPermitted",
    InvalidSlot |-> "InvalidSlot", TouchTimeout |-> "TouchTimeout" ]

write_error(err) ==
  CASE err.kind = "Chip" -> write_status("AteccChipError", <<as_status_byte(err)>>)
    [] err.kind \in DOMAIN SubCodes ->
         write_status("AteccCommunicationError", <<as_sub_code(err.kind)>>)
    [] OTHER -> write_status(StatusOf[err.kind], err.data)

write_lock_error(err) ==
  IF err.kind = "Chip" /\ err.chip = "ExecutionError"
    THEN write_status("LockCrcMismatch", <<>>)
    ELSE write_error(err)

LockCalls == {"LockConfigZone", "LockDataZone", "LockSlot"}

(* The end of every handler. *)
Respond(call, result) ==
  IF result.ok THEN write_status("Ok", result.value)
  ELSE IF call.cmd \in LockCalls THEN write_lock_error(result.error)
  ELSE write_error(result.error)
=============================================================================
