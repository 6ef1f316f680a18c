------------------------------- MODULE HsmHost -------------------------------
(***************************************************************************)
(* hsm-host: for every subcommand the requests it sends and the lengths it *)
(* accepts of their answers, how a response report is decoded and what the *)
(* operator is shown.  Constant-level; cmd_provision_token is in           *)
(* Provisioning.  An error is a record [kind |-> ..., ...].                *)
(***************************************************************************)
EXTENDS UsbProtocol

(* The command lines clap lets through: a u8, bytes from hex or from a     *)
(* file, or a string, in whose UTF-8 no byte is above 0xF4.                *)
Text == Seq(0..244)

CommandLines ==
  [cmd : {"Info", "ReadConfig", "CloseSession", "GetPinStatus", "LockConfig",
          "LockDataZone"}, args : {<<>>}]
    \cup [cmd : {"ReadConfigSlot", "GetPubkey", "GenKey", "ReadCounter", "LockSlot"},
          args : [1..1 -> Byte]]
    \cup [cmd : {"ReadSlotBlock"}, args : Byte \X Byte]
    \cup [cmd : {"ReadSlotWord"}, args : Byte \X Byte \X Byte]
    \cup [cmd : {"WriteConfig", "EmergencyReset"}, args : [1..1 -> Bytes]]
    \cup [cmd : {"ProvisionSlot", "Sign"}, args : Byte \X Bytes]
    \cup [cmd : {"VerifyPin"}, args : [1..1 -> Text]]
    \cup [cmd : {"SetPin", "UnblockPin", "SetPuk"}, args : Text \X Text \X Bytes]

AnyLength == 0..MAX_PAYLOAD_SIZE

Request(cmd, payload, lengths) ==
  [cmd |-> cmd, payload |-> payload, lengths |-> lengths]
Single(cmd, payload, lengths) == Ok(<<Request(cmd, payload, lengths)>>)

Exactly(field, n, requests) ==          \* check_pin, check_puk, parse_hex_array
  IF Len(field) = n THEN requests ELSE Failure("BadArgument")

cmd_info              == Single("Info", <<>>, {14})
cmd_read_config_slot(slot)    == Single("ReadConfigSlot", <<slot>>, {4})
cmd_read_slot_block(slot, block) == Single("ReadSlotBlock", <<slot, block>>, {32})
cmd_read_slot_word(slot, block, offset) ==
  Single("ReadSlotWord", <<slot, block, offset>>, {4})
cmd_close_session     == Single("CloseSession", <<>>, AnyLength)
cmd_provision_slot(slot, value) ==
  Exactly(value, 32, Single("ProvisionSlot", <<slot>> \o value, AnyLength))
cmd_get_pubkey(slot)  == Single("GetPubkey", <<slot>>, {64})
cmd_genkey(slot)      == Single("GenKey", <<slot>>, {64})
cmd_sign(slot, digest) ==
  Exactly(digest, 32, Single("Sign", <<slot>> \o digest, {64}))
cmd_verify_pin(pin)   == Exactly(pin, 4, Single("VerifyPin", pin, AnyLength))

cmd_set_pin(old, new, io) ==
  Exactly(old, 4, Exactly(new, 4, Exactly(io, 32,
    Single("SetPin", old \o new \o io, AnyLength))))

cmd_unblock_pin(puk, new, io) ==
  Exactly(puk, 8, Exactly(new, 4, Exactly(io, 32,
    Single("UnblockPin", puk \o new \o io, AnyLength))))

cmd_set_puk(old, new, io) ==
  Exactly(old, 8, Exactly(new, 8, Exactly(io, 32,
    Single("SetPuk", old \o new \o io, AnyLength))))

cmd_emergency_reset_dangerous(io) ==
  Exactly(io, 32, Single("EmergencyReset", EMERGENCY_RESET_MAGIC \o io, {8}))

cmd_pin_status == Single("GetPinStatus", <<>>, {3})

cmd_read_counter(id) ==
  IF id > 1 THEN Failure("BadArgument") ELSE Single("ReadCounter", <<id>>, {4})

cmd_write_config(blob) ==
  Exactly(blob, 128, Ok([b \in 1..4 |->
    Request("WriteConfigZone", <<b - 1>> \o SubSeq(blob, 32 * b - 31, 32 * b), AnyLength)]))

read_full_config_zone == [b \in 1..4 |-> Request("ReadConfigZone", <<b - 1>>, {32})]

FullZone(blocks) == blocks[1] \o blocks[2] \o blocks[3] \o blocks[4]

cmd_read_config == Ok(read_full_config_zone)

(* The lock's request carries the CRC of the four answers. *)
cmd_lock_config_dangerous(answers) ==
  IF Len(answers) < 4
    THEN Ok(read_full_config_zone)
    ELSE Ok(Append(read_full_config_zone,
              Request("LockConfigZone",
                LOCK_CONFIG_MAGIC \o crc16_to_bytes(crc16(FullZone(answers))), AnyLength)))

cmd_lock_data_dangerous       == Single("LockDataZone", LOCK_DATA_MAGIC, AnyLength)
cmd_lock_slot_dangerous(slot) == Single("LockSlot", LOCK_SLOT_MAGIC \o <<slot>>, AnyLength)

(* The requests of a command line, given the answers so far. *)
main(line, answers) ==
  LET a == line.args
  IN  CASE line.cmd = "Info"            -> cmd_info
        [] line.cmd = "ReadConfig"      -> cmd_read_config
        [] line.cmd = "ReadConfigSlot"  -> cmd_read_config_slot(a[1])
        [] line.cmd = "ReadSlotBlock"   -> cmd_read_slot_block(a[1], a[2])
        [] line.cmd = "ReadSlotWord"    -> cmd_read_slot_word(a[1], a[2], a[3])
        [] line.cmd = "WriteConfig"     -> cmd_write_config(a[1])
        [] line.cmd = "ProvisionSlot"   -> cmd_provision_slot(a[1], a[2])
        [] line.cmd = "GetPubkey"       -> cmd_get_pubkey(a[1])
        [] line.cmd = "GenKey"          -> cmd_genkey(a[1])
        [] line.cmd = "Sign"            -> cmd_sign(a[1], a[2])
        [] line.cmd = "VerifyPin"       -> cmd_verify_pin(a[1])
        [] line.cmd = "SetPin"          -> cmd_set_pin(a[1], a[2], a[3])
        [] line.cmd = "UnblockPin"      -> cmd_unblock_pin(a[1], a[2], a[3])
        [] line.cmd = "SetPuk"          -> cmd_set_puk(a[1], a[2], a[3])
        [] line.cmd = "CloseSession"    -> cmd_close_session
        [] line.cmd = "EmergencyReset"  -> cmd_emergency_reset_dangerous(a[1])
        [] line.cmd = "GetPinStatus"    -> cmd_pin_status
        [] line.cmd = "ReadCounter"     -> cmd_read_counter(a[1])
        [] line.cmd = "LockConfig"      -> cmd_lock_config_dangerous(answers)
        [] line.cmd = "LockDataZone"    -> cmd_lock_data_dangerous
        [] line.cmd = "LockSlot"        -> cmd_lock_slot_dangerous(a[1])

-----------------------------------------------------------------------------
(* send_command once a report is back, with describe_status, _chip_error   *)
(* and _atecc_kind: the payload, or an error that names what happened.     *)
receive(report) ==
  LET frame  == FrameParse(report)
      data   == frame.value.payload
      status == StatusFrom(frame.value.opcode)
  IN  IF ~frame.ok THEN Failure("MalformedFrame")
      ELSE IF status = "Ok" THEN Ok(data)
      ELSE IF status = "AteccChipError" /\ Len(data) = 1
        THEN Err(from_status_byte(data[1]))
      ELSE IF status = "AteccCommunicationError" /\ Len(data) = 1
        THEN Failure(from_sub_code(data[1]))
      ELSE Err([kind |-> status, data |-> data])

(* The length check every caller makes of what it got. *)
answer_to(request, report) ==
  LET r == receive(report)
  IN  IF r.ok /\ Len(r.value) \notin request.lengths THEN Failure("BadLength") ELSE r

(* What is printed at the end of a command. *)
shows(line, answers) ==
  LET p == answers[1]
  IN  CASE line.cmd = "ReadConfig"     -> FullZone(answers)
        [] line.cmd = "ReadConfigSlot" ->
             <<FromLowHigh(p[1], p[2]), FromLowHigh(p[3], p[4])>>
        [] line.cmd = "ReadCounter"    -> FromLeBytes(p)
        [] line.cmd = "Info"           ->
             <<SubSeq(p, 1, 4), SubSeq(p, 5, 13), p[14] # 0>>
        [] line.cmd = "GetPinStatus"   -> <<p[1], p[2], p[3] # 0>>
        [] line.cmd \in {"WriteConfig", "LockConfig"} -> <<>>
        [] OTHER                       -> p
=============================================================================
