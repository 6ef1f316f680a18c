------------------------------ MODULE AteccWire ------------------------------
(***************************************************************************)
(* The bytes between the driver and the ATECC608B: CRC-16, command and     *)
(* response frames, the addresses of Read and Write, the error codes.      *)
(* Constant-level: a byte is a number, a buffer a sequence of bytes (the   *)
(* source's index i is i + 1 here), a u16 a number below 2^16.             *)
(***************************************************************************)
EXTENDS Integers, Sequences

Byte  == 0..(2^8 - 1)
Word  == 0..(2^16 - 1)
Bytes == Seq(Byte)

(* Bits lo .. lo + n - 1 of w: (w >> lo) & (2^n - 1). *)
Bits(w, lo, n) == (w \div 2^lo) % 2^n

LowHigh(w) == <<w % 256, w \div 256>>                     \* u16::to_le_bytes
FromLowHigh(lo, hi) == lo + 256 * hi                      \* u16::from_le_bytes

(* A u32 as its two 16-bit halves, high one first: TLC's integers have 32 *)
(* bits with their sign.                                                  *)
FromLeBytes(b)  == <<FromLowHigh(b[3], b[4]), FromLowHigh(b[1], b[2])>>
ToLeBytes(word) == LowHigh(word[2]) \o LowHigh(word[1])

Zeros(n) == [i \in 1..n |-> 0]

Flip(w, bit) == IF Bits(w, bit, 1) = 1 THEN w - 2^bit ELSE w + 2^bit

-----------------------------------------------------------------------------
(* crc.rs: POLY is 2^15 + 2^2 + 1; bit 0 is clear after the shift. *)
ShiftIn(crc, dataBit) ==
  LET shifted == (2 * crc) % 2^16
  IN  IF dataBit # Bits(crc, 15, 1)
        THEN Flip(Flip(shifted, 15), 2) + 1
        ELSE shifted

(* What a byte makes of the CRC; it enters from its low bit. *)
OneByte(byte) ==
  [crc \in Word |->
     LET c[n \in 0..8] == IF n = 0 THEN crc ELSE ShiftIn(c[n - 1], Bits(byte, n - 1, 1))
     IN  c[8]]

crc16(data) ==
  LET c[n \in 0..Len(data)] == IF n = 0 THEN 0 ELSE OneByte(data[n])[c[n - 1]]
  IN  c[Len(data)]

crc16_to_bytes(crc) == LowHigh(crc)

verify_trailing_crc_First(frame) ==
  Len(frame) >= 3 /\ crc16(SubSeq(frame, 1, Len(frame) - 2)) % 256 = frame[Len(frame) - 1]

verify_trailing_crc(frame) ==
  /\ Len(frame) >= 3
  /\ crc16(SubSeq(frame, 1, Len(frame) - 2))
       = FromLowHigh(frame[Len(frame) - 1], frame[Len(frame)])

-----------------------------------------------------------------------------
MAX_PACKET_SIZE        == 163
MAX_RESPONSE_SIZE      == 155
COMMAND_FRAME_OVERHEAD == 7
MAX_COMMAND_DATA_LEN   == MAX_PACKET_SIZE - 1 - COMMAND_FRAME_OVERHEAD
STATUS_RESPONSE_LEN    == 4

OP == [ Info |-> 48, Read |-> 2, Write |-> 18, Lock |-> 23, GenKey |-> 64,
        Counter |-> 36 ]

Ok(v)  == [ok |-> TRUE, value |-> v]
Err(e) == [ok |-> FALSE, error |-> e]
Failure(kind) == Err([kind |-> kind])                     \* an AteccError

(* The caller's buffer has MAX_PACKET_SIZE - 1 bytes: only data is checked. *)
build_command_frame(op, param1, param2, data) ==
  IF Len(data) > MAX_COMMAND_DATA_LEN
    THEN Failure("BufferTooSmall")                        \* map_build_error
    ELSE LET body == <<COMMAND_FRAME_OVERHEAD + Len(data), op, param1>>
                       \o LowHigh(param2) \o data
         IN  Ok(body \o crc16_to_bytes(crc16(body)))

(* With map_parse_error.  A frame of four bytes carries a status. *)
parse_response_frame(frame) ==
  IF Len(frame) < 4 \/ frame[1] # Len(frame) THEN Failure("MalformedResponse")
  ELSE IF ~verify_trailing_crc(frame)        THEN Failure("BadCrc")
  ELSE IF Len(frame) = 4                     THEN Ok([status |-> frame[2]])
  ELSE Ok([payload |-> SubSeq(frame, 2, Len(frame) - 2)])

(* poll_for_response once the chip has stopped nacking: the count byte is  *)
(* read first and says how much is read next.  External: a master that     *)
(* reads past what the chip sends gets 0xFF.                               *)
poll_for_response(sent, bufLen) ==
  LET total == sent[1]
      max   == IF bufLen < MAX_RESPONSE_SIZE THEN bufLen ELSE MAX_RESPONSE_SIZE
  IN  IF total < 4 \/ total > max
        THEN Failure("MalformedResponse")
        ELSE Ok([i \in 1..total |-> IF i <= Len(sent) THEN sent[i] ELSE 255])

-----------------------------------------------------------------------------
(* ChipError by status byte; 0 is success (None), any other byte Unknown. *)
ChipErrors ==
  [ CheckMacOrVerifyFailed |-> 1, ParseError |-> 3, EccFault |-> 5,
    SelfTestFailed |-> 7, HealthTestFailed |-> 8, ExecutionError |-> 15,
    WatchdogAboutToExpire |-> 238, CommandCrcError |-> 255 ]

from_status_byte(b) ==
  [kind |-> "Chip", raw |-> b,
   chip |-> CASE b = 0 -> "None"
              [] \E e \in DOMAIN ChipErrors : ChipErrors[e] = b ->
                   CHOOSE e \in DOMAIN ChipErrors : ChipErrors[e] = b
              [] OTHER -> "Unknown"]

as_status_byte_NoRaw(err) ==
  IF err.chip \in DOMAIN ChipErrors THEN ChipErrors[err.chip] ELSE 255

as_status_byte(err) ==
  IF err.chip \in DOMAIN ChipErrors THEN ChipErrors[err.chip] ELSE err.raw

(* AteccErrorKind's sub-codes; the kinds that are not the chip's. *)
SubCodes ==
  [ Hal |-> 1, WakeFailed |-> 2, SelfTestFailure |-> 3, BadCrc |-> 4,
    Timeout |-> 5, MalformedResponse |-> 6, BufferTooSmall |-> 7 ]

as_sub_code(kind) == SubCodes[kind]

from_sub_code(b) ==
  IF \E k \in DOMAIN SubCodes : SubCodes[k] = b
    THEN CHOOSE k \in DOMAIN SubCodes : SubCodes[k] = b
    ELSE "None"

-----------------------------------------------------------------------------
(* execute_command on the frame read from the chip: the payload, of the    *)
(* length the typed method's array has.                                    *)
execute_command(sent, want) ==
  LET read   == poll_for_response(sent, 1 + want + 2)
      parsed == parse_response_frame(read.value)
  IN  IF ~read.ok THEN read
      ELSE IF ~parsed.ok THEN parsed
      ELSE IF "payload" \in DOMAIN parsed.value
        THEN IF Len(parsed.value.payload) = want
               THEN Ok(parsed.value.payload)
               ELSE Failure("MalformedResponse")
      ELSE IF parsed.value.status = 0 THEN Failure("MalformedResponse")
      ELSE Err(from_status_byte(parsed.value.status))

execute_command_status(sent) ==
  LET read   == poll_for_response(sent, STATUS_RESPONSE_LEN)
      parsed == parse_response_frame(read.value)
  IN  IF ~read.ok THEN read
      ELSE IF ~parsed.ok THEN parsed
      ELSE IF parsed.value.status = 0 THEN Ok(<<>>)
      ELSE Err(from_status_byte(parsed.value.status))

-----------------------------------------------------------------------------
(* read_write.rs: param1 and the addresses in param2. *)
ZoneBits == [Config |-> 0, Otp |-> 1, Data |-> 2]

read_param1(zone, is32) == ZoneBits[zone] + (IF is32 THEN 128 ELSE 0)

write_param1(zone, is32, encrypted) ==
  read_param1(zone, is32) + (IF encrypted THEN 64 ELSE 0)

config_or_otp_address(block, offset) == 8 * (block % 4) + (offset % 8)

data_address_Narrow(slot, block, offset) ==
  256 * block + 8 * (slot % 8) + (offset % 8)

data_address(slot, block, offset) ==
  256 * block + 8 * (slot % 32) + (offset % 8)

(* A command for the chip: its frame's fields and the length of the reply, *)
(* 0 for a bare status.                                                    *)
ChipCommand(op, p1, p2, data, want) ==
  [op |-> OP[op], p1 |-> p1, p2 |-> p2, data |-> data, want |-> want]

WORD_SIZE  == 4
BLOCK_SIZE == 32

read_4(zone, address)  == ChipCommand("Read", read_param1(zone, FALSE), address, <<>>, WORD_SIZE)
read_32(zone, address) == ChipCommand("Read", read_param1(zone, TRUE), address, <<>>, BLOCK_SIZE)

read_config_zone ==
  [b \in 1..4 |-> read_32("Config", config_or_otp_address(b - 1, 0))]

read_slot_word(slot, block, offset) == read_4("Data", data_address(slot, block, offset))
read_slot_block(slot, block)        == read_32("Data", data_address(slot, block, 0))

write_4(zone, address, data) ==
  ChipCommand("Write", write_param1(zone, FALSE, FALSE), address, data, 0)
write_32(zone, address, data) ==
  ChipCommand("Write", write_param1(zone, TRUE, FALSE), address, data, 0)
write_slot_block(slot, block, data) == write_32("Data", data_address(slot, block, 0), data)

info_revision         == ChipCommand("Info", 0, 0, <<>>, 4)
genkey_public(slot)   == ChipCommand("GenKey", 0, slot, <<>>, 64)
genkey_create(slot)   == ChipCommand("GenKey", 4, slot, <<>>, 64)
counter_read(counter) == ChipCommand("Counter", 0, counter, <<>>, 4)

lock_config_zone(crc) == ChipCommand("Lock", 0, crc, <<>>, 0)
lock_data_zone        == ChipCommand("Lock", 129, 0, <<>>, 0)
lock_slot(slot)       == ChipCommand("Lock", 130 + 4 * (slot % 16), 0, <<>>, 0)
=============================================================================
