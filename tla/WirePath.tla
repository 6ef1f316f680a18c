------------------------------ MODULE WirePath ------------------------------
(***************************************************************************)
(* A command of hsm-host on its way through the whole system, byte by      *)
(* byte: the arguments typed, the HID report, the token's parser and       *)
(* handler, the frames its service exchanges with the chip, the response   *)
(* report and what hsm-host shows.  Commands run one after another, as     *)
(* dispatch_loop serves them; HidExchange has the ones that overlap.       *)
(***************************************************************************)
EXTENDS HsmHost, TokenDispatch, ConfigZone

CONSTANTS
  Zones,        \* configuration zones of the tokens that come to the bench
  Asked,        \* command lines an operator types: a set of [cmd, args]
  StrayOpcodes, \* first bytes of reports another program sends by mistake
  ChipRefusals, \* status bytes the chip may answer for reasons of its own
  Noise,        \* <<byte, bit>> of a reply that may flip; byte 0 is the last
  MaxFaults,    \* bound: refusals, bus faults, flips and stray reports
  MaxCommands   \* bound: commands per token

ASSUME WirePathAssumption ==
  /\ \A zone \in Zones : zone \in Bytes /\ Len(zone) = 128
  /\ Asked \subseteq CommandLines
  /\ StrayOpcodes \subseteq Byte
  /\ Noise \subseteq Nat \X (0..7)
  /\ ChipRefusals \subseteq Byte \ {0}
  /\ MaxFaults \in Nat /\ MaxCommands \in Nat \ {0}

VARIABLES
  stage,   \* "idle", "asking", "sent", "service" or "answered"
  ask,     \* host: the command line
  got,     \* host: the answers to the command's requests so far
  shown,   \* host: what the command ended with
  wire,    \* the report under way, in either direction
  call,    \* token: the service method called, with its arguments
  replies, \* token: the chip's replies to the method so far
  serial,  \* token: CryptoService.serial, <<>> until it is read
  chip,    \* external: configuration zone, slots written, keys generated
  fault,   \* history: what the chip, the bus or the method failed with
  clean,   \* history: permitted when typed, and nothing injected since
  faults,  \* bounded count of injected faults
  commands \* bounded count of commands

vars == <<stage, ask, got, shown, wire, call, replies, serial, chip, fault, clean,
          faults, commands>>

NoFault == [kind |-> "none"]
NoCall  == [cmd |-> "none", args |-> <<>>]

-----------------------------------------------------------------------------
(* External: the ATECC608B, from the frames the driver sends it and the    *)
(* meaning blob.rs and the driver's comments give its policy words.        *)
Sample(seed, n) == [i \in 1..n |-> (37 * seed + 11 * i) % 256]

(* A chip that no secret has been written to and no key generated in. *)
Blank(zone) == [zone |-> zone, data |-> <<>>, keys |-> [slot \in Slots |-> 0]]

Revision     == <<0, 0, 96, 3>>
CountOf(id)  == <<5 + id, 2, 1, 0>>                 \* little-endian

ZoneWord(zone, i) == FromLowHigh(zone[i + 1], zone[i + 2])

SlotBlock(c, slot, block) ==
  IF block = 0 /\ slot \in DOMAIN c.data THEN c.data[slot] ELSE Sample(16 * slot + block, 32)

(* A slot's key pair is told from the one before; 0 is none. *)
PublicKey(c, slot) == Sample(90 + slot + 16 * c.keys[slot], 64)
Renewed(c, slot)   == [c EXCEPT !.keys[slot] = IF @ = 1 THEN 2 ELSE 1]

ConfigLocked(c) == c.zone[88] = 0
DataLocked(c)   == c.zone[87] = 0
SlotLocked(c, slot) == Bits(ZoneWord(c.zone, 88), slot, 1) = 0

SlotConfig(c, slot) == describe_slot_config(ZoneWord(c.zone, 20 + 2 * slot))
KeyConfig(c, slot)  == describe_key_config(ZoneWord(c.zone, 96 + 2 * slot))

(* What the locks and a slot's policy words allow.  Whether the PIN has    *)
(* been verified on the chip, for a key that asks for it, is SlotPolicy's. *)
Secret(c, slot)   == SlotConfig(c, slot).IsSecret
Lockable(c, slot) == ConfigLocked(c) /\ KeyConfig(c, slot).Lockable /\ ~SlotLocked(c, slot)
HoldsKey(c, slot) == ConfigLocked(c) /\ KeyConfig(c, slot).Private
Published(c, slot) == HoldsKey(c, slot) /\ KeyConfig(c, slot).PubInfo /\ c.keys[slot] # 0
Renewable(c, slot) ==
  HoldsKey(c, slot) /\ SlotConfig(c, slot).GenKey /\ ~SlotLocked(c, slot)
Writable(c, slot) ==
  /\ ConfigLocked(c) /\ ~DataLocked(c) /\ ~SlotLocked(c, slot)
  /\ SlotConfig(c, slot).WriteConfig \in {"Always", "Always_then_Encrypt"}

Overwrite(zone, at, data) ==
  [i \in 1..128 |-> IF i \in (at + 1)..(at + Len(data)) THEN data[i - at] ELSE zone[i]]

Put(f, x, v) == [y \in DOMAIN f \cup {x} |-> IF y = x THEN v ELSE f[y]]

(* What the chip answers, a status or data, and its memory afterwards. *)
Says(payload, c) == [reply |-> payload, chip |-> c]
ReadOnlyWords    == {0, 1, 2, 3, 21}                \* factory area, lock bytes

Execute(op, p1, p2, data, c) ==
  LET wide  == p1 >= 128
      at    == 32 * Bits(p2, 3, 2) + (IF wide THEN 0 ELSE 4 * Bits(p2, 0, 3))
      size  == IF wide THEN 32 ELSE 4
      slot  == Bits(p2, 3, 4)
      block == SlotBlock(c, slot, p2 \div 256)
      mine  == Bits(p1, 2, 4)                       \* Lock's slot
  IN  CASE op = OP["Info"] -> Says(Revision, c)
        [] op = OP["Read"] /\ p1 % 4 = 0 -> Says(Field(c.zone, at, size), c)
        [] op = OP["Read"] /\ p1 % 4 = 2 /\ Secret(c, slot) -> Says(<<15>>, c)
        [] op = OP["Read"] /\ p1 % 4 = 2 /\ ~Secret(c, slot) ->
             Says(Field(block, at % 32, size), c)
        [] op = OP["Write"] /\ p1 % 4 = 0 ->
             IF ConfigLocked(c) \/ (at \div 4)..((at + size - 1) \div 4) \cap ReadOnlyWords # {}
               THEN Says(<<3>>, c)
               ELSE Says(<<0>>, [c EXCEPT !.zone = Overwrite(@, at, data)])
        [] op = OP["Write"] /\ p1 % 4 = 2 ->
             IF Writable(c, slot) THEN Says(<<0>>, [c EXCEPT !.data = Put(@, slot, data)])
                                  ELSE Says(<<15>>, c)
        [] op = OP["GenKey"] /\ p1 = 0 ->
             IF Published(c, p2) THEN Says(PublicKey(c, p2), c) ELSE Says(<<15>>, c)
        [] op = OP["GenKey"] /\ p1 = 4 ->
             IF Renewable(c, p2) THEN Says(PublicKey(Renewed(c, p2), p2), Renewed(c, p2))
                                 ELSE Says(<<15>>, c)
        [] op = OP["Counter"] -> Says(CountOf(p2), c)
        [] op = OP["Lock"] /\ p1 = 0 ->
             IF ConfigLocked(c) \/ p2 # crc16(c.zone)
               THEN Says(<<15>>, c) ELSE Says(<<0>>, [c EXCEPT !.zone[88] = 0])
        [] op = OP["Lock"] /\ p1 = 129 ->
             IF DataLocked(c) \/ ~ConfigLocked(c)
               THEN Says(<<15>>, c) ELSE Says(<<0>>, [c EXCEPT !.zone[87] = 0])
        [] op = OP["Lock"] /\ p1 % 4 = 2 ->
             IF ~Lockable(c, mine)
               THEN Says(<<15>>, c)
               ELSE Says(<<0>>, [c EXCEPT !.zone =
                      Overwrite(@, 88, LowHigh(ZoneWord(@, 88) - 2^mine))])

Framed(payload) ==
  LET body == <<Len(payload) + 3>> \o payload IN body \o crc16_to_bytes(crc16(body))

(* A frame that does not add up is answered CommandCrcError. *)
ChipAnswer(frame, c) ==
  IF frame[1] = Len(frame) /\ verify_trailing_crc(frame)
    THEN Execute(frame[2], frame[3], FromLowHigh(frame[4], frame[5]),
                 SubSeq(frame, 6, Len(frame) - 2), c)
    ELSE Says(<<255>>, c)

FlipIn(reply, where) ==
  LET i == IF where[1] = 0 THEN Len(reply) ELSE where[1]
  IN  IF i <= Len(reply) THEN [reply EXCEPT ![i] = Flip(@, where[2])] ELSE reply

-----------------------------------------------------------------------------
Init ==
  /\ stage = "idle" /\ ask = NoCall /\ got = <<>> /\ shown = Ok(<<>>)
  /\ wire = <<>> /\ call = NoCall /\ replies = <<>> /\ serial = <<>>
  /\ chip \in {Blank(zone) : zone \in Zones}
  /\ fault = NoFault /\ clean = FALSE /\ faults = 0 /\ commands = 0

(* A block has eight words. *)
InsideBlock(line) == line.cmd = "ReadSlotWord" => line.args[3] \in 0..7

(* The command lines that need neither a session nor a touch, and what     *)
(* usb-hid-protocol.md and the policy words ask of the token for each: the *)
(* reference for what a clean run must achieve.  GenKey is not one: it     *)
(* asks for the PIN.                                                       *)
Permitted(line) ==
  LET a == line.args
  IN  CASE line.cmd \in {"Info", "ReadConfig"} -> TRUE
        [] line.cmd = "ReadConfigSlot" -> a[1] \in Slots
        [] line.cmd = "GetPubkey"      -> a[1] \in Slots /\ Published(chip, a[1])
        [] line.cmd \in {"ReadSlotBlock", "ReadSlotWord"} ->
             a[1] \in Slots /\ ~Secret(chip, a[1]) /\ InsideBlock(line)
        [] line.cmd = "WriteConfig"    -> Len(a[1]) = 128 /\ ~ConfigLocked(chip)
        [] line.cmd = "ProvisionSlot"  ->
             a[1] \in {5, 6, 8} /\ Len(a[2]) = 32 /\ Writable(chip, a[1])
        [] line.cmd = "ReadCounter"    -> a[1] \in {0, 1}
        [] line.cmd = "LockConfig"     -> ~ConfigLocked(chip)
        [] line.cmd = "LockDataZone"   -> ConfigLocked(chip) /\ ~DataLocked(chip)
        [] line.cmd = "LockSlot"       -> a[1] \in Slots /\ Lockable(chip, a[1])
        [] OTHER                       -> FALSE

(* hsm-host starts; it may refuse the arguments itself. *)
Start(line) ==
  /\ stage = "idle" /\ commands < MaxCommands
  /\ commands' = commands + 1
  /\ ask' = line /\ got' = <<>> /\ fault' = NoFault /\ clean' = Permitted(line)
  /\ LET requests == main(line, <<>>)
     IN  IF requests.ok THEN stage' = "asking" /\ shown' = Ok(<<>>)
                        ELSE stage' = "idle"   /\ shown' = requests
  /\ UNCHANGED <<wire, call, replies, serial, chip, faults>>

NextRequest  == main(ask, got).value[Len(got) + 1]
Irreversible == {"LockConfigZone", "LockDataZone", "LockSlot", "EmergencyReset"}

(* confirm_interactive with anything but the expected word. *)
Decline ==
  /\ stage = "asking" /\ NextRequest.cmd \in Irreversible
  /\ stage' = "idle" /\ shown' = Failure("Aborted") /\ clean' = FALSE
  /\ UNCHANGED <<ask, got, wire, call, replies, serial, chip, fault, faults, commands>>

send_command ==
  /\ stage = "asking"
  /\ wire' = to_report(CommandOpcode[NextRequest.cmd], NextRequest.payload).value
  /\ stage' = "sent"
  /\ UNCHANGED <<ask, got, shown, call, replies, serial, chip, fault, clean, faults, commands>>

(* A report nobody meant: some first byte before another command's payload. *)
Stray(opcode, line) ==
  /\ stage = "idle" /\ commands < MaxCommands /\ faults < MaxFaults
  /\ main(line, <<>>).ok
  /\ opcode # CommandOpcode[main(line, <<>>).value[1].cmd]
  /\ wire' = to_report(opcode, main(line, <<>>).value[1].payload).value
  /\ stage' = "sent" /\ ask' = NoCall /\ got' = <<>> /\ shown' = Ok(<<>>)
  /\ fault' = NoFault /\ clean' = FALSE
  /\ faults' = faults + 1 /\ commands' = commands + 1
  /\ UNCHANGED <<call, replies, serial, chip>>

(* dispatch_loop reads the report; the handler rejects it, the method does *)
(* before it opens a channel, or the method begins.                        *)
Dispatch ==
  /\ stage = "sent"
  /\ LET handled == handle_one_request(wire)
         refused == Refusal(handled.value)
     IN  CASE ~handled.ok ->
                /\ wire' = write_status(handled.error, <<>>)
                /\ stage' = "answered" /\ UNCHANGED <<call, fault>>
           [] handled.ok /\ ~refused.ok ->
                /\ wire' = Respond(handled.value, refused)
                /\ call' = handled.value /\ fault' = refused.error
                /\ stage' = "answered"
           [] OTHER ->
                /\ call' = handled.value /\ stage' = "service"
                /\ UNCHANGED <<wire, fault>>
  /\ replies' = <<>>
  /\ UNCHANGED <<ask, got, shown, serial, chip, clean, faults, commands>>

ChipWork == stage = "service" /\ call.cmd \notin CredentialCalls
NextCommand == ChipCommands(call, serial)[Len(replies) + 1]

(* The end of the method: the response report. *)
Answered(result) ==
  /\ wire' = Respond(call, result) /\ stage' = "answered"

(* cached_serial keeps what the method has read, even if it fails later. *)
Cached(all) ==
  IF call.cmd = "Info" /\ serial = <<>> /\ Len(all) >= 5
    THEN cached_serial(ZoneFrom(all, 2)) ELSE serial

(* The driver's view of a reply, and the method's next step. *)
Take(sent, changed) ==
  LET c    == NextCommand
      r    == IF c.want = 0 THEN execute_command_status(sent) ELSE execute_command(sent, c.want)
      all  == Append(replies, r.value)
      last == Len(all) = Len(ChipCommands(call, serial))
  IN  /\ chip' = changed
      /\ CASE ~r.ok -> Answered(r) /\ serial' = Cached(replies) /\ UNCHANGED replies
           [] r.ok /\ ~last -> replies' = all /\ UNCHANGED <<wire, stage, serial>>
           [] r.ok /\ last  ->
                /\ Answered(Ok(Result(call, all, serial)))
                /\ serial' = Cached(all) /\ replies' = <<>>

Frame == LET c == NextCommand IN build_command_frame(c.op, c.p1, c.p2, c.data).value

Policy(reply) == IF Len(reply) = 1 /\ reply # <<0>> THEN from_status_byte(reply[1]) ELSE NoFault

(* The chip answers what its memory and policy say. *)
ChipReplies ==
  /\ ChipWork
  /\ LET answer == ChipAnswer(Frame, chip)
     IN  /\ Take(Framed(answer.reply), answer.chip)
         /\ fault' = Policy(answer.reply)
  /\ UNCHANGED <<ask, got, shown, call, clean, faults, commands>>

Injected == faults < MaxFaults /\ faults' = faults + 1 /\ clean' = FALSE

(* A key that asks for the PIN, which the chip has perhaps not been shown. *)
Unverified == call.cmd = "GenKey" /\ KeyConfig(chip, call.args[1]).ReqAuth

(* It refuses for want of the PIN or a reason of its own, and does nothing.*)
ChipRefuses(status) ==
  /\ ChipWork
  /\ \/ Injected
     \/ Unverified /\ status = 15 /\ clean' = FALSE /\ UNCHANGED faults
  /\ Take(Framed(<<status>>), chip) /\ fault' = from_status_byte(status)
  /\ UNCHANGED <<ask, got, shown, call, commands>>

(* A bit of its reply flips on the bus. *)
NoisyReply(where) ==
  /\ ChipWork /\ Injected
  /\ LET answer == ChipAnswer(Frame, chip)
         sent   == Framed(answer.reply)
     IN  /\ FlipIn(sent, where) # sent
         /\ Take(FlipIn(sent, where), answer.chip)
  /\ fault' = [kind |-> "Noise"]
  /\ UNCHANGED <<ask, got, shown, call, commands>>

(* The bus fails, before the chip has done the command or after. *)
BusFails(kind, done) ==
  /\ ChipWork /\ Injected
  /\ done => kind \in {"Hal", "Timeout"}
  /\ chip' = IF done THEN ChipAnswer(Frame, chip).chip ELSE chip
  /\ Answered(Failure(kind)) /\ fault' = [kind |-> kind] /\ serial' = Cached(replies)
  /\ UNCHANGED <<ask, got, shown, call, replies, commands>>

(* The credential methods, and the touch wait of Sign: any of their results. *)
CredentialResults(cmd) ==
  LET Fails(kind, data) == Err([kind |-> kind, data |-> data])
  IN  CASE cmd = "Sign"         -> {Ok(Sample(9, 64)), Fails("PinRequired", <<>>),
                                    Fails("TouchTimeout", <<>>), Failure("BufferTooSmall")}
        [] cmd = "GetPinStatus" -> {Ok(<<3, 5, 1>>), Ok(<<0, 2, 0>>)}
        [] cmd = "EmergencyReset" ->
             {Ok(Sample(10, 8)), Fails("EmergencyResetNotPermitted", <<3, 5>>)}
        [] cmd \in {"VerifyPin", "SetPin"} ->
             {Ok(<<>>), Fails("PinIncorrect", <<2>>), Fails("PinBlocked", <<>>),
              Fails("InvalidFormat", <<>>)}
        [] cmd \in {"UnblockPin", "SetPuk"} ->
             {Ok(<<>>), Fails("PukIncorrect", <<4>>), Fails("Bricked", <<>>)}
        [] cmd = "ProvisionInitialPuk" -> {Ok(Sample(11, 8))}
        [] cmd = "ProvisionIoKey"      -> {Ok(Sample(12, 32))}
        [] OTHER                       -> {Ok(<<>>)}

(* The methods that hash a PIN or a PUK. *)
NeedsSerial == {"VerifyPin", "SetPin", "UnblockPin", "SetPuk", "EmergencyReset",
                "ProvisionInitialPin", "ProvisionInitialPuk"}

CredentialReturns ==
  /\ stage = "service" /\ call.cmd \in CredentialCalls
  /\ serial' \in {serial} \cup {cached_serial(chip.zone) : c \in NeedsSerial \cap {call.cmd}}
  /\ \E result \in CredentialResults(call.cmd) :
       /\ Answered(result)
       /\ fault' = IF result.ok THEN NoFault ELSE result.error
  /\ UNCHANGED <<ask, got, shown, call, replies, chip, clean, faults, commands>>

(* The response report reaches hsm-host, or whoever sent the stray one. *)
Receive ==
  /\ stage = "answered"
  /\ IF ask = NoCall
       THEN stage' = "idle" /\ UNCHANGED <<got, shown>>
       ELSE LET r   == answer_to(NextRequest, wire)
                all == Append(got, r.value)
            IN  IF r.ok /\ Len(all) < Len(main(ask, all).value)
                  THEN stage' = "asking" /\ got' = all /\ UNCHANGED shown
                  ELSE /\ stage' = "idle"
                       /\ got' = IF r.ok THEN all ELSE got
                       /\ shown' = IF r.ok THEN Ok(shows(ask, all)) ELSE r
  /\ wire' = <<>> /\ call' = NoCall /\ replies' = <<>>
  /\ UNCHANGED <<ask, serial, chip, fault, clean, faults, commands>>

(* The next token on the bench. *)
NewToken ==
  /\ stage = "idle" /\ commands = MaxCommands
  /\ stage' = "idle" /\ ask' = NoCall /\ got' = <<>> /\ shown' = Ok(<<>>)
  /\ wire' = <<>> /\ call' = NoCall /\ replies' = <<>> /\ serial' = <<>>
  /\ chip' \in {Blank(zone) : zone \in Zones}
  /\ fault' = NoFault /\ clean' = FALSE /\ faults' = 0 /\ commands' = 0

Next ==
  \/ \E line \in Asked : Start(line)
  \/ \E opcode \in StrayOpcodes, line \in Asked : Stray(opcode, line)
  \/ Decline \/ send_command \/ Dispatch
  \/ ChipReplies
  \/ \E status \in ChipRefusals : ChipRefuses(status)
  \/ \E where \in Noise : NoisyReply(where)
  \/ \E kind \in {"Hal", "WakeFailed", "SelfTestFailure", "Timeout"}, done \in BOOLEAN :
       BusFails(kind, done)
  \/ CredentialReturns \/ Receive \/ NewToken

Spec == Init /\ [][Next]_vars

-----------------------------------------------------------------------------
Ended == stage = "idle" /\ ask # NoCall

(* The memory of the chip, in the terms of the command line. *)
Truth(line) ==
  LET a    == line.args
      zone == chip.zone
      Byt(lo, n) == [i \in 1..n |-> zone[lo + i]]
  IN  CASE line.cmd = "Info"           ->
             <<Revision, Byt(0, 4) \o Byt(8, 5), ConfigLocked(chip) /\ DataLocked(chip)>>
        [] line.cmd = "ReadConfig"     -> zone
        [] line.cmd = "ReadConfigSlot" ->
             <<ZoneWord(zone, 20 + 2 * a[1]), ZoneWord(zone, 96 + 2 * a[1])>>
        [] line.cmd = "ReadSlotBlock"  -> SlotBlock(chip, a[1], a[2])
        [] line.cmd = "ReadSlotWord"   ->
             [i \in 1..4 |-> SlotBlock(chip, a[1], a[2])[4 * a[3] + i]]
        [] line.cmd \in {"GetPubkey", "GenKey"} -> PublicKey(chip, a[1])
        [] line.cmd = "ReadCounter"    -> <<1, 5 + a[1] + 512>>
        [] OTHER                       -> <<>>

(* What a command that changes the chip is for. *)
Achieved(line) ==
  LET a == line.args
  IN  /\ line.cmd = "WriteConfig" =>
           \A i \in 1..128 : (i - 1) \div 4 \in ReadOnlyWords \/ chip.zone[i] = a[1][i]
      /\ line.cmd = "ProvisionSlot" => SlotBlock(chip, a[1], 0) = a[2]
      /\ line.cmd = "LockConfig"    => ConfigLocked(chip)
      /\ line.cmd = "LockDataZone"  => DataLocked(chip)
      /\ line.cmd = "LockSlot"      => SlotLocked(chip, a[1])

(* A success hsm-host reports is true: the value it prints is the one in   *)
(* the chip at the place that was asked for, after two encodings and two   *)
(* decodings; a change it reports was made.                                *)
(* Credential commands' results are PinService's.  data_address drops the  *)
(* upper bits of a word offset, and no caller checks it: past the block,   *)
(* the word shown is another one.                                          *)
ShowsTheTruth ==
  Ended /\ shown.ok /\ ask.cmd \notin CredentialCalls /\ InsideBlock(ask)
    => /\ ask.cmd \notin {"WriteConfig", "ProvisionSlot", "LockConfig"} =>
            shown.value = Truth(ask)
       /\ Achieved(ask)

(* What the documents make of a failure f of a request.  LockCrcMismatch   *)
(* is the chip's refusal of the lock that carries a CRC, and of that one.  *)
Named(cmd, f) ==
  CASE f.kind = "Chip" /\ cmd = "LockConfigZone" /\ f.chip = "ExecutionError" ->
         [kind |-> "LockCrcMismatch", data |-> <<>>]
    [] f.kind \in DOMAIN StatusOf -> [kind |-> StatusOf[f.kind], data |-> f.data]
    [] OTHER -> f

(* The other two locks' ExecutionError, which write_lock_error misnames:   *)
(* MismatchOnlyOfConfig of Provisioning is about that one.                 *)
Misnamed(cmd, f) ==
  f.kind = "Chip" /\ cmd \in {"LockDataZone", "LockSlot"} /\ f.chip = "ExecutionError"

(* The operator sees the failure that happened: the chip's own status, the *)
(* driver's kind of error or the service's, after write_error has turned   *)
(* it into a status and a byte and send_command has turned it back.        *)
ErrorsNamed ==
  Ended /\ fault \notin {NoFault, [kind |-> "Noise"]} /\ ~Misnamed(NextRequest.cmd, fault) =>
    ~shown.ok /\ shown.error = Named(NextRequest.cmd, fault)

(* One flipped bit of a reply, its count byte and its CRC included, never  *)
(* passes for a reply: the command ends in an error of the driver.         *)
CorruptionRefused ==
  Ended /\ fault = [kind |-> "Noise"] =>
    ~shown.ok /\ shown.error.kind \in {"BadCrc", "MalformedResponse"}

(* A command that asks for no PIN, and that the documents and the policy   *)
(* words permit in the token's state, succeeds when nothing is injected:   *)
(* no length check, parser, address or write plan on its way is out of     *)
(* step with another.                                                      *)
CleanRunSucceeds == Ended /\ clean => shown.ok

(* The service is called with exactly what the operator typed, the lock    *)
(* with the CRC of the zone that is locked; a report with another          *)
(* command's payload reaches no irreversible method.                       *)
CalledAsTyped ==
  stage = "service" =>
    IF ask = NoCall
      THEN call.cmd \notin Irreversible
      ELSE call =
        CASE ask.cmd = "ReadConfig"  -> [cmd |-> "ReadConfigZone", args |-> <<Len(got)>>]
          [] ask.cmd = "WriteConfig" ->
               [cmd |-> "WriteConfigZone",
                args |-> <<Len(got), [i \in 1..32 |-> ask.args[1][32 * Len(got) + i]]>>]
          [] ask.cmd = "LockConfig"  ->
               IF Len(got) < 4 THEN [cmd |-> "ReadConfigZone", args |-> <<Len(got)>>]
                 ELSE [cmd |-> "LockConfigZone", args |-> <<crc16(chip.zone)>>]
          [] OTHER -> ask
=============================================================================
