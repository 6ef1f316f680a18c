---------------------------- MODULE WirePathInv -----------------------------
(***************************************************************************)
(* The two inductive invariants of WirePath: WireInv, the invariant behind *)
(* CorruptionRefused, ErrorsNamed and CalledAsTyped, and TruthInv, which   *)
(* adds what ShowsTheTruth and CleanRunSucceeds need.  WirePathProofs      *)
(* proves that they hold.                                                  *)
(***************************************************************************)
EXTENDS WirePath

(***************************************************************************)
(* The inductive invariant.  A report or a method under way is always the  *)
(* next one of the command line typed, the replies so far have the lengths *)
(* asked for, and once a fault has happened the answer under way names it. *)
(***************************************************************************)
(* A chip's memory. *)
ChipOk(c) ==
  /\ c = [zone |-> c.zone, data |-> c.data, keys |-> c.keys]
  /\ c.zone \in Bytes /\ Len(c.zone) = 128
  /\ \A s \in DOMAIN c.data : c.data[s] \in Bytes /\ Len(c.data[s]) = 32
  /\ c.keys \in [Slots -> 0..2]

ConfigBlock(b) == Field(chip.zone, 32 * (b - 1), 32)

(* A call the handler lets through and the method does not refuse. *)
WellFormed(c) ==
  /\ c.cmd \in Commands
  /\ c.cmd \in TakesSlot => c.args[1] \in Nat /\ c.args[1] <= 15
  /\ c.cmd \in {"ReadConfigZone", "WriteConfigZone"} => c.args[1] \in Nat /\ c.args[1] <= 3
  /\ c.cmd \in {"WriteConfigZone", "ProvisionSlot"} =>
       c.args[2] \in Bytes /\ Len(c.args[2]) = 32
  /\ c.cmd \in {"ReadSlotBlock", "ReadSlotWord"} => c.args[2] \in Byte
  /\ c.cmd = "ReadSlotWord" => c.args[3] \in Byte
  /\ c.cmd = "ReadCounter" => c.args[1] \in Nat /\ c.args[1] <= 1
  /\ c.cmd = "LockConfigZone" => c.args[1] \in Word

(* The command line has a next request. *)
Progress ==
  /\ ask \in Asked /\ got \in Seq(Bytes) /\ main(ask, got).ok
  /\ Len(got) < Len(main(ask, got).value)

(* lock-config has read the zone as it is. *)
ZoneKnown ==
  ask.cmd = "LockConfig" => \A b \in 1..Len(got) : got[b] = ConfigBlock(b)

Report == to_report(CommandOpcode[NextRequest.cmd], NextRequest.payload).value

Whole(report) == report \in Bytes /\ Len(report) = 128

(* The replies of a method under way are those of its first commands. *)
RepliesOk(all) ==
  LET commands_ == ChipCommands(call, serial)
  IN  /\ all \in Seq(Bytes)
      /\ \A i \in 1..Len(all) : Len(all[i]) = commands_[i].want
      /\ call.cmd = "ReadConfigZone" => \A i \in 1..Len(all) : all[i] = ConfigBlock(i)

Refused == {Failure("BadCrc"), Failure("MalformedResponse")}

(* What hsm-host makes of a failure f of a request: what Named says, and   *)
(* for any lock's ExecutionError LockCrcMismatch.                          *)
ShownAs(cmd, f) ==
  CASE f.kind = "Chip" /\ cmd \in LockCalls /\ f.chip = "ExecutionError" ->
         [kind |-> "LockCrcMismatch", data |-> <<>>]
    [] f.kind \in DOMAIN StatusOf -> [kind |-> StatusOf[f.kind], data |-> f.data]
    [] OTHER -> f

AskingInv == stage = "asking" => Progress /\ ZoneKnown /\ fault = NoFault

SentInv ==
  stage = "sent" =>
    /\ Whole(wire) /\ fault = NoFault
    /\ ask # NoCall => Progress /\ ZoneKnown /\ wire = Report
    /\ ask = NoCall /\ handle_one_request(wire).ok =>
         handle_one_request(wire).value.cmd \notin Irreversible

ServiceInv ==
  stage = "service" =>
    /\ fault = NoFault /\ WellFormed(call)
    /\ ask # NoCall => Progress /\ ZoneKnown /\ call.cmd = NextRequest.cmd
    /\ call.cmd \notin CredentialCalls =>
         RepliesOk(replies) /\ Len(replies) < Len(ChipCommands(call, serial))

AnsweredInv ==
  stage = "answered" =>
    /\ Whole(wire)
    /\ ask # NoCall => Progress
    /\ fault = [kind |-> "Noise"] => receive(wire) \in Refused
    /\ fault \notin {NoFault, [kind |-> "Noise"]} =>
         /\ receive(wire) = Err(ShownAs(call.cmd, fault))
         /\ ask # NoCall => call.cmd = NextRequest.cmd
    /\ ask.cmd = "LockConfig" /\ Len(got) < 4 =>
         /\ ZoneKnown
         /\ receive(wire).ok => receive(wire).value = ConfigBlock(Len(got) + 1)

WireInv ==
  /\ stage \in {"idle", "asking", "sent", "service", "answered"}
  /\ ask = NoCall \/ ask \in Asked
  /\ ChipOk(chip) /\ serial \in Bytes
  /\ AskingInv /\ SentInv /\ ServiceInv /\ AnsweredInv
  /\ CorruptionRefused /\ ErrorsNamed /\ CalledAsTyped

(***************************************************************************)
(* What hsm-host shows is true, and a clean command succeeds.  The second  *)
(* inductive invariant, on top of WireInv: the serial number cached, the   *)
(* replies and the answers so far are the chip's own, the zone holds what  *)
(* write-config has written so far, and a clean command line stays         *)
(* permitted while it has requests left.                                   *)
(***************************************************************************)
(* What the chip does with a command. *)
Does(x, c) == Execute(x.op, x.p1, x.p2, x.data, c)

(* What the next request of a command line is, given the answers so far.   *)
Typed(line, g) ==
  CASE line.cmd = "ReadConfig"  -> [cmd |-> "ReadConfigZone", args |-> <<Len(g)>>]
    [] line.cmd = "WriteConfig" ->
         [cmd |-> "WriteConfigZone",
          args |-> <<Len(g), [i \in 1..32 |-> line.args[1][32 * Len(g) + i]]>>]
    [] line.cmd = "LockConfig"  ->
         IF Len(g) < 4 THEN [cmd |-> "ReadConfigZone", args |-> <<Len(g)>>]
           ELSE [cmd |-> "LockConfigZone", args |-> <<crc16(FullZone(g))>>]
    [] OTHER -> line

(* The methods that only read, and whose answers need several replies. *)
Readers == {"Info", "ReadConfigZone", "ReadConfigSlot"}

(* The serial number the token caches is the chip's. *)
SerialTrue == serial \in {<<>>, cached_serial(chip.zone)}

(* The replies a reader has so far are what the chip answers to its        *)
(* commands.                                                               *)
RepliesTrue ==
  stage = "service" /\ call.cmd \in Readers =>
    \A i \in 1..Len(replies) : replies[i] = Does(ChipCommands(call, serial)[i], chip).reply

(* The answer v to the call k is true of the chip c. *)
Tells(k, c, v) ==
  CASE k.cmd = "Info" -> v = Revision \o cached_serial(c.zone) \o (IF is_provisioned(c.zone) THEN <<1>> ELSE <<0>>)
    [] k.cmd = "ReadConfigZone" -> v = Field(c.zone, 32 * k.args[1], 32)
    [] k.cmd = "ReadConfigSlot" -> v = read_config_slot(c.zone, k.args[1])
    [] k.cmd = "ReadSlotBlock" -> v = SlotBlock(c, k.args[1], k.args[2])
    [] k.cmd = "ReadSlotWord" -> v = Field(SlotBlock(c, k.args[1], k.args[2]), 4 * (k.args[3] % 8), 4)
    [] k.cmd \in {"GetPubkey", "GenKey"} -> v = PublicKey(c, k.args[1])
    [] k.cmd = "ReadCounter" -> v = CountOf(k.args[1])
    [] k.cmd = "ProvisionSlot" -> v = <<>> /\ SlotBlock(c, k.args[1], 0) = k.args[2]
    [] k.cmd = "LockConfigZone" -> v = <<>> /\ ConfigLocked(c)
    [] k.cmd = "LockDataZone" -> v = <<>> /\ DataLocked(c)
    [] k.cmd = "LockSlot" -> v = <<>> /\ SlotLocked(c, k.args[1])
    [] OTHER -> v = <<>>

(* A response report under way that hsm-host takes for a success. *)
Heeded == stage = "answered" /\ receive(wire).ok

(* It answers the call that was typed, and is true of the chip. *)
AnswerTrue ==
  Heeded => /\ WellFormed(call)
            /\ ask # NoCall => call = Typed(ask, got)
            /\ call.cmd \notin CredentialCalls => Tells(call, chip, receive(wire).value)

(* read-config has read the zone as it is. *)
BlocksKnown ==
  stage # "idle" /\ ask.cmd = "ReadConfig" => \A b \in 1..Len(got) : got[b] = ConfigBlock(b)

(* How far into the block b its first m writes reach. *)
Reach(b, m) ==
  CASE b = 0 -> IF m = 0 THEN 0 ELSE 16 + 4 * m
    [] b = 2 -> IF m <= 5 THEN 4 * m ELSE 4 * m + 4
    [] OTHER -> 32 * m

(* A zone that holds the first n bytes of a blob, the chip's own apart. *)
WrittenTo(z, blob, n) ==
  \A i \in 1..n : (i - 1) \div 4 \in ReadOnlyWords \/ z[i] = blob[i]

(* The zone holds the first n bytes of write-config's file. *)
Written(n) == WrittenTo(chip.zone, ask.args[1], n)

(* write-config has written what it has been answered for, and under way   *)
(* what the chip has acknowledged.                                         *)
WritesKept ==
  ask.cmd = "WriteConfig" =>
    /\ stage \in {"asking", "sent"} => Written(32 * Len(got))
    /\ stage = "service" => Written(32 * Len(got) + Reach(Len(got), Len(replies)))
    /\ Heeded => Written(32 * (Len(got) + 1))

(* A command line whose last request is still to come. *)
Going == ask.cmd \in {"ReadConfig", "WriteConfig"} \/ (ask.cmd = "LockConfig" /\ Len(got) < 4)

(* A clean command line stays permitted as long as requests are left, and  *)
(* nothing it is answered is an error.                                     *)
CleanInv ==
  clean =>
    /\ ask # NoCall
    /\ stage \in {"asking", "sent", "service"} => Permitted(ask)
    /\ stage = "answered" =>
         receive(wire).ok /\ call.cmd \notin CredentialCalls /\ (Going => Permitted(ask))

(* The invariant. *)
TruthInv ==
  /\ SerialTrue /\ RepliesTrue /\ AnswerTrue /\ BlocksKnown /\ WritesKept /\ CleanInv
  /\ ShowsTheTruth /\ CleanRunSucceeds
=============================================================================
