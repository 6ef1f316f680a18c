# A TLA+ model of pico-hsm-rs

pico-hsm-rs is the firmware and host tool of a USB signing token: an RP2040
runs cooperative tasks, an ATECC608B secure element holds the keys and the
hashes of a PIN and a PUK, a button must be pressed for every signature. This
directory models the parts of it whose correctness depends on order, failure
and time, checks them with TLC on small instances, and proves the central
properties with TLAPS for every value of the constants.

## 1. The system

| Component | State it keeps | Operations | Interacts with |
|---|---|---|---|
| Credential service (`hsm-crypto-service`) | PIN session (`Session`), cached serial; on the chip: two monotonic counters, slots 5 (PIN), 6 (PUK), 8 (I/O key), identity keys 0-4 and 7 | `verify_pin`, `set_pin`, `unblock_pin`, `set_puk`, `emergency_reset`, `genkey_create`, `sign`, `close_session` | called by the dispatch loop, one method at a time; issues chip commands through the driver |
| Firmware tasks (`hsm-firmware`) | event channel (16), `TOUCH_CONFIRMED` pulse, `TOKEN_STATE` signal, two deadlines | `dispatch_loop` and its handlers, `state_task`, `touch_task`, `animation_task` | share the three static primitives; the dispatch loop owns the service |
| State machine (`hsm-firmware-logic/state_machine.rs`) | `TokenState` | `on_event` | driven by `state_task` |
| Debouncer (`hsm-firmware-logic/io.rs`) | stable and candidate level, count | `sample` | `touch_task` posts its presses |
| Chip driver (`atecc608b`) | an open channel; on the chip: power state, watchdog, output buffer, TempKey | `open_channel`, `execute_command`, polling, `close`, drop | service above, I2C below |
| Provisioning (`service.rs`, `hsm-host`) | configuration zone, lock bits, secret slots; on the host: the secrets file, a command in progress | `write-config`, `lock-config`, `lock-data`, `lock-slot`, `provision-slot`, `provision-token` | several host processes, requests served one at a time |
| HID exchange (`hsm-host/device.rs`, `usb.rs`, `dispatch_loop`) | reports in flight, input reports queued per handle, a response nobody polls | `open`, `send_command`, `rx.read`, `tx.write` | host processes and dispatch loop |
| Request path (`hsm-host/main.rs`, `hsm-usb-protocol`, `tasks.rs`, `atecc608b` packet, CRC and commands) | none of its own; the serial the service caches | every subcommand: arguments, report, parser, handler, chip frames, response, display | the whole stack, top to bottom |
| Configuration generator (`config-generator`) | none; its 128 bytes become the chip's policy | `build`, the policy words | decides what the chip lets the service do |
| HAL, USB descriptors | hardware | | |

What is hard here:

* every service method is a chain of chip commands with an early return after
  each: an I2C error, a lost reply or unplugging the token can hit between any
  two, while the chip's counters and slots persist;
* the chip counts a CheckMac whether it matches or not, the service keeps
  "attempts left" in the remainder of that counter, and both must agree at the
  remainders 0 and 1 and at the hardware limit;
* four tasks, two deadlines and the touch window race with each other, and two
  of the three primitives between them lose information by design (the channel
  drops when full, the signals keep the last write);
* dropped channels leave the chip awake with old answers and an old TempKey;
* provisioning is irreversible, spans many requests, and its secrets exist
  only in the memory of a process until the last one;
* requests and responses carry no identifier, processes overlap, time out and
  are killed, and the token outlives them all;
* a value crosses five encodings between the operator and the chip, and an
  error crosses four on its way back; each layer has its own length checks;
* what the service may do is decided by 32 policy words that another program
  wrote, and the service's session is only a shadow of the chip's own record
  of the PIN.

The complete list, line by line, is `hazards` in `PROJECT.json`.

Properties that make each part correct: the lockout bound and "keys go only
by GenKey or with both counters exhausted" (credential service); a signature
needs a fresh press, every request is answered, the display follows the state
(firmware); no glitch, no lost level (debouncer); no old answer, no foreign
nonce, every method returns (driver); a reported write is whole, the secrets
are saved before success is reported, a mismatch on locking tells the truth
(provisioning); a run takes its own answers, no process and no loop is stuck
(HID exchange); what is shown is what the chip holds, and what is called is
what was typed (request path); the policy words let the owner of the PIN in,
and a session what it is for (configuration).

## 2. Modules

| Module | Models | Notes |
|---|---|---|
| `PinService` | credential service | one step per chip command |
| `PinPolicy` | what the credential service promises | abstract specification; `PinService` has the mapping (`Policy`, `ImplementsPolicy`) |
| `MCPinService` | instance of `PinService` for TLC | |
| `PinServiceProofs` | theorems on `PinService` | |
| `TokenFirmware` | tasks and state machine | one step per stretch between two waiting awaits |
| `TokenFirmwareProofs` | theorems on `TokenFirmware` | |
| `Debouncer`, `DebouncerProofs` | debouncer and its theorems | one step per sample |
| `AteccDriver`, `AteccDriverProofs` | driver and chip timing, and its theorems | one step per transfer or tick |
| `Provisioning`, `ProvisioningProofs` | provisioning commands and their theorems | one step per request |
| `MCProvisioning` | its instance for TLC | |
| `HidExchange` | overlapping runs of hsm-host and the dispatch loop | one step per report |
| `MCHidExchange`, `HidExchangeProofs` | its instance, its theorems | |
| `AteccWire` | CRC-16, chip frames, addresses, error codes, chip commands | operators only |
| `UsbProtocol` | opcodes, statuses, reports, payload parsers | operators only, extends `AteccWire` |
| `HsmHost` | subcommands: requests, accepted lengths, decoding, display | operators only, extends `UsbProtocol` |
| `TokenDispatch` | request checks, chip commands per method, results, error reports | operators only, extends `UsbProtocol` |
| `ConfigZone` | the generator's 128 bytes and the meaning of the policy words | operators only, extends `AteccWire` |
| `WirePath` | a command's way through all of these and the chip | composes `HsmHost`, `TokenDispatch`, `ConfigZone`; one step per report or chip command |
| `MCWirePath` | its instance | |
| `WirePathInv`, `WirePathProofs` | its inductive invariants, its theorems | |
| `SlotPolicy`, `SlotPolicyProofs` | the service's methods against the chip's policy, and the theorems | `INSTANCE`s `ConfigZone`; one step per chip command |

Definitions carry the names of the source where they translate one function;
`PROJECT.json` maps every definition to its lines. Definitions with an
underscore suffix (`refresh_bumps_Short`, `handle_sign_NoReset`, ...) are
deliberately wrong variants: each property is shown to fail when the variant
takes the place of the definition it follows.

### PinService

`count`, `pin`, `puk` and `keys` are the chip's persistent state; `open` and
`age` are the session; `req`, `step`, `left` and `since` are the method in
progress (arguments, next command, loop counter, its local `now`). `Follow`
gives, for each method, the order of its commands; each command is an action
(`CheckTries`, `CheckMacRight`, `WritePin`, `RefreshBump`, ...), which takes
effect and either goes on (`Proceed`) or, when faults are on, loses its reply
(`ReplyLost`). `ChipFault` fails a command before it takes effect, `PowerLoss`
clears RAM. Of the last answer `resp` keeps whether it was Ok and whether an Ok
ended a reset, all that a property asks of it. A refresh goes on until its increments are done (`RefreshDone`) or
the chip refuses one with an ExecutionError, wherever the counter stands
(`RefreshRefused`): then the method goes on and may answer Ok all the same.
`wrong`, `proven` and `owed` are history: wrong secrets presented since a right
one, what the method in progress has proved, and the counters whose refresh
was earned and has not been completed.

A hash slot stores its secret: the salted hash is injective on well-formed
secrets for a fixed serial. An encrypted write is accepted exactly if its MAC
was built with the I/O key in slot 8; a method uses the host's I/O key for
nothing else, so the model chooses whether it was right at the method's first
encrypted write (`WriteRefused`). The identity slots' ReqAuth bit is not part
of this module, which has the checks the service makes; `SlotPolicy` has the
chip's.

### TokenFirmware

`sm`, `sessionDl`, `errorDl` belong to `state_task`; `queue`, `confirmed`,
`published` are the channel, the pulse and the signal; `disp`, `kind`,
`touchLeft` are the dispatch loop; `open`, `age` the service's session. Tasks
are cooperative, so a step runs to the next await that waits; `draining` keeps
the executor with `state_task` until the channel is empty, because receiving
from a non-empty channel does not yield. Time passes only when no task is
ready, except during chip commands. Two things about real time are built in
and named where they are used: presses are at least ten samples apart
(`touch_task`; `PressesApart` of `Debouncer` is the reason), and a chip request
lasts longer than one round of the executor (`ChipRequestDone`). The response
report is taken to be sent at once: the operating system polls the endpoint.

### Debouncer

`stable`, `candidate`, `count` are the struct; `SampleSame`, `SampleCandidate`
and `SampleNew` its three branches; `sample_once` the press edge. `raw`, `run`
and `sincePress` record the input's history for the properties.

### AteccDriver

The chip side is external and modelled from how the driver and the comments
use it: awake, idle or asleep; a watchdog; a busy time; whose answer the output
buffer holds and whose Nonce loaded TempKey ("own", "stale" or "none"). The
driver side follows `open_channel`, `run_command`, `poll_for_response`, `close`
and the drop of a channel; `ClosesOnError` says which service methods close
the channel on error and which drop it. A tick is 215 ms, the nominal GenKey.

### Provisioning

Each process of `Clis` runs one command at a time, a request per step. Every
request may fail before, in the middle of or after taking effect. Words of the
configuration zone are "factory" or "blob", the CRC stands for the zone
itself, drawn secrets are fresh model values. A process that ends with an error
keeps whether it was LockCrcMismatch, and which command it was. What the chip
takes depends here on the locks alone; a slot whose policy words are still the
factory's may refuse more, which is among the failures any request can have.

### HidExchange

Each member of `Runs` is a process: `pc`, its `program` (the requests it will
send), `step`, and the input reports queued for its handle (`inbox`). `pipe` is
what the host's USB stack holds for the token, `work` the request
`dispatch_loop` is handling, `held` a response in the endpoint that nobody
polls. A report says neither who asked nor for what, so `Receive` takes the
first one queued; the owner recorded in it is history. `Ends` is every way a
process ends. The queues of the operating system are external and
parameters; whether a report held while nobody had the device open is handed
to the next one or dropped is left open, as systems differ.

### The request path

Bytes are numbers and buffers sequences, since the properties are about
encodings: `AteccWire`, `UsbProtocol`, `HsmHost`, `TokenDispatch` and
`ConfigZone` have one operator per source function, and `WirePath` strings them
together: `Start` (arguments), `send_command`, `Dispatch` (frame, parser,
handler, refusals before the chip), one `ChipReplies` per chip command,
`Receive` (decoding, length check, next request or display). The chip
(`Execute`) is external: memory, the lock bytes, the policy words by the meaning
the generator gives their bits, read from the zone the chip has at the time
(configuration writes until the configuration lock; cleartext data writes
between the two locks, where WriteConfig lets them through; GenKey on slots
whose words allow it; public keys of slots that have one), and the same frame
format. Whether the PIN has been verified is not part of this module
(`SlotPolicy` has it), so a GenKey on a ReqAuth slot may be refused at any time
(`Unverified`). A token starts with any of `Zones`: for TLC the factory's, the
generator's, and that with both locks. Faults are injected: a
refusal of the chip's own, a bus error before or after the command took effect,
a flipped bit in a reply, a report of another program. The methods whose
outcome depends on credentials return any of their results here
(`CredentialReturns`); their steps are `PinService`'s, `TokenFirmware`'s and
`Provisioning`'s. A u32 is two 16-bit halves because TLC's integers are
signed 32-bit ones.

`Permitted`, `Truth` and `Named` are the reference, read off the documents
rather than the code: which command line may expect success in which state of
the chip, what it should show, and what it should say of a failure. `Permitted`
covers the commands that need neither a PIN session nor a touch; GenKey is left
out, since the protocol document and the policy words ask for the PIN. `Named`
leaves out `Misnamed`, a lock that lets the chip check no CRC and is refused,
which the run `lock_errors` is about. A word offset past the block (`InsideBlock`) is outside
both: the documents exclude it. The code does not (section 3, "Other
disagreements").

### SlotPolicy

A method of the service is the list of chip commands it issues; the chip
(`Allows`, `Effect`, external) accepts or refuses each one by the bits of
`ConfigZone`'s words (`Accepts` for writes). `verified` is the chip's record of
successful CheckMacs, which ReqAuth consults; `session` is the service's. A
method that fails may leave the chip awake (`Closes` says after which refusals
the channel is closed), and the watchdog then puts it to sleep (`Sleep`), which
clears the record and not the session. "Always" is taken as `blob.rs` defines
it: cleartext writes until the data lock, none after. Three things the
documents leave open are assumed or left open: the chip keeps a record per slot
until it sleeps; ReqAuth may or may not be applied before the data lock
(`MayRefuse`); a failed CheckMac may or may not clear the record (`Refuse`).

## 3. Runs

Passing runs:

| Run | Checks | Bounds |
|---|---|---|
| `pin_faulty` | `TypeOK`, `GuessBudget`, `TriesExact`, `ResetComplete`, `KeysSafe`, `ImplementsPolicy` | 2 PINs, 2 PUKs, 2 identity slots, faults and wrong I/O keys |
| `token_firmware` | `TypeOK`, `SignatureNeedsFreshTouch`, `SigningShown`, `WaitingIsReal`, `RoomInQueue`, `LedsFollow`, and with fairness `RequestAnswered`, `ErrorClears` | ticks of 5 s: session 6, touch 6, error 1; channel of 5 |
| `debouncer` | `TypeOK`, `Responsive`, `GlitchFree`, `PressesApart` | the code's threshold, 5 |
| `atecc_driver` | `TypeOK`, `OwnAnswer`, `OwnNonce`, `MethodReturns` | watchdog shorter than the polling window, faulty bus |
| `provisioning` | `TypeOK`, `SecretsKept`, `WriteConfigWhole`, `MismatchIsLocked` | 2 processes, all 32 words, 9 secrets |
| `wire_path` | `ShowsTheTruth`, `ErrorsNamed`, `CorruptionRefused`, `CleanRunSucceeds`, `CalledAsTyped` | 25 command lines covering every subcommand, 3 zones, sequences of 3, one fault per token |
| `hid_exchange` | `OwnWhenAlone`, and with fairness `CommandEnds`, `LoopGoesOn` | 2 processes, programs of 2 and 1 requests, queues of 1 |
| `slot_policy` | `OwnerGetsIn`, `SignServed` | one slot of every kind of policy, unbounded sequences of calls |

Why the bounds are enough. Two PINs give a right and a wrong one and a change.
`CounterMax = 11` is one past a multiple of both batch sizes, as 2^21 - 1 is,
and holds two PIN batches and a PUK batch: a counter passes from fresh through
saturated to its limit. One tick of session suffices for "active" and
"expired". The channel of 5 is smaller than the code's 16, so `RoomInQueue`
is the stronger claim: it never fills beyond four. The driver's times are
scaled so that every order of command end, poll timeout and watchdog occurs.
Two processes give every pairwise interference; the
commands are shared out so that both may lock the configuration and every
command runs against every other one that changes something (`MCOffered`). Three commands in a row reach
a written, locked and used zone (write-config, lock-config, then a third); the
arguments sit at the boundaries the code checks: slots 0, 9, 15 and 16, word
7, a counter that does not exist, a PIN of the wrong length. One fault per
token is enough for properties that speak of one command. With queues of 1 a
report can already be late, taken by another run or dropped; `HidExchangeProofs`
covers every size. The slots of `slot_policy` are one identity slot of each
policy (0, 2), the three secrets (5, 6, 8) and an import slot (15). Each
module's actions are all reached by its passing runs.

The symmetry used (`PukSymmetry`) permutes PUKs, which no action or property
names; it is used in `pin_faulty`, whose properties are invariants, an action
property and a refinement without fairness.

Runs that refute a sentence of the repository (`findings` quotes each one):

| Run | The sentence | What happens |
|---|---|---|
| `touch_stuck` | SignComplete is fired so that the machine is not stuck in Signing | a press in the instant the window closes: the timer wins the select, TouchTimeout is ignored in Signing, nothing ends it |
| `lock_errors` | LockCrcMismatch cannot occur for LockDataZone and LockSlot (`tasks.rs:542`) | `write_lock_error` makes one of every ExecutionError of either |
| `reset_refused` | EmergencyReset replaces the keys with no PIN (`docs/usb-hid-protocol.md:53`) | on a locked token the chip refuses its first GenKey: the slots ask for the PIN by ReqAuth (`blob.rs:111`, `docs/config-zone-layout.md:454`) |
| `touch_confirmable` | the session check makes Sign fail fast | SetPin opens a session without PinVerified; the machine ignores the request and every press |

Other disagreements met while modelling, visible in the models but not asked
of TLC by a run:

* `service.rs:1193` calls `count % batch == 0` an "unambiguous saturation
  indicator" of a batch consumed "without any successful verify in between".
  CheckMac bumps the counter on success too, and a method whose write is
  refused (a wrong I/O key) returns before `refresh_counter_batch`: a right
  secret can be the attempt that saturates the counter.
* `service.rs:692` says of `emergency_reset` "No PIN session to close". A
  session opened by `verify_pin` outlives the wrong attempts that saturate both
  counters within its 30 s, and the new keys are then served under it.
* `docs/architecture.md:129` says that a TouchTimeout does not end the PIN
  session. The touch window is as long as the session and armed after it, so
  the session is always over by then.
* `service.rs:1188` says that a refresh leaves `count % batch_size == 1`. Any
  ExecutionError on an increment (`service.rs:1241`) ends it with Ok wherever
  the counter is, so a method can answer Ok and leave a spent batch; and at the
  hardware limit `emergency_reset` is documented to report Bricked
  (`service.rs:630`), which this branch never does. `owed` keeps the counters
  this happened to, and `TriesExact` speaks of the others.
* A session is not ended when the chip goes to sleep. `SignServed` says exactly
  when a signature in a session is refused for it.
* A reset that fails half-way may have written a PUK whose value went with the
  lost reply; the PIN and PUK the chip then holds may be known to nobody.
* `lock-slot` on 2, 3, 4 or 7 makes every later `emergency_reset` stop part of
  the way through, at that slot.
* `service.rs:906` says that slot 8 becomes writable through the encrypted
  protocol after the data lock; its word and the comment on it (`blob.rs:55`,
  `blob.rs:84`) make it immutable. The models follow the word.
* Requests carry no identifier. Once a response is left behind (its process
  was killed or timed out), a later run can take it for its own and every run
  after that can be one answer behind until a report is dropped or the token
  is unplugged. `device.rs:20` and `tasks.rs:75` rely on one exchange at a
  time; `OwnWhenAlone` says exactly when that is enough.
* Wording: `commands.rs` documents EmergencyReset's magic as little-endian
  while the bytes are BA DC 0F FE in that order, SetPin's, UnblockPin's and
  SetPuk's payloads without the I/O key, and `docs/usb-hid-protocol.md`
  ReadCounter's answer as 8 bytes (it is 4); the generator's annotation calls
  the CRC of the blob the one to lock with, while the host computes it over the
  whole zone.
* `docs/usb-hid-protocol.md:55` and `main.rs:89` say that ReadSlotWord's offset
  is in 0..=7, and `read_write.rs:507` says of the bits the address functions
  drop that "callers are responsible for valid inputs". No caller checks: clap
  takes any u8, `parse_read_slot_word` only looks at the length, handler and
  service pass it on. `data_address` keeps the low three bits, so offset 9 reads
  word 1 and hsm-host prints it as word 9. The first version of `TruthInv` did
  not hold for this reason.
* `handle_close_session` posts no event, so the token keeps showing
  Authenticated ("PIN session is active", `state_machine.rs:39`) after
  CloseSession until the state machine's own deadline.
* `docs/usb-hid-protocol.md:44` and `commands.rs:51` say that GenKey requires
  an active session; neither `handle_genkey` nor `genkey_create` checks one
  (but see ReqAuth above).
* The nominal waits of the six GenKeys that `emergency_reset` runs in one
  channel (6 x 215 ms) come to the chip's watchdog of about 1.3 s, so an open
  channel need not mean an awake chip.
* `provision-token` checks for the secrets file at its start and writes it at
  its end, so of two overlapping runs the later overwrites the file of the
  earlier.

### Fairness

`HidExchange`: a process that can go on does (its read returns after 60 s at
the latest), and the dispatch loop reads and writes when it can. Nothing makes
anyone open, interrupt, lose or unplug; `LoopGoesOn` therefore speaks of
behaviours in which the device keeps being opened.

`TokenFirmware`: embassy's executor polls every woken task in each round
(strong fairness of the tasks' steps, since another task's turn interrupts
their enabledness), chip commands end (which `AteccDriver` shows of the
driver), time passes. Nothing is assumed of host and user: no request and no
press need ever come. `AteccDriver`: weak fairness of the driver's own step
and of time: each single I2C transfer is assumed to end, since the HAL gives
it no timeout.

## 4. Proofs

All theorems hold for every value of the constants that satisfies the named
assumptions; TLC evaluates the assumptions in every run.

**`PinServiceProofs`.** `TypeCorrect` is inductive as it stands. `GuessBudget`
is not: nothing in it says that an attempt is left when CheckMac runs, or that
a refresh was earned. `BudgetInv` adds `Gated` (between the early read and
CheckMac an attempt is left, as no other method runs meanwhile) and `Proved`
(at every command that changes the chip the method has proved its right to,
and then `wrong` is 0 for the counters it refreshes). `GuessBudgetHolds` rests
on it, on `CounterMaxAssumption` for nothing but types, and on no assumption
about faults. `KeysSafe` follows from `StillSaturated`: the counters found
saturated still are when the keys go.

`TriesExact` needs `ExactInv`: `Landing` (a refresh in progress would land on
remainder 1, within the hardware limit, if nothing stopped it) and `Owing` (a
method that has proved its right to refresh a counter and has not done so owes
it). Only a refresh that runs to its end takes a counter out of `owed`, so a
refused increment, answered Ok or not, a lost reply and a power loss all leave
it there. `CounterMaxAssumption` (the limit is 1 modulo 5 and 10, as 2^21 - 1
is) enters where an increment would pass the limit.

`ResetComplete` needs `ResetSoFar`: how far the loop over the identity slots
has come and which keys it has replaced, and that no answer stands while a
request is in progress. `ResetCompleteHolds` allows every fault: a reset that
loses a reply does not answer Ok.

`PolicyImplemented` shows the refinement: initial states map to initial states,
and every action maps to one step of `PinPolicy` or to a stutter. CheckMac with
a wrong secret is the policy's wrong attempt, with the right one its proof;
the encrypted writes are its changes of PIN and PUK; GenKey its key
replacement; bumps of a refresh move `tries` up only behind a proof. What the
policy asks of each of these is what `BudgetInv` (an attempt is left, the right
was proved, the refresh was earned) and `ResetInv` say of the step.

**`TokenFirmwareProofs`.** `TouchInv` joins the type invariant, the three
properties and `Untouched` (while a Sign waits untouched no pulse is pending
and every queued press precedes its SignRequested), `RequestQueued`,
`TimeoutQueued`, `WindowCoversSession` and `OnlyPresses`. The key is
`WindowCoversSession`: the session ends no later than the touch window, so a
new Sign cannot be accepted while the TouchTimeout of the last one is still
queued. It needs `TOUCH_TIMEOUT >= SESSION_TIMEOUT`, which the code's values
satisfy and no assertion of the code protects. `FreshTouch`, `SigningIsShown`
and `WaitingHasRequest` follow.

`NothingDropped` bounds the channel by counting (`QueueBound`): at most one
press is queued (`OnePress`; presses are ten samples apart), a request that
ends leaves at most two events, and `SignRequested` of the next one follows
only when the loop is idle again: never more than four. It assumes
`EVENT_QUEUE_DEPTH > 4`; the code's is 16. `LedsAreCurrent` needs
`SignalCurrent`: the pending value of the signal is the machine's state, or
none is pending and the LEDs show it already.

**`HidExchangeProofs`.** `OwnWhenAlone` says nothing about where reports are, so
`Quiet` adds it: a run that is alone shares the device with nobody, no response
is held, and its one report is in exactly one place (`OneReport`): not yet
sent, in the pipe, at work, in its inbox and its own, or lost. Each step moves
it at most one place on. The number of processes, their programs and the sizes
of the queues are arbitrary.

**`AteccDriverProofs`.** `OwnAnswer` and `OwnNonce` need to know what the chip
holds. `DriverInv` adds `OnItsWay` (a command in progress is one of its flow
and polls within the window), `NothingOlder` (meanwhile neither the chip nor
its buffer holds anything of an earlier command: writing the frame replaces it)
and `NonceHeld` (from the flow's Nonce on, the nonce is its own for as long as
the chip is awake; nothing wakes a chip inside a channel). The watchdog, the
polling window and the execution times are arbitrary and the bus may be faulty,
so neither property rests on the timing constants of the driver.

**`DebouncerProofs`.** `DebounceInv` relates `count` to the length of the
input's current run; the three properties follow for every threshold.

**`ProvisioningProofs`.** Its properties speak of the end of a command; `ProvisioningInv` says what a process that nobody has disturbed
did so far: `TokenSoFar` (after each request of provision-token, which of its
secrets the chip holds), `ConfigSoFar` (the words of the blocks it has passed
have the blob's contents), `ReadSoFar` (the blocks lock-config has read are still
the chip's, and a mismatch has met a locked zone) and `PinSlotPublic` (the PIN
slot never holds a drawn secret). Every other process's step either leaves chip and file alone or
ends the claim (`alone`). The number of
processes, the commands on offer and the slots asked for are arbitrary; what
is assumed of `Secrets` is that they are not the names of a blank, given or
default slot and that there are enough of them to draw a fresh one.

**`SlotPolicyProofs`.** The policy words are the generator's, so the proof first
evaluates them slot by slot (which slots are secret, lockable, need the PIN,
take cleartext or encrypted writes). `SlotInv` then adds to `OwnerGetsIn`
`PlanOK`, `CredentialsUnlocked` (no request can lock the slot of the PIN or the
PUK) and `OwedAllowed` (every command left of a method whose caller may expect
success is one the chip allows). For `SignServed` it carries that a session,
and a signature begun in one, has the chip's record behind it or a shaky one
(`SessionBacked`, `SignBacked`), which rests on `PinFirst`: a method that opens
the session has the PIN's CheckMac ahead of it or behind it, and nothing but a
sleep, a failed CheckMac or a power cycle (which ends the session too) takes
the record away. `AskedSlots` is any subset of the sixteen.

**`WirePathProofs`.** The proof covers every command line clap lets through
(`CommandLines`: the types of the arguments, any bytes, any lengths; a string's
UTF-8 has no byte above 0xF4), any stray opcode, any refusal by the chip, any
flipped bit and any bounds. It has four parts.

* The CRC. `CrcSeesAFlip`: `crc16` tells apart any two messages that differ in
  one bit. A shift of the register with a given input bit is injective, hence so
  is a byte, hence so is every remaining byte of the message. `crc16` is a
  recursive function, not a RECURSIVE operator, and the induction runs over a
  set in place of a predicate (`Climb`: a set of numbers with 0 and every
  successor is Nat), which the provers can instantiate. `FlippedReply` carries
  it to the driver: a reply to any command of any method with one bit flipped is
  `BadCrc` or `MalformedResponse`; a flip of the length byte is caught by the
  length checks.
* Reports. `RequestsAsked`: every request of every accepted command line is
  parsed by the token into the command and the arguments that were typed.
  `StraySent`: a payload sent under another command's opcode is refused by every
  irreversible handler; lengths decide most cases, and a PIN of four bytes is
  not the data lock's magic word because that has a byte no UTF-8 text has.
  `ErrorShown`: every error of driver or service comes back as itself through
  `write_error` or `write_lock_error`, the report and `send_command`, under the
  name `ShownAs` gives it; `NamedShown` compares that with the documents' `Named`.
* The steps. `WireInv` says stage by stage what is under way: the answers so far
  have the lengths asked for, the report on the wire is the next one of the
  typed command line, the method called is its method, the replies so far fit
  the commands of that method, the answer under way names the fault that
  happened, and the answers of lock-config are the blocks of the zone. With it
  `CorruptionRefused`, `ErrorsNamed` and `CalledAsTyped` are inductive.
* What the answers contain. `ShowsTheTruth` and `CleanRunSucceeds` speak of the
  end of a command, and are kept by a second invariant on top of `WireInv`,
  `TruthInv`, that carries the facts from the chip to the screen: the serial
  number the token caches is the chip's (no command writes the factory area it
  is read from, `FactoryKept`); the replies a reading method has are what the
  chip would answer now (`RepliesTrue`); an answer under way is true of the chip
  as the method left it (`AnswerTrue`, with `Tells` for each command);
  read-config's answers are the blocks of the zone; write-config has written the
  prefix of its file that its answers and replies stand for, the chip's own
  words apart (`WritesKept`, `Reach`); and a clean command line is still
  permitted while it has requests left (`CleanInv`). A method's chip commands
  are shown to be granted exactly when policy and locks allow them, up to the
  PIN a key may ask for (`Unverified`; `SingleKept`, `ConfigFollows`), so a permitted command is never refused
  (`PermittedGrants`, `PermittedTaken`, `PermittedStarts`) and its answer has a
  length hsm-host accepts (`TellsAccepted`, `NextLengths`). The proof needs the
  whole of it at once: that the second block's writes go on after the first,
  for instance, rests on a write never reaching the lock bytes. TLC checked
  `TruthInv` on the instance of `wire_path` before it was proved.

Only model-checked:

* liveness (`RequestAnswered`, `ErrorClears`, `MethodReturns`, `CommandEnds`,
  `LoopGoesOn`): the prover does not do fairness;
* the four runs that refute a sentence, which show one behaviour each.

## 5. Not modelled

* Hashes and MACs (`pin.rs`, `encrypted_write.rs`): modelled as equality of the
  secrets and keys that go in. The frames of CheckMac, GenDig, Nonce, Random,
  Sign and of the encrypted Write carry nothing else, so only the other chip
  commands are modelled byte by byte.
* Hex and decimal digits on the command line, printed text, the annotation
  file of the generator, `hsm-host list`.
* No code compares the chip's zone with the blob before locking: the CRC is
  computed from the zone that was read, so a half-written configuration can be
  locked by an operator who does not notice.
* `Verify`, `PrivWrite`, `write_slot_word`, `close_to_sleep` and `refresh` of
  the driver, which nothing calls; LED frames; peripheral set-up; the USB
  descriptors.

## 6. Plan

Done: `PinService` and `PinPolicy`, `TokenFirmware`, `Debouncer`,
`AteccDriver`, `Provisioning`, `HidExchange`, the request path (`WirePath` and
the modules it composes) and `SlotPolicy`, with proofs of the refinement and of
every safety property a passing run checks.

Left: the session's age in `sign` and `set_puk`, the secrets file of
provision-token and the unchecked word offset of ReadSlotWord, the three hazards
no property covers.
