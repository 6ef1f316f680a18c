---------------------------- MODULE HidExchange ----------------------------
(***************************************************************************)
(* Several runs of hsm-host against one token.  A run opens the HID        *)
(* device, then sends its requests one by one and takes the next report it *)
(* reads as the answer: neither side numbers them.  dispatch_loop serves   *)
(* one report after another.  Runs overlap, are interrupted, time out;     *)
(* reports are lost; the token is unplugged.                               *)
(***************************************************************************)
EXTENDS Integers, Sequences, FiniteSets

CONSTANTS
  Runs,        \* hsm-host processes
  Programs,    \* what a run sends: sequences of kinds of request
  Lengths,     \* kind -> the lengths of an answer its caller accepts
  ReplyLength, \* kind -> the length of the token's Ok answer
  PipeSize,    \* reports the host's USB stack holds for the token
  InboxSize    \* input reports it queues for a handle; more are dropped

Kinds == DOMAIN ReplyLength

ASSUME HidAssumption ==
  /\ PipeSize \in Nat \ {0} /\ InboxSize \in Nat \ {0}
  /\ Programs \subseteq Seq(Kinds) \ {<<>>}
  /\ ReplyLength \in [Kinds -> Nat] /\ Lengths \in [Kinds -> SUBSET Nat]

VARIABLES
  pc,      \* "off", "ready" to send or "waiting" for an answer
  program, \* the requests of the run
  step,    \* how many of them are answered
  inbox,   \* input reports queued for the run's handle
  taken,   \* history: what the run took as its last answer
  alone,   \* history: nothing under way at open, nobody opened since
  pipe,    \* output reports dispatch_loop has not read
  work,    \* the request dispatch_loop is handling
  held     \* a response in the endpoint nobody polls

vars == <<pc, program, step, inbox, taken, alone, pipe, work, held>>

(* Who asked, and as which of its requests, is history: no report says so, *)
(* and once the run has ended it is nobody's.                              *)
Nobody   == "nobody"
Owner    == [by : Runs \cup {Nobody}, nth : Nat]
Request  == [of : Owner, kind : Kinds]
Response == [of : Owner, kind : Kinds, ok : BOOLEAN]

Opened == {r \in Runs : pc[r] # "off"}
Asked(r) == [of |-> [by |-> r, nth |-> step[r]], kind |-> program[r][step[r] + 1]]

TypeOK ==
  /\ pc \in [Runs -> {"off", "ready", "waiting"}]
  /\ program \in [Runs -> Programs \cup {<<>>}]
  /\ step \in [Runs -> Nat]
  /\ inbox \in [Runs -> Seq(Response)]
  /\ taken \in [Runs -> {"nothing", "own", "another's"}]
  /\ alone \in [Runs -> BOOLEAN]
  /\ pipe \in Seq(Request)
  /\ work \in Seq(Request) /\ Len(work) <= 1
  /\ held \in Seq(Response) /\ Len(held) <= 1
  /\ \A r \in Runs : pc[r] # "off" => program[r] \in Programs /\ step[r] < Len(program[r])

Init ==
  /\ pc = [r \in Runs |-> "off"] /\ program = [r \in Runs |-> <<>>]
  /\ step = [r \in Runs |-> 0]
  /\ inbox = [r \in Runs |-> <<>>] /\ taken = [r \in Runs |-> "nothing"]
  /\ alone = [r \in Runs |-> FALSE]
  /\ pipe = <<>> /\ work = <<>> /\ held = <<>>

-----------------------------------------------------------------------------
Disowned(r, s) ==
  [i \in DOMAIN s |-> IF s[i].of.by = r THEN [s[i] EXCEPT !.of = [by |-> Nobody, nth |-> 0]]
                                         ELSE s[i]]

(* The end of a process closes its handle, with whatever was queued. *)
Ends(r) ==
  /\ pc' = [pc EXCEPT ![r] = "off"] /\ program' = [program EXCEPT ![r] = <<>>]
  /\ step' = [step EXCEPT ![r] = 0]
  /\ inbox' = [q \in Runs |-> IF q = r THEN <<>> ELSE Disowned(r, inbox[q])]
  /\ pipe' = Disowned(r, pipe) /\ work' = Disowned(r, work) /\ held' = Disowned(r, held)

(* open.  External: the operating system polls the endpoint again and      *)
(* either hands over the report it held or throws it away.                 *)
open(r, p) ==
  /\ pc[r] = "off"
  /\ pc' = [pc EXCEPT ![r] = "ready"] /\ program' = [program EXCEPT ![r] = p]
  /\ step' = [step EXCEPT ![r] = 0] /\ taken' = [taken EXCEPT ![r] = "nothing"]
  /\ alone' = [q \in Runs |-> q = r /\ Opened = {} /\ pipe = <<>> /\ work = <<>> /\ held = <<>>]
  /\ inbox' \in {[inbox EXCEPT ![r] = held], [inbox EXCEPT ![r] = <<>>]}
  /\ held' = <<>>
  /\ UNCHANGED <<pipe, work>>

(* send_command, up to device.write. *)
Send(r) ==
  /\ pc[r] = "ready" /\ Len(pipe) < PipeSize
  /\ pipe' = Append(pipe, Asked(r)) /\ pc' = [pc EXCEPT ![r] = "waiting"]
  /\ UNCHANGED <<program, step, inbox, taken, alone, work, held>>

(* "HID write failed": the token has not read what it was sent before. *)
WriteFails(r) ==
  /\ pc[r] = "ready" /\ Len(pipe) >= PipeSize
  /\ Ends(r)
  /\ UNCHANGED <<taken, alone>>

(* send_command takes the first report queued for its handle; its caller   *)
(* checks the length.  An error or a wrong length ends the run.            *)
Accepts(kind, answer) == answer.ok /\ ReplyLength[answer.kind] \in Lengths[kind]

Receive(r) ==
  /\ pc[r] = "waiting" /\ inbox[r] # <<>>
  /\ LET answer == Head(inbox[r])
     IN  IF Accepts(Asked(r).kind, answer) /\ step[r] + 1 < Len(program[r])
           THEN /\ pc' = [pc EXCEPT ![r] = "ready"] /\ step' = [step EXCEPT ![r] = @ + 1]
                /\ inbox' = [inbox EXCEPT ![r] = Tail(@)]
                /\ UNCHANGED <<program, pipe, work, held>>
           ELSE Ends(r)
  /\ taken' = [taken EXCEPT ![r] =
                 IF Head(inbox[r]).of = Asked(r).of THEN "own" ELSE "another's"]
  /\ UNCHANGED alone

read_timeout_GoesOn(r) ==
  /\ pc[r] = "waiting" /\ inbox[r] = <<>>
  /\ IF step[r] + 1 < Len(program[r])
       THEN /\ pc' = [pc EXCEPT ![r] = "ready"] /\ step' = [step EXCEPT ![r] = @ + 1]
            /\ UNCHANGED <<inbox, program, pipe, work, held>>
       ELSE Ends(r)
  /\ UNCHANGED <<taken, alone>>

read_timeout_Never(r) == FALSE /\ UNCHANGED vars

(* 60 s without a report: "short HID read: got 0 bytes". *)
read_timeout(r) ==
  /\ pc[r] = "waiting" /\ inbox[r] = <<>>
  /\ Ends(r)
  /\ UNCHANGED <<taken, alone>>

(* The operator interrupts the process. *)
Kill(r) ==
  /\ pc[r] # "off"
  /\ Ends(r)
  /\ UNCHANGED <<taken, alone>>

-----------------------------------------------------------------------------
(* dispatch_loop: rx.read returns a whole report. *)
ReadReport ==
  /\ work = <<>> /\ pipe # <<>>
  /\ work' = <<Head(pipe)>> /\ pipe' = Tail(pipe)
  /\ UNCHANGED <<pc, program, step, inbox, taken, alone, held>>

(* rx.read fails or the report is short: the loop goes on, unanswered. *)
DiscardReport ==
  /\ work = <<>> /\ pipe # <<>>
  /\ pipe' = Tail(pipe)
  /\ UNCHANGED <<pc, program, step, inbox, taken, alone, work, held>>

Queued(r, a) == IF Len(inbox[r]) < InboxSize THEN Append(inbox[r], a) ELSE inbox[r]

(* handle_one_request is done and tx.write sends its report: to every open *)
(* handle, or into the endpoint, where it is held or dropped.              *)
WriteResponse_Blocks(ok) ==
  /\ work # <<>> /\ Opened # {}
  /\ LET a == [of |-> work[1].of, kind |-> work[1].kind, ok |-> ok]
     IN  inbox' = [r \in Runs |-> IF r \in Opened THEN Queued(r, a) ELSE inbox[r]]
  /\ work' = <<>>
  /\ UNCHANGED <<pc, program, step, taken, alone, pipe, held>>

WriteResponse(ok) ==
  /\ work # <<>> /\ held = <<>>
  /\ LET a == [of |-> work[1].of, kind |-> work[1].kind, ok |-> ok]
     IN  IF Opened # {}
           THEN /\ inbox' = [r \in Runs |-> IF r \in Opened THEN Queued(r, a) ELSE inbox[r]]
                /\ UNCHANGED held
           ELSE held' \in {<<a>>, <<>>} /\ UNCHANGED inbox
  /\ work' = <<>>
  /\ UNCHANGED <<pc, program, step, taken, alone, pipe>>

(* tx.write fails: a warning, and the next report is read. *)
LoseResponse ==
  /\ work # <<>>
  /\ work' = <<>>
  /\ UNCHANGED <<pc, program, step, inbox, taken, alone, pipe, held>>

(* Every handle fails at once and the token starts over. *)
Unplug ==
  /\ pc' = [r \in Runs |-> "off"] /\ program' = [r \in Runs |-> <<>>]
  /\ step' = [r \in Runs |-> 0] /\ inbox' = [r \in Runs |-> <<>>]
  /\ pipe' = <<>> /\ work' = <<>> /\ held' = <<>>
  /\ taken' = [r \in Runs |-> "nothing"] /\ alone' = [r \in Runs |-> FALSE]

Next ==
  \/ \E r \in Runs, p \in Programs : open(r, p)
  \/ \E r \in Runs : \/ Send(r) \/ WriteFails(r) \/ Receive(r) \/ read_timeout(r) \/ Kill(r)
  \/ ReadReport \/ DiscardReport \/ LoseResponse
  \/ \E ok \in BOOLEAN : WriteResponse(ok)
  \/ Unplug

(* A running process goes on and its read ends after 60 s; dispatch_loop   *)
(* goes on.  Nothing makes anyone open, interrupt, lose or unplug.         *)
Fairness ==
  /\ \A r \in Runs : WF_vars(Send(r) \/ WriteFails(r) \/ Receive(r) \/ read_timeout(r))
  /\ WF_vars(ReadReport)
  /\ WF_vars(\E ok \in BOOLEAN : WriteResponse(ok))

Spec == Init /\ [][Next]_vars /\ Fairness

-----------------------------------------------------------------------------
(* A run that found the token quiet when it opened it, and that nobody     *)
(* joined, takes only the answers to its own requests, whatever timed out, *)
(* was interrupted or lost before: send_command may pair a request with    *)
(* the next report it reads.                                               *)
OwnWhenAlone ==
  \A r \in Runs : alone[r] => taken[r] # "another's"

(* Every run ends: a lost report costs 60 s, not a stuck process. *)
CommandEnds == \A r \in Runs : pc[r] # "off" ~> pc[r] = "off"

(* dispatch_loop always comes back for the next report, whatever became of *)
(* the run it works for, as long as runs keep opening the device: a        *)
(* response that nobody reads does not stop it for good.                   *)
LoopGoesOn == <>[](Opened = {}) \/ (work # <<>> ~> work = <<>>)
=============================================================================
