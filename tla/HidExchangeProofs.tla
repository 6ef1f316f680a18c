-------------------------- MODULE HidExchangeProofs --------------------------
(***************************************************************************)
(* A run of hsm-host that found the token quiet takes only its own answers *)
(* (OwnWhenAlone), for any number of runs, any programs and any sizes of   *)
(* the operating system's queues.                                          *)
(***************************************************************************)
EXTENDS HidExchange, SequenceTheorems, TLAPS

(* Where the one report of a run that is alone may be: nowhere, in the     *)
(* pipe, at work, in its inbox, or lost.                                   *)
OneReport(r) ==
  \/ pc[r] = "ready" /\ pipe = <<>> /\ work = <<>> /\ inbox[r] = <<>>
  \/ pc[r] = "waiting" /\ pipe = <<Asked(r)>> /\ work = <<>> /\ inbox[r] = <<>>
  \/ pc[r] = "waiting" /\ pipe = <<>> /\ work = <<Asked(r)>> /\ inbox[r] = <<>>
  \/ pc[r] = "waiting" /\ pipe = <<>> /\ work = <<>> /\ inbox[r] = <<>>
  \/ /\ pc[r] = "waiting" /\ pipe = <<>> /\ work = <<>>
     /\ \E a \in Response : inbox[r] = <<a>> /\ a.of = Asked(r).of

(* The inductive invariant: a run that is alone shares nothing. *)
Quiet ==
  \A r \in Runs : alone[r] =>
    /\ taken[r] # "another's"
    /\ pc[r] # "off" =>
         /\ \A q \in Runs : q # r => pc[q] = "off"
         /\ held = <<>>
         /\ OneReport(r)

-----------------------------------------------------------------------------
(* What is asked is a request. *)
LEMMA AskedType ==
  ASSUME TypeOK, NEW r \in Runs, pc[r] # "off"
  PROVE  Asked(r) \in Request /\ program[r] \in Seq(Kinds) /\ step[r] + 1 \in 1..Len(program[r])
<1>1. program[r] \in Seq(Kinds) /\ step[r] \in Nat /\ step[r] < Len(program[r])
  BY HidAssumption DEF TypeOK
<1>2. step[r] + 1 \in 1..Len(program[r])
  BY <1>1, LenProperties
<1>3. program[r][step[r] + 1] \in Kinds
  BY <1>1, <1>2, ElementOfSeq
<1> QED BY <1>1, <1>2, <1>3 DEF Asked, Request, Owner

(* The end of a run changes owners and nothing else about the reports. *)
LEMMA DisownedRequests ==
  ASSUME NEW r, NEW s \in Seq(Request)
  PROVE  Disowned(r, s) \in Seq(Request) /\ Len(Disowned(r, s)) = Len(s)
<1> DEFINE f(q) == IF q.of.by = r THEN [q EXCEPT !.of = [by |-> Nobody, nth |-> 0]] ELSE q
<1>1. ASSUME NEW q \in Request PROVE f(q) \in Request
  BY DEF Request, Owner
<1>2. Len(s) \in Nat /\ DOMAIN s = 1..Len(s) /\ \A i \in 1..Len(s) : s[i] \in Request
  BY LenProperties, ElementOfSeq
<1>3. Disowned(r, s) = [i \in 1..Len(s) |-> f(s[i])]
  BY <1>2 DEF Disowned
<1> HIDE DEF f
<1>4. \A i \in 1..Len(s) : f(s[i]) \in Request
  BY <1>1, <1>2
<1> QED BY <1>2, <1>3, <1>4, LenProperties

LEMMA DisownedResponses ==
  ASSUME NEW r, NEW s \in Seq(Response)
  PROVE  Disowned(r, s) \in Seq(Response) /\ Len(Disowned(r, s)) = Len(s)
<1> DEFINE f(q) == IF q.of.by = r THEN [q EXCEPT !.of = [by |-> Nobody, nth |-> 0]] ELSE q
<1>1. ASSUME NEW q \in Response PROVE f(q) \in Response
  BY DEF Response, Owner
<1>2. Len(s) \in Nat /\ DOMAIN s = 1..Len(s) /\ \A i \in 1..Len(s) : s[i] \in Response
  BY LenProperties, ElementOfSeq
<1>3. Disowned(r, s) = [i \in 1..Len(s) |-> f(s[i])]
  BY <1>2 DEF Disowned
<1> HIDE DEF f
<1>4. \A i \in 1..Len(s) : f(s[i]) \in Response
  BY <1>1, <1>2
<1> QED BY <1>2, <1>3, <1>4, LenProperties

LEMMA EndsType ==
  ASSUME TypeOK, NEW r \in Runs, Ends(r), UNCHANGED alone,
         taken' \in [Runs -> {"nothing", "own", "another's"}]
  PROVE  TypeOK'
<1>1. /\ pc' \in [Runs -> {"off", "ready", "waiting"}]
      /\ program' \in [Runs -> Programs \cup {<<>>}]
      /\ step' \in [Runs -> Nat] /\ alone' \in [Runs -> BOOLEAN]
  BY DEF TypeOK, Ends
<1>2. pipe' \in Seq(Request) /\ work' \in Seq(Request) /\ Len(work') <= 1
  BY DisownedRequests DEF TypeOK, Ends
<1>3. held' \in Seq(Response) /\ Len(held') <= 1
  BY DisownedResponses DEF TypeOK, Ends
<1>4. inbox' \in [Runs -> Seq(Response)]
  <2>1. \A q \in Runs : Disowned(r, inbox[q]) \in Seq(Response)
    BY DisownedResponses DEF TypeOK
  <2> QED BY <2>1 DEF Ends
<1>5. \A q \in Runs : pc'[q] # "off" => program'[q] \in Programs /\ step'[q] < Len(program'[q])
  BY DEF TypeOK, Ends
<1> QED BY <1>1, <1>2, <1>3, <1>4, <1>5 DEF TypeOK

-----------------------------------------------------------------------------
(* Every step keeps the types, and with them the step counter of an open   *)
(* run inside its program.                                                 *)
LEMMA TypeStep == TypeOK /\ [Next]_vars => TypeOK'
<1> SUFFICES ASSUME TypeOK, [Next]_vars PROVE TypeOK'
  OBVIOUS
<1> USE HidAssumption
<1>1. ASSUME NEW r \in Runs, NEW p \in Programs, open(r, p) PROVE TypeOK'
  <2>1. inbox' \in [Runs -> Seq(Response)]
    <3>1. CASE inbox' = [inbox EXCEPT ![r] = held]
      BY <3>1 DEF TypeOK
    <3>2. CASE inbox' = [inbox EXCEPT ![r] = <<>>]
      BY <3>2 DEF TypeOK
    <3> QED BY <1>1, <3>1, <3>2 DEF open
  <2>2. held' \in Seq(Response) /\ Len(held') <= 1
    BY <1>1 DEF open
  <2>3. p \in Seq(Kinds) /\ p # <<>> /\ Len(p) > 0
    BY EmptySeq, LenProperties
  <2> QED BY <1>1, <2>1, <2>2, <2>3 DEF TypeOK, open
<1>2. ASSUME NEW r \in Runs, Send(r) PROVE TypeOK'
  <2>1. Asked(r) \in Request
    BY <1>2, AskedType DEF Send
  <2>2. pipe' \in Seq(Request)
    BY <1>2, <2>1 DEF TypeOK, Send
  <2> QED BY <1>2, <2>2 DEF TypeOK, Send
<1>3. ASSUME NEW r \in Runs, WriteFails(r) \/ read_timeout(r) \/ Kill(r) PROVE TypeOK'
  BY <1>3, EndsType DEF TypeOK, WriteFails, read_timeout, Kill
<1>4. ASSUME NEW r \in Runs, Receive(r) PROVE TypeOK'
  <2>1. taken' \in [Runs -> {"nothing", "own", "another's"}] /\ UNCHANGED alone
    BY <1>4 DEF TypeOK, Receive
  <2>2. CASE Ends(r)
    BY <2>1, <2>2, EndsType
  <2>3. CASE ~ Ends(r)
    <3>1. /\ step[r] + 1 < Len(program[r])
          /\ pc' = [pc EXCEPT ![r] = "ready"] /\ step' = [step EXCEPT ![r] = @ + 1]
          /\ inbox' = [inbox EXCEPT ![r] = Tail(@)]
          /\ UNCHANGED <<program, pipe, work, held>> /\ pc[r] = "waiting" /\ inbox[r] # <<>>
      BY <1>4, <2>3 DEF Receive
    <3>2. inbox' \in [Runs -> Seq(Response)]
      BY <3>1 DEF TypeOK
    <3> QED BY <2>1, <3>1, <3>2 DEF TypeOK
  <2> QED BY <2>2, <2>3
<1>5. CASE ReadReport \/ DiscardReport \/ LoseResponse
  <2>1. pipe # <<>> => Head(pipe) \in Request /\ Tail(pipe) \in Seq(Request)
    BY HeadTailProperties DEF TypeOK
  <2>2. CASE ReadReport
    <3>1. work' \in Seq(Request) /\ Len(work') <= 1
      BY <2>1, <2>2 DEF ReadReport
    <3> QED BY <2>1, <2>2, <3>1 DEF TypeOK, ReadReport
  <2>3. CASE DiscardReport
    BY <2>1, <2>3 DEF TypeOK, DiscardReport
  <2>4. CASE LoseResponse
    BY <2>4 DEF TypeOK, LoseResponse
  <2> QED BY <1>5, <2>2, <2>3, <2>4
<1>6. ASSUME NEW ok \in BOOLEAN, WriteResponse(ok) PROVE TypeOK'
  <2> DEFINE a == [of |-> work[1].of, kind |-> work[1].kind, ok |-> ok]
  <2>1. work[1] \in Request
    BY <1>6 DEF TypeOK, WriteResponse
  <2>2. a \in Response
    BY <2>1 DEF Request, Response
  <2>3. \A r \in Runs : Queued(r, a) \in Seq(Response)
    BY <2>2 DEF TypeOK, Queued
  <2>4. /\ Opened # {} => inbox' = [r \in Runs |-> IF r \in Opened THEN Queued(r, a) ELSE inbox[r]]
        /\ Opened # {} => UNCHANGED held
        /\ Opened = {} => held' \in {<<a>>, <<>>} /\ UNCHANGED inbox
        /\ work' = <<>> /\ UNCHANGED <<pc, program, step, taken, alone, pipe>>
    BY <1>6 DEF WriteResponse
  <2> HIDE DEF a
  <2>5. inbox' \in [Runs -> Seq(Response)]
    <3>1. CASE inbox' = inbox
      BY <3>1 DEF TypeOK
    <3>2. CASE inbox' = [r \in Runs |-> IF r \in Opened THEN Queued(r, a) ELSE inbox[r]]
      BY <2>3, <3>2 DEF TypeOK
    <3> QED BY <2>4, <3>1, <3>2
  <2>6. held' \in Seq(Response) /\ Len(held') <= 1
    <3>1. CASE held' = held
      BY <3>1 DEF TypeOK
    <3>2. CASE held' = <<a>>
      BY <2>2, <3>2
    <3>3. CASE held' = <<>>
      BY <3>3
    <3> QED BY <2>4, <3>1, <3>2, <3>3
  <2> QED BY <2>4, <2>5, <2>6 DEF TypeOK
<1>7. CASE Unplug
  BY <1>7 DEF TypeOK, Unplug
<1>8. CASE UNCHANGED vars
  BY <1>8 DEF TypeOK, vars
<1> QED BY <1>1, <1>2, <1>3, <1>4, <1>5, <1>6, <1>7, <1>8 DEF Next

-----------------------------------------------------------------------------
(* The end of any run leaves the runs that are alone closed: one that is   *)
(* open is the only one there is.                                          *)
LEMMA EndsQuiet ==
  ASSUME TypeOK, Quiet, NEW r \in Runs, pc[r] # "off", Ends(r), UNCHANGED alone,
         \A q \in Runs : alone[q] => taken'[q] # "another's"
  PROVE  Quiet'
<1> SUFFICES ASSUME NEW q \in Runs, alone[q] PROVE taken'[q] # "another's" /\ pc'[q] = "off"
  BY DEF Quiet
<1>1. CASE q = r
  BY <1>1 DEF Ends, TypeOK
<1>2. CASE q # r
  BY <1>2 DEF Ends, TypeOK, Quiet
<1> QED BY <1>1, <1>2

(* The inductive step: whoever is alone stays the owner of the only        *)
(* report there is.                                                        *)
LEMMA QuietStep == TypeOK /\ Quiet /\ [Next]_vars => Quiet'
<1> SUFFICES ASSUME TypeOK, Quiet, [Next]_vars PROVE Quiet'
  OBVIOUS
<1>1. ASSUME NEW r \in Runs, NEW p \in Programs, open(r, p) PROVE Quiet'
  <2> SUFFICES ASSUME NEW q \in Runs, alone'[q]
               PROVE  /\ taken'[q] # "another's"
                      /\ \A o \in Runs : o # q => pc'[o] = "off"
                      /\ held' = <<>>
                      /\ OneReport(q)'
    BY DEF Quiet
  <2>1. q = r /\ Opened = {} /\ pipe = <<>> /\ work = <<>> /\ held = <<>>
    BY <1>1 DEF open
  <2>2. inbox'[q] = <<>>
    BY <1>1, <2>1 DEF open, TypeOK
  <2>3. \A o \in Runs : o # q => pc'[o] = "off"
    BY <1>1, <2>1 DEF open, TypeOK, Opened
  <2>4. pc'[q] = "ready" /\ pipe' = <<>> /\ work' = <<>> /\ held' = <<>> /\ taken'[q] = "nothing"
    BY <1>1, <2>1 DEF open, TypeOK
  <2> QED BY <2>2, <2>3, <2>4 DEF OneReport
<1>2. ASSUME NEW r \in Runs, Send(r) PROVE Quiet'
  <2> SUFFICES ASSUME NEW q \in Runs, alone[q]
               PROVE  /\ taken[q] # "another's"
                      /\ pc'[q] # "off" => /\ \A o \in Runs : o # q => pc'[o] = "off"
                                          /\ held = <<>>
                                          /\ OneReport(q)'
    BY <1>2 DEF Quiet, Send
  <2>1. CASE q # r
    BY <1>2, <2>1 DEF Send, Quiet, TypeOK
  <2>2. CASE q = r
    <3>1. pipe = <<>> /\ work = <<>> /\ inbox[q] = <<>> /\ Asked(q)' = Asked(q)
      BY <1>2, <2>2 DEF Send, Quiet, OneReport, Asked
    <3>2. pipe' = <<Asked(q)'>> /\ work' = <<>> /\ inbox'[q] = <<>> /\ pc'[q] = "waiting"
      BY <1>2, <2>2, <3>1 DEF Send, TypeOK
    <3>3. \A o \in Runs : o # q => pc'[o] = "off"
      BY <1>2, <2>2 DEF Send, Quiet, TypeOK
    <3> QED BY <1>2, <2>2, <3>2, <3>3 DEF Quiet, OneReport, Send
  <2> QED BY <2>1, <2>2
<1>3. ASSUME NEW r \in Runs, WriteFails(r) \/ read_timeout(r) \/ Kill(r) PROVE Quiet'
  BY <1>3, EndsQuiet DEF Quiet, WriteFails, read_timeout, Kill
<1>4. ASSUME NEW r \in Runs, Receive(r) PROVE Quiet'
  <2>1. ASSUME alone[r] PROVE Head(inbox[r]).of = Asked(r).of /\ Tail(inbox[r]) = <<>>
                              /\ pipe = <<>> /\ work = <<>>
    <3>1. pc[r] = "waiting" /\ inbox[r] # <<>>
      BY <1>4 DEF Receive
    <3>2. pipe = <<>> /\ work = <<>>
      BY <2>1, <3>1 DEF Quiet, OneReport
    <3>3. PICK a \in Response : inbox[r] = <<a>> /\ a.of = Asked(r).of
      BY <2>1, <3>1 DEF Quiet, OneReport
    <3> QED BY <3>2, <3>3
  <2>2. \A q \in Runs : alone[q] => taken'[q] # "another's"
    BY <1>4, <2>1 DEF Receive, TypeOK, Quiet
  <2>3. CASE Ends(r)
    BY <1>4, <2>2, <2>3, EndsQuiet DEF Receive
  <2>4. CASE ~ Ends(r)
    <3>1. /\ pc' = [pc EXCEPT ![r] = "ready"] /\ inbox' = [inbox EXCEPT ![r] = Tail(@)]
          /\ UNCHANGED <<pipe, work, held, alone>> /\ pc[r] = "waiting"
      BY <1>4, <2>4 DEF Receive
    <3> SUFFICES ASSUME NEW q \in Runs, alone[q], pc'[q] # "off"
                 PROVE  /\ \A o \in Runs : o # q => pc'[o] = "off"
                        /\ held' = <<>>
                        /\ OneReport(q)'
      BY <2>2, <3>1 DEF Quiet
    <3>2. q = r
      BY <3>1 DEF Quiet, TypeOK
    <3>3. inbox'[q] = <<>> /\ pc'[q] = "ready" /\ pipe' = <<>> /\ work' = <<>>
      BY <2>1, <3>1, <3>2 DEF TypeOK
    <3> QED BY <3>1, <3>2, <3>3 DEF Quiet, OneReport, TypeOK
  <2> QED BY <2>3, <2>4
<1>5. CASE ReadReport \/ DiscardReport \/ LoseResponse
  <2> SUFFICES ASSUME NEW q \in Runs, alone[q], pc[q] # "off" PROVE OneReport(q)'
    BY <1>5 DEF Quiet, ReadReport, DiscardReport, LoseResponse
  <2>1. OneReport(q) /\ Asked(q)' = Asked(q) /\ pc' = pc /\ inbox' = inbox
    BY <1>5 DEF Quiet, Asked, ReadReport, DiscardReport, LoseResponse
  <2>2. CASE ReadReport
    <3>1. pc[q] = "waiting" /\ pipe = <<Asked(q)>> /\ inbox[q] = <<>>
      BY <2>1, <2>2 DEF OneReport, ReadReport
    <3>2. work' = <<Asked(q)'>> /\ pipe' = <<>>
      BY <2>1, <2>2, <3>1 DEF ReadReport
    <3> QED BY <2>1, <3>1, <3>2 DEF OneReport
  <2>3. CASE DiscardReport
    <3>1. pc[q] = "waiting" /\ pipe = <<Asked(q)>> /\ inbox[q] = <<>>
      BY <2>1, <2>3 DEF OneReport, DiscardReport
    <3>2. work' = <<>> /\ pipe' = <<>>
      BY <2>3, <3>1 DEF DiscardReport
    <3> QED BY <2>1, <3>1, <3>2 DEF OneReport
  <2>4. CASE LoseResponse
    <3>1. pc[q] = "waiting" /\ pipe = <<>> /\ inbox[q] = <<>>
      BY <2>1, <2>4 DEF OneReport, LoseResponse
    <3>2. work' = <<>> /\ pipe' = <<>>
      BY <2>4, <3>1 DEF LoseResponse
    <3> QED BY <2>1, <3>1, <3>2 DEF OneReport
  <2> QED BY <1>5, <2>2, <2>3, <2>4
<1>6. ASSUME NEW ok \in BOOLEAN, WriteResponse(ok) PROVE Quiet'
  <2> DEFINE a == [of |-> work[1].of, kind |-> work[1].kind, ok |-> ok]
  <2>1. UNCHANGED <<pc, program, step, taken, alone, pipe>> /\ work' = <<>> /\ work # <<>>
    BY <1>6 DEF WriteResponse
  <2> SUFFICES ASSUME NEW q \in Runs, alone[q], pc[q] # "off"
               PROVE  held' = <<>> /\ OneReport(q)'
    BY <2>1 DEF Quiet
  <2>2. /\ pc[q] = "waiting" /\ pipe = <<>> /\ work = <<Asked(q)>> /\ inbox[q] = <<>>
        /\ held = <<>> /\ Asked(q)' = Asked(q)
    BY <2>1 DEF Quiet, OneReport, Asked
  <2>3. a \in Response /\ a.of = Asked(q).of
    BY <2>2, AskedType DEF Request, Response
  <2>4. q \in Opened
    BY DEF Opened
  <2>5. inbox'[q] = Queued(q, a) /\ held' = held
    BY <1>6, <2>4 DEF WriteResponse
  <2> HIDE DEF a
  <2>6. inbox'[q] = <<a>> \/ inbox'[q] = <<>>
    BY <2>2, <2>5 DEF Queued
  <2> QED BY <2>1, <2>2, <2>3, <2>5, <2>6 DEF OneReport
<1>7. CASE Unplug
  BY <1>7 DEF Quiet, Unplug
<1>8. CASE UNCHANGED vars
  BY <1>8 DEF Quiet, OneReport, Asked, vars
<1> QED BY <1>1, <1>2, <1>3, <1>4, <1>5, <1>6, <1>7, <1>8 DEF Next

-----------------------------------------------------------------------------
(* Types hold of every behaviour: an open run is always inside its program *)
(* and the firmware never works on two requests.                           *)
THEOREM TypeCorrect == Spec => []TypeOK
<1>1. Init => TypeOK
  BY HidAssumption DEF Init, TypeOK
<1> QED BY <1>1, TypeStep, PTL DEF Spec

(* send_command may take the next report for its answer: whatever was lost *)
(* or interrupted before, a run that found the token quiet and stayed      *)
(* alone never takes another's.                                            *)
THEOREM AloneTakesItsOwn == Spec => []OwnWhenAlone
<1>1. Init => Quiet
  BY DEF Init, Quiet
<1>2. Quiet => OwnWhenAlone
  BY DEF Quiet, OwnWhenAlone
<1> QED BY <1>1, <1>2, TypeCorrect, QuietStep, PTL DEF Spec
=============================================================================
