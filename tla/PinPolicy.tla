------------------------------ MODULE PinPolicy ------------------------------
(***************************************************************************)
(* What the credential service promises, without its chip commands: two    *)
(* secrets with a budget of attempts each, a proof obtained by presenting  *)
(* the right secret (or by both budgets being spent), and the changes that *)
(* a proof entitles the call in progress to make.                          *)
(***************************************************************************)
EXTENDS Naturals

CONSTANTS
  Pins, Puks,      \* the secrets
  DefaultPin,      \* the PIN a reset installs
  Slots,           \* the identity key slots
  Limit            \* Limit[c] is the budget of credential c

VARIABLES pin, puk, keys, open, tries, wrong, proven

avars == <<pin, puk, keys, open, tries, wrong, proven>>

Creds == DOMAIN Limit

Init ==
  /\ pin = DefaultPin
  /\ puk \in Puks
  /\ keys = [s \in Slots |-> "owner"]
  /\ open = FALSE
  /\ tries = Limit
  /\ wrong = [c \in Creds |-> 0]
  /\ proven = "nothing"

(* A wrong secret costs an attempt and must find one left. *)
Miss(c) ==
  /\ proven = "nothing"
  /\ wrong' = [wrong EXCEPT ![c] = @ + 1]
  /\ UNCHANGED <<pin, puk, keys, open, proven>>
  /\ tries[c] > 0
  /\ tries' = [tries EXCEPT ![c] = @ - 1]

(* The right secret also costs an attempt until the batch is refreshed; if *)
(* the answer is lost it proves nothing to the caller.                     *)
Hit(c) ==
  /\ proven = "nothing"
  /\ proven' \in {"nothing", IF c = "Counter0" THEN "pin" ELSE "puk"}
  /\ \E granted \in {{c}, Creds} :
       wrong' = [d \in Creds |-> IF d \in granted THEN 0 ELSE wrong[d]]
  /\ UNCHANGED <<pin, puk, keys, open>>
  /\ tries[c] > 0
  /\ tries' = [tries EXCEPT ![c] = @ - 1]

(* Both budgets spent: the call in progress may reset the token. *)
Exhausted ==
  /\ proven = "nothing"
  /\ proven' = "saturation"
  /\ wrong' = [c \in Creds |-> 0]
  /\ UNCHANGED <<pin, puk, keys, open, tries>>
  /\ \A c \in Creds : tries[c] = 0

(* Every change below may also be the last thing its call does. *)
MayReturn == proven' \in {proven, "nothing"}

(* With a proof, the attempts of a credential with no miss move freely. *)
Refresh(c) ==
  /\ proven # "nothing" /\ MayReturn
  /\ wrong[c] = 0
  /\ UNCHANGED <<pin, puk, keys, open, wrong>>
  /\ tries'[c] \in 0..Limit[c]
  /\ tries' = [tries EXCEPT ![c] = tries'[c]]

ChangePin ==
  /\ proven # "nothing" /\ MayReturn
  /\ pin' \in IF proven = "saturation" THEN {DefaultPin} ELSE Pins
  /\ UNCHANGED <<puk, keys, open, tries, wrong>>

ChangePuk ==
  /\ proven \in {"puk", "saturation"} /\ MayReturn
  /\ puk' \in Puks
  /\ UNCHANGED <<pin, keys, open, tries, wrong>>

(* GenKey replaces one key and asks for no proof. *)
ReplaceKey(s) ==
  /\ MayReturn
  /\ keys' = [keys EXCEPT ![s] = "fresh"]
  /\ UNCHANGED <<pin, puk, open, tries, wrong>>

(* Only a proof of the PIN opens a session; anything may end it. *)
OpenSession ==
  /\ proven = "pin"
  /\ open' = TRUE
  /\ proven' = "nothing"
  /\ UNCHANGED <<pin, puk, keys, tries, wrong>>

Return ==
  /\ open' \in {open, FALSE}
  /\ proven' = "nothing"
  /\ UNCHANGED <<pin, puk, keys, wrong>> /\ UNCHANGED tries

Next ==
  \/ Return \/ OpenSession \/ ChangePin \/ ChangePuk \/ Exhausted
  \/ \E c \in Creds : Miss(c) \/ Hit(c) \/ Refresh(c)
  \/ \E s \in Slots : ReplaceKey(s)

Spec == Init /\ [][Next]_avars
=============================================================================
