--------------------------- MODULE BookingLifecycle ---------------------------
(***************************************************************************)
(* What the program promises about one booking, without modules, escrows,  *)
(* deposits or clocks: the phases it goes through, who may be its lecturer, *)
(* how its score may change and when its payment may leave.                *)
(*                                                                         *)
(*   None -> Open <-> Claimed -> Scored -> Settled -> Closed               *)
(*             \________/ \        | ^                                     *)
(*              returned   Closed  Disputed -> Resolved -> Settled         *)
(***************************************************************************)
EXTENDS Integers

CONSTANTS Users, BookingIds, Bps, None

VARIABLES
  phase,      \* by booking
  school, lecturer,
  score, amendment,  \* the score on record and the one proposed in a dispute
  held        \* the payment locked for the booking

vars == <<phase, school, lecturer, score, amendment, held>>

Init ==
  /\ phase = [b \in BookingIds |-> "None"]
  /\ school = [b \in BookingIds |-> None]
  /\ lecturer = [b \in BookingIds |-> None]
  /\ score = [b \in BookingIds |-> None]
  /\ amendment = [b \in BookingIds |-> None]
  /\ held = [b \in BookingIds |-> 0]

\* A booking moves from one phase to another; ids are never used again.
Move(b, from, to) == phase[b] \in from /\ phase' = [phase EXCEPT ![b] = to]

\* A closed booking leaves nothing behind.
Forget(b) ==
  /\ school' = [school EXCEPT ![b] = None]
  /\ lecturer' = [lecturer EXCEPT ![b] = None]
  /\ score' = [score EXCEPT ![b] = None]
  /\ amendment' = [amendment EXCEPT ![b] = None]

Book(b) ==
  /\ Move(b, {"None"}, "Open")
  /\ \E u \in Users : school' = [school EXCEPT ![b] = u]
  /\ held'[b] \in Nat \ {0} /\ held' = [held EXCEPT ![b] = held'[b]]
  /\ UNCHANGED <<lecturer, score, amendment>>

\* Nobody delivers to themselves.
Claim(b) ==
  /\ Move(b, {"Open"}, "Claimed")
  /\ \E u \in Users \ {school[b]} : lecturer' = [lecturer EXCEPT ![b] = u]
  /\ UNCHANGED <<school, score, amendment, held>>

GiveUp(b) ==
  /\ Move(b, {"Claimed"}, "Open")
  /\ lecturer' = [lecturer EXCEPT ![b] = None]
  /\ UNCHANGED <<school, score, amendment, held>>

\* Cancelled or expired: the payment goes back, which a score rules out.
Return(b) ==
  /\ Move(b, {"Open", "Claimed"}, "Closed")
  /\ held' = [held EXCEPT ![b] = 0]
  /\ Forget(b)

Score(b) ==
  /\ Move(b, {"Claimed"}, "Scored")
  /\ score'[b] \in Bps /\ score' = [score EXCEPT ![b] = score'[b]]
  /\ UNCHANGED <<school, lecturer, amendment, held>>

\* One dispute, with one amendment on the table.
Dispute(b) ==
  /\ Move(b, {"Scored"}, "Disputed")
  /\ amendment'[b] \in Bps /\ amendment' = [amendment EXCEPT ![b] = amendment'[b]]
  /\ UNCHANGED <<school, lecturer, score, held>>

\* The score becomes the amendment or stays, and is final.
Resolve(b) ==
  /\ Move(b, {"Disputed"}, "Resolved")
  /\ \/ score' = [score EXCEPT ![b] = amendment[b]]
     \/ UNCHANGED score
  /\ amendment' = [amendment EXCEPT ![b] = None]
  /\ UNCHANGED <<school, lecturer, held>>

\* The payment leaves once, at the score on record.
Settle(b) ==
  /\ Move(b, {"Scored", "Disputed", "Resolved"}, "Settled")
  /\ held' = [held EXCEPT ![b] = 0]
  /\ amendment' = [amendment EXCEPT ![b] = None]
  /\ UNCHANGED <<school, lecturer, score>>

Close(b) ==
  /\ Move(b, {"Settled"}, "Closed")
  /\ Forget(b)
  /\ UNCHANGED held

Next == \E b \in BookingIds :
          \/ Book(b) \/ Claim(b) \/ GiveUp(b) \/ Return(b) \/ Score(b)
          \/ Dispute(b) \/ Resolve(b) \/ Settle(b) \/ Close(b)

Spec == Init /\ [][Next]_vars
=============================================================================
