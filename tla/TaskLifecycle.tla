---------------------------- MODULE TaskLifecycle ----------------------------
(***************************************************************************)
(* What the queue and the workers promise about an upload, whatever they   *)
(* do inside: a confirmed document stays pending until it gets an outcome. *)
(* A copy of its task may live on after an outcome, and a copy may         *)
(* reappear, but only for a document that was confirmed.                   *)
(***************************************************************************)
CONSTANT Docs

VARIABLES
    accepted,   \* documents whose upload was confirmed
    pending,    \* documents some task of which is still to be done
    outcome     \* the outcomes each document has had

lifeVars == <<accepted, pending, outcome>>

Results == {"succeeded", "dead", "lost"}

LifeInit ==
    /\ accepted = {}
    /\ pending = {}
    /\ outcome = [d \in Docs |-> {}]

Accept(d) ==
    /\ accepted' = accepted \cup {d}
    /\ pending' = pending \cup {d}
    /\ UNCHANGED outcome

Settle(d, r) ==
    /\ d \in pending
    /\ outcome' = [outcome EXCEPT ![d] = @ \cup {r}]
    /\ pending' \in {pending, pending \ {d}}
    /\ UNCHANGED accepted

Duplicate(d) ==
    /\ d \in accepted
    /\ pending' = pending \cup {d}
    /\ UNCHANGED <<accepted, outcome>>

LifeNext ==
    \E d \in Docs : Accept(d) \/ Duplicate(d) \/ \E r \in Results : Settle(d, r)

LifeSpec == LifeInit /\ [][LifeNext]_lifeVars
=============================================================================
