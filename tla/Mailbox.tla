------------------------------ MODULE Mailbox ------------------------------
(***************************************************************************)
(* What a connection promises to the code that emits: the arguments sent   *)
(* to a slot are handed to its function one by one, each once, in the      *)
(* order they were sent, until the slot is deleted.                        *)
(***************************************************************************)
EXTENDS Sequences

CONSTANTS Slots, Emissions

VARIABLES inbox,      \* sent to each slot and not yet handed over
          delivered,  \* handed over, in order
          broken      \* nothing is promised any more

vars == <<inbox, delivered, broken>>

Init == /\ inbox = [s \in Slots |-> <<>>]
        /\ delivered = [s \in Slots |-> <<>>]
        /\ broken = FALSE

Send(s, v) == /\ inbox' = [inbox EXCEPT ![s] = Append(@, v)]
              /\ UNCHANGED <<delivered, broken>>

Deliver(s) == /\ inbox[s] # <<>>
              /\ delivered' = [delivered EXCEPT ![s] = Append(@, Head(inbox[s]))]
              /\ inbox' = [inbox EXCEPT ![s] = Tail(@)]
              /\ UNCHANGED broken

\* Some slots are deleted with what they still hold.
Discard(D) == /\ inbox' = [s \in Slots |-> IF s \in D THEN <<>> ELSE inbox[s]]
              /\ UNCHANGED <<delivered, broken>>

Break == broken' = TRUE /\ UNCHANGED <<inbox, delivered>>

Next == \/ \E s \in Slots : Deliver(s) \/ \E v \in Emissions : Send(s, v)
        \/ \E D \in SUBSET Slots : Discard(D)
        \/ Break

Spec == Init /\ [][Next]_vars

FairSpec == Spec /\ WF_vars(~broken /\ \E s \in Slots : Deliver(s))
=============================================================================
