---------------------------- MODULE PackageQueue ----------------------------
(***************************************************************************)
(* What framing promises to the code that asks for packages: they come out *)
(* in the order they were serialised, each once, and NOTCOM is the answer  *)
(* only while the next one has not come in completely.                     *)
(***************************************************************************)
EXTENDS Integers, Sequences

VARIABLES whole,  \* packages all of whose bytes have come in
          out,    \* packages that were given out
          answer  \* what the last GetPackage returned, "none" when it is dealt with

vars == <<whole, out, answer>>

Init == whole = {} /\ out = <<>> /\ answer = "none"

Arrive == /\ whole \subseteq whole' /\ whole' \subseteq Nat
          /\ UNCHANGED <<out, answer>>

Give == /\ answer = "none" /\ Len(out) + 1 \in whole
        /\ out' = Append(out, Len(out) + 1)
        /\ answer' = "OK"
        /\ UNCHANGED whole

Refuse == /\ answer = "none" /\ Len(out) + 1 \notin whole
          /\ answer' = "NOTCOM"
          /\ UNCHANGED <<whole, out>>

Next == Arrive \/ Give \/ Refuse \/ (answer' = "none" /\ UNCHANGED <<whole, out>>)

Spec == Init /\ [][Next]_vars
=============================================================================
