----------------------------- MODULE ByteQueue -----------------------------
(***************************************************************************)
(* What a PByteArray is for: a queue of bytes.                             *)
(***************************************************************************)
EXTENDS Sequences

CONSTANT Bytes

VARIABLE bytes

Init == bytes = <<>>

Put == \E v \in Bytes : bytes' = Append(bytes, v)
Take == bytes # <<>> /\ bytes' = Tail(bytes)

Next == Put \/ Take

Spec == Init /\ [][Next]_bytes
=============================================================================
