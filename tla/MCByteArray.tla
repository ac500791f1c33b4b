---------------------------- MODULE MCByteArray ----------------------------
(* ByteArray for TLC, as it is. *)
EXTENDS ByteArray
=============================================================================
