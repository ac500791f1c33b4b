--------------------------- MODULE MCFileTransfer ---------------------------
(* Instances of FileTransfer for TLC. *)
EXTENDS FileTransfer, TLC

CONSTANTS f, g, h

ThreeFiles == {f, g, h}
TwoNoneOne == (f :> 2) @@ (g :> 0) @@ (h :> 1)
ButTheLast == (f :> TRUE) @@ (g :> TRUE) @@ (h :> FALSE)
OneEach == [x \in ThreeFiles |-> 1]
OneSize == {1}
=============================================================================
