------------------------------ MODULE Framing ------------------------------
(***************************************************************************)
(* BufferToproto and its ReadBoxQueue: packages are serialised with their  *)
(* size in front, arrive as boxes cut anywhere, and are put together again *)
(* by GetPackage.  A byte is its position in the stream; a box is the      *)
(* interval of positions it holds.                                         *)
(***************************************************************************)
EXTENDS Integers, Sequences

CONSTANTS Header, \* sizeof(uint64_t)
          Sizes   \* sizes of serialised packages, never 0: they hold a name

ASSUME HeaderAssumption == Header \in Nat \ {0} /\ Sizes \subseteq Nat \ {0}

VARIABLES
  cut,      \* where each package ends in the stream
  fed,      \* bytes that have come in
  boxqueue,
  index,    \* the next position in the front box, 0 for an invalid index
  AllBytes,
  lenght,   \* size of the package whose header has been read, or 0
  call,     \* where GetPackage is: "none", "header", "test" or "body"
  want,     \* len of the running read
  buf,      \* what that read has returned so far
  out,      \* history: packages returned with OK
  answer    \* the last result of GetPackage, until it is dealt with

queue == <<boxqueue, index, AllBytes>>
read == <<want, buf>>
framing == <<cut, fed, queue, lenght, call, read, out, answer>>

TypeOK ==
  /\ cut \in Seq(Nat) /\ fed \in Nat
  /\ boxqueue \in Seq([from : Nat, to : Nat])
  /\ index \in Nat /\ AllBytes \in Nat /\ lenght \in Nat /\ want \in Nat
  /\ call \in {"none", "header", "test", "body"}
  /\ buf \in Seq(Nat) /\ out \in Seq(Nat)
  /\ answer \in {"none", "OK", "NOTCOM", "PASEFAIL"}

Init ==
  /\ cut = <<>> /\ fed = 0
  /\ boxqueue = <<>> /\ index = 0 /\ AllBytes = 0
  /\ lenght = 0 /\ call = "none" /\ want = 0 /\ buf = <<>>
  /\ out = <<>> /\ answer = "none"

End(k) == IF k = 0 THEN 0 ELSE cut[k]

\* The bytes of package k: its size, then itself.
HeaderOf(k) == [i \in 1..Header |-> End(k - 1) + i]
BodyOf(k) == [i \in 1..cut[k] - End(k - 1) - Header |-> End(k - 1) + Header + i]

\* Serialize, and send.
Serialize(n) ==
  /\ cut' = Append(cut, End(Len(cut)) + Header + n)
  /\ UNCHANGED <<fed, queue, lenght, call, read, out, answer>>

\* Push a box of the next n bytes.
Push(n) ==
  /\ call = "none" /\ fed + n <= End(Len(cut))
  /\ boxqueue' = Append(boxqueue, [from |-> fed + 1, to |-> fed + n])
  /\ AllBytes' = AllBytes + n
  /\ fed' = fed + n
  /\ UNCHANGED <<cut, index, lenght, call, read, out, answer>>

-----------------------------------------------------------------------------
(* GetPackage *)

\* The size is read first, unless it is known from an earlier call.
GetPackage ==
  /\ call = "none" /\ answer = "none"
  /\ IF lenght # 0
     THEN call' = "test" /\ UNCHANGED <<read, answer>>
     ELSE IF AllBytes < Header
     THEN answer' = "NOTCOM" /\ UNCHANGED <<call, read>>
     ELSE call' = "header" /\ want' = Header /\ buf' = <<>> /\ UNCHANGED answer
  /\ UNCHANGED <<cut, fed, queue, lenght, out>>

\* Where the index stands, or would if it were made now.
At == IF index = 0 THEN Head(boxqueue).from ELSE index

\* A read that takes the rest of a box without asking how much is wanted.
TakenWhole == Head(boxqueue).to - At + 1

\* What index.read returns in one turn of the loop.
Taken == LET left == Head(boxqueue).to - At + 1
         IN IF left > want THEN want ELSE left

\* One turn of read's loop; a box that is used up is popped.
Turn ==
  /\ call \in {"header", "body"} /\ want > 0 /\ boxqueue # <<>>
  /\ buf' = buf \o [i \in 1..Taken |-> At + i - 1]
  /\ want' = want - Taken
  /\ AllBytes' = AllBytes - Taken
  /\ IF At + Taken > Head(boxqueue).to
     THEN /\ boxqueue' = Tail(boxqueue)
          /\ index' = IF Tail(boxqueue) = <<>> THEN 0 ELSE Head(Tail(boxqueue)).from
     ELSE index' = At + Taken /\ UNCHANGED boxqueue
  /\ UNCHANGED <<cut, fed, lenght, call, out, answer>>

ReadReturns == want = 0 \/ boxqueue = <<>>

\* The size that the bytes of a header say; other bytes may say anything.
Says(b) ==
  LET K == {k \in 1..Len(cut) : HeaderOf(k) = b}
  IN IF K = {} THEN 0..End(Len(cut)) ELSE {Len(BodyOf(k)) : k \in K}

HeaderRead ==
  /\ call = "header" /\ ReadReturns
  /\ lenght' \in Says(buf)
  /\ call' = "test"
  /\ UNCHANGED <<cut, fed, queue, read, out, answer>>

\* A test that also waits when the package is just complete.
TestStrict ==
  /\ call = "test"
  /\ IF AllBytes <= lenght
     THEN answer' = "NOTCOM" /\ call' = "none" /\ UNCHANGED read
     ELSE call' = "body" /\ want' = lenght /\ buf' = <<>> /\ UNCHANGED answer
  /\ UNCHANGED <<cut, fed, queue, lenght, out>>

Test ==
  /\ call = "test"
  /\ IF AllBytes < lenght
     THEN answer' = "NOTCOM" /\ call' = "none" /\ UNCHANGED read
     ELSE call' = "body" /\ want' = lenght /\ buf' = <<>> /\ UNCHANGED answer
  /\ UNCHANGED <<cut, fed, queue, lenght, out>>

\* ParseFromString takes the bytes of a package and refuses any others.
BodyRead ==
  /\ call = "body" /\ ReadReturns
  /\ lenght' = 0 /\ call' = "none"
  /\ LET K == {k \in 1..Len(cut) : BodyOf(k) = buf}
     IN IF K = {}
        THEN answer' = "PASEFAIL" /\ UNCHANGED out
        ELSE answer' = "OK" /\ \E k \in K : out' = Append(out, k)
  /\ UNCHANGED <<cut, fed, queue, read>>

InGetPackage == GetPackage \/ Turn \/ HeaderRead \/ Test \/ BodyRead

\* The caller has looked at the answer.
Dealt == /\ answer # "none" /\ answer' = "none"
         /\ UNCHANGED <<cut, fed, queue, lenght, call, read, out>>

Next == \/ \E n \in Sizes : Serialize(n)
        \/ \E n \in Nat \ {0} : Push(n)
        \/ InGetPackage \/ Dealt

Spec == Init /\ [][Next]_framing

-----------------------------------------------------------------------------
\* Framing keeps the promise of PackageQueue: no package is lost, doubled,
\* torn or passed over wherever the boxes are cut, and none that is complete
\* is held back by a header that was read before.
Promise == INSTANCE PackageQueue WITH whole <- {k \in 1..Len(cut) : cut[k] <= fed}
ImplementsPackageQueue == Promise!Spec
=============================================================================
