------------------------ MODULE FileTransfer_proofs ------------------------
(***************************************************************************)
(* Framing and the transfer of files over it, for any files, jobs and      *)
(* boxes.  GetPackage gives out the packages as they were serialised: FInv *)
(* says at every turn where in the stream the reader stands.  The transfer *)
(* uses framing as it must be used, so that its promise carries over;      *)
(* packages wait only behind the end of a file; jobs that do not overlap   *)
(* write their files whole, and two that do never mix them.                *)
(***************************************************************************)
EXTENDS FileTransfer, BoxLine, TLAPS

-----------------------------------------------------------------------------
(* Framing                                                                 *)

\* The position of the next byte to be read.
Pos == IF boxqueue = <<>> THEN fed + 1 ELSE At

\* Packages follow one another, none of them empty.
Cuts == \A i, j \in 0..Len(cut) : i < j => End(i) + Header < End(j)

\* The boxes hold what has come in, and AllBytes counts what is left of it.
Boxed ==
  /\ fed <= End(Len(cut)) /\ Line(boxqueue, fed)
  /\ index # 0 => boxqueue # <<>> /\ Head(boxqueue).from <= index /\ index <= Head(boxqueue).to
  /\ AllBytes = fed + 1 - Pos

Given == Len(out) <= Len(cut) /\ \A i \in 1..Len(out) : out[i] = i

Answers == (call # "none" => answer = "none") /\ answer # "PASEFAIL"

\* The size of the next package.
Size == End(Len(out) + 1) - End(Len(out)) - Header

\* Outside a read the next byte is the first of a package or of its body.
Between ==
  call \in {"none", "test"} =>
    \/ lenght = 0 /\ call = "none" /\ Pos = End(Len(out)) + 1
    \/ /\ Len(out) < Len(cut) /\ lenght = Size
       /\ Pos = End(Len(out)) + Header + 1

\* What a read began behind, and how far it goes.
Base == IF call = "body" THEN End(Len(out)) + Header ELSE End(Len(out))
Goal == IF call = "body" THEN Size ELSE Header

Reading ==
  call \in {"header", "body"} =>
    /\ Len(out) < Len(cut) /\ (call = "body" => lenght = Size)
    /\ want + Len(buf) = Goal /\ Pos = Base + 1 + Len(buf) /\ want <= AllBytes
    /\ \A i \in 1..Len(buf) : buf[i] = Base + i

FInv == TypeOK /\ Cuts /\ Boxed /\ Given /\ Answers /\ Between /\ Reading

-----------------------------------------------------------------------------
LEMMA Ends ==
  ASSUME TypeOK
  PROVE  Len(cut) \in Nat /\ \A k \in 0..Len(cut) : End(k) \in Nat
BY ElementOfSeq DEF TypeOK, End

\* A later package ends later.
LEMMA EndsDiffer ==
  ASSUME FInv, NEW i \in 0..Len(cut), NEW j \in 0..Len(cut), End(i) = End(j)
  PROVE  i = j
<1>1. End(i) \in Nat /\ Len(cut) \in Nat
  BY Ends DEF FInv
<1> QED BY <1>1, HeaderAssumption DEF FInv, Cuts

LEMMA PosBound ==
  ASSUME TypeOK, Boxed
  PROVE  /\ Pos \in 1..fed + 1
         /\ boxqueue # <<>> =>
              /\ Head(boxqueue) \in Intervals /\ At = Pos /\ At \in Nat /\ Head(boxqueue).to \in Nat
              /\ Head(boxqueue).from \in Nat
              /\ Head(boxqueue).from <= At /\ At <= Head(boxqueue).to /\ Head(boxqueue).to <= fed
<1>1. CASE boxqueue = <<>>
  BY <1>1 DEF Pos, TypeOK
<1>2. CASE boxqueue # <<>>
  <2>1. boxqueue \in Seq(Intervals) /\ index \in Nat /\ fed \in Nat
    BY DEF TypeOK, Intervals
  <2>2. Head(boxqueue) = boxqueue[1] /\ boxqueue[1] \in Intervals /\ 1 \in 1..Len(boxqueue)
    BY <1>2, <2>1, FrontAndRest
  <2>3. /\ 1 <= Head(boxqueue).from /\ Head(boxqueue).from <= Head(boxqueue).to
        /\ Head(boxqueue).to <= fed
    BY <2>2 DEF Boxed, Line
  <2>4. Head(boxqueue).from \in Nat /\ Head(boxqueue).to \in Nat
    BY <2>2 DEF Intervals
  <2>5. At \in Nat /\ Head(boxqueue).from <= At /\ At <= Head(boxqueue).to
    BY <2>1, <2>3, <2>4 DEF Boxed, At
  <2> QED BY <1>2, <2>1, <2>2, <2>3, <2>4, <2>5 DEF Pos
<1> QED BY <1>1, <1>2

\* A function over an interval is a sequence.
LEMMA Written ==
  ASSUME NEW n \in Nat, NEW f \in [1..n -> Nat]
  PROVE  f \in Seq(Nat) /\ Len(f) = n
<1>1. f \in Seq(Nat)
  BY SeqDef
<1>2. Len(f) \in Nat /\ 1..Len(f) = 1..n
  BY <1>1, LenProperties
<1> QED BY <1>1, <1>2

\* When a read returns it has got all it wanted.
LEMMA ReadInFull ==
  ASSUME FInv, call \in {"header", "body"}, ReadReturns
  PROVE  /\ want = 0 /\ Len(buf) = Goal /\ Goal \in Nat /\ Pos = Base + 1 + Goal
         /\ \A i \in 1..Goal : buf[i] = Base + i
<1>1. want \in Nat /\ Len(buf) \in Nat /\ fed \in Nat /\ AllBytes \in Nat
  BY DEF FInv, TypeOK
<1>2. want = 0
  <2>1. CASE boxqueue = <<>>
    BY <1>1, <2>1 DEF FInv, Boxed, Pos, Reading
  <2> QED BY <2>1 DEF ReadReturns
<1>3. want + Len(buf) = Goal /\ Pos = Base + 1 + Len(buf) /\ \A i \in 1..Len(buf) : buf[i] = Base + i
  BY DEF FInv, Reading
<1> QED BY <1>1, <1>2, <1>3

LEMMA Sizes1 ==
  ASSUME FInv, Len(out) < Len(cut)
  PROVE  /\ Len(out) \in Nat /\ Len(out) + 1 \in 1..Len(cut)
         /\ End(Len(out)) \in Nat /\ End(Len(out) + 1) \in Nat /\ Size \in Nat \ {0}
         /\ End(Len(out) + 1) = cut[Len(out) + 1]
<1>1. Len(out) \in Nat /\ Len(cut) \in Nat
  BY DEF FInv, TypeOK
<1>2. Len(out) \in 0..Len(cut) /\ Len(out) + 1 \in 1..Len(cut) /\ Len(out) + 1 \in 0..Len(cut)
  BY <1>1
<1>3. End(Len(out)) \in Nat /\ End(Len(out) + 1) \in Nat
  BY <1>2, Ends DEF FInv
<1>4. End(Len(out)) + Header < End(Len(out) + 1)
  BY <1>1, <1>2 DEF FInv, Cuts
<1> QED BY <1>1, <1>2, <1>3, <1>4, HeaderAssumption DEF Size, End

\* The header that was read says the size of the next package.
LEMMA SaysSize ==
  ASSUME FInv, HeaderRead
  PROVE  lenght' = Size
<1>1. /\ call = "header" /\ want = 0 /\ Len(buf) = Header /\ buf \in Seq(Nat)
      /\ Len(out) < Len(cut) /\ \A i \in 1..Header : buf[i] = End(Len(out)) + i
  BY ReadInFull DEF HeaderRead, Goal, Base, FInv, Reading, TypeOK
<1>2. /\ Len(out) \in Nat /\ Len(out) + 1 \in 1..Len(cut) /\ (Len(out) + 1) - 1 = Len(out)
      /\ End(Len(out)) \in Nat /\ Size \in Nat /\ Len(cut) \in Nat
      /\ End(Len(out) + 1) = cut[Len(out) + 1]
  BY <1>1, Sizes1, Ends DEF FInv
<1>3. buf = HeaderOf(Len(out) + 1)
  <2>1. HeaderOf(Len(out) + 1) = [i \in 1..Header |-> End(Len(out)) + i]
    BY <1>2, Zenon DEF HeaderOf
  <2>2. buf \in [1..Header -> Nat]
    BY <1>1, LenProperties
  <2> QED BY <1>1, <2>1, <2>2
<1>4. ASSUME NEW k \in 1..Len(cut), HeaderOf(k) = buf
      PROVE  k = Len(out) + 1
  <2>1. k - 1 \in 0..Len(cut) /\ Len(out) \in 0..Len(cut) /\ k \in Nat
    BY <1>2
  <2>2. HeaderOf(k)[1] = End(k - 1) + 1 /\ HeaderOf(Len(out) + 1)[1] = End(Len(out)) + 1
    BY <1>2, HeaderAssumption DEF HeaderOf
  <2>3. End(k - 1) \in Nat
    BY <2>1, Ends DEF FInv
  <2>4. End(k - 1) = End(Len(out))
    BY <1>2, <1>3, <1>4, <2>2, <2>3
  <2>5. k - 1 = Len(out)
    BY <2>1, <2>4, EndsDiffer
  <2> QED BY <1>2, <2>1, <2>5
<1>5. Len(BodyOf(Len(out) + 1)) = Size
  <2>1. BodyOf(Len(out) + 1) = [i \in 1..Size |-> End(Len(out)) + Header + i]
    BY <1>2, Zenon DEF BodyOf, Size
  <2>2. [i \in 1..Size |-> End(Len(out)) + Header + i] \in [1..Size -> Nat]
    BY <1>2, HeaderAssumption
  <2> QED BY <1>2, <2>1, <2>2, Written
<1>6. Says(buf) = {Size}
  <2>1. {k \in 1..Len(cut) : HeaderOf(k) = buf} = {Len(out) + 1}
    BY <1>2, <1>3, <1>4
  <2> QED BY <1>5, <2>1 DEF Says
<1> QED BY <1>6 DEF HeaderRead

\* The bytes that were read are those of the next package, which is complete.
LEMMA BodyIsNext ==
  ASSUME FInv, BodyRead
  PROVE  /\ answer' = "OK" /\ out' = Append(out, Len(out) + 1)
         /\ Len(out) + 1 \in 1..Len(cut) /\ cut[Len(out) + 1] <= fed
         /\ Pos = End(Len(out) + 1) + 1
<1>1. /\ call = "body" /\ want = 0 /\ Len(buf) = Size /\ buf \in Seq(Nat)
      /\ Pos = End(Len(out)) + Header + 1 + Size
      /\ Len(out) < Len(cut) /\ \A i \in 1..Size : buf[i] = End(Len(out)) + Header + i
  BY ReadInFull DEF BodyRead, Goal, Base, FInv, Reading, TypeOK
<1>2. /\ Len(out) \in Nat /\ Len(out) + 1 \in 1..Len(cut) /\ (Len(out) + 1) - 1 = Len(out)
      /\ End(Len(out)) \in Nat /\ End(Len(out) + 1) \in Nat
      /\ Size \in Nat \ {0} /\ Len(cut) \in Nat
      /\ End(Len(out) + 1) = cut[Len(out) + 1]
  BY <1>1, Sizes1, Ends DEF FInv
<1>3. Pos = End(Len(out) + 1) + 1
  BY <1>1, <1>2, HeaderAssumption DEF Size
<1>4. Pos <= fed + 1 /\ fed \in Nat
  BY PosBound DEF FInv, TypeOK
<1>5. buf = BodyOf(Len(out) + 1)
  <2>1. BodyOf(Len(out) + 1) = [i \in 1..Size |-> End(Len(out)) + Header + i]
    BY <1>2, Zenon DEF BodyOf, Size
  <2>2. buf \in [1..Size -> Nat]
    BY <1>1, LenProperties
  <2> QED BY <1>1, <2>1, <2>2
<1>6. ASSUME NEW k \in 1..Len(cut), BodyOf(k) = buf
      PROVE  k = Len(out) + 1
  <2>1. k - 1 \in 0..Len(cut) /\ Len(out) \in 0..Len(cut) /\ k \in Nat /\ k \in 0..Len(cut)
    BY <1>2
  <2>2. End(k - 1) \in Nat /\ End(k) \in Nat /\ End(k) = cut[k] /\ End(k - 1) + Header < End(k)
    BY <1>2, <2>1, Ends DEF FInv, Cuts, End
  <2>3. BodyOf(k)[1] = End(k - 1) + Header + 1
    BY <2>2, HeaderAssumption DEF BodyOf
  <2>4. BodyOf(Len(out) + 1)[1] = End(Len(out)) + Header + 1
    BY <1>1, <1>2, <1>5
  <2>5. End(k - 1) = End(Len(out))
    BY <1>2, <1>5, <1>6, <2>2, <2>3, <2>4, HeaderAssumption
  <2>6. k - 1 = Len(out)
    BY <2>1, <2>5, EndsDiffer
  <2> QED BY <1>2, <2>1, <2>6
<1>7. {k \in 1..Len(cut) : BodyOf(k) = buf} = {Len(out) + 1}
  BY <1>2, <1>5, <1>6
<1>8. answer' = "OK" /\ out' = Append(out, Len(out) + 1)
  BY <1>7 DEF BodyRead
<1> QED BY <1>2, <1>3, <1>4, <1>8

-----------------------------------------------------------------------------
(* One step *)

LEMMA InitFInv == Init => FInv
<1> SUFFICES ASSUME Init PROVE FInv
  OBVIOUS
<1>1. TypeOK
  BY DEF Init, TypeOK
<1>2. Line(boxqueue, fed) /\ Len(cut) = 0 /\ Len(out) = 0 /\ End(0) = 0
  BY DEF Init, Line, End
<1>3. Pos = 1 /\ fed = 0 /\ AllBytes = 0
  BY DEF Init, Pos
<1> QED
  BY <1>1, <1>2, <1>3
  DEF Init, FInv, Cuts, Boxed, Given, Answers, Between, Reading

LEMMA SerializeStep ==
  ASSUME FInv, NEW n \in Nat \ {0}, Serialize(n)
  PROVE  FInv' /\ \A k \in 1..Len(cut)' : cut[k]' <= fed' => k \in 1..Len(cut) /\ cut[k] <= fed
<1> DEFINE new == End(Len(cut)) + Header + n
<1>1. Len(cut) \in Nat /\ End(Len(cut)) \in Nat /\ new \in Nat /\ new > End(Len(cut)) + Header
      /\ cut \in Seq(Nat)
  BY Ends, HeaderAssumption DEF FInv, TypeOK
<1>2. cut' = Append(cut, new)
  BY DEF Serialize
<1> HIDE DEF new
<1>3. /\ cut' \in Seq(Nat) /\ Len(cut') = Len(cut) + 1
      /\ \A k \in 1..Len(cut) : cut'[k] = cut[k]
      /\ cut'[Len(cut) + 1] = new
  BY <1>1, <1>2, AppendProperties
<1>4. UNCHANGED <<fed, boxqueue, index, AllBytes, lenght, call, want, buf, out, answer>>
  BY DEF Serialize, queue, read
<1>5. TypeOK'
  BY <1>3, <1>4 DEF FInv, TypeOK
<1>6. /\ \A k \in 0..Len(cut) : End(k)' = End(k) /\ End(k) \in Nat
      /\ \A k \in Nat : k = Len(cut) + 1 => End(k)' = new
  <2>1. ASSUME NEW k \in 0..Len(cut) PROVE End(k)' = End(k)
    BY <1>1, <1>3 DEF End
  <2>2. ASSUME NEW k \in Nat, k = Len(cut) + 1 PROVE End(k)' = new
    BY <1>1, <1>3, <2>2 DEF End
  <2> QED BY <2>1, <2>2, Ends DEF FInv
<1>7. Cuts'
  <2> SUFFICES ASSUME NEW i \in 0..Len(cut'), NEW j \in 0..Len(cut'), i < j
               PROVE  End(i)' + Header < End(j)'
    BY <1>4, <1>6 DEF Cuts
  <2>1. CASE j = Len(cut) + 1
    <3>1. i \in 0..Len(cut)
      BY <1>1, <1>3, <2>1
    <3>2. i = Len(cut) \/ End(i) + Header < End(Len(cut))
      BY <1>1, <3>1 DEF FInv, Cuts
    <3>3. End(j)' = new /\ End(i)' = End(i) /\ End(i) \in Nat
      BY <1>1, <1>6, <2>1, <3>1
    <3> QED BY <1>1, <3>2, <3>3, HeaderAssumption
  <2>2. CASE j \in 0..Len(cut)
    <3>1. i \in 0..Len(cut)
      BY <1>1, <2>2
    <3>2. End(i) + Header < End(j)
      BY <2>2, <3>1 DEF FInv, Cuts
    <3> QED BY <1>6, <2>2, <3>1, <3>2
  <2> QED BY <1>1, <1>3, <2>1, <2>2
<1>8. Boxed'
  <2>1. fed' <= End(Len(cut))'
    <3>1. End(Len(cut))' = new
      BY <1>1, <1>3 DEF End
    <3> QED BY <1>1, <1>4, <3>1, HeaderAssumption DEF FInv, TypeOK, Boxed
  <2> QED BY <1>4, <2>1 DEF FInv, Boxed, Pos, At
<1>9. Given' /\ Answers'
  BY <1>1, <1>3, <1>4 DEF FInv, TypeOK, Given, Answers
<1>10. /\ Pos' = Pos /\ End(Len(out))' = End(Len(out))
       /\ Len(out) < Len(cut) => Len(out') < Len(cut') /\ Size' = Size
  <2>1. Len(out) \in 0..Len(cut) /\ (Len(out) < Len(cut) => Len(out) + 1 \in 0..Len(cut))
    BY <1>1 DEF FInv, TypeOK, Given
  <2> QED BY <1>1, <1>3, <1>4, <1>6, <2>1 DEF Pos, At, Size
<1>11. Between'
  BY <1>4, <1>10 DEF FInv, Between
<1>12. Reading'
  BY <1>4, <1>10 DEF FInv, Reading, Base, Goal
<1>13. ASSUME NEW k \in 1..Len(cut'), cut'[k] <= fed'
       PROVE  k \in 1..Len(cut) /\ cut[k] <= fed
  <2>1. k # Len(cut) + 1
    BY <1>1, <1>3, <1>4, <1>13, HeaderAssumption DEF FInv, TypeOK, Boxed
  <2> QED BY <1>1, <1>3, <1>4, <1>13, <2>1
<1> QED BY <1>5, <1>7, <1>8, <1>9, <1>11, <1>12, <1>13 DEF FInv

LEMMA PushStep ==
  ASSUME FInv, NEW n \in Nat \ {0}, Push(n)
  PROVE  FInv'
<1> DEFINE box == [from |-> fed + 1, to |-> fed + n]
<1>1. /\ boxqueue \in Seq(Intervals) /\ fed \in Nat /\ AllBytes \in Nat /\ index \in Nat
      /\ box \in Intervals /\ box.from = fed + 1 /\ box.to = fed + n /\ box.to >= box.from
  BY DEF FInv, TypeOK, Intervals
<1>2. /\ boxqueue' = Append(boxqueue, box) /\ fed' = fed + n /\ AllBytes' = AllBytes + n
      /\ call = "none" /\ fed + n <= End(Len(cut))
      /\ UNCHANGED <<cut, index, lenght, call, want, buf, out, answer>>
  BY DEF Push, read
<1> HIDE DEF box
<1>3. Line(boxqueue', fed') /\ boxqueue' \in Seq(Intervals)
  BY <1>1, <1>2, LinePushed, AppendProperties DEF FInv, Boxed
<1>4. /\ boxqueue' # <<>>
      /\ Head(boxqueue') = IF boxqueue = <<>> THEN box ELSE Head(boxqueue)
  BY <1>1, <1>2, AppendProperties, HeadTailAppend
<1>5. TypeOK'
  BY <1>1, <1>2, <1>3 DEF FInv, TypeOK, Intervals
<1>6. Pos' = Pos
  <2>1. CASE boxqueue = <<>>
    <3>1. index = 0
      BY <2>1 DEF FInv, Boxed
    <3> QED BY <1>1, <1>2, <1>4, <2>1, <3>1 DEF Pos, At
  <2>2. CASE boxqueue # <<>>
    BY <1>2, <1>4, <2>2 DEF Pos, At
  <2> QED BY <2>1, <2>2
<1>7. Boxed'
  <2>1. End(Len(cut))' = End(Len(cut))
    BY <1>2 DEF End
  <2>2. index' # 0 => Head(boxqueue').from <= index' /\ index' <= Head(boxqueue').to
    BY <1>2, <1>4 DEF FInv, Boxed
  <2>3. AllBytes' = fed' + 1 - Pos'
    <3>1. Pos \in Nat /\ AllBytes = fed + 1 - Pos
      BY <1>1, PosBound DEF FInv, Boxed
    <3> QED BY <1>1, <1>2, <1>6, <3>1
  <2> QED BY <1>2, <1>3, <1>4, <2>1, <2>2, <2>3 DEF Boxed
<1>8. Cuts' /\ Given' /\ Answers'
  BY <1>2 DEF FInv, Cuts, End, Given, Answers
<1>9. Between' /\ Reading'
  BY <1>2, <1>6 DEF FInv, Between, Reading, Size, End
<1> QED BY <1>5, <1>7, <1>8, <1>9 DEF FInv

LEMMA GetPackageStep ==
  ASSUME FInv, GetPackage
  PROVE  /\ FInv'
         /\ answer' = "NOTCOM" => ~(Len(out) + 1 \in 1..Len(cut) /\ cut[Len(out) + 1] <= fed)
<1>1. /\ UNCHANGED <<cut, fed, boxqueue, index, AllBytes, lenght, out>>
      /\ call = "none" /\ answer = "none"
  BY DEF GetPackage, queue
<1>2. fed \in Nat /\ AllBytes \in Nat /\ Pos \in Nat /\ AllBytes = fed + 1 - Pos
  BY PosBound DEF FInv, TypeOK, Boxed
<1>3. Cuts' /\ Boxed' /\ Given' /\ Pos' = Pos /\ Size' = Size /\ End(Len(out))' = End(Len(out))
      /\ End(Len(out))' + Header = End(Len(out)) + Header
  BY <1>1 DEF FInv, Cuts, End, Boxed, Given, Pos, At, Size
<1>4. CASE lenght # 0
  <2>1. call' = "test" /\ UNCHANGED <<want, buf, answer>>
    BY <1>4 DEF GetPackage, read
  <2>2. TypeOK' /\ Answers'
    BY <1>1, <2>1 DEF FInv, TypeOK, Answers
  <2>3. Between' /\ Reading'
    BY <1>1, <1>3, <1>4, <2>1 DEF FInv, Between, Reading
  <2> QED BY <1>1, <1>3, <2>1, <2>2, <2>3 DEF FInv
<1>5. CASE lenght = 0 /\ AllBytes < Header
  <2>1. answer' = "NOTCOM" /\ UNCHANGED <<call, want, buf>>
    BY <1>5 DEF GetPackage, read
  <2>2. TypeOK' /\ Answers'
    BY <1>1, <2>1 DEF FInv, TypeOK, Answers
  <2>3. Between' /\ Reading'
    BY <1>1, <1>3, <2>1 DEF FInv, Between, Reading
  <2>4. ASSUME Len(out) + 1 \in 1..Len(cut), cut[Len(out) + 1] <= fed
        PROVE  FALSE
    <3>1. Len(out) < Len(cut)
      BY <2>4 DEF FInv, TypeOK
    <3>2. /\ End(Len(out)) \in Nat /\ Size \in Nat \ {0} /\ End(Len(out) + 1) \in Nat
          /\ End(Len(out) + 1) = cut[Len(out) + 1]
      BY <3>1, Sizes1
    <3>3. Pos = End(Len(out)) + 1
      BY <1>1, <1>5, <3>2 DEF FInv, Between
    <3> QED BY <1>2, <1>5, <2>4, <3>2, <3>3, HeaderAssumption DEF Size
  <2> QED BY <1>3, <2>2, <2>3, <2>4 DEF FInv
<1>6. CASE lenght = 0 /\ ~(AllBytes < Header)
  <2>1. call' = "header" /\ want' = Header /\ buf' = <<>> /\ UNCHANGED answer
    BY <1>6 DEF GetPackage
  <2>2. TypeOK' /\ Answers'
    BY <1>1, <2>1, HeaderAssumption DEF FInv, TypeOK, Answers
  <2>3. Pos = End(Len(out)) + 1
    <3>1. lenght = 0 /\ Len(out) < Len(cut) => lenght # Size
      BY Sizes1
    <3> QED BY <1>1, <1>6, <3>1 DEF FInv, Between
  <2>4. Len(out) < Len(cut)
    <3>1. Len(out) \in 0..Len(cut) /\ Len(cut) \in Nat
      BY DEF FInv, TypeOK, Given
    <3>2. End(Len(out)) \in Nat /\ End(Len(cut)) \in Nat /\ fed <= End(Len(cut))
      BY <3>1, Ends DEF FInv, Boxed
    <3>3. End(Len(out)) # End(Len(cut))
      BY <1>2, <1>6, <2>3, <3>2, HeaderAssumption
    <3> QED BY <3>1, <3>3
  <2>5. Reading'
    <3>1. Base' = End(Len(out)) /\ Goal' = Header /\ Len(buf') = 0 /\ End(Len(out)) \in Nat
      BY <1>3, <2>1, <2>4, Sizes1 DEF Base, Goal
    <3> QED
      BY <1>1, <1>2, <1>3, <1>6, <2>1, <2>3, <2>4, <3>1, HeaderAssumption DEF Reading
  <2>6. Between'
    BY <2>1 DEF Between
  <2> QED BY <1>1, <1>3, <2>1, <2>2, <2>5, <2>6 DEF FInv
<1> QED BY <1>4, <1>5, <1>6

\* A turn of read's loop moves Pos as far as it takes bytes.
LEMMA TurnStep ==
  ASSUME FInv, Turn
  PROVE  FInv'
<1>1. /\ UNCHANGED <<cut, fed, lenght, call, out, answer>>
      /\ call \in {"header", "body"} /\ want > 0 /\ boxqueue # <<>>
      /\ want' = want - Taken /\ AllBytes' = AllBytes - Taken
      /\ buf' = buf \o [i \in 1..Taken |-> At + i - 1]
  BY DEF Turn
<1>2. /\ boxqueue \in Seq(Intervals) /\ fed \in Nat /\ AllBytes \in Nat /\ index \in Nat
      /\ want \in Nat /\ buf \in Seq(Nat) /\ Len(buf) \in Nat /\ want <= AllBytes
  BY <1>1 DEF FInv, TypeOK, Reading, Intervals
<1>3. /\ Head(boxqueue) \in Intervals /\ At = Pos /\ At \in Nat /\ Head(boxqueue).to \in Nat
      /\ Head(boxqueue).from <= At /\ At <= Head(boxqueue).to /\ Head(boxqueue).to <= fed
      /\ At >= 1 /\ Head(boxqueue).from \in Nat
  BY <1>1, PosBound DEF FInv
<1>4. Taken \in Nat /\ 1 <= Taken /\ Taken <= want /\ At + Taken <= Head(boxqueue).to + 1
  <2> DEFINE left == Head(boxqueue).to - At + 1
  <2>1. left \in Nat /\ 1 <= left /\ At + left = Head(boxqueue).to + 1
    BY <1>3
  <2>2. Taken = IF left > want THEN want ELSE left
    BY Zenon DEF Taken
  <2> HIDE DEF left
  <2> QED BY <1>1, <1>2, <1>3, <2>1, <2>2
<1> DEFINE piece == [i \in 1..Taken |-> At + i - 1]
<1>5. /\ buf' \in Seq(Nat) /\ Len(buf') = Len(buf) + Taken
      /\ \A i \in 1..Len(buf) : buf'[i] = buf[i]
      /\ \A i \in 1..Taken : buf'[Len(buf) + i] = At + i - 1
  <2>1. piece \in [1..Taken -> Nat] /\ \A i \in 1..Taken : piece[i] = At + i - 1
    BY <1>3, <1>4
  <2>2. piece \in Seq(Nat) /\ Len(piece) = Taken /\ buf' = buf \o piece
    BY <1>1, <1>4, <2>1, Written
  <2> HIDE DEF piece
  <2>3. /\ buf' \in Seq(Nat) /\ Len(buf') = Len(buf) + Taken
        /\ \A i \in 1..Len(buf) + Taken :
             buf'[i] = IF i <= Len(buf) THEN buf[i] ELSE piece[i - Len(buf)]
    BY <1>2, <2>2, ConcatProperties
  <2>4. ASSUME NEW i \in 1..Taken PROVE buf'[Len(buf) + i] = piece[i]
    <3>1. /\ Len(buf) + i \in 1..Len(buf) + Taken /\ ~(Len(buf) + i <= Len(buf))
          /\ (Len(buf) + i) - Len(buf) = i
      BY <1>2, <1>4
    <3> QED BY <2>3, <3>1
  <2>5. ASSUME NEW i \in 1..Len(buf) PROVE buf'[i] = buf[i]
    <3>1. i \in 1..Len(buf) + Taken /\ i <= Len(buf)
      BY <1>2, <1>4
    <3> QED BY <2>3, <3>1
  <2> QED BY <2>1, <2>3, <2>4, <2>5
<1>6. /\ boxqueue' \in Seq(Intervals) /\ index' \in Nat /\ Line(boxqueue', fed)
      /\ index' # 0 => boxqueue' # <<>> /\ Head(boxqueue').from <= index'
                       /\ index' <= Head(boxqueue').to
      /\ Pos' = Pos + Taken
  <2>1. CASE At + Taken > Head(boxqueue).to
    <3>1. /\ boxqueue' = Tail(boxqueue)
          /\ index' = IF Tail(boxqueue) = <<>> THEN 0 ELSE Head(Tail(boxqueue)).from
      BY <2>1 DEF Turn
    <3>2. At + Taken = Head(boxqueue).to + 1
      BY <1>3, <1>4, <2>1
    <3>3. /\ Tail(boxqueue) \in Seq(Intervals) /\ Line(Tail(boxqueue), fed)
          /\ Tail(boxqueue) = <<>> => Head(boxqueue).to = fed
          /\ Tail(boxqueue) # <<>> => /\ Head(Tail(boxqueue)) \in Intervals
                                      /\ Head(Tail(boxqueue)).from = Head(boxqueue).to + 1
      BY <1>1, <1>2, LinePopped DEF FInv, Boxed
    <3>4. CASE Tail(boxqueue) = <<>>
      <4>1. Pos' = fed + 1
        BY <1>1, <3>1, <3>4 DEF Pos
      <4> QED BY <1>3, <3>1, <3>2, <3>3, <3>4, <4>1
    <3>5. CASE Tail(boxqueue) # <<>>
      <4>1. index' = Head(boxqueue).to + 1 /\ index' # 0 /\ index' \in Nat
        <5>1. index' = Head(boxqueue).to + 1
          BY <3>1, <3>3, <3>5, Zenon
        <5>2. \A n \in Nat : n + 1 \in Nat /\ n + 1 # 0
          OBVIOUS
        <5> QED BY <1>3, <5>1, <5>2, Zenon
      <4>2. Pos' = index'
        BY <3>1, <3>5, <4>1 DEF Pos, At
      <4>3. Head(Tail(boxqueue)).from <= Head(Tail(boxqueue)).to
        <5>1. Head(Tail(boxqueue)) = Tail(boxqueue)[1] /\ 1 \in 1..Len(Tail(boxqueue))
          BY <3>3, <3>5, FrontAndRest
        <5> QED BY <3>3, <5>1 DEF Line
      <4>4. Head(Tail(boxqueue)).from = index'
        BY <3>1, <3>5
      <4>5. Pos' = Pos + Taken
        BY <1>3, <3>2, <4>1, <4>2
      <4>6. Head(boxqueue').from <= index' /\ index' <= Head(boxqueue').to
        <5>1. Head(Tail(boxqueue)).from \in Nat /\ Head(Tail(boxqueue)).to \in Nat
          BY <3>3, <3>5 DEF Intervals
        <5>2. \A n \in Nat : n <= n
          OBVIOUS
        <5> QED BY <3>1, <4>3, <4>4, <5>1, <5>2, Zenon
      <4> QED BY <3>1, <3>3, <3>5, <4>1, <4>5, <4>6
    <3> QED BY <3>4, <3>5
  <2>2. CASE ~(At + Taken > Head(boxqueue).to)
    <3>1. index' = At + Taken /\ boxqueue' = boxqueue
      BY <2>2 DEF Turn
    <3>2. Pos' = At + Taken
      BY <1>1, <1>3, <1>4, <3>1 DEF Pos, At
    <3> QED BY <1>1, <1>2, <1>3, <1>4, <2>2, <3>1, <3>2 DEF FInv, Boxed
  <2> QED BY <2>1, <2>2
<1>7. TypeOK'
  <2>1. want' \in Nat /\ AllBytes' \in Nat
    BY <1>1, <1>2, <1>4
  <2> QED BY <1>1, <1>5, <1>6, <2>1 DEF FInv, TypeOK, Intervals
<1>8. Boxed'
  <2>1. AllBytes' = fed' + 1 - Pos'
    <3>1. AllBytes = fed + 1 - Pos /\ Pos \in Nat
      BY <1>3 DEF FInv, Boxed
    <3> QED BY <1>1, <1>2, <1>4, <1>6, <3>1
  <2>2. fed' <= End(Len(cut))'
    BY <1>1 DEF FInv, Boxed, End
  <2> QED BY <1>1, <1>6, <2>1, <2>2 DEF Boxed
<1>9. Cuts' /\ Given' /\ Answers' /\ Between'
  BY <1>1 DEF FInv, Cuts, End, Given, Answers, Between
<1>10. Reading'
  <2>1. Base' = Base /\ Goal' = Goal /\ Size' = Size
    BY <1>1 DEF Base, Goal, Size, End
  <2>2. /\ Len(out) < Len(cut) /\ (call = "body" => lenght = Size)
        /\ want + Len(buf) = Goal /\ Pos = Base + 1 + Len(buf)
        /\ \A i \in 1..Len(buf) : buf[i] = Base + i
    BY <1>1 DEF FInv, Reading
  <2>3. Base \in Nat
    BY <2>2, Sizes1, HeaderAssumption DEF Base
  <2>4. want' + Len(buf') = Goal' /\ Pos' = Base' + 1 + Len(buf') /\ want' <= AllBytes'
    BY <1>1, <1>2, <1>3, <1>4, <1>5, <1>6, <2>1, <2>2, <2>3
  <2>5. ASSUME NEW i \in 1..Len(buf') PROVE buf'[i] = Base' + i
    <3>1. CASE i \in 1..Len(buf)
      BY <1>5, <2>1, <2>2, <3>1
    <3>2. CASE i \notin 1..Len(buf)
      <4>1. i - Len(buf) \in 1..Taken /\ Len(buf) + (i - Len(buf)) = i
        BY <1>2, <1>4, <1>5, <3>2
      <4>2. buf'[i] = At + (i - Len(buf)) - 1
        BY <1>5, <4>1
      <4> QED BY <1>2, <1>3, <2>1, <2>2, <2>3, <4>2
    <3> QED BY <3>1, <3>2
  <2> QED BY <1>1, <2>1, <2>2, <2>4, <2>5 DEF Reading
<1> QED BY <1>7, <1>8, <1>9, <1>10 DEF FInv

LEMMA HeaderReadStep ==
  ASSUME FInv, HeaderRead
  PROVE  FInv'
<1>1. /\ UNCHANGED <<cut, fed, boxqueue, index, AllBytes, want, buf, out, answer>>
      /\ call = "header" /\ call' = "test" /\ lenght' = Size
  BY SaysSize DEF HeaderRead, queue, read
<1>2. Len(out) < Len(cut) /\ Pos = End(Len(out)) + Header + 1
  <2>1. Pos = Base + 1 + Goal /\ Goal = Header /\ Base = End(Len(out)) /\ Len(out) < Len(cut)
    BY <1>1, ReadInFull DEF HeaderRead, Goal, Base, FInv, Reading
  <2> QED BY <2>1, Sizes1, HeaderAssumption
<1>3. Size \in Nat
  BY <1>2, Sizes1
<1>4. TypeOK'
  BY <1>1, <1>3 DEF FInv, TypeOK
<1>5. Cuts' /\ Boxed' /\ Given' /\ Answers'
  BY <1>1 DEF FInv, Cuts, End, Boxed, Pos, At, Given, Answers
<1>6. Between' /\ Reading'
  BY <1>1, <1>2 DEF Between, Reading, Size, End, Pos, At
<1> QED BY <1>4, <1>5, <1>6 DEF FInv

LEMMA TestStep ==
  ASSUME FInv, Test
  PROVE  /\ FInv'
         /\ answer' = "NOTCOM" => ~(Len(out) + 1 \in 1..Len(cut) /\ cut[Len(out) + 1] <= fed)
<1>1. UNCHANGED <<cut, fed, boxqueue, index, AllBytes, lenght, out>> /\ call = "test"
  BY DEF Test, queue
<1>2. /\ fed \in Nat /\ AllBytes \in Nat /\ AllBytes = fed + 1 - Pos
      /\ Len(out) < Len(cut) /\ lenght = Size /\ Pos = End(Len(out)) + Header + 1
      /\ answer = "none"
  BY <1>1 DEF FInv, TypeOK, Boxed, Between, Answers
<1>3. /\ Size \in Nat \ {0} /\ End(Len(out)) \in Nat /\ End(Len(out) + 1) \in Nat
      /\ End(Len(out) + 1) = cut[Len(out) + 1]
  BY <1>2, Sizes1
<1>4. /\ Cuts' /\ Boxed' /\ Given' /\ Pos' = Pos /\ Size' = Size
      /\ End(Len(out))' = End(Len(out))
  BY <1>1 DEF FInv, Cuts, End, Boxed, Given, Pos, At, Size
<1>5. CASE AllBytes < lenght
  <2>1. answer' = "NOTCOM" /\ call' = "none" /\ UNCHANGED <<want, buf>>
    BY <1>5 DEF Test, read
  <2>2. TypeOK' /\ Answers'
    BY <1>1, <2>1 DEF FInv, TypeOK, Answers
  <2>3. Between' /\ Reading'
    BY <1>1, <1>2, <1>4, <2>1 DEF Between, Reading
  <2>4. ~(cut[Len(out) + 1] <= fed)
    BY <1>2, <1>3, <1>5, HeaderAssumption DEF Size
  <2> QED BY <1>4, <2>2, <2>3, <2>4 DEF FInv
<1>6. CASE ~(AllBytes < lenght)
  <2>1. call' = "body" /\ want' = lenght /\ buf' = <<>> /\ UNCHANGED answer
    BY <1>6 DEF Test
  <2>2. TypeOK' /\ Answers'
    BY <1>1, <1>2, <1>3, <2>1 DEF FInv, TypeOK, Answers
  <2>3. Base' = End(Len(out)) + Header /\ Goal' = Size /\ Len(buf') = 0
    BY <1>4, <2>1 DEF Base, Goal
  <2>4. Between'
    BY <2>1 DEF Between
  <2>5. Reading'
    <3>1. want' = Size /\ want' <= AllBytes' /\ want' + Len(buf') = Goal'
      BY <1>1, <1>2, <1>3, <1>6, <2>1, <2>3
    <3>2. Pos' = Base' + 1 + Len(buf')
      BY <1>2, <1>3, <1>4, <2>3, HeaderAssumption
    <3>3. \A i \in 1..Len(buf') : buf'[i] = Base' + i
      BY <2>3
    <3>4. Len(out') < Len(cut') /\ lenght' = Size'
      BY <1>1, <1>2, <1>4
    <3> QED BY <3>1, <3>2, <3>3, <3>4 DEF Reading
  <2> QED BY <1>2, <1>4, <2>1, <2>2, <2>4, <2>5 DEF FInv
<1> QED BY <1>5, <1>6

LEMMA BodyReadStep ==
  ASSUME FInv, BodyRead
  PROVE  FInv'
<1>1. /\ UNCHANGED <<cut, fed, boxqueue, index, AllBytes, want, buf>>
      /\ lenght' = 0 /\ call' = "none"
  BY DEF BodyRead, queue, read
<1>2. /\ answer' = "OK" /\ out' = Append(out, Len(out) + 1)
      /\ Len(out) + 1 \in 1..Len(cut) /\ Pos = End(Len(out) + 1) + 1
  BY BodyIsNext
<1>3. out \in Seq(Nat) /\ Len(out) \in Nat /\ Len(cut) \in Nat
  BY DEF FInv, TypeOK
<1>4. /\ out' \in Seq(Nat) /\ Len(out') = Len(out) + 1
      /\ \A i \in 1..Len(out) : out'[i] = out[i]
      /\ out'[Len(out) + 1] = Len(out) + 1
  BY <1>2, <1>3, AppendProperties
<1>5. TypeOK'
  BY <1>1, <1>2, <1>4 DEF FInv, TypeOK
<1>6. Cuts' /\ Boxed' /\ Pos' = Pos /\ Answers'
  BY <1>1, <1>2 DEF FInv, Cuts, End, Boxed, Pos, At, Answers
<1>7. Given'
  <2>1. Len(out') <= Len(cut')
    BY <1>1, <1>2, <1>3, <1>4
  <2>2. ASSUME NEW i \in 1..Len(out') PROVE out'[i] = i
    <3>1. i = Len(out) + 1 \/ i \in 1..Len(out)
      BY <1>3, <1>4
    <3> QED BY <1>4, <3>1 DEF FInv, Given
  <2> QED BY <2>1, <2>2 DEF Given
<1>8. Between' /\ Reading'
  <2>1. End(Len(out))' = End(Len(out) + 1)
    BY <1>1, <1>4 DEF End
  <2> QED BY <1>1, <1>2, <1>6, <2>1 DEF Between, Reading
<1> QED BY <1>5, <1>6, <1>7, <1>8 DEF FInv

LEMMA DealtStep ==
  ASSUME FInv, Dealt
  PROVE  FInv'
<1>1. /\ UNCHANGED <<cut, fed, boxqueue, index, AllBytes, lenght, call, want, buf, out>>
      /\ answer' = "none"
  BY DEF Dealt, queue, read
<1> QED
  BY <1>1 DEF FInv, TypeOK, Cuts, End, Boxed, Pos, At, Given, Answers, Between, Reading, Base,
              Goal, Size

LEMMA FInvStep ==
  ASSUME FInv, [Next]_framing
  PROVE  FInv'
<1>1. CASE UNCHANGED framing
  BY <1>1 DEF framing, queue, read, FInv, TypeOK, Cuts, End, Boxed, Pos, At, Given, Answers,
              Between, Reading, Base, Goal, Size
<1>2. ASSUME NEW n \in Sizes, Serialize(n) PROVE FInv'
  BY <1>2, SerializeStep, HeaderAssumption
<1>3. ASSUME NEW n \in Nat \ {0}, Push(n) PROVE FInv'
  BY <1>3, PushStep
<1>4. CASE InGetPackage
  BY <1>4, GetPackageStep, TurnStep, HeaderReadStep, TestStep, BodyReadStep DEF InGetPackage
<1>5. CASE Dealt
  BY <1>5, DealtStep
<1> QED BY <1>1, <1>2, <1>3, <1>4, <1>5 DEF Next

-----------------------------------------------------------------------------
(* The theorems *)

\* FInv holds, for any sizes and any way to cut the stream into boxes.
THEOREM Invariance == Spec => []FInv
<1>1. FInv /\ [Next]_framing => FInv'
  BY FInvStep
<1> QED BY InitFInv, <1>1, PTL DEF Spec

\* Every variable of framing keeps its type: AllBytes and want in particular
\* never fall below 0, where the code's unsigned numbers would wrap.
THEOREM TypeCorrect == Spec => []TypeOK
<1>1. FInv => TypeOK
  BY DEF FInv
<1> QED BY <1>1, Invariance, PTL

\* A step of framing is one of the package queue.
LEMMA PromiseStep ==
  ASSUME FInv, [Next]_framing
  PROVE  [Promise!Next]_(Promise!vars)
<1> DEFINE whole == {k \in 1..Len(cut) : cut[k] <= fed}
<1>1. cut \in Seq(Nat) /\ fed \in Nat /\ Len(cut) \in Nat /\ whole \subseteq Nat
  BY DEF FInv, TypeOK
<1>2. CASE UNCHANGED framing
  BY <1>2 DEF framing, Promise!vars
<1>3. ASSUME NEW n \in Sizes, Serialize(n) PROVE Promise!Next
  <2>1. /\ cut' = Append(cut, End(Len(cut)) + Header + n)
        /\ UNCHANGED <<fed, out, answer>>
    BY <1>3 DEF Serialize
  <2>2. \A k \in 1..Len(cut)' : cut[k]' <= fed' => k \in 1..Len(cut) /\ cut[k] <= fed
    BY <1>3, SerializeStep, HeaderAssumption
  <2>3. cut' \in Seq(Nat) /\ Len(cut') = Len(cut) + 1 /\ \A k \in 1..Len(cut) : cut'[k] = cut[k]
    <3>1. End(Len(cut)) + Header + n \in Nat
      BY Ends, HeaderAssumption DEF FInv
    <3> QED BY <1>1, <2>1, <3>1, AppendProperties
  <2>4. whole \subseteq whole' /\ whole' \subseteq Nat
    BY <1>1, <2>1, <2>3
  <2> QED BY <2>1, <2>4 DEF Promise!Next, Promise!Arrive
<1>4. ASSUME NEW n \in Nat \ {0}, Push(n) PROVE Promise!Next
  <2>1. fed' = fed + n /\ UNCHANGED <<cut, out, answer>>
    BY <1>4 DEF Push
  <2>2. whole \subseteq whole' /\ whole' \subseteq Nat
    BY <1>1, <2>1
  <2> QED BY <2>1, <2>2 DEF Promise!Next, Promise!Arrive
<1>5. ASSUME GetPackage \/ Test PROVE Promise!Next \/ UNCHANGED Promise!vars
  <2>1. UNCHANGED <<cut, fed, out>> /\ answer = "none"
    BY <1>5 DEF GetPackage, Test, FInv, Answers
  <2>2. answer' = answer \/ answer' = "NOTCOM"
    BY <1>5 DEF GetPackage, Test
  <2>3. answer' = "NOTCOM" => Len(out) + 1 \notin whole
    BY <1>5, GetPackageStep, TestStep
  <2>4. whole' = whole
    BY <2>1
  <2> QED BY <2>1, <2>2, <2>3, <2>4 DEF Promise!Next, Promise!Refuse, Promise!vars
<1>6. ASSUME Turn \/ HeaderRead PROVE UNCHANGED Promise!vars
  BY <1>6 DEF Turn, HeaderRead, queue, Promise!vars
<1>7. ASSUME BodyRead PROVE Promise!Next
  <2>1. UNCHANGED <<cut, fed>> /\ answer = "none"
    BY <1>7 DEF BodyRead, FInv, Answers
  <2>2. /\ answer' = "OK" /\ out' = Append(out, Len(out) + 1) /\ Len(out) + 1 \in whole
    BY <1>7, BodyIsNext
  <2>3. whole' = whole
    BY <2>1
  <2> QED BY <2>1, <2>2, <2>3 DEF Promise!Next, Promise!Give
<1>8. ASSUME Dealt PROVE Promise!Next
  BY <1>8 DEF Dealt, Promise!Next
<1> QED BY <1>2, <1>3, <1>4, <1>5, <1>6, <1>7, <1>8 DEF Next, InGetPackage

\* Framing implements PackageQueue: whatever the boxes, the packages come out
\* whole, once and in order, and one that is complete is never refused.
THEOREM Refinement == Spec => ImplementsPackageQueue
<1>1. Init => Promise!Init
  BY DEF Init, Promise!Init
<1>2. FInv /\ [Next]_framing => [Promise!Next]_(Promise!vars)
  BY PromiseStep
<1> QED BY <1>1, <1>2, Invariance, PTL DEF Spec, Promise!Spec, ImplementsPackageQueue

-----------------------------------------------------------------------------
(* The transfer                                                            *)

Jobs == {j \in [file : Files, read : Nat] : j.read <= Chunks[j.file]}

Made == {p \in Packages : /\ p.chunk \in 1..Chunks[p.file] + 1
                          /\ p.st_s = "BEGIN" <=> p.chunk = 1
                          /\ p.end <=> p.chunk = Chunks[p.file] + 1}

\* Package k of s begins a file, or goes on where the one before it stopped.
Follows(s, k) ==
  IF k = 1 \/ s[k - 1].end
  THEN s[k].chunk = 1
  ELSE s[k].file = s[k - 1].file /\ s[k].chunk = s[k - 1].chunk + 1

\* What the one job has still to send is what the stream lacks.
JobFollows ==
  IF pkgs = <<>> \/ pkgs[Len(pkgs)].end
  THEN sendJob # <<>> => sendJob[1].read = 0
  ELSE /\ sendJob # <<>>
       /\ sendJob[1].file = pkgs[Len(pkgs)].file /\ sendJob[1].read = pkgs[Len(pkgs)].chunk

Sending ==
  /\ sendJob \in Seq(Jobs) /\ pkgs \in Seq(Made)
  /\ Len(sendJob) <= begun /\ begun <= most
  /\ ~overlapped => /\ Len(sendJob) <= 1 /\ (socket = "open" => JobFollows)
                    /\ \A k \in 1..Len(pkgs) : Follows(pkgs, k)

\* Where the receiver stands among the answers of GetPackage.
Taking ==
  /\ ~loop => call = "none" /\ answer = "none"
  /\ IF answer = "OK" THEN last + 1 = Len(out) ELSE last = Len(out)
  /\ ~loop /\ Len(out) + 1 \in Whole => last # 0 /\ pkgs[last].end
  /\ answer = "NOTCOM" => Len(out) + 1 \notin Whole

\* The chunks up to that of p, without an empty rest.
Saved(p) == [i \in 1..(IF p.end /\ ~Rest[p.file] THEN Chunks[p.file] ELSE p.chunk) |->
               [file |-> p.file, chunk |-> i]]

Writing ==
  ~overlapped =>
    /\ ~bad
    /\ opened = IF last = 0 \/ pkgs[last].end THEN None ELSE pkgs[last].file
    /\ last # 0 => disk[pkgs[last].file] = Saved(pkgs[last])

GInv == TransferTypeOK /\ Sending /\ Taking /\ Writing

-----------------------------------------------------------------------------
(* Framing inside the transfer *)

\* Every step of the transfer is a step of framing, or none.
LEMMA FramingStep ==
  ASSUME [TransferNext]_vars
  PROVE  [Next]_framing
<1>1. CASE UNCHANGED vars
  BY <1>1 DEF vars
<1>2. CASE TransferNext
  <2>1. ASSUME \E f \in Files : SlotOnNewSend(f) PROVE UNCHANGED framing
    BY <2>1 DEF SlotOnNewSend
  <2>2. ASSUME WorkBegins \/ WorkEnds \/ SocketCloses \/ SlotDisconnected
        PROVE  UNCHANGED framing
    BY <2>2 DEF WorkBegins, WorkEnds, SocketCloses, SlotDisconnected
  <2>3. ASSUME WorkOn PROVE Next \/ UNCHANGED framing
    <3>1. (\E n \in Sizes : Serialize(n)) \/ UNCHANGED framing
      BY <2>3 DEF WorkOn
    <3> QED BY <3>1 DEF Next
  <2>4. ASSUME RecaveFile PROVE Next
    <3>1. PICK n \in 1..MaxBox : Push(n)
      BY <2>4 DEF RecaveFile
    <3>2. n \in Nat \ {0}
      BY SendsAssumption
    <3> QED BY <3>1, <3>2 DEF Next
  <2>5. ASSUME RecaveStep \/ RecaveStops \/ RecaveSaves PROVE Next
    BY <2>5 DEF RecaveStep, RecaveStops, RecaveSaves, Next
  <2> QED BY <1>2, <2>1, <2>2, <2>3, <2>4, <2>5 DEF TransferNext
<1> QED BY <1>1, <1>2

\* The transfer uses framing by its operations alone.
THEOREM UsesFraming == TransferSpec => Spec
<1>1. TransferInit => Init
  BY DEF TransferInit
<1>2. [TransferNext]_vars => [Next]_framing
  BY FramingStep
<1> QED BY <1>1, <1>2, PTL DEF TransferSpec, Spec

\* So the packages reach SaveFile whole, once and in the order in which the
\* jobs sent them, with any number of jobs and whenever the connection breaks.
THEOREM TransferRefinement == TransferSpec => ImplementsPackageQueue
BY UsesFraming, Refinement, PTL

-----------------------------------------------------------------------------
(* Single steps *)

LEMMA InitGInv == TransferInit => GInv
<1> SUFFICES ASSUME TransferInit PROVE GInv
  OBVIOUS
<1>1. TypeOK /\ Len(out) = 0 /\ Len(cut) = 0 /\ call = "none" /\ answer = "none" /\ Whole = {}
  BY InitFInv DEF TransferInit, FInv, Init, Whole
<1>2. TransferTypeOK
  <2>1. disk \in [Files -> Seq(Data)] /\ sends \in [Files -> Nat]
    BY DEF TransferInit
  <2>2. /\ loop = FALSE /\ bad = FALSE /\ ub = FALSE /\ node = TRUE
        /\ socket = "open" /\ opened = None
    BY Zenon DEF TransferInit
  <2>3. /\ sendJob = <<>> /\ pkgs = <<>> /\ work = 0 /\ last = 0 /\ send_signal = 0 /\ begun = 0 /\ most = 0
    BY DEF TransferInit
  <2>4. /\ sendJob \in Seq([file : Files, read : Nat]) /\ work \in 0..Len(sendJob) + 1
        /\ pkgs \in Seq(Packages) /\ Len(pkgs) = Len(cut)
        /\ send_signal \in Nat /\ last \in Nat /\ begun \in Nat /\ most \in Nat
    BY <1>1, <2>3
  <2>5. /\ loop \in BOOLEAN /\ bad \in BOOLEAN /\ ub \in BOOLEAN
        /\ node \in BOOLEAN /\ socket \in {"open", "closed", "freed"}
        /\ opened \in Files \cup {None}
    BY <2>2
  <2> QED BY <1>1, <2>1, <2>4, <2>5, Zenon DEF TransferTypeOK
<1>3. Sending /\ Taking /\ Writing
  BY <1>1 DEF TransferInit, Sending, Taking, Writing, JobFollows
<1> QED BY <1>2, <1>3 DEF GInv

\* Dropping the job at place i.
LEMMA WithoutOne ==
  ASSUME NEW S, NEW s \in Seq(S), NEW i \in 1..Len(s)
  PROVE  Without(s, i) \in Seq(S) /\ Len(Without(s, i)) = Len(s) - 1
<1>1. Len(s) \in Nat /\ \A k \in 1..Len(s) : s[k] \in S
  BY ElementOfSeq
<1>2. SubSeq(s, 1, i - 1) \in Seq(S) /\ Len(SubSeq(s, 1, i - 1)) = i - 1
  <2>1. \A k \in 1..i - 1 : s[k] \in S
    BY <1>1
  <2>2. i - 1 \in Int /\ 1 \in Int /\ (1 <= i - 1 \/ i = 1)
    BY <1>1
  <2> QED BY <1>1, <2>1, <2>2, SubSeqProperties
<1>3. SubSeq(s, i + 1, Len(s)) \in Seq(S) /\ Len(SubSeq(s, i + 1, Len(s))) = Len(s) - i
  <2>1. \A k \in i + 1..Len(s) : s[k] \in S
    BY <1>1
  <2>2. i + 1 \in Int /\ Len(s) \in Int /\ (i + 1 <= Len(s) \/ i = Len(s))
    BY <1>1
  <2> QED BY <1>1, <2>1, <2>2, SubSeqProperties
<1> DEFINE a == SubSeq(s, 1, i - 1)
           b == SubSeq(s, i + 1, Len(s))
<1>4. Without(s, i) = a \o b
  BY DEF Without
<1>5. a \in Seq(S) /\ b \in Seq(S) /\ Len(a) = i - 1 /\ Len(b) = Len(s) - i
  BY <1>2, <1>3
<1> HIDE DEF a, b
<1> QED BY <1>1, <1>4, <1>5, ConcatProperties

\* Where the receiver stands is within the stream.
LEMMA LastBound ==
  ASSUME FInv, GInv
  PROVE  /\ last \in 0..Len(pkgs) /\ Len(out) \in Nat /\ Len(pkgs) \in Nat
         /\ answer = "OK" => last + 1 \in 1..Len(pkgs) /\ out[Len(out)] = last + 1
<1>1. /\ last \in Nat /\ Len(out) \in Nat /\ Len(pkgs) \in Nat /\ Len(pkgs) = Len(cut)
      /\ Len(out) <= Len(cut) /\ \A i \in 1..Len(out) : out[i] = i
  BY DEF GInv, TransferTypeOK, FInv, TypeOK, Given
<1>2. IF answer = "OK" THEN last + 1 = Len(out) ELSE last = Len(out)
  BY DEF GInv, Taking
<1> QED BY <1>1, <1>2

\* A new job comes last.
LEMMA NewSendStep ==
  ASSUME FInv, GInv, NEW f \in Files, SlotOnNewSend(f)
  PROVE  GInv'
<1> DEFINE job == [file |-> f, read |-> 0]
<1>1. /\ sendJob' = Append(sendJob, job)
      /\ begun' = (IF sendJob = <<>> THEN 1 ELSE begun + 1)
      /\ most' = (IF begun' > most THEN begun' ELSE most) /\ work = 0 /\ work' = work
      /\ send_signal' = send_signal + 1 /\ sends' = [sends EXCEPT ![f] = @ + 1]
      /\ UNCHANGED <<socket, node, pkgs, loop, opened, bad, disk, last, ub>>
      /\ UNCHANGED <<cut, fed, call, out, answer>> /\ UNCHANGED framing
  BY DEF SlotOnNewSend, link, receiver, framing
<1>2. job \in Jobs /\ job \in [file : Files, read : Nat] /\ job.read = 0
  BY FilesAssumption DEF Jobs
<1> HIDE DEF job
<1>3. /\ sendJob \in Seq(Jobs) /\ sendJob \in Seq([file : Files, read : Nat])
      /\ sendJob' \in Seq(Jobs) /\ sendJob' \in Seq([file : Files, read : Nat])
      /\ Len(sendJob') = Len(sendJob) + 1 /\ sendJob'[Len(sendJob) + 1] = job
      /\ Len(sendJob) \in Nat
  BY <1>1, <1>2, AppendProperties DEF GInv, Sending, TransferTypeOK
<1>4. /\ begun' \in Nat /\ most' \in Nat /\ Len(sendJob') <= begun' /\ begun' <= most'
      /\ ~overlapped' => ~overlapped /\ sendJob = <<>>
  <2>1. begun \in Nat /\ most \in Nat /\ Len(sendJob) <= begun /\ begun <= most
    BY DEF GInv, TransferTypeOK, Sending
  <2>2. sendJob = <<>> <=> Len(sendJob) = 0
    BY <1>3, EmptySeq
  <2> QED BY <1>1, <1>3, <2>1, <2>2 DEF overlapped
<1>5. TransferTypeOK'
  <2>1. TypeOK'
    BY <1>1 DEF framing, queue, read, GInv, TransferTypeOK, TypeOK
  <2>2. sends' \in [Files -> Nat] /\ send_signal' \in Nat /\ work' \in 0..Len(sendJob') + 1
    BY <1>1, <1>3 DEF GInv, TransferTypeOK
  <2>3. begun' \in Nat /\ most' \in Nat
    BY <1>4
  <2> QED BY <1>1, <1>3, <2>1, <2>2, <2>3 DEF GInv, TransferTypeOK
<1>6. Sending'
  <2>1. ASSUME ~overlapped'
        PROVE  /\ ~overlapped /\ Len(sendJob') = 1 /\ sendJob' # <<>> /\ sendJob'[1] = job
    <3>1. ~overlapped /\ sendJob = <<>>
      BY <1>4, <2>1
    <3>2. Len(sendJob) = 0
      BY <3>1
    <3> QED BY <1>3, <3>1, <3>2
  <2>2. ASSUME ~overlapped', socket = "open" PROVE JobFollows'
    <3>1. pkgs = <<>> \/ pkgs[Len(pkgs)].end
      <4>1. JobFollows /\ sendJob = <<>>
        BY <1>4, <2>2 DEF GInv, Sending
      <4> QED BY <4>1 DEF JobFollows
    <3> QED BY <1>1, <1>2, <2>1, <2>2, <3>1 DEF JobFollows
  <2> QED BY <1>1, <1>3, <1>4, <2>1, <2>2 DEF GInv, Sending, Follows
<1>7. Taking'
  BY <1>1 DEF GInv, Taking, Whole
<1>8. Writing'
  <2>1. ~overlapped' => ~overlapped
    BY <1>4
  <2> QED BY <1>1, <2>1 DEF GInv, Writing, Saved
<1> QED BY <1>5, <1>6, <1>7, <1>8 DEF GInv

\* Steps that leave the jobs, the stream and the files alone.
LEMMA QuietSteps ==
  ASSUME FInv, GInv, WorkBegins \/ WorkEnds \/ SocketCloses \/ SlotDisconnected
  PROVE  GInv'
<1>1. /\ UNCHANGED <<framing, sends, sendJob, begun, most, overlapped, pkgs, loop, opened, bad, disk, last, ub>>
      /\ UNCHANGED <<cut, fed, call, out, answer>>
      /\ socket' \in {socket, "closed", "freed"} /\ node' \in {node, FALSE}
      /\ work' \in {work, 0, 1} /\ send_signal' \in {send_signal, send_signal - 1, send_signal + 1}
  BY DEF WorkBegins, WorkEnds, SocketCloses, SlotDisconnected, sender, link, receiver, framing,
         overlapped
<1>2. TransferTypeOK'
  <2>1. TypeOK'
    BY <1>1 DEF framing, queue, read, GInv, TransferTypeOK, TypeOK
  <2>2. send_signal' \in Nat /\ work' \in 0..Len(sendJob) + 1
    <3>1. send_signal \in Nat /\ work \in 0..Len(sendJob) + 1 /\ Len(sendJob) \in Nat
      BY DEF GInv, TransferTypeOK
    <3>2. send_signal' = send_signal - 1 => send_signal > 0
      <4>1. WorkBegins => send_signal > 0
        BY DEF WorkBegins
      <4>2. ~WorkBegins => send_signal' \in {send_signal, send_signal + 1}
        BY DEF WorkEnds, SocketCloses, SlotDisconnected, sender
      <4>3. \A n \in Nat : n - 1 \notin {n, n + 1}
        OBVIOUS
      <4> QED BY <3>1, <4>1, <4>2, <4>3, Zenon
    <3> QED BY <1>1, <3>1, <3>2
  <2>3. socket' \in {"open", "closed", "freed"} /\ node' \in BOOLEAN
    BY <1>1 DEF GInv, TransferTypeOK
  <2> QED BY <1>1, <2>1, <2>2, <2>3 DEF GInv, TransferTypeOK
<1>3. Sending'
  <2>1. socket' = "open" => socket = "open"
    BY <1>1
  <2> QED BY <1>1, <2>1 DEF GInv, Sending, JobFollows, Follows
<1>4. Taking' /\ Writing'
  BY <1>1 DEF GInv, Taking, Whole, Writing, Saved
<1> QED BY <1>2, <1>3, <1>4 DEF GInv

\* The package that is made for a job, and the job afterwards.
LEMMA PackageMade ==
  ASSUME NEW j \in Jobs
  PROVE  /\ NextPackage(j.file, j.read) \in Made
         /\ NextPackage(j.file, j.read).file = j.file
         /\ NextPackage(j.file, j.read).chunk = j.read + 1
         /\ ~NextPackage(j.file, j.read).end => [j EXCEPT !.read = @ + 1] \in Jobs
<1>1. j.file \in Files /\ j.read \in Nat /\ j.read <= Chunks[j.file] /\ Chunks[j.file] \in Nat
  BY FilesAssumption DEF Jobs
<1>2. NextPackage(j.file, j.read).end <=> j.read = Chunks[j.file]
  BY DEF NextPackage
<1>3. NextPackage(j.file, j.read) \in Packages
  BY <1>1 DEF NextPackage, Packages
<1>4. ~(j.read = Chunks[j.file]) => [j EXCEPT !.read = @ + 1] \in Jobs
  BY <1>1 DEF Jobs
<1> QED BY <1>1, <1>2, <1>3, <1>4 DEF NextPackage, Made

\* Serialising adds an end to the stream.
LEMMA OneMore ==
  ASSUME FInv, NEW n \in Sizes, Serialize(n)
  PROVE  /\ Len(cut) \in Nat /\ Len(cut') = Len(cut) + 1
         /\ \A k \in 1..Len(cut) : cut'[k] = cut[k]
         /\ UNCHANGED <<fed, call, out, answer>>
<1>1. End(Len(cut)) \in Nat /\ cut \in Seq(Nat) /\ Len(cut) \in Nat
  BY Ends DEF FInv, TypeOK
<1>2. n \in Nat /\ Header \in Nat
  BY HeaderAssumption
<1>3. End(Len(cut)) + Header + n \in Nat
  BY <1>1, <1>2
<1>4. cut' = Append(cut, End(Len(cut)) + Header + n) /\ UNCHANGED <<fed, call, out, answer>>
  BY DEF Serialize
<1> QED BY <1>1, <1>3, <1>4, AppendProperties

\* A chunk of a file becomes the next package of the stream.
LEMMA WorkOnStep ==
  ASSUME FInv, GInv, WorkOn, TypeOK'
  PROVE  GInv'
<1> DEFINE j == sendJob[work]
           p == NextPackage(j.file, j.read)
<1>1. /\ work \in 1..Len(sendJob)
      /\ \/ /\ socket = "open" /\ \E n \in Sizes : Serialize(n)
            /\ pkgs' = Append(pkgs, p) /\ UNCHANGED ub
         \/ /\ socket # "open" /\ ub' = (socket = "freed") /\ UNCHANGED <<framing, pkgs>>
      /\ IF p.end THEN sendJob' = Without(sendJob, work) /\ UNCHANGED work
                  ELSE sendJob' = [sendJob EXCEPT ![work].read = @ + 1] /\ work' = work + 1
      /\ UNCHANGED <<sends, send_signal, begun, most, overlapped, socket, node, loop, opened, bad, disk, last>>
  BY DEF WorkOn, link, receiver, overlapped
<1>2. /\ sendJob \in Seq(Jobs) /\ Len(sendJob) \in Nat /\ pkgs \in Seq(Made)
      /\ pkgs \in Seq(Packages) /\ Len(pkgs) \in Nat /\ Len(pkgs) = Len(cut) /\ j \in Jobs
  BY <1>1, ElementOfSeq DEF GInv, Sending, TransferTypeOK
<1>3. p \in Made /\ p \in Packages /\ p.file = j.file /\ p.chunk = j.read + 1
  BY <1>2, PackageMade DEF Made
<1>4. /\ sendJob' \in Seq(Jobs) /\ work' \in 0..Len(sendJob') + 1
      /\ Len(sendJob') = IF p.end THEN Len(sendJob) - 1 ELSE Len(sendJob)
      /\ ~p.end => sendJob'[work] = [j EXCEPT !.read = @ + 1]
  <2>1. CASE p.end
    BY <1>1, <1>2, <2>1, WithoutOne
  <2>2. CASE ~p.end
    <3>1. sendJob' = [sendJob EXCEPT ![work] = [j EXCEPT !.read = @ + 1]] /\ work' = work + 1
      BY <1>1, <2>2
    <3>2. [j EXCEPT !.read = @ + 1] \in Jobs
      BY <1>2, <2>2, PackageMade
    <3> HIDE DEF j, p
    <3> QED BY <1>1, <1>2, <2>2, <3>1, <3>2, ExceptSeq
  <2> QED BY <2>1, <2>2
<1>5. sendJob' \in Seq([file : Files, read : Nat])
  <2>1. Jobs \subseteq [file : Files, read : Nat]
    BY DEF Jobs
  <2> QED BY <1>4, <2>1, SeqMonotonic
<1>6. \/ /\ socket = "open" /\ pkgs' = Append(pkgs, p) /\ Len(pkgs') = Len(pkgs) + 1
         /\ Len(cut') = Len(cut) + 1 /\ pkgs' \in Seq(Made) /\ pkgs' \in Seq(Packages)
         /\ pkgs'[Len(pkgs) + 1] = p /\ UNCHANGED <<fed, call, out, answer>>
      \/ socket # "open" /\ UNCHANGED <<pkgs, cut, fed, call, out, answer>>
  <2>1. CASE socket = "open"
    <3>1. PICK n \in Sizes : Serialize(n)
      BY <1>1, <2>1
    <3>2. Len(cut') = Len(cut) + 1 /\ UNCHANGED <<fed, call, out, answer>>
      BY <3>1, OneMore
    <3>3. pkgs' = Append(pkgs, p)
      BY <1>1, <2>1
    <3> HIDE DEF p
    <3> QED BY <1>2, <1>3, <2>1, <3>2, <3>3, AppendProperties
  <2>2. CASE socket # "open"
    BY <1>1, <2>2 DEF framing
  <2> QED BY <2>1, <2>2
<1>7. \A k \in 1..Len(pkgs) : pkgs'[k] = pkgs[k]
  <2>1. pkgs' = Append(pkgs, p) \/ pkgs' = pkgs
    BY <1>1
  <2> HIDE DEF p
  <2> QED BY <1>2, <1>3, <2>1, AppendProperties
<1> HIDE DEF j, p
<1>8. TransferTypeOK'
  <2>1. ub' \in BOOLEAN
    BY <1>1, Zenon DEF GInv, TransferTypeOK
  <2>2. pkgs' \in Seq(Packages) /\ Len(pkgs') = Len(cut')
    BY <1>2, <1>6
  <2>3. /\ sendJob' \in Seq([file : Files, read : Nat]) /\ work' \in 0..Len(sendJob') + 1
        /\ UNCHANGED <<sends, send_signal, begun, most, overlapped, socket, node, loop, opened, bad, disk, last>>
    BY <1>1, <1>4, <1>5
  <2>4. TypeOK'
    OBVIOUS
  <2> QED BY <2>1, <2>2, <2>3, <2>4 DEF GInv, TransferTypeOK
<1>9. Sending'
  <2> SUFFICES ASSUME ~overlapped'
               PROVE  /\ Len(sendJob') <= 1 /\ (socket' = "open" => JobFollows')
                      /\ \A k \in 1..Len(pkgs') : Follows(pkgs', k)
    <3>1. Len(sendJob') <= begun' /\ begun' <= most'
      BY <1>1, <1>2, <1>4 DEF GInv, Sending, TransferTypeOK
    <3> QED BY <1>2, <1>4, <1>6, <3>1 DEF Sending
  <2>1. /\ Len(sendJob) <= 1 /\ (socket = "open" => JobFollows)
        /\ \A k \in 1..Len(pkgs) : Follows(pkgs, k)
    BY <1>1 DEF GInv, Sending
  <2>2. Len(sendJob) = 1 /\ work = 1
    <3>1. work \in 1..Len(sendJob)
      BY <1>1
    <3>2. \A n \in Nat : \A w \in 1..n : n <= 1 => n = 1 /\ w = 1
      OBVIOUS
    <3> QED BY <1>2, <2>1, <3>1, <3>2, Zenon
  <2>3. Len(sendJob') <= 1
    BY <1>4, <2>2
  <2>4. ASSUME NEW k \in 1..Len(pkgs) PROVE Follows(pkgs', k)
    <3>1. k - 1 \in 1..Len(pkgs) \/ k = 1
      BY <1>2
    <3> QED BY <1>7, <2>1, <3>1 DEF Follows
  <2>5. CASE socket # "open"
    BY <1>1, <1>6, <2>3, <2>4, <2>5
  <2>6. CASE socket = "open"
    <3>1. /\ pkgs' # <<>> /\ Len(pkgs') = Len(pkgs) + 1 /\ pkgs'[Len(pkgs) + 1] = p
      BY <1>2, <1>6, <2>6
    <3>2. Follows(pkgs', Len(pkgs) + 1)
      <4>1. CASE pkgs = <<>> \/ pkgs[Len(pkgs)].end
        <5>1. sendJob[1].read = 0
          BY <2>1, <2>2, <2>6, <4>1 DEF JobFollows
        <5>2. p.chunk = 1
          BY <1>3, <2>2, <5>1 DEF j
        <5>3. Len(pkgs) + 1 = 1 \/ pkgs'[Len(pkgs) + 1 - 1].end
          BY <1>2, <1>7, <4>1
        <5> QED BY <3>1, <5>2, <5>3 DEF Follows
      <4>2. CASE ~(pkgs = <<>> \/ pkgs[Len(pkgs)].end)
        <5>1. sendJob[1].file = pkgs[Len(pkgs)].file /\ sendJob[1].read = pkgs[Len(pkgs)].chunk
          BY <2>1, <2>6, <4>2 DEF JobFollows
        <5>2. p.file = pkgs[Len(pkgs)].file /\ p.chunk = pkgs[Len(pkgs)].chunk + 1
          BY <1>3, <2>2, <5>1 DEF j
        <5>3. /\ Len(pkgs) + 1 # 1 /\ Len(pkgs) + 1 - 1 = Len(pkgs)
              /\ pkgs'[Len(pkgs)] = pkgs[Len(pkgs)]
          BY <1>2, <1>7, <4>2
        <5> QED BY <3>1, <4>2, <5>2, <5>3 DEF Follows
      <4> QED BY <4>1, <4>2
    <3>3. \A k \in 1..Len(pkgs') : Follows(pkgs', k)
      BY <1>2, <2>4, <3>1, <3>2
    <3>4. JobFollows'
      <4>1. CASE p.end
        <5>1. Len(sendJob') = 0
          BY <1>4, <2>2, <4>1
        <5>2. sendJob' = <<>>
          BY <1>4, <5>1
        <5>3. pkgs'[Len(pkgs')].end
          BY <3>1, <4>1
        <5> QED BY <5>2, <5>3 DEF JobFollows
      <4>2. CASE ~p.end
        <5>1. sendJob'[1] = [j EXCEPT !.read = @ + 1] /\ Len(sendJob') = 1
          BY <1>4, <2>2, <4>2
        <5>2. sendJob'[1].file = p.file /\ sendJob'[1].read = p.chunk
          BY <1>2, <1>3, <5>1 DEF Jobs
        <5>3. sendJob' # <<>>
          BY <5>1
        <5>4. pkgs'[Len(pkgs')] = p
          BY <3>1
        <5> QED BY <3>1, <4>2, <5>2, <5>3, <5>4 DEF JobFollows
      <4> QED BY <4>1, <4>2
    <3> QED BY <2>3, <3>3, <3>4
  <2> QED BY <2>5, <2>6
<1>10. last \in 0..Len(pkgs) /\ (last # 0 => pkgs'[last] = pkgs[last])
  BY <1>7, LastBound
<1>11. Taking'
  <2>1. Whole' = Whole
    <3>1. CASE socket = "open"
      <4>1. PICK n \in Sizes : Serialize(n)
        BY <1>1, <3>1
      <4>2. \A k \in 1..Len(cut)' : cut[k]' <= fed' => k \in 1..Len(cut) /\ cut[k] <= fed
        BY <4>1, SerializeStep, HeaderAssumption
      <4>3. /\ Len(cut') = Len(cut) + 1 /\ \A k \in 1..Len(cut) : cut'[k] = cut[k]
            /\ fed' = fed /\ Len(cut) \in Nat
        BY <4>1, OneMore
      <4> QED BY <4>2, <4>3 DEF Whole
    <3> QED BY <1>6, <3>1 DEF Whole
  <2> QED BY <1>1, <1>6, <1>10, <2>1 DEF GInv, Taking
<1>12. Writing'
  BY <1>1, <1>10 DEF GInv, Writing, Saved
<1> QED BY <1>8, <1>9, <1>11, <1>12 DEF GInv

\* A box comes in; what it completes is for the loop that begins.
LEMMA RecaveFileStep ==
  ASSUME FInv, GInv, RecaveFile, TypeOK'
  PROVE  GInv'
<1>1. /\ ~loop /\ loop' = TRUE
      /\ UNCHANGED <<sends, sendJob, send_signal, work, begun, most, overlapped, socket, node, pkgs, opened, bad,
                    disk, last, ub>>
      /\ UNCHANGED <<cut, call, out, answer>>
  BY DEF RecaveFile, Push, sender, link, overlapped
<1>2. TransferTypeOK'
  <2>1. TypeOK' /\ loop' \in BOOLEAN
    BY <1>1, Zenon
  <2> QED BY <1>1, <2>1 DEF GInv, TransferTypeOK
<1>3. Sending' /\ Writing'
  BY <1>1 DEF GInv, Sending, JobFollows, Follows, Writing, Saved
<1>4. Taking'
  <2>1. answer = "none"
    BY <1>1 DEF GInv, Taking
  <2> QED BY <1>1, <2>1 DEF GInv, Taking
<1> QED BY <1>2, <1>3, <1>4 DEF GInv

\* Inside GetPackage; what it answers is true.
LEMMA RecaveStepStep ==
  ASSUME FInv, GInv, RecaveStep, TypeOK'
  PROVE  GInv'
<1>1. /\ loop /\ InGetPackage
      /\ UNCHANGED <<sends, sendJob, send_signal, work, begun, most, overlapped, socket, node, pkgs, loop,
                    opened, bad, disk, last, ub>>
  BY DEF RecaveStep, sender, link, receiver, overlapped
<1>2. UNCHANGED <<cut, fed>>
  BY <1>1 DEF InGetPackage, GetPackage, Turn, HeaderRead, Test, BodyRead
<1>3. TransferTypeOK'
  <2>1. TypeOK'
    OBVIOUS
  <2> QED BY <1>1, <1>2, <2>1 DEF GInv, TransferTypeOK
<1>4. Sending' /\ Writing'
  BY <1>1 DEF GInv, Sending, JobFollows, Follows, Writing, Saved
<1>5. Taking'
  <2>1. CASE BodyRead
    <3>1. answer = "none" /\ answer' = "OK" /\ out' = Append(out, Len(out) + 1)
      BY <2>1, BodyIsNext DEF FInv, Answers, BodyRead
    <3>2. last = Len(out) /\ Len(out') = Len(out) + 1
      <4>1. out \in Seq(Nat) /\ Len(out) + 1 \in Nat
        BY DEF FInv, TypeOK
      <4> QED BY <3>1, <4>1, AppendProperties DEF GInv, Taking
    <3> QED BY <1>1, <3>1, <3>2 DEF Taking
  <2>2. CASE GetPackage \/ Test
    <3>1. answer = "none" /\ answer' \in {"none", "NOTCOM"} /\ out' = out
      BY <2>2 DEF GetPackage, Test, FInv, Answers
    <3>2. answer' = "NOTCOM" => Len(out) + 1 \notin Whole
      BY <2>2, GetPackageStep, TestStep DEF Whole
    <3> QED BY <1>1, <1>2, <3>1, <3>2 DEF GInv, Taking, Whole
  <2>3. CASE Turn \/ HeaderRead
    <3>1. UNCHANGED <<out, answer>>
      BY <2>3 DEF Turn, HeaderRead
    <3> QED BY <1>1, <1>2, <3>1 DEF GInv, Taking, Whole
  <2> QED BY <1>1, <2>1, <2>2, <2>3 DEF InGetPackage
<1> QED BY <1>3, <1>4, <1>5 DEF GInv

\* recaveFile ends because the next package is not complete.
LEMMA RecaveStopsStep ==
  ASSUME FInv, GInv, RecaveStops, TypeOK'
  PROVE  GInv'
<1>1. /\ answer = "NOTCOM" /\ answer' = "none" /\ loop' = FALSE
      /\ UNCHANGED <<sends, sendJob, send_signal, work, begun, most, overlapped, socket, node, pkgs, opened, bad,
                    disk, last, ub>>
      /\ UNCHANGED <<cut, fed, call, out>>
  BY DEF RecaveStops, Dealt, sender, link, FInv, Answers, overlapped
<1>2. TransferTypeOK'
  <2>1. TypeOK' /\ loop' \in BOOLEAN
    BY <1>1, Zenon
  <2> QED BY <1>1, <2>1 DEF GInv, TransferTypeOK
<1>3. Sending' /\ Writing'
  BY <1>1 DEF GInv, Sending, JobFollows, Follows, Writing, Saved
<1>4. Taking'
  BY <1>1 DEF GInv, Taking, Whole, FInv, Answers
<1> QED BY <1>2, <1>3, <1>4 DEF GInv

-----------------------------------------------------------------------------
(* What SaveFile writes *)

\* The chunks of a file one after the other.
LEMMA ChunksInLine ==
  ASSUME NEW f \in Files, NEW n \in Nat, NEW s,
         s = [i \in 1..n |-> [file |-> f, chunk |-> i]]
  PROVE  s \in Seq(Data) /\ Len(s) = n
<1>1. s \in [1..n -> Data]
  BY DEF Data
<1>2. s \in Seq(Data)
  BY <1>1, SeqDef
<1>3. Len(s) \in Nat /\ 1..Len(s) = 1..n
  BY <1>1, <1>2, LenProperties
<1> QED BY <1>2, <1>3

\* With the data of p the chunks before it become those up to it.
LEMMA SavedGrows ==
  ASSUME NEW p \in Made, NEW old \in Seq(Data), Len(old) = p.chunk - 1,
         \A i \in 1..p.chunk - 1 : old[i] = [file |-> p.file, chunk |-> i]
  PROVE  old \o DataOf(p) = Saved(p) /\ Saved(p) \in Seq(Data)
<1>1. /\ p.file \in Files /\ p.chunk \in 1..Chunks[p.file] + 1 /\ p.chunk \in Nat
      /\ Chunks[p.file] \in Nat /\ (p.end <=> p.chunk = Chunks[p.file] + 1)
      /\ p.end \in BOOLEAN /\ Rest[p.file] \in BOOLEAN
  BY FilesAssumption, RestAssumption DEF Made, Packages
<1>2. CASE p.end /\ ~Rest[p.file]
  <2>1. DataOf(p) = <<>> /\ p.chunk - 1 = Chunks[p.file]
    BY <1>1, <1>2 DEF DataOf
  <2>2. Saved(p) = [i \in 1..Chunks[p.file] |-> [file |-> p.file, chunk |-> i]]
    BY <1>2 DEF Saved
  <2>3. Saved(p) \in Seq(Data) /\ Len(Saved(p)) = Chunks[p.file]
    <3> DEFINE n == Chunks[p.file]
    <3>1. p.file \in Files /\ n \in Nat
      BY <1>1
    <3>2. Saved(p) = [i \in 1..n |-> [file |-> p.file, chunk |-> i]]
      BY <2>2
    <3> HIDE DEF n
    <3>3. Saved(p) \in Seq(Data) /\ Len(Saved(p)) = n
      BY <3>1, <3>2, ChunksInLine
    <3> QED BY <3>3 DEF n
  <2>4. old = Saved(p)
    <3>1. \A i \in 1..Len(old) : old[i] = Saved(p)[i]
      BY <2>1, <2>2
    <3> QED BY <2>1, <2>3, <3>1, SeqEqual
  <2> QED BY <2>1, <2>3, <2>4, ConcatEmptySeq
<1>3. CASE ~(p.end /\ ~Rest[p.file])
  <2> DEFINE d == [file |-> p.file, chunk |-> p.chunk]
  <2>1. p.chunk <= Chunks[p.file] \/ Rest[p.file]
    BY <1>1, <1>3
  <2>2. DataOf(p) = <<d>> /\ d \in Data
    BY <1>1, <2>1 DEF DataOf, Data
  <2>3. Saved(p) = [i \in 1..p.chunk |-> [file |-> p.file, chunk |-> i]]
    BY <1>3 DEF Saved
  <2>4. Saved(p) \in Seq(Data) /\ Len(Saved(p)) = p.chunk
    BY <1>1, <2>3, ChunksInLine
  <2>5. Saved(p)[p.chunk] = d /\ \A i \in 1..p.chunk - 1 : Saved(p)[i] = old[i]
    BY <1>1, <2>3
  <2> HIDE DEF d
  <2>6. /\ old \o <<d>> \in Seq(Data) /\ Len(old \o <<d>>) = p.chunk
        /\ (old \o <<d>>)[p.chunk] = d
        /\ \A i \in 1..p.chunk - 1 : (old \o <<d>>)[i] = old[i]
    <3>1. <<d>> \in Seq(Data) /\ Len(<<d>>) = 1 /\ <<d>>[1] = d
      BY <2>2
    <3>2. /\ old \o <<d>> \in Seq(Data) /\ Len(old \o <<d>>) = Len(old) + 1
          /\ \A i \in 1..Len(old) + 1 :
               (old \o <<d>>)[i] = IF i <= Len(old) THEN old[i] ELSE <<d>>[i - Len(old)]
      BY <3>1, ConcatProperties
    <3>3. /\ p.chunk \in 1..Len(old) + 1 /\ ~(p.chunk <= Len(old)) /\ p.chunk - Len(old) = 1
          /\ Len(old) + 1 = p.chunk
      BY <1>1
    <3>4. ASSUME NEW i \in 1..p.chunk - 1 PROVE i \in 1..Len(old) + 1 /\ i <= Len(old)
      BY <1>1
    <3> QED BY <3>1, <3>2, <3>3, <3>4
  <2>7. \A i \in 1..p.chunk : (old \o <<d>>)[i] = Saved(p)[i]
    BY <1>1, <2>5, <2>6
  <2>8. old \o <<d>> = Saved(p)
    BY <2>4, <2>6, <2>7, SeqEqual
  <2> QED BY <2>2, <2>4, <2>8
<1> QED BY <1>2, <1>3

\* The data of a package is a sequence of at most one chunk.
LEMMA DataType ==
  ASSUME NEW p \in Packages
  PROVE  DataOf(p) \in Seq(Data)
<1>1. [file |-> p.file, chunk |-> p.chunk] \in Data
  BY DEF Packages, Data
<1> QED BY <1>1 DEF DataOf

\* Follows, for the package behind k.
LEMMA FollowsNext ==
  ASSUME NEW s, NEW k \in Nat, Follows(s, k + 1)
  PROVE  IF k = 0 \/ s[k].end
         THEN s[k + 1].chunk = 1
         ELSE s[k + 1].file = s[k].file /\ s[k + 1].chunk = s[k].chunk + 1
<1>1. k + 1 - 1 = k /\ (k + 1 = 1 <=> k = 0)
  OBVIOUS
<1> QED BY <1>1 DEF Follows

\* Without overlaps the next package finds its file as it needs it.
LEMMA SavesAlone ==
  ASSUME FInv, GInv, ~overlapped, answer = "OK"
  PROVE  LET p == pkgs[last + 1] IN
         /\ ~Fails(p)
         /\ Opens(p) <=> p.st_s = "BEGIN"
         /\ Opens(p) => p.chunk = 1
         /\ ~Opens(p) => /\ opened = p.file /\ disk[p.file] \in Seq(Data)
                         /\ Len(disk[p.file]) = p.chunk - 1
                         /\ \A i \in 1..p.chunk - 1 :
                              disk[p.file][i] = [file |-> p.file, chunk |-> i]
<1> DEFINE p == pkgs[last + 1]
           q == pkgs[last]
<1>1. /\ last \in Nat /\ last + 1 \in 1..Len(pkgs) /\ Len(pkgs) \in Nat
      /\ last # 0 => last \in 1..Len(pkgs)
  BY LastBound
<1>2. /\ ~bad /\ opened = IF last = 0 \/ q.end THEN None ELSE q.file
      /\ last # 0 => disk[q.file] = Saved(q)
  BY DEF GInv, Writing
<1>3. pkgs \in Seq(Made) /\ Follows(pkgs, last + 1)
  BY <1>1 DEF GInv, Sending
<1>4. p \in Made /\ (last # 0 => q \in Made)
  BY <1>1, <1>3, ElementOfSeq
<1>5. /\ p.file \in Files /\ p.chunk \in Nat /\ (p.st_s = "BEGIN" <=> p.chunk = 1)
      /\ last # 0 => q.file \in Files /\ q.chunk \in Nat \ {0} /\ q.end \in BOOLEAN
  BY <1>4 DEF Made, Packages
<1>6. last + 1 - 1 = last /\ (last + 1 = 1 <=> last = 0)
  BY <1>1
<1>7. IF last = 0 \/ q.end THEN p.chunk = 1 ELSE p.file = q.file /\ p.chunk = q.chunk + 1
  <2>1. IF last = 0 \/ pkgs[last].end
        THEN pkgs[last + 1].chunk = 1
        ELSE pkgs[last + 1].file = pkgs[last].file
             /\ pkgs[last + 1].chunk = pkgs[last].chunk + 1
    BY <1>1, <1>3, FollowsNext
  <2> QED BY <2>1
<1> HIDE DEF p, q
<1>8. CASE last = 0 \/ q.end
  <2>1. opened = None /\ p.st_s = "BEGIN" /\ p.chunk = 1
    BY <1>2, <1>5, <1>7, <1>8
  <2>2. Opens(p) /\ ~Fails(p)
    BY <2>1, Zenon DEF Opens, Fails
  <2> QED BY <2>1, <2>2, Zenon DEF p
<1>9. CASE ~(last = 0 \/ q.end)
  <2>1. opened = p.file /\ p.chunk = q.chunk + 1 /\ p.file = q.file /\ ~q.end
    BY <1>2, <1>7, <1>9
  <2>2. p.st_s # "BEGIN" /\ opened # None /\ p.chunk - 1 = q.chunk
    BY <1>5, <1>9, <2>1, FilesAssumption
  <2>3. ~Opens(p) /\ ~Fails(p)
    BY <1>2, <2>2, Zenon DEF Opens, Fails
  <2>4. disk[p.file] = [i \in 1..q.chunk |-> [file |-> q.file, chunk |-> i]]
    BY <1>2, <1>9, <2>1 DEF Saved
  <2>5. /\ disk[p.file] \in Seq(Data) /\ Len(disk[p.file]) = p.chunk - 1
        /\ \A i \in 1..p.chunk - 1 : disk[p.file][i] = [file |-> p.file, chunk |-> i]
    <3>1. q.file \in Files /\ q.chunk \in Nat
      BY <1>5, <1>9
    <3>2. disk[p.file] \in Seq(Data) /\ Len(disk[p.file]) = q.chunk
      BY <2>4, <3>1, ChunksInLine
    <3>3. \A i \in 1..q.chunk : disk[p.file][i] = [file |-> q.file, chunk |-> i]
      BY <2>4, <3>1
    <3> QED BY <2>1, <2>2, <3>2, <3>3
  <2> QED BY <2>1, <2>2, <2>3, <2>5, Zenon DEF p
<1> QED BY <1>8, <1>9

\* One package is saved.
LEMMA RecaveSavesStep ==
  ASSUME FInv, GInv, RecaveSaves, TypeOK'
  PROVE  GInv'
<1> DEFINE p == pkgs[last + 1]
           file == IF Opens(p) THEN p.file ELSE opened
           old == IF Opens(p) THEN <<>> ELSE disk[file]
<1>1. last + 1 \in 1..Len(pkgs) /\ out[Len(out)] = last + 1 /\ last \in Nat /\ answer = "OK"
  BY LastBound DEF RecaveSaves
<1>2. /\ disk' = IF Fails(p) THEN disk ELSE [disk EXCEPT ![file] = old \o DataOf(p)]
      /\ bad' = Fails(p) /\ opened' = IF p.end THEN None ELSE file
      /\ last' = last + 1 /\ loop' = ~p.end /\ answer' = "none"
      /\ UNCHANGED <<sends, sendJob, send_signal, work, begun, most, overlapped, socket, node, pkgs, ub>>
      /\ UNCHANGED <<cut, fed, call, out>>
  BY <1>1 DEF RecaveSaves, SaveFile, StopsAfter, Dealt, sender, link, overlapped
<1>3. p \in Made /\ p \in Packages /\ p.file \in Files /\ p.end \in BOOLEAN
  <2>1. pkgs \in Seq(Made)
    BY DEF GInv, Sending
  <2>2. p \in Made
    BY <1>1, <2>1, ElementOfSeq
  <2> QED BY <2>2 DEF Made, Packages
<1> HIDE DEF p
<1>4. /\ file \in Files \cup {None} /\ (~Fails(p) => file \in Files)
      /\ DataOf(p) \in Seq(Data) /\ (file \in Files => old \in Seq(Data))
  <2>1. opened \in Files \cup {None} /\ disk \in [Files -> Seq(Data)]
    BY DEF GInv, TransferTypeOK
  <2>2. ~Fails(p) /\ ~Opens(p) => opened # None
    BY Zenon DEF Fails
  <2>3. DataOf(p) \in Seq(Data)
    BY <1>3, DataType
  <2>4. file \in Files \cup {None} /\ (~Fails(p) => file \in Files)
    BY <1>3, <2>1, <2>2
  <2>5. file \in Files => old \in Seq(Data)
    BY <2>1
  <2> QED BY <2>3, <2>4, <2>5
<1> HIDE DEF file, old
<1>5. TransferTypeOK'
  <2>1. disk' \in [Files -> Seq(Data)]
    <3>1. disk \in [Files -> Seq(Data)]
      BY DEF GInv, TransferTypeOK
    <3>2. ~Fails(p) => old \o DataOf(p) \in Seq(Data)
      BY <1>4, ConcatProperties
    <3> QED BY <1>2, <1>4, <3>1, <3>2
  <2>2. bad' \in BOOLEAN /\ loop' \in BOOLEAN
    BY <1>2, Zenon DEF Fails
  <2>3. opened' \in Files \cup {None} /\ last' \in Nat
    BY <1>1, <1>2, <1>4
  <2>4. TypeOK'
    OBVIOUS
  <2>5. UNCHANGED <<sends, sendJob, send_signal, work, begun, most, overlapped, socket, node, pkgs, ub, cut>>
    BY <1>2
  <2> QED BY <2>1, <2>2, <2>3, <2>4, <2>5 DEF GInv, TransferTypeOK
<1>6. Sending'
  BY <1>2 DEF GInv, Sending, JobFollows, Follows
<1>7. Taking'
  <2>1. last + 1 = Len(out) /\ (~loop => answer = "none")
    BY <1>1 DEF GInv, Taking
  <2>2. ~loop' => p.end
    BY <1>2, Zenon
  <2>3. last' # 0 /\ pkgs'[last'] = p /\ Whole' = Whole
    BY <1>1, <1>2 DEF Whole, p
  <2>4. call' = "none"
    BY <1>1, <1>2 DEF FInv, Answers, RecaveSaves, Dealt
  <2> QED BY <1>1, <1>2, <2>1, <2>2, <2>3, <2>4 DEF Taking
<1>8. Writing'
  <2> SUFFICES ASSUME ~overlapped'
               PROVE  /\ ~bad'
                      /\ opened' = IF last' = 0 \/ pkgs'[last'].end THEN None ELSE pkgs'[last'].file
                      /\ disk'[pkgs'[last'].file] = Saved(pkgs'[last'])
    BY DEF Writing, Saved
  <2>1. pkgs'[last'] = p /\ last' # 0
    BY <1>1, <1>2 DEF p
  <2>2. /\ ~Fails(p) /\ (Opens(p) => p.chunk = 1)
        /\ ~Opens(p) => /\ opened = p.file /\ disk[p.file] \in Seq(Data)
                        /\ Len(disk[p.file]) = p.chunk - 1
                        /\ \A i \in 1..p.chunk - 1 :
                             disk[p.file][i] = [file |-> p.file, chunk |-> i]
    BY <1>1, <1>2, SavesAlone DEF p
  <2>3. file = p.file
    BY <2>2 DEF file
  <2>4. /\ old \in Seq(Data) /\ Len(old) = p.chunk - 1
        /\ \A i \in 1..p.chunk - 1 : old[i] = [file |-> p.file, chunk |-> i]
    <3>1. CASE Opens(p)
      BY <2>2, <3>1 DEF old
    <3>2. CASE ~Opens(p)
      BY <2>2, <2>3, <3>2 DEF old
    <3> QED BY <3>1, <3>2
  <2>5. old \o DataOf(p) = Saved(p)
    BY <1>3, <2>4, SavedGrows
  <2>6. disk'[p.file] = Saved(p)
    <3>1. disk \in [Files -> Seq(Data)]
      BY DEF GInv, TransferTypeOK
    <3> QED BY <1>2, <1>3, <2>2, <2>3, <2>5, <3>1
  <2>7. ~bad' /\ opened' = IF p.end THEN None ELSE p.file
    BY <1>2, <2>2, <2>3, Zenon
  <2> QED BY <2>1, <2>6, <2>7
<1> QED BY <1>5, <1>6, <1>7, <1>8 DEF GInv

LEMMA GInvStep ==
  ASSUME FInv, GInv, [TransferNext]_vars, FInv'
  PROVE  GInv'
<1>1. TypeOK'
  BY DEF FInv
<1>2. CASE UNCHANGED vars
  <2>1. /\ UNCHANGED <<sends, sendJob, send_signal, work, begun, most, overlapped, socket, node, pkgs, loop,
                      opened, bad, disk, last, ub>>
        /\ UNCHANGED <<cut, fed, call, out, answer>>
    BY <1>2 DEF vars, framing, sender, link, receiver, overlapped
  <2>2. TransferTypeOK'
    BY <1>1, <2>1 DEF GInv, TransferTypeOK
  <2>3. Sending' /\ Taking' /\ Writing'
    BY <2>1 DEF GInv, Sending, JobFollows, Follows, Taking, Whole, Writing, Saved
  <2> QED BY <2>2, <2>3 DEF GInv
<1>3. CASE TransferNext
  BY <1>1, <1>3, NewSendStep, QuietSteps, WorkOnStep, RecaveFileStep, RecaveStepStep,
     RecaveStopsStep, RecaveSavesStep DEF TransferNext
<1> QED BY <1>2, <1>3

-----------------------------------------------------------------------------
(* The theorems *)

\* GInv holds, for any files, any number of jobs and any boxes.
THEOREM TransferInvariance == TransferSpec => [](FInv /\ GInv)
<1>1. FInv /\ FInv' /\ GInv /\ [TransferNext]_vars => GInv'
  BY GInvStep
<1>2. TransferSpec => []FInv
  BY UsesFraming, Invariance, PTL
<1> QED BY InitGInv, <1>1, <1>2, PTL DEF TransferSpec

\* Every variable of the transfer keeps its type; the pass over the jobs in
\* particular never looks behind their end, although it erases them as it goes.
THEOREM TransferTypeCorrect == TransferSpec => []TransferTypeOK
<1>1. GInv => TransferTypeOK
  BY DEF GInv
<1> QED BY <1>1, TransferInvariance, PTL

\* recaveFile never leaves a complete package behind, but where a file ended.
THEOREM WaitingIsBehindAnEnd == TransferSpec => []WaitsOnlyAfterEnd
<1>1. GInv => WaitsOnlyAfterEnd
  BY DEF GInv, Taking, WaitsOnlyAfterEnd
<1> QED BY <1>1, TransferInvariance, PTL

\* Jobs that never overlap write their files whole, in any order, any number
\* of times and into any boxes.
THEOREM AloneWritesWhole == TransferSpec => []AloneIsWhole
<1>1. FInv /\ GInv => AloneIsWhole
  <2> SUFFICES ASSUME FInv, GInv, last # 0, ~overlapped, pkgs[last].end
               PROVE  disk[pkgs[last].file] = Content(pkgs[last].file)
    BY DEF AloneIsWhole
  <2> DEFINE p == pkgs[last]
  <2>1. p \in Made
    <3>1. last \in 1..Len(pkgs) /\ pkgs \in Seq(Made)
      BY LastBound DEF GInv, Sending
    <3> QED BY <3>1, ElementOfSeq
  <2>2. p.end /\ disk[p.file] = Saved(p)
    BY DEF GInv, Writing
  <2>3. p.chunk = Chunks[p.file] + 1 /\ Chunks[p.file] \in Nat /\ p.file \in Files
    BY <2>1, <2>2, FilesAssumption DEF Made, Packages
  <2> HIDE DEF p
  <2>4. Saved(p) = Content(p.file)
    <3>1. CASE Rest[p.file]
      BY <2>2, <2>3, <3>1 DEF Saved, Content
    <3>2. CASE ~Rest[p.file]
      <4>1. Chunks[p.file] + 0 = Chunks[p.file]
        BY <2>3
      <4> QED BY <2>2, <3>2, <4>1 DEF Saved, Content
    <3> QED BY <3>1, <3>2
  <2> QED BY <2>2, <2>4 DEF p
<1> QED BY <1>1, TransferInvariance, PTL

-----------------------------------------------------------------------------
(* Two jobs                                                                *)

\* How two jobs can lie in the stream: no file is half sent; one is; one is and
\* the other has begun in it; and one of the two has ended.
Phases == {"none", "one", "two", "rest"}

\* Package k of s makes y of x.
Passes(x, s, k, y) ==
  \/ x = "none" /\ s[k].chunk = 1 /\ y = IF s[k].end THEN "none" ELSE "one"
  \/ /\ x = "one" /\ s[k].chunk # 1 /\ s[k].file = s[k - 1].file /\ s[k].chunk = s[k - 1].chunk + 1
     /\ y = IF s[k].end THEN "none" ELSE "one"
  \/ x = "one" /\ s[k].chunk = 1 /\ y = IF s[k].end THEN "rest" ELSE "two"
  \/ x = "two" /\ s[k].chunk # 1 /\ y = IF s[k].end THEN "rest" ELSE "two"
  \/ x = "rest" /\ s[k].chunk # 1 /\ y = IF s[k].end THEN "none" ELSE "rest"

Phased(q, s) ==
  /\ q \in [0..Len(s) -> Phases] /\ q[0] = "none"
  /\ \A k \in 1..Len(s) : Passes(q[k - 1], s, k, q[k])

\* The jobs that have made such a stream.
SenderAt(x) ==
  /\ x = "none" => \A i \in 1..Len(sendJob) : sendJob[i].read = 0
  /\ x = "one" => /\ pkgs # <<>>
                  /\ \E i \in 1..Len(sendJob) :
                       /\ sendJob[i].file = pkgs[Len(pkgs)].file
                       /\ sendJob[i].read = pkgs[Len(pkgs)].chunk
                       /\ \A l \in 1..Len(sendJob) : l # i => sendJob[l].read = 0
  /\ x \in {"two", "rest"} => /\ begun = 2 /\ Len(sendJob) = IF x = "two" THEN 2 ELSE 1
                              /\ \A i \in 1..Len(sendJob) : sendJob[i].read # 0

\* What the receiver has made of it: while two files are in the stream it has
\* lost its stream, and when one of them has ended no file is open.
ReceiverAt(x) ==
  /\ x \in {"none", "rest"} => opened = None
  /\ x = "one" => /\ last # 0 /\ ~bad /\ opened = pkgs[last].file
                  /\ disk[pkgs[last].file] = Saved(pkgs[last]) /\ ~pkgs[last].end
  /\ x = "two" => opened # None /\ bad

Paired ==
  most <= 2 => \E q : \E x, y \in Phases :
                 /\ Phased(q, pkgs) /\ x = q[last] /\ y = q[Len(pkgs)]
                 /\ ReceiverAt(x) /\ (socket = "open" => SenderAt(y))

PInv == TwoNeverMix /\ Paired

LEMMA InitPInv == TransferInit => PInv
<1> SUFFICES ASSUME TransferInit PROVE PInv
  OBVIOUS
<1>1. /\ sendJob = <<>> /\ pkgs = <<>> /\ last = 0 /\ opened = None
      /\ disk = [f \in Files |-> <<>>]
  BY DEF TransferInit
<1> DEFINE q == [k \in 0..0 |-> "none"]
<1>2. Phased(q, pkgs)
  BY <1>1 DEF Phased, Phases
<1>3. q[0] = "none" /\ ReceiverAt("none") /\ SenderAt("none")
  BY <1>1 DEF ReceiverAt, SenderAt
<1>4. Paired
  <2>1. q[last] = "none" /\ q[Len(pkgs)] = "none" /\ "none" \in Phases
    BY <1>1 DEF Phases
  <2> HIDE DEF q
  <2> QED BY <1>2, <1>3, <2>1 DEF Paired
<1>5. TwoNeverMix
  BY <1>1 DEF TwoNeverMix
<1> QED BY <1>4, <1>5 DEF PInv

\* What is left of the jobs was there before.
LEMMA WithoutKeeps ==
  ASSUME NEW S, NEW s \in Seq(S), NEW i \in 1..Len(s), NEW k \in 1..Len(s) - 1
  PROVE  \E l \in 1..Len(s) : l # i /\ Without(s, i)[k] = s[l]
<1>1. Len(s) \in Nat /\ \A l \in 1..Len(s) : s[l] \in S
  BY ElementOfSeq
<1> DEFINE a == SubSeq(s, 1, i - 1)
           b == SubSeq(s, i + 1, Len(s))
<1>2. a \in Seq(S) /\ Len(a) = i - 1 /\ \A l \in 1..i - 1 : a[l] = s[l]
  <2>1. 1 \in Int /\ i - 1 \in Int /\ \A l \in 1..i - 1 : s[l] \in S
    BY <1>1
  <2>2. /\ a \in Seq(S) /\ Len(a) = (IF 1 <= i - 1 THEN (i - 1) - 1 + 1 ELSE 0)
        /\ \A l \in 1..(i - 1) - 1 + 1 : a[l] = s[1 + l - 1]
    BY <2>1, SubSeqProperties
  <2> QED BY <1>1, <2>2
<1>3. b \in Seq(S) /\ Len(b) = Len(s) - i /\ \A l \in 1..Len(s) - i : b[l] = s[i + l]
  <2>1. i + 1 \in Int /\ Len(s) \in Int /\ \A l \in i + 1..Len(s) : s[l] \in S
    BY <1>1
  <2>2. /\ b \in Seq(S) /\ Len(b) = (IF i + 1 <= Len(s) THEN Len(s) - (i + 1) + 1 ELSE 0)
        /\ \A l \in 1..Len(s) - (i + 1) + 1 : b[l] = s[(i + 1) + l - 1]
    BY <2>1, SubSeqProperties
  <2> QED BY <1>1, <2>2
<1>4. Without(s, i) = a \o b
  BY DEF Without
<1> HIDE DEF a, b
<1>5. \A l \in 1..Len(a) + Len(b) : (a \o b)[l] = IF l <= Len(a) THEN a[l] ELSE b[l - Len(a)]
  BY <1>2, <1>3, ConcatProperties
<1>6. CASE k <= i - 1
  <2>1. k \in 1..Len(a) + Len(b) /\ k <= Len(a) /\ k \in 1..i - 1 /\ k \in 1..Len(s) /\ k # i
    BY <1>1, <1>2, <1>3, <1>6
  <2> QED BY <1>2, <1>4, <1>5, <2>1
<1>7. CASE ~(k <= i - 1)
  <2> DEFINE m == k - (i - 1)
  <2>1. /\ k \in 1..Len(a) + Len(b) /\ ~(k <= Len(a)) /\ k - Len(a) = m /\ m \in 1..Len(s) - i
        /\ i + m \in 1..Len(s) /\ i + m # i
    BY <1>1, <1>2, <1>3, <1>7
  <2> HIDE DEF m
  <2>2. (a \o b)[k] = b[m]
    BY <1>5, <2>1
  <2>3. b[m] = s[i + m]
    BY <1>3, <2>1
  <2> QED BY <1>4, <2>1, <2>2, <2>3
<1> QED BY <1>6, <1>7

\* The jobs and the stream after a package was made.
LEMMA WorkOnDone ==
  ASSUME FInv, GInv, WorkOn, socket = "open"
  PROVE  LET j == sendJob[work]
             p == NextPackage(j.file, j.read)
         IN /\ work \in 1..Len(sendJob) /\ j \in Jobs /\ p \in Made
            /\ p.file = j.file /\ p.chunk = j.read + 1
            /\ pkgs' = Append(pkgs, p)
            /\ p.end => /\ Len(sendJob') = Len(sendJob) - 1
                        /\ \A k \in 1..Len(sendJob') :
                             \E l \in 1..Len(sendJob) : l # work /\ sendJob'[k] = sendJob[l]
            /\ ~p.end => /\ Len(sendJob') = Len(sendJob)
                         /\ sendJob'[work].file = p.file /\ sendJob'[work].read = p.chunk
                         /\ \A l \in 1..Len(sendJob) : l # work => sendJob'[l] = sendJob[l]
            /\ UNCHANGED <<begun, most, socket, opened, bad, disk, last>>
<1> DEFINE j == sendJob[work]
           p == NextPackage(j.file, j.read)
<1>1. /\ work \in 1..Len(sendJob) /\ pkgs' = Append(pkgs, p)
      /\ IF p.end THEN sendJob' = Without(sendJob, work)
                  ELSE sendJob' = [sendJob EXCEPT ![work].read = @ + 1]
      /\ UNCHANGED <<begun, most, socket, opened, bad, disk, last>>
  BY DEF WorkOn, link, receiver
<1>2. sendJob \in Seq(Jobs) /\ Len(sendJob) \in Nat /\ j \in Jobs
  BY <1>1, ElementOfSeq DEF GInv, Sending
<1>3. /\ p \in Made /\ p.file = j.file /\ p.chunk = j.read + 1
  BY <1>2, PackageMade
<1>4. CASE p.end
  <2>1. sendJob' = Without(sendJob, work)
    BY <1>1, <1>4
  <2>2. Len(sendJob') = Len(sendJob) - 1
    BY <1>1, <1>2, <2>1, WithoutOne
  <2>3. \A k \in 1..Len(sendJob) - 1 :
          \E l \in 1..Len(sendJob) : l # work /\ Without(sendJob, work)[k] = sendJob[l]
    <3> TAKE k \in 1..Len(sendJob) - 1
    <3> HIDE DEF j, p
    <3>1. sendJob \in Seq(Jobs) /\ work \in 1..Len(sendJob)
      BY <1>1, <1>2
    <3> QED BY <3>1, WithoutKeeps
  <2> HIDE DEF j, p
  <2>4. \A k \in 1..Len(sendJob') :
          \E l \in 1..Len(sendJob) : l # work /\ sendJob'[k] = sendJob[l]
    BY <2>1, <2>2, <2>3
  <2> QED BY <1>1, <1>2, <1>3, <1>4, <2>2, <2>4 DEF j, p
<1>5. CASE ~p.end
  <2>1. sendJob' = [sendJob EXCEPT ![work] = [j EXCEPT !.read = @ + 1]]
    BY <1>1, <1>5
  <2>2. /\ [j EXCEPT !.read = @ + 1] \in Jobs
        /\ [j EXCEPT !.read = @ + 1].file = j.file /\ [j EXCEPT !.read = @ + 1].read = j.read + 1
    BY <1>2, <1>5, PackageMade DEF Jobs
  <2> HIDE DEF j, p
  <2>3. /\ Len(sendJob') = Len(sendJob) /\ sendJob'[work] = [j EXCEPT !.read = @ + 1]
        /\ \A l \in 1..Len(sendJob) : l # work => sendJob'[l] = sendJob[l]
    BY <1>1, <1>2, <2>1, <2>2, ExceptSeq
  <2>4. sendJob'[work].file = p.file /\ sendJob'[work].read = p.chunk
    BY <1>3, <2>2, <2>3
  <2> QED BY <1>1, <1>2, <1>3, <1>5, <2>3, <2>4 DEF j, p
<1> QED BY <1>4, <1>5

\* Of two jobs, the one not at work is the other.
LEMMA TheOther ==
  ASSUME NEW n \in Nat, NEW w \in 1..n, NEW i \in 1..n, w # i, NEW b \in Nat, n <= b, b <= 2
  PROVE  n = 2 /\ b = 2 /\ \A l \in 1..n : l # w => l = i
  OBVIOUS

\* A package that is made goes on with the phases, and the jobs fit to them.
LEMMA PhaseMade ==
  ASSUME FInv, GInv, WorkOn, socket = "open", most <= 2,
         NEW x \in Phases, SenderAt(x)
  PROVE  \E y \in Phases : Passes(x, pkgs', Len(pkgs) + 1, y) /\ SenderAt(y)'
<1> DEFINE j == sendJob[work]
           p == NextPackage(j.file, j.read)
           n == Len(pkgs)
           m == Len(sendJob)
<1>1. /\ work \in 1..m /\ j \in Jobs /\ p \in Made
      /\ p.file = j.file /\ p.chunk = j.read + 1
      /\ pkgs' = Append(pkgs, p)
      /\ p.end => /\ Len(sendJob') = m - 1
                  /\ \A k \in 1..Len(sendJob') :
                       \E l \in 1..m : l # work /\ sendJob'[k] = sendJob[l]
      /\ ~p.end => /\ Len(sendJob') = m
                   /\ sendJob'[work].file = p.file /\ sendJob'[work].read = p.chunk
                   /\ \A l \in 1..m : l # work => sendJob'[l] = sendJob[l]
      /\ UNCHANGED <<begun, most>>
  BY WorkOnDone
<1>2. /\ m \in Nat /\ \A l \in 1..m : sendJob[l].read \in Nat
      /\ n \in Nat /\ pkgs \in Seq(Made) /\ begun \in Nat /\ begun <= 2 /\ m <= begun
  <2>1. /\ sendJob \in Seq(Jobs) /\ pkgs \in Seq(Made) /\ m <= begun /\ begun <= most
        /\ begun \in Nat /\ most \in Nat
    BY DEF GInv, Sending, TransferTypeOK
  <2>2. \A l \in 1..m : sendJob[l] \in Jobs
    BY <2>1, ElementOfSeq
  <2>3. m \in Nat /\ n \in Nat
    BY <2>1
  <2>4. begun <= 2
    BY <2>1
  <2> QED BY <2>1, <2>2, <2>3, <2>4 DEF Jobs
<1> HIDE DEF p, n, m
<1>3. /\ pkgs' # <<>> /\ Len(pkgs') = n + 1 /\ pkgs'[n + 1] = p
      /\ pkgs # <<>> => n # 0 /\ pkgs'[n] = pkgs[n] /\ pkgs[n].chunk \in Nat \ {0}
      /\ (n + 1) - 1 = n
  <2>1. /\ pkgs' \in Seq(Made) /\ Len(pkgs') = n + 1 /\ pkgs'[n + 1] = p
        /\ \A k \in 1..n : pkgs'[k] = pkgs[k]
    BY <1>1, <1>2, AppendProperties DEF n
  <2>2. pkgs # <<>> => n \in 1..n /\ n # 0
    BY <1>2, EmptySeq DEF n
  <2>3. pkgs # <<>> => pkgs[n] \in Made
    BY <1>2, <2>2, ElementOfSeq DEF n
  <2>4. \A r \in Made : r.chunk \in Nat \ {0}
    BY DEF Made, Packages
  <2>5. pkgs' # <<>>
    BY <1>2, <2>1
  <2> QED BY <1>2, <2>1, <2>2, <2>3, <2>4, <2>5
<1>4. j.read \in Nat /\ p.end \in BOOLEAN /\ p.chunk \in Nat /\ (p.chunk = 1 <=> j.read = 0)
  BY <1>1 DEF Jobs, Made, Packages
<1> HIDE DEF j
<1> DEFINE k == n + 1
<1>5. ASSUME \A l \in 1..m : l # work => sendJob[l].read = 0
      PROVE  /\ p.end => SenderAt("none")'
             /\ ~p.end => SenderAt("one")'
  <2>1. CASE p.end
    <3>1. \A l \in 1..Len(sendJob') : sendJob'[l].read = 0
      BY <1>1, <1>5, <2>1
    <3> QED BY <2>1, <3>1 DEF SenderAt
  <2>2. CASE ~p.end
    <3>1. /\ work \in 1..Len(sendJob')
          /\ sendJob'[work].file = pkgs'[Len(pkgs')].file
          /\ sendJob'[work].read = pkgs'[Len(pkgs')].chunk
          /\ \A l \in 1..Len(sendJob') : l # work => sendJob'[l].read = 0
      BY <1>1, <1>3, <1>5, <2>2
    <3> QED BY <1>3, <2>2, <3>1 DEF SenderAt
  <2> QED BY <2>1, <2>2
<1>6. ASSUME m = 2, begun = 2, \A l \in 1..m : l # work => sendJob[l].read # 0
      PROVE  /\ p.end => SenderAt("rest")'
             /\ ~p.end => SenderAt("two")'
  <2>1. CASE p.end
    <3>1. Len(sendJob') = 1 /\ \A l \in 1..Len(sendJob') : sendJob'[l].read # 0
      BY <1>1, <1>6, <2>1
    <3> QED BY <1>1, <1>6, <2>1, <3>1 DEF SenderAt
  <2>2. CASE ~p.end
    <3>1. sendJob'[work].read # 0
      BY <1>1, <1>4, <2>2
    <3>2. Len(sendJob') = 2 /\ \A l \in 1..Len(sendJob') : sendJob'[l].read # 0
      BY <1>1, <1>6, <2>2, <3>1
    <3> QED BY <1>1, <1>6, <2>2, <3>2 DEF SenderAt
  <2> QED BY <2>1, <2>2
<1>7. CASE x = "none"
  <2>1. \A l \in 1..m : sendJob[l].read = 0
    BY <1>7 DEF SenderAt, m
  <2>2. p.chunk = 1
    BY <1>1, <1>4, <2>1 DEF j
  <2>3. /\ p.end => Passes(x, pkgs', k, "none")
        /\ ~p.end => Passes(x, pkgs', k, "one")
    BY <1>3, <1>7, <2>2 DEF Passes
  <2>4. /\ p.end => SenderAt("none")'
        /\ ~p.end => SenderAt("one")'
    BY <1>5, <2>1
  <2> QED BY <1>4, <2>3, <2>4 DEF Phases, n
<1>8. CASE x = "one"
  <2>1. PICK i \in 1..m : /\ sendJob[i].file = pkgs[n].file /\ sendJob[i].read = pkgs[n].chunk
                          /\ \A l \in 1..m : l # i => sendJob[l].read = 0
    BY <1>8 DEF SenderAt, m, n
  <2>2. pkgs # <<>>
    BY <1>8 DEF SenderAt
  <2>3. CASE work = i
    <3>1. p.chunk # 1 /\ p.file = pkgs[n].file /\ p.chunk = pkgs[n].chunk + 1
      BY <1>1, <1>3, <1>4, <2>1, <2>2, <2>3 DEF j
    <3>2. /\ p.end => Passes(x, pkgs', k, "none")
          /\ ~p.end => Passes(x, pkgs', k, "one")
      BY <1>3, <1>8, <2>2, <3>1 DEF Passes
    <3>3. /\ p.end => SenderAt("none")'
          /\ ~p.end => SenderAt("one")'
      BY <1>5, <2>1, <2>3
    <3> QED BY <1>4, <3>2, <3>3 DEF Phases, n
  <2>4. CASE work # i
    <3>1. m = 2 /\ begun = 2 /\ \A l \in 1..m : l # work => l = i
      BY <1>1, <1>2, <2>4, TheOther
    <3>2. sendJob[i].read # 0
      BY <1>3, <2>1, <2>2
    <3>3. p.chunk = 1
      BY <1>1, <1>4, <2>1, <2>4 DEF j
    <3>4. /\ p.end => Passes(x, pkgs', k, "rest")
          /\ ~p.end => Passes(x, pkgs', k, "two")
      BY <1>3, <1>8, <3>3 DEF Passes
    <3>5. /\ p.end => SenderAt("rest")'
          /\ ~p.end => SenderAt("two")'
      BY <1>6, <3>1, <3>2
    <3> QED BY <1>4, <3>4, <3>5 DEF Phases, n
  <2> QED BY <2>3, <2>4
<1>9. CASE x = "two"
  <2>1. m = 2 /\ begun = 2 /\ \A l \in 1..m : sendJob[l].read # 0
    BY <1>9 DEF SenderAt, m
  <2>2. p.chunk # 1
    BY <1>1, <1>4, <2>1 DEF j
  <2>3. /\ p.end => Passes(x, pkgs', k, "rest")
        /\ ~p.end => Passes(x, pkgs', k, "two")
    BY <1>3, <1>9, <2>2 DEF Passes
  <2>4. /\ p.end => SenderAt("rest")'
        /\ ~p.end => SenderAt("two")'
    BY <1>6, <2>1
  <2> QED BY <1>4, <2>3, <2>4 DEF Phases, n
<1>10. CASE x = "rest"
  <2>1. m = 1 /\ begun = 2 /\ \A l \in 1..m : sendJob[l].read # 0
    BY <1>10 DEF SenderAt, m
  <2>2. p.chunk # 1 /\ \A l \in 1..m : l = work
    BY <1>1, <1>4, <2>1 DEF j
  <2>3. /\ p.end => Passes(x, pkgs', k, "none")
        /\ ~p.end => Passes(x, pkgs', k, "rest")
    BY <1>3, <1>10, <2>2 DEF Passes
  <2>4. CASE p.end
    <3>1. SenderAt("none")'
      BY <1>5, <2>2, <2>4
    <3> QED BY <2>3, <2>4, <3>1 DEF Phases, n
  <2>5. CASE ~p.end
    <3>1. Len(sendJob') = 1 /\ \A l \in 1..Len(sendJob') : sendJob'[l].read # 0
      BY <1>1, <1>4, <2>1, <2>2, <2>5
    <3>2. SenderAt("rest")'
      BY <1>1, <2>1, <3>1 DEF SenderAt
    <3> QED BY <2>3, <2>5, <3>2 DEF Phases, n
  <2> QED BY <2>4, <2>5
<1> QED BY <1>7, <1>8, <1>9, <1>10 DEF Phases

\* The phases of a stream go on with those of the next package.
LEMMA PhasedOn ==
  ASSUME NEW s \in Seq(Made), NEW t \in Seq(Made), Len(t) = Len(s) + 1,
         \A k \in 1..Len(s) : t[k] = s[k],
         NEW q, Phased(q, s), NEW y \in Phases, Passes(q[Len(s)], t, Len(s) + 1, y)
  PROVE  \E r : /\ Phased(r, t) /\ r[Len(s) + 1] = y
                /\ \A k \in 0..Len(s) : r[k] = q[k]
<1> DEFINE n == Len(s)
           r == [k \in 0..n + 1 |-> IF k <= n THEN q[k] ELSE y]
<1>1. n \in Nat /\ q \in [0..n -> Phases] /\ q[0] = "none"
  BY DEF Phased
<1>2. r \in [0..n + 1 -> Phases] /\ r[0] = "none" /\ r[n + 1] = y /\ \A k \in 0..n : r[k] = q[k]
  BY <1>1
<1> HIDE DEF r
<1>3. ASSUME NEW k \in 1..n + 1
      PROVE  Passes(r[k - 1], t, k, r[k])
  <2>1. CASE k = n + 1
    <3>1. k - 1 = n /\ n \in 0..n
      BY <1>1, <2>1
    <3>2. r[k - 1] = q[n] /\ r[k] = y
      BY <1>2, <2>1, <3>1
    <3> QED BY <2>1, <3>2
  <2>2. CASE k # n + 1
    <3>1. k \in 1..n /\ k \in 0..n /\ k - 1 \in 0..n
      BY <1>1, <2>2
    <3>2. r[k - 1] = q[k - 1] /\ r[k] = q[k] /\ t[k] = s[k] /\ Passes(q[k - 1], s, k, q[k])
      BY <1>2, <3>1 DEF Phased
    <3>3. CASE k = 1
      <4>1. q[k - 1] = "none"
        BY <1>1, <3>3
      <4> QED BY <3>2, <4>1 DEF Passes
    <3>4. CASE k # 1
      <4>1. k - 1 \in 1..n
        BY <1>1, <3>1, <3>4
      <4>2. t[k - 1] = s[k - 1]
        BY <4>1
      <4> QED BY <3>2, <4>2 DEF Passes
    <3> QED BY <3>3, <3>4
  <2> QED BY <2>1, <2>2
<1>4. Phased(r, t)
  BY <1>2, <1>3 DEF Phased
<1> QED BY <1>2, <1>4

LEMMA WorkOnPair ==
  ASSUME FInv, GInv, GInv', PInv, WorkOn
  PROVE  PInv'
<1>1. UNCHANGED <<begun, most, socket, opened, bad, disk, last>>
  BY DEF WorkOn, link, receiver
<1>2. TwoNeverMix'
  BY <1>1 DEF PInv, TwoNeverMix
<1>3. last \in 0..Len(pkgs) /\ Len(pkgs) \in Nat
  BY LastBound
<1>4. Paired'
  <2> SUFFICES ASSUME most <= 2
               PROVE  \E r : \E x, z \in Phases :
                        /\ Phased(r, pkgs') /\ x = r[last] /\ z = r[Len(pkgs')]
                        /\ ReceiverAt(x)' /\ (socket = "open" => SenderAt(z)')
    BY <1>1 DEF Paired
  <2>1. PICK q : \E x, z \in Phases :
                   /\ Phased(q, pkgs) /\ x = q[last] /\ z = q[Len(pkgs)]
                   /\ ReceiverAt(x) /\ (socket = "open" => SenderAt(z))
    BY DEF PInv, Paired
  <2>2. PICK x \in Phases, z \in Phases :
          /\ Phased(q, pkgs) /\ x = q[last] /\ z = q[Len(pkgs)]
          /\ ReceiverAt(x) /\ (socket = "open" => SenderAt(z))
    BY <2>1
  <2>3. CASE socket # "open"
    <3>1. pkgs' = pkgs
      BY <2>3 DEF WorkOn
    <3>2. ReceiverAt(x)'
      BY <1>1, <2>2, <3>1 DEF ReceiverAt, Saved
    <3> QED BY <2>2, <2>3, <3>1, <3>2
  <2>4. CASE socket = "open"
    <3>1. /\ pkgs \in Seq(Made) /\ pkgs' \in Seq(Made) /\ Len(pkgs') = Len(pkgs) + 1
          /\ \A k \in 1..Len(pkgs) : pkgs'[k] = pkgs[k]
      <4> DEFINE p == NextPackage(sendJob[work].file, sendJob[work].read)
      <4>1. pkgs' = Append(pkgs, p) /\ p \in Made
        BY <2>4, WorkOnDone
      <4>2. pkgs \in Seq(Made)
        BY DEF GInv, Sending
      <4> HIDE DEF p
      <4> QED BY <4>1, <4>2, AppendProperties
    <3>2. PICK y \in Phases : Passes(z, pkgs', Len(pkgs) + 1, y) /\ SenderAt(y)'
      BY <2>2, <2>4, PhaseMade
    <3> DEFINE t == pkgs'
    <3>3. /\ t \in Seq(Made) /\ Len(t) = Len(pkgs) + 1 /\ \A k \in 1..Len(pkgs) : t[k] = pkgs[k]
          /\ Passes(q[Len(pkgs)], t, Len(pkgs) + 1, y)
      BY <2>2, <3>1, <3>2
    <3> HIDE DEF t
    <3>4. PICK r : /\ Phased(r, t) /\ r[Len(pkgs) + 1] = y
                   /\ \A k \in 0..Len(pkgs) : r[k] = q[k]
      BY <2>2, <3>1, <3>3, PhasedOn
    <3>5. Phased(r, pkgs') /\ r[Len(pkgs')] = y /\ r[last] = x
      BY <1>3, <2>2, <3>1, <3>4 DEF t
    <3>6. ReceiverAt(x)'
      <4>1. last # 0 => pkgs'[last] = pkgs[last]
        BY <1>3, <3>1
      <4> QED BY <1>1, <2>2, <4>1 DEF ReceiverAt, Saved
    <3> QED BY <3>2, <3>5, <3>6
  <2> QED BY <2>3, <2>4
<1> QED BY <1>2, <1>4 DEF PInv

LEMMA NewSendPair ==
  ASSUME FInv, GInv, PInv, NEW f \in Files, SlotOnNewSend(f)
  PROVE  PInv'
<1> DEFINE job == [file |-> f, read |-> 0]
<1>1. /\ sendJob' = Append(sendJob, job)
      /\ begun' = (IF sendJob = <<>> THEN 1 ELSE begun + 1)
      /\ most' = (IF begun' > most THEN begun' ELSE most)
      /\ UNCHANGED <<socket, pkgs, opened, bad, disk, last>>
  BY DEF SlotOnNewSend, link, receiver
<1>2. begun \in Nat /\ most \in Nat /\ sendJob \in Seq(Jobs) /\ Len(sendJob) \in Nat
  BY DEF GInv, TransferTypeOK, Sending
<1>3. /\ Len(sendJob') = Len(sendJob) + 1 /\ sendJob'[Len(sendJob) + 1].read = 0
      /\ \A i \in 1..Len(sendJob) : sendJob'[i] = sendJob[i]
  <2>1. job \in Jobs /\ job.read = 0
    BY FilesAssumption DEF Jobs
  <2> HIDE DEF job
  <2> QED BY <1>1, <1>2, <2>1, AppendProperties
<1>4. most' <= 2 => most <= 2 /\ begun' <= 2
  BY <1>1, <1>2
<1>5. TwoNeverMix'
  BY <1>1, <1>4 DEF PInv, TwoNeverMix
<1>6. ASSUME NEW x \in Phases, SenderAt(x), most' <= 2
      PROVE  SenderAt(x)'
  <2>1. CASE x = "none"
    <3>1. \A i \in 1..Len(sendJob') : sendJob'[i].read = 0
      <4> TAKE i \in 1..Len(sendJob')
      <4>1. i \in 1..Len(sendJob) \/ i = Len(sendJob) + 1
        BY <1>2, <1>3
      <4> QED BY <1>3, <1>6, <2>1, <4>1 DEF SenderAt
    <3> QED BY <2>1, <3>1 DEF SenderAt
  <2>2. CASE x = "one"
    <3>1. PICK i \in 1..Len(sendJob) : /\ sendJob[i].file = pkgs[Len(pkgs)].file
                                       /\ sendJob[i].read = pkgs[Len(pkgs)].chunk
                                       /\ \A l \in 1..Len(sendJob) : l # i => sendJob[l].read = 0
      BY <1>6, <2>2 DEF SenderAt
    <3>2. \A l \in 1..Len(sendJob') : l # i => sendJob'[l].read = 0
      <4> TAKE l \in 1..Len(sendJob')
      <4>1. l \in 1..Len(sendJob) \/ l = Len(sendJob) + 1
        BY <1>2, <1>3
      <4> QED BY <1>3, <3>1, <4>1
    <3>3. i \in 1..Len(sendJob') /\ sendJob'[i] = sendJob[i] /\ pkgs # <<>>
      BY <1>2, <1>3, <1>6, <2>2 DEF SenderAt
    <3> QED BY <1>1, <2>2, <3>1, <3>2, <3>3 DEF SenderAt
  <2>3. CASE x \in {"two", "rest"}
    <3>1. begun = 2 /\ Len(sendJob) # 0
      BY <1>6, <2>3 DEF SenderAt
    <3>2. begun' = 3
      BY <1>1, <3>1
    <3> QED BY <1>4, <1>6, <3>2
  <2> QED BY <2>1, <2>2, <2>3 DEF Phases
<1>7. ASSUME NEW x \in Phases, ReceiverAt(x)
      PROVE  ReceiverAt(x)'
  BY <1>1, <1>7 DEF ReceiverAt, Saved
<1>8. Paired'
  BY <1>1, <1>4, <1>6, <1>7 DEF PInv, Paired
<1> QED BY <1>5, <1>8 DEF PInv

\* Steps that leave the jobs, the stream and the files alone.
LEMMA QuietPair ==
  ASSUME PInv, UNCHANGED <<sendJob, begun, most, pkgs, opened, bad, disk, last>>,
         socket' = "open" => socket = "open"
  PROVE  PInv'
<1>1. TwoNeverMix'
  BY DEF PInv, TwoNeverMix
<1>2. ASSUME NEW x PROVE /\ ReceiverAt(x) => ReceiverAt(x)'
                         /\ SenderAt(x) => SenderAt(x)'
  BY DEF ReceiverAt, SenderAt, Saved
<1>3. Paired'
  BY <1>2 DEF PInv, Paired
<1> QED BY <1>1, <1>3 DEF PInv

\* Where SaveFile puts the data of the next package, if it does.
LEMMA SavesTwo ==
  ASSUME FInv, GInv, answer = "OK", NEW x \in Phases, NEW y \in Phases,
         Passes(x, pkgs, last + 1, y), ReceiverAt(x)
  PROVE  LET p == pkgs[last + 1]
             file == IF Opens(p) THEN p.file ELSE opened
             old == IF Opens(p) THEN <<>> ELSE disk[file]
         IN /\ ~Fails(p) => /\ file = p.file /\ old \in Seq(Data) /\ Len(old) = p.chunk - 1
                            /\ \A i \in 1..p.chunk - 1 : old[i] = [file |-> p.file, chunk |-> i]
            /\ y = "one" => ~Fails(p) /\ ~p.end
            /\ y = "two" => Fails(p) /\ file # None /\ ~p.end
            /\ y \in {"none", "rest"} => p.end \/ file = None
<1> DEFINE p == pkgs[last + 1]
           q == pkgs[last]
<1>1. /\ last \in Nat /\ last + 1 \in 1..Len(pkgs) /\ (last + 1) - 1 = last
      /\ last # 0 => last \in 1..Len(pkgs)
  BY LastBound
<1>2. /\ p \in Made /\ (last # 0 => q \in Made)
  BY <1>1, ElementOfSeq DEF GInv, Sending
<1>3. /\ p.file \in Files /\ p.file # None /\ p.chunk \in Nat /\ (p.st_s = "BEGIN" <=> p.chunk = 1)
      /\ p.end \in BOOLEAN
      /\ last # 0 => q.file \in Files /\ q.file # None /\ q.chunk \in Nat \ {0} /\ q.end \in BOOLEAN
  BY <1>2, FilesAssumption DEF Made, Packages
<1>4. \/ x = "none" /\ p.chunk = 1 /\ y = IF p.end THEN "none" ELSE "one"
      \/ /\ x = "one" /\ p.chunk # 1 /\ p.file = q.file /\ p.chunk = q.chunk + 1
         /\ y = IF p.end THEN "none" ELSE "one"
      \/ x = "one" /\ p.chunk = 1 /\ y = IF p.end THEN "rest" ELSE "two"
      \/ x = "two" /\ p.chunk # 1 /\ y = IF p.end THEN "rest" ELSE "two"
      \/ x = "rest" /\ p.chunk # 1 /\ y = IF p.end THEN "none" ELSE "rest"
  BY <1>1 DEF Passes
<1>5. /\ x \in {"none", "rest"} => opened = None
      /\ x = "one" => last # 0 /\ ~bad /\ opened = q.file /\ disk[q.file] = Saved(q) /\ ~q.end
      /\ x = "two" => opened # None /\ bad
  BY DEF ReceiverAt
<1> HIDE DEF p, q
<1>6. CASE x = "none"
  <2>1. Opens(p) /\ ~Fails(p)
    BY <1>3, <1>4, <1>5, <1>6, Zenon DEF Opens, Fails
  <2>2. <<>> \in Seq(Data) /\ Len(<<>>) = p.chunk - 1 /\ 1..p.chunk - 1 = {}
    BY <1>3, <1>4, <1>6
  <2>3. y = IF p.end THEN "none" ELSE "one"
    BY <1>4, <1>6
  <2> QED BY <2>1, <2>2, <2>3 DEF p
<1>7. CASE x = "one" /\ p.chunk # 1
  <2>1. /\ p.file = q.file /\ p.chunk - 1 = q.chunk /\ y = IF p.end THEN "none" ELSE "one"
        /\ last # 0 /\ ~bad /\ opened = p.file /\ disk[p.file] = Saved(q) /\ ~q.end
    BY <1>3, <1>4, <1>5, <1>7
  <2>2. ~Opens(p) /\ ~Fails(p)
    BY <1>3, <1>7, <2>1, Zenon DEF Opens, Fails
  <2>3. Saved(q) = [i \in 1..q.chunk |-> [file |-> q.file, chunk |-> i]]
    BY <2>1 DEF Saved
  <2>4. Saved(q) \in Seq(Data) /\ Len(Saved(q)) = q.chunk
    <3>1. q.file \in Files /\ q.chunk \in Nat
      BY <1>3, <2>1
    <3> QED BY <2>3, <3>1, ChunksInLine
  <2>5. \A i \in 1..p.chunk - 1 : Saved(q)[i] = [file |-> p.file, chunk |-> i]
    BY <2>1, <2>3
  <2> QED BY <2>1, <2>2, <2>4, <2>5 DEF p
<1>8. CASE x = "one" /\ p.chunk = 1
  <2>1. opened # None /\ y = IF p.end THEN "rest" ELSE "two"
    BY <1>3, <1>4, <1>5, <1>8
  <2>2. ~Opens(p) /\ Fails(p)
    BY <1>3, <1>8, <2>1, Zenon DEF Opens, Fails
  <2> QED BY <2>1, <2>2 DEF p
<1>9. CASE x = "two"
  <2>1. opened # None /\ bad /\ y = IF p.end THEN "rest" ELSE "two"
    BY <1>4, <1>5, <1>9
  <2>2. ~Opens(p) /\ Fails(p)
    BY <2>1, Zenon DEF Opens, Fails
  <2> QED BY <2>1, <2>2 DEF p
<1>10. CASE x = "rest"
  <2>1. opened = None /\ p.chunk # 1 /\ y = IF p.end THEN "none" ELSE "rest"
    BY <1>4, <1>5, <1>10
  <2>2. ~Opens(p) /\ Fails(p)
    BY <1>3, <2>1, Zenon DEF Opens, Fails
  <2> QED BY <2>1, <2>2 DEF p
<1> QED BY <1>6, <1>7, <1>8, <1>9, <1>10 DEF Phases

LEMMA RecaveSavesPair ==
  ASSUME FInv, GInv, PInv, RecaveSaves
  PROVE  PInv'
<1> DEFINE p == pkgs[last + 1]
           file == IF Opens(p) THEN p.file ELSE opened
           old == IF Opens(p) THEN <<>> ELSE disk[file]
<1>1. last + 1 \in 1..Len(pkgs) /\ out[Len(out)] = last + 1 /\ last \in Nat /\ answer = "OK"
  BY LastBound DEF RecaveSaves
<1>2. /\ disk' = IF Fails(p) THEN disk ELSE [disk EXCEPT ![file] = old \o DataOf(p)]
      /\ bad' = Fails(p) /\ opened' = IF p.end THEN None ELSE file
      /\ last' = last + 1
      /\ UNCHANGED <<sendJob, begun, most, socket, pkgs>>
  BY <1>1 DEF RecaveSaves, SaveFile, sender, link
<1>3. p \in Made /\ p.file \in Files /\ p.chunk \in Nat /\ disk \in [Files -> Seq(Data)]
  <2>1. p \in Made
    BY <1>1, ElementOfSeq DEF GInv, Sending
  <2> QED BY <2>1 DEF Made, Packages, GInv, TransferTypeOK
<1> HIDE DEF p
<1>4. CASE most <= 2
  <2>1. PICK q : \E x, z \in Phases :
                   /\ Phased(q, pkgs) /\ x = q[last] /\ z = q[Len(pkgs)]
                   /\ ReceiverAt(x) /\ (socket = "open" => SenderAt(z))
    BY <1>4 DEF PInv, Paired
  <2>2. PICK x \in Phases, z \in Phases :
          /\ Phased(q, pkgs) /\ x = q[last] /\ z = q[Len(pkgs)]
          /\ ReceiverAt(x) /\ (socket = "open" => SenderAt(z))
    BY <2>1
  <2>3. PICK y \in Phases : y = q[last + 1] /\ Passes(x, pkgs, last + 1, y)
    <3>1. last + 1 \in 0..Len(pkgs) /\ (last + 1) - 1 = last
      BY <1>1
    <3> QED BY <1>1, <2>2, <3>1 DEF Phased
  <2>4. /\ ~Fails(p) => /\ file = p.file /\ old \in Seq(Data) /\ Len(old) = p.chunk - 1
                        /\ \A i \in 1..p.chunk - 1 : old[i] = [file |-> p.file, chunk |-> i]
        /\ y = "one" => ~Fails(p) /\ ~p.end
        /\ y = "two" => Fails(p) /\ file # None /\ ~p.end
        /\ y \in {"none", "rest"} => p.end \/ file = None
    BY <1>1, <2>2, <2>3, SavesTwo DEF p
  <2> HIDE DEF file, old
  <2>5. ~Fails(p) => disk' = [disk EXCEPT ![p.file] = Saved(p)]
    BY <1>2, <1>3, <2>4, SavedGrows
  <2>6. ReceiverAt(y)'
    <3>1. pkgs'[last'] = p /\ last' # 0
      BY <1>1, <1>2 DEF p
    <3>2. CASE y = "one"
      <4>1. /\ ~bad' /\ opened' = p.file /\ disk'[p.file] = Saved(p)
        BY <1>2, <1>3, <2>4, <2>5, <3>2
      <4> QED BY <2>4, <3>1, <3>2, <4>1 DEF ReceiverAt, Saved
    <3>3. CASE y = "two"
      BY <1>2, <2>4, <3>3, Zenon DEF ReceiverAt
    <3>4. CASE y \in {"none", "rest"}
      <4>1. opened' = None
        BY <1>2, <2>4, <3>4
      <4> QED BY <3>4, <4>1 DEF ReceiverAt
    <3> QED BY <3>2, <3>3, <3>4 DEF Phases
  <2>7. SenderAt(z) => SenderAt(z)'
    BY <1>2 DEF SenderAt
  <2>8. Paired'
    BY <1>2, <2>2, <2>3, <2>6, <2>7 DEF Paired
  <2>9. TwoNeverMix'
    <3>1. \A f \in Files : \A i \in 1..Len(disk[f]) : disk[f][i] = [file |-> f, chunk |-> i]
      BY <1>4 DEF PInv, TwoNeverMix
    <3>2. \A i \in 1..Len(Saved(p)) : Saved(p)[i] = [file |-> p.file, chunk |-> i]
      <4> DEFINE n == IF p.end /\ ~Rest[p.file] THEN Chunks[p.file] ELSE p.chunk
      <4>1. n \in Nat
        BY <1>3, FilesAssumption
      <4>2. Saved(p) = [i \in 1..n |-> [file |-> p.file, chunk |-> i]]
        BY DEF Saved
      <4> HIDE DEF n
      <4>3. Len(Saved(p)) = n
        BY <1>3, <4>1, <4>2, ChunksInLine
      <4> QED BY <4>2, <4>3
    <3>3. \A f \in Files : \A i \in 1..Len(disk'[f]) : disk'[f][i] = [file |-> f, chunk |-> i]
      <4>1. CASE Fails(p)
        BY <1>2, <3>1, <4>1
      <4>2. CASE ~Fails(p)
        BY <1>3, <2>5, <3>1, <3>2, <4>2
      <4> QED BY <4>1, <4>2
    <3> QED BY <3>3 DEF TwoNeverMix
  <2> QED BY <2>8, <2>9 DEF PInv
<1>5. CASE ~(most <= 2)
  BY <1>2, <1>5 DEF PInv, Paired, TwoNeverMix
<1> QED BY <1>4, <1>5

LEMMA PInvStep ==
  ASSUME FInv, GInv, GInv', PInv, [TransferNext]_vars
  PROVE  PInv'
<1>1. CASE \E f \in Files : SlotOnNewSend(f)
  BY <1>1, NewSendPair
<1>2. CASE WorkOn
  BY <1>2, WorkOnPair
<1>3. CASE RecaveSaves
  BY <1>3, RecaveSavesPair
<1>4. CASE WorkBegins \/ WorkEnds \/ SocketCloses \/ SlotDisconnected
  <2>1. /\ UNCHANGED <<sendJob, begun, most, pkgs, opened, bad, disk, last>>
        /\ socket' = "open" => socket = "open"
    BY <1>4 DEF WorkBegins, WorkEnds, SocketCloses, SlotDisconnected, sender, link, receiver
  <2> QED BY <2>1, QuietPair
<1>5. CASE RecaveFile \/ RecaveStep \/ RecaveStops
  <2>1. UNCHANGED <<sendJob, begun, most, pkgs, opened, bad, disk, last, socket>>
    BY <1>5 DEF RecaveFile, RecaveStep, RecaveStops, sender, link, receiver
  <2> QED BY <2>1, QuietPair
<1>6. CASE UNCHANGED vars
  <2>1. UNCHANGED <<sendJob, begun, most, pkgs, opened, bad, disk, last, socket>>
    BY <1>6 DEF vars, sender, link, receiver
  <2> QED BY <2>1, QuietPair
<1> QED BY <1>1, <1>2, <1>3, <1>4, <1>5, <1>6 DEF TransferNext

\* Where two jobs stand in the stream, and what the receiver has made of it.
THEOREM PairInvariance == TransferSpec => []PInv
<1>1. FInv /\ GInv /\ GInv' /\ PInv /\ [TransferNext]_vars => PInv'
  BY PInvStep
<1> QED BY InitPInv, <1>1, TransferInvariance, PTL DEF TransferSpec

\* Two jobs that overlap never put a chunk where it does not belong, whatever
\* the files, the boxes and the order in which the jobs take turns.
THEOREM TwoWriteInPlace == TransferSpec => []TwoNeverMix
<1>1. PInv => TwoNeverMix
  BY DEF PInv
<1> QED BY <1>1, PairInvariance, PTL
=============================================================================
