------------------------------ MODULE BoxLine ------------------------------
(***************************************************************************)
(* Boxes that wait in a queue, as the intervals of the bytes they hold:    *)
(* what the queues of Socket and of Framing have in common.                *)
(***************************************************************************)
EXTENDS Integers, SequenceTheorems, TLAPS

Intervals == [from : Nat, to : Nat]

\* The boxes of s follow one another without a gap, and the last ends with n.
Line(s, n) ==
  /\ \A i \in 1..Len(s) : 1 <= s[i].from /\ s[i].from <= s[i].to /\ s[i].to <= n
  /\ \A i \in 1..Len(s) - 1 : s[i + 1].from = s[i].to + 1
  /\ s # <<>> => s[Len(s)].to = n

-----------------------------------------------------------------------------
\* The first box of a queue, and the one behind it.
LEMMA FrontAndRest ==
  ASSUME NEW s \in Seq(Intervals), s # <<>>
  PROVE  /\ Len(s) \in Nat /\ Head(s) = s[1] /\ s[1] \in Intervals /\ (Len(s) = 1 \/ Len(s) > 1)
         /\ Len(s) = 1 => Tail(s) = <<>>
         /\ Len(s) > 1 => Tail(s) # <<>> /\ Head(Tail(s)) = s[2] /\ s[2] \in Intervals
<1>1. Len(s) \in Nat /\ Len(s) >= 1 /\ Head(s) = s[1]
  OBVIOUS
<1>2. \A i \in 1..Len(s) : s[i] \in Intervals
  BY ElementOfSeq
<1>3. /\ Tail(s) \in Seq(Intervals) /\ Len(Tail(s)) = Len(s) - 1
      /\ \A i \in 1..Len(Tail(s)) : Tail(s)[i] = s[i + 1]
  BY HeadTailProperties
<1>4. ASSUME NEW t \in Seq(Intervals)
      PROVE  (Len(t) = 0 <=> t = <<>>) /\ (t # <<>> => Head(t) = t[1])
  OBVIOUS
<1>5. ASSUME Len(s) = 1 PROVE Tail(s) = <<>>
  <2>1. Len(Tail(s)) = 0
    BY <1>3, <1>5
  <2> QED BY <1>3, <1>4, <2>1
<1>6. ASSUME Len(s) > 1 PROVE Tail(s) # <<>> /\ Head(Tail(s)) = s[2]
  <2>1. Len(Tail(s)) # 0 /\ Tail(s)[1] = s[2]
    BY <1>1, <1>3, <1>6
  <2> QED BY <1>3, <1>4, <2>1
<1>7. Len(s) = 1 \/ Len(s) > 1
  <2>1. \A n \in Nat : n >= 1 => n = 1 \/ n > 1
    OBVIOUS
  <2> QED BY <1>1, <2>1, Zenon
<1> QED BY <1>1, <1>2, <1>5, <1>6, <1>7

\* A box with the next bytes goes to the end of the line.
LEMMA LinePushed ==
  ASSUME NEW s \in Seq(Intervals), NEW n \in Nat, Line(s, n),
         NEW b \in Intervals, b.from = n + 1, b.to >= b.from
  PROVE  Line(Append(s, b), b.to)
<1>1. /\ Append(s, b) \in Seq(Intervals) /\ Len(Append(s, b)) = Len(s) + 1
      /\ \A i \in 1..Len(s) : Append(s, b)[i] = s[i]
      /\ Append(s, b)[Len(s) + 1] = b /\ Len(s) \in Nat
  BY AppendProperties
<1>2. b.from \in Nat /\ b.to \in Nat /\ \A i \in 1..Len(s) : s[i].to \in Nat
  <2>1. \A i \in 1..Len(s) : s[i] \in Intervals
    BY ElementOfSeq
  <2> QED BY <2>1 DEF Intervals
<1>3. ASSUME NEW i \in 1..Len(s) + 1
      PROVE  /\ 1 <= Append(s, b)[i].from /\ Append(s, b)[i].from <= Append(s, b)[i].to
             /\ Append(s, b)[i].to <= b.to
  <2>1. CASE i = Len(s) + 1
    BY <1>1, <1>2, <2>1
  <2>2. CASE i \in 1..Len(s)
    BY <1>1, <1>2, <2>2 DEF Line
  <2> QED BY <1>1, <2>1, <2>2
<1>4. ASSUME NEW i \in 1..Len(s)
      PROVE  Append(s, b)[i + 1].from = Append(s, b)[i].to + 1
  <2>1. CASE i = Len(s)
    BY <1>1, <2>1 DEF Line
  <2>2. CASE i \in 1..Len(s) - 1
    BY <1>1, <2>2 DEF Line
  <2> QED BY <1>1, <2>1, <2>2
<1> QED BY <1>1, <1>3, <1>4 DEF Line

\* What is left when the front box is popped begins right behind it.
LEMMA LinePopped ==
  ASSUME NEW s \in Seq(Intervals), NEW n \in Nat, Line(s, n), s # <<>>
  PROVE  /\ Tail(s) \in Seq(Intervals) /\ Line(Tail(s), n)
         /\ Tail(s) = <<>> => Head(s).to = n
         /\ Tail(s) # <<>> => /\ Head(Tail(s)) \in Intervals
                              /\ Head(Tail(s)).from = Head(s).to + 1
<1>1. /\ Tail(s) \in Seq(Intervals) /\ Len(Tail(s)) = Len(s) - 1
      /\ \A i \in 1..Len(Tail(s)) : Tail(s)[i] = s[i + 1]
  BY HeadTailProperties
<1>2. /\ Len(s) \in Nat /\ Head(s) = s[1] /\ (Len(s) = 1 \/ Len(s) > 1)
      /\ Len(s) = 1 => Tail(s) = <<>>
      /\ Len(s) > 1 => Tail(s) # <<>> /\ Head(Tail(s)) = s[2] /\ s[2] \in Intervals
  BY FrontAndRest
<1>3. Line(Tail(s), n)
  <2>1. ASSUME NEW i \in 1..Len(Tail(s))
        PROVE  1 <= s[i + 1].from /\ s[i + 1].from <= s[i + 1].to /\ s[i + 1].to <= n
    BY <1>1, <1>2 DEF Line
  <2>2. ASSUME NEW i \in 1..Len(Tail(s)) - 1
        PROVE  s[(i + 1) + 1].from = s[i + 1].to + 1
    BY <1>1, <1>2 DEF Line
  <2>3. s[Len(s)].to = n
    BY DEF Line
  <2>4. Tail(s) # <<>> => Tail(s)[Len(Tail(s))] = s[Len(s)]
    BY <1>1, <1>2
  <2>5. \A i \in 1..Len(Tail(s)) - 1 : i \in 1..Len(Tail(s)) /\ i + 1 \in 1..Len(Tail(s))
    BY <1>1, <1>2
  <2> QED BY <1>1, <2>1, <2>2, <2>3, <2>4, <2>5 DEF Line
<1>4. Len(s) = 1 => Head(s).to = n
  BY <1>2 DEF Line
<1>5. Len(s) > 1 => s[2].from = s[1].to + 1
  BY <1>2 DEF Line
<1> QED BY <1>1, <1>2, <1>3, <1>4, <1>5
=============================================================================
