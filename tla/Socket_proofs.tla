--------------------------- MODULE Socket_proofs ---------------------------
(***************************************************************************)
(* Safety of Socket for any sizes, bounds and room, with everything that   *)
(* can break a connection.  What holds the proof together is the way of    *)
(* the bytes: what an application has taken, what onRecve has cached and   *)
(* what is in the kernel are together what the other end has sent so far,  *)
(* in order, up to the byte its next ::send begins with.                   *)
(***************************************************************************)
EXTENDS Socket, BoxLine, FiniteSetTheorems, TLAPS

-----------------------------------------------------------------------------
(* The inductive invariant *)

\* The epoll thread works for a descriptor only while that is open.
Serving ==
  \A e \in Ends : epoll[e] \in {"recv", "send", "mod"} => scfd[e] = "open" \/ ub

\* A socket without a descriptor has been given nothing.
Fresh ==
  \A e \in Ends : scfd[e] = "none" =>
    ~pushing[e] /\ sendCaceh[e] = <<>> /\ recaveCaceh[e] = <<>>

\* onSend goes back to EPOLLIN over an empty cache.
ModIsEmpty == \A e \in Ends : epoll[e] = "mod" => sendCaceh[e] = <<>>

\* The boxes of e are a line that ends with the last byte it has sent.
Queued(e) == Line(sendCaceh[e], sent[e])

\* The byte e's next ::send begins with.
NextByte(e) == IF sendCaceh[e] = <<>> THEN sent[e] + 1 ELSE Head(sendCaceh[e]).from + part[e]

\* The bytes on their way to e and already there, oldest first.
Path(e) == (got[e] \o recaveCaceh[e]) \o kernel[e]

Rising(s, n) == /\ \A i, j \in 1..Len(s) : i < j => s[i] < s[j]
                /\ \A i \in 1..Len(s) : s[i] \in 1..n - 1

InOrder(e) ==
  /\ Rising(Path(e), NextByte(Peer(e)))
  /\ ~cut[Peer(e)] => \A i \in 1..Len(Path(e)) : Path(e)[i] = i
  /\ ~cut[Peer(e)] /\ ~Shut(Peer(e)) => Len(Path(e)) = NextByte(Peer(e)) - 1

Flags == TypeOK /\ Serving /\ Fresh /\ ModIsEmpty /\ InterestFollowsCache /\ NoSilentData

KInv == Flags /\ \A e \in Ends : Queued(e) /\ InOrder(e)

-----------------------------------------------------------------------------
(* Ends and sequences *)

\* There is exactly one other end.
LEMMA TwoEnds ==
  ASSUME NEW e \in Ends
  PROVE  /\ Peer(e) \in Ends /\ Peer(e) # e /\ Peer(Peer(e)) = e
         /\ \A f \in Ends : f = e \/ f = Peer(e)
<1>1. IsFiniteSet(Ends \ {e}) /\ Cardinality(Ends \ {e}) = 1
  BY EndsAssumption, FS_RemoveElement
<1>2. PICK f : f \in Ends \ {e}
  BY <1>1, FS_EmptySet
<1>3. (Ends \ {e}) \ {f} = {}
  <2>1. /\ IsFiniteSet((Ends \ {e}) \ {f})
        /\ Cardinality((Ends \ {e}) \ {f}) = 0
    BY <1>1, <1>2, FS_RemoveElement
  <2> QED BY <2>1, FS_EmptySet
<1>4. Ends = {e, f} /\ e # f
  BY <1>2, <1>3
<1> HIDE DEF Peer
<1>5. Peer(e) = f
  BY <1>4 DEF Peer
<1>6. Peer(f) = e
  BY <1>4 DEF Peer
<1> QED BY <1>4, <1>5, <1>6

\* A byte that comes in last.
LEMMA LastByte ==
  ASSUME NEW g \in Seq(Nat), NEW r \in Seq(Nat), NEW k \in Seq(Nat), NEW b \in Nat
  PROVE  (g \o r) \o Append(k, b) = Append((g \o r) \o k, b)
<1>1. g \o r \in Seq(Nat) /\ (g \o r) \o k \in Seq(Nat) /\ <<b>> \in Seq(Nat)
  BY ConcatProperties
<1>2. Append(k, b) = k \o <<b>> /\ Append((g \o r) \o k, b) = ((g \o r) \o k) \o <<b>>
  BY <1>1, AppendIsConcat
<1> QED BY <1>1, <1>2, ConcatAssociative

\* Bytes that move from the kernel to the cache.
LEMMA BytesMove ==
  ASSUME NEW g \in Seq(Nat), NEW r \in Seq(Nat), NEW k \in Seq(Nat), NEW n \in 1..Len(k)
  PROVE  (g \o (r \o SubSeq(k, 1, n))) \o SubSeq(k, n + 1, Len(k)) = (g \o r) \o k
<1> DEFINE a == SubSeq(k, 1, n)
           z == SubSeq(k, n + 1, Len(k))
<1>1. a \in Seq(Nat) /\ z \in Seq(Nat)
  BY SubSeqProperties
<1>2. a \o z = k
  BY SMTT(30)
<1> HIDE DEF a, z
<1>3. (g \o (r \o a)) \o z = (g \o r) \o (a \o z)
  BY <1>1, SMTT(30)
<1> QED BY <1>2, <1>3 DEF a, z

\* The two parts of what is in the kernel.
LEMMA PartsOf ==
  ASSUME NEW k \in Seq(Nat), NEW n \in 0..Len(k)
  PROVE  /\ SubSeq(k, 1, n) \in Seq(Nat) /\ Len(SubSeq(k, 1, n)) = n
         /\ SubSeq(k, n + 1, Len(k)) \in Seq(Nat) /\ Len(SubSeq(k, n + 1, Len(k))) = Len(k) - n
  BY SubSeqProperties

\* What is left of the way when the end of k is dropped.
LEMMA BytesDropped ==
  ASSUME NEW h \in Seq(Nat), NEW k \in Seq(Nat), NEW n \in 0..Len(k)
  PROVE  /\ h \o SubSeq(k, 1, n) \in Seq(Nat)
         /\ Len(h \o SubSeq(k, 1, n)) = Len(h) + n /\ Len(h \o SubSeq(k, 1, n)) <= Len(h \o k)
         /\ \A i \in 1..Len(h) + n : (h \o SubSeq(k, 1, n))[i] = (h \o k)[i]
<1>1. /\ SubSeq(k, 1, n) \in Seq(Nat) /\ Len(SubSeq(k, 1, n)) = n
      /\ \A i \in 1..n : SubSeq(k, 1, n)[i] = k[i]
  BY SubSeqProperties
<1> QED BY <1>1, ConcatProperties

-----------------------------------------------------------------------------
(* One step of one end *)

LEMMA InitKInv == Init => KInv
<1> SUFFICES ASSUME Init PROVE KInv
  OBVIOUS
<1>1. Flags
  <2>1. /\ bound \in [Ends -> BOOLEAN] /\ missed \in [Ends -> BOOLEAN]
        /\ cut \in [Ends -> BOOLEAN] /\ ub \in BOOLEAN
    BY DEF Init
  <2>2. TypeOK
    BY <2>1, SizesAssumption DEF Init, TypeOK
  <2> QED BY <2>2 DEF Init, Flags, Serving, Fresh, ModIsEmpty, InterestFollowsCache, NoSilentData
<1>2. ASSUME NEW e \in Ends PROVE Queued(e)
  BY DEF Init, Queued, Line
<1>3. ASSUME NEW e \in Ends PROVE InOrder(e)
  <2>1. Path(e) = <<>> /\ Path(e) \in Seq(Nat)
    BY DEF Init, Path
  <2>2. NextByte(Peer(e)) = 1
    BY TwoEnds DEF Init, NextByte
  <2> QED BY <2>1, <2>2 DEF InOrder, Rising
<1> QED BY <1>1, <1>2, <1>3 DEF KInv

LEMMA SetUpFlags ==
  ASSUME Flags, NEW e \in Ends, ConnectToHost(e) \/ Accept(e) \/ Bind(e)
  PROVE  Flags'
<1>1. TypeOK'
  BY DEF Flags, TypeOK, ConnectToHost, Accept, Bind, threads, sending, reading
<1>2. Serving' /\ Fresh' /\ ModIsEmpty' /\ InterestFollowsCache' /\ NoSilentData'
  BY DEF Flags, TypeOK, Serving, Fresh, ModIsEmpty, InterestFollowsCache,
         NoSilentData, ConnectToHost, Accept, Bind, threads, sending, reading
<1> QED BY <1>1, <1>2 DEF Flags

LEMMA TestFlags ==
  ASSUME Flags, NEW e \in Ends, SendTest(e)
  PROVE  Flags'
  BY DEF Flags, TypeOK, Serving, Fresh, ModIsEmpty, InterestFollowsCache, NoSilentData,
         SendTest, sending, reading

LEMMA PushFlags ==
  ASSUME Flags, NEW e \in Ends, SendPush(e)
  PROVE  Flags'
  BY SizesAssumption
  DEF Flags, TypeOK, Serving, Fresh, ModIsEmpty, InterestFollowsCache, NoSilentData,
      SendPush, SendLocked, reading, Boxes

LEMMA RecveFlags ==
  ASSUME Flags, NEW e \in Ends, Recve(e)
  PROVE  Flags'
  BY DEF Flags, TypeOK, Serving, Fresh, ModIsEmpty, InterestFollowsCache, NoSilentData,
         Recve, sending, threads

LEMMA WakeFlags ==
  ASSUME Flags, NEW e \in Ends, Wake(e)
  PROVE  Flags'
<1>1. TypeOK'
  BY DEF Flags, TypeOK, Wake, Goes, sending, reading
<1>2. Serving' /\ Fresh' /\ ModIsEmpty' /\ InterestFollowsCache' /\ NoSilentData'
  BY DEF Flags, TypeOK, Serving, Fresh, ModIsEmpty, InterestFollowsCache,
         NoSilentData, Wake, Goes, sending, reading
<1> QED BY <1>1, <1>2 DEF Flags

LEMMA OnRecveFlags ==
  ASSUME Flags, NEW e \in Ends, OnRecve(e), ~ub
  PROVE  Flags'
<1>1. CASE RecvChunk(e)
  <2>1. PICK n \in 1..Len(kernel[e]) :
          /\ recaveCaceh' = [recaveCaceh EXCEPT ![e] = @ \o SubSeq(kernel[e], 1, n)]
          /\ kernel' = [kernel EXCEPT ![e] = SubSeq(@, n + 1, Len(@))]
    BY <1>1 DEF RecvChunk
  <2>2. /\ kernel[e] \in Seq(Nat) /\ recaveCaceh[e] \in Seq(Nat) /\ Len(kernel[e]) <= Room
        /\ n \in 0..Len(kernel[e])
    BY DEF Flags, TypeOK
  <2>3. /\ recaveCaceh[e] \o SubSeq(kernel[e], 1, n) \in Seq(Nat)
        /\ SubSeq(kernel[e], n + 1, Len(kernel[e])) \in Seq(Nat)
        /\ Len(SubSeq(kernel[e], n + 1, Len(kernel[e]))) <= Room
    BY <2>2, PartsOf, ConcatProperties, SizesAssumption
  <2>4. TypeOK'
    BY <1>1, <2>1, <2>3 DEF Flags, TypeOK, RecvChunk, sending, threads
  <2>5. \A f \in Ends : f # e => recaveCaceh'[f] = recaveCaceh[f]
    BY <2>1 DEF Flags, TypeOK
  <2>6. epoll[e] = "recv" /\ scfd[e] = "open"
    BY <1>1 DEF RecvChunk, Flags, Serving
  <2>7. Fresh' /\ NoSilentData'
    BY <1>1, <2>5, <2>6 DEF Flags, Fresh, NoSilentData, RecvChunk, sending, threads
  <2> QED
    BY <1>1, <2>4, <2>7 DEF Flags, Serving, ModIsEmpty, InterestFollowsCache, RecvChunk,
                            sending, threads
<1>2. CASE RecvAgain(e)
  <2>1. TypeOK'
    BY <1>2 DEF Flags, TypeOK, RecvAgain, Goes, sending
  <2>2. events'[e] > 0 \/ missed'[e]
    <3>1. CASE bound[e]
      BY <1>2, <3>1 DEF Flags, TypeOK, RecvAgain
    <3>2. CASE ~bound[e]
      <4>1. missed' = [missed EXCEPT ![e] = @ \/ ~bound[e]] /\ missed \in [Ends -> BOOLEAN]
        BY <1>2 DEF Flags, TypeOK, RecvAgain
      <4> QED BY <3>2, <4>1, Zenon
    <3> QED BY <3>1, <3>2
  <2>3. \A f \in Ends : f # e => /\ events'[f] = events[f] /\ missed'[f] = missed[f]
                                 /\ epoll'[f] = epoll[f]
    BY <1>2 DEF Flags, TypeOK, RecvAgain, Goes
  <2>4. NoSilentData'
    BY <1>2, <2>2, <2>3 DEF Flags, NoSilentData, RecvAgain
  <2> QED
    BY <1>2, <2>1, <2>4 DEF Flags, TypeOK, Serving, Fresh, ModIsEmpty, InterestFollowsCache,
                            RecvAgain, Goes, sending
<1>3. CASE RecvEnd(e)
  BY <1>3 DEF Flags, TypeOK, Serving, Fresh, ModIsEmpty, InterestFollowsCache, NoSilentData,
              RecvEnd, Close, Goes, sending, reading
<1> QED BY <1>1, <1>2, <1>3 DEF OnRecve

LEMMA PassFlags ==
  ASSUME Flags, NEW e \in Ends, Queued(e), KernelTakes(e)
  PROVE  Flags'
<1> DEFINE box == Head(sendCaceh[e])
           b == box.from + part[e]
<1>1. /\ sendCaceh[e] \in Seq(Boxes) /\ sendCaceh[e] # <<>> /\ epoll[e] = "send"
      /\ kernel[Peer(e)] \in Seq(Nat) /\ Len(kernel[Peer(e)]) < Room /\ part[e] \in Nat
  BY TwoEnds DEF Flags, TypeOK, KernelTakes
<1>2. /\ kernel' = [kernel EXCEPT ![Peer(e)] = Append(@, b)]
      /\ part' = [part EXCEPT ![e] = IF b = box.to THEN 0 ELSE @ + 1]
      /\ sendCaceh' = [sendCaceh EXCEPT ![e] = IF b = box.to THEN Tail(@) ELSE @]
  BY DEF KernelTakes
<1>3. box \in Boxes /\ Tail(sendCaceh[e]) \in Seq(Boxes)
  BY <1>1, HeadTailProperties
<1>4. box.from \in Nat /\ box.to \in Nat /\ b \in Nat /\ b <= box.to
  <2>1. box.from <= box.to
    BY <1>1 DEF Queued, Line
  <2>2. part[e] > 0 => b <= box.to
    BY DEF Flags, TypeOK
  <2> QED BY <1>1, <1>3, <2>1, <2>2 DEF Boxes
<1>5. Append(kernel[Peer(e)], b) \in Seq(Nat) /\ Len(Append(kernel[Peer(e)], b)) <= Room
  BY <1>1, <1>4, AppendProperties, SizesAssumption
<1>6. \A f \in Ends : part'[f] > 0 => /\ epoll'[f] = "send" /\ sendCaceh'[f] # <<>>
                                      /\ Head(sendCaceh'[f]).from + part'[f]
                                           <= Head(sendCaceh'[f]).to
  <2> TAKE f \in Ends
  <2>1. CASE f = e
    BY <1>1, <1>2, <1>4, <2>1 DEF Flags, TypeOK, KernelTakes, threads
  <2>2. CASE f # e
    BY <1>2, <2>2 DEF Flags, TypeOK, KernelTakes, threads
  <2> QED BY <2>1, <2>2
<1> HIDE DEF b, box
<1>7. TypeOK'
  <2>1. sendCaceh' \in [Ends -> Seq(Boxes)] /\ part' \in [Ends -> Nat]
    BY <1>1, <1>2, <1>3 DEF Flags, TypeOK
  <2>2. kernel' \in [Ends -> Seq(Nat)] /\ \A f \in Ends : Len(kernel'[f]) <= Room
    BY <1>2, <1>5 DEF Flags, TypeOK
  <2> QED BY <1>6, <2>1, <2>2 DEF Flags, TypeOK, KernelTakes, threads, reading
<1>8. \A f \in Ends : sendCaceh'[f] # <<>> => sendCaceh[f] # <<>>
  BY <1>1, <1>2 DEF Flags, TypeOK
<1> QED
  BY <1>1, <1>2, <1>7, <1>8
  DEF Flags, Serving, Fresh, ModIsEmpty, InterestFollowsCache, NoSilentData,
      KernelTakes, threads, reading

LEMMA ShortFlags ==
  ASSUME Flags, NEW e \in Ends, SendShort(e)
  PROVE  Flags'
  BY DEF Flags, TypeOK, Serving, Fresh, ModIsEmpty, InterestFollowsCache, NoSilentData,
         SendShort, PopFront, threads, reading

LEMMA OnSendFlags ==
  ASSUME Flags, NEW e \in Ends, ~ub,
         SendInterrupted(e) \/ SendFails(e) \/ SendKills(e) \/ SendDone(e) \/ SendMod(e)
  PROVE  Flags'
<1>1. CASE SendInterrupted(e)
  <2>1. TypeOK'
    BY <1>1 DEF Flags, TypeOK, SendInterrupted, Goes, sending, reading
  <2> QED
    BY <1>1, <2>1 DEF Flags, TypeOK, Serving, Fresh, ModIsEmpty, InterestFollowsCache,
                      NoSilentData, SendInterrupted, Goes, sending, reading
<1>2. CASE SendFails(e)
  <2>1. TypeOK'
    BY <1>2 DEF Flags, TypeOK, SendFails, Close, Goes, sending, reading
  <2> QED
    BY <1>2, <2>1 DEF Flags, TypeOK, Serving, Fresh, ModIsEmpty, InterestFollowsCache,
                      NoSilentData, SendFails, Close, Goes, sending, reading
<1>3. CASE SendKills(e)
  <2>1. TypeOK'
    BY <1>3 DEF Flags, TypeOK, SendKills, Goes, sending, reading
  <2> QED
    BY <1>3, <2>1 DEF Flags, TypeOK, Serving, Fresh, ModIsEmpty, InterestFollowsCache,
                      NoSilentData, SendKills, Goes, sending, reading
<1>4. CASE SendDone(e)
  <2>1. TypeOK'
    BY <1>4 DEF Flags, TypeOK, SendDone, Goes, sending, reading
  <2> QED
    BY <1>4, <2>1 DEF Flags, TypeOK, Serving, Fresh, ModIsEmpty, InterestFollowsCache,
                      NoSilentData, SendDone, Goes, sending, reading
<1>5. CASE SendMod(e)
  <2>1. TypeOK'
    BY <1>5 DEF Flags, TypeOK, SendMod, Goes, sending, reading
  <2> QED
    BY <1>5, <2>1 DEF Flags, TypeOK, Serving, Fresh, ModIsEmpty, InterestFollowsCache,
                      NoSilentData, SendMod, Goes, sending, reading
<1> QED BY <1>1, <1>2, <1>3, <1>4, <1>5

LEMMA BreakFlags ==
  ASSUME Flags, NEW e \in Ends, EpollEnds(e) \/ Destroy(e) \/ Drop(e), ~ub
  PROVE  Flags'
<1>1. CASE EpollEnds(e)
  BY <1>1 DEF Flags, TypeOK, Serving, Fresh, ModIsEmpty, InterestFollowsCache, NoSilentData,
              EpollEnds, Goes, sending, reading
<1>2. CASE Destroy(e)
  BY <1>2 DEF Flags, TypeOK, Serving, Fresh, ModIsEmpty, InterestFollowsCache, NoSilentData,
              Destroy, sending, reading
<1>3. CASE Drop(e)
  <2>1. PICK n \in 0..Len(kernel[Peer(e)]) - 1 :
          kernel' = [kernel EXCEPT ![Peer(e)] = SubSeq(@, 1, n)]
    BY <1>3 DEF Drop
  <2>2. kernel[Peer(e)] \in Seq(Nat) /\ Len(kernel[Peer(e)]) <= Room
    BY TwoEnds DEF Flags, TypeOK
  <2>3. SubSeq(kernel[Peer(e)], 1, n) \in Seq(Nat) /\ Len(SubSeq(kernel[Peer(e)], 1, n)) <= Room
    BY <2>2, PartsOf, SizesAssumption
  <2>4. TypeOK'
    BY <1>3, <2>1, <2>3 DEF Flags, TypeOK, Drop, threads, sending, reading
  <2> QED
    BY <1>3, <2>4 DEF Flags, Serving, Fresh, ModIsEmpty, InterestFollowsCache, NoSilentData,
                      Drop, threads, sending, reading
<1> QED BY <1>1, <1>2, <1>3

LEMMA FlagsStep ==
  ASSUME KInv, [Next]_vars
  PROVE  Flags'
<1>1. CASE UNCHANGED vars
  BY <1>1 DEF KInv, Flags, TypeOK, Serving, Fresh, ModIsEmpty, InterestFollowsCache, NoSilentData,
              vars, threads, sending, reading
<1>2. CASE Next
  <2>1. PICK e \in Ends :
          \/ ConnectToHost(e) \/ Accept(e) \/ Bind(e)
          \/ SendTest(e) \/ SendPush(e) \/ Recve(e)
          \/ Wake(e) \/ OnRecve(e) \/ OnSend(e) \/ SendSignalled(e)
          \/ EpollEnds(e) \/ Destroy(e) \/ Drop(e)
    BY <1>2 DEF Next
  <2>2. Flags /\ Queued(e) /\ ~ub
    BY <1>2 DEF KInv, Next
  <2> QED
    BY <2>1, <2>2, SetUpFlags, TestFlags, PushFlags, RecveFlags, WakeFlags, OnRecveFlags,
       PassFlags, ShortFlags, OnSendFlags, BreakFlags
    DEF OnSend, SendSignalled
<1> QED BY <1>1, <1>2

-----------------------------------------------------------------------------
(* The way of the bytes *)

\* The byte that comes next has not been sent before.
LEMMA NextByteBound ==
  ASSUME Flags, NEW e \in Ends, Queued(e)
  PROVE  NextByte(e) \in 1..sent[e] + 1
<1>1. sendCaceh[e] \in Seq(Boxes) /\ part[e] \in Nat /\ sent[e] \in Nat
  BY DEF Flags, TypeOK
<1>2. CASE sendCaceh[e] = <<>>
  BY <1>1, <1>2 DEF NextByte
<1>3. CASE sendCaceh[e] # <<>>
  <2>1. /\ 1 <= Head(sendCaceh[e]).from /\ Head(sendCaceh[e]).from <= Head(sendCaceh[e]).to
        /\ Head(sendCaceh[e]).to <= sent[e]
    BY <1>1, <1>3 DEF Queued, Line
  <2>2. Head(sendCaceh[e]) \in Boxes
    BY <1>1, <1>3, HeadTailProperties
  <2>3. part[e] > 0 => Head(sendCaceh[e]).from + part[e] <= Head(sendCaceh[e]).to
    BY DEF Flags, TypeOK
  <2> QED BY <1>1, <1>3, <2>1, <2>2, <2>3 DEF NextByte, Boxes
<1> QED BY <1>2, <1>3

\* Popping the front box leaves the rest in line behind it.
LEMMA QueuePopped ==
  ASSUME Flags, NEW e \in Ends, Queued(e), sendCaceh[e] # <<>>,
         sendCaceh' = [sendCaceh EXCEPT ![e] = Tail(@)], part' = [part EXCEPT ![e] = 0],
         UNCHANGED sent
  PROVE  Queued(e)' /\ NextByte(e)' = Head(sendCaceh[e]).to + 1
<1>1. /\ sendCaceh[e] \in Seq(Intervals) /\ sendCaceh'[e] = Tail(sendCaceh[e])
      /\ part'[e] = 0 /\ sent'[e] = sent[e] /\ sent[e] \in Nat
  BY DEF Flags, TypeOK, Boxes, Intervals
<1>2. /\ Line(Tail(sendCaceh[e]), sent[e])
      /\ Tail(sendCaceh[e]) = <<>> => Head(sendCaceh[e]).to = sent[e]
      /\ Tail(sendCaceh[e]) # <<>> => /\ Head(Tail(sendCaceh[e])) \in Intervals
                                     /\ Head(Tail(sendCaceh[e])).from = Head(sendCaceh[e]).to + 1
  BY <1>1, LinePopped DEF Queued
<1>3. Queued(e)'
  BY <1>1, <1>2 DEF Queued
<1>4. CASE Tail(sendCaceh[e]) = <<>>
  <2>1. NextByte(e)' = sent[e] + 1
    BY <1>1, <1>4, Zenon DEF NextByte
  <2> QED BY <1>2, <1>3, <1>4, <2>1, Zenon
<1>5. CASE Tail(sendCaceh[e]) # <<>>
  <2>1. Head(Tail(sendCaceh[e])).from \in Nat
    BY <1>2, <1>5, Zenon DEF Intervals
  <2>2. NextByte(e)' = Head(Tail(sendCaceh[e])).from + 0
    BY <1>1, <1>5, Zenon DEF NextByte
  <2>3. \A n \in Nat : n + 0 = n
    OBVIOUS
  <2>4. NextByte(e)' = Head(Tail(sendCaceh[e])).from
    BY <2>1, <2>2, <2>3, Zenon
  <2> QED BY <1>2, <1>3, <1>5, <2>4, Zenon
<1> QED BY <1>3, <1>4, <1>5

LEMMA PathTypes ==
  ASSUME Flags, NEW e \in Ends
  PROVE  /\ got[e] \in Seq(Nat) /\ recaveCaceh[e] \in Seq(Nat) /\ kernel[e] \in Seq(Nat)
         /\ got[e] \o recaveCaceh[e] \in Seq(Nat) /\ Path(e) \in Seq(Nat)
<1>1. got[e] \in Seq(Nat) /\ recaveCaceh[e] \in Seq(Nat) /\ kernel[e] \in Seq(Nat)
  BY DEF Flags, TypeOK
<1>2. got[e] \o recaveCaceh[e] \in Seq(Nat)
  BY <1>1, ConcatProperties
<1>3. Path(e) \in Seq(Nat)
  BY <1>1, <1>2, ConcatProperties DEF Path
<1> QED BY <1>1, <1>2, <1>3

\* The way to f stays in order while no byte of it moves, also when its sender
\* goes on behind a cut.
LEMMA WayKept ==
  ASSUME NEW f \in Ends, InOrder(f), Path(f)' = Path(f),
         NextByte(Peer(f)) \in Nat, NextByte(Peer(f))' \in Nat,
         NextByte(Peer(f))' >= NextByte(Peer(f)),
         cut'[Peer(f)] \/ NextByte(Peer(f))' = NextByte(Peer(f)),
         cut[Peer(f)] => cut'[Peer(f)], Shut(Peer(f)) => Shut(Peer(f))'
  PROVE  InOrder(f)'
<1>1. Rising(Path(f), NextByte(Peer(f))')
  BY DEF InOrder, Rising
<1> QED BY <1>1 DEF InOrder, Rising

\* Most steps touch neither the boxes nor the way.
LEMMA Still ==
  ASSUME KInv, UNCHANGED <<sendCaceh, part, sent, cut, got, recaveCaceh, kernel>>,
         \A f \in Ends : Shut(f) => Shut(f)'
  PROVE  \A f \in Ends : Queued(f)' /\ InOrder(f)'
<1> TAKE f \in Ends
<1>1. Queued(f)'
  BY DEF KInv, Queued
<1>2. Path(f)' = Path(f) /\ NextByte(Peer(f))' = NextByte(Peer(f))
  BY DEF Path, NextByte
<1> QED BY <1>1, <1>2, TwoEnds DEF KInv, InOrder

LEMMA StillSteps ==
  ASSUME KInv, NEW e \in Ends,
         \/ ConnectToHost(e) \/ Accept(e) \/ Bind(e) \/ SendTest(e) \/ Wake(e)
         \/ RecvAgain(e) \/ RecvEnd(e) \/ SendInterrupted(e) \/ SendFails(e)
         \/ SendKills(e) \/ SendDone(e) \/ SendMod(e) \/ EpollEnds(e) \/ Destroy(e)
  PROVE  \A f \in Ends : Queued(f)' /\ InOrder(f)'
<1>1. UNCHANGED <<sendCaceh, part, sent, cut, got, recaveCaceh, kernel>>
  BY DEF ConnectToHost, Accept, Bind, SendTest, Wake, RecvAgain, RecvEnd, SendInterrupted,
         SendFails, SendKills, SendDone, SendMod, EpollEnds, Destroy, threads, sending, reading
<1>2. \/ UNCHANGED scfd
      \/ scfd[e] = "none"
      \/ \E v \in {"closed", "killed", "destroyed"} : scfd' = [scfd EXCEPT ![e] = v]
  BY DEF ConnectToHost, Accept, Bind, SendTest, Wake, RecvAgain, RecvEnd, SendInterrupted,
         SendFails, SendKills, SendDone, SendMod, EpollEnds, Destroy, Close, threads
<1>3. scfd[e] = "none" => \A f \in Ends : f # e => scfd'[f] = scfd[f]
  BY DEF ConnectToHost, Accept, Bind, SendTest, Wake, RecvAgain, RecvEnd, SendInterrupted,
         SendFails, SendKills, SendDone, SendMod, EpollEnds, Destroy, Close, threads,
         KInv, Flags, TypeOK
<1>4. \A f \in Ends : Shut(f) => Shut(f)'
  BY <1>2, <1>3 DEF Shut, KInv, Flags, TypeOK
<1> QED BY <1>1, <1>4, Still

LEMMA PushWay ==
  ASSUME KInv, NEW e \in Ends, SendPush(e)
  PROVE  \A f \in Ends : Queued(f)' /\ InOrder(f)'
<1>1. PICK n \in Sizes :
        /\ sendCaceh' = [sendCaceh EXCEPT ![e] = Append(@, [from |-> sent[e] + 1,
                                                           to |-> sent[e] + n])]
        /\ sent' = [sent EXCEPT ![e] = @ + n]
  BY DEF SendPush
<1> DEFINE box == [from |-> sent[e] + 1, to |-> sent[e] + n]
<1>2. /\ sendCaceh[e] \in Seq(Boxes) /\ sent[e] \in Nat /\ n \in Nat \ {0} /\ part[e] \in Nat
      /\ box \in Boxes /\ box.from = sent[e] + 1 /\ box.to = sent[e] + n
      /\ part[e] > 0 => sendCaceh[e] # <<>>
  BY SizesAssumption DEF KInv, Flags, TypeOK, Boxes
<1>3. /\ sendCaceh'[e] = Append(sendCaceh[e], box) /\ sent'[e] = sent[e] + n
      /\ \A f \in Ends : f # e => sendCaceh'[f] = sendCaceh[f] /\ sent'[f] = sent[f]
      /\ UNCHANGED <<part, cut, kernel, got, recaveCaceh, scfd>>
  BY <1>1 DEF SendPush, reading, KInv, Flags, TypeOK
<1> HIDE DEF box
<1>4. /\ Len(Append(sendCaceh[e], box)) = Len(sendCaceh[e]) + 1
      /\ \A i \in 1..Len(sendCaceh[e]) : Append(sendCaceh[e], box)[i] = sendCaceh[e][i]
      /\ Append(sendCaceh[e], box)[Len(sendCaceh[e]) + 1] = box
      /\ Append(sendCaceh[e], box) # <<>>
      /\ Head(Append(sendCaceh[e], box))
           = IF sendCaceh[e] = <<>> THEN box ELSE Head(sendCaceh[e])
  BY <1>2, AppendProperties, HeadTailAppend
<1>5. Queued(e)
  BY DEF KInv
<1>6. Queued(e)'
  <2>1. Line(Append(sendCaceh[e], box), box.to)
    <3>1. /\ sendCaceh[e] \in Seq(Intervals) /\ box \in Intervals
          /\ sent[e] \in Nat /\ Line(sendCaceh[e], sent[e])
      BY <1>2, <1>5 DEF Queued, Boxes, Intervals
    <3>2. box.from = sent[e] + 1 /\ box.to >= box.from
      BY <1>2
    <3> QED BY <3>1, <3>2, LinePushed
  <2> QED BY <1>2, <1>3, <2>1 DEF Queued
<1>7. NextByte(e)' = NextByte(e)
  BY <1>2, <1>3, <1>4 DEF NextByte
<1>8. ASSUME NEW f \in Ends PROVE Queued(f)' /\ InOrder(f)'
  <2>1. Queued(f)'
    BY <1>3, <1>6 DEF KInv, Queued
  <2>2. Path(f)' = Path(f) /\ NextByte(Peer(f))' = NextByte(Peer(f))
    <3>1. Peer(f) # e => NextByte(Peer(f))' = NextByte(Peer(f))
      BY <1>3, TwoEnds DEF NextByte
    <3> QED BY <1>3, <1>7, <3>1, Zenon DEF Path
  <2>3. Shut(Peer(f))' = Shut(Peer(f)) /\ cut' = cut
    BY <1>3 DEF Shut
  <2> QED BY <2>1, <2>2, <2>3 DEF KInv, InOrder
<1> QED BY <1>8

LEMMA RecveWay ==
  ASSUME KInv, NEW e \in Ends, Recve(e)
  PROVE  \A f \in Ends : Queued(f)' /\ InOrder(f)'
<1>1. /\ got' = [got EXCEPT ![e] = @ \o recaveCaceh[e]]
      /\ recaveCaceh' = [recaveCaceh EXCEPT ![e] = <<>>]
      /\ UNCHANGED <<sendCaceh, part, sent, cut, kernel, scfd>>
  BY DEF Recve, threads, sending
<1>2. ASSUME NEW f \in Ends PROVE Path(f)' = Path(f)
  <2>1. CASE f = e
    <3>1. got'[e] = got[e] \o recaveCaceh[e] /\ recaveCaceh'[e] = <<>> /\ kernel' = kernel
      BY <1>1 DEF KInv, Flags, TypeOK
    <3>2. (got[e] \o recaveCaceh[e]) \o <<>> = got[e] \o recaveCaceh[e]
      BY PathTypes, ConcatEmptySeq DEF KInv
    <3> QED BY <2>1, <3>1, <3>2 DEF Path
  <2>2. CASE f # e
    BY <1>1, <2>2 DEF Path, KInv, Flags, TypeOK
  <2> QED BY <2>1, <2>2
<1>3. \A f \in Ends : NextByte(f)' = NextByte(f) /\ Queued(f)' /\ Shut(f)' = Shut(f)
  BY <1>1 DEF NextByte, Queued, Shut, KInv
<1> QED BY <1>1, <1>2, <1>3, TwoEnds DEF KInv, InOrder

LEMMA ChunkWay ==
  ASSUME KInv, NEW e \in Ends, RecvChunk(e)
  PROVE  \A f \in Ends : Queued(f)' /\ InOrder(f)'
<1>1. PICK n \in 1..Len(kernel[e]) :
        /\ recaveCaceh' = [recaveCaceh EXCEPT ![e] = @ \o SubSeq(kernel[e], 1, n)]
        /\ kernel' = [kernel EXCEPT ![e] = SubSeq(@, n + 1, Len(@))]
  BY DEF RecvChunk
<1>2. UNCHANGED <<sendCaceh, part, sent, cut, got, scfd>>
  BY DEF RecvChunk, threads, sending
<1>3. ASSUME NEW f \in Ends PROVE Path(f)' = Path(f)
  <2>1. CASE f = e
    <3>1. /\ recaveCaceh'[e] = recaveCaceh[e] \o SubSeq(kernel[e], 1, n)
          /\ kernel'[e] = SubSeq(kernel[e], n + 1, Len(kernel[e])) /\ got' = got
      BY <1>1, <1>2 DEF KInv, Flags, TypeOK
    <3>2. /\ got[e] \in Seq(Nat) /\ recaveCaceh[e] \in Seq(Nat) /\ kernel[e] \in Seq(Nat)
      BY PathTypes DEF KInv
    <3>3. (got[e] \o (recaveCaceh[e] \o SubSeq(kernel[e], 1, n)))
            \o SubSeq(kernel[e], n + 1, Len(kernel[e]))
            = (got[e] \o recaveCaceh[e]) \o kernel[e]
      BY <3>2, BytesMove
    <3> QED BY <2>1, <3>1, <3>3 DEF Path
  <2>2. CASE f # e
    BY <1>1, <1>2, <2>2 DEF Path, KInv, Flags, TypeOK
  <2> QED BY <2>1, <2>2
<1>4. \A f \in Ends : NextByte(f)' = NextByte(f) /\ Queued(f)' /\ Shut(f)' = Shut(f)
  BY <1>2 DEF NextByte, Queued, Shut, KInv
<1> QED BY <1>2, <1>3, <1>4, TwoEnds DEF KInv, InOrder

LEMMA ShortWay ==
  ASSUME KInv, NEW e \in Ends, SendShort(e)
  PROVE  \A f \in Ends : Queued(f)' /\ InOrder(f)'
<1>1. /\ sendCaceh' = [sendCaceh EXCEPT ![e] = Tail(@)] /\ part' = [part EXCEPT ![e] = 0]
      /\ cut' = [cut EXCEPT ![e] = TRUE]
      /\ UNCHANGED <<sent, kernel, got, recaveCaceh, scfd>> /\ part[e] > 0
  BY DEF SendShort, PopFront, threads, reading
<1>2. sendCaceh[e] # <<>> /\ Flags /\ \A f \in Ends : Queued(f) /\ InOrder(f)
  BY <1>1 DEF KInv, Flags, TypeOK
<1>3. Queued(e)' /\ NextByte(e)' = Head(sendCaceh[e]).to + 1
  BY <1>1, <1>2, QueuePopped
<1>4. \A f \in Ends : NextByte(f) \in Nat
  <2>1. \A f \in Ends : sent[f] \in Nat
    BY DEF KInv, Flags, TypeOK
  <2> QED BY <1>2, <2>1, NextByteBound
<1>5. NextByte(e)' \in Nat /\ NextByte(e)' >= NextByte(e)
  <2>1. /\ Head(sendCaceh[e]) \in Boxes
        /\ Head(sendCaceh[e]).from + part[e] <= Head(sendCaceh[e]).to
    BY <1>1, <1>2, FrontAndRest DEF Flags, TypeOK, Boxes, Intervals
  <2>2. NextByte(e) = Head(sendCaceh[e]).from + part[e]
    BY <1>2 DEF NextByte
  <2> QED BY <1>3, <1>4, <2>1, <2>2 DEF Boxes
<1>6. cut'[e] /\ \A f \in Ends : cut[f] => cut'[f]
  BY <1>1 DEF KInv, Flags, TypeOK
<1>7. ASSUME NEW f \in Ends, f # e
      PROVE  Queued(f)' /\ NextByte(f)' = NextByte(f)
  BY <1>1, <1>2, <1>7 DEF Queued, NextByte, Flags, TypeOK
<1>8. ASSUME NEW f \in Ends PROVE Path(f)' = Path(f) /\ Shut(f)' = Shut(f)
  BY <1>1 DEF Path, Shut
<1>9. ASSUME NEW f \in Ends PROVE InOrder(f)'
  <2>1. Peer(f) \in Ends
    BY TwoEnds
  <2>2. /\ NextByte(Peer(f))' \in Nat /\ NextByte(Peer(f))' >= NextByte(Peer(f))
        /\ cut'[Peer(f)] \/ NextByte(Peer(f))' = NextByte(Peer(f))
    BY <1>4, <1>5, <1>6, <1>7, <2>1
  <2> QED BY <1>2, <1>4, <1>6, <1>8, <2>1, <2>2, WayKept
<1> QED BY <1>3, <1>7, <1>9

LEMMA DropWay ==
  ASSUME KInv, NEW e \in Ends, Drop(e)
  PROVE  \A f \in Ends : Queued(f)' /\ InOrder(f)'
<1>1. PICK n \in 0..Len(kernel[Peer(e)]) - 1 :
        kernel' = [kernel EXCEPT ![Peer(e)] = SubSeq(@, 1, n)]
  BY DEF Drop
<1>2. UNCHANGED <<sendCaceh, part, sent, cut, got, recaveCaceh, scfd>> /\ Shut(e)
  BY DEF Drop, Reset, threads, sending, reading
<1>3. \A f \in Ends : NextByte(f)' = NextByte(f) /\ Queued(f)' /\ Shut(f)' = Shut(f)
  BY <1>2 DEF NextByte, Queued, Shut, KInv
<1>4. ASSUME NEW f \in Ends, f # Peer(e) PROVE InOrder(f)'
  <2>1. Path(f)' = Path(f)
    BY <1>1, <1>2, <1>4 DEF Path, KInv, Flags, TypeOK
  <2> QED BY <1>2, <1>3, <2>1, TwoEnds DEF KInv, InOrder
<1>5. InOrder(Peer(e))'
  <2> DEFINE f == Peer(e)
  <2>1. f \in Ends /\ Peer(f) = e /\ InOrder(f)
    BY TwoEnds DEF KInv
  <2>2. kernel[f] \in Seq(Nat) /\ got[f] \o recaveCaceh[f] \in Seq(Nat) /\ n \in 0..Len(kernel[f])
    BY <2>1, PathTypes DEF KInv
  <2>3. kernel'[f] = SubSeq(kernel[f], 1, n) /\ got' = got /\ recaveCaceh' = recaveCaceh
    BY <1>1, <1>2, <2>1 DEF KInv, Flags, TypeOK
  <2> HIDE DEF f
  <2>4. /\ Path(f) \in Seq(Nat) /\ Path(f)' \in Seq(Nat) /\ Len(Path(f)') <= Len(Path(f))
        /\ \A i \in 1..Len(Path(f)') : Path(f)'[i] = Path(f)[i]
    <3>1. Path(f)' = (got[f] \o recaveCaceh[f]) \o SubSeq(kernel[f], 1, n)
      BY <2>3 DEF Path
    <3>2. Path(f) \in Seq(Nat)
      BY <2>1, PathTypes DEF KInv
    <3> DEFINE h == got[f] \o recaveCaceh[f]
    <3>3. h \in Seq(Nat) /\ Path(f) = h \o kernel[f] /\ Path(f)' = h \o SubSeq(kernel[f], 1, n)
      BY <2>2, <3>1 DEF Path
    <3> HIDE DEF h
    <3>4. /\ h \o SubSeq(kernel[f], 1, n) \in Seq(Nat)
          /\ Len(h \o SubSeq(kernel[f], 1, n)) = Len(h) + n
          /\ Len(h \o SubSeq(kernel[f], 1, n)) <= Len(h \o kernel[f])
          /\ \A i \in 1..Len(h) + n : (h \o SubSeq(kernel[f], 1, n))[i] = (h \o kernel[f])[i]
      BY <2>2, <3>3, BytesDropped
    <3> QED BY <3>2, <3>3, <3>4
  <2>5. Len(Path(f)) \in Nat /\ Len(Path(f)') \in Nat
    BY <2>4
  <2>6. Shut(e)' /\ NextByte(e)' = NextByte(e) /\ cut' = cut
    BY <1>2, <1>3
  <2>7. Rising(Path(f)', NextByte(e)') /\ (~cut'[e] => \A i \in 1..Len(Path(f)') : Path(f)'[i] = i)
    <3>1. \A i \in 1..Len(Path(f)') : i \in 1..Len(Path(f))
      BY <2>4, <2>5
    <3> QED BY <2>1, <2>4, <2>6, <3>1 DEF InOrder, Rising
  <2> QED BY <2>1, <2>6, <2>7 DEF InOrder, f
<1> QED BY <1>3, <1>4, <1>5

\* A byte more on the way is the one that was to come next.
LEMMA WayExtended ==
  ASSUME NEW s \in Seq(Nat), NEW n \in Nat \ {0}, Rising(s, n)
  PROVE  /\ Append(s, n) \in Seq(Nat) /\ Len(Append(s, n)) = Len(s) + 1
         /\ Rising(Append(s, n), n + 1)
         /\ (Len(s) = n - 1 /\ \A i \in 1..Len(s) : s[i] = i)
              => \A i \in 1..Len(Append(s, n)) : Append(s, n)[i] = i
<1>1. /\ Append(s, n) \in Seq(Nat) /\ Len(Append(s, n)) = Len(s) + 1 /\ Len(s) \in Nat
      /\ \A i \in 1..Len(s) : Append(s, n)[i] = s[i]
      /\ Append(s, n)[Len(s) + 1] = n
  BY AppendProperties
<1>2. \A i \in 1..Len(s) + 1 : i = Len(s) + 1 \/ i \in 1..Len(s)
  BY <1>1
<1>3. Rising(Append(s, n), n + 1)
  BY <1>1, <1>2 DEF Rising
<1> QED BY <1>1, <1>2, <1>3

LEMMA PassWay ==
  ASSUME KInv, ~ub, NEW e \in Ends, KernelTakes(e)
  PROVE  \A f \in Ends : Queued(f)' /\ InOrder(f)'
<1> DEFINE box == Head(sendCaceh[e])
           b == box.from + part[e]
<1>1. /\ kernel' = [kernel EXCEPT ![Peer(e)] = Append(@, b)]
      /\ part' = [part EXCEPT ![e] = IF b = box.to THEN 0 ELSE @ + 1]
      /\ sendCaceh' = [sendCaceh EXCEPT ![e] = IF b = box.to THEN Tail(@) ELSE @]
      /\ UNCHANGED <<scfd, sent, cut, got, recaveCaceh>>
      /\ sendCaceh[e] # <<>> /\ epoll[e] = "send"
  BY DEF KernelTakes, threads, reading
<1>2. Flags /\ \A f \in Ends : Queued(f) /\ InOrder(f)
  BY DEF KInv
<1>3. b = NextByte(e) /\ b \in Nat \ {0}
  <2>1. b = NextByte(e)
    BY <1>1 DEF NextByte
  <2>2. sent[e] \in Nat /\ NextByte(e) \in 1..sent[e] + 1
    BY <1>2, NextByteBound DEF Flags, TypeOK
  <2> QED BY <2>1, <2>2
<1>4. Queued(e)' /\ NextByte(e)' = b + 1
  <2>1. CASE b = box.to
    <3>1. /\ sendCaceh' = [sendCaceh EXCEPT ![e] = Tail(@)] /\ part' = [part EXCEPT ![e] = 0]
          /\ UNCHANGED sent
      BY <1>1, <2>1
    <3> QED BY <1>1, <1>2, <2>1, <3>1, QueuePopped
  <2>2. CASE b # box.to
    <3>1. sendCaceh' = sendCaceh /\ part'[e] = part[e] + 1 /\ UNCHANGED sent
      BY <1>1, <1>2, <2>2 DEF Flags, TypeOK
    <3>2. Queued(e)'
      BY <1>2, <3>1 DEF Queued
    <3>3. part[e] \in Nat /\ box.from \in Nat
      BY <1>1, <1>2, FrontAndRest DEF Flags, TypeOK, Boxes, Intervals
    <3>4. NextByte(e)' = box.from + (part[e] + 1)
      BY <1>1, <3>1 DEF NextByte
    <3> QED BY <3>2, <3>3, <3>4
  <2> QED BY <2>1, <2>2
<1> HIDE DEF b, box
<1>5. \A f \in Ends : f # e => Queued(f)' /\ NextByte(f)' = NextByte(f)
  BY <1>1, <1>2 DEF Queued, NextByte, Flags, TypeOK
<1>6. InOrder(e)'
  <2>1. Peer(e) \in Ends /\ Peer(e) # e
    BY TwoEnds
  <2>2. Path(e)' = Path(e) /\ Shut(Peer(e))' = Shut(Peer(e))
    BY <1>1, <1>2, <2>1 DEF Path, Shut, Flags, TypeOK
  <2> QED BY <1>1, <1>2, <1>5, <2>1, <2>2 DEF InOrder
<1>7. InOrder(Peer(e))'
  <2> DEFINE f == Peer(e)
  <2>1. f \in Ends /\ Peer(f) = e /\ InOrder(f) /\ Path(f) \in Seq(Nat)
    BY <1>2, TwoEnds, PathTypes
  <2>2. /\ got[f] \in Seq(Nat) /\ recaveCaceh[f] \in Seq(Nat) /\ kernel[f] \in Seq(Nat)
    BY <1>2, <2>1, PathTypes
  <2>3. /\ kernel'[f] = Append(kernel[f], b) /\ got' = got /\ recaveCaceh' = recaveCaceh
    BY <1>1, <1>2, <2>1 DEF Flags, TypeOK
  <2>4. Path(f)' = Append(Path(f), b)
    <3>1. Path(f)' = (got[f] \o recaveCaceh[f]) \o Append(kernel[f], b)
      BY <2>3 DEF Path
    <3> QED BY <1>3, <2>2, <3>1, LastByte DEF Path
  <2>5. ~Shut(e) /\ Shut(e)' = Shut(e) /\ cut' = cut
    BY <1>1, <1>2 DEF Flags, Serving, Shut
  <2> HIDE DEF f
  <2>6. /\ Rising(Path(f), b)
        /\ ~cut[e] => Len(Path(f)) = b - 1 /\ \A i \in 1..Len(Path(f)) : Path(f)[i] = i
    BY <1>3, <2>1, <2>5 DEF InOrder
  <2>7. /\ Len(Path(f)') = Len(Path(f)) + 1 /\ Rising(Path(f)', b + 1)
        /\ ~cut[e] => \A i \in 1..Len(Path(f)') : Path(f)'[i] = i
    BY <1>3, <2>1, <2>4, <2>6, WayExtended
  <2>8. ~cut[e] => Len(Path(f)') = b
    BY <1>3, <2>6, <2>7
  <2>9. NextByte(e)' = b + 1 /\ cut'[e] = cut[e]
    BY <1>4, <2>5
  <2>10. InOrder(f)'
    BY <1>3, <2>1, <2>7, <2>8, <2>9 DEF InOrder
  <2> QED BY <2>10 DEF f
<1> QED BY <1>4, <1>5, <1>6, <1>7, TwoEnds

LEMMA NextKInv ==
  ASSUME KInv, [Next]_vars
  PROVE  KInv'
<1>1. Flags'
  BY FlagsStep
<1>2. CASE UNCHANGED vars
  <2>1. UNCHANGED <<sendCaceh, part, sent, cut, got, recaveCaceh, kernel, scfd>>
    BY <1>2 DEF vars, threads, sending, reading
  <2>2. \A f \in Ends : Shut(f) => Shut(f)'
    BY <2>1 DEF Shut
  <2> QED BY <1>1, <2>1, <2>2, Still DEF KInv
<1>3. CASE Next
  <2>1. PICK e \in Ends :
          \/ ConnectToHost(e) \/ Accept(e) \/ Bind(e)
          \/ SendTest(e) \/ SendPush(e) \/ Recve(e)
          \/ Wake(e) \/ OnRecve(e) \/ OnSend(e) \/ SendSignalled(e)
          \/ EpollEnds(e) \/ Destroy(e) \/ Drop(e)
    BY <1>3 DEF Next
  <2>2. ~ub
    BY <1>3 DEF Next
  <2>3. \A f \in Ends : Queued(f)' /\ InOrder(f)'
    BY <2>1, <2>2, StillSteps, PushWay, RecveWay, ChunkWay, PassWay, ShortWay, DropWay
    DEF OnRecve, OnSend, SendSignalled
  <2> QED BY <1>1, <2>3 DEF KInv
<1> QED BY <1>2, <1>3

-----------------------------------------------------------------------------
(* Theorems *)

\* KInv holds in every state two sockets can reach.
THEOREM Invariance == Spec => []KInv
<1>1. KInv /\ [Next]_vars => KInv'
  BY NextKInv
<1> QED BY <1>1, InitKInv, PTL DEF Spec

\* Every variable keeps its type, and a kernel never takes more than Room.
THEOREM TypeCorrect == Spec => []TypeOK
<1>1. KInv => TypeOK
  BY DEF KInv, Flags
<1> QED BY <1>1, Invariance, PTL

\* Boxes of an open socket are never left without EPOLLOUT, although send and
\* onSend set the interest from different threads.
THEOREM BoxesAreArmed == Spec => []InterestFollowsCache
<1>1. KInv => InterestFollowsCache
  BY DEF KInv, Flags
<1> QED BY <1>1, Invariance, PTL

\* What onRecve has cached on an open socket is announced, or was announced to
\* nobody.
THEOREM DataIsAnnounced == Spec => []NoSilentData
<1>1. KInv => NoSilentData
  BY DEF KInv, Flags
<1> QED BY <1>1, Invariance, PTL

\* Two ends that have filled each other up never free themselves: without a
\* signal or a close the jam lasts.
THEOREM JamsLast == Spec => JamLasts
<1>1. KInv /\ [Next]_vars =>
        (Jammed => Jammed' \/ CutsABox \/ \E e \in Ends : scfd'[e] # "open")
  <2> SUFFICES ASSUME KInv, [Next]_vars, Jammed
               PROVE  Jammed' \/ CutsABox \/ \E e \in Ends : scfd'[e] # "open"
    OBVIOUS
  <2>1. CASE UNCHANGED vars
    BY <2>1 DEF Jammed, vars, threads, sending, reading
  <2>2. CASE Next
    <3>1. PICK e \in Ends :
            \/ ConnectToHost(e) \/ Accept(e) \/ Bind(e)
            \/ SendTest(e) \/ SendPush(e) \/ Recve(e)
            \/ Wake(e) \/ OnRecve(e) \/ OnSend(e) \/ SendSignalled(e)
            \/ EpollEnds(e) \/ Destroy(e) \/ Drop(e)
      BY <2>2 DEF Next
    <3>2. /\ scfd[e] = "open" /\ interest[e] = "OUT" /\ sendCaceh[e] # <<>>
          /\ epoll[e] \in {"wait", "send", "ended"} /\ ~Reset(e) /\ ~Reset(Peer(e))
          /\ Len(kernel[Peer(e)]) = Room
      BY TwoEnds DEF Jammed, Reset, Shut
    <3>3. CASE Bind(e) \/ SendTest(e) \/ Recve(e) \/ SendInterrupted(e)
      BY <3>3 DEF Bind, SendTest, Recve, SendInterrupted, Goes, Jammed, threads, sending,
                  reading, KInv, Flags, TypeOK
    <3>4. CASE SendPush(e)
      <4>1. \A f \in Ends : sendCaceh[f] # <<>> => sendCaceh'[f] # <<>>
        <5>1. PICK n \in Sizes :
                sendCaceh' = [sendCaceh EXCEPT ![e] = Append(@, [from |-> sent[e] + 1,
                                                                to |-> sent[e] + n])]
          BY <3>4 DEF SendPush
        <5>2. Append(sendCaceh[e], [from |-> sent[e] + 1, to |-> sent[e] + n]) # <<>>
          <6>1. /\ sendCaceh[e] \in Seq(Boxes) /\ sent[e] \in Nat
                /\ [from |-> sent[e] + 1, to |-> sent[e] + n] \in Boxes
            BY SizesAssumption DEF KInv, Flags, TypeOK, Boxes
          <6> QED BY <6>1, AppendProperties
        <5> QED BY <5>1, <5>2 DEF KInv, Flags, TypeOK
      <4>2. \A f \in Ends : interest'[f] = interest[f] \/ interest'[f] = "OUT"
        BY <3>4 DEF SendPush, KInv, Flags, TypeOK
      <4> QED BY <3>4, <4>1, <4>2 DEF SendPush, Jammed
    <3>5. CASE SendShort(e)
      <4>1. cut'[e] /\ Len(sendCaceh'[e]) < Len(sendCaceh[e])
        <5>1. sendCaceh[e] \in Seq(Boxes) /\ sendCaceh'[e] = Tail(sendCaceh[e]) /\ cut'[e]
          BY <3>5 DEF SendShort, PopFront, KInv, Flags, TypeOK
        <5>2. Len(Tail(sendCaceh[e])) = Len(sendCaceh[e]) - 1 /\ Len(sendCaceh[e]) \in Nat
          BY <3>2, <5>1, HeadTailProperties, LenProperties
        <5> QED BY <5>1, <5>2
      <4> QED BY <4>1 DEF CutsABox
    <3>6. CASE EpollEnds(e) \/ Wake(e)
      <4>1. /\ UNCHANGED <<scfd, interest, sendCaceh, kernel>>
            /\ \E v \in {"send", "ended"} : epoll' = [epoll EXCEPT ![e] = v]
        BY <3>2, <3>6 DEF EpollEnds, Wake, Goes, sending, reading
      <4>2. \A f \in Ends : epoll'[f] \in {epoll[f], "send", "ended"}
        BY <4>1 DEF KInv, Flags, TypeOK
      <4> QED BY <4>1, <4>2 DEF Jammed
    <3>7. CASE SendKills(e) \/ SendFails(e) \/ Drop(e)
      BY <3>2, <3>7 DEF SendKills, SendFails, Drop
    <3>8. CASE Destroy(e)
      BY <3>8 DEF Destroy, KInv, Flags, TypeOK
    <3>9. CASE ConnectToHost(e) \/ Accept(e) \/ OnRecve(e)
      BY <3>2, <3>9 DEF ConnectToHost, Accept, OnRecve, RecvChunk, RecvAgain, RecvEnd, Goes
    <3>10. CASE KernelTakes(e) \/ SendDone(e) \/ SendMod(e)
      BY <3>2, <3>10, SizesAssumption DEF KernelTakes, SendDone, SendMod, Goes
    <3> QED BY <3>1, <3>3, <3>4, <3>5, <3>6, <3>7, <3>8, <3>9, <3>10
            DEF OnSend, SendSignalled
  <2> QED BY <2>1, <2>2
<1> QED BY <1>1, Invariance, PTL DEF Spec, JamLasts

\* The two sockets keep the promise of Stream: what an application takes is
\* what the other one sent, in order, nothing twice, and without a gap while no
\* box of the sender was cut.
THEOREM Refinement == Spec => ImplementsStream
<1>1. Init => Promise!Init
  BY DEF Init, Promise!Init
<1>2. KInv /\ KInv' /\ [Next]_vars => [Promise!Next]_(Promise!vars)
  <2> SUFFICES ASSUME KInv, KInv', [Next]_vars
               PROVE  [Promise!Next]_(Promise!vars)
    OBVIOUS
  <2> USE DEF Promise!vars
  <2>1. CASE UNCHANGED vars
    BY <2>1 DEF vars, sending, reading
  <2>2. ASSUME NEW e \in Ends, Recve(e)
        PROVE  Promise!Take(e)
    <3>1. /\ got'[e] = got[e] \o recaveCaceh[e]
          /\ \A f \in Ends \ {e} : got'[f] = got[f]
          /\ UNCHANGED <<sent, cut>>
      BY <2>2 DEF Recve, sending, KInv, Flags, TypeOK
    <3>2. got[e] \in Seq(Nat) /\ recaveCaceh[e] \in Seq(Nat)
      BY DEF KInv, Flags, TypeOK
    <3>3. /\ Len(got'[e]) >= Len(got[e])
          /\ \A i \in 1..Len(got[e]) : got'[e][i] = got[e][i]
      <4>1. Len(got[e]) \in Nat /\ Len(recaveCaceh[e]) \in Nat
        BY <3>2
      <4>2. /\ Len(got[e] \o recaveCaceh[e]) = Len(got[e]) + Len(recaveCaceh[e])
            /\ \A i \in 1..Len(got[e]) + Len(recaveCaceh[e]) :
                 (got[e] \o recaveCaceh[e])[i]
                   = IF i <= Len(got[e]) THEN got[e][i] ELSE recaveCaceh[e][i - Len(got[e])]
        BY <3>2, ConcatProperties
      <4>3. \A m, k \in Nat : /\ m + k >= m
                              /\ \A i \in 1..m : i \in 1..m + k /\ i <= m
        OBVIOUS
      <4>4. Len(got'[e]) >= Len(got[e])
        BY <3>1, <4>1, <4>2, <4>3
      <4>5. ASSUME NEW i \in 1..Len(got[e]) PROVE got'[e][i] = got[e][i]
        BY <3>1, <4>1, <4>2, <4>3, Zenon
      <4> QED BY <4>4, <4>5
    <3> DEFINE p == Peer(e)
               g == got[e] \o recaveCaceh[e]
    <3>4. p \in Ends /\ sent[p] \in Nat /\ NextByte(p) \in 1..sent[p] + 1
      BY TwoEnds, NextByteBound DEF KInv, Flags, TypeOK
    <3>5. /\ Rising(Path(e), NextByte(p))
          /\ ~cut[p] => \A i \in 1..Len(Path(e)) : Path(e)[i] = i
      BY DEF KInv, InOrder
    <3>6. /\ g \in Seq(Nat) /\ Len(g) \in Nat /\ Len(g) <= Len(Path(e)) /\ Len(Path(e)) \in Nat
          /\ \A i \in 1..Len(g) : g[i] = Path(e)[i]
      <4>1. g \in Seq(Nat) /\ kernel[e] \in Seq(Nat) /\ Path(e) = g \o kernel[e]
        BY PathTypes DEF KInv, Path
      <4> HIDE DEF g
      <4>2. Len(g) \in Nat /\ Len(kernel[e]) \in Nat
        BY <4>1
      <4> QED BY <4>1, <4>2, ConcatProperties
    <3> HIDE DEF g, p
    <3>7. Promise!Legal(g, sent[p], ~cut[p])
      <4>1. \A i \in 1..Len(g) : i \in 1..Len(Path(e))
        BY <3>6
      <4>2. \A i, j \in 1..Len(g) : i < j => g[i] < g[j]
        BY <3>5, <3>6, <4>1 DEF Rising
      <4>3. ASSUME NEW i \in 1..Len(g) PROVE g[i] \in 1..sent[p]
        <5>1. Path(e)[i] \in 1..NextByte(p) - 1 /\ g[i] = Path(e)[i]
          BY <3>5, <3>6, <4>1 DEF Rising
        <5> QED BY <3>4, <5>1
      <4>4. ~cut[p] => \A i \in 1..Len(g) : g[i] = i
        BY <3>5, <3>6, <4>1
      <4> QED BY <4>2, <4>3, <4>4 DEF Promise!Legal
    <3>8. Promise!Peer(e) = p
      BY DEF p, Peer, Promise!Peer
    <3> QED BY <3>1, <3>3, <3>7, <3>8 DEF Promise!Take, g
  <2>3. ASSUME NEW e \in Ends, SendPush(e)
        PROVE  Promise!Send(e)
    BY <2>3, SizesAssumption DEF SendPush, Promise!Send, reading, KInv, Flags, TypeOK
  <2>4. ASSUME NEW e \in Ends, SendShort(e)
        PROVE  Promise!Cut(e)
    BY <2>4 DEF SendShort, Promise!Cut, reading
  <2>5. ASSUME NEW e \in Ends,
               \/ ConnectToHost(e) \/ Accept(e) \/ Bind(e) \/ SendTest(e) \/ Wake(e)
               \/ OnRecve(e) \/ SendInterrupted(e) \/ KernelTakes(e) \/ SendFails(e)
               \/ SendKills(e) \/ SendDone(e) \/ SendMod(e) \/ EpollEnds(e)
               \/ Destroy(e) \/ Drop(e)
        PROVE  UNCHANGED <<sent, got, cut>>
    BY <2>5 DEF ConnectToHost, Accept, Bind, SendTest, Wake, OnRecve, RecvChunk, RecvAgain,
                RecvEnd, SendInterrupted, KernelTakes, SendFails, SendKills, SendDone, SendMod,
                EpollEnds, Destroy, Drop, sending, reading
  <2>6. CASE Next
    <3>1. PICK e \in Ends :
            \/ ConnectToHost(e) \/ Accept(e) \/ Bind(e)
            \/ SendTest(e) \/ SendPush(e) \/ Recve(e)
            \/ Wake(e) \/ OnRecve(e) \/ OnSend(e) \/ SendSignalled(e)
            \/ EpollEnds(e) \/ Destroy(e) \/ Drop(e)
      BY <2>6 DEF Next
    <3> QED BY <3>1, <2>2, <2>3, <2>4, <2>5 DEF OnSend, SendSignalled, Promise!Next
  <2> QED BY <2>1, <2>6
<1> QED BY <1>1, <1>2, Invariance, PTL DEF Spec, Promise!Spec, ImplementsStream
=============================================================================
