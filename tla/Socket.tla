------------------------------- MODULE Socket -------------------------------
(***************************************************************************)
(* The two LinuxTCPSockets of one connection, each in a process of its own *)
(* with one epoll thread and the application's threads.  Client has called *)
(* connectToHost; the other end is made by accept.                         *)
(*                                                                         *)
(* Bytes are numbered per sender; a box is the interval of bytes it holds. *)
(* kernel[e] is what TCP keeps for end e: at most Room bytes.  ub: a       *)
(* socket is destroyed while a thread is in it.                            *)
(***************************************************************************)
EXTENDS Integers, Sequences, FiniteSets

CONSTANTS Ends,     \* the two ends
          Client,   \* the one that connects
          Sizes,    \* sizes of the boxes the applications send
          MaxBytes, \* bound on the bytes each end sends
          Room,     \* bytes the kernel takes for an end that does not read
          MayBreak  \* signals, resets, SIGPIPE and destructors happen

ASSUME EndsAssumption == IsFiniteSet(Ends) /\ Cardinality(Ends) = 2 /\ Client \in Ends
ASSUME SizesAssumption == Sizes \subseteq Nat \ {0} /\ Room \in Nat \ {0}
ASSUME BoundsAssumption == MaxBytes \in [Ends -> Nat] /\ MayBreak \in BOOLEAN

VARIABLES
  scfd,        \* "none" yet, "open", "closed", or the object's or process's end
  epoll,       \* where the epoll thread is
  interest,    \* the event the descriptor is in the epoll set for
  pushing,     \* a send has tested scfd and not yet taken the lock
  sendCaceh,   \* boxes still to send, as intervals
  part,        \* bytes of the front box the running ::send has passed on
  kernel,      \* bytes on their way to each end
  recaveCaceh, \* bytes onRecve has read
  bound,       \* does readReady have its slot
  events,      \* readReady events in the loop
  sent,        \* bytes the application has passed to send
  got,         \* history: bytes the application has taken
  missed,      \* history: onRecve has announced bytes to nobody
  cut,         \* history: the rest of a box was dropped
  ub

threads == <<scfd, epoll, interest, pushing>>
sending == <<sendCaceh, part, sent, cut>>
reading == <<recaveCaceh, bound, events, got, missed>>
vars == <<threads, sending, kernel, reading, ub>>

Peer(e) == CHOOSE f \in Ends : f # e
Boxes == [from : Nat, to : Nat]

TypeOK ==
  /\ scfd \in [Ends -> {"none", "open", "closed", "destroyed", "killed"}]
  /\ epoll \in [Ends -> {"wait", "recv", "send", "mod", "ended"}]
  /\ interest \in [Ends -> {"IN", "OUT"}]
  /\ pushing \in [Ends -> BOOLEAN]
  /\ sendCaceh \in [Ends -> Seq(Boxes)]
  /\ part \in [Ends -> Nat]
  /\ \A e \in Ends : part[e] > 0 => /\ epoll[e] = "send" /\ sendCaceh[e] # <<>>
                                   /\ Head(sendCaceh[e]).from + part[e]
                                        <= Head(sendCaceh[e]).to
  /\ kernel \in [Ends -> Seq(Nat)]
  /\ \A e \in Ends : Len(kernel[e]) <= Room
  /\ recaveCaceh \in [Ends -> Seq(Nat)] /\ got \in [Ends -> Seq(Nat)]
  /\ bound \in [Ends -> BOOLEAN] /\ missed \in [Ends -> BOOLEAN]
  /\ events \in [Ends -> Nat] /\ sent \in [Ends -> Nat]
  /\ cut \in [Ends -> BOOLEAN] /\ ub \in BOOLEAN

Init ==
  /\ scfd = [e \in Ends |-> "none"] /\ epoll = [e \in Ends |-> "wait"]
  /\ interest = [e \in Ends |-> "IN"] /\ pushing = [e \in Ends |-> FALSE]
  /\ sendCaceh = [e \in Ends |-> <<>>] /\ part = [e \in Ends |-> 0]
  /\ kernel = [e \in Ends |-> <<>>] /\ recaveCaceh = [e \in Ends |-> <<>>]
  /\ bound = [e \in Ends |-> FALSE] /\ events = [e \in Ends |-> 0]
  /\ sent = [e \in Ends |-> 0] /\ got = [e \in Ends |-> <<>>]
  /\ missed = [e \in Ends |-> FALSE] /\ cut = [e \in Ends |-> FALSE]
  /\ ub = FALSE

\* The descriptor of e is closed, by whichever way.
Shut(e) == scfd[e] \in {"closed", "destroyed", "killed"}

\* Bytes have come to an end that is closed: its kernel answers with a reset.
Reset(e) == Shut(e) /\ kernel[e] # <<>>

Goes(e, from, to) == epoll[e] = from /\ epoll' = [epoll EXCEPT ![e] = to]

-----------------------------------------------------------------------------
(* Setting up *)

\* connectToHost; one that fails leaves things as they were.
ConnectToHost(e) ==
  /\ e = Client /\ scfd[e] = "none"
  /\ scfd' = [scfd EXCEPT ![e] = "open"]
  /\ UNCHANGED <<epoll, interest, pushing, sending, kernel, reading, ub>>

\* accept, on the epoll thread: bindEPOLL, and the handlers of connected,
\* which it waits for, connect readReady.
Accept(e) ==
  /\ e # Client /\ scfd[e] = "none" /\ scfd[Peer(e)] # "none" /\ epoll[e] = "wait"
  /\ scfd' = [scfd EXCEPT ![e] = "open"]
  /\ bound' = [bound EXCEPT ![e] = TRUE]
  /\ UNCHANGED <<epoll, interest, pushing, sending, kernel, recaveCaceh, events, got,
                 missed, ub>>

\* Who has called connectToHost connects readReady only then.
Bind(e) ==
  /\ scfd[e] \in {"open", "closed"} /\ ~bound[e]
  /\ bound' = [bound EXCEPT ![e] = TRUE]
  /\ UNCHANGED <<threads, sending, kernel, recaveCaceh, events, got, missed, ub>>

-----------------------------------------------------------------------------
(* send *)

\* A lock that onSend gives back before it changes the interest.
SendLockedShort(e) == epoll[e] = "send"

\* onSend holds send_cache_lock.
SendLocked(e) == epoll[e] \in {"send", "mod"}

\* send reads scfd.
SendTest(e) ==
  /\ scfd[e] = "open" /\ ~pushing[e] /\ sent[e] < MaxBytes[e]
  /\ pushing' = [pushing EXCEPT ![e] = TRUE]
  /\ UNCHANGED <<scfd, epoll, interest, sending, kernel, reading, ub>>

\* A send that leaves the interest to somebody else.
SendPushUnarmed(e) ==
  /\ pushing[e] /\ ~SendLocked(e) /\ scfd[e] \in {"open", "closed"}
  /\ \E n \in Sizes :
       /\ sent[e] + n <= MaxBytes[e]
       /\ sendCaceh' = [sendCaceh EXCEPT ![e] = Append(@, [from |-> sent[e] + 1,
                                                          to |-> sent[e] + n])]
       /\ sent' = [sent EXCEPT ![e] = @ + n]
  /\ pushing' = [pushing EXCEPT ![e] = FALSE]
  /\ UNCHANGED <<scfd, epoll, interest, part, cut, kernel, reading, ub>>

\* The rest of send under the lock; Mod fails if scfd has been closed since.
SendPush(e) ==
  /\ pushing[e] /\ ~SendLocked(e) /\ scfd[e] \in {"open", "closed"}
  /\ \E n \in Sizes :
       /\ sent[e] + n <= MaxBytes[e]
       /\ sendCaceh' = [sendCaceh EXCEPT ![e] = Append(@, [from |-> sent[e] + 1,
                                                          to |-> sent[e] + n])]
       /\ sent' = [sent EXCEPT ![e] = @ + n]
  /\ pushing' = [pushing EXCEPT ![e] = FALSE]
  /\ interest' = IF scfd[e] = "open" THEN [interest EXCEPT ![e] = "OUT"] ELSE interest
  /\ UNCHANGED <<scfd, epoll, part, cut, kernel, reading, ub>>

\* A recve that returns the first byte only.
RecveFront(e) ==
  /\ events[e] > 0 /\ epoll[e] # "recv" /\ scfd[e] \in {"open", "closed"}
  /\ events' = [events EXCEPT ![e] = @ - 1]
  /\ got' = [got EXCEPT ![e] = @ \o SubSeq(recaveCaceh[e], 1, 1)]
  /\ recaveCaceh' = [recaveCaceh EXCEPT ![e] = SubSeq(@, 2, Len(@))]
  /\ missed' = [missed EXCEPT ![e] = FALSE]
  /\ UNCHANGED <<threads, sending, kernel, bound, ub>>

\* recve, called for one event of readReady.  It waits for onRecve's lock.
Recve(e) ==
  /\ events[e] > 0 /\ epoll[e] # "recv" /\ scfd[e] \in {"open", "closed"}
  /\ events' = [events EXCEPT ![e] = @ - 1]
  /\ got' = [got EXCEPT ![e] = @ \o recaveCaceh[e]]
  /\ recaveCaceh' = [recaveCaceh EXCEPT ![e] = <<>>]
  /\ missed' = [missed EXCEPT ![e] = FALSE]
  /\ UNCHANGED <<threads, sending, kernel, bound, ub>>

-----------------------------------------------------------------------------
(* The epoll thread *)

Readable(e) == kernel[e] # <<>> \/ Shut(Peer(e))
Writable(e) == Len(kernel[Peer(e)]) < Room \/ Reset(Peer(e))

\* An epoll set that keeps EPOLLIN when it is given EPOLLOUT.
WakeBoth(e) ==
  /\ scfd[e] = "open"
  /\ \/ Readable(e) /\ Goes(e, "wait", "recv")
     \/ interest[e] = "OUT" /\ Writable(e) /\ Goes(e, "wait", "send")
  /\ UNCHANGED <<scfd, interest, pushing, sending, kernel, reading, ub>>

\* epoll_wait returns with EPOLLIN or EPOLLOUT, and run calls onRecve or
\* onSend, which finds scfd open and takes its lock.
Wake(e) ==
  /\ scfd[e] = "open"
  /\ \/ interest[e] = "IN" /\ Readable(e) /\ Goes(e, "wait", "recv")
     \/ interest[e] = "OUT" /\ Writable(e) /\ Goes(e, "wait", "send")
  /\ UNCHANGED <<scfd, interest, pushing, sending, kernel, reading, ub>>

\* One ::recv: what fits the buffer, at most all there is.
RecvChunk(e) ==
  /\ epoll[e] = "recv"
  /\ \E n \in 1..Len(kernel[e]) :
       /\ recaveCaceh' = [recaveCaceh EXCEPT ![e] = @ \o SubSeq(kernel[e], 1, n)]
       /\ kernel' = [kernel EXCEPT ![e] = SubSeq(@, n + 1, Len(@))]
  /\ UNCHANGED <<threads, sending, bound, events, got, missed, ub>>

\* EAGAIN: readReady.emit, for nobody if it has no slot yet.
RecvAgain(e) ==
  /\ kernel[e] = <<>> /\ ~Shut(Peer(e)) /\ Goes(e, "recv", "wait")
  /\ events' = [events EXCEPT ![e] = IF bound[e] THEN @ + 1 ELSE @]
  /\ missed' = [missed EXCEPT ![e] = @ \/ ~bound[e]]
  /\ UNCHANGED <<scfd, interest, pushing, sending, kernel, recaveCaceh, bound, got, ub>>

\* close and disconnected.emit, whatever has been read or is still to be sent.
Close(e) == scfd' = [scfd EXCEPT ![e] = "closed"]

\* A 0 taken for one more reason to try later.
RecvEndIgnored(e) ==
  /\ kernel[e] = <<>> /\ Shut(Peer(e)) /\ Goes(e, "recv", "wait")
  /\ UNCHANGED <<scfd, interest, pushing, sending, kernel, reading, ub>>

\* 0 or an error from ::recv: readReady is not emitted.
RecvEnd(e) ==
  /\ kernel[e] = <<>> /\ Shut(Peer(e)) /\ Goes(e, "recv", "wait")
  /\ Close(e)
  /\ UNCHANGED <<interest, pushing, sending, kernel, reading, ub>>

\* The running ::send passes on one more byte of the front box, and returns
\* when that was the last.
KernelTakes(e) ==
  /\ epoll[e] = "send" /\ sendCaceh[e] # <<>> /\ Len(kernel[Peer(e)]) < Room
  /\ LET box == Head(sendCaceh[e])
         b == box.from + part[e]
     IN /\ kernel' = [kernel EXCEPT ![Peer(e)] = Append(@, b)]
        /\ part' = [part EXCEPT ![e] = IF b = box.to THEN 0 ELSE @ + 1]
        /\ sendCaceh' = [sendCaceh EXCEPT ![e] = IF b = box.to THEN Tail(@) ELSE @]
  /\ UNCHANGED <<threads, sent, cut, reading, ub>>

\* ::send waits for room at an open connection, where a signal may end it.
Waiting(e) ==
  epoll[e] = "send" /\ sendCaceh[e] # <<>> /\ Len(kernel[Peer(e)]) = Room /\ ~Reset(Peer(e))

\* A pop that leaves the offset in the box where it was.
PopFrontOnly(e) == sendCaceh' = [sendCaceh EXCEPT ![e] = Tail(@)] /\ UNCHANGED part

PopFront(e) == /\ sendCaceh' = [sendCaceh EXCEPT ![e] = Tail(@)]
               /\ part' = [part EXCEPT ![e] = 0]

\* An interrupted ::send whose box is popped, although nothing of it was sent.
SendInterruptedPops(e) ==
  /\ MayBreak /\ Waiting(e) /\ part[e] = 0
  /\ Goes(e, "send", "wait")
  /\ PopFront(e)
  /\ UNCHANGED <<scfd, interest, pushing, sent, cut, kernel, reading, ub>>

\* It has passed on nothing: EINTR, and onSend returns.
SendInterrupted(e) ==
  /\ MayBreak /\ Waiting(e) /\ part[e] = 0
  /\ Goes(e, "send", "wait")
  /\ UNCHANGED <<scfd, interest, pushing, sending, kernel, reading, ub>>

\* A short count: the box is popped with what was not sent.
SendShort(e) ==
  /\ part[e] > 0
  /\ PopFront(e)
  /\ cut' = [cut EXCEPT ![e] = TRUE]
  /\ UNCHANGED <<threads, sent, kernel, reading, ub>>

\* ::send finds the connection reset: an error, and close.
SendFails(e) ==
  /\ sendCaceh[e] # <<>> /\ part[e] = 0 /\ Reset(Peer(e)) /\ Goes(e, "send", "wait")
  /\ Close(e)
  /\ UNCHANGED <<interest, pushing, sending, kernel, reading, ub>>

\* Or it raises SIGPIPE, which nobody catches.
SendKills(e) ==
  /\ MayBreak /\ sendCaceh[e] # <<>> /\ part[e] = 0 /\ Reset(Peer(e))
  /\ Goes(e, "send", "ended")
  /\ scfd' = [scfd EXCEPT ![e] = "killed"]
  /\ UNCHANGED <<interest, pushing, sending, kernel, reading, ub>>

\* The cache is empty; Mod(EPOLLIN) follows, still under the lock.
SendDone(e) ==
  /\ sendCaceh[e] = <<>> /\ Goes(e, "send", "mod")
  /\ UNCHANGED <<scfd, interest, pushing, sending, kernel, reading, ub>>

SendMod(e) ==
  /\ Goes(e, "mod", "wait")
  /\ interest' = [interest EXCEPT ![e] = "IN"]
  /\ UNCHANGED <<scfd, pushing, sending, kernel, reading, ub>>

OnRecve(e) == RecvChunk(e) \/ RecvAgain(e) \/ RecvEnd(e)
OnSend(e) ==
  \/ KernelTakes(e) \/ SendFails(e) \/ SendKills(e) \/ SendDone(e) \/ SendMod(e)
  \/ epoll[e] = "send" /\ Reset(Peer(e)) /\ SendShort(e)

-----------------------------------------------------------------------------
(* What breaks a connection *)

\* A signal ends ::send.
SendSignalled(e) == SendInterrupted(e) \/ (MayBreak /\ Waiting(e) /\ SendShort(e))

\* A signal ends epoll_wait, and run returns.
EpollEnds(e) ==
  /\ MayBreak /\ Goes(e, "wait", "ended")
  /\ UNCHANGED <<scfd, interest, pushing, sending, kernel, reading, ub>>

\* The application deletes the socket; its destructor closes it if it is open.
Destroy(e) ==
  /\ MayBreak /\ scfd[e] \in {"open", "closed"}
  /\ scfd' = [scfd EXCEPT ![e] = "destroyed"]
  /\ ub' = (epoll[e] \in {"recv", "send", "mod"} \/ pushing[e])
  /\ UNCHANGED <<epoll, interest, pushing, sending, kernel, reading>>

\* A reset drops what the closed end e had still on its way.
Drop(e) ==
  /\ MayBreak /\ Reset(e)
  /\ \E n \in 0..Len(kernel[Peer(e)]) - 1 :
       kernel' = [kernel EXCEPT ![Peer(e)] = SubSeq(@, 1, n)]
  /\ UNCHANGED <<threads, sending, reading, ub>>

Next == ~ub /\ \E e \in Ends :
  \/ ConnectToHost(e) \/ Accept(e) \/ Bind(e)
  \/ SendTest(e) \/ SendPush(e) \/ Recve(e)
  \/ Wake(e) \/ OnRecve(e) \/ OnSend(e) \/ SendSignalled(e)
  \/ EpollEnds(e) \/ Destroy(e) \/ Drop(e)

Spec == Init /\ [][Next]_vars

\* What the threads of the two processes do by themselves.
Fairness ==
  \A e \in Ends : /\ WF_vars(~ub /\ (Accept(e) \/ Bind(e)))
                  /\ WF_vars(~ub /\ SendPush(e))
                  /\ WF_vars(~ub /\ Recve(e))
                  /\ WF_vars(~ub /\ (Wake(e) \/ OnRecve(e) \/ OnSend(e)))

FairSpec == Spec /\ Fairness

-----------------------------------------------------------------------------
(* Properties *)

\* Boxes of an open socket never wait without EPOLLOUT: send, on any thread,
\* and the end of onSend set the interest in the order of their locks.
InterestFollowsCache ==
  \A e \in Ends : scfd[e] = "open" /\ sendCaceh[e] # <<>> => interest[e] = "OUT"

\* Bytes that onRecve has cached on an open socket are announced by an event
\* still to come, unless readReady had no slot at the time.
NoSilentData ==
  \A e \in Ends : scfd[e] = "open" /\ recaveCaceh[e] # <<>>
                  => events[e] > 0 \/ epoll[e] = "recv" \/ missed[e]

\* Both ends are sending and neither reads: an end with EPOLLOUT has no
\* EPOLLIN, and the kernel has no room left in either direction.
Jammed ==
  \A e \in Ends : /\ scfd[e] = "open" /\ interest[e] = "OUT"
                  /\ epoll[e] \in {"wait", "send", "ended"}
                  /\ sendCaceh[e] # <<>> /\ Len(kernel[e]) = Room

\* The step drops the front box of an end with bytes that were not sent.
CutsABox == \E e \in Ends : Len(sendCaceh'[e]) < Len(sendCaceh[e]) /\ cut'[e]

\* Two ends that have filled each other up stay so until a box is cut or an
\* end goes away: onSend's blocking ::send is the whole process's.
JamLasts == [][Jammed => Jammed' \/ CutsABox \/ \E e \in Ends : scfd'[e] # "open"]_vars

\* The two sockets keep the promise of Stream.
Promise == INSTANCE Stream
ImplementsStream == Promise!Spec

\* An end has gone, or its epoll thread, or bytes, or nobody reads.
Broken ==
  \/ \E e \in Ends : Shut(e) \/ epoll[e] = "ended" \/ cut[e] \/ missed[e]
  \/ Jammed

\* What is passed to send reaches the other application, if nothing breaks.
SentArrives ==
  \A e \in Ends : \A n \in 1..MaxBytes[e] :
    sent[e] >= n ~> (Len(got[Peer(e)]) >= n \/ Broken)

\* An end whose peer is gone finds out and closes, unless nobody runs epoll.
CloseIsNoticed ==
  \A e \in Ends :
    Shut(e) ~> (Shut(Peer(e)) \/ epoll[Peer(e)] = "ended" \/ ub \/ scfd[Peer(e)] = "none")
=============================================================================
