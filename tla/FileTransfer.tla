---------------------------- MODULE FileTransfer ----------------------------
(***************************************************************************)
(* Filep2p sends files in chunks through one socket; recaveFile takes the  *)
(* packages out of the framing and SaveFile writes them through the one    *)
(* ofstream of the receiving process.  A file is Chunks[f] chunks that     *)
(* fill the read buffer and a rest, which may be empty.                    *)
(*                                                                         *)
(* The sender's handlers run on its one loop, the receiver's on its own.   *)
(* ub: a job uses its socket after that was freed.                         *)
(***************************************************************************)
EXTENDS Framing

CONSTANTS Files, Chunks, Rest,
          MaxSends,  \* bound on the jobs for each file
          MaxBox,    \* the longest box onRecve makes
          MayClose,  \* the connection may break
          None       \* no file

ASSUME FilesAssumption == None \notin Files /\ Chunks \in [Files -> Nat]
ASSUME RestAssumption == Rest \in [Files -> BOOLEAN]
ASSUME SendsAssumption == MaxSends \in [Files -> Nat] /\ MaxBox \in Nat /\ MayClose \in BOOLEAN

VARIABLES
  sends,      \* jobs begun so far, for each file
  sendJob,    \* running jobs: file and chunks read
  send_signal,\* events of send_signal in the loop
  work,       \* the job SlotOnSendWork is at, 0 outside
  socket,     \* of the jobs: "open", "closed", or "freed"
  node,       \* is the socket in nodes
  pkgs,       \* what each package of the stream holds
  loop,       \* is recaveFile running
  opened,     \* the file tso.out is open for, or None
  bad,        \* tso.out has failbit or badbit
  disk,       \* the chunks in each saved file
  begun,      \* history: jobs begun since there was none running
  most,       \* history: the most that begun has been
  last,       \* history: the package SaveFile was called for last, 0 at first
  ub

sender == <<sends, sendJob, send_signal, work, begun, most>>
link == <<socket, node>>
receiver == <<loop, opened, bad, disk, last>>
vars == <<framing, sender, link, pkgs, receiver, ub>>

Data == [file : Files, chunk : Nat]
Packages == [file : Files, chunk : Nat, st_s : {"BEGIN", "BODY"}, end : BOOLEAN]

TransferTypeOK ==
  /\ TypeOK
  /\ sends \in [Files -> Nat] /\ send_signal \in Nat
  /\ sendJob \in Seq([file : Files, read : Nat]) /\ work \in 0..Len(sendJob) + 1
  /\ socket \in {"open", "closed", "freed"} /\ node \in BOOLEAN
  /\ pkgs \in Seq(Packages) /\ Len(pkgs) = Len(cut)
  /\ loop \in BOOLEAN /\ opened \in Files \cup {None} /\ bad \in BOOLEAN
  /\ disk \in [Files -> Seq(Data)]
  /\ begun \in Nat /\ most \in Nat /\ last \in Nat /\ ub \in BOOLEAN

TransferInit ==
  /\ Init
  /\ sends = [f \in Files |-> 0] /\ sendJob = <<>> /\ send_signal = 0 /\ work = 0
  /\ socket = "open" /\ node = TRUE
  /\ pkgs = <<>>
  /\ loop = FALSE /\ opened = None /\ bad = FALSE
  /\ disk = [f \in Files |-> <<>>]
  /\ begun = 0 /\ most = 0 /\ last = 0 /\ ub = FALSE

-----------------------------------------------------------------------------
(* The sender *)

\* SendFile and, later in the loop, SlotOnNewSend, which does nothing if the
\* peer is not in nodes or the file does not open.
SlotOnNewSend(f) ==
  /\ sends[f] < MaxSends[f] /\ work = 0 /\ node
  /\ sends' = [sends EXCEPT ![f] = @ + 1]
  /\ sendJob' = Append(sendJob, [file |-> f, read |-> 0])
  /\ send_signal' = send_signal + 1
  /\ begun' = IF sendJob = <<>> THEN 1 ELSE begun + 1
  /\ most' = IF begun' > most THEN begun' ELSE most
  /\ UNCHANGED <<framing, work, link, pkgs, receiver, ub>>

\* SlotOnSendWork begins: the loop over the jobs.
WorkBegins ==
  /\ work = 0 /\ send_signal > 0
  /\ send_signal' = send_signal - 1
  /\ work' = 1
  /\ UNCHANGED <<framing, sends, sendJob, begun, most, link, pkgs, receiver, ub>>

\* A sender that does not count the bytes it has sent.
NextPackageUncounted(f, r) ==
  [file |-> f, chunk |-> r + 1, st_s |-> "BEGIN", end |-> r = Chunks[f]]

\* The package after r chunks of f; ReadFile sets isEnd when the chunk does
\* not fill the buffer.
NextPackage(f, r) ==
  [file |-> f, chunk |-> r + 1, st_s |-> IF r = 0 THEN "BEGIN" ELSE "BODY",
   end |-> r = Chunks[f]]

Without(s, i) == SubSeq(s, 1, i - 1) \o SubSeq(s, i + 1, Len(s))

\* One job of the loop: a chunk of its file, sent if the socket is open, and
\* the job erased with its last chunk.
WorkOn ==
  /\ work \in 1..Len(sendJob)
  /\ LET j == sendJob[work]
         p == NextPackage(j.file, j.read)
     IN /\ \/ /\ socket = "open"
              /\ \E n \in Sizes : Serialize(n)
              /\ pkgs' = Append(pkgs, p)
              /\ UNCHANGED ub
           \/ /\ socket # "open"
              /\ ub' = (socket = "freed")
              /\ UNCHANGED <<framing, pkgs>>
        /\ IF p.end
           THEN sendJob' = Without(sendJob, work) /\ UNCHANGED work
           ELSE /\ sendJob' = [sendJob EXCEPT ![work].read = @ + 1]
                /\ work' = work + 1
  /\ UNCHANGED <<sends, send_signal, begun, most, link, receiver>>

\* A handler that leaves it to SlotOnNewSend to emit.
WorkEndsQuietly ==
  /\ work > Len(sendJob)
  /\ work' = 0
  /\ UNCHANGED <<framing, sends, sendJob, send_signal, begun, most, link, pkgs, receiver, ub>>

\* The loop is done; send_signal.emit if jobs are left.
WorkEnds ==
  /\ work > Len(sendJob)
  /\ work' = 0
  /\ send_signal' = IF sendJob # <<>> THEN send_signal + 1 ELSE send_signal
  /\ UNCHANGED <<framing, sends, sendJob, begun, most, link, pkgs, receiver, ub>>

\* The epoll thread closes the socket; the handler of disconnected erases it
\* from nodes, and frees it if the handshake's task does not hold it as well.
SocketCloses == /\ MayClose /\ socket = "open" /\ socket' = "closed"
                /\ UNCHANGED <<framing, sender, node, pkgs, receiver, ub>>

SlotDisconnected == /\ socket = "closed" /\ node /\ work = 0
                    /\ node' = FALSE
                    /\ socket' \in {"closed", "freed"}
                    /\ UNCHANGED <<framing, sender, pkgs, receiver, ub>>

-----------------------------------------------------------------------------
(* The receiver *)

\* recaveFile: Push, then GetPackage as long as it returns OK.
RecaveFile ==
  /\ ~loop /\ loop' = TRUE
  /\ \E n \in 1..MaxBox : Push(n)
  /\ UNCHANGED <<sender, link, pkgs, opened, bad, disk, last, ub>>

RecaveStep ==
  /\ loop /\ InGetPackage
  /\ UNCHANGED <<sender, link, pkgs, receiver, ub>>

\* Any answer but OK ends recaveFile.
RecaveStops ==
  /\ answer \in {"NOTCOM", "PASEFAIL"} /\ Dealt
  /\ loop' = FALSE
  /\ UNCHANGED <<sender, link, pkgs, opened, bad, disk, last, ub>>

\* The chunk of a package, unless it is the empty rest of its file.
DataOf(p) == IF p.chunk <= Chunks[p.file] \/ Rest[p.file]
             THEN <<[file |-> p.file, chunk |-> p.chunk]>> ELSE <<>>

\* ofstream::open succeeds, and truncates, if no file is open.
Opens(p) == p.st_s = "BEGIN" /\ opened = None

\* An open that fails without a trace in the flags.
FailsUnmarked(p) == ~Opens(p) /\ opened = None

\* The output of p is lost: the open failed, now or before, or nothing is open.
Fails(p) == ~Opens(p) /\ (bad \/ p.st_s = "BEGIN" \/ opened = None)

\* open, output of the data, close at the end.  Only an open that succeeds
\* clears the flags.
SaveFile(p) ==
  LET file == IF Opens(p) THEN p.file ELSE opened
      old == IF Opens(p) THEN <<>> ELSE disk[file]
  IN /\ disk' = IF Fails(p) THEN disk ELSE [disk EXCEPT ![file] = old \o DataOf(p)]
     /\ bad' = Fails(p)
     /\ opened' = IF p.end THEN None ELSE file

\* A loop that returns after every file it has begun.
StopsAtBegin(p) == p.st_s = "BEGIN" \/ p.end

\* recaveFile returns when SaveFile has seen the end of a file.
StopsAfter(p) == p.end

RecaveSaves ==
  /\ answer = "OK" /\ Dealt
  /\ LET k == out[Len(out)]
     IN /\ SaveFile(pkgs[k])
        /\ last' = k
        /\ loop' = ~StopsAfter(pkgs[k])
  /\ UNCHANGED <<sender, link, pkgs, ub>>

TransferNext ==
  ~ub /\ \/ \E f \in Files : SlotOnNewSend(f)
         \/ WorkBegins \/ WorkOn \/ WorkEnds \/ SocketCloses \/ SlotDisconnected
         \/ RecaveFile \/ RecaveStep \/ RecaveStops \/ RecaveSaves

TransferSpec == TransferInit /\ [][TransferNext]_vars

\* The two loops; TCP brings what was sent.
FairTransfer ==
  TransferSpec /\ WF_vars(~ub /\ (WorkBegins \/ WorkOn \/ WorkEnds))
               /\ WF_vars(~ub /\ (RecaveFile \/ RecaveStep \/ RecaveStops \/ RecaveSaves))

-----------------------------------------------------------------------------
(* Properties *)

Whole == {k \in 1..Len(cut) : cut[k] <= fed}

\* recaveFile leaves a complete package in the framing only behind the end of
\* a file, where it waits for the next box.
WaitsOnlyAfterEnd ==
  ~loop /\ Len(out) + 1 \in Whole => last # 0 /\ pkgs[last].end

Content(f) == [i \in 1..Chunks[f] + (IF Rest[f] THEN 1 ELSE 0) |->
                 [file |-> f, chunk |-> i]]

\* A job was begun before the last had ended.
overlapped == most > 1

\* When no two jobs have overlapped, a file whose last package was saved is
\* on the disk from its first chunk to its last.
AloneIsWhole ==
  last # 0 /\ ~overlapped /\ pkgs[last].end /\ answer = "none"
    => disk[pkgs[last].file] = Content(pkgs[last].file)

\* As long as no third job is begun before all have ended, overlapping jobs may
\* lose the ends of files, but never put a chunk where it does not belong: the
\* second open fails and takes all output with it until the next one.
TwoNeverMix ==
  most <= 2 =>
    \A f \in Files : \A i \in 1..Len(disk[f]) : disk[f][i] = [file |-> f, chunk |-> i]

\* Every job comes to its end: a pass over the jobs is always followed by
\* another one while there are any.
JobsFinish == (sendJob # <<>>) ~> (sendJob = <<>> \/ ub)
=============================================================================
