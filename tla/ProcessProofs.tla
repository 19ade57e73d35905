--------------------------- MODULE ProcessProofs ---------------------------
(***************************************************************************)
(* What TLAPS proves of Process, for every set of processes, units and     *)
(* bounds.  The lemmas on single actions are also what the proofs about    *)
(* Pipeline rest on.                                                       *)
(***************************************************************************)
EXTENDS Process, SequenceTheorems, TLAPS

----------------------------------------------------------------------------
(* Streams and chunks.                                                     *)

\* A pipe's index is an owner and the name of one of its streams.
LEMMA EndsArePipes ==
  /\ Ends \subseteq Pipes
  /\ \A p \in Procs : Stdin(p) \in Pipes
  /\ \A p \in Procs, fd \in Fds : <<p, fd>> \in Ends
  /\ \A e \in Ends : e[1] \in Procs /\ e[2] \in Fds
  /\ \A q \in Pipes : q[1] \in Procs /\ (q[2] = "stdin" \/ q \in Ends)
  /\ \A e \in Ends : e[2] # "stdin"
  /\ \A p \in Procs : Stdin(p)[1] = p /\ Stdin(p)[2] = "stdin" /\ Stdin(p) \notin Ends
BY ProcAssumption DEF Ends, Pipes, Stdin

\* A chunk is a non-empty sequence of units.
LEMMA ChunkIsData ==
  ASSUME NEW c \in Chunks
  PROVE  c \in Seq(Data) /\ c # <<>>
<1>1. PICK k \in 1..MaxChunk : c \in [1..k -> Data]
  BY DEF Chunks
<1>2. k \in Nat /\ k # 0
  BY <1>1, ProcAssumption
<1>3. c \in Seq(Data) /\ Len(c) = k
  BY <1>1, <1>2, LenProperties, SeqDef
<1>4. QED
  BY <1>2, <1>3, EmptySeq

\* Taking part of a blocked Write keeps types.
LEMMA TakeType ==
  ASSUME PTypeOK, NEW q \in Pipes, NEW k \in 1..Len(pend[q]), Take(q, k)
  PROVE  /\ recv' \in [Pipes -> Seq(Data)]
         /\ pend' \in [Pipes -> Seq(Data)]
<1>1. pend[q] \in Seq(Data) /\ recv[q] \in Seq(Data)
  BY DEF PTypeOK
<1>2. k \in Nat /\ k <= Len(pend[q]) /\ k >= 1
  BY <1>1, LenProperties
<1>3. SubSeq(pend[q], 1, k) \in Seq(Data)
  BY <1>1, <1>2, SubSeqProperties
<1>4. SubSeq(pend[q], k + 1, Len(pend[q])) \in Seq(Data)
  BY <1>1, <1>2, SubSeqProperties
<1>5. recv[q] \o SubSeq(pend[q], 1, k) \in Seq(Data)
  BY <1>1, <1>3, ConcatProperties
<1>6. QED
  BY <1>4, <1>5 DEF PTypeOK, Take

----------------------------------------------------------------------------
(* Types, action by action.                                                *)

LEMMA ConfigureType ==
  ASSUME PTypeOK, NEW p \in Procs, Configure(p)
  PROVE  PTypeOK'
<1>1. ASSUME NEW fd \in Fds, OpenPipe(<<p, fd>>) PROVE PTypeOK'
  BY <1>1, EndsArePipes DEF PTypeOK, OpenPipe, conf, frame
<1>2. ASSUME NEW fd \in Fds, Capture(<<p, fd>>) PROVE PTypeOK'
  BY <1>2, EndsArePipes DEF PTypeOK, Capture, streams, frame
<1>3. ASSUME NEW fd \in Fds, SetWriter(<<p, fd>>) PROVE PTypeOK'
  BY <1>3, EndsArePipes DEF PTypeOK, SetWriter, streams, frame
<1>4. ASSUME NEW r \in Sources, SetStdin(p, r) PROVE PTypeOK'
  BY <1>4 DEF PTypeOK, SetStdin, streams, frame
<1>5. Bytes \in Sources /\ Ends \subseteq Sources
  BY EndsArePipes DEF Sources
<1>6. QED
  BY <1>1, <1>2, <1>3, <1>4, <1>5 DEF Configure

LEMMA FeedType ==
  ASSUME PTypeOK, NEW p \in Procs, Feed(p) \/ WriteStep(p)
  PROVE  PTypeOK'
<1>1. Stdin(p) \in Pipes /\ Stdin(p) \in Sources
  BY EndsArePipes DEF Sources
<1>2. CASE WriteEnter(p)
  BY <1>1, <1>2 DEF PTypeOK, WriteEnter, frame
<1>3. CASE CloseStdin(p)
  BY <1>1, <1>3 DEF PTypeOK, CloseStdin, conf, frame
<1>4. ASSUME NEW c \in Chunks, WriteOffer(p, c) PROVE PTypeOK'
  <2>1. c \in Seq(Data)
    BY ChunkIsData
  <2>2. wrote[Stdin(p)] \o c \in Seq(Data)
    BY <1>1, <2>1, ConcatProperties DEF PTypeOK
  <2>3. QED
    BY <1>1, <1>4, <2>1, <2>2 DEF PTypeOK, WriteOffer, conf, frame
<1>5. CASE WriteRefused(p)
  BY <1>5 DEF PTypeOK, WriteRefused, conf, streams, frame
<1>6. CASE WriteReturn(p)
  BY <1>6 DEF PTypeOK, WriteReturn, conf, streams, frame
<1>7. CASE WriteAbort(p)
  <2>1. <<>> \in Seq(Data)
    BY EmptySeq
  <2>2. QED
    BY <1>1, <1>7, <2>1 DEF PTypeOK, WriteAbort, conf, frame
<1>8. QED
  BY <1>2, <1>3, <1>4, <1>5, <1>6, <1>7 DEF Feed, WriteStep

LEMMA BeginType ==
  ASSUME PTypeOK, NEW p \in Procs, RunStart(p) \/ RunNoRunner(p)
  PROVE  PTypeOK'
<1>0. <<>> \in Seq(Data)
  BY EmptySeq
<1>1. CASE RunStart(p)
  <2>1. \A e \in Ends : Target(e) \in {"writer", "pipe", "buffer"}
    BY DEF Target
  <2>2. dst' \in [Ends -> {"none", "writer", "buffer", "pipe"}]
    BY <1>1, <2>1 DEF PTypeOK, RunStart
  <2>3. captured' \in [Ends -> Seq(Data)]
    BY <1>0, <1>1 DEF PTypeOK, RunStart
  <2>4. hasBuf' \in [Ends -> BOOLEAN]
    <3>1. \A e \in Ends : (hasBuf[e] \/ (e[1] = p /\ KeepsBuffer(e))) \in BOOLEAN
      BY DEF PTypeOK, KeepsBuffer
    <3>2. QED
      BY <1>1, <3>1 DEF RunStart
  <2>5. QED
    BY <1>1, <2>2, <2>3, <2>4 DEF PTypeOK, RunStart, streams, Errs
<1>2. CASE RunNoRunner(p)
  BY <1>0, <1>2 DEF PTypeOK, RunNoRunner, conf, streams, Errs
<1>3. QED
  BY <1>1, <1>2

LEMMA ReadType ==
  ASSUME PTypeOK
  PROVE  /\ \A p \in Procs : RunnerRead(p) => PTypeOK'
         /\ \A e \in Ends : ClientRead(e) => PTypeOK'
<1>1. ASSUME NEW q \in Pipes, NEW k \in 1..Len(pend[q]), Take(q, k),
             UNCHANGED <<conf, buf, pipe, wrote, refused, frame, wpc>>
      PROVE  PTypeOK'
  BY <1>1, TakeType DEF PTypeOK, conf, frame
<1>2. QED
  BY <1>1, EndsArePipes DEF RunnerRead, ClientRead

LEMMA RunnerType ==
  ASSUME PTypeOK, NEW p \in Procs, RunnerEof(p) \/ RunnerOutput(p)
  PROVE  PTypeOK'
<1>1. CASE RunnerEof(p)
  BY <1>1 DEF PTypeOK, RunnerEof, conf, streams
<1>2. ASSUME NEW fd \in Fds, NEW c \in Chunks, RunnerWrite(p, fd, c)
      PROVE  PTypeOK'
  <2> DEFINE e == <<p, fd>>
  <2>1. e \in Ends /\ e \in Pipes /\ c \in Seq(Data)
    BY EndsArePipes, ChunkIsData
  <2>2. wrote[e] \o c \in Seq(Data) /\ buf[e] \o c \in Seq(Data)
    BY <2>1, ConcatProperties DEF PTypeOK
  <2> HIDE DEF e
  <2>3. UNCHANGED <<conf, pipe, recv, refused, frame, wpc>>
    BY <1>2 DEF RunnerWrite
  <2>4. wrote' = [wrote EXCEPT ![e] = @ \o c]
    BY <1>2 DEF RunnerWrite, e
  <2>5. \/ UNCHANGED <<buf, pend>>
        \/ buf' = [buf EXCEPT ![e] = @ \o c] /\ UNCHANGED pend
        \/ pend' = [pend EXCEPT ![e] = c] /\ UNCHANGED buf
    BY <1>2 DEF RunnerWrite, e
  <2>6. QED
    BY <2>1, <2>2, <2>3, <2>4, <2>5 DEF PTypeOK, conf, frame
<1>3. ASSUME NEW fd \in Fds, RunnerRefused(p, fd) PROVE PTypeOK'
  BY <1>3 DEF PTypeOK, RunnerRefused, conf, frame
<1>4. QED
  BY <1>1, <1>2, <1>3 DEF RunnerOutput

LEMMA EndType ==
  ASSUME PTypeOK, NEW p \in Procs,
         (\E x \in Errs : RunnerReturn(p, x)) \/ RunClose(p) \/ RunCapture(p)
  PROVE  PTypeOK'
<1>1. ASSUME NEW x \in Errs, RunnerReturn(p, x) PROVE PTypeOK'
  BY <1>1 DEF PTypeOK, RunnerReturn, conf, streams
<1>2. CASE RunClose(p)
  BY <1>2 DEF PTypeOK, RunClose, conf
<1>3. CASE RunCapture(p)
  BY <1>3 DEF PTypeOK, RunCapture, conf, streams
<1>4. QED
  BY <1>1, <1>2, <1>3

LEMMA RunWithIOType ==
  ASSUME PTypeOK, NEW p \in Procs, RunWithIO(p, Bytes)
  PROVE  PTypeOK'
BY DEF PTypeOK, RunWithIO, streams, Sources

LEMMA StutterType ==
  ASSUME PTypeOK, UNCHANGED pvars
  PROVE  PTypeOK'
BY DEF PTypeOK, pvars, conf, streams, frame

LEMMA InitType == ProcInit => PTypeOK
<1>1. <<>> \in Seq(Data)
  BY EmptySeq
<1>2. QED
  BY <1>1 DEF ProcInit, PTypeOK, Sources, Errs

LEMMA NextType == PTypeOK /\ [ProcNext]_pvars => PTypeOK'
<1> SUFFICES ASSUME PTypeOK, [ProcNext]_pvars PROVE PTypeOK'
  OBVIOUS
<1>1. {"nil", "fail"} \subseteq Errs
  BY DEF Errs
<1>2. ASSUME NEW p \in Procs, RunStep(p) PROVE PTypeOK'
  BY <1>1, <1>2, BeginType, ReadType, RunnerType, EndType DEF RunStep
<1>3. QED
  BY <1>2, ConfigureType, FeedType, ReadType, RunWithIOType, StutterType
  DEF ProcNext, CallRunWithIO, ClientReads

\* Every variable of a process keeps its type, whatever its clients and its
\* runner do (process.go as a whole).
THEOREM TypeCorrect == ProcSpec => []PTypeOK
BY InitType, NextType, PTL DEF ProcSpec

----------------------------------------------------------------------------
(* The inductive invariant.                                                *)

\* A Write is blocked only while its runner runs and its pipe is open; a stream
\* goes to a buffer or to the caller's writer only where there is one.
WriteInv ==
  /\ \A e \in Ends :
       /\ pend[e] # <<>> => pc[e[1]] = "running" /\ pipe[e] = "open"
       /\ dst[e] = "buffer" => hasBuf[e]
       /\ dst[e] = "writer" => custom[e]
  /\ \A p \in Procs : pend[Stdin(p)] # <<>> => wpc[p] = "offered"

\* EOF on the pipe of another process is seen after that process closed it.
EofInv == \A p \in Procs : eof[p] /\ src[p] \in Ends => pipe[src[p]] = "closed"

\* A stream with neither pipe nor writer goes to its buffer from the first Run on.
BufferInv ==
  \A e \in Ends :
    pipe[e] = "nil" /\ ~custom[e] =>
      /\ buf[e] = wrote[e]
      /\ pc[e[1]] \in {"running", "returned", "closed"}
           => hasBuf[e] /\ dst[e] = "buffer"
      /\ pc[e[1]] = "done" /\ e[1] \notin Runnerless => captured[e] = buf[e]

\* Who runs has been started, and an output pipe is closed by a completed Run.
RunInv ==
  \A p \in Procs :
    /\ pc[p] \in {"running", "returned", "closed"} => p \notin Runnerless /\ runs[p] >= 1
    /\ refused[p] => runs[p] > 1
    /\ \A fd \in Fds :
         pipe[<<p, fd>>] = "closed" =>
           runs[p] >= 1 /\ (pc[p] \in {"running", "returned"} => runs[p] > 1)

ProcessInv == WriteInv /\ EofInv /\ PipeConservation /\ BufferInv /\ RunInv

\* Concatenation is associative: the library's theorem, for streams.
LEMMA Assoc ==
  \A s, a, b \in Seq(Data) : (s \o a) \o b = s \o (a \o b)
<1> TAKE s, a, b \in Seq(Data)
<1> QED
  BY ConcatAssociative

\* What a reader takes is moved from the blocked Write to what was received.
LEMMA TakeConserves ==
  ASSUME NEW s \in Seq(Data), NEW t \in Seq(Data), NEW k \in 1..Len(t)
  PROVE  (s \o SubSeq(t, 1, k)) \o SubSeq(t, k + 1, Len(t)) = s \o t
<1>1. Len(t) \in Nat /\ k \in Nat /\ 1 <= k /\ k <= Len(t)
  BY LenProperties
<1>2. SubSeq(t, 1, k) \in Seq(Data) /\ SubSeq(t, k + 1, Len(t)) \in Seq(Data)
  BY <1>1, SubSeqProperties, LenProperties
<1>3. SubSeq(t, 1, k) \o SubSeq(t, k + 1, Len(t)) = SubSeq(t, 1, Len(t))
  <2>1. 1 \in 1..(Len(t) + 1) /\ k \in (1 - 1)..Len(t) /\ Len(t) \in k..Len(t)
    BY <1>1
  <2>2. QED
    BY <2>1, ConcatAdjacentSubSeq
<1>4. SubSeq(t, 1, Len(t)) = t
  BY SubSeqFull
<1>5. (s \o SubSeq(t, 1, k)) \o SubSeq(t, k + 1, Len(t))
        = s \o (SubSeq(t, 1, k) \o SubSeq(t, k + 1, Len(t)))
  BY <1>2, Assoc
<1>6. QED
  BY <1>3, <1>4, <1>5

\* A new chunk is written and in flight at once.
LEMMA OfferConserves ==
  ASSUME NEW w \in Seq(Data), NEW r \in Seq(Data), NEW c \in Seq(Data),
         w = r \o <<>>
  PROVE  w \o c = r \o c
BY ConcatEmptySeq

LEMMA InitInv == ProcInit => ProcessInv
<1> SUFFICES ASSUME ProcInit PROVE ProcessInv
  OBVIOUS
<1>1. <<>> \o <<>> = <<>>
  BY ConcatEmptySeq, EmptySeq
<1>2. WriteInv /\ EofInv /\ RunInv
  BY EndsArePipes DEF ProcInit, WriteInv, EofInv, RunInv
<1>3. BufferInv
  BY EndsArePipes DEF ProcInit, BufferInv
<1>4. PipeConservation
  BY <1>1 DEF ProcInit, PipeConservation
<1>5. QED
  BY <1>2, <1>3, <1>4 DEF ProcessInv

LEMMA ConfigureInv ==
  ASSUME PTypeOK, ProcessInv, NEW p \in Procs, Configure(p)
  PROVE  ProcessInv'
<1> USE DEF ProcessInv
<1>1. ASSUME NEW e \in Ends, OpenPipe(e) PROVE ProcessInv'
  <2>1. /\ pipe' = [pipe EXCEPT ![e] = "open"] /\ pipe[e] = "nil"
        /\ UNCHANGED <<conf, buf, pend, wrote, recv, refused, frame, wpc>>
    BY <1>1 DEF OpenPipe
  <2>2. \A q \in Pipes : pipe'[q] = IF q = e THEN "open" ELSE pipe[q]
    BY <2>1, EndsArePipes DEF PTypeOK
  <2>3. PipeConservation'
    BY <2>1, <2>2, EndsArePipes DEF conf, frame, PipeConservation, Piped
  <2>4. WriteInv' /\ EofInv'
    BY <2>1, <2>2, EndsArePipes DEF conf, frame, WriteInv, EofInv
  <2>5. BufferInv'
    BY <2>1, <2>2, EndsArePipes DEF conf, frame, BufferInv
  <2>6. RunInv'
    BY <2>1, <2>2, EndsArePipes DEF conf, frame, RunInv
  <2>7. QED
    BY <2>3, <2>4, <2>5, <2>6
<1>2. ASSUME NEW e \in Ends, Capture(e) PROVE ProcessInv'
  <2>1. /\ hasBuf' = [hasBuf EXCEPT ![e] = TRUE]
        /\ UNCHANGED <<in, custom, streams, frame, wpc>>
    BY <1>2 DEF Capture
  <2>2. \A f \in Ends : hasBuf[f] => hasBuf'[f]
    BY <2>1 DEF PTypeOK
  <2>3. PipeConservation'
    BY <2>1, <2>2, EndsArePipes DEF streams, frame, PipeConservation, Piped
  <2>4. WriteInv' /\ EofInv'
    BY <2>1, <2>2, EndsArePipes DEF streams, frame, WriteInv, EofInv
  <2>5. BufferInv'
    BY <2>1, <2>2, EndsArePipes DEF streams, frame, BufferInv
  <2>6. RunInv'
    BY <2>1, <2>2, EndsArePipes DEF streams, frame, RunInv
  <2>7. QED
    BY <2>3, <2>4, <2>5, <2>6
<1>3. ASSUME NEW e \in Ends, SetWriter(e) PROVE ProcessInv'
  <2>1. /\ custom' = [custom EXCEPT ![e] = TRUE]
        /\ UNCHANGED <<in, hasBuf, streams, frame, wpc>>
    BY <1>3 DEF SetWriter
  <2>2. \A f \in Ends : custom[f] => custom'[f]
    BY <2>1 DEF PTypeOK
  <2>3. PipeConservation'
    BY <2>1, <2>2, EndsArePipes DEF streams, frame, PipeConservation, Piped
  <2>4. WriteInv' /\ EofInv'
    BY <2>1, <2>2, EndsArePipes DEF streams, frame, WriteInv, EofInv
  <2>5. BufferInv'
    BY <2>1, <2>2, EndsArePipes DEF streams, frame, BufferInv
  <2>6. RunInv'
    BY <2>1, <2>2, EndsArePipes DEF streams, frame, RunInv
  <2>7. QED
    BY <2>3, <2>4, <2>5, <2>6
<1>4. ASSUME NEW r, SetStdin(p, r) PROVE ProcessInv'
  <2>1. UNCHANGED <<custom, hasBuf, streams, frame, wpc>>
    BY <1>4 DEF SetStdin
  <2>2. PipeConservation'
    BY <2>1 DEF streams, PipeConservation, Piped
  <2>3. WriteInv' /\ EofInv'
    BY <2>1 DEF streams, frame, WriteInv, EofInv
  <2>4. BufferInv' /\ RunInv'
    BY <2>1 DEF streams, frame, BufferInv, RunInv
  <2>5. QED
    BY <2>2, <2>3, <2>4
<1>5. QED
  BY <1>1, <1>2, <1>3, <1>4, EndsArePipes DEF Configure

LEMMA FeedInv ==
  ASSUME PTypeOK, ProcessInv, NEW p \in Procs, Feed(p) \/ WriteStep(p)
  PROVE  ProcessInv'
<1> USE DEF ProcessInv
<1> DEFINE q == Stdin(p)
<1>0. q \in Pipes /\ q[1] = p /\ q[2] = "stdin" /\ q \notin Ends
  BY EndsArePipes
<1>00. /\ \A f \in Procs : f # p => Stdin(f) \in Pipes \ {q}
       /\ wpc \in [Procs -> {"idle", "entered", "offered"}]
  BY EndsArePipes DEF PTypeOK
<1> HIDE DEF q
<1>1. ASSUME /\ \A e \in Ends : pipe'[e] = pipe[e]
             /\ \A f \in Procs : pend[Stdin(f)] # <<>> => wpc'[f] = "offered"
             /\ UNCHANGED <<custom, hasBuf, buf, pend, wrote, recv, refused, frame>>
      PROVE  ProcessInv'
  <2>1. PipeConservation'
    BY <1>1, EndsArePipes DEF PipeConservation, Piped
  <2>2. WriteInv' /\ EofInv'
    BY <1>1, EndsArePipes DEF frame, WriteInv, EofInv
  <2>3. BufferInv' /\ RunInv'
    BY <1>1, EndsArePipes DEF frame, BufferInv, RunInv
  <2>4. QED
    BY <2>1, <2>2, <2>3
<1>2. ASSUME /\ \A f \in Pipes \ {q} : pend'[f] = pend[f] /\ wrote'[f] = wrote[f]
             /\ wrote'[q] = recv[q] \o pend'[q]
             /\ \A f \in Procs : pend'[Stdin(f)] # <<>> => wpc'[f] = "offered"
             /\ UNCHANGED <<custom, hasBuf, buf, pipe, recv, refused, frame>>
      PROVE  ProcessInv'
  <2>1. \A e \in Ends : pend'[e] = pend[e] /\ wrote'[e] = wrote[e]
    BY <1>0, <1>2, EndsArePipes
  <2>2. PipeConservation'
    <3>1. \A f \in Pipes \ {q} : f[2] = "stdin" \/ Piped(f)'
             => wrote'[f] = recv'[f] \o pend'[f]
      BY <1>2, EndsArePipes DEF PipeConservation, Piped
    <3>2. wrote'[q] = recv'[q] \o pend'[q]
      BY <1>2
    <3>3. QED
      BY <3>1, <3>2 DEF PipeConservation
  <2>3. WriteInv' /\ EofInv'
    BY <1>2, <2>1, EndsArePipes DEF frame, WriteInv, EofInv
  <2>4. BufferInv' /\ RunInv'
    BY <1>2, <2>1, EndsArePipes DEF frame, BufferInv, RunInv
  <2>5. QED
    BY <2>2, <2>3, <2>4
<1>3. CASE WriteEnter(p)
  BY <1>0, <1>1, <1>3, EndsArePipes DEF WriteEnter, WriteInv, PTypeOK, q
<1>4. CASE CloseStdin(p)
  BY <1>0, <1>1, <1>4, EndsArePipes DEF CloseStdin, WriteInv, conf, PTypeOK, q
<1>5. ASSUME NEW c \in Chunks, WriteOffer(p, c) PROVE ProcessInv'
  <2>1. c \in Seq(Data) /\ wrote[q] \in Seq(Data) /\ recv[q] \in Seq(Data)
    BY <1>0, ChunkIsData DEF PTypeOK
  <2>2. pend[q] = <<>>
    BY <1>5 DEF WriteOffer, WriteInv, q
  <2>3. wrote[q] = recv[q] \o <<>>
    BY <1>0, <2>2 DEF PipeConservation
  <2>4. wrote[q] \o c = recv[q] \o c
    BY <2>1, <2>3, OfferConserves
  <2>5. /\ \A f \in Pipes \ {q} : pend'[f] = pend[f] /\ wrote'[f] = wrote[f]
        /\ pend'[q] = c /\ wrote'[q] = wrote[q] \o c
        /\ wpc' = [wpc EXCEPT ![p] = "offered"]
        /\ UNCHANGED <<conf, buf, pipe, recv, refused, frame>>
    BY <1>0, <1>5 DEF WriteOffer, PTypeOK, q
  <2>6. \A f \in Procs : pend'[Stdin(f)] # <<>> => wpc'[f] = "offered"
    BY <1>00, <2>5 DEF WriteInv
  <2>7. QED
    BY <1>2, <2>4, <2>5, <2>6 DEF conf
<1>6. CASE WriteRefused(p) \/ WriteReturn(p)
  BY <1>1, <1>6 DEF WriteRefused, WriteReturn, WriteInv, PTypeOK, conf, streams
<1>7. CASE WriteAbort(p)
  <2>1. recv[q] = recv[q] \o <<>>
    BY <1>0, ConcatEmptySeq DEF PTypeOK
  <2>2. /\ \A f \in Pipes \ {q} : pend'[f] = pend[f] /\ wrote'[f] = wrote[f]
        /\ pend'[q] = <<>> /\ wrote'[q] = recv[q]
        /\ wpc' = [wpc EXCEPT ![p] = "idle"]
        /\ UNCHANGED <<conf, buf, pipe, recv, refused, frame>>
    BY <1>0, <1>7 DEF WriteAbort, PTypeOK, q
  <2>3. \A f \in Procs : pend'[Stdin(f)] # <<>> => wpc'[f] = "offered"
    BY <1>00, <2>2 DEF WriteInv, q
  <2>4. QED
    BY <1>2, <2>1, <2>2, <2>3 DEF conf
<1>8. QED
  BY <1>3, <1>4, <1>5, <1>6, <1>7 DEF Feed, WriteStep

LEMMA BeginInv ==
  ASSUME PTypeOK, ProcessInv, NEW p \in Procs, RunStart(p) \/ RunNoRunner(p)
  PROVE  ProcessInv'
<1> USE DEF ProcessInv
<1>0. /\ runs[p] \in Nat /\ runs'[p] = runs[p] + 1
      /\ \A x \in Procs \ {p} : runs'[x] = runs[x] /\ pc'[x] = pc[x]
      /\ UNCHANGED <<custom, streams, wpc>>
      /\ \A x \in Procs \ {p} : eof'[x] = eof[x] /\ src'[x] = src[x]
      /\ pc[p] \in {"idle", "entered", "done"}
  BY DEF PTypeOK, RunStart, RunNoRunner, Callable, conf
<1>1. CASE RunStart(p)
  <2>1. /\ pc' = [pc EXCEPT ![p] = "running"]
        /\ \A e \in Ends : e[1] = p => dst'[e] = Target(e)
        /\ \A e \in Ends : e[1] # p => dst'[e] = dst[e]
        /\ \A e \in Ends : hasBuf'[e] <=> (hasBuf[e] \/ (e[1] = p /\ Target(e) = "buffer"))
        /\ eof' = [eof EXCEPT ![p] = FALSE]
        /\ \A e \in Ends : e[1] # p => captured'[e] = captured[e]
        /\ p \notin Runnerless
    BY <1>1 DEF RunStart, KeepsBuffer
  <2>2. \A e \in Ends : e[1] = p => pend[e] = <<>>
    BY <1>0 DEF WriteInv
  <2>3. pc'[p] = "running" /\ eof'[p] = FALSE
    BY <2>1 DEF PTypeOK
  <2>4. WriteInv'
    <3>1. ASSUME NEW e \in Ends
          PROVE  /\ pend'[e] # <<>> => pc'[e[1]] = "running" /\ pipe'[e] = "open"
                 /\ dst'[e] = "buffer" => hasBuf'[e]
                 /\ dst'[e] = "writer" => custom'[e]
      <4>1. CASE e[1] = p
        <5>1. pend'[e] = <<>> /\ dst'[e] = Target(e) /\ custom'[e] = custom[e]
          BY <1>0, <2>1, <2>2, <4>1 DEF streams
        <5>2. Target(e) = "writer" => custom[e]
          BY DEF Target
        <5>3. Target(e) = "buffer" => hasBuf'[e]
          BY <2>1, <4>1
        <5>4. QED
          BY <5>1, <5>2, <5>3
      <4>2. CASE e[1] # p
        BY <1>0, <2>1, <4>2, EndsArePipes DEF streams, WriteInv
      <4>3. QED
        BY <4>1, <4>2
    <3>2. \A x \in Procs : pend'[Stdin(x)] # <<>> => wpc'[x] = "offered"
      BY <1>0 DEF streams, WriteInv
    <3>3. QED
      BY <3>1, <3>2 DEF WriteInv
  <2>5. EofInv'
    BY <1>0, <2>3 DEF streams, EofInv
  <2>6. PipeConservation'
    BY <1>0, <2>1, EndsArePipes DEF streams, PipeConservation, Piped
  <2>7. BufferInv'
    <3>1. ASSUME NEW e \in Ends, pipe'[e] = "nil", ~custom'[e]
          PROVE  /\ buf'[e] = wrote'[e]
                 /\ pc'[e[1]] \in {"running", "returned", "closed"}
                      => hasBuf'[e] /\ dst'[e] = "buffer"
                 /\ pc'[e[1]] = "done" /\ e[1] \notin Runnerless
                      => captured'[e] = buf'[e]
      <4>1. CASE e[1] = p
        <5>1. pipe[e] = "nil" /\ ~custom[e] /\ buf[e] = wrote[e]
          BY <1>0, <3>1 DEF streams, BufferInv
        <5>2. Target(e) = "buffer"
          BY <5>1 DEF Target
        <5>3. hasBuf'[e] /\ dst'[e] = "buffer"
          BY <2>1, <4>1, <5>2
        <5>4. QED
          BY <1>0, <2>3, <4>1, <5>1, <5>3 DEF streams
      <4>2. CASE e[1] # p
        BY <1>0, <2>1, <3>1, <4>2, EndsArePipes DEF streams, BufferInv
      <4>3. QED
        BY <4>1, <4>2
    <3>2. QED
      BY <3>1 DEF BufferInv
  <2>8. RunInv'
    BY <1>0, <2>1, <2>3 DEF streams, RunInv
  <2>9. QED
    BY <2>4, <2>5, <2>6, <2>7, <2>8
<1>2. CASE RunNoRunner(p)
  <2>1. /\ pc'[p] = "done" /\ p \in Runnerless
        /\ \A e \in Ends : e[1] # p => captured'[e] = captured[e]
        /\ UNCHANGED <<conf, streams, src, dst, eof, wpc>>
    BY <1>2 DEF RunNoRunner, PTypeOK
  <2>2. WriteInv' /\ EofInv'
    BY <1>0, <2>1, EndsArePipes DEF conf, streams, WriteInv, EofInv
  <2>3. PipeConservation'
    BY <2>1 DEF conf, streams, PipeConservation, Piped
  <2>4. BufferInv'
    BY <1>0, <2>1, EndsArePipes DEF conf, streams, BufferInv
  <2>5. RunInv'
    BY <1>0, <2>1 DEF streams, RunInv
  <2>6. QED
    BY <2>2, <2>3, <2>4, <2>5
<1>3. QED
  BY <1>1, <1>2

LEMMA ReadInv ==
  ASSUME PTypeOK, ProcessInv
  PROVE  /\ \A p \in Procs : RunnerRead(p) => ProcessInv'
         /\ \A e \in Ends : ClientRead(e) => ProcessInv'
<1> USE DEF ProcessInv
<1>1. ASSUME NEW q \in Pipes, NEW k \in 1..Len(pend[q]), Take(q, k),
             UNCHANGED <<conf, buf, pipe, wrote, refused, frame, wpc>>
      PROVE  ProcessInv'
  <2> DEFINE t == SubSeq(pend[q], k + 1, Len(pend[q]))
             r == recv[q] \o SubSeq(pend[q], 1, k)
  <2>1. pend[q] \in Seq(Data) /\ recv[q] \in Seq(Data)
    BY DEF PTypeOK
  <2>2. r \o t = recv[q] \o pend[q]
    BY <2>1, TakeConserves
  <2> HIDE DEF r, t
  <2>3. /\ recv' = [recv EXCEPT ![q] = r]
        /\ pend' = [pend EXCEPT ![q] = t]
    BY <1>1 DEF Take, r, t
  <2>4. pend[q] # <<>>
    BY EmptySeq, <2>1
  <2>5. \A f \in Pipes : pend'[f] # <<>> => pend[f] # <<>>
    BY <2>3, <2>4 DEF PTypeOK
  <2>6. \A f \in Pipes : recv'[f] \o pend'[f] = recv[f] \o pend[f]
    BY <2>2, <2>3 DEF PTypeOK
  <2>7. WriteInv' /\ EofInv'
    BY <1>1, <2>5, EndsArePipes DEF conf, frame, WriteInv, EofInv
  <2>8. PipeConservation'
    BY <1>1, <2>6 DEF conf, PipeConservation, Piped
  <2>9. BufferInv' /\ RunInv'
    BY <1>1, EndsArePipes DEF conf, frame, BufferInv, RunInv
  <2>10. QED
    BY <2>7, <2>8, <2>9
<1>2. QED
  BY <1>1, EndsArePipes DEF RunnerRead, ClientRead

LEMMA RunnerInv ==
  ASSUME PTypeOK, ProcessInv, NEW p \in Procs, RunnerEof(p) \/ RunnerOutput(p)
  PROVE  ProcessInv'
<1> USE DEF ProcessInv
<1>1. CASE RunnerEof(p)
  <2>1. /\ eof' = [eof EXCEPT ![p] = TRUE]
        /\ src[p] \in Pipes => pipe[src[p]] = "closed"
        /\ UNCHANGED <<conf, streams, pc, src, dst, err, captured, runs, wpc>>
    BY <1>1 DEF RunnerEof
  <2>2. EofInv'
    BY <2>1, EndsArePipes DEF streams, EofInv, PTypeOK
  <2>3. WriteInv' /\ PipeConservation'
    BY <2>1 DEF conf, streams, WriteInv, PipeConservation, Piped
  <2>4. BufferInv' /\ RunInv'
    BY <2>1 DEF conf, streams, BufferInv, RunInv
  <2>5. QED
    BY <2>2, <2>3, <2>4
<1>2. ASSUME NEW fd \in Fds, NEW c \in Chunks, RunnerWrite(p, fd, c)
      PROVE  ProcessInv'
  <2> DEFINE e == <<p, fd>>
  <2>1. /\ e \in Ends /\ e \in Pipes /\ e[1] = p /\ c \in Seq(Data)
        /\ pend[e] \in Seq(Data) /\ recv[e] \in Seq(Data) /\ wrote[e] \in Seq(Data)
        /\ \A x \in Procs : Stdin(x) # e
    BY EndsArePipes, ChunkIsData DEF PTypeOK
  <2>2. pc[p] = "running" /\ pend[e] = <<>>
    BY <1>2 DEF RunnerWrite, Active, Blocked
  <2> HIDE DEF e
  <2>3. UNCHANGED <<conf, pipe, recv, refused, frame, wpc>>
    BY <1>2 DEF RunnerWrite
  <2>4. wrote' = [wrote EXCEPT ![e] = @ \o c]
    BY <1>2 DEF RunnerWrite, e
  <2>40. /\ wrote'[e] = wrote[e] \o c
         /\ \A f \in Pipes \ {e} : wrote'[f] = wrote[f]
         /\ e[2] # "stdin"
         /\ \A f \in Ends : f \in Pipes /\ f[1] \in Procs
    BY <2>1, <2>4, EndsArePipes DEF PTypeOK
  <2>5. CASE dst[e] = "writer" /\ UNCHANGED <<buf, pend>>
    <3>1. custom[e]
      BY <2>1, <2>5 DEF WriteInv
    <3>2. PipeConservation'
      BY <2>3, <2>40, <2>5, <3>1 DEF conf, PipeConservation, Piped
    <3>3. WriteInv' /\ EofInv' /\ RunInv'
      BY <2>3, <2>5 DEF conf, frame, WriteInv, EofInv, RunInv
    <3>4. BufferInv'
      BY <2>1, <2>3, <2>4, <2>5, <3>1, EndsArePipes DEF conf, frame, BufferInv, PTypeOK
    <3>5. QED
      BY <3>2, <3>3, <3>4
  <2>6. CASE dst[e] = "buffer" /\ buf' = [buf EXCEPT ![e] = @ \o c] /\ UNCHANGED pend
    <3>1. hasBuf[e]
      BY <2>1, <2>6 DEF WriteInv
    <3>2. PipeConservation'
      BY <2>3, <2>40, <2>6, <3>1 DEF conf, PipeConservation, Piped
    <3>3. WriteInv' /\ EofInv' /\ RunInv'
      BY <2>3, <2>6 DEF conf, frame, WriteInv, EofInv, RunInv
    <3>4. BufferInv'
      <4>1. buf'[e] = buf[e] \o c /\ \A f \in Ends \ {e} : buf'[f] = buf[f]
        BY <2>1, <2>6 DEF PTypeOK
      <4>2. ASSUME NEW f \in Ends, pipe[f] = "nil", ~custom[f]
            PROVE  buf'[f] = wrote'[f]
        BY <2>40, <4>1, <4>2 DEF BufferInv
      <4>3. QED
        BY <2>2, <2>1, <2>3, <4>1, <4>2, EndsArePipes DEF conf, frame, BufferInv
    <3>5. QED
      BY <3>2, <3>3, <3>4
  <2>7. CASE /\ dst[e] = "pipe" /\ pipe[e] = "open"
             /\ pend' = [pend EXCEPT ![e] = c] /\ UNCHANGED buf
    <3>1. Piped(e) => wrote[e] = recv[e] \o <<>>
      BY <2>1, <2>2 DEF PipeConservation
    <3>2. Piped(e) => wrote[e] \o c = recv[e] \o c
      BY <2>1, <3>1, OfferConserves
    <3>3. PipeConservation'
      <4>1. pend'[e] = c /\ \A f \in Pipes \ {e} : pend'[f] = pend[f]
        BY <2>1, <2>7 DEF PTypeOK
      <4>2. QED
        BY <2>3, <2>40, <3>2, <4>1 DEF conf, PipeConservation, Piped
    <3>4. WriteInv'
      BY <2>1, <2>2, <2>3, <2>7, EndsArePipes DEF conf, frame, WriteInv, PTypeOK
    <3>5. EofInv' /\ RunInv'
      BY <2>3 DEF conf, frame, EofInv, RunInv
    <3>6. BufferInv'
      BY <2>1, <2>3, <2>4, <2>7, EndsArePipes DEF conf, frame, BufferInv, PTypeOK
    <3>7. QED
      BY <3>3, <3>4, <3>5, <3>6
  <2>8. QED
    BY <1>2, <2>5, <2>6, <2>7 DEF RunnerWrite, e
<1>3. ASSUME NEW fd \in Fds, RunnerRefused(p, fd) PROVE ProcessInv'
  <2>1. /\ refused' = [refused EXCEPT ![p] = TRUE]
        /\ pc[p] = "running" /\ pipe[<<p, fd>>] = "closed"
        /\ UNCHANGED <<conf, buf, pipe, pend, wrote, recv, frame, wpc>>
    BY <1>3 DEF RunnerRefused, Active
  <2>2. runs[p] > 1
    BY <2>1 DEF RunInv
  <2>3. RunInv'
    BY <2>1, <2>2 DEF frame, RunInv, PTypeOK
  <2>4. WriteInv' /\ EofInv' /\ PipeConservation'
    BY <2>1 DEF conf, frame, WriteInv, EofInv, PipeConservation, Piped
  <2>5. BufferInv'
    BY <2>1 DEF conf, frame, BufferInv
  <2>6. QED
    BY <2>3, <2>4, <2>5
<1>4. QED
  BY <1>1, <1>2, <1>3 DEF RunnerOutput

LEMMA EndInv ==
  ASSUME PTypeOK, ProcessInv, NEW p \in Procs,
         (\E x \in Errs : RunnerReturn(p, x)) \/ RunClose(p) \/ RunCapture(p)
  PROVE  ProcessInv'
<1> USE DEF ProcessInv
<1>1. ASSUME NEW x \in Errs, RunnerReturn(p, x) PROVE ProcessInv'
  <2>1. /\ pc' = [pc EXCEPT ![p] = "returned"] /\ pc[p] = "running"
        /\ \A fd \in Fds : pend[<<p, fd>>] = <<>>
        /\ UNCHANGED <<conf, streams, src, dst, eof, captured, runs, wpc>>
    BY <1>1 DEF RunnerReturn, Active, Blocked
  <2>2. pc'[p] = "returned" /\ \A y \in Procs \ {p} : pc'[y] = pc[y]
    BY <2>1 DEF PTypeOK
  <2>3. \A e \in Ends : pend[e] # <<>> => e[1] # p
    BY <2>1 DEF Ends
  <2>4. WriteInv' /\ EofInv'
    BY <2>1, <2>2, <2>3, EndsArePipes DEF conf, streams, WriteInv, EofInv
  <2>5. PipeConservation' /\ RunInv'
    BY <2>1, <2>2 DEF conf, streams, PipeConservation, Piped, RunInv
  <2>6. BufferInv'
    BY <2>1, <2>2, EndsArePipes DEF conf, streams, BufferInv
  <2>7. QED
    BY <2>4, <2>5, <2>6
<1>2. CASE RunClose(p)
  <2>1. /\ pc[p] = "returned"
        /\ pc'[p] = "closed" /\ \A y \in Procs \ {p} : pc'[y] = pc[y]
        /\ \A q \in Pipes : pipe'[q] = IF q[1] = p /\ pipe[q] = "open"
                                       THEN "closed" ELSE pipe[q]
        /\ UNCHANGED <<conf, buf, pend, wrote, recv, refused,
                       src, dst, eof, captured, runs, wpc>>
    BY <1>2 DEF RunClose, Closes, OwnedBy, PTypeOK
  <2>2. \A e \in Ends : pend[e] # <<>> => e[1] # p
    BY <2>1 DEF WriteInv
  <2>3. WriteInv' /\ EofInv'
    BY <2>1, <2>2, EndsArePipes DEF conf, WriteInv, EofInv
  <2>4. PipeConservation'
    BY <2>1 DEF conf, PipeConservation, Piped
  <2>5. RunInv'
    BY <2>1, EndsArePipes DEF RunInv
  <2>6. BufferInv'
    BY <2>1, EndsArePipes DEF conf, BufferInv
  <2>7. QED
    BY <2>3, <2>4, <2>5, <2>6
<1>3. CASE RunCapture(p)
  <2>1. /\ pc[p] = "closed"
        /\ pc'[p] = "done" /\ \A y \in Procs \ {p} : pc'[y] = pc[y]
        /\ \A e \in Ends : captured'[e] =
             IF e[1] = p /\ hasBuf[e] THEN buf[e] ELSE captured[e]
        /\ UNCHANGED <<conf, streams, src, dst, eof, err, runs, wpc>>
    BY <1>3 DEF RunCapture, PTypeOK
  <2>2. WriteInv' /\ EofInv'
    BY <2>1, EndsArePipes DEF conf, streams, WriteInv, EofInv
  <2>3. PipeConservation' /\ RunInv'
    BY <2>1 DEF conf, streams, PipeConservation, Piped, RunInv
  <2>4. BufferInv'
    BY <2>1, EndsArePipes DEF conf, streams, BufferInv
  <2>5. QED
    BY <2>2, <2>3, <2>4
<1>4. QED
  BY <1>1, <1>2, <1>3

LEMMA RunWithIOInv ==
  ASSUME PTypeOK, ProcessInv, NEW p \in Procs, RunWithIO(p, Bytes)
  PROVE  ProcessInv'
<1> USE DEF ProcessInv
<1>1. /\ pc[p] \in {"idle", "done"} /\ pc'[p] = "entered"
      /\ \A y \in Procs \ {p} : pc'[y] = pc[y]
      /\ UNCHANGED <<custom, hasBuf, streams, src, dst, eof, err, captured, runs, wpc>>
  BY DEF RunWithIO, PTypeOK
<1>2. WriteInv' /\ EofInv'
  BY <1>1, EndsArePipes DEF streams, WriteInv, EofInv
<1>3. PipeConservation' /\ RunInv'
  BY <1>1 DEF streams, PipeConservation, Piped, RunInv
<1>4. BufferInv'
  BY <1>1, EndsArePipes DEF streams, BufferInv
<1>5. QED
  BY <1>2, <1>3, <1>4

LEMMA StutterInv ==
  ASSUME ProcessInv, UNCHANGED pvars
  PROVE  ProcessInv'
<1>1. UNCHANGED <<conf, streams, frame, wpc>>
  BY DEF pvars
<1>2. WriteInv' /\ EofInv' /\ RunInv'
  BY <1>1 DEF ProcessInv, conf, streams, frame, WriteInv, EofInv, RunInv
<1>3. PipeConservation' /\ BufferInv'
  BY <1>1 DEF ProcessInv, conf, streams, frame, PipeConservation, Piped, BufferInv
<1>4. QED
  BY <1>2, <1>3 DEF ProcessInv

LEMMA NextInv == PTypeOK /\ ProcessInv /\ [ProcNext]_pvars => ProcessInv'
<1> SUFFICES ASSUME PTypeOK, ProcessInv, [ProcNext]_pvars PROVE ProcessInv'
  OBVIOUS
<1>1. {"nil", "fail"} \subseteq Errs
  BY DEF Errs
<1>2. ASSUME NEW p \in Procs, RunStep(p) PROVE ProcessInv'
  BY <1>1, <1>2, BeginInv, ReadInv, RunnerInv, EndInv DEF RunStep
<1>3. QED
  BY <1>2, ConfigureInv, FeedInv, ReadInv, RunWithIOInv, StutterInv
  DEF ProcNext, CallRunWithIO, ClientReads

\* The invariant holds of every process, alone or linked by its clients.
THEOREM InvCorrect == ProcSpec => [](PTypeOK /\ ProcessInv)
BY InitType, NextType, InitInv, NextInv, PTL DEF ProcSpec

----------------------------------------------------------------------------
(* What it implies.                                                        *)

\* A runner that reads another process until EOF has all its output.
LEMMA InvImpliesEof == PTypeOK /\ ProcessInv => EofIsComplete
<1> SUFFICES ASSUME PTypeOK, ProcessInv, NEW p \in Procs,
                    eof[p], src[p] \in Ends, Piped(src[p])
             PROVE  recv[src[p]] = wrote[src[p]]
  BY DEF EofIsComplete
<1> DEFINE e == src[p]
<1>1. pipe[e] = "closed" /\ e \in Ends /\ e \in Pipes
  BY EndsArePipes DEF ProcessInv, EofInv
<1>2. pend[e] = <<>>
  BY <1>1 DEF ProcessInv, WriteInv
<1>3. wrote[e] = recv[e] \o <<>>
  BY <1>1, <1>2 DEF ProcessInv, PipeConservation
<1>4. recv[e] \in Seq(Data)
  BY <1>1 DEF PTypeOK
<1>5. QED
  BY <1>3, <1>4, ConcatEmptySeq

\* The result of a completed Run is the buffer, and the buffer is all the output.
LEMMA InvImpliesCapture == PTypeOK /\ ProcessInv => CaptureComplete
BY DEF ProcessInv, BufferInv, CaptureComplete

\* The readers of a process's pipes get exactly what its runner wrote, in order.
THEOREM Conservation == ProcSpec => []PipeConservation
<1>1. ProcessInv => PipeConservation
  BY DEF ProcessInv
<1>2. QED
  BY <1>1, InvCorrect, PTL

\* EOF on the output of another process means that all of it has been read.
THEOREM EofMeansAll == ProcSpec => []EofIsComplete
BY InvCorrect, InvImpliesEof, PTL

\* The result of a process nobody piped holds all its runners wrote.
THEOREM CaptureMeansAll == ProcSpec => []CaptureComplete
BY InvCorrect, InvImpliesCapture, PTL

\* No runner meets its own output closed in its first Run.
THEOREM FirstRunHeard == ProcSpec => []FirstRunIsHeard
<1>1. ProcessInv => FirstRunIsHeard
  BY DEF ProcessInv, RunInv, FirstRunIsHeard
<1>2. QED
  BY <1>1, InvCorrect, PTL
============================================================================
