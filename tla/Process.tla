------------------------------ MODULE Process ------------------------------
(***************************************************************************)
(* sandbox.Process (src/sandbox/process.go): a Runner run with configurable*)
(* standard streams.  A process owns up to three io.Pipe's: the pipes      *)
(* behind StdoutPipe and StderrPipe, which it writes, and the pipe behind  *)
(* Write, which it reads.  Run takes a snapshot of the configured streams  *)
(* under the mutex, calls the runner with no lock held, closes the pipe    *)
(* WRITERS it owns, and then copies out the capture buffers.               *)
(*                                                                         *)
(* Every lock section of the code is one action.  Configuration calls may  *)
(* come from any goroutine, before, during and after a Run.  One goroutine *)
(* at a time is inside Run of a given process, and one inside Write.       *)
(* The runner is arbitrary code: it reads, writes and returns in any order,*)
(* but it is sequential, so a blocked Write keeps it from going on.        *)
(*                                                                         *)
(* io.Pipe is not part of the repository.  It is a rendezvous: a Write     *)
(* blocks until readers took all of it or the pipe is closed, a Read takes *)
(* any non-empty part of a blocked Write, and a closed pipe reads as EOF.  *)
(***************************************************************************)
EXTENDS Naturals, Sequences

CONSTANTS
  Procs,       \* the processes
  Fds,         \* the output streams the instance looks at
  Runnerless,  \* those built with a nil runner
  Drainers,    \* those whose runner returns only after EOF on its stdin
  Ops,         \* the configuration calls the instance makes
  Data,        \* the units the streams carry
  MaxChunk,    \* bound: units per Write
  MaxUnits,    \* bound: units written to one stream in the whole behaviour
  MaxRuns,     \* bound: Runs of one process
  Nil,         \* no reader configured (p.in = nil)
  Bytes        \* a finite in-memory reader (bytes.Buffer, strings.Reader)

Ends  == Procs \X Fds
Pipes == Procs \X ({"stdin"} \cup Fds)
Stdin(p) == <<p, "stdin">>

ASSUME ProcAssumption ==
  /\ Runnerless \subseteq Procs
  /\ Drainers \subseteq Procs
  /\ Fds \subseteq {"stdout", "stderr"}
  /\ MaxChunk \in Nat /\ MaxUnits \in Nat /\ MaxRuns \in Nat
  /\ Nil \notin Pipes /\ Bytes \notin Pipes /\ Nil # Bytes

Sources == {Nil, Bytes} \cup Pipes
Chunks  == UNION {[1..k -> Data] : k \in 1..MaxChunk}
Errs    == {"nil", "fail", "deadline"}

VARIABLES
  in,        \* p.in: the reader SetStdin or Write configured
  custom,    \* p.out / p.err set by SetStdout / SetStderr
  hasBuf,    \* p.outBuf / p.errBuf is not nil
  buf,       \* its contents
  pipe,      \* "nil", "open" or "closed", for each of the owned pipes
  pend,      \* what readers have not taken yet of the Write blocked on a pipe
  pc,        \* where the goroutine in Run is
  src,       \* Run's local `in`
  dst,       \* Run's locals `out` and `errOut`
  eof,       \* the runner has seen the end of its stdin
  err,       \* result.Err
  captured,  \* result.Stdout and result.Stderr
  runs,      \* calls of Run so far
  wpc,       \* where the goroutine in Write is
  wrote,     \* history: the units each stream's writer was told are written,
             \* with those of a Write still blocked
  recv,      \* history: the units readers took from each pipe
  refused    \* history: a Write of the runner met its own pipe closed

conf    == <<in, custom, hasBuf>>
streams == <<buf, pipe, pend, wrote, recv, refused>>
frame   == <<pc, src, dst, eof, err, captured, runs>>
pvars   == <<conf, streams, frame, wpc>>

ProcInit ==
  /\ in       = [p \in Procs |-> Nil]
  /\ custom   = [e \in Ends |-> FALSE]
  /\ hasBuf   = [e \in Ends |-> FALSE]
  /\ buf      = [e \in Ends |-> <<>>]
  /\ pipe     = [q \in Pipes |-> "nil"]
  /\ pend     = [q \in Pipes |-> <<>>]
  /\ pc       = [p \in Procs |-> "idle"]
  /\ src      = [p \in Procs |-> Nil]
  /\ dst      = [e \in Ends |-> "none"]
  /\ eof      = [p \in Procs |-> FALSE]
  /\ err      = [p \in Procs |-> "nil"]
  /\ captured = [e \in Ends |-> <<>>]
  /\ runs     = [p \in Procs |-> 0]
  /\ wpc      = [p \in Procs |-> "idle"]
  /\ wrote    = [q \in Pipes |-> <<>>]
  /\ recv     = [q \in Pipes |-> <<>>]
  /\ refused  = [p \in Procs |-> FALSE]

----------------------------------------------------------------------------
(* Configuration: each call is one lock section.                           *)

\* (bug: StdoutPipe without its nil check makes a new pipe on every call)
OpenPipe_EveryCall(e) ==
  /\ pipe' = [pipe EXCEPT ![e] = "open"]
  /\ pend' = [pend EXCEPT ![e] = <<>>]
  /\ UNCHANGED <<conf, buf, wrote, recv, refused, frame, wpc>>

\* StdoutPipe, StderrPipe
OpenPipe(e) ==
  /\ pipe[e] = "nil"
  /\ pipe' = [pipe EXCEPT ![e] = "open"]
  /\ UNCHANGED <<conf, buf, pend, wrote, recv, refused, frame, wpc>>

\* CaptureStdout, CaptureStderr
Capture(e) ==
  /\ ~hasBuf[e]
  /\ hasBuf' = [hasBuf EXCEPT ![e] = TRUE]
  /\ UNCHANGED <<in, custom, streams, frame, wpc>>

\* SetStdout, SetStderr, with a writer that never blocks
SetWriter(e) ==
  /\ custom' = [custom EXCEPT ![e] = TRUE]
  /\ UNCHANGED <<in, hasBuf, streams, frame, wpc>>

\* SetStdin with a finite reader or with the reader of an opened pipe
SetStdin(p, r) ==
  /\ in' = [in EXCEPT ![p] = r]
  /\ UNCHANGED <<custom, hasBuf, streams, frame, wpc>>

----------------------------------------------------------------------------
(* Write and Close: the continuous stdin.  Write takes the mutex only to   *)
(* find or make the pipe, and calls the pipe's Write after unlocking.      *)

WriteEnter(p) ==
  LET q == Stdin(p) IN
  /\ wpc[p] = "idle" /\ Len(wrote[q]) < MaxUnits
  /\ wpc' = [wpc EXCEPT ![p] = "entered"]
  /\ \/ /\ pipe[q] = "nil"
        /\ pipe' = [pipe EXCEPT ![q] = "open"]
        /\ in' = [in EXCEPT ![p] = q]
     \/ pipe[q] # "nil" /\ UNCHANGED <<pipe, in>>
  /\ UNCHANGED <<custom, hasBuf, buf, pend, wrote, recv, refused, frame>>

WriteOffer(p, c) ==
  LET q == Stdin(p) IN
  /\ wpc[p] = "entered" /\ pipe[q] = "open"
  /\ Len(wrote[q]) + Len(c) <= MaxUnits
  /\ wpc' = [wpc EXCEPT ![p] = "offered"]
  /\ pend' = [pend EXCEPT ![q] = c]
  /\ wrote' = [wrote EXCEPT ![q] = @ \o c]
  /\ UNCHANGED <<conf, buf, pipe, recv, refused, frame>>

\* io.ErrClosedPipe before anything was taken
WriteRefused(p) ==
  /\ wpc[p] = "entered" /\ pipe[Stdin(p)] = "closed"
  /\ wpc' = [wpc EXCEPT ![p] = "idle"]
  /\ UNCHANGED <<conf, streams, frame>>

\* all of it was taken: (len(b), nil)
WriteReturn(p) ==
  /\ wpc[p] = "offered" /\ pend[Stdin(p)] = <<>>
  /\ wpc' = [wpc EXCEPT ![p] = "idle"]
  /\ UNCHANGED <<conf, streams, frame>>

\* (bug: Write reports len(b) whatever was taken)
WriteAbort_FullCount(p) ==
  LET q == Stdin(p) IN
  /\ wpc[p] = "offered" /\ pend[q] # <<>> /\ pipe[q] = "closed"
  /\ wpc' = [wpc EXCEPT ![p] = "idle"]
  /\ pend' = [pend EXCEPT ![q] = <<>>]
  /\ UNCHANGED <<conf, buf, pipe, wrote, recv, refused, frame>>

\* the pipe was closed first: a short count and io.ErrClosedPipe
WriteAbort(p) ==
  LET q == Stdin(p) IN
  /\ wpc[p] = "offered" /\ pend[q] # <<>> /\ pipe[q] = "closed"
  /\ wpc' = [wpc EXCEPT ![p] = "idle"]
  /\ pend' = [pend EXCEPT ![q] = <<>>]
  /\ wrote' = [wrote EXCEPT ![q] = recv[q]]
  /\ UNCHANGED <<conf, buf, pipe, recv, refused, frame>>

CloseStdin(p) ==
  /\ pipe[Stdin(p)] = "open"
  /\ pipe' = [pipe EXCEPT ![Stdin(p)] = "closed"]
  /\ UNCHANGED <<conf, buf, pend, wrote, recv, refused, frame, wpc>>

----------------------------------------------------------------------------
(* Run and RunWithIO.                                                      *)

\* RunWithIO's own lock section; Run then takes the mutex again
RunWithIO(p, r) ==
  /\ pc[p] \in {"idle", "done"} /\ runs[p] < MaxRuns
  /\ in' = [in EXCEPT ![p] = r]
  /\ pc' = [pc EXCEPT ![p] = "entered"]
  /\ UNCHANGED <<custom, hasBuf, streams, src, dst, eof, err, captured, runs, wpc>>

Callable(p) == pc[p] \in {"idle", "entered", "done"} /\ runs[p] < MaxRuns

\* no runner: Run returns before it touches anything
RunNoRunner(p) ==
  /\ Callable(p) /\ p \in Runnerless
  /\ pc' = [pc EXCEPT ![p] = "done"]
  /\ err' = [err EXCEPT ![p] = "fail"]
  /\ captured' = [e \in Ends |-> IF e[1] = p THEN <<>> ELSE captured[e]]
  /\ runs' = [runs EXCEPT ![p] = @ + 1]
  /\ UNCHANGED <<conf, streams, src, dst, eof, wpc>>

\* (bug: no buffer is made for a stream nobody configured)
Target_NoDefault(e) ==
  IF custom[e] THEN "writer"
  ELSE IF hasBuf[e] THEN "buffer"
  ELSE IF pipe[e] # "nil" THEN "pipe" ELSE "nil"

\* where Run sends a stream: the set writer, else the capture buffer, else
\* the pipe, else a capture buffer it makes
Target(e) ==
  IF custom[e] THEN "writer"
  ELSE IF ~hasBuf[e] /\ pipe[e] # "nil" THEN "pipe"
  ELSE "buffer"

\* (bug: the buffer Run makes is not kept in p.outBuf)
KeepsBuffer_Never(e) == FALSE
KeepsBuffer(e) == Target(e) = "buffer"

RunStart(p) ==
  /\ Callable(p) /\ p \notin Runnerless
  /\ pc' = [pc EXCEPT ![p] = "running"]
  /\ src' = [src EXCEPT ![p] = in[p]]
  /\ dst' = [e \in Ends |-> IF e[1] = p THEN Target(e) ELSE dst[e]]
  /\ hasBuf' = [e \in Ends |-> hasBuf[e] \/ (e[1] = p /\ KeepsBuffer(e))]
  /\ eof' = [eof EXCEPT ![p] = FALSE]
  /\ err' = [err EXCEPT ![p] = "nil"]
  /\ captured' = [e \in Ends |-> IF e[1] = p THEN <<>> ELSE captured[e]]
  /\ runs' = [runs EXCEPT ![p] = @ + 1]
  /\ UNCHANGED <<in, custom, streams, wpc>>

\* the runner sits in a Write to one of its own pipes
Blocked(p) == \E fd \in Fds : pend[<<p, fd>>] # <<>>
Active(p)  == pc[p] = "running" /\ ~Blocked(p)

\* a reader takes the first k units of the blocked Write
Take(q, k) ==
  /\ pipe[q] = "open"
  /\ recv' = [recv EXCEPT ![q] = @ \o SubSeq(pend[q], 1, k)]
  /\ pend' = [pend EXCEPT ![q] = SubSeq(@, k + 1, Len(@))]

RunnerRead(p) ==
  /\ Active(p) /\ src[p] \in Pipes
  /\ \E k \in 1..Len(pend[src[p]]) : Take(src[p], k)
  /\ UNCHANGED <<conf, buf, pipe, wrote, refused, frame, wpc>>

\* a goroutine of the client reads the reader StdoutPipe or StderrPipe gave it
ClientRead(e) ==
  /\ \E k \in 1..Len(pend[e]) : Take(e, k)
  /\ UNCHANGED <<conf, buf, pipe, wrote, refused, frame, wpc>>

RunnerEof(p) ==
  /\ Active(p) /\ ~eof[p]
  /\ src[p] \in Pipes => pipe[src[p]] = "closed"
  /\ eof' = [eof EXCEPT ![p] = TRUE]
  /\ UNCHANGED <<conf, streams, pc, src, dst, err, captured, runs, wpc>>

RunnerWrite(p, fd, c) ==
  LET e == <<p, fd>> IN
  /\ Active(p) /\ Len(wrote[e]) + Len(c) <= MaxUnits
  /\ wrote' = [wrote EXCEPT ![e] = @ \o c]
  /\ \/ dst[e] = "writer" /\ UNCHANGED <<buf, pend>>
     \/ dst[e] = "buffer" /\ buf' = [buf EXCEPT ![e] = @ \o c] /\ UNCHANGED pend
     \/ /\ dst[e] = "pipe" /\ pipe[e] = "open"
        /\ pend' = [pend EXCEPT ![e] = c] /\ UNCHANGED buf
  /\ UNCHANGED <<conf, pipe, recv, refused, frame, wpc>>

\* a Write to a pipe that is closed already: io.ErrClosedPipe, nothing is sent
RunnerRefused(p, fd) ==
  /\ Active(p) /\ dst[<<p, fd>>] = "pipe" /\ pipe[<<p, fd>>] = "closed"
  /\ refused' = [refused EXCEPT ![p] = TRUE]
  /\ UNCHANGED <<conf, buf, pipe, pend, wrote, recv, frame, wpc>>

RunnerReturn(p, x) ==
  /\ Active(p) /\ (p \in Drainers => eof[p])
  /\ pc' = [pc EXCEPT ![p] = "returned"]
  /\ err' = [err EXCEPT ![p] = x]
  /\ UNCHANGED <<conf, streams, src, dst, eof, captured, runs, wpc>>

\* the writers Run closes; it never closes a reader
OwnedBy(p) == {q \in Pipes : q[1] = p}

\* (bug: the stdin writer is left open)
Closes_Outputs(p) == {q \in OwnedBy(p) : q[2] # "stdin"}
\* (bug: an error of the runner skips the closing)
Closes_OnSuccess(p) == {q \in OwnedBy(p) : err[p] = "nil"}
Closes(p) == OwnedBy(p)

\* (bug: the pipes are closed while the runner may still write)
RunClose_Early(p) ==
  /\ pc[p] \in {"running", "returned"}
  /\ pc' = [pc EXCEPT ![p] = IF @ = "returned" THEN "closed" ELSE @]
  /\ pipe' = [q \in Pipes |->
                IF q \in Closes(p) /\ pipe[q] = "open" THEN "closed" ELSE pipe[q]]
  /\ UNCHANGED <<conf, buf, pend, wrote, recv, refused,
                 src, dst, eof, err, captured, runs, wpc>>

RunClose(p) ==
  /\ pc[p] = "returned"
  /\ pc' = [pc EXCEPT ![p] = "closed"]
  /\ pipe' = [q \in Pipes |->
                IF q \in Closes(p) /\ pipe[q] = "open" THEN "closed" ELSE pipe[q]]
  /\ UNCHANGED <<conf, buf, pend, wrote, recv, refused,
                 src, dst, eof, err, captured, runs, wpc>>

\* The result is a copy here and in the code a slice of the buffer, which a later
\* Run only appends to: what the slice shows does not change either way.
RunCapture(p) ==
  /\ pc[p] = "closed"
  /\ pc' = [pc EXCEPT ![p] = "done"]
  /\ captured' = [e \in Ends |->
                    IF e[1] = p /\ hasBuf[e] THEN buf[e] ELSE captured[e]]
  /\ UNCHANGED <<conf, streams, src, dst, eof, err, runs, wpc>>

----------------------------------------------------------------------------
Configure(p) ==
  \/ "pipe"    \in Ops /\ \E fd \in Fds : OpenPipe(<<p, fd>>)
  \/ "capture" \in Ops /\ \E fd \in Fds : Capture(<<p, fd>>)
  \/ "writer"  \in Ops /\ \E fd \in Fds : SetWriter(<<p, fd>>)
  \/ "stdin"   \in Ops /\ SetStdin(p, Bytes)
  \/ "join"    \in Ops /\ \E e \in Ends :
                            e[1] # p /\ pipe[e] # "nil" /\ SetStdin(p, e)

\* the call of Write after it has begun
WriteStep(p) ==
  \/ \E c \in Chunks : WriteOffer(p, c)
  \/ WriteRefused(p) \/ WriteReturn(p) \/ WriteAbort(p)

Feed(p) == "write" \in Ops /\ (WriteEnter(p) \/ CloseStdin(p))

\* the code of Run, with the runner it calls
RunnerOutput(p) ==
  \E fd \in Fds : (\E c \in Chunks : RunnerWrite(p, fd, c)) \/ RunnerRefused(p, fd)

RunStep(p) ==
  \/ RunStart(p) \/ RunNoRunner(p)
  \/ RunnerRead(p) \/ RunnerEof(p) \/ RunnerOutput(p)
  \/ \E x \in {"nil", "fail"} : RunnerReturn(p, x)
  \/ RunClose(p) \/ RunCapture(p)

CallRunWithIO(p) == "runio" \in Ops /\ RunWithIO(p, Bytes)
ClientReads == "read" \in Ops /\ \E e \in Ends : ClientRead(e)

ProcNext ==
  \/ \E p \in Procs : \/ Configure(p) \/ Feed(p) \/ WriteStep(p)
                      \/ RunStep(p) \/ CallRunWithIO(p)
  \/ ClientReads

\* A runner that can read, or that has nothing left to do but return, does so
\* at last; the code after it does not stop between its lock sections; a Write
\* that can return returns.
ProcFairness ==
  \A p \in Procs :
    /\ WF_pvars(RunnerRead(p)) /\ WF_pvars(RunnerEof(p))
    /\ WF_pvars(\E x \in {"nil", "fail"} : RunnerReturn(p, x))
    /\ WF_pvars(RunClose(p)) /\ WF_pvars(RunCapture(p))
    /\ WF_pvars(WriteStep(p))

ProcSpec == ProcInit /\ [][ProcNext]_pvars
FairProcSpec == ProcSpec /\ ProcFairness

----------------------------------------------------------------------------
(* Properties.                                                             *)

\* Every variable keeps its type; a stream's blocked Write exists only on a
\* pipe, and what it holds is data (io.PipeWriter.Write's argument).
PTypeOK ==
  /\ in       \in [Procs -> Sources]
  /\ custom   \in [Ends -> BOOLEAN]
  /\ hasBuf   \in [Ends -> BOOLEAN]
  /\ buf      \in [Ends -> Seq(Data)]
  /\ pipe     \in [Pipes -> {"nil", "open", "closed"}]
  /\ pend     \in [Pipes -> Seq(Data)]
  /\ pc       \in [Procs -> {"idle", "entered", "running", "returned",
                             "closed", "done"}]
  /\ src      \in [Procs -> Sources]
  /\ dst      \in [Ends -> {"none", "writer", "buffer", "pipe"}]
  /\ eof      \in [Procs -> BOOLEAN]
  /\ err      \in [Procs -> Errs]
  /\ captured \in [Ends -> Seq(Data)]
  /\ runs     \in [Procs -> Nat]
  /\ wpc      \in [Procs -> {"idle", "entered", "offered"}]
  /\ wrote    \in [Pipes -> Seq(Data)]
  /\ recv     \in [Pipes -> Seq(Data)]
  /\ refused  \in [Procs -> BOOLEAN]

\* A stream that is neither captured nor sent to a writer of the caller
Piped(e) == ~hasBuf[e] /\ ~custom[e]

\* The readers of StdoutPipe and StderrPipe get exactly what the runner wrote,
\* in order, nothing twice, whoever shares the reading and however often the
\* process is run; the same holds of stdin for what Write reported as written.
\* (Not of a stream that is captured too: that goes to the buffer alone, which
\* the doc of StdoutPipe, process.go:84, does not say.)
PipeConservation ==
  \A q \in Pipes : q[2] = "stdin" \/ Piped(q) => wrote[q] = recv[q] \o pend[q]

\* A runner that reads the stdout of another process until EOF has read all
\* that process wrote: Run closes a pipe only after the last Write to it ended.
\* (Again not from a stream that is captured too: its pipe has only the end.)
EofIsComplete ==
  \A p \in Procs :
    eof[p] /\ src[p] \in Ends /\ Piped(src[p]) => recv[src[p]] = wrote[src[p]]

\* The ProcessResult of a process with neither pipe nor writer on a stream holds
\* everything its runners wrote to it, those of the earlier Runs included.
CaptureComplete ==
  \A e \in Ends :
    pc[e[1]] = "done" /\ e[1] \notin Runnerless /\ pipe[e] = "nil" /\ ~custom[e]
      => captured[e] = wrote[e]

\* Only a second Run of a process can meet its own output pipe closed, because
\* the first Run closed it and StdoutPipe never makes another.
FirstRunIsHeard == \A p \in Procs : refused[p] => runs[p] > 1

\* A caller blocked in Write on the stdin of a running runner gets out, by the
\* runner reading or by Run closing the pipe, unless the runner itself hangs on
\* an output pipe nobody reads.
WriterReleased ==
  \A p \in Procs :
    (wpc[p] = "offered" /\ pc[p] = "running" /\ src[p] = Stdin(p))
      ~> (wpc[p] = "idle" \/ Blocked(p))

\* What the doc of Write promises (process.go:154): writing goes on "to the
\* process while it runs", so a Write during a Run is one the runner can read.
WriteReachesRunner ==
  \A p \in Procs :
    wpc[p] = "offered" /\ pc[p] = "running" /\ in[p] = Stdin(p) => src[p] = in[p]
============================================================================
