------------------------------ MODULE Pipeline ------------------------------
(***************************************************************************)
(* sandbox.Pipeline (src/sandbox/pipeline.go): n stages, each a Process,   *)
(* with the stdout of stage i as the stdin of stage i+1 and the pipeline's *)
(* buffers as the capture buffers of stage n.  Run makes or takes over the *)
(* processes, wires them, runs each in a goroutine, waits for all of them  *)
(* and joins their errors.  Stage i is process i of the module Process,    *)
(* whose actions are the steps of the stages here.                         *)
(*                                                                         *)
(* A stage in Wrapped is a Process of the caller (StageWithName): it keeps *)
(* its configuration and its pipes from one Run of the pipeline to the     *)
(* next, and the caller may configure it and write to it at any time.  The *)
(* other stages get a new Process in every Run.                            *)
(***************************************************************************)
EXTENDS Process

CONSTANTS
  N,        \* bound: the most stages a pipeline has
  Wrapped,  \* stages made with StageWithName
  Timeout   \* TRUE: the call is RunWithTimeout, whose deadline may pass

ASSUME PipeAssumption ==
  /\ N \in Nat /\ Procs = 1..N
  /\ Wrapped \subseteq Procs /\ "stdout" \in Fds
  /\ Timeout \in BOOLEAN

VARIABLES
  n,        \* len(p.stages)
  main,     \* where the goroutine in Pipeline.Run is
  link,     \* the next link to wire
  errCh,    \* the channel the stages send their errors on
  sent,     \* the stages whose goroutine has ended
  expired,  \* the deadline of the context has passed
  resErr,   \* result.Err: the errors joined
  resOut,   \* result.Stdout and result.Stderr
  pruns     \* calls of Pipeline.Run so far

lvars == <<n, main, link, errCh, sent, expired, resErr, resOut, pruns>>
vars  == <<pvars, lvars>>

Stages == 1..n

\* (bug: the processes of the first Run are kept for the next)
Fresh_FirstRunOnly == IF pruns > 0 THEN {} ELSE Stages \ Wrapped

\* the stages Run makes a process for
Fresh  == Stages \ Wrapped
out(i) == <<i, "stdout">>

PipeInit ==
  /\ ProcInit
  /\ n \in 0..N
  /\ main = "setup" /\ link = 1 /\ pruns = 0
  /\ errCh = <<>> /\ sent = {} /\ expired = FALSE
  /\ resErr = {} /\ resOut = [fd \in Fds |-> <<>>]

----------------------------------------------------------------------------
(* Pipeline.Run: the prologue.                                             *)

RunEmpty ==
  /\ main \in {"setup", "returned"} /\ n = 0 /\ pruns < MaxRuns
  /\ main' = "returned"
  /\ resErr' = {"no stages"} /\ resOut' = [fd \in Fds |-> <<>>]
  /\ pruns' = pruns + 1
  /\ UNCHANGED <<pvars, n, link, errCh, sent, expired>>

\* NewProcess for the stages in S: every field at its zero value
Renew(f, S, v) == [p \in Procs |-> IF p \in S THEN v ELSE f[p]]
RenewAt(f, S, v) == [q \in DOMAIN f |-> IF q[1] \in S THEN v ELSE f[q]]

\* Processes for all stages.  The buffers of stage n are the pipeline's, which
\* outlive the process: they stay, and so does the history of what went into
\* them.  (A new last process has them from here on and not from GiveBuffers
\* on: no other goroutine knows that process.)
Create ==
  /\ main \in {"setup", "returned"} /\ n > 0 /\ pruns < MaxRuns
  /\ main' = "link" /\ link' = 1
  /\ errCh' = <<>> /\ sent' = {} /\ expired' = FALSE
  /\ resErr' = {} /\ resOut' = [fd \in Fds |-> <<>>]
  /\ pruns' = pruns + 1
  /\ in'       = Renew(in, Fresh, Nil)
  /\ custom'   = RenewAt(custom, Fresh, FALSE)
  /\ hasBuf'   = RenewAt(hasBuf, Fresh \ {n}, FALSE)
  /\ buf'      = RenewAt(buf, Fresh \ {n}, <<>>)
  /\ pipe'     = RenewAt(pipe, Fresh, "nil")
  /\ pend'     = RenewAt(pend, Fresh, <<>>)
  /\ pc'       = Renew(pc, Stages, "idle")
  /\ src'      = Renew(src, Fresh, Nil)
  /\ dst'      = RenewAt(dst, Fresh, "none")
  /\ eof'      = Renew(eof, Stages, FALSE)
  /\ err'      = Renew(err, Fresh, "nil")
  /\ captured' = RenewAt(captured, Fresh, <<>>)
  /\ runs'     = Renew(runs, Fresh, 0)
  /\ wpc'      = Renew(wpc, Fresh, "idle")
  /\ wrote'    = RenewAt(wrote, Fresh \ {n}, <<>>)
  /\ recv'     = RenewAt(recv, Fresh, <<>>)
  /\ refused'  = Renew(refused, Fresh, FALSE)
  /\ UNCHANGED n

\* procs[i+1].SetStdin(procs[i].StdoutPipe()); the two lock sections are of two
\* processes, and no call of another goroutine involves both
Link ==
  /\ main = "link" /\ link < n
  /\ pipe' = [pipe EXCEPT ![out(link)] = IF @ = "nil" THEN "open" ELSE @]
  /\ in' = [in EXCEPT ![link + 1] = out(link)]
  /\ link' = link + 1
  /\ UNCHANGED <<custom, hasBuf, buf, pend, wrote, recv, refused, frame, wpc,
                 n, main, errCh, sent, expired, resErr, resOut, pruns>>

\* (bug: new buffers in every Run, as in the commented-out pipeline.go:124)
GiveBuffers_New ==
  /\ main = "link" /\ link = n
  /\ hasBuf' = [e \in Ends |-> hasBuf[e] \/ e[1] = n]
  /\ buf' = RenewAt(buf, {n}, <<>>)
  /\ main' = "running"
  /\ UNCHANGED <<in, custom, pipe, pend, wrote, recv, refused, frame, wpc,
                 n, link, errCh, sent, expired, resErr, resOut, pruns>>

\* The last process gets the pipeline's buffers in place of its own.  A wrapped
\* process that ran or captured before has left nothing in the pipeline's
\* buffers, so their contents are those of the earlier Runs of the pipeline.
GiveBuffers ==
  /\ main = "link" /\ link = n
  /\ hasBuf' = [e \in Ends |-> hasBuf[e] \/ e[1] = n]
  /\ main' = "running"
  /\ UNCHANGED <<in, custom, streams, frame, wpc,
                 n, link, errCh, sent, expired, resErr, resOut, pruns>>

----------------------------------------------------------------------------
(* The stages and the deadline.                                            *)

StageBegin(i) ==
  /\ main = "running" /\ i \in Stages \ sent /\ pc[i] = "idle"
  /\ RunStart(i) \/ RunNoRunner(i)
  /\ UNCHANGED lvars

\* a runner that honours its context may give up once the deadline has passed
StageReturn(i) ==
  /\ \E x \in {"nil", "fail", "deadline"} :
       (x = "deadline" => expired) /\ RunnerReturn(i, x)
  /\ UNCHANGED lvars

StageRead(i)    == RunnerRead(i) /\ UNCHANGED lvars
StageEof(i)     == RunnerEof(i) /\ UNCHANGED lvars
StageWrite(i)   == RunnerOutput(i) /\ UNCHANGED lvars
StageClose(i)   == RunClose(i) /\ UNCHANGED lvars
StageCapture(i) == RunCapture(i) /\ UNCHANGED lvars

\* (bug: the error is sent where it occurs and again at the end)
Sends_Twice(i) == IF err[i] = "nil" THEN <<err[i]>> ELSE <<err[i], err[i]>>
Sends(i) == <<err[i]>>

\* (bug: the channel has no buffer, and is read only after wg.Wait)
Capacity_Unbuffered == 0

\* make(chan error, len(p.stages)); a send blocks while the channel is full
Capacity == n
HasRoom(i) == Len(errCh \o Sends(i)) <= Capacity

\* errCh <- res.Err, then wg.Done
StageSend(i) ==
  /\ main = "running" /\ i \in Stages \ sent /\ pc[i] = "done"
  /\ HasRoom(i)
  /\ errCh' = errCh \o Sends(i)
  /\ sent' = sent \cup {i}
  /\ UNCHANGED <<pvars, n, main, link, expired, resErr, resOut, pruns>>

Deadline ==
  /\ Timeout /\ ~expired /\ main \in {"link", "running"}
  /\ expired' = TRUE
  /\ UNCHANGED <<pvars, n, main, link, errCh, sent, resErr, resOut, pruns>>

\* the caller's own goroutines, on the processes it wrapped
Client(i) == i \in Wrapped /\ (Configure(i) \/ Feed(i)) /\ UNCHANGED lvars
ClientWrite(i) == i \in Wrapped /\ WriteStep(i) /\ UNCHANGED lvars

----------------------------------------------------------------------------
(* Pipeline.Run: wg.Wait, and the errors and buffers collected after it.   *)
(* The exit code is not a variable: it is 1 exactly when resErr has a member.*)

\* (bug: a nil error is joined with the others)
Collected_KeepsNil(ch) == {ch[k] : k \in DOMAIN ch}

\* (bug: the first stage to end decides)
Collected_First(ch) == {ch[1]} \ {"nil"}
Collected(ch) == {ch[k] : k \in DOMAIN ch} \ {"nil"}

\* (bug: the wait is missing)
AllEnded_NoWait == TRUE
AllEnded == sent = Stages

Collect ==
  /\ main = "running" /\ AllEnded
  /\ main' = "returned"
  /\ resErr' = Collected(errCh)
  /\ resOut' = [fd \in Fds |-> buf[<<n, fd>>]]
  /\ UNCHANGED <<pvars, n, link, errCh, sent, expired, pruns>>

----------------------------------------------------------------------------
Prologue == RunEmpty \/ Create \/ Link \/ GiveBuffers

StageNext(i) ==
  \/ StageBegin(i) \/ StageRead(i) \/ StageEof(i) \/ StageWrite(i)
  \/ StageReturn(i) \/ StageClose(i) \/ StageCapture(i) \/ StageSend(i)

PipeNext ==
  \/ Prologue \/ Collect \/ Deadline
  \/ \E i \in Procs : StageNext(i) \/ Client(i) \/ ClientWrite(i)

\* Goroutines that can run do; a runner that can read its input reads it, and
\* returns once it can.  What it writes is its own choice, and so is what the
\* caller does with a process it wrapped, but a Write that can return returns.
PipeFairness ==
  /\ WF_vars(Link) /\ WF_vars(GiveBuffers) /\ WF_vars(Collect)
  /\ \A i \in Procs :
       /\ WF_vars(StageBegin(i)) /\ WF_vars(StageRead(i)) /\ WF_vars(StageEof(i))
       /\ WF_vars(StageReturn(i)) /\ WF_vars(StageClose(i))
       /\ WF_vars(StageCapture(i)) /\ WF_vars(StageSend(i))
       /\ WF_vars(ClientWrite(i))

PipeSpec == PipeInit /\ [][PipeNext]_vars
FairPipeSpec == PipeSpec /\ PipeFairness

----------------------------------------------------------------------------
(* Properties.                                                             *)

\* Every variable of Run keeps its type.
LTypeOK ==
  /\ n \in 0..N
  /\ main \in {"setup", "link", "running", "returned"}
  /\ link \in Nat \ {0} /\ (n > 0 => link <= n)
  /\ errCh \in Seq(Errs) /\ Len(errCh) <= n
  /\ sent \subseteq Stages
  /\ expired \in BOOLEAN
  /\ resErr \subseteq (Errs \ {"nil"}) \cup {"no stages"}
  /\ resOut \in [Fds -> Seq(Data)]
  /\ pruns \in Nat

\* No stage ever waits for room on the error channel, which is read only when all
\* have sent (pipeline.go:149): whichever stages have sent so far, whatever they
\* sent, there is room for what each of the others will send.
SendHasRoom == main = "running" => \A i \in Stages \ sent : HasRoom(i)

\* The answer of Run joins the errors of the stages, all of them and no others,
\* though they arrive on one channel in any order.
ErrorsOfAllStages ==
  main = "returned" /\ n > 0 => resErr = {err[i] : i \in Stages} \ {"nil"}

\* The answer of Run holds everything the last stage wrote, in the Runs of this
\* pipeline so far, unless the caller gave that stage a writer of its own.
ResultIsLastOutput ==
  main = "returned" /\ n > 0 =>
    \A fd \in Fds : ~custom[<<n, fd>>] => resOut[fd] = wrote[<<n, fd>>]

\* The doc of Process.Run (process.go:179): a completed Run has closed the
\* writers it owns, so the next stage gets its EOF.  (One without a runner has
\* not: it returns before it looks at them.)
DoneMeansClosed ==
  \A i \in 1..(n - 1) :
    main = "running" /\ pc[i] = "done" /\ i \notin Runnerless
      => pipe[out(i)] = "closed"

\* No stage ever finds its own output pipe closed: "stdout piped from each stage
\* to stdin of the next" (pipeline.go:86) in every Run.  (A process the caller
\* wrapped does, when the pipeline runs it twice: FirstRunIsHeard.)
NoStageRefused == \A i \in Stages \ Wrapped : ~refused[i]

\* A Run of stages that read their input to the end returns: the EOFs go down
\* the pipeline, no stage waits for one that waits for it, and none is left
\* waiting to send its error.
RunReturns == (main = "running") ~> (main = "returned")

\* A caller blocked in Write on the stdin that a stage it wrapped is running on
\* gets out, when the stages after that one read their input.  (A first Write
\* that comes after the stage closed its pipes is not covered: it makes a pipe
\* nobody reads or closes, and hangs.)
FedStageReleases ==
  \A i \in Wrapped :
    (wpc[i] = "offered" /\ pc[i] = "running" /\ src[i] = Stdin(i))
      ~> (wpc[i] = "idle")

\* The doc of RunWithTimeout (pipeline.go:176): when the deadline passes first,
\* execution is cancelled and the call returns.
DeadlineEnds == (main = "running" /\ expired) ~> (main = "returned")

\* Run implements fork and join over the stages.
phase == IF main = "running" THEN "forked"
         ELSE IF main = "returned" THEN "joined" ELSE "ready"
failed == {i \in sent : err[i] # "nil"}
verdict == IF main # "returned" THEN "none"
           ELSE IF resErr = {} THEN "ok" ELSE "failed"

J == INSTANCE ForkJoin WITH
       Tasks <- Procs, phase <- phase, team <- Stages,
       finished <- sent, failed <- failed, verdict <- verdict

RunIsForkJoin == J!JoinSpec
============================================================================
