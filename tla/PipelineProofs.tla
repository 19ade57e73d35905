--------------------------- MODULE PipelineProofs ---------------------------
(***************************************************************************)
(* What TLAPS proves of Pipeline, for every number of stages, every choice *)
(* of wrapped stages, every set of units and every bound.                  *)
(***************************************************************************)
EXTENDS Pipeline, ProcessProofs, FiniteSetTheorems

----------------------------------------------------------------------------
(* The steps of a pipeline, sorted by what they do to the processes.       *)

\* Stages are processes.
LEMMA StagesAreProcs ==
  ASSUME LTypeOK
  PROVE  /\ n \in Nat /\ Stages \subseteq Procs /\ Fresh \subseteq Stages
         /\ \A i \in Procs : i \in Int
         /\ \A i \in Procs : out(i) \in Ends /\ out(i) \in Pipes
         /\ n > 0 => n \in Stages
<1>0. n \in 0..N /\ N \in Nat
  BY PipeAssumption DEF LTypeOK
<1>1. n \in Nat /\ n <= N
  BY <1>0
<1>2. \A i \in Procs : out(i) \in Ends /\ out(i) \in Pipes
  BY PipeAssumption, EndsArePipes DEF out
<1>3. Procs = 1..N /\ N \in Nat
  BY PipeAssumption
<1>4. Stages \subseteq Procs /\ Fresh \subseteq Stages
  BY <1>1, <1>3 DEF Stages, Fresh
<1>5. (\A i \in Procs : i \in Int) /\ (n > 0 => n \in Stages)
  BY <1>1, <1>3 DEF Stages
<1>6. QED
  BY <1>1, <1>2, <1>4, <1>5

\* A step of a stage or of the caller is a step of one process.
StageStep(i) ==
  \/ RunStart(i) \/ RunNoRunner(i) \/ RunnerRead(i) \/ RunnerEof(i)
  \/ RunnerOutput(i) \/ (\E x \in Errs : RunnerReturn(i, x))
  \/ RunClose(i) \/ RunCapture(i)

\* when a stage's goroutine may take it
May(i) ==
  \/ main = "running" /\ i \in Stages \ sent /\ pc[i] = "idle"
  \/ pc[i] \in {"running", "returned", "closed"}

\* What a step of a stage's goroutine is.
LEMMA StageKinds ==
  ASSUME NEW i \in Procs, StageNext(i), ~StageSend(i)
  PROVE  StageStep(i) /\ May(i) /\ UNCHANGED lvars
<1>1. CASE StageReturn(i)
  BY <1>1 DEF StageReturn, StageStep, Errs, May, RunnerReturn, Active
<1>2. CASE StageBegin(i)
  BY <1>2 DEF StageBegin, StageStep, May
<1>3. CASE StageRead(i) \/ StageEof(i)
  BY <1>3 DEF StageRead, StageEof, StageStep, May, RunnerRead, RunnerEof, Active
<1>4. CASE StageWrite(i)
  BY <1>4 DEF StageWrite, StageStep, May, RunnerOutput, RunnerWrite, RunnerRefused, Active
<1>5. CASE StageClose(i) \/ StageCapture(i)
  BY <1>5 DEF StageClose, StageCapture, StageStep, May, RunClose, RunCapture
<1>6. QED
  BY <1>1, <1>2, <1>3, <1>4, <1>5 DEF StageNext

\* What every step is, seen from the processes.
LEMMA StepKinds ==
  ASSUME [PipeNext]_vars
  PROVE  \/ UNCHANGED pvars
         \/ Create \/ Link \/ GiveBuffers
         \/ \E i \in Procs : StageStep(i) /\ May(i) /\ UNCHANGED lvars
         \/ \E i \in Wrapped : /\ Configure(i) \/ Feed(i) \/ WriteStep(i)
                               /\ UNCHANGED lvars
<1>1. CASE UNCHANGED vars
  BY <1>1 DEF vars
<1>2. CASE RunEmpty \/ Collect \/ Deadline
  BY <1>2 DEF RunEmpty, Collect, Deadline
<1>3. ASSUME NEW i \in Procs, StageNext(i)
      PROVE  UNCHANGED pvars \/ (StageStep(i) /\ May(i) /\ UNCHANGED lvars)
  <2>1. CASE StageSend(i)
    BY <2>1 DEF StageSend
  <2>2. CASE ~StageSend(i)
    BY <1>3, <2>2, StageKinds
  <2>3. QED
    BY <2>1, <2>2
<1>4. ASSUME NEW i \in Procs, Client(i) \/ ClientWrite(i)
      PROVE  i \in Wrapped /\ (Configure(i) \/ Feed(i) \/ WriteStep(i)) /\ UNCHANGED lvars
  BY <1>4 DEF Client, ClientWrite
<1>5. QED
  BY <1>1, <1>2, <1>3, <1>4 DEF PipeNext, Prologue

LEMMA StageStepType ==
  ASSUME PTypeOK, NEW i \in Procs, StageStep(i)
  PROVE  PTypeOK'
BY BeginType, ReadType, RunnerType, EndType DEF StageStep

LEMMA StageStepInv ==
  ASSUME PTypeOK, ProcessInv, NEW i \in Procs, StageStep(i)
  PROVE  ProcessInv'
BY BeginInv, ReadInv, RunnerInv, EndInv DEF StageStep

----------------------------------------------------------------------------
(* Types.                                                                  *)

\* The wiring keeps types.
LEMMA WiringType ==
  ASSUME PTypeOK, LTypeOK, Create \/ Link \/ GiveBuffers
  PROVE  PTypeOK'
<1>0. /\ <<>> \in Seq(Data) /\ Nil \in Sources
      /\ Stages \subseteq Procs /\ Fresh \subseteq Procs
  BY EmptySeq, StagesAreProcs DEF Sources
<1>1. CASE Create
  <2>1. /\ in'   \in [Procs -> Sources]
        /\ pc'   \in [Procs -> {"idle", "entered", "running", "returned",
                                "closed", "done"}]
        /\ src'  \in [Procs -> Sources]
        /\ eof'  \in [Procs -> BOOLEAN]
        /\ err'  \in [Procs -> Errs]
        /\ runs' \in [Procs -> Nat]
        /\ wpc'  \in [Procs -> {"idle", "entered", "offered"}]
        /\ refused' \in [Procs -> BOOLEAN]
    BY <1>0, <1>1 DEF PTypeOK, Create, Renew, Errs
  <2>2. /\ custom' \in [Ends -> BOOLEAN]
        /\ hasBuf' \in [Ends -> BOOLEAN]
        /\ dst' \in [Ends -> {"none", "writer", "buffer", "pipe"}]
        /\ pipe' \in [Pipes -> {"nil", "open", "closed"}]
    BY <1>1 DEF PTypeOK, Create, RenewAt
  <2>3. /\ buf' \in [Ends -> Seq(Data)]
        /\ captured' \in [Ends -> Seq(Data)]
    BY <1>0, <1>1 DEF PTypeOK, Create, RenewAt
  <2>4. /\ pend' \in [Pipes -> Seq(Data)]
        /\ wrote' \in [Pipes -> Seq(Data)]
        /\ recv' \in [Pipes -> Seq(Data)]
    BY <1>0, <1>1 DEF PTypeOK, Create, RenewAt
  <2>5. QED
    BY <2>1, <2>2, <2>3, <2>4 DEF PTypeOK
<1>2. CASE Link
  <2>1. link \in Stages /\ link + 1 \in Procs /\ out(link) \in Pipes /\ out(link) \in Sources
    <3>1. link \in Nat /\ link >= 1 /\ link < n /\ n \in 0..N
      <4>1. link < n
        BY <1>2 DEF Link
      <4>2. link \in Nat \ {0} /\ n \in 0..N
        BY DEF LTypeOK
      <4>3. QED
        BY <4>1, <4>2
    <3>2. N \in Nat
      BY PipeAssumption
    <3>3. link \in 1..n /\ link \in 1..N /\ link + 1 \in 1..N
      BY <3>1, <3>2
    <3>4. QED
      BY <3>3, StagesAreProcs, PipeAssumption DEF Stages, Sources
  <2>2. in' \in [Procs -> Sources]
    BY <1>2, <2>1 DEF Link, PTypeOK
  <2>3. pipe' \in [Pipes -> {"nil", "open", "closed"}]
    BY <1>2, <2>1 DEF Link, PTypeOK
  <2>4. QED
    BY <1>2, <2>2, <2>3 DEF Link, PTypeOK, frame
<1>3. CASE GiveBuffers
  <2>1. hasBuf' \in [Ends -> BOOLEAN]
    <3>1. \A e \in Ends : (hasBuf[e] \/ e[1] = n) \in BOOLEAN
      OBVIOUS
    <3>2. QED
      BY <1>3, <3>1 DEF GiveBuffers
  <2>2. QED
    BY <1>3, <2>1 DEF GiveBuffers, PTypeOK, streams, frame
<1>4. QED
  BY <1>1, <1>2, <1>3

LEMMA PipeNextPType ==
  ASSUME PTypeOK, LTypeOK, [PipeNext]_vars
  PROVE  PTypeOK'
<1>1. Wrapped \subseteq Procs
  BY PipeAssumption
<1>2. QED
  BY <1>1, StepKinds, StutterType, WiringType, StageStepType, ConfigureType, FeedType

----------------------------------------------------------------------------
(* Control: who runs when, and what the error channel holds.               *)

CtlInv ==
  /\ \A i \in Procs \ Stages : pc[i] = "idle"
  /\ main \in {"setup", "link"} => sent = {} /\ \A i \in Procs : pc[i] = "idle"
  /\ main \in {"link", "running"} => n > 0
  /\ \A i \in sent : pc[i] = "done"
  /\ main = "returned" => sent = Stages

ErrInv ==
  /\ main = "returned" /\ n > 0 => resErr = Collected(errCh)
  /\ Collected(errCh) = {err[i] : i \in sent} \ {"nil"}
  /\ Len(errCh) = Cardinality(sent)

MainInv == CtlInv /\ ErrInv

\* The goroutine of a stage leaves the other processes' control alone.
LEMMA StageStepFrame ==
  ASSUME PTypeOK, NEW i \in Procs, StageStep(i)
  PROVE  \A x \in Procs \ {i} : pc'[x] = pc[x] /\ err'[x] = err[x]
<1> SUFFICES ASSUME NEW x \in Procs \ {i} PROVE pc'[x] = pc[x] /\ err'[x] = err[x]
  OBVIOUS
<1>1. CASE RunStart(i) \/ RunNoRunner(i)
  BY <1>1 DEF RunStart, RunNoRunner, PTypeOK
<1>2. CASE RunnerRead(i)
  BY <1>2 DEF RunnerRead, frame
<1>3. CASE RunnerEof(i)
  BY <1>3 DEF RunnerEof
<1>4. CASE RunnerOutput(i)
  BY <1>4 DEF RunnerOutput, RunnerWrite, RunnerRefused, frame
<1>5. CASE \E y \in Errs : RunnerReturn(i, y)
  BY <1>5 DEF RunnerReturn, PTypeOK
<1>6. CASE RunClose(i) \/ RunCapture(i)
  BY <1>6 DEF RunClose, RunCapture, PTypeOK
<1>7. QED
  BY <1>1, <1>2, <1>3, <1>4, <1>5, <1>6 DEF StageStep

\* The calls of a client leave every Run's control alone.
LEMMA ClientFrame ==
  ASSUME NEW i \in Procs, Configure(i) \/ Feed(i) \/ WriteStep(i)
  PROVE  UNCHANGED <<frame, refused>>
<1>1. CASE Configure(i)
  BY <1>1 DEF Configure, OpenPipe, Capture, SetWriter, SetStdin, streams
<1>2. CASE Feed(i)
  BY <1>2 DEF Feed, WriteEnter, CloseStdin
<1>3. CASE WriteStep(i)
  BY <1>3 DEF WriteStep, WriteOffer, WriteRefused, WriteReturn, WriteAbort, streams
<1>4. QED
  BY <1>1, <1>2, <1>3

\* Between GiveBuffers and Collect, and only then, stages move; a stage whose
\* error was sent does not.
LEMMA MayMeans ==
  ASSUME LTypeOK, CtlInv, NEW i \in Procs, May(i)
  PROVE  main = "running" /\ i \in Stages \ sent
<1>1. CASE pc[i] \in {"running", "returned", "closed"}
  <2>1. i \in Stages \ sent
    BY <1>1 DEF CtlInv
  <2>2. main \in {"setup", "link", "running", "returned"}
    BY DEF LTypeOK
  <2>3. QED
    BY <1>1, <2>1, <2>2 DEF CtlInv
<1>2. QED
  BY <1>1 DEF May

\* One more error on the channel.
LEMMA CollectSent ==
  ASSUME NEW ch \in Seq(Errs), NEW x \in Errs
  PROVE  /\ ch \o <<x>> \in Seq(Errs)
         /\ Len(ch \o <<x>>) = Len(ch) + 1
         /\ Collected(ch \o <<x>>) = (Collected(ch) \cup {x}) \ {"nil"}
<1>1. /\ <<x>> \in Seq(Errs) /\ Len(<<x>>) = 1 /\ <<x>>[1] = x
      /\ Len(ch) \in Nat /\ DOMAIN ch = 1..Len(ch)
  BY LenProperties
<1> DEFINE ch2 == ch \o <<x>>
<1>2. /\ ch2 \in Seq(Errs) /\ Len(ch2) = Len(ch) + 1
      /\ \A k \in 1..(Len(ch) + 1) : ch2[k] = IF k <= Len(ch) THEN ch[k] ELSE x
  <2>1. ch2 \in Seq(Errs) /\ Len(ch2) = Len(ch) + 1
    BY <1>1, ConcatProperties
  <2>2. \A k \in 1..(Len(ch) + 1) :
          ch2[k] = IF k <= Len(ch) THEN ch[k] ELSE <<x>>[k - Len(ch)]
    BY <1>1, ConcatProperties
  <2>3. \A k \in 1..(Len(ch) + 1) : ~(k <= Len(ch)) => k - Len(ch) = 1
    BY <1>1
  <2>4. QED
    BY <1>1, <2>1, <2>2, <2>3
<1> HIDE DEF ch2
<1>3. DOMAIN ch2 = 1..(Len(ch) + 1)
  BY <1>2, LenProperties
<1>4. {ch2[k] : k \in 1..(Len(ch) + 1)} = {ch[k] : k \in 1..Len(ch)} \cup {x}
  <2>1. \A k \in 1..Len(ch) : k \in 1..(Len(ch) + 1) /\ ch2[k] = ch[k]
    BY <1>1, <1>2
  <2>2. Len(ch) + 1 \in 1..(Len(ch) + 1) /\ ch2[Len(ch) + 1] = x
    BY <1>1, <1>2
  <2>3. \A k \in 1..(Len(ch) + 1) : k \in 1..Len(ch) \/ k = Len(ch) + 1
    BY <1>1
  <2>4. QED
    BY <2>1, <2>2, <2>3
<1>5. Collected(ch2) = (Collected(ch) \cup {x}) \ {"nil"}
  BY <1>1, <1>3, <1>4 DEF Collected
<1>6. QED
  BY <1>2, <1>5 DEF ch2

\* No more errors than stages.
LEMMA SentIsSmall ==
  ASSUME n \in Nat, sent \subseteq Stages
  PROVE  /\ IsFiniteSet(sent) /\ Cardinality(sent) \in Nat /\ Cardinality(sent) <= n
         /\ \A i : i \notin sent => Cardinality(sent \cup {i}) = Cardinality(sent) + 1
<1>1. IsFiniteSet(Stages) /\ Cardinality(Stages) = n
  BY FS_Interval DEF Stages
<1>2. IsFiniteSet(sent) /\ Cardinality(sent) <= n
  BY <1>1, FS_Subset
<1>3. QED
  BY <1>2, FS_AddElement, FS_CardinalityType

LEMMA PipeInitCtl == PipeInit => PTypeOK /\ LTypeOK /\ MainInv
<1> SUFFICES ASSUME PipeInit PROVE PTypeOK /\ LTypeOK /\ MainInv
  OBVIOUS
<1>1. PTypeOK
  BY InitType DEF PipeInit
<1>2. n \in 0..N /\ N \in Nat
  BY PipeAssumption DEF PipeInit
<1>3. <<>> \in Seq(Errs) /\ <<>> \in Seq(Data) /\ Len(<<>>) = 0
  BY EmptySeq
<1>4. LTypeOK
  <2>1. link \in Nat \ {0} /\ (n > 0 => link <= n)
    BY <1>2 DEF PipeInit
  <2>2. errCh \in Seq(Errs) /\ Len(errCh) <= n
    BY <1>2, <1>3 DEF PipeInit
  <2>3. resOut \in [Fds -> Seq(Data)]
    BY <1>3 DEF PipeInit
  <2>4. main \in {"setup", "link", "running", "returned"}
    BY DEF PipeInit
  <2>5. sent \subseteq Stages /\ expired \in BOOLEAN
    BY DEF PipeInit
  <2>6. resErr \subseteq (Errs \ {"nil"}) \cup {"no stages"}
    BY DEF PipeInit
  <2>7. pruns \in Nat
    BY DEF PipeInit
  <2>8. QED
    BY <1>2, <2>1, <2>2, <2>3, <2>4, <2>5, <2>6, <2>7 DEF LTypeOK
<1>5. MainInv
  <2>1. \A i \in Procs : pc[i] = "idle"
    BY DEF PipeInit, ProcInit
  <2>2. Len(errCh) = Cardinality(sent)
    BY <1>3, FS_EmptySet DEF PipeInit
  <2>3. Collected(errCh) = {}
    BY <1>3, LenProperties DEF PipeInit, Collected
  <2>4. QED
    BY <2>1, <2>2, <2>3 DEF PipeInit, MainInv, CtlInv, ErrInv
<1>6. QED
  BY <1>1, <1>4, <1>5

\* Steps that leave Run's own variables alone.
LEMMA RunFrame ==
  ASSUME PTypeOK, LTypeOK, MainInv, UNCHANGED lvars,
         NEW i, UNCHANGED <<pc, err>> \/ (/\ i \in Stages \ sent /\ main = "running"
                                          /\ \A x \in Procs \ {i} : pc'[x] = pc[x] /\ err'[x] = err[x])
  PROVE  LTypeOK' /\ MainInv'
<1>1. /\ UNCHANGED <<n, main, link, errCh, sent, expired, resErr, resOut, pruns>>
      /\ Stages' = Stages /\ Collected(errCh)' = Collected(errCh)
  BY DEF lvars, Stages, Collected
<1>2. LTypeOK'
  BY <1>1 DEF LTypeOK
<1>3. sent \subseteq Stages /\ Stages \subseteq Procs
  BY StagesAreProcs DEF LTypeOK
<1>4. \A x \in sent : pc'[x] = pc[x] /\ err'[x] = err[x]
  BY <1>3
<1>5. CtlInv'
  BY <1>1, <1>3, <1>4 DEF MainInv, CtlInv
<1>6. {err'[x] : x \in sent} = {err[x] : x \in sent}
  BY <1>4
<1>7. ErrInv'
  BY <1>1, <1>6 DEF MainInv, ErrInv
<1>8. QED
  BY <1>2, <1>5, <1>7 DEF MainInv

\* What Run itself does, one lemma for each of its steps.
LEMMA RunEmptyStep ==
  ASSUME LTypeOK, MainInv, RunEmpty
  PROVE  LTypeOK' /\ MainInv'
<1>1. /\ main' = "returned" /\ resErr' = {"no stages"}
      /\ resOut' = [fd \in Fds |-> <<>>] /\ pruns' = pruns + 1
      /\ UNCHANGED <<pc, err, n, link, errCh, sent, expired>>
  BY DEF RunEmpty, pvars, frame
<1>2. n = 0 /\ n' = n
  BY <1>1 DEF RunEmpty
<1>3. Stages = {} /\ Stages' = {}
  <2>1. Stages = {}
    BY <1>2 DEF Stages
  <2>2. QED
    BY <1>2, <2>1 DEF Stages
<1>4. LTypeOK'
  <2>1. (/\ n \in 0..N /\ link \in Nat \ {0} /\ (n > 0 => link <= n)
         /\ errCh \in Seq(Errs) /\ Len(errCh) <= n
         /\ sent \subseteq Stages /\ expired \in BOOLEAN)'
    BY <1>1, <1>3 DEF LTypeOK, Stages
  <2>2. (resOut \in [Fds -> Seq(Data)])'
    BY <1>1, EmptySeq
  <2>3. (resErr \subseteq (Errs \ {"nil"}) \cup {"no stages"})'
    BY <1>1
  <2>4. (main \in {"setup", "link", "running", "returned"})'
    BY <1>1
  <2>5. pruns' \in Nat
    <3>1. pruns \in Nat /\ pruns' = pruns + 1
      BY <1>1 DEF LTypeOK
    <3>2. QED
      BY <3>1
  <2>6. QED
    BY <2>1, <2>2, <2>3, <2>4, <2>5 DEF LTypeOK
<1>5. CtlInv'
  <2>1. sent = {}
    BY <1>3 DEF LTypeOK
  <2>2. QED
    BY <1>1, <1>3, <2>1 DEF MainInv, CtlInv
<1>6. ErrInv'
  <2>1. ~(n' > 0)
    BY <1>2
  <2>2. Collected(errCh)' = Collected(errCh)
    BY <1>1 DEF Collected
  <2>3. QED
    BY <1>1, <2>1, <2>2 DEF MainInv, ErrInv
<1>7. QED
  BY <1>4, <1>5, <1>6 DEF MainInv

LEMMA CreateStep ==
  ASSUME PTypeOK, LTypeOK, MainInv, Create
  PROVE  LTypeOK' /\ MainInv'
<1>1. /\ n > 0 /\ main' = "link" /\ link' = 1 /\ errCh' = <<>> /\ sent' = {}
      /\ expired' = FALSE /\ resErr' = {} /\ resOut' = [fd \in Fds |-> <<>>]
      /\ pruns' = pruns + 1 /\ pc' = Renew(pc, Stages, "idle") /\ n' = n
  BY DEF Create
<1>2. n \in Nat /\ n \in 0..N /\ Stages' = Stages
  BY <1>1, StagesAreProcs DEF LTypeOK, Stages
<1>3. LTypeOK'
  <2>1. (n \in 0..N)' /\ (link \in Nat \ {0} /\ (n > 0 => link <= n))'
    BY <1>1, <1>2
  <2>2. (errCh \in Seq(Errs) /\ Len(errCh) <= n)'
    BY <1>1, <1>2, EmptySeq
  <2>3. (resOut \in [Fds -> Seq(Data)])'
    BY <1>1, EmptySeq
  <2>4. (sent \subseteq Stages /\ expired \in BOOLEAN)'
    BY <1>1
  <2>5. (main \in {"setup", "link", "running", "returned"})'
    BY <1>1
  <2>6. pruns' \in Nat
    <3>1. pruns \in Nat /\ pruns' = pruns + 1
      BY <1>1 DEF LTypeOK
    <3>2. QED
      BY <3>1
  <2>7. (resErr \subseteq (Errs \ {"nil"}) \cup {"no stages"})'
    BY <1>1
  <2>8. QED
    BY <2>1, <2>2, <2>3, <2>4, <2>5, <2>6, <2>7 DEF LTypeOK
<1>4. CtlInv'
  <2>1. \A i \in Procs : pc'[i] = "idle"
    BY <1>1 DEF MainInv, CtlInv, Renew
  <2>2. QED
    BY <1>1, <1>2, <2>1 DEF CtlInv
<1>5. ErrInv'
  <2>1. Len(errCh') = 0
    BY <1>1, EmptySeq
  <2>2. Collected(errCh)' = {}
    BY <1>1, EmptySeq DEF Collected
  <2>3. Cardinality(sent') = 0
    BY <1>1, FS_EmptySet
  <2>4. QED
    BY <1>1, <2>1, <2>2, <2>3 DEF ErrInv
<1>6. QED
  BY <1>3, <1>4, <1>5 DEF MainInv

LEMMA WireStep ==
  ASSUME LTypeOK, MainInv, Link \/ GiveBuffers
  PROVE  LTypeOK' /\ MainInv'
<1>1. /\ main = "link" /\ main' \in {"link", "running"}
      /\ UNCHANGED <<frame, n, errCh, sent, expired, resErr, resOut, pruns>>
      /\ link' = link \/ (link < n /\ link' = link + 1)
  BY DEF Link, GiveBuffers
<1>2. /\ UNCHANGED <<pc, err, n, errCh, sent, expired, resErr, resOut, pruns>>
      /\ Stages' = Stages
  BY <1>1 DEF frame, Stages
<1>3. LTypeOK'
  <2>1. n \in 0..N /\ N \in Nat /\ link \in Nat \ {0} /\ (n > 0 => link <= n)
    BY PipeAssumption DEF LTypeOK
  <2>2. (link \in Nat \ {0} /\ (n > 0 => link <= n))'
    BY <1>1, <1>2, <2>1
  <2>3. (main \in {"setup", "link", "running", "returned"})'
    BY <1>1
  <2>4. QED
    BY <1>2, <2>2, <2>3 DEF LTypeOK
<1>4. CtlInv'
  BY <1>1, <1>2 DEF MainInv, CtlInv
<1>5. ErrInv'
  <2>1. Collected(errCh)' = Collected(errCh)
    BY <1>2 DEF Collected
  <2>2. main' # "returned"
    BY <1>1
  <2>3. QED
    BY <1>2, <2>1, <2>2 DEF MainInv, ErrInv
<1>6. QED
  BY <1>3, <1>4, <1>5 DEF MainInv

LEMMA CollectStep ==
  ASSUME PTypeOK, LTypeOK, MainInv, Collect
  PROVE  LTypeOK' /\ MainInv'
<1>1. /\ main = "running" /\ sent = Stages /\ main' = "returned"
      /\ resErr' = Collected(errCh) /\ resOut' = [fd \in Fds |-> buf[<<n, fd>>]]
      /\ UNCHANGED <<pc, err, n, link, errCh, sent, expired, pruns>>
  BY DEF Collect, AllEnded, pvars, frame
<1>2. Stages' = Stages /\ Collected(errCh)' = Collected(errCh)
  BY <1>1 DEF Stages, Collected
<1>3. LTypeOK'
  <2>1. (resErr \subseteq (Errs \ {"nil"}) \cup {"no stages"})'
    <3>1. errCh \in Seq(Errs)
      BY DEF LTypeOK
    <3>2. \A k \in DOMAIN errCh : errCh[k] \in Errs
      BY <3>1, LenProperties
    <3>3. QED
      BY <1>1, <3>2 DEF Collected
  <2>2. (resOut \in [Fds -> Seq(Data)])'
    <3>1. n > 0
      BY <1>1 DEF MainInv, CtlInv
    <3>2. n \in Procs
      BY <3>1, StagesAreProcs
    <3>3. \A fd \in Fds : <<n, fd>> \in Ends
      BY <3>2 DEF Ends
    <3>4. \A fd \in Fds : buf[<<n, fd>>] \in Seq(Data)
      BY <3>3 DEF PTypeOK
    <3>5. QED
      BY <1>1, <3>4
  <2>3. (main \in {"setup", "link", "running", "returned"})'
    BY <1>1
  <2>4. QED
    BY <1>1, <1>2, <2>1, <2>2, <2>3 DEF LTypeOK
<1>4. CtlInv'
  BY <1>1, <1>2 DEF MainInv, CtlInv
<1>5. ErrInv'
  BY <1>1, <1>2 DEF MainInv, ErrInv
<1>6. QED
  BY <1>3, <1>4, <1>5 DEF MainInv

LEMMA DeadlineStep ==
  ASSUME LTypeOK, MainInv, Deadline
  PROVE  LTypeOK' /\ MainInv'
<1>1. /\ expired' = TRUE
      /\ UNCHANGED <<pc, err, n, main, link, errCh, sent, resErr, resOut, pruns>>
  BY DEF Deadline, pvars, frame
<1>2. Stages' = Stages /\ Collected(errCh)' = Collected(errCh)
  BY <1>1 DEF Stages, Collected
<1>3. LTypeOK'
  BY <1>1, <1>2 DEF LTypeOK
<1>4. CtlInv' /\ ErrInv'
  BY <1>1, <1>2 DEF MainInv, CtlInv, ErrInv
<1>5. QED
  BY <1>3, <1>4 DEF MainInv

LEMMA SendStep ==
  ASSUME PTypeOK, LTypeOK, MainInv, NEW i \in Procs, StageSend(i)
  PROVE  LTypeOK' /\ MainInv'
<1>1. /\ main = "running" /\ i \in Stages /\ i \notin sent /\ pc[i] = "done"
      /\ errCh' = errCh \o <<err[i]>> /\ sent' = sent \cup {i}
      /\ UNCHANGED <<pc, err, n, main, link, expired, resErr, resOut, pruns>>
  BY DEF StageSend, Sends, pvars, frame
<1>2. Stages' = Stages /\ sent \subseteq Stages /\ sent' \subseteq Stages /\ n \in Nat
  BY <1>1, StagesAreProcs DEF LTypeOK, Stages
<1>3. errCh \in Seq(Errs) /\ err[i] \in Errs
  BY DEF LTypeOK, PTypeOK
<1>4. /\ errCh' \in Seq(Errs) /\ Len(errCh') = Len(errCh) + 1
      /\ Collected(errCh)' = (Collected(errCh) \cup {err[i]}) \ {"nil"}
  <2>1. Collected(errCh)' = Collected(errCh')
    BY DEF Collected
  <2>2. QED
    BY <1>1, <1>3, <2>1, CollectSent
<1>5. Cardinality(sent') = Cardinality(sent) + 1
  BY <1>1, <1>2, SentIsSmall
<1>6. Len(errCh') = Cardinality(sent')
  BY <1>4, <1>5 DEF MainInv, ErrInv
<1>7. LTypeOK'
  <2>1. Cardinality(sent') <= n
    <3>1. IsFiniteSet(Stages) /\ Cardinality(Stages) = n
      BY <1>2, FS_Interval DEF Stages
    <3>2. QED
      BY <1>2, <3>1, FS_Subset
  <2>2. (errCh \in Seq(Errs) /\ Len(errCh) <= n)'
    BY <1>1, <1>4, <1>6, <2>1
  <2>3. QED
    BY <1>1, <1>2, <2>2 DEF LTypeOK
<1>8. CtlInv'
  BY <1>1, <1>2 DEF MainInv, CtlInv
<1>9. ErrInv'
  <2>1. {err'[x] : x \in sent'} = {err[x] : x \in sent} \cup {err[i]}
    BY <1>1
  <2>2. Collected(errCh)' = {err'[x] : x \in sent'} \ {"nil"}
    BY <1>4, <2>1 DEF MainInv, ErrInv
  <2>3. QED
    BY <1>1, <1>6, <2>2 DEF ErrInv
<1>10. QED
  BY <1>7, <1>8, <1>9 DEF MainInv

LEMMA MainStep ==
  ASSUME PTypeOK, LTypeOK, MainInv, [PipeNext]_vars
  PROVE  LTypeOK' /\ MainInv'
<1>1. Wrapped \subseteq Procs
  BY PipeAssumption
<1>2. CASE UNCHANGED vars
  BY <1>2, RunFrame DEF vars, pvars, frame
<1>3. CASE Prologue \/ Collect \/ Deadline
  BY <1>3, RunEmptyStep, CreateStep, WireStep, CollectStep, DeadlineStep DEF Prologue
<1>4. ASSUME NEW i \in Procs, StageNext(i) PROVE LTypeOK' /\ MainInv'
  <2>1. CASE StageSend(i)
    BY <2>1, SendStep
  <2>2. CASE ~StageSend(i)
    <3>1. StageStep(i) /\ May(i) /\ UNCHANGED lvars
      BY <1>4, <2>2, StageKinds
    <3>2. main = "running" /\ i \in Stages \ sent
      BY <3>1, MayMeans DEF MainInv
    <3>3. \A x \in Procs \ {i} : pc'[x] = pc[x] /\ err'[x] = err[x]
      BY <3>1, StageStepFrame
    <3>4. QED
      BY <3>1, <3>2, <3>3, RunFrame
  <2>3. QED
    BY <2>1, <2>2
<1>5. ASSUME NEW i \in Procs, Client(i) \/ ClientWrite(i) PROVE LTypeOK' /\ MainInv'
  <2>1. UNCHANGED lvars /\ (Configure(i) \/ Feed(i) \/ WriteStep(i))
    BY <1>5 DEF Client, ClientWrite
  <2>2. UNCHANGED <<pc, err>>
    BY <2>1, ClientFrame DEF frame
  <2>3. QED
    BY <2>1, <2>2, RunFrame
<1>6. QED
  BY <1>2, <1>3, <1>4, <1>5 DEF PipeNext

----------------------------------------------------------------------------
(* The theorems about Run's control and its answer.                        *)

\* Run's variables keep their types, and the processes of its stages theirs.
THEOREM RunControl == PipeSpec => [](PTypeOK /\ LTypeOK /\ MainInv)
<1>1. PipeInit => PTypeOK /\ LTypeOK /\ MainInv
  BY PipeInitCtl
<1>2. PTypeOK /\ LTypeOK /\ MainInv /\ [PipeNext]_vars => (PTypeOK /\ LTypeOK /\ MainInv)'
  BY PipeNextPType, MainStep
<1>3. QED
  BY <1>1, <1>2, PTL DEF PipeSpec

THEOREM PipelineTypeCorrect == PipeSpec => []LTypeOK
BY RunControl, PTL

\* There is room on the error channel for every stage that has yet to send: its
\* capacity is the number of stages (pipeline.go:138) and each sends once.
THEOREM RoomForAll == PipeSpec => []SendHasRoom
<1>1. PTypeOK /\ LTypeOK /\ MainInv => SendHasRoom
  <2> SUFFICES ASSUME PTypeOK, LTypeOK, MainInv, NEW i \in Stages \ sent
               PROVE  HasRoom(i)
    BY DEF SendHasRoom
  <2>1. /\ sent \subseteq Stages /\ n \in Nat /\ i \in Procs
        /\ errCh \in Seq(Errs) /\ err[i] \in Errs
    BY StagesAreProcs DEF LTypeOK, PTypeOK
  <2>2. IsFiniteSet(Stages) /\ Cardinality(Stages) = n
    BY <2>1, FS_Interval DEF Stages
  <2>3. Cardinality(sent \cup {i}) <= n
    BY <2>1, <2>2, FS_Subset
  <2>4. Cardinality(sent \cup {i}) = Cardinality(sent) + 1
    BY <2>1, SentIsSmall
  <2>5. Len(errCh \o <<err[i]>>) = Len(errCh) + 1
    BY <2>1
  <2>6. Len(errCh) = Cardinality(sent)
    BY DEF MainInv, ErrInv
  <2>7. QED
    BY <2>3, <2>4, <2>5, <2>6 DEF HasRoom, Capacity, Sends
<1>2. QED
  BY <1>1, RunControl, PTL

\* The error of a finished Run joins those of all stages and no others.
THEOREM ErrorsJoined == PipeSpec => []ErrorsOfAllStages
<1>1. MainInv => ErrorsOfAllStages
  BY DEF MainInv, CtlInv, ErrInv, ErrorsOfAllStages
<1>2. QED
  BY <1>1, RunControl, PTL

----------------------------------------------------------------------------
(* Run implements fork and join.                                           *)

\* What the abstract variables of ForkJoin look at.
LEMMA Unseen ==
  ASSUME UNCHANGED <<n, main, sent, resErr>>, \A i \in sent : err'[i] = err[i]
  PROVE  UNCHANGED J!jvars
<1>1. Stages' = Stages /\ phase' = phase /\ verdict' = verdict
  BY DEF Stages, phase, verdict
<1>2. failed' = failed
  BY DEF failed
<1>3. QED
  BY <1>1, <1>2 DEF J!jvars

LEMMA MainImplements ==
  ASSUME PTypeOK, LTypeOK, MainInv, Prologue \/ Collect \/ Deadline
  PROVE  J!JoinNext \/ UNCHANGED J!jvars
<1>0. n \in Nat /\ Stages' = Stages /\ (n > 0 => Stages # {}) /\ n' = n
  BY StagesAreProcs DEF Prologue, RunEmpty, Create, Link, GiveBuffers, Collect, Deadline, Stages
<1>1. CASE RunEmpty
  <2>1. /\ main \in {"setup", "returned"} /\ main' = "returned"
        /\ resErr' = {"no stages"} /\ UNCHANGED <<sent, err>>
    BY <1>1 DEF RunEmpty, pvars, frame
  <2>2. Stages = {}
    <3>1. n = 0
      BY <1>1 DEF RunEmpty
    <3>2. QED
      BY <3>1 DEF Stages
  <2>3. phase # "forked" /\ phase' = "joined" /\ verdict' = "failed" /\ failed' = failed
    BY <2>1 DEF phase, verdict, failed
  <2>4. J!Reject
    BY <1>0, <2>1, <2>2, <2>3 DEF J!Reject
  <2>5. QED
    BY <2>4 DEF J!JoinNext
<1>2. CASE Create
  <2>1. n > 0 /\ main \in {"setup", "returned"} /\ main' = "link" /\ sent' = {}
    BY <1>2 DEF Create
  <2>2. phase \in {"ready", "joined"} /\ phase' = "ready" /\ verdict' = "none" /\ failed' = {}
    BY <2>1 DEF phase, verdict, failed
  <2>3. J!Begin
    BY <1>0, <2>1, <2>2 DEF J!Begin
  <2>4. QED
    BY <2>3 DEF J!JoinNext
<1>3. CASE Link
  BY <1>3, Unseen DEF Link, frame
<1>4. CASE GiveBuffers
  <2>1. main = "link" /\ main' = "running" /\ UNCHANGED <<sent, err>>
    BY <1>4 DEF GiveBuffers, frame
  <2>2. phase = "ready" /\ phase' = "forked" /\ verdict' = verdict /\ failed' = failed
    BY <2>1 DEF phase, verdict, failed
  <2>3. n > 0
    BY <2>1 DEF MainInv, CtlInv
  <2>4. J!Fork
    BY <1>0, <2>1, <2>2, <2>3 DEF J!Fork
  <2>5. QED
    BY <2>4 DEF J!JoinNext
<1>5. CASE Collect
  <2>1. /\ main = "running" /\ main' = "returned" /\ sent = Stages
        /\ resErr' = Collected(errCh) /\ UNCHANGED <<sent, err>>
    BY <1>5 DEF Collect, AllEnded, pvars, frame
  <2>2. phase = "forked" /\ phase' = "joined" /\ failed' = failed
    BY <2>1 DEF phase, failed
  <2>3. resErr' = {err[i] : i \in sent} \ {"nil"}
    BY <2>1 DEF MainInv, ErrInv
  <2>4. resErr' = {} <=> failed = {}
    BY <2>3 DEF failed
  <2>5. verdict' = IF failed = {} THEN "ok" ELSE "failed"
    BY <2>1, <2>4 DEF verdict
  <2>6. J!Join
    BY <1>0, <2>1, <2>2, <2>5 DEF J!Join
  <2>7. QED
    BY <2>6 DEF J!JoinNext
<1>6. CASE Deadline
  BY <1>6, Unseen DEF Deadline, pvars, frame
<1>7. QED
  BY <1>1, <1>2, <1>3, <1>4, <1>5, <1>6 DEF Prologue

LEMMA SendImplements ==
  ASSUME LTypeOK, NEW i \in Procs, StageSend(i)
  PROVE  J!JoinNext
<1>1. /\ main = "running" /\ i \in Stages \ sent /\ sent' = sent \cup {i}
      /\ UNCHANGED <<n, main, err, resErr>>
  BY DEF StageSend, pvars, frame
<1>2. /\ phase = "forked" /\ phase' = phase /\ verdict' = verdict
      /\ Stages' = Stages
  BY <1>1 DEF phase, verdict, Stages
<1>3. failed' \in {failed, failed \cup {i}}
  BY <1>1 DEF failed
<1>4. J!Finish(i)
  BY <1>1, <1>2, <1>3 DEF J!Finish
<1>5. QED
  BY <1>4 DEF J!JoinNext

LEMMA PipeImplements ==
  ASSUME PTypeOK, LTypeOK, MainInv, [PipeNext]_vars
  PROVE  J!JoinNext \/ UNCHANGED J!jvars
<1>1. CASE UNCHANGED vars
  BY <1>1, Unseen DEF vars, pvars, lvars, frame
<1>2. CASE Prologue \/ Collect \/ Deadline
  BY <1>2, MainImplements
<1>3. ASSUME NEW i \in Procs, StageNext(i)
      PROVE  J!JoinNext \/ UNCHANGED J!jvars
  <2>1. CASE StageSend(i)
    BY <2>1, SendImplements
  <2>2. CASE ~StageSend(i)
    <3>1. StageStep(i) /\ May(i) /\ UNCHANGED lvars
      BY <1>3, <2>2, StageKinds
    <3>2. i \notin sent /\ sent \subseteq Procs
      BY <3>1, MayMeans, StagesAreProcs DEF MainInv, LTypeOK
    <3>3. \A x \in sent : err'[x] = err[x]
      BY <3>1, <3>2, StageStepFrame
    <3>4. QED
      BY <3>1, <3>3, Unseen DEF lvars
  <2>3. QED
    BY <2>1, <2>2
<1>4. ASSUME NEW i \in Procs, Client(i) \/ ClientWrite(i)
      PROVE  UNCHANGED J!jvars
  <2>1. UNCHANGED lvars /\ (Configure(i) \/ Feed(i) \/ WriteStep(i))
    BY <1>4 DEF Client, ClientWrite
  <2>2. UNCHANGED err
    BY <2>1, ClientFrame DEF frame
  <2>3. QED
    BY <2>1, <2>2, Unseen DEF lvars
<1>5. QED
  BY <1>1, <1>2, <1>3, <1>4 DEF PipeNext

\* Whatever the runners do and in whatever order the stages end, the caller of
\* Run sees the stages forked together and joined, with the right verdict.
THEOREM ImplementsForkJoin == PipeSpec => RunIsForkJoin
<1>1. PipeInit => J!JoinInit
  <2> SUFFICES ASSUME PipeInit PROVE J!JoinInit
    OBVIOUS
  <2>1. main = "setup" /\ sent = {} /\ LTypeOK
    BY PipeInitCtl DEF PipeInit
  <2>2. phase = "ready" /\ verdict = "none" /\ failed = {}
    BY <2>1 DEF phase, verdict, failed
  <2>3. Stages \in SUBSET Procs
    BY <2>1, StagesAreProcs
  <2>4. QED
    BY <2>1, <2>2, <2>3 DEF J!JoinInit
<1>2. PTypeOK /\ LTypeOK /\ MainInv /\ [PipeNext]_vars => [J!JoinNext]_(J!jvars)
  BY PipeImplements
<1>3. QED
  BY <1>1, <1>2, RunControl, PTL DEF PipeSpec, RunIsForkJoin, J!JoinSpec
============================================================================
