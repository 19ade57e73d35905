---------------------------- MODULE StreamProofs ----------------------------
(***************************************************************************)
(* What TLAPS proves of the links of a Pipeline of fresh stages: each of   *)
(* them implements Stream, for every number of stages, runners, units and  *)
(* Runs.                                                                   *)
(***************************************************************************)
EXTENDS PipeDataProofs, MCPipeline

\* The link after stage i, as an instance of Stream; MCPipeline has the first two.
Line(i) == INSTANCE Stream WITH
  sent  <- IF n > i THEN wrote[out(i)] ELSE <<>>,
  rcvd  <- recv[out(i)],
  ended <- pipe[out(i)] = "closed",
  seen  <- n > i /\ eof[i + 1]

----------------------------------------------------------------------------
(* The inductive invariant.                                                *)

\* Stage i writes to its pipe alone, and has closed it when its Run is past the
\* closing; stage i+1 reads that pipe and no other.
Wired(i) ==
  /\ ~hasBuf[out(i)]
  /\ wrote[out(i)] # <<>> => pc[i] # "idle" /\ i \notin Runnerless
  /\ pc[i] \in {"closed", "done"} /\ i \notin Runnerless => pipe[out(i)] = "closed"
  /\ main = "running" \/ (main = "link" /\ i < link) => in[i + 1] = out(i)
  /\ pc[i + 1] = "running" \/ eof[i + 1] => src[i + 1] = out(i)
  /\ pc[i + 1] = "idle" => ~eof[i + 1]

\* The first stage reads no pipe, and nothing is on the pipes after the last one.
EndsUnwired ==
  /\ n > 0 /\ main \in {"link", "running"} => in[1] = Nil
  /\ n > 0 /\ pc[1] = "running" => src[1] = Nil
  /\ \A i \in Procs : i >= n => pipe[out(i)] = "nil" /\ recv[out(i)] = <<>>

LinksInv == (\A i \in 1..(n - 1) : Wired(i)) /\ EndsUnwired

\* All that is known of a state, when the caller wrapped no stage.
AllInv == PTypeOK /\ LTypeOK /\ MainInv /\ PipeInv /\ LinksInv

\* A link has a stage at either end.
LEMMA LinkEnds ==
  ASSUME LTypeOK
  PROVE  /\ n \in Nat /\ Procs \subseteq Nat \ {0} /\ Stages \subseteq Procs
         /\ \A i \in Procs : out(i) \in Pipes /\ out(i) \in Ends /\ out(i)[1] = i /\ out(i) # Nil
         /\ \A i, j \in Procs : out(i) = out(j) => i = j
         /\ \A i \in 1..(n - 1) : i \in Stages /\ i + 1 \in Stages /\ i < n /\ i \in Nat
         /\ \A j \in Stages : j # 1 => j - 1 \in 1..(n - 1) /\ (j - 1) + 1 = j
         /\ \A i \in Procs : n > i => i \in 1..(n - 1)
         /\ n > 0 => 1 \in Stages
<1>1. n \in Nat /\ Procs \subseteq Nat \ {0} /\ Stages = 1..n /\ Stages \subseteq Procs
      /\ \A i \in Procs : out(i) \in Pipes /\ out(i) \in Ends
  <2>1. Procs \subseteq Nat \ {0}
    BY PipeAssumption
  <2>2. Stages = 1..n
    BY DEF Stages
  <2>3. QED
    BY <2>1, <2>2, StagesAreProcs
<1>2. \A i \in Procs : out(i)[1] = i /\ out(i) # Nil
  BY <1>1, ProcAssumption DEF out
<1>3. \A i, j \in Procs : out(i) = out(j) => i = j
  BY <1>2
<1>10. n \in Nat /\ Stages = 1..n
  BY <1>1
<1>4. \A i \in 1..(n - 1) : i \in Stages /\ i + 1 \in Stages /\ i < n /\ i \in Nat
  <2>1. \A i \in 1..(n - 1) : i \in 1..n /\ i + 1 \in 1..n /\ i < n /\ i \in Nat
    BY <1>10
  <2>2. QED
    BY <1>10, <2>1
<1>5. \A j \in Stages : j # 1 => j - 1 \in 1..(n - 1) /\ (j - 1) + 1 = j
  BY <1>10
<1>6. /\ \A i \in Procs : n > i => i \in 1..(n - 1)
      /\ n > 0 => 1 \in Stages
  BY <1>1
<1>7. QED
  BY <1>1, <1>2, <1>3, <1>4, <1>5, <1>6

LEMMA LinksInit ==
  ASSUME Wrapped = {}, PipeInit
  PROVE  LinksInv
<1>1. LTypeOK /\ ProcInit /\ main = "setup"
  BY PipeInitCtl DEF PipeInit
<1>2. \A i \in 1..(n - 1) : Wired(i)
  <2> SUFFICES ASSUME NEW i \in 1..(n - 1) PROVE Wired(i)
    OBVIOUS
  <2>1. out(i) \in Pipes /\ out(i) \in Ends /\ i \in Procs /\ i + 1 \in Procs
    BY <1>1, LinkEnds
  <2>2. QED
    BY <1>1, <2>1 DEF ProcInit, Wired
<1>3. EndsUnwired
  BY <1>1, LinkEnds DEF ProcInit, EndsUnwired
<1>4. QED
  BY <1>2, <1>3 DEF LinksInv

\* The wiring sets the links up.
LEMMA LinksCreate ==
  ASSUME Wrapped = {}, AllInv, Create
  PROVE  LinksInv'
<1> USE DEF AllInv
<1>1. /\ Fresh = Stages /\ main' = "link" /\ link' = 1 /\ n' = n
      /\ in' = Renew(in, Fresh, Nil) /\ n \in Nat
  BY LinkEnds DEF Create, Fresh
<1> HIDE DEF Stages, Fresh
<1>2. ASSUME NEW i \in 1..(n - 1) PROVE Wired(i)'
  <2>1. i \in Stages /\ i + 1 \in Stages /\ i \in Procs /\ i + 1 \in Procs /\ i # n /\ ~(i < 1)
    BY LinkEnds
  <2>2. out(i) \in Pipes /\ out(i) \in Ends /\ out(i)[1] = i
    BY <2>1, LinkEnds
  <2>3. ~hasBuf'[out(i)] /\ wrote'[out(i)] = <<>> /\ pc'[i] = "idle"
        /\ pc'[i + 1] = "idle" /\ ~eof'[i + 1]
    BY <1>1, <2>1, <2>2, Created
  <2>4. QED
    BY <1>1, <2>1, <2>3 DEF Wired, out
<1>3. EndsUnwired'
  <2>1. n > 0 => 1 \in Stages /\ 1 \in Procs
    BY LinkEnds
  <2>2. n > 0 => in'[1] = Nil /\ pc'[1] = "idle"
    BY <1>1, <2>1, Created DEF Renew
  <2>3. ASSUME NEW i \in Procs, i >= n PROVE pipe'[out(i)] = "nil" /\ recv'[out(i)] = <<>>
    <3>1. out(i) \in Pipes /\ out(i)[1] = i
      BY LinkEnds
    <3>2. pipe[out(i)] = "nil" /\ recv[out(i)] = <<>>
      BY <2>3 DEF LinksInv, EndsUnwired
    <3>3. QED
      BY <3>1, <3>2, Created
  <2>4. QED
    BY <1>1, <2>2, <2>3 DEF EndsUnwired, out
<1>4. QED
  BY <1>1, <1>2, <1>3 DEF LinksInv

LEMMA LinksLink ==
  ASSUME AllInv, Link
  PROVE  LinksInv'
<1> USE DEF AllInv
<1>1. /\ main = "link" /\ main' = "link" /\ link < n /\ link' = link + 1 /\ n' = n
      /\ UNCHANGED <<hasBuf, wrote, recv, frame>>
      /\ in' = [in EXCEPT ![link + 1] = out(link)]
  BY DEF Link
<1>2. link \in Nat /\ link \in 1..(n - 1) /\ n \in Nat
  <2>1. link \in Nat \ {0} /\ n \in Nat
    BY LinkEnds DEF LTypeOK
  <2>2. QED
    BY <1>1, <2>1
<1>3. /\ \A q \in Pipes : pipe[q] = "closed" => pipe'[q] = "closed"
      /\ \A q \in Pipes : q # out(link) => pipe'[q] = pipe[q]
  <2>1. out(link) \in Pipes
    BY <1>2, LinkEnds
  <2>2. QED
    BY <2>1 DEF Link, PTypeOK
<1>4. /\ in'[link + 1] = out(link)
      /\ \A x \in Procs : x # link + 1 => in'[x] = in[x]
  <2>1. link + 1 \in Procs
    BY <1>2, LinkEnds
  <2>2. QED
    BY <1>1, <2>1 DEF PTypeOK
<1>5. ASSUME NEW i \in 1..(n - 1) PROVE Wired(i)'
  <2>1. i + 1 \in Procs /\ i \in Nat /\ out(i) \in Pipes /\ Wired(i)
    BY LinkEnds DEF LinksInv
  <2>2. i < link + 1 => in'[i + 1] = out(i)
    <3>1. CASE i = link
      BY <1>4, <3>1
    <3>2. CASE i # link
      <4>1. i + 1 # link + 1 /\ (i < link + 1 => i < link)
        BY <1>2, <2>1, <3>2
      <4>2. i < link => in[i + 1] = out(i)
        BY <1>1, <2>1 DEF Wired
      <4>3. QED
        BY <1>4, <2>1, <4>1, <4>2
    <3>3. QED
      BY <3>1, <3>2
  <2>3. QED
    BY <1>1, <1>3, <2>1, <2>2 DEF Wired, frame, out
<1>6. EndsUnwired'
  <2>1. 1 \in Procs /\ 1 # link + 1
    BY <1>2, LinkEnds
  <2>2. in'[1] = in[1]
    BY <1>4, <2>1
  <2>3. \A i \in Procs : i >= n => out(i) \in Pipes /\ out(i) # out(link)
    <3>1. \A i \in Procs : i >= n => i # link
      BY <1>2, LinkEnds
    <3>2. link \in Procs
      BY <1>2, LinkEnds
    <3>3. QED
      BY <3>1, <3>2, LinkEnds
  <2>4. QED
    BY <1>1, <1>3, <2>2, <2>3 DEF LinksInv, EndsUnwired, frame, out
<1>7. QED
  BY <1>1, <1>5, <1>6 DEF LinksInv

LEMMA LinksGiveBuffers ==
  ASSUME AllInv, GiveBuffers
  PROVE  LinksInv'
<1> USE DEF AllInv
<1>1. /\ main = "link" /\ main' = "running" /\ link = n /\ n' = n
      /\ UNCHANGED <<in, streams, frame>>
      /\ \A e \in Ends : hasBuf'[e] <=> (hasBuf[e] \/ e[1] = n)
  BY DEF GiveBuffers
<1>2. ASSUME NEW i \in 1..(n - 1) PROVE Wired(i)'
  <2>1. Wired(i) /\ i < link /\ i # n /\ out(i) \in Ends /\ out(i)[1] = i
    BY <1>1, LinkEnds, LinkIndices DEF LinksInv
  <2>2. QED
    BY <1>1, <2>1 DEF Wired, streams, frame, out
<1>3. EndsUnwired'
  BY <1>1 DEF LinksInv, EndsUnwired, streams, frame, out
<1>4. QED
  BY <1>1, <1>2, <1>3 DEF LinksInv

\* What Run does for itself, and stuttering, touch no link.
LEMMA LinksMain ==
  ASSUME LinksInv, UNCHANGED pvars,
         UNCHANGED lvars \/ RunEmpty \/ Collect \/ Deadline \/ (\E i \in Procs : StageSend(i))
  PROVE  LinksInv'
<1>1. UNCHANGED <<in, hasBuf, streams, frame>>
  BY DEF pvars, conf
<1>2. UNCHANGED <<n, link>> /\ (main' = main \/ main' = "returned")
  BY DEF lvars, RunEmpty, Collect, Deadline, StageSend
<1>3. ASSUME NEW i \in 1..(n - 1) PROVE Wired(i)'
  BY <1>1, <1>2 DEF LinksInv, Wired, streams, frame, out
<1>4. EndsUnwired'
  BY <1>1, <1>2 DEF LinksInv, EndsUnwired, streams, frame, out
<1>5. QED
  BY <1>2, <1>3, <1>4 DEF LinksInv

\* What a step of a stage's goroutine does to inputs, targets and streams.
LEMMA StageEffects ==
  ASSUME PTypeOK, NEW j \in Procs, StageStep(j)
  PROVE  /\ in' = in /\ pc'[j] # "idle"
         /\ \A x \in Procs \ {j} : src'[x] = src[x] /\ eof'[x] = eof[x]
         /\ \/ RunStart(j) /\ src'[j] = in[j] /\ ~eof'[j]
            \/ /\ src'[j] = src[j] /\ (pc'[j] = "running" => pc[j] = "running")
               /\ eof'[j] => eof[j] \/ pc[j] = "running"
         /\ \A e \in Ends : \/ hasBuf'[e] = hasBuf[e]
                            \/ RunStart(j) /\ e[1] = j /\ Target(e) = "buffer"
         /\ \A q \in Pipes : \/ recv'[q] = recv[q]
                             \/ RunnerRead(j) /\ q = src[j] /\ pipe[q] = "open"
         /\ \A e \in Ends : wrote'[e] = wrote[e] \/ (pc[j] = "running" /\ e[1] = j)
<1>0. pc'[j] # "idle"
  BY StageControl
<1>1. CASE RunStart(j)
  BY <1>0, <1>1, EndsArePipes DEF RunStart, KeepsBuffer, PTypeOK, streams
<1>2. CASE RunNoRunner(j)
  BY <1>0, <1>2 DEF RunNoRunner, PTypeOK, conf, streams
<1>3. CASE RunnerRead(j)
  <2>1. /\ UNCHANGED <<conf, wrote, frame>> /\ src[j] \in Pipes
        /\ \E k \in 1..Len(pend[src[j]]) : Take(src[j], k)
    BY <1>3 DEF RunnerRead
  <2>2. pipe[src[j]] = "open" /\ \A q \in Pipes : q # src[j] => recv'[q] = recv[q]
    BY <2>1 DEF Take, PTypeOK
  <2>3. QED
    BY <1>0, <1>3, <2>1, <2>2 DEF conf, frame
<1>4. CASE RunnerEof(j)
  BY <1>0, <1>4 DEF RunnerEof, Active, PTypeOK, conf, streams
<1>5. CASE RunnerOutput(j)
  <2>1. ASSUME NEW fd \in Fds, NEW c \in Chunks, RunnerWrite(j, fd, c)
        PROVE  /\ pc[j] = "running" /\ UNCHANGED <<conf, recv, frame>>
               /\ \A e \in Ends : e[1] # j => wrote'[e] = wrote[e]
    <3>1. \A e \in Ends : e \in Pipes /\ (e[1] # j => e # <<j, fd>>)
      BY EndsArePipes
    <3>2. QED
      BY <2>1, <3>1 DEF RunnerWrite, Active, PTypeOK
  <2>2. ASSUME NEW fd \in Fds, RunnerRefused(j, fd)
        PROVE  UNCHANGED <<conf, recv, wrote, frame>>
    BY <2>2 DEF RunnerRefused
  <2>3. QED
    BY <1>0, <1>5, <2>1, <2>2 DEF RunnerOutput, conf, frame
<1>6. CASE \E x \in Errs : RunnerReturn(j, x)
  BY <1>0, <1>6 DEF RunnerReturn, PTypeOK, conf, streams
<1>7. CASE RunClose(j) \/ RunCapture(j)
  BY <1>0, <1>7 DEF RunClose, RunCapture, PTypeOK, conf, streams
<1>8. QED
  BY <1>1, <1>2, <1>3, <1>4, <1>5, <1>6, <1>7 DEF StageStep

LEMMA LinksStage ==
  ASSUME Wrapped = {}, AllInv, NEW j \in Procs, StageStep(j), May(j), UNCHANGED lvars
  PROVE  LinksInv'
<1> USE DEF AllInv
<1>1. main = "running" /\ j \in Stages \ sent
  BY MayMeans DEF MainInv
<1>2. /\ UNCHANGED <<n, main, link>>
      /\ \A x \in Procs \ {j} : pc'[x] = pc[x]
  BY StageStepFrame DEF lvars
<1>3. ASSUME NEW i \in 1..(n - 1) PROVE Wired(i)'
  <2>1. /\ Wired(i) /\ i \in Procs /\ i + 1 \in Procs
        /\ out(i) \in Pipes /\ out(i) \in Ends /\ out(i)[1] = i
    BY LinkEnds DEF LinksInv
  <2>2. ~custom[out(i)] /\ pipe[out(i)] # "nil"
    <3>1. "stdout" \in Fds /\ i \in Procs \ Wrapped
      BY <2>1, PipeAssumption
    <3>2. QED
      BY <1>1, <3>1 DEF PipeInv, WiringInv, FreshInv, WireInv, out
  <2>3. ~hasBuf'[out(i)]
    <3>1. ~hasBuf[out(i)]
      BY <2>1 DEF Wired
    <3>2. Target(out(i)) # "buffer"
      BY <2>2, <3>1 DEF Target
    <3>3. QED
      BY <2>1, <3>1, <3>2, StageEffects
  <2>4. wrote'[out(i)] # <<>> => pc'[i] # "idle" /\ i \notin Runnerless
    <3>1. pc[j] = "running" => j \notin Runnerless
      BY DEF PipeInv, ProcessInv, RunInv
    <3>2. wrote[out(i)] # <<>> => pc[i] # "idle" /\ i \notin Runnerless
      BY <2>1 DEF Wired
    <3>3. wrote'[out(i)] = wrote[out(i)] \/ (pc[j] = "running" /\ i = j)
      BY <2>1, StageEffects
    <3>4. pc'[i] # "idle" \/ (i # j /\ pc'[i] = pc[i])
      BY <1>2, <2>1, StageEffects
    <3>5. QED
      BY <3>1, <3>2, <3>3, <3>4
  <2>5. pc'[i] \in {"closed", "done"} /\ i \notin Runnerless => pipe'[out(i)] = "closed"
    <3>1. pc[i] \in {"closed", "done"} /\ i \notin Runnerless => pipe[out(i)] = "closed"
      BY <2>1 DEF Wired
    <3>2. pipe'[out(i)] = pipe[out(i)] \/ pipe'[out(i)] = "closed"
      BY <2>1, StageFrame
    <3>3. CASE i # j
      BY <1>2, <2>1, <3>1, <3>2, <3>3
    <3>4. CASE i = j
      <4>1. pc'[i] = "closed" => pipe'[out(i)] = "closed"
        BY <2>1, <2>2, <3>2, <3>4, StageControl
      <4>2. pc'[i] = "done" /\ i \notin Runnerless => pc[i] = "closed"
        BY <3>4, StageControl
      <4>3. QED
        BY <3>1, <3>2, <4>1, <4>2
    <3>5. QED
      BY <3>3, <3>4
  <2>6. /\ in'[i + 1] = out(i)
        /\ pc'[i + 1] = "running" \/ eof'[i + 1] => src'[i + 1] = out(i)
        /\ pc'[i + 1] = "idle" => ~eof'[i + 1]
    <3>1. /\ in[i + 1] = out(i) /\ in' = in
          /\ pc[i + 1] = "running" \/ eof[i + 1] => src[i + 1] = out(i)
          /\ pc[i + 1] = "idle" => ~eof[i + 1]
      BY <1>1, <2>1, StageEffects DEF Wired
    <3>2. CASE i + 1 # j
      BY <1>2, <2>1, <3>1, <3>2, StageEffects
    <3>3. CASE i + 1 = j
      <4>1. pc'[i + 1] # "idle"
        BY <3>3, StageEffects
      <4>2. \/ src'[i + 1] = in[i + 1]
            \/ /\ src'[i + 1] = src[i + 1]
               /\ pc'[i + 1] = "running" \/ eof'[i + 1] => pc[i + 1] = "running" \/ eof[i + 1]
        BY <3>3, StageEffects
      <4>3. QED
        BY <3>1, <4>1, <4>2
    <3>4. QED
      BY <3>2, <3>3
  <2>7. QED
    BY <1>2, <2>3, <2>4, <2>5, <2>6 DEF Wired, out
<1>4. EndsUnwired'
  <2>1. n > 0 /\ 1 \in Procs /\ in[1] = Nil /\ in' = in /\ (pc[1] = "running" => src[1] = Nil)
    <3>1. n > 0
      BY <1>1 DEF MainInv, CtlInv
    <3>2. QED
      BY <1>1, <3>1, LinkEnds, StageEffects DEF LinksInv, EndsUnwired
  <2>2. pc'[1] = "running" => src'[1] = Nil
    <3>1. CASE j = 1
      <4>1. src'[1] = in[1] \/ (src'[1] = src[1] /\ (pc'[1] = "running" => pc[1] = "running"))
        BY <3>1, StageEffects
      <4>2. QED
        BY <2>1, <4>1
    <3>2. CASE j # 1
      BY <1>2, <2>1, <3>2, StageEffects
    <3>3. QED
      BY <3>1, <3>2
  <2>3. ASSUME NEW i \in Procs, i >= n PROVE pipe'[out(i)] = "nil" /\ recv'[out(i)] = <<>>
    <3>1. out(i) \in Pipes /\ pipe[out(i)] = "nil" /\ recv[out(i)] = <<>>
      BY <2>3, LinkEnds DEF LinksInv, EndsUnwired
    <3>2. QED
      BY <3>1, StageFrame, StageEffects
  <2>4. QED
    BY <1>2, <2>1, <2>2, <2>3 DEF EndsUnwired, out
<1>5. QED
  BY <1>2, <1>3, <1>4 DEF LinksInv

LEMMA LinksStep ==
  ASSUME Wrapped = {}, AllInv, [PipeNext]_vars
  PROVE  LinksInv'
<1>1. AllInv => LinksInv
  BY DEF AllInv
<1>2. CASE UNCHANGED vars \/ RunEmpty \/ Collect \/ Deadline
  BY <1>1, <1>2, LinksMain DEF vars, RunEmpty, Collect, Deadline
<1>3. CASE Create \/ Link \/ GiveBuffers
  BY <1>3, LinksCreate, LinksLink, LinksGiveBuffers
<1>4. ASSUME NEW i \in Procs, StageNext(i) PROVE LinksInv'
  <2>1. CASE StageSend(i)
    BY <1>1, <2>1, LinksMain DEF StageSend
  <2>2. CASE ~StageSend(i)
    BY <1>4, <2>2, StageKinds, LinksStage
  <2>3. QED
    BY <2>1, <2>2
<1>5. ASSUME NEW i \in Procs PROVE ~Client(i) /\ ~ClientWrite(i)
  BY DEF Client, ClientWrite
<1>6. QED
  BY <1>2, <1>3, <1>4, <1>5 DEF PipeNext, Prologue

LEMMA AllInvariant == Wrapped = {} => (PipeSpec => []AllInv)
<1> SUFFICES ASSUME Wrapped = {} PROVE PipeSpec => []AllInv
  OBVIOUS
<1>1. PipeInit => AllInv
  BY PipeInitCtl, PipeInitInv, LinksInit DEF AllInv
<1>2. AllInv /\ [PipeNext]_vars => AllInv'
  BY PipeNextPType, MainStep, PipeInvStep, LinksStep DEF AllInv
<1>3. QED
  BY <1>1, <1>2, PTL DEF PipeSpec

----------------------------------------------------------------------------
(* Every step of the pipeline is a step of each link, or leaves it alone.  *)

\* A sequence is the beginning of what is appended to it, and taking more of what
\* was sent is taking a longer beginning of it.
LEMMA Beginnings ==
  ASSUME NEW s \in Seq(Data), NEW t \in Seq(Data)
  PROVE  /\ s \o t \in Seq(Data) /\ Len(s \o t) = Len(s) + Len(t)
         /\ SubSeq(s \o t, 1, Len(s)) = s
         /\ \A k \in 1..Len(t) : s \o SubSeq(t, 1, k) = SubSeq(s \o t, 1, Len(s) + k)
<1>1. s \o t \in Seq(Data) /\ Len(s \o t) = Len(s) + Len(t)
      /\ Len(s) \in Nat /\ Len(t) \in Nat
  BY ConcatProperties, LenProperties
<1>2. SubSeq(s \o t, 1, Len(s)) = s
  <2>1. CASE s = <<>>
    <3>1. Len(s) = 0
      BY <2>1
    <3>2. SubSeq(s \o t, 1, 0) = <<>>
      BY SubSeqEmpty
    <3>3. QED
      BY <2>1, <3>1, <3>2
  <2>2. CASE s # <<>>
    <3>1. 1 \in 1..Len(s) /\ Len(s) \in 1..Len(s)
      BY <1>1, <2>2, EmptySeq
    <3>2. SubSeq(s \o t, 1, Len(s)) = SubSeq(s, 1, Len(s))
      BY <3>1, SubSeqOfConcat1
    <3>3. QED
      BY <3>2, SubSeqFull
  <2>3. QED
    BY <2>1, <2>2
<1>3. ASSUME NEW k \in 1..Len(t)
      PROVE  s \o SubSeq(t, 1, k) = SubSeq(s \o t, 1, Len(s) + k)
  <2> DEFINE u == s \o t
  <2>1. u \in Seq(Data) /\ Len(u) = Len(s) + Len(t)
    BY <1>1
  <2> HIDE DEF u
  <2>2. SubSeq(u, 1, Len(s)) \o SubSeq(u, Len(s) + 1, Len(s) + k) = SubSeq(u, 1, Len(s) + k)
    <3>1. 1 \in 1..(Len(u) + 1) /\ Len(s) \in (1 - 1)..Len(u) /\ Len(s) + k \in Len(s)..Len(u)
      BY <1>1, <2>1
    <3>2. QED
      BY <2>1, <3>1, ConcatAdjacentSubSeq
  <2>3. SubSeq(u, Len(s) + 1, Len(s) + k) = SubSeq(t, 1, k)
    <3>1. /\ Len(s) + 1 \in (Len(s) + 1)..(Len(s) + Len(t))
          /\ Len(s) + k \in (Len(s) + 1)..(Len(s) + Len(t))
          /\ (Len(s) + 1) - Len(s) = 1 /\ (Len(s) + k) - Len(s) = k
      BY <1>1
    <3>2. SubSeq(s \o t, Len(s) + 1, Len(s) + k)
            = SubSeq(t, (Len(s) + 1) - Len(s), (Len(s) + k) - Len(s))
      BY <3>1, SubSeqOfConcat2
    <3>3. QED
      BY <3>1, <3>2 DEF u
  <2>4. QED
    BY <1>2, <2>2, <2>3 DEF u
<1>4. QED
  BY <1>1, <1>2, <1>3

\* The number of stages does not change.
LEMMA StagesStay ==
  ASSUME [PipeNext]_vars
  PROVE  n' = n
<1>1. ASSUME NEW i \in Procs, StageNext(i) PROVE n' = n
  BY <1>1, StageKinds DEF StageSend, lvars
<1>2. QED
  BY <1>1 DEF PipeNext, Prologue, RunEmpty, Create, Link, GiveBuffers, Collect, Deadline,
              Client, ClientWrite, vars, lvars

\* What a link is like between steps: all of what was written is received or
\* pending, and nothing is pending on a closed pipe.
LEMMA LinkState ==
  ASSUME Wrapped = {}, AllInv, NEW i \in 1..(n - 1)
  PROVE  /\ i \in Procs /\ i + 1 \in Procs /\ n > i /\ out(i) \in Pipes /\ out(i) \in Ends
         /\ Wired(i) /\ ~custom[out(i)]
         /\ wrote[out(i)] \in Seq(Data) /\ recv[out(i)] \in Seq(Data)
         /\ pend[out(i)] \in Seq(Data)
         /\ wrote[out(i)] = recv[out(i)] \o pend[out(i)]
         /\ pend[out(i)] # <<>> => pc[i] = "running" /\ pipe[out(i)] = "open"
         /\ pend[out(i)] = <<>> => recv[out(i)] = wrote[out(i)]
         /\ eof[i + 1] => pipe[out(i)] = "closed"
<1> USE DEF AllInv
<1>1. i \in Procs /\ i + 1 \in Procs /\ n > i /\ out(i) \in Pipes /\ out(i) \in Ends /\ Wired(i)
      /\ out(i)[1] = i
  BY LinkEnds DEF LinksInv
<1>2. wrote[out(i)] \in Seq(Data) /\ recv[out(i)] \in Seq(Data) /\ pend[out(i)] \in Seq(Data)
  BY <1>1 DEF PTypeOK
<1>3. ~custom[out(i)]
  BY <1>1, PipeAssumption DEF PipeInv, WiringInv, FreshInv, out
<1>4. wrote[out(i)] = recv[out(i)] \o pend[out(i)]
  BY <1>1, <1>3 DEF PipeInv, ProcessInv, PipeConservation, Piped, Wired
<1>5. pend[out(i)] # <<>> => pc[i] = "running" /\ pipe[out(i)] = "open"
  BY <1>1 DEF PipeInv, ProcessInv, WriteInv
<1>6. pend[out(i)] = <<>> => recv[out(i)] = wrote[out(i)]
  BY <1>2, <1>4, ConcatEmptySeq
<1>7. eof[i + 1] => pipe[out(i)] = "closed"
  BY <1>1 DEF Wired, PipeInv, ProcessInv, EofInv
<1>8. QED
  BY <1>1, <1>2, <1>3, <1>4, <1>5, <1>6, <1>7

\* What leaves the pipe and the flag of a link alone leaves the link alone.
LEMMA LinkStutters ==
  ASSUME NEW i, n' = n, wrote'[out(i)] = wrote[out(i)], recv'[out(i)] = recv[out(i)],
         (pipe'[out(i)] = "closed") <=> (pipe[out(i)] = "closed"),
         eof'[i + 1] <=> eof[i + 1]
  PROVE  UNCHANGED Line(i)!svars
BY DEF Line!svars, out

LEMMA LinkRead ==
  ASSUME Wrapped = {}, AllInv, NEW j \in Procs, RunnerRead(j), j \in Stages, n' = n,
         main = "running", NEW i \in 1..(n - 1)
  PROVE  Line(i)!Receive \/ UNCHANGED Line(i)!svars
<1>1. /\ pc[j] = "running" /\ src[j] \in Pipes
      /\ UNCHANGED <<pipe, wrote, eof>>
      /\ \E k \in 1..Len(pend[src[j]]) : Take(src[j], k)
  BY DEF RunnerRead, Active, frame
<1>2. j # 1
  <2>1. n > 0 /\ Nil \notin Pipes
    BY ProcAssumption DEF AllInv, MainInv, CtlInv
  <2>2. pc[1] = "running" => src[1] = Nil
    BY <2>1 DEF AllInv, LinksInv, EndsUnwired
  <2>3. QED
    BY <1>1, <2>1, <2>2
<1>3. PICK m \in 1..(n - 1) : j = m + 1
  <2>1. LTypeOK
    BY DEF AllInv
  <2>2. j - 1 \in 1..(n - 1) /\ (j - 1) + 1 = j
    BY <1>2, <2>1, LinkEnds
  <2>3. QED
    BY <2>2
<1>4. src[j] = out(m) /\ m \in Procs
  BY <1>1, <1>3, LinkState DEF Wired
<1>5. CASE m = i
  <2>1. PICK k \in 1..Len(pend[out(i)]) : Take(out(i), k)
    BY <1>1, <1>4, <1>5
  <2>2. /\ wrote[out(i)] \in Seq(Data) /\ recv[out(i)] \in Seq(Data)
        /\ pend[out(i)] \in Seq(Data) /\ out(i) \in Pipes /\ n > i
        /\ wrote[out(i)] = recv[out(i)] \o pend[out(i)]
        /\ eof[i + 1] => pipe[out(i)] = "closed"
    BY LinkState
  <2>3. pipe[out(i)] = "open" /\ recv'[out(i)] = recv[out(i)] \o SubSeq(pend[out(i)], 1, k)
    BY <2>1, <2>2 DEF Take, AllInv, PTypeOK
  <2>4. recv'[out(i)] = SubSeq(wrote[out(i)], 1, Len(recv[out(i)]) + k)
    <3>1. recv[out(i)] \o SubSeq(pend[out(i)], 1, k)
            = SubSeq(recv[out(i)] \o pend[out(i)], 1, Len(recv[out(i)]) + k)
      <4>1. recv[out(i)] \in Seq(Data) /\ pend[out(i)] \in Seq(Data)
        BY <2>2
      <4>2. \A x \in 1..Len(pend[out(i)]) :
              recv[out(i)] \o SubSeq(pend[out(i)], 1, x)
                = SubSeq(recv[out(i)] \o pend[out(i)], 1, Len(recv[out(i)]) + x)
        BY <4>1, Beginnings
      <4>3. QED
        BY <2>1, <4>2
    <3>2. QED
      BY <2>2, <2>3, <3>1
  <2>5. Len(recv[out(i)]) + k \in (Len(recv[out(i)]) + 1)..Len(wrote[out(i)])
    <3>1. Len(wrote[out(i)]) = Len(recv[out(i)]) + Len(pend[out(i)])
      BY <2>2, Beginnings
    <3>2. Len(recv[out(i)]) \in Nat /\ Len(pend[out(i)]) \in Nat
      BY <2>2, LenProperties
    <3>3. \A a, b \in Nat : \A m1 \in 1..b : a + m1 \in (a + 1)..(a + b)
      OBVIOUS
    <3>4. QED
      BY <3>1, <3>2, <3>3
  <2>6. Line(i)!Receive
    BY <1>1, <2>2, <2>3, <2>4, <2>5 DEF Line!Receive, out
  <2>7. QED
    BY <2>6
<1>6. CASE m # i
  <2>1. out(i) # out(m) /\ out(i) \in Pipes
    <3>1. LTypeOK /\ i \in Procs
      BY LinkState DEF AllInv
    <3>2. QED
      BY <1>4, <1>6, <3>1, LinkEnds
  <2>2. recv'[out(i)] = recv[out(i)]
    BY <1>1, <1>4, <2>1 DEF Take, AllInv, PTypeOK
  <2>3. QED
    BY <1>1, <2>2, LinkStutters
<1>7. QED
  BY <1>5, <1>6

LEMMA LinkWrite ==
  ASSUME Wrapped = {}, AllInv, NEW j \in Procs, NEW fd \in Fds, NEW c \in Chunks,
         RunnerWrite(j, fd, c), n' = n, NEW i \in 1..(n - 1)
  PROVE  Line(i)!Send \/ UNCHANGED Line(i)!svars
<1>0. /\ i \in Procs /\ out(i) \in Pipes /\ out(i) \in Ends /\ n > i /\ Wired(i) /\ ~custom[out(i)]
      /\ wrote[out(i)] \in Seq(Data)
      /\ pend[out(i)] = <<>> => recv[out(i)] = wrote[out(i)]
  BY LinkState
<1>1. /\ Active(j) /\ UNCHANGED <<pipe, recv, eof>>
      /\ wrote' = [wrote EXCEPT ![<<j, fd>>] = @ \o c]
  BY DEF RunnerWrite, frame
<1>2. CASE <<j, fd>> = out(i)
  <2>1. dst[out(i)] # "buffer" /\ dst[out(i)] # "writer"
    BY <1>0 DEF AllInv, PipeInv, ProcessInv, WriteInv, Wired
  <2>2. pipe[out(i)] = "open"
    BY <1>2, <2>1 DEF RunnerWrite
  <2>3. pend[out(i)] = <<>>
    <3>1. ~Blocked(j)
      BY <1>1 DEF Active
    <3>2. QED
      BY <1>2, <3>1 DEF Blocked
  <2>4. wrote'[out(i)] = wrote[out(i)] \o c
    BY <1>0, <1>1, <1>2 DEF AllInv, PTypeOK
  <2>5. c \in Seq(Data) /\ Len(c) \in Nat /\ Len(c) > 0
    BY ChunkIsData, LenProperties, EmptySeq
  <2>6. /\ wrote'[out(i)] \in Seq(Data) /\ Len(wrote'[out(i)]) > Len(wrote[out(i)])
        /\ SubSeq(wrote'[out(i)], 1, Len(wrote[out(i)])) = wrote[out(i)]
    <3>1. Len(wrote[out(i)]) \in Nat
      BY <1>0, LenProperties
    <3>2. QED
      BY <1>0, <2>4, <2>5, <3>1, Beginnings
  <2>7. Line(i)!Send
    BY <1>0, <1>1, <2>2, <2>3, <2>6 DEF Line!Send, out
  <2>8. QED
    BY <2>7
<1>3. CASE <<j, fd>> # out(i)
  <2>1. wrote'[out(i)] = wrote[out(i)]
    BY <1>0, <1>1, <1>3 DEF AllInv, PTypeOK
  <2>2. QED
    BY <1>1, <2>1, LinkStutters
<1>4. QED
  BY <1>2, <1>3

LEMMA LinkEnd ==
  ASSUME Wrapped = {}, AllInv, NEW j \in Procs, RunnerEof(j) \/ RunClose(j), n' = n,
         main = "running", NEW i \in 1..(n - 1)
  PROVE  Line(i)!End \/ Line(i)!SeeEnd \/ UNCHANGED Line(i)!svars
<1>0. /\ i \in Procs /\ i + 1 \in Procs /\ out(i) \in Pipes /\ n > i /\ Wired(i)
      /\ out(i)[1] = i
      /\ pend[out(i)] # <<>> => pc[i] = "running" /\ pipe[out(i)] = "open"
      /\ pend[out(i)] = <<>> => recv[out(i)] = wrote[out(i)]
  BY LinkState, LinkEnds DEF AllInv
<1>1. CASE RunnerEof(j)
  <2>1. /\ pc[j] = "running" /\ UNCHANGED streams /\ eof' = [eof EXCEPT ![j] = TRUE]
        /\ src[j] \in Pipes => pipe[src[j]] = "closed"
    BY <1>1 DEF RunnerEof, Active
  <2>2. CASE j = i + 1
    <3>1. pipe[out(i)] = "closed"
      BY <1>0, <2>1, <2>2 DEF Wired
    <3>2. recv[out(i)] = wrote[out(i)]
      BY <1>0, <3>1
    <3>3. eof'[i + 1] = TRUE
      BY <1>0, <2>1, <2>2 DEF AllInv, PTypeOK
    <3>4. Line(i)!SeeEnd
      BY <1>0, <2>1, <3>1, <3>2, <3>3 DEF Line!SeeEnd, streams, out
    <3>5. QED
      BY <3>4
  <2>3. CASE j # i + 1
    <3>1. eof'[i + 1] = eof[i + 1]
      BY <1>0, <2>1, <2>3 DEF AllInv, PTypeOK
    <3>2. QED
      BY <2>1, <3>1, LinkStutters DEF streams
  <2>4. QED
    BY <2>2, <2>3
<1>2. CASE RunClose(j)
  <2>1. /\ pc[j] = "returned" /\ UNCHANGED <<wrote, recv, eof>>
        /\ \A q \in Pipes : pipe'[q] = IF q[1] = j /\ pipe[q] = "open" THEN "closed" ELSE pipe[q]
    BY <1>2 DEF RunClose, Closes, OwnedBy
  <2>2. CASE j = i
    <3>1. pipe[out(i)] # "nil"
      BY DEF AllInv, PipeInv, WiringInv, WireInv
    <3>2. pipe'[out(i)] = "closed"
      BY <1>0, <2>1, <2>2, <3>1 DEF AllInv, PTypeOK
    <3>3. recv[out(i)] = wrote[out(i)]
      BY <1>0, <2>1, <2>2
    <3>4. Line(i)!End
      BY <1>0, <2>1, <3>2, <3>3 DEF Line!End, out
    <3>5. QED
      BY <3>4
  <2>3. CASE j # i
    BY <1>0, <2>1, <2>3, LinkStutters
  <2>4. QED
    BY <2>2, <2>3
<1>3. QED
  BY <1>1, <1>2

LEMMA LinkCreate ==
  ASSUME Wrapped = {}, AllInv, Create, NEW i \in 1..(n - 1)
  PROVE  Line(i)!Replace \/ UNCHANGED Line(i)!svars
<1>0. /\ i \in Procs /\ i + 1 \in Procs /\ out(i) \in Pipes /\ out(i) \in Ends /\ n > i /\ Wired(i)
      /\ i \in Stages /\ i + 1 \in Stages /\ i # n /\ out(i)[1] = i
      /\ pend[out(i)] # <<>> => pc[i] = "running" /\ pipe[out(i)] = "open"
      /\ pend[out(i)] = <<>> => recv[out(i)] = wrote[out(i)]
      /\ eof[i + 1] => pipe[out(i)] = "closed"
  BY LinkState, LinkEnds, LinkIndices DEF AllInv
<1> HIDE DEF Stages, Fresh
<1>1. /\ wrote'[out(i)] = <<>> /\ recv'[out(i)] = <<>> /\ pipe'[out(i)] = "nil"
      /\ ~eof'[i + 1] /\ n' = n
  <2>1. Fresh = Stages
    BY DEF Fresh
  <2>2. QED
    BY <1>0, <2>1, Created DEF AllInv
<1>2. CASE pipe[out(i)] = "closed"
  <2>1. Line(i)!Replace
    BY <1>1, <1>2 DEF Line!Replace, out
  <2>2. QED
    BY <2>1
<1>3. CASE pipe[out(i)] # "closed"
  <2>1. pc[i] \in {"idle", "done"}
    <3>1. main \in {"setup", "returned"}
      BY DEF Create
    <3>2. QED
      BY <1>0, <3>1 DEF AllInv, MainInv, CtlInv
  <2>2. wrote[out(i)] = <<>>
    BY <1>0, <1>3, <2>1 DEF Wired
  <2>3. recv[out(i)] = <<>> /\ ~eof[i + 1]
    BY <1>0, <1>3, <2>1, <2>2
  <2>4. QED
    BY <1>1, <1>3, <2>2, <2>3, LinkStutters
<1>4. QED
  BY <1>2, <1>3

\* The steps of Run itself but Create, and those of a stage that are no I/O.
LEMMA LinkQuiet ==
  ASSUME AllInv, NEW i \in 1..(n - 1), n' = n,
         \/ UNCHANGED pvars \/ Link \/ GiveBuffers
         \/ \E j \in Procs : /\ pc[j] = "idle" \/ j # i + 1 \/ ~RunStart(j)
                            /\ \/ RunStart(j) \/ RunNoRunner(j)
                               \/ \E fd \in Fds : RunnerRefused(j, fd)
                               \/ \E x \in Errs : RunnerReturn(j, x)
                               \/ RunCapture(j)
  PROVE  UNCHANGED Line(i)!svars
<1>0. Wired(i) /\ i + 1 \in Procs /\ out(i) \in Pipes
  BY LinkEnds DEF AllInv, LinksInv
<1>1. CASE UNCHANGED pvars \/ GiveBuffers
  BY <1>1, LinkStutters DEF pvars, streams, frame, GiveBuffers
<1>2. CASE Link
  <2>1. UNCHANGED <<wrote, recv, eof>>
    BY <1>2 DEF Link, frame
  <2>2. pipe'[out(i)] = "closed" <=> pipe[out(i)] = "closed"
    <3>1. pipe' = [pipe EXCEPT ![out(link)] = IF @ = "nil" THEN "open" ELSE @]
      BY <1>2 DEF Link
    <3>2. QED
      BY <1>0, <3>1 DEF AllInv, PTypeOK
  <2>3. QED
    BY <2>1, <2>2, LinkStutters
<1>3. ASSUME NEW j \in Procs, pc[j] = "idle" \/ j # i + 1 \/ ~RunStart(j),
             \/ RunStart(j) \/ RunNoRunner(j)
             \/ \E fd \in Fds : RunnerRefused(j, fd)
             \/ \E x \in Errs : RunnerReturn(j, x)
             \/ RunCapture(j)
      PROVE  UNCHANGED Line(i)!svars
  <2>1. UNCHANGED <<wrote, recv, pipe>>
    BY <1>3 DEF RunStart, RunNoRunner, RunnerRefused, RunnerReturn, RunCapture, streams
  <2>2. eof'[i + 1] = eof[i + 1]
    <3>1. CASE RunStart(j)
      <4>1. eof' = [eof EXCEPT ![j] = FALSE]
        BY <3>1 DEF RunStart
      <4>2. j = i + 1 => ~eof[i + 1]
        BY <1>0, <1>3, <3>1 DEF Wired
      <4>3. eof[i + 1] \in BOOLEAN /\ eof \in [Procs -> BOOLEAN]
        BY <1>0 DEF AllInv, PTypeOK
      <4>4. QED
        BY <1>0, <4>1, <4>2, <4>3
    <3>2. CASE ~RunStart(j)
      BY <1>3, <3>2 DEF RunNoRunner, RunnerRefused, RunnerReturn, RunCapture, frame
    <3>3. QED
      BY <3>1, <3>2
  <2>3. QED
    BY <2>1, <2>2, LinkStutters
<1>4. QED
  BY <1>1, <1>2, <1>3

\* Where there is no stage after the pipe nothing is ever to be seen.
LEMMA NoLink ==
  ASSUME AllInv, AllInv', n' = n, NEW i \in Procs, i >= n
  PROVE  UNCHANGED Line(i)!svars
<1>1. n \in Nat /\ i \in Nat
  BY LinkEnds DEF AllInv
<1>2. ~(n > i)
  BY <1>1
<1>3. pipe[out(i)] = "nil" /\ recv[out(i)] = <<>>
  BY DEF AllInv, LinksInv, EndsUnwired
<1>4. pipe'[out(i)] = "nil" /\ recv'[out(i)] = <<>>
  BY DEF AllInv, LinksInv, EndsUnwired, out
<1>5. QED
  BY <1>2, <1>3, <1>4 DEF Line!svars, out

LEMMA LinkImplements ==
  ASSUME Wrapped = {}, AllInv, AllInv', [PipeNext]_vars, NEW i \in Procs
  PROVE  Line(i)!StreamNext \/ UNCHANGED Line(i)!svars
<1> DEFINE Goal == Line(i)!StreamNext \/ UNCHANGED Line(i)!svars
<1>1. n' = n /\ n \in Nat /\ i \in Nat
  BY StagesStay, LinkEnds DEF AllInv
<1>2. CASE i >= n
  BY <1>1, <1>2, NoLink
<1>3. CASE i < n
  <2>0. i \in 1..(n - 1)
    <3>1. LTypeOK /\ n > i
      BY <1>1, <1>3 DEF AllInv
    <3>2. QED
      BY <3>1, LinkEnds
  <2> HIDE DEF Goal
  <2>1. CASE Create
    BY <2>0, <2>1, LinkCreate DEF Goal, Line!StreamNext
  <2>2. CASE UNCHANGED pvars \/ Link \/ GiveBuffers
    BY <1>1, <2>0, <2>2, LinkQuiet DEF Goal
  <2>3. ASSUME NEW j \in Procs, StageStep(j), May(j), UNCHANGED lvars PROVE Goal
    <3>1. main = "running" /\ j \in Stages
      BY <2>3, MayMeans DEF AllInv, MainInv
    <3>2. CASE RunnerRead(j)
      BY <1>1, <2>0, <3>1, <3>2, LinkRead DEF Goal, Line!StreamNext
    <3>3. CASE RunnerEof(j) \/ RunClose(j)
      BY <1>1, <2>0, <3>1, <3>3, LinkEnd DEF Goal, Line!StreamNext
    <3>4. ASSUME NEW fd \in Fds, NEW c \in Chunks, RunnerWrite(j, fd, c) PROVE Goal
      BY <1>1, <2>0, <3>4, LinkWrite DEF Goal, Line!StreamNext
    <3>5. CASE \/ RunStart(j) \/ RunNoRunner(j)
               \/ \E fd \in Fds : RunnerRefused(j, fd)
               \/ \E x \in Errs : RunnerReturn(j, x)
               \/ RunCapture(j)
      <4>1. RunStart(j) => pc[j] = "idle"
        BY <2>3 DEF RunStart, Callable, May
      <4>2. QED
        BY <1>1, <2>0, <3>5, <4>1, LinkQuiet DEF Goal
    <3>6. QED
      BY <2>3, <3>2, <3>3, <3>4, <3>5 DEF StageStep, RunnerOutput
  <2>4. QED
    BY <2>1, <2>2, <2>3, StepKinds DEF Goal
<1>4. QED
  BY <1>1, <1>2, <1>3

----------------------------------------------------------------------------
(* The theorems.                                                           *)

\* Every link of a pipeline of fresh stages implements an unbuffered stream
\* (pipeline.go:86: "stdout piped from each stage to stdin of the next"): all of
\* stage i's stdout, in order, once, reaches stage i+1 before it sees the EOF.
THEOREM EachLinkIsStream ==
  ASSUME Wrapped = {}, NEW i \in Procs
  PROVE  PipeSpec => Line(i)!StreamSpec
<1>1. PipeInit => Line(i)!StreamInit
  <2> SUFFICES ASSUME PipeInit PROVE Line(i)!StreamInit
    OBVIOUS
  <2>1. out(i) \in Pipes /\ (n > i => i + 1 \in Procs)
    BY PipeInitCtl, LinkEnds
  <2>2. QED
    BY <2>1 DEF PipeInit, ProcInit, Line!StreamInit
<1>2. AllInv /\ AllInv' /\ [PipeNext]_vars => [Line(i)!StreamNext]_(Line(i)!svars)
  BY LinkImplements
<1>3. PipeSpec => []AllInv
  BY AllInvariant
<1>4. QED
  BY <1>1, <1>2, <1>3, PTL DEF PipeSpec, Line!StreamSpec

\* The same of the two links the runs look at.
THEOREM ImplementsStreams ==
  ASSUME Wrapped = {}, N >= 2
  PROVE  PipeSpec => LinksAreStreams
<1>1. 1 \in Procs /\ 2 \in Procs
  BY PipeAssumption
<1>2. (PipeSpec => Line(1)!StreamSpec) /\ (PipeSpec => Line(2)!StreamSpec)
  BY <1>1, EachLinkIsStream
<1>3. /\ Line(1)!StreamInit => FirstLink!StreamInit
      /\ Line(2)!StreamInit => SecondLink!StreamInit
  BY DEF Line!StreamInit, FirstLink!StreamInit, SecondLink!StreamInit
<1>4. [Line(1)!StreamNext]_(Line(1)!svars) => [FirstLink!StreamNext]_(FirstLink!svars)
  BY DEF Line!StreamNext, Line!Send, Line!Receive, Line!End, Line!SeeEnd, Line!Replace, Line!svars,
         FirstLink!StreamNext, FirstLink!Send, FirstLink!Receive, FirstLink!End,
         FirstLink!SeeEnd, FirstLink!Replace, FirstLink!svars
<1>5. [Line(2)!StreamNext]_(Line(2)!svars) => [SecondLink!StreamNext]_(SecondLink!svars)
  BY DEF Line!StreamNext, Line!Send, Line!Receive, Line!End, Line!SeeEnd, Line!Replace, Line!svars,
         SecondLink!StreamNext, SecondLink!Send, SecondLink!Receive, SecondLink!End,
         SecondLink!SeeEnd, SecondLink!Replace, SecondLink!svars
<1>6. QED
  BY <1>2, <1>3, <1>4, <1>5, PTL
     DEF LinksAreStreams, Line!StreamSpec, FirstLink!StreamSpec, SecondLink!StreamSpec
============================================================================
