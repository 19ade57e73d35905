--------------------------- MODULE PipeDataProofs ---------------------------
(***************************************************************************)
(* What TLAPS proves of the data that goes through a Pipeline: between its *)
(* stages, out of the last one and into the answer of Run, for every       *)
(* number of stages, whichever of them the caller wrapped, and however     *)
(* often the pipeline is run.                                              *)
(***************************************************************************)
EXTENDS PipelineProofs

----------------------------------------------------------------------------
(* The inductive invariant.                                                *)

\* A process the caller did not wrap is known to Run alone: nobody writes to its
\* stdin or sets its writers, and it is run once.
FreshInv ==
  \A i \in Procs \ Wrapped :
    /\ wpc[i] = "idle" /\ wrote[Stdin(i)] = <<>>
    /\ \A fd \in Fds : ~custom[<<i, fd>>]
    /\ runs[i] <= 1 /\ (pc[i] = "idle" => runs[i] = 0)

\* Every stage but the last has its pipe before any stage runs, and when its Run
\* is past the closing that pipe is closed.
WireInv ==
  /\ \A p \in Procs \ Stages : ~eof[p]
  /\ \A i \in 1..(n - 1) :
       /\ main = "running" \/ (main = "link" /\ i < link) => pipe[out(i)] # "nil"
       /\ main = "running" /\ pc[i] \in {"closed", "done"} /\ i \notin Runnerless
            => pipe[out(i)] = "closed"

\* The last stage never writes to a pipe, and the pipeline's buffers have all it
\* wrote, from the first Run on; a new process takes them over.
LastInv ==
  n > 0 =>
    \A fd \in Fds :
      /\ n \notin Wrapped => /\ pipe[<<n, fd>>] = "nil"
                             /\ hasBuf[<<n, fd>>] \/ wrote[<<n, fd>>] = <<>>
      /\ main = "running" => hasBuf[<<n, fd>>]
      /\ pc[n] = "running" => dst[<<n, fd>>] # "pipe"
      /\ ~custom[<<n, fd>>] => buf[<<n, fd>>] = wrote[<<n, fd>>]
      /\ main = "returned" => resOut[fd] = buf[<<n, fd>>]

WiringInv == FreshInv /\ WireInv /\ LastInv
PipeInv == ProcessInv /\ WiringInv

\* Indices of streams and of links.
LEMMA LinkIndices ==
  ASSUME LTypeOK
  PROVE  /\ \A i \in 1..(n - 1) : i \in Procs /\ i \in Stages /\ i # n
                                  /\ out(i) \in Ends /\ out(i) \in Pipes /\ out(i)[1] = i
         /\ \A fd \in Fds : n > 0 => /\ <<n, fd>> \in Ends /\ <<n, fd>> \in Pipes
                                     /\ \A i \in 1..(n - 1) : <<n, fd>> # out(i)
<1>1. n \in Nat /\ Stages \subseteq Procs /\ (n > 0 => n \in Procs)
      /\ \A i \in Procs : out(i) \in Ends /\ out(i) \in Pipes
  BY StagesAreProcs
<1>2. \A i \in 1..(n - 1) : i \in Stages /\ i # n
  <2>1. n \in Nat
    BY <1>1
  <2>2. QED
    BY <2>1 DEF Stages
<1>3. \A fd \in Fds : n > 0 => <<n, fd>> \in Ends /\ <<n, fd>> \in Pipes
  BY <1>1, EndsArePipes
<1>4. QED
  BY <1>1, <1>2, <1>3 DEF out

LEMMA PipeInitInv == PipeInit => PipeInv
<1> SUFFICES ASSUME PipeInit PROVE PipeInv
  OBVIOUS
<1>1. ProcessInv
  BY InitInv DEF PipeInit
<1>2. LTypeOK /\ ProcInit /\ main = "setup"
  BY PipeInitCtl DEF PipeInit
<1>3. FreshInv
  BY <1>2, EndsArePipes DEF ProcInit, FreshInv
<1>4. WireInv
  BY <1>2, LinkIndices DEF ProcInit, WireInv
<1>5. LastInv
  BY <1>2, LinkIndices, StagesAreProcs DEF ProcInit, LastInv
<1>6. QED
  BY <1>1, <1>3, <1>4, <1>5 DEF PipeInv, WiringInv

----------------------------------------------------------------------------
(* The prologue of Run.                                                    *)

\* What Create leaves of each process.
LEMMA Created ==
  ASSUME PTypeOK, LTypeOK, Create
  PROVE  /\ \A e \in Ends :
              /\ custom'[e] = (IF e[1] \in Fresh THEN FALSE ELSE custom[e])
              /\ hasBuf'[e] = (IF e[1] \in Fresh \ {n} THEN FALSE ELSE hasBuf[e])
              /\ buf'[e] = (IF e[1] \in Fresh \ {n} THEN <<>> ELSE buf[e])
              /\ dst'[e] = (IF e[1] \in Fresh THEN "none" ELSE dst[e])
         /\ \A q \in Pipes :
              /\ pipe'[q] = (IF q[1] \in Fresh THEN "nil" ELSE pipe[q])
              /\ pend'[q] = (IF q[1] \in Fresh THEN <<>> ELSE pend[q])
              /\ wrote'[q] = (IF q[1] \in Fresh \ {n} THEN <<>> ELSE wrote[q])
              /\ recv'[q] = (IF q[1] \in Fresh THEN <<>> ELSE recv[q])
         /\ \A p \in Procs :
              /\ pc'[p] = (IF p \in Stages THEN "idle" ELSE pc[p])
              /\ eof'[p] = (IF p \in Stages THEN FALSE ELSE eof[p])
              /\ runs'[p] = (IF p \in Fresh THEN 0 ELSE runs[p])
              /\ wpc'[p] = (IF p \in Fresh THEN "idle" ELSE wpc[p])
              /\ refused'[p] = (IF p \in Fresh THEN FALSE ELSE refused[p])
         /\ main' = "link" /\ link' = 1 /\ n' = n /\ n > 0
         /\ Stages' = Stages /\ Fresh' = Fresh
<1>1. /\ DOMAIN custom = Ends /\ DOMAIN hasBuf = Ends /\ DOMAIN buf = Ends
      /\ DOMAIN dst = Ends /\ DOMAIN pipe = Pipes /\ DOMAIN pend = Pipes
      /\ DOMAIN wrote = Pipes /\ DOMAIN recv = Pipes
  BY DEF PTypeOK
<1>2. \A e \in Ends :
        /\ custom'[e] = (IF e[1] \in Fresh THEN FALSE ELSE custom[e])
        /\ hasBuf'[e] = (IF e[1] \in Fresh \ {n} THEN FALSE ELSE hasBuf[e])
        /\ buf'[e] = (IF e[1] \in Fresh \ {n} THEN <<>> ELSE buf[e])
        /\ dst'[e] = (IF e[1] \in Fresh THEN "none" ELSE dst[e])
  BY <1>1 DEF Create, RenewAt
<1>3. \A q \in Pipes :
        /\ pipe'[q] = (IF q[1] \in Fresh THEN "nil" ELSE pipe[q])
        /\ pend'[q] = (IF q[1] \in Fresh THEN <<>> ELSE pend[q])
        /\ wrote'[q] = (IF q[1] \in Fresh \ {n} THEN <<>> ELSE wrote[q])
        /\ recv'[q] = (IF q[1] \in Fresh THEN <<>> ELSE recv[q])
  BY <1>1 DEF Create, RenewAt
<1>4. \A p \in Procs :
        /\ pc'[p] = (IF p \in Stages THEN "idle" ELSE pc[p])
        /\ eof'[p] = (IF p \in Stages THEN FALSE ELSE eof[p])
        /\ runs'[p] = (IF p \in Fresh THEN 0 ELSE runs[p])
        /\ wpc'[p] = (IF p \in Fresh THEN "idle" ELSE wpc[p])
        /\ refused'[p] = (IF p \in Fresh THEN FALSE ELSE refused[p])
  BY DEF Create, Renew
<1>5. main' = "link" /\ link' = 1 /\ n' = n /\ n > 0
  BY DEF Create
<1>6. QED
  BY <1>2, <1>3, <1>4, <1>5 DEF Stages, Fresh

\* New processes are as good as the old ones were, and the old ones have stopped.
LEMMA CreateInv ==
  ASSUME PTypeOK, LTypeOK, MainInv, PipeInv, Create
  PROVE  PipeInv'
<1> USE DEF PipeInv, WiringInv, ProcessInv
<1>1. Stages \subseteq Procs /\ Fresh = Stages \ Wrapped /\ n \in Stages /\ n \in Nat
  BY StagesAreProcs, Created DEF Fresh
<1> HIDE DEF Stages, Fresh
<1>2. \A p \in Procs : pc[p] \in {"idle", "done"} /\ pc'[p] = "idle" /\ ~eof'[p]
  <2>1. main \in {"setup", "returned"}
    BY DEF Create
  <2>2. \A p \in Procs : pc[p] \in {"idle", "done"}
    BY <2>1 DEF MainInv, CtlInv
  <2>3. \A p \in Procs \ Stages : pc[p] = "idle" /\ ~eof[p]
    BY DEF MainInv, CtlInv, WireInv
  <2>4. QED
    BY <1>1, <2>2, <2>3, Created
<1>3. \A e \in Ends : e \in Pipes /\ e[1] \in Procs /\ pend[e] = <<>>
  BY <1>2, EndsArePipes DEF WriteInv
<1>4. WriteInv'
  <2>1. ASSUME NEW e \in Ends
        PROVE  /\ pend'[e] = <<>>
               /\ dst'[e] = "buffer" => hasBuf'[e]
               /\ dst'[e] = "writer" => custom'[e]
    <3>1. CASE e[1] \in Fresh
      BY <1>3, <3>1, Created
    <3>2. CASE e[1] \notin Fresh
      <4>1. /\ pend'[e] = pend[e] /\ dst'[e] = dst[e]
            /\ hasBuf'[e] = hasBuf[e] /\ custom'[e] = custom[e]
        BY <1>3, <3>2, Created
      <4>2. QED
        BY <1>3, <4>1 DEF WriteInv
    <3>3. QED
      BY <3>1, <3>2
  <2>2. ASSUME NEW p \in Procs
        PROVE  pend'[Stdin(p)] # <<>> => wpc'[p] = "offered"
    <3>1. Stdin(p) \in Pipes /\ Stdin(p)[1] = p
      BY EndsArePipes
    <3>2. CASE p \in Fresh
      BY <3>1, <3>2, Created
    <3>3. CASE p \notin Fresh
      <4>1. pend'[Stdin(p)] = pend[Stdin(p)] /\ wpc'[p] = wpc[p]
        BY <3>1, <3>3, Created
      <4>2. QED
        BY <4>1 DEF WriteInv
    <3>4. QED
      BY <3>2, <3>3
  <2>3. QED
    BY <2>1, <2>2 DEF WriteInv
<1>5. EofInv'
  BY <1>2 DEF EofInv
<1>6. ASSUME NEW fd \in Fds, n \in Fresh
      PROVE  /\ pipe[<<n, fd>>] = "nil" /\ ~custom[<<n, fd>>]
             /\ hasBuf[<<n, fd>>] \/ wrote[<<n, fd>>] = <<>>
             /\ buf[<<n, fd>>] = wrote[<<n, fd>>]
             /\ wrote[Stdin(n)] = <<>>
  BY <1>1, <1>6, Created DEF FreshInv, LastInv
<1>60. <<>> = <<>> \o <<>> /\ \A s \in Seq(Data) : s = s \o <<>>
  BY ConcatEmptySeq, EmptySeq
<1>7. PipeConservation'
  <2> SUFFICES ASSUME NEW q \in Pipes, q[2] = "stdin" \/ Piped(q)'
               PROVE  wrote'[q] = recv'[q] \o pend'[q]
    BY DEF PipeConservation
  <2>1. CASE q[1] \in Fresh \ {n}
    BY <1>60, <2>1, Created
  <2>2. CASE q[1] \in Fresh /\ q[1] = n
    <3>1. wrote[q] = <<>>
      <4>1. CASE q[2] = "stdin"
        <5>1. q = Stdin(n)
          BY <2>2, <4>1, ProcAssumption DEF Pipes, Stdin
        <5>2. wrote[Stdin(n)] = <<>>
          BY <1>1, <2>2 DEF FreshInv
        <5>3. QED
          BY <5>1, <5>2
      <4>2. CASE q \in Ends
        <5>1. q[2] # "stdin" /\ q[2] \in Fds /\ q = <<n, q[2]>>
          BY <2>2, <4>2, EndsArePipes DEF Ends
        <5>2. ~hasBuf'[q]
          BY <5>1 DEF Piped
        <5>3. ~hasBuf[q]
          BY <2>2, <4>2, <5>2, Created
        <5>4. QED
          BY <1>6, <2>2, <5>1, <5>3
      <4>3. QED
        BY <4>1, <4>2, EndsArePipes
    <3>2. QED
      BY <1>60, <2>2, <3>1, Created
  <2>3. CASE q[1] \notin Fresh
    <3>1. wrote'[q] = wrote[q] /\ recv'[q] = recv[q] /\ pend'[q] = pend[q]
      BY <2>3, Created
    <3>2. q[2] = "stdin" \/ (q \in Ends /\ Piped(q))
      BY <2>3, Created, EndsArePipes DEF Piped
    <3>3. QED
      BY <3>1, <3>2 DEF PipeConservation
  <2>4. QED
    BY <2>1, <2>2, <2>3
<1>8. BufferInv'
  <2> SUFFICES ASSUME NEW e \in Ends, pipe'[e] = "nil", ~custom'[e]
               PROVE  buf'[e] = wrote'[e] /\ pc'[e[1]] = "idle"
    BY DEF BufferInv
  <2>1. pc'[e[1]] = "idle" /\ e \in Pipes
    BY <1>2, <1>3
  <2>2. CASE e[1] \in Fresh \ {n}
    BY <2>1, <2>2, Created
  <2>3. CASE e[1] \in Fresh /\ e[1] = n
    <3>1. e = <<n, e[2]>> /\ e[2] \in Fds
      BY <2>3, EndsArePipes DEF Ends
    <3>2. buf[e] = wrote[e]
      BY <1>6, <2>3, <3>1
    <3>3. QED
      BY <2>1, <2>3, <3>2, Created
  <2>4. CASE e[1] \notin Fresh
    BY <2>1, <2>4, Created DEF BufferInv
  <2>5. QED
    BY <2>2, <2>3, <2>4
<1>9. RunInv'
  <2>1. \A p \in Procs, fd \in Fds : <<p, fd>> \in Pipes /\ <<p, fd>>[1] = p
    BY EndsArePipes
  <2>2. ASSUME NEW p \in Procs
        PROVE  /\ pc'[p] = "idle"
               /\ refused'[p] => runs'[p] > 1
               /\ \A fd \in Fds : pipe'[<<p, fd>>] = "closed" => runs'[p] >= 1
    <3>1. CASE p \in Fresh
      BY <1>2, <2>1, <3>1, Created
    <3>2. CASE p \notin Fresh
      <4>1. /\ refused'[p] = refused[p] /\ runs'[p] = runs[p]
            /\ \A fd \in Fds : pipe'[<<p, fd>>] = pipe[<<p, fd>>]
        BY <2>1, <3>2, Created
      <4>2. QED
        BY <1>2, <4>1 DEF RunInv
    <3>3. QED
      BY <3>1, <3>2
  <2>3. QED
    BY <2>2 DEF RunInv
<1>10. FreshInv'
  <2> SUFFICES ASSUME NEW i \in Procs \ Wrapped
               PROVE  /\ wpc'[i] = "idle" /\ wrote'[Stdin(i)] = <<>>
                      /\ \A fd \in Fds : ~custom'[<<i, fd>>]
                      /\ runs'[i] = 0
    BY DEF FreshInv
  <2>1. Stdin(i) \in Pipes /\ Stdin(i)[1] = i
        /\ \A fd \in Fds : <<i, fd>> \in Ends /\ <<i, fd>>[1] = i
    BY EndsArePipes
  <2>2. i \notin Fresh => pc[i] = "idle"
    BY <1>1 DEF MainInv, CtlInv
  <2>3. QED
    BY <2>1, <2>2, Created DEF FreshInv
<1>11. WireInv'
  BY <1>2, Created DEF WireInv
<1>12. LastInv'
  <2> SUFFICES ASSUME NEW fd \in Fds
               PROVE  /\ n \notin Wrapped => /\ pipe'[<<n, fd>>] = "nil"
                                             /\ hasBuf'[<<n, fd>>] \/ wrote'[<<n, fd>>] = <<>>
                      /\ pc'[n] = "idle"
                      /\ ~custom'[<<n, fd>>] => buf'[<<n, fd>>] = wrote'[<<n, fd>>]
    BY Created DEF LastInv
  <2>1. <<n, fd>> \in Ends /\ <<n, fd>> \in Pipes /\ <<n, fd>>[1] = n
    BY <1>1, EndsArePipes
  <2>2. /\ hasBuf'[<<n, fd>>] = hasBuf[<<n, fd>>]
        /\ buf'[<<n, fd>>] = buf[<<n, fd>>]
        /\ wrote'[<<n, fd>>] = wrote[<<n, fd>>]
    BY <2>1, Created
  <2>3. CASE n \in Fresh
    BY <1>1, <1>2, <1>6, <2>1, <2>2, <2>3, Created
  <2>4. CASE n \in Wrapped
    BY <1>1, <1>2, <2>1, <2>2, <2>4, Created DEF LastInv
  <2>5. QED
    BY <1>1, <2>3, <2>4
<1>13. QED
  BY <1>4, <1>5, <1>7, <1>8, <1>9, <1>10, <1>11, <1>12

\* Wiring opens the pipe of a link.
LEMMA LinkInv ==
  ASSUME PTypeOK, LTypeOK, MainInv, PipeInv, Link
  PROVE  PipeInv'
<1> USE DEF PipeInv, WiringInv, ProcessInv
<1>1. /\ main = "link" /\ main' = "link" /\ link < n /\ link' = link + 1
      /\ UNCHANGED <<custom, hasBuf, buf, pend, wrote, recv, refused, frame, wpc, n, resOut>>
      /\ Stages' = Stages
  BY DEF Link, Stages
<1>2. link \in Nat /\ link \in 1..(n - 1) /\ n \in Nat
  <2>1. link \in Nat \ {0} /\ n \in Nat
    BY StagesAreProcs DEF LTypeOK
  <2>2. QED
    BY <1>1, <2>1
<1>3. /\ pipe'[out(link)] = IF pipe[out(link)] = "nil" THEN "open" ELSE pipe[out(link)]
      /\ \A q \in Pipes : q # out(link) => pipe'[q] = pipe[q]
  BY <1>2, LinkIndices DEF Link, PTypeOK
<1>4. /\ \A q \in Pipes : /\ pipe'[q] = "nil" => pipe[q] = "nil"
                          /\ pipe'[q] = "closed" => pipe[q] = "closed"
                          /\ pipe[q] = "open" => pipe'[q] = "open"
                          /\ pipe[q] = "closed" => pipe'[q] = "closed"
                          /\ pipe[q] # "nil" => pipe'[q] # "nil"
      /\ pipe'[out(link)] # "nil"
  BY <1>3
<1>5. WriteInv' /\ EofInv'
  BY <1>1, <1>4, EndsArePipes DEF frame, WriteInv, EofInv
<1>6. PipeConservation'
  BY <1>1 DEF PipeConservation, Piped
<1>7. BufferInv' /\ RunInv'
  BY <1>1, <1>4, EndsArePipes DEF frame, BufferInv, RunInv
<1>8. FreshInv'
  BY <1>1 DEF frame, FreshInv
<1>9. WireInv'
  <2>1. \A p \in Procs \ Stages' : ~eof'[p]
    BY <1>1 DEF frame, WireInv
  <2>2. ASSUME NEW i \in 1..(n - 1), i < link + 1 PROVE pipe'[out(i)] # "nil"
    <3>1. CASE i < link
      <4>1. pipe[out(i)] # "nil" /\ out(i) \in Pipes
        BY <1>1, <3>1, LinkIndices DEF WireInv
      <4>2. QED
        BY <1>4, <4>1
    <3>2. CASE ~(i < link)
      <4>1. i = link
        BY <1>2, <2>2, <3>2
      <4>2. QED
        BY <1>4, <4>1
    <3>3. QED
      BY <3>1, <3>2
  <2>3. QED
    BY <1>1, <2>1, <2>2 DEF WireInv, out
<1>10. LastInv'
  <2>1. \A fd \in Fds : pipe'[<<n, fd>>] = pipe[<<n, fd>>]
    BY <1>2, <1>3, LinkIndices
  <2>2. QED
    BY <1>1, <2>1 DEF frame, LastInv
<1>11. QED
  BY <1>5, <1>6, <1>7, <1>8, <1>9, <1>10

\* When all links are made the last stage gets its buffers.
LEMMA GiveBuffersInv ==
  ASSUME PTypeOK, LTypeOK, MainInv, PipeInv, GiveBuffers
  PROVE  PipeInv'
<1> USE DEF PipeInv, WiringInv, ProcessInv
<1>1. /\ main = "link" /\ main' = "running" /\ link = n
      /\ UNCHANGED <<in, custom, streams, frame, wpc, n, resOut>>
      /\ \A e \in Ends : hasBuf'[e] <=> (hasBuf[e] \/ e[1] = n)
      /\ Stages' = Stages
  BY DEF GiveBuffers, Stages
<1>2. \A p \in Procs : pc[p] = "idle"
  BY <1>1 DEF MainInv, CtlInv
<1>3. WriteInv' /\ EofInv' /\ RunInv'
  BY <1>1 DEF streams, frame, WriteInv, EofInv, RunInv
<1>4. PipeConservation'
  BY <1>1, EndsArePipes DEF streams, PipeConservation, Piped
<1>5. BufferInv'
  BY <1>1, EndsArePipes DEF streams, frame, BufferInv
<1>6. FreshInv'
  BY <1>1 DEF streams, frame, FreshInv
<1>7. WireInv'
  <2>1. \A i \in 1..(n - 1) : i < link /\ pc[i] = "idle"
    <3>1. n \in Nat
      BY StagesAreProcs
    <3>2. \A i \in 1..(n - 1) : i < n
      BY <3>1
    <3>3. QED
      BY <1>1, <1>2, <3>2, LinkIndices
  <2>2. QED
    BY <1>1, <2>1 DEF streams, frame, WireInv, out
<1>8. LastInv'
  BY <1>1, LinkIndices DEF streams, frame, LastInv
<1>9. QED
  BY <1>3, <1>4, <1>5, <1>6, <1>7, <1>8

----------------------------------------------------------------------------
(* The steps of the stages.                                                *)

\* What the goroutine of a stage leaves alone.
LEMMA StageFrame ==
  ASSUME PTypeOK, NEW i \in Procs, StageStep(i)
  PROVE  /\ UNCHANGED <<custom, wpc>>
         /\ \A p \in Procs : wrote'[Stdin(p)] = wrote[Stdin(p)]
         /\ \A e \in Ends : hasBuf[e] => hasBuf'[e]
         /\ \A e \in Ends : e[1] # i => /\ dst'[e] = dst[e] /\ buf'[e] = buf[e]
                                       /\ wrote'[e] = wrote[e]
         /\ \A x \in Procs \ {i} : eof'[x] = eof[x] /\ runs'[x] = runs[x]
         /\ \A q \in Pipes : pipe'[q] = pipe[q] \/ (pipe[q] = "open" /\ pipe'[q] = "closed")
<1>1. CASE RunStart(i) \/ RunNoRunner(i)
  BY <1>1 DEF RunStart, RunNoRunner, PTypeOK, conf, streams
<1>2. CASE RunnerRead(i)
  BY <1>2 DEF RunnerRead, conf, frame
<1>3. CASE RunnerEof(i)
  BY <1>3 DEF RunnerEof, PTypeOK, conf, streams
<1>4. CASE RunnerOutput(i)
  <2>1. ASSUME NEW fd \in Fds, NEW c \in Chunks, RunnerWrite(i, fd, c)
        PROVE  /\ UNCHANGED <<conf, pipe, frame, wpc>>
               /\ \A q \in Pipes : q # <<i, fd>> => wrote'[q] = wrote[q]
               /\ \A e \in Ends : e # <<i, fd>> => buf'[e] = buf[e]
    BY <2>1, EndsArePipes DEF RunnerWrite, PTypeOK
  <2>2. ASSUME NEW fd \in Fds, RunnerRefused(i, fd)
        PROVE  UNCHANGED <<conf, buf, pipe, wrote, frame, wpc>>
    BY <2>2 DEF RunnerRefused
  <2>3. \A fd \in Fds, p \in Procs : Stdin(p) # <<i, fd>> /\ Stdin(p) \in Pipes
    BY EndsArePipes
  <2>4. \A e \in Ends : e \in Pipes
    BY EndsArePipes
  <2>5. QED
    BY <1>4, <2>1, <2>2, <2>3, <2>4 DEF RunnerOutput, conf, frame
<1>5. CASE \E x \in Errs : RunnerReturn(i, x)
  BY <1>5 DEF RunnerReturn, conf, streams
<1>6. CASE RunClose(i) \/ RunCapture(i)
  BY <1>6 DEF RunClose, RunCapture, conf, streams
<1>7. QED
  BY <1>1, <1>2, <1>3, <1>4, <1>5, <1>6 DEF StageStep

\* Where its Run goes: a start, an end, or on; and what is closed at the end.
LEMMA StageControl ==
  ASSUME PTypeOK, NEW i \in Procs, StageStep(i)
  PROVE  /\ \/ /\ Callable(i) /\ runs'[i] = runs[i] + 1
               /\ pc'[i] = "running" \/ (pc'[i] = "done" /\ i \in Runnerless)
            \/ /\ pc[i] \in {"running", "returned", "closed"}
               /\ runs'[i] = runs[i] /\ pc'[i] # "idle"
         /\ pc'[i] = "closed" => \A q \in Pipes : q[1] = i /\ pipe'[q] # "nil" => pipe'[q] = "closed"
         /\ pc'[i] = "done" => i \in Runnerless \/ pc[i] = "closed"
<1>1. CASE RunStart(i) \/ RunNoRunner(i)
  BY <1>1 DEF RunStart, RunNoRunner, PTypeOK
<1>2. CASE RunnerRead(i)
  BY <1>2 DEF RunnerRead, Active, frame
<1>3. CASE RunnerEof(i)
  BY <1>3 DEF RunnerEof, Active
<1>4. CASE RunnerOutput(i)
  BY <1>4 DEF RunnerOutput, RunnerWrite, RunnerRefused, Active, frame
<1>5. CASE \E x \in Errs : RunnerReturn(i, x)
  BY <1>5 DEF RunnerReturn, Active, PTypeOK
<1>6. CASE RunClose(i)
  <2>1. \A q \in Pipes : pipe[q] \in {"nil", "open", "closed"}
    BY DEF PTypeOK
  <2>2. \A q \in Pipes : pipe'[q] = IF q[1] = i /\ pipe[q] = "open" THEN "closed" ELSE pipe[q]
    BY <1>6 DEF RunClose, Closes, OwnedBy
  <2>3. pc[i] = "returned" /\ pc'[i] = "closed" /\ runs' = runs
    BY <1>6 DEF RunClose, PTypeOK
  <2>4. QED
    BY <2>1, <2>2, <2>3
<1>7. CASE RunCapture(i)
  BY <1>7 DEF RunCapture, PTypeOK
<1>8. QED
  BY <1>1, <1>2, <1>3, <1>4, <1>5, <1>6, <1>7 DEF StageStep

\* A stream that goes into a buffer goes on doing so, and the buffer keeps up.
LEMMA StageBuffers ==
  ASSUME PTypeOK, WriteInv, NEW i \in Procs, StageStep(i), NEW fd \in Fds,
         pc[i] = "idle" => hasBuf[<<i, fd>>],
         pc[i] \in {"idle", "running", "returned", "closed"},
         pc[i] = "running" => dst[<<i, fd>>] # "pipe",
         ~custom[<<i, fd>>] => buf[<<i, fd>>] = wrote[<<i, fd>>]
  PROVE  /\ pc'[i] = "running" => dst'[<<i, fd>>] # "pipe"
         /\ ~custom[<<i, fd>>] => buf'[<<i, fd>>] = wrote'[<<i, fd>>]
<1> DEFINE e == <<i, fd>>
<1>0. e \in Ends /\ e \in Pipes /\ e[1] = i
  BY EndsArePipes
<1> HIDE DEF e
<1>1. CASE RunStart(i) \/ RunNoRunner(i)
  <2>1. pc[i] = "idle" /\ hasBuf[e] /\ UNCHANGED <<buf, wrote>>
    BY <1>1 DEF RunStart, RunNoRunner, Callable, streams, conf, e
  <2>2. RunStart(i) => dst'[e] = Target(e)
    BY <1>0 DEF RunStart
  <2>3. Target(e) # "pipe"
    BY <2>1 DEF Target
  <2>4. RunNoRunner(i) => pc'[i] = "done"
    BY DEF RunNoRunner, PTypeOK
  <2>5. QED
    BY <1>1, <2>1, <2>2, <2>3, <2>4 DEF e
<1>2. ASSUME NEW gd \in Fds, NEW c \in Chunks, RunnerWrite(i, gd, c)
      PROVE  ~custom[e] => buf'[e] = wrote'[e]
  <2>1. pc[i] = "running"
    BY <1>2 DEF RunnerWrite, Active
  <2>2. wrote' = [wrote EXCEPT ![<<i, gd>>] = @ \o c]
    BY <1>2 DEF RunnerWrite
  <2>3. \/ dst[<<i, gd>>] = "writer"
        \/ dst[<<i, gd>>] = "buffer" /\ buf' = [buf EXCEPT ![<<i, gd>>] = @ \o c]
        \/ dst[<<i, gd>>] = "pipe"
    BY <1>2 DEF RunnerWrite
  <2>4. CASE <<i, gd>> = e
    <3>1. dst[e] # "pipe" /\ (dst[e] = "writer" => custom[e])
      BY <1>0, <2>1 DEF WriteInv, e
    <3>2. dst[e] = "buffer" => buf'[e] = buf[e] \o c
      <4>1. dst[e] = "buffer" => buf' = [buf EXCEPT ![e] = @ \o c]
        BY <2>3, <2>4
      <4>2. QED
        BY <1>0, <4>1 DEF PTypeOK
    <3>3. wrote'[e] = wrote[e] \o c
      BY <1>0, <2>2, <2>4 DEF PTypeOK
    <3>4. QED
      BY <2>3, <2>4, <3>1, <3>2, <3>3 DEF e
  <2>5. CASE <<i, gd>> # e
    <3>1. wrote'[e] = wrote[e]
      BY <1>0, <2>2, <2>5 DEF PTypeOK
    <3>2. buf'[e] = buf[e]
      BY <1>0, <1>2, <2>5 DEF RunnerWrite, PTypeOK
    <3>3. QED
      BY <3>1, <3>2 DEF e
  <2>6. QED
    BY <2>4, <2>5
<1>3. CASE RunnerOutput(i)
  <2>1. pc'[i] = "running" => pc[i] = "running" /\ dst' = dst
    BY <1>3 DEF RunnerOutput, RunnerWrite, RunnerRefused, Active, frame
  <2>2. ASSUME NEW gd \in Fds, RunnerRefused(i, gd)
        PROVE  UNCHANGED <<buf, wrote>>
    BY <2>2 DEF RunnerRefused
  <2>3. ~custom[e] => buf'[e] = wrote'[e]
    BY <1>2, <1>3, <2>2 DEF RunnerOutput, e
  <2>4. QED
    BY <2>1, <2>3 DEF e
<1>4. CASE ~(RunStart(i) \/ RunNoRunner(i) \/ RunnerOutput(i))
  <2>1. UNCHANGED <<buf, wrote, dst>> /\ (pc'[i] = "running" => pc[i] = "running")
    <3>1. CASE RunnerRead(i)
      BY <3>1 DEF RunnerRead, frame
    <3>2. CASE RunnerEof(i)
      BY <3>2 DEF RunnerEof, streams
    <3>3. CASE \E x \in Errs : RunnerReturn(i, x)
      BY <3>3 DEF RunnerReturn, streams, PTypeOK
    <3>4. CASE RunClose(i) \/ RunCapture(i)
      BY <3>4 DEF RunClose, RunCapture, streams, PTypeOK
    <3>5. QED
      BY <1>4, <3>1, <3>2, <3>3, <3>4 DEF StageStep
  <2>2. QED
    BY <2>1
<1>5. QED
  BY <1>1, <1>3, <1>4

LEMMA StageWiring ==
  ASSUME PTypeOK, LTypeOK, MainInv, PipeInv, NEW i \in Procs, StageStep(i), May(i),
         UNCHANGED lvars
  PROVE  WiringInv'
<1> USE DEF PipeInv, WiringInv, ProcessInv
<1>1. main = "running" /\ i \in Stages \ sent
  BY MayMeans DEF MainInv
<1>2. /\ UNCHANGED <<n, main, link, sent, resOut>> /\ Stages' = Stages
      /\ \A x \in Procs \ {i} : pc'[x] = pc[x]
      /\ Stages \subseteq Procs /\ n \in Nat
  BY StageStepFrame, StagesAreProcs DEF lvars, Stages
<1>3. Callable(i) => pc[i] = "idle"
  BY DEF May, Callable
<1>4. pc[i] \in {"idle", "running", "returned", "closed"}
  BY DEF May
<1>5. FreshInv'
  <2> SUFFICES ASSUME NEW x \in Procs \ Wrapped
               PROVE  /\ wpc'[x] = "idle" /\ wrote'[Stdin(x)] = <<>>
                      /\ \A fd \in Fds : ~custom'[<<x, fd>>]
                      /\ runs'[x] <= 1 /\ (pc'[x] = "idle" => runs'[x] = 0)
    BY DEF FreshInv
  <2>1. wpc'[x] = "idle" /\ wrote'[Stdin(x)] = <<>> /\ \A fd \in Fds : ~custom'[<<x, fd>>]
    BY StageFrame DEF FreshInv
  <2>2. runs[x] <= 1 /\ (pc[x] = "idle" => runs[x] = 0)
    BY DEF FreshInv
  <2>3. runs'[x] <= 1 /\ (pc'[x] = "idle" => runs'[x] = 0)
    <3>1. CASE x = i
      <4>1. \/ pc[x] = "idle" /\ runs'[x] = runs[x] + 1 /\ pc'[x] \in {"running", "done"}
            \/ runs'[x] = runs[x] /\ pc'[x] # "idle"
        BY <1>3, <3>1, StageControl
      <4>2. QED
        BY <2>2, <4>1
    <3>2. CASE x # i
      <4>1. runs'[x] = runs[x] /\ pc'[x] = pc[x]
        BY <1>2, <3>2, StageFrame
      <4>2. QED
        BY <2>2, <4>1
    <3>3. QED
      BY <3>1, <3>2
  <2>4. QED
    BY <2>1, <2>3
<1>6. WireInv'
  <2>1. \A p \in Procs \ Stages' : ~eof'[p]
    BY <1>1, <1>2, StageFrame DEF WireInv
  <2>2. ASSUME NEW x \in 1..(n - 1)
        PROVE  /\ pipe'[out(x)] # "nil"
               /\ pc'[x] \in {"closed", "done"} /\ x \notin Runnerless => pipe'[out(x)] = "closed"
    <3>1. x \in Procs /\ out(x) \in Pipes /\ out(x)[1] = x
      BY LinkIndices
    <3>2. /\ pipe[out(x)] # "nil"
          /\ pc[x] \in {"closed", "done"} /\ x \notin Runnerless => pipe[out(x)] = "closed"
      BY <1>1 DEF WireInv
    <3>3. pipe'[out(x)] = pipe[out(x)] \/ pipe'[out(x)] = "closed"
      BY <3>1, StageFrame
    <3>4. CASE x # i
      BY <1>2, <3>1, <3>2, <3>3, <3>4
    <3>5. CASE x = i
      <4>1. pc'[x] = "closed" => pipe'[out(x)] = "closed"
        BY <3>1, <3>2, <3>3, <3>5, StageControl
      <4>2. pc'[x] = "done" /\ x \notin Runnerless => pc[x] = "closed"
        BY <3>5, StageControl
      <4>3. QED
        BY <3>2, <3>3, <4>1, <4>2
    <3>6. QED
      BY <3>4, <3>5
  <2>3. QED
    BY <1>1, <1>2, <2>1, <2>2 DEF WireInv, out
<1>7. LastInv'
  <2> SUFFICES ASSUME n > 0, NEW fd \in Fds
               PROVE  /\ n \notin Wrapped => /\ pipe'[<<n, fd>>] = "nil"
                                             /\ hasBuf'[<<n, fd>>] \/ wrote'[<<n, fd>>] = <<>>
                      /\ hasBuf'[<<n, fd>>]
                      /\ pc'[n] = "running" => dst'[<<n, fd>>] # "pipe"
                      /\ ~custom'[<<n, fd>>] => buf'[<<n, fd>>] = wrote'[<<n, fd>>]
    BY <1>1, <1>2 DEF LastInv
  <2>1. n \in Procs /\ <<n, fd>> \in Ends /\ <<n, fd>> \in Pipes /\ <<n, fd>>[1] = n
    BY StagesAreProcs, EndsArePipes
  <2>2. /\ n \notin Wrapped => pipe[<<n, fd>>] = "nil"
        /\ hasBuf[<<n, fd>>]
        /\ pc[n] = "running" => dst[<<n, fd>>] # "pipe"
        /\ ~custom[<<n, fd>>] => buf[<<n, fd>>] = wrote[<<n, fd>>]
    BY <1>1 DEF LastInv
  <2>3. /\ n \notin Wrapped => pipe'[<<n, fd>>] = "nil"
        /\ hasBuf'[<<n, fd>>] /\ custom' = custom
    <3>1. pipe'[<<n, fd>>] = pipe[<<n, fd>>] \/ pipe[<<n, fd>>] = "open"
      BY <2>1, StageFrame
    <3>2. QED
      BY <2>1, <2>2, <3>1, StageFrame
  <2>4. /\ pc'[n] = "running" => dst'[<<n, fd>>] # "pipe"
        /\ ~custom[<<n, fd>>] => buf'[<<n, fd>>] = wrote'[<<n, fd>>]
    <3>1. CASE n = i
      BY <1>4, <2>1, <2>2, <3>1, StageBuffers
    <3>2. CASE n # i
      BY <1>2, <2>1, <2>2, <3>2, StageFrame
    <3>3. QED
      BY <3>1, <3>2
  <2>5. QED
    BY <2>3, <2>4
<1>8. QED
  BY <1>5, <1>6, <1>7

----------------------------------------------------------------------------
(* The calls of the caller on a process it wrapped.                        *)

\* What a call on the process i leaves alone.
LEMMA ClientLeaves ==
  ASSUME PTypeOK, NEW i \in Procs, Configure(i) \/ Feed(i) \/ WriteStep(i)
  PROVE  /\ buf' = buf
         /\ \A e \in Ends : /\ wrote'[e] = wrote[e]
                            /\ hasBuf[e] => hasBuf'[e]
                            /\ custom[e] => custom'[e]
                            /\ pipe'[e] = pipe[e] \/ (pipe[e] = "nil" /\ pipe'[e] = "open")
         /\ \A x \in Procs \ {i} : /\ wpc'[x] = wpc[x] /\ wrote'[Stdin(x)] = wrote[Stdin(x)]
                                   /\ \A fd \in Fds : /\ custom'[<<x, fd>>] = custom[<<x, fd>>]
                                                       /\ pipe'[<<x, fd>>] = pipe[<<x, fd>>]
<1>0. /\ Stdin(i) \in Pipes /\ Stdin(i) \notin Ends /\ Ends \subseteq Pipes
      /\ \A x \in Procs : /\ Stdin(x) \in Pipes /\ (x # i => Stdin(x) # Stdin(i))
                          /\ \A fd \in Fds : <<x, fd>> \in Ends
  BY EndsArePipes
<1>1. ASSUME NEW fd \in Fds, OpenPipe(<<i, fd>>) \/ Capture(<<i, fd>>) \/ SetWriter(<<i, fd>>)
      PROVE  /\ UNCHANGED <<buf, wrote, wpc>>
             /\ \A e \in Ends : /\ hasBuf[e] => hasBuf'[e]
                                /\ custom[e] => custom'[e]
                                /\ pipe'[e] = pipe[e] \/ (pipe[e] = "nil" /\ pipe'[e] = "open")
             /\ \A x \in Procs \ {i}, gd \in Fds : /\ custom'[<<x, gd>>] = custom[<<x, gd>>]
                                                   /\ pipe'[<<x, gd>>] = pipe[<<x, gd>>]
  <2>1. CASE OpenPipe(<<i, fd>>)
    BY <1>0, <2>1 DEF OpenPipe, PTypeOK, conf
  <2>2. CASE Capture(<<i, fd>>)
    BY <1>0, <2>2 DEF Capture, PTypeOK, streams
  <2>3. CASE SetWriter(<<i, fd>>)
    BY <1>0, <2>3 DEF SetWriter, PTypeOK, streams
  <2>4. QED
    BY <1>1, <2>1, <2>2, <2>3
<1>2. CASE Configure(i)
  <2>1. ASSUME NEW r, SetStdin(i, r) PROVE UNCHANGED <<buf, wrote, wpc, custom, hasBuf, pipe>>
    BY <2>1 DEF SetStdin, streams
  <2>2. QED
    BY <1>1, <1>2, <2>1 DEF Configure
<1>3. CASE Feed(i) \/ WriteStep(i)
  <2>1. UNCHANGED <<buf, custom, hasBuf>>
    BY <1>3 DEF Feed, WriteStep, WriteEnter, CloseStdin, WriteOffer, WriteRefused,
                WriteReturn, WriteAbort, conf, streams
  <2>2. /\ \A q \in Pipes : q # Stdin(i) => pipe'[q] = pipe[q] /\ wrote'[q] = wrote[q]
        /\ \A x \in Procs \ {i} : wpc'[x] = wpc[x]
    <3>1. CASE WriteEnter(i) \/ CloseStdin(i)
      BY <1>0, <3>1 DEF WriteEnter, CloseStdin, PTypeOK
    <3>2. ASSUME NEW c \in Chunks, WriteOffer(i, c)
          PROVE  /\ \A q \in Pipes : q # Stdin(i) => pipe'[q] = pipe[q] /\ wrote'[q] = wrote[q]
                 /\ \A x \in Procs \ {i} : wpc'[x] = wpc[x]
      BY <1>0, <3>2 DEF WriteOffer, PTypeOK
    <3>3. CASE WriteRefused(i) \/ WriteReturn(i)
      BY <1>0, <3>3 DEF WriteRefused, WriteReturn, streams, PTypeOK
    <3>4. CASE WriteAbort(i)
      BY <1>0, <3>4 DEF WriteAbort, PTypeOK
    <3>5. QED
      BY <1>3, <3>1, <3>2, <3>3, <3>4 DEF Feed, WriteStep
  <2>3. QED
    BY <1>0, <2>1, <2>2
<1>4. QED
  BY <1>2, <1>3

LEMMA ClientWiring ==
  ASSUME PTypeOK, LTypeOK, MainInv, PipeInv, NEW i \in Wrapped,
         Configure(i) \/ Feed(i) \/ WriteStep(i), UNCHANGED lvars
  PROVE  WiringInv'
<1> USE DEF PipeInv, WiringInv, ProcessInv
<1>1. /\ UNCHANGED <<n, main, link, resOut, pc, runs, eof, dst, buf>>
      /\ Stages' = Stages /\ i \in Procs
  BY ClientFrame, ClientLeaves, PipeAssumption DEF lvars, frame, Stages
<1>2. FreshInv'
  <2> SUFFICES ASSUME NEW x \in Procs \ Wrapped
               PROVE  /\ wpc'[x] = "idle" /\ wrote'[Stdin(x)] = <<>>
                      /\ \A fd \in Fds : ~custom'[<<x, fd>>]
    BY <1>1 DEF FreshInv
  <2>1. x \in Procs \ {i}
    OBVIOUS
  <2>2. QED
    BY <1>1, <2>1, ClientLeaves DEF FreshInv
<1>3. WireInv'
  <2>1. ASSUME NEW x \in 1..(n - 1)
        PROVE  /\ pipe[out(x)] # "nil" => pipe'[out(x)] # "nil"
               /\ pipe[out(x)] = "closed" => pipe'[out(x)] = "closed"
    BY <1>1, ClientLeaves, LinkIndices
  <2>2. QED
    BY <1>1, <2>1 DEF WireInv, out
<1>4. LastInv'
  <2> SUFFICES ASSUME n > 0, NEW fd \in Fds
               PROVE  /\ n \notin Wrapped => pipe'[<<n, fd>>] = pipe[<<n, fd>>]
                      /\ hasBuf[<<n, fd>>] => hasBuf'[<<n, fd>>]
                      /\ custom[<<n, fd>>] => custom'[<<n, fd>>]
                      /\ wrote'[<<n, fd>>] = wrote[<<n, fd>>]
    BY <1>1 DEF LastInv
  <2>1. n \in Procs /\ <<n, fd>> \in Ends
    BY StagesAreProcs, EndsArePipes
  <2>2. n \notin Wrapped => n \in Procs \ {i}
    BY <2>1
  <2>3. QED
    BY <1>1, <2>1, <2>2, ClientLeaves
<1>5. QED
  BY <1>2, <1>3, <1>4

----------------------------------------------------------------------------
(* Every step.                                                             *)

\* What Run does for itself, and stuttering, touch no process.
LEMMA MainWiring ==
  ASSUME PTypeOK, LTypeOK, MainInv, PipeInv,
         UNCHANGED lvars \/ RunEmpty \/ Collect \/ Deadline \/ (\E i \in Procs : StageSend(i)),
         UNCHANGED pvars
  PROVE  PipeInv'
<1> USE DEF PipeInv, WiringInv
<1>1. ProcessInv'
  BY StutterInv
<1>2. UNCHANGED <<in, custom, hasBuf, streams, frame, wpc>>
  BY DEF pvars, conf
<1>3. /\ UNCHANGED <<n, link>> /\ Stages' = Stages
      /\ main' = main \/ main' = "returned"
  BY DEF lvars, RunEmpty, Collect, Deadline, StageSend, Stages
<1>4. FreshInv'
  BY <1>2 DEF streams, frame, FreshInv
<1>5. WireInv'
  BY <1>2, <1>3 DEF streams, frame, WireInv, out
<1>6. LastInv'
  <2>1. CASE n = 0
    BY <1>3, <2>1 DEF LastInv
  <2>2. CASE n # 0
    <3>1. UNCHANGED <<main, resOut>> \/ (main' = "returned" /\ resOut' = [fd \in Fds |-> buf[<<n, fd>>]])
      BY <2>2 DEF lvars, RunEmpty, Collect, Deadline, StageSend
    <3>2. QED
      BY <1>2, <1>3, <3>1 DEF streams, frame, LastInv
  <2>3. QED
    BY <2>1, <2>2
<1>7. QED
  BY <1>1, <1>4, <1>5, <1>6

LEMMA PipeInvStep ==
  ASSUME PTypeOK, LTypeOK, MainInv, PipeInv, [PipeNext]_vars
  PROVE  PipeInv'
<1>1. CASE UNCHANGED vars \/ RunEmpty \/ Collect \/ Deadline
  BY <1>1, MainWiring DEF vars, RunEmpty, Collect, Deadline
<1>2. CASE Create \/ Link \/ GiveBuffers
  BY <1>2, CreateInv, LinkInv, GiveBuffersInv
<1>3. ASSUME NEW i \in Procs, StageNext(i) PROVE PipeInv'
  <2>1. CASE StageSend(i)
    BY <2>1, MainWiring DEF StageSend
  <2>2. CASE ~StageSend(i)
    <3>1. StageStep(i) /\ May(i) /\ UNCHANGED lvars
      BY <1>3, <2>2, StageKinds
    <3>2. ProcessInv'
      BY <3>1, StageStepInv DEF PipeInv
    <3>3. WiringInv'
      BY <3>1, StageWiring
    <3>4. QED
      BY <3>2, <3>3 DEF PipeInv
  <2>3. QED
    BY <2>1, <2>2
<1>4. ASSUME NEW i \in Procs, Client(i) \/ ClientWrite(i) PROVE PipeInv'
  <2>1. i \in Wrapped /\ (Configure(i) \/ Feed(i) \/ WriteStep(i)) /\ UNCHANGED lvars
    BY <1>4 DEF Client, ClientWrite
  <2>2. ProcessInv'
    BY <2>1, ConfigureInv, FeedInv DEF PipeInv
  <2>3. WiringInv'
    BY <2>1, ClientWiring
  <2>4. QED
    BY <2>2, <2>3 DEF PipeInv
<1>5. QED
  BY <1>1, <1>2, <1>3, <1>4 DEF PipeNext, Prologue

\* What holds of one process holds of those of a pipeline, new and old, and what
\* is said above of the links and of the last stage.
THEOREM PipeData == PipeSpec => [](PTypeOK /\ LTypeOK /\ MainInv /\ PipeInv)
<1>1. PipeInit => PTypeOK /\ LTypeOK /\ MainInv /\ PipeInv
  BY PipeInitCtl, PipeInitInv
<1>2. PTypeOK /\ LTypeOK /\ MainInv /\ PipeInv /\ [PipeNext]_vars
        => (PTypeOK /\ LTypeOK /\ MainInv /\ PipeInv)'
  BY PipeNextPType, MainStep, PipeInvStep
<1>3. QED
  BY <1>1, <1>2, PTL DEF PipeSpec

----------------------------------------------------------------------------
(* The theorems.                                                           *)

\* The answer of Run has everything the last stage wrote (pipeline.go:166), in
\* this Run and in the earlier ones.
THEOREM LastOutputInAnswer == PipeSpec => []ResultIsLastOutput
<1>1. PipeInv => ResultIsLastOutput
  BY DEF PipeInv, WiringInv, LastInv, ResultIsLastOutput
<1>2. QED
  BY <1>1, PipeData, PTL

\* A stage that is done, with a runner, has given the next one its EOF, so that
\* no stage waits for input from one that has ended (process.go:179).
THEOREM DoneClosesLink == PipeSpec => []DoneMeansClosed
<1>1. PipeInv => DoneMeansClosed
  BY DEF PipeInv, WiringInv, WireInv, DoneMeansClosed
<1>2. QED
  BY <1>1, PipeData, PTL

\* A stage that Run makes the process of never meets its own output closed,
\* however often the pipeline is run.
THEOREM FreshHeard == PipeSpec => []NoStageRefused
<1>1. PTypeOK /\ LTypeOK /\ PipeInv => NoStageRefused
  <2> SUFFICES ASSUME PTypeOK, LTypeOK, PipeInv, NEW i \in Stages \ Wrapped
               PROVE  ~refused[i]
    BY DEF NoStageRefused
  <2>1. i \in Procs /\ runs[i] \in Nat
    BY StagesAreProcs DEF PTypeOK
  <2>2. runs[i] <= 1 /\ (refused[i] => runs[i] > 1)
    BY <2>1 DEF PipeInv, WiringInv, FreshInv, ProcessInv, RunInv
  <2>3. QED
    BY <2>1, <2>2
<1>2. QED
  BY <1>1, PipeData, PTL

\* Nothing is lost or duplicated between two stages, nor on the stdin the caller
\* feeds, whatever the pipeline does with its processes.
THEOREM LinksConserve == PipeSpec => []PipeConservation
<1>1. PipeInv => PipeConservation
  BY DEF PipeInv, ProcessInv
<1>2. QED
  BY <1>1, PipeData, PTL

\* A stage that has seen the end of its input has all of the stage before it.
THEOREM StageEofMeansAll == PipeSpec => []EofIsComplete
<1>1. PTypeOK /\ PipeInv => EofIsComplete
  BY InvImpliesEof DEF PipeInv
<1>2. QED
  BY <1>1, PipeData, PTL
============================================================================
