----------------------------- MODULE MCProcess -----------------------------
(***************************************************************************)
(* Process on small instances, and the way of using it that a test of the  *)
(* package describes.                                                      *)
(***************************************************************************)
EXTENDS Process

\* TestProcess_ContinuousStdin: one goroutine calls Run, another Write
RunWhileWriting ==
  \E p \in Procs : RunStep(p) \/ Feed(p) \/ WriteStep(p)

RunWhileWritingSpec == ProcInit /\ [][RunWhileWriting]_pvars

\* Processes without a runner are only run: nothing that configures them shows
ConfiguredIfRunnable ==
  \/ \E p \in Procs : RunStep(p)
  \/ \E p \in Procs \ Runnerless :
       Configure(p) \/ Feed(p) \/ WriteStep(p) \/ CallRunWithIO(p)
  \/ ClientReads

ConfiguredIfRunnableSpec ==
  ProcInit /\ [][ConfiguredIfRunnable]_pvars /\ ProcFairness
============================================================================
