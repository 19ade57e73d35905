----------------------------- MODULE MCPipeline -----------------------------
(***************************************************************************)
(* The links of a pipeline of up to three stages, each as an instance of   *)
(* Stream.  TLC takes no quantifier over instances, so the two links are   *)
(* named.  A link that has no stage after it is an empty stream.           *)
(***************************************************************************)
EXTENDS Pipeline

FirstLink == INSTANCE Stream WITH
  sent  <- IF n > 1 THEN wrote[out(1)] ELSE <<>>,
  rcvd  <- recv[out(1)],
  ended <- pipe[out(1)] = "closed",
  seen  <- n > 1 /\ eof[2]

SecondLink == INSTANCE Stream WITH
  sent  <- IF n > 2 THEN wrote[out(2)] ELSE <<>>,
  rcvd  <- recv[out(2)],
  ended <- pipe[out(2)] = "closed",
  seen  <- n > 2 /\ eof[3]

\* Each link of a pipeline of fresh stages implements an unbuffered stream: all
\* of stage i's stdout, in order, once, reaches stage i+1 before it sees EOF.
LinksAreStreams == FirstLink!StreamSpec /\ SecondLink!StreamSpec
============================================================================
