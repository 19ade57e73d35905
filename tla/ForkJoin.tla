------------------------------ MODULE ForkJoin ------------------------------
(***************************************************************************)
(* What Pipeline.Run promises its caller, with no pipe and no buffer in    *)
(* sight: a team of tasks is started together, each ends once, well or     *)
(* badly, and the caller gets its answer after the last of them, an answer *)
(* that is an error exactly when some task ended badly.  A Run with no     *)
(* task at all answers with an error.  The caller may Run again.           *)
(***************************************************************************)
CONSTANT Tasks

VARIABLES
  phase,     \* "ready", "forked" or "joined"
  team,      \* the tasks of this Run
  finished,  \* those that ended
  failed,    \* those that ended badly
  verdict    \* what the caller was told: "none" yet, "ok" or "failed"

jvars == <<phase, team, finished, failed, verdict>>

JoinInit ==
  /\ phase = "ready" /\ verdict = "none"
  /\ team \in SUBSET Tasks
  /\ finished = {} /\ failed = {}

Begin ==
  /\ phase \in {"ready", "joined"} /\ team # {}
  /\ phase' = "ready" /\ verdict' = "none"
  /\ finished' = {} /\ failed' = {}
  /\ UNCHANGED team

Reject ==
  /\ phase # "forked" /\ team = {}
  /\ phase' = "joined" /\ verdict' = "failed"
  /\ UNCHANGED <<team, finished, failed>>

Fork ==
  /\ phase = "ready" /\ team # {}
  /\ phase' = "forked"
  /\ UNCHANGED <<team, finished, failed, verdict>>

Finish(t) ==
  /\ phase = "forked" /\ t \in team \ finished
  /\ finished' = finished \cup {t}
  /\ failed' \in {failed, failed \cup {t}}
  /\ UNCHANGED <<phase, team, verdict>>

Join ==
  /\ phase = "forked" /\ finished = team
  /\ phase' = "joined"
  /\ verdict' = IF failed = {} THEN "ok" ELSE "failed"
  /\ UNCHANGED <<team, finished, failed>>

JoinNext == Begin \/ Reject \/ Fork \/ (\E t \in Tasks : Finish(t)) \/ Join

JoinSpec == JoinInit /\ [][JoinNext]_jvars
============================================================================
