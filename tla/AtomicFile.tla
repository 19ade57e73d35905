----------------------------- MODULE AtomicFile ----------------------------
(***************************************************************************)
(* What AtomicWriteFile promises: a file that is replaced as a whole, at   *)
(* one instant between the call and its return, or not at all.  A reader   *)
(* finds the file as it was at one instant.                                *)
(***************************************************************************)
CONSTANTS
  Writers, Readers,
  Contents,   \* what the calls write
  None        \* no file, or nothing

VARIABLES
  file,      \* what is in the file
  writing,   \* what each writer's call is to write
  stage,     \* "idle", "pending" before the instant, "effective" after it
  report,    \* how the writer's last call ended: "ok", "error", or "none"
  found      \* what each reader's last read found
vars == <<file, writing, stage, report, found>>

Init ==
  /\ file = None
  /\ writing = [w \in Writers |-> None]
  /\ stage   = [w \in Writers |-> "idle"]
  /\ report  = [w \in Writers |-> "none"]
  /\ found   = [r \in Readers |-> None]

Call(w, c) ==
  /\ stage[w] = "idle"
  /\ stage'   = [stage EXCEPT ![w] = "pending"]
  /\ writing' = [writing EXCEPT ![w] = c]
  /\ report'  = [report EXCEPT ![w] = "none"]
  /\ UNCHANGED <<file, found>>

TakeEffect(w) ==
  /\ stage[w] = "pending"
  /\ stage' = [stage EXCEPT ![w] = "effective"]
  /\ file'  = writing[w]
  /\ UNCHANGED <<writing, report, found>>

(* A success is reported after the effect and an error without one; a call *)
(* that dies with its process reports nothing.                             *)
Return(w) ==
  /\ \/ stage[w] = "effective" /\ report' \in {report, [report EXCEPT ![w] = "ok"]}
     \/ stage[w] = "pending" /\ report' \in {report, [report EXCEPT ![w] = "error"]}
  /\ stage' = [stage EXCEPT ![w] = "idle"]
  /\ UNCHANGED <<file, writing, found>>

Read(r) == found' = [found EXCEPT ![r] = file] /\ UNCHANGED <<file, writing, stage, report>>

Next ==
  \/ \E w \in Writers : \/ \E c \in Contents : Call(w, c)
                        \/ TakeEffect(w)
                        \/ Return(w)
  \/ \E r \in Readers : Read(r)

Spec == Init /\ [][Next]_vars
=============================================================================
