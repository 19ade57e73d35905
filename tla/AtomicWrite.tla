---------------------------- MODULE AtomicWrite ----------------------------
(***************************************************************************)
(* AtomicWriteFile, step by step (src/toolkit/env_os.go; TestEnv's, in     *)
(* env_testenv.go, takes the same steps once the path is in the jail):     *)
(* make the directory, create a temporary file, write it, close it, give   *)
(* it its mode, rename it over the target; the deferred Remove takes the   *)
(* temporary file away if the rename did not.                              *)
(*                                                                         *)
(* Goroutines or processes call it for the same path and others read that  *)
(* path with ReadFile.  Every system call may fail, a write after part of  *)
(* the data, and a caller's process may die between any two steps.  What   *)
(* the temporary directory and the target's directory are is not modelled: *)
(* when they are on different devices, every rename fails.                 *)
(*                                                                         *)
(* A call's temporary file is named for the call, as the names CreateTemp  *)
(* draws are different; a file is known by the call that made it, wherever *)
(* its name is.                                                            *)
(***************************************************************************)
EXTENDS Naturals

CONSTANTS
  Writers, Readers,
  MaxWrites,   \* bound: calls of one writer
  Parts,       \* how many parts the data of a call has
  None         \* no file

ASSUME WriteAssumption == MaxWrites \in Nat /\ Parts \in Nat \ {0} /\ None \notin Writers \X Nat

Files == Writers \X (1..MaxWrites)
Steps == {"idle", "mkdir", "create", "write", "close", "chmod", "rename", "remove"}

VARIABLES
  pc,       \* the step each writer is at
  count,    \* how many calls it has begun
  outcome,  \* what its current call will return
  report,   \* what its last call returned
  temps,    \* the files in the temporary directory
  target,   \* the file at the path
  parts,    \* how much of its data each file holds
  moded,    \* the files that have the mode the caller asked for
  slack,    \* those whose Chmod failed, which the code does not mind
  opened,   \* the file each reader has open or read last
  reading   \* the readers that are at it
vars == <<pc, count, outcome, report, temps, target, parts, moded, slack, opened, reading>>

disk   == <<temps, target, parts, moded, slack>>
reader == <<opened, reading>>

Own(w) == <<w, count[w]>>

Init ==
  /\ pc      = [w \in Writers |-> "idle"]
  /\ count   = [w \in Writers |-> 0]
  /\ outcome = [w \in Writers |-> "none"]
  /\ report  = [w \in Writers |-> "none"]
  /\ temps = {} /\ target = None /\ moded = {} /\ slack = {}
  /\ parts   = [f \in Files |-> 0]
  /\ opened  = [r \in Readers |-> None]
  /\ reading = {}

-----------------------------------------------------------------------------
Goto(w, s) == pc' = [pc EXCEPT ![w] = s]
Answer(w, o) == outcome' = [outcome EXCEPT ![w] = o]

Begin(w) ==
  /\ pc[w] = "idle" /\ count[w] < MaxWrites
  /\ Goto(w, "mkdir")
  /\ count' = [count EXCEPT ![w] = @ + 1]
  /\ Answer(w, "none")
  /\ report' = [report EXCEPT ![w] = "none"]
  /\ UNCHANGED <<disk, reader>>

(* MkdirAll and CreateTemp return their error: nothing is deferred yet.    *)
Fail(w) ==
  /\ pc[w] \in {"mkdir", "create"}
  /\ Goto(w, "idle")
  /\ Answer(w, "error")
  /\ report' = [report EXCEPT ![w] = "error"]
  /\ UNCHANGED <<count, disk, reader>>

MkdirAll(w) ==
  /\ pc[w] = "mkdir" /\ Goto(w, "create")
  /\ UNCHANGED <<count, outcome, report, disk, reader>>

CreateTemp(w) ==
  /\ pc[w] = "create" /\ Goto(w, "write")
  /\ temps' = temps \cup {Own(w)}
  /\ UNCHANGED <<count, outcome, report, target, parts, moded, slack, reader>>

Write(w) ==
  /\ pc[w] = "write"
  /\ parts' = [parts EXCEPT ![Own(w)] = Parts]
  /\ Goto(w, "close")
  /\ UNCHANGED <<count, outcome, report, temps, target, moded, slack, reader>>

(* (bug: an error of Write is ignored)                                     *)
WriteShort_Ignored(w) ==
  /\ pc[w] = "write"
  /\ \E k \in 0..(Parts - 1) : parts' = [parts EXCEPT ![Own(w)] = k]
  /\ Goto(w, "close")
  /\ UNCHANGED <<count, outcome, report, temps, target, moded, slack, reader>>

WriteShort(w) ==
  /\ pc[w] = "write"
  /\ \E k \in 0..(Parts - 1) : parts' = [parts EXCEPT ![Own(w)] = k]
  /\ Goto(w, "remove") /\ Answer(w, "error")
  /\ UNCHANGED <<count, report, temps, target, moded, slack, reader>>

(* (bug: an error of Close returns without the removal)                    *)
Close_NotRemoved(w) ==
  /\ pc[w] = "close"
  /\ \/ Goto(w, "chmod") /\ UNCHANGED outcome
     \/ Goto(w, "idle") /\ Answer(w, "error")
  /\ UNCHANGED <<count, report, disk, reader>>

Close(w) ==
  /\ pc[w] = "close"
  /\ \/ Goto(w, "chmod") /\ UNCHANGED outcome
     \/ Goto(w, "remove") /\ Answer(w, "error")
  /\ UNCHANGED <<count, report, disk, reader>>

Chmod(w) ==
  /\ pc[w] = "chmod" /\ Goto(w, "rename")
  /\ \/ moded' = moded \cup {Own(w)} /\ UNCHANGED slack
     \/ slack' = slack \cup {Own(w)} /\ UNCHANGED moded
  /\ UNCHANGED <<count, outcome, report, temps, target, parts, reader>>

(* (bug: the file is linked to its new name and keeps the old)             *)
Rename_Copies(w) ==
  /\ pc[w] = "rename" /\ Goto(w, "remove")
  /\ target' = Own(w)
  /\ Answer(w, "ok")
  /\ UNCHANGED <<count, report, temps, parts, moded, slack, reader>>

Rename(w) ==
  /\ pc[w] = "rename" /\ Goto(w, "remove")
  /\ target' = Own(w)
  /\ temps' = temps \ {Own(w)}
  /\ Answer(w, "ok")
  /\ UNCHANGED <<count, report, parts, moded, slack, reader>>

(* (bug: an error of Rename is ignored)                                    *)
RenameFails_Ignored(w) ==
  /\ pc[w] = "rename" /\ Goto(w, "remove") /\ Answer(w, "ok")
  /\ UNCHANGED <<count, report, disk, reader>>

RenameFails(w) ==
  /\ pc[w] = "rename" /\ Goto(w, "remove") /\ Answer(w, "error")
  /\ UNCHANGED <<count, report, disk, reader>>

(* The deferred Remove, and the return.                                    *)
Remove(w) ==
  /\ pc[w] = "remove" /\ Goto(w, "idle")
  /\ temps' = temps \ {Own(w)}
  /\ report' = [report EXCEPT ![w] = outcome[w]]
  /\ UNCHANGED <<count, outcome, target, parts, moded, slack, reader>>

(* The process of w dies and a new one takes its place.                    *)
Crash(w) ==
  /\ pc[w] # "idle" /\ Goto(w, "idle")
  /\ Answer(w, "lost")
  /\ UNCHANGED <<count, report, disk, reader>>

-----------------------------------------------------------------------------
(* ReadFile: open what is at the path, then read it to its end.            *)
Open(r) ==
  /\ r \notin reading /\ target # None
  /\ opened' = [opened EXCEPT ![r] = target]
  /\ reading' = reading \cup {r}
  /\ UNCHANGED <<pc, count, outcome, report, disk>>

Finish(r) ==
  /\ r \in reading
  /\ reading' = reading \ {r}
  /\ UNCHANGED <<pc, count, outcome, report, disk, opened>>

Next ==
  \/ \E w \in Writers :
       \/ Begin(w) \/ Fail(w) \/ MkdirAll(w) \/ CreateTemp(w) \/ Write(w)
       \/ WriteShort(w) \/ Close(w) \/ Chmod(w) \/ Rename(w) \/ RenameFails(w)
       \/ Remove(w) \/ Crash(w)
  \/ \E r \in Readers : Open(r) \/ Finish(r)

Spec == Init /\ [][Next]_vars

-----------------------------------------------------------------------------
(* Properties                                                              *)

(* Types; and a file is in one place at most.                              *)
TypeOK ==
  /\ pc \in [Writers -> Steps]
  /\ count \in [Writers -> 0..MaxWrites]
  /\ outcome \in [Writers -> {"none", "ok", "error", "lost"}]
  /\ report \in [Writers -> {"none", "ok", "error"}]
  /\ temps \subseteq Files /\ moded \subseteq Files /\ slack \subseteq Files
  /\ target \in Files \cup {None} /\ target \notin temps
  /\ parts \in [Files -> 0..Parts]
  /\ opened \in [Readers -> Files \cup {None}]
  /\ reading \subseteq Readers

(* At every moment, crashes and failures included, what is at the path and *)
(* what a reader has open, even when it has been replaced since, is whole, *)
(* and has the mode that was asked for unless Chmod failed.                *)
Whole(f) == parts[f] = Parts /\ f \in moded \cup slack
NeverPartial ==
  /\ target # None => Whole(target)
  /\ \A r \in reading : Whole(opened[r])

(* A temporary file is there only during the call that made it, or if that *)
(* call's process died: every error path cleans up.  (Of an earlier call   *)
(* there is none that was not there already when that call had ended.  The *)
(* removal itself, whose error the code drops, does not fail here.)        *)
NoLitter ==
  \A f \in temps :
    \/ Own(f[1]) = f /\ (pc[f[1]] # "idle" \/ outcome[f[1]] = "lost")
    \/ count[f[1]] > f[2]

(* The calls are atomic writes of one file: see AtomicFile.                *)
stage == [w \in Writers |->
            IF pc[w] = "idle" THEN "idle"
            ELSE IF pc[w] = "remove" /\ outcome[w] = "ok" THEN "effective" ELSE "pending"]
AF == INSTANCE AtomicFile WITH
        Contents <- Files, file <- target, stage <- stage, report <- report,
        writing <- [w \in Writers |-> IF count[w] = 0 THEN None ELSE Own(w)],
        found <- opened
IsAtomicFile == AF!Spec
=============================================================================
