------------------------------- MODULE HostFs ------------------------------
(***************************************************************************)
(* The host's file system, as package os shows it (external): a tree of    *)
(* directories and files without links, from lists of names to nodes.      *)
(* Each operation is a condition for its success and its result.           *)
(***************************************************************************)
EXTENDS Paths

CONSTANT
  DirNode   \* the node of a directory; a file's node is its content

IsDir(f, t)  == t \in DOMAIN f /\ f[t] = DirNode
IsFile(f, t) == t \in DOMAIN f /\ f[t] # DirNode

(* os.MkdirAll and os.Mkdir                                                *)
MkdirAllOk(f, t) == \A q \in Prefixes(t) : ~IsFile(f, q)
MkdirAll(f, t) ==
  [q \in DOMAIN f \cup Prefixes(t) |-> IF q \in DOMAIN f THEN f[q] ELSE DirNode]
MkdirOk(f, t) == t # <<>> /\ t \notin DOMAIN f /\ IsDir(f, Front(t))

(* os.WriteFile                                                            *)
PutOk(f, t) == t # <<>> /\ IsDir(f, Front(t)) /\ ~IsDir(f, t)
Put(f, t, d) == [q \in DOMAIN f \cup {t} |-> IF q = t THEN d ELSE f[q]]

(* os.RemoveAll and os.Remove; the root stays                              *)
Pruned(f, t) == [q \in {r \in DOMAIN f : r = <<>> \/ ~Under(t, r)} |-> f[q]]
RemoveOk(f, t) ==
  /\ t # <<>> /\ t \in DOMAIN f
  /\ \A q \in DOMAIN f : Under(t, q) => q = t

(* os.Rename: it replaces a file, never a directory                        *)
RenameOk(f, a, b) ==
  /\ a # <<>> /\ a \in DOMAIN f
  /\ b # <<>> /\ IsDir(f, Front(b)) /\ ~IsDir(f, b)
  /\ IsDir(f, a) => b \notin DOMAIN f /\ ~Under(a, b)
Rebased(a, b, q) == b \o SubSeq(q, Len(a) + 1, Len(q))
Renamed(f, a, b) ==
  LET moved == {q \in DOMAIN f : Under(a, q)}
      kept  == {q \in DOMAIN f : ~Under(a, q) /\ q # b} IN
  [t \in kept \cup {Rebased(a, b, q) : q \in moved} |->
     IF t \in kept THEN f[t]
     ELSE f[CHOOSE q \in moved : Rebased(a, b, q) = t]]
=============================================================================
