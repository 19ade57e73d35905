------------------------------- MODULE Paths -------------------------------
(***************************************************************************)
(* File names as the toolkit computes with them: the functions of Go's     *)
(* path/filepath it calls (external) and the jail arithmetic of            *)
(* src/toolkit/filepath_jail.go.                                           *)
(*                                                                         *)
(* A path is its list of elements and whether it starts at the root; the   *)
(* empty string is the relative path with no element.  Elements are names, *)
(* "." and ".." among them.                                                *)
(***************************************************************************)
EXTENDS Integers, Sequences, FiniteSets, SequencesExt

CONSTANTS
  NoPath,       \* the answer of a call that fails
  DotDotNames   \* the names, other than "..", that begin with two dots

Path == [abs : BOOLEAN, segs : Seq(STRING)]

(* That a literal is a string is said because the proof system cannot tell. *)
ASSUME PathAssumption ==
  /\ NoPath \notin Path \cup Seq(STRING)
  /\ {".", ".."} \subseteq STRING \ DotDotNames

Abs(s)  == [abs |-> TRUE,  segs |-> s]
Relv(s) == [abs |-> FALSE, segs |-> s]
Empty   == Relv(<<>>)
Dot     == Relv(<<".">>)
Root    == Abs(<<>>)

(* filepath.Clean: "." disappears, ".." takes the element before it with   *)
(* it, and nothing is above the root.  Without either, a list stays.       *)
Folded(abs, done, s) ==
  CASE s = "." -> done
    [] s = ".." /\ done # <<>> /\ Last(done) # ".." -> Front(done)
    [] s = ".." /\ done = <<>> /\ abs -> done
    [] OTHER -> Append(done, s)

Simplified(p) ==
  LET upto[i \in 0..Len(p.segs)] ==
        IF i = 0 THEN <<>> ELSE Folded(p.abs, upto[i - 1], p.segs[i])
  IN  IF \E i \in DOMAIN p.segs : p.segs[i] \in {".", ".."}
      THEN upto[Len(p.segs)] ELSE p.segs

Named(abs, s) == IF ~abs /\ s = <<>> THEN Dot ELSE [abs |-> abs, segs |-> s]
Clean(p) == Named(p.abs, Simplified(p))

(* filepath.Join of two elements, which leaves empty ones out.             *)
Join(a, b) ==
  IF a = Empty /\ b = Empty THEN Empty
  ELSE Clean(IF a = Empty THEN b ELSE [a EXCEPT !.segs = @ \o b.segs])

(* filepath.Dir: all but the last element.                                 *)
Dir(p) == Clean(IF p.segs = <<>> THEN p ELSE [p EXCEPT !.segs = Front(@)])

(* filepath.Rel of two clean paths, the base absolute or ".": all that is  *)
(* asked here.  It goes up to the longest common prefix and down again.    *)
Elems(p) == IF p = Dot THEN <<>> ELSE p.segs
Common(s, t) ==
  {i \in 1..Len(s) : i <= Len(t) /\ \A j \in 1..i : s[j] = t[j]}
Climb(s, t, k) == Relv([i \in 1..(Len(s) - k) |-> ".."] \o SubSeq(t, k + 1, Len(t)))
Between(s, t) == Climb(s, t, Cardinality(Common(s, t)))
Rel(base, targ) ==
  IF base = targ THEN Dot
  ELSE IF base.abs # targ.abs THEN NoPath
  ELSE Between(Elems(base), Elems(targ))

(* RemoveJailPrefix.  Clean never returns "", so the test of the code for  *)
(* an empty jail is dead: the jail "." goes through Rel.                   *)
Rooted(rel, p) == IF rel = NoPath THEN p ELSE Join(Root, rel)
RemoveJailPrefix(jl, p) == Rooted(Rel(Clean(jl), Clean(p)), Clean(p))

(* (bug: only the directory above the jail is taken to be outside)         *)
GoesUp_Once(p) == p = Relv(<<"..">>)

(* strings.HasPrefix(rel, ".."): it also holds of a name like "..data".    *)
GoesUp(p) == p.segs # <<>> /\ p.segs[1] \in {".."} \cup DotDotNames

Inside(rel) == rel # NoPath /\ ~GoesUp(rel)
IsInJail(jl, p) == jl = Empty \/ ~Clean(p).abs \/ Inside(Rel(Clean(jl), Clean(p)))

(* EnsureInJail: what is outside is appended to the jail as a whole, where *)
(* its comments (lines 57 and 81) say its base name.                       *)
EnsureInJail(jl, p) ==
  IF jl = Empty THEN p
  ELSE IF p \in {Empty, Root} THEN Clean(jl)
  ELSE IF IsInJail(Clean(jl), Clean(p)) THEN Clean(p)
  ELSE Join(Clean(jl), Clean(p))

-----------------------------------------------------------------------------
(* What "within" means: the elements of d begin those of t.                *)
Under(d, t) == Len(d) <= Len(t) /\ \A i \in 1..Len(d) : t[i] = d[i]
=============================================================================
