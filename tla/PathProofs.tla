---------------------------- MODULE PathProofs -----------------------------
(***************************************************************************)
(* What the functions on paths return, for every path: Clean, Join, Dir,   *)
(* Rel and the jail arithmetic of src/toolkit/filepath_jail.go.  A list of *)
(* elements is simplified by a recursion over it; the lemmas about it are  *)
(* proved with the least index at which they would fail.                   *)
(***************************************************************************)
EXTENDS Paths, FiniteSetTheorems, WellFoundedInduction, SequenceTheorems, TLAPS

(* The paths over the elements S, and the lists without "." and "..".      *)
PathOf(S) == [abs : BOOLEAN, segs : Seq(S)]
Plain(s) == \A i \in 1..Len(s) : s[i] \notin {".", ".."}

(* A path as Clean leaves an absolute one.                                 *)
Settled(p) == p.abs /\ Plain(p.segs)

-----------------------------------------------------------------------------
(* Lists                                                                   *)

(* A set of numbers that is not empty has a least one.                     *)
LEMMA LeastNat ==
  ASSUME NEW T, T \subseteq Nat, T # {}
  PROVE  \E x \in T : \A y \in T : x <= y
<1> DEFINE R == {p \in Nat \X Nat : p[1] < p[2]}
<1>1. IsWellFoundedOn(R, Nat)
  <2>1. OpToRel(<, Nat) = R
    BY DEF OpToRel
  <2>2. QED
    BY <2>1, NatLessThanWellFounded
<1>2. \A x, y \in Nat : y < x => <<y, x>> \in R
  OBVIOUS
<1> HIDE DEF R
<1>3. PICK x \in T : \A y \in T : ~(<<y, x>> \in R)
  BY <1>1, WFMin
<1>4. ASSUME NEW y \in T
      PROVE  x <= y
  <2>1. x \in Nat /\ y \in Nat
    OBVIOUS
  <2>2. ~(y < x)
    BY <1>2, <1>3, <2>1
  <2>3. QED
    BY <2>1, <2>2
<1>5. QED
  BY <1>4

(* What holds at 0 and is inherited by the successor holds up to n.        *)
LEMMA Inherited ==
  ASSUME NEW n \in Nat, NEW T, T \subseteq 0..n, 0 \in T,
         \A i \in 1..n : i - 1 \in T => i \in T
  PROVE  \A i \in 0..n : i \in T
<1> SUFFICES ASSUME (0..n) \ T # {}
             PROVE  FALSE
  OBVIOUS
<1>1. (0..n) \ T \subseteq Nat
  OBVIOUS
<1>2. PICK x \in (0..n) \ T : \A y \in (0..n) \ T : x <= y
  BY <1>1, LeastNat
<1>3. x \in 1..n /\ x - 1 \in 0..n /\ ~(x <= x - 1)
  OBVIOUS
<1>4. x - 1 \in T
  BY <1>2, <1>3
<1>5. QED
  BY <1>2, <1>3, <1>4

LEMMA SeqIncluded ==
  ASSUME NEW S, NEW T, S \subseteq T
  PROVE  Seq(S) \subseteq Seq(T)
BY SeqMonotonic

LEMMA SeqRange ==
  ASSUME NEW S, NEW s \in Seq(S)
  PROVE  Len(s) \in Nat /\ DOMAIN s = 1..Len(s) /\ \A i \in 1..Len(s) : s[i] \in S
BY LenProperties, ElementOfSeq

(* Front and Last, which take a list apart.                                *)
LEMMA FrontOf ==
  ASSUME NEW S, NEW s \in Seq(S), s # <<>>
  PROVE  /\ Front(s) \in Seq(S) /\ Len(Front(s)) = Len(s) - 1
         /\ Len(s) >= 1
         /\ \A i \in 1..(Len(s) - 1) : Front(s)[i] = s[i]
<1>1. Len(s) \in Nat /\ Len(s) >= 1
  BY EmptySeq
<1>2. \A i \in 1..(Len(s) - 1) : i \in 1..Len(s)
  BY <1>1
<1>3. \A i \in 1..(Len(s) - 1) : s[i] \in S
  BY <1>2, SeqRange
<1> DEFINE n == Len(s) - 1
           f == SubSeq(s, 1, n)
<1>4. n \in Nat /\ n = Len(s) - 1
  BY <1>1
<1>5. f \in Seq(S) /\ Len(f) = (IF 1 <= n THEN n - 1 + 1 ELSE 0)
      /\ \A i \in 1..(n - 1 + 1) : f[i] = s[1 + i - 1]
  BY <1>3, <1>4, SubSeqProperties
<1>6. Front(s) = f
  BY DEF Front
<1> HIDE DEF n, f
<1>7. Len(f) = n /\ \A i \in 1..n : f[i] = s[i]
  BY <1>4, <1>5
<1>8. QED
  BY <1>1, <1>4, <1>5, <1>6, <1>7

LEMMA ConcatOf ==
  ASSUME NEW S, NEW s \in Seq(S), NEW t \in Seq(S)
  PROVE  /\ s \o t \in Seq(S) /\ Len(s \o t) = Len(s) + Len(t)
         /\ \A i \in 1..Len(s) : (s \o t)[i] = s[i]
         /\ \A i \in 1..Len(t) : (s \o t)[Len(s) + i] = t[i]
<1>1. Len(s) \in Nat /\ Len(t) \in Nat
  BY SeqRange
<1>2. \A i \in 1..Len(s) : i \in 1..(Len(s) + Len(t)) /\ i <= Len(s)
  BY <1>1
<1>3. \A i \in 1..Len(t) :
        /\ Len(s) + i \in 1..(Len(s) + Len(t))
        /\ ~(Len(s) + i <= Len(s)) /\ Len(s) + i - Len(s) = i
  BY <1>1
<1>4. QED
  BY <1>2, <1>3, ConcatProperties

LEMMA FrontConcat ==
  ASSUME NEW S, NEW s \in Seq(S), NEW t \in Seq(S), t # <<>>
  PROVE  s \o t # <<>> /\ Front(s \o t) = s \o Front(t)
<1> DEFINE c == s \o t
           u == Front(t)
           m == Len(s)
           n == Len(t) - 1
<1>1. m \in Nat /\ n \in Nat /\ Len(t) = n + 1
  BY EmptySeq, SeqRange
<1>2. c \in Seq(S) /\ Len(c) = m + Len(t)
      /\ (\A i \in 1..m : c[i] = s[i]) /\ (\A i \in 1..Len(t) : c[m + i] = t[i])
  BY ConcatOf
<1>3. u \in Seq(S) /\ Len(u) = n /\ \A i \in 1..n : u[i] = t[i]
  BY FrontOf
<1> HIDE DEF c, u, n
<1>4. s \o u \in Seq(S) /\ Len(s \o u) = m + n
      /\ (\A i \in 1..m : (s \o u)[i] = s[i]) /\ (\A i \in 1..n : (s \o u)[m + i] = u[i])
  BY <1>3, ConcatOf
<1> HIDE DEF m
<1>5. c # <<>> /\ Len(c) = (m + n) + 1 /\ Len(c) - 1 = m + n
  BY <1>1, <1>2, EmptySeq
<1>6. Front(c) \in Seq(S) /\ Len(Front(c)) = m + n
      /\ \A i \in 1..(m + n) : Front(c)[i] = c[i]
  BY <1>2, <1>5, FrontOf
<1>7. ASSUME NEW i \in 1..(m + n)
      PROVE  c[i] = (s \o u)[i]
  <2>1. CASE i \in 1..m
    BY <1>2, <1>4, <2>1
  <2>2. CASE ~(i \in 1..m)
    <3>1. i - m \in 1..n /\ i - m \in 1..Len(t) /\ i = m + (i - m)
      BY <1>1, <2>2
    <3>2. c[i] = t[i - m]
      BY <1>2, <3>1
    <3>3. (s \o u)[i] = u[i - m]
      BY <1>4, <3>1
    <3>4. QED
      BY <1>3, <3>1, <3>2, <3>3
  <2>3. QED
    BY <2>1, <2>2
<1>8. Front(c) = s \o u
  BY <1>4, <1>6, <1>7, SeqEqual
<1>9. QED
  BY <1>5, <1>8 DEF c, u

(* What is in the second of two lists is what comes after the first.       *)
LEMMA SecondPart ==
  ASSUME NEW S, NEW s \in Seq(S), NEW t \in Seq(S), NEW D,
         \A j \in 1..Len(t) : t[j] \notin D,
         NEW i \in 1..Len(s \o t), i > Len(s)
  PROVE  (s \o t)[i] \notin D
<1>1. Len(s) \in Nat /\ Len(t) \in Nat /\ i \in 1..(Len(s) + Len(t))
  BY ConcatOf, SeqRange
<1>2. i - Len(s) \in 1..Len(t) /\ i = Len(s) + (i - Len(s))
  BY <1>1
<1>3. (s \o t)[i] = t[i - Len(s)]
  BY <1>2, ConcatOf
<1>4. QED
  BY <1>2, <1>3

-----------------------------------------------------------------------------
(* filepath.Clean                                                          *)

(* One element more keeps the list over S, and without dots below a root.  *)
LEMMA FoldedType ==
  ASSUME NEW S, NEW abs \in BOOLEAN, NEW done \in Seq(S), NEW s \in S
  PROVE  /\ Folded(abs, done, s) \in Seq(S)
         /\ abs /\ Plain(done) => Plain(Folded(abs, done, s))
<1>1. CASE s = "."
  BY <1>1 DEF Folded
<1>2. CASE s = ".." /\ done # <<>> /\ Last(done) # ".."
  <2>1. Folded(abs, done, s) = Front(done)
    BY <1>2 DEF Folded
  <2>2. Front(done) \in Seq(S) /\ (Plain(done) => Plain(Front(done)))
    <3>1. Len(done) \in Nat
      BY SeqRange
    <3>2. QED
      BY <1>2, <3>1, FrontOf DEF Plain
  <2>3. QED
    BY <2>1, <2>2
<1>3. CASE s = ".." /\ done = <<>> /\ abs
  BY <1>3 DEF Folded
<1>4. CASE ~(s = ".") /\ ~(s = ".." /\ done # <<>> /\ Last(done) # "..")
           /\ ~(s = ".." /\ done = <<>> /\ abs)
  <2>1. Folded(abs, done, s) = Append(done, s)
    BY <1>4 DEF Folded
  <2>2. /\ Append(done, s) \in Seq(S) /\ Len(Append(done, s)) = Len(done) + 1
        /\ \A i \in 1..Len(done) : Append(done, s)[i] = done[i]
        /\ Append(done, s)[Len(done) + 1] = s
    BY AppendProperties
  <2>3. Len(done) \in Nat /\ (done # <<>> => Len(done) >= 1)
    BY EmptySeq, SeqRange
  <2>4. ASSUME abs, Plain(done)
        PROVE  s # ".."
    <3>1. SUFFICES ASSUME s = ".."
                   PROVE  FALSE
      OBVIOUS
    <3>2. done # <<>> /\ Last(done) = ".."
      BY <1>4, <2>4, <3>1
    <3>3. done[Len(done)] = ".." /\ Len(done) \in 1..Len(done)
      BY <2>3, <3>2 DEF Last
    <3>4. QED
      BY <2>4, <3>3 DEF Plain
  <2>5. ASSUME abs, Plain(done)
        PROVE  Plain(Append(done, s))
    <3>1. \A i \in 1..(Len(done) + 1) : i \in 1..Len(done) \/ i = Len(done) + 1
      BY <2>3
    <3>2. QED
      BY <1>4, <2>2, <2>4, <2>5, <3>1 DEF Plain
  <2>6. QED
    BY <2>1, <2>2, <2>5
<1>5. QED
  BY <1>1, <1>2, <1>3, <1>4

(* The recursion of Simplified has a solution over every list ...          *)
Solves(abs, s, n, h) ==
  h = [i \in 0..n |-> IF i = 0 THEN <<>> ELSE Folded(abs, h[i - 1], s[i])]

LEMMA FoldExists ==
  ASSUME NEW abs, NEW s, NEW n \in Nat
  PROVE  \E h : Solves(abs, s, n, h)
<1> DEFINE T == {m \in 0..n : \E h : Solves(abs, s, m, h)}
<1>1. 0 \in T
  <2> DEFINE h == [i \in 0..0 |-> <<>>]
  <2>1. h = [i \in 0..0 |-> IF i = 0 THEN <<>> ELSE Folded(abs, h[i - 1], s[i])]
    OBVIOUS
  <2>2. 0 \in 0..n
    OBVIOUS
  <2>3. Solves(abs, s, 0, h)
    BY <2>1 DEF Solves
  <2> HIDE DEF h
  <2>4. QED
    BY <2>2, <2>3
<1>2. ASSUME NEW m \in 1..n, m - 1 \in T
      PROVE  m \in T
  <2>1. PICK g : Solves(abs, s, m - 1, g)
    BY <1>2
  <2> DEFINE h == [i \in 0..m |-> IF i = m THEN Folded(abs, g[m - 1], s[m]) ELSE g[i]]
  <2>2. \A i \in 0..m : i # m => i \in 0..(m - 1) /\ h[i] = g[i]
    OBVIOUS
  <2>3. \A i \in 0..(m - 1) :
          g[i] = IF i = 0 THEN <<>> ELSE Folded(abs, g[i - 1], s[i])
    BY <2>1 DEF Solves
  <2>4. \A i \in 0..m : i # 0 => i - 1 \in 0..m /\ i - 1 # m
    OBVIOUS
  <2>5. h[m] = Folded(abs, g[m - 1], s[m]) /\ m # 0
    OBVIOUS
  <2> HIDE DEF h
  <2>6. \A i \in 0..m : i # 0 => h[i - 1] = g[i - 1]
    BY <2>2, <2>4
  <2>7. \A i \in 0..m : h[i] = IF i = 0 THEN <<>> ELSE Folded(abs, h[i - 1], s[i])
    <3> SUFFICES ASSUME NEW i \in 0..m
                 PROVE  h[i] = IF i = 0 THEN <<>> ELSE Folded(abs, h[i - 1], s[i])
      OBVIOUS
    <3>1. CASE i = m
      <4>1. m \in 0..m
        OBVIOUS
      <4>2. QED
        BY <2>5, <2>6, <3>1, <4>1
    <3>2. CASE i # m
      BY <2>2, <2>3, <2>6, <3>2
    <3>3. QED
      BY <3>1, <3>2
  <2>8. h = [i \in 0..m |-> h[i]]
    BY DEF h
  <2>9. Solves(abs, s, m, h)
    BY <2>7, <2>8 DEF Solves
  <2>10. m \in 0..n
    OBVIOUS
  <2>11. QED
    BY <2>9, <2>10
<1>3. T \subseteq 0..n /\ n \in 0..n
  OBVIOUS
<1> HIDE DEF T
<1>4. n \in T
  BY <1>1, <1>2, <1>3, Inherited
<1>5. QED
  BY <1>4 DEF T

(* ... so what Simplified returns is its value at the end.                 *)
LEMMA Unfolded ==
  ASSUME NEW p, Len(p.segs) \in Nat,
         \E i \in DOMAIN p.segs : p.segs[i] \in {".", ".."}
  PROVE  \E h : /\ Solves(p.abs, p.segs, Len(p.segs), h)
                /\ Simplified(p) = h[Len(p.segs)]
<1> DEFINE F == CHOOSE h : Solves(p.abs, p.segs, Len(p.segs), h)
<1>1. \E h : Solves(p.abs, p.segs, Len(p.segs), h)
  BY FoldExists
<1>2. Solves(p.abs, p.segs, Len(p.segs), F)
  BY <1>1
<1>3. Simplified(p) = F[Len(p.segs)]
  BY DEF Simplified, Solves
<1>4. QED
  BY <1>2, <1>3

LEMMA SimplifiedType ==
  ASSUME NEW S, NEW p \in PathOf(S)
  PROVE  Simplified(p) \in Seq(S) /\ (p.abs => Plain(Simplified(p)))
<1>0. p.segs \in Seq(S) /\ p.abs \in BOOLEAN
  BY DEF PathOf
<1>1. Len(p.segs) \in Nat /\ DOMAIN p.segs = 1..Len(p.segs)
      /\ \A i \in 1..Len(p.segs) : p.segs[i] \in S
  BY <1>0, SeqRange
<1>2. CASE ~\E i \in DOMAIN p.segs : p.segs[i] \in {".", ".."}
  <2>1. Simplified(p) = p.segs
    BY <1>2 DEF Simplified
  <2>2. QED
    BY <1>0, <1>1, <1>2, <2>1 DEF Plain
<1>3. CASE \E i \in DOMAIN p.segs : p.segs[i] \in {".", ".."}
  <2>1. PICK h : /\ Solves(p.abs, p.segs, Len(p.segs), h)
                 /\ Simplified(p) = h[Len(p.segs)]
    BY <1>1, <1>3, Unfolded
  <2>2. \A i \in 0..Len(p.segs) :
          h[i] = IF i = 0 THEN <<>> ELSE Folded(p.abs, h[i - 1], p.segs[i])
    BY <2>1 DEF Solves
  <2> DEFINE T == {i \in 0..Len(p.segs) :
                     h[i] \in Seq(S) /\ (p.abs => Plain(h[i]))}
  <2>3. 0 \in T
    <3>1. 0 \in 0..Len(p.segs) /\ h[0] = <<>>
      BY <1>1, <2>2
    <3>2. <<>> \in Seq(S) /\ Plain(<<>>)
      BY EmptySeq DEF Plain
    <3>3. QED
      BY <3>1, <3>2
  <2>4. ASSUME NEW i \in 1..Len(p.segs), i - 1 \in T
        PROVE  i \in T
    <3>1. i \in 0..Len(p.segs) /\ h[i] = Folded(p.abs, h[i - 1], p.segs[i])
      BY <1>1, <2>2
    <3>2. h[i - 1] \in Seq(S) /\ p.segs[i] \in S /\ (p.abs => Plain(h[i - 1]))
      BY <1>1, <2>4
    <3>3. Folded(p.abs, h[i - 1], p.segs[i]) \in Seq(S)
          /\ (p.abs => Plain(Folded(p.abs, h[i - 1], p.segs[i])))
      BY <1>0, <3>2, FoldedType
    <3>4. QED
      BY <3>1, <3>3
  <2>5. T \subseteq 0..Len(p.segs) /\ Len(p.segs) \in 0..Len(p.segs)
    BY <1>1
  <2> HIDE DEF T
  <2>6. Len(p.segs) \in T
    BY <1>1, <2>3, <2>4, <2>5, Inherited
  <2>7. QED
    BY <2>1, <2>6 DEF T
<1>4. QED
  BY <1>2, <1>3

(* A path cleaned is a path, as absolute as before, and settled if it is.  *)
LEMMA CleanAbs ==
  ASSUME NEW S, NEW p \in PathOf(S), p.abs
  PROVE  Clean(p) \in PathOf(S) /\ Settled(Clean(p))
<1>1. Clean(p) = [abs |-> p.abs, segs |-> Simplified(p)]
  BY DEF Clean, Named
<1>2. Simplified(p) \in Seq(S) /\ Plain(Simplified(p))
  BY SimplifiedType
<1>3. p.abs \in BOOLEAN
  BY DEF PathOf
<1>4. QED
  BY <1>1, <1>2, <1>3 DEF PathOf, Settled

LEMMA DotType == Dot \in Path /\ Dot.abs = FALSE
<1>1. <<".">> \in Seq(STRING)
  <2>1. "." \in STRING
    BY PathAssumption
  <2>2. QED
    BY <2>1
<1>2. QED
  BY <1>1 DEF Dot, Relv, Path

LEMMA CleanType ==
  ASSUME NEW p \in Path
  PROVE  Clean(p) \in Path /\ Clean(p).abs = p.abs
<1>1. p \in PathOf(STRING) /\ p.abs \in BOOLEAN
  BY DEF PathOf, Path
<1>2. Simplified(p) \in Seq(STRING)
  BY <1>1, SimplifiedType
<1>3. CASE ~p.abs /\ Simplified(p) = <<>>
  <2>1. Clean(p) = Dot
    BY <1>3 DEF Clean, Named
  <2>2. Dot \in Path /\ Dot.abs = FALSE
    BY DotType
  <2>3. QED
    BY <1>1, <1>3, <2>1, <2>2
<1>4. CASE ~(~p.abs /\ Simplified(p) = <<>>)
  <2>1. Clean(p) = [abs |-> p.abs, segs |-> Simplified(p)]
    BY <1>4 DEF Clean, Named
  <2>2. QED
    BY <1>1, <1>2, <2>1 DEF Path
<1>5. QED
  BY <1>3, <1>4

LEMMA CleanSettled ==
  ASSUME NEW S, NEW p \in PathOf(S), Settled(p)
  PROVE  Clean(p) = p
<1>1. p.segs \in Seq(S) /\ p = [abs |-> p.abs, segs |-> p.segs] /\ p.abs
  BY DEF PathOf, Settled
<1>2. DOMAIN p.segs = 1..Len(p.segs)
  BY <1>1, SeqRange
<1>3. Simplified(p) = p.segs
  BY <1>2 DEF Simplified, Settled, Plain
<1>4. QED
  BY <1>1, <1>3 DEF Clean, Named

-----------------------------------------------------------------------------
(* filepath.Join and filepath.Dir                                          *)

LEMMA Appended ==
  ASSUME NEW S, NEW a \in PathOf(S), NEW b \in PathOf(S)
  PROVE  /\ [a EXCEPT !.segs = @ \o b.segs] \in PathOf(S)
         /\ [a EXCEPT !.segs = @ \o b.segs] = [abs |-> a.abs, segs |-> a.segs \o b.segs]
<1>1. a.segs \o b.segs \in Seq(S)
  BY ConcatOf DEF PathOf
<1>2. a \in [abs : BOOLEAN, segs : Seq(S)]
  BY DEF PathOf
<1> DEFINE c == a.segs \o b.segs
<1>3. c \in Seq(S)
  BY <1>1
<1> HIDE DEF c
<1>4. /\ [a EXCEPT !.segs = c] \in [abs : BOOLEAN, segs : Seq(S)]
      /\ [a EXCEPT !.segs = c] = [abs |-> a.abs, segs |-> c]
  BY <1>2, <1>3
<1>5. QED
  BY <1>4 DEF PathOf, c

LEMMA JoinType ==
  ASSUME NEW a \in Path, NEW b \in Path
  PROVE  Join(a, b) \in Path
<1>1. a \in PathOf(STRING) /\ b \in PathOf(STRING)
  BY DEF Path, PathOf
<1> DEFINE c == [a EXCEPT !.segs = @ \o b.segs]
<1>2. c \in Path
  BY <1>1, Appended DEF Path, PathOf
<1> HIDE DEF c
<1>3. Empty \in Path
  BY EmptySeq DEF Empty, Relv, Path
<1>4. Clean(c) \in Path /\ Clean(b) \in Path
  BY <1>2, CleanType
<1>5. Join(a, b) \in {Empty, Clean(b), Clean(c)}
  BY DEF Join, c
<1>6. QED
  BY <1>3, <1>4, <1>5

(* What is joined to an absolute path is absolute and settled; nothing but *)
(* the two paths' elements is in it.                                       *)
LEMMA JoinAbs ==
  ASSUME NEW S, NEW a \in PathOf(S), NEW b \in PathOf(S), a.abs
  PROVE  Join(a, b) \in PathOf(S) /\ Settled(Join(a, b))
<1> DEFINE c == [a EXCEPT !.segs = @ \o b.segs]
<1>1. c \in PathOf(S) /\ c = [abs |-> a.abs, segs |-> a.segs \o b.segs]
  BY Appended
<1>2. a # Empty
  BY DEF Empty, Relv
<1>3. Join(a, b) = Clean(c)
  BY <1>2 DEF Join
<1> HIDE DEF c
<1>4. c.abs
  BY <1>1
<1>5. QED
  BY <1>1, <1>3, <1>4, CleanAbs

(* Of settled elements it is the concatenation.                            *)
LEMMA JoinSettled ==
  ASSUME NEW S, NEW a \in PathOf(S), NEW b \in PathOf(S), Settled(a), Plain(b.segs)
  PROVE  Join(a, b) = [abs |-> TRUE, segs |-> a.segs \o b.segs]
<1> DEFINE c == [a EXCEPT !.segs = @ \o b.segs]
<1>1. c \in PathOf(S) /\ c = [abs |-> a.abs, segs |-> a.segs \o b.segs]
  BY Appended
<1>2. a # Empty /\ a.abs = TRUE
  BY DEF Empty, Relv, Settled, PathOf
<1>3. Join(a, b) = Clean(c)
  BY <1>2 DEF Join
<1> HIDE DEF c
<1>4. Plain(a.segs \o b.segs)
  <2>1. /\ Len(a.segs \o b.segs) = Len(a.segs) + Len(b.segs)
        /\ \A i \in 1..Len(a.segs) : (a.segs \o b.segs)[i] = a.segs[i]
        /\ \A i \in 1..Len(b.segs) : (a.segs \o b.segs)[Len(a.segs) + i] = b.segs[i]
        /\ Len(a.segs) \in Nat /\ Len(b.segs) \in Nat
    BY ConcatOf, SeqRange DEF PathOf
  <2>2. \A m, n \in Nat : \A i \in 1..(m + n) :
          i \in 1..m \/ (i - m \in 1..n /\ i = m + (i - m))
    OBVIOUS
  <2>3. SUFFICES ASSUME NEW i \in 1..(Len(a.segs) + Len(b.segs))
                 PROVE  (a.segs \o b.segs)[i] \notin {".", ".."}
    BY <2>1 DEF Plain
  <2>4. CASE i \in 1..Len(a.segs)
    BY <2>1, <2>4 DEF Plain, Settled
  <2>5. CASE i - Len(a.segs) \in 1..Len(b.segs) /\ i = Len(a.segs) + (i - Len(a.segs))
    <3>1. (a.segs \o b.segs)[i] = b.segs[i - Len(a.segs)]
      BY <2>1, <2>5
    <3>2. QED
      BY <2>5, <3>1 DEF Plain
  <2>6. QED
    BY <2>1, <2>2, <2>4, <2>5
<1>5. Settled(c)
  BY <1>1, <1>2, <1>4 DEF Settled
<1>6. QED
  BY <1>1, <1>2, <1>3, <1>5, CleanSettled

(* What has no dots is put at the end as it is.                            *)
LEMMA SimplifiedAppend ==
  ASSUME NEW S, NEW a \in PathOf(S), NEW b \in Seq(S), Plain(b)
  PROVE  Simplified([abs |-> a.abs, segs |-> a.segs \o b]) = Simplified(a) \o b
<1> DEFINE s == a.segs
           y == a.abs
           c == [abs |-> y, segs |-> s \o b]
           l == Len(s)
           n == Len(b)
<1>1. /\ s \in Seq(S) /\ l \in Nat /\ n \in Nat
      /\ s \o b \in Seq(S) /\ Len(s \o b) = l + n
      /\ \A i \in 1..l : (s \o b)[i] = s[i]
      /\ \A i \in 1..n : (s \o b)[l + i] = b[i]
      /\ DOMAIN s = 1..l /\ DOMAIN (s \o b) = 1..(l + n)
  BY ConcatOf, SeqRange DEF PathOf
<1>2. c.segs = s \o b /\ c.abs = y
  OBVIOUS
<1> HIDE DEF y
<1>3. CASE ~\E i \in 1..l : s[i] \in {".", ".."}
  <2>1. \A i \in 1..(l + n) : i \in 1..l \/ (i - l \in 1..n /\ i = l + (i - l))
    BY <1>1
  <2>2. ASSUME NEW i \in 1..(l + n)
        PROVE  (s \o b)[i] \notin {".", ".."}
    <3>1. CASE i \in 1..l
      BY <1>1, <1>3, <3>1
    <3>2. CASE i - l \in 1..n /\ i = l + (i - l)
      <4>1. (s \o b)[i] = b[i - l]
        BY <1>1, <3>2
      <4>2. QED
        BY <3>2, <4>1 DEF Plain
    <3>3. QED
      BY <2>1, <3>1, <3>2
  <2>3. Simplified(c) = s \o b
    BY <1>1, <1>2, <2>2 DEF Simplified
  <2>4. Simplified(a) = s
    BY <1>1, <1>3 DEF Simplified
  <2>5. QED
    BY <2>3, <2>4 DEF y
<1>4. CASE \E i \in 1..l : s[i] \in {".", ".."}
  <2> DEFINE u == Simplified(a)
             m == Len(u)
  <2>1. u \in Seq(S) /\ m \in Nat
    BY SimplifiedType, SeqRange
  <2>2. PICK g : Solves(y, s, l, g) /\ u = g[l]
    BY <1>1, <1>4, Unfolded DEF y
  <2>3. \E i \in 1..(l + n) : (s \o b)[i] \in {".", ".."}
    <3>1. PICK i \in 1..l : s[i] \in {".", ".."}
      BY <1>4
    <3>2. i \in 1..(l + n)
      BY <1>1
    <3>3. QED
      BY <1>1, <3>1, <3>2
  <2>4. PICK h : Solves(y, s \o b, l + n, h) /\ Simplified(c) = h[l + n]
    <3> HIDE DEF c
    <3>0. c.segs = s \o b /\ Len(c.segs) \in Nat /\ DOMAIN c.segs = 1..(l + n)
      BY <1>1, <1>2
    <3>1. \E i \in DOMAIN c.segs : c.segs[i] \in {".", ".."}
      BY <2>3, <3>0
    <3>2. \E h : Solves(c.abs, c.segs, Len(c.segs), h) /\ Simplified(c) = h[Len(c.segs)]
      BY <3>0, <3>1, Unfolded
    <3>3. QED
      BY <1>1, <1>2, <3>2
  <2> HIDE DEF u, c
  <2>5. \A i \in 0..l : g[i] = IF i = 0 THEN <<>> ELSE Folded(y, g[i - 1], s[i])
    BY <2>2 DEF Solves
  <2>6. \A i \in 0..(l + n) :
          h[i] = IF i = 0 THEN <<>> ELSE Folded(y, h[i - 1], (s \o b)[i])
    BY <2>4 DEF Solves
  <2>7. h[l] = u
    <3> DEFINE T == {i \in 0..l : h[i] = g[i]}
    <3>1. 0 \in T
      <4>1. 0 \in 0..l /\ 0 \in 0..(l + n)
        BY <1>1
      <4>2. QED
        BY <2>5, <2>6, <4>1
    <3>2. ASSUME NEW i \in 1..l, i - 1 \in T
          PROVE  i \in T
      <4>1. i \in 0..l /\ i \in 0..(l + n) /\ i # 0 /\ h[i - 1] = g[i - 1]
        BY <1>1, <3>2
      <4>2. g[i] = Folded(y, g[i - 1], s[i]) /\ h[i] = Folded(y, h[i - 1], (s \o b)[i])
        BY <2>5, <2>6, <4>1
      <4>3. (s \o b)[i] = s[i]
        BY <1>1
      <4>4. QED
        BY <4>1, <4>2, <4>3
    <3>3. T \subseteq 0..l /\ l \in 0..l
      BY <1>1
    <3> HIDE DEF T
    <3>4. l \in T
      BY <1>1, <3>1, <3>2, <3>3, Inherited
    <3>5. QED
      BY <2>2, <3>4 DEF T
  <2> DEFINE R(t, j) == /\ t \in Seq(S) /\ Len(t) = m + j
                        /\ \A k \in 1..m : t[k] = u[k]
                        /\ \A k \in 1..j : t[m + k] = b[k]
             T == {j \in 0..n : R(h[l + j], j)}
  <2>8. 0 \in T
    <3>1. h[l + 0] = u /\ 0 \in 0..n /\ m + 0 = m
      BY <1>1, <2>1, <2>7
    <3>2. R(u, 0)
      BY <2>1
    <3> HIDE DEF R
    <3>3. QED
      BY <3>1, <3>2
  <2>9. ASSUME NEW j \in 1..n, j - 1 \in T
        PROVE  j \in T
    <3> DEFINE t == h[l + (j - 1)]
               x == b[j]
    <3>1. R(t, j - 1)
      BY <2>9
    <3>2. l + j \in 0..(l + n) /\ l + j # 0 /\ (l + j) - 1 = l + (j - 1)
          /\ j \in 0..n /\ (m + (j - 1)) + 1 = m + j /\ m + (j - 1) \in Nat
      BY <1>1, <2>1
    <3>3. x \in S /\ x \notin {".", ".."} /\ (s \o b)[l + j] = x
      BY <1>1, SeqRange DEF Plain
    <3>4. h[l + j] = Folded(y, t, x)
      BY <2>6, <3>2, <3>3
    <3> HIDE DEF t, x
    <3>5. Folded(y, t, x) = Append(t, x)
      BY <3>3 DEF Folded
    <3>6. /\ Append(t, x) \in Seq(S) /\ Len(Append(t, x)) = m + j
          /\ \A k \in 1..(m + (j - 1)) : Append(t, x)[k] = t[k]
          /\ Append(t, x)[m + j] = x
      <4>1. t \in Seq(S) /\ Len(t) = m + (j - 1)
        BY <3>1
      <4>2. /\ Append(t, x) \in Seq(S) /\ Len(Append(t, x)) = Len(t) + 1
            /\ \A k \in 1..Len(t) : Append(t, x)[k] = t[k]
            /\ Append(t, x)[Len(t) + 1] = x
        BY <3>3, <4>1, AppendProperties
      <4>3. Len(t) + 1 = m + j
        BY <3>2, <4>1
      <4>4. QED
        BY <4>1, <4>2, <4>3
    <3>7. \A k \in 1..m : k \in 1..(m + (j - 1))
      BY <2>1
    <3>8. \A k \in 1..j : k = j \/ (k \in 1..(j - 1) /\ m + k \in 1..(m + (j - 1)))
      BY <2>1
    <3>9. \A k \in 1..j : Append(t, x)[m + k] = b[k]
      <4>1. SUFFICES ASSUME NEW k \in 1..j
                     PROVE  Append(t, x)[m + k] = b[k]
        OBVIOUS
      <4>2. CASE k = j
        BY <3>6, <4>2 DEF x
      <4>3. CASE k \in 1..(j - 1) /\ m + k \in 1..(m + (j - 1))
        BY <3>1, <3>6, <4>3
      <4>4. QED
        BY <3>8, <4>2, <4>3
    <3>10. R(Append(t, x), j)
      BY <3>1, <3>6, <3>7, <3>9
    <3> HIDE DEF R
    <3>11. QED
      BY <3>2, <3>4, <3>5, <3>10
  <2>10. T \subseteq 0..n /\ n \in 0..n
    BY <1>1
  <2> HIDE DEF T
  <2>11. n \in T
    BY <1>1, <2>8, <2>9, <2>10, Inherited
  <2>12. R(h[l + n], n)
    BY <2>11 DEF T
  <2> DEFINE t == h[l + n]
  <2>13. R(t, n)
    BY <2>12
  <2> HIDE DEF t
  <2>14. /\ u \o b \in Seq(S) /\ Len(u \o b) = m + n
         /\ \A i \in 1..m : (u \o b)[i] = u[i]
         /\ \A i \in 1..n : (u \o b)[m + i] = b[i]
    BY <2>1, ConcatOf
  <2>15. \A i \in 1..(m + n) : i \in 1..m \/ (i - m \in 1..n /\ i = m + (i - m))
    BY <1>1, <2>1
  <2>16. ASSUME NEW i \in 1..(m + n)
         PROVE  t[i] = (u \o b)[i]
    <3>1. CASE i \in 1..m
      BY <2>13, <2>14, <3>1
    <3>2. CASE i - m \in 1..n /\ i = m + (i - m)
      <4>1. t[m + (i - m)] = b[i - m] /\ (u \o b)[m + (i - m)] = b[i - m]
        BY <2>13, <2>14, <3>2
      <4>2. QED
        BY <3>2, <4>1
    <3>3. QED
      BY <2>15, <3>1, <3>2
  <2>17. t = u \o b
    BY <2>13, <2>14, <2>16, SeqEqual
  <2>18. QED
    BY <2>4, <2>17 DEF t, u, c, y
<1>5. QED
  BY <1>3, <1>4 DEF y

LEMMA SimplifiedConcat ==
  ASSUME NEW S, NEW a \in PathOf(S), a.abs, NEW b \in Seq(S), Plain(b)
  PROVE  Simplified([abs |-> TRUE, segs |-> a.segs \o b]) = Simplified(a) \o b
<1>1. a.abs = TRUE
  BY DEF PathOf
<1>2. [abs |-> TRUE, segs |-> a.segs \o b] = [abs |-> a.abs, segs |-> a.segs \o b]
  BY <1>1
<1>3. QED
  BY <1>2, SimplifiedAppend

(* Below an absolute path, and so below what it is clean.                  *)
LEMMA JoinPlain ==
  ASSUME NEW S, NEW a \in PathOf(S), a.abs, NEW b \in PathOf(S), Plain(b.segs)
  PROVE  /\ Join(a, b) = [abs |-> TRUE, segs |-> Clean(a).segs \o b.segs]
         /\ Join(a, b) = Join(Clean(a), b)
<1> DEFINE c == [a EXCEPT !.segs = @ \o b.segs]
<1>0. c \in PathOf(S) /\ c = [abs |-> a.abs, segs |-> a.segs \o b.segs]
  BY Appended
<1> HIDE DEF c
<1>1. c = [abs |-> TRUE, segs |-> a.segs \o b.segs] /\ a.abs = TRUE /\ b.segs \in Seq(S)
  BY <1>0 DEF PathOf
<1>2. Join(a, b) = Clean(c)
  BY <1>1 DEF Join, Empty, Relv, c
<1>3. Clean(c) = [abs |-> TRUE, segs |-> Simplified(c)]
  BY <1>1 DEF Clean, Named
<1>4. Simplified(c) = Simplified(a) \o b.segs
  BY <1>1, SimplifiedConcat
<1>5. Clean(a).segs = Simplified(a)
  BY <1>1 DEF Clean, Named
<1>6. Clean(a) \in PathOf(S) /\ Settled(Clean(a))
  BY CleanAbs
<1>7. Join(Clean(a), b) = [abs |-> TRUE, segs |-> Clean(a).segs \o b.segs]
  BY <1>6, JoinSettled
<1>8. QED
  BY <1>2, <1>3, <1>4, <1>5, <1>7

LEMMA DirType ==
  ASSUME NEW p \in Path
  PROVE  Dir(p) \in Path
<1>1. CASE p.segs = <<>>
  BY <1>1, CleanType DEF Dir
<1>2. CASE p.segs # <<>>
  <2>1. Front(p.segs) \in Seq(STRING)
    BY <1>2, FrontOf DEF Path
  <2>2. [p EXCEPT !.segs = Front(@)] \in Path
    BY <2>1 DEF Path
  <2>3. QED
    BY <1>2, <2>2, CleanType DEF Dir
<1>3. QED
  BY <1>1, <1>2

LEMMA DirSettled ==
  ASSUME NEW S, NEW p \in PathOf(S), Settled(p)
  PROVE  /\ Dir(p) \in PathOf(S) /\ Settled(Dir(p))
         /\ p.segs = <<>> => Dir(p) = p
         /\ p.segs # <<>> => Dir(p).segs = Front(p.segs)
<1>1. CASE p.segs = <<>>
  BY <1>1, CleanSettled DEF Dir
<1>2. CASE p.segs # <<>>
  <2>1. /\ Front(p.segs) \in Seq(S) /\ Len(Front(p.segs)) = Len(p.segs) - 1
        /\ \A i \in 1..(Len(p.segs) - 1) : Front(p.segs)[i] = p.segs[i]
        /\ Len(p.segs) \in Nat
    BY <1>2, FrontOf, SeqRange DEF PathOf
  <2> DEFINE q == [p EXCEPT !.segs = Front(@)]
  <2>2. q \in PathOf(S) /\ q.abs = p.abs /\ q.segs = Front(p.segs)
    BY <2>1 DEF PathOf
  <2>3. Dir(p) = Clean(q)
    BY <1>2 DEF Dir
  <2> HIDE DEF q
  <2>4. Settled(q)
    BY <2>1, <2>2 DEF Settled, Plain
  <2>5. QED
    BY <1>2, <2>2, <2>3, <2>4, CleanSettled
<1>3. QED
  BY <1>1, <1>2

-----------------------------------------------------------------------------
(* Under                                                                   *)

LEMMA UnderReflexive == ASSUME NEW S, NEW d \in Seq(S) PROVE Under(d, d)
<1>1. Len(d) \in Nat
  BY SeqRange
<1>2. QED
  BY <1>1 DEF Under

LEMMA UnderTransitive ==
  ASSUME NEW S, NEW d \in Seq(S), NEW t \in Seq(S), NEW u \in Seq(S),
         Under(d, t), Under(t, u)
  PROVE  Under(d, u)
<1>1. Len(d) \in Nat /\ Len(t) \in Nat /\ Len(u) \in Nat
  BY SeqRange
<1>2. \A i \in 1..Len(d) : i \in 1..Len(t)
  BY <1>1 DEF Under
<1>3. QED
  BY <1>1, <1>2 DEF Under

LEMMA UnderConcat ==
  ASSUME NEW S, NEW d \in Seq(S), NEW t \in Seq(S)
  PROVE  Under(d, d \o t)
<1>1. Len(d) \in Nat /\ Len(t) \in Nat
  BY SeqRange
<1>2. QED
  BY <1>1, ConcatOf DEF Under

(* Of two lists that begin the same third one, one begins the other.       *)
LEMMA UnderTotal ==
  ASSUME NEW S, NEW d \in Seq(S), NEW q \in Seq(S), NEW t,
         Under(d, t), Under(q, t)
  PROVE  Under(d, q) \/ Under(q, d)
<1>1. Len(d) \in Nat /\ Len(q) \in Nat
  BY SeqRange
<1>2. CASE Len(d) <= Len(q)
  <2>1. \A i \in 1..Len(d) : i \in 1..Len(q)
    BY <1>1, <1>2
  <2>2. QED
    BY <1>2, <2>1 DEF Under
<1>3. CASE Len(q) <= Len(d)
  <2>1. \A i \in 1..Len(q) : i \in 1..Len(d)
    BY <1>1, <1>3
  <2>2. QED
    BY <1>3, <2>1 DEF Under
<1>4. QED
  BY <1>1, <1>2, <1>3

LEMMA PrefixUnder ==
  ASSUME NEW S, NEW t \in Seq(S), NEW q \in Prefixes(t)
  PROVE  q \in Seq(S) /\ Under(q, t)
<1>1. PICK n \in 0..Len(t) : q = SubSeq(t, 1, n)
  BY DEF Prefixes
<1>2. Len(t) \in Nat /\ n \in Nat /\ n <= Len(t)
  BY SeqRange
<1>3. \A i \in 1..n : i \in 1..Len(t)
  BY <1>2
<1>4. \A i \in 1..n : t[i] \in S
  BY <1>3, SeqRange
<1>5. SubSeq(t, 1, n) \in Seq(S)
      /\ Len(SubSeq(t, 1, n)) = (IF 1 <= n THEN n - 1 + 1 ELSE 0)
      /\ \A i \in 1..(n - 1 + 1) : SubSeq(t, 1, n)[i] = t[1 + i - 1]
  BY <1>2, <1>4, SubSeqProperties
<1>6. q \in Seq(S) /\ Len(q) = n /\ \A i \in 1..n : q[i] = t[i]
  BY <1>1, <1>2, <1>5
<1>7. QED
  BY <1>2, <1>6 DEF Under

(* A list and all but its last element.                                    *)
LEMMA FrontUnder ==
  ASSUME NEW S, NEW t \in Seq(S), t # <<>>
  PROVE  /\ Under(Front(t), t) /\ Front(t) \in Seq(S)
         /\ \A d \in Seq(S) : Under(d, t) => d = t \/ Under(d, Front(t))
<1>1. /\ Front(t) \in Seq(S) /\ Len(Front(t)) = Len(t) - 1 /\ Len(t) >= 1
      /\ \A i \in 1..(Len(t) - 1) : Front(t)[i] = t[i]
      /\ Len(t) \in Nat
  BY FrontOf, SeqRange
<1>2. Under(Front(t), t)
  BY <1>1 DEF Under
<1>3. ASSUME NEW d \in Seq(S), Under(d, t)
      PROVE  d = t \/ Under(d, Front(t))
  <2>1. Len(d) \in Nat /\ Len(d) <= Len(t) /\ \A i \in 1..Len(d) : t[i] = d[i]
    BY <1>3, SeqRange DEF Under
  <2>2. CASE Len(d) = Len(t)
    BY <2>1, <2>2, SeqEqual
  <2>3. CASE Len(d) <= Len(t) - 1
    <3>1. \A i \in 1..Len(d) : i \in 1..(Len(t) - 1)
      BY <1>1, <2>1, <2>3
    <3>2. QED
      BY <1>1, <2>1, <2>3, <3>1 DEF Under
  <2>4. QED
    BY <1>1, <2>1, <2>2, <2>3
<1>4. QED
  BY <1>1, <1>2, <1>3

-----------------------------------------------------------------------------
(* filepath.Rel                                                            *)

(* The indices up to which two lists agree are the first so many.          *)
LEMMA CommonPrefix ==
  ASSUME NEW S, NEW s \in Seq(S), NEW t \in Seq(S)
  PROVE  /\ Cardinality(Common(s, t)) \in 0..Len(s)
         /\ Common(s, t) = 1..Cardinality(Common(s, t))
<1> DEFINE C == Common(s, t)
           T == {n \in Nat : n + 1 \notin C}
<1>1. Len(s) \in Nat /\ Len(t) \in Nat
  BY SeqRange
<1>2. C \subseteq 1..Len(s)
  BY DEF Common
<1>3. \A i \in C : \A j \in 1..i : j \in C
  <2>1. SUFFICES ASSUME NEW i \in C, NEW j \in 1..i
                 PROVE  j \in C
    OBVIOUS
  <2>2. i \in 1..Len(s) /\ i <= Len(t) /\ \A k \in 1..i : s[k] = t[k]
    BY DEF Common
  <2>3. j \in 1..Len(s) /\ j <= Len(t) /\ \A k \in 1..j : k \in 1..i
    BY <1>1, <2>2
  <2>4. QED
    BY <2>2, <2>3 DEF Common
<1> HIDE DEF C
<1>4. Len(s) \in T
  BY <1>1, <1>2
<1>5. PICK n \in T : \A m \in T : n <= m
  <2>1. T \subseteq Nat /\ T # {}
    BY <1>4
  <2> HIDE DEF T
  <2>2. QED
    BY <2>1, LeastNat
<1>6. n \in Nat /\ n + 1 \notin C /\ n <= Len(s)
  BY <1>4, <1>5
<1>7. \A j \in 1..n : j \in C
  <2>1. SUFFICES ASSUME NEW j \in 1..n, j \notin C
                 PROVE  FALSE
    OBVIOUS
  <2>2. j - 1 \in Nat /\ (j - 1) + 1 = j /\ ~(n <= j - 1)
    BY <1>6
  <2>3. j - 1 \in T
    BY <2>1, <2>2
  <2>4. QED
    BY <1>5, <2>2, <2>3
<1>8. \A i \in C : i \in 1..n
  <2>1. SUFFICES ASSUME NEW i \in C, ~(i \in 1..n)
                 PROVE  FALSE
    OBVIOUS
  <2>2. i \in Nat /\ i >= 1
    BY <1>1, <1>2
  <2>3. n + 1 \in 1..i
    BY <1>6, <2>1, <2>2
  <2>4. QED
    BY <1>3, <1>6, <2>3
<1>9. C = 1..n
  BY <1>7, <1>8
<1>10. Cardinality(1..n) = n
  <2>1. 1 \in Int /\ n \in Int
    BY <1>6
  <2>2. Cardinality(1..n) = IF 1 > n THEN 0 ELSE n - 1 + 1
    BY <2>1, FS_Interval
  <2>3. QED
    BY <1>6, <2>2
<1>11. QED
  BY <1>1, <1>6, <1>9, <1>10 DEF C

(* What is left of a list after the k elements it begins with.             *)
LEMMA RestOf ==
  ASSUME NEW S, NEW t \in Seq(S), NEW k \in 0..Len(t)
  PROVE  /\ SubSeq(t, k + 1, Len(t)) \in Seq(S)
         /\ Len(SubSeq(t, k + 1, Len(t))) = Len(t) - k
         /\ \A i \in 1..(Len(t) - k) : SubSeq(t, k + 1, Len(t))[i] = t[k + i]
<1>1. Len(t) \in Nat /\ k \in Nat /\ k <= Len(t)
  BY SeqRange
<1> DEFINE n == Len(t)
<1>2. n \in Nat /\ n = Len(t)
  BY <1>1
<1>3. \A i \in (k + 1)..n : t[i] \in S
  <2>1. \A i \in (k + 1)..n : i \in 1..n
    BY <1>1, <1>2
  <2>2. QED
    BY <2>1, SeqRange
<1> HIDE DEF n
<1>4. /\ SubSeq(t, k + 1, n) \in Seq(S)
      /\ Len(SubSeq(t, k + 1, n)) = (IF k + 1 <= n THEN n - (k + 1) + 1 ELSE 0)
      /\ \A i \in 1..(n - (k + 1) + 1) : SubSeq(t, k + 1, n)[i] = t[(k + 1) + i - 1]
  <2>1. k + 1 \in Int /\ n \in Int
    BY <1>1, <1>2
  <2>2. QED
    BY <1>3, <2>1, SubSeqProperties
<1>5. n - (k + 1) + 1 = n - k /\ (~(k + 1 <= n) => n - k = 0)
      /\ \A i \in 1..(n - k) : (k + 1) + i - 1 = k + i
  BY <1>1, <1>2
<1>6. Len(SubSeq(t, k + 1, n)) = n - k
  BY <1>4, <1>5
<1>7. \A i \in 1..(n - k) : SubSeq(t, k + 1, n)[i] = t[k + i]
  BY <1>4, <1>5
<1>8. QED
  BY <1>2, <1>4, <1>6, <1>7

(* The steps up.                                                           *)
Ups(n) == [i \in 1..n |-> ".."]

LEMMA UpsType ==
  ASSUME NEW n \in Nat
  PROVE  Ups(n) \in Seq(STRING) /\ Len(Ups(n)) = n /\ \A i \in 1..n : Ups(n)[i] = ".."
<1>1. ".." \in STRING
  BY PathAssumption
<1>2. Ups(n) \in [1..n -> STRING]
  BY <1>1 DEF Ups
<1>3. Ups(n) \in Seq(STRING)
  BY <1>2, SeqDef
<1>4. DOMAIN Ups(n) = 1..Len(Ups(n)) /\ DOMAIN Ups(n) = 1..n /\ Len(Ups(n)) \in Nat
  BY <1>2, <1>3, SeqRange
<1>5. Len(Ups(n)) = n
  <2>1. \A l \in Nat : 1..l = 1..n => (l # 0 => l \in 1..n) /\ (n # 0 => n \in 1..l)
    OBVIOUS
  <2>2. \A l \in Nat : 1..l = 1..n => l = n
    BY <2>1
  <2>3. QED
    BY <1>4, <2>2
<1>6. QED
  BY <1>3, <1>5 DEF Ups

LEMMA ClimbType ==
  ASSUME NEW s \in Seq(STRING), NEW t \in Seq(STRING), NEW k \in 0..Len(s), k <= Len(t)
  PROVE  /\ Climb(s, t, k) \in Path /\ ~Climb(s, t, k).abs
         /\ k < Len(s) => GoesUp(Climb(s, t, k))
         /\ k = Len(s) => Climb(s, t, k) = Relv(SubSeq(t, k + 1, Len(t)))
<1> DEFINE n == Len(s) - k
           r == SubSeq(t, k + 1, Len(t))
<1>1. Len(s) \in Nat /\ Len(t) \in Nat /\ k \in Nat /\ n \in Nat /\ k \in 0..Len(t)
  BY SeqRange
<1>2. r \in Seq(STRING)
  BY <1>1, RestOf
<1>3. Climb(s, t, k) = [abs |-> FALSE, segs |-> Ups(n) \o r]
  BY DEF Climb, Relv, Ups
<1>4. k < Len(s) => n >= 1
  BY <1>1
<1>5. k = Len(s) => n = 0
  BY <1>1
<1> HIDE DEF n
<1>6. Ups(n) \in Seq(STRING) /\ Len(Ups(n)) = n /\ \A i \in 1..n : Ups(n)[i] = ".."
  BY <1>1, UpsType
<1> HIDE DEF r
<1>7. /\ Ups(n) \o r \in Seq(STRING) /\ Len(Ups(n) \o r) = n + Len(r)
      /\ \A i \in 1..n : (Ups(n) \o r)[i] = Ups(n)[i]
      /\ Len(r) \in Nat
  <2>1. Len(r) \in Nat
    BY <1>2, SeqRange
  <2> DEFINE u == Ups(n)
  <2>2. u \in Seq(STRING) /\ Len(u) = n
    BY <1>6
  <2> HIDE DEF u
  <2>3. /\ u \o r \in Seq(STRING) /\ Len(u \o r) = Len(u) + Len(r)
        /\ \A i \in 1..Len(u) : (u \o r)[i] = u[i]
    BY <1>2, <2>2, ConcatOf
  <2>4. QED
    BY <2>1, <2>2, <2>3 DEF u
<1>8. Climb(s, t, k) \in Path /\ ~Climb(s, t, k).abs
  BY <1>3, <1>7 DEF Path
<1>9. ASSUME k < Len(s)
      PROVE  GoesUp(Climb(s, t, k))
  <2>1. 1 \in 1..n /\ n + Len(r) # 0
    BY <1>1, <1>4, <1>7, <1>9
  <2>2. (Ups(n) \o r)[1] = ".." /\ Ups(n) \o r # <<>>
    BY <1>6, <1>7, <2>1, EmptySeq
  <2>3. QED
    BY <1>3, <2>2 DEF GoesUp
<1>10. ASSUME k = Len(s)
       PROVE  Climb(s, t, k) = Relv(r)
  <2>1. Ups(n) = <<>>
    BY <1>5, <1>6, <1>10, EmptySeq
  <2>2. QED
    BY <1>2, <1>3, <2>1, ConcatEmptySeq DEF Relv
<1>11. QED
  BY <1>8, <1>9, <1>10 DEF r

LEMMA RelType ==
  ASSUME NEW b \in Path, NEW t \in Path
  PROVE  Rel(b, t) \in Path \cup {NoPath}
<1>1. Elems(b) \in Seq(STRING) /\ Elems(t) \in Seq(STRING)
  BY EmptySeq DEF Elems, Path
<1> DEFINE k == Cardinality(Common(Elems(b), Elems(t)))
<1>2. k \in 0..Len(Elems(b)) /\ Common(Elems(b), Elems(t)) = 1..k
  BY <1>1, CommonPrefix
<1>3. k <= Len(Elems(t))
  <2>1. Len(Elems(t)) \in Nat /\ k \in Nat
    BY <1>1, <1>2, SeqRange
  <2>2. k # 0 => k \in Common(Elems(b), Elems(t))
    BY <1>2, <2>1
  <2>3. QED
    BY <2>1, <2>2 DEF Common
<1>4. Between(Elems(b), Elems(t)) = Climb(Elems(b), Elems(t), k)
  BY DEF Between
<1> HIDE DEF k
<1>5. Between(Elems(b), Elems(t)) \in Path
  BY <1>1, <1>2, <1>3, <1>4, ClimbType
<1>6. QED
  BY <1>5, DotType DEF Rel

(* A relative path from one absolute path to another that does not go up   *)
(* leads to a place below; to one below, it is what is left of its list.   *)
LEMMA RelInside ==
  ASSUME NEW b \in Path, NEW t \in Path, b.abs, t.abs
  PROVE  /\ Inside(Rel(b, t)) => Under(b.segs, t.segs)
         /\ Under(b.segs, t.segs) =>
              Rel(b, t) = IF b = t THEN Dot
                          ELSE Relv(SubSeq(t.segs, Len(b.segs) + 1, Len(t.segs)))
<1>1. b.segs \in Seq(STRING) /\ t.segs \in Seq(STRING)
  BY DEF Path
<1>2. Elems(b) = b.segs /\ Elems(t) = t.segs
  BY DEF Elems, Dot, Relv
<1>3. CASE b = t
  <2>1. Under(b.segs, t.segs)
    BY <1>1, <1>3, UnderReflexive
  <2>2. QED
    BY <1>3, <2>1 DEF Rel
<1>4. CASE b # t
  <2>1. Rel(b, t) = Between(b.segs, t.segs)
    <3>1. b.abs = t.abs
      BY DEF Path
    <3>2. QED
      BY <1>2, <1>4, <3>1 DEF Rel
  <2> DEFINE k == Cardinality(Common(b.segs, t.segs))
  <2>2. k \in 0..Len(b.segs) /\ Common(b.segs, t.segs) = 1..k
    BY <1>1, CommonPrefix
  <2>3. Rel(b, t) = Climb(b.segs, t.segs, k)
    BY <2>1 DEF Between
  <2> HIDE DEF k
  <2>4. Len(b.segs) \in Nat /\ Len(t.segs) \in Nat /\ k \in Nat /\ k <= Len(b.segs)
    BY <1>1, <2>2, SeqRange
  <2>5. k # 0 => k \in Common(b.segs, t.segs)
    BY <2>2, <2>4
  <2>6. k <= Len(t.segs) /\ \A i \in 1..k : b.segs[i] = t.segs[i]
    BY <2>4, <2>5 DEF Common
  <2>7. /\ k < Len(b.segs) => GoesUp(Climb(b.segs, t.segs, k))
        /\ k = Len(b.segs) =>
             Climb(b.segs, t.segs, k) = Relv(SubSeq(t.segs, k + 1, Len(t.segs)))
    BY <1>1, <2>2, <2>6, ClimbType
  <2>8. ASSUME Inside(Rel(b, t))
        PROVE  Under(b.segs, t.segs)
    <3>1. ~(k < Len(b.segs))
      BY <2>3, <2>7, <2>8 DEF Inside
    <3>2. k = Len(b.segs)
      BY <2>4, <3>1
    <3>3. QED
      BY <2>6, <3>2 DEF Under
  <2>9. ASSUME Under(b.segs, t.segs)
        PROVE  k = Len(b.segs)
    <3>1. CASE Len(b.segs) = 0
      BY <2>4, <3>1
    <3>2. CASE Len(b.segs) # 0
      <4>1. Len(b.segs) \in Common(b.segs, t.segs)
        BY <2>4, <2>9, <3>2 DEF Under, Common
      <4>2. QED
        BY <2>2, <2>4, <4>1
    <3>3. QED
      BY <3>1, <3>2
  <2>10. QED
    BY <1>4, <2>3, <2>7, <2>8, <2>9
<1>5. QED
  BY <1>3, <1>4

-----------------------------------------------------------------------------
(* The jail                                                                *)

LEMMA RootType == Root \in Path /\ Settled(Root) /\ Root.segs = <<>>
BY EmptySeq DEF Root, Abs, Path, Settled, Plain

LEMMA RemoveJailPrefixType ==
  ASSUME NEW jl \in Path, NEW p \in Path
  PROVE  RemoveJailPrefix(jl, p) \in Path
<1>1. Clean(jl) \in Path /\ Clean(p) \in Path
  BY CleanType
<1>2. Rel(Clean(jl), Clean(p)) \in Path \cup {NoPath}
  BY <1>1, RelType
<1> DEFINE rel == Rel(Clean(jl), Clean(p))
           q == Clean(p)
<1>3. RemoveJailPrefix(jl, p) = IF rel = NoPath THEN q ELSE Join(Root, rel)
  BY DEF RemoveJailPrefix, Rooted
<1>4. rel # NoPath => Join(Root, rel) \in Path
  BY <1>2, RootType, JoinType
<1> HIDE DEF rel, q
<1>5. q \in Path
  BY <1>1 DEF q
<1>6. QED
  BY <1>3, <1>4, <1>5

(* Clean of an absolute path: what the lemmas on settled paths apply to.   *)
LEMMA CleanedAbs ==
  ASSUME NEW p \in Path, p.abs
  PROVE  /\ Clean(p) \in Path /\ Settled(Clean(p)) /\ Clean(p).abs
         /\ Clean(p).segs \in Seq(STRING)
         /\ Clean(Clean(p)) = Clean(p)
<1>1. p \in PathOf(STRING) /\ Path = PathOf(STRING)
  BY DEF Path, PathOf
<1>2. Clean(p) \in PathOf(STRING) /\ Settled(Clean(p))
  BY <1>1, CleanAbs
<1>3. Clean(Clean(p)) = Clean(p)
  BY <1>2, CleanSettled
<1>4. QED
  BY <1>1, <1>2, <1>3 DEF PathOf, Settled

(* What IsInJail lets through is in the jail.  (The converse fails for a   *)
(* name with two dots in front, which IsInJail takes for a way up.)        *)
LEMMA InJailUnder ==
  ASSUME NEW jl \in Path, jl.abs, NEW p \in Path, p.abs, IsInJail(jl, p)
  PROVE  Under(Clean(jl).segs, Clean(p).segs)
<1>1. jl # Empty
  BY DEF Empty, Relv
<1>2. Clean(jl) \in Path /\ Clean(jl).abs /\ Clean(p) \in Path /\ Clean(p).abs
  BY CleanedAbs
<1>3. Inside(Rel(Clean(jl), Clean(p)))
  BY <1>1, <1>2 DEF IsInJail
<1>4. QED
  BY <1>2, <1>3, RelInside

(* The converse, where no such name is directly below the jail.            *)
LEMMA FirstInJail ==
  ASSUME NEW jl \in Path, jl.abs, NEW p \in Path, p.abs,
         Under(Clean(jl).segs, Clean(p).segs),
         Len(Clean(p).segs) > Len(Clean(jl).segs) =>
           Clean(p).segs[Len(Clean(jl).segs) + 1] \notin DotDotNames
  PROVE  IsInJail(jl, p)
<1> DEFINE b == Clean(jl)
           t == Clean(p)
<1>1. /\ b \in Path /\ b.abs /\ t \in Path /\ t.abs /\ Settled(t)
      /\ b.segs \in Seq(STRING) /\ t.segs \in Seq(STRING)
  BY CleanedAbs
<1>2. /\ Under(b.segs, t.segs)
      /\ Len(t.segs) > Len(b.segs) => t.segs[Len(b.segs) + 1] \notin DotDotNames
  OBVIOUS
<1>3. Inside(Rel(b, t)) => IsInJail(jl, p)
  BY DEF IsInJail
<1> HIDE DEF b, t
<1> DEFINE r == SubSeq(t.segs, Len(b.segs) + 1, Len(t.segs))
<1>4. Rel(b, t) = IF b = t THEN Dot ELSE Relv(r)
  BY <1>1, <1>2, RelInside
<1>5. ~GoesUp(Dot) /\ Dot # NoPath
  <2>1. <<".">>[1] = "." /\ Dot.segs = <<".">> /\ "." # ".."
    BY DEF Dot, Relv
  <2>2. QED
    BY <2>1, DotType, PathAssumption DEF GoesUp
<1>6. /\ r \in Seq(STRING) /\ Len(r) = Len(t.segs) - Len(b.segs)
      /\ \A i \in 1..(Len(t.segs) - Len(b.segs)) : r[i] = t.segs[Len(b.segs) + i]
      /\ Len(b.segs) \in Nat /\ Len(t.segs) \in Nat /\ Len(b.segs) <= Len(t.segs)
  <2>1. Len(b.segs) \in Nat /\ Len(t.segs) \in Nat /\ Len(b.segs) <= Len(t.segs)
    BY <1>1, <1>2, SeqRange DEF Under
  <2>2. Len(b.segs) \in 0..Len(t.segs)
    BY <2>1
  <2>3. QED
    BY <1>1, <2>1, <2>2, RestOf
<1> HIDE DEF r
<1>7. r # <<>> => r[1] \notin {".."} \cup DotDotNames
  <2>1. SUFFICES ASSUME r # <<>>
                 PROVE  r[1] \notin {".."} \cup DotDotNames
    OBVIOUS
  <2>2. Len(r) # 0
    BY <1>6, <2>1, EmptySeq
  <2>3. Len(t.segs) > Len(b.segs) /\ Len(b.segs) + 1 \in 1..Len(t.segs)
    BY <1>6, <2>2
  <2>4. r[1] = t.segs[Len(b.segs) + 1]
    BY <1>6, <2>3
  <2>5. QED
    BY <1>1, <1>2, <2>3, <2>4 DEF Settled, Plain
<1>8. Relv(r) # NoPath /\ ~GoesUp(Relv(r))
  <2>1. Relv(r) \in Path /\ Relv(r).segs = r
    BY <1>6 DEF Relv, Path
  <2>2. QED
    BY <1>7, <2>1, PathAssumption DEF GoesUp
<1>9. QED
  BY <1>3, <1>4, <1>5, <1>8 DEF Inside

(* In particular, where no such name is below the jail.                    *)
LEMMA UnderInJail ==
  ASSUME NEW jl \in Path, jl.abs, NEW p \in Path, p.abs,
         Under(Clean(jl).segs, Clean(p).segs),
         \A i \in 1..Len(Clean(p).segs) :
           i > Len(Clean(jl).segs) => Clean(p).segs[i] \notin DotDotNames
  PROVE  IsInJail(jl, p)
<1> DEFINE b == Clean(jl).segs
           t == Clean(p).segs
<1>1. b \in Seq(STRING) /\ t \in Seq(STRING)
  BY CleanedAbs
<1>2. \A i \in 1..Len(t) : i > Len(b) => t[i] \notin DotDotNames
  OBVIOUS
<1> HIDE DEF b, t
<1>3. Len(t) > Len(b) => t[Len(b) + 1] \notin DotDotNames
  BY <1>1, <1>2, SeqRange
<1>4. QED
  BY <1>3, FirstInJail DEF b, t

LEMMA RootDot == Join(Root, Dot) = Root
<1>1. Root # Empty
  BY DEF Root, Abs, Empty, Relv
<1>2. [Root EXCEPT !.segs = @ \o Dot.segs] = [abs |-> Root.abs, segs |-> Root.segs \o Dot.segs]
  <2>1. Root \in PathOf(STRING) /\ Dot \in PathOf(STRING)
    BY RootType, DotType DEF Path, PathOf
  <2>2. QED
    BY <2>1, Appended
<1> DEFINE d == [abs |-> TRUE, segs |-> <<".">>]
<1>3. [abs |-> Root.abs, segs |-> Root.segs \o Dot.segs] = d
  <2>1. <<>> \o <<".">> = <<".">>
    OBVIOUS
  <2>2. Root.segs = <<>> /\ Root.abs = TRUE /\ Dot.segs = <<".">>
    BY DEF Root, Abs, Dot, Relv
  <2>3. QED
    BY <2>1, <2>2
<1>4. Join(Root, Dot) = Clean(d)
  BY <1>1, <1>2, <1>3 DEF Join
<1>5. d.segs = <<".">> /\ Len(d.segs) = 1 /\ d.segs[1] = "." /\ d.abs = TRUE
      /\ 1 \in DOMAIN d.segs
  OBVIOUS
<1> HIDE DEF d
<1>6. \E i \in DOMAIN d.segs : d.segs[i] \in {".", ".."}
  BY <1>5
<1>7. PICK h : Solves(d.abs, d.segs, Len(d.segs), h) /\ Simplified(d) = h[Len(d.segs)]
  <2>1. Len(d.segs) \in Nat
    BY <1>5
  <2>2. QED
    BY <1>6, <2>1, Unfolded, Zenon
<1>8. h[0] = <<>> /\ h[1] = Folded(d.abs, h[0], d.segs[1])
  BY <1>5, <1>7 DEF Solves
<1>9. Simplified(d) = <<>>
  BY <1>5, <1>7, <1>8 DEF Folded
<1>10. QED
  BY <1>4, <1>5, <1>9 DEF Clean, Named, Root, Abs

(* Back from below the jail: what the jail was joined to.                  *)
LEMMA RemoveJoined ==
  ASSUME NEW jl \in Path, Settled(jl), NEW p \in Path, Settled(p)
  PROVE  RemoveJailPrefix(jl, Join(jl, p)) = p
<1>0. Path = PathOf(STRING)
  BY DEF Path, PathOf
<1>1. jl.segs \in Seq(STRING) /\ p.segs \in Seq(STRING) /\ jl.abs /\ p.abs
      /\ p = [abs |-> TRUE, segs |-> p.segs] /\ jl = [abs |-> TRUE, segs |-> jl.segs]
  BY DEF Path, Settled
<1> DEFINE t == Join(jl, p)
<1>2. t = [abs |-> TRUE, segs |-> jl.segs \o p.segs] /\ t \in Path /\ Settled(t)
  BY <1>0, <1>1, JoinSettled, JoinAbs DEF Settled
<1> HIDE DEF t
<1>3. Clean(jl) = jl /\ Clean(t) = t
  BY <1>0, <1>2, CleanSettled
<1>4. Under(jl.segs, t.segs)
  BY <1>1, <1>2, UnderConcat
<1> DEFINE r == SubSeq(t.segs, Len(jl.segs) + 1, Len(t.segs))
<1>5. Rel(jl, t) = IF jl = t THEN Dot ELSE Relv(r)
  BY <1>1, <1>2, <1>4, RelInside DEF Settled
<1>6. r = p.segs
  <2>1. /\ Len(t.segs) = Len(jl.segs) + Len(p.segs)
        /\ \A i \in 1..Len(p.segs) : t.segs[Len(jl.segs) + i] = p.segs[i]
        /\ Len(jl.segs) \in Nat /\ Len(p.segs) \in Nat /\ t.segs \in Seq(STRING)
    BY <1>1, <1>2, ConcatOf, SeqRange
  <2>2. Len(jl.segs) \in 0..Len(t.segs) /\ Len(t.segs) - Len(jl.segs) = Len(p.segs)
    <3>1. \A l, m, n \in Nat : n = l + m => l \in 0..n /\ n - l = m
      OBVIOUS
    <3>2. Len(t.segs) \in Nat
      BY <2>1, SeqRange
    <3>3. QED
      BY <2>1, <3>1, <3>2
  <2>3. /\ r \in Seq(STRING) /\ Len(r) = Len(t.segs) - Len(jl.segs)
        /\ \A i \in 1..(Len(t.segs) - Len(jl.segs)) : r[i] = t.segs[Len(jl.segs) + i]
    BY <2>1, <2>2, RestOf
  <2> HIDE DEF r
  <2>4. Len(r) = Len(p.segs) /\ \A i \in 1..Len(r) : r[i] = p.segs[i]
    BY <2>1, <2>2, <2>3
  <2>5. QED
    BY <1>1, <2>3, <2>4, SeqEqual
<1> HIDE DEF r
<1>7. RemoveJailPrefix(jl, t) = Rooted(Rel(jl, t), t)
  BY <1>3 DEF RemoveJailPrefix
<1>8. CASE jl = t
  <2>1. p.segs = <<>>
    BY <1>1, <1>2, <1>8, ConcatEqualIffEmpty
  <2>2. RemoveJailPrefix(jl, t) = Join(Root, Dot)
    BY <1>5, <1>7, <1>8, DotType, PathAssumption DEF Rooted
  <2>3. Join(Root, Dot) = Root
    BY RootDot
  <2>4. QED
    BY <1>1, <2>1, <2>2, <2>3 DEF Root, Abs, t
<1>9. CASE jl # t
  <2>1. Rel(jl, t) = Relv(p.segs) /\ Relv(p.segs) \in Path /\ Relv(p.segs).segs = p.segs
    BY <1>1, <1>5, <1>6, <1>9 DEF Relv, Path
  <2>2. RemoveJailPrefix(jl, t) = Join(Root, Relv(p.segs))
    BY <1>7, <2>1, PathAssumption DEF Rooted
  <2>3. Plain(p.segs)
    BY DEF Settled
  <2>4. Join(Root, Relv(p.segs)) = [abs |-> TRUE, segs |-> Root.segs \o p.segs]
    BY <1>0, <2>1, <2>3, RootType, JoinSettled
  <2>5. Root.segs \o p.segs = p.segs
    BY <1>1, RootType, ConcatEmptySeq
  <2>6. QED
    BY <1>1, <2>2, <2>4, <2>5 DEF t
<1>10. QED
  BY <1>8, <1>9

(* "." before a name is nothing.                                           *)
LEMMA JoinDot ==
  ASSUME NEW s \in STRING, s \notin {".", ".."}
  PROVE  Join(Dot, Relv(<<s>>)) = Relv(<<s>>)
<1> DEFINE d == [abs |-> FALSE, segs |-> <<".">> \o <<s>>]
           r == Relv(<<s>>)
<1>1. [Dot EXCEPT !.segs = @ \o r.segs] = d
  <2>1. Dot.abs = FALSE /\ Dot.segs = <<".">>
    BY DEF Dot, Relv
  <2>2. r.abs = FALSE /\ r.segs = <<s>>
    BY DEF Relv
  <2>4. Dot \in PathOf(STRING) /\ r \in PathOf(STRING)
    <3>1. <<s>> \in Seq(STRING)
      OBVIOUS
    <3>2. QED
      BY <3>1, DotType DEF Path, PathOf, Relv
  <2> HIDE DEF r, d
  <2>5. [Dot EXCEPT !.segs = @ \o r.segs] = [abs |-> Dot.abs, segs |-> Dot.segs \o r.segs]
    BY <2>4, Appended
  <2>6. QED
    BY <2>1, <2>2, <2>5 DEF d
<1>2. Dot # Empty
  BY DEF Dot, Empty, Relv
<1>3. Join(Dot, Relv(<<s>>)) = Clean(d)
  BY <1>1, <1>2 DEF Join
<1>4. /\ d.abs = FALSE /\ Len(d.segs) = 2 /\ DOMAIN d.segs = 1..2
      /\ d.segs[1] = "." /\ d.segs[2] = s
  <2> DEFINE u == <<".">>
             v == <<s>>
             c == u \o v
  <2>1. /\ u \in Seq(STRING) /\ Len(u) = 1 /\ u[1] = "."
        /\ v \in Seq(STRING) /\ Len(v) = 1 /\ v[1] = s
    BY PathAssumption
  <2> HIDE DEF u, v
  <2>2. /\ c \in Seq(STRING) /\ Len(c) = Len(u) + Len(v)
        /\ \A i \in 1..Len(u) : c[i] = u[i]
        /\ \A i \in 1..Len(v) : c[Len(u) + i] = v[i]
    BY <2>1, ConcatOf
  <2> HIDE DEF c
  <2>3. 1 \in 1..1 /\ 1 + 1 = 2
    OBVIOUS
  <2>4. Len(c) = 2 /\ c[1] = "." /\ c[2] = s
    BY <2>1, <2>2, <2>3
  <2>5. DOMAIN c = 1..2
    BY <2>2, <2>4, SeqRange
  <2>6. d.segs = c /\ d.abs = FALSE
    BY DEF c, u, v
  <2>7. QED
    BY <2>4, <2>5, <2>6
<1> HIDE DEF d
<1>5. \E i \in DOMAIN d.segs : d.segs[i] \in {".", ".."}
  BY <1>4
<1>6. PICK h : Solves(d.abs, d.segs, Len(d.segs), h) /\ Simplified(d) = h[Len(d.segs)]
  <2>1. Len(d.segs) \in Nat
    BY <1>4
  <2>2. QED
    BY <1>5, <2>1, Unfolded, Zenon
<1>7. \A i \in 0..2 :
        h[i] = IF i = 0 THEN <<>> ELSE Folded(d.abs, h[i - 1], d.segs[i])
  BY <1>4, <1>6 DEF Solves
<1>8. h[0] = <<>> /\ h[1] = Folded(FALSE, h[0], ".") /\ h[2] = Folded(FALSE, h[1], s)
  <2>1. 0 \in 0..2 /\ 1 \in 0..2 /\ 2 \in 0..2 /\ 1 - 1 = 0 /\ 2 - 1 = 1
    OBVIOUS
  <2>2. h[0] = <<>>
    BY <1>7, <2>1
  <2>3. h[1] = Folded(d.abs, h[0], d.segs[1])
    BY <1>7, <2>1
  <2>4. h[2] = Folded(d.abs, h[1], d.segs[2])
    BY <1>7, <2>1
  <2>5. QED
    BY <1>4, <2>2, <2>3, <2>4
<1>9. h[1] = <<>> /\ h[2] = Append(<<>>, s)
  BY <1>8 DEF Folded
<1>10. Simplified(d) = <<s>>
  BY <1>4, <1>6, <1>9
<1>11. Clean(d) = Relv(<<s>>)
  <2>1. <<s>> # <<>>
    OBVIOUS
  <2>2. QED
    BY <1>4, <1>10, <2>1 DEF Clean, Named, Relv
<1>12. QED
  BY <1>3, <1>11

(* The same of a jail that is not clean.                                   *)
LEMMA RemoveBelow ==
  ASSUME NEW jl \in Path, jl.abs, NEW p \in Path, Settled(p)
  PROVE  RemoveJailPrefix(jl, Join(jl, p)) = p
<1> DEFINE b == Clean(jl)
<1>1. b \in Path /\ Settled(b) /\ Clean(b) = b
  BY CleanedAbs
<1>2. Join(jl, p) = Join(b, p)
  BY JoinPlain DEF Path, PathOf, Settled
<1>3. RemoveJailPrefix(jl, Join(jl, p)) = RemoveJailPrefix(b, Join(b, p))
  BY <1>1, <1>2 DEF RemoveJailPrefix
<1> HIDE DEF b
<1>4. QED
  BY <1>1, <1>3, RemoveJoined

-----------------------------------------------------------------------------
(* The prefixes of a list are those that begin it; one of each length.     *)
LEMMA UnderSame ==
  ASSUME NEW S, NEW p \in Seq(S), NEW q \in Seq(S), NEW t, Under(p, t), Under(q, t),
         Len(p) = Len(q)
  PROVE  p = q
BY SeqEqual DEF Under

LEMMA UnderIsPrefix ==
  ASSUME NEW S, NEW t \in Seq(S), NEW q \in Seq(S), Under(q, t)
  PROVE  q \in Prefixes(t)
<1> DEFINE n == Len(q)
           p == SubSeq(t, 1, n)
<1>1. n \in 0..Len(t)
  BY SeqRange DEF Under
<1>2. p \in Prefixes(t)
  BY <1>1 DEF Prefixes
<1>3. p \in Seq(S) /\ Under(p, t)
  BY <1>2, PrefixUnder
<1>4. Len(p) = n
  <2>1. Len(t) \in Nat /\ n \in Nat /\ n <= Len(t)
    BY <1>1, SeqRange
  <2> HIDE DEF n
  <2>2. \A i \in 1..n : t[i] \in S
    <3>1. \A i \in 1..n : i \in 1..Len(t)
      BY <2>1
    <3>2. QED
      BY <3>1, SeqRange
  <2>3. Len(p) = IF 1 <= n THEN n - 1 + 1 ELSE 0
    <3>1. 1 \in Int /\ n \in Int
      BY <2>1
    <3>2. QED
      BY <2>2, <3>1, SubSeqProperties
  <2>4. QED
    BY <2>1, <2>3
<1> HIDE DEF p
<1>5. p = q
  BY <1>3, <1>4, UnderSame
<1>6. QED
  BY <1>2, <1>5

(* What begins j \o w and is begun by j is j and what begins w.            *)
LEMMA UnderBoth ==
  ASSUME NEW S, NEW j \in Seq(S), NEW q \in Seq(S), NEW w \in Seq(S), Under(q, w)
  PROVE  Under(j \o q, j \o w)
<1>1. /\ Len(j) \in Nat /\ Len(q) \in Nat /\ Len(w) \in Nat
      /\ Len(q) <= Len(w) /\ \A i \in 1..Len(q) : w[i] = q[i]
  BY SeqRange DEF Under
<1>2. /\ Len(j \o q) = Len(j) + Len(q)
      /\ \A i \in 1..Len(j) : (j \o q)[i] = j[i]
      /\ \A i \in 1..Len(q) : (j \o q)[Len(j) + i] = q[i]
  BY ConcatOf
<1>3. /\ Len(j \o w) = Len(j) + Len(w)
      /\ \A i \in 1..Len(j) : (j \o w)[i] = j[i]
      /\ \A i \in 1..Len(w) : (j \o w)[Len(j) + i] = w[i]
  BY ConcatOf
<1>4. Len(j \o q) <= Len(j \o w)
  BY <1>1, <1>2, <1>3
<1>5. ASSUME NEW i \in 1..Len(j \o q)
      PROVE  (j \o w)[i] = (j \o q)[i]
  <2>1. i \in 1..Len(j) \/ (i - Len(j) \in 1..Len(q) /\ i = Len(j) + (i - Len(j)))
    BY <1>1, <1>2
  <2>2. CASE i \in 1..Len(j)
    BY <1>2, <1>3, <2>2
  <2>3. CASE i - Len(j) \in 1..Len(q) /\ i = Len(j) + (i - Len(j))
    <3> DEFINE k == i - Len(j)
    <3>1. k \in 1..Len(q) /\ k \in 1..Len(w) /\ i = Len(j) + k
      BY <1>1, <2>3
    <3> HIDE DEF k
    <3>2. QED
      BY <1>1, <1>2, <1>3, <3>1
  <2>4. QED
    BY <2>1, <2>2, <2>3
<1>6. QED
  BY <1>4, <1>5 DEF Under

LEMMA SplitPrefix ==
  ASSUME NEW S, NEW j \in Seq(S), NEW w \in Seq(S), NEW d \in Seq(S),
         Under(d, j \o w), Under(j, d)
  PROVE  \E q \in Seq(S) : d = j \o q /\ Under(q, w)
<1> DEFINE q == SubSeq(d, Len(j) + 1, Len(d))
<1>1. /\ Len(j) \in Nat /\ Len(d) \in Nat /\ Len(w) \in Nat /\ Len(j) \in 0..Len(d)
      /\ \A i \in 1..Len(j) : d[i] = j[i]
  BY SeqRange DEF Under
<1>2. /\ q \in Seq(S) /\ Len(q) = Len(d) - Len(j)
      /\ \A i \in 1..(Len(d) - Len(j)) : q[i] = d[Len(j) + i]
  BY <1>1, RestOf
<1> HIDE DEF q
<1>3. Len(j) + Len(q) = Len(d) /\ Len(q) \in Nat
  BY <1>1, <1>2
<1>4. /\ j \o q \in Seq(S) /\ Len(j \o q) = Len(d)
      /\ \A i \in 1..Len(j) : (j \o q)[i] = j[i]
      /\ \A i \in 1..Len(q) : (j \o q)[Len(j) + i] = q[i]
  BY <1>2, <1>3, ConcatOf
<1>5. ASSUME NEW i \in 1..Len(d)
      PROVE  (j \o q)[i] = d[i]
  <2>1. i \in 1..Len(j) \/ (i - Len(j) \in 1..Len(q) /\ i = Len(j) + (i - Len(j)))
    BY <1>1, <1>3
  <2>2. CASE i \in 1..Len(j)
    BY <1>1, <1>4, <2>2
  <2>3. CASE i - Len(j) \in 1..Len(q) /\ i = Len(j) + (i - Len(j))
    <3> DEFINE k == i - Len(j)
    <3>1. k \in 1..Len(q) /\ k \in 1..(Len(d) - Len(j)) /\ i = Len(j) + k
      BY <1>2, <2>3
    <3> HIDE DEF k
    <3>2. QED
      BY <1>2, <1>4, <3>1
  <2>4. QED
    BY <2>1, <2>2, <2>3
<1>6. j \o q = d
  BY <1>4, <1>5, SeqEqual
<1>7. /\ Len(j \o w) = Len(j) + Len(w)
      /\ \A i \in 1..Len(w) : (j \o w)[Len(j) + i] = w[i]
  BY ConcatOf
<1>8. Len(q) <= Len(w)
  BY <1>1, <1>3, <1>7 DEF Under
<1>9. ASSUME NEW i \in 1..Len(q)
      PROVE  w[i] = q[i]
  <2>1. Len(j) + i \in 1..Len(d) /\ i \in 1..Len(w) /\ i \in 1..(Len(d) - Len(j))
    BY <1>1, <1>2, <1>3, <1>8
  <2>2. (j \o w)[Len(j) + i] = d[Len(j) + i]
    BY <2>1 DEF Under
  <2>3. QED
    BY <1>2, <1>7, <2>1, <2>2
<1>10. Under(q, w)
  BY <1>8, <1>9 DEF Under
<1>11. QED
  BY <1>2, <1>6, <1>10

-----------------------------------------------------------------------------
(* No function of a path puts a name into it that was in none of its       *)
(* arguments, dots aside.                                                  *)
Dots == {".", ".."}

LEMMA CleanOver ==
  ASSUME NEW S, Dots \subseteq S, NEW p \in PathOf(S)
  PROVE  Clean(p) \in PathOf(S)
<1>1. Simplified(p) \in Seq(S) /\ p.abs \in BOOLEAN
  BY SimplifiedType DEF PathOf
<1>2. Dot \in PathOf(S)
  <2>1. "." \in S
    BY DEF Dots
  <2>2. <<".">> \in Seq(S)
    BY <2>1
  <2>3. QED
    BY <2>2 DEF Dot, Relv, PathOf
<1>3. [abs |-> p.abs, segs |-> Simplified(p)] \in PathOf(S)
  BY <1>1 DEF PathOf
<1>4. QED
  BY <1>2, <1>3 DEF Clean, Named

LEMMA EmptyOver == ASSUME NEW S PROVE Empty \in PathOf(S)
BY EmptySeq DEF Empty, Relv, PathOf

LEMMA JoinOver ==
  ASSUME NEW S, Dots \subseteq S, NEW a \in PathOf(S), NEW b \in PathOf(S)
  PROVE  Join(a, b) \in PathOf(S)
<1> DEFINE c == [a EXCEPT !.segs = @ \o b.segs]
<1>1. c \in PathOf(S)
  BY Appended
<1> HIDE DEF c
<1>2. Clean(c) \in PathOf(S) /\ Clean(b) \in PathOf(S)
  BY <1>1, CleanOver
<1>3. Join(a, b) \in {Empty, Clean(b), Clean(c)}
  BY DEF Join, c
<1>4. QED
  BY <1>2, <1>3, EmptyOver

LEMMA ClimbOver ==
  ASSUME NEW S, Dots \subseteq S, NEW n \in Nat, NEW t \in Seq(S), NEW k \in 0..Len(t)
  PROVE  Relv([i \in 1..n |-> ".."] \o SubSeq(t, k + 1, Len(t))) \in PathOf(S)
<1> DEFINE u == [i \in 1..n |-> ".."]
           r == SubSeq(t, k + 1, Len(t))
<1>1. ".." \in S
  BY DEF Dots
<1>2. u \in [1..n -> S]
  BY <1>1
<1> HIDE DEF u
<1>3. u \in Seq(S)
  BY <1>2, SeqDef
<1>4. r \in Seq(S)
  BY RestOf
<1> HIDE DEF r
<1>5. u \o r \in Seq(S)
  BY <1>3, <1>4, ConcatOf
<1>6. QED
  BY <1>5 DEF Relv, PathOf, u, r

LEMMA RelOver ==
  ASSUME NEW S, Dots \subseteq S, S \subseteq STRING, NEW b \in Path, NEW t \in PathOf(S)
  PROVE  Rel(b, t) \in PathOf(S) \cup {NoPath}
<1> DEFINE x == Elems(b)
           y == Elems(t)
<1>1. x \in Seq(STRING) /\ y \in Seq(S)
  BY EmptySeq DEF Elems, Path, PathOf
<1>2. y \in Seq(STRING)
  <2>1. Seq(S) \subseteq Seq(STRING)
    BY SeqIncluded
  <2>2. QED
    BY <1>1, <2>1
<1> HIDE DEF x, y
<1> DEFINE k == Cardinality(Common(x, y))
<1>3. k \in 0..Len(x) /\ Common(x, y) = 1..k
  BY <1>1, <1>2, CommonPrefix
<1>4. Len(x) \in Nat /\ Len(y) \in Nat /\ k \in Nat
  BY <1>1, <1>2, <1>3, SeqRange
<1> HIDE DEF k
<1>5. k \in 0..Len(y)
  <2>1. k # 0 => k \in Common(x, y)
    BY <1>3, <1>4
  <2>2. QED
    BY <1>4, <2>1 DEF Common
<1>6. Len(x) - k \in Nat
  BY <1>3, <1>4
<1>7. Between(x, y) = Relv([i \in 1..(Len(x) - k) |-> ".."] \o SubSeq(y, k + 1, Len(y)))
  BY DEF Between, Climb, k
<1>8. Between(x, y) \in PathOf(S)
  BY <1>1, <1>5, <1>6, <1>7, ClimbOver
<1>9. Dot \in PathOf(S)
  <2>1. "." \in S
    BY DEF Dots
  <2>2. <<".">> \in Seq(S)
    BY <2>1
  <2>3. QED
    BY <2>2 DEF Dot, Relv, PathOf
<1>10. QED
  BY <1>8, <1>9 DEF Rel, x, y

LEMMA RemoveOver ==
  ASSUME NEW S, Dots \subseteq S, S \subseteq STRING, NEW jl \in Path, NEW p \in PathOf(S)
  PROVE  RemoveJailPrefix(jl, p) \in PathOf(S)
<1>1. Clean(jl) \in Path
  BY CleanType
<1>2. Clean(p) \in PathOf(S)
  BY CleanOver
<1> DEFINE q == Clean(p)
           rel == Rel(Clean(jl), q)
<1>3. q \in PathOf(S)
  BY <1>2
<1> HIDE DEF q
<1>4. rel \in PathOf(S) \cup {NoPath}
  BY <1>1, <1>3, RelOver
<1>5. RemoveJailPrefix(jl, p) = IF rel = NoPath THEN q ELSE Join(Root, rel)
  BY DEF RemoveJailPrefix, Rooted, q
<1> HIDE DEF rel
<1>6. Root \in PathOf(S)
  BY EmptySeq DEF Root, Abs, PathOf
<1>7. rel # NoPath => Join(Root, rel) \in PathOf(S)
  BY <1>4, <1>6, JoinOver
<1>8. QED
  BY <1>3, <1>5, <1>7

-----------------------------------------------------------------------------
(* A relative path below an absolute one: Clean may be taken before Join.  *)

(* A list that no step of the recursion shortens stays, up to a place.     *)
LEMMA FoldKeeps ==
  ASSUME NEW S, NEW abs, NEW t \in Seq(S), NEW n \in 0..Len(t), NEW m \in Nat, n <= m,
         NEW h, Solves(abs, t, m, h),
         \A i \in 1..n : Folded(abs, SubSeq(t, 1, i - 1), t[i])
                         = Append(SubSeq(t, 1, i - 1), t[i])
  PROVE  h[n] = SubSeq(t, 1, n)
<1>1. \A i \in 0..m : h[i] = IF i = 0 THEN <<>> ELSE Folded(abs, h[i - 1], t[i])
  BY DEF Solves
<1>2. Len(t) \in Nat /\ n \in Nat /\ n <= Len(t)
  BY SeqRange
<1> DEFINE T == {i \in 0..n : h[i] = SubSeq(t, 1, i)}
<1>3. 0 \in T
  <2>1. 0 \in 0..n /\ 0 \in 0..m
    BY <1>2
  <2>2. SubSeq(t, 1, 0) = <<>>
    BY SubSeqEmpty
  <2>3. h[0] = <<>>
    BY <1>1, <2>1
  <2>4. QED
    BY <2>1, <2>2, <2>3
<1>4. ASSUME NEW i \in 1..n, i - 1 \in T
      PROVE  i \in T
  <2>1. i \in 0..n /\ i \in 0..m /\ i # 0 /\ 1 \in 1..Len(t) /\ i \in 1..Len(t)
    BY <1>2
  <2> DEFINE u == SubSeq(t, 1, i - 1)
  <2>2. h[i] = Append(u, t[i])
    BY <1>1, <1>4, <2>1
  <2>3. u \in Seq(S) /\ t[i] \in S
    <3>1. \A j \in 1..(i - 1) : j \in 1..Len(t)
      BY <1>2
    <3>2. \A j \in 1..(i - 1) : t[j] \in S
      BY <3>1, SeqRange
    <3>3. 1 \in Int /\ i - 1 \in Int
      OBVIOUS
    <3>4. u \in Seq(S)
      BY <3>2, <3>3, SubSeqProperties
    <3>5. QED
      BY <2>1, <3>4, SeqRange
  <2>4. SubSeq(t, 1, i) = u \o <<t[i]>>
    <3>1. i \in 1..Len(t)
      BY <2>1
    <3>2. QED
      BY <2>1, <3>1, SubSeqRecursiveSecond
  <2> HIDE DEF u
  <2>5. Append(u, t[i]) = u \o <<t[i]>>
    BY <2>3, AppendIsConcat
  <2>6. QED
    BY <2>1, <2>2, <2>4, <2>5
<1>5. T \subseteq 0..n /\ n \in 0..n
  BY <1>2
<1> HIDE DEF T
<1>6. n \in T
  BY <1>2, <1>3, <1>4, <1>5, Inherited
<1>7. QED
  BY <1>6 DEF T

(* So Simplified is the value of the recursion, with dots or without.      *)
LEMMA Folding ==
  ASSUME NEW S, NEW p \in PathOf(S)
  PROVE  \E h : Solves(p.abs, p.segs, Len(p.segs), h) /\ Simplified(p) = h[Len(p.segs)]
<1>1. p.segs \in Seq(S) /\ Len(p.segs) \in Nat /\ DOMAIN p.segs = 1..Len(p.segs)
  BY SeqRange DEF PathOf
<1>2. CASE \E i \in DOMAIN p.segs : p.segs[i] \in {".", ".."}
  BY <1>1, <1>2, Unfolded
<1>3. CASE ~\E i \in DOMAIN p.segs : p.segs[i] \in {".", ".."}
  <2>1. Simplified(p) = p.segs
    BY <1>3 DEF Simplified
  <2> DEFINE t == p.segs
             n == Len(t)
             b == p.abs
  <2>2. t \in Seq(S) /\ n \in Nat /\ n \in 0..Len(t) /\ n <= n
    BY <1>1
  <2>3. PICK h : Solves(b, t, n, h)
    BY <2>2, FoldExists
  <2>4. \A i \in 1..n : t[i] \notin {".", ".."}
    BY <1>1, <1>3
  <2>5. SubSeq(t, 1, n) = t
    BY <2>2, SubSeqFull
  <2> HIDE DEF t
  <2>6. \A i \in 1..n : Folded(b, SubSeq(t, 1, i - 1), t[i])
                        = Append(SubSeq(t, 1, i - 1), t[i])
    BY <2>4 DEF Folded
  <2> HIDE DEF n, b
  <2>7. h[n] = SubSeq(t, 1, n)
    BY <2>2, <2>3, <2>6, FoldKeeps
  <2>8. QED
    BY <2>1, <2>3, <2>5, <2>7 DEF n, t, b
<1>4. QED
  BY <1>2, <1>3

(* What is left of a when k of its elements are taken back, and how a      *)
(* relative path reads by itself and after a.                              *)
Cut(a, k) == IF k < Len(a) THEN SubSeq(a, 1, Len(a) - k) ELSE <<>>
Read(a, h, g) ==
  \E k \in Nat, r \in Seq(STRING) : Plain(r) /\ h = Ups(k) \o r /\ g = Cut(a, k) \o r

LEMMA CutOf ==
  ASSUME NEW a \in Seq(STRING), Plain(a), NEW k \in Nat
  PROVE  /\ Cut(a, k) \in Seq(STRING) /\ Plain(Cut(a, k))
         /\ Cut(a, 0) = a
         /\ Cut(a, k) = <<>> => Cut(a, k + 1) = <<>>
         /\ Cut(a, k) # <<>> => Cut(a, k + 1) = Front(Cut(a, k))
<1>1. Len(a) \in Nat
  BY SeqRange
<1>2. CASE ~(k < Len(a))
  <2>1. Cut(a, k) = <<>> /\ Cut(a, k + 1) = <<>>
    BY <1>1, <1>2 DEF Cut
  <2>2. <<>> \in Seq(STRING) /\ Plain(<<>>)
    BY EmptySeq DEF Plain
  <2>3. Cut(a, 0) = a
    <3>1. CASE Len(a) = 0
      <4>1. a = <<>>
        BY <3>1, EmptySeq
      <4>2. QED
        BY <3>1, <4>1 DEF Cut
    <3>2. CASE Len(a) # 0
      <4>1. 0 < Len(a) /\ Len(a) - 0 = Len(a)
        BY <1>1, <3>2
      <4>2. QED
        BY <4>1, SubSeqFull DEF Cut
    <3>3. QED
      BY <3>1, <3>2
  <2>4. QED
    BY <2>1, <2>2, <2>3
<1>3. CASE k < Len(a)
  <2> DEFINE n == Len(a) - k
             c == SubSeq(a, 1, n)
  <2>1. n \in Nat /\ n >= 1 /\ n <= Len(a) /\ Len(a) - (k + 1) = n - 1
    BY <1>1, <1>3
  <2>2. Cut(a, k) = c
    BY <1>3 DEF Cut
  <2> HIDE DEF n
  <2>3. c \in Seq(STRING) /\ Len(c) = n /\ \A i \in 1..n : c[i] = a[i]
    <3>1. \A i \in 1..n : i \in 1..Len(a)
      BY <1>1, <2>1
    <3>2. \A i \in 1..n : a[i] \in STRING
      BY <3>1, SeqRange
    <3>3. /\ c \in Seq(STRING) /\ Len(c) = (IF 1 <= n THEN n - 1 + 1 ELSE 0)
          /\ \A i \in 1..(n - 1 + 1) : c[i] = a[1 + i - 1]
      BY <2>1, <3>2, SubSeqProperties
    <3>4. QED
      BY <2>1, <3>3
  <2> HIDE DEF c
  <2>4. Plain(c)
    <3>1. \A i \in 1..n : i \in 1..Len(a)
      BY <1>1, <2>1
    <3>2. QED
      BY <2>3, <3>1 DEF Plain
  <2>5. c # <<>>
    BY <2>1, <2>3, EmptySeq
  <2>6. Cut(a, 0) = a
    <3>1. 0 < Len(a) /\ Len(a) - 0 = Len(a)
      BY <1>1, <1>3
    <3>2. QED
      BY <3>1, SubSeqFull DEF Cut
  <2>7. Cut(a, k + 1) = Front(c)
    <3>1. Front(c) = SubSeq(c, 1, n - 1)
      BY <2>3 DEF Front
    <3>2. CASE n = 1
      <4>1. Cut(a, k + 1) = <<>>
        <5>1. ~(k + 1 < Len(a))
          BY <1>1, <2>1, <3>2
        <5>2. QED
          BY <5>1 DEF Cut
      <4>2. SubSeq(c, 1, n - 1) = <<>>
        <5>1. SubSeq(c, 1, 0) = <<>>
          BY SubSeqEmpty
        <5>2. n - 1 = 0
          BY <3>2
        <5>3. QED
          BY <5>1, <5>2
      <4>3. QED
        BY <3>1, <4>1, <4>2
    <3>3. CASE n # 1
      <4>1. /\ k + 1 < Len(a) /\ 1 \in 1..Len(a) /\ n \in 1..Len(a)
            /\ 1 \in 1..(n - 1 + 1) /\ n - 1 \in 1..(n - 1 + 1)
            /\ 1 + 1 - 1 = 1 /\ 1 + (n - 1) - 1 = n - 1
        BY <1>1, <2>1, <3>3
      <4>2. Cut(a, k + 1) = SubSeq(a, 1, n - 1)
        BY <2>1, <4>1 DEF Cut
      <4>3. /\ Front(c) \in Seq(STRING) /\ Len(Front(c)) = n - 1
            /\ \A i \in 1..(n - 1) : Front(c)[i] = c[i]
        BY <2>3, <2>5, FrontOf
      <4> DEFINE d == SubSeq(a, 1, n - 1)
      <4>4. d \in Seq(STRING) /\ Len(d) = n - 1 /\ \A i \in 1..(n - 1) : d[i] = a[i]
        <5>1. \A i \in 1..(n - 1) : i \in 1..Len(a)
          BY <1>1, <2>1
        <5>2. \A i \in 1..(n - 1) : a[i] \in STRING
          BY <5>1, SeqRange
        <5>3. 1 \in Int /\ n - 1 \in Int
          BY <2>1
        <5>4. /\ d \in Seq(STRING) /\ Len(d) = (IF 1 <= n - 1 THEN n - 1 - 1 + 1 ELSE 0)
              /\ \A i \in 1..(n - 1 - 1 + 1) : d[i] = a[1 + i - 1]
          BY <5>2, <5>3, SubSeqProperties
        <5>5. QED
          BY <2>1, <3>3, <5>4
      <4> HIDE DEF d
      <4>5. \A i \in 1..(n - 1) : Front(c)[i] = d[i]
        <5>1. \A i \in 1..(n - 1) : i \in 1..n
          BY <2>1
        <5>2. QED
          BY <2>3, <4>3, <4>4, <5>1
      <4>6. Front(c) = d
        BY <4>3, <4>4, <4>5, SeqEqual
      <4>7. QED
        BY <4>2, <4>6 DEF d
    <3>4. QED
      BY <3>2, <3>3
  <2>8. QED
    BY <2>2, <2>3, <2>4, <2>5, <2>6, <2>7
<1>4. QED
  BY <1>2, <1>3

LEMMA LastConcat ==
  ASSUME NEW S, NEW s \in Seq(S), NEW t \in Seq(S), t # <<>>
  PROVE  Last(s \o t) = Last(t)
<1> DEFINE u == s \o t
<1>1. /\ Len(s) \in Nat /\ Len(t) \in Nat /\ Len(u) = Len(s) + Len(t)
      /\ \A i \in 1..Len(t) : u[Len(s) + i] = t[i]
  BY ConcatOf, SeqRange
<1>2. Len(t) \in 1..Len(t)
  <2>1. Len(t) # 0
    BY EmptySeq
  <2>2. QED
    BY <1>1, <2>1
<1>3. Last(u) = u[Len(u)] /\ Last(t) = t[Len(t)]
  BY DEF Last
<1> HIDE DEF u
<1>4. QED
  BY <1>1, <1>2, <1>3 DEF u

(* A plain list with one more name is plain, and with its last taken too.  *)
LEMMA PlainAppend ==
  ASSUME NEW t \in Seq(STRING), Plain(t), NEW x \in STRING, x \notin {".", ".."}
  PROVE  Append(t, x) \in Seq(STRING) /\ Plain(Append(t, x))
<1> DEFINE u == Append(t, x)
<1>1. /\ u \in Seq(STRING) /\ Len(u) = Len(t) + 1 /\ u[Len(t) + 1] = x
      /\ \A i \in 1..Len(t) : u[i] = t[i]
  BY AppendProperties
<1>2. Len(t) \in Nat
  BY SeqRange
<1> HIDE DEF u
<1>3. Plain(u)
  BY <1>1, <1>2 DEF Plain
<1>4. QED
  BY <1>1, <1>3 DEF u

LEMMA Single == ASSUME NEW S, NEW x \in S PROVE <<x>> \in Seq(S)
OBVIOUS

LEMMA PlainEnd ==
  ASSUME NEW s \in Seq(STRING), Plain(s), s # <<>>
  PROVE  Last(s) \notin {".", ".."} /\ Plain(Front(s)) /\ Front(s) \in Seq(STRING)
<1>1. /\ Len(s) \in Nat /\ Len(s) >= 1
      /\ Front(s) \in Seq(STRING) /\ Len(Front(s)) = Len(s) - 1
      /\ \A i \in 1..(Len(s) - 1) : Front(s)[i] = s[i]
  BY SeqRange, FrontOf
<1>2. Len(s) \in 1..Len(s) /\ \A i \in 1..(Len(s) - 1) : i \in 1..Len(s)
  BY <1>1
<1>3. Last(s) = s[Len(s)]
  BY DEF Last
<1>4. QED
  BY <1>1, <1>2, <1>3 DEF Plain

LEMMA UpsOnce ==
  ASSUME NEW k \in Nat
  PROVE  Append(Ups(k), "..") = Ups(k + 1) /\ (Ups(k) # <<>> => Last(Ups(k)) = "..")
<1>1. /\ Ups(k) \in Seq(STRING) /\ Len(Ups(k)) = k /\ \A i \in 1..k : Ups(k)[i] = ".."
      /\ Ups(k + 1) \in Seq(STRING) /\ Len(Ups(k + 1)) = k + 1
      /\ \A i \in 1..(k + 1) : Ups(k + 1)[i] = ".."
  BY UpsType
<1> DEFINE u == Append(Ups(k), "..")
<1>2. /\ u \in Seq(STRING) /\ Len(u) = k + 1 /\ u[k + 1] = ".."
      /\ \A i \in 1..k : u[i] = Ups(k)[i]
  BY <1>1, PathAssumption, AppendProperties
<1> HIDE DEF u
<1>3. \A i \in 1..(k + 1) : u[i] = Ups(k + 1)[i]
  BY <1>1, <1>2
<1>4. u = Ups(k + 1)
  BY <1>1, <1>2, <1>3, SeqEqual
<1>5. Ups(k) # <<>> => Last(Ups(k)) = ".."
  <2>1. Ups(k) # <<>> => k \in 1..k
    BY <1>1, EmptySeq
  <2>2. Last(Ups(k)) = Ups(k)[k]
    BY <1>1 DEF Last
  <2>3. QED
    BY <1>1, <2>1, <2>2
<1>6. QED
  BY <1>4, <1>5 DEF u

(* One element more is read in the same way by both.                       *)
LEMMA ReadStep ==
  ASSUME NEW a \in Seq(STRING), Plain(a), NEW h, NEW g, Read(a, h, g), NEW s \in STRING
  PROVE  Read(a, Folded(FALSE, h, s), Folded(TRUE, g, s))
<1>1. PICK k \in Nat, r \in Seq(STRING) : Plain(r) /\ h = Ups(k) \o r /\ g = Cut(a, k) \o r
  BY DEF Read
<1> DEFINE u == Ups(k)
           c == Cut(a, k)
<1>2. /\ u \in Seq(STRING) /\ c \in Seq(STRING) /\ Plain(c)
      /\ c = <<>> => Cut(a, k + 1) = <<>>
      /\ c # <<>> => Cut(a, k + 1) = Front(c)
  BY UpsType, CutOf
<1>3. h = u \o r /\ g = c \o r
  BY <1>1
<1>4. CASE s = "."
  BY <1>4 DEF Folded
<1>5. CASE s = ".." /\ r # <<>>
  <2> HIDE DEF u, c
  <2>1. /\ h # <<>> /\ Front(h) = u \o Front(r) /\ Last(h) = Last(r)
        /\ g # <<>> /\ Front(g) = c \o Front(r) /\ Last(g) = Last(r)
    BY <1>2, <1>3, <1>5, FrontConcat, LastConcat
  <2>2. Last(r) # ".." /\ Plain(Front(r)) /\ Front(r) \in Seq(STRING)
    BY <1>1, <1>5, PlainEnd
  <2>3. Folded(FALSE, h, s) = Front(h) /\ Folded(TRUE, g, s) = Front(g)
    BY <1>5, <2>1, <2>2 DEF Folded
  <2>4. QED
    BY <2>1, <2>2, <2>3 DEF Read, u, c
<1>6. CASE s = ".." /\ r = <<>>
  <2>1. h = u /\ g = c
    <3> HIDE DEF u, c
    <3>1. QED
      BY <1>2, <1>3, <1>6, ConcatEmptySeq
  <2>2. Folded(FALSE, h, s) = Ups(k + 1)
    <3>1. h # <<>> => Last(h) = ".."
      BY <2>1, UpsOnce
    <3>2. Folded(FALSE, h, s) = Append(h, s)
      BY <1>6, <3>1 DEF Folded
    <3>3. QED
      BY <1>6, <2>1, <3>2, UpsOnce
  <2>3. Folded(TRUE, g, s) = Cut(a, k + 1)
    <3>1. CASE g = <<>>
      <4>1. Folded(TRUE, g, s) = g
        BY <1>6, <3>1 DEF Folded
      <4>2. QED
        BY <1>2, <2>1, <3>1, <4>1
    <3>2. CASE g # <<>>
      <4>1. Last(g) # ".."
        BY <1>2, <2>1, <3>2, PlainEnd
      <4>2. Folded(TRUE, g, s) = Front(g)
        BY <1>6, <3>2, <4>1 DEF Folded
      <4>3. QED
        BY <1>2, <2>1, <3>2, <4>2
    <3>3. QED
      BY <3>1, <3>2
  <2>4. /\ Ups(k + 1) = Ups(k + 1) \o <<>> /\ Cut(a, k + 1) = Cut(a, k + 1) \o <<>>
        /\ <<>> \in Seq(STRING) /\ Plain(<<>>) /\ k + 1 \in Nat
    <3>1. k + 1 \in Nat
      OBVIOUS
    <3>2. Ups(k + 1) \in Seq(STRING) /\ Cut(a, k + 1) \in Seq(STRING)
      BY <3>1, UpsType, CutOf
    <3>3. <<>> \in Seq(STRING) /\ Plain(<<>>)
      BY EmptySeq DEF Plain
    <3>4. QED
      BY <3>1, <3>2, <3>3, ConcatEmptySeq
  <2>5. QED
    BY <2>2, <2>3, <2>4 DEF Read
<1>7. CASE s \notin {".", ".."}
  <2> DEFINE q == Append(r, s)
  <2> HIDE DEF u, c
  <2>1. q \in Seq(STRING) /\ Plain(q) /\ Append(h, s) = u \o q /\ Append(g, s) = c \o q
    <3>1. \A v, w : v \in Seq(STRING) /\ w = v \o r => Append(w, s) = v \o Append(r, s)
      <4> SUFFICES ASSUME NEW v \in Seq(STRING), NEW w, w = v \o r
                   PROVE  Append(w, s) = v \o Append(r, s)
        OBVIOUS
      <4>0. v \o r \in Seq(STRING)
        BY ConcatOf
      <4>1. <<s>> \in Seq(STRING) /\ w \in Seq(STRING)
        <5>1. <<s>> \in Seq(STRING)
          BY Single
        <5>2. w \in Seq(STRING)
          BY <4>0, Zenon
        <5>3. QED
          BY <5>1, <5>2
      <4>2. Append(r, s) = r \o <<s>> /\ Append(w, s) = w \o <<s>>
        BY <4>1, AppendIsConcat
      <4>3. (v \o r) \o <<s>> = v \o (r \o <<s>>)
        BY <4>1, ConcatAssociative
      <4>4. QED
        BY <4>2, <4>3
    <3>2. Append(h, s) = u \o Append(r, s) /\ Append(g, s) = c \o Append(r, s)
      BY <1>2, <1>3, <3>1
    <3>3. Append(r, s) \in Seq(STRING) /\ Plain(Append(r, s))
      BY <1>1, <1>7, PlainAppend
    <3>4. QED
      BY <3>2, <3>3
  <2>2. Folded(FALSE, h, s) = Append(h, s) /\ Folded(TRUE, g, s) = Append(g, s)
    BY <1>7 DEF Folded
  <2> HIDE DEF q
  <2>3. QED
    BY <2>1, <2>2 DEF Read, u, c
<1>8. QED
  BY <1>4, <1>5, <1>6, <1>7

(* So a relative path reads after a as it does by itself.                  *)
LEMMA Reading ==
  ASSUME NEW a \in Seq(STRING), Plain(a), NEW b \in Path, ~b.abs
  PROVE  Read(a, Simplified(b), Simplified([abs |-> TRUE, segs |-> a \o b.segs]))
<1> DEFINE c == [abs |-> TRUE, segs |-> a \o b.segs]
           l == Len(a)
           n == Len(b.segs)
           t == a \o b.segs
<1>1. /\ b.segs \in Seq(STRING) /\ b.abs = FALSE /\ b \in PathOf(STRING)
      /\ l \in Nat /\ n \in Nat /\ t \in Seq(STRING) /\ Len(t) = l + n
      /\ \A i \in 1..l : t[i] = a[i]
      /\ \A i \in 1..n : t[l + i] = b.segs[i] /\ b.segs[i] \in STRING
  BY ConcatOf, SeqRange DEF Path, PathOf
<1>2. c \in PathOf(STRING) /\ c.abs = TRUE /\ c.segs = t
  BY <1>1 DEF PathOf
<1> HIDE DEF c, t
<1>3. PICK f : Solves(FALSE, b.segs, n, f) /\ Simplified(b) = f[n]
  BY <1>1, Folding
<1>4. PICK g : Solves(TRUE, t, l + n, g) /\ Simplified(c) = g[l + n]
  BY <1>1, <1>2, Folding
<1>0. /\ t \in Seq(STRING) /\ Len(t) = l + n /\ l \in Nat /\ n \in Nat
      /\ \A i \in 1..l : t[i] = a[i]
  BY <1>1
<1>5. \A i \in 0..n : f[i] = IF i = 0 THEN <<>> ELSE Folded(FALSE, f[i - 1], b.segs[i])
  BY <1>3 DEF Solves
<1>6. \A i \in 0..(l + n) : g[i] = IF i = 0 THEN <<>> ELSE Folded(TRUE, g[i - 1], t[i])
  BY <1>4 DEF Solves
<1> HIDE DEF l, n
<1>7. g[l] = a
  <2>1. SubSeq(t, 1, l) = a
    <3>1. \A i \in 1..l : i \in 1..Len(t)
      BY <1>1
    <3>2. \A i \in 1..l : t[i] \in STRING
      BY <1>1, <3>1, SeqRange
    <3>3. 1 \in Int /\ l \in Int
      BY <1>1
    <3> DEFINE u == SubSeq(t, 1, l)
    <3>4. /\ u \in Seq(STRING) /\ Len(u) = (IF 1 <= l THEN l - 1 + 1 ELSE 0)
          /\ \A i \in 1..(l - 1 + 1) : u[i] = t[1 + i - 1]
      BY <3>2, <3>3, SubSeqProperties
    <3> HIDE DEF u
    <3>5. Len(u) = l /\ \A i \in 1..l : u[i] = a[i]
      BY <1>1, <3>4
    <3>6. u = a
      BY <3>4, <3>5, SeqEqual DEF l
    <3>7. QED
      BY <3>6 DEF u
  <2>2. l \in 0..Len(t) /\ l + n \in Nat /\ l <= l + n
    BY <1>1
  <2>3. \A i \in 1..l : Folded(TRUE, SubSeq(t, 1, i - 1), t[i])
                        = Append(SubSeq(t, 1, i - 1), t[i])
    <3>1. \A i \in 1..l : t[i] \notin {".", ".."}
      BY <1>1 DEF Plain, l
    <3>2. QED
      BY <3>1 DEF Folded
  <2>4. g[l] = SubSeq(t, 1, l)
    <3> DEFINE yes == TRUE
               m == l + n
    <3>1. m \in Nat /\ l <= m /\ l \in 0..Len(t) /\ t \in Seq(STRING)
      BY <1>0, <2>2
    <3>2. /\ Solves(yes, t, m, g)
          /\ \A i \in 1..l : Folded(yes, SubSeq(t, 1, i - 1), t[i])
                            = Append(SubSeq(t, 1, i - 1), t[i])
      BY <1>4, <2>3
    <3> HIDE DEF yes, m
    <3>3. QED
      BY <3>1, <3>2, FoldKeeps
  <2>5. QED
    BY <2>1, <2>4
<1> DEFINE T == {i \in 0..n : Read(a, f[i], g[l + i])}
<1>8. 0 \in T
  <2>0. 0 \in 0..n /\ l + 0 = l
    BY <1>0
  <2>1. f[0] = <<>> /\ g[l + 0] = a /\ 0 \in 0..n
    BY <1>5, <1>7, <2>0
  <2>2. Ups(0) = <<>> /\ Cut(a, 0) = a
    BY UpsType, CutOf, EmptySeq
  <2>3. <<>> = Ups(0) \o <<>> /\ a = Cut(a, 0) \o <<>> /\ <<>> \in Seq(STRING) /\ Plain(<<>>)
    BY <2>2, ConcatEmptySeq, EmptySeq DEF Plain
  <2>4. QED
    BY <2>1, <2>3 DEF Read
<1>9. \A i \in 1..n : i - 1 \in T => i \in T
  <2> SUFFICES ASSUME NEW i \in 1..n, i - 1 \in T
               PROVE  i \in T
    OBVIOUS
  <2>1. /\ i \in 0..n /\ i # 0 /\ l + i \in 0..(l + n) /\ l + i # 0
        /\ (l + i) - 1 = l + (i - 1)
    BY <1>0
  <2>2. f[i] = Folded(FALSE, f[i - 1], b.segs[i])
    BY <1>5, <2>1
  <2>3. g[l + i] = Folded(TRUE, g[l + (i - 1)], b.segs[i])
    <3>1. g[l + i] = Folded(TRUE, g[(l + i) - 1], t[l + i])
      <4> DEFINE j == l + i
      <4>1. j \in 0..(l + n) /\ j # 0
        BY <2>1
      <4> HIDE DEF j
      <4>2. g[j] = Folded(TRUE, g[j - 1], t[j])
        BY <1>6, <4>1
      <4>3. QED
        BY <4>2 DEF j
    <3>2. t[l + i] = b.segs[i]
      BY <1>1
    <3>3. QED
      BY <2>1, <3>1, <3>2
  <2>4. Read(a, f[i - 1], g[l + (i - 1)]) /\ b.segs[i] \in STRING
    BY <1>1
  <2>5. QED
    BY <2>1, <2>2, <2>3, <2>4, ReadStep
<1>10. T \subseteq 0..n /\ n \in 0..n
  BY <1>1
<1> HIDE DEF T
<1>11. n \in T
  BY <1>1, <1>8, <1>9, <1>10, Inherited
<1>12. QED
  BY <1>3, <1>4, <1>11 DEF T, c, t

(* What is "." by itself leads nowhere.                                    *)
LEMMA JoinNothing ==
  ASSUME NEW a \in Path, Settled(a), NEW b \in Path, Clean(b) = Dot
  PROVE  Join(a, b) = a
<1>1. ~b.abs
  BY CleanType, DotType
<1>2. a \in PathOf(STRING) /\ b \in PathOf(STRING) /\ a.abs = TRUE /\ Plain(a.segs)
      /\ a.segs \in Seq(STRING)
  BY DEF Path, PathOf, Settled
<1>3. Simplified(b) = <<>>
  <2>1. CASE Simplified(b) # <<>>
    <3>1. Clean(b) = [abs |-> FALSE, segs |-> Simplified(b)]
      BY <1>1, <1>2, <2>1 DEF Clean, Named, PathOf
    <3>2. Simplified(b) = <<".">>
      BY <3>1 DEF Dot, Relv
    <3> DEFINE c == Simplified([abs |-> TRUE, segs |-> a.segs \o b.segs])
    <3>0. Read(a.segs, <<".">>, c)
      BY <1>1, <1>2, <3>2, Reading
    <3> HIDE DEF c
    <3>3. PICK k \in Nat, r \in Seq(STRING) : Plain(r) /\ <<".">> = Ups(k) \o r
      BY <3>0 DEF Read
    <3>4. Ups(k) \in Seq(STRING) /\ Len(Ups(k)) = k /\ \A i \in 1..k : Ups(k)[i] = ".."
      BY UpsType
    <3> DEFINE u == Ups(k)
               v == u \o r
    <3>5. /\ Len(v) = k + Len(r) /\ Len(r) \in Nat
          /\ \A i \in 1..k : v[i] = u[i]
          /\ \A i \in 1..Len(r) : v[k + i] = r[i]
      <4>1. /\ Len(u \o r) = Len(u) + Len(r)
            /\ \A i \in 1..Len(u) : (u \o r)[i] = u[i]
            /\ \A i \in 1..Len(r) : (u \o r)[Len(u) + i] = r[i]
        BY <3>4, ConcatOf
      <4>2. Len(u) = k /\ Len(r) \in Nat
        BY <3>4, SeqRange
      <4> HIDE DEF u
      <4>3. QED
        BY <4>1, <4>2
    <3>6. v = <<".">> /\ \A i \in 1..k : u[i] = ".."
      BY <3>3, <3>4
    <3> HIDE DEF v, u
    <3>7. Len(v) = 1 /\ v[1] = "."
      BY <3>6
    <3>8. CASE k = 0
      <4>1. 1 \in 1..Len(r) /\ k + 1 = 1
        BY <3>5, <3>7, <3>8
      <4>2. r[1] = "."
        BY <3>5, <3>7, <4>1
      <4>3. QED
        BY <3>3, <4>1, <4>2 DEF Plain
    <3>9. CASE k # 0
      <4>1. 1 \in 1..k
        BY <3>9
      <4>2. v[1] = ".."
        BY <3>5, <3>6, <4>1
      <4>3. QED
        BY <3>7, <4>2
    <3>10. QED
      BY <3>8, <3>9
  <2>2. QED
    BY <2>1
<1> DEFINE c == [abs |-> TRUE, segs |-> a.segs \o b.segs]
<1>4. Simplified(c) = a.segs
  <2>0. Read(a.segs, <<>>, Simplified(c))
    BY <1>1, <1>2, <1>3, Reading
  <2>1. PICK k \in Nat, r \in Seq(STRING) :
          <<>> = Ups(k) \o r /\ Simplified(c) = Cut(a.segs, k) \o r
    BY <2>0 DEF Read
  <2>2. Ups(k) \in Seq(STRING) /\ Len(Ups(k)) = k
    BY UpsType
  <2>3. Len(Ups(k) \o r) = k + Len(r) /\ Len(r) \in Nat
    <3>1. Len(Ups(k) \o r) = Len(Ups(k)) + Len(r)
      BY <2>2, ConcatOf
    <3>2. QED
      BY <2>2, <3>1, SeqRange
  <2> DEFINE u == Ups(k) \o r
  <2>7. u = <<>> /\ Len(u) = k + Len(r)
    BY <2>1, <2>3
  <2> HIDE DEF u
  <2>8. Len(u) = 0
    BY <2>7
  <2>4. k = 0 /\ Len(r) = 0
    BY <2>3, <2>7, <2>8
  <2>5. r = <<>> /\ Cut(a.segs, k) = a.segs
    BY <1>2, <2>4, CutOf, EmptySeq
  <2>6. QED
    BY <1>2, <2>1, <2>5, ConcatEmptySeq
<1>5. Join(a, b) = Clean(c)
  <2> DEFINE q == [a EXCEPT !.segs = @ \o b.segs]
  <2>1. q = [abs |-> a.abs, segs |-> a.segs \o b.segs]
    BY <1>2, Appended
  <2>2. q = c
    BY <1>2, <2>1
  <2>3. a # Empty
    BY <1>2 DEF Empty, Relv
  <2>4. Join(a, b) = Clean(q)
    BY <2>3 DEF Join
  <2> HIDE DEF q, c
  <2>5. QED
    BY <2>2, <2>4
<1>6. Clean(c) = [abs |-> TRUE, segs |-> a.segs]
  BY <1>4 DEF Clean, Named
<1>7. QED
  BY <1>2, <1>5, <1>6 DEF PathOf

(* The steps up and the names after them are told apart by the list.       *)
LEMMA NotFewer ==
  ASSUME NEW k \in Nat, NEW m \in Nat, NEW r \in Seq(STRING), NEW q \in Seq(STRING),
         Plain(r), Ups(k) \o r = Ups(m) \o q
  PROVE  m <= k
<1> SUFFICES ASSUME k < m
             PROVE  FALSE
  OBVIOUS
<1> DEFINE u == Ups(k)
           v == Ups(m)
           x == u \o r
           y == v \o q
<1>1. /\ u \in Seq(STRING) /\ Len(u) = k
      /\ v \in Seq(STRING) /\ Len(v) = m /\ \A i \in 1..m : v[i] = ".."
  BY UpsType
<1> HIDE DEF u, v
<1>0. u \in Seq(STRING) /\ v \in Seq(STRING) /\ Len(r) \in Nat /\ Len(q) \in Nat
  BY <1>1, SeqRange
<1>2. Len(x) = Len(u) + Len(r) /\ \A i \in 1..Len(r) : x[Len(u) + i] = r[i]
  BY <1>0, ConcatOf
<1>3. Len(y) = Len(v) + Len(q) /\ \A i \in 1..Len(v) : y[i] = v[i]
  BY <1>0, ConcatOf
<1>4. x = y
  BY DEF u, v
<1> HIDE DEF x, y
<1>5. 1 \in 1..Len(r) /\ k + 1 \in 1..m
  BY <1>0, <1>1, <1>2, <1>3, <1>4
<1>6. x[k + 1] = r[1] /\ y[k + 1] = ".."
  BY <1>1, <1>2, <1>3, <1>5
<1>7. r[1] # ".."
  BY <1>5 DEF Plain
<1>8. QED
  BY <1>4, <1>6, <1>7

LEMMA ReadUnique ==
  ASSUME NEW a \in Seq(STRING), NEW h, NEW f, NEW g, Read(a, h, f), Read(a, h, g)
  PROVE  f = g
<1>1. PICK k \in Nat, r \in Seq(STRING) : Plain(r) /\ h = Ups(k) \o r /\ f = Cut(a, k) \o r
  BY DEF Read
<1>2. PICK m \in Nat, q \in Seq(STRING) : Plain(q) /\ h = Ups(m) \o q /\ g = Cut(a, m) \o q
  BY DEF Read
<1>3. k = m
  <2>1. m <= k /\ k <= m
    BY <1>1, <1>2, NotFewer
  <2>2. QED
    BY <2>1
<1>4. r = q
  <2> DEFINE u == Ups(k)
  <2>1. u \in Seq(STRING) /\ Len(u) = k
    BY UpsType
  <2>2. u \o r = u \o q
    BY <1>1, <1>2, <1>3
  <2> HIDE DEF u
  <2>8. u \in Seq(STRING)
    BY <2>1
  <2> DEFINE x == u \o r
             y == u \o q
  <2>0. Len(r) \in Nat /\ Len(q) \in Nat
    BY SeqRange
  <2>3. Len(x) = Len(u) + Len(r) /\ \A i \in 1..Len(r) : x[Len(u) + i] = r[i]
    BY <2>8, ConcatOf
  <2>4. Len(y) = Len(u) + Len(q) /\ \A i \in 1..Len(q) : y[Len(u) + i] = q[i]
    BY <2>8, ConcatOf
  <2>5. x = y
    BY <2>2
  <2> HIDE DEF x, y
  <2>6. Len(r) = Len(q) /\ \A i \in 1..Len(r) : r[i] = q[i]
    BY <2>0, <2>1, <2>3, <2>4, <2>5
  <2>7. QED
    BY <2>6, SeqEqual
<1>5. QED
  BY <1>1, <1>2, <1>3, <1>4

(* What is clean stays as it is.                                           *)
LEMMA CleanTwice ==
  ASSUME NEW c \in Path, ~c.abs
  PROVE  Simplified(Clean(c)) = Simplified(c)
<1> DEFINE t == Simplified(c)
<1>0. c.abs = FALSE /\ c \in PathOf(STRING)
  BY DEF Path, PathOf
<1>1. CASE t = <<>>
  <2>1. Clean(c) = Dot
    BY <1>0, <1>1 DEF Clean, Named
  <2>2. PICK h : Solves(Dot.abs, Dot.segs, Len(Dot.segs), h)
                 /\ Simplified(Dot) = h[Len(Dot.segs)]
    BY DotType, Folding DEF Path, PathOf
  <2>3. Dot.segs = <<".">> /\ Len(Dot.segs) = 1 /\ Dot.segs[1] = "."
    BY DEF Dot, Relv
  <2>4. h = [i \in 0..1 |-> IF i = 0 THEN <<>> ELSE Folded(Dot.abs, h[i - 1], Dot.segs[i])]
    BY <2>2, <2>3 DEF Solves
  <2>5. \A i \in 0..1 : h[i] = IF i = 0 THEN <<>> ELSE Folded(Dot.abs, h[i - 1], Dot.segs[i])
    BY <2>4
  <2>6. h[0] = <<>> /\ h[1] = Folded(Dot.abs, h[0], ".")
    BY <2>3, <2>5
  <2>7. h[1] = <<>>
    BY <2>6 DEF Folded
  <2>8. QED
    BY <1>1, <2>1, <2>2, <2>3, <2>7
<1>2. CASE t # <<>>
  <2> DEFINE p == [abs |-> FALSE, segs |-> t]
             n == Len(t)
             no == FALSE
  <2>1. Clean(c) = p
    BY <1>0, <1>2 DEF Clean, Named
  <2>2. t \in Seq(STRING) /\ n \in Nat /\ n \in 0..Len(t) /\ n <= n
    BY <1>0, SimplifiedType, SeqRange
  <2>3. PICK k \in Nat, r \in Seq(STRING) : Plain(r) /\ t = Ups(k) \o r
    <3>1. <<>> \in Seq(STRING) /\ Plain(<<>>)
      BY EmptySeq DEF Plain
    <3> DEFINE g == Simplified([abs |-> TRUE, segs |-> <<>> \o c.segs])
    <3>2. Read(<<>>, t, g)
      BY <1>0, <3>1, Reading
    <3> HIDE DEF g, t
    <3>3. QED
      BY <3>2 DEF Read
  <2> HIDE DEF t
  <2>4. p \in PathOf(STRING) /\ p.abs = FALSE /\ p.segs = t
    BY <2>2 DEF PathOf
  <2>5. PICK h : Solves(no, t, n, h) /\ Simplified(p) = h[n]
    <3> HIDE DEF p
    <3>1. QED
      BY <2>4, Folding
  <2> DEFINE u == Ups(k)
             v == u \o r
  <2>6. u \in Seq(STRING) /\ Len(u) = k /\ \A i \in 1..k : u[i] = ".."
    BY UpsType
  <2> HIDE DEF u
  <2>14. u \in Seq(STRING)
    BY <2>6
  <2>7. /\ Len(v) = k + Len(r) /\ Len(r) \in Nat
        /\ \A i \in 1..k : v[i] = ".."
        /\ \A i \in 1..Len(r) : v[k + i] = r[i]
    <3>1. /\ Len(u \o r) = Len(u) + Len(r)
          /\ \A i \in 1..Len(u) : (u \o r)[i] = u[i]
          /\ \A i \in 1..Len(r) : (u \o r)[Len(u) + i] = r[i]
      BY <2>14, ConcatOf
    <3>2. QED
      BY <2>6, <3>1, SeqRange
  <2>8. t = v
    BY <2>3 DEF u
  <2> HIDE DEF v
  <2>9. /\ n = k + Len(r) /\ Len(r) \in Nat
        /\ \A i \in 1..k : t[i] = ".."
        /\ \A i \in 1..Len(r) : t[k + i] = r[i]
    BY <2>7, <2>8
  <2> HIDE DEF n
  <2>10. ASSUME NEW i \in 1..n
         PROVE  Folded(no, SubSeq(t, 1, i - 1), t[i]) = Append(SubSeq(t, 1, i - 1), t[i])
    <3>1. CASE i \in 1..k
      <4> DEFINE w == SubSeq(t, 1, i - 1)
      <4>1. w = <<>> \/ Last(w) = ".."
        <5>1. CASE i = 1
          <6>1. i - 1 = 0
            BY <5>1
          <6>2. w = <<>>
            BY <6>1, SubSeqEmpty
          <6>3. QED
            BY <6>2
        <5>2. CASE i # 1
          <6>1. i - 1 \in 1..k /\ i - 1 \in Int /\ 1 <= i - 1
            BY <3>1, <5>2
          <6>2. \A j \in 1..(i - 1) : j \in 1..Len(t)
            BY <2>9 DEF n
          <6>3. \A j \in 1..(i - 1) : t[j] \in STRING
            BY <2>2, <6>2, SeqRange
          <6>4. /\ w \in Seq(STRING) /\ Len(w) = (IF 1 <= i - 1 THEN i - 1 - 1 + 1 ELSE 0)
                /\ \A j \in 1..(i - 1 - 1 + 1) : w[j] = t[1 + j - 1]
            BY <6>1, <6>3, SubSeqProperties
          <6> HIDE DEF w
          <6>5. Len(w) = i - 1 /\ w[i - 1] = t[i - 1]
            BY <6>1, <6>4
          <6>6. Last(w) = t[i - 1]
            BY <6>5 DEF Last
          <6>7. QED
            BY <2>9, <6>1, <6>6
        <5>3. QED
          BY <5>1, <5>2
      <4>2. t[i] = ".."
        BY <2>9, <3>1
      <4> HIDE DEF w
      <4>3. Folded(no, w, t[i]) = Append(w, t[i])
        BY <4>1, <4>2 DEF Folded
      <4>4. QED
        BY <4>3 DEF w
    <3>2. CASE i \notin 1..k
      <4>1. i - k \in 1..Len(r) /\ k + (i - k) = i
        BY <2>9, <3>2
      <4>2. t[i] = r[i - k]
        BY <2>9, <4>1
      <4>3. t[i] \notin {".", ".."}
        BY <2>3, <4>1, <4>2 DEF Plain
      <4>4. QED
        BY <4>3 DEF Folded
    <3>3. QED
      BY <3>1, <3>2
  <2>11. h[n] = SubSeq(t, 1, n)
    <3>1. t \in Seq(STRING) /\ n \in Nat /\ n \in 0..Len(t) /\ n <= n /\ Solves(no, t, n, h)
      BY <2>2, <2>5 DEF n
    <3> HIDE DEF no
    <3>2. QED
      BY <2>10, <3>1, FoldKeeps
  <2>12. SubSeq(t, 1, n) = t
    BY <2>2, SubSeqFull DEF n
  <2>13. QED
    BY <2>1, <2>5, <2>11, <2>12 DEF t
<1>3. QED
  BY <1>1, <1>2

(* So a relative path may be cleaned before it is joined, or not.          *)
LEMMA JoinFolds ==
  ASSUME NEW a \in Path, a.abs, NEW b \in Path
  PROVE  Join(a, b) = [abs |-> TRUE, segs |-> Simplified([abs |-> TRUE, segs |-> a.segs \o b.segs])]
<1> DEFINE q == [a EXCEPT !.segs = @ \o b.segs]
           c == [abs |-> TRUE, segs |-> a.segs \o b.segs]
<1>1. a \in PathOf(STRING) /\ b \in PathOf(STRING) /\ a.abs = TRUE
  BY DEF Path, PathOf
<1>2. q = [abs |-> a.abs, segs |-> a.segs \o b.segs]
  BY <1>1, Appended
<1>3. q = c
  BY <1>1, <1>2
<1>4. a # Empty
  BY <1>1 DEF Empty, Relv
<1>5. Join(a, b) = Clean(q)
  BY <1>4 DEF Join
<1>6. Clean(c) = [abs |-> TRUE, segs |-> Simplified(c)]
  BY DEF Clean, Named
<1> HIDE DEF q
<1>7. QED
  BY <1>3, <1>5, <1>6

LEMMA JoinClean ==
  ASSUME NEW a \in Path, Settled(a), NEW c \in Path, ~c.abs
  PROVE  Join(a, Clean(c)) = Join(a, c)
<1> DEFINE x == Clean(c)
           f == Simplified([abs |-> TRUE, segs |-> a.segs \o c.segs])
           g == Simplified([abs |-> TRUE, segs |-> a.segs \o x.segs])
<1>1. x \in Path /\ ~x.abs /\ Simplified(x) = Simplified(c)
  BY CleanType, CleanTwice
<1>2. a.segs \in Seq(STRING) /\ Plain(a.segs) /\ a.abs
  BY DEF Path, Settled
<1> HIDE DEF x
<1>3. Read(a.segs, Simplified(c), f)
  BY <1>2, Reading
<1>4. Read(a.segs, Simplified(x), g)
  BY <1>1, <1>2, Reading
<1>5. Join(a, c) = [abs |-> TRUE, segs |-> f] /\ Join(a, x) = [abs |-> TRUE, segs |-> g]
  BY <1>1, <1>2, JoinFolds
<1> HIDE DEF f, g
<1>6. f = g
  BY <1>1, <1>2, <1>3, <1>4, ReadUnique
<1>7. QED
  BY <1>5, <1>6 DEF x

(* A path with plain names after it, and the same below a directory.       *)
Longer(q, b) == [abs |-> q.abs, segs |-> q.segs \o b]

LEMMA LongerType ==
  ASSUME NEW q \in Path, NEW b \in Seq(STRING)
  PROVE  Longer(q, b) \in Path
<1>1. q.segs \o b \in Seq(STRING)
  BY ConcatOf DEF Path
<1>2. QED
  BY <1>1 DEF Longer, Path

LEMMA JoinLonger ==
  ASSUME NEW a \in Path, Settled(a), NEW q \in Path, ~q.abs, NEW b \in Seq(STRING), Plain(b)
  PROVE  Join(a, Longer(q, b)) = [abs |-> TRUE, segs |-> Join(a, q).segs \o b]
<1> DEFINE c == [abs |-> TRUE, segs |-> a.segs \o q.segs]
           l == Longer(q, b)
<1>1. a.segs \in Seq(STRING) /\ q.segs \in Seq(STRING) /\ a.abs
  BY DEF Path, Settled
<1>2. a.segs \o q.segs \in Seq(STRING)
  BY <1>1, ConcatOf
<1>3. c \in PathOf(STRING) /\ c.abs /\ c.segs = a.segs \o q.segs
  BY <1>2 DEF PathOf
<1>4. a.segs \o (q.segs \o b) = (a.segs \o q.segs) \o b
  <2> DEFINE s == a.segs
             t == q.segs
  <2>1. s \in Seq(STRING) /\ t \in Seq(STRING)
    BY <1>1
  <2> HIDE DEF s, t
  <2>2. (s \o t) \o b = s \o (t \o b)
    BY <2>1, ConcatAssociative
  <2>3. QED
    BY <2>2 DEF s, t
<1>5. l \in Path /\ l.segs = q.segs \o b
  BY LongerType DEF Longer
<1> HIDE DEF l
<1>6. Join(a, l) = [abs |-> TRUE, segs |-> Simplified([abs |-> TRUE, segs |-> a.segs \o l.segs])]
  BY <1>1, <1>5, JoinFolds
<1>7. a.segs \o l.segs = c.segs \o b
  BY <1>3, <1>4, <1>5
<1>8. Join(a, q) = [abs |-> TRUE, segs |-> Simplified(c)]
  BY <1>1, JoinFolds
<1> HIDE DEF c
<1>9. Simplified([abs |-> TRUE, segs |-> c.segs \o b]) = Simplified(c) \o b
  BY <1>3, SimplifiedConcat
<1>10. Join(a, l) = [abs |-> TRUE, segs |-> Simplified(c) \o b]
  BY <1>6, <1>7, <1>9
<1>11. Join(a, q).segs = Simplified(c)
  BY <1>8
<1>12. QED
  BY <1>10, <1>11 DEF l

(* Joining names to a path makes it longer, also where it is empty.        *)
LEMMA JoinRelv ==
  ASSUME NEW a \in Path, NEW b \in Seq(STRING), b # <<>>
  PROVE  Join(a, Relv(b)) = Clean(Longer(a, b))
<1>1. /\ Empty = [abs |-> FALSE, segs |-> <<>>] /\ Relv(b) = [abs |-> FALSE, segs |-> b]
      /\ Relv(b).segs = b /\ Relv(b) # Empty
  BY DEF Empty, Relv
<1>2. CASE a = Empty
  <2>1. <<>> \o b = b
    BY ConcatEmptySeq
  <2>2. Longer(a, b) = Relv(b)
    BY <1>1, <1>2, <2>1 DEF Longer
  <2>3. QED
    BY <1>1, <1>2, <2>2 DEF Join
<1>3. CASE a # Empty
  <2> DEFINE r == Relv(b)
             q == [a EXCEPT !.segs = @ \o r.segs]
  <2>1. r \in PathOf(STRING) /\ a \in PathOf(STRING) /\ r.segs = b
    BY <1>1 DEF PathOf, Path
  <2> HIDE DEF r
  <2>2. q = [abs |-> a.abs, segs |-> a.segs \o r.segs]
    BY <2>1, Appended
  <2>3. q = Longer(a, b)
    BY <2>1, <2>2 DEF Longer
  <2>4. Join(a, r) = Clean(q)
    BY <1>3 DEF Join
  <2> HIDE DEF q
  <2>5. QED
    BY <2>3, <2>4 DEF r
<1>4. QED
  BY <1>2, <1>3

(* Plain names stay what they are.                                         *)
LEMMA PlainStays ==
  ASSUME NEW p \in Path, Plain(p.segs), p.segs # <<>>,
         NEW b \in Seq(STRING), Plain(b), b # <<>>
  PROVE  /\ Clean(p) = p /\ Clean(Longer(p, b)) = Longer(p, b)
         /\ Longer(p, b).segs = p.segs \o b
         /\ Longer(p, b).segs[1] = p.segs[1]
         /\ Len(Longer(p, b).segs) > Len(p.segs)
         /\ Tail(Longer(p, b).segs) = Tail(p.segs) \o b
<1> DEFINE y == p.abs
           s == p.segs
           c == [abs |-> y, segs |-> s \o b]
           u == s \o b
<1>1. s \in Seq(STRING) /\ s # <<>> /\ Plain(s) /\ p \in PathOf(STRING)
      /\ p = [abs |-> y, segs |-> s]
  BY DEF Path, PathOf
<1>2. Simplified(p) = s
  <2>1. \A i \in DOMAIN p.segs : p.segs[i] \notin {".", ".."}
    BY <1>1, SeqRange DEF Plain
  <2>2. QED
    BY <2>1 DEF Simplified
<1>3. Clean(p) = p
  BY <1>1, <1>2 DEF Clean, Named
<1>4. Simplified(c) = s \o b
  BY <1>1, <1>2, SimplifiedAppend
<1>5. Longer(p, b) = c
  BY DEF Longer
<1> HIDE DEF y, s
<1>6. /\ Len(s) \in Nat /\ Len(s) >= 1 /\ Len(b) \in Nat /\ Len(b) >= 1
  <2>1. Len(s) \in Nat /\ Len(s) # 0 /\ Len(b) \in Nat /\ Len(b) # 0
    BY <1>1, SeqRange, EmptySeq
  <2>2. QED
    BY <2>1
<1>7. /\ u \in Seq(STRING) /\ Len(u) = Len(s) + Len(b)
      /\ \A i \in 1..Len(s) : u[i] = s[i]
      /\ \A i \in 1..Len(b) : u[Len(s) + i] = b[i]
  <2>1. s \in Seq(STRING)
    BY <1>1
  <2>2. QED
    BY <2>1, ConcatOf
<1>8. c.abs = y /\ c.segs = u
  OBVIOUS
<1>9. c = [abs |-> y, segs |-> u]
  OBVIOUS
<1> HIDE DEF u, c
<1>10. u # <<>> /\ u[1] = s[1] /\ Len(u) > Len(s)
  <2>1. 1 \in 1..Len(s) /\ Len(u) > Len(s) /\ Len(u) # 0
    BY <1>6, <1>7
  <2>2. QED
    BY <1>7, <2>1, EmptySeq
<1>11. Clean(c) = c
  BY <1>4, <1>8, <1>9, <1>10 DEF Clean, Named, u
<1>12. Tail(u) = Tail(s) \o b
  <2> DEFINE v == Tail(s)
             w == Tail(u)
             x == v \o b
  <2>1. /\ v \in Seq(STRING) /\ Len(v) = Len(s) - 1
        /\ \A i \in 1..Len(v) : v[i] = s[i + 1]
    BY <1>1, HeadTailProperties
  <2>2. /\ w \in Seq(STRING) /\ Len(w) = Len(u) - 1
        /\ \A i \in 1..Len(w) : w[i] = u[i + 1]
    BY <1>7, <1>10, HeadTailProperties
  <2> HIDE DEF v, w
  <2>3. v \in Seq(STRING)
    BY <2>1
  <2>4. /\ x \in Seq(STRING) /\ Len(x) = Len(v) + Len(b)
        /\ \A i \in 1..Len(v) : x[i] = v[i]
        /\ \A i \in 1..Len(b) : x[Len(v) + i] = b[i]
    BY <2>3, ConcatOf
  <2> HIDE DEF x
  <2>5. Len(w) = Len(x)
    BY <1>6, <1>7, <2>1, <2>2, <2>4
  <2>6. ASSUME NEW i \in 1..Len(w)
        PROVE  w[i] = x[i]
    <3>1. CASE i \in 1..Len(v)
      <4>1. i + 1 \in 1..Len(s)
        BY <1>6, <2>1, <3>1
      <4>2. QED
        BY <1>7, <2>1, <2>2, <2>4, <3>1, <4>1
    <3>2. CASE i \notin 1..Len(v)
      <4>1. i - Len(v) \in 1..Len(b) /\ Len(v) + (i - Len(v)) = i
            /\ Len(s) + (i - Len(v)) = i + 1
        BY <1>6, <2>1, <2>4, <2>5, <3>2
      <4>2. x[i] = b[i - Len(v)] /\ u[i + 1] = b[i - Len(v)]
        BY <1>7, <2>4, <4>1
      <4>3. QED
        BY <2>2, <4>2
    <3>3. QED
      BY <3>1, <3>2
  <2>7. w = x
    BY <2>2, <2>4, <2>5, <2>6, SeqEqual
  <2>8. QED
    BY <2>7 DEF v, w, x
<1>13. QED
  BY <1>3, <1>5, <1>8, <1>10, <1>11, <1>12 DEF s, u
-----------------------------------------------------------------------------
(* EnsureInJail, of a jail and an absolute path without names that begin   *)
(* with two dots: what it returns is inside; it is the path itself if that *)
(* was inside; and if it was not, it is the jail with the whole path below *)
(* it, so that the jail's own view of it is the path.  (Its comments, at   *)
(* filepath_jail.go:57 and 81, have the path's base name there.)           *)
THEOREM EnsureConfines ==
  ASSUME NEW jl \in Path, jl.abs, NEW p \in Path, p.abs,
         \A i \in 1..Len(p.segs) : p.segs[i] \notin DotDotNames
  PROVE  /\ IsInJail(jl, EnsureInJail(jl, p))
         /\ ~IsInJail(jl, p) => RemoveJailPrefix(jl, EnsureInJail(jl, p)) = Clean(p)
         /\ IsInJail(jl, p) => EnsureInJail(jl, p) = Clean(p)
<1> DEFINE b == Clean(jl)
           t == Clean(p)
           S == STRING \ DotDotNames
<1>1. /\ b \in Path /\ b.abs /\ Settled(b) /\ b.segs \in Seq(STRING) /\ Clean(b) = b
      /\ t \in Path /\ t.abs /\ Settled(t) /\ t.segs \in Seq(STRING) /\ Clean(t) = t
  BY CleanedAbs
<1>2. jl # Empty /\ p # Empty /\ b # Empty
  BY <1>1 DEF Empty, Relv
<1>3. t \in PathOf(S)
  <2>1. p.segs \in Seq(STRING) /\ p.abs \in BOOLEAN /\ p = [abs |-> p.abs, segs |-> p.segs]
    BY DEF Path
  <2>2. \A i \in 1..Len(p.segs) : p.segs[i] \in S
    BY <2>1, SeqRange
  <2>3. p.segs \in [1..Len(p.segs) -> S] /\ Len(p.segs) \in Nat
    BY <2>1, <2>2, LenProperties
  <2>4. p.segs \in Seq(S)
    BY <2>3, SeqDef
  <2>5. p \in PathOf(S)
    BY <2>1, <2>4 DEF PathOf
  <2> HIDE DEF S
  <2>6. QED
    BY <2>5, CleanAbs
<1>4. \A i \in 1..Len(t.segs) : t.segs[i] \notin DotDotNames
  <2>1. t.segs \in Seq(S)
    BY <1>3 DEF PathOf
  <2> HIDE DEF t
  <2>2. \A i \in 1..Len(t.segs) : t.segs[i] \in S
    BY <2>1, SeqRange
  <2>3. QED
    BY <2>2
<1>5. \A q : IsInJail(jl, q) <=> ~Clean(q).abs \/ Inside(Rel(b, Clean(q)))
  BY <1>2 DEF IsInJail
<1>6. IsInJail(b, t) <=> IsInJail(jl, p)
  BY <1>1, <1>2 DEF IsInJail
<1>7. \A q : RemoveJailPrefix(jl, q) = RemoveJailPrefix(b, q)
  BY <1>1 DEF RemoveJailPrefix
<1>8. EnsureInJail(jl, p) = IF p = Root THEN b ELSE IF IsInJail(b, t) THEN t ELSE Join(b, t)
  BY <1>2 DEF EnsureInJail
<1>9. IsInJail(jl, p) => Under(b.segs, t.segs)
  BY InJailUnder
<1>10. ASSUME NEW q \in Path, q.abs, Clean(q) = q, Under(b.segs, q.segs),
              \A i \in 1..Len(q.segs) : i > Len(b.segs) => q.segs[i] \notin DotDotNames
       PROVE  IsInJail(jl, q)
  BY <1>10, UnderInJail
<1> HIDE DEF b, t, S
<1>11. CASE p = Root
  <2>1. EnsureInJail(jl, p) = b
    BY <1>8, <1>11
  <2>2. IsInJail(jl, b)
    <3>1. Under(b.segs, b.segs) /\ Len(b.segs) \in Nat
      BY <1>1, UnderReflexive, SeqRange
    <3>2. \A i \in 1..Len(b.segs) : ~(i > Len(b.segs))
      BY <3>1
    <3>3. QED
      BY <1>1, <1>10, <3>1, <3>2
  <2>3. t = Root
    BY <1>11, RootType, CleanSettled DEF t, Path, PathOf
  <2>4. RemoveJailPrefix(b, b) = Root
    <3>1. Rel(b, b) = Dot
      BY DEF Rel
    <3>2. QED
      BY <1>1, <3>1, RootDot, DotType, PathAssumption DEF RemoveJailPrefix, Rooted
  <2>5. Under(b.segs, t.segs) => b = Root
    <3>1. SUFFICES ASSUME Under(b.segs, t.segs)
                   PROVE  b = Root
      OBVIOUS
    <3>2. Len(b.segs) \in Nat /\ Len(b.segs) <= 0
      BY <1>1, <2>3, <3>1, RootType, SeqRange, EmptySeq DEF Under
    <3>3. b.segs = <<>>
      BY <1>1, <3>2, EmptySeq
    <3>4. QED
      BY <1>1, <3>3 DEF Path, Root, Abs
  <2>6. QED
    BY <1>7, <1>9, <2>1, <2>2, <2>3, <2>4, <2>5 DEF t
<1>12. CASE p # Root /\ IsInJail(jl, p)
  <2>1. EnsureInJail(jl, p) = t
    BY <1>6, <1>8, <1>12
  <2>2. IsInJail(jl, t)
    BY <1>1, <1>4, <1>9, <1>10, <1>12
  <2>3. QED
    BY <1>12, <2>1, <2>2 DEF t
<1>13. CASE p # Root /\ ~IsInJail(jl, p)
  <2>1. EnsureInJail(jl, p) = Join(b, t)
    BY <1>6, <1>8, <1>13
  <2> DEFINE q == Join(b, t)
  <2>2. q = [abs |-> TRUE, segs |-> b.segs \o t.segs] /\ q \in Path /\ Settled(q)
    <3>1. Path = PathOf(STRING)
      BY DEF Path, PathOf
    <3>2. Plain(t.segs)
      BY <1>1 DEF Settled
    <3>3. QED
      BY <1>1, <3>1, <3>2, JoinSettled, JoinAbs
  <2>3. RemoveJailPrefix(b, q) = t
    BY <1>1, RemoveJoined
  <2> HIDE DEF q
  <2>4. q.segs = b.segs \o t.segs /\ q.abs
    BY <2>2
  <2>5. q \in Path /\ q.abs /\ Clean(q) = q
    BY <2>2, <2>4, CleanSettled DEF Path, PathOf
  <2>6. Under(b.segs, q.segs)
    BY <1>1, <2>4, UnderConcat
  <2>7. ASSUME NEW i \in 1..Len(q.segs), i > Len(b.segs)
        PROVE  q.segs[i] \notin DotDotNames
    <3> DEFINE c == b.segs
               u == t.segs
    <3>1. c \in Seq(STRING) /\ u \in Seq(STRING) /\ q.segs = c \o u
          /\ \A j \in 1..Len(u) : u[j] \notin DotDotNames
      BY <1>1, <1>4, <2>4
    <3>2. i \in 1..Len(c \o u) /\ i > Len(c)
      BY <2>7, <3>1
    <3> HIDE DEF c, u
    <3>3. (c \o u)[i] \notin DotDotNames
      BY <3>1, <3>2, SecondPart
    <3>4. QED
      BY <3>1, <3>3
  <2>8. IsInJail(jl, q)
    BY <1>10, <2>5, <2>6, <2>7
  <2>9. QED
    BY <1>7, <1>13, <2>1, <2>3, <2>8 DEF q, t
<1>14. QED
  BY <1>11, <1>12, <1>13
=============================================================================
