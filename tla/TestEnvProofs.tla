--------------------------- MODULE TestEnvProofs ---------------------------
(***************************************************************************)
(* What holds of the environments and of a Sandbox for all jails, names,   *)
(* files and calls: that variables keep one meaning, that copies are       *)
(* apart, that the host's tree stays a tree, that a file call of an        *)
(* environment with a jail changes nothing outside of it, and that what is *)
(* written, copied or searched for is found under its name.                *)
(***************************************************************************)
EXTENDS Sandbox, PathProofs

EnvFields == [jail : Path, home : Path, user : Path, map : Envs \cup {"nil"}]

(* A map from some of the keys to paths.                                   *)
IsMap(m) == DOMAIN m \subseteq Keys /\ \A k \in DOMAIN m : m[k] \in Path

(* The environments: an environment's home and user are what its map says, *)
(* a jail is absolute, and OsEnv has no fields.                            *)
EnvType ==
  /\ live \in {{"orig"}, {"orig", "clone"}, {"os"}}
  /\ env \in [Envs -> EnvFields]
  /\ DOMAIN data = Envs /\ \A m \in Envs : IsMap(data[m])
  /\ \A e \in live : env[e].map \in {e, "nil"}
JailsAbsolute == \A e \in live : env[e].jail = Empty \/ env[e].jail.abs
FieldsAgree ==
  \A e \in live \ {"os"} :
    Var(e, "HOME") = env[e].home /\ Var(e, "USER") = env[e].user
OsIsBlank == "os" \in live => env["os"] = Blank("os")
EnvInv == EnvType /\ JailsAbsolute /\ FieldsAgree /\ OsIsBlank

(* The host: a tree, with the process's directory in it.                   *)
Tree(f) ==
  /\ DOMAIN f \subseteq Seq(STRING)
  /\ \A t \in DOMAIN f : f[t] \in {DirNode} \cup Data
  /\ \A t \in DOMAIN f : t = <<>> \/ IsDir(f, Front(t))
CwdInv == cwd \in Path /\ Settled(cwd)
DiskInv == Tree(fs) /\ IsDir(fs, cwd.segs)

Inv == EnvInv /\ CwdInv /\ DiskInv

-----------------------------------------------------------------------------
(* The host's tree                                                         *)

(* Every list that begins a node's list is a directory.                    *)
LEMMA AncestorsAreDirs ==
  ASSUME NEW f, Tree(f), NEW t \in DOMAIN f, NEW q \in Seq(STRING), Under(q, t), q # t
  PROVE  IsDir(f, q)
<1>1. t \in Seq(STRING) /\ Len(t) \in Nat /\ Len(q) \in Nat /\ Len(q) <= Len(t)
  BY SeqRange DEF Tree, Under
<1> DEFINE Is(u) == IF u = t THEN u \in DOMAIN f ELSE IsDir(f, u)
           T == {i \in 0..Len(t) :
                   \A u \in Seq(STRING) : Len(u) = Len(t) - i /\ Under(u, t) => Is(u)}
<1>2. 0 \in T
  <2>1. ASSUME NEW u \in Seq(STRING), Len(u) = Len(t) - 0, Under(u, t)
        PROVE  u = t
    <3>1. Len(u) = Len(t)
      BY <1>1, <2>1
    <3>2. \A i \in 1..Len(u) : u[i] = t[i]
      BY <2>1 DEF Under
    <3>3. QED
      BY <1>1, <3>1, <3>2, SeqEqual
  <2>2. QED
    BY <1>1, <2>1
<1>3. ASSUME NEW i \in 1..Len(t), i - 1 \in T
      PROVE  i \in T
  <2>1. SUFFICES ASSUME NEW u \in Seq(STRING), Len(u) = Len(t) - i, Under(u, t)
                 PROVE  Is(u)
    BY <1>1
  <2> DEFINE n == Len(t) - i
             v == SubSeq(t, 1, n + 1)
  <2>2. n \in Nat /\ n + 1 <= Len(t) /\ Len(u) = n /\ n + 1 = Len(t) - (i - 1)
    BY <1>1, <2>1
  <2> HIDE DEF n
  <2>3. v \in Prefixes(t)
    <3>1. n + 1 \in 0..Len(t)
      BY <1>1, <2>2
    <3>2. QED
      BY <3>1 DEF Prefixes
  <2>4. v \in Seq(STRING) /\ Under(v, t)
    BY <1>1, <2>3, PrefixUnder
  <2>5. Len(v) = n + 1
    <3>1. \A j \in 1..(n + 1) : j \in 1..Len(t)
      BY <1>1, <2>2
    <3>2. \A j \in 1..(n + 1) : t[j] \in STRING
      BY <1>1, <3>1, SeqRange
    <3>3. 1 \in Int /\ n + 1 \in Int
      BY <2>2
    <3>4. Len(v) = IF 1 <= n + 1 THEN (n + 1) - 1 + 1 ELSE 0
      BY <3>2, <3>3, SubSeqProperties
    <3>5. QED
      BY <2>2, <3>4
  <2> HIDE DEF v
  <2>6. Is(v) /\ v \in DOMAIN f
    <3>1. Is(v)
      BY <1>3, <2>2, <2>4, <2>5
    <3>2. QED
      BY <3>1 DEF IsDir
  <2>7. v # <<>> /\ Front(v) \in Seq(STRING) /\ Len(Front(v)) = n
        /\ \A j \in 1..n : Front(v)[j] = v[j]
    <3>1. v # <<>>
      BY <2>2, <2>5, EmptySeq
    <3>2. Len(v) - 1 = n
      BY <2>2, <2>5
    <3>3. QED
      BY <2>4, <3>1, <3>2, FrontOf
  <2>8. u = Front(v)
    <3>1. \A j \in 1..n : j \in 1..(n + 1)
      BY <2>2
    <3>2. \A j \in 1..n : u[j] = Front(v)[j]
      BY <2>1, <2>2, <2>4, <2>5, <2>7, <3>1 DEF Under
    <3>3. QED
      BY <2>2, <2>7, <3>2, SeqEqual
  <2>9. IsDir(f, u)
    BY <2>6, <2>7, <2>8 DEF Tree
  <2>10. QED
    BY <2>9 DEF IsDir
<1>4. T \subseteq 0..Len(t)
  OBVIOUS
<1> HIDE DEF T
<1>5. \A i \in 0..Len(t) : i \in T
  BY <1>1, <1>2, <1>3, <1>4, Inherited
<1>6. Len(t) - Len(q) \in 0..Len(t) /\ Len(q) = Len(t) - (Len(t) - Len(q))
  BY <1>1
<1>7. Is(q)
  BY <1>5, <1>6 DEF T
<1>8. QED
  BY <1>7

(* What changes from one tree to another, and that it is within a jail.    *)
Differ(f, g) ==
  {t \in DOMAIN f \cup DOMAIN g : t \notin DOMAIN f \/ t \notin DOMAIN g \/ f[t] # g[t]}
Within(f, g, jl) ==
  \A t \in Differ(f, g) : Under(jl, t) \/ (Under(t, jl) /\ IsDir(g, t))

LEMMA WithinTransitive ==
  ASSUME NEW f, NEW g, NEW h, NEW jl, Within(f, g, jl), Within(g, h, jl)
  PROVE  Within(f, h, jl)
<1>1. SUFFICES ASSUME NEW t \in Differ(f, h), ~Under(jl, t)
               PROVE  Under(t, jl) /\ IsDir(h, t)
  BY DEF Within
<1>2. CASE t \in Differ(g, h)
  BY <1>1, <1>2 DEF Within
<1>3. CASE t \notin Differ(g, h)
  <2>1. t \in Differ(f, g)
    BY <1>3 DEF Differ
  <2>2. Under(t, jl) /\ IsDir(g, t)
    BY <1>1, <2>1 DEF Within
  <2>3. QED
    BY <1>3, <2>2 DEF Differ, IsDir
<1>4. QED
  BY <1>2, <1>3

LEMMA SelfPrefix == ASSUME NEW S, NEW t \in Seq(S) PROVE t \in Prefixes(t)
<1>1. Len(t) \in 0..Len(t) /\ SubSeq(t, 1, Len(t)) = t
  BY SeqRange, SubSeqFull
<1>2. QED
  BY <1>1 DEF Prefixes

LEMMA FrontPrefix ==
  ASSUME NEW t \in Seq(STRING), NEW q \in Prefixes(t), q # <<>>
  PROVE  Front(q) \in Prefixes(t)
<1>1. PICK n \in 0..Len(t) : q = SubSeq(t, 1, n)
  BY DEF Prefixes
<1>2. Len(t) \in Nat /\ n \in Nat /\ n <= Len(t)
  BY SeqRange
<1>3. \A i \in 1..n : i \in 1..Len(t)
  BY <1>2
<1>4. \A i \in 1..n : t[i] \in STRING
  BY <1>3, SeqRange
<1>5. q \in Seq(STRING) /\ Len(q) = n /\ \A i \in 1..n : q[i] = t[i]
  <2>1. /\ q \in Seq(STRING) /\ Len(q) = (IF 1 <= n THEN n - 1 + 1 ELSE 0)
        /\ \A i \in 1..(n - 1 + 1) : q[i] = t[1 + i - 1]
    BY <1>1, <1>2, <1>4, SubSeqProperties
  <2>2. QED
    BY <1>2, <2>1
<1>6. n >= 1
  BY <1>2, <1>5, EmptySeq
<1>7. /\ Front(q) \in Seq(STRING) /\ Len(Front(q)) = n - 1
      /\ \A i \in 1..(n - 1) : Front(q)[i] = q[i]
  BY <1>5, FrontOf
<1> DEFINE m == n - 1
           r == SubSeq(t, 1, m)
<1>8. m \in Nat /\ m \in 0..Len(t) /\ \A i \in 1..m : i \in 1..n
  BY <1>2, <1>6
<1> HIDE DEF m
<1>9. r \in Seq(STRING) /\ Len(r) = m /\ \A i \in 1..m : r[i] = t[i]
  <2>1. \A i \in 1..m : t[i] \in STRING
    BY <1>4, <1>8
  <2>2. /\ r \in Seq(STRING) /\ Len(r) = (IF 1 <= m THEN m - 1 + 1 ELSE 0)
        /\ \A i \in 1..(m - 1 + 1) : r[i] = t[1 + i - 1]
    BY <1>8, <2>1, SubSeqProperties
  <2>3. QED
    BY <1>8, <2>2
<1> HIDE DEF r
<1>10. Front(q) = r
  <2>1. Len(Front(q)) = Len(r)
    BY <1>7, <1>9 DEF m
  <2>2. \A i \in 1..m : Front(q)[i] = r[i]
    BY <1>5, <1>7, <1>8, <1>9 DEF m
  <2>3. QED
    BY <1>7, <1>9, <2>1, <2>2, SeqEqual
<1>11. r \in Prefixes(t)
  BY <1>8 DEF r, Prefixes
<1>12. QED
  BY <1>10, <1>11

LEMMA MkdirAllTree ==
  ASSUME NEW f, Tree(f), NEW t \in Seq(STRING), MkdirAllOk(f, t)
  PROVE  /\ Tree(MkdirAll(f, t))
         /\ \A u : IsDir(f, u) => IsDir(MkdirAll(f, t), u)
         /\ IsDir(MkdirAll(f, t), t)
         /\ \A jl \in Seq(STRING) :
              Under(jl, t) \/ Under(t, jl) => Within(f, MkdirAll(f, t), jl)
<1> DEFINE g == MkdirAll(f, t)
<1>1. /\ DOMAIN g = DOMAIN f \cup Prefixes(t)
      /\ \A q \in DOMAIN f : g[q] = f[q]
      /\ \A q \in Prefixes(t) : g[q] = DirNode
  BY DEF MkdirAll, MkdirAllOk, IsFile
<1> HIDE DEF g
<1>2. \A q \in Prefixes(t) : q \in Seq(STRING) /\ Under(q, t)
  BY PrefixUnder
<1>3. \A u : IsDir(f, u) => IsDir(g, u)
  BY <1>1 DEF IsDir
<1>4. t \in Prefixes(t) /\ \A q \in Prefixes(t) : q # <<>> => Front(q) \in Prefixes(t)
  BY SelfPrefix, FrontPrefix
<1>6. Tree(g)
  <2>1. DOMAIN g \subseteq Seq(STRING)
    BY <1>1, <1>2 DEF Tree
  <2>2. \A u \in DOMAIN g : g[u] \in {DirNode} \cup Data
    BY <1>1 DEF Tree
  <2>3. ASSUME NEW u \in DOMAIN g, u # <<>>
        PROVE  IsDir(g, Front(u))
    <3>1. CASE u \in DOMAIN f
      BY <1>3, <2>3, <3>1 DEF Tree
    <3>2. CASE u \in Prefixes(t)
      BY <1>1, <1>4, <2>3, <3>2 DEF IsDir
    <3>3. QED
      BY <1>1, <3>1, <3>2
  <2>4. QED
    BY <2>1, <2>2, <2>3 DEF Tree
<1>7. ASSUME NEW jl \in Seq(STRING), Under(jl, t) \/ Under(t, jl)
      PROVE  Within(f, g, jl)
  <2>1. SUFFICES ASSUME NEW u \in Differ(f, g)
                 PROVE  Under(jl, u) \/ (Under(u, jl) /\ IsDir(g, u))
    BY DEF Within
  <2>2. u \in Prefixes(t)
    BY <1>1 DEF Differ
  <2>3. IsDir(g, u)
    BY <1>1, <2>2 DEF IsDir
  <2>4. Under(jl, u) \/ Under(u, jl)
    <3>1. CASE Under(jl, t)
      BY <1>2, <2>2, <3>1, UnderTotal
    <3>2. CASE Under(t, jl)
      BY <1>2, <2>2, <3>2, UnderTransitive
    <3>3. QED
      BY <1>7, <3>1, <3>2
  <2>5. QED
    BY <2>3, <2>4
<1>8. QED
  BY <1>1, <1>3, <1>4, <1>6, <1>7 DEF IsDir, g

LEMMA PutTree ==
  ASSUME NEW f, Tree(f), NEW t \in Seq(STRING), PutOk(f, t), NEW d \in Data
  PROVE  /\ Tree(Put(f, t, d))
         /\ \A u : IsDir(f, u) => IsDir(Put(f, t, d), u)
         /\ \A jl \in Seq(STRING) : Under(jl, t) => Within(f, Put(f, t, d), jl)
<1> DEFINE g == Put(f, t, d)
<1>1. /\ DOMAIN g = DOMAIN f \cup {t}
      /\ g[t] = d
      /\ \A q \in DOMAIN f \ {t} : g[q] = f[q]
  BY DEF Put
<1>2. t # <<>> /\ IsDir(f, Front(t)) /\ ~IsDir(f, t)
  BY DEF PutOk
<1> HIDE DEF g
<1>3. \A u : IsDir(f, u) => IsDir(g, u)
  BY <1>1, <1>2 DEF IsDir
<1>4. Tree(g)
  <2>1. DOMAIN g \subseteq Seq(STRING) /\ \A u \in DOMAIN g : g[u] \in {DirNode} \cup Data
    BY <1>1 DEF Tree
  <2>2. ASSUME NEW u \in DOMAIN g, u # <<>>
        PROVE  IsDir(f, Front(u))
    BY <1>1, <1>2, <2>2 DEF Tree
  <2>3. QED
    BY <1>3, <2>1, <2>2 DEF Tree
<1>5. \A jl \in Seq(STRING) : Under(jl, t) => Within(f, g, jl)
  BY <1>1 DEF Within, Differ
<1>6. QED
  BY <1>3, <1>4, <1>5 DEF g

LEMMA PrunedTree ==
  ASSUME NEW f, Tree(f), NEW t \in Seq(STRING)
  PROVE  /\ Tree(Pruned(f, t))
         /\ \A u : IsDir(f, u) /\ ~Under(t, u) => IsDir(Pruned(f, t), u)
         /\ \A jl \in Seq(STRING) : Under(jl, t) => Within(f, Pruned(f, t), jl)
<1> DEFINE g == Pruned(f, t)
<1>1. /\ DOMAIN g = {r \in DOMAIN f : r = <<>> \/ ~Under(t, r)}
      /\ \A q \in DOMAIN g : g[q] = f[q]
  BY DEF Pruned
<1> HIDE DEF g
<1>2. \A u : IsDir(f, u) /\ ~Under(t, u) => IsDir(g, u)
  BY <1>1 DEF IsDir
<1>3. Tree(g)
  <2>1. DOMAIN g \subseteq Seq(STRING) /\ \A u \in DOMAIN g : g[u] \in {DirNode} \cup Data
    BY <1>1 DEF Tree
  <2>2. ASSUME NEW u \in DOMAIN g, u # <<>>
        PROVE  IsDir(g, Front(u))
    <3>1. IsDir(f, Front(u)) /\ ~Under(t, u) /\ u \in Seq(STRING)
      BY <1>1, <2>2 DEF Tree
    <3>2. Under(Front(u), u) /\ Front(u) \in Seq(STRING)
      BY <2>2, <3>1, FrontUnder
    <3>3. ~Under(t, Front(u))
      BY <3>1, <3>2, UnderTransitive
    <3>4. QED
      BY <1>2, <3>1, <3>3
  <2>3. QED
    BY <2>1, <2>2 DEF Tree
<1>4. ASSUME NEW jl \in Seq(STRING), Under(jl, t)
      PROVE  Within(f, g, jl)
  <2>1. SUFFICES ASSUME NEW u \in Differ(f, g)
                 PROVE  Under(jl, u)
    BY DEF Within
  <2>2. u \in DOMAIN f /\ Under(t, u) /\ u \in Seq(STRING)
    BY <1>1 DEF Differ, Tree
  <2>3. QED
    BY <1>4, <2>2, UnderTransitive
<1>5. QED
  BY <1>2, <1>3, <1>4 DEF g

(* What was below a is below b afterwards, in the same place.              *)
LEMMA RebasedOf ==
  ASSUME NEW a \in Seq(STRING), NEW b \in Seq(STRING), NEW q \in Seq(STRING), Under(a, q)
  PROVE  /\ Rebased(a, b, q) \in Seq(STRING) /\ Under(b, Rebased(a, b, q))
         /\ q = a => Rebased(a, b, q) = b
         /\ q # a => /\ q # <<>> /\ Under(a, Front(q)) /\ Rebased(a, b, q) # <<>>
                     /\ Front(Rebased(a, b, q)) = Rebased(a, b, Front(q))
<1> DEFINE r == SubSeq(q, Len(a) + 1, Len(q))
<1>1. Len(a) \in Nat /\ Len(q) \in Nat /\ Len(b) \in Nat /\ Len(a) <= Len(q)
  BY SeqRange DEF Under
<1>2. Len(a) \in 0..Len(q)
  BY <1>1
<1>3. /\ r \in Seq(STRING) /\ Len(r) = Len(q) - Len(a)
      /\ \A i \in 1..(Len(q) - Len(a)) : r[i] = q[Len(a) + i]
  BY <1>2, RestOf
<1>4. Rebased(a, b, q) = b \o r
  BY DEF Rebased
<1> HIDE DEF r
<1>5. b \o r \in Seq(STRING) /\ Under(b, b \o r)
  BY <1>3, ConcatOf, UnderConcat
<1>6. ASSUME q = a
      PROVE  b \o r = b
  <2>1. Len(r) = 0
    BY <1>1, <1>3, <1>6
  <2>2. r = <<>>
    BY <1>3, <2>1, EmptySeq
  <2>3. QED
    BY <2>2, ConcatEmptySeq
<1>7. ASSUME q # a
      PROVE  /\ q # <<>> /\ Under(a, Front(q)) /\ b \o r # <<>>
             /\ Front(b \o r) = Rebased(a, b, Front(q))
  <2>1. Len(q) # Len(a)
    <3>1. SUFFICES ASSUME Len(q) = Len(a)
                   PROVE  q = a
      BY <1>7
    <3>2. \A i \in 1..Len(a) : q[i] = a[i]
      BY DEF Under
    <3>3. QED
      BY <3>1, <3>2, SeqEqual
  <2>2. Len(q) > Len(a) /\ q # <<>>
    BY <1>1, <2>1, EmptySeq
  <2> DEFINE p == Front(q)
             s == SubSeq(p, Len(a) + 1, Len(p))
  <2>3. /\ p \in Seq(STRING) /\ Len(p) = Len(q) - 1
        /\ \A i \in 1..(Len(q) - 1) : p[i] = q[i]
        /\ Under(a, p)
    <3>1. a = q \/ Under(a, p)
      BY <2>2, FrontUnder
    <3>2. QED
      BY <1>7, <2>2, <3>1, FrontOf
  <2> HIDE DEF p
  <2>4. Len(p) \in Nat /\ Len(a) \in 0..Len(p) /\ Len(p) - Len(a) = Len(r) - 1
    BY <1>1, <1>3, <2>2, <2>3
  <2>5. /\ s \in Seq(STRING) /\ Len(s) = Len(p) - Len(a)
        /\ \A i \in 1..(Len(p) - Len(a)) : s[i] = p[Len(a) + i]
    BY <2>3, <2>4, RestOf
  <2>6. Rebased(a, b, p) = b \o s
    BY DEF Rebased
  <2> HIDE DEF s
  <2>7. r # <<>> /\ Len(r) \in Nat /\ Len(r) >= 1
    BY <1>1, <1>3, <2>2, EmptySeq
  <2>8. s = Front(r)
    <3>1. /\ Front(r) \in Seq(STRING) /\ Len(Front(r)) = Len(r) - 1
          /\ \A i \in 1..(Len(r) - 1) : Front(r)[i] = r[i]
      BY <1>3, <2>7, FrontOf
    <3>2. Len(s) = Len(r) - 1
      BY <2>4, <2>5
    <3>3. ASSUME NEW i \in 1..(Len(r) - 1)
          PROVE  s[i] = r[i]
      <4>1. /\ i \in 1..(Len(p) - Len(a)) /\ i \in 1..(Len(q) - Len(a))
            /\ Len(a) + i \in 1..(Len(q) - 1)
        BY <1>1, <1>3, <2>3, <2>4
      <4>2. QED
        BY <1>3, <2>3, <2>5, <4>1
    <3>4. QED
      BY <2>5, <3>1, <3>2, <3>3, SeqEqual
  <2>9. b \o r # <<>> /\ Front(b \o r) = b \o s
    BY <1>3, <2>7, <2>8, FrontConcat
  <2>10. QED
    BY <2>2, <2>3, <2>6, <2>9 DEF p
<1>8. QED
  BY <1>4, <1>5, <1>6, <1>7

LEMMA RebasedInjective ==
  ASSUME NEW a \in Seq(STRING), NEW b \in Seq(STRING),
         NEW p \in Seq(STRING), Under(a, p), NEW q \in Seq(STRING), Under(a, q),
         Rebased(a, b, p) = Rebased(a, b, q)
  PROVE  p = q
<1> DEFINE u == SubSeq(p, Len(a) + 1, Len(p))
           v == SubSeq(q, Len(a) + 1, Len(q))
<1>1. Len(a) \in Nat /\ Len(p) \in Nat /\ Len(q) \in Nat
      /\ Len(a) <= Len(p) /\ Len(a) <= Len(q)
  BY SeqRange DEF Under
<1>2. Len(a) \in 0..Len(p) /\ Len(a) \in 0..Len(q)
  BY <1>1
<1>3. /\ u \in Seq(STRING) /\ Len(u) = Len(p) - Len(a)
      /\ \A i \in 1..(Len(p) - Len(a)) : u[i] = p[Len(a) + i]
  BY <1>2, RestOf
<1>4. /\ v \in Seq(STRING) /\ Len(v) = Len(q) - Len(a)
      /\ \A i \in 1..(Len(q) - Len(a)) : v[i] = q[Len(a) + i]
  BY <1>2, RestOf
<1>5. b \o u = b \o v
  BY DEF Rebased
<1> HIDE DEF u, v
<1>6. u = v
  BY <1>3, <1>4, <1>5, ConcatSimplifications
<1>7. Len(p) = Len(q)
  BY <1>1, <1>3, <1>4, <1>6
<1>8. ASSUME NEW i \in 1..Len(p)
      PROVE  p[i] = q[i]
  <2>1. CASE i \in 1..Len(a)
    BY <2>1 DEF Under
  <2>2. CASE ~(i \in 1..Len(a))
    <3>1. i - Len(a) \in 1..(Len(p) - Len(a)) /\ i = Len(a) + (i - Len(a))
      BY <1>1, <2>2
    <3>2. u[i - Len(a)] = p[i] /\ v[i - Len(a)] = q[i]
      BY <1>3, <1>4, <1>7, <3>1
    <3>3. QED
      BY <1>6, <3>2
  <2>3. QED
    BY <2>1, <2>2
<1>9. QED
  BY <1>7, <1>8, SeqEqual

LEMMA RenamedTree ==
  ASSUME NEW f, Tree(f), NEW a \in Seq(STRING), NEW b \in Seq(STRING), RenameOk(f, a, b)
  PROVE  /\ Tree(Renamed(f, a, b))
         /\ \A u : IsDir(f, u) /\ ~Under(a, u) => IsDir(Renamed(f, a, b), u)
         /\ \A jl \in Seq(STRING) :
              Under(jl, a) /\ Under(jl, b) => Within(f, Renamed(f, a, b), jl)
<1> DEFINE g == Renamed(f, a, b)
           moved == {q \in DOMAIN f : Under(a, q)}
           kept  == {q \in DOMAIN f : ~Under(a, q) /\ q # b}
           Dest(q) == Rebased(a, b, q)
<1>1. /\ DOMAIN g = kept \cup {Dest(q) : q \in moved}
      /\ \A t \in kept : g[t] = f[t]
      /\ \A t \in {Dest(q) : q \in moved} \ kept :
           g[t] = f[CHOOSE q \in moved : Dest(q) = t]
  BY DEF Renamed
<1> HIDE DEF g
<1>2. /\ a \in DOMAIN f /\ b # <<>> /\ IsDir(f, Front(b)) /\ ~IsDir(f, b)
      /\ IsDir(f, a) => ~Under(a, b)
      /\ Front(b) \in Seq(STRING) /\ Under(Front(b), b)
  BY FrontUnder DEF RenameOk
<1>3. ASSUME NEW q \in moved
      PROVE  q \in Seq(STRING) /\ Dest(q) \in Seq(STRING) /\ Under(b, Dest(q))
  BY RebasedOf DEF Tree
<1>4. ASSUME NEW q \in moved
      PROVE  Dest(q) \notin kept
  <2>1. SUFFICES ASSUME Dest(q) \in DOMAIN f, Dest(q) # b
                 PROVE  FALSE
    OBVIOUS
  <2>2. IsDir(f, b)
    BY <1>3, <2>1, AncestorsAreDirs
  <2>3. QED
    BY <1>2, <2>2
<1>5. ASSUME NEW q \in moved
      PROVE  g[Dest(q)] = f[q]
  <2> DEFINE c == CHOOSE p \in moved : Dest(p) = Dest(q)
  <2>1. c \in moved /\ Dest(c) = Dest(q)
    OBVIOUS
  <2>2. g[Dest(q)] = f[c]
    BY <1>1, <1>4
  <2> HIDE DEF c
  <2>3. c = q
    <3>1. c \in Seq(STRING) /\ q \in Seq(STRING) /\ Under(a, c) /\ Under(a, q)
      BY <2>1 DEF Tree
    <3>2. QED
      BY <2>1, <3>1, RebasedInjective
  <2>4. QED
    BY <2>2, <2>3
<1>6. ASSUME NEW u, IsDir(f, u), ~Under(a, u)
      PROVE  IsDir(g, u)
  <2>1. u \in kept
    BY <1>2, <1>6 DEF IsDir
  <2>2. QED
    BY <1>1, <1>6, <2>1 DEF IsDir
<1>7. ~Under(a, Front(b))
  <2>1. SUFFICES ASSUME Under(a, Front(b))
                 PROVE  FALSE
    OBVIOUS
  <2>2. IsDir(f, a)
    <3>1. CASE a = Front(b)
      BY <1>2, <3>1
    <3>2. CASE a # Front(b)
      <4>1. Front(b) \in DOMAIN f
        BY <1>2 DEF IsDir
      <4>2. QED
        BY <2>1, <3>2, <4>1, AncestorsAreDirs
    <3>3. QED
      BY <3>1, <3>2
  <2>3. Under(a, b)
    BY <1>2, <2>1, UnderTransitive
  <2>4. QED
    BY <1>2, <2>2, <2>3
<1>8. Tree(g)
  <2>1. DOMAIN g \subseteq Seq(STRING)
    BY <1>1, <1>3 DEF Tree
  <2>2. \A u \in DOMAIN g : g[u] \in {DirNode} \cup Data
    BY <1>1, <1>5 DEF Tree
  <2>3. ASSUME NEW u \in kept, u # <<>>
        PROVE  IsDir(g, Front(u))
    <3>1. u \in Seq(STRING) /\ IsDir(f, Front(u))
      BY <2>3 DEF Tree
    <3>2. ~Under(a, Front(u))
      <4>1. Under(Front(u), u) /\ Front(u) \in Seq(STRING)
        BY <2>3, <3>1, FrontUnder
      <4>2. QED
        BY <3>1, <4>1, UnderTransitive
    <3>3. QED
      BY <1>6, <3>1, <3>2
  <2>4. ASSUME NEW q \in moved
        PROVE  IsDir(g, Front(Dest(q)))
    <3>1. CASE q = a
      <4>1. Dest(q) = b
        BY <1>3, <3>1, RebasedOf
      <4>2. QED
        BY <1>2, <1>6, <1>7, <4>1
    <3>2. CASE q # a
      <4>1. q # <<>> /\ Under(a, Front(q)) /\ Front(Dest(q)) = Dest(Front(q))
        BY <1>3, <3>2, RebasedOf
      <4>2. IsDir(f, Front(q))
        BY <4>1 DEF Tree
      <4>3. Front(q) \in moved
        BY <4>1, <4>2 DEF IsDir
      <4>4. Dest(Front(q)) \in DOMAIN g /\ g[Dest(Front(q))] = DirNode
        BY <1>1, <1>5, <4>2, <4>3 DEF IsDir
      <4>5. QED
        BY <4>1, <4>4 DEF IsDir
    <3>3. QED
      BY <3>1, <3>2
  <2>5. \A u \in DOMAIN g : u = <<>> \/ IsDir(g, Front(u))
    BY <1>1, <2>3, <2>4
  <2>6. QED
    BY <2>1, <2>2, <2>5 DEF Tree
<1>9. ASSUME NEW jl \in Seq(STRING), Under(jl, a), Under(jl, b)
      PROVE  Within(f, g, jl)
  <2>1. SUFFICES ASSUME NEW u \in Differ(f, g)
                 PROVE  Under(jl, u)
    BY DEF Within
  <2>2. u \notin kept /\ (u \in DOMAIN f \/ u \in {Dest(q) : q \in moved})
    BY <1>1 DEF Differ
  <2>3. CASE u \in DOMAIN f
    <3>1. u = b \/ (Under(a, u) /\ u \in Seq(STRING))
      BY <2>2, <2>3 DEF Tree
    <3>2. QED
      BY <1>9, <3>1, UnderTransitive
  <2>4. CASE u \in {Dest(q) : q \in moved}
    <3>1. u \in Seq(STRING) /\ Under(b, u)
      BY <1>3, <2>4
    <3>2. QED
      BY <1>9, <3>1, UnderTransitive
  <2>5. QED
    BY <2>2, <2>3, <2>4
<1>10. QED
  BY <1>6, <1>8, <1>9 DEF g

-----------------------------------------------------------------------------
(* Copying a fixture                                                       *)

(* From a tree g comes the tree h, with every directory that was there;    *)
(* and what changed is below d, or leads to it.                            *)
Grows(g, h, d) ==
  /\ Tree(h)
  /\ \A u : IsDir(g, u) => IsDir(h, u)
  /\ \A jl \in Seq(STRING) : Under(jl, d) => Within(g, h, jl)

LEMMA GrowsTransitive ==
  ASSUME NEW f, NEW g, NEW h, NEW d, Grows(f, g, d), Grows(g, h, d)
  PROVE  Grows(f, h, d)
<1>1. \A jl \in Seq(STRING) : Under(jl, d) => Within(f, h, jl)
  BY WithinTransitive DEF Grows
<1>2. QED
  BY <1>1 DEF Grows

LEMMA GrowsBelow ==
  ASSUME NEW g, NEW h, NEW d \in Seq(STRING), NEW s \in Seq(STRING), Grows(g, h, d \o s)
  PROVE  Grows(g, h, d)
<1>1. Under(d, d \o s) /\ d \o s \in Seq(STRING)
  BY UnderConcat, ConcatOf
<1>2. \A jl \in Seq(STRING) : Under(jl, d) => Under(jl, d \o s)
  BY <1>1, UnderTransitive
<1>3. QED
  BY <1>2 DEF Grows

LEMMA NothingGrows == ASSUME NEW f, Tree(f), NEW d PROVE Grows(f, f, d)
BY DEF Grows, Within, Differ

LEMMA MadeGrows ==
  ASSUME NEW f, Tree(f), NEW t \in Seq(STRING)
  PROVE  Grows(f, Made(f, t).tree, t)
<1>1. CASE MkdirAllOk(f, t)
  <2>1. Made(f, t).tree = MkdirAll(f, t)
    BY <1>1 DEF Made
  <2>2. QED
    BY <1>1, <2>1, MkdirAllTree DEF Grows
<1>2. CASE ~MkdirAllOk(f, t)
  <2>1. Made(f, t).tree = f
    BY <1>2 DEF Made
  <2>2. QED
    BY <2>1, NothingGrows
<1>3. QED
  BY <1>1, <1>2

LEMMA WrittenGrows ==
  ASSUME NEW f, Tree(f), NEW t \in Seq(STRING), NEW x \in Data
  PROVE  Grows(f, Written(f, t, x).tree, t)
<1>1. CASE PutOk(f, t)
  <2>1. Written(f, t, x).tree = Put(f, t, x)
    BY <1>1 DEF Written
  <2>2. QED
    BY <1>1, <2>1, PutTree DEF Grows
<1>2. CASE ~PutOk(f, t)
  <2>1. Written(f, t, x).tree = f
    BY <1>2 DEF Written
  <2>2. QED
    BY <2>1, NothingGrows
<1>3. QED
  BY <1>1, <1>2

Item == [at : Seq(STRING), node : {DirNode} \cup Data]

LEMMA CopyGrows ==
  ASSUME NEW c, Tree(c.tree), NEW d \in Seq(STRING), NEW x \in Item
  PROVE  Grows(c.tree, Copy(c, d, x).tree, d)
<1>1. x.at \in Seq(STRING) /\ d \o x.at \in Seq(STRING) /\ (x.node # DirNode => x.node \in Data)
  BY ConcatOf DEF Item
<1>2. CASE ~c.ok
  BY <1>2, NothingGrows DEF Copy
<1>3. CASE c.ok /\ x.node = DirNode
  <2>1. Copy(c, d, x) = Made(c.tree, d \o x.at)
    BY <1>3 DEF Copy
  <2>2. QED
    BY <1>1, <2>1, MadeGrows, GrowsBelow
<1>4. CASE c.ok /\ x.node # DirNode
  <2>1. Copy(c, d, x) = Written(c.tree, d \o x.at, x.node)
    BY <1>4 DEF Copy
  <2>2. QED
    BY <1>1, <1>4, <2>1, WrittenGrows, GrowsBelow
<1>5. QED
  BY <1>2, <1>3, <1>4

(* The recursion of Copied has a solution over every fixture.              *)
Copies(f, d, fx, n, h) ==
  h = [i \in 0..n |-> IF i = 0 THEN Made(f, d) ELSE Copy(h[i - 1], d, fx[i])]

LEMMA CopiesExist ==
  ASSUME NEW f, NEW d, NEW fx, NEW n \in Nat
  PROVE  \E h : Copies(f, d, fx, n, h)
<1> DEFINE T == {m \in 0..n : \E h : Copies(f, d, fx, m, h)}
<1>1. 0 \in T
  <2> DEFINE h == [i \in 0..0 |-> Made(f, d)]
  <2>1. h = [i \in 0..0 |-> IF i = 0 THEN Made(f, d) ELSE Copy(h[i - 1], d, fx[i])]
    OBVIOUS
  <2>2. 0 \in 0..n
    OBVIOUS
  <2>3. Copies(f, d, fx, 0, h)
    BY <2>1 DEF Copies
  <2> HIDE DEF h
  <2>4. QED
    BY <2>2, <2>3
<1>2. ASSUME NEW m \in 1..n, m - 1 \in T
      PROVE  m \in T
  <2>1. PICK g : Copies(f, d, fx, m - 1, g)
    BY <1>2
  <2> DEFINE h == [i \in 0..m |-> IF i = m THEN Copy(g[m - 1], d, fx[m]) ELSE g[i]]
  <2>2. \A i \in 0..m : i # m => i \in 0..(m - 1) /\ h[i] = g[i]
    OBVIOUS
  <2>3. \A i \in 0..(m - 1) :
          g[i] = IF i = 0 THEN Made(f, d) ELSE Copy(g[i - 1], d, fx[i])
    BY <2>1 DEF Copies
  <2>4. \A i \in 0..m : i # 0 => i - 1 \in 0..m /\ i - 1 # m
    OBVIOUS
  <2>5. h[m] = Copy(g[m - 1], d, fx[m]) /\ m # 0 /\ m \in 0..m /\ m \in 0..n
    OBVIOUS
  <2>6. h = [i \in 0..m |-> h[i]]
    OBVIOUS
  <2> HIDE DEF h
  <2>7. \A i \in 0..m : i # 0 => h[i - 1] = g[i - 1]
    BY <2>2, <2>4
  <2>8. \A i \in 0..m : h[i] = IF i = 0 THEN Made(f, d) ELSE Copy(h[i - 1], d, fx[i])
    <3> SUFFICES ASSUME NEW i \in 0..m
                 PROVE  h[i] = IF i = 0 THEN Made(f, d) ELSE Copy(h[i - 1], d, fx[i])
      OBVIOUS
    <3>1. CASE i = m
      BY <2>5, <2>7, <3>1
    <3>2. CASE i # m
      BY <2>2, <2>3, <2>7, <3>2
    <3>3. QED
      BY <3>1, <3>2
  <2>9. Copies(f, d, fx, m, h)
    BY <2>6, <2>8 DEF Copies
  <2>10. QED
    BY <2>5, <2>9
<1>3. T \subseteq 0..n /\ n \in 0..n
  OBVIOUS
<1> HIDE DEF T
<1>4. n \in T
  BY <1>1, <1>2, <1>3, Inherited
<1>5. QED
  BY <1>4 DEF T

LEMMA CopiedGrows ==
  ASSUME NEW f, Tree(f), NEW d \in Seq(STRING), NEW fx \in Seq(Item)
  PROVE  Grows(f, Copied(f, d, fx).tree, d)
<1> DEFINE h == CHOOSE h : Copies(f, d, fx, Len(fx), h)
<1>1. Len(fx) \in Nat /\ \A i \in 1..Len(fx) : fx[i] \in Item
  BY SeqRange
<1>2. Copies(f, d, fx, Len(fx), h)
  <2>1. \E g : Copies(f, d, fx, Len(fx), g)
    BY <1>1, CopiesExist
  <2>2. QED
    BY <2>1
<1>3. Copied(f, d, fx) = h[Len(fx)]
  BY DEF Copied, Copies
<1> HIDE DEF h
<1>4. \A i \in 0..Len(fx) :
        h[i] = IF i = 0 THEN Made(f, d) ELSE Copy(h[i - 1], d, fx[i])
  BY <1>2 DEF Copies
<1> DEFINE T == {i \in 0..Len(fx) : Grows(f, h[i].tree, d)}
<1>5. 0 \in T
  <2>1. 0 \in 0..Len(fx) /\ h[0] = Made(f, d)
    BY <1>1, <1>4
  <2>2. QED
    BY <2>1, MadeGrows
<1>6. ASSUME NEW i \in 1..Len(fx), i - 1 \in T
      PROVE  i \in T
  <2>1. i \in 0..Len(fx) /\ h[i] = Copy(h[i - 1], d, fx[i])
    BY <1>1, <1>4
  <2>2. Grows(f, h[i - 1].tree, d) /\ Tree(h[i - 1].tree)
    BY <1>6 DEF Grows
  <2>3. Grows(h[i - 1].tree, Copy(h[i - 1], d, fx[i]).tree, d)
    BY <1>1, <2>2, CopyGrows
  <2>4. QED
    BY <2>1, <2>2, <2>3, GrowsTransitive
<1>7. T \subseteq 0..Len(fx) /\ Len(fx) \in 0..Len(fx)
  BY <1>1
<1> HIDE DEF T
<1>8. Len(fx) \in T
  BY <1>1, <1>5, <1>6, <1>7, Inherited
<1>9. QED
  BY <1>3, <1>8 DEF T

-----------------------------------------------------------------------------
(* Resolving names                                                         *)

MaybePath == Path \cup {NoPath}

LEMMA ConstantTypes ==
  /\ Empty \in Path /\ Dot \in Path /\ Root \in Path /\ RootUser \in Path
  /\ Cwd \in Path /\ Args \subseteq Path /\ Users \subseteq Path
  /\ Homes \subseteq Path /\ Jails \subseteq Path
  /\ NoPath \notin Path /\ NoPath \notin Seq(STRING)
<1>1. Empty \in Path
  BY EmptySeq DEF Empty, Relv, Path
<1>2. RootUser \in Path
  <2>1. "root" \in STRING
    BY EnvAssumption
  <2>2. <<"root">> \in Seq(STRING)
    BY <2>1
  <2>3. QED
    BY <2>2 DEF RootUser, Relv, Path
<1>3. {Cwd} \cup Jails \cup Homes \cup Users \cup Args \subseteq Path
  BY EnvAssumption
<1>4. QED
  BY <1>1, <1>2, <1>3, DotType, RootType, PathAssumption

LEMMA VarType ==
  ASSUME EnvType, NEW e \in live
  PROVE  /\ e \in Envs /\ env[e] \in EnvFields /\ env[e].map \in {e, "nil"}
         /\ IsMap(Map(e)) /\ \A k : Var(e, k) \in Path
<1>1. e \in Envs
  BY DEF EnvType, Envs
<1>2. env[e] \in EnvFields /\ env[e].map \in {e, "nil"}
  BY <1>1 DEF EnvType
<1>3. IsMap(Map(e))
  <2>1. CASE env[e].map = "nil"
    <3>1. Map(e) = <<>>
      BY <2>1 DEF Map
    <3>2. DOMAIN Map(e) = {}
      BY <3>1
    <3>3. QED
      BY <3>2 DEF IsMap
  <2>2. CASE env[e].map # "nil"
    BY <1>1, <1>2, <2>2 DEF EnvType, Map
  <2>3. QED
    BY <2>1, <2>2
<1>4. \A k : Var(e, k) \in Path
  BY <1>3, ConstantTypes DEF IsMap, Var
<1>5. QED
  BY <1>1, <1>2, <1>3, <1>4

LEMMA HomeType ==
  ASSUME EnvType, NEW e \in live
  PROVE  GetHome(e) \in MaybePath
<1>1. env[e] \in EnvFields /\ \A k : Var(e, k) \in Path
  BY VarType
<1>2. RemoveJailPrefix(env[e].jail, env[e].home) \in Path
  BY <1>1, RemoveJailPrefixType DEF EnvFields
<1>3. OrNone(Var(e, "HOME")) \in MaybePath
  BY <1>1 DEF OrNone, MaybePath
<1>4. QED
  BY <1>2, <1>3 DEF GetHome, MaybePath

LEMMA WdType ==
  ASSUME EnvType, CwdInv, NEW e \in live
  PROVE  Getwd(e) \in MaybePath
BY VarType DEF CwdInv, Getwd, OrNone, MaybePath

LEMMA AtHomeType ==
  ASSUME NEW h \in Path, NEW p \in Path, Tilde(p)
  PROVE  AtHome(h, p) \in Path
<1>1. p.segs \in Seq(STRING) /\ p.segs # <<>>
  BY DEF Tilde, Path
<1>2. Tail(p.segs) \in Seq(STRING)
  BY <1>1, HeadTailProperties
<1>3. Relv(Tail(p.segs)) \in Path
  BY <1>2 DEF Relv, Path
<1>4. QED
  BY <1>3, CleanType, JoinType DEF AtHome

LEMMA ExpandType ==
  ASSUME EnvType, NEW e \in live, NEW p \in Path
  PROVE  EnvExpand(e, p) \in Path /\ ExpandPath(e, p) \in MaybePath
         /\ (p.abs => EnvExpand(e, p) = p)
<1>1. GetHome(e) \in MaybePath
  BY HomeType
<1>2. Or(GetHome(e), Empty) \in Path
  BY <1>1, ConstantTypes DEF Or, MaybePath
<1>3. EnvExpand(e, p) \in Path
  BY <1>2, AtHomeType DEF EnvExpand
<1>4. ExpandPath(e, p) \in MaybePath
  BY <1>1, AtHomeType DEF ExpandPath, MaybePath
<1>5. QED
  BY <1>3, <1>4 DEF EnvExpand, Tilde

LEMMA BasedType ==
  ASSUME NEW dir \in Path, NEW p \in Path
  PROVE  /\ Based(dir, p) \in Path
         /\ dir.abs \/ p.abs => Based(dir, p).abs /\ Settled(Based(dir, p))
<1>1. dir \in PathOf(STRING) /\ p \in PathOf(STRING) /\ Path = PathOf(STRING)
  BY DEF Path, PathOf
<1>2. Join(dir, p) \in Path /\ (dir.abs => Join(dir, p).abs)
  BY <1>1, JoinType, JoinAbs DEF Settled
<1>3. QED
  BY <1>2, CleanType, CleanedAbs DEF Based

LEMMA OsResolveType ==
  ASSUME CwdInv, NEW p \in Path
  PROVE  OsResolve(p) \in Path /\ OsResolve(p).abs
<1>1. cwd \in PathOf(STRING) /\ p \in PathOf(STRING) /\ cwd.abs /\ cwd \in Path
  BY DEF CwdInv, Settled, Path, PathOf
<1>2. Join(cwd, p) \in Path /\ Join(cwd, p).abs
  BY <1>1, JoinType, JoinAbs DEF Settled
<1>3. QED
  BY <1>2 DEF OsResolve

(* ResolvePath answers with a path, and with an absolute one where there   *)
(* is an absolute directory to start from.                                 *)
LEMMA ResolveType ==
  ASSUME EnvType, CwdInv, NEW e \in live, NEW rel \in Path
  PROVE  /\ ResolvePath(e, rel) \in MaybePath
         /\ WdAbsolute(e) => ResolvePath(e, rel) \in Path /\ ResolvePath(e, rel).abs
<1> DEFINE x == EnvExpand(e, rel)
           wd == Getwd(e)
<1>1. x \in Path /\ wd \in MaybePath
  BY ExpandType, WdType
<1>2. WdAbsolute(e) <=> wd # NoPath /\ wd.abs
  BY DEF WdAbsolute
<1>3. ResolvePath(e, rel) =
        IF e = "os" THEN OsResolve(x) ELSE IF Clean(rel) = Dot THEN wd ELSE InWd(wd, x)
  BY DEF ResolvePath
<1> HIDE DEF x, wd
<1>4. OsResolve(x) \in Path /\ OsResolve(x).abs
  BY <1>1, OsResolveType
<1>5. CASE wd = NoPath
  <2>1. Based(wd, x) = Clean(x) \/ ~x.abs
    BY DEF Based
  <2>2. InWd(wd, x) \in MaybePath
    BY <1>1, <1>5, <2>1, CleanType DEF InWd, MaybePath
  <2>3. QED
    BY <1>2, <1>3, <1>4, <1>5, <2>2 DEF MaybePath
<1>6. CASE wd # NoPath
  <2>1. wd \in Path /\ InWd(wd, x) = Based(wd, x)
    BY <1>1, <1>6 DEF InWd, MaybePath
  <2>2. InWd(wd, x) \in Path /\ (wd.abs => InWd(wd, x).abs)
    BY <1>1, <2>1, BasedType
  <2>3. QED
    BY <1>2, <1>3, <1>4, <2>1, <2>2 DEF MaybePath
<1>7. QED
  BY <1>5, <1>6

LEMMA AbsPathType ==
  ASSUME EnvType, CwdInv, NEW e \in live, NEW rel \in Path
  PROVE  AbsPath(e, rel) \in Path
<1> DEFINE dir == Or(Getwd(e), Empty)
           x == Or(ExpandPath(e, rel), rel)
<1>1. dir \in Path /\ x \in Path
  BY ConstantTypes, WdType, ExpandType DEF Or, MaybePath
<1>2. AbsPath(e, rel) = IF rel = Empty THEN Empty ELSE Based(MadeAbs(dir), x)
  BY DEF AbsPath
<1> HIDE DEF dir, x
<1>3. MadeAbs(dir) \in Path
  BY <1>1, JoinType DEF MadeAbs, CwdInv
<1>4. QED
  BY <1>1, <1>2, <1>3, ConstantTypes, BasedType

(* Where the host takes a path that is one.                                *)
LEMMA OsType ==
  ASSUME CwdInv, NEW p \in MaybePath
  PROVE  /\ Os(p) \in Seq(STRING) \cup {NoPath}
         /\ Os(p) # NoPath => p \in Path
         /\ p \in Path => /\ Os(p) \in Seq(STRING) /\ Os(p) = Clean(OsResolve(p)).segs
                          /\ Settled(Abs(Os(p))) /\ Abs(Os(p)) \in Path
         /\ p \in Path /\ p.abs => Os(p) = Clean(p).segs
         /\ p \in Path /\ Settled(p) => Os(p) = p.segs
<1>1. CASE p = NoPath
  BY <1>1, ConstantTypes DEF Os
<1>2. CASE p \in Path
  <2>1. p # NoPath /\ Os(p) = Clean(OsResolve(p)).segs
    BY <1>2, ConstantTypes DEF Os
  <2>2. OsResolve(p) \in Path /\ OsResolve(p).abs
    BY <1>2, OsResolveType
  <2> DEFINE c == Clean(OsResolve(p))
  <2>3. c \in Path /\ Settled(c) /\ c.segs \in Seq(STRING)
    BY <2>2, CleanedAbs
  <2>4. Os(p) = c.segs
    BY <2>1
  <2>5. p.abs => c = Clean(p)
    BY DEF OsResolve
  <2>6. Settled(p) => Clean(p) = p /\ p.abs
    BY <1>2, CleanSettled DEF Path, PathOf, Settled
  <2> HIDE DEF c
  <2>7. Settled(Abs(Os(p))) /\ Abs(Os(p)) \in Path
    BY <2>3, <2>4 DEF Abs, Settled, Path
  <2>8. QED
    BY <1>2, <2>1, <2>3, <2>4, <2>5, <2>6, <2>7 DEF c
<1>3. QED
  BY <1>1, <1>2 DEF MaybePath

-----------------------------------------------------------------------------
(* What a file call hands to the host                                      *)

(* The jail of e as a place of the host, where e has one.                  *)
Jailed(e) == env[e].jail # Empty

LEMMA JailType ==
  ASSUME EnvInv, CwdInv, NEW e \in live
  PROVE  /\ env[e].jail \in Path
         /\ Jailed(e) => e # "os" /\ env[e].jail.abs /\ Os(env[e].jail) \in Seq(STRING)
<1>1. env[e].jail \in Path
  BY VarType DEF EnvInv, EnvFields
<1>2. ASSUME Jailed(e)
      PROVE  e # "os" /\ env[e].jail.abs
  BY <1>2 DEF EnvInv, OsIsBlank, JailsAbsolute, Blank, Jailed
<1>3. Os(env[e].jail) \in Seq(STRING)
  BY <1>1, OsType DEF MaybePath
<1>4. QED
  BY <1>1, <1>2, <1>3

(* A path that is handed over is below the jail, and settled: its elements *)
(* are those of the place.                                                 *)
LEMMA JailPathInJail ==
  ASSUME CwdInv, NEW jl \in Path, NEW r \in MaybePath
  PROVE  /\ JailPath(jl, r) \in MaybePath
         /\ jl.abs /\ JailPath(jl, r) # NoPath =>
              Settled(JailPath(jl, r)) /\ Under(Os(jl), Os(JailPath(jl, r)))
<1>1. CASE r = NoPath
  BY <1>1 DEF JailPath, MaybePath
<1>2. CASE r # NoPath
  <2> DEFINE p == Join(jl, r)
  <2>1. r \in Path /\ p \in Path
    BY <1>2, JoinType DEF MaybePath
  <2>2. JailPath(jl, r) = IF IsInJail(jl, p) THEN p ELSE NoPath
    BY <1>2 DEF JailPath, Checked
  <2>3. jl.abs => Settled(p) /\ p.abs
    BY <2>1, JoinAbs DEF Path, PathOf, Settled
  <2> HIDE DEF p
  <2>4. ASSUME jl.abs, IsInJail(jl, p)
        PROVE  Under(Os(jl), Os(p))
    <3>1. Under(Clean(jl).segs, Clean(p).segs)
      BY <2>1, <2>3, <2>4, InJailUnder
    <3>2. Os(jl) = Clean(jl).segs /\ Os(p) = Clean(p).segs
      BY <2>1, <2>3, <2>4, OsType DEF MaybePath
    <3>3. QED
      BY <3>1, <3>2
  <2>5. QED
    BY <2>1, <2>2, <2>3, <2>4 DEF MaybePath
<1>3. QED
  BY <1>1, <1>2

LEMMA HostInJail ==
  ASSUME EnvInv, CwdInv, NEW e \in live, NEW rel \in Path
  PROVE  /\ Host(e, rel) \in MaybePath
         /\ Os(Host(e, rel)) \in Seq(STRING) \cup {NoPath}
         /\ Jailed(e) /\ Os(Host(e, rel)) # NoPath =>
              /\ Host(e, rel) \in Path /\ Settled(Host(e, rel))
              /\ Under(Os(env[e].jail), Os(Host(e, rel)))
<1>1. ResolvePath(e, rel) \in MaybePath
  BY ResolveType DEF EnvInv
<1> DEFINE p == JailPath(env[e].jail, ResolvePath(e, rel))
<1>2. env[e].jail \in Path /\ (Jailed(e) => e # "os" /\ env[e].jail.abs)
  BY JailType
<1>3. /\ p \in MaybePath
      /\ env[e].jail.abs /\ p # NoPath => Settled(p) /\ Under(Os(env[e].jail), Os(p))
  BY <1>1, <1>2, JailPathInJail
<1>4. Host(e, rel) = IF e = "os" THEN OrNone(rel) ELSE p
  BY DEF Host
<1> HIDE DEF p
<1>5. Host(e, rel) \in MaybePath
  BY <1>3, <1>4 DEF OrNone, MaybePath
<1> DEFINE h == Host(e, rel)
<1>6. Jailed(e) => h = p
  BY <1>2, <1>4
<1> HIDE DEF h
<1>7. h \in MaybePath
  BY <1>5 DEF h
<1>8. Os(h) \in Seq(STRING) \cup {NoPath} /\ (Os(h) # NoPath => h \in Path)
  BY <1>7, OsType
<1>9. Jailed(e) /\ Os(h) # NoPath => h \in Path /\ Settled(h) /\ Under(Os(env[e].jail), Os(h))
  <2>1. SUFFICES ASSUME Jailed(e), Os(h) # NoPath
                 PROVE  h \in Path /\ Settled(h) /\ Under(Os(env[e].jail), Os(h))
    OBVIOUS
  <2>2. h \in Path /\ h # NoPath
    BY <1>8, <2>1, ConstantTypes
  <2>3. QED
    BY <1>2, <1>3, <1>6, <2>1, <2>2
<1>10. QED
  BY <1>7, <1>8, <1>9 DEF h

-----------------------------------------------------------------------------
(* What a file call does to the host                                       *)

(* A place that a call may use: none, or one in the jail.                  *)
At(e, t) ==
  /\ t \in Seq(STRING) \cup {NoPath}
  /\ Jailed(e) /\ t # NoPath => Under(Os(env[e].jail), t)

(* What a step that only touches the disk must do.                         *)
Safe(e, f) ==
  /\ Tree(f) /\ IsDir(f, cwd.segs)
  /\ Jailed(e) => Within(fs, f, Os(env[e].jail))

LEMMA GrowsSafe ==
  ASSUME EnvInv, CwdInv, DiskInv, NEW e \in live, NEW t \in Seq(STRING), At(e, t),
         NEW f, Grows(fs, f, t)
  PROVE  Safe(e, f)
<1>1. t # NoPath
  BY ConstantTypes
<1>2. Jailed(e) => Os(env[e].jail) \in Seq(STRING) /\ Under(Os(env[e].jail), t)
  BY <1>1, JailType DEF At
<1>3. QED
  BY <1>2 DEF Grows, Safe, DiskInv

LEMMA MkdirSafe ==
  ASSUME EnvInv, CwdInv, DiskInv, NEW e \in live, NEW t, At(e, t), NEW all \in BOOLEAN,
         MkdirOs(t, all)
  PROVE  Safe(e, fs') /\ UNCHANGED <<live, env, data, cwd>>
<1>1. t \in Seq(STRING) /\ fs' = MkdirAll(fs, t) /\ UNCHANGED <<live, env, data, cwd>>
  BY DEF MkdirOs, OnDisk, At
<1>2. MkdirAllOk(fs, t)
  <2>1. CASE all
    BY <2>1 DEF MkdirOs
  <2>2. CASE ~all
    <3>1. t # <<>> /\ t \notin DOMAIN fs /\ IsDir(fs, Front(t))
      BY <2>2 DEF MkdirOs, MkdirOk
    <3>2. SUFFICES ASSUME NEW q \in Prefixes(t)
                   PROVE  ~IsFile(fs, q)
      BY DEF MkdirAllOk
    <3>3. q \in Seq(STRING) /\ Under(q, t)
      BY <1>1, PrefixUnder
    <3>4. q = t \/ Under(q, Front(t))
      BY <1>1, <3>1, <3>3, FrontUnder
    <3>5. CASE q = t \/ q = Front(t)
      BY <3>1, <3>5 DEF IsFile, IsDir
    <3>6. CASE q # t /\ q # Front(t)
      <4>1. IsDir(fs, q)
        BY <3>1, <3>3, <3>4, <3>6, AncestorsAreDirs DEF DiskInv, IsDir
      <4>2. QED
        BY <4>1 DEF IsFile, IsDir
    <3>7. QED
      BY <3>5, <3>6
  <2>3. QED
    BY <2>1, <2>2
<1>3. Grows(fs, MkdirAll(fs, t), t)
  BY <1>1, <1>2, MkdirAllTree DEF Grows, DiskInv
<1>4. QED
  BY <1>1, <1>3, GrowsSafe

LEMMA RemoveSafe ==
  ASSUME EnvInv, CwdInv, DiskInv, NEW e \in live, NEW t, At(e, t), NEW all \in BOOLEAN,
         RemoveOs(t, all)
  PROVE  Safe(e, fs') /\ UNCHANGED <<live, env, data, cwd>>
<1>1. /\ t \in Seq(STRING) /\ t # NoPath /\ ~Under(t, cwd.segs)
      /\ fs' = Pruned(fs, t) /\ UNCHANGED <<live, env, data, cwd>>
  BY DEF RemoveOs, OnDisk, HoldsCwd, At
<1>2. Jailed(e) => Os(env[e].jail) \in Seq(STRING) /\ Under(Os(env[e].jail), t)
  BY <1>1, JailType DEF At
<1>3. /\ Tree(Pruned(fs, t)) /\ IsDir(Pruned(fs, t), cwd.segs)
      /\ \A jl \in Seq(STRING) : Under(jl, t) => Within(fs, Pruned(fs, t), jl)
  BY <1>1, PrunedTree DEF DiskInv
<1>4. QED
  BY <1>1, <1>2, <1>3 DEF Safe

LEMMA RenameSafe ==
  ASSUME EnvInv, CwdInv, DiskInv, NEW e \in live, NEW a, At(e, a), NEW b, At(e, b),
         RenameOs(a, b)
  PROVE  Safe(e, fs') /\ UNCHANGED <<live, env, data, cwd>>
<1>1. /\ a \in DOMAIN fs /\ b # NoPath /\ RenameOk(fs, a, b) /\ ~Under(a, cwd.segs)
      /\ fs' = Renamed(fs, a, b) /\ UNCHANGED <<live, env, data, cwd>>
  BY DEF RenameOs, OnDisk, HoldsCwd
<1>2. a \in Seq(STRING) /\ a # NoPath /\ b \in Seq(STRING)
  BY <1>1, ConstantTypes DEF DiskInv, Tree, At
<1>3. Jailed(e) => /\ Os(env[e].jail) \in Seq(STRING)
                   /\ Under(Os(env[e].jail), a) /\ Under(Os(env[e].jail), b)
  BY <1>1, <1>2, JailType DEF At
<1>4. /\ Tree(Renamed(fs, a, b)) /\ IsDir(Renamed(fs, a, b), cwd.segs)
      /\ \A jl \in Seq(STRING) :
           Under(jl, a) /\ Under(jl, b) => Within(fs, Renamed(fs, a, b), jl)
  BY <1>1, <1>2, RenamedTree DEF DiskInv
<1>5. QED
  BY <1>1, <1>3, <1>4 DEF Safe

(* The directory a write makes is in the jail, or leads to it.             *)
Beside(e, dir) ==
  /\ dir \in Seq(STRING) \cup {NoPath}
  /\ Jailed(e) /\ dir # NoPath =>
       Under(Os(env[e].jail), dir) \/ Under(dir, Os(env[e].jail))

LEMMA PutSafe ==
  ASSUME EnvInv, CwdInv, DiskInv, NEW e \in live, NEW dir, Beside(e, dir),
         NEW t, At(e, t), NEW d \in Data, MakeAndPut(dir, t, d)
  PROVE  Safe(e, fs') /\ UNCHANGED <<live, env, data, cwd>>
<1> DEFINE g == MkdirAll(fs, dir)
<1>1. /\ dir \in Seq(STRING) /\ dir # NoPath /\ MkdirAllOk(fs, dir)
      /\ fs' = (IF CanPut(dir, t) THEN Put(g, t, d) ELSE g)
      /\ UNCHANGED <<live, env, data, cwd>>
  BY DEF MakeAndPut, CanMake, OnDisk, Beside
<1>2. /\ Tree(g) /\ IsDir(g, cwd.segs)
      /\ \A jl \in Seq(STRING) : Under(jl, dir) \/ Under(dir, jl) => Within(fs, g, jl)
  BY <1>1, MkdirAllTree DEF DiskInv
<1>3. CanPut(dir, t) => t \in Seq(STRING) /\ t # NoPath /\ PutOk(g, t)
  BY DEF CanPut, At
<1> HIDE DEF g
<1>4. Jailed(e) => Os(env[e].jail) \in Seq(STRING) /\ Within(fs, g, Os(env[e].jail))
  BY <1>1, <1>2, JailType DEF Beside
<1>5. CASE ~CanPut(dir, t)
  BY <1>1, <1>2, <1>4, <1>5 DEF Safe
<1>6. CASE CanPut(dir, t)
  <2>1. /\ Tree(Put(g, t, d)) /\ IsDir(Put(g, t, d), cwd.segs)
        /\ \A jl \in Seq(STRING) : Under(jl, t) => Within(g, Put(g, t, d), jl)
    BY <1>2, <1>3, <1>6, PutTree
  <2>2. Jailed(e) => Within(g, Put(g, t, d), Os(env[e].jail))
    BY <1>3, <1>4, <1>6, <2>1 DEF At
  <2>3. Jailed(e) => Within(fs, Put(g, t, d), Os(env[e].jail))
    BY <1>4, <2>2, WithinTransitive
  <2>4. QED
    BY <1>1, <1>6, <2>1, <2>3 DEF Safe
<1>7. QED
  BY <1>5, <1>6

LEMMA HostAt ==
  ASSUME EnvInv, CwdInv, NEW e \in live, NEW rel \in Path
  PROVE  At(e, Os(Host(e, rel))) /\ Beside(e, Os(Host(e, rel)))
BY HostInJail DEF At, Beside

LEMMA WriteAtPlaces ==
  ASSUME EnvInv, CwdInv, NEW e \in live, NEW rel \in Path
  PROVE  Beside(e, WriteAt(e, rel)[1]) /\ At(e, WriteAt(e, rel)[2])
<1> DEFINE p == Target(e, ExpandPath(e, rel))
<1>1. ExpandPath(e, rel) \in MaybePath
  BY ExpandType DEF EnvInv
<1>2. p \in MaybePath
  BY <1>1, AbsPathType DEF Target, EnvInv, MaybePath
<1>3. WriteAt(e, rel) = WritePlaces(e, p)
  BY DEF WriteAt
<1> HIDE DEF p
<1>4. CASE p = NoPath
  <2>1. WriteAt(e, rel)[1] = NoPath /\ WriteAt(e, rel)[2] = NoPath
    BY <1>3, <1>4 DEF WritePlaces
  <2>2. QED
    BY <2>1 DEF At, Beside
<1>5. CASE p # NoPath
  <2>1. p \in Path /\ ParentOf(p) \in Path
    BY <1>2, <1>5, DirType, ConstantTypes DEF MaybePath, ParentOf
  <2>2. WriteAt(e, rel)[1] = Os(Host(e, ParentOf(p))) /\ WriteAt(e, rel)[2] = Os(Host(e, p))
    BY <1>3, <1>5 DEF WritePlaces
  <2>3. QED
    BY <2>1, <2>2, HostAt
<1>6. QED
  BY <1>4, <1>5

(* AtomicWriteFile takes the directory of the host's path: its parent,     *)
(* which leads to the jail where the path is the jail itself.              *)
LEMMA AtomicAtPlaces ==
  ASSUME EnvInv, CwdInv, NEW e \in live, NEW rel \in Path
  PROVE  Beside(e, AtomicAt(e, rel)[1]) /\ At(e, AtomicAt(e, rel)[2])
<1> DEFINE p == AtomicPath(e, rel)
<1>1. AtomicAt(e, rel) = AtomicPlaces(p)
  BY DEF AtomicAt
<1>2. p \in MaybePath
  BY HostInJail, ExpandType DEF AtomicPath, EnvInv, MaybePath
<1>3. Jailed(e) /\ Os(p) # NoPath => Settled(p) /\ Under(Os(env[e].jail), Os(p))
  BY HostInJail, JailType DEF AtomicPath
<1> HIDE DEF p
<1>4. CASE p = NoPath
  <2>1. AtomicAt(e, rel)[1] = NoPath /\ AtomicAt(e, rel)[2] = NoPath
    BY <1>1, <1>4 DEF AtomicPlaces
  <2>2. QED
    BY <2>1 DEF At, Beside
<1>5. CASE p # NoPath
  <2>1. p \in Path /\ Dir(p) \in Path
    BY <1>2, <1>5, DirType DEF MaybePath
  <2>2. AtomicAt(e, rel)[1] = Os(Dir(p)) /\ AtomicAt(e, rel)[2] = Os(p)
    BY <1>1, <1>5 DEF AtomicPlaces
  <2>3. Os(p) \in Seq(STRING) /\ Os(Dir(p)) \in Seq(STRING) /\ Os(p) # NoPath
    BY <2>1, OsType, ConstantTypes DEF MaybePath
  <2>4. At(e, Os(p))
    BY <1>3, <2>3 DEF At
  <2>5. ASSUME Jailed(e)
        PROVE  Under(Os(env[e].jail), Os(Dir(p))) \/ Under(Os(Dir(p)), Os(env[e].jail))
    <3>1. Settled(p) /\ Under(Os(env[e].jail), Os(p)) /\ Os(env[e].jail) \in Seq(STRING)
      BY <1>3, <2>3, <2>5, JailType
    <3>2. Os(p) = p.segs
      BY <2>1, <3>1, OsType DEF MaybePath
    <3>3. Settled(Dir(p)) /\ (p.segs = <<>> => Dir(p) = p)
          /\ (p.segs # <<>> => Dir(p).segs = Front(p.segs))
      BY <2>1, <3>1, DirSettled DEF Path, PathOf
    <3>4. Os(Dir(p)) = Dir(p).segs
      BY <2>1, <3>3, OsType DEF MaybePath
    <3>5. CASE p.segs = <<>>
      BY <3>1, <3>3, <3>5
    <3>6. CASE p.segs # <<>>
      <4>1. p.segs \in Seq(STRING)
        BY <2>1 DEF Path
      <4>2. Under(Front(p.segs), p.segs) /\ Front(p.segs) \in Seq(STRING)
        BY <3>6, <4>1, FrontUnder
      <4>3. QED
        BY <3>1, <3>2, <3>3, <3>4, <3>6, <4>1, <4>2, UnderTotal
    <3>7. QED
      BY <3>5, <3>6
  <2>6. QED
    BY <2>2, <2>3, <2>4, <2>5 DEF Beside
<1>6. QED
  BY <1>4, <1>5

LEMMA FileCallSafe ==
  ASSUME EnvInv, CwdInv, DiskInv, NEW e \in live, FileCall(e)
  PROVE  Safe(e, fs') /\ UNCHANGED <<live, env, data, cwd>>
<1>0. Args \subseteq Path
  BY ConstantTypes
<1>1. CASE \E p \in Args, all \in BOOLEAN : Mkdir(e, p, all)
  BY <1>0, <1>1, HostAt, MkdirSafe DEF Mkdir
<1>2. CASE \E p \in Args, all \in BOOLEAN : RemovePath(e, p, all)
  BY <1>0, <1>2, HostAt, RemoveSafe DEF RemovePath
<1>3. CASE \E p, q \in Args : Rename(e, p, q)
  BY <1>0, <1>3, HostAt, RenameSafe DEF Rename
<1>4. CASE \E p \in Args, d \in Data : WriteFile(e, p, d)
  BY <1>0, <1>4, WriteAtPlaces, PutSafe DEF WriteFile
<1>5. CASE AtomicWriteCall(e)
  BY <1>0, <1>5, AtomicAtPlaces, PutSafe DEF AtomicWriteCall, AtomicWriteFile
<1>6. QED
  BY <1>1, <1>2, <1>3, <1>4, <1>5 DEF FileCall

-----------------------------------------------------------------------------
(* The first states                                                        *)

LEMMA InitDisk == Init => CwdInv /\ DiskInv
<1> SUFFICES ASSUME Init
             PROVE  CwdInv /\ DiskInv
  OBVIOUS
<1>1. cwd = Cwd /\ Cwd \in Path /\ Cwd.abs /\ Clean(Cwd) = Cwd
  BY ConstantTypes, EnvAssumption DEF Init
<1>2. CwdInv
  BY <1>1, CleanedAbs DEF CwdInv
<1> DEFINE D == Jails \cup {Cwd}
<1>3. DOMAIN fs = UNION {Prefixes(d.segs) : d \in D} /\ \A t \in DOMAIN fs : fs[t] = DirNode
  BY DEF Init
<1>4. \A d \in D : d.segs \in Seq(STRING)
  BY ConstantTypes DEF Path
<1>5. ASSUME NEW t \in DOMAIN fs
      PROVE  t \in Seq(STRING) /\ (t # <<>> => IsDir(fs, Front(t)))
  <2>1. PICK d \in D : t \in Prefixes(d.segs)
    BY <1>3
  <2>2. t \in Seq(STRING)
    BY <1>4, <2>1, PrefixUnder
  <2>3. t # <<>> => Front(t) \in Prefixes(d.segs)
    BY <1>4, <2>1, FrontPrefix
  <2>4. QED
    BY <1>3, <2>1, <2>2, <2>3 DEF IsDir
<1>6. cwd.segs \in DOMAIN fs
  BY <1>1, <1>3, <1>4, SelfPrefix
<1>7. QED
  BY <1>2, <1>3, <1>5, <1>6 DEF DiskInv, Tree, IsDir

LEMMA Below ==
  ASSUME NEW p \in Path, NEW s \in Seq(STRING)
  PROVE  Join(p, Relv(s)) \in Path
<1>1. Relv(s) \in Path
  BY DEF Relv, Path
<1>2. QED
  BY <1>1, JoinType

LEMMA NewTestEnvInv ==
  ASSUME NEW jl \in Jails, NEW hm \in Homes, NEW usr \in Users, NewTestEnv(jl, hm, usr)
  PROVE  EnvInv
<1> DEFINE name == IF usr = Empty THEN Relv(<<"testuser">>) ELSE usr
           home == IF hm # Empty THEN hm
                   ELSE IF name = RootUser THEN Abs(<<".root">>)
                   ELSE Join(Abs(<<"home">>), name)
           pwd  == IF hm = Empty /\ name = RootUser THEN Root ELSE home
           tmp  == Join(jl, Relv(<<"tmp">>))
           cfg  == Join(home, Relv(<<".config">>))
           cch  == Join(home, Relv(<<".cache">>))
           dta  == Join(home, Relv(<<".local", "share">>))
           stt  == Join(home, Relv(<<".local", "state">>))
<1>1. /\ live = {"orig"}
      /\ env = [e \in Envs |-> [jail |-> jl, home |-> home, user |-> usr, map |-> e]]
      /\ data = [e \in Envs |->
           [HOME |-> home, USER |-> usr, PWD |-> pwd, TMPDIR |-> tmp,
            XDG_CONFIG_HOME |-> cfg, XDG_CACHE_HOME  |-> cch,
            XDG_DATA_HOME   |-> dta, XDG_STATE_HOME  |-> stt]]
  BY DEF NewTestEnv
<1>2. /\ <<"testuser">> \in Seq(STRING) /\ <<".root">> \in Seq(STRING)
      /\ <<"home">> \in Seq(STRING) /\ <<"tmp">> \in Seq(STRING)
      /\ <<".config">> \in Seq(STRING) /\ <<".cache">> \in Seq(STRING)
      /\ <<".local", "share">> \in Seq(STRING) /\ <<".local", "state">> \in Seq(STRING)
  BY EnvAssumption
<1>3. jl \in Path /\ hm \in Path /\ usr \in Path /\ (jl.abs \/ jl = Empty)
  BY ConstantTypes, EnvAssumption
<1>4. name \in Path
  BY <1>2, <1>3 DEF Relv, Path
<1> HIDE DEF name
<1>5. Abs(<<".root">>) \in Path /\ Abs(<<"home">>) \in Path
  BY <1>2 DEF Abs, Path
<1>6. home \in Path
  BY <1>3, <1>4, <1>5, JoinType
<1> HIDE DEF home
<1>7. pwd \in Path
  BY <1>6, ConstantTypes
<1>8. tmp \in Path /\ cfg \in Path /\ cch \in Path /\ dta \in Path /\ stt \in Path
  BY <1>2, <1>3, <1>6, Below
<1> HIDE DEF pwd, tmp, cfg, cch, dta, stt
<1> DEFINE m == [HOME |-> home, USER |-> usr, PWD |-> pwd, TMPDIR |-> tmp,
                 XDG_CONFIG_HOME |-> cfg, XDG_CACHE_HOME  |-> cch,
                 XDG_DATA_HOME   |-> dta, XDG_STATE_HOME  |-> stt]
<1>9. IsMap(m) /\ "HOME" \in DOMAIN m /\ "USER" \in DOMAIN m
      /\ m["HOME"] = home /\ m["USER"] = usr
  BY <1>3, <1>6, <1>7, <1>8 DEF IsMap, Keys, Xdg
<1>10. data = [e \in Envs |-> m]
  BY <1>1
<1> HIDE DEF m
<1>11. DOMAIN data = Envs /\ \A e \in Envs : data[e] = m
  BY <1>10
<1>12. env \in [Envs -> EnvFields]
  BY <1>1, <1>3, <1>6 DEF EnvFields
<1>13. env["orig"] = [jail |-> jl, home |-> home, user |-> usr, map |-> "orig"]
       /\ "orig" \in Envs /\ "orig" # "nil" /\ "orig" # "os"
  BY <1>1 DEF Envs
<1>14. Map("orig") = m
  BY <1>11, <1>13 DEF Map
<1>15. Var("orig", "HOME") = env["orig"].home /\ Var("orig", "USER") = env["orig"].user
  BY <1>9, <1>13, <1>14 DEF Var
<1>16. EnvType
  BY <1>1, <1>9, <1>11, <1>12, <1>13 DEF EnvType
<1>17. JailsAbsolute /\ FieldsAgree /\ OsIsBlank
  BY <1>1, <1>3, <1>13, <1>15 DEF JailsAbsolute, FieldsAgree, OsIsBlank
<1>18. QED
  BY <1>16, <1>17 DEF EnvInv

LEMMA BlankType ==
  ASSUME NEW m \in Envs \cup {"nil"}
  PROVE  Blank(m) \in EnvFields /\ Blank(m).map = m /\ Blank(m).jail = Empty
         /\ Blank(m).home = Empty /\ Blank(m).user = Empty
BY ConstantTypes DEF Blank, EnvFields

LEMMA InitEnv == Init => EnvInv
<1> SUFFICES ASSUME Init
             PROVE  EnvInv
  OBVIOUS
<1>1. CASE ZeroEnv
  <2>1. live = {"orig"} /\ env = [e \in Envs |-> Blank("nil")] /\ data = [e \in Envs |-> <<>>]
    BY <1>1 DEF ZeroEnv
  <2>2. "orig" \in Envs /\ "orig" # "os"
    BY DEF Envs
  <2>3. env["orig"] = Blank("nil") /\ env \in [Envs -> EnvFields]
    BY <2>1, <2>2, BlankType
  <2>4. IsMap(<<>>) /\ DOMAIN <<>> = {}
    BY DEF IsMap
  <2>5. Map("orig") = <<>>
    BY <2>3, BlankType DEF Map
  <2>6. \A k : Var("orig", k) = Empty
    BY <2>4, <2>5 DEF Var
  <2>7. EnvType
    BY <2>1, <2>3, <2>4, BlankType DEF EnvType
  <2>8. JailsAbsolute /\ FieldsAgree /\ OsIsBlank
    BY <2>1, <2>2, <2>3, <2>6, BlankType DEF JailsAbsolute, FieldsAgree, OsIsBlank
  <2>9. QED
    BY <2>7, <2>8 DEF EnvInv
<1>2. CASE OsEnv
  <2>1. PICK v \in OsVars :
          /\ live = {"os"} /\ env = [e \in Envs |-> Blank("os")]
          /\ data = [e \in Envs |-> v]
    BY <1>2 DEF OsEnv
  <2>2. "os" \in Envs
    BY DEF Envs
  <2>3. env["os"] = Blank("os") /\ env \in [Envs -> EnvFields]
    BY <2>1, <2>2, BlankType
  <2>4. IsMap(v)
    BY EnvAssumption DEF IsMap
  <2>5. EnvType
    BY <2>1, <2>2, <2>3, <2>4, BlankType DEF EnvType
  <2>6. JailsAbsolute /\ FieldsAgree /\ OsIsBlank
    BY <2>1, <2>2, <2>3, BlankType DEF JailsAbsolute, FieldsAgree, OsIsBlank
  <2>7. QED
    BY <2>5, <2>6 DEF EnvInv
<1>3. CASE \E jl \in Jails, hm \in Homes, usr \in Users : NewTestEnv(jl, hm, usr)
  BY <1>3, NewTestEnvInv
<1>4. QED
  BY <1>1, <1>2, <1>3 DEF Init

-----------------------------------------------------------------------------
(* Variables, home, user and working directory                             *)

(* A map with k = v.                                                       *)
Plus(k, v, m) == Over([j \in {k} |-> v], m)

LEMMA OverOne ==
  ASSUME NEW m, IsMap(m), NEW k \in Keys, NEW v \in Path
  PROVE  /\ IsMap(Plus(k, v, m)) /\ DOMAIN Plus(k, v, m) = DOMAIN m \cup {k}
         /\ Plus(k, v, m)[k] = v
         /\ \A j \in DOMAIN m \ {k} : Plus(k, v, m)[j] = m[j]
BY DEF Plus, Over, IsMap

(* What a store does: e's map has k = v, every other environment is as it  *)
(* was.                                                                    *)
Stored(e, r, k, v) ==
  /\ UNCHANGED <<live, cwd, fs>>
  /\ env' = [env EXCEPT ![e] = [r EXCEPT !.map = e]]
  /\ data' = [data EXCEPT ![e] = Plus(k, v, Map(e))]

LEMMA StoreStored ==
  ASSUME EnvType, NEW e \in live, NEW r, r.map = env[e].map, NEW k, NEW v,
         Store(e, r, k, v)
  PROVE  Stored(e, r, k, v)
<1>1. (IF r.map = "nil" THEN e ELSE r.map) = e
  BY VarType
<1>2. QED
  BY <1>1 DEF Store, Stored, Plus

LEMMA StoredMaps ==
  ASSUME EnvType, NEW e \in live, NEW r, NEW k \in Keys, NEW v \in Path,
         r \in EnvFields, Stored(e, r, k, v)
  PROVE  /\ EnvType'
         /\ env'[e] = [r EXCEPT !.map = e]
         /\ Map(e)' = Plus(k, v, Map(e))
         /\ \A j : Var(e, j)' = IF j = k THEN v ELSE Var(e, j)
         /\ \A f \in live \ {e} : env'[f] = env[f] /\ Map(f)' = Map(f)
<1>1. /\ e \in Envs /\ IsMap(Map(e))
      /\ \A f \in live : f \in Envs /\ env[f].map \in {f, "nil"}
      /\ e # "nil"
  BY VarType DEF Envs
<1> DEFINE m == Plus(k, v, Map(e))
           s == [r EXCEPT !.map = e]
<1>2. /\ IsMap(m) /\ DOMAIN m = DOMAIN Map(e) \cup {k} /\ m[k] = v
      /\ \A j \in DOMAIN Map(e) \ {k} : m[j] = Map(e)[j]
  BY <1>1, OverOne
<1>3. s \in EnvFields /\ s.map = e
  BY <1>1 DEF EnvFields
<1>4. live' = live /\ env' = [env EXCEPT ![e] = s] /\ data' = [data EXCEPT ![e] = m]
  BY DEF Stored
<1> HIDE DEF m, s
<1>5. env' \in [Envs -> EnvFields] /\ env'[e] = s /\ \A f \in Envs \ {e} : env'[f] = env[f]
  BY <1>1, <1>3, <1>4 DEF EnvType
<1>6. DOMAIN data' = Envs /\ data'[e] = m /\ \A f \in Envs \ {e} : data'[f] = data[f]
  BY <1>1, <1>4 DEF EnvType
<1>7. Map(e)' = m
  BY <1>1, <1>3, <1>5, <1>6 DEF Map
<1>8. \A f \in live \ {e} : env'[f] = env[f] /\ Map(f)' = Map(f)
  <2>1. SUFFICES ASSUME NEW f \in live \ {e}
                 PROVE  env'[f] = env[f] /\ Map(f)' = Map(f)
    OBVIOUS
  <2>2. f \in Envs \ {e} /\ env[f].map \in {f, "nil"}
    BY <1>1
  <2>3. env'[f] = env[f] /\ data'[f] = data[f]
    BY <1>5, <1>6, <2>2
  <2>4. CASE env[f].map = "nil"
    BY <2>3, <2>4 DEF Map
  <2>5. CASE env[f].map # "nil"
    BY <2>2, <2>3, <2>5 DEF Map
  <2>6. QED
    BY <2>3, <2>4, <2>5
<1>9. \A j : Var(e, j)' = IF j = k THEN v ELSE Var(e, j)
  BY <1>2, <1>7 DEF Var
<1>10. EnvType'
  <2>1. \A f \in live : env'[f].map \in {f, "nil"}
    BY <1>1, <1>3, <1>5
  <2>2. \A n \in Envs : IsMap(data'[n])
    BY <1>2, <1>6 DEF EnvType
  <2>3. live' \in {{"orig"}, {"orig", "clone"}, {"os"}}
    BY <1>4 DEF EnvType
  <2>4. QED
    BY <1>4, <1>5, <1>6, <2>1, <2>2, <2>3 DEF EnvType, IsMap
<1>11. QED
  BY <1>5, <1>7, <1>8, <1>9, <1>10 DEF m, s

(* The record that goes with a store: the fields of a TestEnv follow its   *)
(* map, OsEnv has none.                                                    *)
Follows(e, r, k, v) ==
  /\ r \in EnvFields /\ r.map = env[e].map /\ r.jail = env[e].jail
  /\ e = "os" => r = env[e]
  /\ e # "os" => /\ r.home = IF k = "HOME" THEN v ELSE env[e].home
                 /\ r.user = IF k = "USER" THEN v ELSE env[e].user

AfterStore(e, r, k, v) ==
  /\ EnvInv' /\ UNCHANGED <<live, cwd, fs>>
  /\ env'[e] = [r EXCEPT !.map = e]
  /\ \A j : Var(e, j)' = IF j = k THEN v ELSE Var(e, j)
  /\ \A f \in live \ {e} : env'[f] = env[f] /\ Map(f)' = Map(f)

LEMMA StoreInv ==
  ASSUME EnvInv, NEW e \in live, NEW r, NEW k \in Keys, NEW v \in Path,
         Follows(e, r, k, v), Store(e, r, k, v)
  PROVE  AfterStore(e, r, k, v)
<1>1. EnvType /\ r \in EnvFields /\ r.map = env[e].map
  BY DEF EnvInv, Follows
<1>2. Stored(e, r, k, v)
  BY <1>1, StoreStored
<1>3. /\ EnvType'
      /\ env'[e] = [r EXCEPT !.map = e]
      /\ \A j : Var(e, j)' = IF j = k THEN v ELSE Var(e, j)
      /\ \A f \in live \ {e} : env'[f] = env[f] /\ Map(f)' = Map(f)
  BY <1>1, <1>2, StoredMaps
<1>4. UNCHANGED <<live, cwd, fs>>
  BY <1>2 DEF Stored
<1>5. env'[e].jail = r.jail /\ env'[e].home = r.home /\ env'[e].user = r.user
  BY <1>1, <1>3 DEF EnvFields
<1>6. \A f \in live \ {e} : \A j : Var(f, j)' = Var(f, j)
  BY <1>3 DEF Var
<1>7. JailsAbsolute'
  BY <1>3, <1>4, <1>5 DEF EnvInv, JailsAbsolute, Follows
<1>8. FieldsAgree'
  <2>1. SUFFICES ASSUME NEW f \in live, f # "os"
                 PROVE  Var(f, "HOME")' = env'[f].home /\ Var(f, "USER")' = env'[f].user
    BY <1>4 DEF FieldsAgree
  <2>2. Var(f, "HOME") = env[f].home /\ Var(f, "USER") = env[f].user
    BY <2>1 DEF EnvInv, FieldsAgree
  <2>3. CASE f = e
    BY <1>3, <1>5, <2>1, <2>2, <2>3 DEF Follows
  <2>4. CASE f # e
    BY <1>3, <1>6, <2>2, <2>4
  <2>5. QED
    BY <2>3, <2>4
<1>9. OsIsBlank'
  <2>1. CASE e = "os"
    <3>1. r = Blank("os")
      BY <2>1 DEF EnvInv, OsIsBlank, Follows
    <3>2. env'["os"] = Blank("os")
      BY <1>3, <2>1, <3>1 DEF Blank
    <3>3. QED
      BY <1>4, <3>2 DEF OsIsBlank
  <2>2. CASE e # "os"
    BY <1>3, <1>4, <2>2 DEF EnvInv, OsIsBlank
  <2>3. QED
    BY <2>1, <2>2
<1>10. QED
  BY <1>3, <1>4, <1>7, <1>8, <1>9 DEF EnvInv, AfterStore

(* A directory is neat if it is clean whenever it is absolute.             *)
Neat(v) == v.abs => Settled(v)

(* What every call is shown to do: keep the invariant, change what one     *)
(* environment shows at most, leave an absolute directory absolute, and    *)
(* set no directory that is not neat.                                      *)
Alone(e) == \A f \in live \ {e} : View(f)' = View(f)
WdKept == \A f \in live : WdAbsolute(f) => WdAbsolute(f)' \/ Var(f, "PWD")' = Empty
WdFrom ==
  \A f \in live' \ {"os"} :
    \/ Neat(Var(f, "PWD")')
    \/ \E g \in live \ {"os"} : Var(f, "PWD")' = Var(g, "PWD")
Good(e) == Inv' /\ Alone(e) /\ WdKept /\ WdFrom

LEMMA SameWd ==
  ASSUME NEW f, Var(f, "PWD")' = Var(f, "PWD"), cwd' = cwd
  PROVE  WdAbsolute(f) => WdAbsolute(f)'
BY DEF WdAbsolute, Getwd

LEMMA EmptyNeat == Neat(Empty) /\ ~Empty.abs
BY DEF Neat, Empty, Relv

LEMMA CleanNeat == ASSUME NEW p \in Path PROVE Neat(Clean(p))
BY CleanType, CleanedAbs DEF Neat

LEMMA SameDisk == Inv /\ UNCHANGED <<cwd, fs>> => CwdInv' /\ DiskInv'
BY DEF Inv, CwdInv, DiskInv, Tree, IsDir

LEMMA StoreGood ==
  ASSUME Inv, NEW e \in live, NEW r, NEW k \in Keys, NEW v \in Path,
         Follows(e, r, k, v), Store(e, r, k, v),
         k = "PWD" /\ e # "os" => /\ WdAbsolute(e) => v.abs
                                  /\ Neat(v) \/ v = Var(e, "PWD")
  PROVE  Good(e)
<1>1. /\ EnvInv' /\ UNCHANGED <<live, cwd, fs>>
      /\ \A j : Var(e, j)' = IF j = k THEN v ELSE Var(e, j)
      /\ \A f \in live \ {e} : env'[f] = env[f] /\ Map(f)' = Map(f)
  <2>1. EnvInv
    BY DEF Inv
  <2>2. AfterStore(e, r, k, v)
    BY <2>1, StoreInv
  <2>3. QED
    BY <2>2 DEF AfterStore
<1>2. Inv'
  BY <1>1, SameDisk DEF Inv
<1>3. Alone(e)
  BY <1>1 DEF Alone, View
<1>4. ASSUME NEW f \in live, WdAbsolute(f)
      PROVE  WdAbsolute(f)' \/ Var(f, "PWD")' = Empty
  <2>1. CASE f # e
    <3>1. Var(f, "PWD")' = Var(f, "PWD")
      BY <1>1, <2>1 DEF Var
    <3>2. QED
      BY <1>1, <1>4, <3>1, SameWd
  <2>2. CASE f = e /\ (k # "PWD" \/ e = "os")
    <3>1. CASE e = "os"
      BY <1>1, <1>4, <2>2, <3>1 DEF WdAbsolute, Getwd
    <3>2. CASE e # "os"
      <4>1. Var(f, "PWD")' = Var(f, "PWD")
        BY <1>1, <2>2, <3>2
      <4>2. QED
        BY <1>1, <1>4, <4>1, SameWd
    <3>3. QED
      BY <3>1, <3>2
  <2>3. CASE f = e /\ k = "PWD" /\ e # "os"
    <3>1. Var(f, "PWD")' = v /\ v # NoPath
      BY <1>1, <2>3, ConstantTypes
    <3>2. v.abs
      BY <1>4, <2>3
    <3>3. v # Empty
      BY <3>2 DEF Empty, Relv
    <3>4. QED
      BY <2>3, <3>1, <3>2, <3>3 DEF WdAbsolute, Getwd, OrNone
  <2>4. QED
    BY <2>1, <2>2, <2>3
<1>5. WdFrom
  <2>1. SUFFICES ASSUME NEW f \in live \ {"os"}
                 PROVE  \/ Neat(Var(f, "PWD")')
                        \/ \E g \in live \ {"os"} : Var(f, "PWD")' = Var(g, "PWD")
    BY <1>1 DEF WdFrom
  <2>2. CASE f # e
    <3>1. Var(f, "PWD")' = Var(f, "PWD")
      BY <1>1, <2>2 DEF Var
    <3>2. QED
      BY <3>1
  <2>3. CASE f = e /\ k # "PWD"
    <3>1. Var(f, "PWD")' = Var(f, "PWD")
      BY <1>1, <2>3
    <3>2. QED
      BY <3>1
  <2>4. CASE f = e /\ k = "PWD"
    <3>1. Var(f, "PWD")' = v
      BY <1>1, <2>4
    <3>2. QED
      BY <2>1, <2>4, <3>1
  <2>5. QED
    BY <2>2, <2>3, <2>4
<1>6. QED
  BY <1>2, <1>3, <1>4, <1>5 DEF Good, WdKept

LEMMA SetOtherGood ==
  ASSUME Inv, NEW e \in live, NEW k \in Keys, NEW v \in Path, SetOther(e, k, v),
         e = "os" \/ k \notin {"HOME", "USER", "PWD"}
  PROVE  Good(e)
<1>1. env[e] \in EnvFields
  BY VarType DEF Inv, EnvInv
<1>2. Follows(e, env[e], k, v)
  BY <1>1 DEF Follows
<1>3. QED
  BY <1>2, StoreGood DEF SetOther

LEMMA SetUserGood ==
  ASSUME Inv, NEW e \in live, NEW usr \in Path, SetUser(e, usr)
  PROVE  Good(e)
<1> DEFINE r == IF e = "os" THEN env[e] ELSE [env[e] EXCEPT !.user = usr]
<1>1. env[e] \in EnvFields /\ "USER" \in Keys
  BY VarType DEF Inv, EnvInv, Keys
<1>2. Follows(e, r, "USER", usr)
  BY <1>1 DEF Follows, EnvFields
<1>3. Store(e, r, "USER", usr)
  BY DEF SetUser
<1> HIDE DEF r
<1>4. QED
  BY <1>1, <1>2, <1>3, StoreGood

LEMMA SetHomeGood ==
  ASSUME Inv, NEW e \in live, NEW p \in Path, SetHome(e, p)
  PROVE  Good(e)
<1>1. env[e] \in EnvFields /\ "HOME" \in Keys
  BY VarType DEF Inv, EnvInv, Keys
<1>2. CASE e = "os"
  BY <1>1, <1>2, SetOtherGood DEF SetHome
<1>3. CASE e # "os"
  <2> DEFINE home == Join(env[e].jail, ResolvePath(e, p))
             r == [env[e] EXCEPT !.home = home]
  <2>1. ResolvePath(e, p) # NoPath /\ Store(e, r, "HOME", home)
    BY <1>3 DEF SetHome
  <2>2. home \in Path
    <3>1. ResolvePath(e, p) \in Path
      BY <2>1, ResolveType DEF Inv, EnvInv, MaybePath
    <3>2. QED
      BY <1>1, <3>1, JoinType DEF EnvFields
  <2> HIDE DEF home
  <2>3. Follows(e, r, "HOME", home)
    BY <1>1, <1>3, <2>2 DEF Follows, EnvFields
  <2> HIDE DEF r
  <2>4. QED
    BY <1>1, <2>1, <2>2, <2>3, StoreGood
<1>4. QED
  BY <1>2, <1>3

LEMMA ChdirGood ==
  ASSUME Inv, NEW p \in Path, Chdir(p)
  PROVE  Good("os")
<1>1. /\ IsDir(fs, Os(p)) /\ cwd' = Abs(Os(p)) /\ UNCHANGED <<live, env, data, fs>>
  BY DEF Chdir
<1>2. Abs(Os(p)) \in Path /\ Settled(Abs(Os(p))) /\ Abs(Os(p)).segs = Os(p)
  BY OsType DEF Inv, MaybePath, Abs
<1>3. CwdInv' /\ DiskInv'
  BY <1>1, <1>2 DEF Inv, CwdInv, DiskInv, Tree, IsDir
<1>4. EnvInv'
  BY <1>1 DEF Inv, EnvInv, EnvType, JailsAbsolute, FieldsAgree, OsIsBlank, IsMap, Var, Map
<1>5. Alone("os")
  BY <1>1 DEF Alone, View, Map
<1>6. ASSUME NEW f \in live, WdAbsolute(f)
      PROVE  WdAbsolute(f)'
  <2>1. CASE f = "os"
    BY <1>1, <1>2, <2>1, ConstantTypes DEF WdAbsolute, Getwd, Settled
  <2>2. CASE f # "os"
    BY <1>1, <1>6, <2>2 DEF WdAbsolute, Getwd, Var, Map
  <2>3. QED
    BY <2>1, <2>2
<1>7. WdFrom
  BY <1>1 DEF WdFrom, Var, Map
<1>8. QED
  BY <1>3, <1>4, <1>5, <1>6, <1>7 DEF Good, Inv, WdKept

(* What ResolvePath answers is neat, or the working directory itself.      *)
LEMMA ResolvedNeat ==
  ASSUME EnvType, CwdInv, NEW e \in live, e # "os", NEW rel \in Path
  PROVE  \/ ResolvePath(e, rel) = NoPath \/ Neat(ResolvePath(e, rel))
         \/ ResolvePath(e, rel) = Var(e, "PWD")
<1> DEFINE x == EnvExpand(e, rel)
           wd == Getwd(e)
           y == IF x.abs THEN x ELSE Join(wd, x)
<1>1. x \in Path /\ wd \in MaybePath
  BY ExpandType, WdType
<1>2. ResolvePath(e, rel) = IF Clean(rel) = Dot THEN wd ELSE InWd(wd, x)
  BY DEF ResolvePath
<1>3. wd \in {NoPath, Var(e, "PWD")}
  BY DEF Getwd, OrNone
<1> HIDE DEF x, wd
<1>4. InWd(wd, x) = NoPath \/ (InWd(wd, x) = Clean(y) /\ y \in Path)
  BY <1>1, JoinType DEF InWd, Based, MaybePath
<1> HIDE DEF y
<1>5. QED
  BY <1>2, <1>3, <1>4, CleanNeat

LEMMA SetwdGood ==
  ASSUME Inv, NEW e \in live, NEW dir \in Path, Setwd(e, dir)
  PROVE  Good(e)
<1>1. env[e] \in EnvFields /\ "PWD" \in Keys
  BY VarType DEF Inv, EnvInv, Keys
<1>2. CASE e = "os"
  BY <1>2, ChdirGood DEF Setwd
<1>3. CASE e # "os"
  <2> DEFINE r == ResolvePath(e, dir)
             v == Or(r, Empty)
  <2>1. Store(e, env[e], "PWD", v)
    BY <1>3 DEF Setwd
  <2>2. /\ r \in MaybePath /\ (WdAbsolute(e) => r \in Path /\ r.abs)
        /\ r = NoPath \/ Neat(r) \/ r = Var(e, "PWD")
    BY <1>3, ResolveType, ResolvedNeat DEF Inv, EnvInv
  <2> HIDE DEF r
  <2>3. /\ v \in Path /\ (WdAbsolute(e) => v.abs)
        /\ Neat(v) \/ v = Var(e, "PWD")
    BY <2>2, ConstantTypes, EmptyNeat DEF Or, MaybePath
  <2> HIDE DEF v
  <2>4. Follows(e, env[e], "PWD", v)
    BY <1>1, <1>3 DEF Follows
  <2>5. QED
    BY <1>1, <2>1, <2>3, <2>4, StoreGood
<1>4. QED
  BY <1>2, <1>3

LEMMA SetGood == ASSUME Inv, NEW e \in live, Set(e) PROVE Good(e)
<1>1. Args \subseteq Path /\ Users \subseteq Path /\ Homes \subseteq Path
      /\ Others \subseteq Keys \ {"HOME", "USER", "PWD"}
  BY ConstantTypes, EnvAssumption
<1>2. CASE \E usr \in Users : SetUser(e, usr)
  BY <1>1, <1>2, SetUserGood
<1>3. CASE \E p \in Args : SetHome(e, p)
  BY <1>1, <1>3, SetHomeGood
<1>4. CASE \E p \in Args : Setwd(e, p)
  BY <1>1, <1>4, SetwdGood
<1>5. CASE \E k \in Others, v \in Homes : SetOther(e, k, v)
  BY <1>1, <1>5, SetOtherGood
<1>6. QED
  BY <1>2, <1>3, <1>4, <1>5 DEF Set

LEMMA UnsetGood ==
  ASSUME Inv, NEW e \in live, NEW k, Unset(e, k)
  PROVE  Good(e)
<1> DEFINE h == IF k = "HOME" THEN Empty ELSE env[e].home
           u == IF k = "USER" THEN Empty ELSE env[e].user
           r == [env[e] EXCEPT !.home = h, !.user = u]
           m == [j \in DOMAIN Map(e) \ {k} |-> Map(e)[j]]
<1>1. /\ EnvInv /\ EnvType /\ e \in Envs /\ env[e] \in EnvFields
      /\ env[e].map \in {e, "nil"} /\ IsMap(Map(e)) /\ e # "nil"
      /\ \A f \in live : f \in Envs /\ env[f].map \in {f, "nil"}
  BY VarType DEF Inv, EnvInv, Envs
<1>2. UNCHANGED <<live, cwd, fs>>
  BY DEF Unset
<1>3. h \in Path /\ u \in Path
  BY <1>1, ConstantTypes DEF EnvFields
<1>4. /\ r \in EnvFields /\ r.map = env[e].map /\ r.jail = env[e].jail
      /\ r.home = h /\ r.user = u
  BY <1>1, <1>3 DEF EnvFields
<1>5. env' = [env EXCEPT ![e] = r]
  BY <1>1 DEF Unset, EnvType, EnvFields
<1> HIDE DEF r
<1>6. env' \in [Envs -> EnvFields] /\ env'[e] = r /\ \A f \in Envs \ {e} : env'[f] = env[f]
  BY <1>1, <1>4, <1>5 DEF EnvType
<1>7. /\ Map(e)' = m
      /\ DOMAIN data' = Envs /\ \A n \in Envs : IsMap(data'[n])
      /\ \A f \in Envs \ {e} : data'[f] = data[f]
  <2>1. CASE env[e].map = "nil"
    <3>1. data' = data /\ Map(e) = <<>> /\ Map(e)' = <<>>
      BY <1>4, <1>6, <2>1 DEF Unset, Map
    <3>2. m = <<>>
      BY <3>1
    <3>3. QED
      BY <1>1, <3>1, <3>2 DEF EnvType
  <2>2. CASE env[e].map # "nil"
    <3>1. Map(e) = data[e] /\ env[e].map = e
      BY <1>1, <2>2 DEF Map
    <3>2. data' = [data EXCEPT ![e] = m]
      BY <2>2, <3>1 DEF Unset
    <3>3. IsMap(m)
      BY <1>1 DEF IsMap
    <3> HIDE DEF m
    <3>4. DOMAIN data' = Envs /\ data'[e] = m /\ \A f \in Envs \ {e} : data'[f] = data[f]
      BY <1>1, <3>2 DEF EnvType
    <3>5. \A n \in Envs : IsMap(data'[n])
      BY <1>1, <3>3, <3>4 DEF EnvType
    <3>6. Map(e)' = m
      BY <1>1, <1>4, <1>6, <3>1, <3>4 DEF Map
    <3>7. QED
      BY <3>4, <3>5, <3>6
  <2>3. QED
    BY <2>1, <2>2
<1>8. \A j : Var(e, j)' = IF j = k THEN Empty ELSE Var(e, j)
  BY <1>7 DEF Var
<1> HIDE DEF m
<1>9. ASSUME NEW f \in live \ {e}
      PROVE  /\ env'[f] = env[f] /\ Map(f)' = Map(f)
             /\ \A j : Var(f, j)' = Var(f, j)
  <2>1. env'[f] = env[f] /\ data'[f] = data[f]
    BY <1>1, <1>6, <1>7
  <2>2. Map(f)' = Map(f)
    <3>1. CASE env[f].map = "nil"
      BY <2>1, <3>1 DEF Map
    <3>2. CASE env[f].map = f
      BY <2>1, <3>2 DEF Map
    <3>3. QED
      BY <1>1, <3>1, <3>2
  <2>3. QED
    BY <2>1, <2>2 DEF Var
<1>10. EnvType'
  <2>1. \A f \in live : env'[f].map \in {f, "nil"}
    BY <1>1, <1>4, <1>6
  <2>2. QED
    BY <1>1, <1>2, <1>6, <1>7, <2>1 DEF EnvType, IsMap
<1>11. JailsAbsolute'
  BY <1>1, <1>2, <1>4, <1>6, <1>9 DEF EnvInv, JailsAbsolute
<1>12. FieldsAgree'
  <2>1. SUFFICES ASSUME NEW f \in live, f # "os"
                 PROVE  Var(f, "HOME")' = env'[f].home /\ Var(f, "USER")' = env'[f].user
    BY <1>2 DEF FieldsAgree
  <2>2. Var(f, "HOME") = env[f].home /\ Var(f, "USER") = env[f].user
    BY <1>1, <2>1 DEF EnvInv, FieldsAgree
  <2>3. CASE f = e
    BY <1>4, <1>6, <1>8, <2>2, <2>3
  <2>4. CASE f # e
    BY <1>9, <2>2, <2>4
  <2>5. QED
    BY <2>3, <2>4
<1>13. OsIsBlank'
  <2>1. CASE e = "os"
    <3>1. env[e] = Blank("os")
      BY <1>1, <2>1 DEF EnvInv, OsIsBlank
    <3>2. r = Blank("os")
      <4>1. h = Empty /\ u = Empty
        BY <3>1 DEF Blank
      <4>2. r.jail = Empty /\ r.map = "os" /\ r.home = Empty /\ r.user = Empty
        BY <1>4, <3>1, <4>1 DEF Blank
      <4>3. r = [jail |-> r.jail, home |-> r.home, user |-> r.user, map |-> r.map]
        BY <1>4 DEF EnvFields
      <4>4. QED
        BY <4>2, <4>3 DEF Blank
    <3>3. QED
      BY <1>2, <1>6, <2>1, <3>2 DEF OsIsBlank, Blank
  <2>2. CASE e # "os"
    BY <1>1, <1>2, <1>9, <2>2 DEF EnvInv, OsIsBlank, Blank
  <2>3. QED
    BY <2>1, <2>2
<1>14. Inv'
  BY <1>2, <1>10, <1>11, <1>12, <1>13, SameDisk DEF Inv, EnvInv
<1>15. Alone(e)
  BY <1>9 DEF Alone, View
<1>16. ASSUME NEW f \in live, WdAbsolute(f)
       PROVE  WdAbsolute(f)' \/ Var(f, "PWD")' = Empty
  BY <1>2, <1>8, <1>9, <1>16, SameWd
<1>17. WdFrom
  <2>1. \A f \in live \ {e} : Var(f, "PWD")' = Var(f, "PWD")
    BY <1>9
  <2>2. Var(e, "PWD")' \in {Var(e, "PWD"), Empty}
    BY <1>8
  <2>3. QED
    BY <1>2, <2>1, <2>2, EmptyNeat DEF WdFrom
<1>18. QED
  BY <1>14, <1>15, <1>16, <1>17 DEF Good, WdKept

-----------------------------------------------------------------------------
(* Clones and files                                                        *)

LEMMA CloneGood ==
  ASSUME Inv, NEW e \in live, Clone(e)
  PROVE  Good(e) /\ fs' = fs
<1> DEFINE c == "clone"
           n == IF env[e].map = "nil" THEN "nil" ELSE c
           r == [env[e] EXCEPT !.jail = Empty, !.map = n]
<1>1. EnvInv /\ EnvType /\ e = "orig" /\ "orig" \in Envs /\ c \in Envs
      /\ c \notin live /\ env[e] \in EnvFields /\ IsMap(Map(e))
      /\ UNCHANGED <<cwd, fs>> /\ live' = live \cup {c} /\ "os" \notin live
  BY VarType DEF Inv, EnvInv, Clone, Envs, EnvType
<1>2. /\ r \in EnvFields /\ r.jail = Empty /\ r.map = n
      /\ r.home = env[e].home /\ r.user = env[e].user
  BY <1>1, ConstantTypes DEF EnvFields
<1>3. env' = [env EXCEPT ![c] = r] /\ data' = [data EXCEPT ![c] = Map(e)]
  BY <1>1 DEF Clone, EnvFields
<1> HIDE DEF r
<1>4. /\ env' \in [Envs -> EnvFields] /\ env'[c] = r
      /\ \A f \in Envs \ {c} : env'[f] = env[f]
      /\ DOMAIN data' = Envs /\ data'[c] = Map(e)
      /\ \A f \in Envs \ {c} : data'[f] = data[f]
  BY <1>1, <1>2, <1>3 DEF EnvType
<1>5. live = {e} /\ live' = {e, c} /\ env[e].map \in {e, "nil"}
  BY <1>1 DEF EnvType
<1>6. env'[e] = env[e] /\ data'[e] = data[e]
  BY <1>1, <1>4
<1>7. Map(e)' = Map(e)
  BY <1>1, <1>5, <1>6 DEF Map
<1>8. Map(c)' = Map(e)
  BY <1>1, <1>2, <1>4 DEF Map
<1>9. /\ \A k : Var(e, k)' = Var(e, k)
      /\ \A k : Var(c, k)' = Var(e, k)
  BY <1>7, <1>8 DEF Var
<1>10. EnvType'
  <2>1. \A m \in Envs : IsMap(data'[m])
    BY <1>1, <1>4 DEF EnvType
  <2>2. \A f \in live' : env'[f].map \in {f, "nil"}
    BY <1>2, <1>4, <1>5, <1>6
  <2>3. live' = {"orig", "clone"}
    BY <1>1, <1>5
  <2>4. QED
    BY <1>4, <2>1, <2>2, <2>3 DEF EnvType, IsMap
<1>11. JailsAbsolute'
  BY <1>1, <1>2, <1>4, <1>5, <1>6 DEF EnvInv, JailsAbsolute
<1>12. FieldsAgree'
  BY <1>1, <1>2, <1>4, <1>5, <1>6, <1>9 DEF EnvInv, FieldsAgree
<1>13. OsIsBlank'
  BY <1>1, <1>5 DEF OsIsBlank
<1>14. Inv'
  BY <1>1, <1>10, <1>11, <1>12, <1>13, SameDisk DEF Inv, EnvInv
<1>15. Alone(e)
  BY <1>5 DEF Alone
<1>16. WdAbsolute(e) => WdAbsolute(e)'
  BY <1>1, <1>9, SameWd
<1>17. WdFrom
  <2>1. Var(e, "PWD")' = Var(e, "PWD") /\ Var(c, "PWD")' = Var(e, "PWD") /\ e # "os"
    BY <1>1, <1>9
  <2>2. QED
    BY <1>5, <2>1 DEF WdFrom
<1>18. QED
  BY <1>1, <1>5, <1>14, <1>15, <1>16, <1>17 DEF Good, WdKept

(* A step that only touches the disk.                                      *)
LEMMA OnDiskGood ==
  ASSUME Inv, NEW e \in live, Tree(fs'), IsDir(fs', cwd.segs),
         UNCHANGED <<live, env, data, cwd>>
  PROVE  Good(e)
<1>1. EnvInv'
  BY DEF Inv, EnvInv, EnvType, JailsAbsolute, FieldsAgree, OsIsBlank, IsMap, Var, Map
<1>2. CwdInv' /\ DiskInv'
  BY DEF Inv, CwdInv, DiskInv, Tree, IsDir
<1>3. Alone(e)
  BY DEF Alone, View, Map
<1>4. \A f \in live : WdAbsolute(f) => WdAbsolute(f)'
  BY DEF WdAbsolute, Getwd, Var, Map
<1>5. WdFrom
  BY DEF WdFrom, Var, Map
<1>6. QED
  BY <1>1, <1>2, <1>3, <1>4, <1>5 DEF Good, Inv, WdKept

LEMMA CallGood ==
  ASSUME Inv, NEW e \in live, Call(e)
  PROVE  Good(e)
<1>1. CASE FileCall(e)
  BY <1>1, FileCallSafe, OnDiskGood DEF Safe, Inv
<1>2. CASE \E k \in {"HOME", "USER", "PWD"} \cup Others : Unset(e, k)
  BY <1>2, UnsetGood
<1>3. QED
  BY <1>1, <1>2, CloneGood, SetGood DEF Call

LEMMA FixtureGrows ==
  ASSUME Inv, NEW p \in Path, NEW fixture \in Fixtures, Sb \in live
  PROVE  /\ FixtureDir(p) \in Path /\ Os(FixtureDir(p)) \in Seq(STRING)
         /\ Grows(fs, FixtureCopied(fixture, p).tree, Os(FixtureDir(p)))
<1> DEFINE d == Os(FixtureDir(p))
<1>1. Or(ResolvePath(Sb, p), Empty) \in Path
  BY ResolveType, ConstantTypes DEF Inv, EnvInv, Or, MaybePath
<1>2. env[Sb].jail \in Path
  BY JailType DEF Inv
<1>3. FixtureDir(p) \in Path
  BY <1>1, <1>2, JoinType DEF FixtureDir
<1>4. d \in Seq(STRING)
  BY <1>3, OsType DEF Inv, MaybePath
<1>5. fixture \in Seq(Item)
  BY FixtureAssumption DEF Item
<1>6. FixtureCopied(fixture, p) = Copied(fs, d, fixture)
  BY DEF FixtureCopied
<1> HIDE DEF d
<1>7. Grows(fs, Copied(fs, d, fixture).tree, d)
  BY <1>4, <1>5, CopiedGrows DEF Inv, DiskInv
<1>8. QED
  BY <1>3, <1>4, <1>6, <1>7 DEF d

LEMMA SandboxCallGood ==
  ASSUME Inv, IsSandbox, SandboxCall
  PROVE  Good(Sb)
<1>1. Sb \in live /\ Args \subseteq Path
  BY ConstantTypes DEF IsSandbox
<1>2. CASE \E p \in Args : SandboxSetwd(p)
  <2>1. PICK p \in Args : SandboxSetwd(p)
    BY <1>2
  <2>2. Or(ResolvePath(Sb, p), Empty) \in Path
    BY <1>1, ResolveType, ConstantTypes DEF Inv, EnvInv, Or, MaybePath
  <2>3. QED
    BY <1>1, <2>1, <2>2, SetwdGood DEF SandboxSetwd
<1>3. CASE \E p \in Args, fixture \in Fixtures : WithFixture(fixture, p)
  <2>1. PICK p \in Args, fixture \in Fixtures : WithFixture(fixture, p)
    BY <1>3
  <2>2. UNCHANGED <<live, env, data, cwd>> /\ fs' = FixtureCopied(fixture, p).tree
    BY <2>1 DEF WithFixture, OnDisk
  <2>3. Tree(fs') /\ IsDir(fs', cwd.segs)
    <3>1. Grows(fs, FixtureCopied(fixture, p).tree, Os(FixtureDir(p)))
      BY <1>1, FixtureGrows
    <3>2. QED
      BY <2>2, <3>1 DEF Grows, Inv, DiskInv
  <2>4. QED
    BY <1>1, <2>2, <2>3, OnDiskGood
<1>4. QED
  BY <1>2, <1>3 DEF SandboxCall

LEMMA StepGood ==
  ASSUME Inv, SandboxNext
  PROVE  \E e \in live : Good(e)
BY CallGood, SandboxCallGood DEF SandboxNext, IsSandbox

-----------------------------------------------------------------------------
(* The theorems                                                            *)

LEMMA InitInv == Init => Inv
BY InitEnv, InitDisk DEF Inv

LEMMA StutterInv == Inv /\ UNCHANGED vars => Inv'
<1> SUFFICES ASSUME Inv, UNCHANGED vars
             PROVE  Inv'
  OBVIOUS
<1>1. EnvInv'
  BY DEF vars, Inv, EnvInv, EnvType, JailsAbsolute, FieldsAgree, OsIsBlank, IsMap, Var, Map
<1>2. CwdInv' /\ DiskInv'
  BY DEF vars, Inv, CwdInv, DiskInv, Tree, IsDir
<1>3. QED
  BY <1>1, <1>2 DEF Inv

(* Every call keeps the invariant.                                         *)
THEOREM InvCorrect == SandboxSpec => []Inv
<1>1. Inv /\ [SandboxNext]_vars => Inv'
  <2> SUFFICES ASSUME Inv, [SandboxNext]_vars
               PROVE  Inv'
    OBVIOUS
  <2>1. CASE SandboxNext
    BY <2>1, StepGood DEF Good
  <2>2. CASE UNCHANGED vars
    BY <2>2, StutterInv
  <2>3. QED
    BY <2>1, <2>2
<1>2. QED
  BY <1>1, InitInv, PTL DEF SandboxSpec

(* Fields, maps and files keep their types, an environment points to a map *)
(* of its own or to none, and the host's tree stays a tree, whichever      *)
(* files are made, moved and removed in it.                                *)
THEOREM TypeCorrect == SandboxSpec => []TypeOK
<1>1. Inv => TypeOK
  <2> SUFFICES ASSUME Inv
               PROVE  TypeOK
    OBVIOUS
  <2>1. \A e \in live : env[e].map \in {e, "nil"} /\ DOMAIN Map(e) \subseteq Keys
    BY VarType DEF Inv, EnvInv, IsMap
  <2>2. cwd.abs
    BY DEF Inv, CwdInv, Settled
  <2>3. QED
    BY <2>1, <2>2 DEF TypeOK, Inv, EnvInv, EnvType, DiskInv, Tree
<1>2. QED
  BY <1>1, InvCorrect, PTL

(* Whichever way they are asked for, the variables are the same, because   *)
(* home and user are in the map whenever they are in the fields.           *)
THEOREM ViewsCorrect == SandboxSpec => []ViewsAgree
<1>1. Inv => ViewsAgree
  <2> SUFFICES ASSUME Inv, NEW e \in live
               PROVE  /\ DumpEnv(e) = Environ(e)
                      /\ \A k \in Keys :
                           /\ Has(e, k) <=> k \in DOMAIN Environ(e)
                           /\ Get(e, k) = IF Has(e, k) THEN Environ(e)[k] ELSE Empty
    BY DEF ViewsAgree
  <2>1. /\ env[e] \in EnvFields
        /\ e = "os" => env[e] = Blank("os")
        /\ e # "os" => Var(e, "HOME") = env[e].home /\ Var(e, "USER") = env[e].user
    BY VarType DEF Inv, EnvInv, OsIsBlank, FieldsAgree
  <2> DEFINE h == env[e].home
             u == env[e].user
             F == [HOME |-> h, USER |-> u]
             S == {j \in {"HOME", "USER"} : (IF j = "HOME" THEN h ELSE u) # Empty}
  <2>2. DOMAIN F = {"HOME", "USER"} /\ F["HOME"] = h /\ F["USER"] = u
    OBVIOUS
  <2>3. Fields(e) = [k \in {j \in DOMAIN F : F[j] # Empty} |-> F[k]]
    BY DEF Fields
  <2> HIDE DEF F
  <2>4. /\ DOMAIN Fields(e) = S
        /\ "HOME" \in S => Fields(e)["HOME"] = h
        /\ "USER" \in S => Fields(e)["USER"] = u
    BY <2>2, <2>3
  <2>5. /\ S \subseteq {"HOME", "USER"}
        /\ "HOME" \in S <=> h # Empty
        /\ "USER" \in S <=> u # Empty
    OBVIOUS
  <2> HIDE DEF S
  <2>6. S \subseteq DOMAIN Map(e)
    <3>1. CASE e = "os"
      <4>1. h = Empty /\ u = Empty
        BY <2>1, <3>1 DEF Blank
      <4>2. QED
        BY <2>5, <4>1
    <3>2. CASE e # "os"
      <4>1. h # Empty => "HOME" \in DOMAIN Map(e)
        BY <2>1, <3>2 DEF Var
      <4>2. u # Empty => "USER" \in DOMAIN Map(e)
        BY <2>1, <3>2 DEF Var
      <4>3. QED
        BY <2>5, <4>1, <4>2
    <3>3. QED
      BY <3>1, <3>2
  <2>7. \A k : Get(e, k) = Var(e, k)
    BY <2>1 DEF Get
  <2>8. \A k \in S : Fields(e)[k] = Get(e, k)
    <3>1. ASSUME NEW k \in S
          PROVE  Fields(e)[k] = Get(e, k)
      <4>1. CASE e = "os"
        <5>1. h = Empty /\ u = Empty
          BY <2>1, <4>1 DEF Blank
        <5>2. QED
          BY <2>5, <5>1
      <4>2. CASE e # "os"
        BY <2>4, <2>5, <4>2 DEF Get
      <4>3. QED
        BY <4>1, <4>2
    <3>2. QED
      BY <3>1
  <2> HIDE DEF h, u
  <2>9. /\ DOMAIN Environ(e) = DOMAIN Map(e)
        /\ \A k \in DOMAIN Map(e) : Environ(e)[k] = Get(e, k)
        /\ Environ(e) = [k \in DOMAIN Map(e) |-> Get(e, k)]
    <3>1. DOMAIN Map(e) \cup DOMAIN Fields(e) = DOMAIN Map(e)
      BY <2>4, <2>6
    <3>2. QED
      BY <3>1 DEF Environ
  <2>10. DumpEnv(e) = Environ(e)
    <3>1. DumpEnv(e) = [k \in DOMAIN Fields(e) \cup DOMAIN Map(e) |->
                         IF k \in DOMAIN Fields(e) THEN Fields(e)[k] ELSE Map(e)[k]]
      BY DEF DumpEnv, Over
    <3>2. DOMAIN Fields(e) \cup DOMAIN Map(e) = DOMAIN Map(e)
      BY <2>4, <2>6
    <3>3. \A k \in DOMAIN Map(e) :
            (IF k \in DOMAIN Fields(e) THEN Fields(e)[k] ELSE Map(e)[k]) = Get(e, k)
      <4>1. \A k \in DOMAIN Map(e) : Map(e)[k] = Get(e, k)
        BY <2>7 DEF Var
      <4>2. QED
        BY <2>4, <2>8, <4>1
    <3>4. QED
      BY <2>9, <3>1, <3>2, <3>3
  <2>11. \A k \in Keys :
           /\ Has(e, k) <=> k \in DOMAIN Environ(e)
           /\ Get(e, k) = IF Has(e, k) THEN Environ(e)[k] ELSE Empty
    BY <2>7, <2>9 DEF Has, Var
  <2>12. QED
    BY <2>10, <2>11
<1>2. QED
  BY <1>1, InvCorrect, PTL

(* A call on one environment leaves what the other shows as it was: a      *)
(* clone has a map of its own, made or copied, and never gets another's.   *)
THEOREM ClonesAreIndependent == SandboxSpec => CloneIsIndependent
<1> DEFINE A == \A e \in live :
                  View(e)' # View(e) => \A f \in live \ {e} : View(f)' = View(f)
<1>1. Inv /\ [SandboxNext]_vars => [A]_vars
  <2> SUFFICES ASSUME Inv, SandboxNext
               PROVE  A
    OBVIOUS
  <2>1. PICK e \in live : Alone(e)
    BY StepGood DEF Good
  <2>2. QED
    BY <2>1 DEF Alone
<1>2. QED
  BY <1>1, InvCorrect, PTL DEF SandboxSpec, CloneIsIndependent

(* The working directory of an environment, once absolute, stays so until  *)
(* PWD is unset or set to what does not resolve.                           *)
THEOREM WdCorrect == SandboxSpec => WdStaysAbsolute
<1> DEFINE A == \A e \in live : WdAbsolute(e) => WdAbsolute(e)' \/ Var(e, "PWD")' = Empty
<1>1. Inv /\ [SandboxNext]_vars => [A]_vars
  <2> SUFFICES ASSUME Inv, SandboxNext
               PROVE  A
    OBVIOUS
  <2>1. QED
    BY StepGood DEF Good, WdKept
<1>2. QED
  BY <1>1, InvCorrect, PTL DEF SandboxSpec, WdStaysAbsolute

(* Every file call of an environment with a jail, whatever its variables,  *)
(* working directory and arguments are, changes nothing outside the jail,  *)
(* but for the directories that lead to it.                                *)
THEOREM JailHolds == SandboxSpec => StaysInJail
<1> DEFINE A == fs' = fs \/ \A e \in live : env[e].jail = Empty \/ Confined(e) \/ ~FileCall(e)
<1>1. Inv => A
  <2> SUFFICES ASSUME Inv, NEW e \in live, env[e].jail # Empty, FileCall(e)
               PROVE  Confined(e)
    OBVIOUS
  <2>1. Safe(e, fs')
    BY FileCallSafe DEF Inv
  <2>2. Within(fs, fs', Os(env[e].jail))
    BY <2>1 DEF Safe, Jailed
  <2>3. QED
    BY <2>2 DEF Within, Differ, Confined, Changed
<1>2. QED
  BY <1>1, InvCorrect, PTL DEF SandboxSpec, StaysInJail

-----------------------------------------------------------------------------
(* Where a working directory, a home and a fixture come to lie             *)

(* Homes that are absolute are given clean.  (With the home "/a/../b", "." *)
(* resolves to "/a/../b" first and to "/b" then.)                          *)
CleanHomes == \A hm \in Homes : hm.abs => Clean(hm) = hm
WdNeat == \A f \in live \ {"os"} : Neat(Var(f, "PWD"))

LEMMA InitNeat == CleanHomes /\ Init => WdNeat
<1> SUFFICES ASSUME CleanHomes, Init
             PROVE  WdNeat
  OBVIOUS
<1>1. CASE ZeroEnv
  <2>1. live = {"orig"} /\ env["orig"] = Blank("nil")
    BY <1>1 DEF ZeroEnv, Envs
  <2>2. Map("orig") = <<>>
    BY <2>1 DEF Map, Blank
  <2>3. DOMAIN Map("orig") = {}
    BY <2>2
  <2>4. Var("orig", "PWD") = Empty
    BY <2>3 DEF Var
  <2>5. QED
    BY <2>1, <2>4, EmptyNeat DEF WdNeat
<1>2. CASE OsEnv
  BY <1>2 DEF OsEnv, WdNeat
<1>3. CASE \E jl \in Jails, hm \in Homes, usr \in Users : NewTestEnv(jl, hm, usr)
  <2>1. PICK jl \in Jails, hm \in Homes, usr \in Users : NewTestEnv(jl, hm, usr)
    BY <1>3
  <2> DEFINE name == IF usr = Empty THEN Relv(<<"testuser">>) ELSE usr
             home == IF hm # Empty THEN hm
                     ELSE IF name = RootUser THEN Abs(<<".root">>)
                     ELSE Join(Abs(<<"home">>), name)
             pwd  == IF hm = Empty /\ name = RootUser THEN Root ELSE home
  <2>2. /\ live = {"orig"} /\ env["orig"].map = "orig"
        /\ "PWD" \in DOMAIN data["orig"] /\ data["orig"]["PWD"] = pwd
    BY <2>1 DEF NewTestEnv, Envs
  <2>3. Var("orig", "PWD") = pwd
    BY <2>2 DEF Var, Map
  <2>4. Neat(pwd)
    <3>1. CASE hm = Empty /\ name = RootUser
      <4>1. pwd = Root
        BY <3>1
      <4>2. QED
        BY <4>1, RootType DEF Neat
    <3>2. CASE hm # Empty
      <4>1. pwd = hm /\ hm \in Path
        BY <3>2, ConstantTypes
      <4>2. hm.abs => Settled(hm)
        BY <4>1, CleanedAbs DEF CleanHomes
      <4> HIDE DEF pwd
      <4>3. QED
        BY <4>1, <4>2 DEF Neat
    <3>3. CASE hm = Empty /\ name # RootUser
      <4>1. name \in Path /\ Abs(<<"home">>) \in Path
        <5>1. <<"testuser">> \in Seq(STRING) /\ <<"home">> \in Seq(STRING)
          BY EnvAssumption
        <5>2. QED
          BY <5>1, ConstantTypes DEF Relv, Abs, Path
      <4>2. pwd = Join(Abs(<<"home">>), name)
        BY <3>3
      <4> HIDE DEF pwd, name
      <4>3. Settled(pwd)
        BY <4>1, <4>2, JoinAbs DEF Path, PathOf, Abs
      <4>4. QED
        BY <4>3 DEF Neat
    <3>4. QED
      BY <3>1, <3>2, <3>3
  <2>5. QED
    BY <2>2, <2>3, <2>4 DEF WdNeat
<1>4. QED
  BY <1>1, <1>2, <1>3 DEF Init

LEMMA NeatCorrect == ASSUME CleanHomes PROVE SandboxSpec => [](Inv /\ WdNeat)
<1>1. Inv /\ WdNeat /\ [SandboxNext]_vars => (Inv /\ WdNeat)'
  <2> SUFFICES ASSUME Inv, WdNeat, [SandboxNext]_vars
               PROVE  (Inv /\ WdNeat)'
    OBVIOUS
  <2>1. CASE SandboxNext
    <3>1. PICK e \in live : Good(e)
      BY <2>1, StepGood
    <3>2. QED
      BY <3>1 DEF Good, WdFrom, WdNeat, Neat, Settled
  <2>2. CASE UNCHANGED vars
    BY <2>2, StutterInv DEF vars, WdNeat, Var, Map
  <2>3. QED
    BY <2>1, <2>2
<1>2. Init => Inv /\ WdNeat
  BY InitInv, InitNeat
<1>3. QED
  BY <1>1, <1>2, PTL DEF SandboxSpec

(* From an absolute directory, ResolvePath answers with a clean path.      *)
LEMMA ResolvedSettled ==
  ASSUME Inv, WdNeat, NEW e \in live, e # "os", WdAbsolute(e), NEW rel \in Path
  PROVE  ResolvePath(e, rel) \in Path /\ Settled(ResolvePath(e, rel))
<1>1. ResolvePath(e, rel) \in Path /\ ResolvePath(e, rel).abs
  BY ResolveType DEF Inv, EnvInv
<1>2. Neat(ResolvePath(e, rel))
  BY <1>1, ResolvedNeat, ConstantTypes DEF Inv, EnvInv, WdNeat
<1>3. QED
  BY <1>1, <1>2 DEF Neat

(* What is resolved to an absolute path has its place in the jail, unless  *)
(* the check takes it for a way up.                                        *)
LEMMA JailPlace ==
  ASSUME CwdInv, NEW jl \in Path, jl.abs, NEW r \in Path, Settled(r), ~GoesUp(r)
  PROVE  Os(JailPath(jl, r)) = Os(jl) \o r.segs
<1> DEFINE d == Join(jl, r)
           b == Clean(jl).segs
           t == r.segs
<1>1. r # NoPath /\ t \in Seq(STRING) /\ b \in Seq(STRING) /\ Os(jl) = b
  BY ConstantTypes, CleanedAbs, OsType DEF Path, MaybePath
<1>2. JailPath(jl, r) = IF IsInJail(jl, d) THEN d ELSE NoPath
  BY <1>1 DEF JailPath, Checked
<1>3. d = [abs |-> TRUE, segs |-> b \o t] /\ d \in Path /\ Settled(d)
  <2>1. jl \in PathOf(STRING) /\ r \in PathOf(STRING) /\ Plain(r.segs) /\ Path = PathOf(STRING)
    BY DEF Path, PathOf, Settled
  <2>2. QED
    BY <2>1, JoinPlain, JoinAbs
<1>4. ~(t # <<>> /\ t[1] \in DotDotNames)
  BY DEF GoesUp
<1> HIDE DEF b, t, d
<1>5. d.segs = b \o t /\ d.abs
  <2> DEFINE c == b \o t
  <2>1. d = [abs |-> TRUE, segs |-> c]
    BY <1>3
  <2> HIDE DEF c
  <2>2. QED
    BY <2>1 DEF c
<1>6. Clean(d) = d /\ Os(d) = d.segs
  BY <1>3, CleanSettled, OsType DEF Path, PathOf, MaybePath
<1>7. Len(d.segs) > Len(b) => d.segs[Len(b) + 1] \notin DotDotNames
  <2>1. /\ Len(b \o t) = Len(b) + Len(t) /\ Len(b) \in Nat /\ Len(t) \in Nat
        /\ \A i \in 1..Len(t) : (b \o t)[Len(b) + i] = t[i]
    BY <1>1, ConcatOf, SeqRange
  <2>2. SUFFICES ASSUME Len(b \o t) > Len(b)
                 PROVE  (b \o t)[Len(b) + 1] \notin DotDotNames
    BY <1>5
  <2>3. 1 \in 1..Len(t) /\ Len(t) # 0
    BY <2>1, <2>2
  <2>4. t # <<>>
    BY <2>3
  <2>5. (b \o t)[Len(b) + 1] = t[1]
    BY <2>1, <2>3
  <2>6. QED
    BY <1>4, <2>4, <2>5
<1>8. Under(b, d.segs)
  BY <1>1, <1>5, UnderConcat
<1>9. IsInJail(jl, d)
  BY <1>3, <1>5, <1>6, <1>7, <1>8, FirstInJail DEF b
<1>10. QED
  BY <1>1, <1>2, <1>5, <1>6, <1>9 DEF t

(* What an environment with a jail reads is in the jail, at the place that *)
(* the name resolves to: for homes that are clean.                         *)
THEOREM ReadsCorrect ==
  ASSUME CleanHomes
  PROVE  SandboxSpec => []ReadsItsJail
<1>1. Inv /\ WdNeat => ReadsItsJail
  <2> SUFFICES ASSUME Inv, WdNeat, NEW e \in live, env[e].jail # Empty, NEW p \in Args
               PROVE  /\ ReadFile(fs, e, p) # NoPath =>
                            Under(Os(env[e].jail), Os(Host(e, p)))
                      /\ Resolved(e, p) =>
                           ReadFile(fs, e, p) =
                             Content(fs, Os(env[e].jail) \o ResolvePath(e, p).segs)
    BY DEF ReadsItsJail
  <2> DEFINE r == ResolvePath(e, p)
             jl == env[e].jail
  <2>1. Jailed(e) /\ p \in Path /\ EnvInv /\ EnvType /\ CwdInv
    BY ConstantTypes DEF Jailed, Inv, EnvInv
  <2>2. e # "os" /\ jl \in Path /\ jl.abs
    BY <2>1, JailType
  <2>3. Jailed(e) /\ Os(Host(e, p)) # NoPath => Under(Os(env[e].jail), Os(Host(e, p)))
    BY <2>1, HostInJail
  <2>4. ReadFile(fs, e, p) # NoPath => Os(Host(e, p)) # NoPath
    BY DEF ReadFile, Content
  <2>5. ASSUME Resolved(e, p)
        PROVE  ReadFile(fs, e, p) = Content(fs, Os(jl) \o r.segs)
    <3>1. r # NoPath /\ r.abs /\ ~GoesUp(r)
      BY <2>5 DEF Resolved
    <3>2. r \in Path
      BY <2>1, <3>1, ResolveType DEF MaybePath
    <3>3. Settled(r)
      <4>1. r = NoPath \/ Neat(r) \/ r = Var(e, "PWD")
        BY <2>1, <2>2, ResolvedNeat
      <4>2. Neat(Var(e, "PWD"))
        BY <2>2 DEF WdNeat
      <4> HIDE DEF r
      <4>3. QED
        BY <3>1, <4>1, <4>2 DEF Neat
    <3>4. Host(e, p) = JailPath(jl, r)
      BY <2>2 DEF Host
    <3> HIDE DEF r, jl
    <3>5. Os(JailPath(jl, r)) = Os(jl) \o r.segs
      BY <2>1, <2>2, <3>1, <3>2, <3>3, JailPlace
    <3>6. QED
      BY <3>4, <3>5 DEF ReadFile
  <2>6. QED
    BY <2>1, <2>3, <2>4, <2>5
<1>2. QED
  BY <1>1, NeatCorrect, PTL

(* A path that is absolute and clean resolves to itself.                   *)
LEMMA ResolveAgain ==
  ASSUME NEW e, e # "os", NEW r \in Path, Settled(r)
  PROVE  ResolvePath(e, r) = r
<1>1. r.abs /\ Clean(r) = r
  BY CleanSettled DEF Path, PathOf, Settled
<1>2. r # Dot /\ EnvExpand(e, r) = r
  BY <1>1 DEF Dot, Relv, EnvExpand, Tilde
<1>3. InWd(Getwd(e), r) = r
  BY <1>1 DEF InWd, Based
<1>4. QED
  BY <1>1, <1>2, <1>3 DEF ResolvePath

(* The sandbox resolves a working directory and its environment resolves   *)
(* the result: what is set is what ResolvePath answered at first.          *)
THEOREM SetwdLands ==
  ASSUME CleanHomes
  PROVE  SandboxSpec => SandboxSetwdLands
<1> DEFINE A == UNCHANGED <<live, fs>> /\ IsSandbox =>
                  \A p \in Args :
                    WdAbsolute(Sb) /\ SandboxSetwd(p) => Getwd(Sb)' = ResolvePath(Sb, p)
<1>1. Inv /\ WdNeat => A
  <2> SUFFICES ASSUME Inv, WdNeat, IsSandbox, NEW p \in Args,
                      WdAbsolute(Sb), SandboxSetwd(p)
               PROVE  Getwd(Sb)' = ResolvePath(Sb, p)
    OBVIOUS
  <2> DEFINE r == ResolvePath(Sb, p)
  <2>1. Sb \in live /\ Sb # "os" /\ p \in Path
    BY ConstantTypes DEF IsSandbox, Sb
  <2>2. r \in Path /\ Settled(r)
    BY <2>1, ResolvedSettled
  <2>3. Setwd(Sb, Or(r, Empty))
    BY DEF SandboxSetwd
  <2> HIDE DEF r
  <2>4. r # NoPath /\ r # Empty /\ Or(r, Empty) = r
    BY <2>2, ConstantTypes DEF Or, Empty, Relv, Settled
  <2>5. ResolvePath(Sb, r) = r
    BY <2>1, <2>2, ResolveAgain
  <2>6. Store(Sb, env[Sb], "PWD", r)
    BY <2>1, <2>3, <2>4, <2>5 DEF Setwd
  <2>7. env[Sb] \in EnvFields /\ "PWD" \in Keys /\ EnvInv
    BY <2>1, VarType DEF Inv, EnvInv, Keys
  <2>8. Follows(Sb, env[Sb], "PWD", r)
    BY <2>7 DEF Follows
  <2>9. AfterStore(Sb, env[Sb], "PWD", r)
    BY <2>1, <2>2, <2>6, <2>7, <2>8, StoreInv
  <2>10. Var(Sb, "PWD")' = r
    BY <2>9 DEF AfterStore
  <2>11. QED
    BY <2>1, <2>4, <2>10 DEF Getwd, OrNone, r
<1>2. QED
  BY <1>1, NeatCorrect, PTL DEF SandboxSpec, SandboxSetwdLands

(* The variables that name a kind of directory are neither HOME nor USER.  *)
LEMMA VariablesOf ==
  ASSUME NEW kind \in Kinds
  PROVE  /\ DOMAIN Variables[kind] \subseteq Nat
         /\ \A i \in DOMAIN Variables[kind] : Variables[kind][i] \notin {"HOME", "USER"}
<1>1. /\ Variables["config"] = <<"XDG_CONFIG_HOME", "APPDATA">>
      /\ Variables["cache"] = <<"XDG_CACHE_HOME", "LOCALAPPDATA">>
      /\ Variables["data"] = <<"XDG_DATA_HOME">>
      /\ Variables["state"] = <<"XDG_STATE_HOME">>
  BY DEF Variables
<1>2. kind \in {"config", "cache", "data", "state"}
  BY DEF Kinds
<1>3. QED
  BY <1>1, <1>2

(* If only HOME is set, the same variable is chosen.                       *)
LEMMA ChoiceKept ==
  ASSUME NEW e, NEW kind \in Kinds, \A k : k # "HOME" => Get(e, k)' = Get(e, k)
  PROVE  /\ Chosen(e, kind)' = Chosen(e, kind)
         /\ Chosen(e, kind) # {} =>
              Get(e, FirstChosen(e, kind))' = Get(e, FirstChosen(e, kind))
<1>1. /\ DOMAIN Variables[kind] \subseteq Nat
      /\ \A i \in DOMAIN Variables[kind] : Variables[kind][i] # "HOME"
  BY VariablesOf
<1>2. Chosen(e, kind)' = Chosen(e, kind)
  BY <1>1 DEF Chosen
<1>3. FirstChosen(e, kind)' = FirstChosen(e, kind)
  BY <1>2 DEF FirstChosen
<1>4. ASSUME Chosen(e, kind) # {}
      PROVE  FirstChosen(e, kind) # "HOME"
  <2> DEFINE C == Chosen(e, kind)
             i == Min(C)
  <2>1. C \subseteq DOMAIN Variables[kind]
    BY DEF Chosen
  <2>2. \E x \in C : \A y \in C : x <= y
    BY <1>1, <1>4, <2>1, LeastNat
  <2> HIDE DEF C
  <2>3. i \in C
    BY <2>2 DEF Min
  <2>4. FirstChosen(e, kind) = Variables[kind][i]
    BY DEF FirstChosen, C
  <2> HIDE DEF i
  <2>5. QED
    BY <1>1, <2>1, <2>3, <2>4
<1>5. QED
  BY <1>2, <1>3, <1>4

(* What a new home in the variables and a new answer of GetHome mean.      *)
LEMMA HomeMoved ==
  ASSUME NEW e, NEW home \in Path, GetHome(e)' = home,
         \A k : k # "HOME" => Get(e, k)' = Get(e, k)
  PROVE  MovesTo(e, home)
<1>1. home # NoPath
  BY ConstantTypes
<1>2. ASSUME NEW kind \in Kinds
      PROVE  UserPath(e, kind)' = IF Chosen(e, kind) # {} THEN UserPath(e, kind)
                                  ELSE Join(home, Place[kind])
  <2>1. /\ Chosen(e, kind)' = Chosen(e, kind)
        /\ Chosen(e, kind) # {} =>
             Get(e, FirstChosen(e, kind))' = Get(e, FirstChosen(e, kind))
    BY ChoiceKept
  <2>2. CASE Chosen(e, kind) = {}
    <3>1. UserPath(e, kind)' = BelowHome(e, kind)'
      BY <2>1, <2>2 DEF UserPath
    <3>2. BelowHome(e, kind)' = Join(home, Place[kind])
      BY <1>1 DEF BelowHome
    <3>3. QED
      BY <2>2, <3>1, <3>2
  <2>3. CASE Chosen(e, kind) # {}
    <3>1. UserPath(e, kind) = FromVariable(Get(e, FirstChosen(e, kind)), kind)
      BY <2>3 DEF UserPath
    <3>2. UserPath(e, kind)' = FromVariable(Get(e, FirstChosen(e, kind)), kind)'
      BY <2>1, <2>3 DEF UserPath
    <3>3. FromVariable(Get(e, FirstChosen(e, kind)), kind)'
            = FromVariable(Get(e, FirstChosen(e, kind)), kind)
      BY <2>1, <2>3 DEF FromVariable
    <3>4. QED
      BY <2>3, <3>1, <3>2, <3>3
  <2>4. QED
    BY <2>2, <2>3
<1>3. QED
  BY <1>2 DEF MovesTo

(* Without a jail too, what was joined to it is what is left of it.        *)
LEMMA RemoveNoJail ==
  ASSUME NEW r \in Path, Settled(r)
  PROVE  Join(Empty, r) = r /\ RemoveJailPrefix(Empty, r) = r
<1>1. Clean(r) = r /\ r.abs = TRUE
  BY CleanSettled DEF Path, PathOf, Settled
<1>2. r # Empty /\ r # Dot /\ Dot.abs = FALSE
  BY <1>1 DEF Empty, Dot, Relv
<1>3. Clean(Empty) = Dot
  <2>1. Empty.abs = FALSE /\ Empty.segs = <<>> /\ DOMAIN Empty.segs = {}
    BY DEF Empty, Relv
  <2>2. Simplified(Empty) = <<>>
    BY <2>1 DEF Simplified
  <2>3. QED
    BY <2>1, <2>2 DEF Clean, Named
<1>4. Join(Empty, r) = r
  BY <1>1, <1>2 DEF Join
<1>5. Rel(Dot, r) = NoPath
  BY <1>1, <1>2 DEF Rel
<1>6. QED
  BY <1>1, <1>3, <1>4, <1>5 DEF RemoveJailPrefix, Rooted

(* SetHome stores the host's path of a home, GetHome answers with the name *)
(* the caller resolved; and the directories that no variable names go with *)
(* it.                                                                     *)
THEOREM HomeCorrect ==
  ASSUME CleanHomes
  PROVE  SandboxSpec => HomeMoves
<1> DEFINE A == \A e \in live :
                  Var(e, "HOME")' # Var(e, "HOME") => \A p \in Args :
                    NewHome(e, p) # NoPath /\ SetHome(e, p) => MovesTo(e, NewHome(e, p))
<1>1. Inv /\ WdNeat => A
  <2> SUFFICES ASSUME Inv, WdNeat, NEW e \in live, NEW p \in Args,
                      NewHome(e, p) # NoPath, SetHome(e, p)
               PROVE  MovesTo(e, NewHome(e, p))
    OBVIOUS
  <2>1. p \in Path /\ env[e] \in EnvFields /\ "HOME" \in Keys /\ EnvInv
    BY VarType, ConstantTypes DEF Inv, EnvInv, Keys
  <2>2. CASE e = "os"
    <3>1. NewHome(e, p) = OrNone(p) /\ NewHome(e, p) = p
      BY <2>2 DEF NewHome, OrNone
    <3>2. Store(e, env[e], "HOME", p)
      BY <2>2 DEF SetHome, SetOther
    <3>3. Follows(e, env[e], "HOME", p)
      BY <2>1, <2>2 DEF Follows
    <3>4. AfterStore(e, env[e], "HOME", p)
      BY <2>1, <3>2, <3>3, StoreInv
    <3>5. GetHome(e)' = p
      BY <2>2, <3>1, <3>4 DEF AfterStore, GetHome, OrNone
    <3>6. \A k : k # "HOME" => Get(e, k)' = Get(e, k)
      BY <2>2, <3>4 DEF AfterStore, Get
    <3>7. QED
      BY <2>1, <3>1, <3>5, <3>6, HomeMoved
  <2>3. CASE e # "os"
    <3> DEFINE r == ResolvePath(e, p)
               jl == env[e].jail
               home == Join(jl, r)
               s == [env[e] EXCEPT !.home = home]
    <3>1. NewHome(e, p) = r /\ WdAbsolute(e)
      BY <2>3 DEF NewHome
    <3>2. r \in Path /\ Settled(r)
      BY <2>1, <2>3, <3>1, ResolvedSettled
    <3>3. Store(e, s, "HOME", home)
      BY <2>3 DEF SetHome
    <3>4. jl \in Path /\ (jl.abs \/ jl = Empty)
      BY <2>1 DEF EnvFields, EnvInv, JailsAbsolute
    <3> HIDE DEF r, jl
    <3>5. home \in Path
      BY <3>2, <3>4, JoinType
    <3>6. home # Empty /\ RemoveJailPrefix(jl, home) = r
      <4>1. CASE jl = Empty
        <5>1. home = r /\ RemoveJailPrefix(Empty, r) = r
          BY <3>2, <4>1, RemoveNoJail
        <5>2. QED
          BY <3>2, <4>1, <5>1 DEF Settled, Empty, Relv
      <4>2. CASE jl.abs
        <5>1. RemoveJailPrefix(jl, home) = r
          BY <3>2, <3>4, <4>2, RemoveBelow
        <5>2. home.abs
          BY <3>2, <3>4, <4>2, JoinAbs DEF Path, PathOf, Settled
        <5> HIDE DEF home
        <5>3. QED
          BY <5>1, <5>2 DEF Empty, Relv
      <4>3. QED
        BY <3>4, <4>1, <4>2
    <3> HIDE DEF home
    <3>7. /\ s \in EnvFields /\ s.home = home /\ s.jail = jl /\ s.user = env[e].user
          /\ s.map = env[e].map
      BY <2>1, <3>5 DEF EnvFields, jl
    <3> HIDE DEF s
    <3>8. Follows(e, s, "HOME", home)
      BY <2>1, <2>3, <3>7 DEF Follows, jl
    <3>9. AfterStore(e, s, "HOME", home)
      BY <2>1, <3>3, <3>5, <3>8, StoreInv
    <3>10. /\ env'[e].home = home /\ env'[e].jail = jl /\ env'[e].user = env[e].user
           /\ \A k : k # "HOME" => Var(e, k)' = Var(e, k)
      BY <3>7, <3>9 DEF AfterStore, EnvFields
    <3>11. GetHome(e)' = r
      BY <2>3, <3>6, <3>10 DEF GetHome
    <3>12. \A k : k # "HOME" => Get(e, k)' = Get(e, k)
      BY <2>3, <3>10 DEF Get
    <3>13. MovesTo(e, r)
      BY <3>2, <3>11, <3>12, HomeMoved
    <3>14. QED
      BY <3>1, <3>13
  <2>4. QED
    BY <2>2, <2>3
<1>2. QED
  BY <1>1, NeatCorrect, PTL DEF SandboxSpec, HomeMoves

(* A fixture is not copied by the environment's file calls, and nothing    *)
(* asks whether its directory is in the jail: from an absolute working     *)
(* directory it is.                                                        *)
LEMMA FixturePlace ==
  ASSUME Inv, WdNeat, NEW p \in Path, IsSandbox, WdAbsolute(Sb)
  PROVE  /\ Os(env[Sb].jail) \in Seq(STRING) /\ Os(env[Sb].jail) = Simplified(env[Sb].jail)
         /\ ResolvePath(Sb, p) \in Path /\ Settled(ResolvePath(Sb, p))
         /\ Os(FixtureDir(p)) = Os(env[Sb].jail) \o ResolvePath(Sb, p).segs
<1> DEFINE r == ResolvePath(Sb, p)
           jl == env[Sb].jail
           d == Join(jl, r)
<1>1. Sb \in live /\ Sb # "os" /\ Jailed(Sb)
  BY DEF IsSandbox, Sb, Jailed
<1>2. r \in Path /\ Settled(r)
  BY <1>1, ResolvedSettled
<1>3. jl \in Path /\ jl.abs /\ Os(jl) \in Seq(STRING)
  BY <1>1, JailType DEF Inv
<1>4. FixtureDir(p) = d
  BY <1>2, ConstantTypes DEF FixtureDir, Or
<1> HIDE DEF r, jl
<1>5. /\ d = [abs |-> TRUE, segs |-> Clean(jl).segs \o r.segs]
      /\ d \in Path /\ Settled(d)
  BY <1>2, <1>3, JoinPlain, JoinAbs DEF Path, PathOf, Settled
<1>6. Os(jl) = Clean(jl).segs
  BY <1>3, OsType DEF Inv, MaybePath
<1>7. Clean(jl).segs = Simplified(jl)
  BY <1>3 DEF Clean, Named
<1> HIDE DEF d
<1>8. Os(d) = d.segs
  BY <1>5, OsType DEF Inv, MaybePath
<1>9. Os(d) = Os(jl) \o r.segs
  BY <1>5, <1>6, <1>8
<1>10. QED
  BY <1>2, <1>3, <1>4, <1>6, <1>7, <1>9 DEF jl, r

LEMMA FixtureInJail ==
  ASSUME Inv, WdNeat, NEW p \in Args, NEW fixture \in Fixtures,
         IsSandbox, WdAbsolute(Sb), WithFixture(fixture, p)
  PROVE  Confined(Sb)
<1> DEFINE jl == env[Sb].jail
           d == Os(FixtureDir(p))
           r == ResolvePath(Sb, p).segs
<1>1. p \in Path /\ Sb \in live
  BY ConstantTypes DEF IsSandbox
<1>2. Os(jl) \in Seq(STRING) /\ r \in Seq(STRING) /\ d = Os(jl) \o r
  BY <1>1, FixturePlace DEF Path
<1>3. Grows(fs, FixtureCopied(fixture, p).tree, d)
  BY <1>1, FixtureGrows
<1> HIDE DEF jl, d, r
<1>4. Under(Os(jl), d)
  BY <1>2, UnderConcat
<1>5. fs' = FixtureCopied(fixture, p).tree
  BY DEF WithFixture, OnDisk
<1>6. Within(fs, fs', Os(jl))
  BY <1>2, <1>3, <1>4, <1>5 DEF Grows
<1>7. QED
  BY <1>6 DEF Within, Differ, Confined, Changed, jl

(* So a fixture changes nothing outside the jail.                          *)
THEOREM FixtureConfined ==
  ASSUME CleanHomes
  PROVE  SandboxSpec =>
           [][\A p \in Args, fixture \in Fixtures :
                IsSandbox /\ WdAbsolute(Sb) /\ WithFixture(fixture, p) => Confined(Sb)]_vars
<1> DEFINE A == \A p \in Args, fixture \in Fixtures :
                  IsSandbox /\ WdAbsolute(Sb) /\ WithFixture(fixture, p) => Confined(Sb)
<1>1. Inv /\ WdNeat => A
  BY FixtureInJail
<1>2. QED
  BY <1>1, NeatCorrect, PTL DEF SandboxSpec
-----------------------------------------------------------------------------
(* Where the fields and the working directory of an environment stay       *)

(* All paths a TestEnv keeps are in P.                                     *)
Fit(P) == \A f \in live \ {"os"} : {env[f].jail, env[f].home, Var(f, "PWD")} \subseteq P

(* P has what NewTestEnv makes of its arguments, and what is joined.       *)
Seeds ==
  Jails \cup Homes \cup {Empty, Root, Abs(<<".root">>)}
  \cup {Join(Abs(<<"home">>), usr) : usr \in Users \cup {Relv(<<"testuser">>)}}
Holding(P) == P \subseteq Path /\ Seeds \subseteq P /\ \A a, b \in P : Join(a, b) \in P

(* What a call resolves is in P, or it does not resolve.                   *)
Resolving(P) ==
  \A e \in live \ {"os"} : \A rel \in Args \cup P : ResolvePath(e, rel) \in P \cup {NoPath}

LEMMA InitFits ==
  ASSUME NEW P, Holding(P), Init
  PROVE  Fit(P)
<1>0. Empty \in P
  BY DEF Holding, Seeds
<1>1. CASE ZeroEnv
  <2>1. live = {"orig"} /\ env["orig"] = Blank("nil")
    BY <1>1 DEF ZeroEnv, Envs
  <2>2. Map("orig") = <<>>
    BY <2>1 DEF Map, Blank
  <2>3. DOMAIN Map("orig") = {}
    BY <2>2
  <2>4. Var("orig", "PWD") = Empty
    BY <2>3 DEF Var
  <2>5. env["orig"].jail = Empty /\ env["orig"].home = Empty
    BY <2>1 DEF Blank
  <2>6. QED
    BY <1>0, <2>1, <2>4, <2>5 DEF Fit
<1>2. CASE OsEnv
  BY <1>2 DEF OsEnv, Fit
<1>3. CASE \E jl \in Jails, hm \in Homes, usr \in Users : NewTestEnv(jl, hm, usr)
  <2>1. PICK jl \in Jails, hm \in Homes, usr \in Users : NewTestEnv(jl, hm, usr)
    BY <1>3
  <2> DEFINE name == IF usr = Empty THEN Relv(<<"testuser">>) ELSE usr
             home == IF hm # Empty THEN hm
                     ELSE IF name = RootUser THEN Abs(<<".root">>)
                     ELSE Join(Abs(<<"home">>), name)
             pwd  == IF hm = Empty /\ name = RootUser THEN Root ELSE home
  <2>2. /\ live = {"orig"} /\ env["orig"].map = "orig"
        /\ env["orig"].jail = jl /\ env["orig"].home = home
        /\ "PWD" \in DOMAIN data["orig"] /\ data["orig"]["PWD"] = pwd
    BY <2>1 DEF NewTestEnv, Envs
  <2>3. Var("orig", "PWD") = pwd
    BY <2>2 DEF Var, Map
  <2>4. home \in P
    <3>1. name \in Users \cup {Relv(<<"testuser">>)}
      OBVIOUS
    <3> HIDE DEF name
    <3>2. Join(Abs(<<"home">>), name) \in Seeds
      BY <3>1 DEF Seeds
    <3>3. hm \in Seeds /\ Abs(<<".root">>) \in Seeds
      BY DEF Seeds
    <3>4. home \in Seeds
      BY <3>2, <3>3
    <3> HIDE DEF home
    <3>5. QED
      BY <3>4 DEF Holding
  <2>5. jl \in P /\ Root \in P
    BY DEF Holding, Seeds
  <2> HIDE DEF home, name
  <2>6. pwd \in P
    BY <2>4, <2>5
  <2>7. QED
    BY <2>2, <2>3, <2>4, <2>5, <2>6 DEF Fit
<1>4. QED
  BY <1>1, <1>2, <1>3 DEF Init

LEMMA StoreFits ==
  ASSUME NEW P, P \subseteq Path, Inv, Fit(P), NEW e \in live \ {"os"}, NEW r,
         NEW k \in Keys, NEW v \in Path, Store(e, r, k, v),
         r \in EnvFields, r.map = env[e].map, r.jail \in P, r.home \in P,
         k = "PWD" => v \in P
  PROVE  Fit(P)'
<1>1. EnvType
  BY DEF Inv, EnvInv
<1>2. Stored(e, r, k, v)
  BY <1>1, StoreStored
<1>3. /\ env'[e] = [r EXCEPT !.map = e]
      /\ \A j : Var(e, j)' = IF j = k THEN v ELSE Var(e, j)
      /\ \A f \in live \ {e} : env'[f] = env[f] /\ Map(f)' = Map(f)
  BY <1>1, <1>2, StoredMaps
<1>4. live' = live
  BY <1>2 DEF Stored
<1>5. env'[e].jail = r.jail /\ env'[e].home = r.home
  BY <1>3 DEF EnvFields
<1>6. \A f \in live \ {e} : Var(f, "PWD")' = Var(f, "PWD")
  BY <1>3 DEF Var
<1>7. Var(e, "PWD")' \in P
  BY <1>3 DEF Fit
<1>8. SUFFICES ASSUME NEW f \in live \ {"os"}
               PROVE  env'[f].jail \in P /\ env'[f].home \in P /\ Var(f, "PWD")' \in P
  BY <1>4 DEF Fit
<1>9. CASE f = e
  BY <1>5, <1>7, <1>9
<1>10. CASE f # e
  BY <1>3, <1>6, <1>10 DEF Fit
<1>11. QED
  BY <1>9, <1>10

LEMMA SetwdFits ==
  ASSUME NEW P, Holding(P), Inv, Fit(P), Resolving(P), NEW e \in live \ {"os"},
         NEW dir \in Args \cup P, Setwd(e, dir)
  PROVE  Fit(P)'
<1> DEFINE v == Or(ResolvePath(e, dir), Empty)
<1>1. Empty \in P /\ P \subseteq Path /\ NoPath \notin P
  BY ConstantTypes DEF Holding, Seeds
<1>2. ResolvePath(e, dir) \in P \cup {NoPath}
  BY DEF Resolving
<1>3. v \in P
  BY <1>1, <1>2 DEF Or
<1>4. Store(e, env[e], "PWD", v)
  BY DEF Setwd
<1> HIDE DEF v
<1>5. env[e] \in EnvFields /\ "PWD" \in Keys
  BY VarType DEF Inv, EnvInv, Keys
<1>6. env[e].jail \in P /\ env[e].home \in P
  BY DEF Fit
<1>7. v \in Path
  BY <1>1, <1>3
<1>8. QED
  BY <1>1, <1>3, <1>4, <1>5, <1>6, <1>7, StoreFits

LEMMA SetFits ==
  ASSUME NEW P, Holding(P), Inv, Fit(P), Resolving(P), NEW e \in live \ {"os"}, Set(e)
  PROVE  Fit(P)'
<1>1. /\ Empty \in P /\ P \subseteq Path /\ NoPath \notin P
      /\ env[e] \in EnvFields /\ {"HOME", "USER"} \subseteq Keys
      /\ Args \subseteq Path /\ Users \subseteq Path /\ Homes \subseteq Path
      /\ Others \subseteq Keys \ {"HOME", "USER", "PWD"}
  BY VarType, ConstantTypes, EnvAssumption DEF Inv, EnvInv, Keys, Holding, Seeds
<1>2. env[e].jail \in P /\ env[e].home \in P
  BY DEF Fit
<1>3. ASSUME NEW usr \in Users, SetUser(e, usr)
      PROVE  Fit(P)'
  <2> DEFINE r == [env[e] EXCEPT !.user = usr]
  <2>1. usr \in Path
    BY <1>1
  <2>2. r \in EnvFields /\ r.map = env[e].map /\ r.jail = env[e].jail /\ r.home = env[e].home
    BY <1>1, <2>1 DEF EnvFields
  <2>3. Store(e, r, "USER", usr)
    BY <1>3 DEF SetUser
  <2> HIDE DEF r
  <2>4. QED
    BY <1>1, <1>2, <2>1, <2>2, <2>3, StoreFits
<1>4. ASSUME NEW p \in Args, SetHome(e, p)
      PROVE  Fit(P)'
  <2> DEFINE home == Join(env[e].jail, ResolvePath(e, p))
             r == [env[e] EXCEPT !.home = home]
  <2>1. ResolvePath(e, p) # NoPath /\ Store(e, r, "HOME", home)
    BY <1>4 DEF SetHome
  <2>2. ResolvePath(e, p) \in P
    BY <2>1 DEF Resolving
  <2>3. home \in P
    BY <1>2, <2>2 DEF Holding
  <2> HIDE DEF home
  <2>4. r \in EnvFields /\ r.map = env[e].map /\ r.jail = env[e].jail /\ r.home = home
    BY <1>1, <2>3 DEF EnvFields
  <2> HIDE DEF r
  <2>5. QED
    BY <1>1, <1>2, <2>1, <2>3, <2>4, StoreFits
<1>5. ASSUME NEW p \in Args, Setwd(e, p)
      PROVE  Fit(P)'
  BY <1>5, SetwdFits
<1>6. ASSUME NEW k \in Others, NEW v \in Homes, SetOther(e, k, v)
      PROVE  Fit(P)'
  BY <1>1, <1>2, <1>6, StoreFits DEF SetOther
<1>7. QED
  BY <1>3, <1>4, <1>5, <1>6 DEF Set

LEMMA UnsetFits ==
  ASSUME NEW P, Holding(P), Inv, Fit(P), NEW e \in live \ {"os"}, NEW k, Unset(e, k)
  PROVE  Fit(P)'
<1>1. /\ EnvType /\ e \in Envs /\ Empty \in P
      /\ \A f \in live : f \in Envs /\ env[f].map \in {f, "nil"} /\ env[f] \in EnvFields
  BY VarType DEF Inv, EnvInv, Holding, Seeds
<1>2. live' = live
  BY DEF Unset
<1>3. \A f \in live \ {e} : env'[f] = env[f]
  BY <1>1 DEF Unset, EnvType
<1>4. /\ env'[e].jail = env[e].jail /\ env'[e].home \in {env[e].home, Empty}
      /\ env'[e].map = env[e].map
  BY <1>1 DEF Unset, EnvType, EnvFields
<1>5. ASSUME NEW f \in live \ {e}
      PROVE  Map(f)' = Map(f)
  <2>1. f \in Envs /\ env[f].map \in {f, "nil"} /\ env[e].map \in {e, "nil"} /\ e # "nil"
        /\ f # "nil"
    BY <1>1 DEF Envs
  <2>2. CASE env[e].map = "nil"
    <3>1. data' = data /\ env'[f] = env[f]
      BY <1>3, <2>2 DEF Unset
    <3>2. QED
      BY <3>1 DEF Map
  <2>3. CASE env[e].map = e
    <3>1. data' = [data EXCEPT ![e] = [j \in DOMAIN @ \ {k} |-> @[j]]]
      BY <2>1, <2>3 DEF Unset
    <3>2. data'[f] = data[f]
      BY <1>1, <2>1, <3>1 DEF EnvType
    <3>3. QED
      BY <1>3, <2>1, <3>2 DEF Map
  <2>4. QED
    BY <2>1, <2>2, <2>3
<1>6. Var(e, "PWD")' \in {Var(e, "PWD"), Empty}
  <2>1. CASE env[e].map = "nil"
    BY <1>4, <2>1 DEF Unset, Map, Var
  <2>2. CASE env[e].map # "nil"
    <3>1. env[e].map = e /\ data' = [data EXCEPT ![e] = [j \in DOMAIN @ \ {k} |-> @[j]]]
      BY <1>1, <2>2 DEF Unset
    <3>2. data'[e] = [j \in DOMAIN data[e] \ {k} |-> data[e][j]]
      BY <1>1, <3>1 DEF EnvType
    <3>3. Map(e) = data[e] /\ Map(e)' = data'[e]
      BY <1>4, <2>2, <3>1 DEF Map
    <3>4. QED
      BY <3>2, <3>3 DEF Var
  <2>3. QED
    BY <2>1, <2>2
<1>7. SUFFICES ASSUME NEW f \in live \ {"os"}
               PROVE  env'[f].jail \in P /\ env'[f].home \in P /\ Var(f, "PWD")' \in P
  BY <1>2 DEF Fit
<1>8. CASE f = e
  BY <1>1, <1>4, <1>6, <1>8 DEF Fit
<1>9. CASE f # e
  <2>1. Var(f, "PWD")' = Var(f, "PWD")
    BY <1>5, <1>9 DEF Var
  <2>2. QED
    BY <1>3, <1>9, <2>1 DEF Fit
<1>10. QED
  BY <1>8, <1>9

LEMMA CloneFits ==
  ASSUME NEW P, Holding(P), Inv, Fit(P), NEW e \in live, Clone(e)
  PROVE  Fit(P)'
<1> DEFINE c == "clone"
           r == [env[e] EXCEPT !.jail = Empty, !.map = IF @ = "nil" THEN @ ELSE c]
<1>1. /\ EnvType /\ Empty \in P /\ e = "orig" /\ c \notin live /\ live' = live \cup {c}
      /\ c \in Envs /\ env[e] \in EnvFields /\ env[e].map \in {e, "nil"} /\ e # "nil"
  BY VarType DEF Inv, EnvInv, Holding, Seeds, Clone, Envs
<1>2. env' = [env EXCEPT ![c] = r] /\ data' = [data EXCEPT ![c] = Map(e)]
  BY DEF Clone
<1>3. r.jail = Empty /\ r.home = env[e].home /\ r.map = (IF env[e].map = "nil" THEN "nil" ELSE c)
  BY <1>1 DEF EnvFields
<1> HIDE DEF r
<1>4. /\ env'[c] = r /\ data'[c] = Map(e)
      /\ env'[e] = env[e] /\ data'[e] = data[e]
  BY <1>1, <1>2 DEF EnvType
<1>5. Map(e)' = Map(e) /\ Map(c)' = Map(e)
  BY <1>1, <1>3, <1>4 DEF Map
<1>6. Var(e, "PWD")' = Var(e, "PWD") /\ Var(c, "PWD")' = Var(e, "PWD")
  BY <1>5 DEF Var
<1>7. live \ {"os"} \subseteq {e}
  BY <1>1 DEF EnvType
<1>8. {env[e].jail, env[e].home, Var(e, "PWD")} \subseteq P
  BY <1>1 DEF Fit
<1>9. \A f \in {e, c} :
        env'[f].jail \in P /\ env'[f].home \in P /\ Var(f, "PWD")' \in P
  BY <1>1, <1>3, <1>4, <1>6, <1>8
<1>10. live' \ {"os"} \subseteq {e, c}
  BY <1>1, <1>7
<1>11. QED
  BY <1>9, <1>10 DEF Fit

LEMMA StillFits ==
  ASSUME NEW P, Fit(P), UNCHANGED <<live, env, data>>
  PROVE  Fit(P)'
BY DEF Fit, Var, Map

LEMMA StepFits ==
  ASSUME NEW P, Holding(P), Inv, Fit(P), Resolving(P), SandboxNext
  PROVE  Fit(P)'
<1>1. ASSUME NEW e \in live, Call(e)
      PROVE  Fit(P)'
  <2>1. CASE e = "os"
    <3>1. live = {"os"}
      BY <1>1, <2>1 DEF Inv, EnvInv, EnvType
    <3>2. live' = live
      <4>1. CASE Clone(e)
        BY <2>1, <4>1 DEF Clone
      <4>2. CASE Set(e)
        BY <2>1, <4>2 DEF Set, SetUser, SetHome, SetOther, Setwd, Chdir, Store
      <4>3. CASE FileCall(e)
        BY <4>3, FileCallSafe DEF Inv
      <4>4. CASE \E k \in {"HOME", "USER", "PWD"} \cup Others : Unset(e, k)
        BY <4>4 DEF Unset
      <4>5. QED
        BY <1>1, <4>1, <4>2, <4>3, <4>4 DEF Call
    <3>3. QED
      BY <3>1, <3>2 DEF Fit
  <2>2. CASE e # "os"
    <3>1. CASE Clone(e)
      BY <3>1, CloneFits
    <3>2. CASE Set(e)
      BY <2>2, <3>2, SetFits
    <3>3. CASE FileCall(e)
      BY <3>3, FileCallSafe, StillFits DEF Inv
    <3>4. CASE \E k \in {"HOME", "USER", "PWD"} \cup Others : Unset(e, k)
      BY <2>2, <3>4, UnsetFits
    <3>5. QED
      BY <1>1, <3>1, <3>2, <3>3, <3>4 DEF Call
  <2>3. QED
    BY <2>1, <2>2
<1>2. ASSUME IsSandbox, SandboxCall
      PROVE  Fit(P)'
  <2>1. Sb \in live \ {"os"}
    BY <1>2 DEF IsSandbox, Sb
  <2>2. ASSUME NEW p \in Args, SandboxSetwd(p)
        PROVE  Fit(P)'
    <3>1. ResolvePath(Sb, p) \in P \cup {NoPath} /\ Empty \in P
      BY <2>1 DEF Resolving, Holding, Seeds
    <3>2. Or(ResolvePath(Sb, p), Empty) \in P
      BY <3>1 DEF Or
    <3>3. QED
      BY <2>1, <2>2, <3>2, SetwdFits DEF SandboxSetwd
  <2>3. ASSUME NEW p \in Args, NEW fixture \in Fixtures, WithFixture(fixture, p)
        PROVE  Fit(P)'
    BY <2>3, StillFits DEF WithFixture, OnDisk
  <2>4. QED
    BY <1>2, <2>2, <2>3 DEF SandboxCall
<1>3. QED
  BY <1>1, <1>2 DEF SandboxNext
-----------------------------------------------------------------------------
(* Reading what was written                                                *)

(* No path but one that begins with it has the name "~" in it, and none of *)
(* those is "." when it is taken without a home.                           *)
Untilded == PathOf(STRING \ {"~"})
TildesFirst ==
  /\ Jails \cup Homes \cup Users \subseteq Untilded
  /\ \A p \in Args : p \in Untilded \/ (Tilde(p) /\ Relv(Tail(p.segs)) \in Untilded)
HomesStay == \A p \in Args : Tilde(p) => Clean(p) # Dot

LEMMA UntildedTypes ==
  /\ Dots \subseteq STRING \ {"~"} /\ Untilded \subseteq Path
  /\ Empty \in Untilded /\ NoPath \notin Untilded
  /\ \A p \in Untilded : ~Tilde(p)
  /\ \A a, b \in Untilded : Join(a, b) \in Untilded /\ Clean(a) \in Untilded
<1> DEFINE S == STRING \ {"~"}
<1>1. Dots \subseteq S
  BY PathAssumption DEF Dots
<1>2. S \subseteq STRING /\ "~" \notin S
  OBVIOUS
<1>3. Untilded = PathOf(S)
  BY DEF Untilded
<1> HIDE DEF S
<1>4. Untilded \subseteq Path
  <2>1. Seq(S) \subseteq Seq(STRING)
    BY <1>2, SeqIncluded
  <2>2. QED
    BY <1>3, <2>1 DEF PathOf, Path
<1>5. Empty \in Untilded /\ NoPath \notin Untilded
  BY <1>3, <1>4, EmptyOver, ConstantTypes
<1>6. ASSUME NEW p \in Untilded
      PROVE  ~Tilde(p)
  <2>1. p.segs \in Seq(S)
    BY <1>3 DEF PathOf
  <2>2. p.segs # <<>> => p.segs[1] \in S
    <3>1. Len(p.segs) \in Nat /\ \A i \in 1..Len(p.segs) : p.segs[i] \in S
      BY <2>1, SeqRange
    <3>2. p.segs # <<>> => 1 \in 1..Len(p.segs)
      BY <2>1, <3>1, EmptySeq
    <3>3. QED
      BY <3>1, <3>2
  <2>3. QED
    BY <1>2, <2>2 DEF Tilde
<1>7. \A a, b \in Untilded : Join(a, b) \in Untilded /\ Clean(a) \in Untilded
  BY <1>1, <1>2, <1>3, JoinOver, CleanOver
<1>8. QED
  BY <1>1, <1>4, <1>5, <1>6, <1>7 DEF S

LEMMA UntildedHolding == TildesFirst => Holding(Untilded)
<1> SUFFICES ASSUME TildesFirst
             PROVE  Holding(Untilded)
  OBVIOUS
<1> DEFINE S == STRING \ {"~"}
<1>1. "testuser" \in S /\ "home" \in S /\ ".root" \in S
  BY EnvAssumption
<1> HIDE DEF S
<1>2. <<"testuser">> \in Seq(S) /\ <<"home">> \in Seq(S) /\ <<".root">> \in Seq(S)
  BY <1>1, Single
<1>3. /\ Relv(<<"testuser">>) \in PathOf(S) /\ Abs(<<"home">>) \in PathOf(S)
      /\ Abs(<<".root">>) \in PathOf(S) /\ Root \in PathOf(S)
  BY <1>2, EmptySeq DEF Relv, Abs, Root, PathOf
<1>4. /\ Relv(<<"testuser">>) \in Untilded /\ Abs(<<"home">>) \in Untilded
      /\ Abs(<<".root">>) \in Untilded /\ Root \in Untilded
  BY <1>3 DEF Untilded, S
<1>5. /\ \A a, b \in Untilded : Join(a, b) \in Untilded
      /\ Jails \cup Homes \cup Users \subseteq Untilded /\ Empty \in Untilded
  BY UntildedTypes DEF TildesFirst
<1>6. Seeds \subseteq Untilded
  BY <1>4, <1>5 DEF Seeds
<1>7. QED
  BY <1>5, <1>6, UntildedTypes DEF Holding

(* The home as "~" stands for it, and what it is at the head of.           *)
LEMMA UntildedHome ==
  ASSUME Inv, Fit(Untilded), NEW e \in live \ {"os"}
  PROVE  Or(GetHome(e), Empty) \in Untilded
<1> DEFINE S == STRING \ {"~"}
<1>1. env[e].home \in PathOf(S) /\ env[e].jail \in Path
  BY UntildedTypes DEF Fit, Untilded
<1>2. Dots \subseteq S /\ S \subseteq STRING
  BY UntildedTypes
<1> HIDE DEF S
<1>3. RemoveJailPrefix(env[e].jail, env[e].home) \in PathOf(S)
  BY <1>1, <1>2, RemoveOver
<1>4. RemoveJailPrefix(env[e].jail, env[e].home) \in Untilded
  BY <1>3 DEF Untilded, S
<1>5. QED
  BY <1>4, UntildedTypes DEF GetHome, Or

LEMMA UntildedAtHome ==
  ASSUME TildesFirst, NEW h \in Untilded, NEW p \in Args, Tilde(p)
  PROVE  AtHome(h, p) \in Untilded
<1>1. Relv(Tail(p.segs)) \in Untilded
  BY UntildedTypes DEF TildesFirst
<1>2. QED
  BY <1>1, UntildedTypes DEF AtHome

LEMMA UntildedResolving ==
  ASSUME TildesFirst, Inv, Fit(Untilded)
  PROVE  Resolving(Untilded)
<1>1. SUFFICES ASSUME NEW e \in live \ {"os"}, NEW rel \in Args \cup Untilded
               PROVE  ResolvePath(e, rel) \in Untilded \cup {NoPath}
  BY DEF Resolving
<1> DEFINE wd == Getwd(e)
           x == EnvExpand(e, rel)
<1>2. wd \in Untilded \cup {NoPath}
  BY DEF Getwd, OrNone, Fit
<1>3. x \in Untilded
  <2>1. CASE Tilde(rel)
    <3>1. rel \in Args
      BY <2>1, UntildedTypes
    <3>2. x = AtHome(Or(GetHome(e), Empty), rel)
      BY <2>1 DEF EnvExpand
    <3>3. QED
      BY <2>1, <3>1, <3>2, UntildedHome, UntildedAtHome
  <2>2. CASE ~Tilde(rel)
    BY <2>2 DEF EnvExpand, TildesFirst
  <2>3. QED
    BY <2>1, <2>2
<1>4. ResolvePath(e, rel) = IF Clean(rel) = Dot THEN wd ELSE InWd(wd, x)
  BY DEF ResolvePath
<1> HIDE DEF wd, x
<1>5. InWd(wd, x) \in Untilded \cup {NoPath}
  BY <1>2, <1>3, UntildedTypes DEF InWd, Based
<1>6. QED
  BY <1>2, <1>4, <1>5

LEMMA UntildedCorrect ==
  ASSUME CleanHomes, TildesFirst
  PROVE  SandboxSpec => [](Inv /\ WdNeat /\ Fit(Untilded))
<1>1. Inv /\ Fit(Untilded) /\ [SandboxNext]_vars => Fit(Untilded)'
  <2> SUFFICES ASSUME Inv, Fit(Untilded), [SandboxNext]_vars
               PROVE  Fit(Untilded)'
    OBVIOUS
  <2>1. Holding(Untilded) /\ Resolving(Untilded)
    BY UntildedHolding, UntildedResolving
  <2>2. CASE SandboxNext
    BY <2>1, <2>2, StepFits
  <2>3. CASE UNCHANGED vars
    BY <2>3, StillFits DEF vars
  <2>4. QED
    BY <2>2, <2>3
<1>2. Init => Fit(Untilded)
  BY UntildedHolding, InitFits
<1>3. QED
  BY <1>1, <1>2, NeatCorrect, PTL DEF SandboxSpec

(* The empty path, and any that is "." when it is clean, is the directory. *)
LEMMA BasedNothing ==
  ASSUME NEW wd \in Path, Settled(wd), NEW p \in Path, Clean(p) = Dot
  PROVE  ~p.abs /\ Join(wd, p) = wd /\ Based(wd, p) = wd
<1>1. ~p.abs
  BY CleanType, DotType
<1>2. Join(wd, p) = wd /\ Clean(wd) = wd
  BY JoinNothing, CleanedAbs, CleanSettled DEF Path, PathOf
<1>3. QED
  BY <1>1, <1>2 DEF Based

LEMMA EmptyIsDot == Clean(Empty) = Dot
<1>1. DOMAIN <<>> = {}
  OBVIOUS
<1>2. Empty.abs = FALSE /\ Empty.segs = <<>>
  BY DEF Empty, Relv
<1>3. Simplified(Empty) = <<>>
  BY <1>1, <1>2 DEF Simplified
<1>4. QED
  BY <1>2, <1>3 DEF Clean, Named

(* What a path resolves to, from an absolute directory.                    *)
LEMMA ResolveBased ==
  ASSUME Inv, WdNeat, NEW e \in live, e # "os", WdAbsolute(e), NEW p \in Path,
         Tilde(p) => Clean(p) # Dot
  PROVE  /\ Getwd(e) \in Path /\ Settled(Getwd(e))
         /\ ResolvePath(e, p) = Based(Getwd(e), EnvExpand(e, p))
<1> DEFINE wd == Getwd(e)
<1>1. wd \in Path /\ Settled(wd) /\ wd # NoPath
  <2>1. wd \in MaybePath /\ wd # NoPath /\ wd.abs
    BY WdType DEF Inv, EnvInv, WdAbsolute
  <2>2. wd = Var(e, "PWD")
    BY <2>1 DEF Getwd, OrNone
  <2>3. QED
    BY <2>1, <2>2 DEF MaybePath, WdNeat, Neat
<1>2. ResolvePath(e, p) = IF Clean(p) = Dot THEN wd ELSE InWd(wd, EnvExpand(e, p))
  BY DEF ResolvePath
<1> HIDE DEF wd
<1>3. CASE Clean(p) = Dot
  <2>1. EnvExpand(e, p) = p
    BY <1>3 DEF EnvExpand
  <2>2. Based(wd, p) = wd
    BY <1>1, <1>3, BasedNothing
  <2>3. QED
    BY <1>1, <1>2, <1>3, <2>1, <2>2 DEF wd
<1>4. CASE Clean(p) # Dot
  BY <1>1, <1>2, <1>4 DEF InWd, wd
<1>5. QED
  BY <1>3, <1>4

(* A path that does not begin with "~" is the same before it is made       *)
(* absolute and after.                                                     *)
LEMMA SameHost ==
  ASSUME Inv, WdNeat, NEW e \in live, e # "os", WdAbsolute(e), NEW x \in Path, ~Tilde(x)
  PROVE  Host(e, AbsPath(e, x)) = JailPath(env[e].jail, Based(Getwd(e), x))
<1> DEFINE wd == Getwd(e)
           q == Based(wd, x)
<1>1. wd \in Path /\ Settled(wd)
  <2>1. wd \in MaybePath /\ wd # NoPath /\ wd.abs
    BY WdType DEF Inv, EnvInv, WdAbsolute
  <2>2. wd = Var(e, "PWD")
    BY <2>1 DEF Getwd, OrNone
  <2>3. QED
    BY <2>1, <2>2 DEF MaybePath, WdNeat, Neat
<1>2. q \in Path /\ Settled(q)
  BY <1>1, BasedType DEF Settled
<1>3. Host(e, AbsPath(e, x)) = JailPath(env[e].jail, ResolvePath(e, AbsPath(e, x)))
  BY DEF Host
<1>4. wd # NoPath /\ Or(wd, Empty) = wd /\ MadeAbs(wd) = wd
  BY <1>1, ConstantTypes DEF Or, MadeAbs, Settled
<1>5. CASE x = Empty
  <2>1. AbsPath(e, x) = Empty /\ ResolvePath(e, Empty) = wd
    BY <1>5, EmptyIsDot DEF AbsPath, ResolvePath
  <2>2. q = wd
    BY <1>1, <1>5, EmptyIsDot, BasedNothing
  <2>3. QED
    BY <1>3, <2>1, <2>2
<1>6. CASE x # Empty
  <2>1. Or(ExpandPath(e, x), x) = x
    BY DEF ExpandPath, Or
  <2>2. AbsPath(e, x) = Based(MadeAbs(Or(wd, Empty)), Or(ExpandPath(e, x), x))
    BY <1>6 DEF AbsPath
  <2> HIDE DEF wd
  <2>3. AbsPath(e, x) = q
    BY <1>4, <2>1, <2>2
  <2> HIDE DEF q
  <2>4. ResolvePath(e, q) = q
    BY <1>2, ResolveAgain
  <2>5. QED
    BY <1>3, <2>3, <2>4 DEF q, wd
<1>7. QED
  BY <1>5, <1>6

(* So it is with what "~" stands for, and WriteFile and ReadFile meet.     *)
LEMMA WritesWhereReads ==
  ASSUME Inv, WdNeat, Fit(Untilded), TildesFirst, HomesStay,
         NEW e \in live, e # "os", WdAbsolute(e), NEW p \in Args, WriteAt(e, p)[2] # NoPath
  PROVE  WriteAt(e, p)[2] = Os(Host(e, p))
<1> DEFINE x == ExpandPath(e, p)
           wd == Getwd(e)
<1>1. p \in Path /\ x \in MaybePath /\ EnvType
  BY ConstantTypes, ExpandType DEF Inv, EnvInv
<1>2. WriteAt(e, p) = WritePlaces(e, Target(e, x))
  BY DEF WriteAt
<1>3. x # NoPath
  BY <1>2 DEF Target, WritePlaces
<1>4. x \in Path /\ ~Tilde(x) /\ EnvExpand(e, p) = x
  <2>1. CASE Tilde(p)
    <3>1. GetHome(e) # NoPath /\ x = AtHome(GetHome(e), p)
      BY <1>3, <2>1 DEF ExpandPath
    <3>2. GetHome(e) \in Untilded
      BY <3>1, UntildedHome DEF Or
    <3>3. x \in Untilded
      BY <2>1, <3>1, <3>2, UntildedAtHome
    <3>4. EnvExpand(e, p) = x
      BY <2>1, <3>1 DEF EnvExpand, Or
    <3> HIDE DEF x
    <3>5. QED
      BY <3>3, <3>4, UntildedTypes
  <2>2. CASE ~Tilde(p)
    BY <1>1, <2>2 DEF ExpandPath, EnvExpand
  <2>3. QED
    BY <2>1, <2>2
<1> HIDE DEF x
<1>5. Target(e, x) = AbsPath(e, x) /\ AbsPath(e, x) \in Path
  BY <1>1, <1>3, <1>4, AbsPathType DEF Target, Inv
<1>6. WriteAt(e, p)[2] = Os(Host(e, AbsPath(e, x)))
  BY <1>2, <1>5, ConstantTypes DEF WritePlaces
<1>7. Host(e, AbsPath(e, x)) = JailPath(env[e].jail, Based(wd, x))
  BY <1>4, SameHost
<1>8. ResolvePath(e, p) = Based(wd, EnvExpand(e, p))
  BY <1>1, ResolveBased DEF HomesStay
<1>9. ResolvePath(e, p) = Based(wd, x)
  BY <1>4, <1>8
<1>10. Host(e, p) = JailPath(env[e].jail, Based(wd, x))
  BY <1>9 DEF Host
<1>11. QED
  BY <1>6, <1>7, <1>10

(* On the process, where "~" is a name to the one and not to the other.    *)
LEMMA OsWritesWhereReads ==
  ASSUME Inv, NEW p \in Args, ~Tilde(p)
  PROVE  /\ WriteAt("os", p)[2] # NoPath => WriteAt("os", p)[2] = Os(Host("os", p))
         /\ AtomicAt("os", p)[2] = IF p = Empty THEN cwd.segs ELSE Os(Host("os", p))
<1>1. p \in Path /\ p # NoPath /\ CwdInv /\ cwd \in Path /\ Settled(cwd) /\ cwd # NoPath
  BY ConstantTypes DEF Inv, CwdInv
<1> DEFINE q == Based(cwd, p)
<1>2. Os(p) = Clean(OsResolve(p)).segs /\ OsResolve(p) \in Path /\ OsResolve(p).abs
  BY <1>1, OsType, OsResolveType DEF MaybePath
<1>3. AtomicAt("os", p)[2] = Os(p)
  BY <1>1 DEF AtomicAt, AtomicPath, AtomicPlaces, EnvExpand
<1>4. ExpandPath("os", p) = p /\ Target("os", p) = AbsPath("os", p)
  BY <1>1 DEF ExpandPath, Target
<1>5. WriteAt("os", p) = WritePlaces("os", AbsPath("os", p))
  BY <1>4 DEF WriteAt
<1>6. CASE p = Empty
  <2>1. AbsPath("os", p) = Empty /\ Host("os", Empty) = NoPath /\ Empty # NoPath
    BY <1>6, ConstantTypes DEF AbsPath, Host, OrNone
  <2>2. WriteAt("os", p)[2] = NoPath
    BY <1>5, <2>1 DEF WritePlaces, Os
  <2>3. OsResolve(p) = cwd
    BY <1>1, <1>6, EmptyIsDot, BasedNothing DEF OsResolve
  <2>4. Clean(cwd) = cwd
    BY <1>1, CleanSettled DEF Path, PathOf
  <2>5. QED
    BY <1>2, <1>3, <1>6, <2>2, <2>3, <2>4
<1>7. CASE p # Empty
  <2>1. Host("os", p) = p
    BY <1>7 DEF Host, OrNone
  <2>2. q = Clean(OsResolve(p))
    BY DEF Based, OsResolve
  <2>3. q \in Path /\ Settled(q)
    BY <1>2, <2>2, CleanedAbs
  <2>4. AbsPath("os", p) = q
    <3>1. Getwd("os") = cwd /\ Or(cwd, Empty) = cwd /\ MadeAbs(cwd) = cwd
      BY <1>1 DEF Getwd, Or, MadeAbs, Settled
    <3>2. Or(ExpandPath("os", p), p) = p
      BY <1>4 DEF Or
    <3>3. AbsPath("os", p)
          = Based(MadeAbs(Or(Getwd("os"), Empty)), Or(ExpandPath("os", p), p))
      BY <1>7 DEF AbsPath
    <3>4. QED
      BY <3>1, <3>2, <3>3
  <2> HIDE DEF q
  <2>5. q # Empty /\ q # NoPath
    BY <2>3, ConstantTypes DEF Empty, Relv, Settled
  <2>6. Host("os", q) = q
    BY <2>5 DEF Host, OrNone
  <2>7. WriteAt("os", p)[2] = Os(q)
    BY <1>5, <2>4, <2>5, <2>6 DEF WritePlaces
  <2>8. Os(q) = q.segs
    BY <1>1, <2>3, OsType DEF MaybePath
  <2>9. QED
    BY <1>2, <1>3, <1>7, <2>1, <2>2, <2>7, <2>8
<1>8. QED
  BY <1>6, <1>7

(* What was put at the place a name is read from is read.                  *)
LEMMA PutIsRead ==
  ASSUME NEW dir, NEW t, NEW d, d # DirNode, Wrote(<<dir, t>>, d)
  PROVE  t # NoPath /\ Content(fs', t) = d
<1>1. CanPut(dir, t) /\ fs' = Put(MkdirAll(fs, dir), t, d)
  BY DEF Wrote, MakeAndPut, OnDisk
<1>2. t # NoPath
  BY <1>1 DEF CanPut
<1>3. t \in DOMAIN fs' /\ fs'[t] = d
  BY <1>1 DEF Put
<1>4. QED
  BY <1>2, <1>3 DEF Content, IsFile

(* A file that is written anew is read back under the name it was written  *)
(* with, for clean homes, a "~" only at the head of a name, and no name    *)
(* such as "~/..", which ResolvePath takes for the working directory.      *)
THEOREM ReadsBack ==
  ASSUME CleanHomes, TildesFirst, HomesStay
  PROVE  SandboxSpec => ReadYourWrites
<1> DEFINE A == \A d \in NewData : \A e \in live, p \in Args :
                  \/ ReadFile(fs', e, p) = d
                  \/ e = "os" /\ Tilde(p)
                  \/ ~ \/ WdAbsolute(e) /\ Wrote(WriteAt(e, p), d)
                       \/ Wrote(AtomicAt(e, p), d)
<1>1. Inv /\ WdNeat /\ Fit(Untilded) => A
  <2> SUFFICES ASSUME Inv, WdNeat, Fit(Untilded), NEW d \in NewData, NEW e \in live,
                      NEW p \in Args, ~(e = "os" /\ Tilde(p)),
                      (WdAbsolute(e) /\ Wrote(WriteAt(e, p), d)) \/ Wrote(AtomicAt(e, p), d)
               PROVE  ReadFile(fs', e, p) = d
    OBVIOUS
  <2>1. d # DirNode
    BY DEF NewData
  <2>2. ReadFile(fs', e, p) = Content(fs', Os(Host(e, p)))
    BY DEF ReadFile
  <2>3. CASE WdAbsolute(e) /\ Wrote(WriteAt(e, p), d)
    <3> DEFINE dir == WriteAt(e, p)[1]
               t == WriteAt(e, p)[2]
    <3>1. Wrote(<<dir, t>>, d)
      BY <2>3 DEF Wrote
    <3> HIDE DEF dir, t
    <3>2. t # NoPath /\ Content(fs', t) = d
      BY <2>1, <3>1, PutIsRead
    <3>3. t = Os(Host(e, p))
      BY <2>3, <3>2, WritesWhereReads, OsWritesWhereReads DEF t
    <3>4. QED
      BY <2>2, <3>2, <3>3
  <2>4. CASE Wrote(AtomicAt(e, p), d)
    <3> DEFINE dir == AtomicAt(e, p)[1]
               t == AtomicAt(e, p)[2]
    <3>1. Wrote(<<dir, t>>, d)
      BY <2>4 DEF Wrote
    <3> HIDE DEF dir, t
    <3>2. t # NoPath /\ Content(fs', t) = d
      BY <2>1, <3>1, PutIsRead
    <3>3. t = Os(Host(e, p))
      <4>1. CASE e # "os"
        BY <3>2, <4>1 DEF t, AtomicAt, AtomicPath, AtomicPlaces, Os
      <4>2. CASE e = "os" /\ p # Empty
        BY <4>2, OsWritesWhereReads DEF t
      <4>3. CASE e = "os" /\ p = Empty
        <5>1. t = cwd.segs
          BY <4>3, OsWritesWhereReads DEF t
        <5>2. IsDir(fs, t)
          BY <5>1 DEF Inv, DiskInv
        <5>3. ~IsDir(MkdirAll(fs, dir), t)
          BY <3>1 DEF Wrote, CanPut, PutOk
        <5>4. QED
          BY <5>2, <5>3 DEF MkdirAll, IsDir
      <4>4. QED
        BY <4>1, <4>2, <4>3
    <3>4. QED
      BY <2>2, <3>2, <3>3
  <2>5. QED
    BY <2>3, <2>4
<1>2. QED
  BY <1>1, UntildedCorrect, PTL DEF SandboxSpec, ReadYourWrites
-----------------------------------------------------------------------------
(* The nearest repository                                                  *)

(* No path a caller gives has a name that only looks like "..".            *)
PlainName == STRING \ DotDotNames
Spelled == PathOf(PlainName)
NamesSpelled == Jails \cup Homes \cup Users \cup Args \subseteq Spelled

LEMMA SpelledTypes ==
  /\ Dots \subseteq PlainName /\ PlainName \subseteq STRING /\ Spelled \subseteq Path
  /\ Empty \in Spelled /\ NoPath \notin Spelled
<1>1. Dots \subseteq PlainName /\ PlainName \subseteq STRING
  BY PathAssumption DEF Dots, PlainName
<1>2. Seq(PlainName) \subseteq Seq(STRING)
  BY <1>1, SeqIncluded
<1>3. Spelled \subseteq Path
  BY <1>2 DEF Spelled, PathOf, Path
<1>4. QED
  BY <1>1, <1>3, EmptyOver, ConstantTypes DEF Spelled

LEMMA SpelledHolding == NamesSpelled => Holding(Spelled)
<1> SUFFICES ASSUME NamesSpelled
             PROVE  Holding(Spelled)
  OBVIOUS
<1>1. <<"testuser">> \in Seq(PlainName) /\ <<"home">> \in Seq(PlainName)
      /\ <<".root">> \in Seq(PlainName) /\ <<>> \in Seq(PlainName)
  BY EnvAssumption DEF PlainName
<1>2. /\ Relv(<<"testuser">>) \in Spelled /\ Abs(<<"home">>) \in Spelled
      /\ Abs(<<".root">>) \in Spelled /\ Root \in Spelled
  BY <1>1 DEF Relv, Abs, Root, Spelled, PathOf
<1>3. \A a, b \in Spelled : Join(a, b) \in Spelled
  BY SpelledTypes, JoinOver DEF Spelled
<1>4. Jails \cup Homes \cup Users \subseteq Spelled /\ Empty \in Spelled
  BY SpelledTypes DEF NamesSpelled
<1>5. Seeds \subseteq Spelled
  BY <1>2, <1>3, <1>4 DEF Seeds
<1>6. QED
  BY <1>3, <1>5, SpelledTypes DEF Holding

LEMMA SpelledResolving ==
  ASSUME NamesSpelled, Inv, Fit(Spelled)
  PROVE  Resolving(Spelled)
<1>1. SUFFICES ASSUME NEW e \in live \ {"os"}, NEW rel \in Spelled
               PROVE  ResolvePath(e, rel) \in Spelled \cup {NoPath}
  BY DEF Resolving, NamesSpelled
<1>2. {env[e].jail, env[e].home, Var(e, "PWD")} \subseteq Spelled
  BY DEF Fit
<1>3. env[e].jail \in Path /\ EnvInv
  BY <1>2, SpelledTypes DEF Inv
<1> DEFINE wd == Getwd(e)
           h == Or(GetHome(e), Empty)
           x == EnvExpand(e, rel)
<1>4. wd \in Spelled \cup {NoPath}
  BY <1>2 DEF Getwd, OrNone
<1>5. h \in Spelled
  <2>1. RemoveJailPrefix(env[e].jail, env[e].home) \in Spelled
    BY <1>2, <1>3, SpelledTypes, RemoveOver DEF Spelled
  <2>2. QED
    BY <2>1, SpelledTypes DEF GetHome, Or
<1>6. \A a, b \in Spelled : Join(a, b) \in Spelled /\ Clean(a) \in Spelled
  BY SpelledTypes, JoinOver, CleanOver DEF Spelled
<1>7. x \in Spelled
  <2>1. CASE ~Tilde(rel)
    BY <2>1 DEF EnvExpand
  <2>2. CASE Tilde(rel)
    <3>1. x = AtHome(h, rel)
      BY <2>2 DEF EnvExpand
    <3> HIDE DEF h, x
    <3>2. rel.segs \in Seq(PlainName) /\ rel.segs # <<>>
      BY <2>2 DEF Tilde, Spelled, PathOf
    <3>3. Tail(rel.segs) \in Seq(PlainName)
      BY <3>2, HeadTailProperties
    <3>4. Relv(Tail(rel.segs)) \in Spelled
      BY <3>3 DEF Relv, Spelled, PathOf
    <3>5. QED
      BY <1>5, <1>6, <3>1, <3>4 DEF AtHome
  <2>3. QED
    BY <2>1, <2>2
<1>8. ResolvePath(e, rel) = IF Clean(rel) = Dot THEN wd ELSE InWd(wd, x)
  BY DEF ResolvePath
<1> HIDE DEF wd, x
<1>9. InWd(wd, x) \in Spelled \cup {NoPath}
  <2>1. CASE x.abs
    BY <1>6, <1>7, <2>1 DEF InWd, Based
  <2>2. CASE ~x.abs
    BY <1>4, <1>6, <1>7, <2>2 DEF InWd, Based
  <2>3. QED
    BY <2>1, <2>2
<1>10. QED
  BY <1>4, <1>8, <1>9

LEMMA SpelledCorrect ==
  ASSUME CleanHomes, NamesSpelled
  PROVE  SandboxSpec => [](Inv /\ WdNeat /\ Fit(Spelled))
<1>1. Inv /\ Fit(Spelled) /\ [SandboxNext]_vars => Fit(Spelled)'
  <2> SUFFICES ASSUME Inv, Fit(Spelled), [SandboxNext]_vars
               PROVE  Fit(Spelled)'
    OBVIOUS
  <2>1. Holding(Spelled) /\ Resolving(Spelled)
    BY SpelledHolding, SpelledResolving
  <2>2. CASE SandboxNext
    BY <2>1, <2>2, StepFits
  <2>3. CASE UNCHANGED vars
    BY <2>3, StillFits DEF vars
  <2>4. QED
    BY <2>2, <2>3
<1>2. Init => Fit(Spelled)
  BY SpelledHolding, InitFits
<1>3. QED
  BY <1>1, <1>2, NeatCorrect, PTL DEF SandboxSpec

(* The clean absolute paths of an environment, and the list that stands    *)
(* for its jail.                                                           *)
Names(e) == IF e = "os" THEN STRING ELSE PlainName
Seen(e) == {r \in PathOf(Names(e)) : Settled(r)}
JailSegs(e) == Simplified(env[e].jail)

LEMMA SeenTypes ==
  ASSUME NEW e
  PROVE  /\ Names(e) \subseteq STRING
         /\ \A r \in Seen(e) : /\ r \in Path /\ r.abs /\ r # NoPath /\ r # Empty
                               /\ Clean(r) = r /\ r.segs \in Seq(Names(e))
                               /\ r.segs \in Seq(STRING)
<1>1. Names(e) \subseteq STRING
  BY SpelledTypes DEF Names
<1>2. Seq(Names(e)) \subseteq Seq(STRING)
  BY <1>1
<1>3. ASSUME NEW r \in Seen(e)
      PROVE  /\ r \in Path /\ r.abs /\ r # NoPath /\ r # Empty
             /\ Clean(r) = r /\ r.segs \in Seq(Names(e)) /\ r.segs \in Seq(STRING)
  <2>1. r \in PathOf(Names(e)) /\ Settled(r)
    BY DEF Seen
  <2>2. r \in Path /\ r.abs /\ r.segs \in Seq(Names(e))
    BY <1>2, <2>1 DEF PathOf, Path, Settled
  <2>3. Clean(r) = r
    BY <2>1, CleanSettled
  <2>4. r # NoPath /\ r # Empty
    BY <2>2, ConstantTypes DEF Empty, Relv
  <2>5. QED
    BY <1>2, <2>2, <2>3, <2>4
<1>4. QED
  BY <1>1, <1>3

(* Where the host sees such a path.                                        *)
LEMMA HostOf ==
  ASSUME Inv, Fit(Spelled), NEW e \in live, NEW r \in Seen(e)
  PROVE  /\ Os(Host(e, r)) = JailSegs(e) \o r.segs
         /\ JailSegs(e) \in Seq(STRING)
         /\ Stat(e, r) = NodeAt(JailSegs(e) \o r.segs)
<1>1. r \in Path /\ Settled(r) /\ r.abs /\ r # NoPath /\ r # Empty /\ r.segs \in Seq(STRING)
  BY SeenTypes DEF Seen
<1>2. Simplified(Empty) = <<>>
  <2>1. Empty.segs = <<>> /\ DOMAIN Empty.segs = {}
    BY DEF Empty, Relv
  <2>2. QED
    BY <2>1 DEF Simplified
<1>3. Os(r) = r.segs /\ <<>> \o r.segs = r.segs /\ <<>> \in Seq(STRING)
  BY <1>1, OsType, ConcatEmptySeq, EmptySeq DEF Inv, MaybePath
<1>4. CASE e = "os"
  <2>1. JailSegs(e) = <<>>
    BY <1>2, <1>4 DEF JailSegs, Inv, EnvInv, OsIsBlank, Blank
  <2>2. Host(e, r) = r
    BY <1>1, <1>4 DEF Host, OrNone
  <2>3. ResolvePath(e, r) = r
    BY <1>1, <1>4 DEF ResolvePath, OsResolve, EnvExpand, Tilde
  <2>4. QED
    BY <1>3, <1>4, <2>1, <2>2, <2>3 DEF Stat
<1>5. CASE e # "os"
  <2> DEFINE jl == env[e].jail
  <2>1. jl \in Path /\ (jl = Empty \/ jl.abs)
    BY VarType DEF Inv, EnvInv, JailsAbsolute, EnvFields
  <2>2. ResolvePath(e, r) = r
    BY <1>1, <1>5, ResolveAgain
  <2>3. Host(e, r) = Checked(jl, Join(jl, r))
    BY <1>1, <1>5, <2>2 DEF Host, JailPath
  <2>4. Stat(e, r) = NodeAt(Os(Host(e, r))) /\ JailSegs(e) = Simplified(jl)
    BY <1>5 DEF Stat, JailSegs
  <2> HIDE DEF jl
  <2>5. CASE jl = Empty
    <3>1. Join(jl, r) = r
      BY <1>1, <2>5, RemoveNoJail
    <3>2. Host(e, r) = r
      BY <2>3, <2>5, <3>1 DEF Checked, IsInJail
    <3>3. QED
      BY <1>2, <1>3, <2>4, <2>5, <3>2
  <2>6. CASE jl.abs
    <3> DEFINE d == Join(jl, r)
               b == Clean(jl)
    <3>1. jl \in PathOf(STRING) /\ r \in PathOf(STRING) /\ Plain(r.segs)
      BY <1>1, <2>1 DEF Path, PathOf, Settled
    <3>2. /\ d = [abs |-> TRUE, segs |-> b.segs \o r.segs]
          /\ d \in Path /\ Settled(d)
      BY <2>6, <3>1, JoinPlain, JoinAbs DEF Path, PathOf
    <3>3. b.segs \in Seq(STRING) /\ b.segs = Simplified(jl)
      BY <2>1, <2>6, CleanedAbs DEF Clean, Named
    <3> HIDE DEF b
    <3>4. d.segs = b.segs \o r.segs /\ d.abs
      <4> DEFINE c == b.segs \o r.segs
      <4>1. d = [abs |-> TRUE, segs |-> c]
        BY <3>2
      <4> HIDE DEF c, d
      <4>2. d.segs = c /\ d.abs = TRUE
        BY <4>1
      <4>3. QED
        BY <4>2 DEF c
    <3>5. Clean(d) = d
      <4>1. d \in PathOf(STRING) /\ Settled(d)
        BY <3>2 DEF Path, PathOf
      <4> HIDE DEF d
      <4>2. QED
        BY <4>1, CleanSettled
    <3> HIDE DEF d
    <3>6. \A i \in 1..Len(d.segs) : i > Len(b.segs) => d.segs[i] \notin DotDotNames
      <4>1. \A k \in 1..Len(r.segs) : r.segs[k] \notin DotDotNames
        <5>1. r.segs \in Seq(PlainName)
          BY <1>5, SeenTypes DEF Names
        <5>2. QED
          BY <5>1, SeqRange DEF PlainName
      <4>2. QED
        BY <1>1, <3>3, <3>4, <4>1, SecondPart
    <3>7. Under(b.segs, d.segs)
      BY <1>1, <3>3, <3>4, UnderConcat
    <3>8. IsInJail(jl, d)
      BY <2>1, <2>6, <3>2, <3>4, <3>5, <3>6, <3>7, UnderInJail DEF b
    <3>9. Host(e, r) = d
      BY <2>3, <3>8 DEF Checked, d
    <3>10. Os(d) = d.segs
      BY <3>2, OsType DEF Inv, MaybePath
    <3>11. QED
      BY <2>4, <3>3, <3>4, <3>9, <3>10
  <2>7. QED
    BY <2>1, <2>5, <2>6
<1>6. QED
  BY <1>4, <1>5

(* The walk of FindGitRoot: the recursion of Upward has a solution, ...    *)
Climbs(p, n, u) == u = [i \in 1..n |-> IF i = 1 THEN p ELSE Dir(u[i - 1])]

LEMMA ClimbExists ==
  ASSUME NEW p, NEW n \in Nat
  PROVE  \E u : Climbs(p, n, u)
<1> DEFINE T == {m \in 0..n : \E u : Climbs(p, m, u)}
<1>1. 0 \in T
  <2> DEFINE u == [i \in 1..0 |-> p]
  <2>1. u = [i \in 1..0 |-> IF i = 1 THEN p ELSE Dir(u[i - 1])]
    OBVIOUS
  <2>2. 0 \in 0..n
    OBVIOUS
  <2>3. Climbs(p, 0, u)
    BY <2>1 DEF Climbs
  <2> HIDE DEF u
  <2>4. QED
    BY <2>2, <2>3
<1>2. ASSUME NEW m \in 1..n, m - 1 \in T
      PROVE  m \in T
  <2>1. PICK g : Climbs(p, m - 1, g)
    BY <1>2
  <2> DEFINE u == [i \in 1..m |->
                     IF i = m THEN IF m = 1 THEN p ELSE Dir(g[m - 1]) ELSE g[i]]
  <2>2. \A i \in 1..m : i # m => i \in 1..(m - 1) /\ u[i] = g[i]
    OBVIOUS
  <2>3. \A i \in 1..(m - 1) : g[i] = IF i = 1 THEN p ELSE Dir(g[i - 1])
    BY <2>1 DEF Climbs
  <2>4. \A i \in 1..m : i # 1 => i - 1 \in 1..m /\ i - 1 # m
    OBVIOUS
  <2>5. u[m] = IF m = 1 THEN p ELSE Dir(g[m - 1])
    OBVIOUS
  <2> HIDE DEF u
  <2>6. \A i \in 1..m : i # 1 => u[i - 1] = g[i - 1]
    BY <2>2, <2>4
  <2>7. ASSUME NEW i \in 1..m
        PROVE  u[i] = IF i = 1 THEN p ELSE Dir(u[i - 1])
    <3>1. CASE i = m
      BY <2>5, <2>6, <3>1
    <3>2. CASE i # m
      BY <2>2, <2>3, <2>6, <3>2
    <3>3. QED
      BY <3>1, <3>2
  <2>8. u = [i \in 1..m |-> u[i]]
    BY DEF u
  <2>9. Climbs(p, m, u)
    BY <2>7, <2>8 DEF Climbs
  <2>10. m \in 0..n
    OBVIOUS
  <2>11. QED
    BY <2>9, <2>10
<1>3. T \subseteq 0..n /\ n \in 0..n
  OBVIOUS
<1> HIDE DEF T
<1>4. n \in T
  BY <1>1, <1>2, <1>3, Inherited
<1>5. QED
  BY <1>4 DEF T

(* ... and it is what is above a clean absolute path, the nearest first.   *)
LEMMA UpwardOf ==
  ASSUME NEW S, NEW p \in PathOf(S), Settled(p)
  PROVE  /\ DOMAIN Upward(p) = 1..(Len(p.segs) + 1)
         /\ \A i \in 1..(Len(p.segs) + 1) :
              /\ Upward(p)[i] \in PathOf(S) /\ Settled(Upward(p)[i])
              /\ Len(Upward(p)[i].segs) = Len(p.segs) + 1 - i
              /\ Under(Upward(p)[i].segs, p.segs)
<1> DEFINE n == Len(p.segs)
           F == CHOOSE u : Climbs(p, n + 1, u)
<1>1. p.segs \in Seq(S) /\ n \in Nat
  BY SeqRange DEF PathOf
<1>2. Climbs(p, n + 1, F)
  <2>1. n + 1 \in Nat
    BY <1>1
  <2> HIDE DEF n
  <2>2. QED
    BY <2>1, ClimbExists
<1>3. Upward(p) = F
  BY DEF Upward, Climbs
<1> HIDE DEF F, n
<1> DEFINE up == Upward(p)
<1>4. /\ DOMAIN up = 1..(n + 1)
      /\ \A i \in 1..(n + 1) : up[i] = IF i = 1 THEN p ELSE Dir(up[i - 1])
  BY <1>2, <1>3 DEF Climbs
<1> HIDE DEF up
<1> DEFINE Fine(i) == /\ up[i] \in PathOf(S) /\ Settled(up[i])
                      /\ Len(up[i].segs) = n + 1 - i /\ Under(up[i].segs, p.segs)
           T == {m \in 0..n : Fine(m + 1)}
<1>5. 0 \in T
  <2>1. 0 \in 0..n /\ 1 \in 1..(n + 1) /\ n + 1 - 1 = n /\ 0 + 1 = 1
    BY <1>1
  <2>2. up[1] = p
    BY <1>4, <2>1
  <2>3. Under(p.segs, p.segs)
    BY <1>1, UnderReflexive
  <2>4. QED
    BY <2>1, <2>2, <2>3 DEF n
<1>6. ASSUME NEW m \in 1..n, m - 1 \in T
      PROVE  m \in T
  <2>1. /\ m \in 0..n /\ m \in 1..(n + 1) /\ m + 1 \in 1..(n + 1) /\ m + 1 # 1
        /\ m + 1 - 1 = m /\ m - 1 + 1 = m
    BY <1>1
  <2>2. Fine(m)
    BY <1>6, <2>1
  <2>3. up[m + 1] = Dir(up[m])
    BY <1>4, <2>1
  <2> DEFINE q == up[m]
             d == Dir(q)
  <2>4. q \in PathOf(S) /\ Settled(q) /\ q.segs \in Seq(S)
        /\ Len(q.segs) = n + 1 - m /\ Under(q.segs, p.segs)
    BY <2>2 DEF PathOf
  <2> HIDE DEF q
  <2>5. q.segs # <<>>
    <3>1. n + 1 - m # 0
      BY <1>1
    <3>2. QED
      BY <2>4, <3>1, EmptySeq
  <2>6. d \in PathOf(S) /\ Settled(d) /\ d.segs = Front(q.segs)
    BY <2>4, <2>5, DirSettled
  <2>7. /\ Front(q.segs) \in Seq(S) /\ Len(Front(q.segs)) = n + 1 - m - 1
        /\ Under(Front(q.segs), q.segs)
    <3> DEFINE v == q.segs
    <3>1. v \in Seq(S) /\ v # <<>> /\ Len(v) = n + 1 - m
      BY <2>4, <2>5
    <3> HIDE DEF v
    <3>2. Front(v) \in Seq(S) /\ Len(Front(v)) = Len(v) - 1
      BY <3>1, FrontOf
    <3>3. Len(Front(v)) = n + 1 - m - 1
      BY <1>1, <3>1, <3>2
    <3>4. Under(Front(v), v)
      BY <3>1, FrontUnder
    <3>5. QED
      BY <3>2, <3>3, <3>4 DEF v
  <2>8. Under(Front(q.segs), p.segs)
    BY <1>1, <2>4, <2>7, UnderTransitive
  <2>9. n + 1 - m - 1 = n + 1 - (m + 1)
    BY <1>1
  <2>10. up[m + 1] = d
    BY <2>3 DEF q
  <2> HIDE DEF d
  <2>11. Fine(m + 1)
    BY <2>6, <2>7, <2>8, <2>9, <2>10
  <2>12. QED
    BY <2>1, <2>11
<1>7. T \subseteq 0..n
  OBVIOUS
<1> HIDE DEF T
<1>8. \A m \in 0..n : m \in T
  BY <1>1, <1>5, <1>6, <1>7, Inherited
<1>9. ASSUME NEW i \in 1..(n + 1)
      PROVE  Fine(i)
  <2>1. i - 1 \in 0..n /\ i - 1 + 1 = i
    BY <1>1
  <2>2. QED
    BY <1>8, <2>1 DEF T
<1>10. QED
  BY <1>4, <1>9 DEF up, n

(* The working directory is such a path, and so are its directory and what *)
(* is directly in it.                                                      *)
LEMMA WdSeen ==
  ASSUME Inv, WdNeat, Fit(Spelled), NEW e \in live, WdAbsolute(e)
  PROVE  Getwd(e) \in Seen(e)
<1>1. Getwd(e) # NoPath /\ Getwd(e).abs
  BY DEF WdAbsolute
<1>2. CASE e = "os"
  BY <1>2 DEF Inv, CwdInv, Getwd, Seen, Names, Path, PathOf
<1>3. CASE e # "os"
  <2>1. Getwd(e) = Var(e, "PWD")
    BY <1>1, <1>3 DEF Getwd, OrNone
  <2>2. Var(e, "PWD") \in Spelled /\ Neat(Var(e, "PWD"))
    BY <1>3 DEF Fit, WdNeat
  <2>3. QED
    BY <1>1, <1>3, <2>1, <2>2 DEF Seen, Names, Spelled, Neat
<1>4. QED
  BY <1>2, <1>3

LEMMA LiteralNames ==
  ASSUME NEW e, NEW s \in {".git", ".app"}
  PROVE  /\ s \in Names(e) /\ s \in STRING /\ s \notin {".", "..", "~"}
         /\ Relv(<<s>>) \in PathOf(Names(e)) /\ Relv(<<s>>) \in Path
         /\ Plain(Relv(<<s>>).segs) /\ Relv(<<s>>).segs = <<s>>
<1>1. s \in STRING /\ s \notin DotDotNames
  BY EnvAssumption
<1>2. s \in Names(e)
  BY <1>1 DEF Names, PlainName
<1>3. s \notin {".", "..", "~"}
  OBVIOUS
<1>4. <<s>> \in Seq(Names(e)) /\ <<s>> \in Seq(STRING) /\ Len(<<s>>) = 1 /\ <<s>>[1] = s
  BY <1>1, <1>2
<1>5. Plain(<<s>>)
  BY <1>3, <1>4 DEF Plain
<1>6. QED
  BY <1>1, <1>2, <1>3, <1>4, <1>5 DEF Relv, PathOf, Path

LEMMA SeenBelow ==
  ASSUME NEW e, NEW r \in Seen(e), NEW s \in {".git", ".app"}
  PROVE  Join(r, Relv(<<s>>)) \in Seen(e) /\ Join(r, Relv(<<s>>)).segs = r.segs \o <<s>>
<1> DEFINE b == Relv(<<s>>)
<1>1. b \in PathOf(Names(e)) /\ Plain(b.segs) /\ b.segs = <<s>>
  BY LiteralNames
<1> HIDE DEF b
<1>2. r \in PathOf(Names(e)) /\ Settled(r) /\ r.abs
  BY DEF Seen, Settled
<1>3. Join(r, b) \in PathOf(Names(e)) /\ Settled(Join(r, b))
  BY <1>1, <1>2, JoinAbs
<1>4. Join(r, b) = [abs |-> TRUE, segs |-> r.segs \o b.segs]
  BY <1>1, <1>2, JoinSettled
<1>5. Join(r, b).segs = r.segs \o <<s>>
  BY <1>1, <1>4
<1>6. Join(r, b) \in Seen(e)
  BY <1>3 DEF Seen
<1>7. QED
  BY <1>5, <1>6 DEF b

(* A directory holds a repository when the host's tree has its .git.       *)
LEMMA GitAt ==
  ASSUME Inv, Fit(Spelled), NEW e \in live, NEW r \in Seen(e)
  PROVE  HasGit(e, r) <=> (JailSegs(e) \o r.segs) \o <<".git">> \in DOMAIN fs
<1> DEFINE g == Join(r, Relv(<<".git">>))
<1>1. g \in Seen(e) /\ g.segs = r.segs \o <<".git">>
  BY SeenBelow
<1> HIDE DEF g
<1>2. Stat(e, g) = NodeAt(JailSegs(e) \o g.segs) /\ JailSegs(e) \in Seq(STRING)
  BY <1>1, HostOf
<1>3. r.segs \in Seq(STRING) /\ <<".git">> \in Seq(STRING)
  BY SeenTypes, EnvAssumption
<1>4. JailSegs(e) \o g.segs = (JailSegs(e) \o r.segs) \o <<".git">>
  <2> DEFINE j == JailSegs(e)
             u == r.segs
             v == <<".git">>
  <2>1. j \in Seq(STRING) /\ u \in Seq(STRING) /\ v \in Seq(STRING) /\ g.segs = u \o v
    BY <1>1, <1>2, <1>3
  <2> HIDE DEF j, u, v
  <2>2. (j \o u) \o v = j \o (u \o v)
    BY <2>1, ConcatAssociative
  <2>3. QED
    BY <2>1, <2>2 DEF j, u, v
<1> DEFINE t == JailSegs(e) \o g.segs
<1>5. NodeAt(t) # NoPath <=> t \in DOMAIN fs
  <2>1. \A u \in DOMAIN fs : fs[u] # NoPath
    BY EnvAssumption DEF Inv, DiskInv, Tree
  <2>2. QED
    BY <2>1 DEF NodeAt
<1>6. QED
  BY <1>2, <1>4, <1>5 DEF HasGit, g

(* The repositories above a place in the jail are those of the lists that  *)
(* begin it, within the jail.                                              *)
LEMMA RepoOf ==
  ASSUME Inv, NEW e \in live, JailSegs(e) \in Seq(STRING), NEW w \in Seq(STRING), NEW d
  PROVE  d \in Repos(e, JailSegs(e) \o w) <=>
           \E q \in Seq(STRING) : /\ d = JailSegs(e) \o q /\ Under(q, w)
                                  /\ (JailSegs(e) \o q) \o <<".git">> \in DOMAIN fs
<1> DEFINE j == JailSegs(e)
           t == j \o w
<1>1. j \in Seq(STRING) /\ t \in Seq(STRING)
  BY ConcatOf
<1>2. d \in Repos(e, t) <=>
        d \in Prefixes(t) /\ Under(j, d) /\ d \o <<".git">> \in DOMAIN fs
  BY DEF Repos, Above, JailSegs
<1> HIDE DEF j
<1>3. ASSUME d \in Prefixes(t), Under(j, d)
      PROVE  \E q \in Seq(STRING) : d = j \o q /\ Under(q, w)
  <2>1. d \in Seq(STRING) /\ Under(d, t)
    BY <1>1, <1>3, PrefixUnder
  <2>2. QED
    BY <1>1, <1>3, <2>1, SplitPrefix
<1>4. ASSUME NEW q \in Seq(STRING), Under(q, w)
      PROVE  j \o q \in Prefixes(t) /\ Under(j, j \o q)
  <2>1. Under(j \o q, t)
    BY <1>1, <1>4, UnderBoth
  <2>2. j \o q \in Seq(STRING)
    BY <1>1, ConcatOf
  <2>3. Under(j, j \o q)
    BY <1>1, UnderConcat
  <2> HIDE DEF t
  <2>4. j \o q \in Prefixes(t)
    BY <1>1, <2>1, <2>2, UnderIsPrefix
  <2>5. QED
    BY <2>3, <2>4
<1>5. QED
  BY <1>2, <1>3, <1>4 DEF j

(* The walk starts at the working directory; from one that is a file it    *)
(* starts above, where it misses nothing.                                  *)
LEMMA StartOf ==
  ASSUME Inv, Fit(Spelled), NEW e \in live, NEW r \in Seen(e)
  PROVE  /\ Start(e, r) \in Seen(e) /\ Under(Start(e, r).segs, r.segs)
         /\ \A q \in Seq(STRING) :
              Under(q, r.segs) /\ (JailSegs(e) \o q) \o <<".git">> \in DOMAIN fs
                => Under(q, Start(e, r).segs)
<1> DEFINE t == JailSegs(e) \o r.segs
<1>1. Stat(e, r) = NodeAt(t) /\ JailSegs(e) \in Seq(STRING)
  BY HostOf
<1>2. r.segs \in Seq(STRING) /\ r \in PathOf(Names(e)) /\ Settled(r) /\ r.segs \in Seq(Names(e))
  BY SeenTypes DEF Seen
<1>3. t \in Seq(STRING)
  BY <1>1, <1>2, ConcatOf
<1>4. CASE Stat(e, r) \in {NoPath, DirNode}
  <2>1. Start(e, r) = r
    BY <1>4 DEF Start
  <2>2. Under(r.segs, r.segs)
    BY <1>2, UnderReflexive
  <2>3. QED
    BY <2>1, <2>2
<1>5. CASE Stat(e, r) \notin {NoPath, DirNode}
  <2>1. Start(e, r) = Dir(r)
    BY <1>5 DEF Start
  <2>2. t \in DOMAIN fs /\ fs[t] # DirNode
    BY <1>1, <1>5 DEF NodeAt
  <2>3. Dir(r) \in Seen(e)
    BY <1>2, DirSettled DEF Seen
  <2>4. CASE r.segs = <<>>
    <3>1. Dir(r) = r
      BY <1>2, <2>4, DirSettled
    <3>2. Under(r.segs, r.segs)
      BY <1>2, UnderReflexive
    <3>3. QED
      BY <2>1, <3>1, <3>2
  <2>5. CASE r.segs # <<>>
    <3>1. Dir(r).segs = Front(r.segs)
      BY <1>2, <2>5, DirSettled
    <3> DEFINE v == r.segs
    <3>2. v \in Seq(STRING) /\ v # <<>>
      BY <1>2, <2>5
    <3> HIDE DEF v
    <3>3. /\ Under(Front(v), v)
          /\ \A q \in Seq(STRING) : Under(q, v) => q = v \/ Under(q, Front(v))
      BY <3>2, FrontUnder
    <3>4. t \o <<".git">> \notin DOMAIN fs
      <4>1. SUFFICES ASSUME t \o <<".git">> \in DOMAIN fs
                     PROVE  FALSE
        OBVIOUS
      <4> DEFINE g == t \o <<".git">>
      <4>2. <<".git">> \in Seq(STRING) /\ <<".git">> # <<>>
        BY EnvAssumption
      <4>3. g # <<>> /\ Front(g) = t \o Front(<<".git">>)
        BY <1>3, <4>2, FrontConcat
      <4>4. Front(<<".git">>) = <<>>
        <5>1. Front(<<".git">>) \in Seq(STRING) /\ Len(Front(<<".git">>)) = Len(<<".git">>) - 1
          BY <4>2, FrontOf
        <5>2. Len(<<".git">>) = 1
          OBVIOUS
        <5>3. QED
          BY <5>1, <5>2, EmptySeq
      <4>5. Front(g) = t
        BY <1>3, <4>3, <4>4, ConcatEmptySeq
      <4> HIDE DEF g, t
      <4>6. g \in DOMAIN fs
        BY <4>1 DEF g
      <4>7. IsDir(fs, t)
        BY <4>3, <4>5, <4>6 DEF Inv, DiskInv, Tree
      <4>8. QED
        BY <2>2, <4>7 DEF IsDir
    <3>5. QED
      BY <2>1, <2>3, <3>1, <3>3, <3>4 DEF v
  <2>6. QED
    BY <2>1, <2>3, <2>4, <2>5
<1>6. QED
  BY <1>4, <1>5

(* The one longest list of several is the nearest.                         *)
LEMMA NearestIs ==
  ASSUME NEW ds, NEW d \in ds,
         \A c \in ds : Len(c) <= Len(d) /\ (Len(d) <= Len(c) => c = d)
  PROVE  Nearest(ds) = d
<1>1. \E x \in ds : \A c \in ds : Len(c) <= Len(x)
  OBVIOUS
<1>2. Nearest(ds) \in ds /\ \A c \in ds : Len(c) <= Len(Nearest(ds))
  BY <1>1 DEF Nearest
<1>3. QED
  BY <1>2

(* The name ".app" alone is the one in the working directory.              *)
LEMMA AppHere ==
  ASSUME Inv, Fit(Spelled), NEW e \in live, Getwd(e) \in Seen(e)
  PROVE  Os(Host(e, LocalApp)) = (JailSegs(e) \o Getwd(e).segs) \o LocalApp.segs
<1> DEFINE wd == Getwd(e)
           r == Join(wd, LocalApp)
<1>1. /\ LocalApp \in PathOf(Names(e)) /\ LocalApp \in Path /\ Plain(LocalApp.segs)
      /\ LocalApp.segs = <<".app">> /\ LocalApp.abs = FALSE
  BY LiteralNames DEF LocalApp, Relv
<1>2. r \in Seen(e) /\ r.segs = wd.segs \o LocalApp.segs
  BY <1>1, SeenBelow DEF LocalApp
<1>3. wd.segs \in Seq(STRING) /\ wd \in Path
  BY SeenTypes
<1> HIDE DEF wd, r
<1>4. r \in Path /\ Settled(r) /\ Clean(r) = r /\ r.abs /\ r # NoPath /\ r # Empty
  BY <1>2, SeenTypes DEF Seen
<1>5. Os(Host(e, r)) = JailSegs(e) \o r.segs /\ JailSegs(e) \in Seq(STRING)
  BY <1>2, HostOf
<1>6. LocalApp # Empty /\ LocalApp # NoPath /\ LocalApp # Dot /\ ~Tilde(LocalApp)
  <2>1. LocalApp.segs # <<>> /\ LocalApp.segs # <<".">> /\ LocalApp.segs[1] # "~"
    BY <1>1
  <2>2. QED
    BY <1>1, <2>1, ConstantTypes DEF Empty, Dot, Relv, Tilde
<1>7. Os(Host(e, LocalApp)) = Os(Host(e, r))
  <2>1. CASE e = "os"
    <3>1. Host(e, LocalApp) = LocalApp /\ Host(e, r) = r
      BY <1>4, <1>6, <2>1 DEF Host, OrNone
    <3>2. OsResolve(LocalApp) = r
      BY <1>1, <2>1 DEF OsResolve, Getwd, r, wd
    <3>3. Os(LocalApp) = r.segs
      BY <1>4, <1>6, <3>2 DEF Os
    <3>4. Os(r) = r.segs
      BY <1>4, OsType DEF Inv, MaybePath
    <3>5. QED
      BY <3>1, <3>3, <3>4
  <2>2. CASE e # "os"
    <3>1. Clean(LocalApp) # Dot
      <4>1. Simplified(LocalApp) = LocalApp.segs
        <5>1. DOMAIN LocalApp.segs = 1..Len(LocalApp.segs)
          BY <1>1
        <5>2. QED
          BY <1>1, <5>1 DEF Simplified, Plain
      <4>2. Clean(LocalApp) = [abs |-> FALSE, segs |-> <<".app">>]
        <5>1. LocalApp.segs # <<>>
          BY <1>1
        <5>2. QED
          BY <1>1, <4>1, <5>1 DEF Clean, Named
      <4>3. <<".app">> # <<".">>
        OBVIOUS
      <4>4. QED
        BY <4>2, <4>3 DEF Dot, Relv
    <3>2. wd # NoPath
      BY <1>3, ConstantTypes
    <3>3. ResolvePath(e, LocalApp) = InWd(wd, LocalApp)
      BY <1>6, <2>2, <3>1 DEF ResolvePath, EnvExpand, wd
    <3>4. InWd(wd, LocalApp) = r
      BY <1>1, <1>4, <3>2 DEF InWd, Based, r
    <3>5. ResolvePath(e, r) = r
      BY <1>4, <2>2, ResolveAgain
    <3>6. Host(e, LocalApp) = Host(e, r)
      BY <2>2, <3>3, <3>4, <3>5 DEF Host
    <3>7. QED
      BY <3>6
  <2>3. QED
    BY <2>1, <2>2
<1>8. JailSegs(e) \o r.segs = (JailSegs(e) \o wd.segs) \o LocalApp.segs
  <2> DEFINE j == JailSegs(e)
             u == wd.segs
             v == LocalApp.segs
  <2>1. j \in Seq(STRING) /\ u \in Seq(STRING) /\ v \in Seq(STRING) /\ r.segs = u \o v
    BY <1>1, <1>2, <1>3, <1>5 DEF Path
  <2> HIDE DEF j, u, v
  <2>2. (j \o u) \o v = j \o (u \o v)
    BY <2>1, ConcatAssociative
  <2>3. QED
    BY <2>1, <2>2 DEF j, u, v
<1>9. QED
  BY <1>5, <1>7, <1>8 DEF wd

(* The walk finds the nearest repository, and the root of the local      *)
(* configuration is there, or in the working directory if there is none.   *)
LEMMA NearestFound ==
  ASSUME Inv, WdNeat, Fit(Spelled), NEW e \in live, WdAbsolute(e)
  PROVE  IsNearest(e, NewGitAppContext(e, NoPath), HostWd(e))
<1> DEFINE wd == Getwd(e)
           j == JailSegs(e)
           t == j \o wd.segs
           s == Start(e, wd)
           n == Len(s.segs)
           up == Upward(s)
           hits == Hits(e, up)
           local == Join(Clean(FindGitRoot(e, wd, NoPath)), LocalApp)
<1>1. /\ wd \in Seen(e) /\ wd.segs \in Seq(STRING)
      /\ HostWd(e) = t /\ j \in Seq(STRING)
  BY WdSeen, HostOf, SeenTypes DEF HostWd
<1>2. s \in Seen(e) /\ s.segs \in Seq(STRING) /\ s \in PathOf(Names(e)) /\ Settled(s)
      /\ Under(s.segs, wd.segs)
  BY <1>1, StartOf, SeenTypes DEF Seen
<1>3. FindGitRoot(e, wd, NoPath) = FirstAt(up, hits)
  BY DEF FindGitRoot, Walk
<1>4. n \in Nat
  BY <1>2, SeqRange
<1>5. /\ DOMAIN up = 1..(n + 1)
      /\ \A i \in 1..(n + 1) :
           /\ up[i] \in Seen(e) /\ up[i].segs \in Seq(STRING)
           /\ Len(up[i].segs) = n + 1 - i /\ Under(up[i].segs, s.segs)
  <2>1. /\ DOMAIN up = 1..(n + 1)
        /\ \A i \in 1..(n + 1) :
             /\ up[i] \in PathOf(Names(e)) /\ Settled(up[i])
             /\ Len(up[i].segs) = n + 1 - i /\ Under(up[i].segs, s.segs)
    BY <1>2, UpwardOf
  <2> HIDE DEF up, n
  <2>2. \A i \in 1..(n + 1) : up[i] \in Seen(e)
    BY <2>1 DEF Seen
  <2>3. QED
    BY <2>1, <2>2, SeenTypes
<1>6. SUFFICES ASSUME NewGitAppContext(e, NoPath) # NoPath
               PROVE  Os(Host(e, local)) = NearestOr(Repos(e, t), t) \o LocalApp.segs
  <2>1. NewGitAppContext(e, NoPath) # NoPath => NewGitAppContext(e, NoPath).LocalConfigRoot = local
    BY DEF NewGitAppContext, NewAppContext
  <2>2. QED
    BY <1>1, <2>1 DEF IsNearest, LocalRootIn
<1>7. \A d : d \in Repos(e, t) <=>
        \E q \in Seq(STRING) : /\ d = j \o q /\ Under(q, wd.segs)
                               /\ (j \o q) \o <<".git">> \in DOMAIN fs
  BY <1>1, RepoOf
<1>8. \A q \in Seq(STRING) :
        Under(q, wd.segs) /\ (j \o q) \o <<".git">> \in DOMAIN fs => Under(q, s.segs)
  BY <1>1, StartOf
<1>9. \A i \in 1..(n + 1) :
        i \in hits <=> (j \o up[i].segs) \o <<".git">> \in DOMAIN fs
  BY <1>5, GitAt DEF Hits
<1>10. hits \subseteq 1..(n + 1)
  BY <1>5 DEF Hits
<1> HIDE DEF j, wd, s, n, up, hits
<1>11. ASSUME NEW d \in Repos(e, t)
       PROVE  \E i \in hits : d = j \o up[i].segs
  <2>1. PICK q \in Seq(STRING) : /\ d = j \o q /\ Under(q, wd.segs)
                                 /\ (j \o q) \o <<".git">> \in DOMAIN fs
    BY <1>7, <1>11
  <2>2. Under(q, s.segs)
    BY <1>8, <2>1
  <2>3. Len(q) \in Nat /\ Len(q) <= n
    BY <1>4, <2>2, SeqRange DEF Under, n
  <2> DEFINE i == n + 1 - Len(q)
  <2>4. i \in 1..(n + 1) /\ n + 1 - i = Len(q)
    BY <1>4, <2>3
  <2> HIDE DEF i
  <2> DEFINE v == up[i].segs
  <2>5. v \in Seq(STRING) /\ Len(v) = Len(q) /\ Under(v, s.segs)
    BY <1>5, <2>4
  <2> HIDE DEF v
  <2>6. q = v
    BY <2>2, <2>5, UnderSame
  <2>7. i \in hits
    BY <1>9, <2>1, <2>4, <2>6 DEF v
  <2>8. QED
    BY <2>1, <2>6, <2>7 DEF v
<1>12. CASE hits = {}
  <2>1. FindGitRoot(e, wd, NoPath) = Empty
    BY <1>3, <1>12 DEF FirstAt
  <2>2. Clean(Empty) = Dot
    <3>1. Empty.abs = FALSE /\ Empty.segs = <<>> /\ DOMAIN Empty.segs = {}
      BY DEF Empty, Relv
    <3>2. Simplified(Empty) = <<>>
      BY <3>1 DEF Simplified
    <3>3. QED
      BY <3>1, <3>2 DEF Clean, Named
  <2>3. ".app" \in STRING /\ ".app" \notin {".", ".."}
    BY LiteralNames
  <2>4. local = LocalApp
    BY <2>1, <2>2, <2>3, JoinDot DEF LocalApp
  <2>5. Repos(e, t) = {}
    BY <1>11, <1>12
  <2>6. Os(Host(e, LocalApp)) = t \o LocalApp.segs
    BY <1>1, AppHere DEF wd, j
  <2>7. QED
    BY <2>4, <2>5, <2>6 DEF NearestOr
<1>13. CASE hits # {}
  <2> DEFINE i == Min(hits)
             r == up[i]
             a == Join(r, LocalApp)
             d == j \o r.segs
  <2>1. i \in hits /\ \A k \in hits : i <= k
    <3>1. hits \subseteq Nat
      BY <1>4, <1>10
    <3>2. \E x \in hits : \A y \in hits : x <= y
      BY <1>13, <3>1, LeastNat
    <3>3. QED
      BY <3>2 DEF Min
  <2> HIDE DEF i
  <2>2. i \in 1..(n + 1) /\ r \in Seen(e) /\ r.segs \in Seq(STRING) /\ Under(r.segs, s.segs)
    BY <1>5, <1>10, <2>1
  <2>3. local = a
    <3>1. FindGitRoot(e, wd, NoPath) = r
      BY <1>3, <1>13 DEF FirstAt, i
    <3>2. Clean(r) = r
      BY <2>2, SeenTypes
    <3>3. QED
      BY <3>1, <3>2
  <2>4. a \in Seen(e) /\ a.segs = r.segs \o LocalApp.segs
    <3>1. LocalApp.segs = <<".app">>
      BY DEF LocalApp, Relv
    <3>2. QED
      BY <2>2, <3>1, SeenBelow DEF LocalApp
  <2>5. Os(Host(e, a)) = j \o a.segs
    BY <2>4, HostOf DEF j
  <2>6. j \o a.segs = d \o LocalApp.segs
    <3> DEFINE u == r.segs
               v == LocalApp.segs
    <3>1. v \in Seq(STRING)
      BY LiteralNames DEF LocalApp, Path
    <3>2. u \in Seq(STRING) /\ j \in Seq(STRING) /\ a.segs = u \o v
      BY <1>1, <2>2, <2>4
    <3> HIDE DEF u, v
    <3>3. (j \o u) \o v = j \o (u \o v)
      BY <3>1, <3>2, ConcatAssociative
    <3>4. QED
      BY <3>2, <3>3 DEF u, v
  <2> HIDE DEF a, r
  <2>7. d \in Repos(e, t)
    <3>1. d \o <<".git">> \in DOMAIN fs
      BY <1>9, <2>1, <2>2 DEF r
    <3>2. Under(r.segs, wd.segs)
      BY <1>1, <1>2, <2>2, UnderTransitive
    <3>3. QED
      BY <1>7, <2>2, <3>1, <3>2
  <2>8. ASSUME NEW c \in Repos(e, t)
        PROVE  Len(c) <= Len(d) /\ (Len(d) <= Len(c) => c = d)
    <3>1. PICK k \in hits : c = j \o up[k].segs
      BY <1>11
    <3>2. k \in 1..(n + 1) /\ i <= k
      BY <1>10, <2>1
    <3> DEFINE u == up[k].segs
               v == up[i].segs
    <3>3. u \in Seq(STRING) /\ Len(u) = n + 1 - k /\ v \in Seq(STRING) /\ Len(v) = n + 1 - i
      BY <1>5, <2>2, <3>2
    <3>4. c = j \o u /\ d = j \o v
      BY <3>1 DEF r
    <3> HIDE DEF u, v, d
    <3>5. Len(c) = Len(j) + Len(u) /\ Len(d) = Len(j) + Len(v)
      BY <1>1, <3>3, <3>4, ConcatOf
    <3>6. Len(j) \in Nat
      BY <1>1, SeqRange
    <3>7. Len(c) <= Len(d) /\ (Len(d) <= Len(c) => k = i)
      BY <1>4, <2>2, <3>2, <3>3, <3>5, <3>6
    <3>8. QED
      BY <3>4, <3>7 DEF u, v
  <2> HIDE DEF d
  <2>9. Nearest(Repos(e, t)) = d
    BY <2>7, <2>8, NearestIs
  <2>10. NearestOr(Repos(e, t), t) = d
    BY <2>7, <2>9 DEF NearestOr
  <2>11. QED
    BY <2>3, <2>5, <2>6, <2>10
<1>14. QED
  BY <1>12, <1>13

(* What git answers, where there is no jail: the root of the local          *)
(* configuration is in that directory, which is above the working          *)
(* directory and holds a .git.                                             *)
LEMMA AnswerFound ==
  ASSUME Inv, WdNeat, Fit(Spelled), NEW e \in live, WdAbsolute(e), env[e].jail = Empty,
         NEW answer \in Answers(e), answer # NoPath
  PROVE  IsARepo(e, NewGitAppContext(e, answer), HostWd(e))
<1> DEFINE w == Getwd(e).segs
           start == Start(e, Getwd(e))
           s == start.segs
<1>1. Getwd(e) \in Seen(e) /\ w \in Seq(STRING) /\ HostWd(e) = JailSegs(e) \o w
  BY WdSeen, HostOf, SeenTypes DEF HostWd
<1>2. JailSegs(e) = <<>>
  <2>1. Empty.segs = <<>> /\ DOMAIN Empty.segs = {}
    BY DEF Empty, Relv
  <2>2. QED
    BY <2>1 DEF JailSegs, Simplified
<1>3. HostWd(e) = w
  BY <1>1, <1>2, ConcatEmptySeq
<1>4. /\ start \in Path /\ Settled(start) /\ s \in Seq(Names(e)) /\ s \in Seq(STRING)
      /\ Under(s, w)
  BY <1>1, StartOf, SeenTypes DEF Seen
<1>5. Os(start) = s
  BY <1>4, OsType DEF Inv, MaybePath
<1>6. answer \in {Abs(d) : d \in {d \in Prefixes(s) : d \o <<".git">> \in DOMAIN fs}}
  BY <1>5 DEF Answers, GitAnswers
<1> HIDE DEF s, start, w
<1>7. PICK d \in Prefixes(s) : d \o <<".git">> \in DOMAIN fs /\ answer = Abs(d)
  BY <1>6
<1> DEFINE local == Join(answer, LocalApp)
<1>8. d \in Seq(Names(e)) /\ d \in Seq(STRING) /\ Under(d, s)
  BY <1>4, <1>7, PrefixUnder
<1>9. answer \in Seen(e) /\ answer.segs = d
  <2>1. Plain(s)
    BY <1>4 DEF Settled, s
  <2>2. Len(d) \in Nat /\ Len(s) \in Nat
    BY <1>4, <1>8, SeqRange
  <2>3. Plain(d)
    BY <1>8, <2>1, <2>2 DEF Plain, Under
  <2>4. QED
    BY <1>7, <1>8, <2>3 DEF Abs, Seen, PathOf, Settled
<1>10. local \in Seen(e) /\ local.segs = d \o LocalApp.segs
  <2>1. LocalApp.segs = <<".app">>
    BY DEF LocalApp, Relv
  <2>2. QED
    BY <1>9, <2>1, SeenBelow DEF LocalApp
<1>11. Clean(answer) = answer
  BY <1>9, SeenTypes
<1>12. NewGitAppContext(e, answer) # NoPath =>
         NewGitAppContext(e, answer).LocalConfigRoot = local
  BY <1>11 DEF NewGitAppContext, NewAppContext, FindGitRoot
<1> HIDE DEF local
<1>13. Os(Host(e, local)) = d \o LocalApp.segs
  <2>1. Os(Host(e, local)) = <<>> \o local.segs /\ local.segs \in Seq(STRING)
    BY <1>2, <1>10, HostOf, SeenTypes
  <2> DEFINE v == local.segs
  <2>2. v \in Seq(STRING) /\ v = d \o LocalApp.segs
    BY <1>10, <2>1
  <2>3. Os(Host(e, local)) = <<>> \o v
    BY <2>1
  <2> HIDE DEF v
  <2>4. QED
    BY <2>2, <2>3, ConcatEmptySeq
<1>14. d \in Repos(e, w)
  <2>1. Under(d, w)
    BY <1>1, <1>4, <1>8, UnderTransitive DEF w
  <2>2. d \in Prefixes(w)
    BY <1>1, <1>8, <2>1, UnderIsPrefix DEF w
  <2>3. Under(<<>>, d)
    <3>1. Len(d) \in Nat
      BY <1>8, SeqRange
    <3>2. QED
      BY <3>1 DEF Under
  <2>4. QED
    BY <1>2, <1>7, <2>2, <2>3 DEF Repos, Above, JailSegs
<1>15. QED
  BY <1>3, <1>12, <1>13, <1>14 DEF IsARepo, LocalRootIn

(* From a working directory that is absolute, the root of the local        *)
(* configuration is the nearest repository's, when git has no answer, and  *)
(* without a jail that of git's answer, whatever directory above this is:  *)
(* for homes that are clean and names that do not begin with two dots.     *)
THEOREM LocalRootCorrect ==
  ASSUME CleanHomes, NamesSpelled
  PROVE  SandboxSpec => []LocalRootIsRepo
<1>1. Inv /\ WdNeat /\ Fit(Spelled) => LocalRootIsRepo
  BY NearestFound, AnswerFound DEF LocalRootIsRepo
<1>2. QED
  BY <1>1, SpelledCorrect, PTL
-----------------------------------------------------------------------------
(* Reading a fixture                                                       *)

(* What is based does not need cleaning first, and plain names after it    *)
(* stay after it.                                                          *)
LEMMA BasedClean ==
  ASSUME NEW wd \in Path, Settled(wd), NEW q \in Path
  PROVE  /\ Based(wd, Clean(q)) = Based(wd, q)
         /\ Based(wd, q) = IF q.abs THEN Clean(q) ELSE Join(wd, q)
<1>1. wd.abs /\ Clean(q) \in Path /\ Clean(q).abs = q.abs
  BY CleanType DEF Settled
<1>2. CASE q.abs
  <2>1. Clean(Clean(q)) = Clean(q)
    BY <1>2, CleanedAbs
  <2>2. QED
    BY <1>1, <1>2, <2>1 DEF Based
<1>3. CASE ~q.abs
  <2> DEFINE r == Join(wd, q)
  <2>1. Join(wd, Clean(q)) = r
    BY <1>3, JoinClean
  <2>2. r \in PathOf(STRING) /\ Settled(r)
    BY <1>1, JoinAbs DEF Path, PathOf
  <2> HIDE DEF r
  <2>3. Clean(r) = r
    BY <2>2, CleanSettled
  <2>4. QED
    BY <1>1, <1>3, <2>1, <2>3 DEF Based, r
<1>4. QED
  BY <1>2, <1>3

LEMMA BasedLonger ==
  ASSUME NEW wd \in Path, Settled(wd), NEW q \in Path, NEW b \in Seq(STRING), Plain(b)
  PROVE  Based(wd, Clean(Longer(q, b))) = Abs(Based(wd, q).segs \o b)
<1> DEFINE l == Longer(q, b)
<1>1. l \in Path /\ l.abs = q.abs
  BY LongerType DEF Longer
<1>2. Based(wd, Clean(l)) = Based(wd, l)
  BY <1>1, BasedClean
<1>3. CASE q.abs
  <2>1. Based(wd, l) = Clean(l) /\ Based(wd, q) = Clean(q)
    BY <1>1, <1>3, BasedClean
  <2> DEFINE y == q.abs
             c == [abs |-> y, segs |-> q.segs \o b]
  <2>2. q \in PathOf(STRING) /\ y = TRUE
    BY <1>3 DEF Path, PathOf
  <2>3. Simplified(c) = Simplified(q) \o b
    BY <2>2, SimplifiedAppend
  <2>4. l = c
    BY DEF Longer
  <2> HIDE DEF c, y, l
  <2>5. Clean(l) = [abs |-> TRUE, segs |-> Simplified(q) \o b]
    BY <1>1, <1>3, <2>3, <2>4 DEF Clean, Named, y
  <2>6. Clean(q).segs = Simplified(q)
    BY <1>3 DEF Clean, Named
  <2>7. QED
    BY <1>2, <2>1, <2>5, <2>6 DEF Abs, l
<1>4. CASE ~q.abs
  <2>1. Based(wd, l) = Join(wd, l) /\ Based(wd, q) = Join(wd, q)
    BY <1>1, <1>4, BasedClean
  <2>2. Join(wd, l) = [abs |-> TRUE, segs |-> Join(wd, q).segs \o b]
    BY <1>4, JoinLonger
  <2> HIDE DEF l
  <2>3. QED
    BY <1>2, <2>1, <2>2 DEF Abs, l
<1>5. QED
  BY <1>3, <1>4

(* A fixture's entries are named as embed.FS names them: no element is "." *)
(* or "..", and no entry comes twice.  None is "~" or begins with "..".    *)
EntryName == PlainName \ {".", "..", "~"}
FixturesNamed ==
  \A fixture \in Fixtures : \A i, j \in DOMAIN fixture :
    /\ fixture[i].at \in Seq(EntryName) /\ fixture[i].at # <<>>
    /\ fixture[i].at = fixture[j].at => i = j
TildesPlain == \A p \in Args : Tilde(p) => Plain(p.segs)

LEMMA EntryTypes ==
  ASSUME NEW b \in Seq(EntryName)
  PROVE  /\ b \in Seq(STRING) /\ Plain(b) /\ b \in Seq(PlainName)
         /\ Relv(b) \in Untilded
<1>1. /\ EntryName \subseteq STRING /\ EntryName \subseteq PlainName
      /\ EntryName \subseteq STRING \ {"~"}
  BY DEF EntryName, PlainName
<1>2. b \in Seq(STRING) /\ b \in Seq(PlainName) /\ b \in Seq(STRING \ {"~"})
  BY <1>1, SeqIncluded
<1>3. Plain(b)
  BY SeqRange DEF Plain, EntryName
<1>4. QED
  BY <1>2, <1>3 DEF Relv, Untilded, PathOf

(* The names of an entry come after what the path resolves to.             *)
LEMMA EntryResolved ==
  ASSUME Inv, WdNeat, Fit(Untilded), TildesFirst, TildesPlain,
         NEW e \in live, e # "os", WdAbsolute(e), NEW p \in Args,
         NEW b \in Seq(EntryName), b # <<>>
  PROVE  ResolvePath(e, Join(p, Relv(b))) = Abs(ResolvePath(e, p).segs \o b)
<1> DEFINE wd == Getwd(e)
           x == EnvExpand(e, p)
           y == Join(p, Relv(b))
<1>1. /\ p \in Path /\ b \in Seq(STRING) /\ Plain(b) /\ Relv(b) \in Untilded
      /\ y = Clean(Longer(p, b))
  BY ConstantTypes, EntryTypes, JoinRelv
<1>2. y \in Path
  BY <1>1, LongerType, CleanType
<1>3. CASE ~Tilde(p)
  <2>1. y \in Untilded
    BY <1>1, <1>3, UntildedTypes DEF TildesFirst
  <2> HIDE DEF y
  <2>2. ~Tilde(y) /\ EnvExpand(e, y) = y /\ x = p
    BY <1>3, <2>1, UntildedTypes DEF EnvExpand
  <2>3. /\ wd \in Path /\ Settled(wd) /\ ResolvePath(e, p) = Based(wd, p)
        /\ ResolvePath(e, y) = Based(wd, y)
    BY <1>1, <1>2, <1>3, <2>2, ResolveBased
  <2> HIDE DEF wd
  <2>4. Based(wd, Clean(Longer(p, b))) = Abs(Based(wd, p).segs \o b)
    BY <1>1, <2>3, BasedLonger
  <2>5. QED
    BY <1>1, <2>3, <2>4 DEF y
<1>4. CASE Tilde(p)
  <2> DEFINE h == Or(GetHome(e), Empty)
             t == Tail(p.segs)
             q == Longer(h, t)
  <2>1. /\ ~p.abs /\ p.segs # <<>> /\ p.segs[1] = "~" /\ Plain(p.segs)
        /\ p.segs \in Seq(STRING)
    BY <1>1, <1>4 DEF Tilde, TildesPlain, Path
  <2>2. t \in Seq(STRING) /\ Len(p.segs) \in Nat /\ Len(p.segs) # 0
        /\ Len(t) = Len(p.segs) - 1
    BY <2>1, HeadTailProperties, EmptySeq, SeqRange
  <2>3. h \in Path
    BY UntildedHome, UntildedTypes
  <2> DEFINE l == Longer(p, b)
  <2>4. /\ Clean(p) = p /\ Clean(l) = l /\ l.segs = p.segs \o b
        /\ l.segs[1] = "~" /\ Len(l.segs) > Len(p.segs) /\ Tail(l.segs) = t \o b
    BY <1>1, <2>1, PlainStays
  <2>5. y = l /\ l.abs = FALSE /\ Len(l.segs) > 1
    <3>1. Len(p.segs) >= 1 /\ l.abs = p.abs
      BY <2>2 DEF Longer
    <3> HIDE DEF l
    <3>2. Len(l.segs) > 1
      BY <2>2, <2>4, <3>1
    <3>3. QED
      BY <1>1, <2>1, <2>4, <3>1, <3>2 DEF l
  <2> HIDE DEF l
  <2>6. Tilde(y) /\ Clean(y) # Dot /\ Clean(p) # Dot /\ y # Relv(<<"~">>)
    <3>1. Dot.segs[1] = "." /\ Len(Relv(<<"~">>).segs) = 1
      BY DEF Dot, Relv
    <3>2. l.segs # <<>>
      BY <2>5
    <3>3. Tilde(l)
      BY <2>4, <2>5, <3>2 DEF Tilde
    <3>4. l # Relv(<<"~">>)
      <4> DEFINE n == Len(l.segs)
      <4>1. n \in Nat /\ n > 1
        <5>1. l \in Path
          BY <1>1, LongerType DEF l
        <5>2. QED
          BY <2>5, <5>1, SeqRange DEF Path
      <4> HIDE DEF n
      <4>4. n # 1
        BY <4>1
      <4>2. l = Relv(<<"~">>) => Len(l.segs) = Len(Relv(<<"~">>).segs)
        OBVIOUS
      <4>3. QED
        BY <3>1, <4>2, <4>4 DEF n
    <3>5. QED
      BY <2>1, <2>4, <2>5, <3>1, <3>3, <3>4
  <2> HIDE DEF t
  <2>7. AtHome(h, p) = Clean(q)
    <3>1. CASE p = Relv(<<"~">>)
      <4>1. t = <<>>
        BY <3>1 DEF Relv, t
      <4>2. h.segs \o t = h.segs
        BY <2>3, <4>1, ConcatEmptySeq DEF Path
      <4>3. q = h
        BY <2>3, <4>2 DEF Longer, Path
      <4>4. QED
        BY <3>1, <4>3 DEF AtHome
    <3>2. CASE p # Relv(<<"~">>)
      <4>1. t # <<>>
        <5>1. ASSUME t = <<>>
              PROVE  p = Relv(<<"~">>)
          <6>1. Len(p.segs) = 1
            BY <2>2, <5>1
          <6>2. p.segs = <<"~">>
            BY <2>1, <6>1
          <6>3. p = [abs |-> p.abs, segs |-> p.segs]
            BY <1>1 DEF Path
          <6>4. p.abs = FALSE
            BY <1>1, <2>1 DEF Path
          <6>5. QED
            BY <6>2, <6>3, <6>4 DEF Relv
        <5>2. QED
          BY <3>2, <5>1
      <4>2. AtHome(h, p) = Join(h, Relv(t))
        BY <3>2 DEF AtHome, t
      <4> HIDE DEF h
      <4>3. QED
        BY <2>2, <2>3, <4>1, <4>2, JoinRelv
    <3>3. QED
      BY <3>1, <3>2
  <2>8. AtHome(h, y) = Clean(Longer(q, b))
    <3> HIDE DEF h, y, q
    <3>1. AtHome(h, y) = Join(h, Relv(t \o b))
      BY <2>4, <2>5, <2>6 DEF AtHome
    <3>2. t \o b \in Seq(STRING) /\ t \o b # <<>> /\ h.segs \in Seq(STRING)
      BY <1>1, <2>2, <2>3, ConcatOf, ConcatEqualIffEmpty DEF Path
    <3>3. Join(h, Relv(t \o b)) = Clean(Longer(h, t \o b))
      BY <2>3, <3>2, JoinRelv
    <3>4. Longer(h, t \o b) = Longer(q, b)
      <4> DEFINE s == h.segs
      <4>1. s \in Seq(STRING) /\ q.abs = h.abs /\ q.segs = s \o t
        BY <3>2 DEF q, Longer
      <4> HIDE DEF s
      <4>2. s \o (t \o b) = (s \o t) \o b
        BY <1>1, <2>2, <4>1, ConcatAssociative
      <4>3. QED
        BY <4>1, <4>2 DEF Longer, s
    <3>5. QED
      BY <3>1, <3>3, <3>4
  <2>9. x = Clean(q) /\ EnvExpand(e, y) = Clean(Longer(q, b))
    BY <1>4, <2>6, <2>7, <2>8 DEF EnvExpand
  <2> HIDE DEF y, x
  <2>10. /\ wd \in Path /\ Settled(wd) /\ ResolvePath(e, p) = Based(wd, x)
         /\ ResolvePath(e, y) = Based(wd, EnvExpand(e, y))
    BY <1>1, <1>2, <2>6, ResolveBased DEF x
  <2> HIDE DEF wd, h
  <2>11. q \in Path
    BY <2>2, <2>3, LongerType
  <2> HIDE DEF q
  <2>12. Based(wd, Clean(q)) = Based(wd, q)
    BY <2>10, <2>11, BasedClean
  <2>13. Based(wd, Clean(Longer(q, b))) = Abs(Based(wd, q).segs \o b)
    BY <1>1, <2>10, <2>11, BasedLonger
  <2>14. QED
    BY <2>9, <2>10, <2>12, <2>13 DEF y
<1>5. QED
  BY <1>3, <1>4

(* So the place an entry is read from is the one it is copied to, ...       *)
LEMMA EntryPlace ==
  ASSUME Inv, WdNeat, Fit(Untilded), Fit(Spelled), NamesSpelled, TildesFirst, TildesPlain,
         IsSandbox, WdAbsolute(Sb), NEW p \in Args, NEW b \in Seq(EntryName), b # <<>>
  PROVE  Os(Host(Sb, Join(p, Relv(b)))) = Os(FixtureDir(p)) \o b
<1> DEFINE r == ResolvePath(Sb, p)
           s == r.segs
           c == s \o b
           y == Join(p, Relv(b))
           o == Abs(c)
           j == JailSegs(Sb)
<1>1. /\ Sb \in live /\ Sb # "os" /\ p \in Path
      /\ b \in Seq(STRING) /\ Plain(b) /\ b \in Seq(PlainName)
  BY ConstantTypes, EntryTypes DEF IsSandbox, Sb
<1>2. /\ Os(FixtureDir(p)) = j \o s /\ r \in Path /\ Settled(r) /\ j \in Seq(STRING)
  BY <1>1, FixturePlace DEF JailSegs
<1>3. r \in Spelled
  <2>1. Resolving(Spelled)
    BY SpelledResolving
  <2>2. r \in Spelled \cup {NoPath}
    BY <1>1, <2>1 DEF Resolving
  <2>3. QED
    BY <1>2, <2>2, ConstantTypes
<1>4. ResolvePath(Sb, y) = o
  BY <1>1, EntryResolved
<1> HIDE DEF r, y, j
<1>5. s \in Seq(STRING) /\ Plain(s) /\ s \in Seq(PlainName)
  BY <1>2, <1>3 DEF Path, Settled, Spelled, PathOf
<1> HIDE DEF s
<1>6. c \in Seq(PlainName) /\ Plain(c) /\ c \in Seq(STRING)
  <2>1. c \in Seq(PlainName)
    BY <1>1, <1>5, ConcatOf
  <2>2. Len(c) \in Nat /\ \A i \in 1..Len(c) : i > Len(s) => c[i] \notin Dots
    <3>1. \A i \in 1..Len(b) : b[i] \notin Dots
      BY <1>1 DEF Plain, Dots
    <3>2. QED
      BY <1>1, <1>5, <2>1, <3>1, SecondPart, SeqRange
  <2>3. Len(s) \in Nat /\ \A i \in 1..Len(s) : c[i] = s[i]
    BY <1>1, <1>5, ConcatOf, SeqRange
  <2> HIDE DEF c
  <2>4. \A i \in 1..Len(c) : c[i] \notin Dots
    <3> SUFFICES ASSUME NEW i \in 1..Len(c)
                 PROVE  c[i] \notin Dots
      OBVIOUS
    <3>1. CASE i > Len(s)
      BY <2>2, <3>1
    <3>2. CASE ~(i > Len(s))
      <4>1. i \in 1..Len(s)
        BY <2>2, <2>3, <3>2
      <4>2. QED
        BY <1>5, <2>3, <4>1 DEF Plain, Dots
    <3>3. QED
      BY <3>1, <3>2
  <2>5. c \in Seq(STRING)
    BY <2>1, SpelledTypes, SeqIncluded
  <2>6. QED
    BY <2>1, <2>4, <2>5 DEF Plain, Dots
<1> HIDE DEF c
<1>7. o \in Seen(Sb) /\ o.segs = c /\ o \in Path /\ Settled(o)
  BY <1>1, <1>6 DEF Seen, Names, PathOf, Path, Settled, Abs
<1> HIDE DEF o
<1>8. Host(Sb, y) = Host(Sb, o)
  BY <1>1, <1>4, <1>7, ResolveAgain DEF Host
<1>9. Os(Host(Sb, o)) = j \o c
  BY <1>1, <1>7, HostOf DEF j
<1>10. j \o (s \o b) = (j \o s) \o b
  BY <1>1, <1>2, <1>5, ConcatAssociative
<1>11. QED
  BY <1>2, <1>8, <1>9, <1>10 DEF c, y

(* ... and what is copied stays to the end: later entries have other names. *)
Held(g, d, x) == x.node # DirNode => Content(g, d \o x.at) = x.node

LEMMA CopyHolds ==
  ASSUME NEW c, NEW d \in Seq(STRING), NEW x \in Item, Copy(c, d, x).ok
  PROVE  /\ Held(Copy(c, d, x).tree, d, x)
         /\ \A y \in Item : y.at # x.at /\ Held(c.tree, d, y) => Held(Copy(c, d, x).tree, d, y)
<1> DEFINE t == d \o x.at
<1>0. x.at \in Seq(STRING) /\ t \in Seq(STRING)
  BY ConcatOf DEF Item
<1>1. x.at \in Seq(STRING) /\ t \in Seq(STRING) /\ t # NoPath
  <2> HIDE DEF t
  <2>1. QED
    BY <1>0, ConstantTypes
<1>2. c.ok
  BY DEF Copy
<1>3. CASE x.node = DirNode
  <2>1. Copy(c, d, x) = Made(c.tree, t)
    BY <1>2, <1>3 DEF Copy
  <2>2. Copy(c, d, x).tree = MkdirAll(c.tree, t)
    BY <2>1 DEF Made
  <2> HIDE DEF t
  <2>3. \A q \in DOMAIN c.tree : q \in DOMAIN MkdirAll(c.tree, t)
                                   /\ MkdirAll(c.tree, t)[q] = c.tree[q]
    BY DEF MkdirAll
  <2>4. ASSUME NEW y \in Item, Held(c.tree, d, y), y.node # DirNode
        PROVE  Content(Copy(c, d, x).tree, d \o y.at) = y.node
    <3>1. d \o y.at \in Seq(STRING) /\ y.node # NoPath
      BY ConcatOf, EnvAssumption DEF Item
    <3>2. IsFile(c.tree, d \o y.at) /\ c.tree[d \o y.at] = y.node
      BY <2>4, <3>1 DEF Held, Content
    <3>3. QED
      BY <2>2, <2>3, <3>1, <3>2, ConstantTypes DEF Content, IsFile
  <2>5. QED
    BY <1>3, <2>4 DEF Held
<1>4. CASE x.node # DirNode
  <2>1. Copy(c, d, x) = Written(c.tree, t, x.node)
    BY <1>2, <1>4 DEF Copy
  <2>2. Copy(c, d, x).tree = Put(c.tree, t, x.node)
    BY <2>1 DEF Written
  <2> HIDE DEF t
  <2>3. /\ \A q \in DOMAIN c.tree \ {t} : q \in DOMAIN Put(c.tree, t, x.node)
                                         /\ Put(c.tree, t, x.node)[q] = c.tree[q]
        /\ t \in DOMAIN Put(c.tree, t, x.node) /\ Put(c.tree, t, x.node)[t] = x.node
    BY DEF Put
  <2>4. ASSUME NEW y \in Item, y.at # x.at, Held(c.tree, d, y), y.node # DirNode
        PROVE  Content(Copy(c, d, x).tree, d \o y.at) = y.node
    <3>1. d \o y.at \in Seq(STRING) /\ y.node # NoPath /\ y.at \in Seq(STRING)
      BY ConcatOf, EnvAssumption DEF Item
    <3>2. IsFile(c.tree, d \o y.at) /\ c.tree[d \o y.at] = y.node
      BY <2>4, <3>1 DEF Held, Content
    <3>3. d \o y.at # t
      BY <1>1, <2>4, <3>1, ConcatSimplifications DEF t
    <3>4. QED
      BY <2>2, <2>3, <3>1, <3>2, <3>3, ConstantTypes DEF Content, IsFile
  <2>5. Content(Copy(c, d, x).tree, t) = x.node
    BY <1>1, <1>4, <2>2, <2>3 DEF Content, IsFile
  <2>6. QED
    BY <2>4, <2>5 DEF Held, t
<1>5. QED
  BY <1>3, <1>4

LEMMA CopiedHolds ==
  ASSUME NEW f, NEW d \in Seq(STRING), NEW fx \in Seq(Item),
         \A i, j \in DOMAIN fx : fx[i].at = fx[j].at => i = j, Copied(f, d, fx).ok
  PROVE  \A i \in DOMAIN fx : Held(Copied(f, d, fx).tree, d, fx[i])
<1> DEFINE n == Len(fx)
           h == CHOOSE h : Copies(f, d, fx, n, h)
<1>1. n \in Nat /\ DOMAIN fx = 1..n /\ \A i \in 1..n : fx[i] \in Item
  BY SeqRange
<1>2. Copies(f, d, fx, n, h)
  <2>1. \E g : Copies(f, d, fx, n, g)
    BY <1>1, CopiesExist
  <2>2. QED
    BY <2>1
<1>3. Copied(f, d, fx) = h[n]
  BY DEF Copied, Copies
<1> HIDE DEF h, n
<1>4. \A i \in 0..n : h[i] = IF i = 0 THEN Made(f, d) ELSE Copy(h[i - 1], d, fx[i])
  BY <1>2 DEF Copies
<1> DEFINE T == {m \in 0..n : h[m].ok => \A i \in 1..m : Held(h[m].tree, d, fx[i])}
<1>5. 0 \in T
  BY <1>1
<1>6. ASSUME NEW m \in 1..n, m - 1 \in T
      PROVE  m \in T
  <2>1. /\ m \in 0..n /\ h[m] = Copy(h[m - 1], d, fx[m]) /\ fx[m] \in Item
        /\ \A i \in 1..m : i # m => i \in 1..(m - 1) /\ i \in 1..n
    BY <1>1, <1>4
  <2>2. SUFFICES ASSUME h[m].ok
                 PROVE  \A i \in 1..m : Held(h[m].tree, d, fx[i])
    BY <2>1
  <2>3. h[m - 1].ok
    BY <2>1, <2>2 DEF Copy
  <2>4. \A i \in 1..(m - 1) : Held(h[m - 1].tree, d, fx[i])
    BY <1>6, <2>3
  <2>5. /\ Held(h[m].tree, d, fx[m])
        /\ \A y \in Item : y.at # fx[m].at /\ Held(h[m - 1].tree, d, y) => Held(h[m].tree, d, y)
    BY <2>1, <2>2, CopyHolds
  <2>6. \A i \in 1..m : i # m => fx[i].at # fx[m].at /\ fx[i] \in Item
    BY <1>1, <2>1
  <2>7. QED
    BY <2>1, <2>4, <2>5, <2>6
<1>7. T \subseteq 0..n /\ n \in 0..n
  BY <1>1
<1> HIDE DEF T
<1>8. n \in T
  BY <1>1, <1>5, <1>6, <1>7, Inherited
<1>9. QED
  BY <1>1, <1>3, <1>8 DEF T

(* From an absolute working directory, what WithFixture copies lands       *)
(* inside the jail, and its files are read under the path it was given.    *)
THEOREM FixtureReadsBack ==
  ASSUME CleanHomes, NamesSpelled, TildesFirst, TildesPlain, FixturesNamed
  PROVE  SandboxSpec => FixtureLands
<1> DEFINE A == UNCHANGED <<live, env, data>> /\ fs' # fs /\ IsSandbox =>
                \A p \in Args, fixture \in Fixtures :
                  WdAbsolute(Sb) /\ WithFixture(fixture, p) =>
                    /\ Confined(Sb)
                    /\ FixtureCopied(fixture, p).ok =>
                         \A i \in DOMAIN fixture :
                           fixture[i].node # DirNode =>
                             ReadFile(fs', Sb, Join(p, Relv(fixture[i].at)))
                               = fixture[i].node
<1>1. Inv /\ WdNeat /\ Fit(Untilded) /\ Fit(Spelled) => A
  <2> SUFFICES ASSUME Inv, WdNeat, Fit(Untilded), Fit(Spelled), IsSandbox,
                      NEW p \in Args, NEW fixture \in Fixtures,
                      WdAbsolute(Sb), WithFixture(fixture, p)
               PROVE  /\ Confined(Sb)
                      /\ FixtureCopied(fixture, p).ok =>
                           \A i \in DOMAIN fixture :
                             fixture[i].node # DirNode =>
                               ReadFile(fs', Sb, Join(p, Relv(fixture[i].at)))
                                 = fixture[i].node
    OBVIOUS
  <2>1. Confined(Sb)
    BY FixtureInJail
  <2>2. ASSUME FixtureCopied(fixture, p).ok, NEW i \in DOMAIN fixture,
               fixture[i].node # DirNode
        PROVE  ReadFile(fs', Sb, Join(p, Relv(fixture[i].at))) = fixture[i].node
    <3> DEFINE d == Os(FixtureDir(p))
               x == fixture[i]
               y == Join(p, Relv(x.at))
    <3>1. d \in Seq(STRING) /\ fixture \in Seq(Item)
      <4>1. p \in Path /\ Sb \in live
        BY ConstantTypes DEF IsSandbox
      <4>2. d \in Seq(STRING)
        BY <4>1, FixtureGrows
      <4>3. QED
        BY <4>2, FixtureAssumption DEF Item
    <3>2. /\ FixtureCopied(fixture, p) = Copied(fs, d, fixture)
          /\ fs' = Copied(fs, d, fixture).tree
      BY DEF FixtureCopied, WithFixture, OnDisk
    <3>3. /\ x.at \in Seq(EntryName) /\ x.at # <<>>
          /\ \A k, l \in DOMAIN fixture : fixture[k].at = fixture[l].at => k = l
      BY DEF FixturesNamed
    <3>4. Os(Host(Sb, y)) = d \o x.at
      BY <3>3, EntryPlace
    <3> HIDE DEF d, y
    <3>5. \A k \in DOMAIN fixture : Held(Copied(fs, d, fixture).tree, d, fixture[k])
      BY <2>2, <3>1, <3>2, <3>3, CopiedHolds
    <3>6. Content(fs', d \o x.at) = x.node
      BY <2>2, <3>2, <3>5 DEF Held
    <3>7. ReadFile(fs', Sb, y) = Content(fs', d \o x.at)
      BY <3>4 DEF ReadFile
    <3>8. QED
      BY <3>6, <3>7 DEF y
  <2>3. QED
    BY <2>1, <2>2
<1>2. QED
  BY <1>1, UntildedCorrect, SpelledCorrect, PTL DEF SandboxSpec, FixtureLands
=============================================================================
