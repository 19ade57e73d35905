------------------------- MODULE AtomicWriteProofs -------------------------
(***************************************************************************)
(* For any number of writers, readers, calls and parts: what is at the     *)
(* path is whole, and AtomicWrite implements AtomicFile.                   *)
(***************************************************************************)
EXTENDS AtomicWrite, TLAPS

(* A file that its writer will not touch any more.                         *)
Past(f) ==
  \/ f[2] < count[f[1]]
  \/ f[2] = count[f[1]] /\ pc[f[1]] \in {"remove", "idle"}
Settled(f) == f \in Files /\ Whole(f) /\ Past(f)

(* What a call has done by the step it is at.                              *)
Progress(w) ==
  /\ pc[w] # "idle" => count[w] # 0
  /\ pc[w] \in {"close", "chmod", "rename"} => parts[Own(w)] = Parts
  /\ pc[w] = "rename" => Own(w) \in moded \cup slack
  /\ pc[w] = "remove" => outcome[w] \in {"ok", "error"}

(* The types the proofs need, without where the files are.                 *)
Types ==
  /\ pc \in [Writers -> Steps]
  /\ count \in [Writers -> 0..MaxWrites]
  /\ outcome \in [Writers -> {"none", "ok", "error", "lost"}]
  /\ report \in [Writers -> {"none", "ok", "error"}]
  /\ target \in Files \cup {None}
  /\ parts \in [Files -> 0..Parts]
  /\ opened \in [Readers -> Files \cup {None}]

Inv ==
  /\ Types
  /\ \A w \in Writers : Progress(w)
  /\ target # None => Settled(target)
  /\ \A r \in reading : r \in Readers /\ Settled(opened[r])

LEMMA OwnFile ==
  ASSUME Types, NEW w \in Writers, Progress(w), pc[w] # "idle"
  PROVE  Own(w) \in Files /\ count[w] \in 1..MaxWrites
  BY WriteAssumption DEF Types, Progress, Own, Files

LEMMA InitInv == Init => Inv
  BY WriteAssumption DEF Init, Inv, Types, Progress, Settled, Steps, Files

(* A settled file stays settled when no more than the calls that are       *)
(* under way go on.                                                        *)
LEMMA StaysSettled ==
  ASSUME Types, Types', NEW f, Settled(f),
         NEW w \in Writers, Progress(w),
         \A v \in Writers \ {w} : pc'[v] = pc[v] /\ count'[v] = count[v],
         count'[w] >= count[w],
         pc[w] # "idle" => count'[w] = count[w],
         pc[w] = "idle" => count'[w] > count[w],
         pc[w] = "remove" => pc'[w] = "idle",
         \A g \in Files : g # Own(w) => parts'[g] = parts[g],
         pc[w] \notin {"write"} => parts' = parts,
         moded \subseteq moded', slack \subseteq slack'
  PROVE  Settled(f)'
<1>1. f \in Files /\ f[1] \in Writers /\ f[2] \in 1..MaxWrites /\ f = <<f[1], f[2]>>
  BY DEF Settled, Files
<1>2. parts'[f] = parts[f]
  <2>1. CASE pc[w] = "write"
    <3>1. f # Own(w)
      BY <2>1, <1>1 DEF Settled, Past, Own, Types
    <3> QED BY <3>1, <1>1
  <2>2. CASE pc[w] # "write"
    BY <2>2
  <2> QED BY <2>1, <2>2
<1>3. Past(f)'
  <2>1. CASE f[1] = w
    BY <2>1, <1>1 DEF Settled, Past, Types
  <2>2. CASE f[1] # w
    BY <2>2, <1>1 DEF Settled, Past
  <2> QED BY <2>1, <2>2
<1> QED BY <1>1, <1>2, <1>3 DEF Settled, Whole

(* What every writer's action does to Inv, given that it keeps the types   *)
(* and its own writer's progress and moves the target only to its file.    *)
LEMMA WriterKeepsInv ==
  ASSUME Inv, Types', NEW w \in Writers, Progress(w)',
         \A v \in Writers \ {w} :
           pc'[v] = pc[v] /\ count'[v] = count[v] /\ outcome'[v] = outcome[v],
         count'[w] >= count[w],
         pc[w] # "idle" => count'[w] = count[w],
         pc[w] = "idle" => count'[w] > count[w],
         pc[w] = "remove" => pc'[w] = "idle",
         \A g \in Files : g # Own(w) => parts'[g] = parts[g],
         pc[w] \notin {"write"} => parts' = parts,
         moded \subseteq moded', slack \subseteq slack',
         target' = target \/ Settled(target)',
         UNCHANGED reader
  PROVE  Inv'
<1>1. ASSUME NEW f, Settled(f) PROVE Settled(f)'
  BY <1>1, StaysSettled DEF Inv
<1>2. ASSUME NEW v \in Writers PROVE Progress(v)'
  <2>1. CASE v # w
    <3>1. Own(v)' = Own(v) /\ (pc[v] # "idle" => Own(v) \in Files /\ Own(v) # Own(w))
      BY <2>1, OwnFile DEF Inv, Own
    <3> QED BY <2>1, <3>1 DEF Inv, Progress
  <2> QED BY <2>1
<1>3. (target # None => Settled(target))'
  <2>1. CASE target' = target /\ target # None
    <3>1. PICK f : f = target OBVIOUS
    <3>2. Settled(f)' BY <1>1, <2>1, <3>1 DEF Inv
    <3> QED BY <2>1, <3>1, <3>2 DEF Settled, Whole, Past
  <2> QED BY <2>1
<1>4. (\A r \in reading : r \in Readers /\ Settled(opened[r]))'
  <2> SUFFICES ASSUME NEW r \in reading PROVE r \in Readers /\ Settled(opened[r])'
    BY DEF reader
  <2>1. PICK f : f = opened[r] OBVIOUS
  <2>2. r \in Readers /\ Settled(f)' BY <1>1, <2>1 DEF Inv
  <2> QED BY <2>1, <2>2 DEF reader, Settled, Whole, Past
<1> QED BY <1>2, <1>3, <1>4 DEF Inv

LEMMA NextInv == Inv /\ [Next]_vars => Inv'
<1> SUFFICES ASSUME Inv, [Next]_vars PROVE Inv'
  OBVIOUS
<1> USE DEF Goto, Answer
<1>1. ASSUME NEW w \in Writers, Begin(w) PROVE Inv'
  <2>1. Types' BY <1>1, WriteAssumption DEF Inv, Types, Begin, disk, reader, Steps
  <2>2. Progress(w)' BY <1>1 DEF Inv, Types, Begin, Progress
  <2> QED BY <1>1, <2>1, <2>2, WriterKeepsInv DEF Inv, Types, Begin, disk
<1>2. ASSUME NEW w \in Writers, Fail(w) PROVE Inv'
  <2>1. Types' BY <1>2 DEF Inv, Types, Fail, disk, reader, Steps
  <2>2. Progress(w)' BY <1>2 DEF Inv, Types, Fail, Progress
  <2> QED BY <1>2, <2>1, <2>2, WriterKeepsInv DEF Inv, Types, Fail, disk
<1>3. ASSUME NEW w \in Writers, MkdirAll(w) PROVE Inv'
  <2>1. Types' BY <1>3 DEF Inv, Types, MkdirAll, disk, reader, Steps
  <2>2. Progress(w)' BY <1>3 DEF Inv, Types, MkdirAll, Progress
  <2> QED BY <1>3, <2>1, <2>2, WriterKeepsInv DEF Inv, Types, MkdirAll, disk
<1>4. ASSUME NEW w \in Writers, CreateTemp(w) PROVE Inv'
  <2>1. Types' BY <1>4 DEF Inv, Types, CreateTemp, reader, Steps
  <2>2. Progress(w)' BY <1>4 DEF Inv, Types, CreateTemp, Progress
  <2> QED BY <1>4, <2>1, <2>2, WriterKeepsInv DEF Inv, Types, CreateTemp
<1>5. ASSUME NEW w \in Writers, Write(w) PROVE Inv'
  <2>0. Own(w) \in Files BY <1>5, OwnFile DEF Inv, Write
  <2>1. Types' BY <1>5, <2>0, WriteAssumption DEF Inv, Types, Write, reader, Steps
  <2>2. Progress(w)' BY <1>5, <2>0 DEF Inv, Types, Write, Progress, Own
  <2> QED BY <1>5, <2>1, <2>2, WriterKeepsInv DEF Inv, Types, Write
<1>6. ASSUME NEW w \in Writers, WriteShort(w) PROVE Inv'
  <2>0. Own(w) \in Files BY <1>6, OwnFile DEF Inv, WriteShort
  <2>1. Types' BY <1>6, <2>0, WriteAssumption DEF Inv, Types, WriteShort, reader, Steps
  <2>2. Progress(w)' BY <1>6 DEF Inv, Types, WriteShort, Progress
  <2> QED BY <1>6, <2>1, <2>2, WriterKeepsInv DEF Inv, Types, WriteShort
<1>7. ASSUME NEW w \in Writers, Close(w) PROVE Inv'
  <2>1. Types' BY <1>7 DEF Inv, Types, Close, disk, reader, Steps
  <2>2. Progress(w)' BY <1>7 DEF Inv, Types, Close, Progress, disk, Own
  <2> QED BY <1>7, <2>1, <2>2, WriterKeepsInv DEF Inv, Types, Close, disk
<1>8. ASSUME NEW w \in Writers, Chmod(w) PROVE Inv'
  <2>1. Types' BY <1>8 DEF Inv, Types, Chmod, reader, Steps
  <2>2. Progress(w)' BY <1>8 DEF Inv, Types, Chmod, Progress, Own
  <2> QED BY <1>8, <2>1, <2>2, WriterKeepsInv DEF Inv, Types, Chmod
<1>9. ASSUME NEW w \in Writers, Rename(w) PROVE Inv'
  <2>0. Own(w) \in Files BY <1>9, OwnFile DEF Inv, Rename
  <2>1. Types' BY <1>9, <2>0 DEF Inv, Types, Rename, reader, Steps
  <2>2. Progress(w)' BY <1>9 DEF Inv, Types, Rename, Progress
  <2>3. Settled(target)'
    <3>1. Whole(Own(w)) BY <1>9 DEF Inv, Progress, Rename, Whole
    <3>2. target' = Own(w) /\ Own(w)[1] = w /\ Own(w)[2] = count[w]
      BY <1>9 DEF Rename, Own
    <3> QED BY <1>9, <2>0, <3>1, <3>2 DEF Inv, Types, Rename, Settled, Whole, Past
  <2> QED BY <1>9, <2>1, <2>2, <2>3, WriterKeepsInv DEF Inv, Types, Rename
<1>10. ASSUME NEW w \in Writers, RenameFails(w) PROVE Inv'
  <2>1. Types' BY <1>10 DEF Inv, Types, RenameFails, disk, reader, Steps
  <2>2. Progress(w)' BY <1>10 DEF Inv, Types, RenameFails, Progress
  <2> QED BY <1>10, <2>1, <2>2, WriterKeepsInv DEF Inv, Types, RenameFails, disk
<1>11. ASSUME NEW w \in Writers, Remove(w) PROVE Inv'
  <2>1. Types' BY <1>11 DEF Inv, Types, Progress, Remove, reader, Steps
  <2>2. Progress(w)' BY <1>11 DEF Inv, Types, Remove, Progress
  <2> QED BY <1>11, <2>1, <2>2, WriterKeepsInv DEF Inv, Types, Remove
<1>12. ASSUME NEW w \in Writers, Crash(w) PROVE Inv'
  <2>1. Types' BY <1>12 DEF Inv, Types, Crash, disk, reader, Steps
  <2>2. Progress(w)' BY <1>12 DEF Inv, Types, Crash, Progress
  <2> QED BY <1>12, <2>1, <2>2, WriterKeepsInv DEF Inv, Types, Crash, disk
<1>13. ASSUME NEW r \in Readers, Open(r) PROVE Inv'
  BY <1>13 DEF Inv, Types, Open, Progress, Own, Settled, Whole, Past, disk
<1>14. ASSUME NEW r \in Readers, Finish(r) PROVE Inv'
  BY <1>14 DEF Inv, Types, Finish, Progress, Own, Settled, Whole, Past, disk
<1>15. CASE UNCHANGED vars
  BY <1>15 DEF Inv, Types, Progress, Own, Settled, Whole, Past, vars
<1> QED
  BY <1>1, <1>2, <1>3, <1>4, <1>5, <1>6, <1>7, <1>8, <1>9, <1>10, <1>11,
     <1>12, <1>13, <1>14, <1>15 DEF Next

THEOREM Invariance == Spec => []Inv
  BY InitInv, NextInv, PTL DEF Spec

-----------------------------------------------------------------------------
(* What is at the path, and what a reader has open, is always the whole    *)
(* data of one call, with its mode unless Chmod failed.                    *)
THEOREM NothingPartial == Spec => []NeverPartial
<1>1. Inv => NeverPartial
  BY DEF Inv, NeverPartial, Settled
<1> QED BY <1>1, Invariance, PTL

-----------------------------------------------------------------------------
(* Where the files are: a temporary file is of an earlier call, or of the  *)
(* current one from its creation to its end, or its caller died.           *)
Kept(f) ==
  \/ f[2] < count[f[1]]
  \/ f = Own(f[1]) /\ (\/ pc[f[1]] \notin {"idle", "mkdir", "create"}
                       \/ pc[f[1]] = "idle" /\ outcome[f[1]] = "lost")
Places ==
  /\ temps \subseteq Files /\ moded \subseteq Files /\ slack \subseteq Files
  /\ reading \subseteq Readers
  /\ target \notin temps
  /\ \A f \in temps : Kept(f)

LEMMA PairOfFile ==
  ASSUME NEW f \in Files
  PROVE  f[1] \in Writers /\ f[2] \in Nat /\ f = <<f[1], f[2]>>
  BY WriteAssumption DEF Files

LEMMA InitPlaces == Init => Places
  BY WriteAssumption DEF Init, Places, Files

(* A step of w that leaves the places alone, but perhaps takes w's file    *)
(* away, and does not forget a file that stays.                            *)
LEMMA StepKeepsPlaces ==
  ASSUME Inv, Places, NEW w \in Writers,
         temps' = temps \/ temps' = temps \ {Own(w)},
         UNCHANGED <<target, moded, slack, reading>>,
         \A v \in Writers \ {w} :
           count'[v] = count[v] /\ pc'[v] = pc[v] /\ outcome'[v] = outcome[v],
         \A f \in temps' : f[1] = w => Kept(f)'
  PROVE  Places'
<1>1. ASSUME NEW f \in temps', f[1] # w PROVE Kept(f)'
  BY <1>1, PairOfFile DEF Places, Kept, Own
<1> QED BY <1>1 DEF Places

LEMMA NextPlaces == Inv /\ Places /\ [Next]_vars => Places'
<1> SUFFICES ASSUME Inv, Places, [Next]_vars PROVE Places'
  OBVIOUS
<1> USE DEF Goto, Answer
<1>1. ASSUME NEW w \in Writers, Begin(w) PROVE Places'
  <2>1. ASSUME NEW f \in temps, f[1] = w PROVE Kept(f)'
    <3>1. f[2] <= count[w] /\ count[w] \in Nat /\ f[2] \in Nat
      BY <2>1, PairOfFile, WriteAssumption DEF Places, Kept, Own, Inv, Types
    <3>2. count'[w] = count[w] + 1 BY <1>1 DEF Begin, Inv, Types
    <3> QED BY <2>1, <3>1, <3>2 DEF Kept
  <2> QED BY <1>1, <2>1, StepKeepsPlaces DEF Begin, disk, reader, Inv, Types
<1>2. ASSUME NEW w \in Writers, \/ Fail(w) \/ MkdirAll(w) \/ RenameFails(w)
                                 \/ Close(w) \/ Write(w) \/ WriteShort(w)
                                 \/ Crash(w)
      PROVE  Places'
  <2>1. UNCHANGED <<temps, target, moded, slack, reading, count>>
    BY <1>2 DEF Fail, MkdirAll, RenameFails, Close, Write, WriteShort, Crash, disk, reader
  <2>2. ASSUME NEW f \in temps, f[1] = w PROVE Kept(f)'
    BY <1>2, <2>1, <2>2, PairOfFile
    DEF Fail, MkdirAll, RenameFails, Close, Write, WriteShort, Crash,
        Places, Kept, Own, Inv, Types
  <2>3. \A v \in Writers \ {w} : pc'[v] = pc[v] /\ outcome'[v] = outcome[v]
    BY <1>2 DEF Fail, MkdirAll, RenameFails, Close, Write, WriteShort, Crash, Inv, Types
  <2> QED BY <2>1, <2>2, <2>3, StepKeepsPlaces
<1>3. ASSUME NEW w \in Writers, CreateTemp(w) PROVE Places'
  <2>1. Own(w) \in Files BY <1>3, OwnFile DEF Inv, CreateTemp
  <2>2. target # Own(w)
    <3>1. target = Own(w) => Past(Own(w))
      BY <2>1, WriteAssumption DEF Inv, Settled, Files
    <3>2. ~Past(Own(w))
      BY <1>3, WriteAssumption DEF Past, Own, CreateTemp, Inv, Types
    <3> QED BY <3>1, <3>2
  <2>3. ASSUME NEW f \in temps' PROVE Kept(f)'
    BY <1>3, <2>1, <2>3, PairOfFile DEF CreateTemp, Places, Kept, Own, Inv, Types
  <2> QED BY <1>3, <2>1, <2>2, <2>3 DEF CreateTemp, Places, reader
<1>4. ASSUME NEW w \in Writers, Chmod(w) PROVE Places'
  <2>1. Own(w) \in Files BY <1>4, OwnFile DEF Inv, Chmod
  <2>2. ASSUME NEW f \in temps PROVE Kept(f)'
    BY <1>4, <2>2, PairOfFile DEF Chmod, Places, Kept, Own, Inv, Types
  <2> QED BY <1>4, <2>1, <2>2 DEF Chmod, Places, reader
<1>5. ASSUME NEW w \in Writers, Rename(w) PROVE Places'
  <2>1. ASSUME NEW f \in temps' PROVE Kept(f)'
    BY <1>5, <2>1, PairOfFile DEF Rename, Places, Kept, Own, Inv, Types
  <2> QED BY <1>5, <2>1 DEF Rename, Places, reader
<1>6. ASSUME NEW w \in Writers, Remove(w) PROVE Places'
  <2>1. ASSUME NEW f \in temps', f[1] = w PROVE Kept(f)'
    BY <1>6, <2>1, PairOfFile DEF Remove, Places, Kept, Own, Inv, Types
  <2> QED BY <1>6, <2>1, StepKeepsPlaces DEF Remove, reader, Inv, Types
<1>7. ASSUME NEW r \in Readers, Open(r) \/ Finish(r) PROVE Places'
  BY <1>7 DEF Open, Finish, Places, Kept, Own, disk
<1>8. CASE UNCHANGED vars
  BY <1>8 DEF Places, Kept, Own, vars
<1> QED BY <1>1, <1>2, <1>3, <1>4, <1>5, <1>6, <1>7, <1>8 DEF Next

THEOREM PlacesInvariance == Spec => []Places
  BY InitPlaces, NextPlaces, Invariance, PTL DEF Spec

(* Variables keep their types, and a file is at one place at most.         *)
THEOREM TypeCorrect == Spec => []TypeOK
<1>1. Inv /\ Places => TypeOK
  BY DEF Inv, Types, Places, TypeOK
<1> QED BY <1>1, Invariance, PlacesInvariance, PTL

(* No call that ends, well or badly, leaves a temporary file behind.       *)
THEOREM NothingLeft == Spec => []NoLitter
<1>1. Inv /\ Places => NoLitter
  BY PairOfFile DEF Places, Kept, NoLitter
<1> QED BY <1>1, Invariance, PlacesInvariance, PTL

-----------------------------------------------------------------------------
(* The mapping of AtomicFile's variables.                                  *)
Writing == [w \in Writers |-> IF count[w] = 0 THEN None ELSE Own(w)]

LEMMA InitAtomic == Init => AF!Init
  BY DEF Init, AF!Init, stage, Own

(* A writer's step that is none of the abstract file's.                    *)
LEMMA Stutters ==
  ASSUME Inv, NEW w \in Writers,
         pc[w] \notin {"idle", "rename", "remove"},
         pc'[w] # "idle", pc'[w] = "remove" => outcome'[w] = "error",
         \A v \in Writers \ {w} : pc'[v] = pc[v] /\ outcome'[v] = outcome[v],
         UNCHANGED <<count, report, target, opened>>
  PROVE  UNCHANGED AF!vars
<1>1. stage' = stage
  BY DEF stage
<1>2. Writing' = Writing
  BY DEF Writing, Own
<1> QED BY <1>1, <1>2 DEF AF!vars, Writing

(* Every step of the code is a step of the atomic file or none: Rename is  *)
(* the instant of the write, Open the instant of the read.                 *)
LEMMA StepAtomic == Inv /\ Inv' /\ [Next]_vars => [AF!Next]_AF!vars
<1> SUFFICES ASSUME Inv, Inv', [Next]_vars PROVE [AF!Next]_AF!vars
  OBVIOUS
<1> USE DEF Goto, Answer
<1>1. ASSUME NEW w \in Writers, Begin(w) PROVE AF!Next
  <2>1. <<w, count[w] + 1>> \in Files
    <3>1. count[w] \in Nat /\ count[w] < MaxWrites
      BY <1>1, WriteAssumption DEF Inv, Types, Begin
    <3> QED BY <3>1, WriteAssumption DEF Files
  <2>2. stage[w] = "idle" /\ stage' = [stage EXCEPT ![w] = "pending"]
    BY <1>1 DEF Inv, Types, Begin, stage
  <2>3. PICK c \in Files : c = <<w, count[w] + 1>>
    BY <2>1
  <2>4. Writing' = [Writing EXCEPT ![w] = c]
    <3>1. count[w] + 1 # 0 /\ count' = [count EXCEPT ![w] = count[w] + 1]
      BY <1>1, WriteAssumption DEF Inv, Types, Begin
    <3>2. count'[w] = count[w] + 1 /\ \A v \in Writers \ {w} : count'[v] = count[v]
      BY <3>1 DEF Inv, Types
    <3>3. ASSUME NEW v \in Writers
          PROVE  (IF count'[v] = 0 THEN None ELSE <<v, count'[v]>>)
                   = IF v = w THEN c ELSE IF count[v] = 0 THEN None ELSE <<v, count[v]>>
      BY <2>3, <3>1, <3>2
    <3> QED BY <3>3 DEF Writing, Own
  <2>5. AF!Call(w, c)
    BY <1>1, <2>2, <2>4 DEF AF!Call, Begin, Writing, disk, reader
  <2> QED BY <2>5 DEF AF!Next
<1>2. ASSUME NEW w \in Writers, Fail(w) PROVE AF!Next
  <2>1. stage[w] = "pending" /\ stage' = [stage EXCEPT ![w] = "idle"]
    BY <1>2 DEF Inv, Types, Fail, stage
  <2>2. Writing' = Writing BY <1>2 DEF Fail, Writing, Own
  <2>3. AF!Return(w)
    BY <1>2, <2>1, <2>2 DEF AF!Return, Fail, Writing, disk, reader
  <2> QED BY <2>3 DEF AF!Next
<1>3. ASSUME NEW w \in Writers, MkdirAll(w) PROVE UNCHANGED AF!vars
  BY <1>3, Stutters DEF MkdirAll, Inv, Types, disk, reader
<1>4. ASSUME NEW w \in Writers, CreateTemp(w) PROVE UNCHANGED AF!vars
  BY <1>4, Stutters DEF CreateTemp, Inv, Types, reader
<1>5. ASSUME NEW w \in Writers, Write(w) PROVE UNCHANGED AF!vars
  BY <1>5, Stutters DEF Write, Inv, Types, reader
<1>6. ASSUME NEW w \in Writers, WriteShort(w) PROVE UNCHANGED AF!vars
  BY <1>6, Stutters DEF WriteShort, Inv, Types, reader
<1>7. ASSUME NEW w \in Writers, Close(w) PROVE UNCHANGED AF!vars
  BY <1>7, Stutters DEF Close, Inv, Types, disk, reader
<1>8. ASSUME NEW w \in Writers, Chmod(w) PROVE UNCHANGED AF!vars
  BY <1>8, Stutters DEF Chmod, Inv, Types, reader
<1>9. ASSUME NEW w \in Writers, Rename(w) PROVE AF!Next
  <2>1. stage[w] = "pending" /\ stage' = [stage EXCEPT ![w] = "effective"]
    BY <1>9 DEF Inv, Types, Rename, stage
  <2>2. Writing' = Writing /\ Writing[w] = Own(w)
    BY <1>9 DEF Inv, Progress, Rename, Writing, Own
  <2>3. AF!TakeEffect(w)
    BY <1>9, <2>1, <2>2 DEF AF!TakeEffect, Rename, Writing, reader
  <2> QED BY <2>3 DEF AF!Next
<1>10. ASSUME NEW w \in Writers, RenameFails(w) PROVE UNCHANGED AF!vars
  <2>1. stage' = stage BY <1>10 DEF Inv, Types, RenameFails, stage
  <2>2. Writing' = Writing BY <1>10 DEF RenameFails, Writing, Own
  <2> QED BY <1>10, <2>1, <2>2 DEF AF!vars, RenameFails, Writing, disk, reader
<1>11. ASSUME NEW w \in Writers, Remove(w) PROVE AF!Next
  <2>1. stage' = [stage EXCEPT ![w] = "idle"]
    BY <1>11 DEF Inv, Types, Remove, stage
  <2>2. Writing' = Writing BY <1>11 DEF Remove, Writing, Own
  <2>3. \/ stage[w] = "effective" /\ outcome[w] = "ok"
        \/ stage[w] = "pending" /\ outcome[w] = "error"
    BY <1>11 DEF Inv, Progress, Remove, stage
  <2>4. AF!Return(w)
    BY <1>11, <2>1, <2>2, <2>3 DEF AF!Return, Remove, Writing, reader
  <2> QED BY <2>4 DEF AF!Next
<1>12. ASSUME NEW w \in Writers, Crash(w) PROVE AF!Next
  <2>1. stage' = [stage EXCEPT ![w] = "idle"]
    BY <1>12 DEF Inv, Types, Crash, stage
  <2>2. Writing' = Writing BY <1>12 DEF Crash, Writing, Own
  <2>3. stage[w] \in {"effective", "pending"}
    BY <1>12 DEF Crash, stage
  <2>4. AF!Return(w)
    BY <1>12, <2>1, <2>2, <2>3 DEF AF!Return, Crash, Writing, disk, reader
  <2> QED BY <2>4 DEF AF!Next
<1>13. ASSUME NEW r \in Readers, Open(r) PROVE AF!Next
  <2>1. AF!Read(r)
    BY <1>13 DEF AF!Read, Open, stage, Own, disk
  <2> QED BY <2>1 DEF AF!Next
<1>14. ASSUME NEW r \in Readers, Finish(r) PROVE UNCHANGED AF!vars
  BY <1>14 DEF Finish, AF!vars, stage, Own, disk
<1>15. CASE UNCHANGED vars
  BY <1>15 DEF AF!vars, vars, stage, Own
<1> QED
  BY <1>1, <1>2, <1>3, <1>4, <1>5, <1>6, <1>7, <1>8, <1>9, <1>10, <1>11,
     <1>12, <1>13, <1>14, <1>15 DEF Next

(* AtomicWriteFile is an atomic write, whatever fails and whoever dies.    *)
THEOREM ImplementsAtomicFile == Spec => IsAtomicFile
  BY InitAtomic, StepAtomic, Invariance, PTL DEF Spec, IsAtomicFile, AF!Spec
=============================================================================
