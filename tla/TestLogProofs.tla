---------------------------- MODULE TestLogProofs --------------------------
(***************************************************************************)
(* What TLAPS proves of TestLog, for every set of handlers, goroutines,    *)
(* attributes and messages, and every number of calls.                     *)
(***************************************************************************)
EXTENDS TestLog, SequenceTheorems, WellFoundedInduction, NaturalsInduction, TLAPS

-----------------------------------------------------------------------------
(* Attributes, entries and searches.                                       *)

\* Putting attributes over attributes gives attributes.
LEMMA OverType ==
  ASSUME NEW f \in Maps, NEW g \in Maps
  PROVE  Over(f, g) \in Maps
<1>1. PICK F \in SUBSET Keys : f \in [F -> Vals]
  BY DEF Maps
<1>2. PICK G \in SUBSET Keys : g \in [G -> Vals]
  BY DEF Maps
<1>3. F \cup G \in SUBSET Keys /\ Over(f, g) \in [F \cup G -> Vals]
  BY <1>1, <1>2 DEF Over
<1>4. QED
  BY <1>3 DEF Maps

LEMMA SomeMaps == NoAttrs \in Maps /\ TestAttr \in Maps
<1>1. NoAttrs \in [{} -> Vals] /\ TestAttr \in [{"test"} -> Vals]
  BY LogAssumption DEF NoAttrs, TestAttr
<1>2. {} \in SUBSET Keys /\ {"test"} \in SUBSET Keys
  BY LogAssumption
<1>3. QED
  BY <1>1, <1>2 DEF Maps

LEMMA BuiltType ==
  ASSUME NEW h \in Handlers, attrs[h] \in Maps, NEW m \in Msgs, NEW own \in Maps
  PROVE  Built(h, m, own) \in Entries
BY OverType DEF Built, Entries

\* A search of a sequence finds the first that is wanted, or none.
LEMMA FirstMatchIsFirst ==
  ASSUME NEW s \in Seq(Entries)
  PROVE  /\ FirstMatch(s) \in Entries \cup {None}
         /\ FirstMatch(s) # None => FirstMatch(s).msg \in Wanted
         /\ EL!IsFirst(FirstMatch(s), s)
<1>1. DOMAIN s = 1..Len(s) /\ Len(s) \in Nat /\ \A i \in DOMAIN s : s[i] \in Entries
  BY LenProperties, ElementOfSeq
<1>2. CASE Matches(s) = {}
  BY <1>1, <1>2 DEF FirstMatch, Matches, EL!IsFirst
<1>3. CASE Matches(s) # {}
  <2>1. Matches(s) \subseteq Nat
    BY <1>1 DEF Matches
  <2>2. PICK m \in Matches(s) : \A k \in Matches(s) : <<k, m>> \notin OpToRel(<, Nat)
    BY <1>3, <2>1, WFMin, NatLessThanWellFounded, Zenon
  <2>3. \A k \in Matches(s) : ~ (k < m)
    BY <2>1, <2>2, Zenon DEF OpToRel
  <2>4. \A k \in Matches(s) : m <= k
    BY <2>1, <2>3
  <2> DEFINE c == CHOOSE i \in Matches(s) : \A j \in Matches(s) : i <= j
  <2>5. c \in Matches(s) /\ \A j \in Matches(s) : c <= j
    BY <2>4
  <2>6. FirstMatch(s) = s[c]
    BY <1>3 DEF FirstMatch
  <2> HIDE DEF c
  <2>7. c \in DOMAIN s /\ s[c].msg \in Wanted
    BY <2>5 DEF Matches
  <2>8. \A j \in 1..(c - 1) : s[j].msg \notin Wanted
    BY <1>1, <2>5, <2>7 DEF Matches
  <2>9. QED
    BY <1>1, <2>6, <2>7, <2>8 DEF EL!IsFirst
<1>4. QED
  BY <1>2, <1>3

-----------------------------------------------------------------------------
(* Types, action by action.                                                *)

LEMMA InitType == Init => TypeOK
<1>1. <<>> \in Seq(Entries)
  BY EmptySeq
<1>2. QED
  BY <1>1, SomeMaps, LogAssumption DEF Init, TypeOK, Handlers, Roots

LEMMA DeriveType ==
  ASSUME TypeOK, NEW h \in made, NEW d \in Derived, NEW a \in Maps, WithAttrs(h, d, a)
  PROVE  TypeOK'
<1>1. h \in Handlers /\ d \in Handlers
  BY DEF TypeOK, Handlers
<1>2. Over(a, attrs[h]) \in Maps /\ Over(a, asked[h]) \in Maps
  BY <1>1, OverType DEF TypeOK
<1>3. made' \subseteq Handlers /\ Roots \subseteq made' /\ made \subseteq made'
  BY <1>1 DEF TypeOK, WithAttrs
<1>4. attrs' \in [Handlers -> Maps] /\ asked' \in [Handlers -> Maps]
  BY <1>1, <1>2 DEF TypeOK, WithAttrs
<1>5. QED
  BY <1>3, <1>4 DEF TypeOK, WithAttrs, logging, polling

LEMMA BeginType ==
  ASSUME TypeOK, NEW g \in Loggers, NEW h \in made, NEW m \in Msgs, NEW own \in Maps,
         HandleBegin(g, h, m, own)
  PROVE  TypeOK'
<1>1. h \in Handlers /\ attrs[h] \in Maps
  BY DEF TypeOK
<1>2. Built(h, m, own) \in Entries
  BY <1>1, BuiltType
<1>3. [to |-> h, entry |-> Built(h, m, own)] \in Calls
  BY <1>1, <1>2 DEF Calls
<1> DEFINE c == [to |-> h, entry |-> Built(h, m, own)]
<1>4. c \in Calls /\ c # None /\ c.to = h
  BY <1>3, LogAssumption
<1>5. call' = [call EXCEPT ![g] = c]
  BY DEF HandleBegin
<1> HIDE DEF c
<1>6. begun' \in 0..MaxLogs
  BY LogAssumption DEF TypeOK, HandleBegin
<1>7. QED
  BY <1>4, <1>5, <1>6 DEF TypeOK, HandleBegin, handlers, polling

LEMMA AppendType ==
  ASSUME TypeOK, NEW g \in Loggers, HandleAppend(g)
  PROVE  TypeOK'
<1>0. call[g] \in Calls /\ call[g].to \in made
  BY DEF TypeOK, HandleAppend
<1>1. call[g].to \in made /\ call[g].to \in Handlers /\ call[g].entry \in Entries
  BY <1>0 DEF Calls
<1>2. Append(entries[call[g].to], call[g].entry) \in Seq(Entries)
  BY <1>1, AppendProperties DEF TypeOK
<1>3. entries' \in [Handlers -> Seq(Entries)]
      /\ \A h \in Handlers \ made : entries'[h] = <<>>
  BY <1>1, <1>2 DEF TypeOK, HandleAppend
<1>4. QED
  BY <1>3 DEF TypeOK, HandleAppend, handlers, polling

LEMMA ReturnType ==
  ASSUME TypeOK, NEW g \in Loggers, HandleReturn(g)
  PROVE  TypeOK'
BY DEF TypeOK, HandleReturn, handlers, polling

LEMMA SearchType ==
  ASSUME TypeOK, NEW w \in Watchers, Search(w)
  PROVE  TypeOK'
<1>1. entries[target[w]] \in Seq(Entries)
  BY DEF TypeOK
<1> DEFINE e == FirstMatch(entries[target[w]])
<1>2. e \in Entries \cup {None} /\ (e # None => e.msg \in Wanted)
  BY <1>1, FirstMatchIsFirst
<1>3. found' = [found EXCEPT ![w] = e]
  BY DEF Search
<1> HIDE DEF e
<1>4. QED
  BY <1>2, <1>3 DEF TypeOK, Search, Poll, handlers, logging

LEMMA PollType ==
  ASSUME TypeOK, NEW w \in Watchers,
         \/ \E h \in made : RequireEntry(w, h)
         \/ CheckDeadline(w) \/ Wake(w) \/ DeadlinePasses(w)
  PROVE  TypeOK'
<1>1. \A h \in Handlers : Len(entries[h]) \in Nat
  BY LenProperties DEF TypeOK
<1>2. ASSUME NEW h \in made, RequireEntry(w, h) PROVE TypeOK'
  BY <1>1, <1>2 DEF TypeOK, RequireEntry, Poll, handlers, logging
<1>3. CASE CheckDeadline(w)
  BY <1>3 DEF TypeOK, CheckDeadline, Poll, handlers, logging
<1>4. CASE Wake(w)
  BY <1>1, <1>4 DEF TypeOK, Wake, Poll, handlers, logging
<1>5. CASE DeadlinePasses(w)
  BY <1>5 DEF TypeOK, DeadlinePasses, handlers, logging
<1>6. QED
  BY <1>2, <1>3, <1>4, <1>5

\* A group's handler is one that was asked for no attributes.
LEMMA NextCases ==
  ASSUME Next
  PROVE  \/ \E h \in made, d \in Derived, a \in Maps : WithAttrs(h, d, a)
         \/ \E g \in Loggers, h \in made, m \in Msgs, own \in Maps : HandleBegin(g, h, m, own)
         \/ \E g \in Loggers : HandleAppend(g) \/ HandleReturn(g)
         \/ \E w \in Watchers : Search(w)
         \/ \E w \in Watchers : \/ \E h \in made : RequireEntry(w, h)
                                \/ CheckDeadline(w) \/ Wake(w) \/ DeadlinePasses(w)
BY SomeMaps DEF Next, WithGroup

LEMMA TypeStep == TypeOK /\ [Next]_vars => TypeOK'
<1> SUFFICES ASSUME TypeOK, [Next]_vars PROVE TypeOK'
  OBVIOUS
<1>1. CASE UNCHANGED vars
  BY <1>1 DEF TypeOK, vars, handlers, logging, polling
<1>2. CASE Next
  BY <1>2, NextCases, DeriveType, BeginType, AppendType, ReturnType, SearchType, PollType
<1>3. QED
  BY <1>1, <1>2

\* Handlers, entries and the states of callers stay within their types,
\* only derived handlers are made, and none has entries before it is made.
THEOREM TypeCorrect == Spec => []TypeOK
BY InitType, TypeStep, PTL DEF Spec

-----------------------------------------------------------------------------
(* Attribution.  A handler has what was asked for it, so a record is built *)
(* with it, and neither the record nor the handler changes before the      *)
(* record is appended.                                                     *)

Attributes == attrs = asked
CallAttribution ==
  \A g \in Loggers : call[g] # None =>
    call[g].entry.attrs = Over(call[g].entry.own, asked[call[g].to])
AInv == TypeOK /\ Attributes /\ CallAttribution /\ Attribution

LEMMA DeriveAttribution ==
  ASSUME AInv, NEW h \in made, NEW d \in Derived, NEW a \in Maps, WithAttrs(h, d, a)
  PROVE  Attributes' /\ CallAttribution' /\ Attribution'
<1>1. d \in Handlers /\ h \in Handlers /\ d \notin made
  BY DEF AInv, TypeOK, Handlers, WithAttrs
<1>2. Attributes'
  BY DEF AInv, Attributes, WithAttrs
<1>3. \A k \in made : asked'[k] = asked[k]
  BY <1>1 DEF AInv, TypeOK, WithAttrs
<1>4. CallAttribution'
  BY <1>3 DEF AInv, TypeOK, CallAttribution, WithAttrs, logging
<1>5. entries[d] = <<>> /\ entries' = entries /\ made' = made \cup {d}
  BY <1>1 DEF AInv, TypeOK, WithAttrs
<1>6. Attribution'
  BY <1>3, <1>5 DEF AInv, Attribution
<1>7. QED
  BY <1>2, <1>4, <1>6

LEMMA BeginAttribution ==
  ASSUME AInv, NEW g \in Loggers, NEW h \in made, NEW m \in Msgs, NEW own \in Maps,
         HandleBegin(g, h, m, own)
  PROVE  Attributes' /\ CallAttribution' /\ Attribution'
<1>1. Attributes' /\ Attribution'
  BY DEF AInv, Attributes, Attribution, HandleBegin, handlers
<1>2. call' = [call EXCEPT ![g] = [to |-> h, entry |-> Built(h, m, own)]]
  BY DEF HandleBegin
<1>3. call'[g].to = h /\ call'[g].entry.own = own /\ call'[g].entry.attrs = Over(own, asked[h])
  BY <1>2 DEF AInv, TypeOK, Attributes, Built
<1>4. CallAttribution'
  BY <1>2, <1>3 DEF AInv, TypeOK, CallAttribution, HandleBegin, handlers
<1>5. QED
  BY <1>1, <1>4

LEMMA AppendAttribution ==
  ASSUME AInv, NEW g \in Loggers, HandleAppend(g)
  PROVE  Attributes' /\ CallAttribution' /\ Attribution'
<1>1. Attributes' /\ CallAttribution'
  BY DEF AInv, Attributes, CallAttribution, HandleAppend, handlers
<1> DEFINE h == call[g].to
           e == call[g].entry
<1>2. call[g] # None /\ call[g] \in Calls
  BY DEF AInv, TypeOK, HandleAppend
<1>3. h \in Handlers /\ e \in Entries /\ e.attrs = Over(e.own, asked[h])
  BY <1>2 DEF AInv, CallAttribution, Calls
<1>4. entries' = [entries EXCEPT ![h] = Append(@, e)] /\ entries[h] \in Seq(Entries)
  BY <1>3 DEF AInv, TypeOK, HandleAppend
<1> HIDE DEF h, e
<1>5. \A i \in DOMAIN Append(entries[h], e) :
        \/ Append(entries[h], e)[i] = e
        \/ i \in DOMAIN entries[h] /\ Append(entries[h], e)[i] = entries[h][i]
  BY <1>3, <1>4, AppendProperties, LenProperties
<1>6. asked' = asked /\ made' = made
  BY DEF HandleAppend, handlers
<1>7. Attribution'
  <2> SUFFICES ASSUME NEW k \in made, NEW i \in DOMAIN entries'[k]
               PROVE  entries'[k][i].attrs = Over(entries'[k][i].own, asked[k])
    BY <1>6 DEF Attribution
  <2>1. CASE k # h
    <3>1. entries'[k] = entries[k]
      BY <1>4, <2>1
    <3>2. QED
      BY <3>1 DEF AInv, Attribution
  <2>2. CASE k = h
    <3>1. entries'[k] = Append(entries[h], e)
      BY <1>3, <1>4, <2>2 DEF AInv, TypeOK
    <3>2. QED
      BY <1>3, <1>5, <2>2, <3>1 DEF AInv, Attribution
  <2>3. QED
    BY <2>1, <2>2
<1>8. QED
  BY <1>1, <1>7

LEMMA AttributionStep == AInv /\ [Next]_vars => AInv'
<1> SUFFICES ASSUME AInv, [Next]_vars PROVE Attributes' /\ CallAttribution' /\ Attribution'
  BY TypeStep DEF AInv
<1>1. ASSUME UNCHANGED <<handlers, entries>>,
             \A g \in Loggers : call'[g] = call[g] \/ call'[g] = None
      PROVE  Attributes' /\ CallAttribution' /\ Attribution'
  BY <1>1 DEF AInv, Attributes, CallAttribution, Attribution, handlers
<1>2. CASE UNCHANGED vars
  BY <1>1, <1>2 DEF vars, logging
<1>3. ASSUME NEW g \in Loggers, HandleReturn(g)
      PROVE  Attributes' /\ CallAttribution' /\ Attribution'
  BY <1>1, <1>3 DEF AInv, TypeOK, HandleReturn
<1>4. ASSUME NEW w \in Watchers,
             \/ Search(w) \/ \E h \in made : RequireEntry(w, h)
             \/ CheckDeadline(w) \/ Wake(w) \/ DeadlinePasses(w)
      PROVE  Attributes' /\ CallAttribution' /\ Attribution'
  BY <1>1, <1>4
     DEF Search, RequireEntry, CheckDeadline, Wake, DeadlinePasses, logging
<1>5. QED
  BY <1>2, <1>3, <1>4, NextCases, DeriveAttribution, BeginAttribution, AppendAttribution

\* Every entry has its record's attributes over those that were asked for
\* on the way to its handler.
THEOREM EntriesAttributed == Spec => []Attribution
<1>1. Init => AInv
  <2>1. \A h \in Handlers : Init => DOMAIN entries[h] = {}
    BY DEF Init
  <2>2. QED
    BY <2>1, InitType DEF Init, AInv, Attributes, CallAttribution, Attribution, Handlers
<1>2. AInv => Attribution
  BY DEF AInv
<1>3. QED
  BY <1>1, <1>2, AttributionStep, PTL DEF Spec

-----------------------------------------------------------------------------
(* Failing.  Entries are only added behind those that are there, so what   *)
(* a watcher saw when it woke stays; the search it makes before it asks    *)
(* for the deadline found nothing wanted among them.                       *)

Seen ==
  \A w \in Watchers :
    /\ woke[w] <= Len(entries[target[w]])
    /\ wpc[w] \in {"check", "failed"} =>
         \A i \in 1..woke[w] : entries[target[w]][i].msg \notin Wanted
SInv == TypeOK /\ Seen

LEMMA AppendSeen ==
  ASSUME SInv, NEW g \in Loggers, HandleAppend(g)
  PROVE  Seen'
<1> DEFINE h == call[g].to
           e == call[g].entry
<1>1. call[g] \in Calls
  BY DEF SInv, TypeOK, HandleAppend
<1>2. h \in Handlers /\ e \in Entries
  BY <1>1 DEF Calls
<1>3. entries' = [entries EXCEPT ![h] = Append(@, e)] /\ entries[h] \in Seq(Entries)
  BY <1>2 DEF SInv, TypeOK, HandleAppend
<1> HIDE DEF h, e
<1>4. \A k \in Handlers :
        /\ Len(entries[k]) \in Nat
        /\ Len(entries[k]) <= Len(entries'[k])
        /\ \A i \in 1..Len(entries[k]) : entries'[k][i] = entries[k][i]
  <2> SUFFICES ASSUME NEW k \in Handlers
               PROVE  /\ Len(entries[k]) \in Nat
                      /\ Len(entries[k]) <= Len(entries'[k])
                      /\ \A i \in 1..Len(entries[k]) : entries'[k][i] = entries[k][i]
    OBVIOUS
  <2>1. Len(entries[k]) \in Nat
    BY LenProperties DEF SInv, TypeOK
  <2>2. CASE k # h
    BY <1>3, <2>1, <2>2 DEF SInv, TypeOK
  <2>3. CASE k = h
    <3>1. entries'[k] = Append(entries[k], e)
      BY <1>2, <1>3, <2>3 DEF SInv, TypeOK
    <3>2. QED
      BY <1>2, <1>3, <2>1, <2>3, <3>1, AppendProperties
  <2>4. QED
    BY <2>2, <2>3
<1>5. UNCHANGED <<wpc, target, woke>>
  BY DEF HandleAppend, polling
<1>6. QED
  <2> SUFFICES ASSUME NEW w \in Watchers
               PROVE  /\ woke[w] <= Len(entries'[target[w]])
                      /\ wpc[w] \in {"check", "failed"} =>
                           \A i \in 1..woke[w] : entries'[target[w]][i].msg \notin Wanted
    BY <1>5 DEF Seen
  <2> DEFINE k == target[w]
  <2>1. k \in Handlers /\ woke[w] \in Nat /\ woke[w] <= Len(entries[k])
    BY DEF SInv, TypeOK, Seen
  <2>2. Len(entries[k]) \in Nat /\ Len(entries'[k]) \in Nat
    BY <2>1, TypeStep, LenProperties DEF SInv, TypeOK, Next
  <2>3. \A i \in 1..woke[w] : i \in 1..Len(entries[k])
    BY <2>1, <2>2
  <2>4. \A i \in 1..woke[w] : entries'[k][i] = entries[k][i]
    BY <1>4, <2>1, <2>3
  <2>5. QED
    BY <1>4, <2>1, <2>2, <2>4 DEF SInv, Seen

LEMMA PollSeen ==
  ASSUME SInv, NEW w \in Watchers,
         \/ Search(w) \/ \E h \in made : RequireEntry(w, h)
         \/ CheckDeadline(w) \/ Wake(w) \/ DeadlinePasses(w)
  PROVE  Seen'
<1>1. \A h \in Handlers : entries[h] \in Seq(Entries)
  BY DEF SInv, TypeOK
<1>2. \A h \in Handlers : Len(entries[h]) \in Nat /\ DOMAIN entries[h] = 1..Len(entries[h])
  BY <1>1, LenProperties
<1>3. ASSUME NEW h \in made, RequireEntry(w, h) PROVE Seen'
  BY <1>2, <1>3 DEF SInv, TypeOK, Seen, RequireEntry, Poll
<1>4. CASE Search(w)
  <2>1. CASE Matches(entries[target[w]]) = {}
    <3>1. \A i \in 1..woke[w] : entries[target[w]][i].msg \notin Wanted
      BY <1>2, <2>1 DEF SInv, TypeOK, Seen, Matches
    <3>2. QED
      BY <1>4, <3>1 DEF SInv, TypeOK, Seen, Search, Poll
  <2>2. CASE Matches(entries[target[w]]) # {}
    BY <1>4, <2>2 DEF SInv, TypeOK, Seen, Search, Poll
  <2>3. QED
    BY <2>1, <2>2
<1>5. CASE CheckDeadline(w)
  BY <1>5 DEF SInv, TypeOK, Seen, CheckDeadline, Poll
<1>6. CASE Wake(w)
  BY <1>2, <1>6 DEF SInv, TypeOK, Seen, Wake, Poll
<1>7. CASE DeadlinePasses(w)
  BY <1>7 DEF SInv, Seen, DeadlinePasses
<1>8. QED
  BY <1>3, <1>4, <1>5, <1>6, <1>7

LEMMA SeenStep == SInv /\ [Next]_vars => SInv'
<1> SUFFICES ASSUME SInv, [Next]_vars PROVE Seen'
  BY TypeStep DEF SInv
<1>1. CASE UNCHANGED <<entries, polling>>
  BY <1>1 DEF SInv, Seen, polling
<1>2. UNCHANGED vars => UNCHANGED <<entries, polling>>
  BY DEF vars
<1>3. ASSUME NEW h \in made, NEW d \in Derived, NEW a \in Maps, WithAttrs(h, d, a)
      PROVE  UNCHANGED <<entries, polling>>
  BY <1>3 DEF WithAttrs
<1>4. ASSUME NEW g \in Loggers, NEW h \in made, NEW m \in Msgs, NEW own \in Maps,
             HandleBegin(g, h, m, own)
      PROVE  UNCHANGED <<entries, polling>>
  BY <1>4 DEF HandleBegin
<1>5. ASSUME NEW g \in Loggers, HandleReturn(g) PROVE UNCHANGED <<entries, polling>>
  BY <1>5 DEF HandleReturn
<1>6. QED
  BY <1>1, <1>2, <1>3, <1>4, <1>5, NextCases, AppendSeen, PollSeen

\* RequireEntry fails only if no entry it could see when it was called or
\* last woke was wanted, whenever the deadline passes.
THEOREM FailuresAreLate == Spec => []FailsOnlyForLate
<1>1. Init => SInv
  <2>1. Init => \A w \in Watchers : wpc[w] = "idle" /\ woke[w] = 0 /\ entries[target[w]] = <<>>
    BY DEF Init, Handlers, Roots
  <2>2. Len(<<>>) = 0
    OBVIOUS
  <2>3. QED
    BY <2>1, <2>2, InitType DEF SInv, Seen
<1>2. SInv => FailsOnlyForLate
  BY DEF SInv, Seen, FailsOnlyForLate
<1>3. QED
  BY <1>1, <1>2, SeenStep, PTL DEF Spec

-----------------------------------------------------------------------------
(* What is found.  The first entry that is wanted stays the first, and it  *)
(* is the one that FindEntries, which goes through them all, has first.    *)

LEMMA LeastNat ==
  ASSUME NEW T, T \subseteq Nat, T # {}
  PROVE  \E x \in T : \A y \in T : x <= y
<1>1. PICK m \in T : \A k \in T : <<k, m>> \notin OpToRel(<, Nat)
  BY WFMin, NatLessThanWellFounded, Zenon
<1>2. \A k \in T : ~ (k < m)
  BY <1>1, Zenon DEF OpToRel
<1>3. QED
  BY <1>2

\* What holds at 0 and of each number after one it holds of, holds to n.
LEMMA Inherited ==
  ASSUME NEW n \in Nat, NEW T, T \subseteq 0..n, 0 \in T,
         \A i \in 1..n : i - 1 \in T => i \in T
  PROVE  \A i \in 0..n : i \in T
<1> SUFFICES ASSUME (0..n) \ T # {}
             PROVE  FALSE
  OBVIOUS
<1>1. (0..n) \ T \subseteq Nat
  OBVIOUS
<1>2. PICK m \in (0..n) \ T : \A k \in (0..n) \ T : m <= k
  BY <1>1, LeastNat
<1>3. m \in 1..n /\ m - 1 \in 0..n /\ ~ (m <= m - 1)
  BY <1>2
<1>4. QED
  BY <1>2, <1>3

\* c is where the first entry of s that is wanted is.
IsFirstAt(s, c) == c \in Matches(s) /\ \A j \in Matches(s) : c <= j

LEMMA FirstAt ==
  ASSUME NEW s \in Seq(Entries)
  PROVE  /\ Matches(s) # {} => \E c \in 1..Len(s) : IsFirstAt(s, c)
         /\ \A c : IsFirstAt(s, c) => Matches(s) # {} /\ FirstMatch(s) = s[c]
<1>1. DOMAIN s = 1..Len(s) /\ Len(s) \in Nat
  BY LenProperties
<1>2. Matches(s) \subseteq Nat /\ Matches(s) \subseteq 1..Len(s)
  BY <1>1 DEF Matches
<1>3. Matches(s) # {} => \E c \in 1..Len(s) : IsFirstAt(s, c)
  BY <1>2, LeastNat DEF IsFirstAt
<1>4. ASSUME NEW c, IsFirstAt(s, c)
      PROVE  Matches(s) # {} /\ FirstMatch(s) = s[c]
  <2> DEFINE d == CHOOSE i \in Matches(s) : \A j \in Matches(s) : i <= j
  <2>1. d \in Matches(s) /\ \A j \in Matches(s) : d <= j
    BY <1>4 DEF IsFirstAt
  <2>2. Matches(s) # {} /\ FirstMatch(s) = s[d]
    BY <1>4 DEF FirstMatch, IsFirstAt
  <2> HIDE DEF d
  <2>3. c \in Nat /\ d \in Nat /\ c <= d /\ d <= c
    BY <1>2, <1>4, <2>1 DEF IsFirstAt
  <2>4. c = d
    BY <2>3
  <2>5. QED
    BY <2>2, <2>4
<1>5. QED
  BY <1>3, <1>4

LEMMA FirstStays ==
  ASSUME NEW s \in Seq(Entries), NEW e \in Entries, Matches(s) # {}
  PROVE  /\ Matches(Append(s, e)) # {}
         /\ FirstMatch(Append(s, e)) = FirstMatch(s)
<1> DEFINE t == Append(s, e)
<1>1. /\ t \in Seq(Entries) /\ Len(t) = Len(s) + 1 /\ Len(s) \in Nat
      /\ \A i \in 1..Len(s) : t[i] = s[i]
      /\ DOMAIN s = 1..Len(s) /\ DOMAIN t = 1..Len(t)
  BY AppendProperties, LenProperties
<1> HIDE DEF t
<1>2. PICK c \in 1..Len(s) : IsFirstAt(s, c)
  BY FirstAt
<1>3. c \in Matches(t)
  BY <1>1, <1>2 DEF IsFirstAt, Matches
<1>4. ASSUME NEW j \in Matches(t)
      PROVE  c <= j
  <2>1. j \in 1..Len(t) /\ t[j].msg \in Wanted
    BY <1>1 DEF Matches
  <2>2. CASE j \in 1..Len(s)
    <3>1. j \in Matches(s)
      BY <1>1, <2>1, <2>2 DEF Matches
    <3>2. QED
      BY <1>2, <3>1 DEF IsFirstAt
  <2>3. CASE j \notin 1..Len(s)
    BY <1>1, <1>2, <2>1, <2>3
  <2>4. QED
    BY <2>2, <2>3
<1>5. IsFirstAt(t, c)
  BY <1>3, <1>4 DEF IsFirstAt
<1>6. FirstMatch(t) = t[c] /\ Matches(t) # {} /\ FirstMatch(s) = s[c]
  BY <1>1, <1>2, <1>5, FirstAt
<1>7. QED
  BY <1>1, <1>2, <1>6 DEF t

\* The recursion of Wanting has a solution over every list ...
Filters(s, n, h) ==
  h = [i \in 0..n |->
         IF i = 0 THEN <<>>
         ELSE IF s[i].msg \in Wanted THEN Append(h[i - 1], s[i]) ELSE h[i - 1]]

LEMMA FilterExists ==
  ASSUME NEW s, NEW n \in Nat
  PROVE  \E h : Filters(s, n, h)
<1> DEFINE T == {m \in 0..n : \E h : Filters(s, m, h)}
           Then(m, q) == IF s[m].msg \in Wanted THEN Append(q, s[m]) ELSE q
<1>1. 0 \in T
  <2> DEFINE h == [i \in 0..0 |-> <<>>]
  <2>1. h = [i \in 0..0 |->
               IF i = 0 THEN <<>>
               ELSE IF s[i].msg \in Wanted THEN Append(h[i - 1], s[i]) ELSE h[i - 1]]
    OBVIOUS
  <2>2. Filters(s, 0, h)
    BY <2>1 DEF Filters
  <2> HIDE DEF h
  <2>3. 0 \in 0..n
    OBVIOUS
  <2>4. QED
    BY <2>2, <2>3
<1>2. ASSUME NEW m \in 1..n, m - 1 \in T
      PROVE  m \in T
  <2>1. PICK g : Filters(s, m - 1, g)
    BY <1>2
  <2> DEFINE h == [i \in 0..m |-> IF i = m THEN Then(m, g[m - 1]) ELSE g[i]]
  <2>2. \A i \in 0..m : i # m => i \in 0..(m - 1) /\ h[i] = g[i]
    OBVIOUS
  <2>3. \A i \in 0..(m - 1) : g[i] = IF i = 0 THEN <<>> ELSE Then(i, g[i - 1])
    BY <2>1 DEF Filters
  <2>4. \A i \in 0..m : i # 0 => i - 1 \in 0..m /\ i - 1 # m
    OBVIOUS
  <2>5. h[m] = Then(m, g[m - 1]) /\ m # 0 /\ m \in 0..m /\ m \in 0..n
    OBVIOUS
  <2>6. h = [i \in 0..m |-> h[i]]
    OBVIOUS
  <2> HIDE DEF h, Then
  <2>7. \A i \in 0..m : i # 0 => h[i - 1] = g[i - 1]
    BY <2>2, <2>4
  <2>8. \A i \in 0..m : h[i] = IF i = 0 THEN <<>> ELSE Then(i, h[i - 1])
    <3> SUFFICES ASSUME NEW i \in 0..m
                 PROVE  h[i] = IF i = 0 THEN <<>> ELSE Then(i, h[i - 1])
      OBVIOUS
    <3>1. CASE i = m
      BY <2>5, <2>7, <3>1
    <3>2. CASE i # m
      BY <2>2, <2>3, <2>7, <3>2
    <3>3. QED
      BY <3>1, <3>2
  <2>9. Filters(s, m, h)
    BY <2>6, <2>8 DEF Filters, Then
  <2>10. QED
    BY <2>5, <2>9
<1>3. T \subseteq 0..n /\ n \in 0..n
  OBVIOUS
<1> HIDE DEF T
<1>4. n \in T
  BY <1>1, <1>2, <1>3, Inherited
<1>5. QED
  BY <1>4 DEF T

\* ... which is empty up to the first that is wanted and begins with that.
LEMMA WantingFirst ==
  ASSUME NEW s \in Seq(Entries), Matches(s) # {}
  PROVE  Wanting(s) # <<>> /\ Head(Wanting(s)) = FirstMatch(s)
<1> DEFINE n == Len(s)
           h == CHOOSE f : Filters(s, n, f)
<1>1. n \in Nat /\ DOMAIN s = 1..n /\ \A i \in 1..n : s[i] \in Entries
  BY LenProperties, ElementOfSeq
<1>2. Filters(s, n, h)
  BY <1>1, FilterExists
<1>3. Wanting(s) = h[n]
  BY DEF Wanting, Filters
<1> HIDE DEF h
<1>4. \A i \in 0..n :
        h[i] = IF i = 0 THEN <<>>
               ELSE IF s[i].msg \in Wanted THEN Append(h[i - 1], s[i]) ELSE h[i - 1]
  BY <1>2 DEF Filters
<1> HIDE DEF n
<1>5. PICK c \in 1..n : IsFirstAt(s, c)
  BY FirstAt DEF n
<1>6. FirstMatch(s) = s[c] /\ s[c] \in Entries /\ s[c].msg \in Wanted
      /\ \A j \in 1..n : s[j].msg \in Wanted => c <= j
  BY <1>1, <1>5, FirstAt DEF IsFirstAt, Matches
<1> DEFINE R(q, i) == /\ q \in Seq(Entries)
                      /\ i < c => q = <<>>
                      /\ c <= i => Len(q) >= 1 /\ q[1] = s[c]
           T == {i \in 0..n : R(h[i], i)}
<1>7. 0 \in T
  <2>1. 0 \in 0..n /\ 0 < c /\ ~ (c <= 0) /\ h[0] = <<>>
    BY <1>1, <1>4, <1>5
  <2>2. <<>> \in Seq(Entries)
    BY EmptySeq
  <2>3. QED
    BY <2>1, <2>2
<1>8. ASSUME NEW i \in 1..n, i - 1 \in T
      PROVE  i \in T
  <2> DEFINE q == h[i - 1]
             x == s[i]
  <2>1. R(q, i - 1)
    BY <1>8
  <2>2. /\ i \in 0..n /\ x \in Entries
        /\ h[i] = IF x.msg \in Wanted THEN Append(q, x) ELSE q
    BY <1>1, <1>4
  <2>3. /\ x.msg \in Wanted => c <= i
        /\ i = c => x = s[c]
    BY <1>6
  <2> HIDE DEF q, x
  <2>4. /\ Append(q, x) \in Seq(Entries) /\ Len(Append(q, x)) = Len(q) + 1
        /\ \A k \in 1..Len(q) : Append(q, x)[k] = q[k]
        /\ Append(q, x)[Len(q) + 1] = x /\ Len(q) \in Nat
    BY <2>1, <2>2, AppendProperties, LenProperties
  <2>5. CASE i < c
    <3>1. h[i] = q /\ i - 1 < c /\ ~ (c <= i) /\ ~ (c <= i - 1)
      BY <1>5, <2>2, <2>3, <2>5
    <3>2. QED
      BY <2>1, <2>2, <2>5, <3>1
  <2>6. CASE i = c
    <3>1. i - 1 < c /\ ~ (i < c) /\ x = s[c] /\ x.msg \in Wanted
      BY <1>5, <1>6, <2>3, <2>6
    <3>2. q = <<>> /\ h[i] = Append(q, x)
      BY <2>1, <2>2, <3>1
    <3>3. Len(q) = 0
      BY <3>2, EmptySeq
    <3>4. Len(Append(q, x)) >= 1 /\ Append(q, x)[1] = s[c]
      BY <2>4, <3>1, <3>3
    <3>5. QED
      BY <2>2, <2>4, <3>1, <3>2, <3>4
  <2>7. CASE i > c
    <3>1. c <= i - 1 /\ ~ (i < c)
      BY <1>5, <2>7
    <3>2. Len(q) >= 1 /\ q[1] = s[c] /\ 1 \in 1..Len(q) /\ q \in Seq(Entries)
      BY <2>1, <2>4, <3>1
    <3>3. Len(Append(q, x)) >= 1 /\ Append(q, x)[1] = s[c]
      BY <2>4, <3>2
    <3>4. CASE x.msg \in Wanted
      BY <2>2, <2>4, <3>1, <3>3, <3>4
    <3>5. CASE x.msg \notin Wanted
      BY <2>2, <3>1, <3>2, <3>5
    <3>6. QED
      BY <3>4, <3>5
  <2>8. QED
    BY <1>5, <2>5, <2>6, <2>7
<1>9. T \subseteq 0..n /\ n \in 0..n /\ c <= n
  BY <1>1, <1>5
<1> HIDE DEF T
<1>10. n \in T
  BY <1>1, <1>7, <1>8, <1>9, Inherited
<1>11. R(h[n], n)
  BY <1>10 DEF T
<1>12. h[n] \in Seq(Entries) /\ Len(h[n]) >= 1 /\ h[n][1] = s[c]
  BY <1>9, <1>11
<1>13. h[n] # <<>> /\ Head(h[n]) = h[n][1]
  BY <1>12, EmptySeq, HeadTailProperties
<1>14. QED
  BY <1>3, <1>6, <1>12, <1>13

IsFound(s, e) == Matches(s) # {} /\ e = FirstMatch(s)
Found ==
  \A w \in Watchers : wpc[w] = "found" => IsFound(entries[target[w]], found[w])
FInv == TypeOK /\ Found

LEMMA AppendFound ==
  ASSUME FInv, NEW g \in Loggers, HandleAppend(g)
  PROVE  Found'
<1> DEFINE h == call[g].to
           e == call[g].entry
<1>1. call[g] \in Calls
  BY DEF FInv, TypeOK, HandleAppend
<1>2. h \in Handlers /\ e \in Entries
  BY <1>1 DEF Calls
<1>3. entries' = [entries EXCEPT ![h] = Append(@, e)] /\ entries[h] \in Seq(Entries)
      /\ UNCHANGED <<wpc, target, found>>
  BY <1>2 DEF FInv, TypeOK, HandleAppend, polling
<1> HIDE DEF h, e
<1>4. SUFFICES ASSUME NEW w \in Watchers, wpc[w] = "found"
               PROVE  IsFound(entries'[target[w]], found[w])
  BY <1>3 DEF Found
<1>5. target[w] \in Handlers /\ IsFound(entries[target[w]], found[w])
  BY <1>4 DEF FInv, TypeOK, Found
<1>6. CASE target[w] # h
  <2>1. entries'[target[w]] = entries[target[w]]
    BY <1>2, <1>3, <1>5, <1>6 DEF FInv, TypeOK
  <2>2. QED
    BY <1>5, <2>1
<1>7. CASE target[w] = h
  <2>1. entries'[target[w]] = Append(entries[h], e)
    BY <1>2, <1>3, <1>7 DEF FInv, TypeOK
  <2>2. QED
    BY <1>2, <1>3, <1>5, <1>7, <2>1, FirstStays DEF IsFound
<1>8. QED
  BY <1>6, <1>7

LEMMA PollFound ==
  ASSUME FInv, NEW w \in Watchers,
         \/ Search(w) \/ \E h \in made : RequireEntry(w, h)
         \/ CheckDeadline(w) \/ Wake(w) \/ DeadlinePasses(w)
  PROVE  Found'
<1>1. entries' = entries
  BY DEF Search, RequireEntry, CheckDeadline, Wake, DeadlinePasses
<1>2. ASSUME \A v \in Watchers : wpc'[v] = "found" =>
               wpc[v] = "found" /\ target'[v] = target[v] /\ found'[v] = found[v]
      PROVE  Found'
  BY <1>1, <1>2 DEF FInv, Found
<1>3. ASSUME NEW h \in made, RequireEntry(w, h) PROVE Found'
  BY <1>2, <1>3 DEF FInv, TypeOK, RequireEntry, Poll
<1>4. CASE Search(w)
  <2> DEFINE e == FirstMatch(entries[target[w]])
  <2>1. /\ found' = [found EXCEPT ![w] = e] /\ target' = target
        /\ wpc' = [wpc EXCEPT ![w] =
                     IF Matches(entries[target[w]]) = {} THEN "check" ELSE "found"]
    BY <1>4 DEF Search, Poll
  <2> HIDE DEF e
  <2>2. SUFFICES ASSUME NEW v \in Watchers, wpc'[v] = "found"
                 PROVE  IsFound(entries[target[v]], found'[v])
    BY <1>1, <2>1 DEF Found
  <2>3. CASE v = w
    BY <2>1, <2>2, <2>3 DEF FInv, TypeOK, IsFound, e
  <2>4. CASE v # w
    BY <2>1, <2>2, <2>4 DEF FInv, TypeOK, Found
  <2>5. QED
    BY <2>3, <2>4
<1>5. CASE CheckDeadline(w)
  BY <1>2, <1>5 DEF FInv, TypeOK, CheckDeadline, Poll
<1>6. CASE Wake(w)
  BY <1>2, <1>6 DEF FInv, TypeOK, Wake, Poll
<1>7. CASE DeadlinePasses(w)
  BY <1>2, <1>7 DEF DeadlinePasses
<1>8. QED
  BY <1>3, <1>4, <1>5, <1>6, <1>7

LEMMA FoundStep == FInv /\ [Next]_vars => FInv'
<1> SUFFICES ASSUME FInv, [Next]_vars PROVE Found'
  BY TypeStep DEF FInv
<1>1. ASSUME UNCHANGED <<entries, wpc, target, found>> PROVE Found'
  BY <1>1 DEF FInv, Found
<1>2. CASE UNCHANGED vars
  BY <1>1, <1>2 DEF vars, polling
<1>3. ASSUME NEW h \in made, NEW d \in Derived, NEW a \in Maps, WithAttrs(h, d, a)
      PROVE  Found'
  BY <1>1, <1>3 DEF WithAttrs, polling
<1>4. ASSUME NEW g \in Loggers, NEW h \in made, NEW m \in Msgs, NEW own \in Maps,
             HandleBegin(g, h, m, own)
      PROVE  Found'
  BY <1>1, <1>4 DEF HandleBegin, polling
<1>5. ASSUME NEW g \in Loggers, HandleReturn(g) PROVE Found'
  BY <1>1, <1>5 DEF HandleReturn, polling
<1>6. QED
  BY <1>2, <1>3, <1>4, <1>5, NextCases, AppendFound, PollFound

\* What RequireEntry returned is, and stays, the first that FindEntries
\* finds in the same handler, whatever is logged meanwhile and after.
THEOREM FoundStaysFirst == Spec => []FoundIsFirst
<1>1. Init => FInv
  <2>1. Init => \A w \in Watchers : wpc[w] = "idle"
    BY DEF Init
  <2>2. QED
    BY <2>1, InitType DEF FInv, Found
<1>2. FInv => FoundIsFirst
  <2> SUFFICES ASSUME FInv, NEW w \in Watchers, wpc[w] = "found"
               PROVE  /\ FindEntries(target[w]) # <<>>
                      /\ found[w] = Head(FindEntries(target[w]))
    BY DEF FoundIsFirst
  <2>1. entries[target[w]] \in Seq(Entries)
    BY DEF FInv, TypeOK
  <2>2. QED
    BY <2>1, WantingFirst DEF FInv, Found, IsFound, FindEntries
<1>3. QED
  BY <1>1, <1>2, FoundStep, PTL DEF Spec

-----------------------------------------------------------------------------
(* A TestHandler is an event log: a call takes effect when it appends, a   *)
(* search when it looks, and every other step is invisible.                *)

LEMMA InitRefines == Init => EL!LogInit
BY DEF Init, EL!LogInit, status

LEMMA AppendRefines ==
  ASSUME TypeOK, NEW g \in Loggers, HandleAppend(g)
  PROVE  EL!Record(g)
<1>1. status[g] = "pending" /\ status' = [status EXCEPT ![g] = "recorded"]
  BY DEF TypeOK, HandleAppend, status
<1>2. QED
  BY <1>1 DEF HandleAppend, polling, EL!Record

LEMMA CallRefines ==
  ASSUME TypeOK, NEW g \in Loggers
  PROVE  /\ \A h \in made, m \in Msgs, own \in Maps :
              HandleBegin(g, h, m, own) => EL!Request(g)
         /\ HandleReturn(g) => EL!Done(g)
<1>1. ASSUME NEW h \in made, NEW m \in Msgs, NEW own \in Maps, HandleBegin(g, h, m, own)
      PROVE  EL!Request(g)
  <2>1. status[g] = "idle" /\ status' = [status EXCEPT ![g] = "pending"]
    BY <1>1 DEF TypeOK, HandleBegin, status
  <2>2. h \in Handlers /\ attrs[h] \in Maps
    BY DEF TypeOK
  <2>3. [to |-> h, entry |-> Built(h, m, own)] \in Calls
    BY <2>2, BuiltType DEF Calls
  <2>4. QED
    BY <1>1, <2>1, <2>3 DEF HandleBegin, polling, EL!Request
<1>2. ASSUME HandleReturn(g) PROVE EL!Done(g)
  <2>1. status[g] = "recorded" /\ status' = [status EXCEPT ![g] = "idle"]
    BY <1>2 DEF TypeOK, HandleReturn, status
  <2>2. QED
    BY <1>2, <2>1 DEF HandleReturn, polling, EL!Done
<1>3. QED
  BY <1>1, <1>2

LEMMA SearchRefines ==
  ASSUME TypeOK, NEW w \in Watchers, Search(w)
  PROVE  EL!Look(w)
<1>1. target[w] \in Handlers /\ entries[target[w]] \in Seq(Entries)
  BY DEF TypeOK
<1>2. status' = status
  BY DEF Search, logging, status
<1>3. QED
  BY <1>1, <1>2, FirstMatchIsFirst DEF Search, logging, EL!Look

\* What goroutines and RequireEntry see of the handlers is an event log.
THEOREM ImplementsEventLog == Spec => IsEventLog
<1>1. TypeOK /\ [Next]_vars => [EL!LogNext]_EL!lvars
  <2> SUFFICES ASSUME TypeOK, [Next]_vars PROVE [EL!LogNext]_EL!lvars
    OBVIOUS
  <2>1. ASSUME UNCHANGED <<entries, lpc, call, found>> PROVE UNCHANGED EL!lvars
    BY <2>1 DEF EL!lvars, status
  <2>2. CASE UNCHANGED vars
    BY <2>1, <2>2 DEF vars, logging, polling
  <2>3. ASSUME NEW h \in made, NEW d \in Derived, NEW a \in Maps, WithAttrs(h, d, a)
        PROVE  UNCHANGED EL!lvars
    BY <2>1, <2>3 DEF WithAttrs, logging, polling
  <2>4. ASSUME NEW w \in Watchers,
               \/ \E h \in made : RequireEntry(w, h)
               \/ CheckDeadline(w) \/ Wake(w) \/ DeadlinePasses(w)
        PROVE  UNCHANGED EL!lvars
    BY <2>1, <2>4 DEF RequireEntry, CheckDeadline, Wake, DeadlinePasses, logging
  <2>5. QED
    BY <2>2, <2>3, <2>4, NextCases, AppendRefines, CallRefines, SearchRefines
       DEF EL!LogNext
<1>2. QED
  BY <1>1, InitRefines, TypeCorrect, PTL DEF Spec, IsEventLog, EL!LogSpec
=============================================================================
