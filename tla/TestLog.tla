------------------------------- MODULE TestLog -----------------------------
(***************************************************************************)
(* Log capture in tests (src/mylog/logger_testutils.go).  A TestHandler    *)
(* keeps its entries under a mutex and the attributes it was made with;    *)
(* WithAttrs and WithGroup make a new handler, with no entries.  Several   *)
(* goroutines log; RequireEntry polls one handler until an entry matches   *)
(* or its deadline has passed.                                             *)
(*                                                                         *)
(* "th" and "lg" are what NewTestLogger returns: the handler, and the one  *)
(* behind the logger.  Handlers derived from either are in Derived.  The   *)
(* attributes of a handler or a record are a map, in which a later one of  *)
(* the same key has replaced an earlier one.  Levels, times and sources    *)
(* are left out, and so is the echo to the test's own log.                 *)
(***************************************************************************)
EXTENDS Integers, Sequences

CONSTANTS
  Derived,   \* the handlers that With and WithGroup may make
  Loggers,   \* the goroutines that log
  Watchers,  \* those that call RequireEntry
  Keys, Vals,
  Msgs,
  Wanted,    \* the messages the predicates accept
  MaxLogs,   \* bound: calls that log
  None       \* no entry, no call

Roots == {"th", "lg"}
Handlers == Roots \cup Derived
Maps == UNION {[K -> Vals] : K \in SUBSET Keys}
Entries == [msg : Msgs, own : Maps, attrs : Maps]
Calls == [to : Handlers, entry : Entries]

ASSUME LogAssumption ==
  /\ "test" \in Keys /\ "true" \in Vals
  /\ Wanted \subseteq Msgs /\ MaxLogs \in Nat
  /\ None \notin Entries \cup Calls
  /\ Derived \cap Roots = {}

VARIABLES
  made,     \* the handlers there are
  attrs,    \* the attributes of each
  entries,  \* the entries of each
  lpc,      \* where each logging goroutine is: "idle", "lock" or "echo"
  call,     \* its call
  begun,    \* calls begun so far
  wpc,      \* where each RequireEntry is
  target,   \* the handler it polls
  expired,  \* those whose deadline has passed
  found,    \* the entry that its last search found
  asked,    \* history: the attributes that the makers of a handler asked for
  woke      \* history: how many entries there were when it last began or woke

handlers == <<made, attrs, asked>>
logging  == <<lpc, call, begun>>
polling  == <<wpc, target, expired, found, woke>>
vars == <<handlers, entries, logging, polling>>

(* f, and g where f has no value                                           *)
Over(f, g) ==
  [k \in DOMAIN f \cup DOMAIN g |-> IF k \in DOMAIN f THEN f[k] ELSE g[k]]
NoAttrs == [k \in {} |-> None]
TestAttr == [k \in {"test"} |-> "true"]

(* NewTestLogger: slog.New(th).With("test", "true") makes a second handler. *)
Init ==
  /\ made = Roots
  /\ attrs = [h \in Handlers |-> IF h = "lg" THEN TestAttr ELSE NoAttrs]
  /\ asked = attrs
  /\ entries = [h \in Handlers |-> <<>>]
  /\ lpc = [g \in Loggers |-> "idle"] /\ call = [g \in Loggers |-> None]
  /\ begun = 0
  /\ wpc = [w \in Watchers |-> "idle"] /\ target = [w \in Watchers |-> "th"]
  /\ expired = {} /\ found = [w \in Watchers |-> None]
  /\ woke = [w \in Watchers |-> 0]

-----------------------------------------------------------------------------
(* Handlers                                                                *)

(* (bug: the new attributes are appended to a slice that h shares)         *)
WithAttrs_Shares(h, d, a) ==
  /\ h \in made /\ d \notin made
  /\ made' = made \cup {d}
  /\ attrs' = [attrs EXCEPT ![d] = Over(a, attrs[h]), ![h] = Over(a, attrs[h])]
  /\ asked' = [asked EXCEPT ![d] = Over(a, asked[h])]
  /\ UNCHANGED <<entries, logging, polling>>

WithAttrs(h, d, a) ==
  /\ h \in made /\ d \notin made
  /\ made' = made \cup {d}
  /\ attrs' = [attrs EXCEPT ![d] = Over(a, attrs[h])]
  /\ asked' = [asked EXCEPT ![d] = Over(a, asked[h])]
  /\ UNCHANGED <<entries, logging, polling>>

(* A group changes nothing but the handler.                                *)
WithGroup(h, d) == WithAttrs(h, d, NoAttrs)

-----------------------------------------------------------------------------
(* Handle: the entry is built, appended under the mutex, and echoed.       *)

(* The record's attributes replace the handler's.                          *)
Built(h, m, own) == [msg |-> m, own |-> own, attrs |-> Over(own, attrs[h])]

HandleBegin(g, h, m, own) ==
  /\ lpc[g] = "idle" /\ h \in made /\ begun < MaxLogs
  /\ lpc' = [lpc EXCEPT ![g] = "lock"]
  /\ call' = [call EXCEPT ![g] = [to |-> h, entry |-> Built(h, m, own)]]
  /\ begun' = begun + 1
  /\ UNCHANGED <<handlers, entries, polling>>

(* (bug: what other goroutines appended since is overwritten)              *)
HandleAppend_Lost(g) ==
  /\ lpc[g] = "lock"
  /\ entries' = [entries EXCEPT ![call[g].to] =
       IF \E f \in Loggers \ {g} : lpc[f] = "echo" /\ call[f].to = call[g].to
       THEN Append(SubSeq(@, 1, Len(@) - 1), call[g].entry) ELSE Append(@, call[g].entry)]
  /\ lpc' = [lpc EXCEPT ![g] = "echo"]
  /\ UNCHANGED <<handlers, call, begun, polling>>

HandleAppend(g) ==
  /\ lpc[g] = "lock"
  /\ entries' = [entries EXCEPT ![call[g].to] = Append(@, call[g].entry)]
  /\ lpc' = [lpc EXCEPT ![g] = "echo"]
  /\ UNCHANGED <<handlers, call, begun, polling>>

HandleReturn(g) ==
  /\ lpc[g] = "echo"
  /\ lpc' = [lpc EXCEPT ![g] = "idle"]
  /\ call' = [call EXCEPT ![g] = None]
  /\ UNCHANGED <<handlers, entries, begun, polling>>

-----------------------------------------------------------------------------
(* RequireEntry: look, ask whether the deadline has passed, sleep, look    *)
(* again.  What fails the test goes no further.                            *)

Matches(s) == {i \in DOMAIN s : s[i].msg \in Wanted}

Wanting(s) ==
  LET out[i \in 0..Len(s)] ==
        IF i = 0 THEN <<>>
        ELSE IF s[i].msg \in Wanted THEN Append(out[i - 1], s[i]) ELSE out[i - 1]
  IN  out[Len(s)]
FindEntries(h) == Wanting(entries[h])

(* (bug: the search goes backwards)                                        *)
FirstMatch_Last(s) ==
  IF Matches(s) = {} THEN None
  ELSE s[CHOOSE i \in Matches(s) : \A j \in Matches(s) : j <= i]

FirstMatch(s) ==
  IF Matches(s) = {} THEN None
  ELSE s[CHOOSE i \in Matches(s) : \A j \in Matches(s) : i <= j]

Poll(w, s) == wpc' = [wpc EXCEPT ![w] = s]

RequireEntry(w, h) ==
  /\ wpc[w] \in {"idle", "found"} /\ h \in made
  /\ Poll(w, "search")
  /\ target' = [target EXCEPT ![w] = h]
  /\ expired' = expired \ {w}
  /\ woke' = [woke EXCEPT ![w] = Len(entries[h])]
  /\ UNCHANGED <<handlers, entries, logging, found>>

(* (bug: with no match, the last entry is taken)                           *)
Search_TakesLast(w) ==
  LET s == entries[target[w]] IN
  /\ wpc[w] = "search"
  /\ found' = [found EXCEPT ![w] =
       IF Matches(s) = {} /\ s # <<>> THEN s[Len(s)] ELSE FirstMatch(s)]
  /\ Poll(w, IF s = <<>> THEN "check" ELSE "found")
  /\ UNCHANGED <<handlers, entries, logging, target, expired, woke>>

Search(w) ==
  /\ wpc[w] = "search"
  /\ found' = [found EXCEPT ![w] = FirstMatch(entries[target[w]])]
  /\ Poll(w, IF Matches(entries[target[w]]) = {} THEN "check" ELSE "found")
  /\ UNCHANGED <<handlers, entries, logging, target, expired, woke>>

CheckDeadline(w) ==
  /\ wpc[w] = "check"
  /\ Poll(w, IF w \in expired THEN "failed" ELSE "sleep")
  /\ UNCHANGED <<handlers, entries, logging, target, expired, found, woke>>

(* (bug: the deadline is asked for first)                                  *)
Wake_Checks(w) ==
  /\ wpc[w] = "sleep"
  /\ Poll(w, "check")
  /\ woke' = [woke EXCEPT ![w] = Len(entries[target[w]])]
  /\ UNCHANGED <<handlers, entries, logging, target, expired, found>>

(* (bug: the deadline is computed in the loop)                             *)
Wake_Renews(w) ==
  /\ wpc[w] = "sleep"
  /\ Poll(w, "search")
  /\ expired' = expired \ {w}
  /\ woke' = [woke EXCEPT ![w] = Len(entries[target[w]])]
  /\ UNCHANGED <<handlers, entries, logging, target, found>>

Wake(w) ==
  /\ wpc[w] = "sleep"
  /\ Poll(w, "search")
  /\ woke' = [woke EXCEPT ![w] = Len(entries[target[w]])]
  /\ UNCHANGED <<handlers, entries, logging, target, expired, found>>

DeadlinePasses(w) ==
  /\ wpc[w] \in {"search", "check", "sleep"} /\ w \notin expired
  /\ expired' = expired \cup {w}
  /\ UNCHANGED <<handlers, entries, logging, wpc, target, found, woke>>

-----------------------------------------------------------------------------
Next ==
  \/ \E h \in made, d \in Derived :
       (\E a \in Maps : WithAttrs(h, d, a)) \/ WithGroup(h, d)
  \/ \E g \in Loggers :
       \/ \E h \in made, m \in Msgs, own \in Maps : HandleBegin(g, h, m, own)
       \/ HandleAppend(g) \/ HandleReturn(g)
  \/ \E w \in Watchers :
       \/ \E h \in made : RequireEntry(w, h)
       \/ Search(w) \/ CheckDeadline(w) \/ Wake(w) \/ DeadlinePasses(w)

Spec == Init /\ [][Next]_vars

(* Time passes, and a goroutine that can go on does.                       *)
Fairness ==
  /\ \A g \in Loggers : WF_vars(HandleAppend(g)) /\ WF_vars(HandleReturn(g))
  /\ \A w \in Watchers :
       /\ WF_vars(Search(w)) /\ WF_vars(CheckDeadline(w))
       /\ WF_vars(Wake(w)) /\ WF_vars(DeadlinePasses(w))
FairSpec == Spec /\ Fairness

-----------------------------------------------------------------------------
(* Properties                                                              *)

(* Types; a handler that is not made has no entries, and what a search     *)
(* answers with is wanted.                                                 *)
TypeOK ==
  /\ Roots \subseteq made /\ made \subseteq Handlers
  /\ attrs \in [Handlers -> Maps] /\ asked \in [Handlers -> Maps]
  /\ entries \in [Handlers -> Seq(Entries)]
  /\ \A h \in Handlers \ made : entries[h] = <<>>
  /\ lpc \in [Loggers -> {"idle", "lock", "echo"}]
  /\ call \in [Loggers -> Calls \cup {None}]
  /\ \A g \in Loggers : /\ call[g] = None <=> lpc[g] = "idle"
                        /\ call[g] # None => call[g].to \in made
  /\ begun \in 0..MaxLogs
  /\ wpc \in [Watchers -> {"idle", "search", "check", "sleep", "found", "failed"}]
  /\ target \in [Watchers -> Handlers] /\ \A w \in Watchers : target[w] \in made
  /\ expired \subseteq Watchers
  /\ found \in [Watchers -> Entries \cup {None}]
  /\ \A w \in Watchers : found[w] # None => found[w].msg \in Wanted
  /\ woke \in [Watchers -> Nat]

(* An entry has the attributes of its record, and those that were asked    *)
(* for along the derivation of its handler, whatever other handlers were   *)
(* derived from the same ones in between: WithAttrs copies.                *)
Attribution ==
  \A h \in made : \A i \in DOMAIN entries[h] :
    entries[h][i].attrs = Over(entries[h][i].own, asked[h])

(* What RequireEntry returned stays the first of what FindEntries finds.   *)
FoundIsFirst ==
  \A w \in Watchers : wpc[w] = "found" =>
    /\ FindEntries(target[w]) # <<>>
    /\ found[w] = Head(FindEntries(target[w]))

(* RequireEntry never fails over an entry that was there when it was       *)
(* called or when it last woke up, even if the deadline passed while it    *)
(* slept, or is zero.  (One that comes between its last look and the       *)
(* deadline is in the failure's list, and fails the test all the same.)    *)
FailsOnlyForLate ==
  \A w \in Watchers : wpc[w] = "failed" =>
    \A i \in 1..woke[w] : entries[target[w]][i].msg \notin Wanted

(* RequireEntry ends, though nothing is ever logged.                       *)
WaitEnds == \A w \in Watchers : wpc[w] = "search" ~> wpc[w] \in {"found", "failed"}

(* Handle and the searches are atomic: see EventLog.                       *)
status == [g \in Loggers |->
  IF lpc[g] = "lock" THEN "pending" ELSE IF lpc[g] = "echo" THEN "recorded" ELSE "idle"]
EL == INSTANCE EventLog WITH
        Requests <- Calls, Entries <- Entries \cup {None},
        log <- entries, status <- status, request <- call, answer <- found
IsEventLog == EL!LogSpec

(* The documentation of NewTestLogger (line 127): "a *slog.Logger that     *)
(* writes to a TestHandler and the handler itself for assertions".  What   *)
(* went through the logger is in the entries of the handler.               *)
LoggerIsHeard ==
  \A g \in Loggers : lpc[g] = "echo" /\ call[g].to = "lg" =>
    \E i \in DOMAIN entries["th"] : entries["th"][i] = call[g].entry
=============================================================================
