------------------------------ MODULE EventLog -----------------------------
(***************************************************************************)
(* What a captured log promises.  Each handler has a log of its own.  A    *)
(* call that logs is recorded once, in the log of the handler it was made  *)
(* through, at one instant between its begin and its return, behind what   *)
(* is there.  A look at a log answers with the first entry that matches,   *)
(* as the log is at one instant.                                           *)
(***************************************************************************)
EXTENDS Integers, Sequences

CONSTANTS
  Handlers, Loggers, Watchers,
  Requests,   \* what a call may ask: the handler and the entry, [to, entry]
  Entries,    \* the entries, and None
  Wanted,     \* the messages a look is for
  None        \* no request, no entry that matches

VARIABLES
  log,     \* of each handler
  status,  \* of each caller: "idle", "pending", or "recorded"
  request, \* of each caller
  answer   \* of each watcher's last look

lvars == <<log, status, request, answer>>

(* e is the first entry of s that matches, or None if there is none.       *)
IsFirst(e, s) ==
  \/ e = None /\ \A i \in DOMAIN s : s[i].msg \notin Wanted
  \/ \E i \in DOMAIN s :
       /\ e = s[i] /\ s[i].msg \in Wanted
       /\ \A j \in 1..(i - 1) : s[j].msg \notin Wanted

LogInit ==
  /\ log = [h \in Handlers |-> <<>>]
  /\ status = [g \in Loggers |-> "idle"]
  /\ request = [g \in Loggers |-> None]
  /\ answer = [w \in Watchers |-> None]

Request(g) ==
  /\ status[g] = "idle"
  /\ status' = [status EXCEPT ![g] = "pending"]
  /\ \E q \in Requests : request' = [request EXCEPT ![g] = q]
  /\ UNCHANGED <<log, answer>>

Record(g) ==
  /\ status[g] = "pending"
  /\ status' = [status EXCEPT ![g] = "recorded"]
  /\ log' = [log EXCEPT ![request[g].to] = Append(@, request[g].entry)]
  /\ UNCHANGED <<request, answer>>

Done(g) ==
  /\ status[g] = "recorded"
  /\ status' = [status EXCEPT ![g] = "idle"]
  /\ request' = [request EXCEPT ![g] = None]
  /\ UNCHANGED <<log, answer>>

Look(w) ==
  /\ \E h \in Handlers, e \in Entries :
       IsFirst(e, log[h]) /\ answer' = [answer EXCEPT ![w] = e]
  /\ UNCHANGED <<log, status, request>>

LogNext ==
  \/ \E g \in Loggers : Request(g) \/ Record(g) \/ Done(g)
  \/ \E w \in Watchers : Look(w)

LogSpec == LogInit /\ [][LogNext]_lvars
=============================================================================
