-------------------------------- MODULE RateLimit --------------------------------
(***************************************************************************)
(* authRateLimit: tenant-service counts the sign-in requests of an address *)
(* in a sliding window, and forgets addresses that have been quiet.        *)
(*                                                                         *)
(* A request reads the clock before it takes the mutex, so requests enter  *)
(* the window in another order than that of their times.  A request waits  *)
(* for the mutex no longer than Slack units of time.                       *)
(***************************************************************************)
EXTENDS Integers, FiniteSets

CONSTANTS
  Addresses, Handlers,   \* clients; goroutines that serve them
  NoRequest,
  Window, Cleanup,       \* rlWindow, rlCleanup
  MaxReqs,               \* rlMaxReqs
  Slack,
  Horizon, MaxArrivals   \* bounds: time, requests

ASSUME WindowAssumption == Slack \in Nat \ {0} /\ Window \in Nat /\ Window > Slack /\ Cleanup \in Nat
ASSUME ReqsAssumption == MaxReqs \in Nat /\ Horizon \in Nat /\ MaxArrivals \in Nat

VARIABLES
  clock,
  rlStore,      \* the requests counted for an address, and the time of the last one to enter
  rlLastClean,
  waiting,      \* the request a handler holds, before the mutex
  made,         \* history variable: the requests
  admitted,     \* history variable: those let in
  last          \* history variable: the last answer

limitVars == <<clock, rlStore, rlLastClean, waiting, made, admitted, last>>

Times    == 0..Horizon
Request_ == [ip : Addresses, at : Times, nth : Nat]
NoKey    == [times |-> {}, end |-> 0]

\* The requests of S that came from a between the times t and u.
Within(S, a, t, u) == {r \in S : r.ip = a /\ r.at \in t..u}

LimitTypeOK ==
  /\ clock \in Times /\ rlLastClean \in Times
  /\ made \subseteq Request_ /\ admitted \subseteq made
  /\ rlStore \in [Addresses -> [times : SUBSET made, end : Times]]
  /\ waiting \in [Handlers -> made \cup {NoRequest}]
  /\ last \in [request : made \cup {NoRequest}, ok : BOOLEAN]

LimitInit ==
  /\ clock = 0 /\ rlLastClean = 0
  /\ rlStore = [a \in Addresses |-> NoKey]
  /\ waiting = [h \in Handlers |-> NoRequest]
  /\ made = {} /\ admitted = {}
  /\ last = [request |-> NoRequest, ok |-> TRUE]

\* time.Now, before the mutex.
Arrive(h, a) ==
  LET r == [ip |-> a, at |-> clock, nth |-> Cardinality(made) + 1] IN
  /\ waiting[h] = NoRequest /\ Cardinality(made) < MaxArrivals
  /\ waiting' = [waiting EXCEPT ![h] = r]
  /\ made' = made \cup {r}
  /\ UNCHANGED <<clock, rlStore, rlLastClean, admitted, last>>

\* Mutant of InWindow: the bound of the window belongs to it.
InWindowClosed(t, now) == t >= now - Window
InWindow(t, now) == t > now - Window

\* Mutant of Quiet: an address that is not in the way any more is one that had a request.
AnyAddress(key, now) == key.times # {}
\* The addresses a clean-up deletes, by the last time they have.
Quiet(key, now) == key.times = {} \/ key.end < now - Window

Cleaned(now) ==
  IF now - rlLastClean > Cleanup
  THEN [a \in Addresses |-> IF Quiet(rlStore[a], now) THEN NoKey ELSE rlStore[a]]
  ELSE rlStore

\* The window of the address of r once r has entered it.
Filtered(r) == {q \in Cleaned(r.at)[r.ip].times : InWindow(q.at, r.at)} \cup {r}

\* What the mutex guards, and the answer: 429, or the handler of the request.  A refused
\* request is counted like any other.
Serve(h) ==
  LET r == waiting[h]
      ok == Cardinality(Filtered(r)) <= MaxReqs
  IN
  /\ r # NoRequest
  /\ rlStore' = [Cleaned(r.at) EXCEPT ![r.ip] = [times |-> Filtered(r), end |-> r.at]]
  /\ rlLastClean' = IF r.at - rlLastClean > Cleanup THEN r.at ELSE rlLastClean
  /\ admitted' = IF ok THEN admitted \cup {r} ELSE admitted
  /\ last' = [request |-> r, ok |-> ok]
  /\ waiting' = [waiting EXCEPT ![h] = NoRequest]
  /\ UNCHANGED <<clock, made>>

Passes ==
  /\ clock < Horizon
  /\ \A h \in Handlers : waiting[h] # NoRequest => clock - waiting[h].at < Slack
  /\ clock' = clock + 1
  /\ UNCHANGED <<rlStore, rlLastClean, waiting, made, admitted, last>>

LimitNext ==
  \/ \E h \in Handlers : Serve(h) \/ \E a \in Addresses : Arrive(h, a)
  \/ Passes

LimitSpec == LimitInit /\ [][LimitNext]_limitVars

------------------------------------------------------------------------------
\* An address is let in at most MaxReqs times in a window ("limits each IP to rlMaxReqs
\* requests per rlWindow"), short of twice the time a request may wait for the mutex: once for
\* the requests that enter late, once for the address a clean-up forgets while the last
\* request to enter its window is an old one.
Limited ==
  \A a \in Addresses, t \in Times :
    Cardinality(Within(admitted, a, t, t + Window - 2 * Slack)) <= MaxReqs

\* A request is refused only when its address made more than MaxReqs requests since a window
\* before it, refused ones among them: who waits for the minute of Retry-After is let in.
RefusedForCause ==
  last.ok \/
  Cardinality(Within(made, last.request.ip, last.request.at - Window + 1, Horizon)) > MaxReqs
=============================================================================
