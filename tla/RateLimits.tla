------------------------------ MODULE RateLimits ------------------------------
(***************************************************************************)
(* The sliding-window rate limits in front of login, registration and the    *)
(* password reset mail.  A request passes one gate after the other (the      *)
(* address it comes from, then the e-mail it names); each gate reads the     *)
(* clock and asks the limiter, then reads the clock again and records the    *)
(* attempt.  Both are atomic (a lock, or one statement), the pair is not.    *)
(*                                                                          *)
(* Time is relative: an attempt has an age, a request that has read the      *)
(* clock lags behind it.  The store is a dictionary of one process or a      *)
(* table; in memory each limiter has a dictionary and a prune time of its     *)
(* own.  remaining() and clear() are called by tests only.                   *)
(***************************************************************************)
EXTENDS Integers, Sequences, FiniteSets

CONSTANTS
  Limiter,     \* the limiters, one for each endpoint and kind of key
  Key, Scope,  \* whom the limiters count, and the limiter of each
  Limit,       \* max_attempts of each limiter
  Window,      \* window_seconds, the same for all of them
  PruneEvery,  \* prune_interval_seconds
  Request,     \* requests that may be in progress together
  Routes,      \* the gates of each endpoint, and the keys its success resets
  MaxLag       \* bound: ticks between reading the clock and using it

Route == [gates : Seq(Key), resets : SUBSET Key]

ASSUME RateLimitConstants ==
  /\ Scope \in [Key -> Limiter] /\ Limit \in [Limiter -> Nat \ {0}]
  /\ Window \in Nat \ {0} /\ PruneEvery \in Nat
  /\ MaxLag \in Nat /\ MaxLag < Window
  /\ \A x \in Routes : x \in Route /\ x.gates # <<>>
  /\ IsFiniteSet(Request)

VARIABLES
  attempts,    \* ages of the attempts recorded under a key, in that order
  untilPrune,  \* in memory, ticks until each limiter's next prune is due, or past due
  req,         \* requests in progress
  backend,     \* RATE_LIMIT_BACKEND
  workers      \* how many requests the deployment serves at a time

vars == <<attempts, untilPrune, req, backend, workers>>

\* Nothing asks about an attempt older than this.
Old == Window + PruneEvery + MaxLag
Age == 0..Old
Phases == {"arrived", "check", "admitted", "record", "handler"}
Idle == [at |-> "idle", gates |-> <<>>, resets |-> {}, lag |-> 0]
InProgress == [at : Phases, gates : Seq(Key), resets : SUBSET Key, lag : 0..MaxLag]

TypeOK ==
  /\ attempts \in [Key -> Seq(Age)]
  /\ untilPrune \in [Limiter -> -MaxLag..PruneEvery]
  /\ req \in [Request -> InProgress \cup {Idle}]
  /\ backend \in {"memory", "postgres"}
  /\ workers \in Nat

Init ==
  /\ attempts = [k \in Key |-> <<>>]
  /\ untilPrune = [l \in Limiter |-> PruneEvery]
  /\ req = [r \in Request |-> Idle]
  /\ backend \in {"memory", "postgres"}
  /\ workers \in 1 .. Cardinality(Request)

-----------------------------------------------------------------------------
(* The store, as a request with the given lag sees it *)

Stale(age, lag) == age >= Window + lag

\* The attempts that are not stale, in their order.
Kept(ages, lag) ==
  LET keep == {i \in DOMAIN ages : ~Stale(ages[i], lag)}
      order == CHOOSE f \in [1 .. Cardinality(keep) -> keep] :
                 \A m, n \in DOMAIN f : m < n => f[m] < f[n]
  IN  [n \in 1 .. Cardinality(keep) |-> ages[order[n]]]

\* Mutant: one stale attempt is enough to forget the key.
AnyStale(ages, lag) == \E i \in DOMAIN ages : Stale(ages[i], lag)
AllStale(ages, lag) == \A i \in DOMAIN ages : Stale(ages[i], lag)

PruneDue(l, lag) == backend = "memory" /\ untilPrune[l] + lag <= 0

\* A limiter looks through its own dictionary.
Pruned(l, lag) ==
  [k \in Key |-> IF PruneDue(l, lag) /\ Scope[k] = l /\ AllStale(attempts[k], lag)
                 THEN <<>> ELSE attempts[k]]

\* Mutant: the next prune is counted from the wrong side of the lag.
ScheduledLate(l, lag) ==
  [untilPrune EXCEPT ![l] = IF PruneDue(l, lag) THEN PruneEvery + lag ELSE @]
Scheduled(l, lag) ==
  [untilPrune EXCEPT ![l] = IF PruneDue(l, lag) THEN PruneEvery - lag ELSE @]

\* What is left under k: the table keeps rows that no query selects any more.
Found(k, lag) == Kept(Pruned(Scope[k], lag)[k], lag)
Left(k, lag) == IF backend = "memory" THEN Found(k, lag) ELSE attempts[k]

\* The first attempt of the list, or the oldest row.
Oldest(ages) ==
  IF backend = "memory" THEN ages[1]
  ELSE CHOOSE a \in Age : \E i \in DOMAIN ages : ages[i] = a /\ \A j \in DOMAIN ages : ages[j] <= a

RetryAfter(k, lag) ==
  LET wait == Window + lag - Oldest(Found(k, lag)) IN IF wait < 1 THEN 1 ELSE wait

-----------------------------------------------------------------------------
(* Requests *)

Busy == {r \in Request : req[r] # Idle}
Goto(r, phase) == req' = [req EXCEPT ![r].at = phase, ![r].lag = 0]
Done(r) == req' = [req EXCEPT ![r] = Idle]

Arrive(r, route) ==
  /\ req[r] = Idle /\ Cardinality(Busy) < workers
  /\ req' = [req EXCEPT ![r] = [at |-> "arrived", gates |-> route.gates,
                                resets |-> route.resets, lag |-> 0]]
  /\ UNCHANGED <<attempts, untilPrune, backend, workers>>

\* The clock is read before the lock is taken and before the query is sent.
ReadClock(r) ==
  /\ \/ req[r].at = "arrived" /\ Goto(r, "check")
     \/ req[r].at = "admitted" /\ Goto(r, "record")
  /\ UNCHANGED <<attempts, untilPrune, backend, workers>>

\* Mutant: one attempt too many.
LimitedLate(r) == LET k == Head(req[r].gates) IN Len(Found(k, req[r].lag)) > Limit[Scope[k]]
Limited(r) == LET k == Head(req[r].gates) IN Len(Found(k, req[r].lag)) >= Limit[Scope[k]]

\* Mutant: a refused attempt takes the place of the oldest one.
CheckCounting(r) ==
  LET k == Head(req[r].gates)
      lag == req[r].lag
      left == Left(k, lag)
  IN  /\ req[r].at = "check"
      /\ attempts' = [Pruned(Scope[k], lag) EXCEPT ![k] =
                        IF Limited(r) THEN Append(Tail(left), lag) ELSE left]
      /\ untilPrune' = Scheduled(Scope[k], lag)
      /\ IF Limited(r) THEN Done(r) ELSE Goto(r, "admitted")
      /\ UNCHANGED <<backend, workers>>

Check(r) ==
  LET k == Head(req[r].gates)
      lag == req[r].lag
  IN  /\ req[r].at = "check"
      /\ attempts' = [Pruned(Scope[k], lag) EXCEPT ![k] = Left(k, lag)]
      /\ untilPrune' = Scheduled(Scope[k], lag)
      /\ IF Limited(r) THEN Done(r) ELSE Goto(r, "admitted")
      /\ UNCHANGED <<backend, workers>>

\* The next gate follows, and after the last one the handler.
Record(r) ==
  LET k == Head(req[r].gates)
      lag == req[r].lag
      gates == Tail(req[r].gates)
  IN  /\ req[r].at = "record"
      /\ attempts' = [Pruned(Scope[k], lag) EXCEPT ![k] = Append(Left(k, lag), lag)]
      /\ untilPrune' = Scheduled(Scope[k], lag)
      /\ req' = [req EXCEPT ![r].gates = gates, ![r].lag = 0,
                            ![r].at = IF gates = <<>> THEN "handler" ELSE "arrived"]
      /\ UNCHANGED <<backend, workers>>

\* The handler succeeds, and forgives what was counted against the e-mail, or not.
Succeed(r) ==
  /\ req[r].at = "handler"
  /\ attempts' = [k \in Key |-> IF k \in req[r].resets THEN <<>> ELSE attempts[k]]
  /\ Done(r)
  /\ UNCHANGED <<untilPrune, backend, workers>>

Fail(r) ==
  /\ req[r].at = "handler"
  /\ Done(r)
  /\ UNCHANGED <<attempts, untilPrune, backend, workers>>

\* A tick of the clock; rows that no query can select are dropped from the model.
Tick ==
  /\ \A r \in Request : req[r].at \in {"check", "record"} => req[r].lag < MaxLag
  /\ attempts' =
       LET Older(a) == IF a = Old THEN Old ELSE a + 1
           aged == [k \in Key |-> [i \in DOMAIN attempts[k] |-> Older(attempts[k][i])]]
       IN  IF backend = "memory" THEN aged
           ELSE [k \in Key |-> Kept(aged[k], MaxLag)]
  /\ untilPrune' = [l \in Limiter |-> IF backend = "memory" /\ untilPrune[l] > -MaxLag
                                      THEN untilPrune[l] - 1 ELSE untilPrune[l]]
  /\ req' = [r \in Request |-> IF req[r].at \in {"check", "record"}
                               THEN [req[r] EXCEPT !.lag = @ + 1] ELSE req[r]]
  /\ UNCHANGED <<backend, workers>>

\* The process starts anew: requests are lost, and so is what it kept in memory.
Restart ==
  /\ attempts' = IF backend = "memory" THEN [k \in Key |-> <<>>] ELSE attempts
  /\ untilPrune' = [l \in Limiter |-> PruneEvery]
  /\ req' = [r \in Request |-> Idle]
  /\ UNCHANGED <<backend, workers>>

Serve(r) == ReadClock(r) \/ Check(r) \/ Record(r) \/ Succeed(r) \/ Fail(r)

Next ==
  \/ \E r \in Request : (\E route \in Routes : Arrive(r, route)) \/ Serve(r)
  \/ Tick
  \/ Restart

Spec == Init /\ [][Next]_vars

\* Time passes, and threads that were started run.
Fairness == WF_vars(Tick) /\ \A r \in Request : WF_vars(Serve(r))
FairSpec == Spec /\ Fairness

-----------------------------------------------------------------------------
(* Properties *)

Live(k) == {i \in DOMAIN attempts[k] : attempts[k][i] < Window}

\* "Rejects requests that exceed max_attempts within window_seconds": with n
\* requests at a time, at most n - 1 more are let through, since only those can
\* be between the check and the record of a key together.
WithinBound ==
  LET pending(k) == {r \in Request : /\ req[r].at \in {"admitted", "record"}
                                     /\ Head(req[r].gates) = k}
  IN  \A k \in Key : Cardinality(Live(k)) + Cardinality(pending(k)) <= Limit[Scope[k]] + workers - 1

\* No client is shut out for good, however often it and others try meanwhile: a
\* refused attempt is not counted, and a full key reopens.
KeysReopen == \A k \in Key : []<>(Cardinality(Live(k)) < Limit[Scope[k]])

\* One request at a time, and the clock not having moved since it was read, the
\* Retry-After of a refusal is right: after as many ticks the key has room, and
\* one tick earlier it has not.
RetryAfterExact ==
  [][\A r \in Request :
        workers = 1 /\ Check(r) /\ Limited(r) /\ req[r].lag = 0 =>
           LET k == Head(req[r].gates)
               wait == RetryAfter(k, 0)
               liveIn(n) == {i \in Live(k) : attempts[k][i] + n < Window}
           IN  /\ Cardinality(liveIn(wait)) < Limit[Scope[k]]
               /\ Cardinality(liveIn(wait - 1)) >= Limit[Scope[k]]]_vars

\* Cleaning up never forgets an attempt that still counts, of any key, whatever
\* clock the request that cleans up has read; and, in memory, the limiter that is
\* asked keeps no key, of whomever, that has not been tried for a window and a prune
\* interval ("prevents memory from growing without bound", rate_limit.py).
CleanupExact ==
  [][\A r \in Request : Check(r) \/ Record(r) =>
        \A k \in Key :
          /\ Cardinality(Live(k)') >= Cardinality(Live(k))
          /\ /\ backend = "memory" /\ attempts'[k] # <<>>
             /\ Scope[k] = Scope[Head(req[r].gates)]
             => \E i \in DOMAIN attempts'[k] : attempts'[k][i] < Old]_vars
=============================================================================
