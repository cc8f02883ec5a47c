-------------------------------- MODULE Pool --------------------------------
(***************************************************************************)
(* The connection pool of the TCP clients (test/integration/pool.h):       *)
(* client threads acquire and release connections, a monitor thread drops  *)
(* those that were idle too long.  What runs under the pool's mutex is one *)
(* step; acquire looks at the cap before it takes the mutex.               *)
(***************************************************************************)
EXTENDS Naturals, Sequences, FiniteSets

CONSTANTS
  Clients,     \* the threads that use the pool
  None,        \* no connection
  initialSize, maxPoolSize, maxConnections, maxIdleTime,  \* Configuration
  MaxCreated,  \* bound: connections that are made
  MaxTime      \* bound: how far the clock goes

Ids == 1 .. MaxCreated
Times == 0 .. MaxTime
Wrappers == [id : Ids, time : Times]

ASSUME PoolAssumption ==
  /\ IsFiniteSet(Clients)
  /\ {initialSize, maxPoolSize, maxConnections, maxIdleTime, MaxCreated, MaxTime} \subseteq Nat
  /\ initialSize <= MaxCreated
  /\ None \notin Nat

VARIABLES
  total, created,
  lost,        \* history: how often the creator threw after total was raised
  available,   \* the idle connections, with the time of their release
  invalid,     \* the connections whose client has called setValid(false)
  now,         \* the clock
  pc, con,     \* for each client: idle, past the cap, using; and its connection
  monitor,     \* ttlMonitor: sleep, scan, done
  scanned,     \* now in removeExpired
  stop

counts == <<total, created, lost>>
users == <<pc, con, invalid>>
ttl == <<monitor, scanned, stop>>
vars == <<counts, available, users, ttl, now>>

TypeOK ==
  /\ total \in Nat /\ created \in 0 .. MaxCreated /\ lost \in Nat
  /\ available \in Seq(Wrappers) /\ invalid \subseteq Ids
  /\ now \in Times /\ scanned \in Times
  /\ pc \in [Clients -> {"idle", "cleared", "using"}]
  /\ con \in [Clients -> Ids \cup {None}]
  /\ \A t \in Clients : con[t] = None <=> pc[t] # "using"
  /\ monitor \in {"sleep", "scan", "done"} /\ stop \in BOOLEAN

Init ==
  /\ total = 0 /\ created = initialSize /\ lost = 0
  /\ available = [i \in 1 .. initialSize |-> [id |-> i, time |-> 0]]
  /\ invalid = {} /\ now = 0
  /\ pc = [t \in Clients |-> "idle"] /\ con = [t \in Clients |-> None]
  /\ monitor = "sleep" /\ scanned = 0 /\ stop = FALSE

-----------------------------------------------------------------------------
(* acquire, release and what clients do in between.                        *)

Go(t, step, id) ==
  /\ pc' = [pc EXCEPT ![t] = step]
  /\ con' = [con EXCEPT ![t] = id]
  /\ UNCHANGED invalid

ClearedBelow(t, cap) ==
  /\ pc[t] = "idle" /\ ~stop
  /\ total < cap
  /\ Go(t, "cleared", None)
  /\ UNCHANGED <<counts, available, ttl, now>>

\* Slip: the cap is taken for the last one that is allowed.
ClearedInclusive(t) == ClearedBelow(t, maxConnections + 1)

\* acquire looks at total; at the cap it returns nothing, and nothing changes.
Cleared(t) == ClearedBelow(t, maxConnections)

ReuseLeaving(t, rest) ==
  /\ pc[t] = "cleared" /\ available # <<>>
  /\ total' = total + 1
  /\ Go(t, "using", Head(available).id)
  /\ available' = rest
  /\ UNCHANGED <<created, lost, ttl, now>>

\* Slip: the front is not popped.
ReuseKeeping(t) == ReuseLeaving(t, available)

Reuse(t) == ReuseLeaving(t, Tail(available))

Create(t) ==
  /\ pc[t] = "cleared" /\ available = <<>> /\ created < MaxCreated
  /\ total' = total + 1
  /\ created' = created + 1
  /\ Go(t, "using", created + 1)
  /\ UNCHANGED <<lost, available, ttl, now>>

\* The creator throws, after both counters were raised; nothing lowers total again.
CreateThrows(t) ==
  /\ pc[t] = "cleared" /\ available = <<>> /\ created < MaxCreated
  /\ total' = total + 1
  /\ created' = created + 1
  /\ lost' = lost + 1
  /\ Go(t, "idle", None)
  /\ UNCHANGED <<available, ttl, now>>

SetInvalid(t) ==
  /\ pc[t] = "using" /\ con[t] \notin invalid
  /\ invalid' = invalid \cup {con[t]}
  /\ UNCHANGED <<counts, available, pc, con, ttl, now>>

Put(w) == Append(available, w)

Room == Len(available) < maxPoolSize

ReleaseTo(t, users_left) ==
  /\ pc[t] = "using"
  /\ total' = users_left
  /\ available' = IF con[t] \notin invalid /\ Room
                  THEN Put([id |-> con[t], time |-> now]) ELSE available
  /\ Go(t, "idle", None)
  /\ UNCHANGED <<created, lost, ttl, now>>

\* Slip: the proxy that was moved from releases as well.
ReleaseTwice(t) == ReleaseTo(t, IF total > 1 THEN total - 2 ELSE 0)

\* ~Proxy: the connection goes to the back of the idle ones, or is closed.
Release(t) == ReleaseTo(t, total - 1)

-----------------------------------------------------------------------------
(* ttlMonitor and removeExpired, and ~Pool.                                *)

Wake ==
  /\ monitor = "sleep" /\ ~stop
  /\ monitor' = "scan" /\ scanned' = now
  /\ UNCHANGED <<counts, available, users, stop, now>>

Expired(w) == scanned >= w.time + maxIdleTime
Due == available # <<>> /\ Expired(Head(available))

\* Each round of the loop takes the mutex anew.
Erase ==
  /\ monitor = "scan" /\ Due
  /\ available' = Tail(available)
  /\ UNCHANGED <<counts, users, ttl, now>>

ScannedThen(next) ==
  /\ monitor = "scan" /\ ~Due
  /\ monitor' = next
  /\ UNCHANGED <<counts, available, users, scanned, stop, now>>

\* Slip: the thread ends with the first scan.
ScannedOnce == ScannedThen("done")

Scanned == ScannedThen("sleep")

Done ==
  /\ monitor = "sleep" /\ stop
  /\ monitor' = "done"
  /\ UNCHANGED <<counts, available, users, scanned, stop, now>>

\* ~Pool, when no client uses the pool any more.
Destroy ==
  /\ ~stop /\ \A t \in Clients : pc[t] = "idle"
  /\ stop' = TRUE
  /\ UNCHANGED <<counts, available, users, monitor, scanned, now>>

Tick ==
  /\ now < MaxTime
  /\ now' = now + 1
  /\ UNCHANGED <<counts, available, users, ttl>>

Use(t) == Cleared(t) \/ Reuse(t) \/ Create(t) \/ CreateThrows(t) \/ SetInvalid(t) \/ Release(t)
Monitor == Wake \/ Erase \/ Scanned \/ Done

Next == (\E t \in Clients : Use(t)) \/ Monitor \/ Destroy \/ Tick

Spec == Init /\ [][Next]_vars

\* The monitor thread runs, and clients come out of acquire.
FairSpec == Spec /\ WF_vars(Monitor)

-----------------------------------------------------------------------------
(* Properties.                                                             *)

Using == {t \in Clients : pc[t] = "using"}
IdOf(i) == available[i].id

\* A connection has one user at a time, and none while it is idle in the pool.
OneUserEach ==
  /\ \A t, u \in Using : con[t] = con[u] => t = u
  /\ \A t \in Using : \A i \in DOMAIN available : IdOf(i) # con[t]
  /\ \A i, j \in DOMAIN available : IdOf(i) = IdOf(j) => i = j

\* acquire looks at the cap before it takes the mutex, so the cap can be passed, but
\* by no more than the threads that looked together, those that wait for the mutex
\* counted in; a creator that throws uses up a place like a user.
CapMissedByFew ==
  total + Cardinality({t \in Clients : pc[t] = "cleared"})
    < maxConnections + Cardinality(Clients)

\* total is the number of connections that are out and, for ever, one more for each
\* creator that threw: no other path raises it without a release to come or lowers it
\* twice, so that release never takes it below zero.
CountCoversUsers == TypeOK /\ total = Cardinality(Using) + lost

\* A connection that has been idle too long is closed, or used again first, although
\* removeExpired stops at the first connection that has not expired: those behind it
\* were released later.
ExpiredGo ==
  \A id \in Ids :
    (\E i \in DOMAIN available : IdOf(i) = id /\ now >= available[i].time + maxIdleTime)
      ~> (stop \/ \A i \in DOMAIN available :
                    IdOf(i) = id => now < available[i].time + maxIdleTime)
=============================================================================
