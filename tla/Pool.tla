-------------------------------- MODULE Pool --------------------------------
(***************************************************************************)
(* The connection pool of one process, src/db.py.  It is made by the first  *)
(* request that needs it: connect looks whether there is a pool, awaits     *)
(* create_pool and stores the result, so other requests run in between.     *)
(*                                                                          *)
(* A request takes one connection at a time (db.connection), and gives it   *)
(* back when its async with block ends, by an exception too.  disconnect is *)
(* left out: it is the last thing a process does.                           *)
(***************************************************************************)
EXTENDS Integers, FiniteSets

CONSTANTS
    Requests,  \* coroutines that serve requests, one after the other
    PoolMax    \* settings.OPENSQL_POOL_MAX

ASSUME RequestsAssumption == IsFiniteSet(Requests)
ASSUME PoolMaxAssumption == PoolMax \in Nat \ {0}

VARIABLES
    pool,    \* self.pool, 0 for None; pools are numbered as they are opened
    opened,  \* pools opened so far; all but the current one are lost
    place,   \* where each request is in db.connection
    using,   \* the pool a request waits for or has a connection of
    busy     \* connections of each pool that are taken

poolVars == <<pool, opened, place, using, busy>>

Pools == 1 .. Cardinality(Requests)
Places == {"idle", "connecting", "waiting", "connected"}

PoolTypeOK ==
    /\ pool \in {0} \cup Pools
    /\ opened \in {0} \cup Pools
    /\ place \in [Requests -> Places]
    /\ using \in [Requests -> {0} \cup Pools]
    /\ busy \in [Pools -> 0 .. PoolMax]

PoolInit ==
    /\ pool = 0
    /\ opened = 0
    /\ place = [r \in Requests |-> "idle"]
    /\ using = [r \in Requests |-> 0]
    /\ busy = [p \in Pools |-> 0]

\* connect's way out: if self.pool is not None.
NeverConnected == FALSE
Connected == pool # 0

\* db.connection, up to its first await.
Enter(r) ==
    /\ place[r] = "idle"
    /\ place' = [place EXCEPT ![r] = IF Connected THEN "waiting" ELSE "connecting"]
    /\ using' = [using EXCEPT ![r] = pool]
    /\ UNCHANGED <<pool, opened, busy>>

\* create_pool returns; there is no await between the store and the acquire.
PoolOpens(r) ==
    /\ place[r] = "connecting"
    /\ opened' = opened + 1
    /\ pool' = opened + 1
    /\ using' = [using EXCEPT ![r] = opened + 1]
    /\ place' = [place EXCEPT ![r] = "waiting"]
    /\ UNCHANGED busy

Acquire(r) ==
    /\ place[r] = "waiting"
    /\ busy[using[r]] < PoolMax
    /\ busy' = [busy EXCEPT ![using[r]] = @ + 1]
    /\ place' = [place EXCEPT ![r] = "connected"]
    /\ UNCHANGED <<pool, opened, using>>

\* Connections the end of the block gives back.
ReturnedUnlessRaised(raised) == IF raised THEN 0 ELSE 1
Returned(raised) == 1

\* The pool it goes back to: the one it was acquired from, whatever self.pool is
\* by then.
HomeIsCurrent(r) == pool
Home(r) == using[r]

Exit(r, raised) ==
    /\ place[r] = "connected"
    /\ busy' = [busy EXCEPT ![Home(r)] = @ - Returned(raised)]
    /\ using' = [using EXCEPT ![r] = 0]
    /\ place' = [place EXCEPT ![r] = "idle"]
    /\ UNCHANGED <<pool, opened>>

\* create_pool raises, and with it the request.
PoolFails(r) ==
    /\ place[r] = "connecting"
    /\ place' = [place EXCEPT ![r] = "idle"]
    /\ using' = [using EXCEPT ![r] = 0]
    /\ UNCHANGED <<pool, opened, busy>>

-----------------------------------------------------------------------------
\* A connection is taken as long as a request has it.  A pool that was lost to
\* the race of connect while requests had its connections gets them back, and
\* the pool that replaced it, whose limit they did not count for, does not; none
\* is lost as a request raises.
Connections(p) == {r \in Requests : place[r] = "connected" /\ using[r] = p}
ConnectionsCounted == \A p \in Pools : busy[p] = Cardinality(Connections(p))

-----------------------------------------------------------------------------
\* What the invariants above rest on: with ConnectionsCounted it is inductive.

\* The pools that are open and those that may still be opened are bounded:
\* once there is a pool, nobody begins to open another one.
Connecting == {r \in Requests : place[r] = "connecting"}
PoolsToCome == opened + Cardinality(Connecting) <= Cardinality(Requests)

\* The pool in use is the last one opened, the number of which it has.
LastPoolIsKept == pool = opened

\* Who waits for a connection or has one got it from a pool that was opened.
UsesOpenPool ==
    \A r \in Requests :
        place[r] \in {"waiting", "connected"} => using[r] \in 1 .. opened

PoolIInv ==
    /\ PoolTypeOK
    /\ PoolsToCome
    /\ LastPoolIsKept
    /\ UsesOpenPool
    /\ ConnectionsCounted
=============================================================================
