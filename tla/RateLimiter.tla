----------------------------- MODULE RateLimiter -----------------------------
(***************************************************************************)
(* The throttle in front of /auth/* (app/security/rate_limit_middleware.py *)
(* and sliding_window_limiter.py): at most Limit admissions of one client  *)
(* in any Window, remembered for at most MaxKeys clients.                  *)
(*                                                                         *)
(* The middleware decides without suspending, so a request is one step.    *)
(***************************************************************************)
EXTENDS Naturals, Sequences, FiniteSets

CONSTANTS
    Addresses,
    NoAddress,       \* no peer, or no forwarded-for header: the key "unknown"
    TrustForwarded,  \* LAVS_AUTH_RATE_TRUST_FORWARDED_FOR
    Limit,           \* LAVS_AUTH_RATE_LIMIT; 0 switches the throttle off
    Window,          \* LAVS_AUTH_RATE_WINDOW_SECONDS
    MaxKeys          \* 1024 in the code

ASSUME LimiterAssumption ==
    /\ Limit \in Nat /\ Window \in Nat /\ MaxKeys \in Nat \ {0}
    /\ TrustForwarded \in BOOLEAN /\ IsFiniteSet(Addresses)

VARIABLES
    clock,    \* the monotonic clock
    bucket,   \* the times of admission kept per tracked client
    log       \* history: every admission of every client

limiterVars == <<clock, bucket, log>>

Keys == Addresses \cup {NoAddress}
Requests == [underAuth : BOOLEAN, peer : Keys, forwarded : Keys]
-----------------------------------------------------------------------------
Enabled == Limit > 0 /\ Window > 0

Throttled(r) == r.underAuth /\ Enabled

\* The forwarded address where it is trusted and given, else the peer.
ClientKey(r) ==
    IF TrustForwarded /\ r.forwarded # NoAddress THEN r.forwarded ELSE r.peer

Last(s) == s[Len(s)]
InWindow(t) == clock < t + Window

Dropping(b, ks) == [k \in DOMAIN b \ ks |-> b[k]]

\* Buckets whose newest admission has left the window.
Stale(b) == {k \in DOMAIN b : ~InWindow(Last(b[k]))}

\* Eviction by the oldest admission kept.
LongestTracked(b) ==
    {k \in DOMAIN b : \A j \in DOMAIN b : b[k][1] <= b[j][1]}

\* The clients whose newest admission is the oldest; the code takes the first it
\* tracked of them.
LeastRecent(b) ==
    {k \in DOMAIN b : \A j \in DOMAIN b : Last(b[k]) <= Last(b[j])}

\* One client too many: the room is made when the table has overflown.
RoomAfterOverflow(b) ==
    IF Cardinality(DOMAIN b) <= MaxKeys THEN {b}
    ELSE {Dropping(b, {k}) : k \in LeastRecent(b)}

\* What may be tracked besides a new client: with the table full the stale buckets
\* go, and if it is still full, a least recent one.
RoomFor(b) ==
    LET fresh == Dropping(b, Stale(b)) IN
    IF Cardinality(DOMAIN b) < MaxKeys THEN {b}
    ELSE IF Cardinality(DOMAIN fresh) < MaxKeys THEN {fresh}
    ELSE {Dropping(fresh, {k}) : k \in LeastRecent(fresh)}
-----------------------------------------------------------------------------
LimiterInit ==
    /\ clock = 0
    /\ bucket = [k \in {} |-> <<>>]
    /\ log = [k \in Keys |-> <<>>]

\* Paths outside /auth/ and a throttle switched off: nothing is counted.
PassThrough(r) ==
    /\ ~Throttled(r)
    /\ UNCHANGED limiterVars

\* The bucket without what popleft takes: the admissions before the first that is
\* still in the window.
Expired(s) == {i \in DOMAIN s : \A j \in 1 .. i : ~InWindow(s[j])}
Kept(b, k) ==
    IF k \in DOMAIN b THEN SubSeq(b[k], Cardinality(Expired(b[k])) + 1, Len(b[k])) ELSE <<>>

Tracked(b, k) == IF k \in DOMAIN b THEN {b} ELSE RoomFor(b)
Recorded(b, k, times) == [j \in DOMAIN b \cup {k} |-> IF j = k THEN times ELSE b[j]]

Admit(r) == LET k == ClientKey(r) IN
    /\ Throttled(r)
    /\ Len(Kept(bucket, k)) < Limit
    /\ \E b \in Tracked(bucket, k) :
          bucket' = Recorded(b, k, Append(Kept(bucket, k), clock))
    /\ log' = [log EXCEPT ![k] = Append(@, clock)]
    /\ UNCHANGED clock

\* 429, and not recorded.
Refuse(r) == LET k == ClientKey(r) IN
    /\ Throttled(r)
    /\ Len(Kept(bucket, k)) >= Limit
    /\ bucket' = Recorded(bucket, k, Kept(bucket, k))
    /\ UNCHANGED <<clock, log>>

ClockTicks == clock' = clock + 1 /\ UNCHANGED <<bucket, log>>

LimiterNext == (\E r \in Requests : PassThrough(r) \/ Admit(r) \/ Refuse(r)) \/ ClockTicks

LimiterSpec == LimiterInit /\ [][LimiterNext]_limiterVars
-----------------------------------------------------------------------------
(***************************************************************************)
(* Properties.                                                             *)
(***************************************************************************)

\* "at most max_keys buckets are kept, and each bucket holds at most limit
\* timestamps" (sliding_window_limiter.py:18); and no bucket is empty, which
\* bucket[-1] at line 95 and 115 takes for granted.
MemoryIsBounded ==
    /\ Cardinality(DOMAIN bucket) <= MaxKeys
    /\ \A k \in DOMAIN bucket : Len(bucket[k]) \in 1 .. Limit

Recent(k) == {i \in DOMAIN log[k] : InWindow(log[k][i])}
RecentClients == {k \in Keys : Recent(k) # {}}

\* Forgetting a client to make room gives it a new budget.  It can exceed the
\* limit in a window only while more clients than the table holds were admitted in
\* it: evicting the least recent client forgets nobody who could be kept.
OverBudgetOnlyWhenCrowded ==
    \A k \in Keys : Cardinality(Recent(k)) > Limit => Cardinality(RecentClients) > MaxKeys
=============================================================================
