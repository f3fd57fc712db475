-------------------------- MODULE AuthRateLimiter --------------------------
(* The table of failed authentications: a bounded map from a key (of the    *)
(* credential and the client) to its failures in a window, with a lockout   *)
(* once there are too many.  The operators return the table after a call.   *)
EXTENDS Naturals, FiniteSets, Functions

CONSTANTS MaxFailures, Window, Lockout, MaxEntries  \* of AuthConfig; times in ticks

WindowExpired(e, t) == t > e.since + Window
Locked(e, t) == e.until > t

Without(m, k) == Restrict(m, DOMAIN m \ {k})

(* check: an expired entry goes, with its lockout if it still has one. *)
Rejects(m, k, t) ==
    /\ MaxFailures > 0 /\ k \in DOMAIN m
    /\ ~WindowExpired(m[k], t) /\ Locked(m[k], t)

Checked(m, k, t) ==
    IF MaxFailures = 0 \/ k \notin DOMAIN m THEN m
    ELSE IF WindowExpired(m[k], t) THEN Without(m, k)
    ELSE [m EXCEPT ![k].seen = t]

-----------------------------------------------------------------------------
(* record_failure.  A full table gives up its oldest key that is not locked *)
(* (ties by the order of the keys); if there is none, a new key is not kept.*)
Oldest(m, ks) == CHOOSE k \in ks : \A j \in ks : m[k].seen <= m[j].seen

MutEvictable(m, t) == DOMAIN m
Evictable(m, t) == {k \in DOMAIN m : ~Locked(m[k], t)}

Current(m, t) == Restrict(m, {k \in DOMAIN m : ~WindowExpired(m[k], t)})

Counted(m, k, t) ==
    LET e == IF k \in DOMAIN m THEN m[k] ELSE [count |-> 0, since |-> t, until |-> 0, seen |-> t]
        n == e.count + 1
        failed == [count |-> n, since |-> e.since, seen |-> t,
                   until |-> IF n >= MaxFailures THEN t + Lockout ELSE e.until]
    IN  [j \in DOMAIN m \cup {k} |-> IF j = k THEN failed ELSE m[j]]

Failed(m, k, t) ==
    LET current == Current(m, t)
        full == k \notin DOMAIN current /\ Cardinality(DOMAIN current) >= MaxEntries
    IN  IF MaxFailures = 0 \/ MaxEntries = 0 THEN m
        ELSE IF ~full THEN Counted(current, k, t)
        ELSE IF Evictable(current, t) = {} THEN current
        ELSE Counted(Without(current, Oldest(current, Evictable(current, t))), k, t)

(* record_success *)
Forgiven(m, k) == Without(m, k)
=============================================================================
