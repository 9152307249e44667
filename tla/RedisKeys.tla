----------------------------- MODULE RedisKeys -----------------------------
(***************************************************************************)
(* The Redis data types the scheduler is built on, modelled from how the   *)
(* Lua scripts and pipelines of src/platform use them (Redis itself is     *)
(* external to the repository).                                            *)
(*                                                                         *)
(* A sorted set is a function from its members to their scores; a key that *)
(* does not exist is the empty sorted set.  A key's time to live is the    *)
(* absolute time at which it disappears, NoExpiry when it has none.        *)
(***************************************************************************)
EXTENDS Naturals, FiniteSets

\* TTL answers -1: the key exists without an expiry (or is absent).
NoExpiry == 0

\* A sorted set that does not exist.
EmptyZSet == [m \in {} |-> 0]

\* z is a sorted set of members of S with natural scores.
IsZSet(z, S) ==
    /\ z = [m \in DOMAIN z |-> z[m]]
    /\ DOMAIN z \subseteq S
    /\ \A m \in DOMAIN z : z[m] \in Nat

\* ZADD key score member: adds the member or moves it to the new score.
ZAdd(zset, member, score) ==
    [m \in DOMAIN zset \cup {member} |-> IF m = member THEN score ELSE zset[m]]

\* ZREM key member...: removes the members that are there.
ZRem(zset, members) == [m \in DOMAIN zset \ members |-> zset[m]]

\* ZCARD key.
ZCard(zset) == Cardinality(DOMAIN zset)

\* ZRANGEBYSCORE key -inf max, as a set of members.
ZUpTo(zset, max) == {m \in DOMAIN zset : zset[m] <= max}

\* A key with expiry e no longer exists at time t.
Expired(e, t) == e # NoExpiry /\ e <= t

\* The conditional EXPIRE of the scripts: renew when the key has no expiry
\* or less than half of its time to live is left.
RenewExpiryOnlyOnce(e, t, ttl) == IF e = NoExpiry THEN t + ttl ELSE e
RenewExpiry(e, t, ttl) ==
    IF e = NoExpiry \/ 2 * (e - t) < ttl THEN t + ttl ELSE e

=============================================================================
