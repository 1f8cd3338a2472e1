------------------------------- MODULE Limits -------------------------------
(***************************************************************************)
(* The two limiters of the api process: queries per user and project, and  *)
(* failed logins per address and email.  Both count hits in a sliding      *)
(* window (domain/sliding_window.py) that may remember only so many keys.  *)
(*                                                                         *)
(* A hit is its age in ticks.  The query limiter counts and records in one *)
(* step of the event loop; a login counts, then checks the password in the *)
(* database, and records a failure only after that.                        *)
(***************************************************************************)
EXTENDS Naturals, FiniteSets, SequencesExt

CONSTANTS
    Keys,      \* (user, project) or (address, email)
    NoKey,     \* the key of a caller that is not logging in
    Logins,   \* logins that may be under way together
    Limit,     \* hits a key may have inside the window
    Window,    \* age at which a hit no longer counts
    MaxKeys    \* keys the window may remember

ASSUME LimitsAssumption ==
    /\ IsFiniteSet(Keys) /\ IsFiniteSet(Logins) /\ Logins # {} /\ NoKey \notin Keys
    /\ Limit \in Nat /\ Window \in Nat \ {0} /\ MaxKeys \in Nat \ {0}

VARIABLES
    limiter,   \* "query" or "login"
    hits,      \* ages: the hits of each key, the oldest first, <<>> for a key that is not
               \* remembered; after: the remembered keys whose last hit is later
    asking,    \* the key each caller is logging in with
    owed,      \* history: ages of the hits of each key that must still count
    since      \* history: the other keys hit after each key's last hit

limitVars == <<limiter, hits, asking, owed, since>>

-----------------------------------------------------------------------------
(* domain/sliding_window.py *)

\* Timestamps at or before the cutoff are popped from the old end.
Purge(ages) ==
    LET gone == CHOOSE n \in 0..Len(ages) :
                    (\A m \in 1..n : ages[m] >= Window) /\ (n < Len(ages) => ages[n + 1] < Window)
    IN  SubSeq(ages, gone + 1, Len(ages))

Remembered(w) == {k \in Keys : w.ages[k] # <<>>}

Forget(w, some) ==
    [ages |-> [k \in Keys |-> IF k \in some THEN <<>> ELSE w.ages[k]],
     after |-> [k \in Keys |-> IF k \in some THEN {} ELSE w.after[k] \ some]]

CountHits(w, k) == Len(Purge(w.ages[k]))

\* What count() leaves: the key's hits purged in place, the key gone when there are
\* none; an unknown key stays unknown.
AfterCount(w, k) ==
    IF CountHits(w, k) = 0 THEN Forget(w, {k}) ELSE [w EXCEPT !.ages[k] = Purge(@)]

Expired(w) == {k \in Remembered(w) : Last(w.ages[k]) >= Window}

\* Mutant: the keys that were hit last are the ones dropped.
EvictNewest(w) ==
    LET live == Forget(w, Expired(w))
        before(k) == {l \in Remembered(live) : k \in live.after[l]}
    IN  Forget(live, {k \in Remembered(live) : Cardinality(before(k)) >= MaxKeys})

\* Expired keys are swept first; the least recently hit follow if that is not enough.
EvictKeys(w) ==
    LET live == Forget(w, Expired(w))
    IN  Forget(live, {k \in Remembered(live) : Cardinality(live.after[k]) >= MaxKeys})

\* add(): the key moves to the recent end.
Hit(w, k) ==
    [ages |-> [w.ages EXCEPT ![k] = Append(Purge(@), 0)],
     after |-> [l \in Keys |-> IF l # k /\ l \in Remembered(w) THEN w.after[l] \cup {k} ELSE {}]]

AfterAdd(w, k) ==
    IF Cardinality(Remembered(Hit(w, k))) > MaxKeys THEN EvictKeys(Hit(w, k)) ELSE Hit(w, k)

-----------------------------------------------------------------------------
LimitsInit ==
    /\ limiter \in {"query", "login"}
    /\ hits = [ages |-> [k \in Keys |-> <<>>], after |-> [k \in Keys |-> {}]]
    /\ asking = [c \in Logins |-> NoKey]
    /\ owed = [k \in Keys |-> <<>>]
    /\ since = [k \in Keys |-> {}]

\* History of an accepted hit of k.  The hits of a key are forgotten once as many
\* other keys as the window remembers have been hit after it.
Remember(k) ==
    /\ since' = [l \in Keys |-> IF l = k THEN {} ELSE since[l] \cup {k}]
    /\ owed' = [l \in Keys |->
                  IF l = k THEN Append(owed[k], 0)
                  ELSE IF Cardinality(since'[l]) >= MaxKeys THEN <<>> ELSE owed[l]]

\* RateLimiter.check: a refused request is not recorded.
Query(k) ==
    /\ limiter = "query"
    /\ IF CountHits(hits, k) >= Limit
       THEN hits' = AfterCount(hits, k) /\ UNCHANGED <<owed, since>>
       ELSE hits' = AfterAdd(AfterCount(hits, k), k) /\ Remember(k)
    /\ UNCHANGED <<limiter, asking>>

\* _check_login_rate_limit: a full bucket is a 429; else the password is looked at.
BeginLogin(c, k) ==
    /\ limiter = "login" /\ asking[c] = NoKey
    /\ asking' = IF CountHits(hits, k) >= Limit THEN asking ELSE [asking EXCEPT ![c] = k]
    /\ hits' = AfterCount(hits, k)
    /\ UNCHANGED <<limiter, owed, since>>

\* authenticate answered: a failure is recorded, a success leaves the window alone.
FinishLogin(c) ==
    /\ asking[c] # NoKey
    /\ asking' = [asking EXCEPT ![c] = NoKey]
    /\ \/ hits' = AfterAdd(hits, asking[c]) /\ Remember(asking[c])
       \/ UNCHANGED <<hits, owed, since>>
    /\ UNCHANGED limiter

\* Time passes; a hit older than the window is owed to nobody.
Older(ages) == [n \in DOMAIN ages |-> IF ages[n] < Window THEN ages[n] + 1 ELSE Window]
PassTime ==
    /\ hits' = [hits EXCEPT !.ages = [k \in Keys |-> Older(@[k])]]
    /\ owed' = [k \in Keys |-> Purge(Older(owed[k]))]
    /\ UNCHANGED <<limiter, asking, since>>

LimitsNext ==
    \/ \E k \in Keys : Query(k) \/ \E c \in Logins : BeginLogin(c, k)
    \/ \E c \in Logins : FinishLogin(c)
    \/ PassTime

LimitsSpec == LimitsInit /\ [][LimitsNext]_limitVars

LimitsTypeOK ==
    /\ limiter \in {"query", "login"}
    /\ hits \in [ages : [Keys -> Seq(0..Window)], after : [Keys -> SUBSET Keys]]
    /\ asking \in [Logins -> Keys \cup {NoKey}]

\* Nobody clears a bucket of their own by hitting other keys: until as many
\* other keys as the window remembers have been hit since, a key never has more
\* than Limit accepted hits in any window, failed logins that were already past
\* the check aside, and the window never remembers more than MaxKeys keys.
AttemptsAreBounded ==
    /\ Cardinality(Remembered(hits)) <= MaxKeys
    /\ \A k \in Keys :
        Len(owed[k]) <= IF limiter = "query" THEN Limit ELSE Limit + Cardinality(Logins) - 1
=============================================================================
