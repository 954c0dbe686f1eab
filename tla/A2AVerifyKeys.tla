---------------------------- MODULE A2AVerifyKeys ----------------------------
(***************************************************************************)
(* The verification keys of a2a-channel.ts: verifyInbound() and            *)
(* getVerifyKey() for one sender.  The key of the sender lives in Redis,   *)
(* where it may be rotated or revoked at any time; every handler of every  *)
(* session of a core goes through one shared cache of it.  A handler that  *)
(* fails with the cached key fetches the key once more, past the cache.    *)
(*                                                                         *)
(* A fetch is sent, read by Redis and answered at three different moments, *)
(* so an older key may be written into the cache after a newer one.  Time  *)
(* is counted in ticks; withTimeout() bounds a fetch by Timeout.           *)
(***************************************************************************)
EXTENDS Integers

CONSTANTS
    Handler,   \* handlers that verify messages of the sender
    MaxKey,    \* bound on the number of keys the sender ever has
    Ttl,       \* keyCacheTtlS, in ticks
    Timeout,   \* REDIS_TIMEOUT_MS, in ticks
    MaxTime    \* bound on the clock

KeysAssumption ==
    /\ MaxKey \in Nat \ {0}
    /\ Ttl \in Nat
    /\ Timeout \in Nat
    /\ MaxTime \in Nat

Key     == 1..MaxKey
Absent  == 0     \* no key in Redis, or no entry in the cache
Unread  == -1    \* the fetch has not reached Redis yet

VARIABLES
    now,       \* the clock
    redisKey,  \* the sender's key in Redis
    until,     \* history: when a key was last seen in Redis, once it is gone
    issued,    \* history: the newest key issued so far
    cache,     \* keyCache entry: the key
    exp,       \* keyCache entry: exp
    phase,     \* "idle", "fetch" (getVerifyKey(from, false)), "refetch" (getVerifyKey(from, true))
    sig,       \* the key the message is signed with
    sentAt,    \* when the running fetch was sent
    got,       \* what Redis read for it
    outcome,   \* result of the handler's last verifyInbound()
    doneAt,    \* when it returned
    clean      \* history: signed with the current key, no rotation and no failed fetch since

vars == <<now, redisKey, until, issued, cache, exp, phase, sig, sentAt, got, outcome, doneAt, clean>>

Init ==
    /\ now = 0
    /\ redisKey = 1
    /\ until = [k \in Key |-> 0]
    /\ issued = 1
    /\ cache = Absent
    /\ exp = 0
    /\ phase = [h \in Handler |-> "idle"]
    /\ sig = [h \in Handler |-> 1]
    /\ sentAt = [h \in Handler |-> 0]
    /\ got = [h \in Handler |-> Unread]
    /\ outcome = [h \in Handler |-> "none"]
    /\ doneAt = [h \in Handler |-> 0]
    /\ clean = [h \in Handler |-> FALSE]

\* The last moment at which k was the key in Redis.
LastCurrent(k) == IF k = redisKey THEN now ELSE until[k]

------------------------------------------------------------------------------
\* getVerifyKey() goes to Redis.
Fetch(h, p) ==
    /\ phase' = [phase EXCEPT ![h] = p]
    /\ sentAt' = [sentAt EXCEPT ![h] = now]
    /\ got' = [got EXCEPT ![h] = Unread]
    /\ outcome' = [outcome EXCEPT ![h] = "none"]
    /\ doneAt' = [doneAt EXCEPT ![h] = 0]

\* verifyInbound() returns.
Done(h, result) ==
    /\ phase' = [phase EXCEPT ![h] = "idle"]
    /\ outcome' = [outcome EXCEPT ![h] = result]
    /\ doneAt' = [doneAt EXCEPT ![h] = now]
    /\ sentAt' = [sentAt EXCEPT ![h] = 0]
    /\ got' = [got EXCEPT ![h] = Unread]

\* Mutant of Retry: no cache-bypassing refetch.
RetryNever(h) == Done(h, "bad")

\* The key at hand does not verify the message: one more try, past the cache.
Retry(h) == IF phase[h] = "refetch" THEN Done(h, "bad") ELSE Fetch(h, "refetch")

\* Mutant of Fresh: an entry is used whatever its age.
FreshForever == cache # Absent

\* A cached key that may be used.
Fresh == cache # Absent /\ exp > now

\* verifyInbound() starts on a message signed with k: the cache, if it is fresh,
\* else a fetch.
Verify(h, k) ==
    /\ phase[h] = "idle"
    /\ sig' = [sig EXCEPT ![h] = k]
    /\ clean' = [clean EXCEPT ![h] = k = redisKey]
    /\ CASE Fresh /\ cache = k -> Done(h, "ok")
         [] Fresh /\ cache # k -> Retry(h)
         [] OTHER              -> Fetch(h, "fetch")
    /\ UNCHANGED <<now, redisKey, until, issued, cache, exp>>

\* Redis executes the GET.
Read(h) ==
    /\ phase[h] # "idle"
    /\ got[h] = Unread
    /\ got' = [got EXCEPT ![h] = redisKey]
    /\ UNCHANGED <<now, redisKey, until, issued, cache, exp, phase, sig, sentAt, outcome, doneAt,
                   clean>>

\* Mutant of CacheSet: a fetch that finds no key prolongs the entry.
CacheSetSliding(k) ==
    /\ cache' = IF k = Absent THEN cache ELSE k
    /\ exp' = IF k = Absent /\ cache # Absent THEN exp + Ttl ELSE now + Ttl

\* keyCache.set(): only a key that exists is cached.
CacheSet(k) ==
    /\ cache' = IF k = Absent THEN cache ELSE k
    /\ exp' = IF k = Absent THEN exp ELSE now + Ttl

\* The answer arrives: cache it and verify with it.
Answer(h) ==
    /\ phase[h] # "idle"
    /\ got[h] # Unread
    /\ CacheSet(got[h])
    /\ IF got[h] = sig[h] THEN Done(h, "ok") ELSE Retry(h)
    /\ UNCHANGED <<now, redisKey, until, issued, sig, clean>>

\* The fetch throws or times out: no key, and the cache is left alone.
FetchFail(h) ==
    /\ phase[h] # "idle"
    /\ clean' = [clean EXCEPT ![h] = FALSE]
    /\ Retry(h)
    /\ UNCHANGED <<now, redisKey, until, issued, cache, exp, sig>>

\* evictOldest(): the keys of other senders push this one out of the cache.
Evict ==
    /\ cache # Absent
    /\ cache' = Absent
    /\ exp' = 0
    /\ UNCHANGED <<now, redisKey, until, issued, phase, sig, sentAt, got, outcome, doneAt, clean>>

\* The sender's key is revoked, or replaced by a new one.
Rotate(k) ==
    /\ k # redisKey
    /\ k = Absent \/ k = issued + 1
    /\ redisKey' = k
    /\ issued' = IF k = Absent THEN issued ELSE k
    /\ until' = [j \in Key |-> IF j = redisKey THEN now ELSE until[j]]
    /\ clean' = [h \in Handler |-> FALSE]
    /\ UNCHANGED <<now, cache, exp, phase, sig, sentAt, got, outcome, doneAt>>

Tick ==
    /\ now < MaxTime
    /\ \A h \in Handler : phase[h] # "idle" => now < sentAt[h] + Timeout
    /\ now' = now + 1
    /\ UNCHANGED <<redisKey, until, issued, cache, exp, phase, sig, sentAt, got, outcome, doneAt,
                   clean>>

Next ==
    \/ \E h \in Handler : Read(h) \/ Answer(h) \/ FetchFail(h) \/ \E k \in Key : Verify(h, k)
    \/ \E k \in Key \cup {Absent} : Rotate(k)
    \/ Evict
    \/ Tick

Spec == Init /\ [][Next]_vars

------------------------------------------------------------------------------
\* Type invariant of the key cache.
TypeOK ==
    /\ now \in 0..MaxTime
    /\ redisKey \in Key \cup {Absent}
    /\ until \in [Key -> 0..MaxTime]
    /\ issued \in Key
    /\ cache \in Key \cup {Absent}
    /\ exp \in 0..MaxTime + Ttl
    /\ phase \in [Handler -> {"idle", "fetch", "refetch"}]
    /\ sig \in [Handler -> Key]
    /\ sentAt \in [Handler -> 0..MaxTime]
    /\ got \in [Handler -> Key \cup {Absent, Unread}]
    /\ outcome \in [Handler -> {"none", "ok", "bad"}]
    /\ doneAt \in [Handler -> 0..MaxTime]
    /\ clean \in [Handler -> BOOLEAN]

\* getVerifyKey(): a message is accepted under a key that was rotated out or revoked
\* only within the cache TTL plus the time of one fetch, in whatever order the
\* fetches of concurrent handlers fill the cache.
BoundedStaleness ==
    \A h \in Handler : outcome[h] = "ok" => doneAt[h] <= LastCurrent(sig[h]) + Ttl + Timeout

\* verifyInbound(): a message signed with the sender's current key is never 'bad'
\* unless the key changed or a fetch failed while it was being verified.
NoFalseReject == \A h \in Handler : outcome[h] = "bad" => ~clean[h]
==============================================================================
