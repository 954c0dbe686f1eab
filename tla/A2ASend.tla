------------------------------ MODULE A2ASend -------------------------------
(***************************************************************************)
(* The sending side of an A2AChannel: a2a_send with its validation, its    *)
(* two token buckets, the external signer and the publish, and the skill   *)
(* announcements with the registry of global skills in Redis.              *)
(*                                                                         *)
(* A call awaits its signature and, for a direct message, the stream's     *)
(* ack; other calls run meanwhile.  Everything between two awaits is one   *)
(* step.  Time is counted in ticks, tokens in units of one tick's refill   *)
(* of the slowest bucket; one send costs Cost units.                       *)
(***************************************************************************)
EXTENDS A2AEnvelope, FiniteSets

CONSTANTS
    Call,         \* calls of the tools
    Menu,         \* what the callers of a behaviour may ask for: arguments of a2a_send and skills
    Self,         \* this.agentId
    SigAlg,       \* this.sigAlg; "off" when signing is off
    Cost,         \* units in a token
    GlobalCap, GlobalRate,   \* this.ratePerMin: capacity and refill of the global bucket
    PeerCap, PeerRate,       \* this.ratePerPeerPerMin
    MaxTracked,   \* MAX_TRACKED_KEYS
    MaxTime,      \* bound on the clock
    MaxFaults     \* bound on failing signers, publishes and registry writes

SendAssumption ==
    /\ Cost \in Nat \ {0}
    /\ GlobalCap \in Nat /\ GlobalRate \in Nat /\ PeerCap \in Nat /\ PeerRate \in Nat
    /\ MaxTracked \in Nat \ {0} /\ MaxTime \in Nat /\ MaxFaults \in Nat
    /\ Self # "bad"   \* the channel refuses to start under an id that is no token
    /\ \A u \in Menu : \A a \in u.args : a.type \in {"none", "msg", "request", "reply", "other"}

Args  == UNION {u.args : u \in Menu}
Skill == UNION {u.skills : u \in Menu}

VARIABLES
    menu,      \* the arguments and skills of this behaviour
    now,       \* the clock
    global,    \* this.globalBucket
    peers,     \* this.peerBuckets, oldest first: records with a peer and its bucket
    at,        \* what a call awaits: "new", "sign", "ack", "registry", "done"
    what,      \* the envelope of a call, with the skill it announces if any
    answer,    \* the result of a call
    onWire,    \* the envelope published last, as a set
    ops,       \* registry commands sent and not yet executed
    registry,  \* names of the global skills in Redis
    faults,
    granted,   \* history: recipient and time of the sends the buckets let through
    since,     \* history: how many of them were there when a peer's bucket was made
    scopes,    \* history: the scope of the last announcement of a name
    opLost     \* history: a registry command failed

vars == <<menu, now, global, peers, at, what, answer, onWire, ops, registry, faults, granted, since,
          scopes, opLost>>
bucketVars == <<global, peers, granted, since>>
skillVars  == <<ops, registry, scopes, opLost>>

Nothing == "none"
Peer == {a.to : a \in {b \in Args : b.to # "bad"}}
Fault == faults < MaxFaults /\ faults' = faults + 1

Init ==
    /\ menu \in Menu
    /\ now = 0
    /\ global = [tokens |-> GlobalCap, last |-> 0]
    /\ peers = <<>>
    /\ at = [c \in Call |-> "new"]
    /\ what = [c \in Call |-> Nothing]
    /\ answer = [c \in Call |-> "none"]
    /\ onWire = {}
    /\ ops = <<>> /\ registry = {} /\ faults = 0
    /\ granted = <<>>
    /\ since = [p \in Peer |-> 0]
    /\ scopes = [s \in {k.name : k \in Skill} |-> "none"]
    /\ opLost = FALSE

-----------------------------------------------------------------------------
\* The token buckets.

Least(a, b) == IF a < b THEN a ELSE b

\* TokenBucket.refill(), peek() and take().
refill(b, cap, rate) ==
    [b EXCEPT !.tokens = Least(cap, @ + (now - b.last) * rate), !.last = now]
peek(b) == b.tokens >= Cost
take(b) == [b EXCEPT !.tokens = @ - Cost]

HasBucket(p) == \E i \in DOMAIN peers : peers[i].peer = p

\* evictOldest(): the first entry goes when the map is full.
evictOldest(s) == IF Len(s) >= MaxTracked THEN Tail(s) ELSE s

\* this.peerBuckets after get-or-create for p, the bucket of p refilled.
Tracked(p) ==
    LET made == IF HasBucket(p) THEN peers
                ELSE Append(evictOldest(peers), [peer |-> p, tokens |-> PeerCap, last |-> now])
    IN  [i \in DOMAIN made |-> IF made[i].peer # p THEN made[i]
                               ELSE refill(made[i], PeerCap, PeerRate)]

\* Mutant of rateOk: the global token is taken before the peer's bucket is looked at.
rateOkTakesFirst(p) ==
    LET g == refill(global, GlobalCap, GlobalRate)
        t == Tracked(p)
        i == CHOOSE j \in DOMAIN t : t[j].peer = p
        ok == peek(g) /\ peek(t[i])
    IN  /\ global' = IF peek(g) THEN take(g) ELSE g
        /\ peers' = IF ok THEN [t EXCEPT ![i] = take(@)] ELSE t
        /\ granted' = IF ok THEN Append(granted, [to |-> p, at |-> now]) ELSE granted
        /\ since' = IF HasBucket(p) THEN since ELSE [since EXCEPT ![p] = Len(granted)]

\* rateOk(): both buckets are looked at before either is charged.
rateOk(p) ==
    LET g == refill(global, GlobalCap, GlobalRate)
        t == Tracked(p)
        i == CHOOSE j \in DOMAIN t : t[j].peer = p
        ok == peek(g) /\ peek(t[i])
    IN  /\ global' = IF ok THEN take(g) ELSE g
        /\ peers' = IF ok THEN [t EXCEPT ![i] = take(@)] ELSE t
        /\ granted' = IF ok THEN Append(granted, [to |-> p, at |-> now]) ELSE granted
        /\ since' = IF HasBucket(p) THEN since ELSE [since EXCEPT ![p] = Len(granted)]

Tick ==
    /\ now < MaxTime
    /\ now' = now + 1
    /\ UNCHANGED <<menu, at, what, answer, onWire, faults, bucketVars, skillVars>>

-----------------------------------------------------------------------------
\* a2a_send.

Answered(c, r) ==
    /\ answer' = [answer EXCEPT ![c] = r]
    /\ at' = [at EXCEPT ![c] = "done"]
    /\ what' = [what EXCEPT ![c] = Nothing]

\* The calls are numbered in the order they are made.
NextCall(c) == at[c] = "new" /\ \A d \in Call : d < c => at[d] # "new"

\* send() up to its first await: validation, the rate limit, the envelope.
Send(c, a) ==
    /\ NextCall(c)
    /\ IF validateSendArgs(a, Self) # "ok"
         THEN Answered(c, validateSendArgs(a, Self)) /\ UNCHANGED bucketVars
         ELSE /\ rateOk(a.to)
              /\ IF granted' = granted THEN Answered(c, "rate_limited")
                 ELSE /\ what' = [what EXCEPT ![c] = Envelope(a, Self, <<ToString(c)>>)]
                      /\ at' = [at EXCEPT ![c] = "sign"]
                      /\ UNCHANGED answer
    /\ UNCHANGED <<menu, now, onWire, faults, skillVars>>

\* The envelope once the signature is in; an announcement carries its skill along.
Signed(e) == IF SigAlg = "off" THEN e
             ELSE [e EXCEPT !.alg = SigAlg, !.sig = signCanonical(SigAlg, Self, canonical(e))]

\* publishA2A(): a broadcast is sent and forgotten, a direct message waits for the stream's ack.
StreamPublish(c) ==
    /\ onWire' = {Signed(what[c])}
    /\ IF what[c].topic THEN Answered(c, "ok")
       ELSE at' = [at EXCEPT ![c] = "ack"] /\ UNCHANGED <<answer, what>>

\* The own key or the external signer answers and the message goes out.
Publish(c) ==
    /\ at[c] = "sign" /\ "name" \notin DOMAIN what[c]
    /\ StreamPublish(c)
    /\ UNCHANGED <<menu, now, faults, bucketVars, skillVars>>

\* The signer throws or does not answer in time.
SignFails(c) ==
    /\ at[c] = "sign" /\ Fault
    /\ Answered(c, "sign_failed")
    /\ UNCHANGED <<menu, now, onWire, bucketVars, skillVars>>

\* The ack arrives, or does not although the message may be stored.
Acked(c) ==
    /\ at[c] = "ack"
    /\ \/ Answered(c, "ok") /\ UNCHANGED faults
       \/ Answered(c, "publish_failed") /\ Fault
    /\ UNCHANGED <<menu, now, onWire, bucketVars, skillVars>>

-----------------------------------------------------------------------------
\* broadcastSkillCreated().

\* The announcement is built and waits for its signature.
Announce(c, k) ==
    /\ NextCall(c)
    /\ what' = [what EXCEPT ![c] =
                    [name |-> k.name, scope |-> classifySkillScope(k), big |-> k.big]]
    /\ at' = [at EXCEPT ![c] = "sign"]
    /\ UNCHANGED <<menu, now, answer, onWire, faults, bucketVars, skillVars>>

\* Signed: an oversize payload is refused; otherwise it is published and, in the same step, the
\* registry command is sent after it.
Broadcast(c) ==
    /\ at[c] = "sign" /\ "name" \in DOMAIN what[c]
    /\ IF what[c].big THEN Answered(c, "oversize") /\ UNCHANGED skillVars
       ELSE /\ scopes' = [scopes EXCEPT ![what[c].name] = what[c].scope]
            /\ ops' = Append(ops, c)
            /\ at' = [at EXCEPT ![c] = "registry"]
            /\ UNCHANGED <<answer, what, registry, opLost>>
    /\ UNCHANGED <<menu, now, onWire, faults, bucketVars>>

\* Mutant of Register: a skill that is no longer global stays in the registry.
RegisterOnlyAdds ==
    /\ ops # <<>>
    /\ LET c == Head(ops)
       IN  /\ registry' = IF what[c].scope = "global" THEN registry \cup {what[c].name} ELSE registry
           /\ Answered(c, "ok")
    /\ ops' = Tail(ops)
    /\ UNCHANGED <<menu, now, onWire, opLost, faults, scopes, bucketVars>>

\* Redis executes the commands of the one connection in order: HSET for a global skill, HDEL for
\* a tagged one.  A failure is logged and the call succeeds all the same.
Register ==
    /\ ops # <<>>
    /\ LET c == Head(ops)
       IN  /\ \/ /\ registry' = IF what[c].scope = "global" THEN registry \cup {what[c].name}
                                ELSE registry \ {what[c].name}
                 /\ UNCHANGED <<opLost, faults>>
              \/ Fault /\ opLost' = TRUE /\ UNCHANGED registry
           /\ Answered(c, "ok")
    /\ ops' = Tail(ops)
    /\ UNCHANGED <<menu, now, onWire, scopes, bucketVars>>

Next == \/ Tick
        \/ Register
        \/ \E c \in Call : \/ \E a \in menu.args : Send(c, a)
                           \/ \E k \in menu.skills : Announce(c, k)
                           \/ Publish(c) \/ SignFails(c) \/ Acked(c) \/ Broadcast(c)

Spec == Init /\ [][Next]_vars

-----------------------------------------------------------------------------
\* Properties.

\* What a bucket of the given size must hold now, by definition: the capacity, less what the sends
\* I of those let through have cost and time has not yet given back.
Level(cap, rate, I) ==
    LET lows == {cap + (now - granted[i].at) * rate - Cost * Cardinality({j \in I : j >= i}) :
                    i \in I}
    IN  CHOOSE m \in lows \cup {cap} : \A l \in lows \cup {cap} : m <= l

\* The rate limits are exact: both buckets hold what the sends let through so far leave of them,
\* so no window of time sees more than its allowance, and a send that is refused (by its peer's
\* bucket or the global one) costs neither.  A peer's count starts anew when its bucket was
\* evicted by newer peers.
RateExact ==
    /\ refill(global, GlobalCap, GlobalRate).tokens
       = Level(GlobalCap, GlobalRate, DOMAIN granted)
    /\ \A i \in DOMAIN peers :
           LET p == peers[i].peer
               mine == {n \in DOMAIN granted : n > since[p] /\ granted[n].to = p}
           IN  refill(peers[i], PeerCap, PeerRate).tokens = Level(PeerCap, PeerRate, mine)

\* What send() accepts, a receiver accepts: every envelope that goes out passes isValidInbound()
\* and, when signing is on, verifyEnvelope() under the sender's key.
SentIsAccepted ==
    \A e \in onWire : isValidInbound(e) /\ (SigAlg # "off" => verifyEnvelope(e, Self, SigAlg))

\* No content of id, corr or body can move a field boundary of the signed string: reading the
\* canonical string back gives the fields it was made from, so equal strings mean equal fields.
CanonicalDecodes == \A e \in onWire : Fields(canonical(e)) = SignedFields(e)

\* The registry of global skills follows the announcements: once its commands have been executed
\* it holds exactly the names whose last announcement was global, whatever order the signatures
\* of concurrent announcements came back in.
RegistryFollows ==
    ops = <<>> /\ ~opLost => registry = {s \in DOMAIN scopes : scopes[s] = "global"}
=============================================================================
