--------------------------- MODULE A2AChannelLife ---------------------------
(***************************************************************************)
(* The life of one A2AChannel (a2a-channel.ts): the configuration gate,    *)
(* start() with its clean-up and self-heal retries, the presence claim     *)
(* that keeps two instances of one agent-id off the same durable consumer, *)
(* the topic subscriptions that follow the set stored in Redis, and stop().*)
(*                                                                         *)
(* start() awaits the claim, the connection, the key, the stream, the      *)
(* consumer and the first topic load; each await is a value of pc, and     *)
(* stop(), a control nudge, a tool call or a rival instance may run there. *)
(* reload() requests are chained: one load runs at a time.                 *)
(***************************************************************************)
EXTENDS Naturals, FiniteSets

CONSTANTS
    Configs,     \* the option records the channel may be built with
    Topic,       \* topic tokens
    Bad,         \* a topics key that does not parse
    NoLoad,        \* the load when none is running
    Stored0,     \* the topic set in Redis at the beginning
    MaxRivals,   \* bound on starts of another instance of the same agent-id
    MaxWrites,   \* bound on changes to the stored topics
    MaxFaults    \* bound on failing Redis, NATS and key-file calls

Sets == (SUBSET Topic) \cup {Bad}

OptionSet ==
    [enabled : BOOLEAN, idOk : BOOLEAN, sigAlg : {"ed25519", "hmac", "other"}, dev : BOOLEAN,
     transport : {"none", "creds"}, creds : BOOLEAN, key : BOOLEAN, ext : BOOLEAN,
     nats : {"own", "single", "pool"}, redis : BOOLEAN, toolOnly : BOOLEAN]

LifeAssumption ==
    /\ Configs \subseteq OptionSet
    /\ Stored0 \subseteq Topic /\ \A s \in SUBSET Topic : s # Bad /\ s # NoLoad
    /\ Bad # NoLoad
    /\ MaxRivals \in Nat /\ MaxWrites \in Nat /\ MaxFaults \in Nat

VARIABLES
    cfg,        \* the options of this channel
    pc,         \* what start() awaits; "idle" when it does not run
    called,     \* the owner has called start()
    started, stopped, claimed,   \* this.started, this.stopped, this.presenceClaimed
    retry,      \* this.retryTimer is set
    timers,     \* the heartbeat and counter intervals run
    conn,       \* this.nc: "none", "up" or "drained"
    redis,      \* this.redis is set
    secret,     \* the signing key can be read (key file or own secret)
    key,        \* holder of the presence key: "none", "us" or "rival"
    rival,      \* another instance of this agent-id is up and consumes
    consuming,  \* our inbox consumer loop runs
    control,    \* our control subscription is live
    stored,     \* the topics key in Redis
    active,     \* keys of this.activeTopics
    subs,       \* topic subscriptions that are really live
    chain,      \* reload() requests that wait in reloadChain
    load,       \* what the running load has read, NoLoad if none runs
    tool,       \* a join or leave call: "idle", "applied" (awaits Redis), "reload"
    nudge,      \* a control message is on its way
    stopping,   \* stop(): "no", "release", "done"
    rivals, writes, faults,      \* how much of each bound is used
    missed,     \* history: a stored change that no reload was asked to pick up, or a failed load
    unclean,    \* history: a failed start on an own connection left activeTopics behind
    lapsed,     \* history: the presence key expired while we relied on it
    kept,       \* history: a failed claim or release may have left our presence key behind
    raced       \* history: what was running when stop() was called

topicVars == <<stored, active, subs, chain, load, tool, nudge, writes, missed>>
startVars == <<pc, called, started, claimed, retry, timers, conn, redis, consuming, control, unclean>>
stopVars  == <<stopped, stopping, raced, kept>>
keyVars   == <<key, rival, rivals, lapsed>>
vars == <<cfg, secret, faults, topicVars, startVars, stopVars, keyVars>>

-----------------------------------------------------------------------------
\* The constructor and the gate.

transportNone(o) == o.dev \/ o.transport = "none"
signingOff(o)    == o.dev
sharedConns(o)   == o.nats # "own" \/ o.redis

\* The constructor throws unless a shared NATS and a shared Redis come together.
Constructible(o) == (o.nats # "own") = o.redis

\* gateReason(): "ready", or why the channel cannot start.
gateReason(o) ==
    IF ~o.enabled THEN "a2a_disabled"
    ELSE IF ~o.idOk \/ o.sigAlg = "other" THEN "a2a_config_invalid"
    ELSE IF ~sharedConns(o) /\ ~transportNone(o) /\ ~o.creds THEN "a2a_creds_required"
    ELSE IF ~signingOff(o) /\ o.sigAlg = "ed25519" /\ ~o.key /\ ~o.ext
         THEN "a2a_signing_key_required"
    ELSE "ready"
Terminal(o) == gateReason(o) \in {"a2a_disabled", "a2a_config_invalid"}

Init ==
    /\ cfg \in {o \in Configs : Constructible(o)}
    /\ pc = "idle" /\ called = FALSE
    /\ started = FALSE /\ stopped = FALSE /\ claimed = FALSE /\ retry = FALSE /\ timers = FALSE
    /\ conn = "none" /\ redis = FALSE /\ secret \in BOOLEAN
    /\ key = "none" /\ rival = FALSE /\ consuming = FALSE /\ control = FALSE
    /\ stored = Stored0 /\ active = {} /\ subs = {} /\ chain = 0 /\ load = NoLoad
    /\ tool = "idle" /\ nudge = FALSE /\ stopping = "no"
    /\ rivals = 0 /\ writes = 0 /\ faults = 0
    /\ missed = FALSE /\ unclean = FALSE /\ lapsed = FALSE /\ kept = FALSE /\ raced = {}

Fault == faults < MaxFaults /\ faults' = faults + 1

-----------------------------------------------------------------------------
\* start().

\* scheduleRetry(): one interval, none on a stopped channel.
scheduleRetry == retry' = (retry \/ ~stopped)

\* The connections once the claim is ours: shared handles at once, own ones after an await.
Claimed ==
    /\ claimed' = TRUE /\ kept' = FALSE
    /\ IF sharedConns(cfg) THEN conn' = "up" /\ pc' = "key" ELSE pc' = "connect" /\ UNCHANGED conn

\* start(), by its owner or by the retry interval, up to its first await.
Start ==
    /\ ~called \/ retry
    /\ called' = TRUE
    /\ ~stopped /\ ~started /\ pc = "idle"
    /\ IF gateReason(cfg) # "ready"
         THEN /\ IF Terminal(cfg) THEN UNCHANGED retry ELSE scheduleRetry
              /\ UNCHANGED <<pc, conn, redis>>
         ELSE /\ redis' = TRUE
              /\ IF ~cfg.toolOnly THEN pc' = "claim" /\ UNCHANGED conn
                 ELSE IF sharedConns(cfg) THEN conn' = "up" /\ pc' = "key"
                 ELSE pc' = "connect" /\ UNCHANGED conn
              /\ UNCHANGED retry
    /\ UNCHANGED <<cfg, secret, faults, topicVars, stopVars, keyVars, started, claimed, timers,
                   consuming, control, unclean>>

\* claimPresence(): SET NX.  Its reply may be lost although the key was set.
ClaimSet ==
    /\ pc = "claim"
    /\ IF key = "none" THEN key' = "us" /\ Claimed
       ELSE pc' = "claimGet" /\ UNCHANGED <<key, claimed, conn, kept>>
    /\ UNCHANGED <<cfg, secret, faults, topicVars, stopped, stopping, raced, rival, rivals,
                   lapsed, called, started,
                   retry, timers, redis, consuming, control, unclean>>

\* claimPresence(): GET; the key is ours if a claim whose reply was lost has set it.
ClaimGet ==
    /\ pc = "claimGet"
    /\ IF key = "us"
         THEN Claimed /\ UNCHANGED <<redis, retry>>
         ELSE pc' = "idle" /\ redis' = FALSE /\ scheduleRetry /\ UNCHANGED <<claimed, conn, kept>>
    /\ UNCHANGED <<cfg, secret, faults, topicVars, stopped, stopping, raced, keyVars, called,
                   started, timers,
                   consuming, control, unclean>>

ClaimReplyLost ==
    /\ pc = "claim" /\ key = "none" /\ Fault
    /\ key' = "us" /\ kept' = TRUE
    /\ pc' = "failed"
    /\ UNCHANGED <<cfg, secret, topicVars, stopped, stopping, raced, rival, rivals, lapsed,
                   called, started, claimed,
                   retry, timers, conn, redis, consuming, control, unclean>>

Waited(p, q) ==
    /\ pc = p /\ pc' = q
    /\ UNCHANGED <<cfg, secret, faults, topicVars, stopVars, keyVars, called, started, claimed,
                   retry, timers, redis, consuming, control, unclean>>

\* An own connection opens.
Connect == Waited("connect", "key") /\ conn' = "up"

\* loadOwnSignKey(): nothing to load when signing is off or the shim signs.
NeedsKey == ~signingOff(cfg) /\ ~cfg.ext
loadOwnSignKey == Waited("key", "ensure") /\ (NeedsKey => secret) /\ UNCHANGED conn

\* ensureStream() finds the stream or adds it.
ensureStream ==
    /\ conn = "up" /\ UNCHANGED conn
    /\ Waited("ensure", IF cfg.toolOnly THEN "finish" ELSE "subscribe")

\* Mutant of reload: a request made while a load runs joins that load.
ReloadJoins == chain' = IF load = NoLoad THEN chain + 1 ELSE chain

\* reload(): one more link in the chain.
reload == chain' = chain + 1

\* subscribeInbox(), and afterConnect() asks for the first reload.
subscribeInbox ==
    /\ pc = "subscribe" /\ conn = "up"
    /\ consuming' = TRUE
    /\ pc' = "topics"
    /\ reload
    /\ UNCHANGED <<cfg, secret, faults, stopVars, keyVars, called, started, claimed, retry, timers,
                   conn, redis, control, unclean, stored, active, subs, load, tool, nudge, writes,
                   missed>>

\* The end of start(): watchControl(), the intervals, this.started.
Finish ==
    /\ pc \in {"finish", "topics"}
    /\ pc = "topics" => chain = 0 /\ load = NoLoad
    /\ conn = "up"
    /\ pc' = "idle"
    /\ control' = ~cfg.toolOnly
    /\ timers' = TRUE /\ retry' = FALSE /\ started' = TRUE
    /\ UNCHANGED <<cfg, secret, faults, topicVars, stopVars, keyVars, called, claimed, conn, redis,
                   consuming, unclean>>

\* Something start() awaits throws: a fault, an absent key, or a drained connection.
Throws ==
    /\ pc \in {"claim", "claimGet", "connect", "key", "ensure", "subscribe", "topics", "finish"}
    /\ pc = "topics" => chain = 0 /\ load = NoLoad
    /\ \/ Fault
       \/ /\ \/ pc = "key" /\ NeedsKey /\ ~secret
             \/ pc \in {"ensure", "subscribe", "topics", "finish"} /\ conn = "drained"
          /\ UNCHANGED faults
    /\ pc' = "failed"
    /\ UNCHANGED <<cfg, secret, topicVars, stopVars, keyVars, called, started, claimed, retry,
                   timers, conn, redis, consuming, control, unclean>>

\* Mutant of CleanUp: the consumer loop of a failed start goes on.
CleanUpKeepsConsumer ==
    /\ pc = "failed"
    /\ control' = FALSE /\ subs' = {} /\ conn' = "none"
    /\ active' = IF sharedConns(cfg) THEN {} ELSE active
    /\ unclean' = (unclean \/ active' # {})
    /\ pc' = "release"
    /\ UNCHANGED <<cfg, secret, faults, stopVars, keyVars, called, started, claimed, retry, timers,
                   consuming, redis, stored, chain, load, tool, nudge, writes, missed>>

\* The catch block up to the release: shared subscriptions are undone one by one, an own
\* connection is drained.  On an own connection activeTopics keeps its entries.
CleanUp ==
    /\ pc = "failed"
    /\ consuming' = FALSE
    /\ control' = FALSE /\ subs' = {} /\ conn' = "none"
    /\ active' = IF sharedConns(cfg) THEN {} ELSE active
    /\ unclean' = (unclean \/ active' # {})
    /\ pc' = "release"
    /\ UNCHANGED <<cfg, secret, faults, stopVars, keyVars, called, started, claimed, retry, timers,
                   redis, stored, chain, load, tool, nudge, writes, missed>>

\* releasePresence() deletes the key only if it carries our token; the call may fail.
releasePresence(ok) ==
    IF claimed /\ redis
      THEN /\ key' = IF ok /\ key = "us" THEN "none" ELSE key
           /\ kept' = (kept \/ ~ok)
           /\ IF ok THEN UNCHANGED faults ELSE Fault
      ELSE ok /\ UNCHANGED <<key, kept, faults>>

\* Mutant of Settle: no interval is left to start the channel again.
SettleWithoutRetry ==
    /\ pc = "release"
    /\ \E ok \in BOOLEAN : releasePresence(ok)
    /\ claimed' = FALSE /\ redis' = FALSE /\ pc' = "idle"
    /\ retry' = FALSE
    /\ UNCHANGED <<cfg, secret, topicVars, stopped, stopping, raced, rival, rivals, lapsed, called,
                   started, timers, conn, consuming, control, unclean>>

\* The rest of the catch block, and finally.
Settle ==
    /\ pc = "release"
    /\ \E ok \in BOOLEAN : releasePresence(ok)
    /\ claimed' = FALSE /\ redis' = FALSE /\ pc' = "idle"
    /\ scheduleRetry
    /\ UNCHANGED <<cfg, secret, topicVars, stopped, stopping, raced, rival, rivals, lapsed, called,
                   started, timers, conn, consuming, control, unclean>>

-----------------------------------------------------------------------------
\* Topics.

topicOther == <<cfg, secret, startVars, stopVars, keyVars>>

\* reloadTopics() leaves at once on a stopped or unconnected channel, else reads the key;
\* a failed read keeps the current set.
Read ==
    /\ chain > 0 /\ load = NoLoad
    /\ chain' = chain - 1
    /\ \/ /\ ~stopped /\ conn # "none" /\ redis /\ ~cfg.toolOnly
          /\ load' = stored
          /\ missed' = FALSE
          /\ UNCHANGED faults
       \/ /\ ~stopped /\ Fault
          /\ missed' = TRUE
          /\ UNCHANGED load
       \/ /\ stopped \/ conn = "none" \/ ~redis \/ cfg.toolOnly
          /\ UNCHANGED <<load, missed, faults>>
    /\ UNCHANGED <<topicOther, stored, active, subs, tool, nudge, writes>>

\* The rest of reloadTopics(): subscribe what is new, unsubscribe what is gone.  A drained
\* connection refuses the subscription and the chain logs it.
Apply ==
    /\ load # NoLoad
    /\ load' = NoLoad
    /\ IF load = Bad \/ conn # "up" THEN UNCHANGED <<active, subs>>
       ELSE /\ active' = load
            /\ subs' = (subs \ (active \ load)) \cup (load \ active)
    /\ UNCHANGED <<topicOther, faults, stored, chain, tool, nudge, writes, missed>>

\* a2a_join_topic, a2a_leave_topic: the script runs in Redis and refuses a malformed key.
Mutate(t) ==
    /\ started /\ tool = "idle" /\ redis
    /\ stored # Bad
    /\ writes < MaxWrites /\ writes' = writes + 1
    /\ stored' \in {stored \cup {t}, stored \ {t}}
    /\ tool' = "applied"
    /\ UNCHANGED <<topicOther, faults, active, subs, chain, load, nudge, missed>>

\* mutateTopics() gets its answer and reloads, or times out and reports an error.
MutateAnswer ==
    /\ tool = "applied"
    /\ \/ reload /\ tool' = "reload" /\ UNCHANGED <<missed, faults>>
       \/ Fault /\ tool' = "idle" /\ missed' = TRUE /\ UNCHANGED chain
    /\ UNCHANGED <<topicOther, stored, active, subs, load, nudge, writes>>

\* await this.reload() returns to the tool call.
MutateReturn ==
    /\ tool = "reload" /\ chain = 0 /\ load = NoLoad
    /\ tool' = "idle"
    /\ UNCHANGED <<topicOther, faults, stored, active, subs, chain, load, nudge, writes, missed>>

\* Somebody else writes the topics key, and nudges the channel or does not.
Rewrite ==
    /\ writes < MaxWrites /\ writes' = writes + 1
    /\ stored' \in Sets \ {stored}
    /\ \/ control /\ ~nudge /\ nudge' = TRUE /\ UNCHANGED missed
       \/ missed' = TRUE /\ UNCHANGED nudge
    /\ UNCHANGED <<topicOther, faults, active, subs, chain, load, tool>>

\* watchControl(): a nudge asks for a reload.
Nudged ==
    /\ nudge
    /\ nudge' = FALSE
    /\ IF control THEN reload ELSE UNCHANGED chain
    /\ UNCHANGED <<topicOther, faults, stored, active, subs, load, tool, writes, missed>>

-----------------------------------------------------------------------------
\* stop().

\* Mutant of Stop: the topic subscriptions are left to the connection.
StopLeavesTopics ==
    /\ called /\ ~stopped
    /\ stopped' = TRUE /\ retry' = FALSE /\ timers' = FALSE
    /\ consuming' = FALSE
    /\ control' = (control /\ ~sharedConns(cfg))
    /\ UNCHANGED <<active, subs>>
    /\ stopping' = "release"
    /\ raced' = (IF pc # "idle" THEN {"start"} ELSE {})
                \cup (IF load # NoLoad THEN {"reload"} ELSE {})
    /\ UNCHANGED <<cfg, secret, faults, kept, keyVars, pc, called, started, claimed, conn, redis,
                   unclean, stored, chain, load, tool, nudge, writes, missed>>

\* stop() up to the release of the presence key.
Stop ==
    /\ called /\ ~stopped
    /\ stopped' = TRUE /\ retry' = FALSE /\ timers' = FALSE
    /\ consuming' = FALSE
    /\ control' = (control /\ ~sharedConns(cfg))
    /\ active' = {} /\ subs' = {}
    /\ stopping' = "release"
    /\ raced' = (IF pc # "idle" THEN {"start"} ELSE {})
                \cup (IF load # NoLoad THEN {"reload"} ELSE {})
    /\ UNCHANGED <<cfg, secret, faults, kept, keyVars, pc, called, started, claimed, conn, redis,
                   unclean, stored, chain, load, tool, nudge, writes, missed>>

\* The rest of stop(): what the channel opened itself is drained and closed.
StopEnds ==
    /\ stopping = "release"
    /\ \E ok \in BOOLEAN : releasePresence(ok)
    /\ claimed' = (claimed /\ ~redis)
    /\ stopping' = "done" /\ started' = FALSE
    /\ IF sharedConns(cfg) \/ conn # "up" THEN UNCHANGED <<conn, control, subs>>
       ELSE conn' = "drained" /\ control' = FALSE /\ subs' = {}
    /\ UNCHANGED <<cfg, secret, pc, called, retry, timers, redis, consuming, unclean, rival, rivals,
                   lapsed, stopped, raced, stored, active, chain, load, tool, nudge, writes, missed>>

-----------------------------------------------------------------------------
\* The surroundings.

\* The key's TTL passes: for an instance that is gone, or because heartbeats were lost.
KeyExpires ==
    /\ \/ key = "rival" /\ ~rival /\ UNCHANGED <<faults, lapsed>>
       \/ key = "us" /\ ~claimed /\ UNCHANGED <<faults, lapsed>>
       \/ key = "us" /\ claimed /\ Fault /\ lapsed' = TRUE
    /\ key' = "none"
    /\ UNCHANGED <<cfg, secret, topicVars, startVars, stopVars, rival, rivals>>

\* Another instance of the agent claims a free key and consumes; it stops, or dies.
RivalStarts ==
    /\ key = "none" /\ ~rival /\ rivals < MaxRivals
    /\ rivals' = rivals + 1 /\ rival' = TRUE /\ key' = "rival"
    /\ UNCHANGED <<cfg, secret, faults, topicVars, startVars, stopVars, lapsed>>
RivalEnds ==
    /\ rival /\ rival' = FALSE
    /\ key' \in {key, IF key = "rival" THEN "none" ELSE key}
    /\ UNCHANGED <<cfg, secret, faults, topicVars, startVars, stopVars, rivals, lapsed>>

\* The key file or the own secret is written.
Provision ==
    /\ ~secret /\ secret' = TRUE
    /\ UNCHANGED <<cfg, faults, topicVars, startVars, stopVars, keyVars>>

StartStep == Start \/ ClaimSet \/ ClaimGet \/ ClaimReplyLost \/ Connect \/ loadOwnSignKey
             \/ ensureStream \/ subscribeInbox \/ Finish \/ Throws \/ CleanUp \/ Settle
TopicStep == Read \/ Apply \/ MutateAnswer \/ MutateReturn \/ Nudged
Surroundings == KeyExpires \/ RivalStarts \/ RivalEnds \/ Provision \/ Rewrite
                \/ \E t \in Topic : Mutate(t)

Next == StartStep \/ TopicStep \/ Stop \/ StopEnds \/ Surroundings

Spec == Init /\ [][Next]_vars

\* start() and the loads run on, the retry interval ticks, keys of dead instances expire, a rival
\* does not stay for ever and the key is provisioned in the end.
FairSpec == Spec /\ WF_vars(StartStep) /\ WF_vars(Read \/ Apply) /\ WF_vars(KeyExpires)
                 /\ WF_vars(RivalEnds) /\ WF_vars(Provision)

-----------------------------------------------------------------------------
\* Properties.

TypeOK ==
    /\ cfg \in OptionSet
    /\ pc \in {"idle", "claim", "claimGet", "connect", "key", "ensure", "subscribe", "topics",
               "finish", "failed", "release"}
    /\ {called, started, stopped, claimed, retry, timers, redis, secret, rival, consuming, control,
        nudge, missed, unclean, lapsed, kept} \subseteq BOOLEAN
    /\ conn \in {"none", "up", "drained"} /\ key \in {"none", "us", "rival"}
    /\ stored \in Sets /\ active \subseteq Topic /\ subs \subseteq Topic
    /\ chain \in Nat /\ load \in Sets \cup {NoLoad} /\ tool \in {"idle", "applied", "reload"}
    /\ stopping \in {"no", "release", "done"} /\ raced \subseteq {"start", "reload"}
    /\ rivals \in 0..MaxRivals /\ writes \in 0..MaxWrites /\ faults \in 0..MaxFaults

\* Two instances of one agent-id never split the durable consumer, as start() claims presence
\* before it subscribes (a2a-channel.ts:804) and gives it up only after its loop has stopped; the
\* exceptions are a presence key that expired under us and a stop() that overlapped start().
NoSplitConsumer == consuming /\ rival => lapsed \/ "start" \in raced

\* A channel that has been stopped holds nothing: no consumer, subscription, interval or retry,
\* and the presence key only if Redis refused its release.  A stop() during start() is the known
\* exception, and a stop() during a topic load may leave topic subscriptions on a shared connection.
StoppedHoldsNothing ==
    stopping = "done" /\ "start" \notin raced =>
        /\ ~consuming /\ ~control /\ ~timers /\ ~retry
        /\ subs # {} => "reload" \in raced /\ sharedConns(cfg)
        /\ key = "us" => kept

\* When nothing is under way, the live subscriptions are the stored topics: a join, a leave or a
\* nudge during a load is not lost to that load, and no older load overwrites a newer one.
TopicsFollow ==
    /\ started /\ ~stopped /\ ~cfg.toolOnly
    /\ chain = 0 /\ load = NoLoad /\ tool = "idle" /\ ~nudge
    /\ ~missed /\ ~unclean /\ stored # Bad
    => subs = stored

\* A configured channel comes up by itself in the end, whatever failed on the way: the retry
\* interval is set on every path out of a failed start() and cleared only by success or stop().
SelfHeals == <>[](started \/ stopped \/ gateReason(cfg) # "ready")
=============================================================================
