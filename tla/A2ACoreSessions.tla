--------------------------- MODULE A2ACoreSessions ---------------------------
(***************************************************************************)
(* The sessions of one agent: the connections of its shims to the UDS      *)
(* acceptor (uds_acceptor.ts), the registration of a session in A2ACore    *)
(* (a2a_core.ts) and the start and stop of the session's A2AChannel        *)
(* (a2a-channel.ts) with its presence key and its durable consumer.        *)
(*                                                                         *)
(* run() of a connection and addUdsSession() are chains of awaits; the     *)
(* socket may close, the core may stop and another connection of the same  *)
(* agent may come in between any two of them.  pc[c] says where run() of   *)
(* connection c is; it goes on after the connection was torn down.         *)
(*                                                                         *)
(* Tool-only connections neither claim presence nor consume the inbox.     *)
(***************************************************************************)
EXTENDS Integers, FiniteSets

CONSTANTS
    Core,            \* a2a-core processes: one, its successor, or one on another host
    Conn,            \* connections of the agent, in the order they may be opened
    Home,            \* the core a connection goes to
    ToolOnly,        \* the connections whose hello says toolOnly
    None,            \* no holder of the presence key
    MaxConnections,  \* the acceptor's connection limit
    MaxLate,         \* bound on presence claims that time out
    MaxStartFaults,  \* bound on channel starts that fail for another reason
    MaxLoss          \* bound on presence keys a live holder fails to refresh

ASSUME SessionsAssumption ==
    /\ Home \in [Conn -> Core]
    /\ ToolOnly \subseteq Conn
    /\ None \notin Conn
    /\ MaxConnections \in Nat \ {0}
    /\ MaxLate \in Nat
    /\ MaxStartFaults \in Nat
    /\ MaxLoss \in Nat

VARIABLES
    core,       \* "up", "closing" (acceptor.close()), "stopping" (core.stop()), "stopped", "crashed"
    pc,         \* where run() of a connection is
    closed,     \* its phase is 'closed': teardown() has run
    live,       \* connections in the acceptor's live set
    adopted,    \* this.session is set and teardown() has not removed the session yet
    epoch,      \* the epoch of its hello
    lastEpoch,  \* the agent's epoch counter in Redis
    sessions,   \* connections whose session is in A2ACore.sessions
    claimed,    \* presenceClaimed of the connection's A2AChannel
    consuming,  \* its inbox consumer is open
    releasing,  \* its channel is stopped and the release of presence is awaited
    lateSet,    \* its SET NX timed out and has not reached Redis yet
    key,        \* whose token the presence key in Redis holds
    stale,      \* the key's last_seen is older than two heartbeats
    told,       \* connections whose client was sent {t:ok}
    late, startFaults, losses,  \* failures so far
    refusedStale                \* history: a hello was refused because of a stale key

vars == <<core, pc, closed, live, adopted, epoch, lastEpoch, sessions, claimed, consuming,
          releasing, lateSet, key, stale, told, late, startFaults, losses, refusedStale>>

faults == <<late, startFaults, losses>>
redis  == <<key, stale>>

PC == {"off", "hello", "epoch", "authed", "claim", "subscribe", "connect", "rollback",
       "added", "refused", "live", "end"}

Conns(k) == {c \in Conn : Home[c] = k}

\* The connections whose addUdsSession() is in flight (inflightAdds).
Adding == {c \in Conn : pc[c] \in {"claim", "subscribe", "connect", "rollback"}}

hasOwningSession(k) == \E d \in sessions : Home[d] = k /\ d \notin ToolOnly

\* The process of c's core runs: neither exited nor crashed.
Running(k) == core[k] \notin {"stopped", "crashed"}

At(c, p) == Running(Home[c]) /\ pc[c] = p
Go(c, p) == pc' = [pc EXCEPT ![c] = p]

Init ==
    /\ core = [k \in Core |-> "up"]
    /\ pc = [c \in Conn |-> "off"]
    /\ closed = [c \in Conn |-> FALSE]
    /\ live = {}
    /\ adopted = {}
    /\ epoch = [c \in Conn |-> 0]
    /\ lastEpoch = 0
    /\ sessions = {}
    /\ claimed = {}
    /\ consuming = {}
    /\ releasing = {}
    /\ lateSet = {}
    /\ key = None
    /\ stale = FALSE
    /\ told = {}
    /\ late = 0 /\ startFaults = 0 /\ losses = 0
    /\ refusedStale = FALSE

------------------------------------------------------------------------------
\* The acceptor: a socket is opened, up to the connection limit.
Open(c) ==
    /\ pc[c] = "off"
    /\ core[Home[c]] = "up"
    /\ Cardinality({d \in live : Home[d] = Home[c]}) < MaxConnections
    /\ Go(c, "hello")
    /\ live' = live \cup {c}
    /\ UNCHANGED <<core, closed, adopted, epoch, lastEpoch, sessions, claimed, consuming,
                   releasing, lateSet, redis, told, faults, refusedStale>>

\* What channels write into last_seen (toISOString()), and what Lua's tonumber()
\* makes of it.
LastSeenFormat == "iso"
IsNumeral(format) == format = "number"

\* PRESENCE_RECLAIM_SCRIPT: a key is deleted when its last_seen is a number and old.
ReclaimDeletes == key # None /\ IsNumeral(LastSeenFormat) /\ stale

\* runHello() up to the reclaim script: the handshake is refused, or the agent is
\* authenticated and its presence key is free, reclaimed, or held.
HelloRefused(c) ==
    /\ At(c, "hello")
    /\ Go(c, "refused")
    /\ UNCHANGED <<core, closed, live, adopted, epoch, lastEpoch, sessions, claimed, consuming,
                   releasing, lateSet, redis, told, faults, refusedStale>>

HelloReclaim(c) ==
    /\ At(c, "hello")
    /\ IF c \in ToolOnly \/ key = None \/ ReclaimDeletes
       THEN Go(c, "epoch") /\ refusedStale' = refusedStale
       ELSE Go(c, "refused") /\ refusedStale' = (refusedStale \/ stale)
    /\ IF c \notin ToolOnly /\ ReclaimDeletes
       THEN key' = None /\ stale' = FALSE
       ELSE UNCHANGED redis
    /\ UNCHANGED <<core, closed, live, adopted, epoch, lastEpoch, sessions, claimed, consuming,
                   releasing, lateSet, told, faults>>

\* Mutant of NextEpoch: {t:ok} is sent when the hello ends, before the session is added.
NextEpochTellsOk(c) ==
    /\ At(c, "epoch")
    /\ lastEpoch' = lastEpoch + 1
    /\ epoch' = [epoch EXCEPT ![c] = lastEpoch + 1]
    /\ told' = told \cup {c}
    /\ Go(c, "authed")
    /\ UNCHANGED <<core, closed, live, adopted, sessions, claimed, consuming,
                   releasing, lateSet, redis, faults, refusedStale>>

\* nextEpoch(): INCR.
NextEpoch(c) ==
    /\ At(c, "epoch")
    /\ lastEpoch' = lastEpoch + 1
    /\ epoch' = [epoch EXCEPT ![c] = lastEpoch + 1]
    /\ Go(c, "authed")
    /\ UNCHANGED <<core, closed, live, adopted, sessions, claimed, consuming,
                   releasing, lateSet, redis, told, faults, refusedStale>>

------------------------------------------------------------------------------
\* A session is not added to a core that stops, nor beside an owning session.
Refused(c) == core[Home[c]] = "stopping" \/ (c \notin ToolOnly /\ hasOwningSession(Home[c]))

\* run() after the hello, and the guards of addUdsSession().
AddUdsSession(c) ==
    /\ At(c, "authed")
    /\ Go(c, IF closed[c] THEN "end"
             ELSE IF Refused(c) THEN "refused"
             ELSE IF c \in ToolOnly THEN "subscribe"
             ELSE "claim")
    /\ UNCHANGED <<core, closed, live, adopted, epoch, lastEpoch, sessions, claimed, consuming,
                   releasing, lateSet, redis, told, faults, refusedStale>>

\* Mutant of ClaimPresence: SET without NX.
ClaimOverwrites(c) ==
    /\ At(c, "claim")
    /\ key' = c /\ stale' = FALSE /\ claimed' = claimed \cup {c} /\ Go(c, "subscribe")
    /\ UNCHANGED <<core, closed, live, adopted, epoch, lastEpoch, sessions, consuming,
                   releasing, lateSet, told, faults, refusedStale>>

\* A2AChannel.claimPresence(): SET NX; a key of another instance is a duplicate.
ClaimPresence(c) ==
    /\ At(c, "claim")
    /\ IF key = None
       THEN key' = c /\ stale' = FALSE /\ claimed' = claimed \cup {c} /\ Go(c, "subscribe")
       ELSE UNCHANGED <<redis, claimed>> /\ Go(c, "rollback")
    /\ UNCHANGED <<core, closed, live, adopted, epoch, lastEpoch, sessions, consuming,
                   releasing, lateSet, told, faults, refusedStale>>

\* The SET times out: start() ends with nothing claimed, Redis may still execute it.
ClaimTimeout(c) ==
    /\ At(c, "claim")
    /\ late < MaxLate
    /\ late' = late + 1
    /\ lateSet' = lateSet \cup {c}
    /\ Go(c, "rollback")
    /\ UNCHANGED <<core, closed, live, adopted, epoch, lastEpoch, sessions, claimed, consuming,
                   releasing, redis, told, startFaults, losses, refusedStale>>

LateSet(c) ==
    /\ c \in lateSet
    /\ lateSet' = lateSet \ {c}
    /\ IF key = None THEN key' = c /\ stale' = FALSE ELSE UNCHANGED redis
    /\ UNCHANGED <<core, pc, closed, live, adopted, epoch, lastEpoch, sessions, claimed, consuming,
                   releasing, told, faults, refusedStale>>

\* The rest of A2AChannel.start(): stream, inbox consumer, topics.
Subscribe(c) ==
    /\ At(c, "subscribe")
    /\ consuming' = IF c \in ToolOnly THEN consuming ELSE consuming \cup {c}
    /\ Go(c, "connect")
    /\ UNCHANGED <<core, closed, live, adopted, epoch, lastEpoch, sessions, claimed,
                   releasing, lateSet, redis, told, faults, refusedStale>>

\* Token-guarded release of c's presence key.
Released(c) == IF key = c THEN key' = None /\ stale' = FALSE ELSE UNCHANGED redis

\* A later step of start() throws: its catch block releases the claim.
SubscribeFail(c) ==
    /\ At(c, "subscribe")
    /\ startFaults < MaxStartFaults
    /\ startFaults' = startFaults + 1
    /\ claimed' = claimed \ {c}
    /\ IF c \in claimed THEN Released(c) ELSE UNCHANGED redis
    /\ Go(c, "rollback")
    /\ UNCHANGED <<core, closed, live, adopted, epoch, lastEpoch, sessions, consuming,
                   releasing, lateSet, told, late, losses, refusedStale>>

\* _doAddUdsSession() after its awaits: the session is registered, unless the MCP
\* server failed to connect, the core began to stop, or another add won the id.
Register(c) ==
    /\ At(c, "connect")
    /\ \/ /\ Refused(c)
          /\ Go(c, "rollback")
          /\ UNCHANGED <<sessions, startFaults>>
       \/ /\ startFaults < MaxStartFaults
          /\ startFaults' = startFaults + 1
          /\ Go(c, "rollback")
          /\ UNCHANGED sessions
       \/ /\ ~Refused(c)
          /\ sessions' = sessions \cup {c}
          /\ Go(c, "added")
          /\ UNCHANGED startFaults
    /\ UNCHANGED <<core, closed, live, adopted, epoch, lastEpoch, claimed, consuming,
                   releasing, lateSet, redis, told, late, losses, refusedStale>>

\* The rollback stops the channel; {ok: false} goes back to run().
Rollback(c) ==
    /\ At(c, "rollback")
    /\ consuming' = consuming \ {c}
    /\ claimed' = claimed \ {c}
    /\ IF c \in claimed THEN Released(c) ELSE UNCHANGED redis
    /\ Go(c, "refused")
    /\ UNCHANGED <<core, closed, live, adopted, epoch, lastEpoch, sessions,
                   releasing, lateSet, told, faults, refusedStale>>

------------------------------------------------------------------------------
\* teardown() up to its first await that waits for another party: the phase is
\* 'closed'; a connection that has no session yet also leaves the live set.
TornDown(C) ==
    /\ closed' = [c \in Conn |-> closed[c] \/ c \in C]
    /\ live' = live \ {c \in C : ~closed[c] /\ c \notin adopted}

\* run() after a failed hello or add: the error is flushed and the connection fails.
Refuse(c) ==
    /\ At(c, "refused")
    /\ TornDown({c})
    /\ Go(c, "end")
    /\ UNCHANGED <<core, adopted, epoch, lastEpoch, sessions, claimed, consuming,
                   releasing, lateSet, redis, told, faults, refusedStale>>

\* The socket closes or fails.
Teardown(c) ==
    /\ Running(Home[c]) /\ pc[c] # "off" /\ ~closed[c]
    /\ TornDown({c})
    /\ UNCHANGED <<core, pc, adopted, epoch, lastEpoch, sessions, claimed, consuming,
                   releasing, lateSet, redis, told, faults, refusedStale>>

\* Mutant of findSession: the epoch is not compared.
findAnySession(c) == {d \in sessions : Home[d] = Home[c]}

\* findSession(): the entries of c's core that removeSession(agentId, epoch) may mean.
findSession(c) == {d \in sessions : Home[d] = Home[c] /\ epoch[d] = epoch[c]}

\* Mutant of removeSession: the channel is stopped and stays in the map.
removeNothing(c) ==
    LET found == findSession(c) IN
    /\ sessions' = sessions
    /\ consuming' = consuming \ found
    /\ releasing' = releasing \cup found

\* removeSession() up to the release: the session leaves the map, its channel is
\* stopped and the presence key is being released.
removeSession(c) ==
    LET found == findSession(c) IN
    /\ sessions' = sessions \ found
    /\ consuming' = consuming \ found
    /\ releasing' = releasing \cup found

\* Mutant of Adopt: run() just returns when the connection has closed meanwhile.
AdoptForgets(c) ==
    /\ At(c, "added")
    /\ IF closed[c]
       THEN Go(c, "end") /\ UNCHANGED <<adopted, told>>
       ELSE adopted' = adopted \cup {c} /\ told' = told \cup {c} /\ Go(c, "live")
    /\ UNCHANGED <<core, closed, live, epoch, lastEpoch, sessions, claimed, consuming,
                   releasing, lateSet, redis, faults, refusedStale>>

\* run() after addUdsSession() succeeded: a connection that closed meanwhile removes
\* its session, otherwise the session is adopted and the client is sent {t:ok}.
Adopt(c) ==
    /\ At(c, "added")
    /\ IF closed[c]
       THEN /\ removeSession(c)
            /\ Go(c, "end")
            /\ UNCHANGED <<adopted, told>>
       ELSE /\ adopted' = adopted \cup {c}
            /\ told' = told \cup {c}
            /\ Go(c, "live")
            /\ UNCHANGED <<sessions, consuming, releasing>>
    /\ UNCHANGED <<core, closed, live, epoch, lastEpoch, claimed, lateSet, redis, faults,
                   refusedStale>>

\* The rest of teardown() of a connection that has a session.
Remove(c) ==
    /\ Running(Home[c]) /\ closed[c] /\ c \in adopted
    /\ removeSession(c)
    /\ adopted' = adopted \ {c}
    /\ live' = IF findSession(c) = {} THEN live \ {c} ELSE live
    /\ UNCHANGED <<core, pc, closed, epoch, lastEpoch, claimed, lateSet, redis, told, faults,
                   refusedStale>>

\* Mutant of Release: teardown() does not unregister the connection.
ReleaseKeepsLive(c) ==
    /\ c \in releasing
    /\ releasing' = releasing \ {c}
    /\ claimed' = claimed \ {c}
    /\ IF c \in claimed THEN Released(c) ELSE UNCHANGED redis
    /\ UNCHANGED <<core, pc, closed, live, adopted, epoch, lastEpoch, sessions, consuming,
                   lateSet, told, faults, refusedStale>>

\* releasePresence() of a stopped channel reaches Redis; teardown() is finished.
Release(c) ==
    /\ c \in releasing
    /\ releasing' = releasing \ {c}
    /\ claimed' = claimed \ {c}
    /\ live' = live \ {c}
    /\ IF c \in claimed THEN Released(c) ELSE UNCHANGED redis
    /\ UNCHANGED <<core, pc, closed, adopted, epoch, lastEpoch, sessions, consuming,
                   lateSet, told, faults, refusedStale>>

------------------------------------------------------------------------------
\* heartbeat() of a started channel refreshes its own key; when the key is not its
\* own any more it logs a warning and nothing else.
Heartbeat(c) ==
    /\ Running(Home[c])
    /\ c \in consuming
    /\ key = c
    /\ stale' = FALSE
    /\ UNCHANGED <<core, pc, closed, live, adopted, epoch, lastEpoch, sessions, claimed,
                   consuming, releasing, lateSet, key, told, faults, refusedStale>>

\* Two heartbeat periods pass without a refresh: nobody refreshes the key any more, or
\* the session that holds it does not reach Redis for that long.  No claim is awaited
\* for so long: REDIS_TIMEOUT_MS ends it.
GoStale ==
    /\ key # None /\ ~stale
    /\ \/ key \notin claimed /\ losses' = losses
       \/ /\ key \in sessions
          /\ \A c \in Conns(Home[key]) : pc[c] # "claim"
          /\ losses < MaxLoss
          /\ losses' = losses + 1
    /\ stale' = TRUE
    /\ UNCHANGED <<core, pc, closed, live, adopted, epoch, lastEpoch, sessions, claimed,
                   consuming, releasing, lateSet, key, told, late, startFaults, refusedStale>>

\* The third period passes as well: the key's time to live is over.
Expire ==
    /\ stale
    /\ key' = None
    /\ stale' = FALSE
    /\ UNCHANGED <<core, pc, closed, live, adopted, epoch, lastEpoch, sessions, claimed,
                   consuming, releasing, lateSet, told, faults, refusedStale>>

------------------------------------------------------------------------------
\* SIGTERM: acceptor.close() stops listening and tears every connection down.
AcceptorClose(k) ==
    /\ core[k] = "up"
    /\ core' = [core EXCEPT ![k] = "closing"]
    /\ TornDown(live \cap Conns(k))
    /\ UNCHANGED <<pc, adopted, epoch, lastEpoch, sessions, claimed, consuming,
                   releasing, lateSet, redis, told, faults, refusedStale>>

\* The teardowns are finished: core.stop().
CoreStop(k) ==
    /\ core[k] = "closing"
    /\ live \cap Conns(k) = {}
    /\ core' = [core EXCEPT ![k] = "stopping"]
    /\ UNCHANGED <<pc, closed, live, adopted, epoch, lastEpoch, sessions, claimed, consuming,
                   releasing, lateSet, redis, told, faults, refusedStale>>

\* Mutant of inflightAdds: the adds in flight are not tracked.
noInflightAdds(k) == {}

\* The adds that _doStop() waits out.
inflightAdds(k) == Adding \cap Conns(k)

\* _doStop() once the adds in flight have settled: the sessions left are stopped and the
\* connections closed.  Releases already sent precede the close on the Redis connection.
CoreStopped(k) ==
    LET left == sessions \cap Conns(k) IN
    /\ core[k] = "stopping"
    /\ inflightAdds(k) = {}
    /\ releasing \cap Conns(k) = {}
    /\ core' = [core EXCEPT ![k] = "stopped"]
    /\ sessions' = sessions \ left
    /\ consuming' = consuming \ left
    /\ claimed' = claimed \ left
    /\ IF key \in left \cap claimed THEN key' = None /\ stale' = FALSE ELSE UNCHANGED redis
    /\ UNCHANGED <<pc, closed, live, adopted, epoch, lastEpoch, releasing, lateSet, told,
                   faults, refusedStale>>

\* The process dies; what it sent to Redis and was not executed is lost.
Crash(k) ==
    /\ Running(k)
    /\ core' = [core EXCEPT ![k] = "crashed"]
    /\ closed' = [c \in Conn |-> closed[c] \/ (Home[c] = k /\ pc[c] # "off")]
    /\ live' = live \ Conns(k)
    /\ adopted' = adopted \ Conns(k)
    /\ sessions' = sessions \ Conns(k)
    /\ claimed' = claimed \ Conns(k)
    /\ consuming' = consuming \ Conns(k)
    /\ releasing' = releasing \ Conns(k)
    /\ UNCHANGED <<pc, epoch, lastEpoch, lateSet, redis, told, faults, refusedStale>>

------------------------------------------------------------------------------
\* One step of run() of c, and of the teardown of c.
RunStep(c) ==
    \/ HelloRefused(c) \/ HelloReclaim(c) \/ NextEpoch(c)
    \/ AddUdsSession(c) \/ ClaimPresence(c) \/ ClaimTimeout(c)
    \/ Subscribe(c) \/ SubscribeFail(c) \/ Register(c) \/ Rollback(c)
    \/ Adopt(c) \/ Refuse(c)

TeardownStep(c) == Remove(c) \/ Release(c)

Next ==
    \/ \E c \in Conn : Open(c) \/ RunStep(c) \/ Teardown(c) \/ TeardownStep(c)
                       \/ LateSet(c) \/ Heartbeat(c)
    \/ \E k \in Core : AcceptorClose(k) \/ CoreStop(k) \/ CoreStopped(k) \/ Crash(k)
    \/ GoStale \/ Expire

Spec == Init /\ [][Next]_vars

\* Awaited calls return, a process runs its callbacks, main() goes on to core.stop(),
\* Redis executes what it was sent and its clock advances.  Whether a client opens or
\* closes a connection, and whether a core is stopped, is nobody's obligation.
Fairness ==
    /\ \A c \in Conn : WF_vars(RunStep(c)) /\ WF_vars(TeardownStep(c)) /\ WF_vars(LateSet(c))
    /\ \A k \in Core : WF_vars(CoreStop(k)) /\ WF_vars(CoreStopped(k))
    /\ WF_vars(GoStale) /\ WF_vars(Expire)

FairSpec == Spec /\ Fairness

------------------------------------------------------------------------------
(* Properties *)

\* Types.  A session in the map always has its channel started, and a channel that is
\* being stopped is out of the map (removeSession()).
TypeOK ==
    /\ core \in [Core -> {"up", "closing", "stopping", "stopped", "crashed"}]
    /\ pc \in [Conn -> PC]
    /\ closed \in [Conn -> BOOLEAN]
    /\ epoch \in [Conn -> Nat] /\ lastEpoch \in Nat
    /\ live \subseteq Conn /\ adopted \subseteq Conn /\ sessions \subseteq Conn
    /\ claimed \subseteq Conn /\ consuming \subseteq Conn /\ releasing \subseteq Conn
    /\ lateSet \subseteq Conn /\ told \subseteq Conn
    /\ sessions \cap releasing = {}
    /\ key \in Conn \cup {None} /\ stale \in BOOLEAN
    /\ late \in 0..MaxLate /\ startFaults \in 0..MaxStartFaults /\ losses \in 0..MaxLoss
    /\ refusedStale \in BOOLEAN

\* As long as no live holder has gone without a refresh for the life of its key, two
\* instances of the agent never consume its durable inbox, whatever connections, cores,
\* shutdowns and crashes overlap (A2AChannel.start() claims presence first).
OneConsumer == losses = 0 => \A c, d \in consuming : c = d

\* A client that was told {t:ok} and is still connected has a registered session, and
\* its inbox is consumed unless it is tool-only (run(): "never told ok then dropped").
SessionBacked ==
    \A c \in told : closed[c] \/ c \in (IF c \in ToolOnly THEN sessions ELSE sessions \cap consuming)

\* As long as no claim has timed out, the presence key never outlives its holder, except
\* when the holder crashed: every failed start, late close and shutdown gives it back
\* (start()'s catch, stop(), _doStop()).
NoOrphanKey ==
    (late = 0 /\ key # None) =>
        (key \in claimed /\ Running(Home[key])) \/ core[Home[key]] = "crashed"

\* What a told client has and what the presence key stands for belong together: neither is left
\* behind without the other (SessionBacked, NoOrphanKey).
SessionsBacked == SessionBacked /\ NoOrphanKey

\* A session leaves the map only when its own connection has closed or its own core ends:
\* the teardown of an older or a tool-only connection never evicts it (removeSession()).
NoForeignRemoval ==
    [][\A c \in sessions : c \in sessions' \/ closed'[c] \/ ~Running(Home[c])']_vars

\* A stale presence key, left by a holder that stopped refreshing it, does not keep a
\* new connection out (PRESENCE_RECLAIM_SCRIPT).
StaleReclaimed == ~refusedStale

\* A connection that has closed is cleaned up: it leaves the acceptor's live set and the
\* session map, its inbox is no longer consumed and the presence key is not its own.
CleanupHappens ==
    \A c \in Conn :
        closed[c] ~> /\ c \notin live \cup sessions \cup consuming
                     /\ key # c

\* A core that was told to shut down gets there: nothing it waits for waits for it.
StopCompletes == \A k \in Core : core[k] = "closing" ~> core[k] \in {"stopped", "crashed"}
==============================================================================
