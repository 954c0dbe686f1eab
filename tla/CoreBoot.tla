------------------------------ MODULE CoreBoot ------------------------------
(***************************************************************************)
(* The life of one A2ACore (a2a_core.ts): start() opens a pool of up to    *)
(* three NATS connections (traffic classes consume, publish and control,   *)
(* which share connections when the pool is smaller), a Redis client, the  *)
(* presence lease and the status plane, and undoes a boot that fails half  *)
(* way; addSession() starts channels over those connections; removeSession *)
(* stops one; stop() waits out what is in flight and takes everything      *)
(* down.  start() and stop() hand out the promise of the one activation    *)
(* there is, so each is one process here.  A stopped core is terminal.     *)
(***************************************************************************)
EXTENDS Naturals

CONSTANTS
    Add,         \* calls of addSession()
    Agent,       \* agent ids
    agentOf,     \* the agent a call is about
    Nobody,      \* no session
    MaxFailures  \* bound on the connections that cannot be opened

CoreBootAssumption ==
    /\ agentOf \in [Add -> Agent] /\ Nobody \notin Add
    /\ MaxFailures \in Nat

VARIABLES
    natsPoolSize,
    boot,        \* _doStart(): where it stands; "none" is startPromise = null
    failures,    \* boots that failed
    nc, ncPublish, ncControl,    \* the shared connections, 0 for undefined
    opened,      \* connections opened so far; each has its number as its name
    open,        \* connections that are open
    redis, presence, statusPlane,    \* whether each of them is up
    started,
    stopP,       \* _doStop(): where it stands; "none" is stopPromise = null
    toDrain,     \* connections of the Set that are not drained yet
    redrained,   \* a connection was drained that was not open
    add,         \* where a call of addSession() stands, or its session
    bus,         \* the connections that buildSessionOpts() gave to the channel
    up,          \* channels that hold their presence and their consumer
    sessions     \* the session map

conns == <<nc, ncPublish, ncControl, opened, open, toDrain, redrained>>
parts == <<redis, presence, statusPlane, started>>
table == <<add, bus, up, sessions>>
vars == <<natsPoolSize, boot, failures, stopP, conns, parts, table>>

Pool == {nc, ncPublish, ncControl} \ {0}
stopping == stopP # "none"

Init ==
    /\ natsPoolSize \in 1..3
    /\ boot = "none" /\ stopP = "none" /\ failures = 0
    /\ nc = 0 /\ ncPublish = 0 /\ ncControl = 0 /\ opened = 0 /\ open = {} /\ toDrain = {}
    /\ redrained = FALSE
    /\ redis = FALSE /\ presence = FALSE /\ statusPlane = FALSE /\ started = FALSE
    /\ add = [a \in Add |-> "idle"] /\ bus = [a \in Add |-> {}] /\ up = {}
    /\ sessions = [g \in Agent |-> Nobody]

-----------------------------------------------------------------------------
\* start(): rejected once stop() was called, nothing to do when started, the same promise for
\* all callers while a boot is under way.
Start ==
    /\ ~stopping /\ ~started /\ boot = "none"
    /\ boot' = "consume"
    /\ UNCHANGED <<natsPoolSize, failures, stopP, conns, parts, table>>

\* A connection is open; it is assigned before the next one is asked for, and stands for the
\* classes that have none of their own.  After the last one Redis and the lease are set up.
Connect ==
    /\ boot \in {"consume", "publish", "control"}
    /\ opened' = opened + 1 /\ open' = open \cup {opened + 1}
    /\ boot' = IF boot = "consume" /\ natsPoolSize >= 2 THEN "publish"
               ELSE IF boot = "publish" /\ natsPoolSize >= 3 THEN "control" ELSE "claim"
    /\ nc' = IF boot = "consume" THEN opened + 1 ELSE nc
    /\ ncPublish' = IF boot = "publish" \/ (boot = "consume" /\ boot' = "claim")
                    THEN opened + 1 ELSE ncPublish
    /\ ncControl' = IF boot' = "claim" THEN opened + 1 ELSE ncControl
    /\ redis' = (boot' = "claim") /\ presence' = (boot' = "claim")
    /\ UNCHANGED <<natsPoolSize, failures, stopP, toDrain, redrained, statusPlane, started, table>>

\* The first claim of the lease is answered, whatever the answer, and the core's key is read.
Booted ==
    /\ boot = "claim"
    /\ boot' = "up" /\ statusPlane' = TRUE /\ started' = TRUE
    /\ UNCHANGED <<natsPoolSize, failures, stopP, conns, redis, presence, table>>

\* Mutant of ConnectFails: only the primary connection is closed again.
ConnectFailsPrimary ==
    /\ boot \in {"consume", "publish", "control"}
    /\ failures < MaxFailures /\ failures' = failures + 1
    /\ boot' = "undo" /\ toDrain' = {nc} \ {0}
    /\ UNCHANGED <<natsPoolSize, stopP, nc, ncPublish, ncControl, opened, open, redrained, parts,
                   table>>

\* connectShared() throws: no credentials, or the server cannot be reached.
ConnectFails ==
    /\ boot \in {"consume", "publish", "control"}
    /\ failures < MaxFailures /\ failures' = failures + 1
    /\ boot' = "undo" /\ toDrain' = Pool
    /\ UNCHANGED <<natsPoolSize, stopP, nc, ncPublish, ncControl, opened, open, redrained, parts,
                   table>>

\* One connection of the Set is drained, by the undoing of a boot or by stop().
Drain(c) ==
    /\ boot = "undo" \/ stopP = "drain"
    /\ c \in toDrain
    /\ toDrain' = toDrain \ {c} /\ open' = open \ {c}
    /\ redrained' = (redrained \/ c \notin open)
    /\ UNCHANGED <<natsPoolSize, failures, boot, stopP, nc, ncPublish, ncControl, opened, parts,
                   table>>

\* The fields are cleared and startPromise is null again: the next start() is a new boot.
Undone ==
    /\ boot = "undo" /\ toDrain = {}
    /\ boot' = "none"
    /\ nc' = 0 /\ ncPublish' = 0 /\ ncControl' = 0 /\ redis' = FALSE
    /\ UNCHANGED <<natsPoolSize, failures, stopP, opened, open, toDrain, redrained, presence,
                   statusPlane, started, table>>

-----------------------------------------------------------------------------
hasOwningSession(g) == sessions[g] # Nobody
NotStarted == ~started \/ stopping \/ nc = 0 \/ ~redis
inflightAdds == {a \in Add : add[a] \in {"starting", "ready", "rollback"}}

\* addSession(): refused by its guards, or a channel over the shared connections is started.
AddSession(a) ==
    /\ add[a] = "idle"
    /\ IF NotStarted \/ hasOwningSession(agentOf[a])
       THEN add' = [add EXCEPT ![a] = "out"] /\ UNCHANGED bus
       ELSE add' = [add EXCEPT ![a] = "starting"] /\ bus' = [bus EXCEPT ![a] = Pool]
    /\ UNCHANGED <<natsPoolSize, failures, boot, stopP, conns, parts, up, sessions>>

\* A2AChannel.start() ends: the channel is up, or it is not and holds nothing.
ChannelStarted(a) ==
    /\ add[a] = "starting"
    /\ add' = [add EXCEPT ![a] = "ready"]
    /\ up' \in {up, up \cup {a}}
    /\ UNCHANGED <<natsPoolSize, failures, boot, stopP, conns, parts, bus, sessions>>

\* Mutant of Recheck: the session map is not looked at again.
RecheckNotTheMap(a) ==
    /\ add[a] = "ready"
    /\ IF a \notin up \/ NotStarted
       THEN add' = [add EXCEPT ![a] = "rollback"] /\ UNCHANGED sessions
       ELSE /\ add' = [add EXCEPT ![a] = "in"]
            /\ sessions' = [sessions EXCEPT ![agentOf[a]] = a]
    /\ UNCHANGED <<natsPoolSize, failures, boot, stopP, conns, parts, bus, up>>

\* The re-check after the await: the session is registered, or rolled back when the core began
\* to stop or another add of the agent was faster.
Recheck(a) ==
    /\ add[a] = "ready"
    /\ IF a \notin up \/ NotStarted \/ hasOwningSession(agentOf[a])
       THEN add' = [add EXCEPT ![a] = "rollback"] /\ UNCHANGED sessions
       ELSE /\ add' = [add EXCEPT ![a] = "in"]
            /\ sessions' = [sessions EXCEPT ![agentOf[a]] = a]
    /\ UNCHANGED <<natsPoolSize, failures, boot, stopP, conns, parts, bus, up>>

\* removeSession(): the session leaves the map at once; its channel stops afterwards.
RemoveSession(a) ==
    /\ add[a] = "in" /\ sessions[agentOf[a]] = a
    /\ sessions' = [sessions EXCEPT ![agentOf[a]] = Nobody]
    /\ add' = [add EXCEPT ![a] = "removing"]
    /\ UNCHANGED <<natsPoolSize, failures, boot, stopP, conns, parts, bus, up>>

\* A2AChannel.stop() ends, of a rollback or of a removal.
ChannelStopped(a) ==
    /\ add[a] \in {"rollback", "removing"}
    /\ add' = [add EXCEPT ![a] = "out"] /\ up' = up \ {a}
    /\ UNCHANGED <<natsPoolSize, failures, boot, stopP, conns, parts, bus, sessions>>

-----------------------------------------------------------------------------
\* stop(): latched; a second call gets the same promise.
Stop ==
    /\ stopP = "none"
    /\ stopP' = "start"
    /\ UNCHANGED <<natsPoolSize, failures, boot, conns, parts, table>>

\* The boot in flight has settled.
StartSettled ==
    /\ stopP = "start" /\ boot \in {"none", "up"}
    /\ stopP' = "adds"
    /\ UNCHANGED <<natsPoolSize, failures, boot, conns, parts, table>>

\* Mutant of AddsSettled: the adds in flight are not waited for.
AddsNotAwaited ==
    /\ stopP = "adds"
    /\ stopP' = "presence" /\ statusPlane' = FALSE
    /\ UNCHANGED <<natsPoolSize, failures, boot, conns, redis, presence, started, table>>

\* The adds in flight have settled; the status plane stops before anything is drained.
AddsSettled ==
    /\ stopP = "adds" /\ inflightAdds = {}
    /\ stopP' = "presence" /\ statusPlane' = FALSE
    /\ UNCHANGED <<natsPoolSize, failures, boot, conns, redis, presence, started, table>>

\* The lease is released, over a Redis client that is still open.
PresenceStopped ==
    /\ stopP = "presence"
    /\ stopP' = "sessions" /\ presence' = FALSE
    /\ UNCHANGED <<natsPoolSize, failures, boot, conns, redis, statusPlane, started, table>>

\* One registered session after the other is stopped.
SessionStopped(a) ==
    /\ stopP = "sessions" /\ add[a] = "in" /\ sessions[agentOf[a]] = a /\ a \in up
    /\ up' = up \ {a}
    /\ UNCHANGED <<natsPoolSize, failures, boot, stopP, conns, parts, add, bus, sessions>>

\* All are stopped: the map is cleared and every distinct connection is to be drained.
SessionsCleared ==
    /\ stopP = "sessions"
    /\ \A g \in Agent : hasOwningSession(g) => sessions[g] \notin up
    /\ sessions' = [g \in Agent |-> Nobody]
    /\ add' = [a \in Add |-> IF add[a] = "in" THEN "out" ELSE add[a]]
    /\ stopP' = "drain" /\ toDrain' = Pool
    /\ UNCHANGED <<natsPoolSize, failures, boot, nc, ncPublish, ncControl, opened, open,
                   redrained, parts, bus, up>>

StopDone ==
    /\ stopP = "drain" /\ toDrain = {}
    /\ stopP' = "done"
    /\ nc' = 0 /\ ncPublish' = 0 /\ ncControl' = 0 /\ redis' = FALSE /\ started' = FALSE
    /\ UNCHANGED <<natsPoolSize, failures, boot, opened, open, toDrain, redrained, presence,
                   statusPlane, table>>

-----------------------------------------------------------------------------
BootStep == Connect \/ Booted \/ ConnectFails \/ Undone \/ \E c \in toDrain : Drain(c)
AddStep(a) == ChannelStarted(a) \/ Recheck(a) \/ ChannelStopped(a)
StopStep ==
    \/ StartSettled \/ AddsSettled \/ PresenceStopped \/ SessionsCleared \/ StopDone
    \/ \E a \in Add : SessionStopped(a)

Next ==
    \/ Start \/ Stop \/ BootStep \/ StopStep
    \/ \E a \in Add : AddSession(a) \/ AddStep(a) \/ RemoveSession(a)

Spec == Init /\ [][Next]_vars

\* Connecting, claiming, draining, starting and stopping a channel all settle.
Fairness == WF_vars(BootStep) /\ WF_vars(StopStep) /\ \A a \in Add : WF_vars(AddStep(a))

-----------------------------------------------------------------------------
TypeOK ==
    /\ natsPoolSize \in 1..3 /\ failures \in Nat
    /\ boot \in {"none", "consume", "publish", "control", "claim", "up", "undo"}
    /\ stopP \in {"none", "start", "adds", "presence", "sessions", "drain", "done"}
    /\ nc \in Nat /\ ncPublish \in Nat /\ ncControl \in Nat /\ opened \in Nat
    /\ open \subseteq 1..opened /\ toDrain \subseteq 1..opened
    /\ {redrained, redis, presence, statusPlane, started} \subseteq BOOLEAN
    /\ add \in [Add -> {"idle", "starting", "ready", "rollback", "in", "removing", "out"}]
    /\ bus \in [Add -> SUBSET (1..opened)] /\ up \subseteq Add
    /\ sessions \in [Agent -> Add \cup {Nobody}]

\* "a failed boot leaks nothing": every open connection is one of the core's fields, and a core
\* that is neither up nor busy booting or stopping holds nothing at all; what is up uses Redis and
\* connections that are open.
NothingLeaks ==
    /\ open \subseteq Pool
    /\ boot = "none" \/ stopP = "done" =>
          open = {} /\ ~redis /\ ~presence /\ ~statusPlane /\ ~started
    /\ presence => redis
    /\ statusPlane => ncControl \in open

\* "Drain every DISTINCT pool conn exactly once", however the classes share connections and
\* whether a failed boot or stop() drains.
DrainedOnce == ~redrained

\* A channel that is being added or is registered has its connections and Redis for as long as it
\* is up: nothing is drained under it.  (A channel that removeSession() is stopping has left the
\* map, and stop() does not wait for it.)
BusOutlivesChannels ==
    \A a \in up : add[a] # "removing" => bus[a] \subseteq open /\ bus[a] # {} /\ redis

\* A channel that is up belongs to an add in flight, to the session registered for its agent, or
\* to a removal: no add that lost a race leaves one behind, and none survives stop().
NoStrandedChannel ==
    \A a \in up :
        \/ a \in inflightAdds \/ add[a] = "removing"
        \/ add[a] = "in" /\ sessions[agentOf[a]] = a

\* The boot and the shutdown of a core.
BootSafe == NothingLeaks /\ DrainedOnce /\ BusOutlivesChannels /\ NoStrandedChannel

\* stop() ends, whatever boot, adds and removals it meets.
StopEnds == stopping ~> stopP = "done"
=============================================================================
