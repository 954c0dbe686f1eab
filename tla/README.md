# Alloyium: TLA+ models, model checking and proofs

Alloyium is a message bus and a set of gateways for coding agents. Agents talk over NATS
(JetStream for durable inboxes, core NATS for topics), keep their identity keys, presence and
counters in Redis, and reach the bus through a Unix-domain-socket core that many agent
processes share. Around the bus are gateways that run Codex or Claude jobs, a bridge and a
dispatcher that turn task-board events into jobs, a fleet orchestrator, a launcher, and
monitors.

This directory models the parts whose correctness depends on the order in which things happen:
what several processes, callbacks, retries and crashes can do to shared state. Every definition
that models code is listed in `PROJECT.json` under `map`, with the source lines it stands for.

1. Inventory. 2. Modules. 3. State, actions and code. 4. Runs. 5. Proofs. 6. Disagreements with
the code's own statements. 7. Abstractions and what is not modelled. 8. Plan.

## 1. Inventory

| Component (source) | State it keeps | Operations | Talks to | What is hard | What makes it correct |
|---|---|---|---|---|---|
| Presence lease (`presence.ts`) | owned flag, last confirmation, timer; a Redis key with a TTL | start, claim, heartbeat, re-claim, stop | Redis | calls that are given up and executed later, two instances, TTL against heartbeat | ownership is believed only for a bounded time; nobody releases another's live key |
| Channel life cycle (`a2a-channel.ts`) | started, stopped, timers, connection, topics, reload chain | start with clean-up and retry, join, leave, reload, nudge, stop | Redis, NATS, a rival instance | stop at any await of start, reloads overlapping joins | a stopped channel consumes nothing; topics follow the store |
| Advisory channel (`nats-channel.ts`) | subscription specs, active subscriptions, durable cursors | reload, bind, pull, inject, reap, stop | Redis, JetStream, the agent | unreadable or partly valid specs, loops that die beside a reload | no durable cursor is deleted but for a real edit; every spec is bound in the end |
| Receive path and inbox (`a2a-channel.ts`, `a2a_inbox_store.ts`) | dedup list, consumer, inbox rows | deliver, verify, persist, inject, ack/nak, agent ack | JetStream, SQLite, the agent | two loops, redelivery, a stopped session that finishes its handler, crash between steps | persisted before shown, no silent loss, no forged message, bounded repetition |
| Verification keys (`a2a-channel.ts`) | shared key cache | look up, refetch past the cache, evict | Redis | fetches answered out of order, rotation, revocation | bounded staleness, no false rejection |
| Send side (`a2a-channel.ts`) | token buckets, peers tracked | validate, charge, sign, publish, announce a skill | NATS, Redis, the shim as signer | buckets evicted and remade, two buckets charged together, the canonical string | rate bound, only well-formed envelopes, one meaning per signed string |
| Core boot and shutdown (`a2a_core.ts`) | connection pool, start and stop promises, session map | start, retry, addSession, removeSession, stop | NATS, Redis | a boot that fails half-way, stop during boot and adds | nothing opened is leaked or drained twice; connections outlive channels |
| Session registry and UDS acceptor (`a2a_core.ts`, `uds_acceptor.ts`, `uds_hello.ts`) | sessions, live connections, epochs, adds in flight, presence keys | hello, add, register, roll back, tear down, close, stop | Redis, JetStream, shims | every await is a place where the socket closes, the core stops or the agent reconnects | one consumer per inbox, no orphaned key, no foreign removal, clean-up and shutdown finish |
| UDS framing (`uds_frame.ts`) | two write lanes, decoder buffer, read timer | enqueue, pump, resume, close, push | sockets | short writes, back-pressure, control frames overtaking | frames whole, ordered per lane, every drain() settled |
| UDS delivery and the shim (`uds_transport.ts`, `mcp_session.ts`, `a2a-shim/`) | notification buffer, delivery chain, pending entries, de-duplication list | inject, acknowledge, sign, replayed handshake | core, shim, client | late acknowledgements, reconnects, time-outs | what is acknowledged was shown, in order and once |
| Task-board bridge (`taskboard_event_bridge.ts`, `taskboard_event_core.ts`) | memoised readiness promise | verify, normalise, publish | task-board outbox, JetStream | lost acknowledgements, shared promise, duplicate window | 202 only when stored, stored once per window |
| Task-board dispatcher (`taskboard_event_dispatcher.ts`) | idempotency set, pending maps, reply handlers in flight | consume, create run, send job, book replies | JetStream, task board, Codex gateway | redelivery while processing, memory-only idempotency, un-awaited handlers | no ack without a send, one run per event, outcome is the gateway's |
| Codex gateway (`codex_gateway.ts`, `codex_realtime.ts`) | thread cache, turn handlers, realtime sessions, approvals | accept, run, approve, steer, interrupt, reply | app-server, Redis, the bus | timeouts racing answers, turns that outlive their job | one terminal reply per job, threads fit their context, no dangling reference |
| Codex build authorisation (`codex_build_authz.ts`, `codex_build_client.ts`) | registered paths with expiry, thread owners | register, check, unregister, claim | Redis | command sequences interleaved and executed late | write windows are bounded, one owner per thread key |
| Build guard (`codex_build_guard.ts`) | findings of a check | diff, status, read | git, the worker | the worktree moves while it is read; what git lists is not every file | what passed and was listed is publishable |
| Routing governor (`codex_routing_governor.ts`) | latches, breakers | route, record | the callers | numeric edges, outcomes recorded by a stale clock | never a provider that is out or under pressure |
| Panel service (`fusion_service.ts`, `output_transport.ts`) | pending maps, timers, blobs | dispatch legs, judge, fit, reply | gateways, Redis | replies racing timers and blob reads, calls executed though reported as failed | each leg settled once, reply fits, an accepted reply is whole |
| Claude gateway (`claude_gateway.ts`) | sessions, queue, warm pool, threads | warm, acquire, run, tick, evict, reply | Claude processes, Redis | stale ticks, eviction of busy sessions, sends stored though reported as failed | bounded pool, every answer the job's own |
| Launcher and onboarding (`a2a_launcher.ts`, `onboard.ts`) | key files, registered keys, containers, launch records | onboard, rotate, launch | Redis, Docker | concurrent first launches, any step failing before or after its effect, processes that die alone | files, registry and container agree |
| Fleet orchestrator (`a2a_fleet_orchestrator.ts`) | plan, launches, pending jobs | plan, launch, assign, await, stop | launcher, bus | late replies of earlier runs, launches that come up after the stop | ok means every job done; stopped means nobody runs |
| Wedge detector (`wedge_detector.ts`, `agent_beat.ts`) | beats, stored state, high-water keys | ingest, evaluate | Redis, NATS | late, lost, repeated beats of several incarnations | verdicts are founded, a wedge is not masked |
| Status plane, portal, tool fronts, webhook wiring, boot scripts, generated protocol | none that another component relies on | HTTP, HTML, one-shot scripts | the stores | – | – |

How they interact: a shim connects to the acceptor, proves its identity in the hello, and
`A2ACore` adds a session whose `A2AChannel` claims the agent's presence key, opens the durable
inbox and injects messages through the socket. The bridge publishes task-board events to a
stream, the dispatcher consumes it and sends jobs over its own `A2AChannel` to a gateway, whose
replies come back through the dispatcher's inbox. The orchestrator asks the launcher for agents
and gives them jobs over the bus; the detector reads their beats and presence.

`PROJECT.json` lists the components (also those that are not modelled), and, under `hazards`,
the places in the code where a test would hardly reach, each with the properties that would
catch it.

## 2. Modules

| Module | Models | Run | Proofs |
|---|---|---|---|
| `PresenceClaimer` | `presence.ts`, class PresenceClaimer | `channels` | `PresenceClaimerProofs` |
| `A2AChannelLife` | life cycle of one `A2AChannel` | `channels` | `PresenceClaimerProofs` |
| `NatsChannel` | `nats-channel.ts` | `channels` | `PresenceClaimerProofs` |
| `A2ACoreSessions` | sessions of one agent across `a2a_core.ts`, `uds_acceptor.ts`, `uds_hello.ts` | `sessions` | `A2ACoreSessionsProofs` |
| `CoreBoot` | boot, in-process sessions and shutdown of `a2a_core.ts` | `sessions` | `A2ACoreSessionsProofs` |
| `A2AVerifyKeys` | verification keys of `a2a-channel.ts` | `bus` | `BusProofs` |
| `A2AEnvelope`, `A2ASend` | the canonical envelope as operators; the send side of `a2a-channel.ts` | `bus` | `BusProofs` |
| `A2AInbox` | receive path of `a2a-channel.ts`, `a2a_inbox_store.ts` | `inbox`, `bus` | `BusProofs` |
| `TaskboardBridge` | `taskboard_event_bridge.ts`, `taskboard_event_core.ts` | `taskboard` | `TaskboardProofs` |
| `TaskboardDispatcher` | `taskboard_event_dispatcher.ts` | `taskboard` | `TaskboardProofs` |
| `CodexBuild` | `codex_build_authz.ts`, `codex_build_client.ts` | `codex` | `CodexBuildProofs` |
| `CodexGateway` | `codex_gateway.ts`, `codex_realtime.ts` | `codex` | `CodexBuildProofs` |
| `OutputTransport` | `output_transport.ts` as operators on texts | `codex`, `agents` | – |
| `FusionService` | `fusion_service.ts` | `codex` | `CodexBuildProofs` |
| `FrameLanes` | abstract specification: ordered, lossless lanes | – | – |
| `UdsFrame` | `uds_frame.ts`; implements `FrameLanes` | `uds` | – |
| `UdsDelivery` | `uds_transport.ts`, `mcp_session.ts`, the shim | `uds` | `UdsProofs` |
| `AgentLauncher`, `FleetOrchestrator` | `a2a_launcher.ts`, `onboard.ts`; `a2a_fleet_orchestrator.ts` on top of them | `fleet` | `FleetOrchestratorProofs` |
| `ClaudeGateway` | `claude_gateway.ts` | `agents` | `ServiceProofs` |
| `RoutingGovernor` | `codex_routing_governor.ts` | `agents` | `ServiceProofs` |
| `BuildGuard` | `codex_build_guard.ts` | `agents` | `ServiceProofs` |
| `WedgeDetector` | `wedge_detector.ts`, `agent_beat.ts` | `agents` | `ServiceProofs` |

The `MC*` modules give the constants their values. Most of them put several components side by
side as *scenes*: the variable `scene` is chosen at the start and only the component on stage
moves, while the others wait in an initial state or hold 0. A run of scenes checks each
component alone, as a run of its own would, and its state count is the sum, not the product.
A property that an MC module states for one scene (`BootSafe`, `BridgeSafe`, `FailClosed`,
`GovernorSafe`, `GuardSound` and others) is the property of that name of the component. A proof
module EXTENDS the MC module of its run, so that its theorems are about the very definitions the
run checks, with the constants of the MC module left open.

Definitions whose comment begins "Mutant of" are not part of a specification: each is a
plausible wrong version of the definition that follows it. `PROJECT.json` names, for every
property, one that the property notices; more are kept beside their definitions.

## 3. State, actions and code

Conventions. An action is what the code does between two awaits (or two commands of a sequence,
or two turns of an event loop), with everything it changes. What other processes, Redis, NATS or
a client do are actions of their own, marked as external in the map. A call that may fail spends
from a bound (`faults < MaxFaults`); a call that is given up by a timeout but executed later is a
pending command. Variables that only the properties read are commented "history".

**PresenceClaimer.** `phase`, `owned`, `age` and `timer` are the fields of an instance; `op`/`rep`
the Redis call it awaits; `q` its pipelined commands on the way to Redis; `holder`/`ttl` the key.
Time is counted in ticks. A call that `withTimeout` gives up stays in `q` and may be executed
later; the release of `stop()` may be executed before a claim that was sent earlier (the case that
`claimWon()` undoes). `Start`, `Stop`, `Maintain` (the timer), `Continue` (the code after an await), `Exec` and
`Expire` (Redis), `Tick`, failures, `Crash`.

**A2AChannelLife.** `pc` is the await of `start()`; `started`, `stopped`, `claimed`, `retry`,
`timers`, `conn` are the fields; `stored`/`active`/`subs`/`chain`/`load` the topics in Redis, in
memory, live, the reload chain and the running load. `StartStep` goes through `start()` with its
clean-up and its retry timer, `TopicStep` is join, leave, nudge and reload, `Stop`/`StopEnds` may
come at every await, `Surroundings` is Redis, the rival and the operator.

**NatsChannel.** `stored` is the spec list in Redis, `rl` the reload that runs (one at a time, one
queued), `subs` every pull loop ever made, `active` the map of the live ones, `server` the durable
consumers. A loop may die at any moment; `reap` finds it or, in the gap between `subscribe()`
returning and `active.set`, does not.

**A2ACoreSessions.** `pc[c]` says where `run()` of connection `c` is, which goes on after
`teardown()`. One action per await of `run()`, `_doAddUdsSession()`, `A2AChannel.start()`,
`removeSession()`, `stop()` and the shutdown. Redis (key expiry, a SET that is executed late) is
external.

**CoreBoot.** `boot` and `stopP` are where `_doStart()` and `_doStop()` stand; connections are
numbered as they are opened, so that "drained twice" and "left open" can be told. `add[a]` is a
call of `addSession()` and later its session; `removeSession()` deletes the map entry before it
awaits the channel's stop, and the core's `stop()` does not wait for it (`main()` does, through the
acceptor's close). `presence.start()` never throws, so a boot fails only at a connection.

**A2AVerifyKeys.** One sender's key in Redis, rotated or revoked at any time, one shared cache,
several handlers. A fetch is sent, read and answered at three different moments.

**A2AEnvelope, A2ASend.** `A2AEnvelope` has the canonical string, its escaping, `isValidInbound`
and `verifyEnvelope` as operators. In `A2ASend` a call is validated and charged in one step, signs
(own key, or the shim, which may fail), publishes and is acknowledged; `peers` is the map of
buckets in insertion order, with the eviction of the oldest. `broadcastSkillCreated` registers a
global skill with commands nobody awaits.

**A2AInbox.** A session is one `A2AChannel` object; the process may replace it while the old one
still runs a handler. `buf`, `at`, `cur` are the two loops (durable inbox, topics), `order` the
dedup list, `rows`/`handled` the SQLite store, `js`/`tries` the consumer. `handleInbound()` awaits
twice, the signature check and the injection; what lies between two awaits is one step: `Take`,
`Drop` or `Pass`, `Inject` or `InjectFail`.

**TaskboardBridge.** `req[r]` is where `handleRequest` is with a webhook, or its answer; `ready`
the memoised promise; `stored`/`window` the stream and its duplicate window, `era` counts how
often an id left the window. A webhook is described by what the checks read of it (`Attr`), so the
HMAC, the payload and the subject appear as verdicts.

**TaskboardDispatcher.** `pc`, `cur`, `run` are the serial loop of `main()` inside
`processTaskboardEvent`; `handlers` the calls of `handleInbound()` that nobody awaits;
`byJob`/`byCorr` the pending maps; `runs` the task board's agent runs; `broker`/`deliveries` the
durable consumer; `jobs` what the gateway received and answered. `findBySession` asks for four
statuses in turn, and the model keeps the four queries apart. `load` holds the events and bounds
of a behaviour. Assumption: different events have different job ids.

**CodexBuild.** `pc[p]` is the Redis command that a build (a client) or a job of a gateway sends
next, in the order of `registerCwd`, `isCwdRegistered` with its lazy removal, `unregisterCwd`,
`putBlob` and `claimThreadKey`; `lag` is a command that timed out and is still executed later;
`member`/`score`/`owner` are the keys.

**CodexGateway.** `inq`/`busy` are the serial inbox; `pc[r]` the handling of a request; `cache`,
`byThread`, `act`, `pend`, `hdl` the maps and handlers of the two classes; `thr`, `turn`, `ap`,
`out`, `chunk` the app-server and its stdout, read in chunks of lines. `slot[id]` is
`pendingApprovals`: an id is made of the time and the job counter, so two approvals of one moment
may share it (`apid`), and the later one takes the slot; `Decide` is a decision by anybody, because
`onInbound` does not look at the sender. A steer or an interrupt names the turn its requester
believes active (`Named`).

**FusionService, OutputTransport.** `pending`/`timer`/`opening` are the pending maps, the timers and
the blob reads between a reply and its settling; `out` the reply being fitted. A SET that failed
may have been executed, a DEL may not have been, and a send may have been stored although it was
reported as failed: `unput`, `undel` and `doubt` say which of them happened. `OutputTransport`
holds truncation, the two binary searches and the reply plan as operators over texts whose
characters carry their UTF-8 and JSON widths; `CodexGateway` needs none of it.

**ClaudeGateway.** `sess` the sessions with queue, in-flight turn and armed ticks; `threads`,
`idle`, `warming`, `active` the pool. Jobs run from the input blob to the reply. `SendReply` has
three outcomes: accepted, refused, or kept by the bus and reported as failed; a job in
`history.doubt` may have been answered twice for the last reason, and one in `history.mute` not at
all, because the failed reply that followed a refusal was lost too.

**RoutingGovernor.** `routeBuild` and `recordOutcome` with every combination of signals; the clock
does not step back, but an outcome may be recorded with the one of an earlier call.

**BuildGuard.** One git command per step beside a worker that edits, stages, commits and renames.
`head`, `index` and `tree` give each file's content; `StatusNames` is what `git status
--porcelain=v1` lists: the changed files, and one record for a directory without a tracked file
(`record`), which the guard neither opens nor looks into.

**UdsFrame.** `queue`, `current`, `paused`, `failed` are the writer, `wire` the socket, `buf`,
`armed`, `got` the decoder and its timer. `Send` is enqueue and pump, `Resume` the socket's drain
event, `Receive(k)` a chunk of any size.

**UdsDelivery.** `chain`, `pending`, `flushed` are the delivery chain and the entry of the call under
way; `phase`/`epoch` the connection; `dedup`, `asked`, `inited` the shim's memory; `shown` what the
client read. What the shim had queued when a connection ended it reads on frame by frame
(`ShimDrains`), before the next connection.

**AgentLauncher, FleetOrchestrator.** `at[r]` is where a launch or rotation is, from the guards
through `SET NX`, comparison and key files to the container and the record. Every step may fail,
before or after its effect: a registration whose reply is lost is `LateRegister`, files cut off
half-way are `CutFiles` and leave `Broken`. The onboarding command (`Kind` rotate) is a process of
its own; `LauncherCrash` does not end it, and its own death is a failed step. The orchestrator's `pc`
and `next` go through the plan (presence check, launch, presence wait, writable directory, jobs,
replies, stop), sharing the launcher's state; `Others` are further requests to the launcher.

**WedgeDetector.** `net` the beats on their way, `ing` and `ev` the two handlers between their
awaits, sharing `mem`; `hw` and `store` the keys in Redis. `doubt` records that a Redis call of the
detector failed or a beat was paired with a presence record that was not its own. `hook` is a hook
process that has read the beat state and is overtaken by another; `overtaken` the incarnations of
which such a hook wrote its older state over the newer one.

## 4. Runs

Twelve runs: nine finish without an error, three `violation` runs each show a disagreement between
the code and a statement of the repository (section 6).

| Run | Bounds | Shows |
|---|---|---|
| `channels` | 2 lease holders, TTL 3, heartbeat 2, 2 failed calls (the second while one instance is alone); six configurations of a channel with a rival and 2 topics; 2 edits of the spec list, 1 message, 5 loops | `LeaseSafe`, `NoForeignRelease`; `ChannelSafe`; `AdvisorySafe`; `ChannelsConverge` |
| `sessions` | scene *three*: 3 connections (one tool-only) on 2 cores with a lost release; scene *two*: 2 connections with a failed start, a late claim and a stale key; scene *boot*: 3 adds for 2 agents, 1 failed connection, pools of 1 to 3 | `OneConsumer`, `SessionsBacked`, `NoForeignRemoval`, `BootSafe`; `WindsDown` |
| `bus` | 2 handlers, 2 keys, a clock to 5; 4 calls over 3 peers of which 2 are tracked; a forged and a malformed message on the inbox loop, an echo on the topic loop | `BoundedStaleness`, `NoFalseReject`; `SendSafe`; `FailClosed` |
| `inbox` | 2 sessions, 2 direct messages, 1 broadcast, dedup list of 1, 2 deliveries, 1 failure | `InboxSafe`, `AckedWasShown`; `Delivered` |
| `taskboard` | 5 webhooks, 2 outages, 1 deletion, 1 id leaving the window; 1 or 2 events, 2 deliveries, 1 crash, 1 failed listing, 1 lost send | `OneJobOneRun`, `OutcomeIsTheGateways`, `VerdictBeforeSuccess`, `BridgeSafe`; `EventsGetThrough` |
| `codex` | 2 builds and 3 jobs on 1 path and 1 key, 2 faults, 1 crash; 2 or 3 of 7 requests at the gateway (jobs in one and two contexts, sessions over the bus and HTTP), cache of 2, 1 fault; panel jobs with small and large answers, 1 fault | `BuildSafe`, `GatewaySafe`, `FusionSafe`; `BuildsEnd`, `JobsAnswered` |
| `uds` | 4 frames and 2 malformed ones, 9 bytes on the wire; 3 notification calls, 2 signatures, 2 connections, shim memory of 1 | `FramesSafe`, `ImplementsLanes`, `DeliverySafe`; `SocketSettles` |
| `fleet` | eight command lines over 3 agents, 2 faults (each a failed step, a step whose answer is lost, or a crash), another caller and a rotation | `LauncherSafe`, `FleetSafe`; `RunEnds` |
| `agents` | pool 1, 1 thread, turns 1 and 2, up to 3 jobs, 1 fault, or 1 job with every size of text and cap and 3 faults; breaker at 2, clock to 3; 4 paths, two of them in one directory, 3 writes, 1 failed command; 2 incarnations, 3 events, clock to 3 | `PoolSafe`, `ReplyFaithful`, `GovernorSafe`, `GuardSound`, `VerdictIsFounded`, `NoMaskedWedge` |
| `inbox_keyfault`, `sessions_stale`, `taskboard_quiet` | one of each actor | section 6 |

Why the bounds are enough to be interesting: two of each competing actor are what a race needs
(the sessions use three connections because a tool-only one may be confused with an owning one);
one crash separates "before" from "after" for every step; two deliveries are one delivery and one
redelivery, and reach the limit; lists and caches of length one or two are filled by the next
element. The theorems of section 5 remove the bounds where they exist.

In `codex`, the ids of two approvals may collide in the job `j2` beside the session `i1`, and
liveness is checked on the loads without `i1` and the HTTP requests. In `agents`, `GuardSound`
has one file of every class (`in` and `sec` in a directory of their own, `out` outside the
manifest, `up` unsafe), and `MCNoOutput` is the text `(no output, status=...)` of two characters.
In `fleet`, `StoppedAfterwards` speaks of sessions whose stop command succeeded; with the
documented `tmux kill-session` and Docker agents none does (section 6), and the property is then
about nothing.

In `sessions`, the scene with three connections has no failed start and no late claim; in
`agents`, the turn class of the detector is `"loop"` only, and the constraint `Undoubted` stops at
states in doubt, after which the detector's properties hold trivially. `bus` uses the symmetry of
the two handlers; it checks no liveness.

`CHECK_DEADLOCK FALSE` is set because the systems may really stop: all messages are handled, all
cores stopped or crashed.

Fairness. Every liveness property is checked under weak fairness only. It is put on steps that the
code or its surroundings take on their own: the continuation of an await that settles (every Redis
and HTTP call is bounded by a timeout or fails), timers (heartbeat, ack wait, key expiry), the
broker's deliveries, the restart of a process by its supervisor, the retry of the outbox, the
socket's progress while the peer reads. Nothing is assumed of clients and agents: they may fall
silent, and faults are bounded instead of unfair. One property assumes more: `SelfHeals` (in
`ChannelsConverge`) says that a configured channel comes up in the end if its rival ends some day
(`RivalEnds`) and the operator provides the missing secret and key (`Provision`); both are
conditions of the property, stated as fairness, and no guarantee of the code. `RunEnds` takes it
that a command that is killed at its timeout ends; `spawnCommand()` also waits for the end of its
stdout, which a surviving grandchild can hold open. In runs of scenes the fairness is stated
for one scene (or one smaller copy of it) at a time.

## 5. Proofs

TLAPS checks the theorems below for every value of the constants that satisfies the named
assumptions of the modules: any number of sessions, events, webhooks, requests, agents, any TTL,
threshold or list length. The assumptions only give the constants their types and what the
configuration guarantees; each is an operator of the component's module (`ClaimerAssumption`,
`LifeAssumption`, `NatsAssumption`, `InboxAssumption`, `KeysAssumption`, `SendAssumption`,
`SessionsAssumption`, `CoreBootAssumption`, `UdsDeliveryAssumption`, `BridgeAssumption`, `LoadsAssumption`,
`BuildAssumption`, `GatewayAssumption`, `FusionAssumption`, `GovernorAssumption`,
`GuardAssumption`, `WedgeAssumption`, `LauncherAssumption`; `FleetAssumption` also says that a
run's launch requests are for its agents and that the two canary ids differ), and where a component
is an instance of the MC module, that module assumes it under a name of its own (`LifeAssume`,
`GatewayAssume` and the like), so that TLC evaluates every one of them in a run. The definitions
that give the constants their values in a run (`MCMenu`, `MCLoads` and so on) are not used by any
proof.

A theorem is about the specification of its component (`Life!Spec => []ChannelSafe`), or, where
the run's property is conditional on the scene, about the specification of all scenes (`MCSpec =>
[]BootSafe`): then the invariant is "while this component is on stage, its `IInv`", and the steps
of the others leave its variables alone.

Each module follows one pattern: an inductive invariant of named parts, one lemma per action or
group of actions, `Init => IInv`, `IInv /\ [Next]_vars => IInv'`, and the property from it.

* **PresenceClaimerProofs.** `FencingHolds` from `FenceInv`, which bounds the age of a believed
  ownership by what is left of the timer and by the reply that is awaited; `NoGhostHolds` from
  `GhostInv`: while no call has failed, the queue of an instance holds at most the command its
  claim awaits and the release of its stop, and a stopped instance has the key only between the
  answer to a claim and the release that undoes it; together `LeaseSafeHolds`; `ReleaseOnlyWhenGone`
  (`ReleaseInv`: a release command in a queue belongs to an instance that is no longer running)
  and from it the action property `NoForeignReleaseHolds`. And for the life cycle of a channel
  `StartInv` (what `start()` has got hold of at each await), `LeaseInv` (who holds the presence
  key), `HoldInv` (what a stopped channel cannot have, unless the stop overlapped a start) and
  `FollowInv` (which request to load the topics is still to come while the subscriptions differ
  from what is stored); with them `NoSplitHolds`, `StoppedHolds`, `TopicsFollowHolds`, together
  `ChannelSafeHolds`. For the advisory channel `SubsInv` (an active entry is a subscription of its
  own id, a running loop is active), `ReloadInv` (what the running reload has read and still has
  to drop or add, and that the durable it deletes is of a subscription gone from a clean load),
  `HistoryInv` and `BindInv`: `CursorSafeHolds`, `NoRebindHolds`, `OneLoopHolds`,
  `RetryNotGatedHolds`, together `AdvisorySafeHolds`. `CursorSafe` identifies a subscription by
  its id, as the code does: that a spec under a new subject keeps its durable's cursor is not true
  of the code, and TLC shows it with the spec `Moved`.
* **BusProofs.** For the receive path, `IInv` adds to the types what a handler knows at each await
  (`HandlerInv`), what was shown (`ShownInv`), that buffered messages are ones the broker has
  counted (`BufInv`), and that the dedup list is the tail of the history of what was shown,
  shorter than `DedupLru` only while nothing was dropped (`WindowInv`), which is what makes
  `DedupWindow` inductive. `InboxSafeHolds`, `AckedWasShownHolds` (unconditional: a message
  dropped by the gate or for a failed fetch is excepted by the property itself),
  `FailClosedHolds`, `HandledStickyHolds`. For the verification keys, `StaleInv`: a cached entry
  expires at most `Ttl + Timeout` after its key was last current, and a fetch under way is younger
  than `Timeout`; `CleanInv`: a handler whose verification was undisturbed has read nothing but
  the current key. `StalenessHolds`, `NoFalseRejectHolds`. For the send side, three parts. `Rates`:
  a refilled bucket holds the least of its capacity and, over the sends it let through, what each
  and its successors leave of a bucket that was full before (`Leaves`); the lemmas `FitsLater`,
  `FitsTaken` and `FitsRefilled` carry that over a tick, a charge and a refill. `SentInv`: what waits
  for its signature was built from arguments that were accepted. `ScopeInv`: the last command on
  its way for a skill carries the scope announced last, and a skill with none on its way is
  registered as announced. `RateExactHolds`, `SentIsAcceptedHolds`, `RegistryFollowsHolds` are
  `SendSafe` but for its conjunct `CanonicalDecodes`.
* **A2ACoreSessionsProofs.** `IInv` relates the position of `run()` to the session map, the
  consumer and the claim (`PcInv`, `ClaimInv`, `LiveInv`, `BackInv`, `KeyInv`) and says that an
  epoch identifies a connection (`EpochInv`). `OneConsumerHolds`, `SessionsBackedHolds`,
  `NoForeignRemovalHolds`. `OneConsumer` holds as long as no live holder has lost its key and
  `NoOrphanKey` excepts a claim that timed out; both conditions are part of the properties and are
  necessary: without the first, TLC finds a channel that goes on consuming after it lost its key,
  beside the next holder (`heartbeat()` only logs `lost_ownership`); without the second, a claim
  that was given up, is executed after the rollback, and leaves a key nobody releases. And for the
  boot of the core `BootInv` (what a boot that is under way has opened), `StopInv` and `AddInv`
  (which promise an add waits for): `BootSafeHolds`.
* **UdsProofs.** For the delivery of notifications: what may be under way in each phase of a
  connection (`QuietInv`), that everything on its way to the shim is behind the handshake
  (`HandshakeInv`), what the shim remembers of what it has shown (`WindowInv`), that an
  acknowledgement on its way is of a notification shown (`AckInv`), how the chain, the call under
  way and the order of the injects fit (`OrderInv`), and which requests a signature on its way can
  answer (`SignInv`): `DeliveredWasShownHolds`, `ShownOnceHolds`, `AfterHandshakeHolds`,
  `DeliveredInOrderHolds`, `SignatureIsOursHolds`, together `DeliverySafeHolds`.
* **CodexBuildProofs.** `ProcInv` (what the position in a command sequence implies for the keys),
  `ScoreInv`, `MemberInv`, `ClosedInv` and `OwnerInv`; steps are grouped as commands that ran,
  commands that were lost or late, and time. `BuildSafeHolds`. For the panel, `LegInv` (what a leg
  can have at each point: one that took a reply is pending no more), `PanelInv` (the legs are
  settled for good when the reply is fitted) and `FitInv` (which fields are whole or in Redis):
  `FusionSafeHolds`. For the gateway, `GwInv`: a request is taken once (`QueueInv`, `BusyInv`), a
  call has one answer on its way (`RespInv`), what the app-server says of a turn is true of it
  (`LineInv`), what a request knows of its thread (`ThreadInv`), that the cache is a map of
  threads under the keys they were started for (`CacheInv`), how realtime sessions and threads
  point at each other (`SessionInv`), that a thread with a turn still running after its job was
  given up has left the cache (`JobInv`), and what was said (`ReplyInv`): `GatewaySafeHolds`.
  Several lemmas are about a request and what it may leave as it was (`Calm`, `Grows`,
  `TurnsLast`), so that a handler that ends a turn and one that answers a call share them.
* **ServiceProofs.** Two small services of builds: `GovernorSafeHolds` (`BreakerInv`), `GuardSoundHolds`
  (`PhaseInv`, `ChangedInv`, `CleanInv`); and the wedge detector. Its `IInv` says in any state
  that sequence numbers and receive times start at 1 (`SeqInv`, `ClockInv`) and that of an
  incarnation no hook of which was overtaken, later beats have later clocks (`ChainInv`); and as
  long as there is no doubt, that the state is of the incarnation whose presence record it was
  paired with and holds the newest beat received of it (`StateInv`), that memory and Redis agree
  (`SyncInv`), and that a beat between the high-water script and its application is newer than all
  that was heard (`IngestInv`). From it follow the action properties `VerdictHolds` and
  `NoMaskedHolds`. For the Claude gateway the invariant `Sound` is a predicate on pool records,
  not only on states, because a step of the code is a sequence of operators (`finish`, then
  `advance`; `delThread`, `kill`, then `spawn`) and each needs its own lemma. Its parts: who may
  use a session (`UsingInv`), that a session that warms up or idles is nobody's (`WarmInv`,
  `IdleInv`), that the thread map has one session per key and that one only jobs of the key
  (`StickyInv`), that the turn in flight and the queue are of jobs that use the session
  (`TurnInv`), whom a session has served (`ServedInv`), that a live session is kept somewhere
  (`OwnedInv`), that as long as no stale tick struck, a turn is in flight or queued behind one
  (`GoingInv`), and that the slots taken are the jobs in the pool (`Counted`). `PoolSafeHolds`.
* **FleetOrchestratorProofs.** For the launcher `PubInv`, `FilesInv`, `SeedInv` and `AgreeInv`:
  who may write which key file while a first launch or a rotation is under way; from them
  `LauncherSafeHolds`. For the orchestrator `LoopInv`, `DispatchInv`, `ReplyInv`, `StopInv`, with
  `Down` and `MayStart` for what can still bring an agent up; `FleetSafeHolds`.
* **TaskboardProofs.** `LoopInv` ties the serial loop to jobs and runs: `SentInv` (a message is
  acked only behind a send; what one life of the process sent twice was reported lost), `LifeInv`
  (what the in-memory idempotency set knows of this life), `RunInv` (a run that is not the first
  of its event was created after a failed listing). `ReplyInv` follows each un-awaited reply
  handler from the run it looked up to the update it makes; it is kept by the order `Grown` on
  histories (jobs, runs and verdicts only grow, a final answer does not change), so that a step of
  the loop or of another handler is shown once to disturb no handler (`ReplyKeeps`).
  `ExtractFacts` is the lemma on the search for the first verdict block in a reply, over the
  definition with a least index. `OneJobOneRunHolds`, `OutcomeHolds`, `VerdictBeforeSuccessHolds`.
  For the bridge, `StoredInv` orders the stored copies of an event by the era of its message id
  against the duplicate window, `AdmittedInv` says that a webhook past the checks is genuine;
  `BridgeSafeHolds`.

Only model-checked:

* all liveness properties: the prover has no reasoning about fairness and ENABLED;
* that `UdsFrame` implements `FrameLanes`, and `FramesSafe`: the argument is an induction over the
  bytes of frames, and definitions by recursion over data are beyond the provers here;
* `CanonicalDecodes`, a conjunct of `SendSafe`, and `ReplyFaithful`, which rest on folds and
  recursive functions over texts and lists (escaping, binary searches), again an induction over
  data.

## 6. Disagreements found

| Run | What it shows |
|---|---|
| `inbox_keyfault` | one failed fetch of a sender's key, and a valid durable message is acked without being shown |
| `sessions_stale` | the reclaim script reads a time stamp as a number, so it reclaims no key a channel wrote |
| `taskboard_quiet` | an answer that arrives before the dispatcher tracks its job, or an accepted update that lands last, leaves the run in `spawning` for ever |

The quotation each one contradicts is in `PROJECT.json`, under `findings`. Modelling turned up more
that a maintainer may want to know; the properties except each case by name, so that they say when
the rest is guaranteed:

* Claude gateway: two jobs of one new `thread_key` both spawn a session and the first is orphaned
  (`history.doubled`); recycling at `THREAD_MAX_TURNS` and eviction kill a busy session; the 50 ms
  tick of an earlier turn strikes a later one (the comment at `claude_gateway.ts:213` excludes it).
* Replies of both gateways of builds: a publish that times out after the bus stored the message is
  answered `publish_failed` (`a2a-channel.ts:1314-1317`). The Claude gateway (`claude_gateway.ts:399-401`)
  and the panel (`fusion_service.ts:222-225`) then delete the blobs the stored reply refers to and
  send a contradicting `failed` reply; the panel's dispatch knows the case and keeps its blob
  (`fusion_service.ts:108-110`). Exceptions `history.doubt` and `doubt`.
* Codex gateway: an approval is decided by whoever answers first, not only by the approver asked
  (`codex_gateway.ts:1045-1048`); two approvals of one moment can share an id
  (`codex_gateway.ts:659`), and the decision of the one then answers the other; the handler of
  `runTurn()` does not compare threads, so it takes the end (and the text) of any turn of the
  app-server, a realtime session's too (`codex_gateway.ts:597-602`). Decisions, ids and ends are
  in the model as they are, and `GatewaySafe` says what is true all the same.
* Build authorisation: the lazy removal of an expired directory (`codex_build_authz.ts:193`) may fall
  behind a new registration and take its expiry away (exception `torn`).
* Panel: the "HARD fit-guarantee" (`fusion_service.ts:65-67`) fails when Redis is down and two
  fields are large.
* Channel: the comment that a credential provisioned late brings the channel up without a restart
  (`a2a-channel.ts:796-799`) disagrees with the gate, which is decided in the constructor; a
  `stop()` that overlaps a topic load leaves topic subscriptions, one that overlaps `start()` sets up a
  stopped channel; a lost heartbeat is only logged.
* Advisory channel: editing the subject of a spec with the same durable deletes the cursor; a loop that
  dies between `subscribe()` returning and `active.set` is never reaped.
* Launcher: a crash, a lost reply or a failed write between `SET NX` and the end of the key files
  (`onboard.ts:79`, `:117-131`, `:170-171`) is a permanent conflict, or a file cut off half-way, until
  a rotation; a rotation that dies between the two, or overlaps a launch, can leave the old key files
  (`torn`, `raced`). The orchestrator posts `claude-live` launches to `/v1/agents/codex`, and its
  stop command gets `a2a-<id>` (`a2a_fleet_orchestrator.ts:1049`) where the launcher's container is
  `cc-agent-<id>` (`a2a_launcher.ts:192`): with the documented `tmux kill-session -t` such an agent is
  not stopped. `StopSession` models a configured command that does find the agent's container.
* Guard: `git status` without `-uall` (`codex_build_guard.ts:116`) reports an untracked directory as one
  path, so the files inside it are neither matched against the deny patterns nor scanned
  (`:241-243`), although the header says that every dirty path must be covered; what is staged and then
  replaced on disk is not read (`:137-140`); the net diff of a committed range does not show what
  an intermediate commit added and a later one removed; the old path of a rename does not appear in
  `diff --name-only`; a failed `cat-file` skips the file. `GuardSound` is about the paths git lists.
* Beats: `emitBeat()` reads and writes the beat state without a lock. A hook that is overtaken by
  another between the two puts the clocks back, and the next keepalive counts as a turn of the
  agent, which the comment at `wedge_detector.ts:370-378` says it must not (exception `overtaken` of
  `SpinIsFounded`; the attempt to prove the property without it failed at this step).
* UDS: the delivery chain waits up to 30 s per lost acknowledgement for all that follow; `inject()`
  is stranded on a server that closes before its handshake.
* Skills: two agents that announce one skill may leave the registry behind.

## 7. Abstractions and what is not modelled

Cryptography, formatting, prompts, comment texts and logging are reduced to their verdicts
everywhere; a value is a member of a small set. Beyond that:

* inbox store: `list()` with its paging cursor; hello: the challenge exchange, its deadline and its own
  key cache (`uds_hello.ts:84`, `:185`); acceptor: caps on what a peer may send before its hello;
* channel: `enforceStreamLimits`, the interval that writes counters; send: summaries, tags and their
  scrubbing, the subject allow-list; advisory channel: `min_interval_ms`, validation of the seeded
  defaults (the code has none);
* framing: `Dispatcher` and `ConnectionPending`, which no part of the program uses; dispatcher: the
  exported class `TaskboardEventDispatcher` and the in-memory run store, which only tests use;
* launcher: key files become visible in one step when the write succeeds (nothing reads them between);
* fleet: the launch-script backend, topic events, an unset stop command (it counts as a failed stop);
  the stop command, which is awaited, is one step;
* UDS: `pendingInjectCap` and `maxInflight`, which only refuse before anything is sent;
* gateways: streaming deltas, usage percentages, `thread/resume`, MCP elicitations (answered at once,
  in the process), the approval policy, which is the same for every realtime session of a run;
* not modelled at all, because nothing in them interleaves or lasts: tool fronts, portal, status
  plane, webhook wiring, boot scripts, generated protocol types.

## 8. Plan

The hello's challenge, deadline and key cache; `list()` as an operator checked against a reference;
the shim's request time-outs.
