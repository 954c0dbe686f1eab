----------------------------- MODULE MCChannels -----------------------------
(* Channels coming and going, in scenes of which a behaviour plays one: two instances of an      *)
(* identity and its presence lease, one A2A channel through its life, and the subscriptions of   *)
(* the advisory NATS channel, the last once under fairness with one edit and once without.  The  *)
(* other components wait in an initial state: one run holds the instances side by side.          *)
EXTENDS PresenceClaimer

CONSTANTS
    Topic, Bad, NoLoad, Stored0, Configs, MaxRivals, MaxWrites,
    None, Arrays, Defaults, MAX_DELIVER, MaxEdits, MaxMsg, MaxSubs,
    MaxChFaults, MaxNatsFaults, t1, t2, durable1

VARIABLES
    scene,
    cfg, pc, called, started, stopped, claimed, retry, timers, conn, redis, secret, key, rival,
    consuming, control, stored, active, subs, chain, load, tool, nudge, stopping, rivals, writes,
    chFaults, missed, unclean, lapsed, kept, raced,
    nStored, everLoaded, queued, rl, nActive, nSubs, server, life, top, msg, edits, nFaults, history

Life  == INSTANCE A2AChannelLife WITH faults <- chFaults, MaxFaults <- MaxChFaults
Nats  == INSTANCE NatsChannel
             WITH stored <- nStored, active <- nActive, subs <- nSubs, faults <- nFaults,
                  MaxFaults <- MaxNatsFaults

ASSUME LifeAssume == Life!LifeAssumption
ASSUME NatsAssume == Nats!NatsAssumption

-----------------------------------------------------------------------------
\* A session of the core, a standalone channel, a tool-only bridge, a channel without credentials,
\* a disabled one and one with only half a shared bus.
Shared == [enabled |-> TRUE, idOk |-> TRUE, sigAlg |-> "ed25519", dev |-> FALSE,
           transport |-> "creds", creds |-> FALSE, key |-> FALSE, ext |-> TRUE,
           nats |-> "pool", redis |-> TRUE, toolOnly |-> FALSE]
Standalone == [Shared EXCEPT !.creds = TRUE, !.key = TRUE, !.ext = FALSE, !.nats = "own",
                             !.redis = FALSE]
MCConfigs == {Shared, Standalone, [Standalone EXCEPT !.toolOnly = TRUE, !.sigAlg = "hmac"],
              [Standalone EXCEPT !.creds = FALSE], [Shared EXCEPT !.enabled = FALSE],
              [Shared EXCEPT !.redis = FALSE]}

\* Advisory subscriptions: a durable one in four versions, its durable under a new
\* subject, a core one as the default.
Advice(id, dur, fields, sample) ==
    [id |-> id, durable |-> dur, cfg |-> fields, sample |-> sample, form |-> "ok"]
Js(fields, sample) == Advice("j", durable1, fields, sample)
Moved == Advice("i", durable1, 1, 1)
MCArrays == {<<Js(1, 2)>>, <<Js(1, 1), Moved>>, <<Js(2, 1)>>, <<Moved>>,
             <<[Js(1, 1) EXCEPT !.form = "malformed"]>>}
MCDefaults == {Advice("k", None, 0, 1)}

-----------------------------------------------------------------------------
lifeVars ==
    <<cfg, pc, called, started, stopped, claimed, retry, timers, conn, redis, secret, key, rival,
      consuming, control, stored, active, subs, chain, load, tool, nudge, stopping, rivals, writes,
      chFaults, missed, unclean, lapsed, kept, raced>>
natsVars ==
    <<nStored, everLoaded, queued, rl, nActive, nSubs, server, life, top, msg, edits, nFaults,
      history>>

\* Every component is in an initial state; which one matters only in its own scene.
MCInit ==
    /\ scene \in {"lease", "life", "nats", "natsFair"}
    /\ Init /\ Life!Init /\ Nats!Init
    /\ scene # "life" => cfg = Shared /\ secret
    /\ scene \notin {"nats", "natsFair"} => nStored = Nats!Absent

\* A second call of the leases fails only while an instance is alone.
MCNext ==
    /\ UNCHANGED scene
    /\ \/ /\ scene = "lease" /\ Next /\ UNCHANGED <<lifeVars, natsVars>>
          /\ faults' <= 1 \/ faults' = faults \/ \E c \in Claimer : phase[c] = "new"
       \/ scene = "life" /\ Life!Next /\ UNCHANGED <<vars, natsVars>>
       \/ /\ scene \in {"nats", "natsFair"} /\ Nats!Next /\ UNCHANGED <<vars, lifeVars>>
          /\ scene = "natsFair" => edits' <= 1

\* The fairness of each component, in its scene.
MCFairness ==
    /\ \A c \in Claimer : /\ WF_vars(scene = "lease" /\ Continue(c))
                          /\ WF_vars(scene = "lease" /\ Maintain(c))
                          /\ WF_vars(scene = "lease" /\ Exec(c))
    /\ WF_vars(scene = "lease" /\ Expire) /\ WF_vars(scene = "lease" /\ Tick)
    /\ WF_lifeVars(scene = "life" /\ Life!StartStep)
    /\ WF_lifeVars(scene = "life" /\ (Life!Read \/ Life!Apply))
    /\ WF_lifeVars(scene = "life" /\ Life!KeyExpires)
    /\ WF_lifeVars(scene = "life" /\ Life!RivalEnds)
    /\ WF_lifeVars(scene = "life" /\ Life!Provision)
    /\ WF_natsVars(scene = "natsFair" /\ Nats!Reload)
    /\ WF_natsVars(scene = "natsFair" /\ Nats!ReloadStep)
    /\ WF_natsVars(scene = "natsFair" /\ Nats!Drained)
    /\ WF_natsVars(scene = "natsFair" /\ \E n \in 1..MaxSubs : Nats!LoopStep(n))

MCSpec == MCInit /\ [][MCNext]_<<scene, vars, lifeVars, natsVars>> /\ MCFairness

-----------------------------------------------------------------------------
\* The A2A channel never splits the durable consumer with a rival of its identity, holds nothing
\* once stopped, and its topic subscriptions are the stored ones whenever nothing is under way.
ChannelSafe == Life!NoSplitConsumer /\ Life!StoppedHoldsNothing /\ Life!TopicsFollow

\* An instance that runs while every other one is gone comes to own the presence key, and a
\* configured A2A channel comes up by itself in the end, whatever failed on the way.
\* The advisory channel's subscriptions come to be the stored ones after every disturbance.
ChannelsConverge ==
    /\ scene = "lease" => Converges
    /\ scene = "life" => Life!SelfHeals
    /\ scene = "natsFair" => Nats!Converges

\* The advisory channel never destroys a JetStream cursor it still wants, never binds defaults
\* over a lost key, never throttles a retry, and runs one loop per subscription.
AdvisorySafe == Nats!CursorSafe /\ Nats!NoRebind /\ Nats!RetryNotGated /\ Nats!OneLoop
=============================================================================
