----------------------------- MODULE MCSessions -----------------------------
(* Two cores that serve one agent: three connections, one of them tool-only, with a lost        *)
(* release, and two connections with a fault of every kind, under fairness.  Or one core         *)
(* (OneHome).  In the last scene one core boots, adds and removes sessions and stops.  Whatever  *)
(* is off stage waits in an initial state.                                                       *)
EXTENDS A2ACoreSessions

CONSTANTS k1, k2, c1, c2, c3, a1, a2, a3, Add, Agent, agentOf, Nobody, MaxFailures, Scenes

VARIABLES
    scene,
    natsPoolSize, boot, failures, nc, ncPublish, ncControl, opened, open, coreRedis, presence,
    statusPlane, started, stopP, toDrain, redrained, add, bus, up, agentSessions

OneHome == [c \in Conn |-> k1]
TwoHomes == [c \in Conn |-> IF c = c2 THEN k2 ELSE k1]

\* Two adds race for the first agent.
TwoOfThree == [a \in Add |-> IF a = a3 THEN "second" ELSE "first"]

Boot == INSTANCE CoreBoot WITH redis <- coreRedis, sessions <- agentSessions

ASSUME BootAssume == Boot!CoreBootAssumption

bootVars == <<natsPoolSize, boot, failures, nc, ncPublish, ncControl, opened, open, coreRedis,
              presence, statusPlane, started, stopP, toDrain, redrained, add, bus, up,
              agentSessions>>

MCInit ==
    /\ scene \in Scenes /\ Init /\ Boot!Init
    /\ scene # "boot" => natsPoolSize = 1

MCNext ==
    /\ UNCHANGED scene
    /\ \/ /\ scene # "boot" /\ Next /\ UNCHANGED bootVars
          /\ scene = "two" => \A c \in Conn \ {c1, c2} : pc'[c] = "off"
          /\ scene = "three" => startFaults' = 0 /\ late' = 0
       \/ scene = "boot" /\ Boot!Next /\ UNCHANGED vars

\* The fairness of A2ACoreSessions, in the second scene, and of CoreBoot in the last.
MCFairness ==
    /\ \A c \in Conn : /\ WF_vars(scene = "two" /\ RunStep(c))
                       /\ WF_vars(scene = "two" /\ TeardownStep(c))
                       /\ WF_vars(scene = "two" /\ LateSet(c))
    /\ \A k \in Core : /\ WF_vars(scene = "two" /\ CoreStop(k))
                       /\ WF_vars(scene = "two" /\ CoreStopped(k))
    /\ WF_vars(scene = "two" /\ GoStale) /\ WF_vars(scene = "two" /\ Expire)
    /\ WF_bootVars(scene = "boot" /\ Boot!BootStep)
    /\ WF_bootVars(scene = "boot" /\ Boot!StopStep)
    /\ \A a \in Add : WF_bootVars(scene = "boot" /\ Boot!AddStep(a))

MCSpec == MCInit /\ [][MCNext]_<<scene, vars, bootVars>> /\ MCFairness

\* The boot and the shutdown of a core leak nothing, drain every connection once and take no
\* connection from under a channel.
BootSafe == scene = "boot" => Boot!BootSafe

\* A closed connection is cleaned up completely (live set, session map, consumer, presence key),
\* and a core that is told to stop gets there: nothing it waits for waits for it.
WindsDown ==
    /\ scene = "two" => CleanupHappens /\ StopCompletes
    /\ scene = "boot" => Boot!StopEnds
=============================================================================
