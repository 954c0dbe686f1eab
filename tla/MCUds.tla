------------------------------- MODULE MCUds -------------------------------
(* The socket between core and shim, in two scenes: frames through writer, socket and decoder   *)
(* (two lanes, a frame too large, malformed frames), and deliveries and signatures on top       *)
(* (two notifications, one of them delivered twice, two signatures), the latter once under      *)
(* fairness without the repeated delivery.  The component off stage waits in its initial state. *)
EXTENDS UdsFrame

CONSTANTS c1, m1, m2, huge, x1, x2,
          Call, NotifOf, MaxSign, DedupCap, MaxConn, a1, a2, b1, n1, n2

VARIABLES
    scene,
    phase, epoch, mcpBuffer, served, call, chain, flushed, pending, order, sign, nextReqId,
    dnM, dnC, upM, upC, asked, initSent, inited, dedup, shown

MCLane == [f \in Frame |-> IF f = c1 THEN "ctrl" ELSE "mcp"]
MCSize == [f \in Frame |-> CASE f = m1 -> 1 [] f = huge -> SizeCap + 1 [] OTHER -> 0]
MCFault == [x \in Alien |-> IF x = x1 THEN "length" ELSE "type"]

MCNotifOf == [c \in Call |-> IF c = b1 THEN n2 ELSE n1]

Uds == INSTANCE UdsDelivery

ASSUME DeliveryAssume == Uds!UdsDeliveryAssumption

-----------------------------------------------------------------------------
deliveryVars == <<phase, epoch, mcpBuffer, served, call, chain, flushed, pending, order, sign,
                  nextReqId, dnM, dnC, upM, upC, asked, initSent, inited, dedup, shown>>

MCInit == scene \in {"frames", "delivery", "deliveryFair"} /\ Init /\ Uds!Init

MCNext ==
    /\ UNCHANGED scene
    /\ \/ scene = "frames" /\ Next /\ UNCHANGED deliveryVars
       \/ /\ scene # "frames" /\ Uds!Next /\ UNCHANGED vars
          /\ scene = "deliveryFair" => call'[a2] = "none"

D == scene = "deliveryFair"

\* The fairness of each component, in its scene.
MCFairness ==
    /\ WF_vars(scene = "frames" /\ Progress) /\ WF_vars(scene = "frames" /\ Close)
    /\ WF_vars(scene = "frames" /\ Route) /\ WF_vars(scene = "frames" /\ IdleTimeout)
    /\ WF_deliveryVars(D /\ Uds!ServerUp) /\ WF_deliveryVars(D /\ Uds!EnterSession)
    /\ WF_deliveryVars(D /\ Uds!ReadMcp) /\ WF_deliveryVars(D /\ Uds!StartInject)
    /\ WF_deliveryVars(D /\ Uds!Flushed) /\ WF_deliveryVars(D /\ Uds!AckTimeout)
    /\ WF_deliveryVars(D /\ Uds!Teardown)
    /\ WF_deliveryVars(D /\ \E g \in 1..MaxSign : Uds!SignTimeout(g))
    /\ WF_deliveryVars(D /\ Uds!ClientInitialize)
    /\ WF_deliveryVars(D /\ Uds!ClientInitialized)
    /\ WF_deliveryVars(D /\ Uds!ShimResult) /\ WF_deliveryVars(D /\ Uds!ShimNotif)

MCSpec == MCInit /\ [][MCNext]_<<scene, vars, deliveryVars>> /\ MCFairness

-----------------------------------------------------------------------------
\* A control frame overtakes the MCP frames that wait, and a drain() that resolved wrote the
\* whole frame.
FramesSafe == CtrlOvertakes /\ FlushMeansWritten

\* A delivery that is acknowledged was shown, once, after the handshake, in order; a signature
\* is the one of its request.
DeliverySafe ==
    /\ Uds!DeliveredWasShown /\ Uds!ShownOnce /\ Uds!AfterHandshake
    /\ Uds!DeliveredInOrder /\ Uds!SignatureIsOurs

\* Every drain() settles and a peer that dribbles does not hold the buffer for ever; every
\* inject() and every externalSign() settles: by its answer, its timer or the teardown.
SocketSettles == (scene = "frames" => SendSettles /\ ReadProgress) /\ (D => Uds!CallsSettle)
=============================================================================
