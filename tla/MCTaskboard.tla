---------------------------- MODULE MCTaskboard ----------------------------
(* The way of a task-board event, in two scenes: the bridge that takes webhooks to the stream,  *)
(* and the dispatcher that takes them from there.  For the bridge: two genuine copies of an     *)
(* event, one of another, and two webhooks that must not get through.  For the dispatcher: one  *)
(* event delivered twice with crashes, and pairs of events with failing task-board calls, their *)
(* replies handled in any order.                                                                *)
EXTENDS TaskboardDispatcher, TLC

CONSTANTS e1, e2, e3, r1, r2, r3, r4, r5, Req, Webhook, Ids, MaxOutage, MaxSlide, MaxDelete

VARIABLES scene, req, ready, stream, up, stored, window, era, outages, slides, deletes

-----------------------------------------------------------------------------
(* Events for the dispatcher. *)

B(v) == [verdict |-> v, sha |-> FALSE]
Started == [type |-> "status_changed", from |-> "other", to |-> "in progress",
            request |-> FALSE, target |-> FALSE, task |-> TRUE, sha |-> TRUE, token |-> TRUE,
            blocks |-> <<>>]
ReviewAsked == [Started EXCEPT !.type = "review_requested", !.request = TRUE, !.target = TRUE,
                               !.blocks = <<B("unknown"), B("CHANGES_REQUESTED"), B("APPROVED")>>]
Unconfigured == [ReviewAsked EXCEPT !.target = FALSE]
Bare == [ReviewAsked EXCEPT !.sha = FALSE, !.blocks = <<B("COMMENT")>>]

L(attr, deliver, crash, list, lo, fails) ==
    [attr |-> attr, maxDeliver |-> deliver, maxCrash |-> crash, maxListFaults |-> list,
     maxLost |-> lo, boardFails |-> fails]
Pair(a, b) == (e1 :> a @@ e2 :> b)

NoTask == [Started EXCEPT !.task = FALSE]
\* Checked under fairness too: a redelivery with a crash, a failed listing, a failing task board
\* and a refused send.
FairLoads ==
    {L((e1 :> NoTask), 2, 1, 0, 0, FALSE), L((e1 :> Started), 2, 0, 1, 0, FALSE),
     L((e1 :> ReviewAsked), 1, 1, 1, 0, FALSE), L((e1 :> Bare), 2, 0, 0, 0, TRUE),
     L(Pair(Bare, Unconfigured), 1, 0, 0, 1, TRUE)}
MCLoads ==
    FairLoads
    \cup {L((e1 :> Started), 2, 1, 0, 0, FALSE), L(Pair(NoTask, Started), 1, 0, 0, 0, FALSE)}
    \cup {L((e1 :> a), 2, 0, 0, 0, FALSE) :
              a \in {[Bare EXCEPT !.token = FALSE], [Bare EXCEPT !.blocks = <<>>],
                     [Bare EXCEPT !.blocks[1].sha = TRUE], ReviewAsked,
                     [Started EXCEPT !.type = "garbage"], [Started EXCEPT !.from = "in progress"]}}
MCQuiet == {L((e1 :> Started), 1, 0, 0, 0, FALSE)}

-----------------------------------------------------------------------------
(* Webhooks for the bridge. *)

Good(e) == [ev |-> e, header |-> TRUE, signature |-> "good", timestamp |-> "fresh",
            delivery |-> TRUE, json |-> TRUE, payload |-> TRUE, sameType |-> TRUE]
MCWebhook ==
    [r \in {r1, r2, r3, r4, r5} |->
        CASE r \in {r1, r2} -> Good(e1)
          [] r = r3 -> Good(e2)
          [] r = r4 -> [Good(e3) EXCEPT !.timestamp = "stale"]
          [] OTHER -> [Good(e3) EXCEPT !.sameType = FALSE]]

Bridge == INSTANCE TaskboardBridge WITH Attr <- Webhook, Event <- Ids

ASSUME BridgeAssume == Bridge!BridgeAssumption

-----------------------------------------------------------------------------
bridgeVars == <<req, ready, stream, up, stored, window, era, outages, slides, deletes>>

\* The component that is not on stage waits in an initial state.
MCInit ==
    /\ scene \in {"bridge", "dispatcher"}
    /\ Init /\ Bridge!Init
    /\ scene = "bridge" => load = CHOOSE l \in Loads : TRUE
    /\ scene = "dispatcher" => stream

MCNext ==
    /\ UNCHANGED scene
    /\ \/ scene = "bridge" /\ Bridge!Next /\ UNCHANGED vars
       \/ scene = "dispatcher" /\ Next /\ UNCHANGED bridgeVars

OnFair == scene = "dispatcher" /\ load \in FairLoads

\* The fairness of each component, in its scene.
MCFairness ==
    /\ WF_vars(OnFair /\ \E e \in Event : Deliver(e))
    /\ WF_vars(OnFair /\ \E e \in Event : AckWait(e))
    /\ WF_vars(OnFair /\ (Loop \/ ListFails \/ SendFails))
    /\ WF_vars(OnFair /\ Restart)
    /\ \A r \in {r1, r2, r3} :
          /\ WF_bridgeVars(scene = "bridge" /\ Bridge!Post(r))
          /\ WF_bridgeVars(scene = "bridge" /\ (Bridge!Publish(r) \/ Bridge!PublishFails(r)))
    /\ WF_bridgeVars(scene = "bridge" /\ (Bridge!EnsureStream \/ Bridge!EnsureStreamFails))
    /\ WF_bridgeVars(scene = "bridge" /\ Bridge!Recover)

MCSpec == MCInit /\ [][MCNext]_<<scene, vars, bridgeVars>> /\ MCFairness

-----------------------------------------------------------------------------
\* What the bridge stores: every event it accepted, once per duplicate window, genuine ones only.
BridgeSafe == Bridge!BridgeSafe

\* A genuine webhook is accepted in the end, whatever outages it meets, and an event to dispatch
\* is sent in the end or the broker gave it up.
EventsGetThrough ==
    /\ OnFair => EventuallySent
    /\ scene = "bridge" => Bridge!EventuallyAccepted
=============================================================================
