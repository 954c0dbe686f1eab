------------------------------ MODULE MCCodex ------------------------------
(* Codex jobs, in three scenes: the write windows and thread keys of builds, the gateway that   *)
(* runs jobs and sessions on an app-server, and the fusion panel that asks two gateways and a   *)
(* judge.  The components that are not on stage wait in an initial state.                       *)
EXTENDS CodexBuild

CONSTANTS
    Req, GLoads, Attr, GKey, Ctx, Sid, CacheMax, GMaxFault,
    Jobs, Base, RefBytes, Mark, Preview, BodyCap, MaxFaults

VARIABLES
    scene,
    inq, busy, gpc, rpc, th, tn, cache, sth, act, byThread, pend, hdl, fin, thr, turn, ap, apid,
    slot, clock, out, chunk, said, blob, gFaults,
    job, fpc, leg, pending, timer, bus, replies, opening, ans, took, reply, blobs, orphans, sent,
    unput, undel, doubt, fFaults

Gateway == INSTANCE CodexGateway
               WITH pc <- gpc, faults <- gFaults, Loads <- GLoads, Key <- GKey,
                    MaxFault <- GMaxFault
Fusion  == INSTANCE FusionService WITH pc <- fpc, out <- reply, faults <- fFaults

ASSUME GatewayAssume == Gateway!GatewayAssumption
ASSUME FusionAssume == Fusion!FusionAssumption

-----------------------------------------------------------------------------
\* Two builds on one worktree, one of which may crash, beside a gateway; a build beside gateways
\* that decide on jobs of two requesters with one thread key; and two gateways.
MCCwd == [p \in Proc |-> "w1"]
MCThreadKey == [j \in Job |-> "k1"]
MCFrom == [j1 |-> "pm", j2 |-> "dev", j3 |-> "pm"]
MCLoads == {{"c1", "c2", "j1"}, {"c1", "j1", "j2"}, {"j1", "j3"}}

\* Jobs that share a thread key, in one context and in two; a job beside every session request,
\* with two approvals that may share an id, and beside a session's turn; session requests of the
\* bus and of the HTTP gateway; a job beside a turn that another request steers or interrupts.
Request(kind, ops, key, ctx, ref, asks) ==
    [kind |-> kind, ops |-> ops, key |-> key, ctx |-> ctx, sid |-> "s1", ref |-> ref, asks |-> asks]
AnyOp == {"create", "input", "steer", "inject", "interrupt"}
MCAttr ==
    [r \in Req |->
        CASE r = "j1" -> Request("job", {}, "k1", "ro", FALSE, FALSE)
          [] r = "j2" -> Request("job", {}, "k1", "ro", TRUE, TRUE)
          [] r = "j3" -> Request("job", {}, "k1", "rw", FALSE, FALSE)
          [] r = "i1" -> Request("bus", AnyOp, "k2", "ro", FALSE, TRUE)
          [] r = "h1" -> Request("http", AnyOp, "k2", "ro", FALSE, FALSE)
          [] r = "i2" -> Request("bus", {"input"}, "k2", "ro", FALSE, FALSE)
          [] r = "h2" -> Request("http", {"input", "interrupt"}, "k2", "ro", FALSE, FALSE)]
MCGLoads == {{"j1", "j2"}, {"j1", "j3"}, {"j2", "i1"}, {"j2", "i2"}, {"i1", "h1"},
             {"j1", "i2", "h2"}}

\* Fusion jobs with and without a shared input, with small and large answers.
Sizes(judge, opus, gpt) == [judge |-> judge, opus |-> opus, gpt |-> gpt]
PanelJob(input, only, size) == [input |-> input, only |-> only, size |-> size]
MCJobs == {PanelJob("empty", FALSE, Sizes(2, 2, 2)), PanelJob("ref", FALSE, Sizes(2, 2, 2)),
           PanelJob("inline", FALSE, Sizes(8, 8, 8)), PanelJob("inline", TRUE, Sizes(3, 8, 12))}

-----------------------------------------------------------------------------
gatewayVars == <<inq, busy, gpc, rpc, th, tn, cache, sth, act, byThread, pend, hdl, fin, thr, turn,
                 ap, apid, slot, clock, out, chunk, said, blob, gFaults>>
fusionVars == <<job, fpc, leg, pending, timer, bus, replies, opening, ans, took, reply, blobs,
                orphans, sent, unput, undel, doubt, fFaults>>

MCInit ==
    /\ scene \in {"build", "gateway", "fusion"}
    /\ Init /\ Gateway!Init /\ Fusion!Init
    /\ scene # "build" => pc["c1"] = "absent" /\ pc["c2"] = "absent"
    /\ scene # "gateway" => gpc["j1"] # "absent" /\ gpc["j2"] # "absent"
    /\ scene # "fusion" => job.input = "empty"

MCNext ==
    /\ UNCHANGED scene
    /\ \/ /\ scene = "build" /\ Next /\ UNCHANGED <<gatewayVars, fusionVars>>
          /\ pc["c2"] # "absent" => faults' <= 1
       \/ scene = "gateway" /\ Gateway!Next /\ UNCHANGED <<vars, fusionVars>>
       \/ scene = "fusion" /\ Fusion!Next /\ UNCHANGED <<vars, gatewayVars>>

\* The smaller loads of each scene are checked under fairness too: a build that may crash beside
\* two decisions, jobs beside another job or a session, a panel with a claim-checked input.
FairBuild == scene = "build" /\ pc["c2"] = "absent"
FairGateway == scene = "gateway" /\ \A r \in {"i1", "h1", "h2"} : gpc[r] = "absent"
FairFusion == scene = "fusion" /\ job.input = "ref"

\* The fairness of each component, on these loads.
MCFairness ==
    /\ \A p \in Proc : WF_vars(FairBuild /\ Step(p))
    /\ \A c \in Client : /\ WF_vars(FairBuild /\ TtlPasses(c))
                         /\ WF_vars(FairBuild /\ FinishBuild(c))
    /\ WF_gatewayVars(FairGateway /\ Gateway!Step)
    /\ WF_fusionVars(FairFusion /\ Fusion!Handler)
    /\ WF_fusionVars(FairFusion /\ Fusion!LegGoesOn)

MCSpec == MCInit /\ [][MCNext]_<<scene, vars, gatewayVars, fusionVars>> /\ MCFairness

-----------------------------------------------------------------------------
\* Every build and decision ends and leaves no path writable but one that lost its expiry.
BuildsEnd == FairBuild => WindowsClose

\* The gateway: a job runs on a thread of its own context and alone, a reply with a dangling
\* reference is contradicted, the app-server hears accept of an approval only when its id was
\* accepted, and a session's active turn is of its own thread.
GatewaySafe ==
    /\ Gateway!JobThreadFits /\ Gateway!DanglingRefIsTold
    /\ Gateway!AcceptWasGranted /\ Gateway!ActiveTurnOnThread

\* Every job is answered in the end: by the gateway, even when its turn never ends or waits for
\* an approval queued behind it, and by the panel, whatever the gateways do.
JobsAnswered ==
    /\ FairGateway => Gateway!JobAnswered
    /\ FairFusion => Fusion!Answered

\* The panel: a reply that a leg took is what it reports, an accepted reply is whole but for a field
\* that Redis did not take, and a refused one leaves nothing in Redis that a DEL could remove.
FusionSafe == Fusion!TakenReplyCounts /\ Fusion!Lossless
=============================================================================
