--------------------------- MODULE FusionService ---------------------------
(***************************************************************************)
(* fusion_service.ts, the standing panel: a request is sent to two model   *)
(* gateways at once, their answers go to a judge (the first gateway again), *)
(* and the fused answer is fitted into one reply.  A leg is one dispatch:   *)
(* its entry in pendingClaude / pendingCodex and its timer are made before  *)
(* the prompt is claim-checked and sent, so answer, timeout, refusal and a  *)
(* late answer race.  Texts are their sizes in bytes.  The gateways, Redis  *)
(* and the bus are external; their faults draw on one budget.  A call that  *)
(* times out may have been executed.                                        *)
(***************************************************************************)
EXTENDS Integers, Sequences, FiniteSets, FiniteSetsExt, SequencesExt

CONSTANTS Jobs,         \* job tables: records [input, only, size], one per behaviour
          Base,         \* bytes of the completed reply around its texts
          RefBytes,     \* bytes a reference adds to it
          Mark,         \* bytes of a truncation marker
          Preview,      \* bytes of a marked preview's head (512 in the code)
          BodyCap,      \* a2a.getMaxSendBytes()
          MaxFaults     \* bound: failed Redis calls, refused sends, failed or lost gateway jobs

Leg == {"opus", "gpt", "judge"}

FusionAssumption ==
    /\ {Base, RefBytes, Mark, Preview, BodyCap, MaxFaults} \subseteq Nat
    /\ \A j \in Jobs : j.size \in [Leg -> Nat]

VARIABLES job,      \* the job this behaviour is about
          pc,       \* where the background handler of the job is
          leg,      \* [Leg -> "off", "build", "send", "sent", "over"]: the dispatch's own code
          pending,  \* the legs in pendingClaude / pendingCodex
          timer,    \* the legs whose timeout has not fired
          bus,      \* requests the gateways have and not yet answered
          replies,  \* gateway answers on their way: records [leg, ok]
          opening,  \* legs whose reply was taken and whose blob is being fetched (resolveRef)
          ans,      \* [Leg -> its outcome, as a sequence of at most one]
          took,     \* history: the legs that accepted a gateway's reply
          out,      \* the reply being fitted: [size, refs, todo, cut], todo the fields not yet
                    \* looked at, cut the one that is truncated
          blobs,    \* fields whose output blob is in Redis
          orphans,  \* fields with a blob in Redis that nobody refers to
          sent,     \* what of the replies has reached the bus
          unput, undel,  \* history: fields whose SET, and whose DEL, was not confirmed
          doubt,    \* history: a send has come out otherwise than its result says
          faults

vars == <<job, pc, leg, pending, timer, bus, replies, opening, ans, took, out,
          blobs, orphans, sent, unput, undel, doubt, faults>>

Fault == faults < MaxFaults /\ faults' = faults + 1
Off == [l \in Leg |-> 0]

Init ==
    /\ job \in Jobs /\ pc = "new"
    /\ leg = [l \in Leg |-> "off"] /\ pending = {} /\ timer = {} /\ bus = {} /\ replies = {}
    /\ opening = {} /\ ans = [l \in Leg |-> <<>>] /\ took = {}
    /\ out = [size |-> Off, refs |-> {}, todo |-> {}, cut |-> {}]
    /\ blobs = {} /\ orphans = {} /\ unput = {} /\ undel = {}
    /\ sent = <<>> /\ doubt = FALSE
    /\ faults = 0

legVars == <<leg, pending, timer, bus, replies, opening, ans, took>>
sendVars == <<sent, doubt>>
blobVars == <<blobs, orphans, unput, undel>>
outVars == <<out, blobVars, sendVars>>

\* claudeGw / codexGpt55 up to their first await: register, arm the timer, build the request.
Dispatch(L) ==
    /\ leg' = [l \in Leg |-> IF l \in L THEN "build" ELSE leg[l]]
    /\ pending' = pending \cup L /\ timer' = timer \cup L

-----------------------------------------------------------------------------
(* onInbound and runFusion *)

\* A request: an empty prompt or an input that cannot be read fails the job.
Request ==
    /\ pc = "new"
    /\ IF job.input = "empty" THEN pc' = "fit" /\ UNCHANGED <<leg, pending, timer>>
       ELSE IF job.input = "ref" THEN pc' = "input" /\ UNCHANGED <<leg, pending, timer>>
       ELSE pc' = "panel" /\ Dispatch({"opus", "gpt"})
    /\ UNCHANGED <<job, bus, replies, opening, ans, took, outVars, faults>>

\* getBlob of the shared input.
Input(ok) ==
    /\ pc = "input"
    /\ IF ok THEN pc' = "panel" /\ Dispatch({"opus", "gpt"}) /\ UNCHANGED faults
       ELSE pc' = "fit" /\ UNCHANGED <<leg, pending, timer>> /\ Fault
    /\ UNCHANGED <<job, bus, replies, opening, ans, took, outVars>>

Resolved(l) == leg[l] = "over" /\ ans[l] # <<>>

\* Promise.all of the panel: straight to the reply (panel_only), or to the judge.
PanelDone ==
    /\ pc = "panel" /\ Resolved("opus") /\ Resolved("gpt")
    /\ IF job.only THEN pc' = "fit" /\ UNCHANGED <<leg, pending, timer>>
       ELSE pc' = "judging" /\ Dispatch({"judge"})
    /\ UNCHANGED <<job, bus, replies, opening, ans, took, outVars, faults>>

JudgeDone ==
    /\ pc = "judging" /\ Resolved("judge")
    /\ pc' = "fit"
    /\ UNCHANGED <<job, legVars, outVars, faults>>

-----------------------------------------------------------------------------
(* One dispatch *)

\* resolve(): the first call counts.
settle(l, what) == ans' = IF ans[l] = <<>> THEN [ans EXCEPT ![l] = <<what>>] ELSE ans

\* Mutant of Built: a failed claim check drops the entry and goes on to wait for the answer.
BuiltWaits(l, ok) ==
    /\ leg[l] = "build"
    /\ IF ok THEN leg' = [leg EXCEPT ![l] = "send"] /\ UNCHANGED <<pending, faults>>
       ELSE Fault /\ leg' = [leg EXCEPT ![l] = "over"] /\ pending' = pending \ {l}
    /\ UNCHANGED <<job, pc, timer, bus, replies, opening, ans, took, outVars>>

\* buildClaimCheckedInput ends; a failed claim check ends the leg with an explanation.
Built(l, ok) ==
    /\ leg[l] = "build"
    /\ IF ok THEN leg' = [leg EXCEPT ![l] = "send"] /\ UNCHANGED <<pending, ans, faults>>
       ELSE /\ Fault
            /\ leg' = [leg EXCEPT ![l] = "over"] /\ pending' = pending \ {l}
            /\ ans' = [ans EXCEPT ![l] = <<"claim_failed">>]  \* returned, whatever done holds
    /\ UNCHANGED <<job, pc, timer, bus, replies, opening, took, outVars>>

\* The request is published; the gateway has it even when the send's result says otherwise.
Publish(l) ==
    /\ leg[l] = "send" /\ leg' = [leg EXCEPT ![l] = "sent"] /\ bus' = bus \cup {l}
    /\ UNCHANGED <<job, pc, pending, timer, replies, opening, ans, took, outVars, faults>>

\* The result of the send: refused (delivered or not), or the promise `done` is returned.
Dispatched(l, ok) ==
    /\ leg[l] = "sent" \/ (leg[l] = "send" /\ ~ok)
    /\ leg' = [leg EXCEPT ![l] = "over"]
    /\ IF ok THEN UNCHANGED <<pending, ans, faults>>
       ELSE Fault /\ pending' = pending \ {l} /\ ans' = [ans EXCEPT ![l] = <<"rejected">>]
    /\ UNCHANGED <<job, pc, timer, bus, replies, opening, took, outVars>>

\* The gateway answers, or the job is lost on its side.
GatewayAnswers(l, what) ==
    /\ l \in bus /\ bus' = bus \ {l}
    /\ IF what = "lost" THEN Fault /\ UNCHANGED replies
       ELSE replies' = replies \cup {[leg |-> l, kind |-> what]} /\ UNCHANGED faults
    /\ UNCHANGED <<job, pc, leg, pending, timer, opening, ans, took, outVars>>

\* Mutant of ReplyIn: the entry stays in the map until the blob has been fetched.
ReplyInKeepsPending(r) ==
    /\ r \in replies
    /\ replies' = replies \ {r}
    /\ IF r.leg \notin pending THEN UNCHANGED <<pending, opening, ans>>
       ELSE IF r.kind = "ref" THEN opening' = opening \cup {r.leg} /\ UNCHANGED <<pending, ans>>
       ELSE pending' = pending \ {r.leg} /\ settle(r.leg, r.kind) /\ UNCHANGED opening
    /\ took' = IF r.leg \in pending THEN took \cup {r.leg} ELSE took
    /\ UNCHANGED <<job, pc, leg, timer, bus, outVars, faults>>

\* A gateway's reply: only a leg that is still pending takes it, and it is pending no more
\* before the reply's blob is awaited.
ReplyIn(r) ==
    /\ r \in replies
    /\ replies' = replies \ {r}
    /\ IF r.leg \notin pending THEN UNCHANGED <<pending, opening, ans>>
       ELSE /\ pending' = pending \ {r.leg}
            /\ IF r.kind = "ref" THEN opening' = opening \cup {r.leg} /\ UNCHANGED ans
               ELSE settle(r.leg, r.kind) /\ UNCHANGED opening
    /\ took' = IF r.leg \in pending THEN took \cup {r.leg} ELSE took
    /\ UNCHANGED <<job, pc, leg, timer, bus, outVars, faults>>

\* resolveRef: the blob, or the inline preview when it is gone.
Opened(l, ok) ==
    /\ l \in opening /\ opening' = opening \ {l}
    /\ IF ok THEN UNCHANGED faults ELSE Fault
    /\ settle(l, IF ok THEN "text" ELSE "preview")
    /\ UNCHANGED <<job, pc, leg, pending, timer, bus, replies, took, outVars>>

\* The 8 h timer: it resolves the leg only if the entry is still there.
Timeout(l) ==
    /\ l \in timer /\ timer' = timer \ {l}
    /\ IF l \in pending THEN pending' = pending \ {l} /\ settle(l, "timeout")
       ELSE UNCHANGED <<pending, ans>>
    /\ UNCHANGED <<job, pc, leg, bus, replies, opening, took, outVars, faults>>

-----------------------------------------------------------------------------
(* fitFusionReply *)

\* The size of a field: the whole answer, or the short text that stands for one.
sizeOf(l) ==
    IF ans[l] = <<>> THEN 0 ELSE IF ans[l][1] = "text" THEN job.size[l] ELSE Min({1, job.size[l]})
measure(o) == Base + RefBytes * Cardinality(o.refs) + MapThenSumSet(LAMBDA l : o.size[l], Leg)

\* The fields of the reply that hold a text.
fields == {l \in Leg : ans[l] # <<>>}

\* bySize: the largest of some fields; of equal ones fused, then the panel in its order.
largest(size, S) ==
    LET rank == [judge |-> 1, opus |-> 2, gpt |-> 3]
    IN  CHOOSE f \in S : \A g \in S \ {f} :
            size[f] > size[g] \/ (size[f] = size[g] /\ rank[f] < rank[g])

\* The reply is measured; one that fits (a failed one always does) is sent as it is.
Measure ==
    /\ pc = "fit"
    /\ LET size == [l \in Leg |-> sizeOf(l)]
           o == [size |-> size, refs |-> {}, todo |-> fields, cut |-> {}]
       IN  IF measure(o) <= BodyCap THEN out' = [o EXCEPT !.todo = {}] /\ pc' = "send"
           ELSE out' = o /\ pc' = "claim"
    /\ UNCHANGED <<job, legVars, blobVars, sendVars, faults>>

marked(n) == IF n > Preview THEN Preview + Mark ELSE n

\* Step 1: the next largest field goes to a blob, until the reply fits or none is left.  A SET
\* that times out may leave a blob under a key that nobody knows.
Claim(ok) ==
    /\ pc = "claim" /\ out.todo # {} /\ measure(out) > BodyCap
    /\ LET f == largest(out.size, out.todo)
       IN  IF ok THEN /\ out' = [out EXCEPT !.size[f] = marked(@), !.refs = @ \cup {f},
                                            !.todo = @ \ {f}]
                      /\ blobs' = blobs \cup {f} /\ UNCHANGED <<orphans, unput, faults>>
           ELSE /\ out' = [out EXCEPT !.todo = @ \ {f}]
                /\ unput' = unput \cup {f} /\ orphans' \in {orphans, orphans \cup {f}}
                /\ Fault /\ UNCHANGED blobs
    /\ UNCHANGED <<job, pc, legVars, undel, sendVars>>

\* Step 2: the largest field, and only that one, is cut to what still fits (nothing, if even
\* the bare marker does not).
Truncate ==
    /\ pc = "claim" /\ (out.todo = {} \/ measure(out) <= BodyCap)
    /\ LET f == largest(out.size, fields)
           cut(n) == [out EXCEPT !.size[f] = n + Mark, !.cut = {f}]
           fit == {n \in 0..out.size[f] : measure(cut(n)) <= BodyCap}
       IN  out' = IF measure(out) <= BodyCap \/ fields = {} THEN out
                  ELSE cut(IF fit = {} THEN 0 ELSE Max(fit))
    /\ pc' = "send"
    /\ UNCHANGED <<job, legVars, blobVars, sendVars, faults>>

\* The reply: accepted, refused (as one over the cap always is), or stored without the handler
\* hearing of it (publish_failed after the publish timed out).
Reply(how) ==
    /\ pc = "send"
    /\ how # "refused" => measure(out) <= BodyCap
    /\ IF how = "accepted" \/ measure(out) > BodyCap THEN UNCHANGED faults ELSE Fault
    /\ sent' = IF how = "refused" THEN sent ELSE Append(sent, "reply")
    /\ doubt' = (how = "stored")
    /\ pc' = IF how = "accepted" THEN "done" ELSE "cleanup"
    /\ UNCHANGED <<job, legVars, out, blobVars>>

\* Mutant of Cleanup: the blobs of a refused reply stay.
CleanupKeeps == pc = "cleanup" /\ pc' = "failing" /\ UNCHANGED <<job, legVars, outVars, faults>>

\* Every blob of a refused reply is deleted: each DEL is executed, or it times out, executed or not.
Cleanup ==
    /\ pc = "cleanup" /\ pc' = "failing"
    /\ \E lost \in SUBSET out.refs :
          /\ faults' = faults + Cardinality(lost) /\ faults' <= MaxFaults
          /\ undel' = lost
          /\ \E kept \in SUBSET lost : blobs' = blobs \ (out.refs \ kept)
    /\ UNCHANGED <<job, legVars, out, orphans, unput, sendVars>>

\* The failed reply goes out, or not.
Failed(ok) ==
    /\ pc = "failing" /\ pc' = "failed"
    /\ IF ok THEN sent' = Append(sent, "failed") /\ UNCHANGED <<doubt, faults>>
       ELSE UNCHANGED sent /\ doubt' = TRUE /\ Fault
    /\ UNCHANGED <<job, legVars, out, blobVars>>

LegStep(l) ==
    \/ \E ok \in BOOLEAN : Built(l, ok) \/ Dispatched(l, ok) \/ Opened(l, ok)
    \/ Publish(l) \/ Timeout(l)
    \/ \E what \in {"text", "ref", "failed", "lost"} : GatewayAnswers(l, what)
Handler ==
    \/ Request \/ PanelDone \/ JudgeDone \/ Measure \/ Truncate \/ Cleanup
    \/ \E ok \in BOOLEAN : Input(ok) \/ Claim(ok) \/ Failed(ok)
    \/ \E how \in {"accepted", "refused", "stored"} : Reply(how)

Next == Handler \/ (\E l \in Leg : LegStep(l)) \/ \E r \in replies : ReplyIn(r)

Spec == Init /\ [][Next]_vars

\* What a leg does by itself: its calls return and its timer fires.
LegGoesOn ==
    \E l \in Leg : Timeout(l) \/ \E ok \in BOOLEAN : Built(l, ok) \/ Publish(l)
                        \/ Dispatched(l, ok) \/ Opened(l, ok)

\* The handler runs on, dispatches and timers fire: no gateway has to answer.
FairSpec == Spec /\ WF_vars(Handler) /\ WF_vars(LegGoesOn)

-----------------------------------------------------------------------------
(* Properties *)

\* A reply that a leg took is what the leg reports: it cannot turn into a timeout while its blob
\* is fetched.  (A refused send may hide it: the refusal is reported.)
TakenReplyCounts == \A l \in took : ans[l] # <<"timeout">>

\* A reply that was accepted is whole: a field that was shortened has its blob in Redis, but for at
\* most one, which is cut because its own SET failed.  After a reply that was not accepted nothing
\* is left in Redis but what a SET or a DEL without an answer leaves.  And the requester gets one
\* answer, unless a send came out otherwise than its result says: a reply stored after the publish
\* timed out is contradicted by the failed one, and its references may dangle.
Lossless ==
    /\ pc = "done" =>
          \A l \in Leg : out.size[l] < sizeOf(l) =>
              l \in out.refs \cap blobs \/ (l \in unput /\ out.cut = {l})
    /\ pc = "failed" => blobs \subseteq undel /\ orphans \subseteq unput
    /\ pc \in {"done", "failed"} /\ ~doubt => Len(sent) = 1

\* The panel always comes to an end: whatever the gateways do, the requester is answered.
Answered == <>(pc \in {"done", "failed"})

=============================================================================
