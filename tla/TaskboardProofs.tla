-------------------------- MODULE TaskboardProofs --------------------------
(***************************************************************************)
(* OneJobOneRun, OutcomeIsTheGateways and VerdictBeforeSuccess for any     *)
(* events, any bounds on deliveries, crashes and faults, and replies       *)
(* handled in any order; BridgeSafe for any webhooks.                      *)
(***************************************************************************)
EXTENDS MCTaskboard, TLAPS, WellFoundedInduction

Working == PC \ {"down", "idle"}

\* A run, job or reply has this history whatever happens to it later.
WasSent(e) == \E i \in SentJobs(e) : ~jobs[i].lost
JustSent == jobs # <<>> /\ jobs[Len(jobs)].ev = cur /\ ~jobs[Len(jobs)].lost

(* The loop: what is marked or acked was sent; what this life of the process sent is marked or *)
(* is about to be; an event that is processed is not marked; a run is created only when there  *)
(* is none.                                                                                    *)
SentInv ==
    /\ \A e \in Dispatchable : broker[e] = "acked" \/ e \in seen => WasSent(e)
    /\ pc \in {"spawning", "mark"} => JustSent
    /\ \A e \in Event : broker[e] = "ready" => deliveries[e] < load.maxDeliver
LifeInv ==
    /\ pc \in Working => cur \notin seen
    /\ \A i \in DOMAIN jobs : jobs[i].life <= crashes
    /\ \A i \in DOMAIN jobs :
          jobs[i].life = crashes /\ ~jobs[i].lost =>
              jobs[i].ev \in seen \/ (pc \in {"spawning", "mark"} /\ cur = jobs[i].ev)
    /\ SentTwiceOnlyAfterFailure
RunInv ==
    /\ pc = "create" => RunsOf(cur) = {}
    /\ run # 0 => pc \in Working /\ runs[run].ev = cur
    /\ pc \in {"dispatching", "preflight", "spawning"} => run # 0
    /\ OneRunPerEvent
LoopInv == SentInv /\ LifeInv /\ RunInv

(* The replies: a reply in the inbox or in a handler is one the gateway gave, a pending record *)
(* and a handler know a run of their own event, and a handler that is past the write-back of a *)
(* review has done it.                                                                         *)
Given(i, kind) ==
    /\ i \in DOMAIN jobs
    /\ kind \in Final => jobs[i].gw = kind
RunFits(r, e) == r \in DOMAIN runs /\ runs[r].ev = e

\* What VerdictBeforeSuccess asks of a write-back for event e.
Taken(w, e) ==
    /\ w.job \in DOMAIN jobs /\ jobs[w.job].ev = e
    /\ w.action = "submitted" => \E n \in DOMAIN Attr[e].blocks :
            normalizeReviewVerdict(Attr[e].blocks[n].verdict) = w.verdict
    /\ w.action = "skipped" =>
            \/ ~Attr[e].token
            \/ \A n \in DOMAIN Attr[e].blocks : Attr[e].blocks[n].verdict = "unknown"
    /\ w.action = "failed" => BoardFails
VerdictTaken(e) == \E w \in written : Taken(w, e)

ReplyOK(m) == Given(m.job, m.kind)
PendingOK(p) == p.run # 0 => RunFits(p.run, p.ev)
CorrOK(p) == PendingOK(p) /\ p.corr \in DOMAIN jobs /\ jobs[p.corr].ev = p.ev
HandlerOK(h) ==
    /\ Given(h.job, h.kind)
    /\ h.at # "find" => RunFits(h.run, EvOf(h))
    /\ h.at \in {"running", "commit", "submit"} => h.kind = "completed"
    /\ h.at \in {"final", "comment"} => h.kind \in Final
    /\ h.at \in {"commit", "submit"} => EvOf(h) \in Review /\ Extracted(h).verdict # None
    /\ h.at \in {"final", "comment"} /\ h.kind = "completed" /\ EvOf(h) \in Review =>
            VerdictTaken(EvOf(h))
RunOK(r) ==
    /\ runs[r].status \in Terminal =>
          \E i \in SentJobs(runs[r].ev) :
              jobs[i].gw \in Final /\ FinalStatus(jobs[i].gw) = runs[r].status
    /\ runs[r].ev \in Review /\ runs[r].status = "succeeded" => VerdictTaken(runs[r].ev)

ReplyInv ==
    /\ \A m \in DOMAIN inbox : ReplyOK(inbox[m])
    /\ \A p \in byJob : PendingOK(p)
    /\ \A p \in byCorr : CorrOK(p)
    /\ \A h \in handlers : HandlerOK(h)
    /\ \A r \in DOMAIN runs : RunOK(r)

Inv == TypeOK /\ LoopInv /\ ReplyInv

LEMMA InvSafe == Inv => OneJobOneRun /\ OutcomeIsTheGateways /\ VerdictBeforeSuccess
<1> SUFFICES ASSUME Inv PROVE OneJobOneRun /\ OutcomeIsTheGateways /\ VerdictBeforeSuccess
    OBVIOUS
<1>1. AckedWasSent
    BY DEF Inv, LoopInv, SentInv, WasSent, AckedWasSent
<1>2. OneJobOneRun
    BY <1>1 DEF Inv, LoopInv, LifeInv, RunInv, OneJobOneRun
<1>3. OutcomeIsTheGateways
    BY DEF Inv, ReplyInv, RunOK, OutcomeIsTheGateways
<1>4. VerdictBeforeSuccess
    BY DEF Inv, ReplyInv, RunOK, VerdictTaken, Taken, VerdictBeforeSuccess
<1> QED BY <1>2, <1>3, <1>4

------------------------------------------------------------------------------
(* What the loads and the write-back are made of.                           *)

LEMMA LoadFacts ==
    ASSUME load \in Loads
    PROVE  /\ \A e \in Event : Attr[e] \in AttrRec
           /\ \A e \in Event : Attr[e].request => Attr[e].type = "review_requested"
           /\ load.maxDeliver \in Nat \ {0}
           /\ load.maxCrash \in Nat /\ load.maxListFaults \in Nat /\ load.maxLost \in Nat
           /\ BoardFails \in BOOLEAN
BY LoadsAssumption DEF Event, Attr, BoardFails

LEMMA Least == ASSUME NEW S \in SUBSET Nat, S # {} PROVE \E n \in S : \A k \in S : n <= k
<1> DEFINE R == OpToRel(<, Nat)
<1>1. R = {p \in Nat \X Nat : p[1] < p[2]}
    BY DEF OpToRel
<1>2. IsWellFoundedOn(R, Nat)
    BY NatLessThanWellFounded
<1> HIDE DEF R
<1>3. PICK x \in S : \A y \in S : <<y, x>> \notin R
    BY <1>2, WFMin
<1>4. ASSUME NEW y \in S PROVE x <= y
    <2>1. <<y, x>> \notin {p \in Nat \X Nat : p[1] < p[2]}
        BY <1>1, <1>3
    <2>2. ~(y < x)
        BY <2>1
    <2> QED BY <2>2
<1> QED BY <1>4

\* The verdict that is extracted is one of the blocks', and there is none only if no block has one.
LEMMA ExtractFacts ==
    ASSUME NEW blocks \in Seq(Block)
    PROVE  LET x == extractTaskboardReviewResult(blocks) IN
           /\ x.verdict \in Verdict \cup {None} /\ x.sha \in BOOLEAN
           /\ x.verdict # None =>
                 \E n \in DOMAIN blocks : normalizeReviewVerdict(blocks[n].verdict) = x.verdict
           /\ x.verdict = None => \A n \in DOMAIN blocks : blocks[n].verdict = "unknown"
<1> DEFINE good == {n \in DOMAIN blocks : normalizeReviewVerdict(blocks[n].verdict) # None}
           first == CHOOSE n \in good : \A k \in good : n <= k
           x == extractTaskboardReviewResult(blocks)
<1>1. \A n \in DOMAIN blocks : blocks[n] \in Block
    OBVIOUS
<1>2. \A n \in DOMAIN blocks : normalizeReviewVerdict(blocks[n].verdict) \in Verdict \cup {None}
    BY <1>1 DEF normalizeReviewVerdict, Verdict, Block
<1>3. CASE good = {}
    <2>1. x = [verdict |-> None, sha |-> FALSE]
        BY <1>3 DEF extractTaskboardReviewResult
    <2>2. ASSUME NEW n \in DOMAIN blocks PROVE blocks[n].verdict = "unknown"
        <3>1. normalizeReviewVerdict(blocks[n].verdict) = None
            BY <1>3
        <3> QED BY <1>1, <3>1 DEF normalizeReviewVerdict, Block, None
    <2> QED BY <2>1, <2>2
<1>4. CASE good # {}
    <2>1. good \in SUBSET Nat
        OBVIOUS
    <2>2. \E n \in good : \A k \in good : n <= k
        BY <1>4, <2>1, Least
    <2>3. first \in good
        BY <2>2
    <2>4. x = [verdict |-> normalizeReviewVerdict(blocks[first].verdict), sha |-> blocks[first].sha]
        BY <1>4 DEF extractTaskboardReviewResult
    <2> HIDE DEF first, x
    <2>5. first \in DOMAIN blocks /\ blocks[first].sha \in BOOLEAN
        BY <1>1, <2>3 DEF Block
    <2>6. x.verdict = normalizeReviewVerdict(blocks[first].verdict) /\ x.sha = blocks[first].sha
        BY <2>4
    <2>7. x.verdict \in Verdict \cup {None} /\ x.sha \in BOOLEAN /\ x.verdict # None
        BY <1>2, <2>3, <2>5, <2>6
    <2>8. \E n \in DOMAIN blocks : normalizeReviewVerdict(blocks[n].verdict) = x.verdict
        BY <2>5, <2>6
    <2> QED BY <2>7, <2>8 DEF x
<1> QED BY <1>3, <1>4

------------------------------------------------------------------------------
(* Steps only add to the history: runs, jobs and write-backs stay what they are, but for the   *)
(* status of a run and an answer that is still to come.                                        *)

LEMMA Same ==
    ASSUME load' = load
    PROVE  /\ Event' = Event /\ Attr' = Attr /\ BoardFails' = BoardFails
           /\ Dispatchable' = Dispatchable /\ Taskless' = Taskless /\ Review' = Review
           /\ RunRec' = RunRec /\ JobRec' = JobRec /\ Pending' = Pending
BY DEF Event, Attr, BoardFails, Dispatchable, Taskless, Review, RunRec, JobRec, Pending,
       shouldDispatchTaskboardEvent, hasTargetAgent

Grown ==
    /\ load' = load
    /\ \A i \in DOMAIN jobs :
          /\ i \in DOMAIN jobs'
          /\ jobs'[i].ev = jobs[i].ev /\ jobs'[i].lost = jobs[i].lost
          /\ jobs'[i].life = jobs[i].life
          /\ jobs[i].gw \in Final => jobs'[i].gw = jobs[i].gw
    /\ \A r \in DOMAIN runs :
          r \in DOMAIN runs' /\ runs'[r].ev = runs[r].ev /\ runs'[r].blind = runs[r].blind
    /\ written \subseteq written'

LEMMA GrownSent ==
    ASSUME Grown, NEW e, WasSent(e)
    PROVE  WasSent(e)'
BY DEF Grown, WasSent, SentJobs

LEMMA GrownVerdict ==
    ASSUME Grown, NEW e, VerdictTaken(e)
    PROVE  VerdictTaken(e)'
<1>1. PICK w \in written : Taken(w, e)
    BY DEF VerdictTaken
<1>2. w \in written' /\ Attr' = Attr /\ BoardFails' = BoardFails
    BY <1>1, Same DEF Grown
<1>3. Taken(w, e)'
    BY <1>1, <1>2 DEF Taken, Grown
<1> QED BY <1>2, <1>3 DEF VerdictTaken

LEMMA GrownReply ==
    ASSUME Grown, NEW i, NEW k, Given(i, k)
    PROVE  Given(i, k)' /\ jobs'[i].ev = jobs[i].ev
BY DEF Grown, Given

LEMMA GrownPending ==
    ASSUME Grown, NEW p
    PROVE  (PendingOK(p) => PendingOK(p)') /\ (CorrOK(p) => CorrOK(p)')
BY DEF Grown, PendingOK, CorrOK, RunFits

LEMMA GrownHandler ==
    ASSUME Grown, NEW h, HandlerOK(h)
    PROVE  HandlerOK(h)'
<1>1. Given(h.job, h.kind)' /\ EvOf(h)' = EvOf(h)
    BY GrownReply DEF HandlerOK, EvOf
<1>2. Review' = Review /\ Attr' = Attr /\ Extracted(h)' = Extracted(h)
    BY <1>1, Same DEF Grown, Extracted
<1>3. h.at # "find" => RunFits(h.run, EvOf(h))'
    BY <1>1 DEF HandlerOK, RunFits, Grown
<1>4. VerdictTaken(EvOf(h)) => VerdictTaken(EvOf(h))'
    <2>1. PICK e : e = EvOf(h)
        OBVIOUS
    <2>2. VerdictTaken(e) => VerdictTaken(e)'
        BY GrownVerdict
    <2> QED BY <1>1, <2>1, <2>2
<1> QED BY <1>1, <1>2, <1>3, <1>4 DEF HandlerOK

LEMMA GrownRun ==
    ASSUME Grown, NEW r \in DOMAIN runs, RunOK(r), runs'[r].status = runs[r].status
    PROVE  RunOK(r)'
<1>0. PICK e : e = runs[r].ev
    OBVIOUS
<1>1. e = runs'[r].ev /\ Review' = Review
    BY <1>0, Same DEF Grown
<1>2. VerdictTaken(e) => VerdictTaken(e)'
    BY GrownVerdict
<1>3. runs[r].status \in Terminal =>
          \E i \in SentJobs(e)' :
              jobs'[i].gw \in Final /\ FinalStatus(jobs'[i].gw) = runs[r].status
    BY <1>0 DEF RunOK, SentJobs, Grown
<1> QED BY <1>0, <1>1, <1>2, <1>3 DEF RunOK

\* It is enough to look at what a step makes new.
LEMMA ReplyKeeps ==
    ASSUME ReplyInv, Grown,
           \A m \in DOMAIN inbox' :
               (\E k \in DOMAIN inbox : inbox[k] = inbox'[m]) \/ ReplyOK(inbox[m])',
           \A p \in byJob' : p \in byJob \/ PendingOK(p)',
           \A p \in byCorr' : p \in byCorr \/ CorrOK(p)',
           \A h \in handlers' : h \in handlers \/ HandlerOK(h)',
           \A r \in DOMAIN runs' :
               \/ r \in DOMAIN runs /\ runs'[r].status = runs[r].status
               \/ runs'[r].status \notin Terminal
               \/ RunOK(r)'
    PROVE  ReplyInv'
<1>1. ASSUME NEW m \in DOMAIN inbox' PROVE ReplyOK(inbox[m])'
    <2>1. CASE \E k \in DOMAIN inbox : inbox[k] = inbox'[m]
        <3>1. PICK k \in DOMAIN inbox : inbox[k] = inbox'[m]
            BY <2>1
        <3>2. Given(inbox[k].job, inbox[k].kind)
            BY DEF ReplyInv, ReplyOK
        <3>3. PICK i, kind : i = inbox[k].job /\ kind = inbox[k].kind
            OBVIOUS
        <3>4. Given(i, kind)'
            BY <3>2, <3>3, GrownReply
        <3> QED BY <3>1, <3>3, <3>4 DEF ReplyOK
    <2> QED BY <2>1, <1>1
<1>2. \A p \in byJob' : PendingOK(p)'
    BY GrownPending DEF ReplyInv
<1>3. \A p \in byCorr' : CorrOK(p)'
    BY GrownPending DEF ReplyInv
<1>4. \A h \in handlers' : HandlerOK(h)'
    BY GrownHandler DEF ReplyInv
<1>5. ASSUME NEW r \in DOMAIN runs' PROVE RunOK(r)'
    <2>1. CASE r \in DOMAIN runs /\ runs'[r].status = runs[r].status
        BY <2>1, GrownRun DEF ReplyInv
    <2>2. CASE runs'[r].status \notin Terminal
        BY <2>2 DEF RunOK, Terminal
    <2> QED BY <2>1, <2>2, <1>5
<1> QED BY <1>1, <1>2, <1>3, <1>4, <1>5 DEF ReplyInv

\* A step beside the loop leaves the loop's invariant alone.
LEMMA LoopKeeps ==
    ASSUME TypeOK, TypeOK', LoopInv, Grown, Len(jobs') = Len(jobs), Len(runs') = Len(runs),
           UNCHANGED <<pc, cur, run, seen, broker, deliveries, crashes>>
    PROVE  LoopInv'
<1>1. /\ Event' = Event /\ Dispatchable' = Dispatchable /\ load' = load
      /\ DOMAIN jobs' = DOMAIN jobs /\ DOMAIN runs' = DOMAIN runs
      /\ DOMAIN jobs = 1 .. Len(jobs) /\ DOMAIN runs = 1 .. Len(runs)
    BY Same DEF TypeOK, Grown
<1>2. \A e \in Dispatchable : WasSent(e) => WasSent(e)'
    BY GrownSent
<1>3. JustSent => JustSent'
    <2>1. ASSUME JustSent PROVE jobs # <<>> /\ jobs' # <<>> /\ Len(jobs) \in DOMAIN jobs
        BY <1>1, <2>1 DEF JustSent, TypeOK
    <2> QED BY <1>1, <2>1 DEF JustSent, Grown
<1>4. SentInv'
    BY <1>1, <1>2, <1>3 DEF LoopInv, SentInv
<1>5. LifeInv'
    BY <1>1 DEF LoopInv, LifeInv, Grown, SentTwiceOnlyAfterFailure
<1>6. RunInv'
    <2>1. pc' = "create" => RunsOf(cur)' = {}
        BY <1>1 DEF LoopInv, RunInv, Grown, RunsOf
    <2>2. run # 0 => runs'[run].ev = runs[run].ev
        BY <1>1 DEF Grown, TypeOK
    <2>3. OneRunPerEvent'
        BY <1>1 DEF LoopInv, RunInv, Grown, OneRunPerEvent
    <2> QED BY <2>1, <2>2, <2>3 DEF LoopInv, RunInv
<1> QED BY <1>4, <1>5, <1>6 DEF LoopInv

\* A step of the broker, or of the loop, that sends nothing and writes nothing.
LEMMA ReplyStays ==
    ASSUME ReplyInv, UNCHANGED <<load, runs, jobs, written, inbox, byJob, byCorr, handlers>>
    PROVE  ReplyInv'
<1>1. Grown
    BY DEF Grown
<1> QED BY <1>1, ReplyKeeps

LEMMA InitInv == Init => Inv
<1> SUFFICES ASSUME Init PROVE Inv
    OBVIOUS
<1>1. load.maxDeliver \in Nat \ {0} /\ load.maxCrash \in Nat /\ load.maxListFaults \in Nat
      /\ load.maxLost \in Nat
    BY LoadFacts DEF Init
<1>2. TypeOK
    BY <1>1 DEF Init, TypeOK, PC
<1>3. LoopInv
    <2>1. SentInv
        BY <1>1 DEF Init, SentInv, Dispatchable
    <2>2. LifeInv /\ RunInv
        BY DEF Init, LifeInv, RunInv, Working, SentTwiceOnlyAfterFailure, OneRunPerEvent
    <2> QED BY <2>1, <2>2 DEF LoopInv
<1>4. ReplyInv
    BY DEF Init, ReplyInv
<1> QED BY <1>2, <1>3, <1>4 DEF Inv

------------------------------------------------------------------------------
(* The broker and the loop.                                                 *)

BrokerState == {"ready", "out", "acked", "exhausted"}

LEMMA RequeuedFacts ==
    ASSUME TypeOK, NEW e \in Event
    PROVE  /\ Requeued(e) \in [Event -> BrokerState]
           /\ \A f \in Event :
                 /\ Requeued(e)[f] = "acked" => f # e /\ broker[f] = "acked"
                 /\ Requeued(e)[f] = "ready" =>
                       (broker[f] = "ready" \/ deliveries[f] < load.maxDeliver)
BY DEF TypeOK, Requeued, BrokerState

LEMMA NakFacts ==
    ASSUME TypeOK, NEW e \in Event, Nak(e)
    PROVE  /\ broker' \in [Event -> BrokerState]
           /\ \A f \in Event :
                 /\ broker'[f] = "acked" => broker[f] = "acked"
                 /\ broker'[f] = "ready" =>
                       (broker[f] = "ready" \/ deliveries[f] < load.maxDeliver)
<1>1. CASE broker[e] = "out"
    BY <1>1, RequeuedFacts DEF Nak
<1>2. CASE broker[e] # "out"
    BY <1>2 DEF Nak, TypeOK, BrokerState
<1> QED BY <1>1, <1>2

LEMMA AckFacts ==
    ASSUME TypeOK, NEW e \in Event, Ack(e)
    PROVE  /\ broker' \in [Event -> BrokerState]
           /\ \A f \in Event :
                 /\ broker'[f] = "acked" => broker[f] = "acked" \/ f = e
                 /\ broker'[f] = "ready" => broker[f] = "ready"
BY DEF TypeOK, Ack, BrokerState

\* Only the broker's view of the messages changes, and the buffer.
LEMMA BrokerInv ==
    ASSUME Inv, broker' \in [Event -> BrokerState], buffer' \in Seq(Event),
           \A f \in Event :
               /\ broker'[f] = "acked" => broker[f] = "acked"
               /\ broker'[f] = "ready" =>
                     (broker[f] = "ready" \/ deliveries[f] < load.maxDeliver),
           UNCHANGED <<deliveries, pc, cur, run, seen, boardVars, jobs, inbox, replyVars, faultVars>>
    PROVE  Inv'
<1>1. UNCHANGED <<load, deliveries, pc, cur, run, seen, runs, written, jobs, inbox, byJob, byCorr,
                  handlers, crashes, listFaults, lost>>
    BY DEF boardVars, replyVars, faultVars
<1>2. Event' = Event /\ Dispatchable' = Dispatchable /\ Pending' = Pending
      /\ RunRec' = RunRec /\ JobRec' = JobRec
    BY <1>1, Same
<1>3. TypeOK'
    BY <1>1, <1>2 DEF Inv, TypeOK, BrokerState
<1>4. SentInv'
    <2>1. ASSUME NEW e \in Dispatchable, broker'[e] = "acked" \/ e \in seen PROVE WasSent(e)'
        BY <1>1, <2>1 DEF Inv, LoopInv, SentInv, Dispatchable, WasSent, SentJobs
    <2>2. JustSent' <=> JustSent
        BY <1>1 DEF JustSent
    <2> QED BY <1>1, <1>2, <2>1, <2>2 DEF Inv, LoopInv, SentInv
<1>5. LifeInv' /\ RunInv'
    BY <1>1 DEF Inv, LoopInv, LifeInv, RunInv, SentTwiceOnlyAfterFailure, OneRunPerEvent, RunsOf
<1>6. ReplyInv'
    BY <1>1, ReplyStays DEF Inv
<1> QED BY <1>3, <1>4, <1>5, <1>6 DEF Inv, LoopInv

LEMMA DeliverInv == ASSUME Inv, NEW e \in Event, Deliver(e) PROVE Inv'
<1>1. /\ broker[e] = "ready" /\ broker' = [broker EXCEPT ![e] = "out"]
      /\ deliveries' = [deliveries EXCEPT ![e] = @ + 1]
      /\ buffer' = Append(buffer, e)
      /\ UNCHANGED <<load, pc, cur, run, seen, runs, written, jobs, inbox, byJob, byCorr,
                     handlers, crashes, listFaults, lost>>
    BY DEF Deliver, boardVars, replyVars, faultVars
<1>2. Event' = Event /\ Dispatchable' = Dispatchable /\ Pending' = Pending
      /\ RunRec' = RunRec /\ JobRec' = JobRec
    BY <1>1, Same
<1>3. deliveries[e] < load.maxDeliver /\ load.maxDeliver \in Nat
    BY <1>1, LoadFacts DEF Inv, LoopInv, SentInv, TypeOK
<1>4. broker' \in [Event -> {"ready", "out", "acked", "exhausted"}]
      /\ deliveries' \in [Event -> 0 .. load.maxDeliver] /\ buffer' \in Seq(Event)
    BY SMTT(40), <1>1, <1>3 DEF Inv, TypeOK
<1>5. TypeOK'
    BY <1>1, <1>2, <1>4 DEF Inv, TypeOK
<1>6. SentInv'
    <2>1. ASSUME NEW f \in Dispatchable, broker'[f] = "acked" \/ f \in seen PROVE WasSent(f)'
        BY <1>1, <2>1 DEF Inv, LoopInv, SentInv, Dispatchable, WasSent, SentJobs, TypeOK
    <2>2. JustSent' <=> JustSent
        BY <1>1 DEF JustSent
    <2>3. \A f \in Event : broker'[f] = "ready" => deliveries'[f] < load.maxDeliver
        BY <1>1 DEF Inv, LoopInv, SentInv, TypeOK
    <2> QED BY <1>1, <1>2, <2>1, <2>2, <2>3 DEF Inv, LoopInv, SentInv
<1>7. LifeInv' /\ RunInv'
    BY <1>1 DEF Inv, LoopInv, LifeInv, RunInv, SentTwiceOnlyAfterFailure, OneRunPerEvent, RunsOf
<1>8. ReplyInv'
    BY <1>1, ReplyStays DEF Inv
<1> QED BY <1>5, <1>6, <1>7, <1>8 DEF Inv, LoopInv

LEMMA AckWaitInv == ASSUME Inv, NEW e \in Event, AckWait(e) PROVE Inv'
<1>1. broker' = Requeued(e) /\ buffer' = buffer
    BY DEF AckWait, loopVars
<1>2. buffer \in Seq(Event) /\ TypeOK
    BY DEF Inv, TypeOK
<1> QED BY <1>1, <1>2, RequeuedFacts, BrokerInv DEF AckWait, loopVars

LEMMA TakeGarbageInv == ASSUME Inv, TakeGarbage PROVE Inv'
<1>1. TypeOK /\ Head(buffer) \in Event /\ Tail(buffer) \in Seq(Event)
    BY SMTT(40) DEF Inv, TypeOK, TakeGarbage
<1> QED BY <1>1, NakFacts, BrokerInv DEF TakeGarbage

LEMMA TakeIgnoredInv == ASSUME Inv, TakeIgnored PROVE Inv'
<1> DEFINE e == Head(buffer)
<1>a. TypeOK /\ e \in Event /\ Tail(buffer) \in Seq(Event)
    BY SMTT(40) DEF Inv, TypeOK, TakeIgnored
<1>b. /\ pc = "idle"
      /\ e \in seen \/ e \notin Dispatchable
      /\ seen' = seen \cup {e} /\ Ack(e) /\ buffer' = Tail(buffer)
      /\ UNCHANGED <<load, deliveries, pc, cur, run, runs, written, jobs, inbox, byJob, byCorr,
                     handlers, crashes, listFaults, lost>>
    BY DEF TakeIgnored, boardVars, replyVars, faultVars
<1>1. /\ pc = "idle" /\ e \in Event /\ Tail(buffer) \in Seq(Event) /\ TypeOK
      /\ e \in seen \/ e \notin Dispatchable
      /\ seen' = seen \cup {e} /\ Ack(e) /\ buffer' = Tail(buffer)
      /\ UNCHANGED <<load, deliveries, pc, cur, run, runs, written, jobs, inbox, byJob, byCorr,
                     handlers, crashes, listFaults, lost>>
    BY <1>a, <1>b
<1> HIDE DEF e
<1>2. /\ broker' \in [Event -> BrokerState]
      /\ \A f \in Event : /\ broker'[f] = "acked" => broker[f] = "acked" \/ f = e
                          /\ broker'[f] = "ready" => broker[f] = "ready"
    BY <1>1, AckFacts
<1>3. Event' = Event /\ Dispatchable' = Dispatchable /\ Pending' = Pending
      /\ RunRec' = RunRec /\ JobRec' = JobRec
    BY <1>1, Same
<1>4. TypeOK'
    BY <1>1, <1>2, <1>3 DEF TypeOK, BrokerState
<1>5. SentInv'
    <2>1. ASSUME NEW f \in Dispatchable, broker'[f] = "acked" \/ f \in seen' PROVE WasSent(f)'
        <3>1. broker[f] = "acked" \/ f \in seen
            BY <1>1, <1>2, <2>1 DEF Dispatchable
        <3> QED BY <1>1, <3>1 DEF Inv, LoopInv, SentInv, WasSent, SentJobs
    <2> QED BY <1>1, <1>2, <1>3, <2>1 DEF Inv, LoopInv, SentInv
<1>6. LifeInv' /\ RunInv'
    BY <1>1 DEF Inv, LoopInv, LifeInv, RunInv, SentTwiceOnlyAfterFailure, OneRunPerEvent, RunsOf,
                Working
<1>7. ReplyInv'
    BY <1>1, ReplyStays DEF Inv
<1> QED BY <1>4, <1>5, <1>6, <1>7 DEF Inv, LoopInv

\* The loop moves on without sending, marking or creating anything.
LEMMA MoveInv ==
    ASSUME Inv, pc' \in PC, cur' \in Event \cup {None}, run' \in 0 .. Len(runs),
           buffer' \in Seq(Event), listFaults' \in 0 .. load.maxListFaults,
           pc' \notin {"down", "idle"} => cur' \in Dispatchable /\ cur' \notin seen,
           pc' \in {"spawning", "mark"} => pc \in {"spawning", "mark"} /\ cur' = cur,
           pc \in {"spawning", "mark"} => pc' \in {"spawning", "mark"},
           pc' = "create" => RunsOf(cur') = {},
           run' # 0 => pc' \in Working /\ runs[run'].ev = cur',
           pc' \in {"dispatching", "preflight", "spawning"} => run' # 0,
           UNCHANGED <<broker, deliveries, seen, boardVars, jobs, inbox, replyVars, crashes, lost>>
    PROVE  Inv'
<1>1. UNCHANGED <<load, broker, deliveries, seen, runs, written, jobs, inbox, byJob, byCorr,
                  handlers, crashes, lost>>
    BY DEF boardVars, replyVars
<1>2. Event' = Event /\ Dispatchable' = Dispatchable /\ Pending' = Pending
      /\ RunRec' = RunRec /\ JobRec' = JobRec
    BY <1>1, Same
<1>3. TypeOK'
    BY <1>1, <1>2 DEF Inv, TypeOK
<1>4. SentInv'
    <2>1. ASSUME NEW f \in Dispatchable, broker'[f] = "acked" \/ f \in seen PROVE WasSent(f)'
        BY <1>1, <2>1 DEF Inv, LoopInv, SentInv, WasSent, SentJobs
    <2>2. pc' \in {"spawning", "mark"} => JustSent'
        BY <1>1 DEF Inv, LoopInv, SentInv, JustSent
    <2> QED BY <1>1, <1>2, <2>1, <2>2 DEF Inv, LoopInv, SentInv
<1>5. LifeInv'
    BY <1>1 DEF Inv, LoopInv, LifeInv, SentTwiceOnlyAfterFailure, Working
<1>6. RunInv'
    BY <1>1 DEF Inv, LoopInv, RunInv, OneRunPerEvent, RunsOf
<1>7. ReplyInv'
    BY <1>1, ReplyStays DEF Inv
<1> QED BY <1>3, <1>4, <1>5, <1>6, <1>7 DEF Inv, LoopInv

LEMMA TakeEventInv == ASSUME Inv, TakeEvent PROVE Inv'
<1>1. /\ pc = "idle" /\ cur' = Head(buffer) /\ cur' \in Dispatchable \ seen /\ run' = 0
      /\ pc' \in {"send", "list"} /\ buffer' = Tail(buffer)
      /\ UNCHANGED <<broker, deliveries, seen, boardVars, jobs, inbox, replyVars, crashes, lost,
                     listFaults>>
    BY DEF TakeEvent, brokerVars, faultVars
<1>2. /\ cur' \in Event /\ 0 \in 0 .. Len(runs) /\ Tail(buffer) \in Seq(Event)
      /\ listFaults \in 0 .. load.maxListFaults
    BY <1>1 DEF Inv, TypeOK, Dispatchable, TakeEvent
<1> QED BY <1>1, <1>2, MoveInv DEF PC

LEMMA ListRunsInv == ASSUME Inv, ListRuns PROVE Inv'
<1>1. /\ pc = "list"
      /\ UNCHANGED <<cur, buffer, broker, deliveries, seen, boardVars, jobs, inbox, replyVars,
                     crashes, lost, listFaults>>
    BY DEF ListRuns, brokerVars, faultVars
<1>2. /\ cur \in Dispatchable /\ cur \notin seen /\ cur \in Event \cup {None}
      /\ buffer \in Seq(Event) /\ listFaults \in 0 .. load.maxListFaults
      /\ DOMAIN runs = 1 .. Len(runs) /\ Len(runs) \in Nat
    BY <1>1 DEF Inv, TypeOK, LoopInv, LifeInv, Working, PC
<1>3. CASE RunsOf(cur) = {} /\ pc' = "create" /\ run' = 0
    BY <1>1, <1>2, <1>3, MoveInv DEF PC, Working
<1>4. CASE run' \in RunsOf(cur) /\ pc' = "dispatching"
    <2>1. run' \in DOMAIN runs /\ runs[run'].ev = cur
        BY <1>4 DEF RunsOf
    <2>2. run' \in 0 .. Len(runs) /\ run' # 0
        BY <1>2, <2>1
    <2> QED BY <1>1, <1>2, <1>4, <2>1, <2>2, MoveInv DEF PC, Working
<1> QED BY <1>3, <1>4 DEF ListRuns

LEMMA ListFailsInv == ASSUME Inv, ListFails PROVE Inv'
<1>1. /\ pc = "list" /\ pc' = "createBlind" /\ listFaults' = listFaults + 1
      /\ listFaults < load.maxListFaults
      /\ UNCHANGED <<cur, run, buffer, broker, deliveries, seen, boardVars, jobs, inbox, replyVars,
                     crashes, lost>>
    BY DEF ListFails, brokerVars
<1>2. /\ cur \in Dispatchable /\ cur \notin seen /\ cur \in Event \cup {None}
      /\ buffer \in Seq(Event) /\ run \in 0 .. Len(runs)
      /\ run # 0 => runs[run].ev = cur
    BY <1>1 DEF Inv, TypeOK, LoopInv, LifeInv, RunInv, Working, PC
<1>3. listFaults' \in 0 .. load.maxListFaults
    BY <1>1, LoadFacts DEF Inv, TypeOK
<1> QED BY <1>1, <1>2, <1>3, MoveInv DEF PC, Working

LEMMA SentKeeps ==
    ASSUME Inv, Grown, UNCHANGED <<jobs, seen, deliveries>>,
           \A f \in Event :
               /\ broker'[f] = "acked" => broker[f] = "acked"
               /\ broker'[f] = "ready" =>
                     (broker[f] = "ready" \/ deliveries[f] < load.maxDeliver),
           pc' \in {"spawning", "mark"} => pc \in {"spawning", "mark"} /\ cur' = cur
    PROVE  SentInv'
<1>1. Event' = Event /\ Dispatchable' = Dispatchable /\ load' = load
    BY Same DEF Grown
<1>2. ASSUME NEW f \in Dispatchable, broker'[f] = "acked" \/ f \in seen PROVE WasSent(f)'
    BY <1>2, GrownSent DEF Inv, LoopInv, SentInv, Dispatchable
<1>3. pc' \in {"spawning", "mark"} => JustSent'
    BY DEF Inv, LoopInv, SentInv, JustSent
<1> QED BY <1>1, <1>2, <1>3 DEF Inv, LoopInv, SentInv

LEMMA LifeKeeps ==
    ASSUME Inv, UNCHANGED <<jobs, seen, crashes>>,
           pc' \in Working => cur' \notin seen,
           pc \in {"spawning", "mark"} => pc' \in {"spawning", "mark"} /\ cur' = cur
    PROVE  LifeInv'
BY DEF Inv, LoopInv, LifeInv, SentTwiceOnlyAfterFailure

LEMMA NewRunFacts ==
    ASSUME TypeOK, cur \in Event
    PROVE  /\ NewRun \in Seq(RunRec) /\ Len(NewRun) = Len(runs) + 1
           /\ \A r \in DOMAIN runs : r \in DOMAIN NewRun /\ NewRun[r] = runs[r]
           /\ \A r \in DOMAIN NewRun : r \in DOMAIN runs \/ r = Len(runs) + 1
           /\ NewRun[Len(runs) + 1].ev = cur /\ NewRun[Len(runs) + 1].status = "queued"
           /\ NewRun[Len(runs) + 1].blind = (pc = "createBlind")
<1> DEFINE rec == [ev |-> cur, status |-> "queued", session |-> FALSE, blind |-> pc = "createBlind"]
<1>1. rec \in RunRec /\ runs \in Seq(RunRec)
    BY DEF TypeOK, RunRec, Status
<1>2. rec.ev = cur /\ rec.status = "queued" /\ rec.blind = (pc = "createBlind")
    OBVIOUS
<1>3. NewRun = Append(runs, rec)
    BY DEF NewRun
<1> HIDE DEF rec
<1> QED BY <1>1, <1>2, <1>3

LEMMA CreateRunInv == ASSUME Inv, CreateRun PROVE Inv'
<1>1. /\ pc \in {"create", "createBlind"}
      /\ UNCHANGED <<deliveries, buffer, seen, load, written, jobs, inbox, byJob, byCorr, handlers,
                     crashes, listFaults, lost>>
      /\ runs' \in {runs, NewRun}
    BY DEF CreateRun, replyVars, faultVars
<1>2. TypeOK /\ cur \in Event /\ cur \in Dispatchable /\ cur \notin seen
      /\ DOMAIN runs = 1 .. Len(runs) /\ Len(runs) \in Nat
    BY <1>1 DEF Inv, TypeOK, LoopInv, LifeInv, PC, Working, Dispatchable
<1>3. Event' = Event /\ Dispatchable' = Dispatchable /\ Pending' = Pending
      /\ RunRec' = RunRec /\ JobRec' = JobRec
    BY <1>1, Same
<1>4. Grown
    BY <1>1, <1>2, NewRunFacts DEF Grown
<1>5. /\ runs' \in Seq(RunRec)
      /\ \A r \in DOMAIN runs' : \/ r \in DOMAIN runs /\ runs'[r] = runs[r]
                                 \/ /\ r = Len(runs) + 1 /\ runs'[r].status = "queued"
                                    /\ runs'[r].ev = cur
                                    /\ runs'[r].blind = (pc = "createBlind")
    BY <1>1, <1>2, NewRunFacts DEF TypeOK
<1>6. ReplyInv'
    <2>1. \A r \in DOMAIN runs' : \/ r \in DOMAIN runs /\ runs'[r].status = runs[r].status
                                  \/ runs'[r].status \notin Terminal
        BY <1>5 DEF Terminal
    <2> QED BY <1>1, <1>4, <2>1, ReplyKeeps DEF Inv
<1>7. OneRunPerEvent'
    <2> SUFFICES ASSUME NEW r \in DOMAIN runs', NEW s \in DOMAIN runs', r < s,
                        runs'[r].ev = runs'[s].ev
                 PROVE  runs'[s].blind
        BY DEF OneRunPerEvent
    <2>1. r \in Nat /\ s \in Nat
        BY <1>5
    <2>2. CASE s \in DOMAIN runs /\ runs'[s] = runs[s]
        <3>1. r \in DOMAIN runs /\ runs'[r] = runs[r]
            BY <1>2, <1>5, <2>1, <2>2
        <3> QED BY <2>2, <3>1 DEF Inv, LoopInv, RunInv, OneRunPerEvent
    <2>3. CASE s = Len(runs) + 1 /\ runs'[s].ev = cur /\ runs'[s].blind = (pc = "createBlind")
        <3>1. r \in DOMAIN runs /\ runs[r].ev = cur
            BY <1>2, <1>5, <2>1, <2>3
        <3>2. pc # "create"
            BY <3>1 DEF Inv, LoopInv, RunInv, RunsOf
        <3> QED BY <1>1, <2>3, <3>2
    <2> QED BY <1>5, <2>2, <2>3
<1>8. CASE runs' = NewRun /\ run' = Len(runs') /\ pc' = "dispatching" /\ UNCHANGED <<cur, broker>>
    <2>1. TypeOK'
        BY <1>1, <1>2, <1>3, <1>5, <1>8 DEF TypeOK, PC
    <2>2. run' = Len(runs) + 1 /\ runs'[run'].ev = cur
        BY <1>2, <1>8, NewRunFacts
    <2>3. RunInv'
        BY <1>2, <1>7, <1>8, <2>2 DEF RunInv, Working, PC
    <2>4. SentInv' /\ LifeInv'
        BY <1>1, <1>2, <1>4, <1>8, SentKeeps, LifeKeeps
    <2> QED BY <1>6, <2>1, <2>3, <2>4 DEF Inv, LoopInv
<1>9. CASE Idle /\ Nak(cur)
    <2>1. TypeOK'
        BY <1>1, <1>2, <1>3, <1>5, <1>9, NakFacts DEF TypeOK, PC, Idle, BrokerState
    <2>2. RunInv'
        BY <1>7, <1>9 DEF RunInv, Idle
    <2>3. SentInv' /\ LifeInv'
        BY <1>1, <1>2, <1>4, <1>9, SentKeeps, LifeKeeps, NakFacts DEF Idle, Working
    <2> QED BY <1>6, <2>1, <2>2, <2>3 DEF Inv, LoopInv
<1> QED BY <1>8, <1>9 DEF CreateRun

LEMMA MaybePatchFacts ==
    ASSUME TypeOK, NEW r \in DOMAIN runs, NEW status \in Status, MaybePatch(r, status)
    PROVE  /\ runs' \in Seq(RunRec) /\ Len(runs') = Len(runs) /\ DOMAIN runs' = DOMAIN runs
           /\ \A q \in DOMAIN runs :
                 /\ runs'[q].ev = runs[q].ev /\ runs'[q].blind = runs[q].blind
                 /\ runs'[q].status = runs[q].status \/ (q = r /\ runs'[q].status = status)
<1>1. runs \in Seq(RunRec) /\ DOMAIN runs = 1 .. Len(runs)
      /\ \A q \in DOMAIN runs : runs[q] \in RunRec
    BY DEF TypeOK
<1>2. CASE Patch(r, status)
    <2>1. PICK b \in BOOLEAN :
            runs' = [runs EXCEPT ![r] = [runs[r] EXCEPT !.status = status, !.session = b]]
        <3>1. (runs[r].session \/ status \in {"spawning", "running"}) \in BOOLEAN
            OBVIOUS
        <3> QED BY <1>1, <1>2 DEF Patch, RunRec
    <2>2. [runs[r] EXCEPT !.status = status, !.session = b] \in RunRec
        BY <1>1 DEF RunRec
    <2> QED BY <1>1, <2>1, <2>2 DEF RunRec
<1>3. CASE UNCHANGED runs
    BY <1>1, <1>3
<1> QED BY <1>2, <1>3 DEF MaybePatch

\* A run gets a status that is not a final one, by the loop or by a handler.
LEMMA PatchReply ==
    ASSUME Inv, NEW r \in DOMAIN runs, NEW status \in Status \ Terminal, MaybePatch(r, status),
           UNCHANGED <<load, written, jobs, inbox, byJob, byCorr, handlers>>
    PROVE  Grown /\ ReplyInv'
<1>1. status \in Status /\ TypeOK
    BY DEF Inv
<1>2. Grown
    BY <1>1, MaybePatchFacts DEF Grown
<1>3. \A q \in DOMAIN runs' : \/ q \in DOMAIN runs /\ runs'[q].status = runs[q].status
                              \/ runs'[q].status \notin Terminal
    BY <1>1, MaybePatchFacts
<1> QED BY <1>2, <1>3, ReplyKeeps DEF Inv

\* The loop's own updates of its run: on to the next step, or the event is given back.
LEMMA UpdateInv ==
    ASSUME Inv, pc \in {"dispatching", "preflight", "spawning"},
           NEW status \in Status \ Terminal, MaybePatch(run, status),
           UNCHANGED <<deliveries, buffer, seen, load, written, jobs, inbox, replyVars, faultVars>>,
           \/ /\ \/ pc = "dispatching" /\ pc' = "send"
                 \/ pc = "spawning" /\ pc' = "mark"
              /\ UNCHANGED <<cur, run, broker>>
           \/ pc = "preflight" /\ Idle /\ Nak(cur)
    PROVE  Inv'
<1>1. /\ TypeOK /\ cur \in Event /\ cur \in Dispatchable /\ cur \notin seen
      /\ run \in DOMAIN runs /\ runs[run].ev = cur /\ status \in Status
    BY DEF Inv, TypeOK, LoopInv, LifeInv, RunInv, PC, Working, Dispatchable
<1>2. UNCHANGED <<byJob, byCorr, handlers, crashes, listFaults, lost>>
    BY DEF replyVars, faultVars
<1>3. Event' = Event /\ Dispatchable' = Dispatchable /\ Pending' = Pending
      /\ RunRec' = RunRec /\ JobRec' = JobRec
    BY Same
<1>4. Grown /\ ReplyInv'
    BY <1>1, <1>2, PatchReply
<1>5. /\ runs' \in Seq(RunRec) /\ Len(runs') = Len(runs) /\ DOMAIN runs' = DOMAIN runs
      /\ \A q \in DOMAIN runs : runs'[q].ev = runs[q].ev /\ runs'[q].blind = runs[q].blind
    BY <1>1, MaybePatchFacts
<1>6. OneRunPerEvent'
    BY <1>5 DEF Inv, LoopInv, RunInv, OneRunPerEvent
<1>7. CASE pc' \in {"send", "mark"} /\ UNCHANGED <<cur, run, broker>>
           /\ (pc' = "mark" <=> pc = "spawning") /\ pc # "mark"
    <2>1. TypeOK'
        BY <1>1, <1>2, <1>3, <1>5, <1>7 DEF TypeOK, PC
    <2>2. RunInv'
        BY <1>1, <1>5, <1>6, <1>7 DEF RunInv, Working, PC
    <2>3. SentInv' /\ LifeInv'
        BY <1>1, <1>2, <1>4, <1>7, SentKeeps, LifeKeeps
    <2> QED BY <1>4, <2>1, <2>2, <2>3 DEF Inv, LoopInv
<1>8. CASE pc = "preflight" /\ Idle /\ Nak(cur)
    <2>1. TypeOK'
        BY <1>1, <1>2, <1>3, <1>5, <1>8, NakFacts DEF TypeOK, PC, Idle, BrokerState
    <2>2. RunInv'
        BY <1>6, <1>8 DEF RunInv, Idle
    <2>3. SentInv' /\ LifeInv'
        BY <1>1, <1>2, <1>4, <1>8, SentKeeps, LifeKeeps, NakFacts DEF Idle, Working
    <2> QED BY <1>4, <2>1, <2>2, <2>3 DEF Inv, LoopInv
<1> QED BY <1>7, <1>8

LEMMA LoopUpdatesInv ==
    ASSUME Inv, UpdateDispatching \/ UpdatePreflight \/ UpdateSpawning PROVE Inv'
<1>1. {"dispatching", "preflight_failed", "spawning"} \subseteq Status \ Terminal
    BY DEF Status, Terminal
<1>2. CASE UpdateDispatching
    BY <1>1, <1>2, UpdateInv DEF UpdateDispatching, brokerVars
<1>3. CASE UpdatePreflight
    BY <1>1, <1>3, UpdateInv DEF UpdatePreflight
<1>4. CASE UpdateSpawning
    BY <1>1, <1>4, UpdateInv DEF UpdateSpawning, brokerVars
<1> QED BY <1>2, <1>3, <1>4

\* A job is sent, or was and is reported as failed.
LEMMA NewJobFacts ==
    ASSUME TypeOK, cur \in Event, NEW isLost \in BOOLEAN
    PROVE  LET js == NewJob(isLost) IN
           /\ js \in Seq(JobRec) /\ Len(js) = Len(jobs) + 1
           /\ \A i \in DOMAIN jobs : i \in DOMAIN js /\ js[i] = jobs[i]
           /\ \A i \in DOMAIN js : i \in DOMAIN jobs \/ i = Len(jobs) + 1
           /\ js[Len(jobs) + 1].ev = cur /\ js[Len(jobs) + 1].life = crashes
           /\ js[Len(jobs) + 1].lost = isLost
<1> DEFINE rec == [ev |-> cur, gw |-> "sent", life |-> crashes, lost |-> isLost]
<1>1. rec \in JobRec /\ jobs \in Seq(JobRec)
    BY LoadFacts DEF TypeOK, JobRec
<1>2. rec.ev = cur /\ rec.life = crashes /\ rec.lost = isLost
    OBVIOUS
<1>3. NewJob(isLost) = Append(jobs, rec)
    BY DEF NewJob
<1> HIDE DEF rec
<1> QED BY <1>1, <1>2, <1>3

\* Until now this life of the process sent no job for the event, or one that was reported as lost.
LEMMA NewJobInv ==
    ASSUME Inv, pc = "send", NEW isLost \in BOOLEAN, jobs' = NewJob(isLost),
           UNCHANGED <<load, runs, written, inbox, byJob, byCorr, handlers, seen, crashes>>
    PROVE  /\ Grown /\ ReplyInv' /\ jobs' \in Seq(JobRec)
           /\ SentTwiceOnlyAfterFailure'
           /\ \A i \in DOMAIN jobs' : jobs'[i].life <= crashes
           /\ \A i \in DOMAIN jobs' :
                 jobs'[i].life = crashes /\ ~jobs'[i].lost =>
                     jobs'[i].ev \in seen \/ (jobs'[i].ev = cur /\ ~isLost)
           /\ jobs' # <<>> /\ jobs'[Len(jobs')].ev = cur /\ jobs'[Len(jobs')].lost = isLost
<1>1. /\ TypeOK /\ cur \in Event /\ cur \notin seen /\ crashes \in Nat
      /\ DOMAIN jobs = 1 .. Len(jobs) /\ Len(jobs) \in Nat
      /\ \A i \in DOMAIN jobs : jobs[i] \in JobRec
    BY LoadFacts DEF Inv, TypeOK, LoopInv, LifeInv, PC, Working, Dispatchable
<1>2. /\ jobs' \in Seq(JobRec) /\ Len(jobs') = Len(jobs) + 1
      /\ \A i \in DOMAIN jobs : i \in DOMAIN jobs' /\ jobs'[i] = jobs[i]
      /\ \A i \in DOMAIN jobs' : i \in DOMAIN jobs \/ i = Len(jobs) + 1
      /\ jobs'[Len(jobs) + 1].ev = cur /\ jobs'[Len(jobs) + 1].life = crashes
      /\ jobs'[Len(jobs) + 1].lost = isLost
    BY <1>1, NewJobFacts
<1>3. Grown
    BY <1>2 DEF Grown
<1>4. ReplyInv'
    BY <1>3, ReplyKeeps DEF Inv
<1>5. \A i \in DOMAIN jobs : jobs[i].life = crashes /\ ~jobs[i].lost => jobs[i].ev # cur
    BY <1>1 DEF Inv, LoopInv, LifeInv
<1>6. SentTwiceOnlyAfterFailure'
    <2> SUFFICES ASSUME NEW i \in DOMAIN jobs', NEW j \in DOMAIN jobs', i < j,
                        jobs'[i].ev = jobs'[j].ev, jobs'[i].life = jobs'[j].life
                 PROVE  jobs'[i].lost
        BY DEF SentTwiceOnlyAfterFailure
    <2>1. i \in DOMAIN jobs /\ jobs'[i] = jobs[i]
        BY <1>1, <1>2
    <2>2. CASE j \in DOMAIN jobs
        BY <1>2, <2>1, <2>2 DEF Inv, LoopInv, LifeInv, SentTwiceOnlyAfterFailure
    <2>3. CASE j = Len(jobs) + 1
        <3>1. jobs[i].lost \in BOOLEAN
            BY <1>1, <2>1 DEF JobRec
        <3> QED BY <1>2, <1>5, <2>1, <2>3, <3>1
    <2> QED BY <1>2, <2>2, <2>3
<1>7. \A i \in DOMAIN jobs' : jobs'[i].life <= crashes
    BY <1>1, <1>2 DEF Inv, LoopInv, LifeInv
<1>8. \A i \in DOMAIN jobs' :
          jobs'[i].life = crashes /\ ~jobs'[i].lost =>
              jobs'[i].ev \in seen \/ (jobs'[i].ev = cur /\ ~isLost)
    BY <1>2 DEF Inv, LoopInv, LifeInv
<1>9. jobs' # <<>> /\ jobs'[Len(jobs')].ev = cur /\ jobs'[Len(jobs')].lost = isLost
    BY <1>1, <1>2
<1> QED BY <1>2, <1>3, <1>4, <1>6, <1>7, <1>8, <1>9

LEMMA SendOkInv == ASSUME Inv, SendOk PROVE Inv'
<1>1. /\ pc = "send" /\ jobs' = NewJob(FALSE)
      /\ pc' = IF run # 0 THEN "spawning" ELSE "mark"
      /\ UNCHANGED <<load, broker, deliveries, buffer, cur, run, seen, runs, written, inbox, byJob,
                     byCorr, handlers, crashes, listFaults, lost>>
    BY DEF SendOk, brokerVars, boardVars, replyVars, faultVars
<1>2. /\ Grown /\ ReplyInv' /\ jobs' \in Seq(JobRec)
      /\ SentTwiceOnlyAfterFailure'
      /\ \A i \in DOMAIN jobs' : jobs'[i].life <= crashes
      /\ \A i \in DOMAIN jobs' :
            jobs'[i].life = crashes /\ ~jobs'[i].lost =>
                jobs'[i].ev \in seen \/ jobs'[i].ev = cur
      /\ jobs' # <<>> /\ jobs'[Len(jobs')].ev = cur /\ jobs'[Len(jobs')].lost = FALSE
    BY <1>1, NewJobInv
<1>3. Event' = Event /\ Dispatchable' = Dispatchable /\ Pending' = Pending
      /\ RunRec' = RunRec /\ JobRec' = JobRec
    BY <1>1, Same
<1>4. TypeOK /\ cur \in Dispatchable /\ cur \notin seen
    BY <1>1 DEF Inv, TypeOK, LoopInv, LifeInv, PC, Working
<1>5. TypeOK'
    BY <1>1, <1>2, <1>3, <1>4 DEF TypeOK, PC
<1>6. SentInv'
    <2>1. ASSUME NEW f \in Dispatchable, broker[f] = "acked" \/ f \in seen PROVE WasSent(f)'
        BY <1>2, <2>1, GrownSent DEF Inv, LoopInv, SentInv
    <2> QED BY <1>1, <1>2, <1>3, <2>1 DEF Inv, LoopInv, SentInv, JustSent
<1>7. LifeInv'
    BY <1>1, <1>2, <1>4 DEF LifeInv
<1>8. RunInv'
    BY <1>1 DEF Inv, LoopInv, RunInv, Working, PC, OneRunPerEvent
<1> QED BY <1>2, <1>5, <1>6, <1>7, <1>8 DEF Inv, LoopInv

LEMMA SendFailsInv == ASSUME Inv, SendFails PROVE Inv'
<1>1. /\ pc = "send"
      /\ UNCHANGED <<load, deliveries, buffer, seen, runs, written, inbox, byJob,
                     byCorr, handlers, crashes, listFaults>>
    BY DEF SendFails, boardVars, replyVars
<1>2. Event' = Event /\ Dispatchable' = Dispatchable /\ Pending' = Pending
      /\ RunRec' = RunRec /\ JobRec' = JobRec
    BY <1>1, Same
<1>3. /\ TypeOK /\ cur \in Event /\ cur \in Dispatchable /\ cur \notin seen
      /\ load.maxLost \in Nat
    BY <1>1, LoadFacts DEF Inv, TypeOK, LoopInv, LifeInv, PC, Working, Dispatchable
<1>4. /\ Grown /\ ReplyInv' /\ jobs' \in Seq(JobRec) /\ lost' \in 0 .. load.maxLost
      /\ SentTwiceOnlyAfterFailure'
      /\ \A i \in DOMAIN jobs' : jobs'[i].life <= crashes
      /\ \A i \in DOMAIN jobs' :
            jobs'[i].life = crashes /\ ~jobs'[i].lost => jobs'[i].ev \in seen
    <2>1. CASE UNCHANGED <<jobs, lost>>
        <3>1. ReplyInv' /\ Grown
            BY <1>1, <2>1, ReplyStays DEF Inv, Grown
        <3>2. jobs' \in Seq(JobRec) /\ lost' \in 0 .. load.maxLost
            BY <1>3, <2>1 DEF TypeOK
        <3>3. SentTwiceOnlyAfterFailure' /\ \A i \in DOMAIN jobs' : jobs'[i].life <= crashes
            BY <2>1 DEF Inv, LoopInv, LifeInv, SentTwiceOnlyAfterFailure
        <3>4. \A i \in DOMAIN jobs' :
                 jobs'[i].life = crashes /\ ~jobs'[i].lost => jobs'[i].ev \in seen
            BY <1>1, <2>1 DEF Inv, LoopInv, LifeInv
        <3> QED BY <3>1, <3>2, <3>3, <3>4
    <2>2. CASE lost < load.maxLost /\ lost' = lost + 1 /\ jobs' = NewJob(TRUE)
        <3>1. lost' \in 0 .. load.maxLost
            BY <1>3, <2>2 DEF TypeOK
        <3> QED BY <1>1, <2>2, <3>1, NewJobInv
    <2> QED BY <2>1, <2>2 DEF SendFails
<1>5. ASSUME NEW f \in Dispatchable, broker[f] = "acked" \/ f \in seen PROVE WasSent(f)'
    BY <1>4, <1>5, GrownSent DEF Inv, LoopInv, SentInv
<1>6. CASE run # 0 /\ pc' = "preflight" /\ UNCHANGED <<cur, run, broker>>
    <2>1. TypeOK'
        BY <1>1, <1>2, <1>3, <1>4, <1>6 DEF TypeOK, PC
    <2>2. SentInv'
        BY <1>1, <1>2, <1>5, <1>6 DEF Inv, LoopInv, SentInv
    <2>3. LifeInv'
        BY <1>1, <1>3, <1>4, <1>6 DEF LifeInv
    <2>4. RunInv'
        BY <1>1, <1>6 DEF Inv, LoopInv, RunInv, Working, PC, OneRunPerEvent
    <2> QED BY <1>4, <2>1, <2>2, <2>3, <2>4 DEF Inv, LoopInv
<1>7. CASE Idle /\ Nak(cur)
    <2>1. TypeOK'
        BY <1>1, <1>2, <1>3, <1>4, <1>7, NakFacts DEF TypeOK, PC, Idle, BrokerState
    <2>2. SentInv'
        <3>1. \A f \in Event : /\ broker'[f] = "acked" => broker[f] = "acked"
                               /\ broker'[f] = "ready" =>
                                     (broker[f] = "ready" \/ deliveries[f] < load.maxDeliver)
            BY <1>3, <1>7, NakFacts
        <3>2. \A f \in Dispatchable : f \in Event
            BY DEF Dispatchable
        <3> QED BY <1>1, <1>2, <1>5, <1>7, <3>1, <3>2 DEF Inv, LoopInv, SentInv, Idle
    <2>3. LifeInv'
        BY <1>1, <1>4, <1>7 DEF LifeInv, Idle, Working
    <2>4. RunInv'
        BY <1>1, <1>7 DEF Inv, LoopInv, RunInv, Idle, OneRunPerEvent
    <2> QED BY <1>4, <2>1, <2>2, <2>3, <2>4 DEF Inv, LoopInv
<1> QED BY <1>6, <1>7 DEF SendFails

\* idempotency.mark(), track() and ack(): the job that was just sent is the event's.
LEMMA DispatchedInv == ASSUME Inv, Dispatched PROVE Inv'
<1>0. PICK p : p = [corr |-> Len(jobs), ev |-> cur, run |-> run, sha |-> Attr[cur].sha]
    OBVIOUS
<1>1. /\ pc = "mark" /\ seen' = seen \cup {cur} /\ Track(p) /\ Ack(cur) /\ Idle
      /\ UNCHANGED <<load, deliveries, buffer, runs, written, jobs, inbox, handlers, crashes,
                     listFaults, lost>>
    BY <1>0 DEF Dispatched, MarkSeen, boardVars, faultVars
<1>2. /\ TypeOK /\ cur \in Event /\ cur \in Dispatchable /\ JustSent
      /\ DOMAIN jobs = 1 .. Len(jobs) /\ Len(jobs) \in Nat /\ Len(jobs) \in DOMAIN jobs
      /\ DOMAIN runs = 1 .. Len(runs) /\ Len(runs) \in Nat
    BY <1>1 DEF Inv, TypeOK, LoopInv, SentInv, PC, Dispatchable, JustSent
<1>3. Event' = Event /\ Dispatchable' = Dispatchable /\ Pending' = Pending
      /\ RunRec' = RunRec /\ JobRec' = JobRec
    BY <1>1, Same
<1>4. p.ev = cur /\ p.run = run /\ p.corr = Len(jobs) /\ p \in Pending
    <2>1. load \in Loads /\ run \in Nat
        BY <1>2 DEF TypeOK
    <2>2. Attr[cur] \in AttrRec
        BY <1>2, <2>1, LoadFacts
    <2>3. Attr[cur].sha \in BOOLEAN
        BY <2>2 DEF AttrRec
    <2> QED BY <1>0, <1>2, <2>1, <2>3 DEF Pending
<1>5. \A f \in Event : /\ broker'[f] = "acked" => broker[f] = "acked" \/ f = cur
                       /\ broker'[f] = "ready" => broker[f] = "ready"
    BY <1>1, <1>2, AckFacts
<1>6. byJob' \subseteq byJob \cup {p} /\ byCorr' \subseteq byCorr \cup {p}
    BY <1>1 DEF Track
<1>7. TypeOK'
    BY <1>1, <1>2, <1>3, <1>4, <1>6, AckFacts DEF TypeOK, PC, Idle, BrokerState
<1>8. Grown
    BY <1>1 DEF Grown
<1>9. SentInv'
    <2>1. WasSent(cur)
        BY <1>2 DEF WasSent, SentJobs, JustSent
    <2>2. ASSUME NEW f \in Dispatchable, broker'[f] = "acked" \/ f \in seen' PROVE WasSent(f)'
        BY <1>1, <1>5, <1>8, <2>1, <2>2, GrownSent DEF Inv, LoopInv, SentInv, Dispatchable
    <2> QED BY <1>1, <1>3, <1>5, <2>2 DEF Inv, LoopInv, SentInv, Idle
<1>10. LifeInv'
    BY <1>1 DEF Inv, LoopInv, LifeInv, SentTwiceOnlyAfterFailure, Idle, Working
<1>11. RunInv'
    BY <1>1 DEF Inv, LoopInv, RunInv, Idle, OneRunPerEvent
<1>12. PendingOK(p)' /\ CorrOK(p)'
    <2>1. run # 0 => run \in DOMAIN runs /\ runs[run].ev = cur
        BY <1>2 DEF Inv, TypeOK, LoopInv, RunInv
    <2>2. Len(jobs) \in DOMAIN jobs /\ jobs[Len(jobs)].ev = cur
        BY <1>2 DEF JustSent
    <2> QED BY <1>1, <1>4, <2>1, <2>2 DEF PendingOK, CorrOK, RunFits
<1>13. ReplyInv'
    BY <1>1, <1>6, <1>8, <1>12, ReplyKeeps DEF Inv
<1> QED BY <1>7, <1>9, <1>10, <1>11, <1>13 DEF Inv, LoopInv

LEMMA CrashInv == ASSUME Inv, Crash PROVE Inv'
<1>1. /\ crashes < load.maxCrash /\ crashes' = crashes + 1
      /\ pc' = "down" /\ cur' = None /\ run' = 0 /\ buffer' = <<>> /\ seen' = {}
      /\ byJob' = {} /\ byCorr' = {} /\ handlers' = {}
      /\ UNCHANGED <<load, broker, deliveries, runs, written, jobs, inbox, listFaults, lost>>
    BY DEF Crash, brokerVars, boardVars
<1>2. Event' = Event /\ Dispatchable' = Dispatchable /\ Pending' = Pending
      /\ RunRec' = RunRec /\ JobRec' = JobRec
    BY <1>1, Same
<1>3. /\ TypeOK /\ load.maxCrash \in Nat /\ crashes \in Nat
      /\ \A i \in DOMAIN jobs : jobs[i].life \in Nat
    <2>1. TypeOK /\ load.maxCrash \in Nat
        BY LoadFacts DEF Inv, TypeOK
    <2>2. crashes \in Nat
        BY <2>1 DEF TypeOK
    <2>3. \A i \in DOMAIN jobs : jobs[i] \in JobRec
        BY <2>1 DEF TypeOK
    <2> QED BY <2>1, <2>2, <2>3 DEF JobRec
<1>4. TypeOK'
    BY <1>1, <1>2, <1>3 DEF TypeOK, PC
<1>5. Grown
    BY <1>1 DEF Grown
<1>6. SentInv'
    <2>1. ASSUME NEW f \in Dispatchable, broker[f] = "acked" PROVE WasSent(f)'
        BY <1>5, <2>1, GrownSent DEF Inv, LoopInv, SentInv
    <2> QED BY <1>1, <1>2, <2>1 DEF Inv, LoopInv, SentInv
<1>7. LifeInv'
    BY <1>1, <1>3 DEF Inv, LoopInv, LifeInv, SentTwiceOnlyAfterFailure, Working
<1>8. RunInv'
    BY <1>1 DEF Inv, LoopInv, RunInv, OneRunPerEvent
<1>9. ReplyInv'
    BY <1>1, <1>5, ReplyKeeps DEF Inv
<1> QED BY <1>4, <1>6, <1>7, <1>8, <1>9 DEF Inv, LoopInv

LEMMA RestartInv == ASSUME Inv, Restart PROVE Inv'
<1>1. /\ pc = "down" /\ pc' = "idle"
      /\ UNCHANGED <<load, broker, deliveries, buffer, cur, run, seen, runs, written, jobs, inbox,
                     byJob, byCorr, handlers, crashes, listFaults, lost>>
    BY DEF Restart, brokerVars, boardVars, replyVars, faultVars
<1>2. cur \in Event \cup {None} /\ run \in 0 .. Len(runs) /\ buffer \in Seq(Event)
      /\ listFaults \in 0 .. load.maxListFaults /\ run = 0
    BY <1>1 DEF Inv, TypeOK, LoopInv, RunInv, Working
<1> QED BY <1>1, <1>2, MoveInv DEF PC, boardVars, replyVars, Working

------------------------------------------------------------------------------
(* The gateway and the reply handlers.                                      *)

LEMMA GatewayRepliesInv ==
    ASSUME Inv, NEW i \in DOMAIN jobs, NEW kind \in Final \cup {"accepted"}, GatewayReplies(i, kind)
    PROVE  Inv'
<1>1. /\ jobs[i].gw \in {"sent", "accepted"}
      /\ jobs' = [jobs EXCEPT ![i].gw = kind]
      /\ inbox' = Append(inbox, [job |-> i, kind |-> kind])
      /\ UNCHANGED <<load, broker, deliveries, buffer, pc, cur, run, seen, runs, written, byJob,
                     byCorr, handlers, crashes, listFaults, lost>>
    BY DEF GatewayReplies, brokerVars, loopVars, boardVars, replyVars, faultVars
<1>2. /\ TypeOK /\ jobs \in Seq(JobRec) /\ DOMAIN jobs = 1 .. Len(jobs)
      /\ \A j \in DOMAIN jobs : jobs[j] \in JobRec
    BY DEF Inv, TypeOK
<1>3. Event' = Event /\ Dispatchable' = Dispatchable /\ Pending' = Pending
      /\ RunRec' = RunRec /\ JobRec' = JobRec
    BY <1>1, Same
<1>4. /\ jobs' \in Seq(JobRec) /\ Len(jobs') = Len(jobs) /\ DOMAIN jobs' = DOMAIN jobs
      /\ jobs'[i].gw = kind
      /\ \A j \in DOMAIN jobs : /\ jobs'[j].ev = jobs[j].ev /\ jobs'[j].lost = jobs[j].lost
                                /\ jobs'[j].life = jobs[j].life
                                /\ j # i => jobs'[j].gw = jobs[j].gw
    <2>1. [jobs[i] EXCEPT !.gw = kind] \in JobRec
        BY <1>2 DEF JobRec
    <2>2. jobs' = [jobs EXCEPT ![i] = [jobs[i] EXCEPT !.gw = kind]]
        BY <1>1
    <2>3. \A j \in DOMAIN jobs : jobs'[j] = IF j = i THEN [jobs[i] EXCEPT !.gw = kind] ELSE jobs[j]
        BY <1>2, <2>2
    <2>4. jobs' \in Seq(JobRec) /\ Len(jobs') = Len(jobs) /\ DOMAIN jobs' = DOMAIN jobs
        BY <1>2, <2>1, <2>2
    <2> QED BY <1>2, <2>3, <2>4 DEF JobRec
<1>5. Grown
    BY <1>1, <1>4 DEF Grown, Final
<1>6. PICK rep : rep = [job |-> i, kind |-> kind]
    OBVIOUS
<1>7. /\ rep \in Reply /\ rep.job = i /\ rep.kind = kind /\ inbox \in Seq(Reply)
    BY <1>2, <1>6 DEF Reply, TypeOK
<1>8. /\ inbox' \in Seq(Reply)
      /\ \A m \in DOMAIN inbox' : (\E k \in DOMAIN inbox : inbox[k] = inbox'[m]) \/ inbox'[m] = rep
    BY <1>1, <1>6, <1>7
<1>9. TypeOK'
    BY <1>1, <1>2, <1>3, <1>4, <1>8 DEF TypeOK
<1>10. ReplyInv'
    <2>1. ReplyOK(rep)'
        BY <1>4, <1>7 DEF ReplyOK, Given
    <2>2. ASSUME NEW m \in DOMAIN inbox'
          PROVE  (\E k \in DOMAIN inbox : inbox[k] = inbox'[m]) \/ ReplyOK(inbox[m])'
        BY <1>8, <2>1 DEF ReplyOK, Given
    <2> QED BY <1>1, <1>5, <2>2, ReplyKeeps DEF Inv
<1>11. LoopInv'
    BY <1>1, <1>2, <1>4, <1>5, <1>9, LoopKeeps DEF Inv
<1> QED BY <1>9, <1>10, <1>11 DEF Inv

\* What a handler can do: change the status of a run, write a verdict, track, move on.
LEMMA HandlerStepInv ==
    ASSUME Inv, Grown, ReplyInv', handlers' \subseteq Handler,
           runs' \in Seq(RunRec), Len(runs') = Len(runs), written' \subseteq Writeback,
           byJob' \subseteq Pending, byCorr' \subseteq Pending, inbox' \in Seq(Reply),
           UNCHANGED <<brokerVars, loopVars, load, jobs, faultVars>>
    PROVE  Inv'
<1>1. UNCHANGED <<load, broker, deliveries, buffer, pc, cur, run, seen, jobs, crashes,
                  listFaults, lost>>
    BY DEF brokerVars, loopVars, faultVars
<1>2. Event' = Event /\ Dispatchable' = Dispatchable /\ Pending' = Pending
      /\ RunRec' = RunRec /\ JobRec' = JobRec
    BY <1>1, Same
<1>3. TypeOK'
    BY <1>1, <1>2 DEF Inv, TypeOK
<1>4. LoopInv'
    BY <1>1, <1>3, LoopKeeps DEF Inv
<1> QED BY <1>3, <1>4 DEF Inv

Steps == {"find", "accepted", "running", "commit", "submit", "final", "comment"}

LEMMA HandlerFacts ==
    ASSUME Inv, NEW h \in handlers
    PROVE  /\ h \in Handler /\ h.job \in DOMAIN jobs /\ EvOf(h) \in Event
           /\ Attr[EvOf(h)] \in AttrRec /\ Attr[EvOf(h)].blocks \in Seq(Block)
           /\ HandlerOK(h)
           /\ h.at # "find" => h.run \in DOMAIN runs /\ runs[h.run].ev = EvOf(h)
<1>1. h \in Handler /\ HandlerOK(h) /\ load \in Loads /\ \A j \in DOMAIN jobs : jobs[j] \in JobRec
    BY DEF Inv, TypeOK, ReplyInv
<1>2. h.job \in DOMAIN jobs
    BY <1>1 DEF HandlerOK, Given
<1>3. EvOf(h) \in Event
    BY <1>1, <1>2 DEF EvOf, JobRec
<1>4. Attr[EvOf(h)] \in AttrRec
    BY <1>1, <1>3, LoadFacts
<1>5. Attr[EvOf(h)].blocks \in Seq(Block)
    BY <1>4 DEF AttrRec
<1> QED BY <1>1, <1>2, <1>3, <1>4, <1>5 DEF HandlerOK, RunFits

\* A handler that goes on without anything else changing, or ends.
LEMMA MovedFacts ==
    ASSUME NEW h \in Handler, NEW at \in Steps
    PROVE  LET g == [h EXCEPT !.at = at] IN
           /\ g \in Handler /\ g.at = at /\ g.job = h.job /\ g.kind = h.kind /\ g.run = h.run
           /\ g.sha = h.sha /\ EvOf(g) = EvOf(h) /\ Extracted(g) = Extracted(h)
BY DEF Handler, Steps, EvOf, Extracted

LEMMA ReceiveInv == ASSUME Inv, Receive PROVE Inv'
<1>1. PICK m : m = Head(inbox)
    OBVIOUS
<1>2. /\ inbox # <<>> /\ inbox' = Tail(inbox)
      /\ UNCHANGED <<load, broker, deliveries, buffer, pc, cur, run, seen, runs, written, jobs,
                     byJob, byCorr, crashes, listFaults, lost>>
      /\ handlers' = handlers \cup
            IF LocalPending(m.job) = {}
            THEN {NewHandler(m, [run |-> 0, corr |-> m.job, sha |-> FALSE], "find")}
            ELSE {NewHandler(m, p, FirstStep(m.kind)) :
                      p \in {o \in LocalPending(m.job) : o.run # 0}}
    BY <1>1 DEF Receive, brokerVars, loopVars, boardVars, faultVars
<1>3. /\ TypeOK /\ m \in Reply /\ ReplyOK(m) /\ m.job \in DOMAIN jobs /\ inbox' \in Seq(Reply)
      /\ \A k \in DOMAIN inbox' : \E j \in DOMAIN inbox : inbox[j] = inbox'[k]
    <2>1. inbox \in Seq(Reply) /\ 1 \in DOMAIN inbox /\ m = inbox[1] /\ TypeOK
        BY <1>1, <1>2 DEF Inv, TypeOK
    <2>2. ReplyOK(m)
        BY <2>1 DEF Inv, ReplyInv
    <2> QED BY <1>2, <2>1, <2>2 DEF ReplyOK, Given
<1>4. Grown
    BY <1>2 DEF Grown
<1>5. ASSUME NEW h \in handlers' PROVE h \in handlers \/ (h \in Handler /\ HandlerOK(h))
    <2>1. CASE h = NewHandler(m, [run |-> 0, corr |-> m.job, sha |-> FALSE], "find")
        <3>1. /\ h.job = m.job /\ h.kind = m.kind /\ h.at = "find" /\ h \in Handler
            BY <1>3, <2>1 DEF NewHandler, Handler, Reply, TypeOK
        <3> QED BY <1>3, <3>1 DEF HandlerOK, ReplyOK
    <2>2. ASSUME NEW p \in LocalPending(m.job), p.run # 0, h = NewHandler(m, p, FirstStep(m.kind))
          PROVE  h \in Handler /\ HandlerOK(h)
        <3>1. p \in Pending /\ PendingOK(p) /\ p.ev = jobs[m.job].ev
            BY <1>3 DEF LocalPending, Inv, ReplyInv, CorrOK, TypeOK
        <3>2. /\ m.kind \in Final \cup {"accepted"} /\ FirstStep(m.kind) \in Steps
              /\ FirstStep(m.kind) \in {"accepted", "running", "final"}
              /\ FirstStep(m.kind) = "running" => m.kind = "completed"
              /\ FirstStep(m.kind) = "final" => m.kind \in Final /\ m.kind # "completed"
            BY <1>3 DEF Reply, FirstStep, Final, Steps
        <3>3. /\ h.job = m.job /\ h.kind = m.kind /\ h.at = FirstStep(m.kind) /\ h.run = p.run
            BY <2>2 DEF NewHandler
        <3>4. h \in Handler
            BY <1>3, <2>2, <3>1, <3>2 DEF NewHandler, Handler, Pending, Reply, Steps
        <3>5. RunFits(h.run, EvOf(h))
            BY <2>2, <3>1, <3>3 DEF PendingOK, EvOf
        <3> QED BY <1>3, <3>2, <3>3, <3>4, <3>5 DEF HandlerOK, ReplyOK
    <2> QED BY <1>2, <1>5, <2>1, <2>2
<1>6. ReplyInv'
    <2>1. \A h \in handlers' : h \in handlers \/ HandlerOK(h)'
        BY <1>4, <1>5, GrownHandler
    <2> QED BY <1>2, <1>3, <1>4, <2>1, ReplyKeeps DEF Inv
<1>7. handlers' \subseteq Handler
    BY <1>3, <1>5 DEF TypeOK
<1> QED BY <1>2, <1>3, <1>4, <1>6, <1>7, HandlerStepInv DEF TypeOK, brokerVars, loopVars, faultVars

\* findBySession(): the run that is found is one of the event of the reply's job.
LEMMA FindInv == ASSUME Inv, NEW h \in handlers, Find(h) PROVE Inv'
<1>1. /\ h.at = "find"
      /\ UNCHANGED <<load, broker, deliveries, buffer, pc, cur, run, seen, runs, written, jobs,
                     inbox, crashes, listFaults, lost>>
    BY DEF Find, brokerVars, loopVars, boardVars, faultVars
<1>2. /\ TypeOK /\ h \in Handler /\ HandlerOK(h) /\ h.job \in DOMAIN jobs /\ EvOf(h) \in Event
    BY HandlerFacts DEF Inv
<1>3. Grown
    BY <1>1 DEF Grown
<1>4. ASSUME NEW r \in RunsOf(EvOf(h)),
             Track([corr |-> h.job, ev |-> EvOf(h), run |-> r, sha |-> FALSE]),
             handlers' = (handlers \ {h}) \cup {[h EXCEPT !.run = r, !.at = FirstStep(h.kind)]}
      PROVE  Inv'
    <2>1. PICK p : p = [corr |-> h.job, ev |-> EvOf(h), run |-> r, sha |-> FALSE]
        OBVIOUS
    <2>2. PICK g : g = [h EXCEPT !.run = r, !.at = FirstStep(h.kind)]
        OBVIOUS
    <2>3. r \in DOMAIN runs /\ runs[r].ev = EvOf(h) /\ r \in Nat /\ h.job \in Nat
        BY <1>2 DEF RunsOf, TypeOK
    <2>4. /\ p \in Pending /\ byJob' \subseteq byJob \cup {p} /\ byCorr' \subseteq byCorr \cup {p}
        BY <1>2, <1>4, <2>1, <2>3 DEF Track, Pending
    <2>5. PendingOK(p) /\ CorrOK(p)
        BY <1>2, <2>1, <2>3 DEF PendingOK, CorrOK, RunFits, EvOf
    <2>6. /\ FirstStep(h.kind) \in {"accepted", "running", "final"}
          /\ FirstStep(h.kind) = "running" => h.kind = "completed"
          /\ FirstStep(h.kind) = "final" => h.kind \in Final /\ h.kind # "completed"
        BY <1>2 DEF Handler, FirstStep, Final
    <2>7. /\ g \in Handler /\ g.job = h.job /\ g.kind = h.kind /\ g.run = r
          /\ g.at = FirstStep(h.kind)
        BY <1>2, <2>2, <2>3, <2>6 DEF Handler
    <2>8. HandlerOK(g)
        BY <1>2, <2>3, <2>6, <2>7 DEF HandlerOK, RunFits, EvOf
    <2>9. ReplyInv'
        <3>1. PendingOK(p)' /\ CorrOK(p)' /\ HandlerOK(g)'
            BY <1>3, <2>5, <2>8, GrownPending, GrownHandler
        <3>2. handlers' \subseteq handlers \cup {g}
            BY <1>4, <2>2
        <3> QED BY <1>1, <1>3, <2>4, <3>1, <3>2, ReplyKeeps DEF Inv
    <2>10. handlers' \subseteq Handler /\ byJob' \subseteq Pending /\ byCorr' \subseteq Pending
        BY <1>2, <1>4, <2>2, <2>4, <2>7 DEF TypeOK
    <2> QED BY <1>1, <1>2, <1>3, <2>9, <2>10, HandlerStepInv DEF TypeOK, brokerVars, loopVars,
            faultVars
<1>5. ASSUME \/ handlers' = handlers \ {h}
             \/ h.q < 4 /\ handlers' = (handlers \ {h}) \cup {[h EXCEPT !.q = @ + 1]},
             UNCHANGED <<byJob, byCorr>>
      PROVE  Inv'
    <2>1. PICK g : g = [h EXCEPT !.q = @ + 1]
        OBVIOUS
    <2>2. h.q < 4 => g \in Handler /\ HandlerOK(g)
        <3>1. SUFFICES ASSUME h.q < 4 PROVE g \in Handler /\ HandlerOK(g)
            OBVIOUS
        <3>2. g \in Handler /\ g.job = h.job /\ g.kind = h.kind /\ g.at = "find"
            BY <1>1, <1>2, <2>1, <3>1 DEF Handler
        <3> QED BY <1>2, <3>2 DEF HandlerOK
    <2>3. \A f \in handlers' : f \in handlers \/ (f \in Handler /\ HandlerOK(f))
        BY <1>5, <2>1, <2>2
    <2>4. ReplyInv'
        <3>1. \A f \in handlers' : f \in handlers \/ HandlerOK(f)'
            BY <1>3, <2>3, GrownHandler
        <3> QED BY <1>1, <1>3, <1>5, <3>1, ReplyKeeps DEF Inv
    <2>5. handlers' \subseteq Handler
        BY <1>2, <2>3 DEF TypeOK
    <2> QED BY <1>1, <1>2, <1>3, <1>5, <2>4, <2>5, HandlerStepInv DEF TypeOK, brokerVars, loopVars,
            faultVars
<1> QED BY <1>4, <1>5 DEF Find, Done

\* accepted: the run is patched, or not, and the handler ends.
LEMMA HandleAcceptedInv == ASSUME Inv, NEW h \in handlers, HandleAccepted(h) PROVE Inv'
<1>1. /\ h.at = "accepted" /\ MaybePatch(h.run, "spawning") /\ handlers' = handlers \ {h}
      /\ UNCHANGED <<load, broker, deliveries, buffer, pc, cur, run, seen, written, jobs,
                     inbox, byJob, byCorr, crashes, listFaults, lost>>
    BY DEF HandleAccepted, Done, brokerVars, loopVars, faultVars
<1>2. /\ TypeOK /\ h.run \in DOMAIN runs /\ "spawning" \in Status /\ "spawning" \notin Terminal
    BY <1>1, HandlerFacts DEF Inv, Status, Terminal
<1>3. /\ runs' \in Seq(RunRec) /\ Len(runs') = Len(runs) /\ DOMAIN runs' = DOMAIN runs
      /\ \A q \in DOMAIN runs :
            /\ runs'[q].ev = runs[q].ev /\ runs'[q].blind = runs[q].blind
            /\ runs'[q].status = runs[q].status \/ runs'[q].status = "spawning"
    BY <1>1, <1>2, MaybePatchFacts
<1>4. Grown
    BY <1>1, <1>3 DEF Grown
<1>5. ReplyInv'
    BY <1>1, <1>2, <1>3, <1>4, ReplyKeeps DEF Inv
<1> QED BY <1>1, <1>2, <1>3, <1>4, <1>5, HandlerStepInv DEF TypeOK, brokerVars, loopVars, faultVars

\* A write-back is one of the reply's own verdict, of none because there is none, or is refused.
LEMMA WroteFacts ==
    ASSUME Inv, NEW h \in handlers, NEW action \in {"submitted", "skipped", "failed"},
           NEW v \in Verdict \cup {None}, Wrote(h, action, v), UNCHANGED <<load, jobs>>,
           action = "submitted" => \E n \in DOMAIN Attr[EvOf(h)].blocks :
                normalizeReviewVerdict(Attr[EvOf(h)].blocks[n].verdict) = v,
           action = "skipped" =>
                \/ ~Attr[EvOf(h)].token
                \/ \A n \in DOMAIN Attr[EvOf(h)].blocks :
                        Attr[EvOf(h)].blocks[n].verdict = "unknown",
           action = "failed" => BoardFails
    PROVE  /\ written \subseteq written' /\ written' \subseteq Writeback
           /\ VerdictTaken(EvOf(h))'
<1>1. PICK w : w = [job |-> h.job, action |-> action, verdict |-> v]
    OBVIOUS
<1>2. /\ w.job = h.job /\ w.action = action /\ w.verdict = v /\ written' = written \cup {w}
    BY <1>1 DEF Wrote
<1>3. h.job \in DOMAIN jobs /\ h.job \in Nat /\ written \subseteq Writeback
    BY HandlerFacts DEF Inv, TypeOK
<1>4. w \in Writeback
    BY <1>1, <1>3 DEF Writeback
<1>5. PICK e : e = EvOf(h)
    OBVIOUS
<1>6. Attr' = Attr /\ BoardFails' = BoardFails /\ EvOf(h)' = EvOf(h)
    BY Same DEF EvOf
<1>7. Taken(w, e)'
    BY <1>2, <1>3, <1>5, <1>6 DEF Taken, EvOf
<1>8. VerdictTaken(e)'
    BY <1>2, <1>7 DEF VerdictTaken
<1> QED BY <1>2, <1>3, <1>4, <1>5, <1>6, <1>8 DEF VerdictTaken, Taken

\* A handler becomes another one of the same reply, and a verdict may be written on the way.
LEMMA StepOnInv ==
    ASSUME Inv, NEW h \in handlers, NEW g \in Handler,
           g.job = h.job, g.kind = h.kind, g.run = h.run,
           h.at # "find",
           g.at \in {"running", "commit", "submit"} => h.kind = "completed",
           g.at \in {"final", "comment"} => h.kind \in Final,
           g.at \in {"commit", "submit"} => EvOf(h) \in Review /\ Extracted(h).verdict # None,
           g.at \in {"final", "comment"} /\ h.kind = "completed" /\ EvOf(h) \in Review =>
                VerdictTaken(EvOf(h))',
           handlers' = (handlers \ {h}) \cup {g},
           Grown, runs' \in Seq(RunRec), Len(runs') = Len(runs), written' \subseteq Writeback,
           \A r \in DOMAIN runs' :
               \/ r \in DOMAIN runs /\ runs'[r].status = runs[r].status
               \/ runs'[r].status \notin Terminal
               \/ RunOK(r)',
           UNCHANGED <<brokerVars, loopVars, load, jobs, inbox, byJob, byCorr, faultVars>>
    PROVE  Inv'
<1>1. /\ h.job \in DOMAIN jobs /\ HandlerOK(h) /\ EvOf(h) \in Event
      /\ h.run \in DOMAIN runs /\ runs[h.run].ev = EvOf(h)
    BY HandlerFacts
<1>2. /\ EvOf(g) = EvOf(h) /\ EvOf(g)' = EvOf(g) /\ EvOf(h)' = EvOf(h)
      /\ Review' = Review /\ Attr' = Attr
      /\ Extracted(g)' = Extracted(h)
    BY Same DEF EvOf, Extracted
<1>3. PICK e : e = EvOf(h)
    OBVIOUS
<1>4. VerdictTaken(EvOf(h))' => VerdictTaken(e)'
    BY <1>2, <1>3 DEF VerdictTaken, Taken
<1>5. Given(g.job, g.kind)' /\ RunFits(g.run, e)'
    BY <1>1, <1>3 DEF Grown, HandlerOK, Given, RunFits
<1>6. HandlerOK(g)'
    BY <1>1, <1>2, <1>3, <1>4, <1>5 DEF HandlerOK
<1>7. ReplyInv'
    BY <1>6, ReplyKeeps DEF Inv
<1>8. TypeOK /\ handlers' \subseteq Handler
    BY DEF Inv, TypeOK
<1> QED BY <1>7, <1>8, HandlerStepInv DEF TypeOK

\* completed: 'running', then a review's verdict is looked for in the output.
LEMMA HandleRunningInv == ASSUME Inv, NEW h \in handlers, HandleRunning(h) PROVE Inv'
<1> DEFINE x == Extracted(h)
           sha == IF x.sha THEN "reply" ELSE h.sha
<1>1. /\ h.at = "running" /\ MaybePatch(h.run, "running")
      /\ UNCHANGED <<brokerVars, loopVars, load, jobs, inbox, byJob, byCorr, faultVars>>
    BY DEF HandleRunning
<1>2. /\ TypeOK /\ h \in Handler /\ h.run \in DOMAIN runs /\ h.kind = "completed"
      /\ "running" \in Status /\ "running" \notin Terminal /\ h.kind \in Final
    BY <1>1, HandlerFacts DEF Inv, Status, Terminal, HandlerOK, Final
<1>3. /\ runs' \in Seq(RunRec) /\ Len(runs') = Len(runs) /\ DOMAIN runs' = DOMAIN runs
      /\ \A q \in DOMAIN runs :
            /\ runs'[q].ev = runs[q].ev /\ runs'[q].blind = runs[q].blind
            /\ runs'[q].status = runs[q].status \/ runs'[q].status \notin Terminal
    BY <1>1, <1>2, MaybePatchFacts
<1>4. written \subseteq written' => Grown
    BY <1>1, <1>3 DEF Grown
<1>5. /\ x.verdict \in Verdict \cup {None}
      /\ x.verdict = None => \A n \in DOMAIN Attr[EvOf(h)].blocks :
                                Attr[EvOf(h)].blocks[n].verdict = "unknown"
    BY HandlerFacts, ExtractFacts DEF Extracted
<1>6. CASE EvOf(h) \notin Review /\ Moved(h, "final") /\ UNCHANGED written
    <2>1. PICK g : g = [h EXCEPT !.at = "final"]
        OBVIOUS
    <2>2. g \in Handler /\ g.at = "final" /\ g.job = h.job /\ g.kind = h.kind /\ g.run = h.run
        BY <1>2, <2>1 DEF Handler
    <2>3. handlers' = (handlers \ {h}) \cup {g} /\ written' \subseteq Writeback
        BY <1>2, <1>6, <2>1 DEF Moved, TypeOK
    <2> QED BY <1>1, <1>2, <1>3, <1>4, <1>6, <2>2, <2>3, StepOnInv
<1>7. CASE x.verdict = None /\ Moved(h, "final") /\ Wrote(h, "skipped", None)
    <2>1. PICK g : g = [h EXCEPT !.at = "final"]
        OBVIOUS
    <2>2. g \in Handler /\ g.at = "final" /\ g.job = h.job /\ g.kind = h.kind /\ g.run = h.run
        BY <1>2, <2>1 DEF Handler
    <2>3. written \subseteq written' /\ written' \subseteq Writeback /\ VerdictTaken(EvOf(h))'
        BY <1>1, <1>5, <1>7, WroteFacts DEF Verdict
    <2>4. handlers' = (handlers \ {h}) \cup {g}
        BY <1>7, <2>1 DEF Moved
    <2> QED BY <1>1, <1>2, <1>3, <1>4, <2>2, <2>3, <2>4, StepOnInv
<1>8. CASE /\ EvOf(h) \in Review /\ x.verdict # None /\ UNCHANGED written
           /\ handlers' = (handlers \ {h}) \cup
                  {[h EXCEPT !.sha = sha, !.at = IF sha = None THEN "commit" ELSE "submit"]}
    <2>1. PICK g : g = [h EXCEPT !.sha = sha, !.at = IF sha = None THEN "commit" ELSE "submit"]
        OBVIOUS
    <2>2. sha \in {"reply", "event", "task", None}
        BY <1>2 DEF Handler
    <2> HIDE DEF sha
    <2>3. /\ g \in Handler /\ g.at \in {"commit", "submit"} /\ g.job = h.job /\ g.kind = h.kind
          /\ g.run = h.run
        BY <1>2, <2>1, <2>2 DEF Handler
    <2>4. handlers' = (handlers \ {h}) \cup {g} /\ written' \subseteq Writeback
        BY <1>2, <1>8, <2>1 DEF TypeOK
    <2> QED BY <1>1, <1>2, <1>3, <1>4, <1>8, <2>3, <2>4, StepOnInv
<1> QED BY <1>6, <1>7, <1>8 DEF HandleRunning

LEMMA FetchCommitInv ==
    ASSUME Inv, NEW h \in handlers, NEW sha \in {"task", None}, FetchCommit(h, sha) PROVE Inv'
<1>1. PICK g : g = [h EXCEPT !.sha = sha, !.at = "submit"]
    OBVIOUS
<1>2. /\ h.at = "commit" /\ handlers' = (handlers \ {h}) \cup {g}
      /\ UNCHANGED <<brokerVars, loopVars, load, runs, written, jobs, inbox, byJob, byCorr,
                      faultVars>>
    BY <1>1 DEF FetchCommit, boardVars
<1>3. /\ TypeOK /\ h \in Handler /\ h.kind = "completed" /\ h.kind \in Final
      /\ EvOf(h) \in Review /\ Extracted(h).verdict # None
    BY <1>2, HandlerFacts DEF Inv, HandlerOK, Final
<1>4. g \in Handler /\ g.at = "submit" /\ g.job = h.job /\ g.kind = h.kind /\ g.run = h.run
    BY <1>1, <1>3 DEF Handler
<1>5. Grown /\ runs' \in Seq(RunRec) /\ Len(runs') = Len(runs) /\ written' \subseteq Writeback
    BY <1>2, <1>3 DEF Grown, TypeOK
<1> QED BY <1>2, <1>3, <1>4, <1>5, StepOnInv

LEMMA SubmitReviewInv == ASSUME Inv, NEW h \in handlers, SubmitReview(h) PROVE Inv'
<1>1. PICK g : g = [h EXCEPT !.at = "final"]
    OBVIOUS
<1>2. PICK v : v = Extracted(h).verdict
    OBVIOUS
<1>3. PICK action \in {"submitted", "skipped", "failed"} :
        /\ Wrote(h, action, v)
        /\ action = "failed" => BoardFails
        /\ action = "skipped" => ~Attr[EvOf(h)].token
    BY <1>2 DEF SubmitReview
<1>4. /\ h.at = "submit" /\ handlers' = (handlers \ {h}) \cup {g}
      /\ UNCHANGED <<brokerVars, loopVars, load, runs, jobs, inbox, byJob, byCorr, faultVars>>
    BY <1>1 DEF SubmitReview, Moved
<1>5. /\ TypeOK /\ h \in Handler /\ h.kind = "completed" /\ h.kind \in Final /\ v # None
    BY <1>2, <1>4, HandlerFacts DEF Inv, HandlerOK, Final
<1>6. g \in Handler /\ g.at = "final" /\ g.job = h.job /\ g.kind = h.kind /\ g.run = h.run
    BY <1>1, <1>5 DEF Handler
<1>7. /\ v \in Verdict \cup {None}
      /\ \E n \in DOMAIN Attr[EvOf(h)].blocks :
            normalizeReviewVerdict(Attr[EvOf(h)].blocks[n].verdict) = v
    BY <1>2, <1>5, HandlerFacts, ExtractFacts DEF Extracted
<1>8. written \subseteq written' /\ written' \subseteq Writeback /\ VerdictTaken(EvOf(h))'
    BY <1>3, <1>4, <1>7, WroteFacts
<1>9. Grown /\ runs' \in Seq(RunRec) /\ Len(runs') = Len(runs)
    BY <1>4, <1>5, <1>8 DEF Grown, TypeOK
<1> QED BY <1>4, <1>5, <1>6, <1>8, <1>9, StepOnInv

\* The final status is the gateway's answer to a job of the run's event.
LEMMA HandleFinalInv == ASSUME Inv, NEW h \in handlers, HandleFinal(h) PROVE Inv'
<1> DEFINE st == FinalStatus(h.kind)
<1>1. /\ h.at = "final" /\ MaybePatch(h.run, st)
      /\ UNCHANGED <<brokerVars, loopVars, load, written, jobs, inbox, byJob, byCorr, faultVars>>
    BY DEF HandleFinal, MaybePatch
<1>2. /\ TypeOK /\ h \in Handler /\ h.run \in DOMAIN runs /\ runs[h.run].ev = EvOf(h)
      /\ h.kind \in Final /\ h.job \in DOMAIN jobs /\ jobs[h.job].gw = h.kind
      /\ h.kind = "completed" /\ EvOf(h) \in Review => VerdictTaken(EvOf(h))
    BY <1>1, HandlerFacts DEF Inv, HandlerOK, Given
<1>3. st \in Status /\ (st = "succeeded" => h.kind = "completed")
    BY <1>2 DEF Status, Terminal, FinalStatus, Final
<1>4. /\ runs' \in Seq(RunRec) /\ Len(runs') = Len(runs) /\ DOMAIN runs' = DOMAIN runs
      /\ \A q \in DOMAIN runs :
            /\ runs'[q].ev = runs[q].ev /\ runs'[q].blind = runs[q].blind
            /\ runs'[q].status = runs[q].status \/ (q = h.run /\ runs'[q].status = st)
    BY <1>1, <1>2, <1>3, MaybePatchFacts
<1>5. Grown /\ written' \subseteq Writeback
    BY <1>1, <1>2, <1>4 DEF Grown, TypeOK
<1>6. PICK e : e = EvOf(h)
    OBVIOUS
<1>7. e \in Review /\ st = "succeeded" => VerdictTaken(e)'
    BY <1>2, <1>3, <1>5, <1>6, GrownVerdict
<1>8. runs'[h.run].status = st => RunOK(h.run)'
    <2>1. h.job \in SentJobs(e)' /\ jobs'[h.job].gw \in Final /\ FinalStatus(jobs'[h.job].gw) = st
        BY <1>1, <1>2, <1>6 DEF SentJobs, EvOf
    <2>2. runs'[h.run].ev = e /\ Review' = Review
        BY <1>1, <1>2, <1>4, <1>6, Same
    <2> HIDE DEF st
    <2> QED BY <1>7, <2>1, <2>2 DEF RunOK
<1>9. \A r \in DOMAIN runs' :
          \/ r \in DOMAIN runs /\ runs'[r].status = runs[r].status
          \/ RunOK(r)'
    BY <1>4, <1>8
<1>10. CASE handlers' = handlers \ {h}
    <2>1. ReplyInv'
        BY <1>1, <1>5, <1>9, <1>10, ReplyKeeps DEF Inv
    <2> QED BY <1>1, <1>2, <1>4, <1>5, <1>10, <2>1, HandlerStepInv DEF TypeOK
<1>11. CASE Moved(h, "comment")
    <2>1. PICK g : g = [h EXCEPT !.at = "comment"]
        OBVIOUS
    <2>2. g \in Handler /\ g.at = "comment" /\ g.job = h.job /\ g.kind = h.kind /\ g.run = h.run
        BY <1>2, <2>1 DEF Handler
    <2>3. handlers' = (handlers \ {h}) \cup {g}
        BY <1>11, <2>1 DEF Moved
    <2>4. h.kind = "completed" /\ EvOf(h) \in Review => VerdictTaken(EvOf(h))'
        <3>1. VerdictTaken(e) => VerdictTaken(e)'
            BY <1>5, GrownVerdict
        <3>2. EvOf(h)' = EvOf(h)
            BY <1>1 DEF EvOf
        <3> QED BY <1>2, <1>6, <3>1, <3>2 DEF VerdictTaken, Taken
    <2> QED BY <1>1, <1>2, <1>4, <1>5, <1>9, <2>2, <2>3, <2>4, StepOnInv
<1> QED BY <1>10, <1>11 DEF HandleFinal, Done

LEMMA HandleCommentInv == ASSUME Inv, NEW h \in handlers, HandleComment(h) PROVE Inv'
<1>1. /\ handlers' \subseteq handlers /\ byJob' \subseteq byJob /\ byCorr' \subseteq byCorr
      /\ UNCHANGED <<brokerVars, loopVars, load, runs, written, jobs, inbox, faultVars>>
    BY DEF HandleComment, Done, boardVars
<1>2. TypeOK
    BY DEF Inv
<1>3. Grown
    BY <1>1 DEF Grown
<1>4. ReplyInv'
    BY <1>1, <1>3, ReplyKeeps DEF Inv
<1> QED BY <1>1, <1>2, <1>3, <1>4, HandlerStepInv DEF TypeOK

------------------------------------------------------------------------------
LEMMA HandleInv == ASSUME Inv, NEW h \in handlers, Handle(h) PROVE Inv'
<1>1. CASE Find(h) BY <1>1, FindInv
<1>2. CASE HandleAccepted(h) BY <1>2, HandleAcceptedInv
<1>3. CASE HandleRunning(h) BY <1>3, HandleRunningInv
<1>4. CASE SubmitReview(h) BY <1>4, SubmitReviewInv
<1>5. CASE \E sha \in {"task", None} : FetchCommit(h, sha) BY <1>5, FetchCommitInv
<1>6. CASE HandleFinal(h) BY <1>6, HandleFinalInv
<1>7. CASE HandleComment(h) BY <1>7, HandleCommentInv
<1> QED BY <1>1, <1>2, <1>3, <1>4, <1>5, <1>6, <1>7 DEF Handle

LEMMA LoopStepInv == ASSUME Inv, Loop PROVE Inv'
<1>1. CASE TakeGarbage \/ TakeIgnored \/ TakeEvent
    BY <1>1, TakeGarbageInv, TakeIgnoredInv, TakeEventInv
<1>2. CASE ListRuns \/ CreateRun
    BY <1>2, ListRunsInv, CreateRunInv
<1>3. CASE UpdateDispatching \/ UpdatePreflight \/ UpdateSpawning
    BY <1>3, LoopUpdatesInv
<1>4. CASE SendOk \/ Dispatched
    BY <1>4, SendOkInv, DispatchedInv
<1> QED BY <1>1, <1>2, <1>3, <1>4 DEF Loop

LEMMA StepInv == Inv /\ [Next]_vars => Inv'
<1> SUFFICES ASSUME Inv, [Next]_vars PROVE Inv'
    OBVIOUS
<1>1. CASE \E e \in Event : Deliver(e) \/ AckWait(e)
    BY <1>1, DeliverInv, AckWaitInv
<1>2. CASE Loop
    BY <1>2, LoopStepInv
<1>3. CASE ListFails \/ SendFails \/ Crash \/ Restart
    BY <1>3, ListFailsInv, SendFailsInv, CrashInv, RestartInv
<1>4. CASE \E i \in DOMAIN jobs, k \in Final \cup {"accepted"} : GatewayReplies(i, k)
    BY <1>4, GatewayRepliesInv
<1>5. CASE Receive
    BY <1>5, ReceiveInv
<1>6. CASE \E h \in handlers : Handle(h)
    BY <1>6, HandleInv
<1>7. CASE UNCHANGED vars
    <2>1. UNCHANGED <<load, broker, deliveries, pc, cur, run, seen, runs, jobs, inbox, byJob,
                      byCorr, handlers, written, crashes, listFaults, lost>> /\ buffer' = buffer
        BY <1>7 DEF vars
    <2>2. TypeOK /\ TypeOK'
        BY <2>1, Same DEF Inv, TypeOK
    <2>3. broker \in [Event -> BrokerState] /\ buffer \in Seq(Event)
        BY <2>2 DEF TypeOK, BrokerState
    <2> QED BY <2>1, <2>3, BrokerInv DEF boardVars, replyVars, faultVars
<1> QED BY <1>1, <1>2, <1>3, <1>4, <1>5, <1>6, <1>7 DEF Next

LEMMA Invariance == Spec => []Inv
<1>1. Init => Inv
    BY InitInv
<1>2. Inv /\ [Next]_vars => Inv'
    BY StepInv
<1> QED BY <1>1, <1>2, PTL DEF Spec

\* The fields of pending records, runs, jobs and messages have the types the dispatcher gives them.
THEOREM TypeCorrect == Spec => []TypeOK
<1>1. Inv => TypeOK
    BY DEF Inv
<1> QED BY <1>1, Invariance, PTL

\* However often an event is redelivered and wherever the process dies: its message is acked only
\* once a job was sent for it, one life of the process sends a second job only after the first was
\* reported as failed, and one run stands for it unless a listing failed.
THEOREM OneJobOneRunHolds == Spec => []OneJobOneRun
<1>1. Inv => OneJobOneRun
    BY InvSafe
<1> QED BY <1>1, Invariance, PTL

\* A final status is the gateway's answer to a job of the run's own event, in whatever order replies
\* arrive and their handlers interleave.
THEOREM OutcomeHolds == Spec => []OutcomeIsTheGateways
<1>1. Inv => OutcomeIsTheGateways
    BY InvSafe
<1> QED BY <1>1, Invariance, PTL

\* A review's run has succeeded only after the verdict of its reply went to the task board.
THEOREM VerdictBeforeSuccessHolds == Spec => []VerdictBeforeSuccess
<1>1. Inv => VerdictBeforeSuccess
    BY InvSafe
<1> QED BY <1>1, Invariance, PTL

------------------------------------------------------------------------------
(* The bridge: a webhook past the checks is genuine; what is stored under an id's current era  *)
(* is in the duplicate window, and what is in the window is stored.                            *)

StoredInv ==
    /\ Bridge!StoredOncePerWindow /\ Bridge!OnlyGenuineStored
    /\ \A i \in DOMAIN stored :
          /\ stored[i].era <= era[stored[i].ev]
          /\ stored[i].era = era[stored[i].ev] => stored[i].ev \in window
    /\ \A e \in window : Bridge!Stored(e)
AdmittedInv == \A r \in Req : req[r] \in {"ensure", "publish", "202"} => Bridge!Genuine(r)
BridgeInv == Bridge!TypeOK /\ StoredInv /\ AdmittedInv /\ Bridge!AcceptedIsStored

LEMMA BridgeInitInv == ASSUME Bridge!BridgeAssumption, Bridge!Init PROVE BridgeInv
<1>1. Bridge!TypeOK
    BY DEF Bridge!BridgeAssumption, Bridge!Init, Bridge!TypeOK
<1>2. StoredInv
    BY DEF Bridge!Init, StoredInv, Bridge!StoredOncePerWindow, Bridge!OnlyGenuineStored
<1>3. AdmittedInv /\ Bridge!AcceptedIsStored
    BY DEF Bridge!Init, AdmittedInv, Bridge!AcceptedIsStored
<1> QED BY <1>1, <1>2, <1>3 DEF BridgeInv

\* The stream takes a message that a genuine webhook published.
LEMMA StoresInv ==
    ASSUME Bridge!BridgeAssumption, BridgeInv, NEW r \in Req, req[r] = "publish",
           Bridge!Stores(r), UNCHANGED era
    PROVE  /\ stored' \in Seq([ev : Ids, era : Nat]) /\ window' \subseteq Ids
           /\ StoredInv' /\ Bridge!Stored(Webhook[r].ev)'
           /\ \A e \in Ids : Bridge!Stored(e) => Bridge!Stored(e)'
<1>1. PICK e : e = Webhook[r].ev
    OBVIOUS
<1>2. /\ e \in Ids /\ era \in [Ids -> Nat] /\ stored \in Seq([ev : Ids, era : Nat])
      /\ window \subseteq Ids /\ DOMAIN stored = 1 .. Len(stored) /\ Len(stored) \in Nat
      /\ window' = window \cup {e} /\ Bridge!Genuine(r)
    BY <1>1 DEF Bridge!BridgeAssumption, BridgeInv, Bridge!TypeOK, Bridge!Stores, Bridge!MsgID,
                AdmittedInv
<1>3. CASE e \in window
    <2>1. stored' = stored /\ window' = window
        BY <1>1, <1>2, <1>3 DEF Bridge!Stores, Bridge!MsgID
    <2>2. StoredInv'
        BY <2>1 DEF BridgeInv, StoredInv, Bridge!StoredOncePerWindow, Bridge!OnlyGenuineStored,
                    Bridge!Stored
    <2>3. \A f \in Ids : Bridge!Stored(f) => Bridge!Stored(f)'
        BY <2>1 DEF Bridge!Stored
    <2>4. Bridge!Stored(e)'
        BY <1>2, <1>3, <2>3 DEF BridgeInv, StoredInv
    <2> QED BY <1>1, <1>2, <2>1, <2>2, <2>3, <2>4
<1>4. CASE e \notin window
    <2>1. PICK m : m = [ev |-> e, era |-> era[e]]
        OBVIOUS
    <2>2. m \in [ev : Ids, era : Nat] /\ m.ev = e /\ m.era = era[e]
        BY <1>2, <2>1
    <2>3. stored' = Append(stored, m)
        BY <1>1, <1>2, <1>4, <2>1 DEF Bridge!Stores, Bridge!MsgID
    <2>4. /\ stored' \in Seq([ev : Ids, era : Nat]) /\ DOMAIN stored' = 1 .. Len(stored) + 1
          /\ stored'[Len(stored) + 1] = m
          /\ \A i \in DOMAIN stored : stored'[i] = stored[i]
        BY <1>2, <2>2, <2>3
    <2>5. \A i \in DOMAIN stored : stored[i] # m
        BY <1>2, <1>4, <2>2 DEF BridgeInv, StoredInv
    <2>6. Bridge!StoredOncePerWindow'
        <3> SUFFICES ASSUME NEW i \in DOMAIN stored', NEW j \in DOMAIN stored',
                            stored'[i] = stored'[j]
                     PROVE  i = j
            BY DEF Bridge!StoredOncePerWindow
        <3>1. CASE i \in DOMAIN stored /\ j \in DOMAIN stored
            BY <2>4, <3>1 DEF BridgeInv, StoredInv, Bridge!StoredOncePerWindow
        <3> QED BY SMTT(40), <1>2, <2>4, <2>5, <3>1
    <2>7. Bridge!OnlyGenuineStored'
        <3>1. Webhook[r].signature = "good" /\ Webhook[r].timestamp = "fresh"
              /\ Bridge!WellFormed(r)
            BY <1>2 DEF Bridge!Genuine, Bridge!Verified
        <3> SUFFICES ASSUME NEW i \in DOMAIN stored'
                     PROVE  \E q \in Req :
                               /\ Webhook[q].ev = stored'[i].ev
                               /\ Webhook[q].signature = "good" /\ Webhook[q].timestamp = "fresh"
                               /\ Bridge!WellFormed(q)
            BY DEF Bridge!OnlyGenuineStored, Bridge!WellFormed
        <3>2. CASE i \in DOMAIN stored
            BY <2>4, <3>2 DEF BridgeInv, StoredInv, Bridge!OnlyGenuineStored
        <3>3. CASE i = Len(stored) + 1
            BY <1>1, <2>2, <2>4, <3>1, <3>3
        <3> QED BY <1>2, <2>4, <3>2, <3>3
    <2>8. \A i \in DOMAIN stored' :
             /\ stored'[i].era <= era[stored'[i].ev]
             /\ stored'[i].era = era[stored'[i].ev] => stored'[i].ev \in window'
        <3> SUFFICES ASSUME NEW i \in DOMAIN stored'
                     PROVE  /\ stored'[i].era <= era[stored'[i].ev]
                            /\ stored'[i].era = era[stored'[i].ev] => stored'[i].ev \in window'
            OBVIOUS
        <3>1. CASE i \in DOMAIN stored
            BY <1>2, <2>4, <3>1 DEF BridgeInv, StoredInv
        <3>2. CASE i = Len(stored) + 1
            BY <1>2, <2>2, <2>4, <3>2
        <3> QED BY <1>2, <2>4, <3>1, <3>2
    <2>9. \A f \in Ids : Bridge!Stored(f) => Bridge!Stored(f)'
        BY <1>2, <2>4 DEF Bridge!Stored
    <2>10. Bridge!Stored(e)'
        BY <1>2, <2>2, <2>4 DEF Bridge!Stored
    <2>11. \A f \in window' : Bridge!Stored(f)'
        BY <1>2, <2>9, <2>10 DEF BridgeInv, StoredInv
    <2> QED BY <1>1, <1>2, <2>4, <2>6, <2>7, <2>8, <2>9, <2>10, <2>11 DEF StoredInv
<1> QED BY <1>3, <1>4

\* Steps that store nothing and leave the window alone.
LEMMA StoredStays ==
    ASSUME StoredInv, UNCHANGED <<stored, window, era>>
    PROVE  StoredInv' /\ \A e : Bridge!Stored(e) => Bridge!Stored(e)'
BY DEF StoredInv, Bridge!StoredOncePerWindow, Bridge!OnlyGenuineStored, Bridge!Stored

LEMMA PostInv ==
    ASSUME Bridge!BridgeAssumption, BridgeInv, NEW r \in Req, Bridge!Post(r)
    PROVE  BridgeInv'
<1>1. UNCHANGED <<stream, stored, window, up, era, outages, slides, deletes>>
    BY DEF Bridge!Post, Bridge!env
<1>2. /\ req \in [Req -> {"new", "ensure", "publish", "202", "400", "401", "503"}]
      /\ \E s \in {"ensure", "publish", "400", "401"} :
            /\ req' = [req EXCEPT ![r] = s]
            /\ s \in {"ensure", "publish"} => Bridge!Genuine(r)
            /\ s = "ensure" => ready' = "pending"
            /\ s # "ensure" => ready' = ready
      /\ ready' \in {"null", "pending", "ok"} /\ (ready = "pending" => ready' = "pending")
    BY DEF Bridge!Post, BridgeInv, Bridge!TypeOK
<1>3. Bridge!TypeOK'
    BY <1>1, <1>2 DEF BridgeInv, Bridge!TypeOK
<1>4. AdmittedInv'
    BY <1>2 DEF BridgeInv, AdmittedInv, Bridge!Genuine, Bridge!Verified, Bridge!WellFormed
<1>5. StoredInv' /\ \A e : Bridge!Stored(e) => Bridge!Stored(e)'
    BY <1>1, StoredStays DEF BridgeInv
<1>6. Bridge!AcceptedIsStored'
    BY <1>2, <1>5 DEF BridgeInv, Bridge!AcceptedIsStored
<1> QED BY <1>3, <1>4, <1>5, <1>6 DEF BridgeInv

LEMMA PublishInv ==
    ASSUME Bridge!BridgeAssumption, BridgeInv, NEW r \in Req,
           Bridge!Publish(r) \/ Bridge!PublishFails(r)
    PROVE  BridgeInv'
<1>1. /\ req[r] = "publish" /\ UNCHANGED <<ready, stream, up, era, slides, deletes>>
      /\ \/ req' = [req EXCEPT ![r] = "202"] /\ Bridge!Stores(r)
         \/ req' = [req EXCEPT ![r] = "503"] /\ (Bridge!Stores(r) \/ UNCHANGED <<stored, window>>)
    BY DEF Bridge!Publish, Bridge!PublishFails, Bridge!Unacknowledged, Bridge!env
<1>2. outages' \in 0 .. MaxOutage
    BY DEF Bridge!Publish, Bridge!PublishFails, Bridge!Unacknowledged, Bridge!env, BridgeInv,
           Bridge!TypeOK, Bridge!BridgeAssumption
<1>3. /\ stored' \in Seq([ev : Ids, era : Nat]) /\ window' \subseteq Ids /\ StoredInv'
      /\ \A e \in Ids : Bridge!Stored(e) => Bridge!Stored(e)'
      /\ Bridge!Stores(r) => Bridge!Stored(Webhook[r].ev)'
    <2>1. CASE Bridge!Stores(r)
        BY <1>1, <2>1, StoresInv
    <2>2. CASE UNCHANGED <<stored, window>> /\ ~Bridge!Stores(r)
        BY <1>1, <2>2, StoredStays DEF BridgeInv, Bridge!TypeOK
    <2> QED BY <1>1, <2>1, <2>2
<1>4. Bridge!TypeOK'
    BY <1>1, <1>2, <1>3 DEF BridgeInv, Bridge!TypeOK
<1>5. AdmittedInv'
    BY <1>1 DEF BridgeInv, Bridge!TypeOK, AdmittedInv, Bridge!Genuine, Bridge!Verified,
                Bridge!WellFormed
<1>6. ASSUME NEW q \in Req, req'[q] = "202" PROVE Bridge!Stored(Webhook[q].ev)'
    <2>1. Webhook[q].ev \in Ids
        BY DEF Bridge!BridgeAssumption
    <2>2. CASE q = r
        BY <1>1, <1>3, <1>6, <2>2 DEF BridgeInv, Bridge!TypeOK
    <2>3. CASE q # r
        BY <1>1, <1>3, <1>6, <2>1, <2>3 DEF BridgeInv, Bridge!TypeOK, Bridge!AcceptedIsStored
    <2> QED BY <2>2, <2>3
<1>7. Bridge!AcceptedIsStored'
    BY <1>6 DEF Bridge!AcceptedIsStored, Bridge!Stored
<1> QED BY <1>3, <1>4, <1>5, <1>7 DEF BridgeInv

\* The promise is asked for, settles or fails; JetStream goes away and comes back.
LEMMA PromiseInv ==
    ASSUME Bridge!BridgeAssumption, BridgeInv,
           \/ Bridge!Readyz \/ Bridge!EnsureStream \/ Bridge!EnsureStreamFails
           \/ Bridge!Outage \/ Bridge!Recover
    PROVE  BridgeInv'
<1>1. UNCHANGED <<stored, window, era, slides, deletes>>
    BY DEF Bridge!Readyz, Bridge!EnsureStream, Bridge!EnsureStreamFails, Bridge!Outage,
           Bridge!Recover, Bridge!env
<1>2. /\ req' \in [Req -> {"new", "ensure", "publish", "202", "400", "401", "503"}]
      /\ \A r \in Req : \/ req'[r] = req[r]
                        \/ req[r] = "ensure" /\ req'[r] \in {"publish", "503"}
      /\ \A r \in Req : req'[r] = "ensure" => ready' = "pending"
      /\ ready' \in {"null", "pending", "ok"} /\ stream' \in BOOLEAN
    BY DEF Bridge!Readyz, Bridge!EnsureStream, Bridge!EnsureStreamFails, Bridge!Outage,
           Bridge!Recover, Bridge!env, Bridge!Waiting, BridgeInv, Bridge!TypeOK
<1>3. up' \in BOOLEAN /\ outages' \in 0 .. MaxOutage
    <2>1. up \in BOOLEAN /\ outages \in 0 .. MaxOutage
        BY Zenon DEF BridgeInv, Bridge!TypeOK
    <2>2. CASE Bridge!Outage
        <3>1. up' = FALSE
            BY <2>2, Zenon DEF Bridge!Outage
        <3>2. outages < MaxOutage /\ outages' = outages + 1
            BY <2>2, Zenon DEF Bridge!Outage
        <3>3. MaxOutage \in Nat
            BY Zenon DEF Bridge!BridgeAssumption
        <3>4. outages' \in 0 .. MaxOutage
            BY <2>1, <3>2, <3>3, SMT
        <3> QED BY <3>1, <3>4
    <2>3. CASE ~Bridge!Outage
        <3>1. up' \in {up, TRUE} /\ outages' = outages
            BY <2>3 DEF Bridge!Readyz, Bridge!EnsureStream, Bridge!EnsureStreamFails,
                        Bridge!Recover, Bridge!env
        <3> QED BY <2>1, <3>1
    <2> QED BY <2>2, <2>3
<1>4. Bridge!TypeOK'
    BY <1>1, <1>2, <1>3 DEF BridgeInv, Bridge!TypeOK
<1>5. AdmittedInv'
    BY <1>2 DEF BridgeInv, AdmittedInv, Bridge!Genuine, Bridge!Verified, Bridge!WellFormed
<1>6. StoredInv' /\ \A e : Bridge!Stored(e) => Bridge!Stored(e)'
    BY <1>1, StoredStays DEF BridgeInv
<1>7. Bridge!AcceptedIsStored'
    BY <1>2, <1>6 DEF BridgeInv, Bridge!AcceptedIsStored
<1> QED BY <1>4, <1>5, <1>6, <1>7 DEF BridgeInv

\* Ids leave the duplicate window, one by one or with the stream: their era is over.
LEMMA ForgetInv ==
    ASSUME Bridge!BridgeAssumption, BridgeInv,
           Bridge!DeleteStream \/ \E e \in Ids : Bridge!WindowSlides(e)
    PROVE  BridgeInv'
<1>1. UNCHANGED <<req, ready, up, stored, outages>>
    BY DEF Bridge!DeleteStream, Bridge!WindowSlides
<1>2. PICK gone \in SUBSET Ids :
          /\ gone \subseteq window /\ window' = window \ gone
          /\ era' = [e \in Ids |-> IF e \in gone THEN era[e] + 1 ELSE era[e]]
    <2>1. CASE Bridge!DeleteStream
        <3>1. window \subseteq window /\ window' = window \ window /\ window \in SUBSET Ids
            BY <2>1 DEF Bridge!DeleteStream, BridgeInv, Bridge!TypeOK
        <3>2. era' = [e \in Ids |-> IF e \in window THEN era[e] + 1 ELSE era[e]]
            BY <2>1 DEF Bridge!DeleteStream
        <3> QED BY <3>1, <3>2
    <2>2. CASE \E e \in Ids : Bridge!WindowSlides(e)
        <3>1. PICK e \in Ids : Bridge!WindowSlides(e)
            BY <2>2
        <3>2. /\ {e} \in SUBSET Ids /\ {e} \subseteq window /\ window' = window \ {e}
              /\ era' = [era EXCEPT ![e] = @ + 1] /\ era \in [Ids -> Nat]
            BY <3>1 DEF Bridge!WindowSlides, BridgeInv, Bridge!TypeOK
        <3>3. era' = [f \in Ids |-> IF f \in {e} THEN era[f] + 1 ELSE era[f]]
            BY <3>2
        <3> QED BY <3>2, <3>3
    <2> QED BY <2>1, <2>2
<1>3. /\ stream' \in BOOLEAN /\ slides' \in 0 .. MaxSlide /\ deletes' \in 0 .. MaxDelete
    <2>1. /\ stream \in BOOLEAN /\ slides \in 0 .. MaxSlide /\ deletes \in 0 .. MaxDelete
        BY Zenon DEF BridgeInv, Bridge!TypeOK
    <2>2. MaxSlide \in Nat /\ MaxDelete \in Nat
        BY Zenon DEF Bridge!BridgeAssumption
    <2>3. CASE Bridge!DeleteStream
        <3>1. stream' \in BOOLEAN /\ slides' = slides
            BY <2>3, Zenon DEF Bridge!DeleteStream
        <3>2. deletes < MaxDelete /\ deletes' = deletes + 1
            BY <2>3, Zenon DEF Bridge!DeleteStream
        <3>3. deletes' \in 0 .. MaxDelete
            BY <2>1, <2>2, <3>2, SMT
        <3> QED BY <2>1, <3>1, <3>3, Zenon
    <2>4. CASE \E e \in Ids : Bridge!WindowSlides(e)
        <3>1. stream' = stream /\ deletes' = deletes
            BY <2>4, Zenon DEF Bridge!WindowSlides
        <3>2. slides < MaxSlide /\ slides' = slides + 1
            BY <2>4, Zenon DEF Bridge!WindowSlides
        <3>3. slides' \in 0 .. MaxSlide
            BY <2>1, <2>2, <3>2, SMT
        <3> QED BY <2>1, <3>1, <3>3, Zenon
    <2> QED BY <2>3, <2>4
<1>4. Bridge!TypeOK'
    BY <1>1, <1>2, <1>3 DEF BridgeInv, Bridge!TypeOK
<1>5. StoredInv'
    <2>1. \A i \in DOMAIN stored : stored[i].ev \in Ids /\ stored[i].era \in Nat
        <3>1. stored \in Seq([ev : Ids, era : Nat])
            BY Zenon DEF BridgeInv, Bridge!TypeOK
        <3>2. \A S : stored \in Seq(S) => \A i \in DOMAIN stored : stored[i] \in S
            OBVIOUS
        <3>3. \A i \in DOMAIN stored : stored[i] \in [ev : Ids, era : Nat]
            BY <3>1, <3>2, Zenon
        <3> QED BY <3>3
    <2>2. era \in [Ids -> Nat]
        BY DEF BridgeInv, Bridge!TypeOK
    <2>3. \A i \in DOMAIN stored :
             /\ stored[i].era <= era'[stored[i].ev]
             /\ stored[i].era = era'[stored[i].ev] => stored[i].ev \in window'
        BY <1>2, <2>1, <2>2 DEF BridgeInv, StoredInv
    <2> QED BY <1>1, <1>2, <2>3 DEF BridgeInv, StoredInv, Bridge!StoredOncePerWindow,
                                   Bridge!OnlyGenuineStored, Bridge!Stored
<1>6. AdmittedInv' /\ Bridge!AcceptedIsStored'
    BY <1>1 DEF BridgeInv, AdmittedInv, Bridge!AcceptedIsStored, Bridge!Stored, Bridge!Genuine,
                Bridge!Verified, Bridge!WellFormed
<1> QED BY <1>4, <1>5, <1>6 DEF BridgeInv

LEMMA BridgeStepInv ==
    Bridge!BridgeAssumption /\ BridgeInv /\ [Bridge!Next]_Bridge!vars => BridgeInv'
<1> SUFFICES ASSUME Bridge!BridgeAssumption, BridgeInv, [Bridge!Next]_Bridge!vars PROVE BridgeInv'
    OBVIOUS
<1>1. CASE \E r \in Req : Bridge!Post(r) \/ Bridge!Publish(r) \/ Bridge!PublishFails(r)
    BY <1>1, PostInv, PublishInv
<1>2. CASE \/ Bridge!Readyz \/ Bridge!EnsureStream \/ Bridge!EnsureStreamFails
           \/ Bridge!Outage \/ Bridge!Recover
    BY <1>2, PromiseInv
<1>3. CASE Bridge!DeleteStream \/ \E e \in Ids : Bridge!WindowSlides(e)
    BY <1>3, ForgetInv
<1>4. CASE UNCHANGED Bridge!vars
    BY <1>4 DEF Bridge!vars, BridgeInv, Bridge!TypeOK, StoredInv, AdmittedInv,
                Bridge!AcceptedIsStored, Bridge!StoredOncePerWindow, Bridge!OnlyGenuineStored,
                Bridge!Stored, Bridge!Genuine, Bridge!Verified, Bridge!WellFormed
<1> QED BY <1>1, <1>2, <1>3, <1>4 DEF Bridge!Next

\* For any webhooks, outages, slides of the duplicate window and deletions of the stream: an
\* accepted webhook's event is stored, once per duplicate window, and only genuine ones are.
THEOREM BridgeSafeHolds == Bridge!Spec => []BridgeSafe
<1>1. Bridge!Init => BridgeInv
    BY BridgeAssume, BridgeInitInv
<1>2. BridgeInv /\ [Bridge!Next]_(Bridge!vars) => BridgeInv'
    BY BridgeAssume, BridgeStepInv
<1>3. BridgeInv => BridgeSafe
    BY DEF BridgeInv, StoredInv, Bridge!BridgeSafe, BridgeSafe
<1> QED BY <1>1, <1>2, <1>3, PTL DEF Bridge!Spec

==============================================================================
