------------------------ MODULE TaskboardDispatcher ------------------------
(***************************************************************************)
(* The task-board dispatcher (taskboard_event_dispatcher.ts): it consumes  *)
(* the TASKBOARD_EVENTS stream with explicit acks, keeps one agent run per *)
(* event on the task board, sends a Codex job over A2A and writes the      *)
(* gateway's replies back to the run.                                      *)
(*                                                                         *)
(* Events are taken one at a time (the for-await loop of main()), but      *)
(* every reply starts a handler that nobody awaits, so handlers run beside *)
(* the loop and beside each other.  Each await of the code is a point      *)
(* where the others may step.  The stream, the task board and the Codex    *)
(* gateway are external: they are modelled by what the code asks of them.  *)
(* A job id is a function of the event (jobIdForEvent), so an event stands *)
(* for its job id; a message id (corr) is the position in jobs.            *)
(***************************************************************************)
EXTENDS Naturals, Sequences

CONSTANT Loads  \* what a behaviour may be about: records [attr, maxDeliver, maxCrash,
                \* maxListFaults, maxLost, boardFails], the events with what routing and the
                \* write-back read of them, and the bounds on deliveries and faults

\* A block is one JSON candidate of the worker's output, in the order they are tried.
Block == [verdict: {"APPROVED", "CHANGES_REQUESTED", "COMMENT", "unknown"}, sha: BOOLEAN]
AttrRec == [type: {"status_changed", "review_requested", "other", "garbage"},
            from: {"in progress", "other"}, to: {"in progress", "other"},
            request: BOOLEAN,    \* a review request with its id and role key
            target: BOOLEAN,     \* a reviewer is named or configured
            task: BOOLEAN,       \* scope.task_id is not null
            sha: BOOLEAN,        \* the event carries a commit
            token: BOOLEAN,      \* a review token is configured for the role
            blocks: Seq(Block)]  \* what a completed job will have in its output

ASSUME LoadsAssumption ==
    \A l \in Loads :
        /\ \A e \in DOMAIN l.attr :
              /\ l.attr[e] \in AttrRec
              /\ l.attr[e].request => l.attr[e].type = "review_requested"
        /\ l.maxDeliver \in Nat \ {0}
        /\ {l.maxCrash, l.maxListFaults, l.maxLost} \subseteq Nat /\ l.boardFails \in BOOLEAN

VARIABLES
    load,        \* the load of this behaviour
    broker,      \* broker[e]: what the durable consumer knows of the event's message
    deliveries,  \* deliveries[e]: how often it was delivered
    buffer,      \* messages delivered to the process and not yet taken by the loop
    pc,          \* where the loop is
    cur,         \* the event it processes
    run,         \* the run of cur (0: none)
    seen,        \* MemoryIdempotencyStore
    runs,        \* the task board's agent runs, in order of creation
    jobs,        \* the jobs sent, with what the gateway made of them
    inbox,       \* the dispatcher's A2A inbox: replies not yet handed over
    byJob,       \* TaskboardReplyHandler.byJob: pending records, one per event
    byCorr,      \* TaskboardReplyHandler.byCorr: pending records, one per message id
    handlers,    \* the calls of handleInbound() in flight
    written,     \* history: the outcomes of submitReviewIfRequested
    crashes, listFaults, lost      \* what was used of the bounds

Event == DOMAIN load.attr
Attr == load.attr
BoardFails == load.boardFails

None == "none"

\* A status change that enters In Progress, or a review request with an id.
shouldDispatchTaskboardEvent(e) ==
    \/ Attr[e].type = "review_requested" /\ Attr[e].request
    \/ Attr[e].type = "status_changed" /\ Attr[e].to = "in progress" /\ Attr[e].from # "in progress"

\* A task falls back on the default agent; a review has no fallback but configuration.
hasTargetAgent(e) == Attr[e].type = "review_requested" => Attr[e].target

\* The events routeTaskboardEvent() dispatches; the rest are observed.
Dispatchable == {e \in Event : shouldDispatchTaskboardEvent(e) /\ hasTargetAgent(e)}

\* createOrReuse() makes no run for these.
Taskless == {e \in Event : ~Attr[e].task}

\* The jobs of these carry review_request_id and review_role_key.
Review == {e \in Event : Attr[e].request}

loopVars == <<pc, cur, run, seen, buffer>>
brokerVars == <<broker, deliveries>>
boardVars == <<runs, written, load>>
replyVars == <<byJob, byCorr, handlers>>
faultVars == <<crashes, listFaults, lost>>
vars == <<load, broker, deliveries, buffer, pc, cur, run, seen, runs, jobs, inbox, byJob, byCorr,
          handlers, written, crashes, listFaults, lost>>

Terminal == {"succeeded", "failed", "endpoint_failed"}
Status == Terminal \cup {"queued", "dispatching", "preflight_failed", "spawning", "running"}
Final == {"completed", "failed", "rejected"}

\* session: is session_id set to the job id; blind: was the run created because the
\* listing failed (history).
RunRec == [ev: Event, status: Status, session: BOOLEAN, blind: BOOLEAN]

\* life: the number of crashes before the send; lost: was the send reported as failed
\* (history).
JobRec == [ev: Event, gw: {"sent", "accepted"} \cup Final, life: Nat, lost: BOOLEAN]
Reply == [job: Nat, kind: Final \cup {"accepted"}]
\* sha: does the record carry the event's commit (one found by session does not).
Pending == [corr: Nat, ev: Event, run: Nat, sha: BOOLEAN]
Handler == [job: Nat, kind: Final \cup {"accepted"}, run: Nat, corr: Nat,
            sha: {"reply", "event", "task", None},
            at: {"find", "accepted", "running", "commit", "submit", "final", "comment"}, q: 1 .. 4]
Verdict == {"APPROVE", "REQUEST_CHANGES", "COMMENT"}
Writeback == [job: Nat, action: {"submitted", "skipped", "failed"}, verdict: Verdict \cup {None}]

PC == {"down", "idle", "list", "create", "createBlind", "dispatching", "send", "preflight",
       "spawning", "mark"}

\* The type invariant: the fields of PendingTaskboardJob, AgentRunRecord and the message
\* states of the durable consumer.
TypeOK ==
    /\ load \in Loads
    /\ broker \in [Event -> {"ready", "out", "acked", "exhausted"}]
    /\ deliveries \in [Event -> 0 .. load.maxDeliver]
    /\ buffer \in Seq(Event)
    /\ pc \in PC
    /\ cur \in Event \cup {None}
    /\ pc \notin {"down", "idle"} => cur \in Dispatchable
    /\ run \in 0 .. Len(runs)
    /\ seen \subseteq Event
    /\ runs \in Seq(RunRec)
    /\ jobs \in Seq(JobRec)
    /\ inbox \in Seq(Reply)
    /\ byJob \subseteq Pending /\ byCorr \subseteq Pending
    /\ handlers \subseteq Handler
    /\ written \subseteq Writeback
    /\ crashes \in 0 .. load.maxCrash /\ listFaults \in 0 .. load.maxListFaults
    /\ lost \in 0 .. load.maxLost

Init ==
    /\ load \in Loads
    /\ broker = [e \in Event |-> "ready"]
    /\ deliveries = [e \in Event |-> 0]
    /\ buffer = <<>>
    /\ pc = "idle" /\ cur = None /\ run = 0 /\ seen = {}
    /\ runs = <<>> /\ jobs = <<>> /\ inbox = <<>>
    /\ byJob = {} /\ byCorr = {} /\ handlers = {} /\ written = {}
    /\ crashes = 0 /\ listFaults = 0 /\ lost = 0

------------------------------------------------------------------------------
(* The durable consumer: explicit acks, ack_wait, max_deliver.              *)

\* Its message is put back for delivery, or given up at max_deliver.
Requeued(e) ==
    [broker EXCEPT ![e] = IF deliveries[e] < load.maxDeliver THEN "ready" ELSE "exhausted"]

Deliver(e) ==
    /\ pc # "down" /\ broker[e] = "ready"
    /\ broker' = [broker EXCEPT ![e] = "out"]
    /\ deliveries' = [deliveries EXCEPT ![e] = @ + 1]
    /\ buffer' = Append(buffer, e)
    /\ UNCHANGED <<pc, cur, run, seen, boardVars, jobs, inbox, replyVars, faultVars>>

\* ack_wait passes, with the message still in the buffer, in processing, or with a
\* process that is gone.
AckWait(e) ==
    /\ broker[e] = "out"
    /\ broker' = Requeued(e)
    /\ UNCHANGED <<deliveries, loopVars, boardVars, jobs, inbox, replyVars, faultVars>>

Ack(e) == broker' = [broker EXCEPT ![e] = IF @ \in {"out", "ready"} THEN "acked" ELSE @]

\* Mutant of Nak: a failed dispatch is acked like any other result.
NakAcks(e) == Ack(e)

\* Mutant of Nak: term() in place of nak().
NakTerms(e) == broker' = [broker EXCEPT ![e] = IF @ = "out" THEN "exhausted" ELSE @]

Nak(e) == broker' = IF broker[e] = "out" THEN Requeued(e) ELSE broker

------------------------------------------------------------------------------
(* main() and processTaskboardEvent()                                       *)

Idle == pc' = "idle" /\ cur' = None /\ run' = 0

\* A message that does not parse is given back until the broker gives it up.
TakeGarbage ==
    /\ pc = "idle" /\ buffer # <<>> /\ Attr[Head(buffer)].type = "garbage"
    /\ Nak(Head(buffer))
    /\ buffer' = Tail(buffer)
    /\ UNCHANGED <<deliveries, pc, cur, run, seen, boardVars, jobs, inbox, replyVars, faultVars>>

\* A message that is known, or that is not to be dispatched, is marked and acked.
TakeIgnored ==
    /\ pc = "idle" /\ buffer # <<>>
    /\ Head(buffer) \in seen \/ Head(buffer) \notin Dispatchable
    /\ Attr[Head(buffer)].type # "garbage"
    /\ seen' = seen \cup {Head(buffer)}
    /\ Ack(Head(buffer))
    /\ buffer' = Tail(buffer)
    /\ UNCHANGED <<deliveries, pc, cur, run, boardVars, jobs, inbox, replyVars, faultVars>>

\* createOrReuse() returns null for an event without a task.
TakeEvent ==
    /\ pc = "idle" /\ buffer # <<>>
    /\ Head(buffer) \in Dispatchable \ seen
    /\ cur' = Head(buffer)
    /\ run' = 0
    /\ pc' = IF cur' \in Taskless THEN "send" ELSE "list"
    /\ buffer' = Tail(buffer)
    /\ UNCHANGED <<brokerVars, seen, boardVars, jobs, inbox, replyVars, faultVars>>

\* Mutant of RunsOf: only a run that was not yet dispatched is reused.
RunsOfQueued(e) == {r \in DOMAIN runs : runs[r].ev = e /\ runs[r].status = "queued"}

\* The runs of an event on the task board.
RunsOf(e) == {r \in DOMAIN runs : runs[r].ev = e}

\* listRuns() answers: the run of this event is reused, if there is one.
ListRuns ==
    /\ pc = "list"
    /\ \/ /\ RunsOf(cur) = {}
          /\ pc' = "create" /\ run' = 0
       \/ /\ run' \in RunsOf(cur)
          /\ pc' = "dispatching"
    /\ UNCHANGED <<brokerVars, buffer, cur, seen, boardVars, jobs, inbox, replyVars, faultVars>>

\* It fails, which counts as an empty list (catch(() => [])): a run is created blindly.
ListFails ==
    /\ pc = "list" /\ listFaults < load.maxListFaults
    /\ listFaults' = listFaults + 1
    /\ pc' = "createBlind"
    /\ UNCHANGED <<brokerVars, buffer, cur, run, seen, boardVars, jobs, inbox, replyVars, crashes,
                   lost>>

NewRun == Append(runs, [ev |-> cur, status |-> "queued", session |-> FALSE,
                        blind |-> pc = "createBlind"])

\* The POST: it creates the run; or it fails, before or after the task board stored it,
\* and the message is given back.
CreateRun ==
    /\ pc \in {"create", "createBlind"}
    /\ \/ /\ runs' = NewRun
          /\ run' = Len(runs') /\ pc' = "dispatching"
          /\ UNCHANGED <<cur, broker>>
       \/ /\ BoardFails
          /\ runs' \in {runs, NewRun}
          /\ Idle /\ Nak(cur)
    /\ UNCHANGED <<deliveries, buffer, seen, load, written, jobs, inbox, replyVars, faultVars>>

\* A PATCH of run r: it is applied, or it fails and is not.  Most callers swallow the error.
Patch(r, status) ==
    runs' = [runs EXCEPT ![r].status = status,
                         ![r].session = @ \/ status \in {"spawning", "running"}]
MaybePatch(r, status) == Patch(r, status) \/ (BoardFails /\ UNCHANGED runs)

UpdateDispatching ==
    /\ pc = "dispatching"
    /\ MaybePatch(run, "dispatching")
    /\ pc' = "send"
    /\ UNCHANGED <<brokerVars, buffer, cur, run, seen, load, written, jobs, inbox, replyVars,
                   faultVars>>

NewJob(isLost) == Append(jobs, [ev |-> cur, gw |-> "sent", life |-> crashes, lost |-> isLost])

\* a2a_send: accepted by the bus.
SendOk ==
    /\ pc = "send"
    /\ jobs' = NewJob(FALSE)
    /\ pc' = IF run # 0 THEN "spawning" ELSE "mark"
    /\ UNCHANGED <<brokerVars, buffer, cur, run, seen, boardVars, inbox, replyVars, faultVars>>

\* a2a_send reports an error.  The job did not go out, or (maxLost) it did and only the
\* acknowledgement was lost.  dispatch_failed: the message is given back.
SendFails ==
    /\ pc = "send"
    /\ \/ UNCHANGED <<jobs, lost>>
       \/ lost < load.maxLost /\ lost' = lost + 1 /\ jobs' = NewJob(TRUE)
    /\ IF run # 0 THEN pc' = "preflight" /\ UNCHANGED <<cur, run, broker>>
                  ELSE Idle /\ Nak(cur)
    /\ UNCHANGED <<deliveries, buffer, seen, boardVars, inbox, replyVars, crashes, listFaults>>

UpdatePreflight ==
    /\ pc = "preflight"
    /\ MaybePatch(run, "preflight_failed")
    /\ Idle /\ Nak(cur)
    /\ UNCHANGED <<deliveries, buffer, seen, load, written, jobs, inbox, replyVars, faultVars>>

UpdateSpawning ==
    /\ pc = "spawning"
    /\ MaybePatch(run, "spawning")
    /\ pc' = "mark"
    /\ UNCHANGED <<brokerVars, buffer, cur, run, seen, load, written, jobs, inbox, replyVars,
                   faultVars>>

\* TaskboardReplyHandler.track()
Track(p) ==
    /\ byJob' = {o \in byJob : o.ev # p.ev} \cup {p}
    /\ byCorr' = {o \in byCorr : o.corr # p.corr} \cup {p}

\* Mutant of MarkSeen: the mark is forgotten.
MarkNothing == UNCHANGED seen

\* idempotency.mark()
MarkSeen == seen' = seen \cup {cur}

\* The event is marked, its job is tracked and its message is acked: no await that waits
\* for anything lies between them.
Dispatched ==
    /\ pc = "mark"
    /\ MarkSeen
    /\ Track([corr |-> Len(jobs), ev |-> cur, run |-> run, sha |-> Attr[cur].sha])
    /\ Ack(cur)
    /\ Idle
    /\ UNCHANGED <<deliveries, buffer, boardVars, jobs, inbox, handlers, faultVars>>

\* The process dies: what it kept in memory is gone, messages that were out stay out.
Crash ==
    /\ pc # "down" /\ crashes < load.maxCrash
    /\ crashes' = crashes + 1
    /\ pc' = "down" /\ cur' = None /\ run' = 0
    /\ buffer' = <<>> /\ seen' = {}
    /\ byJob' = {} /\ byCorr' = {} /\ handlers' = {}
    /\ UNCHANGED <<brokerVars, boardVars, jobs, inbox, listFaults, lost>>

Restart ==
    /\ pc = "down" /\ pc' = "idle"
    /\ UNCHANGED <<brokerVars, cur, run, seen, buffer, boardVars, jobs, inbox, replyVars,
                   faultVars>>

------------------------------------------------------------------------------
(* The gateway answers: accepted, then completed or failed; or rejected.    *)

GatewayReplies(i, kind) ==
    /\ \/ jobs[i].gw = "sent" /\ kind \in {"accepted", "rejected"}
       \/ jobs[i].gw = "accepted" /\ kind \in {"completed", "failed"}
    /\ jobs' = [jobs EXCEPT ![i].gw = kind]
    /\ inbox' = Append(inbox, [job |-> i, kind |-> kind])
    /\ UNCHANGED <<brokerVars, loopVars, boardVars, replyVars, faultVars>>

------------------------------------------------------------------------------
(* TaskboardReplyHandler.handleInbound()                                    *)

EvOf(h) == jobs[h.job].ev

\* Mutant of FirstStep: a completed job goes straight to its final status.
FirstStepFinal(kind) == IF kind = "accepted" THEN "accepted" ELSE "final"

\* Where a reply goes on once its run is known.
FirstStep(kind) ==
    CASE kind = "accepted" -> "accepted" [] kind = "completed" -> "running" [] OTHER -> "final"

\* Mutant of LocalPending: the job id is not compared.
LocalPendingAny(i) ==
    LET corr == {p \in byCorr : p.corr = i} IN IF corr # {} THEN corr ELSE byJob

\* The local half of resolvePending(): by message id, then by job id.
LocalPending(i) ==
    LET corr == {p \in byCorr : p.corr = i} IN
    IF corr # {} THEN corr ELSE {p \in byJob : p.ev = jobs[i].ev}

\* The handler of reply m for pending record p (of no record yet: run 0).
NewHandler(m, p, at) ==
    [job |-> m.job, kind |-> m.kind, run |-> p.run, corr |-> p.corr, at |-> at, q |-> 1,
     sha |-> IF p.sha THEN "event" ELSE None]

\* The channel hands a reply over (and acks it): a handler starts, or the reply is
\* ignored because its pending job has no run.
Receive ==
    /\ pc # "down" /\ inbox # <<>>
    /\ LET m == Head(inbox)
           local == LocalPending(m.job)
       IN handlers' = handlers \cup
            IF local = {} THEN {NewHandler(m, [run |-> 0, corr |-> m.job, sha |-> FALSE], "find")}
            ELSE {NewHandler(m, p, FirstStep(m.kind)) : p \in {o \in local : o.run # 0}}
    /\ inbox' = Tail(inbox)
    /\ UNCHANGED <<brokerVars, loopVars, boardVars, jobs, byJob, byCorr, faultVars>>

Moved(h, at) == handlers' = (handlers \ {h}) \cup {[h EXCEPT !.at = at]}
Done(h) == handlers' = handlers \ {h}

FindStatus == <<"spawning", "running", "dispatching", "queued">>

\* findBySession() asks for the runs of one status after the other.  A run that is found
\* is tracked; after the last status the reply is ignored.  A status that is answered with
\* an error is skipped, a request that throws ends the search.
Find(h) ==
    /\ h.at = "find"
    /\ LET found == {r \in RunsOf(EvOf(h)) : runs[r].session /\ runs[r].status = FindStatus[h.q]}
       IN \/ \E r \in found :
                /\ Track([corr |-> h.job, ev |-> EvOf(h), run |-> r, sha |-> FALSE])
                /\ handlers' = (handlers \ {h}) \cup {[h EXCEPT !.run = r, !.at = FirstStep(h.kind)]}
          \/ /\ found = {} \/ BoardFails
             /\ IF h.q < 4 THEN handlers' = (handlers \ {h}) \cup {[h EXCEPT !.q = @ + 1]} ELSE Done(h)
             /\ UNCHANGED <<byJob, byCorr>>
          \/ BoardFails /\ Done(h) /\ UNCHANGED <<byJob, byCorr>>
    /\ UNCHANGED <<brokerVars, loopVars, boardVars, jobs, inbox, faultVars>>

\* accepted: 'spawning', errors swallowed.
HandleAccepted(h) ==
    /\ h.at = "accepted"
    /\ MaybePatch(h.run, "spawning")
    /\ Done(h)
    /\ UNCHANGED <<brokerVars, loopVars, load, written, jobs, inbox, byJob, byCorr, faultVars>>

\* normalizeReviewVerdict: the spellings of the three verdicts.
normalizeReviewVerdict(raw) ==
    CASE raw = "APPROVED" -> "APPROVE" [] raw = "CHANGES_REQUESTED" -> "REQUEST_CHANGES"
      [] raw = "COMMENT" -> "COMMENT" [] OTHER -> None

\* Mutant of extractTaskboardReviewResult: the first block is taken, verdict or not.
extractFirstBlock(blocks) ==
    IF blocks = <<>> \/ normalizeReviewVerdict(blocks[1].verdict) = None
    THEN [verdict |-> None, sha |-> FALSE]
    ELSE [verdict |-> normalizeReviewVerdict(blocks[1].verdict), sha |-> blocks[1].sha]

\* extractTaskboardReviewResult: the first candidate with a verdict.
extractTaskboardReviewResult(blocks) ==
    LET good == {n \in DOMAIN blocks : normalizeReviewVerdict(blocks[n].verdict) # None}
        first == CHOOSE n \in good : \A k \in good : n <= k
    IN  IF good = {} THEN [verdict |-> None, sha |-> FALSE]
        ELSE [verdict |-> normalizeReviewVerdict(blocks[first].verdict), sha |-> blocks[first].sha]

Extracted(h) == extractTaskboardReviewResult(Attr[EvOf(h)].blocks)
Wrote(h, action, verdict) ==
    written' = written \cup {[job |-> h.job, action |-> action, verdict |-> verdict]}

\* completed: 'running', errors swallowed; then submitReviewIfRequested() looks for the verdict
\* and the commit: the reply's, else the pending record's, else the task board is asked.
HandleRunning(h) ==
    /\ h.at = "running"
    /\ MaybePatch(h.run, "running")
    /\ LET x == Extracted(h)
           sha == IF x.sha THEN "reply" ELSE h.sha
       IN  IF EvOf(h) \notin Review THEN Moved(h, "final") /\ UNCHANGED written
           ELSE IF x.verdict = None THEN Moved(h, "final") /\ Wrote(h, "skipped", None)
           ELSE /\ handlers' = (handlers \ {h}) \cup
                       {[h EXCEPT !.sha = sha, !.at = IF sha = None THEN "commit" ELSE "submit"]}
                /\ UNCHANGED written
    /\ UNCHANGED <<brokerVars, loopVars, load, jobs, inbox, byJob, byCorr, faultVars>>

\* getTaskCommitSha: the task's commit, or none (it has none, or the call failed).
FetchCommit(h, sha) ==
    /\ h.at = "commit"
    /\ handlers' = (handlers \ {h}) \cup {[h EXCEPT !.sha = sha, !.at = "submit"]}
    /\ UNCHANGED <<brokerVars, loopVars, boardVars, jobs, inbox, byJob, byCorr, faultVars>>

\* submitReview: skipped without a token for the role, else posted, with a commit or without;
\* a failure is reported in the comment and never stops the handler.
SubmitReview(h) ==
    /\ h.at = "submit"
    /\ \/ Attr[EvOf(h)].token /\ Wrote(h, "submitted", Extracted(h).verdict)
       \/ Attr[EvOf(h)].token /\ BoardFails /\ Wrote(h, "failed", Extracted(h).verdict)
       \/ ~Attr[EvOf(h)].token /\ Wrote(h, "skipped", Extracted(h).verdict)
    /\ Moved(h, "final")
    /\ UNCHANGED <<brokerVars, loopVars, load, runs, jobs, inbox, byJob, byCorr, faultVars>>

\* Mutant of FinalStatus: the kind of the reply is written as the status.
FinalStatusIsKind(kind) == kind

FinalStatus(kind) ==
    CASE kind = "completed" -> "succeeded" [] kind = "failed" -> "failed" [] OTHER -> "endpoint_failed"

\* The final status.  An error here ends the handler: the reply is lost, the job stays
\* pending.
HandleFinal(h) ==
    /\ h.at = "final"
    /\ \/ Patch(h.run, FinalStatus(h.kind)) /\ Moved(h, "comment")
       \/ BoardFails /\ (UNCHANGED runs \/ Patch(h.run, FinalStatus(h.kind))) /\ Done(h)
    /\ UNCHANGED <<brokerVars, loopVars, load, written, jobs, inbox, byJob, byCorr, faultVars>>

\* postComment(), errors logged, then deletePending().
HandleComment(h) ==
    /\ h.at = "comment"
    /\ byJob' = {p \in byJob : p.ev # EvOf(h)}
    /\ byCorr' = {p \in byCorr : p.corr # h.corr}
    /\ Done(h)
    /\ UNCHANGED <<brokerVars, loopVars, boardVars, jobs, inbox, faultVars>>

------------------------------------------------------------------------------
Loop == TakeGarbage \/ TakeIgnored \/ TakeEvent \/ ListRuns \/ CreateRun \/ UpdateDispatching \/ SendOk
        \/ UpdatePreflight \/ UpdateSpawning \/ Dispatched

Handle(h) == Find(h) \/ HandleAccepted(h) \/ HandleRunning(h) \/ SubmitReview(h)
             \/ (\E sha \in {"task", None} : FetchCommit(h, sha))
             \/ HandleFinal(h) \/ HandleComment(h)

Next ==
    \/ \E e \in Event : Deliver(e) \/ AckWait(e)
    \/ Loop \/ ListFails \/ SendFails \/ Crash \/ Restart
    \/ \E i \in DOMAIN jobs, k \in Final \cup {"accepted"} : GatewayReplies(i, k)
    \/ Receive
    \/ \E h \in handlers : Handle(h)

Spec == Init /\ [][Next]_vars

\* The broker delivers and its timers fire; the loop goes on when its await ends; a process
\* that died is started again.  The gateway and the reply handlers owe nothing.
Fairness ==
    /\ WF_vars(\E e \in Event : Deliver(e)) /\ WF_vars(\E e \in Event : AckWait(e))
    /\ WF_vars(Loop \/ ListFails \/ SendFails)
    /\ WF_vars(Restart)

LiveSpec == Spec /\ Fairness

------------------------------------------------------------------------------
(* Properties                                                               *)

SentJobs(e) == {i \in DOMAIN jobs : jobs[i].ev = e}

\* The message of an event that asks for a dispatch is acked only if a job was sent for
\* it, and a2a_send said so: whatever fails or crashes on the way (createOrReuse, the
\* send, the process), the event is still the broker's (main(): nak on dispatch_failed and
\* on an exception, ack otherwise).
AckedWasSent ==
    \A e \in Dispatchable : broker[e] = "acked" => \E i \in SentJobs(e) : ~jobs[i].lost

\* However often its message is redelivered (nak, ack_wait while it is processed or
\* buffered), one life of the process sends a second job for an event only after
\* a2a_send reported the first one as failed.
SentTwiceOnlyAfterFailure ==
    \A i, j \in DOMAIN jobs :
        i < j /\ jobs[i].ev = jobs[j].ev /\ jobs[i].life = jobs[j].life => jobs[i].lost

\* An event has one agent run, across redeliveries, crashes and lost answers to the POST;
\* any other was created because the listing of the task's runs failed.
OneRunPerEvent ==
    \A r, s \in DOMAIN runs : r < s /\ runs[r].ev = runs[s].ev => runs[s].blind

\* What the dispatcher does for an event: its message is acked only once a job was sent for it, a
\* second job is sent only after the first was reported failed, and one run stands for it
\* (createOrReuse, the idempotency store and the explicit acks of main() together).
OneJobOneRun == AckedWasSent /\ SentTwiceOnlyAfterFailure /\ OneRunPerEvent

\* A run carries a final status only if the gateway gave that answer to a job of the same
\* event: replies are never booked on the run of another event, whether their run was
\* found by message id, by job id or by session.
OutcomeIsTheGateways ==
    \A r \in DOMAIN runs :
        runs[r].status \in Terminal =>
            \E i \in SentJobs(runs[r].ev) :
                jobs[i].gw \in Final /\ FinalStatus(jobs[i].gw) = runs[r].status

\* "never silently skip a verdict": the run of a review is 'succeeded' only after the verdict in
\* the reply of one of its jobs was taken to the task board, and what was taken is that reply's
\* verdict; nothing is submitted only if the output holds no verdict, no token is configured or
\* the task board refused it.
VerdictBeforeSuccess ==
    \A r \in DOMAIN runs :
        runs[r].ev \in Review /\ runs[r].status = "succeeded" =>
            \E w \in written :
                LET a == Attr[runs[r].ev] IN
                /\ jobs[w.job].ev = runs[r].ev
                /\ w.action = "submitted" => \E n \in DOMAIN a.blocks :
                        normalizeReviewVerdict(a.blocks[n].verdict) = w.verdict
                /\ w.action = "skipped" =>
                        \/ ~a.token
                        \/ \A n \in DOMAIN a.blocks : a.blocks[n].verdict = "unknown"
                /\ w.action = "failed" => BoardFails

\* An event to dispatch is sent in the end, or the broker gave it up after all of its
\* max_deliver deliveries: no failure of the task board or of the bus ends it earlier.
EventuallySent ==
    <>(\A e \in Dispatchable :
          SentJobs(e) # {} \/ (broker[e] = "exhausted" /\ deliveries[e] = load.maxDeliver))

\* Nothing is under way any more.
Quiet ==
    /\ pc = "idle" /\ buffer = <<>> /\ inbox = <<>> /\ handlers = {}
    /\ \A e \in Event : broker[e] \in {"acked", "exhausted"}
    /\ \A i \in DOMAIN jobs : jobs[i].gw \in Final

\* What the tests of the reply handler say ("rejected reply marks the run endpoint_failed",
\* "completed reply transitions run through running to succeeded"): once all is quiet, an
\* answered job has left its run in a final status.
AnsweredRunIsFinal ==
    Quiet => \A i \in DOMAIN jobs : \A r \in RunsOf(jobs[i].ev) : runs[r].status \in Terminal

==============================================================================
