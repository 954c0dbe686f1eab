------------------------- MODULE FleetOrchestrator -------------------------
(***************************************************************************)
(* The fleet orchestrator (a2a_fleet_orchestrator.ts) on top of the        *)
(* launcher: a spec is validated and planned, its agents are launched one  *)
(* after the other, given their jobs over the bus and waited for.          *)
(*                                                                         *)
(* The reply handler of the channel runs between any two steps.  Job ids   *)
(* are derived from fleet and agent ids, so that a reply to the same job   *)
(* of an earlier run of the fleet may still come.                          *)
(***************************************************************************)
EXTENDS AgentLauncher, Sequences

CONSTANTS
    Loads,      \* command lines: the spec, the mode, the launch backend and --stop-after; with the
                \* requests of others that may come and the late replies to an earlier run
    CanaryId,   \* the ids a canary gives to its manager and its worker
    RunReq      \* the launch request of this run for each agent id

Answers == {"accepted", "rejected", "completed", "failed"}

\* FleetAgentSpec and FleetSpec; a directory is "in" or "out" of the roots for writing.
Runtime == {"codex", "claude-live", None}
LaunchProvider == {"tmux-codex", "docker-codex", "tmux-claude-live", None}
Dir == {"in", "out", None}
FleetAgentSpec ==
    [id : Agent, role : {"manager", "worker"}, runtime : Runtime, provider : LaunchProvider,
     thread : {None} \cup STRING, cwd : Dir, task : BOOLEAN]
FleetSpec ==
    [runtime : Runtime, provider : LaunchProvider, write : BOOLEAN, cwd : Dir,
     agents : Seq(FleetAgentSpec)]
CommandLine ==
    [spec : FleetSpec, mode : {"full", "canary", "dry"}, backend : {"http", "none"},
     stop : BOOLEAN, others : SUBSET Req,
     old : SUBSET [from : Agent, corr : {"old"}, type : {"reply", "msg"}, kind : Answers]]

ASSUME FleetAssumption ==
    /\ RunReq \in [Agent -> Req] /\ \A a \in Agent : For[RunReq[a]] = a
    /\ CanaryId \in [1 .. 2 -> Agent] /\ CanaryId[1] # CanaryId[2]
    /\ Loads \in Seq(CommandLine)

VARIABLES
    load,       \* the command line, an index of Loads
    pc, next,   \* where executeFleetSpec() is, and at which agent of its plan
    launched,   \* the ids with an entry in result.launched, and what it says
    cwds,       \* ids whose writable cwd is registered
    job,        \* the pending job of an id
    gw,         \* what the agent has done with the job of this run
    inbox,      \* replies on their way to the orchestrator
    bus,        \* is the channel started, and on its topics
    result,     \* result.ok, once the run is over
    misled,     \* history: a reply to an earlier run was taken for an answer
    restart     \* history: ids whose session could not be stopped, or whose launch was under way or
                \* still to come when it was

fleetVars == <<load, pc, next, launched, cwds, job, gw, inbox, bus, result, misled, restart>>
vars == <<launcherVars, fleetVars>>

-----------------------------------------------------------------------------
(* Specs and plans. *)

ProviderForRuntime(rt) == IF rt = "claude-live" THEN "tmux-claude-live" ELSE "tmux-codex"

ProviderMatchesRuntime(p, rt) ==
    IF rt = "claude-live" THEN p = "tmux-claude-live" ELSE p \in {"tmux-codex", "docker-codex"}

\* parseLegacyFleetSpec(): lines FLEET, BASE and NEEDS, and one line for each agent.  An agent's
\* thread key holds the fleet id as far as it is known at its line.
LegacySpec(lines, rt, write) ==
    LET id(i) == LET f == {j \in 1 .. i : lines[j].word = "FLEET" /\ lines[j].rest # None}
                 IN  IF f = {} THEN "legacy-fleet"
                     ELSE lines[CHOOSE j \in f : \A k \in f : k <= j].rest
        bases == {j \in 1 .. Len(lines) : lines[j].word = "BASE"}
        agents == SelectSeq([i \in 1 .. Len(lines) |-> <<lines[i], id(i)>>],
                            LAMBDA l : l[1].word \notin {"FLEET", "BASE", "NEEDS"})
    IN  [runtime |-> rt, provider |-> ProviderForRuntime(rt), write |-> write,
         cwd |-> IF bases = {} THEN None
                 ELSE lines[CHOOSE j \in bases : \A k \in bases : k <= j].rest,
         agents |-> [i \in 1 .. Len(agents) |->
                       [id |-> agents[i][1].word, role |-> agents[i][1].role, runtime |-> rt,
                        provider |-> ProviderForRuntime(rt), thread |-> agents[i][2],
                        cwd |-> None, task |-> agents[i][1].rest # None]]]

\* What an agent has from the defaults of the spec (buildPlanAgent).
RuntimeOf(s, a) == IF a.runtime # None THEN a.runtime ELSE s.runtime
ProviderOf(s, a) ==
    IF a.provider # None THEN a.provider
    ELSE IF s.provider # None THEN s.provider ELSE ProviderForRuntime(RuntimeOf(s, a))

\* resolveAgentCwd(): a directory "in" or "out" of the roots in which writing may be allowed.
CwdOf(s, a) ==
    IF a.cwd # None THEN a.cwd
    ELSE IF s.write /\ ProviderOf(s, a) # "docker-codex" THEN "in" ELSE s.cwd

\* validateFleetSpec(): an absolute base directory, agents with different ids, tasks, thread keys
\* and providers that fit their runtimes.
Valid(s) ==
    /\ s.cwd # None /\ s.runtime # None /\ s.agents # <<>>
    /\ s.provider # None => ProviderMatchesRuntime(s.provider, s.runtime)
    /\ \A i \in 1 .. Len(s.agents) :
         LET a == s.agents[i]
         IN  /\ a.task /\ a.thread # None /\ \A j \in 1 .. i - 1 : s.agents[j].id # a.id
             /\ ProviderMatchesRuntime(ProviderOf(s, a), RuntimeOf(s, a))

\* buildCanaryFleetSpec(): the manager, or the first agent, and the first other worker, or other
\* agent, under new ids.
CanaryOf(s) ==
    LET n == Len(s.agents)
        first(P(_)) == LET i == {k \in 1 .. n : P(k)}
                       IN  IF i = {} THEN 0 ELSE CHOOSE k \in i : \A l \in i : k <= l
        m == first(LAMBDA k : s.agents[k].role = "manager")
        manager == IF m # 0 THEN m ELSE 1
        w == first(LAMBDA k : k # manager /\ s.agents[k].role # "manager")
        worker == IF w # 0 THEN w ELSE first(LAMBDA k : k # manager)
        as(k, i, role) ==
            [id |-> CanaryId[i], role |-> role, runtime |-> s.agents[k].runtime,
             provider |-> s.agents[k].provider, thread |-> s.agents[k].thread,
             cwd |-> s.agents[k].cwd, task |-> s.agents[k].task]
    IN  [s EXCEPT !.agents = IF worker = 0 THEN <<as(manager, 1, "manager")>>
                             ELSE <<as(manager, 1, "manager"), as(worker, 2, "worker")>>]

\* executeCanary(): with smoke tasks a canary does not write.
CanaryRun(s) == [CanaryOf(s) EXCEPT !.write = FALSE]

\* buildFleetRunPlan(): how each agent is launched and given its job, in the order of the spec.
PlanOf ==
    [l \in 1 .. Len(Loads) |->
       LET s == IF Loads[l].mode = "canary" THEN CanaryRun(Loads[l].spec) ELSE Loads[l].spec
       IN  [i \in 1 .. Len(s.agents) |->
              LET a == s.agents[i]
              IN  [id |-> a.id, runtime |-> RuntimeOf(s, a), provider |-> ProviderOf(s, a),
                   cwd |-> CwdOf(s, a), write |-> s.write]]]

opt == Loads[load]
Plan == PlanOf[load]
Ids == {Plan[i].id : i \in 1 .. Len(Plan)}
Id == Plan[next].id

-----------------------------------------------------------------------------
NoJob == [pending |-> FALSE, request |-> FALSE, accepted |-> FALSE, terminal |-> "none"]

Init ==
    /\ LauncherInit
    /\ load \in 1 .. Len(Loads)
    /\ pc = "main" /\ next = 1
    /\ launched = [a \in Agent |-> "none"] /\ cwds = {} /\ restart = {}
    /\ job = [a \in Agent |-> NoJob] /\ gw = [a \in Agent |-> "none"]
    /\ inbox = opt.old
    /\ bus = FALSE /\ result = "none" /\ misled = FALSE

\* main(): an invalid spec is refused, a dry run prints the plan.
Main ==
    /\ pc = "main"
    /\ \/ Valid(opt.spec) /\ opt.mode # "dry" /\ pc' = "join" /\ UNCHANGED result
       \/ Valid(opt.spec) /\ opt.mode = "dry" /\ pc' = "done" /\ result' = "planned"
       \/ ~Valid(opt.spec) /\ pc' = "done" /\ result' = "invalid"
    /\ UNCHANGED <<launcherVars, load, next, launched, cwds, job, gw, inbox, bus, misled,
                   restart>>

\* executeFleetSpec(): a2a.start() and the topics.  A run that cannot join ends with an error.
Join ==
    /\ pc = "join" /\ bus' = TRUE
    /\ \/ pc' = "launch" /\ UNCHANGED <<result, faults>>
       \/ Fault /\ pc' = "leave" /\ result' = "error"
    /\ UNCHANGED <<at, key, identity, cont, present, record, load, next, launched, cwds, job, gw,
                   inbox, misled, restart>>

\* The loop goes on with the next agent of the plan, or with what follows it.
Step(follow) == IF next < Len(Plan) THEN next' = next + 1 /\ pc' = pc
                ELSE next' = 1 /\ pc' = follow
Launched(how) == launched' = [launched EXCEPT ![Id] = how]

\* launchFleetAgent(): a request to the launcher, whatever the runtime; or it cannot be reached, or
\* no backend is set.
Launch ==
    /\ pc = "launch"
    /\ \/ /\ opt.backend = "http" /\ Arrive(RunReq[Id])
          /\ pc' = "launching" /\ UNCHANGED <<next, launched>>
       \/ /\ IF opt.backend = "none" THEN UNCHANGED faults ELSE Fault
          /\ Launched("failed") /\ Step("register")
          /\ UNCHANGED <<at, key, identity, cont, present, record>>
    /\ UNCHANGED <<load, cwds, job, gw, inbox, bus, result, misled, restart>>

\* After a launch the loop is at its top again.
StepLaunch == IF next < Len(Plan) THEN next' = next + 1 /\ pc' = "launch"
              ELSE next' = 1 /\ pc' = "register"

\* launchViaLauncherHttp(): the answer, or the abort after launchTimeoutMs, which the launcher does
\* not notice.
LaunchAnswer ==
    /\ pc = "launching"
    /\ \/ at[RunReq[Id]] = "ok" /\ pc' = "presence" /\ UNCHANGED <<next, launched>>
       \/ Launched("failed") /\ StepLaunch
    /\ UNCHANGED <<launcherVars, load, cwds, job, gw, inbox, bus, result, misled, restart>>

\* waitForPresence(): the agent is among the peers, or presenceTimeoutMs passes.
WaitPresence ==
    /\ pc = "presence"
    /\ Launched(IF present[Id] THEN "ok" ELSE "presence_timeout") /\ StepLaunch
    /\ UNCHANGED <<launcherVars, load, cwds, job, gw, inbox, bus, result, misled, restart>>

\* registerWritableCwd() for a job that writes; a job without a registered cwd is not sent.
RegisterCwds ==
    /\ pc = "register"
    /\ \/ /\ launched[Id] = "ok" /\ (Plan[next].write => Plan[next].cwd = "in")
          /\ cwds' = cwds \cup {Id} /\ UNCHANGED <<job, faults>>
       \/ /\ launched[Id] = "ok" /\ Plan[next].write
          /\ IF Plan[next].cwd = "in" THEN Fault ELSE UNCHANGED faults
          /\ job' = [job EXCEPT ![Id].terminal = "cwd_failed"] /\ UNCHANGED cwds
       \/ launched[Id] # "ok" /\ UNCHANGED <<cwds, job, faults>>
    /\ Step("dispatch")
    /\ UNCHANGED <<at, key, identity, cont, present, record, load, launched, gw, inbox, bus, result,
                   misled, restart>>

\* The job becomes pending and goes out; a2a_send is awaited.  It may fail, with the job out or not.
Dispatch ==
    /\ pc = "dispatch"
    /\ IF Id \in cwds
       THEN /\ job' = [job EXCEPT ![Id].pending = TRUE]
            /\ \/ gw' = [gw EXCEPT ![Id] = "sent"] /\ pc' = "sending" /\ UNCHANGED faults
               \/ Fault /\ gw' \in {gw, [gw EXCEPT ![Id] = "sent"]} /\ pc' = "unsent"
            /\ UNCHANGED next
       ELSE Step("wait") /\ UNCHANGED <<job, gw, faults>>
    /\ UNCHANGED <<at, key, identity, cont, present, record, load, launched, cwds, inbox, bus,
                   result,
                   misled, restart>>

\* a2a_send returns: from now on the id of the request is known.  A failed send is the outcome.
Sent ==
    /\ pc \in {"sending", "unsent"}
    /\ job' = [job EXCEPT ![Id] = IF pc = "sending" THEN [@ EXCEPT !.request = TRUE]
                                  ELSE [@ EXCEPT !.terminal = "failed"]]
    /\ IF next < Len(Plan) THEN next' = next + 1 /\ pc' = "dispatch" ELSE next' = 1 /\ pc' = "wait"
    /\ UNCHANGED <<launcherVars, load, launched, cwds, gw, inbox, bus, result, misled,
                   restart>>

-----------------------------------------------------------------------------
(* The agents and their replies. *)

\* The agent accepts its job or rejects it, and completes it or fails.  The gateway of Codex sends
\* replies; a live session may as well send a message of its own.
Work(a, kind, type) ==
    /\ present[a]
    /\ \/ gw[a] = "sent" /\ kind \in {"accepted", "rejected"}
       \/ gw[a] = "accepted" /\ kind \in {"completed", "failed"}
    /\ type = "msg" => \E i \in 1 .. Len(Plan) : Plan[i].id = a /\ Plan[i].runtime = "claude-live"
    /\ gw' = [gw EXCEPT ![a] = kind]
    /\ inbox' = inbox \cup {[from |-> a, corr |-> "this", type |-> type, kind |-> kind]}
    /\ UNCHANGED <<launcherVars, load, pc, next, launched, cwds, job, bus, result, misled,
                   restart>>

\* Mutant of Classify: the correlation id is not compared.
ClassifyAnyCorr(m) == job[m.from].pending

\* classifyFleetJobReply(): a reply counts for the pending job of its sender unless it answers
\* another request; the id of the request is unknown until a2a_send has returned, or has failed.
Classify(m) ==
    job[m.from].pending /\ (m.type = "reply" /\ job[m.from].request => m.corr = "this")

\* The channel's handler: the last terminal reply is the outcome of the job.
Receive(m) ==
    /\ m \in inbox /\ bus /\ inbox' = inbox \ {m}
    /\ job' = IF ~Classify(m) THEN job
              ELSE [job EXCEPT ![m.from] = IF m.kind = "accepted" THEN [@ EXCEPT !.accepted = TRUE]
                                           ELSE [@ EXCEPT !.terminal = m.kind]]
    /\ misled' = (misled \/ (m.corr = "old" /\ job[m.from].pending
                             /\ (m.type = "msg" \/ ~job[m.from].request)))
    /\ UNCHANGED <<launcherVars, load, pc, next, launched, cwds, gw, bus, result, restart>>

-----------------------------------------------------------------------------
(* The end of the run. *)

\* Mutant of Finish: the run waits for every outcome.
FinishNoTimeout ==
    /\ pc = "wait" /\ \A a \in Ids : job[a].pending => job[a].terminal # "none"
    /\ result' = "failed" /\ pc' = IF opt.stop THEN "stop" ELSE "leave"
    /\ UNCHANGED <<launcherVars, load, next, launched, cwds, job, gw, inbox, bus, misled,
                   restart>>

\* Every pending job has an outcome, or the run's timeout passes, which it may at any time.
Finish ==
    /\ pc = "wait"
    /\ result' = IF /\ \A a \in Ids : launched[a] = "ok"
                    /\ \A a \in Ids : job[a].terminal = "completed"
                 THEN "ok" ELSE "failed"
    /\ pc' = IF opt.stop THEN "stop" ELSE "leave"
    /\ UNCHANGED <<launcherVars, load, next, launched, cwds, job, gw, inbox, bus, misled,
                   restart>>

\* A request that may still start its container.
MayStart(r) == at[r] \notin Ended /\ (at[r] = "idle" => r \in opt.others)

\* Mutant of StopSession: only what was launched with success.
StopSessionLaunched ==
    /\ pc = "stop" /\ UNCHANGED <<faults, restart>>
    /\ IF launched[Id] = "ok" THEN Stopped(Id) ELSE UNCHANGED <<cont, present>>
    /\ Step("leave")
    /\ UNCHANGED <<at, key, identity, record, load, launched, cwds, job, gw, inbox, bus, result,
                   misled>>

\* stopFleetSessions(): every agent of the plan, launched or not; the command may fail.
StopSession ==
    /\ pc = "stop"
    /\ \/ /\ Stopped(Id) /\ UNCHANGED faults
          /\ restart' = restart \cup {a \in {Id} : \E r \in Req : For[r] = a /\ MayStart(r)}
       \/ Fault /\ restart' = restart \cup {Id} /\ UNCHANGED <<cont, present>>
    /\ Step("leave")
    /\ UNCHANGED <<at, key, identity, record, load, launched, cwds, job, gw, inbox, bus, result,
                   misled>>

\* finally: the topics are left and the channel is stopped.
Leave ==
    /\ pc = "leave" /\ pc' = "done" /\ bus' = FALSE
    /\ UNCHANGED <<launcherVars, load, next, launched, cwds, job, gw, inbox, result, misled,
                   restart>>

Orchestrate ==
    \/ Main \/ Join \/ Launch \/ LaunchAnswer \/ WaitPresence \/ RegisterCwds \/ Dispatch \/ Sent
    \/ Finish \/ StopSession \/ Leave

\* Requests of others, and the launcher.
Others ==
    /\ \/ \E r \in Req : Launching(r) \/ (r \in opt.others /\ Arrive(r))
       \/ \E r \in Req : LateRegister(r)
       \/ LauncherCrash
       \/ \E a \in Agent : AgentUp(a) \/ AgentDown(a)
    /\ UNCHANGED fleetVars

Next ==
    \/ Orchestrate \/ Others
    \/ \E a \in Agent, k \in Answers, t \in {"reply", "msg"} : Work(a, k, t)
    \/ \E m \in inbox : Receive(m)

\* The orchestrator and the launcher go on, agents come up and work, replies arrive.
Fairness ==
    /\ WF_vars(Orchestrate)
    /\ \A r \in Req : WF_vars(Launching(r) /\ UNCHANGED fleetVars)
    /\ \A a \in Agent : WF_vars(AgentUp(a) /\ UNCHANGED fleetVars)
    /\ \A a \in Agent : WF_vars(\E k \in Answers : Work(a, k, "reply"))
    /\ WF_vars(\E m \in inbox : Receive(m))

Spec == Init /\ [][Next]_vars /\ Fairness

-----------------------------------------------------------------------------
(* Properties. *)

\* A run that reports ok has had its jobs done: every agent of the plan has completed the job of
\* this run (classifyFleetJobReply).  The exceptions are replies to an earlier run of the fleet that
\* come as messages, or before the id of the request is known: the job ids are the same.
ResultIsFounded ==
    result = "ok" /\ ~misled => \A a \in Ids : gw[a] = "completed"

\* With --stop-after nothing of the run is left running at its end, also if launches failed or were
\* not waited for, unless a session could not be stopped or a launch of it was under way or still
\* to come when it was (stopFleetSessions on every agent of the plan).
StoppedAfterwards ==
    pc = "done" /\ result \in {"ok", "failed"} /\ opt.stop =>
        \A a \in Ids \ restart : cont[a].state # "running"

\* Both together: a run that says ok is right, and one that should stop its agents has.
FleetSafe == ResultIsFounded /\ StoppedAfterwards

\* A run ends, whatever fails on its way, and leaves the bus.
RunEnds == <>(pc = "done" /\ ~bus)
=============================================================================
