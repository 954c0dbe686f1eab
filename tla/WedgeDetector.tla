--------------------------- MODULE WedgeDetector ---------------------------
(***************************************************************************)
(* Liveness beats and the wedge detector (agent_beat.ts, wedge_detector.ts *)
(* and the shared plane_schemas.ts).                                       *)
(*                                                                         *)
(* Hooks of an agent run emitBeat() in processes of their own: each reads  *)
(* the persisted beat state, computes the next beat, writes the state and  *)
(* publishes over core NATS, which may lose, delay or repeat the beat.     *)
(* The detector ingests beats and, on a timer, classifies the agent from   *)
(* its receive clock and the presence record; both await Redis between     *)
(* their steps and work on the same state object.                          *)
(*                                                                         *)
(* One watched agent is modelled with its incarnations.  The other loop    *)
(* agents only matter for the plane gate, as how many of them are fresh.   *)
(* Time is counted in beat cadences; an incarnation stands for boot_id,    *)
(* session_id and the started_at of its presence record.                   *)
(***************************************************************************)
EXTENDS Naturals

CONSTANTS
    Emission,           \* what they emit: phase, with progress, with another state or stop hook
    Class,              \* the values the operator-set liveness class may have
    Silent,             \* the values the expected-silent marker may have
    MissedBeats,        \* WEDGE_MISSED_BEATS
    BootGrace,          \* WEDGE_BOOT_GRACE_MS
    LongTurn,           \* WEDGE_LONG_TURN_MS
    ProgressStale,      \* WEDGE_PROGRESS_STALE_MS
    StaleCadences,      \* WEDGE_STALE_PROGRESS_CADENCES
    AgeOut,             \* WEDGE_CENSUS_AGEOUT_MS
    Peers,              \* other active loop agents
    GateMin,            \* WEDGE_GLOBAL_GATE_MIN_AGENTS
    MaxNow, MaxBoot,    \* bounds
    MaxEvent            \* how many beats, relaunches and events together

None == 0

ASSUME WedgeAssumption ==
    /\ Emission \subseteq
         {"turn-start", "turn-end", "still-working", "progress", "keepalive"} \X BOOLEAN \X BOOLEAN
    /\ Class \subseteq {"loop", "service", "none"} /\ Silent \subseteq BOOLEAN
    /\ {MissedBeats, BootGrace, LongTurn, ProgressStale, StaleCadences, AgeOut,
        Peers, GateMin, MaxNow, MaxBoot, MaxEvent} \subseteq Nat
    /\ MaxBoot # 0

VARIABLES
    now,
    boot,       \* the incarnation of the agent
    pres,       \* the presence record: the incarnation that holds it, or None
    file,       \* the persisted beat state of the incarnation
    hook,       \* what a hook process that is overtaken has read
    overtaken,  \* history: the incarnations of which a hook wrote a state older than the file
    net,        \* beats on their way
    mem, store, \* the detector's state of the agent in memory and in Redis
    hw,         \* the high-water key of each incarnation
    ing, ev,    \* ingestBeat() and evaluateOnce() between their awaits
    heard,      \* history: when the newest beat of the incarnation was received, and its seq
    doubt,      \* history: a Redis call of the detector failed, or a beat was paired with no
                \* presence record or with that of another incarnation, or an agent was
                \* judged by a presence record that was replaced during the evaluation
    events      \* how many beats, relaunches and events there were

vars == <<now, boot, pres, file, hook, overtaken, net, mem, store, hw, ing, ev, heard,
          doubt, events>>
agent == <<boot, pres, file, hook, overtaken>>
detector == <<mem, store, hw, ing, ev, heard, doubt>>

-----------------------------------------------------------------------------
(* buildNextBeat() *)

\* The first sequence number, 0 in the code, is 1 here.  mark stands for the three time stamps,
\* which are of the millisecond: it counts the changes of any of them.
Fresh == [seq |-> 1, start |-> None, prog |-> None, mark |-> 0]

\* The clocks that a phase advances.  A turn may be reported with progress.
NextState(prev, ph, progress) ==
    LET made == ph = "progress" \/ (progress /\ ph \in {"turn-end", "still-working"})
        turn == ph \in {"turn-start", "turn-end"}
    IN  [seq   |-> IF ph \in {"still-working", "progress"} THEN prev.seq ELSE prev.seq + 1,
         start |-> IF ph = "turn-start" \/ prev.start = None THEN now ELSE prev.start,
         prog  |-> IF made THEN now ELSE prev.prog,
         mark  |-> IF turn \/ made \/ prev.start = None THEN prev.mark + 1 ELSE prev.mark]

\* A turn that starts, works or progresses is reported as in_task, the end of one and a keepalive
\* as idle, unless the hook says otherwise: a keepalive as in_task, a turn end with an active
\* stop hook.
Beat(b, s, ph, busy) ==
    [boot |-> b, st |-> s,
     active |-> ph \in {"turn-start", "still-working", "progress"} \/ (ph = "keepalive" /\ busy),
     stop |-> ph = "turn-end" /\ busy]

-----------------------------------------------------------------------------
(* The detector's state of the agent. *)

Unknown == [boot |-> None, pstart |-> None, first |-> None, recv |-> None, beat |-> <<>>,
            stale |-> 0, class |-> "none"]
Absent == [Unknown EXCEPT !.class = "absent"]     \* no state object at all
Known(s) == s # Absent

Classes == {"none", "healthy", "idle-ok", "service-alive", "offline", "loop-dead", "long-turn",
            "stale-goal-spin", "boot-grace", "expected-silent", "plane-unhealthy"}

Init ==
    /\ now = 1 /\ boot = 1 /\ pres = 1
    /\ file = Fresh /\ hook = <<>> /\ overtaken = {} /\ net = {}
    /\ mem = Absent /\ store = Absent /\ hw = [b \in 1 .. MaxBoot |-> 0]
    /\ ing = <<>> /\ ev = <<>>
    /\ heard = [at |-> None, seq |-> 0, up |-> 1]
    /\ doubt = FALSE /\ events = 0

Event == events < MaxEvent /\ events' = events + 1

-----------------------------------------------------------------------------
(* The agent and its hooks. *)

\* emitBeat() has read the persisted state and is overtaken by other hooks before it writes.
EmitRead ==
    /\ hook = <<>> /\ Event
    /\ hook' = <<boot, file>>
    /\ UNCHANGED <<now, boot, pres, file, overtaken, net, detector>>

\* publishBeat()
Publish(b) == net' = net \cup {b}

\* emitBeat() writes the state that follows the one it has read and publishes the beat.  A
\* keepalive soon after another beat is skipped.
EmitWrite(read, ph, progress, busy) ==
    /\ Event
    /\ LET b == read[1]
           s == NextState(read[2], ph, progress)
       IN  \/ /\ file' = IF b = boot THEN s ELSE file
              /\ Publish(Beat(b, s, ph, busy))
              /\ overtaken' = IF read = <<boot, file>> THEN overtaken ELSE overtaken \cup {b}
           \/ ph = "keepalive" /\ read[2].start # None /\ UNCHANGED <<file, overtaken, net>>
    /\ UNCHANGED <<now, boot, pres, detector>>

\* The hooks that are not overtaken, and the one that is.
Emit(ph, progress, busy) ==
    \/ EmitWrite(<<boot, file>>, ph, progress, busy) /\ UNCHANGED hook
    \/ hook # <<>> /\ EmitWrite(hook, ph, progress, busy) /\ hook' = <<>>

\* The presence record is released or expires.
PresenceGone ==
    /\ pres # None /\ boot < MaxBoot /\ pres' = None
    /\ UNCHANGED <<now, boot, file, hook, overtaken, net, detector, events>>

\* The next incarnation claims the presence record.
Relaunch ==
    /\ pres = None /\ boot < MaxBoot /\ Event
    /\ boot' = boot + 1 /\ pres' = boot + 1
    /\ file' = Fresh
    /\ heard' = [at |-> None, seq |-> 0, up |-> now]
    /\ UNCHANGED <<now, hook, overtaken, net, mem, store, hw, ing, ev, doubt>>

\* A cadence passes.
Tick ==
    /\ now < MaxNow /\ now' = now + 1
    /\ UNCHANGED <<agent, net, detector, events>>

-----------------------------------------------------------------------------
(* ingestBeat() *)

\* A beat may arrive late, twice or, as nothing makes it arrive, never.  It arrives, and the
\* presence record is read, which may fail.
IngestRead(b) ==
    /\ b \in net /\ ing = <<>>
    /\ \/ net' = net \ {b} /\ UNCHANGED events
       \/ UNCHANGED net /\ Event             \* it will come again
    /\ \E p \in {pres, None} :
         /\ ing' = <<[b |-> b, at |-> now, p |-> p, same |-> FALSE, changed |-> FALSE,
                      step |-> "read", own |-> FALSE]>>
         /\ doubt' = (doubt \/ p # b.boot)
    /\ UNCHANGED <<now, agent, mem, store, hw, ev, heard>>

\* A beat the detector has dealt with; it is news if it is the newest of the incarnation.
Hear(b, at) ==
    heard' = IF b.boot = boot /\ b.st.seq > heard.seq
             THEN [heard EXCEPT !.at = at, !.seq = b.st.seq] ELSE heard

\* claimHighWater(): newer than what memory and the key of its incarnation know.
ClaimHighWater(b, s, same) ==
    /\ same /\ s.beat # <<>> => b.st.seq > s.beat[1].st.seq
    /\ b.st.seq > hw[b.boot]

\* loadState()
Load == IF Known(mem) THEN mem ELSE store

\* loadState() has answered: a beat of a superseded incarnation and a repeated one are ignored.
\* An error of the high-water script lets the beat pass.
IngestClaim ==
    /\ ing # <<>> /\ ing[1].step = "read"
    /\ LET i == ing[1]
           s == Load
           same == Known(s) /\ s.boot = i.b.boot
           changed == Known(s) /\ i.p # None /\ s.pstart # None /\ i.p # s.pstart
           go == [i EXCEPT !.same = same, !.changed = changed, !.step = "apply", !.own = ~Known(s)]
           superseded == Known(s) /\ s.boot # None /\ ~same /\ ~changed
       IN  /\ mem' = s
           /\ \/ superseded /\ ing' = <<>> /\ Hear(i.b, i.at) /\ UNCHANGED <<hw, doubt, events>>
              \/ /\ ~superseded
                 /\ IF ClaimHighWater(i.b, s, same)
                    THEN ing' = <<go>> /\ hw' = [hw EXCEPT ![i.b.boot] = i.b.st.seq]
                         /\ UNCHANGED heard
                    ELSE ing' = <<>> /\ Hear(i.b, i.at) /\ UNCHANGED hw
                 /\ UNCHANGED <<doubt, events>>
              \/ /\ ~superseded /\ Event /\ doubt' = TRUE
                 /\ ing' = <<go>> /\ UNCHANGED <<hw, heard>>
    /\ UNCHANGED <<now, agent, net, store, ev>>

\* isKeepaliveBeat(): the sequence advanced and no clock did.
IsKeepalive(prev, b) ==
    /\ prev # <<>> /\ b.st.seq > prev[1].st.seq
    /\ b.st.mark = prev[1].st.mark

\* Mutant of NextStale: a keepalive counts as a turn without progress.
NextStaleKeepalive(s, i) ==
    IF ~(i.b.stop \/ i.b.active) \/ (i.b.st.prog # None /\ i.at - i.b.st.prog <= ProgressStale)
       \/ ~i.same \/ i.changed
    THEN 0 ELSE s.stale + 1

\* nextStaleProgressCadences()
NextStale(s, i) ==
    IF IsKeepalive(IF i.same THEN s.beat ELSE <<>>, i.b) THEN s.stale
    ELSE IF ~(i.b.stop \/ i.b.active)
            \/ (i.b.st.prog # None /\ i.at - i.b.st.prog <= ProgressStale)
            \/ ~i.same \/ i.changed
         THEN 0 ELSE s.stale + 1

\* saveState(), at best; stale: what it is computed from is known to be out of date.  The stored
\* classification is for display and is left out.
Save(s, stale) ==
    \/ store' = [s EXCEPT !.class = "none"] /\ doubt' = (doubt \/ stale) /\ UNCHANGED events
    \/ Event /\ doubt' = TRUE /\ UNCHANGED store

\* The beat is applied to the state object, which the evaluator may have changed meanwhile (or
\* to a new one, if there was none).
IngestApply ==
    /\ ing # <<>> /\ ing[1].step = "apply"
    /\ LET i == ing[1]
           s == IF i.own THEN Unknown ELSE IF Known(mem) THEN mem ELSE Unknown
           new == [s EXCEPT !.boot = i.b.boot, !.pstart = i.p, !.recv = i.at, !.beat = <<i.b>>,
                            !.stale = NextStale(s, i)]
       IN  mem' = new /\ Save(new, FALSE) /\ Hear(i.b, i.at)
    /\ ing' = <<>>
    /\ UNCHANGED <<now, agent, net, hw, ev>>

-----------------------------------------------------------------------------
(* evaluateOnce() *)

\* resolveLivenessMode()
Mode(s, class) ==
    IF class # "none" THEN class
    ELSE IF s.beat = <<>> /\ s.recv = None THEN "service" ELSE "loop"

\* planeHealthy(): the gate that suppresses plane-wide outages, with a minimal ratio of one half.
Gate(active, fresh) ==
    active > 0 /\ (IF active < GateMin THEN fresh > 0 ELSE 2 * fresh >= active)

\* planeHealthyForAgents(): with the watched agent, if it counts, and f fresh ones of its peers.
PlaneHealthy(s, p, silent, class, f, at) ==
    LET counts == p # None /\ ~silent /\ Mode(s, class) = "loop"
        active == Peers + (IF counts THEN 1 ELSE 0)
        fresh == f + (IF counts /\ s.recv # None /\ at <= s.recv + 2 THEN 1 ELSE 0)
    IN  Gate(active, fresh)

\* Mutant of Reset: the boot grace of the former incarnation goes on.
ResetKeepsFirst(s, p, at) ==
    IF p # None /\ s.pstart # None /\ p # s.pstart
    THEN [s EXCEPT !.boot = None, !.recv = None, !.beat = <<>>, !.stale = 0, !.pstart = p]
    ELSE IF p # None /\ s.first = None THEN [s EXCEPT !.first = at, !.pstart = p] ELSE s

\* Mutant of Reset: the last beat of the former incarnation counts for its successor.
ResetKeepsBeat(s, p, at) ==
    IF p # None /\ s.pstart # None /\ p # s.pstart
    THEN [s EXCEPT !.boot = None, !.stale = 0, !.first = at, !.pstart = p]
    ELSE IF p # None /\ s.first = None THEN [s EXCEPT !.first = at, !.pstart = p] ELSE s

\* A presence record of another incarnation clears what is known of the one before.
Reset(s, p, at) ==
    IF p # None /\ s.pstart # None /\ p # s.pstart
    THEN [s EXCEPT !.boot = None, !.recv = None, !.beat = <<>>, !.stale = 0, !.first = at,
                   !.pstart = p]
    ELSE IF p # None /\ s.first = None THEN [s EXCEPT !.first = at, !.pstart = p] ELSE s

\* classifyAgent()
Classify(s, p, silent, class, plane, at) ==
    IF p = None THEN "offline"
    ELSE IF silent THEN "expected-silent"
    ELSE IF Mode(s, class) = "service" THEN "service-alive"
    ELSE IF s.recv = None
         THEN IF at - s.first < BootGrace THEN "boot-grace"
              ELSE IF plane THEN "loop-dead" ELSE "plane-unhealthy"
    ELSE IF at >= s.recv + MissedBeats THEN IF plane THEN "loop-dead" ELSE "plane-unhealthy"
    ELSE LET b == s.beat[1]
         IN  IF (b.active \/ b.stop) /\ s.stale >= StaleCadences THEN "stale-goal-spin"
             ELSE IF ~b.active THEN "idle-ok"
             ELSE IF at > b.st.start + LongTurn THEN "long-turn" ELSE "healthy"

\* The evaluator takes the time and reads the presence records and the stored states.
EvalRead ==
    /\ ev = <<>>
    /\ ev' = <<[at |-> now, p |-> pres]>>
    /\ mem' = Load
    /\ UNCHANGED <<now, agent, net, store, hw, ing, heard, doubt, events>>

\* An absent agent that was not heard of for long leaves the census.
AgedOut(s, p, at) ==
    p = None /\ (LET last == IF s.recv # None THEN s.recv ELSE s.first
                 IN  last = None \/ at > last + AgeOut)

\* The agent is classified, with the liveness class and the expected-silent marker read meanwhile,
\* and its state saved.  Alerts go out, at most one per WEDGE_ALERT_REPEAT_MS
\* and class, and change nothing here.
EvalClassify(silent, class, f) ==
    /\ ev # <<>> /\ ev' = <<>>
    /\ LET e == ev[1]
           s0 == IF Known(mem) THEN mem ELSE Unknown
           s == Reset(s0, e.p, e.at)
           new == [s EXCEPT !.class =
                     Classify(s, e.p, silent, class,
                              PlaneHealthy(s0, e.p, silent, class, f, e.at), e.at)]
       IN  IF AgedOut(s0, e.p, e.at)
           THEN UNCHANGED <<mem, store, doubt, events>>
           ELSE mem' = new /\ Save(new, e.p # pres)
    /\ UNCHANGED <<now, agent, net, hw, ing, heard>>

\* The detector's process dies and starts again; what it had not saved is lost.
DetectorRestart ==
    /\ Event
    /\ mem' = Absent /\ ing' = <<>> /\ ev' = <<>>
    /\ doubt' = (doubt \/ ing # <<>>)
    /\ UNCHANGED <<now, agent, net, store, hw, heard>>

-----------------------------------------------------------------------------
Next ==
    \/ EmitRead
    \/ \E e \in Emission : Emit(e[1], e[2], e[3])
    \/ PresenceGone \/ Relaunch \/ Tick
    \/ \E b \in net : IngestRead(b)
    \/ IngestClaim \/ IngestApply \/ EvalRead
    \/ \E silent \in Silent, class \in Class, f \in 0 .. Peers : EvalClassify(silent, class, f)
    \/ DetectorRestart

Spec == Init /\ [][Next]_vars
-----------------------------------------------------------------------------
(* Properties. *)

OneOf(S) == [1 .. 0 -> S] \cup [1 .. 1 -> S]
ClockState == [seq: Nat, start: Nat, prog: Nat, mark: Nat]
AgentBeat == [boot: 1 .. MaxBoot, st: ClockState, active: BOOLEAN, stop: BOOLEAN]
AgentState == [boot: Nat, pstart: Nat, first: Nat, recv: Nat, beat: OneOf(AgentBeat), stale: Nat,
               class: Classes \cup {"absent"}]

TypeOK ==
    /\ now \in Nat /\ boot \in 1 .. MaxBoot /\ pres \in {None, boot} /\ events \in Nat
    /\ file \in ClockState /\ hook \in {<<>>} \cup (1 .. MaxBoot) \X ClockState
    /\ overtaken \subseteq 1 .. MaxBoot /\ net \subseteq AgentBeat
    /\ mem \in AgentState /\ store \in AgentState /\ hw \in [1 .. MaxBoot -> Nat]
    /\ ing \in OneOf([b: AgentBeat, at: Nat, p: Nat, same: BOOLEAN, changed: BOOLEAN,
                      step: {"read", "apply"}, own: BOOLEAN])
    /\ ev \in OneOf([at: Nat, p: Nat])
    /\ heard \in [at: Nat, seq: Nat, up: Nat] /\ doubt \in BOOLEAN

\* How long the incarnation, of which the evaluator has read the presence, had been silent when the
\* evaluation started: since its newest beat received, or since it came up.
SilentFor ==
    LET since == IF heard.at # None THEN heard.at ELSE heard.up
    IN  IF ev[1].at > since THEN ev[1].at - since ELSE 0

\* evaluateOnce() judges the present incarnation, with no failed Redis call before.
Judged(cls) == ev # <<>> /\ ev' = <<>> /\ ev[1].p = boot /\ ~doubt' /\ mem'.class \in cls

\* A running agent is not called dead: a loop-dead verdict on the present incarnation means that
\* for MissedBeats cadences no new beat of it was received, or none at all since it came up a
\* boot grace ago (classifyAgent with the identity and high-water checks of ingestBeat).  The
\* exceptions are those of doubt: a failed Redis call or a beat paired with the wrong presence
\* record makes the detector keep an identity whose successor it ignores, and an evaluation that
\* began before a relaunch erases the first beat of the successor.
LoopDeadIsFounded ==
    [][Judged({"loop-dead"}) =>
         SilentFor >= IF heard.at # None THEN MissedBeats ELSE BootGrace]_vars

\* A dead loop is not masked: no repeated, reordered or foreign beat, and no restart of the
\* detector, lets an incarnation pass as alive of which the newest beat received was MissedBeats
\* cadences old when the evaluation began, and none is before its first beat.
NoMaskedWedge ==
    [][Judged({"healthy", "idle-ok", "long-turn", "stale-goal-spin"}) =>
         heard.at # None /\ ev[1].at < heard.at + MissedBeats]_vars

\* The spin counter never exceeds the turn boundaries and progress reports of the incarnation:
\* neither keepalives nor repeated beats advance it, and it does not outlive an incarnation
\* (nextStaleProgressCadences).  The exception is an incarnation of which a hook was overtaken by
\* another between reading the beat state and writing it (emitBeat): that puts the clocks back
\* and makes the next keepalive differ from the last beat.
SpinIsFounded ==
    Known(mem) /\ mem.beat # <<>> /\ ~doubt /\ mem.boot \notin overtaken =>
        mem.stale <= mem.beat[1].st.mark

\* Verdicts of the detector have a cause: loop-dead means silence for long enough, and the spin
\* counter never exceeds the agent's own turn boundaries and progress reports.
VerdictIsFounded == [][SpinIsFounded']_vars /\ LoopDeadIsFounded
=============================================================================
