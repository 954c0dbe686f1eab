---------------------------- MODULE NatsChannel ----------------------------
(***************************************************************************)
(* nats-channel.ts, the advisory feed: subscriptions follow a set of specs  *)
(* stored in Redis.  Reloads (start, control nudges, the 30 s self-heal)    *)
(* run one at a time on a promise chain and coalesce while one is queued;   *)
(* each reload reads the specs, drops what is gone (deleting its durable    *)
(* only on a clean load), rebuilds what was edited and adds what is new.    *)
(* Each subscription has a loop that gates, injects and acks its messages   *)
(* and removes itself when it dies.  NATS and Redis are external.           *)
(***************************************************************************)
EXTENDS Integers, Sequences, FiniteSets, SequencesExt

CONSTANTS Arrays,       \* what the operator may store: sequences of raw specs
          Defaults,     \* the built-in specs
          None,
          MAX_DELIVER,
          MaxEdits,     \* bound: operator edits of the stored value
          MaxMsg,       \* bound: messages published on the durables' stream
          MaxFaults,    \* bound: failed Redis / JetStream calls, dead loops, failed injects
          MaxSubs       \* bound: subscriptions made in a behaviour

(* A spec is [id, durable, cfg, sample, form]: idOf, the durable (None for a core subscription), *)
(* the consumer-relevant fields, a field that only the gate uses, and how it is written: "ok",   *)
(* "malformed", "a2a" (a subject the bus owns) or "unnamed" (jetstream without stream+durable).  *)

\* Mutant of validateSpecs: a second spec on a durable that is taken is let through.
validateSpecsTwice(raw) ==
    [specs |-> {raw[n] : n \in {k \in DOMAIN raw : raw[k].form = "ok"}},
     errors |-> IF \E n \in DOMAIN raw : raw[n].form # "ok" THEN "some" ELSE "none"]

\* validateSpecs: malformed specs, bus subjects, unnamed consumers and any spec but the first on
\* a durable are rejected; what is left is used, and the load is not clean if any was rejected.
validateSpecs(raw) ==
    LET kept == {n \in DOMAIN raw :
                    /\ raw[n].form = "ok"
                    /\ \A k \in 1..n - 1 : raw[k].form = "ok" /\ raw[n].durable # None
                                            => raw[k].durable # raw[n].durable}
    IN  [specs |-> {raw[n] : n \in kept}, errors |-> IF kept # DOMAIN raw THEN "some" ELSE "none"]

\* The values of the key that parse, by what loadSpecs makes of them.
Versions == {validateSpecs(raw) : raw \in Arrays}

\* Two stored specs with one id are one spec (a later one would replace the earlier).
NatsAssumption ==
    /\ \A v \in Versions : \A s, t \in v.specs : s.id = t.id => s = t
    /\ MAX_DELIVER \in Nat \ {0} /\ {MaxEdits, MaxMsg, MaxFaults, MaxSubs} \subseteq Nat
    /\ Cardinality(({s.durable : s \in Defaults \cup UNION {v.specs : v \in Versions}})
                     \ {None}) <= 1   \* msg is one durable's view of the stream

Specs == Defaults \cup UNION {v.specs : v \in Versions}
Ids == {s.id : s \in Specs}
Durables == {s.durable : s \in Specs} \ {None}
Absent == [specs |-> {}, errors |-> "absent"]
Garbage == [specs |-> {}, errors |-> "bad_json"]

VARIABLES stored,     \* the Redis value
          everLoaded, \* this.everLoaded
          queued,     \* this.reloadQueued
          rl,         \* the reload that runs: [pc, got, todo, del]; del: whose durable goes
          active,     \* [Ids -> index into subs, or 0]
          subs,       \* every ActiveSub made: [spec, run, count, busy]
          server,     \* [Durables -> the JetStream consumer, or None]
          life,       \* "up", "stopping" (drain), "down"
          top,        \* messages published on the stream
          msg,        \* [1..MaxMsg -> [tries, state]] as durable consumers see them
          edits, faults,
          history     \* [cause: why each durable was last deleted, everSet: specs ever stored]

vars == <<stored, everLoaded, queued, rl, active, subs, server, life, top, msg, edits, faults,
          history>>
feed == <<top, msg>>

Fault == faults < MaxFaults /\ faults' = faults + 1
Idle == [pc |-> "idle", got |-> Absent, todo |-> {}, del |-> None]
NewMsg == [tries |-> 0, state |-> "none"]

Init ==
    /\ stored \in Versions \cup {Absent} /\ everLoaded = FALSE
    /\ queued = TRUE /\ rl = Idle
    /\ active = [i \in Ids |-> 0] /\ subs = <<>> /\ server = [d \in Durables |-> None]
    /\ life = "up" /\ top = 0 /\ msg = [m \in 1..MaxMsg |-> NewMsg]
    /\ edits = 0 /\ faults = 0
    /\ history = [cause |-> [d \in Durables |-> Absent], everSet |-> stored.specs]

-----------------------------------------------------------------------------
(* The operator, and the triggers of a reload *)

\* The stored value is edited, damaged or lost.
Edit(v) ==
    /\ life = "up" /\ edits < MaxEdits /\ edits' = edits + 1 /\ v # stored
    /\ stored' = v /\ history' = [history EXCEPT !.everSet = @ \cup v.specs]
    /\ UNCHANGED <<everLoaded, queued, rl, active, subs, server, life, feed, faults>>

\* reload(): a nudge on the control subject or the self-heal timer; one queued reload is enough.
Reload ==
    /\ life = "up" /\ ~queued /\ queued' = TRUE
    /\ UNCHANGED <<stored, everLoaded, rl, active, subs, server, life, feed, edits, faults,
                   history>>

\* The queued reload starts once the running one is over.
StartReload ==
    /\ queued /\ rl.pc = "idle" /\ life # "down"
    /\ queued' = FALSE
    /\ rl' = IF life = "up" THEN [Idle EXCEPT !.pc = "load"] ELSE Idle
    /\ UNCHANGED <<stored, everLoaded, active, subs, server, life, feed, edits, faults, history>>

-----------------------------------------------------------------------------
(* loadSpecs and _reload *)

\* Mutant of loadSpecs: a key that vanished is seeded again.
loadSpecsReseeds(v) == IF v = Absent THEN [specs |-> Defaults, errors |-> "none"] ELSE v

\* loadSpecs: an absent key is the defaults on the very first load only, later it is a failed
\* load, as malformed JSON is.
loadSpecs(v) == IF v = Absent /\ ~everLoaded THEN [specs |-> Defaults, errors |-> "none"] ELSE v

IdsOf(specs) == {s.id : s \in specs}
Live(i) == active[i] # 0

\* The read of Redis answers (or fails); the first phase of the reload is set up.  Seeding an
\* absent key may fail too, which is only logged.
Loaded(ok) ==
    /\ rl.pc = "load" /\ life # "down"
    /\ LET r == loadSpecs(stored)
           usable == ok /\ r.errors \in {"none", "some"}
       IN  /\ rl' = IF usable THEN [pc |-> "drop", got |-> r, del |-> None,
                                    todo |-> {i \in Ids : Live(i)} \ IdsOf(r.specs)]
                    ELSE Idle
           /\ everLoaded' = (everLoaded \/ usable)
           /\ history' = [history EXCEPT !.everSet = @ \cup
                                (IF everLoaded THEN stored.specs ELSE r.specs)]
           /\ \/ /\ stored' = IF usable /\ stored = Absent THEN r ELSE stored
                 /\ IF ok THEN UNCHANGED faults ELSE Fault
              \/ usable /\ stored = Absent /\ stored' = stored /\ Fault
    /\ UNCHANGED <<queued, active, subs, server, life, feed, edits>>

\* Mutant of stopLoop: the subscription is forgotten without being stopped.
stopLoopForgets(n) == subs

\* stop(): the loop of the subscription ends.
stopLoop(n) == [subs EXCEPT ![n].run = FALSE]

\* Mutant of deletesDurable: rejected specs do not make the load unclean.
deletesDurableAlways(spec, got) == spec.durable # None

\* Only a clean load may destroy a cursor.
deletesDurable(spec, got) == spec.durable # None /\ got.errors = "none"

\* A subscription whose id is no longer desired is stopped and forgotten.
Drop(i) ==
    /\ rl.pc = "drop" /\ rl.del = None /\ i \in rl.todo /\ life # "down"
    /\ rl' = [rl EXCEPT !.todo = @ \ {i},
                        !.del = IF active[i] # 0 /\ deletesDurable(subs[active[i]].spec, rl.got)
                                THEN subs[active[i]].spec ELSE None]
    /\ subs' = IF active[i] = 0 THEN subs ELSE stopLoop(active[i])
    /\ active' = [active EXCEPT ![i] = 0]
    /\ UNCHANGED <<stored, everLoaded, queued, server, life, feed, edits, faults, history>>

\* Its durable is deleted, or the attempt fails and is only logged.
DeleteDurable(ok) ==
    /\ rl.pc = "drop" /\ rl.del # None
    /\ server' = IF ok THEN [server EXCEPT ![rl.del.durable] = None] ELSE server
    /\ history' = IF ok THEN [history EXCEPT !.cause[rl.del.durable] =
                                 [specs |-> rl.got.specs, errors |-> rl.got.errors,
                                  was |-> rl.del.id]]
                  ELSE history
    /\ IF ok THEN UNCHANGED faults ELSE Fault
    /\ rl' = [rl EXCEPT !.del = None]
    /\ UNCHANGED <<stored, everLoaded, queued, active, subs, life, feed, edits>>

Dropped ==
    /\ rl.pc = "drop" /\ rl.todo = {} /\ rl.del = None
    /\ rl' = [rl EXCEPT !.pc = "add", !.todo = IdsOf(rl.got.specs)]
    /\ UNCHANGED <<stored, everLoaded, queued, active, subs, server, life, feed, edits, faults,
                   history>>

SpecOf(i) == CHOOSE s \in rl.got.specs : s.id = i

\* An unchanged subscription is left alone.
Keep(i) ==
    /\ rl.pc = "add" /\ i \in rl.todo /\ Live(i) /\ subs[active[i]].spec = SpecOf(i)
    /\ rl' = [rl EXCEPT !.todo = @ \ {i}]
    /\ UNCHANGED <<stored, everLoaded, queued, active, subs, server, life, feed, edits, faults,
                   history>>

\* Mutant of reconciled: every rebuild recreates the consumer.
reconciledAlways(spec, cur) == [cfg |-> spec.cfg, at |-> top]

\* subscribe(): the durable is created, recreated on drift (from `at`, deliver new), or kept.
reconciled(spec, cur) ==
    IF cur = None \/ cur.cfg # spec.cfg THEN [cfg |-> spec.cfg, at |-> top] ELSE cur

\* stopSub of an edited one and addSub; the old loop is stopped whether or not the new one starts.
Add(i, ok) ==
    /\ rl.pc = "add" /\ i \in rl.todo /\ life # "down" /\ Len(subs) < MaxSubs
    /\ ~(Live(i) /\ subs[active[i]].spec = SpecOf(i))
    /\ LET s == SpecOf(i)
           old == IF Live(i) THEN stopLoop(active[i]) ELSE subs
           can == ok /\ life = "up"   \* a draining connection takes no new subscription
       IN  /\ subs' = IF can THEN Append(old, [spec |-> s, run |-> TRUE, count |-> 0, busy |-> 0])
                      ELSE old
           /\ active' = [active EXCEPT ![i] = IF can THEN Len(subs) + 1 ELSE 0]
           /\ server' = IF can /\ s.durable # None
                        THEN [server EXCEPT ![s.durable] = reconciled(s, @)] ELSE server
           /\ history' = IF can /\ s.durable # None /\ server[s.durable] # None
                            /\ server'[s.durable] # server[s.durable]
                         THEN [history EXCEPT !.cause[s.durable] =
                                  [specs |-> {s}, errors |-> "drift",
                                   was |-> server[s.durable].cfg]]
                         ELSE history
    /\ IF ok THEN UNCHANGED faults ELSE Fault
    /\ rl' = [rl EXCEPT !.todo = @ \ {i}]
    /\ UNCHANGED <<stored, everLoaded, queued, life, feed, edits>>

ReloadDone ==
    /\ rl.pc = "add" /\ rl.todo = {} /\ rl' = Idle
    /\ UNCHANGED <<stored, everLoaded, queued, active, subs, server, life, feed, edits, faults,
                   history>>

-----------------------------------------------------------------------------
(* The loops *)

\* Mutant of LoopDies: the dead loop stays in `active`.
LoopDiesUnreaped(n) ==
    /\ n \in DOMAIN subs /\ subs[n].run /\ subs[n].busy = 0 /\ life = "up"
    /\ Fault /\ subs' = stopLoop(n)
    /\ UNCHANGED <<stored, everLoaded, queued, rl, active, server, life, feed, edits, history>>

\* A loop ends by itself (an iterator error) and takes its own entry out of `active`.
LoopDies(n) ==
    /\ n \in DOMAIN subs /\ subs[n].run /\ subs[n].busy = 0 /\ life = "up"
    /\ Fault /\ subs' = stopLoop(n)
    /\ active' = [i \in Ids |-> IF active[i] = n THEN 0 ELSE active[i]]
    /\ UNCHANGED <<stored, everLoaded, queued, rl, server, life, feed, edits, history>>

\* A message is published on the stream.
Publish ==
    /\ life = "up" /\ top < MaxMsg /\ top' = top + 1
    /\ UNCHANGED <<stored, everLoaded, queued, rl, active, subs, server, life, msg, edits, faults,
                   history>>

\* makeGate: 1 in `sample`, counting from the first.
gate(sub) == sub.spec.sample > 1 => sub.count % sub.spec.sample = 0
counted(sub) == IF sub.spec.sample > 1 THEN [sub EXCEPT !.count = @ + 1] ELSE sub

\* Mutant of forced: a redelivery goes through the gate like a first delivery.
forcedNever(m) == FALSE

\* deliver's `force`: a redelivered message bypasses the gate.
forced(m) == msg[m].tries > 0

\* JetStream hands a loop the next message of its durable, or one that was refused; a message
\* gated on its first delivery is acked at once, any other is injected.
Deliver(n, m) ==
    /\ n \in DOMAIN subs /\ subs[n].run /\ subs[n].busy = 0 /\ subs[n].spec.durable # None
    /\ LET c == server[subs[n].spec.durable]
       IN  /\ c # None
           /\ m \in 1..top /\ m > c.at /\ msg[m].state \in {"none", "refused"}
           /\ msg[m].tries < MAX_DELIVER
    /\ LET pass == forced(m) \/ gate(subs[n])
       IN  /\ subs' = [subs EXCEPT ![n] = [IF forced(m) THEN @ ELSE counted(@)
                                           EXCEPT !.busy = IF pass THEN m ELSE 0]]
           /\ msg' = [msg EXCEPT ![m] = [tries |-> @.tries + 1,
                                         state |-> IF pass THEN "held"
                                                   ELSE IF msg[m].tries = 0 THEN "gated"
                                                   ELSE "dropped"]]
    /\ UNCHANGED <<stored, everLoaded, queued, rl, active, server, life, top, edits, faults,
                   history>>

\* inject() ends: ack, or nak so that the message comes again (up to MAX_DELIVER times).
Injected(n, ok) ==
    /\ n \in DOMAIN subs /\ subs[n].busy # 0
    /\ msg' = [msg EXCEPT ![subs[n].busy].state = IF ok THEN "shown" ELSE "refused"]
    /\ subs' = [subs EXCEPT ![n].busy = 0]
    /\ IF ok THEN UNCHANGED faults ELSE Fault
    /\ UNCHANGED <<stored, everLoaded, queued, rl, active, server, life, top, edits, history>>

-----------------------------------------------------------------------------
(* stop() *)

\* Timers are cleared, every active subscription is stopped, the connection starts to drain.
Stop ==
    /\ life = "up" /\ life' = "stopping"
    /\ subs' = [n \in DOMAIN subs |-> [subs[n] EXCEPT !.run = @ /\ n \notin {active[i] : i \in Ids}]]
    /\ active' = [i \in Ids |-> 0]
    /\ UNCHANGED <<stored, everLoaded, queued, rl, server, feed, edits, faults, history>>

\* The drain is over: the connection is closed and with it every subscription left on it.
Drained ==
    /\ life = "stopping" /\ life' = "down"
    /\ subs' = [n \in DOMAIN subs |-> [subs[n] EXCEPT !.run = FALSE]]
    /\ UNCHANGED <<stored, everLoaded, queued, rl, active, server, feed, edits, faults, history>>

ReloadStep ==
    \/ StartReload \/ Dropped \/ ReloadDone
    \/ \E ok \in BOOLEAN : Loaded(ok) \/ DeleteDurable(ok)
    \/ \E i \in Ids : Drop(i) \/ Keep(i) \/ \E ok \in BOOLEAN : Add(i, ok)
LoopStep(n) ==
    \/ \E m \in 1..MaxMsg : Deliver(n, m)
    \/ \E ok \in BOOLEAN : Injected(n, ok)

Next ==
    \/ \E v \in Versions \cup {Absent, Garbage} : Edit(v)
    \/ Reload \/ ReloadStep \/ Publish \/ Stop \/ Drained
    \/ \E n \in 1..MaxSubs : LoopDies(n) \/ LoopStep(n)

Spec == Init /\ [][Next]_vars

\* The self-heal timer keeps triggering, the chain runs, loops take their messages.
Fairness ==
    /\ WF_vars(Reload) /\ WF_vars(ReloadStep) /\ WF_vars(Drained)
    /\ WF_vars(\E n \in 1..MaxSubs : LoopStep(n))
FairSpec == Spec /\ Fairness

-----------------------------------------------------------------------------
(* Properties *)

TypeOK ==
    /\ active \in [Ids -> 0..MaxSubs] /\ life \in {"up", "stopping", "down"}
    /\ rl.pc \in {"idle", "load", "drop", "add"} /\ Len(subs) <= MaxSubs
    /\ \A i \in Ids : active[i] # 0 => subs[active[i]].spec.id = i

\* A JetStream cursor is destroyed only by a clean load that no longer has its subscription, or
\* by a change of a consumer-relevant field: never by a rejected spec, an edit of the throttle,
\* damaged JSON, a lost key, a Redis outage or a dead loop.  (The subscription is its id: a new
\* subject on an old durable is another one, and starts with a new cursor.)
CursorSafe ==
    \A d \in Durables : LET why == history.cause[d] IN
        why # Absent =>
            \/ why.errors = "none" /\ \A s \in why.specs : s.id # why.was
            \/ why.errors = "drift" /\ \A s \in why.specs : s.cfg # why.was

\* After a real load the built-in defaults are never bound because the key vanished: whatever is
\* subscribed was stored at some time, by the operator or by the first run's seeding.
NoRebind ==
    \A i \in Ids : active[i] # 0 /\ subs[active[i]].spec \in Defaults =>
        subs[active[i]].spec \in history.everSet

\* A message acked by the throttle was throttled on its first delivery; a failed inject is
\* retried until it is shown or the delivery limit is spent, never dropped by the gate.
RetryNotGated == \A m \in 1..MaxMsg : msg[m].state # "dropped"

\* One loop per subscription: a running loop is an active subscription's, except while stop()
\* waits for the drain; and after it nothing runs.
OneLoop ==
    \A n \in DOMAIN subs : subs[n].run =>
        life = "stopping" \/ \E i \in Ids : active[i] = n

Wanted == stored.errors \in {"none", "some"} =>
    /\ {i \in Ids : Live(i)} = IdsOf(stored.specs)
    /\ \A i \in Ids : Live(i) => subs[active[i]].run /\ subs[active[i]].spec \in stored.specs

\* Subscriptions follow the stored set: edits, nudges folded into a queued reload, dead loops
\* and failed calls notwithstanding, the channel ends up with exactly the wanted loops.
Converges == []<>(life # "up" \/ Wanted)

=============================================================================
