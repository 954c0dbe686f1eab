--------------------------- MODULE ClaudeGateway ---------------------------
(***************************************************************************)
(* claude_gateway.ts: jobs that arrive as bus requests run as turns of      *)
(* `claude` child processes and are answered by one completed or failed     *)
(* reply.  A job with a thread_key talks to the sticky session of that key, *)
(* one without leases a pre-warmed session and retires it.  Turns of one    *)
(* session are serialised by the promise queue q; `armed` is the sequence   *)
(* of turns whose 50 ms tick still polls, oldest first (caps elapse in that *)
(* order).  One action is the code between two awaits: the end of a turn    *)
(* settles its job, starts the next queued turn and plans the reply in one  *)
(* macrotask.  The child process, Redis and the bus are external; faults    *)
(* they inject draw on one budget.                                          *)
(***************************************************************************)
EXTENDS OutputTransport, FiniteSets

CONSTANTS Loads,            \* what a behaviour may be about: records [tab, cap, faults] of a job
                            \* table, a cap, and a bound on exits, failed Redis calls and
                            \* unacknowledged sends
          None,             \* no thread key, no session, no job
          POOL, SESSION_MAX_TURNS, THREAD_MAX_TURNS, MAX_ACTIVE, MAX_THREADS,
          Envelope, RefFields, TruncFields, \* bytes of a reply around its text, by form
          NoOutput,         \* the text '(no output, status=...)'
          MarkerBytes, PREVIEW_BYTES,
          MaxSessions       \* bound: child processes started in a behaviour

ClaudeAssumption ==
    /\ {POOL, SESSION_MAX_TURNS, THREAD_MAX_TURNS, MAX_ACTIVE, MAX_THREADS} \subseteq Nat \ {0}
    /\ None \notin Nat /\ NoOutput \in Seq([u8 : Nat, js : Nat])
    /\ \A l \in Loads :
          /\ {l.cap, l.faults} \subseteq Nat /\ Len(l.tab) \in Nat /\ DOMAIN l.tab = 1..Len(l.tab)
          /\ \A j \in DOMAIN l.tab : l.tab[j].text \in Seq([u8 : Nat, js : Nat])

VARIABLES gw,       \* "boot" (pool.init), "up", "down"
          load,     \* [tab |-> the job table, cap |-> a2a.getMaxSendBytes(), faults |-> a bound]
          pc,       \* [Job -> where the job's handler is]
          sess,     \* the ClaudeSession objects, in the order they were made
          threads,  \* Map thread_key -> session, as a sequence of pairs (insertion order)
          idle,     \* the pre-warmed sessions
          active,   \* in-flight turns, bounded by MAX_ACTIVE
          warming,  \* the session topUp is waiting for, or None
          using,    \* [Job -> the session its turn is on, or None]
          miss,     \* jobs whose input_ref could not be recovered
          text,     \* [Job -> what the turn answered]
          blobs,    \* jobs whose output blob is in Redis
          sent,     \* [Job -> the final answers the bus has stored]
          faults,
          history   \* jobs touched by a race of the pool (doubled, stale) or a lost outcome: of a
                    \* Redis call (lostDel), of a stored answer (doubt), of the failed reply (mute)

vars == <<gw, load, pc, sess, threads, idle, active, warming, using, miss, text, blobs, sent,
          faults, history>>
poolVars == <<sess, threads, idle, active, warming, using>>
replyVars == <<miss, text, blobs, sent>>

\* The jobs, numbered in the order they arrive.
Job == DOMAIN load.tab
tab(j) == load.tab[j]
Fault == faults < load.faults /\ faults' = faults + 1

-----------------------------------------------------------------------------
(* ClaudeSession and the pool's bookkeeping, as operators on a pool record. *)

Pool == [sess |-> sess, idle |-> idle, threads |-> threads, active |-> active,
         using |-> using, pc |-> pc, text |-> text]
Become(pool) == \E p \in {pool} :
    /\ sess' = p.sess /\ idle' = p.idle /\ threads' = p.threads /\ active' = p.active
    /\ using' = p.using /\ pc' = p.pc /\ text' = p.text

\* kill(): the object is dead at once, the process goes when it goes (ProcessExit).
kill(p, S) ==
    [p EXCEPT !.sess = [s \in DOMAIN p.sess |->
                            IF s \in S THEN [p.sess[s] EXCEPT !.dead = TRUE] ELSE p.sess[s]]]

\* run(): the turn's message is written and its timeout tick armed.
startTurn(p, s, j) ==
    LET x == [p.sess[s] EXCEPT !.inflight = j, !.turns = @ + 1, !.armed = Append(@, j),
                               !.served = @ \cup {j}]
    IN  [p EXCEPT !.sess[s] = x]

\* Mutant of finish: the session of a job without thread_key always goes back to the pool.
finishRecycles(p, j, t) ==
    LET s == p.using[j]
        q == [p EXCEPT !.active = IF @ > 0 THEN @ - 1 ELSE 0, !.using[j] = None,
                       !.pc[j] = "plan", !.text[j] = t]
    IN  IF tab(j).key # None THEN q ELSE [q EXCEPT !.idle = Append(@, s)]

\* Mutant of finish: release() is forgotten.
finishKeepsSlot(p, j, t) ==
    LET s == p.using[j]
        q == [p EXCEPT !.using[j] = None, !.pc[j] = "plan", !.text[j] = t]
    IN  IF tab(j).key # None THEN q
        ELSE IF q.sess[s].dead \/ q.sess[s].turns >= SESSION_MAX_TURNS THEN kill(q, {s})
        ELSE [q EXCEPT !.idle = Append(@, s)]

\* ClaudePool.runTurn after the turn settled with text t: both finally blocks.
finish(p, j, t) ==
    LET s == p.using[j]
        q == [p EXCEPT !.active = IF @ > 0 THEN @ - 1 ELSE 0, !.using[j] = None,
                       !.pc[j] = "plan", !.text[j] = t]
    IN  IF tab(j).key # None THEN q
        ELSE IF q.sess[s].dead \/ q.sess[s].turns >= SESSION_MAX_TURNS THEN kill(q, {s})
        ELSE [q EXCEPT !.idle = Append(@, s)]

\* The jobs queued on the dead session s settle with process_exited, one after the other: as
\* finish, whose kill of a session that is dead changes nothing.
finishQueued(p, s) ==
    LET q == p.sess[s].q
        queued == ToSet(q)
    IN  [p EXCEPT !.sess[s].q = <<>>,
                  !.active = IF @ > Len(q) THEN @ - Len(q) ELSE 0,
                  !.using = [j \in Job |-> IF j \in queued THEN None ELSE p.using[j]],
                  !.pc = [j \in Job |-> IF j \in queued THEN "plan" ELSE p.pc[j]],
                  !.text = [j \in Job |-> IF j \in queued THEN <<>> ELSE p.text[j]]]

\* The settled turn lets the queue go on: the next turn starts, or, on a dead session, every
\* queued turn settles.
advance(p, s) ==
    LET q == p.sess[s].q
    IN  IF q = <<>> THEN p
        ELSE IF p.sess[s].dead THEN finishQueued(p, s)
        ELSE startTurn([p EXCEPT !.sess[s].q = Tail(@)], s, Head(q))

\* Mutant of runTurn: the queue is skipped, so a second caller's message goes straight in.
runTurnUnqueued(p, s, j) ==
    LET q == [p EXCEPT !.using[j] = s, !.pc[j] = "turn"]
    IN  IF p.sess[s].dead THEN finish(q, j, <<>>) ELSE startTurn(q, s, j)

\* ClaudeSession.runTurn: behind the queue, or at once when no turn is in flight.
runTurn(p, s, j) ==
    LET q == [p EXCEPT !.using[j] = s, !.pc[j] = "turn"]
        busy == \E k \in Job \ {j} : q.using[k] = s
    IN  IF busy THEN [q EXCEPT !.sess[s].q = Append(@, j)]
        ELSE IF p.sess[s].dead THEN finish(q, j, <<>>)
        ELSE startTurn(q, s, j)

\* new ClaudeSession(): a child process and its read loop.
NewSession == [dead |-> FALSE, gone |-> FALSE, turns |-> 0, inflight |-> None, q |-> <<>>,
               armed |-> <<>>, served |-> {}]
spawn(p) == [p EXCEPT !.sess = Append(@, NewSession)]

keyOf(pair) == pair[1]
ThreadsOf(k) == {threads[i][2] : i \in {n \in DOMAIN threads : keyOf(threads[n]) = k}}

\* Map.set: an existing key keeps its place.
setThread(p, k, s) ==
    LET at == {n \in DOMAIN p.threads : keyOf(p.threads[n]) = k}
    IN  IF at = {} THEN [p EXCEPT !.threads = Append(@, <<k, s>>)]
        ELSE [p EXCEPT !.threads[CHOOSE n \in at : TRUE] = <<k, s>>]
delThread(p, k) ==
    LET at == {n \in DOMAIN p.threads : keyOf(p.threads[n]) = k}
    IN  IF at = {} THEN p ELSE [p EXCEPT !.threads = RemoveAt(@, CHOOSE n \in at : TRUE)]

\* Mutant of evictThreads: the evicted session is forgotten, not killed.
evictThreadsKeeps(p) ==
    LET n == Len(p.threads) - MAX_THREADS
    IN  IF n <= 0 THEN p ELSE [p EXCEPT !.threads = SubSeq(@, n + 1, Len(@))]

\* evictThreads: the oldest keys beyond MAX_THREADS go, and their sessions are killed.
evictThreads(p) ==
    LET n == Len(p.threads) - MAX_THREADS
    IN  IF n <= 0 THEN p
        ELSE kill([p EXCEPT !.threads = SubSeq(@, n + 1, Len(@))],
                  {p.threads[i][2] : i \in 1..n})

-----------------------------------------------------------------------------
Init ==
    /\ gw = "boot" /\ load \in Loads
    /\ pc = [j \in Job |-> "new"] /\ sess = <<>> /\ threads = <<>> /\ idle = <<>>
    /\ active = 0 /\ warming = None
    /\ using = [j \in Job |-> None] /\ miss = {}
    /\ text = [j \in Job |-> <<>>] /\ blobs = {} /\ sent = [j \in Job |-> <<>>]
    /\ faults = 0
    /\ history = [doubled |-> {}, stale |-> {}, lostDel |-> {}, doubt |-> {}, mute |-> {}]

\* topUp: one refill loop at a time; each turn of it starts one process and waits 3 s.
topUpFrom(p) ==
    IF warming = None /\ Len(p.idle) < POOL /\ Len(p.sess) < MaxSessions
    THEN Become(spawn(p)) /\ warming' = Len(p.sess) + 1
    ELSE Become(p) /\ UNCHANGED warming

\* pool.init(): the first warm-up, before the bus is joined.
Boot ==
    /\ gw = "boot" /\ warming = None /\ Len(idle) < POOL /\ sess = <<>>
    /\ topUpFrom(Pool)
    /\ UNCHANGED <<gw, load, miss, blobs, sent, faults, history>>

\* spawnSession's wait ends for the refill: keep the session, or stop refilling.
Warmed ==
    /\ gw # "down" /\ warming # None
    /\ LET s == warming
           p == IF sess[s].dead THEN Pool ELSE [Pool EXCEPT !.idle = Append(@, s)]
       IN  IF sess[s].dead \/ Len(p.idle) >= POOL \/ Len(sess) >= MaxSessions
           THEN Become(p) /\ warming' = None
           ELSE Become(spawn(p)) /\ warming' = Len(sess) + 1
    /\ gw' = IF gw = "boot" /\ warming' = None THEN "up" ELSE gw
    /\ UNCHANGED <<load, miss, blobs, sent, faults, history>>

-----------------------------------------------------------------------------
(* onInbound *)

\* A request arrives: its input is resolved, from Redis when it carries an input_ref.
Inbound(j) ==
    /\ gw = "up" /\ pc[j] = "new" /\ \A k \in Job : k < j => pc[k] # "new"
    /\ pc' = [pc EXCEPT ![j] = IF tab(j).ref # None THEN "input" ELSE "accept"]
    /\ UNCHANGED <<gw, load, poolVars, replyVars, faults, history>>

\* resolveJobInput: a miss is recorded; the inline preview would be the prompt.
ResolveInput(j, val) ==
    /\ gw = "up" /\ pc[j] = "input"
    /\ IF val.st = "error" THEN Fault ELSE UNCHANGED faults
    /\ miss' = IF getBlob(val, tab(j).ref) = "ok" THEN miss ELSE miss \cup {j}
    /\ pc' = [pc EXCEPT ![j] = "accept"]
    /\ UNCHANGED <<gw, load, poolVars, text, blobs, sent, history>>

\* The accepted reply went out (its result is not looked at); a miss fails the job here.
Accepted(j) ==
    /\ gw = "up" /\ pc[j] = "accept"
    /\ pc' = [pc EXCEPT ![j] = IF j \in miss /\ tab(j).isJob THEN "failing" ELSE "acquire"]
    /\ UNCHANGED <<gw, load, poolVars, replyVars, faults, history>>

-----------------------------------------------------------------------------
(* ClaudePool.runTurn *)

\* acquire() found a free slot: reuse the sticky session or an idle one, else start a process.
Acquire(j) ==
    /\ gw = "up" /\ pc[j] = "acquire" /\ active < MAX_ACTIVE
    /\ LET p0 == [Pool EXCEPT !.active = @ + 1]
           k == tab(j).key
           old == IF k # None THEN ThreadsOf(k) ELSE {}
           fit == {s \in old : ~sess[s].dead /\ sess[s].turns < THREAD_MAX_TURNS}
           top == IF k = None /\ idle # <<>> THEN {idle[Len(idle)]} ELSE {}
           p1 == CASE k # None /\ fit = {} -> kill(delThread(p0, k), old)
                   [] k = None /\ idle # <<>> -> [p0 EXCEPT !.idle = Front(@)]
                   [] OTHER -> p0
           ready == IF k # None THEN fit ELSE {s \in top : ~sess[s].dead}
       IN  IF ready # {}
           THEN LET r == runTurn(p1, CHOOSE s \in ready : TRUE, j)
                IN  IF k = None THEN topUpFrom(r) ELSE Become(r) /\ UNCHANGED warming
           ELSE /\ Len(sess) < MaxSessions
                /\ Become([spawn(p1) EXCEPT !.pc[j] = "spawn", !.using[j] = Len(sess) + 1])
                /\ UNCHANGED warming
    /\ UNCHANGED <<gw, load, miss, blobs, sent, faults, history>>

\* spawnSession's wait ends for a job: run on the new session, or throw (the slot is released
\* and the job fails).
Spawned(j) ==
    /\ gw = "up" /\ pc[j] = "spawn"
    /\ LET s == using[j]
           k == tab(j).key
           p == [Pool EXCEPT !.using[j] = None]
       IN  IF sess[s].dead
           THEN /\ Become([p EXCEPT !.active = @ - 1, !.pc[j] = "failing"])
                /\ UNCHANGED <<warming, history>>
           ELSE IF k = None THEN topUpFrom(runTurn(p, s, j)) /\ UNCHANGED history
           ELSE /\ Become(runTurn(evictThreads(setThread(p, k, s)), s, j))
                /\ history' = [history EXCEPT !.doubled = @ \cup ThreadsOf(k)]
                /\ UNCHANGED warming
    /\ UNCHANGED <<gw, load, miss, blobs, sent, faults>>

-----------------------------------------------------------------------------
(* The read loop and the timers of a session *)

\* A result event: the turn in flight settles with the text of the answer.
Result(s) ==
    /\ gw # "down" /\ s \in DOMAIN sess /\ ~sess[s].gone /\ sess[s].inflight # None
    /\ LET j == sess[s].inflight
           x == [sess[s] EXCEPT !.inflight = None]
           p == [Pool EXCEPT !.sess[s] = x]
       IN  Become(advance(finish(p, j, tab(j).text), s))
    /\ UNCHANGED <<gw, load, warming, miss, blobs, sent, faults, history>>

\* The child exits (by itself, or after kill): the read loop marks it dead and settles the
\* turn in flight with what was streamed so far (nothing, here).
ProcessExit(s) ==
    /\ gw # "down" /\ s \in DOMAIN sess /\ ~sess[s].gone
    /\ IF sess[s].dead THEN UNCHANGED faults ELSE Fault
    /\ LET j == sess[s].inflight
           x == [sess[s] EXCEPT !.dead = TRUE, !.gone = TRUE, !.inflight = None]
           p == [Pool EXCEPT !.sess[s] = x]
       IN  IF j = None THEN Become(p) ELSE Become(advance(finish(p, j, <<>>), s))
    /\ UNCHANGED <<gw, load, warming, miss, blobs, sent, history>>

\* A tick that finds no turn in flight stops polling.
TickIdle(s) ==
    /\ gw # "down" /\ s \in DOMAIN sess /\ sess[s].inflight = None
    /\ \E i \in DOMAIN sess[s].armed : sess' = [sess EXCEPT ![s].armed = RemoveAt(@, i)]
    /\ UNCHANGED <<gw, load, pc, threads, idle, active, warming, using, replyVars, faults,
                   history>>

\* The oldest armed tick reaches its turn's cap and takes down whatever turn is in flight: its
\* own, which settles with `timeout`, or a later one of the same session, which then never
\* settles (its `done` is dropped, and its own tick finds nothing in flight).
TickCap(s) ==
    /\ gw # "down" /\ s \in DOMAIN sess /\ sess[s].armed # <<>> /\ sess[s].inflight # None
    /\ LET j == Head(sess[s].armed)
           f == sess[s].inflight
           x == [sess[s] EXCEPT !.dead = TRUE, !.inflight = None, !.armed = Tail(@)]
           p == [Pool EXCEPT !.sess[s] = x]
       IN  IF f = j THEN Become(advance(finish(p, j, <<>>), s)) /\ UNCHANGED history
           ELSE Become(p) /\ history' = [history EXCEPT !.stale = @ \cup {f}]
    /\ UNCHANGED <<gw, load, warming, miss, blobs, sent, faults>>

-----------------------------------------------------------------------------
(* The reply *)

\* The bytes WrapFn adds to a text: alone, with a claim check's fields, with a truncation's.
wrap == Envelope
refWrap == Envelope + MarkerBytes + RefFields
truncWrap == Envelope + TruncFields

\* What a job is answered with: a plain message always says something.
answer(j) == IF text[j] = <<>> /\ ~tab(j).isJob THEN NoOutput ELSE text[j]

\* The plain-text form: the body is the text, cut to make room for the marker.
planPlain(full, bodyCap) ==
    IF utf8ByteLength(full) <= bodyCap THEN [kind |-> "inline", head |-> full, bytes |->
                                             utf8ByteLength(full)]
    ELSE LET room == IF bodyCap >= MarkerBytes THEN MarkerBytes ELSE 0
             head == truncateToBytes(full, bodyCap - room)
         IN  [kind |-> "truncate", head |-> head, bytes |-> utf8ByteLength(head) + room]

\* What is sent for job j, with the bytes of its body; redisUp is false once putBlob threw.
replyOf(j, redisUp) ==
    LET t == text[j]
        plan == planReply(t, load.cap, wrap, refWrap, truncWrap, PREVIEW_BYTES)
        p == IF redisUp \/ plan.kind # "claimcheck" THEN plan
             ELSE fitTruncate(t, load.cap, truncWrap)
        extra == CASE p.kind = "inline" -> wrap
                   [] p.kind = "claimcheck" -> refWrap
                   [] OTHER -> truncWrap
    IN  IF tab(j).isJob
        THEN [kind |-> p.kind, head |-> p.head, bytes |-> extra + jsonBytes(p.head)]
        ELSE planPlain(answer(j), load.cap)

\* The turn settled: an inline or truncated reply is sent, a claim check stores its blob first.
\* putBlob that times out may still have stored it.
PutBlob(j, ok) ==
    /\ gw # "down" /\ pc[j] = "plan" /\ replyOf(j, TRUE).kind = "claimcheck"
    /\ pc' = [pc EXCEPT ![j] = IF ok THEN "send" ELSE "resend"]
    /\ IF ok THEN blobs' = blobs \cup {j} /\ UNCHANGED <<faults, history>>
       ELSE /\ Fault
            /\ blobs' \in {blobs, blobs \cup {j}}
            /\ history' = [history EXCEPT !.lostDel = @ \cup {j}]
    /\ UNCHANGED <<gw, load, poolVars, miss, text, sent>>

\* sendMsg of the final reply: the bus accepts it, refuses it (always one over the cap), or stores
\* it while the publish times out, which the gateway is told as a failure all the same.
SendReply(j, how) ==
    /\ gw # "down"
    /\ \/ pc[j] = "plan" /\ replyOf(j, TRUE).kind # "claimcheck"
       \/ pc[j] \in {"send", "resend"}
    /\ LET r == replyOf(j, pc[j] # "resend")
       IN  /\ how # "refused" => r.bytes <= load.cap
           /\ IF how # "accepted" /\ r.bytes <= load.cap THEN Fault ELSE UNCHANGED faults
           /\ sent' = IF how = "refused" THEN sent ELSE [sent EXCEPT ![j] = Append(@, r)]
           /\ pc' = [pc EXCEPT ![j] = CASE how = "accepted" -> "done"
                                        [] how # "accepted" /\ pc[j] = "send" -> "delete"
                                        [] OTHER -> "failing"]
           /\ history' = IF how = "stored" THEN [history EXCEPT !.doubt = @ \cup {j}] ELSE history
    /\ UNCHANGED <<gw, load, poolVars, miss, text, blobs>>

\* delBlob after a claim check that was not accepted: best effort, a DEL that times out may still
\* be executed.
DelBlob(j, ok) ==
    /\ gw # "down" /\ pc[j] = "delete"
    /\ pc' = [pc EXCEPT ![j] = "failing"]
    /\ IF ok THEN blobs' = blobs \ {j} /\ UNCHANGED <<faults, history>>
       ELSE /\ Fault /\ blobs' \in {blobs, blobs \ {j}}
            /\ history' = [history EXCEPT !.lostDel = @ \cup {j}]
    /\ UNCHANGED <<gw, load, poolVars, miss, text, sent>>

\* The failed reply; its result is not looked at.
SendFailed(j, ok) ==
    /\ gw # "down" /\ pc[j] = "failing"
    /\ IF ok THEN /\ sent' = [sent EXCEPT ![j] = Append(@, [kind |-> "failed", head |-> <<>>,
                                                            bytes |-> 0])]
                  /\ UNCHANGED <<faults, history>>
       ELSE Fault /\ UNCHANGED sent /\ history' = [history EXCEPT !.mute = @ \cup {j}]
    /\ pc' = [pc EXCEPT ![j] = "done"]
    /\ UNCHANGED <<gw, load, poolVars, miss, text, blobs>>

\* SIGTERM: pool.stop() kills the idle and the sticky sessions, then the process exits.
Stop ==
    /\ gw = "up"
    /\ gw' = "down"
    /\ Become(kill(Pool, ToSet(idle) \cup {threads[i][2] : i \in DOMAIN threads}))
    /\ UNCHANGED <<load, warming, miss, blobs, sent, faults, history>>

JobStep(j) ==
    \/ Inbound(j)
    \/ \E val \in {tab(j).blob, [st |-> "error"]} : ResolveInput(j, val)
    \/ Accepted(j) \/ Acquire(j) \/ Spawned(j)
    \/ \E ok \in BOOLEAN : PutBlob(j, ok) \/ DelBlob(j, ok) \/ SendFailed(j, ok)
    \/ \E how \in {"accepted", "refused", "stored"} : SendReply(j, how)
SessionStep(s) == Result(s) \/ ProcessExit(s) \/ TickIdle(s) \/ TickCap(s)

Next ==
    \/ Boot \/ Warmed \/ Stop
    \/ \E j \in Job : JobStep(j)
    \/ \E s \in 1..MaxSessions : SessionStep(s)

Spec == Init /\ [][Next]_vars

-----------------------------------------------------------------------------
(* Properties *)

\* A conversation belongs to one thread_key, or to at most SESSION_MAX_TURNS jobs without one:
\* no job ever sees another's context through the pool, whatever dies or times out.
Isolation ==
    \A s \in DOMAIN sess :
        /\ \A i, j \in sess[s].served : tab(i).key = tab(j).key
        /\ \A j \in sess[s].served :
              tab(j).key = None => Cardinality(sess[s].served) <= SESSION_MAX_TURNS

\* A live child process is reachable: idle, being warmed, sticky, or used by a job.  (The first
\* of two sessions started at once for one new thread_key is overwritten in the map and lost.)
NoOrphanSession ==
    gw # "down" =>
    \A s \in DOMAIN sess :
        \/ sess[s].dead \/ s = warming \/ s \in ToSet(idle) \/ s \in history.doubled
        \/ \E i \in DOMAIN threads : threads[i][2] = s
        \/ \E j \in Job : using[j] = s

Longest(j, t, extra, limit) ==
    \A i \in Len(t) + 1..Len(text[j]) :
        \/ extra + jsonBytes(SubSeq(text[j], 1, i)) > load.cap
        \/ utf8ByteLength(SubSeq(text[j], 1, i)) > limit

\* An answer says no more than the turn did: a completed reply is the whole text, or a reference
\* with the longest preview that fits, or the longest prefix that fits; a job whose input blob was
\* missed is not answered from its preview.
Honest(j, r) ==
    /\ IsPrefix(r.head, answer(j))
    /\ r.kind = "inline" => r.head = answer(j)
    /\ r.kind = "claimcheck" => Longest(j, r.head, refWrap, PREVIEW_BYTES)
    /\ r.kind = "truncate" /\ tab(j).isJob =>
          Longest(j, r.head, truncWrap, utf8ByteLength(text[j]))
    /\ j \in miss /\ tab(j).isJob => r.kind = "failed"

\* A job is answered once, unless the bus stored an answer it reported as failed: a failed reply
\* then contradicts it, and the blob it refers to may be gone.  Otherwise a reference finds its
\* blob, and a blob nobody refers to is deleted, unless Redis did not confirm a call.
HonestAnswer(j) ==
    LET once == IF j \in history.doubt THEN 2 ELSE 1
        kinds == {sent[j][i].kind : i \in DOMAIN sent[j]}
    IN  /\ \A i \in DOMAIN sent[j] : Honest(j, sent[j][i]) /\ (i > 1 => sent[j][i].kind = "failed")
        /\ Len(sent[j]) <= once /\ (pc[j] = "done" /\ j \notin history.mute => Len(sent[j]) = once)
        /\ "claimcheck" \in kinds => j \in blobs \/ j \in history.doubt
        /\ j \in blobs /\ pc[j] = "done" /\ "claimcheck" \notin kinds => j \in history.lostDel

\* The body is within the cap unless the cap does not even hold an empty truncated reply.
Fits(j) ==
    pc[j] \in {"plan", "send", "resend"} =>
        \A up \in BOOLEAN :
            \/ replyOf(j, up).bytes <= load.cap
            \/ tab(j).isJob /\ truncWrap > load.cap

\* Replies are honest and always fit: planReply and fitTruncate "GUARANTEE the assembled,
\* JSON-serialized reply body fits the cap", so no answer is lost to its size or cut silently, and
\* who got a reference to a deleted blob is told that the job failed.
ReplyFaithful == \A j \in Job : HonestAnswer(j) /\ Fits(j)

\* The turn of job j can still end: it is in flight, under an armed tick or on a child that is
\* going away, or it is queued behind such a turn.
CanEnd(j) ==
    LET s == sess[using[j]]
    IN  /\ s.inflight # None
        /\ s.inflight = j \/ j \in ToSet(s.q)
        /\ s.inflight \in ToSet(s.armed) \/ (s.dead /\ ~s.gone)

\* Slots and turns balance: `active` counts the jobs inside the pool, whichever way they leave,
\* and no turn is left behind by a result, an exit, an eviction or a timeout (a turn struck by
\* the tick of an earlier turn on the same session excepted, which the code lets hang).
NoLostTurn ==
    /\ active = Cardinality({j \in Job : pc[j] \in {"spawn", "turn"}})
    /\ active <= MAX_ACTIVE
    /\ history.stale = {} => \A j \in Job : pc[j] = "turn" => CanEnd(j)

=============================================================================
