---------------------------- MODULE CodexGateway ----------------------------
(***************************************************************************)
(* The Codex gateway (codex_gateway.ts with codex_realtime.ts and the      *)
(* reply planning of output_transport.ts): an agent of the bus that owns a *)
(* codex app-server and runs jobs and realtime sessions on it.             *)
(*                                                                         *)
(* Messages of the bus are handled one at a time: the inbox loop awaits    *)
(* onInbound(), and a job is awaited until its turn has ended.  Requests   *)
(* of the HTTP gateway run beside it.  All share the cache of threads, the *)
(* registry of sessions and the app-server's stdout, which readLoop() reads *)
(* line by line; the lines of one chunk are handled before any code that   *)
(* awaits one of them goes on.                                             *)
(*                                                                         *)
(* A request starts at most one thread and at most one turn, so a thread   *)
(* and a turn are named by the request that started them.  Text, deltas,   *)
(* session status, the peer inbox and thread/resume are left out, and so   *)
(* are MCP elicitations, which the gateway answers itself, at once.        *)
(***************************************************************************)
EXTENDS Naturals, Sequences, SequencesExt

CONSTANTS
    Req,        \* the requests that reach the gateway
    Loads,      \* the sets of requests that come in one behaviour
    Attr,       \* Attr[r]: what the gateway reads of request r
    Key,        \* thread keys
    Ctx,        \* execution contexts: a sandbox with a working directory
    Sid,        \* realtime session ids
    CacheMax,   \* CODEX_GW_THREAD_CACHE_MAX
    MaxFault    \* bound: error answers, failed turns, refused and unacknowledged sends

None == "none"

\* What session requests ask for.
Op == {"create", "input", "steer", "inject", "interrupt"}

GatewayAssumption ==
    /\ Attr \in [Req -> [kind: {"job", "bus", "http"},     \* a job, or a session request
                         ops: SUBSET Op,    \* what the session request may ask for
                         key: Key, ctx: Ctx, sid: Sid,
                         ref: BOOLEAN,      \* the job's input is claim-checked
                         asks: BOOLEAN]]    \* its turn may need an approval
    /\ Loads \subseteq SUBSET Req /\ \A load \in Loads : IsFiniteSet(load)
    /\ None \notin Req \cup Sid
    /\ CacheMax \in Nat \ {0} /\ MaxFault \in Nat

IsJob(r) == Attr[r].kind = "job"
ViaBus(r) == Attr[r].kind # "http"

VARIABLES
    inq,        \* the messages of the bus in the order the inbox consumer gives them out
    busy,       \* the request onInbound() is handling, or None
    pc,         \* where the handling of a request is
    rpc,        \* the request's JSON-RPC call to the app-server
    th,         \* the thread a request works on
    tn,         \* the turn a steer or interrupt is about
    cache,      \* GatewayThreadCache: entries in their order of use
    sth, act,   \* realtime sessions: their thread and active_turn_id
    byThread,   \* byThreadId: the session that hears of a thread
    pend,       \* pendingRealtimeTurns
    hdl,        \* jobs whose runTurn() handler is installed
    fin,        \* the turn whose end the handler of a job saw last
    thr, turn,  \* app-server: the threads started, and the state of each turn
    ap,         \* the approval asked for in a turn: the promise of onApproval()
    apid,       \* its approval_id, named by the turn that had it first
    slot,       \* pendingApprovals: the turn whose promise an id resolves
    clock,      \* approvals whose timer is armed
    out, chunk, \* the app-server's stdout, and the lines left of the chunk being read
    said,       \* history: the replies a request was given, and "granted" of an approval id that
                \* a decision accepted
    blob,       \* claim-check blobs in Redis
    faults      \* also counts approval ids that collide

vars == <<inq, busy, pc, rpc, th, tn, cache, sth, act, byThread, pend, hdl, fin,
          thr, turn, ap, apid, slot, clock, out, chunk, said, blob, faults>>
registry == <<sth, act, byThread>>
approval == <<ap, apid, slot, clock>>
server == <<thr, turn, approval>>

PC == {"absent", "new", "threadRpc", "createRpc", "turnRpc", "wait", "cleanup",
       "steerRpc", "injectRpc", "interruptRpc", "done"}
Rpc == {"threadRpc", "createRpc", "turnRpc", "steerRpc", "injectRpc", "interruptRpc"}
Ended == {"completed", "failed", "interrupted"}

ApprovalsTyped ==
    /\ apid \in [Req -> Req \cup {None}] /\ slot \in [Req -> Req \cup {None}]
    /\ clock \subseteq Req

RequestsTyped ==
    /\ inq \in Seq([k: {"req"}, r: Req] \cup [k: {"dec"}, r: Req, d: {"accept", "decline"}])
    /\ busy \in Req \cup {None}
    /\ pc \in [Req -> PC]
    /\ rpc \in [Req -> {"idle", "sent", "ok", "err"}]
    /\ th \in [Req -> Req \cup {None}] /\ tn \in [Req -> Req \cup {None}]
    /\ cache \in Seq([key: Key, th: Req])
    /\ sth \in [Sid -> Req \cup {None}] /\ act \in [Sid -> Req \cup {None}]
    /\ byThread \in [Req -> Sid \cup {None}]
    /\ pend \subseteq Req /\ hdl \subseteq Req /\ thr \subseteq Req /\ blob \subseteq Req
    /\ fin \in [Req -> Req \cup {None}]
    /\ turn \in [Req -> {"none", "running"} \cup Ended]
    /\ ap \in [Req -> {"none", "asked", "open", "accept", "decline"}]
    /\ out \in Seq([k: {"resp"}, r: Req, v: {"ok", "err"}]
                   \cup [k: {"started", "ended", "ask"}, r: Req])
    /\ chunk \in Nat
    /\ said \in [Req -> SUBSET {"rejected", "completed", "failed", "ref",
                                "ready", "started", "steered", "granted", "ok"}]
    /\ faults \in 0 .. MaxFault

TypeOK == RequestsTyped /\ ApprovalsTyped

\* main() has joined the bus and serves HTTP.
Init ==
    /\ \E load \in Loads :
         /\ pc = [r \in Req |-> IF r \in load THEN "new" ELSE "absent"]
         /\ inq \in {[i \in DOMAIN q |-> [k |-> "req", r |-> q[i]]] :
                         q \in SetToSeqs({r \in load : ViaBus(r)})}
    /\ busy = None /\ rpc = [r \in Req |-> "idle"]
    /\ th = [r \in Req |-> None] /\ tn = [r \in Req |-> None]
    /\ cache = <<>>
    /\ sth = [s \in Sid |-> None] /\ act = [s \in Sid |-> None]
    /\ byThread = [t \in Req |-> None]
    /\ pend = {} /\ hdl = {} /\ fin = [r \in Req |-> None]
    /\ thr = {} /\ turn = [t \in Req |-> "none"] /\ ap = [t \in Req |-> "none"]
    /\ apid = [t \in Req |-> None] /\ slot = [i \in Req |-> None] /\ clock = {}
    /\ out = <<>> /\ chunk = 0
    /\ said = [r \in Req |-> {}] /\ blob = {} /\ faults = 0

-----------------------------------------------------------------------------
(* Helpers. *)

Reply(r, what) == said' = [said EXCEPT ![r] = @ \cup what]

\* The handler of r returns; the inbox loop acknowledges a bus message and takes the next one.
Finish(r) ==
    /\ pc' = [pc EXCEPT ![r] = "done"]
    /\ busy' = IF busy = r THEN None ELSE busy

\* Code that awaits nothing of the app-server runs between chunks; an answered call goes on
\* before the next chunk is read.
Between == chunk = 0
Answered(r, v) == Between /\ pc[r] \in Rpc /\ rpc[r] = v

\* A fault of the environment, bounded.
Fault == faults < MaxFault /\ faults' = faults + 1

\* entries.delete(key): a map holds at most one entry of a key.
Without(c, k) ==
    LET at == {i \in DOMAIN c : c[i].key = k}
    IN  IF at = {} THEN c ELSE RemoveAt(c, CHOOSE i \in at : TRUE)

\* cleanup(): the entries idle for longer than the TTL are a prefix of the map, which is kept in
\* order of use; then the oldest ones go until the size fits.
CacheCleanup(c, expired) ==
    LET kept == SubSeq(c, expired + 1, Len(c))
    IN  SubSeq(kept, (IF Len(kept) > CacheMax THEN Len(kept) - CacheMax ELSE 0) + 1, Len(kept))

\* set(): the entry goes to the end of the map.
CacheSet(c, k, t) == CacheCleanup(Append(Without(c, k), [key |-> k, th |-> t]), 0)

\* Mutant of CacheHit: an entry is reused whatever context its thread was started with.
CacheHitAnyCtx(c, k, ctx) == {e \in Range(c) : e.key = k}

\* get(): the entry of the key, if its thread was started with exactly this sandbox and cwd.
CacheHit(c, k, ctx) == {e \in Range(c) : e.key = k /\ Attr[e.th].ctx = ctx}

-----------------------------------------------------------------------------
(* Calls to the app-server (external, as the gateway uses it).  It executes a call at once;   *)
(* what takes time is that the gateway reads the answer from its stdout.                      *)

Emit(lines) == out' = out \o lines
Resp(r, v) == [k |-> "resp", r |-> r, v |-> v]

\* req(): the promise of call k of request r is pending.
Pending(r, k) ==
    /\ pc' = [pc EXCEPT ![r] = k] /\ rpc' = [rpc EXCEPT ![r] = "sent"]
    /\ busy' = IF ViaBus(r) THEN r ELSE busy

\* The app-server answers a call with an error.
Refused(r) == Fault /\ Emit(<<Resp(r, "err")>>) /\ UNCHANGED <<thr, turn>>

\* thread/start
CallThread(r, op) ==
    /\ Pending(r, IF op = "create" THEN "createRpc" ELSE "threadRpc")
    /\ \/ thr' = thr \cup {r} /\ Emit(<<Resp(r, "ok")>>) /\ UNCHANGED <<turn, faults>>
       \/ Refused(r)

\* turn/start
CallTurn(r) ==
    /\ Pending(r, "turnRpc")
    /\ \/ /\ turn' = [turn EXCEPT ![r] = "running"]
          /\ Emit(<<Resp(r, "ok"), [k |-> "started", r |-> r]>>)
          /\ UNCHANGED <<thr, faults>>
       \/ Refused(r)

\* turn/steer of turn t, which must be running
CallSteer(r, t) ==
    /\ Pending(r, "steerRpc")
    /\ Emit(<<Resp(r, IF turn[t] = "running" THEN "ok" ELSE "err")>>)
    /\ UNCHANGED <<thr, turn, faults>>

\* turn/interrupt of turn t, which ends it
CallInterrupt(r, t) ==
    /\ Pending(r, "interruptRpc")
    /\ IF turn[t] = "running"
       THEN /\ turn' = [turn EXCEPT ![t] = "interrupted"]
            /\ Emit(<<Resp(r, "ok"), [k |-> "ended", r |-> t]>>)
       ELSE Emit(<<Resp(r, "err")>>) /\ UNCHANGED turn
    /\ UNCHANGED <<thr, faults>>

\* thread/inject_items
CallInject(r) ==
    /\ Pending(r, "injectRpc")
    /\ Emit(<<Resp(r, "ok")>>) /\ UNCHANGED <<thr, turn, faults>>

\* A request ends without a call.
NoCall(r, what) == Reply(r, what) /\ Finish(r) /\ UNCHANGED <<rpc, thr, turn, out, faults>>

-----------------------------------------------------------------------------
(* What a request does once it has its thread. *)

\* The registry's create() accepts an existing session only with the same thread and context
\* (and approval policy, which WithThread may find to differ).
Matches(r, t) ==
    LET old == sth[Attr[r].sid]
    IN  old = None \/ (old = t /\ Attr[old].ctx = Attr[r].ctx)

\* The turns an interrupt may name: the active one, or one that the requester gives by its turn_id.
Named(s) == {t \in Req : t = act[s] \/ th[t] = sth[s]}

\* startRealtimeTurn() or steerRealtimeTurn(), steer, interrupt and inject on the session.  An
\* input that is to start a turn of its own fails beside an active one (active_turn_exists).
UseSession(r, op) ==
    LET a == act[Attr[r].sid]
    IN  /\ tn' = [tn EXCEPT ![r] = a]
        /\ \/ op \in {"steer", "interrupt"} /\ a = None /\ NoCall(r, {"failed"})
           \/ op = "input" /\ a # None /\ NoCall(r, {"failed"})
           \/ op = "inject" /\ CallInject(r) /\ UNCHANGED said
           \/ op = "interrupt" /\ UNCHANGED said
              /\ \E t \in Named(Attr[r].sid) : CallInterrupt(r, t)
           \/ op \in {"steer", "input"} /\ a # None /\ CallSteer(r, a) /\ UNCHANGED said
           \/ op = "input" /\ a = None /\ CallTurn(r) /\ UNCHANGED said

\* runTurn() installs its handler, then starts the turn; a session request creates the session
\* or finds it, which another thread, context or policy refuses, and an input goes on with it.
WithThread(r, t, op) ==
    /\ th' = [th EXCEPT ![r] = t]
    /\ hdl' = IF IsJob(r) THEN hdl \cup {r} ELSE hdl
    /\ LET s == Attr[r].sid
           new == ~IsJob(r) /\ sth[s] = None
       IN  /\ sth' = [sth EXCEPT ![s] = IF new THEN t ELSE @]
           /\ byThread' = [byThread EXCEPT ![t] = IF new THEN s ELSE @]
    /\ \/ IsJob(r) /\ CallTurn(r) /\ UNCHANGED <<said, tn>>
       \/ /\ ~IsJob(r) /\ (Matches(r, t) => sth[Attr[r].sid] # None)
          /\ NoCall(r, {"rejected"}) /\ UNCHANGED tn
       \/ ~IsJob(r) /\ op = "create" /\ Matches(r, t) /\ NoCall(r, {"ready"}) /\ UNCHANGED tn
       \/ ~IsJob(r) /\ op = "input" /\ Matches(r, t) /\ UseSession(r, op)

\* thread(): a cached thread of the same context is reused, which counts as a use; an entry of
\* another context is deleted; without a hit thread/start is called.
GetThread(r, op) ==
    \E expired \in 0 .. Len(cache) :
      LET c == CacheCleanup(cache, expired)
          k == Attr[r].key
          hit == CacheHit(c, k, Attr[r].ctx)
      IN  \/ \E e \in hit : cache' = Append(Without(c, k), e) /\ WithThread(r, e.th, op)
          \/ /\ hit = {}
             /\ cache' = Without(c, k)
             /\ CallThread(r, op)
             /\ UNCHANGED <<th, tn, hdl, sth, byThread, said>>

-----------------------------------------------------------------------------
(* Requests arrive. *)

\* onInbound() takes the next message once the handler of the one before has returned.
Take(m) == Between /\ busy = None /\ inq # <<>> /\ Head(inq) = m /\ inq' = Tail(inq)

\* onInbound() of a decision about id i, whoever sent it: it resolves the promise that the id
\* stands for, if there is still one.
TakeDecision(i, d) ==
    /\ Take([k |-> "dec", r |-> i, d |-> d])
    /\ slot' = [slot EXCEPT ![i] = None]
    /\ ap' = IF slot[i] = None THEN ap ELSE [ap EXCEPT ![slot[i]] = d]
    /\ UNCHANGED <<busy, pc, rpc, th, tn, cache, registry, pend, hdl, fin, thr, turn,
                   apid, clock, out, chunk, said, blob, faults>>

\* onInbound() of a job that policy, authorisation or budget refuses, or whose claim-checked
\* input cannot be recovered after it was accepted.
RefuseJob(r) ==
    /\ IsJob(r) /\ Take([k |-> "req", r |-> r])
    /\ \/ Reply(r, {"rejected"})
       \/ Attr[r].ref /\ Reply(r, {"failed"})
    /\ Finish(r)
    /\ UNCHANGED <<rpc, th, tn, cache, registry, pend, hdl, fin, server, out, chunk, blob, faults>>

\* onInbound() of a job that is accepted, up to the first call its turn awaits.
TakeJob(r) ==
    /\ IsJob(r) /\ Take([k |-> "req", r |-> r])
    /\ GetThread(r, "job")
    /\ UNCHANGED <<act, pend, fin, approval, chunk, blob>>

\* steer, inject and interrupt, and an input of the HTTP gateway: the session must exist.
OnSession(r, op) ==
    /\ IF sth[Attr[r].sid] = None
       THEN NoCall(r, {"failed"}) /\ UNCHANGED <<th, tn>>
       ELSE UseSession(r, op) /\ th' = [th EXCEPT ![r] = sth[Attr[r].sid]]
    /\ UNCHANGED <<cache, sth, byThread, hdl>>

\* onRealtimeInbound(): create and input go through ensureRealtimeSession().
TakeSession(r, op) ==
    /\ ~IsJob(r) /\ Take([k |-> "req", r |-> r])
    /\ IF op \in {"create", "input"} THEN GetThread(r, op) ELSE OnSession(r, op)
    /\ UNCHANGED <<act, pend, fin, approval, chunk, blob>>

\* The HTTP gateway: POST /sessions creates, everything else is an event of a session.
HttpRequest(r, op) ==
    /\ ~ViaBus(r) /\ pc[r] = "new" /\ Between
    /\ IF op = "create" THEN GetThread(r, op) ELSE OnSession(r, op)
    /\ UNCHANGED <<inq, act, pend, fin, approval, chunk, blob>>

-----------------------------------------------------------------------------
(* Calls return. *)

\* thread/start returns and the new thread is cached.
GotThread(r) ==
    /\ Answered(r, "ok") /\ pc[r] \in {"threadRpc", "createRpc"}
    /\ \E expired \in 0 .. Len(cache) :
         cache' = CacheSet(CacheCleanup(cache, expired), Attr[r].key, r)
    /\ WithThread(r, r, IF pc[r] = "createRpc" THEN "create" ELSE "input")
    /\ UNCHANGED <<inq, act, pend, fin, approval, chunk, blob>>

\* A call was answered with an error: the request fails, a session request without a thread is
\* rejected; the handler of runTurn() is removed.
CallFailed(r) ==
    /\ Answered(r, "err")
    /\ Reply(r, IF ~IsJob(r) /\ pc[r] \in {"threadRpc", "createRpc"} THEN {"rejected"} ELSE {"failed"})
    /\ Finish(r)
    /\ rpc' = [rpc EXCEPT ![r] = "idle"]
    /\ hdl' = hdl \ {r}
    /\ UNCHANGED <<inq, th, tn, cache, registry, pend, fin, server, out, chunk, blob, faults>>

\* turn/start returns in runTurn(), which polls for the end of the turn from now on.
TurnStarted(r) ==
    /\ IsJob(r) /\ Answered(r, "ok") /\ pc[r] = "turnRpc"
    /\ pc' = [pc EXCEPT ![r] = "wait"] /\ rpc' = [rpc EXCEPT ![r] = "idle"]
    /\ UNCHANGED <<inq, busy, th, tn, cache, registry, pend, hdl, fin, server, out, chunk, said,
                   blob, faults>>

\* startRealtimeTurn() returns: the turn is the session's active one; a bus request is answered
\* and its final reply is owed.
SessionTurnStarted(r) ==
    /\ ~IsJob(r) /\ Answered(r, "ok") /\ pc[r] = "turnRpc"
    /\ act' = [act EXCEPT ![Attr[r].sid] = r]
    /\ pend' = IF ViaBus(r) THEN pend \cup {r} ELSE pend
    /\ Reply(r, {"started"}) /\ Finish(r)
    /\ rpc' = [rpc EXCEPT ![r] = "idle"]
    /\ UNCHANGED <<inq, th, tn, cache, sth, byThread, hdl, fin, server, out, chunk, blob, faults>>

\* steerRealtimeTurn() returns: the steered turn is the active one (again).
Steered(r) ==
    /\ Answered(r, "ok") /\ pc[r] = "steerRpc"
    /\ act' = [act EXCEPT ![Attr[r].sid] = tn[r]]
    /\ Reply(r, {"steered"}) /\ Finish(r)
    /\ rpc' = [rpc EXCEPT ![r] = "idle"]
    /\ UNCHANGED <<inq, th, tn, cache, sth, byThread, pend, hdl, fin, server, out, chunk, blob,
                   faults>>

\* injectRealtimeItems() and interruptRealtimeTurn() return.
SessionCallDone(r) ==
    /\ Answered(r, "ok") /\ pc[r] \in {"injectRpc", "interruptRpc"}
    /\ Reply(r, {"ok"}) /\ Finish(r)
    /\ rpc' = [rpc EXCEPT ![r] = "idle"]
    /\ UNCHANGED <<inq, th, tn, cache, registry, pend, hdl, fin, server, out, chunk, blob, faults>>

-----------------------------------------------------------------------------
(* Jobs: the end of runTurn() and the final reply. *)

\* Mutant of TurnTimeout: the thread of a timed-out turn stays in the cache.
TurnTimeoutKeepsThread(r) ==
    /\ pc[r] = "wait" /\ fin[r] = None /\ Between
    /\ hdl' = hdl \ {r}
    /\ Reply(r, {"failed"}) /\ Finish(r)
    /\ UNCHANGED <<inq, rpc, th, tn, cache, registry, pend, fin, server, out, chunk, blob, faults>>

\* CODEX_GW_TURN_TIMEOUT_MS passes: the key's thread is dropped from the cache and the job fails.
TurnTimeout(r) ==
    /\ pc[r] = "wait" /\ fin[r] = None /\ Between
    /\ hdl' = hdl \ {r}
    /\ cache' = Without(cache, Attr[r].key)
    /\ Reply(r, {"failed"}) /\ Finish(r)
    /\ UNCHANGED <<inq, rpc, th, tn, registry, pend, fin, server, out, chunk, blob, faults>>

\* The polling loop sees that a turn has ended.  One that did not complete fails the job; the
\* output of a completed one goes inline, as a claim check (unless the blob cannot be written)
\* or truncated.  The bus may refuse the message, or store it while the acknowledgement is lost.
JobReply(r) ==
    /\ pc[r] = "wait" /\ fin[r] # None /\ Between
    /\ hdl' = hdl \ {r}
    /\ \/ /\ turn[fin[r]] # "completed"
          /\ Reply(r, {"failed"}) /\ Finish(r)
          /\ UNCHANGED <<blob, faults>>
       \/ /\ turn[fin[r]] = "completed"
          /\ \E ref \in BOOLEAN :
               LET reply == IF ref THEN {"completed", "ref"} ELSE {"completed"}
               IN  /\ blob' = IF ref THEN blob \cup {r} ELSE blob
                   /\ \/ Reply(r, reply) /\ Finish(r) /\ UNCHANGED faults
                      \/ /\ Fault
                         /\ Reply(r, reply) \/ UNCHANGED said
                         /\ pc' = [pc EXCEPT ![r] = "cleanup"] /\ UNCHANGED busy
    /\ UNCHANGED <<inq, rpc, th, tn, cache, registry, pend, fin, server, out, chunk>>

\* Mutant of JobCleanup: the blob is deleted and nothing more is said.
JobCleanupSilent(r) ==
    /\ pc[r] = "cleanup" /\ Between
    /\ blob' = blob \ {r}
    /\ Finish(r)
    /\ UNCHANGED <<inq, rpc, th, tn, cache, registry, pend, hdl, fin, server, out, chunk, said,
                   faults>>

\* sentOk() was false: the blob is deleted, at best, and the job is reported as failed.  This
\* second reply is assumed to be stored: the code does not look at its outcome.
JobCleanup(r) ==
    /\ pc[r] = "cleanup" /\ Between
    /\ blob' \in {blob, blob \ {r}}
    /\ Reply(r, {"failed"}) /\ Finish(r)
    /\ UNCHANGED <<inq, rpc, th, tn, cache, registry, pend, hdl, fin, server, out, chunk, faults>>

-----------------------------------------------------------------------------
(* readLoop(): the lines of the app-server. *)

\* A chunk arrives; what awaited a line of the one before has gone on.
ReadChunk ==
    /\ Between
    /\ \A r \in Req : pc[r] \in Rpc => rpc[r] \notin {"ok", "err"}
    /\ \E n \in 1 .. Len(out) : chunk' = n
    /\ UNCHANGED <<inq, busy, pc, rpc, th, tn, cache, registry, pend, hdl, fin, server, out, said,
                   blob, faults>>

Line(k) == chunk > 0 /\ Head(out).k = k /\ out' = Tail(out) /\ chunk' = chunk - 1

\* Mutant of ReadResponse: an error answer settles nothing.
ReadResponseDropsError ==
    /\ Line("resp")
    /\ rpc' = [rpc EXCEPT ![Head(out).r] = IF Head(out).v = "ok" THEN "ok" ELSE @]
    /\ UNCHANGED <<inq, busy, pc, th, tn, cache, registry, pend, hdl, fin, server, said, blob,
                   faults>>

\* The answer to a call settles the promise of the caller.
ReadResponse ==
    /\ Line("resp")
    /\ rpc' = [rpc EXCEPT ![Head(out).r] = Head(out).v]
    /\ UNCHANGED <<inq, busy, pc, th, tn, cache, registry, pend, hdl, fin, server, said, blob,
                   faults>>

\* requestApproval: configureApprovals() registers it, sends it to the approver and waits.  Its id
\* is made of milliseconds modulo 1e7 and the number of the last job: it may be that of another
\* approval, whose entry it then replaces.
ReadApproval ==
    /\ Line("ask")
    /\ LET t == Head(out).r
       IN  /\ ap[t] = "asked" /\ ap' = [ap EXCEPT ![t] = "open"]
           /\ clock' = clock \cup {t}
           /\ \E i \in {t} \cup (Range(apid) \ {None}) :
                 /\ apid' = [apid EXCEPT ![t] = i] /\ slot' = [slot EXCEPT ![i] = t]
                 /\ IF i = t THEN UNCHANGED faults ELSE Fault
    /\ UNCHANGED <<inq, busy, pc, rpc, th, tn, cache, registry, pend, hdl, fin, thr, turn,
                   said, blob>>

\* Mutant of ReadStarted: the notification is not looked up by its thread.
ReadStartedAnywhere ==
    /\ Line("started")
    /\ act' = [s \in Sid |-> IF sth[s] = None THEN None ELSE Head(out).r]
    /\ UNCHANGED <<inq, busy, pc, rpc, th, tn, cache, sth, byThread, pend, hdl, fin, server, said,
                   blob, faults>>

\* turn/started of a thread that a session hears of.
ReadStarted ==
    /\ Line("started")
    /\ LET s == byThread[th[Head(out).r]]
       IN  act' = IF s = None THEN act ELSE [act EXCEPT ![s] = Head(out).r]
    /\ UNCHANGED <<inq, busy, pc, rpc, th, tn, cache, sth, byThread, pend, hdl, fin, server, said,
                   blob, faults>>

\* The gateway's listener hears that turn t of session s is over: the requester who waits for
\* the turn gets its one final reply.
onRealtimeEvent(s, t) ==
    IF s # None /\ t \in pend
    THEN /\ pend' = pend \ {t}
         /\ Reply(t, IF turn[t] = "completed" THEN {"completed"} ELSE {"failed"})
    ELSE UNCHANGED <<pend, said>>

\* turn/completed or turn/failed: the thread's session has no active turn any more and its
\* listener is told; then every installed job handler takes it as the end of its turn.
ReadEnded ==
    /\ Line("ended")
    /\ LET t == Head(out).r
           s == byThread[th[t]]
       IN  /\ act' = IF s = None THEN act ELSE [act EXCEPT ![s] = None]
           /\ onRealtimeEvent(s, t)
           /\ fin' = [j \in Req |-> IF j \in hdl THEN t ELSE fin[j]]
    /\ UNCHANGED <<inq, busy, pc, rpc, th, tn, cache, sth, byThread, hdl, server, blob, faults>>

\* Mutant of ApprovalTimeout: an approval nobody decided is granted.
ApprovalTimeoutGrants(t) ==
    /\ t \in clock /\ slot[apid[t]] # None /\ Between
    /\ clock' = clock \ {t} /\ slot' = [slot EXCEPT ![apid[t]] = None]
    /\ ap' = IF ap[t] = "open" THEN [ap EXCEPT ![t] = "accept"] ELSE ap
    /\ UNCHANGED <<inq, busy, pc, rpc, th, tn, cache, registry, pend, hdl, fin, thr, turn,
                   apid, out, chunk, said, blob, faults>>

\* CODEX_GW_APPROVAL_TIMEOUT_MS passes: if the id still has an entry, perhaps that of another
\* approval, it goes, and the approval the timer was made for is declined.
ApprovalTimeout(t) ==
    /\ t \in clock /\ slot[apid[t]] # None /\ Between
    /\ clock' = clock \ {t} /\ slot' = [slot EXCEPT ![apid[t]] = None]
    /\ ap' = IF ap[t] = "open" THEN [ap EXCEPT ![t] = "decline"] ELSE ap
    /\ UNCHANGED <<inq, busy, pc, rpc, th, tn, cache, registry, pend, hdl, fin, thr, turn,
                   apid, out, chunk, said, blob, faults>>

-----------------------------------------------------------------------------
(* External: the approver and the app-server, as the gateway uses them. *)

\* A decision about id i is sent, by the approver it was sent to or by another agent of the bus
\* (the gateway does not look at the sender); several may contradict each other.  It comes before
\* or after any of the requests still to be read, perhaps too late.
Decide(i, d) ==
    LET m == [k |-> "dec", r |-> i, d |-> d]
    IN  /\ slot[i] # None /\ m \notin Range(inq)
        /\ \E n \in 1 .. Len(inq) + 1 : inq' = InsertAt(inq, n, m)
        /\ Reply(i, IF d = "accept" THEN {"granted"} ELSE {})
        /\ UNCHANGED <<busy, pc, rpc, th, tn, cache, registry, pend, hdl, fin, server, out, chunk,
                       blob, faults>>

\* It asks for an approval within a running turn, and the turn goes on when that is answered.
ServerAsks(t) ==
    /\ Attr[t].asks /\ turn[t] = "running" /\ ap[t] = "none"
    /\ ap' = [ap EXCEPT ![t] = "asked"]
    /\ Emit(<<[k |-> "ask", r |-> t]>>)
    /\ UNCHANGED <<inq, busy, pc, rpc, th, tn, cache, registry, pend, hdl, fin, thr, turn, apid,
                   slot, clock, chunk, said, blob, faults>>

\* A turn ends; that it fails counts as a fault.
ServerEnds(t) ==
    /\ turn[t] = "running" /\ ap[t] \notin {"asked", "open"}
    /\ \/ turn' = [turn EXCEPT ![t] = "completed"] /\ UNCHANGED faults
       \/ turn' = [turn EXCEPT ![t] = "failed"] /\ Fault
    /\ Emit(<<[k |-> "ended", r |-> t]>>)
    /\ UNCHANGED <<inq, busy, pc, rpc, th, tn, cache, registry, pend, hdl, fin, thr, approval,
                   chunk, said, blob>>

-----------------------------------------------------------------------------
Handle(r) ==
    \/ RefuseJob(r) \/ TakeJob(r) \/ \E op \in Attr[r].ops : TakeSession(r, op)
    \/ GotThread(r) \/ CallFailed(r) \/ TurnStarted(r) \/ SessionTurnStarted(r)
    \/ Steered(r) \/ SessionCallDone(r)
    \/ TurnTimeout(r) \/ JobReply(r) \/ JobCleanup(r)

ReadLoop ==
    ReadChunk \/ ReadResponse \/ ReadApproval \/ ReadStarted \/ ReadEnded

Decision == {"accept", "decline"}

\* A step of the gateway's own event loop, and a step of its environment.
Step ==
    \/ \E r \in Req : Handle(r) \/ ApprovalTimeout(r)
    \/ \E t \in Req, d \in Decision : TakeDecision(t, d)
    \/ ReadLoop

Environment ==
    \/ \E r \in Req : \E op \in Attr[r].ops : HttpRequest(r, op)
    \/ \E t \in Req, d \in Decision : Decide(t, d)
    \/ \E t \in Req : ServerAsks(t) \/ ServerEnds(t)

Next == Step \/ Environment

\* The event loop goes on as long as something is ready; nothing says that a turn ever ends or
\* that an approver decides.
Spec == Init /\ [][Next]_vars /\ WF_vars(Step)

-----------------------------------------------------------------------------
(* Properties. *)

\* A job runs on a thread that was started with its own sandbox and working directory, and never
\* on one where the turn of another job still runs: the cache gives out a thread for the exact
\* context only (GatewayThreadCache.get) and forgets the thread of a turn that timed out.  The
\* exception is a job that was ended by the end of a turn that is not its own (the handler of
\* runTurn() does not look at the thread of a notification).
JobThreadFits ==
    \A j \in Req : IsJob(j) /\ turn[j] # "none" =>
        /\ Attr[th[j]].ctx = Attr[j].ctx
        /\ \A q \in Req \ {j} :
             IsJob(q) /\ th[q] = th[j] /\ fin[q] \in {None, q} /\ fin[j] \in {None, j} =>
                 ~(turn[q] = "running" /\ turn[j] = "running")

\* A claim-checked reply whose blob is gone is contradicted by a failed reply: the requester of a
\* job never holds a completed reply with a dangling reference as the last word.
DanglingRefIsTold ==
    \A j \in Req : IsJob(j) /\ "ref" \in said[j] /\ pc[j] = "done" =>
        j \in blob \/ "failed" \in said[j]

\* The app-server is told accept of an approval only when a decision of the bus accepted the id of
\* this approval: no timeout, no late or repeated decision, no entry that another approval replaced
\* turns into one (configureApprovals, onInbound).  That the sender was the approver who was asked
\* is not promised, nor that two approvals never share an id.
AcceptWasGranted == \A t \in Req : ap[t] = "accept" => "granted" \in said[apid[t]]

\* The active turn of a session is a turn of the session's own thread, so a steer or an
\* interrupt never reaches a turn of another conversation.
ActiveTurnOnThread ==
    \A s \in Sid : act[s] # None => sth[s] # None /\ th[act[s]] = sth[s]

\* Every job of the bus is rejected, or accepted and then completed or failed, even when its
\* turn never ends or waits for an approval whose decision is queued behind the job itself.
JobAnswered ==
    <>(\A j \in Req : IsJob(j) /\ pc[j] # "absent" =>
           said[j] \cap {"rejected", "completed", "failed"} # {})
=============================================================================
