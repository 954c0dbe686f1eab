----------------------------- MODULE CodexBuild -----------------------------
(***************************************************************************)
(* Write authorisation of Codex build jobs (codex_build_client.ts and      *)
(* codex_build_authz.ts).  A client opens a bounded write window on its    *)
(* worktree in Redis, builds a job, and closes the window when the build   *)
(* is over; gateways decide from the same keys whether a job may write.    *)
(* Redis executes one command at a time; every command is an await, so     *)
(* the commands of clients and gateways interleave.  A command that times  *)
(* out was lost, or is executed later, in the order of its connection.     *)
(***************************************************************************)
EXTENDS Naturals

CONSTANTS
    Client,     \* processes that build jobs; each has a connection and one build
    Job,        \* workspace-write jobs that gateways decide on
    Path,       \* canonical worktree paths
    Key,        \* thread keys
    Requester,  \* the agents that ask
    Cwd,        \* Cwd[p]: the path of a client's build or of a job
    ThreadKey,  \* ThreadKey[j]
    From,       \* From[j]: the requester of job j
    Admitted,   \* jobs that pass the checks without Redis: write flag, allowlist, cwd roots
    Crashing,   \* clients that may crash
    Loads,      \* the sets of processes that take part in one behaviour
    MaxFault,   \* bound on commands that time out
    MaxExpiry   \* bound on the expiries of a thread-owner key

Proc == Client \cup Job
None == "none"

ASSUME BuildAssumption ==
    /\ Client \cap Job = {}
    /\ Cwd \in [Proc -> Path]
    /\ ThreadKey \in [Job -> Key] /\ From \in [Job -> Requester]
    /\ Admitted \subseteq Job /\ Crashing \subseteq Client
    /\ Loads \subseteq SUBSET Proc
    /\ None \notin Requester \cup Client /\ "past" \notin Client
    /\ MaxFault \in Nat /\ MaxExpiry \in Nat

VARIABLES
    member,     \* CWD_ALLOW_SET_KEY
    score,      \* CWD_ALLOW_EXPIRY_ZSET_KEY: None, past, or the client whose TTL it holds
    owner, gen, \* THREAD_OWNER_KEY_PREFIX keys, and how often each has expired
    pc,         \* the command a process sends next, or where it ended
    lag,        \* a command that timed out and is still to be executed
    ttl,        \* clients whose TTL has not passed since they registered
    closed,     \* history: clients whose unregisterCwd() returned true
    conf,       \* history: the generation of its key in which a job's ownership was confirmed
    torn,       \* history: paths whose expiry was removed though they are or become members
    faults

vars == <<member, score, owner, gen, pc, lag, ttl, closed, conf, torn, faults>>
registry == <<member, score, torn>>
keys == <<owner, gen, conf>>

\* The commands of registerCwd(), isCwdRegistered() (with its lazy removal), putBlob(),
\* unregisterCwd() and claimThreadKey(), and the ends of a build and of a decision.
ClientCmd == {"zadd", "sadd", "zscore", "lazySrem", "lazyZrem", "sismember", "putBlob",
              "tomb", "srem", "zrem"}
JobCmd == {"zscore", "lazySrem", "lazyZrem", "sismember", "setnx", "get", "resetnx", "reget",
           "expire"}
End == {"absent", "over", "crashed", "granted", "denied"}

TypeOK ==
    /\ member \subseteq Path /\ torn \subseteq Path
    /\ score \in [Path -> Client \cup {None, "past"}]
    /\ owner \in [Key -> Requester \cup {None}]
    /\ gen \in [Key -> 0 .. MaxExpiry]
    /\ pc \in [Proc -> ClientCmd \cup JobCmd \cup {"idle", "built"} \cup End]
    /\ lag \in [Proc -> ClientCmd \cup JobCmd \cup {None}]
    /\ ttl \subseteq Client /\ closed \subseteq Client
    /\ conf \in [Job -> Nat]
    /\ faults \in 0 .. MaxFault

Init ==
    /\ member = {} /\ torn = {} /\ score = [p \in Path |-> None]
    /\ owner = [k \in Key |-> None] /\ gen = [k \in Key |-> 0]
    /\ \E load \in Loads : pc = [p \in Proc |-> IF p \in load THEN "idle" ELSE "absent"]
    /\ lag = [p \in Proc |-> None]
    /\ ttl = {} /\ closed = {} /\ conf = [j \in Job |-> 0]
    /\ faults = 0

-----------------------------------------------------------------------------
(* Redis. *)

\* A registration of path d has sent its expiry, and its SADD is to be executed.
Registering(d) == \E c \in Client : Cwd[c] = d /\ "sadd" \in {pc[c], lag[c]}

\* What a command writes.
Writes(p, c) ==
    LET d == Cwd[p]
        k == ThreadKey[p]
    IN  /\ member' = IF c = "sadd" THEN member \cup {d}
                     ELSE IF c \in {"srem", "lazySrem"} THEN member \ {d} ELSE member
        /\ score' = [score EXCEPT ![d] =
                        IF c = "zadd" THEN (IF p \in ttl THEN p ELSE "past")
                        ELSE IF c = "tomb" THEN "past"
                        ELSE IF c \in {"zrem", "lazyZrem"} THEN None ELSE @]
        /\ owner' = IF c \in {"setnx", "resetnx"} /\ owner[k] = None
                    THEN [owner EXCEPT ![k] = From[p]] ELSE owner
        /\ torn' = IF c = "zadd" THEN torn \ {d}
                   ELSE IF c \in {"zrem", "lazyZrem"} /\ (d \in member \/ Registering(d))
                        THEN torn \cup {d} ELSE torn

\* The command that p sends is executed and answered; the connection keeps its order.
Answered(p, c) == pc[p] = c /\ lag[p] = None /\ Writes(p, c)

\* redisSend(): the command times out; it is lost or still on its way.
TimedOut(p, c) ==
    /\ pc[p] = c /\ lag[p] = None /\ faults < MaxFault
    /\ faults' = faults + 1
    /\ \E l \in {None, c} : lag' = [lag EXCEPT ![p] = l]
    /\ UNCHANGED <<registry, owner>>

\* A command that timed out is executed after all.
Late(p) ==
    /\ lag[p] # None
    /\ Writes(p, lag[p]) /\ lag' = [lag EXCEPT ![p] = None]
    /\ UNCHANGED <<gen, pc, ttl, closed, conf, faults>>

\* The TTL a client asked for passes, with the score that carries it.
TtlPasses(c) ==
    /\ c \in ttl /\ ttl' = ttl \ {c}
    /\ score' = [score EXCEPT ![Cwd[c]] = IF @ = c THEN "past" ELSE @]
    /\ UNCHANGED <<member, torn, keys, pc, lag, closed, faults>>

\* A thread-owner key expires.
KeyExpires(k) ==
    /\ owner[k] # None /\ gen[k] < MaxExpiry
    /\ owner' = [owner EXCEPT ![k] = None] /\ gen' = [gen EXCEPT ![k] = @ + 1]
    /\ UNCHANGED <<registry, pc, lag, ttl, closed, conf, faults>>

Goto(p, where) == pc' = [pc EXCEPT ![p] = where]

\* Mutant of OnTimeout: redisSend() has no timeout, so a lost command is awaited for ever.
OnTimeoutHangs(p, c, where) == TimedOut(p, c) /\ Goto(p, "hung")

\* The caller of a command that times out goes on with `where`.
OnTimeout(p, c, where) == TimedOut(p, c) /\ Goto(p, where)

\* The answer lets the caller go on with `where`.
OnAnswer(p, c, where) == Answered(p, c) /\ Goto(p, where) /\ UNCHANGED <<lag, faults>>

-----------------------------------------------------------------------------
(* isCwdRegistered() *)

\* A client that is told no unregisters; a gateway that is told no denies the job.
Told(p, yes) ==
    IF p \in Client THEN (IF yes THEN "putBlob" ELSE "tomb")
    ELSE (IF yes THEN "setnx" ELSE "denied")

\* ZSCORE: an expired entry is removed; errors are fail-closed.
Zscore(p) ==
    /\ \/ OnAnswer(p, "zscore", IF score[Cwd[p]] = "past" THEN "lazySrem" ELSE "sismember")
       \/ OnTimeout(p, "zscore", Told(p, FALSE))
    /\ UNCHANGED <<gen, ttl, closed, conf>>

\* SREM, then ZREM, each at best; the answer is no.
LazyRemoval(p) ==
    /\ \/ OnAnswer(p, "lazySrem", "lazyZrem") \/ OnTimeout(p, "lazySrem", "lazyZrem")
       \/ OnAnswer(p, "lazyZrem", Told(p, FALSE)) \/ OnTimeout(p, "lazyZrem", Told(p, FALSE))
    /\ UNCHANGED <<gen, ttl, closed, conf>>

\* SISMEMBER
Sismember(p) ==
    /\ \/ OnAnswer(p, "sismember", Told(p, Cwd[p] \in member))
       \/ OnTimeout(p, "sismember", Told(p, FALSE))
    /\ UNCHANGED <<gen, ttl, closed, conf>>

-----------------------------------------------------------------------------
(* buildBuildJob() and finishBuild(). *)

\* buildBuildJob() of a workspace-write job starts to register its path; the expiry is computed
\* before ZADD is sent.
StartBuild(c) ==
    /\ pc[c] = "idle" /\ Goto(c, "zadd")
    /\ ttl' = ttl \cup {c}
    /\ UNCHANGED <<registry, keys, lag, closed, faults>>

\* Mutant of RegisterCwd: the path is added without its expiry.
RegisterCwdNoExpiry(c) ==
    /\ \/ pc[c] = "zadd" /\ Goto(c, "sadd") /\ UNCHANGED <<registry, owner, lag, faults>>
       \/ OnAnswer(c, "sadd", "zscore") \/ OnTimeout(c, "sadd", "zscore")
    /\ UNCHANGED <<gen, ttl, closed, conf>>

\* registerCwd(): ZADD, then SADD.  Its result is not looked at: after an error the build goes
\* on to ask whether the path is registered.
RegisterCwd(c) ==
    /\ \/ OnAnswer(c, "zadd", "sadd") \/ OnTimeout(c, "zadd", "zscore")
       \/ OnAnswer(c, "sadd", "zscore") \/ OnTimeout(c, "sadd", "zscore")
    /\ UNCHANGED <<gen, ttl, closed, conf>>

\* buildClaimCheckedInput(): a prompt that fits goes inline; a large one is put into a blob,
\* which may be refused as too large or time out.
BuildInput(c) ==
    /\ \/ OnAnswer(c, "putBlob", "built")
       \/ OnAnswer(c, "putBlob", "tomb")
       \/ OnTimeout(c, "putBlob", "tomb")
    /\ UNCHANGED <<gen, ttl, closed, conf>>

\* finishBuild() at the end of the build's life.
FinishBuild(c) ==
    /\ pc[c] = "built" /\ Goto(c, "tomb")
    /\ UNCHANGED <<registry, keys, lag, ttl, closed, faults>>

\* unregisterCwd(): the tombstone, SREM, ZREM; an error ends it.
UnregisterCwd(c) ==
    /\ \/ OnAnswer(c, "tomb", "srem") /\ UNCHANGED closed
       \/ OnAnswer(c, "srem", "zrem") /\ UNCHANGED closed
       \/ OnAnswer(c, "zrem", "over") /\ closed' = closed \cup {c}
       \/ \E s \in {"tomb", "srem", "zrem"} : OnTimeout(c, s, "over") /\ UNCHANGED closed
    /\ UNCHANGED <<gen, ttl, conf>>

\* The client's process dies.
Crash(c) ==
    /\ c \in Crashing /\ pc[c] \notin {"absent", "idle", "over", "crashed"} /\ Goto(c, "crashed")
    /\ UNCHANGED <<registry, keys, lag, ttl, closed, faults>>

-----------------------------------------------------------------------------
(* authorizeWriteJob() in a gateway. *)

\* The checks without Redis come first.
Authorize(j) ==
    /\ pc[j] = "idle" /\ Goto(j, IF j \in Admitted THEN "zscore" ELSE "denied")
    /\ UNCHANGED <<registry, keys, lag, ttl, closed, faults>>

Free(j) == owner[ThreadKey[j]] = None
Mine(j) == owner[ThreadKey[j]] = From[j]
Confirm(j) == conf' = [conf EXCEPT ![j] = gen[ThreadKey[j]]]

\* Mutant of ClaimThreadKey: the owner read by GET is not compared.
ClaimThreadKeyAny(j) ==
    /\ \/ OnAnswer(j, "setnx", IF Free(j) THEN "granted" ELSE "get") /\ Confirm(j)
       \/ OnAnswer(j, "get", "expire") /\ Confirm(j)
       \/ OnAnswer(j, "expire", IF Free(j) THEN "denied" ELSE "granted") /\ UNCHANGED conf
    /\ UNCHANGED <<gen, ttl, closed>>

\* claimThreadKey(): SET NX; the owner is read, and claimed again if the key has just expired;
\* the own key is prolonged.  An error denies.
ClaimThreadKey(j) ==
    /\ \/ OnAnswer(j, "setnx", IF Free(j) THEN "granted" ELSE "get") /\ Confirm(j)
       \/ /\ OnAnswer(j, "get", IF Free(j) THEN "resetnx" ELSE IF Mine(j) THEN "expire" ELSE "denied")
          /\ Confirm(j)
       \/ OnAnswer(j, "resetnx", IF Free(j) THEN "granted" ELSE "reget") /\ Confirm(j)
       \/ OnAnswer(j, "reget", IF Mine(j) THEN "expire" ELSE "denied") /\ Confirm(j)
       \/ OnAnswer(j, "expire", IF Free(j) THEN "denied" ELSE "granted") /\ UNCHANGED conf
       \/ \E s \in {"setnx", "get", "resetnx", "reget", "expire"} :
              OnTimeout(j, s, "denied") /\ UNCHANGED conf
    /\ UNCHANGED <<gen, ttl, closed>>

-----------------------------------------------------------------------------
IsRegistered(p) == Zscore(p) \/ LazyRemoval(p) \/ Sismember(p)

\* The steps a process, its connection or its timer takes on its own.
Step(p) ==
    \/ IsRegistered(p) \/ Late(p)
    \/ p \in Client /\ (RegisterCwd(p) \/ BuildInput(p) \/ UnregisterCwd(p))
    \/ p \in Job /\ ClaimThreadKey(p)

Next ==
    \/ \E p \in Proc : Step(p)
    \/ \E c \in Client : StartBuild(c) \/ FinishBuild(c) \/ Crash(c) \/ TtlPasses(c)
    \/ \E j \in Job : Authorize(j)
    \/ \E k \in Key : KeyExpires(k)

\* Commands are answered or time out, time passes and a build's life ends; that a build is
\* started, or a job sent, is up to the callers.
Spec ==
    /\ Init /\ [][Next]_vars
    /\ \A p \in Proc : WF_vars(Step(p))
    /\ \A c \in Client : WF_vars(TtlPasses(c)) /\ WF_vars(FinishBuild(c))

-----------------------------------------------------------------------------
(* Properties. *)

\* What isCwdRegistered() says to a caller that is alone.
Registered(d) == d \in member /\ score[d] # "past"

\* The write window that a client opened on its path: until it is closed or its TTL passes.
Open(c) == c \in ttl /\ c \notin closed

\* A path is writable only while the window of some client on it is open, however the commands
\* of clients and gateways interleave, are lost or late (registerCwd, unregisterCwd and the lazy
\* removal of isCwdRegistered).  The exception is a path whose expiry was removed behind a
\* registration: ZREM runs last and does not look whether the path was registered meanwhile, or
\* whether SREM was lost.
WindowIsBounded ==
    \A d \in Path : Registered(d) /\ d \notin torn => \E c \in Client : Cwd[c] = d /\ Open(c)

\* A thread key has one owner at a time: jobs of two requesters are granted the same key only if
\* the ownership of one was confirmed before, and that of the other after, the key expired
\* (claimThreadKey, whose commands other gateways interleave with).
OneOwnerPerKey ==
    \A i, j \in Job :
        pc[i] = "granted" /\ pc[j] = "granted" /\ ThreadKey[i] = ThreadKey[j] /\ From[i] # From[j]
            => conf[i] # conf[j]

\* Both together: what authorises a write is bounded in time and belongs to one requester.
BuildSafe == WindowIsBounded /\ OneOwnerPerKey

\* Every build and every decision comes to its end, and in the end no path is left writable but
\* one that lost its expiry: crashes, lost commands and late ones included.
WindowsClose ==
    <>[](/\ \A p \in Proc : pc[p] \in End \cup {"idle"}
         /\ \A d \in Path : Registered(d) => d \in torn)
=============================================================================
