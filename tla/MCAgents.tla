------------------------------ MODULE MCAgents ------------------------------
(* What watches and runs agents, in four scenes: the wedge detector over one agent's beats, the *)
(* Claude gateway and its session pool, the governor that routes builds, and the guard that     *)
(* checks a build before it is published.  The variables of components off stage are 0.          *)
EXTENDS WedgeDetector

CONSTANTS
    Loads, NoOne, POOL, SESSION_MAX_TURNS, THREAD_MAX_TURNS, MAX_ACTIVE, MAX_THREADS, Envelope,
    RefFields, TruncFields, NoOutput, MarkerBytes, PREVIEW_BYTES, MaxSessions, MaxFaults, k1, k2,
    Level, anthropic429Hi, anthropic429Lo, codexBudgetHi, codexBudgetLo,
    breakerConsecutiveFailures, breakerCooldownMs, MaxClock, MaxFails,
    Path, Folder, Manifest, Protected, Unsafe, MaxWrites

VARIABLES
    scene,
    gw, load, pc, sess, threads, idle, active, warming, using, miss, text, blobs, sent, faults,
    history,
    clock, lastNow, high429, highBudget, fails, openUntil, last, tail,
    mode, head, base, index, tree, gpc, changed, toread, unseen, unread, viol, verdict, moved,
    gwrites, gfaults

Claude == INSTANCE ClaudeGateway WITH None <- NoOne
Gov    == INSTANCE RoutingGovernor WITH now <- clock, MaxNow <- MaxClock
Guard  == INSTANCE BuildGuard

ASSUME ClaudeAssume == Claude!ClaudeAssumption
ASSUME GovernorAssume == Gov!GovernorAssumption
ASSUME GuardAssume == Guard!GuardAssumption

-----------------------------------------------------------------------------
MCEmission == {<<"turn-start", FALSE, FALSE>>, <<"turn-end", TRUE, FALSE>>,
               <<"keepalive", FALSE, TRUE>>}

\* Characters by their UTF-8 and JSON sizes: a letter, a newline, one of three bytes.
Ascii == [u8 |-> 1, js |-> 1]
Break == [u8 |-> 1, js |-> 2]
Wide  == [u8 |-> 3, js |-> 3]

\* Jobs that make sessions be shared, evicted, retired and lost; every text and cap for the
\* reply's size; claim-checked inputs whose blob is there, missing or another.
JobOf(key, txt) == [key |-> key, isJob |-> TRUE, ref |-> NoOne, blob |-> NoOne, text |-> txt]
MessageOf(key, txt) == [JobOf(key, txt) EXCEPT !.isJob = FALSE]
BlobOf(sha) == [st |-> "value", sha256 |-> sha, len |-> 2]
WithRef(len, blob) ==
    [JobOf(NoOne, <<Ascii>>) EXCEPT !.ref = [sha256 |-> "h", len |-> len], !.blob = blob]
Short(key) == JobOf(key, <<Ascii>>)
Texts == {<<>>, <<Ascii>>, <<Wide>>, <<Break, Break, Wide>>, <<Ascii, Wide, Break, Ascii>>,
          <<Break, Wide, Wide, Ascii, Ascii>>, <<Wide, Wide, Wide, Break>>}
MCNoOutput == <<Ascii, Break>>
MCLoads ==
    {[tab |-> t, cap |-> 9, faults |-> 1] : t \in
        {<<Short(k1), Short(k2)>>, <<Short(k1), Short(k1), Short(k1)>>,
         <<Short(NoOne), Short(NoOne)>>, <<Short(NoOne), Short(k1)>>}}
    \cup {[tab |-> <<f>>, cap |-> c, faults |-> 3] : c \in 0..14, f \in
            {JobOf(NoOne, t) : t \in Texts} \cup {MessageOf(NoOne, t) : t \in Texts}}
    \cup {[tab |-> <<WithRef(l, b)>>, cap |-> 9, faults |-> 3] :
            l \in {2, 3}, b \in {[st |-> "missing"], BlobOf("h"), BlobOf("x")}}

\* A source file and a protected one of a directory that the manifest covers, and two at the top.
MCFolder == [p \in Path |-> IF p \in {"in", "sec"} THEN "dir" ELSE p]

-----------------------------------------------------------------------------
claudeVars == <<gw, load, pc, sess, threads, idle, active, warming, using, miss, text, blobs, sent,
                faults, history>>
governorVars == <<clock, lastNow, high429, highBudget, fails, openUntil, last, tail>>
guardVars == <<mode, head, base, index, tree, gpc, changed, toread, unseen, unread, viol, verdict,
               moved, gwrites, gfaults>>

claudeOff ==
    /\ gw = 0 /\ load = 0 /\ pc = 0 /\ sess = 0 /\ threads = 0 /\ idle = 0 /\ active = 0
    /\ warming = 0 /\ using = 0 /\ miss = 0 /\ text = 0 /\ blobs = 0 /\ sent = 0 /\ faults = 0
    /\ history = 0
governorOff ==
    /\ clock = 0 /\ lastNow = 0 /\ high429 = 0 /\ highBudget = 0 /\ fails = 0 /\ openUntil = 0
    /\ last = 0 /\ tail = 0
guardOff ==
    /\ mode = 0 /\ head = 0 /\ base = 0 /\ index = 0 /\ tree = 0 /\ gpc = 0 /\ changed = 0
    /\ toread = 0 /\ unseen = 0 /\ unread = 0 /\ viol = 0 /\ verdict = 0 /\ moved = 0
    /\ gwrites = 0 /\ gfaults = 0

\* The detector's variables, which are few, stay in their initial state in the other scenes.
MCInit ==
    /\ Init
    /\ \/ scene = "wedge" /\ claudeOff /\ governorOff /\ guardOff
       \/ scene = "claude" /\ Claude!Init /\ governorOff /\ guardOff
       \/ scene = "governor" /\ Gov!Init /\ claudeOff /\ guardOff
       \/ scene = "guard" /\ Guard!Init /\ claudeOff /\ governorOff

MCNext ==
    /\ UNCHANGED scene
    /\ \/ scene = "wedge" /\ Next /\ UNCHANGED <<claudeVars, governorVars, guardVars>>
       \/ scene = "claude" /\ Claude!Next /\ UNCHANGED <<vars, governorVars, guardVars>>
       \/ scene = "governor" /\ Gov!Next /\ UNCHANGED <<vars, claudeVars, guardVars>>
       \/ scene = "guard" /\ Guard!Next /\ UNCHANGED <<vars, claudeVars, governorVars>>

MCSpec == MCInit /\ [][MCNext]_<<scene, vars, claudeVars, governorVars, guardVars>>

\* Once in doubt, always in doubt: every property of the detector holds of such a state and of
\* all that follow.
Undoubted == ~doubt

-----------------------------------------------------------------------------
\* The session pool of the Claude gateway: conversations are not mixed, child processes stay
\* reachable, and slots and turns balance.
PoolSafe ==
    scene = "claude" => Claude!Isolation /\ Claude!NoOrphanSession /\ Claude!NoLostTurn

\* Replies of the Claude gateway are honest and always fit the bus.
ReplyFaithful == scene = "claude" => Claude!ReplyFaithful

\* A build is routed only where it may go, and the breaker is open exactly when it should be.
GovernorSafe == scene = "governor" => Gov!GovernorSafe

\* A passed build guard means that what it was shown of what is published is in the manifest,
\* unprotected and clean.
GuardSound == scene = "guard" => Guard!GuardSound
=============================================================================
