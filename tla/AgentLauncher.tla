--------------------------- MODULE AgentLauncher ---------------------------
(***************************************************************************)
(* The launcher control plane (a2a_launcher.ts) and the onboarding it runs *)
(* for every launch (onboard.ts): key files, the registered public key,    *)
(* Docker and the presence record of the agent that is started.            *)
(*                                                                         *)
(* Requests run concurrently, also for one agent id.  What Redis or Docker *)
(* does is one step with the request for it; the request goes on in a      *)
(* later step.  Every step may fail, also after its effect.  A seed and a  *)
(* public key are named by the request that generated their pair.          *)
(***************************************************************************)
EXTENDS Naturals

CONSTANTS
    Agent,      \* agent ids
    Req,        \* launch requests, and runs of the onboarding command
    For,        \* the agent id of each
    Kind,       \* codex or claude; "rotate" for the onboarding command with --force
    Denied,     \* launch requests the guards refuse (ids, creator, self-launch, provider)
    None,
    Broken,     \* the contents of a key file that was cut off while it was written
    MaxFault    \* bound on the failures of everything

ASSUME LauncherAssumption ==
    /\ None \notin Req /\ Broken \notin Req /\ None # Broken /\ Denied \subseteq Req /\ MaxFault \in Nat
    /\ For \in [Req -> Agent] /\ Kind \in [Req -> {"codex", "claude", "rotate"}]

VARIABLES
    at,         \* where a request is; "idle" before it comes, "ok", "failed", "refused" after; "lost"
                \* if it has failed with the registration perhaps on its way to Redis
    key,        \* the key pair it works with: [seed, pub]
    pub,        \* Redis: the registered public key of an agent id
    seed, pubFile,  \* the key files of an agent id
    cont,       \* its container: [state, kind, the key it has read at its start]
    present,    \* its presence record
    record,     \* the launch record: the request that wrote it
    torn,       \* history: an onboarding of the id has failed at its key files, or its registration
                \* came after its failure; and none has completed alone since
    raced,      \* history: a rotation overlapped with another onboarding of the id
    rotated,    \* history: the container was started with torn files or under a rotation, or the
                \* key was rotated since
    faults

launcherVars == <<at, key, pub, seed, pubFile, cont, present, record, torn, raced, rotated, faults>>
identity == <<pub, seed, pubFile, torn, raced, rotated>>

Fault == faults < MaxFault /\ faults' = faults + 1
Ended == {"ok", "failed", "refused", "lost"}
Onboarding(r) == at[r] \in {"register", "compare", "files"}
Alone(r) == \A s \in Req \ {r} : For[s] = For[r] => ~Onboarding(s)
Rotating(a) == \E r \in Req : For[r] = a /\ Kind[r] = "rotate" /\ Onboarding(r)

LauncherInit ==
    /\ at = [r \in Req |-> "idle"] /\ key = [r \in Req |-> [seed |-> None, pub |-> None]]
    /\ pub = [a \in Agent |-> None]
    /\ seed = [a \in Agent |-> None] /\ pubFile = [a \in Agent |-> None]
    /\ cont = [a \in Agent |-> [state |-> "none", kind |-> None, key |-> None]]
    /\ present = [a \in Agent |-> FALSE] /\ record = [a \in Agent |-> None]
    /\ torn = [a \in Agent |-> FALSE] /\ raced = [a \in Agent |-> FALSE]
    /\ rotated = [a \in Agent |-> FALSE]
    /\ faults = 0

Goto(r, step) == at' = [at EXCEPT ![r] = step]

\* What r awaits throws: a launch is answered with launcher_error, the command exits or has died.
Throws(r) == Fault /\ Goto(r, "failed")
\* What is done for r is answered, or the answer is lost.
Answered(r, step) == (Goto(r, step) /\ UNCHANGED faults) \/ Throws(r)

-----------------------------------------------------------------------------
(* onboard() *)

\* loadOrGenEd25519(): key files are used only if both are there; a rotation makes a new pair.
LoadOrGen(r) ==
    IF Kind[r] # "rotate" /\ seed[For[r]] # None /\ pubFile[For[r]] # None
    THEN [seed |-> seed[For[r]], pub |-> pubFile[For[r]]]
    ELSE [seed |-> r, pub |-> r]

\* A request comes in: the guards, and the key pair to work with.
Arrive(r) ==
    /\ at[r] = "idle"
    /\ \/ r \in Denied /\ Goto(r, "refused") /\ UNCHANGED key
       \/ r \notin Denied /\ Goto(r, "register") /\ key' = [key EXCEPT ![r] = LoadOrGen(r)]
    /\ UNCHANGED <<identity, cont, present, record, faults>>

\* The registration is executed: the key is another one from now on.
Registers(r) ==
    LET a == For[r]
        rotate == Kind[r] = "rotate"
    IN  /\ pub' = [pub EXCEPT ![a] = key[r].pub]
        /\ rotated' = [rotated EXCEPT ![a] = @ \/ rotate]
        /\ raced' = [raced EXCEPT ![a] = @ \/ (rotate /\ ~Alone(r))]

\* registerPubkey(): SET NX, or SET for a rotation.  It throws if the reply does not come in time,
\* whether the SET is executed or not.
Register(r) ==
    /\ at[r] = "register"
    /\ \/ /\ Kind[r] = "rotate" \/ pub[For[r]] = None
          /\ Registers(r) /\ Goto(r, "files") /\ UNCHANGED faults
       \/ /\ Kind[r] # "rotate" /\ pub[For[r]] # None
          /\ Goto(r, "compare") /\ UNCHANGED <<pub, rotated, raced, faults>>
       \/ Fault /\ Goto(r, "lost") /\ UNCHANGED <<pub, rotated, raced>>
    /\ UNCHANGED <<key, seed, pubFile, torn, cont, present, record>>

\* The SET of a request that has failed is executed after all, or was: its files are not written.
LateRegister(r) ==
    /\ at[r] = "lost" /\ Goto(r, "failed")
    /\ Kind[r] = "rotate" \/ pub[For[r]] = None
    /\ Registers(r) /\ torn' = [torn EXCEPT ![For[r]] = TRUE]
    /\ UNCHANGED <<key, seed, pubFile, cont, present, record, faults>>

\* Mutant of Compare: any registered key will do.
CompareNothing(r) ==
    /\ at[r] = "compare" /\ Goto(r, "files")
    /\ UNCHANGED <<key, identity, cont, present, record, faults>>

\* A key is registered already: the same one, or PubkeyConflict.  The GET may fail.
Compare(r) ==
    /\ at[r] = "compare"
    /\ \/ Goto(r, IF pub[For[r]] = key[r].pub THEN "files" ELSE "failed") /\ UNCHANGED faults
       \/ Throws(r)
    /\ UNCHANGED <<key, identity, cont, present, record>>

\* The two files are opened and written one after the other; it may end at any point.
CutFiles(r) ==
    LET a == For[r]
    IN  \E f \in {<<seed[a], pubFile[a]>>, <<Broken, pubFile[a]>>, <<key[r].seed, pubFile[a]>>,
                  <<key[r].seed, Broken>>, <<key[r].seed, key[r].pub>>} :
          seed' = [seed EXCEPT ![a] = f[1]] /\ pubFile' = [pubFile EXCEPT ![a] = f[2]]

\* writeAgentFiles(): with or without success, or before the env file and the modes.
WriteFiles(r) ==
    LET a == For[r]
    IN  /\ at[r] = "files"
        /\ \/ /\ Goto(r, "verify") /\ UNCHANGED faults
              /\ seed' = [seed EXCEPT ![a] = key[r].seed]
              /\ pubFile' = [pubFile EXCEPT ![a] = key[r].pub]
              /\ torn' = [torn EXCEPT ![a] = @ /\ ~(Alone(r) /\ key[r].seed = key[r].pub
                                                    /\ pub[a] = key[r].pub)]
           \/ Throws(r) /\ CutFiles(r) /\ torn' = [torn EXCEPT ![a] = TRUE]
        /\ UNCHANGED <<key, pub, raced, rotated, cont, present, record>>

\* verifyRoundTrip(): what is registered verifies a signature made with the seed; a broken key or
\* the GET throws.
Verify(r) ==
    /\ at[r] = "verify"
    /\ \/ /\ pub[For[r]] = key[r].seed /\ key[r].seed # Broken /\ UNCHANGED faults
          /\ Goto(r, IF Kind[r] = "rotate" THEN "ok" ELSE "inspect")
       \/ /\ pub[For[r]] # key[r].seed \/ key[r].seed = Broken
          /\ Goto(r, "failed") /\ UNCHANGED faults
       \/ Throws(r)
    /\ UNCHANGED <<key, identity, cont, present, record>>

-----------------------------------------------------------------------------
(* handleCodexLaunch(), handleClaudeLaunch() *)

\* ensureDockerRuntime(): an existing container is used, of whichever kind it is.
Inspect(r) ==
    /\ at[r] = "inspect"
    /\ \/ /\ UNCHANGED faults
          /\ Goto(r, CASE cont[For[r]].state = "none" -> "create"
                       [] cont[For[r]].state = "stopped" -> "start"
                       [] OTHER -> "wait")
       \/ Throws(r)
    /\ UNCHANGED <<key, identity, cont, present, record>>

\* The container specs: of a gateway for Codex or for Claude, that reads the seed file of its id
\* when it starts.
CodexContainer == [state |-> "stopped", kind |-> "codex", key |-> None]
ClaudeContainer == [state |-> "stopped", kind |-> "claude", key |-> None]

\* The container is created with the spec of the kind, unless another request was faster.
Create(r) ==
    /\ at[r] = "create"
    /\ \/ /\ cont[For[r]].state = "none"
          /\ cont' = [cont EXCEPT ![For[r]] = IF Kind[r] = "claude" THEN ClaudeContainer
                                              ELSE CodexContainer]
          /\ Answered(r, "start")
       \/ cont[For[r]].state # "none" /\ Goto(r, "failed") /\ UNCHANGED <<cont, faults>>
       \/ Throws(r) /\ UNCHANGED cont
    /\ UNCHANGED <<key, identity, present, record>>

\* The container's process begins: it reads the seed file.
Begins(a) ==
    /\ cont' = [cont EXCEPT ![a].state = "running", ![a].key = seed[a]]
    /\ rotated' = [rotated EXCEPT ![a] = Rotating(a) \/ torn[a]]

\* Mutant of Start: a container keeps the key it was first started with.
StartKeepsKey(r) ==
    /\ at[r] = "start" /\ Goto(r, "wait")
    /\ cont' = [cont EXCEPT ![For[r]] =
                   [@ EXCEPT !.state = "running", !.key = IF @ = None THEN seed[For[r]] ELSE @]]
    /\ rotated' = [rotated EXCEPT ![For[r]] = Rotating(For[r]) \/ torn[For[r]]]
    /\ UNCHANGED <<key, pub, seed, pubFile, torn, raced, present, record, faults>>

\* The container is started, unless it runs already.
Start(r) ==
    /\ at[r] = "start"
    /\ \/ /\ cont[For[r]].state # "running" /\ Begins(For[r]) /\ Answered(r, "wait")
       \/ /\ cont[For[r]].state = "running" /\ Goto(r, "wait")
          /\ UNCHANGED <<cont, rotated, faults>>
       \/ Throws(r) /\ UNCHANGED <<cont, rotated>>
    /\ UNCHANGED <<key, pub, seed, pubFile, torn, raced, present, record>>

\* waitPresence(), then recordLaunch(): the launch is answered with ok, be the agent ready or not.
Record(r) ==
    /\ at[r] = "wait"
    /\ \/ Goto(r, "ok") /\ record' = [record EXCEPT ![For[r]] = r] /\ UNCHANGED faults
       \/ Throws(r) /\ record' \in {record, [record EXCEPT ![For[r]] = r]}
    /\ UNCHANGED <<key, identity, cont, present>>

\* The launcher dies with its requests: one of them may be writing its files.  The onboarding
\* command is a process of its own; its steps fail when it dies.
LauncherCrash ==
    LET dies(r) == Kind[r] # "rotate" /\ at[r] \notin {"idle"} \cup Ended
    IN  /\ Fault
        /\ at' = [r \in Req |-> IF ~dies(r) THEN at[r]
                                ELSE IF at[r] = "register" THEN "lost" ELSE "failed"]
        /\ \/ UNCHANGED <<seed, pubFile>>
           \/ \E r \in Req : dies(r) /\ at[r] = "files" /\ CutFiles(r)
        /\ torn' = [a \in Agent |->
                      torn[a] \/ \E r \in Req : For[r] = a /\ dies(r) /\ at[r] = "files"]
        /\ UNCHANGED <<key, pub, raced, rotated, cont, present, record>>

\* The agent in the container joins the bus, if it could read a seed.
AgentUp(a) ==
    /\ cont[a].state = "running" /\ cont[a].key \in Req /\ ~present[a]
    /\ present' = [present EXCEPT ![a] = TRUE]
    /\ UNCHANGED <<at, key, identity, cont, record, faults>>

Stopped(a) ==
    /\ cont' = [cont EXCEPT ![a].state = IF @ = "running" THEN "stopped" ELSE @]
    /\ present' = [present EXCEPT ![a] = FALSE]

\* The container is stopped by somebody, or its process ends and Docker starts it again
\* (RestartPolicy).
AgentDown(a) ==
    /\ cont[a].state = "running" /\ Fault
    /\ \/ Stopped(a) /\ UNCHANGED rotated
       \/ Begins(a) /\ present' = [present EXCEPT ![a] = FALSE]
    /\ UNCHANGED <<at, key, pub, seed, pubFile, torn, raced, record>>

Launching(r) ==
    \/ Register(r) \/ Compare(r) \/ WriteFiles(r) \/ Verify(r)
    \/ Inspect(r) \/ Create(r) \/ Start(r) \/ Record(r)

-----------------------------------------------------------------------------
(* Properties. *)

\* A container that runs signs with the registered key: whichever requests race for an agent id,
\* none replaces the key of another's running container, and a conflict or a failed verification
\* comes before a container is started (registerPubkey, verifyRoundTrip).  Only a rotation
\* invalidates a running agent, until its process begins again with its files complete; if it
\* overlaps with a launch, whose files may replace the new ones, for good.
IdentityFits ==
    \A a \in Agent :
        cont[a].state = "running" /\ ~rotated[a] /\ ~raced[a] => cont[a].key = pub[a]

\* While no onboarding of an agent id is under way, its key files hold the registered key, so that
\* the next launch finds them in agreement.  Lost, until a rotation completes, if an onboarding
\* fails or dies between the registration and the end of its files; for good if a rotation
\* overlaps with a launch.
KeysAgree ==
    \A a \in Agent :
        ~torn[a] /\ ~raced[a] /\ (\A r \in Req : For[r] = a => ~Onboarding(r))
            => seed[a] = pub[a] /\ pubFile[a] = pub[a]

\* Both together: the key a container signs with, the registered one and the files fit.
LauncherSafe == IdentityFits /\ KeysAgree
=============================================================================
