---------------------- MODULE FleetOrchestratorProofs ----------------------
(***************************************************************************)
(* LauncherSafe and FleetSafe for any agents, requests and command lines,  *)
(* any bound on the failures, and launches, rotations, crashes, replies    *)
(* and steps of the run in any order.                                      *)
(***************************************************************************)
EXTENDS FleetOrchestrator, TLAPS

States == {"idle", "register", "compare", "files", "verify", "inspect", "create", "start", "wait"}
          \cup Ended
Keys == Req \cup {None, Broken}
Pairs == [seed : Keys, pub : Keys]
Containers ==
    [state : {"none", "stopped", "running"}, kind : {"codex", "claude", None}, key : Keys]

LauncherType ==
    /\ at \in [Req -> States] /\ key \in [Req -> Pairs]
    /\ pub \in [Agent -> Keys] /\ seed \in [Agent -> Keys] /\ pubFile \in [Agent -> Keys]
    /\ cont \in [Agent -> Containers]
    /\ torn \in [Agent -> BOOLEAN] /\ raced \in [Agent -> BOOLEAN] /\ rotated \in [Agent -> BOOLEAN]

Registered == {"compare", "files", "verify", "inspect", "create", "start", "wait"}
WithFiles == {"verify", "inspect", "create", "start"}

\* Neither a race nor a failure has touched the key files of an agent id.
Sound(a) == ~raced[a] /\ ~torn[a]

\* A registered key is never taken back, and whoever is past the registration found one.
PubInv ==
    /\ \A r \in Req : at[r] \in {"register", "lost"} => key[r].pub # None
    /\ \A r \in Req : at[r] \in Registered => pub[For[r]] # None
    /\ \A a \in Agent : cont[a].state # "none" => pub[a] # None

\* The files of an agent id hold one pair, and so does whoever onboards it.
WholeInv ==
    /\ \A a \in Agent : Sound(a) => seed[a] = pubFile[a]
    /\ \A r \in Req : Onboarding(r) /\ Sound(For[r]) => key[r].seed = key[r].pub

\* Whoever is about to write the key files holds the registered key.
FilesInv == \A r \in Req : at[r] = "files" /\ Sound(For[r]) => key[r].pub = pub[For[r]]

\* Once files were written they hold the registered seed, until a rotation registers another key
\* and as long as its files are not written.
HasFiles(a) == cont[a].state # "none" \/ \E r \in Req : For[r] = a /\ at[r] \in WithFiles
RotatesFiles(a) == \E r \in Req : For[r] = a /\ Kind[r] = "rotate" /\ at[r] = "files"
SeedInv == \A a \in Agent : HasFiles(a) /\ Sound(a) /\ ~RotatesFiles(a) => seed[a] = pub[a]

\* The files agree with Redis except between a registration and its files.
AgreeInv ==
    \A a \in Agent :
        Sound(a) /\ (\A r \in Req : For[r] = a => at[r] # "files") =>
            seed[a] = pub[a] /\ pubFile[a] = pub[a]

LauncherInv ==
    /\ LauncherType /\ PubInv /\ WholeInv /\ FilesInv /\ SeedInv /\ AgreeInv /\ IdentityFits

LEMMA LauncherInvSafe == LauncherInv => LauncherSafe
BY DEF LauncherInv, LauncherSafe, KeysAgree, AgreeInv, Onboarding, Sound

LEMMA LauncherInitInv == LauncherInit => LauncherInv
<1> SUFFICES ASSUME LauncherInit PROVE LauncherInv
    OBVIOUS
<1>1. LauncherType
    BY DEF LauncherInit, LauncherType, States, Keys, Pairs, Containers
<1>2. PubInv /\ WholeInv /\ FilesInv
    BY LauncherAssumption
       DEF LauncherInit, PubInv, WholeInv, FilesInv, Registered, Onboarding
<1>3. SeedInv /\ AgreeInv /\ IdentityFits
    BY LauncherAssumption DEF LauncherInit, SeedInv, HasFiles, AgreeInv, IdentityFits, WithFiles
<1> QED BY <1>1, <1>2, <1>3 DEF LauncherInv

\* A request takes a step that changes nothing but itself, and does not come from writing files.
LEMMA MoveInv ==
    ASSUME LauncherInv, NEW r \in Req, NEW s \in States, NEW k \in Pairs,
           at' = [at EXCEPT ![r] = s], key' = [key EXCEPT ![r] = k],
           UNCHANGED <<identity, cont>>,
           at[r] # "files",
           s \in {"register", "lost"} => k.pub # None,
           s \in Registered => pub[For[r]] # None,
           s = "files" => k.pub = pub[For[r]],
           s \in {"register", "compare", "files"} /\ Sound(For[r]) => k.seed = k.pub,
           s \in WithFiles => at[r] \in WithFiles
    PROVE  LauncherInv'
<1> USE LauncherAssumption
<1>1. /\ UNCHANGED <<pub, seed, pubFile, torn, raced, rotated, cont>>
      /\ \A q \in Req \ {r} : at'[q] = at[q] /\ key'[q] = key[q]
      /\ at'[r] = s /\ key'[r] = k
    BY DEF LauncherInv, LauncherType, identity
<1>2. \A a \in Agent : Sound(a)' = Sound(a)
    BY <1>1 DEF Sound
<1>3. LauncherType'
    BY <1>1 DEF LauncherInv, LauncherType
<1>4. PubInv'
    BY <1>1 DEF LauncherInv, PubInv
<1>5. WholeInv'
    BY <1>1, <1>2 DEF LauncherInv, WholeInv, Onboarding
<1>6. FilesInv'
    BY <1>1, <1>2 DEF LauncherInv, FilesInv
<1>7. ASSUME NEW a \in Agent
      PROVE  (RotatesFiles(a) => RotatesFiles(a)') /\ (HasFiles(a)' => HasFiles(a))
    BY <1>1 DEF RotatesFiles, HasFiles
<1>8. SeedInv'
    BY <1>1, <1>2, <1>7 DEF LauncherInv, SeedInv
<1>9. AgreeInv'
    BY <1>1, <1>2 DEF LauncherInv, AgreeInv
<1>10. IdentityFits'
    BY <1>1 DEF LauncherInv, IdentityFits
<1> QED BY <1>3, <1>4, <1>5, <1>6, <1>8, <1>9, <1>10 DEF LauncherInv

LEMMA ArriveInv == ASSUME LauncherInv, NEW r \in Req, Arrive(r) PROVE LauncherInv'
<1> USE LauncherAssumption
<1>1. at[r] = "idle" /\ key[r] \in Pairs /\ key = [key EXCEPT ![r] = key[r]]
      /\ UNCHANGED <<identity, cont>>
    BY DEF Arrive, LauncherInv, LauncherType
<1>2. CASE at' = [at EXCEPT ![r] = "refused"] /\ key' = key
    <2>1. key' = [key EXCEPT ![r] = key[r]]
        BY <1>1, <1>2
    <2> QED BY <1>1, <1>2, <2>1, MoveInv DEF States, Ended, Registered, WithFiles
<1>3. CASE at' = [at EXCEPT ![r] = "register"] /\ key' = [key EXCEPT ![r] = LoadOrGen(r)]
    <2>1. For[r] \in Agent /\ seed[For[r]] \in Keys /\ pubFile[For[r]] \in Keys /\ r \in Keys
        BY DEF Keys, LauncherInv, LauncherType
    <2>2. LoadOrGen(r) \in Pairs /\ LoadOrGen(r).pub # None
        BY <2>1 DEF LoadOrGen, Pairs
    <2>3. Sound(For[r]) => LoadOrGen(r).seed = LoadOrGen(r).pub
        BY <2>1 DEF LoadOrGen, LauncherInv, WholeInv
    <2> QED BY <1>1, <1>3, <2>2, <2>3, MoveInv DEF States, Registered, WithFiles
<1> QED BY <1>2, <1>3 DEF Arrive, Goto

LEMMA LookInv ==
    ASSUME LauncherInv, NEW r \in Req,
           Compare(r) \/ Verify(r) \/ Inspect(r) \/ Record(r)
    PROVE  LauncherInv'
<1> USE LauncherAssumption
<1>1. /\ key[r] \in Pairs /\ key' = [key EXCEPT ![r] = key[r]] /\ UNCHANGED <<identity, cont>>
      /\ at[r] \in {"compare", "verify", "inspect", "wait"}
    BY DEF Compare, Verify, Inspect, Record, LauncherInv, LauncherType
<1>2. PICK s \in States :
        /\ at' = [at EXCEPT ![r] = s]
        /\ s = "files" => at[r] = "compare" /\ key[r].pub = pub[For[r]]
        /\ s \in WithFiles => at[r] \in WithFiles
        /\ s \notin {"register", "lost", "compare"}
    BY DEF Compare, Verify, Inspect, Record, Goto, Throws, States, Ended, WithFiles
<1>3. pub[For[r]] # None
    BY <1>1 DEF LauncherInv, PubInv, Registered
<1>4. s = "files" /\ Sound(For[r]) => key[r].seed = key[r].pub
    BY <1>2 DEF LauncherInv, WholeInv, Onboarding
<1> QED BY <1>1, <1>2, <1>3, <1>4, MoveInv

\* registerPubkey(): a rotation that meets another onboarding is recorded as a race; without one
\* nobody holds another key for the files.
LEMMA RegisterInv == ASSUME LauncherInv, NEW r \in Req, Register(r) PROVE LauncherInv'
<1> USE LauncherAssumption
<1> DEFINE a == For[r]
           rotate == Kind[r] = "rotate"
<1>1. /\ at[r] = "register" /\ a \in Agent /\ key[r] \in Pairs /\ key[r].pub # None
      /\ key[r].pub \in Keys
      /\ UNCHANGED <<key, seed, pubFile, torn, cont>>
    BY DEF Register, LauncherInv, LauncherType, PubInv, Pairs
<1>2. CASE (rotate \/ pub[a] = None) /\ Registers(r) /\ Goto(r, "files")
    <2>1. /\ at' = [at EXCEPT ![r] = "files"] /\ pub' = [pub EXCEPT ![a] = key[r].pub]
          /\ rotated' = [rotated EXCEPT ![a] = rotated[a] \/ rotate]
          /\ raced' = [raced EXCEPT ![a] = raced[a] \/ (rotate /\ ~Alone(r))]
        BY <1>2 DEF Registers, Goto
    <2>2. LauncherType'
        BY <1>1, <2>1 DEF LauncherInv, LauncherType, States
    <2>3. /\ \A q \in Req \ {r} : at'[q] = at[q]
          /\ at'[r] = "files" /\ pub'[a] = key[r].pub
          /\ \A b \in Agent \ {a} : /\ pub'[b] = pub[b] /\ raced'[b] = raced[b]
                                    /\ rotated'[b] = rotated[b]
          /\ rotate => rotated'[a]
          /\ Sound(a)' => Sound(a) /\ (rotate => Alone(r))
          /\ \A b \in Agent \ {a} : Sound(b)' = Sound(b)
        BY <1>1, <2>1 DEF LauncherInv, LauncherType, Sound
    <2>4. PubInv'
        BY <1>1, <2>3 DEF LauncherInv, PubInv, Registered
    <2>5. WholeInv'
        <3>1. \A b \in Agent : Sound(b)' => seed'[b] = pubFile'[b]
            BY <1>1, <2>3 DEF LauncherInv, WholeInv
        <3>2. \A q \in Req : Onboarding(q)' => Onboarding(q)
            BY <1>1, <2>3 DEF Onboarding
        <3>3. \A q \in Req : Onboarding(q)' /\ Sound(For[q])' => key'[q].seed = key'[q].pub
            BY <1>1, <2>3, <3>2 DEF LauncherInv, WholeInv
        <3> QED BY <3>1, <3>3 DEF WholeInv
    <2>6. ASSUME NEW q \in Req \ {r}, For[q] = a, Sound(a)'
          PROVE  at[q] # "files" /\ (at[q] \in WithFiles => rotate)
        BY <1>1, <1>2, <2>3, <2>6
           DEF LauncherInv, PubInv, Registered, Onboarding, Alone, WithFiles
    <2>7. FilesInv'
        BY <1>1, <2>3, <2>6 DEF LauncherInv, FilesInv
    <2>8. rotate => RotatesFiles(a)'
        BY <2>3 DEF RotatesFiles
    <2>9. SeedInv'
        <3> SUFFICES ASSUME NEW b \in Agent, HasFiles(b)', Sound(b)', ~RotatesFiles(b)'
                     PROVE  seed'[b] = pub'[b]
            BY DEF SeedInv
        <3>1. CASE b = a
            <4>1. ~rotate /\ pub[a] = None
                BY <1>2, <2>8, <3>1
            <4>2. cont[a].state = "none"
                BY <1>1, <4>1 DEF LauncherInv, PubInv
            <4>3. \A q \in Req : For[q] = a => at'[q] \notin WithFiles
                BY <2>3, <2>6, <3>1, <4>1 DEF WithFiles
            <4> QED BY <1>1, <3>1, <4>2, <4>3 DEF HasFiles
        <3>2. CASE b # a
            <4>1. HasFiles(b) /\ ~RotatesFiles(b)
                BY <1>1, <2>3, <3>2 DEF HasFiles, RotatesFiles
            <4> QED BY <1>1, <2>3, <3>2, <4>1 DEF LauncherInv, SeedInv
        <3> QED BY <3>1, <3>2
    <2>10. AgreeInv'
        BY <1>1, <2>3 DEF LauncherInv, AgreeInv
    <2>11. IdentityFits'
        <3> SUFFICES ASSUME NEW b \in Agent, cont'[b].state = "running", ~rotated'[b], ~raced'[b]
                     PROVE  cont'[b].key = pub'[b]
            BY DEF IdentityFits
        <3>1. CASE b = a
            BY <1>1, <1>2, <2>3, <3>1 DEF LauncherInv, PubInv
        <3>2. CASE b # a
            BY <1>1, <2>3, <3>2 DEF LauncherInv, IdentityFits
        <3> QED BY <3>1, <3>2
    <2> QED BY <2>2, <2>4, <2>5, <2>7, <2>9, <2>10, <2>11 DEF LauncherInv
<1>3. CASE ~(rotate \/ pub[a] = None) /\ Goto(r, "compare") /\ UNCHANGED <<pub, rotated, raced>>
    <2>1. UNCHANGED <<identity, cont>> /\ key' = [key EXCEPT ![r] = key[r]]
        BY <1>1, <1>3 DEF identity, LauncherInv, LauncherType
    <2>2. Sound(a) => key[r].seed = key[r].pub
        BY <1>1 DEF LauncherInv, WholeInv, Onboarding
    <2> QED BY <1>1, <1>3, <2>1, <2>2, MoveInv DEF Goto, States, WithFiles
<1>4. CASE Goto(r, "lost") /\ UNCHANGED <<pub, rotated, raced>>
    <2>1. UNCHANGED <<identity, cont>> /\ key' = [key EXCEPT ![r] = key[r]]
        BY <1>1, <1>4 DEF identity, LauncherInv, LauncherType
    <2> QED BY <1>1, <1>4, <2>1, MoveInv DEF Goto, States, Ended, Registered, WithFiles
<1> QED BY <1>2, <1>3, <1>4 DEF Register

\* A registration after its failure: nothing is said of the files of that id any more, except that
\* there is a registered key; and no container runs with the old one unnoticed.
LEMMA LateRegisterInv == ASSUME LauncherInv, NEW r \in Req, LateRegister(r) PROVE LauncherInv'
<1> USE LauncherAssumption
<1> DEFINE a == For[r]
           rotate == Kind[r] = "rotate"
<1>1. /\ at[r] = "lost" /\ a \in Agent /\ key[r].pub # None /\ key[r].pub \in Keys
      /\ UNCHANGED <<key, seed, pubFile, cont>>
      /\ rotate \/ pub[a] = None
      /\ at' = [at EXCEPT ![r] = "failed"] /\ pub' = [pub EXCEPT ![a] = key[r].pub]
      /\ rotated' = [rotated EXCEPT ![a] = rotated[a] \/ rotate]
      /\ raced' = [raced EXCEPT ![a] = raced[a] \/ (rotate /\ ~Alone(r))]
      /\ torn' = [torn EXCEPT ![a] = TRUE]
    BY DEF LateRegister, Registers, Goto, LauncherInv, LauncherType, PubInv, Pairs
<1>2. LauncherType'
    BY <1>1 DEF LauncherInv, LauncherType, States, Ended
<1>3. /\ \A q \in Req \ {r} : at'[q] = at[q]
      /\ at'[r] = "failed" /\ pub'[a] = key[r].pub
      /\ \A b \in Agent \ {a} : /\ pub'[b] = pub[b] /\ raced'[b] = raced[b]
                                /\ rotated'[b] = rotated[b] /\ Sound(b)' = Sound(b)
      /\ rotate => rotated'[a]
      /\ ~Sound(a)'
    BY <1>1 DEF LauncherInv, LauncherType, Sound
<1>4. PubInv'
    BY <1>1, <1>3 DEF LauncherInv, PubInv, Registered
<1>5. WholeInv'
    BY <1>1, <1>3 DEF LauncherInv, WholeInv, Onboarding
<1>6. FilesInv'
    BY <1>1, <1>3 DEF LauncherInv, FilesInv
<1>7. ASSUME NEW b \in Agent \ {a}
      PROVE  (RotatesFiles(b) => RotatesFiles(b)') /\ (HasFiles(b)' => HasFiles(b))
    BY <1>1, <1>3 DEF RotatesFiles, HasFiles
<1>8. SeedInv'
    BY <1>1, <1>3, <1>7 DEF LauncherInv, SeedInv
<1>9. AgreeInv'
    BY <1>1, <1>3 DEF LauncherInv, AgreeInv
<1>10. IdentityFits'
    <2> SUFFICES ASSUME NEW b \in Agent, cont'[b].state = "running", ~rotated'[b], ~raced'[b]
                 PROVE  cont'[b].key = pub'[b]
        BY DEF IdentityFits
    <2>1. CASE b = a
        BY <1>1, <1>3, <2>1 DEF LauncherInv, PubInv
    <2>2. CASE b # a
        BY <1>1, <1>3, <2>2 DEF LauncherInv, IdentityFits
    <2> QED BY <2>1, <2>2
<1> QED BY <1>2, <1>4, <1>5, <1>6, <1>8, <1>9, <1>10 DEF LauncherInv

LEMMA CutFilesType ==
    ASSUME LauncherType, NEW r \in Req, CutFiles(r)
    PROVE  /\ seed' \in [Agent -> Keys] /\ pubFile' \in [Agent -> Keys]
           /\ \A b \in Agent \ {For[r]} : seed'[b] = seed[b] /\ pubFile'[b] = pubFile[b]
<1> DEFINE a == For[r]
<1>1. a \in Agent /\ seed[a] \in Keys /\ pubFile[a] \in Keys /\ Broken \in Keys
      /\ key[r].seed \in Keys /\ key[r].pub \in Keys
    BY LauncherAssumption DEF LauncherType, Keys, Pairs
<1>2. PICK f \in {<<seed[a], pubFile[a]>>, <<Broken, pubFile[a]>>, <<key[r].seed, pubFile[a]>>,
                  <<key[r].seed, Broken>>, <<key[r].seed, key[r].pub>>} :
        seed' = [seed EXCEPT ![a] = f[1]] /\ pubFile' = [pubFile EXCEPT ![a] = f[2]]
    BY DEF CutFiles
<1>3. f[1] \in Keys /\ f[2] \in Keys
    BY <1>1
<1> QED BY <1>1, <1>2, <1>3 DEF LauncherType

\* Files are written completely, with the registered key if nothing has gone wrong; or not.
LEMMA WriteFilesInv == ASSUME LauncherInv, NEW r \in Req, WriteFiles(r) PROVE LauncherInv'
<1> USE LauncherAssumption
<1> DEFINE a == For[r]
<1>1. /\ at[r] = "files" /\ a \in Agent /\ key[r].seed \in Keys /\ key[r].pub \in Keys
      /\ UNCHANGED <<key, pub, raced, rotated, cont>>
    BY DEF WriteFiles, LauncherInv, LauncherType, Pairs
<1>2. PICK s \in {"verify", "failed"} :
        /\ at' = [at EXCEPT ![r] = s]
        /\ s = "failed" => CutFiles(r) /\ torn' = [torn EXCEPT ![a] = TRUE]
        /\ s = "verify" =>
             /\ seed' = [seed EXCEPT ![a] = key[r].seed]
             /\ pubFile' = [pubFile EXCEPT ![a] = key[r].pub]
             /\ torn' = [torn EXCEPT ![a] = torn[a] /\ ~(Alone(r) /\ key[r].seed = key[r].pub
                                                         /\ pub[a] = key[r].pub)]
    BY DEF WriteFiles, Goto, Throws
<1>3. /\ seed' \in [Agent -> Keys] /\ pubFile' \in [Agent -> Keys]
      /\ \A b \in Agent \ {a} : seed'[b] = seed[b] /\ pubFile'[b] = pubFile[b]
    BY <1>1, <1>2, CutFilesType DEF LauncherInv, LauncherType
<1>4. torn' \in [Agent -> BOOLEAN] /\ \A b \in Agent \ {a} : torn'[b] = torn[b]
    BY <1>1, <1>2 DEF LauncherInv, LauncherType
<1>5. LauncherType'
    BY <1>1, <1>2, <1>3, <1>4 DEF LauncherInv, LauncherType, States, Ended
<1>6. /\ \A q \in Req \ {r} : at'[q] = at[q]
      /\ at'[r] = s
      /\ \A b \in Agent \ {a} : Sound(b)' = Sound(b)
    BY <1>1, <1>2, <1>4 DEF LauncherInv, LauncherType, Sound
<1>7. ASSUME Sound(a)'
      PROVE  /\ s = "verify" /\ seed'[a] = pub[a] /\ pubFile'[a] = pub[a]
             /\ Sound(a) \/ Alone(r)
    <2>1. s = "verify" /\ seed'[a] = key[r].seed /\ pubFile'[a] = key[r].pub
        BY <1>1, <1>2, <1>7 DEF LauncherInv, LauncherType, Sound
    <2>2. CASE Sound(a)
        BY <1>1, <2>1, <2>2 DEF LauncherInv, WholeInv, FilesInv, Onboarding
    <2>3. CASE ~Sound(a)
        BY <1>1, <1>2, <1>7, <2>1, <2>3 DEF LauncherInv, LauncherType, Sound
    <2> QED BY <2>1, <2>2, <2>3
<1>8. PubInv'
    BY <1>1, <1>2, <1>6 DEF LauncherInv, PubInv, Registered
<1>9. ASSUME NEW q \in Req, Onboarding(q)', Sound(For[q])'
      PROVE  q # r /\ Onboarding(q) /\ Sound(For[q])
    <2>1. q # r /\ Onboarding(q)
        BY <1>2, <1>6, <1>9 DEF Onboarding
    <2> QED BY <1>6, <1>7, <1>9, <2>1 DEF Alone
<1>10. WholeInv'
    <2>1. \A b \in Agent : Sound(b)' => seed'[b] = pubFile'[b]
        BY <1>3, <1>6, <1>7 DEF LauncherInv, WholeInv
    <2>2. \A q \in Req : Onboarding(q)' /\ Sound(For[q])' => key'[q].seed = key'[q].pub
        BY <1>1, <1>9 DEF LauncherInv, WholeInv
    <2> QED BY <2>1, <2>2 DEF WholeInv
<1>11. FilesInv'
    <2> SUFFICES ASSUME NEW q \in Req, at'[q] = "files", Sound(For[q])'
                 PROVE  key'[q].pub = pub'[For[q]]
        BY DEF FilesInv
    <2>1. q # r /\ Sound(For[q])
        BY <1>9 DEF Onboarding
    <2> QED BY <1>1, <1>6, <2>1 DEF LauncherInv, FilesInv
<1>12. SeedInv'
    <2> SUFFICES ASSUME NEW b \in Agent, HasFiles(b)', Sound(b)', ~RotatesFiles(b)'
                 PROVE  seed'[b] = pub'[b]
        BY DEF SeedInv
    <2>1. CASE b = a
        BY <1>1, <1>7, <2>1
    <2>2. CASE b # a
        <3>1. HasFiles(b) /\ ~RotatesFiles(b)
            BY <1>1, <1>6, <2>2 DEF HasFiles, RotatesFiles
        <3> QED BY <1>1, <1>3, <1>6, <2>2, <3>1 DEF LauncherInv, SeedInv
    <2> QED BY <2>1, <2>2
<1>13. AgreeInv'
    BY <1>1, <1>3, <1>6, <1>7 DEF LauncherInv, AgreeInv
<1>14. IdentityFits'
    BY <1>1 DEF LauncherInv, IdentityFits
<1> QED BY <1>5, <1>8, <1>10, <1>11, <1>12, <1>13, <1>14 DEF LauncherInv

\* A request or nobody changes a container of an id that has its files: what it is then is for
\* IdentityFits.
LEMMA ContInv ==
    ASSUME LauncherInv, NEW a \in Agent, NEW c \in Containers,
           HasFiles(a), pub[a] # None,
           \/ UNCHANGED at
           \/ \E r \in Req, s \in {"create", "start", "wait", "failed"} :
                /\ For[r] = a /\ at[r] \in {"create", "start"}
                /\ at' = [at EXCEPT ![r] = s],
           cont' = [cont EXCEPT ![a] = c],
           rotated' \in [Agent -> BOOLEAN],
           \A b \in Agent \ {a} : rotated'[b] = rotated[b],
           UNCHANGED <<key, pub, seed, pubFile, torn, raced>>,
           c.state = "running" /\ ~rotated'[a] /\ ~raced[a] => c.key = pub[a]
    PROVE  LauncherInv'
<1> USE LauncherAssumption
<1>1. /\ cont'[a] = c /\ \A b \in Agent \ {a} : cont'[b] = cont[b]
      /\ at' \in [Req -> States]
      /\ \A q \in Req : \/ at'[q] = at[q]
                        \/ /\ For[q] = a /\ at[q] \in {"create", "start"}
                           /\ at'[q] \in {"create", "start", "wait", "failed"}
    BY DEF LauncherInv, LauncherType, States, Ended
<1>2. \A b \in Agent : Sound(b)' = Sound(b)
    BY DEF Sound
<1>3. LauncherType'
    BY <1>1 DEF LauncherInv, LauncherType
<1>4. PubInv'
    BY <1>1 DEF LauncherInv, PubInv, Registered
<1>5. WholeInv' /\ FilesInv'
    BY <1>1, <1>2 DEF LauncherInv, WholeInv, FilesInv, Onboarding
<1>6. ASSUME NEW b \in Agent
      PROVE  (RotatesFiles(b) => RotatesFiles(b)') /\ (HasFiles(b)' => HasFiles(b))
    BY <1>1, <1>6 DEF RotatesFiles, HasFiles, WithFiles
<1>7. SeedInv'
    BY <1>2, <1>6 DEF LauncherInv, SeedInv
<1>8. AgreeInv'
    BY <1>1, <1>2 DEF LauncherInv, AgreeInv
<1>9. IdentityFits'
    BY <1>1 DEF LauncherInv, IdentityFits
<1> QED BY <1>3, <1>4, <1>5, <1>7, <1>8, <1>9 DEF LauncherInv

\* A failed step of Docker changes nothing.
LEMMA FailedInv ==
    ASSUME LauncherInv, NEW r \in Req, NEW s \in {"wait", "failed"}, at[r] \in {"create", "start"},
           at' = [at EXCEPT ![r] = s], UNCHANGED <<key, identity, cont>>
    PROVE  LauncherInv'
<1>1. key' = [key EXCEPT ![r] = key[r]] /\ key[r] \in Pairs
    BY DEF LauncherInv, LauncherType
<1>2. pub[For[r]] # None
    BY DEF LauncherInv, PubInv, Registered
<1> QED BY <1>1, <1>2, MoveInv DEF States, Ended, Registered, WithFiles

LEMMA CreateInv == ASSUME LauncherInv, NEW r \in Req, Create(r) PROVE LauncherInv'
<1> USE LauncherAssumption
<1>1. /\ at[r] = "create" /\ For[r] \in Agent /\ UNCHANGED <<key, identity>>
      /\ cont[For[r]] \in Containers
      /\ pub[For[r]] # None /\ HasFiles(For[r])
    BY DEF Create, LauncherInv, LauncherType, PubInv, Registered, HasFiles, WithFiles
<1>2. PICK s \in {"start", "failed"} : at' = [at EXCEPT ![r] = s]
    BY DEF Create, Answered, Throws, Goto
<1>3. CASE /\ cont[For[r]].state = "none" /\ Answered(r, "start")
           /\ cont' = [cont EXCEPT ![For[r]] = IF Kind[r] = "claude" THEN ClaudeContainer
                                               ELSE CodexContainer]
    <2> DEFINE c == IF Kind[r] = "claude" THEN ClaudeContainer ELSE CodexContainer
    <2>1. /\ c \in Containers
          /\ c.state # "running"
        BY DEF ClaudeContainer, CodexContainer, Keys, Containers
    <2>2. cont' = [cont EXCEPT ![For[r]] = c]
        BY <1>3
    <2> HIDE DEF c
    <2>3. UNCHANGED <<pub, seed, pubFile, torn, raced, rotated>> /\ rotated \in [Agent -> BOOLEAN]
        BY <1>1 DEF identity, LauncherInv, LauncherType
    <2> QED BY <1>1, <1>2, <2>1, <2>2, <2>3, ContInv
<1>4. CASE UNCHANGED cont /\ at' = [at EXCEPT ![r] = "failed"]
    BY <1>1, <1>4, FailedInv
<1> QED BY <1>3, <1>4 DEF Create, Throws, Goto

\* A process that begins while nobody rotates its key reads the registered seed.
LEMMA BeginsInv ==
    ASSUME LauncherInv, NEW a \in Agent, HasFiles(a), pub[a] # None, Begins(a),
           \/ UNCHANGED at
           \/ \E r \in Req, s \in {"create", "start", "wait", "failed"} :
                /\ For[r] = a /\ at[r] \in {"create", "start"}
                /\ at' = [at EXCEPT ![r] = s],
           UNCHANGED <<key, pub, seed, pubFile, torn, raced>>
    PROVE  LauncherInv'
<1> DEFINE c == [cont[a] EXCEPT !.state = "running", !.key = seed[a]]
<1>1. seed[a] \in Keys /\ cont \in [Agent -> Containers] /\ rotated \in [Agent -> BOOLEAN]
      /\ torn[a] \in BOOLEAN
    BY DEF LauncherInv, LauncherType
<1>2. c \in Containers /\ c.key = seed[a]
    BY <1>1 DEF Containers
<1>3. cont' = [cont EXCEPT ![a] = c]
    BY <1>1 DEF Begins
<1> HIDE DEF c
<1>4. /\ rotated' \in [Agent -> BOOLEAN]
      /\ \A b \in Agent \ {a} : rotated'[b] = rotated[b]
      /\ rotated'[a] = (Rotating(a) \/ torn[a])
    BY <1>1 DEF Begins, Rotating
<1>5. RotatesFiles(a) => Rotating(a)
    BY DEF RotatesFiles, Rotating, Onboarding
<1>6. ~rotated'[a] /\ ~raced[a] => c.key = pub[a]
    BY <1>2, <1>4, <1>5 DEF LauncherInv, SeedInv, Sound
<1> QED BY <1>2, <1>3, <1>4, <1>6, ContInv

LEMMA StartInv == ASSUME LauncherInv, NEW r \in Req, Start(r) PROVE LauncherInv'
<1> USE LauncherAssumption
<1>1. /\ at[r] = "start" /\ For[r] \in Agent /\ UNCHANGED <<key, pub, seed, pubFile, torn, raced>>
      /\ pub[For[r]] # None /\ HasFiles(For[r])
    BY DEF Start, LauncherInv, LauncherType, PubInv, Registered, HasFiles, WithFiles
<1>2. PICK s \in {"wait", "failed"} : at' = [at EXCEPT ![r] = s]
    BY DEF Start, Answered, Throws, Goto
<1>3. CASE UNCHANGED <<cont, rotated>>
    BY <1>1, <1>2, <1>3, FailedInv DEF identity
<1>4. CASE Begins(For[r])
    BY <1>1, <1>2, <1>4, BeginsInv
<1> QED BY <1>3, <1>4 DEF Start

LEMMA CrashInv == ASSUME LauncherInv, LauncherCrash PROVE LauncherInv'
<1> USE LauncherAssumption
<1> DEFINE dies(r) == Kind[r] # "rotate" /\ at[r] \notin {"idle"} \cup Ended
<1>1. /\ at' = [r \in Req |-> IF ~dies(r) THEN at[r]
                              ELSE IF at[r] = "register" THEN "lost" ELSE "failed"]
      /\ torn' = [b \in Agent |->
                    torn[b] \/ \E r \in Req : For[r] = b /\ dies(r) /\ at[r] = "files"]
      /\ UNCHANGED <<key, pub, raced, rotated, cont>>
      /\ \/ UNCHANGED <<seed, pubFile>>
         \/ \E r \in Req : dies(r) /\ at[r] = "files" /\ CutFiles(r)
    BY DEF LauncherCrash
<1>2. /\ at' \in [Req -> States]
      /\ \A r \in Req : at'[r] = at[r] \/ (at[r] = "register" /\ at'[r] = "lost")
                        \/ (at'[r] = "failed" /\ ~(Kind[r] = "rotate"))
      /\ \A r \in Req : at[r] = "files" /\ at'[r] # "files" => dies(r)
    BY <1>1 DEF LauncherInv, LauncherType, States, Ended
<1>3. /\ torn' \in [Agent -> BOOLEAN]
      /\ \A b \in Agent : torn[b] => torn'[b]
      /\ \A r \in Req : dies(r) /\ at[r] = "files" => torn'[For[r]]
    BY <1>1 DEF LauncherInv, LauncherType
<1> HIDE DEF dies
<1>4. /\ seed' \in [Agent -> Keys] /\ pubFile' \in [Agent -> Keys]
      /\ \A b \in Agent : ~torn'[b] => seed'[b] = seed[b] /\ pubFile'[b] = pubFile[b]
    <2>1. CASE UNCHANGED <<seed, pubFile>>
        BY <2>1 DEF LauncherInv, LauncherType
    <2>2. ASSUME NEW r \in Req, dies(r), at[r] = "files", CutFiles(r)
          PROVE  <1>4!:
        BY <1>3, <2>2, CutFilesType DEF LauncherInv
    <2> QED BY <1>1, <2>1, <2>2
<1>5. LauncherType'
    BY <1>1, <1>2, <1>3, <1>4 DEF LauncherInv, LauncherType
<1>6. ASSUME NEW b \in Agent, Sound(b)'
      PROVE  /\ Sound(b) /\ seed'[b] = seed[b] /\ pubFile'[b] = pubFile[b]
             /\ \A r \in Req : For[r] = b /\ at[r] = "files" => at'[r] = "files"
    BY <1>1, <1>2, <1>3, <1>4, <1>6 DEF Sound
<1>7. PubInv'
    BY <1>1, <1>2 DEF LauncherInv, PubInv, Registered
<1>8. WholeInv'
    BY <1>1, <1>2, <1>6 DEF LauncherInv, WholeInv, Onboarding
<1>9. FilesInv'
    BY <1>1, <1>2, <1>6 DEF LauncherInv, FilesInv
<1>10. SeedInv'
    <2> SUFFICES ASSUME NEW b \in Agent, HasFiles(b)', Sound(b)', ~RotatesFiles(b)'
                 PROVE  seed'[b] = pub'[b]
        BY DEF SeedInv
    <2>1. HasFiles(b) /\ ~RotatesFiles(b)
        BY <1>1, <1>2, <1>6 DEF HasFiles, RotatesFiles, WithFiles
    <2> QED BY <1>1, <1>6, <2>1 DEF LauncherInv, SeedInv
<1>11. AgreeInv'
    BY <1>1, <1>6 DEF LauncherInv, AgreeInv
<1>12. IdentityFits'
    BY <1>1 DEF LauncherInv, IdentityFits
<1> QED BY <1>5, <1>7, <1>8, <1>9, <1>10, <1>11, <1>12 DEF LauncherInv

\* Containers come and go on their own, and the orchestrator stops them.
LEMMA StoppedInv ==
    ASSUME LauncherInv, UNCHANGED <<at, key, identity>>,
           UNCHANGED cont \/ \E a \in Agent : Stopped(a)
    PROVE  LauncherInv'
<1> USE LauncherAssumption
<1>1. UNCHANGED <<at, key, pub, seed, pubFile, torn, raced, rotated>>
    BY DEF identity
<1>2. /\ cont' \in [Agent -> Containers]
      /\ \A a \in Agent : /\ cont'[a].state = "running" => cont[a].state = "running"
                          /\ cont'[a].state # "none" => cont[a].state # "none"
                          /\ cont'[a].key = cont[a].key
    <2>1. CASE UNCHANGED cont
        BY <2>1 DEF LauncherInv, LauncherType
    <2>2. ASSUME NEW a \in Agent, Stopped(a)
          PROVE <1>2!:
        <3> DEFINE c == [cont[a] EXCEPT !.state = IF @ = "running" THEN "stopped" ELSE @]
        <3>1. cont \in [Agent -> Containers]
            BY DEF LauncherInv, LauncherType
        <3>2. cont' = [cont EXCEPT ![a] = c]
            BY <2>2, <3>1 DEF Stopped
        <3>3. /\ c \in Containers
              /\ c.state # "running" /\ (c.state # "none" => cont[a].state # "none")
              /\ c.key = cont[a].key
            BY <3>1 DEF Containers
        <3> HIDE DEF c
        <3> QED BY <3>1, <3>2, <3>3
    <2> QED BY <2>1, <2>2
<1>3. \A a \in Agent : Sound(a)' = Sound(a)
    BY <1>1 DEF Sound
<1>4. LauncherType'
    BY <1>1, <1>2 DEF LauncherInv, LauncherType
<1>5. PubInv' /\ WholeInv' /\ FilesInv'
    BY <1>1, <1>2, <1>3 DEF LauncherInv, PubInv, WholeInv, FilesInv, Onboarding
<1>6. AgreeInv' /\ IdentityFits'
    BY <1>1, <1>2, <1>3 DEF LauncherInv, AgreeInv, IdentityFits
<1>7. \A a \in Agent : (RotatesFiles(a) => RotatesFiles(a)') /\ (HasFiles(a)' => HasFiles(a))
    BY <1>1, <1>2 DEF RotatesFiles, HasFiles
<1>8. SeedInv'
    BY <1>1, <1>3, <1>7 DEF LauncherInv, SeedInv
<1> QED BY <1>4, <1>5, <1>6, <1>8 DEF LauncherInv

\* A container that ends, stopped or begun again.
LEMMA AgentDownInv == ASSUME LauncherInv, NEW a \in Agent, AgentDown(a) PROVE LauncherInv'
<1>1. UNCHANGED <<at, key, pub, seed, pubFile, torn, raced>> /\ cont[a].state = "running"
    BY DEF AgentDown
<1>2. CASE Stopped(a) /\ UNCHANGED rotated
    BY <1>1, <1>2, StoppedInv DEF identity
<1>3. CASE Begins(a)
    BY <1>1, <1>3, BeginsInv DEF HasFiles, LauncherInv, PubInv
<1> QED BY <1>2, <1>3 DEF AgentDown

LEMMA LaunchingInv == ASSUME LauncherInv, NEW r \in Req, Launching(r) PROVE LauncherInv'
BY RegisterInv, LookInv, WriteFilesInv, CreateInv, StartInv DEF Launching

-----------------------------------------------------------------------------
(* The plan. *)

\* A canary has one agent or two, under different ids.
LEMMA CanaryFacts ==
    ASSUME NEW s \in FleetSpec
    PROVE  LET c == CanaryRun(s).agents
           IN  /\ Len(c) \in {1, 2}
               /\ \A i \in 1 .. Len(c) : c[i].id = CanaryId[i]
<1> DEFINE n == Len(s.agents)
           first(P(_)) == LET i == {k \in 1 .. n : P(k)}
                          IN  IF i = {} THEN 0 ELSE CHOOSE k \in i : \A l \in i : k <= l
           m == first(LAMBDA k : s.agents[k].role = "manager")
           manager == IF m # 0 THEN m ELSE 1
           w == first(LAMBDA k : k # manager /\ s.agents[k].role # "manager")
           worker == IF w # 0 THEN w ELSE first(LAMBDA k : k # manager)
           as(k, i, role) ==
            [id |-> CanaryId[i], role |-> role, runtime |-> s.agents[k].runtime,
             provider |-> s.agents[k].provider, thread |-> s.agents[k].thread,
             cwd |-> s.agents[k].cwd, task |-> s.agents[k].task]
<1>1. CanaryOf(s) = [s EXCEPT !.agents = IF worker = 0 THEN <<as(manager, 1, "manager")>>
                             ELSE <<as(manager, 1, "manager"), as(worker, 2, "worker")>>]
    BY Zenon DEF CanaryOf
<1> HIDE DEF manager, worker, m, w, first
<1>2. CanaryRun(s).agents = IF worker = 0 THEN <<as(manager, 1, "manager")>>
                             ELSE <<as(manager, 1, "manager"), as(worker, 2, "worker")>>
    BY <1>1 DEF CanaryRun, FleetSpec
<1> QED BY <1>2

LEMMA PlanFacts ==
    ASSUME load \in 1 .. Len(Loads)
    PROVE  /\ Len(Plan) \in Nat
           /\ \A i \in 1 .. Len(Plan) : Plan[i].id \in Agent
           /\ Valid(opt.spec) => /\ Len(Plan) # 0
                                 /\ \A i, j \in 1 .. Len(Plan) : Plan[i].id = Plan[j].id => i = j
<1> DEFINE s == IF opt.mode = "canary" THEN CanaryRun(opt.spec) ELSE opt.spec
<1>1. opt \in CommandLine /\ opt.spec \in FleetSpec
    <2>1. opt \in CommandLine
        BY FleetAssumption DEF opt
    <2> QED BY <2>1 DEF CommandLine
<1>2. Plan = [i \in 1 .. Len(s.agents) |->
              LET a == s.agents[i]
              IN  [id |-> a.id, runtime |-> RuntimeOf(s, a), provider |-> ProviderOf(s, a),
                   cwd |-> CwdOf(s, a), write |-> s.write]]
    BY DEF Plan, PlanOf, opt
<1>3. /\ Len(s.agents) \in Nat
      /\ \A i \in 1 .. Len(s.agents) : s.agents[i].id \in Agent
      /\ Valid(opt.spec) => /\ Len(s.agents) # 0
                            /\ \A i, j \in 1 .. Len(s.agents) :
                                 s.agents[i].id = s.agents[j].id => i = j
    <2>1. CASE opt.mode = "canary"
        <3>1. s = CanaryRun(opt.spec)
            BY <2>1
        <3> HIDE DEF s
        <3> DEFINE c == s.agents
        <3>2. Len(c) \in {1, 2} /\ \A i \in 1 .. Len(c) : c[i].id = CanaryId[i]
            BY <1>1, <3>1, CanaryFacts
        <3> HIDE DEF c
        <3>3. \A i \in 1 .. Len(c) : c[i].id = CanaryId[i] /\ i \in {1, 2} /\ CanaryId[i] \in Agent
            BY <3>2, FleetAssumption
        <3>4. \A i, j \in 1 .. Len(c) : c[i].id = c[j].id => i = j
            BY <3>3, FleetAssumption
        <3>5. Len(c) \in Nat /\ Len(c) # 0
            BY <3>2
        <3> QED BY <3>3, <3>4, <3>5 DEF c
    <2>2. CASE opt.mode # "canary"
        <3>1. s = opt.spec /\ s.agents \in Seq(FleetAgentSpec)
            BY <1>1, <2>2 DEF FleetSpec
        <3>2. Len(s.agents) \in Nat /\ \A i \in 1 .. Len(s.agents) : s.agents[i].id \in Agent
            <4> DEFINE c == s.agents
            <4>1. c \in Seq(FleetAgentSpec)
                BY <3>1
            <4> HIDE DEF c
            <4>2. Len(c) \in Nat /\ \A i \in 1 .. Len(c) : c[i] \in FleetAgentSpec
                BY <4>1
            <4>3. Len(c) \in Nat /\ \A i \in 1 .. Len(c) : c[i].id \in Agent
                BY <4>2 DEF FleetAgentSpec
            <4> QED BY <4>3 DEF c
        <3>3. ASSUME Valid(opt.spec)
              PROVE  /\ s.agents # <<>>
                     /\ \A i \in 1 .. Len(s.agents) : \A j \in 1 .. i - 1 :
                          s.agents[j].id # s.agents[i].id
            BY <3>1, <3>3 DEF Valid
        <3> HIDE DEF s
        <3>4. ASSUME Valid(opt.spec), NEW i \in 1 .. Len(s.agents), NEW j \in 1 .. Len(s.agents),
                     s.agents[i].id = s.agents[j].id
              PROVE  i = j
            <4>1. ~(j \in 1 .. i - 1) /\ ~(i \in 1 .. j - 1)
                BY <3>3, <3>4
            <4> QED BY <3>2, <4>1
        <3>5. Valid(opt.spec) => Len(s.agents) # 0
            BY <3>1, <3>3
        <3> QED BY <3>2, <3>4, <3>5
    <2> QED BY <2>1, <2>2
<1> HIDE DEF s
<1>4. Len(Plan) = Len(s.agents) /\ \A i \in 1 .. Len(Plan) : Plan[i].id = s.agents[i].id
    BY <1>2, <1>3
<1> QED BY <1>3, <1>4

LEMMA SamePlan ==
    ASSUME load' = load
    PROVE  opt' = opt /\ Plan' = Plan /\ Ids' = Ids
BY DEF opt, Plan, Ids

-----------------------------------------------------------------------------
(* The run. *)

Early == {"main", "join", "launch", "launching", "presence", "register"}
Sending == {"dispatch", "sending", "unsent"}
Over == {"stop", "leave", "done"}
Replies == [from : Agent, corr : {"this", "old"}, type : {"reply", "msg"}, kind : Answers]
Jobs ==
    [pending : BOOLEAN, request : BOOLEAN, accepted : BOOLEAN,
     terminal : {"none", "cwd_failed"} \cup Answers]

FleetType ==
    /\ load \in 1 .. Len(Loads) /\ pc \in Early \cup Sending \cup {"wait"} \cup Over
    /\ launched \in [Agent -> {"none", "ok", "failed", "presence_timeout"}]
    /\ cwds \subseteq Agent /\ restart \subseteq Agent
    /\ job \in [Agent -> Jobs] /\ gw \in [Agent -> {"none", "sent"} \cup Answers]
    /\ inbox \subseteq Replies /\ bus \in BOOLEAN /\ misled \in BOOLEAN
    /\ result \in {"none", "planned", "invalid", "error", "ok", "failed"}

\* A loop stands at an agent of a valid plan, and starts at the first.
LoopInv ==
    /\ pc \in {"main", "join", "wait"} => next = 1
    /\ pc \notin {"main", "done"} => Valid(opt.spec) /\ next \in 1 .. Len(Plan)
    /\ pc \notin Over => result = "none"

\* No job is out before it is sent.
DispatchInv ==
    /\ pc \in Early => \A a \in Agent : gw[a] = "none"
    /\ pc \in Sending => \A i \in 1 .. Len(Plan) :
         i > next \/ (i = next /\ pc = "dispatch") => gw[Plan[i].id] = "none"

\* A reply to this run, on its way or taken, that says the job is completed is right.
ReplyInv ==
    /\ \A m \in inbox : m.corr = "this" /\ m.kind = "completed" => gw[m.from] = "completed"
    /\ ~misled => \A a \in Agent : job[a].terminal = "completed" => gw[a] = "completed"
    /\ ResultIsFounded

\* A stopped agent stays so: no request that might start it is left.
Down(a) ==
    a \in restart \/ (/\ cont[a].state # "running"
                      /\ \A r \in Req : For[r] = a => ~MayStart(r))
StopInv ==
    opt.stop =>
        /\ pc = "stop" => \A i \in 1 .. Len(Plan) : i < next => Down(Plan[i].id)
        /\ pc \in {"leave", "done"} /\ result \in {"ok", "failed"} =>
             \A i \in 1 .. Len(Plan) : Down(Plan[i].id)

FleetInv == FleetType /\ LoopInv /\ DispatchInv /\ ReplyInv /\ StopInv

LEMMA FleetInvSafe == FleetInv => FleetSafe
BY PlanFacts DEF FleetInv, FleetSafe, ReplyInv, StopInv, StoppedAfterwards, Ids, Down

LEMMA FleetInitInv == Init => FleetInv
<1> SUFFICES ASSUME Init PROVE FleetInv
    OBVIOUS
<1>1. opt \in CommandLine
    BY FleetAssumption DEF Init, opt
<1>2. inbox \subseteq Replies /\ \A m \in inbox : m.corr = "old"
    BY <1>1 DEF Init, CommandLine, Replies
<1>3. FleetType
    BY <1>2 DEF Init, FleetType, Early, Jobs, NoJob
<1>4. LoopInv /\ DispatchInv /\ StopInv
    BY DEF Init, LoopInv, DispatchInv, StopInv, Early, Sending, Over
<1>5. ReplyInv
    BY <1>2 DEF Init, ReplyInv, ResultIsFounded, NoJob
<1> QED BY <1>3, <1>4, <1>5 DEF FleetInv

\* A launcher step starts no container that is down for the run.
LEMMA DownStays ==
    ASSUME LauncherType, load' = load, restart \subseteq restart', NEW a \in Agent, Down(a),
           \/ UNCHANGED <<at, cont>>
           \/ \E r \in Req : Launching(r) \/ (r \in opt.others /\ Arrive(r))
           \/ LauncherCrash \/ \E r \in Req : LateRegister(r)
           \/ UNCHANGED at /\ \E b \in Agent : Stopped(b) \/ AgentDown(b)
    PROVE  Down(a)'
<1> USE LauncherAssumption
<1> SUFFICES ASSUME a \notin restart
             PROVE  /\ cont'[a].state # "running"
                    /\ \A r \in Req : For[r] = a => ~MayStart(r)'
    BY DEF Down
<1>1. cont[a].state # "running" /\ \A r \in Req : For[r] = a => ~MayStart(r)
    BY DEF Down
<1>2. opt' = opt
    BY SamePlan
<1>3. CASE UNCHANGED <<at, cont>>
    BY <1>1, <1>2, <1>3 DEF MayStart
<1>4. ASSUME NEW r \in Req, Launching(r) \/ (r \in opt.others /\ Arrive(r))
      PROVE  cont'[a] = cont[a] /\ \A q \in Req : For[q] = a => at'[q] = at[q]
    <2>1. MayStart(r)
        BY <1>4 DEF Launching, Register, Compare, WriteFiles, Verify, Inspect, Create, Start,
           Record, Arrive, MayStart, Ended
    <2>2. For[r] # a /\ For[r] \in Agent
        BY <1>1, <2>1
    <2>3. \E s : at' = [at EXCEPT ![r] = s]
        BY <1>4 DEF Launching, Register, Compare, WriteFiles, Verify, Inspect, Create, Start,
           Record, Arrive, Answered, Throws, Goto
    <2>4. UNCHANGED cont \/ Create(r) \/ Start(r)
        BY <1>4 DEF Launching, Register, Compare, WriteFiles, Verify, Inspect, Record, Arrive
    <2>5. cont'[a] = cont[a]
        BY <2>2, <2>4 DEF Create, Start, Begins, LauncherType
    <2> QED BY <2>2, <2>3, <2>5 DEF LauncherType
<1>5. CASE LauncherCrash
    <2>1. UNCHANGED cont /\ \A r \in Req : at'[r] = at[r] \/ at'[r] \in {"failed", "lost"}
        BY <1>5 DEF LauncherCrash
    <2> QED BY <1>1, <1>2, <2>1 DEF MayStart, Ended
<1>9. CASE \E r \in Req : LateRegister(r)
    <2>1. UNCHANGED cont /\ \A r \in Req : at'[r] = at[r] \/ at'[r] = "failed"
        BY <1>9 DEF LateRegister, Goto, LauncherType
    <2> QED BY <1>1, <1>2, <2>1 DEF MayStart, Ended
<1>6. ASSUME UNCHANGED at, NEW b \in Agent, Stopped(b) \/ AgentDown(b)
      PROVE  cont'[a].state # "running"
    <2>1. cont \in [Agent -> Containers]
        BY DEF LauncherType
    <2>2. CASE Stopped(b)
        BY <1>1, <2>1, <2>2 DEF Stopped, Containers
    <2>3. CASE cont[b].state = "running" /\ Begins(b)
        BY <1>1, <2>1, <2>3 DEF Begins
    <2> QED BY <1>6, <2>2, <2>3 DEF AgentDown
<1>7. CASE UNCHANGED at /\ \E b \in Agent : Stopped(b) \/ AgentDown(b)
    BY <1>1, <1>2, <1>6, <1>7 DEF MayStart
<1>8. CASE \E r \in Req : Launching(r) \/ (r \in opt.others /\ Arrive(r))
    BY <1>1, <1>2, <1>4, <1>8 DEF MayStart
<1> QED BY <1>3, <1>5, <1>7, <1>8, <1>9

\* What the launcher and the agents' containers do while the run stands.
LEMMA StandInv ==
    ASSUME FleetInv, LauncherType, UNCHANGED fleetVars,
           \/ UNCHANGED <<at, cont>>
           \/ \E r \in Req : Launching(r) \/ (r \in opt.others /\ Arrive(r))
           \/ LauncherCrash \/ \E r \in Req : LateRegister(r)
           \/ UNCHANGED at /\ \E b \in Agent : Stopped(b) \/ AgentDown(b)
    PROVE  FleetInv'
<1>1. /\ UNCHANGED <<load, pc, next, launched, cwds, job, gw, inbox, bus, result, misled, restart>>
      /\ opt' = opt /\ Plan' = Plan /\ Ids' = Ids
    BY SamePlan DEF fleetVars
<1>2. FleetType' /\ LoopInv' /\ DispatchInv'
    BY <1>1 DEF FleetInv, FleetType, LoopInv, DispatchInv
<1>3. ReplyInv'
    BY <1>1 DEF FleetInv, ReplyInv, ResultIsFounded
<1>4. \A a \in Agent : Down(a) => Down(a)'
    BY <1>1, DownStays
<1>5. StopInv'
    BY <1>1, <1>4, PlanFacts DEF FleetInv, FleetType, StopInv
<1> QED BY <1>2, <1>3, <1>5 DEF FleetInv

-----------------------------------------------------------------------------
(* The steps of the run. *)

\* Steps before the jobs go out.
LEMMA EarlyInv ==
    ASSUME FleetInv, Main \/ Join \/ Launch \/ LaunchAnswer \/ WaitPresence
    PROVE  FleetInv'
<1>1. /\ load' = load /\ opt' = opt /\ Plan' = Plan /\ Ids' = Ids
      /\ UNCHANGED <<job, gw, inbox, misled, restart, cwds>>
      /\ pc \in Early /\ result = "none"
    BY SamePlan DEF Main, Join, Launch, LaunchAnswer, WaitPresence, Early, Over, FleetInv, LoopInv
<1>2. Len(Plan) \in Nat /\ (Valid(opt.spec) => Len(Plan) # 0)
    BY PlanFacts DEF FleetInv, FleetType
<1>3. pc # "main" => Id \in Agent /\ next \in 1 .. Len(Plan) /\ Valid(opt.spec)
    BY <1>1, PlanFacts DEF FleetInv, FleetType, LoopInv, Id, Early
<1>4. /\ pc' \in Early \cup {"leave", "done"}
      /\ pc' \in {"leave", "done"} => result' \in {"planned", "invalid", "error"}
      /\ pc' \in Early => result' = result
      /\ pc' \notin {"main", "done"} => Valid(opt.spec) /\ next' \in 1 .. Len(Plan)
      /\ pc' \in {"main", "join", "wait"} => next' = 1
    BY <1>1, <1>2, <1>3 DEF Main, Join, Launch, LaunchAnswer, WaitPresence, Early, Step, StepLaunch,
       FleetInv, LoopInv
<1>5. launched' \in [Agent -> {"none", "ok", "failed", "presence_timeout"}] /\ bus' \in BOOLEAN
    BY <1>3 DEF Main, Join, Launch, LaunchAnswer, WaitPresence, Launched, FleetInv, FleetType
<1>6. FleetType'
    BY <1>1, <1>4, <1>5 DEF FleetInv, FleetType, Early, Over
<1>7. LoopInv' /\ DispatchInv'
    BY <1>1, <1>4 DEF FleetInv, LoopInv, DispatchInv, Early, Over, Sending
<1>8. ReplyInv' /\ StopInv'
    BY <1>1, <1>4 DEF FleetInv, ReplyInv, ResultIsFounded, StopInv, Early
<1> QED BY <1>6, <1>7, <1>8 DEF FleetInv

LEMMA RegisterCwdsInv == ASSUME FleetInv, RegisterCwds PROVE FleetInv'
<1>1. /\ load' = load /\ opt' = opt /\ Plan' = Plan /\ Ids' = Ids
      /\ UNCHANGED <<gw, inbox, misled, restart, launched, bus, result>>
      /\ pc = "register" /\ result = "none" /\ next \in 1 .. Len(Plan) /\ Valid(opt.spec)
    BY SamePlan DEF RegisterCwds, FleetInv, LoopInv, Over
<1>2. Len(Plan) \in Nat /\ Id \in Agent
    BY <1>1, PlanFacts DEF FleetInv, FleetType, Id
<1>3. pc' \in {"register", "dispatch"} /\ next' \in 1 .. Len(Plan)
    BY <1>1, <1>2 DEF RegisterCwds, Step
<1>4. /\ cwds' \subseteq Agent /\ job' \in [Agent -> Jobs]
      /\ \A a \in Agent : job'[a].terminal \in {job[a].terminal, "cwd_failed"}
    <2>1. job \in [Agent -> Jobs] /\ cwds \subseteq Agent
        BY DEF FleetInv, FleetType
    <2>2. CASE UNCHANGED job
        BY <1>2, <2>1, <2>2 DEF RegisterCwds
    <2>3. CASE job' = [job EXCEPT ![Id].terminal = "cwd_failed"] /\ UNCHANGED cwds
        BY <1>2, <2>1, <2>3 DEF Jobs
    <2> QED BY <2>2, <2>3 DEF RegisterCwds
<1>5. FleetType'
    BY <1>1, <1>3, <1>4 DEF FleetInv, FleetType, Early, Sending
<1>6. LoopInv' /\ StopInv'
    BY <1>1, <1>3 DEF LoopInv, StopInv, Over
<1>7. DispatchInv'
    BY <1>1, <1>3, PlanFacts DEF FleetInv, FleetType, DispatchInv, Early, Sending
<1>8. ReplyInv'
    BY <1>1, <1>4 DEF FleetInv, ReplyInv, ResultIsFounded
<1> QED BY <1>5, <1>6, <1>7, <1>8 DEF FleetInv

\* A job goes out once, so that none that is done is forgotten.
LEMMA DispatchStepInv == ASSUME FleetInv, Dispatch PROVE FleetInv'
<1>1. /\ load' = load /\ opt' = opt /\ Plan' = Plan /\ Ids' = Ids
      /\ UNCHANGED <<inbox, misled, restart, launched, cwds, bus, result>>
      /\ pc = "dispatch" /\ result = "none" /\ next \in 1 .. Len(Plan) /\ Valid(opt.spec)
    BY SamePlan DEF Dispatch, FleetInv, LoopInv, Over
<1>2. Len(Plan) \in Nat /\ Id \in Agent /\ Id = Plan[next].id
    BY <1>1, PlanFacts DEF FleetInv, FleetType, Id
<1>3. /\ \A i \in 1 .. Len(Plan) : Plan[i].id \in Agent
      /\ \A i, j \in 1 .. Len(Plan) : Plan[i].id = Plan[j].id => i = j
    BY <1>1, PlanFacts DEF FleetInv, FleetType
<1>4. /\ job' \in [Agent -> Jobs] /\ \A a \in Agent : job'[a].terminal = job[a].terminal
      /\ gw' \in [Agent -> {"none", "sent"} \cup Answers]
      /\ \A a \in Agent \ {Id} : gw'[a] = gw[a]
    <2>1. job \in [Agent -> Jobs] /\ gw \in [Agent -> {"none", "sent"} \cup Answers]
        BY DEF FleetInv, FleetType
    <2>2. CASE Id \in cwds
        <3>1. /\ job' = [job EXCEPT ![Id].pending = TRUE]
              /\ gw' = [gw EXCEPT ![Id] = "sent"] \/ gw' = gw
            BY <2>2 DEF Dispatch
        <3>2. job' \in [Agent -> Jobs] /\ \A a \in Agent : job'[a].terminal = job[a].terminal
            BY ZenonT(60), <1>2, <2>1, <3>1 DEF Jobs
        <3>3. /\ gw' \in [Agent -> {"none", "sent"} \cup Answers]
              /\ \A a \in Agent \ {Id} : gw'[a] = gw[a]
            BY <1>2, <2>1, <3>1
        <3> QED BY <3>2, <3>3
    <2>3. CASE Id \notin cwds
        BY <2>1, <2>3 DEF Dispatch
    <2> QED BY <2>2, <2>3
<1>5. /\ pc' \in {"dispatch", "sending", "unsent", "wait"} /\ next' \in 1 .. Len(Plan)
      /\ pc' = "wait" => next' = 1
      /\ pc' = "dispatch" => next' = next + 1 /\ UNCHANGED gw
      /\ pc' \in {"sending", "unsent"} => next' = next
    BY <1>1, <1>2 DEF Dispatch, Step
<1>6. gw[Id] = "none"
    BY <1>1, <1>2 DEF FleetInv, DispatchInv, Sending
<1>7. FleetType'
    BY <1>1, <1>4, <1>5 DEF FleetInv, FleetType, Sending
<1>8. LoopInv' /\ StopInv'
    BY <1>1, <1>5 DEF LoopInv, StopInv, Over
<1>9. DispatchInv'
    <2>1. pc' \notin Early
        BY <1>5 DEF Early
    <2>2. ASSUME NEW i \in 1 .. Len(Plan), i > next' \/ (i = next' /\ pc' = "dispatch"),
                 pc' # "wait"
          PROVE  gw'[Plan[i].id] = "none"
        <3>1. i > next /\ gw[Plan[i].id] = "none"
            BY <1>1, <1>2, <1>5, <2>2 DEF FleetInv, DispatchInv, Sending
        <3>2. Plan[i].id \in Agent \ {Id}
            BY <1>1, <1>2, <1>3, <3>1
        <3> QED BY <1>4, <3>1, <3>2
    <2> QED BY <1>1, <1>5, <2>1, <2>2 DEF DispatchInv, Sending
<1>10. \A a \in Agent : gw[a] = "completed" => gw'[a] = "completed"
    BY <1>4, <1>6
<1>11. ReplyInv'
    BY <1>1, <1>4, <1>10 DEF FleetInv, FleetType, Replies, ReplyInv, ResultIsFounded
<1> QED BY <1>7, <1>8, <1>9, <1>11 DEF FleetInv

LEMMA SentInv == ASSUME FleetInv, Sent PROVE FleetInv'
<1>1. /\ load' = load /\ opt' = opt /\ Plan' = Plan /\ Ids' = Ids
      /\ UNCHANGED <<gw, inbox, misled, restart, launched, cwds, bus, result>>
      /\ pc \in {"sending", "unsent"} /\ result = "none"
      /\ next \in 1 .. Len(Plan) /\ Valid(opt.spec)
    BY SamePlan DEF Sent, FleetInv, LoopInv, Over
<1>2. Len(Plan) \in Nat /\ Id \in Agent
    BY <1>1, PlanFacts DEF FleetInv, FleetType, Id
<1>3. /\ job' \in [Agent -> Jobs]
      /\ \A a \in Agent : job'[a].terminal \in {job[a].terminal, "failed"}
    <2>1. job \in [Agent -> Jobs]
        BY DEF FleetInv, FleetType
    <2>2. CASE pc = "sending"
        BY <1>2, <2>1, <2>2 DEF Sent, Jobs
    <2>3. CASE pc # "sending"
        BY <1>2, <2>1, <2>3 DEF Sent, Jobs, Answers
    <2> QED BY <2>2, <2>3
<1>4. /\ pc' \in {"dispatch", "wait"} /\ next' \in 1 .. Len(Plan)
      /\ pc' = "wait" => next' = 1
      /\ pc' = "dispatch" => next' = next + 1
    BY <1>1, <1>2 DEF Sent
<1>5. FleetType'
    BY <1>1, <1>3, <1>4 DEF FleetInv, FleetType, Sending
<1>6. LoopInv' /\ StopInv'
    BY <1>1, <1>4 DEF LoopInv, StopInv, Over
<1>7. DispatchInv'
    BY <1>1, <1>2, <1>4 DEF FleetInv, DispatchInv, Early, Sending
<1>8. ReplyInv'
    BY <1>1, <1>3 DEF FleetInv, ReplyInv, ResultIsFounded
<1> QED BY <1>5, <1>6, <1>7, <1>8 DEF FleetInv

\* What the agents do keeps to what they were sent.
LEMMA WorkInv ==
    ASSUME FleetInv, NEW a \in Agent, NEW k \in Answers, NEW t \in {"reply", "msg"}, Work(a, k, t)
    PROVE  FleetInv'
<1>1. /\ load' = load /\ opt' = opt /\ Plan' = Plan /\ Ids' = Ids
      /\ UNCHANGED <<pc, next, job, misled, restart, launched, cwds, bus, result>>
      /\ UNCHANGED <<at, cont>>
    BY SamePlan DEF Work, launcherVars
<1>2. /\ gw \in [Agent -> {"none", "sent"} \cup Answers]
      /\ gw' = [gw EXCEPT ![a] = k] /\ gw[a] \in {"sent", "accepted"}
      /\ inbox' = inbox \cup {[from |-> a, corr |-> "this", type |-> t, kind |-> k]}
    BY DEF Work, FleetInv, FleetType
<1>3. FleetType'
    BY <1>1, <1>2 DEF FleetInv, FleetType, Replies
<1>4. LoopInv'
    BY <1>1 DEF FleetInv, LoopInv
<1>5. \A b \in Agent : gw[b] = "none" => gw'[b] = "none"
    BY <1>2
<1>6. DispatchInv'
    BY <1>1, <1>5, PlanFacts DEF FleetInv, FleetType, DispatchInv
<1>7. \A b \in Agent : gw[b] = "completed" => gw'[b] = "completed"
    BY <1>2
<1>8. \A i \in 1 .. Len(Plan) : Plan[i].id \in Agent
    BY PlanFacts DEF FleetInv, FleetType
<1>9. ReplyInv'
    <2>1. ASSUME NEW m \in inbox', m.corr = "this", m.kind = "completed"
          PROVE  gw'[m.from] = "completed"
        <3>1. CASE m \in inbox
            BY <1>7, <2>1, <3>1 DEF FleetInv, FleetType, Replies, ReplyInv
        <3>2. CASE m = [from |-> a, corr |-> "this", type |-> t, kind |-> k]
            BY <1>2, <2>1, <3>2
        <3> QED BY <1>2, <3>1, <3>2
    <2>2. ResultIsFounded'
        BY <1>1, <1>7, <1>8 DEF FleetInv, ReplyInv, ResultIsFounded, Ids
    <2>3. ~misled' => \A b \in Agent : job'[b].terminal = "completed" => gw'[b] = "completed"
        BY <1>1, <1>7 DEF FleetInv, ReplyInv
    <2> QED BY <2>1, <2>2, <2>3 DEF ReplyInv
<1>10. \A b \in Agent : Down(b) => Down(b)'
    BY <1>1 DEF Down, MayStart
<1>11. StopInv'
    BY <1>1, <1>8, <1>10 DEF FleetInv, StopInv
<1> QED BY <1>3, <1>4, <1>6, <1>9, <1>11 DEF FleetInv

\* A reply of this run is right, and one of an earlier run that counts is recorded.
LEMMA ReceiveInv == ASSUME FleetInv, NEW m \in inbox, Receive(m) PROVE FleetInv'
<1>1. /\ load' = load /\ opt' = opt /\ Plan' = Plan /\ Ids' = Ids
      /\ UNCHANGED <<pc, next, gw, restart, launched, cwds, bus, result>>
      /\ UNCHANGED <<at, cont>>
      /\ inbox' = inbox \ {m}
    BY SamePlan DEF Receive, launcherVars
<1>2. m \in Replies /\ job \in [Agent -> Jobs] /\ misled \in BOOLEAN
    BY DEF FleetInv, FleetType
<1>3. m.from \in Agent /\ m.corr \in {"this", "old"} /\ m.type \in {"reply", "msg"}
      /\ m.kind \in Answers
    BY <1>2 DEF Replies
<1>4. /\ job' \in [Agent -> Jobs]
      /\ \A a \in Agent :
           \/ job'[a].terminal = job[a].terminal
           \/ a = m.from /\ Classify(m) /\ job'[a].terminal = m.kind
    <2>1. CASE UNCHANGED job
        BY <1>2, <2>1
    <2>2. CASE /\ Classify(m)
               /\ job' = [job EXCEPT ![m.from] = [@ EXCEPT !.accepted = TRUE]]
        BY <1>2, <1>3, <2>2 DEF Jobs
    <2>3. CASE /\ Classify(m)
               /\ job' = [job EXCEPT ![m.from] = [@ EXCEPT !.terminal = m.kind]]
        BY <1>2, <1>3, <2>3 DEF Jobs
    <2> QED BY <2>1, <2>2, <2>3 DEF Receive
<1>5. misled' \in BOOLEAN /\ (misled => misled')
      /\ (Classify(m) => m.corr = "this" \/ misled')
    BY <1>2, <1>3 DEF Receive, Classify
<1>6. FleetType'
    BY <1>1, <1>4, <1>5 DEF FleetInv, FleetType
<1>7. LoopInv' /\ DispatchInv'
    BY <1>1 DEF FleetInv, LoopInv, DispatchInv
<1>8. ReplyInv'
    <2>1. \A n \in inbox' : n.corr = "this" /\ n.kind = "completed" => gw'[n.from] = "completed"
        BY <1>1 DEF FleetInv, ReplyInv
    <2>2. ASSUME ~misled', NEW a \in Agent, job'[a].terminal = "completed"
          PROVE  gw'[a] = "completed"
        BY <1>1, <1>4, <1>5, <2>2 DEF FleetInv, ReplyInv
    <2>3. ResultIsFounded'
        BY <1>1, <1>5 DEF FleetInv, ReplyInv, ResultIsFounded
    <2> QED BY <2>1, <2>2, <2>3 DEF ReplyInv
<1>9. StopInv'
    BY <1>1 DEF FleetInv, StopInv, Down, MayStart
<1> QED BY <1>6, <1>7, <1>8, <1>9 DEF FleetInv

\* The run is ok only if every job of its plan is done.
LEMMA FinishInv == ASSUME FleetInv, Finish PROVE FleetInv'
<1>1. /\ load' = load /\ opt' = opt /\ Plan' = Plan /\ Ids' = Ids
      /\ UNCHANGED <<next, job, gw, inbox, misled, restart, launched, cwds, bus>>
      /\ pc = "wait" /\ next = 1 /\ Valid(opt.spec) /\ next \in 1 .. Len(Plan)
      /\ pc' \in {"stop", "leave"} /\ (opt.stop => pc' = "stop")
      /\ result' \in {"ok", "failed"}
    BY SamePlan DEF Finish, FleetInv, LoopInv
<1>2. FleetType'
    BY <1>1 DEF FleetInv, FleetType, Over
<1>3. LoopInv' /\ DispatchInv'
    BY <1>1 DEF LoopInv, DispatchInv, Over, Early, Sending
<1>4. Len(Plan) \in Nat /\ \A a \in Ids : a \in Agent
    BY PlanFacts DEF FleetInv, FleetType, Ids
<1>5. ReplyInv'
    <2>1. result' = "ok" => \A a \in Ids : job[a].terminal = "completed"
        BY DEF Finish
    <2> QED BY <1>1, <1>4, <2>1 DEF FleetInv, ReplyInv, ResultIsFounded
<1>6. StopInv'
    BY <1>1, <1>4 DEF StopInv
<1> QED BY <1>2, <1>3, <1>5, <1>6 DEF FleetInv

\* An agent that is stopped is down, or noted as one that may not be.
LEMMA StopSessionInv == ASSUME FleetInv, LauncherType, StopSession PROVE FleetInv'
<1>1. /\ load' = load /\ opt' = opt /\ Plan' = Plan /\ Ids' = Ids
      /\ UNCHANGED <<at, job, gw, inbox, misled, launched, cwds, bus, result>>
      /\ pc = "stop" /\ Valid(opt.spec) /\ next \in 1 .. Len(Plan)
    BY SamePlan DEF StopSession, FleetInv, LoopInv
<1>2. Len(Plan) \in Nat /\ Id \in Agent /\ Id = Plan[next].id
      /\ \A i \in 1 .. Len(Plan) : Plan[i].id \in Agent
    BY <1>1, PlanFacts DEF FleetInv, FleetType, Id
<1>3. /\ pc' \in {"stop", "leave"} /\ next' \in 1 .. Len(Plan)
      /\ pc' = "stop" => next' = next + 1
      /\ pc' = "leave" => next = Len(Plan)
    BY <1>1, <1>2 DEF StopSession, Step
<1>4. restart' \subseteq Agent /\ restart \subseteq restart'
    BY <1>2 DEF StopSession, FleetInv, FleetType
<1>5. UNCHANGED cont \/ Stopped(Id)
    BY DEF StopSession
<1>6. PICK b \in Agent : b = Id /\ b = Plan[next].id
    BY <1>2
<1>7. Down(b)'
    <2>1. CASE b \in restart'
        BY <2>1 DEF Down
    <2>2. CASE Stopped(b) /\ b \notin restart'
        <3>1. \A r \in Req : For[r] = b => ~MayStart(r)
            BY <1>6, <2>2 DEF StopSession
        <3>2. cont'[b].state # "running"
            BY <2>2 DEF Stopped, LauncherType, Containers
        <3> QED BY <1>1, <3>1, <3>2 DEF Down, MayStart
    <2> QED BY <1>6, <2>1, <2>2 DEF StopSession
<1>8. \A a \in Agent : Down(a) => Down(a)'
    BY <1>1, <1>2, <1>4, <1>5, DownStays
<1>9. FleetType'
    BY <1>1, <1>3, <1>4 DEF FleetInv, FleetType, Over
<1>10. LoopInv' /\ DispatchInv'
    BY <1>1, <1>3 DEF LoopInv, DispatchInv, Over, Early, Sending
<1>11. ReplyInv'
    BY <1>1 DEF FleetInv, ReplyInv, ResultIsFounded
<1>12. StopInv'
    BY <1>1, <1>2, <1>3, <1>6, <1>7, <1>8 DEF FleetInv, StopInv
<1> QED BY <1>9, <1>10, <1>11, <1>12 DEF FleetInv

LEMMA LeaveInv == ASSUME FleetInv, Leave PROVE FleetInv'
<1>1. /\ load' = load /\ opt' = opt /\ Plan' = Plan /\ Ids' = Ids
      /\ UNCHANGED <<at, cont, next, job, gw, inbox, misled, restart, launched, cwds, result>>
      /\ pc = "leave" /\ pc' = "done" /\ bus' \in BOOLEAN
    BY SamePlan DEF Leave, launcherVars
<1>2. FleetType'
    BY <1>1 DEF FleetInv, FleetType, Over
<1>3. LoopInv' /\ DispatchInv'
    BY <1>1 DEF LoopInv, DispatchInv, Over, Early, Sending
<1>4. ReplyInv' /\ StopInv'
    BY <1>1 DEF FleetInv, ReplyInv, ResultIsFounded, StopInv, Down, MayStart
<1> QED BY <1>2, <1>3, <1>4 DEF FleetInv

-----------------------------------------------------------------------------
(* Theorems. *)

Inv == LauncherInv /\ FleetInv

LEMMA OrchestrateInv == ASSUME Inv, Orchestrate PROVE Inv'
<1>1. FleetInv'
    BY EarlyInv, RegisterCwdsInv, DispatchStepInv, SentInv, FinishInv, StopSessionInv, LeaveInv
       DEF Orchestrate, Inv, LauncherInv
<1>2. pc # "main" /\ pc # "done" => Id \in Agent
    BY PlanFacts DEF Inv, FleetInv, FleetType, LoopInv, Id
<1>3. ASSUME Launch, Arrive(RunReq[Id]) PROVE LauncherInv'
    <2>1. RunReq[Id] \in Req
        BY <1>2, <1>3, FleetAssumption DEF Launch
    <2> QED BY <1>3, <2>1, ArriveInv DEF Inv
<1>4. ASSUME \/ Main \/ Join \/ LaunchAnswer \/ WaitPresence \/ RegisterCwds \/ Dispatch
             \/ Sent \/ Finish \/ Leave \/ (Launch /\ UNCHANGED <<at, key, identity, cont>>)
      PROVE  LauncherInv'
    <2>1. UNCHANGED <<at, key, identity>> /\ UNCHANGED cont
        BY <1>4 DEF Main, Join, LaunchAnswer, WaitPresence, RegisterCwds, Dispatch, Sent, Finish,
           Leave, launcherVars, identity
    <2> QED BY <2>1, StoppedInv DEF Inv
<1>5. ASSUME StopSession PROVE LauncherInv'
    <2>1. UNCHANGED <<at, key, identity>> /\ (UNCHANGED cont \/ Stopped(Id)) /\ Id \in Agent
        BY <1>2, <1>5 DEF StopSession, identity
    <2> QED BY <2>1, StoppedInv DEF Inv
<1>6. Launch => Arrive(RunReq[Id]) \/ UNCHANGED <<at, key, identity, cont>>
    BY DEF Launch
<1>7. LauncherInv'
    BY <1>3, <1>4, <1>5, <1>6 DEF Orchestrate
<1> QED BY <1>1, <1>7 DEF Inv

LEMMA OthersInv == ASSUME Inv, Others PROVE Inv'
<1>1. UNCHANGED fleetVars
    BY DEF Others
<1>2. CASE \E r \in Req : Launching(r) \/ (r \in opt.others /\ Arrive(r))
    <2>1. LauncherInv'
        BY <1>2, LaunchingInv, ArriveInv DEF Inv
    <2>2. FleetInv'
        BY <1>1, <1>2, StandInv DEF Inv, LauncherInv
    <2> QED BY <2>1, <2>2 DEF Inv
<1>3. CASE LauncherCrash \/ \E r \in Req : LateRegister(r)
    BY <1>1, <1>3, CrashInv, LateRegisterInv, StandInv DEF Inv, LauncherInv
<1>4. ASSUME NEW a \in Agent, AgentUp(a) PROVE Inv'
    <2>1. UNCHANGED <<at, key, identity>> /\ UNCHANGED cont
        BY <1>4 DEF AgentUp
    <2>2. LauncherInv'
        BY <2>1, StoppedInv DEF Inv
    <2>3. FleetInv'
        BY <1>1, <2>1, StandInv DEF Inv, LauncherInv
    <2> QED BY <2>2, <2>3 DEF Inv
<1>5. ASSUME NEW a \in Agent, AgentDown(a) PROVE Inv'
    <2>1. UNCHANGED at
        BY <1>5 DEF AgentDown
    <2>2. LauncherInv'
        BY <1>5, AgentDownInv DEF Inv
    <2>3. FleetInv'
        BY <1>1, <1>5, <2>1, StandInv DEF Inv, LauncherInv
    <2> QED BY <2>2, <2>3 DEF Inv
<1> QED BY <1>2, <1>3, <1>4, <1>5 DEF Others

LEMMA NextInv == ASSUME Inv, [Next]_vars PROVE Inv'
<1>1. CASE Orchestrate
    BY <1>1, OrchestrateInv
<1>2. CASE Others
    BY <1>2, OthersInv
<1>3. ASSUME NEW a \in Agent, NEW k \in Answers, NEW t \in {"reply", "msg"}, Work(a, k, t)
      PROVE  Inv'
    <2>1. UNCHANGED <<at, key, identity>> /\ UNCHANGED cont
        BY <1>3 DEF Work, launcherVars, identity
    <2>2. LauncherInv'
        BY <2>1, StoppedInv DEF Inv
    <2>3. FleetInv'
        BY <1>3, WorkInv DEF Inv
    <2> QED BY <2>2, <2>3 DEF Inv
<1>4. ASSUME NEW m \in inbox, Receive(m) PROVE Inv'
    <2>1. UNCHANGED <<at, key, identity>> /\ UNCHANGED cont
        BY <1>4 DEF Receive, launcherVars, identity
    <2>2. LauncherInv'
        BY <2>1, StoppedInv DEF Inv
    <2>3. FleetInv'
        BY <1>4, ReceiveInv DEF Inv
    <2> QED BY <2>2, <2>3 DEF Inv
<1>5. CASE UNCHANGED vars
    <2>1. UNCHANGED <<at, key, identity>> /\ UNCHANGED cont /\ UNCHANGED fleetVars
        BY <1>5 DEF vars, launcherVars, identity
    <2>2. LauncherInv'
        BY <2>1, StoppedInv DEF Inv
    <2>3. FleetInv'
        BY <2>1, StandInv DEF Inv, LauncherInv
    <2> QED BY <2>2, <2>3 DEF Inv
<1> QED BY <1>1, <1>2, <1>3, <1>4, <1>5 DEF Next

THEOREM Invariance == Spec => []Inv
<1>1. Init => Inv
    BY LauncherInitInv, FleetInitInv DEF Init, Inv
<1>2. Inv /\ [Next]_vars => Inv'
    BY NextInv
<1> QED BY <1>1, <1>2, PTL DEF Spec

\* Every variable of the launcher and the orchestrator keeps to its type, whatever is launched.
THEOREM TypeCorrect == Spec => [](LauncherType /\ FleetType)
<1>1. Inv => LauncherType /\ FleetType
    BY DEF Inv, LauncherInv, FleetInv
<1> QED BY <1>1, Invariance, PTL

\* The key a running container signs with and the key files fit the registered key, for any
\* requests, rotations, crashes, failed and late registrations and half-written files
\* (registerPubkey, writeAgentFiles, verifyRoundTrip).
THEOREM LauncherSafeHolds == Spec => []LauncherSafe
<1>1. Inv => LauncherSafe
    BY LauncherInvSafe DEF Inv
<1> QED BY <1>1, Invariance, PTL

\* A run that says ok has had its jobs done, and one with --stop-after leaves nothing running, for
\* any spec, canary, launch backend, replies and requests of others (classifyFleetJobReply,
\* stopFleetSessions).
THEOREM FleetSafeHolds == Spec => []FleetSafe
<1>1. Inv => FleetSafe
    BY FleetInvSafe DEF Inv
<1> QED BY <1>1, Invariance, PTL
=============================================================================
