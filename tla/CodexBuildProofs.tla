-------------------------- MODULE CodexBuildProofs --------------------------
(***************************************************************************)
(* BuildSafe for any number of clients, gateways' jobs, paths and keys, and *)
(* any number of crashes, lost commands and late ones.  Every step either   *)
(* has Redis execute a command (Ran), loses sight of one (Lost) or touches  *)
(* no key but by the passing of time.  For any jobs, sizes and faults, the  *)
(* safety properties of the panel, FusionService.  And, for any requests,   *)
(* sizes of the cache and faults, those of the gateway, CodexGateway.       *)
(***************************************************************************)
EXTENDS MCCodex, Sequences, Integers, FiniteSets, FiniteSetTheorems, SequenceTheorems, TLAPS

ClientPc == ClientCmd \cup {"idle", "built", "absent", "over", "crashed"}
JobPc == JobCmd \cup {"idle", "absent", "granted", "denied"}
CmdOf(p) == IF p \in Client THEN ClientCmd ELSE JobCmd
PcOf(p) == IF p \in Client THEN ClientPc ELSE JobPc

\* A process sends only its own commands, whatever is late on its connection.
ProcInv == \A p \in Proc : pc[p] \in PcOf(p) /\ lag[p] \in CmdOf(p) \cup {None}

\* A score is that of a client whose window on the path is open.
ScoreInv ==
    \A d \in Path : score[d] \in Client =>
        Cwd[score[d]] = d /\ score[d] \in ttl /\ score[d] \notin closed

\* A path that is a member, or about to be, has an expiry or is known to have lost it.
MemberInv == \A d \in Path : d \in member \/ Registering(d) => score[d] # None \/ d \in torn

\* A client that closed its window has nothing left to send.
ClosedInv == \A c \in closed : pc[c] = "over" /\ lag[c] = None

\* A job whose ownership was confirmed owns its key for as long as the key lives, and two such
\* jobs of different requesters were confirmed in different lives of the key.
Held == {"expire", "granted"}
OwnsNow(j) ==
    pc[j] \in Held =>
        /\ conf[j] <= gen[ThreadKey[j]]
        /\ conf[j] = gen[ThreadKey[j]] => owner[ThreadKey[j]] = From[j]
Apart(i, j) ==
    pc[i] \in Held /\ pc[j] \in Held /\ ThreadKey[i] = ThreadKey[j] /\ From[i] # From[j]
        => conf[i] # conf[j]
OwnerInv == \A i \in Job : OwnsNow(i) /\ \A j \in Job : Apart(i, j)

Inv == TypeOK /\ ProcInv /\ ScoreInv /\ MemberInv /\ ClosedInv /\ OwnerInv

LEMMA InvSafe == Inv => BuildSafe
<1> SUFFICES ASSUME Inv PROVE WindowIsBounded /\ OneOwnerPerKey
    BY DEF BuildSafe
<1>1. WindowIsBounded
    <2> SUFFICES ASSUME NEW d \in Path, Registered(d), d \notin torn
                 PROVE  \E c \in Client : Cwd[c] = d /\ Open(c)
        BY DEF WindowIsBounded
    <2>1. score[d] \in Client
        BY DEF Inv, MemberInv, TypeOK, Registered
    <2> QED BY <2>1 DEF Inv, ScoreInv, Open
<1>2. OneOwnerPerKey
    BY DEF Inv, OwnerInv, Apart, Held, OneOwnerPerKey
<1> QED BY <1>1, <1>2

LEMMA InitInv == Init => Inv
<1> SUFFICES ASSUME Init PROVE Inv
    OBVIOUS
<1>1. \A p \in Proc : pc[p] \in {"idle", "absent"} /\ lag[p] = None
    BY DEF Init
<1>2. None \notin Client
    BY BuildAssumption
<1>3. TypeOK
    <2>1. pc \in [Proc -> {"idle", "absent"}]
        BY DEF Init
    <2>2. MaxFault \in Nat /\ MaxExpiry \in Nat
        BY BuildAssumption
    <2> QED BY <2>1, <2>2 DEF Init, TypeOK, End
<1>4. ProcInv
    BY <1>1 DEF ProcInv, PcOf, ClientPc, JobPc
<1>5. ScoreInv /\ ClosedInv
    BY <1>2 DEF Init, ScoreInv, ClosedInv
<1>6. MemberInv
    BY <1>1 DEF Init, MemberInv, Registering, Proc, None
<1>7. OwnerInv
    BY <1>1 DEF OwnerInv, OwnsNow, Apart, Held, Proc
<1> QED BY <1>3, <1>4, <1>5, <1>6, <1>7 DEF Inv

-----------------------------------------------------------------------------
(* A command is executed. *)

\* How the caller's knowledge of its key may move: it is not confirmed, stays confirmed, or has
\* just seen itself as the owner.
Confirmed(p, w) ==
    \/ w \notin Held /\ \A q \in Job \ {p} : conf'[q] = conf[q]
    \/ w \in Held /\ pc[p] \in Held /\ conf' = conf
    \/ /\ w \in Held /\ p \in Job /\ conf' = [conf EXCEPT ![p] = gen[ThreadKey[p]]]
       /\ owner'[ThreadKey[p]] = From[p]

\* Redis executes command c of p, answered or late, and p goes on with w.
Ran(p, c, w) ==
    /\ c \in {pc[p], lag[p]} /\ c \in CmdOf(p) /\ w \in PcOf(p)
    /\ Writes(p, c)
    /\ pc' = [pc EXCEPT ![p] = w] /\ lag' = [lag EXCEPT ![p] = None]
    /\ w = "sadd" => c = "zadd" \/ pc[p] = "sadd"
    /\ \/ closed' = closed
       \/ c = "zrem" /\ w = "over" /\ p \in Client /\ closed' = closed \cup {p}
    /\ Confirmed(p, w) /\ conf' \in [Job -> Nat]
    /\ UNCHANGED <<gen, ttl, faults>>

LEMMA RanInv == ASSUME Inv, NEW p \in Proc, NEW c, NEW w, Ran(p, c, w) PROVE Inv'
<1> USE BuildAssumption
<1> DEFINE d0 == Cwd[p]
           k0 == ThreadKey[p]
<1>1. /\ c \in {pc[p], lag[p]} /\ c \in CmdOf(p) /\ w \in PcOf(p)
      /\ pc' = [pc EXCEPT ![p] = w] /\ lag' = [lag EXCEPT ![p] = None]
      /\ w = "sadd" => c = "zadd" \/ pc[p] = "sadd"
      /\ conf' \in [Job -> Nat] /\ gen' = gen /\ ttl' = ttl /\ faults' = faults
    BY DEF Ran
<1>2. /\ d0 \in Path /\ (p \in Job => k0 \in Key /\ From[p] \in Requester)
      /\ (p \in Client => p \notin Job) /\ (p \notin Client => p \in Job)
    BY DEF Proc
<1>3. c # "over" /\ c # None
    BY <1>1 DEF CmdOf, ClientCmd, JobCmd, None
<1>4. p \notin closed
    BY <1>1, <1>3 DEF Inv, ClosedInv
<1>5. /\ member' = IF c = "sadd" THEN member \cup {d0}
                   ELSE IF c \in {"srem", "lazySrem"} THEN member \ {d0} ELSE member
      /\ score' = [score EXCEPT ![d0] =
                      IF c = "zadd" THEN (IF p \in ttl THEN p ELSE "past")
                      ELSE IF c = "tomb" THEN "past"
                      ELSE IF c \in {"zrem", "lazyZrem"} THEN None ELSE score[d0]]
      /\ owner' = IF c \in {"setnx", "resetnx"} /\ owner[k0] = None
                  THEN [owner EXCEPT ![k0] = From[p]] ELSE owner
      /\ torn' = IF c = "zadd" THEN torn \ {d0}
                 ELSE IF c \in {"zrem", "lazyZrem"} /\ (d0 \in member \/ Registering(d0))
                      THEN torn \cup {d0} ELSE torn
    BY DEF Ran, Writes
<1>6. p \in Client => c \notin {"setnx", "resetnx"}
    BY <1>1 DEF CmdOf, ClientCmd
<1>7. /\ owner' \in [Key -> Requester \cup {None}]
      /\ \A k \in Key : owner[k] # None => owner'[k] = owner[k]
    BY <1>2, <1>5, <1>6 DEF Inv, TypeOK
<1>8. closed' \subseteq Client
    BY DEF Ran, Inv, TypeOK
<1>9. ProcInv'
    BY <1>1 DEF Inv, TypeOK, ProcInv, CmdOf, PcOf
<1>10. TypeOK'
    <2>1. score' \in [Path -> Client \cup {None, "past"}]
        BY <1>2, <1>5 DEF Inv, TypeOK
    <2>2. member' \subseteq Path /\ torn' \subseteq Path
        BY <1>2, <1>5 DEF Inv, TypeOK
    <2>3. w \in ClientCmd \cup JobCmd \cup {"idle", "built"} \cup End
        BY <1>1 DEF PcOf, ClientPc, JobPc, End
    <2> QED BY <1>1, <1>7, <1>8, <2>1, <2>2, <2>3 DEF Inv, TypeOK
<1>11. ScoreInv'
    <2> SUFFICES ASSUME NEW d \in Path, score'[d] \in Client
                 PROVE  Cwd[score'[d]] = d /\ score'[d] \in ttl /\ score'[d] \notin closed'
        BY <1>1 DEF ScoreInv
    <2>1. CASE d # d0
        <3>1. score'[d] = score[d]
            BY <1>5, <2>1 DEF Inv, TypeOK
        <3>2. score[d] # p
            BY <2>1, <3>1 DEF Inv, ScoreInv
        <3> QED BY <3>1, <3>2 DEF Inv, ScoreInv, Ran
    <2>2. CASE d = d0
        <3>1. c \notin {"tomb", "zrem", "lazyZrem"}
            BY <1>2, <1>5, <2>2 DEF Inv, TypeOK
        <3>2. closed' = closed
            BY <3>1 DEF Ran
        <3>3. CASE c = "zadd"
            <4>1. score'[d] = p /\ p \in ttl
                BY <1>2, <1>5, <2>2, <3>3 DEF Inv, TypeOK
            <4> QED BY <1>4, <2>2, <3>2, <4>1
        <3>4. CASE c # "zadd"
            <4>1. score'[d] = score[d]
                BY <1>2, <1>5, <2>2, <3>1, <3>4 DEF Inv, TypeOK
            <4> QED BY <3>2, <4>1 DEF Inv, ScoreInv
        <3> QED BY <3>3, <3>4
    <2> QED BY <2>1, <2>2
<1>12. MemberInv'
    <2> SUFFICES ASSUME NEW d \in Path, d \in member' \/ Registering(d)'
                 PROVE  score'[d] # None \/ d \in torn'
        BY DEF MemberInv
    <2>1. Registering(d)' => Registering(d) \/ (c = "zadd" /\ d = d0)
        <3> SUFFICES ASSUME NEW q \in Client, Cwd[q] = d, "sadd" \in {pc'[q], lag'[q]}
                     PROVE  Registering(d) \/ (c = "zadd" /\ d = d0)
            BY DEF Registering
        <3>1. q # p => pc'[q] = pc[q] /\ lag'[q] = lag[q]
            BY <1>1 DEF Inv, TypeOK, Proc
        <3>2. q = p => pc'[q] = w /\ lag'[q] = None
            BY <1>1 DEF Inv, TypeOK, Proc
        <3> QED BY <1>1, <3>1, <3>2 DEF Registering, None
    <2>2. d \in member' => d \in member \/ (c = "sadd" /\ d = d0)
        BY <1>5
    <2>3. c = "sadd" => Registering(d0)
        <3>1. c = "sadd" => p \in Client
            BY <1>1 DEF CmdOf, JobCmd
        <3> QED BY <1>1, <3>1 DEF Registering
    <2>4. d \in member \/ Registering(d) \/ (c = "zadd" /\ d = d0)
        BY <2>1, <2>2, <2>3
    <2>5. CASE d # d0
        BY <1>5, <2>4, <2>5 DEF Inv, TypeOK, MemberInv
    <2>6. CASE d = d0 /\ c = "zadd"
        BY <1>2, <1>5, <2>6 DEF Inv, TypeOK, None
    <2>7. CASE d = d0 /\ c \in {"zrem", "lazyZrem"}
        BY <1>5, <2>4, <2>7
    <2>8. CASE d = d0 /\ c \notin {"zadd", "zrem", "lazyZrem"}
        <3>1. score[d] # None \/ d \in torn
            BY <2>4, <2>8 DEF Inv, MemberInv
        <3>2. score'[d] = IF c = "tomb" THEN "past" ELSE score[d]
            BY <1>2, <1>5, <2>8 DEF Inv, TypeOK
        <3>3. torn' = torn
            BY <1>5, <2>8
        <3> QED BY <3>1, <3>2, <3>3 DEF None
    <2> QED BY <2>5, <2>6, <2>7, <2>8
<1>13. ClosedInv'
    <2> SUFFICES ASSUME NEW q \in closed' PROVE pc'[q] = "over" /\ lag'[q] = None
        BY DEF ClosedInv
    <2>1. CASE q = p
        BY <1>1, <1>4, <2>1 DEF Ran, Inv, TypeOK
    <2>2. CASE q # p
        <3>1. q \in closed /\ q \in Proc
            BY <2>2 DEF Ran, Inv, TypeOK, Proc
        <3> QED BY <1>1, <2>2, <3>1 DEF Inv, ClosedInv, TypeOK
    <2> QED BY <2>1, <2>2
<1>14. OwnerInv'
    <2>1. ASSUME NEW j \in Job, pc'[j] \in Held
          PROVE  \/ pc[j] \in Held /\ conf'[j] = conf[j]
                 \/ /\ j = p /\ conf'[p] = gen[k0] /\ owner'[k0] = From[p]
        <3>1. CASE j # p
            <4>1. pc'[j] = pc[j]
                BY <1>1, <3>1 DEF Inv, TypeOK, Proc
            <4>2. conf'[j] = conf[j]
                BY <3>1 DEF Ran, Confirmed, Inv, TypeOK
            <4> QED BY <2>1, <4>1, <4>2
        <3>2. CASE j = p
            <4>1. w \in Held
                BY <1>1, <2>1, <3>2 DEF Inv, TypeOK
            <4> QED BY <3>2, <4>1 DEF Ran, Confirmed, Inv, TypeOK
        <3> QED BY <3>1, <3>2
    <2>2. ASSUME NEW j \in Job, pc'[j] \in Held
          PROVE  /\ conf'[j] <= gen[ThreadKey[j]]
                 /\ conf'[j] = gen[ThreadKey[j]] => owner'[ThreadKey[j]] = From[j]
        <3>1. /\ ThreadKey[j] \in Key /\ From[j] \in Requester /\ None \notin Requester
              /\ gen[ThreadKey[j]] \in Nat
            BY DEF Inv, TypeOK
        <3>2. CASE pc[j] \in Held /\ conf'[j] = conf[j]
            BY <1>7, <3>1, <3>2 DEF Inv, OwnerInv, OwnsNow
        <3>3. CASE j = p /\ conf'[p] = gen[k0] /\ owner'[k0] = From[p]
            BY <3>1, <3>3
        <3> QED BY <2>1, <2>2, <3>2, <3>3
    <2>3. ASSUME NEW i \in Job, NEW j \in Job, pc'[i] \in Held, pc'[j] \in Held,
                 ThreadKey[i] = ThreadKey[j], From[i] # From[j]
          PROVE  conf'[i] # conf'[j]
        <3> SUFFICES ASSUME conf'[i] = conf'[j] PROVE FALSE
            OBVIOUS
        <3>1. CASE pc[i] \in Held /\ conf'[i] = conf[i] /\ pc[j] \in Held /\ conf'[j] = conf[j]
            BY <2>3, <3>1 DEF Inv, OwnerInv, Apart
        <3>2. CASE i = p /\ conf'[p] = gen[k0] /\ owner'[k0] = From[p]
            BY <2>2, <2>3, <3>2
        <3>3. CASE j = p /\ conf'[p] = gen[k0] /\ owner'[k0] = From[p]
            BY <2>2, <2>3, <3>3
        <3> QED BY <2>1, <2>3, <3>1, <3>2, <3>3
    <2> QED BY <1>1, <2>2, <2>3 DEF OwnerInv, OwnsNow, Apart
<1> QED BY <1>9, <1>10, <1>11, <1>12, <1>13, <1>14 DEF Inv

-----------------------------------------------------------------------------
(* A command times out, or no command is involved. *)

\* p goes on with w; of the command it had sent, nothing is known.
Lost(p, w) ==
    /\ pc[p] \notin {"over"} /\ w \in PcOf(p) /\ w # "sadd" /\ w \notin Held
    /\ pc' = [pc EXCEPT ![p] = w]
    /\ \/ lag' = lag
       \/ pc[p] \in CmdOf(p) /\ \E l \in {None, pc[p]} : lag' = [lag EXCEPT ![p] = l]
    /\ ttl \subseteq ttl' /\ ttl' \subseteq Client
    /\ faults' \in 0 .. MaxFault
    /\ UNCHANGED <<registry, keys, closed>>

LEMMA LostInv == ASSUME Inv, NEW p \in Proc, NEW w, Lost(p, w) PROVE Inv'
<1>1. /\ w \in PcOf(p) /\ w # "sadd" /\ w \notin Held /\ p \notin closed
      /\ pc' = [pc EXCEPT ![p] = w]
      /\ UNCHANGED <<member, score, torn, owner, gen, conf, closed>>
    BY DEF Lost, Inv, ClosedInv, registry, keys
<1>lag. \/ lag' = lag
        \/ pc[p] \in CmdOf(p) /\ \E l \in {None, pc[p]} : lag' = [lag EXCEPT ![p] = l]
    BY Zenon DEF Lost
<1>2. ProcInv'
    BY <1>1, <1>lag DEF Inv, TypeOK, ProcInv, CmdOf, PcOf
<1>3. TypeOK'
    <2>1. w \in ClientCmd \cup JobCmd \cup {"idle", "built"} \cup End
        BY <1>1 DEF PcOf, ClientPc, JobPc, End
    <2>2. lag' \in [Proc -> ClientCmd \cup JobCmd \cup {None}]
        BY <1>1, <1>lag DEF CmdOf, Inv, TypeOK
    <2> QED BY <1>1, <2>1, <2>2 DEF Lost, Inv, TypeOK
<1>4. ScoreInv'
    BY <1>1 DEF Lost, Inv, ScoreInv
<1>5. ASSUME NEW d \in Path, Registering(d)' PROVE Registering(d)
    <2>1. PICK q \in Client : Cwd[q] = d /\ "sadd" \in {pc'[q], lag'[q]}
        BY <1>5 DEF Registering
    <2>2. "sadd" \in {pc[q], lag[q]}
        BY <1>1, <1>lag, <2>1 DEF Inv, TypeOK, Proc, None
    <2> QED BY <2>1, <2>2 DEF Registering
<1>6. MemberInv'
    BY <1>1, <1>5 DEF Inv, MemberInv
<1>7. ClosedInv'
    BY <1>1, <1>lag DEF Inv, TypeOK, ClosedInv, Proc
<1>8. OwnerInv'
    <2>1. \A j \in Job : pc'[j] \in Held => pc[j] \in Held
        BY <1>1 DEF Inv, TypeOK, Proc
    <2> QED BY <1>1, <2>1 DEF Inv, OwnerInv, OwnsNow, Apart
<1> QED BY <1>2, <1>3, <1>4, <1>6, <1>7, <1>8 DEF Inv

-----------------------------------------------------------------------------
(* The actions, as commands that ran or were lost. *)

\* An answered command that does not bear on the key, and one that times out.
LEMMA AnswerInv ==
    ASSUME Inv, NEW p \in Proc, NEW c \in CmdOf(p), NEW w \in PcOf(p), OnAnswer(p, c, w),
           w = "sadd" => c = "zadd", w \notin Held,
           UNCHANGED <<gen, ttl, closed, conf>>
    PROVE  Inv'
<1>1. lag' = [lag EXCEPT ![p] = None] /\ conf' \in [Job -> Nat]
    BY DEF OnAnswer, Answered, Inv, TypeOK
<1>2. Ran(p, c, w)
    BY <1>1 DEF Ran, Confirmed, OnAnswer, Answered, Goto
<1> QED BY <1>2, RanInv

LEMMA TimeoutInv ==
    ASSUME Inv, NEW p \in Proc, NEW c \in CmdOf(p), NEW w \in PcOf(p), OnTimeout(p, c, w),
           w # "sadd", w \notin Held, UNCHANGED <<gen, ttl, closed, conf>>
    PROVE  Inv'
<1>1. faults' \in 0 .. MaxFault
    BY BuildAssumption DEF OnTimeout, TimedOut, Inv, TypeOK
<1>2. pc[p] # "over"
    BY DEF OnTimeout, TimedOut, CmdOf, ClientCmd, JobCmd
<1>3. Lost(p, w)
    BY <1>1, <1>2 DEF Lost, OnTimeout, TimedOut, Goto, keys, Inv, TypeOK
<1> QED BY <1>3, LostInv

LEMMA LateInv == ASSUME Inv, NEW p \in Proc, Late(p) PROVE Inv'
<1>1. lag[p] \in CmdOf(p) /\ pc[p] \in PcOf(p)
    BY DEF Late, Inv, ProcInv
<1>2. pc' = [pc EXCEPT ![p] = pc[p]] /\ conf' \in [Job -> Nat]
    BY DEF Late, Inv, TypeOK
<1>3. Ran(p, lag[p], pc[p])
    BY <1>1, <1>2 DEF Ran, Confirmed, Late
<1> QED BY <1>3, RanInv

LEMMA RegisteredInv == ASSUME Inv, NEW p \in Proc, IsRegistered(p) PROVE Inv'
<1> USE DEF CmdOf, PcOf, ClientCmd, JobCmd, ClientPc, JobPc, Held
<1>1. Told(p, TRUE) \in PcOf(p) \ (Held \cup {"sadd"})
    BY DEF Told
<1>2. Told(p, FALSE) \in PcOf(p) \ (Held \cup {"sadd"})
    BY DEF Told
<1>3. CASE Zscore(p)
    BY <1>2, <1>3, AnswerInv, TimeoutInv DEF Zscore
<1>4. CASE LazyRemoval(p)
    BY <1>2, <1>4, AnswerInv, TimeoutInv DEF LazyRemoval
<1>5. CASE Sismember(p)
    <2>1. Told(p, Cwd[p] \in member) \in {Told(p, TRUE), Told(p, FALSE)}
        BY DEF Told
    <2> QED BY <1>1, <1>2, <1>5, <2>1, AnswerInv, TimeoutInv DEF Sismember
<1> QED BY <1>3, <1>4, <1>5 DEF IsRegistered

LEMMA ClientInv ==
    ASSUME Inv, NEW c \in Client, RegisterCwd(c) \/ BuildInput(c) \/ UnregisterCwd(c)
    PROVE  Inv'
<1>1. c \in Proc /\ CmdOf(c) = ClientCmd /\ PcOf(c) = ClientPc
    BY DEF Proc, CmdOf, PcOf
<1>2. CASE RegisterCwd(c)
    BY <1>1, <1>2, AnswerInv, TimeoutInv DEF RegisterCwd, ClientCmd, ClientPc, Held
<1>3. CASE BuildInput(c)
    BY <1>1, <1>3, AnswerInv, TimeoutInv DEF BuildInput, ClientCmd, ClientPc, Held
<1>4. CASE UnregisterCwd(c)
    <2>1. CASE OnAnswer(c, "zrem", "over") /\ closed' = closed \cup {c}
        <3>1. lag' = [lag EXCEPT ![c] = None] /\ conf' \in [Job -> Nat]
            BY <1>4, <2>1 DEF UnregisterCwd, OnAnswer, Answered, Inv, TypeOK
        <3>2. "zrem" \in CmdOf(c) /\ "over" \in PcOf(c) \ Held
            BY <1>1 DEF ClientCmd, ClientPc, Held
        <3>3. Ran(c, "zrem", "over")
            BY <1>4, <2>1, <3>1, <3>2
               DEF UnregisterCwd, Ran, Confirmed, OnAnswer, Answered, Goto
        <3> QED BY <1>1, <3>3, RanInv
    <2>2. CASE OnAnswer(c, "tomb", "srem") /\ UNCHANGED closed
        BY <1>1, <1>4, <2>2, AnswerInv DEF UnregisterCwd, ClientCmd, ClientPc, Held
    <2>3. CASE OnAnswer(c, "srem", "zrem") /\ UNCHANGED closed
        BY <1>1, <1>4, <2>3, AnswerInv DEF UnregisterCwd, ClientCmd, ClientPc, Held
    <2>4. CASE \E s \in {"tomb", "srem", "zrem"} : OnTimeout(c, s, "over") /\ UNCHANGED closed
        BY <1>1, <1>4, <2>4, TimeoutInv DEF UnregisterCwd, ClientCmd, ClientPc, Held
    <2> QED BY <1>4, <2>1, <2>2, <2>3, <2>4 DEF UnregisterCwd
<1> QED BY <1>2, <1>3, <1>4

\* A step of claimThreadKey that is answered: either the job does not get the key, or it saw
\* itself as the owner, or it was already confirmed.
LEMMA ClaimAnswerInv ==
    ASSUME Inv, NEW j \in Job, NEW c \in JobCmd, NEW w \in JobPc, OnAnswer(j, c, w),
           w # "sadd", UNCHANGED <<gen, ttl, closed>>,
           \/ Confirm(j) /\ (w \in Held => owner'[ThreadKey[j]] = From[j])
           \/ UNCHANGED conf /\ pc[j] \in Held
    PROVE  Inv'
<1>1. j \in Proc /\ CmdOf(j) = JobCmd /\ PcOf(j) = JobPc /\ ThreadKey[j] \in Key
    BY BuildAssumption DEF Proc, CmdOf, PcOf
<1>2. lag' = [lag EXCEPT ![j] = None] /\ conf' \in [Job -> Nat]
    BY <1>1 DEF OnAnswer, Answered, Confirm, Inv, TypeOK
<1>3. Confirmed(j, w)
    BY DEF Confirmed, Confirm, Inv, TypeOK
<1>4. Ran(j, c, w)
    BY <1>1, <1>2, <1>3 DEF Ran, OnAnswer, Answered, Goto
<1> QED BY <1>1, <1>4, RanInv

LEMMA ClaimInv == ASSUME Inv, NEW j \in Job, ClaimThreadKey(j) PROVE Inv'
<1> USE DEF JobCmd, JobPc, Held
<1>1. /\ j \in Proc /\ CmdOf(j) = JobCmd /\ PcOf(j) = JobPc /\ ThreadKey[j] \in Key
      /\ UNCHANGED <<gen, ttl, closed>>
    BY BuildAssumption DEF Proc, CmdOf, PcOf, ClaimThreadKey
<1>2. ASSUME NEW c \in {"setnx", "resetnx"}, Writes(j, c), Free(j)
      PROVE  owner'[ThreadKey[j]] = From[j]
    BY <1>1, <1>2 DEF Writes, Free, Inv, TypeOK
<1>3. ASSUME NEW c \in {"get", "reget"}, Writes(j, c), Mine(j)
      PROVE  owner'[ThreadKey[j]] = From[j]
    BY <1>3 DEF Writes, Mine
<1>4. CASE OnAnswer(j, "setnx", IF Free(j) THEN "granted" ELSE "get") /\ Confirm(j)
    BY <1>1, <1>2, <1>4, ClaimAnswerInv DEF OnAnswer, Answered
<1>5. CASE /\ OnAnswer(j, "get", IF Free(j) THEN "resetnx"
                                 ELSE IF Mine(j) THEN "expire" ELSE "denied")
           /\ Confirm(j)
    BY <1>1, <1>3, <1>5, ClaimAnswerInv DEF OnAnswer, Answered
<1>6. CASE OnAnswer(j, "resetnx", IF Free(j) THEN "granted" ELSE "reget") /\ Confirm(j)
    BY <1>1, <1>2, <1>6, ClaimAnswerInv DEF OnAnswer, Answered
<1>7. CASE OnAnswer(j, "reget", IF Mine(j) THEN "expire" ELSE "denied") /\ Confirm(j)
    BY <1>1, <1>3, <1>7, ClaimAnswerInv DEF OnAnswer, Answered
<1>8. CASE OnAnswer(j, "expire", IF Free(j) THEN "denied" ELSE "granted") /\ UNCHANGED conf
    BY <1>1, <1>8, ClaimAnswerInv DEF OnAnswer, Answered
<1>9. CASE \E s \in {"setnx", "get", "resetnx", "reget", "expire"} :
              OnTimeout(j, s, "denied") /\ UNCHANGED conf
    BY <1>1, <1>9, TimeoutInv
<1> QED BY <1>4, <1>5, <1>6, <1>7, <1>8, <1>9 DEF ClaimThreadKey

LEMMA CallerInv ==
    ASSUME Inv, NEW c \in Client, StartBuild(c) \/ FinishBuild(c) \/ Crash(c)
    PROVE  Inv'
<1>1. c \in Proc /\ PcOf(c) = ClientPc /\ faults \in 0 .. MaxFault /\ ttl \subseteq Client
    BY DEF Proc, PcOf, Inv, TypeOK
<1>2. \E w \in {"zadd", "tomb", "crashed"} : Lost(c, w)
    BY <1>1 DEF StartBuild, FinishBuild, Crash, Goto, Lost, ClientPc, ClientCmd, Held
<1> QED BY <1>1, <1>2, LostInv

LEMMA AuthorizeInv == ASSUME Inv, NEW j \in Job, Authorize(j) PROVE Inv'
<1>1. j \in Proc /\ PcOf(j) = JobPc /\ faults \in 0 .. MaxFault /\ ttl \subseteq Client
    BY BuildAssumption DEF Proc, PcOf, Inv, TypeOK
<1>2. \E w \in {"zscore", "denied"} : Lost(j, w)
    BY <1>1 DEF Authorize, Goto, Lost, JobPc, JobCmd, Held
<1> QED BY <1>1, <1>2, LostInv

LEMMA TtlInv == ASSUME Inv, NEW c \in Client, TtlPasses(c) PROVE Inv'
<1> USE BuildAssumption
<1>1. /\ ttl' = ttl \ {c}
      /\ score' = [score EXCEPT ![Cwd[c]] = IF score[Cwd[c]] = c THEN "past" ELSE score[Cwd[c]]]
      /\ UNCHANGED <<member, torn, owner, gen, conf, pc, lag, closed, faults>>
      /\ Cwd[c] \in Path
    BY DEF TtlPasses, keys, Proc
<1>2. TypeOK'
    BY <1>1 DEF Inv, TypeOK
<1>3. ProcInv' /\ ClosedInv' /\ OwnerInv'
    BY <1>1 DEF Inv, ProcInv, ClosedInv, OwnerInv, OwnsNow, Apart
<1>4. ASSUME NEW d \in Path
      PROVE  (score'[d] = score[d] /\ score[d] # c) \/ score'[d] = "past"
    BY <1>1 DEF Inv, TypeOK, ScoreInv
<1>5. ScoreInv'
    BY <1>1, <1>4 DEF Inv, ScoreInv
<1>6. MemberInv'
    BY <1>1, <1>4 DEF Inv, MemberInv, Registering, None
<1> QED BY <1>2, <1>3, <1>5, <1>6 DEF Inv

LEMMA ExpiresInv == ASSUME Inv, NEW k \in Key, KeyExpires(k) PROVE Inv'
<1>1. /\ gen[k] \in Nat /\ gen[k] < MaxExpiry /\ MaxExpiry \in Nat
      /\ owner' = [owner EXCEPT ![k] = None] /\ gen' = [gen EXCEPT ![k] = gen[k] + 1]
      /\ UNCHANGED <<member, score, torn, pc, lag, ttl, closed, conf, faults>>
    BY BuildAssumption DEF KeyExpires, registry, Inv, TypeOK
<1>2. TypeOK'
    BY <1>1 DEF Inv, TypeOK
<1>3. ProcInv' /\ ClosedInv' /\ ScoreInv' /\ MemberInv'
    BY <1>1 DEF Inv, ProcInv, ClosedInv, ScoreInv, MemberInv, Registering
<1>4. ASSUME NEW j \in Job PROVE OwnsNow(j)'
    <2>1. ThreadKey[j] \in Key /\ conf[j] \in Nat /\ gen[ThreadKey[j]] \in Nat
        BY BuildAssumption DEF Inv, TypeOK
    <2>2. CASE ThreadKey[j] = k
        BY <1>1, <2>1, <2>2 DEF Inv, TypeOK, OwnerInv, OwnsNow
    <2>3. CASE ThreadKey[j] # k
        BY <1>1, <2>1, <2>3 DEF Inv, TypeOK, OwnerInv, OwnsNow
    <2> QED BY <2>2, <2>3
<1>5. OwnerInv'
    BY <1>1, <1>4 DEF Inv, OwnerInv, Apart
<1> QED BY <1>2, <1>3, <1>5 DEF Inv

LEMMA StepInv == Inv /\ [Next]_vars => Inv'
<1> SUFFICES ASSUME Inv, [Next]_vars PROVE Inv'
    OBVIOUS
<1>1. ASSUME NEW p \in Proc, Step(p) PROVE Inv'
    BY <1>1, RegisteredInv, LateInv, ClientInv, ClaimInv DEF Step
<1>2. ASSUME NEW c \in Client, StartBuild(c) \/ FinishBuild(c) \/ Crash(c) \/ TtlPasses(c)
      PROVE  Inv'
    BY <1>2, CallerInv, TtlInv
<1>3. CASE UNCHANGED vars
    BY <1>3 DEF vars, Inv, TypeOK, ProcInv, ScoreInv, MemberInv, Registering, ClosedInv, OwnerInv,
                OwnsNow, Apart
<1> QED BY <1>1, <1>2, <1>3, AuthorizeInv, ExpiresInv DEF Next

\* The registry, the owner keys and every process keep their types.
THEOREM TypeCorrect == Spec => []TypeOK
<1>1. Inv => TypeOK
    BY DEF Inv
<1> QED BY <1>1, InitInv, StepInv, PTL DEF Spec

\* A path is writable only inside an open window (unless its expiry was removed behind a
\* registration), and a thread key has one owner at a time, for every set of clients and
\* gateways, however their Redis commands interleave, get lost or come late.
THEOREM BuildSafeHolds == Spec => []BuildSafe
BY InitInv, StepInv, InvSafe, PTL DEF Spec


------------------------------------------------------------------------------
(* FusionService: what a leg can have at each point, which legs are settled when the reply is   *)
(* fitted, and which of its fields are whole or in Redis.                                       *)

\* Where the background handler of a job is, before and after its legs are settled.
FusEarly == {"new", "input", "panel", "judging"}
FusLate == {"fit", "claim", "send", "cleanup", "failing", "done", "failed"}
FusAnswers == {<<>>, <<"text">>, <<"preview">>, <<"failed">>, <<"timeout">>, <<"claim_failed">>,
               <<"rejected">>}

FusType ==
    /\ job \in Jobs /\ fpc \in FusEarly \cup FusLate
    /\ leg \in [Fusion!Leg -> {"off", "build", "send", "sent", "over"}]
    /\ ans \in [Fusion!Leg -> FusAnswers]
    /\ pending \subseteq Fusion!Leg /\ timer \subseteq Fusion!Leg 
    /\ bus \subseteq Fusion!Leg /\ opening \subseteq Fusion!Leg
    /\ took \subseteq Fusion!Leg
    /\ replies \subseteq [leg : Fusion!Leg, kind : {"text", "ref", "failed"}]

\* The reply while its fields are claim-checked.
FusOut == [size : [Fusion!Leg -> Nat], refs : SUBSET Fusion!Leg, todo : SUBSET Fusion!Leg,
           cut : SUBSET Fusion!Leg]

\* A leg that has not begun has nothing; one that is pending has no answer; one that took a
\* reply is pending no more, so that its timer finds nothing.
LegInv ==
    \A l \in Fusion!Leg :
        /\ leg[l] = "off" => l \notin pending \cup timer \cup bus \cup opening \cup took
                             /\ ans[l] = <<>>
        /\ l \in pending => ans[l] = <<>>
        /\ l \in opening => l \in took
        /\ l \in took => l \notin pending /\ ans[l] # <<"timeout">>

\* Which legs have begun, and which are settled for good.
PanelInv ==
    /\ fpc \in {"new", "input"} => \A l \in Fusion!Leg : leg[l] = "off"
    /\ fpc = "panel" => leg["judge"] = "off"
    /\ fpc = "judging" => Fusion!Resolved("opus") /\ Fusion!Resolved("gpt")
    /\ fpc \in FusLate => \A l \in Fusion!Leg : leg[l] = "off" \/ Fusion!Resolved(l)

\* A field that is not whole has its blob or the one truncation, as far as the fitting has come;
\* while the reply is fitted the blobs are those it refers to, and every other one is accounted for.
FitInv ==
    /\ orphans \subseteq unput
    /\ fpc \in FusEarly \cup {"fit"} => blobs = {}
    /\ fpc \in {"claim", "send", "cleanup"} => blobs = reply.refs
    /\ fpc = "claim" =>
          /\ reply \in FusOut /\ reply.cut = {}
          /\ reply.todo \subseteq Fusion!fields
          /\ \A l \in Fusion!Leg : reply.size[l] = Fusion!sizeOf(l) \/ l \in reply.refs
          /\ \A l \in Fusion!fields : l \in reply.todo \cup reply.refs \cup unput
    /\ fpc \in {"send", "done"} =>
          \A l \in Fusion!Leg : reply.size[l] < Fusion!sizeOf(l) =>
              l \in reply.refs \cap blobs \/ (l \in unput /\ reply.cut = {l})
    /\ fpc \in {"failing", "failed"} => blobs \subseteq undel

\* What the requester has of the answer, if no send came out otherwise than it said.
SentInv ==
    /\ fpc \in FusEarly \cup {"fit", "claim", "send"} => sent = <<>> /\ ~doubt
    /\ fpc = "done" => sent = <<"reply">>
    /\ ~doubt => /\ fpc \in {"cleanup", "failing"} => sent = <<>>
                 /\ fpc = "failed" => sent = <<"failed">>

FusInv == FusType /\ LegInv /\ PanelInv /\ FitInv /\ SentInv

\* A nonempty set of fields has a largest one.
LEMMA LargestIn ==
    ASSUME NEW size \in [Fusion!Leg -> Nat], NEW S \in SUBSET Fusion!Leg, S # {}
    PROVE  Fusion!largest(size, S) \in S
  <1> DEFINE rank == [judge |-> 1, opus |-> 2, gpt |-> 3]
             Above(f, g) == size[f] > size[g] \/ (size[f] = size[g] /\ rank[f] < rank[g])
  <1>1. \A f, g \in Fusion!Leg : f # g => Above(f, g) \/ Above(g, f)
    BY DEF Fusion!Leg
  <1>2. \A f, g, h \in Fusion!Leg : Above(f, g) /\ Above(g, h) => Above(f, h)
    BY DEF Fusion!Leg
  <1>3. \E f \in S : \A g \in S \ {f} : Above(f, g)
    <2> HIDE DEF Above, rank
    <2>1. \A f, g \in Fusion!Leg : \E h \in {f, g} : (f = h \/ Above(h, f)) /\ (g = h
             \/ Above(h, g))
      BY <1>1
    <2>2. CASE \E f, g \in Fusion!Leg : S = {f, g}
      BY <2>1, <2>2
    <2>3. CASE S = Fusion!Leg
      <3>1. PICK h \in {"opus", "gpt"} :
              ("opus" = h \/ Above(h, "opus")) /\ ("gpt" = h \/ Above(h, "gpt"))
        BY <2>1 DEF Fusion!Leg
      <3>2. CASE Above(h, "judge")
        BY <2>3, <3>1, <3>2 DEF Fusion!Leg
      <3>3. CASE Above("judge", h)
        BY <1>2, <2>3, <3>1, <3>3 DEF Fusion!Leg
      <3> QED
        BY <1>1, <3>1, <3>2, <3>3 DEF Fusion!Leg
    <2>4. S = Fusion!Leg \/ \E f, g \in Fusion!Leg : S = {f, g}
      BY ZenonT(60) DEF Fusion!Leg
    <2> QED
      BY <2>2, <2>3, <2>4
  <1> QED
    BY <1>3 DEF Fusion!largest

LEMMA FusInit == Fusion!FusionAssumption /\ Fusion!Init => FusInv
  BY DEF Fusion!FusionAssumption, Fusion!Init, FusInv, FusType, LegInv, PanelInv, FitInv, SentInv,
         FusEarly, FusLate, FusAnswers, Fusion!Leg, Fusion!Off

\* The steps of a leg, its replies included.
FusLegStep == (\E l \in Fusion!Leg : Fusion!LegStep(l)) \/ \E r \in replies : Fusion!ReplyIn(r)

\* What a reply or its blob makes of a leg is an answer, and no timeout.
FusAnswer(w) == <<w>> \in FusAnswers /\ <<w>> # <<>> /\ <<w>> # <<"timeout">>

LEMMA FusAnswerIs == \A w \in {"text", "preview", "failed"} : FusAnswer(w)
  BY DEF FusAnswer, FusAnswers

LEMMA FusLegType ==
    ASSUME FusInv, FusLegStep
    PROVE  /\ FusType' /\ LegInv'
           /\ UNCHANGED <<job, fpc, reply, blobs, orphans, unput, undel, sent, doubt>>
           /\ \A l \in Fusion!Leg : leg[l] = "off" \/ Fusion!Resolved(l) => leg'[l] = leg[l]
                    /\ ans'[l] = ans[l]
  <1> USE DEF FusInv, FusType, LegInv, Fusion!Resolved, Fusion!outVars, Fusion!blobVars,
          Fusion!sendVars
  <1>1. CASE \E l \in Fusion!Leg : \E ok \in BOOLEAN : Fusion!Built(l, ok)
    BY <1>1 DEF Fusion!Built, Fusion!Fault, FusAnswers
  <1>2. CASE \E l \in Fusion!Leg : \E ok \in BOOLEAN : Fusion!Dispatched(l, ok)
    BY <1>2 DEF Fusion!Dispatched, Fusion!Fault, FusAnswers
  <1>3. CASE \E l \in Fusion!Leg : \E ok \in BOOLEAN : Fusion!Opened(l, ok)
    <2> PICK l \in Fusion!Leg, ok \in BOOLEAN : Fusion!Opened(l, ok)
      BY <1>3
    <2> DEFINE what == IF ok THEN "text" ELSE "preview"
    <2>1. what \in {"text", "preview"}
      OBVIOUS
    <2>2. /\ l \in opening /\ opening' = opening \ {l}
          /\ ans' = IF ans[l] = <<>> THEN [ans EXCEPT ![l] = <<what>>] ELSE ans
          /\ UNCHANGED <<job, fpc, leg, pending, timer, bus, replies, took, reply, blobs>>
          /\ UNCHANGED <<orphans, unput, undel, sent, doubt>>
      BY DEF Fusion!Opened, Fusion!Fault, Fusion!settle
    <2>3. FusAnswer(what)
      BY <2>1, FusAnswerIs
    <2> HIDE DEF what, FusAnswer
    <2>4. FusType'
      BY <2>2, <2>3 DEF FusAnswer
    <2>5. LegInv'
      BY <2>2, <2>3 DEF FusAnswer
    <2> QED
      BY <2>2, <2>4, <2>5
  <1>4. CASE \E l \in Fusion!Leg : Fusion!Publish(l)
    BY <1>4 DEF Fusion!Publish
  <1>5. CASE \E l \in Fusion!Leg : Fusion!Timeout(l)
    BY <1>5 DEF Fusion!Timeout, Fusion!settle, FusAnswers
  <1>6. CASE \E l \in Fusion!Leg : \E what \in {"text", "ref", "failed",
           "lost"} : Fusion!GatewayAnswers(l, what)
    BY <1>6 DEF Fusion!GatewayAnswers, Fusion!Fault
  <1>7. CASE \E r \in replies : Fusion!ReplyIn(r)
    <2> PICK r \in replies : Fusion!ReplyIn(r)
      BY <1>7
    <2>1. r.leg \in Fusion!Leg /\ r.kind \in {"text", "ref", "failed"}
      OBVIOUS
    <2>2. CASE r.leg \notin pending
      BY <2>1, <2>2 DEF Fusion!ReplyIn
    <2>3. CASE r.leg \in pending /\ r.kind = "ref"
      BY <2>1, <2>3 DEF Fusion!ReplyIn
    <2>4. CASE r.leg \in pending /\ r.kind \in {"text", "failed"}
      <3>1. FusAnswer(r.kind)
        BY <2>4, FusAnswerIs
      <3>2. /\ pending' = pending \ {r.leg} /\ took' = took \cup {r.leg} /\ replies' = replies \ {r}
            /\ ans' = [ans EXCEPT ![r.leg] = <<r.kind>>]
            /\ UNCHANGED <<job, fpc, leg, timer, bus, opening, reply, blobs>>
            /\ UNCHANGED <<orphans, unput, undel, sent, doubt>>
        BY <2>4 DEF Fusion!ReplyIn, Fusion!settle
      <3>3. FusType'
        BY <2>1, <3>1, <3>2 DEF FusAnswer
      <3>4. LegInv'
        BY <2>1, <2>4, <3>1, <3>2 DEF FusAnswer
      <3> QED
        BY <2>1, <2>4, <3>2, <3>3, <3>4
    <2> QED
      BY <2>1, <2>2, <2>3, <2>4
  <1> QED
    BY <1>1, <1>2, <1>3, <1>4, <1>5, <1>6, <1>7 DEF FusLegStep, Fusion!LegStep

LEMMA FusLegKeeps == FusInv /\ FusLegStep => FusInv'
  <1> SUFFICES ASSUME FusInv, FusLegStep PROVE FusInv'
    OBVIOUS
  <1>1. /\ FusType' /\ LegInv'
        /\ UNCHANGED <<job, fpc, reply, blobs, orphans, unput, undel, sent, doubt>>
        /\ \A l \in Fusion!Leg : leg[l] = "off" \/ Fusion!Resolved(l) => leg'[l] = leg[l]
                 /\ ans'[l] = ans[l]
    BY FusLegType
  <1>2. PanelInv'
    BY <1>1 DEF FusInv, PanelInv, Fusion!Resolved, Fusion!Leg
  <1>3. SentInv'
    BY <1>1 DEF FusInv, SentInv
  <1>4. fpc \in FusLate => 
        Fusion!fields' = Fusion!fields /\ \A l \in Fusion!Leg : Fusion!sizeOf(l)' = Fusion!sizeOf(l)
    BY <1>1 DEF FusInv, PanelInv, Fusion!fields, Fusion!sizeOf
  <1>5. FitInv'
    BY <1>1, <1>4 DEF FusInv, FusType, FitInv, FusEarly, FusLate
  <1> QED
    BY <1>1, <1>2, <1>3, <1>5 DEF FusInv

\* The handler: it starts the legs, and then looks at them without changing any.
LEMMA FusStarts ==
    ASSUME FusInv, Fusion!Request \/ Fusion!PanelDone \/ Fusion!JudgeDone
             \/ \E ok \in BOOLEAN : Fusion!Input(ok)
    PROVE  FusInv'
  <1> USE DEF FusInv
  <1>1. FusType' /\ LegInv'
    <2>1. \/ UNCHANGED <<leg, pending, timer>>
          \/ \E L \in SUBSET Fusion!Leg : Fusion!Dispatch(L) /\ \A l \in L : leg[l] = "off"
      BY DEF PanelInv, Fusion!Request, Fusion!PanelDone, Fusion!JudgeDone, Fusion!Input,
             Fusion!legVars, Fusion!Leg
    <2>2. /\ UNCHANGED <<job, bus, replies, opening, ans, took, blobs>>
          /\ fpc' \in FusEarly \cup FusLate
      BY DEF FusType, Fusion!Request, Fusion!PanelDone, Fusion!JudgeDone, Fusion!Input,
             Fusion!legVars, Fusion!outVars, Fusion!blobVars, FusEarly, FusLate
    <2>3. CASE UNCHANGED <<leg, pending, timer>>
      BY <2>2, <2>3 DEF FusType, LegInv
    <2>4. CASE \E L \in SUBSET Fusion!Leg : Fusion!Dispatch(L) /\ \A l \in L : leg[l] = "off"
      <3> PICK L \in SUBSET Fusion!Leg : Fusion!Dispatch(L) /\ \A l \in L : leg[l] = "off"
        BY <2>4
      <3>1. FusType'
        BY <2>2 DEF FusType, Fusion!Dispatch
      <3>2. LegInv'
        BY <2>2 DEF FusType, LegInv, Fusion!Dispatch
      <3> QED
        BY <3>1, <3>2
    <2> QED
      BY <2>1, <2>3, <2>4
  <1>2. PanelInv'
    BY DEF FusType, PanelInv, Fusion!Resolved, Fusion!Request, Fusion!PanelDone, Fusion!JudgeDone,
           Fusion!Input, Fusion!Dispatch, Fusion!legVars, FusEarly, FusLate, Fusion!Leg
  <1>3. FitInv' /\ SentInv'
    BY DEF FusType, FitInv, SentInv, Fusion!Request, Fusion!PanelDone, Fusion!JudgeDone,
           Fusion!Input, Fusion!outVars, Fusion!blobVars, Fusion!sendVars, FusEarly, FusLate
  <1> QED
    BY <1>1, <1>2, <1>3

LEMMA SizeIsNat == ASSUME Fusion!FusionAssumption,
         FusType PROVE \A l \in Fusion!Leg : Fusion!sizeOf(l) \in Nat
  <1> SUFFICES ASSUME NEW l \in Fusion!Leg PROVE Fusion!sizeOf(l) \in Nat
    OBVIOUS
  <1>1. job.size[l] \in Nat
    BY DEF Fusion!FusionAssumption, FusType
  <1>2. Fusion!Min({1, job.size[l]}) \in Nat
    BY <1>1 DEF Fusion!Min
  <1> QED
    BY <1>1, <1>2 DEF Fusion!sizeOf

LEMMA FusFits ==
    ASSUME Fusion!FusionAssumption, FusInv,
           \/ Fusion!Measure \/ Fusion!Truncate \/ Fusion!Cleanup
           \/ \E ok \in BOOLEAN : Fusion!Claim(ok) \/ Fusion!Failed(ok)
           \/ \E how \in {"accepted", "refused", "stored"} : Fusion!Reply(how)
    PROVE  FusInv'
  <1> USE DEF FusInv
  <1>0. UNCHANGED <<job, leg, pending, timer, bus, replies, opening, ans, took>>
    BY DEF Fusion!Measure, Fusion!Truncate, Fusion!Cleanup, Fusion!Failed, Fusion!Claim,
           Fusion!Reply, Fusion!legVars
  <1>1. Fusion!fields' = Fusion!fields /\ \A l \in Fusion!Leg : Fusion!sizeOf(l)' = Fusion!sizeOf(l)
    BY <1>0 DEF Fusion!fields, Fusion!sizeOf
  <1>2. Fusion!fields \subseteq Fusion!Leg /\ \A l \in Fusion!Leg : Fusion!sizeOf(l) \in Nat
    BY SizeIsNat DEF Fusion!fields
  <1>3. fpc \in FusLate /\ fpc' \in FusLate
    BY DEF Fusion!Measure, Fusion!Truncate, Fusion!Cleanup, Fusion!Failed, Fusion!Claim,
           Fusion!Reply, FusLate
  <1>4. FusType' /\ LegInv' /\ PanelInv'
    BY <1>0, <1>3 DEF FusType, LegInv, PanelInv, Fusion!Resolved, FusLate
  <1>5. CASE Fusion!Measure
    <2> DEFINE size == [l \in Fusion!Leg |-> Fusion!sizeOf(l)]
               o == [size |-> size, refs |-> {}, todo |-> Fusion!fields, cut |-> {}]
    <2>1. /\ fpc = "fit" /\ UNCHANGED <<blobs, orphans, unput, undel, sent, doubt>>
          /\ \/ reply' = [o EXCEPT !.todo = {}] /\ fpc' = "send"
             \/ reply' = o /\ fpc' = "claim"
      BY <1>5 DEF Fusion!Measure, Fusion!blobVars, Fusion!sendVars
    <2>2. size \in [Fusion!Leg -> Nat] /\ \A l \in Fusion!Leg : size[l] = Fusion!sizeOf(l)
      BY <1>2
    <2> HIDE DEF size
    <2>3. reply'.size = size /\ reply'.refs = {} /\ (fpc' = "claim" => reply' = o)
      BY <2>1
    <2>5. o \in FusOut /\ o.todo = Fusion!fields /\ o.cut = {}
      BY <1>2, <2>2 DEF FusOut
    <2> HIDE DEF o
    <2>4. FitInv'
      BY <1>1, <1>2, <2>1, <2>2, <2>3, <2>5 DEF FitInv, FusEarly
    <2>6. SentInv'
      BY <2>1 DEF SentInv, FusEarly
    <2> QED
      BY <1>4, <2>4, <2>6
  <1>6. CASE \E ok \in BOOLEAN : Fusion!Claim(ok)
    <2>1. PICK ok \in BOOLEAN : Fusion!Claim(ok)
      BY <1>6
    <2> DEFINE f == Fusion!largest(reply.size, reply.todo)
               m == Fusion!marked(reply.size[f])
    <2>2. /\ fpc = "claim" /\ fpc' = "claim" /\ UNCHANGED <<undel, sent, doubt>>
          /\ IF ok THEN /\ reply' = [reply EXCEPT !.size[f] = m, !.refs = @ \cup {f},
                                                  !.todo = @ \ {f}]
                        /\ blobs' = blobs \cup {f} /\ UNCHANGED <<orphans, unput>>
             ELSE /\ reply' = [reply EXCEPT !.todo = @ \ {f}] /\ UNCHANGED blobs
                  /\ unput' = unput \cup {f} /\ orphans' \subseteq orphans \cup {f}
      BY <2>1 DEF Fusion!Claim, Fusion!sendVars
    <2>3. f \in reply.todo /\ f \in Fusion!Leg
      BY <1>2, <2>1, <2>2, LargestIn DEF FitInv, FusOut, Fusion!Claim
    <2>4. reply \in FusOut /\ reply.cut = {}
      BY <2>2 DEF FitInv
    <2>5. m \in Nat
      BY <2>3, <2>4 DEF FusOut, Fusion!marked, Fusion!FusionAssumption
    <2> HIDE DEF f, m
    <2>6. reply' \in FusOut /\ reply'.cut = {} /\ reply'.todo = reply.todo \ {f}
          /\ reply'.refs = (IF ok THEN reply.refs \cup {f} ELSE reply.refs)
          /\ \A l \in Fusion!Leg : reply'.size[l] = reply.size[l] \/ (ok /\ l = f)
      <3>1. CASE ok
        <4>1. reply' = [reply EXCEPT !.size[f] = m, !.refs = @ \cup {f}, !.todo = @ \ {f}]
          BY <2>2, <3>1
        <4>2. reply' = [size |-> [reply.size EXCEPT ![f] = m], refs |-> reply.refs \cup {f},
                        todo |-> reply.todo \ {f}, cut |-> {}]
          BY ONLY <2>4, <4>1 DEF FusOut
        <4>3. reply'.cut = {} /\ reply'.todo = reply.todo \ {f}
              /\ reply'.refs = reply.refs \cup {f} /\ reply'.size = [reply.size EXCEPT ![f] = m]
          BY ONLY <4>2
        <4>4. reply.size \in [Fusion!Leg -> Nat] /\ reply.refs \subseteq Fusion!Leg
              /\ reply.todo \subseteq Fusion!Leg
          BY ONLY <2>4 DEF FusOut
        <4>5. [reply.size EXCEPT ![f] = m] \in [Fusion!Leg -> Nat]
              /\ \A l \in Fusion!Leg : [reply.size EXCEPT ![f] = m][l] = reply.size[l] \/ l = f
          BY ONLY <2>3, <2>5, <4>4
        <4>6. reply' \in FusOut
          BY ONLY <2>3, <4>2, <4>4, <4>5 DEF FusOut
        <4> QED
          BY ONLY <3>1, <4>3, <4>5, <4>6
      <3>2. CASE ~ok
        BY ONLY <2>2, <2>4, <3>2 DEF FusOut
      <3> QED
        BY ONLY <3>1, <3>2
    <2>7. FitInv'
      BY <1>1, <2>2, <2>3, <2>6 DEF FitInv, FusEarly
    <2>8. SentInv'
      BY <2>2 DEF SentInv, FusEarly
    <2> QED
      BY <1>4, <2>7, <2>8
  <1>7. CASE Fusion!Truncate
    <2> DEFINE f == Fusion!largest(reply.size, Fusion!fields)
               cut(n) == [reply EXCEPT !.size[f] = n + Mark, !.cut = {f}]
    <2>1. /\ fpc = "claim" /\ fpc' = "send"
          /\ UNCHANGED <<blobs, orphans, unput, undel, sent, doubt>>
          /\ \/ reply' = reply
             \/ reply.todo = {} /\ Fusion!fields # {} /\ \E n : reply' = cut(n)
      <3> DEFINE fit == {n \in 0..reply.size[f] : Fusion!measure(cut(n)) <= BodyCap}
                 least == IF fit = {} THEN 0 ELSE Fusion!Max(fit)
                 small == Fusion!measure(reply) <= BodyCap
      <3>1. /\ fpc = "claim" /\ fpc' = "send"
            /\ UNCHANGED <<blobs, orphans, unput, undel, sent, doubt>>
            /\ reply.todo = {} \/ small
            /\ reply' = IF small \/ Fusion!fields = {} THEN reply ELSE cut(least)
        BY ONLY <1>7, Zenon DEF Fusion!Truncate, Fusion!blobVars, Fusion!sendVars
      <3> HIDE DEF cut, fit, least, small
      <3> QED
        BY ONLY <3>1
    <2> HIDE DEF cut
    <2>2. reply \in FusOut
      BY <2>1 DEF FitInv
    <2>3. Fusion!fields # {} => f \in Fusion!fields
      BY <1>2, <2>2, LargestIn DEF FusOut
    <2>4. ASSUME NEW n, f \in Fusion!Leg
          PROVE  /\ cut(n).refs = reply.refs /\ cut(n).cut = {f}
                 /\ \A l \in Fusion!Leg \ {f} : cut(n).size[l] = reply.size[l]
      <3> HIDE DEF f
      <3> QED
        BY ONLY <2>4, <2>2 DEF cut, FusOut
    <2> HIDE DEF f
    <2>5. reply'.refs = reply.refs
          /\ \A l \in Fusion!Leg : reply'.size[l] = reply.size[l]
                \/ (reply.todo = {} /\ l \in Fusion!fields /\ reply'.cut = {l})
      BY ONLY <1>2, <2>1, <2>3, <2>4
    <2>6. \A l \in Fusion!Leg : reply'.size[l] < Fusion!sizeOf(l) =>
              l \in reply.refs \cap blobs \/ (l \in unput /\ reply'.cut = {l})
      BY <1>2, <2>1, <2>2, <2>5 DEF FitInv, FusOut
    <2>7. FitInv'
      BY <1>1, <2>1, <2>5, <2>6 DEF FitInv, FusEarly
    <2>8. SentInv'
      BY <2>1 DEF SentInv, FusEarly
    <2> QED
      BY <1>4, <2>7, <2>8
  <1>8. CASE Fusion!Cleanup
    <2>1. /\ fpc = "cleanup" /\ fpc' = "failing" /\ UNCHANGED <<orphans, unput, sent, doubt>>
          /\ \E kept \in SUBSET undel' : blobs' = blobs \ (reply.refs \ kept)
      BY <1>8 DEF Fusion!Cleanup, Fusion!sendVars
    <2>2. blobs' \subseteq undel'
      BY <2>1 DEF FitInv
    <2>3. FitInv' /\ SentInv'
      BY <2>1, <2>2 DEF FitInv, SentInv, FusEarly
    <2> QED
      BY <1>4, <2>3
  <1>9. CASE \E how \in {"accepted", "refused", "stored"} : Fusion!Reply(how)
    <2>1. /\ fpc = "send" /\ UNCHANGED <<reply, blobs, orphans, unput, undel>>
          /\ \/ fpc' = "done" /\ sent' = Append(sent, "reply")
             \/ fpc' = "cleanup" /\ (~doubt' => sent' = sent)
      BY <1>9 DEF Fusion!Reply, Fusion!blobVars
    <2>2. sent = <<>> /\ Append(<<>>, "reply") = <<"reply">>
      BY <2>1 DEF SentInv
    <2>3. FitInv'
      BY <1>1, <2>1 DEF FitInv, FusEarly
    <2>4. SentInv'
      BY <2>1, <2>2 DEF SentInv, FusEarly
    <2> QED
      BY <1>4, <2>3, <2>4
  <1>10. CASE \E ok \in BOOLEAN : Fusion!Failed(ok)
    <2>1. /\ fpc = "failing" /\ fpc' = "failed"
          /\ UNCHANGED <<reply, blobs, orphans, unput, undel>>
          /\ doubt' \/ (sent' = Append(sent, "failed") /\ doubt' = doubt)
      BY <1>10 DEF Fusion!Failed, Fusion!blobVars
    <2>2. Append(<<>>, "failed") = <<"failed">>
      OBVIOUS
    <2>3. FitInv'
      BY <2>1 DEF FitInv, FusEarly
    <2>4. SentInv'
      BY <2>1, <2>2 DEF SentInv, FusEarly
    <2> QED
      BY <1>4, <2>3, <2>4
  <1> QED
    BY <1>5, <1>6, <1>7, <1>8, <1>9, <1>10

LEMMA FusStays == FusInv /\ UNCHANGED Fusion!vars => FusInv'
  <1> SUFFICES ASSUME FusInv, UNCHANGED Fusion!vars PROVE FusInv'
    OBVIOUS
  <1>1. Fusion!fields' = Fusion!fields /\ \A l \in Fusion!Leg : Fusion!sizeOf(l)' = Fusion!sizeOf(l)
    BY DEF Fusion!fields, Fusion!sizeOf, Fusion!vars
  <1> QED
    BY <1>1 DEF FusInv, FusType, LegInv, PanelInv, FitInv, SentInv, Fusion!Resolved, Fusion!vars

\* FusInv is inductive.
THEOREM FusInvariance == Fusion!Spec => []FusInv
  <1>1. Fusion!Init => FusInv
    BY FusInit, FusionAssume
  <1>2. FusInv /\ [Fusion!Next]_(Fusion!vars) => FusInv'
    <2> SUFFICES ASSUME FusInv, [Fusion!Next]_(Fusion!vars) PROVE FusInv'
      OBVIOUS
    <2> QED
      BY FusLegKeeps, FusStarts, FusFits, FusStays, FusionAssume
         DEF Fusion!Next, Fusion!Handler, FusLegStep
  <1> QED
    BY <1>1, <1>2, PTL DEF Fusion!Spec

\* For any jobs, sizes, faults and orders of replies, timers and refusals: a reply that a leg took
\* is never reported as a timeout; a shortened field of an accepted reply is in Redis, but for the
\* one that is cut because its SET failed; a refused reply leaves nothing in Redis but what a SET
\* or a DEL without an answer leaves; and the requester gets one answer unless a send came out
\* otherwise than its result says.
THEOREM FusionSafeHolds == Fusion!Spec => []FusionSafe
  <1>1. FusInv => Fusion!TakenReplyCounts
    BY DEF FusInv, FusType, LegInv, Fusion!TakenReplyCounts
  <1>2. FusInv => Fusion!Lossless
    BY DEF FusInv, FitInv, SentInv, Fusion!Lossless
  <1>3. FusInv => FusionSafe
    BY <1>1, <1>2 DEF FusionSafe
  <1> QED
    BY <1>3, FusInvariance, PTL

------------------------------------------------------------------------------
(* CodexGateway: what is queued, awaited and said, which thread a request works on, and which   *)
(* threads the cache may give out.                                                              *)

Before == {"absent", "new", "threadRpc", "createRpc"}
After == Gateway!PC \ Before

\* A request of the bus is in the queue until it is taken, once, and then handled alone; a decision
\* in the queue was made.
IsReq(m) == m.k = "req"
QueueInv ==
    /\ \A i \in DOMAIN inq : IsReq(inq[i]) => gpc[inq[i].r] = "new" /\ Gateway!ViaBus(inq[i].r)
    /\ \A i, j \in DOMAIN inq :
          IsReq(inq[i]) /\ IsReq(inq[j]) /\ inq[i].r = inq[j].r => i = j
    /\ \A i \in DOMAIN inq :
          ~IsReq(inq[i]) /\ inq[i].d = "accept" => "granted" \in said[inq[i].r]
BusyInv == \A r \in Req : Gateway!ViaBus(r) /\ gpc[r] \notin {"absent", "new", "done"} => busy = r

\* A call has one answer on its way, which says whether the turn was started.
IsResp(m) == m.k = "resp"
RespInv ==
    /\ \A i \in DOMAIN out : IsResp(out[i]) =>
          /\ rpc[out[i].r] = "sent"
          /\ out[i].v = "err" /\ gpc[out[i].r] = "turnRpc" => turn[out[i].r] = "none"
    /\ \A i, j \in DOMAIN out :
          IsResp(out[i]) /\ IsResp(out[j]) /\ out[i].r = out[j].r => i = j
    /\ \A r \in Req : gpc[r] \in {"new", "wait", "cleanup"} => rpc[r] # "sent"
    /\ \A r \in Req : gpc[r] = "turnRpc" /\ rpc[r] = "err" => turn[r] = "none"

\* The chunk being read is the start of the output.
ChunkInv == chunk <= Len(out)

\* What the app-server says of a turn is true of it.
LineInv ==
    /\ \A i \in DOMAIN out :
          /\ out[i].k = "started" => turn[out[i].r] # "none"
          /\ out[i].k = "ended" => turn[out[i].r] \in Gateway!Ended
    /\ \A j \in Req : fin[j] = j => turn[j] \in Gateway!Ended
    /\ \A r \in Req : gpc[r] = "cleanup" => fin[r] # Gateway!None

\* A thread is known to a request once it has passed the call that gets it.
ThreadInv ==
    /\ \A r \in Req : gpc[r] \in Before => turn[r] = "none" /\ th[r] = Gateway!None
    /\ \A r \in Req : turn[r] # "none" => th[r] # Gateway!None
    /\ \A r \in Req : th[r] # Gateway!None => gpc[th[r]] \in After
    /\ \A j \in Req : Gateway!IsJob(j) /\ th[j] # Gateway!None =>
          Attr[th[j]].key = Attr[j].key /\ Attr[th[j]].ctx = Attr[j].ctx

\* The cache is a map, of threads under the keys they were started for.
CacheInv ==
    /\ \A i, j \in DOMAIN cache : cache[i].key = cache[j].key => i = j
    /\ \A i \in DOMAIN cache :
          cache[i].key = Attr[cache[i].th].key /\ gpc[cache[i].th] \in After

OfSession(t, s) == t # Gateway!None /\ sth[s] # Gateway!None /\ th[t] = sth[s] /\ gpc[t] \in After
SessionInv ==
    /\ \A x \in Req : byThread[x] # Gateway!None => sth[byThread[x]] = x
    /\ \A s \in Sid : sth[s] # Gateway!None => gpc[sth[s]] \in After
    /\ \A s \in Sid : act[s] # Gateway!None => OfSession(act[s], s)
    /\ \A r \in Req : gpc[r] = "turnRpc" /\ ~Gateway!IsJob(r) => OfSession(r, Attr[r].sid)
    /\ \A r \in Req : gpc[r] \in {"steerRpc", "injectRpc", "interruptRpc"} => ~Gateway!IsJob(r)
    /\ \A r \in Req : gpc[r] = "steerRpc" => OfSession(tn[r], Attr[r].sid)

\* A job whose turn still runs although it was given up has a thread that the cache forgot.
Running(q) == Gateway!IsJob(q) /\ turn[q] = "running" /\ fin[q] \in {Gateway!None, q}
JobInv ==
    /\ \A q \in Req : Running(q) /\ gpc[q] = "done" => \A i \in DOMAIN cache : cache[i].th # th[q]
    /\ \A q, j \in Req : Running(q) /\ Running(j) /\ th[q] = th[j] => q = j

ReplyInv == \A j \in Req : "ref" \in said[j] => j \in blob \/ "failed" \in said[j]

GwInv ==
    /\ Gateway!RequestsTyped /\ QueueInv /\ BusyInv /\ RespInv /\ ChunkInv /\ LineInv /\ ThreadInv
    /\ CacheInv /\ SessionInv /\ JobInv /\ ReplyInv

Msg == [k: {"req"}, r: Req] \cup [k: {"dec"}, r: Req, d: {"accept", "decline"}]
Ln == [k: {"resp"}, r: Req, v: {"ok", "err"}] \cup [k: {"started", "ended", "ask"}, r: Req]
Entry == [key: GKey, th: Req]

\* A map of threads: one entry of a key; and the entries of one map are those of another.
MapOk(c) == c \in Seq(Entry) /\ \A i, j \in DOMAIN c : c[i].key = c[j].key => i = j
Among(c, d) == \A i \in DOMAIN c : \E j \in DOMAIN d : c[i] = d[j]

LEMMA SubFacts ==
    ASSUME NEW c, MapOk(c), NEW m \in Nat
    PROVE  MapOk(SubSeq(c, m + 1, Len(c))) /\ Among(SubSeq(c, m + 1, Len(c)), c)
<1> DEFINE d == SubSeq(c, m + 1, Len(c))
<1>1. c \in Seq(Entry) /\ Len(c) \in Nat
    BY DEF MapOk
<1>2. d \in Seq(Entry)
    BY <1>1
<1>3. Len(d) = IF m + 1 <= Len(c) THEN Len(c) - m ELSE 0
    BY <1>1
<1>4. \A i \in 1 .. Len(d) : d[i] = c[i + m] /\ i + m \in 1 .. Len(c)
    BY <1>1, <1>3
<1>5. DOMAIN d = 1 .. Len(d) /\ DOMAIN c = 1 .. Len(c) /\ Len(d) \in Nat
    BY <1>1, <1>2
<1> HIDE DEF d
<1>6. ASSUME NEW i \in DOMAIN d, NEW j \in DOMAIN d, d[i].key = d[j].key PROVE i = j
    <2>0. i \in Int /\ j \in Int
        BY <1>5
    <2>1. i + m \in DOMAIN c /\ j + m \in DOMAIN c
        BY <1>4, <1>5
    <2>2. c[i + m].key = c[j + m].key
        BY <1>4, <1>5, <1>6
    <2>3. i + m = j + m
        BY <2>1, <2>2 DEF MapOk
    <2>4. \A a, b \in Int : a + m = b + m => a = b
        OBVIOUS
    <2> QED BY ONLY <2>0, <2>3, <2>4
<1>7. Among(d, c)
    BY <1>4, <1>5 DEF Among
<1> QED BY <1>2, <1>6, <1>7 DEF MapOk, d

LEMMA AmongTrans ==
    ASSUME NEW a, NEW b, NEW c, Among(a, b), Among(b, c) PROVE Among(a, c)
BY DEF Among

LEMMA CleanupFacts ==
    ASSUME NEW c, MapOk(c), NEW n \in 0 .. Len(c)
    PROVE  MapOk(Gateway!CacheCleanup(c, n)) /\ Among(Gateway!CacheCleanup(c, n), c)
<1> DEFINE kept == SubSeq(c, n + 1, Len(c))
           m == IF Len(kept) > CacheMax THEN Len(kept) - CacheMax ELSE 0
<1>1. MapOk(kept) /\ Among(kept, c)
    <2>1. n \in Nat
        BY DEF MapOk
    <2> QED BY <2>1, SubFacts
<1>2. m \in Nat
    <2>1. Len(kept) \in Nat
        BY <1>1 DEF MapOk
    <2> QED BY <2>1, GatewayAssume DEF Gateway!GatewayAssumption
<1>3. MapOk(SubSeq(kept, m + 1, Len(kept))) /\ Among(SubSeq(kept, m + 1, Len(kept)), kept)
    <2> HIDE DEF kept, m
    <2> QED BY <1>1, <1>2, SubFacts
<1>4. Gateway!CacheCleanup(c, n) = SubSeq(kept, m + 1, Len(kept))
    BY DEF Gateway!CacheCleanup
<1> QED BY <1>1, <1>3, <1>4, AmongTrans

LEMMA RemoveFacts ==
    ASSUME NEW S, NEW c \in Seq(S), NEW n \in 1 .. Len(c)
    PROVE  /\ Gateway!RemoveAt(c, n) \in Seq(S) /\ Len(Gateway!RemoveAt(c, n)) = Len(c) - 1
           /\ \A i \in 1 .. Len(c) - 1 :
                 Gateway!RemoveAt(c, n)[i] = IF i < n THEN c[i] ELSE c[i + 1]
<1> DEFINE d1 == SubSeq(c, 1, n - 1)
           d2 == SubSeq(c, n + 1, Len(c))
<1>1. Len(c) \in Nat /\ n \in Int /\ n - 1 \in Int /\ n + 1 \in Int
    OBVIOUS
<1>2. d1 \in Seq(S) /\ Len(d1) = n - 1 /\ \A i \in 1 .. n - 1 : d1[i] = c[i]
    OBVIOUS
<1>3. d2 \in Seq(S) /\ Len(d2) = Len(c) - n /\ \A i \in 1 .. Len(c) - n : d2[i] = c[i + n]
    <2>1. CASE n = Len(c)
        BY <2>1
    <2>2. CASE n + 1 <= Len(c)
        BY <2>2
    <2> QED BY <2>1, <2>2
<1>4. Gateway!RemoveAt(c, n) = d1 \o d2
    BY DEF Gateway!RemoveAt
<1> HIDE DEF d1, d2
<1>5. Gateway!RemoveAt(c, n) \in Seq(S) /\ Len(Gateway!RemoveAt(c, n)) = Len(c) - 1
    BY <1>1, <1>2, <1>3, <1>4
<1>6. ASSUME NEW i \in 1 .. Len(c) - 1
      PROVE  Gateway!RemoveAt(c, n)[i] = IF i < n THEN c[i] ELSE c[i + 1]
    <2>1. CASE i < n
        BY <2>1, <1>1, <1>2, <1>3, <1>4
    <2>2. CASE i >= n
        <3>1. i - (n - 1) \in 1 .. Len(c) - n /\ i - (n - 1) + n = i + 1
            BY <2>2, <1>1
        <3>2. (d1 \o d2)[i] = d2[i - (n - 1)]
            BY <2>2, <1>1, <1>2, <1>3
        <3>3. d2[i - (n - 1)] = c[i - (n - 1) + n]
            BY <3>1, <1>3
        <3>4. d2[i - (n - 1)] = c[i + 1]
            BY <3>1, <3>3
        <3>5. ~(i < n)
            BY <2>2, <1>1
        <3> QED BY <3>2, <3>4, <3>5, <1>4
    <2> QED BY <2>1, <2>2
<1> QED BY <1>5, <1>6

LEMMA WithoutFacts ==
    ASSUME NEW c, MapOk(c), NEW k
    PROVE  /\ MapOk(Gateway!Without(c, k)) /\ Among(Gateway!Without(c, k), c)
           /\ \A i \in DOMAIN Gateway!Without(c, k) : Gateway!Without(c, k)[i].key # k
<1> DEFINE at == {i \in DOMAIN c : c[i].key = k}
<1>0. c \in Seq(Entry) /\ Len(c) \in Nat /\ DOMAIN c = 1 .. Len(c)
    BY DEF MapOk
<1>1. CASE at = {}
    <2>1. Gateway!Without(c, k) = c
        BY <1>1 DEF Gateway!Without
    <2>2. Among(c, c)
        BY DEF Among
    <2> QED BY <1>1, <2>1, <2>2
<1>2. CASE at # {}
    <2>1. Gateway!Without(c, k) = Gateway!RemoveAt(c, CHOOSE i \in at : TRUE)
        BY <1>2 DEF Gateway!Without
    <2>2. (CHOOSE i \in at : TRUE) \in at
        BY <1>2
    <2>3. \E i \in 1 .. Len(c) : c[i].key = k /\ Gateway!Without(c, k) = Gateway!RemoveAt(c, i)
        BY <2>1, <2>2, <1>0
    <2>4. PICK n \in 1 .. Len(c) : c[n].key = k /\ Gateway!Without(c, k) = Gateway!RemoveAt(c, n)
        BY <2>3
    <2> DEFINE d == Gateway!RemoveAt(c, n)
    <2>5. /\ d \in Seq(Entry) /\ Len(d) = Len(c) - 1
          /\ \A i \in 1 .. Len(c) - 1 : d[i] = IF i < n THEN c[i] ELSE c[i + 1]
        <3>1. c \in Seq(Entry) /\ n \in 1 .. Len(c)
            BY <1>0
        <3> QED BY ONLY <3>1, RemoveFacts, SMTT(40)
    <2> HIDE DEF d
    <2>6. DOMAIN d = 1 .. Len(c) - 1
        BY <2>5, <1>0
    <2>7. ASSUME NEW i \in 1 .. Len(c) - 1
          PROVE  \E j \in 1 .. Len(c) :
                    d[i] = c[j] /\ j # n /\ (i < n => j = i) /\ (i >= n => j = i + 1)
        <3>1. CASE i < n
            <4>1. i \in 1 .. Len(c) /\ d[i] = c[i] /\ i # n
                BY <3>1, <2>5, <1>0
            <4> QED BY <3>1, <4>1, <1>0
        <3>2. CASE i >= n
            <4>1. i + 1 \in 1 .. Len(c) /\ d[i] = c[i + 1] /\ i + 1 # n
                BY <3>2, <2>5, <1>0
            <4> QED BY <3>2, <4>1, <1>0
        <3> QED BY <3>1, <3>2, <1>0
    <2>8. \A i \in DOMAIN d : d[i].key # k
        BY <2>4, <2>6, <2>7, <1>0 DEF MapOk
    <2>9. ASSUME NEW i \in 1 .. Len(c) - 1, NEW j \in 1 .. Len(c) - 1, d[i].key = d[j].key
          PROVE  i = j
        <3>1. PICK a \in 1 .. Len(c) : d[i] = c[a] /\ (i < n => a = i) /\ (i >= n => a = i + 1)
            BY <2>7
        <3>2. PICK b \in 1 .. Len(c) : d[j] = c[b] /\ (j < n => b = j) /\ (j >= n => b = j + 1)
            BY <2>7
        <3>3. a = b
            BY <3>1, <3>2, <2>9, <1>0 DEF MapOk
        <3> QED BY <3>1, <3>2, <3>3, <1>0
    <2>10. Among(d, c)
        BY <2>6, <2>7, <1>0 DEF Among
    <2>11. MapOk(d)
        BY <2>5, <2>6, <2>9 DEF MapOk
    <2> QED BY <2>4, <2>8, <2>10, <2>11 DEF d
<1> QED BY <1>1, <1>2

LEMMA AppendFacts ==
    ASSUME NEW c, MapOk(c), NEW e \in Entry, \A i \in DOMAIN c : c[i].key # e.key
    PROVE  /\ MapOk(Append(c, e))
           /\ \A i \in DOMAIN Append(c, e) :
                 Append(c, e)[i] = e \/ \E j \in DOMAIN c : Append(c, e)[i] = c[j]
<1> DEFINE d == Append(c, e)
<1>1. c \in Seq(Entry) /\ Len(c) \in Nat /\ DOMAIN c = 1 .. Len(c)
    BY DEF MapOk
<1>2. d \in Seq(Entry) /\ Len(d) = Len(c) + 1 /\ DOMAIN d = 1 .. Len(c) + 1
    BY <1>1
<1>3. \A i \in 1 .. Len(c) : d[i] = c[i]
    BY <1>1
<1>4. d[Len(c) + 1] = e
    BY <1>1
<1> HIDE DEF d
<1>5. ASSUME NEW i \in DOMAIN d, NEW j \in DOMAIN d, d[i].key = d[j].key PROVE i = j
    BY <1>1, <1>2, <1>3, <1>4, <1>5 DEF MapOk
<1>6. \A i \in DOMAIN d : d[i] = e \/ \E j \in DOMAIN c : d[i] = c[j]
    BY <1>1, <1>2, <1>3, <1>4
<1> QED BY <1>2, <1>5, <1>6 DEF MapOk, d

-----------------------------------------------------------------------------
(* The queue of the bus and the output of the app-server. *)

Grows == \A x \in Req : said[x] \subseteq said'[x]

LEMMA QueueStays ==
    ASSUME GwInv, inq' = inq, Grows,
           \A x \in Req : Gateway!ViaBus(x) /\ gpc[x] = "new" => gpc'[x] = "new"
    PROVE  QueueInv' /\ inq' \in Seq(Msg)
<1>1. inq \in Seq(Msg) /\ QueueInv
    BY DEF GwInv, Gateway!RequestsTyped, Msg
<1>2. ASSUME NEW i \in DOMAIN inq PROVE inq[i] \in Msg /\ inq[i].r \in Req
    BY <1>1 DEF Msg
<1> QED BY <1>1, <1>2 DEF QueueInv, Grows, Gateway!ViaBus, IsReq

LEMMA QueueTaken ==
    ASSUME GwInv, NEW m, Gateway!Take(m), Grows,
           \A x \in Req : gpc[x] = "new" /\ m # [k |-> "req", r |-> x] => gpc'[x] = "new"
    PROVE  /\ QueueInv' /\ inq' \in Seq(Msg) /\ m \in Msg /\ busy = Gateway!None
           /\ IsReq(m) => gpc[m.r] = "new" /\ Gateway!ViaBus(m.r)
           /\ ~IsReq(m) /\ m.d = "accept" => "granted" \in said[m.r]
<1>1. inq \in Seq(Msg) /\ QueueInv /\ inq # <<>> /\ Head(inq) = m /\ inq' = Tail(inq)
         /\ busy = Gateway!None
    BY DEF GwInv, Gateway!RequestsTyped, Msg, Gateway!Take
<1>2. /\ 1 \in DOMAIN inq /\ inq[1] = m /\ inq' \in Seq(Msg) /\ m \in Msg
      /\ \A i \in DOMAIN inq' : i + 1 \in DOMAIN inq /\ inq'[i] = inq[i + 1] /\ i \in Nat /\ i # 0
    BY <1>1
<1>3. \A i \in DOMAIN inq' : inq'[i] \in Msg /\ inq'[i].r \in Req
    BY <1>2 DEF Msg
<1>4. ASSUME NEW i \in DOMAIN inq', IsReq(inq'[i])
      PROVE  gpc'[inq'[i].r] = "new" /\ Attr[inq'[i].r].kind # "http"
    <2>1. i + 1 # 1
        BY <1>2
    <2>2. IsReq(inq[i + 1]) /\ gpc[inq[i + 1].r] = "new" /\ Gateway!ViaBus(inq[i + 1].r)
        BY <1>1, <1>2, <1>4 DEF QueueInv, IsReq
    <2>3. m # [k |-> "req", r |-> inq[i + 1].r]
        BY <1>1, <1>2, <2>1, <2>2 DEF QueueInv, IsReq
    <2>4. gpc'[inq[i + 1].r] = "new"
        BY <1>2, <1>3, <2>2, <2>3
    <2> QED BY <1>2, <2>2, <2>4 DEF Gateway!ViaBus
<1>5. ASSUME NEW i \in DOMAIN inq', NEW j \in DOMAIN inq',
             IsReq(inq'[i]), IsReq(inq'[j]), inq'[i].r = inq'[j].r
      PROVE  i = j
    <2>1. i + 1 = j + 1
        BY <1>1, <1>2, <1>5 DEF QueueInv, IsReq
    <2> QED BY <2>1, <1>2
<1>6. ASSUME NEW i \in DOMAIN inq', ~IsReq(inq'[i]), inq'[i].d = "accept"
      PROVE  "granted" \in said'[inq'[i].r]
    BY <1>1, <1>2, <1>3, <1>6 DEF QueueInv, IsReq, Grows
<1>7. QueueInv'
    BY <1>4, <1>5, <1>6 DEF QueueInv, IsReq, Gateway!ViaBus
<1>8. /\ IsReq(m) => gpc[m.r] = "new" /\ Gateway!ViaBus(m.r)
      /\ ~IsReq(m) /\ m.d = "accept" => "granted" \in said[m.r]
    BY <1>1, <1>2 DEF QueueInv
<1> QED BY <1>1, <1>2, <1>7, <1>8

\* Nothing forgets that a turn was started, or how it ended.
TurnsLast ==
    \A x \in Req : (turn[x] # "none" => turn'[x] # "none")
                   /\ (turn[x] \in Gateway!Ended => turn'[x] = turn[x])

RespLines ==
    /\ \A i \in DOMAIN out : IsResp(out[i]) =>
          /\ rpc[out[i].r] = "sent"
          /\ out[i].v = "err" /\ gpc[out[i].r] = "turnRpc" => turn[out[i].r] = "none"
    /\ \A i, j \in DOMAIN out :
          IsResp(out[i]) /\ IsResp(out[j]) /\ out[i].r = out[j].r => i = j
TurnLines ==
    \A i \in DOMAIN out :
          /\ out[i].k = "started" => turn[out[i].r] # "none"
          /\ out[i].k = "ended" => turn[out[i].r] \in Gateway!Ended

\* A line that the app-server may say next.
Sound(i, l) ==
    /\ IsResp(l) => /\ i = 1 /\ rpc[l.r] # "sent" /\ rpc'[l.r] = "sent"
                    /\ l.v = "err" /\ gpc'[l.r] = "turnRpc" => turn'[l.r] = "none"
    /\ l.k = "started" => turn'[l.r] # "none"
    /\ l.k = "ended" => turn'[l.r] \in Gateway!Ended
Says(L) == /\ L \in Seq(Ln) /\ out' = out \o L
           /\ \A i \in DOMAIN L : Sound(i, L[i])

LEMMA OutGrows ==
    ASSUME GwInv, TurnsLast, NEW L, Says(L),
           \A x \in Req : rpc[x] = "sent" =>
               rpc'[x] = "sent" /\ gpc'[x] = gpc[x] /\ (turn[x] = "none" => turn'[x] = "none")
    PROVE  out' \in Seq(Ln) /\ RespLines' /\ TurnLines'
<1>1. out \in Seq(Ln) /\ L \in Seq(Ln) /\ out' = out \o L /\ RespInv /\ LineInv
    BY DEF GwInv, Gateway!RequestsTyped, Ln, Says
<1>2. out' \in Seq(Ln) /\ Len(out) \in Nat /\ DOMAIN out = 1 .. Len(out)
    BY <1>1
<1>3. ASSUME NEW i \in DOMAIN out'
      PROVE  \/ i \in DOMAIN out /\ out'[i] = out[i]
             \/ i = Len(out) + 1 /\ 1 \in DOMAIN L /\ out'[i] = L[1]
             \/ \E n \in DOMAIN L : n # 1 /\ out'[i] = L[n]
    BY <1>1
<1>4. \A l \in Ln : l.r \in Req
    BY DEF Ln
<1>5. \A i \in DOMAIN out : out[i] \in Ln
    BY <1>1
<1>6. \A n \in DOMAIN L : L[n] \in Ln /\ Sound(n, L[n])
    BY <1>1 DEF Says
<1>7. ASSUME NEW i \in DOMAIN out', IsResp(out'[i])
      PROVE  /\ rpc'[out'[i].r] = "sent"
             /\ out'[i].v = "err" /\ gpc'[out'[i].r] = "turnRpc" => turn'[out'[i].r] = "none"
             /\ \/ i \in DOMAIN out /\ out'[i] = out[i] /\ rpc[out'[i].r] = "sent"
                \/ i = Len(out) + 1 /\ rpc[out'[i].r] # "sent"
    <2>1. CASE i \in DOMAIN out /\ out'[i] = out[i]
        <3>1. /\ rpc[out[i].r] = "sent"
              /\ out[i].v = "err" /\ gpc[out[i].r] = "turnRpc" => turn[out[i].r] = "none"
            BY <1>1, <1>7, <2>1 DEF RespInv
        <3> QED BY <1>4, <1>5, <2>1, <3>1
    <2>2. CASE i = Len(out) + 1 /\ 1 \in DOMAIN L /\ out'[i] = L[1]
        BY <1>6, <1>7, <2>2 DEF Sound
    <2>3. ASSUME NEW n \in DOMAIN L, n # 1, out'[i] = L[n] PROVE FALSE
        BY <1>6, <1>7, <2>3 DEF Sound
    <2> QED BY <1>3, <2>1, <2>2, <2>3
<1>8. ASSUME NEW i \in DOMAIN out', NEW j \in DOMAIN out',
             IsResp(out'[i]), IsResp(out'[j]), out'[i].r = out'[j].r
      PROVE  i = j
    <2>1. CASE rpc[out'[i].r] = "sent"
        <3>1. i \in DOMAIN out /\ out'[i] = out[i] /\ j \in DOMAIN out /\ out'[j] = out[j]
            BY <1>7, <1>8, <2>1
        <3>2. IsResp(out[i]) /\ IsResp(out[j]) /\ out[i].r = out[j].r
            BY <1>8, <3>1
        <3> QED BY <1>1, <3>1, <3>2 DEF RespInv
    <2>2. CASE rpc[out'[i].r] # "sent"
        BY <1>7, <1>8, <2>2
    <2> QED BY <2>1, <2>2
<1>9. RespLines'
    BY <1>7, <1>8 DEF RespLines, IsResp
<1>10. TurnLines'
    <2> SUFFICES ASSUME NEW i \in DOMAIN out'
                 PROVE  /\ out'[i].k = "started" => turn'[out'[i].r] # "none"
                        /\ out'[i].k = "ended" => turn'[out'[i].r] \in Gateway!Ended
        BY DEF TurnLines
    <2>1. CASE i \in DOMAIN out /\ out'[i] = out[i]
        BY <1>1, <1>4, <1>5, <2>1 DEF LineInv, TurnsLast
    <2>2. ASSUME NEW n \in DOMAIN L, out'[i] = L[n]
          PROVE  /\ out'[i].k = "started" => turn'[out'[i].r] # "none"
                 /\ out'[i].k = "ended" => turn'[out'[i].r] \in Gateway!Ended
        BY <1>6, <2>2 DEF Sound
    <2> QED BY <1>3, <2>1, <2>2
<1> QED BY <1>2, <1>9, <1>10

\* A line is read.
LEMMA OutTail ==
    ASSUME GwInv, out # <<>>, out' = Tail(out), TurnsLast, gpc' = gpc,
           \A x \in Req : turn[x] = "none" => turn'[x] = "none",
           \A x \in Req : rpc[x] = "sent" => rpc'[x] = "sent" \/ (IsResp(Head(out))
                    /\ x = Head(out).r)
    PROVE  /\ out' \in Seq(Ln) /\ RespLines' /\ TurnLines'
           /\ Head(out) \in Ln
           /\ Head(out).k = "started" => turn[Head(out).r] # "none"
           /\ Head(out).k = "ended" => turn[Head(out).r] \in Gateway!Ended
           /\ IsResp(Head(out)) => /\ rpc[Head(out).r] = "sent"
                                   /\ Head(out).v = "err" /\ gpc[Head(out).r] = "turnRpc"
                                         => turn[Head(out).r] = "none"
<1>1. out \in Seq(Ln) /\ RespInv /\ LineInv
    BY DEF GwInv, Gateway!RequestsTyped, Ln
<1>2. /\ out' \in Seq(Ln) /\ Head(out) \in Ln /\ 1 \in DOMAIN out /\ out[1] = Head(out)
      /\ \A i \in DOMAIN out' : i + 1 \in DOMAIN out /\ out'[i] = out[i + 1] /\ i \in Nat /\ i # 0
    BY <1>1
<1>3. \A l \in Ln : l.r \in Req
    BY DEF Ln
<1>4. \A i \in DOMAIN out' : out'[i] \in Ln
    BY <1>2
<1>5. ASSUME NEW i \in DOMAIN out', IsResp(out'[i])
      PROVE  /\ rpc'[out'[i].r] = "sent"
             /\ out'[i].v = "err" /\ gpc'[out'[i].r] = "turnRpc" => turn'[out'[i].r] = "none"
    <2>1. i + 1 # 1
        BY <1>2
    <2>2. /\ rpc[out[i + 1].r] = "sent"
          /\ out[i + 1].v = "err" /\ gpc[out[i + 1].r] = "turnRpc" => turn[out[i + 1].r] = "none"
        BY <1>1, <1>2, <1>5 DEF RespInv
    <2>3. ~(IsResp(Head(out)) /\ out[i + 1].r = Head(out).r)
        BY <1>1, <1>2, <1>5, <2>1 DEF RespInv
    <2> QED BY <1>2, <1>3, <1>4, <2>2, <2>3
<1>6. ASSUME NEW i \in DOMAIN out', NEW j \in DOMAIN out',
             IsResp(out'[i]), IsResp(out'[j]), out'[i].r = out'[j].r
      PROVE  i = j
    <2>1. i + 1 = j + 1
        BY <1>1, <1>2, <1>6 DEF RespInv
    <2> QED BY <2>1, <1>2
<1>7. RespLines'
    BY <1>5, <1>6 DEF RespLines, IsResp
<1>8. TurnLines'
    BY <1>1, <1>2, <1>3, <1>4 DEF TurnLines, LineInv, TurnsLast
<1> QED BY <1>1, <1>2, <1>7, <1>8 DEF RespInv, LineInv

-----------------------------------------------------------------------------
(* Steps that leave the threads and the sessions as they are. *)

Calm ==
    /\ UNCHANGED <<th, tn, sth, byThread>>
    /\ \A x \in Req : gpc'[x] # gpc[x] => gpc'[x] \in {"done", "wait", "cleanup"}
    /\ \A x \in Req : /\ turn'[x] = "none" <=> turn[x] = "none"
                      /\ turn'[x] = "running" => turn[x] = "running"
    /\ MapOk(cache') /\ Among(cache', cache)
    /\ \A s \in Sid : act'[s] # Gateway!None => act'[s] \in Req /\ OfSession(act'[s], s)
    /\ \A q \in Req : turn'[q] = "running" /\ fin'[q] \in {Gateway!None, q}
             => fin[q] \in {Gateway!None, q}
    /\ \A q \in Req : Gateway!IsJob(q) /\ gpc[q] # "done" /\ gpc'[q] = "done" /\ turn[q] = "running"
                      /\ fin[q] \in {Gateway!None, q}
                               => \A i \in DOMAIN cache' : cache'[i].th # th[q]

LEMMA CalmInv ==
    ASSUME GwInv, Calm, gpc' \in [Req -> Gateway!PC]
    PROVE  ThreadInv' /\ CacheInv' /\ SessionInv' /\ JobInv'
<1> USE DEF Calm
<1>0. /\ th \in [Req -> Req \cup {Gateway!None}] /\ tn \in [Req -> Req \cup {Gateway!None}]
      /\ sth \in [Sid -> Req \cup {Gateway!None}] /\ byThread \in [Req -> Sid \cup {Gateway!None}]
      /\ gpc \in [Req -> Gateway!PC] /\ Gateway!None \notin Req /\ Gateway!None \notin Sid
      /\ \A r \in Req : Attr[r].sid \in Sid
    BY GatewayAssume DEF GwInv, Gateway!RequestsTyped, Gateway!GatewayAssumption
<1>1. \A x \in Req : /\ gpc[x] \in After => gpc'[x] \in After
                     /\ gpc'[x] \in Before => gpc[x] \in Before
                     /\ gpc'[x] = "turnRpc" => gpc[x] = "turnRpc"
                     /\ gpc'[x] = "steerRpc" => gpc[x] = "steerRpc"
    BY <1>0 DEF After, Before, Gateway!PC
<1>2. ThreadInv'
    <2>1. ThreadInv
        BY DEF GwInv
    <2>2. \A r \in Req : gpc'[r] \in Before => turn'[r] = "none" /\ th'[r] = Gateway!None
        BY <1>1, <2>1 DEF ThreadInv
    <2>3. \A r \in Req : turn'[r] # "none" => th'[r] # Gateway!None
        BY <2>1 DEF ThreadInv
    <2>4. \A r \in Req : th'[r] # Gateway!None => gpc'[th'[r]] \in After
        BY <1>0, <1>1, <2>1 DEF ThreadInv
    <2>5. \A j \in Req : Gateway!IsJob(j) /\ th'[j] # Gateway!None =>
              Attr[th'[j]].key = Attr[j].key /\ Attr[th'[j]].ctx = Attr[j].ctx
        BY <2>1 DEF ThreadInv
    <2> QED BY <2>2, <2>3, <2>4, <2>5 DEF ThreadInv, Before, After, Gateway!IsJob, Gateway!PC
<1>3. CacheInv'
    <2>1. CacheInv /\ cache \in Seq(Entry)
        BY DEF GwInv, Gateway!RequestsTyped, Entry
    <2>a. \A i \in DOMAIN cache : cache[i] \in Entry
        BY <2>1
    <2>2. \A i \in DOMAIN cache : cache[i].th \in Req
        BY <2>a DEF Entry
    <2>3. ASSUME NEW i \in DOMAIN cache'
          PROVE  cache'[i].key = Attr[cache'[i].th].key /\ gpc'[cache'[i].th] \in After
        <3>1. PICK j \in DOMAIN cache : cache'[i] = cache[j]
            BY DEF Among
        <3> QED BY <1>1, <2>1, <2>2, <3>1 DEF CacheInv
    <2> QED BY <2>3 DEF CacheInv, MapOk, After, Before, Gateway!PC
<1>4. SessionInv'
    <2>1. SessionInv
        BY DEF GwInv
    <2>2. \A t \in Req, s \in Sid : OfSession(t, s) => OfSession(t, s)'
        BY <1>1 DEF OfSession, After, Before, Gateway!PC
    <2>3. \A x \in Req : byThread'[x] # Gateway!None => sth'[byThread'[x]] = x
        BY <2>1 DEF SessionInv
    <2>4. \A s \in Sid : sth'[s] # Gateway!None => gpc'[sth'[s]] \in After
        BY <1>0, <1>1, <2>1 DEF SessionInv
    <2>5. \A s \in Sid : act'[s] # Gateway!None =>
              sth'[s] # Gateway!None /\ th'[act'[s]] = sth'[s] /\ gpc'[act'[s]] \in After
        BY <1>1 DEF OfSession
    <2>6. \A r \in Req : gpc'[r] = "turnRpc" /\ ~Gateway!IsJob(r) => OfSession(r, Attr[r].sid)'
        BY <1>0, <1>1, <2>1, <2>2 DEF SessionInv
    <2>7. \A r \in Req : gpc'[r] = "steerRpc" => tn[r] # Gateway!None
             /\ OfSession(tn[r], Attr[r].sid)'
        BY <1>0, <1>1, <2>1, <2>2 DEF SessionInv, OfSession
    <2>8. \A r \in Req : gpc'[r] \in {"steerRpc", "injectRpc", "interruptRpc"} => ~Gateway!IsJob(r)
        BY <1>0, <2>1 DEF SessionInv
    <2> QED BY <2>3, <2>4, <2>5, <2>6, <2>7, <2>8
            DEF SessionInv, OfSession, After, Before, Gateway!PC, Gateway!IsJob
<1>5. JobInv'
    <2>1. JobInv
        BY DEF GwInv
    <2>2. \A q \in Req : Running(q)' => Running(q) /\ th'[q] = th[q]
        BY DEF Running, Gateway!IsJob
    <2>3. ASSUME NEW q \in Req, Running(q)', gpc'[q] = "done", NEW i \in DOMAIN cache'
          PROVE  cache'[i].th # th'[q]
        <3>1. CASE gpc[q] = "done"
            BY <2>1, <2>2, <2>3, <3>1 DEF JobInv, Among
        <3>2. CASE gpc[q] # "done"
            BY <2>2, <2>3, <3>2 DEF Running
        <3> QED BY <3>1, <3>2
    <2>4. \A q, j \in Req : Running(q)' /\ Running(j)' /\ th'[q] = th'[j] => q = j
        BY <2>1, <2>2 DEF JobInv
    <2> QED BY <2>3, <2>4 DEF JobInv, Running, Gateway!IsJob
<1> QED BY <1>2, <1>3, <1>4, <1>5

\* The cache, the registry and the counters of a step of this kind.
LEMMA Kept ==
    ASSUME GwInv
    PROVE  /\ MapOk(cache) /\ Among(cache, cache)
           /\ \A s \in Sid : act[s] # Gateway!None => act[s] \in Req /\ OfSession(act[s], s)
<1>1. cache \in Seq(Entry) /\ CacheInv /\ SessionInv /\ act \in [Sid -> Req \cup {Gateway!None}]
    BY DEF GwInv, Gateway!RequestsTyped, Entry
<1> QED BY <1>1 DEF MapOk, Among, CacheInv, SessionInv

\* Calls and their answers, when no line is said or read.
LEMMA SameLines ==
    ASSUME GwInv, out' = out, TurnsLast,
           \A x \in Req : rpc[x] = "sent" =>
               rpc'[x] = "sent" /\ gpc'[x] = gpc[x] /\ (turn[x] = "none" => turn'[x] = "none")
    PROVE  out' \in Seq(Ln) /\ RespLines' /\ TurnLines'
<1>1. out \in Seq(Ln)
    BY DEF GwInv, Gateway!RequestsTyped, Ln
<1>2. <<>> \in Seq(Ln)
    OBVIOUS
<1>3. out' = out \o <<>>
    BY <1>1
<1>4. Says(<<>>)
    BY <1>2, <1>3 DEF Says
<1> QED BY <1>4, OutGrows

CallState ==
    /\ \A r \in Req : gpc[r] \in {"new", "wait", "cleanup"} => rpc[r] # "sent"
    /\ \A r \in Req : gpc[r] = "turnRpc" /\ rpc[r] = "err" => turn[r] = "none"
EndState ==
    /\ \A j \in Req : fin[j] = j => turn[j] \in Gateway!Ended
    /\ \A r \in Req : gpc[r] = "cleanup" => fin[r] # Gateway!None

LEMMA Assemble ==
    ASSUME Gateway!RequestsTyped', QueueInv', BusyInv', RespLines', CallState', TurnLines',
             EndState',
             ChunkInv',
           ThreadInv', CacheInv', SessionInv', JobInv', ReplyInv'
    PROVE  GwInv'
BY DEF GwInv, RespLines, CallState, TurnLines, EndState, RespInv, LineInv

LEMMA Parts == GwInv => CallState /\ EndState /\ RespLines /\ TurnLines
BY DEF GwInv, RespLines, CallState, TurnLines, EndState, RespInv, LineInv

-----------------------------------------------------------------------------
(* The calls return, and jobs end. *)

\* The handler of r goes on with, or ends in, p; r's call is over.
LEMMA Returns ==
    ASSUME GwInv, NEW r \in Req, NEW p \in {"done", "wait", "cleanup"},
           gpc[r] \notin {"absent", "new"} \/ ~Gateway!ViaBus(r),
           gpc' = [gpc EXCEPT ![r] = p], inq' = inq, out' = out, turn' = turn, Grows,
           IF p = "done" THEN busy' = (IF busy = r THEN Gateway!None ELSE busy) ELSE busy' = busy,
           p # "done" => gpc[r] \notin {"absent", "new", "done"},
           rpc[r] # "sent", rpc' = rpc \/ rpc' = [rpc EXCEPT ![r] = "idle"]
    PROVE  /\ QueueInv' /\ BusyInv' /\ RespLines' /\ CallState' /\ TurnLines'
           /\ gpc' \in [Req -> Gateway!PC] /\ busy' \in Req \cup {Gateway!None}
           /\ rpc' \in [Req -> {"idle", "sent", "ok", "err"}]
<1>1. /\ gpc \in [Req -> Gateway!PC] /\ busy \in Req \cup {Gateway!None}
         /\ turn \in [Req -> {"none", "running"} \cup Gateway!Ended]
      /\ rpc \in [Req -> {"idle", "sent", "ok", "err"}]
    BY DEF GwInv, Gateway!RequestsTyped
<1>2. gpc' \in [Req -> Gateway!PC] /\ busy' \in Req \cup {Gateway!None}
         /\ rpc' \in [Req -> {"idle", "sent", "ok", "err"}]
    BY <1>1 DEF Gateway!PC
<1>3. QueueInv'
    <2>1. \A x \in Req : Gateway!ViaBus(x) /\ gpc[x] = "new" => gpc'[x] = "new"
        BY <1>1
    <2> QED BY <2>1, QueueStays
<1>4. BusyInv'
    <2>1. BusyInv
        BY DEF GwInv
    <2> QED BY <1>1, <2>1 DEF BusyInv, Gateway!ViaBus
<1>5. RespLines' /\ TurnLines'
    <2>1. TurnsLast
        BY DEF TurnsLast
    <2>2. \A x \in Req : rpc[x] = "sent" => rpc'[x] = "sent" /\ gpc'[x] = gpc[x]
        BY <1>1
    <2> QED BY <2>1, <2>2, SameLines
<1>6. CallState'
    <2>1. CallState
        BY Parts
    <2> QED BY <1>1, <2>1 DEF CallState
<1> QED BY <1>2, <1>3, <1>4, <1>5, <1>6

LEMMA SaidFacts ==
    ASSUME GwInv, NEW r \in Req,
           NEW w \in SUBSET {"rejected", "completed", "failed", "ref", "ready", "started",
                             "steered", "granted", "ok"},
           Gateway!Reply(r, w)
    PROVE  /\ said' \in [Req -> SUBSET {"rejected", "completed", "failed", "ref",
                                        "ready", "started", "steered", "granted", "ok"}]
           /\ Grows /\ \A x \in Req : said'[x] = IF x = r THEN said[x] \cup w ELSE said[x]
<1> DEFINE W == {"rejected", "completed", "failed", "ref", "ready", "started", "steered",
                 "granted", "ok"}
<1>1. said \in [Req -> SUBSET W]
    BY DEF GwInv, Gateway!RequestsTyped
<1> HIDE DEF W
<1>2. said' = [said EXCEPT ![r] = said[r] \cup w] /\ w \in SUBSET W
    BY DEF Gateway!Reply, W
<1>3. said' \in [Req -> SUBSET W]
    BY <1>1, <1>2
<1>4. \A x \in Req : said'[x] = IF x = r THEN said[x] \cup w ELSE said[x]
    BY <1>1, <1>2
<1> QED BY <1>3, <1>4 DEF Grows, W

LEMMA ReplyKeeps ==
    ASSUME GwInv, Grows, \A x \in Req : "ref" \in said'[x] => "ref" \in said[x],
           blob \subseteq blob',
           \A t \in Req : ap'[t] = "accept" => ap[t] = "accept"
    PROVE  ReplyInv'
<1>1. ReplyInv
    BY DEF GwInv
<1> QED BY <1>1 DEF ReplyInv, Grows

LEMMA RefuseJobInv == ASSUME GwInv, NEW r \in Req, Gateway!RefuseJob(r) PROVE GwInv'
<1> DEFINE m == [k |-> "req", r |-> r]
<1>1. PICK w \in {{"rejected"}, {"failed"}} : Gateway!Reply(r, w)
    BY DEF Gateway!RefuseJob
<1>2. Gateway!Take(m) /\ Gateway!IsJob(r) /\ Gateway!Finish(r)
      /\ UNCHANGED <<rpc, th, tn, cache, Gateway!registry, pend, hdl, fin, Gateway!server, out,
               chunk, blob, gFaults>>
    BY DEF Gateway!RefuseJob
<1>3. /\ said' \in [Req -> SUBSET {"rejected", "completed", "failed", "ref",
                                  "ready", "started", "steered", "granted", "ok"}]
      /\ Grows /\ \A x \in Req : said'[x] = IF x = r THEN said[x] \cup w ELSE said[x]
    <2>1. w \in SUBSET {"rejected", "completed", "failed", "ref", "ready", "started",
                        "steered", "granted", "ok"}
        OBVIOUS
    <2> QED BY <1>1, <2>1, SaidFacts
<1>4. gpc \in [Req -> Gateway!PC] /\ busy' = busy /\ gpc' = [gpc EXCEPT ![r] = "done"]
         /\ Gateway!None \notin Req
    BY <1>2, GatewayAssume
       DEF GwInv, Gateway!RequestsTyped, Gateway!Finish, Gateway!Take, Gateway!GatewayAssumption
<1>5. /\ QueueInv' /\ inq' \in Seq(Msg) /\ busy = Gateway!None /\ gpc[r] = "new"
    <2>1. \A x \in Req : gpc[x] = "new" /\ m # [k |-> "req", r |-> x] => gpc'[x] = "new"
        BY <1>4
    <2>2. IsReq(m) /\ m.r = r
        BY DEF IsReq
    <2> HIDE DEF m
    <2> QED BY <1>2, <1>3, <2>1, <2>2, QueueTaken
<1>6. Gateway!RequestsTyped'
    BY <1>2, <1>3, <1>4, <1>5
       DEF GwInv, Gateway!RequestsTyped, Msg, Gateway!PC, Gateway!registry, Gateway!server,
                Gateway!approval
<1>7. BusyInv'
    BY <1>4 DEF GwInv, BusyInv, Gateway!ViaBus
<1>8. CallState /\ EndState
    BY Parts
<1>9. RespLines' /\ TurnLines'
    <2>1. TurnsLast
        BY <1>2 DEF TurnsLast, Gateway!server, Gateway!approval
    <2>2. \A x \in Req : rpc[x] = "sent" => rpc'[x] = "sent" /\ gpc'[x] = gpc[x]
                                           /\ (turn[x] = "none" => turn'[x] = "none")
        BY <1>2, <1>4, <1>5, <1>8 DEF CallState, Gateway!server, Gateway!approval
    <2>3. out' = out
        BY <1>2
    <2> QED BY <2>1, <2>2, <2>3, SameLines
<1>10. CallState' /\ EndState'
    BY <1>2, <1>4, <1>8 DEF CallState, EndState, Gateway!server, Gateway!approval
<1>11. ThreadInv' /\ CacheInv' /\ SessionInv' /\ JobInv'
    <2>1. Calm
        <3>1. turn[r] = "none"
            BY <1>5 DEF GwInv, ThreadInv, Before
        <3>2. \A x \in Req : gpc'[x] # gpc[x] => x = r /\ gpc'[x] = "done"
            BY <1>4
        <3> QED BY <1>2, <3>1, <3>2, Kept DEF Calm, Gateway!registry, Gateway!server,
                 Gateway!approval
    <2>2. gpc' \in [Req -> Gateway!PC]
        BY <1>4 DEF Gateway!PC
    <2> QED BY <2>1, <2>2, CalmInv
<1>12. ReplyInv'
    <2>1. \A x \in Req : "ref" \in said'[x] => "ref" \in said[x]
        BY <1>3
    <2> QED BY <1>2, <1>3, <2>1, ReplyKeeps DEF Gateway!server, Gateway!approval
<1>13. ChunkInv'
    BY <1>2 DEF GwInv, ChunkInv
<1> QED BY <1>5, <1>6, <1>7, <1>9, <1>10, <1>11, <1>12, <1>13, Assemble

Said == {"rejected", "completed", "failed", "ref", "ready", "started", "steered", "granted", "ok"}

\* The end, in p, of a request's call or of its turn, with w said.
Ends(r, p, w) ==
    /\ gpc[r] \notin {"absent", "new", "done"} /\ Gateway!Between /\ rpc[r] # "sent"
    /\ p = "cleanup" => fin[r] # Gateway!None
    /\ p = "done" /\ Gateway!IsJob(r) => \/ fin[r] \notin {Gateway!None, r} \/ turn[r] # "running"
                                 \/ \A i \in DOMAIN cache' : cache'[i].th # th[r]
    /\ gpc' = [gpc EXCEPT ![r] = p]
    /\ IF p = "done" THEN busy' = (IF busy = r THEN Gateway!None ELSE busy) ELSE busy' = busy
    /\ rpc' = rpc \/ rpc' = [rpc EXCEPT ![r] = "idle"]
    /\ said' = said \/ Gateway!Reply(r, w)
    /\ hdl' = hdl \/ hdl' = hdl \ {r}
    /\ pend' \subseteq Req /\ gFaults' \in 0 .. GMaxFault
    /\ MapOk(cache') /\ Among(cache', cache)
    /\ act' \in [Sid -> Req \cup {Gateway!None}]
    /\ \A s \in Sid : act'[s] # Gateway!None => act'[s] \in Req /\ OfSession(act'[s], s)
    /\ blob' \subseteq Req
    /\ \A x \in Req : "ref" \in said'[x] => x \in blob' \/ "failed" \in said'[x]
    /\ UNCHANGED <<inq, th, tn, sth, byThread, fin, Gateway!server, out, chunk>>

LEMMA EndsInv ==
    ASSUME GwInv, NEW r \in Req, NEW p \in {"done", "wait", "cleanup"}, NEW w \in SUBSET Said,
           Ends(r, p, w)
    PROVE  GwInv'
<1> USE DEF Ends
<1>1. /\ said' \in [Req -> SUBSET Said] /\ Grows
    <2>1. said \in [Req -> SUBSET Said]
        BY DEF GwInv, Gateway!RequestsTyped, Said
    <2>2. CASE said' = said
        BY <2>1, <2>2 DEF Grows
    <2>3. CASE Gateway!Reply(r, w)
        BY <2>3, SaidFacts DEF Said
    <2> QED BY <2>2, <2>3
<1>2. gpc \in [Req -> Gateway!PC]
    BY DEF GwInv, Gateway!RequestsTyped
<1>3. /\ QueueInv' /\ BusyInv' /\ RespLines' /\ CallState' /\ TurnLines'
      /\ gpc' \in [Req -> Gateway!PC] /\ busy' \in Req \cup {Gateway!None}
      /\ rpc' \in [Req -> {"idle", "sent", "ok", "err"}]
    BY <1>1, Returns DEF Gateway!server, Gateway!approval
<1>4. Gateway!RequestsTyped'
    BY <1>1, <1>3 DEF GwInv, Gateway!RequestsTyped, MapOk, Entry, Said, Gateway!server,
             Gateway!approval
<1>5. EndState'
    BY <1>2, Parts DEF EndState, Gateway!server, Gateway!approval
<1>6. ThreadInv' /\ CacheInv' /\ SessionInv' /\ JobInv'
    <2>1. \A x \in Req : gpc'[x] # gpc[x] => x = r /\ gpc'[x] = p
        BY <1>2
    <2>2. Calm
        BY <2>1 DEF Calm, Gateway!server, Gateway!approval
    <2> QED BY <1>3, <2>2, CalmInv
<1>7. ReplyInv'
    BY <1>1 DEF GwInv, ReplyInv, Grows, Gateway!server, Gateway!approval
<1>8. ChunkInv'
    BY DEF GwInv, ChunkInv
<1> QED BY <1>3, <1>4, <1>5, <1>6, <1>7, <1>8, Assemble

\* The references of the replies so far.
LEMMA RefsKept ==
    ASSUME GwInv, NEW r \in Req, NEW w \in SUBSET (Said \ {"ref"}), Gateway!Reply(r, w)
    PROVE  \A x \in Req : "ref" \in said'[x] => x \in blob \/ "failed" \in said'[x]
<1>1. w \in SUBSET Said /\ "ref" \notin w
    OBVIOUS
<1>2. \A x \in Req : said'[x] = IF x = r THEN said[x] \cup w ELSE said[x]
    BY <1>1, SaidFacts DEF Said
<1> QED BY <1>1, <1>2 DEF GwInv, ReplyInv

LEMMA Typed == GwInv => /\ pend \subseteq Req /\ blob \subseteq Req /\ gFaults \in 0 .. GMaxFault
                       /\ act \in [Sid -> Req \cup {Gateway!None}]
                                /\ tn \in [Req -> Req \cup {Gateway!None}]
                       /\ fin \in [Req -> Req \cup {Gateway!None}]
                       /\ \A r \in Req : Attr[r].sid \in Sid
                       /\ Gateway!None \notin Req /\ Gateway!None \notin Sid
BY GatewayAssume DEF GwInv, Gateway!RequestsTyped, Gateway!GatewayAssumption

LEMMA CallFailedInv == ASSUME GwInv, NEW r \in Req, Gateway!CallFailed(r) PROVE GwInv'
<1>1. /\ Gateway!Between /\ gpc[r] \in Gateway!Rpc /\ rpc[r] = "err" /\ Gateway!Finish(r)
      /\ rpc' = [rpc EXCEPT ![r] = "idle"] /\ hdl' = hdl \ {r}
      /\ UNCHANGED <<inq, th, tn, cache, Gateway!registry, pend, fin, Gateway!server, out, chunk,
               blob, gFaults>>
    BY DEF Gateway!CallFailed, Gateway!Answered
<1>2. \E w \in SUBSET (Said \ {"ref"}) : Gateway!Reply(r, w)
    <2>1. {"rejected"} \in SUBSET (Said \ {"ref"}) /\ {"failed"} \in SUBSET (Said \ {"ref"})
        BY DEF Said
    <2> QED BY <2>1 DEF Gateway!CallFailed
<1>3. PICK w \in SUBSET (Said \ {"ref"}) : Gateway!Reply(r, w)
    BY <1>2
<1>4. Gateway!IsJob(r) => turn[r] # "running"
    <2>1. CASE gpc[r] \in {"threadRpc", "createRpc"}
        BY <2>1 DEF GwInv, ThreadInv, Before
    <2>2. CASE gpc[r] = "turnRpc"
        BY <1>1, <2>2 DEF GwInv, RespInv
    <2>3. CASE gpc[r] \in {"steerRpc", "injectRpc", "interruptRpc"}
        BY <2>3 DEF GwInv, SessionInv
    <2> QED BY <1>1, <2>1, <2>2, <2>3 DEF Gateway!Rpc
<1>5. \A x \in Req : "ref" \in said'[x] => x \in blob' \/ "failed" \in said'[x]
    BY <1>1, <1>3, RefsKept
<1>6. Ends(r, "done", w)
    BY <1>1, <1>3, <1>4, <1>5, Kept, Typed
       DEF Ends, Gateway!Finish, Gateway!registry, Gateway!server, Gateway!approval, Gateway!Rpc
<1>7. w \in SUBSET Said
    OBVIOUS
<1> QED BY <1>6, <1>7, EndsInv

LEMMA TurnStartedInv == ASSUME GwInv, NEW r \in Req, Gateway!TurnStarted(r) PROVE GwInv'
<1>1. {} \in SUBSET Said
    OBVIOUS
<1>2. \A x \in Req : "ref" \in said'[x] => x \in blob' \/ "failed" \in said'[x]
    BY DEF Gateway!TurnStarted, GwInv, ReplyInv
<1>8. Ends(r, "wait", {})
    BY <1>1, <1>2, Kept, Typed
       DEF Ends, Gateway!TurnStarted, Gateway!Answered, Gateway!registry, Gateway!server,
                Gateway!approval
<1>9. {} \in SUBSET Said
    BY DEF Said
<1> QED BY <1>8, <1>9, EndsInv

LEMMA SessionTurnStartedInv == ASSUME GwInv, NEW r \in Req,
         Gateway!SessionTurnStarted(r) PROVE GwInv'
<1>1. {"started"} \in SUBSET (Said \ {"ref"})
    BY DEF Said
<1>2. \A x \in Req : "ref" \in said'[x] => x \in blob' \/ "failed" \in said'[x]
    BY <1>1, RefsKept DEF Gateway!SessionTurnStarted
<1>3. \A s \in Sid : act'[s] # Gateway!None => act'[s] \in Req /\ OfSession(act'[s], s)
    BY Kept, Typed DEF Gateway!SessionTurnStarted, GwInv, SessionInv
<1>4. act' \in [Sid -> Req \cup {Gateway!None}] /\ pend' \subseteq Req
    BY Typed DEF Gateway!SessionTurnStarted
<1>8. Ends(r, "done", {"started"})
    BY <1>1, <1>2, <1>3, <1>4, Kept, Typed
       DEF Ends, Gateway!SessionTurnStarted, Gateway!Answered, Gateway!server, Gateway!approval,
                Gateway!Finish
<1>9. {"started"} \in SUBSET Said
    BY DEF Said
<1> QED BY <1>8, <1>9, EndsInv

LEMMA SteeredInv == ASSUME GwInv, NEW r \in Req, Gateway!Steered(r) PROVE GwInv'
<1>1. {"steered"} \in SUBSET (Said \ {"ref"})
    BY DEF Said
<1>2. \A x \in Req : "ref" \in said'[x] => x \in blob' \/ "failed" \in said'[x]
    BY <1>1, RefsKept DEF Gateway!Steered
<1>3. \A s \in Sid : act'[s] # Gateway!None => act'[s] \in Req /\ OfSession(act'[s], s)
    BY Kept, Typed DEF Gateway!Steered, GwInv, SessionInv, OfSession
<1>4. act' \in [Sid -> Req \cup {Gateway!None}] /\ ~Gateway!IsJob(r)
    BY Typed DEF Gateway!Steered, GwInv, SessionInv
<1>8. Ends(r, "done", {"steered"})
    BY <1>1, <1>2, <1>3, <1>4, Kept, Typed
       DEF Ends, Gateway!Steered, Gateway!Answered, Gateway!server, Gateway!approval, Gateway!Finish
<1>9. {"steered"} \in SUBSET Said
    BY DEF Said
<1> QED BY <1>8, <1>9, EndsInv

LEMMA SessionCallDoneInv == ASSUME GwInv, NEW r \in Req, Gateway!SessionCallDone(r) PROVE GwInv'
<1>1. {"ok"} \in SUBSET (Said \ {"ref"})
    BY DEF Said
<1>2. \A x \in Req : "ref" \in said'[x] => x \in blob' \/ "failed" \in said'[x]
    BY <1>1, RefsKept DEF Gateway!SessionCallDone
<1>3. ~Gateway!IsJob(r)
    BY DEF Gateway!SessionCallDone, GwInv, SessionInv
<1>8. Ends(r, "done", {"ok"})
    BY <1>1, <1>2, <1>3, Kept, Typed
       DEF Ends, Gateway!SessionCallDone, Gateway!Answered, Gateway!registry, Gateway!server,
                Gateway!approval,
           Gateway!Finish
<1>9. {"ok"} \in SUBSET Said
    BY DEF Said
<1> QED BY <1>8, <1>9, EndsInv

\* Outside a call, no call is pending.
LEMMA NoCallOut ==
    ASSUME GwInv, NEW r \in Req, gpc[r] \in {"wait", "cleanup"} PROVE rpc[r] # "sent"
BY DEF GwInv, RespInv

LEMMA TurnTimeoutInv == ASSUME GwInv, NEW r \in Req, Gateway!TurnTimeout(r) PROVE GwInv'
<1>1. {"failed"} \in SUBSET (Said \ {"ref"})
    BY DEF Said
<1>2. \A x \in Req : "ref" \in said'[x] => x \in blob' \/ "failed" \in said'[x]
    BY <1>1, RefsKept DEF Gateway!TurnTimeout
<1>3. /\ MapOk(cache') /\ Among(cache', cache)
      /\ \A i \in DOMAIN cache' : cache'[i].key # Attr[r].key
    BY Kept, WithoutFacts DEF Gateway!TurnTimeout
<1>4. Gateway!IsJob(r) /\ turn[r] = "running" => \A i \in DOMAIN cache' : cache'[i].th # th[r]
    <2> SUFFICES ASSUME Gateway!IsJob(r), turn[r] = "running", NEW i \in DOMAIN cache'
                 PROVE  cache'[i].th # th[r]
        OBVIOUS
    <2>1. Attr[th[r]].key = Attr[r].key
        BY DEF GwInv, ThreadInv
    <2>2. cache'[i].key = Attr[cache'[i].th].key
        BY <1>3 DEF Among, GwInv, CacheInv
    <2> QED BY <1>3, <2>1, <2>2
<1>8. Ends(r, "done", {"failed"})
    BY <1>1, <1>2, <1>3, <1>4, Typed, Kept, NoCallOut
       DEF Ends, Gateway!TurnTimeout, Gateway!registry, Gateway!server, Gateway!approval,
                Gateway!Finish
<1>9. {"failed"} \in SUBSET Said
    BY DEF Said
<1> QED BY <1>8, <1>9, EndsInv

LEMMA JobReplyInv == ASSUME GwInv, NEW r \in Req, Gateway!JobReply(r) PROVE GwInv'
<1>1. fin[r] \in {Gateway!None, r} => turn[r] # "running"
    BY DEF Gateway!JobReply, GwInv, LineInv, Gateway!Ended
<1>2. PICK w \in SUBSET Said :
          /\ said' = said \/ Gateway!Reply(r, w)
          /\ "ref" \in w => blob' = blob \cup {r}
          /\ blob' = blob \/ blob' = blob \cup {r}
    <2>1. \A v \in {{"failed"}, {"completed"}, {"completed", "ref"}} : v \in SUBSET Said
        BY DEF Said
    <2>2. CASE Gateway!Reply(r, {"failed"}) /\ UNCHANGED blob
        <3>1. {"failed"} \in SUBSET Said /\ "ref" \notin {"failed"}
            BY <2>1
        <3> QED BY <2>2, <3>1
    <2>3. ASSUME NEW ref \in BOOLEAN, NEW v, v = (IF ref THEN {"completed",
             "ref"} ELSE {"completed"}),
                 blob' = (IF ref THEN blob \cup {r} ELSE blob), Gateway!Reply(r, v)
                          \/ UNCHANGED said
          PROVE  \E w \in SUBSET Said : /\ said' = said \/ Gateway!Reply(r, w)
                                        /\ "ref" \in w => blob' = blob \cup {r}
                                        /\ blob' = blob \/ blob' = blob \cup {r}
        <3>1. v \in SUBSET Said /\ ("ref" \in v => ref)
            BY <2>1, <2>3
        <3> QED BY <2>3, <3>1
    <2> QED BY <2>2, <2>3 DEF Gateway!JobReply
<1>3. \A x \in Req : "ref" \in said'[x] => x \in blob' \/ "failed" \in said'[x]
    <2>1. CASE said' = said
        BY <1>2, <2>1 DEF GwInv, ReplyInv
    <2>2. CASE Gateway!Reply(r, w)
        <3>1. \A x \in Req : said'[x] = IF x = r THEN said[x] \cup w ELSE said[x]
            BY <2>2, SaidFacts DEF Said
        <3> QED BY <1>2, <3>1 DEF GwInv, ReplyInv
    <2> QED BY <1>2, <2>1, <2>2
<1>4. /\ gpc[r] = "wait" /\ fin[r] # Gateway!None /\ Gateway!Between /\ hdl' = hdl \ {r}
      /\ UNCHANGED <<inq, rpc, th, tn, cache, Gateway!registry, pend, fin, Gateway!server, out,
               chunk>>
      /\ \/ Gateway!Finish(r) /\ gFaults' \in 0 .. GMaxFault
         \/ gpc' = [gpc EXCEPT ![r] = "cleanup"] /\ busy' = busy /\ gFaults' \in 0 .. GMaxFault
    BY Typed, GatewayAssume DEF Gateway!JobReply, Gateway!Fault, Gateway!GatewayAssumption
<1>5. blob' \subseteq Req
    BY <1>2, Typed
<1>6. rpc[r] # "sent"
    BY <1>4, NoCallOut
<1>7. Ends(r, "done", w) \/ Ends(r, "cleanup", w)
    BY <1>1, <1>2, <1>3, <1>4, <1>5, <1>6, Typed, Kept
       DEF Ends, Gateway!registry, Gateway!server, Gateway!approval, Gateway!Finish
<1> QED BY <1>7, EndsInv

LEMMA JobCleanupInv == ASSUME GwInv, NEW r \in Req, Gateway!JobCleanup(r) PROVE GwInv'
<1>1. {"failed"} \in SUBSET (Said \ {"ref"})
    BY DEF Said
<1>2. \A x \in Req : said'[x] = IF x = r THEN said[x] \cup {"failed"} ELSE said[x]
    BY <1>1, SaidFacts DEF Gateway!JobCleanup, Said
<1>3. \A x \in Req : "ref" \in said'[x] => x \in blob' \/ "failed" \in said'[x]
    BY <1>2 DEF Gateway!JobCleanup, GwInv, ReplyInv
<1>4. fin[r] \in {Gateway!None, r} => turn[r] # "running"
    BY DEF Gateway!JobCleanup, GwInv, LineInv, Gateway!Ended
<1>8. Ends(r, "done", {"failed"})
    BY <1>1, <1>3, <1>4, Typed, Kept, NoCallOut
       DEF Ends, Gateway!JobCleanup, Gateway!registry, Gateway!server, Gateway!approval,
                Gateway!Finish
<1>9. {"failed"} \in SUBSET Said
    BY DEF Said
<1> QED BY <1>8, <1>9, EndsInv

-----------------------------------------------------------------------------
(* The read loop, the approver and the app-server: no request goes on. *)

Status == {"none", "running"} \cup Gateway!Ended
Still ==
    /\ UNCHANGED <<busy, gpc, th, tn, cache, sth, byThread, hdl, thr, blob>>
    /\ inq' \in Seq(Msg) /\ out' \in Seq(Ln) /\ chunk' \in Nat /\ chunk' <= Len(out')
             /\ gFaults' \in 0 .. GMaxFault
    /\ rpc' \in [Req -> {"idle", "sent", "ok", "err"}]
    /\ turn' \in [Req -> Status] /\ fin' \in [Req -> Req \cup {Gateway!None}] /\ pend' \subseteq Req
    /\ ap' \in [Req -> {"none", "asked", "open", "accept", "decline"}]
    /\ said' \in [Req -> SUBSET Said]
    /\ act' \in [Sid -> Req \cup {Gateway!None}]
    /\ \A s \in Sid : act'[s] # Gateway!None => OfSession(act'[s], s)
    /\ \A x \in Req : /\ turn'[x] = "none" <=> turn[x] = "none"
                      /\ turn'[x] = "running" => turn[x] = "running"
    /\ \A q \in Req : turn'[q] = "running" /\ fin'[q] \in {Gateway!None, q}
             => fin[q] \in {Gateway!None, q}

LEMMA StillInv ==
    ASSUME GwInv, Still, QueueInv', RespLines', TurnLines', CallState', EndState', ReplyInv'
    PROVE  GwInv'
<1>1. Gateway!RequestsTyped'
    BY DEF Still, Status, GwInv, Gateway!RequestsTyped, Msg, Ln, Said
<1>2. BusyInv'
    BY DEF Still, GwInv, BusyInv, Gateway!ViaBus
<1>3. ThreadInv' /\ CacheInv' /\ SessionInv' /\ JobInv'
    <2>1. gpc' \in [Req -> Gateway!PC]
        BY DEF Still, GwInv, Gateway!RequestsTyped
    <2>2. \A s \in Sid : act'[s] # Gateway!None => act'[s] \in Req
        BY DEF Still
    <2>3. MapOk(cache') /\ Among(cache', cache)
        BY Kept DEF Still
    <2>4. Calm
        BY <2>2, <2>3 DEF Still, Calm
    <2> QED BY <2>1, <2>4, CalmInv
<1>4. ChunkInv'
    BY DEF Still, ChunkInv
<1> QED BY <1>1, <1>2, <1>3, <1>4, Assemble

LEMMA Typed2 ==
    GwInv => /\ inq \in Seq(Msg) /\ out \in Seq(Ln) /\ chunk \in Nat /\ chunk <= Len(out)
             /\ gFaults \in 0 .. GMaxFault
            /\ rpc \in [Req -> {"idle", "sent", "ok", "err"}]
            /\ turn \in [Req -> Status] /\ pend \subseteq Req
            /\ ap \in [Req -> {"none", "asked", "open", "accept", "decline"}]
            /\ said \in [Req -> SUBSET Said]
BY DEF GwInv, Gateway!RequestsTyped, ChunkInv, Msg, Ln, Status, Said

\* A fault of the environment is counted.
LEMMA CallFault == GwInv /\ Gateway!Fault => gFaults' \in 0 .. GMaxFault
BY Typed2, GatewayAssume DEF Gateway!Fault, Gateway!GatewayAssumption

LEMMA SameQueue == ASSUME GwInv, inq' = inq, gpc' = gpc, Grows PROVE QueueInv' /\ inq' \in Seq(Msg)
BY QueueStays

LEMMA NothingSaid == ASSUME GwInv, said' = said PROVE Grows
BY DEF Grows

LEMMA TakeDecisionInv ==
    ASSUME GwInv, NEW t \in Req, NEW d \in {"accept", "decline"}, Gateway!TakeDecision(t, d)
    PROVE  GwInv'
<1> DEFINE m == [k |-> "dec", r |-> t, d |-> d]
<1>1. /\ Gateway!Take(m) /\ (ap' = ap \/ \E x : ap' = [ap EXCEPT ![x] = d])
      /\ UNCHANGED <<busy, gpc, rpc, th, tn, cache, Gateway!registry, pend, hdl, fin, thr, turn,
                     out, chunk, said, blob, gFaults>>
    BY DEF Gateway!TakeDecision
<1>2. ~IsReq(m) /\ m.d = d /\ m.r = t /\ m # [k |-> "req", r |-> t]
    BY DEF IsReq
<1> HIDE DEF m
<1>3. Grows
    BY <1>1 DEF Grows
<1>4. QueueInv' /\ inq' \in Seq(Msg)
    BY <1>1, <1>2, <1>3, QueueTaken
<1>5. RespLines' /\ TurnLines' /\ out' \in Seq(Ln)
    <2>1. TurnsLast
        BY <1>1 DEF TurnsLast
    <2> QED BY <2>1, <1>1, SameLines
<1>6. CallState' /\ EndState'
    BY <1>1, Parts DEF CallState, EndState
<1>7. ap' \in [Req -> {"none", "asked", "open", "accept", "decline"}]
    BY <1>1, Typed2
<1>8. Still
    BY <1>1, <1>4, <1>5, <1>7, Typed, Typed2, Kept DEF Still, Gateway!registry
<1>9. ReplyInv'
    BY <1>1, <1>4, Typed2 DEF GwInv, ReplyInv
<1> QED BY <1>4, <1>5, <1>6, <1>8, <1>9, StillInv

LEMMA ReadChunkInv == ASSUME GwInv, Gateway!ReadChunk PROVE GwInv'
<1>1. /\ UNCHANGED <<inq, busy, gpc, rpc, th, tn, cache, Gateway!registry, pend, hdl, fin,
         Gateway!server, out, said,
                     blob, gFaults>>
      /\ chunk' \in Nat /\ chunk' <= Len(out)
    BY Typed2 DEF Gateway!ReadChunk
<1>2. Grows
    BY <1>1 DEF Grows
<1>3. QueueInv' /\ inq' \in Seq(Msg)
    BY <1>1, <1>2, SameQueue
<1>4. RespLines' /\ TurnLines' /\ out' \in Seq(Ln)
    <2>1. TurnsLast
        BY <1>1 DEF TurnsLast, Gateway!server, Gateway!approval
    <2> QED BY <2>1, <1>1, SameLines DEF Gateway!server, Gateway!approval
<1>5. CallState' /\ EndState' /\ ReplyInv'
    BY <1>1, Parts
       DEF CallState, EndState, GwInv, ReplyInv, Gateway!server, Gateway!approval
<1>6. Still
    BY <1>1, <1>3, <1>4, Typed, Typed2, Kept DEF Still, Gateway!registry,
             Gateway!server, Gateway!approval
<1> QED BY <1>3, <1>4, <1>5, <1>6, StillInv

LEMMA LineFacts ==
    ASSUME GwInv, NEW k, Gateway!Line(k)
    PROVE  /\ out # <<>> /\ Head(out).k = k /\ out' = Tail(out)
           /\ chunk' \in Nat /\ chunk' <= Len(out')
           /\ Head(out) \in Ln /\ Head(out).r \in Req
<1>1. out \in Seq(Ln) /\ chunk \in Nat /\ chunk <= Len(out)
    BY Typed2
<1>2. chunk > 0 /\ chunk' = chunk - 1 /\ Head(out).k = k /\ out' = Tail(out)
    BY DEF Gateway!Line
<1>3. Len(out) > 0 /\ Len(out) \in Nat
    BY <1>1, <1>2
<1>4. out # <<>> /\ Len(Tail(out)) = Len(out) - 1 /\ Head(out) \in Ln
    BY <1>1, <1>3
<1>5. chunk' \in Nat /\ chunk' <= Len(out')
    BY <1>1, <1>2, <1>3, <1>4
<1>6. \A l \in Ln : l.r \in Req
    BY DEF Ln
<1> QED BY <1>2, <1>4, <1>5, <1>6

LEMMA ReadResponseInv == ASSUME GwInv, Gateway!ReadResponse PROVE GwInv'
<1>1. /\ Gateway!Line("resp") /\ rpc' = [rpc EXCEPT ![Head(out).r] = Head(out).v]
      /\ UNCHANGED <<inq, busy, gpc, th, tn, cache, Gateway!registry, pend, hdl, fin,
               Gateway!server, said, blob,
                     gFaults>>
    BY DEF Gateway!ReadResponse
<1> DEFINE l == Head(out)
<1>2. out # <<>> /\ l.k = "resp" /\ out' = Tail(out) /\ chunk' \in Nat /\ chunk' <= Len(out')
      /\ l \in Ln /\ l.r \in Req
    BY <1>1, LineFacts
<1>3. l.v \in {"ok", "err"} /\ IsResp(l)
    BY <1>2 DEF Ln, IsResp
<1>4. QueueInv' /\ inq' \in Seq(Msg)
    BY <1>1, NothingSaid, SameQueue
<1>5. /\ out' \in Seq(Ln) /\ RespLines' /\ TurnLines'
      /\ rpc[l.r] = "sent" /\ (l.v = "err" /\ gpc[l.r] = "turnRpc" => turn[l.r] = "none")
    <2>1. TurnsLast /\ turn' = turn
        BY <1>1 DEF TurnsLast, Gateway!server, Gateway!approval
    <2>2. \A x \in Req : rpc[x] = "sent" => rpc'[x] = "sent" \/ x = l.r
        BY <1>1, Typed2
    <2> HIDE DEF l
    <2>3. \A x \in Req : rpc[x] = "sent" => rpc'[x] = "sent" \/ (IsResp(Head(out))
             /\ x = Head(out).r)
        BY <2>2, <1>3 DEF l
    <2> QED BY <1>1, <1>2, <1>3, <2>1, <2>3, OutTail DEF l
<1>6. rpc' \in [Req -> {"idle", "sent", "ok", "err"}]
    BY <1>1, <1>2, <1>3, Typed2
<1>7. CallState' /\ EndState' /\ ReplyInv'
    <2> HIDE DEF l
    <2>1. rpc' = [rpc EXCEPT ![l.r] = l.v] /\ UNCHANGED <<gpc, turn, fin, said, blob, ap>>
        BY <1>1 DEF l, Gateway!server, Gateway!approval
    <2> QED BY <2>1, <1>2, <1>3, <1>5, Parts, Typed2
            DEF CallState, EndState, GwInv, ReplyInv
<1>8. Still
    BY <1>1, <1>2, <1>4, <1>5, <1>6, Typed, Typed2, Kept DEF Still, Gateway!registry,
             Gateway!server, Gateway!approval
<1> QED BY <1>4, <1>5, <1>7, <1>8, StillInv

LEMMA ReadLine ==
    ASSUME GwInv, NEW k \in {"ask", "started", "ended"}, Gateway!Line(k),
           UNCHANGED <<gpc, rpc, turn>>
    PROVE  /\ out' \in Seq(Ln) /\ RespLines' /\ TurnLines'
           /\ Head(out).k = "started" => turn[Head(out).r] # "none"
           /\ Head(out).k = "ended" => turn[Head(out).r] \in Gateway!Ended
<1>1. out # <<>> /\ out' = Tail(out)
    BY LineFacts
<1>2. TurnsLast
    BY DEF TurnsLast
<1> QED BY <1>1, <1>2, OutTail

LEMMA ReadApprovalInv == ASSUME GwInv, Gateway!ReadApproval PROVE GwInv'
<1>1. /\ Gateway!Line("ask") /\ ap' = [ap EXCEPT ![Head(out).r] = "open"]
      /\ UNCHANGED <<inq, busy, gpc, rpc, th, tn, cache, Gateway!registry, pend, hdl, fin, thr,
                     turn, said, blob>>
      /\ gFaults' = gFaults \/ Gateway!Fault
    BY DEF Gateway!ReadApproval
<1>a. gFaults' \in 0 .. GMaxFault
    BY <1>1, Typed2, CallFault
<1>2. Head(out).r \in Req /\ chunk' \in Nat /\ chunk' <= Len(out')
    BY <1>1, LineFacts
<1>3. QueueInv' /\ inq' \in Seq(Msg)
    BY <1>1, NothingSaid, SameQueue
<1>4. out' \in Seq(Ln) /\ RespLines' /\ TurnLines'
    BY <1>1, ReadLine
<1>5. ap' \in [Req -> {"none", "asked", "open", "accept", "decline"}]
    BY <1>1, <1>2, Typed2
<1>6. CallState' /\ EndState' /\ ReplyInv'
    BY <1>1, <1>2, Parts, Typed2 DEF CallState, EndState, GwInv, ReplyInv
<1>7. Still
    BY <1>1, <1>a, <1>2, <1>3, <1>4, <1>5, Typed, Typed2, Kept DEF Still, Gateway!registry
<1> QED BY <1>3, <1>4, <1>6, <1>7, StillInv

LEMMA ReadStartedInv == ASSUME GwInv, Gateway!ReadStarted PROVE GwInv'
<1> DEFINE t == Head(out).r
           s == byThread[th[t]]
<1>1. /\ Gateway!Line("started") /\ act' = (IF s = Gateway!None THEN act ELSE [act EXCEPT ![s] = t])
      /\ UNCHANGED <<inq, busy, gpc, rpc, th, tn, cache, sth, byThread, pend, hdl, fin,
               Gateway!server, said,
                     blob, gFaults>>
    BY DEF Gateway!ReadStarted
<1>2. t \in Req /\ chunk' \in Nat /\ chunk' <= Len(out') /\ Head(out).k = "started"
    BY <1>1, LineFacts
<1>3. QueueInv' /\ inq' \in Seq(Msg)
    BY <1>1, NothingSaid, SameQueue
<1>4. out' \in Seq(Ln) /\ RespLines' /\ TurnLines' /\ turn[t] # "none"
    BY <1>1, <1>2, ReadLine DEF Gateway!server, Gateway!approval
<1> HIDE DEF t
<1>5. th[t] # Gateway!None /\ th[t] \in Req /\ gpc[t] \in After
    <2>1. gpc \in [Req -> Gateway!PC] /\ th \in [Req -> Req \cup {Gateway!None}]
        BY DEF GwInv, Gateway!RequestsTyped
    <2> QED BY <1>2, <1>4, <2>1 DEF GwInv, ThreadInv, After
<1>6. s \in Sid \cup {Gateway!None} /\ (s # Gateway!None => OfSession(t, s))
    <2>1. s \in Sid \cup {Gateway!None}
        BY <1>5 DEF GwInv, Gateway!RequestsTyped
    <2>2. s # Gateway!None => sth[s] = th[t]
        BY <1>5 DEF GwInv, SessionInv
    <2> QED BY <1>2, <1>5, <2>1, <2>2, Typed DEF OfSession
<1> HIDE DEF s
<1>7. /\ act' \in [Sid -> Req \cup {Gateway!None}]
      /\ \A x \in Sid : act'[x] # Gateway!None => OfSession(act'[x], x)
    BY <1>1, <1>2, <1>6, Kept, Typed
<1>8. CallState' /\ EndState' /\ ReplyInv'
    BY <1>1, Parts
       DEF CallState, EndState, GwInv, ReplyInv, Gateway!server, Gateway!approval
<1>9. Still
    BY <1>1, <1>2, <1>3, <1>4, <1>7, Typed, Typed2 DEF Still, Gateway!server,
             Gateway!approval
<1> QED BY <1>3, <1>4, <1>8, <1>9, StillInv

LEMMA ReadEndedInv == ASSUME GwInv, Gateway!ReadEnded PROVE GwInv'
<1> DEFINE t == Head(out).r
           s == byThread[th[t]]
<1>1. /\ Gateway!Line("ended")
         /\ act' = (IF s = Gateway!None THEN act ELSE [act EXCEPT ![s] = Gateway!None])
      /\ Gateway!onRealtimeEvent(s, t)
      /\ fin' = [j \in Req |-> IF j \in hdl THEN t ELSE fin[j]]
      /\ UNCHANGED <<inq, busy, gpc, rpc, th, tn, cache, sth, byThread, hdl, Gateway!server,
               blob, gFaults>>
    BY DEF Gateway!ReadEnded
<1>2. t \in Req /\ chunk' \in Nat /\ chunk' <= Len(out') /\ Head(out).k = "ended"
    BY <1>1, LineFacts
<1>3. out' \in Seq(Ln) /\ RespLines' /\ TurnLines' /\ turn[t] \in Gateway!Ended
    BY <1>1, <1>2, ReadLine DEF Gateway!server, Gateway!approval
<1> HIDE DEF t, s
<1>4. /\ pend' \subseteq Req /\ said' \in [Req -> SUBSET Said] /\ Grows
      /\ \A x \in Req : "ref" \in said'[x] => x \in blob \/ "failed" \in said'[x]
    <2>1. CASE UNCHANGED <<pend, said>>
        BY <2>1, Typed, Typed2, NothingSaid DEF GwInv, ReplyInv
    <2>2. CASE pend' = pend \ {t}
               /\ Gateway!Reply(t, IF turn[t] = "completed" THEN {"completed"} ELSE {"failed"})
        <3>1. \E w \in SUBSET (Said \ {"ref"}) : Gateway!Reply(t, w)
            <4>1. {"completed"} \in SUBSET (Said \ {"ref"})
                     /\ {"failed"} \in SUBSET (Said \ {"ref"})
                BY DEF Said
            <4> QED BY <2>2, <4>1
        <3>2. PICK w \in SUBSET (Said \ {"ref"}) : Gateway!Reply(t, w)
            BY <3>1
        <3>3. w \in SUBSET Said
            OBVIOUS
        <3>4. said' \in [Req -> SUBSET Said] /\ Grows
            BY <1>2, <3>2, <3>3, SaidFacts DEF Said
        <3> QED BY <1>2, <2>2, <3>2, <3>4, RefsKept, Typed
    <2> QED BY <1>1, <2>1, <2>2 DEF Gateway!onRealtimeEvent
<1>5. QueueInv' /\ inq' \in Seq(Msg)
    BY <1>1, <1>4, SameQueue
<1>6. fin' \in [Req -> Req \cup {Gateway!None}]
    BY <1>1, <1>2, Typed
<1>7. /\ act' \in [Sid -> Req \cup {Gateway!None}]
      /\ \A x \in Sid : act'[x] # Gateway!None => OfSession(act'[x], x)
    BY <1>1, Kept, Typed
<1>8. EndState'
    BY <1>1, <1>2, <1>3, Parts, Typed DEF EndState, Gateway!server, Gateway!approval
<1>9. CallState' /\ ReplyInv'
    BY <1>1, <1>4, Parts
       DEF CallState, GwInv, ReplyInv, Grows, Gateway!server, Gateway!approval
<1>10. \A q \in Req : turn'[q] = "running" /\ fin'[q] \in {Gateway!None, q}
         => fin[q] \in {Gateway!None, q}
    BY <1>1, <1>2, <1>3, Typed DEF Gateway!Ended, Gateway!server, Gateway!approval
<1>11. Still
    BY <1>1, <1>2, <1>3, <1>4, <1>5, <1>6, <1>7, <1>10, Typed, Typed2 DEF Still, Gateway!server,
             Gateway!approval
<1> QED BY <1>3, <1>5, <1>8, <1>9, <1>11, StillInv

LEMMA ApprovalTimeoutInv == ASSUME GwInv, NEW t \in Req, Gateway!ApprovalTimeout(t) PROVE GwInv'
<1>1. /\ ap' = ap \/ ap' = [ap EXCEPT ![t] = "decline"]
      /\ UNCHANGED <<inq, busy, gpc, rpc, th, tn, cache, Gateway!registry, pend, hdl, fin, thr,
                     turn, out, chunk, said, blob, gFaults>>
    BY DEF Gateway!ApprovalTimeout
<1>2. QueueInv' /\ inq' \in Seq(Msg)
    BY <1>1, NothingSaid, SameQueue
<1>3. out' \in Seq(Ln) /\ RespLines' /\ TurnLines'
    <2>1. TurnsLast
        BY <1>1 DEF TurnsLast
    <2> QED BY <2>1, <1>1, SameLines
<1>4. ap' \in [Req -> {"none", "asked", "open", "accept", "decline"}]
    BY <1>1, Typed2
<1>5. CallState' /\ EndState' /\ ReplyInv'
    BY <1>1, Parts, Typed2 DEF CallState, EndState, GwInv, ReplyInv
<1>6. Still
    BY <1>1, <1>2, <1>3, <1>4, Typed, Typed2, Kept DEF Still, Gateway!registry
<1> QED BY <1>2, <1>3, <1>5, <1>6, StillInv

LEMMA InsertFacts ==
    ASSUME NEW S, NEW c \in Seq(S), NEW n \in 1 .. Len(c) + 1, NEW e \in S
    PROVE  /\ Gateway!InsertAt(c, n, e) \in Seq(S) /\ Len(Gateway!InsertAt(c, n, e)) = Len(c) + 1
           /\ \A i \in 1 .. Len(c) + 1 :
                 Gateway!InsertAt(c, n,
                          e)[i] = IF i < n THEN c[i] ELSE IF i = n THEN e ELSE c[i - 1]
<1> DEFINE d1 == SubSeq(c, 1, n - 1)
           d2 == SubSeq(c, n, Len(c))
<1>1. Len(c) \in Nat /\ n \in Int /\ n - 1 \in Int
    OBVIOUS
<1>2. d1 \in Seq(S) /\ Len(d1) = n - 1 /\ \A i \in 1 .. n - 1 : d1[i] = c[i]
    OBVIOUS
<1>3. /\ d2 \in Seq(S) /\ Len(d2) = Len(c) - n + 1
      /\ \A i \in 1 .. Len(c) - n + 1 : d2[i] = c[i + n - 1]
    <2>1. CASE n = Len(c) + 1
        BY <2>1
    <2>2. CASE n <= Len(c)
        BY <2>2
    <2> QED BY <2>1, <2>2
<1>4. Gateway!InsertAt(c, n, e) = (d1 \o <<e>>) \o d2
    BY DEF Gateway!InsertAt
<1> HIDE DEF d1, d2
<1> DEFINE d == d1 \o <<e>>
<1>5. /\ d \in Seq(S) /\ Len(d) = n
      /\ \A i \in 1 .. n : d[i] = IF i < n THEN c[i] ELSE e
    BY <1>1, <1>2
<1> HIDE DEF d
<1>6. Gateway!InsertAt(c, n, e) \in Seq(S) /\ Len(Gateway!InsertAt(c, n, e)) = Len(c) + 1
    <2>1. Gateway!InsertAt(c, n, e) = d \o d2
        BY <1>4 DEF d
    <2>2. d \o d2 \in Seq(S) /\ Len(d \o d2) = Len(d) + Len(d2)
        BY <1>3, <1>5
    <2> QED BY <2>1, <2>2, <1>1, <1>3, <1>5
<1>7. ASSUME NEW i \in 1 .. Len(c) + 1
      PROVE  Gateway!InsertAt(c, n, e)[i] = IF i < n THEN c[i] ELSE IF i = n THEN e ELSE c[i - 1]
    <2>1. CASE i <= n
        BY <2>1, <1>1, <1>3, <1>4, <1>5 DEF d
    <2>2. CASE i > n
        <3>1. i - n \in 1 .. Len(c) - n + 1 /\ i - n + n - 1 = i - 1
            BY <2>2, <1>1
        <3>2. Gateway!InsertAt(c, n, e)[i] = d2[i - n]
            BY <2>2, <1>1, <1>3, <1>4, <1>5 DEF d
        <3>3. d2[i - n] = c[i - n + n - 1]
            BY <3>1, <1>3
        <3>4. d2[i - n] = c[i - 1]
            BY <3>1, <3>3
        <3>5. ~(i < n) /\ i # n
            BY <2>2, <1>1
        <3> QED BY <3>2, <3>4, <3>5
    <2> QED BY <2>1, <2>2
<1> QED BY <1>6, <1>7

LEMMA DecideInv == ASSUME GwInv, NEW t \in Req, NEW d \in {"accept", "decline"},
         Gateway!Decide(t, d) PROVE GwInv'
<1> DEFINE m == [k |-> "dec", r |-> t, d |-> d]
           w == IF d = "accept" THEN {"granted"} ELSE {}
<1>1. /\ Gateway!Reply(t, w)
      /\ UNCHANGED <<busy, gpc, rpc, th, tn, cache, Gateway!registry, pend, hdl, fin,
               Gateway!server, out, chunk,
                     blob, gFaults>>
    BY DEF Gateway!Decide
<1>2. PICK n \in 1 .. Len(inq) + 1 : inq' = Gateway!InsertAt(inq, n, m)
    BY DEF Gateway!Decide
<1>3. /\ ~IsReq(m) /\ m \in Msg /\ m.r = t /\ m.d = d
    BY DEF IsReq, Msg
<1>4. w \in SUBSET (Said \ {"ref"}) /\ w \in SUBSET Said /\ (d = "accept" => "granted" \in w)
    BY DEF Said
<1> HIDE DEF m, w
<1>5. said' \in [Req -> SUBSET Said] /\ Grows /\ (d = "accept" => "granted" \in said'[t])
    <2>1. /\ said' \in [Req -> SUBSET Said] /\ Grows
          /\ \A x \in Req : said'[x] = IF x = t THEN said[x] \cup w ELSE said[x]
        BY <1>1, <1>4, SaidFacts DEF Said
    <2> QED BY <2>1, <1>4
<1>6. \A x \in Req : "ref" \in said'[x] => x \in blob \/ "failed" \in said'[x]
    BY <1>1, <1>4, RefsKept
<1>7. inq \in Seq(Msg) /\ Len(inq) \in Nat /\ DOMAIN inq = 1 .. Len(inq) /\ QueueInv
    BY Typed2 DEF GwInv
<1>8. /\ inq' \in Seq(Msg) /\ Len(inq') = Len(inq) + 1
      /\ \A i \in 1 .. Len(inq) + 1 :
            inq'[i] = IF i < n THEN inq[i] ELSE IF i = n THEN m ELSE inq[i - 1]
    <2>1. /\ Gateway!InsertAt(inq, n, m) \in Seq(Msg)
             /\ Len(Gateway!InsertAt(inq, n, m)) = Len(inq) + 1
          /\ \A i \in 1 .. Len(inq) + 1 : Gateway!InsertAt(inq, n, m)[i] =
                IF i < n THEN inq[i] ELSE IF i = n THEN m ELSE inq[i - 1]
        <3>1. inq \in Seq(Msg) /\ n \in 1 .. Len(inq) + 1 /\ m \in Msg
            BY <1>3, <1>7
        <3> QED BY ONLY <3>1, InsertFacts
    <2> QED BY <2>1, <1>2
<1>9. DOMAIN inq' = 1 .. Len(inq) + 1
    BY <1>7, <1>8
<1>10. ASSUME NEW i \in DOMAIN inq'
       PROVE  \/ inq'[i] = m
              \/ \E a \in DOMAIN inq : inq'[i] = inq[a] /\ (i < n => a = i) /\ (i > n => a = i - 1)
    <2>1. CASE i < n
        <3>1. i \in DOMAIN inq /\ inq'[i] = inq[i]
            BY <2>1, <1>7, <1>8, <1>9
        <3> QED BY <2>1, <3>1, <1>9
    <2>2. CASE i = n
        BY <2>2, <1>8, <1>9
    <2>3. CASE i > n
        <3>1. i - 1 \in DOMAIN inq /\ inq'[i] = inq[i - 1]
            BY <2>3, <1>7, <1>8, <1>9
        <3> QED BY <2>3, <3>1, <1>9
    <2> QED BY <2>1, <2>2, <2>3, <1>9
<1>11. \A i \in DOMAIN inq' : IsReq(inq'[i]) => i # n
    BY <1>3, <1>8, <1>9
<1>12. ASSUME NEW i \in DOMAIN inq', IsReq(inq'[i])
       PROVE  gpc'[inq'[i].r] = "new" /\ Attr[inq'[i].r].kind # "http"
    <2>1. PICK a \in DOMAIN inq : inq'[i] = inq[a]
        BY <1>3, <1>10, <1>12
    <2>2. gpc[inq[a].r] = "new" /\ Gateway!ViaBus(inq[a].r)
        BY <1>7, <1>12, <2>1 DEF QueueInv
    <2> QED BY <1>1, <2>1, <2>2 DEF Gateway!ViaBus
<1>13. ASSUME NEW i \in DOMAIN inq', NEW j \in DOMAIN inq',
              IsReq(inq'[i]), IsReq(inq'[j]), inq'[i].r = inq'[j].r
       PROVE  i = j
    <2>1. PICK a \in DOMAIN inq : inq'[i] = inq[a] /\ (i < n => a = i) /\ (i > n => a = i - 1)
        BY <1>3, <1>10, <1>13
    <2>2. PICK b \in DOMAIN inq : inq'[j] = inq[b] /\ (j < n => b = j) /\ (j > n => b = j - 1)
        BY <1>3, <1>10, <1>13
    <2>3. a = b
        BY <1>7, <1>13, <2>1, <2>2 DEF QueueInv
    <2>4. i # n /\ j # n
        BY <1>11, <1>13
    <2> QED BY <2>1, <2>2, <2>3, <2>4, <1>9
<1>14. ASSUME NEW i \in DOMAIN inq', ~IsReq(inq'[i]), inq'[i].d = "accept"
       PROVE  "granted" \in said'[inq'[i].r]
    <2>1. CASE inq'[i] = m
        BY <1>3, <1>5, <1>14, <2>1
    <2>2. ASSUME NEW a \in DOMAIN inq, inq'[i] = inq[a] PROVE "granted" \in said'[inq'[i].r]
        <3>1. inq[a] \in Msg /\ inq[a].r \in Req
            BY <1>7 DEF Msg
        <3>2. "granted" \in said[inq[a].r]
            BY <1>7, <1>14, <2>2 DEF QueueInv
        <3> QED BY <1>5, <2>2, <3>1, <3>2 DEF Grows
    <2> QED BY <1>10, <2>1, <2>2
<1>15. QueueInv'
    BY <1>12, <1>13, <1>14 DEF QueueInv, IsReq, Gateway!ViaBus
<1>16. out' \in Seq(Ln) /\ RespLines' /\ TurnLines'
    <2>1. TurnsLast
        BY <1>1 DEF TurnsLast, Gateway!server, Gateway!approval
    <2> QED BY <2>1, <1>1, SameLines DEF Gateway!server, Gateway!approval
<1>17. CallState' /\ EndState'
    BY <1>1, Parts DEF CallState, EndState, Gateway!server, Gateway!approval
<1>18. ReplyInv'
    BY <1>1, <1>5, <1>6 DEF GwInv, ReplyInv, Grows, Gateway!server, Gateway!approval
<1>19. Still
    BY <1>1, <1>5, <1>8, <1>16, Typed, Typed2, Kept DEF Still, Gateway!registry,
             Gateway!server, Gateway!approval
<1> QED BY <1>15, <1>16, <1>17, <1>18, <1>19, StillInv

LEMMA SaysOne == ASSUME NEW l \in Ln, out' = out \o <<l>>, Sound(1, l) PROVE Says(<<l>>)
<1>1. <<l>> \in Seq(Ln) /\ \A i \in DOMAIN <<l>> : i = 1 /\ <<l>>[i] = l
    OBVIOUS
<1> QED BY <1>1 DEF Says

LEMMA SaysTwo ==
    ASSUME NEW l \in Ln, NEW m \in Ln, out' = out \o <<l, m>>, Sound(1, l), Sound(2, m)
    PROVE  Says(<<l, m>>)
<1>1. /\ <<l, m>> \in Seq(Ln)
      /\ \A i \in DOMAIN <<l, m>> : (i = 1 /\ <<l, m>>[i] = l) \/ (i = 2 /\ <<l, m>>[i] = m)
    OBVIOUS
<1> QED BY <1>1 DEF Says

LEMMA ServerInv ==
    ASSUME GwInv, NEW l \in Ln, ~IsResp(l), Gateway!Emit(<<l>>),
           UNCHANGED <<inq, busy, gpc, rpc, th, tn, cache, Gateway!registry, pend, hdl, fin, thr,
                    chunk,
                       said, blob>>,
           turn' \in [Req -> Status], gFaults' \in 0 .. GMaxFault,
           ap' \in [Req -> {"none", "asked", "open", "accept", "decline"}],
           \A x \in Req : ap'[x] = "accept" => ap[x] = "accept",
           \A x \in Req : turn'[x] = turn[x] \/ (turn[x] = "running" /\ turn'[x] \in Gateway!Ended),
           l.k \notin {"started"}, l.k = "ended" => turn'[l.r] \in Gateway!Ended
    PROVE  GwInv'
<1>1. QueueInv' /\ inq' \in Seq(Msg)
    BY NothingSaid, SameQueue
<1>2. /\ \A x \in Req : turn'[x] = "none" <=> turn[x] = "none"
      /\ \A x \in Req : turn'[x] = "running" => turn[x] = "running"
      /\ \A x \in Req : turn[x] \in Gateway!Ended => turn'[x] = turn[x]
    BY DEF Gateway!Ended
<1>3. out' \in Seq(Ln) /\ RespLines' /\ TurnLines'
    <2>1. TurnsLast
        BY <1>2 DEF TurnsLast
    <2>2. Says(<<l>>)
        BY SaysOne DEF Gateway!Emit, Sound
    <2> QED BY <1>2, <2>1, <2>2, OutGrows
<1>4. chunk' \in Nat /\ chunk' <= Len(out')
    <2>1. out \in Seq(Ln) /\ chunk \in Nat /\ chunk <= Len(out) /\ out' = out \o <<l>>
        BY Typed2 DEF Gateway!Emit
    <2>2. Len(out') = Len(out) + 1
        BY <2>1
    <2> QED BY <2>1, <2>2
<1>5. CallState' /\ EndState'
    BY <1>2, Parts DEF CallState, EndState
<1>6. ReplyInv'
    BY DEF GwInv, ReplyInv
<1>7. Still
    BY <1>1, <1>2, <1>3, <1>4, Typed, Typed2, Kept DEF Still, Gateway!registry
<1> QED BY <1>1, <1>3, <1>5, <1>6, <1>7, StillInv

LEMMA ServerAsksInv == ASSUME GwInv, NEW t \in Req, Gateway!ServerAsks(t) PROVE GwInv'
<1> DEFINE l == [k |-> "ask", r |-> t]
<1>1. l \in Ln /\ ~IsResp(l) /\ l.k = "ask"
    BY DEF Ln, IsResp
<1>2. Gateway!Emit(<<l>>)
    BY DEF Gateway!ServerAsks
<1>3. /\ ap' \in [Req -> {"none", "asked", "open", "accept", "decline"}]
      /\ \A x \in Req : ap'[x] = "accept" => ap[x] = "accept"
    BY Typed2 DEF Gateway!ServerAsks
<1> HIDE DEF l
<1> QED BY <1>1, <1>2, <1>3, Typed2, ServerInv DEF Gateway!ServerAsks

LEMMA ServerEndsInv == ASSUME GwInv, NEW t \in Req, Gateway!ServerEnds(t) PROVE GwInv'
<1> DEFINE l == [k |-> "ended", r |-> t]
<1>1. l \in Ln /\ ~IsResp(l) /\ l.k = "ended" /\ l.r = t
    BY DEF Ln, IsResp
<1>2. Gateway!Emit(<<l>>)
    BY DEF Gateway!ServerEnds
<1>3. PICK v \in {"completed", "failed"} : turn' = [turn EXCEPT ![t] = v]
    BY DEF Gateway!ServerEnds
<1>4. /\ turn' \in [Req -> Status] /\ turn'[t] \in Gateway!Ended
      /\ \A x \in Req : turn'[x] = turn[x] \/ (turn[x] = "running" /\ turn'[x] \in Gateway!Ended)
    BY <1>3, Typed2 DEF Gateway!ServerEnds, Status, Gateway!Ended
<1>5. gFaults' \in 0 .. GMaxFault
    BY Typed2, GatewayAssume DEF Gateway!ServerEnds, Gateway!Fault, Gateway!GatewayAssumption
<1> HIDE DEF l
<1> QED BY <1>1, <1>2, <1>4, <1>5, Typed2, ServerInv DEF Gateway!ServerEnds, Gateway!approval

LEMMA StutterInv == ASSUME GwInv, UNCHANGED Gateway!vars PROVE GwInv'
<1>1. QueueInv' /\ inq' \in Seq(Msg)
    BY NothingSaid, SameQueue DEF Gateway!vars
<1>2. out' \in Seq(Ln) /\ RespLines' /\ TurnLines'
    <2>1. TurnsLast
        BY DEF TurnsLast, Gateway!vars
    <2> QED BY <2>1, SameLines DEF Gateway!vars
<1>3. CallState' /\ EndState' /\ ReplyInv'
    BY Parts DEF CallState, EndState, GwInv, ReplyInv, Gateway!vars
<1>4. Still
    BY <1>1, <1>2, Typed, Typed2, Kept DEF Still, Gateway!vars, Gateway!registry, Gateway!server,
             Gateway!approval
<1> QED BY <1>1, <1>2, <1>3, <1>4, StillInv

-----------------------------------------------------------------------------
(* A request goes on. *)

Ready(r) == /\ gpc[r] \in Before \ {"absent"} /\ rpc[r] # "sent"
            /\ Gateway!ViaBus(r) => busy \in {Gateway!None, r}

\* What the ways to go on, to p, have in common.
Goes(r, p) ==
    /\ p \in Gateway!PC \ {"absent", "new", "wait", "cleanup"} /\ gpc' = [gpc EXCEPT ![r] = p]
    /\ IF p = "done" THEN rpc' = rpc /\ busy' = (IF busy = r THEN Gateway!None ELSE busy)
       ELSE rpc' = [rpc EXCEPT ![r] = "sent"] /\ busy' = (IF Gateway!ViaBus(r) THEN r ELSE busy)
    /\ \E L : Says(L)
    /\ turn' \in [Req -> Status]
    /\ \A x \in Req : \/ turn'[x] = turn[x]
                      \/ turn[x] = "running" /\ turn'[x] \in Gateway!Ended
                      \/ x = r /\ p = "turnRpc" /\ turn'[x] = "running"
    /\ thr' \subseteq Req /\ gFaults' \in 0 .. GMaxFault

LEMMA RespIs == ASSUME NEW r \in Req, NEW v \in {"ok", "err"}
                PROVE  Gateway!Resp(r, v) \in Ln /\ Gateway!Resp(r, v).r = r
                         /\ Gateway!Resp(r, v).v = v
                       /\ Gateway!Resp(r, v).k = "resp"
BY DEF Gateway!Resp, Ln

LEMMA TypedServer ==
    GwInv => /\ thr \subseteq Req /\ turn \in [Req -> Status] /\ gFaults \in 0 .. GMaxFault
            /\ gpc \in [Req -> Gateway!PC] /\ rpc \in [Req -> {"idle", "sent", "ok", "err"}]
BY DEF GwInv, Gateway!RequestsTyped, Status

LEMMA NoCallGoes ==
    ASSUME GwInv, NEW r \in Req, Ready(r), NEW w, Gateway!NoCall(r, w) PROVE Goes(r, "done")
<1>1. Says(<<>>)
    <2>1. out' = out \o <<>> /\ <<>> \in Seq(Ln)
        BY Typed2 DEF Gateway!NoCall
    <2> QED BY <2>1 DEF Says
<1> QED BY <1>1, TypedServer DEF Goes, Gateway!NoCall, Gateway!Finish, Gateway!PC

LEMMA RefusedSays ==
    ASSUME GwInv, NEW r \in Req, Ready(r), NEW p \in Gateway!Rpc, Gateway!Pending(r, p),
             Gateway!Refused(r)
    PROVE  Goes(r, p)
<1>1. rpc' = [rpc EXCEPT ![r] = "sent"] /\ turn' = turn /\ turn[r] = "none"
    BY DEF Gateway!Pending, Gateway!Refused, Ready, GwInv, ThreadInv
<1>2. Sound(1, Gateway!Resp(r, "err"))
    BY <1>1, RespIs, TypedServer DEF Sound, Ready
<1>3. Says(<<Gateway!Resp(r, "err")>>)
    BY <1>2, RespIs, SaysOne DEF Gateway!Refused, Gateway!Emit
<1> QED BY <1>1, <1>3, TypedServer, CallFault DEF Goes, Gateway!Refused, Gateway!Pending,
         Gateway!PC, Gateway!Rpc

LEMMA OneLineGoes ==
    ASSUME GwInv, NEW r \in Req, Ready(r), NEW p \in Gateway!Rpc, Gateway!Pending(r, p),
             NEW v \in {"ok", "err"},
           v = "err" => p # "turnRpc", Gateway!Emit(<<Gateway!Resp(r, v)>>), turn' = turn,
                    thr' \subseteq Req,
           gFaults' = gFaults
    PROVE  Goes(r, p)
<1>1. rpc' = [rpc EXCEPT ![r] = "sent"] /\ gpc' = [gpc EXCEPT ![r] = p]
    BY DEF Gateway!Pending
<1>2. Sound(1, Gateway!Resp(r, v))
    BY <1>1, RespIs, TypedServer DEF Sound, Ready
<1>3. Says(<<Gateway!Resp(r, v)>>)
    BY <1>2, RespIs, SaysOne DEF Gateway!Emit
<1> QED BY <1>3, TypedServer DEF Goes, Gateway!Pending, Gateway!PC, Gateway!Rpc

LEMMA CallThreadGoes ==
    ASSUME GwInv, NEW r \in Req, Ready(r), NEW op, Gateway!CallThread(r, op)
    PROVE  /\ turn' = turn
           /\ \E p \in {"createRpc", "threadRpc"} : Goes(r, p)
<1> DEFINE p == IF op = "create" THEN "createRpc" ELSE "threadRpc"
<1>1. p \in Gateway!Rpc /\ p \in {"createRpc", "threadRpc"} /\ Gateway!Pending(r, p)
    BY DEF Gateway!CallThread, Gateway!Rpc
<1> HIDE DEF p
<1>2. CASE Gateway!Refused(r)
    BY <1>1, <1>2, RefusedSays DEF Gateway!Refused
<1>3. CASE thr' = thr \cup {r} /\ Gateway!Emit(<<Gateway!Resp(r, "ok")>>)
         /\ UNCHANGED <<turn, gFaults>>
    BY <1>1, <1>3, OneLineGoes, TypedServer
<1> QED BY <1>2, <1>3 DEF Gateway!CallThread

LEMMA CallTurnGoes ==
    ASSUME GwInv, NEW r \in Req, Ready(r), Gateway!CallTurn(r) PROVE Goes(r, "turnRpc")
<1>1. "turnRpc" \in Gateway!Rpc /\ Gateway!Pending(r, "turnRpc")
    BY DEF Gateway!CallTurn, Gateway!Rpc
<1>2. CASE Gateway!Refused(r)
    BY <1>1, <1>2, RefusedSays
<1>3. CASE /\ turn' = [turn EXCEPT ![r] = "running"]
           /\ Gateway!Emit(<<Gateway!Resp(r, "ok"), [k |-> "started", r |-> r]>>)
           /\ UNCHANGED <<thr, gFaults>>
    <2> DEFINE m == [k |-> "started", r |-> r]
    <2>1. m \in Ln /\ m.k = "started" /\ m.r = r
        BY DEF Ln
    <2>2. turn' \in [Req -> Status] /\ turn'[r] = "running"
             /\ \A x \in Req \ {r} : turn'[x] = turn[x]
        BY <1>3, TypedServer DEF Status
    <2>3. rpc' = [rpc EXCEPT ![r] = "sent"]
        BY <1>1 DEF Gateway!Pending
    <2>4. Sound(1, Gateway!Resp(r, "ok")) /\ Sound(2, m)
        BY <2>1, <2>2, <2>3, RespIs, TypedServer DEF Sound, Ready, IsResp
    <2>5. Says(<<Gateway!Resp(r, "ok"), m>>)
        BY <1>3, <2>1, <2>4, RespIs, SaysTwo DEF Gateway!Emit
    <2> QED BY <1>1, <1>3, <2>2, <2>5, TypedServer DEF Goes, Gateway!Pending, Gateway!PC
<1> QED BY <1>2, <1>3 DEF Gateway!CallTurn

LEMMA CallSteerGoes ==
    ASSUME GwInv, NEW r \in Req, Ready(r), NEW t, Gateway!CallSteer(r, t) PROVE Goes(r, "steerRpc")
<1>1. PICK v \in {"ok", "err"} : Gateway!Emit(<<Gateway!Resp(r, v)>>)
    BY DEF Gateway!CallSteer
<1>2. "steerRpc" \in Gateway!Rpc
    BY DEF Gateway!Rpc
<1> QED BY <1>1, <1>2, OneLineGoes, TypedServer DEF Gateway!CallSteer

LEMMA CallInjectGoes ==
    ASSUME GwInv, NEW r \in Req, Ready(r), Gateway!CallInject(r) PROVE Goes(r, "injectRpc")
<1>1. "injectRpc" \in Gateway!Rpc
    BY DEF Gateway!Rpc
<1> QED BY <1>1, OneLineGoes, TypedServer DEF Gateway!CallInject

LEMMA CallInterruptGoes ==
    ASSUME GwInv, NEW r \in Req, Ready(r), NEW t \in Req, Gateway!CallInterrupt(r, t)
    PROVE  Goes(r, "interruptRpc")
<1>1. "interruptRpc" \in Gateway!Rpc /\ Gateway!Pending(r, "interruptRpc")
         /\ UNCHANGED <<thr, gFaults>>
    BY DEF Gateway!CallInterrupt, Gateway!Rpc
<1>2. CASE Gateway!Emit(<<Gateway!Resp(r, "err")>>) /\ UNCHANGED turn
    BY <1>1, <1>2, OneLineGoes, TypedServer
<1>3. CASE /\ turn[t] = "running" /\ turn' = [turn EXCEPT ![t] = "interrupted"]
           /\ Gateway!Emit(<<Gateway!Resp(r, "ok"), [k |-> "ended", r |-> t]>>)
    <2> DEFINE m == [k |-> "ended", r |-> t]
    <2>1. m \in Ln /\ m.k = "ended" /\ m.r = t
        BY DEF Ln
    <2>2. /\ turn' \in [Req -> Status] /\ turn'[t] \in Gateway!Ended
          /\ \A x \in Req \ {t} : turn'[x] = turn[x]
        BY <1>3, TypedServer DEF Status, Gateway!Ended
    <2>3. rpc' = [rpc EXCEPT ![r] = "sent"]
        BY <1>1 DEF Gateway!Pending
    <2>4. Sound(1, Gateway!Resp(r, "ok")) /\ Sound(2, m)
        BY <2>1, <2>2, <2>3, RespIs, TypedServer DEF Sound, Ready, IsResp
    <2>5. Says(<<Gateway!Resp(r, "ok"), m>>)
        BY <1>3, <2>1, <2>4, RespIs, SaysTwo DEF Gateway!Emit
    <2> QED BY <1>1, <1>3, <2>2, <2>5, TypedServer DEF Goes, Gateway!Pending, Gateway!PC
<1> QED BY <1>2, <1>3 DEF Gateway!CallInterrupt

\* The queue, the calls and the lines, whichever way the request goes on.
LEMMA GoesInv ==
    ASSUME GwInv, NEW r \in Req, NEW p, Ready(r), Goes(r, p), Grows,
           \/ inq' = inq /\ (gpc[r] # "new" \/ ~Gateway!ViaBus(r))
           \/ Gateway!Take([k |-> "req", r |-> r]),
           fin' = fin, chunk' = chunk
    PROVE  /\ QueueInv' /\ inq' \in Seq(Msg) /\ BusyInv' /\ RespLines' /\ TurnLines'
           /\ out' \in Seq(Ln) /\ CallState' /\ EndState' /\ ChunkInv'
           /\ gpc' \in [Req -> Gateway!PC] /\ busy' \in Req \cup {Gateway!None}
           /\ rpc' \in [Req -> {"idle", "sent", "ok", "err"}]
<1>1. gpc' \in [Req -> Gateway!PC] /\ rpc' \in [Req -> {"idle", "sent", "ok", "err"}]
         /\ p \in Gateway!PC
    BY TypedServer DEF Goes
<1>2. busy \in Req \cup {Gateway!None} /\ busy' \in Req \cup {Gateway!None}
    BY DEF Goes, GwInv, Gateway!RequestsTyped
<1>3. \A x \in Req \ {r} : gpc'[x] = gpc[x] /\ rpc'[x] = rpc[x]
    BY TypedServer DEF Goes
<1>4. QueueInv' /\ inq' \in Seq(Msg)
    <2>1. CASE inq' = inq /\ (gpc[r] # "new" \/ ~Gateway!ViaBus(r))
        BY <1>3, <2>1, QueueStays
    <2>2. CASE Gateway!Take([k |-> "req", r |-> r])
        BY <1>3, <2>2, QueueTaken
    <2> QED BY <2>1, <2>2
<1>5. BusyInv'
    <2> SUFFICES ASSUME NEW x \in Req, Gateway!ViaBus(x), gpc'[x] \notin {"absent", "new", "done"}
                 PROVE  busy' = x
        BY DEF BusyInv, Gateway!ViaBus
    <2>1. CASE x = r
        BY <2>1, TypedServer DEF Goes
    <2>2. CASE x # r
        <3>1. busy = x
            BY <1>3, <2>2 DEF GwInv, BusyInv
        <3> QED BY <2>2, <3>1, Typed DEF Goes, Ready
    <2> QED BY <2>1, <2>2
<1>6. TurnsLast /\ turn[r] = "none"
    <2>1. turn[r] = "none"
        BY DEF Ready, GwInv, ThreadInv
    <2> QED BY <2>1 DEF TurnsLast, Goes, Gateway!Ended
<1>7. out' \in Seq(Ln) /\ RespLines' /\ TurnLines'
    <2>1. PICK L : Says(L)
        BY DEF Goes
    <2>2. \A x \in Req : rpc[x] = "sent" =>
               rpc'[x] = "sent" /\ gpc'[x] = gpc[x] /\ (turn[x] = "none" => turn'[x] = "none")
        BY <1>3 DEF Ready, Goes
    <2> QED BY <1>6, <2>1, <2>2, OutGrows
<1>8. CallState'
    <2>1. CallState
        BY Parts
    <2>2. \A x \in Req \ {r} : turn[x] = "none" => turn'[x] = "none"
        BY DEF Goes
    <2>3. gpc'[r] = p /\ (p # "done" => rpc'[r] = "sent")
        BY TypedServer DEF Goes
    <2> QED BY <1>3, <2>1, <2>2, <2>3 DEF CallState, Goes
<1>9. EndState'
    <2>1. EndState
        BY Parts
    <2>2. gpc'[r] # "cleanup"
        BY TypedServer DEF Goes
    <2> QED BY <1>3, <1>6, <2>1, <2>2 DEF EndState, TurnsLast
<1>10. ChunkInv'
    <2>1. PICK L : Says(L)
        BY DEF Goes
    <2>2. out \in Seq(Ln) /\ L \in Seq(Ln) /\ out' = out \o L /\ chunk \in Nat /\ chunk <= Len(out)
        BY <2>1, Typed2 DEF Says
    <2>3. Len(out') = Len(out) + Len(L) /\ Len(L) \in Nat /\ Len(out) \in Nat
        BY <2>2
    <2> QED BY <2>2, <2>3 DEF ChunkInv
<1> QED BY <1>1, <1>2, <1>4, <1>5, <1>7, <1>8, <1>9, <1>10

\* The request now works on thread t.
Settles(r, t, p) ==
    /\ t \in Req /\ p \in After
    /\ t = r \/ (gpc[t] \in After /\ (Gateway!IsJob(r) => \E i \in DOMAIN cache : cache[i].th = t))
    /\ Gateway!IsJob(r) => Attr[t].key = Attr[r].key /\ Attr[t].ctx = Attr[r].ctx
    /\ th' = [th EXCEPT ![r] = t]
    /\ \/ sth' = sth /\ byThread' = byThread
       \/ /\ ~Gateway!IsJob(r) /\ sth[Attr[r].sid] = Gateway!None
          /\ sth' = [sth EXCEPT ![Attr[r].sid] = t]
                   /\ byThread' = [byThread EXCEPT ![t] = Attr[r].sid]
    /\ p = "turnRpc" /\ ~Gateway!IsJob(r) => sth'[Attr[r].sid] = t
    /\ p \in {"steerRpc", "injectRpc", "interruptRpc"} => ~Gateway!IsJob(r)
    /\ \/ tn' = tn /\ p # "steerRpc"
       \/ tn' = [tn EXCEPT ![r] = act[Attr[r].sid]] /\ (p = "steerRpc"
                => act[Attr[r].sid] # Gateway!None)
    /\ act' = act /\ fin' = fin
    /\ MapOk(cache')
    /\ \A i \in DOMAIN cache' : \/ \E j \in DOMAIN cache : cache'[i] = cache[j]
                                \/ t = r /\ cache'[i] = [key |-> Attr[r].key, th |-> r]

LEMMA TypedThreads ==
    GwInv => /\ th \in [Req -> Req \cup {Gateway!None}] /\ tn \in [Req -> Req \cup {Gateway!None}]
            /\ sth \in [Sid -> Req \cup {Gateway!None}] /\ act \in [Sid -> Req \cup {Gateway!None}]
            /\ byThread \in [Req -> Sid \cup {Gateway!None}]
                     /\ fin \in [Req -> Req \cup {Gateway!None}]
            /\ cache \in Seq(Entry) /\ \A i \in DOMAIN cache : cache[i].th \in Req
<1>1. GwInv => cache \in Seq(Entry)
    BY DEF GwInv, Gateway!RequestsTyped, Entry
<1>2. GwInv => \A i \in DOMAIN cache : cache[i] \in Entry
    BY <1>1
<1> QED BY <1>1, <1>2 DEF GwInv, Gateway!RequestsTyped, Entry

LEMMA SettlesInv ==
    ASSUME GwInv, NEW r \in Req, NEW p, NEW t, Ready(r), Goes(r, p), Settles(r, t, p)
    PROVE  /\ ThreadInv' /\ CacheInv' /\ SessionInv' /\ JobInv'
           /\ th' \in [Req -> Req \cup {Gateway!None}] /\ tn' \in [Req -> Req \cup {Gateway!None}]
           /\ sth' \in [Sid -> Req \cup {Gateway!None}]
                    /\ byThread' \in [Req -> Sid \cup {Gateway!None}]
<1>1. /\ th' \in [Req -> Req \cup {Gateway!None}] /\ tn' \in [Req -> Req \cup {Gateway!None}]
      /\ sth' \in [Sid -> Req \cup {Gateway!None}] /\ byThread' \in [Req -> Sid \cup {Gateway!None}]
    BY Typed, TypedThreads DEF Settles
<1>2. gpc'[r] = p /\ p \in After /\ p \notin Before /\ gpc[r] \in Before /\ gpc[r] \notin After
    BY TypedServer DEF Goes, Settles, Ready, After
<1>3. \A x \in Req \ {r} : gpc'[x] = gpc[x] /\ th'[x] = th[x]
    BY TypedServer, TypedThreads DEF Goes, Settles
<1>4. th'[r] = t /\ t \in Req /\ t # Gateway!None
    BY Typed, TypedThreads DEF Settles
<1>5. \A x \in Req : gpc[x] \in After => gpc'[x] \in After
    BY <1>2, <1>3
<1>6. /\ turn[r] = "none" /\ th[r] = Gateway!None
      /\ \A x \in Req \ {r} : /\ turn'[x] = "none" <=> turn[x] = "none"
                              /\ turn'[x] = "running" => turn[x] = "running"
      /\ turn'[r] # "none" => p = "turnRpc"
    <2>1. turn[r] = "none" /\ th[r] = Gateway!None
        BY <1>2 DEF GwInv, ThreadInv
    <2> QED BY <2>1 DEF Goes, Gateway!Ended
<1>7. gpc'[t] \in After
    BY <1>2, <1>5 DEF Settles
<1>8. ThreadInv'
    <2>1. ThreadInv
        BY DEF GwInv
    <2>2. \A x \in Req : gpc'[x] \in Before => turn'[x] = "none" /\ th'[x] = Gateway!None
        BY <1>2, <1>3, <1>6, <2>1 DEF ThreadInv
    <2>3. \A x \in Req : turn'[x] # "none" => th'[x] # Gateway!None
        BY <1>3, <1>4, <1>6, <2>1 DEF ThreadInv
    <2>4. \A x \in Req : th'[x] # Gateway!None => gpc'[th'[x]] \in After
        BY <1>3, <1>4, <1>5, <1>7, <2>1, TypedThreads DEF ThreadInv
    <2>5. \A j \in Req : Gateway!IsJob(j) /\ th'[j] # Gateway!None =>
              Attr[th'[j]].key = Attr[j].key /\ Attr[th'[j]].ctx = Attr[j].ctx
        BY <1>3, <1>4, <2>1 DEF ThreadInv, Settles
    <2> QED BY <2>2, <2>3, <2>4, <2>5 DEF ThreadInv, Before, After, Gateway!IsJob, Gateway!PC
<1>9. CacheInv'
    <2>1. CacheInv
        BY DEF GwInv
    <2>2. ASSUME NEW i \in DOMAIN cache'
          PROVE  cache'[i].key = Attr[cache'[i].th].key /\ gpc'[cache'[i].th] \in After
        <3>1. CASE \E j \in DOMAIN cache : cache'[i] = cache[j]
            BY <1>5, <2>1, <3>1, TypedThreads DEF CacheInv
        <3>2. CASE t = r /\ cache'[i] = [key |-> Attr[r].key, th |-> r]
            BY <1>2, <3>2
        <3> QED BY <3>1, <3>2 DEF Settles
    <2>3. \A i, j \in DOMAIN cache' : cache'[i].key = cache'[j].key => i = j
        BY DEF Settles, MapOk
    <2> QED BY <2>2, <2>3 DEF CacheInv, After, Before, Gateway!PC
<1>10. SessionInv'
    <2> DEFINE s == Attr[r].sid
    <2>0. s \in Sid /\ SessionInv /\ Gateway!None \notin Req
        BY Typed DEF GwInv
    <2>1. \A x \in Sid : sth[x] # Gateway!None => sth'[x] = sth[x]
        BY <2>0, TypedThreads DEF Settles
    <2>2. ASSUME NEW x \in Req, NEW y \in Sid, OfSession(x, y)
          PROVE  x # Gateway!None /\ sth'[y] # Gateway!None /\ th'[x] = sth'[y] /\ gpc'[x] \in After
        BY <1>2, <1>3, <1>5, <2>1, <2>2 DEF OfSession
    <2>3. ASSUME NEW x \in Req, byThread'[x] # Gateway!None PROVE sth'[byThread'[x]] = x
        <3>1. CASE sth' = sth /\ byThread' = byThread
            BY <2>0, <2>3, <3>1 DEF SessionInv
        <3>2. CASE /\ sth[s] = Gateway!None
                   /\ sth' = [sth EXCEPT ![s] = t] /\ byThread' = [byThread EXCEPT ![t] = s]
            <4>1. CASE x = t
                BY <1>4, <2>0, <3>2, <4>1, TypedThreads
            <4>2. CASE x # t
                <5>1. byThread'[x] = byThread[x] /\ byThread[x] \in Sid
                    BY <2>3, <3>2, <4>2, TypedThreads
                <5>2. sth[byThread[x]] = x
                    BY <2>0, <2>3, <5>1 DEF SessionInv
                <5> QED BY <2>0, <2>1, <5>1, <5>2
            <4> QED BY <4>1, <4>2
        <3> QED BY <3>1, <3>2 DEF Settles
    <2>4. \A x \in Sid : sth'[x] # Gateway!None => gpc'[sth'[x]] \in After
        <3>1. \A x \in Sid : sth'[x] = sth[x] \/ sth'[x] = t
            BY <2>0, TypedThreads DEF Settles
        <3>2. \A x \in Sid : sth[x] # Gateway!None => gpc[sth[x]] \in After /\ sth[x] \in Req
            BY <2>0, TypedThreads DEF SessionInv
        <3> QED BY <1>5, <1>7, <3>1, <3>2
    <2>5. \A x \in Sid : act'[x] # Gateway!None =>
              sth'[x] # Gateway!None /\ th'[act'[x]] = sth'[x] /\ gpc'[act'[x]] \in After
        <3>1. act' = act
            BY DEF Settles
        <3>2. \A x \in Sid : act[x] # Gateway!None => act[x] \in Req /\ OfSession(act[x], x)
            BY Kept
        <3> QED BY <2>2, <3>1, <3>2
    <2>6. ASSUME NEW x \in Req, gpc'[x] = "turnRpc", ~Gateway!IsJob(x)
          PROVE  /\ x # Gateway!None /\ sth'[Attr[x].sid] # Gateway!None
                 /\ th'[x] = sth'[Attr[x].sid] /\ gpc'[x] \in After
        <3>1. CASE x = r
            BY <1>2, <1>4, <2>0, <2>6, <3>1 DEF Settles
        <3>2. CASE x # r
            <4>1. OfSession(x, Attr[x].sid)
                BY <1>3, <2>0, <2>6, <3>2 DEF SessionInv
            <4> QED BY <2>2, <4>1, Typed
        <3> QED BY <3>1, <3>2
    <2>7. ASSUME NEW x \in Req, gpc'[x] = "steerRpc"
          PROVE  /\ tn'[x] # Gateway!None /\ sth'[Attr[x].sid] # Gateway!None
                 /\ th'[tn'[x]] = sth'[Attr[x].sid] /\ gpc'[tn'[x]] \in After
        <3>1. CASE x = r
            <4>1. tn'[r] = act[s] /\ act[s] # Gateway!None
                BY <1>2, <2>7, <3>1, TypedThreads DEF Settles
            <4>2. act[s] \in Req /\ OfSession(act[s], s)
                BY <2>0, <4>1, Kept
            <4> QED BY <2>0, <2>2, <3>1, <4>1, <4>2
        <3>2. CASE x # r
            <4>1. tn'[x] = tn[x] /\ OfSession(tn[x], Attr[x].sid)
                BY <1>3, <2>0, <2>7, <3>2, TypedThreads DEF SessionInv, Settles
            <4>2. tn[x] \in Req
                BY <4>1, TypedThreads DEF OfSession
            <4> QED BY <2>2, <4>1, <4>2, Typed
        <3> QED BY <3>1, <3>2
    <2>8. \A x \in Req : gpc'[x] \in {"steerRpc", "injectRpc", "interruptRpc"} => ~Gateway!IsJob(x)
        BY <1>2, <1>3, <2>0 DEF SessionInv, Settles
    <2> QED BY <2>3, <2>4, <2>5, <2>6, <2>7, <2>8
            DEF SessionInv, OfSession, After, Before, Gateway!PC, Gateway!IsJob
<1>11. JobInv'
    <2>0. JobInv /\ fin' = fin
        BY DEF GwInv, Settles
    <2>1. \A q \in Req \ {r} : Running(q)' => Running(q)
        BY <1>6, <2>0 DEF Running, Gateway!IsJob
    <2>2. \A q \in Req \ {r} : Running(q) => th[q] # r /\ th[q] # Gateway!None
        BY <1>2, Typed DEF Running, GwInv, ThreadInv
    <2>3. ASSUME NEW q \in Req, Running(q)', gpc'[q] = "done", NEW i \in DOMAIN cache'
          PROVE  cache'[i].th # th'[q]
        <3>1. q # r
            BY <1>2, <1>6, <2>3 DEF Running
        <3>2. Running(q) /\ gpc[q] = "done" /\ th'[q] = th[q]
            BY <1>3, <2>1, <2>3, <3>1
        <3>3. CASE \E j \in DOMAIN cache : cache'[i] = cache[j]
            BY <2>0, <3>2, <3>3 DEF JobInv
        <3>4. CASE cache'[i] = [key |-> Attr[r].key, th |-> r]
            BY <2>2, <3>1, <3>2, <3>4
        <3> QED BY <3>3, <3>4 DEF Settles
    <2>4. ASSUME NEW j \in Req \ {r}, Running(j), Gateway!IsJob(r) PROVE th[j] # t
        <3>1. CASE t = r
            BY <2>2, <2>4, <3>1
        <3>2. CASE \E i \in DOMAIN cache : cache[i].th = t
            <4>1. gpc[j] = "done"
                <5>1. gpc[j] \in After
                    BY <2>4, TypedServer DEF Running, GwInv, ThreadInv, After
                <5>2. Gateway!ViaBus(j) /\ Gateway!ViaBus(r)
                    BY <2>4 DEF Gateway!ViaBus, Gateway!IsJob, Running
                <5>3. gpc[j] # "done" => busy = j
                    BY <5>1, <5>2 DEF GwInv, BusyInv, After, Before
                <5> QED BY <2>4, <5>2, <5>3, Typed DEF Ready
            <4> QED BY <2>0, <2>4, <3>2, <4>1 DEF JobInv
        <3> QED BY <2>4, <3>1, <3>2 DEF Settles
    <2>5. ASSUME NEW q \in Req, NEW j \in Req, Running(q)', Running(j)', th'[q] = th'[j]
          PROVE  q = j
        <3>1. CASE q # r /\ j # r
            BY <1>3, <2>0, <2>1, <2>5, <3>1 DEF JobInv
        <3>2. CASE q = r /\ j # r
            BY <1>3, <1>4, <2>1, <2>4, <2>5, <3>2 DEF Running
        <3>3. CASE j = r /\ q # r
            BY <1>3, <1>4, <2>1, <2>4, <2>5, <3>3 DEF Running
        <3> QED BY <3>1, <3>2, <3>3
    <2> QED BY <2>3, <2>5 DEF JobInv, Running, Gateway!IsJob
<1> QED BY <1>1, <1>8, <1>9, <1>10, <1>11

\* The request goes on without a thread: its call for one is under way, or it has failed.
Waits(r, p) ==
    /\ p \in {"threadRpc", "createRpc", "done"}
    /\ UNCHANGED <<th, tn, sth, byThread, act, fin, turn>>
    /\ MapOk(cache') /\ Among(cache', cache)

LEMMA WaitsInv ==
    ASSUME GwInv, NEW r \in Req, NEW p, Ready(r), Goes(r, p), Waits(r, p)
    PROVE  ThreadInv' /\ CacheInv' /\ SessionInv' /\ JobInv'
<1> USE DEF Waits
<1>1. /\ \A x \in Req \ {r} : gpc'[x] = gpc[x]
      /\ gpc'[r] = p /\ p \in {"threadRpc", "createRpc", "done"} /\ gpc[r] \in Before
      /\ turn[r] = "none" /\ th[r] = Gateway!None
      /\ gpc' \in [Req -> Gateway!PC]
    BY TypedServer DEF Goes, Ready, GwInv, ThreadInv, Gateway!PC
<1>2. \A x \in Req : /\ gpc[x] \in After => gpc'[x] \in After
                     /\ gpc'[x] \in Before => gpc[x] \in Before
                     /\ gpc'[x] = "turnRpc" => gpc[x] = "turnRpc"
                     /\ gpc'[x] = "steerRpc" => gpc[x] = "steerRpc"
                     /\ gpc'[x] \in {"steerRpc", "injectRpc", "interruptRpc"} => gpc'[x] = gpc[x]
                     /\ gpc'[x] = "done" /\ x # r => gpc[x] = "done"
    BY <1>1 DEF After, Before, Gateway!PC
<1>3. ThreadInv'
    <2>1. ThreadInv
        BY DEF GwInv
    <2>2. \A x \in Req : gpc'[x] \in Before => turn'[x] = "none" /\ th'[x] = Gateway!None
        BY <1>2, <2>1 DEF ThreadInv
    <2>3. \A x \in Req : th'[x] # Gateway!None => gpc'[th'[x]] \in After
        BY <1>2, <2>1, TypedThreads DEF ThreadInv
    <2>4. \A x \in Req : turn'[x] # "none" => th'[x] # Gateway!None
        BY <2>1 DEF ThreadInv
    <2>5. \A j \in Req : Gateway!IsJob(j) /\ th'[j] # Gateway!None =>
              Attr[th'[j]].key = Attr[j].key /\ Attr[th'[j]].ctx = Attr[j].ctx
        BY <2>1 DEF ThreadInv
    <2> QED BY <2>2, <2>3, <2>4, <2>5 DEF ThreadInv, Before, After, Gateway!IsJob, Gateway!PC
<1>4. CacheInv'
    <2>1. CacheInv
        BY DEF GwInv
    <2>2. ASSUME NEW i \in DOMAIN cache'
          PROVE  cache'[i].key = Attr[cache'[i].th].key /\ gpc'[cache'[i].th] \in After
        <3>1. PICK j \in DOMAIN cache : cache'[i] = cache[j]
            BY DEF Among
        <3> QED BY <1>2, <2>1, <3>1, TypedThreads DEF CacheInv
    <2> QED BY <2>2 DEF CacheInv, MapOk, After, Before, Gateway!PC
<1>5. SessionInv'
    <2>1. SessionInv
        BY DEF GwInv
    <2>2. \A t \in Req, s \in Sid : OfSession(t, s) =>
              t # Gateway!None /\ sth'[s] # Gateway!None /\ th'[t] = sth'[s] /\ gpc'[t] \in After
        BY <1>2 DEF OfSession
    <2>3. \A x \in Req : byThread'[x] # Gateway!None => sth'[byThread'[x]] = x
        BY <2>1 DEF SessionInv
    <2>4. \A s \in Sid : sth'[s] # Gateway!None => gpc'[sth'[s]] \in After
        BY <1>2, <2>1, TypedThreads DEF SessionInv
    <2>5. \A s \in Sid : act'[s] # Gateway!None =>
              sth'[s] # Gateway!None /\ th'[act'[s]] = sth'[s] /\ gpc'[act'[s]] \in After
        BY <2>2, Kept
    <2>6. \A x \in Req : gpc'[x] = "turnRpc" /\ ~Gateway!IsJob(x) =>
              /\ x # Gateway!None /\ sth'[Attr[x].sid] # Gateway!None
              /\ th'[x] = sth'[Attr[x].sid] /\ gpc'[x] \in After
        BY <1>2, <2>1, <2>2, Typed DEF SessionInv
    <2>7. \A x \in Req : gpc'[x] = "steerRpc" =>
              /\ tn'[x] # Gateway!None /\ sth'[Attr[x].sid] # Gateway!None
              /\ th'[tn'[x]] = sth'[Attr[x].sid] /\ gpc'[tn'[x]] \in After
        <3>1. \A x \in Req : gpc'[x] = "steerRpc" =>
                  OfSession(tn[x], Attr[x].sid) /\ tn[x] \in Req
            BY <1>2, <2>1, TypedThreads DEF SessionInv, OfSession
        <3> QED BY <2>2, <3>1, Typed
    <2>8. \A x \in Req : gpc'[x] \in {"steerRpc", "injectRpc", "interruptRpc"} => ~Gateway!IsJob(x)
        BY <1>2, <2>1 DEF SessionInv
    <2> QED BY <2>3, <2>4, <2>5, <2>6, <2>7, <2>8
            DEF SessionInv, OfSession, After, Before, Gateway!PC, Gateway!IsJob
<1>6. JobInv'
    <2>1. JobInv
        BY DEF GwInv
    <2>2. ASSUME NEW q \in Req, Running(q), gpc'[q] = "done", NEW i \in DOMAIN cache'
          PROVE  cache'[i].th # th'[q]
        <3>1. q # r
            BY <1>1, <2>2 DEF Running
        <3>2. gpc[q] = "done"
            BY <1>2, <2>2, <3>1
        <3>3. PICK j \in DOMAIN cache : cache'[i] = cache[j]
            BY DEF Among
        <3> QED BY <2>1, <2>2, <3>2, <3>3 DEF JobInv
    <2> QED BY <2>1, <2>2 DEF JobInv, Running, Gateway!IsJob
<1> QED BY <1>3, <1>4, <1>5, <1>6

-----------------------------------------------------------------------------
(* What a request does once it is ready to go on. *)

Speaks(r) == said' = said \/ \E w \in SUBSET (Said \ {"ref"}) : Gateway!Reply(r, w)

LEMMA UseSessionGoes ==
    ASSUME GwInv, NEW r \in Req, Ready(r), ~Gateway!IsJob(r), NEW op, Gateway!UseSession(r, op)
    PROVE  /\ \E p \in After : Goes(r, p) /\ (p = "steerRpc" => act[Attr[r].sid] # Gateway!None)
           /\ Speaks(r) /\ tn' = [tn EXCEPT ![r] = act[Attr[r].sid]]
<1> DEFINE a == act[Attr[r].sid]
<1>1. tn' = [tn EXCEPT ![r] = a] /\ a \in Req \cup {Gateway!None}
    BY Typed, TypedThreads DEF Gateway!UseSession
<1>2. {"done", "injectRpc", "interruptRpc", "steerRpc", "turnRpc"} \subseteq After
    BY DEF After, Before, Gateway!PC
<1>3. CASE Gateway!NoCall(r, {"failed"})
    <2>1. {"failed"} \in SUBSET (Said \ {"ref"}) /\ Gateway!Reply(r, {"failed"})
        BY <1>3 DEF Said, Gateway!NoCall
    <2>2. Goes(r, "done")
        BY <1>3, NoCallGoes
    <2> QED BY <1>1, <1>2, <2>1, <2>2 DEF Speaks
<1>4. CASE Gateway!CallInject(r) /\ UNCHANGED said
    BY <1>1, <1>2, <1>4, CallInjectGoes DEF Speaks
<1>5. CASE (\E t \in Gateway!Named(Attr[r].sid) : Gateway!CallInterrupt(r, t)) /\ UNCHANGED said
    <2>1. Goes(r, "interruptRpc")
        BY <1>5, CallInterruptGoes DEF Gateway!Named
    <2> QED BY <1>1, <1>2, <1>5, <2>1 DEF Speaks
<1>6. CASE a # Gateway!None /\ Gateway!CallSteer(r, a) /\ UNCHANGED said
    <2>1. Goes(r, "steerRpc")
        BY <1>6, CallSteerGoes
    <2> QED BY <1>1, <1>2, <1>6, <2>1 DEF Speaks
<1>7. CASE Gateway!CallTurn(r) /\ UNCHANGED said
    BY <1>1, <1>2, <1>7, CallTurnGoes DEF Speaks
<1> QED BY <1>3, <1>4, <1>5, <1>6, <1>7 DEF Gateway!UseSession

\* What GetThread and GotThread say of the thread and the cache they hand on.
Fits(r, t) ==
    /\ t \in Req
    /\ t = r \/ (gpc[t] \in After /\ (Gateway!IsJob(r) => \E i \in DOMAIN cache : cache[i].th = t))
    /\ Gateway!IsJob(r) => Attr[t].key = Attr[r].key /\ Attr[t].ctx = Attr[r].ctx
    /\ act' = act /\ fin' = fin
    /\ MapOk(cache')
    /\ \A i \in DOMAIN cache' : \/ \E j \in DOMAIN cache : cache'[i] = cache[j]
                                \/ t = r /\ cache'[i] = [key |-> Attr[r].key, th |-> r]

LEMMA WithThreadGoes ==
    ASSUME GwInv, NEW r \in Req, Ready(r), NEW t, Fits(r, t), NEW op, Gateway!WithThread(r, t, op)
    PROVE  /\ \E p : Goes(r, p) /\ Settles(r, t, p)
           /\ Speaks(r) /\ hdl' \subseteq Req
<1> DEFINE s == Attr[r].sid
           new == ~Gateway!IsJob(r) /\ sth[s] = Gateway!None
<1>1. /\ th' = [th EXCEPT ![r] = t] /\ hdl' = IF Gateway!IsJob(r) THEN hdl \cup {r} ELSE hdl
      /\ sth' = [sth EXCEPT ![s] = IF new THEN t ELSE @]
      /\ byThread' = [byThread EXCEPT ![t] = IF new THEN s ELSE @]
    BY DEF Gateway!WithThread
<1>2. s \in Sid /\ t \in Req
    BY Typed DEF Fits
<1>3. hdl' \subseteq Req
    BY <1>1 DEF GwInv, Gateway!RequestsTyped
<1>4. \/ sth' = sth /\ byThread' = byThread /\ ~new
      \/ /\ ~Gateway!IsJob(r) /\ sth[s] = Gateway!None
         /\ sth' = [sth EXCEPT ![s] = t] /\ byThread' = [byThread EXCEPT ![t] = s]
    BY <1>1, TypedThreads
<1>5. {"done", "turnRpc"} \subseteq After
    BY DEF After, Before, Gateway!PC
<1>6. CASE Gateway!IsJob(r) /\ Gateway!CallTurn(r) /\ UNCHANGED <<said, tn>>
    <2>1. Goes(r, "turnRpc")
        BY <1>6, CallTurnGoes
    <2>2. Settles(r, t, "turnRpc")
        BY <1>1, <1>4, <1>5, <1>6 DEF Settles, Fits
    <2> QED BY <1>3, <1>6, <2>1, <2>2 DEF Speaks
<1>7. ASSUME ~Gateway!IsJob(r), NEW w \in SUBSET (Said \ {"ref"}), Gateway!NoCall(r, w),
         UNCHANGED tn
      PROVE  Goes(r, "done") /\ Settles(r, t, "done") /\ Speaks(r)
    <2>1. Goes(r, "done") /\ Gateway!Reply(r, w)
        BY <1>7, NoCallGoes DEF Gateway!NoCall
    <2>2. Settles(r, t, "done")
        BY <1>1, <1>4, <1>5, <1>7 DEF Settles, Fits
    <2> QED BY <2>1, <2>2 DEF Speaks
<1>8. {"rejected"} \in SUBSET (Said \ {"ref"}) /\ {"ready"} \in SUBSET (Said \ {"ref"})
    BY DEF Said
<1>9. CASE ~Gateway!IsJob(r) /\ Gateway!Matches(r, t) /\ Gateway!UseSession(r, op)
    <2>1. sth'[s] = t
        BY <1>2, <1>4, <1>9, TypedThreads DEF Gateway!Matches
    <2>2. PICK p \in After : Goes(r, p) /\ (p = "steerRpc" => act[s] # Gateway!None)
        BY <1>9, UseSessionGoes
    <2>3. Speaks(r) /\ tn' = [tn EXCEPT ![r] = act[s]]
        BY <1>9, UseSessionGoes
    <2>4. Settles(r, t, p)
        BY <1>1, <1>4, <1>9, <2>1, <2>2, <2>3 DEF Settles, Fits
    <2> QED BY <1>3, <2>2, <2>3, <2>4
<1> QED BY <1>3, <1>6, <1>7, <1>8, <1>9 DEF Gateway!WithThread

LEMMA GetThreadGoes ==
    ASSUME GwInv, NEW r \in Req, Ready(r), NEW op, Gateway!GetThread(r, op), act' = act, fin' = fin
    PROVE  /\ \E p : Goes(r, p) /\ (Waits(r, p) \/ \E t : Settles(r, t, p))
           /\ Speaks(r) /\ hdl' \subseteq Req
<1> DEFINE k == Attr[r].key
<1>1. PICK x \in 0 .. Len(cache) :
          LET c == Gateway!CacheCleanup(cache, x)
              hit == Gateway!CacheHit(c, k, Attr[r].ctx)
          IN  \/ \E e \in hit : cache' = Append(Gateway!Without(c, k), e)
                   /\ Gateway!WithThread(r, e.th, op)
              \/ /\ hit = {}
                 /\ cache' = Gateway!Without(c, k)
                 /\ Gateway!CallThread(r, op)
                 /\ UNCHANGED <<th, tn, hdl, sth, byThread, said>>
    BY DEF Gateway!GetThread
<1> DEFINE c == Gateway!CacheCleanup(cache, x)
<1>2. MapOk(c) /\ Among(c, cache)
    BY Kept, CleanupFacts
<1>3. /\ MapOk(Gateway!Without(c, k)) /\ Among(Gateway!Without(c, k), c)
      /\ \A i \in DOMAIN Gateway!Without(c, k) : Gateway!Without(c, k)[i].key # k
    <2> HIDE DEF c, k
    <2> QED BY <1>2, WithoutFacts
<1>4. Among(Gateway!Without(c, k), cache)
    BY <1>2, <1>3, AmongTrans
<1>5. ASSUME NEW e \in Gateway!CacheHit(c, k, Attr[r].ctx), cache' = Append(Gateway!Without(c,
         k), e),
             Gateway!WithThread(r, e.th, op)
      PROVE  /\ \E p : Goes(r, p) /\ Settles(r, e.th, p)
             /\ Speaks(r) /\ hdl' \subseteq Req
    <2>1. e.key = k /\ Attr[e.th].ctx = Attr[r].ctx /\ \E i \in DOMAIN c : c[i] = e
        BY <1>5 DEF Gateway!CacheHit, Gateway!Range
    <2>2. PICK j \in DOMAIN cache : cache[j] = e
        BY <1>2, <2>1 DEF Among
    <2>3. e \in Entry /\ e.th \in Req /\ gpc[e.th] \in After /\ e.key = Attr[e.th].key
        <3>1. cache \in Seq(Entry)
            BY TypedThreads
        <3>2. e \in Entry
            BY <2>2, <3>1
        <3> QED BY <2>2, <3>2 DEF GwInv, CacheInv, Entry
    <2>4. /\ MapOk(cache')
          /\ \A i \in DOMAIN cache' :
                cache'[i] = e
                         \/ \E i2 \in DOMAIN Gateway!Without(c,
                                  k) : cache'[i] = Gateway!Without(c, k)[i2]
        <3>1. \A i \in DOMAIN Gateway!Without(c, k) : Gateway!Without(c, k)[i].key # e.key
            BY <1>3, <2>1
        <3>2. MapOk(Gateway!Without(c, k)) /\ e \in Entry
            BY <1>3, <2>3
        <3> HIDE DEF c, k
        <3> QED BY <1>5, <3>1, <3>2, AppendFacts
    <2>5. \A i \in DOMAIN cache' : \E j2 \in DOMAIN cache : cache'[i] = cache[j2]
        BY <1>4, <2>2, <2>4 DEF Among
    <2>6. Fits(r, e.th)
        BY <2>1, <2>2, <2>3, <2>4, <2>5 DEF Fits
    <2> HIDE DEF c, k
    <2> QED BY <1>5, <2>6, WithThreadGoes
<1>6. CASE /\ cache' = Gateway!Without(c, k) /\ Gateway!CallThread(r, op)
           /\ UNCHANGED <<th, tn, hdl, sth, byThread, said>>
    <2>1. turn' = turn
        BY <1>6, CallThreadGoes
    <2>2. PICK p \in {"createRpc", "threadRpc"} : Goes(r, p)
        BY <1>6, CallThreadGoes
    <2>3. MapOk(cache') /\ Among(cache', cache)
        BY <1>3, <1>4, <1>6
    <2>4. Waits(r, p)
        BY <1>6, <2>1, <2>2, <2>3 DEF Waits
    <2>5. hdl' \subseteq Req /\ Speaks(r)
        BY <1>6 DEF Speaks, GwInv, Gateway!RequestsTyped
    <2> QED BY <2>2, <2>4, <2>5
<1> QED BY <1>1, <1>5, <1>6

LEMMA OnSessionGoes ==
    ASSUME GwInv, NEW r \in Req, Ready(r), ~Gateway!IsJob(r), NEW op, Gateway!OnSession(r, op),
             act' = act,
           fin' = fin
    PROVE  /\ \E p : Goes(r, p) /\ (Waits(r, p) \/ \E t : Settles(r, t, p))
           /\ Speaks(r) /\ hdl' \subseteq Req
<1> DEFINE s == Attr[r].sid
<1>1. UNCHANGED <<cache, sth, byThread, hdl>> /\ s \in Sid /\ hdl' \subseteq Req
    BY Typed DEF Gateway!OnSession, GwInv, Gateway!RequestsTyped
<1>2. MapOk(cache') /\ Among(cache', cache)
    BY <1>1, Kept
<1>3. CASE sth[s] = Gateway!None
    <2>1. Gateway!NoCall(r, {"failed"}) /\ UNCHANGED <<th, tn>>
        BY <1>3 DEF Gateway!OnSession
    <2>2. {"failed"} \in SUBSET (Said \ {"ref"}) /\ Gateway!Reply(r, {"failed"}) /\ turn' = turn
        BY <2>1 DEF Said, Gateway!NoCall
    <2>3. Goes(r, "done")
        BY <2>1, NoCallGoes
    <2>4. Waits(r, "done")
        BY <1>1, <1>2, <2>1, <2>2 DEF Waits
    <2> QED BY <1>1, <2>2, <2>3, <2>4 DEF Speaks
<1>4. CASE sth[s] # Gateway!None
    <2>1. Gateway!UseSession(r, op) /\ th' = [th EXCEPT ![r] = sth[s]]
        BY <1>4 DEF Gateway!OnSession
    <2>2. PICK p \in After : Goes(r, p) /\ (p = "steerRpc" => act[s] # Gateway!None)
        BY <2>1, UseSessionGoes
    <2>3. Speaks(r) /\ tn' = [tn EXCEPT ![r] = act[s]]
        BY <2>1, UseSessionGoes
    <2>4. sth[s] \in Req /\ gpc[sth[s]] \in After
        BY <1>1, <1>4, TypedThreads DEF GwInv, SessionInv
    <2>5. Settles(r, sth[s], p)
        BY <1>1, <1>2, <2>1, <2>2, <2>3, <2>4 DEF Settles, Among
    <2> QED BY <1>1, <2>2, <2>3, <2>5
<1> QED BY <1>3, <1>4

\* A request that is ready goes on.
LEMMA Proceeds ==
    ASSUME GwInv, NEW r \in Req, Ready(r),
           \E p : Goes(r, p) /\ (Waits(r, p) \/ \E t : Settles(r, t, p)),
           Speaks(r), hdl' \subseteq Req, UNCHANGED <<act, pend, fin, ap, chunk, blob>>,
           \/ inq' = inq /\ (gpc[r] # "new" \/ ~Gateway!ViaBus(r))
           \/ Gateway!Take([k |-> "req", r |-> r])
    PROVE  GwInv'
<1>1. PICK p : Goes(r, p) /\ (Waits(r, p) \/ \E t : Settles(r, t, p))
    OBVIOUS
<1>2. /\ said' \in [Req -> SUBSET Said] /\ Grows
      /\ \A x \in Req : "ref" \in said'[x] => x \in blob \/ "failed" \in said'[x]
    <2>1. CASE said' = said
        BY <2>1, Typed2, NothingSaid DEF GwInv, ReplyInv
    <2>2. ASSUME NEW w \in SUBSET (Said \ {"ref"}), Gateway!Reply(r, w)
          PROVE  /\ said' \in [Req -> SUBSET Said] /\ Grows
                 /\ \A x \in Req : "ref" \in said'[x] => x \in blob \/ "failed" \in said'[x]
        <3>1. w \in SUBSET Said
            OBVIOUS
        <3>2. said' \in [Req -> SUBSET Said] /\ Grows
            BY <2>2, <3>1, SaidFacts DEF Said
        <3> QED BY <2>2, <3>2, RefsKept
    <2> QED BY <2>1, <2>2 DEF Speaks
<1>3. /\ QueueInv' /\ inq' \in Seq(Msg) /\ BusyInv' /\ RespLines' /\ TurnLines'
      /\ out' \in Seq(Ln) /\ CallState' /\ EndState' /\ ChunkInv'
      /\ gpc' \in [Req -> Gateway!PC] /\ busy' \in Req \cup {Gateway!None}
      /\ rpc' \in [Req -> {"idle", "sent", "ok", "err"}]
    BY <1>1, <1>2, GoesInv
<1>4. /\ ThreadInv' /\ CacheInv' /\ SessionInv' /\ JobInv'
      /\ th' \in [Req -> Req \cup {Gateway!None}] /\ tn' \in [Req -> Req \cup {Gateway!None}]
      /\ sth' \in [Sid -> Req \cup {Gateway!None}] /\ byThread' \in [Req -> Sid \cup {Gateway!None}]
      /\ cache' \in Seq(Entry)
    <2>1. CASE Waits(r, p)
        <3>1. ThreadInv' /\ CacheInv' /\ SessionInv' /\ JobInv'
            BY <1>1, <2>1, WaitsInv
        <3> QED BY <2>1, <3>1, TypedThreads DEF Waits, MapOk
    <2>2. ASSUME NEW t, Settles(r, t, p)
          PROVE  /\ ThreadInv' /\ CacheInv' /\ SessionInv' /\ JobInv'
                 /\ th' \in [Req -> Req \cup {Gateway!None}]
                          /\ tn' \in [Req -> Req \cup {Gateway!None}]
                 /\ sth' \in [Sid -> Req \cup {Gateway!None}]
                          /\ byThread' \in [Req -> Sid \cup {Gateway!None}]
                 /\ cache' \in Seq(Entry)
        <3>1. cache' \in Seq(Entry)
            BY <2>2 DEF Settles, MapOk
        <3> QED BY <1>1, <2>2, <3>1, SettlesInv
    <2> QED BY <1>1, <2>1, <2>2
<1>5. thr' \subseteq Req /\ turn' \in [Req -> Status] /\ gFaults' \in 0 .. GMaxFault
    BY <1>1 DEF Goes
<1>6. /\ act' \in [Sid -> Req \cup {Gateway!None}] /\ fin' \in [Req -> Req \cup {Gateway!None}]
      /\ pend' \subseteq Req /\ blob' \subseteq Req /\ chunk' \in Nat
      /\ ap' \in [Req -> {"none", "asked", "open", "accept", "decline"}]
    BY Typed, Typed2
<1>7. Gateway!RequestsTyped'
    BY <1>2, <1>3, <1>4, <1>5, <1>6 DEF Gateway!RequestsTyped, Msg, Ln, Entry, Said, Status
<1>8. ReplyInv'
    BY <1>2 DEF GwInv, ReplyInv, Grows
<1> QED BY <1>3, <1>4, <1>7, <1>8, Assemble

\* A message of the bus starts its request.
LEMMA TakenReady ==
    ASSUME GwInv, NEW r \in Req, Gateway!Take([k |-> "req", r |-> r]) PROVE Ready(r)
<1> DEFINE m == [k |-> "req", r |-> r]
<1>1. inq \in Seq(Msg) /\ inq # <<>> /\ Head(inq) = m /\ busy = Gateway!None
    BY Typed2 DEF Gateway!Take
<1>2. 1 \in DOMAIN inq /\ inq[1] = m
    BY <1>1
<1>3. gpc[r] = "new"
    BY <1>2 DEF GwInv, QueueInv, IsReq
<1>4. rpc[r] # "sent"
    BY <1>3 DEF GwInv, RespInv
<1> QED BY <1>1, <1>3, <1>4 DEF Ready, Before

LEMMA TakeJobInv == ASSUME GwInv, NEW r \in Req, Gateway!TakeJob(r) PROVE GwInv'
<1>1. Gateway!Take([k |-> "req", r |-> r]) /\ Gateway!GetThread(r, "job")
      /\ UNCHANGED <<act, pend, fin, ap, chunk, blob>>
    BY DEF Gateway!TakeJob, Gateway!approval
<1>2. Ready(r)
    BY <1>1, TakenReady
<1>3. /\ \E p : Goes(r, p) /\ (Waits(r, p) \/ \E t : Settles(r, t, p))
      /\ Speaks(r) /\ hdl' \subseteq Req
    BY <1>1, <1>2, GetThreadGoes
<1> QED BY <1>1, <1>2, <1>3, Proceeds

LEMMA TakeSessionInv ==
    ASSUME GwInv, NEW r \in Req, NEW op \in Attr[r].ops, Gateway!TakeSession(r, op) PROVE GwInv'
<1>1. ~Gateway!IsJob(r) /\ Gateway!Take([k |-> "req", r |-> r]) /\ (Gateway!GetThread(r, op)
         \/ Gateway!OnSession(r, op))
      /\ UNCHANGED <<act, pend, fin, ap, chunk, blob>>
    BY DEF Gateway!TakeSession, Gateway!approval
<1>2. Ready(r)
    BY <1>1, TakenReady
<1>3. /\ \E p : Goes(r, p) /\ (Waits(r, p) \/ \E t : Settles(r, t, p))
      /\ Speaks(r) /\ hdl' \subseteq Req
    BY <1>1, <1>2, GetThreadGoes, OnSessionGoes
<1> QED BY <1>1, <1>2, <1>3, Proceeds

LEMMA HttpRequestInv ==
    ASSUME GwInv, NEW r \in Req, NEW op \in Attr[r].ops, Gateway!HttpRequest(r, op) PROVE GwInv'
<1>1. ~Gateway!ViaBus(r) /\ gpc[r] = "new" /\ (Gateway!GetThread(r, op)
         \/ Gateway!OnSession(r, op)) /\ inq' = inq
      /\ UNCHANGED <<act, pend, fin, ap, chunk, blob>>
    BY DEF Gateway!HttpRequest, Gateway!approval
<1>2. Ready(r) /\ ~Gateway!IsJob(r)
    BY <1>1 DEF Ready, Before, GwInv, RespInv, Gateway!ViaBus, Gateway!IsJob
<1>3. /\ \E p : Goes(r, p) /\ (Waits(r, p) \/ \E t : Settles(r, t, p))
      /\ Speaks(r) /\ hdl' \subseteq Req
    BY <1>1, <1>2, GetThreadGoes, OnSessionGoes
<1> QED BY <1>1, <1>2, <1>3, Proceeds

LEMMA GotThreadInv == ASSUME GwInv, NEW r \in Req, Gateway!GotThread(r) PROVE GwInv'
<1> DEFINE k == Attr[r].key
           e == [key |-> k, th |-> r]
<1>1. /\ gpc[r] \in {"threadRpc", "createRpc"} /\ rpc[r] = "ok" /\ inq' = inq
      /\ \E op : Gateway!WithThread(r, r, op)
      /\ UNCHANGED <<act, pend, fin, ap, chunk, blob>>
    BY DEF Gateway!GotThread, Gateway!Answered, Gateway!approval
<1>2. PICK x \in 0 .. Len(cache) : cache' = Gateway!CacheSet(Gateway!CacheCleanup(cache, x), k, r)
    BY DEF Gateway!GotThread
<1>3. Ready(r)
    BY <1>1 DEF Ready, Before, GwInv, BusyInv
<1> DEFINE c == Gateway!CacheCleanup(cache, x)
           d == Gateway!Without(c, k)
           g == Append(d, e)
<1>4. MapOk(c) /\ Among(c, cache)
    BY Kept, CleanupFacts
<1>5. MapOk(d) /\ Among(d, cache) /\ \A i \in DOMAIN d : d[i].key # e.key
    <2>1. MapOk(d) /\ Among(d, c) /\ \A i \in DOMAIN d : d[i].key # k
        <3> HIDE DEF c, k
        <3> QED BY <1>4, WithoutFacts
    <2> QED BY <1>4, <2>1, AmongTrans
<1>6. e \in Entry
    BY GatewayAssume DEF Entry, Gateway!GatewayAssumption
<1>7. MapOk(g) /\ \A i \in DOMAIN g : g[i] = e \/ \E j \in DOMAIN d : g[i] = d[j]
    <2> HIDE DEF d, e
    <2> QED BY <1>5, <1>6, AppendFacts
<1>8. cache' = Gateway!CacheCleanup(g, 0)
    BY <1>2 DEF Gateway!CacheSet
<1>9. MapOk(cache') /\ Among(cache', g)
    <2>1. 0 \in 0 .. Len(g)
        BY <1>7 DEF MapOk
    <2> HIDE DEF g
    <2> QED BY <1>7, <1>8, <2>1, CleanupFacts
<1>10. \A i \in DOMAIN cache' : \/ \E j \in DOMAIN cache : cache'[i] = cache[j]
                                \/ cache'[i] = [key |-> Attr[r].key, th |-> r]
    <2> HIDE DEF d, g
    <2> QED BY <1>5, <1>7, <1>9 DEF Among
<1>11. Fits(r, r)
    BY <1>1, <1>9, <1>10 DEF Fits
<1>12. /\ \E p : Goes(r, p) /\ Settles(r, r, p)
       /\ Speaks(r) /\ hdl' \subseteq Req
    BY <1>1, <1>3, <1>11, WithThreadGoes
<1>13. gpc[r] # "new"
    BY <1>1
<1> QED BY <1>1, <1>3, <1>12, <1>13, Proceeds

-----------------------------------------------------------------------------
(* The invariant of the gateway. *)

LEMMA StartQueue ==
    ASSUME NEW S, S \subseteq Req, IsFiniteSet(S), NEW q \in Gateway!SetToSeqs(S), NEW f,
           f = [i \in DOMAIN q |-> [k |-> "req", r |-> q[i]]]
    PROVE  /\ f \in Seq(Msg)
           /\ \A i \in DOMAIN f : IsReq(f[i]) /\ f[i].r \in S
           /\ \A i, j \in DOMAIN f : f[i].r = f[j].r => i = j
<1> DEFINE n == Cardinality(S)
<1>1. n \in Nat
    BY FS_CardinalityType
<1>0. Gateway!Cardinality(S) = n
    BY DEF Gateway!Cardinality, Cardinality
<1>2. q \in [1 .. n -> S] /\ \A i, j \in 1 .. n : q[i] = q[j] => i = j
    <2> HIDE DEF n
    <2> QED BY <1>0 DEF Gateway!SetToSeqs
<1> HIDE DEF n
<1>3. DOMAIN f = 1 .. n /\ \A i \in 1 .. n : f[i] = [k |-> "req", r |-> q[i]]
    BY <1>2
<1>4. f \in [1 .. n -> Msg]
    BY <1>2 DEF Msg
<1>5. f \in Seq(Msg)
    BY <1>1, <1>4
<1> QED BY <1>2, <1>3, <1>5 DEF IsReq

LEMMA GwInitInv == Gateway!Init => GwInv
<1> SUFFICES ASSUME Gateway!Init PROVE GwInv
    OBVIOUS
<1>1. PICK load \in GLoads :
          /\ gpc = [r \in Req |-> IF r \in load THEN "new" ELSE "absent"]
          /\ inq \in {[i \in DOMAIN q |-> [k |-> "req", r |-> q[i]]] :
                          q \in Gateway!SetToSeqs({r \in load : Gateway!ViaBus(r)})}
    BY DEF Gateway!Init
<1> DEFINE S == {r \in load : Gateway!ViaBus(r)}
<1>2. load \subseteq Req /\ IsFiniteSet(load) /\ S \subseteq load /\ \A r \in S : Gateway!ViaBus(r)
    BY GatewayAssume DEF Gateway!GatewayAssumption, Gateway!IsFiniteSet, IsFiniteSet
<1>3. IsFiniteSet(S)
    <2> HIDE DEF S
    <2> QED BY <1>2, FS_Subset
<1>4. PICK q \in Gateway!SetToSeqs(S) : inq = [i \in DOMAIN q |-> [k |-> "req", r |-> q[i]]]
    BY <1>1
<1> HIDE DEF S
<1>5. /\ inq \in Seq(Msg)
      /\ \A i \in DOMAIN inq : IsReq(inq[i]) /\ inq[i].r \in S
      /\ \A i, j \in DOMAIN inq : inq[i].r = inq[j].r => i = j
    <2>1. S \subseteq Req
        BY <1>2
    <2> QED BY <1>3, <1>4, <2>1, StartQueue
<1>6. /\ busy = Gateway!None /\ rpc = [r \in Req |-> "idle"]
      /\ th = [r \in Req |-> Gateway!None] /\ tn = [r \in Req |-> Gateway!None]
      /\ cache = <<>>
      /\ sth = [s \in Sid |-> Gateway!None] /\ act = [s \in Sid |-> Gateway!None]
      /\ byThread = [t \in Req |-> Gateway!None]
      /\ pend = {} /\ hdl = {} /\ fin = [r \in Req |-> Gateway!None]
      /\ thr = {} /\ turn = [t \in Req |-> "none"] /\ ap = [t \in Req |-> "none"]
      /\ out = <<>> /\ chunk = 0
      /\ said = [r \in Req |-> {}] /\ blob = {} /\ gFaults = 0
    BY DEF Gateway!Init
<1>7. \A r \in Req : gpc[r] \in {"new", "absent"}
    BY <1>1
<1>8. gpc \in [Req -> Gateway!PC]
    BY <1>1 DEF Gateway!PC
<1>9. 0 \in 0 .. GMaxFault
    BY GatewayAssume DEF Gateway!GatewayAssumption
<1>10. Gateway!RequestsTyped
    BY <1>5, <1>6, <1>8, <1>9 DEF Gateway!RequestsTyped, Msg
<1>11. QueueInv
    BY <1>1, <1>2, <1>5 DEF QueueInv
<1>12. BusyInv /\ ChunkInv
    BY <1>6, <1>7 DEF BusyInv, ChunkInv
<1>13. RespInv /\ LineInv
    BY <1>6, <1>7, GatewayAssume DEF RespInv, LineInv, Gateway!GatewayAssumption
<1>14. ThreadInv /\ CacheInv /\ JobInv /\ ReplyInv
    BY <1>6 DEF ThreadInv, CacheInv, JobInv, ReplyInv, Running
<1>15. SessionInv
    BY <1>6, <1>7 DEF SessionInv
<1> QED BY <1>10, <1>11, <1>12, <1>13, <1>14, <1>15 DEF GwInv

LEMMA HandleInv == ASSUME GwInv, NEW r \in Req, Gateway!Handle(r) PROVE GwInv'
BY RefuseJobInv, TakeJobInv, TakeSessionInv, GotThreadInv, CallFailedInv, TurnStartedInv,
   SessionTurnStartedInv, SteeredInv, SessionCallDoneInv, TurnTimeoutInv, JobReplyInv,
   JobCleanupInv
   DEF Gateway!Handle

LEMMA GwNextInv == GwInv /\ [Gateway!Next]_(Gateway!vars) => GwInv'
<1> SUFFICES ASSUME GwInv, [Gateway!Next]_(Gateway!vars) PROVE GwInv'
    OBVIOUS
<1>1. CASE Gateway!Step
    <2>1. CASE Gateway!ReadLoop
        BY <2>1, ReadChunkInv, ReadResponseInv, ReadApprovalInv, ReadStartedInv, ReadEndedInv
           DEF Gateway!ReadLoop
    <2>2. ASSUME NEW r \in Req, Gateway!Handle(r) \/ Gateway!ApprovalTimeout(r) PROVE GwInv'
        BY <2>2, HandleInv, ApprovalTimeoutInv
    <2>3. ASSUME NEW t \in Req, NEW d \in Gateway!Decision, Gateway!TakeDecision(t, d) PROVE GwInv'
        BY <2>3, TakeDecisionInv DEF Gateway!Decision
    <2> QED BY <1>1, <2>1, <2>2, <2>3 DEF Gateway!Step
<1>2. CASE Gateway!Environment
    <2>1. ASSUME NEW r \in Req, NEW op \in Attr[r].ops, Gateway!HttpRequest(r, op) PROVE GwInv'
        BY <2>1, HttpRequestInv
    <2>2. ASSUME NEW t \in Req, NEW d \in Gateway!Decision, Gateway!Decide(t, d) PROVE GwInv'
        BY <2>2, DecideInv DEF Gateway!Decision
    <2>3. ASSUME NEW t \in Req, Gateway!ServerAsks(t) \/ Gateway!ServerEnds(t) PROVE GwInv'
        BY <2>3, ServerAsksInv, ServerEndsInv
    <2> QED BY <1>2, <2>1, <2>2, <2>3 DEF Gateway!Environment
<1>3. CASE UNCHANGED Gateway!vars
    BY <1>3, StutterInv
<1> QED BY <1>1, <1>2, <1>3 DEF Gateway!Next

\* For any requests and loads, size of the cache and faults: GwInv is inductive.
THEOREM GwInvariance == Gateway!Spec => []GwInv
<1>1. Gateway!Init => GwInv
    BY GwInitInv
<1>2. GwInv /\ [Gateway!Next]_(Gateway!vars) => GwInv'
    BY GwNextInv
<1> QED BY <1>1, <1>2, PTL DEF Gateway!Spec

-----------------------------------------------------------------------------
(* What the app-server is told of an approval. *)

\* An approval has an id once it was read, the entry of an id is of an approval that has it, and
\* accept is said of an approval only when its id was accepted.
AprInv ==
    /\ Gateway!ApprovalsTyped
    /\ \A t \in Req : apid[t] = Gateway!None <=> ap[t] \in {"none", "asked"}
    /\ \A i \in Req : slot[i] # Gateway!None => apid[slot[i]] = i
    /\ Gateway!AcceptWasGranted

Talks(r) == said' = said \/ \E w : Gateway!Reply(r, w)

\* A request is given replies and loses none.
LEMMA TalksGrows == ASSUME GwInv, NEW r \in Req, Talks(r) PROVE Grows
<1>1. said \in [Req -> SUBSET Said]
    BY Typed2
<1>2. ASSUME NEW w, Gateway!Reply(r, w) PROVE Grows
    <2>1. said' = [said EXCEPT ![r] = said[r] \cup w]
        BY <1>2 DEF Gateway!Reply
    <2> QED BY <1>1, <2>1 DEF Grows
<1> QED BY <1>2, NothingSaid DEF Talks

\* The ways a request goes on say no more than one reply.
LEMMA UseSessionTalks ==
    ASSUME NEW r, NEW op, Gateway!UseSession(r, op) PROVE Talks(r)
BY DEF Gateway!UseSession, Gateway!NoCall, Talks

LEMMA WithThreadTalks ==
    ASSUME NEW r, NEW t, NEW op, Gateway!WithThread(r, t, op) PROVE Talks(r)
<1>1. \/ said' = said
      \/ Gateway!NoCall(r, {"rejected"}) \/ Gateway!NoCall(r, {"ready"})
      \/ Gateway!UseSession(r, op)
    BY DEF Gateway!WithThread
<1> QED BY <1>1, UseSessionTalks DEF Gateway!NoCall, Talks

LEMMA GetThreadTalks ==
    ASSUME NEW r, NEW op, Gateway!GetThread(r, op) PROVE Talks(r)
<1>1. said' = said \/ \E t : Gateway!WithThread(r, t, op)
    BY DEF Gateway!GetThread
<1> QED BY <1>1, WithThreadTalks DEF Talks

LEMMA OnSessionTalks ==
    ASSUME NEW r, NEW op, Gateway!OnSession(r, op) PROVE Talks(r)
<1>1. Gateway!NoCall(r, {"failed"}) \/ Gateway!UseSession(r, op)
    BY DEF Gateway!OnSession
<1> QED BY <1>1, UseSessionTalks DEF Gateway!NoCall, Talks

\* The handling of a request leaves the approvals alone.
LEMMA HandleTalks ==
    ASSUME NEW r \in Req, Gateway!Handle(r) PROVE Talks(r) /\ UNCHANGED Gateway!approval
<1>1. CASE Gateway!RefuseJob(r)
    BY <1>1 DEF Gateway!RefuseJob, Gateway!server, Talks
<1>2. CASE Gateway!TakeJob(r)
    BY <1>2, GetThreadTalks DEF Gateway!TakeJob
<1>3. ASSUME NEW op, Gateway!TakeSession(r, op) PROVE Talks(r) /\ UNCHANGED Gateway!approval
    BY <1>3, GetThreadTalks, OnSessionTalks DEF Gateway!TakeSession
<1>4. CASE Gateway!GotThread(r)
    BY <1>4, WithThreadTalks DEF Gateway!GotThread
<1>5. CASE Gateway!CallFailed(r)
    BY <1>5 DEF Gateway!CallFailed, Gateway!server, Talks
<1>6. CASE Gateway!TurnStarted(r)
    BY <1>6 DEF Gateway!TurnStarted, Gateway!server, Talks
<1>7. CASE Gateway!SessionTurnStarted(r)
    BY <1>7 DEF Gateway!SessionTurnStarted, Gateway!server, Talks
<1>8. CASE Gateway!Steered(r)
    BY <1>8 DEF Gateway!Steered, Gateway!server, Talks
<1>9. CASE Gateway!SessionCallDone(r)
    BY <1>9 DEF Gateway!SessionCallDone, Gateway!server, Talks
<1>10. CASE Gateway!TurnTimeout(r)
    BY <1>10 DEF Gateway!TurnTimeout, Gateway!server, Talks
<1>11. CASE Gateway!JobReply(r)
    BY <1>11 DEF Gateway!JobReply, Gateway!server, Talks
<1>12. CASE Gateway!JobCleanup(r)
    BY <1>12 DEF Gateway!JobCleanup, Gateway!server, Talks
<1> QED BY <1>1, <1>2, <1>3, <1>4, <1>5, <1>6, <1>7, <1>8, <1>9, <1>10, <1>11, <1>12
        DEF Gateway!Handle

\* A step that resolves no promise.
LEMMA AprKept ==
    ASSUME GwInv, AprInv, UNCHANGED <<apid, slot, clock>>, Grows,
           \A x \in Req : ap'[x] = ap[x] \/ (ap[x] = "none" /\ ap'[x] = "asked")
    PROVE  AprInv'
<1>1. apid \in [Req -> Req \cup {Gateway!None}] /\ Gateway!None \notin Req
    BY GatewayAssume DEF AprInv, Gateway!ApprovalsTyped, Gateway!GatewayAssumption
<1>2. Gateway!ApprovalsTyped'
    BY DEF AprInv, Gateway!ApprovalsTyped
<1>3. \A t \in Req : apid'[t] = Gateway!None <=> ap'[t] \in {"none", "asked"}
    BY DEF AprInv
<1>4. \A i \in Req : slot'[i] # Gateway!None => apid'[slot'[i]] = i
    BY DEF AprInv
<1>5. \A t \in Req : ap'[t] = "accept" => "granted" \in said'[apid'[t]]
    <2> SUFFICES ASSUME NEW t \in Req, ap'[t] = "accept" PROVE "granted" \in said'[apid'[t]]
        OBVIOUS
    <2>1. ap[t] = "accept"
        OBVIOUS
    <2>2. "granted" \in said[apid[t]] /\ apid[t] # Gateway!None
        BY <2>1 DEF AprInv, Gateway!AcceptWasGranted
    <2> QED BY <2>2, <1>1 DEF Grows
<1> QED BY <1>2, <1>3, <1>4, <1>5 DEF AprInv, Gateway!AcceptWasGranted

\* The three steps that read an approval, decide it and give it up.
LEMMA ReadApprovalApr == ASSUME GwInv, AprInv, Gateway!ReadApproval PROVE AprInv'
<1>1. /\ Gateway!Line("ask") /\ said' = said
      /\ ap[Head(out).r] = "asked" /\ ap' = [ap EXCEPT ![Head(out).r] = "open"]
      /\ clock' = clock \cup {Head(out).r}
      /\ \E i \in {Head(out).r} \cup (Gateway!Range(apid) \ {Gateway!None}) :
            apid' = [apid EXCEPT ![Head(out).r] = i] /\ slot' = [slot EXCEPT ![i] = Head(out).r]
    BY DEF Gateway!ReadApproval
<1>2. PICK t \in Req : t = Head(out).r
    BY <1>1, LineFacts
<1>3. /\ apid \in [Req -> Req \cup {Gateway!None}] /\ slot \in [Req -> Req \cup {Gateway!None}]
      /\ clock \subseteq Req /\ Gateway!None \notin Req
      /\ ap \in [Req -> {"none", "asked", "open", "accept", "decline"}]
    BY Typed2, GatewayAssume DEF AprInv, Gateway!ApprovalsTyped, Gateway!GatewayAssumption
<1>4. Gateway!Range(apid) \subseteq Req \cup {Gateway!None}
    BY <1>3 DEF Gateway!Range
<1>5. PICK i \in Req : apid' = [apid EXCEPT ![t] = i] /\ slot' = [slot EXCEPT ![i] = t]
    BY <1>1, <1>2, <1>4
<1>6. ap[t] = "asked" /\ ap' = [ap EXCEPT ![t] = "open"] /\ clock' = clock \cup {t}
    BY <1>1, <1>2
<1>7. apid[t] = Gateway!None
    BY <1>6 DEF AprInv
<1>8. Gateway!ApprovalsTyped'
    BY <1>3, <1>5, <1>6 DEF Gateway!ApprovalsTyped
<1>9. \A x \in Req : apid'[x] = Gateway!None <=> ap'[x] \in {"none", "asked"}
    BY <1>3, <1>5, <1>6 DEF AprInv
<1>10. \A j \in Req : slot'[j] # Gateway!None => apid'[slot'[j]] = j
    <2> SUFFICES ASSUME NEW j \in Req, slot'[j] # Gateway!None PROVE apid'[slot'[j]] = j
        OBVIOUS
    <2>1. CASE j = i
        BY <1>3, <1>5, <2>1
    <2>2. CASE j # i
        <3>1. slot'[j] = slot[j] /\ slot[j] \in Req
            BY <1>3, <1>5, <2>2
        <3>2. apid[slot[j]] = j
            BY <3>1, <1>3 DEF AprInv
        <3>3. slot[j] # t
            BY <1>3, <1>7, <3>2
        <3> QED BY <1>3, <1>5, <3>1, <3>2, <3>3
    <2> QED BY <2>1, <2>2
<1>11. \A x \in Req : ap'[x] = "accept" => "granted" \in said'[apid'[x]]
    <2> SUFFICES ASSUME NEW x \in Req, ap'[x] = "accept" PROVE "granted" \in said'[apid'[x]]
        OBVIOUS
    <2>1. x # t /\ ap[x] = "accept"
        BY <1>3, <1>6
    <2>2. apid'[x] = apid[x]
        BY <1>3, <1>5, <2>1
    <2> QED BY <1>1, <2>1, <2>2 DEF AprInv, Gateway!AcceptWasGranted
<1> QED BY <1>8, <1>9, <1>10, <1>11 DEF AprInv, Gateway!AcceptWasGranted

LEMMA TakeDecisionApr ==
    ASSUME GwInv, AprInv, NEW i \in Req, NEW d \in {"accept", "decline"},
           Gateway!TakeDecision(i, d)
    PROVE  AprInv'
<1> DEFINE m == [k |-> "dec", r |-> i, d |-> d]
<1>1. /\ Gateway!Take(m) /\ slot' = [slot EXCEPT ![i] = Gateway!None]
      /\ ap' = IF slot[i] = Gateway!None THEN ap ELSE [ap EXCEPT ![slot[i]] = d]
      /\ UNCHANGED <<gpc, apid, clock, said>>
    BY DEF Gateway!TakeDecision
<1>2. ~IsReq(m) /\ m.d = d /\ m.r = i
    BY DEF IsReq
<1> HIDE DEF m
<1>3. d = "accept" => "granted" \in said[i]
    <2>1. Grows
        BY <1>1 DEF Grows
    <2> QED BY <1>1, <1>2, <2>1, QueueTaken
<1>4. /\ apid \in [Req -> Req \cup {Gateway!None}] /\ slot \in [Req -> Req \cup {Gateway!None}]
      /\ clock \subseteq Req /\ Gateway!None \notin Req
      /\ ap \in [Req -> {"none", "asked", "open", "accept", "decline"}]
    BY Typed2, GatewayAssume DEF AprInv, Gateway!ApprovalsTyped, Gateway!GatewayAssumption
<1>5. slot' \in [Req -> Req \cup {Gateway!None}]
      /\ \A j \in Req : slot'[j] # Gateway!None => slot'[j] = slot[j]
    BY <1>1, <1>4
<1>6. ASSUME NEW x \in Req
      PROVE  ap'[x] = ap[x] \/ (ap'[x] = d /\ apid[x] = i)
    <2>1. CASE slot[i] = Gateway!None
        BY <1>1, <2>1
    <2>2. CASE slot[i] # Gateway!None
        <3>1. apid[slot[i]] = i /\ ap' = [ap EXCEPT ![slot[i]] = d]
            BY <1>1, <2>2 DEF AprInv
        <3> QED BY <1>4, <3>1
    <2> QED BY <2>1, <2>2
<1>7. Gateway!ApprovalsTyped'
    BY <1>1, <1>4, <1>5 DEF Gateway!ApprovalsTyped
<1>8. \A x \in Req : apid'[x] = Gateway!None <=> ap'[x] \in {"none", "asked"}
    <2> SUFFICES ASSUME NEW x \in Req
                 PROVE  apid'[x] = Gateway!None <=> ap'[x] \in {"none", "asked"}
        OBVIOUS
    <2>1. apid[x] = Gateway!None <=> ap[x] \in {"none", "asked"}
        BY DEF AprInv
    <2>2. CASE ap'[x] = ap[x]
        BY <1>1, <2>1, <2>2
    <2>3. CASE ap'[x] = d /\ apid[x] = i
        BY <1>1, <1>4, <2>3
    <2> QED BY <1>6, <2>2, <2>3
<1>9. \A j \in Req : slot'[j] # Gateway!None => apid'[slot'[j]] = j
    BY <1>1, <1>5 DEF AprInv
<1>10. \A x \in Req : ap'[x] = "accept" => "granted" \in said'[apid'[x]]
    BY <1>1, <1>3, <1>6 DEF AprInv, Gateway!AcceptWasGranted
<1> QED BY <1>7, <1>8, <1>9, <1>10 DEF AprInv, Gateway!AcceptWasGranted

LEMMA ApprovalTimeoutApr ==
    ASSUME GwInv, AprInv, NEW t \in Req, Gateway!ApprovalTimeout(t) PROVE AprInv'
<1>1. /\ clock' = clock \ {t} /\ slot' = [slot EXCEPT ![apid[t]] = Gateway!None]
      /\ ap' = IF ap[t] = "open" THEN [ap EXCEPT ![t] = "decline"] ELSE ap
      /\ UNCHANGED <<apid, said>>
    BY DEF Gateway!ApprovalTimeout
<1>2. /\ apid \in [Req -> Req \cup {Gateway!None}] /\ slot \in [Req -> Req \cup {Gateway!None}]
      /\ clock \subseteq Req
      /\ ap \in [Req -> {"none", "asked", "open", "accept", "decline"}]
    BY Typed2 DEF AprInv, Gateway!ApprovalsTyped
<1>3. slot' \in [Req -> Req \cup {Gateway!None}]
      /\ \A j \in Req : slot'[j] # Gateway!None => slot'[j] = slot[j]
    BY <1>1, <1>2
<1>4. \A x \in Req : ap'[x] = ap[x] \/ (ap[x] = "open" /\ ap'[x] = "decline")
    BY <1>1, <1>2
<1>5. Gateway!ApprovalsTyped'
    BY <1>1, <1>2, <1>3 DEF Gateway!ApprovalsTyped
<1>6. \A x \in Req : apid'[x] = Gateway!None <=> ap'[x] \in {"none", "asked"}
    BY <1>1, <1>4 DEF AprInv
<1>7. \A j \in Req : slot'[j] # Gateway!None => apid'[slot'[j]] = j
    BY <1>1, <1>3 DEF AprInv
<1>8. \A x \in Req : ap'[x] = "accept" => "granted" \in said'[apid'[x]]
    BY <1>1, <1>4 DEF AprInv, Gateway!AcceptWasGranted
<1> QED BY <1>5, <1>6, <1>7, <1>8 DEF AprInv, Gateway!AcceptWasGranted

LEMMA AprNextInv == GwInv /\ AprInv /\ [Gateway!Next]_(Gateway!vars) => AprInv'
<1> SUFFICES ASSUME GwInv, AprInv, [Gateway!Next]_(Gateway!vars) PROVE AprInv'
    OBVIOUS
<1>1. ASSUME NEW r \in Req, Talks(r), UNCHANGED Gateway!approval PROVE AprInv'
    BY <1>1, TalksGrows, AprKept DEF Gateway!approval
<1>2. ASSUME said' = said, UNCHANGED Gateway!approval PROVE AprInv'
    BY <1>2, NothingSaid, AprKept DEF Gateway!approval
<1>3. CASE Gateway!Step
    <2>1. CASE Gateway!ReadLoop
        <3>1. CASE Gateway!ReadChunk
            BY <1>2, <3>1 DEF Gateway!ReadChunk, Gateway!server
        <3>2. CASE Gateway!ReadResponse
            BY <1>2, <3>2 DEF Gateway!ReadResponse, Gateway!server
        <3>3. CASE Gateway!ReadApproval
            BY <3>3, ReadApprovalApr
        <3>4. CASE Gateway!ReadStarted
            BY <1>2, <3>4 DEF Gateway!ReadStarted, Gateway!server
        <3>5. CASE Gateway!ReadEnded
            <4>1. UNCHANGED Gateway!approval /\ Talks(Head(out).r)
                BY <3>5 DEF Gateway!ReadEnded, Gateway!onRealtimeEvent, Gateway!server, Talks
            <4>2. Head(out).r \in Req
                BY <3>5, LineFacts DEF Gateway!ReadEnded
            <4> QED BY <1>1, <4>1, <4>2
        <3> QED BY <2>1, <3>1, <3>2, <3>3, <3>4, <3>5 DEF Gateway!ReadLoop
    <2>2. ASSUME NEW r \in Req, Gateway!Handle(r) \/ Gateway!ApprovalTimeout(r) PROVE AprInv'
        BY <1>1, <2>2, HandleTalks, ApprovalTimeoutApr
    <2>3. ASSUME NEW t \in Req, NEW d \in Gateway!Decision, Gateway!TakeDecision(t, d)
          PROVE  AprInv'
        BY <2>3, TakeDecisionApr DEF Gateway!Decision
    <2> QED BY <1>3, <2>1, <2>2, <2>3 DEF Gateway!Step
<1>4. CASE Gateway!Environment
    <2>1. ASSUME NEW r \in Req, NEW op \in Attr[r].ops, Gateway!HttpRequest(r, op)
          PROVE  AprInv'
        <3>1. Talks(r) /\ UNCHANGED Gateway!approval
            BY <2>1, GetThreadTalks, OnSessionTalks DEF Gateway!HttpRequest
        <3> QED BY <1>1, <3>1
    <2>2. ASSUME NEW t \in Req, NEW d, Gateway!Decide(t, d) PROVE AprInv'
        <3>1. Talks(t) /\ UNCHANGED Gateway!approval
            BY <2>2 DEF Gateway!Decide, Gateway!server, Talks
        <3> QED BY <1>1, <3>1
    <2>3. ASSUME NEW t \in Req, Gateway!ServerAsks(t) PROVE AprInv'
        <3>1. UNCHANGED <<apid, slot, clock, said>> /\ ap[t] = "none"
              /\ ap' = [ap EXCEPT ![t] = "asked"]
            BY <2>3 DEF Gateway!ServerAsks
        <3>2. \A x \in Req : ap'[x] = ap[x] \/ (ap[x] = "none" /\ ap'[x] = "asked")
            BY <3>1, Typed2
        <3> QED BY <3>1, <3>2, NothingSaid, AprKept
    <2>4. ASSUME NEW t \in Req, Gateway!ServerEnds(t) PROVE AprInv'
        BY <1>2, <2>4 DEF Gateway!ServerEnds
    <2> QED BY <1>4, <2>1, <2>2, <2>3, <2>4 DEF Gateway!Environment
<1>5. CASE UNCHANGED Gateway!vars
    BY <1>2, <1>5 DEF Gateway!vars, Gateway!approval
<1> QED BY <1>3, <1>4, <1>5 DEF Gateway!Next

\* For any requests and loads: the book-keeping of approvals is inductive beside GwInv.
LEMMA AprInvariance == Gateway!Spec => []AprInv
<1>1. Gateway!Init => AprInv
    BY DEF Gateway!Init, AprInv, Gateway!ApprovalsTyped, Gateway!AcceptWasGranted
<1>2. GwInv /\ AprInv /\ [Gateway!Next]_(Gateway!vars) => AprInv'
    BY AprNextInv
<1> QED BY <1>1, <1>2, GwInvariance, PTL DEF Gateway!Spec

\* Messages, calls, threads and lines of the gateway keep their types.
THEOREM GatewayTypeCorrect == Gateway!Spec => []Gateway!TypeOK
<1>1. GwInv /\ AprInv => Gateway!TypeOK
    BY DEF GwInv, AprInv, Gateway!TypeOK
<1> QED BY <1>1, GwInvariance, AprInvariance, PTL

\* A job runs on a thread of its own sandbox and directory and not beside the turn of another job,
\* unless a turn of another thread ended it; a reply with a dangling reference is contradicted; the
\* app-server hears accept of an approval only when a decision of the bus, of whatever sender,
\* accepted its id; and the active turn of a session is one of its own thread.
THEOREM GatewaySafeHolds == Gateway!Spec => []GatewaySafe
<1>1. ASSUME GwInv, NEW j \in Req, Gateway!IsJob(j), turn[j] # "none"
      PROVE  /\ Attr[th[j]].ctx = Attr[j].ctx
             /\ \A q \in Req \ {j} :
                  /\ Gateway!IsJob(q) /\ th[q] = th[j]
                  /\ fin[q] \in {Gateway!None, q} /\ fin[j] \in {Gateway!None, j}
                  => ~(turn[q] = "running" /\ turn[j] = "running")
    <2>1. Attr[th[j]].ctx = Attr[j].ctx
        BY <1>1 DEF GwInv, ThreadInv
    <2>2. \A q \in Req : Running(q) /\ Running(j) /\ th[q] = th[j] => q = j
        BY <1>1 DEF GwInv, JobInv
    <2> QED BY <1>1, <2>1, <2>2 DEF Running
<1>2. GwInv => Gateway!JobThreadFits
    BY <1>1 DEF Gateway!JobThreadFits
<1>3. GwInv => Gateway!DanglingRefIsTold
    BY DEF GwInv, ReplyInv, Gateway!DanglingRefIsTold
<1>4. GwInv => Gateway!ActiveTurnOnThread
    BY DEF GwInv, SessionInv, OfSession, Gateway!ActiveTurnOnThread
<1>5. GwInv /\ AprInv => GatewaySafe
    BY <1>2, <1>3, <1>4 DEF GatewaySafe, AprInv
<1> QED BY <1>5, GwInvariance, AprInvariance, PTL
=============================================================================
