------------------------ MODULE PresenceClaimerProofs ------------------------
(***************************************************************************)
(* Proofs, for any number of instances and any TTL and heartbeat the       *)
(* constructor accepts, of the safety properties of PresenceClaimer; and,  *)
(* for any configuration of a channel, any topics and any number of rivals *)
(* and faults, of those of A2AChannelLife; and, for any stored specs,      *)
(* edits, faults and messages, of those of NatsChannel.                    *)
(***************************************************************************)
EXTENDS MCChannels, TLAPS

\* What is left of the time between two confirmations: while an instance owns
\* the key, its age and the time to the next beat stay below the bound together,
\* except while a beat is being awaited, which decides whether age starts again.
FenceBudget(c) ==
    \/ age[c] + timer[c] < Ttl + Heartbeat
    \/ op[c] = "beat" /\ timer[c] = Heartbeat /\ age[c] < Ttl + Heartbeat

\* The strengthening of OwnershipFencing that every step preserves.
FenceInv ==
    \A c \in Claimer : /\ phase[c] = "new" => ~owned[c]
                       /\ isOwned(c) => FenceBudget(c)

\* A release is sent only by an instance that has left "running" for good.
ReleaseOk(c) ==
    /\ phase[c] = "new" => op[c] = "idle" /\ q[c] = <<>>
    /\ \A i \in 1..Len(q[c]) : q[c][i].cmd = "release" => phase[c] \notin {"new", "running"}

\* The strengthening from which NoForeignRelease follows.
ReleaseInv == \A c \in Claimer : ReleaseOk(c)

------------------------------------------------------------------------------
\* Giving up a call keeps the commands of the queue, their order and their kind.
LEMMA AbandonedType ==
    ASSUME NEW s \in Seq(Cmd), NEW A, NEW fate \in Fates
    PROVE  /\ Abandoned(s, A, fate) \in Seq(Cmd)
           /\ Len(Abandoned(s, A, fate)) = Len(s)
           /\ \A i \in 1..Len(s) : Abandoned(s, A, fate)[i].cmd = s[i].cmd
  <1>1. \A i \in 1..Len(s) : s[i] \in Cmd
    OBVIOUS
  <1>2. \A i \in 1..Len(s) : [s[i] EXCEPT !.by = fate] \in Cmd /\ [s[i] EXCEPT !.by = fate].cmd = s[i].cmd
    BY <1>1 DEF Cmd
  <1>3. Len(s) \in Nat
    OBVIOUS
  <1> QED
    BY <1>1, <1>2, <1>3 DEF Abandoned

\* Redis answers with a holder, a TTL and a reply of the expected types.
LEMMA RedisEffectType ==
    ASSUME TypeOK, NEW c \in Claimer, NEW command \in Cmds
    PROVE  /\ RedisEffect(c, command)[1] \in Claimer \cup {Nobody}
           /\ RedisEffect(c, command)[2] \in 0..Ttl
           /\ RedisEffect(c, command)[3] \in {"yes", "no"}
  BY ClaimerAssumption DEF RedisEffect, TypeOK, Cmds

\* The continuation of one instance leaves the others alone.
LEMMA ContinueOther ==
    ASSUME TypeOK, NEW c \in Claimer, NEW d \in Claimer, c # d, Continue(c)
    PROVE  age'[d] = age[d] /\ owned'[d] = owned[d] /\ op'[d] = op[d] /\ q'[d] = q[d]
  <1> DEFINE Same == age'[d] = age[d] /\ owned'[d] = owned[d] /\ op'[d] = op[d] /\ q'[d] = q[d]
  <1>1. ASSUME NEW o, NEW k, Call(c, o, k) PROVE op'[d] = op[d] /\ q'[d] = q[d]
    BY <1>1 DEF Call, TypeOK
  <1>2. ASSUME Idle(c) PROVE op'[d] = op[d] /\ q'[d] = q[d]
    BY <1>2 DEF Idle, TypeOK
  <1>3. ASSUME ClaimWon(c) PROVE Same
    BY <1>1, <1>2, <1>3 DEF ClaimWon, TypeOK
  <1>4. ASSUME Lost(c) PROVE Same
    BY <1>2, <1>4 DEF Lost, TypeOK
  <1>5. ASSUME ContinueClaim(c) PROVE Same
    BY <1>1, <1>3, <1>4, <1>5 DEF ContinueClaim
  <1>6. ASSUME ContinueBeat(c) PROVE Same
    BY <1>2, <1>4, <1>6 DEF ContinueBeat, TypeOK
  <1> QED
    BY <1>5, <1>6 DEF Continue

\* A call keeps the types of the activity and its queue.
LEMMA CallType ==
    ASSUME TypeOK, NEW c \in Claimer, NEW o \in Ops, NEW command \in Cmds, Call(c, o, command)
    PROVE  /\ op' \in [Claimer -> Ops]
           /\ rep' \in [Claimer -> {"none", "yes", "no"}]
           /\ q' \in [Claimer -> Seq(Cmd)]
  <1>1. [cmd |-> command, by |-> "main"] \in Cmd
    BY DEF Cmd
  <1>2. Append(q[c], [cmd |-> command, by |-> "main"]) \in Seq(Cmd)
    BY <1>1 DEF TypeOK
  <1> QED
    BY <1>2 DEF Call, TypeOK

\* stop() adds its release to the queue, in front or at the end, and nothing else.
LEMMA StopType ==
    ASSUME TypeOK, NEW c \in Claimer, Stop(c)
    PROVE  /\ q' \in [Claimer -> Seq(Cmd)] /\ \A d \in Claimer \ {c} : q'[d] = q[d]
           /\ Len(q'[c]) \in Nat /\ Len(q[c]) \in Nat
           /\ \E m \in 1..Len(q'[c]) :
                 /\ q'[c][m] = [cmd |-> "release", by |-> "stop"]
                 /\ \A i \in 1..Len(q'[c]) :
                        i = m \/ \E k \in 1..Len(q[c]) :
                                    q'[c][i] = q[c][k] /\ i = (IF m = 1 THEN k + 1 ELSE k)
  <1> DEFINE e == [cmd |-> "release", by |-> "stop"]
  <1>1. PICK s \in {q[c] \o <<e>>, <<e>> \o q[c]} : q' = [q EXCEPT ![c] = s]
    BY DEF Stop
  <1>2. e \in Cmd /\ q[c] \in Seq(Cmd) /\ q \in [Claimer -> Seq(Cmd)]
    BY DEF Cmd, Cmds, TypeOK
  <1> HIDE DEF e
  <1>3. <<e>> \in Seq(Cmd) /\ Len(<<e>>) = 1 /\ <<e>>[1] = e /\ Len(q[c]) \in Nat
    BY <1>2
  <1>4. s \in Seq(Cmd) /\ Len(s) = Len(q[c]) + 1
    <2>1. CASE s = q[c] \o <<e>>
      BY <1>2, <1>3, <2>1
    <2>2. CASE s = <<e>> \o q[c]
      BY <1>2, <1>3, <2>2
    <2> QED BY <1>1, <2>1, <2>2
  <1>5. q'[c] = s /\ q' \in [Claimer -> Seq(Cmd)] /\ \A d \in Claimer \ {c} : q'[d] = q[d]
    BY <1>1, <1>2, <1>4
  <1>6. CASE s = q[c] \o <<e>>
    <2>1. s[Len(q[c]) + 1] = e /\ \A i \in 1..Len(q[c]) : s[i] = q[c][i]
      BY <1>2, <1>3, <1>6
    <2>2. CASE Len(q[c]) = 0
      <3>1. s[1] = e /\ 1 \in 1..Len(s) /\ \A i \in 1..Len(s) : i = 1
        BY <1>4, <2>1, <2>2
      <3> QED BY <1>3, <1>4, <1>5, <3>1 DEF e
    <2>3. CASE Len(q[c]) # 0
      <3>1. \A i \in 1..Len(s) : i = Len(q[c]) + 1 \/ i \in 1..Len(q[c])
        BY <1>3, <1>4
      <3>2. Len(q[c]) + 1 \in 1..Len(s) /\ Len(q[c]) + 1 # 1
        BY <1>3, <1>4, <2>3
      <3> QED BY <1>3, <1>4, <1>5, <2>1, <3>1, <3>2 DEF e
    <2> QED BY <2>2, <2>3
  <1>7. CASE s = <<e>> \o q[c]
    <2>1. s[1] = e /\ \A i \in 1..Len(q[c]) : s[i + 1] = q[c][i]
      BY <1>2, <1>3, <1>7
    <2>2. \A i \in 1..Len(s) : i = 1 \/ (i - 1 \in 1..Len(q[c]) /\ i = (i - 1) + 1)
      BY <1>3, <1>4
    <2>3. 1 \in 1..Len(s)
      BY <1>3, <1>4
    <2>4. \A i \in 1..Len(s) : i = 1 \/ \E k \in 1..Len(q[c]) : s[i] = q[c][k] /\ i = k + 1
      BY <2>1, <2>2
    <2> QED BY <1>3, <1>4, <1>5, <2>1, <2>3, <2>4 DEF e
  <1> QED BY <1>1, <1>6, <1>7

\* The state of the lease is always well typed: no operation of presence.ts
\* leaves its domain, in particular the key's TTL never becomes negative.
THEOREM TypeCorrect == Spec => []TypeOK
  <1>1. Init => TypeOK
    BY ClaimerAssumption DEF Init, TypeOK, Ops
  <1>2. TypeOK /\ [Next]_vars => TypeOK'
    <2> SUFFICES ASSUME TypeOK, [Next]_vars PROVE TypeOK'
      OBVIOUS
    <2> USE ClaimerAssumption
    <2>1. ASSUME NEW c \in Claimer, Start(c) PROVE TypeOK'
      <3>1. "set" \in Ops /\ "set" \in Cmds
        BY DEF Ops, Cmds
      <3> QED
        BY <2>1, <3>1, CallType DEF Start, TypeOK
    <2>2. ASSUME NEW c \in Claimer, Continue(c) PROVE TypeOK'
      <3>1. \A o \in Ops, m \in Cmds : Call(c, o, m) =>
               op' \in [Claimer -> Ops] /\ rep' \in [Claimer -> {"none", "yes", "no"}] /\ q' \in [Claimer -> Seq(Cmd)]
        BY CallType
      <3>2. Idle(c) => op' \in [Claimer -> Ops] /\ rep' \in [Claimer -> {"none", "yes", "no"}] /\ q' \in [Claimer -> Seq(Cmd)]
        BY DEF Idle, TypeOK, Ops
      <3>3. /\ "undo" \in Ops /\ "release" \in Cmds /\ "get" \in Ops /\ "get" \in Cmds
            /\ "expire" \in Ops /\ "expire" \in Cmds
        BY DEF Ops, Cmds
      <3>4. owned' \in [Claimer -> BOOLEAN] /\ age' \in [Claimer -> Nat]
        <4>1. age' = age \/ age' = [age EXCEPT ![c] = 0]
          BY <2>2 DEF Continue, ContinueClaim, ContinueBeat, ClaimWon, Lost
        <4>2. \/ owned' = owned
              \/ owned' = [owned EXCEPT ![c] = TRUE]
              \/ owned' = [owned EXCEPT ![c] = FALSE]
          BY <2>2 DEF Continue, ContinueClaim, ContinueBeat, ClaimWon, Lost
        <4>3. owned' \in [Claimer -> BOOLEAN]
          BY <4>2 DEF TypeOK
        <4>4. age' \in [Claimer -> Nat]
          <5>1. age \in [Claimer -> Nat] /\ [age EXCEPT ![c] = 0] \in [Claimer -> Nat]
            BY DEF TypeOK
          <5> QED
            BY <4>1, <5>1
        <4> QED
          BY <4>3, <4>4
      <3>5. Idle(c) \/ \E o \in Ops, m \in Cmds : Call(c, o, m)
        BY <2>2, <3>3 DEF Continue, ContinueClaim, ContinueBeat, ClaimWon, Lost
      <3> QED
        BY <2>2, <3>1, <3>2, <3>4, <3>5 DEF Continue, TypeOK
    <2>3. ASSUME NEW c \in Claimer, Fail(c) PROVE TypeOK'
      <3>1. q' \in [Claimer -> Seq(Cmd)]
        BY <2>3, AbandonedType DEF Fail, TypeOK
      <3> QED
        BY <2>3, <3>1 DEF Fail, TypeOK, Ops
    <2>4. ASSUME NEW c \in Claimer, Maintain(c) PROVE TypeOK'
      <3>1. "set" \in Ops /\ "set" \in Cmds /\ "beat" \in Ops /\ "beat" \in Cmds
        BY DEF Ops, Cmds
      <3> QED
        BY <2>4, <3>1, CallType DEF Maintain, TypeOK
    <2>5. ASSUME NEW c \in Claimer, Stop(c) PROVE TypeOK'
      <3>1. q' \in [Claimer -> Seq(Cmd)]
        BY <2>5, StopType
      <3> QED
        BY <2>5, <3>1 DEF Stop, TypeOK
    <2>6. ASSUME NEW c \in Claimer, StopFail(c) PROVE TypeOK'
      <3>1. q' \in [Claimer -> Seq(Cmd)]
        BY <2>6, AbandonedType DEF StopFail, TypeOK
      <3> QED
        BY <2>6, <3>1 DEF StopFail, TypeOK
    <2>7. ASSUME NEW c \in Claimer, Crash(c) PROVE TypeOK'
      <3>1. q' \in [Claimer -> Seq(Cmd)]
        BY <2>7, AbandonedType DEF Crash, TypeOK
      <3> QED
        BY <2>7, <3>1 DEF Crash, TypeOK, Ops
    <2>8. ASSUME NEW c \in Claimer, Exec(c) PROVE TypeOK'
      <3> DEFINE e == Head(q[c])
      <3>1. e \in Cmd /\ Tail(q[c]) \in Seq(Cmd)
        BY <2>8 DEF Exec, TypeOK
      <3>2. e.cmd \in Cmds
        BY <3>1 DEF Cmd
      <3> DEFINE r == IF e.by = "lost" THEN <<holder, ttl, "no">> ELSE RedisEffect(c, e.cmd)
      <3>3. r[1] \in Claimer \cup {Nobody} /\ r[2] \in 0..Ttl /\ r[3] \in {"yes", "no"}
        <4>1. CASE e.by = "lost"
          BY <4>1 DEF TypeOK
        <4>2. CASE e.by # "lost"
          BY <4>2, <3>2, RedisEffectType
        <4> QED BY <4>1, <4>2
      <3>4. /\ holder' = r[1] /\ ttl' = r[2]
            /\ rep' = [rep EXCEPT ![c] = IF e.by = "main" THEN r[3] ELSE @]
            /\ phase' = [phase EXCEPT ![c] = IF e.by = "stop" THEN "stopped" ELSE @]
            /\ q' = [q EXCEPT ![c] = Tail(@)]
            /\ UNCHANGED <<owned, age, timer, op, faults>>
        BY <2>8 DEF Exec
      <3> HIDE DEF e, r
      <3>5. rep' \in [Claimer -> {"none", "yes", "no"}]
        BY <3>3, <3>4 DEF TypeOK
      <3>6. q' \in [Claimer -> Seq(Cmd)]
        BY <3>1, <3>4 DEF TypeOK
      <3>7. phase' \in [Claimer -> {"new", "running", "stopping", "stopped", "crashed"}]
        BY <3>4 DEF TypeOK
      <3> QED
        BY <3>3, <3>4, <3>5, <3>6, <3>7 DEF TypeOK
    <2>9. ASSUME Expire PROVE TypeOK'
      BY <2>9 DEF Expire, TypeOK
    <2>10. ASSUME Tick PROVE TypeOK'
      <3>1. timer' \in [Claimer -> 0..Heartbeat]
        BY <2>10 DEF Tick, TypeOK
      <3>2. ttl' \in 0..Ttl
        BY <2>10 DEF Tick, TypeOK
      <3> QED
        BY <2>10, <3>1, <3>2 DEF Tick, TypeOK
    <2>11. ASSUME UNCHANGED vars PROVE TypeOK'
      BY <2>11 DEF vars, TypeOK
    <2> QED
      BY <2>1, <2>2, <2>3, <2>4, <2>5, <2>6, <2>7, <2>8, <2>9, <2>10, <2>11 DEF Next
  <1> QED
    BY <1>1, <1>2, PTL DEF Spec

------------------------------------------------------------------------------
\* An instance that still believes it owns the key had its ownership confirmed
\* less than one TTL plus one heartbeat period ago, whatever Redis calls fail.
THEOREM FencingHolds == Spec => []OwnershipFencing
  <1>1. Init => FenceInv
    BY DEF Init, FenceInv, isOwned
  <1>2. TypeOK /\ TypeOK' /\ FenceInv /\ [Next]_vars => FenceInv'
    <2> SUFFICES ASSUME TypeOK, TypeOK', FenceInv, [Next]_vars, NEW d \in Claimer
                 PROVE  /\ phase'[d] = "new" => ~owned'[d]
                        /\ isOwned(d)' => FenceBudget(d)'
      BY DEF FenceInv
    <2> DEFINE Goal == /\ phase'[d] = "new" => ~owned'[d]
                       /\ isOwned(d)' => FenceBudget(d)'
    <2> USE ClaimerAssumption
    <2>0. /\ phase[d] = "new" => ~owned[d]
          /\ isOwned(d) => FenceBudget(d)
          /\ age[d] \in Nat /\ timer[d] \in 0..Heartbeat
          /\ timer'[d] \in 0..Heartbeat
      BY DEF FenceInv, TypeOK
    \* a step that leaves d's part of the state alone
    <2>A. ASSUME phase'[d] = phase[d], owned'[d] = owned[d], age'[d] = age[d],
                 timer'[d] = timer[d], op'[d] = op[d]
          PROVE  Goal
      BY <2>0, <2>A DEF isOwned, FenceBudget
    \* a step after which d does not own the key
    <2>B. ASSUME ~owned'[d] PROVE Goal
      BY <2>B DEF isOwned
    \* a confirmation
    <2>C. ASSUME age'[d] = 0, phase'[d] # "new" PROVE Goal
      BY <2>0, <2>C DEF FenceBudget
    <2>1. ASSUME NEW c \in Claimer, Start(c) PROVE Goal
      <3>1. CASE c = d
        BY <2>0, <2>1, <3>1, <2>B DEF Start
      <3>2. CASE c # d
        BY <2>1, <3>2, <2>A DEF Start, Call, TypeOK
      <3> QED BY <3>1, <3>2
    <2>2. ASSUME NEW c \in Claimer, Continue(c) PROVE Goal
      <3>1. CASE c # d
        BY <2>2, <3>1, ContinueOther, <2>A DEF Continue
      <3>2. CASE c = d
        <4>1. \/ ~owned'[d]
              \/ phase[d] = "running" /\ age'[d] = 0
              \/ owned'[d] = owned[d] /\ op[d] = "beat" /\ age'[d] = 0
              \/ owned'[d] = owned[d] /\ age'[d] = age[d] /\ op[d] # "beat"
          BY <2>2, <3>2 DEF Continue, ContinueClaim, ContinueBeat, ClaimWon, Lost, TypeOK
        <4>2. phase'[d] = phase[d] /\ timer'[d] = timer[d]
          BY <2>2 DEF Continue
        <4>3. CASE phase[d] = "running" /\ age'[d] = 0
          BY <4>2, <4>3, <2>C
        <4>4. CASE owned'[d] = owned[d] /\ op[d] = "beat" /\ age'[d] = 0
          BY <4>2, <4>4, <2>C, <2>0 DEF isOwned
        <4>5. CASE owned'[d] = owned[d] /\ age'[d] = age[d] /\ op[d] # "beat"
          BY <4>2, <4>5, <2>0 DEF isOwned, FenceBudget
        <4> QED
          BY <4>1, <4>3, <4>4, <4>5, <2>B
      <3> QED BY <3>1, <3>2
    <2>3. ASSUME NEW c \in Claimer, Fail(c) PROVE Goal
      <3>1. CASE c # d
        BY <2>3, <3>1, <2>A DEF Fail, TypeOK
      <3>2. CASE c = d /\ ~(op[c] = "beat" /\ owned[c] /\ age[c] < Ttl)
        BY <2>3, <3>2, <2>B DEF Fail, TypeOK
      <3>3. CASE c = d /\ op[c] = "beat" /\ owned[c] /\ age[c] < Ttl
        <4>1. age'[d] = age[d] /\ timer'[d] = timer[d] /\ phase'[d] = phase[d]
          BY <2>3, <3>3 DEF Fail, TypeOK
        <4> QED
          BY <3>3, <4>1, <2>0 DEF isOwned, FenceBudget
      <3> QED BY <3>1, <3>2, <3>3
    <2>4. ASSUME NEW c \in Claimer, Maintain(c) PROVE Goal
      <3>1. CASE c # d
        BY <2>4, <3>1, <2>A DEF Maintain, Call, TypeOK
      <3>2. CASE c = d /\ ~owned[d]
        BY <2>4, <3>2, <2>B DEF Maintain
      <3>3. CASE c = d /\ owned[d]
        <4>1. /\ op'[d] = "beat" /\ timer'[d] = Heartbeat /\ age'[d] = age[d]
              /\ phase[d] = "running" /\ phase'[d] = "running" /\ timer[d] = 0
          BY <2>4, <3>3 DEF Maintain, Call, TypeOK
        <4> QED
          BY <3>3, <4>1, <2>0 DEF isOwned, FenceBudget
      <3> QED BY <3>1, <3>2, <3>3
    <2>5. ASSUME NEW c \in Claimer, Stop(c) PROVE Goal
      <3>1. CASE c # d
        <4>1. /\ phase'[d] = phase[d] /\ owned'[d] = owned[d] /\ age'[d] = age[d]
              /\ timer'[d] = timer[d] /\ op'[d] = op[d]
          BY <2>5, <3>1 DEF Stop, TypeOK
        <4> QED BY <4>1, <2>A
      <3>2. CASE c = d
        <4>1. ~owned'[d]
          BY <2>5, <3>2 DEF Stop, TypeOK
        <4> QED BY <4>1, <2>B
      <3> QED BY <3>1, <3>2
    <2>6. ASSUME NEW c \in Claimer, StopFail(c) PROVE Goal
      <3>1. phase'[d] = phase[d] \/ phase'[d] = "stopped"
        BY <2>6 DEF StopFail, TypeOK
      <3>2. CASE phase'[d] = phase[d]
        BY <2>6, <3>2, <2>A DEF StopFail
      <3>3. CASE phase'[d] = "stopped"
        BY <3>3 DEF isOwned
      <3> QED BY <3>1, <3>2, <3>3
    <2>7. ASSUME NEW c \in Claimer, Crash(c) PROVE Goal
      <3>1. CASE c # d
        <4>1. phase'[d] = phase[d] /\ owned'[d] = owned[d]
          BY <2>7, <3>1 DEF Crash, TypeOK
        <4>2. age'[d] = age[d] /\ timer'[d] = timer[d] /\ op'[d] = op[d]
          BY <2>7, <3>1 DEF Crash, TypeOK
        <4> QED BY <4>1, <4>2, <2>A
      <3>2. CASE c = d
        <4>1. ~owned'[d]
          BY <2>7, <3>2 DEF Crash, TypeOK
        <4> QED BY <4>1, <2>B
      <3> QED BY <3>1, <3>2
    <2>8. ASSUME NEW c \in Claimer, Exec(c) PROVE Goal
      <3>1. phase'[d] = phase[d] \/ phase'[d] = "stopped"
        BY <2>8 DEF Exec, TypeOK
      <3>2. CASE phase'[d] = phase[d]
        BY <2>8, <3>2, <2>A DEF Exec
      <3>3. CASE phase'[d] = "stopped"
        BY <3>3 DEF isOwned
      <3> QED BY <3>1, <3>2, <3>3
    <2>9. ASSUME Expire PROVE Goal
      BY <2>9, <2>A DEF Expire
    <2>10. ASSUME Tick PROVE Goal
      <3>1. CASE isOwned(d)
        <4>1. /\ op[d] = "idle" /\ timer[d] > 0 /\ timer'[d] = timer[d] - 1
              /\ age'[d] = age[d] + 1 /\ phase'[d] = phase[d]
          BY <2>10, <3>1 DEF Tick, isOwned
        <4> QED
          BY <3>1, <4>1, <2>0 DEF isOwned, FenceBudget
      <3>2. CASE ~isOwned(d)
        BY <2>10, <3>2, <2>0 DEF Tick, isOwned
      <3> QED BY <3>1, <3>2
    <2>11. ASSUME UNCHANGED vars PROVE Goal
      BY <2>11, <2>A DEF vars
    <2> QED
      BY <2>1, <2>2, <2>3, <2>4, <2>5, <2>6, <2>7, <2>8, <2>9, <2>10, <2>11 DEF Next
  <1>3. TypeOK /\ FenceInv => OwnershipFencing
    BY ClaimerAssumption DEF FenceInv, FenceBudget, OwnershipFencing, TypeOK
  <1> QED
    BY <1>1, <1>2, <1>3, TypeCorrect, PTL DEF Spec

------------------------------------------------------------------------------
\* A command in the queue of c while no call has failed: the one its activity awaits, or the
\* release of its stop(); and there is one of each at most.
Fits(o, command) == command = (IF o = "undo" THEN "release" ELSE o)
Expected(c, e) ==
    \/ e.by = "main" /\ op[c] # "idle" /\ rep[c] = "none" /\ Fits(op[c], e.cmd)
    \/ e.by = "stop" /\ phase[c] = "stopping" /\ e.cmd = "release"
Queue(c, s) ==
    /\ \A i \in 1..Len(s) : Expected(c, s[i])
    /\ \A i, j \in 1..Len(s) : s[i].by = s[j].by => i = j

\* The strengthening of NoGhost: nobody awaits the commands of a dead instance, and a stopped one
\* has the key only between the answer to a claim that stop() overtook and the release that
\* undoes it.
GhostOk(c) ==
    \/ phase[c] = "crashed" /\ op[c] = "idle" /\ \A i \in 1..Len(q[c]) : q[c][i].by \in Fates
    \/ /\ phase[c] # "crashed"
       /\ phase[c] = "new" => op[c] = "idle" /\ q[c] = <<>>
       /\ Queue(c, q[c])
       /\ phase[c] = "stopped" /\ holder = c =>
             \/ op[c] = "set" /\ rep[c] = "yes"
             \/ op[c] = "undo" /\ rep[c] = "none"

\* A queue with no command of an activity can take one.
LEMMA QueueAppend ==
    ASSUME NEW s \in Seq(Cmd), NEW e \in Cmd, NEW c, Queue(c, s)',
           \A i \in 1..Len(s) : s[i].by # e.by, Expected(c, e)'
    PROVE  Queue(c, Append(s, e))'
  <1> DEFINE t == Append(s, e)
  <1>1. /\ Len(t) = Len(s) + 1 /\ Len(s) \in Nat /\ t[Len(s) + 1] = e
        /\ \A i \in 1..Len(s) : t[i] = s[i]
    OBVIOUS
  <1> HIDE DEF t
  <1>2. ASSUME NEW i \in 1..Len(t) PROVE Expected(c, t[i])'
    <2>1. CASE i \in 1..Len(s)
      <3>1. Expected(c, s[i])'
        BY <2>1 DEF Queue
      <3> QED BY <1>1, <2>1, <3>1
    <2>2. CASE i = Len(s) + 1
      BY <1>1, <2>2
    <2> QED BY <1>1, <2>1, <2>2
  <1>3. ASSUME NEW i \in 1..Len(t), NEW j \in 1..Len(t), t[i].by = t[j].by PROVE i = j
    <2>1. \A k \in 1..Len(t) : k \in 1..Len(s) \/ k = Len(s) + 1
      BY <1>1
    <2>2. \A k, l \in 1..Len(s) : s[k].by = s[l].by => k = l
      BY DEF Queue
    <2> QED BY <1>1, <1>3, <2>1, <2>2
  <1> QED BY <1>2, <1>3 DEF Queue, t

\* Without its first command a queue has nothing more by the same sender.
LEMMA QueueTail ==
    ASSUME NEW s \in Seq(Cmd), s # <<>>, NEW c, Queue(c, s)
    PROVE  /\ Expected(c, Head(s)) /\ Head(s) \in Cmd
           /\ \A i \in 1..Len(Tail(s)) : Expected(c, Tail(s)[i]) /\ Tail(s)[i].by # Head(s).by
           /\ \A i, j \in 1..Len(Tail(s)) : Tail(s)[i].by = Tail(s)[j].by => i = j
  <1>1. /\ Len(s) \in Nat \ {0} /\ Len(Tail(s)) = Len(s) - 1 /\ Head(s) = s[1]
        /\ \A i \in 1..Len(Tail(s)) : Tail(s)[i] = s[i + 1]
    OBVIOUS
  <1>2. 1 \in 1..Len(s) /\ \A i \in 1..Len(Tail(s)) : i + 1 \in 1..Len(s) /\ i + 1 # 1
    BY <1>1
  <1>3. Head(s) \in Cmd
    BY <1>1, <1>2
  <1>4. ASSUME NEW i \in 1..Len(Tail(s))
        PROVE  Expected(c, Tail(s)[i]) /\ Tail(s)[i].by # Head(s).by
    <2>1. Expected(c, s[i + 1]) /\ (s[i + 1].by = s[1].by => i + 1 = 1)
      BY <1>2 DEF Queue
    <2> QED BY <1>1, <1>2, <2>1
  <1>5. ASSUME NEW i \in 1..Len(Tail(s)), NEW j \in 1..Len(Tail(s)), Tail(s)[i].by = Tail(s)[j].by
        PROVE  i = j
    <2>1. s[i + 1].by = s[j + 1].by => i + 1 = j + 1
      BY <1>2 DEF Queue
    <2>2. i \in Nat /\ j \in Nat
      BY <1>1
    <2> QED BY <1>1, <1>5, <2>1, <2>2
  <1>6. Expected(c, Head(s))
    BY <1>1, <1>2 DEF Queue
  <1> QED BY <1>3, <1>4, <1>5, <1>6

\* The invariant: it is about behaviours in which no call failed, as NoGhost is.
GhostInv == faults = 0 => \A c \in Claimer : GhostOk(c)

\* A new call of c's activity, whose former call was answered.
LEMMA CallGhost ==
    ASSUME TypeOK, NEW c \in Claimer, NEW o \in Ops \ {"idle"}, NEW k \in Cmds, Call(c, o, k),
           Fits(o, k), Queue(c, q[c]), op[c] = "idle" \/ rep[c] # "none",
           phase'[c] = phase[c] \/ q[c] = <<>>
    PROVE  Queue(c, q[c])' /\ op'[c] = o /\ rep'[c] = "none"
  <1> DEFINE e == [cmd |-> k, by |-> "main"]
  <1>1. /\ op'[c] = o /\ rep'[c] = "none" /\ q'[c] = Append(q[c], e) /\ q[c] \in Seq(Cmd)
        /\ e \in Cmd /\ e.by = "main" /\ e.cmd = k
    BY DEF Call, TypeOK, Cmd
  <1> HIDE DEF e
  <1>2. \A i \in 1..Len(q[c]) :
            q[c][i].by = "stop" /\ phase[c] = "stopping" /\ q[c][i].cmd = "release"
    BY DEF Queue, Expected
  <1>3. \A i, j \in 1..Len(q[c]) : q[c][i].by = q[c][j].by => i = j
    BY DEF Queue
  <1> DEFINE s == q[c]
  <1>4. s \in Seq(Cmd) /\ \A i \in 1..Len(s) : s[i].by # e.by
    BY <1>1, <1>2
  <1>5. Expected(c, e)'
    BY <1>1 DEF Expected
  <1>6. ASSUME NEW t, t = s PROVE Queue(c, t)'
    <2>1. CASE phase'[c] = phase[c]
      BY <1>2, <1>3, <1>6, <2>1 DEF Queue, Expected
    <2>2. CASE s = <<>>
      BY <1>6, <2>2 DEF Queue
    <2> QED BY <2>1, <2>2
  <1>7. PICK t : t = s
    OBVIOUS
  <1>8. Queue(c, Append(t, e))'
    <2>1. t \in Seq(Cmd) /\ \A i \in 1..Len(t) : t[i].by # e.by
      BY <1>4, <1>7
    <2>2. PICK f : f = e
      OBVIOUS
    <2>3. Queue(c, t)'
      BY <1>6, <1>7
    <2>4. f \in Cmd /\ Expected(c, f)' /\ \A i \in 1..Len(t) : t[i].by # f.by
      BY <1>1, <1>5, <2>1, <2>2
    <2>5. Queue(c, Append(t, f))'
      BY <2>1, <2>3, <2>4, QueueAppend
    <2> QED BY <2>2, <2>5
  <1> QED BY <1>1, <1>7, <1>8

\* What Redis does with a command of c cannot give the key to another instance, and gives it to c
\* for a SET of an absent key only.
LEMMA EffectGhost ==
    ASSUME TypeOK, NEW c \in Claimer, NEW k \in Cmds
    PROVE  /\ \A d \in Claimer : RedisEffect(c, k)[1] = d => holder = d \/ (d = c /\ k = "set")
           /\ k = "release" => RedisEffect(c, k)[1] # c
           /\ k = "set" /\ holder = Nobody => RedisEffect(c, k)[3] = "yes"
           /\ k = "set" /\ RedisEffect(c, k)[1] = c => holder \in {c, Nobody}
  BY ClaimerAssumption DEF RedisEffect, TypeOK, Cmds

\* A step that leaves c's part alone and does not give it the key.
LEMMA FrameGhost ==
    ASSUME NEW c \in Claimer, GhostOk(c), phase'[c] = phase[c], op'[c] = op[c], rep'[c] = rep[c],
           q'[c] = q[c], holder' = c => holder = c
    PROVE  GhostOk(c)'
  BY DEF GhostOk, Queue, Expected, Fits

\* The release of stop() comes to the queue of its activity.
LEMMA StopGhost ==
    ASSUME TypeOK, NEW c \in Claimer, GhostOk(c), Stop(c)
    PROVE  GhostOk(c)'
  <1> DEFINE s == q[c]
             t == q'[c]
  <1>1. /\ phase[c] = "running" /\ phase'[c] = "stopping" /\ op'[c] = op[c] /\ rep'[c] = rep[c]
    BY DEF Stop, TypeOK
  <1>2. PICK m \in 1..Len(t) :
              /\ t[m] = [cmd |-> "release", by |-> "stop"]
              /\ \A i \in 1..Len(t) :
                    i = m \/ \E k \in 1..Len(s) : t[i] = s[k] /\ i = (IF m = 1 THEN k + 1 ELSE k)
    BY StopType
  <1>3. /\ \A k \in 1..Len(s) : /\ s[k].by = "main" /\ op[c] # "idle" /\ rep[c] = "none"
                               /\ Fits(op[c], s[k].cmd)
        /\ \A k, l \in 1..Len(s) : s[k].by = s[l].by => k = l
    BY <1>1 DEF GhostOk, Queue, Expected
  <1> HIDE DEF s, t
  <1>4. t[m].by = "stop" /\ t[m].cmd = "release"
    BY <1>2
  <1>5. \A i \in 1..Len(t) : \/ t[i].by = "stop" /\ t[i].cmd = "release"
                             \/ /\ t[i].by = "main" /\ op[c] # "idle" /\ rep[c] = "none"
                                /\ Fits(op[c], t[i].cmd)
    BY <1>2, <1>3, <1>4
  <1>6. ASSUME NEW i \in 1..Len(t), NEW j \in 1..Len(t), t[i].by = t[j].by PROVE i = j
    <2>1. CASE i = m \/ j = m
      BY <1>2, <1>3, <1>4, <1>6, <2>1
    <2>2. CASE i # m /\ j # m
      <3>1. PICK k \in 1..Len(s) : t[i] = s[k] /\ i = (IF m = 1 THEN k + 1 ELSE k)
        BY <1>2, <2>2
      <3>2. PICK l \in 1..Len(s) : t[j] = s[l] /\ j = (IF m = 1 THEN l + 1 ELSE l)
        BY <1>2, <2>2
      <3>3. k = l
        BY <1>3, <1>6, <3>1, <3>2
      <3> QED BY <3>1, <3>2, <3>3
    <2> QED BY <2>1, <2>2
  <1>7. Queue(c, q[c])'
    BY <1>1, <1>5, <1>6 DEF Queue, Expected, Fits, t
  <1> QED BY <1>1, <1>7 DEF GhostOk

\* The continuation of c after an answer.
LEMMA ContinueGhost ==
    ASSUME TypeOK, NEW c \in Claimer, GhostOk(c), Continue(c), phase[c] # "crashed"
    PROVE  GhostOk(c)'
  <1>1. phase'[c] = phase[c] /\ holder' = holder /\ op[c] # "idle" /\ rep[c] # "none"
    BY DEF Continue, ContinueClaim, ContinueBeat, TypeOK
  <1>2. /\ phase[c] # "new" /\ Queue(c, q[c])
        /\ phase[c] = "stopped" /\ holder = c => op[c] = "set" /\ rep[c] = "yes"
    BY <1>1 DEF GhostOk
  <1>3. CASE Idle(c) /\ ~(phase[c] = "stopped" /\ holder = c)
    <2>1. op'[c] = "idle" /\ q' = q
      BY <1>3 DEF Idle, TypeOK
    <2>2. Queue(c, q[c])'
      <3>1. \A i \in 1..Len(q[c]) :
                q[c][i].by = "stop" /\ phase[c] = "stopping" /\ q[c][i].cmd = "release"
        BY <1>1, <1>2 DEF Queue, Expected
      <3> QED BY <1>1, <1>2, <2>1, <3>1 DEF Queue, Expected
    <2> QED BY <1>1, <1>2, <1>3, <2>2 DEF GhostOk
  <1>4. ASSUME NEW o \in Ops \ {"idle"}, NEW k \in Cmds, Call(c, o, k), Fits(o, k),
               phase[c] = "stopped" /\ holder = c => o = "undo"
        PROVE  GhostOk(c)'
    <2>1. Queue(c, q[c])' /\ op'[c] = o /\ rep'[c] = "none"
      BY <1>1, <1>2, <1>4, CallGhost
    <2> QED BY <1>1, <1>2, <1>4, <2>1 DEF GhostOk
  <1>5. \/ Idle(c) /\ ~(phase[c] = "stopped" /\ holder = c)
        \/ Call(c, "undo", "release")
        \/ Call(c, "get", "get") /\ rep[c] = "no"
        \/ Call(c, "expire", "expire") /\ op[c] = "get"
    BY <1>2 DEF Continue, ContinueClaim, ContinueBeat, ClaimWon, Lost
  <1>6. /\ "undo" \in Ops /\ "get" \in Ops /\ "expire" \in Ops
        /\ "release" \in Cmds /\ "get" \in Cmds /\ "expire" \in Cmds
        /\ Fits("undo", "release") /\ Fits("get", "get") /\ Fits("expire", "expire")
    BY DEF Ops, Cmds, Fits
  <1> QED BY <1>2, <1>3, <1>4, <1>5, <1>6

\* Redis executes a command of c.
LEMMA ExecGhost ==
    ASSUME TypeOK, NEW c \in Claimer, GhostOk(c), Exec(c), phase[c] # "crashed"
    PROVE  GhostOk(c)'
  <1> DEFINE e == Head(q[c])
             s == q[c]
             u == Tail(q[c])
             r == RedisEffect(c, e.cmd)
  <1>1. s \in Seq(Cmd) /\ s # <<>> /\ Queue(c, s) /\ phase[c] # "new" /\ u \in Seq(Cmd)
    BY DEF Exec, TypeOK, GhostOk
  <1>2. /\ Expected(c, e) /\ e \in Cmd
        /\ \A i \in 1..Len(u) : Expected(c, u[i]) /\ u[i].by # e.by
        /\ \A i, j \in 1..Len(u) : u[i].by = u[j].by => i = j
    BY <1>1, QueueTail
  <1>3. e.by \in {"main", "stop"} /\ e.cmd \in Cmds
    BY <1>2 DEF Expected, Cmd
  <1>4. /\ holder' = r[1] /\ q'[c] = u /\ op' = op
        /\ rep'[c] = (IF e.by = "main" THEN r[3] ELSE rep[c])
        /\ phase'[c] = (IF e.by = "stop" THEN "stopped" ELSE phase[c])
    BY <1>3 DEF Exec, TypeOK
  <1>5. /\ r[1] = c => holder = c \/ e.cmd = "set"
        /\ e.cmd = "release" => r[1] # c
        /\ e.cmd = "set" /\ holder = Nobody => r[3] = "yes"
        /\ e.cmd = "set" /\ r[1] = c => holder \in {c, Nobody}
    BY <1>3, EffectGhost
  <1> HIDE DEF e, u, r
  <1>6. CASE e.by = "main"
    <2>1. op[c] # "idle" /\ rep[c] = "none" /\ Fits(op[c], e.cmd)
      BY <1>2, <1>6 DEF Expected
    <2>2. \A i \in 1..Len(u) : u[i].by = "stop" /\ phase[c] = "stopping" /\ u[i].cmd = "release"
      BY <1>2, <1>6 DEF Expected
    <2>3. Queue(c, q[c])'
      BY <1>2, <1>4, <1>6, <2>2 DEF Queue, Expected
    <2>4. ASSUME phase'[c] = "stopped", holder' = c
          PROVE  (op'[c] = "set" /\ rep'[c] = "yes") \/ (op'[c] = "undo" /\ rep'[c] = "none")
      <3>1. phase[c] = "stopped"
        BY <1>4, <1>6, <2>4
      <3>2. e.cmd # "release"
        BY <1>4, <1>5, <2>4
      <3>3. holder = c => op[c] = "undo"
        BY <2>1, <3>1 DEF GhostOk
      <3>4. op[c] = e.cmd
        BY <2>1, <3>2 DEF Fits
      <3>5. holder # c
        BY <2>1, <3>2, <3>3 DEF Fits
      <3>6. e.cmd = "set" /\ holder = Nobody
        BY <1>4, <1>5, <2>4, <3>5
      <3> QED BY <1>4, <1>5, <1>6, <3>4, <3>6
    <2> QED BY <1>1, <1>4, <1>6, <2>3, <2>4 DEF GhostOk
  <1>7. CASE e.by = "stop"
    <2>1. phase[c] = "stopping" /\ e.cmd = "release"
      BY <1>2, <1>7 DEF Expected
    <2>2. holder' # c
      BY <1>4, <1>5, <2>1
    <2>3. \A i \in 1..Len(u) : /\ u[i].by = "main" /\ op[c] # "idle" /\ rep[c] = "none"
                               /\ Fits(op[c], u[i].cmd)
      BY <1>2, <1>7 DEF Expected
    <2>4. Queue(c, q[c])'
      BY <1>2, <1>4, <1>7, <2>3 DEF Queue, Expected, Fits
    <2> QED BY <1>4, <1>7, <2>2, <2>4 DEF GhostOk
  <1> QED BY <1>3, <1>6, <1>7

\* A process that dies awaits nothing more.
LEMMA CrashGhost ==
    ASSUME TypeOK, NEW c \in Claimer, Crash(c)
    PROVE  GhostOk(c)'
  <1> DEFINE s == q[c]
  <1>1. PICK fate \in Fates : q' = [q EXCEPT ![c] = Abandoned(@, {"main", "stop"}, fate)]
    BY DEF Crash
  <1>2. /\ phase'[c] = "crashed" /\ op'[c] = "idle" /\ s \in Seq(Cmd)
        /\ q'[c] = Abandoned(s, {"main", "stop"}, fate)
    BY <1>1 DEF Crash, TypeOK
  <1>3. \A i \in 1..Len(s) : s[i] \in Cmd
    BY <1>2
  <1>4. /\ Len(Abandoned(s, {"main", "stop"}, fate)) = Len(s)
        /\ \A i \in 1..Len(s) : Abandoned(s, {"main", "stop"}, fate)[i].by \in Fates
    <2>1. Len(s) \in Nat
      BY <1>2
    <2>2. \A i \in 1..Len(s) : [s[i] EXCEPT !.by = fate].by = fate
      BY <1>3 DEF Cmd
    <2> QED BY <1>3, <2>1, <2>2 DEF Abandoned, Cmd
  <1> QED BY <1>2, <1>4 DEF GhostOk

\* Redis executes what a dead instance had sent.
LEMMA DeadGhost ==
    ASSUME TypeOK, NEW c \in Claimer, GhostOk(c), Exec(c), phase[c] = "crashed"
    PROVE  GhostOk(c)'
  <1> DEFINE s == q[c]
  <1>1. s \in Seq(Cmd) /\ s # <<>> /\ \A i \in 1..Len(s) : s[i].by \in Fates
    BY DEF Exec, TypeOK, GhostOk, Queue, Expected
  <1>2. /\ Len(s) \in Nat \ {0} /\ Len(Tail(s)) = Len(s) - 1 /\ Head(s) = s[1]
        /\ \A i \in 1..Len(Tail(s)) : Tail(s)[i] = s[i + 1] /\ i + 1 \in 1..Len(s)
    BY <1>1
  <1>3. Head(s).by \in Fates /\ \A i \in 1..Len(Tail(s)) : Tail(s)[i].by \in Fates
    BY <1>1, <1>2
  <1>4. phase'[c] = "crashed" /\ op'[c] = op[c] /\ q'[c] = Tail(s)
    BY <1>3 DEF Exec, TypeOK, Fates
  <1> QED BY <1>3, <1>4 DEF GhostOk

\* As long as no Redis call failed, a stop() that has returned leaves no key behind once the claim
\* it overtook has ended.
THEOREM NoGhostHolds == Spec => []NoGhost
  <1>1. Init => GhostInv
    <2> SUFFICES ASSUME Init, NEW c \in Claimer PROVE GhostOk(c)
      BY DEF GhostInv
    <2>1. phase[c] = "new" /\ op[c] = "idle" /\ q[c] = <<>>
      BY DEF Init
    <2>2. Queue(c, q[c])
      BY <2>1 DEF Queue
    <2> QED BY <2>1, <2>2 DEF GhostOk
  <1>2. TypeOK /\ TypeOK' /\ GhostInv /\ [Next]_vars => GhostInv'
    <2> SUFFICES ASSUME TypeOK, TypeOK', GhostInv, [Next]_vars, faults' = 0, NEW d \in Claimer
                 PROVE  GhostOk(d)'
      BY DEF GhostInv
    <2> USE ClaimerAssumption
    <2>0. faults = 0 /\ \A c \in Claimer : ~Fail(c) /\ ~StopFail(c)
      <3>1. faults \in Nat /\ MaxFaults \in Nat
        BY DEF TypeOK
      <3>2. faults' = faults \/ faults' = faults + 1
        BY DEF Next, vars, Start, Continue, Fail, Maintain, Stop, StopFail, Crash, Exec, Expire, Tick
      <3> QED BY <3>1, <3>2 DEF Fail, StopFail
    <2>1. GhostOk(d)
      BY <2>0 DEF GhostInv
    <2>3. ASSUME NEW c \in Claimer, c # d,
                 Start(c) \/ Maintain(c) \/ Stop(c) \/ Crash(c) \/ Continue(c)
          PROVE  GhostOk(d)'
      <3>1. phase'[d] = phase[d] /\ holder' = holder
        BY <2>3 DEF Start, Maintain, Stop, Crash, Continue, TypeOK
      <3>2. op'[d] = op[d] /\ rep'[d] = rep[d] /\ q'[d] = q[d]
        <4>1. ASSUME NEW o, NEW k, Call(c, o, k)
              PROVE  op'[d] = op[d] /\ rep'[d] = rep[d] /\ q'[d] = q[d]
          BY <2>3, <4>1 DEF Call, TypeOK
        <4>2. ASSUME Idle(c) PROVE op'[d] = op[d] /\ rep'[d] = rep[d] /\ q'[d] = q[d]
          BY <2>3, <4>2 DEF Idle, TypeOK
        <4>3. CASE Continue(c)
          <5>1. Idle(c) \/ \E o \in Ops, k \in Cmds : Call(c, o, k)
            BY <4>3 DEF Continue, ContinueClaim, ContinueBeat, ClaimWon, Lost, Ops, Cmds
          <5> QED BY <4>1, <4>2, <5>1
        <4>4. CASE Start(c) \/ Maintain(c)
          <5>1. \E o \in Ops, k \in Cmds : Call(c, o, k)
            BY <4>4 DEF Start, Maintain, Ops, Cmds
          <5> QED BY <4>1, <5>1
        <4>5. CASE Stop(c)
          BY <2>3, <4>5 DEF Stop, TypeOK
        <4>6. CASE Crash(c)
          BY <2>3, <4>6 DEF Crash, TypeOK
        <4> QED BY <2>3, <4>3, <4>4, <4>5, <4>6
      <3> QED BY <2>1, <3>1, <3>2, FrameGhost
    <2>4. CASE Start(d)
      <3>1. phase'[d] = "running" /\ q[d] = <<>> /\ op[d] = "idle" /\ Call(d, "set", "set")
        BY <2>1, <2>4 DEF Start, TypeOK, GhostOk
      <3>2. "set" \in Ops \ {"idle"} /\ "set" \in Cmds /\ Fits("set", "set")
        BY DEF Ops, Cmds, Fits
      <3>3. Queue(d, q[d])
        BY <3>1 DEF Queue
      <3>4. Queue(d, q[d])'
        BY <3>1, <3>2, <3>3, CallGhost
      <3> QED BY <3>1, <3>4 DEF GhostOk
    <2>5. CASE Maintain(d)
      <3>1. /\ phase'[d] = "running" /\ phase[d] = "running" /\ op[d] = "idle" /\ Queue(d, q[d])
            /\ Call(d, "beat", "beat") \/ Call(d, "set", "set")
        BY <2>1, <2>5 DEF Maintain, TypeOK, GhostOk
      <3>2. /\ "set" \in Ops \ {"idle"} /\ "set" \in Cmds /\ Fits("set", "set")
            /\ "beat" \in Ops \ {"idle"} /\ "beat" \in Cmds /\ Fits("beat", "beat")
        BY DEF Ops, Cmds, Fits
      <3>3. Queue(d, q[d])'
        BY <3>1, <3>2, CallGhost
      <3> QED BY <3>1, <3>3 DEF GhostOk
    <2>6. CASE Stop(d)
      BY <2>1, <2>6, StopGhost
    <2>7. CASE Crash(d)
      BY <2>7, CrashGhost
    <2>8. CASE Continue(d)
      <3>1. CASE phase[d] = "crashed" /\ op[d] = "idle"
        BY <2>8, <3>1 DEF Continue, ContinueClaim, ContinueBeat
      <3>2. CASE phase[d] # "crashed"
        BY <2>1, <2>8, <3>2, ContinueGhost
      <3> QED BY <2>1, <3>1, <3>2 DEF GhostOk
    <2>9. CASE Exec(d)
      BY <2>1, <2>9, ExecGhost, DeadGhost
    <2>10. ASSUME NEW c \in Claimer, c # d, Exec(c) PROVE GhostOk(d)'
      <3> DEFINE e == Head(q[c])
      <3>1. e \in Cmd
        BY <2>10 DEF Exec, TypeOK
      <3>2. e.cmd \in Cmds
        BY <3>1 DEF Cmd
      <3>3. holder' = holder \/ holder' = RedisEffect(c, e.cmd)[1]
        BY <2>10 DEF Exec
      <3>4. holder' = d => holder = d
        BY <2>10, <3>2, <3>3, EffectGhost
      <3>5. /\ phase'[d] = phase[d] /\ op'[d] = op[d] /\ rep'[d] = rep[d] /\ q'[d] = q[d]
        BY <2>10 DEF Exec, TypeOK
      <3> QED BY <2>1, <3>4, <3>5, FrameGhost
    <2>11. CASE Expire \/ Tick \/ UNCHANGED vars
      <3>1. phase' = phase /\ op' = op /\ rep' = rep /\ q' = q
        BY <2>11 DEF Expire, Tick, vars
      <3>2. holder' = d => holder = d
        BY <2>11 DEF Expire, Tick, vars
      <3> QED BY <2>1, <3>1, <3>2, FrameGhost
    <2> QED
      BY <2>0, <2>3, <2>4, <2>5, <2>6, <2>7, <2>8, <2>9, <2>10, <2>11 DEF Next
  <1>3. TypeOK /\ GhostInv => NoGhost
    <2> SUFFICES ASSUME GhostInv, NEW c \in Claimer, faults = 0, phase[c] = "stopped",
                        op[c] = "idle"
                 PROVE  holder # c
      BY DEF NoGhost
    <2> QED BY DEF GhostInv, GhostOk
  <1> QED
    BY <1>1, <1>2, <1>3, TypeCorrect, PTL DEF Spec

\* Both together: what an instance of an identity may rely on of its lease.
THEOREM LeaseSafeHolds == Spec => []LeaseSafe
  <1>1. OwnershipFencing /\ NoGhost => LeaseSafe
    BY DEF LeaseSafe
  <1> QED
    BY <1>1, FencingHolds, NoGhostHolds, PTL

------------------------------------------------------------------------------
\* Sending any command but a release keeps ReleaseOk once the instance has started,
\* and sending a release keeps it once it no longer runs.
LEMMA CallRelease ==
    ASSUME TypeOK, NEW c \in Claimer, NEW o, NEW command \in Cmds, Call(c, o, command), ReleaseOk(c),
           phase'[c] # "new", phase[c] \notin {"new", "running"} => phase'[c] \notin {"new", "running"},
           command = "release" => phase'[c] # "running"
    PROVE  ReleaseOk(c)'
  <1> DEFINE e == [cmd |-> command, by |-> "main"]
  <1>1. q[c] \in Seq(Cmd) /\ q'[c] = Append(q[c], e)
    BY DEF Call, TypeOK
  <1>2. /\ Len(q'[c]) = Len(q[c]) + 1
        /\ \A i \in 1..Len(q[c]) : q'[c][i] = q[c][i]
        /\ q'[c][Len(q[c]) + 1] = e
        /\ Len(q[c]) \in Nat
    BY <1>1
  <1>3. e.cmd = command
    OBVIOUS
  <1> SUFFICES ASSUME NEW i \in 1..Len(q'[c]), q'[c][i].cmd = "release"
               PROVE  phase'[c] \notin {"new", "running"}
    BY DEF ReleaseOk
  <1>4. CASE i \in 1..Len(q[c])
    BY <1>2, <1>4 DEF ReleaseOk
  <1>5. CASE i = Len(q[c]) + 1
    BY <1>2, <1>3, <1>5
  <1> QED
    BY <1>2, <1>4, <1>5

\* Nothing but a release or an expiry takes the key from its holder, and the
\* scripts guard the release by the token.
LEMMA EffectOnHolder ==
    ASSUME TypeOK, NEW c \in Claimer, NEW command \in Cmds, NEW d \in Claimer,
           holder = d, RedisEffect(c, command)[1] # d
    PROVE  c = d /\ command = "release"
  BY ClaimerAssumption DEF RedisEffect, TypeOK, Cmds

\* A release is sent only by an instance that has left "running" for good.
THEOREM ReleaseOnlyWhenGone == Spec => []ReleaseInv
  <1>1. Init => ReleaseInv
    <2> SUFFICES ASSUME Init, NEW c \in Claimer PROVE ReleaseOk(c)
      BY DEF ReleaseInv
    <2>1. phase[c] = "new" /\ op[c] = "idle" /\ q[c] = <<>>
      BY DEF Init
    <2>2. Len(q[c]) = 0
      BY <2>1
    <2> QED
      BY <2>1, <2>2 DEF ReleaseOk
  <1>2. TypeOK /\ TypeOK' /\ ReleaseInv /\ [Next]_vars => ReleaseInv'
    <2> SUFFICES ASSUME TypeOK, TypeOK', ReleaseInv, [Next]_vars, NEW d \in Claimer
                 PROVE  ReleaseOk(d)'
      BY DEF ReleaseInv
    <2>0. ReleaseOk(d)
      BY DEF ReleaseInv
    <2>A. ASSUME phase'[d] = phase[d], op'[d] = op[d], q'[d] = q[d] PROVE ReleaseOk(d)'
      BY <2>0, <2>A DEF ReleaseOk
    <2>1. ASSUME NEW c \in Claimer, Start(c) PROVE ReleaseOk(d)'
      <3>1. CASE c # d
        BY <2>1, <3>1, <2>A DEF Start, Call, TypeOK
      <3>2. CASE c = d
        <4>1. "set" \in Cmds /\ phase'[c] = "running" /\ phase[c] = "new"
          BY <2>1 DEF Cmds, Start, TypeOK
        <4> QED
          BY <2>0, <2>1, <3>2, <4>1, CallRelease DEF Start
      <3> QED BY <3>1, <3>2
    <2>2. ASSUME NEW c \in Claimer, Continue(c) PROVE ReleaseOk(d)'
      <3>0. phase' = phase
        BY <2>2 DEF Continue
      <3>1. CASE c # d
        BY <2>2, <3>0, <3>1, ContinueOther, <2>A
      <3>2. CASE c = d
        <4>0. phase[c] # "new"
          BY <2>0, <2>2, <3>2 DEF ReleaseOk, Continue, ContinueClaim, ContinueBeat
        <4>1. \/ Idle(c)
              \/ Call(c, "undo", "release") /\ phase[c] # "running"
              \/ Call(c, "get", "get")
              \/ Call(c, "expire", "expire")
          BY <2>2 DEF Continue, ContinueClaim, ContinueBeat, ClaimWon, Lost
        <4>2. CASE Idle(c)
          BY <2>0, <3>0, <3>2, <4>0, <4>2 DEF Idle, ReleaseOk
        <4>3. "release" \in Cmds /\ "get" \in Cmds /\ "expire" \in Cmds
          BY DEF Cmds
        <4>4. CASE Call(c, "undo", "release") /\ phase[c] # "running"
          BY <2>0, <3>0, <3>2, <4>0, <4>3, <4>4, CallRelease
        <4>5. CASE Call(c, "get", "get")
          BY <2>0, <3>0, <3>2, <4>0, <4>3, <4>5, CallRelease
        <4>6. CASE Call(c, "expire", "expire")
          BY <2>0, <3>0, <3>2, <4>0, <4>3, <4>6, CallRelease
        <4> QED
          BY <4>1, <4>2, <4>4, <4>5, <4>6
      <3> QED BY <3>1, <3>2
    <2>3. ASSUME NEW c \in Claimer, Fail(c) PROVE ReleaseOk(d)'
      <3>1. CASE c # d
        BY <2>3, <3>1, <2>A DEF Fail, TypeOK
      <3>2. CASE c = d
        <4>1. /\ Len(q'[c]) = Len(q[c])
              /\ \A i \in 1..Len(q[c]) : q'[c][i].cmd = q[c][i].cmd
          BY <2>3, AbandonedType DEF Fail, TypeOK
        <4>2. phase'[c] = phase[c] /\ phase[c] # "new"
          BY <2>0, <2>3, <3>2 DEF Fail, ReleaseOk
        <4> QED
          BY <2>0, <3>2, <4>1, <4>2 DEF ReleaseOk
      <3> QED BY <3>1, <3>2
    <2>4. ASSUME NEW c \in Claimer, Maintain(c) PROVE ReleaseOk(d)'
      <3>1. CASE c # d
        BY <2>4, <3>1, <2>A DEF Maintain, Call, TypeOK
      <3>2. CASE c = d
        <4>1. "set" \in Cmds /\ "beat" \in Cmds /\ phase'[c] = "running" /\ phase[c] = "running"
          BY <2>4 DEF Cmds, Maintain
        <4>2. Call(c, "set", "set") \/ Call(c, "beat", "beat")
          BY <2>4 DEF Maintain
        <4> QED
          BY <2>0, <3>2, <4>1, <4>2, CallRelease
      <3> QED BY <3>1, <3>2
    <2>5. ASSUME NEW c \in Claimer, Stop(c) PROVE ReleaseOk(d)'
      <3>1. CASE c # d
        BY <2>5, <3>1, <2>A DEF Stop, TypeOK
      <3>2. CASE c = d
        BY <2>5, <3>2 DEF Stop, TypeOK, ReleaseOk
      <3> QED BY <3>1, <3>2
    <2>6. ASSUME NEW c \in Claimer, StopFail(c) PROVE ReleaseOk(d)'
      <3>1. CASE c # d
        BY <2>6, <3>1, <2>A DEF StopFail, TypeOK
      <3>2. CASE c = d
        BY <2>6, <3>2 DEF StopFail, TypeOK, ReleaseOk
      <3> QED BY <3>1, <3>2
    <2>7. ASSUME NEW c \in Claimer, Crash(c) PROVE ReleaseOk(d)'
      <3>1. CASE c # d
        BY <2>7, <3>1, <2>A DEF Crash, TypeOK
      <3>2. CASE c = d
        BY <2>7, <3>2 DEF Crash, TypeOK, ReleaseOk
      <3> QED BY <3>1, <3>2
    <2>8. ASSUME NEW c \in Claimer, Exec(c) PROVE ReleaseOk(d)'
      <3>1. CASE c # d
        BY <2>8, <3>1, <2>A DEF Exec, TypeOK
      <3>2. CASE c = d
        <4>1. q[c] \in Seq(Cmd) /\ q[c] # <<>> /\ q'[c] = Tail(q[c])
          BY <2>8 DEF Exec, TypeOK
        <4>2. /\ Len(q'[c]) = Len(q[c]) - 1 /\ Len(q[c]) \in Nat
              /\ \A i \in 1..Len(q'[c]) : q'[c][i] = q[c][i + 1]
          BY <4>1
        <4>3. phase'[c] = phase[c] \/ phase'[c] = "stopped"
          BY <2>8 DEF Exec, TypeOK
        <4>4. phase[c] # "new"
          BY <2>0, <3>2, <4>1 DEF ReleaseOk
        <4>5. \A i \in 1..Len(q'[c]) : i + 1 \in 1..Len(q[c])
          BY <4>2
        <4> QED
          BY <2>0, <3>2, <4>2, <4>3, <4>4, <4>5 DEF ReleaseOk
      <3> QED BY <3>1, <3>2
    <2>9. ASSUME Expire PROVE ReleaseOk(d)'
      BY <2>9, <2>A DEF Expire
    <2>10. ASSUME Tick PROVE ReleaseOk(d)'
      BY <2>10, <2>A DEF Tick
    <2>11. ASSUME UNCHANGED vars PROVE ReleaseOk(d)'
      BY <2>11, <2>A DEF vars
    <2> QED
      BY <2>1, <2>2, <2>3, <2>4, <2>5, <2>6, <2>7, <2>8, <2>9, <2>10, <2>11 DEF Next
  <1> QED
    BY <1>1, <1>2, TypeCorrect, PTL DEF Spec

\* A running instance loses a live key to nobody: no stop(), retry or late
\* command of another instance removes or replaces it before its TTL ends.
THEOREM NoForeignReleaseHolds == Spec => NoForeignRelease
  <1> DEFINE Safe == \A c \in Claimer : (holder = c /\ holder' # c /\ phase[c] = "running") => ttl = 0
  <1>1. TypeOK /\ ReleaseInv /\ [Next]_vars => [Safe]_vars
    <2> SUFFICES ASSUME TypeOK, ReleaseInv, Next, NEW d \in Claimer,
                        holder = d, holder' # d, phase[d] = "running"
                 PROVE  ttl = 0
      OBVIOUS
    <2>1. (\E c \in Claimer : Exec(c)) \/ Expire
      BY DEF Next, Start, Continue, Fail, Maintain, Stop, StopFail, Crash, Tick
    <2>2. CASE Expire
      BY <2>2 DEF Expire
    <2>3. ASSUME NEW c \in Claimer, Exec(c) PROVE FALSE
      <3> DEFINE e == Head(q[c])
      <3>1. q[c] \in Seq(Cmd) /\ q[c] # <<>>
        BY <2>3 DEF Exec, TypeOK
      <3>2. e \in Cmd /\ e = q[c][1] /\ 1 \in 1..Len(q[c])
        BY <3>1
      <3>3. e.cmd \in Cmds
        BY <3>2 DEF Cmd
      <3>4. holder' = holder \/ holder' = RedisEffect(c, e.cmd)[1]
        BY <2>3 DEF Exec
      <3>5. c = d /\ e.cmd = "release"
        BY <3>3, <3>4, EffectOnHolder
      <3> QED
        BY <3>2, <3>5 DEF ReleaseInv, ReleaseOk
    <2> QED
      BY <2>1, <2>2, <2>3
  <1> QED
    BY <1>1, TypeCorrect, ReleaseOnlyWhenGone, PTL DEF Spec, NoForeignRelease

-----------------------------------------------------------------------------
(* A2AChannelLife: ChannelSafe, that is NoSplitConsumer, StoppedHoldsNothing and TopicsFollow, by *)
(* an invariant that says what start() has got hold of at each await, what a stopped channel     *)
(* cannot have any more, and which request to load the topics is still to come.                  *)

\* start() has not been overlapped by stop().
Orderly == "start" \notin raced

\* Where start() stands, and what it holds there.
StartInv ==
    /\ stopped <=> stopping # "no"
    /\ ~stopped => raced = {}
    /\ pc # "idle" => redis
    /\ pc \in {"claim", "claimGet", "subscribe", "topics"} => ~cfg.toolOnly
    /\ pc = "finish" => cfg.toolOnly
    /\ pc \in {"topics", "finish"} /\ Orderly => conn = "up"
    /\ started /\ ~stopped => pc = "idle" /\ redis /\ conn = "up"
    /\ stopped /\ Orderly => pc = "idle" /\ ~consuming /\ ~timers /\ ~retry

\* Who consumes has claimed, and the claim is the key.
LeaseInv ==
    /\ rival => key = "rival"
    /\ claimed => key = "us" \/ lapsed
    /\ consuming /\ Orderly => claimed /\ pc # "release"
    /\ Orderly /\ ~cfg.toolOnly /\ pc \in {"connect", "key", "ensure", "subscribe", "topics"} =>
          claimed
    /\ key = "us" => kept \/ (claimed /\ redis)

\* What hangs on the connection, and what stop() leaves of it.
HoldInv ==
    Orderly =>
        /\ control \/ subs # {} => conn = "up"
        /\ stopped /\ (load # NoLoad \/ subs # {}) => "reload" \in raced
        /\ stopped /\ Life!sharedConns(cfg) => ~control
        /\ stopping = "done" =>
              ~control /\ ~(claimed /\ redis) /\ (Life!sharedConns(cfg) \/ conn # "up")

\* Some request to load the topics is still to come, or what is loaded is what is stored.
FollowInv ==
    ~stopped =>
        /\ ~unclean => active = subs
        /\ ~missed /\ ~cfg.toolOnly /\ (started \/ pc = "topics") =>
              \/ chain > 0
              \/ tool = "applied"
              \/ nudge /\ control
              \/ load = stored
              \/ load = NoLoad /\ (stored = Bad \/ active = stored)

LifeInv == Life!TypeOK /\ StartInv /\ LeaseInv /\ HoldInv /\ FollowInv

\* The two halves of Life!TypeOK.
Flags ==
    {called, started, stopped, claimed, retry, timers, redis, secret, rival, consuming, control,
     nudge, missed, unclean, lapsed, kept} \subseteq BOOLEAN

Values ==
    /\ cfg \in Life!OptionSet
    /\ pc \in {"idle", "claim", "claimGet", "connect", "key", "ensure", "subscribe", "topics",
               "finish", "failed", "release"}
    /\ conn \in {"none", "up", "drained"} /\ key \in {"none", "us", "rival"}
    /\ stored \in Life!Sets /\ active \subseteq Topic /\ subs \subseteq Topic
    /\ chain \in Nat /\ load \in Life!Sets \cup {NoLoad} /\ tool \in {"idle", "applied", "reload"}
    /\ stopping \in {"no", "release", "done"} /\ raced \subseteq {"start", "reload"}
    /\ rivals \in 0..MaxRivals /\ writes \in 0..MaxWrites /\ chFaults \in 0..MaxChFaults

LEMMA FlagsStep == Life!LifeAssumption /\ Life!TypeOK /\ [Life!Next]_(Life!vars) => Flags'
<1> SUFFICES ASSUME Life!LifeAssumption, Life!TypeOK, [Life!Next]_(Life!vars) PROVE Flags'
  OBVIOUS
<1> USE DEF Life!TypeOK, Flags, Life!topicVars, Life!startVars, Life!stopVars, Life!keyVars,
            Life!topicOther
<1>1. CASE Life!Start
  <2>1. {retry, redis, called}' \subseteq BOOLEAN
    <3>1. retry' \in BOOLEAN
      BY <1>1 DEF Life!Start, Life!scheduleRetry
    <3>2. redis' \in BOOLEAN /\ called' \in BOOLEAN
      BY <1>1 DEF Life!Start
    <3> QED BY <3>1, <3>2
  <2> QED BY <1>1, <2>1 DEF Life!Start
<1>2. CASE Life!ClaimSet
  <2>1. {claimed, kept}' \subseteq BOOLEAN
    BY <1>2 DEF Life!ClaimSet, Life!Claimed
  <2> QED BY <1>2, <2>1 DEF Life!ClaimSet
<1>3. CASE Life!ClaimGet
  <2>1. {claimed, kept, redis, retry}' \subseteq BOOLEAN
    <3>1. CASE key = "us"
      BY <1>3, <3>1 DEF Life!ClaimGet, Life!Claimed
    <3>2. CASE key # "us"
      <4>1. retry' \in BOOLEAN
        BY <1>3, <3>2 DEF Life!ClaimGet, Life!scheduleRetry
      <4> QED BY <1>3, <3>2, <4>1 DEF Life!ClaimGet
    <3> QED BY <3>1, <3>2
  <2> QED BY <1>3, <2>1 DEF Life!ClaimGet
<1>4. CASE Life!ClaimReplyLost
  BY <1>4 DEF Life!ClaimReplyLost, Life!Fault
<1>5. CASE Life!Connect
  BY <1>5 DEF Life!Connect, Life!Waited
<1>6. CASE Life!loadOwnSignKey
  BY <1>6 DEF Life!loadOwnSignKey, Life!Waited
<1>7. CASE Life!ensureStream
  BY <1>7 DEF Life!ensureStream, Life!Waited
<1>8. CASE Life!subscribeInbox
  BY <1>8 DEF Life!subscribeInbox, Life!reload
<1>9. CASE Life!Finish
  BY ZenonT(60), <1>9 DEF Life!Finish
<1>10. CASE Life!Throws
  BY <1>10 DEF Life!Throws, Life!Fault
<1>11. CASE Life!CleanUp
  <2>1. unclean' \in BOOLEAN
    BY <1>11 DEF Life!CleanUp
  <2>2. {called, started, stopped, claimed, retry, timers, redis, secret, rival, consuming, control,
         nudge, missed, lapsed, kept}' \subseteq BOOLEAN
    BY <1>11 DEF Life!CleanUp
  <2> QED BY <2>1, <2>2
<1>12. CASE Life!Settle
  BY ZenonT(60), <1>12 DEF Life!Settle, Life!releasePresence, Life!Fault, Life!scheduleRetry
<1>13. CASE Life!Read
  BY ZenonT(60), <1>13 DEF Life!Read, Life!Fault
<1>14. CASE Life!Apply
  BY <1>14 DEF Life!Apply
<1>15. CASE Life!MutateAnswer
  BY ZenonT(60), <1>15 DEF Life!MutateAnswer, Life!reload, Life!Fault
<1>16. CASE Life!MutateReturn
  BY <1>16 DEF Life!MutateReturn
<1>17. CASE Life!Nudged
  BY ZenonT(60), <1>17 DEF Life!Nudged, Life!reload
<1>18. CASE Life!KeyExpires
  BY ZenonT(60), <1>18 DEF Life!KeyExpires, Life!Fault
<1>19. CASE Life!RivalStarts
  BY <1>19 DEF Life!RivalStarts
<1>20. CASE Life!RivalEnds
  BY ZenonT(60), <1>20 DEF Life!RivalEnds
<1>21. CASE Life!Provision
  BY <1>21 DEF Life!Provision
<1>22. CASE Life!Rewrite
  BY ZenonT(60), <1>22 DEF Life!Rewrite
<1>23. CASE \E t \in Topic : Life!Mutate(t)
  BY <1>23 DEF Life!Mutate
<1>24. CASE Life!Stop
  BY ZenonT(60), <1>24 DEF Life!Stop
<1>25. CASE Life!StopEnds
  <2>1. kept' \in BOOLEAN
    BY <1>25 DEF Life!StopEnds, Life!releasePresence
  <2>2. {called, started, stopped, claimed, retry, timers, redis, secret, rival, consuming, control,
         nudge, missed, unclean, lapsed}' \subseteq BOOLEAN
    BY ZenonT(60), <1>25 DEF Life!StopEnds
  <2> QED BY <2>1, <2>2
<1>26. CASE UNCHANGED Life!vars
  BY <1>26 DEF Life!vars
<1> QED BY <1>1, <1>2, <1>3, <1>4, <1>5, <1>6, <1>7, <1>8, <1>9, <1>10, <1>11, <1>12, <1>13, <1>14,
           <1>15, <1>16, <1>17, <1>18, <1>19, <1>20, <1>21, <1>22, <1>23, <1>24, <1>25, <1>26 DEF
           Life!Next, Life!StartStep, Life!TopicStep, Life!Surroundings

LEMMA ValuesStep == Life!LifeAssumption /\ Life!TypeOK /\ [Life!Next]_(Life!vars) => Values'
<1> SUFFICES ASSUME Life!LifeAssumption, Life!TypeOK, [Life!Next]_(Life!vars) PROVE Values'
  OBVIOUS
<1> USE DEF Life!TypeOK, Values, Life!LifeAssumption, Life!Sets, Life!topicVars, Life!startVars,
            Life!stopVars, Life!keyVars, Life!topicOther
<1>1. CASE Life!Start
  BY <1>1 DEF Life!Start, Life!scheduleRetry
<1>2. CASE Life!ClaimSet
  BY <1>2 DEF Life!ClaimSet, Life!Claimed
<1>3. CASE Life!ClaimGet
  BY <1>3 DEF Life!ClaimGet, Life!Claimed, Life!scheduleRetry
<1>4. CASE Life!ClaimReplyLost
  BY <1>4 DEF Life!ClaimReplyLost, Life!Fault
<1>5. CASE Life!Connect
  BY <1>5 DEF Life!Connect, Life!Waited
<1>6. CASE Life!loadOwnSignKey
  BY <1>6 DEF Life!loadOwnSignKey, Life!Waited
<1>7. CASE Life!ensureStream
  BY <1>7 DEF Life!ensureStream, Life!Waited
<1>8. CASE Life!subscribeInbox
  BY <1>8 DEF Life!subscribeInbox, Life!reload
<1>9. CASE Life!Finish
  BY <1>9 DEF Life!Finish
<1>10. CASE Life!Throws
  BY <1>10 DEF Life!Throws, Life!Fault
<1>11. CASE Life!CleanUp
  BY <1>11 DEF Life!CleanUp
<1>12. CASE Life!Settle
  BY <1>12 DEF Life!Settle, Life!releasePresence, Life!Fault, Life!scheduleRetry
<1>13. CASE Life!Read
  BY <1>13 DEF Life!Read, Life!Fault
<1>14. CASE Life!Apply
  <2>1. active' \subseteq Topic /\ subs' \subseteq Topic
    <3>1. CASE load = Bad \/ conn # "up"
      BY <1>14, <3>1 DEF Life!Apply
    <3>2. CASE ~(load = Bad \/ conn # "up")
      <4>1. load \subseteq Topic
        BY <1>14, <3>2 DEF Life!Apply
      <4> QED BY <1>14, <3>2, <4>1 DEF Life!Apply
    <3> QED BY <3>1, <3>2
  <2> QED BY <1>14, <2>1 DEF Life!Apply
<1>15. CASE Life!MutateAnswer
  BY <1>15 DEF Life!MutateAnswer, Life!reload, Life!Fault
<1>16. CASE Life!MutateReturn
  BY <1>16 DEF Life!MutateReturn
<1>17. CASE Life!Nudged
  BY <1>17 DEF Life!Nudged, Life!reload
<1>18. CASE Life!KeyExpires
  BY <1>18 DEF Life!KeyExpires, Life!Fault
<1>19. CASE Life!RivalStarts
  BY <1>19 DEF Life!RivalStarts
<1>20. CASE Life!RivalEnds
  BY <1>20 DEF Life!RivalEnds
<1>21. CASE Life!Provision
  BY <1>21 DEF Life!Provision
<1>22. CASE Life!Rewrite
  BY <1>22 DEF Life!Rewrite
<1>23. CASE \E t \in Topic : Life!Mutate(t)
  BY <1>23 DEF Life!Mutate
<1>24. CASE Life!Stop
  BY <1>24 DEF Life!Stop
<1>25. CASE Life!StopEnds
  BY <1>25 DEF Life!StopEnds, Life!releasePresence, Life!Fault
<1>26. CASE UNCHANGED Life!vars
  BY <1>26 DEF Life!vars
<1> QED BY <1>1, <1>2, <1>3, <1>4, <1>5, <1>6, <1>7, <1>8, <1>9, <1>10, <1>11, <1>12, <1>13, <1>14,
           <1>15, <1>16, <1>17, <1>18, <1>19, <1>20, <1>21, <1>22, <1>23, <1>24, <1>25, <1>26 DEF
           Life!Next, Life!StartStep, Life!TopicStep, Life!Surroundings

LEMMA StartStepKeeps ==
  Life!LifeAssumption /\ LifeInv /\ Life!StartStep =>
    StartInv' /\ LeaseInv' /\ HoldInv' /\ FollowInv'
<1> SUFFICES ASSUME Life!LifeAssumption, LifeInv, Life!StartStep
             PROVE  StartInv' /\ LeaseInv' /\ HoldInv' /\ FollowInv'
  OBVIOUS
<1> USE DEF LifeInv, Life!TypeOK, Life!Sets, Life!LifeAssumption, StartInv, LeaseInv, HoldInv,
            FollowInv, Orderly, Life!sharedConns, Life!topicVars, Life!startVars, Life!stopVars,
            Life!keyVars, Life!topicOther
<1>1. CASE Life!Start
  BY <1>1 DEF Life!Start, Life!scheduleRetry
<1>2. CASE Life!ClaimSet
  BY <1>2 DEF Life!ClaimSet, Life!Claimed
<1>3. CASE Life!ClaimGet
  BY <1>3 DEF Life!ClaimGet, Life!Claimed, Life!scheduleRetry
<1>4. CASE Life!ClaimReplyLost
  BY <1>4 DEF Life!ClaimReplyLost, Life!Fault
<1>5. CASE Life!Connect
  BY <1>5 DEF Life!Connect, Life!Waited
<1>6. CASE Life!loadOwnSignKey
  BY <1>6 DEF Life!loadOwnSignKey, Life!Waited
<1>7. CASE Life!ensureStream
  BY <1>7 DEF Life!ensureStream, Life!Waited
<1>8. CASE Life!subscribeInbox
  BY <1>8 DEF Life!subscribeInbox, Life!reload
<1>9. CASE Life!Finish
  BY <1>9 DEF Life!Finish
<1>10. CASE Life!Throws
  BY <1>10 DEF Life!Throws, Life!Fault
<1>11. CASE Life!CleanUp
  BY <1>11 DEF Life!CleanUp
<1>12. CASE Life!Settle
  BY <1>12 DEF Life!Settle, Life!releasePresence, Life!Fault, Life!scheduleRetry
<1> QED BY <1>1, <1>2, <1>3, <1>4, <1>5, <1>6, <1>7, <1>8, <1>9, <1>10, <1>11, <1>12 DEF
           Life!StartStep

LEMMA TopicStepKeeps ==
  Life!LifeAssumption /\ LifeInv /\ Life!TopicStep =>
    StartInv' /\ LeaseInv' /\ HoldInv' /\ FollowInv'
<1> SUFFICES ASSUME Life!LifeAssumption, LifeInv, Life!TopicStep
             PROVE  StartInv' /\ LeaseInv' /\ HoldInv' /\ FollowInv'
  OBVIOUS
<1> USE DEF LifeInv, Life!TypeOK, Life!Sets, Life!LifeAssumption, StartInv, LeaseInv, HoldInv,
            FollowInv, Orderly, Life!sharedConns, Life!topicVars, Life!startVars, Life!stopVars,
            Life!keyVars, Life!topicOther
<1>1. CASE Life!Read
  BY <1>1 DEF Life!Read, Life!Fault
<1>2. CASE Life!Apply
  BY <1>2 DEF Life!Apply
<1>3. CASE Life!MutateAnswer
  BY <1>3 DEF Life!MutateAnswer, Life!reload, Life!Fault
<1>4. CASE Life!MutateReturn
  BY <1>4 DEF Life!MutateReturn
<1>5. CASE Life!Nudged
  BY <1>5 DEF Life!Nudged, Life!reload
<1> QED BY <1>1, <1>2, <1>3, <1>4, <1>5 DEF Life!TopicStep

LEMMA SurroundingsKeeps ==
  Life!LifeAssumption /\ LifeInv /\ Life!Surroundings =>
    StartInv' /\ LeaseInv' /\ HoldInv' /\ FollowInv'
<1> SUFFICES ASSUME Life!LifeAssumption, LifeInv, Life!Surroundings
             PROVE  StartInv' /\ LeaseInv' /\ HoldInv' /\ FollowInv'
  OBVIOUS
<1> USE DEF LifeInv, Life!TypeOK, Life!Sets, Life!LifeAssumption, StartInv, LeaseInv, HoldInv,
            FollowInv, Orderly, Life!sharedConns, Life!topicVars, Life!startVars, Life!stopVars,
            Life!keyVars, Life!topicOther
<1>1. CASE Life!KeyExpires
  BY <1>1 DEF Life!KeyExpires, Life!Fault
<1>2. CASE Life!RivalStarts
  BY <1>2 DEF Life!RivalStarts
<1>3. CASE Life!RivalEnds
  BY <1>3 DEF Life!RivalEnds
<1>4. CASE Life!Provision
  BY <1>4 DEF Life!Provision
<1>5. CASE Life!Rewrite
  BY <1>5 DEF Life!Rewrite
<1>6. CASE \E t \in Topic : Life!Mutate(t)
  BY <1>6 DEF Life!Mutate
<1> QED BY <1>1, <1>2, <1>3, <1>4, <1>5, <1>6 DEF Life!Surroundings

LEMMA StoppingKeeps ==
  Life!LifeAssumption /\ LifeInv /\ (Life!Stop \/ Life!StopEnds) =>
    StartInv' /\ LeaseInv' /\ HoldInv' /\ FollowInv'
<1> SUFFICES ASSUME Life!LifeAssumption, LifeInv, Life!Stop \/ Life!StopEnds
             PROVE  StartInv' /\ LeaseInv' /\ HoldInv' /\ FollowInv'
  OBVIOUS
<1> USE DEF LifeInv, Life!TypeOK, Life!Sets, Life!LifeAssumption, StartInv, LeaseInv, HoldInv,
            FollowInv, Orderly, Life!sharedConns, Life!topicVars, Life!startVars, Life!stopVars,
            Life!keyVars, Life!topicOther
<1>1. CASE Life!Stop
  BY <1>1 DEF Life!Stop
<1>2. CASE Life!StopEnds
  BY <1>2 DEF Life!StopEnds, Life!releasePresence, Life!Fault
<1> QED BY <1>1, <1>2

LEMMA LifeInit == Life!LifeAssumption /\ Life!Init => LifeInv
<1> SUFFICES ASSUME Life!LifeAssumption, Life!Init PROVE LifeInv
  OBVIOUS
<1> USE DEF Life!LifeAssumption, Life!Init
<1>1. Flags /\ Values
  <2>1. Flags
    BY DEF Flags
  <2>2. Values
    BY DEF Values, Life!Sets
  <2> QED BY <2>1, <2>2
<1>2. Life!TypeOK
  BY <1>1 DEF Flags, Values, Life!TypeOK
<1>3. StartInv /\ LeaseInv /\ HoldInv /\ FollowInv
  BY DEF StartInv, LeaseInv, HoldInv, FollowInv, Orderly
<1> QED BY <1>2, <1>3 DEF LifeInv

LEMMA LifeStep == Life!LifeAssumption /\ LifeInv /\ [Life!Next]_(Life!vars) => LifeInv'
<1> SUFFICES ASSUME Life!LifeAssumption, LifeInv, [Life!Next]_(Life!vars) PROVE LifeInv'
  OBVIOUS
<1>1. Life!TypeOK'
  <2>1. Flags' /\ Values'
    BY FlagsStep, ValuesStep DEF LifeInv
  <2> QED BY <2>1 DEF Flags, Values, Life!TypeOK
<1>2. StartInv' /\ LeaseInv' /\ HoldInv' /\ FollowInv'
  <2>1. CASE UNCHANGED Life!vars
    BY <2>1 DEF LifeInv, StartInv, LeaseInv, HoldInv, FollowInv, Orderly, Life!sharedConns,
       Life!vars,
                Life!topicVars, Life!startVars, Life!stopVars, Life!keyVars
  <2> QED BY <2>1, StartStepKeeps, TopicStepKeeps, StoppingKeeps, SurroundingsKeeps DEF Life!Next
<1> QED BY <1>1, <1>2 DEF LifeInv

THEOREM LifeInvariance == ASSUME Life!LifeAssumption PROVE Life!Spec => []LifeInv
<1>1. Life!Init => LifeInv
  BY LifeInit
<1>2. LifeInv /\ [Life!Next]_(Life!vars) => LifeInv'
  BY LifeStep
<1> QED BY <1>1, <1>2, PTL DEF Life!Spec

\* All that the variables of the channel hold has its type.
THEOREM LifeTypeCorrect == ASSUME Life!LifeAssumption PROVE Life!Spec => []Life!TypeOK
<1>1. LifeInv => Life!TypeOK
  BY DEF LifeInv
<1> QED BY <1>1, LifeInvariance, PTL

\* Two instances of one agent-id never split the durable consumer: start() claims presence before
\* it subscribes.
THEOREM NoSplitHolds == ASSUME Life!LifeAssumption PROVE Life!Spec => []Life!NoSplitConsumer
<1>1. LifeInv => Life!NoSplitConsumer
  BY DEF LifeInv, LeaseInv, Orderly, Life!NoSplitConsumer
<1> QED BY <1>1, LifeInvariance, PTL

\* A channel that has been stopped holds no consumer, subscription, interval or retry, and the
\* presence key only if its release failed.
THEOREM StoppedHolds == ASSUME Life!LifeAssumption PROVE Life!Spec => []Life!StoppedHoldsNothing
<1>1. LifeInv => Life!StoppedHoldsNothing
  <2> SUFFICES ASSUME LifeInv, stopping = "done", Orderly
               PROVE  /\ ~consuming /\ ~control /\ ~timers /\ ~retry
                      /\ subs # {} => "reload" \in raced /\ Life!sharedConns(cfg)
                      /\ key = "us" => kept
    BY DEF Life!StoppedHoldsNothing, Orderly
  <2> QED BY DEF LifeInv, StartInv, LeaseInv, HoldInv, Orderly
<1> QED BY <1>1, LifeInvariance, PTL

\* When nothing is under way, the live topic subscriptions are the stored ones.
THEOREM TopicsFollowHolds == ASSUME Life!LifeAssumption PROVE Life!Spec => []Life!TopicsFollow
<1>1. Life!LifeAssumption /\ LifeInv => Life!TopicsFollow
  BY DEF Life!LifeAssumption, LifeInv, Life!TypeOK, Life!Sets, FollowInv, Life!TopicsFollow
<1> QED BY <1>1, LifeInvariance, PTL

\* The channel never splits the durable consumer with a rival of its identity, holds nothing once
\* stopped, and follows the stored topics when nothing is under way: what start(), stop(), the
\* claim, the heartbeat and the loads of the topics keep together.
THEOREM ChannelSafeHolds == Life!Spec => []ChannelSafe
BY LifeAssume, NoSplitHolds, StoppedHolds, TopicsFollowHolds, PTL DEF ChannelSafe

------------------------------------------------------------------------------
(* NatsChannel: which subscriptions are active, what the reload that runs has read and still     *)
(* has to do, and why each cursor was last destroyed.                                            *)

LoadSet == [specs : SUBSET Nats!Specs, errors : {"none", "some", "absent", "bad_json"}]
SubRec == [spec : Nats!Specs, run : BOOLEAN, count : Nat, busy : Nat]

\* The subscriptions made, and which of them are active, by the id of their spec.
SubsInv ==
    /\ life \in {"up", "stopping", "down"}
    /\ nActive \in [Nats!Ids -> Nat] /\ nSubs \in Seq(SubRec)
    /\ \A i \in Nats!Ids : nActive[i] # 0 => nActive[i] \in DOMAIN nSubs
             /\ nSubs[nActive[i]].spec.id = i
    /\ Nats!OneLoop

\* A message that was delivered before is never gated.
MsgInv ==
    /\ msg \in [1..MaxMsg -> [tries : Nat, state : {"none", "held", "gated", "shown", "refused"}]]

\* What the running reload has read, what it still has to drop or to add, and why the durable it
\* is deleting goes.
ReloadInv ==
    /\ nStored \in LoadSet /\ everLoaded \in BOOLEAN
    /\ rl \in [pc : {"idle", "load", "drop", "add"}, got : LoadSet, todo : SUBSET Nats!Ids,
               del : Nats!Specs \cup {None}]
    /\ rl.pc \in {"drop", "add"} => rl.got.specs \subseteq history.everSet
    /\ rl.pc = "drop" => rl.todo \cap Nats!IdsOf(rl.got.specs) = {}
    /\ rl.pc = "add" => rl.todo \subseteq Nats!IdsOf(rl.got.specs)
    /\ rl.del # None => /\ rl.got.errors = "none" /\ rl.del.durable # None
                        /\ rl.del.id \notin Nats!IdsOf(rl.got.specs)

HistoryInv ==
    /\ server = [d \in Nats!Durables |-> server[d]]
    /\ history = [cause |-> history.cause, everSet |-> history.everSet]
    /\ history.cause = [d \in Nats!Durables |-> history.cause[d]]
    /\ Nats!CursorSafe

\* Whatever is subscribed was stored at some time.
BindInv == \A i \in Nats!Ids : nActive[i] # 0 => nSubs[nActive[i]].spec \in history.everSet

NatsInv == SubsInv /\ MsgInv /\ ReloadInv /\ HistoryInv /\ BindInv

\* What loadSpecs makes of the value of the key.
LEMMA LoadSetIs ==
    /\ Nats!Versions \subseteq LoadSet /\ Nats!Absent \in LoadSet /\ Nats!Garbage \in LoadSet
    /\ [specs |-> Defaults, errors |-> "none"] \in LoadSet
  <1>1. \A v \in Nats!Versions : v.errors \in {"none", "some"}
                            /\ v = [specs |-> v.specs, errors |-> v.errors]
    <2> SUFFICES ASSUME NEW raw \in Arrays, NEW v, v = Nats!validateSpecs(raw)
                 PROVE  v.errors \in {"none", "some"}
                        /\ v = [specs |-> v.specs, errors |-> v.errors]
      BY DEF Nats!Versions
    <2>1. \E S : \E e \in {"none", "some"} : Nats!validateSpecs(raw) = [specs |-> S, errors |-> e]
      <3>1. \E K : Nats!validateSpecs(raw) = [specs |-> {raw[n] : n \in K},
                                        errors |-> IF K # DOMAIN raw THEN "some" ELSE "none"]
        BY Zenon DEF Nats!validateSpecs
      <3>2. PICK K : Nats!validateSpecs(raw) = [specs |-> {raw[n] : n \in K},
                                           errors |-> IF K # DOMAIN raw THEN "some" ELSE "none"]
        BY Zenon, <3>1
      <3> DEFINE S == {raw[n] : n \in K}
                 e == IF K # DOMAIN raw THEN "some" ELSE "none"
      <3>3. Nats!validateSpecs(raw) = [specs |-> S, errors |-> e] /\ e \in {"none", "some"}
        BY Zenon, <3>2
      <3> HIDE DEF S, e
      <3> QED
        BY <3>3
    <2> QED
      BY <2>1
  <1>2. \A v \in Nats!Versions : v.specs \subseteq Nats!Specs
    BY DEF Nats!Specs
  <1>3. Nats!Versions \subseteq LoadSet
    <2> SUFFICES ASSUME NEW v \in Nats!Versions PROVE v \in LoadSet
      OBVIOUS
    <2> QED
      BY <1>1, <1>2 DEF LoadSet
  <1> QED
    BY <1>3 DEF LoadSet, Nats!Absent, Nats!Garbage, Nats!Specs

LEMMA SpecFacts ==
    \A s \in Nats!Specs : s.id \in Nats!Ids /\ (s.durable # None => s.durable \in Nats!Durables)
  BY DEF Nats!Ids, Nats!Durables

LEMMA SpecOfIs ==
    ASSUME ReloadInv, NEW i \in rl.todo, rl.pc = "add"
    PROVE  Nats!SpecOf(i) \in rl.got.specs /\ Nats!SpecOf(i).id = i /\ Nats!SpecOf(i) \in Nats!Specs
  <1>1. \E s \in rl.got.specs : s.id = i
    BY DEF ReloadInv, Nats!IdsOf
  <1>2. rl.got.specs \subseteq Nats!Specs
    BY DEF ReloadInv, LoadSet
  <1> QED
    BY <1>1, <1>2 DEF Nats!SpecOf

\* Changing a record of a sequence.
LEMMA ChangeOne ==
    ASSUME SubsInv, NEW n \in DOMAIN nSubs, NEW r \in SubRec
    PROVE  /\ [nSubs EXCEPT ![n] = r] \in Seq(SubRec)
           /\ DOMAIN [nSubs EXCEPT ![n] = r] = DOMAIN nSubs
           /\ \A k \in DOMAIN nSubs : [nSubs EXCEPT ![n] = r][k] = IF k = n THEN r ELSE nSubs[k]
  BY DEF SubsInv

\* The subscriptions once the loop of one is stopped.
StoppedAt(t, n) ==
    /\ t \in Seq(SubRec) /\ DOMAIN t = DOMAIN nSubs
    /\ \A k \in DOMAIN nSubs : t[k].spec = nSubs[k].spec /\ (t[k].run <=> nSubs[k].run /\ k # n)

LEMMA StopLoopIs ==
    ASSUME SubsInv, NEW n \in DOMAIN nSubs
    PROVE  StoppedAt(Nats!stopLoop(n), n)
  <1> DEFINE r == [nSubs[n] EXCEPT !.run = FALSE]
  <1>1. nSubs[n] \in SubRec
    BY DEF SubsInv
  <1>2. r \in SubRec /\ r.spec = nSubs[n].spec /\ r.run = FALSE
    BY <1>1 DEF SubRec
  <1>3. Nats!stopLoop(n) = [nSubs EXCEPT ![n] = r]
    BY DEF Nats!stopLoop
  <1>5. \A k \in DOMAIN nSubs : nSubs[k] \in SubRec
    BY DEF SubsInv
  <1>4. \A k \in DOMAIN nSubs : nSubs[k].run \in BOOLEAN
    BY <1>5 DEF SubRec
  <1> HIDE DEF r
  <1> QED
    BY <1>2, <1>3, <1>4, ChangeOne DEF StoppedAt

\* A step that makes no subscription: the ones there keep their spec, and none starts to run.
SubsKept ==
    /\ nSubs' \in Seq(SubRec) /\ DOMAIN nSubs' = DOMAIN nSubs
    /\ \A k \in DOMAIN nSubs : nSubs'[k].spec = nSubs[k].spec /\ (nSubs'[k].run => nSubs[k].run)
    /\ nActive' \in [Nats!Ids -> Nat] /\ \A i \in Nats!Ids : nActive'[i] \in {0, nActive[i]}

\* The new loops of a step are of specs that the reload has read.
SubsFounded ==
    \A i \in Nats!Ids : nActive'[i] # 0 =>
        \/ nActive[i] # 0 /\ nSubs'[nActive'[i]].spec = nSubs[nActive[i]].spec
        \/ rl.pc = "add" /\ nSubs'[nActive'[i]].spec \in rl.got.specs

LEMMA KeptFounded == SubsInv /\ SubsKept => SubsFounded
  BY DEF SubsInv, SubsKept, SubsFounded

LEMMA KeptSubs ==
    ASSUME SubsInv, SubsKept, life' \in {"up", "stopping", "down"},
           \A k \in DOMAIN nSubs : nSubs'[k].run =>
               \/ life' = "stopping"
               \/ life # "stopping" /\ \A i \in Nats!Ids : nActive[i] = k => nActive'[i] = k
    PROVE  SubsInv'
  <1>1. Nats!OneLoop'
    BY DEF SubsInv, SubsKept, Nats!OneLoop
  <1> QED
    BY <1>1 DEF SubsInv, SubsKept

\* Actions that touch no subscription.
Aside ==
    \/ \E v \in Nats!Versions \cup {Nats!Absent, Nats!Garbage} : Nats!Edit(v)
    \/ Nats!Reload \/ Nats!Publish
    \/ Nats!StartReload \/ Nats!Dropped \/ Nats!ReloadDone
    \/ \E ok \in BOOLEAN : Nats!Loaded(ok) \/ Nats!DeleteDurable(ok)
    \/ \E i \in Nats!Ids : Nats!Keep(i)

LEMMA AsideSubs == SubsInv /\ (Aside \/ UNCHANGED Nats!vars) => SubsInv' /\ SubsFounded
  <1> SUFFICES ASSUME SubsInv, Aside \/ UNCHANGED Nats!vars PROVE SubsInv' /\ SubsFounded
    OBVIOUS
  <1>1. UNCHANGED <<nActive, nSubs, life>>
    BY DEF Aside, Nats!Edit, Nats!Reload, Nats!Publish, Nats!StartReload, Nats!Dropped,
           Nats!ReloadDone, Nats!Loaded, Nats!DeleteDurable, Nats!Keep, Nats!vars, Nats!feed
  <1> QED
    BY <1>1 DEF SubsInv, Nats!OneLoop, SubsFounded

LEMMA DropSubs ==
    ASSUME NatsInv, NEW i \in Nats!Ids, Nats!Drop(i)
    PROVE  SubsInv' /\ SubsFounded
  <1> USE DEF NatsInv
  <1>1. nActive' = [nActive EXCEPT ![i] = 0] /\ life' = life
        /\ nSubs' = IF nActive[i] = 0 THEN nSubs ELSE Nats!stopLoop(nActive[i])
    BY DEF Nats!Drop
  <1>2. CASE nActive[i] = 0
    <2>1. UNCHANGED <<nActive, nSubs, life>>
      BY <1>1, <1>2 DEF SubsInv
    <2> QED
      BY <2>1 DEF SubsInv, Nats!OneLoop, SubsFounded
  <1>3. CASE nActive[i] # 0
    <2>1. nActive[i] \in DOMAIN nSubs
      BY <1>3 DEF SubsInv
    <2>4. StoppedAt(nSubs', nActive[i])
      BY <1>1, <1>3, <2>1, StopLoopIs
    <2>2. SubsKept
      BY <1>1, <2>4 DEF SubsInv, SubsKept, StoppedAt
    <2>3. \A k \in DOMAIN nSubs : nSubs'[k].run => \A j \in Nats!Ids : nActive[j] = k
             => nActive'[j] = k
      BY <1>1, <2>4 DEF SubsInv, StoppedAt
    <2> QED
      BY <1>1, <2>2, <2>3, KeptSubs, KeptFounded DEF SubsInv
  <1> QED
    BY <1>2, <1>3

LEMMA DiesSubs ==
    ASSUME NatsInv, NEW n, Nats!LoopDies(n)
    PROVE  SubsInv' /\ SubsFounded
  <1> USE DEF NatsInv
  <1>1. n \in DOMAIN nSubs /\ nSubs' = Nats!stopLoop(n) /\ life' = life
        /\ nActive' = [i \in Nats!Ids |-> IF nActive[i] = n THEN 0 ELSE nActive[i]]
    BY DEF Nats!LoopDies
  <1>4. StoppedAt(nSubs', n)
    BY <1>1, StopLoopIs
  <1>2. SubsKept
    BY <1>1, <1>4 DEF SubsInv, SubsKept, StoppedAt
  <1>3. \A k \in DOMAIN nSubs : nSubs'[k].run => \A j \in Nats!Ids : nActive[j] = k
           => nActive'[j] = k
    BY <1>1, <1>4 DEF SubsInv, StoppedAt
  <1> QED
    BY <1>1, <1>2, <1>3, KeptSubs, KeptFounded DEF SubsInv

LEMMA LoopSubs ==
    ASSUME NatsInv, NEW n, Nats!LoopStep(n)
    PROVE  SubsInv' /\ SubsFounded
  <1> USE DEF NatsInv
  <1>1. n \in DOMAIN nSubs /\ UNCHANGED <<nActive, life>>
    BY DEF Nats!LoopStep, Nats!Deliver, Nats!Injected
  <1>2. nSubs[n] \in SubRec
    BY <1>1 DEF SubsInv
  <1>3. PICK r \in SubRec : nSubs' = [nSubs EXCEPT ![n] = r] /\ r.spec = nSubs[n].spec
           /\ r.run = nSubs[n].run
    <2>1. CASE \E m \in 1..MaxMsg : Nats!Deliver(n, m)
      <3> PICK m \in 1..MaxMsg : Nats!Deliver(n, m)
        BY <2>1
      <3> DEFINE s == IF Nats!forced(m) THEN nSubs[n] ELSE Nats!counted(nSubs[n])
                 b == IF Nats!forced(m) \/ Nats!gate(nSubs[n]) THEN m ELSE 0
      <3>1. nSubs' = [nSubs EXCEPT ![n] = [s EXCEPT !.busy = b]]
        BY DEF Nats!Deliver
      <3>2. s \in SubRec /\ s.spec = nSubs[n].spec /\ s.run = nSubs[n].run
        BY <1>2 DEF SubRec, Nats!counted
      <3>3. b \in Nat
        OBVIOUS
      <3> HIDE DEF s, b
      <3>4. [s EXCEPT !.busy = b] \in SubRec /\ [s EXCEPT !.busy = b].spec = s.spec
            /\ [s EXCEPT !.busy = b].run = s.run
        BY <3>2, <3>3 DEF SubRec
      <3> QED
        BY <3>1, <3>2, <3>4
    <2>2. CASE \E ok \in BOOLEAN : Nats!Injected(n, ok)
      <3> DEFINE r == [nSubs[n] EXCEPT !.busy = 0]
      <3>1. nSubs' = [nSubs EXCEPT ![n] = r]
        BY <2>2 DEF Nats!Injected
      <3>2. r \in SubRec /\ r.spec = nSubs[n].spec /\ r.run = nSubs[n].run
        BY <1>2 DEF SubRec
      <3> QED
        BY <3>1, <3>2
    <2> QED
      BY <2>1, <2>2 DEF Nats!LoopStep
  <1>4. SubsKept
    BY <1>1, <1>3, ChangeOne DEF SubsInv, SubsKept
  <1> QED
    BY <1>1, <1>4, KeptSubs, KeptFounded DEF SubsInv

LEMMA StopSubs ==
    ASSUME NatsInv, Nats!Stop \/ Nats!Drained
    PROVE  SubsInv' /\ SubsFounded
  <1> USE DEF NatsInv
  <1>1. \A k \in DOMAIN nSubs : nSubs[k] \in SubRec
    BY DEF SubsInv
  <1>2. PICK f \in [DOMAIN nSubs -> BOOLEAN] :
            /\ nSubs' = [k \in DOMAIN nSubs |-> [nSubs[k] EXCEPT !.run = f[k]]]
            /\ \A k \in DOMAIN nSubs : f[k] => nSubs[k].run /\ Nats!Stop
    <2>1. CASE Nats!Stop
      <3> DEFINE f == [k \in DOMAIN nSubs |-> nSubs[k].run
               /\ k \notin {nActive[i] : i \in Nats!Ids}]
      <3>1. f \in [DOMAIN nSubs -> BOOLEAN]
        OBVIOUS
      <3>2. nSubs' = [k \in DOMAIN nSubs |-> [nSubs[k] EXCEPT !.run = f[k]]]
        BY <2>1 DEF Nats!Stop
      <3> QED
        BY <2>1, <3>1, <3>2
    <2>2. CASE Nats!Drained
      <3> DEFINE f == [k \in DOMAIN nSubs |-> FALSE]
      <3>1. nSubs' = [k \in DOMAIN nSubs |-> [nSubs[k] EXCEPT !.run = f[k]]]
        BY <2>2 DEF Nats!Drained
      <3>2. f \in [DOMAIN nSubs -> BOOLEAN] /\ \A k \in DOMAIN nSubs : ~f[k]
        OBVIOUS
      <3> QED
        BY <3>1, <3>2
    <2> QED
      BY <2>1, <2>2
  <1>3. \A k \in DOMAIN nSubs :
            /\ [nSubs[k] EXCEPT !.run = f[k]] \in SubRec
            /\ [nSubs[k] EXCEPT !.run = f[k]].spec = nSubs[k].spec
            /\ [nSubs[k] EXCEPT !.run = f[k]].run = f[k]
    BY <1>1, <1>2 DEF SubRec
  <1>4. nSubs' \in Seq(SubRec) /\ DOMAIN nSubs' = DOMAIN nSubs
        /\ \A k \in DOMAIN nSubs : nSubs'[k].spec = nSubs[k].spec /\ nSubs'[k].run = f[k]
    <2>1. DOMAIN nSubs = 1..Len(nSubs) /\ Len(nSubs) \in Nat
      BY DEF SubsInv
    <2>2. nSubs' \in [1..Len(nSubs) -> SubRec]
      BY <1>2, <1>3, <2>1
    <2>3. nSubs' \in Seq(SubRec) /\ DOMAIN nSubs' = DOMAIN nSubs
      BY <2>1, <2>2
    <2> QED
      BY <1>2, <1>3, <2>3
  <1>5. (Nats!Stop => life' = "stopping") /\ (Nats!Drained => life' = "down")
        /\ \/ nActive' = nActive
           \/ nActive' = [i \in Nats!Ids |-> 0]
    BY DEF Nats!Stop, Nats!Drained
  <1>6. SubsKept
    BY <1>2, <1>4, <1>5 DEF SubsInv, SubsKept
  <1> QED
    BY <1>2, <1>4, <1>5, <1>6, KeptSubs, KeptFounded DEF SubsInv

LEMMA AddSubs ==
    ASSUME NatsInv, NEW i \in Nats!Ids, NEW ok \in BOOLEAN, Nats!Add(i, ok)
    PROVE  SubsInv' /\ SubsFounded
  <1> USE DEF NatsInv
  <1> DEFINE s == Nats!SpecOf(i)
             old == IF Nats!Live(i) THEN Nats!stopLoop(nActive[i]) ELSE nSubs
             new == [spec |-> s, run |-> TRUE, count |-> 0, busy |-> 0]
             can == ok /\ life = "up"
  <1>1. s \in rl.got.specs /\ s.id = i /\ s \in Nats!Specs /\ rl.pc = "add"
    BY SpecOfIs DEF Nats!Add
  <1>2. /\ nSubs' = IF can THEN Append(old, new) ELSE old
        /\ nActive' = [nActive EXCEPT ![i] = IF can THEN Len(nSubs) + 1 ELSE 0]
        /\ life' = life
    BY DEF Nats!Add
  <1>3. /\ old \in Seq(SubRec) /\ DOMAIN old = DOMAIN nSubs
        /\ \A k \in DOMAIN nSubs : old[k].spec = nSubs[k].spec /\ (old[k].run => nSubs[k].run
                 /\ k # nActive[i])
    <2>1. CASE Nats!Live(i)
      <3>1. nActive[i] \in DOMAIN nSubs
        BY <2>1 DEF Nats!Live, SubsInv
      <3>2. StoppedAt(old, nActive[i])
        BY <2>1, <3>1, StopLoopIs
      <3> HIDE DEF old
      <3> QED
        BY <3>2 DEF StoppedAt
    <2>2. CASE ~Nats!Live(i)
      BY <2>2 DEF Nats!Live, SubsInv
    <2> QED
      BY <2>1, <2>2
  <1>4. new \in SubRec /\ new.spec = s
    BY <1>1 DEF SubRec
  <1>5. Len(old) = Len(nSubs) /\ Len(nSubs) \in Nat /\ DOMAIN nSubs = 1..Len(nSubs)
    BY <1>3 DEF SubsInv
  <1> HIDE DEF s, old, new
  <1>6. CASE ~can
    <2>1. nSubs' = old /\ nActive' = [nActive EXCEPT ![i] = 0]
      BY <1>2, <1>6
    <2> HIDE DEF can
    <2>2. SubsKept
      BY <1>3, <2>1 DEF SubsInv, SubsKept
    <2>3. \A k \in DOMAIN nSubs : nSubs'[k].run => \A j \in Nats!Ids : nActive[j] = k
             => nActive'[j] = k
      BY <1>3, <2>1 DEF SubsInv
    <2> QED
      BY <1>2, <2>2, <2>3, KeptSubs, KeptFounded DEF SubsInv
  <1>7. CASE can
    <2>1. nSubs' = Append(old, new) /\ nActive' = [nActive EXCEPT ![i] = Len(nSubs) + 1]
      BY <1>2, <1>7
    <2> HIDE DEF can
    <2>2. nSubs' \in Seq(SubRec) /\ DOMAIN nSubs' = 1..(Len(nSubs) + 1)
             /\ nSubs'[Len(nSubs) + 1] = new
          /\ \A k \in DOMAIN nSubs : nSubs'[k] = old[k]
      BY <1>3, <1>4, <1>5, <2>1
    <2>3. nActive' \in [Nats!Ids -> Nat] /\ nActive'[i] = Len(nSubs) + 1
          /\ \A j \in Nats!Ids \ {i} : nActive'[j] = nActive[j]
      BY <1>5, <2>1 DEF SubsInv
    <2>4. \A j \in Nats!Ids : nActive'[j] # 0 => nActive'[j] \in DOMAIN nSubs'
             /\ nSubs'[nActive'[j]].spec.id = j
      BY SMTT(40), <1>1, <1>3, <1>4, <1>5, <2>2, <2>3 DEF SubsInv
    <2>5. Nats!OneLoop'
      <3> SUFFICES ASSUME NEW k \in DOMAIN nSubs', nSubs'[k].run, life' # "stopping"
                   PROVE  \E j \in Nats!Ids : nActive'[j] = k
        BY DEF Nats!OneLoop
      <3>1. CASE k = Len(nSubs) + 1
        BY <2>3, <3>1
      <3>2. CASE k # Len(nSubs) + 1
        <4>1. k \in DOMAIN nSubs /\ nSubs[k].run /\ k # nActive[i]
          BY <1>3, <1>5, <2>2, <3>2
        <4>2. PICK j \in Nats!Ids : nActive[j] = k
          BY <1>2, <4>1 DEF SubsInv, Nats!OneLoop
        <4> QED
          BY <2>3, <4>1, <4>2
      <3> QED
        BY <3>1, <3>2
    <2>6. SubsFounded
      BY <1>1, <1>3, <1>4, <2>2, <2>3 DEF SubsInv, SubsFounded
    <2> QED
      BY <1>2, <2>2, <2>3, <2>4, <2>5, <2>6 DEF SubsInv
  <1> QED
    BY <1>6, <1>7

LEMMA SubsSteps == NatsInv /\ [Nats!Next]_(Nats!vars) => SubsInv' /\ SubsFounded
  <1> SUFFICES ASSUME NatsInv, [Nats!Next]_(Nats!vars) PROVE SubsInv' /\ SubsFounded
    OBVIOUS
  <1>1. SubsInv
    BY DEF NatsInv
  <1> QED
    BY <1>1, AsideSubs, DropSubs, DiesSubs, LoopSubs, StopSubs, AddSubs
       DEF Nats!Next, Nats!ReloadStep, Aside

LEMMA MsgSteps == NatsInv /\ [Nats!Next]_(Nats!vars) => MsgInv'
  <1> SUFFICES ASSUME NatsInv, [Nats!Next]_(Nats!vars) PROVE MsgInv'
    OBVIOUS
  <1>1. CASE UNCHANGED msg
    BY <1>1 DEF NatsInv, MsgInv
  <1>2. CASE \E n, m : m \in 1..MaxMsg /\ Nats!Deliver(n, m)
    <2> PICK n, m : m \in 1..MaxMsg /\ Nats!Deliver(n, m)
      BY <1>2
    <2>1. msg[m] \in [tries : Nat, state : {"none", "held", "gated", "shown", "refused"}]
      BY DEF NatsInv, MsgInv
    <2>2. PICK w \in {"held", "gated"} : msg' = [msg EXCEPT ![m] = [tries |-> @.tries + 1,
             state |-> w]]
      <3>1. msg[m].tries \in Nat
        BY <2>1
      <3>2. CASE Nats!forced(m) \/ Nats!gate(nSubs[n])
        BY <3>2 DEF Nats!Deliver
      <3>3. CASE ~(Nats!forced(m) \/ Nats!gate(nSubs[n]))
        <4>1. msg[m].tries = 0
          BY <3>1, <3>3 DEF Nats!forced
        <4> QED
          BY <3>3, <4>1 DEF Nats!Deliver
      <3> QED
        BY <3>2, <3>3
    <2> QED
      BY <2>1, <2>2 DEF NatsInv, MsgInv
  <1>3. CASE \E n, ok : Nats!Injected(n, ok)
    <2> PICK n, ok : Nats!Injected(n, ok)
      BY <1>3
    <2>1. PICK w \in {"shown", "refused"} : msg' = [msg EXCEPT ![nSubs[n].busy].state = w]
      BY DEF Nats!Injected
    <2> QED
      BY <2>1 DEF NatsInv, MsgInv
  <1> QED
    BY <1>1, <1>2, <1>3
       DEF Nats!Next, Nats!ReloadStep, Nats!LoopStep, Nats!Edit, Nats!Reload, Nats!Publish,
           Nats!StartReload, Nats!Dropped, Nats!ReloadDone, Nats!Loaded, Nats!DeleteDurable,
           Nats!Keep, Nats!Drop, Nats!Add, Nats!LoopDies, Nats!Stop, Nats!Drained, Nats!vars,
           Nats!feed

LEMMA EverGrows == ASSUME HistoryInv, NEW S
    PROVE  LET h == [history EXCEPT !.everSet = @ \cup S]
           IN  h = [cause |-> history.cause, everSet |-> history.everSet \cup S]
  BY SMTT(40) DEF HistoryInv

\* The reload's own steps, and the edits under it.
LEMMA ReloadSteps == Nats!NatsAssumption /\ NatsInv /\ [Nats!Next]_(Nats!vars) =>
                     ReloadInv' /\ HistoryInv' /\ history.everSet \subseteq history.everSet'
  <1> SUFFICES ASSUME Nats!NatsAssumption, NatsInv, [Nats!Next]_(Nats!vars)
               PROVE  ReloadInv' /\ HistoryInv' /\ history.everSet \subseteq history.everSet'
    OBVIOUS
  <1> USE DEF NatsInv
  <1>a. Nats!CursorSafe
    BY DEF HistoryInv
  <1>1. CASE UNCHANGED <<nStored, everLoaded, rl, server, history>>
    BY <1>1 DEF ReloadInv, HistoryInv, Nats!CursorSafe
  <1>2. CASE \E v \in Nats!Versions \cup {Nats!Absent, Nats!Garbage} : Nats!Edit(v)
    <2> PICK v \in Nats!Versions \cup {Nats!Absent, Nats!Garbage} : Nats!Edit(v)
      BY <1>2
    <2>1. nStored' = v /\ UNCHANGED <<everLoaded, rl, server>>
          /\ history' = [history EXCEPT !.everSet = @ \cup v.specs]
      BY DEF Nats!Edit
    <2>2. history'.cause = history.cause /\ history'.everSet = history.everSet \cup v.specs
          /\ history' = [cause |-> history'.cause, everSet |-> history'.everSet]
      BY <2>1, EverGrows
    <2>3. ReloadInv'
      BY <2>1, <2>2, LoadSetIs DEF ReloadInv
    <2>4. HistoryInv'
      BY <2>1, <2>2 DEF HistoryInv, Nats!CursorSafe
    <2> QED
      BY <2>2, <2>3, <2>4
  <1>3. CASE Nats!StartReload \/ Nats!Dropped \/ Nats!ReloadDone \/ \E i \in Nats!Ids : Nats!Keep(i)
    <2>1. UNCHANGED <<nStored, everLoaded, server, history>>
      BY <1>3 DEF Nats!StartReload, Nats!Dropped, Nats!ReloadDone, Nats!Keep
    <2>2. ReloadInv'
      <3>1. CASE Nats!StartReload \/ Nats!ReloadDone
        BY <2>1, <3>1, LoadSetIs DEF ReloadInv, Nats!StartReload, Nats!ReloadDone, Nats!Idle
      <3>2. CASE Nats!Dropped
        <4>1. /\ rl.pc = "drop" /\ rl.del = None
              /\ rl' = [rl EXCEPT !.pc = "add", !.todo = Nats!IdsOf(rl.got.specs)]
          BY <3>2 DEF Nats!Dropped
        <4>2. Nats!IdsOf(rl.got.specs) \subseteq Nats!Ids
          BY SpecFacts DEF ReloadInv, LoadSet, Nats!IdsOf
        <4> QED
          BY <2>1, <4>1, <4>2 DEF ReloadInv
      <3>3. CASE \E i \in Nats!Ids : Nats!Keep(i)
        BY <2>1, <3>3 DEF ReloadInv, Nats!Keep
      <3> QED
        BY <1>3, <3>1, <3>2, <3>3
    <2> QED
      BY <2>1, <2>2 DEF HistoryInv, Nats!CursorSafe
  <1>4. CASE \E ok \in BOOLEAN : Nats!Loaded(ok)
    <2> PICK ok \in BOOLEAN : Nats!Loaded(ok)
      BY <1>4
    <2> DEFINE r == Nats!loadSpecs(nStored)
               usable == ok /\ r.errors \in {"none", "some"}
               S == IF everLoaded THEN nStored.specs ELSE r.specs
    <2>1. /\ rl' = IF usable THEN [pc |-> "drop", got |-> r, del |-> None,
                                   todo |-> {i \in Nats!Ids : Nats!Live(i)} \ Nats!IdsOf(r.specs)]
                   ELSE Nats!Idle
          /\ everLoaded' = (everLoaded \/ usable) /\ server' = server
          /\ history' = [history EXCEPT !.everSet = @ \cup S]
          /\ nStored' \in {nStored, r}
      BY DEF Nats!Loaded
    <2>2. r \in LoadSet /\ nStored \in LoadSet /\ r.specs \subseteq S
      BY LoadSetIs DEF ReloadInv, Nats!loadSpecs
    <2> HIDE DEF r, S
    <2>3. history'.cause = history.cause /\ history'.everSet = history.everSet \cup S
          /\ history' = [cause |-> history'.cause, everSet |-> history'.everSet]
      BY <2>1, EverGrows
    <2>4. ReloadInv'
      <3>1. CASE usable
        BY <2>1, <2>2, <2>3, <3>1 DEF ReloadInv, LoadSet
      <3>2. CASE ~usable
        BY <2>1, <2>2, <3>2, LoadSetIs DEF ReloadInv, Nats!Idle
      <3> QED
        BY <3>1, <3>2
    <2>5. HistoryInv'
      BY <2>1, <2>3 DEF HistoryInv, Nats!CursorSafe
    <2> QED
      BY <2>3, <2>4, <2>5
  <1>5. CASE \E i \in Nats!Ids : Nats!Drop(i)
    <2> PICK i \in Nats!Ids : Nats!Drop(i)
      BY <1>5
    <2>1. /\ rl.pc = "drop" /\ rl.del = None /\ i \in rl.todo
          /\ UNCHANGED <<nStored, everLoaded, server, history>>
      BY DEF Nats!Drop
    <2>2. PICK x : /\ rl' = [rl EXCEPT !.todo = @ \ {i}, !.del = x]
                   /\ x = None \/ (/\ nActive[i] # 0 /\ x = nSubs[nActive[i]].spec
                                   /\ x.durable # None /\ rl.got.errors = "none")
      BY DEF Nats!Drop, Nats!deletesDurable
    <2>3. x = None \/ (x \in Nats!Specs /\ x.id = i)
      <3>1. nActive[i] # 0 => nSubs[nActive[i]] \in SubRec /\ nSubs[nActive[i]].spec.id = i
        BY DEF SubsInv
      <3> QED
        BY <2>2, <3>1 DEF SubRec
    <2>4. i \notin Nats!IdsOf(rl.got.specs)
      BY <2>1 DEF ReloadInv
    <2>5. ReloadInv'
      BY <2>1, <2>2, <2>3, <2>4 DEF ReloadInv
    <2> QED
      BY <2>1, <2>5 DEF HistoryInv, Nats!CursorSafe
  <1>6. CASE \E ok \in BOOLEAN : Nats!DeleteDurable(ok)
    <2> PICK ok \in BOOLEAN : Nats!DeleteDurable(ok)
      BY <1>6
    <2> DEFINE d == rl.del.durable
               why == [specs |-> rl.got.specs, errors |-> rl.got.errors, was |-> rl.del.id]
    <2>1. /\ rl.pc = "drop" /\ rl.del # None /\ rl' = [rl EXCEPT !.del = None]
          /\ UNCHANGED <<nStored, everLoaded>>
          /\ server' = IF ok THEN [server EXCEPT ![d] = None] ELSE server
          /\ history' = IF ok THEN [history EXCEPT !.cause[d] = why] ELSE history
      BY DEF Nats!DeleteDurable
    <2>2. d \in Nats!Durables /\ why.errors = "none" /\ \A s \in why.specs : s.id # why.was
      BY <2>1, SpecFacts DEF ReloadInv, Nats!IdsOf
    <2> HIDE DEF d, why
    <2>3. CASE ~ok
      <3>1. ReloadInv'
        BY <2>1, <2>3 DEF ReloadInv
      <3> QED
        BY <2>1, <2>3, <3>1 DEF HistoryInv, Nats!CursorSafe
    <2>4. CASE ok
      <3>1. /\ history'.cause = [history.cause EXCEPT ![d] = why]
               /\ history'.everSet = history.everSet
            /\ history' = [cause |-> history'.cause, everSet |-> history'.everSet]
        BY <2>1, <2>4 DEF HistoryInv
      <3>2. ReloadInv'
        BY <2>1, <3>1 DEF ReloadInv
      <3>3. HistoryInv'
        <4>1. history'.cause = [e \in Nats!Durables |-> history'.cause[e]]
              /\ \A e \in Nats!Durables : history'.cause[e] = IF e = d THEN why ELSE history.cause[e]
          BY <2>2, <3>1 DEF HistoryInv
        <4>2. Nats!CursorSafe'
          BY <1>a, <2>2, <4>1 DEF Nats!CursorSafe
        <4>3. server' = [e \in Nats!Durables |-> server'[e]]
          BY <2>1, <2>4 DEF HistoryInv
        <4> QED
          BY <3>1, <4>1, <4>2, <4>3 DEF HistoryInv
      <3> QED
        BY <3>1, <3>2, <3>3
    <2> QED
      BY <2>3, <2>4
  <1>7. CASE \E i \in Nats!Ids, ok \in BOOLEAN : Nats!Add(i, ok)
    <2> PICK i \in Nats!Ids, ok \in BOOLEAN : Nats!Add(i, ok)
      BY <1>7
    <2> DEFINE s == Nats!SpecOf(i)
               d == s.durable
               can == ok /\ life = "up"
               cur == server[d]
               why == [specs |-> {s}, errors |-> "drift", was |-> cur.cfg]
    <2>1. /\ rl.pc = "add" /\ i \in rl.todo /\ rl' = [rl EXCEPT !.todo = @ \ {i}]
          /\ UNCHANGED <<nStored, everLoaded>>
          /\ server' = IF can
                   /\ d # None THEN [server EXCEPT ![d] = Nats!reconciled(s, @)] ELSE server
          /\ history' = IF can /\ d # None /\ cur # None /\ server'[d] # cur
                        THEN [history EXCEPT !.cause[d] = why] ELSE history
      BY DEF Nats!Add
    <2>2. s \in Nats!Specs /\ (d # None => d \in Nats!Durables)
      BY <2>1, SpecOfIs, SpecFacts
    <2>4. server' = [e \in Nats!Durables |-> server'[e]]
      BY <2>1 DEF HistoryInv
    <2>5. CASE history' = history
      <3>1. ReloadInv'
        BY <2>1, <2>5 DEF ReloadInv
      <3>2. HistoryInv'
        BY <2>4, <2>5 DEF HistoryInv, Nats!CursorSafe
      <3> QED
        BY <2>5, <3>1, <3>2
    <2>6. CASE history' # history
      <3>1. /\ can /\ d # None /\ cur # None /\ server'[d] # cur /\ d \in Nats!Durables
            /\ history' = [history EXCEPT !.cause[d] = why]
        BY <2>1, <2>2, <2>6
      <3>2. server'[d] = Nats!reconciled(s, cur)
        <4>1. server' = [server EXCEPT ![d] = Nats!reconciled(s, @)]
          BY <2>1, <3>1
        <4> HIDE DEF d
        <4> QED
          BY <3>1, <4>1 DEF HistoryInv
      <3>3. s.cfg # cur.cfg
        <4> HIDE DEF s, cur, d
        <4> QED
          BY <3>1, <3>2 DEF Nats!reconciled
      <3>4. why.errors = "drift" /\ \A t \in why.specs : t.cfg # why.was
        BY <3>3
      <3> HIDE DEF d, why, cur, can, s
      <3>5. /\ history'.cause = [history.cause EXCEPT ![d] = why]
               /\ history'.everSet = history.everSet
            /\ history' = [cause |-> history'.cause, everSet |-> history'.everSet]
        BY <3>1 DEF HistoryInv
      <3>6. history'.cause = [e \in Nats!Durables |-> history'.cause[e]]
            /\ \A e \in Nats!Durables : history'.cause[e] = IF e = d THEN why ELSE history.cause[e]
        BY <3>1, <3>5 DEF HistoryInv
      <3>7. Nats!CursorSafe'
        BY <1>a, <3>4, <3>6 DEF Nats!CursorSafe
      <3>8. ReloadInv'
        BY <2>1, <3>5 DEF ReloadInv
      <3> QED
        BY <2>4, <3>5, <3>6, <3>7, <3>8 DEF HistoryInv
    <2> QED
      BY <2>5, <2>6
  <1> QED
    <2>1. \/ UNCHANGED <<nStored, everLoaded, rl, server, history>>
          \/ \E v \in Nats!Versions \cup {Nats!Absent, Nats!Garbage} : Nats!Edit(v)
          \/ Nats!ReloadStep
      BY ZenonT(60)
         DEF Nats!Next, Nats!LoopStep, Nats!Deliver, Nats!Injected, Nats!Reload, Nats!Publish,
             Nats!LoopDies, Nats!Stop, Nats!Drained, Nats!vars, Nats!feed
    <2> QED
      BY <1>1, <1>2, <1>3, <1>4, <1>5, <1>6, <1>7, <2>1 DEF Nats!ReloadStep

LEMMA NatsInit == Nats!NatsAssumption /\ Nats!Init => NatsInv
  <1> SUFFICES ASSUME Nats!NatsAssumption, Nats!Init PROVE NatsInv
    OBVIOUS
  <1>1. SubsInv
    BY DEF Nats!Init, SubsInv, Nats!OneLoop
  <1>2. MsgInv
    BY DEF Nats!Init, MsgInv, Nats!NewMsg
  <1>3. ReloadInv
    BY LoadSetIs DEF Nats!Init, ReloadInv, Nats!Idle
  <1>4. HistoryInv
    BY DEF Nats!Init, HistoryInv, Nats!CursorSafe
  <1>5. BindInv
    BY DEF Nats!Init, BindInv
  <1> QED
    BY <1>1, <1>2, <1>3, <1>4, <1>5 DEF NatsInv

\* NatsInv is inductive.
THEOREM NatsInvariance == ASSUME Nats!NatsAssumption PROVE Nats!Spec => []NatsInv
  <1>1. Nats!Init => NatsInv
    BY NatsInit
  <1>2. NatsInv /\ [Nats!Next]_(Nats!vars) => NatsInv'
    <2> SUFFICES ASSUME NatsInv, [Nats!Next]_(Nats!vars) PROVE NatsInv'
      OBVIOUS
    <2>1. SubsInv' /\ SubsFounded /\ MsgInv' /\ ReloadInv' /\ HistoryInv'
          /\ history.everSet \subseteq history.everSet'
      BY SubsSteps, MsgSteps, ReloadSteps
    <2>2. BindInv'
      BY <2>1 DEF NatsInv, BindInv, SubsFounded, ReloadInv
    <2> QED
      BY <2>1, <2>2 DEF NatsInv
  <1> QED
    BY <1>1, <1>2, PTL DEF Nats!Spec

\* For any stored values, defaults, edits, faults and loops: a cursor is destroyed only by a clean
\* load that no longer has its subscription, or by a change of a consumer-relevant field.
THEOREM CursorSafeHolds == ASSUME Nats!NatsAssumption PROVE Nats!Spec => []Nats!CursorSafe
  <1>1. NatsInv => Nats!CursorSafe
    BY DEF NatsInv, HistoryInv
  <1> QED
    BY <1>1, NatsInvariance, PTL

\* Whatever is subscribed was stored at some time, the defaults included.
THEOREM NoRebindHolds == ASSUME Nats!NatsAssumption PROVE Nats!Spec => []Nats!NoRebind
  <1>1. NatsInv => Nats!NoRebind
    BY DEF NatsInv, BindInv, Nats!NoRebind
  <1> QED
    BY <1>1, NatsInvariance, PTL

\* One loop per subscription, and none after stop(), through reloads, edits and dying loops.
THEOREM OneLoopHolds == ASSUME Nats!NatsAssumption PROVE Nats!Spec => []Nats!OneLoop
  <1>1. NatsInv => Nats!OneLoop
    BY DEF NatsInv, SubsInv
  <1> QED
    BY <1>1, NatsInvariance, PTL

\* The throttle never acks a message that was delivered before.
THEOREM RetryNotGatedHolds == ASSUME Nats!NatsAssumption PROVE Nats!Spec => []Nats!RetryNotGated
  <1>1. NatsInv => Nats!RetryNotGated
    BY DEF NatsInv, MsgInv, Nats!RetryNotGated
  <1> QED
    BY <1>1, NatsInvariance, PTL

\* All four together: what reload, refresh, a dying loop and the throttle may never do to the
\* advisory subscriptions.
THEOREM AdvisorySafeHolds == Nats!Spec => []AdvisorySafe
  BY NatsAssume, CursorSafeHolds, NoRebindHolds, OneLoopHolds, RetryNotGatedHolds, PTL
     DEF AdvisorySafe
=============================================================================
