--------------------------- MODULE PresenceClaimer ---------------------------
(***************************************************************************)
(* The presence lease of presence.ts: several instances of one identity    *)
(* (a restarted core and its dead predecessor, or two cores by mistake)    *)
(* compete for one Redis key that carries the holder's instance token and  *)
(* a time to live.  The holder alone may emit the identity's beat.         *)
(*                                                                         *)
(* Time is counted in ticks.  Redis calls are bounded by REDIS_TIMEOUT_MS, *)
(* which is far below a heartbeat period, so a call starts and ends        *)
(* between two ticks; everything else interleaves freely inside a tick.    *)
(* A call that is given up (withTimeout) may still be executed later: each  *)
(* instance has a queue of commands on their way to Redis.  They are       *)
(* executed in order, but for the release of stop(): it is sent while      *)
(* another call may be under way, and the two may be executed either way   *)
(* round.                                                                  *)
(***************************************************************************)
EXTENDS Integers, Sequences

CONSTANTS
    Claimer,    \* the PresenceClaimer instances, each with its own token
    Nobody,     \* the holder of an absent key
    Ttl,        \* ttlS, in ticks
    Heartbeat,  \* heartbeatMs, in ticks
    MaxFaults   \* bound on the number of failed Redis calls

\* The constructor throws unless the heartbeat is positive and below the TTL.
ASSUME ClaimerAssumption ==
    /\ Nobody \notin Claimer
    /\ Ttl \in Nat
    /\ Heartbeat \in Nat
    /\ 0 < Heartbeat
    /\ Heartbeat < Ttl
    /\ MaxFaults \in Nat

VARIABLES
    phase,   \* "new", "running" (started), "stopping" (stop() awaits), "stopped", "crashed"
    owned,   \* this.owned
    age,     \* now - this.lastOwnedAt, counted while owned
    timer,   \* ticks until the maintain timer fires
    op,      \* the Redis call the claim/heartbeat activity awaits
    rep,     \* its reply, if it has arrived
    q,       \* commands sent and not yet executed, in order
    holder,  \* whose token the Redis key holds
    ttl,     \* ticks until the Redis key expires
    faults   \* failed calls so far

vars == <<phase, owned, age, timer, op, rep, q, holder, ttl, faults>>

Ops  == {"idle", "set", "get", "expire", "beat", "undo"}
Cmds == {"set", "get", "expire", "beat", "release"}
Fates == {"orphan", "lost"}
Cmd  == [cmd : Cmds, by : {"main", "stop"} \cup Fates]

\* Who still runs code of ours.
Alive(c) == phase[c] \in {"running", "stopping"}

\* isOwned(): the core emits its own beat only while this holds.
isOwned(c) == phase[c] = "running" /\ owned[c]

Init ==
    /\ phase = [c \in Claimer |-> "new"]
    /\ owned = [c \in Claimer |-> FALSE]
    /\ age = [c \in Claimer |-> 0]
    /\ timer = [c \in Claimer |-> Heartbeat]
    /\ op = [c \in Claimer |-> "idle"]
    /\ rep = [c \in Claimer |-> "none"]
    /\ q = [c \in Claimer |-> <<>>]
    /\ holder = Nobody
    /\ ttl = 0
    /\ faults = 0

------------------------------------------------------------------------------
\* withTimeout(): the pending command of an activity is no longer awaited; it is
\* still executed ("orphan") or never reaches Redis ("lost").
Abandoned(s, activities, fate) ==
    [i \in 1..Len(s) |-> IF s[i].by \in activities THEN [s[i] EXCEPT !.by = fate] ELSE s[i]]

\* The claim/heartbeat activity sends a command and awaits its reply.
Call(c, o, command) ==
    /\ op' = [op EXCEPT ![c] = o]
    /\ rep' = [rep EXCEPT ![c] = "none"]
    /\ q' = [q EXCEPT ![c] = Append(@, [cmd |-> command, by |-> "main"])]

Idle(c) ==
    /\ op' = [op EXCEPT ![c] = "idle"]
    /\ rep' = [rep EXCEPT ![c] = "none"]
    /\ q' = q

\* start(): the first claim attempt; the maintain timer is armed when it ends,
\* within the same tick.
Start(c) ==
    /\ phase[c] = "new"
    /\ phase' = [phase EXCEPT ![c] = "running"]
    /\ timer' = [timer EXCEPT ![c] = Heartbeat]
    /\ Call(c, "set", "set")
    /\ UNCHANGED <<owned, age, holder, ttl, faults>>

\* Mutant of ClaimWon: a claim that stop() has overtaken is just forgotten.
ClaimWonForgotten(c) ==
    /\ owned' = [owned EXCEPT ![c] = phase[c] = "running"]
    /\ age' = [age EXCEPT ![c] = 0]
    /\ Idle(c)

\* claimWon(): commit, unless stop() ran while the call was awaited, in which
\* case the key just (re)created is released again.
ClaimWon(c) ==
    \/ /\ phase[c] = "running"
       /\ owned' = [owned EXCEPT ![c] = TRUE]
       /\ age' = [age EXCEPT ![c] = 0]
       /\ Idle(c)
    \/ /\ phase[c] # "running"
       /\ Call(c, "undo", "release")
       /\ UNCHANGED <<owned, age>>

Lost(c) ==
    /\ owned' = [owned EXCEPT ![c] = FALSE]
    /\ age' = [age EXCEPT ![c] = 0]
    /\ Idle(c)

\* The rest of tryClaim() after each awaited reply.
ContinueClaim(c) ==
    \/ op[c] = "set" /\ rep[c] = "yes" /\ ClaimWon(c)
    \/ op[c] = "set" /\ rep[c] = "no" /\ Call(c, "get", "get") /\ UNCHANGED <<owned, age>>
    \/ op[c] = "get" /\ rep[c] = "yes" /\ Call(c, "expire", "expire") /\ UNCHANGED <<owned, age>>
    \/ op[c] = "get" /\ rep[c] = "no" /\ Lost(c)
    \/ op[c] = "expire" /\ rep[c] # "none" /\ ClaimWon(c)
    \/ op[c] = "undo" /\ rep[c] # "none" /\ Lost(c)

\* The rest of heartbeat() after the reply.
ContinueBeat(c) ==
    /\ op[c] = "beat"
    /\ \/ rep[c] = "yes" /\ age' = [age EXCEPT ![c] = 0] /\ owned' = owned /\ Idle(c)
       \/ rep[c] = "no" /\ Lost(c)

Continue(c) ==
    /\ ContinueClaim(c) \/ ContinueBeat(c)
    /\ UNCHANGED <<phase, timer, holder, ttl, faults>>

\* Mutant of Fail: a failed heartbeat keeps ownership whatever the time since
\* the last confirmation (the expiry test of the catch branch is dropped).
FailKeepsOwnership(c) ==
    /\ op[c] # "idle"
    /\ faults < MaxFaults
    /\ faults' = faults + 1
    /\ LET keep == op[c] = "beat" /\ owned[c] IN
       /\ owned' = [owned EXCEPT ![c] = keep]
       /\ age' = [age EXCEPT ![c] = IF keep THEN @ ELSE 0]
    /\ Idle(c)
    /\ UNCHANGED <<phase, timer, holder, ttl>>

\* The awaited call of the claim/heartbeat activity fails or times out: a
\* failed claim is not owned; a failed heartbeat keeps ownership until the TTL
\* has passed since the last confirmation.
Fail(c) ==
    /\ op[c] # "idle"
    /\ faults < MaxFaults
    /\ faults' = faults + 1
    /\ LET keep == op[c] = "beat" /\ owned[c] /\ age[c] < Ttl IN
       /\ owned' = [owned EXCEPT ![c] = keep]
       /\ age' = [age EXCEPT ![c] = IF keep THEN @ ELSE 0]
    /\ op' = [op EXCEPT ![c] = "idle"]
    /\ rep' = [rep EXCEPT ![c] = "none"]
    /\ \E fate \in Fates : q' = [q EXCEPT ![c] = Abandoned(@, {"main"}, fate)]
    /\ UNCHANGED <<phase, timer, holder, ttl>>

\* Mutant of Maintain: an instance that lost its first claim never tries again.
MaintainNoReclaim(c) ==
    /\ phase[c] = "running"
    /\ timer[c] = 0
    /\ op[c] = "idle"
    /\ timer' = [timer EXCEPT ![c] = Heartbeat]
    /\ IF owned[c] THEN Call(c, "beat", "beat") ELSE UNCHANGED <<op, rep, q>>
    /\ UNCHANGED <<phase, owned, age, holder, ttl, faults>>

\* maintain(): refresh the key if it is owned, else try to claim it.
Maintain(c) ==
    /\ phase[c] = "running"
    /\ timer[c] = 0
    /\ op[c] = "idle"
    /\ timer' = [timer EXCEPT ![c] = Heartbeat]
    /\ IF owned[c] THEN Call(c, "beat", "beat") ELSE Call(c, "set", "set")
    /\ UNCHANGED <<phase, owned, age, holder, ttl, faults>>

\* Mutant of Stop: the release is guarded by the flag stop() has just cleared.
StopNoRelease(c) ==
    /\ phase[c] = "running"
    /\ phase' = [phase EXCEPT ![c] = "stopped"]
    /\ owned' = [owned EXCEPT ![c] = FALSE]
    /\ age' = [age EXCEPT ![c] = 0]
    /\ UNCHANGED <<timer, op, rep, q, holder, ttl, faults>>

\* stop(): clear the timer and the flags, then the token-guarded release, whether or not the key is
\* owned; the release may overtake what is on its way.
Stop(c) ==
    /\ phase[c] = "running"
    /\ phase' = [phase EXCEPT ![c] = "stopping"]
    /\ owned' = [owned EXCEPT ![c] = FALSE]
    /\ age' = [age EXCEPT ![c] = 0]
    /\ LET release == <<[cmd |-> "release", by |-> "stop"]>> IN
       \E s \in {q[c] \o release, release \o q[c]} : q' = [q EXCEPT ![c] = s]
    /\ UNCHANGED <<timer, op, rep, holder, ttl, faults>>

\* The release of stop() fails or times out; stop() returns all the same.
StopFail(c) ==
    /\ phase[c] = "stopping"
    /\ faults < MaxFaults
    /\ faults' = faults + 1
    /\ phase' = [phase EXCEPT ![c] = "stopped"]
    /\ \E fate \in Fates : q' = [q EXCEPT ![c] = Abandoned(@, {"stop"}, fate)]
    /\ UNCHANGED <<owned, age, timer, op, rep, holder, ttl>>

\* The process dies (SIGKILL): its key stays, what it had sent may still arrive.
Crash(c) ==
    /\ Alive(c)
    /\ phase' = [phase EXCEPT ![c] = "crashed"]
    /\ owned' = [owned EXCEPT ![c] = FALSE]
    /\ age' = [age EXCEPT ![c] = 0]
    /\ op' = [op EXCEPT ![c] = "idle"]
    /\ rep' = [rep EXCEPT ![c] = "none"]
    /\ \E fate \in Fates : q' = [q EXCEPT ![c] = Abandoned(@, {"main", "stop"}, fate)]
    /\ UNCHANGED <<timer, holder, ttl, faults>>

------------------------------------------------------------------------------
\* Mutant of RedisEffect: the release script deletes without comparing tokens.
RedisEffectUnguarded(c, command) ==
    CASE command = "set"     -> IF holder = Nobody THEN <<c, Ttl, "yes">> ELSE <<holder, ttl, "no">>
      [] command = "get"     -> <<holder, ttl, IF holder = c THEN "yes" ELSE "no">>
      [] command = "expire"  -> <<holder, IF holder = Nobody THEN 0 ELSE Ttl, "yes">>
      [] command = "beat"    -> IF holder = c THEN <<c, Ttl, "yes">> ELSE <<holder, ttl, "no">>
      [] command = "release" -> <<Nobody, 0, "yes">>

\* What Redis does with a command of c: the holder and the TTL afterwards, and
\* whether the reply is truthy.  EXPIRE is not token-guarded; the heartbeat and
\* release scripts are.
RedisEffect(c, command) ==
    CASE command = "set"     -> IF holder = Nobody THEN <<c, Ttl, "yes">> ELSE <<holder, ttl, "no">>
      [] command = "get"     -> <<holder, ttl, IF holder = c THEN "yes" ELSE "no">>
      [] command = "expire"  -> <<holder, IF holder = Nobody THEN 0 ELSE Ttl, "yes">>
      [] command = "beat"    -> IF holder = c THEN <<c, Ttl, "yes">> ELSE <<holder, ttl, "no">>
      [] command = "release" -> IF holder = c THEN <<Nobody, 0, "yes">> ELSE <<holder, ttl, "no">>

\* The oldest command of c is executed (unless it was lost on the way) and its
\* reply reaches the activity that awaits it, if one still does.
Exec(c) ==
    /\ q[c] # <<>>
    /\ LET e == Head(q[c])
           r == IF e.by = "lost" THEN <<holder, ttl, "no">> ELSE RedisEffect(c, e.cmd) IN
       /\ holder' = r[1]
       /\ ttl' = r[2]
       /\ rep' = [rep EXCEPT ![c] = IF e.by = "main" THEN r[3] ELSE @]
       /\ phase' = [phase EXCEPT ![c] = IF e.by = "stop" THEN "stopped" ELSE @]
    /\ q' = [q EXCEPT ![c] = Tail(@)]
    /\ UNCHANGED <<owned, age, timer, op, faults>>

\* Redis drops the key when its TTL has run out.
Expire ==
    /\ holder # Nobody
    /\ ttl = 0
    /\ holder' = Nobody
    /\ UNCHANGED <<phase, owned, age, timer, op, rep, q, ttl, faults>>

\* Mutant of Tick: time passes over a key whose TTL has run out.
TickPastExpiry ==
    /\ \A c \in Claimer : /\ op[c] = "idle"
                          /\ phase[c] # "stopping"
                          /\ phase[c] = "running" => timer[c] > 0
    /\ timer' = [c \in Claimer |-> IF phase[c] = "running" THEN timer[c] - 1 ELSE timer[c]]
    /\ age' = [c \in Claimer |-> IF owned[c] THEN age[c] + 1 ELSE age[c]]
    /\ ttl' = IF holder = Nobody THEN 0 ELSE ttl - 1
    /\ UNCHANGED <<phase, owned, op, rep, q, holder, faults>>

\* One tick passes: no timer is overdue, no awaited call is older than a tick,
\* no expired key is left.
Tick ==
    /\ \A c \in Claimer : /\ op[c] = "idle"
                          /\ phase[c] # "stopping"
                          /\ phase[c] = "running" => timer[c] > 0
    /\ holder # Nobody => ttl > 0
    /\ timer' = [c \in Claimer |-> IF phase[c] = "running" THEN timer[c] - 1 ELSE timer[c]]
    /\ age' = [c \in Claimer |-> IF owned[c] THEN age[c] + 1 ELSE age[c]]
    /\ ttl' = IF holder = Nobody THEN 0 ELSE ttl - 1
    /\ UNCHANGED <<phase, owned, op, rep, q, holder, faults>>

Next ==
    \/ \E c \in Claimer : Start(c) \/ Continue(c) \/ Fail(c) \/ Maintain(c) \/ Stop(c)
                          \/ StopFail(c) \/ Crash(c) \/ Exec(c)
    \/ Expire
    \/ Tick

Spec == Init /\ [][Next]_vars

\* Redis executes what it was sent, the event loop runs its continuations and
\* timers, and time passes.  Starting, stopping, crashing and failing are not fair.
Fairness ==
    /\ \A c \in Claimer : WF_vars(Continue(c)) /\ WF_vars(Maintain(c)) /\ WF_vars(Exec(c))
    /\ WF_vars(Expire)
    /\ WF_vars(Tick)

FairSpec == Spec /\ Fairness

------------------------------------------------------------------------------
\* Type invariant of the lease.
TypeOK ==
    /\ phase \in [Claimer -> {"new", "running", "stopping", "stopped", "crashed"}]
    /\ owned \in [Claimer -> BOOLEAN]
    /\ age \in [Claimer -> Nat]
    /\ timer \in [Claimer -> 0..Heartbeat]
    /\ op \in [Claimer -> Ops]
    /\ rep \in [Claimer -> {"none", "yes", "no"}]
    /\ q \in [Claimer -> Seq(Cmd)]
    /\ holder \in Claimer \cup {Nobody}
    /\ ttl \in 0..Ttl
    /\ faults \in 0..MaxFaults

\* heartbeat() fences itself: whatever Redis calls fail, an instance that still
\* believes it owns the key had its ownership confirmed less than one TTL plus
\* one heartbeat period ago.
OwnershipFencing == \A c \in Claimer : isOwned(c) => age[c] < Ttl + Heartbeat

\* The token guards of the heartbeat and release scripts: a key that has not run
\* out is taken away only from an instance that is itself stopping or gone;
\* another instance's stop(), retry or late command never removes it.
NoForeignRelease ==
    [][\A c \in Claimer : (holder = c /\ holder' # c /\ phase[c] = "running") => ttl = 0]_vars

\* stop() leaves no ghost record, even when it overtakes a claim in flight: as
\* long as no Redis call failed, an instance whose stop() has returned and whose
\* claim activity has ended does not hold the key.
NoGhost ==
    \A c \in Claimer :
        (faults = 0 /\ phase[c] = "stopped" /\ op[c] = "idle") => holder # c

\* What an instance may rely on: it owns the key only as long as it may, and leaves none behind.
LeaseSafe == OwnershipFencing /\ NoGhost

\* start() always arms the maintain timer: an instance that runs while every
\* other one is gone comes to own the key once the stale record has expired.
Converges ==
    \A c \in Claimer :
        (phase[c] = "running" /\ \A d \in Claimer \ {c} : phase[d] \in {"stopped", "crashed"})
            ~> (owned[c] \/ phase[c] # "running")
==============================================================================
