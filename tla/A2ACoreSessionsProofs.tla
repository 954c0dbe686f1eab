----------------------- MODULE A2ACoreSessionsProofs -----------------------
(***************************************************************************)
(* The safety properties of the sessions of an agent, for any number of    *)
(* cores, connections, failed starts, shutdowns and crashes: SessionBacked *)
(* and NoForeignRemoval without further assumption, and, under the         *)
(* conditions they state themselves, OneConsumer (no live holder has       *)
(* failed to refresh its key) and NoOrphanKey (no claim has timed out);    *)
(* and of the boot and the shutdown of the core that keeps them.           *)
(***************************************************************************)
EXTENDS MCSessions, TLAPS

------------------------------------------------------------------------------
(* The inductive invariant *)

\* How far run() of a connection is when its session is in the map, or was taken out
\* of it, and when its inbox is consumed.
PcInv ==
    /\ \A c \in sessions \cup releasing : pc[c] \in {"added", "live", "end"}
    /\ \A c \in consuming : pc[c] \in {"connect", "rollback", "added", "live", "end"}
    /\ consuming \cap releasing = {}

\* Only a channel that has claimed presence consumes, and the presence key is its own.
ClaimInv ==
    /\ consuming \subseteq claimed
    /\ \A c \in Conn : Running(Home[c]) /\ pc[c] = "subscribe" /\ c \notin ToolOnly => c \in claimed
    /\ losses = 0 => \A c \in claimed : key = c /\ ~stale

\* Epochs identify connections: removeSession(agentId, epoch) finds its own session.
EpochInv ==
    /\ \A c \in Conn : epoch[c] <= lastEpoch
    /\ \A c, d \in Conn : epoch[c] = epoch[d] /\ epoch[c] # 0 => c = d
    /\ \A c \in Conn : pc[c] \in {"authed", "claim", "subscribe", "connect", "rollback", "added", "live"}
                        => epoch[c] # 0
    /\ \A c \in sessions \cup adopted : epoch[c] # 0

\* A connection that is open is in the live set, which a stopping core has emptied; a
\* session that is being stopped belongs to a connection that has closed.
LiveInv ==
    /\ \A c \in releasing : closed[c]
    /\ \A c \in Conn : pc[c] # "off" /\ ~closed[c] => c \in live
    /\ \A c \in live : core[Home[c]] \notin {"stopping", "stopped"}

\* A session stays registered, and its channel started, until its connection closes.
BackInv ==
    /\ \A c \in told : pc[c] = "live"
    /\ \A c \in Conn : ~closed[c] /\ (pc[c] = "added" \/ c \in told) => c \in sessions
    /\ \A c \in sessions : c \in ToolOnly \/ c \in consuming
    /\ \A c \in Conn : Running(Home[c]) /\ pc[c] = "connect" => c \in ToolOnly \/ c \in consuming

\* Somebody will release every claim: an add in flight, a teardown, or the session.
KeyInv ==
    /\ \A c \in claimed : Running(Home[c]) /\ c \in Adding \cup sessions \cup releasing
    /\ late = 0 => lateSet = {}
    /\ late = 0 /\ key # None => key \in claimed \/ core[Home[key]] = "crashed"

IInv == TypeOK /\ PcInv /\ ClaimInv /\ EpochInv /\ LiveInv /\ BackInv /\ KeyInv

\* Every step of run(), of a teardown and of a shutdown keeps the types, and keeps a
\* session that is being stopped out of the map.
LEMMA TypeStep == ASSUME TypeOK, PcInv, Next \/ UNCHANGED vars PROVE TypeOK'
<1> USE SessionsAssumption
<1>1. ASSUME NEW c \in Conn, Open(c) PROVE TypeOK'
  BY <1>1 DEF Open, Go, TypeOK, PC, faults, redis
<1>2. ASSUME NEW c \in Conn, HelloRefused(c) PROVE TypeOK'
  BY <1>2 DEF HelloRefused, At, Go, TypeOK, PC, faults, redis
<1>3. ASSUME NEW c \in Conn, HelloReclaim(c) PROVE TypeOK'
  BY <1>3 DEF HelloReclaim, At, Go, TypeOK, PC, faults, redis
<1>4. ASSUME NEW c \in Conn, NextEpoch(c) PROVE TypeOK'
  BY <1>4 DEF NextEpoch, At, Go, TypeOK, PC, faults, redis
<1>5. ASSUME NEW c \in Conn, AddUdsSession(c) PROVE TypeOK'
  BY <1>5 DEF AddUdsSession, At, Go, TypeOK, PC, faults, redis
<1>6. ASSUME NEW c \in Conn, ClaimPresence(c) PROVE TypeOK'
  <2>1. pc' \in [Conn -> PC]
    BY <1>6 DEF ClaimPresence, Go, TypeOK, PC
  <2>2. key' \in Conn \cup {None} /\ stale' \in BOOLEAN /\ claimed' \subseteq Conn
    BY <1>6 DEF ClaimPresence, TypeOK, redis
  <2> QED
    BY <1>6, <2>1, <2>2 DEF ClaimPresence, TypeOK, faults
<1>7. ASSUME NEW c \in Conn, ClaimTimeout(c) PROVE TypeOK'
  BY <1>7 DEF ClaimTimeout, At, Go, TypeOK, PC, faults, redis
<1>8. ASSUME NEW c \in Conn, Subscribe(c) PROVE TypeOK'
  BY <1>8 DEF Subscribe, At, Go, TypeOK, PC, faults, redis
<1>9. ASSUME NEW c \in Conn, SubscribeFail(c) PROVE TypeOK'
  <2>1. startFaults' \in 0..MaxStartFaults /\ late' \in 0..MaxLate /\ losses' \in 0..MaxLoss
    BY <1>9 DEF SubscribeFail, TypeOK
  <2>2. key' \in Conn \cup {None} /\ stale' \in BOOLEAN
    BY <1>9 DEF SubscribeFail, Released, TypeOK, redis
  <2> QED
    BY <1>9, <2>1, <2>2 DEF SubscribeFail, Go, TypeOK, PC
<1>10. ASSUME NEW c \in Conn, Register(c) PROVE TypeOK'
  <2>1. startFaults' \in 0..MaxStartFaults /\ late' \in 0..MaxLate /\ losses' \in 0..MaxLoss
    BY <1>10 DEF Register, TypeOK
  <2>2. pc' \in [Conn -> PC] /\ sessions' \subseteq Conn
    BY <1>10 DEF Register, Go, TypeOK, PC
  <2>3. sessions' \cap releasing' = {}
    BY <1>10 DEF Register, At, TypeOK, PcInv
  <2> QED
    BY <1>10, <2>1, <2>2, <2>3 DEF Register, TypeOK, redis
<1>11. ASSUME NEW c \in Conn, Rollback(c) PROVE TypeOK'
  BY <1>11 DEF Rollback, At, Go, Released, TypeOK, PC, faults, redis
<1>12. ASSUME NEW c \in Conn, Adopt(c) PROVE TypeOK'
  BY <1>12 DEF Adopt, At, Go, removeSession, findSession, TypeOK, PC, faults, redis
<1>13. ASSUME NEW c \in Conn, Refuse(c) PROVE TypeOK'
  BY <1>13 DEF Refuse, At, Go, TornDown, TypeOK, PC, faults, redis
<1>14. ASSUME NEW c \in Conn, Teardown(c) PROVE TypeOK'
  BY <1>14 DEF Teardown, TornDown, TypeOK, PC, faults, redis
<1>15. ASSUME NEW c \in Conn, Remove(c) PROVE TypeOK'
  BY <1>15 DEF Remove, removeSession, findSession, TypeOK, PC, faults, redis
<1>16. ASSUME NEW c \in Conn, Release(c) PROVE TypeOK'
  BY <1>16 DEF Release, Released, TypeOK, PC, faults, redis
<1>17. ASSUME NEW c \in Conn, LateSet(c) PROVE TypeOK'
  BY <1>17 DEF LateSet, TypeOK, PC, faults, redis
<1>18. ASSUME NEW c \in Conn, Heartbeat(c) PROVE TypeOK'
  BY <1>18 DEF Heartbeat, TypeOK, PC, faults, redis
<1>19. ASSUME NEW k \in Core, AcceptorClose(k) PROVE TypeOK'
  BY <1>19 DEF AcceptorClose, TornDown, TypeOK, PC, faults, redis
<1>20. ASSUME NEW k \in Core, CoreStop(k) PROVE TypeOK'
  BY <1>20 DEF CoreStop, TypeOK, PC, faults, redis
<1>21. ASSUME NEW k \in Core, CoreStopped(k) PROVE TypeOK'
  BY <1>21 DEF CoreStopped, TypeOK, PC, faults, redis
<1>22. ASSUME NEW k \in Core, Crash(k) PROVE TypeOK'
  BY <1>22 DEF Crash, TypeOK, PC, faults, redis
<1>23. CASE GoStale
  BY <1>23 DEF GoStale, TypeOK, PC, faults, redis
<1>24. CASE Expire
  BY <1>24 DEF Expire, TypeOK, PC, faults, redis
<1>25. CASE UNCHANGED vars
  BY <1>25 DEF vars, faults, redis, TypeOK, PC
<1> QED
  BY <1>1, <1>2, <1>3, <1>4, <1>5, <1>6, <1>7, <1>8, <1>9, <1>10, <1>11, <1>12, <1>13, <1>14,
     <1>15, <1>16, <1>17, <1>18, <1>19, <1>20, <1>21, <1>22, <1>23, <1>24, <1>25 DEF Next, RunStep,
     TeardownStep

\* Sessions and consumers exist only while run() is past the step that made them.
LEMMA PcStep == ASSUME TypeOK, PcInv, Next \/ UNCHANGED vars PROVE PcInv'
<1> USE SessionsAssumption
<1>1. ASSUME NEW c \in Conn, Open(c) PROVE PcInv'
  BY <1>1 DEF Open, Go, TypeOK, PcInv, PC, faults, redis
<1>2. ASSUME NEW c \in Conn, HelloRefused(c) PROVE PcInv'
  BY <1>2 DEF HelloRefused, At, Go, TypeOK, PcInv, PC, faults, redis
<1>3. ASSUME NEW c \in Conn, HelloReclaim(c) PROVE PcInv'
  BY <1>3 DEF HelloReclaim, At, Go, TypeOK, PcInv, PC, faults, redis
<1>4. ASSUME NEW c \in Conn, NextEpoch(c) PROVE PcInv'
  BY <1>4 DEF NextEpoch, At, Go, TypeOK, PcInv, PC, faults, redis
<1>5. ASSUME NEW c \in Conn, AddUdsSession(c) PROVE PcInv'
  BY <1>5 DEF AddUdsSession, At, Go, TypeOK, PcInv, PC, faults, redis
<1>6. ASSUME NEW c \in Conn, ClaimPresence(c) PROVE PcInv'
  BY <1>6 DEF ClaimPresence, At, Go, TypeOK, PcInv, PC, faults, redis
<1>7. ASSUME NEW c \in Conn, ClaimTimeout(c) PROVE PcInv'
  BY <1>7 DEF ClaimTimeout, At, Go, TypeOK, PcInv, PC, faults, redis
<1>8. ASSUME NEW c \in Conn, Subscribe(c) PROVE PcInv'
  BY <1>8 DEF Subscribe, At, Go, TypeOK, PcInv, PC, faults, redis
<1>9. ASSUME NEW c \in Conn, SubscribeFail(c) PROVE PcInv'
  BY <1>9 DEF SubscribeFail, At, Go, Released, TypeOK, PcInv, PC, faults, redis
<1>10. ASSUME NEW c \in Conn, Register(c) PROVE PcInv'
  BY <1>10 DEF Register, At, Go, TypeOK, PcInv, PC, faults, redis
<1>11. ASSUME NEW c \in Conn, Rollback(c) PROVE PcInv'
  BY <1>11 DEF Rollback, At, Go, Released, TypeOK, PcInv, PC, faults, redis
<1>12. ASSUME NEW c \in Conn, Adopt(c) PROVE PcInv'
  BY <1>12 DEF Adopt, At, Go, removeSession, findSession, TypeOK, PcInv, PC, faults, redis
<1>13. ASSUME NEW c \in Conn, Refuse(c) PROVE PcInv'
  BY <1>13 DEF Refuse, At, Go, TornDown, TypeOK, PcInv, PC, faults, redis
<1>14. ASSUME NEW c \in Conn, Teardown(c) PROVE PcInv'
  BY <1>14 DEF Teardown, TornDown, TypeOK, PcInv, PC, faults, redis
<1>15. ASSUME NEW c \in Conn, Remove(c) PROVE PcInv'
  BY <1>15 DEF Remove, removeSession, findSession, TypeOK, PcInv, PC, faults, redis
<1>16. ASSUME NEW c \in Conn, Release(c) PROVE PcInv'
  BY <1>16 DEF Release, Released, TypeOK, PcInv, PC, faults, redis
<1>17. ASSUME NEW c \in Conn, LateSet(c) PROVE PcInv'
  BY <1>17 DEF LateSet, TypeOK, PcInv, PC, faults, redis
<1>18. ASSUME NEW c \in Conn, Heartbeat(c) PROVE PcInv'
  BY <1>18 DEF Heartbeat, TypeOK, PcInv, PC, faults, redis
<1>19. ASSUME NEW k \in Core, AcceptorClose(k) PROVE PcInv'
  BY <1>19 DEF AcceptorClose, TornDown, TypeOK, PcInv, PC, faults, redis
<1>20. ASSUME NEW k \in Core, CoreStop(k) PROVE PcInv'
  BY <1>20 DEF CoreStop, TypeOK, PcInv, PC, faults, redis
<1>21. ASSUME NEW k \in Core, CoreStopped(k) PROVE PcInv'
  BY <1>21 DEF CoreStopped, TypeOK, PcInv, PC, faults, redis
<1>22. ASSUME NEW k \in Core, Crash(k) PROVE PcInv'
  BY <1>22 DEF Crash, TypeOK, PcInv, PC, faults, redis
<1>23. CASE GoStale
  BY <1>23 DEF GoStale, TypeOK, PcInv, PC, faults, redis
<1>24. CASE Expire
  BY <1>24 DEF Expire, TypeOK, PcInv, PC, faults, redis
<1>25. CASE UNCHANGED vars
  BY <1>25 DEF vars, faults, redis, TypeOK, PcInv, PC
<1> QED
  BY <1>1, <1>2, <1>3, <1>4, <1>5, <1>6, <1>7, <1>8, <1>9, <1>10, <1>11, <1>12, <1>13, <1>14,
     <1>15, <1>16, <1>17, <1>18, <1>19, <1>20, <1>21, <1>22, <1>23, <1>24, <1>25 DEF Next, RunStep,
     TeardownStep

\* A claim is made on a free key only, and given up with the key.
LEMMA ClaimStep == ASSUME TypeOK, PcInv, ClaimInv, Next \/ UNCHANGED vars PROVE ClaimInv'
<1> USE SessionsAssumption
<1>1. ASSUME NEW c \in Conn, Open(c) PROVE ClaimInv'
  BY <1>1 DEF Open, Go, TypeOK, PcInv, ClaimInv, Running, PC, faults, redis
<1>2. ASSUME NEW c \in Conn, HelloRefused(c) PROVE ClaimInv'
  BY <1>2 DEF HelloRefused, At, Go, TypeOK, PcInv, ClaimInv, Running, PC, faults, redis
<1>3. ASSUME NEW c \in Conn, HelloReclaim(c) PROVE ClaimInv'
  BY <1>3 DEF HelloReclaim, ReclaimDeletes, At, Go, TypeOK, ClaimInv, Running, redis, faults
<1>4. ASSUME NEW c \in Conn, NextEpoch(c) PROVE ClaimInv'
  BY <1>4 DEF NextEpoch, At, Go, TypeOK, PcInv, ClaimInv, Running, PC, faults, redis
<1>5. ASSUME NEW c \in Conn, AddUdsSession(c) PROVE ClaimInv'
  BY <1>5 DEF AddUdsSession, At, Go, TypeOK, PcInv, ClaimInv, Running, PC, faults, redis
<1>6. ASSUME NEW c \in Conn, ClaimPresence(c) PROVE ClaimInv'
  BY <1>6 DEF ClaimPresence, At, Go, TypeOK, PcInv, ClaimInv, Running, PC, faults, redis
<1>7. ASSUME NEW c \in Conn, ClaimTimeout(c) PROVE ClaimInv'
  BY <1>7 DEF ClaimTimeout, At, Go, TypeOK, PcInv, ClaimInv, Running, PC, faults, redis
<1>8. ASSUME NEW c \in Conn, Subscribe(c) PROVE ClaimInv'
  BY <1>8 DEF Subscribe, At, Go, TypeOK, PcInv, ClaimInv, Running, PC, faults, redis
<1>9. ASSUME NEW c \in Conn, SubscribeFail(c) PROVE ClaimInv'
  BY <1>9 DEF SubscribeFail, At, Go, Released, TypeOK, PcInv, ClaimInv, Running, PC, faults, redis
<1>10. ASSUME NEW c \in Conn, Register(c) PROVE ClaimInv'
  BY <1>10 DEF Register, At, Go, TypeOK, PcInv, ClaimInv, Running, PC, faults, redis
<1>11. ASSUME NEW c \in Conn, Rollback(c) PROVE ClaimInv'
  BY <1>11 DEF Rollback, At, Go, Released, TypeOK, PcInv, ClaimInv, Running, PC, faults, redis
<1>12. ASSUME NEW c \in Conn, Adopt(c) PROVE ClaimInv'
  BY <1>12 DEF Adopt, At, Go, removeSession, findSession, TypeOK, PcInv, ClaimInv, Running, PC,
     faults, redis
<1>13. ASSUME NEW c \in Conn, Refuse(c) PROVE ClaimInv'
  BY <1>13 DEF Refuse, At, Go, TornDown, TypeOK, PcInv, ClaimInv, Running, PC, faults, redis
<1>14. ASSUME NEW c \in Conn, Teardown(c) PROVE ClaimInv'
  BY <1>14 DEF Teardown, TornDown, TypeOK, PcInv, ClaimInv, Running, PC, faults, redis
<1>15. ASSUME NEW c \in Conn, Remove(c) PROVE ClaimInv'
  BY <1>15 DEF Remove, removeSession, findSession, TypeOK, PcInv, ClaimInv, Running, PC, faults,
     redis
<1>16. ASSUME NEW c \in Conn, Release(c) PROVE ClaimInv'
  BY <1>16 DEF Release, Released, TypeOK, PcInv, ClaimInv, Running, PC, faults, redis
<1>17. ASSUME NEW c \in Conn, LateSet(c) PROVE ClaimInv'
  BY <1>17 DEF LateSet, TypeOK, PcInv, ClaimInv, Running, PC, faults, redis
<1>18. ASSUME NEW c \in Conn, Heartbeat(c) PROVE ClaimInv'
  BY <1>18 DEF Heartbeat, TypeOK, PcInv, ClaimInv, Running, PC, faults, redis
<1>19. ASSUME NEW k \in Core, AcceptorClose(k) PROVE ClaimInv'
  BY <1>19 DEF AcceptorClose, TornDown, TypeOK, PcInv, ClaimInv, Running, PC, faults, redis
<1>20. ASSUME NEW k \in Core, CoreStop(k) PROVE ClaimInv'
  BY <1>20 DEF CoreStop, TypeOK, PcInv, ClaimInv, Running, PC, faults, redis
<1>21. ASSUME NEW k \in Core, CoreStopped(k) PROVE ClaimInv'
  BY <1>21 DEF CoreStopped, TypeOK, PcInv, ClaimInv, Running, PC, faults, redis
<1>22. ASSUME NEW k \in Core, Crash(k) PROVE ClaimInv'
  <2>1. ASSUME NEW c \in Conn, Running(Home[c])', pc'[c] = "subscribe", c \notin ToolOnly
        PROVE  c \in claimed'
    BY <1>22, <2>1 DEF Crash, TypeOK, ClaimInv, Running, Conns
  <2> QED
    BY <1>22, <2>1 DEF Crash, TypeOK, ClaimInv, Conns, redis, faults
<1>23. CASE GoStale
  <2>1. losses' # 0 \/ (losses' = losses /\ key \notin claimed)
    BY <1>23 DEF GoStale, TypeOK
  <2>2. losses' = 0 => \A c \in claimed' : key' = c /\ ~stale'
    BY <1>23, <2>1 DEF GoStale, TypeOK, ClaimInv
  <2> QED
    BY <1>23, <2>2 DEF GoStale, TypeOK, ClaimInv, Running
<1>24. CASE Expire
  BY <1>24 DEF Expire, TypeOK, PcInv, ClaimInv, Running, PC, faults, redis
<1>25. CASE UNCHANGED vars
  BY <1>25 DEF vars, faults, redis, TypeOK, PcInv, ClaimInv, Running, PC
<1> QED
  BY <1>1, <1>2, <1>3, <1>4, <1>5, <1>6, <1>7, <1>8, <1>9, <1>10, <1>11, <1>12, <1>13, <1>14,
     <1>15, <1>16, <1>17, <1>18, <1>19, <1>20, <1>21, <1>22, <1>23, <1>24, <1>25 DEF Next, RunStep,
     TeardownStep

\* Epochs are drawn from one counter, so no two connections share one.
LEMMA EpochStep == ASSUME TypeOK, PcInv, EpochInv, Next \/ UNCHANGED vars PROVE EpochInv'
<1> USE SessionsAssumption
<1>1. ASSUME NEW c \in Conn, Open(c) PROVE EpochInv'
  BY <1>1 DEF Open, Go, TypeOK, EpochInv
<1>2. ASSUME NEW c \in Conn, HelloRefused(c) PROVE EpochInv'
  BY <1>2 DEF HelloRefused, At, Go, TypeOK, EpochInv
<1>3. ASSUME NEW c \in Conn, HelloReclaim(c) PROVE EpochInv'
  BY <1>3 DEF HelloReclaim, At, Go, TypeOK, EpochInv
<1>4. ASSUME NEW c \in Conn, NextEpoch(c) PROVE EpochInv'
  BY <1>4 DEF NextEpoch, At, Go, TypeOK, EpochInv
<1>5. ASSUME NEW c \in Conn, AddUdsSession(c) PROVE EpochInv'
  BY <1>5 DEF AddUdsSession, At, Go, TypeOK, EpochInv
<1>6. ASSUME NEW c \in Conn, ClaimPresence(c) PROVE EpochInv'
  BY <1>6 DEF ClaimPresence, At, Go, TypeOK, EpochInv
<1>7. ASSUME NEW c \in Conn, ClaimTimeout(c) PROVE EpochInv'
  BY <1>7 DEF ClaimTimeout, At, Go, TypeOK, EpochInv
<1>8. ASSUME NEW c \in Conn, Subscribe(c) PROVE EpochInv'
  BY <1>8 DEF Subscribe, At, Go, TypeOK, EpochInv
<1>9. ASSUME NEW c \in Conn, SubscribeFail(c) PROVE EpochInv'
  BY <1>9 DEF SubscribeFail, At, Go, Released, TypeOK, EpochInv
<1>10. ASSUME NEW c \in Conn, Register(c) PROVE EpochInv'
  BY <1>10 DEF Register, At, Go, TypeOK, EpochInv
<1>11. ASSUME NEW c \in Conn, Rollback(c) PROVE EpochInv'
  BY <1>11 DEF Rollback, At, Go, Released, TypeOK, EpochInv
<1>12. ASSUME NEW c \in Conn, Adopt(c) PROVE EpochInv'
  BY <1>12 DEF Adopt, At, Go, removeSession, findSession, TypeOK, EpochInv
<1>13. ASSUME NEW c \in Conn, Refuse(c) PROVE EpochInv'
  BY <1>13 DEF Refuse, At, Go, TornDown, TypeOK, EpochInv
<1>14. ASSUME NEW c \in Conn, Teardown(c) PROVE EpochInv'
  BY <1>14 DEF Teardown, TornDown, TypeOK, EpochInv
<1>15. ASSUME NEW c \in Conn, Remove(c) PROVE EpochInv'
  BY <1>15 DEF Remove, removeSession, findSession, TypeOK, EpochInv
<1>16. ASSUME NEW c \in Conn, Release(c) PROVE EpochInv'
  BY <1>16 DEF Release, Released, TypeOK, EpochInv
<1>17. ASSUME NEW c \in Conn, LateSet(c) PROVE EpochInv'
  BY <1>17 DEF LateSet, TypeOK, EpochInv
<1>18. ASSUME NEW c \in Conn, Heartbeat(c) PROVE EpochInv'
  BY <1>18 DEF Heartbeat, TypeOK, EpochInv
<1>19. ASSUME NEW k \in Core, AcceptorClose(k) PROVE EpochInv'
  BY <1>19 DEF AcceptorClose, TornDown, Conns, TypeOK, EpochInv
<1>20. ASSUME NEW k \in Core, CoreStop(k) PROVE EpochInv'
  BY <1>20 DEF CoreStop, Conns, TypeOK, EpochInv
<1>21. ASSUME NEW k \in Core, CoreStopped(k) PROVE EpochInv'
  BY <1>21 DEF CoreStopped, Conns, TypeOK, EpochInv
<1>22. ASSUME NEW k \in Core, Crash(k) PROVE EpochInv'
  BY <1>22 DEF Crash, Conns, TypeOK, EpochInv
<1>23. CASE GoStale
  BY <1>23 DEF GoStale, TypeOK, EpochInv
<1>24. CASE Expire
  BY <1>24 DEF Expire, TypeOK, EpochInv
<1>25. CASE UNCHANGED vars
  BY <1>25 DEF vars, faults, redis, TypeOK, EpochInv
<1> QED
  BY <1>1, <1>2, <1>3, <1>4, <1>5, <1>6, <1>7, <1>8, <1>9, <1>10, <1>11, <1>12, <1>13, <1>14,
     <1>15, <1>16, <1>17, <1>18, <1>19, <1>20, <1>21, <1>22, <1>23, <1>24, <1>25
  DEF Next, RunStep, TeardownStep

\* teardown() closes a connection before it leaves the live set.
LEMMA LiveStep == ASSUME TypeOK, EpochInv, LiveInv, Next \/ UNCHANGED vars PROVE LiveInv'
<1> USE SessionsAssumption
<1>1. ASSUME NEW c \in Conn, Open(c) PROVE LiveInv'
  BY <1>1 DEF Open, Go, TypeOK, LiveInv
<1>2. ASSUME NEW c \in Conn, HelloRefused(c) PROVE LiveInv'
  BY <1>2 DEF HelloRefused, At, Go, TypeOK, LiveInv
<1>3. ASSUME NEW c \in Conn, HelloReclaim(c) PROVE LiveInv'
  BY <1>3 DEF HelloReclaim, At, Go, TypeOK, LiveInv
<1>4. ASSUME NEW c \in Conn, NextEpoch(c) PROVE LiveInv'
  BY <1>4 DEF NextEpoch, At, Go, TypeOK, LiveInv
<1>5. ASSUME NEW c \in Conn, AddUdsSession(c) PROVE LiveInv'
  BY <1>5 DEF AddUdsSession, At, Go, TypeOK, LiveInv
<1>6. ASSUME NEW c \in Conn, ClaimPresence(c) PROVE LiveInv'
  BY <1>6 DEF ClaimPresence, At, Go, TypeOK, LiveInv
<1>7. ASSUME NEW c \in Conn, ClaimTimeout(c) PROVE LiveInv'
  BY <1>7 DEF ClaimTimeout, At, Go, TypeOK, LiveInv
<1>8. ASSUME NEW c \in Conn, Subscribe(c) PROVE LiveInv'
  BY <1>8 DEF Subscribe, At, Go, TypeOK, LiveInv
<1>9. ASSUME NEW c \in Conn, SubscribeFail(c) PROVE LiveInv'
  BY <1>9 DEF SubscribeFail, At, Go, Released, TypeOK, LiveInv
<1>10. ASSUME NEW c \in Conn, Register(c) PROVE LiveInv'
  BY <1>10 DEF Register, At, Go, TypeOK, LiveInv
<1>11. ASSUME NEW c \in Conn, Rollback(c) PROVE LiveInv'
  BY <1>11 DEF Rollback, At, Go, Released, TypeOK, LiveInv
<1>12. ASSUME NEW c \in Conn, Adopt(c) PROVE LiveInv'
  BY <1>12 DEF Adopt, At, Go, removeSession, findSession, TypeOK, EpochInv, LiveInv
<1>13. ASSUME NEW c \in Conn, Refuse(c) PROVE LiveInv'
  BY <1>13 DEF Refuse, At, Go, TornDown, TypeOK, LiveInv
<1>14. ASSUME NEW c \in Conn, Teardown(c) PROVE LiveInv'
  BY <1>14 DEF Teardown, TornDown, TypeOK, LiveInv
<1>15. ASSUME NEW c \in Conn, Remove(c) PROVE LiveInv'
  BY <1>15 DEF Remove, removeSession, findSession, TypeOK, EpochInv, LiveInv
<1>16. ASSUME NEW c \in Conn, Release(c) PROVE LiveInv'
  BY <1>16 DEF Release, Released, TypeOK, LiveInv
<1>17. ASSUME NEW c \in Conn, LateSet(c) PROVE LiveInv'
  BY <1>17 DEF LateSet, TypeOK, LiveInv
<1>18. ASSUME NEW c \in Conn, Heartbeat(c) PROVE LiveInv'
  BY <1>18 DEF Heartbeat, TypeOK, LiveInv
<1>19. ASSUME NEW k \in Core, AcceptorClose(k) PROVE LiveInv'
  BY <1>19 DEF AcceptorClose, TornDown, Conns, TypeOK, LiveInv
<1>20. ASSUME NEW k \in Core, CoreStop(k) PROVE LiveInv'
  BY <1>20 DEF CoreStop, Conns, TypeOK, LiveInv
<1>21. ASSUME NEW k \in Core, CoreStopped(k) PROVE LiveInv'
  BY <1>21 DEF CoreStopped, Conns, TypeOK, LiveInv
<1>22. ASSUME NEW k \in Core, Crash(k) PROVE LiveInv'
  BY <1>22 DEF Crash, Conns, TypeOK, LiveInv
<1>23. CASE GoStale
  BY <1>23 DEF GoStale, TypeOK, LiveInv
<1>24. CASE Expire
  BY <1>24 DEF Expire, TypeOK, LiveInv
<1>25. CASE UNCHANGED vars
  BY <1>25 DEF vars, faults, redis, TypeOK, LiveInv
<1> QED
  BY <1>1, <1>2, <1>3, <1>4, <1>5, <1>6, <1>7, <1>8, <1>9, <1>10, <1>11, <1>12, <1>13, <1>14,
     <1>15, <1>16, <1>17, <1>18, <1>19, <1>20, <1>21, <1>22, <1>23, <1>24, <1>25
  DEF Next, RunStep, TeardownStep

\* A session leaves the map by its own epoch, when its connection has closed.
LEMMA BackStep ==
    ASSUME TypeOK, PcInv, EpochInv, LiveInv, BackInv, Next \/ UNCHANGED vars PROVE BackInv'
<1> USE SessionsAssumption
<1>1. ASSUME NEW c \in Conn, Open(c) PROVE BackInv'
  BY <1>1 DEF Open, Go, TypeOK, PcInv, EpochInv, LiveInv, BackInv, Running
<1>2. ASSUME NEW c \in Conn, HelloRefused(c) PROVE BackInv'
  BY <1>2 DEF HelloRefused, At, Go, TypeOK, PcInv, EpochInv, LiveInv, BackInv, Running
<1>3. ASSUME NEW c \in Conn, HelloReclaim(c) PROVE BackInv'
  BY <1>3 DEF HelloReclaim, At, Go, TypeOK, PcInv, EpochInv, LiveInv, BackInv, Running
<1>4. ASSUME NEW c \in Conn, NextEpoch(c) PROVE BackInv'
  BY <1>4 DEF NextEpoch, At, Go, TypeOK, PcInv, EpochInv, LiveInv, BackInv, Running
<1>5. ASSUME NEW c \in Conn, AddUdsSession(c) PROVE BackInv'
  BY <1>5 DEF AddUdsSession, At, Go, TypeOK, PcInv, EpochInv, LiveInv, BackInv, Running
<1>6. ASSUME NEW c \in Conn, ClaimPresence(c) PROVE BackInv'
  BY <1>6 DEF ClaimPresence, At, Go, TypeOK, PcInv, EpochInv, LiveInv, BackInv, Running
<1>7. ASSUME NEW c \in Conn, ClaimTimeout(c) PROVE BackInv'
  BY <1>7 DEF ClaimTimeout, At, Go, TypeOK, PcInv, EpochInv, LiveInv, BackInv, Running
<1>8. ASSUME NEW c \in Conn, Subscribe(c) PROVE BackInv'
  BY <1>8 DEF Subscribe, At, Go, TypeOK, PcInv, EpochInv, LiveInv, BackInv, Running
<1>9. ASSUME NEW c \in Conn, SubscribeFail(c) PROVE BackInv'
  BY <1>9 DEF SubscribeFail, At, Go, Released, TypeOK, PcInv, EpochInv, LiveInv, BackInv, Running
<1>10. ASSUME NEW c \in Conn, Register(c) PROVE BackInv'
  BY <1>10 DEF Register, At, Go, TypeOK, PcInv, EpochInv, LiveInv, BackInv, Running
<1>11. ASSUME NEW c \in Conn, Rollback(c) PROVE BackInv'
  BY <1>11 DEF Rollback, At, Go, Released, TypeOK, PcInv, EpochInv, LiveInv, BackInv, Running
<1>12. ASSUME NEW c \in Conn, Adopt(c) PROVE BackInv'
  BY <1>12 DEF Adopt, At, Go, removeSession, findSession, TypeOK, PcInv, EpochInv, LiveInv,
     BackInv, Running
<1>13. ASSUME NEW c \in Conn, Refuse(c) PROVE BackInv'
  BY <1>13 DEF Refuse, At, Go, TornDown, TypeOK, PcInv, EpochInv, LiveInv, BackInv, Running
<1>14. ASSUME NEW c \in Conn, Teardown(c) PROVE BackInv'
  BY <1>14 DEF Teardown, TornDown, TypeOK, PcInv, EpochInv, LiveInv, BackInv, Running
<1>15. ASSUME NEW c \in Conn, Remove(c) PROVE BackInv'
  BY <1>15 DEF Remove, removeSession, findSession, TypeOK, PcInv, EpochInv, LiveInv, BackInv,
     Running
<1>16. ASSUME NEW c \in Conn, Release(c) PROVE BackInv'
  BY <1>16 DEF Release, Released, TypeOK, PcInv, EpochInv, LiveInv, BackInv, Running
<1>17. ASSUME NEW c \in Conn, LateSet(c) PROVE BackInv'
  BY <1>17 DEF LateSet, TypeOK, PcInv, EpochInv, LiveInv, BackInv, Running
<1>18. ASSUME NEW c \in Conn, Heartbeat(c) PROVE BackInv'
  BY <1>18 DEF Heartbeat, TypeOK, PcInv, EpochInv, LiveInv, BackInv, Running
<1>19. ASSUME NEW k \in Core, AcceptorClose(k) PROVE BackInv'
  BY <1>19 DEF AcceptorClose, TornDown, Conns, TypeOK, PcInv, EpochInv, LiveInv, BackInv, Running
<1>20. ASSUME NEW k \in Core, CoreStop(k) PROVE BackInv'
  BY <1>20 DEF CoreStop, Conns, TypeOK, PcInv, EpochInv, LiveInv, BackInv, Running
<1>21. ASSUME NEW k \in Core, CoreStopped(k) PROVE BackInv'
  BY <1>21 DEF CoreStopped, Conns, TypeOK, PcInv, EpochInv, LiveInv, BackInv, Running
<1>22. ASSUME NEW k \in Core, Crash(k) PROVE BackInv'
  BY <1>22 DEF Crash, Conns, TypeOK, PcInv, EpochInv, LiveInv, BackInv, Running
<1>23. CASE GoStale
  BY <1>23 DEF GoStale, TypeOK, PcInv, EpochInv, LiveInv, BackInv, Running
<1>24. CASE Expire
  BY <1>24 DEF Expire, TypeOK, PcInv, EpochInv, LiveInv, BackInv, Running
<1>25. CASE UNCHANGED vars
  BY <1>25 DEF vars, faults, redis, TypeOK, PcInv, EpochInv, LiveInv, BackInv, Running
<1> QED
  BY <1>1, <1>2, <1>3, <1>4, <1>5, <1>6, <1>7, <1>8, <1>9, <1>10, <1>11, <1>12, <1>13, <1>14,
     <1>15, <1>16, <1>17, <1>18, <1>19, <1>20, <1>21, <1>22, <1>23, <1>24, <1>25
  DEF Next, RunStep, TeardownStep

\* A claim is handed from the add to the session and from the session to its teardown.
LEMMA KeyStep == ASSUME TypeOK, PcInv, ClaimInv, KeyInv, Next \/ UNCHANGED vars PROVE KeyInv'
<1> USE SessionsAssumption
<1>1. ASSUME NEW c \in Conn, Open(c) PROVE KeyInv'
  BY <1>1 DEF Open, Go, TypeOK, PcInv, KeyInv, Adding, Running, redis, faults
<1>2. ASSUME NEW c \in Conn, HelloRefused(c) PROVE KeyInv'
  BY <1>2 DEF HelloRefused, At, Go, TypeOK, PcInv, KeyInv, Adding, Running, redis, faults
<1>3. ASSUME NEW c \in Conn, HelloReclaim(c) PROVE KeyInv'
  BY <1>3 DEF HelloReclaim, At, Go, TypeOK, PcInv, KeyInv, Adding, Running, redis, faults,
     ReclaimDeletes
<1>4. ASSUME NEW c \in Conn, NextEpoch(c) PROVE KeyInv'
  BY <1>4 DEF NextEpoch, At, Go, TypeOK, PcInv, KeyInv, Adding, Running, redis, faults
<1>5. ASSUME NEW c \in Conn, AddUdsSession(c) PROVE KeyInv'
  BY <1>5 DEF AddUdsSession, At, Go, TypeOK, PcInv, KeyInv, Adding, Running, redis, faults
<1>6. ASSUME NEW c \in Conn, ClaimPresence(c) PROVE KeyInv'
  BY <1>6 DEF ClaimPresence, At, Go, TypeOK, PcInv, KeyInv, Adding, Running, redis, faults
<1>7. ASSUME NEW c \in Conn, ClaimTimeout(c) PROVE KeyInv'
  <2>1. late' # 0
    BY <1>7 DEF ClaimTimeout, TypeOK
  <2> QED
    BY <1>7, <2>1 DEF ClaimTimeout, At, Go, TypeOK, KeyInv, Adding, Running
<1>8. ASSUME NEW c \in Conn, Subscribe(c) PROVE KeyInv'
  BY <1>8 DEF Subscribe, At, Go, TypeOK, PcInv, KeyInv, Adding, Running, redis, faults
<1>9. ASSUME NEW c \in Conn, SubscribeFail(c) PROVE KeyInv'
  BY <1>9 DEF SubscribeFail, At, Go, Released, TypeOK, PcInv, KeyInv, Adding, Running, redis, faults
<1>10. ASSUME NEW c \in Conn, Register(c) PROVE KeyInv'
  BY <1>10 DEF Register, At, Go, TypeOK, PcInv, KeyInv, Adding, Running, redis, faults
<1>11. ASSUME NEW c \in Conn, Rollback(c) PROVE KeyInv'
  BY <1>11 DEF Rollback, At, Go, Released, TypeOK, PcInv, KeyInv, Adding, Running, redis, faults
<1>12. ASSUME NEW c \in Conn, Adopt(c) PROVE KeyInv'
  BY <1>12 DEF Adopt, At, Go, removeSession, findSession, TypeOK, PcInv, KeyInv, Adding,
     Running, redis, faults
<1>13. ASSUME NEW c \in Conn, Refuse(c) PROVE KeyInv'
  BY <1>13 DEF Refuse, At, Go, TornDown, TypeOK, PcInv, KeyInv, Adding, Running, redis, faults
<1>14. ASSUME NEW c \in Conn, Teardown(c) PROVE KeyInv'
  BY <1>14 DEF Teardown, TornDown, TypeOK, PcInv, KeyInv, Adding, Running, redis, faults
<1>15. ASSUME NEW c \in Conn, Remove(c) PROVE KeyInv'
  BY <1>15 DEF Remove, removeSession, findSession, TypeOK, PcInv, KeyInv, Adding, Running,
     redis, faults
<1>16. ASSUME NEW c \in Conn, Release(c) PROVE KeyInv'
  BY <1>16 DEF Release, Released, TypeOK, PcInv, KeyInv, Adding, Running, redis, faults
<1>17. ASSUME NEW c \in Conn, LateSet(c) PROVE KeyInv'
  BY <1>17 DEF LateSet, TypeOK, PcInv, KeyInv, Adding, Running, redis, faults
<1>18. ASSUME NEW c \in Conn, Heartbeat(c) PROVE KeyInv'
  BY <1>18 DEF Heartbeat, TypeOK, PcInv, KeyInv, Adding, Running, redis, faults
<1>19. ASSUME NEW k \in Core, AcceptorClose(k) PROVE KeyInv'
  BY <1>19 DEF AcceptorClose, TornDown, Conns, TypeOK, PcInv, KeyInv, Adding, Running, redis, faults
<1>20. ASSUME NEW k \in Core, CoreStop(k) PROVE KeyInv'
  BY <1>20 DEF CoreStop, Conns, TypeOK, PcInv, KeyInv, Adding, Running, redis, faults
<1>21. ASSUME NEW k \in Core, CoreStopped(k) PROVE KeyInv'
  BY <1>21 DEF CoreStopped, Conns, TypeOK, PcInv, KeyInv, Adding, Running, redis, faults,
     inflightAdds
<1>22. ASSUME NEW k \in Core, Crash(k) PROVE KeyInv'
  BY <1>22 DEF Crash, Conns, TypeOK, PcInv, KeyInv, Adding, Running, redis, faults
<1>23. CASE GoStale
  BY <1>23 DEF GoStale, TypeOK, PcInv, KeyInv, Adding, Running, redis, faults
<1>24. CASE Expire
  BY <1>24 DEF Expire, TypeOK, PcInv, KeyInv, Adding, Running, redis, faults
<1>25. CASE UNCHANGED vars
  BY <1>25 DEF vars, faults, redis, TypeOK, PcInv, KeyInv, Adding, Running
<1> QED
  BY <1>1, <1>2, <1>3, <1>4, <1>5, <1>6, <1>7, <1>8, <1>9, <1>10, <1>11, <1>12, <1>13, <1>14,
     <1>15, <1>16, <1>17, <1>18, <1>19, <1>20, <1>21, <1>22, <1>23, <1>24, <1>25
  DEF Next, RunStep, TeardownStep

\* The invariant holds in the initial state.
LEMMA InitInv == Init => IInv
<1> SUFFICES ASSUME Init PROVE IInv
  OBVIOUS
<1>1. TypeOK
  <2>1. late \in 0..MaxLate /\ startFaults \in 0..MaxStartFaults /\ losses \in 0..MaxLoss
    BY SessionsAssumption DEF Init
  <2>2. pc \in [Conn -> PC] /\ core \in [Core -> {"up", "closing", "stopping", "stopped", "crashed"}]
    BY DEF Init, PC
  <2>3. closed \in [Conn -> BOOLEAN] /\ epoch \in [Conn -> Nat] /\ lastEpoch \in Nat
    BY DEF Init
  <2> QED
    BY <2>1, <2>2, <2>3 DEF Init, TypeOK
<1>2. PcInv /\ ClaimInv /\ LiveInv /\ BackInv /\ KeyInv
  BY DEF Init, PcInv, ClaimInv, LiveInv, BackInv, KeyInv
<1>3. EpochInv
  BY DEF Init, EpochInv
<1> QED
  BY <1>1, <1>2, <1>3 DEF IInv

\* IInv is an invariant of the sessions.
LEMMA Invariance == Spec => []IInv
<1>1. IInv /\ [Next]_vars => IInv'
  BY TypeStep, PcStep, ClaimStep, EpochStep, LiveStep, BackStep, KeyStep DEF IInv
<1> QED
  BY InitInv, <1>1, PTL DEF Spec

------------------------------------------------------------------------------
\* Types hold throughout, and a session that is being stopped is out of the map.
THEOREM TypeCorrect == Spec => []TypeOK
<1>1. IInv => TypeOK
  BY DEF IInv
<1> QED
  BY Invariance, <1>1, PTL

\* When every live holder refreshes its key in time, no two channels of the agent ever
\* consume its durable inbox, however many cores, connections, failed starts, claims
\* executed late, shutdowns and crashes there are.
THEOREM OneConsumerHolds == Spec => []OneConsumer
<1>1. IInv => OneConsumer
  BY DEF IInv, ClaimInv, OneConsumer
<1> QED
  BY Invariance, <1>1, PTL

\* A client that was told {t:ok} and has not closed has a registered session whose inbox
\* is consumed, for any number of connections and failures of any kind.
THEOREM SessionBackedHolds == Spec => []SessionBacked
<1>1. IInv => SessionBacked
  BY DEF IInv, TypeOK, BackInv, SessionBacked
<1> QED
  BY Invariance, <1>1, PTL

\* When no claim times out, the presence key is always held by a live claim that will be
\* released, or was left by a core that crashed.
THEOREM NoOrphanKeyHolds == Spec => []NoOrphanKey
<1>1. IInv => NoOrphanKey
  BY DEF IInv, KeyInv, NoOrphanKey
<1> QED
  BY Invariance, <1>1, PTL

\* Told clients and the presence key: both invariants together.
THEOREM SessionsBackedHolds == Spec => []SessionsBacked
BY SessionBackedHolds, NoOrphanKeyHolds, PTL DEF SessionsBacked

\* Only the close of its own connection or the end of its core takes a session out of the
\* map: removeSession() of another connection, older, newer or tool-only, never does.
THEOREM NoForeignRemovalHolds == Spec => NoForeignRemoval
<1>1. ASSUME IInv, [Next]_vars, NEW c \in sessions, c \notin sessions'
      PROVE  closed'[c] \/ ~Running(Home[c])'
  <2>1. ASSUME NEW d \in Conn, Adopt(d) \/ Remove(d)
        PROVE  closed'[c]
    BY <1>1, <2>1 DEF IInv, TypeOK, EpochInv, Adopt, At, Remove, removeSession, findSession
  <2>2. ASSUME NEW k \in Core, CoreStopped(k) \/ Crash(k)
        PROVE  ~Running(Home[c])'
    BY <1>1, <2>2, SessionsAssumption DEF IInv, TypeOK, CoreStopped, Crash, Conns, Running
  <2>3. ASSUME NEW d \in Conn,
               \/ Open(d) \/ HelloRefused(d) \/ HelloReclaim(d) \/ NextEpoch(d)
               \/ AddUdsSession(d) \/ ClaimPresence(d) \/ ClaimTimeout(d) \/ Subscribe(d)
               \/ SubscribeFail(d) \/ Register(d) \/ Rollback(d) \/ Refuse(d)
               \/ Teardown(d) \/ Release(d) \/ LateSet(d) \/ Heartbeat(d)
        PROVE  FALSE
    BY <1>1, <2>3 DEF Open, HelloRefused, HelloReclaim, NextEpoch, AddUdsSession, ClaimPresence,
       ClaimTimeout, Subscribe, SubscribeFail, Register, Rollback, Refuse, Teardown, Release,
       LateSet, Heartbeat
  <2>4. ASSUME NEW k \in Core, AcceptorClose(k) \/ CoreStop(k)
        PROVE  FALSE
    BY <1>1, <2>4 DEF AcceptorClose, CoreStop
  <2>5. ~(GoStale \/ Expire \/ UNCHANGED vars)
    BY <1>1 DEF GoStale, Expire, vars
  <2> QED
    BY <1>1, <2>1, <2>2, <2>3, <2>4, <2>5 DEF Next, RunStep, TeardownStep
<1>2. IInv /\ [Next]_vars
      => [\A c \in sessions : c \in sessions' \/ closed'[c] \/ ~Running(Home[c])']_vars
  BY <1>1
<1> QED
  BY Invariance, <1>2, PTL DEF Spec, NoForeignRemoval

-----------------------------------------------------------------------------
(* CoreBoot: BootSafe for any number of addSession() calls and agents, and any number of failed *)
(* boots: the phase of the boot and of the stop determine which connections are open, and a     *)
(* channel in flight or in the map pins them.                                                   *)


Cold == ~coreRedis /\ ~presence /\ ~statusPlane /\ ~started
Empty == nc = 0 /\ ncPublish = 0 /\ ncControl = 0 /\ open = {} /\ toDrain = {}
Full == open = Boot!Pool /\ {nc, ncPublish, ncControl} \subseteq open /\ toDrain = {} /\ coreRedis

\* What the core holds in each phase of _doStart().
BootInv ==
    /\ boot \in {"none", "consume"} => Empty /\ Cold
    /\ boot \in {"publish", "control"} =>
          open = Boot!Pool /\ nc \in open /\ ncControl = 0 /\ toDrain = {} /\ Cold
    /\ boot = "publish" => ncPublish = 0
    /\ boot = "control" => ncPublish \in open
    /\ boot = "undo" => toDrain = open /\ open \subseteq Boot!Pool /\ Cold
    /\ boot = "claim" => Full /\ presence /\ ~statusPlane /\ ~started

\* What it holds in each phase of _doStop(), which lets a boot settle first.
BeforeDrain == {"none", "start", "adds", "presence", "sessions"}
StopInv ==
    /\ stopP \notin {"none", "start"} => boot \in {"none", "up"}
    /\ boot = "up" /\ stopP \in BeforeDrain => Full /\ started
    /\ boot = "up" /\ stopP = "drain" =>
          toDrain = open /\ open \subseteq Boot!Pool /\ coreRedis /\ started
    /\ boot = "up" /\ stopP = "done" => Empty /\ Cold
    /\ statusPlane => stopP \in {"none", "start", "adds"}
    /\ presence => stopP \in {"none", "start", "adds", "presence"}
    /\ ~redrained

\* An add in flight, and a registered session, keep the core up: stop() waits for the first and
\* stops the second.
AddInv ==
    /\ \A a \in Boot!inflightAdds :
          bus[a] = Boot!Pool /\ boot = "up" /\ stopP \in {"none", "start", "adds"}
    /\ \A a \in Add : add[a] = "in" =>
          agentSessions[agentOf[a]] = a /\ bus[a] = Boot!Pool /\ boot = "up" /\ stopP \in BeforeDrain
    /\ \A g \in Agent : Boot!hasOwningSession(g) =>
          add[agentSessions[g]] = "in" /\ agentOf[agentSessions[g]] = g
    /\ \A a \in up : add[a] \in {"ready", "rollback", "in", "removing"}

Inv == Boot!TypeOK /\ BootInv /\ StopInv /\ AddInv

LEMMA InvSafe == ASSUME Boot!CoreBootAssumption, Inv PROVE Boot!BootSafe
<1>1. Boot!NothingLeaks
    <2>1. open \subseteq Boot!Pool
        BY DEF Inv, Boot!TypeOK, BootInv, StopInv, Empty, Full, BeforeDrain
    <2>2. boot = "none" \/ stopP = "done" => Empty /\ Cold
        BY DEF Inv, Boot!TypeOK, BootInv, StopInv
    <2>3. presence => coreRedis
        BY DEF Inv, Boot!TypeOK, BootInv, StopInv, Full, BeforeDrain, Cold
    <2>4. statusPlane => ncControl \in open
        BY DEF Inv, Boot!TypeOK, BootInv, StopInv, Full, BeforeDrain, Cold
    <2> QED BY <2>1, <2>2, <2>3, <2>4 DEF Boot!NothingLeaks, Empty, Cold
<1>2. Boot!DrainedOnce
    BY DEF Inv, StopInv, Boot!DrainedOnce
<1>3. Boot!BusOutlivesChannels
    <2> SUFFICES ASSUME NEW a \in up, add[a] # "removing"
                 PROVE  bus[a] \subseteq open /\ bus[a] # {} /\ coreRedis
        BY DEF Boot!BusOutlivesChannels
    <2>1. a \in Add /\ (a \in Boot!inflightAdds \/ add[a] = "in")
        BY DEF Inv, Boot!TypeOK, AddInv, Boot!inflightAdds
    <2>2. bus[a] = Boot!Pool /\ boot = "up" /\ stopP \in BeforeDrain
        BY <2>1 DEF Inv, AddInv, BeforeDrain
    <2> QED BY <2>2 DEF Inv, StopInv, Full
<1>4. Boot!NoStrandedChannel
    BY DEF Inv, Boot!TypeOK, AddInv, Boot!inflightAdds, Boot!NoStrandedChannel
<1> QED BY <1>1, <1>2, <1>3, <1>4 DEF Boot!BootSafe

LEMMA BootInitInv == ASSUME Boot!CoreBootAssumption, Boot!Init PROVE Inv
<1>1. Boot!TypeOK
    BY DEF Boot!CoreBootAssumption, Boot!Init, Boot!TypeOK
<1>2. BootInv /\ StopInv
    BY DEF Boot!Init, BootInv, StopInv, Empty, Cold
<1>3. AddInv
    BY DEF Boot!Init, AddInv, Boot!inflightAdds, Boot!hasOwningSession
<1> QED BY <1>1, <1>2, <1>3 DEF Inv

-----------------------------------------------------------------------------
(* _doStart() *)

\* While the core is not up there is no add in flight, no session and so nothing to pin.
LEMMA NotUp ==
    ASSUME Boot!CoreBootAssumption, Inv, boot # "up"
    PROVE  /\ Boot!inflightAdds = {} /\ \A a \in Add : add[a] # "in"
           /\ \A g \in Agent : ~Boot!hasOwningSession(g)
BY DEF Inv, Boot!TypeOK, AddInv, Boot!hasOwningSession

\* So AddInv outlives every step of the boot, which leaves the table alone.
LEMMA BootKeepsAdds ==
    ASSUME Boot!CoreBootAssumption, Inv, boot # "up", UNCHANGED Boot!table
    PROVE  AddInv'
<1>1. /\ Boot!inflightAdds = {} /\ \A a \in Add : add[a] # "in"
      /\ \A g \in Agent : ~Boot!hasOwningSession(g)
    BY NotUp
<1>2. UNCHANGED <<add, bus, up, agentSessions>>
    BY DEF Boot!table
<1> QED BY <1>1, <1>2 DEF Inv, AddInv, Boot!inflightAdds, Boot!hasOwningSession

LEMMA StartInv == ASSUME Boot!CoreBootAssumption, Inv, Boot!Start PROVE Inv'
<1>1. UNCHANGED <<natsPoolSize, failures, stopP, nc, ncPublish, ncControl, opened, open, toDrain,
                  redrained, coreRedis, presence, statusPlane, started, add, bus, up, agentSessions>>
      /\ boot = "none" /\ boot' = "consume" /\ stopP = "none"
    BY DEF Boot!Start, Boot!conns, Boot!parts, Boot!table, Boot!stopping
<1>2. Boot!TypeOK'
    BY <1>1 DEF Inv, Boot!TypeOK
<1>3. BootInv' /\ StopInv'
    BY <1>1 DEF Inv, BootInv, StopInv, Empty, Cold
<1>4. AddInv'
    BY <1>1, BootKeepsAdds DEF Boot!table
<1> QED BY <1>2, <1>3, <1>4 DEF Inv

LEMMA ConnectInv == ASSUME Boot!CoreBootAssumption, Inv, Boot!Connect PROVE Inv'
<1> DEFINE n == opened + 1
<1>1. /\ boot \in {"consume", "publish", "control"}
      /\ opened' = n /\ open' = open \cup {n}
      /\ boot' \in {"publish", "control", "claim"}
      /\ boot' = "publish" => boot = "consume"
      /\ boot' = "control" => boot = "publish"
      /\ nc' = IF boot = "consume" THEN n ELSE nc
      /\ ncPublish' = IF boot = "publish" \/ (boot = "consume" /\ boot' = "claim")
                      THEN n ELSE ncPublish
      /\ ncControl' = IF boot' = "claim" THEN n ELSE ncControl
      /\ coreRedis' = (boot' = "claim") /\ presence' = (boot' = "claim")
      /\ UNCHANGED <<natsPoolSize, failures, stopP, toDrain, redrained, statusPlane, started,
                     add, bus, up, agentSessions>>
    BY DEF Boot!Connect, Boot!table
<1>2. n \in Nat \ {0} /\ opened \in Nat /\ 1..opened \subseteq 1..n /\ n \in 1..n
    BY DEF Inv, Boot!TypeOK
<1>3. /\ stopP \in {"none", "start"} /\ ~statusPlane /\ ~started /\ toDrain = {}
      /\ ~redrained
    BY <1>1 DEF Inv, Boot!TypeOK, BootInv, StopInv, Empty, Cold
<1>4. /\ open = Boot!Pool
      /\ boot = "consume" => nc = 0
      /\ boot # "consume" => nc \in open
      /\ boot # "control" => ncPublish = 0
      /\ boot = "control" => ncPublish \in open
      /\ ncControl = 0
    BY <1>1 DEF Inv, Boot!TypeOK, BootInv, Empty, Boot!Pool
<1>5. /\ open' = Boot!Pool' /\ nc' \in open'
      /\ boot' = "publish" => ncPublish' = 0
      /\ boot' # "publish" => ncPublish' \in open'
      /\ boot' # "claim" => ncControl' = 0
      /\ boot' = "claim" => ncControl' \in open'
    <2> HIDE DEF n
    <2>1. CASE boot = "consume"
        BY <1>1, <1>2, <1>4, <2>1 DEF Boot!Pool
    <2>2. CASE boot = "publish"
        BY <1>1, <1>2, <1>4, <2>2 DEF Boot!Pool
    <2>3. CASE boot = "control"
        BY <1>1, <1>2, <1>4, <2>3 DEF Boot!Pool
    <2> QED BY <1>1, <2>1, <2>2, <2>3
<1>6. Boot!TypeOK'
    <2>1. coreRedis' \in BOOLEAN /\ presence' \in BOOLEAN
        <3>1. CASE boot' = "claim"
            BY <1>1, <3>1, Zenon
        <3>2. CASE boot' # "claim"
            BY <1>1, <3>2
        <3> QED BY <3>1, <3>2
    <2> QED BY <1>1, <1>2, <2>1 DEF Inv, Boot!TypeOK
<1>7. BootInv'
    BY <1>1, <1>3, <1>5 DEF BootInv, Full, Cold
<1>8. StopInv'
    BY <1>1, <1>3 DEF StopInv
<1>9. AddInv'
    BY <1>1, BootKeepsAdds DEF Boot!table
<1> QED BY <1>6, <1>7, <1>8, <1>9 DEF Inv

LEMMA BootedInv == ASSUME Boot!CoreBootAssumption, Inv, Boot!Booted PROVE Inv'
<1>1. /\ boot = "claim" /\ boot' = "up" /\ statusPlane' = TRUE /\ started' = TRUE
      /\ UNCHANGED <<natsPoolSize, failures, stopP, nc, ncPublish, ncControl, opened, open,
                     toDrain, redrained, coreRedis, presence, add, bus, up, agentSessions>>
    BY DEF Boot!Booted, Boot!conns, Boot!table
<1>2. stopP \in {"none", "start"}
    BY <1>1 DEF Inv, Boot!TypeOK, StopInv
<1>3. Boot!TypeOK'
    BY <1>1 DEF Inv, Boot!TypeOK
<1>4. BootInv' /\ StopInv'
    BY <1>1, <1>2 DEF Inv, BootInv, StopInv, Full, Boot!Pool
<1>5. AddInv'
    BY <1>1, BootKeepsAdds DEF Boot!table
<1> QED BY <1>3, <1>4, <1>5 DEF Inv

LEMMA ConnectFailsInv == ASSUME Boot!CoreBootAssumption, Inv, Boot!ConnectFails PROVE Inv'
<1>1. /\ boot \in {"consume", "publish", "control"} /\ boot' = "undo" /\ toDrain' = Boot!Pool
      /\ failures' = failures + 1
      /\ UNCHANGED <<natsPoolSize, stopP, nc, ncPublish, ncControl, opened, open, redrained,
                     coreRedis, presence, statusPlane, started, add, bus, up, agentSessions>>
    BY DEF Boot!ConnectFails, Boot!parts, Boot!table
<1>2. /\ stopP \in {"none", "start"} /\ open = Boot!Pool /\ Cold
    BY <1>1 DEF Inv, Boot!TypeOK, BootInv, StopInv, Empty, Boot!Pool
<1>3. Boot!TypeOK'
    BY <1>1, <1>2 DEF Inv, Boot!TypeOK
<1>4. BootInv' /\ StopInv'
    BY <1>1, <1>2 DEF Inv, BootInv, StopInv, Cold, Boot!Pool
<1>5. AddInv'
    BY <1>1, BootKeepsAdds DEF Boot!table
<1> QED BY <1>3, <1>4, <1>5 DEF Inv

LEMMA UndoneInv == ASSUME Boot!CoreBootAssumption, Inv, Boot!Undone PROVE Inv'
<1>1. /\ boot = "undo" /\ boot' = "none" /\ toDrain = {}
      /\ nc' = 0 /\ ncPublish' = 0 /\ ncControl' = 0 /\ coreRedis' = FALSE
      /\ UNCHANGED <<natsPoolSize, failures, stopP, opened, open, toDrain, redrained, presence,
                     statusPlane, started, add, bus, up, agentSessions>>
    BY DEF Boot!Undone, Boot!table
<1>2. Boot!TypeOK'
    BY <1>1 DEF Inv, Boot!TypeOK
<1>3. BootInv' /\ StopInv'
    BY <1>1 DEF Inv, Boot!TypeOK, BootInv, StopInv, Cold, Empty
<1>4. AddInv'
    BY <1>1, BootKeepsAdds DEF Boot!table
<1> QED BY <1>2, <1>3, <1>4 DEF Inv

\* A drained connection was open, whichever of the two drains it.
LEMMA DrainInv == ASSUME Boot!CoreBootAssumption, Inv, NEW c, Boot!Drain(c) PROVE Inv'
<1>1. /\ boot = "undo" \/ stopP = "drain"
      /\ c \in toDrain /\ toDrain' = toDrain \ {c} /\ open' = open \ {c}
      /\ redrained' = (redrained \/ c \notin open)
      /\ UNCHANGED <<natsPoolSize, failures, boot, stopP, nc, ncPublish, ncControl, opened,
                     coreRedis, presence, statusPlane, started, add, bus, up, agentSessions>>
    BY DEF Boot!Drain, Boot!parts, Boot!table
<1>2. toDrain = open /\ open \subseteq Boot!Pool /\ ~redrained
    BY <1>1 DEF Inv, Boot!TypeOK, BootInv, StopInv, Empty
<1>3. redrained' = FALSE /\ toDrain' = open' /\ open' \subseteq Boot!Pool'
    BY <1>1, <1>2 DEF Boot!Pool
<1>4. Boot!TypeOK'
    BY <1>1, <1>3 DEF Inv, Boot!TypeOK
<1>5. BootInv'
    BY <1>1, <1>3 DEF Inv, Boot!TypeOK, BootInv, StopInv, Cold, Empty
<1>6. StopInv'
    BY <1>1, <1>3 DEF Inv, Boot!TypeOK, StopInv, BootInv, Cold, Empty, BeforeDrain
<1>7. AddInv'
    BY <1>1 DEF Inv, AddInv, Boot!inflightAdds, Boot!hasOwningSession, Boot!Pool
<1> QED BY <1>4, <1>5, <1>6, <1>7 DEF Inv

-----------------------------------------------------------------------------
(* addSession() and removeSession() *)

\* Steps of the session table leave the connections alone, and with them BootInv and StopInv.
LEMMA TableStep ==
    ASSUME Inv, UNCHANGED <<natsPoolSize, failures, boot, stopP, Boot!conns, Boot!parts>>,
           add' \in [Add -> {"idle", "starting", "ready", "rollback", "in", "removing", "out"}],
           bus' \in [Add -> SUBSET (1..opened)], up' \subseteq Add,
           agentSessions' \in [Agent -> Add \cup {Nobody}]
    PROVE  /\ Boot!TypeOK' /\ BootInv' /\ StopInv' /\ Boot!Pool' = Boot!Pool
           /\ boot' = boot /\ stopP' = stopP
<1>1. UNCHANGED <<natsPoolSize, failures, boot, stopP, nc, ncPublish, ncControl, opened, open,
                  toDrain, redrained, coreRedis, presence, statusPlane, started>>
    BY DEF Boot!conns, Boot!parts
<1>2. Boot!TypeOK'
    BY <1>1 DEF Inv, Boot!TypeOK
<1>3. BootInv' /\ StopInv'
    BY <1>1 DEF Inv, BootInv, StopInv, Empty, Cold, Full, Boot!Pool
<1> QED BY <1>1, <1>2, <1>3 DEF Boot!Pool

\* An add is let in only when the core is up, and then gets all of the pool.
LEMMA AddSessionInv ==
    ASSUME Boot!CoreBootAssumption, Inv, NEW a \in Add, Boot!AddSession(a)
    PROVE  Inv'
<1>1. /\ add[a] = "idle"
      /\ UNCHANGED <<natsPoolSize, failures, boot, stopP, Boot!conns, Boot!parts>>
      /\ up' = up /\ agentSessions' = agentSessions
    BY DEF Boot!AddSession
<1>2. \/ add' = [add EXCEPT ![a] = "out"] /\ bus' = bus
      \/ ~Boot!NotStarted /\ add' = [add EXCEPT ![a] = "starting"]
          /\ bus' = [bus EXCEPT ![a] = Boot!Pool]
    BY DEF Boot!AddSession
<1>3. ~Boot!NotStarted => boot = "up" /\ stopP = "none" /\ Boot!Pool \subseteq 1..opened
    BY DEF Boot!NotStarted, Boot!stopping, Inv, Boot!TypeOK, BootInv, StopInv, Cold, Full, BeforeDrain
<1>4. /\ Boot!TypeOK' /\ BootInv' /\ StopInv' /\ Boot!Pool' = Boot!Pool /\ boot' = boot
      /\ stopP' = stopP
    BY <1>1, <1>2, <1>3, TableStep DEF Inv, Boot!TypeOK
<1>5. ASSUME NEW b \in Add, b # a PROVE add'[b] = add[b] /\ bus'[b] = bus[b]
    BY <1>2, <1>5 DEF Inv, Boot!TypeOK
<1>6. \/ add'[a] = "out"
      \/ add'[a] = "starting" /\ bus'[a] = Boot!Pool /\ boot = "up" /\ stopP = "none"
    BY <1>2, <1>3 DEF Inv, Boot!TypeOK
<1>7. AddInv'
    <2>1. \A b \in Boot!inflightAdds' :
             bus'[b] = Boot!Pool' /\ boot' = "up" /\ stopP' \in {"none", "start", "adds"}
        BY <1>4, <1>5, <1>6 DEF Inv, AddInv, Boot!inflightAdds
    <2>2. \A b \in Add : add'[b] = "in" =>
             agentSessions'[agentOf[b]] = b /\ bus'[b] = Boot!Pool' /\ boot' = "up" /\ stopP' \in BeforeDrain
        BY <1>1, <1>4, <1>5, <1>6 DEF Inv, AddInv
    <2>3. \A g \in Agent : Boot!hasOwningSession(g)' =>
             add'[agentSessions'[g]] = "in" /\ agentOf[agentSessions'[g]] = g
        BY <1>1, <1>5 DEF Inv, Boot!TypeOK, AddInv, Boot!hasOwningSession
    <2>4. \A b \in up' : add'[b] \in {"ready", "rollback", "in", "removing"}
        BY <1>1, <1>5 DEF Inv, Boot!TypeOK, AddInv
    <2> QED BY <2>1, <2>2, <2>3, <2>4 DEF AddInv
<1> QED BY <1>4, <1>7 DEF Inv

\* An add or a session of `a` moves on to w without touching the map.
LEMMA MoveInv ==
    ASSUME Boot!CoreBootAssumption, Inv, NEW a \in Add, NEW w,
           UNCHANGED <<natsPoolSize, failures, boot, stopP, Boot!conns, Boot!parts, bus, agentSessions>>,
           add' = [add EXCEPT ![a] = w], add[a] # "in", w \in {"ready", "rollback", "out"},
           w # "out" => a \in Boot!inflightAdds,
           up' \subseteq up \cup {a}, w = "out" => a \notin up'
    PROVE  Inv'
<1>1. /\ Boot!TypeOK' /\ BootInv' /\ StopInv' /\ Boot!Pool' = Boot!Pool /\ boot' = boot
      /\ stopP' = stopP
    BY TableStep DEF Inv, Boot!TypeOK
<1>2. ASSUME NEW b \in Add PROVE add'[b] = IF b = a THEN w ELSE add[b]
    BY DEF Inv, Boot!TypeOK
<1>3. \A b \in Boot!inflightAdds' : b \in Boot!inflightAdds
    BY <1>2 DEF Boot!inflightAdds
<1>4. AddInv'
    <2>1. \A b \in Boot!inflightAdds' :
             bus'[b] = Boot!Pool' /\ boot' = "up" /\ stopP' \in {"none", "start", "adds"}
        BY <1>1, <1>3 DEF Inv, AddInv
    <2>2. \A b \in Add : add'[b] = "in" =>
             agentSessions'[agentOf[b]] = b /\ bus'[b] = Boot!Pool' /\ boot' = "up" /\ stopP' \in BeforeDrain
        BY <1>1, <1>2 DEF Inv, AddInv
    <2>3. \A g \in Agent : Boot!hasOwningSession(g)' =>
             add'[agentSessions'[g]] = "in" /\ agentOf[agentSessions'[g]] = g
        BY <1>2 DEF Inv, Boot!TypeOK, AddInv, Boot!hasOwningSession
    <2>4. \A b \in up' : add'[b] \in {"ready", "rollback", "in", "removing"}
        BY <1>2 DEF Inv, Boot!TypeOK, AddInv
    <2> QED BY <2>1, <2>2, <2>3, <2>4 DEF AddInv
<1> QED BY <1>1, <1>4 DEF Inv

LEMMA AddStepInv == ASSUME Boot!CoreBootAssumption, Inv, NEW a \in Add, Boot!AddStep(a) PROVE Inv'
<1>1. CASE Boot!ChannelStarted(a)
    <2>1. a \in Boot!inflightAdds /\ add[a] # "in" /\ up' \subseteq up \cup {a}
        BY <1>1 DEF Boot!ChannelStarted, Boot!inflightAdds
    <2> QED BY <1>1, <2>1, MoveInv DEF Boot!ChannelStarted
<1>2. CASE Boot!ChannelStopped(a)
    BY <1>2, MoveInv DEF Boot!ChannelStopped
<1>3. CASE Boot!Recheck(a) /\ add' = [add EXCEPT ![a] = "rollback"] /\ UNCHANGED agentSessions
    <2>1. a \in Boot!inflightAdds /\ add[a] # "in" /\ up' \subseteq up \cup {a}
        BY <1>3 DEF Boot!Recheck, Boot!inflightAdds
    <2> QED BY <1>3, <2>1, MoveInv DEF Boot!Recheck
<1>4. CASE /\ Boot!Recheck(a) /\ ~Boot!NotStarted /\ ~Boot!hasOwningSession(agentOf[a])
           /\ add' = [add EXCEPT ![a] = "in"]
           /\ agentSessions' = [agentSessions EXCEPT ![agentOf[a]] = a]
    <2>1. /\ UNCHANGED <<natsPoolSize, failures, boot, stopP, Boot!conns, Boot!parts>>
          /\ bus' = bus /\ up' = up /\ a \in Boot!inflightAdds /\ agentOf[a] \in Agent
        BY <1>4 DEF Boot!Recheck, Boot!inflightAdds, Boot!CoreBootAssumption
    <2>2. /\ Boot!TypeOK' /\ BootInv' /\ StopInv' /\ Boot!Pool' = Boot!Pool /\ boot' = boot
          /\ stopP' = stopP
        BY <1>4, <2>1, TableStep DEF Inv, Boot!TypeOK
    <2>3. ASSUME NEW b \in Add PROVE add'[b] = IF b = a THEN "in" ELSE add[b]
        BY <1>4 DEF Inv, Boot!TypeOK
    <2>4. ASSUME NEW g \in Agent
          PROVE  agentSessions'[g] = IF g = agentOf[a] THEN a ELSE agentSessions[g]
        BY <1>4, <2>1 DEF Inv, Boot!TypeOK
    <2>5. AddInv'
        <3>1. \A b \in Boot!inflightAdds' :
                 bus'[b] = Boot!Pool' /\ boot' = "up" /\ stopP' \in {"none", "start", "adds"}
            BY <2>1, <2>2, <2>3 DEF Inv, AddInv, Boot!inflightAdds
        <3>2. ASSUME NEW b \in Add, add'[b] = "in"
              PROVE  /\ agentSessions'[agentOf[b]] = b /\ bus'[b] = Boot!Pool' /\ boot' = "up"
                     /\ stopP' \in BeforeDrain
            <4>1. CASE b = a
                BY <2>1, <2>2, <2>4, <4>1 DEF Inv, AddInv, BeforeDrain
            <4>2. CASE b # a
                <5>1. add[b] = "in" /\ agentOf[b] \in Agent
                    BY <2>3, <3>2, <4>2 DEF Boot!CoreBootAssumption
                <5>2. agentSessions[agentOf[b]] = b
                    BY <5>1 DEF Inv, AddInv
                <5>3. agentOf[b] # agentOf[a]
                    BY <1>4, <5>2 DEF Boot!hasOwningSession, Boot!CoreBootAssumption
                <5> QED BY <2>1, <2>2, <2>4, <5>1, <5>3 DEF Inv, AddInv
            <4> QED BY <4>1, <4>2
        <3>3. \A g \in Agent : Boot!hasOwningSession(g)' =>
                 add'[agentSessions'[g]] = "in" /\ agentOf[agentSessions'[g]] = g
            BY <2>3, <2>4 DEF Inv, Boot!TypeOK, AddInv, Boot!hasOwningSession
        <3>4. \A b \in up' : add'[b] \in {"ready", "rollback", "in", "removing"}
            BY <2>1, <2>3 DEF Inv, Boot!TypeOK, AddInv
        <3> QED BY <3>1, <3>2, <3>3, <3>4 DEF AddInv
    <2> QED BY <2>2, <2>5 DEF Inv
<1> QED BY <1>1, <1>2, <1>3, <1>4 DEF Boot!AddStep, Boot!Recheck

LEMMA RemoveInv ==
    ASSUME Boot!CoreBootAssumption, Inv, NEW a \in Add, Boot!RemoveSession(a)
    PROVE Inv'
<1>1. /\ add[a] = "in" /\ agentSessions[agentOf[a]] = a /\ agentOf[a] \in Agent
      /\ agentSessions' = [agentSessions EXCEPT ![agentOf[a]] = Nobody]
      /\ add' = [add EXCEPT ![a] = "removing"] /\ bus' = bus /\ up' = up
      /\ UNCHANGED <<natsPoolSize, failures, boot, stopP, Boot!conns, Boot!parts>>
    BY DEF Boot!RemoveSession, Boot!CoreBootAssumption
<1>2. /\ Boot!TypeOK' /\ BootInv' /\ StopInv' /\ Boot!Pool' = Boot!Pool /\ boot' = boot
      /\ stopP' = stopP
    BY <1>1, TableStep DEF Inv, Boot!TypeOK
<1>3. ASSUME NEW b \in Add PROVE add'[b] = IF b = a THEN "removing" ELSE add[b]
    BY <1>1 DEF Inv, Boot!TypeOK
<1>4. ASSUME NEW g \in Agent
      PROVE  agentSessions'[g] = IF g = agentOf[a] THEN Nobody ELSE agentSessions[g]
    BY <1>1 DEF Inv, Boot!TypeOK
<1>5. AddInv'
    <2>1. \A b \in Boot!inflightAdds' :
             bus'[b] = Boot!Pool' /\ boot' = "up" /\ stopP' \in {"none", "start", "adds"}
        BY <1>1, <1>2, <1>3 DEF Inv, AddInv, Boot!inflightAdds
    <2>2. ASSUME NEW b \in Add, add'[b] = "in"
          PROVE  /\ agentSessions'[agentOf[b]] = b /\ bus'[b] = Boot!Pool' /\ boot' = "up"
                 /\ stopP' \in BeforeDrain
        <3>1. b # a /\ add[b] = "in" /\ agentOf[b] \in Agent
            BY <1>3, <2>2 DEF Boot!CoreBootAssumption
        <3>2. agentSessions[agentOf[b]] = b
            BY <3>1 DEF Inv, AddInv
        <3> QED BY <1>1, <1>2, <1>4, <3>1, <3>2 DEF Inv, AddInv
    <2>3. \A g \in Agent : Boot!hasOwningSession(g)' =>
             add'[agentSessions'[g]] = "in" /\ agentOf[agentSessions'[g]] = g
        BY <1>3, <1>4 DEF Inv, Boot!TypeOK, AddInv, Boot!hasOwningSession
    <2>4. \A b \in up' : add'[b] \in {"ready", "rollback", "in", "removing"}
        BY <1>1, <1>3 DEF Inv, Boot!TypeOK, AddInv
    <2> QED BY <2>1, <2>2, <2>3, <2>4 DEF AddInv
<1> QED BY <1>2, <1>5 DEF Inv

-----------------------------------------------------------------------------
(* _doStop() *)

\* stop() is called, and waits for the boot and for the adds in flight.
LEMMA StopWaitsInv ==
    ASSUME Boot!CoreBootAssumption, Inv, Boot!Stop \/ Boot!StartSettled \/ Boot!AddsSettled
           \/ Boot!PresenceStopped
    PROVE  Inv'
<1>1. UNCHANGED <<natsPoolSize, failures, boot, nc, ncPublish, ncControl, opened, open, toDrain,
                  redrained, coreRedis, started, add, bus, up, agentSessions>>
    BY DEF Boot!Stop, Boot!StartSettled, Boot!AddsSettled, Boot!PresenceStopped, Boot!conns,
       Boot!parts, Boot!table
<1>2. \/ stopP = "none" /\ stopP' = "start" /\ UNCHANGED <<presence, statusPlane>>
      \/ /\ stopP = "start" /\ boot \in {"none", "up"} /\ stopP' = "adds"
         /\ UNCHANGED <<presence, statusPlane>>
      \/ /\ stopP = "adds" /\ Boot!inflightAdds = {} /\ stopP' = "presence"
         /\ statusPlane' = FALSE /\ presence' = presence
      \/ /\ stopP = "presence" /\ stopP' = "sessions" /\ presence' = FALSE
         /\ statusPlane' = statusPlane
    BY DEF Boot!Stop, Boot!StartSettled, Boot!AddsSettled, Boot!PresenceStopped, Boot!parts
<1>3. Boot!TypeOK'
    BY <1>1, <1>2 DEF Inv, Boot!TypeOK
<1>4. BootInv'
    BY <1>1, <1>2 DEF Inv, Boot!TypeOK, BootInv, StopInv, Empty, Cold, Full, Boot!Pool
<1>5. StopInv'
    BY <1>1, <1>2 DEF Inv, Boot!TypeOK, StopInv, Empty, Cold, Full, Boot!Pool, BeforeDrain
<1>6. AddInv'
    BY <1>1, <1>2 DEF Inv, AddInv, Boot!inflightAdds, Boot!hasOwningSession, Boot!Pool, BeforeDrain
<1> QED BY <1>3, <1>4, <1>5, <1>6 DEF Inv

LEMMA SessionStoppedInv ==
    ASSUME Boot!CoreBootAssumption, Inv, NEW a \in Add, Boot!SessionStopped(a)
    PROVE  Inv'
<1>1. /\ up' = up \ {a} /\ add' = add /\ bus' = bus /\ agentSessions' = agentSessions
      /\ UNCHANGED <<natsPoolSize, failures, boot, stopP, Boot!conns, Boot!parts>>
    BY DEF Boot!SessionStopped
<1>2. /\ Boot!TypeOK' /\ BootInv' /\ StopInv' /\ Boot!Pool' = Boot!Pool /\ boot' = boot
      /\ stopP' = stopP
    BY <1>1, TableStep DEF Inv, Boot!TypeOK
<1>3. AddInv'
    BY <1>1, <1>2 DEF Inv, AddInv, Boot!inflightAdds, Boot!hasOwningSession
<1> QED BY <1>2, <1>3 DEF Inv

\* When the agentSessions are stopped nothing uses the connections that are now drained.
LEMMA SessionsClearedInv == ASSUME Boot!CoreBootAssumption, Inv, Boot!SessionsCleared PROVE Inv'
<1>1. /\ stopP = "sessions" /\ stopP' = "drain" /\ toDrain' = Boot!Pool
      /\ \A g \in Agent : Boot!hasOwningSession(g) => agentSessions[g] \notin up
      /\ agentSessions' = [g \in Agent |-> Nobody]
      /\ add' = [a \in Add |-> IF add[a] = "in" THEN "out" ELSE add[a]]
      /\ UNCHANGED <<natsPoolSize, failures, boot, nc, ncPublish, ncControl, opened, open,
                     redrained, coreRedis, presence, statusPlane, started, bus, up>>
    BY DEF Boot!SessionsCleared, Boot!parts
<1>2. boot \in {"none", "up"} /\ open = Boot!Pool /\ ~presence /\ ~statusPlane
    BY <1>1 DEF Inv, Boot!TypeOK, BootInv, StopInv, Empty, Full, Boot!Pool, BeforeDrain
<1>3. Boot!TypeOK'
    <2>1. add' \in [Add -> {"idle", "starting", "ready", "rollback", "in", "removing", "out"}]
        BY <1>1 DEF Inv, Boot!TypeOK
    <2> QED BY <1>1, <1>2, <2>1 DEF Inv, Boot!TypeOK
<1>4. BootInv'
    BY <1>1, <1>2 DEF Inv, BootInv, Empty, Cold, Boot!Pool
<1>5. StopInv'
    BY <1>1, <1>2 DEF Inv, StopInv, Full, Boot!Pool, BeforeDrain
<1>6. Boot!inflightAdds = {}
    BY <1>1 DEF Inv, AddInv
<1>7. \A a \in Add : add[a] = "in" => a \notin up
    BY <1>1 DEF Inv, AddInv, Boot!hasOwningSession, Boot!CoreBootAssumption
<1>8. AddInv'
    <2>1. Boot!inflightAdds' = {} /\ \A a \in Add : add'[a] # "in"
        BY <1>1, <1>6 DEF Boot!inflightAdds
    <2>2. \A g \in Agent : ~Boot!hasOwningSession(g)'
        BY <1>1 DEF Boot!hasOwningSession
    <2>3. \A a \in up' : add'[a] \in {"ready", "rollback", "in", "removing"}
        BY <1>1, <1>7 DEF Inv, Boot!TypeOK, AddInv
    <2> QED BY <2>1, <2>2, <2>3 DEF AddInv
<1> QED BY <1>3, <1>4, <1>5, <1>8 DEF Inv

LEMMA StopDoneInv == ASSUME Boot!CoreBootAssumption, Inv, Boot!StopDone PROVE Inv'
<1>1. /\ stopP = "drain" /\ stopP' = "done" /\ toDrain = {}
      /\ nc' = 0 /\ ncPublish' = 0 /\ ncControl' = 0 /\ coreRedis' = FALSE /\ started' = FALSE
      /\ UNCHANGED <<natsPoolSize, failures, boot, opened, open, toDrain, redrained, presence,
                     statusPlane, add, bus, up, agentSessions>>
    BY DEF Boot!StopDone, Boot!table
<1>2. boot \in {"none", "up"} /\ open = {} /\ ~presence /\ ~statusPlane
    BY <1>1 DEF Inv, Boot!TypeOK, BootInv, StopInv, Empty
<1>3. Boot!TypeOK'
    BY <1>1 DEF Inv, Boot!TypeOK
<1>4. BootInv' /\ StopInv'
    BY <1>1, <1>2 DEF Inv, BootInv, StopInv, Empty, Cold, BeforeDrain
<1>5. Boot!inflightAdds = {} /\ \A a \in Add : add[a] # "in"
    BY <1>1 DEF Inv, AddInv, BeforeDrain
<1>6. AddInv'
    BY <1>1, <1>5 DEF Inv, Boot!TypeOK, AddInv, Boot!inflightAdds, Boot!hasOwningSession
<1> QED BY <1>3, <1>4, <1>6 DEF Inv

-----------------------------------------------------------------------------
LEMMA BootStepInv == Boot!CoreBootAssumption /\ Inv /\ [Boot!Next]_(Boot!vars) => Inv'
<1> SUFFICES ASSUME Boot!CoreBootAssumption, Inv, [Boot!Next]_(Boot!vars) PROVE Inv'
    OBVIOUS
<1>1. CASE Boot!BootStep
    BY <1>1, ConnectInv, BootedInv, ConnectFailsInv, UndoneInv, DrainInv DEF Boot!BootStep
<1>2. CASE Boot!StopStep
    BY <1>2, StopWaitsInv, SessionStoppedInv, SessionsClearedInv, StopDoneInv DEF Boot!StopStep
<1>3. ASSUME NEW a \in Add, Boot!AddSession(a) \/ Boot!AddStep(a) \/ Boot!RemoveSession(a)
      PROVE Inv'
    BY <1>3, AddSessionInv, AddStepInv, RemoveInv
<1>4. CASE UNCHANGED Boot!vars
    <2>1. /\ UNCHANGED <<natsPoolSize, failures, boot, stopP, Boot!conns, Boot!parts>>
          /\ add' = add /\ bus' = bus /\ up' = up /\ agentSessions' = agentSessions
        BY <1>4 DEF Boot!vars, Boot!table
    <2>2. /\ Boot!TypeOK' /\ BootInv' /\ StopInv' /\ Boot!Pool' = Boot!Pool /\ boot' = boot
          /\ stopP' = stopP
        BY <2>1, TableStep DEF Inv, Boot!TypeOK
    <2>3. AddInv'
        BY <2>1, <2>2 DEF Inv, AddInv, Boot!inflightAdds, Boot!hasOwningSession
    <2> QED BY <2>2, <2>3 DEF Inv
<1> QED BY <1>1, <1>2, <1>3, <1>4, StartInv, StopWaitsInv DEF Boot!Next

\* The fields of a core, its connections and its session table keep their types.
THEOREM BootTypeCorrect == ASSUME Boot!CoreBootAssumption PROVE Boot!Spec => []Boot!TypeOK
<1>1. Boot!Init => Inv
    BY BootInitInv
<1>2. Inv /\ [Boot!Next]_(Boot!vars) => Inv'
    BY BootStepInv
<1>3. Inv => Boot!TypeOK
    BY DEF Inv
<1> QED BY <1>1, <1>2, <1>3, PTL DEF Boot!Spec

\* Whatever boots fail and whatever adds, removals and stop() overlap: no connection leaks, none
\* is drained twice, none is taken from under a channel in flight or in the map, and no channel
\* is left without an owner.
THEOREM BootHolds == Boot!Spec => []Boot!BootSafe
<1>1. Boot!Init => Inv
    BY BootAssume, BootInitInv
<1>2. Inv /\ [Boot!Next]_(Boot!vars) => Inv'
    BY BootAssume, BootStepInv
<1>3. Inv => Boot!BootSafe
    BY BootAssume, InvSafe
<1> QED BY <1>1, <1>2, <1>3, PTL DEF Boot!Spec

\* The same of the core that boots and stops among the other scenes of MCSessions.
THEOREM BootSafeHolds == MCSpec => []BootSafe
<1> DEFINE I == scene = "boot" => Inv
<1>1. MCInit => I
    BY BootAssume, BootInitInv DEF MCInit
<1>2. I /\ [MCNext]_<<scene, vars, bootVars>> => I'
    <2>1. CASE scene = "boot" /\ MCNext
        BY <2>1, BootAssume, BootStepInv DEF MCNext
    <2>2. CASE scene = "boot" /\ UNCHANGED <<scene, bootVars>>
        BY <2>2, BootAssume, BootStepInv
           DEF bootVars, Boot!vars, Boot!conns, Boot!parts, Boot!table
    <2>3. CASE scene # "boot" /\ UNCHANGED scene
        BY <2>3
    <2> QED BY <2>1, <2>2, <2>3 DEF MCNext
<1>3. I => BootSafe
    BY BootAssume, InvSafe DEF BootSafe
<1> QED BY <1>1, <1>2, <1>3, PTL DEF MCSpec
==============================================================================
