----------------------------- MODULE BusProofs -----------------------------
(***************************************************************************)
(* The safety of the receive path for any number of sessions, messages,    *)
(* redeliveries, failures and crashes; of the verification keys, for any   *)
(* number of handlers and keys and any timeouts; and of the sending side,  *)
(* for any number of calls, peers and announcements and any rates.         *)
(***************************************************************************)
EXTENDS MCBus, FiniteSetTheorems, TLAPS

-----------------------------------------------------------------------------
(* The inductive invariant *)

\* The messages a loop reads.
Of(l) == IF l = "inbox" THEN Direct ELSE Topic

\* A loop is handed messages of its own kind.
BufInv == \A s \in Session, l \in Loop : buf[s][l] \in Seq(Of(l))

\* What a handler knows of its message at each of its awaits.
HandlerInv ==
    \A s \in Session, l \in Loop :
        /\ at[s][l] # "idle" => cur[s][l] \in Of(l) /\ Flaw[cur[s][l]] # "malformed"
        /\ at[s][l] = "inject" => Flaw[cur[s][l]] = "none" /\ cur[s][l] \notin Elems(order[s])
        /\ at[s][l] = "inject" /\ l = "inbox" => cur[s][l] \in rows

\* Only legitimate messages are stored or shown, and shown ones are stored first.
ShownInv ==
    /\ \A m \in rows : Flaw[m] = "none"
    /\ \A s \in Session : \A i \in 1..Len(shown[s]) :
           /\ Flaw[shown[s][i]] = "none"
           /\ shown[s][i] \in Direct => shown[s][i] \in rows

\* A session's dedup list is the tail of what it has shown, DedupLru long once it can be.
WindowInv ==
    \A s \in Session :
        /\ Len(order[s]) <= Len(shown[s])
        /\ Len(order[s]) <= DedupLru
        /\ Len(order[s]) < DedupLru => Len(order[s]) = Len(shown[s])
        /\ \A i \in 1..Len(order[s]) : order[s][i] = shown[s][Len(shown[s]) - Len(order[s]) + i]

IInv == TypeOK /\ BufInv /\ HandlerInv /\ ShownInv /\ WindowInv /\ DedupWindow /\ AckedWasShown

-----------------------------------------------------------------------------
(* Sequences *)

\* Append() makes a sequence one longer.
LEMMA AppendOne ==
    ASSUME NEW S, NEW q \in Seq(S), NEW x \in S
    PROVE  Append(q, x) \in Seq(S) /\ Len(Append(q, x)) = Len(q) + 1 /\ Append(q, x) # <<>>
<1>1. Append(q, x) \in Seq(S) /\ Len(Append(q, x)) = Len(q) + 1 /\ Len(q) \in Nat
  OBVIOUS
<1>2. Len(<<>>) = 0
  OBVIOUS
<1> QED
  BY <1>1, <1>2

\* Append() adds its element to those of a sequence.
LEMMA ElemsAppend ==
    ASSUME NEW S, NEW q \in Seq(S), NEW x \in S
    PROVE  Elems(Append(q, x)) = Elems(q) \cup {x}
BY DEF Elems

\* The head and the tail of a sequence have its elements only.
LEMMA ElemsTail ==
    ASSUME NEW S, NEW q \in Seq(S), q # <<>>
    PROVE  Head(q) \in S /\ Tail(q) \in Seq(S) /\ Elems(Tail(q)) \subseteq Elems(q)
BY DEF Elems

\* recordDedup() of an id that is not in the list appends it and drops the oldest of a full list.
LEMMA RecordDedup ==
    ASSUME NEW o \in Seq(Msg), NEW m \in Msg, m \notin Elems(o), Len(o) <= DedupLru
    PROVE  /\ recordDedup(o, m) \in Seq(Msg)
           /\ Elems(recordDedup(o, m)) \subseteq Elems(o) \cup {m}
           /\ Len(o) < DedupLru => recordDedup(o, m) = Append(o, m)
           /\ Len(o) = DedupLru => recordDedup(o, m) = Tail(Append(o, m))
<1>1. Append(o, m) \in Seq(Msg) /\ Append(o, m) # <<>> /\ Len(Append(o, m)) = Len(o) + 1
  OBVIOUS
<1>2. Elems(Append(o, m)) = Elems(o) \cup {m}
  BY ElemsAppend
<1>3. Tail(Append(o, m)) \in Seq(Msg) /\ Elems(Tail(Append(o, m))) \subseteq Elems(Append(o, m))
  BY <1>1, ElemsTail
<1>4. DedupLru \in Nat /\ Len(o) \in Nat
  BY InboxAssumption
<1> QED
  BY <1>1, <1>2, <1>3, <1>4 DEF recordDedup

\* The tail of a sequence is the sequence shifted by one.
LEMMA TailShift ==
    ASSUME NEW S, NEW q \in Seq(S), q # <<>>
    PROVE  Len(Tail(q)) = Len(q) - 1 /\ \A i \in 1..Len(q) - 1 : Tail(q)[i] = q[i + 1]
OBVIOUS

\* A dedup list that is the tail of what was shown is so after recordDedup() as well.
LEMMA WindowShift ==
    ASSUME NEW o \in Seq(Msg), NEW h \in Seq(Msg), NEW m \in Msg,
           m \notin Elems(o),
           Len(o) <= Len(h), Len(o) <= DedupLru,
           Len(o) < DedupLru => Len(o) = Len(h),
           \A i \in 1..Len(o) : o[i] = h[Len(h) - Len(o) + i]
    PROVE  /\ Len(recordDedup(o, m)) <= Len(h) + 1 /\ Len(recordDedup(o, m)) <= DedupLru
           /\ Len(recordDedup(o, m)) < DedupLru => Len(recordDedup(o, m)) = Len(h) + 1
           /\ \A i \in 1..Len(recordDedup(o, m)) :
                  recordDedup(o, m)[i] = Append(h, m)[Len(h) + 1 - Len(recordDedup(o, m)) + i]
<1> DEFINE n == recordDedup(o, m)
           g == Append(h, m)
           N == DedupLru
           Goal == /\ Len(n) <= Len(h) + 1 /\ Len(n) <= N
                   /\ Len(n) < N => Len(n) = Len(h) + 1
                   /\ \A i \in 1..Len(n) : n[i] = g[Len(h) + 1 - Len(n) + i]
<1> SUFFICES Goal
  OBVIOUS
<1>0. N \in Nat \ {0} /\ Len(o) \in Nat /\ Len(h) \in Nat /\ (Len(o) < N \/ Len(o) = N)
  BY InboxAssumption
<1>1. CASE Len(o) < N
  <2>1. n = Append(o, m)
    BY <1>1, RecordDedup
  <2>2. Len(n) = Len(o) + 1 /\ Len(o) = Len(h)
    BY <1>1, <2>1
  <2>3. ASSUME NEW i \in 1..Len(n) PROVE n[i] = g[i]
    BY <1>1, <2>1, <2>2
  <2>4. \A i \in 1..Len(n) : Len(h) + 1 - Len(n) + i = i
    BY <2>2
  <2> HIDE DEF n, g
  <2> QED
    BY <1>0, <1>1, <2>2, <2>3, <2>4 DEF Goal
<1>2. CASE Len(o) = N
  <2>1. n = Tail(Append(o, m))
    BY <1>2, RecordDedup
  <2>2. Append(o, m) \in Seq(Msg) /\ Len(Append(o, m)) = Len(o) + 1 /\ Append(o, m) # <<>>
    BY ONLY AppendOne
  <2>3. Len(n) = N /\ \A i \in 1..N : n[i] = Append(o, m)[i + 1]
    BY <1>0, <1>2, <2>1, <2>2, TailShift
  <2>4. ASSUME NEW i \in 1..N PROVE n[i] = g[Len(h) + 1 - N + i]
    <3>1. CASE i = N
      <4>1. n[i] = Append(o, m)[Len(o) + 1]
        BY <1>2, <2>3, <3>1
      <4>2. Append(o, m)[Len(o) + 1] = m /\ g[Len(h) + 1] = m
        OBVIOUS
      <4>3. Len(h) + 1 - N + i = Len(h) + 1
        BY <1>0, <3>1
      <4> QED
        BY <4>1, <4>2, <4>3
    <3>2. CASE i < N
      <4>1. n[i] = o[i + 1]
        BY <1>2, <2>3, <3>2
      <4>2. o[i + 1] = h[Len(h) - N + (i + 1)]
        <5>1. i + 1 \in 1..Len(o)
          BY <1>0, <1>2, <3>2
        <5> QED
          BY <1>2, <5>1
      <4>3. Len(h) - N + (i + 1) \in 1..Len(h) /\ Len(h) - N + (i + 1) = Len(h) + 1 - N + i
        BY <1>0, <1>2, <3>2
      <4> QED
        BY <4>1, <4>2, <4>3
    <3>3. i = N \/ i < N
      BY <1>0
    <3> QED
      BY <3>1, <3>2, <3>3
  <2> HIDE DEF n, g
  <2> QED
    BY <1>0, <1>2, <2>3, <2>4 DEF Goal
<1> HIDE DEF Goal
<1> QED
  BY <1>0, <1>1, <1>2

\* An id that is not in such a list was last shown more than DedupLru places ago.
LEMMA WindowMiss ==
    ASSUME NEW o \in Seq(Msg), NEW h \in Seq(Msg), NEW m \in Msg,
           Len(o) <= Len(h), Len(o) <= DedupLru,
           Len(o) < DedupLru => Len(o) = Len(h),
           \A i \in 1..Len(o) : o[i] = h[Len(h) - Len(o) + i],
           m \notin Elems(o),
           NEW i \in 1..Len(h), h[i] = m
    PROVE  Len(h) + 1 - i > DedupLru
<1> SUFFICES ASSUME Len(h) + 1 - i <= DedupLru PROVE FALSE
  BY InboxAssumption
<1> DEFINE k == i - (Len(h) - Len(o))
<1>1. k \in 1..Len(o) /\ Len(h) - Len(o) + k = i
  BY InboxAssumption
<1>2. o[k] = h[i]
  BY <1>1
<1> QED
  BY <1>1, <1>2 DEF Elems

-----------------------------------------------------------------------------
(* One lemma per part of the invariant *)

\* Every step keeps the types.
LEMMA TypeStep == ASSUME TypeOK, HandlerInv, WindowInv, Next \/ UNCHANGED vars PROVE TypeOK'
<1> USE InboxAssumption DEF Msg, Loop, Flaws
<1>1. ASSUME NEW m \in Msg, Publish(m) PROVE TypeOK'
  BY <1>1 DEF Publish, TypeOK, stream, store
<1>2. ASSUME NEW m \in Msg, Expires(m) PROVE TypeOK'
  BY <1>2 DEF Expires, TypeOK, stream, store
<1>3. ASSUME NEW m \in Direct, AckWaitLate(m) PROVE TypeOK'
  BY <1>3 DEF AckWaitLate, TypeOK, stream, store
<1>4. ASSUME NEW m \in Direct, AckWait(m) PROVE TypeOK'
  BY <1>4 DEF AckWait, TypeOK, stream, store
<1>5. ASSUME NEW m \in Direct, AgentAck(m) PROVE TypeOK'
  BY <1>5 DEF AgentAck, TypeOK, stream, store
<1>6. ASSUME NEW s \in Session, NEW m \in Direct, Deliver(s, m) PROVE TypeOK'
  <2>1. tries' \in [Direct -> 0..MaxDeliver]
    BY <1>6 DEF Deliver, TypeOK
  <2>2. Append(buf[s]["inbox"], m) \in Seq(Msg)
    BY DEF TypeOK
  <2>3. buf' \in [Session -> [Loop -> Seq(Msg)]]
    BY <1>6, <2>2 DEF Deliver, TypeOK
  <2> QED
    BY <1>6, <2>1, <2>3 DEF Deliver, TypeOK, store
<1>7. ASSUME NEW s \in Session, StartSession(s) PROVE TypeOK'
  BY <1>7 DEF StartSession, TypeOK, stream, store
<1>8. ASSUME NEW s \in Session, StopSession(s) PROVE TypeOK'
  <2>1. PICK b \in {buf[s], [k \in Loop |-> <<>>]} : buf' = [buf EXCEPT ![s] = b]
    BY <1>8 DEF StopSession
  <2>2. <<>> \in Seq(Msg) /\ buf[s] \in [Loop -> Seq(Msg)]
    BY DEF TypeOK
  <2>3. b \in [Loop -> Seq(Msg)]
    BY <2>1, <2>2
  <2> QED
    BY <1>8, <2>1, <2>3 DEF StopSession, TypeOK, stream, store
<1>9. ASSUME NEW s \in Session, Throttle(s) PROVE TypeOK'
  <2>1. lost' \subseteq Msg
    BY <1>9 DEF Throttle, TypeOK, HandlerInv, Of
  <2> QED
    BY <1>9, <2>1 DEF Throttle, Ack, Finish, TypeOK, stream, store, HandlerInv, Of
<1>10. ASSUME NEW s \in Session, PersistFail(s) PROVE TypeOK'
  <2>1. faults' \in 0..MaxFaults
    BY <1>10 DEF PersistFail, TypeOK
  <2>2. js' \in [Direct -> {"none", "ready", "pending", "acked"}]
    BY <1>10 DEF PersistFail, Nak, TypeOK
  <2> QED
    BY <1>10, <2>1, <2>2 DEF PersistFail, Finish, TypeOK, store
<1>11. ASSUME NEW s \in Session, NEW l \in Loop, Take(s, l) PROVE TypeOK'
  <2> DEFINE m == Head(buf[s][l])
  <2>1. m \in Msg /\ Tail(buf[s][l]) \in Seq(Msg)
    BY <1>11, ElemsTail DEF Take, TypeOK
  <2>2. buf' \in [Session -> [Loop -> Seq(Msg)]]
    BY <1>11, <2>1 DEF Take, TypeOK
  <2>3. js' \in [Direct -> {"none", "ready", "pending", "acked"}]
    BY <1>11 DEF Take, Ack, TypeOK
  <2>4. CASE Flaw[m] = "malformed"
    BY <1>11, <2>2, <2>3, <2>4 DEF Take, TypeOK, store
  <2>5. CASE Flaw[m] # "malformed"
    <3>1. at' = [at EXCEPT ![s][l] = "verify"] /\ cur' = [cur EXCEPT ![s][l] = m]
      BY <1>11, <2>5 DEF Take
    <3>2. at' \in [Session -> [Loop -> {"idle", "verify", "inject"}]]
      BY <3>1 DEF TypeOK
    <3>3. cur' \in [Session -> [Loop -> Msg \cup {NoMsg}]]
      BY <2>1, <3>1 DEF TypeOK
    <3> QED
      BY <1>11, <2>2, <2>3, <3>2, <3>3 DEF Take, TypeOK, store
  <2> QED
    BY <2>4, <2>5
<1>12. ASSUME NEW s \in Session, NEW l \in Loop, Drop(s, l) PROVE TypeOK'
  BY <1>12 DEF Drop, Ack, Finish, TypeOK, stream, store, HandlerInv, Of
<1>13. ASSUME NEW s \in Session, NEW l \in Loop, KeyFault(s, l) PROVE TypeOK'
  <2>1. js' \in [Direct -> {"none", "ready", "pending", "acked"}]
    BY <1>13 DEF KeyFault, Ack, TypeOK, HandlerInv, Of
  <2>2. /\ at' \in [Session -> [Loop -> {"idle", "verify", "inject"}]]
        /\ cur' \in [Session -> [Loop -> Msg \cup {NoMsg}]]
    BY <1>13 DEF KeyFault, Finish, TypeOK
  <2>3. faults' \in 0..MaxFaults /\ lost' \subseteq Msg
    BY <1>13 DEF KeyFault, TypeOK, HandlerInv, Of
  <2> QED
    BY <1>13, <2>1, <2>2, <2>3 DEF KeyFault, TypeOK, store
<1>14. ASSUME NEW s \in Session, NEW l \in Loop, Pass(s, l) PROVE TypeOK'
  <2>1. rows' \subseteq Direct /\ handled' \subseteq rows'
    BY <1>14 DEF Pass, StoreRow, TypeOK, store, HandlerInv, Of
  <2>2. at' \in [Session -> [Loop -> {"idle", "verify", "inject"}]]
    BY <1>14 DEF Pass, TypeOK
  <2> QED
    BY <1>14, <2>1, <2>2 DEF Pass, TypeOK, stream
<1>15. ASSUME NEW s \in Session, NEW l \in Loop, Inject(s, l) PROVE TypeOK'
  <2> DEFINE m == cur[s][l]
  <2>1. m \in Msg /\ m \notin Elems(order[s])
    BY <1>15 DEF Inject, HandlerInv, Of
  <2>2. recordDedup(order[s], m) \in Seq(Msg) /\ Append(shown[s], m) \in Seq(Msg)
    <3>1. order[s] \in Seq(Msg) /\ shown[s] \in Seq(Msg) /\ Len(order[s]) <= DedupLru
      BY DEF TypeOK, WindowInv
    <3>2. recordDedup(order[s], m) \in Seq(Msg)
      BY ONLY <2>1, <3>1, RecordDedup
    <3> QED
      BY <2>1, <3>1, <3>2
  <2>3. order' \in [Session -> Seq(Msg)] /\ shown' \in [Session -> Seq(Msg)]
    BY <1>15, <2>2 DEF Inject, TypeOK
  <2>4. js' \in [Direct -> {"none", "ready", "pending", "acked"}]
    BY <1>15 DEF Inject, Ack, TypeOK
  <2> QED
    BY <1>15, <2>3, <2>4 DEF Inject, Finish, TypeOK, store
<1>16. ASSUME NEW s \in Session, NEW l \in Loop, InjectFail(s, l) PROVE TypeOK'
  <2>1. faults' \in 0..MaxFaults
    BY <1>16 DEF InjectFail, TypeOK
  <2>2. js' \in [Direct -> {"none", "ready", "pending", "acked"}]
    BY <1>16 DEF InjectFail, Nak, TypeOK
  <2> QED
    BY <1>16, <2>1, <2>2 DEF InjectFail, Finish, TypeOK, store
<1>17. CASE Crash
  BY <1>17 DEF Crash, TypeOK, stream, store
<1>18. CASE UNCHANGED vars
  BY <1>18 DEF vars, TypeOK, stream, store
<1> QED
  BY <1>1, <1>2, <1>3, <1>4, <1>5, <1>6, <1>7, <1>8, <1>9, <1>10, <1>11, <1>12, <1>13, <1>14,
     <1>15, <1>16, <1>17, <1>18
  DEF Next

\* Messages are handed to the loop they belong to.
LEMMA BufStep == ASSUME TypeOK, BufInv, Next \/ UNCHANGED vars PROVE BufInv'
<1> USE InboxAssumption DEF Msg, Loop, Flaws
<1>1. ASSUME NEW m \in Msg, Publish(m) PROVE BufInv'
  <2> SUFFICES ASSUME NEW t \in Session, NEW k \in Loop PROVE buf'[t][k] \in Seq(Of(k))
    BY DEF BufInv
  <2>1. CASE m \in Topic /\ k = "topic"
    <3>1. Append(buf[t][k], m) \in Seq(Of(k))
      BY <2>1 DEF BufInv, Of
    <3> QED
      BY <1>1, <2>1, <3>1 DEF Publish, TypeOK, BufInv
  <2>2. CASE ~(m \in Topic /\ k = "topic")
    BY <1>1, <2>2 DEF Publish, TypeOK, BufInv
  <2> QED
    BY <2>1, <2>2
<1>2. ASSUME NEW m \in Msg, Expires(m) PROVE BufInv'
  BY <1>2 DEF Expires, TypeOK, BufInv, stream, store
<1>3. ASSUME NEW m \in Direct, AckWaitLate(m) PROVE BufInv'
  BY <1>3 DEF AckWaitLate, TypeOK, BufInv, stream, store
<1>4. ASSUME NEW m \in Direct, AckWait(m) PROVE BufInv'
  BY <1>4 DEF AckWait, TypeOK, BufInv, stream, store
<1>5. ASSUME NEW m \in Direct, AgentAck(m) PROVE BufInv'
  BY <1>5 DEF AgentAck, TypeOK, BufInv, stream, store
<1>6. ASSUME NEW s \in Session, NEW m \in Direct, Deliver(s, m) PROVE BufInv'
  <2>1. Append(buf[s]["inbox"], m) \in Seq(Of("inbox"))
    BY DEF BufInv, Of
  <2> QED
    BY <1>6, <2>1 DEF Deliver, TypeOK, BufInv
<1>7. ASSUME NEW s \in Session, StartSession(s) PROVE BufInv'
  BY <1>7 DEF StartSession, TypeOK, BufInv, stream, store
<1>8. ASSUME NEW s \in Session, StopSession(s) PROVE BufInv'
  <2>1. PICK b \in {buf[s], [k \in Loop |-> <<>>]} : buf' = [buf EXCEPT ![s] = b]
    BY <1>8 DEF StopSession
  <2>2. \A k \in Loop : <<>> \in Seq(Of(k)) /\ buf[s][k] \in Seq(Of(k))
    BY DEF BufInv
  <2>3. \A k \in Loop : b[k] \in Seq(Of(k))
    BY <2>1, <2>2
  <2> QED
    BY <2>1, <2>3 DEF TypeOK, BufInv
<1>9. ASSUME NEW s \in Session, Throttle(s) PROVE BufInv'
  BY <1>9 DEF Throttle, Ack, Finish, TypeOK, BufInv, stream, store
<1>10. ASSUME NEW s \in Session, PersistFail(s) PROVE BufInv'
  BY <1>10 DEF PersistFail, Nak, Finish, TypeOK, BufInv, stream, store
<1>11. ASSUME NEW s \in Session, NEW l \in Loop, Take(s, l) PROVE BufInv'
  <2>1. Tail(buf[s][l]) \in Seq(Of(l))
    BY <1>11, ElemsTail DEF Take, BufInv
  <2> QED
    BY <1>11, <2>1 DEF Take, TypeOK, BufInv
<1>12. ASSUME NEW s \in Session, NEW l \in Loop, Drop(s, l) PROVE BufInv'
  BY <1>12 DEF Drop, Ack, Finish, TypeOK, BufInv, stream, store
<1>13. ASSUME NEW s \in Session, NEW l \in Loop, KeyFault(s, l) PROVE BufInv'
  BY <1>13 DEF KeyFault, Ack, Finish, TypeOK, BufInv, stream, store
<1>14. ASSUME NEW s \in Session, NEW l \in Loop, Pass(s, l) PROVE BufInv'
  BY <1>14 DEF Pass, StoreRow, TypeOK, BufInv, stream, store
<1>15. ASSUME NEW s \in Session, NEW l \in Loop, Inject(s, l) PROVE BufInv'
  BY <1>15 DEF Inject, Ack, Finish, TypeOK, BufInv, stream, store
<1>16. ASSUME NEW s \in Session, NEW l \in Loop, InjectFail(s, l) PROVE BufInv'
  BY <1>16 DEF InjectFail, Nak, Finish, TypeOK, BufInv, stream, store
<1>17. CASE Crash
  BY <1>17 DEF Crash, TypeOK, BufInv, stream, store
<1>18. CASE UNCHANGED vars
  BY <1>18 DEF vars, TypeOK, BufInv, stream, store
<1> QED
  BY <1>1, <1>2, <1>3, <1>4, <1>5, <1>6, <1>7, <1>8, <1>9, <1>10, <1>11, <1>12, <1>13, <1>14,
     <1>15, <1>16, <1>17, <1>18
  DEF Next

\* What a handler knows of its message stays true while it awaits, whatever others do.
LEMMA HandlerStep ==
    ASSUME TypeOK, BufInv, HandlerInv, WindowInv, Next \/ UNCHANGED vars PROVE HandlerInv'
<1> USE InboxAssumption DEF Msg, Loop, Flaws
<1>1. ASSUME NEW m \in Msg, Publish(m) PROVE HandlerInv'
  BY <1>1 DEF Publish, TypeOK, HandlerInv, stream, store
<1>2. ASSUME NEW m \in Msg, Expires(m) PROVE HandlerInv'
  BY <1>2 DEF Expires, TypeOK, HandlerInv, stream, store
<1>3. ASSUME NEW m \in Direct, AckWaitLate(m) PROVE HandlerInv'
  BY <1>3 DEF AckWaitLate, TypeOK, HandlerInv, stream, store
<1>4. ASSUME NEW m \in Direct, AckWait(m) PROVE HandlerInv'
  BY <1>4 DEF AckWait, TypeOK, HandlerInv, stream, store
<1>5. ASSUME NEW m \in Direct, AgentAck(m) PROVE HandlerInv'
  BY <1>5 DEF AgentAck, TypeOK, HandlerInv, stream, store
<1>6. ASSUME NEW s \in Session, NEW m \in Direct, Deliver(s, m) PROVE HandlerInv'
  BY <1>6 DEF Deliver, TypeOK, HandlerInv, stream, store
<1>7. ASSUME NEW s \in Session, StartSession(s) PROVE HandlerInv'
  BY <1>7 DEF StartSession, TypeOK, HandlerInv, stream, store
<1>8. ASSUME NEW s \in Session, StopSession(s) PROVE HandlerInv'
  BY <1>8 DEF StopSession, TypeOK, HandlerInv, stream, store
<1>9. ASSUME NEW s \in Session, Throttle(s) PROVE HandlerInv'
  BY <1>9 DEF Throttle, Ack, Finish, TypeOK, HandlerInv, stream, store
<1>10. ASSUME NEW s \in Session, PersistFail(s) PROVE HandlerInv'
  BY <1>10 DEF PersistFail, Nak, Finish, TypeOK, HandlerInv, stream, store
<1>11. ASSUME NEW s \in Session, NEW l \in Loop, Take(s, l) PROVE HandlerInv'
  <2> DEFINE m == Head(buf[s][l])
  <2>1. m \in Of(l)
    BY <1>11, ElemsTail DEF Take, BufInv
  <2>2. CASE Flaw[m] = "malformed"
    BY <1>11, <2>2 DEF Take, HandlerInv, store
  <2>3. CASE Flaw[m] # "malformed"
    <3>1. /\ at' = [at EXCEPT ![s][l] = "verify"]
          /\ cur' = [cur EXCEPT ![s][l] = m]
      BY <1>11, <2>3 DEF Take
    <3> QED
      BY <1>11, <2>1, <2>3, <3>1 DEF Take, TypeOK, HandlerInv, store
  <2> QED
    BY <2>2, <2>3
<1>12. ASSUME NEW s \in Session, NEW l \in Loop, Drop(s, l) PROVE HandlerInv'
  BY <1>12 DEF Drop, Ack, Finish, TypeOK, HandlerInv, stream, store
<1>13. ASSUME NEW s \in Session, NEW l \in Loop, KeyFault(s, l) PROVE HandlerInv'
  BY <1>13 DEF KeyFault, Ack, Finish, TypeOK, HandlerInv, stream, store
<1>14. ASSUME NEW s \in Session, NEW l \in Loop, Pass(s, l) PROVE HandlerInv'
  <2>1. /\ cur[s][l] \in Of(l) /\ cur[s][l] \in Msg
        /\ Flaw[cur[s][l]] = "none" /\ cur[s][l] \notin Elems(order[s])
    BY <1>14 DEF Pass, HandlerInv, Refused, Of
  <2>2. rows \subseteq rows' /\ (l = "inbox" => cur[s][l] \in rows')
    BY <1>14 DEF Pass, StoreRow, store
  <2>3. at' = [at EXCEPT ![s][l] = "inject"] /\ cur' = cur /\ order' = order
    BY <1>14 DEF Pass
  <2> QED
    BY <2>1, <2>2, <2>3 DEF TypeOK, HandlerInv
<1>15. ASSUME NEW s \in Session, NEW l \in Loop, Inject(s, l) PROVE HandlerInv'
  <2> DEFINE m == cur[s][l]
  <2>1. m \in Of(l) /\ m \notin Elems(order[s])
    BY <1>15 DEF Inject, HandlerInv
  <2>2. Elems(recordDedup(order[s], m)) \subseteq Elems(order[s]) \cup {m}
    BY <2>1, RecordDedup DEF TypeOK, WindowInv, Of
  <2> SUFFICES ASSUME NEW t \in Session, NEW k \in Loop, at'[t][k] = "inject"
               PROVE  cur'[t][k] \notin Elems(order'[t])
    BY <1>15 DEF Inject, Finish, TypeOK, HandlerInv, store
  <2>3. at[t][k] = "inject" /\ cur'[t][k] = cur[t][k] /\ ~(t = s /\ k = l)
    BY <1>15 DEF Inject, Finish, TypeOK
  <2>4. cur[t][k] \in Of(k) /\ cur[t][k] \notin Elems(order[t])
    BY <2>3 DEF HandlerInv
  <2>5. CASE t = s
    <3>1. cur[t][k] # m
      BY <2>1, <2>3, <2>4, <2>5 DEF Of
    <3>2. order'[s] = recordDedup(order[s], m)
      BY <1>15 DEF Inject, TypeOK
    <3> QED
      BY <2>2, <2>3, <2>4, <2>5, <3>1, <3>2
  <2>6. CASE t # s
    BY <1>15, <2>3, <2>4, <2>6 DEF Inject, TypeOK
  <2> QED
    BY <2>5, <2>6
<1>16. ASSUME NEW s \in Session, NEW l \in Loop, InjectFail(s, l) PROVE HandlerInv'
  BY <1>16 DEF InjectFail, Nak, Finish, TypeOK, HandlerInv, stream, store
<1>17. CASE Crash
  BY <1>17 DEF Crash, TypeOK, HandlerInv, stream, store
<1>18. CASE UNCHANGED vars
  BY <1>18 DEF vars, TypeOK, HandlerInv, stream, store
<1> QED
  BY <1>1, <1>2, <1>3, <1>4, <1>5, <1>6, <1>7, <1>8, <1>9, <1>10, <1>11, <1>12, <1>13, <1>14,
     <1>15, <1>16, <1>17, <1>18
  DEF Next

\* A message is stored and shown after it has passed every check.
LEMMA ShownStep == ASSUME TypeOK, HandlerInv, ShownInv, Next \/ UNCHANGED vars PROVE ShownInv'
<1> USE InboxAssumption DEF Msg, Loop, Flaws
<1>1. ASSUME NEW m \in Msg, Publish(m) PROVE ShownInv'
  BY <1>1 DEF Publish, TypeOK, ShownInv, stream, store
<1>2. ASSUME NEW m \in Msg, Expires(m) PROVE ShownInv'
  BY <1>2 DEF Expires, TypeOK, ShownInv, stream, store
<1>3. ASSUME NEW m \in Direct, AckWaitLate(m) PROVE ShownInv'
  BY <1>3 DEF AckWaitLate, TypeOK, ShownInv, stream, store
<1>4. ASSUME NEW m \in Direct, AckWait(m) PROVE ShownInv'
  BY <1>4 DEF AckWait, TypeOK, ShownInv, stream, store
<1>5. ASSUME NEW m \in Direct, AgentAck(m) PROVE ShownInv'
  BY <1>5 DEF AgentAck, TypeOK, ShownInv, stream, store
<1>6. ASSUME NEW s \in Session, NEW m \in Direct, Deliver(s, m) PROVE ShownInv'
  BY <1>6 DEF Deliver, TypeOK, ShownInv, stream, store
<1>7. ASSUME NEW s \in Session, StartSession(s) PROVE ShownInv'
  BY <1>7 DEF StartSession, TypeOK, ShownInv, stream, store
<1>8. ASSUME NEW s \in Session, StopSession(s) PROVE ShownInv'
  BY <1>8 DEF StopSession, TypeOK, ShownInv, stream, store
<1>9. ASSUME NEW s \in Session, Throttle(s) PROVE ShownInv'
  BY <1>9 DEF Throttle, Ack, Finish, TypeOK, ShownInv, stream, store
<1>10. ASSUME NEW s \in Session, PersistFail(s) PROVE ShownInv'
  BY <1>10 DEF PersistFail, Nak, Finish, TypeOK, ShownInv, stream, store
<1>11. ASSUME NEW s \in Session, NEW l \in Loop, Take(s, l) PROVE ShownInv'
  BY <1>11 DEF Take, Ack, TypeOK, ShownInv, stream, store
<1>12. ASSUME NEW s \in Session, NEW l \in Loop, Drop(s, l) PROVE ShownInv'
  BY <1>12 DEF Drop, Ack, Finish, TypeOK, ShownInv, stream, store
<1>13. ASSUME NEW s \in Session, NEW l \in Loop, KeyFault(s, l) PROVE ShownInv'
  BY <1>13 DEF KeyFault, Ack, Finish, TypeOK, ShownInv, stream, store
<1>14. ASSUME NEW s \in Session, NEW l \in Loop, Pass(s, l) PROVE ShownInv'
  BY <1>14 DEF Pass, StoreRow, TypeOK, ShownInv, stream, store, HandlerInv, Of, Refused
<1>15. ASSUME NEW s \in Session, NEW l \in Loop, Inject(s, l) PROVE ShownInv'
  <2> DEFINE m == cur[s][l]
  <2>1. m \in Msg /\ Flaw[m] = "none" /\ (m \in Direct => m \in rows)
    BY <1>15 DEF Inject, HandlerInv, Of
  <2>2. ASSUME NEW t \in Session, NEW i \in 1..Len(shown'[t])
        PROVE  shown'[t][i] = m \/ (i \in 1..Len(shown[t]) /\ shown'[t][i] = shown[t][i])
    BY <1>15, <2>1, <2>2 DEF Inject, TypeOK
  <2> QED
    BY <1>15, <2>1, <2>2 DEF Inject, ShownInv, store
<1>16. ASSUME NEW s \in Session, NEW l \in Loop, InjectFail(s, l) PROVE ShownInv'
  BY <1>16 DEF InjectFail, Nak, Finish, TypeOK, ShownInv, stream, store
<1>17. CASE Crash
  BY <1>17 DEF Crash, TypeOK, ShownInv, stream, store
<1>18. CASE UNCHANGED vars
  BY <1>18 DEF vars, TypeOK, ShownInv, stream, store
<1> QED
  BY <1>1, <1>2, <1>3, <1>4, <1>5, <1>6, <1>7, <1>8, <1>9, <1>10, <1>11, <1>12, <1>13, <1>14,
     <1>15, <1>16, <1>17, <1>18
  DEF Next

\* The dedup list follows what is shown.
LEMMA WindowStep ==
    ASSUME TypeOK, HandlerInv, WindowInv, DedupWindow, Next \/ UNCHANGED vars
    PROVE  WindowInv' /\ DedupWindow'
<1> USE InboxAssumption DEF Msg, Loop, Flaws
<1>1. ASSUME NEW m \in Msg, Publish(m) PROVE (WindowInv /\ DedupWindow)'
  BY <1>1 DEF Publish, TypeOK, WindowInv, DedupWindow, stream, store
<1>2. ASSUME NEW m \in Msg, Expires(m) PROVE (WindowInv /\ DedupWindow)'
  BY <1>2 DEF Expires, TypeOK, WindowInv, DedupWindow, stream, store
<1>3. ASSUME NEW m \in Direct, AckWaitLate(m) PROVE (WindowInv /\ DedupWindow)'
  BY <1>3 DEF AckWaitLate, TypeOK, WindowInv, DedupWindow, stream, store
<1>4. ASSUME NEW m \in Direct, AckWait(m) PROVE (WindowInv /\ DedupWindow)'
  BY <1>4 DEF AckWait, TypeOK, WindowInv, DedupWindow, stream, store
<1>5. ASSUME NEW m \in Direct, AgentAck(m) PROVE (WindowInv /\ DedupWindow)'
  BY <1>5 DEF AgentAck, TypeOK, WindowInv, DedupWindow, stream, store
<1>6. ASSUME NEW s \in Session, NEW m \in Direct, Deliver(s, m) PROVE (WindowInv /\ DedupWindow)'
  BY <1>6 DEF Deliver, TypeOK, WindowInv, DedupWindow, stream, store
<1>7. ASSUME NEW s \in Session, StartSession(s) PROVE (WindowInv /\ DedupWindow)'
  BY <1>7 DEF StartSession, TypeOK, WindowInv, DedupWindow, stream, store
<1>8. ASSUME NEW s \in Session, StopSession(s) PROVE (WindowInv /\ DedupWindow)'
  BY <1>8 DEF StopSession, TypeOK, WindowInv, DedupWindow, stream, store
<1>9. ASSUME NEW s \in Session, Throttle(s) PROVE (WindowInv /\ DedupWindow)'
  BY <1>9 DEF Throttle, Ack, Finish, TypeOK, WindowInv, DedupWindow, stream, store
<1>10. ASSUME NEW s \in Session, PersistFail(s) PROVE (WindowInv /\ DedupWindow)'
  BY <1>10 DEF PersistFail, Nak, Finish, TypeOK, WindowInv, DedupWindow, stream, store
<1>11. ASSUME NEW s \in Session, NEW l \in Loop, Take(s, l) PROVE (WindowInv /\ DedupWindow)'
  BY <1>11 DEF Take, Ack, TypeOK, WindowInv, DedupWindow, stream, store
<1>12. ASSUME NEW s \in Session, NEW l \in Loop, Drop(s, l) PROVE (WindowInv /\ DedupWindow)'
  BY <1>12 DEF Drop, Ack, Finish, TypeOK, WindowInv, DedupWindow, stream, store
<1>13. ASSUME NEW s \in Session, NEW l \in Loop, KeyFault(s, l) PROVE (WindowInv /\ DedupWindow)'
  BY <1>13 DEF KeyFault, Ack, Finish, TypeOK, WindowInv, DedupWindow, stream, store
<1>14. ASSUME NEW s \in Session, NEW l \in Loop, Pass(s, l) PROVE (WindowInv /\ DedupWindow)'
  BY <1>14 DEF Pass, StoreRow, TypeOK, WindowInv, DedupWindow, stream, store
<1>15. ASSUME NEW s \in Session, NEW l \in Loop, Inject(s, l) PROVE (WindowInv /\ DedupWindow)'
  <2> DEFINE m == cur[s][l]
             o == order[s]
             h == shown[s]
             n == recordDedup(o, m)
             g == Append(h, m)
  <2>1. m \in Msg /\ m \notin Elems(o) /\ o \in Seq(Msg) /\ h \in Seq(Msg)
    BY <1>15 DEF Inject, HandlerInv, Of, TypeOK
  <2>2. /\ Len(o) <= Len(h) /\ Len(o) <= DedupLru
        /\ Len(o) < DedupLru => Len(o) = Len(h)
        /\ \A i \in 1..Len(o) : o[i] = h[Len(h) - Len(o) + i]
    BY DEF WindowInv
  <2>3. /\ order' = [order EXCEPT ![s] = n]
        /\ shown' = [shown EXCEPT ![s] = Append(h, m)]
    BY <1>15 DEF Inject
  <2>4. g \in Seq(Msg) /\ Len(g) = Len(h) + 1
    BY <2>1
  <2>5. /\ Len(n) <= Len(h) + 1 /\ Len(n) <= DedupLru
        /\ Len(n) < DedupLru => Len(n) = Len(h) + 1
        /\ \A i \in 1..Len(n) : n[i] = g[Len(h) + 1 - Len(n) + i]
    BY ONLY <2>1, <2>2, WindowShift
  <2>6. WindowInv'
    <3> SUFFICES ASSUME NEW t \in Session
                 PROVE  /\ Len(order'[t]) <= Len(shown'[t])
                        /\ Len(order'[t]) <= DedupLru
                        /\ Len(order'[t]) < DedupLru => Len(order'[t]) = Len(shown'[t])
                        /\ \A i \in 1..Len(order'[t]) :
                               order'[t][i] = shown'[t][Len(shown'[t]) - Len(order'[t]) + i]
      BY DEF WindowInv
    <3>1. CASE t = s
      <4>1. order'[t] = n /\ shown'[t] = g
        BY <2>3, <3>1 DEF TypeOK
      <4>2. /\ Len(n) <= Len(g) /\ Len(n) <= DedupLru
            /\ Len(n) < DedupLru => Len(n) = Len(g)
            /\ \A i \in 1..Len(n) : n[i] = g[Len(g) - Len(n) + i]
        <5> HIDE DEF n, m, h, o, g
        <5> QED
          BY SMTT(40), <2>4, <2>5
      <4> HIDE DEF n, m, h, o, g
      <4> QED
        BY <4>1, <4>2, Zenon
    <3>2. CASE t # s
      BY <2>3, <3>2 DEF WindowInv, TypeOK
    <3> QED
      BY <3>1, <3>2
  <2>7. \A i \in 1..Len(h) : h[i] = m => Len(h) + 1 - i > DedupLru
    BY ONLY <2>1, <2>2, WindowMiss
  <2>8. ASSUME NEW t \in Session, NEW i \in 1..Len(shown'[t]), NEW j \in 1..Len(shown'[t]),
               i < j, shown'[t][i] = shown'[t][j]
        PROVE  j - i > DedupLru
    <3>1. CASE t = s /\ j = Len(h) + 1
      BY <2>1, <2>3, <2>7, <2>8, <3>1 DEF TypeOK
    <3>2. CASE t = s /\ j # Len(h) + 1
      <4>1. shown'[t] = Append(h, m) /\ Len(shown'[t]) = Len(h) + 1
        BY <2>1, <2>3, <3>2 DEF TypeOK
      <4>2. i \in 1..Len(h) /\ j \in 1..Len(h)
        BY <2>1, <2>8, <3>2, <4>1
      <4>3. h[i] = h[j]
        BY <2>1, <2>8, <4>1, <4>2
      <4> QED
        BY <2>8, <3>2, <4>2, <4>3 DEF DedupWindow
    <3>3. CASE t # s
      BY <2>3, <2>8, <3>3 DEF DedupWindow, TypeOK
    <3> QED
      BY <3>1, <3>2, <3>3
  <2>9. DedupWindow'
    BY <2>8 DEF DedupWindow
  <2> QED
    BY <2>6, <2>9
<1>16. ASSUME NEW s \in Session, NEW l \in Loop, InjectFail(s, l) PROVE (WindowInv /\ DedupWindow)'
  BY <1>16 DEF InjectFail, Nak, Finish, TypeOK, WindowInv, DedupWindow, stream, store
<1>17. CASE Crash
  BY <1>17 DEF Crash, TypeOK, WindowInv, DedupWindow, stream, store
<1>18. CASE UNCHANGED vars
  BY <1>18 DEF vars, TypeOK, WindowInv, DedupWindow, stream, store
<1> QED
  BY <1>1, <1>2, <1>3, <1>4, <1>5, <1>6, <1>7, <1>8, <1>9, <1>10, <1>11, <1>12, <1>13, <1>14,
     <1>15, <1>16, <1>17, <1>18
  DEF Next

\* A message is acked when it was shown, or by a session that has shown it before.
LEMMA AckStep ==
    ASSUME TypeOK, BufInv, HandlerInv, WindowInv, AckedWasShown, Next \/ UNCHANGED vars
    PROVE  AckedWasShown'
<1> USE InboxAssumption DEF Msg, Loop, Flaws
<1>1. ASSUME NEW m \in Msg, Publish(m) PROVE AckedWasShown'
  BY <1>1 DEF Publish, TypeOK, AckedWasShown, Seen, stream, store
<1>2. ASSUME NEW m \in Msg, Expires(m) PROVE AckedWasShown'
  BY <1>2 DEF Expires, TypeOK, AckedWasShown, Seen, stream, store
<1>3. ASSUME NEW m \in Direct, AckWaitLate(m) PROVE AckedWasShown'
  BY <1>3 DEF AckWaitLate, TypeOK, AckedWasShown, Seen, stream, store
<1>4. ASSUME NEW m \in Direct, AckWait(m) PROVE AckedWasShown'
  BY <1>4 DEF AckWait, TypeOK, AckedWasShown, Seen, stream, store
<1>5. ASSUME NEW m \in Direct, AgentAck(m) PROVE AckedWasShown'
  BY <1>5 DEF AgentAck, TypeOK, AckedWasShown, Seen, stream, store
<1>6. ASSUME NEW s \in Session, NEW m \in Direct, Deliver(s, m) PROVE AckedWasShown'
  BY <1>6 DEF Deliver, TypeOK, AckedWasShown, Seen, stream, store
<1>7. ASSUME NEW s \in Session, StartSession(s) PROVE AckedWasShown'
  BY <1>7 DEF StartSession, TypeOK, AckedWasShown, Seen, stream, store
<1>8. ASSUME NEW s \in Session, StopSession(s) PROVE AckedWasShown'
  BY <1>8 DEF StopSession, TypeOK, AckedWasShown, Seen, stream, store
<1>9. ASSUME NEW s \in Session, Throttle(s) PROVE AckedWasShown'
  BY <1>9 DEF Throttle, Ack, Finish, TypeOK, AckedWasShown, Seen, stream, store,
     HandlerInv, Of
<1>10. ASSUME NEW s \in Session, PersistFail(s) PROVE AckedWasShown'
  BY <1>10 DEF PersistFail, Nak, Finish, TypeOK, AckedWasShown, Seen, stream, store,
     HandlerInv, Of
<1>11. ASSUME NEW s \in Session, NEW l \in Loop, Take(s, l) PROVE AckedWasShown'
  <2>1. Head(buf[s][l]) \in Of(l)
    BY <1>11, ElemsTail DEF Take, BufInv
  <2> QED
    BY <1>11, <2>1 DEF Take, Ack, Of, TypeOK, AckedWasShown, Seen
<1>12. ASSUME NEW s \in Session, NEW l \in Loop, Drop(s, l) PROVE AckedWasShown'
  <2> DEFINE m == cur[s][l]
  <2>1. m \in Of(l)
    BY <1>12 DEF Drop, HandlerInv
  <2>2. m \in Elems(order[s]) => Seen(m)
    <3> SUFFICES ASSUME NEW i \in 1..Len(order[s]), m = order[s][i] PROVE Seen(m)
      BY DEF Elems
    <3>1. Len(shown[s]) - Len(order[s]) + i \in 1..Len(shown[s])
      BY DEF WindowInv, TypeOK
    <3>2. m = shown[s][Len(shown[s]) - Len(order[s]) + i]
      BY DEF WindowInv
    <3> QED
      BY <3>1, <3>2 DEF Seen, Elems
  <2>3. Flaw[m] = "none" /\ m \notin expired => Seen(m)
    BY <1>12, <2>2 DEF Drop, Refused
  <2> QED
    BY <1>12, <2>1, <2>3 DEF Drop, Ack, Of, TypeOK, AckedWasShown, Seen
<1>13. ASSUME NEW s \in Session, NEW l \in Loop, KeyFault(s, l) PROVE AckedWasShown'
  BY <1>13 DEF KeyFault, Ack, Finish, TypeOK, AckedWasShown, Seen, stream, store,
     HandlerInv, Of
<1>14. ASSUME NEW s \in Session, NEW l \in Loop, Pass(s, l) PROVE AckedWasShown'
  BY <1>14 DEF Pass, StoreRow, TypeOK, AckedWasShown, Seen, stream, store
<1>15. ASSUME NEW s \in Session, NEW l \in Loop, Inject(s, l) PROVE AckedWasShown'
  <2> DEFINE m == cur[s][l]
  <2>1. m \in Of(l) /\ m \in Msg
    BY <1>15 DEF Inject, HandlerInv, Of
  <2>2. shown[s] \in Seq(Msg) /\ shown' = [shown EXCEPT ![s] = Append(shown[s], m)]
    BY <1>15 DEF Inject, TypeOK
  <2>3. Elems(Append(shown[s], m)) = Elems(shown[s]) \cup {m}
    BY ONLY <2>1, <2>2, ElemsAppend
  <2>4. m \in Elems(shown'[s])
    BY <2>2, <2>3 DEF TypeOK
  <2>5. ASSUME NEW d \in Direct, Seen(d) PROVE Seen(d)'
    <3>1. PICK t \in Session : d \in Elems(shown[t])
      BY <2>5 DEF Seen
    <3>2. d \in Elems(shown'[t])
      BY <2>2, <2>3, <3>1 DEF TypeOK
    <3> QED
      BY <3>2 DEF Seen
  <2>6. js' = (IF l = "inbox" THEN [js EXCEPT ![m] = "acked"] ELSE js)
        /\ expired' = expired /\ lost' = lost
    BY <1>15 DEF Inject, Ack
  <2>7. ASSUME NEW d \in Direct, js'[d] = "acked", js[d] # "acked" PROVE Seen(d)'
    BY <2>1, <2>4, <2>6, <2>7 DEF Of, TypeOK, Seen
  <2> QED
    BY <2>5, <2>6, <2>7 DEF TypeOK, AckedWasShown
<1>16. ASSUME NEW s \in Session, NEW l \in Loop, InjectFail(s, l) PROVE AckedWasShown'
  BY <1>16 DEF InjectFail, Nak, Finish, TypeOK, AckedWasShown, Seen, stream, store,
     HandlerInv, Of
<1>17. CASE Crash
  BY <1>17 DEF Crash, TypeOK, AckedWasShown, Seen, stream, store
<1>18. CASE UNCHANGED vars
  BY <1>18 DEF vars, TypeOK, AckedWasShown, Seen, stream, store
<1> QED
  BY <1>1, <1>2, <1>3, <1>4, <1>5, <1>6, <1>7, <1>8, <1>9, <1>10, <1>11, <1>12, <1>13, <1>14,
     <1>15, <1>16, <1>17, <1>18
  DEF Next

\* The invariant holds in the initial state.
LEMMA InitInv == Init => IInv
<1> SUFFICES ASSUME Init PROVE IInv
  OBVIOUS
<1> USE InboxAssumption DEF Msg, Loop
<1>1. TypeOK
  <2>1. faults \in 0..MaxFaults /\ lost \subseteq Msg /\ tries \in [Direct -> 0..MaxDeliver]
    BY DEF Init
  <2>2. sess \in [Session -> {"new", "up", "stopped", "dead"}]
        /\ js \in [Direct -> {"none", "ready", "pending", "acked"}]
    BY DEF Init
  <2>3. buf \in [Session -> [Loop -> Seq(Msg)]]
        /\ order \in [Session -> Seq(Msg)] /\ shown \in [Session -> Seq(Msg)]
    BY DEF Init
  <2>4. at \in [Session -> [Loop -> {"idle", "verify", "inject"}]]
        /\ cur \in [Session -> [Loop -> Msg \cup {NoMsg}]]
    BY DEF Init
  <2> QED
    BY <2>1, <2>2, <2>3, <2>4 DEF Init, TypeOK
<1>2. BufInv /\ HandlerInv
  BY DEF Init, BufInv, HandlerInv
<1>3. ShownInv /\ WindowInv /\ DedupWindow
  BY DEF Init, ShownInv, WindowInv, DedupWindow
<1>4. AckedWasShown
  BY DEF Init, AckedWasShown
<1> QED
  BY <1>1, <1>2, <1>3, <1>4 DEF IInv

\* IInv is an invariant of the receive path.
LEMMA Invariance == Spec => []IInv
<1>1. IInv /\ [Next]_vars => IInv'
  BY TypeStep, BufStep, HandlerStep, ShownStep, WindowStep, AckStep DEF IInv
<1> QED
  BY InitInv, <1>1, PTL DEF Spec

-----------------------------------------------------------------------------
(* What the receive path promises *)

\* Types hold throughout; only a stored message is ever acknowledged by the agent.
THEOREM TypeCorrect == Spec => []TypeOK
<1>1. IInv => TypeOK
  BY DEF IInv
<1> QED
  BY Invariance, <1>1, PTL

\* Whatever is redelivered, fails or crashes, a direct message the agent was shown is in
\* the inbox store.
THEOREM PersistedBeforeShownHolds == Spec => []PersistedBeforeShown
<1>1. IInv => PersistedBeforeShown
  BY DEF IInv, ShownInv, PersistedBeforeShown, Seen, Elems
<1> QED
  BY Invariance, <1>1, PTL

\* No forged, malformed, misaddressed or echoed message is ever shown or stored, on either
\* loop, in any session.
THEOREM FailClosedHolds == Spec => []FailClosed
<1>1. IInv => FailClosed
  BY DEF IInv, ShownInv, FailClosed, Seen, Elems
<1> QED
  BY Invariance, <1>1, PTL

\* For every size of the dedup list and every interleaving of the two loops, a session
\* repeats a message only after at least that many others.
THEOREM DedupWindowHolds == Spec => []DedupWindow
<1>1. IInv => DedupWindow
  BY DEF IInv
<1> QED
  BY Invariance, <1>1, PTL

\* What an agent is shown is in the store before it, and not shown again too soon: the two
\* results above together, as the run checks them.
THEOREM InboxSafeHolds == Spec => []InboxSafe
BY PersistedBeforeShownHolds, DedupWindowHolds, PTL DEF InboxSafe

\* A legitimate message that has not expired and was not dropped by the gate or for a failed key
\* fetch is acked only after some session has shown it.
THEOREM AckedWasShownHolds == Spec => []AckedWasShown
<1>1. IInv => AckedWasShown
  BY DEF IInv
<1> QED
  BY Invariance, <1>1, PTL

\* What the agent has acknowledged stays acknowledged, in every step of every session.
THEOREM HandledStickyHolds == Spec => HandledSticky
<1>1. [Next]_vars => [handled \subseteq handled']_vars
  <2> SUFFICES ASSUME Next PROVE handled \subseteq handled'
    OBVIOUS
  <2>1. ASSUME NEW m \in Msg, Publish(m) \/ Expires(m) PROVE handled' = handled
    BY <2>1 DEF Publish, Expires, store
  <2>2. ASSUME NEW m \in Direct, AckWaitLate(m) \/ AckWait(m) \/ AgentAck(m)
                                   \/ \E s \in Session : Deliver(s, m)
        PROVE  handled \subseteq handled'
    BY <2>2 DEF AckWaitLate, AckWait, AgentAck, Deliver, store
  <2>3. ASSUME NEW s \in Session, StartSession(s) \/ StopSession(s) \/ Throttle(s) \/ PersistFail(s)
        PROVE  handled' = handled
    BY <2>3 DEF StartSession, StopSession, Throttle, PersistFail, store
  <2>4. ASSUME NEW s \in Session, NEW l \in Loop,
               \/ Take(s, l) \/ Drop(s, l) \/ KeyFault(s, l) \/ Pass(s, l)
               \/ Inject(s, l) \/ InjectFail(s, l)
        PROVE  handled' = handled
    BY <2>4 DEF Take, Drop, KeyFault, Pass, StoreRow, Inject, InjectFail, store
  <2>5. CASE Crash
    BY <2>5 DEF Crash, store
  <2> QED
    BY <2>1, <2>2, <2>3, <2>4, <2>5 DEF Next
<1> QED
  BY <1>1, PTL DEF Spec, HandledSticky

------------------------------------------------------------------------------
(* The verification keys: for any number of handlers and keys and any timeouts. *)

\* What is known of a running fetch: it is not older than the timeout, and the key
\* Redis read for it was current at some moment since it was sent.
FetchOk(h) ==
    phase[h] # "idle" =>
        /\ sentAt[h] <= now
        /\ now <= sentAt[h] + Timeout
        /\ got[h] \in Keys!Key => sentAt[h] <= Keys!LastCurrent(got[h])

\* The strengthening of BoundedStaleness: the same bound for the cached key.
StaleInv ==
    /\ \A k \in Keys!Key : until[k] <= now
    /\ cache # Keys!Absent => exp <= Keys!LastCurrent(cache) + Ttl + Timeout
    /\ \A h \in Handler : FetchOk(h)
    /\ BoundedStaleness

\* The strengthening of NoFalseReject: while nothing has changed or failed, Redis
\* holds, and every answer carries, the key of the message.
CleanInv ==
    \A h \in Handler :
        clean[h] => /\ sig[h] = redisKey
                    /\ got[h] \in {Keys!Unread, redisKey}
                    /\ outcome[h] # "bad"

\* The state of the key cache is always well typed.
THEOREM KeysTypeCorrect == Keys!Spec => []Keys!TypeOK
  <1> USE KeysAssume DEF Keys!KeysAssumption
  <1>1. Keys!Init => Keys!TypeOK
    BY DEF Keys!Init, Keys!TypeOK, Keys!Key, Keys!Absent, Keys!Unread
  <1>2. Keys!TypeOK /\ [Keys!Next]_(Keys!vars) => Keys!TypeOK'
    <2> SUFFICES ASSUME Keys!TypeOK, [Keys!Next]_(Keys!vars) PROVE Keys!TypeOK'
      OBVIOUS
    <2>1. ASSUME NEW h \in Handler, NEW k \in Keys!Key, Keys!Verify(h, k) PROVE Keys!TypeOK'
      BY <2>1 DEF Keys!Verify, Keys!Done, Keys!Retry, Keys!Fetch, Keys!TypeOK
    <2>2. ASSUME NEW h \in Handler, Keys!Read(h) PROVE Keys!TypeOK'
      BY <2>2 DEF Keys!Read, Keys!TypeOK
    <2>3. ASSUME NEW h \in Handler, Keys!Answer(h) PROVE Keys!TypeOK'
      <3>1. got[h] \in Keys!Key \cup {Keys!Absent}
        BY <2>3 DEF Keys!Answer, Keys!TypeOK
      <3>2. cache' \in Keys!Key \cup {Keys!Absent} /\ exp' \in 0..MaxTime + Ttl
        BY <2>3, <3>1 DEF Keys!Answer, Keys!CacheSet, Keys!TypeOK
      <3> QED
        BY <2>3, <3>2 DEF Keys!Answer, Keys!Done, Keys!Retry, Keys!Fetch, Keys!TypeOK
    <2>4. ASSUME NEW h \in Handler, Keys!FetchFail(h) PROVE Keys!TypeOK'
      BY <2>4 DEF Keys!FetchFail, Keys!Done, Keys!Retry, Keys!Fetch, Keys!TypeOK
    <2>5. ASSUME NEW k \in Keys!Key \cup {Keys!Absent}, Keys!Rotate(k) PROVE Keys!TypeOK'
      BY <2>5 DEF Keys!Rotate, Keys!TypeOK
    <2>6. ASSUME Keys!Evict PROVE Keys!TypeOK'
      BY <2>6 DEF Keys!Evict, Keys!TypeOK
    <2>7. ASSUME Keys!Tick PROVE Keys!TypeOK'
      BY <2>7 DEF Keys!Tick, Keys!TypeOK
    <2>8. ASSUME UNCHANGED Keys!vars PROVE Keys!TypeOK'
      BY <2>8 DEF Keys!vars, Keys!TypeOK
    <2> QED
      BY <2>1, <2>2, <2>3, <2>4, <2>5, <2>6, <2>7, <2>8 DEF Keys!Next
  <1> QED
    BY <1>1, <1>2, PTL DEF Keys!Spec

------------------------------------------------------------------------------
\* The value of Keys!LastCurrent(k) after the step.
LastCurrentNext(k) == IF k = redisKey' THEN now' ELSE until'[k]

\* No step moves the last moment of a key back.
LEMMA LastCurrentGrows ==
    ASSUME Keys!TypeOK, StaleInv, [Keys!Next]_(Keys!vars), NEW k \in Keys!Key
    PROVE  /\ Keys!LastCurrent(k) <= LastCurrentNext(k)
           /\ Keys!LastCurrent(k) \in Nat /\ LastCurrentNext(k) \in Nat
           /\ until'[k] <= now'
  <1> USE KeysAssume DEF Keys!KeysAssumption
  <1>0. now \in Nat /\ until[k] \in Nat /\ until[k] <= now
    BY DEF Keys!TypeOK, StaleInv
  <1>1. CASE UNCHANGED <<now, redisKey, until>>
    BY <1>0, <1>1 DEF Keys!LastCurrent, LastCurrentNext
  <1>2. ASSUME NEW j \in Keys!Key \cup {Keys!Absent}, Keys!Rotate(j)
        PROVE  now' = now /\ until'[k] = IF k = redisKey THEN now ELSE until[k]
    BY <1>2 DEF Keys!Rotate
  <1>3. CASE Keys!Tick
    BY <1>0, <1>3 DEF Keys!Tick, Keys!LastCurrent, LastCurrentNext
  <1>4. CASE \E j \in Keys!Key \cup {Keys!Absent} : Keys!Rotate(j)
    BY <1>0, <1>2, <1>4 DEF Keys!LastCurrent, LastCurrentNext
  <1> QED
    BY <1>1, <1>3, <1>4
       DEF Keys!Next, Keys!vars, Keys!Verify, Keys!Read, Keys!Answer, Keys!FetchFail, Keys!Evict

\* A message is accepted under a key that is no longer in Redis only within the
\* cache TTL plus one fetch, in whatever order concurrent fetches fill the cache.
THEOREM StalenessHolds == Keys!Spec => []BoundedStaleness
  <1> USE KeysAssume DEF Keys!KeysAssumption
  <1>1. Keys!Init => StaleInv
    BY DEF Keys!Init, StaleInv, FetchOk, BoundedStaleness, Keys!BoundedStaleness, Keys!Absent
  <1>2. Keys!TypeOK /\ Keys!TypeOK' /\ StaleInv /\ [Keys!Next]_(Keys!vars) => StaleInv'
    <2> SUFFICES ASSUME Keys!TypeOK, Keys!TypeOK', StaleInv, [Keys!Next]_(Keys!vars) PROVE StaleInv'
      OBVIOUS
    <2>0. \A k \in Keys!Key : /\ Keys!LastCurrent(k) <= LastCurrentNext(k)
                         /\ Keys!LastCurrent(k) \in Nat /\ LastCurrentNext(k) \in Nat
                         /\ until'[k] <= now'
      BY LastCurrentGrows
    <2>T. /\ now \in Nat /\ now' \in Nat /\ exp \in Nat /\ exp' \in Nat
          /\ \A h \in Handler : /\ sentAt[h] \in Nat /\ sentAt'[h] \in Nat
                                /\ doneAt[h] \in Nat /\ sig[h] \in Keys!Key /\ sig'[h] \in Keys!Key
      BY DEF Keys!TypeOK
    \* the cached key
    <2>1. ASSUME cache' # Keys!Absent PROVE exp' <= LastCurrentNext(cache') + Ttl + Timeout
      <3>0. cache' \in Keys!Key
        BY <2>1 DEF Keys!TypeOK
      <3>1. CASE cache' = cache /\ exp' = exp
        <4>1. exp <= Keys!LastCurrent(cache) + Ttl + Timeout
          BY <2>1, <3>1 DEF StaleInv
        <4>2. /\ Keys!LastCurrent(cache) <= LastCurrentNext(cache)
              /\ Keys!LastCurrent(cache) \in Nat /\ LastCurrentNext(cache) \in Nat
          BY <2>0, <3>0, <3>1
        <4> QED
          BY <2>T, <3>1, <4>1, <4>2
      <3>2. CASE \E h \in Handler : Keys!Answer(h) /\ got[h] # Keys!Absent
        <4> PICK h \in Handler : Keys!Answer(h) /\ got[h] # Keys!Absent
          BY <3>2
        <4>1. /\ phase[h] # "idle" /\ got[h] \in Keys!Key /\ cache' = got[h] /\ exp' = now + Ttl
              /\ now' = now /\ redisKey' = redisKey /\ until' = until
          BY DEF Keys!Answer, Keys!CacheSet, Keys!TypeOK
        <4>2. now <= sentAt[h] + Timeout /\ sentAt[h] <= Keys!LastCurrent(got[h])
          BY <4>1 DEF StaleInv, FetchOk
        <4>3. LastCurrentNext(cache') = Keys!LastCurrent(got[h])
          BY <4>1 DEF Keys!LastCurrent, LastCurrentNext
        <4> QED
          BY <2>0, <2>T, <4>1, <4>2, <4>3
      <3>3. CASE cache' = Keys!Absent
        BY <2>1, <3>3
      <3> QED
        BY <3>1, <3>2, <3>3
           DEF Keys!Next, Keys!vars, Keys!Verify, Keys!Read, Keys!Answer, Keys!CacheSet,
               Keys!FetchFail, Keys!Rotate, Keys!Evict, Keys!Tick
    \* the fetches
    <2>2. ASSUME NEW d \in Handler PROVE FetchOk(d)'
      <3>1. FetchOk(d)
        BY DEF StaleInv
      <3> SUFFICES ASSUME phase'[d] # "idle"
                   PROVE  /\ sentAt'[d] <= now' /\ now' <= sentAt'[d] + Timeout
                          /\ got'[d] \in Keys!Key => sentAt'[d] <= LastCurrentNext(got'[d])
        BY DEF FetchOk, Keys!LastCurrent, LastCurrentNext
      <3>2. CASE phase'[d] = phase[d] /\ sentAt'[d] = sentAt[d] /\ now' = now /\ got'[d] = got[d]
        BY <2>0, <2>T, <3>1, <3>2 DEF FetchOk
      <3>3. CASE sentAt'[d] = now /\ now' = now /\ got'[d] = Keys!Unread
        BY <2>T, <3>3 DEF Keys!Key, Keys!Unread
      <3>4. CASE Keys!Read(d)
        <4>1. /\ phase'[d] = phase[d] /\ sentAt'[d] = sentAt[d] /\ now' = now
              /\ got'[d] = redisKey /\ redisKey' = redisKey
          BY <3>4 DEF Keys!Read, Keys!TypeOK
        <4> QED
          BY <2>T, <3>1, <4>1 DEF FetchOk, Keys!LastCurrent, LastCurrentNext
      <3>5. CASE Keys!Tick
        <4>1. /\ phase'[d] = phase[d] /\ sentAt'[d] = sentAt[d] /\ now' = now + 1
              /\ got'[d] = got[d] /\ now < sentAt[d] + Timeout /\ redisKey' = redisKey
          BY <3>5 DEF Keys!Tick
        <4> QED
          BY <2>0, <2>T, <3>1, <4>1 DEF FetchOk
      <3>6. ASSUME NEW h \in Handler, NEW k \in Keys!Key, Keys!Verify(h, k)
            PROVE  \/ sentAt'[d] = now /\ now' = now /\ got'[d] = Keys!Unread
                   \/ /\ phase'[d] = phase[d] /\ sentAt'[d] = sentAt[d] /\ now' = now
                      /\ got'[d] = got[d]
        BY <3>6 DEF Keys!Verify, Keys!Done, Keys!Retry, Keys!Fetch, Keys!TypeOK
      <3>7. ASSUME NEW h \in Handler, Keys!Answer(h) \/ Keys!FetchFail(h)
            PROVE  \/ sentAt'[d] = now /\ now' = now /\ got'[d] = Keys!Unread
                   \/ /\ phase'[d] = phase[d] /\ sentAt'[d] = sentAt[d] /\ now' = now
                      /\ got'[d] = got[d]
        BY <3>7 DEF Keys!Answer, Keys!FetchFail, Keys!Done, Keys!Retry, Keys!Fetch, Keys!TypeOK
      <3>8. ASSUME NEW h \in Handler, Keys!Read(h), h # d
            PROVE  phase'[d] = phase[d] /\ sentAt'[d] = sentAt[d] /\ now' = now /\ got'[d] = got[d]
        BY <3>8 DEF Keys!Read, Keys!TypeOK
      <3>9. ASSUME NEW k \in Keys!Key \cup {Keys!Absent}, Keys!Rotate(k)
            PROVE  phase'[d] = phase[d] /\ sentAt'[d] = sentAt[d] /\ now' = now /\ got'[d] = got[d]
        BY <3>9 DEF Keys!Rotate
      <3>10. ASSUME Keys!Evict \/ UNCHANGED Keys!vars
             PROVE  phase'[d] = phase[d] /\ sentAt'[d] = sentAt[d] /\ now' = now /\ got'[d] = got[d]
        BY <3>10 DEF Keys!Evict, Keys!vars
      <3> QED
        BY <3>2, <3>3, <3>4, <3>5, <3>6, <3>7, <3>8, <3>9, <3>10 DEF Keys!Next
    \* the outcomes
    <2>3. ASSUME NEW d \in Handler, outcome'[d] = "ok"
          PROVE  doneAt'[d] <= LastCurrentNext(sig'[d]) + Ttl + Timeout
      <3>1. CASE outcome[d] = "ok" /\ doneAt'[d] = doneAt[d] /\ sig'[d] = sig[d]
        <4>1. doneAt[d] <= Keys!LastCurrent(sig[d]) + Ttl + Timeout
          BY <3>1 DEF StaleInv, BoundedStaleness, Keys!BoundedStaleness
        <4>2. /\ Keys!LastCurrent(sig[d]) <= LastCurrentNext(sig[d])
              /\ Keys!LastCurrent(sig[d]) \in Nat /\ LastCurrentNext(sig[d]) \in Nat
          BY <2>0, <2>T
        <4> QED
          BY <2>T, <3>1, <4>1, <4>2
      <3>2. ASSUME NEW k \in Keys!Key, Keys!Verify(d, k), Keys!Fresh, cache = k, Keys!Done(d, "ok")
            PROVE  doneAt'[d] <= LastCurrentNext(sig'[d]) + Ttl + Timeout
        <4>1. /\ doneAt'[d] = now /\ sig'[d] = cache /\ now < exp /\ cache # Keys!Absent
              /\ now' = now /\ redisKey' = redisKey /\ until' = until
          BY <3>2 DEF Keys!Verify, Keys!Done, Keys!Fresh, Keys!TypeOK
        <4>2. exp <= Keys!LastCurrent(cache) + Ttl + Timeout
          BY <4>1 DEF StaleInv
        <4>3. LastCurrentNext(sig'[d]) = Keys!LastCurrent(cache)
          BY <4>1 DEF Keys!LastCurrent, LastCurrentNext
        <4> QED
          BY <2>0, <2>T, <3>2, <4>1, <4>2, <4>3
      <3>3. CASE Keys!Answer(d) /\ got[d] = sig[d]
        <4>1. /\ doneAt'[d] = now /\ sig'[d] = got[d] /\ phase[d] # "idle" /\ got[d] \in Keys!Key
              /\ now' = now /\ redisKey' = redisKey /\ until' = until
          BY <2>T, <3>3 DEF Keys!Answer, Keys!Done, Keys!TypeOK
        <4>2. now <= sentAt[d] + Timeout /\ sentAt[d] <= Keys!LastCurrent(got[d])
          BY <4>1 DEF StaleInv, FetchOk
        <4>3. LastCurrentNext(sig'[d]) = Keys!LastCurrent(got[d])
          BY <4>1 DEF Keys!LastCurrent, LastCurrentNext
        <4> QED
          BY <2>0, <2>T, <4>1, <4>2, <4>3
      <3>4. ASSUME NEW h \in Handler, NEW k \in Keys!Key, Keys!Verify(h, k)
            PROVE  \/ outcome[d] = "ok" /\ doneAt'[d] = doneAt[d] /\ sig'[d] = sig[d]
                   \/ h = d /\ Keys!Fresh /\ cache = k /\ Keys!Done(d, "ok")
        BY <2>3, <3>4 DEF Keys!Verify, Keys!Done, Keys!Retry, Keys!Fetch, Keys!TypeOK
      <3>5. ASSUME NEW h \in Handler, Keys!Answer(h)
            PROVE  \/ outcome[d] = "ok" /\ doneAt'[d] = doneAt[d] /\ sig'[d] = sig[d]
                   \/ h = d /\ got[d] = sig[d]
        BY <2>3, <3>5 DEF Keys!Answer, Keys!Done, Keys!Retry, Keys!Fetch, Keys!TypeOK
      <3>6. ASSUME NEW h \in Handler, Keys!FetchFail(h) \/ Keys!Read(h)
            PROVE  outcome[d] = "ok" /\ doneAt'[d] = doneAt[d] /\ sig'[d] = sig[d]
        BY <2>3, <3>6 DEF Keys!FetchFail, Keys!Read, Keys!Done, Keys!Retry, Keys!Fetch, Keys!TypeOK
      <3>7. ASSUME \/ \E k \in Keys!Key \cup {Keys!Absent} : Keys!Rotate(k)
                   \/ Keys!Evict \/ Keys!Tick \/ UNCHANGED Keys!vars
            PROVE  outcome[d] = "ok" /\ doneAt'[d] = doneAt[d] /\ sig'[d] = sig[d]
        BY <2>3, <3>7 DEF Keys!Rotate, Keys!Evict, Keys!Tick, Keys!vars
      <3> QED
        BY <3>1, <3>2, <3>3, <3>4, <3>5, <3>6, <3>7 DEF Keys!Next
    <2>4. (cache # Keys!Absent => exp <= Keys!LastCurrent(cache) + Ttl + Timeout)'
      BY <2>1 DEF Keys!LastCurrent, LastCurrentNext, Keys!Absent
    <2>5. BoundedStaleness'
      BY <2>3 DEF BoundedStaleness, Keys!BoundedStaleness, Keys!LastCurrent, LastCurrentNext
    <2> QED
      BY <2>0, <2>2, <2>4, <2>5 DEF StaleInv
  <1>3. StaleInv => BoundedStaleness
    BY DEF StaleInv
  <1> QED
    BY <1>1, <1>2, <1>3, KeysTypeCorrect, PTL DEF Keys!Spec

\* A message signed with the sender's current key is 'bad' only if the key changed
\* or a fetch failed while it was being verified.
THEOREM NoFalseRejectHolds == Keys!Spec => []NoFalseReject
  <1> USE KeysAssume DEF Keys!KeysAssumption
  <1>1. Keys!Init => CleanInv
    BY DEF Keys!Init, CleanInv
  <1>2. Keys!TypeOK /\ CleanInv /\ [Keys!Next]_(Keys!vars) => CleanInv'
    <2> SUFFICES ASSUME Keys!TypeOK, CleanInv, [Keys!Next]_(Keys!vars), NEW d \in Handler, clean'[d]
                 PROVE  /\ sig'[d] = redisKey' /\ got'[d] \in {Keys!Unread, redisKey'}
                        /\ outcome'[d] # "bad"
      BY DEF CleanInv
    <2> DEFINE Goal == /\ sig'[d] = redisKey' /\ got'[d] \in {Keys!Unread, redisKey'}
                       /\ outcome'[d] # "bad"
    <2>A. ASSUME clean[d], sig'[d] = sig[d], redisKey' = redisKey, got'[d] = got[d],
                 outcome'[d] = outcome[d]
          PROVE  Goal
      BY <2>A DEF CleanInv
    <2>1. ASSUME NEW h \in Handler, NEW k \in Keys!Key, Keys!Verify(h, k) PROVE Goal
      <3>1. CASE h = d
        <4>1. k = redisKey /\ sig'[d] = k /\ redisKey' = redisKey
          BY <2>1, <3>1 DEF Keys!Verify, Keys!TypeOK
        <4>2. got'[d] = Keys!Unread /\ outcome'[d] # "bad"
          BY <2>1, <3>1 DEF Keys!Verify, Keys!Done, Keys!Retry, Keys!Fetch, Keys!TypeOK
        <4> QED
          BY <4>1, <4>2
      <3>2. CASE h # d
        BY <2>1, <3>2, <2>A DEF Keys!Verify, Keys!Done, Keys!Retry, Keys!Fetch, Keys!TypeOK
      <3> QED BY <3>1, <3>2
    <2>2. ASSUME NEW h \in Handler, Keys!Read(h) PROVE Goal
      BY <2>2 DEF Keys!Read, Keys!TypeOK, CleanInv
    <2>3. ASSUME NEW h \in Handler, Keys!Answer(h) PROVE Goal
      <3>1. CASE h = d
        <4>1. clean[d] /\ got[d] # Keys!Unread /\ redisKey' = redisKey /\ sig'[d] = sig[d]
          BY <2>3, <3>1 DEF Keys!Answer
        <4>2. got[d] = sig[d] /\ sig[d] = redisKey
          BY <4>1 DEF CleanInv
        <4>3. got'[d] = Keys!Unread /\ outcome'[d] = "ok"
          BY <2>3, <3>1, <4>2 DEF Keys!Answer, Keys!Done, Keys!TypeOK
        <4> QED
          BY <4>1, <4>2, <4>3
      <3>2. CASE h # d
        BY <2>3, <3>2, <2>A DEF Keys!Answer, Keys!Done, Keys!Retry, Keys!Fetch, Keys!TypeOK
      <3> QED BY <3>1, <3>2
    <2>4. ASSUME NEW h \in Handler, Keys!FetchFail(h) PROVE Goal
      <3>1. h # d
        BY <2>4 DEF Keys!FetchFail, Keys!TypeOK
      <3> QED
        BY <2>4, <3>1, <2>A DEF Keys!FetchFail, Keys!Done, Keys!Retry, Keys!Fetch, Keys!TypeOK
    <2>5. ASSUME NEW k \in Keys!Key \cup {Keys!Absent}, Keys!Rotate(k) PROVE Goal
      BY <2>5 DEF Keys!Rotate
    <2>6. ASSUME Keys!Evict \/ Keys!Tick \/ UNCHANGED Keys!vars PROVE Goal
      BY <2>6, <2>A DEF Keys!Evict, Keys!Tick, Keys!vars
    <2> QED
      BY <2>1, <2>2, <2>3, <2>4, <2>5, <2>6 DEF Keys!Next
  <1>3. CleanInv => NoFalseReject
    BY DEF CleanInv, NoFalseReject, Keys!NoFalseReject
  <1> QED
    BY <1>1, <1>2, <1>3, KeysTypeCorrect, PTL DEF Keys!Spec

-----------------------------------------------------------------------------
(* A2ASend: the rate limits are exact, what goes out is accepted, and the registry follows the  *)
(* announcements, for any number of calls, peers and announcements and any rates.               *)

\* What the sends I, of the list g of those let through, leave of a bucket at time t once send i
\* was paid for, when the bucket was full before; and v is what they leave of it.
Low(cap, rate, I, g, t, i) ==
    cap + (t - g[i].at) * rate - Cost * Cardinality({j \in I : j >= i})
Leaves(v, cap, rate, I, g, t) ==
    /\ v <= cap /\ \A i \in I : v <= Low(cap, rate, I, g, t, i)
    /\ v = cap \/ \E i \in I : v = Low(cap, rate, I, g, t, i)

\* What a bucket has after refill().
Full(b, cap, rate, t) == Out!Least(cap, b.tokens + (t - b.last) * rate)
Fits(b, cap, rate, I, g, t) == Leaves(Full(b, cap, rate, t), cap, rate, I, g, t)

\* The sends a bucket may have to answer for.
Paid(I, g, t) == \A i \in I : i \in Nat /\ g[i].at \in Nat /\ g[i].at <= t
Timed(b, t) == b.tokens \in Nat /\ b.last \in Nat /\ b.last <= t

\* The definitions again, as equations that take any terms.
LEMMA FullIs ==
    ASSUME NEW b, NEW cap, NEW rate, NEW t, NEW x, x = b.tokens + (t - b.last) * rate
    PROVE  Full(b, cap, rate, t) = IF cap < x THEN cap ELSE x
BY Zenon DEF Full, Out!Least

\* What was paid weighs a tick's refill less at the next tick.
LEMMA LowLater ==
    ASSUME NEW cap \in Nat, NEW rate \in Nat, NEW t \in Nat, NEW I, NEW g, NEW i,
           g[i].at \in Nat, Cardinality({j \in I : j >= i}) \in Nat, Cost \in Nat,
           NEW u, u = t + 1
    PROVE  Low(cap, rate, I, g, u, i) = Low(cap, rate, I, g, t, i) + rate
<1> DEFINE k == Cardinality({j \in I : j >= i})
           a == g[i].at
           y == Cost * k
<1>1. Low(cap, rate, I, g, t, i) = cap + (t - a) * rate - y
  BY Zenon DEF Low
<1>2. Low(cap, rate, I, g, u, i) = cap + (u - a) * rate - y
  BY Zenon DEF Low
<1>3. k \in Nat /\ a \in Nat
  OBVIOUS
<1>4. y \in Int
  BY <1>3
<1> HIDE DEF k, a, y
<1>5. (u - a) * rate = (t - a) * rate + rate /\ (t - a) * rate \in Int
  <2>1. \A n \in Int : (n + 1) * rate = n * rate + rate /\ n * rate \in Int
    OBVIOUS
  <2>2. t - a \in Int /\ u - a = (t - a) + 1
    BY <1>3
  <2> QED BY <2>1, <2>2
<1> QED BY <1>1, <1>2, <1>4, <1>5

\* The numbers in a bucket's account are integers.
LEMMA LowInt ==
    ASSUME NEW cap \in Nat, NEW rate \in Nat, NEW I, IsFiniteSet(I), NEW g, NEW t \in Nat,
           Paid(I, g, t)
    PROVE  \A i \in I : /\ Cardinality({j \in I : j >= i}) \in Nat
                        /\ (t - g[i].at) * rate \in Nat
                        /\ Low(cap, rate, I, g, t, i) \in Int
<1> SUFFICES ASSUME NEW i \in I
             PROVE  /\ Cardinality({j \in I : j >= i}) \in Nat
                    /\ (t - g[i].at) * rate \in Nat
                    /\ Low(cap, rate, I, g, t, i) \in Int
  OBVIOUS
<1>1. Cardinality({j \in I : j >= i}) \in Nat
  <2>1. IsFiniteSet({j \in I : j >= i})
    BY FS_Subset
  <2> QED BY <2>1, FS_CardinalityType
<1>2. t - g[i].at \in Nat
  BY DEF Paid
<1>3. (t - g[i].at) * rate \in Nat
  BY <1>2
<1>4. Cost \in Nat
  BY SendAssume DEF Out!SendAssumption
<1>5. Cost * Cardinality({j \in I : j >= i}) \in Nat
  BY <1>1, <1>4
<1> QED BY <1>1, <1>3, <1>5 DEF Low

\* The level by definition is the one that the sends leave.
LEMMA LevelIs ==
    ASSUME NEW cap \in Nat, NEW rate \in Nat, NEW I, IsFiniteSet(I), clock \in Nat,
           Paid(I, granted, clock), NEW v \in Int, Leaves(v, cap, rate, I, granted, clock)
    PROVE  Out!Level(cap, rate, I) = v
<1> DEFINE L == {Low(cap, rate, I, granted, clock, i) : i \in I}
<1>1. \A i \in I : Low(cap, rate, I, granted, clock, i) \in Int
  BY LowInt
<1>2. v \in L \cup {cap} /\ \A l \in L \cup {cap} : v <= l
  BY DEF Leaves
<1>3. L \cup {cap} \subseteq Int
  BY <1>1
<1>4. \A m \in L \cup {cap} : (\A l \in L \cup {cap} : m <= l) => m = v
  BY <1>2, <1>3
<1>5. \A i \in I : Out!Cardinality({j \in I : j >= i}) = Cardinality({j \in I : j >= i})
  BY DEF Out!Cardinality, Cardinality
<1>6. Out!Level(cap, rate, I) = CHOOSE m \in L \cup {cap} : \A l \in L \cup {cap} : m <= l
  <2>1. {cap + (clock - granted[i].at) * rate - Cost * Out!Cardinality({j \in I : j >= i}) :
              i \in I} = L
    BY <1>5 DEF Low
  <2> QED BY <2>1, Zenon DEF Out!Level
<1> HIDE DEF L
<1> QED BY <1>2, <1>4, <1>6

\* A tick of the clock: the bucket and the level have gained the same.
LEMMA FitsLater ==
    ASSUME NEW cap \in Nat, NEW rate \in Nat, NEW I, IsFiniteSet(I), NEW g, NEW t \in Nat,
           Paid(I, g, t), NEW b, Timed(b, t), Fits(b, cap, rate, I, g, t), NEW s, s = t + 1
    PROVE  Fits(b, cap, rate, I, g, s)
<1> DEFINE x == b.tokens + (t - b.last) * rate
           y == b.tokens + (s - b.last) * rate
           v == Full(b, cap, rate, t)
           u == Full(b, cap, rate, s)
<1>1. x \in Nat /\ y = x + rate
  <2>1. t - b.last \in Nat /\ b.tokens \in Nat
    BY DEF Timed
  <2>2. (s - b.last) = (t - b.last) + 1
    BY <2>1 DEF Timed
  <2>3. \A n \in Nat : (n + 1) * rate = n * rate + rate /\ n * rate \in Nat
    OBVIOUS
  <2> QED BY <2>1, <2>2, <2>3
<1>2. v = (IF cap < x THEN cap ELSE x) /\ u = (IF cap < y THEN cap ELSE y)
  <2>1. v = (IF cap < x THEN cap ELSE x)
    BY ONLY FullIs, Zenon
  <2>2. u = (IF cap < y THEN cap ELSE y)
    BY ONLY FullIs, Zenon
  <2> QED BY <2>1, <2>2
<1>3. \A i \in I : /\ Low(cap, rate, I, g, t, i) \in Int
                   /\ Low(cap, rate, I, g, s, i) = Low(cap, rate, I, g, t, i) + rate
  <2> SUFFICES ASSUME NEW i \in I
               PROVE  /\ Low(cap, rate, I, g, t, i) \in Int
                      /\ Low(cap, rate, I, g, s, i) = Low(cap, rate, I, g, t, i) + rate
    OBVIOUS
  <2>1. Cardinality({j \in I : j >= i}) \in Nat /\ Low(cap, rate, I, g, t, i) \in Int
    BY LowInt
  <2>2. g[i].at \in Nat /\ Cost \in Nat
    BY SendAssume DEF Paid, Out!SendAssumption
  <2>3. Low(cap, rate, I, g, s, i) = Low(cap, rate, I, g, t, i) + rate
    BY ONLY cap \in Nat, rate \in Nat, t \in Nat, s = t + 1, <2>1, <2>2, LowLater
  <2> QED BY <2>1, <2>3
<1> HIDE DEF x, y, v, u
<1>4. Leaves(v, cap, rate, I, g, t)
  BY DEF Fits, v
<1>5. Leaves(u, cap, rate, I, g, s)
  <2>1. u <= cap
    BY <1>1, <1>2
  <2>2. \A i \in I : u <= Low(cap, rate, I, g, s, i)
    BY <1>1, <1>2, <1>3, <1>4 DEF Leaves
  <2>3. u = cap \/ \E i \in I : u = Low(cap, rate, I, g, s, i)
    <3>1. CASE v = cap
      BY <1>1, <1>2, <3>1
    <3>2. CASE v # cap
      <4>1. PICK i \in I : v = Low(cap, rate, I, g, t, i)
        BY <1>4, <3>2 DEF Leaves
      <4>2. v = x
        BY <1>2, <3>2
      <4> QED BY <1>1, <1>2, <1>3, <4>1, <4>2
    <3> QED BY <3>1, <3>2
  <2> QED BY <2>1, <2>2, <2>3 DEF Leaves
<1> QED BY <1>5 DEF Fits, u

\* refill() writes the level down.
LEMMA FitsRefilled ==
    ASSUME NEW cap \in Nat, NEW rate \in Nat, NEW I, NEW g, NEW t \in Nat,
           NEW b, Timed(b, t), Fits(b, cap, rate, I, g, t),
           NEW c, c.tokens = Full(b, cap, rate, t), c.last = t
    PROVE  /\ Timed(c, t) /\ c.tokens <= cap /\ Full(c, cap, rate, t) = c.tokens
           /\ Fits(c, cap, rate, I, g, t)
<1>1. b.tokens + (t - b.last) * rate \in Nat
  BY DEF Timed
<1>2. c.tokens \in Nat /\ c.tokens <= cap
  BY <1>1 DEF Full, Out!Least
<1>3. Full(c, cap, rate, t) = c.tokens
  <2>1. (t - t) * rate = 0
    OBVIOUS
  <2> QED BY <1>2, <2>1 DEF Full, Out!Least
<1> QED BY <1>2, <1>3 DEF Timed, Fits

\* take(): one send more and one token less.
LEMMA FitsTaken ==
    ASSUME NEW cap \in Nat, NEW rate \in Nat, NEW I, IsFiniteSet(I), NEW g, NEW t \in Nat,
           Paid(I, g, t), NEW b, b.tokens \in Nat, b.last = t, b.tokens <= cap,
           b.tokens >= Cost, Fits(b, cap, rate, I, g, t),
           NEW c, c.tokens = b.tokens - Cost, c.last = t,
           NEW n \in Nat, \A i \in I : i < n, NEW h, h[n].at = t, \A i \in I : h[i] = g[i]
    PROVE  Timed(c, t) /\ Fits(c, cap, rate, I \cup {n}, h, t)
<1> DEFINE J == I \cup {n}
           v == b.tokens
           u == c.tokens
<1>1. Cost \in Nat \ {0} /\ v \in Nat /\ u \in Nat /\ u = v - Cost
  BY SendAssume DEF Out!SendAssumption
<1>2. Full(b, cap, rate, t) = v /\ Full(c, cap, rate, t) = u
  <2>1. (t - t) * rate = 0
    OBVIOUS
  <2> QED BY <1>1, <2>1 DEF Full, Out!Least
<1>3. Leaves(v, cap, rate, I, g, t)
  BY <1>2 DEF Fits
<1>4. \A i \in I : /\ Low(cap, rate, I, g, t, i) \in Int
                   /\ Low(cap, rate, J, h, t, i) = Low(cap, rate, I, g, t, i) - Cost
  <2> SUFFICES ASSUME NEW i \in I
               PROVE  /\ Low(cap, rate, I, g, t, i) \in Int
                      /\ Low(cap, rate, J, h, t, i) = Low(cap, rate, I, g, t, i) - Cost
    OBVIOUS
  <2> DEFINE F == {j \in I : j >= i}
             k == Cardinality(F)
  <2>1. k \in Nat /\ (t - g[i].at) * rate \in Nat /\ Low(cap, rate, I, g, t, i) \in Int
    <3>1. k \in Nat /\ Low(cap, rate, I, g, t, i) \in Int
      BY LowInt
    <3>2. t - g[i].at \in Nat
      BY DEF Paid
    <3> QED BY <3>1, <3>2
  <2>2. IsFiniteSet(F) /\ n \notin F
    BY FS_Subset DEF Paid
  <2>3. {j \in J : j >= i} = F \cup {n}
    BY DEF Paid
  <2>4. Cardinality({j \in J : j >= i}) = k + 1
    BY <2>2, <2>3, FS_AddElement
  <2>5. Cost * (k + 1) = Cost * k + Cost /\ Cost * k \in Nat
    BY <1>1, <2>1
  <2>6. Low(cap, rate, J, h, t, i) = cap + (t - g[i].at) * rate - Cost * (k + 1)
    BY <2>4 DEF Low
  <2>7. Low(cap, rate, I, g, t, i) = cap + (t - g[i].at) * rate - Cost * k
    BY DEF Low
  <2> HIDE DEF k, F
  <2> QED BY <1>1, <2>1, <2>5, <2>6, <2>7
<1>5. Low(cap, rate, J, h, t, n) = cap - Cost
  <2>1. {j \in J : j >= n} = {n}
    BY DEF Paid
  <2>2. Cardinality({j \in J : j >= n}) = 1
    BY <2>1, FS_Singleton
  <2>3. (t - t) * rate = 0 /\ Cost * 1 = Cost
    BY <1>1
  <2> QED BY <1>1, <2>2, <2>3 DEF Low
<1> HIDE DEF J, v, u
<1>6. Leaves(u, cap, rate, J, h, t)
  <2>1. u <= cap /\ v <= cap
    BY <1>1 DEF v
  <2>2. \A i \in J : u <= Low(cap, rate, J, h, t, i)
    BY <1>1, <1>3, <1>4, <1>5, <2>1 DEF Leaves, J
  <2>3. \E i \in J : u = Low(cap, rate, J, h, t, i)
    <3>1. CASE v = cap
      BY <1>1, <1>5, <3>1 DEF J
    <3>2. CASE v # cap
      BY <1>1, <1>3, <1>4, <3>2 DEF Leaves, J
    <3> QED BY <3>1, <3>2
  <2> QED BY <2>1, <2>2, <2>3 DEF Leaves
<1>7. Timed(c, t)
  BY <1>1 DEF Timed, u
<1> QED BY <1>2, <1>6, <1>7 DEF Fits, J

\* A bucket does not depend on the sends it has not paid for.
LEMMA FitsElsewhere ==
    ASSUME NEW cap, NEW rate, NEW I, NEW g, NEW t, NEW b, Fits(b, cap, rate, I, g, t),
           NEW h, \A i \in I : h[i] = g[i], NEW c, c.tokens = b.tokens, c.last = b.last
    PROVE  Fits(c, cap, rate, I, h, t)
<1>1. \A i \in I : Low(cap, rate, I, h, t, i) = Low(cap, rate, I, g, t, i)
  BY DEF Low
<1> QED BY <1>1 DEF Fits, Leaves, Full

-----------------------------------------------------------------------------
(* The invariant of the buckets: gl and ps are the buckets, gr the sends let through, si how many *)
(* of them there were when a peer's bucket was made, and t the time.                              *)

Grant == [to : Out!Peer, at : Nat]
Account == [tokens : Nat, last : Nat]
PeerAccount == [peer : Out!Peer, tokens : Nat, last : Nat]

\* The sends that the bucket of peer p has to answer for.
Mine(p, si, gr) == {n \in DOMAIN gr : n > si[p] /\ gr[n].to = p}
Distinct(ps) == \A i, k \in DOMAIN ps : ps[i].peer = ps[k].peer => i = k
PeersFit(ps, gr, si, t) ==
    \A i \in DOMAIN ps :
        /\ ps[i].last <= t
        /\ Fits(ps[i], PeerCap, PeerRate, Mine(ps[i].peer, si, gr), gr, t)

Granted(gr, si, t) ==
    /\ gr \in Seq(Grant) /\ t \in Nat /\ \A n \in DOMAIN gr : gr[n].at <= t
    /\ si \in [Out!Peer -> Nat] /\ \A p \in Out!Peer : si[p] <= Len(gr)
Rates(gl, ps, gr, si, t) ==
    /\ Granted(gr, si, t)
    /\ gl \in Account /\ gl.last <= t /\ Fits(gl, GlobalCap, GlobalRate, DOMAIN gr, gr, t)
    /\ ps \in Seq(PeerAccount) /\ Distinct(ps) /\ PeersFit(ps, gr, si, t)
RateInv == Rates(global, peers, granted, since, clock)

\* The sends of a bucket are finitely many and lie in the past.
LEMMA PaidFacts ==
    ASSUME NEW gr, NEW si, NEW t, Granted(gr, si, t)
    PROVE  /\ IsFiniteSet(DOMAIN gr) /\ Paid(DOMAIN gr, gr, t)
           /\ \A p : IsFiniteSet(Mine(p, si, gr)) /\ Paid(Mine(p, si, gr), gr, t)
<1>1. DOMAIN gr = 1..Len(gr) /\ Len(gr) \in Nat
  BY DEF Granted
<1>2. IsFiniteSet(DOMAIN gr)
  BY <1>1, FS_Interval
<1>3. Paid(DOMAIN gr, gr, t)
  <2>1. \A n \in DOMAIN gr : gr[n] \in Grant /\ gr[n].at <= t /\ n \in Nat
    BY <1>1 DEF Granted
  <2> QED BY <2>1 DEF Grant, Paid
<1>4. \A p : Mine(p, si, gr) \subseteq DOMAIN gr
  BY DEF Mine
<1>5. \A p : IsFiniteSet(Mine(p, si, gr))
  BY <1>2, <1>4, FS_Subset
<1>6. \A p : Paid(Mine(p, si, gr), gr, t)
  BY <1>3, <1>4 DEF Paid
<1> QED BY <1>2, <1>3, <1>5, <1>6

\* The rates and sizes are numbers.
LEMMA RateFacts ==
    /\ GlobalCap \in Nat /\ GlobalRate \in Nat /\ PeerCap \in Nat /\ PeerRate \in Nat
    /\ Cost \in Nat \ {0} /\ MaxTracked \in Nat \ {0}
BY SendAssume DEF Out!SendAssumption

\* A bucket made: the list without the oldest one when it is full, and the new one.
Joined(ps, b) == Append(Out!evictOldest(ps), b)

\* The list of buckets when that of p is at hand: the new one is full, the others are old ones.
LEMMA MadeFacts ==
    ASSUME NEW ps \in Seq(PeerAccount), Distinct(ps), NEW p \in Out!Peer,
           \A i \in DOMAIN ps : ps[i].peer # p, NEW b \in PeerAccount, b.peer = p,
           NEW made, made = Joined(ps, b)
    PROVE  /\ made \in Seq(PeerAccount) /\ Distinct(made)
           /\ \E i \in DOMAIN made : made[i].peer = p
           /\ \A i \in DOMAIN made : made[i] = b \/ \E k \in DOMAIN ps : made[i] = ps[k]
<1> DEFINE e == Out!evictOldest(ps)
<1>1. MaxTracked \in Nat \ {0} /\ Len(ps) \in Nat /\ DOMAIN ps = 1..Len(ps)
  BY RateFacts
<1>2. /\ e \in Seq(PeerAccount)
      /\ \A i \in DOMAIN e : \E k \in DOMAIN ps : e[i] = ps[k]
      /\ Distinct(e)
  <2>1. CASE Len(ps) >= MaxTracked
    <3>1. ps # <<>> /\ e = Tail(ps)
      BY <1>1, <2>1 DEF Out!evictOldest
    <3>2. /\ e \in Seq(PeerAccount) /\ Len(e) = Len(ps) - 1
          /\ \A i \in DOMAIN e : i + 1 \in DOMAIN ps /\ e[i] = ps[i + 1] /\ i \in Nat
      BY <1>1, <3>1
    <3> HIDE DEF e
    <3>3. Distinct(e)
      <4> SUFFICES ASSUME NEW i \in DOMAIN e, NEW k \in DOMAIN e, e[i].peer = e[k].peer
                   PROVE  i = k
        BY DEF Distinct
      <4>1. i + 1 = k + 1 /\ i \in Nat /\ k \in Nat
        BY <3>2 DEF Distinct
      <4> QED BY <4>1
    <3> QED BY <3>2, <3>3
  <2>2. CASE ~(Len(ps) >= MaxTracked)
    <3>1. e = ps
      BY <2>2 DEF Out!evictOldest
    <3> HIDE DEF e
    <3> QED BY <3>1
  <2> QED BY <2>1, <2>2
<1>3. made = Append(e, b)
  BY DEF Joined
<1> HIDE DEF e
<1>4. /\ made \in Seq(PeerAccount) /\ Len(e) \in Nat
      /\ DOMAIN made = (DOMAIN e) \cup {Len(e) + 1} /\ Len(e) + 1 \notin DOMAIN e
      /\ made[Len(e) + 1] = b /\ \A i \in DOMAIN e : made[i] = e[i]
  BY <1>2, <1>3
<1>5. Distinct(made)
  <2>1. \A i \in DOMAIN e : e[i].peer # p
    BY <1>2
  <2> QED BY <1>2, <1>4, <2>1 DEF Distinct
<1>6. \E i \in DOMAIN made : made[i].peer = p
  BY <1>4
<1> QED BY <1>2, <1>4, <1>5, <1>6

\* Tracked: the bucket of p is there and refilled, the others are as they were.
LEMMA TrackedFacts ==
    ASSUME RateInv, NEW p \in Out!Peer, NEW t, t = Out!Tracked(p),
           NEW si, si = IF Out!HasBucket(p) THEN since ELSE [since EXCEPT ![p] = Len(granted)]
    PROVE  /\ Granted(granted, si, clock)
           /\ t \in Seq(PeerAccount) /\ Distinct(t) /\ PeersFit(t, granted, si, clock)
           /\ \E i \in DOMAIN t : t[i].peer = p
           /\ \A i \in DOMAIN t : t[i].peer = p => t[i].last = clock /\ t[i].tokens <= PeerCap
<1> DEFINE new == [peer |-> p, tokens |-> PeerCap, last |-> clock]
           made == IF Out!HasBucket(p) THEN peers ELSE Append(Out!evictOldest(peers), new)
           F(b) == Fits(b, PeerCap, PeerRate, Mine(b.peer, si, granted), granted, clock)
<1>1. /\ Granted(granted, since, clock) /\ peers \in Seq(PeerAccount) /\ Distinct(peers)
      /\ PeersFit(peers, granted, since, clock)
  BY DEF RateInv, Rates
<1>2. PeerCap \in Nat /\ PeerRate \in Nat /\ clock \in Nat /\ Len(granted) \in Nat
  BY <1>1, RateFacts DEF Granted
<1>3. /\ si \in [Out!Peer -> Nat] /\ \A q \in Out!Peer : q # p => si[q] = since[q]
      /\ \A q \in Out!Peer : si[q] <= Len(granted)
      /\ Out!HasBucket(p) => si = since
      /\ ~Out!HasBucket(p) => si[p] = Len(granted)
  BY <1>1, <1>2 DEF Granted
<1>4. Granted(granted, si, clock)
  BY <1>1, <1>3 DEF Granted
<1>5. new \in PeerAccount /\ new.peer = p /\ new.tokens = PeerCap /\ new.last = clock
  BY <1>2 DEF PeerAccount
<1>6. /\ made \in Seq(PeerAccount) /\ Distinct(made)
      /\ \E i \in DOMAIN made : made[i].peer = p
      /\ \A i \in DOMAIN made :
            (~Out!HasBucket(p) /\ made[i] = new) \/ \E k \in DOMAIN peers : made[i] = peers[k]
  <2>1. CASE Out!HasBucket(p)
    BY <1>1, <2>1 DEF Out!HasBucket
  <2>2. CASE ~Out!HasBucket(p)
    <3>1. \A i \in DOMAIN peers : peers[i].peer # p
      BY <2>2 DEF Out!HasBucket
    <3>2. made = Joined(peers, new)
      BY <2>2 DEF Joined
    <3> HIDE DEF new, made
    <3>3. p \in Out!Peer
      OBVIOUS
    <3>4. /\ made \in Seq(PeerAccount) /\ Distinct(made)
          /\ \E i \in DOMAIN made : made[i].peer = p
          /\ \A i \in DOMAIN made : made[i] = new \/ \E k \in DOMAIN peers : made[i] = peers[k]
      <4>1. new \in PeerAccount /\ new.peer = p
        BY <1>5
      <4>2. peers \in Seq(PeerAccount)
        BY <1>1
      <4>3. Distinct(peers)
        BY <1>1
      <4> QED BY ONLY <3>1, <3>2, <3>3, <4>1, <4>2, <4>3, MadeFacts, SMTT(40)
    <3> QED BY <2>2, <3>4
  <2> QED BY <2>1, <2>2
<1>7. t = [i \in DOMAIN made |-> IF made[i].peer # p THEN made[i]
                                 ELSE Out!refill(made[i], PeerCap, PeerRate)]
  BY Zenon DEF Out!Tracked
<1> HIDE DEF made
<1>8. ASSUME NEW i \in DOMAIN made
      PROVE  Timed(made[i], clock) /\ F(made[i])
  <2>1. CASE made[i] = new /\ ~Out!HasBucket(p)
    <3>1. Mine(p, si, granted) = {}
      BY <1>1, <1>2, <1>3, <2>1 DEF Mine, Granted
    <3>2. Full(new, PeerCap, PeerRate, clock) = PeerCap
      <4>1. (clock - clock) * PeerRate = 0
        BY <1>2
      <4> QED BY <1>2, <1>5, <4>1 DEF Full, Out!Least
    <3>3. Leaves(PeerCap, PeerCap, PeerRate, {}, granted, clock)
      BY <1>2 DEF Leaves
    <3>4. Timed(new, clock)
      BY <1>2, <1>5 DEF Timed
    <3> HIDE DEF new
    <3> QED BY <1>5, <2>1, <3>1, <3>2, <3>3, <3>4 DEF Fits
  <2>2. ASSUME NEW k \in DOMAIN peers, made[i] = peers[k]
        PROVE  Timed(made[i], clock) /\ F(made[i])
    <3>1. /\ peers[k] \in PeerAccount /\ peers[k].last <= clock
          /\ Fits(peers[k], PeerCap, PeerRate, Mine(peers[k].peer, since, granted), granted, clock)
      BY <1>1 DEF PeersFit
    <3>2. si[peers[k].peer] = since[peers[k].peer]
      <4>1. CASE peers[k].peer = p
        BY <1>3, <4>1 DEF Out!HasBucket
      <4>2. CASE peers[k].peer # p
        BY <1>3, <3>1, <4>2 DEF PeerAccount
      <4> QED BY <4>1, <4>2
    <3>3. Mine(peers[k].peer, si, granted) = Mine(peers[k].peer, since, granted)
      BY <3>2 DEF Mine
    <3> QED BY <2>2, <3>1, <3>3 DEF Timed, PeerAccount
  <2> QED BY <1>6, <2>1, <2>2
<1>9. ASSUME NEW i \in DOMAIN made
      PROVE  /\ t[i] \in PeerAccount /\ t[i].peer = made[i].peer /\ t[i].last <= clock /\ F(t[i])
             /\ t[i].peer = p => t[i].last = clock /\ t[i].tokens <= PeerCap
  <2>1. made[i] \in PeerAccount /\ Timed(made[i], clock) /\ F(made[i])
    <3>1. made[i] \in PeerAccount
      BY <1>6
    <3>2. Timed(made[i], clock) /\ F(made[i])
      BY <1>8, Zenon
    <3> QED BY <3>1, <3>2
  <2>2. CASE made[i].peer # p
    <3>1. t[i] = made[i]
      BY <1>7, <2>2
    <3> HIDE DEF F
    <3> QED BY <2>1, <2>2, <3>1 DEF Timed
  <2>3. CASE made[i].peer = p
    <3> DEFINE b == made[i]
               f == Full(b, PeerCap, PeerRate, clock)
               c == [b EXCEPT !.tokens = f, !.last = clock]
    <3>1. t[i] = c
      <4>1. t[i] = Out!refill(made[i], PeerCap, PeerRate)
        BY <1>7, <2>3
      <4> QED BY <4>1, Zenon DEF Out!refill, Full
    <3>2. f \in Nat
      <4>0. b.tokens \in Nat /\ clock - b.last \in Nat /\ PeerRate \in Nat
        BY <1>2, <2>1 DEF Timed
      <4> HIDE DEF b
      <4>1. b.tokens + (clock - b.last) * PeerRate \in Nat
        BY ONLY <4>0
      <4> QED BY <1>2, <4>1 DEF Full, Out!Least
    <3> HIDE DEF f
    <3>3. c \in PeerAccount /\ c.peer = p /\ c.tokens = f /\ c.last = clock
      BY <1>2, <2>1, <2>3, <3>2 DEF PeerAccount
    <3> HIDE DEF c
    <3>4. Fits(b, PeerCap, PeerRate, Mine(p, si, granted), granted, clock)
      BY <2>1, <2>3
    <3> HIDE DEF b
    <3>5. /\ Timed(c, clock) /\ c.tokens <= PeerCap
          /\ Fits(c, PeerCap, PeerRate, Mine(p, si, granted), granted, clock)
      <4>1. Timed(b, clock) /\ c.tokens = Full(b, PeerCap, PeerRate, clock) /\ c.last = clock
        BY <2>1, <3>3 DEF b, f
      <4> QED BY ONLY <1>2, <3>4, <4>1, FitsRefilled
    <3> QED BY <2>3, <3>1, <3>3, <3>5 DEF Timed
  <2> QED BY <2>2, <2>3
<1>10. DOMAIN t = DOMAIN made
  BY <1>7
<1>11. t \in Seq(PeerAccount)
  <2>1. DOMAIN made = 1..Len(made) /\ Len(made) \in Nat
    BY <1>6
  <2>2. t = [i \in 1..Len(made) |-> t[i]]
    BY <1>7, <2>1
  <2> QED BY <1>9, <2>1, <2>2
<1> HIDE DEF F
<1>12. Distinct(t)
  BY <1>6, <1>9, <1>10 DEF Distinct
<1>13. PeersFit(t, granted, si, clock)
  BY <1>9, <1>10 DEF PeersFit, F
<1>14. \E i \in DOMAIN t : t[i].peer = p
  BY <1>6, <1>9, <1>10
<1> QED BY <1>4, <1>9, <1>10, <1>11, <1>12, <1>13, <1>14

\* A send to p at time t, number n, put at the end of the list gr.
Grown(h, n, gr, p, t) == h = Append(gr, [to |-> p, at |-> t]) /\ n = Len(gr) + 1
\* What that changes for the accounts.
Counted(h, n, gr, si, p, t) ==
    /\ Granted(h, si, t) /\ n \in Nat /\ h[n].at = t
    /\ DOMAIN h = (DOMAIN gr) \cup {n} /\ \A i \in DOMAIN gr : i < n /\ h[i] = gr[i]
    /\ Mine(p, si, h) = Mine(p, si, gr) \cup {n}
    /\ \A q \in Out!Peer \ {p} : Mine(q, si, h) = Mine(q, si, gr)
    /\ \A q : Mine(q, si, gr) \subseteq DOMAIN gr

\* The send that is let through is the last of the list.
LEMMA GrantFacts ==
    ASSUME NEW gr, NEW si, NEW t, Granted(gr, si, t), NEW p \in Out!Peer,
           NEW h, NEW n, Grown(h, n, gr, p, t)
    PROVE  Counted(h, n, gr, si, p, t)
<1> DEFINE x == [to |-> p, at |-> t]
<1>1. gr \in Seq(Grant) /\ t \in Nat /\ Len(gr) \in Nat /\ DOMAIN gr = 1..Len(gr)
  BY DEF Granted
<1>2. x \in Grant /\ x.to = p /\ x.at = t
  BY <1>1 DEF Grant
<1> HIDE DEF x
<1>3. h = Append(gr, x) /\ n = Len(gr) + 1
  BY DEF x, Grown
<1>4. /\ h \in Seq(Grant) /\ Len(h) = n /\ h[n] = x /\ n \in Nat
      /\ DOMAIN h = (DOMAIN gr) \cup {n} /\ \A i \in DOMAIN gr : i < n /\ h[i] = gr[i]
  BY <1>1, <1>2, <1>3
<1>5. Granted(h, si, t)
  <2>1. \A i \in DOMAIN h : h[i].at <= t
    BY <1>1, <1>2, <1>4 DEF Granted
  <2>2. \A q \in Out!Peer : si[q] \in Nat /\ si[q] <= Len(gr)
    BY DEF Granted
  <2>3. \A q \in Out!Peer : si[q] <= Len(h)
    BY <1>1, <1>4, <2>2
  <2> QED BY <1>1, <1>4, <2>1, <2>3 DEF Granted
<1>6. n > si[p]
  BY <1>1, <1>4 DEF Granted
<1>7. Mine(p, si, h) = Mine(p, si, gr) \cup {n}
  BY <1>2, <1>4, <1>6 DEF Mine
<1>8. \A q \in Out!Peer \ {p} : Mine(q, si, h) = Mine(q, si, gr)
  BY <1>2, <1>4 DEF Mine
<1>9. \A q : Mine(q, si, gr) \subseteq DOMAIN gr
  BY DEF Mine
<1> QED BY <1>2, <1>4, <1>5, <1>7, <1>8, <1>9 DEF Counted

\* One token taken from bucket b of size cap, for send n.
LEMMA TakeFits ==
    ASSUME NEW b, NEW t \in Nat, b.tokens \in Nat, b.last = t, NEW cap \in Nat, b.tokens <= cap,
           NEW rate \in Nat, b.tokens >= Cost, NEW I, IsFiniteSet(I), NEW g, Paid(I, g, t),
           Fits(b, cap, rate, I, g, t), NEW n \in Nat, \A i \in I : i < n,
           NEW h, h[n].at = t, \A i \in I : h[i] = g[i], NEW J, J = I \cup {n},
           NEW c, c.tokens = b.tokens - Cost, c.last = t
    PROVE  c.tokens \in Nat /\ Fits(c, cap, rate, J, h, t)
<1>1. Timed(c, t) /\ Fits(c, cap, rate, I \cup {n}, h, t)
  BY FitsTaken
<1> QED BY <1>1 DEF Timed

\* rateOk() keeps both accounts exact, whether it lets the send through or not.
LEMMA RateOkKeeps ==
    ASSUME RateInv, NEW p \in Out!Peer, Out!rateOk(p), clock' = clock
    PROVE  RateInv'
<1> DEFINE g == Out!refill(global, GlobalCap, GlobalRate)
           t == Out!Tracked(p)
           i == CHOOSE j \in DOMAIN t : t[j].peer = p
           ok == Out!peek(g) /\ Out!peek(t[i])
           si == IF Out!HasBucket(p) THEN since ELSE [since EXCEPT ![p] = Len(granted)]
           h == Append(granted, [to |-> p, at |-> clock])
           n == Len(granted) + 1
<1>1. /\ global' = IF ok THEN Out!take(g) ELSE g
      /\ peers' = IF ok THEN [t EXCEPT ![i] = Out!take(@)] ELSE t
      /\ granted' = IF ok THEN h ELSE granted
      /\ since' = si
  BY Zenon DEF Out!rateOk
<1>2. /\ Granted(granted, since, clock) /\ clock \in Nat
      /\ global \in Account /\ global.last <= clock
      /\ Fits(global, GlobalCap, GlobalRate, DOMAIN granted, granted, clock)
  BY DEF RateInv, Rates, Granted
<1>3. /\ GlobalCap \in Nat /\ GlobalRate \in Nat /\ PeerCap \in Nat /\ PeerRate \in Nat
      /\ Cost \in Nat
  BY RateFacts
<1>4. /\ Granted(granted, si, clock)
      /\ t \in Seq(PeerAccount) /\ Distinct(t) /\ PeersFit(t, granted, si, clock)
      /\ \E j \in DOMAIN t : t[j].peer = p
      /\ \A j \in DOMAIN t : t[j].peer = p => t[j].last = clock /\ t[j].tokens <= PeerCap
  <2> DEFINE tt == t
             ss == si
  <2>1. tt = Out!Tracked(p) /\ ss = IF Out!HasBucket(p) THEN since
                                    ELSE [since EXCEPT ![p] = Len(granted)]
    OBVIOUS
  <2>2. RateInv /\ p \in Out!Peer
    OBVIOUS
  <2> HIDE DEF tt, ss
  <2>3. /\ Granted(granted, ss, clock)
        /\ tt \in Seq(PeerAccount) /\ Distinct(tt) /\ PeersFit(tt, granted, ss, clock)
        /\ \E j \in DOMAIN tt : tt[j].peer = p
        /\ \A j \in DOMAIN tt : tt[j].peer = p => tt[j].last = clock /\ tt[j].tokens <= PeerCap
    BY ONLY <2>1, <2>2, TrackedFacts
  <2> QED BY <2>3 DEF tt, ss
<1>5. /\ g \in Account /\ g.last = clock /\ g.tokens <= GlobalCap
      /\ Fits(g, GlobalCap, GlobalRate, DOMAIN granted, granted, clock)
  <2> DEFINE f == Full(global, GlobalCap, GlobalRate, clock)
             c == [global EXCEPT !.tokens = f, !.last = clock]
  <2>1. g = c
    BY Zenon DEF Out!refill, Full
  <2>2. f \in Nat
    <3>1. global.tokens + (clock - global.last) * GlobalRate \in Nat
      BY <1>2, <1>3 DEF Account
    <3> QED BY <1>3, <3>1 DEF Full, Out!Least
  <2> HIDE DEF f
  <2>3. c \in Account /\ c.tokens = f /\ c.last = clock
    BY <1>2, <2>2 DEF Account
  <2>4. Timed(global, clock)
    BY <1>2 DEF Account, Timed
  <2> HIDE DEF c, g
  <2>5. /\ c.tokens <= GlobalCap
        /\ Fits(c, GlobalCap, GlobalRate, DOMAIN granted, granted, clock)
    <3>1. c.tokens = Full(global, GlobalCap, GlobalRate, clock)
      BY <2>3 DEF f
    <3> QED BY ONLY <1>2, <1>3, <2>3, <2>4, <3>1, FitsRefilled, SMTT(40)
  <2> QED BY <2>1, <2>3, <2>5
<1>6. i \in DOMAIN t /\ t[i].peer = p
  <2> HIDE DEF t
  <2> QED BY <1>4
<1> HIDE DEF g, t, i, si, h, n, ok
<1>7. CASE ~ok
  BY <1>1, <1>2, <1>4, <1>5, <1>7 DEF RateInv, Rates
<1>8. CASE ok
  <2>1. g.tokens >= Cost /\ t[i].tokens >= Cost
    BY <1>8 DEF ok, Out!peek
  <2>2. /\ Granted(h, si, clock) /\ n \in Nat /\ h[n].at = clock
        /\ DOMAIN h = (DOMAIN granted) \cup {n}
        /\ \A k \in DOMAIN granted : k < n /\ h[k] = granted[k]
        /\ Mine(p, si, h) = Mine(p, si, granted) \cup {n}
        /\ \A q \in Out!Peer \ {p} : Mine(q, si, h) = Mine(q, si, granted)
        /\ \A q : Mine(q, si, granted) \subseteq DOMAIN granted
    <3>1. Grown(h, n, granted, p, clock)
      BY Zenon DEF h, n, Grown
    <3>2. Granted(granted, si, clock) /\ p \in Out!Peer
      BY <1>4
    <3>3. Counted(h, n, granted, si, p, clock)
      BY ONLY <3>1, <3>2, GrantFacts
    <3> QED BY ONLY <3>3, Zenon DEF Counted
  <2>3. /\ IsFiniteSet(DOMAIN granted) /\ Paid(DOMAIN granted, granted, clock)
        /\ IsFiniteSet(Mine(p, si, granted)) /\ Paid(Mine(p, si, granted), granted, clock)
    BY <1>4, PaidFacts
  <2> DEFINE u == Out!take(g)
             x == t[i]
             y == Out!take(x)
             r == [t EXCEPT ![i] = y]
  <2>4. u = [g EXCEPT !.tokens = g.tokens - Cost] /\ y = [x EXCEPT !.tokens = x.tokens - Cost]
    BY Zenon DEF Out!take
  <2>5. /\ x \in PeerAccount /\ x.peer = p /\ x.last = clock /\ x.tokens <= PeerCap
        /\ Fits(x, PeerCap, PeerRate, Mine(p, si, granted), granted, clock)
    BY <1>4, <1>6 DEF PeersFit
  <2>6. g.tokens \in Nat /\ x.tokens \in Nat /\ g.tokens - Cost \in Nat /\ x.tokens - Cost \in Nat
    BY <1>3, <1>5, <2>1, <2>5 DEF Account, PeerAccount
  <2>7. u \in Account /\ u.tokens = g.tokens - Cost /\ u.last = clock
    BY <1>5, <2>4, <2>6 DEF Account
  <2>8. /\ y \in PeerAccount /\ y.peer = p /\ y.tokens = x.tokens - Cost /\ y.last = clock
    BY <2>4, <2>5, <2>6 DEF PeerAccount
  <2> HIDE DEF u, x, y
  <2>9. Fits(u, GlobalCap, GlobalRate, DOMAIN h, h, clock)
    <3>1. g.last = clock /\ g.tokens <= GlobalCap /\ g.tokens >= Cost /\ g.tokens \in Nat
      BY <1>5, <2>1, <2>6
    <3>2. Fits(g, GlobalCap, GlobalRate, DOMAIN granted, granted, clock)
      BY <1>5
    <3>3. u.tokens = g.tokens - Cost /\ u.last = clock
      BY <2>7
    <3>4. /\ \A k \in DOMAIN granted : k < n
          /\ \A k \in DOMAIN granted : h[k] = granted[k]
          /\ DOMAIN h = (DOMAIN granted) \cup {n} /\ n \in Nat /\ h[n].at = clock
      BY <2>2
    <3>5. clock \in Nat /\ IsFiniteSet(DOMAIN granted) /\ Paid(DOMAIN granted, granted, clock)
      BY <1>2, <2>3
    <3> QED BY ONLY <1>3, <3>1, <3>2, <3>3, <3>4, <3>5, TakeFits, SMTT(40)
  <2>10. Fits(y, PeerCap, PeerRate, Mine(p, si, h), h, clock)
    <3>1. x.last = clock /\ x.tokens <= PeerCap /\ x.tokens >= Cost /\ x.tokens \in Nat
      BY <2>1, <2>5, <2>6 DEF x
    <3>2. Fits(x, PeerCap, PeerRate, Mine(p, si, granted), granted, clock)
      BY <2>5
    <3>3. y.tokens = x.tokens - Cost /\ y.last = clock
      BY <2>8
    <3>4. /\ \A k \in Mine(p, si, granted) : k < n
          /\ \A k \in Mine(p, si, granted) : h[k] = granted[k]
          /\ Mine(p, si, h) = Mine(p, si, granted) \cup {n} /\ n \in Nat /\ h[n].at = clock
      BY <2>2
    <3>5. /\ clock \in Nat /\ IsFiniteSet(Mine(p, si, granted))
          /\ Paid(Mine(p, si, granted), granted, clock)
      BY <1>2, <2>3
    <3> QED BY ONLY <1>3, <3>1, <3>2, <3>3, <3>4, <3>5, TakeFits, SMTT(40)
  <2>11. /\ r \in Seq(PeerAccount) /\ DOMAIN r = DOMAIN t /\ r[i] = y
         /\ \A k \in DOMAIN t : k # i => r[k] = t[k]
    BY <1>4, <1>6, <2>8
  <2>12. Distinct(r)
    <3>1. \A k \in DOMAIN t : r[k].peer = t[k].peer
      BY <1>6, <2>8, <2>11
    <3> QED BY <1>4, <2>11, <3>1 DEF Distinct
  <2>13. ASSUME NEW k \in DOMAIN r
         PROVE  /\ r[k].last <= clock
                /\ Fits(r[k], PeerCap, PeerRate, Mine(r[k].peer, si, h), h, clock)
    <3>1. CASE k = i
      BY <1>2, <2>8, <2>10, <2>11, <3>1
    <3>2. CASE k # i
      <4>1. r[k] = t[k] /\ t[k].peer \in Out!Peer \ {p} /\ k \in DOMAIN t
        <5>1. k \in DOMAIN t /\ r[k] = t[k]
          BY <2>11, <3>2
        <5>2. t[k] \in PeerAccount
          BY <1>4, <5>1
        <5>3. t[k].peer # p
          BY <1>4, <1>6, <3>2, <5>1 DEF Distinct
        <5> QED BY <5>1, <5>2, <5>3 DEF PeerAccount
      <4> DEFINE I == Mine(t[k].peer, si, granted)
      <4>2. t[k].last <= clock /\ Fits(t[k], PeerCap, PeerRate, I, granted, clock)
        BY <1>4, <4>1 DEF PeersFit
      <4>3. Mine(t[k].peer, si, h) = I /\ \A m \in I : h[m] = granted[m]
        BY <2>2, <4>1
      <4>4. Fits(t[k], PeerCap, PeerRate, I, h, clock)
        <5> HIDE DEF I
        <5> QED BY <4>2, <4>3, FitsElsewhere
      <4> QED BY <4>1, <4>2, <4>3, <4>4
    <3> QED BY <3>1, <3>2
  <2>14. PeersFit(r, h, si, clock)
    BY <2>13 DEF PeersFit
  <2>15. global' = u /\ peers' = r /\ granted' = h /\ since' = si
    BY <1>1, <1>8 DEF u, y, x
  <2> HIDE DEF r
  <2>16. Rates(u, r, h, si, clock)
    BY <1>2, <2>2, <2>7, <2>9, <2>11, <2>12, <2>14 DEF Rates
  <2> QED BY <2>15, <2>16 DEF RateInv
<1> QED BY <1>7, <1>8

\* A tick keeps them exact,
LEMMA TickKeeps ==
    ASSUME RateInv, clock' = clock + 1, UNCHANGED <<global, peers, granted, since>>
    PROVE  RateInv'
<1> DEFINE t == clock
           s == clock + 1
<1>1. /\ Granted(granted, since, t) /\ t \in Nat /\ global \in Account /\ global.last <= t
      /\ Fits(global, GlobalCap, GlobalRate, DOMAIN granted, granted, t)
      /\ peers \in Seq(PeerAccount) /\ Distinct(peers) /\ PeersFit(peers, granted, since, t)
  BY DEF RateInv, Rates, Granted
<1>2. /\ GlobalCap \in Nat /\ GlobalRate \in Nat /\ PeerCap \in Nat /\ PeerRate \in Nat
  BY RateFacts
<1>3. s = t + 1 /\ s \in Nat /\ clock' = s
  BY <1>1
<1> HIDE DEF s, t
<1>4. Granted(granted, since, s)
  <2>1. \A n \in DOMAIN granted : granted[n].at \in Nat
    <3>1. \A n \in DOMAIN granted : granted[n] \in Grant
      BY <1>1 DEF Granted
    <3> QED BY <3>1 DEF Grant
  <2>2. \A n \in DOMAIN granted : granted[n].at <= s
    BY <1>1, <1>3, <2>1 DEF Granted
  <2> QED BY <1>1, <1>3, <2>2 DEF Granted
<1>5. /\ IsFiniteSet(DOMAIN granted) /\ Paid(DOMAIN granted, granted, t)
      /\ \A p : /\ IsFiniteSet(Mine(p, since, granted))
                /\ Paid(Mine(p, since, granted), granted, t)
  BY <1>1, PaidFacts
<1>6. Fits(global, GlobalCap, GlobalRate, DOMAIN granted, granted, s) /\ global.last <= s
  <2>1. Timed(global, t)
    BY <1>1 DEF Account, Timed
  <2>2. Fits(global, GlobalCap, GlobalRate, DOMAIN granted, granted, s)
    BY <1>1, <1>2, <1>3, <1>5, <2>1, FitsLater
  <2> QED BY <1>1, <1>3, <2>2 DEF Account
<1>7. PeersFit(peers, granted, since, s)
  <2> SUFFICES ASSUME NEW i \in DOMAIN peers
               PROVE  /\ peers[i].last <= s
                      /\ Fits(peers[i], PeerCap, PeerRate,
                              Mine(peers[i].peer, since, granted), granted, s)
    BY DEF PeersFit
  <2> DEFINE b == peers[i]
             I == Mine(b.peer, since, granted)
  <2>1. b \in PeerAccount /\ b.last <= t /\ Fits(b, PeerCap, PeerRate, I, granted, t)
    BY <1>1 DEF PeersFit
  <2>2. IsFiniteSet(I) /\ Paid(I, granted, t)
    BY <1>5
  <2> HIDE DEF I, b
  <2>3. Timed(b, t)
    BY <2>1 DEF PeerAccount, Timed
  <2>4. Fits(b, PeerCap, PeerRate, I, granted, s)
    BY <1>1, <1>2, <1>3, <2>1, <2>2, <2>3, FitsLater
  <2>5. b.last <= s
    BY <1>1, <1>3, <2>1 DEF PeerAccount
  <2> QED BY <2>4, <2>5 DEF b, I
<1>8. Rates(global, peers, granted, since, s)
  BY <1>1, <1>4, <1>6, <1>7 DEF Rates
<1> QED BY <1>3, <1>8 DEF RateInv

\* and then refill() gives what the definition of the level gives.
LEMMA RateSafe ==
    ASSUME RateInv PROVE Out!RateExact
<1>1. /\ Granted(granted, since, clock) /\ clock \in Nat /\ global \in Account
      /\ Fits(global, GlobalCap, GlobalRate, DOMAIN granted, granted, clock)
      /\ peers \in Seq(PeerAccount) /\ PeersFit(peers, granted, since, clock)
      /\ global.last <= clock
  BY DEF RateInv, Rates, Granted
<1>2. /\ GlobalCap \in Nat /\ GlobalRate \in Nat /\ PeerCap \in Nat /\ PeerRate \in Nat
  BY RateFacts
<1>3. /\ IsFiniteSet(DOMAIN granted) /\ Paid(DOMAIN granted, granted, clock)
      /\ \A p : /\ IsFiniteSet(Mine(p, since, granted))
                /\ Paid(Mine(p, since, granted), granted, clock)
  BY <1>1, PaidFacts
<1>4. Out!refill(global, GlobalCap, GlobalRate).tokens
      = Out!Level(GlobalCap, GlobalRate, DOMAIN granted)
  <2> DEFINE v == Full(global, GlobalCap, GlobalRate, clock)
  <2>1. Out!refill(global, GlobalCap, GlobalRate)
        = [global EXCEPT !.tokens = v, !.last = clock]
    BY Zenon DEF Out!refill, Full
  <2>2. v \in Int
    <3>1. global.tokens + (clock - global.last) * GlobalRate \in Nat
      BY <1>1, <1>2 DEF Account
    <3> QED BY <1>2, <3>1 DEF Full, Out!Least
  <2>3. Leaves(v, GlobalCap, GlobalRate, DOMAIN granted, granted, clock)
    BY <1>1 DEF Fits
  <2> HIDE DEF v
  <2>4. Out!refill(global, GlobalCap, GlobalRate).tokens = v
    BY <1>1, <2>1 DEF Account
  <2>5. Out!Level(GlobalCap, GlobalRate, DOMAIN granted) = v
    BY <1>1, <1>2, <1>3, <2>2, <2>3, LevelIs
  <2> QED BY <2>4, <2>5
<1>5. ASSUME NEW i \in DOMAIN peers
      PROVE  Out!refill(peers[i], PeerCap, PeerRate).tokens
             = Out!Level(PeerCap, PeerRate, Mine(peers[i].peer, since, granted))
  <2> DEFINE b == peers[i]
             I == Mine(b.peer, since, granted)
             v == Full(b, PeerCap, PeerRate, clock)
  <2>1. /\ b \in PeerAccount /\ b.last <= clock
        /\ Fits(b, PeerCap, PeerRate, I, granted, clock)
        /\ IsFiniteSet(I) /\ Paid(I, granted, clock)
    BY <1>1, <1>3 DEF PeersFit
  <2>2. Out!refill(b, PeerCap, PeerRate) = [b EXCEPT !.tokens = v, !.last = clock]
    BY Zenon DEF Out!refill, Full
  <2> HIDE DEF I, b
  <2>3. v \in Int
    <3>0. b.tokens \in Nat /\ b.last \in Nat /\ clock - b.last \in Nat
      BY <1>1, <2>1 DEF PeerAccount
    <3>1. b.tokens + (clock - b.last) * PeerRate \in Nat
      BY <1>2, <3>0
    <3> QED BY <1>2, <3>1 DEF Full, Out!Least
  <2>4. Leaves(v, PeerCap, PeerRate, I, granted, clock)
    BY <2>1 DEF Fits
  <2> HIDE DEF v
  <2>5. Out!refill(b, PeerCap, PeerRate).tokens = v
    BY <2>1, <2>2 DEF PeerAccount
  <2>6. Out!Level(PeerCap, PeerRate, I) = v
    BY <1>1, <1>2, <2>1, <2>3, <2>4, LevelIs
  <2> QED BY <2>5, <2>6 DEF b, I
<1> QED BY <1>4, <1>5 DEF Out!RateExact, Mine


-----------------------------------------------------------------------------
(* The registry of skills.                                                                      *)

Phases == {"new", "sign", "ack", "registry", "done"}
Names == {k.name : k \in Out!Skill}
NameOf(c) == what[c].name

\* The calls are where their phase says, and an announcement is of a skill there is.
CallInv ==
    /\ outAt \in [Call -> Phases] /\ DOMAIN what = Call
    /\ menu \in Menu
    /\ \A c \in Call : outAt[c] = "sign" /\ "name" \in DOMAIN what[c] => NameOf(c) \in Names

\* The commands on their way are of announcements that wait for them, each of its own.
OpsInv ==
    /\ ops \in Seq(Call)
    /\ \A i \in 1..Len(ops) : outAt[ops[i]] = "registry" /\ NameOf(ops[i]) \in Names
    /\ \A i, j \in 1..Len(ops) : ops[i] = ops[j] => i = j

\* The last command on its way for a name carries the scope that was announced last, and a name
\* with none on its way is registered as it was announced.
NoLater(i) == \A j \in 1..Len(ops) : j > i => NameOf(ops[j]) # NameOf(ops[i])
Settled(s) == \A i \in 1..Len(ops) : NameOf(ops[i]) # s
ScopeInv ==
    /\ DOMAIN scopes = Names /\ registry \subseteq Names
    /\ \A i \in 1..Len(ops) : NoLater(i) => what[ops[i]].scope = scopes[NameOf(ops[i])]
    /\ ~opLost => \A s \in Names : Settled(s) => (s \in registry <=> scopes[s] = "global")

RegInv == CallInv /\ OpsInv /\ ScopeInv

\* With no command on its way, that is the property.
LEMMA RegSafe == ASSUME RegInv PROVE Out!RegistryFollows
<1>1. ASSUME ops = <<>>, ~opLost
      PROVE  registry = {s \in DOMAIN scopes : scopes[s] = "global"}
  <2>1. Len(ops) = 0
    BY <1>1
  <2>2. \A s \in Names : Settled(s)
    BY <2>1 DEF Settled
  <2>3. /\ DOMAIN scopes = Names /\ registry \subseteq Names
        /\ \A s \in Names : s \in registry <=> scopes[s] = "global"
    BY <1>1, <2>2 DEF RegInv, ScopeInv
  <2> QED BY <2>3
<1> QED BY <1>1 DEF Out!RegistryFollows

\* A call that awaits no command may be answered or moved on.
LEMMA ElsewhereKeeps ==
    ASSUME RegInv, NEW c \in Call, outAt[c] # "registry",
           outAt' \in [Call -> Phases], DOMAIN what' = Call,
           \A d \in Call \ {c} : outAt'[d] = outAt[d] /\ what'[d] = what[d],
           outAt'[c] = "sign" /\ "name" \in DOMAIN what'[c] => NameOf(c)' \in Names,
           UNCHANGED <<menu, ops, registry, scopes, opLost>>
    PROVE  RegInv'
<1>1. CallInv'
  BY DEF RegInv, CallInv, NameOf
<1>2. /\ ops \in Seq(Call) /\ ops' = ops
      /\ \A i \in 1..Len(ops) : outAt[ops[i]] = "registry" /\ NameOf(ops[i]) \in Names
      /\ \A i, j \in 1..Len(ops) : ops[i] = ops[j] => i = j
  BY DEF RegInv, OpsInv
<1>3. \A i \in 1..Len(ops) : ops[i] \in Call \ {c}
  <2>1. \A i \in 1..Len(ops) : ops[i] \in Call
    BY <1>2
  <2> QED BY <1>2, <2>1
<1>4. \A i \in 1..Len(ops) : /\ outAt'[ops[i]] = outAt[ops[i]]
                             /\ what'[ops[i]] = what[ops[i]] /\ NameOf(ops[i])' = NameOf(ops[i])
  BY <1>2, <1>3 DEF NameOf
<1>5. OpsInv'
  BY <1>2, <1>4 DEF OpsInv
<1>6. ScopeInv'
  <2>1. /\ DOMAIN scopes' = Names /\ registry' \subseteq Names
        /\ scopes' = scopes /\ registry' = registry /\ opLost' = opLost
    BY DEF RegInv, ScopeInv
  <2>2. \A i \in 1..Len(ops) : NoLater(i)' <=> NoLater(i)
    BY <1>2, <1>4 DEF NoLater
  <2>3. \A s : Settled(s)' <=> Settled(s)
    BY <1>2, <1>4 DEF Settled
  <2>4. \A i \in 1..Len(ops)' : NoLater(i)' => what'[ops'[i]].scope = scopes'[NameOf(ops[i])']
    BY <1>2, <1>4, <2>1, <2>2 DEF RegInv, ScopeInv
  <2> QED BY <2>1, <2>3, <2>4 DEF RegInv, ScopeInv
<1> QED BY <1>1, <1>5, <1>6 DEF RegInv

\* A broadcast sends its command as the last one.
LEMMA BroadcastKeeps ==
    ASSUME RegInv, NEW c \in Call, outAt[c] = "sign", NameOf(c) \in Names,
           scopes' = [scopes EXCEPT ![NameOf(c)] = what[c].scope], ops' = Append(ops, c),
           outAt' = [outAt EXCEPT ![c] = "registry"], UNCHANGED <<menu, what, registry, opLost>>
    PROVE  RegInv'
<1>1. /\ ops \in Seq(Call) /\ DOMAIN scopes = Names /\ registry \subseteq Names
      /\ \A i \in 1..Len(ops) : outAt[ops[i]] = "registry" /\ NameOf(ops[i]) \in Names
      /\ \A i, j \in 1..Len(ops) : ops[i] = ops[j] => i = j
      /\ outAt \in [Call -> Phases]
  BY DEF RegInv, CallInv, OpsInv, ScopeInv
<1> DEFINE n == Len(ops) + 1
<1>2. /\ n \in Nat /\ Len(ops) \in Nat /\ ops' \in Seq(Call) /\ Len(ops') = n /\ ops'[n] = c
      /\ \A i \in 1..Len(ops) : ops'[i] = ops[i] /\ i < n /\ i \in Nat
      /\ 1..Len(ops') = (1..Len(ops)) \cup {n}
  BY <1>1
<1>3. \A i \in 1..Len(ops) : ops[i] \in Call /\ ops[i] # c
  BY <1>1
<1> HIDE DEF n
<1>4. /\ outAt' \in [Call -> Phases] /\ outAt'[c] = "registry"
      /\ \A d \in Call \ {c} : outAt'[d] = outAt[d]
  BY <1>1 DEF Phases
<1>5. \A d : NameOf(d)' = NameOf(d)
  BY DEF NameOf
<1>6. CallInv'
  BY <1>4, <1>5 DEF RegInv, CallInv, NameOf
<1>7. OpsInv'
  <2>1. \A i \in 1..Len(ops)' : outAt'[ops'[i]] = "registry" /\ NameOf(ops[i])' \in Names
    BY <1>1, <1>2, <1>3, <1>4, <1>5 DEF NameOf
  <2>2. \A i, j \in 1..Len(ops)' : ops'[i] = ops'[j] => i = j
    BY <1>1, <1>2, <1>3
  <2> QED BY <1>2, <2>1, <2>2 DEF OpsInv
<1>8. /\ DOMAIN scopes' = Names /\ scopes'[NameOf(c)] = what[c].scope
      /\ \A s \in Names : s # NameOf(c) => scopes'[s] = scopes[s]
  BY <1>1
<1>9. ASSUME NEW i \in 1..Len(ops)', NoLater(i)'
      PROVE  what'[ops'[i]].scope = scopes'[NameOf(ops[i])']
  <2>1. CASE i = n
    BY <1>2, <1>8, <2>1 DEF NameOf
  <2>2. CASE i \in 1..Len(ops)
    <3>1. \A j \in 1..Len(ops)' : j > i => what'[ops'[j]].name # what'[ops'[i]].name
      BY <1>9 DEF NoLater, NameOf
    <3>2. n \in 1..Len(ops)' /\ n > i
      BY <1>2, <2>2
    <3>3. NameOf(ops[i]) # NameOf(c) /\ NameOf(ops[i]) \in Names
      BY <1>1, <1>2, <2>2, <3>1, <3>2 DEF NameOf
    <3>4. NoLater(i)
      BY <1>2, <2>2, <3>1 DEF NoLater, NameOf
    <3>5. what[ops[i]].scope = scopes[NameOf(ops[i])]
      BY <2>2, <3>4 DEF RegInv, ScopeInv
    <3> QED BY <1>2, <1>8, <2>2, <3>3, <3>5 DEF NameOf
  <2> QED BY <1>2, <2>1, <2>2
<1>10. ASSUME ~opLost', NEW s \in Names, Settled(s)'
       PROVE  s \in registry' <=> scopes'[s] = "global"
  <2>1. \A i \in 1..Len(ops)' : what'[ops'[i]].name # s
    BY <1>10 DEF Settled, NameOf
  <2>2. s # NameOf(c)
    BY <1>2, <2>1 DEF NameOf
  <2>3. Settled(s)
    BY <1>2, <2>1 DEF Settled, NameOf
  <2> QED BY <1>8, <1>10, <2>2, <2>3 DEF RegInv, ScopeInv
<1> QED BY <1>1, <1>6, <1>7, <1>8, <1>9, <1>10 DEF RegInv, ScopeInv

\* The first command is executed, or fails.
LEMMA RegisterKeeps ==
    ASSUME RegInv, Out!Register PROVE RegInv'
<1> DEFINE c == Head(ops)
           n == NameOf(c)
<1>1. /\ ops \in Seq(Call) /\ ops # <<>> /\ DOMAIN scopes = Names /\ registry \subseteq Names
      /\ \A i \in 1..Len(ops) : outAt[ops[i]] = "registry" /\ NameOf(ops[i]) \in Names
      /\ \A i, j \in 1..Len(ops) : ops[i] = ops[j] => i = j
      /\ outAt \in [Call -> Phases] /\ DOMAIN what = Call
  BY DEF RegInv, CallInv, OpsInv, ScopeInv, Out!Register
<1>2. /\ ops' = Tail(ops) /\ UNCHANGED <<menu, scopes>>
      /\ outAt' = [outAt EXCEPT ![c] = "done"] /\ what' = [what EXCEPT ![c] = Out!Nothing]
      /\ \/ /\ registry' = IF what[c].scope = "global" THEN registry \cup {n} ELSE registry \ {n}
            /\ UNCHANGED opLost
         \/ opLost' = TRUE /\ UNCHANGED registry
  BY Zenon DEF Out!Register, Out!Answered, Out!Fault, NameOf
<1>3. /\ Len(ops) \in Nat /\ 1 \in 1..Len(ops) /\ c = ops[1] /\ c \in Call
      /\ ops' \in Seq(Call) /\ Len(ops') = Len(ops) - 1
      /\ \A i \in 1..Len(ops') : i \in Nat /\ i + 1 \in 1..Len(ops) /\ ops'[i] = ops[i + 1]
  BY <1>1, <1>2
<1>4. \A i \in 1..Len(ops) : i # 1 => i - 1 \in 1..Len(ops') /\ ops'[i - 1] = ops[i]
  BY <1>3
<1>5. n \in Names
  BY <1>1, <1>3
<1> HIDE DEF c, n
<1>6. /\ outAt' \in [Call -> Phases] /\ DOMAIN what' = Call /\ outAt'[c] = "done"
      /\ \A d \in Call \ {c} : outAt'[d] = outAt[d] /\ what'[d] = what[d]
  BY <1>1, <1>2, <1>3 DEF Phases
<1>7. \A i \in 1..Len(ops') : ops'[i] \in Call \ {c}
  <2>1. \A i \in 1..Len(ops') : ops[i + 1] # ops[1] /\ ops[i + 1] \in Call
    BY <1>1, <1>3
  <2> QED BY <1>3, <2>1
<1>8. \A i \in 1..Len(ops') : /\ outAt'[ops'[i]] = outAt[ops[i + 1]]
                              /\ what'[ops'[i]] = what[ops[i + 1]]
  <2>1. \A i \in 1..Len(ops') : /\ outAt'[ops'[i]] = outAt[ops'[i]]
                                /\ what'[ops'[i]] = what[ops'[i]]
    BY <1>6, <1>7
  <2> QED BY <1>3, <2>1
<1>9. CallInv'
  BY <1>2, <1>6 DEF RegInv, CallInv, NameOf
<1>10. OpsInv'
  <2>1. \A i \in 1..Len(ops)' : outAt'[ops'[i]] = "registry" /\ NameOf(ops[i])' \in Names
    BY <1>1, <1>3, <1>8 DEF NameOf
  <2>2. \A i, j \in 1..Len(ops)' : ops'[i] = ops'[j] => i = j
    BY <1>1, <1>3
  <2> QED BY <1>3, <2>1, <2>2 DEF OpsInv
<1>11. ASSUME NEW i \in 1..Len(ops)', NoLater(i)'
       PROVE  what'[ops'[i]].scope = scopes'[NameOf(ops[i])']
  <2>1. \A j \in 1..Len(ops') : j > i => what'[ops'[j]].name # what'[ops'[i]].name
    BY <1>11 DEF NoLater, NameOf
  <2>2. ASSUME NEW j \in 1..Len(ops), j > i + 1
        PROVE  what[ops[j]].name # what[ops[i + 1]].name
    <3>1. j - 1 \in 1..Len(ops') /\ j - 1 > i /\ (j - 1) + 1 = j
      BY <1>3, <2>2
    <3>2. what'[ops'[j - 1]] = what[ops[j]] /\ what'[ops'[i]] = what[ops[i + 1]]
      BY <1>8, <3>1
    <3> QED BY <2>1, <3>1, <3>2
  <2>3. i + 1 \in 1..Len(ops)
    BY <1>3
  <2>4. NoLater(i + 1)
    BY <2>2 DEF NoLater, NameOf
  <2>5. what[ops[i + 1]].scope = scopes[NameOf(ops[i + 1])]
    BY <2>3, <2>4 DEF RegInv, ScopeInv
  <2> QED BY <1>2, <1>8, <2>5 DEF NameOf
<1>12. registry' \subseteq Names
  BY <1>1, <1>2, <1>5
<1>13. ASSUME ~opLost', NEW s \in Names, Settled(s)'
       PROVE  s \in registry' <=> scopes'[s] = "global"
  <2>1. \A i \in 1..Len(ops') : what'[ops'[i]].name # s
    BY <1>13 DEF Settled, NameOf
  <2>2. ASSUME NEW j \in 1..Len(ops), j # 1
        PROVE  NameOf(ops[j]) # s
    <3>1. j - 1 \in 1..Len(ops') /\ (j - 1) + 1 = j
      BY <1>3, <1>4, <2>2
    <3>2. what'[ops'[j - 1]] = what[ops[j]]
      BY <1>8, <3>1
    <3> QED BY <2>1, <3>1, <3>2 DEF NameOf
  <2>3. /\ registry' = IF what[c].scope = "global" THEN registry \cup {n} ELSE registry \ {n}
        /\ ~opLost
    BY <1>2, <1>13
  <2>4. CASE s = n
    <3>1. n = NameOf(ops[1])
      BY <1>3 DEF n
    <3>2. NoLater(1)
      BY <2>2, <2>4, <3>1 DEF NoLater
    <3>3. what[c].scope = scopes[n]
      BY <1>3, <3>1, <3>2 DEF RegInv, ScopeInv
    <3> QED BY <1>2, <2>3, <2>4, <3>3
  <2>5. CASE s # n
    <3>1. Settled(s)
      BY <1>3, <2>2, <2>5 DEF Settled, n
    <3>2. s \in registry <=> scopes[s] = "global"
      BY <2>3, <3>1 DEF RegInv, ScopeInv
    <3> QED BY <1>2, <2>3, <2>5, <3>2
  <2> QED BY <2>4, <2>5
<1> QED BY <1>1, <1>2, <1>9, <1>10, <1>11, <1>12, <1>13 DEF RegInv, ScopeInv

-----------------------------------------------------------------------------
(* What goes out.                                                                               *)

\* An envelope made of arguments that send() accepted, and one that a receiver accepts.
Built(e) ==
    \E a \in Out!Args, c \in Call :
        Out!validateSendArgs(a, Self) = "ok" /\ e = Out!Envelope(a, Self, <<Out!ToString(c)>>)
Accepted(e) == Out!isValidInbound(e) /\ (SigAlg # "off" => Out!verifyEnvelope(e, Self, SigAlg))

\* What waits for its signature was accepted by send(), and what is out is accepted by a receiver.
SentInv ==
    /\ \A c \in Call : outAt[c] = "sign" /\ "name" \notin DOMAIN what[c] => Built(what[c])
    /\ \A e \in onWire : Accepted(e)

\* An envelope built from accepted arguments has the structure a receiver insists on.
LEMMA BuiltIsValid ==
    ASSUME NEW e, Built(e)
    PROVE  Out!isValidInbound(e) /\ "name" \notin DOMAIN e
<1>1. PICK a \in Out!Args, c \in Call :
          Out!validateSendArgs(a, Self) = "ok" /\ e = Out!Envelope(a, Self, <<Out!ToString(c)>>)
  BY DEF Built
<1>2. a.type \in {"none", "msg", "request", "reply", "other"} /\ Self # "bad"
  BY SendAssume DEF Out!SendAssumption, Out!Args
<1>3. /\ a.to # "bad" /\ a.type # "other"
      /\ a.type = "reply" => a.corrKind \notin {"none", "empty"}
      /\ a.type # "reply" => a.corrKind = "none"
      /\ Out!ShortText(a.corrKind) /\ Out!ShortText(a.thread) /\ Out!TtlOk(a.ttl)
      /\ a.attrs \notin {"array", "nonstring"}
  BY <1>1 DEF Out!validateSendArgs
<1> DEFINE x == Out!ToString(c)
<1>4. /\ e.id = <<x>> /\ e.from = Self /\ e.to = a.to /\ e.ttl = a.ttl /\ e.attrs = a.attrs
      /\ e.type = (IF a.type = "none" THEN "msg" ELSE a.type)
      /\ e.corrKind = (IF a.type = "reply" THEN a.corrKind ELSE "none")
      /\ e.thread = (IF a.thread = "empty" THEN "none" ELSE a.thread)
      /\ "name" \notin DOMAIN e
  <2> HIDE DEF x
  <2>1. e = Out!Envelope(a, Self, <<x>>)
    BY <1>1 DEF x
  <2> QED BY <2>1 DEF Out!Envelope
<1> HIDE DEF x
<1>5. Len(e.id) > 0
  <2>1. Len(<<x>>) = 1
    OBVIOUS
  <2> QED BY <1>4, <2>1
<1>6. e.type \in {"msg", "request", "reply"}
  BY <1>2, <1>3, <1>4
<1>7. IF e.type = "reply" THEN e.corrKind \in {"empty", "ok"} ELSE e.corrKind = "none"
  BY <1>2, <1>3, <1>4 DEF Out!ShortText
<1>8. e.ttl \in {"none", "ok"} /\ Out!ShortText(e.thread)
  BY <1>3, <1>4 DEF Out!TtlOk, Out!ShortText
<1> QED BY <1>2, <1>3, <1>4, <1>5, <1>6, <1>7, <1>8 DEF Out!isValidInbound

\* The signature changes no field that it covers or that the receiver checks.
LEMMA SignedIsAccepted ==
    ASSUME NEW e, Built(e) PROVE Accepted(Out!Signed(e))
<1>1. Out!isValidInbound(e)
  BY BuiltIsValid
<1>2. CASE SigAlg = "off"
  BY <1>1, <1>2 DEF Out!Signed, Accepted
<1>3. CASE SigAlg # "off"
  <2> DEFINE s == Out!signCanonical(SigAlg, Self, Out!canonical(e))
             f == [e EXCEPT !.alg = SigAlg, !.sig = s]
  <2>1. Out!Signed(e) = f
    BY <1>3 DEF Out!Signed
  <2>2. PICK a \in Out!Args, c \in Call : e = Out!Envelope(a, Self, <<Out!ToString(c)>>)
    BY DEF Built
  <2>3. s # <<>>
    <3>1. Len(<<SigAlg, Self, Out!canonical(e)>>) = 3 /\ Len(<<>>) = 0
      OBVIOUS
    <3> QED BY <3>1 DEF Out!signCanonical
  <2> HIDE DEF s
  <2>4. /\ f.id = e.id /\ f.from = e.from /\ f.to = e.to /\ f.type = e.type /\ f.corr = e.corr
        /\ f.corrKind = e.corrKind /\ f.ttl = e.ttl /\ f.thread = e.thread
        /\ f.attrs = e.attrs /\ f.body = e.body /\ f.alg = SigAlg /\ f.sig = s
    BY <2>2 DEF Out!Envelope
  <2> HIDE DEF f
  <2>5. Out!isValidInbound(f)
    BY <1>1, <2>4 DEF Out!isValidInbound
  <2>6. Out!SignedFields(f) = Out!SignedFields(e)
    BY <2>4 DEF Out!SignedFields
  <2>7. Out!canonical(f) = Out!canonical(e)
    BY <2>6, Zenon DEF Out!canonical
  <2>8. Out!verifyEnvelope(f, Self, SigAlg)
    <3>1. f.sig = Out!signCanonical(SigAlg, Self, Out!canonical(f))
      BY <2>4, <2>7 DEF s
    <3> QED BY <2>3, <2>4, <3>1 DEF Out!verifyEnvelope, Out!verifyCanonical
  <2> QED BY <2>1, <2>5, <2>8 DEF Accepted
<1> QED BY <1>2, <1>3

\* One call moves on and the others stay.
Moved(c) ==
    /\ outAt' \in [Call -> Phases] /\ DOMAIN what' = Call
    /\ \A d \in Call \ {c} : outAt'[d] = outAt[d] /\ what'[d] = what[d]
LEMMA AnsweredMoves ==
    ASSUME CallInv, NEW c \in Call, NEW r, Out!Answered(c, r)
    PROVE  Moved(c) /\ outAt'[c] = "done"
BY DEF CallInv, Phases, Out!Answered, Moved

\* A move keeps what is known of the envelopes if it does for the one that moves.
LEMMA MovedKeeps ==
    ASSUME SentInv, NEW c \in Call, Moved(c), \A e \in onWire' : Accepted(e),
           outAt'[c] = "sign" /\ "name" \notin DOMAIN what'[c] => Built(what'[c])
    PROVE  SentInv'
<1>1. \A d \in Call : outAt'[d] = "sign" /\ "name" \notin DOMAIN what'[d] => Built(what'[d])
  BY DEF SentInv, Moved
<1> QED BY <1>1 DEF SentInv, Built, Accepted

-----------------------------------------------------------------------------
(* The three together.                                                                          *)

OutInv == RateInv /\ RegInv /\ SentInv

\* Buckets that are left alone stay exact.
LEMMA RateSame ==
    ASSUME RateInv, UNCHANGED <<clock, Out!bucketVars>> PROVE RateInv'
BY DEF RateInv, Out!bucketVars

\* send(), refused or on its way to be signed.
LEMMA SendStep ==
    ASSUME OutInv, NEW c \in Call, NEW a \in menu.args, Out!Send(c, a) PROVE OutInv'
<1>1. /\ a \in Out!Args /\ outAt[c] = "new" /\ CallInv
      /\ outAt \in [Call -> Phases] /\ DOMAIN what = Call
  BY DEF OutInv, RegInv, CallInv, Out!Send, Out!NextCall, Out!Args
<1>2. UNCHANGED <<menu, ops, registry, scopes, opLost, clock, onWire>>
  BY DEF Out!Send, Out!skillVars
<1>3. \A e \in onWire' : Accepted(e)
  BY <1>2 DEF OutInv, SentInv
<1>4. RateInv'
  <2>1. CASE Out!validateSendArgs(a, Self) # "ok"
    <3>1. UNCHANGED Out!bucketVars
      BY <2>1, Zenon DEF Out!Send
    <3> QED BY <1>2, <3>1, RateSame DEF OutInv
  <2>2. CASE Out!validateSendArgs(a, Self) = "ok"
    <3>1. Out!rateOk(a.to)
      BY <2>2, Zenon DEF Out!Send
    <3>2. a.to # "bad"
      BY <2>2 DEF Out!validateSendArgs
    <3>3. a.to \in Out!Peer
      BY <1>1, <3>2 DEF Out!Peer
    <3> QED BY <1>2, <3>1, <3>3, RateOkKeeps DEF OutInv
  <2> QED BY <2>1, <2>2
<1>5. Moved(c) /\ (outAt'[c] = "sign" => Built(what'[c]))
  <2>1. CASE \E r : Out!Answered(c, r)
    BY <1>1, <2>1, AnsweredMoves
  <2>2. CASE /\ Out!validateSendArgs(a, Self) = "ok"
             /\ what' = [what EXCEPT ![c] = Out!Envelope(a, Self, <<Out!ToString(c)>>)]
             /\ outAt' = [outAt EXCEPT ![c] = "sign"]
    <3> DEFINE e == Out!Envelope(a, Self, <<Out!ToString(c)>>)
    <3>1. Built(e)
      BY <1>1, <2>2 DEF Built
    <3> HIDE DEF e
    <3>2. what' = [what EXCEPT ![c] = e]
      BY <2>2 DEF e
    <3>3. Moved(c) /\ what'[c] = e
      BY <1>1, <2>2, <3>2 DEF Moved, Phases
    <3> QED BY <3>1, <3>3
  <2> QED BY <2>1, <2>2, Zenon DEF Out!Send
<1>6. SentInv'
  BY <1>3, <1>5, MovedKeeps DEF OutInv
<1>7. outAt'[c] = "sign" => "name" \notin DOMAIN what'[c]
  BY <1>5, BuiltIsValid
<1>8. RegInv'
  BY <1>1, <1>2, <1>5, <1>7, ElsewhereKeeps DEF OutInv, Moved
<1> QED BY <1>4, <1>6, <1>8 DEF OutInv

\* The announcement of a skill is built.
LEMMA AnnounceStep ==
    ASSUME OutInv, NEW c \in Call, NEW k \in menu.skills, Out!Announce(c, k) PROVE OutInv'
<1> DEFINE v == [name |-> k.name, scope |-> Out!classifySkillScope(k), big |-> k.big]
<1>1. /\ outAt[c] = "new" /\ CallInv /\ outAt \in [Call -> Phases] /\ DOMAIN what = Call
      /\ k.name \in Names
  BY DEF OutInv, RegInv, CallInv, Out!Announce, Out!NextCall, Out!Skill, Names
<1>2. /\ UNCHANGED <<menu, clock, onWire, Out!bucketVars, ops, registry, scopes, opLost>>
      /\ what' = [what EXCEPT ![c] = v] /\ outAt' = [outAt EXCEPT ![c] = "sign"]
  BY DEF Out!Announce, Out!skillVars
<1>3. v.name = k.name /\ "name" \in DOMAIN v
  OBVIOUS
<1> HIDE DEF v
<1>4. Moved(c) /\ what'[c] = v
  BY <1>1, <1>2 DEF Moved, Phases
<1>5. SentInv'
  <2>1. \A e \in onWire' : Accepted(e)
    BY <1>2 DEF OutInv, SentInv
  <2> QED BY <1>3, <1>4, <2>1, MovedKeeps DEF OutInv
<1>6. NameOf(c)' \in Names
  BY <1>1, <1>3, <1>4 DEF NameOf
<1>7. RegInv'
  BY <1>1, <1>2, <1>4, <1>6, ElsewhereKeeps DEF OutInv, Moved
<1> QED BY <1>2, <1>5, <1>7, RateSame DEF OutInv

\* A call that only changes what it awaits, having nothing to do with the registry.
LEMMA CallStep ==
    ASSUME OutInv, NEW c \in Call, outAt[c] # "registry", Moved(c), outAt'[c] # "sign",
           \A e \in onWire' : Accepted(e),
           UNCHANGED <<menu, clock, Out!bucketVars, ops, registry, scopes, opLost>>
    PROVE  OutInv'
<1>1. SentInv'
  BY MovedKeeps DEF OutInv
<1>2. RegInv'
  BY ElsewhereKeeps DEF OutInv, Moved
<1> QED BY <1>1, <1>2, RateSame DEF OutInv

\* A message is published,
LEMMA PublishStep ==
    ASSUME OutInv, NEW c \in Call, Out!Publish(c) PROVE OutInv'
<1>1. /\ outAt[c] = "sign" /\ "name" \notin DOMAIN what[c] /\ onWire' = {Out!Signed(what[c])}
      /\ UNCHANGED <<menu, clock, Out!bucketVars, ops, registry, scopes, opLost>>
      /\ CallInv
  BY DEF OutInv, RegInv, Out!Publish, Out!StreamPublish, Out!skillVars
<1>2. Moved(c) /\ outAt'[c] # "sign"
  <2>1. CASE Out!Answered(c, "ok")
    BY <1>1, <2>1, AnsweredMoves
  <2>2. CASE outAt' = [outAt EXCEPT ![c] = "ack"] /\ UNCHANGED what
    BY <1>1, <2>2 DEF CallInv, Moved, Phases
  <2> QED BY <2>1, <2>2 DEF Out!Publish, Out!StreamPublish
<1>3. \A e \in onWire' : Accepted(e)
  <2>1. Built(what[c])
    BY <1>1 DEF OutInv, SentInv
  <2> QED BY <1>1, <2>1, SignedIsAccepted
<1> QED BY <1>1, <1>2, <1>3, CallStep

\* not signed, or acknowledged;
LEMMA AnswerStep ==
    ASSUME OutInv, NEW c \in Call, Out!SignFails(c) \/ Out!Acked(c) PROVE OutInv'
<1>1. /\ outAt[c] \in {"sign", "ack"} /\ CallInv
      /\ UNCHANGED <<menu, clock, onWire, Out!bucketVars, ops, registry, scopes, opLost>>
  BY DEF OutInv, RegInv, Out!SignFails, Out!Acked, Out!skillVars
<1>2. \E r : Out!Answered(c, r)
  BY Zenon DEF Out!SignFails, Out!Acked
<1>3. Moved(c) /\ outAt'[c] # "sign"
  BY <1>1, <1>2, AnsweredMoves
<1>4. \A e \in onWire' : Accepted(e)
  BY <1>1 DEF OutInv, SentInv
<1> QED BY <1>1, <1>3, <1>4, CallStep

\* an announcement is refused or broadcast.
LEMMA BroadcastStep ==
    ASSUME OutInv, NEW c \in Call, Out!Broadcast(c) PROVE OutInv'
<1>1. /\ outAt[c] = "sign" /\ "name" \in DOMAIN what[c] /\ CallInv
      /\ UNCHANGED <<menu, clock, onWire, Out!bucketVars>>
      /\ NameOf(c) \in Names
  BY DEF OutInv, RegInv, CallInv, Out!Broadcast
<1>2. \A e \in onWire' : Accepted(e)
  BY <1>1 DEF OutInv, SentInv
<1>3. CASE Out!Answered(c, "oversize") /\ UNCHANGED Out!skillVars
  <2>1. Moved(c) /\ outAt'[c] # "sign" /\ UNCHANGED <<ops, registry, scopes, opLost>>
    BY <1>1, <1>3, AnsweredMoves DEF Out!skillVars
  <2> QED BY <1>1, <1>2, <2>1, CallStep
<1>4. CASE /\ scopes' = [scopes EXCEPT ![what[c].name] = what[c].scope]
           /\ ops' = Append(ops, c)
           /\ outAt' = [outAt EXCEPT ![c] = "registry"]
           /\ UNCHANGED <<answer, what, registry, opLost>>
  <2>1. scopes' = [scopes EXCEPT ![NameOf(c)] = what[c].scope]
    BY <1>4 DEF NameOf
  <2>2. RegInv'
    BY <1>1, <1>4, <2>1, BroadcastKeeps DEF OutInv
  <2>3. Moved(c)
    BY <1>1, <1>4 DEF CallInv, Moved, Phases
  <2>4. outAt'[c] = "registry"
    BY <1>1, <1>4 DEF CallInv
  <2>5. SentInv'
    BY <1>2, <2>3, <2>4, MovedKeeps DEF OutInv
  <2> QED BY <1>1, <2>2, <2>5, RateSame DEF OutInv
<1> QED BY <1>3, <1>4, Zenon DEF Out!Broadcast

\* Redis executes a command,
LEMMA RegisterStep ==
    ASSUME OutInv, Out!Register PROVE OutInv'
<1>1. RegInv'
  BY RegisterKeeps DEF OutInv
<1>2. UNCHANGED <<clock, onWire, Out!bucketVars>> /\ Out!Answered(Head(ops), "ok") /\ ops # <<>>
  BY Zenon DEF Out!Register
<1>3. Head(ops) \in Call /\ CallInv
  BY <1>2 DEF OutInv, RegInv, OpsInv
<1>4. Moved(Head(ops)) /\ outAt'[Head(ops)] = "done"
  BY <1>2, <1>3, AnsweredMoves
<1>5. SentInv'
  <2>1. \A e \in onWire' : Accepted(e)
    BY <1>2 DEF OutInv, SentInv
  <2> QED BY <1>3, <1>4, <2>1, MovedKeeps DEF OutInv
<1> QED BY <1>1, <1>2, <1>5, RateSame DEF OutInv

\* and time passes.
LEMMA TickStep ==
    ASSUME OutInv, Out!Tick PROVE OutInv'
<1>1. /\ clock' = clock + 1 /\ UNCHANGED <<global, peers, granted, since>>
      /\ UNCHANGED <<menu, outAt, what, onWire, ops, registry, scopes, opLost>>
  BY DEF Out!Tick, Out!bucketVars, Out!skillVars
<1>2. RateInv'
  BY <1>1, TickKeeps DEF OutInv
<1>3. RegInv'
  BY <1>1 DEF OutInv, RegInv, CallInv, OpsInv, ScopeInv, NoLater, Settled, NameOf
<1>4. SentInv'
  BY <1>1 DEF OutInv, SentInv, Built, Accepted
<1> QED BY <1>2, <1>3, <1>4 DEF OutInv

\* In the beginning both buckets are full and nothing was sent or announced.
LEMMA OutStarts == Out!Init => OutInv
<1> SUFFICES ASSUME Out!Init PROVE OutInv
  OBVIOUS
<1>1. RateInv
  <2>1. /\ clock = 0 /\ global = [tokens |-> GlobalCap, last |-> 0] /\ peers = <<>>
        /\ granted = <<>> /\ since = [p \in Out!Peer |-> 0]
    BY DEF Out!Init
  <2>2. Granted(granted, since, clock)
    <3>1. Len(granted) = 0 /\ granted \in Seq(Grant) /\ DOMAIN granted = {}
      BY <2>1
    <3> QED BY <2>1, <3>1 DEF Granted
  <2>3. peers \in Seq(PeerAccount) /\ DOMAIN peers = {} /\ DOMAIN granted = {}
    BY <2>1
  <2>4. global \in Account /\ global.last <= clock /\ global.tokens = GlobalCap /\ global.last = 0
    BY <2>1, RateFacts DEF Account
  <2>5. Fits(global, GlobalCap, GlobalRate, DOMAIN granted, granted, clock)
    <3>1. global.tokens + (clock - global.last) * GlobalRate = GlobalCap /\ GlobalCap \in Nat
      BY <2>1, <2>4, RateFacts
    <3>2. Full(global, GlobalCap, GlobalRate, clock) = GlobalCap
      BY <3>1 DEF Full, Out!Least
    <3> QED BY <2>3, <3>1, <3>2 DEF Fits, Leaves
  <2> QED BY <2>2, <2>3, <2>4, <2>5 DEF RateInv, Rates, Distinct, PeersFit
<1>2. /\ outAt = [c \in Call |-> "new"] /\ what = [c \in Call |-> Out!Nothing]
      /\ menu \in Menu /\ ops = <<>> /\ registry = {} /\ onWire = {}
      /\ scopes = [s \in Names |-> "none"]
  BY DEF Out!Init, Names
<1>3. CallInv
  BY <1>2 DEF CallInv, Phases
<1>4. ops \in Seq(Call) /\ Len(ops) = 0 /\ \A i : i \notin 1..Len(ops)
  BY <1>2
<1>5. OpsInv /\ ScopeInv
  <2>1. \A s \in Names : s \notin registry /\ scopes[s] # "global"
    BY <1>2
  <2> QED BY <1>2, <1>4, <2>1 DEF OpsInv, ScopeInv
<1>6. SentInv
  BY <1>2 DEF SentInv
<1> QED BY <1>1, <1>3, <1>5, <1>6 DEF OutInv, RegInv

\* Every step of the sending side keeps the three.
LEMMA OutStep ==
    ASSUME OutInv, [Out!Next]_Out!vars PROVE OutInv'
<1>1. CASE Out!Tick
  BY <1>1, TickStep
<1>2. CASE Out!Register
  BY <1>2, RegisterStep
<1>3. ASSUME NEW c \in Call, NEW a \in menu.args, Out!Send(c, a) PROVE OutInv'
  BY <1>3, SendStep
<1>4. ASSUME NEW c \in Call, NEW k \in menu.skills, Out!Announce(c, k) PROVE OutInv'
  BY <1>4, AnnounceStep
<1>5. ASSUME NEW c \in Call, Out!Publish(c) PROVE OutInv'
  BY <1>5, PublishStep
<1>6. ASSUME NEW c \in Call, Out!SignFails(c) \/ Out!Acked(c) PROVE OutInv'
  BY <1>6, AnswerStep
<1>7. ASSUME NEW c \in Call, Out!Broadcast(c) PROVE OutInv'
  BY <1>7, BroadcastStep
<1>8. CASE UNCHANGED Out!vars
  <2>1. /\ UNCHANGED <<clock, Out!bucketVars>>
        /\ UNCHANGED <<menu, outAt, what, onWire, ops, registry, scopes, opLost>>
    BY <1>8 DEF Out!vars, Out!bucketVars
  <2>2. RegInv' /\ SentInv'
    BY <2>1 DEF OutInv, RegInv, CallInv, OpsInv, ScopeInv, NoLater, Settled, NameOf,
                SentInv, Built, Accepted
  <2> QED BY <2>1, <2>2, RateSame DEF OutInv
<1> QED BY <1>1, <1>2, <1>3, <1>4, <1>5, <1>6, <1>7, <1>8, Zenon DEF Out!Next

\* They hold throughout.
LEMMA OutInvariance == Out!Spec => []OutInv
BY OutStarts, OutStep, PTL DEF Out!Spec

\* Both token buckets of the sender hold exactly what the sends let through leave of them, for any
\* rates, any peers and any sequence of sends, ticks and evictions of idle buckets: no window of
\* time sees more than its allowance, and a refused send costs nothing.
THEOREM RateExactHolds == Out!Spec => []Out!RateExact
<1>1. OutInv => Out!RateExact
  BY RateSafe DEF OutInv
<1> QED BY <1>1, OutInvariance, PTL

\* Every message that goes out has the structure that isValidInbound() of a receiver insists on
\* and, when signing is on, verifies under the sender's key.
THEOREM SentIsAcceptedHolds == Out!Spec => []Out!SentIsAccepted
<1>1. OutInv => Out!SentIsAccepted
  BY DEF OutInv, SentInv, Accepted, Out!SentIsAccepted
<1> QED BY <1>1, OutInvariance, PTL

\* Once its commands are executed the registry holds exactly the skills announced as global last,
\* whatever order the signatures of concurrent announcements came back in.
THEOREM RegistryFollowsHolds == Out!Spec => []Out!RegistryFollows
<1>1. OutInv => Out!RegistryFollows
  BY RegSafe DEF OutInv
<1> QED BY <1>1, OutInvariance, PTL
==============================================================================
