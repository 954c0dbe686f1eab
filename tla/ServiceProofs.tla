---------------------------- MODULE ServiceProofs ----------------------------
(***************************************************************************)
(* Four components that need no other: the wedge detector with the beats   *)
(* it judges by, the routing governor of the builds, the guard on what a   *)
(* build publishes and the session pool of the Claude gateway.  Each has   *)
(* an inductive invariant and theorems of its own.                         *)
(***************************************************************************)
EXTENDS MCAgents, FiniteSets, Sequences, FiniteSetTheorems, TLAPS

-----------------------------------------------------------------------------
(* WedgeDetector: VerdictIsFounded and NoMaskedWedge for every number of incarnations, beats and *)
(* events and every threshold.  While no Redis call failed, memory and Redis agree, the state is *)
(* of the incarnation whose presence record it was paired with, and its clocks are those of the  *)
(* newest beat received; in any case later beats of an incarnation have later clocks.            *)

\* The element of a sequence of at most one.
One(x) == IF x = <<>> THEN {} ELSE {x[1]}

\* Every beat that can still be ingested, or that the detector compares with the next.
Beats == net \cup One(mem.beat) \cup One(store.beat) \cup {i.b : i \in One(ing)}

\* Sequence numbers begin at 1, and a turn once reported has counted.
SeqInv ==
    /\ file.seq >= 1 /\ (file.start # None => file.mark >= 1)
    /\ hook # <<>> => /\ hook[1] <= boot /\ hook[2].seq >= 1
                      /\ hook[2].start # None => hook[2].mark >= 1
    /\ \A x \in Beats : x.boot <= boot /\ x.st.seq >= 1 /\ x.st.mark >= 1

\* Of an incarnation no hook of which was overtaken, later beats have later clocks, and the file
\* has the latest.
ChainInv ==
    /\ \A x, y \in Beats :
          x.boot = y.boot /\ x.boot \notin overtaken /\ x.st.seq < y.st.seq =>
              x.st.mark <= y.st.mark
    /\ \A x \in Beats :
          x.boot = boot /\ boot \notin overtaken => x.st.seq <= file.seq /\ x.st.mark <= file.mark

\* Receive times, the high-water keys of incarnations to come, and when the evaluator began.
ClockInv ==
    /\ now >= 1 /\ heard.up <= now
    /\ heard.at = None <=> heard.seq = 0
    /\ \A b \in 1 .. MaxBoot : b > boot => hw[b] = 0
    /\ ev # <<>> => /\ ev[1].at >= 1 /\ ev[1].p <= boot
                    /\ ev[1].p = boot => ev[1].at >= heard.up
    /\ ing # <<>> => ing[1].at >= 1

\* What the detector's state says of the incarnation whose presence record it was paired with.
StateInv(s) ==
    /\ s.beat = <<>> => s.boot = None /\ s.recv = None /\ s.stale = 0
    /\ s.beat # <<>> => /\ s.boot = s.pstart /\ s.beat[1].boot = s.boot /\ s.recv # None
                        /\ s.boot \notin overtaken => s.stale <= s.beat[1].st.mark
    /\ s.first # None => s.pstart # None
    /\ s.pstart <= boot
    /\ s.pstart = boot /\ s.recv # None => heard.at = s.recv /\ heard.seq = s.beat[1].st.seq
    /\ s.pstart = boot /\ s.recv = None /\ s.first # None => s.first >= heard.up

Applying == ing # <<>> /\ ing[1].step = "apply"

\* Memory and Redis agree, and once a beat of the incarnation was heard both know it.
SyncInv ==
    /\ Known(mem) => store = [mem EXCEPT !.class = "none"]
    /\ Known(store) => store.class = "none"
    /\ ~Known(mem) /\ (ev # <<>> \/ Applying) => ~Known(store)
    /\ heard.at # None => store.pstart = boot /\ store.recv # None

\* A beat between the high-water script and its application is newer than all that was heard.
IngestInv ==
    /\ ing # <<>> => ing[1].p = ing[1].b.boot /\ (ing[1].b.boot # boot => heard.at = None)
    /\ Applying =>
          /\ ing[1].own => ~ing[1].same
          /\ ~ing[1].own => Known(mem)
          /\ ing[1].same /\ mem.beat # <<>> =>
                mem.beat[1].boot = ing[1].b.boot /\ mem.beat[1].st.seq < ing[1].b.st.seq
    /\ IF Applying /\ ing[1].b.boot = boot
       THEN hw[boot] = ing[1].b.st.seq /\ heard.seq < ing[1].b.st.seq
       ELSE hw[boot] = heard.seq

IInv ==
    /\ TypeOK /\ SeqInv /\ ChainInv /\ ClockInv
    /\ ~doubt => StateInv(mem) /\ StateInv(store) /\ SyncInv /\ IngestInv

-----------------------------------------------------------------------------
(* Types and initial states *)

LEMMA OneElim ==
    ASSUME NEW S, NEW x \in OneOf(S) PROVE x # <<>> => x[1] \in S
BY DEF OneOf

LEMMA OneIntro ==
    ASSUME NEW S PROVE <<>> \in OneOf(S) /\ \A a \in S : <<a>> \in OneOf(S)
BY DEF OneOf

LEMMA OneType == ASSUME TypeOK
  PROVE /\ ing # <<>> => ing[1] \in [b: AgentBeat, at: Nat, p: Nat, same: BOOLEAN, changed: BOOLEAN,
                      step: {"read", "apply"}, own: BOOLEAN]
        /\ ev # <<>> => ev[1] \in [at: Nat, p: Nat]
        /\ mem.beat # <<>> => mem.beat[1] \in AgentBeat
        /\ store.beat # <<>> => store.beat[1] \in AgentBeat
<1> DEFINE I == [b: AgentBeat, at: Nat, p: Nat, same: BOOLEAN, changed: BOOLEAN,
                      step: {"read", "apply"}, own: BOOLEAN]
           E == [at: Nat, p: Nat]
<1>1. ing \in OneOf(I) /\ ev \in OneOf(E) /\ mem.beat \in OneOf(AgentBeat)
      /\ store.beat \in OneOf(AgentBeat)
  BY DEF TypeOK, AgentState
<1> HIDE DEF I, E
<1> QED BY <1>1, OneElim DEF I, E

LEMMA InitInv == WedgeAssumption /\ Init => IInv
<1> SUFFICES ASSUME WedgeAssumption, Init PROVE IInv
  OBVIOUS
<1>1. 1 \in 1 .. MaxBoot
  BY DEF WedgeAssumption
<1>2. TypeOK
  <2>1. \A S : <<>> \in OneOf(S)
    BY OneIntro
  <2>2. Unknown \in AgentState /\ Absent \in AgentState
    BY <2>1 DEF Unknown, Absent, AgentState, None, Classes
  <2>3. hw \in [1 .. MaxBoot -> Nat]
    BY DEF Init
  <2> QED BY <1>1, <2>1, <2>2, <2>3 DEF TypeOK, Init, Fresh, ClockState, None
<1>3. Beats = {}
  BY DEF Beats, One, Init, Absent, Unknown
<1>4. SeqInv /\ ChainInv
  BY <1>3 DEF SeqInv, ChainInv, Init, Fresh, None
<1>5. ClockInv
  BY DEF ClockInv, Init, None
<1>6. StateInv(mem) /\ StateInv(store)
  BY DEF StateInv, Init, Absent, Unknown, None
<1>7. SyncInv /\ IngestInv
  BY <1>1 DEF SyncInv, IngestInv, Init, Known, None, Applying
<1> QED BY <1>2, <1>4, <1>5, <1>6, <1>7 DEF IInv

-----------------------------------------------------------------------------
(* The agent and its hooks *)

\* The detector makes no beats: the invariants about beats are the hooks' to disturb.
LEMMA BeatsShrink ==
    ASSUME SeqInv, ChainInv, UNCHANGED <<file, hook, boot, overtaken>>, Beats' \subseteq Beats
    PROVE  SeqInv' /\ ChainInv'
BY DEF SeqInv, ChainInv

LEMMA BeatType == ASSUME TypeOK PROVE Beats \subseteq AgentBeat
<1>1. net \subseteq AgentBeat
  BY DEF TypeOK
<1> QED BY <1>1, OneType DEF Beats, One

LEMMA NextStateType ==
    ASSUME NEW prev \in ClockState, NEW ph, NEW progress, now \in Nat, now >= 1,
           prev.start # None => prev.mark >= 1
    PROVE  LET s == NextState(prev, ph, progress)
           IN  /\ s \in ClockState /\ s.seq >= prev.seq /\ s.mark >= prev.mark /\ s.mark >= 1
               /\ s.start # None
BY DEF NextState, ClockState, None

LEMMA EmitWriteInv ==
    ASSUME IInv, NEW read \in (1 .. MaxBoot) \X ClockState,
           read = <<boot, file>> \/ (hook # <<>> /\ read = hook),
           NEW ph, NEW progress, NEW busy \in BOOLEAN, EmitWrite(read, ph, progress, busy),
           hook' \in {hook, <<>>}
    PROVE  IInv'
<1> DEFINE b == read[1]
           s == NextState(read[2], ph, progress)
           x == Beat(b, s, ph, busy)
<1>1. b \in 1 .. MaxBoot /\ read[2] \in ClockState /\ b <= boot /\ read[2].seq >= 1
      /\ (read[2].start # None => read[2].mark >= 1)
  BY DEF IInv, SeqInv, TypeOK
<1>2. /\ s \in ClockState /\ s.seq >= read[2].seq /\ s.mark >= read[2].mark /\ s.mark >= 1
      /\ s.seq >= 1
  <2>1. now \in Nat /\ now >= 1
    BY DEF IInv, TypeOK, ClockInv
  <2>2. s \in ClockState /\ s.seq >= read[2].seq /\ s.mark >= read[2].mark /\ s.mark >= 1
    BY <1>1, <2>1, NextStateType
  <2> HIDE DEF s
  <2> QED BY <1>1, <2>2 DEF ClockState
<1> HIDE DEF b, s
<1>3. /\ UNCHANGED <<now, boot, pres, mem, store, hw, ing, ev, heard, doubt>>
      /\ events' \in Nat
      /\ \/ /\ file' = IF b = boot THEN s ELSE file
            /\ net' = net \cup {x}
            /\ overtaken' = IF read = <<boot, file>> THEN overtaken ELSE overtaken \cup {b}
         \/ UNCHANGED <<file, overtaken, net>>
  BY DEF EmitWrite, detector, Publish, Event, b, s, IInv, TypeOK
<1>4. x \in AgentBeat /\ x.boot = b /\ x.st = s
  <2>1. ph \in {"turn-start", "still-working", "progress"} \/ (ph = "keepalive" /\ busy) \in BOOLEAN
    OBVIOUS
  <2>2. (ph = "turn-end" /\ busy) \in BOOLEAN
    OBVIOUS
  <2> QED BY <1>1, <1>2, <2>1, <2>2 DEF Beat, AgentBeat
<1> HIDE DEF x
<1>5. CASE UNCHANGED <<file, overtaken, net>>
  <2>1. Beats' = Beats
    BY <1>3, <1>5 DEF Beats
  <2>2. SeqInv' /\ ChainInv'
    BY <1>3, <1>5, <2>1 DEF SeqInv, ChainInv, IInv
  <2>3. TypeOK'
    BY <1>3, <1>5 DEF IInv, TypeOK
  <2>4. ClockInv'
    BY <1>3, <1>5 DEF IInv, ClockInv
  <2> QED BY <1>3, <1>5, <2>2, <2>3, <2>4
          DEF IInv, StateInv, SyncInv, IngestInv, Known, Applying
<1>6. ASSUME /\ file' = IF b = boot THEN s ELSE file
             /\ net' = net \cup {x}
             /\ overtaken' = IF read = <<boot, file>> THEN overtaken ELSE overtaken \cup {b}
      PROVE  IInv'
  <2>1. Beats' = Beats \cup {x}
    BY <1>3, <1>6 DEF Beats
  <2>2. TypeOK'
    BY <1>1, <1>2, <1>3, <1>4, <1>6 DEF IInv, TypeOK
  <2>3. SeqInv'
    BY <1>1, <1>2, <1>3, <1>4, <1>6, <2>1 DEF IInv, SeqInv
  <2>4. ASSUME boot \notin overtaken'
        PROVE  /\ \/ s.seq >= file.seq /\ s.mark >= file.mark /\ b = boot /\ file' = s
                  \/ b # boot /\ file' = file
               /\ boot \notin overtaken
    BY <1>1, <1>2, <1>6, <2>4 DEF b
  <2>5. ASSUME NEW u \in Beats', NEW v \in Beats',
               u.boot = v.boot, u.boot \notin overtaken', u.st.seq < v.st.seq
        PROVE  u.st.mark <= v.st.mark
    <3>1. Beats \subseteq AgentBeat /\ file \in ClockState
      BY BeatType DEF IInv, TypeOK
    <3>2. CASE u \in Beats /\ v \in Beats
      BY <1>6, <2>5, <3>2 DEF IInv, ChainInv
    <3>3. CASE u = x /\ v = x
      BY <1>2, <1>4, <3>3 DEF ClockState
    <3>4. ASSUME u.boot = b
          PROVE  b = boot /\ read = <<boot, file>> /\ s.seq >= file.seq /\ s.mark >= file.mark
                 /\ b \notin overtaken
      <4>1. read = <<boot, file>>
        BY <1>6, <2>5, <3>4
      <4> QED BY <4>1, <1>2, <1>6, <2>5, <3>4 DEF b
    <3>5. CASE u = x /\ v \in Beats
      <4>1. v.st.seq <= file.seq
        BY <1>4, <2>5, <3>4, <3>5 DEF IInv, ChainInv
      <4>2. s.seq >= file.seq /\ v.st.seq \in Nat /\ s.seq \in Nat /\ file.seq \in Nat /\ u.st = s
        BY <1>2, <1>4, <3>1, <3>4, <3>5 DEF AgentBeat, ClockState
      <4> QED BY <4>1, <4>2, <2>5
    <3>6. CASE v = x /\ u \in Beats
      <4>1. u.st.mark <= file.mark
        BY <1>4, <2>5, <3>4, <3>6 DEF IInv, ChainInv
      <4>2. s.mark >= file.mark /\ u.st.mark \in Nat /\ s.mark \in Nat /\ file.mark \in Nat
            /\ v.st = s
        BY <1>2, <1>4, <2>5, <3>1, <3>4, <3>6 DEF AgentBeat, ClockState
      <4> QED BY <4>1, <4>2
    <3> QED BY <2>1, <3>2, <3>3, <3>5, <3>6
  <2>6. ASSUME NEW u \in Beats', u.boot = boot, boot \notin overtaken'
        PROVE  u.st.seq <= file'.seq /\ u.st.mark <= file'.mark
    <3>1. Beats \subseteq AgentBeat /\ file \in ClockState
      BY BeatType DEF IInv, TypeOK
    <3>2. CASE u = x
      <4>1. u.st = s /\ file' = s
        BY <1>4, <1>6, <2>6, <3>2
      <4>2. s.seq \in Nat /\ s.mark \in Nat
        BY <1>2 DEF ClockState
      <4> QED BY <4>1, <4>2
    <3>3. CASE u \in Beats
      <4>1. u.st.seq <= file.seq /\ u.st.mark <= file.mark
        BY <2>4, <2>6, <3>3 DEF IInv, ChainInv
      <4>2. /\ u.st.seq \in Nat /\ s.seq \in Nat /\ file.seq \in Nat
            /\ u.st.mark \in Nat /\ s.mark \in Nat /\ file.mark \in Nat
        BY <1>2, <3>1, <3>3 DEF AgentBeat, ClockState
      <4>3. \/ file' = s /\ s.seq >= file.seq /\ s.mark >= file.mark
            \/ file' = file
        BY <2>4, <2>6
      <4>4. CASE file' = s /\ s.seq >= file.seq /\ s.mark >= file.mark
        <5>1. u.st.seq <= s.seq /\ u.st.mark <= s.mark
          BY <4>1, <4>2, <4>4
        <5> QED BY <4>4, <5>1
      <4>5. CASE file' = file
        BY <4>1, <4>5
      <4> QED BY <4>3, <4>4, <4>5
    <3> QED BY <2>1, <3>2, <3>3
  <2>7. ChainInv'
    BY <1>3, <2>5, <2>6 DEF ChainInv
  <2>8. ClockInv'
    BY <1>3 DEF IInv, ClockInv
  <2>9. overtaken \subseteq overtaken'
    BY <1>6
  <2>10. ASSUME ~doubt PROVE StateInv(mem)' /\ StateInv(store)'
    BY <1>3, <2>9, <2>10 DEF IInv, StateInv
  <2>11. ASSUME ~doubt PROVE SyncInv' /\ IngestInv'
    BY <1>3, <2>11 DEF IInv, SyncInv, IngestInv, Known, Applying
  <2> QED BY <1>3, <2>2, <2>3, <2>7, <2>8, <2>10, <2>11 DEF IInv
<1> QED BY <1>3, <1>5, <1>6

LEMMA EmitInv ==
    ASSUME IInv, NEW ph, NEW progress, NEW busy \in BOOLEAN,
           Emit(ph, progress, busy)
    PROVE  IInv'
<1>1. <<boot, file>> \in (1 .. MaxBoot) \X ClockState
  BY DEF IInv, TypeOK
<1>2. CASE EmitWrite(<<boot, file>>, ph, progress, busy) /\ UNCHANGED hook
  BY <1>1, <1>2, EmitWriteInv
<1>3. CASE hook # <<>> /\ EmitWrite(hook, ph, progress, busy) /\ hook' = <<>>
  <2>1. hook \in (1 .. MaxBoot) \X ClockState
    BY <1>3 DEF IInv, TypeOK
  <2> QED BY <1>3, <2>1, EmitWriteInv
<1> QED BY <1>2, <1>3 DEF Emit

LEMMA EmitReadInv == ASSUME IInv, EmitRead PROVE IInv'
<1>1. /\ hook' = <<boot, file>> /\ events' \in Nat
      /\ UNCHANGED <<now, boot, pres, file, overtaken, net, mem, store, hw, ing, ev, heard, doubt>>
  BY DEF EmitRead, Event, detector, IInv, TypeOK
<1>2. Beats' = Beats
  BY <1>1 DEF Beats
<1>3. TypeOK' /\ ClockInv'
  BY <1>1 DEF IInv, TypeOK, ClockInv
<1>4. hook'[1] = boot /\ hook'[2] = file /\ boot \in Nat
  BY <1>1 DEF IInv, TypeOK
<1>5. SeqInv'
  BY <1>1, <1>2, <1>4 DEF IInv, SeqInv
<1>6. ChainInv'
  BY <1>1, <1>2 DEF IInv, ChainInv
<1> QED BY <1>1, <1>3, <1>5, <1>6 DEF IInv, StateInv, SyncInv, IngestInv, Known, Applying

LEMMA PresenceGoneInv == ASSUME IInv, PresenceGone PROVE IInv'
<1>1. /\ pres' = None
      /\ UNCHANGED <<now, boot, file, hook, overtaken, net, mem, store, hw, ing, ev, heard, doubt,
                     events>>
  BY DEF PresenceGone, detector
<1>2. Beats' = Beats
  BY <1>1 DEF Beats
<1>3. TypeOK' /\ ClockInv' /\ SeqInv' /\ ChainInv'
  BY <1>1, <1>2 DEF IInv, TypeOK, ClockInv, SeqInv, ChainInv
<1> QED BY <1>1, <1>3 DEF IInv, StateInv, SyncInv, IngestInv, Known, Applying

LEMMA TickInv == ASSUME IInv, Tick PROVE IInv'
<1>1. /\ now' = now + 1
      /\ UNCHANGED <<boot, pres, file, hook, overtaken, net, mem, store, hw, ing, ev, heard, doubt,
                     events>>
  BY DEF Tick, agent, detector
<1>2. Beats' = Beats
  BY <1>1 DEF Beats
<1>3. TypeOK' /\ SeqInv' /\ ChainInv'
  BY <1>1, <1>2 DEF IInv, TypeOK, SeqInv, ChainInv
<1>4. ClockInv'
  BY <1>1 DEF IInv, TypeOK, ClockInv
<1> QED BY <1>1, <1>3, <1>4 DEF IInv, StateInv, SyncInv, IngestInv, Known, Applying

LEMMA StutterInv == ASSUME IInv, UNCHANGED vars PROVE IInv'
<1>1. UNCHANGED <<now, boot, pres, file, hook, overtaken, net, mem, store, hw, ing, ev, heard,
                  doubt, events>>
  BY DEF vars
<1>2. Beats' = Beats
  BY <1>1 DEF Beats
<1>3. TypeOK' /\ SeqInv' /\ ChainInv' /\ ClockInv'
  BY <1>1, <1>2 DEF IInv, TypeOK, SeqInv, ChainInv, ClockInv
<1> QED BY <1>1, <1>3 DEF IInv, StateInv, SyncInv, IngestInv, Known, Applying

\* Nothing is known of an incarnation that has just begun.
LEMMA RelaunchInv == ASSUME WedgeAssumption, IInv, Relaunch PROVE IInv'
<1>1. /\ boot < MaxBoot /\ boot' = boot + 1 /\ pres' = boot + 1 /\ file' = Fresh
      /\ heard' = [at |-> None, seq |-> 0, up |-> now] /\ events' \in Nat
      /\ UNCHANGED <<now, hook, overtaken, net, mem, store, hw, ing, ev, doubt>>
  BY DEF Relaunch, Event, IInv, TypeOK
<1>2. Beats' = Beats
  BY <1>1 DEF Beats
<1>3. boot \in Nat /\ boot' \in 1 .. MaxBoot /\ now \in Nat /\ MaxBoot \in Nat
  BY SMTT(40), <1>1 DEF IInv, TypeOK, WedgeAssumption
<1>4. TypeOK'
  BY <1>1, <1>3 DEF IInv, TypeOK, Fresh, ClockState, None
<1>5. Beats \subseteq AgentBeat
  BY BeatType DEF IInv
<1>6. \A x \in Beats : x.boot \in Nat /\ x.boot <= boot
  BY <1>5 DEF IInv, SeqInv, AgentBeat
<1>7. hook # <<>> => hook[1] \in Nat
  BY SMTT(40) DEF IInv, TypeOK
<1>8. SeqInv'
  BY SMTT(40), <1>1, <1>2, <1>3, <1>6, <1>7 DEF IInv, SeqInv, Fresh, None
<1>9. ChainInv'
  BY <1>1, <1>2, <1>3, <1>6 DEF IInv, ChainInv
<1>10. ev # <<>> => ev[1].p \in Nat
  BY OneType DEF IInv
<1>11. ClockInv'
  BY SMTT(40), <1>1, <1>3, <1>10 DEF IInv, ClockInv, None
<1>12. ASSUME ~doubt PROVE StateInv(mem)' /\ StateInv(store)'
  <2>1. mem.pstart \in Nat /\ store.pstart \in Nat
    BY DEF IInv, TypeOK, AgentState
  <2> QED BY SMTT(40), <1>1, <1>3, <1>12, <2>1 DEF IInv, StateInv
<1>13. ASSUME ~doubt PROVE SyncInv'
  BY <1>1, <1>13 DEF IInv, SyncInv, Known, Applying
<1>14. ASSUME ~doubt PROVE IngestInv'
  <2>1. ing # <<>> => ing[1].b \in Beats
    BY DEF Beats, One
  <2>2. ing # <<>> => ing[1].b.boot # boot'
    BY <1>1, <1>3, <1>6, <2>1
  <2>3. hw[boot'] = 0
    BY <1>1, <1>3 DEF IInv, ClockInv
  <2> QED BY <1>1, <1>14, <2>2, <2>3 DEF IInv, IngestInv, Known, Applying
<1> QED BY <1>1, <1>4, <1>8, <1>9, <1>11, <1>12, <1>13, <1>14 DEF IInv

LEMMA IngestReadInv == ASSUME IInv, NEW b \in net, IngestRead(b) PROVE IInv'
<1>1. PICK p \in {pres, None} :
         /\ ing' = <<[b |-> b, at |-> now, p |-> p, same |-> FALSE, changed |-> FALSE,
                      step |-> "read", own |-> FALSE]>>
         /\ doubt' = (doubt \/ p # b.boot)
  BY DEF IngestRead
<1>2. /\ ing = <<>> /\ net' \subseteq net /\ events' \in Nat
      /\ UNCHANGED <<now, boot, pres, file, hook, overtaken, mem, store, hw, ev, heard>>
  BY DEF IngestRead, agent, Event, IInv, TypeOK
<1>3. b \in AgentBeat /\ b \in Beats /\ b.boot # None /\ p \in Nat
  BY DEF IInv, TypeOK, AgentBeat, Beats, None
<1> DEFINE r == [b |-> b, at |-> now, p |-> p, same |-> FALSE, changed |-> FALSE,
                 step |-> "read", own |-> FALSE]
<1>4. ing' = <<r>> /\ ing' # <<>> /\ ing'[1] = r
  BY <1>1
<1>5. Beats' \subseteq Beats
  BY <1>2, <1>3, <1>4 DEF Beats, One
<1>6. SeqInv' /\ ChainInv'
  BY <1>2, <1>5, BeatsShrink DEF IInv
<1>7. TypeOK'
  <2>1. now \in Nat
    BY DEF IInv, TypeOK
  <2>2. ing' \in OneOf([b: AgentBeat, at: Nat, p: Nat, same: BOOLEAN, changed: BOOLEAN,
                        step: {"read", "apply"}, own: BOOLEAN])
    BY <1>3, <1>4, <2>1, OneIntro
  <2>3. doubt' \in BOOLEAN
    BY <1>1
  <2> HIDE DEF r
  <2> QED BY <1>2, <2>2, <2>3 DEF IInv, TypeOK
<1>8. ClockInv'
  BY <1>2, <1>4 DEF IInv, ClockInv
<1>9. ASSUME ~doubt' PROVE StateInv(mem)' /\ StateInv(store)' /\ SyncInv' /\ IngestInv'
  <2>1. ~doubt /\ p = b.boot
    BY <1>1, <1>9
  <2>2. b.boot = boot
    BY <1>3, <2>1 DEF IInv, TypeOK
  <2>3. ing'[1].step = "read" /\ ing'[1].b = b /\ ing'[1].p = p
    BY <1>4
  <2> HIDE DEF r
  <2>4. StateInv(mem)' /\ StateInv(store)'
    BY <1>2, <2>1 DEF IInv, StateInv
  <2>5. SyncInv'
    BY <1>2, <2>1, <2>3 DEF IInv, SyncInv, Applying, Known
  <2>6. IngestInv'
    BY <1>2, <2>1, <2>2, <2>3 DEF IInv, IngestInv, Applying, Known
  <2> QED BY <2>4, <2>5, <2>6
<1> QED BY <1>6, <1>7, <1>8, <1>9 DEF IInv

LEMMA RestartInv == ASSUME IInv, DetectorRestart PROVE IInv'
<1>1. /\ mem' = Absent /\ ing' = <<>> /\ ev' = <<>> /\ events' \in Nat
      /\ doubt' = (doubt \/ ing # <<>>)
      /\ UNCHANGED <<now, boot, pres, file, hook, overtaken, net, store, hw, heard>>
  BY DEF DetectorRestart, agent, Event, IInv, TypeOK
<1>2. Absent.beat = <<>> /\ Absent \in AgentState
  <2>1. <<>> \in OneOf(AgentBeat)
    BY OneIntro
  <2> QED BY <2>1 DEF Absent, Unknown, AgentState, None
<1>3. Beats' \subseteq Beats
  BY <1>1, <1>2 DEF Beats, One
<1>4. SeqInv' /\ ChainInv'
  BY <1>1, <1>3, BeatsShrink DEF IInv
<1>5. TypeOK'
  <2>1. \A S : <<>> \in OneOf(S)
    BY OneIntro
  <2>2. doubt' \in BOOLEAN
    BY <1>1
  <2> QED BY <1>1, <1>2, <2>1, <2>2 DEF IInv, TypeOK
<1>6. ClockInv'
  BY <1>1 DEF IInv, ClockInv
<1>7. ASSUME ~doubt' PROVE StateInv(mem)' /\ StateInv(store)' /\ SyncInv' /\ IngestInv'
  <2>1. ~doubt /\ ing = <<>>
    BY <1>1, <1>7
  <2>2. StateInv(mem)'
    BY <1>1 DEF StateInv, Absent, Unknown, None, IInv, TypeOK
  <2>3. StateInv(store)'
    BY <1>1, <2>1 DEF IInv, StateInv
  <2>4. SyncInv'
    BY <1>1, <2>1 DEF IInv, SyncInv, Applying, Known
  <2>5. IngestInv'
    BY <1>1, <2>1 DEF IInv, IngestInv, Applying, Known
  <2> QED BY <2>2, <2>3, <2>4, <2>5
<1> QED BY <1>4, <1>5, <1>6, <1>7 DEF IInv

-----------------------------------------------------------------------------
(* evaluateOnce() *)

\* loadState() answers with the state in memory or, while there is none, with the stored one.
LEMMA LoadType == ASSUME IInv
  PROVE /\ Load \in AgentState
        /\ One(Load.beat) \subseteq One(mem.beat) \cup One(store.beat)
        /\ ~doubt => /\ StateInv(Load)
                     /\ Known(mem) => Load = mem
                     /\ Known(Load) => store = [Load EXCEPT !.class = "none"]
                     /\ ~Known(Load) => ~Known(store) /\ ~Known(mem)
<1>1. Load = mem \/ Load = store
  BY DEF Load
<1>2. Load \in AgentState
  BY <1>1 DEF IInv, TypeOK
<1>3. One(Load.beat) \subseteq One(mem.beat) \cup One(store.beat)
  BY <1>1
<1>4. ASSUME ~doubt PROVE StateInv(Load)
  BY <1>1, <1>4 DEF IInv
<1>5. Known(mem) => Load = mem
  BY DEF Load
<1>6. ~Known(mem) => Load = store
  BY DEF Load
<1>7. ASSUME ~doubt, Known(Load) PROVE store = [Load EXCEPT !.class = "none"]
  <2>1. CASE Known(mem)
    BY <1>5, <1>7, <2>1 DEF IInv, SyncInv
  <2>2. CASE ~Known(mem)
    <3>1. Load = store /\ Known(store) /\ store.class = "none" /\ store \in AgentState
      BY <1>6, <1>7, <2>2 DEF IInv, SyncInv, TypeOK
    <3>2. store = [store EXCEPT !.class = "none"]
      BY <3>1 DEF AgentState
    <3> QED BY <3>1, <3>2
  <2> QED BY <2>1, <2>2
<1>8. ~Known(Load) => ~Known(store) /\ ~Known(mem)
  BY <1>5, <1>6
<1> QED BY <1>2, <1>3, <1>4, <1>5, <1>7, <1>8

LEMMA EvalReadInv == ASSUME IInv, EvalRead PROVE IInv'
<1>1. /\ ev' = <<[at |-> now, p |-> pres]>> /\ mem' = Load
      /\ UNCHANGED <<now, boot, pres, file, hook, overtaken, net, store, hw, ing, heard, doubt,
                     events>>
  BY DEF EvalRead, agent
<1>2. Beats' \subseteq Beats
  BY <1>1, LoadType DEF Beats
<1>3. SeqInv' /\ ChainInv'
  BY <1>1, <1>2, BeatsShrink DEF IInv
<1>4. now \in Nat /\ pres \in Nat /\ pres <= boot /\ now >= heard.up /\ now >= 1
  BY DEF IInv, TypeOK, ClockInv, None
<1>5. ev' # <<>> /\ ev'[1].at = now /\ ev'[1].p = pres /\ ev' \in OneOf([at: Nat, p: Nat])
  <2>1. [at |-> now, p |-> pres] \in [at: Nat, p: Nat]
    BY <1>4
  <2> QED BY <1>1, <2>1, OneIntro
<1>6. TypeOK'
  BY <1>1, <1>5, LoadType DEF IInv, TypeOK
<1>7. ClockInv'
  BY <1>1, <1>4, <1>5 DEF IInv, ClockInv
<1>8. ASSUME ~doubt PROVE StateInv(mem)' /\ StateInv(store)' /\ SyncInv' /\ IngestInv'
  <2>1. StateInv(mem)' /\ StateInv(store)'
    <3>1. StateInv(Load) /\ StateInv(store)
      BY <1>8, LoadType DEF IInv
    <3> QED BY <1>1, <3>1 DEF StateInv
  <2>2. SyncInv'
    <3>1. /\ Known(Load) => store = [Load EXCEPT !.class = "none"]
          /\ ~Known(Load) => ~Known(store)
      BY <1>8, LoadType
    <3> QED BY <1>1, <1>8, <3>1 DEF IInv, SyncInv, Known
  <2>3. Known(mem) => mem' = mem
    BY <1>1, <1>8, LoadType
  <2>4. Applying /\ ~ing[1].own => mem' = mem
    BY <1>8, <2>3 DEF IInv, IngestInv
  <2>5. IngestInv'
    <3>1. ing # <<>> => ing[1].own \in BOOLEAN /\ ing[1].same \in BOOLEAN
      BY OneType DEF IInv
    <3> QED BY <1>1, <1>8, <2>3, <2>4, <3>1 DEF IInv, IngestInv, Applying, Known
  <2> QED BY <2>1, <2>2, <2>5
<1> QED BY <1>1, <1>3, <1>6, <1>7, <1>8 DEF IInv

\* The three things Reset does.
LEMMA ResetCases ==
    ASSUME NEW s \in AgentState, NEW p \in Nat, NEW at \in Nat, NEW r, r = Reset(s, p, at)
    PROVE  /\ r \in AgentState
           /\ \/ /\ p # None /\ s.pstart # None /\ p # s.pstart
                 /\ r.beat = <<>> /\ r.boot = None /\ r.recv = None /\ r.stale = 0
                 /\ r.first = at /\ r.pstart = p
              \/ /\ p # None /\ s.first = None /\ (s.pstart = None \/ s.pstart = p)
                 /\ r.beat = s.beat /\ r.boot = s.boot /\ r.recv = s.recv /\ r.stale = s.stale
                 /\ r.first = at /\ r.pstart = p
              \/ /\ p = None \/ s.first # None
                 /\ p = None \/ s.pstart = None \/ p = s.pstart
                 /\ r = s
<1>1. <<>> \in OneOf(AgentBeat)
  BY OneIntro
<1>2. CASE p # None /\ s.pstart # None /\ p # s.pstart
  <2>1. r = [s EXCEPT !.boot = None, !.recv = None, !.beat = <<>>, !.stale = 0, !.first = at,
                   !.pstart = p]
    BY <1>2 DEF Reset
  <2>2. r.beat = <<>> /\ r.boot = None /\ r.recv = None
    BY <2>1 DEF AgentState
  <2>3. r.stale = 0 /\ r.first = at /\ r.pstart = p
    BY <2>1 DEF AgentState
  <2>4. r \in AgentState
    <3>1. r = [boot |-> 0, pstart |-> p, first |-> at, recv |-> 0, beat |-> <<>>, stale |-> 0,
               class |-> s.class]
      BY <2>1 DEF AgentState, None
    <3>2. s.class \in Classes \cup {"absent"}
      BY DEF AgentState
    <3> QED BY <1>1, <3>1, <3>2 DEF AgentState
  <2> QED BY <1>2, <2>2, <2>3, <2>4
<1>3. CASE ~(p # None /\ s.pstart # None /\ p # s.pstart) /\ p # None /\ s.first = None
  <2>1. r = [s EXCEPT !.first = at, !.pstart = p]
    BY <1>3 DEF Reset
  <2>2. r.beat = s.beat /\ r.boot = s.boot /\ r.recv = s.recv /\ r.stale = s.stale
    BY <2>1 DEF AgentState
  <2>3. r.first = at /\ r.pstart = p
    BY <2>1 DEF AgentState
  <2>4. r \in AgentState
    BY <2>1 DEF AgentState
  <2> QED BY <1>3, <2>2, <2>3, <2>4
<1>4. CASE ~(p # None /\ s.pstart # None /\ p # s.pstart) /\ ~(p # None /\ s.first = None)
  <2>1. r = s
    BY <1>4 DEF Reset
  <2> QED BY <1>4, <2>1
<1> QED BY <1>2, <1>3, <1>4

\* When the evaluator began.
EvalAt(e) == e.at \in Nat /\ e.at >= 1 /\ e.p \in {None, boot} /\ (e.p = boot => e.at >= heard.up)

LEMMA ResetInv ==
    ASSUME IInv, NEW s \in AgentState, NEW e, EvalAt(e), StateInv(s), NEW r,
           r = Reset(s, e.p, e.at)
    PROVE  StateInv(r)
<1>1. /\ e.p \in Nat /\ e.at \in Nat /\ e.at # None /\ boot # None /\ boot \in Nat
      /\ e.p # None => e.p = boot /\ e.at >= heard.up
  BY DEF EvalAt, IInv, TypeOK, None
<1>2. CASE /\ r.beat = <<>> /\ r.boot = None /\ r.recv = None /\ r.stale = 0
           /\ r.first = e.at /\ r.pstart = e.p /\ e.p # None
  BY <1>1, <1>2 DEF StateInv
<1>3. CASE /\ e.p # None /\ s.first = None /\ (s.pstart = None \/ s.pstart = e.p)
           /\ r.beat = s.beat /\ r.boot = s.boot /\ r.recv = s.recv /\ r.stale = s.stale
           /\ r.first = e.at /\ r.pstart = e.p
  <2>1. CASE s.beat = <<>>
    BY <1>1, <1>3, <2>1 DEF StateInv
  <2>2. CASE s.beat # <<>>
    <3>1. s.beat[1].boot # None
      <4>1. s.beat[1] \in AgentBeat
        BY <2>2, OneElim DEF AgentState
      <4> QED BY <4>1 DEF AgentBeat, None
    <3>2. s.pstart = e.p
      BY <1>3, <2>2, <3>1 DEF StateInv
    <3> QED BY <1>1, <1>3, <2>2, <3>2 DEF StateInv
  <2> QED BY <2>1, <2>2
<1>4. CASE r = s
  BY <1>4
<1>5. \/ /\ r.beat = <<>> /\ r.boot = None /\ r.recv = None /\ r.stale = 0
         /\ r.first = e.at /\ r.pstart = e.p /\ e.p # None
      \/ /\ e.p # None /\ s.first = None /\ (s.pstart = None \/ s.pstart = e.p)
         /\ r.beat = s.beat /\ r.boot = s.boot /\ r.recv = s.recv /\ r.stale = s.stale
         /\ r.first = e.at /\ r.pstart = e.p
      \/ r = s
  BY ONLY SMTT(40), <1>1, ResetCases, s \in AgentState, r = Reset(s, e.p, e.at)
<1> QED BY <1>2, <1>3, <1>4, <1>5

\* The evaluator's step, on a state that is there, and on none.
Evaluated == IF Known(mem) THEN mem ELSE Unknown

LEMMA UnknownType == Unknown \in AgentState /\ Unknown.beat = <<>> /\ Absent.beat = <<>>
<1>1. <<>> \in OneOf(AgentBeat)
  BY OneIntro
<1> QED BY <1>1 DEF Unknown, Absent, AgentState, None, Classes

LEMMA EvaluatedType == ASSUME IInv
  PROVE /\ Evaluated \in AgentState /\ Evaluated.beat \in {mem.beat, <<>>}
        /\ ~doubt => StateInv(Evaluated)
<1>1. StateInv(Unknown)
  BY DEF StateInv, Unknown, None, IInv, TypeOK
<1>2. mem \in AgentState /\ (~doubt => StateInv(mem))
  BY DEF IInv, TypeOK
<1> QED BY <1>1, <1>2, UnknownType DEF Evaluated

LEMMA ClassifyType ==
    ASSUME NEW s, NEW p, NEW silent, NEW class, NEW plane, NEW at
    PROVE  Classify(s, p, silent, class, plane, at) \in Classes
BY DEF Classify, Classes

LEMMA EvAt == ASSUME IInv, ev # <<>>, ev[1].p \in {pres, None}
  PROVE EvalAt(ev[1])
<1>1. ev[1].at \in Nat /\ ev[1].p \in Nat
  BY OneType DEF IInv
<1>2. ev[1].at >= 1 /\ (ev[1].p = boot => ev[1].at >= heard.up)
  BY DEF IInv, ClockInv
<1>3. ev[1].p \in {None, boot}
  BY DEF IInv, TypeOK
<1> QED BY <1>1, <1>2, <1>3 DEF EvalAt

LEMMA EvalClassifyInv ==
    ASSUME IInv, NEW silent, NEW class, NEW f, EvalClassify(silent, class, f)
    PROVE  IInv'
<1> DEFINE e == ev[1]
           s0 == Evaluated
           s == Reset(s0, e.p, e.at)
           c == Classify(s, e.p, silent, class, PlaneHealthy(s0, e.p, silent, class, f, e.at), e.at)
           new == [s EXCEPT !.class = c]
<1>1. /\ ev # <<>> /\ ev' = <<>>
      /\ UNCHANGED <<now, boot, pres, file, hook, overtaken, net, hw, ing, heard>>
      /\ \/ UNCHANGED <<mem, store, doubt, events>>
         \/ mem' = new /\ Save(new, e.p # pres)
  BY DEF EvalClassify, agent, Evaluated
<1>2. e \in [at: Nat, p: Nat] /\ s0 \in AgentState /\ s0.beat \in {mem.beat, <<>>}
      /\ (~doubt => StateInv(s0))
  BY <1>1, OneType, EvaluatedType DEF IInv
<1>3. c \in Classes
  BY ClassifyType
<1> HIDE DEF e, s0, c
<1>4. s \in AgentState /\ s.beat \in {s0.beat, <<>>}
  <2>1. e.p \in Nat /\ e.at \in Nat
    BY <1>2
  <2>2. s \in AgentState /\ (s.beat = <<>> \/ s.beat = s0.beat \/ s = s0)
    BY SMTT(40), <1>2, <2>1, ResetCases
  <2> HIDE DEF s
  <2> QED BY <2>2
<1>5. /\ s0.pstart = e.p => s.pstart = e.p /\ s.recv = s0.recv
      /\ e.p = None => s.pstart = s0.pstart /\ s.recv = s0.recv
  BY <1>2, ResetCases
<1>6. ASSUME ~doubt, e.p = pres PROVE StateInv(s)
  <2>1. EvalAt(e)
    BY <1>1, <1>6, EvAt DEF e
  <2> QED BY <1>2, <1>6, <2>1, ResetInv
<1> HIDE DEF s
<1>7. /\ new \in AgentState /\ new.beat = s.beat /\ new.pstart = s.pstart /\ new.recv = s.recv
      /\ new.class = c
      /\ [new EXCEPT !.class = "none"] \in AgentState
      /\ [new EXCEPT !.class = "none"].beat = s.beat
  BY <1>3, <1>4 DEF AgentState, Classes
<1>8. c # "absent" /\ Absent.class = "absent"
  BY <1>3 DEF Classes, Absent, Unknown
<1>9. ASSUME ~doubt, e.p = pres
      PROVE  StateInv(new) /\ StateInv([new EXCEPT !.class = "none"])
  <2>1. StateInv(s)
    BY <1>6, <1>9
  <2>2. /\ new.boot = s.boot /\ new.first = s.first /\ new.stale = s.stale
    BY <1>4 DEF AgentState
  <2>3. LET o == [new EXCEPT !.class = "none"]
        IN  /\ o.boot = s.boot /\ o.first = s.first /\ o.stale = s.stale /\ o.pstart = s.pstart
            /\ o.recv = s.recv
    BY <1>7, <2>2 DEF AgentState
  <2> HIDE DEF new
  <2> QED BY <1>7, <2>1, <2>2, <2>3 DEF StateInv
<1> HIDE DEF new
<1>10. \/ UNCHANGED <<mem, store, doubt, events>>
       \/ /\ mem' = new
          /\ \/ /\ store' = [new EXCEPT !.class = "none"] /\ doubt' = (doubt \/ e.p # pres)
                /\ UNCHANGED events
             \/ doubt' = TRUE /\ UNCHANGED store /\ events' \in Nat
  BY <1>1 DEF Save, Event, IInv, TypeOK
<1>11. Beats' \subseteq Beats
  <2>1. One(new.beat) \subseteq One(mem.beat)
    BY <1>2, <1>4, <1>7 DEF One
  <2>2. mem'.beat = mem.beat \/ mem'.beat = new.beat
    BY <1>10
  <2>3. store'.beat = store.beat \/ store'.beat = new.beat
    BY <1>7, <1>10
  <2>4. One(mem'.beat) \subseteq One(mem.beat)
        /\ One(store'.beat) \subseteq One(mem.beat) \cup One(store.beat)
    BY <2>1, <2>2, <2>3
  <2> QED BY <1>1, <2>4 DEF Beats
<1>12. SeqInv' /\ ChainInv'
  BY <1>1, <1>11, BeatsShrink DEF IInv
<1>13. TypeOK'
  <2>1. \A S : <<>> \in OneOf(S)
    BY OneIntro
  <2>2. mem' \in AgentState /\ store' \in AgentState
    BY <1>7, <1>10 DEF IInv, TypeOK
  <2>3. doubt' \in BOOLEAN /\ events' \in Nat
    BY <1>10 DEF IInv, TypeOK
  <2> QED BY <1>1, <2>1, <2>2, <2>3 DEF IInv, TypeOK
<1>14. ClockInv'
  BY <1>1 DEF IInv, ClockInv
<1>15. ASSUME ~doubt', UNCHANGED <<mem, store, doubt>>
       PROVE  StateInv(mem)' /\ StateInv(store)' /\ SyncInv' /\ IngestInv'
  BY <1>1, <1>15 DEF IInv, StateInv, SyncInv, IngestInv, Known, Applying
<1>16. ASSUME ~doubt', mem' = new, store' = [new EXCEPT !.class = "none"], ~doubt, e.p = pres
       PROVE  StateInv(mem)' /\ StateInv(store)' /\ SyncInv' /\ IngestInv'
  <2>1. StateInv(mem)' /\ StateInv(store)'
    BY <1>1, <1>9, <1>16 DEF StateInv
  <2>2. Known(mem)' /\ store'.class = "none"
    BY <1>7, <1>8, <1>16 DEF Known, AgentState
  <2>3. heard.at # None => s0.pstart = boot /\ s0.recv # None
    <3>1. heard.at # None => Known(store) /\ store.pstart = boot /\ store.recv # None
      BY <1>16 DEF IInv, SyncInv, Known, Absent, Unknown
    <3>2. heard.at # None => Known(mem) /\ store = [mem EXCEPT !.class = "none"]
      BY <1>1, <1>16, <3>1 DEF IInv, SyncInv
    <3>3. heard.at # None => mem.pstart = boot /\ mem.recv # None
      BY <3>1, <3>2 DEF IInv, TypeOK, AgentState
    <3> QED BY <3>2, <3>3 DEF s0, Evaluated
  <2>4. heard.at # None => store'.pstart = boot /\ store'.recv # None
    <3>1. e.p = boot \/ e.p = None
      BY <1>16 DEF IInv, TypeOK
    <3>2. store'.pstart = s.pstart /\ store'.recv = s.recv
      BY <1>7, <1>16 DEF AgentState
    <3> QED BY <1>5, <2>3, <3>1, <3>2
  <2>5. SyncInv'
    BY <1>1, <1>16, <2>2, <2>4 DEF SyncInv, Known
  <2>6. mem'.beat \in {mem.beat, <<>>}
    BY <1>2, <1>4, <1>7, <1>16
  <2>7. IngestInv'
    BY <1>1, <1>16, <2>2, <2>6 DEF IInv, IngestInv, Applying
  <2> QED BY <2>1, <2>5, <2>7
<1>17. ASSUME ~doubt' PROVE StateInv(mem)' /\ StateInv(store)' /\ SyncInv' /\ IngestInv'
  BY <1>10, <1>15, <1>16, <1>17
<1> QED BY <1>12, <1>13, <1>14, <1>17 DEF IInv

-----------------------------------------------------------------------------
(* ingestBeat() *)

Ingests == [b: AgentBeat, at: Nat, p: Nat, same: BOOLEAN, changed: BOOLEAN,
            step: {"read", "apply"}, own: BOOLEAN]

\* What the detector knows of an incarnation tells which of its beats are new.
LEMMA HeardOfClaim ==
    ASSUME IInv, ~doubt, ing # <<>>, ing[1].step = "read",
           Known(Load), Load.boot = ing[1].b.boot, Load.beat # <<>>, ing[1].b.boot = boot
    PROVE  heard.seq = Load.beat[1].st.seq
<1>1. StateInv(Load)
  BY LoadType
<1> QED BY <1>1 DEF StateInv

LEMMA IngestClaimInv == ASSUME IInv, IngestClaim PROVE IInv'
<1> DEFINE i == ing[1]
           s == Load
           same == Known(s) /\ s.boot = i.b.boot
           replaced == Known(s) /\ i.p # None /\ s.pstart # None /\ i.p # s.pstart
           go == [i EXCEPT !.same = same, !.changed = replaced, !.step = "apply", !.own = ~Known(s)]
           superseded == Known(s) /\ s.boot # None /\ ~same /\ ~replaced
           claims == ClaimHighWater(i.b, s, same)
<1>1. /\ ing # <<>> /\ i.step = "read" /\ mem' = s
      /\ UNCHANGED <<now, boot, pres, file, hook, overtaken, net, store, ev>>
  BY DEF IngestClaim, agent
<1>2. \/ superseded /\ ing' = <<>> /\ Hear(i.b, i.at) /\ UNCHANGED <<hw, doubt, events>>
      \/ /\ ~superseded /\ claims
         /\ ing' = <<go>> /\ hw' = [hw EXCEPT ![i.b.boot] = i.b.st.seq]
         /\ UNCHANGED <<heard, doubt, events>>
      \/ /\ ~superseded /\ ~claims
         /\ ing' = <<>> /\ Hear(i.b, i.at) /\ UNCHANGED <<hw, doubt, events>>
      \/ /\ ~superseded /\ events' \in Nat /\ doubt' = TRUE
         /\ ing' = <<go>> /\ UNCHANGED <<hw, heard>>
  BY DEF IngestClaim, Event, IInv, TypeOK
<1>3. /\ i \in Ingests /\ i.b \in AgentBeat /\ i.b \in Beats /\ i.at >= 1
      /\ i.at \in Nat /\ i.b.boot \in 1 .. MaxBoot /\ i.b.st.seq \in Nat /\ i.b.st \in ClockState
  <2>1. i \in Ingests
    BY <1>1, OneType DEF IInv, Ingests
  <2>2. i.b \in Beats /\ i.at >= 1
    BY <1>1 DEF IInv, ClockInv, Beats, One
  <2> QED BY <2>1, <2>2 DEF Ingests, AgentBeat, ClockState
<1>4. i.b.st.seq >= 1 /\ i.b.boot <= boot
  BY <1>3 DEF IInv, SeqInv
<1>5. same \in BOOLEAN /\ replaced \in BOOLEAN /\ Known(s) \in BOOLEAN
  BY DEF Known
<1>6. /\ go \in Ingests /\ go.b = i.b /\ go.at = i.at /\ go.p = i.p /\ go.same = same
      /\ go.step = "apply" /\ go.own = ~Known(s)
  <2> HIDE DEF same, replaced, i, s
  <2>1. go \in Ingests
    BY <1>3, <1>5 DEF Ingests
  <2> QED BY <1>3, <2>1 DEF Ingests
<1> HIDE DEF go
<1>7. ing' = <<>> \/ (ing' # <<>> /\ ing'[1] = go /\ ing' = <<go>>)
  BY <1>2
<1>8. Beats' \subseteq Beats
  <2>1. One(ing') = {} \/ One(ing') = {go}
    BY <1>7 DEF One
  <2>2. One(mem'.beat) \subseteq One(mem.beat) \cup One(store.beat)
    BY <1>1, LoadType
  <2> QED BY <1>1, <1>3, <1>6, <2>1, <2>2 DEF Beats
<1>9. SeqInv' /\ ChainInv'
  BY <1>1, <1>8, BeatsShrink DEF IInv
<1>10. heard' = heard
       \/ (heard' = [heard EXCEPT !.at = i.at, !.seq = i.b.st.seq]
           /\ i.b.boot = boot /\ i.b.st.seq > heard.seq /\ ing' = <<>>)
  BY <1>2 DEF Hear
<1>11. hw' = hw \/ hw' = [hw EXCEPT ![i.b.boot] = i.b.st.seq]
  BY <1>2
<1>12. TypeOK'
  <2>1. ing' \in OneOf(Ingests)
    BY <1>6, <1>7, OneIntro
  <2>2. hw' \in [1 .. MaxBoot -> Nat]
    BY <1>3, <1>11 DEF IInv, TypeOK
  <2>3. heard' \in [at: Nat, seq: Nat, up: Nat]
    BY <1>3, <1>10 DEF IInv, TypeOK
  <2>4. doubt' \in BOOLEAN /\ events' \in Nat
    BY <1>2 DEF IInv, TypeOK
  <2> HIDE DEF i, s, same, replaced, superseded, claims
  <2>5. mem' \in AgentState
    BY <1>1, LoadType DEF s
  <2> QED BY <1>1, <2>1, <2>2, <2>3, <2>4, <2>5 DEF IInv, TypeOK, Ingests
<1>13. ClockInv'
  <2>1. heard' = heard \/ (heard'.at = i.at /\ heard'.seq = i.b.st.seq /\ heard'.up = heard.up)
    BY <1>10 DEF IInv, TypeOK
  <2>2. heard'.up <= now /\ (heard'.at = None <=> heard'.seq = 0)
        /\ heard'.up = heard.up
    <3>1. CASE heard' = heard
      BY <3>1 DEF IInv, ClockInv
    <3>2. CASE heard'.at = i.at /\ heard'.seq = i.b.st.seq /\ heard'.up = heard.up
      <4>1. heard'.at # None /\ heard'.seq # 0
        BY <1>3, <1>4, <3>2 DEF None
      <4> QED BY <3>2, <4>1 DEF IInv, ClockInv
    <3> QED BY <2>1, <3>1, <3>2
  <2>3. \A b \in 1 .. MaxBoot : b > boot => hw'[b] = 0
    <3> HIDE DEF i, s, same, replaced, superseded, claims
    <3> SUFFICES ASSUME NEW b \in 1 .. MaxBoot, b > boot PROVE hw'[b] = 0
      OBVIOUS
    <3>1. b # i.b.boot
      BY <1>3, <1>4 DEF IInv, TypeOK
    <3>2. hw[b] = 0 /\ hw \in [1 .. MaxBoot -> Nat]
      BY DEF IInv, ClockInv, TypeOK
    <3> QED BY <1>11, <3>1, <3>2
  <2>4. ing' # <<>> => ing'[1].at >= 1
    BY <1>3, <1>6, <1>7
  <2> HIDE DEF i, s, same, replaced, superseded, claims
  <2> QED BY <1>1, <2>2, <2>3, <2>4 DEF IInv, ClockInv
<1>14. ASSUME ~doubt' PROVE StateInv(mem)' /\ StateInv(store)' /\ SyncInv' /\ IngestInv'
  <2>1. ~doubt /\ doubt' = doubt
    BY <1>2, <1>14
  <2>2. /\ StateInv(s) /\ StateInv(store)
        /\ Known(mem) => s = mem
        /\ Known(s) => store = [s EXCEPT !.class = "none"]
        /\ ~Known(s) => ~Known(store) /\ ~Known(mem)
    BY <2>1, LoadType DEF IInv
  <2>3. i.p = i.b.boot /\ (i.b.boot # boot => heard.at = None) /\ hw[boot] = heard.seq
    BY <1>1, <2>1 DEF IInv, IngestInv, Applying
  <2>4. s.boot # None => s.beat # <<>> /\ s.boot = s.pstart
    BY <2>2 DEF StateInv
  <2>5. ~superseded
    BY <1>3, <2>3, <2>4 DEF None
  <2>6. heard' = heard
    <3> SUFFICES ASSUME i.b.boot = boot, i.b.st.seq > heard.seq, ing' = <<>> PROVE FALSE
      BY <1>10
    <3>1. ~claims
      BY <1>2, <2>1, <2>5
    <3>2. same /\ s.beat # <<>> /\ ~(i.b.st.seq > s.beat[1].st.seq)
      BY <2>3, <3>1 DEF ClaimHighWater
    <3>3. heard.seq = s.beat[1].st.seq
      BY <1>1, <2>1, <3>2, HeardOfClaim
    <3> QED BY <3>2, <3>3
  <2> HIDE DEF i, s
  <2>7. StateInv(mem)' /\ StateInv(store)'
    BY <1>1, <2>2, <2>6 DEF StateInv
  <2>8. SyncInv'
    BY <1>1, <2>1, <2>2, <2>6 DEF IInv, SyncInv, Known
  <2>9. CASE ing' = <<>>
    <3>1. hw' = hw
      BY <1>2, <2>1, <2>9
    <3> QED BY <1>1, <2>3, <2>6, <2>7, <2>8, <2>9, <3>1 DEF IngestInv, Applying
  <2>10. CASE ing' # <<>>
    <3>1. claims /\ hw' = [hw EXCEPT ![i.b.boot] = i.b.st.seq] /\ ing'[1] = go
      BY <1>2, <1>7, <2>1, <2>5, <2>10
    <3>2. /\ same /\ s.beat # <<>> => i.b.st.seq > s.beat[1].st.seq
          /\ i.b.st.seq > hw[i.b.boot]
      BY <3>1 DEF ClaimHighWater
    <3>3. same /\ s.beat # <<>> => s.beat[1].boot = i.b.boot
      BY <2>2 DEF StateInv
    <3>4. Applying'
      BY <1>6, <2>10, <3>1 DEF Applying
    <3>5. \/ i.b.boot = boot /\ hw'[boot] = i.b.st.seq /\ heard.seq < i.b.st.seq
          \/ i.b.boot # boot /\ hw'[boot] = heard.seq
      BY <1>3, <2>3, <3>1, <3>2 DEF IInv, TypeOK
    <3>6. s.beat # <<>> /\ same => s.beat[1].st.seq < i.b.st.seq
      <4>1. s.beat # <<>> => s.beat[1].st.seq \in Nat
        <5>1. s.beat # <<>> => s.beat[1] \in AgentBeat
          BY LoadType, OneElim DEF s, AgentState
        <5> QED BY <5>1 DEF AgentBeat, ClockState
      <4> QED BY <1>3, <3>2, <4>1
    <3> HIDE DEF claims, superseded
    <3>7. same => Known(s)
      OBVIOUS
    <3> HIDE DEF same
    <3>8. /\ ing'[1].p = ing'[1].b.boot
          /\ ing'[1].b.boot # boot' => heard'.at = None
      BY <1>1, <1>6, <2>3, <2>6, <3>1
    <3>9. /\ ing'[1].own => ~ing'[1].same
          /\ ~ing'[1].own => Known(mem)'
      BY <1>1, <1>6, <3>1, <3>7 DEF Known
    <3>10. ing'[1].same /\ mem'.beat # <<>> =>
                mem'.beat[1].boot = ing'[1].b.boot /\ mem'.beat[1].st.seq < ing'[1].b.st.seq
      BY <1>1, <1>6, <3>1, <3>3, <3>6
    <3>11. IF Applying' /\ ing'[1].b.boot = boot'
           THEN hw'[boot'] = ing'[1].b.st.seq /\ heard'.seq < ing'[1].b.st.seq
           ELSE hw'[boot'] = heard'.seq
      BY <1>1, <1>6, <2>6, <3>1, <3>4, <3>5
    <3>12. IngestInv'
      BY <3>8, <3>9, <3>10, <3>11 DEF IngestInv
    <3> QED BY <2>7, <2>8, <3>12
  <2> QED BY <2>9, <2>10
<1> QED BY <1>9, <1>12, <1>13, <1>14 DEF IInv

\* One turn more than the beat before, at most, and none for a keepalive.
LEMMA NextStaleBound ==
    ASSUME NEW s \in AgentState, NEW i \in Ingests,
           i.b.st.mark >= 1,
           s.beat = <<>> => s.stale = 0,
           i.same /\ s.beat # <<>> =>
               /\ s.beat[1].st.seq < i.b.st.seq
               /\ s.beat[1].st.mark <= i.b.st.mark
               /\ s.stale <= s.beat[1].st.mark
    PROVE  NextStale(s, i) \in Nat /\ NextStale(s, i) <= i.b.st.mark
<1>1. i.b.st.mark \in Nat /\ i.b.st.seq \in Nat /\ s.stale \in Nat /\ i.same \in BOOLEAN
  BY DEF Ingests, AgentBeat, ClockState, AgentState
<1>2. s.beat # <<>> => s.beat[1].st.mark \in Nat /\ s.beat[1].st.seq \in Nat
  <2>1. s.beat # <<>> => s.beat[1] \in AgentBeat
    BY OneElim DEF AgentState
  <2> QED BY <2>1 DEF AgentBeat, ClockState
<1>3. CASE i.same /\ s.beat # <<>>
  <2>1. IsKeepalive(IF i.same THEN s.beat ELSE <<>>, i.b) => i.b.st.mark = s.beat[1].st.mark
    BY <1>3 DEF IsKeepalive
  <2>2. ~IsKeepalive(IF i.same THEN s.beat ELSE <<>>, i.b) => i.b.st.mark # s.beat[1].st.mark
    BY <1>3 DEF IsKeepalive
  <2>3. \/ /\ IsKeepalive(IF i.same THEN s.beat ELSE <<>>, i.b) /\ NextStale(s, i) = s.stale
        \/ /\ ~IsKeepalive(IF i.same THEN s.beat ELSE <<>>, i.b)
           /\ NextStale(s, i) \in {0, s.stale + 1}
    BY DEF NextStale
  <2>4. /\ s.beat[1].st.mark <= i.b.st.mark /\ s.stale <= s.beat[1].st.mark
    BY <1>3
  <2> QED BY <1>1, <1>2, <1>3, <2>1, <2>2, <2>3, <2>4
<1>4. CASE i.same /\ s.beat = <<>>
  <2>1. NextStale(s, i) \in {0, s.stale, s.stale + 1}
    BY DEF NextStale
  <2> QED BY <1>1, <1>4, <2>1
<1>5. CASE ~i.same
  <2>1. NextStale(s, i) = 0
    BY <1>5 DEF NextStale, IsKeepalive
  <2> QED BY <1>1, <2>1
<1> QED BY <1>1, <1>3, <1>4, <1>5

LEMMA NextStaleType ==
    ASSUME NEW s \in AgentState, NEW i PROVE NextStale(s, i) \in Nat
BY DEF NextStale, AgentState

LEMMA IngestApplyInv == ASSUME IInv, IngestApply PROVE IInv'
<1> DEFINE i == ing[1]
           s == IF i.own THEN Unknown ELSE Evaluated
           new == [s EXCEPT !.boot = i.b.boot, !.pstart = i.p, !.recv = i.at, !.beat = <<i.b>>,
                            !.stale = NextStale(s, i)]
           saved == [new EXCEPT !.class = "none"]
<1>1. /\ ing # <<>> /\ i.step = "apply" /\ mem' = new /\ ing' = <<>>
      /\ UNCHANGED <<now, boot, pres, file, hook, overtaken, net, hw, ev>>
      /\ Hear(i.b, i.at)
      /\ \/ store' = saved /\ doubt' = doubt /\ UNCHANGED events
         \/ doubt' = TRUE /\ UNCHANGED store /\ events' \in Nat
  <2>1. doubt \in BOOLEAN
    BY DEF IInv, TypeOK
  <2> QED BY <2>1 DEF IngestApply, agent, Evaluated, Save, Event, IInv, TypeOK
<1>2. /\ i \in Ingests /\ i.b \in AgentBeat /\ i.b \in Beats /\ i.at >= 1 /\ i.at \in Nat
      /\ i.p \in Nat /\ i.b.boot \in 1 .. MaxBoot /\ i.b.st.seq \in Nat /\ i.b.st.mark \in Nat
      /\ i.own \in BOOLEAN /\ i.same \in BOOLEAN
  <2>1. i \in Ingests
    BY <1>1, OneType DEF IInv, Ingests
  <2>2. i.b \in Beats /\ i.at >= 1
    BY <1>1 DEF IInv, ClockInv, Beats, One
  <2> QED BY <2>1, <2>2 DEF Ingests, AgentBeat, ClockState
<1>3. i.b.st.seq >= 1 /\ i.b.st.mark >= 1 /\ i.b.boot <= boot /\ i.b.boot # None
  BY <1>2 DEF IInv, SeqInv, None
<1>4. s \in AgentState /\ NextStale(s, i) \in Nat
  <2>1. s \in AgentState
    BY UnknownType, EvaluatedType
  <2> QED BY <2>1, NextStaleType
<1> HIDE DEF i, s
<1>5. <<i.b>> \in OneOf(AgentBeat) /\ <<i.b>> # <<>> /\ <<i.b>>[1] = i.b
  BY <1>2, OneIntro
<1>6. /\ new \in AgentState
      /\ new.boot = i.b.boot /\ new.pstart = i.p /\ new.first = s.first /\ new.recv = i.at
      /\ new.beat = <<i.b>> /\ new.stale = NextStale(s, i) /\ new.class = s.class
  <2>1. i.b.boot \in Nat
    BY <1>2
  <2> DEFINE n == NextStale(s, i)
  <2>2. new = [s EXCEPT !.boot = i.b.boot, !.pstart = i.p, !.recv = i.at, !.beat = <<i.b>>,
                        !.stale = n]
    OBVIOUS
  <2>3. n \in Nat
    BY <1>4
  <2> DEFINE b == i.b.boot
             p == i.p
             at == i.at
             bt == <<i.b>>
  <2>4. /\ new = [s EXCEPT !.boot = b, !.pstart = p, !.recv = at, !.beat = bt, !.stale = n]
        /\ b \in Nat /\ p \in Nat /\ at \in Nat /\ bt \in OneOf(AgentBeat)
    BY <1>2, <1>5, <2>1, <2>2
  <2> HIDE DEF new, n, b, p, at, bt
  <2>5. /\ new \in AgentState
        /\ new.boot = b /\ new.pstart = p /\ new.first = s.first /\ new.recv = at
        /\ new.beat = bt /\ new.stale = n /\ new.class = s.class
    <3>1. new = [boot |-> b, pstart |-> p, first |-> s.first, recv |-> at, beat |-> bt,
                 stale |-> n, class |-> s.class]
      BY <1>4, <2>4 DEF AgentState
    <3>2. s.first \in Nat /\ s.class \in Classes \cup {"absent"}
      BY <1>4 DEF AgentState
    <3> QED BY <2>3, <2>4, <3>1, <3>2 DEF AgentState
  <2> QED BY <2>5 DEF n, b, p, at, bt
<1> HIDE DEF new
<1>7. /\ saved \in AgentState
      /\ saved.boot = new.boot /\ saved.pstart = new.pstart /\ saved.first = new.first
      /\ saved.recv = new.recv /\ saved.beat = new.beat /\ saved.stale = new.stale
      /\ saved.class = "none"
  BY <1>6 DEF AgentState, Classes
<1> HIDE DEF saved
<1>8. Beats' \subseteq Beats
  <2>1. One(new.beat) = {i.b} /\ One(saved.beat) = {i.b}
    BY <1>5, <1>6, <1>7 DEF One
  <2>2. One(mem'.beat) = {i.b} /\ One(store'.beat) \subseteq One(store.beat) \cup {i.b}
    BY <1>1, <2>1
  <2> QED BY ZenonT(60), <1>1, <1>2, <2>2 DEF Beats, One
<1>9. SeqInv' /\ ChainInv'
  BY <1>1, <1>8, BeatsShrink DEF IInv
<1>10. \/ heard' = heard /\ ~(i.b.boot = boot /\ i.b.st.seq > heard.seq)
       \/ /\ i.b.boot = boot /\ i.b.st.seq > heard.seq
          /\ heard' \in [at: Nat, seq: Nat, up: Nat]
          /\ heard'.at = i.at /\ heard'.seq = i.b.st.seq /\ heard'.up = heard.up
  BY <1>1, <1>2 DEF Hear, IInv, TypeOK
<1>11. TypeOK'
  <2>1. \A S : <<>> \in OneOf(S)
    BY OneIntro
  <2>2. mem' \in AgentState /\ store' \in AgentState
    BY <1>1, <1>6, <1>7 DEF IInv, TypeOK
  <2>3. heard' \in [at: Nat, seq: Nat, up: Nat]
    BY <1>10 DEF IInv, TypeOK
  <2>4. doubt' \in BOOLEAN /\ events' \in Nat
    BY <1>1 DEF IInv, TypeOK
  <2> QED BY <1>1, <2>1, <2>2, <2>3, <2>4 DEF IInv, TypeOK
<1>12. ClockInv'
  <2>1. heard'.up = heard.up /\ (heard'.at = None <=> heard'.seq = 0)
    BY <1>2, <1>3, <1>10 DEF IInv, ClockInv, None
  <2> QED BY <1>1, <2>1 DEF IInv, ClockInv
<1>13. ASSUME ~doubt' PROVE StateInv(mem)' /\ StateInv(store)' /\ SyncInv' /\ IngestInv'
  <2>1. ~doubt /\ store' = saved
    BY <1>1, <1>13
  <2>2. /\ i.p = i.b.boot /\ (i.b.boot # boot => heard.at = None)
        /\ i.own => ~i.same
        /\ ~i.own => Known(mem)
        /\ i.same /\ mem.beat # <<>> =>
                mem.beat[1].boot = i.b.boot /\ mem.beat[1].st.seq < i.b.st.seq
        /\ IF i.b.boot = boot
           THEN hw[boot] = i.b.st.seq /\ heard.seq < i.b.st.seq
           ELSE hw[boot] = heard.seq
    BY <1>1, <2>1 DEF IInv, IngestInv, Applying, i
  <2>3. i.same => s = mem
    BY <1>2, <2>2 DEF s, Evaluated
  <2>4. s.beat = <<>> => s.stale = 0
    <3>1. StateInv(Evaluated)
      BY <2>1, EvaluatedType
    <3> QED BY <3>1 DEF StateInv, s, Unknown
  <2>5. ASSUME i.b.boot \notin overtaken PROVE NextStale(s, i) <= i.b.st.mark
    <3>1. i.same /\ s.beat # <<>> =>
             /\ s.beat[1].st.seq < i.b.st.seq
             /\ s.beat[1].st.mark <= i.b.st.mark
             /\ s.stale <= s.beat[1].st.mark
      <4> SUFFICES ASSUME i.same, s.beat # <<>>
                   PROVE  /\ s.beat[1].st.seq < i.b.st.seq
                          /\ s.beat[1].st.mark <= i.b.st.mark
                          /\ s.stale <= s.beat[1].st.mark
        OBVIOUS
      <4>1. s = mem /\ mem.beat[1].boot = i.b.boot /\ mem.beat[1].st.seq < i.b.st.seq
        BY <2>2, <2>3
      <4>2. mem.beat[1] \in Beats
        BY <4>1 DEF Beats, One
      <4>3. mem.beat[1].st.mark <= i.b.st.mark
        BY <1>2, <2>5, <4>1, <4>2 DEF IInv, ChainInv
      <4>4. mem.stale <= mem.beat[1].st.mark
        BY <2>1, <2>5, <4>1 DEF IInv, StateInv
      <4> QED BY <4>1, <4>3, <4>4
    <3> QED BY <1>2, <1>3, <1>4, <2>4, <3>1, NextStaleBound
  <2>6. i.b.boot = boot => heard'.at = i.at /\ heard'.seq = i.b.st.seq
    BY <1>10, <2>2
  <2>7. ASSUME NEW o, o.boot = i.b.boot, o.pstart = i.p, o.recv = i.at, o.beat = <<i.b>>,
               o.stale = NextStale(s, i)
        PROVE  /\ o.beat # <<>> /\ o.boot = o.pstart /\ o.beat[1].boot = o.boot /\ o.recv # None
               /\ o.boot \notin overtaken => o.stale <= o.beat[1].st.mark
               /\ o.pstart # None /\ o.pstart <= boot
               /\ o.pstart = boot => heard'.at = o.recv /\ heard'.seq = o.beat[1].st.seq
    BY <1>2, <1>3, <1>5, <2>2, <2>5, <2>6, <2>7 DEF None
  <2>8. StateInv(mem)'
    BY <1>1, <1>6, <2>7 DEF StateInv
  <2>9. StateInv(store)'
    BY <1>1, <1>6, <1>7, <2>1, <2>7 DEF StateInv
  <2>10. Known(mem)'
    BY <1>1, <1>5, <1>6, UnknownType DEF Known
  <2>11. heard'.at # None => store'.pstart = boot /\ store'.recv # None
    BY <1>2, <1>6, <1>7, <1>10, <2>1, <2>2 DEF None
  <2>12. SyncInv'
    BY <1>1, <1>7, <2>1, <2>10, <2>11 DEF SyncInv, saved, Known
  <2>13. IngestInv'
    BY <1>1, <1>10, <2>2, <2>6 DEF IngestInv, Applying
  <2> QED BY <2>8, <2>9, <2>12, <2>13
<1> QED BY <1>9, <1>11, <1>12, <1>13 DEF IInv

-----------------------------------------------------------------------------
LEMMA StepInv == WedgeAssumption /\ IInv /\ [Next]_vars => IInv'
<1> SUFFICES ASSUME WedgeAssumption, IInv, [Next]_vars PROVE IInv'
  OBVIOUS
<1>1. ASSUME NEW e \in Emission, Emit(e[1], e[2], e[3]) PROVE IInv'
  <2>1. e[3] \in BOOLEAN
    BY <1>1 DEF WedgeAssumption
  <2> QED BY <1>1, <2>1, EmitInv
<1>2. ASSUME NEW b \in net, IngestRead(b) PROVE IInv'
  BY <1>2, IngestReadInv
<1>3. ASSUME NEW silent \in Silent, NEW class \in Class, NEW f \in 0 .. Peers,
             EvalClassify(silent, class, f)
      PROVE  IInv'
  BY <1>3, EvalClassifyInv
<1>4. CASE Relaunch
  BY <1>4, RelaunchInv
<1>5. CASE EmitRead \/ PresenceGone \/ Tick
  BY <1>5, EmitReadInv, PresenceGoneInv, TickInv
<1>6. CASE IngestClaim \/ IngestApply \/ EvalRead \/ DetectorRestart
  BY <1>6, IngestClaimInv, IngestApplyInv, EvalReadInv, RestartInv
<1>7. CASE UNCHANGED vars
  BY <1>7, StutterInv
<1> QED BY <1>1, <1>2, <1>3, <1>4, <1>5, <1>6, <1>7 DEF Next

\* What a verdict on the present incarnation is computed from.
LEMMA JudgedFacts ==
    ASSUME IInv, IInv', [Next]_vars, NEW cls, Judged(cls), cls \subseteq Classes
    PROVE  \E silent, class, plane :
             LET e == ev[1]
                 s == Reset(Evaluated, e.p, e.at)
                 c == Classify(s, e.p, silent, class, plane, e.at)
             IN  /\ c \in cls /\ s \in AgentState /\ e.p = boot /\ e.at \in Nat
                 /\ s.recv # None => heard.at = s.recv
                 /\ s.recv = None => heard.at = None /\ s.first >= heard.up
<1> DEFINE e == ev[1]
           s == Reset(Evaluated, e.p, e.at)
<1>1. ev # <<>> /\ ev' = <<>> /\ e.p = boot /\ ~doubt' /\ mem'.class \in cls
  BY DEF Judged
<1>2. e \in [at: Nat, p: Nat] /\ e.at >= 1
  BY <1>1, OneType DEF IInv, ClockInv
<1>3. ~DetectorRestart
  <2> SUFFICES ASSUME DetectorRestart PROVE FALSE
    OBVIOUS
  <2>1. mem'.class = "absent"
    BY DEF DetectorRestart, Absent, Unknown
  <2> QED BY <1>1, <2>1 DEF Classes
<1>4. PICK silent, class, f : EvalClassify(silent, class, f)
  <2>1. ev' # ev
    BY <1>1
  <2>2. ~UNCHANGED vars
    BY <2>1 DEF vars
  <2>3. ~EmitRead /\ ~PresenceGone /\ ~Relaunch /\ ~Tick /\ ~IngestClaim /\ ~IngestApply
    BY <2>1 DEF EmitRead, PresenceGone, Relaunch, Tick, IngestClaim, IngestApply, detector
  <2>4. ~EvalRead
    BY <1>1 DEF EvalRead
  <2>5. \A b : ~IngestRead(b)
    BY <2>1 DEF IngestRead
  <2>6. \A ph, progress, busy : ~Emit(ph, progress, busy)
    BY <2>1 DEF Emit, EmitWrite, detector
  <2> QED BY <1>3, <2>2, <2>3, <2>4, <2>5, <2>6 DEF Next
<1> DEFINE plane == PlaneHealthy(Evaluated, e.p, silent, class, f, e.at)
           c == Classify(s, e.p, silent, class, plane, e.at)
           new == [s EXCEPT !.class = c]
<1>5. e.p # None /\ boot \in Nat
  BY <1>1 DEF IInv, TypeOK, None
<1>6. /\ mem' = new /\ heard' = heard /\ boot' = boot
      /\ Save(new, e.p # pres)
  BY <1>4, <1>5 DEF EvalClassify, agent, Evaluated, AgedOut
<1>7. store' = [new EXCEPT !.class = "none"]
  BY <1>1, <1>6 DEF Save
<1> HIDE DEF e, plane
<1>8. Evaluated \in AgentState /\ e.p \in Nat /\ e.at \in Nat /\ e.at # None
  BY <1>2, EvaluatedType DEF None
<1>9. ~doubt
  BY <1>1, <1>6 DEF Save, IInv, TypeOK
<1>10. s \in AgentState /\ s.pstart = e.p /\ s.first # None
  <2>1. Evaluated.first # None => Evaluated.pstart # None
    BY <1>9, EvaluatedType DEF StateInv
  <2>2. /\ s \in AgentState
        /\ \/ s.first = e.at /\ s.pstart = e.p
           \/ /\ Evaluated.first # None /\ (Evaluated.pstart = None \/ e.p = Evaluated.pstart)
              /\ s = Evaluated
    <3>1. /\ s \in AgentState
          /\ \/ s.first = e.at /\ s.pstart = e.p
             \/ /\ e.p = None \/ Evaluated.first # None
                /\ e.p = None \/ Evaluated.pstart = None \/ e.p = Evaluated.pstart
                /\ s = Evaluated
      <4>1. s = Reset(Evaluated, e.p, e.at)
        OBVIOUS
      <4> HIDE DEF s
      <4> QED BY <1>8, <4>1, ResetCases
    <3> HIDE DEF s
    <3> QED BY <1>5, <3>1
  <2> HIDE DEF s
  <2> QED BY <1>8, <2>1, <2>2
<1> HIDE DEF s
<1>11. c \in Classes
  BY ClassifyType
<1> HIDE DEF c
<1>12. /\ new.class = c /\ new.pstart = s.pstart /\ new.recv = s.recv /\ new.first = s.first
       /\ store'.recv = s.recv /\ new # Absent
  <2>1. new \in AgentState /\ new.class = c /\ new.pstart = s.pstart /\ new.recv = s.recv
        /\ new.first = s.first
    BY <1>10, <1>11 DEF AgentState
  <2>2. Absent.class = "absent" /\ c # "absent"
    BY <1>11 DEF Classes, Absent, Unknown
  <2> QED BY <1>7, <2>1, <2>2 DEF AgentState
<1> HIDE DEF new
<1>13. StateInv(mem)' /\ SyncInv'
  BY <1>1 DEF IInv
<1>14. c \in cls
  BY <1>1, <1>6, <1>12
<1>15. s.recv # None => heard.at = s.recv
  BY <1>1, <1>6, <1>10, <1>12, <1>13 DEF StateInv
<1>16. s.recv = None => heard.at = None /\ s.first >= heard.up
  <2>1. heard.at # None => s.recv # None
    BY <1>6, <1>12, <1>13 DEF SyncInv
  <2>2. s.recv = None => s.first >= heard.up
    BY <1>1, <1>6, <1>10, <1>12, <1>13 DEF StateInv
  <2> QED BY <2>1, <2>2
<1> QED BY <1>1, <1>8, <1>10, <1>14, <1>15, <1>16 DEF e, s, c

LEMMA DeadIsFounded ==
    ASSUME WedgeAssumption, IInv, IInv', [Next]_vars, Judged({"loop-dead"})
    PROVE  SilentFor >= IF heard.at # None THEN MissedBeats ELSE BootGrace
<1>1. {"loop-dead"} \subseteq Classes
  BY DEF Classes
<1> DEFINE e == ev[1]
           s == Reset(Evaluated, e.p, e.at)
<1>2. PICK silent, class, plane :
             /\ Classify(s, e.p, silent, class, plane, e.at) = "loop-dead"
             /\ s \in AgentState /\ e.p = boot /\ e.at \in Nat
             /\ s.recv # None => heard.at = s.recv
             /\ s.recv = None => heard.at = None /\ s.first >= heard.up
  BY <1>1, JudgedFacts
<1> HIDE DEF s, e
<1>3. \/ s.recv = None /\ ~(e.at - s.first < BootGrace)
      \/ s.recv # None /\ e.at >= s.recv + MissedBeats
  BY <1>2 DEF Classify
<1>4. /\ s.first \in Nat /\ s.recv \in Nat /\ heard.up \in Nat /\ heard.at \in Nat
      /\ BootGrace \in Nat /\ MissedBeats \in Nat
  BY <1>2 DEF AgentState, IInv, TypeOK, WedgeAssumption
<1>5. CASE s.recv = None
  <2>1. heard.at = None /\ s.first >= heard.up /\ ~(e.at - s.first < BootGrace)
    BY <1>2, <1>3, <1>5
  <2>2. SilentFor = IF e.at > heard.up THEN e.at - heard.up ELSE 0
    BY <2>1 DEF SilentFor, e
  <2> QED BY <1>2, <1>4, <2>1, <2>2
<1>6. CASE s.recv # None
  <2>1. heard.at = s.recv /\ heard.at # None /\ e.at >= s.recv + MissedBeats
    BY <1>2, <1>3, <1>6
  <2>2. SilentFor = IF e.at > heard.at THEN e.at - heard.at ELSE 0
    BY <2>1 DEF SilentFor, e
  <2> QED BY <1>2, <1>4, <2>1, <2>2
<1> QED BY <1>5, <1>6

LEMMA AliveWasHeard ==
    ASSUME WedgeAssumption, IInv, IInv', [Next]_vars,
           Judged({"healthy", "idle-ok", "long-turn", "stale-goal-spin"})
    PROVE  heard.at # None /\ ev[1].at < heard.at + MissedBeats
<1> DEFINE alive == {"healthy", "idle-ok", "long-turn", "stale-goal-spin"}
           e == ev[1]
           s == Reset(Evaluated, e.p, e.at)
<1>1. alive \subseteq Classes
  BY DEF Classes
<1>2. PICK silent, class, plane :
             /\ Classify(s, e.p, silent, class, plane, e.at) \in alive
             /\ s \in AgentState /\ e.p = boot /\ e.at \in Nat
             /\ s.recv # None => heard.at = s.recv
             /\ s.recv = None => heard.at = None /\ s.first >= heard.up
  BY <1>1, JudgedFacts
<1> HIDE DEF s, e
<1>3. s.recv # None /\ ~(e.at >= s.recv + MissedBeats)
  BY <1>2 DEF Classify
<1>4. s.recv \in Nat /\ MissedBeats \in Nat
  BY <1>2 DEF AgentState, WedgeAssumption
<1> QED BY <1>2, <1>3, <1>4 DEF e

\* The state of the agent, its beats and the detector keep their types.
THEOREM TypeCorrect == ASSUME WedgeAssumption PROVE Spec => []TypeOK
<1>1. IInv => TypeOK
  BY DEF IInv
<1> QED BY <1>1, InitInv, StepInv, PTL DEF Spec

\* Whatever beats are lost, repeated, reordered or late and whenever the agent is relaunched or
\* the detector restarts: a loop-dead verdict on the present incarnation follows real silence,
\* and the spin counter stays below the turns the agent itself reported.
THEOREM VerdictHolds == ASSUME WedgeAssumption PROVE Spec => VerdictIsFounded
<1>1. IInv /\ IInv' /\ [Next]_vars => [SpinIsFounded']_vars
  BY DEF IInv, StateInv, SpinIsFounded
<1>2. IInv /\ IInv' /\ [Next]_vars =>
        [Judged({"loop-dead"}) =>
           SilentFor >= IF heard.at # None THEN MissedBeats ELSE BootGrace]_vars
  BY DeadIsFounded
<1> QED BY <1>1, <1>2, InitInv, StepInv, PTL DEF Spec, VerdictIsFounded, LoopDeadIsFounded

\* And no such beat, relaunch or restart makes a silent incarnation pass as alive.
THEOREM NoMaskedHolds == ASSUME WedgeAssumption PROVE Spec => NoMaskedWedge
<1>1. IInv /\ IInv' /\ [Next]_vars =>
        [Judged({"healthy", "idle-ok", "long-turn", "stale-goal-spin"}) =>
           heard.at # None /\ ev[1].at < heard.at + MissedBeats]_vars
  BY AliveWasHeard
<1> QED BY <1>1, InitInv, StepInv, PTL DEF Spec, NoMaskedWedge

-----------------------------------------------------------------------------
(* RoutingGovernor: RouteSafe and BreakerHonest for all levels, thresholds, cooldowns and        *)
(* clocks.  RouteSafe is a fact about one call of routeBuild; BreakerHonest needs to know,       *)
(* between calls, what an openUntil of 0 stands for.                                             *)


\* The counter is the failures in a row; a breaker that is set has the last failure's cooldown,
\* and one that is not has too few failures or a cooldown that has passed.
BreakerInv ==
    /\ lastNow <= clock
    /\ \A p \in Gov!Provider :
          /\ fails[p] = tail[p].n
          /\ tail[p].n < breakerConsecutiveFailures => openUntil[p] = 0
          /\ tail[p].n >= breakerConsecutiveFailures =>
                \/ openUntil[p] = tail[p].at + breakerCooldownMs
                \/ openUntil[p] = 0 /\ tail[p].at + breakerCooldownMs <= clock

GovInv == Gov!TypeOK /\ BreakerInv /\ Gov!RouteSafe

\* The state relation of BreakerInv is the reading of the breaker that BreakerHonest states.
LEMMA BreakerInvHonest ==
    ASSUME Gov!GovernorAssumption, Gov!TypeOK, BreakerInv
    PROVE  Gov!BreakerHonest
<1> SUFFICES ASSUME NEW p \in Gov!Provider
             PROVE  Gov!breakerOpen(p) <=> /\ tail[p].n >= breakerConsecutiveFailures
                                       /\ clock < tail[p].at + breakerCooldownMs
    BY DEF Gov!BreakerHonest
<1>1. /\ clock \in Nat /\ openUntil[p] \in Nat /\ tail[p].n \in Nat /\ tail[p].at \in Nat
      /\ breakerConsecutiveFailures \in Nat /\ breakerCooldownMs \in Nat
    BY DEF Gov!TypeOK, Gov!GovernorAssumption
<1>2. CASE tail[p].n < breakerConsecutiveFailures
    BY <1>1, <1>2 DEF BreakerInv, Gov!breakerOpen
<1>3. CASE tail[p].n >= breakerConsecutiveFailures
    BY <1>1, <1>3 DEF BreakerInv, Gov!breakerOpen
<1> QED BY <1>1, <1>2, <1>3

\* A latch is a Boolean.
LEMMA LatchType ==
    ASSUME NEW current \in BOOLEAN, NEW value \in Nat, NEW hi \in Nat, NEW lo \in Nat,
           NEW hiInclusive \in BOOLEAN
    PROVE  Gov!latchHigh(current, value, hi, lo, hiInclusive) \in BOOLEAN
<1>1. (value > lo) \in BOOLEAN /\ (value > hi) \in BOOLEAN /\ (value >= hi) \in BOOLEAN
    BY SMT
<1> QED BY <1>1, Zenon DEF Gov!latchHigh

LEMMA GovInitInv == ASSUME Gov!GovernorAssumption, Gov!Init PROVE GovInv
<1>1. Gov!TypeOK
    BY DEF Gov!Init, Gov!TypeOK, Gov!NoDecision, Gov!Provider, Gov!Target
<1>2. BreakerInv
    <2>1. breakerConsecutiveFailures \in Nat \ {0}
        BY DEF Gov!GovernorAssumption
    <2> QED BY <2>1 DEF Gov!Init, BreakerInv
<1>3. Gov!RouteSafe
    BY DEF Gov!Init, Gov!RouteSafe, Gov!NoDecision
<1> QED BY <1>1, <1>2, <1>3 DEF GovInv

LEMMA BreakerTickInv == ASSUME Gov!GovernorAssumption, GovInv, Gov!Tick PROVE GovInv'
<1>1. Gov!TypeOK' /\ Gov!RouteSafe'
    BY DEF GovInv, Gov!TypeOK, Gov!RouteSafe, Gov!Tick
<1>2. clock \in Nat /\ clock' = clock + 1 /\ lastNow \in Nat
    BY DEF GovInv, Gov!TypeOK, Gov!Tick
<1>3. lastNow' <= clock'
    BY <1>2 DEF GovInv, BreakerInv, Gov!Tick
<1>4. ASSUME NEW p \in Gov!Provider
      PROVE  tail[p].n \in Nat /\ tail[p].at \in Nat /\ breakerCooldownMs \in Nat
    BY DEF GovInv, Gov!TypeOK, Gov!GovernorAssumption
<1>5. BreakerInv'
    BY <1>2, <1>3, <1>4 DEF GovInv, BreakerInv, Gov!Tick
<1> QED BY <1>1, <1>5 DEF GovInv

LEMMA RouteInv ==
    ASSUME Gov!GovernorAssumption, GovInv,
           NEW t \in Gov!Task, NEW rate \in Level, NEW budget \in Level,
           NEW s \in BOOLEAN, NEW w \in BOOLEAN,
           Gov!routeBuild(t, rate, budget, s, w)
    PROVE  GovInv'
<1> DEFINE h429 == Gov!latchHigh(high429, rate, anthropic429Hi, anthropic429Lo, FALSE)
           hBud == Gov!latchHigh(highBudget, budget, codexBudgetHi, codexBudgetLo, TRUE)
           tripped == {p \in Gov!Provider : Gov!breakerOpen(p)}
           pressed == tripped \cup (IF h429 THEN {"claude"} ELSE {})
                           \cup (IF hBud \/ s THEN {"codex"} ELSE {})
           target == Gov!select(Gov!rule(t, pressed, h429, hBud \/ s, w), t.hard, tripped, pressed)
<1>1. h429 \in BOOLEAN /\ hBud \in BOOLEAN
    <2>1. /\ rate \in Nat /\ budget \in Nat
          /\ {anthropic429Hi, anthropic429Lo, codexBudgetHi, codexBudgetLo} \subseteq Nat
        BY DEF Gov!GovernorAssumption
    <2>2. high429 \in BOOLEAN /\ highBudget \in BOOLEAN
        BY DEF GovInv, Gov!TypeOK
    <2>3. h429 \in BOOLEAN
        BY <2>1, <2>2, LatchType
    <2> QED BY <2>1, <2>2, <2>3, LatchType
<1>2. /\ high429' = h429 /\ highBudget' = hBud /\ openUntil' = Gov!Closed /\ lastNow' = clock
      /\ last' = [hard |-> t.hard, target |-> target, open |-> tripped, pressed |-> pressed]
      /\ UNCHANGED <<clock, fails, tail>>
    BY DEF Gov!routeBuild
<1>3. tripped \in SUBSET Gov!Provider /\ pressed \in SUBSET Gov!Provider /\ t.hard \in BOOLEAN
    BY DEF Gov!Provider, Gov!Task
<1>4. /\ target \in Gov!Target /\ target \notin tripped
      /\ t.hard => target # "codex"
      /\ ~t.hard => target \notin pressed
    <2> DEFINE r == Gov!rule(t, pressed, h429, hBud \/ s, w)
    <2> HIDE DEF h429, hBud, tripped
    <2>1. t.hard \in BOOLEAN /\ t.peakCritical \in BOOLEAN
        BY DEF Gov!Task
    <2>2. r \in Gov!Target /\ (t.hard => r = "claude")
        BY <2>1 DEF Gov!rule, Gov!Target, Gov!Provider
    <2>3. ASSUME ~t.hard, r = "claude", "claude" \in pressed
          PROVE  "codex" \notin pressed /\ "claude" \in tripped
        BY <1>1, <1>3, <2>1, <2>3 DEF Gov!rule, Gov!Provider
    <2>4. "queue" \notin pressed /\ tripped \subseteq pressed
        BY <1>3 DEF Gov!Provider
    <2>5. target = Gov!select(r, t.hard, tripped, pressed)
        OBVIOUS
    <2> HIDE DEF r, pressed, target
    <2> QED BY <1>3, <2>1, <2>2, <2>3, <2>4, <2>5 DEF Gov!select, Gov!Target, Gov!Provider
<1> HIDE DEF h429, hBud, tripped, pressed, target
<1>5. Gov!RouteSafe'
    BY <1>2, <1>4 DEF Gov!RouteSafe
<1>6. Gov!Closed \in [Gov!Provider -> Nat]
    BY DEF Gov!Closed, GovInv, Gov!TypeOK
<1>7. Gov!TypeOK'
    BY <1>1, <1>2, <1>3, <1>4, <1>6 DEF GovInv, Gov!TypeOK
<1>8. ASSUME NEW p \in Gov!Provider
      PROVE  /\ tail[p].n \in Nat /\ tail[p].at \in Nat /\ openUntil[p] \in Nat /\ clock \in Nat
             /\ breakerCooldownMs \in Nat
             /\ Gov!Closed[p] = IF openUntil[p] > clock THEN openUntil[p] ELSE 0
    BY DEF GovInv, Gov!TypeOK, Gov!GovernorAssumption, Gov!Closed, Gov!breakerOpen
<1>9. BreakerInv'
    BY <1>2, <1>8 DEF GovInv, Gov!TypeOK, BreakerInv
<1> QED BY <1>5, <1>7, <1>9 DEF GovInv

LEMMA OutcomeInv ==
    ASSUME Gov!GovernorAssumption, GovInv, NEW p \in Gov!Provider, NEW o \in {"ok", "shed", "429"},
           NEW fresh \in BOOLEAN, Gov!recordOutcome(p, o, fresh)
    PROVE  GovInv'
<1> DEFINE at == IF fresh THEN clock ELSE lastNow
           n == IF o = "ok" THEN 0 ELSE fails[p] + 1
<1>1. /\ clock \in Nat /\ lastNow \in Nat /\ at \in Nat /\ n \in Nat /\ at <= clock
      /\ fails[p] \in Nat /\ openUntil[p] \in Nat /\ tail[p].n \in Nat /\ tail[p].at \in Nat
      /\ breakerCooldownMs \in Nat /\ breakerConsecutiveFailures \in Nat \ {0}
      /\ fails[p] = tail[p].n
    BY DEF GovInv, Gov!TypeOK, BreakerInv, Gov!GovernorAssumption
<1>2. /\ lastNow' = at /\ UNCHANGED <<clock, high429, highBudget, last>>
      /\ fails' = [fails EXCEPT ![p] = n]
      /\ openUntil' = [openUntil EXCEPT ![p] =
             IF o = "ok" THEN 0
             ELSE IF n >= breakerConsecutiveFailures THEN at + breakerCooldownMs
                  ELSE openUntil[p]]
      /\ tail' = [tail EXCEPT ![p] = IF o = "ok" THEN [n |-> 0, at |-> 0]
                                     ELSE [n |-> tail[p].n + 1, at |-> at]]
    BY DEF Gov!recordOutcome
<1>3. Gov!TypeOK'
    BY <1>1, <1>2 DEF GovInv, Gov!TypeOK
<1>4. Gov!RouteSafe'
    BY <1>2 DEF GovInv, Gov!RouteSafe
<1>5. ASSUME NEW q \in Gov!Provider, q # p
      PROVE  fails'[q] = fails[q] /\ openUntil'[q] = openUntil[q] /\ tail'[q] = tail[q]
    BY <1>2, <1>5 DEF GovInv, Gov!TypeOK
<1>6. /\ fails'[p] = n
      /\ tail'[p].n = n
      /\ o # "ok" => tail'[p].at = at
      /\ openUntil'[p] = IF o = "ok" THEN 0
                         ELSE IF n >= breakerConsecutiveFailures THEN at + breakerCooldownMs
                              ELSE openUntil[p]
    BY <1>1, <1>2 DEF GovInv, Gov!TypeOK
<1>7. n < breakerConsecutiveFailures => openUntil'[p] = 0
    BY <1>1, <1>6 DEF GovInv, BreakerInv
<1>8. n >= breakerConsecutiveFailures => openUntil'[p] = tail'[p].at + breakerCooldownMs
    BY <1>1, <1>6
<1> HIDE DEF at, n
<1>9. BreakerInv'
    BY <1>1, <1>2, <1>5, <1>6, <1>7, <1>8 DEF GovInv, BreakerInv
<1> QED BY <1>3, <1>4, <1>9 DEF GovInv

\* The inductive step: one case for each way the state changes.
LEMMA GovStepInv == Gov!GovernorAssumption /\ GovInv /\ [Gov!Next]_Gov!vars => GovInv'
<1> SUFFICES ASSUME Gov!GovernorAssumption, GovInv, [Gov!Next]_Gov!vars PROVE GovInv'
    OBVIOUS
<1>1. CASE Gov!Tick
    BY <1>1, BreakerTickInv
<1>2. CASE \E t \in Gov!Task, rate \in Level, budget \in Level, s \in BOOLEAN, w \in BOOLEAN :
              Gov!routeBuild(t, rate, budget, s, w)
    BY <1>2, RouteInv
<1>3. CASE \E p \in Gov!Provider, o \in {"ok", "shed", "429"}, fresh \in BOOLEAN :
              Gov!recordOutcome(p, o, fresh)
    BY <1>3, OutcomeInv
<1>4. CASE UNCHANGED Gov!vars
    BY <1>4 DEF Gov!vars, GovInv, Gov!TypeOK, BreakerInv, Gov!RouteSafe
<1> QED BY <1>1, <1>2, <1>3, <1>4 DEF Gov!Next

\* A build never goes to an open breaker, a reserved task never to codex and no other task to a
\* provider under pressure, and a breaker is open exactly for the cooldown after enough failures
\* in a row, whatever the thresholds, the calls of routeBuild and recordOutcome and their clocks.
THEOREM GovernorHolds == Gov!Spec => []Gov!GovernorSafe
<1>1. Gov!Init => GovInv
    BY GovInitInv, GovernorAssume
<1>2. GovInv /\ [Gov!Next]_(Gov!vars) => GovInv'
    BY GovStepInv, GovernorAssume
<1>3. GovInv => Gov!GovernorSafe
    BY GovernorAssume, BreakerInvHonest DEF GovInv, Gov!GovernorSafe
<1> QED BY <1>1, <1>2, <1>3, PTL DEF Gov!Spec

\* The same of the governor among the other scenes of MCAgents.
THEOREM GovernorSafeHolds == MCSpec => []GovernorSafe
<1> DEFINE I == scene = "governor" => GovInv
<1>1. MCInit => I
    BY GovInitInv, GovernorAssume DEF MCInit
<1>2. I /\ [MCNext]_<<scene, vars, claudeVars, governorVars, guardVars>> => I'
    <2>1. CASE scene = "governor" /\ MCNext
        BY <2>1, GovStepInv, GovernorAssume DEF MCNext
    <2>2. CASE scene = "governor" /\ UNCHANGED <<scene, governorVars>>
        BY <2>2, GovStepInv, GovernorAssume DEF governorVars, Gov!vars
    <2>3. CASE scene # "governor" /\ UNCHANGED scene
        BY <2>3
    <2> QED BY <2>1, <2>2, <2>3 DEF MCNext
<1>3. I => GovernorSafe
    BY GovernorAssume, BreakerInvHonest DEF GovInv, Gov!GovernorSafe, GovernorSafe
<1> QED BY <1>1, <1>2, <1>3, PTL DEF MCSpec

-----------------------------------------------------------------------------
(* BuildGuard: GuardSound for every set of paths, every manifest and every pattern of edits,     *)
(* commits and failing git commands.  The invariant says what the guard already knows at each    *)
(* of its awaits while the worktree stands still.                                                *)


\* Where the guard is: before its first command it has seen nothing, and it has a verdict only
\* when it is over; git leaves out of a diff only names that are gone from HEAD.
PhaseInv ==
    /\ gpc = "off" => ~moved /\ unseen = {}
    /\ gpc = "status" => mode = "committed-range"
    /\ gpc # "over" => verdict = "none"
    /\ mode = "working-tree" => unseen = {} /\ unread = {}

\* What the changed files are, once asked for: all that would be published, but for old names of
\* renames and for files of which git names only the directory.
Seen(files) ==
    /\ Guard!Published \ (unseen \cup Guard!Hidden) \subseteq files
    /\ {Folder[p] : p \in Guard!Hidden} \subseteq files
ChangedInv ==
    ~moved /\ (gpc \in {"status", "read"} \/ verdict = "ok") =>
        /\ Seen(changed)
        /\ \A p \in unseen : head[p] = "absent"

\* What an empty list of violations stands for, once the names are checked: the files that are
\* left to read are the only ones that may still hold a secret.
CleanInv ==
    ~moved /\ (gpc = "read" \/ verdict = "ok") /\ viol = {} =>
        /\ changed \subseteq Manifest \ (Protected \cup Unsafe)
        /\ mode = "committed-range" => tree = head /\ index = head
        /\ \A p \in (Path \cap changed) \ (toread \cup unread) : Guard!PublishedText(p) # "secret"

GuardInv ==
    /\ Guard!TypeOK /\ PhaseInv /\ ChangedInv /\ CleanInv
    /\ verdict = "ok" => gpc = "over" /\ viol = {} /\ toread = {}

\* The names git may give are the files and their directories.
LEMMA NameFacts ==
    /\ Path \subseteq Guard!Name
    /\ \A p \in Path : Folder[p] \in Guard!Name /\ Guard!record(p) \in Guard!Name
    /\ \A p \in Path : Guard!record(p) # p => Guard!record(p) = Folder[p]
    /\ Guard!StatusNames \subseteq Guard!Name
<1>1. Path \subseteq Guard!Name /\ \A p \in Path : Folder[p] \in Guard!Name
    BY DEF Guard!Name
<1>2. \A p \in Path : Guard!record(p) \in Guard!Name
    BY <1>1 DEF Guard!record
<1>3. \A p \in Path : Guard!record(p) # p => Guard!record(p) = Folder[p]
    BY DEF Guard!record
<1> QED BY <1>1, <1>2, <1>3 DEF Guard!StatusNames, Guard!Untracked, Guard!Differs

\* git status tells of all that a commit of the worktree would publish, by name or by directory.
LEMMA StatusTells ==
    ASSUME mode = "working-tree" PROVE Seen(Guard!StatusNames)
<1>1. ASSUME NEW p \in Guard!Published, p \notin Guard!Hidden PROVE p \in Guard!StatusNames
    <2>1. p \in Path /\ (head[p] # tree[p] \/ head[p] # index[p])
        BY <1>1 DEF Guard!Published, Guard!Differs
    <2>2. CASE head[p] # index[p]
        BY <2>1, <2>2 DEF Guard!StatusNames, Guard!Differs
    <2>3. CASE head[p] = index[p] /\ p \notin Guard!Untracked
        BY <2>1, <2>3 DEF Guard!StatusNames, Guard!Differs
    <2>4. CASE head[p] = index[p] /\ p \in Guard!Untracked
        <3>1. p \notin Guard!Differs(head, index)
            BY <2>4 DEF Guard!Differs
        <3>2. Guard!record(p) = p
            BY <1>1, <2>4, <3>1 DEF Guard!Hidden
        <3> QED BY <2>4, <3>2 DEF Guard!StatusNames
    <2> QED BY <2>1, <2>2, <2>3, <2>4
<1>2. ASSUME NEW p \in Guard!Hidden PROVE Folder[p] \in Guard!StatusNames
    <2>1. p \in Guard!Untracked /\ Guard!record(p) # p /\ p \in Path
        BY <1>2 DEF Guard!Hidden, Guard!Untracked
    <2>2. Guard!record(p) = Folder[p]
        BY <2>1, NameFacts
    <2> QED BY <2>1, <2>2 DEF Guard!StatusNames
<1> QED BY <1>1, <1>2 DEF Seen

\* When git status has nothing to tell, the worktree and the index are what is committed.
LEMMA StatusClean ==
    ASSUME Guard!TypeOK, Guard!StatusNames = {} PROVE tree = head /\ index = head
<1>1. ASSUME NEW p \in Path PROVE head[p] = index[p] /\ index[p] = tree[p]
    <2>1. Guard!Untracked = {}
        BY DEF Guard!StatusNames
    <2>2. p \notin Guard!Differs(head, index) /\ p \notin Guard!Differs(index, tree)
        BY <2>1 DEF Guard!StatusNames
    <2> QED BY <2>2 DEF Guard!Differs
<1>2. head \in [Path -> Guard!Content] /\ index \in [Path -> Guard!Content]
      /\ tree \in [Path -> Guard!Content]
    BY DEF Guard!TypeOK
<1> QED BY <1>1, <1>2

LEMMA InvGuardSound == GuardInv => Guard!GuardSound
<1> SUFFICES ASSUME GuardInv, verdict = "ok", ~moved
             PROVE  /\ Guard!Published \ (unseen \cup Guard!Hidden)
                           \subseteq Manifest \ (Protected \cup Unsafe)
                    /\ {Folder[p] : p \in Guard!Hidden} \subseteq Manifest \ (Protected \cup Unsafe)
                    /\ \A p \in Guard!Published \ (unread \cup Guard!Hidden) :
                           Guard!PublishedText(p) # "secret"
                    /\ mode = "committed-range" => tree = head /\ index = head
    BY DEF Guard!GuardSound
<1>1. /\ Guard!Published \ (unseen \cup Guard!Hidden) \subseteq changed
      /\ {Folder[p] : p \in Guard!Hidden} \subseteq changed
      /\ \A p \in unseen : head[p] = "absent"
      /\ changed \subseteq Manifest \ (Protected \cup Unsafe)
      /\ mode = "committed-range" => tree = head /\ index = head
      /\ \A p \in (Path \cap changed) \ unread : Guard!PublishedText(p) # "secret"
    BY DEF GuardInv, ChangedInv, CleanInv, Seen
<1>2. ASSUME NEW p \in Guard!Published \ (unread \cup Guard!Hidden)
      PROVE  Guard!PublishedText(p) # "secret"
    <2>1. CASE p \in unseen
        <3>1. mode = "committed-range"
            BY <2>1 DEF GuardInv, PhaseInv, Guard!TypeOK
        <3> QED BY <1>1, <2>1, <3>1 DEF Guard!PublishedText
    <2>2. CASE p \notin unseen
        <3>1. p \in Path
            BY DEF Guard!Published, Guard!Differs
        <3> QED BY <1>1, <2>2, <3>1
    <2> QED BY <2>1, <2>2
<1> QED BY <1>1, <1>2

LEMMA GuardInitInv == Guard!Init => GuardInv
BY DEF Guard!Init, GuardInv, Guard!TypeOK, Guard!Content, PhaseInv, ChangedInv, CleanInv

\* No violation of the names means every name is allowed.
LEMMA NamesClean ==
    ASSUME NEW files, Guard!pathViolations(files) = {}
    PROVE  files \subseteq Manifest \ (Protected \cup Unsafe)
<1> SUFFICES ASSUME NEW p \in files PROVE p \in Manifest \ (Protected \cup Unsafe)
    OBVIOUS
<1>1. p \notin Unsafe
    <2> SUFFICES ASSUME p \in Unsafe PROVE FALSE
        OBVIOUS
    <2>1. [kind |-> "unsafe-path", path |-> p] \in Guard!pathViolations(files)
        BY DEF Guard!pathViolations
    <2> QED BY <2>1
<1>2. p \in Manifest
    <2> SUFFICES ASSUME p \notin Manifest PROVE FALSE
        OBVIOUS
    <2>1. [kind |-> "out-of-manifest", path |-> p] \in Guard!pathViolations(files)
        BY <1>1 DEF Guard!pathViolations
    <2> QED BY <2>1
<1>3. p \notin Protected
    <2> SUFFICES ASSUME p \in Protected PROVE FALSE
        OBVIOUS
    <2>1. [kind |-> "protected-path", path |-> p] \in Guard!pathViolations(files)
        BY <1>1 DEF Guard!pathViolations
    <2> QED BY <2>1
<1> QED BY <1>1, <1>2, <1>3

\* The violations of a set of names are records of the type of viol.
LEMMA NamesType ==
    ASSUME NEW files \in SUBSET Guard!Name
    PROVE  Guard!pathViolations(files) \in
               SUBSET [kind : {"unsafe-path", "out-of-manifest", "protected-path",
                               "dirty-worktree", "secret"}, path : Guard!Name]
BY DEF Guard!pathViolations

\* What the guard knows depends on the worktree as it is, on its own lists, and on no more.
LEMMA SameSight ==
    ASSUME UNCHANGED <<mode, head, base, index, tree>>
    PROVE  /\ Guard!Published' = Guard!Published /\ Guard!Hidden' = Guard!Hidden
           /\ Guard!StatusNames' = Guard!StatusNames
           /\ \A p \in Path : Guard!PublishedText(p)' = Guard!PublishedText(p)
<1>1. Guard!Untracked' = Guard!Untracked
    BY DEF Guard!Untracked
<1>2. \A p \in Path : Guard!record(p)' = Guard!record(p)
    BY DEF Guard!record
<1>3. Guard!Untracked \subseteq Path
    BY DEF Guard!Untracked
<1>4. Guard!Differs(head, index)' = Guard!Differs(head, index)
      /\ Guard!Differs(index, tree)' = Guard!Differs(index, tree)
    BY DEF Guard!Differs
<1>5. Guard!Published' = Guard!Published
    BY DEF Guard!Published, Guard!Differs
<1>6. Guard!Hidden' = Guard!Hidden
    BY <1>1, <1>2, <1>3, <1>4 DEF Guard!Hidden
<1>7. Guard!StatusNames' = Guard!StatusNames
    BY <1>1, <1>2, <1>3, <1>4 DEF Guard!StatusNames
<1> QED BY <1>5, <1>6, <1>7 DEF Guard!PublishedText

LEMMA WorkerInv == ASSUME GuardInv, Guard!Worker PROVE GuardInv'
<1>1. Guard!TypeOK'
    <2>1. head' \in [Path -> Guard!Content] /\ tree' \in [Path -> Guard!Content]
          /\ index' \in [Path -> Guard!Content]
        BY DEF GuardInv, Guard!TypeOK, Guard!Worker
    <2> QED BY <2>1 DEF GuardInv, Guard!TypeOK, Guard!Worker
<1>2. gpc # "off" => moved'
    BY DEF Guard!Worker
<1>3. gpc = "off" => verdict = "none" /\ ~moved'
    BY DEF GuardInv, PhaseInv, Guard!Worker
<1>4. PhaseInv' /\ ChangedInv' /\ CleanInv'
    BY <1>2, <1>3 DEF GuardInv, Guard!Worker, PhaseInv, ChangedInv, CleanInv
<1> QED BY <1>1, <1>4 DEF GuardInv, Guard!Worker

LEMMA BrokenInv == ASSUME GuardInv, Guard!Broken PROVE GuardInv'
<1>1. Guard!TypeOK'
    BY DEF GuardInv, Guard!TypeOK, Guard!Broken
<1>2. PhaseInv' /\ ChangedInv' /\ CleanInv'
    BY DEF GuardInv, Guard!Broken, PhaseInv, ChangedInv, CleanInv
<1> QED BY <1>1, <1>2 DEF GuardInv, Guard!Broken

LEMMA ChangedStepInv == ASSUME GuardInv, Guard!Changed PROVE GuardInv'
<1>1. /\ verdict = "none" /\ ~moved /\ unseen = {} /\ verdict' = verdict /\ moved' = moved
      /\ UNCHANGED <<mode, head, base, index, tree, unread>>
      /\ mode \in {"committed-range", "working-tree"}
    BY DEF GuardInv, PhaseInv, Guard!TypeOK, Guard!Changed
<1>2. CASE mode = "committed-range"
    <2>1. /\ unseen' \subseteq Guard!RenamedFrom(base, head)
          /\ changed' = Guard!Differs(base, head) \ unseen'
          /\ gpc' = "status" /\ toread' = {} /\ viol' = {}
        BY <1>2 DEF Guard!Changed
    <2>2. unseen' \subseteq Path /\ \A p \in unseen' : head'[p] = "absent"
        BY <1>1, <2>1 DEF Guard!RenamedFrom
    <2>3. Seen(changed)' /\ changed' \subseteq Guard!Name
        <3>1. Guard!Hidden' = {}
            BY <1>1, <1>2 DEF Guard!Hidden
        <3>2. Guard!Published' = Guard!Differs(base, head)
            BY <1>1, <1>2 DEF Guard!Published, Guard!Differs
        <3>3. Guard!Differs(base, head) \subseteq Guard!Name
            BY NameFacts DEF Guard!Differs
        <3> QED BY <2>1, <3>1, <3>2, <3>3 DEF Seen
    <2>4. Guard!TypeOK'
        BY <1>1, <2>1, <2>2, <2>3 DEF GuardInv, Guard!TypeOK, Guard!Changed
    <2>5. PhaseInv' /\ ChangedInv' /\ CleanInv'
        BY <1>1, <1>2, <2>1, <2>2, <2>3 DEF PhaseInv, ChangedInv, CleanInv
    <2> QED BY <1>1, <2>4, <2>5 DEF GuardInv
<1>3. CASE mode = "working-tree"
    <2>1. /\ changed' = Guard!StatusNames /\ unseen' = unseen
          /\ gpc' = "read" /\ toread' = changed' \ Unsafe /\ viol' = Guard!pathViolations(changed')
        BY <1>3 DEF Guard!Changed
    <2>2. Seen(changed)' /\ changed' \subseteq Guard!Name
        BY <1>1, <1>3, <2>1, StatusTells, SameSight, NameFacts DEF Seen
    <2>3. Guard!TypeOK'
        BY <1>1, <2>1, <2>2, NamesType DEF GuardInv, Guard!TypeOK, Guard!Changed
    <2>4. viol' = {} => changed' \subseteq Manifest \ (Protected \cup Unsafe)
        BY <2>1, NamesClean
    <2>5. PhaseInv' /\ ChangedInv'
        BY <1>1, <1>3, <2>1, <2>2 DEF GuardInv, PhaseInv, ChangedInv
    <2>6. CleanInv'
        BY <1>1, <1>3, <2>1, <2>4 DEF CleanInv
    <2> QED BY <1>1, <2>3, <2>5, <2>6 DEF GuardInv
<1> QED BY <1>1, <1>2, <1>3

LEMMA StatusInv == ASSUME GuardInv, Guard!Status PROVE GuardInv'
<1> DEFINE dirty == {[kind |-> "dirty-worktree", path |-> p] : p \in Guard!StatusNames}
<1>1. /\ gpc = "status" /\ gpc' = "read" /\ toread' = changed \ Unsafe
      /\ viol' = dirty \cup Guard!pathViolations(changed)
      /\ UNCHANGED <<mode, head, base, index, tree, changed, unseen, unread, verdict, moved>>
    BY DEF Guard!Status
<1>2. mode = "committed-range" /\ verdict = "none" /\ changed \subseteq Guard!Name
    BY <1>1 DEF GuardInv, PhaseInv, Guard!TypeOK
<1>3. Guard!TypeOK'
    <2>1. dirty \in SUBSET [kind : {"unsafe-path", "out-of-manifest", "protected-path",
                                    "dirty-worktree", "secret"}, path : Guard!Name]
        BY NameFacts
    <2> HIDE DEF dirty
    <2> QED BY <1>1, <1>2, <2>1, NamesType DEF GuardInv, Guard!TypeOK
<1>4. viol' = {} => tree = head /\ index = head
    <2> SUFFICES ASSUME viol' = {} PROVE Guard!StatusNames = {}
        BY StatusClean DEF GuardInv
    <2> SUFFICES ASSUME NEW p \in Guard!StatusNames PROVE FALSE
        OBVIOUS
    <2>1. [kind |-> "dirty-worktree", path |-> p] \in dirty
        OBVIOUS
    <2> QED BY <1>1, <2>1
<1>5. viol' = {} => changed' \subseteq Manifest \ (Protected \cup Unsafe)
    BY <1>1, NamesClean
<1> HIDE DEF dirty
<1>6. PhaseInv' /\ ChangedInv'
    <2>1. PhaseInv'
        BY <1>1, <1>2 DEF GuardInv, PhaseInv
    <2>2. ChangedInv'
        BY <1>1, <1>2, SameSight DEF GuardInv, ChangedInv, Seen
    <2> QED BY <2>1, <2>2
<1>7. CleanInv'
    BY <1>1, <1>2, <1>4, <1>5 DEF CleanInv
<1> QED BY <1>1, <1>2, <1>3, <1>6, <1>7 DEF GuardInv

LEMMA ScanInv == ASSUME GuardInv, NEW p \in Guard!Name, Guard!Scan(p) PROVE GuardInv'
<1>1. /\ gpc = "read" /\ p \in toread /\ toread' = toread \ {p}
      /\ viol' \in {viol, viol \cup {[kind |-> "secret", path |-> p]}}
      /\ p \in Path /\ Guard!PublishedText(p) = "secret" =>
             viol' = viol \cup {[kind |-> "secret", path |-> p]}
      /\ UNCHANGED <<mode, head, base, index, tree, gpc, changed, unseen, unread, verdict, moved>>
    BY DEF Guard!Scan, Guard!PublishedText
<1>2. verdict = "none"
    BY <1>1 DEF GuardInv, PhaseInv
<1>3. Guard!TypeOK'
    BY <1>1 DEF GuardInv, Guard!TypeOK
<1>4. PhaseInv' /\ ChangedInv'
    BY <1>1, SameSight DEF GuardInv, PhaseInv, ChangedInv, Seen
<1>5. viol' = {} => viol = {} /\ (p \in Path => Guard!PublishedText(p) # "secret")
    BY <1>1
<1>6. CleanInv'
    BY <1>1, <1>2, <1>5, SameSight DEF GuardInv, CleanInv
<1> QED BY <1>1, <1>2, <1>3, <1>4, <1>6 DEF GuardInv

LEMMA SkipInv == ASSUME GuardInv, NEW p \in Guard!Name, Guard!Skip(p) PROVE GuardInv'
<1>1. Guard!TypeOK'
    BY DEF GuardInv, Guard!TypeOK, Guard!Skip
<1>2. UNCHANGED <<mode, head, base, index, tree>>
    BY DEF Guard!Skip
<1>3. PhaseInv' /\ ChangedInv'
    BY <1>2, SameSight DEF GuardInv, PhaseInv, ChangedInv, Seen, Guard!Skip
<1>4. CleanInv'
    BY <1>2, SameSight DEF GuardInv, CleanInv, Guard!Skip
<1>5. verdict' # "ok"
    BY DEF GuardInv, PhaseInv, Guard!Skip
<1> QED BY <1>1, <1>3, <1>4, <1>5 DEF GuardInv

LEMMA VerdictInv == ASSUME GuardInv, Guard!Verdict PROVE GuardInv'
<1>1. Guard!TypeOK'
    BY DEF GuardInv, Guard!TypeOK, Guard!Verdict
<1>2. UNCHANGED <<mode, head, base, index, tree>>
    BY DEF Guard!Verdict
<1>3. PhaseInv' /\ ChangedInv'
    BY <1>2, SameSight DEF GuardInv, PhaseInv, ChangedInv, Seen, Guard!Verdict
<1>4. CleanInv'
    BY <1>2, SameSight DEF GuardInv, CleanInv, Guard!Verdict
<1> QED BY <1>1, <1>3, <1>4 DEF GuardInv, Guard!Verdict

LEMMA GuardStepInv == GuardInv /\ [Guard!Next]_Guard!gvars => GuardInv'
<1> SUFFICES ASSUME GuardInv, [Guard!Next]_Guard!gvars PROVE GuardInv'
    OBVIOUS
<1>1. CASE UNCHANGED Guard!gvars
    <2>1. UNCHANGED <<mode, head, base, index, tree>>
        BY <1>1 DEF Guard!gvars
    <2> QED BY <1>1, <2>1, SameSight DEF Guard!gvars, GuardInv, Guard!TypeOK, PhaseInv, ChangedInv,
            CleanInv, Seen
<1>2. CASE \E p \in Guard!Name : Guard!Scan(p) \/ Guard!Skip(p)
    BY <1>2, ScanInv, SkipInv
<1> QED BY <1>1, <1>2, WorkerInv, BrokenInv, ChangedStepInv, StatusInv, VerdictInv DEF Guard!Next

\* The guard's state keeps its types, violations included, over every sequence of commands.
THEOREM GuardTypeCorrect == Guard!Spec => []Guard!TypeOK
<1>1. GuardInv => Guard!TypeOK
    BY DEF GuardInv
<1> QED BY <1>1, GuardInitInv, GuardStepInv, PTL DEF Guard!Spec

\* A guard that passed, over a worktree that stood still, passed something that is in the
\* manifest, unprotected and without secrets, and left nothing dirty or staged, whatever the worker
\* did before and however many git commands failed; files of an untracked directory it judged by
\* the name of the directory alone.
THEOREM GuardHolds == Guard!Spec => []Guard!GuardSound
BY GuardInitInv, GuardStepInv, InvGuardSound, PTL DEF Guard!Spec

\* The same of the guard among the other scenes of MCAgents.
THEOREM GuardSoundHolds == MCSpec => []GuardSound
<1> DEFINE I == scene = "guard" => GuardInv
<1>1. MCInit => I
    BY GuardInitInv DEF MCInit
<1>2. I /\ [MCNext]_<<scene, vars, claudeVars, governorVars, guardVars>> => I'
    <2>1. CASE scene = "guard" /\ MCNext
        BY <2>1, GuardStepInv DEF MCNext
    <2>2. CASE scene = "guard" /\ UNCHANGED <<scene, guardVars>>
        BY <2>2, GuardStepInv DEF guardVars, Guard!gvars
    <2>3. CASE scene # "guard" /\ UNCHANGED scene
        BY <2>3
    <2> QED BY <2>1, <2>2, <2>3 DEF MCNext
<1>3. I => GuardSound
    BY InvGuardSound DEF GuardSound
<1> QED BY <1>1, <1>2, <1>3, PTL DEF MCSpec

-----------------------------------------------------------------------------
(* ClaudeGateway: PoolSafe for every load of jobs, every size of pool and thread map and every    *)
(* pattern of lost processes, time-outs and failed calls.  First the operators on a pool record,  *)
(* and what each of them leaves as it was.                                                        *)

keyOf(j) == Claude!tab(j).key
InPool == {"spawn", "turn"}
JobPc == {"new", "input", "accept", "acquire", "plan", "send", "resend", "delete", "failing",
          "done"} \cup InPool
Txt == Seq([u8 : Nat, js : Nat])
Session == [dead : BOOLEAN, gone : BOOLEAN, turns : Nat, inflight : Claude!Job \cup {NoOne},
            q : Seq(Claude!Job), armed : Seq(Claude!Job), served : SUBSET Claude!Job]
Sticking == {keyOf(j) : j \in Claude!Job} \X Nat
PoolRec == [sess : Seq(Session), idle : Seq(Nat), threads : Seq(Sticking), active : Nat,
            using : [Claude!Job -> Nat \cup {NoOne}], pc : [Claude!Job -> JobPc],
            text : [Claude!Job -> Txt]]

\* All but `dead` is as it was.
Kept(x, y) ==
    /\ y.gone = x.gone /\ y.turns = x.turns /\ y.inflight = x.inflight /\ y.q = x.q
    /\ y.armed = x.armed /\ y.served = x.served
SameUse(p, r) == r.using = p.using /\ r.pc = p.pc /\ r.active = p.active

\* The types of a pool's fields; sessions are numbered from 1.
LEMMA PoolFields ==
    ASSUME NEW p \in PoolRec
    PROVE  /\ p.sess \in Seq(Session) /\ p.idle \in Seq(Nat) /\ p.threads \in Seq(Sticking)
           /\ p.active \in Nat /\ p.using \in [Claude!Job -> Nat \cup {NoOne}]
           /\ p.pc \in [Claude!Job -> JobPc] /\ p.text \in [Claude!Job -> Txt]
           /\ DOMAIN p.sess = 1..Len(p.sess) /\ Len(p.sess) \in Nat
           /\ \A s \in DOMAIN p.sess : p.sess[s] \in Session
<1>1. p.sess \in Seq(Session) /\ p.idle \in Seq(Nat) /\ p.threads \in Seq(Sticking)
  BY DEF PoolRec
<1>2. /\ p.active \in Nat /\ p.using \in [Claude!Job -> Nat \cup {NoOne}]
      /\ p.pc \in [Claude!Job -> JobPc] /\ p.text \in [Claude!Job -> Txt]
  BY DEF PoolRec
<1> QED BY <1>1, <1>2

\* The types of a session's fields.
LEMMA SessionFields ==
    ASSUME NEW x \in Session
    PROVE  /\ x.dead \in BOOLEAN /\ x.gone \in BOOLEAN /\ x.turns \in Nat
           /\ x.inflight \in Claude!Job \cup {NoOne} /\ x.q \in Seq(Claude!Job)
           /\ x.armed \in Seq(Claude!Job) /\ x.served \in SUBSET Claude!Job
BY DEF Session

\* A pool with other sessions, with another idle list, with other threads.
LEMMA SessSet ==
    ASSUME NEW p \in PoolRec, NEW f \in Seq(Session), NEW r, r = [p EXCEPT !.sess = f]
    PROVE  /\ r \in PoolRec /\ r.sess = f /\ r.idle = p.idle /\ r.threads = p.threads
           /\ SameUse(p, r) /\ r.text = p.text
BY DEF PoolRec, SameUse

\* A pool with another idle list.
LEMMA IdleSet ==
    ASSUME NEW p \in PoolRec, NEW f \in Seq(Nat), NEW r, r = [p EXCEPT !.idle = f]
    PROVE  /\ r \in PoolRec /\ r.sess = p.sess /\ r.idle = f /\ r.threads = p.threads
           /\ SameUse(p, r) /\ r.text = p.text
BY DEF PoolRec, SameUse

\* A pool with another map of threads.
LEMMA ThreadsSet ==
    ASSUME NEW p \in PoolRec, NEW f \in Seq(Sticking), NEW r, r = [p EXCEPT !.threads = f]
    PROVE  /\ r \in PoolRec /\ r.sess = p.sess /\ r.idle = p.idle /\ r.threads = f
           /\ SameUse(p, r) /\ r.text = p.text
BY DEF PoolRec, SameUse

\* One session replaced.
LEMMA OneSet ==
    ASSUME NEW p \in PoolRec, NEW s \in DOMAIN p.sess, NEW y \in Session,
           NEW r, r = [p EXCEPT !.sess = [p.sess EXCEPT ![s] = y]]
    PROVE  /\ r \in PoolRec /\ r.idle = p.idle /\ r.threads = p.threads
           /\ SameUse(p, r) /\ r.text = p.text
           /\ DOMAIN r.sess = DOMAIN p.sess /\ r.sess[s] = y
           /\ \A n \in DOMAIN p.sess : n # s => r.sess[n] = p.sess[n]
           /\ Len(r.sess) = Len(p.sess)
<1> DEFINE f == [p.sess EXCEPT ![s] = y]
<1>1. p.sess \in Seq(Session)
  BY PoolFields
<1>2. /\ f \in Seq(Session) /\ DOMAIN f = DOMAIN p.sess /\ f[s] = y /\ Len(f) = Len(p.sess)
      /\ \A n \in DOMAIN p.sess : n # s => f[n] = p.sess[n]
  BY <1>1
<1> HIDE DEF f
<1>3. r = [p EXCEPT !.sess = f]
  BY DEF f
<1> QED BY <1>2, <1>3, SessSet

\* kill marks the sessions of S dead and changes nothing else.
LEMMA KillFacts ==
    ASSUME NEW p \in PoolRec, NEW S, NEW r, r = Claude!kill(p, S)
    PROVE  /\ r \in PoolRec /\ DOMAIN r.sess = DOMAIN p.sess /\ Len(r.sess) = Len(p.sess)
           /\ r.idle = p.idle /\ r.threads = p.threads /\ SameUse(p, r) /\ r.text = p.text
           /\ \A s \in DOMAIN p.sess :
                /\ r.sess[s] \in Session /\ Kept(p.sess[s], r.sess[s])
                /\ r.sess[s].dead <=> (p.sess[s].dead \/ s \in S)
<1> DEFINE f == [s \in DOMAIN p.sess |->
                    IF s \in S THEN [p.sess[s] EXCEPT !.dead = TRUE] ELSE p.sess[s]]
<1>1. p.sess \in Seq(Session) /\ DOMAIN p.sess = 1..Len(p.sess) /\ Len(p.sess) \in Nat
  BY PoolFields
<1>2. ASSUME NEW s \in DOMAIN p.sess PROVE p.sess[s] \in Session
  BY <1>1
<1>3. ASSUME NEW s \in DOMAIN p.sess
      PROVE  /\ f[s] \in Session /\ Kept(p.sess[s], f[s])
             /\ f[s].dead <=> (p.sess[s].dead \/ s \in S)
  <2>1. CASE s \in S
    BY <1>2, <2>1 DEF Session, Kept
  <2>2. CASE s \notin S
    BY <1>2, <2>2 DEF Kept
  <2> QED BY <2>1, <2>2
<1>4. r = [p EXCEPT !.sess = f]
  BY DEF Claude!kill
<1>5. DOMAIN f = DOMAIN p.sess /\ f = [i \in DOMAIN p.sess |-> f[i]]
  OBVIOUS
<1> HIDE DEF f
<1>6. f \in [1..Len(p.sess) -> Session]
  BY <1>1, <1>3, <1>5
<1>7. f \in Seq(Session) /\ Len(f) = Len(p.sess)
  BY <1>1, <1>6
<1>8. /\ r \in PoolRec /\ r.sess = f /\ r.idle = p.idle /\ r.threads = p.threads
      /\ SameUse(p, r) /\ r.text = p.text
  BY <1>4, <1>7, SessSet
<1>9. ASSUME NEW s \in DOMAIN p.sess
      PROVE  /\ r.sess[s] \in Session /\ Kept(p.sess[s], r.sess[s])
             /\ r.sess[s].dead <=> (p.sess[s].dead \/ s \in S)
  BY <1>3, <1>8, Zenon
<1> QED
  BY <1>5, <1>7, <1>8, <1>9, Zenon

\* finish: the job is settled and gives up its slot; a session without thread_key goes back to the
\* idle ones unless it is spent.
Spent(p, j) ==
    LET x == p.sess[p.using[j]]
    IN  keyOf(j) = NoOne /\ (x.dead \/ x.turns >= SESSION_MAX_TURNS)
Recycled(p, j) == keyOf(j) = NoOne /\ ~Spent(p, j)

\* What finish leaves: the slot given up, the job without a session, the session killed or idle.
LEMMA FinishFacts ==
    ASSUME NEW p \in PoolRec, NEW j \in Claude!Job, NEW t \in Txt,
           NEW s \in DOMAIN p.sess, p.using[j] = s,
           NEW r, r = Claude!finish(p, j, t)
    PROVE  /\ r \in PoolRec /\ DOMAIN r.sess = DOMAIN p.sess /\ Len(r.sess) = Len(p.sess)
           /\ r.threads = p.threads
           /\ Recycled(p, j) => r.idle = Append(p.idle, s)
           /\ ~Recycled(p, j) => r.idle = p.idle
           /\ r.active = (IF p.active > 0 THEN p.active - 1 ELSE 0)
           /\ r.using = [p.using EXCEPT ![j] = NoOne] /\ r.pc = [p.pc EXCEPT ![j] = "plan"]
           /\ \A n \in DOMAIN p.sess :
                /\ r.sess[n] \in Session /\ Kept(p.sess[n], r.sess[n])
                /\ r.sess[n].dead <=> (p.sess[n].dead \/ (n = s /\ Spent(p, j)))
<1> DEFINE a == IF p.active > 0 THEN p.active - 1 ELSE 0
           q == [p EXCEPT !.active = a, !.using[j] = NoOne, !.pc[j] = "plan", !.text[j] = t]
<1>1. a \in Nat
  BY PoolFields
<1>2. q = [p EXCEPT !.active = IF @ > 0 THEN @ - 1 ELSE 0, !.using[j] = NoOne,
                    !.pc[j] = "plan", !.text[j] = t]
  BY Zenon
<1> HIDE DEF a
<1>3. q \in PoolRec
  BY <1>1 DEF PoolRec, JobPc
<1>4. /\ q.sess = p.sess /\ q.idle = p.idle /\ q.threads = p.threads /\ q.active = a
      /\ q.using = [p.using EXCEPT ![j] = NoOne] /\ q.pc = [p.pc EXCEPT ![j] = "plan"]
  BY DEF PoolRec
<1>5. ASSUME NEW n \in DOMAIN p.sess
      PROVE  p.sess[n] \in Session /\ Kept(p.sess[n], p.sess[n])
  BY PoolFields DEF Kept
<1>6. s \in Nat /\ p.idle \in Seq(Nat) /\ Append(p.idle, s) \in Seq(Nat)
  BY PoolFields
<1>7. CASE keyOf(j) # NoOne
  <2>1. r = q
    BY <1>2, <1>7, Zenon DEF Claude!finish, keyOf
  <2>2. ~Spent(p, j) /\ ~Recycled(p, j)
    BY <1>7 DEF Spent, Recycled
  <2> HIDE DEF q
  <2> QED BY <1>3, <1>4, <1>5, <2>1, <2>2 DEF a
<1>8. CASE Spent(p, j)
  <2>1. r = Claude!kill(q, {s}) /\ ~Recycled(p, j)
    BY <1>2, <1>4, <1>8, Zenon DEF Claude!finish, keyOf, Spent, Recycled
  <2> HIDE DEF q
  <2> QED BY <1>3, <1>4, <1>8, <2>1, KillFacts DEF a, SameUse
<1>9. CASE Recycled(p, j)
  <2>1. r = [q EXCEPT !.idle = Append(@, s)]
    BY <1>2, <1>4, <1>9, Zenon DEF Claude!finish, keyOf, Spent, Recycled
  <2>2. ~Spent(p, j)
    BY <1>9 DEF Recycled
  <2> HIDE DEF q
  <2>3. r = [q EXCEPT !.idle = Append(p.idle, s)]
    BY <1>4, <2>1, Zenon
  <2> DEFINE g == Append(p.idle, s)
  <2>4. g \in Seq(Nat) /\ r = [q EXCEPT !.idle = g]
    BY <1>6, <2>3
  <2> HIDE DEF g
  <2>5. r \in PoolRec /\ r.sess = q.sess /\ r.idle = g /\ r.threads = q.threads /\ SameUse(q, r)
    BY <1>3, <2>4, IdleSet
  <2> QED BY <1>4, <1>5, <1>9, <2>2, <2>5 DEF a, g, SameUse
<1> QED BY <1>7, <1>8, <1>9 DEF Recycled

\* One element more at the end of a sequence.
LEMMA AppendFacts ==
    ASSUME NEW T, NEW u \in Seq(T), NEW a \in T
    PROVE  /\ Append(u, a) \in Seq(T) /\ DOMAIN Append(u, a) = (DOMAIN u) \cup {Len(u) + 1}
           /\ Len(u) + 1 \notin DOMAIN u /\ Append(u, a)[Len(u) + 1] = a
           /\ \A i \in DOMAIN u : Append(u, a)[i] = u[i]
OBVIOUS

\* What is left of a queue when its first entry is taken.
LEMMA TailFacts ==
    ASSUME NEW T, NEW u \in Seq(T), u # <<>>
    PROVE  /\ Tail(u) \in Seq(T) /\ Head(u) \in T /\ Head(u) = u[1] /\ 1 \in DOMAIN u
           /\ \A i \in DOMAIN Tail(u) :
                  i + 1 \in DOMAIN u /\ Tail(u)[i] = u[i + 1] /\ i \in Nat \ {0}
           /\ \A i \in DOMAIN u : i # 1 => i - 1 \in DOMAIN Tail(u) /\ Tail(u)[i - 1] = u[i]
OBVIOUS

\* The jobs in a sequence.
Among(j, q) == \E i \in DOMAIN q : q[i] = j

\* What finishQueued leaves: the queue empty, its jobs without a session, their slots given up.
LEMMA FinishQueuedFacts ==
    ASSUME NEW p \in PoolRec, NEW s \in DOMAIN p.sess,
           NEW r, r = Claude!finishQueued(p, s)
    PROVE  /\ r \in PoolRec /\ DOMAIN r.sess = DOMAIN p.sess /\ Len(r.sess) = Len(p.sess)
           /\ r.threads = p.threads /\ r.idle = p.idle
           /\ r.active = (IF p.active > Len(p.sess[s].q) THEN p.active - Len(p.sess[s].q) ELSE 0)
           /\ \A j \in Claude!Job :
                /\ Among(j, p.sess[s].q) => r.using[j] = NoOne /\ r.pc[j] = "plan"
                /\ ~Among(j, p.sess[s].q) => r.using[j] = p.using[j] /\ r.pc[j] = p.pc[j]
           /\ r.sess[s] = [p.sess[s] EXCEPT !.q = <<>>]
           /\ \A n \in DOMAIN p.sess : n # s => r.sess[n] = p.sess[n]
<1> DEFINE Q == Claude!ToSet(p.sess[s].q)
           a == IF p.active > Len(p.sess[s].q) THEN p.active - Len(p.sess[s].q) ELSE 0
           us == [j \in Claude!Job |-> IF j \in Q THEN NoOne ELSE p.using[j]]
           at == [j \in Claude!Job |-> IF j \in Q THEN "plan" ELSE p.pc[j]]
           tx == [j \in Claude!Job |-> IF j \in Q THEN <<>> ELSE p.text[j]]
           y == [p.sess[s] EXCEPT !.q = <<>>]
           f == [p.sess EXCEPT ![s] = y]
<1>1. p.sess[s] \in Session /\ p.sess[s].q \in Seq(Claude!Job) /\ Len(p.sess[s].q) \in Nat
  BY PoolFields, SessionFields
<1>2. y \in Session
  <2>1. <<>> \in Seq(Claude!Job)
    OBVIOUS
  <2> QED BY <1>1, <2>1 DEF Session
<1>3. a \in Nat
  BY <1>1, PoolFields
<1>4. \A j \in Claude!Job : j \in Q <=> Among(j, p.sess[s].q)
  BY DEF Claude!ToSet, Among
<1>5. <<>> \in Txt
  BY DEF Txt
<1>6. us \in [Claude!Job -> Nat \cup {NoOne}] /\ at \in [Claude!Job -> JobPc]
  BY PoolFields DEF JobPc
<1>7. tx \in [Claude!Job -> Txt]
  BY PoolFields, <1>5
<1>8. f \in Seq(Session)
  BY PoolFields, <1>2
<1>9. r = [p EXCEPT !.sess = f, !.active = a, !.using = us, !.pc = at, !.text = tx]
  BY Zenon DEF Claude!finishQueued
<1>10. f[s] = y /\ DOMAIN f = DOMAIN p.sess /\ Len(f) = Len(p.sess)
  BY PoolFields, <1>2
<1>11. \A n \in DOMAIN p.sess : n # s => f[n] = p.sess[n]
  BY PoolFields
<1>12. \A j \in Claude!Job :
          /\ us[j] = IF j \in Q THEN NoOne ELSE p.using[j]
          /\ at[j] = IF j \in Q THEN "plan" ELSE p.pc[j]
  OBVIOUS
<1> HIDE DEF f, a, us, at, tx, Q
<1>13. r \in PoolRec
  BY <1>3, <1>6, <1>7, <1>8, <1>9 DEF PoolRec
<1>14. /\ r.sess = f /\ r.idle = p.idle /\ r.threads = p.threads /\ r.active = a
       /\ r.using = us /\ r.pc = at
  BY <1>9 DEF PoolRec
<1>15. r.active = (IF p.active > Len(p.sess[s].q) THEN p.active - Len(p.sess[s].q) ELSE 0)
  BY <1>14 DEF a
<1>16. ASSUME NEW j \in Claude!Job
       PROVE  /\ Among(j, p.sess[s].q) => r.using[j] = NoOne /\ r.pc[j] = "plan"
              /\ ~Among(j, p.sess[s].q) => r.using[j] = p.using[j] /\ r.pc[j] = p.pc[j]
  BY <1>4, <1>12, <1>14
<1> QED BY <1>10, <1>11, <1>13, <1>14, <1>15, <1>16, Zenon

\* Pool r is p but for session s, which is y.
Alters(p, r, s, y) ==
    /\ r \in PoolRec /\ DOMAIN r.sess = DOMAIN p.sess /\ Len(r.sess) = Len(p.sess)
    /\ r.idle = p.idle /\ r.threads = p.threads /\ SameUse(p, r)
    /\ r.sess[s] = y /\ \A n \in DOMAIN p.sess : n # s => r.sess[n] = p.sess[n]

\* y is session x in the turn of job j, but for the queue, which is v.
Starts(x, y, j, v) ==
    /\ y \in Session /\ y.dead = x.dead /\ y.gone = x.gone /\ y.inflight = j
    /\ y.turns = x.turns + 1 /\ y.served = x.served \cup {j} /\ Among(j, y.armed)
    /\ y.q = v

\* startTurn alters session s alone, where job j is now in flight.
LEMMA StartFacts ==
    ASSUME NEW p \in PoolRec, NEW s \in DOMAIN p.sess, NEW j \in Claude!Job,
           NEW r, r = Claude!startTurn(p, s, j)
    PROVE  Alters(p, r, s, r.sess[s]) /\ Starts(p.sess[s], r.sess[s], j, p.sess[s].q)
<1> DEFINE x == p.sess[s]
           y == r.sess[s]
<1>1. x \in Session
  BY PoolFields
<1>2. x.armed \in Seq(Claude!Job) /\ x.served \in SUBSET Claude!Job /\ x.turns \in Nat
  BY <1>1, SessionFields
<1> DEFINE ar == Append(x.armed, j)
           sv == x.served \cup {j}
           z == [x EXCEPT !.inflight = j, !.turns = x.turns + 1, !.armed = ar, !.served = sv]
<1>3. ar \in Seq(Claude!Job) /\ sv \in SUBSET Claude!Job /\ x.turns + 1 \in Nat
  BY <1>2
<1>4. r = [p EXCEPT !.sess = [p.sess EXCEPT ![s] = z]]
  <2>1. z = [x EXCEPT !.inflight = j, !.turns = @ + 1, !.armed = Append(@, j),
                      !.served = @ \cup {j}]
    BY <1>1 DEF Session
  <2> HIDE DEF z
  <2> QED BY <2>1, Zenon DEF Claude!startTurn
<1> HIDE DEF ar, sv
<1>5. /\ z \in Session /\ z.dead = x.dead /\ z.gone = x.gone /\ z.q = x.q
      /\ z.inflight = j /\ z.turns = x.turns + 1 /\ z.armed = ar /\ z.served = sv
  BY <1>1, <1>3 DEF Session
<1> HIDE DEF z
<1>6. /\ r \in PoolRec /\ r.idle = p.idle /\ r.threads = p.threads
           /\ SameUse(p, r) /\ r.text = p.text
           /\ DOMAIN r.sess = DOMAIN p.sess /\ r.sess[s] = z
           /\ \A n \in DOMAIN p.sess : n # s => r.sess[n] = p.sess[n]
           /\ Len(r.sess) = Len(p.sess)
  BY <1>4, <1>5, OneSet
<1>7. Among(j, ar)
  BY <1>2, AppendFacts DEF ar, Among
<1> QED BY <1>5, <1>6, <1>7 DEF sv, Alters, Starts

-----------------------------------------------------------------------------
(* The invariant of the pool, a predicate on pool records, so that it can be stated of the pools  *)
(* between two operators of a step as well as of the state.                                       *)

Sticky(p, s) == \E i \in DOMAIN p.threads : p.threads[i][2] = s
IsIdle(p, s) == \E i \in DOMAIN p.idle : p.idle[i] = s
Unused(x) == x.turns = 0 /\ x.inflight = NoOne /\ x.q = <<>> /\ x.served = {}

\* A session in use is not idle or being warmed, and belongs to one job alone unless that job has
\* a thread_key.
UsingInv(p, w) == \A j \in Claude!Job : p.using[j] # NoOne =>
    /\ p.using[j] \in DOMAIN p.sess /\ p.pc[j] \in InPool
    /\ ~IsIdle(p, p.using[j]) /\ p.using[j] # w
    /\ p.pc[j] = "spawn" => ~Sticky(p, p.using[j]) /\ Unused(p.sess[p.using[j]])
    /\ p.pc[j] = "spawn" \/ keyOf(j) = NoOne =>
          \A k \in Claude!Job : p.using[k] = p.using[j] => k = j
WarmInv(p, w) == w # NoOne =>
    w \in DOMAIN p.sess /\ Unused(p.sess[w]) /\ ~IsIdle(p, w) /\ ~Sticky(p, w)
IdleInv(p) == \A i \in DOMAIN p.idle :
    /\ p.idle[i] \in DOMAIN p.sess /\ ~Sticky(p, p.idle[i])
    /\ \A k \in DOMAIN p.idle : p.idle[i] = p.idle[k] => i = k
    /\ p.sess[p.idle[i]].turns < SESSION_MAX_TURNS
    /\ \A j \in p.sess[p.idle[i]].served : keyOf(j) = NoOne
\* The map has one session of a key, and that session only jobs of the key.
StickyInv(p) == \A i \in DOMAIN p.threads :
    /\ p.threads[i][2] \in DOMAIN p.sess /\ p.threads[i][1] # NoOne
    /\ \A k \in DOMAIN p.threads :
          p.threads[i][1] = p.threads[k][1] \/ p.threads[i][2] = p.threads[k][2] => i = k
    /\ \A j \in p.sess[p.threads[i][2]].served : keyOf(j) = p.threads[i][1]
    /\ \A j \in Claude!Job : p.using[j] = p.threads[i][2] => keyOf(j) = p.threads[i][1]
\* The turn in flight and the queued ones are of jobs that use the session.
TurnOf(p, s, x) ==
    /\ x.gone => x.dead
    /\ x.inflight # NoOne =>
          /\ p.using[x.inflight] = s /\ p.pc[x.inflight] = "turn" /\ ~x.gone
          /\ x.inflight \in x.served /\ Among(x.inflight, x.armed)
    /\ \A i \in DOMAIN x.q :
          /\ p.using[x.q[i]] = s /\ p.pc[x.q[i]] = "turn" /\ keyOf(x.q[i]) # NoOne
          /\ x.q[i] # x.inflight
          /\ \A k \in DOMAIN x.q : x.q[i] = x.q[k] => i = k
TurnInv(p) == \A s \in DOMAIN p.sess : TurnOf(p, s, p.sess[s])
\* All whom a session has served or serves have one key.
ServedOf(p, s, x) ==
    /\ \A i, j \in x.served : keyOf(i) = keyOf(j)
    /\ \A i \in x.served, j \in Claude!Job : p.using[j] = s => keyOf(i) = keyOf(j)
    /\ \A i, j \in Claude!Job : p.using[i] = s /\ p.using[j] = s => keyOf(i) = keyOf(j)
    /\ Cardinality(x.served) <= x.turns
    /\ \A i \in x.served : keyOf(i) = NoOne => x.turns <= SESSION_MAX_TURNS
ServedInv(p) == \A s \in DOMAIN p.sess : ServedOf(p, s, p.sess[s])

PoolInv(p, w) ==
    UsingInv(p, w) /\ WarmInv(p, w) /\ IdleInv(p) /\ StickyInv(p) /\ TurnInv(p) /\ ServedInv(p)

\* Every session but e is dead, in use or kept somewhere; d: those that were overwritten in the map.
OwnedInv(p, w, d, e) ==
    /\ \A s \in DOMAIN p.sess :
          \/ s = e \/ p.sess[s].dead \/ s = w \/ IsIdle(p, s) \/ s \in d \/ Sticky(p, s)
          \/ \E j \in Claude!Job : p.using[j] = s
    /\ \A j \in Claude!Job : p.using[j] # NoOne /\ p.pc[j] = "turn" /\ keyOf(j) # NoOne =>
          p.sess[p.using[j]].dead \/ Sticky(p, p.using[j]) \/ p.using[j] \in d
\* Every job in the pool but x has a session, and while no turn was struck (st), the turns of every
\* session but o are in flight or queued behind one that is.
GoingInv(p, st, o, x) == \A j \in Claude!Job \ {x} :
    /\ p.pc[j] \in InPool => p.using[j] # NoOne
    /\ st = {} /\ p.pc[j] = "turn" /\ p.using[j] # o =>
          LET y == p.sess[p.using[j]] IN y.inflight # NoOne /\ (y.inflight = j \/ Among(j, y.q))
InThePool(p) == {j \in Claude!Job : p.pc[j] \in InPool}
Counted(p) == p.active = Cardinality(InThePool(p))

-----------------------------------------------------------------------------

\* Jobs are numbers, finitely many, and NoOne is none of them.
LEMMA SmallFacts ==
    ASSUME load \in Loads
    PROVE  /\ NoOne \notin Nat /\ Claude!Job \subseteq Nat /\ NoOne \notin Claude!Job
           /\ IsFiniteSet(Claude!Job) /\ SESSION_MAX_TURNS \in Nat \ {0}
           /\ \A j \in Claude!Job : Claude!tab(j).text \in Txt
<1>1. NoOne \notin Nat /\ SESSION_MAX_TURNS \in Nat \ {0}
  BY ClaudeAssume DEF Claude!ClaudeAssumption
<1>2. Claude!Job = 1..Len(load.tab) /\ \A j \in Claude!Job : Claude!tab(j).text \in Txt
  BY ClaudeAssume DEF Claude!ClaudeAssumption, Claude!Job, Claude!tab, Txt
<1>3. IsFiniteSet(1..Len(load.tab))
  BY FS_Interval
<1> QED BY <1>1, <1>2, <1>3

\* Whatever sessions are killed, the pool stays in order.
LEMMA KillKeeps ==
    ASSUME NEW p \in PoolRec, NEW w, PoolInv(p, w), NEW S, NEW r, r = Claude!kill(p, S)
    PROVE  PoolInv(r, w)
<1>1. /\ r \in PoolRec /\ DOMAIN r.sess = DOMAIN p.sess
      /\ r.idle = p.idle /\ r.threads = p.threads /\ SameUse(p, r)
      /\ \A s \in DOMAIN p.sess :
                /\ r.sess[s] \in Session /\ Kept(p.sess[s], r.sess[s])
                /\ p.sess[s].dead => r.sess[s].dead
  BY KillFacts
<1>2. UsingInv(r, w)
  BY <1>1 DEF PoolInv, UsingInv, SameUse, Kept, Unused, IsIdle, Sticky
<1>3. WarmInv(r, w)
  BY <1>1 DEF PoolInv, WarmInv, SameUse, Kept, Unused, IsIdle, Sticky
<1>4. IdleInv(r)
  BY <1>1 DEF PoolInv, IdleInv, SameUse, Kept, Sticky
<1>5. StickyInv(r)
  BY <1>1 DEF PoolInv, StickyInv, SameUse, Kept
<1>6. TurnInv(r)
  BY <1>1 DEF PoolInv, TurnInv, TurnOf, SameUse, Kept
<1>7. ServedInv(r)
  BY <1>1 DEF PoolInv, ServedInv, ServedOf, SameUse, Kept
<1> QED BY <1>2, <1>3, <1>4, <1>5, <1>6, <1>7 DEF PoolInv

\* Whatever sessions are killed, none is orphaned by it.
LEMMA KillOwned ==
    ASSUME NEW p \in PoolRec, NEW w, NEW d, NEW e, OwnedInv(p, w, d, e), UsingInv(p, w),
           NEW S, NEW r, r = Claude!kill(p, S)
    PROVE  OwnedInv(r, w, d, e)
<1>1. /\ DOMAIN r.sess = DOMAIN p.sess
      /\ r.idle = p.idle /\ r.threads = p.threads /\ SameUse(p, r)
      /\ \A s \in DOMAIN p.sess : p.sess[s].dead => r.sess[s].dead
  BY KillFacts
<1> QED BY <1>1 DEF OwnedInv, UsingInv, SameUse, IsIdle, Sticky

\* Whatever sessions are killed, the turns in flight and in queues stay there.
LEMMA KillGoing ==
    ASSUME NEW p \in PoolRec, NEW w, NEW st, NEW o, NEW x, GoingInv(p, st, o, x), UsingInv(p, w),
           NEW S, NEW r, r = Claude!kill(p, S)
    PROVE  GoingInv(r, st, o, x)
<1>1. /\ DOMAIN r.sess = DOMAIN p.sess /\ SameUse(p, r)
      /\ \A s \in DOMAIN p.sess : Kept(p.sess[s], r.sess[s])
  BY KillFacts
<1>2. ASSUME NEW j \in Claude!Job \ {x}
      PROVE  /\ r.pc[j] \in InPool => r.using[j] # NoOne
             /\ st = {} /\ r.pc[j] = "turn" /\ r.using[j] # o =>
                  /\ r.sess[r.using[j]].inflight # NoOne
                  /\ r.sess[r.using[j]].inflight = j \/ Among(j, r.sess[r.using[j]].q)
  BY <1>1 DEF GoingInv, UsingInv, SameUse, Kept, InPool
<1> QED BY <1>2 DEF GoingInv

\* y is session x after its turn in flight, whatever becomes of its ticks and its process.
Ends(x, y) ==
    /\ y \in Session /\ y.inflight = NoOne /\ y.q = x.q /\ y.turns = x.turns
    /\ y.served = x.served
    /\ y.gone => y.dead
    /\ x.dead => y.dead

\* A session without its turn in flight keeps the invariant but for that turn.
LEMMA EndKeeps ==
    ASSUME load \in Loads, NEW p \in PoolRec, NEW w, PoolInv(p, w),
           NEW s \in DOMAIN p.sess, NEW y, Ends(p.sess[s], y),
           NEW r, r = [p EXCEPT !.sess = [p.sess EXCEPT ![s] = y]],
           NEW d, NEW e, OwnedInv(p, w, d, e), NEW st, NEW x, GoingInv(p, st, NoOne, x)
    PROVE  /\ Alters(p, r, s, y) /\ PoolInv(r, w) /\ OwnedInv(r, w, d, e)
           /\ GoingInv(r, st, s, x)
<1>0. /\ y \in Session /\ y.inflight = NoOne /\ y.q = p.sess[s].q
      /\ y.turns = p.sess[s].turns /\ y.served = p.sess[s].served
      /\ y.gone => y.dead
      /\ p.sess[s].dead => y.dead
  BY DEF Ends
<1>1. /\ r \in PoolRec /\ DOMAIN r.sess = DOMAIN p.sess
      /\ r.idle = p.idle /\ r.threads = p.threads /\ SameUse(p, r)
      /\ r.sess[s] = y /\ Len(r.sess) = Len(p.sess)
      /\ \A n \in DOMAIN p.sess : n # s => r.sess[n] = p.sess[n]
  BY <1>0, OneSet
<1>2. \A n \in DOMAIN p.sess :
         /\ r.sess[n].turns = p.sess[n].turns /\ r.sess[n].q = p.sess[n].q
         /\ r.sess[n].served = p.sess[n].served
         /\ r.sess[n].inflight = NoOne \/ r.sess[n].inflight = p.sess[n].inflight
         /\ p.sess[n].dead => r.sess[n].dead
  BY <1>0, <1>1
<1>3. UsingInv(r, w)
  BY <1>1, <1>2 DEF PoolInv, UsingInv, SameUse, Unused, IsIdle, Sticky
<1>4. WarmInv(r, w)
  BY <1>1, <1>2 DEF PoolInv, WarmInv, SameUse, Unused, IsIdle, Sticky
<1>5. IdleInv(r)
  BY <1>1, <1>2 DEF PoolInv, IdleInv, SameUse, Sticky
<1>6. StickyInv(r)
  BY <1>1, <1>2 DEF PoolInv, StickyInv, SameUse
<1>7. TurnInv(r)
  <2>1. ASSUME NEW n \in DOMAIN r.sess PROVE TurnOf(r, n, r.sess[n])
    <3>1. n \in DOMAIN p.sess /\ TurnOf(p, n, p.sess[n])
      BY <1>1 DEF PoolInv, TurnInv
    <3>2. CASE n = s
      <4>1. \A i \in DOMAIN y.q : y.q[i] # NoOne
        BY <1>0, SessionFields, SmallFacts
      <4> QED BY <1>0, <1>1, <3>1, <3>2, <4>1, SMTT(40) DEF TurnOf, SameUse
    <3>3. CASE n # s
      BY <1>1, <3>1, <3>3 DEF TurnOf, SameUse
    <3> QED BY <3>2, <3>3
  <2> QED BY <2>1 DEF TurnInv
<1>8. ServedInv(r)
  BY <1>1, <1>2 DEF PoolInv, ServedInv, ServedOf, SameUse
<1>9. OwnedInv(r, w, d, e)
  BY <1>1, <1>2 DEF OwnedInv, PoolInv, UsingInv, SameUse, IsIdle, Sticky
<1>10. GoingInv(r, st, s, x)
  BY <1>1, <1>2 DEF GoingInv, PoolInv, UsingInv, SameUse, InPool
<1> QED BY <1>1, <1>3, <1>4, <1>5, <1>6, <1>7, <1>8, <1>9, <1>10 DEF PoolInv, Alters

\* Pool r is sound but for the turns of session o, and is p without job j on session s.
Finished(p, r, w, d, st, o, s, j) ==
    /\ r \in PoolRec /\ PoolInv(r, w) /\ OwnedInv(r, w, d, NoOne)
    /\ GoingInv(r, st, o, NoOne) /\ Counted(r)
    /\ DOMAIN r.sess = DOMAIN p.sess /\ Len(r.sess) = Len(p.sess)
    /\ Kept(p.sess[s], r.sess[s]) /\ r.using[j] = NoOne
    /\ p.sess[s].dead => r.sess[s].dead
    /\ \A k \in Claude!Job \ {j} : r.using[k] = p.using[k] /\ r.pc[k] = p.pc[k]

\* finish: job j, whose turn has ended, gives up its session.
LEMMA FinishKeeps ==
    ASSUME load \in Loads, NEW p \in PoolRec, NEW w, PoolInv(p, w),
           NEW j \in Claude!Job, NEW t \in Txt, NEW s \in DOMAIN p.sess,
           p.using[j] = s, p.pc[j] = "turn",
           p.sess[s].inflight # j, ~Among(j, p.sess[s].q),
           NEW r, r = Claude!finish(p, j, t),
           NEW d, OwnedInv(p, w, d, NoOne), NEW st, NEW o, GoingInv(p, st, o, j), Counted(p)
    PROVE  Finished(p, r, w, d, st, o, s, j)
<1> DEFINE x == p.sess[s]
<1>1. /\ r \in PoolRec /\ DOMAIN r.sess = DOMAIN p.sess /\ Len(r.sess) = Len(p.sess)
      /\ r.threads = p.threads
      /\ Recycled(p, j) => r.idle = Append(p.idle, s)
      /\ ~Recycled(p, j) => r.idle = p.idle
      /\ r.active = (IF p.active > 0 THEN p.active - 1 ELSE 0)
      /\ r.using = [p.using EXCEPT ![j] = NoOne] /\ r.pc = [p.pc EXCEPT ![j] = "plan"]
      /\ \A n \in DOMAIN p.sess :
                /\ r.sess[n] \in Session /\ Kept(p.sess[n], r.sess[n])
                /\ r.sess[n].dead <=> (p.sess[n].dead \/ (n = s /\ Spent(p, j)))
  <2> HIDE DEF x
  <2>1. p \in PoolRec /\ j \in Claude!Job /\ t \in Txt /\ s \in DOMAIN p.sess
    OBVIOUS
  <2>2. p.using[j] = s /\ r = Claude!finish(p, j, t)
    OBVIOUS
  <2> QED BY ONLY <2>1, <2>2, FinishFacts, SMTT(30)
<1>2. /\ \A k \in Claude!Job : k # j => r.using[k] = p.using[k] /\ r.pc[k] = p.pc[k]
      /\ r.using[j] = NoOne /\ r.pc[j] = "plan"
  BY <1>1, PoolFields
<1>3. NoOne \notin Nat /\ SESSION_MAX_TURNS \in Nat /\ NoOne \notin Claude!Job
  BY SmallFacts
<1>4a. ASSUME Recycled(p, j)
       PROVE  /\ r.idle \in Seq(Nat) /\ DOMAIN r.idle = (DOMAIN p.idle) \cup {Len(p.idle) + 1}
              /\ Len(p.idle) + 1 \notin DOMAIN p.idle /\ r.idle[Len(p.idle) + 1] = s
              /\ \A i \in DOMAIN p.idle : r.idle[i] = p.idle[i]
  <2>1. p.idle \in Seq(Nat) /\ s \in Nat /\ r.idle = Append(p.idle, s)
    BY PoolFields, <1>1, <1>4a
  <2> QED BY <2>1, AppendFacts
<1>4. \A n : IsIdle(r, n) <=> (IsIdle(p, n) \/ (Recycled(p, j) /\ n = s))
  <2>2. CASE Recycled(p, j)
    BY <1>4a, <2>2 DEF IsIdle
  <2>3. CASE ~Recycled(p, j)
    BY <1>1, <2>3 DEF IsIdle
  <2> QED BY <2>2, <2>3
<1>5. \A n : Sticky(r, n) <=> Sticky(p, n)
  BY <1>1 DEF Sticky
<1>6. \A n \in DOMAIN p.sess :
         /\ r.sess[n].turns = p.sess[n].turns /\ r.sess[n].q = p.sess[n].q
         /\ r.sess[n].served = p.sess[n].served /\ r.sess[n].inflight = p.sess[n].inflight
         /\ r.sess[n].gone = p.sess[n].gone /\ r.sess[n].armed = p.sess[n].armed
         /\ p.sess[n].dead => r.sess[n].dead
  BY <1>1 DEF Kept
<1>7. UsingInv(r, w)
  <2>1. ASSUME NEW k \in Claude!Job, r.using[k] # NoOne
        PROVE  /\ k # j /\ p.using[k] = r.using[k] /\ p.pc[k] = r.pc[k]
               /\ Recycled(p, j) => p.using[k] # s
    BY <1>2, <2>1, <1>3 DEF Recycled, PoolInv, UsingInv
  <2>2. ASSUME NEW k \in Claude!Job, r.using[k] # NoOne
        PROVE  /\ r.using[k] \in DOMAIN r.sess /\ r.pc[k] \in InPool
               /\ ~IsIdle(r, r.using[k]) /\ r.using[k] # w
               /\ r.pc[k] = "spawn" => ~Sticky(r, r.using[k]) /\ Unused(r.sess[r.using[k]])
    BY <1>1, <1>4, <1>5, <1>6, <2>1, <2>2 DEF PoolInv, UsingInv, Unused
  <2>3. ASSUME NEW k \in Claude!Job, r.using[k] # NoOne, r.pc[k] = "spawn" \/ keyOf(k) = NoOne,
               NEW i \in Claude!Job, r.using[i] = r.using[k]
        PROVE  i = k
    BY <1>2, <2>1, <2>3 DEF PoolInv, UsingInv
  <2> QED BY <2>2, <2>3 DEF UsingInv
<1>8. WarmInv(r, w)
  BY <1>1, <1>4, <1>5, <1>6, <1>3 DEF PoolInv, WarmInv, Unused, UsingInv
<1>9. IdleInv(r)
  <2>1. CASE ~Recycled(p, j)
    BY <1>1, <1>5, <1>6, <2>1 DEF PoolInv, IdleInv
  <2>2. CASE Recycled(p, j)
    <3>2. /\ ~IsIdle(p, s) /\ ~Sticky(p, s) /\ x.turns < SESSION_MAX_TURNS
          /\ \A k \in x.served : keyOf(k) = NoOne
      <4>1. x.turns \in Nat
        BY PoolFields, SessionFields
      <4>2. keyOf(j) = NoOne /\ ~(x.turns >= SESSION_MAX_TURNS)
        BY <2>2 DEF Recycled, Spent
      <4>3. \A k \in x.served : keyOf(k) = NoOne
        BY <4>2 DEF PoolInv, ServedInv, ServedOf
      <4>4. ~Sticky(p, s)
        BY <4>2 DEF PoolInv, StickyInv, Sticky
      <4>5. ~IsIdle(p, s)
        <5>1. s # NoOne
          BY <1>3, PoolFields
        <5> QED BY <5>1 DEF PoolInv, UsingInv
      <4>6. x.turns < SESSION_MAX_TURNS
        BY <1>3, <4>1, <4>2
      <4> QED BY <4>3, <4>4, <4>5, <4>6, Zenon
    <3>3. ASSUME NEW i \in DOMAIN r.idle
          PROVE  /\ r.idle[i] \in DOMAIN r.sess /\ ~Sticky(r, r.idle[i])
                 /\ r.sess[r.idle[i]].turns < SESSION_MAX_TURNS
                 /\ \A k \in r.sess[r.idle[i]].served : keyOf(k) = NoOne
      <4>1. CASE i \in DOMAIN p.idle
        <5>1. /\ p.idle[i] \in DOMAIN p.sess /\ ~Sticky(p, p.idle[i])
              /\ p.sess[p.idle[i]].turns < SESSION_MAX_TURNS
              /\ \A k \in p.sess[p.idle[i]].served : keyOf(k) = NoOne
          BY <4>1 DEF PoolInv, IdleInv
        <5>2. r.idle[i] = p.idle[i] /\ DOMAIN r.sess = DOMAIN p.sess
          BY <1>1, <1>4a, <2>2, <4>1
        <5> QED BY <5>1, <5>2, <1>5, <1>6
      <4>2. CASE i = Len(p.idle) + 1
        BY <1>1, <1>4a, <2>2, <1>5, <1>6, <3>2, <4>2
      <4> QED BY <1>4a, <2>2, <4>1, <4>2
    <3>4. ASSUME NEW i \in DOMAIN r.idle, NEW k \in DOMAIN r.idle, r.idle[i] = r.idle[k]
          PROVE  i = k
      <4>1. \A n \in DOMAIN p.idle : p.idle[n] # s
        BY <3>2 DEF IsIdle
      <4> QED BY <1>4a, <2>2, <3>4, <4>1 DEF PoolInv, IdleInv
    <3> QED BY <3>3, <3>4 DEF IdleInv
  <2> QED BY <2>1, <2>2
<1>10. StickyInv(r)
  <2>1. ASSUME NEW i \in DOMAIN r.threads
        PROVE  /\ r.threads[i][2] \in DOMAIN r.sess /\ r.threads[i][1] # NoOne
               /\ \A k \in DOMAIN r.threads :
                    r.threads[i][1] = r.threads[k][1] \/ r.threads[i][2] = r.threads[k][2] => i = k
               /\ \A k \in r.sess[r.threads[i][2]].served : keyOf(k) = r.threads[i][1]
    BY <1>1, <1>6 DEF PoolInv, StickyInv
  <2>2. ASSUME NEW i \in DOMAIN r.threads, NEW k \in Claude!Job, r.using[k] = r.threads[i][2]
        PROVE  keyOf(k) = r.threads[i][1]
    <3>1. r.threads[i][2] # NoOne
      BY <2>1, <1>1, <1>3, PoolFields
    <3> QED BY <1>1, <1>2, <2>2, <3>1 DEF PoolInv, StickyInv
  <2> QED BY <2>1, <2>2 DEF StickyInv
<1>11. TurnInv(r)
  <2>1. ASSUME NEW n \in DOMAIN r.sess PROVE TurnOf(r, n, r.sess[n])
    <3>1. n \in DOMAIN p.sess /\ TurnOf(p, n, p.sess[n]) /\ n # NoOne
      BY <1>1, <1>3, PoolFields DEF PoolInv, TurnInv
    <3>2. p.sess[n].inflight # j /\ ~Among(j, p.sess[n].q)
      BY <1>3, <3>1 DEF TurnOf, Among
    <3>3. p.sess[n].inflight \in Claude!Job \cup {NoOne} /\ p.sess[n].q \in Seq(Claude!Job)
      BY <3>1, PoolFields, SessionFields
    <3>4. \A i \in DOMAIN p.sess[n].q : p.sess[n].q[i] \in Claude!Job /\ p.sess[n].q[i] # j
      BY <3>2, <3>3 DEF Among
    <3>5. /\ r.sess[n].gone => r.sess[n].dead
          /\ r.sess[n].inflight # NoOne =>
                /\ r.using[r.sess[n].inflight] = n /\ r.pc[r.sess[n].inflight] = "turn"
                /\ ~r.sess[n].gone /\ r.sess[n].inflight \in r.sess[n].served
                /\ Among(r.sess[n].inflight, r.sess[n].armed)
      BY <1>2, <1>6, <3>1, <3>2, <3>3 DEF TurnOf
    <3>6. \A i \in DOMAIN r.sess[n].q :
             /\ r.using[r.sess[n].q[i]] = n /\ r.pc[r.sess[n].q[i]] = "turn"
             /\ keyOf(r.sess[n].q[i]) # NoOne /\ r.sess[n].q[i] # r.sess[n].inflight
             /\ \A k \in DOMAIN r.sess[n].q : r.sess[n].q[i] = r.sess[n].q[k] => i = k
      BY <1>2, <1>6, <3>1, <3>4 DEF TurnOf
    <3> QED BY <3>5, <3>6 DEF TurnOf
  <2> QED BY <2>1 DEF TurnInv
<1>12. ServedInv(r)
  <2>1. ASSUME NEW n \in DOMAIN r.sess PROVE ServedOf(r, n, r.sess[n])
    <3>1. n \in DOMAIN p.sess /\ ServedOf(p, n, p.sess[n]) /\ n # NoOne
      BY <1>1, <1>3, PoolFields DEF PoolInv, ServedInv
    <3>2. \A k \in Claude!Job : r.using[k] = n => p.using[k] = n
      BY <1>2, <3>1
    <3> QED BY <1>6, <3>1, <3>2 DEF ServedOf
  <2> QED BY <2>1 DEF ServedInv
<1>13. OwnedInv(r, w, d, NoOne)
  <2>1. ASSUME NEW n \in DOMAIN r.sess, n # s
        PROVE  \/ n = NoOne \/ r.sess[n].dead \/ n = w \/ IsIdle(r, n) \/ n \in d \/ Sticky(r, n)
               \/ \E k \in Claude!Job : r.using[k] = n
    <3>1. ASSUME NEW k \in Claude!Job, p.using[k] = n
          PROVE  r.using[k] = n
      BY <1>2, <2>1, <3>1
    <3> QED BY <1>1, <1>4, <1>5, <1>6, <2>1, <3>1 DEF OwnedInv
  <2>2. r.sess[s].dead \/ IsIdle(r, s) \/ s \in d \/ Sticky(r, s)
    <3>1. CASE keyOf(j) = NoOne
      BY <1>1, <1>4, <3>1 DEF Recycled
    <3>2. CASE keyOf(j) # NoOne
      BY <1>1, <1>3, <1>5, <1>6, <3>2, PoolFields, SMTT(40) DEF OwnedInv
    <3> QED BY <3>1, <3>2
  <2>3. ASSUME NEW k \in Claude!Job, r.using[k] # NoOne, r.pc[k] = "turn", keyOf(k) # NoOne
        PROVE  r.sess[r.using[k]].dead \/ Sticky(r, r.using[k]) \/ r.using[k] \in d
    <3>1. k # j /\ p.using[k] = r.using[k] /\ p.pc[k] = "turn"
      BY <1>2, <2>3
    <3>2. p.using[k] \in DOMAIN p.sess
      BY <2>3, <3>1 DEF PoolInv, UsingInv
    <3> QED BY <1>5, <1>6, <2>3, <3>1, <3>2 DEF OwnedInv
  <2> QED BY <2>1, <2>2, <2>3 DEF OwnedInv
<1>14. GoingInv(r, st, o, NoOne)
  <2>1. ASSUME NEW k \in Claude!Job
        PROVE  /\ r.pc[k] \in InPool => k # j /\ r.using[k] # NoOne
               /\ st = {} /\ r.pc[k] = "turn" /\ r.using[k] # o =>
                     /\ r.sess[r.using[k]].inflight # NoOne
                     /\ r.sess[r.using[k]].inflight = k \/ Among(k, r.sess[r.using[k]].q)
    <3>1. r.pc[k] \in InPool => k # j
      BY <1>2 DEF InPool
    <3>2. r.pc[k] = "turn" => k # j
      BY <1>2
    <3>3. CASE k # j
      BY <1>2, <1>6, <3>3 DEF GoingInv, PoolInv, UsingInv, InPool
    <3> QED BY <3>1, <3>2, <3>3
  <2> QED BY <2>1 DEF GoingInv
<1>15. Counted(r)
  <2>1. InThePool(r) = InThePool(p) \ {j} /\ j \in InThePool(p)
    BY <1>2 DEF InThePool, InPool
  <2>2. IsFiniteSet(InThePool(p))
    BY SmallFacts, FS_Subset DEF InThePool
  <2>3. Cardinality(InThePool(r)) = Cardinality(InThePool(p)) - 1
    BY <2>1, <2>2, FS_RemoveElement
  <2>4. Cardinality(InThePool(p)) \in Nat /\ Cardinality(InThePool(r)) \in Nat
    BY <2>1, <2>2, FS_CardinalityType, FS_RemoveElement
  <2> QED BY <1>1, <2>3, <2>4 DEF Counted
<1> QED
  BY <1>1, <1>2, <1>6, <1>7, <1>8, <1>9, <1>10, <1>11, <1>12, <1>13, <1>14,
     <1>15 DEF PoolInv, Finished

\* While no turn was struck, the turns of session s are in its queue.
Lined(p, st, s, j) ==
    st = {} => \A k \in Claude!Job \ {j} :
        p.using[k] = s /\ p.pc[k] = "turn" => Among(k, p.sess[s].q)

\* The jobs queued on a dead session are settled.
LEMMA FinishQueuedKeeps ==
    ASSUME load \in Loads, NEW p \in PoolRec, NEW w, PoolInv(p, w),
           NEW s \in DOMAIN p.sess, p.sess[s].dead, p.sess[s].inflight = NoOne,
           NEW r, r = Claude!finishQueued(p, s),
           NEW d, OwnedInv(p, w, d, NoOne), NEW st, GoingInv(p, st, s, NoOne), Counted(p),
           Lined(p, st, s, NoOne)
    PROVE  /\ r \in PoolRec /\ PoolInv(r, w) /\ OwnedInv(r, w, d, NoOne)
           /\ GoingInv(r, st, NoOne, NoOne) /\ Counted(r) /\ Len(r.sess) = Len(p.sess)
<1> DEFINE Q == p.sess[s].q
<1>0. /\ r \in PoolRec /\ DOMAIN r.sess = DOMAIN p.sess /\ Len(r.sess) = Len(p.sess)
      /\ r.threads = p.threads /\ r.idle = p.idle
      /\ r.active = (IF p.active > Len(Q) THEN p.active - Len(Q) ELSE 0)
      /\ \A j \in Claude!Job :
           /\ Among(j, Q) => r.using[j] = NoOne /\ r.pc[j] = "plan"
           /\ ~Among(j, Q) => r.using[j] = p.using[j] /\ r.pc[j] = p.pc[j]
      /\ r.sess[s] = [p.sess[s] EXCEPT !.q = <<>>]
      /\ \A n \in DOMAIN p.sess : n # s => r.sess[n] = p.sess[n]
  <2>1. p \in PoolRec /\ s \in DOMAIN p.sess
    OBVIOUS
  <2>2. r = Claude!finishQueued(p, s)
    OBVIOUS
  <2> QED BY ONLY <2>1, <2>2, FinishQueuedFacts, SMTT(30)
<1>1. /\ r \in PoolRec /\ DOMAIN r.sess = DOMAIN p.sess /\ Len(r.sess) = Len(p.sess)
      /\ r.threads = p.threads /\ r.idle = p.idle
      /\ r.active = (IF p.active > Len(Q) THEN p.active - Len(Q) ELSE 0)
  BY <1>0
<1>2. \A j \in Claude!Job :
         /\ Among(j, Q) => r.using[j] = NoOne /\ r.pc[j] = "plan"
         /\ ~Among(j, Q) => r.using[j] = p.using[j] /\ r.pc[j] = p.pc[j]
  BY <1>0
<1>3. /\ r.sess[s] = [p.sess[s] EXCEPT !.q = <<>>]
      /\ \A n \in DOMAIN p.sess : n # s => r.sess[n] = p.sess[n]
  BY <1>0
<1>4. /\ NoOne \notin Nat /\ NoOne \notin Claude!Job /\ s # NoOne
      /\ p.sess[s] \in Session /\ Q \in Seq(Claude!Job) /\ DOMAIN Q = 1..Len(Q) /\ Len(Q) \in Nat
  BY SmallFacts, PoolFields, SessionFields
<1>5. \A n \in DOMAIN p.sess :
         /\ r.sess[n].turns = p.sess[n].turns /\ r.sess[n].inflight = p.sess[n].inflight
         /\ r.sess[n].served = p.sess[n].served /\ r.sess[n].dead = p.sess[n].dead
         /\ r.sess[n].gone = p.sess[n].gone /\ r.sess[n].armed = p.sess[n].armed
         /\ r.sess[n].q = <<>> \/ (n # s /\ r.sess[n].q = p.sess[n].q)
  <2>1. /\ r.sess[s].turns = p.sess[s].turns /\ r.sess[s].inflight = p.sess[s].inflight
        /\ r.sess[s].served = p.sess[s].served /\ r.sess[s].dead = p.sess[s].dead
        /\ r.sess[s].gone = p.sess[s].gone /\ r.sess[s].armed = p.sess[s].armed
        /\ r.sess[s].q = <<>>
    BY <1>3, <1>4, ZenonT(60) DEF Session
  <2> QED BY <1>3, <2>1
<1>6. \A j \in Claude!Job : Among(j, Q) => p.using[j] = s /\ p.pc[j] = "turn"
  BY DEF Among, PoolInv, TurnInv, TurnOf
<1>7. \A j \in Claude!Job : r.using[j] # NoOne =>
         ~Among(j, Q) /\ p.using[j] = r.using[j] /\ p.pc[j] = r.pc[j]
  BY <1>2
<1>8. \A n : (IsIdle(r, n) <=> IsIdle(p, n)) /\ (Sticky(r, n) <=> Sticky(p, n))
  BY <1>1 DEF IsIdle, Sticky
<1>9. UsingInv(r, w)
  <2>1. ASSUME NEW k \in Claude!Job, r.using[k] # NoOne
        PROVE  /\ r.using[k] \in DOMAIN r.sess /\ r.pc[k] \in InPool
               /\ ~IsIdle(r, r.using[k]) /\ r.using[k] # w
               /\ r.pc[k] = "spawn" => ~Sticky(r, r.using[k]) /\ Unused(r.sess[r.using[k]])
    BY <1>1, <1>5, <1>7, <1>8, <2>1, SMTT(40) DEF PoolInv, UsingInv, Unused
  <2>2. ASSUME NEW k \in Claude!Job, r.using[k] # NoOne, r.pc[k] = "spawn" \/ keyOf(k) = NoOne,
               NEW i \in Claude!Job, r.using[i] = r.using[k]
        PROVE  i = k
    BY <1>7, <2>2 DEF PoolInv, UsingInv
  <2> QED BY <2>1, <2>2 DEF UsingInv
<1>10. WarmInv(r, w)
  BY <1>1, <1>5, <1>8 DEF PoolInv, WarmInv, Unused
<1>11. IdleInv(r)
  BY <1>1, <1>5, <1>8 DEF PoolInv, IdleInv
<1>12. StickyInv(r)
  <2>1. ASSUME NEW i \in DOMAIN r.threads
        PROVE  /\ r.threads[i][2] \in DOMAIN r.sess /\ r.threads[i][1] # NoOne
               /\ \A k \in DOMAIN r.threads :
                    r.threads[i][1] = r.threads[k][1] \/ r.threads[i][2] = r.threads[k][2] => i = k
               /\ \A k \in r.sess[r.threads[i][2]].served : keyOf(k) = r.threads[i][1]
    BY <1>1, <1>5 DEF PoolInv, StickyInv
  <2>2. ASSUME NEW i \in DOMAIN r.threads, NEW k \in Claude!Job, r.using[k] = r.threads[i][2]
        PROVE  keyOf(k) = r.threads[i][1]
    <3>1. r.threads[i][2] # NoOne
      BY <2>1, <1>1, <1>4, PoolFields
    <3> QED BY <1>1, <1>7, <2>2, <3>1 DEF PoolInv, StickyInv
  <2> QED BY <2>1, <2>2 DEF StickyInv
<1>13. TurnInv(r)
  <2>1. ASSUME NEW n \in DOMAIN r.sess PROVE TurnOf(r, n, r.sess[n])
    <3>1. n \in DOMAIN p.sess /\ TurnOf(p, n, p.sess[n])
      BY <1>1 DEF PoolInv, TurnInv
    <3>2. p.sess[n].inflight \in Claude!Job \cup {NoOne} /\ p.sess[n].q \in Seq(Claude!Job)
      BY <3>1, PoolFields, SessionFields
    <3>3. CASE n = s
      <4>1. r.sess[n].q = <<>> /\ r.sess[n].inflight = NoOne
        BY <1>5, <3>1, <3>3
      <4> QED BY <1>5, <3>1, <4>1 DEF TurnOf
    <3>4. CASE n # s
      <4>1. /\ p.sess[n].inflight # NoOne => ~Among(p.sess[n].inflight, Q)
            /\ \A i \in DOMAIN p.sess[n].q :
                  p.sess[n].q[i] \in Claude!Job /\ ~Among(p.sess[n].q[i], Q)
        BY <1>6, <3>1, <3>2, <3>4 DEF TurnOf
      <4>2. /\ r.sess[n] = p.sess[n]
            /\ p.sess[n].inflight # NoOne =>
                  r.using[p.sess[n].inflight] = n /\ r.pc[p.sess[n].inflight] = "turn"
        BY <1>2, <1>3, <3>1, <3>2, <3>4, <4>1 DEF TurnOf
      <4>3. \A i \in DOMAIN p.sess[n].q :
               r.using[p.sess[n].q[i]] = n /\ r.pc[p.sess[n].q[i]] = "turn"
        BY <1>2, <3>1, <4>1 DEF TurnOf
      <4> QED BY <3>1, <4>2, <4>3 DEF TurnOf
    <3> QED BY <3>3, <3>4
  <2> QED BY <2>1 DEF TurnInv
<1>14. ServedInv(r)
  <2>1. ASSUME NEW n \in DOMAIN r.sess PROVE ServedOf(r, n, r.sess[n])
    <3>1. n \in DOMAIN p.sess /\ ServedOf(p, n, p.sess[n]) /\ n # NoOne
      BY <1>1, <1>4, PoolFields DEF PoolInv, ServedInv
    <3>2. \A k \in Claude!Job : r.using[k] = n => p.using[k] = n
      BY <1>7, <3>1
    <3> QED BY <1>5, <3>1, <3>2 DEF ServedOf
  <2> QED BY <2>1 DEF ServedInv
<1>15. OwnedInv(r, w, d, NoOne)
  <2>1. ASSUME NEW n \in DOMAIN r.sess
        PROVE  \/ n = NoOne \/ r.sess[n].dead \/ n = w \/ IsIdle(r, n) \/ n \in d \/ Sticky(r, n)
               \/ \E k \in Claude!Job : r.using[k] = n
    <3>1. CASE n = s
      BY <1>5, <3>1
    <3>2. CASE n # s
      <4>1. \A k \in Claude!Job : p.using[k] = n => r.using[k] = n
        BY <1>2, <1>6, <3>2
      <4> QED BY <1>1, <1>5, <1>8, <4>1 DEF OwnedInv
    <3> QED BY <3>1, <3>2
  <2>2. ASSUME NEW k \in Claude!Job, r.using[k] # NoOne, r.pc[k] = "turn", keyOf(k) # NoOne
        PROVE  r.sess[r.using[k]].dead \/ Sticky(r, r.using[k]) \/ r.using[k] \in d
    <3>1. p.using[k] = r.using[k] /\ p.pc[k] = "turn" /\ p.using[k] \in DOMAIN p.sess
      BY <1>7, <2>2 DEF PoolInv, UsingInv
    <3> QED BY <1>5, <1>8, <2>2, <3>1 DEF OwnedInv
  <2> QED BY <2>1, <2>2 DEF OwnedInv
<1>16. GoingInv(r, st, NoOne, NoOne)
  <2>1. ASSUME NEW k \in Claude!Job
        PROVE  /\ r.pc[k] \in InPool => r.using[k] # NoOne
               /\ st = {} /\ r.pc[k] = "turn" /\ r.using[k] # NoOne =>
                     /\ r.sess[r.using[k]].inflight # NoOne
                     /\ r.sess[r.using[k]].inflight = k \/ Among(k, r.sess[r.using[k]].q)
    <3>1. CASE Among(k, Q)
      BY <1>2, <3>1 DEF InPool
    <3>2. CASE ~Among(k, Q)
      <4>1. r.using[k] = p.using[k] /\ r.pc[k] = p.pc[k] /\ k \in Claude!Job \ {NoOne}
        BY <1>2, <1>4, <3>2
      <4>2. st = {} /\ r.pc[k] = "turn" => r.using[k] # s
        BY <3>2, <4>1 DEF Lined
      <4>3. r.using[k] # NoOne => r.using[k] \in DOMAIN p.sess
        BY <4>1 DEF PoolInv, UsingInv
      <4> QED BY <1>3, <4>1, <4>2, <4>3 DEF GoingInv
    <3> QED BY <3>1, <3>2
  <2> QED BY <2>1 DEF GoingInv
<1>17. Counted(r)
  <2> DEFINE G == {k \in Claude!Job : Among(k, Q)}
  <2>1. InThePool(r) = InThePool(p) \ G /\ G \subseteq InThePool(p)
    BY <1>2, <1>6 DEF InThePool, InPool
  <2>2. IsFiniteSet(InThePool(p)) /\ IsFiniteSet(G)
    BY SmallFacts, FS_Subset DEF InThePool
  <2>3. Cardinality(InThePool(r)) = Cardinality(InThePool(p)) - Cardinality(G)
    <3>1. InThePool(p) \cap G = G
      BY <2>1
    <3> HIDE DEF G
    <3> QED BY <2>1, <2>2, <3>1, FS_Difference, ZenonT(60)
  <2>4. Cardinality(G) = Len(Q)
    <3>1. ExistsBijection(1..Len(Q), G)
      <4>1. Q \in [1..Len(Q) -> G]
        BY <1>4 DEF Among
      <4>2. \A i, k \in 1..Len(Q) : Q[i] = Q[k] => i = k
        BY <1>4 DEF PoolInv, TurnInv, TurnOf
      <4>3. \A g \in G : \E i \in 1..Len(Q) : Q[i] = g
        BY <1>4 DEF Among
      <4> HIDE DEF Q, G
      <4> QED BY <4>1, <4>2, <4>3 DEF ExistsBijection, Bijection, Injection, IsInjective, Surjection
    <3>2. IsFiniteSet(1..Len(Q)) /\ Cardinality(1..Len(Q)) = Len(Q)
      BY <1>4, FS_Interval
    <3> HIDE DEF Q, G
    <3> QED BY <2>2, <3>1, <3>2, FS_Bijection
  <2>5. Cardinality(InThePool(p)) \in Nat /\ Cardinality(InThePool(r)) \in Nat
    BY <2>1, <2>2, FS_CardinalityType, FS_Subset
  <2> QED BY <1>1, <1>4, <2>3, <2>4, <2>5 DEF Counted
<1> QED
  BY <1>1, <1>9, <1>10, <1>11, <1>12, <1>13, <1>14, <1>15, <1>16, <1>17 DEF PoolInv

-----------------------------------------------------------------------------
\* All of the invariant.
Sound(p, w, d, st) ==
    /\ p \in PoolRec /\ PoolInv(p, w) /\ OwnedInv(p, w, d, NoOne)
    /\ GoingInv(p, st, NoOne, NoOne) /\ Counted(p)

\* v holds jobs of queue u, each once, and not j.
Rest(u, j, v) ==
    \A i \in DOMAIN v :
        /\ Among(v[i], u) /\ v[i] # j
        /\ \A k \in DOMAIN v : v[i] = v[k] => i = k
\* While no turn was struck, the turns of session s but that of j are in v.
Behind(p, st, s, j, v) ==
    st = {} => \A k \in Claude!Job \ {j} :
        p.using[k] = s /\ p.pc[k] = "turn" => Among(k, v)

\* Job j may start its turn on session s, whose last turn has ended.
Ready(p, w, d, st, s, j) ==
    /\ PoolInv(p, w) /\ OwnedInv(p, w, d, NoOne) /\ GoingInv(p, st, s, NoOne) /\ Counted(p)
    /\ p.using[j] = s /\ p.pc[j] = "turn" /\ ~p.sess[s].dead
    /\ keyOf(j) = NoOne => p.sess[s].turns < SESSION_MAX_TURNS

\* The turn of job j, which uses session s, starts on it: y is the session in that turn.
LEMMA RunsKeeps ==
    ASSUME load \in Loads, NEW p \in PoolRec, NEW w, NEW d, NEW st,
           NEW s \in DOMAIN p.sess, NEW j \in Claude!Job, Ready(p, w, d, st, s, j),
           NEW v, Rest(p.sess[s].q, j, v), Behind(p, st, s, j, v),
           NEW y, Starts(p.sess[s], y, j, v), NEW r, Alters(p, r, s, y)
    PROVE  Sound(r, w, d, st)
<1> DEFINE x == p.sess[s]
<1>0. /\ PoolInv(p, w) /\ OwnedInv(p, w, d, NoOne) /\ GoingInv(p, st, s, NoOne) /\ Counted(p)
      /\ p.using[j] = s /\ p.pc[j] = "turn" /\ ~p.sess[s].dead
      /\ keyOf(j) = NoOne => p.sess[s].turns < SESSION_MAX_TURNS
      /\ y \in Session /\ y.dead = p.sess[s].dead /\ y.gone = p.sess[s].gone /\ y.inflight = j
      /\ y.turns = p.sess[s].turns + 1 /\ y.served = p.sess[s].served \cup {j}
      /\ Among(j, y.armed) /\ y.q = v
      /\ \A i \in DOMAIN v :
           /\ Among(v[i], p.sess[s].q) /\ v[i] # j
           /\ \A k \in DOMAIN v : v[i] = v[k] => i = k
      /\ st = {} => \A k \in Claude!Job \ {j} :
           p.using[k] = s /\ p.pc[k] = "turn" => Among(k, v)
  BY DEF Ready, Starts, Rest, Behind
<1>1. /\ r \in PoolRec /\ DOMAIN r.sess = DOMAIN p.sess
      /\ r.idle = p.idle /\ r.threads = p.threads /\ SameUse(p, r)
      /\ r.sess[s] = y
      /\ \A n \in DOMAIN p.sess : n # s => r.sess[n] = p.sess[n]
  BY DEF Alters
<1>2. /\ NoOne \notin Nat /\ s # NoOne /\ x \in Session /\ x.turns \in Nat
      /\ x.served \in SUBSET Claude!Job /\ IsFiniteSet(x.served) /\ j # NoOne
      /\ SESSION_MAX_TURNS \in Nat
  <2>1. /\ NoOne \notin Nat /\ s # NoOne /\ x \in Session /\ x.turns \in Nat
        /\ x.served \in SUBSET Claude!Job /\ j # NoOne /\ SESSION_MAX_TURNS \in Nat
    BY SmallFacts, PoolFields, SessionFields
  <2>2. IsFiniteSet(x.served)
    BY <1>0, <2>1, SmallFacts, FS_Subset
  <2> QED BY <2>1, <2>2
<1>3. ~IsIdle(p, s) /\ s # w /\ p.sess[s].gone = FALSE
  BY <1>0, <1>2, SessionFields DEF PoolInv, UsingInv, TurnInv, TurnOf
<1>4. \A k \in Claude!Job : p.using[k] = s => p.pc[k] # "spawn"
  BY <1>0, <1>2 DEF PoolInv, UsingInv
<1>5. /\ \A n : (IsIdle(r, n) <=> IsIdle(p, n)) /\ (Sticky(r, n) <=> Sticky(p, n))
      /\ r.using = p.using /\ r.pc = p.pc
  BY <1>0, <1>1 DEF IsIdle, Sticky, SameUse
<1> HIDE DEF x
<1>6. UsingInv(r, w)
  <2>1. ASSUME NEW k \in Claude!Job, r.using[k] # NoOne
        PROVE  /\ r.using[k] \in DOMAIN r.sess /\ r.pc[k] \in InPool
               /\ ~IsIdle(r, r.using[k]) /\ r.using[k] # w
               /\ r.pc[k] = "spawn" => ~Sticky(r, r.using[k]) /\ Unused(r.sess[r.using[k]])
    <3>1. p.using[k] \in DOMAIN p.sess /\ r.using[k] = p.using[k]
      BY <1>0, <1>5, <2>1 DEF PoolInv, UsingInv
    <3> QED BY <1>0, <1>1, <1>4, <1>5, <2>1, <3>1 DEF PoolInv, UsingInv
  <2>2. ASSUME NEW k \in Claude!Job, r.using[k] # NoOne, r.pc[k] = "spawn" \/ keyOf(k) = NoOne,
               NEW i \in Claude!Job, r.using[i] = r.using[k]
        PROVE  i = k
    BY <1>0, <1>5, <2>2 DEF PoolInv, UsingInv
  <2> QED BY <2>1, <2>2 DEF UsingInv
<1>7. WarmInv(r, w)
  BY <1>0, <1>1, <1>3, <1>5 DEF PoolInv, WarmInv
<1>8. IdleInv(r)
  <2>1. \A i \in DOMAIN p.idle : p.idle[i] # s
    BY <1>0, <1>3 DEF IsIdle
  <2> QED BY <1>0, <1>1, <1>5, <2>1 DEF PoolInv, IdleInv
<1>9. StickyInv(r)
  <2>1. ASSUME NEW i \in DOMAIN p.threads
        PROVE  \A k \in r.sess[p.threads[i][2]].served : keyOf(k) = p.threads[i][1]
    <3>1. CASE p.threads[i][2] = s
      <4>1. keyOf(j) = p.threads[i][1]
        BY <1>0, <3>1 DEF PoolInv, StickyInv
      <4> QED BY <1>0, <1>1, <3>1, <4>1 DEF PoolInv, StickyInv
    <3>2. CASE p.threads[i][2] # s
      BY <1>0, <1>1, <3>2 DEF PoolInv, StickyInv
    <3> QED BY <1>0, <3>1, <3>2
  <2> QED BY <1>0, <1>1, <1>5, <2>1 DEF PoolInv, StickyInv
<1>10. TurnInv(r)
  <2>1. TurnOf(r, s, y)
    <3>1. TurnOf(p, s, p.sess[s])
      BY <1>0 DEF PoolInv, TurnInv
    <3>2. \A i \in DOMAIN y.q :
             p.using[y.q[i]] = s /\ p.pc[y.q[i]] = "turn" /\ keyOf(y.q[i]) # NoOne
      BY <1>0, <3>1 DEF TurnOf, Among
    <3> QED BY <1>0, <1>3, <1>5, <3>1, <3>2 DEF TurnOf
  <2>2. ASSUME NEW n \in DOMAIN p.sess, n # s PROVE TurnOf(r, n, p.sess[n])
    BY <1>0, <1>5, SMTT(40) DEF PoolInv, TurnInv, TurnOf
  <2> QED BY <1>1, <2>1, <2>2 DEF TurnInv
<1>11. ServedInv(r)
  <2>1. ServedOf(r, s, y)
    <3>1. ServedOf(p, s, x)
      BY <1>0 DEF PoolInv, ServedInv, x
    <3>2. /\ \A a \in x.served : keyOf(a) = keyOf(j)
          /\ \A a \in Claude!Job : p.using[a] = s => keyOf(a) = keyOf(j)
      BY <1>0, <3>1 DEF ServedOf
    <3>3. \A a, b \in y.served : keyOf(a) = keyOf(b)
      BY <1>0, <3>2 DEF x
    <3>4. \A a \in y.served, b \in Claude!Job : r.using[b] = s => keyOf(a) = keyOf(b)
      BY <1>0, <1>5, <3>2 DEF x
    <3>5. \A a, b \in Claude!Job : r.using[a] = s /\ r.using[b] = s => keyOf(a) = keyOf(b)
      BY <1>0, <1>5, <3>2
    <3>6. Cardinality(y.served) <= y.turns
      <4>1. Cardinality(x.served) <= x.turns /\ Cardinality(x.served) \in Nat
        BY <1>0, <1>2, <3>1, FS_CardinalityType DEF ServedOf
      <4>2. \/ Cardinality(x.served \cup {j}) = Cardinality(x.served)
            \/ Cardinality(x.served \cup {j}) = Cardinality(x.served) + 1
        BY <1>2, FS_AddElement
      <4>3. y.served = x.served \cup {j} /\ y.turns = x.turns + 1
        BY <1>0 DEF x
      <4>4. x.turns \in Nat
        BY <1>0, <1>2
      <4>5. CASE Cardinality(y.served) = Cardinality(x.served)
        BY ONLY <4>1, <4>3, <4>4, <4>5
      <4>6. CASE Cardinality(y.served) = Cardinality(x.served) + 1
        BY ONLY <4>1, <4>3, <4>4, <4>6
      <4>7. \/ Cardinality(y.served) = Cardinality(x.served)
            \/ Cardinality(y.served) = Cardinality(x.served) + 1
        BY ONLY <4>2, <4>3, Zenon
      <4> QED BY ONLY <4>5, <4>6, <4>7, Zenon
    <3>7. \A a \in y.served : keyOf(a) = NoOne => y.turns <= SESSION_MAX_TURNS
      <4>1. \A a \in y.served : keyOf(a) = keyOf(j)
        BY <1>0, <3>2 DEF x
      <4>2. keyOf(j) = NoOne => y.turns <= SESSION_MAX_TURNS
        BY <1>0, <1>2 DEF x
      <4> QED BY <1>0, <4>1, <4>2
    <3> QED BY <1>0, <3>3, <3>4, <3>5, <3>6, <3>7 DEF ServedOf
  <2>2. ASSUME NEW n \in DOMAIN p.sess, n # s PROVE ServedOf(r, n, p.sess[n])
    BY <1>0, <1>5 DEF PoolInv, ServedInv, ServedOf
  <2> QED BY <1>1, <2>1, <2>2 DEF ServedInv
<1>12. \A n \in DOMAIN p.sess : r.sess[n].dead = p.sess[n].dead
  BY <1>0, <1>1
<1>13. OwnedInv(r, w, d, NoOne)
  BY <1>0, <1>1, <1>5, <1>12 DEF OwnedInv, PoolInv, UsingInv
<1>14. GoingInv(r, st, NoOne, NoOne)
  <2>1. ASSUME NEW k \in Claude!Job
        PROVE  /\ r.pc[k] \in InPool => r.using[k] # NoOne
               /\ st = {} /\ r.pc[k] = "turn" /\ r.using[k] # NoOne =>
                     /\ r.sess[r.using[k]].inflight # NoOne
                     /\ r.sess[r.using[k]].inflight = k \/ Among(k, r.sess[r.using[k]].q)
    <3>0. k \in Claude!Job \ {NoOne}
      BY SmallFacts
    <3>1. CASE p.using[k] = s
      BY <1>0, <1>1, <1>2, <1>5, <3>1
    <3>2. CASE p.using[k] # s
      <4>1. p.using[k] # NoOne => p.using[k] \in DOMAIN p.sess
        BY <1>0 DEF PoolInv, UsingInv
      <4> QED BY <1>0, <1>1, <1>5, <3>0, <3>2, <4>1 DEF GoingInv
    <3> QED BY <1>0, <3>1, <3>2
  <2> QED BY <2>1 DEF GoingInv
<1>15. Counted(r)
  BY <1>0, <1>1 DEF Counted, InThePool, SameUse
<1> QED
  BY <1>1, <1>6, <1>7, <1>8, <1>9, <1>10, <1>11, <1>13, <1>14, <1>15 DEF Sound, PoolInv, Alters

\* The settled turn of session s lets its queue go on.
LEMMA AdvanceKeeps ==
    ASSUME load \in Loads, NEW p \in PoolRec, NEW w, PoolInv(p, w),
           NEW s \in DOMAIN p.sess, p.sess[s].inflight = NoOne,
           NEW r, r = Claude!advance(p, s),
           NEW d, OwnedInv(p, w, d, NoOne), NEW st, GoingInv(p, st, s, NoOne), Counted(p),
           Lined(p, st, s, NoOne)
    PROVE  Sound(r, w, d, st)
<1> DEFINE x == p.sess[s]
           u == x.q
<1>1. /\ NoOne \notin Claude!Job /\ s # NoOne /\ x \in Session /\ u \in Seq(Claude!Job)
      /\ x.turns \in Nat /\ x.armed \in Seq(Claude!Job) /\ x.served \in SUBSET Claude!Job
  BY SmallFacts, PoolFields, SessionFields
<1>2. CASE u = <<>>
  <2>1. r = p
    BY <1>2 DEF Claude!advance
  <2>2. GoingInv(p, st, NoOne, NoOne)
    <3>1. ASSUME NEW k \in Claude!Job
          PROVE  /\ p.pc[k] \in InPool => p.using[k] # NoOne
                 /\ st = {} /\ p.pc[k] = "turn" =>
                       /\ p.sess[p.using[k]].inflight # NoOne
                       /\ p.sess[p.using[k]].inflight = k \/ Among(k, p.sess[p.using[k]].q)
      <4>1. k \in Claude!Job \ {NoOne} /\ ~Among(k, u)
        BY <1>1, <1>2 DEF Among
      <4>2. st = {} /\ p.pc[k] = "turn" => p.using[k] # s
        BY <4>1 DEF Lined
      <4> QED BY <4>1, <4>2 DEF GoingInv
    <3> QED BY <3>1 DEF GoingInv
  <2> QED BY <2>1, <2>2 DEF Sound
<1>3. CASE u # <<>> /\ x.dead
  <2>1. r = Claude!finishQueued(p, s)
    BY <1>3 DEF Claude!advance
  <2> QED BY <1>3, <2>1, FinishQueuedKeeps DEF Sound
<1>4. CASE u # <<>> /\ ~x.dead
  <2> DEFINE j == Head(u)
             v == Tail(u)
             z == [x EXCEPT !.q = v]
             p1 == [p EXCEPT !.sess = [p.sess EXCEPT ![s] = z]]
  <2>1. /\ v \in Seq(Claude!Job) /\ j \in Claude!Job /\ j = u[1] /\ 1 \in DOMAIN u
        /\ \A i \in DOMAIN v : i + 1 \in DOMAIN u /\ v[i] = u[i + 1] /\ i \in Nat \ {0}
        /\ \A i \in DOMAIN u : i # 1 => i - 1 \in DOMAIN v /\ v[i - 1] = u[i]
    BY <1>1, <1>4, TailFacts
  <2>2. r = Claude!startTurn(p1, s, j)
    <3>1. [p EXCEPT !.sess[s].q = Tail(@)] = p1
      BY Zenon
    <3> QED BY <1>4, <3>1, Zenon DEF Claude!advance
  <2> HIDE DEF j, v
  <2>3. /\ z \in Session /\ z.q = v /\ z.dead = x.dead /\ z.gone = x.gone
        /\ z.inflight = x.inflight /\ z.turns = x.turns /\ z.armed = x.armed
        /\ z.served = x.served
    BY <1>1, <2>1 DEF Session
  <2> HIDE DEF z
  <2>4. /\ p1 \in PoolRec /\ p1.idle = p.idle /\ p1.threads = p.threads
        /\ SameUse(p, p1) /\ p1.text = p.text
        /\ DOMAIN p1.sess = DOMAIN p.sess /\ p1.sess[s] = z
        /\ \A n \in DOMAIN p.sess : n # s => p1.sess[n] = p.sess[n]
        /\ Len(p1.sess) = Len(p.sess)
    BY <2>3, OneSet
  <2> HIDE DEF p1
  <2>5. Alters(p1, r, s, r.sess[s]) /\ Starts(z, r.sess[s], j, v)
    <3>1. p1 \in PoolRec /\ s \in DOMAIN p1.sess /\ j \in Claude!Job
      BY <2>1, <2>4
    <3>2. Alters(p1, r, s, r.sess[s]) /\ Starts(p1.sess[s], r.sess[s], j, p1.sess[s].q)
      BY ONLY <2>2, <3>1, StartFacts, SMTT(30)
    <3> QED BY <2>3, <2>4, <3>2
  <2>6. Alters(p, r, s, r.sess[s])
    BY <2>4, <2>5 DEF Alters, SameUse
  <2>7. Starts(p.sess[s], r.sess[s], j, v)
    BY <2>3, <2>5 DEF Starts
  <2>8. TurnOf(p, s, p.sess[s])
    BY DEF PoolInv, TurnInv
  <2>9. p.using[j] = s /\ p.pc[j] = "turn" /\ keyOf(j) # NoOne
    BY <2>1, <2>8 DEF TurnOf
  <2>10. Rest(p.sess[s].q, j, v)
    <3>1. ASSUME NEW i \in DOMAIN v
          PROVE  /\ i + 1 \in DOMAIN u /\ v[i] = u[i + 1] /\ i \in Nat \ {0}
                 /\ i + 1 # 1
      BY <2>1
    <3>2. \A i, k \in DOMAIN u : u[i] = u[k] => i = k
      BY <2>8 DEF TurnOf
    <3>3. ASSUME NEW i \in DOMAIN v
          PROVE  Among(v[i], p.sess[s].q) /\ v[i] # j
      BY <2>1, <3>1, <3>2 DEF Among
    <3>4. ASSUME NEW i \in DOMAIN v, NEW k \in DOMAIN v, v[i] = v[k]
          PROVE  i = k
      <4>1. i + 1 = k + 1 /\ i \in Nat /\ k \in Nat
        BY <3>1, <3>2, <3>4
      <4> QED BY <4>1
    <3> QED BY <3>3, <3>4 DEF Rest
  <2>11. Behind(p, st, s, j, v)
    <3>1. ASSUME st = {}, NEW k \in Claude!Job \ {j}, p.using[k] = s, p.pc[k] = "turn"
          PROVE  Among(k, v)
      <4>1. Among(k, u)
        BY <1>1, <3>1 DEF Lined
      <4>2. PICK i \in DOMAIN u : u[i] = k
        BY <4>1 DEF Among
      <4>3. i # 1
        BY <2>1, <4>2
      <4> QED BY <2>1, <4>2, <4>3 DEF Among
    <3> QED BY <3>1 DEF Behind
  <2>12. load \in Loads /\ p \in PoolRec /\ s \in DOMAIN p.sess /\ j \in Claude!Job
    BY <2>1
  <2>13. Ready(p, w, d, st, s, j)
    BY <1>4, <2>9 DEF Ready
  <2> HIDE DEF x, u
  <2> QED
    BY ONLY <2>6, <2>7, <2>10, <2>11, <2>12, <2>13, RunsKeeps, SMTT(30)
<1> QED BY <1>2, <1>3, <1>4

\* The turn in flight on session s ends with text t: its job is settled and the queue goes on.
LEMMA SettleKeeps ==
    ASSUME load \in Loads, NEW p \in PoolRec, NEW w, NEW d, NEW st, Sound(p, w, d, st),
           NEW s \in DOMAIN p.sess, p.sess[s].inflight # NoOne, NEW t \in Txt,
           NEW y, Ends(p.sess[s], y),
           NEW r, r = Claude!advance(
                       Claude!finish([p EXCEPT !.sess = [p.sess EXCEPT ![s] = y]],
                                     p.sess[s].inflight, t), s)
    PROVE  Sound(r, w, d, st)
<1> DEFINE j == p.sess[s].inflight
           p1 == [p EXCEPT !.sess = [p.sess EXCEPT ![s] = y]]
           p2 == Claude!finish(p1, j, t)
<1>1. /\ NoOne \notin Claude!Job /\ s # NoOne /\ j \in Claude!Job /\ j # NoOne
      /\ p.sess[s].q \in Seq(Claude!Job)
  BY SmallFacts, PoolFields, SessionFields
<1>2. /\ PoolInv(p, w) /\ OwnedInv(p, w, d, NoOne) /\ GoingInv(p, st, NoOne, NoOne)
      /\ Counted(p)
  BY DEF Sound
<1>3. /\ p.using[j] = s /\ p.pc[j] = "turn" /\ ~Among(j, p.sess[s].q)
  BY <1>1, <1>2 DEF PoolInv, TurnInv, TurnOf, Among
<1>4. r = Claude!advance(p2, s)
  OBVIOUS
<1>5. /\ Alters(p, p1, s, y) /\ PoolInv(p1, w) /\ OwnedInv(p1, w, d, NoOne)
      /\ GoingInv(p1, st, s, NoOne)
  <2>1. p1 = [p EXCEPT !.sess = [p.sess EXCEPT ![s] = y]]
    OBVIOUS
  <2>2. load \in Loads /\ p \in PoolRec /\ s \in DOMAIN p.sess /\ Ends(p.sess[s], y)
    OBVIOUS
  <2> HIDE DEF p1
  <2> QED BY ONLY <1>2, <2>1, <2>2, EndKeeps, SMTT(30)
<1>6. p2 = Claude!finish(p1, j, t)
  OBVIOUS
<1> HIDE DEF p1, p2, j
<1>7. /\ p1 \in PoolRec /\ s \in DOMAIN p1.sess /\ p1.using[j] = s /\ p1.pc[j] = "turn"
      /\ p1.sess[s].inflight # j /\ ~Among(j, p1.sess[s].q) /\ p1.sess[s].q = p.sess[s].q
      /\ p1.sess[s].inflight = NoOne /\ p1.using = p.using /\ p1.pc = p.pc
  BY <1>1, <1>3, <1>5 DEF Alters, SameUse, Ends
<1>8. Counted(p1)
  BY <1>2, <1>5 DEF Counted, InThePool, SameUse, Alters
<1>9. GoingInv(p1, st, s, j)
  BY <1>1, <1>5 DEF GoingInv
<1>10. Finished(p1, p2, w, d, st, s, s, j)
  <2>1. load \in Loads /\ p1 \in PoolRec /\ j \in Claude!Job /\ t \in Txt /\ s \in DOMAIN p1.sess
    BY <1>1, <1>7
  <2> QED BY ONLY <1>5, <1>6, <1>7, <1>8, <1>9, <2>1, FinishKeeps, SMTT(30)
<1>11. /\ p2 \in PoolRec /\ PoolInv(p2, w) /\ OwnedInv(p2, w, d, NoOne)
       /\ GoingInv(p2, st, s, NoOne) /\ Counted(p2)
       /\ s \in DOMAIN p2.sess /\ p2.sess[s].inflight = NoOne /\ p2.sess[s].q = p.sess[s].q
       /\ \A k \in Claude!Job \ {j} : p2.using[k] = p.using[k] /\ p2.pc[k] = p.pc[k]
       /\ p2.using[j] = NoOne
  BY <1>7, <1>10 DEF Finished, Kept
<1>12. Lined(p2, st, s, NoOne)
  <2>1. ASSUME st = {}, NEW k \in Claude!Job, p2.using[k] = s, p2.pc[k] = "turn"
        PROVE  Among(k, p2.sess[s].q)
    <3>1. k # j /\ p.using[k] = s /\ p.pc[k] = "turn" /\ k \in Claude!Job \ {NoOne}
      BY <1>1, <1>11, <2>1
    <3>2. p.sess[s].inflight = k \/ Among(k, p.sess[s].q)
      BY <1>1, <1>2, <2>1, <3>1 DEF GoingInv
    <3> QED BY <1>11, <3>1, <3>2 DEF j
  <2> QED BY <2>1 DEF Lined
<1>13. load \in Loads
  OBVIOUS
<1> QED BY ONLY <1>4, <1>11, <1>12, <1>13, AdvanceKeeps, SMTT(30)

-----------------------------------------------------------------------------
\* The job a slot was taken for is not in the count yet, or has just left the place it had there.
Taken(p, j) == p.active = Cardinality(InThePool(p) \ {j}) + 1
\* Job j may take session s.
May(p, w, d, s, j) ==
    /\ p.using[j] = NoOne /\ ~IsIdle(p, s) /\ s # w
    /\ \A k \in Claude!Job : p.using[k] = s => keyOf(k) = keyOf(j) /\ p.pc[k] = "turn"
    /\ \A k \in p.sess[s].served : keyOf(k) = keyOf(j)
    /\ \A i \in DOMAIN p.threads : p.threads[i][2] = s => p.threads[i][1] = keyOf(j)
    /\ keyOf(j) = NoOne =>
          p.sess[s].turns < SESSION_MAX_TURNS /\ \A k \in Claude!Job : p.using[k] # s
    /\ keyOf(j) # NoOne => p.sess[s].dead \/ Sticky(p, s) \/ s \in d
\* Pool r is p but for job j, which uses session s.
Uses(p, r, s, j) ==
    /\ r \in PoolRec /\ r.sess = p.sess /\ r.idle = p.idle /\ r.threads = p.threads
    /\ r.active = p.active /\ r.using = [p.using EXCEPT ![j] = s]
    /\ r.pc = [p.pc EXCEPT ![j] = "turn"]
\* The invariant when job j has its session and its turn is still to be queued, started or settled.
Entered(p, w, d, st, s, j) ==
    /\ p \in PoolRec /\ PoolInv(p, w) /\ OwnedInv(p, w, d, NoOne)
    /\ GoingInv(p, st, NoOne, j) /\ Counted(p)
    /\ p.using[j] = s /\ p.pc[j] = "turn"
    /\ p.sess[s].inflight # j /\ ~Among(j, p.sess[s].q)
    /\ keyOf(j) = NoOne => p.sess[s].turns < SESSION_MAX_TURNS

\* The job is entered at the session it may take.
LEMMA EnterKeeps ==
    ASSUME load \in Loads, NEW p \in PoolRec, NEW w, NEW d, NEW st, PoolInv(p, w),
           NEW s \in DOMAIN p.sess, NEW j \in Claude!Job, OwnedInv(p, w, d, s),
           GoingInv(p, st, NoOne, j), Taken(p, j), May(p, w, d, s, j), NEW r, Uses(p, r, s, j)
    PROVE  Entered(r, w, d, st, s, j)
<1>1. /\ r \in PoolRec /\ r.sess = p.sess /\ r.idle = p.idle /\ r.threads = p.threads
      /\ r.active = p.active
  BY DEF Uses
<1>2. /\ r.using[j] = s /\ r.pc[j] = "turn"
      /\ \A k \in Claude!Job : k # j => r.using[k] = p.using[k] /\ r.pc[k] = p.pc[k]
  BY PoolFields DEF Uses
<1>3. /\ NoOne \notin Nat /\ NoOne \notin Claude!Job /\ s # NoOne /\ s \in Nat
      /\ p.using[j] = NoOne /\ ~IsIdle(p, s) /\ s # w
  BY SmallFacts, PoolFields DEF May
<1>4. /\ \A k \in Claude!Job : p.using[k] = s => keyOf(k) = keyOf(j) /\ p.pc[k] = "turn"
      /\ \A k \in p.sess[s].served : keyOf(k) = keyOf(j)
      /\ \A i \in DOMAIN p.threads : p.threads[i][2] = s => p.threads[i][1] = keyOf(j)
  BY DEF May
<1>5. keyOf(j) = NoOne =>
         p.sess[s].turns < SESSION_MAX_TURNS /\ \A k \in Claude!Job : p.using[k] # s
  BY DEF May
<1>6. \A n : (IsIdle(r, n) <=> IsIdle(p, n)) /\ (Sticky(r, n) <=> Sticky(p, n))
  BY <1>1 DEF IsIdle, Sticky
<1>7. \A n \in DOMAIN p.sess : p.sess[n].inflight # j /\ ~Among(j, p.sess[n].q)
  <2>1. ASSUME NEW n \in DOMAIN p.sess PROVE n # NoOne /\ TurnOf(p, n, p.sess[n])
    BY <1>3, PoolFields DEF PoolInv, TurnInv
  <2> QED BY <1>3, <2>1 DEF TurnOf, Among
<1>8. UsingInv(r, w)
  <2>1. ASSUME NEW k \in Claude!Job, r.using[k] # NoOne
        PROVE  /\ r.using[k] \in DOMAIN r.sess /\ r.pc[k] \in InPool
               /\ ~IsIdle(r, r.using[k]) /\ r.using[k] # w
               /\ r.pc[k] = "spawn" => ~Sticky(r, r.using[k]) /\ Unused(r.sess[r.using[k]])
    <3>1. CASE k = j
      BY <1>1, <1>2, <1>3, <1>6, <3>1 DEF InPool
    <3>2. CASE k # j
      BY <1>1, <1>2, <1>6, <2>1, <3>2 DEF PoolInv, UsingInv
    <3> QED BY <3>1, <3>2
  <2>2. ASSUME NEW k \in Claude!Job, r.using[k] # NoOne, r.pc[k] = "spawn" \/ keyOf(k) = NoOne,
               NEW i \in Claude!Job, r.using[i] = r.using[k]
        PROVE  i = k
    <3>1. CASE k = j
      BY <1>2, <1>5, <2>2, <3>1
    <3>2. CASE k # j /\ i = j
      BY <1>2, <1>4, <1>5, <2>2, <3>2
    <3>3. CASE k # j /\ i # j
      BY <1>2, <2>2, <3>3 DEF PoolInv, UsingInv
    <3> QED BY <3>1, <3>2, <3>3
  <2> QED BY <2>1, <2>2 DEF UsingInv
<1>9. WarmInv(r, w)
  BY <1>1, <1>6 DEF PoolInv, WarmInv
<1>10. IdleInv(r)
  BY <1>1, <1>6 DEF PoolInv, IdleInv
<1>11. StickyInv(r)
  <2>1. ASSUME NEW i \in DOMAIN r.threads
        PROVE  /\ r.threads[i][2] \in DOMAIN r.sess /\ r.threads[i][1] # NoOne
               /\ \A k \in DOMAIN r.threads :
                    r.threads[i][1] = r.threads[k][1] \/ r.threads[i][2] = r.threads[k][2] => i = k
               /\ \A k \in r.sess[r.threads[i][2]].served : keyOf(k) = r.threads[i][1]
    BY <1>1 DEF PoolInv, StickyInv
  <2>2. ASSUME NEW i \in DOMAIN r.threads, NEW k \in Claude!Job, r.using[k] = r.threads[i][2]
        PROVE  keyOf(k) = r.threads[i][1]
    <3>1. CASE k = j
      BY <1>1, <1>2, <1>4, <2>2, <3>1
    <3>2. CASE k # j
      BY <1>1, <1>2, <2>2, <3>2 DEF PoolInv, StickyInv
    <3> QED BY <3>1, <3>2
  <2> QED BY <2>1, <2>2 DEF StickyInv
<1>12. TurnInv(r)
  <2>1. ASSUME NEW n \in DOMAIN r.sess PROVE TurnOf(r, n, r.sess[n])
    <3>1. n \in DOMAIN p.sess /\ TurnOf(p, n, p.sess[n]) /\ r.sess[n] = p.sess[n]
      BY <1>1 DEF PoolInv, TurnInv
    <3>2. p.sess[n].inflight \in Claude!Job \cup {NoOne} /\ p.sess[n].q \in Seq(Claude!Job)
      BY <3>1, PoolFields, SessionFields
    <3>3. p.sess[n].inflight # NoOne =>
             /\ r.using[p.sess[n].inflight] = p.using[p.sess[n].inflight]
             /\ r.pc[p.sess[n].inflight] = p.pc[p.sess[n].inflight]
      BY <1>2, <1>7, <3>1, <3>2
    <3>4. \A i \in DOMAIN p.sess[n].q : p.sess[n].q[i] \in Claude!Job /\ p.sess[n].q[i] # j
      BY <1>7, <3>1, <3>2 DEF Among
    <3>5. \A i \in DOMAIN p.sess[n].q :
             /\ r.using[p.sess[n].q[i]] = p.using[p.sess[n].q[i]]
             /\ r.pc[p.sess[n].q[i]] = p.pc[p.sess[n].q[i]]
      BY <1>2, <3>4
    <3> QED BY <3>1, <3>3, <3>5, SMTT(40) DEF TurnOf
  <2> QED BY <2>1 DEF TurnInv
<1>13. ServedInv(r)
  <2>1. ASSUME NEW n \in DOMAIN r.sess PROVE ServedOf(r, n, r.sess[n])
    <3>1. n \in DOMAIN p.sess /\ ServedOf(p, n, p.sess[n]) /\ r.sess[n] = p.sess[n]
      BY <1>1 DEF PoolInv, ServedInv
    <3>2. CASE n = s
      <4>1. \A k \in Claude!Job : r.using[k] = s => keyOf(k) = keyOf(j)
        BY <1>2, <1>4
      <4> QED BY <1>4, <3>1, <3>2, <4>1 DEF ServedOf
    <3>3. CASE n # s
      <4>1. \A k \in Claude!Job : r.using[k] = n => p.using[k] = n
        BY <1>2, <3>3
      <4> QED BY <3>1, <4>1 DEF ServedOf
    <3> QED BY <3>2, <3>3
  <2> QED BY <2>1 DEF ServedInv
<1>14. OwnedInv(r, w, d, NoOne)
  <2>1. ASSUME NEW n \in DOMAIN r.sess
        PROVE  \/ n = NoOne \/ r.sess[n].dead \/ n = w \/ IsIdle(r, n) \/ n \in d \/ Sticky(r, n)
               \/ \E k \in Claude!Job : r.using[k] = n
    <3>1. \A k \in Claude!Job : p.using[k] = n => r.using[k] = n
      BY <1>1, <1>2, <1>3, <2>1, PoolFields
    <3> QED BY <1>1, <1>2, <1>6, <3>1 DEF OwnedInv
  <2>2. ASSUME NEW k \in Claude!Job, r.using[k] # NoOne, r.pc[k] = "turn", keyOf(k) # NoOne
        PROVE  r.sess[r.using[k]].dead \/ Sticky(r, r.using[k]) \/ r.using[k] \in d
    <3>1. CASE k = j
      BY <1>1, <1>2, <1>6, <2>2, <3>1 DEF May
    <3>2. CASE k # j
      BY <1>1, <1>2, <1>6, <2>2, <3>2 DEF OwnedInv
    <3> QED BY <3>1, <3>2
  <2> QED BY <2>1, <2>2 DEF OwnedInv
<1>15. GoingInv(r, st, NoOne, j)
  BY <1>1, <1>2 DEF GoingInv
<1>16. Counted(r)
  <2>1. InThePool(r) = (InThePool(p) \ {j}) \cup {j}
    BY <1>2 DEF InThePool, InPool
  <2> DEFINE G == InThePool(p) \ {j}
  <2>2. IsFiniteSet(G) /\ j \notin G
    BY SmallFacts, FS_Subset DEF InThePool
  <2>3. Cardinality(InThePool(r)) = Cardinality(G) + 1
    <3> HIDE DEF G
    <3>1. Cardinality(G \cup {j}) = Cardinality(G) + 1
      BY <2>2, FS_AddElement
    <3> QED BY <2>1, <3>1 DEF G
  <2> QED BY <1>1, <2>3 DEF Counted, Taken
<1>17. r.sess[s].inflight # j /\ ~Among(j, r.sess[s].q)
  BY <1>1, <1>7
<1> QED
  BY <1>1, <1>2, <1>5, <1>8, <1>9, <1>10, <1>11, <1>12, <1>13, <1>14, <1>15, <1>16, <1>17
  DEF PoolInv, Entered

\* v is queue u with j at its end; y is session x with j at the end of its queue.
Longer(u, v, j) ==
    /\ DOMAIN v = (DOMAIN u) \cup {Len(u) + 1} /\ Len(u) + 1 \notin DOMAIN u
    /\ v[Len(u) + 1] = j /\ \A n \in DOMAIN u : v[n] = u[n]
Queues(x, y, j) ==
    /\ y \in Session /\ y.dead = x.dead /\ y.gone = x.gone /\ y.inflight = x.inflight
    /\ y.turns = x.turns /\ y.armed = x.armed /\ y.served = x.served /\ Longer(x.q, y.q, j)
Queued(p, s, j) == [p EXCEPT !.sess[s].q = Append(@, j)]

\* Queueing job j alters session s alone, whose queue it ends.
LEMMA QueueFacts ==
    ASSUME NEW p \in PoolRec, NEW s \in DOMAIN p.sess, NEW j \in Claude!Job,
           NEW r, r = Queued(p, s, j)
    PROVE  Alters(p, r, s, r.sess[s]) /\ Queues(p.sess[s], r.sess[s], j)
<1> DEFINE x == p.sess[s]
           u == x.q
           v == Append(u, j)
           y == [x EXCEPT !.q = v]
<1>1. x \in Session /\ u \in Seq(Claude!Job)
  BY PoolFields, SessionFields
<1>2. v \in Seq(Claude!Job) /\ Longer(u, v, j)
  BY <1>1, AppendFacts DEF Longer
<1>3. r = [p EXCEPT !.sess = [p.sess EXCEPT ![s] = y]]
  BY Zenon DEF Queued
<1> HIDE DEF v
<1>4. /\ y \in Session /\ y.dead = x.dead /\ y.gone = x.gone /\ y.inflight = x.inflight
      /\ y.turns = x.turns /\ y.armed = x.armed /\ y.served = x.served /\ y.q = v
  BY <1>1, <1>2 DEF Session
<1> HIDE DEF y
<1>5. /\ r \in PoolRec /\ r.idle = p.idle /\ r.threads = p.threads
      /\ SameUse(p, r) /\ r.text = p.text
      /\ DOMAIN r.sess = DOMAIN p.sess /\ r.sess[s] = y
      /\ \A n \in DOMAIN p.sess : n # s => r.sess[n] = p.sess[n]
      /\ Len(r.sess) = Len(p.sess)
  <2>1. p \in PoolRec /\ s \in DOMAIN p.sess
    OBVIOUS
  <2> QED BY ONLY <1>3, <1>4, <2>1, OneSet, SMTT(30)
<1> QED BY <1>2, <1>4, <1>5 DEF Alters, Queues

\* Job j is queued behind the turns of session s: y is the session then.
LEMMA QueueKeeps ==
    ASSUME load \in Loads, NEW p \in PoolRec, NEW w, NEW d, NEW st,
           NEW s \in DOMAIN p.sess, NEW j \in Claude!Job, Entered(p, w, d, st, s, j),
           NEW i \in Claude!Job, i # j, p.using[i] = s,
           NEW y, Queues(p.sess[s], y, j), NEW r, Alters(p, r, s, y)
    PROVE  Sound(r, w, d, st)
<1> DEFINE x == p.sess[s]
           u == x.q
           v == y.q
<1>1. /\ PoolInv(p, w) /\ OwnedInv(p, w, d, NoOne)
      /\ GoingInv(p, st, NoOne, j) /\ Counted(p)
      /\ p.using[j] = s /\ p.pc[j] = "turn" /\ x.inflight # j /\ ~Among(j, u)
  BY DEF Entered
<1>2. NoOne \notin Nat /\ NoOne \notin Claude!Job /\ s # NoOne
  BY SmallFacts, PoolFields
<1>3. /\ DOMAIN v = (DOMAIN u) \cup {Len(u) + 1}
      /\ Len(u) + 1 \notin DOMAIN u /\ v[Len(u) + 1] = j
      /\ \A n \in DOMAIN u : v[n] = u[n]
  BY DEF Queues, Longer
<1>5. /\ y \in Session /\ y.q = v /\ y.dead = x.dead /\ y.gone = x.gone
      /\ y.inflight = x.inflight /\ y.turns = x.turns /\ y.armed = x.armed /\ y.served = x.served
  BY DEF Queues
<1>6. /\ r \in PoolRec /\ DOMAIN r.sess = DOMAIN p.sess
      /\ r.idle = p.idle /\ r.threads = p.threads /\ SameUse(p, r)
      /\ r.sess[s] = y
      /\ \A n \in DOMAIN p.sess : n # s => r.sess[n] = p.sess[n]
  BY DEF Alters
<1> HIDE DEF v
<1>7. /\ \A n : (IsIdle(r, n) <=> IsIdle(p, n)) /\ (Sticky(r, n) <=> Sticky(p, n))
      /\ r.using = p.using /\ r.pc = p.pc
  BY <1>6 DEF IsIdle, Sticky, SameUse
<1>8. \A n \in DOMAIN p.sess :
         /\ r.sess[n].dead = p.sess[n].dead /\ r.sess[n].turns = p.sess[n].turns
         /\ r.sess[n].served = p.sess[n].served /\ r.sess[n].inflight = p.sess[n].inflight
         /\ n # s => r.sess[n].q = p.sess[n].q
  BY <1>5, <1>6
<1>9. /\ keyOf(j) # NoOne /\ s # w
      /\ \A k \in Claude!Job : p.using[k] = s => p.pc[k] # "spawn"
      /\ \A k \in Claude!Job : Among(k, u) \/ Among(k, v) => p.using[k] = s /\ p.pc[k] = "turn"
  <2>1. keyOf(j) # NoOne /\ s # w
    BY <1>1, <1>2 DEF PoolInv, UsingInv
  <2>2. ASSUME NEW k \in Claude!Job, p.using[k] = s PROVE p.pc[k] # "spawn"
    <3>1. p.pc[k] = "spawn" => j = k /\ i = k
      BY <1>1, <1>2, <2>2 DEF PoolInv, UsingInv
    <3> QED BY <3>1
  <2>3. ASSUME NEW k \in Claude!Job, Among(k, u) PROVE p.using[k] = s /\ p.pc[k] = "turn"
    BY <1>1, <2>3 DEF PoolInv, TurnInv, TurnOf, Among
  <2>4. ASSUME NEW k \in Claude!Job, Among(k, v) PROVE Among(k, u) \/ k = j
    BY <1>3, <2>4 DEF Among
  <2> QED BY <1>1, <2>1, <2>2, <2>3, <2>4
<1>10. UsingInv(r, w)
  <2>1. ASSUME NEW k \in Claude!Job, r.using[k] # NoOne
        PROVE  /\ r.using[k] \in DOMAIN r.sess /\ r.pc[k] \in InPool
               /\ ~IsIdle(r, r.using[k]) /\ r.using[k] # w
               /\ r.pc[k] = "spawn" => ~Sticky(r, r.using[k]) /\ Unused(r.sess[r.using[k]])
    BY <1>1, <1>6, <1>7, <1>8, <1>9, <2>1 DEF PoolInv, UsingInv, Unused
  <2>2. ASSUME NEW k \in Claude!Job, r.using[k] # NoOne, r.pc[k] = "spawn" \/ keyOf(k) = NoOne,
               NEW n \in Claude!Job, r.using[n] = r.using[k]
        PROVE  n = k
    BY <1>1, <1>7, <2>2 DEF PoolInv, UsingInv
  <2> QED BY <2>1, <2>2 DEF UsingInv
<1>11. WarmInv(r, w)
  BY <1>1, <1>6, <1>7, <1>8, <1>9 DEF PoolInv, WarmInv, Unused
<1>12. IdleInv(r)
  BY <1>1, <1>6, <1>7, <1>8 DEF PoolInv, IdleInv
<1>13. StickyInv(r)
  BY <1>1, <1>6, <1>7, <1>8 DEF PoolInv, StickyInv
<1>14. TurnInv(r)
  <2>1. TurnOf(r, s, y)
    <3>1. TurnOf(p, s, x)
      BY <1>1 DEF PoolInv, TurnInv
    <3>2. ASSUME NEW k \in DOMAIN v
          PROVE  /\ p.using[v[k]] = s /\ p.pc[v[k]] = "turn" /\ keyOf(v[k]) # NoOne
                 /\ v[k] # x.inflight
      <4>1. CASE k \in DOMAIN u
        BY <1>3, <3>1, <4>1, SMTT(40) DEF TurnOf
      <4>2. CASE k = Len(u) + 1
        BY <1>1, <1>3, <1>9, <4>2
      <4> QED BY <1>3, <4>1, <4>2
    <3>3. ASSUME NEW k \in DOMAIN v, NEW n \in DOMAIN v, v[k] = v[n]
          PROVE  k = n
      <4>1. CASE k \in DOMAIN u /\ n \in DOMAIN u
        BY <1>3, <3>1, <3>3, <4>1, SMTT(40) DEF TurnOf
      <4>2. \A m \in DOMAIN u : u[m] # j
        BY <1>1 DEF Among
      <4> QED BY <1>3, <3>3, <4>1, <4>2
    <3>4. /\ y.gone => y.dead
          /\ y.inflight # NoOne =>
                /\ r.using[y.inflight] = s /\ r.pc[y.inflight] = "turn" /\ ~y.gone
                /\ y.inflight \in y.served /\ Among(y.inflight, y.armed)
      BY <1>5, <1>7, <3>1 DEF TurnOf
    <3> QED BY <1>5, <1>7, <3>2, <3>3, <3>4 DEF TurnOf
  <2>2. ASSUME NEW n \in DOMAIN p.sess, n # s PROVE TurnOf(r, n, p.sess[n])
    BY <1>1, <1>7, SMTT(40) DEF PoolInv, TurnInv, TurnOf
  <2> QED BY <1>6, <2>1, <2>2 DEF TurnInv
<1>15. ServedInv(r)
  BY <1>1, <1>6, <1>7, <1>8 DEF PoolInv, ServedInv, ServedOf
<1>16. OwnedInv(r, w, d, NoOne)
  BY <1>1, <1>6, <1>7, <1>8 DEF OwnedInv, PoolInv, UsingInv
<1>17. GoingInv(r, st, NoOne, NoOne)
  <2>1. ASSUME NEW k \in Claude!Job
        PROVE  /\ r.pc[k] \in InPool => r.using[k] # NoOne
               /\ st = {} /\ r.pc[k] = "turn" /\ r.using[k] # NoOne =>
                     /\ r.sess[r.using[k]].inflight # NoOne
                     /\ r.sess[r.using[k]].inflight = k \/ Among(k, r.sess[r.using[k]].q)
    <3>1. CASE k = j
      <4>1. p.pc[i] = "turn"
        BY <1>1, <1>2, <1>9 DEF PoolInv, UsingInv, InPool
      <4>2. st = {} => x.inflight # NoOne
        BY <1>1, <1>2, <4>1 DEF GoingInv
      <4>3. Among(j, v)
        BY <1>3 DEF Among
      <4> QED BY <1>1, <1>2, <1>5, <1>6, <1>7, <3>1, <4>2, <4>3
    <3>2. CASE k # j
      <4>1. k \in Claude!Job \ {j}
        BY <3>2
      <4>2. CASE p.using[k] = s
        <5>1. Among(k, u) => Among(k, v)
          BY <1>3 DEF Among
        <5> QED BY <1>1, <1>2, <1>5, <1>6, <1>7, <4>1, <4>2, <5>1 DEF GoingInv
      <4>3. CASE p.using[k] # s
        <5>1. p.using[k] # NoOne => p.using[k] \in DOMAIN p.sess
          BY <1>1 DEF PoolInv, UsingInv
        <5> QED BY <1>1, <1>6, <1>7, <4>1, <4>3, <5>1 DEF GoingInv
      <4> QED BY <4>2, <4>3
    <3> QED BY <3>1, <3>2
  <2> QED BY <2>1 DEF GoingInv
<1>18. Counted(r)
  BY <1>1, <1>6 DEF Counted, InThePool, SameUse
<1> QED
  BY <1>6, <1>10, <1>11, <1>12, <1>13, <1>14, <1>15, <1>16, <1>17, <1>18 DEF Sound, PoolInv

\* ClaudeSession.runTurn: job j takes session s.
LEMMA RunTurnKeeps ==
    ASSUME load \in Loads, NEW p \in PoolRec, NEW w, NEW d, NEW st, PoolInv(p, w),
           NEW s \in DOMAIN p.sess, NEW j \in Claude!Job, OwnedInv(p, w, d, s),
           GoingInv(p, st, NoOne, j), Taken(p, j), May(p, w, d, s, j),
           NEW r, r = Claude!runTurn(p, s, j)
    PROVE  Sound(r, w, d, st)
<1> DEFINE q == [p EXCEPT !.using[j] = s, !.pc[j] = "turn"]
<1>1. q = [p EXCEPT !.using[j] = s, !.pc[j] = "turn"]
  OBVIOUS
<1> HIDE DEF q
<1>2. Uses(p, q, s, j)
  <2>1. s \in Nat
    BY PoolFields
  <2> QED BY <1>1, <2>1 DEF Uses, PoolRec, JobPc, InPool
<1>3. Entered(q, w, d, st, s, j)
  <2>1. /\ load \in Loads /\ p \in PoolRec /\ PoolInv(p, w) /\ s \in DOMAIN p.sess
        /\ j \in Claude!Job /\ OwnedInv(p, w, d, s) /\ GoingInv(p, st, NoOne, j) /\ Taken(p, j)
        /\ May(p, w, d, s, j)
    OBVIOUS
  <2> QED BY ONLY <1>2, <2>1, EnterKeeps, SMTT(30)
<1>4. q \in PoolRec /\ q.sess = p.sess /\ q.using[j] = s /\ s \in DOMAIN q.sess
  BY <1>2, <1>3 DEF Uses, Entered
<1>5. /\ PoolInv(q, w) /\ OwnedInv(q, w, d, NoOne)
      /\ GoingInv(q, st, NoOne, j) /\ Counted(q)
      /\ q.pc[j] = "turn" /\ q.sess[s].inflight # j /\ ~Among(j, q.sess[s].q)
      /\ keyOf(j) = NoOne => q.sess[s].turns < SESSION_MAX_TURNS
  BY <1>3 DEF Entered
<1>6. load \in Loads /\ j \in Claude!Job
  OBVIOUS
<1>7. CASE \E k \in Claude!Job \ {j} : q.using[k] = s
  <2>1. PICK k \in Claude!Job \ {j} : q.using[k] = s
    BY <1>7
  <2>2. r = Queued(q, s, j)
    BY <1>1, <1>7, Zenon DEF Claude!runTurn, Queued
  <2>3. Alters(q, r, s, r.sess[s]) /\ Queues(q.sess[s], r.sess[s], j)
    BY ONLY <1>4, <1>6, <2>2, QueueFacts, SMTT(30)
  <2>4. k \in Claude!Job /\ k # j
    BY <2>1
  <2> QED BY ONLY <1>3, <1>4, <1>6, <2>1, <2>3, <2>4, QueueKeeps, SMTT(30)
<1>8. CASE ~(\E k \in Claude!Job \ {j} : q.using[k] = s) /\ p.sess[s].dead
  <2>1. r = Claude!finish(q, j, <<>>)
    BY <1>1, <1>8, Zenon DEF Claude!runTurn
  <2>2. <<>> \in Txt
    BY DEF Txt
  <2>3. Finished(q, r, w, d, st, NoOne, s, j)
    BY ONLY <1>4, <1>5, <1>6, <2>1, <2>2, FinishKeeps, SMTT(30)
  <2> QED BY <2>3 DEF Finished, Sound
<1>9. CASE ~(\E k \in Claude!Job \ {j} : q.using[k] = s) /\ ~p.sess[s].dead
  <2>1. r = Claude!startTurn(q, s, j)
    BY <1>1, <1>9, Zenon DEF Claude!runTurn
  <2>2. Alters(q, r, s, r.sess[s]) /\ Starts(q.sess[s], r.sess[s], j, q.sess[s].q)
    BY ONLY <1>4, <1>6, <2>1, StartFacts, SMTT(30)
  <2>3. /\ TurnOf(q, s, q.sess[s]) /\ q.sess[s].inflight \in Claude!Job \cup {NoOne}
        /\ q.sess[s].q \in Seq(Claude!Job)
    BY <1>4, <1>5, PoolFields, SessionFields DEF PoolInv, TurnInv
  <2>4. q.sess[s].inflight = NoOne
    BY <1>5, <1>9, <2>3 DEF TurnOf
  <2>5. Rest(q.sess[s].q, j, q.sess[s].q)
    BY <1>5, <2>3 DEF TurnOf, Rest, Among
  <2>6. Behind(q, st, s, j, q.sess[s].q)
    BY <1>9 DEF Behind
  <2>7. GoingInv(q, st, s, NoOne)
    <3>1. ASSUME NEW k \in Claude!Job \ {NoOne}
          PROVE  /\ q.pc[k] \in InPool => q.using[k] # NoOne
                 /\ st = {} /\ q.pc[k] = "turn" /\ q.using[k] # s =>
                       /\ q.sess[q.using[k]].inflight # NoOne
                       /\ q.sess[q.using[k]].inflight = k \/ Among(k, q.sess[q.using[k]].q)
      <4>1. CASE k = j
        BY <1>4, <4>1, SmallFacts, PoolFields
      <4>2. CASE k # j
        <5>1. k \in Claude!Job \ {j} /\ q.pc[k] = "turn" => q.using[k] # NoOne
          BY <1>5, <4>2 DEF GoingInv, InPool
        <5> QED BY <1>5, <4>2, <5>1 DEF GoingInv
      <4> QED BY <4>1, <4>2
    <3> QED BY <3>1 DEF GoingInv
  <2>8. Ready(q, w, d, st, s, j)
    BY <1>4, <1>5, <1>9, <2>7 DEF Ready
  <2> QED BY ONLY <1>4, <1>6, <2>2, <2>5, <2>6, <2>8, RunsKeeps, SMTT(30)
<1> QED BY <1>7, <1>8, <1>9

-----------------------------------------------------------------------------
\* Pool r is p with one session more, n, which is new.
Adds(p, r, n) ==
    /\ r \in PoolRec /\ r.idle = p.idle /\ r.threads = p.threads /\ SameUse(p, r)
    /\ DOMAIN r.sess = (DOMAIN p.sess) \cup {n} /\ n \notin DOMAIN p.sess /\ n \in Nat
    /\ \A m \in DOMAIN p.sess : r.sess[m] = p.sess[m]
    /\ r.sess[n] \in Session /\ Unused(r.sess[n]) /\ ~r.sess[n].gone
\* Session n is unused and kept nowhere.
Free(p, w, n) ==
    /\ n \in DOMAIN p.sess /\ Unused(p.sess[n]) /\ ~IsIdle(p, n) /\ ~Sticky(p, n)
    /\ n # w /\ \A k \in Claude!Job : p.using[k] # n

\* spawn adds one session, which is unused.
LEMMA SpawnFacts ==
    ASSUME NEW p \in PoolRec, NEW r, r = Claude!spawn(p)
    PROVE  Adds(p, r, Len(p.sess) + 1)
<1> DEFINE z == Claude!NewSession
           f == Append(p.sess, z)
           n == Len(p.sess) + 1
<1>1. z \in Session /\ Unused(z) /\ ~z.gone
  <2>1. <<>> \in Seq(Claude!Job)
    OBVIOUS
  <2> QED BY <2>1 DEF Claude!NewSession, Session, Unused
<1>2. r = [p EXCEPT !.sess = f]
  BY Zenon DEF Claude!spawn
<1> HIDE DEF z
<1>3. /\ f \in Seq(Session) /\ DOMAIN f = (DOMAIN p.sess) \cup {n}
      /\ n \notin DOMAIN p.sess /\ f[n] = z
      /\ \A i \in DOMAIN p.sess : f[i] = p.sess[i]
  <2>1. p.sess \in Seq(Session)
    BY PoolFields
  <2> QED BY <1>1, <2>1, AppendFacts
<1>4. n \in Nat
  BY PoolFields
<1> HIDE DEF f, n
<1>5. /\ r \in PoolRec /\ r.sess = f /\ r.idle = p.idle /\ r.threads = p.threads
      /\ SameUse(p, r)
  BY <1>2, <1>3, SessSet
<1>6. Adds(p, r, n)
  BY <1>1, <1>3, <1>4, <1>5 DEF Adds
<1> QED BY <1>6 DEF n

\* The new session disturbs nothing and is free to be taken.
LEMMA SpawnKeeps ==
    ASSUME load \in Loads, NEW p \in PoolRec, NEW w, NEW d, NEW st, NEW o, NEW x,
           PoolInv(p, w), OwnedInv(p, w, d, NoOne), GoingInv(p, st, o, x),
           NEW r, NEW n, Adds(p, r, n)
    PROVE  PoolInv(r, w) /\ OwnedInv(r, w, d, n) /\ GoingInv(r, st, o, x) /\ Free(r, w, n)
<1>1. /\ r.idle = p.idle /\ r.threads = p.threads /\ SameUse(p, r)
      /\ DOMAIN r.sess = (DOMAIN p.sess) \cup {n} /\ n \notin DOMAIN p.sess /\ n \in Nat
      /\ \A m \in DOMAIN p.sess : r.sess[m] = p.sess[m]
      /\ r.sess[n] \in Session /\ Unused(r.sess[n]) /\ ~r.sess[n].gone
  BY DEF Adds
<1>2. NoOne \notin Nat /\ n # NoOne
  BY <1>1, SmallFacts
<1>3. /\ \A m : (IsIdle(r, m) <=> IsIdle(p, m)) /\ (Sticky(r, m) <=> Sticky(p, m))
      /\ r.using = p.using /\ r.pc = p.pc
  BY <1>1 DEF IsIdle, Sticky, SameUse
<1>4. /\ ~IsIdle(p, n) /\ ~Sticky(p, n) /\ n # w
      /\ \A k \in Claude!Job : p.using[k] # n
  BY <1>1, <1>2 DEF PoolInv, IdleInv, StickyInv, WarmInv, UsingInv, IsIdle, Sticky
<1>5. Free(r, w, n)
  BY <1>1, <1>3, <1>4 DEF Free
<1>6. UsingInv(r, w)
  BY <1>1, <1>3 DEF PoolInv, UsingInv
<1>7. WarmInv(r, w)
  BY <1>1, <1>3 DEF PoolInv, WarmInv
<1>8. IdleInv(r)
  BY <1>1, <1>3 DEF PoolInv, IdleInv
<1>9. StickyInv(r)
  BY <1>1, <1>3 DEF PoolInv, StickyInv
<1>10. TurnInv(r)
  <2>1. TurnOf(r, n, r.sess[n])
    BY <1>1 DEF TurnOf, Unused
  <2>2. ASSUME NEW m \in DOMAIN p.sess PROVE TurnOf(r, m, r.sess[m])
    BY <1>1, <1>3 DEF PoolInv, TurnInv, TurnOf
  <2> QED BY <1>1, <2>1, <2>2 DEF TurnInv
<1>11. ServedInv(r)
  <2>1. ServedOf(r, n, r.sess[n])
    <3>1. Cardinality(r.sess[n].served) = 0 /\ r.sess[n].turns = 0 /\ r.sess[n].served = {}
      BY <1>1, FS_EmptySet DEF Unused
    <3> QED BY <1>3, <1>4, <3>1 DEF ServedOf
  <2>2. ASSUME NEW m \in DOMAIN p.sess PROVE ServedOf(r, m, r.sess[m])
    BY <1>1, <1>3 DEF PoolInv, ServedInv, ServedOf
  <2> QED BY <1>1, <2>1, <2>2 DEF ServedInv
<1>12. OwnedInv(r, w, d, n)
  <2>1. ASSUME NEW m \in DOMAIN r.sess
        PROVE  \/ m = n \/ r.sess[m].dead \/ m = w \/ IsIdle(r, m) \/ m \in d \/ Sticky(r, m)
               \/ \E k \in Claude!Job : r.using[k] = m
    <3>1. m # n => m \in DOMAIN p.sess /\ m # NoOne
      BY <1>1, <1>2, PoolFields
    <3> QED BY <1>1, <1>3, <3>1 DEF OwnedInv
  <2>2. ASSUME NEW k \in Claude!Job, r.using[k] # NoOne, r.pc[k] = "turn", keyOf(k) # NoOne
        PROVE  r.sess[r.using[k]].dead \/ Sticky(r, r.using[k]) \/ r.using[k] \in d
    <3>1. p.using[k] \in DOMAIN p.sess
      BY <1>3, <2>2 DEF PoolInv, UsingInv
    <3> QED BY <1>1, <1>3, <2>2, <3>1 DEF OwnedInv
  <2> QED BY <2>1, <2>2 DEF OwnedInv
<1>13. GoingInv(r, st, o, x)
  <2>1. ASSUME NEW k \in Claude!Job \ {x}
        PROVE  /\ r.pc[k] \in InPool => r.using[k] # NoOne
               /\ st = {} /\ r.pc[k] = "turn" /\ r.using[k] # o =>
                     /\ r.sess[r.using[k]].inflight # NoOne
                     /\ r.sess[r.using[k]].inflight = k \/ Among(k, r.sess[r.using[k]].q)
    <3>1. r.pc[k] = "turn" => r.using[k] # NoOne
      BY <1>3 DEF GoingInv, InPool
    <3>2. p.using[k] # NoOne => p.using[k] \in DOMAIN p.sess
      BY DEF PoolInv, UsingInv
    <3> QED BY <1>1, <1>3, <3>1, <3>2 DEF GoingInv
  <2> QED BY <2>1 DEF GoingInv
<1> QED
  BY <1>5, <1>6, <1>7, <1>8, <1>9, <1>10, <1>11, <1>12, <1>13 DEF PoolInv

\* The new session is the one to warm up.
LEMMA WarmKeeps ==
    ASSUME load \in Loads, NEW p, NEW d, NEW n, n \in Nat, PoolInv(p, NoOne),
           OwnedInv(p, NoOne, d, n), Free(p, NoOne, n)
    PROVE  PoolInv(p, n) /\ OwnedInv(p, n, d, NoOne)
<1>1. /\ n \in DOMAIN p.sess /\ Unused(p.sess[n]) /\ ~IsIdle(p, n) /\ ~Sticky(p, n)
      /\ n # NoOne /\ \A k \in Claude!Job : p.using[k] # n
  BY DEF Free
<1>2. UsingInv(p, n)
  BY <1>1 DEF PoolInv, UsingInv
<1>3. WarmInv(p, n)
  BY <1>1 DEF WarmInv
<1>4. OwnedInv(p, n, d, NoOne)
  BY <1>1 DEF OwnedInv
<1> QED BY <1>2, <1>3, <1>4 DEF PoolInv

\* topUp starts a session.
LEMMA TopUpKeeps ==
    ASSUME load \in Loads, NEW p, NEW d, NEW st, Sound(p, NoOne, d, st),
           NEW r, r = Claude!spawn(p)
    PROVE  Sound(r, Len(p.sess) + 1, d, st)
<1> DEFINE n == Len(p.sess) + 1
<1>1. /\ p \in PoolRec /\ PoolInv(p, NoOne) /\ OwnedInv(p, NoOne, d, NoOne)
      /\ GoingInv(p, st, NoOne, NoOne) /\ Counted(p)
  BY DEF Sound
<1>2. Adds(p, r, n)
  BY <1>1, SpawnFacts
<1> HIDE DEF n
<1>3. load \in Loads
  OBVIOUS
<1>4. /\ PoolInv(r, NoOne) /\ OwnedInv(r, NoOne, d, n) /\ GoingInv(r, st, NoOne, NoOne)
      /\ Free(r, NoOne, n)
  BY ONLY <1>1, <1>2, <1>3, SpawnKeeps, SMTT(30)
<1>5. n \in Nat /\ r \in PoolRec
  BY <1>2 DEF Adds
<1>6. PoolInv(r, n) /\ OwnedInv(r, n, d, NoOne)
  BY ONLY <1>3, <1>4, <1>5, WarmKeeps, SMTT(30)
<1>7. Counted(r)
  BY <1>1, <1>2 DEF Adds, Counted, InThePool, SameUse
<1>8. Sound(r, n, d, st)
  BY <1>4, <1>5, <1>6, <1>7 DEF Sound
<1> QED BY <1>8 DEF n

\* Pool r is p but for job j, which is at c and uses session s.
Moved(p, r, j, c, s) ==
    /\ r \in PoolRec /\ r.sess = p.sess /\ r.idle = p.idle /\ r.threads = p.threads
    /\ r.active = p.active /\ r.using = [p.using EXCEPT ![j] = s]
    /\ r.pc = [p.pc EXCEPT ![j] = c]

\* A session is started for job j.
LEMMA TakeKeeps ==
    ASSUME load \in Loads, NEW p \in PoolRec, NEW w, NEW d, NEW st, NEW n \in Nat,
           NEW j \in Claude!Job, PoolInv(p, w), OwnedInv(p, w, d, n),
           GoingInv(p, st, NoOne, j), Taken(p, j), Free(p, w, n), p.using[j] = NoOne,
           NEW r, Moved(p, r, j, "spawn", n)
    PROVE  Sound(r, w, d, st)
<1>1. /\ r \in PoolRec /\ r.sess = p.sess /\ r.idle = p.idle /\ r.threads = p.threads
      /\ r.active = p.active
  BY DEF Moved
<1>2. /\ r.using[j] = n /\ r.pc[j] = "spawn"
      /\ \A k \in Claude!Job : k # j => r.using[k] = p.using[k] /\ r.pc[k] = p.pc[k]
  BY PoolFields DEF Moved
<1>3. NoOne \notin Nat /\ NoOne \notin Claude!Job /\ n # NoOne
  BY SmallFacts
<1>4. /\ n \in DOMAIN p.sess /\ Unused(p.sess[n]) /\ ~IsIdle(p, n) /\ ~Sticky(p, n)
      /\ n # w /\ \A k \in Claude!Job : p.using[k] # n
  BY DEF Free
<1>6. \A m : (IsIdle(r, m) <=> IsIdle(p, m)) /\ (Sticky(r, m) <=> Sticky(p, m))
  BY <1>1 DEF IsIdle, Sticky
<1>7. \A m \in DOMAIN p.sess : p.sess[m].inflight # j /\ ~Among(j, p.sess[m].q)
  <2>1. ASSUME NEW m \in DOMAIN p.sess PROVE m # NoOne /\ TurnOf(p, m, p.sess[m])
    BY <1>3, PoolFields DEF PoolInv, TurnInv
  <2> QED BY <1>3, <2>1 DEF TurnOf, Among
<1>8. UsingInv(r, w)
  <2>1. ASSUME NEW k \in Claude!Job, r.using[k] # NoOne
        PROVE  /\ r.using[k] \in DOMAIN r.sess /\ r.pc[k] \in InPool
               /\ ~IsIdle(r, r.using[k]) /\ r.using[k] # w
               /\ r.pc[k] = "spawn" => ~Sticky(r, r.using[k]) /\ Unused(r.sess[r.using[k]])
    <3>1. CASE k = j
      BY <1>1, <1>2, <1>4, <1>6, <3>1 DEF InPool
    <3>2. CASE k # j
      BY <1>1, <1>2, <1>6, <2>1, <3>2 DEF PoolInv, UsingInv
    <3> QED BY <3>1, <3>2
  <2>2. ASSUME NEW k \in Claude!Job, r.using[k] # NoOne, r.pc[k] = "spawn" \/ keyOf(k) = NoOne,
               NEW i \in Claude!Job, r.using[i] = r.using[k]
        PROVE  i = k
    <3>1. CASE k = j \/ i = j
      BY <1>2, <1>4, <2>2, <3>1
    <3>2. CASE k # j /\ i # j
      BY <1>2, <2>2, <3>2 DEF PoolInv, UsingInv
    <3> QED BY <3>1, <3>2
  <2> QED BY <2>1, <2>2 DEF UsingInv
<1>9. WarmInv(r, w)
  BY <1>1, <1>6 DEF PoolInv, WarmInv
<1>10. IdleInv(r)
  BY <1>1, <1>6 DEF PoolInv, IdleInv
<1>11. StickyInv(r)
  <2>1. ASSUME NEW i \in DOMAIN r.threads
        PROVE  /\ r.threads[i][2] \in DOMAIN r.sess /\ r.threads[i][1] # NoOne
               /\ \A k \in DOMAIN r.threads :
                    r.threads[i][1] = r.threads[k][1] \/ r.threads[i][2] = r.threads[k][2] => i = k
               /\ \A k \in r.sess[r.threads[i][2]].served : keyOf(k) = r.threads[i][1]
    BY <1>1 DEF PoolInv, StickyInv
  <2>2. ASSUME NEW i \in DOMAIN r.threads, NEW k \in Claude!Job, r.using[k] = r.threads[i][2]
        PROVE  keyOf(k) = r.threads[i][1]
    <3>1. k # j
      BY <1>1, <1>2, <1>4, <2>2 DEF Sticky
    <3> QED BY <1>1, <1>2, <2>2, <3>1 DEF PoolInv, StickyInv
  <2> QED BY <2>1, <2>2 DEF StickyInv
<1>12. TurnInv(r)
  <2>1. ASSUME NEW m \in DOMAIN r.sess PROVE TurnOf(r, m, r.sess[m])
    <3>1. m \in DOMAIN p.sess /\ TurnOf(p, m, p.sess[m]) /\ r.sess[m] = p.sess[m]
      BY <1>1 DEF PoolInv, TurnInv
    <3>2. p.sess[m].inflight \in Claude!Job \cup {NoOne} /\ p.sess[m].q \in Seq(Claude!Job)
      BY <3>1, PoolFields, SessionFields
    <3>3. p.sess[m].inflight # NoOne =>
             /\ r.using[p.sess[m].inflight] = p.using[p.sess[m].inflight]
             /\ r.pc[p.sess[m].inflight] = p.pc[p.sess[m].inflight]
      BY <1>2, <1>7, <3>1, <3>2
    <3>4. \A i \in DOMAIN p.sess[m].q : p.sess[m].q[i] \in Claude!Job /\ p.sess[m].q[i] # j
      BY <1>7, <3>1, <3>2 DEF Among
    <3>5. \A i \in DOMAIN p.sess[m].q :
             /\ r.using[p.sess[m].q[i]] = p.using[p.sess[m].q[i]]
             /\ r.pc[p.sess[m].q[i]] = p.pc[p.sess[m].q[i]]
      BY <1>2, <3>4
    <3> QED BY <3>1, <3>3, <3>5, SMTT(40) DEF TurnOf
  <2> QED BY <2>1 DEF TurnInv
<1>13. ServedInv(r)
  <2>1. ASSUME NEW m \in DOMAIN r.sess PROVE ServedOf(r, m, r.sess[m])
    <3>1. m \in DOMAIN p.sess /\ ServedOf(p, m, p.sess[m]) /\ r.sess[m] = p.sess[m]
      BY <1>1 DEF PoolInv, ServedInv
    <3>2. CASE m = n
      <4>1. \A k \in Claude!Job : r.using[k] = n => k = j
        BY <1>2, <1>4
      <4>2. p.sess[n].served = {}
        BY <1>4 DEF Unused
      <4> QED BY <3>1, <3>2, <4>1, <4>2 DEF ServedOf
    <3>3. CASE m # n
      <4>1. \A k \in Claude!Job : r.using[k] = m => p.using[k] = m
        BY <1>2, <3>3
      <4> QED BY <3>1, <4>1 DEF ServedOf
    <3> QED BY <3>2, <3>3
  <2> QED BY <2>1 DEF ServedInv
<1>14. OwnedInv(r, w, d, NoOne)
  <2>1. ASSUME NEW m \in DOMAIN r.sess
        PROVE  \/ m = NoOne \/ r.sess[m].dead \/ m = w \/ IsIdle(r, m) \/ m \in d \/ Sticky(r, m)
               \/ \E k \in Claude!Job : r.using[k] = m
    <3>1. \A k \in Claude!Job : p.using[k] = m => r.using[k] = m
      BY <1>1, <1>2, <1>3, <2>1, PoolFields
    <3> QED BY <1>1, <1>2, <1>6, <3>1 DEF OwnedInv
  <2>2. ASSUME NEW k \in Claude!Job, r.using[k] # NoOne, r.pc[k] = "turn", keyOf(k) # NoOne
        PROVE  r.sess[r.using[k]].dead \/ Sticky(r, r.using[k]) \/ r.using[k] \in d
    <3>1. k # j
      BY <1>2, <2>2
    <3> QED BY <1>1, <1>2, <1>6, <2>2, <3>1 DEF OwnedInv
  <2> QED BY <2>1, <2>2 DEF OwnedInv
<1>15. GoingInv(r, st, NoOne, NoOne)
  <2>1. ASSUME NEW k \in Claude!Job \ {NoOne}
        PROVE  /\ r.pc[k] \in InPool => r.using[k] # NoOne
               /\ st = {} /\ r.pc[k] = "turn" /\ r.using[k] # NoOne =>
                     /\ r.sess[r.using[k]].inflight # NoOne
                     /\ r.sess[r.using[k]].inflight = k \/ Among(k, r.sess[r.using[k]].q)
    <3>1. CASE k = j
      BY <1>2, <1>3, <3>1
    <3>2. CASE k # j
      BY <1>1, <1>2, <3>2 DEF GoingInv
    <3> QED BY <3>1, <3>2
  <2> QED BY <2>1 DEF GoingInv
<1>16. Counted(r)
  <2>1. InThePool(r) = (InThePool(p) \ {j}) \cup {j}
    BY <1>2 DEF InThePool, InPool
  <2> DEFINE G == InThePool(p) \ {j}
  <2>2. IsFiniteSet(G) /\ j \notin G
    BY SmallFacts, FS_Subset DEF InThePool
  <2>3. Cardinality(InThePool(r)) = Cardinality(G) + 1
    <3> HIDE DEF G
    <3>1. Cardinality(G \cup {j}) = Cardinality(G) + 1
      BY <2>2, FS_AddElement
    <3> QED BY <2>1, <3>1 DEF G
  <2> QED BY <1>1, <2>3 DEF Counted, Taken
<1> QED
  BY <1>1, <1>8, <1>9, <1>10, <1>11, <1>12, <1>13, <1>14, <1>15, <1>16 DEF PoolInv, Sound

\* The wait for the session of job j is over.
LEMMA LeaveKeeps ==
    ASSUME load \in Loads, NEW p \in PoolRec, NEW w, NEW d, NEW st, Sound(p, w, d, st),
           NEW j \in Claude!Job, p.pc[j] = "spawn", NEW r, Moved(p, r, j, "spawn", NoOne)
    PROVE  /\ PoolInv(r, w) /\ OwnedInv(r, w, d, p.using[j]) /\ GoingInv(r, st, NoOne, j)
           /\ Taken(r, j) /\ Free(r, w, p.using[j])
<1> DEFINE s == p.using[j]
<1>1. /\ r \in PoolRec /\ r.sess = p.sess /\ r.idle = p.idle /\ r.threads = p.threads
      /\ r.active = p.active /\ PoolInv(p, w) /\ OwnedInv(p, w, d, NoOne)
      /\ GoingInv(p, st, NoOne, NoOne) /\ Counted(p)
  BY DEF Moved, Sound
<1>2. /\ r.using[j] = NoOne /\ r.pc[j] = "spawn"
      /\ \A k \in Claude!Job : k # j => r.using[k] = p.using[k] /\ r.pc[k] = p.pc[k]
  BY PoolFields DEF Moved
<1>3. NoOne \notin Nat /\ NoOne \notin Claude!Job
  BY SmallFacts
<1>4. s # NoOne
  BY <1>1, <1>3 DEF GoingInv, InPool
<1>5. /\ s \in DOMAIN p.sess /\ ~IsIdle(p, s) /\ s # w /\ ~Sticky(p, s) /\ Unused(p.sess[s])
      /\ \A k \in Claude!Job : p.using[k] = s => k = j
  BY <1>1, <1>4 DEF PoolInv, UsingInv
<1>6. \A m : (IsIdle(r, m) <=> IsIdle(p, m)) /\ (Sticky(r, m) <=> Sticky(p, m))
  BY <1>1 DEF IsIdle, Sticky
<1>7. Free(r, w, s)
  BY <1>1, <1>2, <1>4, <1>5, <1>6 DEF Free
<1> HIDE DEF s
<1>8. UsingInv(r, w)
  <2>1. ASSUME NEW k \in Claude!Job, r.using[k] # NoOne
        PROVE  k # j /\ r.using[k] = p.using[k] /\ r.pc[k] = p.pc[k]
    BY <1>2, <2>1
  <2> QED BY <1>1, <1>6, <2>1 DEF PoolInv, UsingInv
<1>9. WarmInv(r, w)
  BY <1>1, <1>6 DEF PoolInv, WarmInv
<1>10. IdleInv(r)
  BY <1>1, <1>6 DEF PoolInv, IdleInv
<1>11. StickyInv(r)
  <2>1. ASSUME NEW i \in DOMAIN r.threads
        PROVE  /\ r.threads[i][2] \in DOMAIN r.sess /\ r.threads[i][1] # NoOne
               /\ \A k \in DOMAIN r.threads :
                    r.threads[i][1] = r.threads[k][1] \/ r.threads[i][2] = r.threads[k][2] => i = k
               /\ \A k \in r.sess[r.threads[i][2]].served : keyOf(k) = r.threads[i][1]
    BY <1>1 DEF PoolInv, StickyInv
  <2>2. ASSUME NEW i \in DOMAIN r.threads, NEW k \in Claude!Job, r.using[k] = r.threads[i][2]
        PROVE  keyOf(k) = r.threads[i][1]
    <3>1. k # j
      BY <1>1, <1>2, <1>3, <2>1, <2>2, PoolFields
    <3> QED BY <1>1, <1>2, <2>2, <3>1 DEF PoolInv, StickyInv
  <2> QED BY <2>1, <2>2 DEF StickyInv
<1>12. TurnInv(r)
  <2>1. ASSUME NEW m \in DOMAIN r.sess PROVE TurnOf(r, m, r.sess[m])
    <3>1. m \in DOMAIN p.sess /\ TurnOf(p, m, p.sess[m]) /\ r.sess[m] = p.sess[m]
      BY <1>1 DEF PoolInv, TurnInv
    <3>2. p.sess[m].inflight \in Claude!Job \cup {NoOne} /\ p.sess[m].q \in Seq(Claude!Job)
      BY <3>1, PoolFields, SessionFields
    <3>3. p.sess[m].inflight # NoOne =>
             /\ r.using[p.sess[m].inflight] = p.using[p.sess[m].inflight]
             /\ r.pc[p.sess[m].inflight] = p.pc[p.sess[m].inflight]
      BY <1>2, <3>1, <3>2 DEF TurnOf
    <3>5. \A i \in DOMAIN p.sess[m].q :
             /\ r.using[p.sess[m].q[i]] = p.using[p.sess[m].q[i]]
             /\ r.pc[p.sess[m].q[i]] = p.pc[p.sess[m].q[i]]
      BY <1>2, <3>1, <3>2 DEF TurnOf
    <3> QED BY <3>1, <3>3, <3>5 DEF TurnOf
  <2> QED BY <2>1 DEF TurnInv
<1>13. ServedInv(r)
  <2>1. ASSUME NEW m \in DOMAIN r.sess PROVE ServedOf(r, m, r.sess[m])
    <3>1. /\ m \in DOMAIN p.sess /\ ServedOf(p, m, p.sess[m]) /\ r.sess[m] = p.sess[m]
          /\ m # NoOne
      BY <1>1, <1>3, PoolFields DEF PoolInv, ServedInv
    <3>2. \A k \in Claude!Job : r.using[k] = m => p.using[k] = m
      BY <1>2, <3>1
    <3> QED BY <3>1, <3>2 DEF ServedOf
  <2> QED BY <2>1 DEF ServedInv
<1>14. OwnedInv(r, w, d, s)
  <2>1. ASSUME NEW m \in DOMAIN r.sess
        PROVE  \/ m = s \/ r.sess[m].dead \/ m = w \/ IsIdle(r, m) \/ m \in d \/ Sticky(r, m)
               \/ \E k \in Claude!Job : r.using[k] = m
    <3>1. m # NoOne
      BY <1>1, <1>3, PoolFields
    <3>2. m # s => \A k \in Claude!Job : p.using[k] = m => r.using[k] = m
      BY <1>2 DEF s
    <3> QED BY <1>1, <1>6, <3>1, <3>2 DEF OwnedInv
  <2>2. ASSUME NEW k \in Claude!Job, r.using[k] # NoOne, r.pc[k] = "turn", keyOf(k) # NoOne
        PROVE  r.sess[r.using[k]].dead \/ Sticky(r, r.using[k]) \/ r.using[k] \in d
    <3>1. k # j
      BY <1>2, <2>2
    <3> QED BY <1>1, <1>2, <1>6, <2>2, <3>1 DEF OwnedInv
  <2> QED BY <2>1, <2>2 DEF OwnedInv
<1>15. GoingInv(r, st, NoOne, j)
  BY <1>1, <1>2, <1>3 DEF GoingInv
<1>16. Taken(r, j)
  <2>1. InThePool(r) = InThePool(p) /\ j \in InThePool(p)
    BY <1>2 DEF InThePool, InPool
  <2>2. IsFiniteSet(InThePool(p))
    BY SmallFacts, FS_Subset DEF InThePool
  <2>3. Cardinality(InThePool(p) \ {j}) = Cardinality(InThePool(p)) - 1
    BY <2>1, <2>2, FS_RemoveElement
  <2>4. Cardinality(InThePool(p)) \in Nat
    BY <2>2, FS_CardinalityType
  <2> QED BY <1>1, <2>1, <2>3, <2>4 DEF Counted, Taken
<1> QED
  BY <1>7, <1>8, <1>9, <1>10, <1>11, <1>12, <1>13, <1>14, <1>15, <1>16 DEF PoolInv, s

\* Job j, which has no session, goes to c, outside the pool.
LEMMA OutKeeps ==
    ASSUME load \in Loads, NEW p \in PoolRec, NEW w, NEW d, NEW st, NEW e, PoolInv(p, w),
           OwnedInv(p, w, d, e), e # NoOne => p.sess[e].dead,
           NEW j \in Claude!Job, GoingInv(p, st, NoOne, j), p.using[j] = NoOne,
           NEW c \in JobPc \ InPool, NEW r \in PoolRec, r.sess = p.sess, r.idle = p.idle,
           r.threads = p.threads, r.using = p.using, r.pc = [p.pc EXCEPT ![j] = c],
           r.active = Cardinality(InThePool(p) \ {j})
    PROVE  Sound(r, w, d, st)
<1>1. /\ r.pc[j] = c
      /\ \A k \in Claude!Job : k # j => r.pc[k] = p.pc[k]
  BY PoolFields
<1>2. NoOne \notin Nat /\ NoOne \notin Claude!Job
  BY SmallFacts
<1>3. \A m : (IsIdle(r, m) <=> IsIdle(p, m)) /\ (Sticky(r, m) <=> Sticky(p, m))
  BY DEF IsIdle, Sticky
<1>4. UsingInv(r, w)
  <2>1. ASSUME NEW k \in Claude!Job, r.using[k] # NoOne
        PROVE  k # j /\ r.pc[k] = p.pc[k]
    BY <1>1, <2>1
  <2> QED BY <1>3, <2>1 DEF PoolInv, UsingInv
<1>5. WarmInv(r, w) /\ IdleInv(r) /\ StickyInv(r) /\ ServedInv(r)
  BY <1>3 DEF PoolInv, WarmInv, IdleInv, StickyInv, ServedInv, ServedOf
<1>6. TurnInv(r)
  <2>1. ASSUME NEW m \in DOMAIN r.sess PROVE TurnOf(r, m, r.sess[m])
    <3>1. m \in DOMAIN p.sess /\ TurnOf(p, m, p.sess[m]) /\ r.sess[m] = p.sess[m] /\ m # NoOne
      BY <1>2, PoolFields DEF PoolInv, TurnInv
    <3>2. p.sess[m].inflight \in Claude!Job \cup {NoOne} /\ p.sess[m].q \in Seq(Claude!Job)
      BY <3>1, PoolFields, SessionFields
    <3>3. /\ p.sess[m].inflight # NoOne => r.pc[p.sess[m].inflight] = p.pc[p.sess[m].inflight]
          /\ \A i \in DOMAIN p.sess[m].q : r.pc[p.sess[m].q[i]] = p.pc[p.sess[m].q[i]]
      BY <1>1, <3>1, <3>2 DEF TurnOf
    <3> QED BY <3>1, <3>3 DEF TurnOf
  <2> QED BY <2>1 DEF TurnInv
<1>7. OwnedInv(r, w, d, NoOne)
  <2>1. ASSUME NEW m \in DOMAIN r.sess
        PROVE  \/ m = NoOne \/ r.sess[m].dead \/ m = w \/ IsIdle(r, m) \/ m \in d \/ Sticky(r, m)
               \/ \E k \in Claude!Job : r.using[k] = m
    BY <1>3 DEF OwnedInv
  <2>2. ASSUME NEW k \in Claude!Job, r.using[k] # NoOne, r.pc[k] = "turn", keyOf(k) # NoOne
        PROVE  r.sess[r.using[k]].dead \/ Sticky(r, r.using[k]) \/ r.using[k] \in d
    BY <1>1, <1>3, <2>2 DEF OwnedInv
  <2> QED BY <2>1, <2>2 DEF OwnedInv
<1>8. GoingInv(r, st, NoOne, NoOne)
  <2>1. ASSUME NEW k \in Claude!Job \ {NoOne}
        PROVE  /\ r.pc[k] \in InPool => r.using[k] # NoOne
               /\ st = {} /\ r.pc[k] = "turn" /\ r.using[k] # NoOne =>
                     /\ r.sess[r.using[k]].inflight # NoOne
                     /\ r.sess[r.using[k]].inflight = k \/ Among(k, r.sess[r.using[k]].q)
    <3>1. CASE k = j
      BY <1>1, <3>1 DEF InPool
    <3>2. CASE k # j
      BY <1>1, <3>2 DEF GoingInv
    <3> QED BY <3>1, <3>2
  <2> QED BY <2>1 DEF GoingInv
<1>9. Counted(r)
  <2>1. InThePool(r) = InThePool(p) \ {j}
    BY <1>1 DEF InThePool
  <2> QED BY <2>1 DEF Counted
<1> QED BY <1>4, <1>5, <1>6, <1>7, <1>8, <1>9 DEF Sound, PoolInv

\* A job outside the pool goes elsewhere outside the pool.
LEMMA ElsewhereKeeps ==
    ASSUME load \in Loads, NEW p, NEW w, NEW d, NEW st, Sound(p, w, d, st),
           NEW j \in Claude!Job, p.pc[j] \notin InPool, NEW c \in JobPc \ InPool,
           NEW r, r = [p EXCEPT !.pc = [p.pc EXCEPT ![j] = c]]
    PROVE  Sound(r, w, d, st)
<1>1. /\ p \in PoolRec /\ PoolInv(p, w) /\ OwnedInv(p, w, d, NoOne)
      /\ GoingInv(p, st, NoOne, NoOne) /\ Counted(p)
  BY DEF Sound
<1>2. p.using[j] = NoOne
  BY <1>1 DEF PoolInv, UsingInv
<1>3. /\ r \in PoolRec /\ r.sess = p.sess /\ r.idle = p.idle
      /\ r.threads = p.threads /\ r.using = p.using /\ r.pc = [p.pc EXCEPT ![j] = c]
      /\ r.active = p.active
  BY <1>1 DEF PoolRec
<1>4. InThePool(p) = InThePool(p) \ {j}
  BY DEF InThePool
<1>5. GoingInv(p, st, NoOne, j)
  BY <1>1, SmallFacts DEF GoingInv
<1>6. r.active = Cardinality(InThePool(p) \ {j})
  BY <1>1, <1>3, <1>4 DEF Counted
<1>7. load \in Loads /\ j \in Claude!Job /\ c \in JobPc \ InPool
  OBVIOUS
<1> DEFINE e == NoOne
<1>8. OwnedInv(p, w, d, e) /\ (e # NoOne => p.sess[e].dead)
  BY <1>1
<1> HIDE DEF e
<1> QED BY ONLY <1>1, <1>2, <1>3, <1>5, <1>6, <1>7, <1>8, OutKeeps, SMTT(30)

\* acquire: job j takes a slot.
LEMMA SlotKeeps ==
    ASSUME load \in Loads, NEW p, NEW w, NEW d, NEW st, Sound(p, w, d, st),
           NEW j \in Claude!Job, p.pc[j] \notin InPool,
           NEW r, r = [p EXCEPT !.active = @ + 1]
    PROVE  /\ r \in PoolRec /\ PoolInv(r, w) /\ OwnedInv(r, w, d, NoOne)
           /\ GoingInv(r, st, NoOne, j) /\ Taken(r, j) /\ r.using[j] = NoOne
           /\ r.sess = p.sess /\ r.idle = p.idle /\ r.threads = p.threads /\ r.using = p.using
<1>1. /\ p \in PoolRec /\ PoolInv(p, w) /\ OwnedInv(p, w, d, NoOne)
      /\ GoingInv(p, st, NoOne, NoOne) /\ Counted(p)
  BY DEF Sound
<1>2. /\ r \in PoolRec /\ r.sess = p.sess /\ r.idle = p.idle
      /\ r.threads = p.threads /\ r.using = p.using /\ r.pc = p.pc
      /\ r.active = p.active + 1
  <2> DEFINE a == p.active + 1
  <2>1. a \in Nat
    BY <1>1, PoolFields
  <2>2. r = [p EXCEPT !.active = a]
    BY Zenon
  <2>3. a = p.active + 1 /\ p \in PoolRec
    BY <1>1
  <2> HIDE DEF a
  <2> QED BY ONLY <2>1, <2>2, <2>3 DEF PoolRec
<1>3. \A m : (IsIdle(r, m) <=> IsIdle(p, m)) /\ (Sticky(r, m) <=> Sticky(p, m))
  BY <1>2 DEF IsIdle, Sticky
<1>4. UsingInv(r, w) /\ WarmInv(r, w) /\ IdleInv(r) /\ StickyInv(r)
  BY <1>1, <1>2, <1>3 DEF PoolInv, UsingInv, WarmInv, IdleInv, StickyInv
<1>5. TurnInv(r) /\ ServedInv(r)
  BY <1>1, <1>2 DEF PoolInv, TurnInv, TurnOf, ServedInv, ServedOf
<1>6. OwnedInv(r, w, d, NoOne)
  BY <1>1, <1>2, <1>3 DEF OwnedInv
<1>7. GoingInv(r, st, NoOne, j)
  BY <1>1, <1>2, SmallFacts DEF GoingInv
<1>8. Taken(r, j)
  <2>1. InThePool(p) = InThePool(r) \ {j}
    BY <1>2 DEF InThePool
  <2> QED BY <1>1, <1>2, <2>1 DEF Taken, Counted
<1>9. r.using[j] = NoOne
  BY <1>1, <1>2 DEF PoolInv, UsingInv
<1> QED BY <1>2, <1>4, <1>5, <1>6, <1>7, <1>8, <1>9 DEF PoolInv

\* The session being warmed becomes idle.
LEMMA PushKeeps ==
    ASSUME load \in Loads, NEW p, NEW w, NEW d, NEW st, Sound(p, w, d, st), w # NoOne,
           NEW r, r = [p EXCEPT !.idle = Append(@, w)]
    PROVE  Sound(r, NoOne, d, st)
<1>1. /\ p \in PoolRec /\ PoolInv(p, w) /\ OwnedInv(p, w, d, NoOne)
      /\ GoingInv(p, st, NoOne, NoOne) /\ Counted(p)
  BY DEF Sound
<1>2. /\ w \in DOMAIN p.sess /\ Unused(p.sess[w]) /\ ~IsIdle(p, w) /\ ~Sticky(p, w)
      /\ \A k \in Claude!Job : p.using[k] # w
  BY <1>1 DEF PoolInv, WarmInv, UsingInv
<1> DEFINE f == Append(p.idle, w)
<1>3. /\ f \in Seq(Nat) /\ DOMAIN f = (DOMAIN p.idle) \cup {Len(p.idle) + 1}
      /\ Len(p.idle) + 1 \notin DOMAIN p.idle /\ f[Len(p.idle) + 1] = w
      /\ \A i \in DOMAIN p.idle : f[i] = p.idle[i]
  <2>1. p.idle \in Seq(Nat) /\ w \in Nat
    BY <1>1, <1>2, PoolFields
  <2> QED BY <2>1, AppendFacts
<1>4. r = [p EXCEPT !.idle = f]
  BY Zenon
<1> HIDE DEF f
<1>5. /\ r \in PoolRec /\ r.sess = p.sess /\ r.idle = f /\ r.threads = p.threads
      /\ SameUse(p, r)
  <2>1. p \in PoolRec /\ f \in Seq(Nat)
    BY <1>1, <1>3
  <2> QED BY ONLY <1>4, <2>1, IdleSet, SMTT(30)
<1>6. /\ \A m : (IsIdle(r, m) <=> (IsIdle(p, m) \/ m = w)) /\ (Sticky(r, m) <=> Sticky(p, m))
      /\ r.using = p.using /\ r.pc = p.pc
  BY <1>3, <1>5 DEF IsIdle, Sticky, SameUse
<1>7. UsingInv(r, NoOne)
  BY <1>1, <1>2, <1>5, <1>6 DEF PoolInv, UsingInv
<1>8. WarmInv(r, NoOne)
  BY DEF WarmInv
<1>9. IdleInv(r)
  <2>1. /\ p.sess[w].turns < SESSION_MAX_TURNS /\ p.sess[w].served = {}
        /\ \A i \in DOMAIN p.idle : p.idle[i] # w
    BY <1>2, SmallFacts DEF Unused, IsIdle
  <2>2. ASSUME NEW i \in DOMAIN r.idle
        PROVE  /\ r.idle[i] \in DOMAIN r.sess /\ ~Sticky(r, r.idle[i])
               /\ r.sess[r.idle[i]].turns < SESSION_MAX_TURNS
               /\ \A k \in r.sess[r.idle[i]].served : keyOf(k) = NoOne
    <3>1. CASE i \in DOMAIN p.idle
      BY <1>1, <1>3, <1>5, <1>6, <3>1, ZenonT(60) DEF PoolInv, IdleInv
    <3>2. CASE i = Len(p.idle) + 1
      BY <1>2, <1>3, <1>5, <1>6, <2>1, <3>2
    <3> QED BY <1>3, <1>5, <3>1, <3>2
  <2>3. ASSUME NEW i \in DOMAIN r.idle, NEW k \in DOMAIN r.idle, r.idle[i] = r.idle[k]
        PROVE  i = k
    BY <1>1, <1>3, <1>5, <2>1, <2>3 DEF PoolInv, IdleInv
  <2> QED BY <2>2, <2>3 DEF IdleInv
<1>10. StickyInv(r) /\ TurnInv(r) /\ ServedInv(r)
  BY <1>1, <1>5, <1>6, SMTT(40) DEF PoolInv, StickyInv, TurnInv, TurnOf, ServedInv, ServedOf
<1>11. OwnedInv(r, NoOne, d, NoOne)
  BY <1>1, <1>5, <1>6 DEF OwnedInv
<1>12. GoingInv(r, st, NoOne, NoOne) /\ Counted(r)
  BY <1>1, <1>5, <1>6 DEF GoingInv, Counted, InThePool, SameUse
<1> QED BY <1>5, <1>7, <1>8, <1>9, <1>10, <1>11, <1>12 DEF PoolInv, Sound

\* The session being warmed died.
LEMMA UnwarmKeeps ==
    ASSUME NEW p, NEW w, NEW d, NEW st, Sound(p, w, d, st),
           w # NoOne, p.sess[w].dead
    PROVE  Sound(p, NoOne, d, st)
<1>1. /\ p \in PoolRec /\ PoolInv(p, w) /\ OwnedInv(p, w, d, NoOne)
      /\ GoingInv(p, st, NoOne, NoOne) /\ Counted(p)
  BY DEF Sound
<1>2. UsingInv(p, NoOne) /\ WarmInv(p, NoOne)
  BY <1>1 DEF PoolInv, UsingInv, WarmInv
<1>3. OwnedInv(p, NoOne, d, NoOne)
  BY <1>1 DEF OwnedInv
<1> QED BY <1>1, <1>2, <1>3 DEF Sound, PoolInv

-----------------------------------------------------------------------------
\* All of a sequence but its last element; all of it but element n.
LEMMA FrontFacts ==
    ASSUME NEW T, NEW u \in Seq(T), u # <<>>
    PROVE  /\ Claude!Front(u) \in Seq(T) /\ Len(u) \in DOMAIN u
           /\ DOMAIN Claude!Front(u) = (DOMAIN u) \ {Len(u)}
           /\ \A i \in DOMAIN Claude!Front(u) : Claude!Front(u)[i] = u[i]
BY DEF Claude!Front

\* Without element n: the others are all there, in their order.
LEMMA RemoveFacts ==
    ASSUME NEW T, NEW u \in Seq(T), NEW n \in DOMAIN u, NEW v, v = Claude!RemoveAt(u, n)
    PROVE  /\ v \in Seq(T)
           /\ \A i \in DOMAIN v : \E m \in DOMAIN u :
                 v[i] = u[m] /\ m # n /\ m = IF i < n THEN i ELSE i + 1
           /\ \A m \in DOMAIN u : m # n => \E i \in DOMAIN v : v[i] = u[m]
<1>1. n \in 1..Len(u) /\ Len(u) \in Nat
  OBVIOUS
<1>2. v = SubSeq(u, 1, n - 1) \o SubSeq(u, n + 1, Len(u))
  BY DEF Claude!RemoveAt
<1>3. /\ SubSeq(u, 1, n - 1) \in Seq(T) /\ Len(SubSeq(u, 1, n - 1)) = n - 1
      /\ \A i \in 1..n - 1 : SubSeq(u, 1, n - 1)[i] = u[i]
  BY <1>1
<1>4. /\ SubSeq(u, n + 1, Len(u)) \in Seq(T) /\ Len(SubSeq(u, n + 1, Len(u))) = Len(u) - n
      /\ \A i \in 1..Len(u) - n : SubSeq(u, n + 1, Len(u))[i] = u[i + n]
  BY <1>1
<1>5. /\ v \in Seq(T) /\ DOMAIN v = 1..Len(u) - 1
      /\ \A i \in 1..Len(u) - 1 : v[i] = IF i < n THEN u[i] ELSE u[i + 1]
  <2> DEFINE a == SubSeq(u, 1, n - 1)
             b == SubSeq(u, n + 1, Len(u))
  <2>1. /\ a \in Seq(T) /\ Len(a) = n - 1 /\ b \in Seq(T) /\ Len(b) = Len(u) - n
        /\ \A i \in 1..n - 1 : a[i] = u[i]
        /\ \A i \in 1..Len(u) - n : b[i] = u[i + n]
    BY <1>3, <1>4
  <2>2. v = a \o b
    BY <1>2
  <2> HIDE DEF a, b
  <2>3. v \in Seq(T) /\ Len(v) = Len(u) - 1
    BY <1>1, <2>1, <2>2
  <2>4. ASSUME NEW i \in 1..Len(u) - 1
        PROVE  v[i] = IF i < n THEN u[i] ELSE u[i + 1]
    <3>1. CASE i < n
      <4>1. v[i] = a[i]
        BY <1>1, <2>1, <2>2, <3>1
      <4> QED BY <1>1, <2>1, <3>1, <4>1
    <3>2. CASE ~(i < n)
      <4>1. v[i] = b[i - (n - 1)]
        BY <1>1, <2>1, <2>2, <3>2, SMTT(40)
      <4>2. i - (n - 1) \in 1..Len(u) - n /\ i - (n - 1) + n = i + 1
        BY <1>1, <3>2
      <4> QED BY <2>1, <3>2, <4>1, <4>2
    <3> QED BY <3>1, <3>2
  <2> QED BY <2>3, <2>4
<1>6. \A i \in DOMAIN v : \E m \in DOMAIN u :
         v[i] = u[m] /\ m # n /\ m = IF i < n THEN i ELSE i + 1
  BY <1>1, <1>5
<1>7. ASSUME NEW m \in DOMAIN u, m # n PROVE \E i \in DOMAIN v : v[i] = u[m]
  <2>1. CASE m < n
    BY <1>1, <1>5, <2>1
  <2>2. CASE m > n
    <3>1. m - 1 \in DOMAIN v /\ v[m - 1] = u[m]
      BY <1>1, <1>5, <2>2
    <3> QED BY <3>1
  <2> QED BY <1>1, <1>7, <2>1, <2>2
<1> QED BY <1>5, <1>6, <1>7

\* The last of the idle sessions is taken.
LEMMA PopKeeps ==
    ASSUME load \in Loads, NEW p \in PoolRec, NEW w, NEW d, NEW st, NEW x, PoolInv(p, w),
           OwnedInv(p, w, d, NoOne), GoingInv(p, st, NoOne, x), p.idle # <<>>,
           NEW s, s = p.idle[Len(p.idle)], NEW r, r = [p EXCEPT !.idle = Claude!Front(@)]
    PROVE  /\ r \in PoolRec /\ r.sess = p.sess /\ r.threads = p.threads /\ SameUse(p, r)
           /\ PoolInv(r, w) /\ OwnedInv(r, w, d, s) /\ GoingInv(r, st, NoOne, x)
           /\ s \in DOMAIN p.sess /\ ~IsIdle(r, s) /\ ~Sticky(r, s) /\ s # w
           /\ \A k \in Claude!Job : p.using[k] # s
           /\ p.sess[s].turns < SESSION_MAX_TURNS
           /\ \A k \in p.sess[s].served : keyOf(k) = NoOne
<1> DEFINE f == Claude!Front(p.idle)
<1>1. p.idle \in Seq(Nat)
  BY PoolFields
<1>2. /\ f \in Seq(Nat) /\ Len(p.idle) \in DOMAIN p.idle
      /\ DOMAIN f = (DOMAIN p.idle) \ {Len(p.idle)}
      /\ \A i \in DOMAIN f : f[i] = p.idle[i]
  BY <1>1, FrontFacts
<1>3. r = [p EXCEPT !.idle = f]
  BY Zenon
<1> HIDE DEF f
<1>4. /\ r \in PoolRec /\ r.sess = p.sess /\ r.idle = f /\ r.threads = p.threads
      /\ SameUse(p, r)
  <2>1. p \in PoolRec
    OBVIOUS
  <2> QED BY ONLY <1>2, <1>3, <2>1, IdleSet, SMTT(30)
<1>5. /\ s \in DOMAIN p.sess /\ ~Sticky(p, s) /\ IsIdle(p, s)
      /\ \A i \in DOMAIN p.idle : p.idle[i] = s => i = Len(p.idle)
      /\ p.sess[s].turns < SESSION_MAX_TURNS
      /\ \A k \in p.sess[s].served : keyOf(k) = NoOne
  BY <1>2 DEF PoolInv, IdleInv, IsIdle
<1>6. /\ \A m : (IsIdle(r, m) <=> (IsIdle(p, m) /\ m # s)) /\ (Sticky(r, m) <=> Sticky(p, m))
      /\ r.using = p.using /\ r.pc = p.pc
  BY <1>2, <1>4, <1>5 DEF IsIdle, Sticky, SameUse
<1>7. s # w /\ \A k \in Claude!Job : p.using[k] # s
  <2>1. s # NoOne
    BY <1>5, PoolFields, SmallFacts
  <2> QED BY <1>5, <2>1 DEF PoolInv, UsingInv, WarmInv
<1>8. UsingInv(r, w) /\ WarmInv(r, w)
  BY <1>4, <1>6 DEF PoolInv, UsingInv, WarmInv
<1>9. IdleInv(r)
  BY <1>2, <1>4, <1>6 DEF PoolInv, IdleInv
<1>10. StickyInv(r) /\ TurnInv(r) /\ ServedInv(r)
  BY <1>4, <1>6, SMTT(40) DEF PoolInv, StickyInv, TurnInv, TurnOf, ServedInv, ServedOf
<1>11. OwnedInv(r, w, d, s)
  <2>1. ASSUME NEW m \in DOMAIN r.sess
        PROVE  \/ m = s \/ r.sess[m].dead \/ m = w \/ IsIdle(r, m) \/ m \in d \/ Sticky(r, m)
               \/ \E k \in Claude!Job : r.using[k] = m
    <3>1. m \in DOMAIN p.sess /\ m # NoOne
      BY <1>4, PoolFields, SmallFacts
    <3> QED BY <1>4, <1>6, <3>1 DEF OwnedInv
  <2>2. ASSUME NEW k \in Claude!Job, r.using[k] # NoOne, r.pc[k] = "turn", keyOf(k) # NoOne
        PROVE  r.sess[r.using[k]].dead \/ Sticky(r, r.using[k]) \/ r.using[k] \in d
    BY <1>4, <1>6, <2>2 DEF OwnedInv
  <2> QED BY <2>1, <2>2 DEF OwnedInv
<1>12. GoingInv(r, st, NoOne, x)
  BY <1>4, <1>6 DEF GoingInv
<1> QED BY <1>4, <1>5, <1>6, <1>7, <1>8, <1>9, <1>10, <1>11, <1>12 DEF PoolInv

-----------------------------------------------------------------------------
\* f has only pairs of the map t, each once, and those it lacks have sessions in S.
Part(f, t, S) ==
    /\ \A i \in DOMAIN f : \E m \in DOMAIN t : f[i] = t[m]
    /\ \A i, k \in DOMAIN f : f[i] = f[k] => i = k
    /\ \A m \in DOMAIN t : (\E i \in DOMAIN f : f[i] = t[m]) \/ t[m][2] \in S
Dropped(p, f, S) == Claude!kill([p EXCEPT !.threads = f], S)
\* Pool r is p without some pairs of the map, whose sessions are dead.
Drops(p, r) ==
    /\ r \in PoolRec /\ r.idle = p.idle /\ SameUse(p, r) /\ DOMAIN r.sess = DOMAIN p.sess
    /\ \A m \in DOMAIN p.sess : Kept(p.sess[m], r.sess[m])
    /\ \A m \in DOMAIN p.sess : p.sess[m].dead => r.sess[m].dead
    /\ \A i \in DOMAIN r.threads : \E m \in DOMAIN p.threads : r.threads[i] = p.threads[m]
    /\ \A m \in DOMAIN p.sess : Sticky(p, m) => Sticky(r, m) \/ r.sess[m].dead

\* Threads may leave the map when their sessions are killed.
LEMMA DropKeeps ==
    ASSUME load \in Loads, NEW p \in PoolRec, NEW w, NEW d, NEW e, NEW st, NEW o, NEW x,
           PoolInv(p, w), OwnedInv(p, w, d, e), GoingInv(p, st, o, x),
           NEW S, NEW f \in Seq(Sticking), Part(f, p.threads, S), NEW r, r = Dropped(p, f, S)
    PROVE  PoolInv(r, w) /\ OwnedInv(r, w, d, e) /\ GoingInv(r, st, o, x) /\ Drops(p, r)
<1> DEFINE p1 == [p EXCEPT !.threads = f]
<1>1. /\ p1 \in PoolRec /\ p1.sess = p.sess /\ p1.idle = p.idle /\ p1.threads = f
      /\ SameUse(p, p1)
  BY ThreadsSet
<1>2. r = Claude!kill(p1, S)
  BY DEF Dropped
<1> HIDE DEF p1
<1>3. /\ r \in PoolRec /\ DOMAIN r.sess = DOMAIN p1.sess /\ r.idle = p1.idle
      /\ r.threads = p1.threads /\ SameUse(p1, r)
      /\ \A s \in DOMAIN p1.sess :
           /\ Kept(p1.sess[s], r.sess[s])
           /\ r.sess[s].dead <=> (p1.sess[s].dead \/ s \in S)
  BY ONLY <1>1, <1>2, KillFacts, SMTT(30)
<1>4. /\ DOMAIN r.sess = DOMAIN p.sess /\ r.idle = p.idle /\ r.threads = f
      /\ r.using = p.using /\ r.pc = p.pc /\ r.active = p.active
      /\ \A m : IsIdle(r, m) <=> IsIdle(p, m)
  BY <1>1, <1>3 DEF SameUse, IsIdle
<1>5. \A m \in DOMAIN p.sess :
         /\ r.sess[m].turns = p.sess[m].turns /\ r.sess[m].q = p.sess[m].q
         /\ r.sess[m].served = p.sess[m].served /\ r.sess[m].inflight = p.sess[m].inflight
         /\ r.sess[m].gone = p.sess[m].gone /\ r.sess[m].armed = p.sess[m].armed
         /\ r.sess[m].dead <=> (p.sess[m].dead \/ m \in S)
  BY <1>1, <1>3 DEF Kept
<1>6. \A i \in DOMAIN f : \E m \in DOMAIN p.threads : f[i] = p.threads[m]
  BY DEF Part
<1>7. \A m : Sticky(r, m) => Sticky(p, m)
  BY <1>4, <1>6 DEF Sticky
<1>8. ASSUME NEW m \in DOMAIN p.sess, Sticky(p, m) PROVE Sticky(r, m) \/ r.sess[m].dead
  <2>1. PICK i \in DOMAIN p.threads : p.threads[i][2] = m
    BY <1>8 DEF Sticky
  <2>2. CASE p.threads[i][2] \in S
    BY <1>5, <2>1, <2>2
  <2>3. CASE \E k \in DOMAIN f : f[k] = p.threads[i]
    BY <1>4, <2>1, <2>3 DEF Sticky
  <2> QED BY <2>2, <2>3 DEF Part
<1>9. UsingInv(r, w)
  <2>1. ASSUME NEW k \in Claude!Job, r.using[k] # NoOne
        PROVE  /\ r.using[k] \in DOMAIN r.sess /\ r.pc[k] \in InPool
               /\ ~IsIdle(r, r.using[k]) /\ r.using[k] # w
               /\ r.pc[k] = "spawn" => ~Sticky(r, r.using[k]) /\ Unused(r.sess[r.using[k]])
    BY <1>4, <1>5, <1>7, <2>1 DEF PoolInv, UsingInv, Unused
  <2>2. ASSUME NEW k \in Claude!Job, r.using[k] # NoOne, r.pc[k] = "spawn" \/ keyOf(k) = NoOne,
               NEW n \in Claude!Job, r.using[n] = r.using[k]
        PROVE  n = k
    BY <1>4, <2>2 DEF PoolInv, UsingInv
  <2> QED BY <2>1, <2>2 DEF UsingInv
<1>10. WarmInv(r, w)
  BY <1>4, <1>5, <1>7 DEF PoolInv, WarmInv, Unused
<1>11. IdleInv(r)
  BY <1>4, <1>5, <1>7 DEF PoolInv, IdleInv
<1>12. StickyInv(r)
  <2>1. ASSUME NEW i \in DOMAIN f
        PROVE  /\ f[i][2] \in DOMAIN r.sess /\ f[i][1] # NoOne
               /\ \A k \in r.sess[f[i][2]].served : keyOf(k) = f[i][1]
               /\ \A k \in Claude!Job : r.using[k] = f[i][2] => keyOf(k) = f[i][1]
    BY <1>4, <1>5, <1>6 DEF PoolInv, StickyInv
  <2>2. ASSUME NEW i \in DOMAIN f, NEW k \in DOMAIN f, f[i][1] = f[k][1] \/ f[i][2] = f[k][2]
        PROVE  i = k
    <3>1. PICK m \in DOMAIN p.threads : f[i] = p.threads[m]
      BY <1>6
    <3>2. PICK n \in DOMAIN p.threads : f[k] = p.threads[n]
      BY <1>6
    <3>3. m = n
      BY <2>2, <3>1, <3>2 DEF PoolInv, StickyInv
    <3> QED BY <3>1, <3>2, <3>3 DEF Part
  <2> QED BY <1>4, <2>1, <2>2 DEF StickyInv
<1>13. TurnInv(r)
  <2>1. ASSUME NEW m \in DOMAIN r.sess PROVE TurnOf(r, m, r.sess[m])
    <3>1. m \in DOMAIN p.sess /\ TurnOf(p, m, p.sess[m])
      BY <1>4 DEF PoolInv, TurnInv
    <3> QED BY <1>4, <1>5, <3>1 DEF TurnOf
  <2> QED BY <2>1 DEF TurnInv
<1>14. ServedInv(r)
  BY <1>4, <1>5 DEF PoolInv, ServedInv, ServedOf
<1>15. OwnedInv(r, w, d, e)
  <2>1. ASSUME NEW m \in DOMAIN r.sess
        PROVE  \/ m = e \/ r.sess[m].dead \/ m = w \/ IsIdle(r, m) \/ m \in d \/ Sticky(r, m)
               \/ \E k \in Claude!Job : r.using[k] = m
    BY <1>4, <1>5, <1>8 DEF OwnedInv
  <2>2. ASSUME NEW k \in Claude!Job, r.using[k] # NoOne, r.pc[k] = "turn", keyOf(k) # NoOne
        PROVE  r.sess[r.using[k]].dead \/ Sticky(r, r.using[k]) \/ r.using[k] \in d
    <3>1. p.using[k] \in DOMAIN p.sess
      BY <1>4, <2>2 DEF PoolInv, UsingInv
    <3> QED BY <1>4, <1>5, <1>8, <2>2, <3>1 DEF OwnedInv
  <2> QED BY <2>1, <2>2 DEF OwnedInv
<1>16. GoingInv(r, st, o, x)
  <2>1. ASSUME NEW k \in Claude!Job \ {x}
        PROVE  /\ r.pc[k] \in InPool => r.using[k] # NoOne
               /\ st = {} /\ r.pc[k] = "turn" /\ r.using[k] # o =>
                     /\ r.sess[r.using[k]].inflight # NoOne
                     /\ r.sess[r.using[k]].inflight = k \/ Among(k, r.sess[r.using[k]].q)
    <3>1. r.pc[k] = "turn" => r.using[k] \in DOMAIN p.sess
      BY <1>4 DEF GoingInv, InPool, PoolInv, UsingInv
    <3> QED BY <1>4, <1>5, <3>1 DEF GoingInv
  <2> QED BY <2>1 DEF GoingInv
<1>17. Drops(p, r)
  BY <1>1, <1>3, <1>4, <1>5, <1>6, <1>8 DEF Drops, SameUse
<1> QED
  BY <1>9, <1>10, <1>11, <1>12, <1>13, <1>14, <1>15, <1>16, <1>17 DEF PoolInv

-----------------------------------------------------------------------------
\* The sessions of thread_key k.
Old(p, k) == {p.threads[i][2] : i \in {n \in DOMAIN p.threads : p.threads[n][1] = k}}
\* f is the map t with session s at k: entry c.
Sets(f, t, k, s, c) ==
    /\ f \in Seq(Sticking) /\ c \in DOMAIN f /\ f[c][1] = k /\ f[c][2] = s
    /\ \A i \in DOMAIN f : i # c => i \in DOMAIN t /\ f[i] = t[i] /\ t[i][1] # k
    /\ \A i \in DOMAIN t : t[i][1] # k => i \in DOMAIN f /\ i # c

\* setThread gives k the session s and leaves the other keys alone.
LEMMA SetFacts ==
    ASSUME NEW p \in PoolRec, StickyInv(p), NEW k \in {keyOf(j) : j \in Claude!Job},
           NEW s \in Nat, NEW r, r = Claude!setThread(p, k, s)
    PROVE  /\ r \in PoolRec /\ r.sess = p.sess /\ r.idle = p.idle /\ SameUse(p, r)
           /\ \E c : Sets(r.threads, p.threads, k, s, c)
<1> DEFINE t == p.threads
           at == {n \in DOMAIN t : t[n][1] = k}
<1>1. t \in Seq(Sticking) /\ <<k, s>> \in Sticking
  BY PoolFields DEF Sticking
<1>2. at = {n \in DOMAIN p.threads : Claude!keyOf(p.threads[n]) = k}
  BY DEF Claude!keyOf
<1>3. CASE at = {}
  <2> DEFINE f == Append(t, <<k, s>>)
  <2>1. r = [p EXCEPT !.threads = f]
    BY <1>2, <1>3 DEF Claude!setThread
  <2>2. /\ f \in Seq(Sticking) /\ DOMAIN f = (DOMAIN t) \cup {Len(t) + 1}
        /\ Len(t) + 1 \notin DOMAIN t /\ f[Len(t) + 1] = <<k, s>>
        /\ \A i \in DOMAIN t : f[i] = t[i]
    BY <1>1, AppendFacts
  <2>3. Sets(f, t, k, s, Len(t) + 1)
    BY <1>3, <2>2 DEF Sets
  <2> HIDE DEF f
  <2>4. p \in PoolRec
    OBVIOUS
  <2>5. /\ r \in PoolRec /\ r.sess = p.sess /\ r.idle = p.idle /\ SameUse(p, r)
        /\ r.threads = f
    BY ONLY <2>1, <2>2, <2>4, ThreadsSet, SMTT(30)
  <2> QED BY <2>3, <2>5
<1>4. CASE at # {}
  <2> DEFINE c == CHOOSE n \in at : TRUE
             f == [t EXCEPT ![c] = <<k, s>>]
  <2>0. c \in at
    BY <1>4
  <2>1. r = [p EXCEPT !.threads = f]
    BY <1>2, <1>4 DEF Claude!setThread
  <2> HIDE DEF c
  <2>2. c \in DOMAIN t /\ t[c][1] = k
    BY <2>0
  <2>3. /\ f \in Seq(Sticking) /\ DOMAIN f = DOMAIN t /\ f[c] = <<k, s>>
        /\ \A i \in DOMAIN t : i # c => f[i] = t[i]
    BY <1>1, <2>2
  <2>4. \A i \in DOMAIN t : i # c => t[i][1] # k
    BY <2>2 DEF StickyInv
  <2>5. Sets(f, t, k, s, c)
    BY <2>2, <2>3, <2>4 DEF Sets
  <2> HIDE DEF f
  <2>6. p \in PoolRec
    OBVIOUS
  <2>7. /\ r \in PoolRec /\ r.sess = p.sess /\ r.idle = p.idle /\ SameUse(p, r)
        /\ r.threads = f
    BY ONLY <2>1, <2>3, <2>6, ThreadsSet, SMTT(30)
  <2> QED BY <2>5, <2>7
<1> QED BY <1>3, <1>4

\* A new session becomes that of thread_key k.
LEMMA SetKeeps ==
    ASSUME load \in Loads, NEW p \in PoolRec, NEW w, NEW d, NEW st, NEW x, PoolInv(p, w),
           NEW s, OwnedInv(p, w, d, s), GoingInv(p, st, NoOne, x), Free(p, w, s),
           NEW k \in {keyOf(j) : j \in Claude!Job}, k # NoOne,
           NEW r, r = Claude!setThread(p, k, s)
    PROVE  /\ r \in PoolRec /\ r.sess = p.sess /\ r.idle = p.idle /\ SameUse(p, r)
           /\ PoolInv(r, w) /\ OwnedInv(r, w, d \cup Old(p, k), s) /\ GoingInv(r, st, NoOne, x)
           /\ Sticky(r, s)
           /\ \A i \in DOMAIN r.threads : r.threads[i][2] = s => r.threads[i][1] = k
<1>0. /\ s \in DOMAIN p.sess /\ Unused(p.sess[s]) /\ ~IsIdle(p, s) /\ ~Sticky(p, s)
      /\ s # w /\ \A i \in Claude!Job : p.using[i] # s
  BY DEF Free
<1>1. s \in Nat
  BY <1>0, PoolFields
<1>2. /\ r \in PoolRec /\ r.sess = p.sess /\ r.idle = p.idle /\ SameUse(p, r)
      /\ \E c : Sets(r.threads, p.threads, k, s, c)
  <2>1. p \in PoolRec /\ StickyInv(p) /\ k \in {keyOf(j) : j \in Claude!Job}
        /\ r = Claude!setThread(p, k, s)
    BY DEF PoolInv
  <2> QED BY ONLY <1>1, <2>1, SetFacts, SMTT(30)
<1>3. PICK c : Sets(r.threads, p.threads, k, s, c)
  BY <1>2
<1> DEFINE t == p.threads
           f == r.threads
<1>4. /\ c \in DOMAIN f /\ f[c][1] = k /\ f[c][2] = s
      /\ \A i \in DOMAIN f : i # c => i \in DOMAIN t /\ f[i] = t[i] /\ t[i][1] # k
      /\ \A i \in DOMAIN t : t[i][1] # k => i \in DOMAIN f /\ f[i] = t[i]
  BY <1>3 DEF Sets
<1>5. \A i \in DOMAIN t : t[i][2] # s
  BY <1>0 DEF Sticky
<1>6. /\ r.using = p.using /\ r.pc = p.pc /\ \A m : IsIdle(r, m) <=> IsIdle(p, m)
  BY <1>2 DEF SameUse, IsIdle
<1>7. \A m : Sticky(r, m) => m = s \/ Sticky(p, m)
  BY <1>4 DEF Sticky
<1>8. \A m : Sticky(p, m) => Sticky(r, m) \/ m \in Old(p, k)
  BY <1>4 DEF Sticky, Old
<1>9. UsingInv(r, w) /\ WarmInv(r, w)
  BY <1>0, <1>2, <1>6, <1>7 DEF PoolInv, UsingInv, WarmInv
<1>10. IdleInv(r)
  <2>1. \A i \in DOMAIN p.idle : p.idle[i] # s
    BY <1>0 DEF IsIdle
  <2> QED BY <1>2, <1>7, <2>1 DEF PoolInv, IdleInv
<1>11. StickyInv(r)
  <2>1. ASSUME NEW i \in DOMAIN f
        PROVE  /\ f[i][2] \in DOMAIN r.sess /\ f[i][1] # NoOne
               /\ \A n \in r.sess[f[i][2]].served : keyOf(n) = f[i][1]
               /\ \A n \in Claude!Job : r.using[n] = f[i][2] => keyOf(n) = f[i][1]
    <3>1. CASE i = c
      BY <1>0, <1>2, <1>4, <1>6, <3>1 DEF Unused
    <3>2. CASE i # c
      BY <1>2, <1>4, <1>6, <3>2 DEF PoolInv, StickyInv
    <3> QED BY <3>1, <3>2
  <2>2. ASSUME NEW i \in DOMAIN f, NEW n \in DOMAIN f, f[i][1] = f[n][1] \/ f[i][2] = f[n][2]
        PROVE  i = n
    <3>1. CASE i = c \/ n = c
      BY <1>4, <1>5, <2>2, <3>1
    <3>2. CASE i # c /\ n # c
      BY <1>4, <2>2, <3>2 DEF PoolInv, StickyInv
    <3> QED BY <3>1, <3>2
  <2> QED BY <2>1, <2>2 DEF StickyInv
<1>12. TurnInv(r) /\ ServedInv(r)
  BY <1>2, <1>6 DEF PoolInv, TurnInv, TurnOf, ServedInv, ServedOf
<1>13. OwnedInv(r, w, d \cup Old(p, k), s)
  <2>1. ASSUME NEW m \in DOMAIN r.sess
        PROVE  \/ m = s \/ r.sess[m].dead \/ m = w \/ IsIdle(r, m)
               \/ m \in d \cup Old(p, k) \/ Sticky(r, m)
               \/ \E n \in Claude!Job : r.using[n] = m
    BY <1>2, <1>6, <1>8 DEF OwnedInv
  <2>2. ASSUME NEW n \in Claude!Job, r.using[n] # NoOne, r.pc[n] = "turn", keyOf(n) # NoOne
        PROVE  \/ r.sess[r.using[n]].dead \/ Sticky(r, r.using[n])
               \/ r.using[n] \in d \cup Old(p, k)
    BY <1>2, <1>6, <1>8, <2>2 DEF OwnedInv
  <2> QED BY <2>1, <2>2 DEF OwnedInv
<1>14. GoingInv(r, st, NoOne, x)
  BY <1>2, <1>6 DEF GoingInv
<1>15. Sticky(r, s) /\ \A i \in DOMAIN f : f[i][2] = s => f[i][1] = k
  <2>1. Sticky(r, s)
    BY <1>4 DEF Sticky
  <2>2. \A i \in DOMAIN f : f[i][2] = s => f[i][1] = k
    BY <1>4, <1>5
  <2> QED BY <2>1, <2>2
<1> QED BY <1>2, <1>9, <1>10, <1>11, <1>12, <1>13, <1>14, <1>15 DEF PoolInv

\* Nothing is dropped.
LEMMA NoDrop ==
    ASSUME NEW p \in PoolRec
    PROVE  Drops(p, p)
BY DEF Drops, SameUse, Kept

\* The session of thread_key k is dropped and killed.
LEMMA DelKeeps ==
    ASSUME load \in Loads, NEW p \in PoolRec, NEW w, NEW d, NEW e, NEW st, NEW o, NEW x,
           PoolInv(p, w), OwnedInv(p, w, d, e), GoingInv(p, st, o, x),
           NEW k, NEW r, r = Claude!kill(Claude!delThread(p, k), Old(p, k))
    PROVE  PoolInv(r, w) /\ OwnedInv(r, w, d, e) /\ GoingInv(r, st, o, x) /\ Drops(p, r)
<1> DEFINE t == p.threads
           at == {n \in DOMAIN t : t[n][1] = k}
<1>1. t \in Seq(Sticking) /\ DOMAIN t \subseteq Nat
  BY PoolFields
<1>2. at = {n \in DOMAIN p.threads : Claude!keyOf(p.threads[n]) = k}
  BY DEF Claude!keyOf
<1>3. \A i, n \in DOMAIN t : t[i] = t[n] => i = n
  BY DEF PoolInv, StickyInv
<1>4. \E f \in Seq(Sticking) : \E S : Part(f, t, S) /\ r = Dropped(p, f, S)
  <2>1. CASE at = {}
    <3>1. Claude!delThread(p, k) = p
      BY <1>2, <2>1 DEF Claude!delThread
    <3>2. p = [p EXCEPT !.threads = t]
      BY DEF PoolRec
    <3>3. r = Dropped(p, t, Old(p, k))
      BY <3>1, <3>2 DEF Dropped
    <3>4. Part(t, t, Old(p, k))
      BY <1>3 DEF Part
    <3> QED BY <1>1, <3>3, <3>4
  <2>2. CASE at # {}
    <3> DEFINE c == CHOOSE n \in at : TRUE
               f == Claude!RemoveAt(t, c)
    <3>1. c \in at
      BY <2>2
    <3>2. Claude!delThread(p, k) = [p EXCEPT !.threads = f]
      BY <1>2, <2>2 DEF Claude!delThread
    <3> HIDE DEF c
    <3>3. c \in DOMAIN t /\ t[c][2] \in Old(p, k)
      BY <3>1 DEF Old
    <3>3a. f = Claude!RemoveAt(t, c)
      OBVIOUS
    <3> HIDE DEF f, t
    <3>4. /\ f \in Seq(Sticking)
          /\ \A i \in DOMAIN f : \E m \in DOMAIN t :
                f[i] = t[m] /\ m # c /\ m = IF i < c THEN i ELSE i + 1
          /\ \A m \in DOMAIN t : m # c => \E i \in DOMAIN f : f[i] = t[m]
      BY ONLY <1>1, <3>3, <3>3a, RemoveFacts, SMTT(30)
    <3>5. r = Dropped(p, f, Old(p, k))
      BY <3>2 DEF Dropped
    <3>6. \A i, n \in DOMAIN f : f[i] = f[n] => i = n
      <4>1. TAKE i, n \in DOMAIN f
      <4>2. HAVE f[i] = f[n]
      <4>3. PICK a \in DOMAIN t : f[i] = t[a] /\ a # c /\ a = IF i < c THEN i ELSE i + 1
        BY <3>4
      <4>4. PICK b \in DOMAIN t : f[n] = t[b] /\ b # c /\ b = IF n < c THEN n ELSE n + 1
        BY <3>4
      <4>5. a = b
        BY <1>3, <4>2, <4>3, <4>4
      <4>6. i \in Nat /\ n \in Nat /\ c \in Nat
        <5>1. f \in Seq(Sticking)
          BY <3>4
        <5>2. i \in Nat /\ n \in Nat
          BY <5>1
        <5>3. c \in Nat
          BY <1>1, <3>3
        <5> QED BY <5>2, <5>3
      <4>7. CASE i < c /\ n < c
        BY ONLY <4>3, <4>4, <4>5, <4>7
      <4>8. CASE ~(i < c) /\ ~(n < c)
        BY ONLY <4>3, <4>4, <4>5, <4>6, <4>8
      <4>9. CASE (i < c) # (n < c)
        BY ONLY <4>3, <4>4, <4>5, <4>6, <4>9
      <4> QED BY ONLY <4>7, <4>8, <4>9
    <3>7. Part(f, t, Old(p, k))
      BY <3>3, <3>4, <3>6 DEF Part
    <3> QED BY <3>4, <3>5, <3>7
  <2> QED BY <2>1, <2>2
<1>5. PICK f \in Seq(Sticking) : \E S : Part(f, t, S) /\ r = Dropped(p, f, S)
  BY <1>4
<1>6. PICK S : Part(f, t, S) /\ r = Dropped(p, f, S)
  BY <1>5
<1> QED BY <1>6, DropKeeps

\* evictThreads: the oldest entries of the map are dropped.
LEMMA EvictKeeps ==
    ASSUME load \in Loads, NEW p \in PoolRec, NEW w, NEW d, NEW e, NEW st, NEW o, NEW x,
           PoolInv(p, w), OwnedInv(p, w, d, e), GoingInv(p, st, o, x),
           NEW r, r = Claude!evictThreads(p)
    PROVE  PoolInv(r, w) /\ OwnedInv(r, w, d, e) /\ GoingInv(r, st, o, x) /\ Drops(p, r)
<1> DEFINE t == p.threads
           n == Len(t) - MAX_THREADS
<1>1. t \in Seq(Sticking) /\ DOMAIN t = 1..Len(t) /\ Len(t) \in Nat
  BY PoolFields
<1>2. MAX_THREADS \in Nat
  BY ClaudeAssume DEF Claude!ClaudeAssumption
<1>3. \A i, m \in DOMAIN t : t[i] = t[m] => i = m
  BY DEF PoolInv, StickyInv
<1>4. CASE n <= 0
  <2>1. r = p
    BY <1>4 DEF Claude!evictThreads
  <2> QED BY <2>1, NoDrop
<1>5. CASE ~(n <= 0)
  <2> DEFINE f == SubSeq(t, n + 1, Len(t))
             S == {t[i][2] : i \in 1..n}
  <2>1. r = Dropped(p, f, S)
    BY <1>5 DEF Claude!evictThreads, Dropped
  <2>2. n \in Nat /\ n <= Len(t)
    BY <1>1, <1>2, <1>5
  <2> HIDE DEF n
  <2>3. /\ f \in Seq(Sticking) /\ Len(f) = Len(t) - n
        /\ \A i \in 1..Len(t) - n : f[i] = t[i + n]
    BY <1>1, <2>2
  <2> HIDE DEF f
  <2>4. DOMAIN f = 1..Len(t) - n
    BY <2>3
  <2>5. \A i \in DOMAIN f : i + n \in DOMAIN t /\ f[i] = t[i + n]
    BY <1>1, <2>2, <2>3, <2>4
  <2>6. \A i, m \in DOMAIN f : f[i] = f[m] => i = m
    <3>1. TAKE i, m \in DOMAIN f
    <3>2. HAVE f[i] = f[m]
    <3>3. i + n = m + n
      BY <1>3, <2>5, <3>2
    <3>4. i \in Nat /\ m \in Nat
      BY <2>2, <2>4, <1>1
    <3> QED BY ONLY <2>2, <3>3, <3>4
  <2>7. ASSUME NEW m \in DOMAIN t PROVE (\E i \in DOMAIN f : f[i] = t[m]) \/ t[m][2] \in S
    <3>1. CASE m <= n
      <4>1. m \in 1..n
        BY <1>1, <2>2, <3>1
      <4> QED BY <4>1
    <3>2. CASE ~(m <= n)
      <4>1. m - n \in DOMAIN f /\ f[m - n] = t[m]
        BY <1>1, <2>2, <2>3, <2>4, <3>2
      <4> QED BY <4>1
    <3> QED BY <3>1, <3>2
  <2>8. Part(f, t, S)
    BY <2>5, <2>6, <2>7 DEF Part
  <2> HIDE DEF S
  <2> QED BY <2>1, <2>3, <2>8, DropKeeps
<1> QED BY <1>4, <1>5

-----------------------------------------------------------------------------
(* The gateway's steps: each becomes the pool that its operators compute.                         *)

\* The pool after a step is sound when the pool the step computes is.
LEMMA Becomes ==
    ASSUME NEW r \in PoolRec, Claude!Become(r) PROVE Claude!Pool' = r
BY DEF Claude!Become, Claude!Pool, PoolRec

\* A pool computed sound is the sound pool of the next state.
LEMMA SoundNext ==
    ASSUME load' = load, NEW r, Claude!Pool' = r, NEW w, warming' = w,
           NEW d, history'.doubled = d, NEW st, history'.stale = st, Sound(r, w, d, st)
    PROVE  Sound(Claude!Pool, warming, history.doubled, history.stale)'
<1>0. /\ r \in PoolRec /\ UsingInv(r, w) /\ WarmInv(r, w) /\ IdleInv(r) /\ StickyInv(r)
      /\ TurnInv(r) /\ ServedInv(r) /\ OwnedInv(r, w, d, NoOne)
      /\ GoingInv(r, st, NoOne, NoOne) /\ Counted(r)
  BY DEF Sound, PoolInv
<1>1. Claude!Job' = Claude!Job
  BY DEF Claude!Job
<1>2. (Claude!Pool \in PoolRec)'
  <2>1. Sticking' = Sticking
    BY <1>1 DEF Sticking, keyOf, Claude!tab
  <2>2. Session' = Session
    BY <1>1 DEF Session
  <2> QED BY <1>0, <1>1, <2>1, <2>2 DEF PoolRec
<1>3. UsingInv(Claude!Pool, warming)'
  BY <1>0, <1>1 DEF UsingInv, Unused, IsIdle, Sticky, keyOf, Claude!tab
<1>4. WarmInv(Claude!Pool, warming)'
  BY <1>0, <1>1 DEF WarmInv, Unused, IsIdle, Sticky
<1>5. IdleInv(Claude!Pool)'
  BY <1>0, <1>1 DEF IdleInv, Sticky, keyOf, Claude!tab
<1>6. StickyInv(Claude!Pool)'
  BY <1>0, <1>1 DEF StickyInv, keyOf, Claude!tab
<1>7. TurnInv(Claude!Pool)'
  BY <1>0, <1>1, SMTT(40) DEF TurnInv, TurnOf, Among, keyOf, Claude!tab
<1>8. ServedInv(Claude!Pool)'
  BY <1>0, <1>1 DEF ServedInv, ServedOf, keyOf, Claude!tab
<1>9. OwnedInv(Claude!Pool, warming, history.doubled, NoOne)'
  BY <1>0, <1>1 DEF OwnedInv, IsIdle, Sticky, keyOf, Claude!tab
<1>10. GoingInv(Claude!Pool, history.stale, NoOne, NoOne)'
  BY <1>0, <1>1 DEF GoingInv, Among
<1>11. Counted(Claude!Pool)'
  <2>1. InThePool(Claude!Pool)' = InThePool(r)
    BY <1>1 DEF InThePool
  <2> QED BY <1>0, <2>1 DEF Counted
<1> QED
  BY <1>2, <1>3, <1>4, <1>5, <1>6, <1>7, <1>8, <1>9, <1>10, <1>11 DEF Sound, PoolInv

\* The slots in use, which a turn that starts, waits or ends does not add to.
Fields == {"sess", "idle", "threads", "active", "using", "pc", "text"}

\* The slots do not depend on the sessions.
LEMMA SessKeepsActive ==
    ASSUME NEW p, DOMAIN p = Fields, NEW f, NEW r, r = [p EXCEPT !.sess = f]
    PROVE  r.active = p.active /\ DOMAIN r = Fields
BY DEF Fields

\* startTurn takes no slot.
LEMMA StartActive ==
    ASSUME NEW p, DOMAIN p = Fields, NEW s, NEW j, NEW r, r = Claude!startTurn(p, s, j)
    PROVE  r.active = p.active
<1>1. \E f : r = [p EXCEPT !.sess = f]
  BY Zenon DEF Claude!startTurn
<1>2. PICK f : r = [p EXCEPT !.sess = f]
  BY <1>1
<1>3. DOMAIN p = Fields
  OBVIOUS
<1> QED BY ONLY <1>2, <1>3, SessKeepsActive

\* advance takes no slot.
LEMMA AdvanceActive ==
    ASSUME NEW p \in PoolRec, NEW s \in DOMAIN p.sess, NEW r, r = Claude!advance(p, s)
    PROVE  r.active <= p.active
<1> DEFINE u == p.sess[s].q
<1>1. DOMAIN p = Fields /\ p.active \in Nat /\ u \in Seq(Claude!Job) /\ Len(u) \in Nat
  <2>1. DOMAIN p = Fields
    BY DEF PoolRec, Fields
  <2> QED BY <2>1, PoolFields, SessionFields
<1>2. CASE u = <<>>
  BY <1>1, <1>2 DEF Claude!advance
<1>3. CASE u # <<>> /\ p.sess[s].dead
  <2>1. r = Claude!finishQueued(p, s)
    BY <1>3 DEF Claude!advance
  <2>2. p \in PoolRec /\ s \in DOMAIN p.sess
    OBVIOUS
  <2> HIDE DEF u
  <2>3. /\ r \in PoolRec /\ DOMAIN r.sess = DOMAIN p.sess /\ Len(r.sess) = Len(p.sess)
        /\ r.threads = p.threads /\ r.idle = p.idle
        /\ r.active = (IF p.active > Len(p.sess[s].q) THEN p.active - Len(p.sess[s].q) ELSE 0)
        /\ \A j \in Claude!Job :
             /\ Among(j, p.sess[s].q) => r.using[j] = NoOne /\ r.pc[j] = "plan"
             /\ ~Among(j, p.sess[s].q) => r.using[j] = p.using[j] /\ r.pc[j] = p.pc[j]
        /\ r.sess[s] = [p.sess[s] EXCEPT !.q = <<>>]
        /\ \A n \in DOMAIN p.sess : n # s => r.sess[n] = p.sess[n]
    BY ONLY <2>1, <2>2, FinishQueuedFacts, SMTT(30)
  <2>4. p.active \in Nat /\ Len(p.sess[s].q) \in Nat
    BY <1>1 DEF u
  <2> QED BY ONLY <2>3, <2>4
<1>4. CASE u # <<>> /\ ~p.sess[s].dead
  <2> DEFINE z == [p.sess[s] EXCEPT !.q = Tail(@)]
             f == [p.sess EXCEPT ![s] = z]
             p1 == [p EXCEPT !.sess = f]
  <2>1. r = Claude!startTurn(p1, s, Head(u))
    <3>1. [p EXCEPT !.sess[s].q = Tail(@)] = p1
      BY Zenon
    <3> QED BY <1>4, <3>1, Zenon DEF Claude!advance
  <2>2. p1 = [p EXCEPT !.sess = f]
    OBVIOUS
  <2> HIDE DEF p1
  <2>3. p1.active = p.active /\ DOMAIN p1 = Fields
    BY ONLY <1>1, <2>2, SessKeepsActive
  <2>4. r.active = p1.active
    BY ONLY <2>1, <2>3, StartActive
  <2> QED BY ONLY <1>1, <2>3, <2>4
<1> QED BY <1>2, <1>3, <1>4

\* finish takes no slot.
LEMMA FinishActive ==
    ASSUME NEW p \in PoolRec, NEW j \in Claude!Job, NEW t \in Txt, NEW s \in DOMAIN p.sess,
           p.using[j] = s, NEW r, r = Claude!finish(p, j, t)
    PROVE  r \in PoolRec /\ DOMAIN r.sess = DOMAIN p.sess /\ r.active <= p.active
<1>1. p.active \in Nat
  BY PoolFields
<1>2. p \in PoolRec /\ j \in Claude!Job /\ t \in Txt /\ s \in DOMAIN p.sess
      /\ p.using[j] = s /\ r = Claude!finish(p, j, t)
  OBVIOUS
<1>3. /\ r \in PoolRec /\ DOMAIN r.sess = DOMAIN p.sess /\ Len(r.sess) = Len(p.sess)
      /\ r.threads = p.threads
      /\ Recycled(p, j) => r.idle = Append(p.idle, s)
      /\ ~Recycled(p, j) => r.idle = p.idle
      /\ r.active = (IF p.active > 0 THEN p.active - 1 ELSE 0)
      /\ r.using = [p.using EXCEPT ![j] = NoOne] /\ r.pc = [p.pc EXCEPT ![j] = "plan"]
      /\ \A n \in DOMAIN p.sess :
                /\ r.sess[n] \in Session /\ Kept(p.sess[n], r.sess[n])
                /\ r.sess[n].dead <=> (p.sess[n].dead \/ (n = s /\ Spent(p, j)))
  BY ONLY <1>2, FinishFacts, SMTT(30)
<1> QED BY ONLY <1>1, <1>3

\* runTurn takes no slot.
LEMMA RunTurnActive ==
    ASSUME NEW p \in PoolRec, NEW s \in DOMAIN p.sess, NEW j \in Claude!Job,
           NEW r, r = Claude!runTurn(p, s, j)
    PROVE  r.active <= p.active
<1> DEFINE q == [p EXCEPT !.using[j] = s, !.pc[j] = "turn"]
<1>1. /\ q \in PoolRec /\ q.sess = p.sess /\ q.active = p.active /\ q.using[j] = s
      /\ p.active \in Nat
  <2>1. s \in Nat
    BY PoolFields
  <2> QED BY <2>1 DEF PoolRec, JobPc, InPool
<1>2. r = IF \E k \in Claude!Job \ {j} : q.using[k] = s THEN Queued(q, s, j)
          ELSE IF p.sess[s].dead THEN Claude!finish(q, j, <<>>)
          ELSE Claude!startTurn(q, s, j)
  BY Zenon DEF Claude!runTurn, Queued
<1> HIDE DEF q
<1>3. DOMAIN q = Fields
  BY <1>1 DEF PoolRec, Fields
<1>4. CASE r = Queued(q, s, j)
  <2>1. \E f : r = [q EXCEPT !.sess = f]
    BY <1>4, Zenon DEF Queued
  <2>2. PICK f : r = [q EXCEPT !.sess = f]
    BY <2>1
  <2>3. r.active = q.active
    BY ONLY <1>3, <2>2, SessKeepsActive
  <2> QED BY ONLY <1>1, <2>3
<1>5. CASE r = Claude!finish(q, j, <<>>)
  <2>1. <<>> \in Txt /\ j \in Claude!Job /\ s \in DOMAIN q.sess
    BY <1>1 DEF Txt
  <2>2. r.active <= q.active
    BY ONLY <1>1, <1>5, <2>1, FinishActive, SMTT(30)
  <2> QED BY ONLY <1>1, <2>2
<1>6. CASE r = Claude!startTurn(q, s, j)
  <2>1. r.active = q.active
    BY ONLY <1>3, <1>6, StartActive
  <2> QED BY ONLY <1>1, <2>1
<1> QED BY ONLY <1>2, <1>4, <1>5, <1>6

\* A session without a turn in flight changes its ticks, or its process goes.
LEMMA QuietKeeps ==
    ASSUME load \in Loads, NEW p, NEW w, NEW d, NEW st, Sound(p, w, d, st),
           NEW s \in DOMAIN p.sess, p.sess[s].inflight = NoOne, NEW y, Ends(p.sess[s], y),
           NEW r, r = [p EXCEPT !.sess = [p.sess EXCEPT ![s] = y]]
    PROVE  Sound(r, w, d, st) /\ r.active = p.active
<1>1. /\ p \in PoolRec /\ PoolInv(p, w) /\ OwnedInv(p, w, d, NoOne)
      /\ GoingInv(p, st, NoOne, NoOne) /\ Counted(p)
  BY DEF Sound
<1>2. /\ load \in Loads /\ s \in DOMAIN p.sess /\ Ends(p.sess[s], y)
      /\ r = [p EXCEPT !.sess = [p.sess EXCEPT ![s] = y]]
  OBVIOUS
<1>3. /\ Alters(p, r, s, y) /\ PoolInv(r, w) /\ OwnedInv(r, w, d, NoOne)
      /\ GoingInv(r, st, s, NoOne)
  BY ONLY <1>1, <1>2, EndKeeps, SMTT(30)
<1>4. r.using = p.using /\ r.pc = p.pc /\ r.active = p.active /\ r \in PoolRec
  BY <1>3 DEF Alters, SameUse
<1>5. GoingInv(r, st, NoOne, NoOne)
  <2>1. s # NoOne
    BY <1>1, SmallFacts, PoolFields
  <2>2. \A k \in Claude!Job \ {NoOne} : st = {} /\ p.pc[k] = "turn" => p.using[k] # s
    BY <1>1, <2>1 DEF GoingInv
  <2> QED BY <1>3, <1>4, <2>2 DEF GoingInv
<1>6. Counted(r)
  BY <1>1, <1>4 DEF Counted, InThePool
<1> QED BY <1>3, <1>4, <1>5, <1>6 DEF Sound

\* A turn is struck by the tick of an earlier one.
LEMMA StruckKeeps ==
    ASSUME load \in Loads, NEW p, NEW w, NEW d, NEW st, Sound(p, w, d, st),
           NEW s \in DOMAIN p.sess, NEW y, Ends(p.sess[s], y),
           NEW r, r = [p EXCEPT !.sess = [p.sess EXCEPT ![s] = y]], NEW u, u # {}
    PROVE  Sound(r, w, d, u) /\ r.active = p.active
<1>1. /\ p \in PoolRec /\ PoolInv(p, w) /\ OwnedInv(p, w, d, NoOne)
      /\ GoingInv(p, st, NoOne, NoOne) /\ Counted(p)
  BY DEF Sound
<1>2. /\ load \in Loads /\ s \in DOMAIN p.sess /\ Ends(p.sess[s], y)
      /\ r = [p EXCEPT !.sess = [p.sess EXCEPT ![s] = y]]
  OBVIOUS
<1>3. /\ Alters(p, r, s, y) /\ PoolInv(r, w) /\ OwnedInv(r, w, d, NoOne)
      /\ GoingInv(r, st, s, NoOne)
  BY ONLY <1>1, <1>2, EndKeeps, SMTT(30)
<1>4. r.using = p.using /\ r.pc = p.pc /\ r.active = p.active /\ r \in PoolRec
  BY <1>3 DEF Alters, SameUse
<1>5. GoingInv(r, u, NoOne, NoOne)
  BY <1>3 DEF GoingInv
<1>6. Counted(r)
  BY <1>1, <1>4 DEF Counted, InThePool
<1> QED BY <1>3, <1>4, <1>5, <1>6 DEF Sound

\* Slots that the end of a turn gives back.
LEMMA SettleActive ==
    ASSUME load \in Loads, NEW p, NEW w, NEW d, NEW st, Sound(p, w, d, st),
           NEW s \in DOMAIN p.sess, p.sess[s].inflight # NoOne, NEW t \in Txt,
           NEW y, Ends(p.sess[s], y),
           NEW r, r = Claude!advance(
                       Claude!finish([p EXCEPT !.sess = [p.sess EXCEPT ![s] = y]],
                                     p.sess[s].inflight, t), s)
    PROVE  r.active <= p.active
<1> DEFINE j == p.sess[s].inflight
           p1 == [p EXCEPT !.sess = [p.sess EXCEPT ![s] = y]]
           p2 == Claude!finish(p1, j, t)
<1>0. p \in PoolRec /\ PoolInv(p, w)
  BY DEF Sound
<1>1. j \in Claude!Job /\ p.using[j] = s /\ p.active \in Nat
  BY <1>0, SmallFacts, PoolFields, SessionFields DEF PoolInv, TurnInv, TurnOf
<1>2. p1 = [p EXCEPT !.sess = [p.sess EXCEPT ![s] = y]]
  OBVIOUS
<1>3. p2 = Claude!finish(p1, j, t) /\ r = Claude!advance(p2, s)
  OBVIOUS
<1>4. y \in Session /\ s \in DOMAIN p.sess /\ t \in Txt
  BY DEF Ends
<1> HIDE DEF p1, p2, j
<1>5. p1 \in PoolRec /\ SameUse(p, p1) /\ DOMAIN p1.sess = DOMAIN p.sess
  BY ONLY <1>0, <1>2, <1>4, OneSet, SMTT(30)
<1>6. p1.active = p.active /\ p1.using[j] = s /\ s \in DOMAIN p1.sess
  BY <1>1, <1>4, <1>5 DEF SameUse
<1>7. p2 \in PoolRec /\ DOMAIN p2.sess = DOMAIN p1.sess /\ p2.active <= p1.active
  BY ONLY <1>1, <1>3, <1>4, <1>5, <1>6, FinishActive, SMTT(30)
<1>8. s \in DOMAIN p2.sess /\ p2.active \in Nat
  BY <1>6, <1>7, PoolFields
<1>9. r.active <= p2.active
  BY ONLY <1>3, <1>7, <1>8, AdvanceActive, SMTT(30)
<1>10. r.active \in Int
  <2>1. Sound(r, w, d, st)
    BY SettleKeeps, <1>0
  <2> QED BY <2>1, PoolFields DEF Sound
<1> QED BY ONLY <1>1, <1>6, <1>7, <1>8, <1>9, <1>10

-----------------------------------------------------------------------------
\* The inductive invariant: the pool is sound, and at most MAX_ACTIVE slots are taken.
Kinds == [doubled : SUBSET Nat, stale : SUBSET Nat, lostDel : SUBSET Nat, doubt : SUBSET Nat,
          mute : SUBSET Nat]
CInv ==
    /\ load \in Loads /\ history \in Kinds /\ active <= MAX_ACTIVE
    /\ Sound(Claude!Pool, warming, history.doubled, history.stale)

\* The fields of the pool are the variables.
LEMMA PoolIs ==
    /\ Claude!Pool.sess = sess /\ Claude!Pool.idle = idle /\ Claude!Pool.threads = threads
    /\ Claude!Pool.active = active /\ Claude!Pool.using = using /\ Claude!Pool.pc = pc
    /\ Claude!Pool.text = text
BY DEF Claude!Pool

\* What the invariant says, part by part.
LEMMA CFacts ==
    ASSUME CInv
    PROVE  /\ load \in Loads /\ history \in Kinds /\ active <= MAX_ACTIVE
           /\ Sound(Claude!Pool, warming, history.doubled, history.stale)
           /\ Claude!Pool \in PoolRec /\ PoolInv(Claude!Pool, warming)
           /\ active \in Nat /\ MAX_ACTIVE \in Nat
           /\ sess \in Seq(Session) /\ idle \in Seq(Nat) /\ threads \in Seq(Sticking)
<1>1. /\ load \in Loads /\ history \in Kinds /\ active <= MAX_ACTIVE
      /\ Sound(Claude!Pool, warming, history.doubled, history.stale)
  BY DEF CInv
<1>2. Claude!Pool \in PoolRec /\ PoolInv(Claude!Pool, warming)
  BY <1>1 DEF Sound
<1>3. /\ active \in Nat /\ sess \in Seq(Session) /\ idle \in Seq(Nat)
      /\ threads \in Seq(Sticking)
  BY <1>2, PoolFields, PoolIs
<1>4. MAX_ACTIVE \in Nat
  BY ClaudeAssume DEF Claude!ClaudeAssumption
<1> QED BY <1>1, <1>2, <1>3, <1>4

\* A step to pool r.
LEMMA CNext ==
    ASSUME CInv, load' = load, history' \in Kinds, NEW r, Claude!Become(r),
           Sound(r, warming', history'.doubled, history'.stale), r.active <= MAX_ACTIVE
    PROVE  CInv'
<1>1. r \in PoolRec
  BY DEF Sound
<1>2. Claude!Pool' = r
  BY <1>1, Becomes
<1>3. Sound(Claude!Pool, warming, history.doubled, history.stale)'
  BY <1>2, SoundNext
<1>4. active' = r.active
  BY Zenon DEF Claude!Become
<1>5. load' \in Loads /\ MAX_ACTIVE' = MAX_ACTIVE
  BY DEF CInv
<1>6. (history \in Kinds)'
  BY DEF Kinds
<1> QED BY <1>3, <1>4, <1>5, <1>6 DEF CInv

\* A step that leaves the pool alone.
LEMMA CSame ==
    ASSUME CInv, load' = load, history' \in Kinds,
           history'.doubled = history.doubled, history'.stale = history.stale,
           UNCHANGED <<sess, idle, threads, active, using, pc, text, warming>>
    PROVE  CInv'
<1>1. Claude!Become(Claude!Pool)
  BY PoolIs DEF Claude!Become
<1>2. Sound(Claude!Pool, warming', history'.doubled, history'.stale)
  BY DEF CInv
<1>3. Claude!Pool.active <= MAX_ACTIVE
  BY PoolIs DEF CInv
<1> QED BY <1>1, <1>2, <1>3, CNext

\* A step of job j outside the pool.
LEMMA CJob ==
    ASSUME CInv, load' = load, history' \in Kinds,
           history'.doubled = history.doubled, history'.stale = history.stale,
           UNCHANGED <<sess, idle, threads, active, using, text, warming>>,
           NEW j \in Claude!Job, pc[j] \notin InPool, NEW c \in JobPc \ InPool,
           pc' = [pc EXCEPT ![j] = c]
    PROVE  CInv'
<1> DEFINE p == Claude!Pool
           r == [p EXCEPT !.pc = [p.pc EXCEPT ![j] = c]]
<1>1. /\ load \in Loads /\ p \in PoolRec /\ active <= MAX_ACTIVE
      /\ Sound(p, warming, history.doubled, history.stale)
  BY CFacts
<1>2. /\ p.sess = sess /\ p.idle = idle /\ p.threads = threads
      /\ p.active = active /\ p.using = using /\ p.pc = pc /\ p.text = text
  BY PoolIs
<1> HIDE DEF p
<1>3. r = [p EXCEPT !.pc = [p.pc EXCEPT ![j] = c]]
  OBVIOUS
<1>4. /\ r.sess = sess /\ r.idle = idle /\ r.threads = threads
      /\ r.active = active /\ r.using = using /\ r.pc = pc' /\ r.text = text
  BY <1>1, <1>2 DEF PoolRec
<1> HIDE DEF r
<1>5. Claude!Become(r)
  BY <1>4 DEF Claude!Become
<1>6. p.pc[j] \notin InPool /\ j \in Claude!Job /\ c \in JobPc \ InPool
  BY <1>2
<1>7. Sound(r, warming, history.doubled, history.stale)
  BY ONLY <1>1, <1>3, <1>6, ElsewhereKeeps, SMTT(30)
<1>8. Sound(r, warming', history'.doubled, history'.stale) /\ r.active <= MAX_ACTIVE
  BY <1>1, <1>4, <1>7
<1> QED BY <1>5, <1>8, CNext

\* A result settles the turn in flight.
LEMMA ResultKeeps ==
    ASSUME CInv, NEW s, Claude!Result(s) PROVE CInv'
<1> DEFINE p == Claude!Pool
           j == p.sess[s].inflight
           y == [p.sess[s] EXCEPT !.inflight = NoOne]
           t == Claude!tab(j).text
           p1 == [p EXCEPT !.sess = [p.sess EXCEPT ![s] = y]]
           r == Claude!advance(Claude!finish(p1, j, t), s)
<1>1. /\ load \in Loads /\ p \in PoolRec /\ PoolInv(p, warming)
      /\ Sound(p, warming, history.doubled, history.stale)
      /\ active \in Nat /\ MAX_ACTIVE \in Nat /\ active <= MAX_ACTIVE /\ history \in Kinds
  BY CFacts
<1>2. p.sess = sess /\ p.active = active
  BY PoolIs
<1>3. s \in DOMAIN p.sess /\ j # NoOne /\ ~p.sess[s].gone
  BY <1>2 DEF Claude!Result
<1>4. Claude!Become(r)
  <2>1. [p EXCEPT !.sess[s] = y] = p1
    BY Zenon
  <2> QED BY <1>2, <2>1, Zenon DEF Claude!Result
<1>5. load' = load /\ warming' = warming /\ history' = history
  BY DEF Claude!Result
<1>6. p.sess[s] \in Session /\ j \in Claude!Job /\ t \in Txt
  BY <1>1, <1>3, PoolFields, SessionFields, SmallFacts
<1>7. Ends(p.sess[s], y)
  <2>1. p.sess[s].gone => p.sess[s].dead
    BY <1>1, <1>3 DEF PoolInv, TurnInv, TurnOf
  <2> QED BY <1>6, <2>1 DEF Ends, Session
<1>8. r = Claude!advance(Claude!finish([p EXCEPT !.sess = [p.sess EXCEPT ![s] = y]],
                                       p.sess[s].inflight, t), s)
  OBVIOUS
<1> HIDE DEF r, y, t, p1, p
<1>9. Sound(r, warming, history.doubled, history.stale)
  BY ONLY <1>1, <1>3, <1>6, <1>7, <1>8, SettleKeeps, SMTT(30)
<1>10. r.active <= p.active
  BY ONLY <1>1, <1>3, <1>6, <1>7, <1>8, SettleActive, SMTT(30)
<1>11. r.active <= MAX_ACTIVE
  <2>1. r.active \in Nat
    BY <1>9, PoolFields DEF Sound
  <2> QED BY ONLY <1>1, <1>2, <1>10, <2>1
<1> QED BY <1>1, <1>4, <1>5, <1>9, <1>11, CNext

\* The exit of a child process settles its turn.
LEMMA ProcessExitKeeps ==
    ASSUME CInv, NEW s, Claude!ProcessExit(s) PROVE CInv'
<1> DEFINE p == Claude!Pool
           j == p.sess[s].inflight
           t == <<>>
           y == [p.sess[s] EXCEPT !.dead = TRUE, !.gone = TRUE, !.inflight = NoOne]
           p1 == [p EXCEPT !.sess = [p.sess EXCEPT ![s] = y]]
           r == Claude!advance(Claude!finish(p1, j, t), s)
<1>1. /\ load \in Loads /\ p \in PoolRec /\ PoolInv(p, warming)
      /\ Sound(p, warming, history.doubled, history.stale)
      /\ active \in Nat /\ MAX_ACTIVE \in Nat /\ active <= MAX_ACTIVE /\ history \in Kinds
  BY CFacts
<1>2. p.sess = sess /\ p.active = active
  BY PoolIs
<1>3. s \in DOMAIN p.sess
  BY <1>2 DEF Claude!ProcessExit
<1>4. /\ j = NoOne => Claude!Become(p1)
      /\ j # NoOne => Claude!Become(r)
  <2>1. [p EXCEPT !.sess[s] = y] = p1
    BY Zenon
  <2> QED BY <1>2, <2>1, Zenon DEF Claude!ProcessExit
<1>5. load' = load /\ warming' = warming /\ history' = history
  BY DEF Claude!ProcessExit
<1>6. p.sess[s] \in Session /\ j \in Claude!Job \cup {NoOne} /\ t \in Txt
  BY <1>1, <1>3, PoolFields, SessionFields DEF Txt
<1>7. Ends(p.sess[s], y)
  BY <1>6 DEF Ends, Session
<1>8. r = Claude!advance(Claude!finish([p EXCEPT !.sess = [p.sess EXCEPT ![s] = y]],
                                       p.sess[s].inflight, t), s)
  OBVIOUS
<1>8a. p1 = [p EXCEPT !.sess = [p.sess EXCEPT ![s] = y]] /\ j = p.sess[s].inflight
  OBVIOUS
<1> HIDE DEF r, y, p1, p, j, t
<1>9. CASE j = NoOne
  <2>0. p.sess[s].inflight = NoOne /\ p1 = [p EXCEPT !.sess = [p.sess EXCEPT ![s] = y]]
    BY <1>8a, <1>9
  <2>1. Sound(p1, warming, history.doubled, history.stale) /\ p1.active = p.active
    BY ONLY <1>1, <1>3, <1>7, <2>0, QuietKeeps, SMTT(30)
  <2> QED BY <1>1, <1>2, <1>4, <1>5, <1>9, <2>1, CNext
<1>10. CASE j # NoOne
  <2>0. p.sess[s].inflight # NoOne
    BY <1>8a, <1>10
  <2>1. Sound(r, warming, history.doubled, history.stale)
    BY ONLY <1>1, <1>3, <1>6, <1>7, <1>8, <2>0, SettleKeeps, SMTT(30)
  <2>2. r.active <= p.active
    BY ONLY <1>1, <1>3, <1>6, <1>7, <1>8, <2>0, SettleActive, SMTT(30)
  <2>3. r.active <= MAX_ACTIVE
    <3>1. r.active \in Nat
      BY <2>1, PoolFields DEF Sound
    <3> QED BY ONLY <1>1, <1>2, <2>2, <3>1
  <2> QED BY <1>1, <1>4, <1>5, <1>10, <2>1, <2>3, CNext
<1> QED BY <1>9, <1>10

\* A tick is given up.
LEMMA TickIdleKeeps ==
    ASSUME CInv, NEW s, Claude!TickIdle(s) PROVE CInv'
<1> DEFINE p == Claude!Pool
<1>1. /\ load \in Loads /\ p \in PoolRec /\ PoolInv(p, warming)
      /\ Sound(p, warming, history.doubled, history.stale)
      /\ active \in Nat /\ MAX_ACTIVE \in Nat /\ active <= MAX_ACTIVE /\ history \in Kinds
  BY CFacts
<1>2. /\ p.sess = sess /\ p.idle = idle /\ p.threads = threads
      /\ p.active = active /\ p.using = using /\ p.pc = pc /\ p.text = text
  BY PoolIs
<1>3. s \in DOMAIN p.sess /\ p.sess[s].inflight = NoOne
  BY <1>2 DEF Claude!TickIdle
<1>4. PICK i \in DOMAIN sess[s].armed : sess' = [sess EXCEPT ![s].armed = Claude!RemoveAt(@, i)]
  BY DEF Claude!TickIdle
<1> DEFINE a == Claude!RemoveAt(p.sess[s].armed, i)
           y == [p.sess[s] EXCEPT !.armed = a]
           f == [p.sess EXCEPT ![s] = y]
           r == [p EXCEPT !.sess = f]
<1>5. sess' = f
  BY <1>2, <1>4, Zenon
<1>6. p.sess[s] \in Session /\ a \in Seq(Claude!Job)
  <2>1. p.sess[s] \in Session
    BY <1>1, <1>3, PoolFields
  <2>2. p.sess[s].armed \in Seq(Claude!Job) /\ i \in DOMAIN p.sess[s].armed
    BY <1>2, <2>1, SessionFields
  <2> QED BY <2>1, <2>2, RemoveFacts
<1> HIDE DEF a
<1>7. Ends(p.sess[s], y)
  <2>1. p.sess[s].gone => p.sess[s].dead
    BY <1>1, <1>3 DEF PoolInv, TurnInv, TurnOf
  <2> QED BY <1>3, <1>6, <2>1 DEF Ends, Session
<1>8. /\ load' = load /\ warming' = warming /\ history' = history
      /\ UNCHANGED <<idle, threads, active, using, pc, text>>
  BY DEF Claude!TickIdle, Claude!replyVars
<1>9. r = [p EXCEPT !.sess = [p.sess EXCEPT ![s] = y]]
  OBVIOUS
<1> HIDE DEF y, p
<1>10. /\ r.sess = f /\ r.idle = idle /\ r.threads = threads
       /\ r.active = active /\ r.using = using /\ r.pc = pc /\ r.text = text
  <2> HIDE DEF f
  <2> QED BY <1>1, <1>2 DEF PoolRec
<1> HIDE DEF r, f
<1>11. Claude!Become(r)
  BY <1>5, <1>8, <1>10 DEF Claude!Become
<1>12. Sound(r, warming, history.doubled, history.stale) /\ r.active = p.active
  BY ONLY <1>1, <1>3, <1>7, <1>9, QuietKeeps, SMTT(30)
<1> QED BY <1>1, <1>2, <1>8, <1>11, <1>12, CNext

\* The oldest tick reaches its cap.
LEMMA TickCapKeeps ==
    ASSUME CInv, NEW s, Claude!TickCap(s) PROVE CInv'
<1> DEFINE p == Claude!Pool
           j == p.sess[s].inflight
           t == <<>>
           a == Tail(p.sess[s].armed)
           y == [p.sess[s] EXCEPT !.dead = TRUE, !.inflight = NoOne, !.armed = a]
           p1 == [p EXCEPT !.sess = [p.sess EXCEPT ![s] = y]]
           r == Claude!advance(Claude!finish(p1, j, t), s)
<1>1. /\ load \in Loads /\ p \in PoolRec /\ PoolInv(p, warming)
      /\ Sound(p, warming, history.doubled, history.stale)
      /\ active \in Nat /\ MAX_ACTIVE \in Nat /\ active <= MAX_ACTIVE /\ history \in Kinds
  BY CFacts
<1>2. p.sess = sess /\ p.active = active
  BY PoolIs
<1>3. s \in DOMAIN p.sess /\ p.sess[s].inflight # NoOne
  BY <1>2 DEF Claude!TickCap
<1>3a. p.sess[s].armed # <<>>
  BY <1>2 DEF Claude!TickCap
<1>4. \/ Claude!Become(r) /\ history' = history
      \/ Claude!Become(p1) /\ history' = [history EXCEPT !.stale = history.stale \cup {j}]
  <2>1. [p EXCEPT !.sess[s] = y] = p1
    BY Zenon
  <2>2. y = [sess[s] EXCEPT !.dead = TRUE, !.inflight = NoOne, !.armed = Tail(@)]
    BY <1>2, Zenon
  <2>3. CASE p.sess[s].inflight = Head(p.sess[s].armed)
    BY <1>2, <2>1, <2>2, <2>3, Zenon DEF Claude!TickCap
  <2>4. CASE p.sess[s].inflight # Head(p.sess[s].armed)
    BY <1>2, <2>1, <2>2, <2>4, Zenon DEF Claude!TickCap
  <2> QED BY <2>3, <2>4
<1>5. load' = load /\ warming' = warming
  BY DEF Claude!TickCap
<1>6. p.sess[s] \in Session /\ j \in Claude!Job /\ t \in Txt /\ a \in Seq(Claude!Job)
      /\ j \in Nat
  <2>1. p.sess[s] \in Session
    BY <1>1, <1>3, PoolFields
  <2>2. j \in Claude!Job /\ p.sess[s].armed \in Seq(Claude!Job)
    BY <1>3, <2>1, SessionFields
  <2> QED BY <1>1, <1>3a, <2>1, <2>2, SmallFacts DEF Txt
<1> HIDE DEF a
<1>7. Ends(p.sess[s], y)
  <2>1. p.sess[s].gone => p.sess[s].dead
    BY <1>1, <1>3 DEF PoolInv, TurnInv, TurnOf
  <2> QED BY <1>6, <2>1 DEF Ends, Session
<1>8. r = Claude!advance(Claude!finish([p EXCEPT !.sess = [p.sess EXCEPT ![s] = y]],
                                       p.sess[s].inflight, t), s)
  OBVIOUS
<1>8a. p1 = [p EXCEPT !.sess = [p.sess EXCEPT ![s] = y]]
  OBVIOUS
<1> HIDE DEF r, y, p1, p, j, t
<1>3b. s \in DOMAIN p.sess
  BY <1>3
<1>3c. p.sess[s].inflight # NoOne
  BY <1>3
<1>6a. t \in Txt
  BY <1>6
<1>9. CASE Claude!Become(r) /\ history' = history
  <2>1. Sound(r, warming, history.doubled, history.stale)
    BY ONLY <1>1, <1>3b, <1>3c, <1>6a, <1>7, <1>8, SettleKeeps, SMTT(30)
  <2>2. r.active <= p.active
    BY ONLY <1>1, <1>3b, <1>3c, <1>6a, <1>7, <1>8, SettleActive, SMTT(30)
  <2>3. r.active <= MAX_ACTIVE
    <3>1. r.active \in Nat
      BY <2>1, PoolFields DEF Sound
    <3> QED BY ONLY <1>1, <1>2, <2>2, <3>1
  <2> QED BY <1>1, <1>5, <1>9, <2>1, <2>3, CNext
<1>10. CASE Claude!Become(p1) /\ history' = [history EXCEPT !.stale = history.stale \cup {j}]
  <2>1. /\ history' \in Kinds /\ history'.doubled = history.doubled
        /\ history'.stale = history.stale \cup {j}
    BY <1>1, <1>6, <1>10 DEF Kinds
  <2>2. history'.stale # {}
    BY <2>1
  <2>3. Sound(p1, warming, history.doubled, history'.stale) /\ p1.active = p.active
    BY ONLY <1>1, <1>3b, <1>7, <1>8a, <2>2, StruckKeeps, SMTT(30)
  <2> QED BY <1>1, <1>2, <1>5, <1>10, <2>1, <2>3, CNext
<1> QED BY <1>4, <1>9, <1>10

\* Pool p is become, or p with one more session that is warmed up.
LEMMA TopUpC ==
    ASSUME CInv, load' = load, history' \in Kinds, NEW p,
           Sound(p, warming, history'.doubled, history'.stale), p.active <= MAX_ACTIVE,
           Claude!topUpFrom(p)
    PROVE  CInv'
<1>1. CASE Claude!Become(p) /\ warming' = warming
  BY <1>1, CNext
<1>2. CASE warming = NoOne /\ Claude!Become(Claude!spawn(p)) /\ warming' = Len(p.sess) + 1
  <2> DEFINE r == Claude!spawn(p)
             d == history'.doubled
             st == history'.stale
  <2>0. /\ load \in Loads /\ p \in PoolRec
    BY DEF CInv, Sound
  <2>1. r = Claude!spawn(p)
    OBVIOUS
  <2>2. Sound(p, NoOne, d, st)
    BY <1>2
  <2> HIDE DEF r, d, st
  <2>3. Sound(r, Len(p.sess) + 1, d, st)
    BY ONLY <2>0, <2>1, <2>2, TopUpKeeps, SMTT(30)
  <2>4. Adds(p, r, Len(p.sess) + 1)
    BY ONLY <2>0, <2>1, SpawnFacts, SMTT(30)
  <2>5. r.active = p.active
    BY <2>4 DEF Adds, SameUse
  <2>6. Sound(r, warming', history'.doubled, history'.stale) /\ r.active <= MAX_ACTIVE
        /\ Claude!Become(r)
    BY <1>2, <2>3, <2>5 DEF r, d, st
  <2> QED BY ONLY CInv, load' = load, history' \in Kinds, <2>6, CNext
<1> QED BY <1>1, <1>2, Zenon DEF Claude!topUpFrom

\* The pool is warmed up at boot.
LEMMA BootKeeps ==
    ASSUME CInv, Claude!Boot PROVE CInv'
<1>1. load' = load /\ history' = history /\ Claude!topUpFrom(Claude!Pool)
  BY DEF Claude!Boot
<1> QED BY <1>1, TopUpC, CFacts, PoolIs

\* A session is warm, or died while it was warmed up.
LEMMA WarmedKeeps ==
    ASSUME CInv, Claude!Warmed PROVE CInv'
<1> DEFINE q == Claude!Pool
           p == IF sess[warming].dead THEN q ELSE [q EXCEPT !.idle = Append(@, warming)]
           d == history.doubled
           st == history.stale
<1>1. /\ load \in Loads /\ q \in PoolRec /\ Sound(q, warming, d, st)
      /\ active <= MAX_ACTIVE /\ history \in Kinds
  BY CFacts
<1>2. q.sess = sess /\ q.active = active
  BY PoolIs
<1>3. load' = load /\ history' = history /\ warming # NoOne
  BY DEF Claude!Warmed
<1>4. \/ Claude!Become(p) /\ warming' = NoOne
      \/ Claude!Become(Claude!spawn(p)) /\ warming' = Len(sess) + 1
  BY Zenon DEF Claude!Warmed
<1>5. p.sess = q.sess /\ p.active = q.active
  BY <1>1 DEF PoolRec
<1>6. Sound(p, NoOne, d, st)
  <2>1. CASE sess[warming].dead
    <3>1. q.sess[warming].dead /\ p = q
      BY <1>2, <2>1
    <3> HIDE DEF q, p
    <3> QED BY ONLY <1>1, <1>3, <3>1, UnwarmKeeps, SMTT(30)
  <2>2. CASE ~sess[warming].dead
    <3>1. p = [q EXCEPT !.idle = Append(@, warming)]
      BY <2>2
    <3> HIDE DEF q, p
    <3> QED BY ONLY <1>1, <1>3, <3>1, PushKeeps, SMTT(30)
  <2> QED BY <2>1, <2>2
<1> HIDE DEF q, p, d, st
<1>7. CASE Claude!Become(p) /\ warming' = NoOne
  <2>1. Sound(p, warming', history'.doubled, history'.stale) /\ p.active <= MAX_ACTIVE
    BY <1>1, <1>2, <1>3, <1>5, <1>6, <1>7 DEF d, st
  <2> QED BY <1>1, <1>3, <1>7, <2>1, CNext
<1>8. CASE Claude!Become(Claude!spawn(p)) /\ warming' = Len(sess) + 1
  <2> DEFINE r == Claude!spawn(p)
  <2>0. p \in PoolRec
    BY <1>6 DEF Sound
  <2>1. r = Claude!spawn(p)
    OBVIOUS
  <2> HIDE DEF r
  <2>3. Sound(r, Len(p.sess) + 1, d, st)
    BY ONLY <1>1, <1>6, <2>1, TopUpKeeps, SMTT(30)
  <2>4. Adds(p, r, Len(p.sess) + 1)
    BY ONLY <2>0, <2>1, SpawnFacts, SMTT(30)
  <2>5. r.active = p.active
    BY <2>4 DEF Adds, SameUse
  <2>6. Sound(r, warming', history'.doubled, history'.stale) /\ r.active <= MAX_ACTIVE
    BY <1>1, <1>2, <1>3, <1>5, <1>8, <2>3, <2>5 DEF d, st
  <2>7. Claude!Become(r) /\ history' \in Kinds
    BY <1>1, <1>3, <1>8, <2>1
  <2> QED BY ONLY CInv, <1>3, <2>6, <2>7, CNext
<1> QED BY <1>4, <1>7, <1>8

\* pool.stop() kills the idle and the sticky sessions.
LEMMA StopKeeps ==
    ASSUME CInv, Claude!Stop PROVE CInv'
<1> DEFINE p == Claude!Pool
           S == Claude!ToSet(idle) \cup {threads[i][2] : i \in DOMAIN threads}
           r == Claude!kill(p, S)
           w == warming
           d == history.doubled
           st == history.stale
<1>1. /\ load \in Loads /\ p \in PoolRec /\ Sound(p, w, d, st)
      /\ active <= MAX_ACTIVE /\ history \in Kinds
  BY CFacts
<1>2. p.active = active
  BY PoolIs
<1>3. load' = load /\ warming' = warming /\ history' = history /\ Claude!Become(r)
  BY DEF Claude!Stop
<1>4. r = Claude!kill(p, S)
  OBVIOUS
<1> HIDE DEF p, S, r, w, d, st
<1>5. /\ PoolInv(p, w) /\ OwnedInv(p, w, d, NoOne) /\ GoingInv(p, st, NoOne, NoOne)
      /\ Counted(p) /\ UsingInv(p, w)
  BY <1>1 DEF Sound, PoolInv
<1>6. PoolInv(r, w)
  BY ONLY <1>1, <1>4, <1>5, KillKeeps, SMTT(30)
<1>7. OwnedInv(r, w, d, NoOne)
  BY ONLY <1>1, <1>4, <1>5, KillOwned, SMTT(30)
<1>8. GoingInv(r, st, NoOne, NoOne)
  BY ONLY <1>1, <1>4, <1>5, KillGoing, SMTT(30)
<1>9. r \in PoolRec /\ SameUse(p, r)
  BY ONLY <1>1, <1>4, KillFacts, SMTT(30)
<1>10. Counted(r) /\ r.active <= MAX_ACTIVE
  BY <1>1, <1>2, <1>5, <1>9 DEF Counted, InThePool, SameUse
<1>11. Sound(r, warming', history'.doubled, history'.stale)
  BY <1>3, <1>6, <1>7, <1>8, <1>9, <1>10 DEF Sound, w, d, st
<1> QED BY ONLY CInv, <1>1, <1>3, <1>10, <1>11, CNext

-----------------------------------------------------------------------------
\* The job's slot is taken, and its session is still to be found.
Seeking(p, w, d, st, e, j) ==
    /\ p \in PoolRec /\ PoolInv(p, w) /\ OwnedInv(p, w, d, e) /\ GoingInv(p, st, NoOne, j)
    /\ Taken(p, j) /\ p.using[j] = NoOne

\* A process is started for job j: session n.
NextId(p, n) == n = Len(p.sess) + 1
Started(p, j, n) == [Claude!spawn(p) EXCEPT !.pc[j] = "spawn", !.using[j] = n]

\* The job waits for its new session, which nobody else has.
LEMMA TakeFresh ==
    ASSUME load \in Loads, NEW p, NEW w, NEW d, NEW st, NEW j \in Claude!Job,
           Seeking(p, w, d, st, NoOne, j), NEW n, NextId(p, n), NEW r, r = Started(p, j, n)
    PROVE  Sound(r, w, d, st) /\ r.active = p.active
<1> DEFINE q == Claude!spawn(p)
<1>10. j \in Claude!Job
  OBVIOUS
<1>1. /\ p \in PoolRec /\ PoolInv(p, w) /\ OwnedInv(p, w, d, NoOne)
      /\ GoingInv(p, st, NoOne, j) /\ Taken(p, j) /\ p.using[j] = NoOne
  BY DEF Seeking
<1>2. q = Claude!spawn(p) /\ load \in Loads
  OBVIOUS
<1>3. r = [q EXCEPT !.pc[j] = "spawn", !.using[j] = n] /\ n = Len(p.sess) + 1
  BY Zenon DEF Started, NextId
<1> HIDE DEF q
<1>4. Adds(p, q, Len(p.sess) + 1)
  BY ONLY <1>1, <1>2, SpawnFacts, SMTT(30)
<1>5. Adds(p, q, n)
  BY <1>3, <1>4
<1>6. PoolInv(q, w) /\ OwnedInv(q, w, d, n) /\ GoingInv(q, st, NoOne, j) /\ Free(q, w, n)
  BY ONLY <1>1, <1>2, <1>5, SpawnKeeps, SMTT(30)
<1>7. q \in PoolRec /\ SameUse(p, q) /\ n \in Nat
  BY <1>5 DEF Adds
<1>8. Taken(q, j) /\ q.using[j] = NoOne /\ q.active = p.active
  BY <1>1, <1>7 DEF Taken, SameUse, InThePool
<1>9. Moved(q, r, j, "spawn", n) /\ r.active = q.active
  <2>1. r = [q EXCEPT !.pc[j] = "spawn", !.using[j] = n]
    BY <1>3
  <2> QED BY ONLY <2>1, <1>7, <1>10 DEF Moved, PoolRec, JobPc, InPool
<1>11. Sound(r, w, d, st)
  BY ONLY <1>2, <1>6, <1>7, <1>8, <1>9, <1>10, TakeKeeps, SMTT(30)
<1> QED BY <1>8, <1>9, <1>11

\* Job j runs on session s.
LEMMA RunOn ==
    ASSUME load \in Loads, NEW p, NEW w, NEW d, NEW st, NEW j \in Claude!Job,
           NEW s \in DOMAIN p.sess,
           Seeking(p, w, d, st, s, j), May(p, w, d, s, j), NEW r, r = Claude!runTurn(p, s, j)
    PROVE  Sound(r, w, d, st) /\ r.active <= p.active
<1>1. /\ p \in PoolRec /\ PoolInv(p, w) /\ OwnedInv(p, w, d, s)
      /\ GoingInv(p, st, NoOne, j) /\ Taken(p, j)
  BY DEF Seeking
<1>2. load \in Loads /\ j \in Claude!Job /\ r = Claude!runTurn(p, s, j)
  OBVIOUS
<1>3. s \in DOMAIN p.sess
  OBVIOUS
<1>4. May(p, w, d, s, j)
  OBVIOUS
<1>5. Sound(r, w, d, st)
  BY ONLY <1>1, <1>2, <1>3, <1>4, RunTurnKeeps, SMTT(30)
<1>6. r.active <= p.active
  BY ONLY <1>1, <1>2, <1>3, RunTurnActive, SMTT(30)
<1> QED BY <1>5, <1>6

\* A sticky session may be taken by a job of its thread_key.
LEMMA StickyMay ==
    ASSUME load \in Loads, NEW p, NEW w, NEW d, NEW st, NEW j \in Claude!Job,
           Seeking(p, w, d, st, NoOne, j), keyOf(j) # NoOne, NEW s \in Old(p, keyOf(j))
    PROVE  s \in DOMAIN p.sess /\ Seeking(p, w, d, st, s, j) /\ May(p, w, d, s, j)
<1>1. /\ p \in PoolRec /\ PoolInv(p, w) /\ OwnedInv(p, w, d, NoOne)
      /\ GoingInv(p, st, NoOne, j) /\ Taken(p, j) /\ p.using[j] = NoOne
  BY DEF Seeking
<1>2. PICK i \in DOMAIN p.threads : p.threads[i][1] = keyOf(j) /\ p.threads[i][2] = s
  BY DEF Old
<1>3. /\ s \in DOMAIN p.sess /\ Sticky(p, s)
      /\ \A k \in p.sess[s].served : keyOf(k) = keyOf(j)
      /\ \A k \in Claude!Job : p.using[k] = s => keyOf(k) = keyOf(j)
      /\ \A n \in DOMAIN p.threads : p.threads[n][2] = s => p.threads[n][1] = keyOf(j)
  BY <1>1, <1>2 DEF PoolInv, StickyInv, Sticky
<1>4. s # NoOne
  BY <1>1, <1>3, PoolFields, SmallFacts
<1>5. ~IsIdle(p, s) /\ s # w
  BY <1>1, <1>3, <1>4 DEF PoolInv, IdleInv, WarmInv, IsIdle
<1>6. \A k \in Claude!Job : p.using[k] = s => p.pc[k] = "turn"
  BY <1>1, <1>3, <1>4 DEF PoolInv, UsingInv, InPool
<1>7. May(p, w, d, s, j)
  BY <1>1, <1>3, <1>5, <1>6 DEF May
<1>8. OwnedInv(p, w, d, s)
  <2>1. \A m \in DOMAIN p.sess : m # NoOne
    BY <1>1, PoolFields, SmallFacts
  <2> QED BY <1>1, <2>1 DEF OwnedInv
<1> QED BY <1>1, <1>3, <1>7, <1>8 DEF Seeking

\* A free session may be taken by any job, and one with a thread_key when it is sticky for it.
LEMMA FreeMay ==
    ASSUME load \in Loads, NEW p, NEW w, NEW d, NEW st, NEW j \in Claude!Job, NEW s,
           Seeking(p, w, d, st, s, j), Free(p, w, s), keyOf(j) = NoOne
    PROVE  s \in DOMAIN p.sess /\ May(p, w, d, s, j)
BY SmallFacts DEF Free, May, Seeking, Unused, Sticky

\* Dropping entries of the map leaves the job's search as it was.
LEMMA DropSeeking ==
    ASSUME NEW p, NEW w, NEW d, NEW st, NEW e, NEW j \in Claude!Job,
           Seeking(p, w, d, st, e, j), NEW r, Drops(p, r),
           PoolInv(r, w), OwnedInv(r, w, d, e), GoingInv(r, st, NoOne, j)
    PROVE  Seeking(r, w, d, st, e, j) /\ r.active = p.active /\ Len(r.sess) = Len(p.sess)
<1>1. p \in PoolRec /\ r \in PoolRec /\ DOMAIN r.sess = DOMAIN p.sess
  BY DEF Seeking, Drops
<1>2. /\ DOMAIN p.sess = 1..Len(p.sess) /\ Len(p.sess) \in Nat
      /\ DOMAIN r.sess = 1..Len(r.sess) /\ Len(r.sess) \in Nat
  BY <1>1, PoolFields
<1>3. Len(r.sess) = Len(p.sess)
  <2> DEFINE a == Len(r.sess)
             b == Len(p.sess)
  <2>1. 1..a = 1..b /\ a \in Nat /\ b \in Nat
    BY <1>1, <1>2
  <2> HIDE DEF a, b
  <2>2. a = b
    BY ONLY <2>1
  <2> QED BY <2>2 DEF a, b
<1>4. Seeking(r, w, d, st, e, j) /\ r.active = p.active
  BY <1>1 DEF Seeking, Drops, SameUse, Taken, InThePool
<1> QED BY <1>3, <1>4

\* The ways in which a job finds its session; p: the pool with the job's slot taken.
Finds(p, j, k, old, fit, top, n, z) ==
    /\ k # NoOne /\ fit # {} =>
          \E s \in fit : Claude!Become(Claude!runTurn(p, s, j)) /\ warming' = warming
    /\ k # NoOne /\ fit = {} =>
          /\ Claude!Become(Started(Claude!kill(Claude!delThread(p, k), old), j, n))
          /\ warming' = warming
    /\ k = NoOne /\ idle # <<>> /\ ~sess[z].dead =>
          Claude!topUpFrom(Claude!runTurn(top, z, j))
    /\ k = NoOne /\ idle # <<>> /\ sess[z].dead =>
          Claude!Become(Started(top, j, n)) /\ warming' = warming
    /\ k = NoOne /\ idle = <<>> =>
          Claude!Become(Started(p, j, n)) /\ warming' = warming

\* The operators of Acquire, one way at a time.
LEMMA AcquireIs ==
    ASSUME NEW j, Claude!Acquire(j), NEW p, p = [Claude!Pool EXCEPT !.active = @ + 1],
           NEW k, k = keyOf(j), NEW old, old = Claude!ThreadsOf(k),
           NEW fit, fit = {s \in old : ~sess[s].dead /\ sess[s].turns < THREAD_MAX_TURNS},
           NEW top, top = [p EXCEPT !.idle = Claude!Front(@)],
           NEW n, n = Len(sess) + 1, NEW z, z = idle[Len(idle)]
    PROVE  Finds(p, j, k, old, fit, top, n, z)
<1> DEFINE o == IF k # NoOne THEN old ELSE {}
           f == {s \in o : ~sess[s].dead /\ sess[s].turns < THREAD_MAX_TURNS}
           t == IF k = NoOne /\ idle # <<>> THEN {idle[Len(idle)]} ELSE {}
           p1 == CASE k # NoOne /\ f = {} -> Claude!kill(Claude!delThread(p, k), o)
                   [] k = NoOne /\ idle # <<>> -> top
                   [] OTHER -> p
           ready == IF k # NoOne THEN f ELSE {s \in t : ~sess[s].dead}
           c == CHOOSE s \in ready : TRUE
<1>1. /\ ready # {} /\ k = NoOne => Claude!topUpFrom(Claude!runTurn(p1, c, j))
      /\ ready # {} /\ k # NoOne =>
            Claude!Become(Claude!runTurn(p1, c, j)) /\ warming' = warming
      /\ ready = {} => Claude!Become(Started(p1, j, n)) /\ warming' = warming
  BY Zenon DEF Claude!Acquire, keyOf, Started
<1>2. ready # {} => c \in ready
  BY Zenon
<1> HIDE DEF c
<1>3. CASE k # NoOne /\ fit # {}
  <2>1. f = fit /\ ready = fit /\ p1 = p
    BY <1>3, Zenon
  <2> HIDE DEF ready, p1, f
  <2> QED BY <1>1, <1>2, <1>3, <2>1, Zenon DEF Finds
<1>4. CASE k # NoOne /\ fit = {}
  <2>1. f = {} /\ ready = {} /\ p1 = Claude!kill(Claude!delThread(p, k), old)
    BY <1>4, Zenon
  <2> HIDE DEF ready, p1, f
  <2> QED BY <1>1, <1>4, <2>1, Zenon DEF Finds
<1>5. CASE k = NoOne /\ idle # <<>>
  <2>1. t = {z} /\ p1 = top /\ ready = {s \in {z} : ~sess[s].dead}
    BY <1>5, Zenon
  <2> HIDE DEF p1, t
  <2>2. CASE sess[z].dead
    <3>1. ready = {}
      BY <2>1, <2>2, Zenon
    <3> HIDE DEF ready
    <3> QED BY <1>1, <1>5, <2>1, <2>2, <3>1, Zenon DEF Finds
  <2>3. CASE ~sess[z].dead
    <3>1. ready # {} /\ \A s \in ready : s = z
      BY <2>1, <2>3, Zenon
    <3> HIDE DEF ready
    <3>2. c = z
      BY <1>2, <3>1, Zenon
    <3> QED BY <1>1, <1>5, <2>1, <2>3, <3>1, <3>2, Zenon DEF Finds
  <2> QED BY <2>2, <2>3
<1>6. CASE k = NoOne /\ idle = <<>>
  <2>1. t = {} /\ p1 = p
    BY <1>6, Zenon
  <2>2. ready = {}
    BY <1>6, <2>1, Zenon
  <2> HIDE DEF ready, p1
  <2> QED BY <1>1, <1>6, <2>1, <2>2, Zenon DEF Finds
<1> QED BY <1>3, <1>4, <1>5, <1>6, Zenon DEF Finds

\* acquire() and the choice of a session.
LEMMA AcquireKeeps ==
    ASSUME CInv, NEW j \in Claude!Job, Claude!Acquire(j) PROVE CInv'
<1> DEFINE q == Claude!Pool
           p == [q EXCEPT !.active = @ + 1]
           k == keyOf(j)
           w == warming
           d == history.doubled
           st == history.stale
           old == Old(p, k)
           fit == {s \in old : ~p.sess[s].dead /\ p.sess[s].turns < THREAD_MAX_TURNS}
           n == Len(p.sess) + 1
           top == [p EXCEPT !.idle = Claude!Front(@)]
           z == p.idle[Len(p.idle)]
<1>1. /\ load \in Loads /\ q \in PoolRec /\ Sound(q, w, d, st)
      /\ active \in Nat /\ MAX_ACTIVE \in Nat /\ active <= MAX_ACTIVE /\ history \in Kinds
  BY CFacts
<1>2. /\ q.sess = sess /\ q.idle = idle /\ q.threads = threads /\ q.active = active /\ q.pc = pc
  BY PoolIs
<1>3. /\ load' = load /\ history' = history /\ active < MAX_ACTIVE /\ pc[j] = "acquire"
  BY DEF Claude!Acquire
<1>4. p = [q EXCEPT !.active = @ + 1]
  OBVIOUS
<1>5. /\ p.sess = sess /\ p.idle = idle /\ p.threads = threads /\ p.active = active + 1
  BY <1>1, <1>2 DEF PoolRec
<1>6. q.pc[j] \notin InPool
  BY <1>2, <1>3 DEF InPool
<1> HIDE DEF q, p, d, st, w
<1>7. Seeking(p, w, d, st, NoOne, j)
  <2>1. j \in Claude!Job
    OBVIOUS
  <2>2. /\ p \in PoolRec /\ PoolInv(p, w) /\ OwnedInv(p, w, d, NoOne)
        /\ GoingInv(p, st, NoOne, j) /\ Taken(p, j) /\ p.using[j] = NoOne
    BY ONLY <1>1, <1>4, <1>6, <2>1, SlotKeeps, SMTT(30)
  <2> QED BY <2>2 DEF Seeking
<1>8. p.active <= MAX_ACTIVE /\ p.active \in Nat
  BY <1>1, <1>3, <1>5
<1>9. history' \in Kinds /\ history'.doubled = d /\ history'.stale = st
  BY <1>1, <1>3 DEF d, st
\* What a pool must be for the step to end well.
<1>10. ASSUME NEW r, Sound(r, w, d, st), r.active <= p.active,
              Claude!Become(r), warming' = warming
       PROVE  CInv'
  <2>1. Sound(r, warming', history'.doubled, history'.stale)
    BY <1>9, <1>10 DEF w
  <2>2. r.active <= MAX_ACTIVE
    <3>1. r.active \in Nat
      BY <1>10, PoolFields DEF Sound
    <3>2. r.active <= p.active
      BY <1>10
    <3> QED BY ONLY <1>1, <1>8, <3>1, <3>2
  <2>3. Claude!Become(r)
    BY <1>10
  <2> QED BY ONLY CInv, <1>3, <1>9, <2>1, <2>2, <2>3, CNext
<1>11. ASSUME NEW r, Sound(r, w, d, st), r.active <= p.active, Claude!topUpFrom(r)
       PROVE  CInv'
  <2>1. Sound(r, warming, history'.doubled, history'.stale)
    BY <1>9, <1>11 DEF w
  <2>2. r.active <= MAX_ACTIVE
    <3>1. r.active \in Nat
      BY <1>11, PoolFields DEF Sound
    <3>2. r.active <= p.active
      BY <1>11
    <3> QED BY ONLY <1>1, <1>8, <3>1, <3>2
  <2>3. Claude!topUpFrom(r)
    BY <1>11
  <2> QED BY ONLY CInv, <1>3, <1>9, <2>1, <2>2, <2>3, TopUpC
<1>12. Finds(p, j, k, old, fit, top, n, z)
  <2>1. /\ old = Claude!ThreadsOf(k)
        /\ fit = {s \in old : ~sess[s].dead /\ sess[s].turns < THREAD_MAX_TURNS}
    BY <1>5 DEF Old, Claude!ThreadsOf, Claude!keyOf
  <2>2. p = [Claude!Pool EXCEPT !.active = @ + 1] /\ k = keyOf(j)
    BY <1>4 DEF q
  <2>3. n = Len(sess) + 1 /\ z = idle[Len(idle)] /\ top = [p EXCEPT !.idle = Claude!Front(@)]
    BY <1>5
  <2>4. Claude!Acquire(j)
    OBVIOUS
  <2> HIDE DEF k, old, fit, n, top, z
  <2> QED BY ONLY <2>1, <2>2, <2>3, <2>4, AcquireIs
<1>13. load \in Loads /\ j \in Claude!Job /\ k = keyOf(j) /\ NextId(p, n)
  BY <1>1 DEF NextId
<1> HIDE DEF n, k
\* The sticky session of the key.
<1>14. CASE k # NoOne /\ fit # {}
  <2>1. PICK s \in fit : Claude!Become(Claude!runTurn(p, s, j)) /\ warming' = warming
    BY <1>12, <1>14 DEF Finds
  <2> DEFINE r == Claude!runTurn(p, s, j)
  <2>2. s \in Old(p, keyOf(j)) /\ keyOf(j) # NoOne /\ r = Claude!runTurn(p, s, j)
    BY <1>13, <1>14
  <2> HIDE DEF r
  <2>3. s \in DOMAIN p.sess /\ Seeking(p, w, d, st, s, j) /\ May(p, w, d, s, j)
    BY ONLY <1>7, <1>13, <2>2, StickyMay, SMTT(30)
  <2>4. Sound(r, w, d, st) /\ r.active <= p.active
    BY ONLY <1>13, <2>2, <2>3, RunOn, SMTT(30)
  <2> QED BY <1>10, <2>1, <2>4 DEF r
\* A new session for the key; the old one, spent or dead, is killed.
<1>15. CASE k # NoOne /\ fit = {}
  <2> DEFINE p1 == Claude!kill(Claude!delThread(p, k), old)
             r == Started(p1, j, n)
  <2>1. Claude!Become(r) /\ warming' = warming
    BY <1>12, <1>15 DEF Finds
  <2>2. p1 = Claude!kill(Claude!delThread(p, k), Old(p, k)) /\ r = Started(p1, j, n)
    OBVIOUS
  <2> HIDE DEF p1, r
  <2>3. /\ p \in PoolRec /\ PoolInv(p, w) /\ OwnedInv(p, w, d, NoOne)
        /\ GoingInv(p, st, NoOne, j)
    BY <1>7 DEF Seeking
  <2>4. /\ PoolInv(p1, w) /\ OwnedInv(p1, w, d, NoOne) /\ GoingInv(p1, st, NoOne, j)
        /\ Drops(p, p1)
    BY ONLY <1>13, <2>2, <2>3, DelKeeps, SMTT(30)
  <2>5. Seeking(p1, w, d, st, NoOne, j) /\ p1.active = p.active /\ Len(p1.sess) = Len(p.sess)
    BY <1>7, <2>4, DropSeeking
  <2>6. Sound(r, w, d, st) /\ r.active = p1.active
    <3>1. NextId(p1, n) /\ r = Started(p1, j, n)
      BY <1>13, <2>2, <2>5 DEF NextId
    <3> QED BY ONLY <1>13, <2>5, <3>1, TakeFresh, SMTT(30)
  <2>7. r.active <= p.active
    BY <1>8, <2>5, <2>6
  <2> QED BY <1>10, <2>1, <2>6, <2>7
\* An idle session.
<1>16. CASE k = NoOne /\ idle # <<>>
  <2>1. /\ p \in PoolRec /\ PoolInv(p, w) /\ OwnedInv(p, w, d, NoOne)
        /\ GoingInv(p, st, NoOne, j) /\ Taken(p, j) /\ p.using[j] = NoOne
    BY <1>7 DEF Seeking
  <2>2. p.idle # <<>> /\ z = p.idle[Len(p.idle)] /\ top = [p EXCEPT !.idle = Claude!Front(@)]
    BY <1>5, <1>16
  <2> HIDE DEF z, top
  <2>3. /\ top \in PoolRec /\ top.sess = p.sess /\ top.threads = p.threads /\ SameUse(p, top)
        /\ PoolInv(top, w) /\ OwnedInv(top, w, d, z) /\ GoingInv(top, st, NoOne, j)
        /\ z \in DOMAIN p.sess /\ ~IsIdle(top, z) /\ ~Sticky(top, z) /\ z # w
        /\ \A i \in Claude!Job : p.using[i] # z
        /\ p.sess[z].turns < SESSION_MAX_TURNS
        /\ \A i \in p.sess[z].served : keyOf(i) = NoOne
    BY ONLY <1>13, <2>1, <2>2, PopKeeps, SMTT(30)
  <2>4. top.active = p.active /\ top.using = p.using /\ top.pc = p.pc /\ Taken(top, j)
    BY <2>1, <2>3 DEF SameUse, Taken, InThePool
  <2>5. Seeking(top, w, d, st, z, j)
    BY <2>1, <2>3, <2>4 DEF Seeking
  <2>6. CASE ~p.sess[z].dead
    <3> DEFINE r == Claude!runTurn(top, z, j)
    <3>1. r = Claude!runTurn(top, z, j) /\ Claude!topUpFrom(r)
      BY <1>5, <1>12, <1>16, <2>6 DEF Finds
    <3> HIDE DEF r
    <3>2. z \in DOMAIN top.sess /\ May(top, w, d, z, j)
      BY <1>13, <1>16, <2>1, <2>3, <2>4 DEF May, Sticky
    <3>3. Sound(r, w, d, st) /\ r.active <= top.active
      BY ONLY <1>13, <2>5, <3>1, <3>2, RunOn, SMTT(30)
    <3>4. r.active <= p.active
      BY <2>4, <3>3
    <3> QED BY <1>11, <3>1, <3>3, <3>4
  <2>7. CASE p.sess[z].dead
    <3> DEFINE r == Started(top, j, n)
    <3>1. Claude!Become(r) /\ warming' = warming
      BY <1>5, <1>12, <1>16, <2>7 DEF Finds
    <3>2. r = Started(top, j, n)
      OBVIOUS
    <3> HIDE DEF r
    <3>3. OwnedInv(top, w, d, NoOne)
      BY <2>3, <2>7 DEF OwnedInv
    <3>4. Seeking(top, w, d, st, NoOne, j)
      BY <2>5, <3>3 DEF Seeking
    <3>5. NextId(top, n) /\ r = Started(top, j, n)
      BY <1>13, <2>3, <3>2 DEF NextId
    <3>6. Sound(r, w, d, st) /\ r.active = top.active
      BY ONLY <1>13, <3>4, <3>5, TakeFresh, SMTT(30)
    <3>7. r.active <= p.active
      BY <1>8, <2>4, <3>6
    <3> QED BY <1>10, <3>1, <3>6, <3>7
  <2> QED BY <2>6, <2>7
\* No idle session: a process is started.
<1>17. CASE k = NoOne /\ idle = <<>>
  <2> DEFINE r == Started(p, j, n)
  <2>1. Claude!Become(r) /\ warming' = warming
    BY <1>12, <1>17 DEF Finds
  <2>2. r = Started(p, j, n)
    OBVIOUS
  <2> HIDE DEF r
  <2>4. Sound(r, w, d, st) /\ r.active = p.active
    BY ONLY <1>7, <1>13, <2>2, TakeFresh, SMTT(30)
  <2>5. r.active <= p.active
    BY <1>8, <2>4
  <2> QED BY <1>10, <2>1, <2>4, <2>5
<1> QED BY <1>14, <1>15, <1>16, <1>17

\* spawnSession's wait ends for job j: p is the pool without the job's new session s.
LEMMA SpawnedKeeps ==
    ASSUME CInv, NEW j \in Claude!Job, Claude!Spawned(j) PROVE CInv'
<1> DEFINE q == Claude!Pool
           p == [q EXCEPT !.using[j] = NoOne]
           k == keyOf(j)
           s == q.using[j]
           w == warming
           d == history.doubled
           st == history.stale
<1>1. /\ load \in Loads /\ q \in PoolRec /\ Sound(q, w, d, st)
      /\ active \in Nat /\ MAX_ACTIVE \in Nat /\ active <= MAX_ACTIVE /\ history \in Kinds
  BY CFacts
<1>2. /\ q.sess = sess /\ q.idle = idle /\ q.threads = threads /\ q.active = active /\ q.pc = pc
      /\ q.using = using
  BY PoolIs
<1>3. load' = load /\ pc[j] = "spawn"
  BY DEF Claude!Spawned
<1>4. p = [q EXCEPT !.using[j] = NoOne]
  OBVIOUS
<1>5. /\ q.sess[s].dead =>
            /\ Claude!Become([p EXCEPT !.active = @ - 1, !.pc[j] = "failing"])
            /\ warming' = warming /\ history' = history
      /\ ~q.sess[s].dead /\ k = NoOne =>
            Claude!topUpFrom(Claude!runTurn(p, s, j)) /\ history' = history
      /\ ~q.sess[s].dead /\ k # NoOne =>
            /\ Claude!Become(Claude!runTurn(Claude!evictThreads(Claude!setThread(p, k, s)), s, j))
            /\ history' = [history EXCEPT !.doubled = @ \cup Claude!ThreadsOf(k)]
            /\ warming' = warming
  <2> HIDE DEF q
  <2>1. p = [Claude!Pool EXCEPT !.using[j] = NoOne]
    BY DEF q
  <2> HIDE DEF p
  <2> QED BY <1>2, <2>1, Zenon DEF Claude!Spawned, keyOf
<1>6. j \in Claude!Job /\ load \in Loads /\ q.pc[j] = "spawn"
  BY <1>1, <1>2, <1>3
<1>7. k \in {keyOf(i) : i \in Claude!Job} /\ k = keyOf(j)
  OBVIOUS
<1>7a. s = q.using[j]
  OBVIOUS
<1> HIDE DEF q, p, d, st, w, s, k
<1>8. Moved(q, p, j, "spawn", NoOne) /\ p.active = active /\ p.sess = q.sess
  BY ONLY <1>1, <1>2, <1>4, <1>6 DEF Moved, PoolRec, JobPc, InPool
<1>9. p \in PoolRec
  BY <1>8 DEF Moved
<1>10. /\ PoolInv(p, w) /\ OwnedInv(p, w, d, s) /\ GoingInv(p, st, NoOne, j)
       /\ Taken(p, j) /\ Free(p, w, s)
  <2>1. /\ PoolInv(p, w) /\ OwnedInv(p, w, d, q.using[j]) /\ GoingInv(p, st, NoOne, j)
        /\ Taken(p, j) /\ Free(p, w, q.using[j])
    BY ONLY <1>1, <1>6, <1>8, LeaveKeeps, SMTT(30)
  <2> QED BY <1>7a, <2>1
<1>11. p.using[j] = NoOne
  BY <1>1, <1>6, <1>8, PoolFields DEF Moved
<1>12. Seeking(p, w, d, st, s, j)
  BY <1>9, <1>10, <1>11 DEF Seeking
<1>13. s \in DOMAIN p.sess
  BY <1>10 DEF Free
\* The process died: the job fails.
<1>14. CASE q.sess[s].dead
  <2> DEFINE r == [p EXCEPT !.active = @ - 1, !.pc[j] = "failing"]
  <2>1. Claude!Become(r) /\ warming' = warming /\ history' = history
    BY <1>5, <1>14
  <2>2. r = [p EXCEPT !.active = @ - 1, !.pc[j] = "failing"]
    OBVIOUS
  <2> HIDE DEF r
  <2> DEFINE G == Cardinality(InThePool(p) \ {j})
  <2>3. p.active = G + 1
    BY <1>10 DEF Taken
  <2>4. G \in Nat
    <3>1. IsFiniteSet(InThePool(p) \ {j})
      BY <1>6, SmallFacts, FS_Subset DEF InThePool
    <3> QED BY <3>1, FS_CardinalityType
  <2>5. p.active - 1 = G /\ p.active - 1 \in Nat
    <3> HIDE DEF G
    <3> QED BY ONLY <2>3, <2>4
  <2> DEFINE a == p.active - 1
  <2>6. r = [p EXCEPT !.active = a, !.pc[j] = "failing"] /\ a \in Nat
    BY <2>2, <2>5
  <2>7. a = G
    BY <2>5
  <2> HIDE DEF a
  <2>8. /\ r \in PoolRec /\ r.sess = p.sess /\ r.idle = p.idle /\ r.threads = p.threads
        /\ r.using = p.using /\ r.pc = [p.pc EXCEPT ![j] = "failing"] /\ r.active = a
    BY ONLY <1>6, <1>9, <2>6 DEF PoolRec, JobPc, InPool
  <2>9. "failing" \in JobPc \ InPool
    BY DEF JobPc, InPool
  <2>10. s # NoOne => p.sess[s].dead
    BY <1>8, <1>14
  <2>11. r.active = Cardinality(InThePool(p) \ {j})
    BY <2>7, <2>8
  <2>12. Sound(r, w, d, st)
    BY ONLY <1>6, <1>9, <1>10, <1>11, <2>8, <2>9, <2>10, <2>11, OutKeeps, SMTT(30)
  <2>13. r.active <= MAX_ACTIVE
    <3>1. a <= p.active
      BY <2>3, <2>4, <2>7
    <3> QED BY <1>1, <1>8, <2>6, <2>8, <3>1
  <2>14. Sound(r, warming', history'.doubled, history'.stale) /\ history' \in Kinds
    BY <1>1, <2>1, <2>12 DEF w, d, st
  <2> QED BY ONLY CInv, <1>3, <2>1, <2>13, <2>14, CNext
\* A job without thread_key runs on it.
<1>15. CASE ~q.sess[s].dead /\ k = NoOne
  <2> DEFINE r == Claude!runTurn(p, s, j)
  <2>1. Claude!topUpFrom(r) /\ history' = history /\ r = Claude!runTurn(p, s, j)
    BY <1>5, <1>15
  <2> HIDE DEF r
  <2>2. May(p, w, d, s, j)
    BY <1>6, <1>7, <1>10, <1>12, <1>15, FreeMay
  <2>3. Sound(r, w, d, st) /\ r.active <= p.active
    BY ONLY <1>6, <1>12, <1>13, <2>1, <2>2, RunOn, SMTT(30)
  <2>4. Sound(r, warming, history'.doubled, history'.stale) /\ history' \in Kinds
    BY <1>1, <2>1, <2>3 DEF w, d, st
  <2>5. r.active <= MAX_ACTIVE
    <3>1. r.active \in Nat
      BY <2>3, PoolFields DEF Sound
    <3> QED BY ONLY <1>1, <1>8, <2>3, <3>1
  <2> QED BY ONLY CInv, <1>3, <2>1, <2>4, <2>5, TopUpC
\* A job with one: the session becomes sticky, and may evict an older one.
<1>16. CASE ~q.sess[s].dead /\ k # NoOne
  <2> DEFINE p1 == Claude!setThread(p, k, s)
             p2 == Claude!evictThreads(p1)
             r == Claude!runTurn(p2, s, j)
             e == d \cup Old(p, k)
  <2>1. /\ Claude!Become(r) /\ warming' = warming
        /\ history' = [history EXCEPT !.doubled = @ \cup Claude!ThreadsOf(k)]
    BY <1>5, <1>16
  <2>2. p1 = Claude!setThread(p, k, s) /\ p2 = Claude!evictThreads(p1)
        /\ r = Claude!runTurn(p2, s, j) /\ e = d \cup Old(p, k)
    OBVIOUS
  <2> HIDE DEF p1, p2, r, e
  <2>3. /\ p1 \in PoolRec /\ p1.sess = p.sess /\ p1.idle = p.idle /\ SameUse(p, p1)
        /\ PoolInv(p1, w) /\ OwnedInv(p1, w, e, s) /\ GoingInv(p1, st, NoOne, j)
        /\ Sticky(p1, s)
        /\ \A i \in DOMAIN p1.threads : p1.threads[i][2] = s => p1.threads[i][1] = k
    <3>1. k # NoOne
      BY <1>16
    <3>2. /\ p1 \in PoolRec /\ p1.sess = p.sess /\ p1.idle = p.idle /\ SameUse(p, p1)
          /\ PoolInv(p1, w) /\ OwnedInv(p1, w, d \cup Old(p, k), s)
          /\ GoingInv(p1, st, NoOne, j)
          /\ Sticky(p1, s)
          /\ \A i \in DOMAIN p1.threads : p1.threads[i][2] = s => p1.threads[i][1] = k
      BY ONLY <1>6, <1>7, <1>9, <1>10, <2>2, <3>1, SetKeeps, SMTT(30)
    <3> QED BY <2>2, <3>2
  <2>4. Seeking(p1, w, e, st, s, j) /\ p1.active = p.active
    BY <1>10, <1>11, <2>3 DEF Seeking, SameUse, Taken, InThePool
  <2>5. /\ PoolInv(p2, w) /\ OwnedInv(p2, w, e, s) /\ GoingInv(p2, st, NoOne, j)
        /\ Drops(p1, p2)
    BY ONLY <1>6, <2>2, <2>3, EvictKeeps, SMTT(30)
  <2>6. Seeking(p2, w, e, st, s, j) /\ p2.active = p1.active
    BY <2>4, <2>5, DropSeeking
  <2>7. /\ s \in DOMAIN p2.sess /\ p2.idle = p.idle /\ p2.using = p.using
        /\ p2.sess[s].served = p.sess[s].served
        /\ Sticky(p2, s) \/ p2.sess[s].dead
        /\ \A i \in DOMAIN p2.threads : p2.threads[i][2] = s => p2.threads[i][1] = k
    BY <1>13, <2>3, <2>5 DEF Drops, SameUse, Kept
  <2>8. May(p2, w, e, s, j)
    <3>1. /\ p.sess[s].served = {} /\ ~IsIdle(p, s) /\ s # w
          /\ \A i \in Claude!Job : p.using[i] # s
      BY <1>10 DEF Free, Unused
    <3>2. p2.using[j] = NoOne
      BY <2>6 DEF Seeking
    <3> QED BY <1>7, <1>16, <2>7, <3>1, <3>2 DEF May, IsIdle
  <2>9. s \in DOMAIN p2.sess /\ r = Claude!runTurn(p2, s, j)
    BY <2>2, <2>7
  <2>10. Sound(r, w, e, st) /\ r.active <= p2.active
    BY ONLY <1>6, <2>6, <2>8, <2>9, RunOn, SMTT(30)
  <2>11. Old(p, k) = Claude!ThreadsOf(k) /\ Old(p, k) \in SUBSET Nat
    <3>1. p.threads = threads
      BY <1>2, <1>8 DEF Moved
    <3>2. p.threads \in Seq(Sticking)
      BY <1>9, PoolFields
    <3>3. \A i \in DOMAIN p.threads : p.threads[i][2] \in Nat
      BY <3>2 DEF Sticking
    <3> QED BY <3>1, <3>3 DEF Old, Claude!ThreadsOf, Claude!keyOf
  <2>12. history' \in Kinds /\ history'.doubled = e /\ history'.stale = st
    BY <1>1, <2>1, <2>2, <2>11 DEF Kinds, d, st
  <2>13. Sound(r, warming', history'.doubled, history'.stale)
    BY <2>1, <2>10, <2>12 DEF w
  <2>14. r.active <= MAX_ACTIVE
    <3>1. r.active \in Nat
      BY <2>10, PoolFields DEF Sound
    <3> QED BY ONLY <1>1, <1>8, <2>4, <2>6, <2>10, <3>1
  <2> QED BY ONLY CInv, <1>3, <2>1, <2>12, <2>13, <2>14, CNext
<1> QED BY <1>14, <1>15, <1>16

-----------------------------------------------------------------------------
\* A step of job j before or after its time in the pool.
LEMMA JobStepKeeps ==
    ASSUME CInv, NEW j \in Claude!Job, Claude!JobStep(j) PROVE CInv'
<1>0. history \in Kinds
  BY CFacts
<1>1. pc \in [Claude!Job -> JobPc]
  BY CFacts, PoolFields, PoolIs
<1>2. CASE Claude!Inbound(j)
  <2>1. PICK c \in {"input", "accept"} : pc' = [pc EXCEPT ![j] = c]
    BY <1>2 DEF Claude!Inbound
  <2>2. /\ load' = load /\ history' = history /\ pc[j] \notin InPool /\ c \in JobPc \ InPool
        /\ UNCHANGED <<sess, idle, threads, active, using, text, warming>>
    BY <1>2 DEF Claude!Inbound, Claude!poolVars, Claude!replyVars, InPool, JobPc
  <2> QED BY <1>0, <2>1, <2>2, CJob
<1>3. ASSUME NEW val, Claude!ResolveInput(j, val) PROVE CInv'
  <2>1. /\ pc' = [pc EXCEPT ![j] = "accept"]
        /\ load' = load /\ history' = history /\ pc[j] \notin InPool
        /\ "accept" \in JobPc \ InPool
        /\ UNCHANGED <<sess, idle, threads, active, using, text, warming>>
    BY <1>3 DEF Claude!ResolveInput, Claude!poolVars, InPool, JobPc
  <2> QED BY <1>0, <2>1, CJob
<1>4. CASE Claude!Accepted(j)
  <2>1. PICK c \in {"failing", "acquire"} : pc' = [pc EXCEPT ![j] = c]
    BY <1>4 DEF Claude!Accepted
  <2>2. /\ load' = load /\ history' = history /\ pc[j] \notin InPool /\ c \in JobPc \ InPool
        /\ UNCHANGED <<sess, idle, threads, active, using, text, warming>>
    BY <1>4 DEF Claude!Accepted, Claude!poolVars, Claude!replyVars, InPool, JobPc
  <2> QED BY <1>0, <2>1, <2>2, CJob
<1>5. ASSUME NEW ok \in BOOLEAN, Claude!PutBlob(j, ok) PROVE CInv'
  <2>1. PICK c \in {"send", "resend"} : pc' = [pc EXCEPT ![j] = c]
    BY <1>5 DEF Claude!PutBlob
  <2>2. /\ load' = load /\ pc[j] \notin InPool /\ c \in JobPc \ InPool
        /\ UNCHANGED <<sess, idle, threads, active, using, text, warming>>
    BY <1>5 DEF Claude!PutBlob, Claude!poolVars, InPool, JobPc
  <2>3. history' = history \/ history' = [history EXCEPT !.lostDel = @ \cup {j}]
    BY <1>5 DEF Claude!PutBlob
  <2>4. j \in Nat
    BY CFacts, SmallFacts
  <2>5. history' \in Kinds /\ history'.doubled = history.doubled /\ history'.stale = history.stale
    BY <1>0, <2>3, <2>4 DEF Kinds
  <2> QED BY <2>1, <2>2, <2>5, CJob
<1>6. ASSUME NEW how \in {"accepted", "refused", "stored"}, Claude!SendReply(j, how) PROVE CInv'
  <2>1. PICK c \in {"done", "delete", "failing"} : pc' = [pc EXCEPT ![j] = c]
    BY <1>6 DEF Claude!SendReply
  <2>2. /\ load' = load /\ pc[j] \notin InPool /\ c \in JobPc \ InPool
        /\ UNCHANGED <<sess, idle, threads, active, using, text, warming>>
    BY <1>6 DEF Claude!SendReply, Claude!poolVars, InPool, JobPc
  <2>3. history' = history \/ history' = [history EXCEPT !.doubt = @ \cup {j}]
    BY <1>6 DEF Claude!SendReply
  <2>4. j \in Nat
    BY CFacts, SmallFacts
  <2>5. history' \in Kinds /\ history'.doubled = history.doubled /\ history'.stale = history.stale
    BY <1>0, <2>3, <2>4 DEF Kinds
  <2> QED BY <2>1, <2>2, <2>5, CJob
<1>7. ASSUME NEW ok \in BOOLEAN, Claude!DelBlob(j, ok) PROVE CInv'
  <2>1. /\ pc' = [pc EXCEPT ![j] = "failing"]
        /\ load' = load /\ pc[j] \notin InPool /\ "failing" \in JobPc \ InPool
        /\ UNCHANGED <<sess, idle, threads, active, using, text, warming>>
    BY <1>7 DEF Claude!DelBlob, Claude!poolVars, InPool, JobPc
  <2>3. history' = history \/ history' = [history EXCEPT !.lostDel = @ \cup {j}]
    BY <1>7 DEF Claude!DelBlob
  <2>4. j \in Nat
    BY CFacts, SmallFacts
  <2>5. history' \in Kinds /\ history'.doubled = history.doubled /\ history'.stale = history.stale
    BY <1>0, <2>3, <2>4 DEF Kinds
  <2> QED BY <2>1, <2>5, CJob
<1>8. ASSUME NEW ok \in BOOLEAN, Claude!SendFailed(j, ok) PROVE CInv'
  <2>1. /\ pc' = [pc EXCEPT ![j] = "done"]
        /\ load' = load /\ pc[j] \notin InPool
        /\ "done" \in JobPc \ InPool
        /\ UNCHANGED <<sess, idle, threads, active, using, text, warming>>
    BY <1>8 DEF Claude!SendFailed, Claude!poolVars, InPool, JobPc
  <2>3. history' = history \/ history' = [history EXCEPT !.mute = @ \cup {j}]
    BY <1>8 DEF Claude!SendFailed
  <2>4. j \in Nat
    BY CFacts, SmallFacts
  <2>5. history' \in Kinds /\ history'.doubled = history.doubled /\ history'.stale = history.stale
    BY <1>0, <2>3, <2>4 DEF Kinds
  <2> QED BY <2>1, <2>5, CJob
<1>9. CASE Claude!Acquire(j)
  BY <1>9, AcquireKeeps
<1>10. CASE Claude!Spawned(j)
  BY <1>10, SpawnedKeeps
<1> QED
  BY <1>2, <1>3, <1>4, <1>5, <1>6, <1>7, <1>8, <1>9, <1>10 DEF Claude!JobStep

\* Every step of the gateway keeps the invariant.
LEMMA ClaudeNext ==
    ASSUME CInv, Claude!Next PROVE CInv'
<1>1. CASE Claude!Boot
  BY <1>1, BootKeeps
<1>2. CASE Claude!Warmed
  BY <1>2, WarmedKeeps
<1>3. CASE Claude!Stop
  BY <1>3, StopKeeps
<1>4. ASSUME NEW j \in Claude!Job, Claude!JobStep(j) PROVE CInv'
  BY <1>4, JobStepKeeps
<1>5. ASSUME NEW s \in 1..MaxSessions, Claude!SessionStep(s) PROVE CInv'
  BY <1>5, ResultKeeps, ProcessExitKeeps, TickIdleKeeps, TickCapKeeps DEF Claude!SessionStep
<1> QED BY <1>1, <1>2, <1>3, <1>4, <1>5 DEF Claude!Next

\* The gateway starts with the invariant.
LEMMA ClaudeStart ==
    ASSUME Claude!Init PROVE CInv
<1> DEFINE p == Claude!Pool
<1>1. /\ load \in Loads /\ warming = NoOne /\ active = 0 /\ sess = <<>> /\ idle = <<>>
      /\ threads = <<>> /\ pc = [j \in Claude!Job |-> "new"]
      /\ using = [j \in Claude!Job |-> NoOne] /\ text = [j \in Claude!Job |-> <<>>]
      /\ history = [doubled |-> {}, stale |-> {}, lostDel |-> {}, doubt |-> {}, mute |-> {}]
  BY DEF Claude!Init
<1>2. /\ p.sess = <<>> /\ p.idle = <<>> /\ p.threads = <<>> /\ p.active = 0
      /\ p.using = using /\ p.pc = pc
  BY <1>1, PoolIs
<1>3. /\ \A j \in Claude!Job : p.using[j] = NoOne /\ p.pc[j] = "new"
      /\ DOMAIN p.sess = {} /\ DOMAIN p.idle = {} /\ DOMAIN p.threads = {}
  BY <1>1, <1>2
<1>4. p \in PoolRec
  <2>1. /\ <<>> \in Seq(Session) /\ <<>> \in Seq(Nat) /\ <<>> \in Seq(Sticking) /\ <<>> \in Txt
        /\ 0 \in Nat /\ "new" \in JobPc
    BY DEF Txt, JobPc
  <2> QED BY <1>1, <2>1 DEF PoolRec, Claude!Pool
<1> HIDE DEF p
<1>5. PoolInv(p, warming)
  BY <1>1, <1>3 DEF PoolInv, UsingInv, WarmInv, IdleInv, StickyInv, TurnInv, ServedInv
<1>6. OwnedInv(p, warming, history.doubled, NoOne)
  BY <1>3 DEF OwnedInv
<1>7. GoingInv(p, history.stale, NoOne, NoOne)
  BY <1>3 DEF GoingInv, InPool
<1>8. Counted(p)
  <2>1. InThePool(p) = {}
    BY <1>3 DEF InThePool, InPool
  <2> QED BY <1>2, <2>1, FS_EmptySet DEF Counted
<1>9. MAX_ACTIVE \in Nat
  BY ClaudeAssume DEF Claude!ClaudeAssumption
<1>10. history \in Kinds /\ active <= MAX_ACTIVE
  BY <1>1, <1>9 DEF Kinds
<1> QED BY <1>1, <1>4, <1>5, <1>6, <1>7, <1>8, <1>10 DEF CInv, Sound, p

\* The invariant implies the properties.
LEMMA ClaudeSafe ==
    ASSUME CInv PROVE Claude!Isolation /\ Claude!NoOrphanSession /\ Claude!NoLostTurn
<1> DEFINE p == Claude!Pool
<1>1. /\ load \in Loads /\ p \in PoolRec /\ PoolInv(p, warming) /\ active <= MAX_ACTIVE
      /\ OwnedInv(p, warming, history.doubled, NoOne)
      /\ GoingInv(p, history.stale, NoOne, NoOne) /\ Counted(p)
  BY CFacts DEF Sound
<1>2. /\ p.sess = sess /\ p.idle = idle /\ p.threads = threads
      /\ p.active = active /\ p.using = using /\ p.pc = pc
  BY PoolIs
<1> HIDE DEF p
<1>3. Claude!Isolation
  <2>1. ASSUME NEW s \in DOMAIN sess
        PROVE  /\ \A i, j \in sess[s].served : Claude!tab(i).key = Claude!tab(j).key
               /\ \A j \in sess[s].served :
                     Claude!tab(j).key = NoOne =>
                        Cardinality(sess[s].served) <= SESSION_MAX_TURNS
    <3>1. ServedOf(p, s, sess[s]) /\ sess[s] \in Session
      BY <1>1, <1>2, PoolFields DEF PoolInv, ServedInv
    <3>2. sess[s].turns \in Nat /\ IsFiniteSet(sess[s].served)
      BY <1>1, <3>1, SessionFields, SmallFacts, FS_Subset
    <3>3. Cardinality(sess[s].served) \in Nat /\ SESSION_MAX_TURNS \in Nat
      BY <1>1, <3>2, FS_CardinalityType, SmallFacts
    <3> QED BY <3>1, <3>2, <3>3 DEF ServedOf, keyOf
  <2>2. \A s \in DOMAIN sess : Claude!Cardinality(sess[s].served) = Cardinality(sess[s].served)
    BY DEF Claude!Cardinality, Cardinality
  <2> QED BY <2>1, <2>2 DEF Claude!Isolation
<1>4. Claude!NoOrphanSession
  <2>1. ASSUME NEW s \in DOMAIN sess
        PROVE  \/ sess[s].dead \/ s = warming \/ s \in Claude!ToSet(idle)
               \/ s \in history.doubled
               \/ \E i \in DOMAIN threads : threads[i][2] = s
               \/ \E j \in Claude!Job : using[j] = s
    <3>1. s # NoOne
      BY <1>1, <1>2, PoolFields, SmallFacts
    <3>2. \/ p.sess[s].dead \/ s = warming \/ IsIdle(p, s) \/ s \in history.doubled
          \/ Sticky(p, s) \/ \E j \in Claude!Job : p.using[j] = s
      BY <1>1, <1>2, <3>1 DEF OwnedInv
    <3> QED BY <1>2, <3>2 DEF IsIdle, Sticky, Claude!ToSet
  <2> QED BY <2>1 DEF Claude!NoOrphanSession
<1>5. Claude!NoLostTurn
  <2>1. active = Cardinality({j \in Claude!Job : pc[j] \in {"spawn", "turn"}})
    BY <1>1, <1>2 DEF Counted, InThePool, InPool
  <2>2. ASSUME history.stale = {}, NEW j \in Claude!Job, pc[j] = "turn"
        PROVE  Claude!CanEnd(j)
    <3> DEFINE s == using[j]
    <3>1. /\ j \in Claude!Job \ {NoOne} /\ s # NoOne
          /\ p.sess[s].inflight # NoOne
          /\ p.sess[s].inflight = j \/ Among(j, p.sess[s].q)
      <4>1. j \in Claude!Job \ {NoOne}
        BY <1>1, SmallFacts
      <4> QED BY <1>1, <1>2, <2>2, <4>1 DEF GoingInv, InPool
    <3>2. s \in DOMAIN p.sess
      BY <1>1, <1>2, <3>1 DEF PoolInv, UsingInv
    <3>3. Among(p.sess[s].inflight, p.sess[s].armed)
      BY <1>1, <3>1, <3>2 DEF PoolInv, TurnInv, TurnOf
    <3> QED BY <1>2, <3>1, <3>3 DEF Claude!CanEnd, Claude!ToSet, Among
  <2> DEFINE S == {j \in Claude!Job : pc[j] \in {"spawn", "turn"}}
  <2>3. Claude!Cardinality(S) = Cardinality(S)
    BY DEF Claude!Cardinality, Cardinality
  <2> QED BY <1>1, <2>1, <2>2, <2>3 DEF Claude!NoLostTurn
<1> QED BY <1>3, <1>4, <1>5

\* Conversations are not mixed, child processes stay reachable, slots and turns balance: in the
\* gateway by itself, and as the run states it, among the other scenes of MCAgents.
THEOREM PoolSafeHolds == MCSpec => []PoolSafe
<1> DEFINE I == scene = "claude" => CInv
<1>1. MCInit => I
    BY ClaudeStart DEF MCInit
<1>2. I /\ [MCNext]_<<scene, vars, claudeVars, governorVars, guardVars>> => I'
    <2>1. CASE scene = "claude" /\ MCNext
        <3>1. ASSUME I PROVE scene' = "claude" => CInv'
            <4>1. CInv /\ Claude!Next
                BY <2>1, <3>1 DEF MCNext
            <4> QED BY <4>1, ClaudeNext
        <3> QED BY <3>1
    <2>2. CASE scene = "claude" /\ UNCHANGED <<scene, claudeVars>>
        <3>1. ASSUME I PROVE CInv'
            <4>1. CInv
                BY <2>2, <3>1
            <4>2. history \in Kinds
                BY <4>1, CFacts
            <4>3. /\ load' = load /\ history' = history
                  /\ UNCHANGED <<sess, idle, threads, active, using, pc, text, warming>>
                BY <2>2 DEF claudeVars
            <4> QED BY <4>1, <4>2, <4>3, CSame
        <3> QED BY <3>1
    <2>3. CASE scene # "claude" /\ UNCHANGED scene
        BY <2>3
    <2> QED BY <2>1, <2>2, <2>3 DEF MCNext
<1>3. I => PoolSafe
    BY ClaudeSafe DEF PoolSafe
<1> QED BY <1>1, <1>2, <1>3, PTL DEF MCSpec
=============================================================================
