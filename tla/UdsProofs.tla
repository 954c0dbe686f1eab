----------------------------- MODULE UdsProofs -----------------------------
(***************************************************************************)
(* The safety of what a session delivers over the Unix socket, for any     *)
(* calls, notifications and signatures over any number of connections.     *)
(***************************************************************************)
EXTENDS MCUds, TLAPS

------------------------------------------------------------------------------
(* What an acknowledged delivery and a signature stand for, by an invariant that    *)
(* says what may be under way in each phase, that everything on its way to the client is behind  *)
(* the handshake, what the shim remembers of what it has shown, how the chain of injects relates *)
(* to the order they were made in, and which ids the requests to sign and their frames carry.    *)

\* Notification ids, the control frames of the shim, the MCP frames of the client.
Notif == {NotifOf[c] : c \in Call}
Ack == [t : {"delivered"}, id : Notif, epoch : Nat]
Sig == [t : {"sig"}, id : Nat, sig : Uds!Sign]
Handshake == {"initialize", "initialized"}

\* The types of the calls, the requests to sign, the frames and the connection, and of what the
\* shim has shown.
CallType ==
    /\ call \in [Call -> {"none", "buffered", "chained", "sent", "ok", "err", "stranded"}]
    /\ chain \in Seq(Call) /\ order \in Seq(Call)
    /\ flushed \in BOOLEAN /\ served \in BOOLEAN /\ pending \in {"none", "open", "acked", "gone"}
SignType ==
    /\ sign \in [Uds!Sign -> [st : {"none", "waiting", "ok", "err"}, id : Nat, sig : Nat]]
    /\ nextReqId \in Nat
FrameType ==
    /\ dnM \in Seq(Notif \cup {"result"}) /\ dnC \in Seq(Nat \X Uds!Sign)
    /\ upM \in Seq(Handshake) /\ upC \in Seq(Ack \cup Sig)
    /\ mcpBuffer \in Seq(Handshake) /\ epoch \in Nat
    /\ phase \in {"down", "starting", "authed", "session", "closing"}
ShownType == dedup \in Seq(Notif) /\ shown \in Seq(Notif)

\* Nothing is under way between connections.
QuietInv ==
    /\ phase \in {"down", "starting", "closing"} => dnC = <<>> /\ upC = <<>>
    /\ phase \in {"down", "starting"} => chain = <<>> /\ pending = "none"
    /\ phase = "starting" => order = <<>> /\ dnM = <<>> /\ ~served /\ nextReqId = 1

\* Every notification on its way, and every call of the chain, is behind the client's handshake.
HandshakeInv ==
    /\ served => inited
    /\ \A i \in 1..Len(upM) : upM[i] = "initialized" => inited
    /\ \A i \in 1..Len(mcpBuffer) : mcpBuffer[i] = "initialized" => inited
    /\ chain # <<>> => served
    /\ \A i \in 1..Len(dnM) : dnM[i] # "result" => inited
    /\ shown # <<>> => inited

\* The shim remembers the tail of what it has shown, shorter than DedupCap only if that is all.
WindowInv ==
    /\ Len(dedup) <= DedupCap /\ Len(dedup) <= Len(shown)
    /\ Len(dedup) < DedupCap => Len(dedup) = Len(shown)
    /\ \A i \in 1..Len(dedup) : dedup[i] = shown[Len(shown) - Len(dedup) + i]

Shows(s, n) == \E i \in 1..Len(s) : s[i] = n

\* An acknowledgement, on its way or taken, is for a notification that was shown.
AckInv ==
    /\ \A i \in 1..Len(upC) : upC[i].t = "delivered" => Shows(shown, upC[i].id)
    /\ pending = "acked" => Shows(shown, NotifOf[chain[1]])
    /\ \A c \in Call : call[c] = "ok" => Shows(shown, NotifOf[c])

\* The chain holds the unsettled calls of the connection in the order they were made, and only its
\* first has been sent; before the handshake every call is buffered.
OrderInv ==
    /\ \A i, j \in 1..Len(order) : order[i] = order[j] => i = j
    /\ \A i \in 1..Len(order) : call[order[i]] \notin {"none", "stranded"}
    /\ \A a \in 1..Len(chain) : \E i \in 1..Len(order) : order[i] = chain[a]
    /\ \A a, b \in 1..Len(chain), i, j \in 1..Len(order) :
          a < b /\ order[i] = chain[a] /\ order[j] = chain[b] => i < j
    /\ \A a \in 1..Len(chain) :
          call[chain[a]] = IF a = 1 /\ pending # "none" THEN "sent" ELSE "chained"
    /\ \A c \in Call : call[c] \in {"chained", "sent"} => \E a \in 1..Len(chain) : chain[a] = c
    /\ \A c \in Call : call[c] = "buffered" =>
          ~served /\ phase # "down" /\ \E i \in 1..Len(order) : order[i] = c
    /\ ~served /\ phase # "down" => \A i \in 1..Len(order) : call[order[i]] = "buffered"
    /\ chain = <<>> => pending = "none"

\* Requests that wait have their own ids, and a frame carries the id of the request it names.
SignInv ==
    /\ \A g \in Uds!Sign : sign[g].st = "waiting" => sign[g].id < nextReqId /\ phase # "down"
    /\ \A i \in 1..Len(dnC) : dnC[i][1] < nextReqId
          /\ \A g \in Uds!Sign : sign[g].st = "waiting" /\ sign[g].id = dnC[i][1] => g = dnC[i][2]
    /\ \A i \in 1..Len(upC) : upC[i].t = "sig" => upC[i].id < nextReqId
          /\ \A g \in Uds!Sign : sign[g].st = "waiting" /\ sign[g].id = upC[i].id => g = upC[i].sig

UInv == /\ CallType /\ SignType /\ FrameType /\ ShownType
        /\ QuietInv /\ HandshakeInv /\ WindowInv /\ AckInv /\ OrderInv /\ SignInv
        /\ Uds!DeliveredInOrder /\ Uds!ShownOnce /\ Uds!SignatureIsOurs

-----------------------------------------------------------------------------
\* What the operations on a queue leave of it.
LEMMA TailOf ==
    ASSUME NEW S, NEW s \in Seq(S), s # <<>>
    PROVE  /\ Tail(s) \in Seq(S) /\ Len(Tail(s)) = Len(s) - 1 /\ Len(s) \in Nat \ {0}
           /\ Head(s) = s[1] /\ s[1] \in S
           /\ \A i \in 1..Len(Tail(s)) : Tail(s)[i] = s[i + 1] /\ i + 1 \in 1..Len(s)
OBVIOUS

LEMMA AppendOf ==
    ASSUME NEW S, NEW s \in Seq(S), NEW x \in S
    PROVE  /\ Append(s, x) \in Seq(S) /\ Len(Append(s, x)) = Len(s) + 1 /\ Len(s) \in Nat
           /\ Append(s, x)[Len(s) + 1] = x
           /\ \A i \in 1..Len(s) : Append(s, x)[i] = s[i] /\ s[i] \in S
OBVIOUS

\* What FeedMcp does to the calls.
LEMMA FedCalls ==
    ASSUME CallType, NEW msgs, Uds!FeedMcp(msgs)
    PROVE  /\ dnM' \in {dnM, Append(dnM, "result")}
           /\ "initialized" \notin Uds!ToSet(msgs) => UNCHANGED <<served, call, chain>>
           /\ "initialized" \in Uds!ToSet(msgs) =>
                 /\ served' = TRUE
                 /\ chain' = chain \o Uds!pendingInjects
                 /\ call' = [c \in Call |-> IF call[c] = "buffered" THEN "chained" ELSE call[c]]
<1>1. dnM' \in {dnM, Append(dnM, "result")}
  BY DEF Uds!FeedMcp
<1>2. CASE "initialized" \notin Uds!ToSet(msgs)
  <2>1. call' = [c \in Call |-> call[c]]
    BY <1>2 DEF Uds!FeedMcp
  <2>2. call' = call
    BY <2>1 DEF CallType
  <2>3. chain' = chain
    BY <1>2 DEF Uds!FeedMcp
  <2>4. served' = served
    <3>1. served' = (served \/ FALSE)
      BY <1>2, Zenon DEF Uds!FeedMcp
    <3> QED BY <3>1 DEF CallType
  <2> QED BY <1>1, <1>2, <2>2, <2>3, <2>4
<1>3. CASE "initialized" \in Uds!ToSet(msgs)
  <2>1. call' = [c \in Call |-> IF call[c] = "buffered" THEN "chained" ELSE call[c]]
    BY <1>3 DEF Uds!FeedMcp
  <2>2. served' = TRUE
    BY <1>3 DEF Uds!FeedMcp
  <2>3. chain' = chain \o Uds!pendingInjects
    BY <1>3 DEF Uds!FeedMcp
  <2> QED BY <1>1, <1>3, <2>1, <2>2, <2>3
<1> QED BY <1>2, <1>3

\* A step of the core that feeds MCP frames of the client to the session.
LEMMA FeedEffect ==
    ASSUME UInv, Uds!EnterSession \/ Uds!ReadMcp
    PROVE  /\ UNCHANGED <<epoch, flushed, pending, order, sign, nextReqId, dnC, upC>>
           /\ UNCHANGED <<asked, initSent, inited, dedup, shown>>
           /\ phase \in {"authed", "session"} /\ phase' \in {"authed", "session"}
           /\ upM' \in Seq(Handshake) /\ mcpBuffer' \in Seq(Handshake)
           /\ \A i \in 1..Len(upM') : upM'[i] = "initialized" => inited
           /\ \A i \in 1..Len(mcpBuffer') : mcpBuffer'[i] = "initialized" => inited
           /\ dnM' \in {dnM, Append(dnM, "result")}
           /\ \/ UNCHANGED <<served, call, chain>>
              \/ /\ served' = TRUE /\ inited
                 /\ chain' = chain \o Uds!pendingInjects
                 /\ call' = [c \in Call |-> IF call[c] = "buffered" THEN "chained" ELSE call[c]]
<1> USE DEF UInv, FrameType, CallType, HandshakeInv, Uds!signer, Uds!shim, Handshake
<1>1. CASE Uds!EnterSession
  <2>1. "initialized" \in Uds!ToSet(mcpBuffer) => inited
    BY DEF Uds!ToSet
  <2>2. Uds!FeedMcp(mcpBuffer) /\ mcpBuffer' = <<>> /\ upM' = upM
    BY <1>1 DEF Uds!EnterSession
  <2>3. UNCHANGED <<epoch, flushed, pending, order, sign, nextReqId, dnC, upC>>
        /\ UNCHANGED <<asked, initSent, inited, dedup, shown>>
        /\ phase = "authed" /\ phase' = "session"
    BY <1>1 DEF Uds!EnterSession
  <2>4. mcpBuffer' \in Seq(Handshake) /\ Len(mcpBuffer') = 0
    BY <2>2
  <2>5. upM' \in Seq(Handshake) /\ \A i \in 1..Len(upM') : upM'[i] = "initialized" => inited
    BY <2>2
  <2>6. \A i \in 1..Len(mcpBuffer') : mcpBuffer'[i] = "initialized" => inited
    BY <2>4
  <2>7. /\ dnM' \in {dnM, Append(dnM, "result")}
        /\ \/ UNCHANGED <<served, call, chain>>
           \/ /\ served' = TRUE /\ inited
              /\ chain' = chain \o Uds!pendingInjects
              /\ call' = [c \in Call |-> IF call[c] = "buffered" THEN "chained" ELSE call[c]]
    BY <2>1, <2>2, FedCalls
  <2> QED BY <2>3, <2>4, <2>5, <2>6, <2>7
<1>2. CASE Uds!ReadMcp
  <2>1. /\ Head(upM) = upM[1] /\ 1 \in 1..Len(upM) /\ Tail(upM) \in Seq(Handshake)
        /\ Head(upM) \in Handshake
        /\ \A i \in 1..Len(Tail(upM)) : Tail(upM)[i] = upM[i + 1] /\ i + 1 \in 1..Len(upM)
    BY <1>2, TailOf DEF Uds!ReadMcp
  <2>2. Head(upM) = "initialized" => inited
    BY <2>1
  <2>3. /\ upM' = Tail(upM)
        /\ \A i \in 1..Len(upM') : upM'[i] = "initialized" => inited
    BY <1>2, <2>1 DEF Uds!ReadMcp
  <2>4. CASE phase = "session"
    <3>1. Uds!FeedMcp(<<Head(upM)>>) /\ mcpBuffer' = mcpBuffer
      BY <1>2, <2>4 DEF Uds!ReadMcp
    <3>2. "initialized" \in Uds!ToSet(<<Head(upM)>>) => inited
      BY <2>2 DEF Uds!ToSet
    <3>3. UNCHANGED <<epoch, flushed, pending, order, sign, nextReqId, dnC, upC>>
          /\ UNCHANGED <<asked, initSent, inited, dedup, shown>> /\ phase' = phase
      BY <1>2 DEF Uds!ReadMcp
    <3> QED BY <2>1, <2>3, <2>4, <3>1, <3>2, <3>3, FedCalls
  <2>5. CASE phase # "session"
    <3>1. mcpBuffer' = Append(mcpBuffer, Head(upM)) /\ UNCHANGED <<served, call, chain, dnM>>
      BY <1>2, <2>5 DEF Uds!ReadMcp
    <3>2. mcpBuffer' \in Seq(Handshake)
          /\ \A i \in 1..Len(mcpBuffer') : mcpBuffer'[i] = "initialized" => inited
      BY SMTT(40), <2>1, <2>2, <3>1, AppendOf
    <3> QED BY <1>2, <2>1, <2>3, <3>1, <3>2 DEF Uds!ReadMcp
  <2> QED BY <2>4, <2>5
<1> QED BY <1>1, <1>2

\* The first call of the chain settles.
Settles(v) == chain # <<>> /\ pending # "none" /\ Uds!Settled(v)

\* A step of the core that takes a control frame of the shim, a flush or the call's timer.
LEMMA AnswerEffect ==
    ASSUME UInv, Uds!ReadCtrl \/ Uds!Flushed \/ Uds!AckTimeout
    PROVE  /\ UNCHANGED <<phase, epoch, mcpBuffer, served, order, nextReqId, dnM, dnC, upM>>
           /\ UNCHANGED <<asked, initSent, inited, dedup, shown>>
           /\ phase \in {"authed", "session", "closing"}
           /\ \/ /\ UNCHANGED <<call, chain>> /\ flushed' \in BOOLEAN
                 /\ pending' = pending \/ (pending = "open" /\ pending' \in {"acked", "gone"})
                 /\ pending' = "acked" => Shows(shown, NotifOf[chain[1]])
              \/ Settles("err") \/ (Settles("ok") /\ Shows(shown, NotifOf[chain[1]]))
<1> USE DEF UInv, FrameType, CallType, Uds!signer, Uds!shim, Uds!frames
<1>0. pending # "none" => chain # <<>> /\ chain \in Seq(Call) /\ Head(chain) = chain[1]
  BY TailOf DEF OrderInv
<1>00. pending = "acked" => Shows(shown, NotifOf[chain[1]])
  BY DEF AckInv
<1>1. CASE Uds!ReadCtrl
  <2>1. upC \in Seq(Ack \cup Sig) /\ upC # <<>> /\ Head(upC) = upC[1] /\ 1 \in 1..Len(upC)
    BY <1>1, TailOf DEF Uds!ReadCtrl
  <2>2. CASE Head(upC).t # "delivered"
    BY <1>00, <1>1, <2>2 DEF Uds!ReadCtrl
  <2>3. CASE Head(upC).t = "delivered"
    <3>1. Shows(shown, Head(upC).id)
      BY <2>1, <2>3 DEF AckInv
    <3>2. Uds!feedCtrlDelivered(Head(upC))
      BY <1>1, <2>3 DEF Uds!ReadCtrl
    <3>3. CASE ~(pending = "open" /\ NotifOf[Head(chain)] = Head(upC).id /\ Head(upC).epoch = epoch)
      BY <1>00, <1>1, <3>2, <3>3 DEF Uds!ReadCtrl, Uds!feedCtrlDelivered
    <3>4. CASE pending = "open" /\ NotifOf[Head(chain)] = Head(upC).id /\ Head(upC).epoch = epoch
      <4>1. Uds!Answer("acked", "ok") /\ Shows(shown, NotifOf[chain[1]])
        BY <1>0, <3>1, <3>2, <3>4 DEF Uds!feedCtrlDelivered
      <4> QED BY <1>0, <1>1, <3>4, <4>1 DEF Uds!ReadCtrl, Uds!Answer, Settles
    <3> QED BY <3>3, <3>4
  <2> QED BY <2>2, <2>3
<1>2. CASE Uds!Flushed
  BY <1>0, <1>00, <1>2 DEF Uds!Flushed, Uds!Busy, Settles
<1>3. CASE Uds!AckTimeout
  BY <1>0, <1>3 DEF Uds!AckTimeout, Uds!Answer, Settles
<1> QED BY <1>1, <1>2, <1>3

\* Arithmetic of positions.
LEMMA NextIndex ==
    ASSUME NEW a \in Nat \ {0}, NEW b \in Nat, a <= b, NEW i \in 1..a
    PROVE  /\ i = a => (b + 1) - a + i = b + 1
           /\ i # a => /\ i + 1 \in 1..a /\ i \in 1..(a - 1)
                       /\ b - a + (i + 1) = (b + 1) - a + i /\ (b + 1) - a + i \in 1..b
OBVIOUS

\* The window after a notification that it does not hold.
LEMMA WindowShift ==
    ASSUME Uds!UdsDeliveryAssumption, ShownType, WindowInv, NEW n \in Notif, ShownType',
           dedup' = IF Len(dedup) < DedupCap THEN Append(dedup, n) ELSE Append(Tail(dedup), n),
           Len(shown') = Len(shown) + 1, shown'[Len(shown) + 1] = n,
           \A i \in 1..Len(shown) : shown'[i] = shown[i]
    PROVE  WindowInv'
<1>0. DedupCap \in Nat \ {0} /\ Len(dedup) \in Nat /\ Len(shown) \in Nat /\ Len(dedup) <= DedupCap
      /\ Len(dedup) <= Len(shown)
  BY DEF Uds!UdsDeliveryAssumption, ShownType, WindowInv
<1>1. CASE Len(dedup) < DedupCap
  <2>1. /\ Len(dedup') = Len(dedup) + 1 /\ dedup'[Len(dedup) + 1] = n
        /\ \A i \in 1..Len(dedup) : dedup'[i] = dedup[i]
    BY <1>1, AppendOf DEF ShownType
  <2>2. Len(dedup) = Len(shown) /\ \A i \in 1..Len(dedup) : dedup[i] = shown[i]
    BY <1>0, <1>1 DEF WindowInv
  <2>3. \A i \in 1..Len(dedup') : dedup'[i] = shown'[i]
    BY <1>0, <2>1, <2>2
  <2>4. Len(dedup') = Len(shown') /\ Len(dedup') <= DedupCap
        /\ Len(dedup') \in Nat /\ Len(shown') \in Nat
    BY <1>0, <1>1, <2>1, <2>2
  <2>5. ASSUME NEW i \in 1..Len(dedup') PROVE Len(shown') - Len(dedup') + i = i
    BY ONLY <2>4, <2>5
  <2>6. ASSUME NEW i \in 1..Len(dedup') PROVE dedup'[i] = shown'[Len(shown') - Len(dedup') + i]
    BY ONLY <2>3, <2>5, <2>6
  <2> QED BY ONLY <2>4, <2>6 DEF WindowInv
<1>2. CASE Len(dedup) = DedupCap
  <2>1. dedup # <<>> /\ dedup' = Append(Tail(dedup), n)
    BY <1>0, <1>2
  <2>2. /\ Tail(dedup) \in Seq(Notif) /\ Len(Tail(dedup)) = Len(dedup) - 1
        /\ \A i \in 1..Len(Tail(dedup)) : Tail(dedup)[i] = dedup[i + 1]
    BY <2>1, TailOf DEF ShownType
  <2>3. /\ Len(dedup') = Len(Tail(dedup)) + 1 /\ dedup'[Len(Tail(dedup)) + 1] = n
        /\ \A i \in 1..Len(Tail(dedup)) : dedup'[i] = Tail(dedup)[i]
    BY ONLY <2>1, <2>2, AppendOf, n \in Notif
  <2>4. /\ Len(dedup') = Len(dedup) /\ dedup'[Len(dedup)] = n
        /\ \A i \in 1..(Len(dedup) - 1) : dedup'[i] = dedup[i + 1]
    BY <1>0, <1>2, <2>2, <2>3
  <2>5. \A i \in 1..Len(dedup) : dedup[i] = shown[Len(shown) - Len(dedup) + i]
    BY DEF WindowInv
  <2>6. \A i \in 1..Len(dedup) : dedup'[i] = shown'[(Len(shown) + 1) - Len(dedup) + i]
    <3> SUFFICES ASSUME NEW i \in 1..Len(dedup)
                 PROVE  dedup'[i] = shown'[(Len(shown) + 1) - Len(dedup) + i]
      OBVIOUS
    <3>0. Len(dedup) \in Nat \ {0}
      BY <1>0, <1>2
    <3>1. CASE i = Len(dedup)
      BY <1>0, <2>4, <3>0, <3>1, NextIndex
    <3>2. CASE i # Len(dedup)
      <4>1. dedup'[i] = dedup[i + 1] /\ dedup[i + 1] = shown[Len(shown) - Len(dedup) + (i + 1)]
        BY <1>0, <2>4, <2>5, <3>0, <3>2, NextIndex
      <4>2. Len(shown) - Len(dedup) + (i + 1) = (Len(shown) + 1) - Len(dedup) + i
            /\ (Len(shown) + 1) - Len(dedup) + i \in 1..Len(shown)
        BY ONLY <1>0, <3>0, <3>2, NextIndex, i \in 1..Len(dedup)
      <4> QED BY <4>1, <4>2
    <3> QED BY <3>1, <3>2
  <2> QED BY ONLY <1>0, <1>2, <2>4, <2>6, Len(shown') = Len(shown) + 1 DEF WindowInv
<1> QED BY <1>0, <1>1, <1>2

\* A notification that the shim accepts.
LEMMA AcceptEffect ==
    ASSUME Uds!UdsDeliveryAssumption, UInv, NEW n \in Notif, Uds!Accept(n)
    PROVE  /\ ShownType' /\ WindowInv' /\ Uds!ShownOnce'
           /\ Shows(shown', n) /\ \A m : Shows(shown, m) => Shows(shown', m)
<1> USE DEF UInv, ShownType, WindowInv, Shows
<1>1. CASE n \in Uds!ToSet(dedup)
  <2>1. UNCHANGED <<shown, dedup>>
    BY <1>1 DEF Uds!Accept
  <2>2. PICK i \in 1..Len(dedup) : dedup[i] = n
    BY <1>1 DEF Uds!ToSet
  <2>3. Len(shown) - Len(dedup) + i \in 1..Len(shown)
    OBVIOUS
  <2> QED BY <2>1, <2>2, <2>3 DEF Uds!ShownOnce
<1>2. CASE n \notin Uds!ToSet(dedup)
  <2>1. /\ shown' = Append(shown, n)
        /\ dedup' = IF Len(dedup) < DedupCap THEN Append(dedup, n) ELSE Append(Tail(dedup), n)
    BY <1>2 DEF Uds!Accept, Uds!Write
  <2>2. /\ shown' \in Seq(Notif) /\ Len(shown') = Len(shown) + 1 /\ shown'[Len(shown) + 1] = n
        /\ \A i \in 1..Len(shown) : shown'[i] = shown[i]
    BY <2>1, AppendOf
  <2>d. dedup' \in Seq(Notif)
    <3>1. CASE Len(dedup) < DedupCap
      BY <2>1, <3>1, AppendOf
    <3>2. CASE ~(Len(dedup) < DedupCap)
      <4>1. dedup # <<>> /\ dedup' = Append(Tail(dedup), n)
        BY <2>1, <3>2 DEF Uds!UdsDeliveryAssumption
      <4> QED BY <4>1, AppendOf, TailOf
    <3> QED BY <3>1, <3>2
  <2>3. ShownType' /\ WindowInv'
    <3>1. ShownType'
      BY <2>2, <2>d
    <3> HIDE DEF ShownType, WindowInv, UInv
    <3> QED BY <2>1, <2>2, <3>1, WindowShift DEF UInv
  <2>a. Shows(shown', n)
    BY <2>2
  <2>b. ASSUME NEW m, Shows(shown, m) PROVE Shows(shown', m)
    BY <2>2, <2>b
  <2>4. Shows(shown', n) /\ \A m : Shows(shown, m) => Shows(shown', m)
    BY <2>a, <2>b
  <2>5. ASSUME NEW i \in 1..Len(shown'), NEW j \in 1..Len(shown'), i < j, shown'[i] = shown'[j],
               j - i <= DedupCap
        PROVE  FALSE
    <3>0. DedupCap \in Nat \ {0} /\ Len(dedup) \in Nat /\ Len(shown) \in Nat
      BY DEF Uds!UdsDeliveryAssumption
    <3>1. CASE j \in 1..Len(shown)
      BY <2>2, <2>5, <3>0, <3>1 DEF Uds!ShownOnce
    <3>2. CASE j = Len(shown) + 1
      <4>1. i \in 1..Len(shown) /\ shown[i] = n
        BY <2>2, <2>5, <3>0, <3>2
      <4>2. i - (Len(shown) - Len(dedup)) \in 1..Len(dedup)
        <5>1. Len(dedup) <= Len(shown) /\ (Len(dedup) < DedupCap => Len(dedup) = Len(shown))
          OBVIOUS
        <5>2. i < j /\ j - i <= DedupCap
          BY <2>5
        <5> QED BY ONLY <3>0, <3>2, <4>1, <5>1, <5>2
      <4>3. dedup[i - (Len(shown) - Len(dedup))] = shown[i]
        BY <3>0, <4>1, <4>2
      <4>4. n \in Uds!ToSet(dedup)
        BY <4>1, <4>2, <4>3 DEF Uds!ToSet
      <4> QED BY <1>2, <4>4
    <3> QED BY <2>2, <3>0, <3>1, <3>2
  <2>6. Uds!ShownOnce'
    BY <2>2, <2>5 DEF Uds!ShownOnce, Uds!UdsDeliveryAssumption
  <2> QED BY <2>3, <2>4, <2>6
<1> QED BY <1>1, <1>2

\* What a step that feeds MCP frames does to the deliveries: nothing, or the handshake is over and
\* all the calls of the connection, which waited for it, join the chain.
LEMMA FlushEffect ==
    ASSUME UInv, Uds!EnterSession \/ Uds!ReadMcp
    PROVE  \/ UNCHANGED <<served, call, chain>>
           \/ /\ ~served /\ served' = TRUE /\ inited /\ chain = <<>> /\ pending = "none" /\ chain' = order
              /\ \A i \in 1..Len(order) : call[order[i]] = "buffered"
              /\ call' = [c \in Call |-> IF call[c] = "buffered" THEN "chained" ELSE call[c]]
<1> USE DEF UInv
<1>1. phase \in {"authed", "session"}
  BY FeedEffect
<1>2. SUFFICES ASSUME /\ served' = TRUE /\ inited
                      /\ chain' = chain \o Uds!pendingInjects
                      /\ call' = [c \in Call |-> IF call[c] = "buffered" THEN "chained"
                                                 ELSE call[c]]
               PROVE  \/ UNCHANGED <<served, call, chain>>
                      \/ /\ ~served /\ served' = TRUE /\ inited /\ chain = <<>>
                         /\ pending = "none" /\ chain' = order
                         /\ \A i \in 1..Len(order) : call[order[i]] = "buffered"
                         /\ call' = [c \in Call |-> IF call[c] = "buffered" THEN "chained"
                                                    ELSE call[c]]
  BY FeedEffect
<1>3. CASE served
  <2>1. chain' = chain
    BY <1>2, <1>3 DEF Uds!pendingInjects, CallType
  <2>2. \A c \in Call : call[c] # "buffered"
    BY <1>3 DEF OrderInv
  <2>3. call' = [c \in Call |-> call[c]]
    BY <1>2, <2>2
  <2>4. call' = call
    BY <2>3 DEF CallType
  <2>5. served' = served
    BY <1>2, <1>3 DEF CallType
  <2> QED BY <2>1, <2>4, <2>5
<1>4. CASE ~served
  <2>1. chain = <<>> /\ pending = "none"
    BY <1>4 DEF HandshakeInv, OrderInv
  <2>2. chain' = order
    BY <1>2, <1>4, <2>1 DEF Uds!pendingInjects, CallType
  <2>3. \A i \in 1..Len(order) : call[order[i]] = "buffered"
    BY <1>1, <1>4 DEF OrderInv
  <2> QED BY <1>2, <1>4, <2>1, <2>2, <2>3
<1> QED BY <1>3, <1>4

\* What reading a control frame takes, and what it does to the requests to sign.
LEMMA CtrlEffect ==
    ASSUME UInv, Uds!ReadCtrl
    PROVE  /\ upC' = Tail(upC) /\ upC # <<>> /\ phase \in {"authed", "session"}
           /\ upC[1] \in Ack \cup Sig
           /\ sign' = sign \/ (upC[1].t = "sig" /\ upC[1] \in Sig /\ Uds!feedCtrlSig(upC[1]))
<1>1. upC \in Seq(Ack \cup Sig) /\ upC # <<>>
  BY DEF Uds!ReadCtrl, UInv, FrameType
<1>2. Head(upC) = upC[1] /\ upC[1] \in Ack \cup Sig
  BY <1>1, TailOf
<1>3. CASE Head(upC).t = "delivered"
  BY <1>1, <1>2, <1>3 DEF Uds!ReadCtrl
<1>4. CASE Head(upC).t # "delivered"
  <2>1. upC[1] \in Sig /\ upC[1].t = "sig"
    BY <1>2, <1>4 DEF Ack, Sig
  <2> QED BY <1>1, <1>2, <1>4, <2>1 DEF Uds!ReadCtrl
<1> QED BY <1>3, <1>4

\* The session reads frames of the client.
LEMMA FeedKeeps ==
    ASSUME UInv, Uds!EnterSession \/ Uds!ReadMcp
    PROVE  CallType' /\ FrameType' /\ HandshakeInv' /\ AckInv' /\ OrderInv' /\ Uds!DeliveredInOrder'
<1>1. /\ UNCHANGED <<epoch, flushed, pending, order, sign, nextReqId, dnC, upC>>
      /\ UNCHANGED <<asked, initSent, inited, dedup, shown>>
      /\ phase \in {"authed", "session"} /\ phase' \in {"authed", "session"}
      /\ upM' \in Seq(Handshake) /\ mcpBuffer' \in Seq(Handshake)
      /\ \A i \in 1..Len(upM') : upM'[i] = "initialized" => inited
      /\ \A i \in 1..Len(mcpBuffer') : mcpBuffer'[i] = "initialized" => inited
      /\ dnM' \in {dnM, Append(dnM, "result")}
  BY FeedEffect
<1>2. \/ UNCHANGED <<served, call, chain>>
      \/ /\ ~served /\ served' = TRUE /\ inited /\ chain = <<>> /\ pending = "none" /\ chain' = order
         /\ \A i \in 1..Len(order) : call[order[i]] = "buffered"
         /\ call' = [c \in Call |-> IF call[c] = "buffered" THEN "chained" ELSE call[c]]
  BY FlushEffect
<1>0. CallType /\ FrameType /\ HandshakeInv /\ AckInv /\ OrderInv /\ Uds!DeliveredInOrder
  BY DEF UInv
<1>3. CallType'
  BY <1>0, <1>1, <1>2 DEF CallType
<1>4. /\ dnM' \in Seq(Notif \cup {"result"})
      /\ \A i \in 1..Len(dnM') : dnM'[i] # "result" => inited
  <2>1. CASE dnM' = dnM
    BY <1>0, <2>1 DEF FrameType, HandshakeInv
  <2>2. CASE dnM' = Append(dnM, "result")
    BY <1>0, <2>2, AppendOf DEF FrameType, HandshakeInv
  <2> QED BY <1>1, <2>1, <2>2
<1>5. FrameType'
  BY <1>0, <1>1, <1>4 DEF FrameType
<1>6. HandshakeInv'
  BY <1>0, <1>1, <1>2, <1>4 DEF HandshakeInv
<1>7. AckInv'
  BY <1>0, <1>1, <1>2 DEF AckInv, Shows
<1>8. OrderInv'
  <2>1. CASE UNCHANGED <<served, call, chain>>
    <3>1. ~served' /\ phase' # "down" => ~served /\ phase # "down"
      BY <1>1, <2>1
    <3>2. \A c \in Call : call'[c] = "buffered" =>
             ~served' /\ phase' # "down" /\ \E i \in 1..Len(order) : order[i] = c
      BY <1>0, <1>1, <2>1 DEF OrderInv
    <3>3. call' = call /\ chain' = chain /\ order' = order /\ pending' = pending
      BY <1>1, <2>1
    <3> QED BY ONLY <1>0, <3>1, <3>2, <3>3 DEF OrderInv
  <2>2. CASE /\ ~served /\ served' = TRUE /\ inited /\ chain = <<>> /\ pending = "none" /\ chain' = order
             /\ \A i \in 1..Len(order) : call[order[i]] = "buffered"
             /\ call' = [c \in Call |-> IF call[c] = "buffered" THEN "chained" ELSE call[c]]
    <3>1. \A i \in 1..Len(order) : call'[order[i]] = "chained"
      BY <1>0, <2>2 DEF CallType
    <3>2. \A c \in Call : call'[c] # "buffered"
      BY <2>2
    <3>3. \A c \in Call : call'[c] \in {"chained", "sent"} => \E i \in 1..Len(order) : order[i] = c
      BY <1>0, <2>2 DEF OrderInv
    <3> QED BY <1>0, <1>1, <2>2, <3>1, <3>2, <3>3 DEF OrderInv
  <2> QED BY <1>2, <2>1, <2>2
<1>9. Uds!DeliveredInOrder'
  <2>1. \A i \in 1..Len(order) : order[i] \in Call
    BY <1>0 DEF CallType
  <2> QED BY <1>0, <1>1, <1>2, <2>1 DEF Uds!DeliveredInOrder
<1> QED BY <1>3, <1>5, <1>6, <1>7, <1>8, <1>9

\* The first call of the chain settles.
LEMMA SettlesKeeps ==
    ASSUME UInv, NEW v \in {"ok", "err"}, Settles(v), UNCHANGED <<phase, served, order>>
    PROVE  /\ CallType' /\ OrderInv' /\ Uds!DeliveredInOrder'
           /\ \A c \in Call : call'[c] = "ok" => call[c] = "ok" \/ (c = chain[1] /\ v = "ok")
<1>0. CallType /\ OrderInv /\ Uds!DeliveredInOrder
  BY DEF UInv
<1>1. /\ chain \in Seq(Call) /\ chain # <<>> /\ pending # "none"
      /\ call' = [call EXCEPT ![Head(chain)] = v] /\ chain' = Tail(chain)
      /\ pending' = "none" /\ flushed' = FALSE
  BY <1>0 DEF Settles, Uds!Settled, CallType
<1>2. /\ Tail(chain) \in Seq(Call) /\ Len(Tail(chain)) = Len(chain) - 1 /\ Len(chain) \in Nat \ {0}
      /\ Head(chain) = chain[1] /\ chain[1] \in Call
      /\ \A i \in 1..Len(Tail(chain)) : Tail(chain)[i] = chain[i + 1] /\ i + 1 \in 1..Len(chain)
  BY <1>1, TailOf
<1>3. /\ call'[chain[1]] = v /\ \A c \in Call : c # chain[1] => call'[c] = call[c]
      /\ call' \in [Call -> {"none", "buffered", "chained", "sent", "ok", "err", "stranded"}]
  BY <1>0, <1>1, <1>2 DEF CallType
<1>4. CallType'
  BY <1>0, <1>1, <1>2, <1>3 DEF CallType
<1>5. call[chain[1]] = "sent" /\ \A a \in 1..Len(chain) : a # 1 => call[chain[a]] = "chained"
  BY <1>0, <1>1, <1>2 DEF OrderInv
<1>6. \A i \in 1..Len(order) : order[i] \in Call
  BY <1>0 DEF CallType
<1>7. \A a \in 1..Len(chain') : /\ chain'[a] = chain[a + 1] /\ a + 1 \in 1..Len(chain) /\ a + 1 # 1
                                /\ chain'[a] \in Call /\ chain'[a] # chain[1]
  BY <1>1, <1>2, <1>5
<1>8. OrderInv'
  <2>1. \A a \in 1..Len(chain') : call'[chain'[a]] = "chained"
    BY <1>3, <1>5, <1>7
  <2>2. ASSUME NEW c \in Call, call'[c] \in {"chained", "sent"}
        PROVE  \E a \in 1..Len(chain') : chain'[a] = c
    <3>1. c # chain[1] /\ call[c] \in {"chained", "sent"}
      BY <1>3, <2>2
    <3>2. PICK a \in 1..Len(chain) : chain[a] = c
      BY <1>0, <3>1 DEF OrderInv
    <3>3. a # 1 /\ a - 1 \in 1..Len(chain')
      BY <1>1, <1>2, <3>1, <3>2
    <3>4. chain'[a - 1] = c
      BY <1>7, <3>2, <3>3
    <3> QED BY <3>3, <3>4
  <2>3. \A c \in Call : call'[c] = "buffered" => call[c] = "buffered"
    BY <1>3
  <2>4. \A i \in 1..Len(order) : call'[order[i]] \notin {"none", "stranded"}
    BY <1>0, <1>3, <1>6 DEF OrderInv
  <2>5. ~served /\ phase # "down" => \A i \in 1..Len(order) : call'[order[i]] = "buffered"
    <3>1. ASSUME ~served, phase # "down" PROVE FALSE
      <4>1. PICK i \in 1..Len(order) : order[i] = chain[1]
        BY <1>0, <1>2 DEF OrderInv
      <4> QED BY <1>0, <1>5, <3>1, <4>1 DEF OrderInv
    <3> QED BY <3>1
  <2>6. \A a, b \in 1..Len(chain'), i, j \in 1..Len(order) :
          a < b /\ order[i] = chain'[a] /\ order[j] = chain'[b] => i < j
    BY <1>0, <1>7 DEF OrderInv
  <2>7. \A a \in 1..Len(chain') : \E i \in 1..Len(order) : order[i] = chain'[a]
    <3>1. \A a \in 1..Len(chain) : \E i \in 1..Len(order) : order[i] = chain[a]
      BY <1>0 DEF OrderInv
    <3> QED BY <1>7, <3>1
  <2>8. /\ order' = order /\ pending' = "none" /\ phase' = phase
        /\ \A i, j \in 1..Len(order) : order[i] = order[j] => i = j
        /\ \A c \in Call : call[c] = "buffered" =>
              ~served /\ phase # "down" /\ \E i \in 1..Len(order) : order[i] = c
    BY <1>0, <1>1 DEF OrderInv
  <2>9. \A c \in Call : call'[c] = "buffered" =>
              ~served' /\ phase' # "down" /\ \E i \in 1..Len(order) : order[i] = c
    BY <2>3, <2>8
  <2>10. ~served' /\ phase' # "down" => \A i \in 1..Len(order) : call'[order[i]] = "buffered"
    BY <2>5
  <2> QED BY ONLY <2>1, <2>2, <2>4, <2>6, <2>7, <2>8, <2>9, <2>10 DEF OrderInv
<1>9. Uds!DeliveredInOrder'
  BY <1>0, <1>3, <1>5, <1>6 DEF Uds!DeliveredInOrder
<1> QED BY <1>3, <1>4, <1>8, <1>9

\* The call that is sent is answered, flushed or timed out.
LEMMA AnswerKeeps ==
    ASSUME UInv, Uds!ReadCtrl \/ Uds!Flushed \/ Uds!AckTimeout
    PROVE  /\ CallType' /\ HandshakeInv' /\ OrderInv' /\ Uds!DeliveredInOrder'
           /\ pending' = "acked" => Shows(shown', NotifOf[chain'[1]])
           /\ \A c \in Call : call'[c] = "ok" => Shows(shown', NotifOf[c])
<1>1. /\ UNCHANGED <<phase, epoch, mcpBuffer, served, order, nextReqId, dnM, dnC, upM>>
      /\ UNCHANGED <<asked, initSent, inited, dedup, shown>>
      /\ phase \in {"authed", "session", "closing"}
      /\ \/ /\ UNCHANGED <<call, chain>> /\ flushed' \in BOOLEAN
            /\ pending' = pending \/ (pending = "open" /\ pending' \in {"acked", "gone"})
            /\ pending' = "acked" => Shows(shown, NotifOf[chain[1]])
         \/ Settles("err") \/ (Settles("ok") /\ Shows(shown, NotifOf[chain[1]]))
  BY AnswerEffect
<1>0. CallType /\ HandshakeInv /\ OrderInv /\ Uds!DeliveredInOrder /\ AckInv
  BY DEF UInv
<1>2. \A n : Shows(shown', n) <=> Shows(shown, n)
  BY <1>1 DEF Shows
<1>3. CASE /\ UNCHANGED <<call, chain>> /\ flushed' \in BOOLEAN
           /\ pending' = pending \/ (pending = "open" /\ pending' \in {"acked", "gone"})
           /\ pending' = "acked" => Shows(shown, NotifOf[chain[1]])
  <2>1. CallType'
    BY <1>0, <1>1, <1>3 DEF CallType
  <2>2. HandshakeInv'
    BY <1>0, <1>1, <1>3 DEF HandshakeInv
  <2>3. OrderInv'
    BY <1>0, <1>1, <1>3 DEF OrderInv
  <2>4. Uds!DeliveredInOrder'
    BY <1>0, <1>1, <1>3 DEF Uds!DeliveredInOrder
  <2>5. pending' = "acked" => Shows(shown', NotifOf[chain'[1]])
    <3>1. chain' = chain /\ shown' = shown
      BY <1>1, <1>3
    <3> QED BY <1>3, <3>1 DEF Shows
  <2>6. \A c \in Call : call'[c] = "ok" => Shows(shown, NotifOf[c])
    BY <1>0, <1>3 DEF AckInv
  <2>7. \A c \in Call : call'[c] = "ok" => Shows(shown', NotifOf[c])
    BY <1>2, <2>6
  <2> QED BY <2>1, <2>2, <2>3, <2>4, <2>5, <2>7
<1>4. ASSUME NEW v \in {"ok", "err"}, Settles(v), v = "ok" => Shows(shown, NotifOf[chain[1]])
      PROVE  /\ CallType' /\ HandshakeInv' /\ OrderInv' /\ Uds!DeliveredInOrder'
             /\ pending' = "acked" => Shows(shown', NotifOf[chain'[1]])
             /\ \A c \in Call : call'[c] = "ok" => Shows(shown', NotifOf[c])
  <2>1. /\ CallType' /\ OrderInv' /\ Uds!DeliveredInOrder'
        /\ \A c \in Call : call'[c] = "ok" => call[c] = "ok" \/ (c = chain[1] /\ v = "ok")
    BY <1>1, <1>4, SettlesKeeps
  <2>2. HandshakeInv'
    BY <1>0, <1>1, <1>4 DEF HandshakeInv, Settles, Uds!Settled
  <2>3. pending' = "none"
    BY <1>4 DEF Settles, Uds!Settled
  <2> QED BY <1>0, <1>2, <1>4, <2>1, <2>2, <2>3 DEF AckInv
<1> QED BY <1>1, <1>3, <1>4

\* Nothing starts when a control frame is read.
LEMMA CtrlQuiet == ASSUME UInv, Uds!ReadCtrl PROVE QuietInv'
<1>1. QuietInv /\ phase \in {"authed", "session"} /\ phase' = phase
  BY CtrlEffect DEF UInv, Uds!ReadCtrl
<1> QED BY <1>1 DEF QuietInv

\* A control frame of the shim is read.
LEMMA CtrlKeeps ==
    ASSUME UInv, Uds!ReadCtrl
    PROVE  SignType' /\ FrameType' /\ AckInv' /\ SignInv' /\ QuietInv' /\ Uds!SignatureIsOurs'
<1>0. SignType /\ FrameType /\ AckInv /\ SignInv /\ QuietInv /\ Uds!SignatureIsOurs
  BY DEF UInv
<1>1. /\ upC' = Tail(upC) /\ upC # <<>> /\ phase \in {"authed", "session"}
      /\ upC[1] \in Ack \cup Sig
      /\ sign' = sign \/ (upC[1].t = "sig" /\ upC[1] \in Sig /\ Uds!feedCtrlSig(upC[1]))
  BY CtrlEffect
<1>2. UNCHANGED <<phase, epoch, mcpBuffer, served, order, nextReqId, dnM, dnC, upM>>
      /\ UNCHANGED <<asked, initSent, inited, dedup, shown>>
  BY AnswerEffect
<1>3. /\ pending' = "acked" => Shows(shown', NotifOf[chain'[1]])
      /\ \A c \in Call : call'[c] = "ok" => Shows(shown', NotifOf[c])
  BY AnswerKeeps
<1>4. /\ upC' \in Seq(Ack \cup Sig) /\ 1 \in 1..Len(upC)
      /\ \A i \in 1..Len(upC') : upC'[i] = upC[i + 1] /\ i + 1 \in 1..Len(upC)
  BY <1>0, <1>1, TailOf DEF FrameType
<1>5. FrameType'
  BY <1>0, <1>2, <1>4 DEF FrameType
<1>6. AckInv'
  <2>1. \A n : Shows(shown', n) <=> Shows(shown, n)
    BY <1>2 DEF Shows
  <2>2. \A i \in 1..Len(upC) : upC[i].t = "delivered" => Shows(shown, upC[i].id)
    BY <1>0 DEF AckInv
  <2>3. \A i \in 1..Len(upC') : upC'[i].t = "delivered" => Shows(shown, upC'[i].id)
    BY <1>4, <2>2
  <2>4. shown' = shown
    BY <1>2
  <2> QED BY <1>3, <2>3, <2>4 DEF AckInv, Shows
<1>7. \/ sign' = sign
      \/ /\ upC[1].t = "sig" /\ upC[1] \in Sig
         /\ sign' = [g \in Uds!Sign |-> IF sign[g].st = "waiting" /\ sign[g].id = upC[1].id
                               THEN [sign[g] EXCEPT !.st = "ok", !.sig = upC[1].sig] ELSE sign[g]]
  BY <1>1 DEF Uds!feedCtrlSig
<1>8. CASE sign' = sign
  <2>1. SignType' /\ Uds!SignatureIsOurs'
    BY <1>0, <1>2, <1>8 DEF SignType, Uds!SignatureIsOurs
  <2>2. SignInv'
    BY <1>0, <1>2, <1>4, <1>8 DEF SignInv
  <2> QED BY <1>0, <1>1, <1>2, <1>5, <1>6, <2>1, <2>2, AnswerKeeps, CtrlQuiet
<1>9. CASE /\ upC[1].t = "sig" /\ upC[1] \in Sig
           /\ sign' = [g \in Uds!Sign |-> IF sign[g].st = "waiting" /\ sign[g].id = upC[1].id
                               THEN [sign[g] EXCEPT !.st = "ok", !.sig = upC[1].sig] ELSE sign[g]]
  <2>0. upC[1].sig \in Nat
    <3>1. upC[1].sig \in Uds!Sign
      BY <1>9 DEF Sig
    <3> QED BY <3>1 DEF Uds!Sign
  <2>1. \A g \in Uds!Sign : /\ sign[g] \in [st : {"none", "waiting", "ok", "err"}, id : Nat, sig : Nat]
                        /\ sign'[g] = IF sign[g].st = "waiting" /\ sign[g].id = upC[1].id
                                      THEN [sign[g] EXCEPT !.st = "ok", !.sig = upC[1].sig]
                                      ELSE sign[g]
    BY <1>0, <1>9 DEF SignType
  <2>2. \A g \in Uds!Sign : \/ sign'[g] = sign[g]
                        \/ /\ sign[g].st = "waiting" /\ sign[g].id = upC[1].id
                           /\ sign'[g].st = "ok" /\ sign'[g].sig = upC[1].sig
                           /\ sign'[g] \in [st : {"none", "waiting", "ok", "err"}, id : Nat, sig : Nat]
    BY <2>0, <2>1
  <2>3. SignType'
    <3>1. sign' \in [Uds!Sign -> [st : {"none", "waiting", "ok", "err"}, id : Nat, sig : Nat]]
      BY <1>9, <2>1, <2>2
    <3> QED BY <1>0, <1>2, <3>1 DEF SignType
  <2>4. Uds!SignatureIsOurs'
    BY ZenonT(60), <1>0, <1>4, <1>9, <2>2 DEF Uds!SignatureIsOurs, SignInv
  <2>5. \A g \in Uds!Sign : sign'[g].st = "waiting" => sign'[g] = sign[g]
    BY <2>2
  <2>6. SignInv'
    <3>1. \A g \in Uds!Sign : sign'[g].st = "waiting" => sign'[g].id < nextReqId' /\ phase' # "down"
      BY <1>0, <1>2, <2>5 DEF SignInv
    <3>2. \A i \in 1..Len(dnC') : dnC'[i][1] < nextReqId'
          /\ \A g \in Uds!Sign : sign'[g].st = "waiting" /\ sign'[g].id = dnC'[i][1] => g = dnC'[i][2]
      BY <1>0, <1>2, <2>5 DEF SignInv
    <3>3. \A i \in 1..Len(upC) : upC[i].t = "sig" => upC[i].id < nextReqId
          /\ \A g \in Uds!Sign : sign[g].st = "waiting" /\ sign[g].id = upC[i].id => g = upC[i].sig
      BY <1>0 DEF SignInv
    <3>4. \A i \in 1..Len(upC') : upC'[i].t = "sig" => upC'[i].id < nextReqId'
          /\ \A g \in Uds!Sign : sign'[g].st = "waiting" /\ sign'[g].id = upC'[i].id => g = upC'[i].sig
      BY ONLY <1>2, <1>4, <2>5, <3>3
    <3> QED BY <3>1, <3>2, <3>4 DEF SignInv
  <2> QED BY <1>0, <1>5, <1>6, <2>3, <2>4, <2>6, CtrlQuiet
<1> QED BY <1>7, <1>8, <1>9

\* The shim takes a notification off its queue, connected or not.
LEMMA TakeKeeps ==
    ASSUME Uds!UdsDeliveryAssumption, UInv, Uds!ShimNotif \/ Uds!ShimDrains
    PROVE  /\ ShownType' /\ WindowInv' /\ Uds!ShownOnce' /\ FrameType' /\ QuietInv' /\ HandshakeInv'
           /\ AckInv' /\ SignInv'
<1>0. /\ ShownType /\ WindowInv /\ Uds!ShownOnce /\ FrameType /\ QuietInv
      /\ HandshakeInv /\ AckInv /\ SignInv
  BY DEF UInv
<1>1. /\ UNCHANGED <<phase, epoch, Uds!server, Uds!signer, dnC, upM, asked, initSent, inited>>
      /\ dnM # <<>> /\ dnM' = Tail(dnM) /\ phase # "starting"
      /\ \/ UNCHANGED <<shown, dedup, upC>>
         \/ /\ Head(dnM) # "result" /\ Uds!Accept(Head(dnM))
            /\ \/ upC' = upC
               \/ /\ upC' = Append(upC, [t |-> "delivered", id |-> Head(dnM), epoch |-> epoch])
                  /\ phase \in {"authed", "session"}
  BY DEF Uds!ShimNotif, Uds!ShimDrains, Uds!Connected
<1>2. /\ dnM' \in Seq(Notif \cup {"result"}) /\ Head(dnM) = dnM[1] /\ 1 \in 1..Len(dnM)
      /\ dnM[1] \in Notif \cup {"result"}
      /\ \A i \in 1..Len(dnM') : dnM'[i] = dnM[i + 1] /\ i + 1 \in 1..Len(dnM)
  BY <1>0, <1>1, TailOf DEF FrameType
<1>3. \A i \in 1..Len(dnM') : dnM'[i] # "result" => inited
  BY <1>0, <1>2 DEF HandshakeInv
<1>4. CASE UNCHANGED <<shown, dedup, upC>>
  <2>1. ShownType' /\ WindowInv' /\ Uds!ShownOnce'
    BY <1>0, <1>4 DEF ShownType, WindowInv, Uds!ShownOnce
  <2>2. FrameType'
    BY <1>0, <1>1, <1>2, <1>4 DEF FrameType, Uds!server
  <2>3. QuietInv'
    BY <1>0, <1>1, <1>4 DEF QuietInv, Uds!server, Uds!signer
  <2>4. HandshakeInv'
    BY <1>0, <1>1, <1>3, <1>4 DEF HandshakeInv, Uds!server
  <2>5. AckInv'
    BY <1>0, <1>1, <1>4 DEF AckInv, Shows, Uds!server
  <2>6. SignInv'
    BY <1>0, <1>1, <1>4 DEF SignInv, Uds!signer
  <2> QED BY <2>1, <2>2, <2>3, <2>4, <2>5, <2>6
<1>5. CASE /\ Head(dnM) # "result" /\ Uds!Accept(Head(dnM))
           /\ \/ upC' = upC
              \/ /\ upC' = Append(upC, [t |-> "delivered", id |-> Head(dnM), epoch |-> epoch])
                 /\ phase \in {"authed", "session"}
  <2>0. Head(dnM) \in Notif /\ inited
    BY <1>0, <1>2, <1>5 DEF HandshakeInv
  <2>1. /\ ShownType' /\ WindowInv' /\ Uds!ShownOnce'
        /\ Shows(shown', Head(dnM)) /\ \A m : Shows(shown, m) => Shows(shown', m)
    BY <1>5, <2>0, AcceptEffect
  <2>2. /\ upC' \in Seq(Ack \cup Sig)
        /\ \A i \in 1..Len(upC') :
             \/ upC'[i] = [t |-> "delivered", id |-> Head(dnM), epoch |-> epoch]
             \/ i \in 1..Len(upC) /\ upC'[i] = upC[i]
    <3>1. CASE upC' = upC
      BY <1>0, <3>1 DEF FrameType
    <3>2. CASE upC' = Append(upC, [t |-> "delivered", id |-> Head(dnM), epoch |-> epoch])
      <4>1. [t |-> "delivered", id |-> Head(dnM), epoch |-> epoch] \in Ack \cup Sig
        BY <1>0, <2>0 DEF FrameType, Ack
      <4> QED BY <1>0, <3>2, <4>1, AppendOf DEF FrameType
    <3> QED BY <1>5, <3>1, <3>2
  <2>3. FrameType'
    BY <1>0, <1>1, <1>2, <2>2 DEF FrameType, Uds!server
  <2>4. QuietInv'
    BY <1>0, <1>1, <1>5 DEF QuietInv, Uds!server, Uds!signer
  <2>5. HandshakeInv'
    BY <1>0, <1>1, <1>3, <2>0 DEF HandshakeInv, Uds!server
  <2>6. AckInv'
    <3>1. \A i \in 1..Len(upC') : upC'[i].t = "delivered" => Shows(shown', upC'[i].id)
      <4>1. ASSUME NEW i \in 1..Len(upC'), upC'[i].t = "delivered"
            PROVE  upC'[i].id = Head(dnM) \/ Shows(shown, upC'[i].id)
        BY <1>0, <2>2, <4>1 DEF AckInv
      <4> QED BY <2>1, <4>1
    <3>2. /\ pending = "acked" => Shows(shown', NotifOf[chain[1]])
          /\ \A c \in Call : call[c] = "ok" => Shows(shown', NotifOf[c])
      BY <1>0, <2>1 DEF AckInv
    <3> QED BY <1>1, <3>1, <3>2 DEF AckInv, Uds!server
  <2>7. SignInv'
    <3>1. \A i \in 1..Len(upC') : upC'[i].t = "sig" => i \in 1..Len(upC) /\ upC'[i] = upC[i]
      BY <2>2
    <3> QED BY <1>0, <1>1, <3>1 DEF SignInv, Uds!signer
  <2> QED BY <2>1, <2>3, <2>4, <2>5, <2>6, <2>7
<1> QED BY <1>1, <1>4, <1>5

\* The inbox calls inject().
LEMMA InjectKeeps ==
    ASSUME UInv, NEW c \in Call, Uds!Inject(c)
    PROVE  CallType' /\ HandshakeInv' /\ AckInv' /\ OrderInv' /\ Uds!DeliveredInOrder' /\ QuietInv'
<1>0. /\ CallType /\ HandshakeInv /\ AckInv /\ OrderInv /\ Uds!DeliveredInOrder /\ QuietInv
      /\ call[c] = "none"
  BY DEF UInv, Uds!Inject
<1>1. UNCHANGED <<phase, epoch, mcpBuffer, served, flushed, pending, Uds!signer, Uds!frames, Uds!shim>>
  BY DEF Uds!Inject
<1>2. \A i \in 1..Len(order) : order[i] \in Call /\ order[i] # c
  BY <1>0 DEF CallType, OrderInv
<1>3. \A a \in 1..Len(chain) : chain[a] \in Call /\ chain[a] # c
  BY <1>0, <1>2 DEF CallType, OrderInv
<1>4. CASE call' = [call EXCEPT ![c] = "err"] /\ UNCHANGED <<chain, order>> /\ phase = "starting"
  <2>1. /\ call' \in [Call -> {"none", "buffered", "chained", "sent", "ok", "err", "stranded"}]
        /\ call'[c] = "err" /\ \A e \in Call : e # c => call'[e] = call[e]
    BY <1>0, <1>4 DEF CallType
  <2>2. CallType'
    BY <1>0, <1>1, <1>4, <2>1 DEF CallType
  <2>3. HandshakeInv' /\ QuietInv'
    BY <1>0, <1>1, <1>4 DEF HandshakeInv, QuietInv, Uds!frames, Uds!shim, Uds!signer
  <2>4. AckInv'
    BY <1>0, <1>1, <1>4, <2>1 DEF AckInv, Shows, Uds!frames, Uds!shim
  <2>5. order = <<>> /\ chain = <<>>
    BY <1>0, <1>4 DEF QuietInv
  <2>6. OrderInv'
    BY <1>0, <1>1, <1>4, <2>1, <2>5 DEF OrderInv
  <2>7. Uds!DeliveredInOrder'
    BY <1>4, <2>5 DEF Uds!DeliveredInOrder
  <2> QED BY <2>2, <2>3, <2>4, <2>6, <2>7
<1>5. CASE /\ phase # "starting" /\ phase # "down" /\ order' = Append(order, c)
           /\ call' = [call EXCEPT ![c] = Uds!NotifyState] /\ chain' = Uds!Enter(c)
  <2>1. /\ call' \in [Call -> {"none", "buffered", "chained", "sent", "ok", "err", "stranded"}]
        /\ call'[c] = IF served THEN "chained" ELSE "buffered"
        /\ \A e \in Call : e # c => call'[e] = call[e]
    BY <1>0, <1>5 DEF CallType, Uds!NotifyState
  <2>2. /\ order' \in Seq(Call) /\ Len(order') = Len(order) + 1 /\ Len(order) \in Nat
        /\ order'[Len(order) + 1] = c /\ \A i \in 1..Len(order) : order'[i] = order[i]
    BY <1>0, <1>5, AppendOf DEF CallType
  <2>3. /\ served => chain' = Append(chain, c)
        /\ ~served => chain' = chain /\ chain = <<>>
    BY <1>0, <1>5 DEF Uds!Enter, Uds!NotifyState, HandshakeInv
  <2>4. /\ chain' \in Seq(Call) /\ Len(chain) \in Nat
        /\ served => /\ Len(chain') = Len(chain) + 1 /\ chain'[Len(chain) + 1] = c
                     /\ \A i \in 1..Len(chain) : chain'[i] = chain[i]
    <3>1. chain \in Seq(Call)
      BY <1>0 DEF CallType
    <3>2. CASE served
      BY <2>3, <3>1, <3>2, AppendOf
    <3>3. CASE ~served
      BY <2>3, <3>1, <3>3
    <3> QED BY <3>2, <3>3
  <2>5. CallType'
    BY <1>0, <1>1, <2>1, <2>2, <2>4 DEF CallType
  <2>6. HandshakeInv' /\ QuietInv'
    <3>1. chain' # <<>> => served'
      BY <1>0, <1>1, <2>3
    <3> QED BY <1>0, <1>1, <1>5, <3>1 DEF HandshakeInv, QuietInv, Uds!frames, Uds!shim
  <2>7. AckInv'
    <3>1. pending = "acked" => chain'[1] = chain[1]
      BY <1>0, <1>5, <2>3, <2>4 DEF OrderInv, CallType
    <3>2. \A e \in Call : call'[e] = "ok" => call[e] = "ok"
      BY <2>1
    <3> QED BY <1>0, <1>1, <3>1, <3>2 DEF AckInv, Shows, Uds!frames, Uds!shim
  <2>8. Uds!DeliveredInOrder'
    <3>1. ASSUME NEW i \in 1..Len(order'), NEW j \in 1..Len(order'), i < j,
                 call'[order'[j]] \in {"sent", "ok"}
          PROVE  call'[order'[i]] \in {"ok", "err"}
      <4>1. j \in 1..Len(order) /\ i \in 1..Len(order)
        BY <2>1, <2>2, <3>1
      <4> QED BY <1>0, <1>2, <2>1, <2>2, <3>1, <4>1 DEF Uds!DeliveredInOrder
    <3> QED BY <3>1 DEF Uds!DeliveredInOrder
  <2>9. OrderInv'
    <3>1. \A i, j \in 1..Len(order') : order'[i] = order'[j] => i = j
      <4>1. \A i, j \in 1..Len(order) : order[i] = order[j] => i = j
        BY <1>0 DEF OrderInv
      <4> QED BY ONLY <1>2, <2>2, <4>1
    <3>2. \A i \in 1..Len(order') : call'[order'[i]] \notin {"none", "stranded"}
      BY <1>0, <1>2, <2>1, <2>2 DEF OrderInv
    <3>3. \A a \in 1..Len(chain') : \E i \in 1..Len(order') : order'[i] = chain'[a]
      <4>1. ASSUME NEW a \in 1..Len(chain) PROVE \E i \in 1..Len(order') : order'[i] = chain[a]
        <5>1. PICK i \in 1..Len(order) : order[i] = chain[a]
          BY <1>0 DEF OrderInv
        <5> QED BY <2>2, <5>1
      <4>2. \E i \in 1..Len(order') : order'[i] = c
        BY <2>2
      <4> QED BY <2>3, <2>4, <4>1, <4>2
    <3>4. ASSUME NEW a \in 1..Len(chain'), NEW b \in 1..Len(chain'), NEW i \in 1..Len(order'),
                 NEW j \in 1..Len(order'), a < b, order'[i] = chain'[a], order'[j] = chain'[b]
          PROVE  i < j
      <4>0. served
        BY <2>3, <3>4
      <4>1. a \in 1..Len(chain) /\ chain'[a] = chain[a] /\ i \in 1..Len(order)
        BY <1>3, <2>2, <2>4, <3>4, <4>0
      <4>2. CASE b \in 1..Len(chain)
        <5>1. chain'[b] = chain[b] /\ j \in 1..Len(order)
          BY <1>3, <2>2, <2>4, <3>4, <4>0, <4>2
        <5> QED BY <1>0, <2>2, <3>4, <4>1, <4>2, <5>1 DEF OrderInv
      <4>3. CASE b = Len(chain) + 1
        BY <1>2, <2>2, <2>4, <3>4, <4>0, <4>1, <4>3
      <4> QED BY <2>4, <4>0, <4>2, <4>3
    <3>5. \A a \in 1..Len(chain') :
             call'[chain'[a]] = IF a = 1 /\ pending' # "none" THEN "sent" ELSE "chained"
      <4>1. \A a \in 1..Len(chain) :
               call'[chain[a]] = IF a = 1 /\ pending # "none" THEN "sent" ELSE "chained"
        <5>1. \A a \in 1..Len(chain) :
                 call[chain[a]] = IF a = 1 /\ pending # "none" THEN "sent" ELSE "chained"
          BY <1>0 DEF OrderInv
        <5> QED BY <1>3, <2>1, <5>1
      <4>2. served /\ Len(chain) + 1 = 1 => pending = "none"
        BY <1>0, <2>4 DEF OrderInv, CallType
      <4> QED BY <1>1, <2>1, <2>3, <2>4, <4>1, <4>2
    <3>6. ASSUME NEW e \in Call, call'[e] \in {"chained", "sent"}
          PROVE  \E a \in 1..Len(chain') : chain'[a] = e
      <4>0. served
        BY <1>0, <2>1, <2>3, <3>6 DEF OrderInv
      <4>1. CASE e = c
        BY <2>4, <4>0, <4>1
      <4>2. CASE e # c
        <5>1. PICK a \in 1..Len(chain) : chain[a] = e
          BY <1>0, <2>1, <3>6, <4>2 DEF OrderInv
        <5> QED BY <2>4, <4>0, <5>1
      <4> QED BY <4>1, <4>2
    <3>7. ASSUME NEW e \in Call, call'[e] = "buffered"
          PROVE  ~served' /\ phase' # "down" /\ \E i \in 1..Len(order') : order'[i] = e
      <4>1. CASE e = c
        BY <1>1, <1>5, <2>1, <2>2, <3>7, <4>1
      <4>2. CASE e # c
        <5>1. ~served /\ phase # "down" /\ \E i \in 1..Len(order) : order[i] = e
          BY <1>0, <2>1, <3>7, <4>2 DEF OrderInv
        <5>2. PICK i \in 1..Len(order) : order[i] = e
          BY <5>1
        <5> QED BY <1>1, <2>2, <5>1, <5>2
      <4> QED BY <4>1, <4>2
    <3>8. ~served' /\ phase' # "down" => \A i \in 1..Len(order') : call'[order'[i]] = "buffered"
      BY <1>0, <1>1, <1>2, <2>1, <2>2 DEF OrderInv
    <3>9. chain' = <<>> => pending' = "none"
      BY <1>0, <1>1, <2>3, <2>4 DEF OrderInv, CallType
    <3> QED BY ONLY <3>1, <3>2, <3>3, <3>4, <3>5, <3>6, <3>7, <3>8, <3>9 DEF OrderInv
  <2> QED BY <2>5, <2>6, <2>7, <2>8, <2>9
<1> QED BY <1>4, <1>5 DEF Uds!Inject

\* The first call of the chain is sent.
LEMMA StartKeeps ==
    ASSUME UInv, Uds!StartInject
    PROVE  FrameType' /\ HandshakeInv' /\ OrderInv' /\ Uds!DeliveredInOrder'
<1>0. CallType /\ FrameType /\ HandshakeInv /\ OrderInv /\ Uds!DeliveredInOrder
  BY DEF UInv
<1>1. /\ chain # <<>> /\ pending = "none" /\ pending' = "open"
      /\ call' = [call EXCEPT ![Head(chain)] = "sent"]
      /\ dnM' = IF phase = "session" THEN Append(dnM, NotifOf[Head(chain)]) ELSE dnM
      /\ UNCHANGED <<phase, epoch, mcpBuffer, served, chain, order, Uds!signer, dnC, upM, upC, Uds!shim>>
  BY DEF Uds!StartInject, Uds!Busy
<1>2. /\ Head(chain) = chain[1] /\ chain[1] \in Call /\ 1 \in 1..Len(chain) /\ served /\ inited
  BY <1>0, <1>1, TailOf DEF CallType, HandshakeInv
<1>3. /\ call'[chain[1]] = "sent" /\ \A c \in Call : c # chain[1] => call'[c] = call[c]
  BY <1>0, <1>1, <1>2 DEF CallType
<1>4. \A i \in 1..Len(order) : order[i] \in Call
  BY <1>0 DEF CallType
<1>5. \A a \in 1..Len(chain) : chain[a] \in Call /\ call[chain[a]] = "chained"
  BY <1>0, <1>1 DEF CallType, OrderInv
<1>6. \A a \in 1..Len(chain) : a # 1 => chain[a] # chain[1]
  <2>1. ASSUME NEW a \in 1..Len(chain), a # 1, chain[a] = chain[1] PROVE FALSE
    <3>1. PICK i \in 1..Len(order) : order[i] = chain[1]
      BY <1>0, <1>2 DEF OrderInv
    <3>2. 1 < a
      BY <2>1
    <3>3. i < i
      BY ONLY <1>0, <1>2, <2>1, <3>1, <3>2, a \in 1..Len(chain) DEF OrderInv
    <3> QED BY <3>3
  <2> QED BY <2>1
<1>7. FrameType'
  <2>1. NotifOf[Head(chain)] \in Notif \cup {"result"}
    BY <1>2 DEF Notif
  <2>2. dnM' \in Seq(Notif \cup {"result"})
    BY <1>0, <1>1, <2>1, AppendOf DEF FrameType
  <2> QED BY <1>0, <1>1, <2>2 DEF FrameType
<1>8. HandshakeInv'
  <2>1. \A i \in 1..Len(dnM') : dnM'[i] # "result" => inited
    BY <1>2
  <2> QED BY <1>0, <1>1, <2>1 DEF HandshakeInv, Uds!shim
<1>9. OrderInv'
  <2>1. \A a \in 1..Len(chain) : call'[chain[a]] = IF a = 1 THEN "sent" ELSE "chained"
    BY <1>3, <1>5, <1>6
  <2>2. \A c \in Call : /\ call'[c] \in {"chained", "sent"} => call[c] \in {"chained", "sent"}
                        /\ call'[c] = "buffered" => call[c] = "buffered"
                        /\ call'[c] \in {"none", "stranded"} => call[c] \in {"none", "stranded"}
    BY <1>2, <1>3, <1>5
  <2> QED BY <1>0, <1>1, <1>2, <1>4, <2>1, <2>2 DEF OrderInv
<1>10. Uds!DeliveredInOrder'
  <2>1. ASSUME NEW i \in 1..Len(order), NEW j \in 1..Len(order), i < j,
               call'[order[j]] \in {"sent", "ok"}
        PROVE  call'[order[i]] \in {"ok", "err"}
    <3>1. CASE order[j] # chain[1]
      <4>1. call[order[i]] \in {"ok", "err"}
        BY <1>0, <1>3, <1>4, <2>1, <3>1 DEF Uds!DeliveredInOrder
      <4>2. order[i] # chain[1]
        BY <1>2, <1>5, <4>1
      <4> QED BY <1>3, <1>4, <4>1, <4>2
    <3>2. CASE order[j] = chain[1]
      <4>1. order[i] # chain[1]
        BY <1>0, <2>1, <3>2 DEF OrderInv
      <4>2. call[order[i]] \notin {"none", "stranded", "buffered"}
        BY <1>0, <1>2, <1>4 DEF OrderInv
      <4>3. ASSUME call[order[i]] \in {"chained", "sent"} PROVE FALSE
        <5>1. PICK a \in 1..Len(chain) : chain[a] = order[i]
          BY <1>0, <1>4, <4>3 DEF OrderInv
        <5>2. 1 < a
          BY <4>1, <5>1
        <5>3. j < i
          BY ONLY <1>0, <1>2, <3>2, <5>1, <5>2, i \in 1..Len(order), j \in 1..Len(order) DEF
             OrderInv
        <5> QED BY <2>1, <5>3
      <4>4. call[order[i]] \in {"none", "buffered", "chained", "sent", "ok", "err", "stranded"}
        BY <1>0, <1>4 DEF CallType
      <4> QED BY <1>3, <1>4, <4>1, <4>2, <4>3, <4>4
    <3> QED BY <3>1, <3>2
  <2> QED BY <1>1, <2>1 DEF Uds!DeliveredInOrder
<1> QED BY <1>7, <1>8, <1>9, <1>10

\* A request to sign is sent.
LEMMA SignKeeps ==
    ASSUME UInv, NEW g \in Uds!Sign, Uds!SignRequest(g)
    PROVE  SignType' /\ FrameType' /\ SignInv' /\ Uds!SignatureIsOurs'
<1>0. SignType /\ FrameType /\ SignInv /\ Uds!SignatureIsOurs /\ sign[g].st = "none"
  BY DEF UInv, Uds!SignRequest
<1>1. UNCHANGED <<phase, epoch, Uds!server, dnM, upM, upC, Uds!shim>>
  BY DEF Uds!SignRequest
<1>2. \A h \in Uds!Sign : sign[h] \in [st : {"none", "waiting", "ok", "err"}, id : Nat, sig : Nat]
  BY <1>0 DEF SignType
<1>3. CASE /\ sign' = [sign EXCEPT ![g].st = "err"] /\ UNCHANGED <<nextReqId, dnC>>
  <2>1. /\ \A h \in Uds!Sign : sign'[h].st = "waiting" => sign'[h] = sign[h]
        /\ \A h \in Uds!Sign : sign'[h].st = "ok" => sign'[h] = sign[h]
    BY <1>0, <1>2, <1>3 DEF SignType
  <2>2. SignType'
    BY <1>0, <1>2, <1>3 DEF SignType
  <2>3. FrameType'
    BY <1>0, <1>1, <1>3 DEF FrameType, Uds!server
  <2>4. Uds!SignatureIsOurs'
    BY <1>0, <2>1 DEF Uds!SignatureIsOurs
  <2>5. SignInv'
    <3>1. \A h \in Uds!Sign : sign'[h].st = "waiting" => sign'[h].id < nextReqId' /\ phase' # "down"
      BY <1>0, <1>1, <1>3, <2>1 DEF SignInv
    <3>2. \A i \in 1..Len(dnC') : dnC'[i][1] < nextReqId'
          /\ \A h \in Uds!Sign : sign'[h].st = "waiting" /\ sign'[h].id = dnC'[i][1] => h = dnC'[i][2]
      BY <1>0, <1>3, <2>1 DEF SignInv
    <3>3. \A i \in 1..Len(upC') : upC'[i].t = "sig" => upC'[i].id < nextReqId'
          /\ \A h \in Uds!Sign : sign'[h].st = "waiting" /\ sign'[h].id = upC'[i].id => h = upC'[i].sig
      BY <1>0, <1>1, <1>3, <2>1 DEF SignInv
    <3> QED BY <3>1, <3>2, <3>3 DEF SignInv
  <2> QED BY <2>2, <2>3, <2>4, <2>5
<1>4. CASE /\ sign' = [sign EXCEPT ![g] = [@ EXCEPT !.st = "waiting", !.id = nextReqId]]
           /\ nextReqId' = nextReqId + 1 /\ phase # "down"
           /\ dnC' = dnC \/ dnC' = Append(dnC, <<nextReqId, g>>)
  <2>0. nextReqId \in Nat /\ nextReqId' \in Nat /\ <<nextReqId, g>> \in Nat \X Uds!Sign
    BY <1>0, <1>4 DEF SignType
  <2>1. /\ sign' \in [Uds!Sign -> [st : {"none", "waiting", "ok", "err"}, id : Nat, sig : Nat]]
        /\ sign'[g].st = "waiting" /\ sign'[g].id = nextReqId
        /\ \A h \in Uds!Sign : h # g => sign'[h] = sign[h]
    <3>1. ASSUME NEW r \in [st : {"none", "waiting", "ok", "err"}, id : Nat, sig : Nat],
                 NEW n \in Nat
          PROVE  LET q == [r EXCEPT !.st = "waiting", !.id = n]
                 IN /\ q \in [st : {"none", "waiting", "ok", "err"}, id : Nat, sig : Nat]
                    /\ q.st = "waiting" /\ q.id = n
      OBVIOUS
    <3> DEFINE q == [sign[g] EXCEPT !.st = "waiting", !.id = nextReqId]
    <3>2. sign' = [sign EXCEPT ![g] = q]
      BY <1>0, <1>4 DEF SignType
    <3>3. /\ q \in [st : {"none", "waiting", "ok", "err"}, id : Nat, sig : Nat]
          /\ q.st = "waiting" /\ q.id = nextReqId
      BY <1>2, <2>0, <3>1
    <3> HIDE DEF q
    <3> QED BY <1>0, <3>2, <3>3 DEF SignType
  <2>2. SignType'
    BY <2>0, <2>1 DEF SignType
  <2>3. /\ dnC' \in Seq(Nat \X Uds!Sign)
        /\ \A i \in 1..Len(dnC') : \/ i \in 1..Len(dnC) /\ dnC'[i] = dnC[i]
                                   \/ dnC'[i] = <<nextReqId, g>>
    <3>1. dnC \in Seq(Nat \X Uds!Sign)
      BY <1>0 DEF FrameType
    <3>2. CASE dnC' = dnC
      BY <3>1, <3>2
    <3>3. CASE dnC' = Append(dnC, <<nextReqId, g>>)
      BY <2>0, <3>1, <3>3, AppendOf
    <3> QED BY <1>4, <3>2, <3>3
  <2>4. FrameType'
    BY <1>0, <1>1, <2>3 DEF FrameType, Uds!server
  <2>5. Uds!SignatureIsOurs'
    BY <1>0, <2>1 DEF Uds!SignatureIsOurs
  <2>6. SignInv'
    <3>1. \A h \in Uds!Sign : sign'[h].st = "waiting" => sign'[h].id < nextReqId' /\ phase' # "down"
      BY <1>0, <1>1, <1>2, <1>4, <2>0, <2>1 DEF SignInv
    <3>2. ASSUME NEW i \in 1..Len(dnC)
          PROVE  /\ dnC[i][1] < nextReqId /\ dnC[i][1] \in Nat
                 /\ \A h \in Uds!Sign : sign[h].st = "waiting" /\ sign[h].id = dnC[i][1] => h = dnC[i][2]
      <4>1. dnC[i] \in Nat \X Uds!Sign
        BY <1>0 DEF FrameType
      <4>2. dnC[i][1] \in Nat
        BY <4>1
      <4> QED BY <1>0, <4>2 DEF SignInv
    <3>3. ASSUME NEW i \in 1..Len(dnC')
          PROVE  dnC'[i][1] < nextReqId' /\ \A h \in Uds!Sign :
                   sign'[h].st = "waiting" /\ sign'[h].id = dnC'[i][1] => h = dnC'[i][2]
      <4>1. CASE i \in 1..Len(dnC) /\ dnC'[i] = dnC[i]
        BY <1>4, <2>0, <2>1, <3>2, <4>1
      <4>2. CASE dnC'[i] = <<nextReqId, g>>
        <5>1. dnC'[i][1] = nextReqId /\ dnC'[i][2] = g
          BY <4>2
        <5>2. ASSUME NEW h \in Uds!Sign, sign'[h].st = "waiting", sign'[h].id = nextReqId PROVE h = g
          <6>1. h # g => sign[h].id < nextReqId /\ sign[h].id = nextReqId /\ sign[h].id \in Nat
            BY <1>0, <1>2, <2>1, <5>2 DEF SignInv
          <6> QED BY <2>0, <6>1
        <5> QED BY <1>4, <2>0, <5>1, <5>2
      <4> QED BY <2>3, <4>1, <4>2
    <3>4. ASSUME NEW i \in 1..Len(upC), upC[i].t = "sig"
          PROVE  /\ upC[i].id < nextReqId /\ upC[i].id \in Nat
                 /\ \A h \in Uds!Sign : sign[h].st = "waiting" /\ sign[h].id = upC[i].id => h = upC[i].sig
      <4>1. upC[i] \in Ack \cup Sig
        BY <1>0 DEF FrameType
      <4>2. upC[i].id \in Nat
        BY <3>4, <4>1 DEF Ack, Sig
      <4> QED BY <1>0, <3>4, <4>2 DEF SignInv
    <3>5. \A i \in 1..Len(upC') : upC'[i].t = "sig" => upC'[i].id < nextReqId'
          /\ \A h \in Uds!Sign : sign'[h].st = "waiting" /\ sign'[h].id = upC'[i].id => h = upC'[i].sig
      BY <1>1, <1>4, <2>0, <2>1, <3>4
    <3> QED BY <3>1, <3>3, <3>5 DEF SignInv
  <2> QED BY <2>2, <2>4, <2>5, <2>6
<1> QED BY <1>3, <1>4 DEF Uds!SignRequest

\* The shim signs.
LEMMA ShimSignKeeps ==
    ASSUME UInv, Uds!ShimSign
    PROVE  FrameType' /\ SignInv' /\ AckInv'
<1>0. FrameType /\ SignInv /\ AckInv
  BY DEF UInv
<1>1. /\ dnC # <<>> /\ dnC' = Tail(dnC)
      /\ upC' = Append(upC, [t |-> "sig", id |-> Head(dnC)[1], sig |-> Head(dnC)[2]])
      /\ UNCHANGED <<phase, epoch, Uds!server, Uds!signer, dnM, upM, Uds!shim>>
  BY DEF Uds!ShimSign
<1>2. /\ dnC' \in Seq(Nat \X Uds!Sign) /\ Head(dnC) = dnC[1] /\ dnC[1] \in Nat \X Uds!Sign /\ 1 \in 1..Len(dnC)
      /\ \A i \in 1..Len(dnC') : dnC'[i] = dnC[i + 1] /\ i + 1 \in 1..Len(dnC)
  BY <1>0, <1>1, TailOf DEF FrameType
<1> DEFINE f == [t |-> "sig", id |-> Head(dnC)[1], sig |-> Head(dnC)[2]]
<1>3. f \in Ack \cup Sig /\ f.t = "sig" /\ f.id = dnC[1][1] /\ f.sig = dnC[1][2]
  BY <1>2 DEF Sig
<1>4. upC' = Append(upC, f)
  BY <1>1
<1> HIDE DEF f
<1>5. /\ upC' \in Seq(Ack \cup Sig)
      /\ \A i \in 1..Len(upC') : upC'[i] = f \/ (i \in 1..Len(upC) /\ upC'[i] = upC[i])
  BY <1>0, <1>3, <1>4, AppendOf DEF FrameType
<1>6. FrameType'
  BY <1>0, <1>1, <1>2, <1>5 DEF FrameType, Uds!server
<1>7. AckInv'
  BY <1>0, <1>1, <1>3, <1>5 DEF AckInv, Uds!server, Uds!shim
<1>8. SignInv'
  <2>1. \A i \in 1..Len(dnC) : dnC[i][1] < nextReqId
          /\ \A g \in Uds!Sign : sign[g].st = "waiting" /\ sign[g].id = dnC[i][1] => g = dnC[i][2]
    BY <1>0 DEF SignInv
  <2>2. \A i \in 1..Len(upC) : upC[i].t = "sig" => upC[i].id < nextReqId
          /\ \A g \in Uds!Sign : sign[g].st = "waiting" /\ sign[g].id = upC[i].id => g = upC[i].sig
    BY <1>0 DEF SignInv
  <2>3. f.id < nextReqId
          /\ \A g \in Uds!Sign : sign[g].st = "waiting" /\ sign[g].id = f.id => g = f.sig
    BY <1>2, <1>3, <2>1
  <2>4. sign' = sign /\ nextReqId' = nextReqId /\ phase' = phase
    BY <1>1 DEF Uds!signer
  <2>5. \A i \in 1..Len(dnC') : dnC'[i][1] < nextReqId
          /\ \A g \in Uds!Sign : sign[g].st = "waiting" /\ sign[g].id = dnC'[i][1] => g = dnC'[i][2]
    BY ONLY SMTT(40), <1>2, <2>1
  <2>6. \A i \in 1..Len(upC') : upC'[i].t = "sig" => upC'[i].id < nextReqId
          /\ \A g \in Uds!Sign : sign[g].st = "waiting" /\ sign[g].id = upC'[i].id => g = upC'[i].sig
    BY ONLY <1>5, <2>2, <2>3
  <2> QED BY <1>0, <2>4, <2>5, <2>6 DEF SignInv
<1> QED BY <1>6, <1>7, <1>8

\* The client's handshake goes through the shim.
LEMMA ClientKeeps ==
    ASSUME UInv, Uds!ClientInitialize \/ Uds!ClientInitialized \/ Uds!ShimResult
    PROVE  FrameType' /\ HandshakeInv' /\ QuietInv'
<1>0. FrameType /\ HandshakeInv /\ QuietInv
  BY DEF UInv
<1>1. /\ UNCHANGED <<phase, epoch, Uds!server, Uds!signer, dnC, upC, dedup, shown>>
      /\ phase \in {"authed", "session"}
      /\ inited' = inited \/ inited' = TRUE
      /\ dnM' = dnM \/ (dnM # <<>> /\ dnM' = Tail(dnM))
      /\ \/ upM' = upM \/ upM' = Append(upM, "initialize")
         \/ upM' = Append(upM, "initialized") /\ inited'
  BY DEF Uds!ClientInitialize, Uds!ClientInitialized, Uds!ShimResult, Uds!Connected
<1>2. /\ dnM' \in Seq(Notif \cup {"result"})
      /\ \A i \in 1..Len(dnM') : dnM'[i] # "result" => inited
  <2>1. CASE dnM' = dnM
    BY <1>0, <2>1 DEF FrameType, HandshakeInv
  <2>2. CASE dnM # <<>> /\ dnM' = Tail(dnM)
    BY <1>0, <2>2, TailOf DEF FrameType, HandshakeInv
  <2> QED BY <1>1, <2>1, <2>2
<1>3. /\ upM' \in Seq(Handshake)
      /\ \A i \in 1..Len(upM') : upM'[i] = "initialized" => inited'
  <2>0. upM \in Seq(Handshake) /\ \A i \in 1..Len(upM) : upM[i] = "initialized" => inited
    BY <1>0 DEF FrameType, HandshakeInv
  <2>1. CASE upM' = upM
    BY <1>1, <2>0, <2>1
  <2>2. CASE upM' = Append(upM, "initialize")
    <3>1. "initialize" \in Handshake
      BY DEF Handshake
    <3> QED BY <1>1, <2>0, <2>2, <3>1, AppendOf
  <2>3. CASE upM' = Append(upM, "initialized") /\ inited'
    <3>1. "initialized" \in Handshake
      BY DEF Handshake
    <3> QED BY <2>0, <2>3, <3>1, AppendOf
  <2> QED BY <1>1, <2>1, <2>2, <2>3
<1>4. FrameType'
  BY <1>0, <1>1, <1>2, <1>3 DEF FrameType, Uds!server
<1>5. HandshakeInv'
  BY <1>0, <1>1, <1>2, <1>3 DEF HandshakeInv, Uds!server
<1>6. QuietInv'
  BY <1>0, <1>1 DEF QuietInv, Uds!server, Uds!signer
<1> QED BY <1>4, <1>5, <1>6

\* The types at the ends of a connection, and when the server is up.
LEMMA TeardownType == ASSUME UInv, Uds!Teardown PROVE CallType'
<1>1. call \in [Call -> {"none", "buffered", "chained", "sent", "ok", "err", "stranded"}]
  BY DEF UInv, CallType
<1>2. call' \in [Call -> {"none", "buffered", "chained", "sent", "ok", "err", "stranded"}]
  BY <1>1 DEF Uds!Teardown
<1>3. chain' \in Seq(Call) /\ pending' = "none" /\ flushed' = FALSE
  BY DEF Uds!Teardown
<1>4. served' = served /\ order' = order
  BY DEF Uds!Teardown
<1> QED BY <1>2, <1>3, <1>4 DEF UInv, CallType

LEMMA ConnectType == ASSUME UInv, Uds!Connect PROVE CallType'
<1>1. order' \in Seq(Call) /\ served' = FALSE
  BY DEF Uds!Connect
<1>2. UNCHANGED <<call, chain, flushed, pending>>
  BY DEF Uds!Connect
<1> QED BY <1>1, <1>2 DEF UInv, CallType

LEMMA ServerUpType == ASSUME UInv, Uds!ServerUp PROVE FrameType'
<1>1. upM' \in Seq(Handshake)
  <2>1. upM' = <<>> \/ upM' = <<"initialize">>
    BY DEF Uds!ServerUp
  <2>2. "initialize" \in Handshake
    BY DEF Handshake
  <2>3. CASE upM' = <<>>
    BY <2>3
  <2>4. CASE upM' = <<"initialize">>
    BY <2>2, <2>4
  <2> QED BY <2>1, <2>3, <2>4
<1>2. UNCHANGED <<epoch, Uds!server, dnM, dnC, upC>> /\ phase' = "authed"
  BY DEF Uds!ServerUp
<1> QED BY <1>1, <1>2 DEF UInv, FrameType, Uds!server

\* Between connections no call is under way, and no frame.
LEMMA ConnectKeeps == ASSUME UInv, Uds!Connect PROVE HandshakeInv' /\ OrderInv' /\ SignInv'
<1>1. /\ phase = "down" /\ chain = <<>> /\ pending = "none" /\ dnC = <<>> /\ upC = <<>>
      /\ HandshakeInv /\ OrderInv /\ SignInv
  BY DEF UInv, QuietInv, Uds!Connect
<1>2. /\ UNCHANGED <<call, chain, pending, sign, dnC, upC, dnM, upM, inited, shown>>
      /\ mcpBuffer' = <<>> /\ order' = <<>> /\ phase' = "starting" /\ nextReqId' = 1
  BY DEF Uds!Connect, Uds!frames, Uds!shim
<1>3. HandshakeInv'
  <2>1. served' => inited
    BY DEF Uds!Connect
  <2>2. \A i \in 1..Len(mcpBuffer') : mcpBuffer'[i] = "initialized" => inited
    BY <1>2
  <2> QED BY <1>1, <1>2, <2>1, <2>2 DEF HandshakeInv
<1>4. OrderInv'
  <2>1. \A c \in Call : call[c] \notin {"buffered", "chained", "sent"}
    BY <1>1 DEF OrderInv
  <2> QED BY <1>1, <1>2, <2>1 DEF OrderInv
<1>5. SignInv'
  <2>1. \A g \in Uds!Sign : sign[g].st # "waiting"
    BY <1>1 DEF SignInv
  <2> QED BY <1>1, <1>2, <2>1 DEF SignInv
<1> QED BY <1>3, <1>4, <1>5

\* The end of a connection settles all its calls.
LEMMA TeardownKeeps == ASSUME UInv, Uds!Teardown PROVE OrderInv' /\ Uds!DeliveredInOrder'
<1>1. OrderInv /\ Uds!DeliveredInOrder /\ \A i \in 1..Len(order) : order[i] \in Call
  BY DEF UInv, CallType
<1>2. /\ chain' = <<>> /\ pending' = "none" /\ order' = order /\ served' = served /\ phase' = "down"
      /\ \A c \in Call : call'[c] = IF call[c] \in {"buffered", "chained", "sent"} THEN "err"
                                    ELSE call[c]
  BY DEF Uds!Teardown
<1>3. \A c \in Call : call'[c] \notin {"buffered", "chained", "sent"}
  BY <1>2
<1>4. OrderInv'
  BY <1>1, <1>2, <1>3 DEF OrderInv
<1>5. Uds!DeliveredInOrder'
  BY <1>1, <1>2 DEF Uds!DeliveredInOrder
<1> QED BY <1>4, <1>5

\* Each part of the invariant, step by step.
LEMMA CallTypeStep ==
    ASSUME Uds!UdsDeliveryAssumption, UInv, [Uds!Next]_(Uds!vars) PROVE CallType'
<1>0. CallType
  BY DEF UInv
<1>1. CASE Uds!Connect
  BY <1>1, ConnectType
<1>2. CASE Uds!EnterSession \/ Uds!ReadMcp
  BY <1>2, FeedKeeps
<1>3. CASE Uds!ReadCtrl \/ Uds!Flushed \/ Uds!AckTimeout
  BY <1>3, AnswerKeeps
<1>4. CASE Uds!Teardown
  BY <1>4, TeardownType
<1>5. CASE \E c \in Call : Uds!Inject(c)
  BY <1>5, InjectKeeps
<1>6. CASE Uds!StartInject
  BY <1>0, <1>6 DEF CallType, Uds!StartInject, Uds!Busy
<1>7. ASSUME NEW c \in Call, Uds!InjectLate(c) PROVE CallType'
  BY <1>0, <1>7 DEF CallType, Uds!InjectLate
<1>8. CASE UNCHANGED <<served, call, chain, flushed, pending, order>>
  BY <1>0, <1>8 DEF CallType
<1> QED BY <1>1, <1>2, <1>3, <1>4, <1>5, <1>6, <1>7, <1>8
       DEF Uds!Next, Uds!Core, Uds!Shim, Uds!vars, Uds!server, Uds!ServerUp, Uds!ClientInitialize,
           Uds!ClientInitialized, Uds!ShimResult, Uds!ShimNotif, Uds!ShimSign, Uds!ShimDrains,
           Uds!Disconnect, Uds!SignTimeout, Uds!SignRequest

LEMMA SignTypeStep ==
    ASSUME Uds!UdsDeliveryAssumption, UInv, [Uds!Next]_(Uds!vars) PROVE SignType'
<1>0. SignType
  BY DEF UInv
<1>1. CASE Uds!ReadCtrl
  BY <1>1, CtrlKeeps
<1>2. CASE \E g \in Uds!Sign : Uds!SignRequest(g)
  BY <1>2, SignKeeps
<1>3. CASE Uds!Connect
  BY <1>0, <1>3 DEF SignType, Uds!Connect
<1>4. CASE Uds!Teardown
  BY <1>0, <1>4 DEF SignType, Uds!Teardown
<1>5. ASSUME NEW g \in Uds!Sign, Uds!SignTimeout(g) PROVE SignType'
  BY <1>0, <1>5 DEF SignType, Uds!SignTimeout
<1>6. CASE UNCHANGED <<sign, nextReqId>>
  BY <1>0, <1>6 DEF SignType
<1> QED BY <1>1, <1>2, <1>3, <1>4, <1>5, <1>6
       DEF Uds!Next, Uds!Core, Uds!Shim, Uds!vars, Uds!signer, Uds!ServerUp, Uds!EnterSession,
           Uds!FeedMcp, Uds!ReadMcp, Uds!StartInject, Uds!Busy, Uds!Flushed, Uds!Settled,
           Uds!AckTimeout, Uds!Answer, Uds!ClientInitialize, Uds!ClientInitialized, Uds!ShimResult,
           Uds!ShimNotif, Uds!ShimSign, Uds!ShimDrains, Uds!Disconnect, Uds!Inject, Uds!InjectLate

LEMMA FrameTypeStep ==
    ASSUME Uds!UdsDeliveryAssumption, UInv, [Uds!Next]_(Uds!vars) PROVE FrameType'
<1>0. FrameType
  BY DEF UInv
<1>1. CASE Uds!ServerUp
  BY <1>1, ServerUpType
<1>2. CASE Uds!EnterSession \/ Uds!ReadMcp
  BY <1>2, FeedKeeps
<1>3. CASE Uds!ReadCtrl
  BY <1>3, CtrlKeeps
<1>4. CASE Uds!StartInject
  BY <1>4, StartKeeps
<1>5. CASE Uds!ClientInitialize \/ Uds!ClientInitialized \/ Uds!ShimResult
  BY <1>5, ClientKeeps
<1>6. CASE Uds!ShimNotif \/ Uds!ShimDrains
  BY <1>6, TakeKeeps
<1>7. CASE Uds!ShimSign
  BY <1>7, ShimSignKeeps
<1>8. CASE \E g \in Uds!Sign : Uds!SignRequest(g)
  BY <1>8, SignKeeps
<1>9. CASE Uds!Connect
  BY <1>0, <1>9 DEF FrameType, Uds!Connect, Handshake, Uds!frames
<1>10. CASE Uds!Teardown
  BY <1>0, <1>10 DEF FrameType, Uds!Teardown, Handshake, Uds!frames
<1>11. CASE Uds!Disconnect
  BY <1>0, <1>11 DEF FrameType, Uds!Disconnect, Handshake, Uds!server
<1>12. CASE UNCHANGED <<phase, epoch, mcpBuffer, dnM, dnC, upM, upC>>
  BY <1>0, <1>12 DEF FrameType, Handshake
<1> QED BY <1>1, <1>2, <1>3, <1>4, <1>5, <1>6, <1>7, <1>8, <1>9, <1>10, <1>11, <1>12
       DEF Uds!Next, Uds!Core, Uds!Shim, Uds!vars, Uds!server, Uds!frames, Uds!Flushed, Uds!Busy,
           Uds!Settled, Uds!AckTimeout, Uds!Answer, Uds!SignTimeout, Uds!Inject, Uds!InjectLate

LEMMA ShownTypeStep ==
    ASSUME Uds!UdsDeliveryAssumption, UInv, [Uds!Next]_(Uds!vars) PROVE ShownType'
<1>0. ShownType
  BY DEF UInv
<1>1. CASE Uds!ShimNotif \/ Uds!ShimDrains
  BY <1>1, TakeKeeps
<1>2. CASE UNCHANGED <<dedup, shown>>
  BY <1>0, <1>2 DEF ShownType
<1> QED BY <1>1, <1>2
       DEF Uds!Next, Uds!Core, Uds!Shim, Uds!vars, Uds!shim, Uds!Connect, Uds!ServerUp,
           Uds!EnterSession, Uds!FeedMcp, Uds!ReadMcp, Uds!ReadCtrl, Uds!feedCtrlSig,
           Uds!feedCtrlDelivered, Uds!Answer, Uds!Settled, Uds!StartInject, Uds!Busy, Uds!Flushed,
           Uds!AckTimeout, Uds!Teardown, Uds!ClientInitialize, Uds!ClientInitialized,
           Uds!ShimResult, Uds!ShimSign, Uds!Disconnect, Uds!SignTimeout, Uds!SignRequest,
           Uds!Inject, Uds!InjectLate

LEMMA QuietInvStep ==
    ASSUME Uds!UdsDeliveryAssumption, UInv, [Uds!Next]_(Uds!vars) PROVE QuietInv'
<1>0. QuietInv
  BY DEF UInv
<1>1. CASE Uds!ReadCtrl
  BY <1>1, CtrlKeeps
<1>2. CASE Uds!ShimResult
  BY <1>2, ClientKeeps
<1>3. CASE Uds!ShimNotif \/ Uds!ShimDrains
  BY <1>3, TakeKeeps
<1>4. CASE \E c \in Call : Uds!Inject(c)
  BY <1>4, InjectKeeps
<1>5. CASE Uds!Connect
  BY <1>0, <1>5 DEF QuietInv, Uds!Connect, Uds!frames
<1>6. CASE Uds!ServerUp
  BY <1>0, <1>6 DEF QuietInv, Uds!ServerUp, Uds!server, Uds!signer
<1>7. CASE Uds!EnterSession
  BY <1>0, <1>7 DEF QuietInv, Uds!EnterSession, Uds!FeedMcp, Uds!signer
<1>8. CASE Uds!ReadMcp
  BY <1>0, <1>8 DEF QuietInv, Uds!ReadMcp, Uds!FeedMcp, Uds!signer
<1>9. CASE Uds!StartInject
  BY <1>0, <1>9 DEF QuietInv, Uds!StartInject, Uds!Busy, Uds!signer
<1>10. CASE Uds!Flushed
  BY <1>0, <1>10 DEF QuietInv, Uds!Flushed, Uds!Busy, Uds!Settled, Uds!signer, Uds!frames
<1>11. CASE Uds!AckTimeout
  BY <1>0, <1>11 DEF QuietInv, Uds!AckTimeout, Uds!Answer, Uds!Settled, Uds!signer, Uds!frames
<1>12. CASE Uds!Teardown
  BY <1>0, <1>12 DEF QuietInv, Uds!Teardown, Uds!frames
<1>13. CASE Uds!ShimSign
  BY <1>0, <1>13 DEF QuietInv, Uds!ShimSign, Uds!Connected, Uds!server, Uds!signer
<1>14. CASE Uds!Disconnect
  BY <1>0, <1>14 DEF QuietInv, Uds!Disconnect, Uds!server, Uds!signer
<1>15. ASSUME NEW g \in Uds!Sign, Uds!SignRequest(g) PROVE QuietInv'
  BY <1>0, <1>15 DEF QuietInv, Uds!SignRequest, Uds!server
<1>16. CASE UNCHANGED <<phase, served, chain, pending, order, nextReqId, dnM, dnC, upC>>
  BY <1>0, <1>16 DEF QuietInv
<1> QED BY <1>1, <1>2, <1>3, <1>4, <1>5, <1>6, <1>7, <1>8, <1>9, <1>10, <1>11, <1>12, <1>13, <1>14,
           <1>15, <1>16
       DEF Uds!Next, Uds!Core, Uds!Shim, Uds!vars, Uds!server, Uds!signer, Uds!frames,
           Uds!ClientInitialize, Uds!ClientInitialized, Uds!SignTimeout, Uds!InjectLate

LEMMA HandshakeInvStep ==
    ASSUME Uds!UdsDeliveryAssumption, UInv, [Uds!Next]_(Uds!vars) PROVE HandshakeInv'
<1>0. HandshakeInv
  BY DEF UInv
<1>1. CASE Uds!Connect
  BY <1>1, ConnectKeeps
<1>2. CASE Uds!EnterSession \/ Uds!ReadMcp
  BY <1>2, FeedKeeps
<1>3. CASE Uds!ReadCtrl \/ Uds!Flushed \/ Uds!AckTimeout
  BY <1>3, AnswerKeeps
<1>4. CASE Uds!StartInject
  BY <1>4, StartKeeps
<1>5. CASE Uds!ClientInitialize \/ Uds!ClientInitialized \/ Uds!ShimResult
  BY <1>5, ClientKeeps
<1>6. CASE Uds!ShimNotif \/ Uds!ShimDrains
  BY <1>6, TakeKeeps
<1>7. CASE \E c \in Call : Uds!Inject(c)
  BY <1>7, InjectKeeps
<1>8. CASE Uds!ServerUp
  BY <1>0, <1>8 DEF HandshakeInv, Uds!ServerUp, Uds!server, Uds!shim
<1>9. CASE Uds!Teardown
  BY <1>0, <1>9 DEF HandshakeInv, Uds!Teardown, Uds!frames, Uds!shim
<1>10. CASE Uds!Disconnect
  BY <1>0, <1>10 DEF HandshakeInv, Uds!Disconnect, Uds!server, Uds!shim
<1>11. CASE UNCHANGED <<mcpBuffer, served, chain, dnM, upM, inited, shown>>
  BY <1>0, <1>11 DEF HandshakeInv
<1> QED BY <1>1, <1>2, <1>3, <1>4, <1>5, <1>6, <1>7, <1>8, <1>9, <1>10, <1>11
       DEF Uds!Next, Uds!Core, Uds!Shim, Uds!vars, Uds!server, Uds!frames, Uds!shim, Uds!ShimSign,
           Uds!SignTimeout, Uds!SignRequest, Uds!InjectLate

LEMMA WindowInvStep ==
    ASSUME Uds!UdsDeliveryAssumption, UInv, [Uds!Next]_(Uds!vars) PROVE WindowInv'
<1>0. WindowInv
  BY DEF UInv
<1>1. CASE Uds!ShimNotif \/ Uds!ShimDrains
  BY <1>1, TakeKeeps
<1>2. CASE UNCHANGED <<dedup, shown>>
  BY <1>0, <1>2 DEF WindowInv
<1> QED BY <1>1, <1>2
       DEF Uds!Next, Uds!Core, Uds!Shim, Uds!vars, Uds!shim, Uds!Connect, Uds!ServerUp,
           Uds!EnterSession, Uds!FeedMcp, Uds!ReadMcp, Uds!ReadCtrl, Uds!feedCtrlSig,
           Uds!feedCtrlDelivered, Uds!Answer, Uds!Settled, Uds!StartInject, Uds!Busy, Uds!Flushed,
           Uds!AckTimeout, Uds!Teardown, Uds!ClientInitialize, Uds!ClientInitialized,
           Uds!ShimResult, Uds!ShimSign, Uds!Disconnect, Uds!SignTimeout, Uds!SignRequest,
           Uds!Inject, Uds!InjectLate

LEMMA AckInvStep ==
    ASSUME Uds!UdsDeliveryAssumption, UInv, [Uds!Next]_(Uds!vars) PROVE AckInv'
<1>0. AckInv
  BY DEF UInv
<1>1. CASE Uds!EnterSession \/ Uds!ReadMcp
  BY <1>1, FeedKeeps
<1>2. CASE Uds!ReadCtrl
  BY <1>2, CtrlKeeps
<1>3. CASE Uds!ShimNotif \/ Uds!ShimDrains
  BY <1>3, TakeKeeps
<1>4. CASE Uds!ShimSign
  BY <1>4, ShimSignKeeps
<1>5. CASE \E c \in Call : Uds!Inject(c)
  BY <1>5, InjectKeeps
<1>6. CASE Uds!StartInject
  BY <1>0, <1>6 DEF AckInv, Uds!StartInject, Shows, Uds!Busy, Uds!shim
<1>7. CASE Uds!Flushed
  BY <1>0, <1>7, AnswerKeeps DEF AckInv, Shows, Uds!Flushed, Uds!frames, Uds!shim
<1>8. CASE Uds!AckTimeout
  BY <1>0, <1>8, AnswerKeeps DEF AckInv, Shows, Uds!AckTimeout, Uds!frames, Uds!shim
<1>9. CASE Uds!Teardown
  BY <1>0, <1>9 DEF AckInv, Uds!Teardown, Shows, Uds!frames, Uds!shim
<1>10. CASE Uds!Disconnect
  BY <1>0, <1>10 DEF AckInv, Uds!Disconnect, Shows, Uds!server, Uds!shim
<1>11. ASSUME NEW c \in Call, Uds!InjectLate(c) PROVE AckInv'
  BY <1>0, <1>11 DEF AckInv, Uds!InjectLate, Shows, Uds!frames, Uds!shim
<1>12. CASE UNCHANGED <<call, chain, pending, upC, shown>>
  BY <1>0, <1>12 DEF AckInv, Shows
<1> QED BY <1>1, <1>2, <1>3, <1>4, <1>5, <1>6, <1>7, <1>8, <1>9, <1>10, <1>11, <1>12
       DEF Uds!Next, Uds!Core, Uds!Shim, Uds!vars, Uds!server, Uds!frames, Uds!shim, Uds!Connect,
           Uds!ServerUp, Uds!ClientInitialize, Uds!ClientInitialized, Uds!ShimResult,
           Uds!SignTimeout, Uds!SignRequest

LEMMA OrderInvStep ==
    ASSUME Uds!UdsDeliveryAssumption, UInv, [Uds!Next]_(Uds!vars) PROVE OrderInv'
<1>0. OrderInv
  BY DEF UInv
<1>1. CASE Uds!Connect
  BY <1>1, ConnectKeeps
<1>2. CASE Uds!EnterSession \/ Uds!ReadMcp
  BY <1>2, FeedKeeps
<1>3. CASE Uds!ReadCtrl \/ Uds!Flushed \/ Uds!AckTimeout
  BY <1>3, AnswerKeeps
<1>4. CASE Uds!StartInject
  BY <1>4, StartKeeps
<1>5. CASE Uds!Teardown
  BY <1>5, TeardownKeeps
<1>6. CASE \E c \in Call : Uds!Inject(c)
  BY <1>6, InjectKeeps
<1>7. CASE Uds!ServerUp
  BY <1>0, <1>7 DEF OrderInv, Uds!ServerUp, Uds!server
<1>8. CASE Uds!Disconnect
  BY <1>0, <1>8 DEF OrderInv, Uds!Disconnect, Uds!server
<1>9. ASSUME NEW c \in Call, Uds!InjectLate(c) PROVE OrderInv'
  BY <1>0, <1>9 DEF OrderInv, Uds!InjectLate
<1>10. CASE UNCHANGED <<phase, served, call, chain, pending, order>>
  BY <1>0, <1>10 DEF OrderInv
<1> QED BY <1>1, <1>2, <1>3, <1>4, <1>5, <1>6, <1>7, <1>8, <1>9, <1>10
       DEF Uds!Next, Uds!Core, Uds!Shim, Uds!vars, Uds!server, Uds!ClientInitialize,
           Uds!ClientInitialized, Uds!ShimResult, Uds!ShimNotif, Uds!ShimSign, Uds!ShimDrains,
           Uds!SignTimeout, Uds!SignRequest

LEMMA SignInvStep ==
    ASSUME Uds!UdsDeliveryAssumption, UInv, [Uds!Next]_(Uds!vars) PROVE SignInv'
<1>0. SignInv
  BY DEF UInv
<1>1. CASE Uds!Connect
  BY <1>1, ConnectKeeps
<1>2. CASE Uds!ReadCtrl
  BY <1>2, CtrlKeeps
<1>3. CASE Uds!ShimNotif
  BY <1>3, TakeKeeps
<1>4. CASE Uds!ShimSign
  BY <1>4, ShimSignKeeps
<1>5. CASE \E g \in Uds!Sign : Uds!SignRequest(g)
  BY <1>5, SignKeeps
<1>6. CASE Uds!ServerUp
  BY <1>0, <1>6 DEF SignInv, Uds!ServerUp, Uds!signer
<1>7. CASE Uds!EnterSession
  BY <1>0, <1>7 DEF SignInv, Uds!EnterSession, Uds!FeedMcp, Uds!signer
<1>8. CASE Uds!Teardown
  BY <1>0, <1>8 DEF SignInv, Uds!Teardown, Uds!frames
<1>9. CASE Uds!Disconnect
  BY <1>0, <1>9 DEF SignInv, Uds!Disconnect, Uds!signer
<1>10. ASSUME NEW g \in Uds!Sign, Uds!SignTimeout(g) PROVE SignInv'
  BY <1>0, <1>10 DEF SignInv, Uds!SignTimeout, Uds!frames
<1>11. CASE UNCHANGED <<phase, sign, nextReqId, dnC, upC>>
  BY <1>0, <1>11 DEF SignInv
<1> QED BY <1>1, <1>2, <1>3, <1>4, <1>5, <1>6, <1>7, <1>8, <1>9, <1>10, <1>11
       DEF Uds!Next, Uds!Core, Uds!Shim, Uds!vars, Uds!signer, Uds!frames, Uds!ReadMcp,
           Uds!FeedMcp, Uds!StartInject, Uds!Busy, Uds!Flushed, Uds!Settled, Uds!AckTimeout,
           Uds!Answer, Uds!ClientInitialize, Uds!ClientInitialized, Uds!ShimResult, Uds!ShimDrains,
           Uds!Inject, Uds!InjectLate

LEMMA DeliveredInOrderStep ==
    ASSUME Uds!UdsDeliveryAssumption, UInv, [Uds!Next]_(Uds!vars) PROVE Uds!DeliveredInOrder'
<1>0. Uds!DeliveredInOrder
  BY DEF UInv
<1>1. CASE Uds!EnterSession \/ Uds!ReadMcp
  BY <1>1, FeedKeeps
<1>2. CASE Uds!ReadCtrl \/ Uds!Flushed \/ Uds!AckTimeout
  BY <1>2, AnswerKeeps
<1>3. CASE Uds!StartInject
  BY <1>3, StartKeeps
<1>4. CASE Uds!Teardown
  BY <1>4, TeardownKeeps
<1>5. CASE \E c \in Call : Uds!Inject(c)
  BY <1>5, InjectKeeps
<1>6. CASE Uds!Connect
  BY <1>0, <1>6 DEF Uds!DeliveredInOrder, Uds!Connect
<1>7. ASSUME NEW c \in Call, Uds!InjectLate(c) PROVE Uds!DeliveredInOrder'
  BY <1>0, <1>7 DEF Uds!DeliveredInOrder, Uds!InjectLate
<1>8. CASE UNCHANGED <<call, order>>
  BY <1>0, <1>8 DEF Uds!DeliveredInOrder
<1> QED BY <1>1, <1>2, <1>3, <1>4, <1>5, <1>6, <1>7, <1>8
       DEF Uds!Next, Uds!Core, Uds!Shim, Uds!vars, Uds!server, Uds!ServerUp, Uds!ClientInitialize,
           Uds!ClientInitialized, Uds!ShimResult, Uds!ShimNotif, Uds!ShimSign, Uds!ShimDrains,
           Uds!Disconnect, Uds!SignTimeout, Uds!SignRequest

LEMMA ShownOnceStep ==
    ASSUME Uds!UdsDeliveryAssumption, UInv, [Uds!Next]_(Uds!vars) PROVE Uds!ShownOnce'
<1>0. Uds!ShownOnce
  BY DEF UInv
<1>1. CASE Uds!ShimNotif \/ Uds!ShimDrains
  BY <1>1, TakeKeeps
<1>2. CASE UNCHANGED <<shown>>
  BY <1>0, <1>2 DEF Uds!ShownOnce
<1> QED BY <1>1, <1>2
       DEF Uds!Next, Uds!Core, Uds!Shim, Uds!vars, Uds!shim, Uds!Connect, Uds!ServerUp,
           Uds!EnterSession, Uds!FeedMcp, Uds!ReadMcp, Uds!ReadCtrl, Uds!feedCtrlSig,
           Uds!feedCtrlDelivered, Uds!Answer, Uds!Settled, Uds!StartInject, Uds!Busy, Uds!Flushed,
           Uds!AckTimeout, Uds!Teardown, Uds!ClientInitialize, Uds!ClientInitialized,
           Uds!ShimResult, Uds!ShimSign, Uds!Disconnect, Uds!SignTimeout, Uds!SignRequest,
           Uds!Inject, Uds!InjectLate

LEMMA SignatureIsOursStep ==
    ASSUME Uds!UdsDeliveryAssumption, UInv, [Uds!Next]_(Uds!vars) PROVE Uds!SignatureIsOurs'
<1>0. Uds!SignatureIsOurs
  BY DEF UInv
<1>1. CASE Uds!ReadCtrl
  BY <1>1, CtrlKeeps
<1>2. CASE \E g \in Uds!Sign : Uds!SignRequest(g)
  BY <1>2, SignKeeps
<1>3. CASE Uds!Teardown
  BY <1>0, <1>3 DEF Uds!SignatureIsOurs, Uds!Teardown
<1>4. ASSUME NEW g \in Uds!Sign, Uds!SignTimeout(g) PROVE Uds!SignatureIsOurs'
  BY <1>0, <1>4 DEF Uds!SignatureIsOurs, Uds!SignTimeout
<1>5. CASE UNCHANGED <<sign>>
  BY <1>0, <1>5 DEF Uds!SignatureIsOurs
<1> QED BY <1>1, <1>2, <1>3, <1>4, <1>5
       DEF Uds!Next, Uds!Core, Uds!Shim, Uds!vars, Uds!signer, Uds!Connect, Uds!ServerUp,
           Uds!EnterSession, Uds!FeedMcp, Uds!ReadMcp, Uds!StartInject, Uds!Busy, Uds!Flushed,
           Uds!Settled, Uds!AckTimeout, Uds!Answer, Uds!ClientInitialize, Uds!ClientInitialized,
           Uds!ShimResult, Uds!ShimNotif, Uds!ShimSign, Uds!ShimDrains, Uds!Disconnect, Uds!Inject,
           Uds!InjectLate

LEMMA DeliveryInit == ASSUME Uds!UdsDeliveryAssumption, Uds!Init PROVE UInv
<1> USE DEF Uds!Init, Uds!UdsDeliveryAssumption
<1>1. CallType
  <2>1. call \in [Call -> {"none", "buffered", "chained", "sent", "ok", "err", "stranded"}]
    OBVIOUS
  <2>2. chain \in Seq(Call) /\ order \in Seq(Call)
    OBVIOUS
  <2>3. flushed \in BOOLEAN /\ served \in BOOLEAN /\ pending = "none"
    OBVIOUS
  <2> HIDE DEF Uds!Init
  <2> QED BY <2>1, <2>2, <2>3 DEF CallType
<1>2. SignType
  BY DEF SignType, Uds!Nobody
<1>3. FrameType /\ ShownType
  BY DEF FrameType, ShownType
<1>4. QuietInv /\ HandshakeInv /\ WindowInv
  BY DEF QuietInv, HandshakeInv, WindowInv
<1>5. AckInv /\ OrderInv
  BY DEF AckInv, OrderInv
<1>6. SignInv
  BY DEF SignInv, Uds!Nobody
<1>7. Uds!DeliveredInOrder /\ Uds!ShownOnce /\ Uds!SignatureIsOurs
  BY DEF Uds!DeliveredInOrder, Uds!ShownOnce, Uds!SignatureIsOurs, Uds!Nobody
<1> QED BY <1>1, <1>2, <1>3, <1>4, <1>5, <1>6, <1>7 DEF UInv

THEOREM DeliveryInvariance == ASSUME Uds!UdsDeliveryAssumption PROVE Uds!Spec => []UInv
<1>1. Uds!Init => UInv
  BY DeliveryInit
<1>2. UInv /\ [Uds!Next]_(Uds!vars) => UInv'
  <2> SUFFICES ASSUME UInv, [Uds!Next]_(Uds!vars) PROVE UInv'
    OBVIOUS
  <2>1. CallType' /\ SignType' /\ FrameType' /\ ShownType'
    BY CallTypeStep, SignTypeStep, FrameTypeStep, ShownTypeStep
  <2>2. QuietInv' /\ HandshakeInv' /\ WindowInv' /\ AckInv' /\ OrderInv' /\ SignInv'
    BY QuietInvStep, HandshakeInvStep, WindowInvStep, AckInvStep, OrderInvStep, SignInvStep
  <2>3. Uds!DeliveredInOrder' /\ Uds!ShownOnce' /\ Uds!SignatureIsOurs'
    BY DeliveredInOrderStep, ShownOnceStep, SignatureIsOursStep
  <2> QED BY <2>1, <2>2, <2>3 DEF UInv
<1> QED BY <1>1, <1>2, PTL DEF Uds!Spec

\* inject() resolves only if the notification was written to the client.
THEOREM DeliveredWasShownHolds ==
    ASSUME Uds!UdsDeliveryAssumption PROVE Uds!Spec => []Uds!DeliveredWasShown
<1>1. UInv => Uds!DeliveredWasShown
  BY DEF UInv, AckInv, Shows, Uds!DeliveredWasShown, Uds!ToSet
<1> QED BY <1>1, DeliveryInvariance, PTL

\* A notification is shown again only when DedupCap others have been shown since.
THEOREM ShownOnceHolds == ASSUME Uds!UdsDeliveryAssumption PROVE Uds!Spec => []Uds!ShownOnce
<1>1. UInv => Uds!ShownOnce
  BY DEF UInv
<1> QED BY <1>1, DeliveryInvariance, PTL

\* No bus event reaches a client that has not finished its MCP handshake.
THEOREM AfterHandshakeHolds ==
    ASSUME Uds!UdsDeliveryAssumption PROVE Uds!Spec => []Uds!AfterHandshake
<1>1. UInv => Uds!AfterHandshake
  BY DEF UInv, HandshakeInv, Uds!AfterHandshake
<1> QED BY <1>1, DeliveryInvariance, PTL

\* While one call's notification is under way no later call of the connection has sent its own.
THEOREM DeliveredInOrderHolds ==
    ASSUME Uds!UdsDeliveryAssumption PROVE Uds!Spec => []Uds!DeliveredInOrder
<1>1. UInv => Uds!DeliveredInOrder
  BY DEF UInv
<1> QED BY <1>1, DeliveryInvariance, PTL

\* A signature is the one of the request it answers.
THEOREM SignatureIsOursHolds ==
    ASSUME Uds!UdsDeliveryAssumption PROVE Uds!Spec => []Uds!SignatureIsOurs
<1>1. UInv => Uds!SignatureIsOurs
  BY DEF UInv
<1> QED BY <1>1, DeliveryInvariance, PTL

\* All five together: what timeouts, repeated notifications, reconnects and signatures that cross
\* on the socket may never do to a delivery or to a request to sign.
THEOREM DeliverySafeHolds == Uds!Spec => []DeliverySafe
BY DeliveryAssume, DeliveredWasShownHolds, ShownOnceHolds, AfterHandshakeHolds,
   DeliveredInOrderHolds, SignatureIsOursHolds, PTL DEF DeliverySafe
=============================================================================
