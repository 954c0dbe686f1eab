---------------------------- MODULE UdsDelivery ----------------------------
(***************************************************************************)
(* Delivery of bus messages to an agent over its Unix-socket session, and  *)
(* signing by the agent's shim: the per-session MCP server                 *)
(* (src/mcp_session.ts), makeUdsInject and makeUdsSign                     *)
(* (src/uds_transport.ts) with their PendingMap (src/uds_frame.ts), the    *)
(* connection's phases and teardown (src/uds_acceptor.ts), and the shim    *)
(* (a2a-shim/src/app.rs), which outlives its connections.                  *)
(*                                                                         *)
(* Frames are delivered in order within a lane (FrameLanes).  A lost       *)
(* connection loses what is under way; the shim connects again with a new  *)
(* epoch.                                                                  *)
(***************************************************************************)
EXTENDS Naturals, Sequences, FiniteSets, SequencesExt

CONSTANTS Call,       \* calls of inject(): delivery attempts of the inbox
          NotifOf,    \* NotifOf[c]: the notification id that call c delivers
          MaxSign,    \* bound: calls of externalSign(), numbered in the order they are made
          DedupCap,   \* NOTIFICATION_DEDUP_CAP of the shim
          MaxConn     \* bound: connections of the shim

UdsDeliveryAssumption ==
    /\ DedupCap \in Nat \ {0} /\ {MaxSign, MaxConn} \subseteq Nat
    /\ DOMAIN NotifOf = Call

VARIABLES
    phase,     \* of the connection: "down", "starting", "authed", "session", "closing"
    epoch,     \* of the current or last connection
    mcpBuffer, \* MCP frames read before the session is live
    served,    \* the MCP server saw notifications/initialized
    call,      \* call[c]: "none", "buffered", "chained", "sent", "ok", "err", "stranded"
    chain,     \* deliveryChain: calls in the order they will be injected
    flushed,   \* the injected call's drain() resolved
    pending,   \* its PendingMap entry: "none", "open", "acked", "gone"
    order,     \* history: calls of this connection in the order they were made
    sign,      \* sign[g]: [st, id, sig]
    nextReqId, \* of the connection
    dnM, dnC,  \* MCP and control frames on their way to the shim
    upM, upC,  \* and to the core
    asked,     \* the shim has cached the client's initialize request
    initSent,  \* the client has its one initialize result
    inited,    \* the shim has cached the client's notifications/initialized
    dedup,     \* notification ids the shim remembers, oldest first
    shown      \* notifications written to the client, in order

server == <<mcpBuffer, served, call, chain, flushed, pending, order>>
signer == <<sign, nextReqId>>
frames == <<dnM, dnC, upM, upC>>
shim == <<asked, initSent, inited, dedup, shown>>
vars == <<phase, epoch, server, signer, frames, shim>>

Sign == 1..MaxSign

Nobody == [st |-> "none", id |-> 0, sig |-> 0]

Init ==
    /\ phase = "down" /\ epoch = 0
    /\ mcpBuffer = <<>> /\ served = FALSE
    /\ call = [c \in Call |-> "none"] /\ chain = <<>> /\ order = <<>>
    /\ flushed = FALSE /\ pending = "none"
    /\ sign = [g \in Sign |-> Nobody] /\ nextReqId = 1
    /\ dnM = <<>> /\ dnC = <<>> /\ upM = <<>> /\ upC = <<>>
    /\ asked = FALSE /\ initSent = FALSE /\ inited = FALSE
    /\ dedup = <<>> /\ shown = <<>>

-----------------------------------------------------------------------------
(* The connection. *)

\* The hello of a shim that has drained its queue succeeded: addUdsSession starts the channel,
\* whose consumer may deliver at once.
Connect ==
    /\ phase = "down" /\ epoch < MaxConn /\ dnM = <<>>
    /\ phase' = "starting"
    /\ epoch' = epoch + 1
    /\ mcpBuffer' = <<>> /\ served' = FALSE /\ order' = <<>>
    /\ nextReqId' = 1
    /\ UNCHANGED <<call, chain, flushed, pending, sign, frames, shim>>

\* addUdsSession built the MCP server; {t:ok} goes out and the shim replays its
\* cached initialize.
ServerUp ==
    /\ phase = "starting"
    /\ phase' = "authed"
    /\ upM' = IF asked THEN <<"initialize">> ELSE <<>>
    /\ UNCHANGED <<epoch, server, signer, dnM, dnC, upC, shim>>

\* The buffered injects: until the handshake is over, all of the connection's.
pendingInjects == IF served THEN <<>> ELSE order

\* What an MCP frame of the client does to the server: it answers initialize; on
\* notifications/initialized the buffered injects join the chain in order.
FeedMcp(msgs) ==
    LET now == "initialized" \in ToSet(msgs)
    IN /\ dnM' = IF "initialize" \in ToSet(msgs) THEN Append(dnM, "result") ELSE dnM
       /\ served' = (served \/ now)
       /\ chain' = IF now THEN chain \o pendingInjects ELSE chain
       /\ call' = [c \in Call |-> IF now /\ call[c] = "buffered" THEN "chained" ELSE call[c]]

\* {t:ok} is flushed: the session is live and the buffered frames are fed in order.
EnterSession ==
    /\ phase = "authed"
    /\ phase' = "session"
    /\ FeedMcp(mcpBuffer)
    /\ mcpBuffer' = <<>>
    /\ UNCHANGED <<epoch, flushed, pending, order, signer, dnC, upM, upC, shim>>

\* routeFrame of an MCP frame: fed to the session, kept until there is one.
ReadMcp ==
    /\ phase \in {"authed", "session"} /\ upM # <<>>
    /\ IF phase = "session"
       THEN FeedMcp(<<Head(upM)>>) /\ UNCHANGED mcpBuffer
       ELSE /\ mcpBuffer' = Append(mcpBuffer, Head(upM))
            /\ UNCHANGED <<served, call, chain, dnM>>
    /\ upM' = Tail(upM)
    /\ UNCHANGED <<phase, epoch, flushed, pending, order, signer, dnC, upC, shim>>

\* A notification is written to the client and remembered.
Write(s, n) == [shown |-> Append(s.shown, n),
                dedup |-> IF Len(s.dedup) < DedupCap THEN Append(s.dedup, n)
                          ELSE Append(Tail(s.dedup), n)]

\* A notification the shim has read: written, unless it is remembered.
Accept(n) ==
    LET s == IF n \in ToSet(dedup) THEN [shown |-> shown, dedup |-> dedup]
             ELSE Write([shown |-> shown, dedup |-> dedup], n)
    IN shown' = s.shown /\ dedup' = s.dedup

\* The connection is lost, on either side: the phase is 'closed' at once and the frames under
\* way are gone, but for those that the shim has read and queued.
Disconnect ==
    /\ phase \in {"starting", "authed", "session"}
    /\ phase' = "closing"
    /\ \E k \in 0..Len(dnM) : dnM' = SubSeq(dnM, 1, k)
    /\ dnC' = <<>> /\ upM' = <<>> /\ upC' = <<>>
    /\ UNCHANGED <<epoch, server, signer, shim>>

\* drain_queued_uds_notifications: a notification that was queued when the connection ended
\* is still written to the client, without an acknowledgement; other frames are dropped.
ShimDrains ==
    /\ phase \in {"closing", "down"} /\ dnM # <<>>
    /\ IF Head(dnM) = "result" THEN UNCHANGED <<shown, dedup>> ELSE Accept(Head(dnM))
    /\ dnM' = Tail(dnM)
    /\ UNCHANGED <<phase, epoch, server, signer, dnC, upM, upC, asked, initSent, inited>>

\* Mutant of Teardown: injects that wait for the handshake are forgotten.
TeardownKeepsBuffered ==
    /\ phase = "closing"
    /\ phase' = "down"
    /\ call' = [c \in Call |-> IF call[c] \in {"chained", "sent"} THEN "err" ELSE call[c]]
    /\ chain' = <<>> /\ pending' = "none" /\ flushed' = FALSE /\ mcpBuffer' = <<>>
    /\ sign' = [g \in Sign |-> IF sign[g].st = "waiting" THEN [sign[g] EXCEPT !.st = "err"]
                               ELSE sign[g]]
    /\ UNCHANGED <<epoch, served, order, nextReqId, frames, shim>>

\* teardown() goes on: the pending maps and the writer reject, so the injected call and
\* every call behind it fail; the transport's close rejects what waits for the handshake.
Teardown ==
    /\ phase = "closing"
    /\ phase' = "down"
    /\ call' = [c \in Call |-> IF call[c] \in {"buffered", "chained", "sent"} THEN "err"
                               ELSE call[c]]
    /\ chain' = <<>> /\ pending' = "none" /\ flushed' = FALSE /\ mcpBuffer' = <<>>
    /\ sign' = [g \in Sign |-> IF sign[g].st = "waiting" THEN [sign[g] EXCEPT !.st = "err"]
                               ELSE sign[g]]
    /\ UNCHANGED <<epoch, served, order, nextReqId, frames, shim>>

-----------------------------------------------------------------------------
(* Delivery. *)

\* Mutant of NotifyState: no waiting for the handshake.
NotifyAtOnce == "chained"

\* The notification override: chained once the handshake is over, else kept for it.
NotifyState == IF served THEN "chained" ELSE "buffered"

\* Mutant of Enter: a new call goes before the ones that wait.
EnterFirst(c) == IF NotifyState = "chained" /\ flushed THEN <<Head(chain), c>> \o Tail(chain)
                 ELSE IF NotifyState = "chained" THEN <<c>> \o chain ELSE chain

Enter(c) == IF NotifyState = "chained" THEN Append(chain, c) ELSE chain

\* The inbox calls inject().  Before the MCP server exists it throws.
Inject(c) ==
    /\ call[c] = "none" /\ phase \in {"starting", "authed", "session", "closing"}
    /\ IF phase = "starting"
       THEN call' = [call EXCEPT ![c] = "err"] /\ UNCHANGED <<chain, order>>
       ELSE /\ call' = [call EXCEPT ![c] = NotifyState]
            /\ chain' = Enter(c)
            /\ order' = Append(order, c)
    /\ UNCHANGED <<phase, epoch, mcpBuffer, served, flushed, pending, signer, frames, shim>>

\* A handler that was still at work when the session closed calls inject() on the closed
\* server: the writer throws, or nobody is left to reject what waits for the handshake.
InjectLate(c) ==
    /\ call[c] = "none" /\ phase = "down" /\ epoch > 0
    /\ call' = [call EXCEPT ![c] = IF served THEN "err" ELSE "stranded"]
    /\ UNCHANGED <<phase, epoch, mcpBuffer, served, chain, flushed, pending, order,
                   signer, frames, shim>>

Busy == pending # "none"

\* makeUdsInject, for the first call of the chain: register its notification id, then
\* enqueue the frame.  A closing socket takes nothing.  The chain keeps one entry at most,
\* so neither the limit of entries nor a duplicate id is met.
StartInject ==
    /\ chain # <<>> /\ ~Busy /\ phase \in {"session", "closing"}
    /\ pending' = "open" /\ flushed' = FALSE
    /\ call' = [call EXCEPT ![Head(chain)] = "sent"]
    /\ dnM' = IF phase = "session" THEN Append(dnM, NotifOf[Head(chain)]) ELSE dnM
    /\ UNCHANGED <<phase, epoch, mcpBuffer, served, chain, order, signer, dnC, upM, upC, shim>>

\* The injected call settles and the next one may start.
Settled(v) ==
    /\ call' = [call EXCEPT ![Head(chain)] = v]
    /\ chain' = Tail(chain)
    /\ pending' = "none" /\ flushed' = FALSE

\* drain() resolves; the call then looks at its entry, which may be answered already.
Flushed ==
    /\ phase = "session" /\ Busy /\ ~flushed
    /\ CASE pending = "acked" -> Settled("ok")
         [] pending = "gone" -> Settled("err")
         [] OTHER -> flushed' = TRUE /\ UNCHANGED <<call, chain, pending>>
    /\ UNCHANGED <<phase, epoch, mcpBuffer, served, order, signer, frames, shim>>

\* The entry is answered or times out: the call settles if it waits for it, else the
\* answer waits for the call's drain().
Answer(entry, v) ==
    IF flushed THEN Settled(v)
    ELSE pending' = entry /\ UNCHANGED <<call, chain, flushed>>

\* DELIVERY_ACK_TIMEOUT_MS has passed since the call registered its id.
AckTimeout ==
    /\ pending = "open" /\ phase \in {"session", "closing"}
    /\ Answer("gone", "err")
    /\ UNCHANGED <<phase, epoch, mcpBuffer, served, order, signer, frames, shim>>

-----------------------------------------------------------------------------
(* Signing. *)

\* makeUdsSign: register a request id of the connection, then send the request.  Once the
\* writer has failed the request is answered with an error.
SignRequest(g) ==
    /\ sign[g].st = "none" /\ phase # "starting" /\ epoch > 0
    /\ \A h \in 1..(g - 1) : sign[h].st # "none"
    /\ IF phase = "down"
       THEN /\ sign' = [sign EXCEPT ![g].st = "err"]
            /\ UNCHANGED <<nextReqId, dnC>>
       ELSE /\ sign' = [sign EXCEPT ![g] = [@ EXCEPT !.st = "waiting", !.id = nextReqId]]
            /\ nextReqId' = nextReqId + 1
            /\ dnC' = IF phase = "closing" THEN dnC ELSE Append(dnC, <<nextReqId, g>>)
    /\ UNCHANGED <<phase, epoch, server, dnM, upM, upC, shim>>

\* The request's timer fires: its entry is gone, and a later signature finds none.
SignTimeout(g) ==
    /\ sign[g].st = "waiting"
    /\ sign' = [sign EXCEPT ![g].st = "err"]
    /\ UNCHANGED <<phase, epoch, server, nextReqId, frames, shim>>

\* Mutant of feedCtrlSig: the signature goes to whoever waits.
FeedAnySig(f) ==
    sign' = [g \in Sign |-> IF sign[g].st = "waiting"
                            THEN [sign[g] EXCEPT !.st = "ok", !.sig = f.sig] ELSE sign[g]]

\* feedCtrlSig: the signature resolves the request with its id, if that still waits.
feedCtrlSig(f) ==
    sign' = [g \in Sign |-> IF sign[g].st = "waiting" /\ sign[g].id = f.id
                            THEN [sign[g] EXCEPT !.st = "ok", !.sig = f.sig] ELSE sign[g]]

\* Mutant of feedCtrlDelivered: any acknowledgement answers the call that waits.
FeedAnyDelivered(f) ==
    IF pending = "open" THEN Answer("acked", "ok")
    ELSE UNCHANGED <<call, chain, pending, flushed>>

\* feedCtrlDelivered: an acknowledgement of this epoch resolves the entry of its
\* notification; any other is reported and dropped.
feedCtrlDelivered(f) ==
    IF pending = "open" /\ NotifOf[Head(chain)] = f.id /\ f.epoch = epoch
    THEN Answer("acked", "ok")
    ELSE UNCHANGED <<call, chain, pending, flushed>>

\* routeFrame of a control frame after the hello.
ReadCtrl ==
    /\ phase \in {"authed", "session"} /\ upC # <<>>
    /\ LET f == Head(upC)
       IN IF f.t = "delivered"
          THEN feedCtrlDelivered(f) /\ UNCHANGED sign
          ELSE feedCtrlSig(f) /\ UNCHANGED <<call, chain, pending, flushed>>
    /\ upC' = Tail(upC)
    /\ UNCHANGED <<phase, epoch, mcpBuffer, served, order, nextReqId, dnM, dnC, upM, shim>>

-----------------------------------------------------------------------------
(* The shim and its client. *)

Connected == phase \in {"authed", "session"}

\* The client starts its handshake; the shim caches the request for later connections.
ClientInitialize ==
    /\ Connected /\ ~asked
    /\ asked' = TRUE
    /\ upM' = Append(upM, "initialize")
    /\ UNCHANGED <<phase, epoch, server, signer, dnM, dnC, upC, initSent, inited, dedup, shown>>

\* The client ends its handshake.
ClientInitialized ==
    /\ Connected /\ initSent /\ ~inited
    /\ inited' = TRUE
    /\ upM' = Append(upM, "initialized")
    /\ UNCHANGED <<phase, epoch, server, signer, dnM, dnC, upC, asked, initSent, dedup, shown>>

\* handle_mcp_from_core: the first initialize result goes to the client and opens the
\* notification gate; a later one is dropped, and the cached initialized is replayed.
ShimResult ==
    /\ Connected /\ dnM # <<>> /\ Head(dnM) = "result"
    /\ initSent' = TRUE
    /\ upM' = IF initSent /\ inited THEN Append(upM, "initialized") ELSE upM
    /\ dnM' = Tail(dnM)
    /\ UNCHANGED <<phase, epoch, server, signer, dnC, upC, asked, inited, dedup, shown>>

\* Mutant of ShimNotif: a repeated notification is written again.
ShimRepeats ==
    /\ Connected /\ dnM # <<>> /\ Head(dnM) # "result"
    /\ LET n == Head(dnM)
           s == Write([shown |-> shown, dedup |-> dedup], n)
       IN /\ shown' = s.shown /\ dedup' = s.dedup
          /\ upC' = Append(upC, [t |-> "delivered", id |-> n, epoch |-> epoch])
    /\ dnM' = Tail(dnM)
    /\ UNCHANGED <<phase, epoch, server, signer, dnC, upM, asked, initSent, inited>>

\* accept_inbound_notification: write it, remember it, acknowledge it; a remembered one is
\* only acknowledged again.
ShimNotif ==
    /\ Connected /\ dnM # <<>> /\ Head(dnM) # "result"
    /\ Accept(Head(dnM))
    /\ upC' = Append(upC, [t |-> "delivered", id |-> Head(dnM), epoch |-> epoch])
    /\ dnM' = Tail(dnM)
    /\ UNCHANGED <<phase, epoch, server, signer, dnC, upM, asked, initSent, inited>>

\* uds_read_loop: the shim signs.
ShimSign ==
    /\ Connected /\ dnC # <<>>
    /\ upC' = Append(upC, [t |-> "sig", id |-> Head(dnC)[1], sig |-> Head(dnC)[2]])
    /\ dnC' = Tail(dnC)
    /\ UNCHANGED <<phase, epoch, server, signer, dnM, upM, shim>>

-----------------------------------------------------------------------------
Core == ServerUp \/ EnterSession \/ ReadMcp \/ ReadCtrl \/ StartInject \/ Flushed
        \/ AckTimeout \/ Teardown \/ \E g \in Sign : SignTimeout(g)

Shim == ClientInitialize \/ ClientInitialized \/ ShimResult \/ ShimNotif \/ ShimSign \/ ShimDrains

Next ==
    \/ Connect \/ Disconnect
    \/ Core \/ Shim
    \/ \E c \in Call : Inject(c) \/ InjectLate(c)
    \/ \E g \in Sign : SignRequest(g)

\* The event loop of either side runs, sockets drain, timers fire.
Fairness == /\ WF_vars(ServerUp) /\ WF_vars(EnterSession) /\ WF_vars(ReadMcp)
            /\ WF_vars(StartInject) /\ WF_vars(Flushed) /\ WF_vars(AckTimeout)
            /\ WF_vars(Teardown) /\ WF_vars(\E g \in Sign : SignTimeout(g))
            /\ WF_vars(ClientInitialize) /\ WF_vars(ClientInitialized)
            /\ WF_vars(ShimResult) /\ WF_vars(ShimNotif)

Spec == Init /\ [][Next]_vars /\ Fairness

-----------------------------------------------------------------------------
(* Properties. *)

\* inject() resolves, and the inbox acknowledges the message, only if the notification was
\* written to the client: an acknowledgement that is late, repeated or of another
\* connection never vouches for a notification nobody saw.
DeliveredWasShown ==
    \A c \in Call : call[c] = "ok" => NotifOf[c] \in ToSet(shown)

\* A notification delivered again, after a timeout or over a new connection, is not shown
\* again unless the shim has shown DedupCap others since.
ShownOnce ==
    \A i, j \in 1..Len(shown) : i < j /\ shown[i] = shown[j] => j - i > DedupCap

\* No bus event reaches a client that has not finished its MCP handshake, whatever is
\* buffered, replayed or reconnected.
AfterHandshake == shown # <<>> => inited

\* Strict order: while one call's notification is under way no later call of the
\* connection has sent its own, not even one made during the flush after the handshake.
DeliveredInOrder ==
    \A i, j \in 1..Len(order) :
        i < j /\ call[order[j]] \in {"sent", "ok"} => call[order[i]] \in {"ok", "err"}

\* Every inject() and every externalSign() settles: by its answer, its timer or the
\* teardown.  (A call on a server that closed before its handshake is the exception.)
CallsSettle ==
    []<>(/\ \A c \in Call : call[c] \notin {"buffered", "chained", "sent"}
         /\ \A g \in Sign : sign[g].st # "waiting")

\* A signature is the one of the request it answers, also when an earlier request timed out
\* and its signature comes late.
SignatureIsOurs == \A g \in Sign : sign[g].st = "ok" => sign[g].sig = g
=============================================================================
