------------------------------ MODULE A2AInbox ------------------------------
(***************************************************************************)
(* The receive path of one agent: the durable JetStream inbox consumer and *)
(* the core-NATS topic subscriptions of a2a-channel.ts, the inbound        *)
(* pipeline handleInbound() they share, and the SQLite inbox store.        *)
(*                                                                         *)
(* A session is one A2AChannel object.  The core runs one at a time for an *)
(* agent, but a stopped session finishes the handler it is in, so the old  *)
(* and the new session overlap.  The in-memory dedup list belongs to a     *)
(* session; the store and the stream outlive it.                           *)
(*                                                                         *)
(* handleInbound() awaits twice: the signature check and the injection     *)
(* into the agent.  Everything between two awaits is one step.             *)
(***************************************************************************)
EXTENDS Integers, Sequences, FiniteSets

CONSTANTS
    Session,        \* the successive A2AChannel objects of the agent, numbered
    Direct,         \* messages sent to the agent's inbox
    Topic,          \* messages broadcast on a topic the agent has joined
    NoMsg,          \* the message of a handler that is idle
    Flaw,           \* what is wrong with a message, "none" if it is legitimate
    Mortal,         \* messages that carry a ttl_ms
    Throttled,      \* is the optional inbox gate (inboxMinIntervalMs) configured
    DedupLru,       \* dedupLru
    MaxDeliver,     \* the consumer's max_deliver
    MaxAckPending,  \* the consumer's max_ack_pending
    MaxFaults       \* bound on failed injections, persists and key fetches, and on late acks

Msg  == Direct \cup Topic
Loop == {"inbox", "topic"}
Flaws == {"none", "malformed", "badsig", "self", "misrouted"}

ASSUME SessionAssumption == Session \subseteq Nat

ASSUME InboxAssumption ==
    /\ Direct \cap Topic = {}
    /\ NoMsg \notin Msg
    /\ Flaw \in [Msg -> Flaws]
    /\ Mortal \subseteq Msg
    /\ Throttled \in BOOLEAN
    /\ DedupLru \in Nat \ {0}
    /\ MaxDeliver \in Nat \ {0}
    /\ MaxAckPending \in Nat \ {0}
    /\ MaxFaults \in Nat

VARIABLES
    sess,      \* "new", "up", "stopped" (its running handlers go on), "dead" (process gone)
    buf,       \* messages handed to a loop of a session and not yet taken
    at,        \* where the handler of a loop is: "idle", "verify", "inject"
    cur,       \* the message it handles
    order,     \* this.dedupOrder of a session (this.dedup is its range)
    sent,      \* messages published
    js,        \* the consumer's state of a direct message: "none", "ready", "pending", "acked"
    tries,     \* how often the consumer has delivered it
    expired,   \* messages whose ttl_ms has passed
    rows,      \* ids in the inbox store
    handled,   \* those with handled = 1
    shown,     \* history: the messages each session has injected, in order
    lost,      \* history: messages dropped by the inbox gate or for a failed key fetch
    faults     \* failures so far

vars == <<sess, buf, at, cur, order, sent, js, tries, expired, rows, handled, shown, lost, faults>>

stream == <<sent, js, tries, expired>>
store  == <<rows, handled>>

Elems(s) == {s[i] : i \in 1..Len(s)}
Running(s) == sess[s] \in {"up", "stopped"}

\* A copy of m that some session may still act on.
Held(m) == \E s \in Session, l \in Loop :
               Running(s) /\ (m \in Elems(buf[s][l]) \/ cur[s][l] = m)

Init ==
    /\ sess = [s \in Session |-> "new"]
    /\ buf = [s \in Session |-> [l \in Loop |-> <<>>]]
    /\ at = [s \in Session |-> [l \in Loop |-> "idle"]]
    /\ cur = [s \in Session |-> [l \in Loop |-> NoMsg]]
    /\ order = [s \in Session |-> <<>>]
    /\ sent = {}
    /\ js = [m \in Direct |-> "none"]
    /\ tries = [m \in Direct |-> 0]
    /\ expired = {}
    /\ rows = {}
    /\ handled = {}
    /\ shown = [s \in Session |-> <<>>]
    /\ lost = {}
    /\ faults = 0

-----------------------------------------------------------------------------
\* The stream and the consumer (JetStream) and the topic subscription (core NATS).

\* A peer publishes m.  A broadcast reaches only a session that is subscribed.
Publish(m) ==
    /\ m \notin sent
    /\ sent' = sent \cup {m}
    /\ js' = [d \in Direct |-> IF d = m THEN "ready" ELSE js[d]]
    /\ buf' = [s \in Session |-> IF m \in Topic /\ sess[s] = "up"
                                   THEN [buf[s] EXCEPT !["topic"] = Append(@, m)] ELSE buf[s]]
    /\ UNCHANGED <<sess, at, cur, order, tries, expired, store, shown, lost, faults>>

\* The consumer delivers m to the session that pulls.
Deliver(s, m) ==
    /\ sess[s] = "up"
    /\ js[m] = "ready"
    /\ tries[m] < MaxDeliver
    /\ Cardinality({d \in Direct : js[d] = "pending"}) < MaxAckPending
    /\ js' = [js EXCEPT ![m] = "pending"]
    /\ tries' = [tries EXCEPT ![m] = @ + 1]
    /\ buf' = [buf EXCEPT ![s]["inbox"] = Append(@, m)]
    /\ UNCHANGED <<sess, at, cur, order, sent, expired, store, shown, lost, faults>>

\* ack_wait passes although a session still has the message: a fault.
AckWaitLate(m) ==
    /\ js[m] = "pending"
    /\ Held(m)
    /\ faults < MaxFaults
    /\ faults' = faults + 1
    /\ js' = [js EXCEPT ![m] = "ready"]
    /\ UNCHANGED <<sess, buf, at, cur, order, sent, tries, expired, store, shown, lost>>

\* ack_wait passes for a message no session has any more.
AckWait(m) ==
    /\ js[m] = "pending"
    /\ ~Held(m)
    /\ js' = [js EXCEPT ![m] = "ready"]
    /\ UNCHANGED <<sess, buf, at, cur, order, sent, tries, expired, store, shown, lost,
                   faults>>

\* The ttl_ms of m passes.
Expires(m) ==
    /\ m \in (Mortal \cap sent) \ expired
    /\ expired' = expired \cup {m}
    /\ UNCHANGED <<sess, buf, at, cur, order, sent, js, tries, store, shown, lost, faults>>

-----------------------------------------------------------------------------
\* Sessions.

StartSession(s) ==
    /\ sess[s] = "new"
    /\ \A t \in Session : sess[t] # "up" /\ (t < s => sess[t] # "new")
    /\ sess' = [sess EXCEPT ![s] = "up"]
    /\ UNCHANGED <<buf, at, cur, order, stream, store, shown, lost, faults>>

\* stop(): the loops end after the message they are at; what was pulled ahead is
\* handled as well or dropped by the client.
StopSession(s) ==
    /\ sess[s] = "up"
    /\ sess' = [sess EXCEPT ![s] = "stopped"]
    /\ \E l \in {buf[s], [k \in Loop |-> <<>>]} : buf' = [buf EXCEPT ![s] = l]
    /\ UNCHANGED <<at, cur, order, stream, store, shown, lost, faults>>

\* The process dies, with all of its sessions.
Crash ==
    /\ \E s \in Session : Running(s)
    /\ sess' = [s \in Session |-> IF Running(s) THEN "dead" ELSE sess[s]]
    /\ buf' = [s \in Session |-> [l \in Loop |-> <<>>]]
    /\ at' = [s \in Session |-> [l \in Loop |-> "idle"]]
    /\ cur' = [s \in Session |-> [l \in Loop |-> NoMsg]]
    /\ UNCHANGED <<order, stream, store, shown, lost, faults>>

-----------------------------------------------------------------------------
\* handleInbound(), one step per stretch between two awaits.

\* m.ack() and m.nak() of the inbox loop; a topic message has neither.  An ack of
\* any delivery settles the message; a nak of an older delivery changes nothing.
Ack(l, m) == js' = IF l = "inbox" THEN [js EXCEPT ![m] = "acked"] ELSE js
Nak(l, m) == js' = IF l = "inbox" /\ js[m] = "pending" THEN [js EXCEPT ![m] = "ready"] ELSE js

Finish(s, l) ==
    /\ at' = [at EXCEPT ![s][l] = "idle"]
    /\ cur' = [cur EXCEPT ![s][l] = NoMsg]

\* The loop takes its next message and decodes it; a malformed one is acked, any
\* other goes to the signature check.
Take(s, l) ==
    /\ Running(s)
    /\ cur[s][l] = NoMsg
    /\ buf[s][l] # <<>>
    /\ LET m == Head(buf[s][l]) IN
       IF Flaw[m] = "malformed"
       THEN Ack(l, m) /\ UNCHANGED <<at, cur>>
       ELSE /\ at' = [at EXCEPT ![s][l] = "verify"]
            /\ cur' = [cur EXCEPT ![s][l] = m]
            /\ js' = js
    /\ buf' = [buf EXCEPT ![s][l] = Tail(@)]
    /\ UNCHANGED <<sess, order, sent, tries, expired, store, shown, lost, faults>>

\* Mutant of Refused: the self-echo guard is missing.
RefusedNoSelf(s, m) ==
    \/ Flaw[m] \in {"badsig", "misrouted"}
    \/ m \in Elems(order[s])
    \/ m \in expired

\* Signature, dedup, TTL, self-echo and route checks: the message is dropped and acked.
Refused(s, m) ==
    \/ Flaw[m] \in {"badsig", "self", "misrouted"}
    \/ m \in Elems(order[s])
    \/ m \in expired

Drop(s, l) ==
    /\ Running(s)
    /\ at[s][l] = "verify"
    /\ Refused(s, cur[s][l])
    /\ Ack(l, cur[s][l])
    /\ Finish(s, l)
    /\ UNCHANGED <<sess, buf, order, sent, tries, expired, store, shown, lost, faults>>

\* Both key fetches of verifyInbound() fail: the outcome is 'bad', as for a forgery.
KeyFault(s, l) ==
    /\ Running(s)
    /\ at[s][l] = "verify"
    /\ faults < MaxFaults
    /\ faults' = faults + 1
    /\ lost' = lost \cup {cur[s][l]}
    /\ Ack(l, cur[s][l])
    /\ Finish(s, l)
    /\ UNCHANGED <<sess, buf, order, sent, tries, expired, store, shown>>

\* The optional inbox gate drops a direct message that comes too soon.
Throttle(s) ==
    /\ Throttled
    /\ Running(s)
    /\ at[s]["inbox"] = "verify"
    /\ ~Refused(s, cur[s]["inbox"])
    /\ lost' = lost \cup {cur[s]["inbox"]}
    /\ Ack("inbox", cur[s]["inbox"])
    /\ Finish(s, "inbox")
    /\ UNCHANGED <<sess, buf, order, sent, tries, expired, store, shown, faults>>

\* The insert of persistDirectInboxBeforeInject() throws: nak.
PersistFail(s) ==
    /\ Running(s)
    /\ at[s]["inbox"] = "verify"
    /\ ~Refused(s, cur[s]["inbox"])
    /\ faults < MaxFaults
    /\ faults' = faults + 1
    /\ Nak("inbox", cur[s]["inbox"])
    /\ Finish(s, "inbox")
    /\ UNCHANGED <<sess, buf, order, sent, tries, expired, store, shown, lost>>

\* Mutant of StoreRow: INSERT OR REPLACE writes a fresh row.
StoreRowReplace(m) == rows' = rows \cup {m} /\ handled' = handled \ {m}

\* store(): INSERT ... ON CONFLICT DO NOTHING; a row that exists keeps its flags.
StoreRow(m) == rows' = rows \cup {m} /\ handled' = handled

\* Mutant of Pass: the row is not written before the injection.
PassUnpersisted(s, l) ==
    /\ Running(s)
    /\ at[s][l] = "verify"
    /\ ~Refused(s, cur[s][l])
    /\ at' = [at EXCEPT ![s][l] = "inject"]
    /\ UNCHANGED <<sess, buf, cur, order, stream, store, shown, lost, faults>>

\* All checks passed: a direct message is persisted, then the injection is awaited.
Pass(s, l) ==
    /\ Running(s)
    /\ at[s][l] = "verify"
    /\ ~Refused(s, cur[s][l])
    /\ IF l = "inbox" THEN StoreRow(cur[s][l]) ELSE UNCHANGED store
    /\ at' = [at EXCEPT ![s][l] = "inject"]
    /\ UNCHANGED <<sess, buf, cur, order, stream, shown, lost, faults>>

\* Mutant of recordDedup: the list is trimmed one entry too early.
recordDedupShort(o, m) ==
    IF m \in Elems(o) THEN o
    ELSE LET p == Append(o, m) IN IF Len(p) >= DedupLru THEN Tail(p) ELSE p

\* recordDedup(): ids leave the list in the order in which they came.
recordDedup(o, m) ==
    IF m \in Elems(o) THEN o
    ELSE LET p == Append(o, m) IN IF Len(p) > DedupLru THEN Tail(p) ELSE p

\* The injection succeeds: the id enters the dedup list and the message is acked.
Inject(s, l) ==
    /\ Running(s)
    /\ at[s][l] = "inject"
    /\ shown' = [shown EXCEPT ![s] = Append(@, cur[s][l])]
    /\ order' = [order EXCEPT ![s] = recordDedup(@, cur[s][l])]
    /\ Ack(l, cur[s][l])
    /\ Finish(s, l)
    /\ UNCHANGED <<sess, buf, sent, tries, expired, store, lost, faults>>

\* Mutant of InjectFail: the loop acks whatever the handler returns.
InjectFailAcks(s, l) ==
    /\ Running(s)
    /\ at[s][l] = "inject"
    /\ sess[s] = "stopped" \/ faults < MaxFaults
    /\ faults' = IF sess[s] = "stopped" THEN faults ELSE faults + 1
    /\ Ack(l, cur[s][l])
    /\ Finish(s, l)
    /\ UNCHANGED <<sess, buf, order, sent, tries, expired, store, shown, lost>>

\* Mutant of InjectFail: the error leaves the loop, which takes no further message.
InjectFailEndsLoop(s, l) ==
    /\ Running(s)
    /\ at[s][l] = "inject"
    /\ sess[s] = "stopped" \/ faults < MaxFaults
    /\ faults' = IF sess[s] = "stopped" THEN faults ELSE faults + 1
    /\ at' = [at EXCEPT ![s][l] = "idle"]
    /\ UNCHANGED <<sess, buf, cur, order, stream, store, shown, lost>>

\* The injection fails, as it may at any time and often does once the session is
\* stopped: nak.
InjectFail(s, l) ==
    /\ Running(s)
    /\ at[s][l] = "inject"
    /\ sess[s] = "stopped" \/ faults < MaxFaults
    /\ faults' = IF sess[s] = "stopped" THEN faults ELSE faults + 1
    /\ Nak(l, cur[s][l])
    /\ Finish(s, l)
    /\ UNCHANGED <<sess, buf, order, sent, tries, expired, store, shown, lost>>

\* Mutant of AgentAck: an upsert in place of the update.
AgentAckUpsert(m) ==
    /\ m \in sent
    /\ handled' = handled \cup {m}
    /\ UNCHANGED <<sess, buf, at, cur, order, stream, rows, shown, lost, faults>>

\* The agent acknowledges a message through a2a_inbox_messages (action 'ack').
AgentAck(m) ==
    /\ m \in rows
    /\ handled' = handled \cup {m}
    /\ UNCHANGED <<sess, buf, at, cur, order, stream, rows, shown, lost, faults>>

Next ==
    \/ \E m \in Msg : Publish(m) \/ Expires(m)
    \/ \E m \in Direct : AckWaitLate(m) \/ AckWait(m) \/ AgentAck(m)
    \/ \E m \in Direct, s \in Session : Deliver(s, m)
    \/ \E s \in Session : StartSession(s) \/ StopSession(s) \/ Throttle(s) \/ PersistFail(s)
    \/ \E s \in Session, l \in Loop : Take(s, l) \/ Drop(s, l) \/ KeyFault(s, l) \/ Pass(s, l)
                                       \/ Inject(s, l) \/ InjectFail(s, l)
    \/ Crash

Spec == Init /\ [][Next]_vars

\* JetStream delivers and redelivers, the event loop runs the handlers, a session
\* is brought up again.  The agent, its peers and the faults are not fair.
Fairness ==
    /\ \A m \in Direct : WF_vars(AckWait(m)) /\ \A s \in Session : WF_vars(Deliver(s, m))
    /\ \A s \in Session : WF_vars(StartSession(s))
    /\ \A s \in Session, l \in Loop : WF_vars(Take(s, l)) /\ WF_vars(Drop(s, l) \/ Pass(s, l))
                                       /\ WF_vars(Inject(s, l) \/ InjectFail(s, l))

FairSpec == Spec /\ Fairness

-----------------------------------------------------------------------------
\* Type invariant of the receive path.
TypeOK ==
    /\ sess \in [Session -> {"new", "up", "stopped", "dead"}]
    /\ buf \in [Session -> [Loop -> Seq(Msg)]]
    /\ at \in [Session -> [Loop -> {"idle", "verify", "inject"}]]
    /\ cur \in [Session -> [Loop -> Msg \cup {NoMsg}]]
    /\ order \in [Session -> Seq(Msg)]
    /\ sent \subseteq Msg
    /\ js \in [Direct -> {"none", "ready", "pending", "acked"}]
    /\ tries \in [Direct -> 0..MaxDeliver]
    /\ expired \subseteq Msg
    /\ rows \subseteq Direct
    /\ handled \subseteq rows
    /\ shown \in [Session -> Seq(Msg)]
    /\ lost \subseteq Msg
    /\ faults \in 0..MaxFaults

Seen(m) == \E s \in Session : m \in Elems(shown[s])

\* persistDirectInboxBeforeInject(): a direct message the agent has been shown is
\* in the store, whatever crashed since, so that it can be listed and acknowledged.
PersistedBeforeShown == \A m \in Direct : Seen(m) => m \in rows

\* store() and ack() of the inbox store: what the agent has acknowledged stays
\* acknowledged when a new session, whose dedup list is empty, stores it again.
HandledSticky == [][handled \subseteq handled']_vars

\* recordDedup(): a session shows the same message twice only if at least DedupLru
\* other messages were shown in between.
DedupWindow ==
    \A s \in Session : \A i, j \in 1..Len(shown[s]) :
        (i < j /\ shown[s][i] = shown[s][j]) => j - i > DedupLru

\* Both together: what an agent is shown is in the store first, and not shown again too soon.
InboxSafe == PersistedBeforeShown /\ DedupWindow

\* The inline ack after the injection: a legitimate direct message leaves the
\* consumer only when it was shown, when its ttl_ms has passed, or when the inbox
\* gate or a failed key fetch dropped it.
AckedWasShown ==
    \A m \in Direct :
        (js[m] = "acked" /\ Flaw[m] = "none" /\ m \notin expired \cup lost) => Seen(m)

\* The same without the last exception: what verifyInbound() refuses for good is not
\* legitimate.
OnlyForgeriesDropped ==
    \A m \in Direct :
        (js[m] = "acked" /\ Flaw[m] = "none" /\ m \notin expired) => Seen(m)

\* The pipeline fails closed: a forged, misaddressed or echoed message is neither
\* shown nor stored, by whichever loop and session it comes.
FailClosed == \A m \in Msg : Flaw[m] # "none" => ~Seen(m) /\ m \notin rows

\* At-least-once: a published legitimate message is shown, unless it expires, is
\* dropped as above, uses up its deliveries, or no session is left to run.
Delivered ==
    \A m \in Direct :
        (m \in sent /\ Flaw[m] = "none")
            ~> \/ Seen(m)
               \/ m \in expired \cup lost
               \/ tries[m] = MaxDeliver /\ js[m] = "ready"
               \/ \A s \in Session : sess[s] \in {"stopped", "dead"}
=============================================================================
