-------------------------- MODULE TaskboardBridge --------------------------
(***************************************************************************)
(* The task-board event bridge (taskboard_event_bridge.ts with             *)
(* taskboard_event_core.ts): an HTTP endpoint that verifies the webhooks of *)
(* the task board's outbox and publishes each event to the TASKBOARD_EVENTS *)
(* stream under the message id event_id, so that the stream drops the      *)
(* copies of an event that is posted again.                                *)
(*                                                                         *)
(* Requests are handled concurrently; they share one promise, ready, for   *)
(* the existence of the stream.  The outbox (external) posts a webhook     *)
(* again as long as it is not answered with 202.                           *)
(***************************************************************************)
EXTENDS Naturals, Sequences

CONSTANTS
    Req,        \* webhooks: two of them may carry the same event
    Attr,       \* Attr[r]: what the bridge reads of the webhook
    Event,      \* the events they carry
    MaxOutage,  \* bound: outages of JetStream
    MaxSlide,   \* bound: message ids that leave the duplicate window
    MaxDelete   \* bound: deletions of the stream by an operator

BridgeAssumption ==
    /\ Attr \in [Req -> [ev: Event,
                         header: BOOLEAN,      \* X-Taskboard-Event is there
                         signature: {"good", "wrong", "malformed", "missing"},
                         timestamp: {"fresh", "stale", "bad", "missing"},
                         delivery: BOOLEAN,    \* X-Taskboard-Delivery is there
                         json: BOOLEAN,        \* the body is JSON
                         payload: BOOLEAN,     \* it has an id, a type and a scope
                         sameType: BOOLEAN]]   \* the header names the type of the body
    /\ MaxOutage \in Nat /\ MaxSlide \in Nat /\ MaxDelete \in Nat

VARIABLES
    req,        \* where the handling of a webhook is, or the status it was answered with
    ready,      \* this.ready: no promise, a pending one, or a fulfilled one
    stream,     \* does the stream exist with the task-board subject
    up,         \* does JetStream answer
    stored,     \* history: the messages stored, with the era of their message id
    window,     \* the message ids in the stream's duplicate window
    era,        \* era[e]: how often the id of e left the window
    outages, slides, deletes

vars == <<req, ready, stream, up, stored, window, era, outages, slides, deletes>>
env == <<up, era, outages, slides, deletes>>

\* The type invariant, which includes that a request waits for the stream only while the
\* promise it awaits is pending: ensureReady() leaves nobody behind.
TypeOK ==
    /\ req \in [Req -> {"new", "ensure", "publish", "202", "400", "401", "503"}]
    /\ ready \in {"null", "pending", "ok"}
    /\ stream \in BOOLEAN /\ up \in BOOLEAN
    /\ stored \in Seq([ev: Event, era: Nat])
    /\ window \subseteq Event
    /\ era \in [Event -> Nat]
    /\ outages \in 0 .. MaxOutage /\ slides \in 0 .. MaxSlide /\ deletes \in 0 .. MaxDelete
    /\ \A r \in Req : req[r] = "ensure" => ready = "pending"

\* The bridge as it is constructed.  startTaskboardEventBridge() then takes a Readyz and an
\* EnsureStream step before it serves; the tests serve at once.
Init ==
    /\ req = [r \in Req |-> "new"]
    /\ ready = "null" /\ stream \in BOOLEAN /\ up = TRUE
    /\ stored = <<>> /\ window = {} /\ era = [e \in Event |-> 0]
    /\ outages = 0 /\ slides = 0 /\ deletes = 0

------------------------------------------------------------------------------

\* Mutant of Verified: the age of the webhook is not checked.
VerifiedAnyAge(r) ==
    Attr[r].header /\ Attr[r].signature = "good" /\ Attr[r].delivery

\* verifyTaskboardWebhookSignature(), after the check of the event header.
Verified(r) ==
    /\ Attr[r].header
    /\ Attr[r].signature = "good" /\ Attr[r].timestamp = "fresh" /\ Attr[r].delivery

\* JSON.parse(), normalizeTaskboardPayload() and the comparison of the event types.
WellFormed(r) == Attr[r].json /\ Attr[r].payload /\ Attr[r].sameType

Genuine(r) == Verified(r) /\ WellFormed(r)

\* handleRequest() up to the stream, for a first webhook or for one the outbox posts again.
\* Without a promise, ensureReady() makes one; with a fulfilled one it goes on.
Post(r) ==
    /\ req[r] \in {"new", "503"}
    /\ \/ ~Verified(r) /\ req' = [req EXCEPT ![r] = "401"] /\ UNCHANGED ready
       \/ Verified(r) /\ ~WellFormed(r) /\ req' = [req EXCEPT ![r] = "400"] /\ UNCHANGED ready
       \/ Genuine(r) /\ ready = "ok" /\ req' = [req EXCEPT ![r] = "publish"] /\ UNCHANGED ready
       \/ Genuine(r) /\ ready # "ok" /\ req' = [req EXCEPT ![r] = "ensure"] /\ ready' = "pending"
    /\ UNCHANGED <<stream, stored, window, env>>

\* GET /readyz also asks for the promise.
Readyz ==
    /\ ready = "null"
    /\ ready' = "pending"
    /\ UNCHANGED <<req, stream, stored, window, env>>

Waiting(status) == [r \in Req |-> IF req[r] = "ensure" THEN status ELSE req[r]]

\* ensureStream() finds the stream, adds the subject or adds the stream: everyone who
\* awaits the promise goes on.
EnsureStream ==
    /\ ready = "pending" /\ up
    /\ ready' = "ok" /\ stream' = TRUE
    /\ req' = Waiting("publish")
    /\ UNCHANGED <<stored, window, env>>

\* Mutant of EnsureStreamFails: the promise is dropped and never settled.
EnsureStreamHangs ==
    /\ ready = "pending" /\ ~up
    /\ ready' = "null"
    /\ UNCHANGED <<req, stream, stored, window, env>>

\* It fails: the promise is dropped, and everyone who awaited it answers 503.
EnsureStreamFails ==
    /\ ready = "pending" /\ ~up
    /\ ready' = "null"
    /\ req' = Waiting("503")
    /\ UNCHANGED <<stream, stored, window, env>>

\* The stream takes a message, or drops it when its id is in the duplicate window.
MsgID(r) == Attr[r].ev

\* Mutant of Stores: no message id is given, and nothing is a duplicate.
StoresNoId(r) ==
    /\ UNCHANGED window
    /\ stored' = Append(stored, [ev |-> Attr[r].ev, era |-> era[Attr[r].ev]])

Stores(r) ==
    /\ window' = window \cup {MsgID(r)}
    /\ stored' = IF MsgID(r) \in window THEN stored
                 ELSE Append(stored, [ev |-> Attr[r].ev, era |-> era[Attr[r].ev]])

\* publish() is acknowledged.
Publish(r) ==
    /\ req[r] = "publish" /\ up /\ stream
    /\ Stores(r)
    /\ req' = [req EXCEPT ![r] = "202"]
    /\ UNCHANGED <<ready, stream, env>>

\* publish() fails: there is nothing to answer, or the acknowledgement is lost after the
\* stream took the message.
Unacknowledged(r) ==
    \/ (~up \/ ~stream) /\ UNCHANGED <<stored, window, outages>>
    \/ up /\ stream /\ outages < MaxOutage /\ outages' = outages + 1 /\ Stores(r)

\* Mutant of PublishFails: the failure is logged and the webhook is answered as accepted.
PublishFailsAccepted(r) ==
    /\ req[r] = "publish"
    /\ Unacknowledged(r)
    /\ req' = [req EXCEPT ![r] = "202"]
    /\ UNCHANGED <<ready, stream, up, era, slides, deletes>>

\* Mutant of PublishFails: the webhook is answered with a status the outbox takes as final.
PublishFailsRefused(r) ==
    /\ req[r] = "publish"
    /\ Unacknowledged(r)
    /\ req' = [req EXCEPT ![r] = "400"]
    /\ UNCHANGED <<ready, stream, up, era, slides, deletes>>

\* A failed publish is answered with 503.
PublishFails(r) ==
    /\ req[r] = "publish"
    /\ Unacknowledged(r)
    /\ req' = [req EXCEPT ![r] = "503"]
    /\ UNCHANGED <<ready, stream, up, era, slides, deletes>>

------------------------------------------------------------------------------
(* The surroundings                                                         *)

Outage ==
    /\ up /\ outages < MaxOutage
    /\ up' = FALSE /\ outages' = outages + 1
    /\ UNCHANGED <<req, ready, stream, stored, window, era, slides, deletes>>

Recover ==
    /\ ~up /\ up' = TRUE
    /\ UNCHANGED <<req, ready, stream, stored, window, era, outages, slides, deletes>>

\* The duplicate window (24 hours) moves past a message id.
WindowSlides(e) ==
    /\ e \in window /\ slides < MaxSlide
    /\ window' = window \ {e}
    /\ era' = [era EXCEPT ![e] = @ + 1]
    /\ slides' = slides + 1
    /\ UNCHANGED <<req, ready, stream, up, stored, outages, deletes>>

\* An operator deletes the stream; its duplicate window goes with it.
DeleteStream ==
    /\ stream /\ deletes < MaxDelete
    /\ stream' = FALSE /\ deletes' = deletes + 1
    /\ window' = {}
    /\ era' = [e \in Event |-> IF e \in window THEN era[e] + 1 ELSE era[e]]
    /\ UNCHANGED <<req, ready, up, stored, outages, slides>>

Next ==
    \/ \E r \in Req : Post(r) \/ Publish(r) \/ PublishFails(r)
    \/ Readyz \/ EnsureStream \/ EnsureStreamFails
    \/ Outage \/ Recover \/ DeleteStream
    \/ \E e \in Event : WindowSlides(e)

Spec == Init /\ [][Next]_vars

\* The outbox posts again, an await of the bridge ends, JetStream comes back.
Fairness ==
    /\ \A r \in Req : WF_vars(Post(r)) /\ WF_vars(Publish(r) \/ PublishFails(r))
    /\ WF_vars(EnsureStream \/ EnsureStreamFails)
    /\ WF_vars(Recover)

LiveSpec == Spec /\ Fairness

------------------------------------------------------------------------------
(* Properties                                                               *)

Stored(e) == \E i \in DOMAIN stored : stored[i].ev = e

\* A webhook is answered with 202 only when its event is in the stream: the outbox then
\* forgets it ("JetStream publish failure returns non-2xx so taskboard retries").
AcceptedIsStored ==
    \A r \in Req : req[r] = "202" => Stored(Attr[r].ev)

\* An event is stored once for as long as its id is in the duplicate window, however many
\* webhooks carry it and however many answers are lost ("replayed webhook ... creates no
\* duplicate side effect").
StoredOncePerWindow ==
    \A i, j \in DOMAIN stored : stored[i] = stored[j] => i = j

\* Only webhooks that are signed, fresh and well formed put an event into the stream.
OnlyGenuineStored ==
    \A i \in DOMAIN stored : \E r \in Req :
        /\ Attr[r].ev = stored[i].ev
        /\ Attr[r].signature = "good" /\ Attr[r].timestamp = "fresh" /\ WellFormed(r)

\* What the bridge stores: every event it accepted, once per duplicate window, genuine ones only
\* (handleRequest with the event id as the message id).
BridgeSafe == AcceptedIsStored /\ StoredOncePerWindow /\ OnlyGenuineStored

\* A genuine webhook is accepted in the end, whatever outages it meets on the way and also
\* when the stream could not be ensured at the first attempt.  The one exception is a stream
\* that an operator deletes behind the fulfilled promise: nothing makes it again.
EventuallyAccepted ==
    <>(\A r \in Req : Genuine(r) => req[r] = "202" \/ (ready = "ok" /\ ~stream))

==============================================================================
