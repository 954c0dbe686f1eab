------------------------------ MODULE UdsFrame ------------------------------
(***************************************************************************)
(* The framing of the Unix socket (src/uds_frame.ts) and its use by a      *)
(* connection (src/uds_acceptor.ts): a FrameWriter with a control and an   *)
(* MCP lane writes length-prefixed frames to a socket that may accept only *)
(* part of what it is given; a FrameDecoder rebuilds them from chunks of   *)
(* any size.  The module is shown to implement FrameLanes.                 *)
(*                                                                         *)
(* A frame's bytes are <<f, 1>>, <<f, 2>>, ...: HeaderBytes of length, one *)
(* of type, then the payload.  pumpLoop is synchronous, so one step writes *)
(* as much of the backlog as the socket takes.                             *)
(***************************************************************************)
EXTENDS Sequences, Naturals, FiniteSets, SequencesExt, TLC

CONSTANTS Frame,        \* frames the program may send
          Lane,         \* Lane[f]: "ctrl" or "mcp"
          Size,         \* Size[f]: payload bytes of f
          Alien,        \* malformed frames of a peer that is not a FrameWriter
          Fault,        \* Fault[x]: "length" or "type", what is wrong with x \in Alien
          SizeCap,      \* FRAME_LENGTH_CAP, as a payload size
          HighWater,    \* items the writer may hold
          MaxBytes,     \* bytes the writer may hold
          MaxFaults     \* bound: connection failures and malformed frames

ASSUME UdsFrameAssumption ==
    /\ Lane \in [Frame -> {"ctrl", "mcp"}]
    /\ Size \in [Frame -> Nat] /\ Fault \in [Alien -> {"length", "type"}]
    /\ Frame \cap Alien = {}
    /\ HighWater \in Nat \ {0} /\ {SizeCap, MaxBytes, MaxFaults} \subseteq Nat

HeaderBytes == 2
TypeBytes == 1
None == <<>>

VARIABLES queue,    \* ctrlQueue and mcpQueue: queue[l], whole frames not yet started
          current,  \* currentCtrl or currentMcp: None, or <<f, bytes of f accepted>>
          paused,   \* a short write stopped the pump until the socket drains
          failed,   \* the writer failed: its queues are gone, every later call throws
          closing,  \* the connection's phase is 'closed': write() accepts nothing
          result,   \* result[f]: what became of the call that sent f
          wire,     \* bytes the socket accepted and the receiver has not read
          buf,      \* bytes in the decoder
          armed,    \* the receiver's read-progress timer runs
          rxOpen,   \* the receiver still reads
          got,      \* frames the receiver routed
          ahead,    \* history: ahead[f], the MCP frames a control frame f must overtake
          faults

writer == <<queue, current, paused, failed, closing, result, ahead>>
reader == <<buf, armed, rxOpen, got>>
vars == <<writer, reader, wire, faults>>

Lanes == {"ctrl", "mcp"}
Results == {"none", "queued", "waiting", "resolved", "rejected", "threw"}

WireLen(f) == HeaderBytes + TypeBytes + (IF f \in Alien THEN 0 ELSE Size[f])

\* encodeFrame: length, type, payload; a payload beyond the cap is refused.
Encodable(f) == Size[f] <= SizeCap

encodeFrame(f) == [i \in 1..WireLen(f) |-> <<f, i>>]

Bytes(fs) == FlattenSeq([i \in 1..Len(fs) |-> encodeFrame(fs[i])])

\* The rest of the frame in progress comes first: a frame is written contiguously.
InProgress == IF current = None THEN <<>>
              ELSE SubSeq(encodeFrame(current[1]), current[2] + 1, WireLen(current[1]))

\* Mutant of Backlog: MCP frames come before control frames.
McpFirst(q) == InProgress \o Bytes(q["mcp"]) \o Bytes(q["ctrl"])

\* pumpLoop's order: the frame in progress, then control frames, then MCP frames.
Backlog(q) == InProgress \o Bytes(q["ctrl"]) \o Bytes(q["mcp"])

PendingItems == Len(queue["ctrl"]) + Len(queue["mcp"]) + (IF current = None THEN 0 ELSE 1)
QueuedBytes == Len(Backlog(queue))

Waiting(r) == {f \in Frame : r[f] = "waiting"}
Settle(r, v) == [f \in Frame |-> IF f \in Waiting(r) THEN v ELSE r[f]]

\* fail(): nothing more is written and every drain() in progress rejects.
fail(r) ==
    /\ failed' = TRUE
    /\ paused' = FALSE
    /\ queue' = [l \in Lanes |-> <<>>]
    /\ current' = None
    /\ result' = Settle(r, "rejected")

\* Mutant of pumpLoop: a short write settles the drains all the same.
PumpResolvesEarly(q, all, r, n) ==
    LET left == SubSeq(all, n + 1, Len(all))
    IN /\ wire' = wire \o SubSeq(all, 1, n)
       /\ paused' = (left # <<>>)
       /\ current' = IF left = <<>> THEN None ELSE <<left[1][1], left[1][2] - 1>>
       /\ queue' = [l \in Lanes |->
                       SelectSeq(q[l], LAMBDA g : \E j \in 2..Len(left) : left[j] = <<g, 1>>)]
       /\ result' = Settle(r, "resolved")
       /\ UNCHANGED failed

\* Mutant of pumpLoop: after a short write the frame starts over.
PumpStartsOver(q, all, r, n) ==
    LET left == SubSeq(all, n + 1, Len(all))
    IN /\ wire' = wire \o SubSeq(all, 1, n)
       /\ paused' = (left # <<>>)
       /\ current' = IF left = <<>> THEN None ELSE <<left[1][1], 0>>
       /\ queue' = [l \in Lanes |->
                       SelectSeq(q[l], LAMBDA g : \E j \in 2..Len(left) : left[j] = <<g, 1>>)]
       /\ result' = IF left = <<>> THEN Settle(r, "resolved") ELSE r
       /\ UNCHANGED failed

\* pumpLoop with the queues q (their bytes: all) and the calls r: the socket accepts n bytes.  Short of
\* the whole backlog, the writer pauses inside (or just before) a frame; else
\* resolveIdle() settles every drain().
pumpLoop(q, all, r, n) ==
    LET left == SubSeq(all, n + 1, Len(all))
    IN /\ wire' = wire \o SubSeq(all, 1, n)
       /\ paused' = (left # <<>>)
       /\ current' = IF left = <<>> THEN None ELSE <<left[1][1], left[1][2] - 1>>
       /\ queue' = [l \in Lanes |->
                       SelectSeq(q[l], LAMBDA g : \E j \in 2..Len(left) : left[j] = <<g, 1>>)]
       /\ result' = IF left = <<>> THEN Settle(r, "resolved") ELSE r
       /\ UNCHANGED failed

\* The socket accepts a part of the backlog, nothing once the connection closes.  It may
\* also throw, which tears the connection down, or answer with an error count, on which
\* the writer fails.
Pump(q, r) ==
    LET all == Backlog(q)
    IN \E n \in 0..(IF closing THEN 0 ELSE Len(all)) :
        \/ pumpLoop(q, all, r, n) /\ UNCHANGED <<closing, faults>>
        \/ /\ faults < MaxFaults /\ n < Len(all)
           /\ faults' = faults + 1
           /\ \/ pumpLoop(q, all, r, n) /\ closing' = TRUE
              \/ fail(r) /\ wire' = wire \o SubSeq(all, 1, n) /\ UNCHANGED closing

Init ==
    /\ queue = [l \in Lanes |-> <<>>] /\ current = None
    /\ paused = FALSE /\ failed = FALSE /\ closing = FALSE
    /\ result = [f \in Frame |-> "none"]
    /\ wire = <<>> /\ buf = <<>> /\ got = <<>>
    /\ armed = FALSE /\ rxOpen = TRUE
    /\ ahead = [f \in Frame |-> {}]
    /\ faults = 0

-----------------------------------------------------------------------------
(* The sender. *)

\* enqueue() throws: the writer failed before, or the frame is too large.
SendThrows(f) ==
    /\ failed \/ ~Encodable(f)
    /\ result' = [result EXCEPT ![f] = "threw"]
    /\ UNCHANGED <<queue, current, paused, failed, closing, ahead, reader, wire, faults>>

\* The writer is full: onOverflow() tears the connection down and the writer fails.
\* A sender that drains learns of it, as do those already waiting.
Overflow(f) ==
    /\ ~failed /\ Encodable(f)
    /\ PendingItems >= HighWater \/ QueuedBytes + WireLen(f) > MaxBytes
    /\ closing' = TRUE
    /\ fail([result EXCEPT ![f] = IF Lane[f] = "mcp" THEN "waiting" ELSE "queued"])
    /\ UNCHANGED <<ahead, reader, wire, faults>>

\* enqueue() on a writer with room, then drain() for an MCP frame.
Accepted(f) ==
    /\ ~failed /\ Encodable(f)
    /\ PendingItems < HighWater /\ QueuedBytes + WireLen(f) <= MaxBytes
    /\ LET q == [queue EXCEPT ![Lane[f]] = Append(@, f)]
           r == [result EXCEPT ![f] = IF Lane[f] = "mcp" THEN "waiting" ELSE "queued"]
       IN IF paused
          THEN /\ queue' = q /\ result' = r
               /\ UNCHANGED <<current, paused, failed, closing, wire, faults>>
          ELSE Pump(q, r)
    /\ ahead' = [ahead EXCEPT ![f] = IF Lane[f] = "ctrl" THEN ToSet(queue["mcp"]) ELSE {}]
    /\ UNCHANGED reader

\* UdsServerTransport.send, makeUdsInject (MCP frames) and sendCtrl (control frames).
Send(f) ==
    /\ result[f] = "none"
    /\ SendThrows(f) \/ Overflow(f) \/ Accepted(f)

\* The socket can accept more: onWritableDrain() calls resume().
Resume ==
    /\ paused /\ ~failed /\ ~closing
    /\ Pump(queue, result)
    /\ UNCHANGED <<ahead, reader>>

\* A connection error, a peer that left: teardown() sets the phase at once.
Disconnect ==
    /\ ~closing
    /\ \/ ~rxOpen /\ UNCHANGED faults
       \/ faults < MaxFaults /\ faults' = faults + 1
    /\ closing' = TRUE
    /\ UNCHANGED <<queue, current, paused, failed, result, ahead, reader, wire>>

\* Mutant of Close: teardown() leaves the writer alone.
CloseForgotten == FALSE

\* teardown() goes on after its first await: writer.close() fails the writer.
Close ==
    /\ closing /\ ~failed
    /\ fail(result)
    /\ UNCHANGED <<closing, ahead, reader, wire, faults>>

-----------------------------------------------------------------------------
(* The receiver. *)

\* A peer with a writer of its own puts a malformed frame on the stream.
Malformed(x) ==
    /\ faults < MaxFaults /\ ~failed
    /\ current # None => current[2] = 0
    /\ faults' = faults + 1
    /\ wire' = wire \o encodeFrame(x)
    /\ UNCHANGED <<writer, reader>>

\* assertFrameLength and toFrameType: a bad length shows with the header, a bad type
\* with the byte after it.
Visible(b) ==
    \E x \in Alien : \E j \in 1..Len(b) :
        b[j] = <<x, IF Fault[x] = "length" THEN HeaderBytes ELSE HeaderBytes + TypeBytes>>

\* The decoder reads the length of the frame at the front of its buffer.
Complete(b) == Len(b) >= HeaderBytes /\ Len(b) >= WireLen(b[1][1])

\* The decoder or the timer fails the connection: what was buffered is lost.
StopReading ==
    /\ rxOpen' = FALSE
    /\ buf' = <<>>
    /\ armed' = FALSE
    /\ UNCHANGED got

\* onData: push() appends the chunk.  It throws on a malformed frame, and then even the
\* complete frames before it in the buffer are lost.
Receive(k) ==
    /\ rxOpen /\ ~Complete(buf)
    /\ LET b == buf \o SubSeq(wire, 1, k)
       IN IF Visible(b) THEN StopReading
          ELSE /\ buf' = b
               /\ armed' = IF Complete(b) THEN armed ELSE TRUE
               /\ UNCHANGED <<rxOpen, got>>
    /\ wire' = SubSeq(wire, k + 1, Len(wire))
    /\ UNCHANGED <<writer, faults>>

\* The frame a decoder builds out of the bytes it takes for one.
Decoded(b) == IF b = encodeFrame(b[1][1]) THEN b[1][1] ELSE "garbled"

\* onData goes on: routeFrame for each complete frame, and updateIdle() after the last.
\* The timer stops only when no partial frame is left behind.
Route ==
    /\ rxOpen /\ Complete(buf)
    /\ LET n == WireLen(buf[1][1])
           rest == SubSeq(buf, n + 1, Len(buf))
       IN /\ got' = Append(got, Decoded(SubSeq(buf, 1, n)))
          /\ buf' = rest
          /\ armed' = IF Complete(rest) THEN armed ELSE rest # <<>>
    /\ UNCHANGED <<writer, wire, rxOpen, faults>>

\* Mutant of IdleTimeout: the timer is armed and never fires.
IdleIgnored == FALSE

\* The partial frame was not completed in time.
IdleTimeout ==
    /\ rxOpen /\ armed /\ ~Complete(buf)
    /\ StopReading
    /\ UNCHANGED <<writer, wire, faults>>

Next ==
    \/ \E f \in Frame : Send(f)
    \/ Resume
    \/ Disconnect
    \/ Close
    \/ \E x \in Alien : Malformed(x)
    \/ \E k \in 1..Len(wire) : Receive(k)
    \/ Route
    \/ IdleTimeout

\* The socket of a peer that reads drains and takes bytes (no timer of the writer bounds
\* the wait for one that does not); a teardown goes on; a timer fires.
Progress == Resume /\ Len(Backlog(queue)') < Len(Backlog(queue))

Fairness == /\ WF_vars(Progress)
            /\ WF_vars(Close)
            /\ WF_vars(Route)
            /\ WF_vars(IdleTimeout)

Spec == Init /\ [][Next]_vars /\ Fairness

-----------------------------------------------------------------------------
(* Properties. *)

\* The frames of lane l that are on their way: those whose last byte the socket or the
\* decoder holds or the writer will still write, then those not yet started.
OnTheWay(l) ==
    LET ends == SelectSeq(buf \o wire \o InProgress,
                          LAMBDA b : b[1] \in Frame /\ b[2] = WireLen(b[1]) /\ Lane[b[1]] = l)
    IN IF rxOpen THEN [i \in 1..Len(ends) |-> ends[i][1]] \o queue[l] ELSE <<>>

FL == INSTANCE FrameLanes
          WITH fresh <- {f \in Frame : result[f] = "none"},
               lane <- [l \in Lanes |-> OnTheWay(l)]

\* Short writes, pauses, chunks cut anywhere and priorities between the lanes change
\* nothing of what the two lanes promise: the writer and the decoder implement them.
ImplementsLanes == FL!Spec

\* A control frame is delayed by at most the one MCP frame in progress: MCP frames that
\* still waited when it was enqueued reach the peer after it.
CtrlOvertakes ==
    \A c \in Frame : \A g \in ahead[c] : \A j \in 1..Len(got) :
        got[j] = g => \E i \in 1..(j - 1) : got[i] = c

\* A drain() resolves only when the socket holds the caller's whole frame: unless the
\* peer stopped reading, the frame is received or entirely under way.
FlushMeansWritten ==
    \A f \in Frame : result[f] = "resolved" =>
        \/ ~rxOpen
        \/ f \in ToSet(got)
        \/ <<f, WireLen(f)>> \in ToSet(buf \o wire)

\* Every drain() settles: a paused writer resumes with the socket's drain event, and a
\* teardown that catches it paused rejects it (writer.close()) instead of leaking it.
SendSettles == []<>(Waiting(result) = {})

\* A peer that announces a frame and dribbles does not hold the buffer for ever: the
\* frame is completed or the read-progress timer ends the connection.
ReadProgress == []<>(buf = <<>>)
=============================================================================
