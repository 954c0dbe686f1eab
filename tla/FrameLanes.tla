----------------------------- MODULE FrameLanes -----------------------------
(***************************************************************************)
(* What the framed Unix socket between a core and a shim promises: two     *)
(* lanes, "ctrl" and "mcp", each of which delivers the frames sent on it   *)
(* in the order they were sent, whole, and at most once.  The lanes are    *)
(* not ordered against each other.  When the connection fails, each lane   *)
(* loses frames from its end, never one from the middle.                   *)
(***************************************************************************)
EXTENDS Sequences, Naturals, SequencesExt

CONSTANTS Frame,    \* the frames the two ends may exchange
          Lane      \* Lane[f]: "ctrl" or "mcp"

VARIABLES fresh,    \* frames nobody has sent yet
          lane,     \* per lane, the frames sent and not yet received
          got       \* the frames received, in order

vars == <<fresh, lane, got>>

Lanes == {"ctrl", "mcp"}

Init == /\ fresh = Frame
        /\ lane = [l \in Lanes |-> <<>>]
        /\ got = <<>>

\* A sender hands a frame over.
Send(f) ==
    /\ f \in fresh
    /\ fresh' = fresh \ {f}
    /\ lane' = [lane EXCEPT ![Lane[f]] = Append(@, f)]
    /\ UNCHANGED got

\* The receiver gets the first frame of a lane.
Deliver(l) ==
    /\ lane[l] # <<>>
    /\ got' = Append(got, Head(lane[l]))
    /\ lane' = [lane EXCEPT ![l] = Tail(@)]
    /\ UNCHANGED fresh

\* The connection fails, or refuses a frame.
Lose ==
    /\ fresh' \subseteq fresh
    /\ \A l \in Lanes : IsPrefix(lane'[l], lane[l])
    /\ UNCHANGED got

Next == \/ \E f \in Frame : Send(f)
        \/ \E l \in Lanes : Deliver(l)
        \/ Lose

Spec == Init /\ [][Next]_vars
=============================================================================
