----------------------------- MODULE MCA2AInbox -----------------------------
(* Two direct messages and a broadcast that matter, and three to refuse.     *)
EXTENDS A2AInbox, TLC

CONSTANTS d1, d2, t1, b1, b2, b3

\* A forgery, a broadcast of our own that comes back, and one cut short.
MCFlaw ==
    [m \in Msg |-> CASE m = b1 -> "badsig"
                     [] m = b2 -> "malformed"
                     [] m = b3 -> "self"
                     [] OTHER  -> "none"]
=============================================================================
