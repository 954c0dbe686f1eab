------------------------------- MODULE MCBus --------------------------------
(* The bus between channels, in three scenes of which a behaviour plays one: *)
(* handlers that verify with the shared key cache, the sending side, and the *)
(* receiving side under a flood of messages it must refuse.                  *)
EXTENDS A2AInbox, TLC

CONSTANTS
    Handler, MaxKey, Ttl, Timeout, MaxTime,
    Call, Menu, Self, SigAlg, Cost, GlobalCap, GlobalRate, PeerCap, PeerRate, MaxTracked, MaxClock,
    d1, t1, b1, b2, b3

VARIABLES
    scene,
    now, redisKey, until, issued, cache, exp, phase, sig, sentAt, got, outcome, doneAt, clean,
    menu, clock, global, peers, what, answer, onWire, ops, registry, granted, since, scopes, opLost,
    outAt, outFaults

Keys == INSTANCE A2AVerifyKeys
Out  == INSTANCE A2ASend WITH now <- clock, MaxTime <- MaxClock, at <- outAt, faults <- outFaults

ASSUME KeysAssume == Keys!KeysAssumption
ASSUME SendAssume == Out!SendAssumption

-----------------------------------------------------------------------------
(* What is sent: valid messages to three peers and a topic, one of every way a send can be  *)
(* invalid, bodies full of separators, and three announcements of one skill.                *)

Good == [to |-> "p1", topic |-> FALSE, bodyKind |-> "ok", body |-> <<"a">>, type |-> "none",
         corrKind |-> "none", corr |-> <<>>, thread |-> "none", ttl |-> "none", attrs |-> "none"]
Invalid == {[Good EXCEPT !.to = "bad"], [Good EXCEPT !.to = "me"],
            [Good EXCEPT !.bodyKind = "nonstring"], [Good EXCEPT !.bodyKind = "large"],
            [Good EXCEPT !.type = "other"], [Good EXCEPT !.type = "reply"],
            [Good EXCEPT !.corrKind = "ok"], [Good EXCEPT !.type = "reply", !.corrKind = "long"],
            [Good EXCEPT !.thread = "long"], [Good EXCEPT !.ttl = "fraction"],
            [Good EXCEPT !.attrs = "reserved"], [Good EXCEPT !.attrs = "array"]}
Text == UNION {[1..n -> {"|", "\\"}] : n \in 0..2}
Replies == {[Good EXCEPT !.type = "reply", !.corrKind = "ok", !.corr = c, !.body = b] :
                c \in Text \ {<<>>}, b \in Text}
Valid == {Good, [Good EXCEPT !.to = "p2", !.ttl = "ok", !.attrs = "ok"],
          [Good EXCEPT !.to = "p3", !.thread = "empty"], [Good EXCEPT !.to = "t1", !.topic = TRUE]}
Announced == {[name |-> "s1", universal |-> FALSE, front |-> "none", big |-> FALSE],
              [name |-> "s1", universal |-> TRUE, front |-> "none", big |-> FALSE],
              [name |-> "s1", universal |-> FALSE, front |-> "global", big |-> TRUE]}
MCMenu == {[args |-> Valid, skills |-> {}], [args |-> {Good} \cup Invalid, skills |-> {}],
           [args |-> {}, skills |-> Announced]}
          \cup {[args |-> {r}, skills |-> {}] : r \in Replies}

\* What is received: a forgery, a message cut short and a broadcast of our own that comes back.
MCFlaw == [m \in Direct \cup Topic |->
              CASE m = b1 -> "badsig" [] m = b2 -> "malformed" [] m = b3 -> "self"
                [] OTHER -> "none"]

Symmetry == Permutations(Handler)

-----------------------------------------------------------------------------
keysVars == <<now, redisKey, until, issued, cache, exp, phase, sig, sentAt, got, outcome, doneAt,
              clean>>
outVars == <<menu, clock, global, peers, outAt, what, answer, onWire, ops, registry, outFaults,
             granted, since, scopes, opLost>>
outOff ==
    /\ menu = 0 /\ clock = 0 /\ global = 0 /\ peers = 0 /\ outAt = 0 /\ what = 0 /\ answer = 0
    /\ onWire = 0 /\ ops = 0 /\ registry = 0 /\ outFaults = 0 /\ granted = 0 /\ since = 0
    /\ scopes = 0 /\ opLost = 0

\* The receiving side and the keys wait in their initial states, the sending side is 0.
MCInit ==
    /\ Init /\ Keys!Init
    /\ \/ scene \in {"keys", "in"} /\ outOff
       \/ scene = "out" /\ Out!Init

MCNext ==
    /\ UNCHANGED scene
    /\ \/ scene = "keys" /\ Keys!Next /\ UNCHANGED <<vars, outVars>>
       \/ scene = "out" /\ Out!Next /\ UNCHANGED <<vars, keysVars>>
       \/ scene = "in" /\ Next /\ UNCHANGED <<keysVars, outVars>>

MCSpec == MCInit /\ [][MCNext]_<<scene, vars, keysVars, outVars>>

-----------------------------------------------------------------------------
\* Keys: however handlers and rotations interleave, no message is accepted under a key that was
\* gone for longer than the cache and a fetch may take, and none is rejected without a cause.
BoundedStaleness == Keys!BoundedStaleness
NoFalseReject == Keys!NoFalseReject

\* The sending side: the token buckets let through exactly what their rates allow though idle
\* ones are evicted; what goes on the wire is what was accepted; the signed canonical string
\* decodes to one envelope; and the skill registry holds the last announcement of a name.
SendSafe ==
    scene = "out" =>
        Out!RateExact /\ Out!SentIsAccepted /\ Out!CanonicalDecodes /\ Out!RegistryFollows
=============================================================================
