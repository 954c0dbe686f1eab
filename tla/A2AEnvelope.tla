---------------------------- MODULE A2AEnvelope -----------------------------
(***************************************************************************)
(* The pure rules of a2a-channel.ts: the canonical string a signature is   *)
(* computed over, the validation of a send (V2-V6), the structural check   *)
(* of an inbound envelope, the verification of its signature, and the      *)
(* scope of a skill announcement.                                          *)
(*                                                                         *)
(* The free-form fields of an envelope (id, corr, body) are sequences of   *)
(* characters, since a separator inside them is what the canonical string  *)
(* must survive; a token such as a sender or a type is one character.  The *)
(* other arguments of a send are abstracted to the classes the checks tell *)
(* apart: absent ("none"), acceptable ("ok") and each way to be wrong.     *)
(***************************************************************************)
EXTENDS Integers, Sequences, FiniteSets, SequencesExt

Esc == "\\"
Bar == "|"

\* Mutant of escField: only the separator is escaped.
escFieldBarOnly(s) ==
    FlattenSeq([i \in DOMAIN s |-> IF s[i] = Bar THEN <<Esc, s[i]>> ELSE <<s[i]>>])

\* escField(): a backslash before every backslash and every separator.
escField(s) ==
    FlattenSeq([i \in DOMAIN s |-> IF s[i] \in {Esc, Bar} THEN <<Esc, s[i]>> ELSE <<s[i]>>])

\* The fields a signature covers, in their fixed order; absent ones are empty.
SignedFields(e) ==
    << <<"1">>, e.id, <<e.from>>, <<e.to>>, <<e.type>>, e.corr, <<"ts">>,
       IF e.ttl = "none" THEN <<>> ELSE <<e.ttl>>, e.body >>

canonical(e) ==
    LET fs == SignedFields(e)
    IN  FlattenSeq([i \in DOMAIN fs |-> (IF i = 1 THEN <<>> ELSE <<Bar>>) \o escField(fs[i])])

\* Reference: what a reader of the format makes of a canonical string.  A character is quoted when
\* an odd run of backslashes ends just before it; unquoted separators end a field.
Quoted(s, i) ==
    \E k \in 1..(i - 1) : /\ \A j \in (i - k)..(i - 1) : s[j] = Esc
                          /\ i - k = 1 \/ s[i - k - 1] # Esc
                          /\ k % 2 = 1
Ordered(S) == [k \in 1..Cardinality(S) |-> CHOOSE x \in S : Cardinality({y \in S : y <= x}) = k]
Fields(s) ==
    LET ends == Ordered({i \in DOMAIN s : s[i] = Bar /\ ~Quoted(s, i)} \cup {Len(s) + 1})
        piece(n) == (IF n = 1 THEN 1 ELSE ends[n - 1] + 1)..(ends[n] - 1)
        kept(n) == Ordered({i \in piece(n) : s[i] # Esc \/ Quoted(s, i)})
    IN  [n \in DOMAIN ends |-> [j \in DOMAIN kept(n) |-> s[kept(n)[j]]]]

-----------------------------------------------------------------------------
\* Sending.

\* Mutant of TtlOk: any number up to the limit will do.
TtlOkAnyNumber(ttl) == ttl # "high"

\* A ttl_ms is absent or an integer between one second and seven days.
TtlOk(ttl) == ttl \in {"none", "ok"}

\* A correlation id or thread is absent or a short string.
ShortText(c) == c \in {"none", "empty", "ok"}

\* validateSendArgs(): "ok" or the first error, in the order of the code.
validateSendArgs(a, self) ==
    IF a.to = "bad" THEN "bad_recipient"
    ELSE IF ~a.topic /\ a.to = self THEN "self_send"
    ELSE IF a.bodyKind = "nonstring" THEN "bad_body"
    ELSE IF a.bodyKind = "large" THEN "body_too_large"
    ELSE IF a.type = "other" THEN "bad_type"
    ELSE IF a.type = "reply" /\ a.corrKind \in {"none", "empty"} THEN "bad_corr"
    ELSE IF a.type # "reply" /\ a.corrKind # "none" THEN "bad_corr"
    ELSE IF ~ShortText(a.corrKind) THEN "bad_corr"
    ELSE IF ~ShortText(a.thread) THEN "bad_thread"
    ELSE IF ~TtlOk(a.ttl) THEN "bad_ttl"
    ELSE IF a.attrs = "array" THEN "bad_attrs"
    ELSE IF a.attrs = "reserved" THEN "reserved_attr"
    ELSE IF a.attrs = "nonstring" THEN "bad_attrs"
    ELSE "ok"

\* The envelope send() builds: the bridge fills id and from, an empty thread is left out.
Envelope(a, self, id) ==
    [id |-> id, from |-> self, to |-> a.to, topic |-> a.topic, body |-> a.body,
     type |-> IF a.type = "none" THEN "msg" ELSE a.type,
     corr |-> IF a.type = "reply" THEN a.corr ELSE <<>>,
     corrKind |-> IF a.type = "reply" THEN a.corrKind ELSE "none",
     thread |-> IF a.thread = "empty" THEN "none" ELSE a.thread,
     ttl |-> a.ttl, attrs |-> a.attrs, alg |-> "none", sig |-> <<>>]

-----------------------------------------------------------------------------
\* Receiving.

\* isValidInbound(): the structure the receiver insists on.
isValidInbound(e) ==
    /\ Len(e.id) > 0
    /\ e.from # "bad" /\ e.to # "bad"
    /\ e.type \in {"msg", "request", "reply"}
    /\ IF e.type = "reply" THEN e.corrKind \in {"empty", "ok"} ELSE e.corrKind = "none"
    /\ e.ttl \in {"none", "ok"}
    /\ ShortText(e.thread)
    /\ e.attrs \notin {"array", "nonstring"}

\* signCanonical(): a signature is the algorithm, the key and the string it was made over.
signCanonical(alg, key, canon) == <<alg, key, canon>>

\* verifyCanonical(): only the holder of the key makes a signature that verifies.
verifyCanonical(alg, key, canon, sig) == sig = signCanonical(alg, key, canon)

\* verifyEnvelope(): the receiver's algorithm decides, and an unsigned envelope fails.
verifyEnvelope(e, key, expected) ==
    /\ e.sig # <<>>
    /\ e.alg = expected
    /\ verifyCanonical(expected, key, canonical(e), e.sig)

-----------------------------------------------------------------------------
\* Skills.

\* classifySkillScope(): a "universal" tag, or a scope line in the leading front matter.
classifySkillScope(skill) ==
    IF skill.universal \/ skill.front = "global" THEN "global" ELSE "tagged"
=============================================================================
