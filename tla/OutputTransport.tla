-------------------------- MODULE OutputTransport --------------------------
(***************************************************************************)
(* output_transport.ts: how a text is fitted into a message body of at     *)
(* most bodyCap bytes.  A text is a sequence of characters; a character is  *)
(* a record of the bytes it takes in UTF-8 (u8) and inside a JSON string    *)
(* (js), which is all the code measures.  A body is a text in an envelope,   *)
(* so a wrapper of the code is the number of bytes it adds to the text.     *)
(* The two binary searches are written as the code runs them, and compared  *)
(* with the definition of what they look for in the runs that use them.     *)
(***************************************************************************)
EXTENDS Integers, Sequences, SequencesExt, FiniteSetsExt

\* utf8ByteLength: the bytes of a text on the wire.
utf8ByteLength(s) ==
    LET upTo[i \in 0..Len(s)] == IF i = 0 THEN 0 ELSE upTo[i - 1] + s[i].u8 IN upTo[Len(s)]

\* The bytes of a text inside a JSON string (quotes, newlines and controls are escaped).
jsonBytes(s) ==
    LET upTo[i \in 0..Len(s)] == IF i = 0 THEN 0 ELSE upTo[i - 1] + s[i].js IN upTo[Len(s)]

\* The 0-based byte offsets at which a character of s starts (the end included).
Boundaries(s) == {utf8ByteLength(SubSeq(s, 1, i)) : i \in 0..Len(s)}

\* Buffer.toString(0, end): the characters wholly in the first `end` bytes, and the (three-byte)
\* replacement character for one that is cut.
Replacement == [u8 |-> 3, js |-> 3]
decoded(s, end) ==
    LET whole == SubSeq(s, 1, Max({i \in 0..Len(s) : utf8ByteLength(SubSeq(s, 1, i)) <= end}))
    IN  IF end \in Boundaries(s) THEN whole ELSE Append(whole, Replacement)

\* Mutant of cutPoint: no back-off, so a cut inside a character stays there.
cutPointRaw(s, maxBytes) == maxBytes

\* truncateToBytes, the loop: back off while the first excluded byte continues a character.
cutPoint(s, maxBytes) ==
    LET down[end \in 0..maxBytes] ==
            IF end > 0 /\ end \notin Boundaries(s) THEN down[end - 1] ELSE end
    IN  down[maxBytes]

\* truncateToBytes
truncateToBytes(s, maxBytes) ==
    CASE utf8ByteLength(s) <= maxBytes -> s
      [] utf8ByteLength(s) > maxBytes /\ maxBytes <= 0 -> <<>>
      [] OTHER -> decoded(s, cutPoint(s, maxBytes))

\* The binary search of fitPreview, fitTruncate and buildClaimCheckedInput: the last mid tried
\* that fitted, or -1.
Searched(top, fitting) ==
    LET go[lo \in 0..(top + 1), hi \in -1..top, best \in -1..top] ==
            IF lo > hi THEN best
            ELSE LET mid == (lo + hi) \div 2
                 IN  IF mid \in fitting THEN go[mid + 1, hi, mid] ELSE go[lo, mid - 1, best]
    IN  go[0, top, -1]

\* The budgets up to top whose prefix, in a wrapper of `extra` bytes, fits.
Fitting(full, bodyCap, extra, top) ==
    {mid \in 0..top : extra + jsonBytes(truncateToBytes(full, mid)) <= bodyCap}

\* The search of fitTruncate (all of the text) and of fitPreview (previewBytes of it).
largest(full, bodyCap, extra, top) == Searched(top, Fitting(full, bodyCap, extra, top))

\* fitTruncate: the largest prefix whose explicit-truncation reply fits, empty if none does.
fitTruncate(full, bodyCap, truncWrap) ==
    [kind |-> "truncate",
     head |-> LET best == largest(full, bodyCap, truncWrap, utf8ByteLength(full))
              IN  IF best < 0 THEN <<>> ELSE truncateToBytes(full, best)]

\* fitPreview: the budget of the largest marked preview that fits, or -1.
fitPreview(full, bodyCap, refWrap, previewBytes) ==
    largest(full, bodyCap, refWrap, Min({previewBytes, utf8ByteLength(full)}))

\* planReply: inline, else claim check (no caller forbids it), else explicit truncation.
planReply(full, bodyCap, wrap, refWrap, truncWrap, previewBytes) ==
    IF wrap + jsonBytes(full) <= bodyCap THEN [kind |-> "inline", head |-> full]
    ELSE LET budget == fitPreview(full, bodyCap, refWrap, previewBytes)
         IN  IF budget >= 0
             THEN [kind |-> "claimcheck", head |-> truncateToBytes(full, budget)]
             ELSE fitTruncate(full, bodyCap, truncWrap)

\* getBlob, by what the store answers (st) for a reference carrying sha256 and len.
getBlob(val, ref) ==
    IF ref.sha256 = "none" THEN "no_sha"
    ELSE IF val.st # "value" THEN val.st     \* "error" (or a timeout), "missing"
    ELSE IF val.len # ref.len THEN "len"
    ELSE IF val.sha256 # ref.sha256 THEN "checksum" ELSE "ok"

=============================================================================
