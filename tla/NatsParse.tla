----------------------------- MODULE NatsParse -----------------------------
(***************************************************************************)
(* ngx_nats_parse (src/src/ngx_nats_protocol.c): the first protocol        *)
(* message in a run of bytes, or the verdict that it is not complete yet   *)
(* or not valid.                                                           *)
(*                                                                         *)
(* Text is a sequence of atoms.  A header word (in whatever case) is one   *)
(* atom and so is a word of a subject or of a payload; the bytes that the  *)
(* parser tells apart are atoms of their own: blanks, quotes, backslashes  *)
(* and digits.  Positions count from 1.  A word cut in two by recv() is a  *)
(* word that has not come: the parser answers AGAIN to both.               *)
(***************************************************************************)
EXTENDS Integers, Sequences, SequencesExt

Again         == -1    \* NGX_NATS_PROTO_AGAIN
InvalidHeader == -3
InvalidMsg    == -4

Quotes == {"SQ", "DQ"}
Digits == [d \in {"0", "1", "2", "3", "4", "5", "6", "7", "8", "9"} |->
             CASE d = "0" -> 0 [] d = "1" -> 1 [] d = "2" -> 2 [] d = "3" -> 3 [] d = "4" -> 4
               [] d = "5" -> 5 [] d = "6" -> 6 [] d = "7" -> 7 [] d = "8" -> 8 [] d = "9" -> 9]

\* ngx_nats_msg_t: bstart and bend are kept as the body between them
Msg(type, subject, sid, replyto, body) ==
    [type |-> type, subject |-> subject, sid |-> sid, replyto |-> replyto, body |-> body]

Word(type) == Msg(type, <<>>, 0, <<>>, <<>>)
Text(type, body) == Msg(type, <<>>, 0, <<>>, body)
WithBody(msg, body) == [msg EXCEPT !.body = body]

\* A message of rc bytes was formed, or rc says why not.
Formed(rc, msg) == [rc |-> rc, msg |-> msg]
Failed(rc)      == [rc |-> rc, msg |-> Word("none")]

\* The scanning loops: the first position from `from` on, and before end,
\* whose atom is in S (not in S), or end
Find(b, from, end, S) ==
    LET found == {p \in from .. end - 1 : b[p] \in S}
    IN  IF found = {} THEN end ELSE CHOOSE p \in found : \A o \in found : p <= o

Skip(b, from, end, S) ==
    LET found == {p \in from .. end - 1 : b[p] \notin S}
    IN  IF found = {} THEN end ELSE CHOOSE p \in found : \A o \in found : p <= o

End(b) == Len(b) + 1

-----------------------------------------------------------------------------
\* _nats_atoi
IsNumber(s) == s # <<>> /\ \A i \in DOMAIN s : s[i] \in DOMAIN Digits
Atoi(s)     ==
    LET value[n \in 0 .. Len(s)] == IF n = 0 THEN 0 ELSE value[n - 1] * 10 + Digits[s[n]]
    IN  value[Len(s)]

NoToken == 0    \* _NATS_PARSE_ERR

\* The quote that ends the token that starts with a quote at ns, or NoToken
ClosingQuote(h, ns) ==
    LET scan[p \in 1 .. Len(h) + 2] ==
          IF p > Len(h) THEN NoToken
          ELSE IF h[p] = "BS" THEN scan[p + 2]
          ELSE IF h[p] = h[ns] THEN p
          ELSE scan[p + 1]
    IN  scan[ns + 1]

\* _nats_token: the token [ns, ne) of the header h, and where to look for the
\* next one
NatsToken(h, pos) ==
    LET max   == End(h)
        ns    == Skip(h, pos, max, {"SP"})
        quote == ClosingQuote(h, ns)
        ne    == Find(h, ns, max, {"SP", "CR"})
    IN  IF ns = max THEN [n |-> max, ns |-> max, ne |-> max]
        ELSE IF h[ns] \notin Quotes THEN [n |-> ne, ns |-> ns, ne |-> ne]
        ELSE IF quote = NoToken THEN [n |-> NoToken, ns |-> ns, ne |-> max]
        ELSE [n |-> quote + 1, ns |-> ns, ne |-> quote + 1]

Found(t)     == t.n # NoToken /\ t.ns < t.ne
Slice(b, t)  == SubSeq(b, t.ns, t.ne - 1)

-----------------------------------------------------------------------------
FaultyParseBare(b) ==           \* a slip to test the properties with: CR is enough
    IF b[2] # "CR" THEN Failed(InvalidMsg)
    ELSE IF Len(b) < 3 THEN Formed(2, Word(b[1]))
    ELSE IF b[3] # "LF" THEN Failed(InvalidMsg)
    ELSE Formed(3, Word(b[1]))

\* ngx_nats_parse_ok, ngx_nats_parse_ping and ngx_nats_parse_pong; the caller
\* has seen the byte after the header word
ParseBare(b) ==
    IF b[2] # "CR" THEN Failed(InvalidMsg)
    ELSE IF Len(b) < 3 THEN Failed(Again)
    ELSE IF b[3] # "LF" THEN Failed(InvalidMsg)
    ELSE Formed(3, Word(b[1]))

\* What ngx_nats_parse_err and ngx_nats_parse_info do once they have seen a
\* blank: the text starts at the first byte that is none, whatever it is.
ParseText(b, bstart) ==
    LET n == Find(b, bstart + 1, End(b), {"CR"})
    IN  IF n >= Len(b) THEN Failed(Again)
        ELSE IF b[n + 1] # "LF" THEN Failed(InvalidMsg)
        ELSE Formed(n + 1, Text(b[1], SubSeq(b, bstart, n - 1)))

\* ngx_nats_parse_err: the text is optional
ParseErr(b) ==
    LET n == Skip(b, 2, End(b), {"SP"})
    IN  IF n = End(b) THEN Failed(Again)
        ELSE IF n = 2 THEN ParseBare(b)
        ELSE ParseText(b, n)

\* ngx_nats_parse_info
ParseInfo(b) ==
    LET n == Skip(b, 2, End(b), {"SP"})
    IN  IF n = End(b) THEN Failed(Again)
        ELSE IF n = 2 THEN Failed(InvalidMsg)
        ELSE ParseText(b, n)

FaultyPayload(b, max, len, m) ==    \* another: waits for one byte too many
    LET start == max + 2
    IN  IF start + len + 1 >= Len(b) THEN Failed(Again)
        ELSE IF b[start + len] # "CR" \/ b[start + len + 1] # "LF" THEN Failed(InvalidMsg)
        ELSE Formed(start + len + 1, WithBody(m, SubSeq(b, start, start + len - 1)))

\* The payload of a MSG whose header ends with the CR at max, and its CR LF
Payload(b, max, len, m) ==
    LET start == max + 2
    IN  IF start + len + 1 > Len(b) THEN Failed(Again)
        ELSE IF b[start + len] # "CR" \/ b[start + len + 1] # "LF" THEN Failed(InvalidMsg)
        ELSE Formed(start + len + 1, WithBody(m, SubSeq(b, start, start + len - 1)))

\* The CR that ends the header of a MSG, or Len(b) if the byte after it, or
\* the CR itself, has not come
HeaderEnd(b) == Find(b, 2, Len(b), {"CR"})

\* The tokens of the header h, without its CR: MSG Subject Sid [reply-to] Len
Subject(h) == NatsToken(h, 2)
Sid(h)     == NatsToken(h, Subject(h).n)
Third(h)   == NatsToken(h, Sid(h).n)
Fourth(h)  == NatsToken(h, Third(h).n)
Fifth(h)   == NatsToken(h, Fourth(h).n)

HasReply(h) == Third(h).n < End(h) /\ Found(Fourth(h))
LenOf(h)    == Slice(h, IF HasReply(h) THEN Fourth(h) ELSE Third(h))

ValidHeader(h) ==
    /\ Found(Subject(h)) /\ Subject(h).n < End(h)
    /\ Found(Sid(h)) /\ Sid(h).n < End(h) /\ IsNumber(Slice(h, Sid(h)))
    /\ Found(Third(h))
    /\ Third(h).n < End(h) => Fourth(h).n # NoToken /\ Fifth(h).n = End(h) /\ ~Found(Fifth(h))
    /\ IsNumber(LenOf(h))

\* What it says, but for the payload
Header(h) ==
    Msg("MSG", Slice(h, Subject(h)), Atoi(Slice(h, Sid(h))),
        IF HasReply(h) THEN Slice(h, Third(h)) ELSE <<>>, <<>>)

\* ngx_nats_parse_msg
ParseMsg(b) ==
    LET max == HeaderEnd(b)
        h   == SubSeq(b, 1, max - 1)
    IN  IF b[2] # "SP" THEN Failed(InvalidMsg)
        ELSE IF max >= Len(b) THEN Failed(Again)
        ELSE IF b[max + 1] # "LF" \/ ~ValidHeader(h) THEN Failed(InvalidMsg)
        ELSE Payload(b, max, Atoi(LenOf(h)), Header(h))

\* ngx_nats_parse: the header word ends at the first blank, which must come
\* before any line feed
Parse(b) ==
    LET p == Find(b, 1, End(b), {"SP", "CR", "LF"})
    IN  IF p = End(b) THEN Failed(Again)
        ELSE IF b[p] = "LF" \/ p # 2 THEN Failed(InvalidHeader)
        ELSE CASE b[1] \in {"+OK", "PING", "PONG"} -> ParseBare(b)
               [] b[1] = "MSG"  -> ParseMsg(b)
               [] b[1] = "-ERR" -> ParseErr(b)
               [] b[1] = "INFO" -> ParseInfo(b)
               [] OTHER         -> Failed(InvalidHeader)

=============================================================================
