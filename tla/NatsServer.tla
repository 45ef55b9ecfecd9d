----------------------------- MODULE NatsServer -----------------------------
(***************************************************************************)
(* The other end of the wire, which is not part of the repository: how a   *)
(* NATS server writes its messages, and which texts are well formed.  It   *)
(* is written as a grammar, not as a parser, so that NatsParse and         *)
(* NatsJson have something independent to be compared with.                *)
(***************************************************************************)
EXTENDS NatsJson

CRLF == <<"CR", "LF">>
SP(n) == [i \in 1 .. n |-> "SP"]

DigitOf(n) == CHOOSE d \in DOMAIN Digits : Digits[d] = n

RECURSIVE Decimal(_)
Decimal(n) == IF n < 10 THEN <<DigitOf(n)>> ELSE Append(Decimal(n \div 10), DigitOf(n % 10))

-----------------------------------------------------------------------------
(* JSON values and how they are written: with blanks around everything or  *)
(* none, and with one kind of quotes or the other.                         *)

Null       == Plain("null")
Bool(b)    == Value("boolean", IF b THEN 1 ELSE 0, <<>>, <<>>)
Int64(n)   == Value("integer", n, <<>>, <<>>)
Str(s)     == Value("string", 0, s, <<>>)
Arr(vs)    == Value("array", 0, <<>>, vs)
Obj(fs)    == Value("object", 0, <<>>, fs)
Field(f, v) == [name |-> f, value |-> v]

\* Quoted, with escapes for what needs one
Quoted(s, q) ==
    LET one(c) == IF c \in {q, "BS"} THEN <<"BS", c>>
                  ELSE IF c \in {"LF", "CR"} THEN <<"BS", CHOOSE e \in DOMAIN Escapes : Escapes[e] = c>>
                  ELSE <<c>>
    IN  <<q>> \o FlattenSeq([i \in DOMAIN s |-> one(s[i])]) \o <<q>>

Listed(texts) ==
    FlattenSeq([i \in DOMAIN texts |-> IF i = 1 THEN texts[i] ELSE <<",">> \o texts[i]])

RECURSIVE Json(_, _, _)
Json(v, gap, q) ==
    LET pad(t) == gap \o t \o gap
    IN  pad(CASE v.type = "null"    -> <<"null">>
              [] v.type = "boolean" -> IF v.int = 1 THEN <<"true">> ELSE <<"false">>
              [] v.type = "integer" -> IF v.int < 0 THEN <<"-">> \o Decimal(-v.int) ELSE Decimal(v.int)
              [] v.type = "double"  -> <<"1", ".", "5", "e", "-", "3">>
              [] v.type = "string"  -> Quoted(v.str, q)
              [] v.type = "array"   -> <<"[">> \o Listed([i \in DOMAIN v.items |-> Json(v.items[i], gap, q)]) \o <<"]">>
              [] v.type = "object"  ->
                   <<"{">> \o Listed([i \in DOMAIN v.items |->
                                        pad(Quoted(v.items[i].name, q)) \o <<":">> \o Json(v.items[i].value, gap, q)])
                           \o gap \o <<"}">>)

-----------------------------------------------------------------------------
(* Which texts are JSON: a grammar by cases on where a text can be split.  *)

Trim(t) ==
    LET solid == {i \in DOMAIN t : t[i] \notin Blanks}
    IN  IF solid = {} THEN <<>>
        ELSE SubSeq(t, CHOOSE i \in solid : \A j \in solid : i <= j,
                       CHOOSE i \in solid : \A j \in solid : j <= i)

Before(t, i) == Trim(SubSeq(t, 1, i - 1))
After(t, i)  == Trim(SubSeq(t, i + 1, Len(t)))
Inside(t)    == Trim(SubSeq(t, 2, Len(t) - 1))

\* An odd number of backslashes, after the opening quote, stands before i.
Escaped(t, i) ==
    \E k \in 1 .. i - 2 :
        /\ k % 2 = 1
        /\ \A j \in i - k .. i - 1 : t[j] = "BS"
        /\ i - k - 1 = 1 \/ t[i - k - 1] # "BS"

\* Quotes, escapes, and no more characters than the string buffer takes
IsString(t) ==
    /\ Len(t) >= 2 /\ t[1] \in Quotes /\ t[Len(t)] = t[1] /\ ~Escaped(t, Len(t))
    /\ \A i \in 2 .. Len(t) - 1 :
         IF Escaped(t, i) THEN t[i] \in DOMAIN Escapes ELSE t[i] # t[1]
    /\ Cardinality({i \in 2 .. Len(t) - 1 : Escaped(t, i) \/ t[i] # "BS"}) <= MaxStr - 2

\* An int64_t in decimal.  Unlike in JSON, -0 is none and -05 is one.
IsInteger(t) ==
    LET digits == IF t # <<>> /\ t[1] = "-" THEN Tail(t) ELSE t
    IN  /\ IsNumber(digits)
        /\ t[1] = "0" => t = <<"0">>
        /\ Atoi(digits) \in IF t[1] = "-" THEN 1 .. IntMax + 1 ELSE 0 .. IntMax

IsHex(t) ==
    /\ Len(t) \in 3 .. 2 + Width \div 4 /\ SubSeq(t, 1, 2) = <<"0", "x">>
    /\ \A i \in 3 .. Len(t) : t[i] \in DOMAIN HexDigits

RECURSIVE IsJson(_), IsItems(_, _)

\* One item or more, between commas; the fields of an object are named
IsItems(t, named) ==
    LET item(u) == IF named
                     THEN \E i \in DOMAIN u : /\ u[i] = ":"
                                              /\ IsString(Before(u, i)) /\ Len(Before(u, i)) > 2
                                              /\ IsJson(After(u, i))
                     ELSE IsJson(u)
    IN  item(t) \/ \E i \in DOMAIN t : t[i] = "," /\ item(Before(t, i)) /\ IsItems(After(t, i), named)

Between(t, open, close, named) ==
    /\ Len(t) >= 2 /\ t[1] = open /\ t[Len(t)] = close
    /\ Inside(t) = <<>> \/ IsItems(Inside(t), named)

IsJson(t) ==
    \/ t \in {<<"null">>, <<"true">>, <<"false">>}
    \/ IsInteger(t) \/ IsHex(t)
    \/ IsDouble(t) /\ (Contains(t, ".") \/ Contains(t, "e"))
    \/ IsString(t)
    \/ Between(t, "[", "]", FALSE)
    \/ Between(t, "{", "}", TRUE)

\* The text of an INFO is an object; what comes after it is not looked at.
IsInfoText(t) == \E n \in DOMAIN t : Between(Trim(SubSeq(t, 1, n)), "{", "}", TRUE)

-----------------------------------------------------------------------------
(* Messages as the server writes them.  A message sent is the message, the *)
(* bytes it makes, the fields of an INFO and whether it is a good one.     *)

Sent(msg, text, fields, good) ==
    [msg |-> msg, text |-> text, fields |-> fields, good |-> good]

SendWord(word) == Sent(Word(word), <<word>> \o CRLF, <<>>, TRUE)

SendErr(body, gap) ==
    Sent(Text("-ERR", body), <<"-ERR">> \o (IF body = <<>> THEN <<>> ELSE SP(gap)) \o body \o CRLF, <<>>, TRUE)

SendMsg(subject, sid, replyto, body, gap) ==
    Sent(Msg("MSG", subject, sid, replyto, body),
         <<"MSG">> \o SP(gap) \o subject \o SP(gap) \o Decimal(sid)
             \o (IF replyto = <<>> THEN <<>> ELSE SP(gap) \o replyto)
             \o SP(gap) \o Decimal(Len(body)) \o SP(gap - 1) \o CRLF \o body \o CRLF,
         <<>>, TRUE)

InfoText(body, gap) == <<"INFO">> \o SP(gap) \o body \o CRLF

\* An INFO with these fields, written as body
SendInfoAs(fields, body, gap) ==
    Sent(Text("INFO", body), InfoText(body, gap), fields, Understood(fields) /\ IsInfoText(body))

SendInfo(fields, gap, q) ==
    SendInfoAs(fields, IF gap = 1 THEN Json(Obj(fields), <<>>, q)
                                  ELSE Tail(Json(Obj(fields), <<"SP">>, q)), gap)

\* An INFO with a text that may not be JSON and has no field a client knows
SendInfoText(body) == SendInfoAs(<<>>, body, 1)

\* A text that is no message
SendBad(text) == Sent(Word("none"), text, <<>>, FALSE)

\* The texts with one atom missing, or with one atom replaced by another
Cuts(text) == {RemoveAt(text, i) : i \in DOMAIN text}
Slips(text, atoms) == {[text EXCEPT ![i] = a] : i \in DOMAIN text, a \in atoms}

=============================================================================
