----------------------------- MODULE MCNatsWire -----------------------------
\* Scripts for TLC to check NatsWire with
EXTENDS NatsWire, NatsServer

\* The INFOs that other messages follow: one that limits the payload, and one
\* that says nothing
Plainly == SendInfo(<<>>, 1, "DQ")
Limited == SendInfo(<<Field(<<"max_payload">>, Int64(9))>>, 1, "DQ")

Words == {SendWord(w) : w \in {"+OK", "PING", "PONG"}}
Errs  == {SendErr(<<>>, 1), SendErr(<<"SQ", "a", "SP", "b", "SQ">>, 2)}

\* Payloads that are empty, that look like the end of a message, that are long
Msgs ==
    {SendMsg(<<"a">>, 7, <<>>, <<>>, 1),
     SendMsg(<<"a">>, 12, <<"b">>, <<"CR", "LF">>, 1),
     SendMsg(<<"DQ", "a", "SP", "BS", "DQ", "DQ">>, 1, <<>>, <<"x">>, 2),
     SendMsg(<<"a">>, 1, <<>>, <<"1", "2", "3", "4", "5", "6", "7", "8", "9", "0", "1">>, 1)}

\* Texts that are no messages: an atom is missing (a MSG without its reply-to
\* is one), the header is unknown, or it has one token too many
WithReply == SendMsg(<<"a">>, 7, <<"b">>, <<"CR", "LF">>, 1).text
NoMsgs ==
    (UNION {Cuts(t) : t \in {SendWord("+OK").text, SendWord("PONG").text,
                             SendMsg(<<"a">>, 7, <<>>, <<>>, 1).text, WithReply}}
        \ {RemoveAt(WithReply, i) : i \in {j \in DOMAIN WithReply : WithReply[j] = "b"}})
    \cup {<<"HELLO", "CR", "LF">>, <<"-ERR", "LF">>, <<"INFO", "CR", "LF">>, <<"INFO", "SP", "CR", "LF">>,
          <<"MSG", "SP", "a", "SP", "1", "SP", "b", "SP", "1", "SP", "1", "CR", "LF", "x", "CR", "LF">>}

Conversations ==
    {<<i, m, n>> : i \in {Plainly, Limited}, m \in Words \cup Errs \cup Msgs, n \in Errs \cup Msgs}
    \cup {<<Plainly, SendBad(t), SendWord("PING")>> : t \in NoMsgs}

-----------------------------------------------------------------------------
\* Values at the ends of their ranges, one of each type, and nested ones
Values ==
    {Int64(n) : n \in {0, 5, 10, IntMax, -1, -IntMax - 1}}
    \cup {Str(s) : s \in {<<>>, <<"a">>, <<"SQ", "LF", "DQ", "BS">>, <<"a", "b", "c", "d", "e", "f">>}}
    \cup {Bool(TRUE), Bool(FALSE), Null, Plain("double"),
          Arr(<<>>), Arr(<<Int64(1), Str(<<"a">>)>>), Obj(<<Field(<<"port">>, Null)>>)}

Infos ==
    {SendInfo(<<Field(f, v)>>, gap, q) :
        f \in {<<"max_payload">>, <<"server_id">>, <<"auth_required">>, <<"x">>, <<"go", "x">>},
        v \in Values, gap \in 1 .. 2, q \in Quotes}
    \cup {SendInfo(<<Field(<<"port">>, v), Field(<<"x">>, Null), Field(<<"port">>, w)>>, 1, "DQ") :
        v, w \in {Int64(0), Int64(5), Bool(TRUE)}}
    \cup {SendInfoAs(<<Field(<<"port">>, Int64(n))>>,
                     <<"{", "DQ", "port", "DQ", ":", "0", "x">> \o hex \o <<"}">>, 1) :
        <<n, hex>> \in {<<10, <<"a">>>>, <<IntMax, <<"7", "f">>>>, <<-IntMax - 1, <<"8", "0">>>>}}

\* Texts that may or may not be JSON
Body == <<"{", "DQ", "x", "DQ", ":", "[", "1", ",", "{", "}", "]", ",", "SQ", "y", "SQ",
          ":", "SP", "DQ", "BS", "n", "DQ", "}", "z">>
Holding(number) == <<"{", "DQ", "x", "DQ", ":">> \o number \o <<"}">>
Numbers ==
    {<<"1", "2", "8">>, <<"1", "2", "9">>, <<"9", "9", "9", "9">>, <<"-", "1", "2", "9">>, <<"+", "1">>, <<"0", "1">>,
     <<"-">>, <<"-", "0">>, <<"-", "0", "5">>, <<"0", "x">>, <<"0", "x", "f", "f", "f">>, <<"0", "x", "g">>, <<"1", "a">>,
     <<"1", ".", "5">>, <<".", "5">>, <<"1", "e">>, <<"1", ".", "2", ".", "3">>, <<"+", "1", "e", "+", "2">>}
Texts ==
    Cuts(Body) \cup Slips(Body, {",", "}", "]", "DQ", "BS", "u", "0"})
    \cup {Holding(n) : n \in Numbers}
    \cup {Holding(<<"DQ">> \o s \o <<"DQ">>) : s \in {<<"a", "a", "a", "a", "a", "a", "a">>, <<"BS", "u">>}}
    \cup {<<"null">>, <<"[", "]">>, <<"DQ", "x", "DQ">>}

Openings ==
    {<<i, SendWord("PING")>> : i \in Infos \cup {SendInfoText(t) : t \in Texts}}
    \cup {<<Limited, SendInfo(<<Field(<<"port">>, Int64(5))>>, 1, "DQ"), SendWord("PING")>>}

MCScripts ==
    {[sends |-> c, whole |-> FALSE] : c \in Conversations}
    \cup {[sends |-> c, whole |-> TRUE] : c \in Openings}

MCLater == {s \in MCScripts : ~s.whole /\ s.sends[1] = Plainly /\ s.sends[3] \in Msgs}

=============================================================================
