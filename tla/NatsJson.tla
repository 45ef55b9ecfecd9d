------------------------------ MODULE NatsJson ------------------------------
(***************************************************************************)
(* ngx_nats_json_parse (src/src/ngx_nats_json.c), the recursive descent    *)
(* parser behind the INFO message, and ngx_nats_parse_info of              *)
(* src/src/ngx_nats_comm.c, which takes the fields it knows from the       *)
(* result.  Text is a sequence of atoms as in NatsParse; null, true and    *)
(* false are one atom each.                                                *)
(*                                                                         *)
(* Every function takes the text, the position to go on from and the       *)
(* capacity of the string buffer pc->str, and returns a code, where it     *)
(* stopped, what it read and the capacity then.                            *)
(***************************************************************************)
EXTENDS NatsParse

CONSTANTS
    Width,   \* bits of int64_t, scaled down
    StrCap,  \* pc->str_cap at the start (1024)
    MaxStr   \* the capacity that pc->str never grows beyond (1 MB)

ASSUME JsonAssumption ==
    /\ Width \in {4 * k : k \in 1 .. 16}
    /\ StrCap \in Nat /\ StrCap >= 2
    /\ MaxStr \in Nat

IntMax == 2^(Width - 1) - 1
HexDigits == Digits @@ ("a" :> 10 @@ "b" :> 11 @@ "c" :> 12 @@ "d" :> 13 @@ "e" :> 14 @@ "f" :> 15)

\* NGX_NATS_JSON_ERR_...
Error        == -1
Syntax       == -2
Eof          == -3
NotSupported == -4

\* ngx_nats_json_value_t: a boolean and an integer use int, a string str, an
\* object its fields and an array its values
Value(type, int, str, items) == [type |-> type, int |-> int, str |-> str, items |-> items]
Plain(type) == Value(type, 0, <<>>, <<>>)

Read(pos, val, cap) == [rc |-> 0, pos |-> pos, val |-> val, cap |-> cap]
Fail(rc) == [rc |-> rc, pos |-> 0, val |-> Plain("none"), cap |-> 0]

\* _skipSpaces: Len(t) + 1 stands for its NGX_NATS_JSON_ERR_EOF
Blanks == {"SP", "CR", "LF", "TAB"}
SkipSpaces(t, pos) == Skip(t, pos, End(t), Blanks)

-----------------------------------------------------------------------------
Escapes ==
    "b" :> "BACKSPACE" @@ "t" :> "TAB" @@ "n" :> "LF" @@ "f" :> "FORMFEED" @@ "r" :> "CR"
        @@ "DQ" :> "DQ" @@ "SQ" :> "SQ" @@ "BS" :> "BS" @@ "/" :> "/"

\* ngx_nats_json_ensure_str(pc, 2): the capacity, doubled if need be; 0 if it
\* may not grow
EnsureStr(cap, nout) ==
    IF cap - nout >= 2 THEN cap
    ELSE IF cap >= MaxStr THEN 0
    ELSE 2 * cap

\* ngx_nats_json_parse_string: from pos on, after the quote q; out is what has
\* been written up to n
ParseString(t, pos, q, str_cap) ==
    LET scan[n \in Nat, out \in Seq(STRING), old \in Nat] ==
          LET cap == EnsureStr(old, Len(out))
              escaped == t[n + 1]
          IN  IF n > Len(t) THEN Fail(Eof)
              ELSE IF cap = 0 THEN Fail(Error)
              ELSE IF t[n] = q THEN Read(n + 1, Value("string", 0, out, <<>>), cap)
              ELSE IF t[n] # "BS" THEN scan[n + 1, Append(out, t[n]), cap]
              ELSE IF n = Len(t) THEN Fail(Eof)
              ELSE IF escaped = "u" THEN Fail(NotSupported)
              ELSE IF escaped \notin DOMAIN Escapes THEN Fail(Syntax)
              ELSE scan[n + 2, Append(out, Escapes[escaped]), cap]
    IN  scan[pos, <<>>, str_cap]

-----------------------------------------------------------------------------
Integer(n, end, cap) == Read(end, Value("integer", n, <<>>, <<>>), cap)

\* ngx_nats_json_parse_hex: `item` is 0x and what follows it up to `end`; the
\* result is the int64_t with these bits
ParseHex(item, end, cap) ==
    LET hex == SubSeq(item, 3, Len(item))
        u64 == FoldLeft(LAMBDA v, d : 16 * v + HexDigits[d], 0, hex)
    IN  IF Len(hex) > Width \div 4 \/ \E i \in DOMAIN hex : hex[i] \notin DOMAIN HexDigits
          THEN Fail(Syntax)
          ELSE Integer(IF u64 > IntMax THEN u64 - 2^Width ELSE u64, end, cap)

FaultyInRange(neg, u64) == u64 <= IntMax    \* a slip to test the properties with: the least integer is refused

\* The range checks of ngx_nats_json_parse_int, in unsigned arithmetic
InRange(neg, u64) == IF neg THEN (u64 - 1) % 2^Width <= IntMax ELSE u64 <= IntMax

\* ngx_nats_json_parse_int.  -1 is the value of digits that can not be
\* multiplied by 10 any more.
ParseInt(item, end, cap) ==
    LET neg    == item[1] = "-"
        digits == IF neg THEN Tail(item) ELSE item
        u64    == FoldLeft(LAMBDA v, d : IF v \in 0 .. IntMax \div 10
                                           THEN v * 10 + Digits[d] ELSE -1, 0, digits)
    IN  IF ~IsNumber(digits) THEN Fail(Syntax)
        ELSE IF u64 = -1 \/ ~InRange(neg, u64) THEN Fail(Syntax)
        ELSE Integer(IF neg THEN -u64 ELSE u64, end, cap)

\* strtod: does it take all of s, which has a point or an exponent?
IsDouble(s) ==
    LET unsigned(u) == IF u # <<>> /\ u[1] \in {"+", "-"} THEN Tail(u) ELSE u
        u == unsigned(s)
        e == Find(u, 1, End(u), {"e"})
        mantissa == SelectSeq(SubSeq(u, 1, e - 1), LAMBDA c : c # ".")
    IN  /\ IsNumber(mantissa) /\ Len(mantissa) >= e - 2
        /\ e <= Len(u) => IsNumber(unsigned(SubSeq(u, e + 1, Len(u))))

\* ngx_nats_json_parse_double; at most 31 characters are copied for strtod
ParseDouble(item, end, cap) ==
    IF Len(item) > 31 \/ ~IsDouble(item) THEN Fail(Syntax)
    ELSE Read(end, Plain("double"), cap)

\* The number at the end of ngx_nats_json_parse_value
ParseNumber(item, end, cap) ==
    LET zero == item[1] = "0"
    IN  IF item = <<"0">> THEN Integer(0, end, cap)
        ELSE IF zero /\ Len(item) > 2 /\ item[2] = "x" THEN ParseHex(item, end, cap)
        ELSE IF Contains(item, ".") \/ Contains(item, "e") THEN ParseDouble(item, end, cap)
        ELSE IF zero THEN Fail(Syntax)
        ELSE ParseInt(item, end, cap)

\* null, a boolean or a number, up to the next blank or punctuation
ParsePrimitive(t, pos, cap) ==
    LET end  == Find(t, pos, End(t), Blanks \cup {",", ":", "[", "]", "{", "}"})
        item == SubSeq(t, pos, end - 1)
    IN  CASE item = <<"null">>  -> Read(end, Plain("null"), cap)
          [] item = <<"true">>  -> Read(end, Value("boolean", 1, <<>>, <<>>), cap)
          [] item = <<"false">> -> Read(end, Value("boolean", 0, <<>>, <<>>), cap)
          [] t[pos] \in DOMAIN Digits \cup {".", "+", "-"} -> ParseNumber(item, end, cap)
          [] OTHER -> Fail(Syntax)

-----------------------------------------------------------------------------
(* The three functions that call each other are one recursive function,    *)
(* parse[what, pos, cap, first], of what is to be read: a value, or the    *)
(* rest of an object or an array, from its first item on or a later one.   *)

\* What follows an item of an object or an array: its end, or a comma and more
ParseRest(parse, t, what, item, last) ==
    LET p    == SkipSpaces(t, last.pos)
        rest == parse[what, p + 1, last.cap, FALSE]
    IN  IF p = End(t) THEN Fail(Eof)
        ELSE IF t[p] = (IF what = "object" THEN "}" ELSE "]")
               THEN Read(p + 1, Value(what, 0, <<>>, <<item>>), last.cap)
        ELSE IF t[p] # "," THEN Fail(Syntax)
        ELSE IF rest.rc # 0 THEN rest
        ELSE [rest EXCEPT !.val.items = <<item>> \o @]

\* ngx_nats_json_parse_object.  Only before the first field may the object end:
\* need_field.
ParseObject(parse, t, pos, cap, first) ==
    LET start == SkipSpaces(t, pos)
        name  == ParseString(t, start + 1, t[start], cap)
        colon == SkipSpaces(t, name.pos)
        value == parse["value", colon + 1, name.cap, TRUE]
    IN  IF start = End(t) THEN Fail(Eof)
        ELSE IF t[start] = "}" /\ first THEN Read(start + 1, Plain("object"), cap)
        ELSE IF t[start] \notin Quotes THEN Fail(Syntax)
        ELSE IF name.rc # 0 THEN name
        ELSE IF name.val.str = <<>> THEN Fail(Syntax)
        ELSE IF colon = End(t) THEN Fail(Eof)
        ELSE IF t[colon] # ":" THEN Fail(Syntax)
        ELSE IF value.rc # 0 THEN value
        ELSE ParseRest(parse, t, "object", [name |-> name.val.str, value |-> value.val], value)

\* ngx_nats_json_parse_array
ParseArray(parse, t, pos, cap, first) ==
    LET start == SkipSpaces(t, pos)
        value == parse["value", start, cap, TRUE]
    IN  IF start = End(t) THEN Fail(Eof)
        ELSE IF t[start] = "]" /\ first THEN Read(start + 1, Plain("array"), cap)
        ELSE IF t[start] = "]" THEN Fail(Syntax)
        ELSE IF value.rc # 0 THEN value
        ELSE ParseRest(parse, t, "array", value.val, value)

\* ngx_nats_json_parse_value
ParseValue(parse, t, pos, cap) ==
    LET p == SkipSpaces(t, pos)
    IN  IF p = End(t) THEN Fail(Eof)
        ELSE CASE t[p] = "{" -> parse["object", p + 1, cap, TRUE]
               [] t[p] = "[" -> parse["array", p + 1, cap, TRUE]
               [] t[p] \in Quotes -> ParseString(t, p + 1, t[p], cap)
               [] OTHER -> ParsePrimitive(t, p, cap)

\* ngx_nats_json_parse: what follows the value is left alone
JsonParse(t) ==
    LET parse[what \in {"value", "object", "array"}, pos \in Nat, cap \in Nat, first \in BOOLEAN] ==
          CASE what = "value"  -> ParseValue(parse, t, pos, cap)
            [] what = "object" -> ParseObject(parse, t, pos, cap, first)
            [] what = "array"  -> ParseArray(parse, t, pos, cap, first)
    IN  IF t = <<>> THEN Fail(Syntax) ELSE parse["value", 1, StrCap, TRUE]

-----------------------------------------------------------------------------
\* The fields that ngx_nats_parse_info knows, with the types they must have
InfoTypes ==
    [server_id |-> "string", host |-> "string", version |-> "string", go |-> "string",
     port |-> "integer", max_payload |-> "integer",
     auth_required |-> "boolean", ssl_required |-> "boolean"]

\* The srv_... fields of a new ngx_nats_connection_t
NoInfo == [f \in DOMAIN InfoTypes |-> IF InfoTypes[f] = "string" THEN <<>> ELSE 0]

BadInfo == [error |-> TRUE]

FaultySetField(info, field) ==      \* a slip: the first of two fields wins
    IF info = BadInfo \/ field.name \notin {<<f>> : f \in DOMAIN InfoTypes} THEN info
    ELSE IF field.value.type # InfoTypes[field.name[1]] THEN BadInfo
    ELSE IF info[field.name[1]] # NoInfo[field.name[1]] THEN info
    ELSE [info EXCEPT ![field.name[1]] =
            IF field.value.type = "string" THEN field.value.str ELSE field.value.int]

\* One turn of its loop; once a field has the wrong type the connection is
\* about to be closed, and what was set is forgotten with it.
SetField(info, field) ==
    IF info = BadInfo \/ field.name \notin {<<f>> : f \in DOMAIN InfoTypes} THEN info
    ELSE IF field.value.type # InfoTypes[field.name[1]] THEN BadInfo
    ELSE [info EXCEPT ![field.name[1]] =
            IF field.value.type = "string" THEN field.value.str ELSE field.value.int]

SetFields(info, fields) ==
    LET set[n \in 0 .. Len(fields)] == IF n = 0 THEN info ELSE SetField(set[n - 1], fields[n])
    IN  set[Len(fields)]

\* ngx_nats_parse_info of ngx_nats_comm.c: the new server data, or BadInfo
ParseInfoFields(info, body) ==
    LET json == JsonParse(body)
    IN  IF json.rc # 0 THEN BadInfo
        ELSE IF json.val.type # "object" THEN BadInfo
        ELSE SetFields(info, json.val.items)

-----------------------------------------------------------------------------
(* What fields say, as a reference for ParseInfoFields: the last field of  *)
(* a name counts, and one of another type spoils them all.                 *)

Known(fields)      == {i \in DOMAIN fields : fields[i].name \in {<<f>> : f \in DOMAIN InfoTypes}}
Understood(fields) ==
    \A i \in Known(fields) : fields[i].value.type = InfoTypes[fields[i].name[1]]

Named(fields, f) == {i \in DOMAIN fields : fields[i].name = <<f>>}
LastNamed(fields, f) == CHOOSE i \in Named(fields, f) : \A j \in Named(fields, f) : j <= i
Told(fields) ==
    [f \in {g \in DOMAIN InfoTypes : Named(fields, g) # {}} |->
        LET v == fields[LastNamed(fields, f)].value
        IN  IF v.type = "string" THEN v.str ELSE v.int]

\* The server data after these fields, from what they were or from none
InfoAfter(info, fields) ==
    [f \in DOMAIN InfoTypes |-> IF f \in DOMAIN Told(fields) THEN Told(fields)[f] ELSE info[f]]
InfoOf(fields) == InfoAfter(NoInfo, fields)

=============================================================================
