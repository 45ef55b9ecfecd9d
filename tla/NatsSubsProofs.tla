--------------------------- MODULE NatsSubsProofs --------------------------
(***************************************************************************)
(* NatsSubs for any number of clients, subscriptions and messages: types,  *)
(* RightSubscription and SidsKnown from the inductive invariant SubsInv,   *)
(* that NatsSubs implements NatsPubSub, and HandlesOwned, FramesKept and   *)
(* Agree from the parts of TalkInv, which is inductive beside SubsInv.     *)
(***************************************************************************)
EXTENDS NatsSubs, SequenceTheorems, FunctionTheorems, FiniteSetTheorems, TLAPS

USE SubsAssumption

-----------------------------------------------------------------------------
(* Sequences of slots *)

\* Setting a slot gives a table that differs in that slot only.
LEMMA SetSlotFacts ==
    ASSUME slots \in Seq(Slot), NEW i \in 1 .. Len(slots) + 1, NEW s \in Slot
    PROVE  /\ SetSlot(i, s) \in Seq(Slot)
           /\ DOMAIN SetSlot(i, s) = DOMAIN slots \cup {i}
           /\ SetSlot(i, s)[i] = s
           /\ \A j \in DOMAIN slots \ {i} : SetSlot(i, s)[j] = slots[j]
BY DEF SetSlot

\* With keeps what it does not set.
LEMMA WithFacts ==
    ASSUME NEW s \in Slot, NEW sid \in Nat, NEW recv \in Nat
    PROVE  /\ With(s, sid, recv) \in Slot
           /\ With(s, sid, recv).sid = sid /\ With(s, sid, recv).recv = recv
           /\ With(s, sid, recv).client = s.client /\ With(s, sid, recv).data = s.data
           /\ With(s, sid, recv).max = s.max
BY DEF With, Slot

\* A found slot has the sid it was looked up by.
LEMMA GetFacts ==
    ASSUME NEW sid, NEW i \in GetSubscription(sid)
    PROVE  i \in DOMAIN slots /\ slots[i].sid = sid
BY DEF GetSubscription

\* The slot for a new subscription is free or new.
LEMMA AddFacts ==
    ASSUME slots \in Seq(Slot), NEW i \in AddSubscription
    PROVE  i \in 1 .. Len(slots) + 1 /\ i \notin LiveSlots
BY DEF AddSubscription, GetSubscription, LiveSlots

\* A call writes some of its lines behind what is there, and nothing else.
LEMMA WriteFacts ==
    ASSUME out \in Seq(Line), halfway \in BOOLEAN,
           NEW lines \in Seq(Line), NEW k \in 0 .. Len(lines), WriteLines(lines, k)
    PROVE  /\ out' \in Seq(Line) /\ halfway' \in BOOLEAN
           /\ \A i \in DOMAIN out' : \/ i \in DOMAIN out /\ out'[i] = out[i]
                                     \/ \E j \in DOMAIN lines : out'[i] = lines[j]
<1> DEFINE w == SubSeq(lines, 1, k)
<1>1. w \in Seq(Line) /\ Len(w) = k /\ \A j \in 1 .. k : w[j] = lines[j]
    OBVIOUS
<1>2. out' = out \o w /\ halfway' \in BOOLEAN
    BY DEF WriteLines
<1> HIDE DEF w
<1>3. out' \in Seq(Line) /\ Len(out') = Len(out) + k
    BY <1>1, <1>2, ConcatProperties
<1>4. ASSUME NEW i \in DOMAIN out'
      PROVE  \/ i \in DOMAIN out /\ out'[i] = out[i]
             \/ \E j \in DOMAIN lines : out'[i] = lines[j]
    <2>1. CASE i <= Len(out)
        BY <2>1, <1>1, <1>2, <1>3
    <2>2. CASE i > Len(out)
        <3>1. i - Len(out) \in 1 .. k /\ out'[i] = w[i - Len(out)]
            BY <2>2, <1>1, <1>2, <1>3
        <3>2. i - Len(out) \in DOMAIN lines
            BY <3>1
        <3> QED BY <3>1, <3>2, <1>1
    <2> QED BY <2>1, <2>2, <1>3
<1> QED BY <1>2, <1>3, <1>4

\* A table of the server that has the subscriptions of this connection only
Known(t) ==
    \A sid \in DOMAIN t : /\ sid \in 1 .. next_id /\ t[sid].data = base + sid
                         /\ t[sid] \in [data : Nat, sent : Nat, max : Nat]

LEMMA KnownSet ==
    ASSUME Known(srv), NEW sid \in 1 .. next_id, next_id \in Nat, base \in Nat,
           NEW sent \in Nat, NEW max \in Nat
    PROVE  Known(SrvSet(sid, base + sid, sent, max))
<1> DEFINE t == SrvSet(sid, base + sid, sent, max)
           v == [data |-> base + sid, sent |-> sent, max |-> max]
<1>1. DOMAIN t = DOMAIN srv \cup {sid} /\ t[sid] = v /\ \A x \in DOMAIN srv \ {sid} : t[x] = srv[x]
    BY DEF SrvSet
<1>2. v \in [data : Nat, sent : Nat, max : Nat] /\ v.data = base + sid
    OBVIOUS
<1> HIDE DEF t, v
<1>3. ASSUME NEW x \in DOMAIN t
      PROVE  x \in 1 .. next_id /\ t[x].data = base + x /\ t[x] \in [data : Nat, sent : Nat, max : Nat]
    <2>1. CASE x = sid
        BY <2>1, <1>1, <1>2
    <2>2. CASE x # sid
        BY <2>2, <1>1 DEF Known
    <2> QED BY <2>1, <2>2
<1> QED BY <1>3 DEF Known, t

-----------------------------------------------------------------------------
(* The inductive invariant, action by action *)

LEMMA InitInv == Init => SubsInv
<1> SUFFICES ASSUME Init PROVE SubsInv
    OBVIOUS
<1>1. slots = <<>> /\ in = <<>> /\ out = <<>> /\ DOMAIN srv = {} /\ next_id = 0 /\ base = 0
    BY DEF Init
<1>2. TypeOK
    <2>1. slots \in Seq(Slot) /\ in \in Seq([sid : Nat, data : Nat]) /\ out \in Seq(Line)
        BY <1>1
    <2>2. handles \in [Clients -> SUBSET Nat]
        BY DEF Init
    <2>3. need \in Nat \cup {Idle} /\ called \in Calling /\ meant \in Calling
        BY DEF Init, Calling
    <2>4. up \in BOOLEAN /\ garbled \in BOOLEAN /\ halfway \in BOOLEAN
        BY DEF Init
    <2>5. next_id \in Nat /\ base \in Nat /\ DOMAIN srv = {}
        BY <1>1
    <2> QED BY <2>1, <2>2, <2>3, <2>4, <2>5, Zenon DEF TypeOK
<1>3. SlotsInv
    BY <1>1 DEF SlotsInv, LiveSlots
<1>4. StreamsInv
    BY <1>1 DEF StreamsInv
<1> QED BY <1>2, <1>3, <1>4 DEF Init, SubsInv

\* A subscription gets a sid that no live slot has, and writes it to the server.
LEMMA SubscribeInv ==
    ASSUME SubsInv, NEW c \in Clients, NEW max \in Maxima, Subscribe(c, max)
    PROVE  SubsInv'
<1> DEFINE sid == next_id + 1
           sub == [sid |-> sid, client |-> c, data |-> Data(sid), max |-> max, recv |-> 0]
           lines == SubscribeLines(sid, max)
<1>1. next_id \in Nat /\ base \in Nat /\ slots \in Seq(Slot) /\ out \in Seq(Line)
      /\ halfway \in BOOLEAN /\ max \in Nat
    BY DEF SubsInv, TypeOK
<1>2. sid \in Nat /\ Data(sid) = base + sid /\ Data(sid) \in Nat /\ sub \in Slot
    BY <1>1 DEF Data, Slot
<1>3. lines \in Seq(Line)
      /\ \A j \in DOMAIN lines : lines[j].cmd = "SUB" => lines[j].sid = sid /\ lines[j].n = base + sid
    <2>1. Sub(sid) \in Line /\ Unsub(sid, max) \in Line /\ Unsub(sid, max).cmd # "SUB"
          /\ Sub(sid).sid = sid /\ Sub(sid).n = base + sid
        BY <1>1, <1>2 DEF Sub, Unsub, Line
    <2> QED BY <2>1, <1>1 DEF SubscribeLines
<1>4. next_id' = sid /\ base' = base /\ in' = in /\ srv' = srv /\ need' = need
      /\ garbled' = garbled /\ up' = up /\ called' = called /\ meant' = meant
      /\ base + next_id < MaxSubs
    BY DEF Subscribe, server
<1>5. PICK i \in AddSubscription : slots' = SetSlot(i, sub)
    BY <1>4 DEF Subscribe, Data
<1>6. PICK k \in 0 .. Len(lines) :
        /\ WriteLines(lines, k)
        /\ handles' = IF k < Len(lines) THEN handles ELSE [handles EXCEPT ![c] = @ \cup {sid}]
    BY <1>4 DEF Subscribe
<1> HIDE DEF sid, sub, lines
<1>7. /\ slots' \in Seq(Slot) /\ DOMAIN slots' = DOMAIN slots \cup {i} /\ slots'[i] = sub
      /\ \A j \in DOMAIN slots \ {i} : slots'[j] = slots[j]
      /\ i \notin LiveSlots
    <2>1. i \in 1 .. Len(slots) + 1 /\ i \notin LiveSlots
        BY <1>1, AddFacts
    <2>2. /\ SetSlot(i, sub) \in Seq(Slot)
          /\ DOMAIN SetSlot(i, sub) = DOMAIN slots \cup {i}
          /\ SetSlot(i, sub)[i] = sub
          /\ \A j \in DOMAIN slots \ {i} : SetSlot(i, sub)[j] = slots[j]
        BY ONLY <2>1, <1>1, <1>2, SetSlotFacts
    <2> QED BY <2>1, <2>2, <1>5
<1>8. /\ out' \in Seq(Line) /\ halfway' \in BOOLEAN
      /\ \A j \in DOMAIN out' : \/ j \in DOMAIN out /\ out'[j] = out[j]
                                \/ \E m \in DOMAIN lines : out'[j] = lines[m]
    BY <1>1, <1>3, <1>6, WriteFacts
<1>9. handles' \in [Clients -> SUBSET Nat]
    BY <1>6, <1>2 DEF SubsInv, TypeOK
<1>10. TypeOK'
    BY <1>1, <1>2, <1>4, <1>7, <1>8, <1>9 DEF SubsInv, TypeOK
<1>11. LiveSlots' = LiveSlots \cup {i}
    BY <1>1, <1>2, <1>7 DEF LiveSlots, sub, sid
<1>12. SlotsInv'
    <2>1. sub.sid = sid /\ sub.data = base + sid /\ sub.recv = 0 /\ sub.max = max /\ sid = next_id + 1
        BY <1>2 DEF sub, sid
    <2>2. ASSUME NEW j \in LiveSlots' 
          PROVE  /\ slots'[j].sid \in 1 .. next_id' /\ slots'[j].data = base' + slots'[j].sid
                 /\ slots'[j].max > 0 => slots'[j].recv < slots'[j].max
        <3>1. CASE j = i
            BY <3>1, <2>1, <1>1, <1>4, <1>7
        <3>2. CASE j # i
            <4>1. j \in LiveSlots /\ slots'[j] = slots[j]
                BY <3>2, <1>7, <1>11 DEF LiveSlots
            <4>2. /\ slots[j].sid \in 1 .. next_id /\ slots[j].data = base + slots[j].sid
                  /\ slots[j].max > 0 => slots[j].recv < slots[j].max
                BY <4>1 DEF SubsInv, SlotsInv, Data
            <4>3. \A n \in 1 .. next_id : n \in 1 .. next_id'
                BY <2>1, <1>1, <1>4
            <4> QED BY <4>1, <4>2, <4>3, <1>4, Zenon
        <3> QED BY <3>1, <3>2
    <2>3. ASSUME NEW j \in LiveSlots', NEW m \in LiveSlots', slots'[j].sid = slots'[m].sid
          PROVE  j = m
        <3>1. \A x \in LiveSlots' \ {i} : x \in LiveSlots /\ slots'[x] = slots[x]
            BY <1>7, <1>11 DEF LiveSlots
        <3>2. \A x \in LiveSlots' \ {i} : slots'[x].sid \in 1 .. next_id
            BY <3>1 DEF SubsInv, SlotsInv
        <3>3. slots'[i].sid = next_id + 1
            BY <2>1, <1>7
        <3>4. CASE j # i /\ m # i
            BY <3>4, <3>1, <2>3 DEF SubsInv, SlotsInv
        <3>5. CASE j = i \/ m = i
            BY <3>5, <3>2, <3>3, <2>3, <1>1
        <3> QED BY <3>4, <3>5
    <2> QED BY <2>1, <2>2, <2>3, <1>1, <1>4 DEF SlotsInv, Data
<1>13. StreamsInv'
    <2>1. sid = next_id + 1
        BY DEF sid
    <2>2. ASSUME NEW j \in DOMAIN out', out'[j].cmd = "SUB"
          PROVE  out'[j].sid \in 1 .. next_id' /\ out'[j].n = base' + out'[j].sid
        <3>1. CASE j \in DOMAIN out /\ out'[j] = out[j]
            <4>1. out[j].sid \in 1 .. next_id /\ out[j].n = base + out[j].sid
                BY <3>1, <2>2 DEF SubsInv, StreamsInv, Data
            <4> QED BY <4>1, <3>1, <2>1, <1>1, <1>4
        <3>2. CASE \E m \in DOMAIN lines : out'[j] = lines[m]
            <4>1. out'[j].sid = sid /\ out'[j].n = base + sid
                BY <3>2, <2>2, <1>3
            <4>2. sid \in 1 .. next_id'
                BY <2>1, <1>1, <1>4
            <4> QED BY <4>1, <4>2, <1>4
        <3> QED BY <3>1, <3>2, <1>8
    <2> QED BY <2>1, <2>2, <1>1, <1>4 DEF SubsInv, StreamsInv, Data
<1> QED BY <1>4, <1>10, <1>12, <1>13 DEF SubsInv

\* A live slot is removed, or counts a message that is not its last.
LEMMA ChangeSlot ==
    ASSUME SubsInv, NEW i \in LiveSlots, NEW sid \in {0, slots[i].sid}, NEW recv \in Nat,
           sid # 0 /\ slots[i].max > 0 => recv < slots[i].max,
           slots' = [slots EXCEPT ![i] = With(slots[i], sid, recv)],
           next_id' = next_id, base' = base
    PROVE  /\ slots' \in Seq(Slot) /\ SlotsInv'
           /\ slots'[i] = With(slots[i], sid, recv)
           /\ \A j \in LiveSlots \ {i} : slots'[j] = slots[j]
           /\ LiveSlots' = IF sid = 0 THEN LiveSlots \ {i} ELSE LiveSlots
<1> DEFINE w == With(slots[i], sid, recv)
<1>1. slots \in Seq(Slot) /\ next_id \in Nat /\ base \in Nat /\ Maxima \subseteq Nat
    BY DEF SubsInv, TypeOK
<1>2. i \in DOMAIN slots /\ slots[i] \in Slot /\ slots[i].sid # 0
    BY <1>1 DEF LiveSlots
<1>3. sid \in Nat
    BY <1>2 DEF Slot
<1>4. w \in Slot /\ w.sid = sid /\ w.recv = recv /\ w.data = slots[i].data /\ w.max = slots[i].max
    <2> DEFINE t == slots[i]
    <2>1. t \in Slot
        BY <1>2
    <2> HIDE DEF t
    <2>2. With(t, sid, recv) \in Slot /\ With(t, sid, recv).sid = sid
          /\ With(t, sid, recv).recv = recv /\ With(t, sid, recv).data = t.data
          /\ With(t, sid, recv).max = t.max
        BY <2>1, <1>3, WithFacts
    <2> QED BY <2>2 DEF t
<1> HIDE DEF w
<1>5. /\ slots' \in Seq(Slot) /\ DOMAIN slots' = DOMAIN slots /\ slots'[i] = w
      /\ \A j \in DOMAIN slots \ {i} : slots'[j] = slots[j]
    BY <1>1, <1>2, <1>4 DEF w
<1>6. LiveSlots' = IF sid = 0 THEN LiveSlots \ {i} ELSE LiveSlots
    BY <1>2, <1>4, <1>5 DEF LiveSlots
<1>7. \A j \in LiveSlots \ {i} : slots'[j] = slots[j]
    BY <1>5 DEF LiveSlots
<1>8. LiveSlots' \subseteq LiveSlots /\ \A j \in LiveSlots' : slots'[j].sid = slots[j].sid
    BY <1>2, <1>4, <1>5, <1>6, <1>7
<1>9. ASSUME NEW j \in LiveSlots'
      PROVE  /\ slots'[j].sid \in 1 .. next_id' /\ slots'[j].data = base' + slots'[j].sid
             /\ slots'[j].max > 0 => slots'[j].recv < slots'[j].max
    <2>1. /\ slots[j].sid \in 1 .. next_id /\ slots[j].data = base + slots[j].sid
          /\ slots[j].max > 0 => slots[j].recv < slots[j].max
        BY <1>8 DEF SubsInv, SlotsInv, Data
    <2>2. CASE j = i
        BY <2>1, <2>2, <1>4, <1>5, <1>6, <1>8
    <2>3. CASE j # i
        BY <2>1, <2>3, <1>7, <1>8
    <2> QED BY <2>2, <2>3
<1>10. \A j, m \in LiveSlots' : slots'[j].sid = slots'[m].sid => j = m
    BY <1>8 DEF SubsInv, SlotsInv
<1>11. SlotsInv'
    BY <1>9, <1>10 DEF SubsInv, SlotsInv, Data
<1> QED BY <1>5, <1>6, <1>7, <1>11 DEF w

LEMMA UnsubscribeInv ==
    ASSUME SubsInv, NEW c \in Clients, NEW sid \in handles[c], Unsubscribe(c, sid)
    PROVE  SubsInv'
<1> DEFINE lines == <<Unsub(sid, 0)>>
<1>1. next_id' = next_id /\ base' = base /\ in' = in /\ srv' = srv /\ need' = need
      /\ garbled' = garbled /\ up' = up /\ called' = called /\ meant' = meant
      /\ handles' = handles
    BY DEF Unsubscribe, server
<1>2. PICK i \in GetSubscription(sid) : slots' = RemoveSubscription(i)
    BY DEF Unsubscribe
<1>3. PICK k \in 0 .. 1 : WriteLines(lines, k)
    BY DEF Unsubscribe
<1>4. i \in LiveSlots /\ slots[i].recv \in Nat
    <2>1. sid # 0 /\ slots \in Seq(Slot)
        BY DEF Unsubscribe, SubsInv, TypeOK
    <2>2. i \in DOMAIN slots /\ slots[i].sid = sid
        BY <1>2, GetFacts
    <2>3. slots[i] \in Slot
        BY <2>1, <2>2
    <2> QED BY <2>1, <2>2, <2>3 DEF LiveSlots, Slot
<1>5. slots' \in Seq(Slot) /\ SlotsInv'
    BY <1>1, <1>2, <1>4, ChangeSlot DEF RemoveSubscription
<1>6. lines \in Seq(Line) /\ k \in 0 .. Len(lines) /\ \A j \in DOMAIN lines : lines[j].cmd # "SUB"
    <2>1. sid \in Nat
        BY DEF SubsInv, TypeOK
    <2>2. Unsub(sid, 0) \in Line /\ Unsub(sid, 0).cmd # "SUB"
        BY <2>1 DEF Unsub, Line
    <2> QED BY <2>2
<1> HIDE DEF lines
<1>7. /\ out' \in Seq(Line) /\ halfway' \in BOOLEAN
      /\ \A j \in DOMAIN out' : \/ j \in DOMAIN out /\ out'[j] = out[j]
                                \/ \E m \in DOMAIN lines : out'[j] = lines[m]
    <2>1. out \in Seq(Line) /\ halfway \in BOOLEAN
        BY DEF SubsInv, TypeOK
    <2> QED BY <2>1, <1>3, <1>6, WriteFacts
<1>8. TypeOK'
    BY <1>1, <1>5, <1>7 DEF SubsInv, TypeOK
<1>9. StreamsInv'
    BY <1>1, <1>6, <1>7 DEF SubsInv, StreamsInv, Data
<1> QED BY <1>1, <1>5, <1>8, <1>9 DEF SubsInv

LEMMA PublishInv ==
    ASSUME SubsInv, NEW len \in Lengths, Publish(len)
    PROVE  SubsInv'
<1>1. next_id' = next_id /\ base' = base /\ in' = in /\ srv' = srv /\ need' = need
      /\ garbled' = garbled /\ up' = up /\ called' = called /\ meant' = meant
      /\ handles' = handles /\ slots' = slots
    BY DEF Publish, server, table
<1>2. PICK strlen \in Strings :
        LET l == <<Pub(len)>> \o Payload(len, strlen) \o <<CRLF>>
        IN  \E k \in 0 .. Len(l) : WriteLines(l, k)
    BY DEF Publish
<1> DEFINE lines == <<Pub(len)>> \o Payload(len, strlen) \o <<CRLF>>
<1>3. PICK k \in 0 .. Len(lines) : WriteLines(lines, k)
    BY <1>2
<1>4. lines \in Seq(Line) /\ \A j \in DOMAIN lines : lines[j].cmd # "SUB"
    <2> DEFINE NoSub == {l \in Line : l.cmd # "SUB"}
    <2>1. len \in Nat /\ strlen \in Nat
        OBVIOUS
    <2>2. Pub(len) \in NoSub /\ Bytes(len) \in NoSub /\ Bytes(strlen) \in NoSub /\ CRLF \in NoSub
        BY <2>1 DEF Pub, Bytes, CRLF, Line
    <2> HIDE DEF NoSub
    <2>3. Payload(len, strlen) \in Seq(NoSub) /\ <<Pub(len)>> \in Seq(NoSub) /\ <<CRLF>> \in Seq(NoSub)
        BY <2>2 DEF Payload
    <2>4. <<Pub(len)>> \o Payload(len, strlen) \in Seq(NoSub)
        BY <2>3, ConcatProperties
    <2>5. lines \in Seq(NoSub)
        BY <2>3, <2>4, ConcatProperties
    <2> HIDE DEF lines
    <2>6. NoSub \subseteq Line /\ \A l \in NoSub : l.cmd # "SUB"
        BY DEF NoSub
    <2> QED BY <2>5, <2>6, SeqMonotonic, ElementOfSeq
<1> HIDE DEF lines
<1>5. /\ out' \in Seq(Line) /\ halfway' \in BOOLEAN
      /\ \A j \in DOMAIN out' : \/ j \in DOMAIN out /\ out'[j] = out[j]
                                \/ \E m \in DOMAIN lines : out'[j] = lines[m]
    <2>1. out \in Seq(Line) /\ halfway \in BOOLEAN
        BY DEF SubsInv, TypeOK
    <2> QED BY <2>1, <1>3, <1>4, WriteFacts
<1>6. TypeOK'
    BY <1>1, <1>5 DEF SubsInv, TypeOK
<1>7. StreamsInv'
    BY <1>1, <1>4, <1>5 DEF SubsInv, StreamsInv, Data
<1>8. SlotsInv'
    BY <1>1 DEF SubsInv, SlotsInv, LiveSlots, Data
<1> QED BY <1>1, <1>6, <1>7, <1>8 DEF SubsInv

\* The rest of a queue of messages
LEMMA TailIn ==
    ASSUME SubsInv, in # <<>>, in' = Tail(in), next_id' = next_id, base' = base
    PROVE  /\ in' \in Seq([sid : Nat, data : Nat])
           /\ \A i \in DOMAIN in' : in'[i].sid \in 1 .. next_id' /\ in'[i].data = base' + in'[i].sid
           /\ Head(in).sid \in 1 .. next_id /\ Head(in).data = base + Head(in).sid
<1> DEFINE M == [sid : Nat, data : Nat]
<1>1. in \in Seq(M) /\ \A i \in DOMAIN in : in[i].sid \in 1 .. next_id /\ in[i].data = base + in[i].sid
    BY DEF SubsInv, TypeOK, StreamsInv, Data
<1> HIDE DEF M
<1>2. /\ in' \in Seq(M) /\ Len(in') = Len(in) - 1 /\ \A i \in DOMAIN in' : in'[i] = in[i + 1]
      /\ \A i \in DOMAIN in' : i + 1 \in DOMAIN in
      /\ Head(in) = in[1] /\ 1 \in DOMAIN in
    BY <1>1
<1> QED BY <1>1, <1>2 DEF M

\* A message for a live subscription is counted, and ends it if it is the last.
LEMMA CountFacts ==
    ASSUME SubsInv, NEW i \in LiveSlots, slots' = CountMessage(i), next_id' = next_id, base' = base
    PROVE  slots' \in Seq(Slot) /\ SlotsInv'
<1>1. slots[i] \in Slot /\ slots[i].max \in Nat /\ slots[i].recv \in Nat
    <2>1. slots \in Seq(Slot) /\ i \in DOMAIN slots
        BY DEF SubsInv, TypeOK, LiveSlots
    <2>2. slots[i] \in Slot
        BY <2>1
    <2> QED BY <2>2 DEF Slot
<1>2. CASE slots[i].max = 0
    BY <1>2 DEF CountMessage, SubsInv, TypeOK, SlotsInv, LiveSlots, Data
<1>3. CASE slots[i].max # 0 /\ slots[i].recv + 1 >= slots[i].max
    <2>1. slots' = [slots EXCEPT ![i] = With(slots[i], 0, slots[i].recv + 1)]
        BY <1>3 DEF CountMessage
    <2>2. slots[i].recv + 1 \in Nat /\ 0 \in {0, slots[i].sid}
        BY <1>1
    <2> QED BY <2>1, <2>2, ChangeSlot
<1>4. CASE slots[i].max # 0 /\ ~(slots[i].recv + 1 >= slots[i].max)
    <2>1. slots' = [slots EXCEPT ![i] = With(slots[i], slots[i].sid, slots[i].recv + 1)]
        BY <1>4 DEF CountMessage
    <2>2. slots[i].recv + 1 \in Nat /\ slots[i].recv + 1 < slots[i].max
        BY <1>1, <1>4
    <2> QED BY <2>1, <2>2, ChangeSlot
<1> QED BY <1>2, <1>3, <1>4

LEMMA ProcessMsgInv ==
    ASSUME SubsInv, ProcessMsg
    PROVE  SubsInv'
<1>1. next_id' = next_id /\ base' = base /\ srv' = srv /\ need' = need /\ in # <<>>
      /\ garbled' = garbled /\ up' = up /\ handles' = handles /\ out' = out
      /\ halfway' = halfway /\ in' = Tail(in)
    BY DEF ProcessMsg, server
<1>2. PICK i \in GetSubscription(Head(in).sid) :
        /\ slots' = CountMessage(i)
        /\ \/ called' = slots[i].data /\ meant' = Head(in).data
           \/ UNCHANGED <<called, meant>>
    BY DEF ProcessMsg
<1>3. /\ in' \in Seq([sid : Nat, data : Nat])
      /\ \A j \in DOMAIN in' : in'[j].sid \in 1 .. next_id' /\ in'[j].data = base' + in'[j].sid
      /\ Head(in).sid \in 1 .. next_id /\ Head(in).data = base + Head(in).sid
    BY <1>1, TailIn
<1>4. i \in DOMAIN slots /\ slots[i].sid = Head(in).sid
    BY <1>2, GetFacts
<1>5. i \in LiveSlots
    <2>1. next_id \in Nat
        BY DEF SubsInv, TypeOK
    <2> QED BY <2>1, <1>3, <1>4 DEF LiveSlots
<1>6. slots' \in Seq(Slot) /\ SlotsInv'
    BY <1>1, <1>2, <1>5, CountFacts
<1>7. slots[i].data = Head(in).data /\ slots[i].data \in Nat
    <2>1. slots[i] \in Slot /\ slots[i].data = base + slots[i].sid
        BY <1>5 DEF SubsInv, TypeOK, SlotsInv, LiveSlots, Data
    <2> QED BY <2>1, <1>3, <1>4 DEF Slot
<1>8. called' = meant' /\ called' \in Calling
    BY <1>2, <1>7 DEF SubsInv, TypeOK, Calling
<1>9. TypeOK'
    BY <1>1, <1>3, <1>6, <1>8 DEF SubsInv, TypeOK
<1>10. StreamsInv'
    BY <1>1, <1>3 DEF SubsInv, StreamsInv, Data
<1> QED BY <1>6, <1>8, <1>9, <1>10 DEF SubsInv

\* Actions that leave the table of slots alone
LEMMA SameSlots ==
    ASSUME SubsInv, UNCHANGED <<slots, next_id, base>>
    PROVE  SlotsInv'
BY DEF SubsInv, SlotsInv, LiveSlots, Data

LEMMA ProcessUnknownInv ==
    ASSUME SubsInv, ProcessUnknown
    PROVE  SubsInv'
<1>1. UNCHANGED <<up, next_id, slots, handles, base, out, srv, need, garbled, halfway, called, meant>>
      /\ in # <<>> /\ in' = Tail(in)
    BY DEF ProcessUnknown, table, server
<1>2. /\ in' \in Seq([sid : Nat, data : Nat])
      /\ \A j \in DOMAIN in' : in'[j].sid \in 1 .. next_id' /\ in'[j].data = base' + in'[j].sid
    BY <1>1, TailIn
<1>3. TypeOK'
    BY <1>1, <1>2 DEF SubsInv, TypeOK
<1>4. StreamsInv'
    BY <1>1, <1>2 DEF SubsInv, StreamsInv, Data
<1> QED BY <1>1, <1>3, <1>4, SameSlots DEF SubsInv

LEMMA DisconnectInv ==
    ASSUME SubsInv, Disconnect
    PROVE  SubsInv'
<1>1. /\ slots' = <<>> /\ in' = <<>> /\ out' = <<>> /\ DOMAIN srv' = {}
      /\ next_id' = 0 /\ base' = base + next_id /\ base + next_id <= MaxSubs
      /\ called' = called /\ meant' = meant
    BY DEF Disconnect, SubsInv, SlotsInv
<1>2. base' \in Nat /\ MaxSubs \in Nat
    BY <1>1 DEF SubsInv, TypeOK
<1>3. TypeOK'
    <2>1. slots' \in Seq(Slot) /\ in' \in Seq([sid : Nat, data : Nat]) /\ out' \in Seq(Line)
        BY <1>1
    <2>2. handles' \in [Clients -> SUBSET Nat]
        BY DEF Disconnect, SubsInv, TypeOK
    <2>3. need' \in Nat \cup {Idle}
        BY DEF Disconnect
    <2>4. up' \in BOOLEAN /\ garbled' \in BOOLEAN /\ halfway' \in BOOLEAN
        BY DEF Disconnect
    <2>5. called' \in Calling /\ meant' \in Calling
        BY <1>1 DEF SubsInv, TypeOK
    <2>6. next_id' \in Nat
        BY <1>1
    <2> QED BY <2>1, <2>2, <2>3, <2>4, <2>5, <2>6, <1>1, <1>2, Zenon DEF TypeOK, Idle
<1>4. SlotsInv'
    BY <1>1, <1>2 DEF SlotsInv, LiveSlots
<1>5. StreamsInv'
    BY <1>1 DEF StreamsInv
<1> QED BY <1>1, <1>3, <1>4, <1>5 DEF SubsInv

LEMMA ServerReadsInv ==
    ASSUME SubsInv, ServerReads
    PROVE  SubsInv'
<1> DEFINE line == Head(out)
<1>1. UNCHANGED <<up, next_id, slots, handles, base, in, garbled, halfway, called, meant>>
      /\ out # <<>> /\ out' = Tail(out)
    BY DEF ServerReads, table
<1>2. /\ out' \in Seq(Line) /\ \A i \in DOMAIN out' : i + 1 \in DOMAIN out /\ out'[i] = out[i + 1]
      /\ line = out[1] /\ 1 \in DOMAIN out /\ line \in Line
    <2>1. out \in Seq(Line)
        BY DEF SubsInv, TypeOK
    <2> QED BY <2>1, <1>1
<1>3. line.cmd = "SUB" => line.sid \in 1 .. next_id /\ line.n = base + line.sid
    BY <1>2 DEF SubsInv, StreamsInv, Data
<1>4. line.sid \in Nat /\ line.n \in Nat
    BY <1>2 DEF Line
<1>5. next_id \in Nat /\ base \in Nat /\ Known(srv)
    BY DEF SubsInv, TypeOK, StreamsInv, Data, Known
<1>6. Known(srv')
    <2>1. CASE line.cmd = "SUB"
        <3>1. srv' = SrvSet(line.sid, line.n, 0, 0)
            BY <2>1 DEF ServerReads
        <3> QED BY <3>1, <2>1, <1>3, <1>4, <1>5, KnownSet
    <2>2. CASE line.cmd = "UNSUB" /\ line.sid \in DOMAIN srv /\ line.n > srv[line.sid].sent
        <3>1. srv' = SrvSet(line.sid, srv[line.sid].data, srv[line.sid].sent, line.n)
            BY <2>2 DEF ServerReads
        <3>2. line.sid \in 1 .. next_id /\ srv[line.sid].data = base + line.sid /\ srv[line.sid].sent \in Nat
            BY <2>2, <1>5 DEF Known
        <3> QED BY <3>1, <3>2, <1>4, <1>5, KnownSet
    <2>3. CASE line.cmd = "UNSUB" /\ line.sid \in DOMAIN srv /\ ~(line.n > srv[line.sid].sent)
        <3>1. srv' = Without(line.sid)
            BY <2>3 DEF ServerReads
        <3> QED BY <3>1, <2>3, <1>5 DEF Without, Known
    <2>4. CASE line.cmd # "SUB" /\ ~(line.cmd = "UNSUB" /\ line.sid \in DOMAIN srv)
        <3>1. srv' = srv
            BY <2>4 DEF ServerReads
        <3> QED BY <3>1, <1>5 DEF Known
    <2> QED BY <2>1, <2>2, <2>3, <2>4
<1>7. need' \in Nat \cup {Idle}
    BY <1>4 DEF ServerReads
<1> HIDE DEF line
<1>8. TypeOK'
    <2>1. DOMAIN srv' \subseteq Nat
        BY <1>5, <1>6 DEF Known
    <2>2. \A sid \in DOMAIN srv' : srv'[sid] \in [data : Nat, sent : Nat, max : Nat]
        BY <1>6 DEF Known
    <2> QED BY <2>1, <2>2, <1>1, <1>2, <1>7 DEF SubsInv, TypeOK
<1>9. StreamsInv'
    <2>1. ASSUME NEW i \in DOMAIN out', out'[i].cmd = "SUB"
          PROVE  out'[i].sid \in 1 .. next_id' /\ out'[i].n = base' + out'[i].sid
        BY <2>1, <1>1, <1>2 DEF SubsInv, StreamsInv, Data
    <2> QED BY <2>1, <1>1, <1>6 DEF SubsInv, StreamsInv, Data, Known
<1> QED BY <1>1, <1>8, <1>9, SameSlots DEF SubsInv

LEMMA ServerSendsInv ==
    ASSUME SubsInv, NEW sid \in DOMAIN srv, ServerSends(sid)
    PROVE  SubsInv'
<1> DEFINE m == [sid |-> sid, data |-> srv[sid].data]
           M == [sid : Nat, data : Nat]
<1>1. UNCHANGED <<up, next_id, slots, handles, base, out, need, garbled, halfway, called, meant>>
      /\ in' = Append(in, m)
    BY DEF ServerSends, table
<1>2. /\ sid \in 1 .. next_id /\ srv[sid].data = base + sid /\ next_id \in Nat /\ base \in Nat
      /\ sid \in Nat /\ srv[sid].data \in Nat /\ srv[sid].sent \in Nat /\ srv[sid].max \in Nat
    BY DEF SubsInv, TypeOK, StreamsInv, Data
<1>3. m \in M /\ m.sid = sid /\ m.data = base + sid
    BY <1>2
<1> HIDE DEF m, M
<1>4. in' \in Seq(M) /\ \A i \in DOMAIN in' : (i \in DOMAIN in /\ in'[i] = in[i]) \/ in'[i] = m
    <2>1. in \in Seq(M)
        BY DEF SubsInv, TypeOK, M
    <2> QED BY <2>1, <1>1, <1>3
<1>5. Known(srv)
    BY DEF SubsInv, TypeOK, StreamsInv, Data, Known
<1>6. Known(srv')
    <2>1. CASE srv[sid].sent + 1 = srv[sid].max
        BY <2>1, <1>5 DEF ServerSends, Without, Known
    <2>2. CASE srv[sid].sent + 1 # srv[sid].max
        <3>1. srv' = SrvSet(sid, srv[sid].data, srv[sid].sent + 1, srv[sid].max)
            BY <2>2 DEF ServerSends
        <3>2. srv[sid].sent + 1 \in Nat
            BY <1>2
        <3> QED BY <3>1, <3>2, <1>2, <1>5, KnownSet
    <2> QED BY <2>1, <2>2
<1>7. TypeOK'
    <2>1. DOMAIN srv' \subseteq Nat /\ in' \in Seq([sid : Nat, data : Nat])
        BY <1>2, <1>4, <1>6 DEF M, Known
    <2>2. \A x \in DOMAIN srv' : srv'[x] \in [data : Nat, sent : Nat, max : Nat]
        BY <1>6 DEF Known
    <2> QED BY <2>1, <2>2, <1>1 DEF SubsInv, TypeOK
<1>8. StreamsInv'
    <2>1. ASSUME NEW i \in DOMAIN in'
          PROVE  in'[i].sid \in 1 .. next_id' /\ in'[i].data = base' + in'[i].sid
        BY <1>1, <1>2, <1>3, <1>4 DEF SubsInv, StreamsInv, Data
    <2> QED BY <2>1, <1>1, <1>6 DEF SubsInv, StreamsInv, Data, Known
<1> QED BY <1>1, <1>7, <1>8, SameSlots DEF SubsInv

\* The actions that touch one flag or one counter
LEMMA OtherInv ==
    ASSUME SubsInv, SubscribeFails \/ Connect \/ ServerLost \/ UNCHANGED vars
    PROVE  SubsInv'
<1>1. next_id \in Nat /\ base \in Nat /\ MaxSubs \in Nat
    BY DEF SubsInv, TypeOK
<1>2. UNCHANGED <<slots, base, srv, out, in, called, meant, handles, need>>
    BY DEF SubscribeFails, Connect, ServerLost, vars, table, server
<1>3. next_id' \in Nat /\ next_id <= next_id' /\ base + next_id' <= MaxSubs
    BY <1>1 DEF SubscribeFails, Connect, ServerLost, vars, table, SubsInv, SlotsInv
<1>4. up' \in BOOLEAN /\ garbled' \in BOOLEAN /\ halfway' \in BOOLEAN
    BY DEF SubscribeFails, Connect, ServerLost, vars, server, SubsInv, TypeOK
<1>5. TypeOK'
    BY <1>2, <1>3, <1>4 DEF SubsInv, TypeOK
<1>6. SlotsInv'
    <2>1. LiveSlots' = LiveSlots
        BY <1>2 DEF LiveSlots
    <2>2. \A i \in LiveSlots : slots[i].sid \in 1 .. next_id'
        BY <1>1, <1>3 DEF SubsInv, SlotsInv
    <2> QED BY <2>1, <2>2, <1>2, <1>3 DEF SubsInv, SlotsInv, Data
<1>7. StreamsInv'
    <2>1. \A n \in 1 .. next_id : n \in 1 .. next_id'
        BY <1>1, <1>3
    <2> QED BY <2>1, <1>2 DEF SubsInv, StreamsInv, Data
<1> QED BY <1>2, <1>5, <1>6, <1>7 DEF SubsInv

LEMMA NextInv == SubsInv /\ [Next]_vars => SubsInv'
<1> SUFFICES ASSUME SubsInv, [Next]_vars PROVE SubsInv'
    OBVIOUS
<1>1. ASSUME NEW c \in Clients, NEW max \in Maxima, Subscribe(c, max) PROVE SubsInv'
    BY <1>1, SubscribeInv
<1>2. ASSUME NEW c \in Clients, NEW sid \in handles[c], Unsubscribe(c, sid) PROVE SubsInv'
    BY <1>2, UnsubscribeInv
<1>3. ASSUME NEW len \in Lengths, Publish(len) PROVE SubsInv'
    BY <1>3, PublishInv
<1>4. ASSUME NEW sid \in DOMAIN srv, ServerSends(sid) PROVE SubsInv'
    BY <1>4, ServerSendsInv
<1> QED BY <1>1, <1>2, <1>3, <1>4, ProcessMsgInv, ProcessUnknownInv, DisconnectInv,
           ServerReadsInv, OtherInv DEF Next, Calls, Server

\* Every reachable state satisfies the inductive invariant.
LEMMA InvCorrect == Spec => []SubsInv
BY InitInv, NextInv, PTL DEF Spec

\* The variables of NatsSubs keep their types.
THEOREM SubsTypeCorrect == Spec => []TypeOK
<1>1. SubsInv => TypeOK
    BY DEF SubsInv
<1> QED BY <1>1, InvCorrect, PTL

\* A message reaches the handler of the subscription the server sent it for,
\* through slots that are used again and sids that every connection gives out
\* anew: for any number of clients, subscriptions and connections, with failing
\* allocations and clients that use stale sids.
THEOREM DeliveryCorrect == Spec => []RightSubscription
<1>1. SubsInv => RightSubscription
    BY DEF SubsInv, RightSubscription
<1> QED BY <1>1, InvCorrect, PTL

\* No message names sid 0, with which ngx_nats_get_subscription would find a
\* free slot, or a sid that this connection has not given out.
THEOREM SidsCorrect == Spec => []SidsKnown
<1>1. SubsInv => SidsKnown
    BY DEF SubsInv, StreamsInv, SidsKnown
<1> QED BY <1>1, InvCorrect, PTL

-----------------------------------------------------------------------------
(* NatsSubs implements NatsPubSub *)

\* Live slots stand for different subscriptions.
LEMMA LiveDistinct ==
    ASSUME SubsInv, NEW i \in LiveSlots, NEW j \in LiveSlots,
           Subscription(slots[i]).data = Subscription(slots[j]).data
    PROVE  i = j
<1>1. slots[i].data = slots[j].data
    BY DEF Subscription
<1>2. /\ slots[i].data = base + slots[i].sid /\ slots[j].data = base + slots[j].sid
      /\ slots[i].sid \in Int /\ slots[j].sid \in Int /\ base \in Int
    BY DEF SubsInv, TypeOK, SlotsInv, Data
<1>3. slots[i].sid = slots[j].sid
    <2>1. \A a, b, d \in Int : a + b = a + d => b = d
        OBVIOUS
    <2> QED BY <2>1, <1>1, <1>2, Zenon
<1> QED BY <1>3 DEF SubsInv, SlotsInv

\* A step that removes slot i takes its subscription out of Live.
LEMMA LiveRemoved ==
    ASSUME SubsInv, NEW i \in LiveSlots, LiveSlots' = LiveSlots \ {i},
           \A j \in LiveSlots \ {i} : slots'[j] = slots[j]
    PROVE  Live' = Live \ {Subscription(slots[i])}
<1>1. Live' = {Subscription(slots'[j]) : j \in LiveSlots \ {i}}
    BY DEF Live, Subscription, Left
<1>2. Live' = {Subscription(slots[j]) : j \in LiveSlots \ {i}}
    BY <1>1
<1>3. \A j \in LiveSlots : Subscription(slots[i]) = Subscription(slots[j]) => i = j
    BY LiveDistinct
<1> QED BY <1>2, <1>3, Zenon DEF Live

\* A step that changes slot i, and keeps it live, changes its subscription.
LEMMA LiveChanged ==
    ASSUME SubsInv, NEW i \in LiveSlots, LiveSlots' = LiveSlots,
           \A j \in LiveSlots \ {i} : slots'[j] = slots[j]
    PROVE  Live' = (Live \ {Subscription(slots[i])}) \cup {Subscription(slots'[i])}
<1>1. Live' = {Subscription(slots'[j]) : j \in LiveSlots}
    BY DEF Live, Subscription, Left
<1>2. Live' = {Subscription(slots[j]) : j \in LiveSlots \ {i}} \cup {Subscription(slots'[i])}
    BY <1>1
<1>3. \A j \in LiveSlots : Subscription(slots[i]) = Subscription(slots[j]) => i = j
    BY LiveDistinct
<1>4. Live \ {Subscription(slots[i])} = {Subscription(slots[j]) : j \in LiveSlots \ {i}}
    BY <1>3, Zenon DEF Live
<1> QED BY <1>2, <1>4

LEMMA SubscribeRefines ==
    ASSUME SubsInv, NEW c \in Clients, NEW max \in Maxima, Subscribe(c, max)
    PROVE  PubSub!Subscribe(c, max)
<1> DEFINE sid == next_id + 1
           sub == [sid |-> sid, client |-> c, data |-> base + sid, max |-> max, recv |-> 0]
           new == [data |-> base + sid, client |-> c, left |-> max]
<1>1. next_id \in Nat /\ base \in Nat /\ slots \in Seq(Slot) /\ max \in Nat /\ MaxSubs \in Nat
    BY DEF SubsInv, TypeOK
<1>2. sid \in Nat /\ sub \in Slot
    BY <1>1 DEF Slot
<1>3. PICK i \in AddSubscription : slots' = SetSlot(i, sub)
    BY DEF Subscribe, Data
<1>4. i \in 1 .. Len(slots) + 1 /\ i \notin LiveSlots
    BY <1>1, <1>3, AddFacts
<1> HIDE DEF sub
<1>5. /\ DOMAIN slots' = DOMAIN slots \cup {i} /\ slots'[i] = sub
      /\ \A j \in DOMAIN slots \ {i} : slots'[j] = slots[j]
    <2>1. /\ DOMAIN SetSlot(i, sub) = DOMAIN slots \cup {i} /\ SetSlot(i, sub)[i] = sub
          /\ \A j \in DOMAIN slots \ {i} : SetSlot(i, sub)[j] = slots[j]
        BY ONLY <1>1, <1>2, <1>4, SetSlotFacts
    <2> QED BY <2>1, <1>3
<1>6. sub.sid = sid /\ sub.sid # 0 /\ Subscription(sub) = new
    BY <1>1 DEF sub, Subscription, Left
<1>7. LiveSlots' = LiveSlots \cup {i}
    BY <1>5, <1>6 DEF LiveSlots
<1>8. \A j \in LiveSlots : slots'[j] = slots[j]
    BY <1>4, <1>5 DEF LiveSlots
<1>9. Live' = {Subscription(slots'[j]) : j \in LiveSlots \cup {i}}
    BY <1>7 DEF Live, Subscription, Left
<1>10. Live' = Live \cup {new}
    BY <1>5, <1>6, <1>8, <1>9 DEF Live
<1>11. ASSUME NEW s \in Live PROVE s.data # base + sid
    <2>1. PICK j \in LiveSlots : s = Subscription(slots[j])
        BY DEF Live
    <2>2. s.data = base + slots[j].sid /\ slots[j].sid \in 1 .. next_id
        BY <2>1 DEF Subscription, SubsInv, SlotsInv, Data
    <2> QED BY <2>2, <1>1
<1>12. base + sid \in 1 .. MaxSubs /\ called' = called
    BY <1>1 DEF Subscribe
<1> QED BY <1>10, <1>11, <1>12 DEF PubSub!Subscribe

LEMMA UnsubscribeRefines ==
    ASSUME SubsInv, NEW c \in Clients, NEW sid \in handles[c], Unsubscribe(c, sid)
    PROVE  \E s \in Live : PubSub!Unsubscribe(s)
<1>1. PICK i \in GetSubscription(sid) : slots' = RemoveSubscription(i)
    BY DEF Unsubscribe
<1>2. i \in DOMAIN slots /\ slots[i].sid = sid
    BY <1>1, GetFacts
<1>3. slots \in Seq(Slot) /\ sid # 0 /\ next_id' = next_id /\ base' = base /\ called' = called
    BY DEF Unsubscribe, SubsInv, TypeOK
<1>4. i \in LiveSlots /\ slots[i] \in Slot
    BY <1>2, <1>3 DEF LiveSlots
<1>5. slots[i].recv \in Nat
    BY <1>4 DEF Slot
<1>6. LiveSlots' = LiveSlots \ {i} /\ \A j \in LiveSlots \ {i} : slots'[j] = slots[j]
    BY <1>1, <1>3, <1>4, <1>5, ChangeSlot DEF RemoveSubscription
<1>7. Live' = Live \ {Subscription(slots[i])}
    BY <1>4, <1>6, LiveRemoved
<1>8. Subscription(slots[i]) \in Live
    BY <1>4 DEF Live
<1> QED BY <1>3, <1>7, <1>8 DEF PubSub!Unsubscribe

\* Counting a message for a live slot is what Counted says of its subscription.
LEMMA CountRefines ==
    ASSUME SubsInv, NEW i \in LiveSlots, slots' = CountMessage(i), next_id' = next_id, base' = base
    PROVE  Live' = (Live \ {Subscription(slots[i])}) \cup PubSub!Counted(Subscription(slots[i]))
<1> DEFINE t == slots[i]
           s == Subscription(slots[i])
<1>1. t \in Slot
    BY DEF SubsInv, TypeOK, LiveSlots
<1>2. t.max \in Nat /\ t.recv \in Nat
    BY <1>1 DEF Slot
<1>3. t.max > 0 => t.recv < t.max
    BY DEF SubsInv, SlotsInv
<1>4. s \in Live /\ s.left = (IF t.max = 0 THEN 0 ELSE t.max - t.recv)
      /\ s.data = t.data /\ s.client = t.client
    BY DEF Live, Subscription, Left
<1>5. CASE t.max = 0
    <2>1. slots' = slots
        BY <1>5 DEF CountMessage
    <2>2. Live' = Live
        BY <2>1 DEF Live, LiveSlots, Subscription, Left
    <2>3. PubSub!Counted(s) = {s}
        BY <1>4, <1>5 DEF PubSub!Counted
    <2> QED BY <2>2, <2>3, <1>4
<1>6. CASE t.max # 0 /\ t.recv + 1 >= t.max
    <2>1. slots' = [slots EXCEPT ![i] = With(slots[i], 0, t.recv + 1)]
        BY <1>6 DEF CountMessage
    <2>2. t.recv + 1 \in Nat /\ 0 \in {0, slots[i].sid}
        BY <1>2
    <2>3. LiveSlots' = LiveSlots \ {i} /\ \A j \in LiveSlots \ {i} : slots'[j] = slots[j]
        BY <2>1, <2>2, ChangeSlot
    <2>4. Live' = Live \ {s}
        BY <2>3, LiveRemoved
    <2>5. s.left = 1
        BY <1>2, <1>3, <1>4, <1>6
    <2>6. PubSub!Counted(s) = {}
        BY <2>5 DEF PubSub!Counted
    <2> QED BY <2>4, <2>6
<1>7. CASE t.max # 0 /\ ~(t.recv + 1 >= t.max)
    <2>1. slots' = [slots EXCEPT ![i] = With(slots[i], slots[i].sid, t.recv + 1)]
        BY <1>7 DEF CountMessage
    <2>2. t.recv + 1 \in Nat /\ t.recv + 1 < t.max
        BY <1>2, <1>7
    <2>3. slots[i].sid # 0
        BY DEF LiveSlots
    <2>4. /\ LiveSlots' = LiveSlots /\ \A j \in LiveSlots \ {i} : slots'[j] = slots[j]
          /\ slots'[i] = With(slots[i], slots[i].sid, t.recv + 1)
        BY <2>1, <2>2, <2>3, ChangeSlot
    <2>5. Live' = (Live \ {s}) \cup {Subscription(slots'[i])}
        BY <2>4, LiveChanged
    <2>6. Subscription(slots'[i]) = [data |-> t.data, client |-> t.client, left |-> t.max - (t.recv + 1)]
        BY <2>4, <1>2, <1>7 DEF Subscription, Left, With
    <2>7. s.left - 1 = t.max - (t.recv + 1) /\ s.left # 0 /\ s.left # 1
        BY <1>2, <1>4, <1>7
    <2>8. PubSub!Counted(s) = {[data |-> t.data, client |-> t.client, left |-> t.max - (t.recv + 1)]}
        BY <2>7, <1>4 DEF PubSub!Counted
    <2> QED BY <2>5, <2>6, <2>8
<1> QED BY <1>5, <1>6, <1>7

LEMMA ProcessMsgRefines ==
    ASSUME SubsInv, ProcessMsg
    PROVE  \E s \in Live : PubSub!Deliver(s) \/ PubSub!Drop(s)
<1>1. next_id' = next_id /\ base' = base /\ in # <<>> /\ in' = Tail(in)
    BY DEF ProcessMsg
<1>2. PICK i \in GetSubscription(Head(in).sid) :
        /\ slots' = CountMessage(i)
        /\ called' = slots[i].data \/ called' = called
    BY DEF ProcessMsg
<1>3. Head(in).sid \in 1 .. next_id /\ next_id \in Nat
    BY <1>1, TailIn DEF SubsInv, TypeOK
<1>4. i \in LiveSlots
    BY <1>2, <1>3, GetFacts DEF LiveSlots
<1>5. Live' = (Live \ {Subscription(slots[i])}) \cup PubSub!Counted(Subscription(slots[i]))
    BY <1>1, <1>2, <1>4, CountRefines
<1>6. Subscription(slots[i]) \in Live /\ Subscription(slots[i]).data = slots[i].data
    BY <1>4 DEF Live, Subscription
<1> QED BY <1>2, <1>5, <1>6 DEF PubSub!Deliver, PubSub!Drop

LEMMA DisconnectRefines ==
    ASSUME Disconnect
    PROVE  PubSub!Disconnect
<1>1. slots' = <<>> /\ called' = called
    BY DEF Disconnect
<1>2. LiveSlots' = {}
    BY <1>1 DEF LiveSlots
<1>3. Live' = {}
    BY <1>2 DEF Live
<1> QED BY <1>1, <1>3 DEF PubSub!Disconnect

\* The other actions change nothing a client of NatsPubSub sees.
LEMMA OtherRefines ==
    ASSUME UNCHANGED <<slots, called>>
    PROVE  UNCHANGED PubSub!vars
<1>1. Live' = Live
    BY DEF Live, LiveSlots, Subscription, Left
<1> QED BY <1>1 DEF PubSub!vars

LEMMA NextRefines == SubsInv /\ [Next]_vars => [PubSub!Next]_(PubSub!vars)
<1> SUFFICES ASSUME SubsInv, [Next]_vars PROVE [PubSub!Next]_(PubSub!vars)
    OBVIOUS
<1>1. ASSUME NEW c \in Clients, NEW max \in Maxima, Subscribe(c, max) PROVE PubSub!Next
    BY <1>1, SubscribeRefines DEF PubSub!Next
<1>2. ASSUME NEW c \in Clients, NEW sid \in handles[c], Unsubscribe(c, sid) PROVE PubSub!Next
    BY <1>2, UnsubscribeRefines DEF PubSub!Next
<1>3. ASSUME ProcessMsg PROVE PubSub!Next
    BY <1>3, ProcessMsgRefines DEF PubSub!Next
<1>4. ASSUME Disconnect PROVE PubSub!Next
    BY <1>4, DisconnectRefines DEF PubSub!Next
<1>5. ASSUME \/ SubscribeFails \/ ProcessUnknown \/ Connect \/ Server
             \/ \E len \in Lengths : Publish(len)
             \/ UNCHANGED vars
      PROVE  UNCHANGED PubSub!vars
    <2>1. UNCHANGED <<slots, called>>
        BY <1>5 DEF SubscribeFails, ProcessUnknown, Connect, Server, ServerReads, ServerLost,
                    ServerSends, Publish, vars, table
    <2> QED BY <2>1, OtherRefines
<1> QED BY <1>1, <1>2, <1>3, <1>4, <1>5 DEF Next, Calls

\* NatsSubs implements NatsPubSub, for every value of the constants: slots that
\* are used again, counters on both sides, late messages and reconnects are
\* invisible to a client.
THEOREM SubsImplementsPubSub == Spec => ImplementsPubSub
<1>1. Init => PubSub!Init
    <2>1. Init => Live = {}
        BY DEF Init, Live, LiveSlots
    <2> QED BY <2>1 DEF Init, PubSub!Init
<1> QED BY <1>1, InvCorrect, NextRefines, PTL DEF Spec, ImplementsPubSub, PubSub!Spec

-----------------------------------------------------------------------------
(* What the actions do to the slots *)

LEMMA SubscribeSlots ==
    ASSUME SubsInv, NEW c \in Clients, NEW max \in Maxima, Subscribe(c, max)
    PROVE  /\ next_id' = next_id + 1 /\ next_id \in Nat /\ max \in Nat
           /\ \E i : /\ i \notin LiveSlots /\ LiveSlots' = LiveSlots \cup {i}
                     /\ \A j \in LiveSlots : slots'[j] = slots[j]
                     /\ slots'[i].sid = next_id + 1 /\ slots'[i].client = c
                     /\ slots'[i].max = max /\ slots'[i].recv = 0
<1> DEFINE sid == next_id + 1
           sub == [sid |-> sid, client |-> c, data |-> Data(sid), max |-> max, recv |-> 0]
<1>0. next_id \in Nat /\ base \in Nat /\ slots \in Seq(Slot) /\ max \in Nat
    BY DEF SubsInv, TypeOK
<1>1. /\ next_id \in Nat /\ base \in Nat /\ slots \in Seq(Slot) /\ max \in Nat
      /\ next_id' = sid /\ sid \in Nat
    BY <1>0 DEF Subscribe
<1>2. sub \in Slot /\ sub.sid = sid /\ sub.client = c /\ sub.max = max /\ sub.recv = 0
    BY <1>1 DEF Data, Slot
<1>3. PICK i \in AddSubscription : slots' = SetSlot(i, sub)
    BY <1>1 DEF Subscribe, Data
<1>4. i \in 1 .. Len(slots) + 1 /\ i \notin LiveSlots
    BY <1>1, AddFacts
<1> HIDE DEF sub
<1>5. /\ DOMAIN slots' = DOMAIN slots \cup {i} /\ slots'[i] = sub
      /\ \A j \in DOMAIN slots \ {i} : slots'[j] = slots[j]
    <2>1. /\ DOMAIN SetSlot(i, sub) = DOMAIN slots \cup {i} /\ SetSlot(i, sub)[i] = sub
          /\ \A j \in DOMAIN slots \ {i} : SetSlot(i, sub)[j] = slots[j]
        BY ONLY <1>1, <1>2, <1>4, SetSlotFacts
    <2> QED BY <1>3, <2>1
<1>6. LiveSlots' = LiveSlots \cup {i}
    BY <1>1, <1>2, <1>5 DEF LiveSlots
<1>7. \A j \in LiveSlots : slots'[j] = slots[j]
    BY <1>4, <1>5 DEF LiveSlots
<1> QED BY <1>1, <1>2, <1>4, <1>5, <1>6, <1>7

LEMMA UnsubscribeSlots ==
    ASSUME SubsInv, NEW c \in Clients, NEW sid \in handles[c], Unsubscribe(c, sid)
    PROVE  /\ sid \in Nat
           /\ \E i \in LiveSlots : /\ slots[i].sid = sid /\ LiveSlots' = LiveSlots \ {i}
                                   /\ \A j \in LiveSlots \ {i} : slots'[j] = slots[j]
<1>1. PICK i \in GetSubscription(sid) : slots' = RemoveSubscription(i)
    BY DEF Unsubscribe
<1>2. sid # 0 /\ slots \in Seq(Slot) /\ sid \in Nat /\ next_id' = next_id /\ base' = base
    BY DEF Unsubscribe, SubsInv, TypeOK
<1>3. i \in DOMAIN slots /\ slots[i].sid = sid
    BY <1>1, GetFacts
<1>4. slots[i] \in Slot
    BY <1>2, <1>3
<1>5. i \in LiveSlots /\ slots[i].recv \in Nat /\ 0 \in {0, slots[i].sid}
    BY <1>2, <1>3, <1>4 DEF LiveSlots, Slot
<1>6. LiveSlots' = LiveSlots \ {i} /\ \A j \in LiveSlots \ {i} : slots'[j] = slots[j]
    BY <1>1, <1>2, <1>5, ChangeSlot DEF RemoveSubscription
<1> QED BY <1>2, <1>3, <1>5, <1>6

\* The message at the head of the queue is counted in its slot, which goes with
\* the last one.
LEMMA ProcessMsgSlots ==
    ASSUME SubsInv, ProcessMsg
    PROVE  \E i \in LiveSlots :
             /\ slots[i].sid = Head(in).sid /\ slots[i].max \in Nat /\ slots[i].recv \in Nat
             /\ \A j \in LiveSlots \ {i} : slots'[j] = slots[j]
             /\ \/ slots[i].max = 0 /\ slots' = slots /\ LiveSlots' = LiveSlots
                \/ /\ slots[i].max > 0 /\ slots[i].recv + 1 >= slots[i].max
                   /\ LiveSlots' = LiveSlots \ {i}
                \/ /\ slots[i].max > 0 /\ LiveSlots' = LiveSlots
                   /\ slots'[i].sid = slots[i].sid /\ slots'[i].max = slots[i].max
                   /\ slots'[i].client = slots[i].client /\ slots'[i].recv = slots[i].recv + 1
<1>1. PICK i \in GetSubscription(Head(in).sid) : slots' = CountMessage(i)
    BY DEF ProcessMsg
<1>2. /\ slots \in Seq(Slot) /\ next_id' = next_id /\ base' = base /\ in # <<>>
      /\ in \in Seq([sid : Nat, data : Nat])
      /\ \A j \in DOMAIN in : in[j].sid \in 1 .. next_id
    BY DEF ProcessMsg, SubsInv, TypeOK, StreamsInv
<1>3. i \in DOMAIN slots /\ slots[i].sid = Head(in).sid
    BY <1>1, GetFacts
<1>4. Head(in).sid \in 1 .. next_id
    BY <1>2
<1>5. i \in LiveSlots /\ slots[i] \in Slot
    BY <1>2, <1>3, <1>4 DEF LiveSlots
<1>6. slots[i].max \in Nat /\ slots[i].recv \in Nat /\ slots[i].sid \in Nat
    BY <1>5 DEF Slot
<1>7. CASE slots[i].max = 0
    <2>1. slots' = slots
        BY <1>1, <1>7 DEF CountMessage
    <2>2. LiveSlots' = LiveSlots
        BY <2>1 DEF LiveSlots
    <2> QED BY <1>3, <1>5, <1>6, <1>7, <2>1, <2>2
<1>8. CASE slots[i].max # 0 /\ slots[i].recv + 1 >= slots[i].max
    <2>1. slots' = [slots EXCEPT ![i] = With(slots[i], 0, slots[i].recv + 1)]
        BY <1>1, <1>8 DEF CountMessage
    <2>2. slots[i].recv + 1 \in Nat /\ 0 \in {0, slots[i].sid}
        BY <1>6
    <2>3. LiveSlots' = LiveSlots \ {i} /\ \A j \in LiveSlots \ {i} : slots'[j] = slots[j]
        BY <1>2, <1>5, <2>1, <2>2, ChangeSlot
    <2> QED BY <1>3, <1>5, <1>6, <1>8, <2>3
<1>9. CASE slots[i].max # 0 /\ ~(slots[i].recv + 1 >= slots[i].max)
    <2> DEFINE s == slots[i]
    <2>1. slots' = [slots EXCEPT ![i] = With(s, s.sid, s.recv + 1)]
        BY <1>1, <1>9 DEF CountMessage
    <2>2. s.recv + 1 \in Nat /\ s.recv + 1 < s.max /\ s.sid # 0
        BY <1>5, <1>6, <1>9 DEF LiveSlots
    <2>3. /\ LiveSlots' = LiveSlots /\ \A j \in LiveSlots \ {i} : slots'[j] = slots[j]
          /\ slots'[i] = With(s, s.sid, s.recv + 1)
        BY <1>2, <1>5, <2>1, <2>2, ChangeSlot
    <2>4. s \in Slot /\ s.sid \in Nat
        BY <1>5, <1>6
    <2> HIDE DEF s
    <2>5. /\ slots'[i].sid = s.sid /\ slots'[i].max = s.max
          /\ slots'[i].client = s.client /\ slots'[i].recv = s.recv + 1
        <3> DEFINE x == s.sid
                   r == s.recv + 1
        <3>1. x \in Nat /\ r \in Nat /\ slots'[i] = With(s, x, r)
            BY <2>2, <2>3, <2>4
        <3> HIDE DEF x, r
        <3>2. /\ With(s, x, r).sid = x /\ With(s, x, r).recv = r
              /\ With(s, x, r).client = s.client /\ With(s, x, r).max = s.max
            BY ONLY <2>4, <3>1, WithFacts
        <3> QED BY <3>1, <3>2 DEF x, r
    <2> QED BY <1>3, <1>5, <1>6, <1>9, <2>3, <2>5 DEF s
<1> QED BY <1>7, <1>8, <1>9

\* The steps that leave the slots alone
LEMMA SlotsSame ==
    ASSUME SubsInv,
           \/ SubscribeFails \/ \E len \in Lengths : Publish(len)
           \/ ProcessUnknown \/ Connect \/ Server \/ UNCHANGED vars
    PROVE  /\ slots' = slots /\ handles' = handles /\ base' = base /\ LiveSlots' = LiveSlots
           /\ next_id \in Nat /\ next_id' \in {next_id, next_id + 1}
<1>1. /\ slots' = slots /\ handles' = handles /\ base' = base
      /\ next_id' \in {next_id, next_id + 1}
    BY DEF SubscribeFails, Publish, ProcessUnknown, Connect, Server, ServerReads, ServerLost,
       ServerSends, vars, table
<1> QED BY <1>1 DEF LiveSlots, SubsInv, TypeOK

-----------------------------------------------------------------------------
(* Who holds which sid *)

LEMMA HandlesInit == Init => HandlesInv
BY DEF Init, HandlesInv, HandlesOwned, LiveSlots

LEMMA HandlesNext ==
    ASSUME SubsInv, HandlesInv, ~StaleHandles, [Next]_vars
    PROVE  HandlesInv'
<1>0. /\ handles \in [Clients -> SUBSET Nat] /\ next_id \in Nat
      /\ \A c \in Clients : handles[c] \subseteq 1 .. next_id
      /\ \A c \in Clients, i \in LiveSlots : slots[i].sid \in handles[c] => slots[i].client = c
    BY DEF SubsInv, TypeOK, HandlesInv, HandlesOwned
<1>1. ASSUME NEW c \in Clients, NEW max \in Maxima, Subscribe(c, max) PROVE HandlesInv'
    <2>1. next_id' = next_id + 1
        BY <1>1 DEF Subscribe
    <2>2. PICK i : /\ i \notin LiveSlots /\ LiveSlots' = LiveSlots \cup {i}
                   /\ \A j \in LiveSlots : slots'[j] = slots[j]
                   /\ slots'[i].sid = next_id + 1 /\ slots'[i].client = c
        BY <1>1, SubscribeSlots
    <2>3. /\ \A d \in Clients : d # c => handles'[d] = handles[d]
          /\ handles'[c] = handles[c] \/ handles'[c] = handles[c] \cup {next_id + 1}
        BY <1>0, <1>1, <2>1 DEF Subscribe
    <2>4. \A d \in Clients : handles'[d] \subseteq 1 .. next_id'
        BY <1>0, <2>1, <2>3
    <2>5. ASSUME NEW d \in Clients, NEW j \in LiveSlots', slots'[j].sid \in handles'[d]
          PROVE  slots'[j].client = d
        <3>1. CASE j = i
            <4>1. next_id + 1 \notin handles[d]
                BY <1>0
            <4> QED BY <2>2, <2>3, <2>5, <3>1, <4>1
        <3>2. CASE j # i
            <4>1. j \in LiveSlots /\ slots'[j] = slots[j]
                BY <2>2, <3>2
            <4>2. slots[j].sid \in 1 .. next_id
                BY <4>1 DEF SubsInv, SlotsInv
            <4>3. slots[j].sid \in handles[d]
                BY <1>0, <2>3, <2>5, <4>1, <4>2
            <4> QED BY <1>0, <4>1, <4>3
        <3> QED BY <3>1, <3>2
    <2> QED BY <2>4, <2>5 DEF HandlesInv, HandlesOwned
<1>2. ASSUME NEW c \in Clients, NEW sid \in handles[c], Unsubscribe(c, sid) PROVE HandlesInv'
    <2>1. LiveSlots' \subseteq LiveSlots /\ \A j \in LiveSlots' : slots'[j] = slots[j]
        BY <1>2, UnsubscribeSlots
    <2>2. handles' = handles /\ next_id' = next_id
        BY <1>2 DEF Unsubscribe
    <2> QED BY <1>0, <2>1, <2>2 DEF HandlesInv, HandlesOwned
<1>3. CASE ProcessMsg
    <2>1. /\ LiveSlots' \subseteq LiveSlots
          /\ \A j \in LiveSlots' : slots'[j].sid = slots[j].sid /\ slots'[j].client = slots[j].client
        BY <1>3, ProcessMsgSlots
    <2>2. handles' = handles /\ next_id' = next_id
        BY <1>3 DEF ProcessMsg
    <2> QED BY <1>0, <2>1, <2>2 DEF HandlesInv, HandlesOwned
<1>4. CASE Disconnect
    <2>1. slots' = <<>> /\ handles' = [c \in Clients |-> {}]
        BY <1>4 DEF Disconnect
    <2>2. LiveSlots' = {} /\ \A c \in Clients : handles'[c] = {}
        BY <2>1 DEF LiveSlots
    <2> QED BY <2>2 DEF HandlesInv, HandlesOwned
<1>5. CASE \/ SubscribeFails \/ \E len \in Lengths : Publish(len)
           \/ ProcessUnknown \/ Connect \/ Server \/ UNCHANGED vars
    <2>1. /\ slots' = slots /\ handles' = handles /\ LiveSlots' = LiveSlots
          /\ next_id' \in {next_id, next_id + 1}
        BY <1>5, SlotsSame
    <2>2. 1 .. next_id \subseteq 1 .. next_id'
        BY <1>0, <2>1
    <2> QED BY <1>0, <2>1, <2>2 DEF HandlesInv, HandlesOwned
<1> QED BY <1>1, <1>2, <1>3, <1>4, <1>5 DEF Next, Calls

\* No client holds a sid under which ngx_nats_unsubscribe would find a
\* subscription of another client, as long as clients drop their sids with the
\* connection.
THEOREM HandlesCorrect ==
    ASSUME ~StaleHandles
    PROVE  Spec => []HandlesOwned
<1>1. SubsInv /\ HandlesInv /\ [Next]_vars => HandlesInv'
    BY HandlesNext
<1>2. HandlesInv => HandlesOwned
    BY DEF HandlesInv
<1> QED BY <1>1, <1>2, HandlesInit, InvCorrect, PTL DEF Spec


-----------------------------------------------------------------------------
(* Commands and payloads are told apart *)

LEMMA FramedTail ==
    ASSUME NEW q \in Seq(Line), q # <<>>, NEW n, Framed(n, q)
    PROVE  Fits(n, Head(q)) /\ Framed(After(Head(q)), Tail(q))
<1>1. /\ Fits(n, q[1]) /\ After(q[Len(q)]) = Idle
      /\ \A i \in 1 .. Len(q) - 1 : Fits(After(q[i]), q[i + 1])
    BY DEF Framed
<1>2. /\ Head(q) = q[1] /\ Tail(q) \in Seq(Line) /\ Len(q) \in Nat \ {0}
      /\ Len(Tail(q)) = Len(q) - 1 /\ \A i \in 1 .. Len(q) - 1 : Tail(q)[i] = q[i + 1]
    OBVIOUS
<1> DEFINE t == Tail(q)
<1> HIDE DEF t
<1>3. CASE t = <<>>
    <2>1. Len(q) = 1
        <3>1. Len(t) = 0
            BY <1>3, EmptySeq
        <3>2. Len(t) = Len(q) - 1 /\ Len(q) \in Nat
            BY <1>2 DEF t
        <3> QED BY ONLY <3>1, <3>2
    <2> QED BY <1>1, <1>2, <1>3, <2>1 DEF Framed, t
<1>4. CASE t # <<>>
    <2>1. Len(t) \in Nat \ {0} /\ Len(t) = Len(q) - 1
        BY <1>2, <1>4 DEF t
    <2>2. t[1] = q[2] /\ t[Len(t)] = q[Len(q)]
        <3>1. 1 \in 1 .. Len(q) - 1 /\ Len(t) \in 1 .. Len(q) - 1 /\ Len(t) + 1 = Len(q) /\ 1 + 1 = 2
            BY <1>2, <2>1
        <3> QED BY <1>2, <3>1 DEF t
    <2>3. Fits(After(q[1]), t[1])
        <3>1. 1 \in 1 .. Len(q) - 1 /\ 1 + 1 = 2
            BY <1>2, <2>1
        <3> QED BY <1>1, <2>2, <3>1
    <2>4. ASSUME NEW i \in 1 .. Len(t) - 1 PROVE Fits(After(t[i]), t[i + 1])
        <3>1. i \in 1 .. Len(q) - 1 /\ i + 1 \in 1 .. Len(q) - 1
            BY <1>2, <2>1
        <3>2. t[i] = q[i + 1] /\ t[i + 1] = q[(i + 1) + 1]
            BY <1>2, <3>1 DEF t
        <3> QED BY <1>1, <3>1, <3>2
    <2>5. Framed(After(q[1]), t)
        BY <1>1, <1>4, <2>2, <2>3, <2>4 DEF Framed
    <2> QED BY <1>1, <1>2, <2>5 DEF t
<1> QED BY <1>3, <1>4

LEMMA FramedConcat ==
    ASSUME NEW q \in Seq(Line), NEW w \in Seq(Line), NEW n, Framed(n, q), Framed(Idle, w)
    PROVE  Framed(n, q \o w)
<1>1. CASE q = <<>>
    <2>1. q \o w = w /\ n = Idle
        BY <1>1 DEF Framed
    <2> QED BY <2>1
<1>2. CASE w = <<>>
    <2>1. q \o w = q
        BY <1>2
    <2> QED BY <2>1
<1>3. CASE q # <<>> /\ w # <<>>
    <2> DEFINE s == q \o w
    <2>1. /\ s \in Seq(Line) /\ Len(s) = Len(q) + Len(w) /\ Len(q) \in Nat \ {0} /\ Len(w) \in Nat \ {0}
          /\ \A i \in 1 .. Len(q) : s[i] = q[i]
          /\ \A i \in Len(q) + 1 .. Len(q) + Len(w) : s[i] = w[i - Len(q)]
        BY <1>3
    <2>2. /\ Fits(n, q[1]) /\ After(q[Len(q)]) = Idle
          /\ \A i \in 1 .. Len(q) - 1 : Fits(After(q[i]), q[i + 1])
        BY <1>3 DEF Framed
    <2>3. /\ Fits(Idle, w[1]) /\ After(w[Len(w)]) = Idle
          /\ \A i \in 1 .. Len(w) - 1 : Fits(After(w[i]), w[i + 1])
        BY <1>3 DEF Framed
    <2> HIDE DEF s
    <2>4. s # <<>>
        <3>1. Len(s) # 0
            BY <2>1
        <3> QED BY <3>1
    <2>5. s[1] = q[1] /\ s[Len(s)] = w[Len(w)]
        <3>1. /\ 1 \in 1 .. Len(q) /\ Len(s) \in Len(q) + 1 .. Len(q) + Len(w)
              /\ Len(s) - Len(q) = Len(w)
            BY <2>1
        <3> QED BY <2>1, <3>1
    <2>6. ASSUME NEW i \in 1 .. Len(s) - 1 PROVE Fits(After(s[i]), s[i + 1])
        <3>1. CASE i < Len(q)
            <4>1. i \in 1 .. Len(q) - 1 /\ i \in 1 .. Len(q) /\ i + 1 \in 1 .. Len(q)
                BY <2>1, <3>1
            <4> QED BY <2>1, <2>2, <4>1
        <3>2. CASE i = Len(q)
            <4>1. /\ i \in 1 .. Len(q) /\ i + 1 \in Len(q) + 1 .. Len(q) + Len(w)
                  /\ (i + 1) - Len(q) = 1
                BY <2>1, <3>2
            <4>2. s[i] = q[Len(q)] /\ s[i + 1] = w[1]
                BY <2>1, <3>2, <4>1
            <4> QED BY <2>2, <2>3, <4>2
        <3>3. CASE i > Len(q)
            <4>1. /\ i \in Len(q) + 1 .. Len(q) + Len(w) /\ i + 1 \in Len(q) + 1 .. Len(q) + Len(w)
                  /\ i - Len(q) \in 1 .. Len(w) - 1 /\ (i + 1) - Len(q) = (i - Len(q)) + 1
                BY <2>1, <3>3
            <4>2. s[i] = w[i - Len(q)] /\ s[i + 1] = w[(i - Len(q)) + 1]
                BY <2>1, <4>1
            <4> QED BY <2>3, <4>1, <4>2
        <3> QED BY <2>1, <3>1, <3>2, <3>3
    <2> QED BY <2>2, <2>3, <2>4, <2>5, <2>6 DEF Framed, s
<1> QED BY <1>1, <1>2, <1>3

\* What the calls write
LEMMA LineFacts ==
    ASSUME NEW sid \in Nat, NEW n \in Nat, base \in Nat
    PROVE  /\ Sub(sid) \in Line /\ Sub(sid).cmd = "SUB" /\ Sub(sid).sid = sid
           /\ Unsub(sid, n) \in Line /\ Unsub(sid, n).cmd = "UNSUB" /\ Unsub(sid, n).sid = sid
           /\ Unsub(sid, n).n = n
           /\ Pub(n) \in Line /\ Pub(n).cmd = "PUB" /\ Pub(n).n = n
           /\ Bytes(n) \in Line /\ Bytes(n).cmd = "bytes" /\ CRLF \in Line /\ CRLF.cmd = "crlf"
BY DEF Sub, Unsub, Pub, Bytes, CRLF, Data, Line

LEMMA FramedSubscribe ==
    ASSUME NEW sid \in Nat, NEW max \in Nat, base \in Nat
    PROVE  /\ SubscribeLines(sid, max) \in Seq(Line) /\ Framed(Idle, SubscribeLines(sid, max))
           /\ <<Unsub(sid, max)>> \in Seq(Line) /\ Framed(Idle, <<Unsub(sid, max)>>)
<1> DEFINE a == Sub(sid)
           b == Unsub(sid, max)
<1>1. a \in Line /\ a.cmd = "SUB" /\ b \in Line /\ b.cmd = "UNSUB"
    BY LineFacts
<1> HIDE DEF a, b
<1>2. /\ Fits(Idle, a) /\ Fits(Idle, b) /\ After(a) = Idle /\ After(b) = Idle
    BY <1>1 DEF Fits, After
<1>3. /\ <<a>> \in Seq(Line) /\ <<a>> # <<>> /\ Len(<<a>>) = 1 /\ <<a>>[1] = a
      /\ <<b>> \in Seq(Line) /\ <<b>> # <<>> /\ Len(<<b>>) = 1 /\ <<b>>[1] = b
      /\ <<a, b>> \in Seq(Line) /\ <<a, b>> # <<>> /\ Len(<<a, b>>) = 2
      /\ <<a, b>>[1] = a /\ <<a, b>>[2] = b
    BY <1>1
<1>4. Framed(Idle, <<a>>) /\ Framed(Idle, <<b>>)
    BY <1>2, <1>3 DEF Framed
<1>5. Framed(Idle, <<a, b>>)
    BY <1>2, <1>3 DEF Framed
<1> QED BY <1>3, <1>4, <1>5 DEF SubscribeLines, a, b

LEMMA FramedPublish ==
    ASSUME NEW len \in Nat, NEW strlen \in {0}, base \in Nat
    PROVE  LET lines == <<Pub(len)>> \o Payload(len, strlen) \o <<CRLF>>
           IN  lines \in Seq(Line) /\ Framed(Idle, lines)
<1> DEFINE a == Pub(len)
           b == Bytes(len)
           c == CRLF
<1>1. /\ a \in Line /\ a.cmd = "PUB" /\ a.n = len /\ b \in Line /\ b.cmd = "bytes"
      /\ c \in Line /\ c.cmd = "crlf"
    BY LineFacts
<1>2. /\ Fits(Idle, a) /\ After(a) = len /\ After(b) = 0 /\ After(c) = Idle /\ Fits(0, c)
      /\ len > 0 => Fits(len, b)
    BY <1>1 DEF Fits, After
<1>3. CASE len > 0
    <2>1. Payload(len, strlen) = <<b>>
        BY <1>3 DEF Payload
    <2> HIDE DEF a, b, c
    <2> DEFINE t == <<a>> \o <<b>>
               s == t \o <<c>>
    <2>2. t \in Seq(Line) /\ Len(t) = 2 /\ t[1] = a /\ t[2] = b
        BY <1>1
    <2> HIDE DEF t
    <2>3. s \in Seq(Line) /\ s # <<>> /\ Len(s) = 3 /\ s[1] = a /\ s[2] = b /\ s[3] = c
        <3> DEFINE u == <<c>>
        <3>1. u \in Seq(Line) /\ Len(u) = 1 /\ u[1] = c
            BY <1>1
        <3> HIDE DEF u
        <3>2. /\ t \o u \in Seq(Line) /\ Len(t \o u) = Len(t) + Len(u)
              /\ \A i \in 1 .. Len(t) + Len(u) :
                    (t \o u)[i] = IF i <= Len(t) THEN t[i] ELSE u[i - Len(t)]
            BY <2>2, <3>1, ConcatProperties
        <3> DEFINE v == t \o u
        <3> HIDE DEF v
        <3>3. /\ v \in Seq(Line) /\ Len(v) = 3
              /\ \A i \in 1 .. 3 : v[i] = IF i <= 2 THEN t[i] ELSE u[i - 2]
            BY <2>2, <3>1, <3>2 DEF v
        <3>4. v[1] = a /\ v[2] = b /\ v[3] = c /\ v # <<>>
            BY <2>2, <3>1, <3>3
        <3>5. v = s
            BY DEF u, v
        <3> QED BY <3>3, <3>4, <3>5
    <2>4. \A i \in 1 .. 2 : Fits(After(s[i]), s[i + 1])
        BY <1>2, <1>3, <2>3
    <2> HIDE DEF s
    <2>5. Framed(Idle, s)
        BY <1>2, <2>3, <2>4 DEF Framed
    <2> QED BY <2>1, <2>3, <2>5 DEF s, a, b, c, t
<1>4. CASE len = 0
    <2>1. Payload(len, strlen) = <<>>
        BY <1>4 DEF Payload
    <2> HIDE DEF a, b, c
    <2> DEFINE s == <<a>> \o <<>> \o <<c>>
    <2>2. <<a>> \o <<>> = <<a>>
        BY <1>1
    <2>3. s \in Seq(Line) /\ s # <<>> /\ Len(s) = 2 /\ s[1] = a /\ s[2] = c
        BY <1>1, <2>2
    <2>4. \A i \in 1 .. 1 : Fits(After(s[i]), s[i + 1])
        BY <1>2, <1>4, <2>3
    <2> HIDE DEF s
    <2>5. Framed(Idle, s)
        BY <1>2, <2>3, <2>4 DEF Framed
    <2> QED BY <2>1, <2>3, <2>5 DEF s, a, b, c
<1> QED BY <1>3, <1>4


\* A call that does not fail writes all its lines.
LEMMA WholeCall ==
    ASSUME NEW lines \in Seq(Line), NEW k \in 0 .. Len(lines), WriteLines(lines, k), ~halfway'
    PROVE  ~halfway /\ out' = out \o lines
<1>1. ~halfway /\ k = Len(lines) /\ out' = out \o SubSeq(lines, 1, k)
    <2>1. ~halfway /\ ~(k < Len(lines)) /\ out' = out \o SubSeq(lines, 1, k)
        BY Zenon DEF WriteLines
    <2> QED BY <2>1
<1>2. SubSeq(lines, 1, Len(lines)) = lines
    OBVIOUS
<1> QED BY <1>1, <1>2

\* What a step appends to the stream when it does not fail
LEMMA WholeSubscribe ==
    ASSUME SubsInv, NEW c \in Clients, NEW max \in Maxima, Subscribe(c, max), ~halfway'
    PROVE  /\ ~halfway /\ out' = out \o SubscribeLines(next_id + 1, max)
           /\ SubscribeLines(next_id + 1, max) \in Seq(Line)
<1>1. next_id + 1 \in Nat /\ base \in Nat /\ max \in Nat
    BY DEF SubsInv, TypeOK
<1>2. PICK k \in 0 .. Len(SubscribeLines(next_id + 1, max)) :
        WriteLines(SubscribeLines(next_id + 1, max), k)
    BY DEF Subscribe
<1>3. SubscribeLines(next_id + 1, max) \in Seq(Line)
    BY <1>1, FramedSubscribe
<1> QED BY <1>2, <1>3, WholeCall

LEMMA WholeUnsubscribe ==
    ASSUME SubsInv, NEW c \in Clients, NEW sid \in handles[c], Unsubscribe(c, sid), ~halfway'
    PROVE  ~halfway /\ out' = out \o <<Unsub(sid, 0)>> /\ <<Unsub(sid, 0)>> \in Seq(Line)
<1>1. sid \in Nat /\ base \in Nat
    BY DEF SubsInv, TypeOK
<1>2. PICK k \in 0 .. 1 : WriteLines(<<Unsub(sid, 0)>>, k)
    BY DEF Unsubscribe
<1>3. <<Unsub(sid, 0)>> \in Seq(Line) /\ Len(<<Unsub(sid, 0)>>) = 1
    BY <1>1, FramedSubscribe
<1> QED BY <1>2, <1>3, WholeCall

LEMMA FramesInit == Init => FramesInv
BY DEF Init, FramesInv, Framed

LEMMA FramesNext ==
    ASSUME SubsInv, FramesInv, Strings \subseteq {0}, [Next]_vars
    PROVE  FramesInv'
<1> SUFFICES ASSUME ~halfway' PROVE ~garbled' /\ Framed(need', out')
    BY DEF FramesInv
<1>0. out \in Seq(Line) /\ next_id + 1 \in Nat /\ base \in Nat
    BY DEF SubsInv, TypeOK
<1>1. ASSUME NEW lines \in Seq(Line), Framed(Idle, lines), ~halfway, out' = out \o lines,
             UNCHANGED <<need, garbled>>
      PROVE  ~garbled' /\ Framed(need', out')
    <2>1. Framed(need, out) /\ ~garbled
        BY <1>1 DEF FramesInv
    <2> QED BY <1>0, <1>1, <2>1, FramedConcat
<1>2. ASSUME NEW c \in Clients, NEW max \in Maxima, Subscribe(c, max)
      PROVE  ~garbled' /\ Framed(need', out')
    <2>1. /\ ~halfway /\ out' = out \o SubscribeLines(next_id + 1, max)
          /\ SubscribeLines(next_id + 1, max) \in Seq(Line)
        BY <1>2, WholeSubscribe
    <2>2. Framed(Idle, SubscribeLines(next_id + 1, max))
        <3>1. max \in Nat
            OBVIOUS
        <3> QED BY <1>0, <3>1, FramedSubscribe
    <2>3. UNCHANGED <<need, garbled>>
        BY <1>2 DEF Subscribe, server
    <2> QED BY <1>1, <2>1, <2>2, <2>3
<1>3. ASSUME NEW c \in Clients, NEW sid \in handles[c], Unsubscribe(c, sid)
      PROVE  ~garbled' /\ Framed(need', out')
    <2>1. ~halfway /\ out' = out \o <<Unsub(sid, 0)>> /\ <<Unsub(sid, 0)>> \in Seq(Line)
        BY <1>3, WholeUnsubscribe
    <2>2. Framed(Idle, <<Unsub(sid, 0)>>)
        <3>1. sid \in Nat
            BY DEF SubsInv, TypeOK
        <3> QED BY <1>0, <3>1, FramedSubscribe
    <2>3. UNCHANGED <<need, garbled>>
        BY <1>3 DEF Unsubscribe, server
    <2> QED BY <1>1, <2>1, <2>2, <2>3
<1>4. ASSUME NEW len \in Lengths, Publish(len)
      PROVE  ~garbled' /\ Framed(need', out')
    <2>1. PICK strlen \in Strings :
            LET l == <<Pub(len)>> \o Payload(len, strlen) \o <<CRLF>>
            IN  \E k \in 0 .. Len(l) : WriteLines(l, k)
        BY <1>4 DEF Publish
    <2> DEFINE lines == <<Pub(len)>> \o Payload(len, strlen) \o <<CRLF>>
    <2>2. PICK k \in 0 .. Len(lines) : WriteLines(lines, k)
        BY <2>1
    <2>3. lines \in Seq(Line) /\ Framed(Idle, lines)
        <3>1. len \in Nat /\ strlen \in {0}
            OBVIOUS
        <3> QED BY <1>0, <3>1, FramedPublish
    <2> HIDE DEF lines
    <2>4. ~halfway /\ out' = out \o lines
        BY <2>2, <2>3, WholeCall
    <2>5. UNCHANGED <<need, garbled>>
        BY <1>4 DEF Publish, server
    <2> QED BY <1>1, <2>3, <2>4, <2>5
<1>5. CASE ServerReads
    <2>1. out # <<>> /\ out' = Tail(out) /\ ~halfway /\ garbled' = garbled
        BY <1>5 DEF ServerReads
    <2>2. need' = After(Head(out))
        BY <1>5 DEF ServerReads, After
    <2>3. Framed(need, out) /\ ~garbled
        BY <2>1 DEF FramesInv
    <2> QED BY <1>0, <2>1, <2>2, <2>3, FramedTail
<1>6. CASE ServerLost
    <2>1. out # <<>> /\ ~halfway /\ ~Expected(Head(out))
        BY <1>6 DEF ServerLost
    <2>2. Fits(need, Head(out))
        BY <1>0, <2>1, FramedTail DEF FramesInv
    <2> QED BY <2>1, <2>2 DEF Expected, Fits
<1>7. CASE Disconnect
    BY <1>7 DEF Disconnect, Framed
<1>8. CASE \/ SubscribeFails \/ ProcessMsg \/ ProcessUnknown \/ Connect \/ UNCHANGED vars
           \/ \E sid \in DOMAIN srv : ServerSends(sid)
    <2>1. UNCHANGED <<out, need, garbled, halfway>>
        BY <1>8 DEF SubscribeFails, ProcessMsg, ProcessUnknown, Connect, vars, server, ServerSends
    <2> QED BY <2>1 DEF FramesInv
<1> QED BY <1>2, <1>3, <1>4, <1>5, <1>6, <1>7, <1>8 DEF Next, Calls, Server

\* The server reads the commands that the calls wrote and never loses its way in
\* the stream, unless a call failed halfway, for clients that publish an empty
\* payload with an empty string.
THEOREM FramesCorrect ==
    ASSUME Strings \subseteq {0}
    PROVE  Spec => []FramesKept
<1>1. SubsInv /\ FramesInv /\ [Next]_vars => FramesInv'
    BY FramesNext
<1>2. FramesInv => FramesKept
    BY DEF FramesInv, FramesKept
<1> QED BY <1>1, <1>2, FramesInit, InvCorrect, PTL DEF Spec


-----------------------------------------------------------------------------
(* Counting and ordering what is under way *)

Msg == [sid : Nat, data : Nat]

At(q, sid) == {i \in 1 .. Len(q) : q[i].sid = sid}

LEMMA AtFinite ==
    ASSUME NEW q \in Seq(Msg), NEW sid
    PROVE  IsFiniteSet(At(q, sid)) /\ Coming(q, sid) = Cardinality(At(q, sid)) /\ Coming(q, sid) \in Nat
<1>1. Len(q) \in Nat /\ IsFiniteSet(1 .. Len(q))
    BY FS_Interval
<1>2. At(q, sid) \in SUBSET (1 .. Len(q))
    BY DEF At
<1>3. IsFiniteSet(At(q, sid))
    BY <1>1, <1>2, FS_Subset
<1> QED BY <1>3, FS_CardinalityType DEF Coming, At

LEMMA ComingNone ==
    ASSUME NEW q \in Seq(Msg), NEW sid, \A i \in 1 .. Len(q) : q[i].sid # sid
    PROVE  Coming(q, sid) = 0
<1>1. At(q, sid) = {}
    BY DEF At
<1> QED BY <1>1, AtFinite, FS_EmptySet

LEMMA ComingAppend ==
    ASSUME NEW q \in Seq(Msg), NEW m \in Msg, NEW sid
    PROVE  Coming(Append(q, m), sid) = IF m.sid = sid THEN Coming(q, sid) + 1 ELSE Coming(q, sid)
<1>1. /\ Append(q, m) \in Seq(Msg) /\ Len(Append(q, m)) = Len(q) + 1 /\ Len(q) \in Nat
      /\ \A i \in 1 .. Len(q) : Append(q, m)[i] = q[i]
      /\ Append(q, m)[Len(q) + 1] = m
    BY AppendProperties
<1>2. CASE m.sid = sid
    <2>1. At(Append(q, m), sid) = At(q, sid) \cup {Len(q) + 1}
        BY <1>1, <1>2 DEF At
    <2>2. Len(q) + 1 \notin At(q, sid)
        BY <1>1 DEF At
    <2> DEFINE S == At(q, sid)
               x == Len(q) + 1
    <2>3. IsFiniteSet(S) /\ x \notin S
        BY <2>2, AtFinite
    <2> HIDE DEF S, x
    <2>4. Cardinality(S \cup {x}) = Cardinality(S) + 1
        BY ONLY <2>3, FS_AddElement
    <2>5. Coming(Append(q, m), sid) = Cardinality(S \cup {x}) /\ Coming(q, sid) = Cardinality(S)
        BY <1>1, <2>1, AtFinite DEF S, x
    <2> QED BY <1>2, <2>4, <2>5
<1>3. CASE m.sid # sid
    <2>1. At(Append(q, m), sid) = At(q, sid)
        BY <1>1, <1>3 DEF At
    <2> QED BY <1>1, <1>3, <2>1, AtFinite
<1> QED BY <1>2, <1>3

LEMMA ComingTail ==
    ASSUME NEW q \in Seq(Msg), q # <<>>, NEW sid
    PROVE  Coming(q, sid) = IF Head(q).sid = sid THEN Coming(Tail(q), sid) + 1
                            ELSE Coming(Tail(q), sid)
<1>1. /\ Tail(q) \in Seq(Msg) /\ Len(Tail(q)) = Len(q) - 1 /\ Len(q) \in Nat \ {0}
      /\ \A i \in 1 .. Len(q) - 1 : Tail(q)[i] = q[i + 1]
      /\ Head(q) = q[1]
    OBVIOUS
<1> DEFINE S == At(Tail(q), sid)
           T == At(q, sid) \ {1}
           f == [i \in S |-> i + 1]
<1>2. IsFiniteSet(S) /\ IsFiniteSet(At(q, sid)) /\ Coming(Tail(q), sid) = Cardinality(S)
      /\ Coming(q, sid) = Cardinality(At(q, sid)) /\ Coming(q, sid) \in Nat
    BY <1>1, AtFinite
<1>3. ExistsBijection(S, T)
    <2>1. \A i \in S : i \in Nat /\ i + 1 \in T
        BY <1>1 DEF At
    <2>2. f \in [S -> T]
        BY <2>1
    <2>3. \A a, b \in S : f[a] = f[b] => a = b
        BY <2>1
    <2>4. \A t \in T : \E s \in S : f[s] = t
        <3> SUFFICES ASSUME NEW t \in T PROVE \E s \in S : f[s] = t
            OBVIOUS
        <3>1. t \in 1 .. Len(q) /\ t # 1 /\ q[t].sid = sid
            BY DEF At
        <3>2. t - 1 \in 1 .. Len(q) - 1 /\ (t - 1) + 1 = t
            BY <1>1, <3>1
        <3>3. t - 1 \in S
            BY <1>1, <3>1, <3>2 DEF At
        <3>4. f[t - 1] = t
            BY <3>2, <3>3
        <3> QED BY <3>3, <3>4
    <2> HIDE DEF f, S, T
    <2>5. f \in Bijection(S, T)
        BY <2>2, <2>3, <2>4, Fun_IsBij
    <2> QED BY <2>5 DEF ExistsBijection
<1>4. Cardinality(T) = Cardinality(S)
    BY <1>2, <1>3, FS_Bijection
<1>5. 1 \in At(q, sid) <=> Head(q).sid = sid
    BY <1>1 DEF At
<1> DEFINE U == At(q, sid)
<1>6. IsFiniteSet(U) /\ Cardinality(U \ {1}) = Cardinality(S)
    BY <1>2, <1>4
<1> HIDE DEF S, U
<1>7. Cardinality(U \ {1}) = IF 1 \in U THEN Cardinality(U) - 1 ELSE Cardinality(U)
    BY ONLY <1>6, FS_RemoveElement
<1> QED BY <1>2, <1>5, <1>6, <1>7 DEF U

LEMMA LinesTail ==
    ASSUME NEW q \in Seq(Line), q # <<>>
    PROVE  /\ Lines(q) = Lines(Tail(q)) \cup {Head(q)}
           /\ Ordered(q) => Ordered(Tail(q))
           /\ Ordered(q) /\ Head(q).cmd \in {"SUB", "UNSUB"} =>
                \A l \in Lines(Tail(q)) : l.cmd = "SUB" => l.sid # Head(q).sid
<1>1. /\ Tail(q) \in Seq(Line) /\ Len(Tail(q)) = Len(q) - 1 /\ Len(q) \in Nat \ {0}
      /\ \A i \in 1 .. Len(q) - 1 : Tail(q)[i] = q[i + 1]
      /\ Head(q) = q[1]
    OBVIOUS
<1> DEFINE t == Tail(q)
<1>2. \A i \in 1 .. Len(t) : i + 1 \in 1 .. Len(q) /\ t[i] = q[i + 1]
    BY <1>1
<1>3. \A i \in 1 .. Len(q) : i = 1 \/ (i - 1 \in 1 .. Len(t) /\ t[i - 1] = q[i])
    BY <1>1
<1>4. 1 \in 1 .. Len(q) /\ Head(q) = q[1] /\ Len(t) \in Nat
    BY <1>1
<1> HIDE DEF t
<1>5. Lines(q) = Lines(t) \cup {Head(q)}
    <2>1. \A l \in Lines(t) : l \in Lines(q)
        BY <1>2 DEF Lines
    <2>2. \A l \in Lines(q) : l \in Lines(t) \/ l = Head(q)
        <3> SUFFICES ASSUME NEW i \in 1 .. Len(q) PROVE q[i] \in Lines(t) \/ q[i] = Head(q)
            BY DEF Lines
        <3> QED BY <1>3, <1>4 DEF Lines
    <2>3. Head(q) \in Lines(q)
        BY <1>4 DEF Lines
    <2> QED BY <2>1, <2>2, <2>3
<1>6. Ordered(q) => Ordered(t)
    <2> SUFFICES ASSUME Ordered(q), NEW i \in 1 .. Len(t), NEW j \in 1 .. Len(t), t[i].cmd = "SUB",
                        t[j].cmd \in {"SUB", "UNSUB"}, t[j].sid = t[i].sid
                 PROVE  i <= j
        BY DEF Ordered
    <2>1. i + 1 <= j + 1
        BY <1>2 DEF Ordered
    <2> QED BY <1>4, <2>1
<1>7. ASSUME Ordered(q), Head(q).cmd \in {"SUB", "UNSUB"}, NEW l \in Lines(t), l.cmd = "SUB"
      PROVE  l.sid # Head(q).sid
    <2>1. PICK i \in 1 .. Len(t) : l = t[i]
        BY DEF Lines
    <2>2. i + 1 \in 1 .. Len(q) /\ q[i + 1] = l /\ ~(i + 1 <= 1)
        BY <1>2, <1>4, <2>1
    <2> QED BY <1>4, <1>7, <2>2 DEF Ordered
<1> QED BY <1>5, <1>6, <1>7 DEF t

LEMMA LinesConcat ==
    ASSUME NEW q \in Seq(Line), NEW w \in Seq(Line)
    PROVE  /\ Lines(q \o w) = Lines(q) \cup Lines(w)
           /\ Ordered(q) /\ Ordered(w)
              /\ (\A l \in Lines(q), m \in Lines(w) :
                    l.cmd \in {"SUB", "UNSUB"} /\ m.cmd = "SUB" => l.sid # m.sid)
              => Ordered(q \o w)
<1> DEFINE s == q \o w
<1>1. /\ Len(s) = Len(q) + Len(w) /\ Len(q) \in Nat /\ Len(w) \in Nat
      /\ \A i \in 1 .. Len(q) : s[i] = q[i]
      /\ \A i \in Len(q) + 1 .. Len(q) + Len(w) : s[i] = w[i - Len(q)]
    OBVIOUS
<1> HIDE DEF s
<1>2. \A i \in 1 .. Len(s) : \/ i \in 1 .. Len(q) /\ s[i] = q[i]
                             \/ i - Len(q) \in 1 .. Len(w) /\ i > Len(q) /\ s[i] = w[i - Len(q)]
    BY <1>1
<1>3. /\ \A i \in 1 .. Len(q) : i \in 1 .. Len(s) /\ s[i] = q[i]
      /\ \A i \in 1 .. Len(w) : Len(q) + i \in 1 .. Len(s) /\ s[Len(q) + i] = w[i]
    <2>1. ASSUME NEW i \in 1 .. Len(w) PROVE Len(q) + i \in 1 .. Len(s) /\ s[Len(q) + i] = w[i]
        <3>1. /\ Len(q) + i \in Len(q) + 1 .. Len(q) + Len(w) /\ (Len(q) + i) - Len(q) = i
              /\ Len(q) + i \in 1 .. Len(s)
            BY <1>1
        <3> QED BY <1>1, <3>1
    <2> QED BY <1>1, <2>1
<1>4. Lines(s) = Lines(q) \cup Lines(w)
    <2>1. \A l \in Lines(q) : l \in Lines(s)
        BY <1>3 DEF Lines
    <2>2. \A l \in Lines(w) : l \in Lines(s)
        <3> SUFFICES ASSUME NEW i \in 1 .. Len(w) PROVE w[i] \in Lines(s)
            BY DEF Lines
        <3> QED BY <1>3 DEF Lines
    <2>3. \A l \in Lines(s) : l \in Lines(q) \/ l \in Lines(w)
        <3> SUFFICES ASSUME NEW i \in 1 .. Len(s) PROVE s[i] \in Lines(q) \/ s[i] \in Lines(w)
            BY DEF Lines
        <3> QED BY <1>2 DEF Lines
    <2> QED BY <2>1, <2>2, <2>3
<1>5. ASSUME Ordered(q), Ordered(w),
             \A l \in Lines(q), m \in Lines(w) :
                l.cmd \in {"SUB", "UNSUB"} /\ m.cmd = "SUB" => l.sid # m.sid,
             NEW i \in 1 .. Len(s), NEW j \in 1 .. Len(s), s[i].cmd = "SUB",
             s[j].cmd \in {"SUB", "UNSUB"}, s[j].sid = s[i].sid
      PROVE  i <= j
    <2>1. CASE i \in 1 .. Len(q) /\ s[i] = q[i]
        <3>1. CASE j \in 1 .. Len(q) /\ s[j] = q[j]
            BY <1>5, <2>1, <3>1 DEF Ordered
        <3>2. CASE j > Len(q)
            BY <1>1, <2>1, <3>2
        <3> QED BY <1>2, <3>1, <3>2
    <2>2. CASE i - Len(q) \in 1 .. Len(w) /\ i > Len(q) /\ s[i] = w[i - Len(q)]
        <3>1. CASE j \in 1 .. Len(q) /\ s[j] = q[j]
            BY <1>5, <2>2, <3>1 DEF Lines
        <3>2. CASE j - Len(q) \in 1 .. Len(w) /\ s[j] = w[j - Len(q)]
            <4>1. i - Len(q) <= j - Len(q)
                BY <1>5, <2>2, <3>2 DEF Ordered
            <4> QED BY <1>1, <4>1
        <3> QED BY <1>2, <3>1, <3>2
    <2> QED BY <1>2, <2>1, <2>2
<1> QED BY <1>4, <1>5 DEF Ordered, s


-----------------------------------------------------------------------------
(* Client and server agree *)

\* A step does nothing to the subscription with this sid but, it may be, to its slot.
Same(sid) ==
    /\ sid \in DOMAIN srv' <=> sid \in DOMAIN srv
    /\ sid \in DOMAIN srv => srv'[sid] = srv[sid]
    /\ Coming(in', sid) = Coming(in, sid)
    /\ \A l : l.cmd \in {"SUB", "UNSUB"} /\ l.sid = sid => (l \in Lines(out') <=> l \in Lines(out))

LEMMA SameLines ==
    ASSUME NEW sid, Same(sid)
    PROVE  /\ Starts(sid)' <=> Starts(sid)
           /\ \A n : Ends(sid, n)' <=> Ends(sid, n)
<1>1. \A l : l.cmd \in {"SUB", "UNSUB"} /\ l.sid = sid => (l \in Lines(out') <=> l \in Lines(out))
    BY DEF Same
<1>2. Starts(sid)' <=> \E l \in Lines(out') : l.cmd = "SUB" /\ l.sid = sid
    BY DEF Starts, Lines
<1>3. \A n : Ends(sid, n)' <=> \E l \in Lines(out') : l.cmd = "UNSUB" /\ l.sid = sid /\ l.n = n
    BY DEF Ends, Lines
<1>4. Starts(sid)' <=> Starts(sid)
    BY <1>1, <1>2 DEF Starts
<1>5. \A n : Ends(sid, n)' <=> Ends(sid, n)
    BY <1>1, <1>3 DEF Ends
<1> QED BY <1>4, <1>5

LEMMA SameSlot ==
    ASSUME NEW i, SlotAgrees(slots[i]), slots'[i] = slots[i], Same(slots[i].sid)
    PROVE  SlotAgrees(slots[i])'
<1>1. PICK x : x = slots[i]
    OBVIOUS
<1>2. slots'[i] = x /\ Same(x.sid) /\ SlotAgrees(x)
    BY <1>1
<1>3. PICK s : s = x.sid
    OBVIOUS
<1>4. Same(s)
    BY <1>2, <1>3
<1>5. (Starts(s)' <=> Starts(s)) /\ (\A n : Ends(s, n)' <=> Ends(s, n))
    BY <1>4, SameLines
<1>6. \A l \in Lines(out') : l.cmd = "UNSUB" /\ l.sid = s => l.n = x.max /\ x.max > 0
    BY <1>2, <1>3, <1>4 DEF SlotAgrees, Same
<1>7. SlotAgrees(x)'
    BY <1>2, <1>3, <1>4, <1>5, <1>6 DEF SlotAgrees, Same
<1> QED BY <1>2, <1>7

LEMMA SameSrv ==
    ASSUME NEW sid \in DOMAIN srv, SrvAgrees(sid), Same(sid), IsLive(sid) => IsLive(sid)'
    PROVE  SrvAgrees(sid)'
<1>1. \A n : Ends(sid, n)' <=> Ends(sid, n)
    BY SameLines
<1> QED BY <1>1 DEF SrvAgrees, Same

LEMMA SameStart ==
    ASSUME NEW sid, StartAgrees(sid), Same(sid), IsLive(sid) => IsLive(sid)'
    PROVE  StartAgrees(sid)'
<1>1. \A n : Ends(sid, n)' <=> Ends(sid, n)
    BY SameLines
<1> QED BY <1>1 DEF StartAgrees, Same

\* A step that is about one sid
LEMMA AgreeBut ==
    ASSUME SubsInv, Agreeing, NEW s, \A sid : sid # s => Same(sid),
           next_id' \in Nat, next_id <= next_id',
           \A i \in LiveSlots' : slots'[i].sid # s => i \in LiveSlots /\ slots'[i] = slots[i],
           \A i \in LiveSlots : slots[i].sid # s => i \in LiveSlots' /\ slots'[i] = slots[i],
           Ordered(out'),
           \A l \in Lines(out') : l.cmd = "UNSUB" /\ l.sid = s => s \in 1 .. next_id',
           \A i \in LiveSlots' : slots'[i].sid = s => SlotAgrees(slots[i])',
           s \in DOMAIN srv' => SrvAgrees(s)',
           Starts(s)' => StartAgrees(s)'
    PROVE  Agreeing'
<1>1. next_id \in Nat
    BY DEF SubsInv, TypeOK
<1>2. \A sid : sid # s => (IsLive(sid) => IsLive(sid)')
    <2>1. \A sid : IsLive(sid)' <=> \E i \in LiveSlots' : slots'[i].sid = sid
        BY DEF IsLive
    <2> QED BY <2>1 DEF IsLive
<1>3. ASSUME NEW l \in Lines(out'), l.cmd = "UNSUB" PROVE l.sid \in 1 .. next_id'
    <2>1. CASE l.sid # s
        <3>1. l \in Lines(out)
            BY <1>3, <2>1 DEF Same
        <3>2. l.sid \in 1 .. next_id
            BY <1>3, <3>1 DEF Agreeing
        <3> QED BY <1>1, <3>2
    <2> QED BY <1>3, <2>1
<1>4. ASSUME NEW i \in LiveSlots' PROVE SlotAgrees(slots[i])'
    <2>1. CASE slots'[i].sid # s
        <3>1. i \in LiveSlots /\ slots'[i] = slots[i] /\ Same(slots[i].sid)
            BY <2>1
        <3>2. SlotAgrees(slots[i])
            BY <3>1 DEF Agreeing
        <3> QED BY <3>1, <3>2, SameSlot
    <2> QED BY <2>1
<1>5. ASSUME NEW sid \in DOMAIN srv' PROVE SrvAgrees(sid)'
    <2>1. CASE sid # s
        <3>1. Same(sid) /\ sid \in DOMAIN srv
            BY <2>1 DEF Same
        <3>2. SrvAgrees(sid)
            BY <3>1 DEF Agreeing
        <3> QED BY <1>2, <2>1, <3>1, <3>2, SameSrv
    <2> QED BY <2>1
<1>6. ASSUME NEW sid, Starts(sid)' PROVE StartAgrees(sid)'
    <2>1. CASE sid # s
        <3>1. Same(sid) /\ Starts(sid)
            BY <1>6, <2>1, SameLines
        <3>2. sid \in 1 .. next_id
            BY <3>1 DEF Starts, Lines, SubsInv, StreamsInv, TypeOK
        <3>3. StartAgrees(sid)
            BY <3>1, <3>2 DEF Agreeing
        <3> QED BY <1>2, <2>1, <3>1, <3>3, SameStart
    <2> QED BY <1>6, <2>1
<1>7. \A l \in Lines(out') : l.cmd = "UNSUB" => l.sid \in 1 .. next_id'
    BY <1>3
<1> QED BY <1>4, <1>5, <1>6, <1>7 DEF Agreeing, Lines, Ordered


\* A step that is about none
LEMMA AgreeSame ==
    ASSUME SubsInv, SubsInv', Agreeing, \A sid : Same(sid), Ordered(out'),
           next_id <= next_id', slots' = slots
    PROVE  Agreeing'
<1>1. next_id' \in Nat /\ next_id \in Nat /\ LiveSlots' = LiveSlots
    BY DEF SubsInv, TypeOK, LiveSlots
<1>2. 0 \notin 1 .. next_id
    BY <1>1
<1>3. \A i \in LiveSlots : slots[i].sid # 0
    BY DEF LiveSlots
<1>4. 0 \notin DOMAIN srv'
    BY <1>2 DEF SubsInv, StreamsInv, Same
<1>5. ~Starts(0)'
    <2>1. ~Starts(0)
        BY <1>2 DEF Starts, Lines, SubsInv, StreamsInv, TypeOK
    <2> QED BY <2>1, SameLines
<1>6. \A l \in Lines(out') : ~(l.cmd = "UNSUB" /\ l.sid = 0)
    BY <1>2 DEF Same, Agreeing
<1> QED BY <1>1, <1>3, <1>4, <1>5, <1>6, AgreeBut

\* A live slot is the only one with its sid, which is one of this connection.
LEMMA LiveOnce ==
    ASSUME SubsInv, NEW i \in LiveSlots
    PROVE  /\ slots[i].sid \in 1 .. next_id /\ next_id \in Nat /\ slots[i].sid # 0
           /\ \A j \in LiveSlots : slots[j].sid = slots[i].sid => j = i
           /\ slots[i].max \in Nat /\ slots[i].recv \in Nat
           /\ slots[i].max > 0 => slots[i].recv < slots[i].max
<1>1. slots \in Seq(Slot) /\ i \in DOMAIN slots /\ next_id \in Nat /\ slots[i].sid # 0
    BY DEF LiveSlots, SubsInv, TypeOK
<1>2. slots[i] \in Slot
    BY <1>1
<1>3. slots[i].max \in Nat /\ slots[i].recv \in Nat
    BY <1>2 DEF Slot
<1> QED BY <1>1, <1>3 DEF SubsInv, SlotsInv

LEMMA LinesKnown ==
    ASSUME SubsInv, Agreeing, NEW l \in Lines(out), l.cmd \in {"SUB", "UNSUB"}
    PROVE  l.sid \in 1 .. next_id
BY DEF Lines, SubsInv, StreamsInv, TypeOK, Agreeing

\* Lines for s are appended: the others are as before.
LEMMA SameWritten ==
    ASSUME SubsInv, Agreeing, NEW s, NEW w \in Seq(Line), out' = out \o w,
           \A l \in Lines(w) : l.cmd \in {"SUB", "UNSUB"} => l.sid = s,
           UNCHANGED <<in, srv>>
    PROVE  /\ \A sid : sid # s => Same(sid)
           /\ Lines(out') = Lines(out) \cup Lines(w)
<1>1. out \in Seq(Line)
    BY DEF SubsInv, TypeOK
<1>2. Lines(out') = Lines(out) \cup Lines(w)
    BY <1>1, LinesConcat
<1> QED BY <1>2 DEF Same

LEMMA AgreeSubscribe ==
    ASSUME SubsInv, Agreeing, NEW c \in Clients, NEW max \in Maxima, Subscribe(c, max), ~halfway'
    PROVE  Agreeing'
<1>0. PICK s : s = next_id + 1
    OBVIOUS
<1> DEFINE a == Sub(s)
           b == Unsub(s, max)
           w == SubscribeLines(s, max)
<1>1. /\ next_id' = s /\ next_id \in Nat /\ base \in Nat /\ s \in Nat /\ max \in Nat
      /\ UNCHANGED <<in, srv>> /\ in \in Seq(Msg) /\ out \in Seq(Line)
    <2>1. next_id \in Nat /\ base \in Nat /\ max \in Nat /\ in \in Seq(Msg) /\ out \in Seq(Line)
        BY DEF SubsInv, TypeOK, Msg
    <2> QED BY <1>0, <2>1 DEF Subscribe, server
<1>2. PICK i : /\ i \notin LiveSlots /\ LiveSlots' = LiveSlots \cup {i}
               /\ \A j \in LiveSlots : slots'[j] = slots[j]
               /\ slots'[i].sid = s /\ slots'[i].max = max /\ slots'[i].recv = 0
    BY <1>0, SubscribeSlots
<1>3. out' = out \o w /\ w \in Seq(Line)
    BY <1>0, WholeSubscribe
<1>4. /\ a.cmd = "SUB" /\ a.sid = s /\ b.cmd = "UNSUB" /\ b.sid = s /\ b.n = max
      /\ a \in Line /\ b \in Line
    BY <1>1, LineFacts
<1>5. w = IF max > 0 THEN <<a, b>> ELSE <<a>>
    BY DEF SubscribeLines
<1> HIDE DEF a, b, w
<1>6. /\ Lines(w) = IF max > 0 THEN {a, b} ELSE {a}
      /\ Ordered(w)
    <2>1. CASE max > 0
        <3>1. w = <<a, b>> /\ Len(w) = 2 /\ w[1] = a /\ w[2] = b
            BY <1>5, <2>1
        <3>2. 1 .. 2 = {1, 2}
            OBVIOUS
        <3>3. Lines(w) = {a, b}
            BY <3>1, <3>2 DEF Lines
        <3>4. Ordered(w)
            BY <1>4, <3>1, <3>2 DEF Ordered
        <3> QED BY <2>1, <3>3, <3>4
    <2>2. CASE ~(max > 0)
        <3>1. w = <<a>> /\ Len(w) = 1 /\ w[1] = a
            BY <1>5, <2>2
        <3>2. 1 .. 1 = {1}
            OBVIOUS
        <3>3. Lines(w) = {a}
            BY <3>1, <3>2 DEF Lines
        <3>4. Ordered(w)
            BY <3>1, <3>2 DEF Ordered
        <3> QED BY <2>2, <3>3, <3>4
    <2> QED BY <2>1, <2>2
<1>7. \A l \in Lines(w) : l.sid = s
    BY <1>4, <1>6
<1>8. (\A sid : sid # s => Same(sid)) /\ Lines(out') = Lines(out) \cup Lines(w)
    BY <1>1, <1>3, <1>7, SameWritten
<1>9. \A l \in Lines(out) : l.cmd \in {"SUB", "UNSUB"} => l.sid # s
    <2>1. s \notin 1 .. next_id
        BY <1>0, <1>1
    <2> QED BY <2>1, LinesKnown
<1>10. Ordered(out')
    <2>1. Ordered(out)
        BY DEF Agreeing
    <2> QED BY <1>1, <1>3, <1>6, <1>7, <1>9, <2>1, LinesConcat
<1>11. s \notin DOMAIN srv' /\ Coming(in', s) = 0
    <2>1. s \notin 1 .. next_id
        BY <1>0, <1>1
    <2>2. s \notin DOMAIN srv /\ \A j \in 1 .. Len(in) : in[j].sid # s
        BY <1>1, <2>1 DEF SubsInv, StreamsInv
    <2> QED BY <1>1, <2>2, ComingNone
<1>12. a \in Lines(out') /\ (max > 0 => b \in Lines(out'))
    BY <1>6, <1>8
<1>13. Starts(s)' /\ (max > 0 => Ends(s, max)')
    <2>1. Starts(s)' <=> \E l \in Lines(out') : l.cmd = "SUB" /\ l.sid = s
        BY DEF Starts, Lines
    <2>2. Ends(s, max)' <=> \E l \in Lines(out') : l.cmd = "UNSUB" /\ l.sid = s /\ l.n = max
        BY DEF Ends, Lines
    <2> QED BY <1>4, <1>12, <2>1, <2>2
<1>14. \A l \in Lines(out') : l.cmd = "UNSUB" /\ l.sid = s => l.n = max /\ max > 0
    BY <1>4, <1>6, <1>8, <1>9
<1>15. SlotAgrees(slots[i])'
    BY <1>2, <1>13, <1>14 DEF SlotAgrees
<1>16. StartAgrees(s)'
    <2>1. IsLive(s)'
        BY <1>2 DEF IsLive
    <2> QED BY <1>11, <2>1 DEF StartAgrees
<1>17. \A j \in LiveSlots : slots[j].sid # s
    BY <1>0, <1>1, LiveOnce
<1>18. s \in 1 .. next_id' /\ next_id <= next_id' /\ next_id' \in Nat
    BY <1>0, <1>1
<1> QED BY <1>2, <1>8, <1>10, <1>11, <1>15, <1>16, <1>17, <1>18, AgreeBut

LEMMA AgreeUnsubscribe ==
    ASSUME SubsInv, Agreeing, NEW c \in Clients, NEW sid \in handles[c], Unsubscribe(c, sid), ~halfway'
    PROVE  Agreeing'
<1>0. PICK s : s = sid
    OBVIOUS
<1> DEFINE b == Unsub(s, 0)
<1>1. /\ next_id' = next_id /\ next_id \in Nat /\ base \in Nat
      /\ UNCHANGED <<in, srv>> /\ out \in Seq(Line)
    BY DEF Unsubscribe, server, SubsInv, TypeOK
<1>2. PICK i \in LiveSlots : /\ slots[i].sid = s /\ LiveSlots' = LiveSlots \ {i}
                             /\ \A j \in LiveSlots \ {i} : slots'[j] = slots[j]
    BY <1>0, UnsubscribeSlots
<1>3. /\ s \in 1 .. next_id /\ s \in Nat /\ \A j \in LiveSlots : slots[j].sid = s => j = i
    BY <1>1, <1>2, LiveOnce
<1>4. out' = out \o <<b>> /\ <<b>> \in Seq(Line)
    BY <1>0, WholeUnsubscribe
<1>5. b.cmd = "UNSUB" /\ b.sid = s /\ b.n = 0
    BY <1>1, <1>3, LineFacts
<1> HIDE DEF b
<1>6. Lines(<<b>>) = {b} /\ Ordered(<<b>>)
    <2>1. Len(<<b>>) = 1 /\ <<b>>[1] = b /\ 1 .. 1 = {1}
        OBVIOUS
    <2> QED BY <2>1 DEF Lines, Ordered
<1>7. (\A x : x # s => Same(x)) /\ Lines(out') = Lines(out) \cup {b}
    BY <1>1, <1>4, <1>5, <1>6, SameWritten
<1>8. Ordered(out')
    <2>1. Ordered(out)
        BY DEF Agreeing
    <2> QED BY <1>1, <1>4, <1>5, <1>6, <2>1, LinesConcat
<1>9. Ends(s, 0)' /\ (Starts(s)' => Starts(s))
    <2>1. Starts(s)' <=> \E l \in Lines(out') : l.cmd = "SUB" /\ l.sid = s
        BY DEF Starts, Lines
    <2>2. Ends(s, 0)' <=> \E l \in Lines(out') : l.cmd = "UNSUB" /\ l.sid = s /\ l.n = 0
        BY DEF Ends, Lines
    <2>3. Starts(s)' => Starts(s)
        BY <1>5, <1>7, <2>1 DEF Starts
    <2> QED BY <1>5, <1>7, <2>2, <2>3
<1>10. s \in DOMAIN srv' => SrvAgrees(s)'
    <2> SUFFICES ASSUME s \in DOMAIN srv PROVE SrvAgrees(s)'
        BY <1>1
    <2>1. SrvAgrees(s) /\ srv[s].sent \in Nat
        BY DEF Agreeing, SubsInv, TypeOK
    <2>2. 0 \in 0 .. srv'[s].sent
        BY <1>1, <2>1
    <2> QED BY <1>1, <1>9, <2>1, <2>2 DEF SrvAgrees
<1>11. Starts(s)' => StartAgrees(s)'
    <2> SUFFICES ASSUME Starts(s) PROVE StartAgrees(s)'
        BY <1>9
    <2>1. StartAgrees(s)
        BY <1>3 DEF Agreeing
    <2> QED BY <1>1, <1>9, <2>1 DEF StartAgrees
<1>12. \A j \in LiveSlots' : slots'[j].sid # s /\ j \in LiveSlots /\ slots'[j] = slots[j]
    BY <1>2, <1>3
<1>13. \A j \in LiveSlots : slots[j].sid # s => j \in LiveSlots' /\ slots'[j] = slots[j]
    BY <1>2
<1>14. s \in 1 .. next_id' /\ next_id <= next_id' /\ next_id' \in Nat
    BY <1>1, <1>3
<1> QED BY <1>7, <1>8, <1>10, <1>11, <1>12, <1>13, <1>14, AgreeBut

LEMMA AgreePublish ==
    ASSUME SubsInv, SubsInv', Agreeing, NEW len \in Lengths, Publish(len), ~halfway'
    PROVE  Agreeing'
<1>1. /\ next_id' = next_id /\ next_id \in Nat /\ slots' = slots
      /\ UNCHANGED <<in, srv>> /\ out \in Seq(Line)
    BY DEF Publish, server, table, SubsInv, TypeOK
<1>2. PICK strlen \in Strings :
        LET l == <<Pub(len)>> \o Payload(len, strlen) \o <<CRLF>>
        IN  \E k \in 0 .. Len(l) : WriteLines(l, k)
    BY DEF Publish
<1> DEFINE lines == <<Pub(len)>> \o Payload(len, strlen) \o <<CRLF>>
<1>3. PICK k \in 0 .. Len(lines) : WriteLines(lines, k)
    BY <1>2
<1>4. lines \in Seq(Line) /\ \A j \in 1 .. Len(lines) : lines[j].cmd \notin {"SUB", "UNSUB"}
    <2> DEFINE Text == {l \in Line : l.cmd \notin {"SUB", "UNSUB"}}
    <2>1. len \in Nat /\ strlen \in Nat
        OBVIOUS
    <2>2. Pub(len) \in Text /\ Bytes(len) \in Text /\ Bytes(strlen) \in Text /\ CRLF \in Text
        BY <2>1 DEF Pub, Bytes, CRLF, Line
    <2> HIDE DEF Text
    <2>3. Payload(len, strlen) \in Seq(Text) /\ <<Pub(len)>> \in Seq(Text) /\ <<CRLF>> \in Seq(Text)
        BY <2>2 DEF Payload
    <2>4. <<Pub(len)>> \o Payload(len, strlen) \in Seq(Text)
        BY <2>3, ConcatProperties
    <2>5. lines \in Seq(Text)
        BY <2>3, <2>4, ConcatProperties
    <2> HIDE DEF lines
    <2>6. Text \subseteq Line /\ \A l \in Text : l.cmd \notin {"SUB", "UNSUB"}
        BY DEF Text
    <2> QED BY <2>5, <2>6, SeqMonotonic, ElementOfSeq
<1> HIDE DEF lines
<1>5. out' = out \o lines
    BY <1>3, <1>4, WholeCall
<1>6. \A l \in Lines(lines) : l.cmd \notin {"SUB", "UNSUB"}
    BY <1>4 DEF Lines
<1>7. \A sid : Same(sid)
    <2>1. \A sid : sid # 0 => Same(sid)
        BY <1>1, <1>4, <1>5, <1>6, SameWritten
    <2>2. \A sid : sid # 1 => Same(sid)
        BY <1>1, <1>4, <1>5, <1>6, SameWritten
    <2> QED BY <2>1, <2>2
<1>8. Ordered(out')
    <2>1. Ordered(out) /\ Ordered(lines)
        BY <1>4 DEF Agreeing, Ordered
    <2> QED BY <1>1, <1>4, <1>5, <1>6, <2>1, LinesConcat
<1>9. next_id <= next_id'
    BY <1>1
<1> QED BY <1>1, <1>7, <1>8, <1>9, AgreeSame


\* A message for s is taken off the queue.
LEMMA SameHandled ==
    ASSUME SubsInv, in # <<>>, in' = Tail(in), UNCHANGED <<out, srv>>, NEW s, s = Head(in).sid
    PROVE  /\ \A sid : sid # s => Same(sid)
           /\ Coming(in, s) = Coming(in', s) + 1 /\ Coming(in', s) \in Nat
<1>1. in \in Seq(Msg) /\ Tail(in) \in Seq(Msg)
    BY DEF SubsInv, TypeOK, Msg
<1>2. \A sid : Coming(in, sid) = IF s = sid THEN Coming(Tail(in), sid) + 1 ELSE Coming(Tail(in), sid)
    BY <1>1, ComingTail
<1>3. Coming(in', s) \in Nat
    BY <1>1, AtFinite
<1> QED BY <1>2, <1>3 DEF Same

\* What a step that does not write leaves as it was
LEMMA SameOut ==
    ASSUME NEW s, out' = out
    PROVE  /\ Lines(out') = Lines(out) /\ (Starts(s)' <=> Starts(s))
           /\ \A n : Ends(s, n)' <=> Ends(s, n)
<1>1. Lines(out') = Lines(out) /\ Lines(out)' = Lines(out)
    BY DEF Lines
<1> QED BY <1>1 DEF Starts, Ends

LEMMA AgreeProcessMsg ==
    ASSUME SubsInv, Agreeing, ProcessMsg
    PROVE  Agreeing'
<1>0. PICK s : s = Head(in).sid
    OBVIOUS
<1>1. /\ next_id' = next_id /\ next_id \in Nat /\ in # <<>> /\ in' = Tail(in)
      /\ UNCHANGED <<out, srv>>
    BY DEF ProcessMsg, server, SubsInv, TypeOK
<1>2. PICK i \in LiveSlots :
        /\ slots[i].sid = s /\ slots[i].max \in Nat /\ slots[i].recv \in Nat
        /\ \A j \in LiveSlots \ {i} : slots'[j] = slots[j]
        /\ \/ slots[i].max = 0 /\ slots' = slots /\ LiveSlots' = LiveSlots
           \/ /\ slots[i].max > 0 /\ slots[i].recv + 1 >= slots[i].max
              /\ LiveSlots' = LiveSlots \ {i}
           \/ /\ slots[i].max > 0 /\ LiveSlots' = LiveSlots
              /\ slots'[i].sid = slots[i].sid /\ slots'[i].max = slots[i].max
              /\ slots'[i].client = slots[i].client /\ slots'[i].recv = slots[i].recv + 1
    BY <1>0, ProcessMsgSlots
<1>3. /\ s \in 1 .. next_id /\ \A j \in LiveSlots : slots[j].sid = s => j = i
      /\ slots[i].max > 0 => slots[i].recv < slots[i].max
    BY <1>2, LiveOnce
<1>4. /\ \A sid : sid # s => Same(sid)
      /\ Coming(in, s) = Coming(in', s) + 1 /\ Coming(in', s) \in Nat
    BY <1>0, <1>1, SameHandled
<1>5. /\ Lines(out') = Lines(out) /\ (Starts(s)' <=> Starts(s))
      /\ \A n : Ends(s, n)' <=> Ends(s, n)
    BY <1>1, SameOut
<1>6. ~Starts(s)
    <2>1. Starts(s) => StartAgrees(s)
        BY <1>3 DEF Agreeing
    <2> QED BY <1>4, <2>1 DEF StartAgrees
<1>7. PICK m, r : m = slots[i].max /\ r = slots[i].recv
    OBVIOUS
<1>8. /\ \A l \in Lines(out) : l.cmd = "UNSUB" /\ l.sid = s => l.n = m /\ m > 0
      /\ \/ /\ s \in DOMAIN srv
            /\ m > 0 => r + Coming(in, s) = srv[s].sent
            /\ srv[s].max = m \/ (srv[s].max = 0 /\ Ends(s, m))
         \/ s \notin DOMAIN srv /\ m > 0 /\ r + Coming(in, s) >= m
    <2>1. SlotAgrees(slots[i])
        BY DEF Agreeing
    <2> QED BY <1>2, <1>6, <1>7, <2>1 DEF SlotAgrees
<1>9. s \in DOMAIN srv => SrvAgrees(s) /\ srv[s].sent \in Nat
    BY DEF Agreeing, SubsInv, TypeOK
<1>10. ASSUME NEW j \in LiveSlots', slots'[j].sid = s PROVE SlotAgrees(slots[j])'
    <2>1. j = i
        BY <1>2, <1>3, <1>10
    <2>2. CASE m = 0
        <3>1. slots'[i] = slots[i] /\ slots'[i].max = 0 /\ s \in DOMAIN srv /\ slots'[i].sid = s
            <4>1. ~(m > 0) /\ slots[i].max = 0 /\ ~(slots[i].max > 0)
                BY <1>7, <2>2
            <4>2. slots' = slots
                BY <1>2, <4>1
            <4> QED BY <1>2, <1>8, <4>1, <4>2
        <3> QED BY <1>1, <1>5, <1>7, <1>8, <2>1, <2>2, <3>1 DEF SlotAgrees
    <2>3. CASE m > 0
        <3>1. slots'[i].sid = s /\ slots'[i].max = m /\ slots'[i].recv = r + 1
            BY <1>2, <1>7, <1>10, <2>1, <2>3
        <3>2. (r + 1) + Coming(in', s) = r + Coming(in, s)
            BY <1>2, <1>4, <1>7
        <3> QED BY <1>1, <1>5, <1>6, <1>8, <2>1, <2>3, <3>1, <3>2 DEF SlotAgrees
    <2> QED BY <1>2, <1>7, <2>2, <2>3
<1>11. s \in DOMAIN srv' => SrvAgrees(s)'
    <2> SUFFICES ASSUME s \in DOMAIN srv PROVE SrvAgrees(s)'
        BY <1>1
    <2>1. CASE i \in LiveSlots' /\ slots'[i].sid = s
        <3>1. IsLive(s)'
            BY <2>1 DEF IsLive
        <3> QED BY <1>1, <1>9, <3>1 DEF SrvAgrees
    <2>2. CASE ~(i \in LiveSlots' /\ slots'[i].sid = s)
        <3>1. m > 0 /\ r + 1 >= m
            BY <1>2, <1>7, <2>2
        <3>2. m <= srv[s].sent
            BY <1>2, <1>4, <1>7, <1>8, <1>9, <3>1
        <3>3. srv[s].max = 0 /\ Ends(s, m)
            BY <1>2, <1>7, <1>8, <1>9, <3>1, <3>2 DEF SrvAgrees
        <3>4. m \in 0 .. srv'[s].sent
            BY <1>1, <1>2, <1>7, <1>9, <3>2
        <3> QED BY <1>1, <1>5, <3>3, <3>4 DEF SrvAgrees
    <2> QED BY <2>1, <2>2
<1>12. /\ \A j \in LiveSlots' : slots'[j].sid # s => j \in LiveSlots /\ slots'[j] = slots[j]
       /\ \A j \in LiveSlots : slots[j].sid # s => j \in LiveSlots' /\ slots'[j] = slots[j]
    BY <1>2, <1>3
<1>13. Ordered(out')
    BY <1>1 DEF Agreeing
<1>14. s \in 1 .. next_id' /\ next_id <= next_id' /\ next_id' \in Nat
    BY <1>1, <1>3
<1> QED BY <1>4, <1>5, <1>6, <1>10, <1>11, <1>12, <1>13, <1>14, AgreeBut

LEMMA AgreeProcessUnknown ==
    ASSUME SubsInv, Agreeing, ProcessUnknown
    PROVE  Agreeing'
<1>0. PICK s : s = Head(in).sid
    OBVIOUS
<1>1. /\ next_id' = next_id /\ next_id \in Nat /\ in # <<>> /\ in' = Tail(in) /\ slots' = slots
      /\ UNCHANGED <<out, srv>> /\ GetSubscription(s) = {} /\ slots \in Seq(Slot)
    BY <1>0 DEF ProcessUnknown, table, server, SubsInv, TypeOK
<1>2. /\ \A sid : sid # s => Same(sid)
      /\ Coming(in, s) = Coming(in', s) + 1 /\ Coming(in', s) \in Nat
    BY <1>0, <1>1, SameHandled
<1>3. s \in 1 .. next_id
    <2>1. in \in Seq(Msg) /\ \A j \in 1 .. Len(in) : in[j].sid \in 1 .. next_id
        BY DEF SubsInv, TypeOK, StreamsInv, Msg
    <2> QED BY <1>0, <1>1, <2>1
<1>4. \A i \in LiveSlots : slots[i].sid # s
    <2> SUFFICES ASSUME NEW i \in LiveSlots, slots[i].sid = s PROVE FALSE
        OBVIOUS
    <2>1. s # 0 /\ i \in DOMAIN slots /\ \A j \in LiveSlots : slots[j].sid = s => j = i
        BY LiveOnce DEF LiveSlots
    <2>2. ASSUME NEW j \in 1 .. i - 1 PROVE slots[j].sid # s
        <3>1. j \in DOMAIN slots /\ j # i
            BY <1>1, <2>1
        <3> QED BY <2>1, <3>1 DEF LiveSlots
    <2> QED BY <1>1, <2>1, <2>2 DEF GetSubscription
<1>5. /\ Lines(out') = Lines(out) /\ (Starts(s)' <=> Starts(s))
      /\ \A n : Ends(s, n)' <=> Ends(s, n)
    BY <1>1, SameOut
<1>6. ~Starts(s)
    <2>1. Starts(s) => StartAgrees(s)
        BY <1>3 DEF Agreeing
    <2> QED BY <1>2, <2>1 DEF StartAgrees
<1>7. LiveSlots' = LiveSlots /\ Ordered(out')
    BY <1>1 DEF LiveSlots, Agreeing
<1>8. s \in DOMAIN srv' => SrvAgrees(s)'
    <2> SUFFICES ASSUME s \in DOMAIN srv PROVE SrvAgrees(s)'
        BY <1>1
    <2>1. SrvAgrees(s) /\ ~IsLive(s)
        BY <1>4 DEF Agreeing, IsLive
    <2> QED BY <1>1, <1>5, <2>1 DEF SrvAgrees
<1>9. s \in 1 .. next_id' /\ next_id <= next_id' /\ next_id' \in Nat
    BY <1>1, <1>3
<1> QED BY <1>1, <1>2, <1>4, <1>5, <1>6, <1>7, <1>8, <1>9, AgreeBut

LEMMA AgreeNone ==
    ASSUME out = <<>>, slots = <<>>, DOMAIN srv = {}
    PROVE  Agreeing
<1>1. Lines(out) = {} /\ LiveSlots = {} /\ Ordered(out)
    <2>1. Len(<<>>) = 0 /\ 1 .. 0 = {} /\ DOMAIN <<>> = {}
        BY EmptySeq
    <2> QED BY <2>1 DEF Lines, LiveSlots, Ordered
<1> QED BY <1>1 DEF Agreeing, Starts


LEMMA AgreeDisconnect ==
    ASSUME Disconnect
    PROVE  Agreeing'
<1>1. out' = <<>> /\ slots' = <<>> /\ DOMAIN srv' = {}
    BY DEF Disconnect
<1>2. Lines(out)' = {} /\ LiveSlots' = {} /\ Ordered(out)'
    <2>1. Len(<<>>) = 0 /\ 1 .. 0 = {} /\ DOMAIN <<>> = {}
        BY EmptySeq
    <2> QED BY <1>1, <2>1 DEF Lines, LiveSlots, Ordered
<1> QED BY <1>1, <1>2 DEF Agreeing, Starts

\* The server's table after it has set, or removed, one subscription
LEMMA SrvSetFacts ==
    ASSUME NEW sid, NEW d, NEW n, NEW m, srv' = SrvSet(sid, d, n, m)
    PROVE  /\ DOMAIN srv' = DOMAIN srv \cup {sid} /\ srv'[sid].sent = n /\ srv'[sid].max = m
           /\ \A x \in DOMAIN srv \ {sid} : srv'[x] = srv[x]
BY DEF SrvSet

LEMMA WithoutFacts ==
    ASSUME NEW sid
    PROVE  /\ DOMAIN Without(sid) = DOMAIN srv \ {sid}
           /\ \A x \in DOMAIN srv \ {sid} : Without(sid)[x] = srv[x]
BY DEF Without

\* The server reads a line for s.
LEMMA SameRead ==
    ASSUME out \in Seq(Line), out # <<>>, out' = Tail(out), in' = in, NEW s,
           Head(out).cmd \in {"SUB", "UNSUB"} => Head(out).sid = s,
           \A x : x # s => /\ x \in DOMAIN srv' <=> x \in DOMAIN srv
                           /\ x \in DOMAIN srv => srv'[x] = srv[x]
    PROVE  /\ \A x : x # s => Same(x)
           /\ Lines(out) = Lines(out') \cup {Head(out)}
<1>1. Lines(out) = Lines(out') \cup {Head(out)}
    BY LinesTail
<1> QED BY <1>1 DEF Same

LEMMA AgreeReadsSub ==
    ASSUME SubsInv, Agreeing, ServerReads, Head(out).cmd = "SUB"
    PROVE  Agreeing'
<1>0. PICK s : s = Head(out).sid
    OBVIOUS
<1>1. /\ next_id' = next_id /\ next_id \in Nat /\ slots' = slots /\ LiveSlots' = LiveSlots
      /\ in' = in /\ out # <<>> /\ out' = Tail(out) /\ out \in Seq(Line)
    BY DEF ServerReads, table, SubsInv, TypeOK, LiveSlots
<1>2. srv' = SrvSet(s, Head(out).n, 0, 0)
    BY <1>0 DEF ServerReads
<1>3. /\ DOMAIN srv' = DOMAIN srv \cup {s} /\ srv'[s].sent = 0 /\ srv'[s].max = 0
      /\ \A x \in DOMAIN srv \ {s} : srv'[x] = srv[x]
    BY <1>2, SrvSetFacts
<1>4. (\A x : x # s => Same(x)) /\ Lines(out) = Lines(out') \cup {Head(out)}
    BY <1>0, <1>1, <1>3, SameRead
<1>5. /\ Ordered(out) /\ Ordered(out')
      /\ \A l \in Lines(out') : l.cmd = "SUB" => l.sid # s
    BY <1>0, <1>1, LinesTail DEF Agreeing
<1>6. Starts(s) /\ Head(out) \in Lines(out)
    BY <1>0, <1>4 DEF Starts
<1>7. s \in 1 .. next_id
    BY <1>0, <1>6, LinesKnown
<1>8. s \notin DOMAIN srv /\ Coming(in, s) = 0 /\ (IsLive(s) \/ Ends(s, 0))
    BY <1>6, <1>7 DEF Agreeing, StartAgrees
<1>9. ~Starts(s)' /\ (\A n : Ends(s, n)' <=> Ends(s, n))
    <2>1. Starts(s)' <=> \E l \in Lines(out') : l.cmd = "SUB" /\ l.sid = s
        BY DEF Starts, Lines
    <2>2. \A n : Ends(s, n)' <=> \E l \in Lines(out') : l.cmd = "UNSUB" /\ l.sid = s /\ l.n = n
        BY DEF Ends, Lines
    <2>3. \A n : Ends(s, n)' <=> Ends(s, n)
        BY <1>4, <2>2 DEF Ends
    <2> QED BY <1>5, <2>1, <2>3
<1>10. ASSUME NEW i \in LiveSlots, slots[i].sid = s PROVE SlotAgrees(slots[i])'
    <2>1. PICK m, r : m = slots[i].max /\ r = slots[i].recv
        OBVIOUS
    <2>2. SlotAgrees(slots[i]) /\ m \in Nat
        BY <2>1, LiveOnce DEF Agreeing
    <2>3. /\ r = 0 /\ (m > 0 => Ends(s, m))
          /\ \A l \in Lines(out) : l.cmd = "UNSUB" /\ l.sid = s => l.n = m /\ m > 0
        BY <1>6, <1>8, <1>10, <2>1, <2>2 DEF SlotAgrees
    <2>4. slots'[i].sid = s /\ slots'[i].max = m /\ slots'[i].recv = r
        BY <1>1, <1>10, <2>1
    <2>5. /\ s \in DOMAIN srv' /\ r + Coming(in', s) = srv'[s].sent
          /\ srv'[s].max = m \/ (srv'[s].max = 0 /\ Ends(s, m)')
        BY <1>1, <1>3, <1>8, <1>9, <2>2, <2>3
    <2>6. \A l \in Lines(out') : l.cmd = "UNSUB" /\ l.sid = s => l.n = m /\ m > 0
        BY <1>4, <2>3
    <2> QED BY <2>4, <2>5, <2>6 DEF SlotAgrees
<1>11. SrvAgrees(s)'
    <2>1. IsLive(s)' <=> IsLive(s)
        BY <1>1 DEF IsLive
    <2>2. 0 \in 0 .. srv'[s].sent
        BY <1>3
    <2> QED BY <1>3, <1>8, <1>9, <2>1, <2>2 DEF SrvAgrees
<1>12. s \in 1 .. next_id' /\ next_id <= next_id' /\ next_id' \in Nat
    BY <1>1, <1>7
<1> QED BY <1>1, <1>4, <1>5, <1>9, <1>10, <1>11, <1>12, AgreeBut

LEMMA AgreeReadsUnsub ==
    ASSUME SubsInv, Agreeing, ServerReads, Head(out).cmd = "UNSUB"
    PROVE  Agreeing'
<1>0. PICK s, n : s = Head(out).sid /\ n = Head(out).n
    OBVIOUS
<1>1. /\ next_id' = next_id /\ next_id \in Nat /\ slots' = slots /\ LiveSlots' = LiveSlots
      /\ in' = in /\ out # <<>> /\ out' = Tail(out) /\ out \in Seq(Line)
    BY DEF ServerReads, table, SubsInv, TypeOK, LiveSlots
<1>2. /\ s \in DOMAIN srv /\ n > srv[s].sent => srv' = SrvSet(s, srv[s].data, srv[s].sent, n)
      /\ s \in DOMAIN srv /\ ~(n > srv[s].sent) => srv' = Without(s)
      /\ s \notin DOMAIN srv => srv' = srv
    BY <1>0 DEF ServerReads
<1>3. /\ s \in DOMAIN srv /\ n > srv[s].sent =>
           s \in DOMAIN srv' /\ srv'[s].sent = srv[s].sent /\ srv'[s].max = n
      /\ s \in DOMAIN srv' => s \in DOMAIN srv /\ n > srv[s].sent
      /\ \A x : x # s => /\ x \in DOMAIN srv' <=> x \in DOMAIN srv
                         /\ x \in DOMAIN srv => srv'[x] = srv[x]
    <2>1. CASE s \in DOMAIN srv /\ n > srv[s].sent
        <3>1. PICK d, k : d = srv[s].data /\ k = srv[s].sent
            OBVIOUS
        <3>2. srv' = SrvSet(s, d, k, n)
            BY <1>2, <2>1, <3>1
        <3>3. /\ DOMAIN srv' = DOMAIN srv \cup {s} /\ srv'[s].sent = k /\ srv'[s].max = n
              /\ \A x \in DOMAIN srv \ {s} : srv'[x] = srv[x]
            BY <3>2, SrvSetFacts
        <3> QED BY <2>1, <3>1, <3>3
    <2>2. CASE s \in DOMAIN srv /\ ~(n > srv[s].sent)
        BY <1>2, <2>2, WithoutFacts
    <2>3. CASE s \notin DOMAIN srv
        BY <1>2, <2>3
    <2> QED BY <2>1, <2>2, <2>3
<1>4. (\A x : x # s => Same(x)) /\ Lines(out) = Lines(out') \cup {Head(out)}
    BY <1>0, <1>1, <1>3, SameRead
<1>5. /\ Ordered(out) /\ Ordered(out')
      /\ \A l \in Lines(out') : l.cmd = "SUB" => l.sid # s
    BY <1>0, <1>1, LinesTail DEF Agreeing
<1>6. ~Starts(s) /\ ~Starts(s)'
    <2>1. Starts(s)' <=> \E l \in Lines(out') : l.cmd = "SUB" /\ l.sid = s
        BY DEF Starts, Lines
    <2>2. ~Starts(s)
        BY <1>4, <1>5 DEF Starts
    <2> QED BY <1>5, <2>1, <2>2
<1>7. s \in 1 .. next_id /\ Head(out) \in Lines(out) /\ n \in Nat
    <2>1. Head(out) \in Lines(out) /\ Head(out) \in Line
        BY <1>1, <1>4
    <2> QED BY <1>0, <2>1, LinesKnown DEF Line
<1>8. \A k : Ends(s, k) <=> Ends(s, k)' \/ k = n
    <2>1. \A k : Ends(s, k)' <=> \E l \in Lines(out') : l.cmd = "UNSUB" /\ l.sid = s /\ l.n = k
        BY DEF Ends, Lines
    <2> QED BY <1>0, <1>4, <2>1 DEF Ends
<1>9. s \in DOMAIN srv => SrvAgrees(s) /\ srv[s].sent \in Nat
    BY DEF Agreeing, SubsInv, TypeOK
<1>10. ASSUME NEW i \in LiveSlots, slots[i].sid = s PROVE SlotAgrees(slots[i])'
    <2>1. PICK m, r : m = slots[i].max /\ r = slots[i].recv
        OBVIOUS
    <2>2. /\ \A l \in Lines(out) : l.cmd = "UNSUB" /\ l.sid = s => l.n = m /\ m > 0
          /\ \/ /\ s \in DOMAIN srv
                /\ m > 0 => r + Coming(in, s) = srv[s].sent
                /\ srv[s].max = m \/ (srv[s].max = 0 /\ Ends(s, m))
             \/ s \notin DOMAIN srv /\ m > 0 /\ r + Coming(in, s) >= m
        <3>1. SlotAgrees(slots[i])
            BY DEF Agreeing
        <3> QED BY <1>6, <1>10, <2>1, <3>1 DEF SlotAgrees
    <2>3. m > 0 /\ n = m /\ m \in Nat /\ r \in Nat
        BY <1>0, <1>7, <2>1, <2>2, LiveOnce
    <2>4. \A l \in Lines(out') : l.cmd = "UNSUB" /\ l.sid = s => l.n = m /\ m > 0
        BY <1>4, <2>2
    <2>5. \/ s \in DOMAIN srv' /\ r + Coming(in', s) = srv'[s].sent /\ srv'[s].max = m
          \/ s \notin DOMAIN srv' /\ r + Coming(in', s) >= m
        <3>1. CASE s \in DOMAIN srv /\ n > srv[s].sent
            BY <1>1, <1>3, <2>2, <2>3, <3>1
        <3>2. CASE s \in DOMAIN srv /\ ~(n > srv[s].sent)
            BY <1>1, <1>3, <1>9, <2>2, <2>3, <3>2
        <3>3. CASE s \notin DOMAIN srv
            BY <1>1, <1>3, <2>2, <3>3
        <3> QED BY <3>1, <3>2, <3>3
    <2>6. slots'[i].sid = s /\ slots'[i].max = m /\ slots'[i].recv = r
        BY <1>1, <1>10, <2>1
    <2> QED BY <1>6, <2>3, <2>4, <2>5, <2>6 DEF SlotAgrees
<1>11. ASSUME s \in DOMAIN srv' PROVE SrvAgrees(s)'
    <2>1. /\ s \in DOMAIN srv /\ n > srv[s].sent /\ srv'[s].sent = srv[s].sent /\ srv'[s].max = n
        BY <1>3, <1>11
    <2>2. IsLive(s) => IsLive(s)'
        BY <1>1 DEF IsLive
    <2>3. \A k \in 0 .. srv[s].sent : Ends(s, k) => Ends(s, k)'
        BY <1>7, <1>8, <1>9, <2>1
    <2> QED BY <1>9, <2>1, <2>2, <2>3 DEF SrvAgrees
<1>12. s \in 1 .. next_id' /\ next_id <= next_id' /\ next_id' \in Nat
    BY <1>1, <1>7
<1> QED BY <1>1, <1>4, <1>5, <1>6, <1>10, <1>11, <1>12, AgreeBut

LEMMA AgreeServerReads ==
    ASSUME SubsInv, SubsInv', Agreeing, ServerReads
    PROVE  Agreeing'
<1>1. CASE Head(out).cmd \notin {"SUB", "UNSUB"}
    <2>1. /\ next_id' = next_id /\ next_id \in Nat /\ slots' = slots
          /\ in' = in /\ out # <<>> /\ out' = Tail(out) /\ out \in Seq(Line) /\ srv' = srv
        BY <1>1 DEF ServerReads, table, SubsInv, TypeOK
    <2>2. \A s : s # 0 => Same(s)
        BY <1>1, <2>1, SameRead
    <2>3. \A s : s # 1 => Same(s)
        BY <1>1, <2>1, SameRead
    <2>4. Ordered(out')
        BY <2>1, LinesTail DEF Agreeing
    <2>5. next_id <= next_id' /\ \A s : Same(s)
        BY <2>1, <2>2, <2>3
    <2> QED BY <2>1, <2>4, <2>5, AgreeSame
<1> QED BY <1>1, AgreeReadsSub, AgreeReadsUnsub

LEMMA AgreeServerSends ==
    ASSUME SubsInv, Agreeing, NEW s \in DOMAIN srv, ServerSends(s)
    PROVE  Agreeing'
<1> DEFINE msg == [sid |-> s, data |-> srv[s].data]
<1>1. /\ next_id' = next_id /\ next_id \in Nat /\ slots' = slots /\ LiveSlots' = LiveSlots
      /\ in' = Append(in, msg) /\ out' = out /\ in \in Seq(Msg)
    BY DEF ServerSends, table, SubsInv, TypeOK, LiveSlots, Msg
<1>2. s \in 1 .. next_id /\ s \in Nat /\ srv[s].sent \in Nat /\ srv[s].max \in Nat /\ srv[s].data \in Nat
    BY <1>1 DEF SubsInv, TypeOK, StreamsInv
<1>3. msg \in Msg /\ msg.sid = s
    BY <1>2 DEF Msg
<1> HIDE DEF msg
<1>4. Coming(in', s) = Coming(in, s) + 1 /\ \A x : x # s => Coming(in', x) = Coming(in, x)
    BY <1>1, <1>3, ComingAppend
<1>5. Coming(in, s) \in Nat
    BY <1>1, AtFinite
<1>6. /\ srv[s].sent + 1 = srv[s].max => s \notin DOMAIN srv'
      /\ srv[s].sent + 1 # srv[s].max =>
           s \in DOMAIN srv' /\ srv'[s].sent = srv[s].sent + 1 /\ srv'[s].max = srv[s].max
      /\ \A x : x # s => /\ x \in DOMAIN srv' <=> x \in DOMAIN srv
                         /\ x \in DOMAIN srv => srv'[x] = srv[x]
    <2>1. CASE srv[s].sent + 1 = srv[s].max
        <3>1. srv' = Without(s)
            BY <2>1 DEF ServerSends
        <3> QED BY <2>1, <3>1, WithoutFacts
    <2>2. CASE srv[s].sent + 1 # srv[s].max
        <3>1. srv' = SrvSet(s, srv[s].data, srv[s].sent + 1, srv[s].max)
            BY <2>2 DEF ServerSends
        <3>2. PICK d, k, n : d = srv[s].data /\ k = srv[s].sent + 1 /\ n = srv[s].max
            OBVIOUS
        <3>3. srv' = SrvSet(s, d, k, n)
            BY <3>1, <3>2
        <3>4. /\ DOMAIN srv' = DOMAIN srv \cup {s} /\ srv'[s].sent = k /\ srv'[s].max = n
              /\ \A x \in DOMAIN srv \ {s} : srv'[x] = srv[x]
            BY <3>3, SrvSetFacts
        <3> QED BY <2>2, <3>2, <3>4
    <2> QED BY <2>1, <2>2
<1>7. /\ Lines(out') = Lines(out) /\ (Starts(s)' <=> Starts(s))
      /\ \A n : Ends(s, n)' <=> Ends(s, n)
    BY <1>1, SameOut
<1>8. \A x : x # s => Same(x)
    BY <1>4, <1>6, <1>7 DEF Same
<1>9. ~Starts(s) /\ SrvAgrees(s)
    BY <1>2 DEF Agreeing, StartAgrees
<1>10. ASSUME NEW i \in LiveSlots, slots[i].sid = s PROVE SlotAgrees(slots[i])'
    <2>1. PICK m, r : m = slots[i].max /\ r = slots[i].recv
        OBVIOUS
    <2>2. /\ \A l \in Lines(out) : l.cmd = "UNSUB" /\ l.sid = s => l.n = m /\ m > 0
          /\ m > 0 => r + Coming(in, s) = srv[s].sent
          /\ srv[s].max = m \/ (srv[s].max = 0 /\ Ends(s, m))
        <3>1. SlotAgrees(slots[i])
            BY DEF Agreeing
        <3> QED BY <1>9, <1>10, <2>1, <3>1 DEF SlotAgrees
    <2>3. m \in Nat /\ r \in Nat
        BY <2>1, LiveOnce
    <2>4. slots'[i].sid = s /\ slots'[i].max = m /\ slots'[i].recv = r
        BY <1>1, <1>10, <2>1
    <2>5. m > 0 => r + Coming(in', s) = srv[s].sent + 1
        BY <1>2, <1>4, <1>5, <2>2, <2>3
    <2>6. CASE srv[s].sent + 1 = srv[s].max
        <3>1. m > 0 /\ srv[s].max = m
            BY <1>2, <2>2, <2>6
        <3>2. s \notin DOMAIN srv' /\ r + Coming(in', s) >= m
            BY <1>2, <1>6, <2>3, <2>5, <2>6, <3>1
        <3> QED BY <1>7, <1>9, <2>2, <2>4, <3>1, <3>2 DEF SlotAgrees
    <2>7. CASE srv[s].sent + 1 # srv[s].max
        <3>1. s \in DOMAIN srv' /\ srv'[s].sent = srv[s].sent + 1 /\ srv'[s].max = srv[s].max
            BY <1>6, <2>7
        <3> QED BY <1>7, <2>2, <2>4, <2>5, <3>1 DEF SlotAgrees
    <2> QED BY <2>6, <2>7
<1>11. ASSUME s \in DOMAIN srv' PROVE SrvAgrees(s)'
    <2>1. /\ srv'[s].sent = srv[s].sent + 1 /\ srv'[s].max = srv[s].max
          /\ srv[s].sent + 1 # srv[s].max
        BY <1>6, <1>11
    <2>2. IsLive(s)' <=> IsLive(s)
        BY <1>1 DEF IsLive
    <2>3. srv'[s].max > 0 => srv'[s].sent < srv'[s].max
        BY <1>2, <1>9, <2>1 DEF SrvAgrees
    <2>4. \A n \in 0 .. srv[s].sent : n \in 0 .. srv'[s].sent
        BY <1>2, <2>1
    <2> QED BY <1>7, <1>9, <2>2, <2>3, <2>4 DEF SrvAgrees
<1>12. s \in 1 .. next_id' /\ next_id <= next_id' /\ next_id' \in Nat
    BY <1>1, <1>2
<1>13. Ordered(out')
    BY <1>1 DEF Agreeing
<1> QED BY <1>1, <1>7, <1>8, <1>9, <1>10, <1>11, <1>12, <1>13, AgreeBut


LEMMA AgreeInit == Init => AgreeInv
<1> SUFFICES ASSUME Init PROVE Agreeing
    BY DEF AgreeInv
<1>1. out = <<>> /\ slots = <<>> /\ DOMAIN srv = {}
    BY DEF Init
<1> QED BY <1>1, AgreeNone

LEMMA AgreeNext ==
    ASSUME SubsInv, AgreeInv, [Next]_vars
    PROVE  AgreeInv'
<1> SUFFICES ASSUME ~halfway' PROVE Agreeing'
    BY DEF AgreeInv
<1>0. SubsInv'
    BY NextInv
<1>1. CASE Disconnect
    BY <1>1, AgreeDisconnect
<1>2. CASE ~Disconnect
    <2>1. ~halfway
        <3>1. ASSUME NEW c \in Clients, NEW max \in Maxima, Subscribe(c, max) PROVE ~halfway
            BY <3>1, WholeSubscribe
        <3>2. ASSUME NEW c \in Clients, NEW sid \in handles[c], Unsubscribe(c, sid) PROVE ~halfway
            BY <3>2, WholeUnsubscribe
        <3>3. ASSUME NEW len \in Lengths, Publish(len) PROVE ~halfway
            <4>1. \E lines, k : halfway' = (halfway \/ k < Len(lines))
                BY <3>3 DEF Publish, WriteLines
            <4> QED BY <4>1, Zenon
        <3>4. CASE \/ SubscribeFails \/ ProcessMsg \/ ProcessUnknown \/ Connect \/ Server
                   \/ UNCHANGED vars
            BY <3>4 DEF SubscribeFails, ProcessMsg, ProcessUnknown, Connect, Server, ServerReads,
               ServerLost, ServerSends, vars
        <3> QED BY <1>2, <3>1, <3>2, <3>3, <3>4 DEF Next, Calls
    <2>2. Agreeing
        BY <2>1 DEF AgreeInv
    <2>3. ASSUME NEW c \in Clients, NEW max \in Maxima, Subscribe(c, max) PROVE Agreeing'
        BY <2>2, <2>3, AgreeSubscribe
    <2>4. ASSUME NEW c \in Clients, NEW sid \in handles[c], Unsubscribe(c, sid) PROVE Agreeing'
        BY <2>2, <2>4, AgreeUnsubscribe
    <2>5. ASSUME NEW len \in Lengths, Publish(len) PROVE Agreeing'
        BY <1>0, <2>2, <2>5, AgreePublish
    <2>6. CASE SubscribeFails \/ Connect \/ ServerLost \/ UNCHANGED vars
        <3>1. UNCHANGED <<slots, out, in, srv>> /\ next_id \in Nat /\ next_id' \in {next_id, next_id + 1}
            BY <2>6 DEF SubscribeFails, Connect, ServerLost, vars, table, server, SubsInv, TypeOK
        <3>2. Ordered(out') /\ next_id <= next_id' /\ \A sid : Same(sid)
            BY <2>2, <3>1 DEF Agreeing, Same
        <3> QED BY <1>0, <2>2, <3>1, <3>2, AgreeSame
    <2>7. ASSUME NEW sid \in DOMAIN srv, ServerSends(sid) PROVE Agreeing'
        BY <2>2, <2>7, AgreeServerSends
    <2> QED BY <1>0, <1>2, <2>2, <2>3, <2>4, <2>5, <2>6, <2>7, AgreeProcessMsg, AgreeProcessUnknown,
               AgreeServerReads DEF Next, Calls, Server
<1> QED BY <1>1, <1>2

\* With nothing under way the invariant leaves a subscription of the client no
\* choice but to be the server's, with the same limit and count.
LEMMA AgreeImplies == SubsInv /\ AgreeInv => Agree
<1> SUFFICES ASSUME SubsInv, AgreeInv, out = <<>>, in = <<>>, ~halfway
             PROVE  /\ DOMAIN srv = {slots[i].sid : i \in LiveSlots}
                    /\ \A i \in LiveSlots :
                        LET s == srv[slots[i].sid]
                        IN  s.max = slots[i].max /\ (s.max > 0 => s.sent = slots[i].recv)
    BY DEF Agree
<1>1. Agreeing
    BY DEF AgreeInv
<1>2. Lines(out) = {} /\ \A s : Coming(in, s) = 0
    <2>1. Len(<<>>) = 0 /\ 1 .. 0 = {} /\ in \in Seq(Msg)
        BY EmptySeq DEF SubsInv, TypeOK, Msg
    <2>2. \A s : Coming(in, s) = 0
        <3>1. \A i \in 1 .. Len(in) : FALSE
            BY <2>1
        <3> QED BY <2>1, <3>1, ComingNone
    <2> QED BY <2>1, <2>2 DEF Lines
<1>3. \A s : ~Starts(s) /\ \A n : ~Ends(s, n)
    BY <1>2 DEF Starts, Ends
<1>4. ASSUME NEW i \in LiveSlots
      PROVE  /\ slots[i].sid \in DOMAIN srv /\ srv[slots[i].sid].max = slots[i].max
             /\ slots[i].max > 0 => srv[slots[i].sid].sent = slots[i].recv
    <2>1. SlotAgrees(slots[i])
        BY <1>1 DEF Agreeing
    <2>2. /\ slots[i].max \in Nat /\ slots[i].recv \in Nat
          /\ slots[i].max > 0 => slots[i].recv < slots[i].max
        BY LiveOnce
    <2>3. ~(slots[i].max > 0 /\ slots[i].recv + 0 >= slots[i].max)
        BY <2>2
    <2>4. /\ slots[i].sid \in DOMAIN srv /\ srv[slots[i].sid].max = slots[i].max
          /\ slots[i].max > 0 => slots[i].recv + 0 = srv[slots[i].sid].sent
        BY <1>2, <1>3, <2>1, <2>3 DEF SlotAgrees
    <2> QED BY <2>2, <2>4
<1>5. \A sid \in DOMAIN srv : \E i \in LiveSlots : slots[i].sid = sid
    BY <1>1, <1>3 DEF Agreeing, SrvAgrees, IsLive
<1> QED BY <1>4, <1>5

\* Client and server, who count and end subscriptions each by itself, agree on
\* them whenever nothing is under way: through UNSUBs that cross the messages
\* they were to stop, limits the server learns of late and sids of subscriptions
\* that are gone, for any number of clients, subscriptions and messages.
THEOREM AgreeCorrect == Spec => []Agree
<1>1. SubsInv /\ AgreeInv /\ [Next]_vars => AgreeInv'
    BY AgreeNext
<1> QED BY <1>1, AgreeInit, AgreeImplies, InvCorrect, PTL DEF Spec

\* The invariant behind HandlesOwned, FramesKept and Agree, where each holds.
THEOREM TalkCorrect ==
    ASSUME ~StaleHandles, Strings \subseteq {0}
    PROVE  Spec => []TalkInv
<1>1. SubsInv /\ TalkInv /\ [Next]_vars => TalkInv'
    BY HandlesNext, FramesNext, AgreeNext DEF TalkInv
<1>2. Init => TalkInv
    BY HandlesInit, FramesInit, AgreeInit DEF TalkInv
<1> QED BY <1>1, <1>2, InvCorrect, PTL DEF Spec

=============================================================================
