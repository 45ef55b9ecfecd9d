--------------------------- MODULE NatsWireProofs ---------------------------
(***************************************************************************)
(* The parser and the stream: the verdict of ngx_nats_parse on the bytes   *)
(* that have come does not change with the bytes that come after, so every *)
(* way of cutting the stream gives the messages that the server sent.      *)
(***************************************************************************)
EXTENDS NatsWire, NatsBufProofs, SequenceTheorems, WellFoundedInduction

-----------------------------------------------------------------------------
(* Induction, about sets: the provers can not instantiate the operator of  *)
(* the library's induction theorems.                                       *)

LEMMA LeastNat ==
    ASSUME NEW T, T \subseteq Nat, T # {}
    PROVE  \E x \in T : \A y \in T : x <= y
<1> DEFINE R == OpToRel(<, Nat)
<1>1. IsWellFoundedOn(R, Nat)
  BY NatLessThanWellFounded, Zenon
<1>2. \A y, x \in Nat : y < x => <<y, x>> \in R
  BY Zenon DEF OpToRel
<1> HIDE DEF R
<1>3. PICK x \in T : \A y \in T : ~ (<<y, x>> \in R)
  BY <1>1, WFMin
<1>4. \A y \in T : ~ (y < x)
  BY <1>2, <1>3
<1> QED
  BY <1>4

LEMMA SetInduction ==
    ASSUME NEW S, 0 \in S, \A n \in Nat : n \in S => n + 1 \in S
    PROVE  Nat \subseteq S
<1> SUFFICES ASSUME Nat \ S # {} PROVE FALSE
  OBVIOUS
<1>1. PICK x \in Nat \ S : \A y \in Nat \ S : x <= y
  BY LeastNat
<1>2. x # 0 /\ x - 1 \in Nat
  BY <1>1
<1>3. x - 1 \in S
  BY <1>1, <1>2
<1> QED
  BY <1>1, <1>2, <1>3

\* The greatest of some numbers up to n
LEMMA GreatestNat ==
    ASSUME NEW n \in Nat, NEW T, T \subseteq 0 .. n, T # {}
    PROVE  \E x \in T : \A y \in T : y <= x
<1> DEFINE U == {n - y : y \in T}
<1>1. U \subseteq Nat /\ U # {}
  <2>1. PICK y : y \in T
    OBVIOUS
  <2>2. n - y \in U
    BY <2>1
  <2> QED
    BY <2>2
<1>2. PICK u \in U : \A v \in U : u <= v
  BY <1>1, LeastNat
<1>3. PICK x \in T : u = n - x
  BY <1>2
<1>4. ASSUME NEW y \in T PROVE y <= x
  <2>1. n - y \in U
    OBVIOUS
  <2>2. n - x <= n - y
    BY <1>2, <1>3, <2>1
  <2> QED
    BY <2>2
<1> QED
  BY <1>4

-----------------------------------------------------------------------------
(* The scanning loops *)

LEMMA FindFacts ==
    ASSUME NEW b, NEW from \in Nat, NEW end \in Nat, from <= end, NEW S
    PROVE  /\ Find(b, from, end, S) \in from .. end
           /\ Find(b, from, end, S) < end => b[Find(b, from, end, S)] \in S
           /\ \A o \in from .. end - 1 : o < Find(b, from, end, S) => b[o] \notin S
<1> DEFINE found == {p \in from .. end - 1 : b[p] \in S}
<1>1. Find(b, from, end, S) = IF found = {} THEN end ELSE CHOOSE p \in found : \A o \in found : p <= o
  BY DEF Find
<1>2. found # {} => \E p \in found : \A o \in found : p <= o
  <2>1. found \subseteq Nat
    OBVIOUS
  <2> QED
    BY <2>1, LeastNat
<1>3. CASE found = {}
  <2>1. Find(b, from, end, S) = end
    BY <1>1, <1>3
  <2>2. \A o \in from .. end - 1 : b[o] \notin S
    BY <1>3
  <2> QED
    BY <2>1, <2>2
<1>4. CASE found # {}
  <2> DEFINE p == Find(b, from, end, S)
  <2>1. p \in found /\ \A o \in found : p <= o
    BY <1>1, <1>2, <1>4, Zenon
  <2> HIDE DEF p
  <2>2. p \in from .. end - 1 /\ b[p] \in S
    BY <2>1
  <2>3. ASSUME NEW o \in from .. end - 1, o < p PROVE b[o] \notin S
    <3>1. o \notin found
      BY <2>1, <2>2, <2>3
    <3> QED
      BY <3>1
  <2>4. p \in from .. end
    BY <2>2
  <2> QED
    BY <2>2, <2>3, <2>4 DEF p
<1> QED
  BY <1>3, <1>4

\* ... and nothing else
LEMMA FindIs ==
    ASSUME NEW b, NEW from \in Nat, NEW end \in Nat, NEW S, NEW p \in from .. end - 1,
           b[p] \in S, \A o \in from .. p - 1 : b[o] \notin S
    PROVE  Find(b, from, end, S) = p
<1>1. from <= end /\ p < end
  OBVIOUS
<1>2. /\ Find(b, from, end, S) \in from .. end
      /\ Find(b, from, end, S) < end => b[Find(b, from, end, S)] \in S
      /\ \A o \in from .. end - 1 : o < Find(b, from, end, S) => b[o] \notin S
  BY <1>1, FindFacts
<1> HIDE DEF Find
<1> QED
  BY <1>2

LEMMA SkipFacts ==
    ASSUME NEW b, NEW from \in Nat, NEW end \in Nat, from <= end, NEW S
    PROVE  /\ Skip(b, from, end, S) \in from .. end
           /\ Skip(b, from, end, S) < end => b[Skip(b, from, end, S)] \notin S
           /\ \A o \in from .. end - 1 : o < Skip(b, from, end, S) => b[o] \in S
<1> DEFINE found == {p \in from .. end - 1 : b[p] \notin S}
<1>1. Skip(b, from, end, S) = IF found = {} THEN end ELSE CHOOSE p \in found : \A o \in found : p <= o
  BY DEF Skip
<1>2. found # {} => \E p \in found : \A o \in found : p <= o
  <2>1. found \subseteq Nat
    OBVIOUS
  <2> QED
    BY <2>1, LeastNat
<1>3. CASE found = {}
  <2>1. Skip(b, from, end, S) = end
    BY <1>1, <1>3
  <2>2. \A o \in from .. end - 1 : b[o] \in S
    BY <1>3
  <2> QED
    BY <2>1, <2>2
<1>4. CASE found # {}
  <2> DEFINE p == Skip(b, from, end, S)
  <2>1. p \in found /\ \A o \in found : p <= o
    BY <1>1, <1>2, <1>4, Zenon
  <2> HIDE DEF p
  <2>2. p \in from .. end - 1 /\ b[p] \notin S
    BY <2>1
  <2>3. ASSUME NEW o \in from .. end - 1, o < p PROVE b[o] \in S
    <3>1. o \notin found
      BY <2>1, <2>2, <2>3
    <3> QED
      BY <3>1
  <2>4. p \in from .. end
    BY <2>2
  <2> QED
    BY <2>2, <2>3, <2>4 DEF p
<1> QED
  BY <1>3, <1>4

LEMMA SkipIs ==
    ASSUME NEW b, NEW from \in Nat, NEW end \in Nat, NEW S, NEW p \in from .. end - 1,
           b[p] \notin S, \A o \in from .. p - 1 : b[o] \in S
    PROVE  Skip(b, from, end, S) = p
<1>1. from <= end /\ p < end
  OBVIOUS
<1>2. /\ Skip(b, from, end, S) \in from .. end
      /\ Skip(b, from, end, S) < end => b[Skip(b, from, end, S)] \notin S
      /\ \A o \in from .. end - 1 : o < Skip(b, from, end, S) => b[o] \in S
  BY <1>1, SkipFacts
<1> QED
  BY <1>2

-----------------------------------------------------------------------------
(* The parser, on a text b and on a text d that starts with it *)

Starts(b, d) ==
    /\ b \in Seq(STRING) /\ d \in Seq(STRING) /\ Len(b) <= Len(d)
    /\ \A i \in 1 .. Len(b) : d[i] = b[i]

LEMMA ConcatStarts ==
    ASSUME NEW b \in Seq(STRING), NEW c \in Seq(STRING)
    PROVE  Starts(b, b \o c)
BY ConcatProperties DEF Starts

LEMMA StartsSubSeq ==
    ASSUME NEW b, NEW d, Starts(b, d), NEW m \in Nat \ {0}, NEW n \in Nat, n <= Len(b)
    PROVE  SubSeq(d, m, n) = SubSeq(b, m, n)
BY DEF Starts

LEMMA StartsFind ==
    ASSUME NEW b, NEW d, Starts(b, d), NEW from \in Nat \ {0}, NEW S,
           NEW eb \in Nat, NEW ed \in Nat, from <= eb, eb <= ed, eb <= Len(b) + 1,
           Find(b, from, eb, S) < eb
    PROVE  Find(d, from, ed, S) = Find(b, from, eb, S)
<1> DEFINE p == Find(b, from, eb, S)
<1>1. p \in from .. eb /\ b[p] \in S /\ \A o \in from .. eb - 1 : o < p => b[o] \notin S
  BY FindFacts
<1> HIDE DEF p
<1>2. p < eb
  BY DEF p
<1>3. Len(b) \in Nat /\ \A i \in 1 .. Len(b) : d[i] = b[i]
  BY DEF Starts
<1>4. p \in from .. ed - 1 /\ d[p] \in S /\ \A o \in from .. p - 1 : d[o] \notin S
  BY <1>1, <1>2, <1>3
<1>5. Find(d, from, ed, S) = p
  BY <1>4, FindIs
<1> QED
  BY <1>5 DEF p

LEMMA StartsSkip ==
    ASSUME NEW b, NEW d, Starts(b, d), NEW from \in Nat \ {0}, NEW S,
           NEW eb \in Nat, NEW ed \in Nat, from <= eb, eb <= ed, eb <= Len(b) + 1,
           Skip(b, from, eb, S) < eb
    PROVE  Skip(d, from, ed, S) = Skip(b, from, eb, S)
<1> DEFINE p == Skip(b, from, eb, S)
<1>1. p \in from .. eb /\ b[p] \notin S /\ \A o \in from .. eb - 1 : o < p => b[o] \in S
  BY SkipFacts
<1> HIDE DEF p
<1>2. p < eb
  BY DEF p
<1>3. Len(b) \in Nat /\ \A i \in 1 .. Len(b) : d[i] = b[i]
  BY DEF Starts
<1>4. p \in from .. ed - 1 /\ d[p] \notin S /\ \A o \in from .. p - 1 : d[o] \in S
  BY <1>1, <1>2, <1>3
<1>5. Skip(d, from, ed, S) = p
  BY <1>4, SkipIs
<1> QED
  BY <1>5 DEF p

\* What a verdict may be: a message of bytes that are there, or a code; a text
\* that starts with this one has the same verdict unless this one is not
\* complete.
Sound(v, w, b) ==
    /\ v.rc \in {Again, InvalidHeader, InvalidMsg} \cup 1 .. Len(b)
    /\ v.rc # Again => w = v
    /\ v.rc \notin 1 .. Len(b) => v = Failed(v.rc)

LEMMA VerdictFacts ==
    ASSUME NEW rc \in Int, NEW msg
    PROVE  Formed(rc, msg).rc = rc /\ Formed(rc, msg).msg = msg /\ Failed(rc).rc = rc
BY DEF Formed, Failed

LEMMA BareSound ==
    ASSUME NEW b, NEW d, Starts(b, d), Len(b) >= 2
    PROVE  Sound(ParseBare(b), ParseBare(d), b)
<1>1. Len(b) \in Nat /\ Len(d) \in Nat /\ Len(b) <= Len(d) /\ d[1] = b[1] /\ d[2] = b[2]
      /\ (Len(b) >= 3 => d[3] = b[3])
  BY DEF Starts
<1> QED
  BY <1>1 DEF ParseBare, Sound, Formed, Failed, Again, InvalidHeader, InvalidMsg

LEMMA TextSound ==
    ASSUME NEW b, NEW d, Starts(b, d), NEW n \in 2 .. Len(b)
    PROVE  Sound(ParseText(b, n), ParseText(d, n), b)
<1>1. Len(b) \in Nat /\ Len(d) \in Nat /\ Len(b) <= Len(d) /\ d[1] = b[1]
      /\ \A i \in 1 .. Len(b) : d[i] = b[i]
  BY DEF Starts
<1> DEFINE p == Find(b, n + 1, End(b), {"CR"})
           q == Find(d, n + 1, End(d), {"CR"})
<1>2. p \in n + 1 .. End(b)
  BY <1>1, FindFacts DEF End
<1>3. CASE p >= Len(b)
  <2>1. ParseText(b, n) = Failed(Again)
    BY <1>3 DEF ParseText
  <2> QED
    BY <2>1 DEF Sound, Failed
<1>4. CASE p < Len(b)
  <2>0. /\ n + 1 \in Nat \ {0} /\ End(b) \in Nat /\ End(d) \in Nat
        /\ n + 1 <= End(b) /\ End(b) <= End(d) /\ End(b) <= Len(b) + 1 /\ p < End(b)
    BY <1>1, <1>2, <1>4 DEF End
  <2>1. q = p
    BY <2>0, StartsFind
  <2> HIDE DEF p, q
  <2>2. SubSeq(d, n, p - 1) = SubSeq(b, n, p - 1)
    BY <1>1, <1>2, <1>4, StartsSubSeq
  <2>3. d[p + 1] = b[p + 1] /\ p + 1 \in 1 .. Len(b) /\ ~(p >= Len(b)) /\ ~(p >= Len(d))
    BY <1>1, <1>2, <1>4
  <2>4. ParseText(b, n) = IF b[p + 1] # "LF" THEN Failed(InvalidMsg)
                          ELSE Formed(p + 1, Text(b[1], SubSeq(b, n, p - 1)))
    BY <2>3 DEF ParseText, p
  <2>5. ParseText(d, n) = IF d[p + 1] # "LF" THEN Failed(InvalidMsg)
                          ELSE Formed(p + 1, Text(d[1], SubSeq(d, n, p - 1)))
    BY <2>1, <2>3 DEF ParseText, q
  <2>6. ParseText(b, n) = ParseText(d, n)
    <3>1. d[1] = b[1] /\ d[p + 1] = b[p + 1]
      BY <1>1, <2>3
    <3>2. Text(d[1], SubSeq(d, n, p - 1)) = Text(b[1], SubSeq(b, n, p - 1))
      BY <2>2, <3>1, Zenon
    <3>3. CASE b[p + 1] = "LF"
      BY <2>4, <2>5, <3>1, <3>2, <3>3, Zenon
    <3>4. CASE b[p + 1] # "LF"
      BY <2>4, <2>5, <3>1, <3>4
    <3> QED
      BY <3>3, <3>4
  <2>7. ParseText(b, n).rc \in {InvalidMsg} \cup 1 .. Len(b)
    BY <2>3, <2>4 DEF Failed, Formed
  <2>8. ParseText(b, n).rc \notin 1 .. Len(b) => ParseText(b, n) = Failed(ParseText(b, n).rc)
    BY <2>3, <2>4 DEF Failed, Formed
  <2> QED
    BY <2>6, <2>7, <2>8 DEF Sound
<1> QED
  BY <1>1, <1>2, <1>3, <1>4 DEF End

LEMMA ErrInfoSound ==
    ASSUME NEW b, NEW d, Starts(b, d), Len(b) >= 2
    PROVE  Sound(ParseErr(b), ParseErr(d), b) /\ Sound(ParseInfo(b), ParseInfo(d), b)
<1>1. Len(b) \in Nat /\ Len(d) \in Nat /\ Len(b) <= Len(d)
  BY DEF Starts
<1> DEFINE p == Skip(b, 2, End(b), {"SP"})
           q == Skip(d, 2, End(d), {"SP"})
<1>2. p \in 2 .. End(b)
  <2>1. 2 \in Nat /\ End(b) \in Nat /\ 2 <= End(b)
    BY <1>1 DEF End
  <2> QED
    BY <2>1, SkipFacts
<1>3. CASE p = End(b)
  <2>1. ParseErr(b) = Failed(Again) /\ ParseInfo(b) = Failed(Again)
    BY <1>3 DEF ParseErr, ParseInfo
  <2> QED
    BY <2>1 DEF Sound, Failed
<1>4. CASE p # End(b)
  <2>1. q = p
    BY <1>1, <1>2, <1>4, StartsSkip DEF End
  <2> HIDE DEF p, q
  <2>2. p \in 2 .. Len(b) /\ p # End(b) /\ p # End(d)
    BY <1>1, <1>2, <1>4 DEF End
  <2>3. /\ ParseErr(b) = IF p = 2 THEN ParseBare(b) ELSE ParseText(b, p)
        /\ ParseInfo(b) = IF p = 2 THEN Failed(InvalidMsg) ELSE ParseText(b, p)
    BY <2>2 DEF ParseErr, ParseInfo, p
  <2>4. /\ ParseErr(d) = IF p = 2 THEN ParseBare(d) ELSE ParseText(d, p)
        /\ ParseInfo(d) = IF p = 2 THEN Failed(InvalidMsg) ELSE ParseText(d, p)
    BY <2>1, <2>2 DEF ParseErr, ParseInfo, q
  <2>5. Sound(ParseBare(b), ParseBare(d), b) /\ Sound(ParseText(b, p), ParseText(d, p), b)
    BY <2>2, BareSound, TextSound
  <2>6. Sound(Failed(InvalidMsg), Failed(InvalidMsg), b)
    BY DEF Sound, Failed
  <2> QED
    BY <2>3, <2>4, <2>5, <2>6
<1> QED
  BY <1>3, <1>4

-----------------------------------------------------------------------------
(* The header of a MSG *)

\* The recursive function behind _nats_atoi has values, and they are numbers.
AtoiStep(f, s) ==
    f = [n \in 0 .. Len(s) |-> IF n = 0 THEN 0 ELSE f[n - 1] * 10 + Digits[s[n]]]

LEMMA AtoiIs ==
    ASSUME NEW s
    PROVE  Atoi(s) = (CHOOSE f : AtoiStep(f, s))[Len(s)]
BY Zenon DEF Atoi, AtoiStep

LEMMA DigitsNat == \A d \in DOMAIN Digits : Digits[d] \in Nat
BY DEF Digits

LEMMA AtoiExists ==
    ASSUME NEW s, Len(s) \in Nat, \A i \in 1 .. Len(s) : s[i] \in DOMAIN Digits
    PROVE  \E f \in [0 .. Len(s) -> Nat] : AtoiStep(f, s)
<1> DEFINE Upto(f, k) == \A n \in 0 .. k : f[n] = IF n = 0 THEN 0 ELSE f[n - 1] * 10 + Digits[s[n]]
           S == {k \in Nat : k <= Len(s) => \E f \in [0 .. k -> Nat] : Upto(f, k)}
<1>1. 0 \in S
  <2>1. [n \in 0 .. 0 |-> 0] \in [0 .. 0 -> Nat] /\ Upto([n \in 0 .. 0 |-> 0], 0)
    OBVIOUS
  <2> QED
    BY <2>1
<1>2. ASSUME NEW k \in Nat, k \in S PROVE k + 1 \in S
  <2> HIDE DEF Upto
  <2> SUFFICES ASSUME k + 1 <= Len(s) PROVE \E f \in [0 .. k + 1 -> Nat] : Upto(f, k + 1)
    OBVIOUS
  <2> USE DEF Upto
  <2>1. PICK f \in [0 .. k -> Nat] : Upto(f, k)
    BY <1>2
  <2> DEFINE v == f[k] * 10 + Digits[s[k + 1]]
             g == [n \in 0 .. k + 1 |-> IF n <= k THEN f[n] ELSE v]
  <2>2. v \in Nat
    BY <2>1, DigitsNat
  <2> HIDE DEF v
  <2>3. g \in [0 .. k + 1 -> Nat]
    BY <2>1, <2>2
  <2>4. ASSUME NEW n \in 0 .. k + 1
        PROVE  g[n] = IF n = 0 THEN 0 ELSE g[n - 1] * 10 + Digits[s[n]]
    <3>1. CASE n = k + 1
      <4>1. g[n] = v /\ g[n - 1] = f[k] /\ n # 0
        BY <3>1
      <4> QED
        BY <3>1, <4>1 DEF v
    <3>2. CASE n \in 0 .. k
      <4>1. g[n] = f[n] /\ (n # 0 => g[n - 1] = f[n - 1])
        BY <3>2
      <4> QED
        BY <2>1, <3>2, <4>1
    <3> QED
      BY <3>1, <3>2
  <2> QED
    BY <2>3, <2>4
<1> HIDE DEF S
<1>3. Len(s) \in S
  BY <1>1, <1>2, SetInduction
<1>4. PICK f \in [0 .. Len(s) -> Nat] : Upto(f, Len(s))
  BY <1>3 DEF S
<1>5. AtoiStep(f, s)
  BY <1>4 DEF AtoiStep
<1> QED
  BY <1>5

LEMMA AtoiNat ==
    ASSUME NEW s, Len(s) \in Nat, DOMAIN s = 1 .. Len(s), IsNumber(s)
    PROVE  Atoi(s) \in Nat
<1> DEFINE f == CHOOSE g : AtoiStep(g, s)
<1>1. \A i \in 1 .. Len(s) : s[i] \in DOMAIN Digits
  BY DEF IsNumber
<1>2. AtoiStep(f, s)
  BY <1>1, AtoiExists
<1> HIDE DEF f
<1> DEFINE S == {k \in Nat : k <= Len(s) => f[k] \in Nat}
<1>3. ASSUME NEW n \in 0 .. Len(s)
      PROVE  f[n] = IF n = 0 THEN 0 ELSE f[n - 1] * 10 + Digits[s[n]]
  BY <1>2 DEF AtoiStep
<1>4. 0 \in S
  BY <1>3
<1>5. ASSUME NEW k \in Nat, k \in S PROVE k + 1 \in S
  <2> SUFFICES ASSUME k + 1 <= Len(s) PROVE f[k + 1] \in Nat
    OBVIOUS
  <2>1. f[k + 1] = f[k] * 10 + Digits[s[k + 1]] /\ f[k] \in Nat
    BY <1>3, <1>5
  <2>2. Digits[s[k + 1]] \in Nat
    BY <1>1, DigitsNat
  <2> QED
    BY <2>1, <2>2
<1> HIDE DEF S
<1>6. f[Len(s)] \in Nat
  <2>1. Len(s) \in S
    BY <1>4, <1>5, SetInduction
  <2> QED
    BY <2>1 DEF S
<1> QED
  BY <1>6, AtoiIs DEF f

\* The same for the recursive function that looks for the closing quote: it
\* finds one behind where it starts, or none.
QuoteStep(f, h, q) ==
    f = [p \in 1 .. Len(h) + 2 |->
          IF p > Len(h) THEN NoToken
          ELSE IF h[p] = "BS" THEN f[p + 2]
          ELSE IF h[p] = q THEN p
          ELSE f[p + 1]]

LEMMA QuoteIs ==
    ASSUME NEW h, NEW ns
    PROVE  ClosingQuote(h, ns) = (CHOOSE f : QuoteStep(f, h, h[ns]))[ns + 1]
BY Zenon DEF ClosingQuote, QuoteStep

LEMMA QuoteExists ==
    ASSUME NEW h, Len(h) \in Nat, NEW q
    PROVE  \E f : QuoteStep(f, h, q)
<1> DEFINE N == Len(h)
           Step(f, p) == f[p] = IF p > N THEN NoToken
                                ELSE IF h[p] = "BS" THEN f[p + 2]
                                ELSE IF h[p] = q THEN p
                                ELSE f[p + 1]
           From(k) == N + 1 - k .. N + 2
           Fills(f, k) == \A p \in From(k) : p >= 1 => Step(f, p)
           S == {k \in Nat : \E f : DOMAIN f = From(k) /\ Fills(f, k)}
<1>1. 0 \in S
  <2> DEFINE f == [p \in From(0) |-> NoToken]
  <2>1. DOMAIN f = From(0) /\ \A p \in From(0) : p > N /\ f[p] = NoToken
    OBVIOUS
  <2>2. Fills(f, 0)
    BY <2>1
  <2> QED
    BY <2>1, <2>2
<1>2. ASSUME NEW k \in Nat, k \in S PROVE k + 1 \in S
  <2>1. PICK f : DOMAIN f = From(k) /\ Fills(f, k)
    BY <1>2
  <2> DEFINE m == N - k
             v == IF m > N THEN NoToken ELSE IF h[m] = "BS" THEN f[m + 2] ELSE IF h[m] = q THEN m ELSE f[m + 1]
             g == [p \in From(k + 1) |-> IF p = m THEN v ELSE f[p]]
  <2> HIDE DEF v
  <2>2. m \in Int /\ From(k + 1) = {m} \cup From(k) /\ m + 1 \in From(k) /\ m + 2 \in From(k) /\ m \notin From(k)
    BY DEF From
  <2>3. g[m] = v /\ \A p \in From(k) : g[p] = f[p]
    BY <2>2
  <2>4. ASSUME NEW p \in From(k), p >= 1 PROVE Step(g, p)
    <3>1. p \in Int /\ p <= N => p + 1 \in From(k) /\ p + 2 \in From(k)
      OBVIOUS
    <3>2. Step(f, p) /\ p \in Int
      BY <2>1, <2>4
    <3> HIDE DEF From, g
    <3> QED
      BY <2>3, <3>1, <3>2
  <2>5. Step(g, m)
    BY <2>2, <2>3 DEF v
  <2>6. Fills(g, k + 1)
    BY <2>2, <2>4, <2>5
  <2>7. DOMAIN g = From(k + 1)
    OBVIOUS
  <2> HIDE DEF Fills, From, g
  <2> QED
    BY <2>6, <2>7
<1> HIDE DEF S
<1>3. N \in S
  BY <1>1, <1>2, SetInduction
<1>4. PICK f : DOMAIN f = From(N) /\ Fills(f, N)
  BY <1>3 DEF S
<1> DEFINE g == [p \in 1 .. N + 2 |-> f[p]]
<1>5. From(N) = 1 .. N + 2
  OBVIOUS
<1>6. ASSUME NEW p \in 1 .. N + 2 PROVE Step(g, p)
  <2>1. Step(f, p)
    BY <1>4, <1>5
  <2>2. p <= N => p + 1 \in 1 .. N + 2 /\ p + 2 \in 1 .. N + 2
    OBVIOUS
  <2>3. \A o \in 1 .. N + 2 : g[o] = f[o]
    OBVIOUS
  <2> HIDE DEF g
  <2> QED
    BY <2>1, <2>2, <2>3
<1>7. QuoteStep(g, h, q)
  BY <1>6 DEF QuoteStep
<1> QED
  BY <1>7

LEMMA QuoteFacts ==
    ASSUME NEW h, Len(h) \in Nat, NEW ns \in 1 .. Len(h)
    PROVE  ClosingQuote(h, ns) \in {NoToken} \cup ns + 1 .. Len(h)
<1> DEFINE N == Len(h)
           f == CHOOSE g : QuoteStep(g, h, h[ns])
<1>1. QuoteStep(f, h, h[ns])
  BY QuoteExists
<1> HIDE DEF f
<1>2. ASSUME NEW p \in 1 .. N + 2
      PROVE  f[p] = IF p > N THEN NoToken
                    ELSE IF h[p] = "BS" THEN f[p + 2]
                    ELSE IF h[p] = h[ns] THEN p
                    ELSE f[p + 1]
  BY <1>1 DEF QuoteStep
<1> DEFINE T(p) == {NoToken} \cup p .. N
           S == {k \in Nat : \A p \in 1 .. N + 2 : p >= N + 1 - k => f[p] \in T(p)}
<1>3. 0 \in S
  BY <1>2
<1>4. ASSUME NEW k \in Nat, k \in S PROVE k + 1 \in S
  <2> SUFFICES ASSUME NEW p \in 1 .. N + 2, p >= N + 1 - (k + 1) PROVE f[p] \in T(p)
    OBVIOUS
  <2>1. CASE p >= N + 1 - k
    BY <1>4, <2>1
  <2>2. CASE ~(p >= N + 1 - k)
    <3>1. p <= N /\ p + 1 \in 1 .. N + 2 /\ p + 2 \in 1 .. N + 2 /\ p + 1 >= N + 1 - k /\ p + 2 >= N + 1 - k
      BY <2>2
    <3>2. f[p + 1] \in T(p + 1) /\ f[p + 2] \in T(p + 2)
      BY <1>4, <3>1
    <3>3. T(p + 1) \subseteq T(p) /\ T(p + 2) \subseteq T(p) /\ p \in T(p)
      BY <3>1
    <3> QED
      BY <1>2, <3>1, <3>2, <3>3
  <2> QED
    BY <2>1, <2>2
<1> HIDE DEF S
<1>5. N \in S
  BY <1>3, <1>4, SetInduction
<1>6. f[ns + 1] \in T(ns + 1)
  BY <1>5 DEF S
<1> QED
  BY <1>6, QuoteIs DEF f

\* _nats_token stays in the header
LEMMA TokenFacts ==
    ASSUME NEW h \in Seq(STRING), NEW pos \in 1 .. End(h)
    PROVE  /\ NatsToken(h, pos).n \in {NoToken} \cup pos .. End(h)
           /\ NatsToken(h, pos).ns \in pos .. End(h)
           /\ NatsToken(h, pos).ne \in NatsToken(h, pos).ns .. End(h)
<1> DEFINE max == End(h)
           ns  == Skip(h, pos, max, {"SP"})
           q   == ClosingQuote(h, ns)
           ne  == Find(h, ns, max, {"SP", "CR"})
<1>1. Len(h) \in Nat /\ max = Len(h) + 1 /\ pos \in Nat /\ max \in Nat /\ pos <= max
  BY DEF End
<1>2. ns \in pos .. max
  BY <1>1, SkipFacts
<1>3. ne \in ns .. max
  BY <1>1, <1>2, FindFacts
<1>4. ns # max => q \in {NoToken} \cup ns + 1 .. Len(h)
  BY <1>1, <1>2, QuoteFacts
<1>5. NatsToken(h, pos) = IF ns = max THEN [n |-> max, ns |-> max, ne |-> max]
                      ELSE IF h[ns] \notin Quotes THEN [n |-> ne, ns |-> ns, ne |-> ne]
                      ELSE IF q = NoToken THEN [n |-> NoToken, ns |-> ns, ne |-> max]
                      ELSE [n |-> q + 1, ns |-> ns, ne |-> q + 1]
  BY DEF NatsToken
<1> HIDE DEF max, ns, q, ne
<1>6. /\ NatsToken(h, pos).n \in {NoToken} \cup pos .. max
      /\ NatsToken(h, pos).ns \in pos .. max
      /\ NatsToken(h, pos).ne \in NatsToken(h, pos).ns .. max
  BY <1>1, <1>2, <1>3, <1>4, <1>5 DEF NoToken
<1> QED
  BY <1>6 DEF max

LEMMA SliceNat ==
    ASSUME NEW h \in Seq(STRING), NEW t, t.ns \in 1 .. End(h), t.ne \in t.ns .. End(h),
           IsNumber(Slice(h, t))
    PROVE  Atoi(Slice(h, t)) \in Nat
<1> DEFINE s == Slice(h, t)
<1>1. s \in Seq(STRING)
  BY DEF Slice, End
<1>2. Len(s) \in Nat /\ DOMAIN s = 1 .. Len(s)
  BY <1>1
<1> HIDE DEF s
<1> QED
  BY <1>2, AtoiNat DEF s

\* The length in a header that is valid is a number.
LEMMA HeaderFacts ==
    ASSUME NEW h \in Seq(STRING), Len(h) >= 1, ValidHeader(h)
    PROVE  Atoi(LenOf(h)) \in Nat
<1>1. 2 \in 1 .. End(h) /\ End(h) \in Nat
  BY DEF End
<1>2. Subject(h).n \in 1 .. End(h)
  BY <1>1, TokenFacts DEF ValidHeader, Found, Subject
<1>3. Sid(h).n \in 1 .. End(h)
  BY <1>1, <1>2, TokenFacts DEF ValidHeader, Found, Sid
<1>4. Third(h).ns \in 1 .. End(h) /\ Third(h).ne \in Third(h).ns .. End(h) /\ Third(h).n \in 1 .. End(h)
  BY <1>1, <1>3, TokenFacts DEF ValidHeader, Found, Third
<1>5. Fourth(h).ns \in 1 .. End(h) /\ Fourth(h).ne \in Fourth(h).ns .. End(h)
  BY <1>1, <1>4, TokenFacts DEF Fourth
<1> DEFINE t == IF HasReply(h) THEN Fourth(h) ELSE Third(h)
<1>6. t.ns \in 1 .. End(h) /\ t.ne \in t.ns .. End(h)
  BY <1>4, <1>5
<1>7. LenOf(h) = Slice(h, t) /\ IsNumber(LenOf(h))
  BY DEF LenOf, ValidHeader
<1> QED
  BY <1>6, <1>7, SliceNat

LEMMA PayloadSound ==
    ASSUME NEW b, NEW d, Starts(b, d), NEW max \in 1 .. Len(b), NEW len \in Nat, NEW m
    PROVE  Sound(Payload(b, max, len, m), Payload(d, max, len, m), b)
<1>1. Len(b) \in Nat /\ Len(d) \in Nat /\ Len(b) <= Len(d) /\ \A i \in 1 .. Len(b) : d[i] = b[i]
  BY DEF Starts
<1> DEFINE e == max + 2 + len
<1>2. e \in Nat /\ max + 2 \in Nat \ {0} /\ e - 1 \in Nat /\ e >= 3
  OBVIOUS
<1>3. CASE e + 1 > Len(b)
  <2>1. Payload(b, max, len, m) = Failed(Again)
    BY <1>3 DEF Payload
  <2> QED
    BY <2>1 DEF Sound, Failed
<1>4. CASE ~(e + 1 > Len(b))
  <2>1. SubSeq(d, max + 2, e - 1) = SubSeq(b, max + 2, e - 1)
    BY <1>1, <1>2, <1>4, StartsSubSeq
  <2>2. d[e] = b[e] /\ d[e + 1] = b[e + 1] /\ e + 1 \in 1 .. Len(b) /\ ~(e + 1 > Len(d))
    BY <1>1, <1>2, <1>4
  <2>5. CASE b[e] # "CR" \/ b[e + 1] # "LF"
    <3>1. Payload(b, max, len, m) = Failed(InvalidMsg)
      BY <1>4, <2>5 DEF Payload
    <3>2. Payload(d, max, len, m) = Failed(InvalidMsg)
      BY <2>2, <2>5 DEF Payload
    <3> QED
      BY <3>1, <3>2 DEF Sound, Failed
  <2>6. CASE ~(b[e] # "CR" \/ b[e + 1] # "LF")
    <3> DEFINE v(c) == Formed(e + 1, WithBody(m, SubSeq(c, max + 2, e - 1)))
    <3>1. Payload(b, max, len, m) = v(b)
      BY <1>4, <2>6 DEF Payload
    <3>2. Payload(d, max, len, m) = v(d)
      BY <2>2, <2>6 DEF Payload
    <3>3. v(b) = v(d)
      BY <2>1, Zenon
    <3>4. v(b).rc = e + 1
      BY DEF Formed
    <3> HIDE DEF v, e
    <3> QED
      BY <2>2, <3>1, <3>2, <3>3, <3>4 DEF Sound
  <2> QED
    BY <2>5, <2>6
<1> QED
  BY <1>3, <1>4

LEMMA MsgSound ==
    ASSUME NEW b, NEW d, Starts(b, d), Len(b) >= 2
    PROVE  Sound(ParseMsg(b), ParseMsg(d), b)
<1>1. Len(b) \in Nat /\ Len(d) \in Nat /\ Len(b) <= Len(d) /\ \A i \in 1 .. Len(b) : d[i] = b[i]
  BY DEF Starts
<1> DEFINE max == HeaderEnd(b)
           h   == SubSeq(b, 1, max - 1)
<1>2. max \in 2 .. Len(b)
  BY <1>1, FindFacts DEF HeaderEnd
<1>3. CASE b[2] # "SP"
  <2>1. ParseMsg(b) = Failed(InvalidMsg) /\ ParseMsg(d) = Failed(InvalidMsg)
    BY <1>1, <1>3 DEF ParseMsg
  <2> QED
    BY <2>1 DEF Sound, Failed
<1>4. CASE b[2] = "SP" /\ max >= Len(b)
  <2>1. ParseMsg(b) = Failed(Again)
    BY <1>4 DEF ParseMsg
  <2> QED
    BY <2>1 DEF Sound, Failed
<1>5. CASE b[2] = "SP" /\ ~(max >= Len(b))
  <2>1. HeaderEnd(d) = max
    BY <1>1, <1>2, <1>5, StartsFind DEF HeaderEnd
  <2> HIDE DEF max
  <2>2. /\ SubSeq(d, 1, max - 1) = h /\ d[max + 1] = b[max + 1] /\ d[2] = b[2]
        /\ max \in Nat /\ ~(max >= Len(d)) /\ max \in 1 .. Len(b)
    BY <1>1, <1>2, <1>5, StartsSubSeq
  <2>3. h \in Seq(STRING) /\ Len(h) >= 1
    BY <1>2 DEF Starts
  <2> HIDE DEF h
  <2>4. ParseMsg(b) = IF b[max + 1] # "LF" \/ ~ValidHeader(h) THEN Failed(InvalidMsg)
                      ELSE Payload(b, max, Atoi(LenOf(h)), Header(h))
    BY <1>5 DEF ParseMsg, max, h
  <2>5. ParseMsg(d) = IF b[max + 1] # "LF" \/ ~ValidHeader(h) THEN Failed(InvalidMsg)
                      ELSE Payload(d, max, Atoi(LenOf(h)), Header(h))
    BY <1>5, <2>1, <2>2 DEF ParseMsg
  <2>6. CASE b[max + 1] # "LF" \/ ~ValidHeader(h)
    <3>1. ParseMsg(b) = Failed(InvalidMsg) /\ ParseMsg(d) = Failed(InvalidMsg)
      BY <2>4, <2>5, <2>6
    <3> QED
      BY <3>1 DEF Sound, Failed
  <2>7. CASE ~(b[max + 1] # "LF" \/ ~ValidHeader(h))
    <3>1. Atoi(LenOf(h)) \in Nat
      BY <2>3, <2>7, HeaderFacts
    <3>2. ParseMsg(b) = Payload(b, max, Atoi(LenOf(h)), Header(h)) /\ ParseMsg(d) = Payload(d, max, Atoi(LenOf(h)), Header(h))
      BY <2>4, <2>5, <2>7, Zenon
    <3> QED
      BY <2>2, <3>1, <3>2, PayloadSound
  <2> QED
    BY <2>6, <2>7
<1> QED
  BY <1>3, <1>4, <1>5

LEMMA ParseSound ==
    ASSUME NEW b, NEW d, Starts(b, d)
    PROVE  Sound(Parse(b), Parse(d), b)
<1>1. /\ Len(b) \in Nat /\ Len(d) \in Nat /\ Len(b) <= Len(d)
      /\ \A i \in 1 .. Len(b) : d[i] = b[i]
      /\ End(b) \in Nat /\ End(d) \in Nat /\ End(b) = Len(b) + 1 /\ 1 <= End(b) /\ End(b) <= End(d)
  BY DEF Starts, End
<1> DEFINE S == {"SP", "CR", "LF"}
           p == Find(b, 1, End(b), S)
<1>2. p \in 1 .. End(b)
  BY <1>1, FindFacts
<1>3. CASE p = End(b)
  <2>1. Parse(b) = Failed(Again)
    BY <1>3 DEF Parse
  <2> QED
    BY <2>1 DEF Sound, Failed
<1>4. CASE p # End(b)
  <2>1. Find(d, 1, End(d), S) = p
    BY <1>1, <1>2, <1>4, StartsFind
  <2> HIDE DEF p
  <2>2. p # End(d) /\ d[p] = b[p] /\ p \in 1 .. Len(b)
    BY <1>1, <1>2, <1>4
  <2>3. CASE b[p] = "LF" \/ p # 2
    <3>1. Parse(b) = Failed(InvalidHeader)
      BY <1>4, <2>3 DEF Parse, p
    <3>2. Parse(d) = Failed(InvalidHeader)
      BY <2>1, <2>2, <2>3 DEF Parse
    <3> QED
      BY <3>1, <3>2 DEF Sound, Failed
  <2>4. CASE ~(b[p] = "LF" \/ p # 2)
    <3>1. Len(b) >= 2 /\ d[1] = b[1]
      BY <1>1, <2>2, <2>4
    <3>2. Parse(b) = CASE b[1] \in {"+OK", "PING", "PONG"} -> ParseBare(b)
                       [] b[1] = "MSG"  -> ParseMsg(b)
                       [] b[1] = "-ERR" -> ParseErr(b)
                       [] b[1] = "INFO" -> ParseInfo(b)
                       [] OTHER         -> Failed(InvalidHeader)
      BY <1>4, <2>4 DEF Parse, p
    <3>3. Parse(d) = CASE b[1] \in {"+OK", "PING", "PONG"} -> ParseBare(d)
                       [] b[1] = "MSG"  -> ParseMsg(d)
                       [] b[1] = "-ERR" -> ParseErr(d)
                       [] b[1] = "INFO" -> ParseInfo(d)
                       [] OTHER         -> Failed(InvalidHeader)
      BY <2>1, <2>2, <2>4, <3>1 DEF Parse
    <3>4. /\ Sound(ParseBare(b), ParseBare(d), b) /\ Sound(ParseMsg(b), ParseMsg(d), b)
          /\ Sound(ParseErr(b), ParseErr(d), b) /\ Sound(ParseInfo(b), ParseInfo(d), b)
      BY <3>1, BareSound, MsgSound, ErrInfoSound
    <3>5. Sound(Failed(InvalidHeader), Failed(InvalidHeader), b)
      BY DEF Sound, Failed
    <3> QED
      BY <3>2, <3>3, <3>4, <3>5
  <2> QED
    BY <2>3, <2>4
<1> QED
  BY <1>3, <1>4

\* A verdict of ngx_nats_parse is final: once it has found a message, or a
\* mistake, in the bytes that have come, more bytes do not change what it says.
THEOREM ParseStable ==
    ASSUME NEW b \in Seq(STRING), NEW c \in Seq(STRING), Parse(b).rc # Again
    PROVE  Parse(b \o c) = Parse(b)
BY ConcatStarts, ParseSound DEF Sound

\* ngx_nats_parse never takes bytes that have not come: a message that it finds
\* is not empty and ends in the buffer, so that buf->pos += rc stays within it.
THEOREM ParseInBounds ==
    ASSUME NEW b \in Seq(STRING)
    PROVE  Parse(b).rc \in {Again, InvalidHeader, InvalidMsg} \cup 1 .. Len(b)
<1>1. Starts(b, b)
  BY DEF Starts
<1> QED
  BY <1>1, ParseSound DEF Sound

-----------------------------------------------------------------------------
(* The stream: texts one after the other *)

Cat(s, t) == s \o t
FlattenStep(f, s) == f = [i \in 1 .. Len(s) |-> IF i = 1 THEN s[i] ELSE Cat(f[i - 1], s[i])]

LEMMA FlattenIs ==
    ASSUME NEW s
    PROVE  FlattenSeq(s) = IF Len(s) = 0 THEN s ELSE (CHOOSE f : FlattenStep(f, s))[Len(s)]
BY Zenon DEF FlattenSeq, FlattenStep, Cat

\* What the first n of some sequences make together
SumsTo(g, s, N) == g[0] = <<>> /\ \A n \in 1 .. N : g[n] = Cat(g[n - 1], s[n])
FlatTo(s, n)    == FlattenSeq([i \in 1 .. n |-> s[i]])

LEMMA SumsExist ==
    ASSUME NEW A, NEW N \in Nat, NEW s \in [1 .. N -> Seq(A)]
    PROVE  \E g \in [0 .. N -> Seq(A)] : SumsTo(g, s, N)
<1> DEFINE S == {k \in Nat : k <= N => \E g \in [0 .. k -> Seq(A)] : SumsTo(g, s, k)}
<1>1. 0 \in S
  <2> DEFINE g == [n \in 0 .. 0 |-> <<>>]
  <2>1. g \in [0 .. 0 -> Seq(A)] /\ SumsTo(g, s, 0)
    BY DEF SumsTo
  <2> QED
    BY <2>1
<1>2. ASSUME NEW k \in Nat, k \in S PROVE k + 1 \in S
  <2> SUFFICES ASSUME k + 1 <= N PROVE \E g \in [0 .. k + 1 -> Seq(A)] : SumsTo(g, s, k + 1)
    OBVIOUS
  <2>1. PICK f \in [0 .. k -> Seq(A)] : SumsTo(f, s, k)
    BY <1>2
  <2> DEFINE v == Cat(f[k], s[k + 1])
             g == [n \in 0 .. k + 1 |-> IF n <= k THEN f[n] ELSE v]
  <2>2. v \in Seq(A)
    <3>1. f[k] \in Seq(A) /\ s[k + 1] \in Seq(A)
      BY <2>1
    <3> QED
      BY <3>1 DEF Cat
  <2> HIDE DEF v
  <2>3. g \in [0 .. k + 1 -> Seq(A)]
    BY <2>1, <2>2
  <2>4. g[0] = <<>>
    BY <2>1 DEF SumsTo
  <2>5. ASSUME NEW n \in 1 .. k + 1 PROVE g[n] = Cat(g[n - 1], s[n])
    <3>1. CASE n = k + 1
      <4>1. g[n] = v /\ g[n - 1] = f[k]
        BY <3>1
      <4> QED
        BY <3>1, <4>1, Zenon DEF v
    <3>2. CASE n \in 1 .. k
      <4>1. g[n] = f[n] /\ g[n - 1] = f[n - 1]
        BY <3>2
      <4>2. f[n] = Cat(f[n - 1], s[n])
        BY <2>1, <3>2 DEF SumsTo
      <4> QED
        BY <4>1, <4>2, Zenon
    <3> QED
      BY <3>1, <3>2
  <2> HIDE DEF g
  <2>6. SumsTo(g, s, k + 1)
    BY <2>4, <2>5 DEF SumsTo
  <2> QED
    BY <2>3, <2>6
<1> HIDE DEF S
<1>3. N \in S
  BY <1>1, <1>2, SetInduction
<1> QED
  BY <1>3 DEF S

Sums(A, N, s, g) == s \in [1 .. N -> Seq(A)] /\ g \in [0 .. N -> Seq(A)] /\ SumsTo(g, s, N)

LEMMA FlattenFacts ==
    ASSUME NEW A, NEW N \in Nat, NEW s, NEW g, Sums(A, N, s, g), NEW m \in 0 .. N
    PROVE  FlatTo(s, m) = g[m]
<1>0. s \in [1 .. N -> Seq(A)] /\ g \in [0 .. N -> Seq(A)] /\ SumsTo(g, s, N)
  BY DEF Sums
<1> USE <1>0
<1> DEFINE t == [i \in 1 .. m |-> s[i]]
<1>1. t \in Seq(Seq(A)) /\ Len(t) = m /\ \A i \in 1 .. m : t[i] = s[i]
  OBVIOUS
<1>2. CASE m = 0
  <2>1. t = <<>>
    BY <1>1, <1>2
  <2> HIDE DEF t
  <2> QED
    BY <1>1, <1>2, <2>1, FlattenIs DEF t, FlatTo, SumsTo
<1>3. CASE m # 0
  <2> DEFINE f == CHOOSE x : FlattenStep(x, t)
             e == [i \in 1 .. m |-> g[i]]
  <2> HIDE DEF t
  <2>1. ASSUME NEW i \in 1 .. m PROVE e[i] = IF i = 1 THEN t[i] ELSE Cat(e[i - 1], t[i])
    <3>1. e[i] = g[i] /\ g[i] = Cat(g[i - 1], t[i])
      <4>1. e[i] = g[i]
        OBVIOUS
      <4>2. i \in 1 .. N /\ t[i] = s[i]
        BY <1>1
      <4>3. g[i] = Cat(g[i - 1], s[i])
        <5>1. \A n \in 1 .. N : g[n] = Cat(g[n - 1], s[n])
          BY Zenon DEF SumsTo
        <5> QED
          BY <4>2, <5>1, Zenon
      <4> QED
        BY <4>1, <4>2, <4>3, Zenon
    <3>2. CASE i = 1
      <4>1. g[1] = Cat(<<>>, t[1]) /\ t[1] \in Seq(A)
        BY <1>1, <3>1, <3>2 DEF SumsTo
      <4> QED
        BY <3>1, <3>2, <4>1, ConcatEmptySeq DEF Cat
    <3>3. CASE i # 1
      <4>1. e[i - 1] = g[i - 1]
        BY <3>3
      <4> HIDE DEF e
      <4> QED
        BY <3>1, <3>3, <4>1
    <3> QED
      BY <3>2, <3>3
  <2>2. FlattenStep(e, t)
    <3>1. e = [i \in 1 .. m |-> e[i]]
      OBVIOUS
    <3> HIDE DEF e
    <3> QED
      BY <1>1, <2>1, <3>1 DEF FlattenStep
  <2>3. FlattenStep(f, t)
    BY <2>2
  <2> HIDE DEF f, e
  <2>4. ASSUME NEW i \in 1 .. m PROVE f[i] = IF i = 1 THEN t[i] ELSE Cat(f[i - 1], t[i])
    BY <1>1, <2>3 DEF FlattenStep
  <2> DEFINE S == {k \in Nat : k \in 1 .. m => f[k] = e[k]}
  <2>5. 0 \in S
    OBVIOUS
  <2>6. ASSUME NEW k \in Nat, k \in S PROVE k + 1 \in S
    <3> SUFFICES ASSUME k + 1 \in 1 .. m PROVE f[k + 1] = e[k + 1]
      OBVIOUS
    <3>1. k # 0 => f[k] = e[k]
      BY <2>6
    <3>2. (k + 1) - 1 = k /\ (k = 0 <=> k + 1 = 1)
      OBVIOUS
    <3>3. /\ f[k + 1] = IF k + 1 = 1 THEN t[k + 1] ELSE Cat(f[(k + 1) - 1], t[k + 1])
          /\ e[k + 1] = IF k + 1 = 1 THEN t[k + 1] ELSE Cat(e[(k + 1) - 1], t[k + 1])
      BY <2>1, <2>4
    <3> QED
      BY <3>1, <3>2, <3>3
  <2> HIDE DEF S
  <2>7. m \in S
    <3>1. Nat \subseteq S
      BY <2>5, <2>6, SetInduction
    <3>2. m \in Nat
      OBVIOUS
    <3> QED
      BY <3>1, <3>2
  <2>8. f[m] = g[m]
    BY <1>3, <2>7 DEF S, e
  <2> QED
    BY <1>1, <1>3, <2>8, FlattenIs DEF f, t, FlatTo
<1> QED
  BY <1>2, <1>3

FlatUp(A, s, n) ==
    /\ FlatTo(s, n) \in Seq(A)
    /\ n = 0 => FlatTo(s, n) = <<>>
    /\ n # 0 => FlatTo(s, n) = Cat(FlatTo(s, n - 1), s[n])

LEMMA FlattenUp ==
    ASSUME NEW A, NEW N \in Nat, NEW s \in [1 .. N -> Seq(A)], NEW n \in 0 .. N
    PROVE  FlatUp(A, s, n)
<1>1. PICK g \in [0 .. N -> Seq(A)] : SumsTo(g, s, N)
  BY SumsExist
<1>2. ASSUME NEW m \in 0 .. N PROVE FlatTo(s, m) = g[m]
  <2>1. Sums(A, N, s, g)
    BY <1>1 DEF Sums
  <2> QED
    BY <2>1, FlattenFacts
<1>3. n # 0 => n - 1 \in 0 .. N /\ g[n] = Cat(g[n - 1], s[n])
  BY <1>1 DEF SumsTo
<1> QED
  BY <1>1, <1>2, <1>3 DEF SumsTo, FlatUp

AreTexts(sends, N)     == \A i \in 1 .. N : sends[i].text \in Seq(STRING)
AreFields(sends, N, A) == \A i \in 1 .. N : sends[i].fields \in Seq(A)

LEMMA TextUp ==
    ASSUME NEW N \in Nat, NEW sends, AreTexts(sends, N), NEW n \in 0 .. N
    PROVE  /\ TextTo(sends, n) \in Seq(STRING)
           /\ n = 0 => TextTo(sends, n) = <<>>
           /\ n # 0 => TextTo(sends, n) = Cat(TextTo(sends, n - 1), sends[n].text)
<1> DEFINE s == [i \in 1 .. N |-> sends[i].text]
<1>1. s \in [1 .. N -> Seq(STRING)]
  BY DEF AreTexts
<1>2. ASSUME NEW m \in 0 .. N PROVE TextTo(sends, m) = FlatTo(s, m)
  <2>1. [i \in 1 .. m |-> s[i]] = [i \in 1 .. m |-> sends[i].text]
    OBVIOUS
  <2> QED
    BY <2>1 DEF TextTo, FlatTo
<1>3. n # 0 => s[n] = sends[n].text /\ n - 1 \in 0 .. N
  OBVIOUS
<1> HIDE DEF s
<1>4. FlatUp(STRING, s, n)
  BY <1>1, FlattenUp
<1> QED
  BY <1>2, <1>3, <1>4 DEF FlatUp

FieldUp(A, sends, n) ==
    /\ FieldsTo(sends, n) \in Seq(A)
    /\ n = 0 => FieldsTo(sends, n) = <<>>
    /\ n # 0 => FieldsTo(sends, n) = Cat(FieldsTo(sends, n - 1), sends[n].fields)

LEMMA FieldsUp ==
    ASSUME NEW A, NEW N \in Nat, NEW sends, AreFields(sends, N, A), NEW n \in 0 .. N
    PROVE  FieldUp(A, sends, n)
<1> DEFINE s == [i \in 1 .. N |-> sends[i].fields]
<1>1. s \in [1 .. N -> Seq(A)]
  BY DEF AreFields
<1>2. ASSUME NEW m \in 0 .. N PROVE FieldsTo(sends, m) = FlatTo(s, m)
  <2>1. [i \in 1 .. m |-> s[i]] = [i \in 1 .. m |-> sends[i].fields]
    OBVIOUS
  <2> QED
    BY <2>1 DEF FieldsTo, FlatTo
<1>3. n # 0 => s[n] = sends[n].fields /\ n - 1 \in 0 .. N
  OBVIOUS
<1> HIDE DEF s
<1>4. FlatUp(A, s, n)
  BY <1>1, FlattenUp
<1> QED
  BY <1>2, <1>3, <1>4 DEF FlatUp, FieldUp

\* Two sequences joined, atom by atom
Joined(A, s, t) ==
    /\ Cat(s, t) \in Seq(A) /\ Len(s) \in Nat /\ Len(t) \in Nat
    /\ Len(Cat(s, t)) = Len(s) + Len(t)
    /\ \A i \in 1 .. Len(s) : Cat(s, t)[i] = s[i]
    /\ \A i \in 1 .. Len(t) : Cat(s, t)[Len(s) + i] = t[i]

LEMMA CatJoined == ASSUME NEW A, NEW s \in Seq(A), NEW t \in Seq(A) PROVE Joined(A, s, t)
<1>1. Cat(s, t) \in Seq(A) /\ Len(Cat(s, t)) = Len(s) + Len(t) /\ Len(s) \in Nat /\ Len(t) \in Nat
  BY DEF Cat
<1>2. ASSUME NEW i \in 1 .. Len(s) + Len(t)
      PROVE  Cat(s, t)[i] = IF i <= Len(s) THEN s[i] ELSE t[i - Len(s)]
  BY ConcatProperties DEF Cat
<1>3. ASSUME NEW i \in 1 .. Len(s) PROVE Cat(s, t)[i] = s[i]
  BY <1>1, <1>2
<1>4. ASSUME NEW i \in 1 .. Len(t) PROVE Cat(s, t)[Len(s) + i] = t[i]
  <2>1. Len(s) + i \in 1 .. Len(s) + Len(t) /\ ~(Len(s) + i <= Len(s)) /\ (Len(s) + i) - Len(s) = i
    BY <1>1
  <2> QED
    BY <1>2, <2>1
<1> QED
  BY <1>1, <1>3, <1>4 DEF Joined

\* The same, spelled out
LEMMA CatFacts ==
    ASSUME NEW A, NEW s \in Seq(A), NEW t \in Seq(A)
    PROVE  /\ Cat(s, t) \in Seq(A) /\ Len(s) \in Nat /\ Len(t) \in Nat
           /\ Len(Cat(s, t)) = Len(s) + Len(t)
           /\ \A i \in 1 .. Len(s) : Cat(s, t)[i] = s[i]
           /\ \A i \in 1 .. Len(t) : Cat(s, t)[Len(s) + i] = t[i]
<1>1. Joined(A, s, t)
  BY CatJoined
<1> QED
  BY <1>1 DEF Joined

\* A line of text, atom by atom
CrLf == <<"CR", "LF">>

LEMMA CrLfIs == Len(CrLf) = 2 /\ CrLf[1] = "CR" /\ CrLf[2] = "LF"
BY DEF CrLf

LEMMA EndLine ==
    ASSUME NEW A, CrLf \in Seq(A), NEW h \in Seq(A)
    PROVE  /\ Cat(h, CrLf) \in Seq(A) /\ Len(Cat(h, CrLf)) = Len(h) + 2
           /\ \A i \in 1 .. Len(h) : Cat(h, CrLf)[i] = h[i]
           /\ Cat(h, CrLf)[Len(h) + 1] = "CR" /\ Cat(h, CrLf)[Len(h) + 2] = "LF"
<1>1. /\ Cat(h, CrLf) \in Seq(A) /\ Len(h) \in Nat /\ Len(CrLf) \in Nat
      /\ Len(Cat(h, CrLf)) = Len(h) + Len(CrLf)
      /\ \A i \in 1 .. Len(h) : Cat(h, CrLf)[i] = h[i]
      /\ \A i \in 1 .. Len(CrLf) : Cat(h, CrLf)[Len(h) + i] = CrLf[i]
  <2>1. Joined(A, h, CrLf)
    BY CatJoined
  <2> QED
    BY <2>1 DEF Joined
<1>2. 1 \in 1 .. Len(CrLf) /\ 2 \in 1 .. Len(CrLf)
  BY CrLfIs
<1> QED
  BY <1>1, <1>2, CrLfIs

\* A header line and a payload, atom by atom
MsgText(h, p) == Cat(Cat(h, CrLf), Cat(p, CrLf))

MsgIs(A, b, h, p) ==
    /\ b \in Seq(A) /\ Len(b) = Len(h) + Len(p) + 4
    /\ \A i \in 1 .. Len(h) : b[i] = h[i]
    /\ b[Len(h) + 1] = "CR" /\ b[Len(h) + 2] = "LF"
    /\ \A i \in 1 .. Len(p) : b[Len(h) + 2 + i] = p[i]
    /\ b[Len(h) + Len(p) + 3] = "CR" /\ b[Len(h) + Len(p) + 4] = "LF"

LEMMA MsgTextIs ==
    ASSUME NEW A, CrLf \in Seq(A), NEW h \in Seq(A), NEW p \in Seq(A)
    PROVE  MsgIs(A, MsgText(h, p), h, p)
<1> DEFINE a == Cat(h, CrLf)
           c == Cat(p, CrLf)
           N == Len(h)
           K == Len(p)
<1>1. /\ a \in Seq(A) /\ Len(a) = N + 2 /\ \A i \in 1 .. N : a[i] = h[i]
      /\ a[N + 1] = "CR" /\ a[N + 2] = "LF"
  BY EndLine
<1>2. /\ c \in Seq(A) /\ Len(c) = K + 2 /\ \A i \in 1 .. K : c[i] = p[i]
      /\ c[K + 1] = "CR" /\ c[K + 2] = "LF"
  BY EndLine
<1>3. MsgText(h, p) = Cat(a, c) /\ N \in Nat /\ K \in Nat
  BY DEF MsgText
<1> HIDE DEF a, c, N, K
<1> DEFINE b == Cat(a, c)
<1>4. /\ b \in Seq(A) /\ Len(b) = Len(a) + Len(c)
      /\ \A i \in 1 .. Len(a) : b[i] = a[i]
      /\ \A i \in 1 .. Len(c) : b[Len(a) + i] = c[i]
  <2>1. a \in Seq(A) /\ c \in Seq(A)
    BY <1>1, <1>2
  <2>2. /\ Cat(a, c) \in Seq(A) /\ Len(a) \in Nat /\ Len(c) \in Nat
        /\ Len(Cat(a, c)) = Len(a) + Len(c)
        /\ \A i \in 1 .. Len(a) : Cat(a, c)[i] = a[i]
        /\ \A i \in 1 .. Len(c) : Cat(a, c)[Len(a) + i] = c[i]
    <3>1. Joined(A, a, c)
      BY <2>1, CatJoined
    <3> QED
      BY <3>1 DEF Joined
  <2> QED
    BY <2>2
<1> HIDE DEF b
<1>5. /\ b \in Seq(A) /\ Len(b) = N + K + 4 /\ \A i \in 1 .. N + 2 : b[i] = a[i]
      /\ \A i \in 1 .. K + 2 : b[N + 2 + i] = c[i]
  <2>1. Len(a) = N + 2 /\ Len(c) = K + 2
    BY <1>1, <1>2
  <2>2. Len(b) = N + K + 4
    BY <1>3, <1>4, <2>1
  <2> QED
    BY <1>4, <2>1, <2>2
<1>6. (\A i \in 1 .. N : b[i] = h[i]) /\ b[N + 1] = "CR" /\ b[N + 2] = "LF"
  <2>1. N + 1 \in 1 .. N + 2 /\ N + 2 \in 1 .. N + 2 /\ \A i \in 1 .. N : i \in 1 .. N + 2
    BY <1>3
  <2> QED
    BY <1>1, <1>5, <2>1
<1>7. (\A i \in 1 .. K : b[N + 2 + i] = p[i]) /\ b[N + K + 3] = "CR" /\ b[N + K + 4] = "LF"
  <2>1. /\ K + 1 \in 1 .. K + 2 /\ K + 2 \in 1 .. K + 2 /\ \A i \in 1 .. K : i \in 1 .. K + 2
        /\ N + 2 + (K + 1) = N + K + 3 /\ N + 2 + (K + 2) = N + K + 4
    BY <1>3
  <2>2. b[N + 2 + (K + 1)] = "CR" /\ b[N + 2 + (K + 2)] = "LF"
    BY <1>2, <1>5, <2>1
  <2> QED
    BY <1>2, <1>5, <2>1, <2>2
<1>8. MsgText(h, p) = b
  BY <1>3 DEF b
<1> QED
  BY <1>5, <1>6, <1>7, <1>8 DEF N, K, MsgIs

\* A slice, atom by atom
LEMMA SliceIs ==
    ASSUME NEW A, NEW b \in Seq(A), NEW p \in Seq(A), NEW m \in Nat, m + Len(p) <= Len(b),
           \A i \in 1 .. Len(p) : b[m + i] = p[i]
    PROVE  SubSeq(b, m + 1, m + Len(p)) = p
<1> DEFINE s == SubSeq(b, m + 1, m + Len(p))
<1>1. Len(p) \in Nat /\ Len(b) \in Nat
  OBVIOUS
<1>2. s \in Seq(A) /\ Len(s) = Len(p) /\ \A i \in 1 .. Len(p) : s[i] = b[m + i]
  <2>1. m + 1 \in Nat /\ m + Len(p) \in Nat /\ (m + Len(p)) - (m + 1) + 1 = Len(p)
    BY <1>1
  <2>2. \A i \in 1 .. Len(p) : (m + 1) + i - 1 = m + i
    BY <1>1
  <2> QED
    BY <1>1, <2>1, <2>2
<1> HIDE DEF s
<1>3. s = p
  BY <1>2, SeqEqual
<1> QED
  BY <1>3 DEF s

\* A MSG is taken by the length that its header announces, whatever its payload
\* is: empty, or one that looks like the end of a message or like another one;
\* and by ParseStable whatever comes after it (ngx_nats_parse_msg).
THEOREM PayloadOpaque ==
    ASSUME NEW A, CrLf \in Seq(A), NEW h \in Seq(A), Len(h) >= 2, h[1] = "MSG", h[2] = "SP",
           \A i \in 1 .. Len(h) : h[i] # "CR", ValidHeader(h),
           NEW p \in Seq(A), Len(p) = Atoi(LenOf(h))
    PROVE  Parse(MsgText(h, p)) = Formed(Len(h) + Len(p) + 4, WithBody(Header(h), p))
<1> DEFINE b == MsgText(h, p)
           N == Len(h)
           K == Len(p)
<1>1. /\ b \in Seq(A) /\ Len(b) = N + K + 4
      /\ \A i \in 1 .. N : b[i] = h[i]
      /\ b[N + 1] = "CR" /\ b[N + 2] = "LF"
      /\ \A i \in 1 .. K : b[N + 2 + i] = p[i]
      /\ b[N + K + 3] = "CR" /\ b[N + K + 4] = "LF"
  <2>1. MsgIs(A, b, h, p)
    BY MsgTextIs
  <2> QED
    BY <2>1 DEF MsgIs
<1>2. N \in Nat /\ K \in Nat /\ N >= 2
  OBVIOUS
<1> HIDE DEF b
<1>4. b[1] = "MSG" /\ b[2] = "SP"
  <2>1. 1 \in 1 .. N /\ 2 \in 1 .. N
    BY <1>2
  <2> QED
    BY <1>1, <2>1
<1> HIDE DEF N, K
<1>5. Find(b, 1, End(b), {"SP", "CR", "LF"}) = 2
  <2> DEFINE S == {"SP", "CR", "LF"}
  <2>1. 2 \in 1 .. End(b) - 1 /\ End(b) \in Nat /\ 1 \in Nat
    BY <1>1, <1>2 DEF End
  <2>2. b[2] \in S /\ b[1] \notin S
    BY <1>4
  <2>3. \A o \in 1 .. 2 - 1 : o = 1
    OBVIOUS
  <2> HIDE DEF S
  <2>4. \A o \in 1 .. 2 - 1 : b[o] \notin S
    BY <2>2, <2>3
  <2>5. Find(b, 1, End(b), S) = 2
    BY <2>1, <2>2, <2>4, FindIs
  <2> QED
    BY <2>5 DEF S
<1>6. Parse(b) = ParseMsg(b)
  <2>1. 2 # End(b)
    BY <1>1, <1>2 DEF End
  <2> QED
    BY <1>4, <1>5, <2>1, Zenon DEF Parse
<1>7. HeaderEnd(b) = N + 1
  <2>1. N + 1 \in 2 .. Len(b) - 1 /\ Len(b) \in Nat
    BY <1>1, <1>2
  <2>2. \A o \in 2 .. (N + 1) - 1 : b[o] \notin {"CR"}
    <3>1. \A o \in 2 .. (N + 1) - 1 : o \in 1 .. N
      BY <1>2
    <3> QED
      BY <1>1, <3>1 DEF N
  <2>3. b[N + 1] \in {"CR"} /\ 2 \in Nat
    BY <1>1
  <2> DEFINE S == {"CR"}
  <2> HIDE DEF S
  <2>4. Find(b, 2, Len(b), S) = N + 1
    BY <2>1, <2>2, <2>3, FindIs DEF S
  <2> QED
    BY <2>4 DEF HeaderEnd, S
<1>8. SubSeq(b, 1, N) = h
  <2>1. 0 \in Nat /\ 0 + Len(h) <= Len(b) /\ \A i \in 1 .. Len(h) : b[0 + i] = h[i]
    BY <1>1, <1>2 DEF N
  <2>2. SubSeq(b, 0 + 1, 0 + Len(h)) = h
    BY <1>1, <2>1, SliceIs
  <2> QED
    BY <1>2, <2>2 DEF N
<1>9. ParseMsg(b) = Payload(b, N + 1, K, Header(h))
  <2>1. (N + 1) - 1 = N /\ (N + 1) + 1 = N + 2 /\ ~(N + 1 >= Len(b))
    BY <1>1, <1>2
  <2>2. SubSeq(b, 1, HeaderEnd(b) - 1) = h /\ Atoi(LenOf(h)) = K
    BY <1>7, <1>8, <2>1 DEF K
  <2>3. b[HeaderEnd(b) + 1] = "LF" /\ ~(HeaderEnd(b) >= Len(b)) /\ b[2] = "SP"
    BY <1>1, <1>4, <1>7, <2>1
  <2>4. ParseMsg(b) = Payload(b, HeaderEnd(b), K, Header(h))
    BY <2>2, <2>3, Zenon DEF ParseMsg
  <2> QED
    BY <1>7, <2>4
<1>10. SubSeq(b, N + 3, N + K + 2) = p
  <2>1. N + 2 \in Nat /\ (N + 2) + Len(p) <= Len(b) /\ \A i \in 1 .. Len(p) : b[(N + 2) + i] = p[i]
    BY <1>1, <1>2 DEF K
  <2>2. SubSeq(b, (N + 2) + 1, (N + 2) + Len(p)) = p
    BY <1>1, <2>1, SliceIs
  <2>3. (N + 2) + 1 = N + 3 /\ (N + 2) + Len(p) = N + K + 2
    BY <1>2 DEF K
  <2> QED
    BY <2>2, <2>3
<1>11. Payload(b, N + 1, K, Header(h)) = Formed(N + K + 4, WithBody(Header(h), p))
  <2>1. /\ N + 1 + 2 = N + 3 /\ N + 1 + 2 + K = N + K + 3 /\ N + 1 + 2 + K + 1 = N + K + 4
        /\ N + 1 + 2 + K - 1 = N + K + 2 /\ ~(N + K + 4 > Len(b))
    BY <1>1, <1>2
  <2>2. b[N + K + 3] = "CR" /\ b[N + K + 4] = "LF"
    BY <1>1
  <2> DEFINE v == Payload(b, N + 1, K, Header(h))
  <2>3. v = IF N + K + 4 > Len(b) THEN Failed(Again)
            ELSE IF b[N + K + 3] # "CR" \/ b[N + K + 4] # "LF" THEN Failed(InvalidMsg)
            ELSE Formed(N + K + 4, WithBody(Header(h), SubSeq(b, N + 3, N + K + 2)))
    BY <2>1, Zenon DEF Payload
  <2> QED
    BY <1>10, <2>1, <2>2, <2>3, Zenon
<1> QED
  BY <1>6, <1>9, <1>11 DEF N, K, b

\* The body of an INFO is what stands between the blanks after INFO and the
\* first CR, whatever it is (ngx_nats_parse_info).
THEOREM InfoBody ==
    ASSUME NEW A, CrLf \in Seq(A), NEW h \in Seq(A), NEW n \in 3 .. Len(h), h[1] = "INFO",
           \A i \in 2 .. n - 1 : h[i] = "SP", h[n] # "SP",
           \A i \in 1 .. Len(h) : h[i] # "CR"
    PROVE  Parse(Cat(h, CrLf)) = Formed(Len(h) + 2, Text("INFO", SubSeq(h, n, Len(h))))
<1> DEFINE b == Cat(h, CrLf)
           N == Len(h)
<1>1. /\ b \in Seq(A) /\ Len(b) = N + 2 /\ \A i \in 1 .. N : b[i] = h[i]
      /\ b[N + 1] = "CR" /\ b[N + 2] = "LF"
  BY EndLine
<1>2. N \in Nat /\ n \in Nat /\ n >= 3 /\ n <= N
  OBVIOUS
<1> HIDE DEF b
<1>3. b[1] = "INFO" /\ (\A i \in 2 .. n - 1 : b[i] = "SP") /\ b[n] # "SP" /\ \A i \in 1 .. N : b[i] # "CR"
  <2>1. 1 \in 1 .. N /\ n \in 1 .. N /\ \A i \in 2 .. n - 1 : i \in 1 .. N
    BY <1>2
  <2> QED
    BY <1>1, <2>1
<1> HIDE DEF N
<1>4. End(b) = N + 3 /\ End(b) \in Nat
  BY <1>1, <1>2 DEF End
<1>5. Find(b, 1, End(b), {"SP", "CR", "LF"}) = 2
  <2> DEFINE S == {"SP", "CR", "LF"}
  <2>1. 2 \in 1 .. End(b) - 1 /\ 1 \in Nat /\ 2 \in 2 .. n - 1 /\ \A o \in 1 .. 2 - 1 : o = 1
    BY <1>2, <1>4
  <2>2. b[2] \in S /\ b[1] \notin S /\ b[2] = "SP"
    BY <1>3, <2>1
  <2> HIDE DEF S
  <2>3. \A o \in 1 .. 2 - 1 : b[o] \notin S
    BY <2>1, <2>2
  <2>4. Find(b, 1, End(b), S) = 2
    BY <1>4, <2>1, <2>2, <2>3, FindIs
  <2> QED
    BY <2>4 DEF S
<1>6. Parse(b) = ParseInfo(b)
  <2>1. 2 # End(b) /\ 2 \in 2 .. n - 1
    BY <1>2, <1>4
  <2>2. b[2] = "SP"
    BY <1>3, <2>1
  <2> QED
    BY <1>3, <1>5, <2>1, <2>2, Zenon DEF Parse
<1>7. Skip(b, 2, End(b), {"SP"}) = n
  <2> DEFINE S == {"SP"}
  <2>1. n \in 2 .. End(b) - 1 /\ 2 \in Nat
    BY <1>2, <1>4
  <2>2. b[n] \notin S /\ \A o \in 2 .. n - 1 : b[o] \in S
    BY <1>3
  <2> HIDE DEF S
  <2>3. Skip(b, 2, End(b), S) = n
    BY <1>4, <2>1, <2>2, SkipIs
  <2> QED
    BY <2>3 DEF S
<1>8. ParseInfo(b) = ParseText(b, n)
  <2>1. n # End(b) /\ n # 2
    BY <1>2, <1>4
  <2> QED
    BY <1>7, <2>1, Zenon DEF ParseInfo
<1>9. Find(b, n + 1, End(b), {"CR"}) = N + 1
  <2> DEFINE S == {"CR"}
  <2>1. N + 1 \in n + 1 .. End(b) - 1 /\ n + 1 \in Nat /\ \A o \in n + 1 .. (N + 1) - 1 : o \in 1 .. N
    BY <1>2, <1>4
  <2>2. b[N + 1] \in S /\ \A o \in n + 1 .. (N + 1) - 1 : b[o] \notin S
    BY <1>1, <1>3, <2>1
  <2> HIDE DEF S
  <2>3. Find(b, n + 1, End(b), S) = N + 1
    BY <1>4, <2>1, <2>2, FindIs
  <2> QED
    BY <2>3 DEF S
<1>10. SubSeq(b, n, N) = SubSeq(h, n, N)
  <2>1. h \in Seq(A) /\ b \in Seq(A) /\ N = Len(h) /\ Len(b) = N + 2 /\ n \in 1 .. N /\ N \in Nat
    BY <1>1, <1>2 DEF N
  <2>2. \A i \in 1 .. N : b[i] = h[i]
    BY <1>1
  <2> QED
    BY <2>1, <2>2
<1>11. ParseText(b, n) = Formed(N + 2, Text("INFO", SubSeq(h, n, N)))
  <2> DEFINE m == Find(b, n + 1, End(b), {"CR"})
  <2>1. ParseText(b, n) = IF m >= Len(b) THEN Failed(Again)
                          ELSE IF b[m + 1] # "LF" THEN Failed(InvalidMsg)
                          ELSE Formed(m + 1, Text(b[1], SubSeq(b, n, m - 1)))
    BY DEF ParseText
  <2> HIDE DEF m
  <2>2. m + 1 = N + 2 /\ m - 1 = N /\ ~(m >= Len(b))
    BY <1>1, <1>2, <1>9 DEF m
  <2>3. b[m + 1] = "LF" /\ b[1] = "INFO" /\ SubSeq(b, n, m - 1) = SubSeq(h, n, N)
    BY <1>1, <1>3, <1>10, <2>2
  <2> QED
    BY <2>1, <2>2, <2>3, Zenon
<1> QED
  BY <1>6, <1>8, <1>11 DEF N, b

LEMMA StartsTrans ==
    ASSUME NEW a, NEW b, NEW c, Starts(a, b), Starts(b, c)
    PROVE  Starts(a, c)
BY DEF Starts

LEMMA TextStarts ==
    ASSUME NEW N \in Nat, NEW sends, AreTexts(sends, N), NEW n \in 0 .. N
    PROVE  Starts(TextTo(sends, n), TextTo(sends, N))
<1> DEFINE S == {k \in Nat : n + k <= N => Starts(TextTo(sends, n), TextTo(sends, n + k))}
<1>1. 0 \in S
  <2>1. TextTo(sends, n) \in Seq(STRING) /\ n + 0 = n
    BY TextUp
  <2> QED
    BY <2>1 DEF Starts
<1>2. ASSUME NEW k \in Nat, k \in S PROVE k + 1 \in S
  <2> SUFFICES ASSUME n + (k + 1) <= N PROVE Starts(TextTo(sends, n), TextTo(sends, n + (k + 1)))
    OBVIOUS
  <2> DEFINE m == n + k
  <2>1. m \in 0 .. N /\ m + 1 \in 0 .. N /\ m + 1 # 0 /\ (m + 1) - 1 = m /\ n + (k + 1) = m + 1
    OBVIOUS
  <2> HIDE DEF m
  <2>2. TextTo(sends, m + 1) = Cat(TextTo(sends, m), sends[m + 1].text)
    BY <2>1, TextUp
  <2>3. TextTo(sends, m) \in Seq(STRING)
    BY <2>1, TextUp
  <2>4. sends[m + 1].text \in Seq(STRING)
    BY <2>1 DEF AreTexts
  <2>5. Starts(TextTo(sends, m), TextTo(sends, m + 1))
    <3> DEFINE a == TextTo(sends, m)
               t == sends[m + 1].text
    <3>1. a \in Seq(STRING) /\ t \in Seq(STRING) /\ TextTo(sends, m + 1) = Cat(a, t)
      BY <2>2, <2>3, <2>4
    <3> HIDE DEF a, t
    <3>2. /\ Cat(a, t) \in Seq(STRING) /\ Len(a) \in Nat /\ Len(t) \in Nat /\ Len(Cat(a, t)) = Len(a) + Len(t)
          /\ \A i \in 1 .. Len(a) : Cat(a, t)[i] = a[i]
      BY <3>1, CatFacts
    <3>3. Starts(a, Cat(a, t))
      BY <3>1, <3>2 DEF Starts
    <3> QED
      BY <3>1, <3>3 DEF a
  <2>6. Starts(TextTo(sends, n), TextTo(sends, m))
    BY <1>2, <2>1 DEF m
  <2> QED
    BY <2>1, <2>5, <2>6, StartsTrans
<1> HIDE DEF S
<1>3. N - n \in S
  BY <1>1, <1>2, SetInduction
<1>4. n + (N - n) = N
  OBVIOUS
<1> QED
  BY <1>3, <1>4 DEF S

\* Where the n-th text is in the stream
Placed(sends, N, n) ==
    LET pre == Len(TextTo(sends, n - 1))
    IN  /\ pre \in Nat /\ Len(sends[n].text) \in Nat /\ Len(TextTo(sends, N)) \in Nat
        /\ Len(TextTo(sends, n)) = pre + Len(sends[n].text)
        /\ Len(TextTo(sends, n)) <= Len(TextTo(sends, N))
        /\ \A i \in 1 .. Len(sends[n].text) : TextTo(sends, N)[pre + i] = sends[n].text[i]

LEMMA TextAt ==
    ASSUME NEW N \in Nat, NEW sends, AreTexts(sends, N), NEW n \in 1 .. N
    PROVE  Placed(sends, N, n)
<1> DEFINE a == TextTo(sends, n - 1)
           t == sends[n].text
<1>1. TextTo(sends, n) = Cat(a, t) /\ a \in Seq(STRING) /\ t \in Seq(STRING)
  <2>1. n \in 0 .. N /\ n - 1 \in 0 .. N /\ n # 0
    OBVIOUS
  <2> QED
    BY <2>1, TextUp DEF AreTexts
<1>2. Starts(Cat(a, t), TextTo(sends, N))
  <2>1. n \in 0 .. N
    OBVIOUS
  <2> QED
    BY <1>1, <2>1, TextStarts
<1> HIDE DEF a, t
<1>3. /\ Len(a) \in Nat /\ Len(t) \in Nat /\ Len(Cat(a, t)) = Len(a) + Len(t)
      /\ \A i \in 1 .. Len(t) : Cat(a, t)[Len(a) + i] = t[i]
  BY <1>1, CatFacts
<1>4. /\ TextTo(sends, N) \in Seq(STRING) /\ Len(Cat(a, t)) <= Len(TextTo(sends, N))
      /\ \A i \in 1 .. Len(Cat(a, t)) : TextTo(sends, N)[i] = Cat(a, t)[i]
  BY <1>2 DEF Starts
<1>5. \A i \in 1 .. Len(t) : TextTo(sends, N)[Len(a) + i] = t[i]
  BY <1>3, <1>4
<1>6. Len(TextTo(sends, N)) \in Nat
  BY <1>4
<1> QED
  BY <1>1, <1>3, <1>4, <1>5, <1>6 DEF a, t, Placed

-----------------------------------------------------------------------------
(* ngx_nats_parse_info of ngx_nats_comm.c: what a list of fields sets *)

NamedTo(fields, f, n) == {i \in 1 .. n : fields[i].name = <<f>>}
Greatest(S)           == CHOOSE i \in S : \A j \in S : j <= i
Val(v)                == IF v.type = "string" THEN v.str ELSE v.int
Names                 == {<<f>> : f \in DOMAIN InfoTypes}
Wrong(field)          == field.name \in Names /\ field.value.type # InfoTypes[field.name[1]]
WrongTo(fields, n)    == \E i \in 1 .. n : Wrong(fields[i])
ValTo(base, fields, n, f) ==
    IF NamedTo(fields, f, n) # {} THEN Val(fields[Greatest(NamedTo(fields, f, n))].value) ELSE base[f]
InfoTo(base, fields, n) ==
    IF WrongTo(fields, n) THEN BadInfo ELSE [f \in DOMAIN InfoTypes |-> ValTo(base, fields, n, f)]

\* BadInfo is no server data.
LEMMA NotBadInfo == ASSUME NEW base, DOMAIN base = DOMAIN InfoTypes PROVE base # BadInfo
<1>1. "port" \in DOMAIN InfoTypes /\ "port" \notin DOMAIN BadInfo
  BY DEF InfoTypes, BadInfo
<1> QED
  BY <1>1

LEMMA GreatestFacts ==
    ASSUME NEW n \in Nat, NEW S, S \subseteq 1 .. n, S # {}
    PROVE  Greatest(S) \in S /\ \A j \in S : j <= Greatest(S)
<1>1. \E i \in S : \A j \in S : j <= i
  <2>1. S \subseteq 0 .. n
    OBVIOUS
  <2> QED
    BY <2>1, GreatestNat
<1> QED
  BY <1>1 DEF Greatest

LEMMA GreatestIs ==
    ASSUME NEW S, S \subseteq Nat, NEW g \in S, \A j \in S : j <= g
    PROVE  Greatest(S) = g
<1>1. Greatest(S) \in S /\ \A j \in S : j <= Greatest(S)
  BY DEF Greatest
<1>2. Greatest(S) \in Nat /\ g \in Nat /\ Greatest(S) <= g /\ g <= Greatest(S)
  BY <1>1
<1> QED
  BY <1>2

\* One turn of the loop
LEMMA InfoStep ==
    ASSUME NEW base, NEW fields, NEW n \in Nat
    PROVE  InfoTo(base, fields, n + 1) = SetField(InfoTo(base, fields, n), fields[n + 1])
<1> DEFINE D == DOMAIN InfoTypes
           old == InfoTo(base, fields, n)
           field == fields[n + 1]
<1>1. 1 .. n + 1 = (1 .. n) \cup {n + 1}
  OBVIOUS
<1>2. WrongTo(fields, n + 1) <=> WrongTo(fields, n) \/ Wrong(field)
  BY <1>1 DEF WrongTo
<1>3. SetField(old, field) =
        IF old = BadInfo \/ field.name \notin Names THEN old
        ELSE IF field.value.type # InfoTypes[field.name[1]] THEN BadInfo
        ELSE [old EXCEPT ![field.name[1]] = Val(field.value)]
  BY DEF SetField, Names, Val
<1>4. CASE WrongTo(fields, n)
  BY <1>2, <1>3, <1>4 DEF InfoTo
<1>5. CASE ~WrongTo(fields, n)
  <2>1. old = [f \in D |-> ValTo(base, fields, n, f)] /\ old # BadInfo
    <3>1. old = [f \in D |-> ValTo(base, fields, n, f)]
      BY <1>5 DEF InfoTo
    <3> QED
      BY <3>1, NotBadInfo
  <2>2. CASE Wrong(field)
    BY <1>2, <1>3, <2>1, <2>2 DEF InfoTo, Wrong
  <2>3. CASE ~Wrong(field)
    <3>1. InfoTo(base, fields, n + 1) = [f \in D |-> ValTo(base, fields, n + 1, f)]
      BY <1>2, <1>5, <2>3 DEF InfoTo
    <3>2. CASE field.name \notin Names
      <4>1. ASSUME NEW f \in D PROVE ValTo(base, fields, n + 1, f) = ValTo(base, fields, n, f)
        <5>1. field.name # <<f>>
          BY <3>2 DEF Names
        <5>2. NamedTo(fields, f, n + 1) = NamedTo(fields, f, n)
          BY <1>1, <5>1 DEF NamedTo
        <5> QED
          BY <5>2 DEF ValTo
      <4>2. SetField(old, field) = old
        BY <1>3, <3>2
      <4> QED
        BY <2>1, <3>1, <4>1, <4>2
    <3>3. CASE field.name \in Names
      <4>1. PICK g \in D : field.name = <<g>>
        BY <3>3 DEF Names
      <4>2. field.name[1] = g
        BY <4>1
      <4>3. SetField(old, field) = [old EXCEPT ![g] = Val(field.value)]
        BY <1>3, <2>1, <2>3, <3>3, <4>2 DEF Wrong
      <4>4. ASSUME NEW f \in D, f # g PROVE ValTo(base, fields, n + 1, f) = ValTo(base, fields, n, f)
        <5>1. field.name # <<f>>
          BY <4>1, <4>4
        <5>2. NamedTo(fields, f, n + 1) = NamedTo(fields, f, n)
          BY <1>1, <5>1 DEF NamedTo
        <5> QED
          BY <5>2 DEF ValTo
      <4>5. ValTo(base, fields, n + 1, g) = Val(field.value)
        <5> DEFINE S == NamedTo(fields, g, n + 1)
        <5>1. S \subseteq Nat /\ n + 1 \in S /\ \A j \in S : j <= n + 1
          BY <4>1 DEF NamedTo
        <5> HIDE DEF S
        <5>2. Greatest(S) = n + 1 /\ S # {}
          BY <5>1, GreatestIs
        <5> QED
          BY <5>2 DEF ValTo, S
      <4> HIDE DEF old, field
      <4>6. SetField(old, field) = [f \in D |-> IF f = g THEN Val(field.value) ELSE ValTo(base, fields, n, f)]
        BY <2>1, <4>1, <4>3
      <4>7. \A f \in D : ValTo(base, fields, n + 1, f) = IF f = g THEN Val(field.value) ELSE ValTo(base, fields, n, f)
        BY <4>4, <4>5
      <4>8. [f \in D |-> ValTo(base, fields, n + 1, f)] = SetField(old, field)
        BY <4>6, <4>7
      <4> QED
        BY <3>1, <4>8 DEF old, field
    <3> QED
      BY <3>2, <3>3
  <2> QED
    BY <2>2, <2>3
<1> QED
  BY <1>4, <1>5

\* The recursive function of the loop has values, and they are these.
SetStep(f, base, fields) ==
    f = [n \in 0 .. Len(fields) |-> IF n = 0 THEN base ELSE SetField(f[n - 1], fields[n])]

LEMMA SetFieldsIs ==
    ASSUME NEW base, NEW fields
    PROVE  SetFields(base, fields) = (CHOOSE f : SetStep(f, base, fields))[Len(fields)]
BY Zenon DEF SetFields, SetStep

LEMMA SetFieldsTo ==
    ASSUME NEW base, base = [f \in DOMAIN InfoTypes |-> base[f]], NEW fields, Len(fields) \in Nat
    PROVE  SetFields(base, fields) = InfoTo(base, fields, Len(fields))
<1> DEFINE N == Len(fields)
           e == [n \in 0 .. N |-> InfoTo(base, fields, n)]
           s == CHOOSE f : SetStep(f, base, fields)
<1>1. InfoTo(base, fields, 0) = base
  <2>1. ~WrongTo(fields, 0) /\ \A f : NamedTo(fields, f, 0) = {}
    BY DEF WrongTo, NamedTo
  <2>2. InfoTo(base, fields, 0) = [f \in DOMAIN InfoTypes |-> ValTo(base, fields, 0, f)]
    BY <2>1 DEF InfoTo
  <2>3. \A f \in DOMAIN InfoTypes : ValTo(base, fields, 0, f) = base[f]
    BY <2>1 DEF ValTo
  <2>4. [f \in DOMAIN InfoTypes |-> ValTo(base, fields, 0, f)] = [f \in DOMAIN InfoTypes |-> base[f]]
    BY <2>3
  <2> QED
    BY <2>2, <2>4, Zenon
<1>2. ASSUME NEW n \in 0 .. N PROVE e[n] = IF n = 0 THEN base ELSE SetField(e[n - 1], fields[n])
  <2>1. CASE n = 0
    BY <1>1, <2>1
  <2>2. CASE n # 0
    <3>1. n - 1 \in Nat /\ n - 1 \in 0 .. N /\ (n - 1) + 1 = n
      BY <2>2
    <3>2. InfoTo(base, fields, n) = SetField(InfoTo(base, fields, n - 1), fields[n])
      BY <3>1, InfoStep
    <3> QED
      BY <2>2, <3>1, <3>2
  <2> QED
    BY <2>1, <2>2
<1>3. SetStep(e, base, fields)
  <2>1. e = [n \in 0 .. N |-> e[n]]
    OBVIOUS
  <2> HIDE DEF e
  <2> QED
    BY <1>2, <2>1 DEF SetStep
<1>4. SetStep(s, base, fields)
  BY <1>3
<1> HIDE DEF s, e
<1>5. ASSUME NEW n \in 0 .. N PROVE s[n] = IF n = 0 THEN base ELSE SetField(s[n - 1], fields[n])
  BY <1>4 DEF SetStep
<1> DEFINE S == {k \in Nat : k \in 0 .. N => s[k] = e[k]}
<1>6. 0 \in S
  BY <1>2, <1>5
<1>7. ASSUME NEW k \in Nat, k \in S PROVE k + 1 \in S
  <2> SUFFICES ASSUME k + 1 \in 0 .. N PROVE s[k + 1] = e[k + 1]
    OBVIOUS
  <2>1. k + 1 # 0 /\ (k + 1) - 1 = k /\ s[k] = e[k]
    BY <1>7
  <2>2. s[k + 1] = SetField(s[(k + 1) - 1], fields[k + 1]) /\ e[k + 1] = SetField(e[(k + 1) - 1], fields[k + 1])
    BY <1>2, <1>5, <2>1
  <2> QED
    BY <2>1, <2>2
<1> HIDE DEF S
<1>8. N \in S
  BY <1>6, <1>7, SetInduction
<1>9. s[N] = InfoTo(base, fields, N)
  BY <1>8 DEF S, e
<1> QED
  BY <1>9, SetFieldsIs DEF s

LEMMA ListFacts ==
    ASSUME NEW s, IsList(s)
    PROVE  Len(s) \in Nat /\ DOMAIN s = 1 .. Len(s) /\ s \in Seq(Range(s))
BY DEF IsList

LEMMA SeqIsList ==
    ASSUME NEW A, NEW s \in Seq(A)
    PROVE  IsList(s)
<1>1. Len(s) \in Nat /\ s = [i \in 1 .. Len(s) |-> s[i]] /\ DOMAIN s = 1 .. Len(s)
  OBVIOUS
<1>2. \A i \in 1 .. Len(s) : s[i] \in Range(s)
  BY <1>1 DEF Range
<1>3. s \in [1 .. Len(s) -> Range(s)]
  BY <1>1, <1>2
<1> QED
  BY <1>1, <1>3, SeqDef DEF IsList

LEMMA ToldFacts ==
    ASSUME NEW fields, IsList(fields)
    PROVE  /\ DOMAIN Told(fields) = {g \in DOMAIN InfoTypes : NamedTo(fields, g, Len(fields)) # {}}
           /\ \A f \in DOMAIN Told(fields) :
                 Told(fields)[f] = Val(fields[Greatest(NamedTo(fields, f, Len(fields)))].value)
<1>1. \A f : NamedTo(fields, f, Len(fields)) = Named(fields, f)
  BY ListFacts DEF NamedTo, Named
<1>2. \A f : LastNamed(fields, f) = Greatest(NamedTo(fields, f, Len(fields)))
  BY <1>1 DEF LastNamed, Greatest
<1>3. Told(fields) = [f \in {g \in DOMAIN InfoTypes : Named(fields, g) # {}} |-> Val(fields[LastNamed(fields, f)].value)]
  BY DEF Told, Val
<1> QED
  BY <1>1, <1>2, <1>3

LEMMA InfoAfterIs ==
    ASSUME NEW base, NEW fields, IsList(fields)
    PROVE  InfoAfter(base, fields) = [f \in DOMAIN InfoTypes |-> ValTo(base, fields, Len(fields), f)]
<1>1. ASSUME NEW f \in DOMAIN InfoTypes
      PROVE  ValTo(base, fields, Len(fields), f) = IF f \in DOMAIN Told(fields) THEN Told(fields)[f] ELSE base[f]
  BY ToldFacts DEF ValTo
<1> QED
  BY <1>1 DEF InfoAfter

\* What ngx_nats_parse_info makes of the fields of an INFO, in whatever order
\* and however often they come: of a name the last one counts, names that it
\* does not know change nothing, and one value of a wrong type closes the
\* connection whatever comes after it.
THEOREM SetFieldsRight ==
    ASSUME NEW base, base = [f \in DOMAIN InfoTypes |-> base[f]], NEW fields, IsList(fields)
    PROVE  SetFields(base, fields) = IF Understood(fields) THEN InfoAfter(base, fields) ELSE BadInfo
<1> DEFINE N == Len(fields)
<1>1. N \in Nat /\ DOMAIN fields = 1 .. N
  BY ListFacts
<1>2. SetFields(base, fields) = InfoTo(base, fields, N)
  BY <1>1, SetFieldsTo
<1>3. Understood(fields) <=> ~WrongTo(fields, N)
  BY <1>1 DEF Understood, Known, WrongTo, Wrong, Names
<1>4. InfoAfter(base, fields) = [f \in DOMAIN InfoTypes |-> ValTo(base, fields, N, f)]
  BY InfoAfterIs
<1> QED
  BY <1>2, <1>3, <1>4 DEF InfoTo

\* Fields after fields
LEMMA InfoCat ==
    ASSUME NEW A, NEW fs \in Seq(A), NEW gs \in Seq(A), NEW base
    PROVE  InfoAfter(base, Cat(fs, gs)) = InfoAfter(InfoAfter(base, fs), gs)
<1> DEFINE M == Len(fs)
           N == Len(gs)
           cs == Cat(fs, gs)
<1>1. /\ M \in Nat /\ N \in Nat /\ Len(cs) = M + N /\ cs \in Seq(A)
      /\ \A i \in 1 .. M : cs[i] = fs[i]
      /\ \A i \in 1 .. N : cs[M + i] = gs[i]
  <2>1. cs \in Seq(A) /\ Len(cs) = M + N /\ M \in Nat /\ N \in Nat
    BY DEF Cat
  <2>2. ASSUME NEW i \in 1 .. M PROVE cs[i] = fs[i]
    BY CatFacts
  <2>3. ASSUME NEW i \in 1 .. N PROVE cs[M + i] = gs[i]
    BY CatFacts
  <2> QED
    BY <2>1, <2>2, <2>3
<1> HIDE DEF cs
<1>2. IsList(fs) /\ IsList(gs) /\ IsList(cs)
  BY <1>1, SeqIsList
<1>3. ASSUME NEW f \in DOMAIN InfoTypes
      PROVE  ValTo(base, cs, M + N, f) = ValTo(InfoAfter(base, fs), gs, N, f)
  <2> DEFINE C == NamedTo(cs, f, M + N)
             F == NamedTo(fs, f, M)
             G == NamedTo(gs, f, N)
  <2>1. C = F \cup {M + i : i \in G}
    <3>1. ASSUME NEW j \in C, j \notin F PROVE j \in {M + i : i \in G}
      <4>1. j \in 1 .. M + N /\ cs[j].name = <<f>> /\ j - M \in Int /\ M + (j - M) = j
        BY <1>1 DEF NamedTo
      <4>2. ~(j \in 1 .. M)
        BY <1>1, <3>1, <4>1 DEF NamedTo
      <4>3. j - M \in 1 .. N
        BY <1>1, <4>1, <4>2
      <4>4. j - M \in G
        BY <1>1, <4>1, <4>3 DEF NamedTo
      <4> QED
        BY <4>1, <4>4
    <3>2. F \subseteq C
      BY <1>1 DEF NamedTo
    <3>3. ASSUME NEW i \in G PROVE M + i \in C
      <4>1. i \in 1 .. N /\ gs[i].name = <<f>> /\ M + i \in 1 .. M + N
        BY <1>1 DEF NamedTo
      <4> QED
        BY <1>1, <4>1 DEF NamedTo
    <3> HIDE DEF C, F, G
    <3> QED
      BY <3>1, <3>2, <3>3
  <2>2. F \subseteq 1 .. M /\ G \subseteq 1 .. N /\ C \subseteq Nat
    BY <1>1 DEF NamedTo
  <2>3. InfoAfter(base, fs)[f] = ValTo(base, fs, M, f)
    BY <1>2, InfoAfterIs
  <2> HIDE DEF C, F, G
  <2>4. CASE G # {}
    <3> DEFINE g == Greatest(G)
    <3>1. g \in G /\ \A j \in G : j <= g
      BY <1>1, <2>2, <2>4, GreatestFacts
    <3> HIDE DEF g
    <3>2. M + g \in C /\ \A j \in C : j <= M + g
      BY <1>1, <2>1, <2>2, <3>1
    <3>3. Greatest(C) = M + g /\ C # {}
      BY <2>2, <3>2, GreatestIs
    <3>4. cs[M + g] = gs[g]
      BY <1>1, <2>2, <3>1
    <3>5. ValTo(base, cs, M + N, f) = Val(cs[M + g].value)
      BY <3>3 DEF ValTo, C
    <3>6. ValTo(InfoAfter(base, fs), gs, N, f) = Val(gs[g].value)
      BY <2>4 DEF ValTo, G, g
    <3> QED
      BY <3>4, <3>5, <3>6
  <2>5. CASE G = {}
    <3>1. C = F
      BY <2>1, <2>5
    <3>2. ValTo(InfoAfter(base, fs), gs, N, f) = ValTo(base, fs, M, f)
      BY <2>3, <2>5 DEF ValTo, G
    <3>3. CASE F = {}
      BY <3>1, <3>2, <3>3 DEF ValTo, C, F
    <3>4. CASE F # {}
      <4>1. Greatest(F) \in 1 .. M
        BY <1>1, <2>2, <3>4, GreatestFacts
      <4>2. cs[Greatest(F)] = fs[Greatest(F)]
        BY <1>1, <4>1
      <4>3. ValTo(base, cs, M + N, f) = Val(cs[Greatest(F)].value)
        BY <3>1, <3>4 DEF ValTo, C
      <4>4. ValTo(base, fs, M, f) = Val(fs[Greatest(F)].value)
        BY <3>4 DEF ValTo, F
      <4> QED
        BY <3>2, <4>2, <4>3, <4>4
    <3> QED
      BY <3>3, <3>4
  <2> QED
    BY <2>4, <2>5
<1>4. InfoAfter(base, cs) = [f \in DOMAIN InfoTypes |-> ValTo(base, cs, M + N, f)]
  <2>1. InfoAfter(base, cs) = [f \in DOMAIN InfoTypes |-> ValTo(base, cs, Len(cs), f)]
    BY <1>2, InfoAfterIs
  <2>2. Len(cs) = M + N
    BY <1>1
  <2> QED
    BY <2>1, <2>2, Zenon
<1>5. InfoAfter(InfoAfter(base, fs), gs) = [f \in DOMAIN InfoTypes |-> ValTo(InfoAfter(base, fs), gs, N, f)]
  BY <1>2, InfoAfterIs
<1>6. [f \in DOMAIN InfoTypes |-> ValTo(base, cs, M + N, f)] = [f \in DOMAIN InfoTypes |-> ValTo(InfoAfter(base, fs), gs, N, f)]
  BY <1>3
<1> QED
  BY <1>4, <1>5, <1>6 DEF cs

-----------------------------------------------------------------------------
(* What the parser says of the bytes of a script that have come *)

AllSpeak == \A s \in Scripts : Speaks(s.sends)

LEMMA ScriptFacts ==
    ASSUME NEW s \in Scripts
    PROVE  /\ Len(s.sends) \in Nat /\ DOMAIN s.sends = 1 .. Len(s.sends) /\ AreTexts(s.sends, Len(s.sends))
           /\ TextTo(s.sends, Len(s.sends)) \in Seq(STRING) /\ Len(TextTo(s.sends, Len(s.sends))) \in Nat
           /\ Len(TextTo(s.sends, Len(s.sends))) < MaxStream /\ MaxStream \in Nat
           /\ \A i \in DOMAIN s.sends : IsList(s.sends[i].fields)
           /\ \A i \in GoodOnes(s.sends) : i \in 1 .. Len(s.sends) /\ 1 .. i \subseteq GoodOnes(s.sends)
<1>1. /\ IsList(s.sends) /\ Len(TextTo(s.sends, Len(s.sends))) < MaxStream /\ MaxStream \in Nat
      /\ \A i \in DOMAIN s.sends : s.sends[i].text \in Seq(STRING) /\ IsList(s.sends[i].fields)
  BY WireAssumption
<1>2. Len(s.sends) \in Nat /\ DOMAIN s.sends = 1 .. Len(s.sends)
  BY <1>1, ListFacts
<1>3. AreTexts(s.sends, Len(s.sends))
  BY <1>1, <1>2 DEF AreTexts
<1>4. TextTo(s.sends, Len(s.sends)) \in Seq(STRING)
  BY <1>2, <1>3, TextUp
<1>5. ASSUME NEW i \in GoodOnes(s.sends) PROVE i \in 1 .. Len(s.sends) /\ 1 .. i \subseteq GoodOnes(s.sends)
  BY <1>2 DEF GoodOnes
<1> QED
  BY <1>1, <1>2, <1>3, <1>4, <1>5

LEMMA GoodFacts ==
    ASSUME AllSpeak, NEW s \in Scripts, NEW i \in GoodOnes(s.sends)
    PROVE  /\ Parse(s.sends[i].text) = Formed(Len(s.sends[i].text), s.sends[i].msg)
           /\ s.sends[i].text \in Seq(STRING)
           /\ Len(s.sends[i].text) \in Nat /\ Len(s.sends[i].text) >= 1
<1> DEFINE t == s.sends[i].text
<1>1. Parse(t) = Formed(Len(t), s.sends[i].msg)
  BY DEF AllSpeak, Speaks
<1>2. t \in Seq(STRING)
  BY ScriptFacts DEF AreTexts
<1> HIDE DEF t
<1>3. Parse(t).rc \in {Again, InvalidHeader, InvalidMsg} \cup 1 .. Len(t) /\ Len(t) \in Nat
  BY <1>2, ParseInBounds
<1>4. Parse(t).rc = Len(t)
  BY <1>1 DEF Formed
<1>5. Len(t) >= 1
  BY <1>3, <1>4 DEF Again, InvalidHeader, InvalidMsg
<1> QED
  BY <1>1, <1>2, <1>3, <1>5 DEF t

\* k messages of the script s are behind, and of what follows the bytes b have
\* come.
Come(s, k, b) ==
    LET all == TextTo(s.sends, Len(s.sends))
        pre == Len(TextTo(s.sends, k))
    IN  /\ k \in 0 .. Len(s.sends) /\ 1 .. k \subseteq GoodOnes(s.sends)
        /\ b \in Seq(STRING) /\ Len(b) >= 1 /\ pre + Len(b) <= Len(all)
        /\ \A i \in 1 .. Len(b) : b[i] = all[pre + i]

LEMMA VerdictGood ==
    ASSUME AllSpeak, NEW s \in Scripts, NEW k, NEW b, Come(s, k, b), k + 1 \in GoodOnes(s.sends)
    PROVE  LET t == s.sends[k + 1].text IN
           /\ Len(b) >= Len(t) => Parse(b) = Formed(Len(t), s.sends[k + 1].msg)
           /\ Len(b) < Len(t) => Parse(b) = Failed(Again)
<1> DEFINE all == TextTo(s.sends, Len(s.sends))
           pre == Len(TextTo(s.sends, k))
           t   == s.sends[k + 1].text
<1>1. k + 1 \in 1 .. Len(s.sends) /\ (k + 1) - 1 = k
  BY ScriptFacts DEF Come
<1>2. /\ pre \in Nat /\ Len(t) \in Nat /\ Len(all) \in Nat /\ pre + Len(t) <= Len(all)
      /\ \A i \in 1 .. Len(t) : all[pre + i] = t[i]
  <2>1. Placed(s.sends, Len(s.sends), k + 1)
    BY <1>1, ScriptFacts, TextAt
  <2> QED
    BY <1>1, <2>1 DEF Placed
<1>3. b \in Seq(STRING) /\ Len(b) >= 1 /\ pre + Len(b) <= Len(all) /\ \A i \in 1 .. Len(b) : b[i] = all[pre + i]
  BY DEF Come
<1>4. /\ Parse(t) = Formed(Len(t), s.sends[k + 1].msg) /\ t \in Seq(STRING) /\ Len(t) >= 1
  BY GoodFacts
<1> HIDE DEF all, pre, t
<1>5. CASE Len(b) >= Len(t)
  <2>1. Starts(t, b)
    BY <1>2, <1>3, <1>4, <1>5 DEF Starts
  <2>2. Parse(t).rc = Len(t) /\ Parse(t).rc # Again
    BY <1>2, <1>4 DEF Formed, Again
  <2>3. Parse(b) = Parse(t)
    BY <2>1, <2>2, ParseSound DEF Sound
  <2> QED
    BY <1>2, <1>4, <1>5, <2>3 DEF t
<1>6. CASE Len(b) < Len(t)
  <2>1. Starts(b, t)
    BY <1>2, <1>3, <1>4, <1>6 DEF Starts
  <2>2. Sound(Parse(b), Parse(t), b)
    BY <2>1, ParseSound
  <2>3. Parse(t).rc = Len(t)
    BY <1>4 DEF Formed
  <2>4. Parse(b).rc = Again
    BY <1>2, <1>3, <1>4, <1>6, <2>2, <2>3 DEF Sound, InvalidHeader, InvalidMsg
  <2>5. Parse(b) = Failed(Again)
    BY <1>3, <2>2, <2>4 DEF Sound, Again
  <2> QED
    BY <1>6, <2>5, <1>2, <1>3 DEF t
<1> QED
  BY <1>2, <1>3, <1>5, <1>6 DEF t

LEMMA VerdictBad ==
    ASSUME AllSpeak, NEW s \in Scripts, NEW k, NEW b, Come(s, k, b), k + 1 \notin GoodOnes(s.sends)
    PROVE  \/ Parse(b).rc \in {Again, InvalidHeader, InvalidMsg} /\ Parse(b) = Failed(Parse(b).rc)
           \/ Parse(b).msg.type = "INFO" /\ SaysNothing(Parse(b).msg.body)
<1> DEFINE all  == TextTo(s.sends, Len(s.sends))
           pre  == Len(TextTo(s.sends, k))
           rest == SubSeq(all, pre + 1, Len(all))
           n    == k + 1
<1>1. Len(s.sends) \in Nat /\ all \in Seq(STRING) /\ Len(all) \in Nat /\ DOMAIN s.sends = 1 .. Len(s.sends)
  BY ScriptFacts
<1>2. /\ k \in 0 .. Len(s.sends) /\ 1 .. k \subseteq GoodOnes(s.sends)
      /\ b \in Seq(STRING) /\ Len(b) \in Nat /\ Len(b) >= 1 /\ pre + Len(b) <= Len(all)
      /\ \A i \in 1 .. Len(b) : b[i] = all[pre + i]
  BY DEF Come
<1>3. pre \in Nat
  <2>1. TextTo(s.sends, k) \in Seq(STRING)
    BY <1>1, <1>2, ScriptFacts, TextUp
  <2> QED
    BY <2>1
<1>4. k # Len(s.sends)
  BY <1>1, <1>2, <1>3
<1>5. n \in DOMAIN s.sends \ GoodOnes(s.sends) /\ n - 1 = k
  BY <1>1, <1>2, <1>4
<1>6. 1 .. n - 1 \subseteq GoodOnes(s.sends) /\ Parse(rest).rc > 0 =>
          Parse(rest).msg.type = "INFO" /\ SaysNothing(Parse(rest).msg.body)
  <2>1. Speaks(s.sends)
    BY DEF AllSpeak
  <2>2. \A i \in DOMAIN s.sends \ GoodOnes(s.sends) :
          1 .. i - 1 \subseteq GoodOnes(s.sends) /\ Parse(SubSeq(all, Len(TextTo(s.sends, i - 1)) + 1, Len(all))).rc > 0 =>
              /\ Parse(SubSeq(all, Len(TextTo(s.sends, i - 1)) + 1, Len(all))).msg.type = "INFO"
              /\ SaysNothing(Parse(SubSeq(all, Len(TextTo(s.sends, i - 1)) + 1, Len(all))).msg.body)
    BY <2>1, Zenon DEF Speaks
  <2> HIDE DEF n, all
  <2> QED
    BY <1>5, <2>2
<1>7. rest \in Seq(STRING) /\ Len(rest) = Len(all) - pre /\ \A i \in 1 .. Len(rest) : rest[i] = all[pre + i]
  <2> HIDE DEF all, pre
  <2> QED
    BY <1>1, <1>2, <1>3
<1> HIDE DEF all, pre, rest
<1>8. Starts(b, rest)
  BY <1>1, <1>2, <1>3, <1>7 DEF Starts
<1>9. Sound(Parse(b), Parse(rest), b)
  BY <1>8, ParseSound
<1>10. CASE Parse(b).rc \in 1 .. Len(b)
  <2>1. Parse(rest) = Parse(b) /\ Parse(b).rc > 0
    BY <1>2, <1>9, <1>10 DEF Sound, Again
  <2> QED
    BY <1>2, <1>5, <1>6, <2>1
<1>11. CASE Parse(b).rc \notin 1 .. Len(b)
  BY <1>9, <1>11 DEF Sound
<1> QED
  BY <1>10, <1>11

-----------------------------------------------------------------------------
(* What the INFOs of a script do to the server data *)

LEMMA InfoAfterShape ==
    ASSUME NEW old, NEW fields
    PROVE  /\ DOMAIN InfoAfter(old, fields) = DOMAIN InfoTypes
           /\ InfoAfter(old, fields) = [f \in DOMAIN InfoTypes |-> InfoAfter(old, fields)[f]]
           /\ InfoAfter(old, fields) # BadInfo
<1>1. /\ DOMAIN InfoAfter(old, fields) = DOMAIN InfoTypes
      /\ InfoAfter(old, fields) = [f \in DOMAIN InfoTypes |-> InfoAfter(old, fields)[f]]
  BY DEF InfoAfter
<1> QED
  BY <1>1, NotBadInfo

\* max_payload stays an int64_t.
LEMMA PayloadRange ==
    ASSUME NEW old, old.max_payload \in -(IntMax + 1) .. IntMax,
           NEW fields, IsList(fields), Understood(fields),
           \A f \in Range(fields) : f.value.int \in -(IntMax + 1) .. IntMax
    PROVE  InfoAfter(old, fields).max_payload \in -(IntMax + 1) .. IntMax
<1> DEFINE f == "max_payload"
           S == NamedTo(fields, f, Len(fields))
           g == Greatest(S)
<1>1. f \in DOMAIN InfoTypes /\ InfoTypes[f] = "integer"
  BY DEF InfoTypes
<1>2. InfoAfter(old, fields)[f] = ValTo(old, fields, Len(fields), f)
  BY <1>1, InfoAfterIs
<1>3. CASE S = {}
  BY <1>2, <1>3 DEF ValTo
<1>4. CASE S # {}
  <2>1. Len(fields) \in Nat /\ DOMAIN fields = 1 .. Len(fields)
    BY ListFacts
  <2>2. S \subseteq 1 .. Len(fields)
    BY DEF NamedTo
  <2>3. g \in S
    BY <1>4, <2>1, <2>2, GreatestFacts
  <2>4. g \in DOMAIN fields /\ fields[g].name = <<f>> /\ fields[g].name[1] = f
    <3> HIDE DEF g
    <3>1. g \in 1 .. Len(fields) /\ fields[g].name = <<f>>
      BY <2>3 DEF NamedTo
    <3> QED
      BY <2>1, <3>1
  <2>5. g \in Known(fields)
    BY <1>1, <2>4 DEF Known
  <2>6. fields[g].value.type = "integer"
    BY <1>1, <2>4, <2>5 DEF Understood
  <2>7. fields[g] \in Range(fields)
    BY <2>4 DEF Range
  <2>8. InfoAfter(old, fields)[f] = fields[g].value.int
    BY <1>2, <1>4, <2>6 DEF ValTo, Val
  <2> HIDE DEF g, S
  <2> QED
    BY <2>7, <2>8
<1> QED
  BY <1>3, <1>4

\* An INFO that says nothing closes the connection.
LEMMA BadNews ==
    ASSUME NEW old, NEW fields, old = InfoOf(fields), NEW body, SaysNothing(body)
    PROVE  ParseInfoFields(old, body) = BadInfo
<1> DEFINE json == JsonParse(body)
<1> HIDE DEF json
<1>1. json.rc = 0 /\ json.val.type = "object" => IsList(json.val.items) /\ ~Understood(json.val.items)
  BY DEF SaysNothing, json
<1>2. ParseInfoFields(old, body) = IF json.rc # 0 THEN BadInfo
                                   ELSE IF json.val.type # "object" THEN BadInfo
                                   ELSE SetFields(old, json.val.items)
  BY DEF ParseInfoFields, json
<1>3. old = [f \in DOMAIN InfoTypes |-> old[f]]
  BY InfoAfterShape DEF InfoOf
<1>4. IsList(json.val.items) /\ ~Understood(json.val.items) => SetFields(old, json.val.items) = BadInfo
  BY <1>3, SetFieldsRight
<1> QED
  BY <1>1, <1>2, <1>4

\* A good message leaves the server data as the fields up to it say.
LEMMA GoodNews ==
    ASSUME AllSpeak, NEW s \in Scripts, NEW k \in Nat, k + 1 \in GoodOnes(s.sends),
           NEW old, old = InfoOf(FieldsTo(s.sends, k)), old.max_payload \in -(IntMax + 1) .. IntMax
    PROVE  LET m == s.sends[k + 1].msg
               new == IF m.type = "INFO" THEN ParseInfoFields(old, m.body) ELSE old
           IN  /\ new = InfoOf(FieldsTo(s.sends, k + 1)) /\ new # BadInfo
               /\ new.max_payload \in -(IntMax + 1) .. IntMax
<1> DEFINE N  == Len(s.sends)
           m  == s.sends[k + 1].msg
           fs == FieldsTo(s.sends, k)
           gs == s.sends[k + 1].fields
           A  == UNION {Range(s.sends[i].fields) : i \in 1 .. N}
           json == JsonParse(m.body)
<1>1. N \in Nat /\ DOMAIN s.sends = 1 .. N /\ k + 1 \in 1 .. N /\ k \in 0 .. N /\ (k + 1) - 1 = k /\ k + 1 \in 0 .. N /\ k + 1 # 0
  <2>1. N \in Nat /\ DOMAIN s.sends = 1 .. N /\ k + 1 \in 1 .. N
    BY ScriptFacts
  <2> QED
    BY <2>1
<1>2. AreFields(s.sends, N, A)
  <2>1. ASSUME NEW i \in 1 .. N PROVE s.sends[i].fields \in Seq(A)
    <3>1. IsList(s.sends[i].fields)
      BY <1>1, ScriptFacts
    <3>2. Range(s.sends[i].fields) \subseteq A
      OBVIOUS
    <3> HIDE DEF A
    <3>3. s.sends[i].fields \in Seq(Range(s.sends[i].fields))
      BY <3>1, ListFacts
    <3> QED
      BY <3>2, <3>3
  <2> HIDE DEF A
  <2> QED
    BY <2>1 DEF AreFields
<1> HIDE DEF A
<1>3. fs \in Seq(A) /\ gs \in Seq(A) /\ FieldsTo(s.sends, k + 1) = Cat(fs, gs)
  <2>1. gs \in Seq(A)
    BY <1>1, <1>2 DEF AreFields
  <2>2. /\ k \in 0 .. N /\ k + 1 \in 0 .. N /\ k + 1 # 0 /\ (k + 1) - 1 = k
        /\ N \in Nat
    BY <1>1
  <2>3. /\ FieldsTo(s.sends, k) \in Seq(A)
        /\ FieldsTo(s.sends, k + 1) = Cat(FieldsTo(s.sends, (k + 1) - 1), s.sends[k + 1].fields)
    <3>1. FieldUp(A, s.sends, k) /\ FieldUp(A, s.sends, k + 1)
      BY <1>2, <2>2, FieldsUp
    <3> QED
      BY <2>2, <3>1, Zenon DEF FieldUp
  <2> QED
    BY <2>1, <2>2, <2>3, Zenon DEF fs, gs
<1> HIDE DEF fs, gs
<1>4. InfoOf(Cat(fs, gs)) = InfoAfter(old, gs)
  BY <1>3, InfoCat DEF InfoOf, fs
<1>5. IsList(gs) /\ \A f \in Range(gs) : f.value.int \in -(IntMax + 1) .. IntMax
  BY <1>1, WireAssumption DEF gs
<1>6. CASE m.type = "INFO"
  <2> HIDE DEF json
  <2>1. /\ json.rc = 0 /\ json.val.type = "object" /\ IsList(json.val.items)
        /\ Understood(json.val.items) /\ Understood(gs)
        /\ Told(json.val.items) = Told(gs)
    <3>1. Says(m.body, gs)
      BY <1>6 DEF AllSpeak, Speaks, gs
    <3> QED
      BY <3>1 DEF Says, json
  <2>2. ParseInfoFields(old, m.body) = SetFields(old, json.val.items)
    BY <2>1 DEF ParseInfoFields, json
  <2>3. old = [f \in DOMAIN InfoTypes |-> old[f]]
    BY InfoAfterShape DEF InfoOf
  <2>4. SetFields(old, json.val.items) = InfoAfter(old, json.val.items)
    BY <2>1, <2>3, SetFieldsRight
  <2>5. InfoAfter(old, json.val.items) = InfoAfter(old, gs)
    BY <2>1 DEF InfoAfter
  <2>6. InfoAfter(old, gs).max_payload \in -(IntMax + 1) .. IntMax
    BY <1>5, <2>1, PayloadRange
  <2>7. ParseInfoFields(old, m.body) = InfoAfter(old, gs)
    BY <2>2, <2>4, <2>5
  <2>8. InfoAfter(old, gs) # BadInfo
    BY InfoAfterShape
  <2> HIDE DEF m
  <2> QED
    BY <1>3, <1>4, <1>6, <2>6, <2>7, <2>8 DEF m
<1>7. CASE m.type # "INFO"
  <2>1. gs = <<>>
    BY <1>7 DEF AllSpeak, Speaks, gs
  <2>2. Cat(fs, gs) = fs
    BY <1>3, <2>1, ConcatEmptySeq DEF Cat
  <2>3. old # BadInfo
    BY InfoAfterShape DEF InfoOf
  <2> HIDE DEF m
  <2> QED
    BY <1>3, <1>7, <2>2, <2>3 DEF m, fs
<1> QED
  BY <1>6, <1>7

-----------------------------------------------------------------------------
(* The inductive invariant *)

Done      == Len(handled)
Behind(n) == Len(TextTo(Sends, n))

\* The messages so far are good ones, in order, and all that they say is known.
HandledInv ==
    /\ script \in Scripts
    /\ handled \in Seq({Sends[i].msg : i \in DOMAIN Sends})
    /\ Done <= Len(Sends) /\ 1 .. Done \subseteq Good
    /\ \A i \in 1 .. Done : handled[i] = Sends[i].msg
    /\ info = InfoOf(FieldsTo(Sends, Done))
    /\ info.max_payload \in -(IntMax + 1) .. IntMax
    /\ okayed = (\E i \in 1 .. Done : handled[i].type = "PONG")

\* The buffer holds the bytes between the last message and the last byte.
StreamInv ==
    /\ taken = Behind(Done) /\ received \in Nat
    /\ taken <= received /\ received <= Len(Stream)
    /\ r.cap \in Nat /\ r.cap > 2
    /\ pc \in {"recv", "process", "closed"}
    /\ pc # "closed" => Holds(r, taken) /\ r.end - r.pos = received - taken /\ why = "open"
    /\ pc = "recv" => r.pos = 0 /\ (UnderWay \in Good => received < Behind(UnderWay))

\* Why the connection was closed
ClosedInv ==
    pc = "closed" =>
        \/ why \in {"broken", "overlong"}
        \/ why = "bad" /\ UnderWay \notin Good
        \/ why = "refused" /\ Sends[UnderWay].msg.type = "-ERR" /\ ~okayed

WireInv == HandledInv /\ StreamInv /\ ClosedInv

LEMMA StateFacts ==
    ASSUME WireInv
    PROVE  /\ Len(Sends) \in Nat /\ DOMAIN Sends = 1 .. Len(Sends)
           /\ Stream \in Seq(STRING) /\ Len(Stream) \in Nat /\ Len(Stream) < MaxStream /\ MaxStream \in Nat
           /\ Done \in Nat /\ UnderWay = Done + 1 /\ taken \in Nat /\ received \in Nat
           /\ \A i \in Good : i \in 1 .. Len(Sends) /\ 1 .. i \subseteq Good
           /\ UnderWay \in Good =>
                 /\ Len(Sends[UnderWay].text) \in Nat /\ Behind(UnderWay) = taken + Len(Sends[UnderWay].text)
                 /\ Behind(UnderWay) <= Len(Stream)
<1>1. script \in Scripts /\ handled \in Seq({Sends[i].msg : i \in DOMAIN Sends}) /\ taken = Behind(Done)
  BY DEF WireInv, HandledInv, StreamInv
<1>2. /\ Len(Sends) \in Nat /\ DOMAIN Sends = 1 .. Len(Sends) /\ AreTexts(Sends, Len(Sends))
      /\ Stream \in Seq(STRING) /\ Len(Stream) \in Nat /\ Len(Stream) < MaxStream /\ MaxStream \in Nat
      /\ \A i \in Good : i \in 1 .. Len(Sends) /\ 1 .. i \subseteq Good
  BY <1>1, ScriptFacts DEF Sends, Stream, Good
<1>3. Done \in Nat
  BY <1>1 DEF Done
<1>4. Done <= Len(Sends)
  BY DEF WireInv, HandledInv
<1>5. taken \in Nat
  <2>1. TextTo(Sends, Done) \in Seq(STRING)
    BY <1>2, <1>3, <1>4, TextUp
  <2> QED
    BY <1>1, <2>1 DEF Behind
<1>6. ASSUME UnderWay \in Good
      PROVE  /\ Len(Sends[UnderWay].text) \in Nat /\ Behind(UnderWay) = taken + Len(Sends[UnderWay].text)
             /\ Behind(UnderWay) <= Len(Stream)
  <2>1. UnderWay \in 1 .. Len(Sends) /\ UnderWay - 1 = Done
    BY <1>2, <1>3, <1>6 DEF UnderWay, Done
  <2>2. Placed(Sends, Len(Sends), UnderWay)
    BY <1>2, <2>1, TextAt
  <2> QED
    BY <1>1, <2>1, <2>2 DEF Placed, Behind, Stream
<1> QED
  BY <1>1, <1>2, <1>3, <1>5, <1>6 DEF WireInv, StreamInv, UnderWay, Done

\* What is between pos and end is what has come and was not taken.
LEMMA BytesCome ==
    ASSUME WireInv, pc # "closed", r.pos # r.end
    PROVE  Come(script, Done, Bytes) /\ Len(Bytes) = received - taken
<1> DEFINE n == r.end - r.pos
<1>1. /\ Stream \in Seq(STRING) /\ Len(Stream) \in Nat /\ taken \in Nat /\ received \in Nat /\ Done \in Nat
      /\ Len(Sends) \in Nat /\ DOMAIN Sends = 1 .. Len(Sends)
  BY StateFacts
<1>2. Holds(r, taken) /\ n = received - taken /\ received <= Len(Stream) /\ taken = Behind(Done)
  BY DEF WireInv, StreamInv
<1>3. /\ r.pos \in Nat /\ n \in Nat /\ n >= 1
      /\ \A j \in 0 .. n - 1 : r.mem[r.pos + j] = taken + j
  BY <1>1, <1>2, HoldsFacts
<1>4. ASSUME NEW i \in 1 .. n PROVE Bytes[i] = Stream[taken + i] /\ taken + i \in 1 .. Len(Stream)
  <2>1. i - 1 \in 0 .. n - 1 /\ r.pos + i - 1 = r.pos + (i - 1)
    BY <1>3
  <2>2. r.mem[r.pos + i - 1] = taken + (i - 1)
    BY <1>3, <2>1
  <2>3. taken + (i - 1) \in 0 .. Len(Stream) - 1 /\ (taken + (i - 1)) + 1 = taken + i /\ taken + i \in 1 .. Len(Stream)
    <3>1. taken + n <= Len(Stream)
      BY <1>1, <1>2, <1>3
    <3> HIDE DEF n
    <3> QED
      BY <1>1, <1>3, <3>1
  <2>4. Bytes[i] = IF r.mem[r.pos + i - 1] \in 0 .. Len(Stream) - 1 THEN Stream[r.mem[r.pos + i - 1] + 1] ELSE "JUNK"
    BY DEF Bytes
  <2> QED
    BY <2>2, <2>3, <2>4
<1>5. Bytes \in Seq(STRING) /\ Len(Bytes) = n
  <2>1. DOMAIN Bytes = 1 .. n /\ Bytes = [i \in 1 .. n |-> Bytes[i]]
    BY DEF Bytes
  <2>2. \A i \in 1 .. n : Bytes[i] \in STRING
    BY <1>1, <1>4
  <2>3. Bytes \in [1 .. n -> STRING]
    BY <2>1, <2>2
  <2> HIDE DEF n
  <2> QED
    BY <1>3, <2>3, SeqDef
<1> HIDE DEF n
<1>6. Done \in 0 .. Len(Sends) /\ 1 .. Done \subseteq Good
  BY <1>1 DEF WireInv, HandledInv
<1>7. /\ taken + Len(Bytes) <= Len(Stream) /\ Len(Bytes) >= 1 /\ Len(Bytes) = received - taken
      /\ \A i \in 1 .. Len(Bytes) : Bytes[i] = Stream[taken + i]
  BY <1>1, <1>2, <1>3, <1>4, <1>5
<1>8. Come(script, Done, Bytes)
  <2>1. /\ taken = Len(TextTo(script.sends, Done)) /\ Stream = TextTo(script.sends, Len(script.sends))
        /\ Done \in 0 .. Len(script.sends) /\ 1 .. Done \subseteq GoodOnes(script.sends)
    BY <1>2, <1>6 DEF Sends, Stream, Good, Behind
  <2> HIDE DEF Done, Bytes, Stream
  <2> QED
    BY <1>5, <1>7, <2>1 DEF Come
<1> QED
  BY <1>7, <1>8

\* The verdict on the bytes that have come
LEMMA Verdict ==
    ASSUME AllSpeak, WireInv, pc # "closed", r.pos # r.end
    PROVE  /\ UnderWay \in Good /\ received >= Behind(UnderWay) =>
                 Parse(Bytes) = Formed(Len(Sends[UnderWay].text), Sends[UnderWay].msg)
           /\ UnderWay \in Good /\ received < Behind(UnderWay) => Parse(Bytes) = Failed(Again)
           /\ UnderWay \notin Good =>
                 \/ Parse(Bytes).rc \in {Again, InvalidHeader, InvalidMsg} /\ Parse(Bytes) = Failed(Parse(Bytes).rc)
                 \/ Parse(Bytes).msg.type = "INFO" /\ SaysNothing(Parse(Bytes).msg.body)
<1>1. Come(script, Done, Bytes) /\ Len(Bytes) = received - taken
  BY BytesCome
<1>2. script \in Scripts /\ UnderWay = Done + 1 /\ taken \in Nat /\ received \in Nat
  BY StateFacts DEF WireInv, HandledInv
<1>3. ASSUME UnderWay \in Good
      PROVE  /\ Len(Sends[UnderWay].text) \in Nat
             /\ received >= Behind(UnderWay) <=> Len(Bytes) >= Len(Sends[UnderWay].text)
             /\ received < Behind(UnderWay) <=> Len(Bytes) < Len(Sends[UnderWay].text)
             /\ Len(Bytes) >= Len(Sends[UnderWay].text) => Parse(Bytes) = Formed(Len(Sends[UnderWay].text), Sends[UnderWay].msg)
             /\ Len(Bytes) < Len(Sends[UnderWay].text) => Parse(Bytes) = Failed(Again)
  <2>1. Len(Sends[UnderWay].text) \in Nat /\ Behind(UnderWay) = taken + Len(Sends[UnderWay].text)
    BY <1>3, StateFacts
  <2>2. Done + 1 \in GoodOnes(script.sends)
    BY <1>2, <1>3 DEF Good, Sends
  <2>3. /\ Len(Bytes) >= Len(Sends[Done + 1].text) => Parse(Bytes) = Formed(Len(Sends[Done + 1].text), Sends[Done + 1].msg)
        /\ Len(Bytes) < Len(Sends[Done + 1].text) => Parse(Bytes) = Failed(Again)
    BY <1>1, <1>2, <2>2, VerdictGood DEF Sends
  <2> QED
    BY <1>1, <1>2, <2>1, <2>3
<1>4. ASSUME UnderWay \notin Good
      PROVE  \/ Parse(Bytes).rc \in {Again, InvalidHeader, InvalidMsg} /\ Parse(Bytes) = Failed(Parse(Bytes).rc)
             \/ Parse(Bytes).msg.type = "INFO" /\ SaysNothing(Parse(Bytes).msg.body)
  <2>1. Done + 1 \notin GoodOnes(script.sends)
    BY <1>2, <1>4 DEF Good, Sends
  <2> QED
    BY <1>1, <1>2, <2>1, VerdictBad
<1> QED
  BY <1>3, <1>4

-----------------------------------------------------------------------------
(* It holds at the start and every step keeps it. *)

LEMMA StartFacts ==
    ASSUME NEW s
    PROVE  /\ InfoOf(FieldsTo(s.sends, 0)) = NoInfo /\ TextTo(s.sends, 0) = <<>>
           /\ NoInfo.max_payload = 0 /\ 0 \in -(IntMax + 1) .. IntMax
<1>1. FieldsTo(s.sends, 0) = <<>> /\ TextTo(s.sends, 0) = <<>>
  <2>1. AreFields(s.sends, 0, {}) /\ AreTexts(s.sends, 0) /\ 0 \in Nat /\ 0 \in 0 .. 0
    BY DEF AreFields, AreTexts
  <2> QED
    <3>1. FieldUp({}, s.sends, 0)
      BY <2>1, FieldsUp
    <3>2. TextTo(s.sends, 0) = <<>>
      BY <2>1, TextUp
    <3> QED
      BY <3>1, <3>2 DEF FieldUp
<1>2. InfoOf(<<>>) = NoInfo
  <2>1. \A f : Named(<<>>, f) = {}
    BY DEF Named
  <2>2. DOMAIN Told(<<>>) = {}
    BY <2>1 DEF Told
  <2>3. InfoOf(<<>>) = [f \in DOMAIN InfoTypes |-> NoInfo[f]]
    BY <2>2 DEF InfoOf, InfoAfter
  <2>4. NoInfo = [f \in DOMAIN InfoTypes |-> NoInfo[f]]
    BY DEF NoInfo
  <2> QED
    BY <2>3, <2>4
<1>3. NoInfo.max_payload = 0
  BY DEF NoInfo, InfoTypes
<1>4. 0 \in -(IntMax + 1) .. IntMax
  BY WireAssumption
<1> QED
  BY <1>1, <1>2, <1>3, <1>4

LEMMA StartText ==
    ASSUME AllSpeak, NEW s \in Scripts, 1 \in GoodOnes(s.sends)
    PROVE  0 < Len(TextTo(s.sends, 1))
<1>1. 1 \in 1 .. Len(s.sends) /\ Len(s.sends) \in Nat /\ AreTexts(s.sends, Len(s.sends)) /\ 1 - 1 = 0
  BY ScriptFacts
<1>2. Placed(s.sends, Len(s.sends), 1)
  BY <1>1, TextAt
<1>3. Len(TextTo(s.sends, 0)) = 0
  BY StartFacts
<1>4. Len(s.sends[1].text) >= 1
  BY GoodFacts
<1>5. /\ Len(TextTo(s.sends, 1)) = Len(TextTo(s.sends, 1 - 1)) + Len(s.sends[1].text)
      /\ Len(s.sends[1].text) \in Nat
  BY <1>2 DEF Placed
<1>6. TextTo(s.sends, 1 - 1) = TextTo(s.sends, 0)
  BY <1>1, Zenon
<1>7. Len(TextTo(s.sends, 1 - 1)) = 0
  BY <1>3, <1>6, Zenon
<1> DEFINE a == Len(TextTo(s.sends, 1))
           b == Len(TextTo(s.sends, 1 - 1))
           c == Len(s.sends[1].text)
<1>8. a = b + c /\ b = 0 /\ c \in Nat /\ c >= 1
  BY <1>4, <1>5, <1>7
<1> HIDE DEF a, b, c
<1>9. 0 < a
  BY <1>8
<1> QED
  BY <1>9 DEF a

LEMMA InitInv == ASSUME AllSpeak, Init PROVE WireInv
<1>1. /\ script \in Scripts /\ r = Create /\ received = 0 /\ taken = 0 /\ info = NoInfo /\ okayed = FALSE
      /\ handled = <<>> /\ pc = "recv" /\ why = "open"
  BY DEF Init
<1>2. Done = 0 /\ UnderWay = 1
  BY <1>1 DEF Done, UnderWay
<1>3. Len(Sends) \in Nat /\ Len(Stream) \in Nat
  BY <1>1, ScriptFacts DEF Sends, Stream
<1>4. HandledInv
  <2>1. InfoOf(FieldsTo(Sends, 0)) = NoInfo /\ NoInfo.max_payload \in -(IntMax + 1) .. IntMax
    BY StartFacts DEF Sends
  <2>2. handled \in Seq({Sends[i].msg : i \in DOMAIN Sends}) /\ 1 .. Done = {}
    BY <1>1, <1>2
  <2>3. okayed = (\E i \in 1 .. Done : handled[i].type = "PONG")
    BY <1>1, <2>2, Zenon
  <2>4. Done <= Len(Sends) /\ 1 .. Done \subseteq Good /\ \A i \in 1 .. Done : handled[i] = Sends[i].msg
    BY <1>2, <1>3, <2>2
  <2>5. info = InfoOf(FieldsTo(Sends, Done)) /\ info.max_payload \in -(IntMax + 1) .. IntMax
    BY <1>1, <1>2, <2>1
  <2> QED
    BY <1>1, <2>2, <2>3, <2>4, <2>5, Zenon DEF HandledInv
<1>5. StreamInv
  <2>1. Behind(0) = 0 /\ (1 \in Good => 0 < Behind(1))
    BY <1>1, StartFacts, StartText DEF Behind, Sends, Good
  <2>2. r.cap \in Nat /\ r.cap > 2 /\ r.pos = 0 /\ r.end = 0 /\ Holds(r, 0)
    BY <1>1, BufAssumption DEF Create, Holds
  <2> QED
    BY <1>1, <1>2, <1>3, <2>1, <2>2 DEF StreamInv
<1>6. ClosedInv
  BY <1>1 DEF ClosedInv
<1> QED
  BY <1>4, <1>5, <1>6 DEF WireInv

LEMMA ReconnectInv == ASSUME AllSpeak, WireInv, Reconnect PROVE WireInv'
<1>1. /\ script' \in Scripts /\ r' = Reset(r) /\ received' = 0 /\ taken' = 0 /\ info' = NoInfo /\ okayed' = FALSE
      /\ handled' = <<>> /\ pc' = "recv" /\ why' = "open"
  BY WireAssumption DEF Reconnect
<1>2. Done' = 0 /\ UnderWay' = 1
  BY <1>1 DEF Done, UnderWay
<1>3. Len(Sends') \in Nat /\ Len(Stream') \in Nat
  BY <1>1, ScriptFacts DEF Sends, Stream
<1>4. HandledInv'
  <2>1. InfoOf(FieldsTo(Sends', 0)) = NoInfo /\ NoInfo.max_payload \in -(IntMax + 1) .. IntMax
    BY StartFacts DEF Sends
  <2>2. handled' \in Seq({Sends'[i].msg : i \in DOMAIN Sends'}) /\ 1 .. Done' = {}
    BY <1>1, <1>2
  <2>3. okayed' = (\E i \in 1 .. Done' : handled'[i].type = "PONG")
    BY <1>1, <2>2, Zenon
  <2>4. Done' <= Len(Sends') /\ 1 .. Done' \subseteq Good' /\ \A i \in 1 .. Done' : handled'[i] = Sends'[i].msg
    BY <1>2, <1>3, <2>2
  <2>5. info' = InfoOf(FieldsTo(Sends', Done')) /\ info'.max_payload \in -(IntMax + 1) .. IntMax
    BY <1>1, <1>2, <2>1
  <2> QED
    BY <1>1, <2>2, <2>3, <2>4, <2>5, Zenon DEF HandledInv
<1>5. StreamInv'
  <2>1. Behind(0)' = 0 /\ (1 \in Good' => 0 < Behind(1)')
    BY <1>1, StartFacts, StartText DEF Behind, Sends, Good
  <2>2. r.cap \in Nat /\ r.cap > 2
    BY DEF WireInv, StreamInv
  <2>3. r'.cap \in Nat /\ r'.cap > 2 /\ r'.pos = 0 /\ r'.end = 0 /\ Holds(r', 0)
    BY <1>1, <2>2, ResetHolds
  <2>4. taken' = Behind(Done)' /\ (UnderWay' \in Good' => received' < Behind(UnderWay)')
    BY <1>1, <1>2, <2>1
  <2> QED
    BY <1>1, <1>3, <2>3, <2>4 DEF StreamInv
<1>6. ClosedInv'
  BY <1>1 DEF ClosedInv
<1> QED
  BY <1>4, <1>5, <1>6 DEF WireInv

\* Steps that handle no message
LEMMA Kept ==
    ASSUME HandledInv, UNCHANGED <<script, info, okayed, handled>>
    PROVE  /\ HandledInv' /\ Sends' = Sends /\ Stream' = Stream /\ Good' = Good
           /\ Done' = Done /\ UnderWay' = UnderWay
           /\ Behind(Done)' = Behind(Done) /\ Behind(UnderWay)' = Behind(UnderWay)
<1>1. Sends' = Sends /\ Done' = Done /\ UnderWay' = UnderWay
  BY DEF Sends, Done, UnderWay
<1>2. Stream' = Stream /\ Good' = Good /\ Behind(Done)' = Behind(Done) /\ Behind(UnderWay)' = Behind(UnderWay)
  BY <1>1 DEF Stream, Good, Behind
<1>3. HandledInv'
  BY <1>1, <1>2, Zenon DEF HandledInv
<1> QED
  BY <1>1, <1>2, <1>3

LEMMA CloseInv ==
    ASSUME WireInv, NEW reason, Close(reason),
           \/ reason \in {"broken", "overlong"}
           \/ reason = "bad" /\ UnderWay \notin Good
           \/ reason = "refused" /\ Sends[UnderWay].msg.type = "-ERR" /\ ~okayed
    PROVE  WireInv'
<1>1. /\ UNCHANGED <<script, info, okayed, handled>> /\ received' = received /\ taken' = taken
      /\ r' = Reset(r) /\ pc' = "closed" /\ why' = reason
  BY DEF Close
<1>2. /\ HandledInv' /\ Sends' = Sends /\ Stream' = Stream /\ Good' = Good
      /\ UnderWay' = UnderWay /\ Behind(Done)' = Behind(Done)
  BY <1>1, Kept DEF WireInv
<1>3. r.cap \in Nat /\ r.cap > 2
  BY DEF WireInv, StreamInv
<1>4. r'.cap = r.cap
  BY <1>1, <1>3, ResetHolds
<1>5. StreamInv'
  BY <1>1, <1>2, <1>3, <1>4 DEF WireInv, StreamInv
<1>6. ClosedInv'
  BY <1>1, <1>2 DEF ClosedInv
<1> QED
  BY <1>2, <1>5, <1>6 DEF WireInv

LEMMA Shifted ==
    ASSUME NEW p \in Nat, NEW e \in Nat, NEW n \in Nat, NEW t \in Nat
    PROVE  (e + n) - p = (t + (e - p) + n) - t
OBVIOUS

LEMMA RecvInv == ASSUME WireInv, Recv PROVE WireInv'
<1>1. PICK n \in 1 .. Room : n <= Left /\ received' = received + n /\ r' = Write(r, received, n)
  BY DEF Recv
<1>2. /\ UNCHANGED <<script, info, okayed, handled>> /\ taken' = taken
      /\ pc = "recv" /\ pc' = "process" /\ why' = why
  BY DEF Recv
<1>3. /\ HandledInv' /\ Sends' = Sends /\ Stream' = Stream /\ Good' = Good
      /\ UnderWay' = UnderWay /\ Behind(Done)' = Behind(Done)
  BY <1>2, Kept DEF WireInv
<1>4. /\ Holds(r, taken) /\ r.end - r.pos = received - taken /\ why = "open" /\ taken = Behind(Done)
      /\ r.cap > 2 /\ taken <= received /\ received <= Len(Stream)
  BY <1>2 DEF WireInv, StreamInv
<1>5. taken \in Nat /\ received \in Nat /\ Len(Stream) \in Nat
  BY StateFacts
<1>6. /\ r.pos \in Nat /\ r.end \in Nat /\ r.cap \in Nat
      /\ n \in Nat /\ r.end + n <= r.cap /\ received = taken + (r.end - r.pos) /\ received + n <= Len(Stream)
  <2>1. r.pos \in Nat /\ r.end \in Nat /\ r.cap \in Nat /\ r.end <= r.cap
    BY <1>4, <1>5, HoldsFacts
  <2>2. n \in Nat /\ n <= r.cap - r.end - 1 /\ n <= Len(Stream) - received
    BY <1>1, <1>5, <2>1 DEF Room, Left
  <2>3. r.end - r.pos = received - taken
    BY <1>4
  <2>4. received = taken + (r.end - r.pos)
    BY <1>5, <2>1, <2>3
  <2>5. r.end + n <= r.cap
    BY <2>1, <2>2
  <2>6. received + n <= Len(Stream)
    BY <1>5, <2>2
  <2> QED
    BY <2>1, <2>2, <2>4, <2>5, <2>6
<1>7. Holds(r', taken) /\ r'.pos = r.pos /\ r'.end = r.end + n /\ r'.cap = r.cap
  <2>1. r' = Write(r, taken + (r.end - r.pos), n)
    BY <1>1, <1>6
  <2>2. n \in Nat /\ taken \in Nat /\ Holds(r, taken) /\ r.end + n <= r.cap
    BY <1>4, <1>5, <1>6
  <2> HIDE DEF Room
  <2> QED
    BY <2>1, <2>2, WriteHolds
<1>8. StreamInv'
  <2>1. received' = received + n /\ taken' = taken /\ pc' = "process" /\ why' = "open"
    BY <1>1, <1>2, <1>4
  <2>2. n \in Nat /\ taken <= received /\ received + n <= Len(Stream) /\ r.cap > 2 /\ r.cap \in Nat
    BY <1>4, <1>6
  <2>3. received' \in Nat /\ taken' <= received'
    BY <1>5, <2>1, <2>2
  <2>4. received' <= Len(Stream')
    BY <1>3, <2>1, <2>2
  <2>5. taken' = Behind(Done)'
    BY <1>3, <1>4, <2>1
  <2>6. r'.end - r'.pos = received' - taken'
    <3>1. r'.pos = r.pos /\ r'.end = r.end + n
      BY <1>7
    <3>2. r.pos \in Nat /\ r.end \in Nat /\ n \in Nat /\ received = taken + (r.end - r.pos)
      BY <1>6
    <3>3. received' - taken' = (taken + (r.end - r.pos) + n) - taken
      BY <2>1, <3>2, Zenon
    <3>4. r'.end - r'.pos = (r.end + n) - r.pos
      BY <3>1, Zenon
    <3>5. (r.end + n) - r.pos = (taken + (r.end - r.pos) + n) - taken
      <4> DEFINE p == r.pos
                 e == r.end
      <4>1. p \in Nat /\ e \in Nat /\ n \in Nat /\ taken \in Nat
        BY <1>5, <3>2
      <4> HIDE DEF p, e
      <4>2. (e + n) - p = (taken + (e - p) + n) - taken
        BY <4>1, Shifted
      <4> QED
        BY <4>2 DEF p, e
    <3> QED
      BY <3>3, <3>4, <3>5, Zenon
  <2>7. Holds(r', taken') /\ r'.cap \in Nat /\ r'.cap > 2
    BY <1>7, <2>1, <2>2
  <2> QED
    BY <2>1, <2>3, <2>4, <2>5, <2>6, <2>7 DEF StreamInv
<1>9. ClosedInv'
  BY <1>2 DEF ClosedInv
<1> QED
  BY <1>3, <1>8, <1>9 DEF WireInv

LEMMA EndInv == ASSUME AllSpeak, WireInv, pc = "process", ProcessEnd PROVE WireInv'
<1>1. /\ UNCHANGED <<script, info, okayed, handled>> /\ taken' = taken /\ received' = received
      /\ pc' = "recv" /\ why' = why /\ r' = Compact(r) /\ r.pos = r.end
  BY DEF ProcessEnd
<1>2. /\ HandledInv' /\ Sends' = Sends /\ Stream' = Stream /\ Good' = Good
      /\ UnderWay' = UnderWay /\ Behind(Done)' = Behind(Done) /\ Behind(UnderWay)' = Behind(UnderWay)
  BY <1>1, Kept DEF WireInv
<1>3. /\ Holds(r, taken) /\ r.end - r.pos = received - taken /\ why = "open" /\ taken = Behind(Done)
      /\ r.cap > 2 /\ r.cap \in Nat /\ taken <= received /\ received <= Len(Stream)
  BY DEF WireInv, StreamInv
<1>4. taken \in Nat /\ received \in Nat /\ script \in Scripts
  BY StateFacts DEF WireInv, HandledInv
<1>5. Holds(r', taken) /\ r'.pos = 0 /\ r'.end = r.end - r.pos /\ r'.cap = r.cap
  BY <1>1, <1>3, <1>4, CompactHolds
<1>6. r.pos \in Nat /\ received = taken
  <2>1. r.pos \in Nat
    BY <1>3, <1>4, HoldsFacts
  <2> QED
    BY <1>1, <1>3, <1>4, <2>1
<1>7. ASSUME UnderWay \in Good PROVE received < Behind(UnderWay)
  <2>1. UnderWay \in GoodOnes(script.sends)
    BY <1>7 DEF Good, Sends
  <2>2. Len(Sends[UnderWay].text) >= 1
    BY <1>4, <2>1, GoodFacts DEF Sends
  <2>3. Len(Sends[UnderWay].text) \in Nat /\ Behind(UnderWay) = taken + Len(Sends[UnderWay].text)
    BY <1>7, StateFacts
  <2> QED
    BY <1>4, <1>6, <2>2, <2>3
<1>8. StreamInv'
  <2>1. UnderWay' \in Good' => received' < Behind(UnderWay)'
    BY <1>1, <1>2, <1>7
  <2>2. taken' = Behind(Done)' /\ received' \in Nat /\ taken' <= received' /\ received' <= Len(Stream')
    BY <1>1, <1>2, <1>3, <1>4
  <2>3. Holds(r', taken') /\ r'.end - r'.pos = received' - taken' /\ r'.cap \in Nat /\ r'.cap > 2 /\ r'.pos = 0
    <3>1. r'.end - r'.pos = 0 /\ received' - taken' = 0
      BY <1>1, <1>4, <1>5, <1>6
    <3> QED
      BY <1>1, <1>3, <1>5, <3>1
  <2> QED
    BY <1>1, <1>3, <2>1, <2>2, <2>3 DEF StreamInv
<1>9. ClosedInv'
  BY <1>1 DEF ClosedInv
<1> QED
  BY <1>2, <1>8, <1>9 DEF WireInv

\* What ProcessMessage handles is the next good message, which is all there.
LEMMA MessageIs ==
    ASSUME AllSpeak, WireInv, pc = "process",
           NEW v, v = IF r.pos = r.end THEN Failed(Again) ELSE Parse(Bytes), ProcessMessage(v)
    PROVE  /\ r.pos # r.end /\ UnderWay \in Good /\ received >= Behind(UnderWay)
           /\ v = Formed(Len(Sends[UnderWay].text), Sends[UnderWay].msg)
<1>1. v.rc > 0 /\ ~Rejects(v.msg)
  BY DEF ProcessMessage
<1>2. r.pos # r.end /\ v = Parse(Bytes)
  BY <1>1 DEF Failed, Again
<1>3. info = InfoOf(FieldsTo(Sends, Done))
  BY DEF WireInv, HandledInv
<1>4. UnderWay \in Good
  <2> SUFFICES ASSUME UnderWay \notin Good PROVE FALSE
    OBVIOUS
  <2>1. v.msg.type = "INFO" /\ SaysNothing(v.msg.body)
    BY <1>1, <1>2, Verdict DEF Again, InvalidHeader, InvalidMsg
  <2>2. NewInfo(v.msg) = BadInfo
    BY <1>3, <2>1, BadNews DEF NewInfo
  <2> QED
    BY <1>1, <2>2 DEF Rejects
<1>5. received >= Behind(UnderWay) /\ v = Formed(Len(Sends[UnderWay].text), Sends[UnderWay].msg)
  <2>1. received \in Nat /\ Behind(UnderWay) \in Nat
    BY <1>4, StateFacts
  <2>2. ~(received < Behind(UnderWay))
    BY <1>1, <1>2, <1>4, Verdict DEF Failed, Again
  <2>3. received >= Behind(UnderWay)
    BY <2>1, <2>2
  <2> QED
    BY <1>2, <1>4, <2>3, Verdict
<1> QED
  BY <1>2, <1>4, <1>5

LEMMA MessageInv ==
    ASSUME AllSpeak, WireInv, pc = "process",
           NEW v, v = IF r.pos = r.end THEN Failed(Again) ELSE Parse(Bytes), ProcessMessage(v)
    PROVE  WireInv' /\ info'.max_payload \in -(IntMax + 1) .. IntMax
<1> DEFINE m == Sends[UnderWay].msg
           n == Len(Sends[UnderWay].text)
<1>1. r.pos # r.end /\ UnderWay \in Good /\ received >= Behind(UnderWay) /\ v.rc = n /\ v.msg = m
  BY MessageIs DEF Formed
<1>2. /\ info' = NewInfo(m) /\ handled' = Append(handled, m) /\ okayed' = (okayed \/ m.type = "PONG")
      /\ r' = Advance(r, n) /\ taken' = taken + n /\ UNCHANGED <<script, received, pc, why>>
  BY <1>1 DEF ProcessMessage
<1>3. /\ n \in Nat /\ Behind(UnderWay) = taken + n /\ Behind(UnderWay) <= Len(Stream)
      /\ Len(Sends) \in Nat /\ DOMAIN Sends = 1 .. Len(Sends) /\ Len(Stream) \in Nat
      /\ Done \in Nat /\ UnderWay = Done + 1 /\ taken \in Nat /\ received \in Nat
      /\ UnderWay \in 1 .. Len(Sends) /\ 1 .. UnderWay \subseteq Good
  BY <1>1, StateFacts
<1> HIDE DEF n
<1>4. Sends' = Sends /\ Stream' = Stream /\ Good' = Good
  BY <1>2 DEF Sends, Stream, Good
<1>5. /\ script \in Scripts /\ handled \in Seq({Sends[i].msg : i \in DOMAIN Sends})
      /\ \A i \in 1 .. Done : handled[i] = Sends[i].msg
      /\ info = InfoOf(FieldsTo(Sends, Done)) /\ info.max_payload \in -(IntMax + 1) .. IntMax
      /\ okayed = (\E i \in 1 .. Done : handled[i].type = "PONG")
  BY DEF WireInv, HandledInv
<1>6. /\ handled' \in Seq({Sends[i].msg : i \in DOMAIN Sends}) /\ Done' = UnderWay
      /\ \A i \in 1 .. UnderWay : handled'[i] = Sends[i].msg
      /\ \A i \in 1 .. Done : handled'[i] = handled[i]
  <2>1. m \in {Sends[i].msg : i \in DOMAIN Sends}
    BY <1>3
  <2> HIDE DEF m
  <2>2. /\ handled' \in Seq({Sends[i].msg : i \in DOMAIN Sends}) /\ Len(handled') = Len(handled) + 1
        /\ handled'[Len(handled) + 1] = m /\ \A i \in 1 .. Len(handled) : handled'[i] = handled[i]
    BY <1>2, <1>5, <2>1
  <2>3. Done' = UnderWay /\ \A i \in 1 .. Done : handled'[i] = handled[i]
    BY <1>3, <2>2 DEF Done
  <2>4. handled'[UnderWay] = m
    BY <1>3, <2>2 DEF Done
  <2>5. ASSUME NEW i \in 1 .. UnderWay PROVE handled'[i] = Sends[i].msg
    <3>1. i = UnderWay \/ i \in 1 .. Done
      BY <1>3
    <3> QED
      BY <1>5, <2>3, <2>4, <3>1 DEF m
  <2> QED
    BY <2>2, <2>3, <2>5
<1>7. /\ info' = InfoOf(FieldsTo(Sends, UnderWay)) /\ info'.max_payload \in -(IntMax + 1) .. IntMax
  <2>1. Done + 1 \in GoodOnes(script.sends)
    BY <1>1, <1>3 DEF Good, Sends
  <2> DEFINE w == script.sends[Done + 1].msg
             new == IF w.type = "INFO" THEN ParseInfoFields(info, w.body) ELSE info
  <2>2. new = InfoOf(FieldsTo(script.sends, Done + 1)) /\ new.max_payload \in -(IntMax + 1) .. IntMax
    BY <1>3, <1>5, <2>1, GoodNews DEF Sends
  <2>3. info' = new
    BY <1>2, <1>3 DEF NewInfo, Sends
  <2> HIDE DEF new
  <2> QED
    BY <1>3, <2>2, <2>3 DEF Sends
<1>8. okayed' = (\E i \in 1 .. UnderWay : handled'[i].type = "PONG")
  <2>1. (\E i \in 1 .. UnderWay : handled'[i].type = "PONG")
            <=> (\E i \in 1 .. Done : handled[i].type = "PONG") \/ handled'[UnderWay].type = "PONG"
    <3>1. 1 .. UnderWay = (1 .. Done) \cup {UnderWay}
      BY <1>3
    <3> QED
      BY <1>6, <3>1
  <2>2. handled'[UnderWay] = m
    BY <1>3, <1>6
  <2> HIDE DEF m
  <2> QED
    BY <1>2, <1>5, <2>1, <2>2, Zenon
<1>9. HandledInv'
  <2>1. /\ script' \in Scripts /\ handled' \in Seq({Sends'[i].msg : i \in DOMAIN Sends'})
        /\ Done' <= Len(Sends') /\ 1 .. Done' \subseteq Good'
        /\ \A i \in 1 .. Done' : handled'[i] = Sends'[i].msg
    <3>1. script' \in Scripts
      BY <1>2, <1>5
    <3>2. handled' \in Seq({Sends'[i].msg : i \in DOMAIN Sends'})
      BY <1>4, <1>6, Zenon
    <3>3. Done' <= Len(Sends') /\ 1 .. Done' \subseteq Good'
      <4>1. UnderWay <= Len(Sends)
        BY <1>3
      <4> QED
        BY <1>3, <1>4, <1>6, <4>1, Zenon
    <3>4. \A i \in 1 .. Done' : handled'[i] = Sends'[i].msg
      BY <1>4, <1>6, Zenon
    <3> QED
      BY <3>1, <3>2, <3>3, <3>4
  <2>2. info' = InfoOf(FieldsTo(Sends', Done')) /\ info'.max_payload \in -(IntMax + 1) .. IntMax
    BY <1>4, <1>6, <1>7
  <2>3. okayed' = (\E i \in 1 .. Done' : handled'[i].type = "PONG")
    BY <1>6, <1>8, Zenon
  <2> QED
    BY <2>1, <2>2, <2>3, Zenon DEF HandledInv
<1>10. StreamInv'
  <2>1. /\ Holds(r, taken) /\ r.end - r.pos = received - taken /\ why = "open"
        /\ r.cap > 2 /\ r.cap \in Nat /\ received <= Len(Stream)
    BY DEF WireInv, StreamInv
  <2>2. n <= r.end - r.pos /\ taken + n <= received
    BY <1>1, <1>3, <2>1
  <2>3. Holds(r', taken + n) /\ r'.pos = r.pos + n /\ r'.end = r.end /\ r'.cap = r.cap
    BY <1>2, <1>3, <2>1, <2>2, AdvanceHolds
  <2>4. r.pos \in Nat /\ r.end \in Nat
    BY <1>3, <2>1, HoldsFacts
  <2>5. r'.end - r'.pos = received' - taken'
    <3>1. received' = received /\ taken' = taken + n
      BY <1>2
    <3>2. r'.pos = r.pos + n /\ r'.end = r.end /\ r.end - r.pos = received - taken
      BY <2>1, <2>3
    <3>3. n \in Nat /\ taken \in Nat /\ received \in Nat
      BY <1>3
    <3> QED
      BY <2>4, <3>1, <3>2, <3>3
  <2>6. Behind(Done)' = taken'
    BY <1>2, <1>3, <1>4, <1>6 DEF Behind
  <2>7. taken' <= received' /\ received' <= Len(Stream') /\ received' \in Nat
    BY <1>2, <1>3, <1>4, <2>1, <2>2
  <2>8. pc' = "process" /\ why' = "open" /\ r'.cap \in Nat /\ r'.cap > 2 /\ Holds(r', taken')
    BY <1>2, <2>1, <2>3
  <2> QED
    BY <2>5, <2>6, <2>7, <2>8 DEF StreamInv
<1>11. ClosedInv'
  <2>1. pc' # "closed"
    BY <1>2
  <2> QED
    BY <2>1, Zenon DEF ClosedInv
<1> QED
  BY <1>7, <1>9, <1>10, <1>11 DEF WireInv

\* A good message leaves the server data readable.
LEMMA GoodNext ==
    ASSUME AllSpeak, WireInv, UnderWay \in Good
    PROVE  NewInfo(Sends[UnderWay].msg) # BadInfo
<1>1. script \in Scripts /\ Done \in Nat /\ UnderWay = Done + 1
  BY StateFacts DEF WireInv, HandledInv
<1>2. Done + 1 \in GoodOnes(script.sends)
  BY <1>1 DEF Good, Sends
<1>3. info = InfoOf(FieldsTo(script.sends, Done)) /\ info.max_payload \in -(IntMax + 1) .. IntMax
  BY DEF WireInv, HandledInv, Sends
<1> DEFINE w == script.sends[Done + 1].msg
           new == IF w.type = "INFO" THEN ParseInfoFields(info, w.body) ELSE info
<1>4. new # BadInfo
  BY <1>1, <1>2, <1>3, GoodNews
<1>5. NewInfo(Sends[UnderWay].msg) = new
  BY <1>1 DEF NewInfo, Sends
<1> QED
  BY <1>4, <1>5

LEMMA BadInv ==
    ASSUME AllSpeak, WireInv, pc = "process",
           NEW v, v = IF r.pos = r.end THEN Failed(Again) ELSE Parse(Bytes), ProcessBad(v)
    PROVE  WireInv'
<1> DEFINE m == Sends[UnderWay].msg
           n == Len(Sends[UnderWay].text)
           reason == IF v.msg.type = "-ERR" THEN "refused" ELSE "bad"
<1>1. /\ r.pos < r.end /\ Close(reason)
      /\ v.rc \in {InvalidHeader, InvalidMsg} \/ (v.rc > 0 /\ Rejects(v.msg))
  BY DEF ProcessBad
<1>2. r.pos \in Nat /\ r.end \in Nat
  <2>1. Holds(r, taken) /\ taken \in Nat
    BY StateFacts DEF WireInv, StreamInv
  <2> QED
    BY <2>1, HoldsFacts
<1>3. r.pos # r.end /\ v = Parse(Bytes)
  BY <1>1, <1>2
<1>4. CASE UnderWay \in Good
  <2>1. received \in Nat /\ Behind(UnderWay) \in Nat /\ n \in Nat
    <3>1. n \in Nat /\ Behind(UnderWay) = taken + n /\ taken \in Nat /\ received \in Nat
      BY <1>4, StateFacts
    <3> QED
      BY <3>1
  <2>2. received >= Behind(UnderWay)
    <3>1. received < Behind(UnderWay) => v = Failed(Again)
      BY <1>3, <1>4, Verdict
    <3>2. v # Failed(Again)
      BY <1>1 DEF Failed, Again, InvalidHeader, InvalidMsg
    <3> QED
      BY <2>1, <3>1, <3>2
  <2>3. v = Formed(n, m)
    BY <1>3, <1>4, <2>2, Verdict
  <2>4. v.rc = n /\ v.msg = m
    BY <2>3 DEF Formed
  <2> HIDE DEF m, n, reason
  <2>5. Rejects(m)
    <3>1. v.rc \notin {InvalidHeader, InvalidMsg}
      BY <2>1, <2>4 DEF InvalidHeader, InvalidMsg
    <3> QED
      BY <1>1, <2>4, <3>1
  <2>6. NewInfo(m) # BadInfo
    BY <1>4, GoodNext DEF m
  <2>7. m.type = "-ERR" /\ ~okayed
    BY <2>5, <2>6 DEF Rejects
  <2>8. Close("refused")
    <3>1. reason = "refused"
      BY <2>4, <2>7 DEF reason
    <3> QED
      BY <1>1, <3>1
  <2> QED
    BY <2>7, <2>8, CloseInv, Zenon DEF m
<1>5. CASE UnderWay \notin Good
  <2>1. \/ Parse(Bytes) = Failed(Parse(Bytes).rc)
        \/ Parse(Bytes).msg.type = "INFO"
    BY <1>3, <1>5, Verdict
  <2>2. v.msg.type # "-ERR"
    <3> HIDE DEF reason
    <3>1. Failed(v.rc).msg.type = "none"
      BY DEF Failed, Word, Msg
    <3> QED
      BY <1>3, <2>1, <3>1
  <2>3. Close("bad")
    BY <1>1, <2>2
  <2> QED
    BY <1>5, <2>3, CloseInv, Zenon
<1> QED
  BY <1>4, <1>5

\* A message that is not complete: the bytes of it that have come stay.
LEMMA PartialInv ==
    ASSUME AllSpeak, WireInv, pc = "process",
           NEW v, v = IF r.pos = r.end THEN Failed(Again) ELSE Parse(Bytes), ProcessPartial(v)
    PROVE  WireInv'
<1>1. /\ UNCHANGED <<script, info, okayed, handled>> /\ taken' = taken /\ received' = received
      /\ pc' = "recv" /\ why' = why /\ r.pos < r.end /\ v.rc = Again
      /\ r' = Compact(r) \/ r' \in Ensure(Compact(r), r.cap - 1, 0)
  BY DEF ProcessPartial
<1>2. /\ HandledInv' /\ Sends' = Sends /\ Stream' = Stream /\ Good' = Good
      /\ UnderWay' = UnderWay /\ Behind(Done)' = Behind(Done) /\ Behind(UnderWay)' = Behind(UnderWay)
  BY <1>1, Kept DEF WireInv
<1>3. /\ Holds(r, taken) /\ r.end - r.pos = received - taken /\ why = "open" /\ taken = Behind(Done)
      /\ r.cap > 2 /\ r.cap \in Nat /\ taken <= received /\ received <= Len(Stream)
  BY DEF WireInv, StreamInv
<1>4. taken \in Nat /\ received \in Nat
  BY StateFacts
<1>5. r.pos \in Nat /\ r.end \in Nat
  BY <1>3, <1>4, HoldsFacts
<1>6. Holds(r', taken) /\ r'.pos = 0 /\ r'.end - r'.pos = r.end - r.pos /\ r'.cap >= r.cap
  <2> DEFINE b == Compact(r)
  <2>1. Holds(b, taken) /\ b.pos = 0 /\ b.end = r.end - r.pos /\ b.cap = r.cap
    BY <1>3, <1>4, CompactHolds
  <2> HIDE DEF b
  <2>2. b.end - b.pos = r.end - r.pos
    BY <1>5, <2>1
  <2>3. CASE r' = b
    BY <1>3, <2>1, <2>2, <2>3
  <2>4. CASE r' \in Ensure(b, r.cap - 1, 0)
    <3>1. r.cap - 1 \in Nat /\ 0 \in Int
      BY <1>3
    <3>2. Holds(r', taken) /\ r'.pos = 0 /\ r'.end - r'.pos = b.end - b.pos /\ r'.cap >= b.cap
      BY <1>4, <2>1, <2>4, <3>1, EnsureHolds
    <3> QED
      BY <2>1, <2>2, <3>2
  <2> QED
    BY <1>1, <2>3, <2>4 DEF b
<1>7. ASSUME UnderWay \in Good PROVE received < Behind(UnderWay)
  <2>1. r.pos # r.end /\ v = Parse(Bytes)
    BY <1>1, <1>5
  <2>2. Len(Sends[UnderWay].text) \in Nat /\ Behind(UnderWay) \in Nat
    BY <1>7, StateFacts
  <2>3. received >= Behind(UnderWay) => v.rc = Len(Sends[UnderWay].text)
    BY <1>7, <2>1, Verdict DEF Formed
  <2>4. ~(received >= Behind(UnderWay))
    BY <1>1, <2>2, <2>3 DEF Again
  <2> QED
    BY <1>4, <2>2, <2>4
<1>8. StreamInv'
  <2>1. UnderWay' \in Good' => received' < Behind(UnderWay)'
    BY <1>1, <1>2, <1>7
  <2>2. taken' = Behind(Done)' /\ received' \in Nat /\ taken' <= received' /\ received' <= Len(Stream')
    BY <1>1, <1>2, <1>3, <1>4
  <2>3. r'.cap \in Nat /\ r'.cap > 2
    <3>1. r'.cap \in Nat
      BY <1>4, <1>6, HoldsFacts
    <3> QED
      BY <1>3, <1>6, <3>1
  <2>4. Holds(r', taken') /\ r'.end - r'.pos = received' - taken' /\ r'.pos = 0
    BY <1>1, <1>3, <1>6
  <2> QED
    BY <1>1, <1>3, <2>1, <2>2, <2>3, <2>4 DEF StreamInv
<1>9. ClosedInv'
  <2>1. pc' # "closed"
    BY <1>1
  <2> QED
    BY <2>1, Zenon DEF ClosedInv
<1> QED
  BY <1>2, <1>8, <1>9 DEF WireInv

LEMMA NextInv == ASSUME AllSpeak, WireInv, [Next]_vars PROVE WireInv'
<1>1. CASE Recv
  BY <1>1, RecvInv
<1>2. CASE Process
  <2> DEFINE v == IF r.pos = r.end THEN Failed(Again) ELSE Parse(Bytes)
  <2>1. pc = "process" /\ (ProcessEnd \/ ProcessMessage(v) \/ ProcessBad(v) \/ ProcessPartial(v) \/ ProcessTooLong(v))
    BY <1>2 DEF Process
  <2>2. CASE ProcessEnd
    BY <2>1, <2>2, EndInv
  <2>3. CASE ProcessMessage(v)
    BY <2>1, <2>3, MessageInv
  <2>4. CASE ProcessBad(v)
    BY <2>1, <2>4, BadInv
  <2>5. CASE ProcessPartial(v)
    BY <2>1, <2>5, PartialInv
  <2>6. CASE ProcessTooLong(v)
    BY <2>6, CloseInv, Zenon DEF ProcessTooLong
  <2> QED
    BY <2>1, <2>2, <2>3, <2>4, <2>5, <2>6
<1>3. CASE Disconnect
  BY <1>3, CloseInv, Zenon DEF Disconnect
<1>4. CASE Reconnect
  BY <1>4, ReconnectInv
<1>5. CASE UNCHANGED vars
  <2>1. /\ UNCHANGED <<script, info, okayed, handled>> /\ r' = r /\ received' = received
        /\ taken' = taken /\ pc' = pc /\ why' = why
    BY <1>5 DEF vars
  <2>2. /\ HandledInv' /\ Sends' = Sends /\ Stream' = Stream /\ Good' = Good
        /\ UnderWay' = UnderWay /\ Behind(Done)' = Behind(Done) /\ Behind(UnderWay)' = Behind(UnderWay)
    BY <2>1, Kept DEF WireInv
  <2>3. StreamInv'
    BY <2>1, <2>2, Zenon DEF WireInv, StreamInv
  <2>4. ClosedInv'
    BY <2>1, <2>2, Zenon DEF WireInv, ClosedInv
  <2> QED
    BY <2>2, <2>3, <2>4 DEF WireInv
<1> QED
  BY <1>1, <1>2, <1>3, <1>4, <1>5 DEF Next

LEMMA WireInvariant == AllSpeak => (Spec => []WireInv)
<1> SUFFICES ASSUME AllSpeak PROVE Spec => []WireInv
  OBVIOUS
<1>1. Init => WireInv
  BY InitInv
<1>2. WireInv /\ [Next]_vars => WireInv'
  BY NextInv
<1> QED
  BY <1>1, <1>2, PTL DEF Spec

-----------------------------------------------------------------------------
(* What it is for *)

\* What the handlers are given, however recv() cut the stream and whatever lay
\* in the buffer before and behind, are the messages the server sent, in order,
\* and the server data are what the last values of their INFOs say; provided
\* that the parsers read each text of the script on its own as it was meant
\* (ngx_nats_parse, _nats_process_buffer_msg).
THEOREM HandledRightCorrect == AllSpeak => (Spec => []HandledRight)
<1>1. WireInv => HandledRight
  <2> SUFFICES ASSUME WireInv PROVE HandledRight
    OBVIOUS
  <2>1. /\ handled \in Seq({Sends[i].msg : i \in DOMAIN Sends}) /\ 1 .. Done \subseteq Good
        /\ \A i \in 1 .. Done : handled[i] = Sends[i].msg
        /\ info = InfoOf(FieldsTo(Sends, Done))
    BY DEF WireInv, HandledInv
  <2>2. DOMAIN handled = 1 .. Done
    BY <2>1 DEF Done
  <2> QED
    BY <2>1, <2>2, Zenon DEF HandledRight, Done
<1> QED
  BY <1>1, WireInvariant, PTL

\* Only a message that is none closes the connection as invalid, wherever
\* recv() cut the stream, and only an -ERR that comes before any PONG as a
\* refusal (the NGX_NATS_PROTO_INVALID_... verdicts and the -ERR case of
\* _nats_process_buffer_msg).
THEOREM ClosedForCauseCorrect == AllSpeak => (Spec => []ClosedForCause)
<1>1. WireInv => ClosedForCause
  <2> SUFFICES ASSUME WireInv PROVE ClosedForCause
    OBVIOUS
  <2>1. /\ handled \in Seq({Sends[i].msg : i \in DOMAIN Sends})
        /\ okayed = (\E i \in 1 .. Done : handled[i].type = "PONG")
    BY DEF WireInv, HandledInv
  <2>2. DOMAIN handled = 1 .. Done
    BY <2>1 DEF Done
  <2>3. pc \in {"recv", "process", "closed"} /\ (pc # "closed" => why = "open")
    BY DEF WireInv, StreamInv
  <2>4. why = "bad" => UnderWay \notin Good
    BY <2>3, Zenon DEF WireInv, ClosedInv
  <2>5. why = "refused" => Sends[UnderWay].msg.type = "-ERR" /\ ~okayed
    BY <2>3, Zenon DEF WireInv, ClosedInv
  <2> QED
    BY <2>1, <2>2, <2>4, <2>5, Zenon DEF ClosedForCause
<1> QED
  BY <1>1, WireInvariant, PTL

\* No complete message lies in the buffer while the worker waits for the next
\* bytes (the loop of ngx_nats_process_buffer ends only on
\* NGX_NATS_PROTO_AGAIN).
THEOREM NothingLeftCorrect == AllSpeak => (Spec => []NothingLeft)
<1>1. WireInv => NothingLeft
  <2> SUFFICES ASSUME WireInv, pc = "recv", NEW i \in Good, received >= Behind(i) PROVE i <= Done
    BY Zenon DEF NothingLeft, Behind, Done
  <2>1. /\ Done \in Nat /\ UnderWay = Done + 1 /\ received \in Nat /\ Len(Sends) \in Nat
        /\ i \in 1 .. Len(Sends) /\ 1 .. i \subseteq Good
    BY StateFacts
  <2> SUFFICES ASSUME i > Done PROVE FALSE
    BY <2>1
  <2>2. UnderWay \in 1 .. i /\ UnderWay \in 0 .. i /\ i \in Nat
    BY <2>1
  <2>3. received < Behind(UnderWay)
    BY <2>1, <2>2 DEF WireInv, StreamInv
  <2>4. AreTexts(Sends, i)
    <3>1. AreTexts(Sends, Len(Sends))
      BY ScriptFacts DEF WireInv, HandledInv, Sends
    <3> QED
      BY <2>1, <3>1 DEF AreTexts
  <2>5. Starts(TextTo(Sends, UnderWay), TextTo(Sends, i))
    BY <2>2, <2>4, TextStarts
  <2>6. Behind(UnderWay) <= Behind(i) /\ Behind(UnderWay) \in Nat /\ Behind(i) \in Nat
    BY <2>5 DEF Starts, Behind
  <2> QED
    BY <2>1, <2>3, <2>6
<1> QED
  BY <1>1, WireInvariant, PTL

-----------------------------------------------------------------------------
(* What happens here is what NatsReadBuf says. *)

\* The buffers there are the buffers here.
LEMMA SameBuf ==
    /\ RB!Create = Create
    /\ \A b : RB!Reset(b) = Reset(b) /\ RB!Compact(b) = Compact(b)
    /\ \A b, n : RB!Advance(b, n) = Advance(b, n)
    /\ \A b, i, n : RB!Write(b, i, n) = Write(b, i, n)
    /\ \A b, n, c : RB!Ensure(b, n, c) = Ensure(b, n, c)
<1>1. RB!Create = Create
  BY DEF RB!Create, Create, RB!Blank, Blank, RB!Junk, Junk
<1>2. \A b : RB!Reset(b) = Reset(b)
  BY DEF RB!Reset, Reset, RB!Blank, Blank, RB!Junk, Junk
<1>3. \A b, n : RB!Moved(b, n) = Moved(b, n)
  BY DEF RB!Moved, Moved, RB!Junk, Junk
<1>4. \A b : RB!Move(b) = Move(b)
  BY <1>3 DEF RB!Move, Move
<1>5. \A b : RB!Compact(b) = Compact(b)
  BY <1>2, <1>4, Zenon DEF RB!Compact, Compact
<1>6. \A b, n : RB!Advance(b, n) = Advance(b, n)
  BY DEF RB!Advance, Advance
<1>7. \A b, i, n : RB!Write(b, i, n) = Write(b, i, n)
  BY DEF RB!Write, Write
<1>8. \A b, n : RB!Fits(b, n) = Fits(b, n) /\ RB!Realloc(b, n) = Realloc(b, n)
  BY <1>3, Zenon DEF RB!Fits, Fits, RB!Realloc, Realloc
<1>9. \A b, n, c : RB!MakeRoom(b, n, c) = MakeRoom(b, n, c)
  <2> SUFFICES ASSUME NEW b, NEW n, NEW c PROVE RB!MakeRoom(b, n, c) = MakeRoom(b, n, c)
    OBVIOUS
  <2> DEFINE e == IF b.pos = b.end THEN Reset(b) ELSE b
  <2>1. (IF b.pos = b.end THEN RB!Reset(b) ELSE b) = e
    BY <1>2
  <2>2. RB!Fits(e, n) = Fits(e, n) /\ RB!Move(e) = Move(e)
    BY <1>4, <1>8, Zenon
  <2>3. MakeRoom(b, n, c) =
            IF ~Fits(e, n) /\ c # 0 /\ e.pos > 0 /\ n <= e.cap - e.end + e.pos THEN Move(e) ELSE e
    BY DEF MakeRoom
  <2>4. RB!MakeRoom(b, n, c) =
            IF ~RB!Fits(e, n) /\ c # 0 /\ e.pos > 0 /\ n <= e.cap - e.end + e.pos THEN RB!Move(e) ELSE e
    BY <2>1, Zenon DEF RB!MakeRoom
  <2> HIDE DEF e
  <2> QED
    BY <2>2, <2>3, <2>4, Zenon
<1>10. \A b, n, c : RB!Ensure(b, n, c) = Ensure(b, n, c)
  <2>1. \A k, n : RB!Doubled(k, n) = Doubled(k, n)
    BY Zenon DEF RB!Doubled, Doubled
  <2> SUFFICES ASSUME NEW b, NEW n, NEW c PROVE RB!Ensure(b, n, c) = Ensure(b, n, c)
    OBVIOUS
  <2> DEFINE e == MakeRoom(b, n, c)
             D == Doubled(e.cap, e.end - e.pos + n)
  <2>2. RB!MakeRoom(b, n, c) = e /\ RB!Fits(e, n) = Fits(e, n) /\ RB!Doubled(e.cap, e.end - e.pos + n) = D
    BY <1>8, <1>9, <2>1
  <2>3. {RB!Realloc(e, ns) : ns \in D} = {Realloc(e, ns) : ns \in D}
    <3> HIDE DEF e, D
    <3> QED
      BY <1>8
  <2>4. RB!Ensure(b, n, c) = IF Fits(e, n) THEN {e} ELSE IF e.cap >= MaxSize THEN {}
                             ELSE {RB!Realloc(e, ns) : ns \in D}
    <3> HIDE DEF e, D
    <3> QED
      BY <2>2, Zenon DEF RB!Ensure
  <2>5. Ensure(b, n, c) = IF Fits(e, n) THEN {e} ELSE IF e.cap >= MaxSize THEN {}
                          ELSE {Realloc(e, ns) : ns \in D}
    BY Zenon DEF Ensure
  <2> QED
    BY <2>3, <2>4, <2>5, Zenon
<1> QED
  BY <1>1, <1>2, <1>5, <1>6, <1>7, <1>10

\* The length that the message under way has there
LenThere == IF UnderWay \in Good THEN Len(Sends[UnderWay].text) ELSE MaxStream

LEMMA LenRange ==
    ASSUME AllSpeak, NEW s \in Scripts, NEW i
    PROVE  (IF i \in GoodOnes(s.sends) THEN Len(s.sends[i].text) ELSE MaxStream) \in 1 .. MaxStream
<1>1. /\ Len(s.sends) \in Nat /\ AreTexts(s.sends, Len(s.sends))
      /\ Len(TextTo(s.sends, Len(s.sends))) \in Nat /\ Len(TextTo(s.sends, Len(s.sends))) < MaxStream /\ MaxStream \in Nat
  BY ScriptFacts
<1>2. CASE i \in GoodOnes(s.sends)
  <2>1. i \in 1 .. Len(s.sends)
    BY <1>2, ScriptFacts
  <2>2. Len(s.sends[i].text) \in Nat /\ Len(s.sends[i].text) >= 1
    BY <1>2, GoodFacts
  <2>3. Placed(s.sends, Len(s.sends), i)
    BY <1>1, <2>1, TextAt
  <2>4. Len(s.sends[i].text) <= Len(TextTo(s.sends, Len(s.sends)))
    <3> DEFINE a == Len(TextTo(s.sends, i - 1))
               b == Len(TextTo(s.sends, i))
               c == Len(TextTo(s.sends, Len(s.sends)))
               n == Len(s.sends[i].text)
    <3>1. a \in Nat /\ b = a + n /\ b <= c /\ n \in Nat /\ c \in Nat
      BY <2>3, Zenon DEF Placed
    <3> HIDE DEF a, b, c, n
    <3>2. n <= c
      BY <3>1
    <3> QED
      BY <3>2 DEF n, c
  <2> QED
    BY <1>1, <1>2, <2>2, <2>4
<1>3. CASE i \notin GoodOnes(s.sends)
  BY <1>1, <1>3
<1> QED
  BY <1>2, <1>3

\* It has come as a whole when all its bytes have; a bad one never does.
LEMMA LenFacts ==
    ASSUME AllSpeak, WireInv
    PROVE  /\ LenThere \in 1 .. MaxStream
           /\ UnderWay \notin Good => received - taken < LenThere
<1>1. /\ Len(Stream) \in Nat /\ Len(Stream) < MaxStream /\ MaxStream \in Nat /\ taken \in Nat /\ received \in Nat
      /\ script \in Scripts /\ received <= Len(Stream)
  BY StateFacts DEF WireInv, HandledInv, StreamInv
<1>2. LenThere \in 1 .. MaxStream
  BY <1>1, LenRange DEF LenThere, Good, Sends
<1>3. UnderWay \notin Good => LenThere = MaxStream
  BY DEF LenThere
<1> QED
  BY <1>1, <1>2, <1>3

\* Steps that handle no message leave its length alone.
LEMMA LenKept ==
    ASSUME HandledInv, UNCHANGED <<script, info, okayed, handled>>
    PROVE  LenThere' = LenThere /\ info' = info
<1>1. Sends' = Sends /\ Good' = Good /\ UnderWay' = UnderWay
  BY Kept
<1> QED
  BY <1>1 DEF LenThere

LEMMA InitThere == ASSUME AllSpeak, Init PROVE RB!Init
<1>1. LenThere \in 1 .. MaxStream
  BY InitInv, LenFacts
<1>2. /\ r = Create /\ received = 0 /\ taken = 0 /\ info.max_payload = 0 /\ pc = "recv"
  BY StartFacts DEF Init
<1> QED
  BY <1>1, <1>2, SameBuf, Zenon DEF RB!Init, RB!Lens, LenThere

LEMMA RecvThere == ASSUME WireInv, Recv PROVE RB!Recv
<1>1. PICK n \in 1 .. Room : n <= Left /\ received' = received + n /\ r' = Write(r, received, n)
  BY DEF Recv
<1>2. UNCHANGED <<script, info, okayed, handled>> /\ taken' = taken /\ pc = "recv" /\ pc' = "process"
  BY DEF Recv
<1>3. LenThere' = LenThere /\ info'.max_payload = info.max_payload
  BY <1>2, LenKept DEF WireInv
<1>4. received + n <= MaxStream
  <2>1. Len(Stream) \in Nat /\ Len(Stream) < MaxStream /\ MaxStream \in Nat /\ received \in Nat
    BY StateFacts
  <2>2. n \in Int /\ n <= Len(Stream) - received
    BY <1>1 DEF Left
  <2> QED
    BY <2>1, <2>2
<1>5. n \in 1 .. RB!Room
  BY <1>1 DEF Room, RB!Room
<1> QED
  BY <1>1, <1>2, <1>3, <1>4, <1>5, SameBuf, Zenon DEF RB!Recv, LenThere

LEMMA EndThere == ASSUME WireInv, pc = "process", ProcessEnd PROVE RB!ProcessEnd
<1>1. /\ UNCHANGED <<script, info, okayed, handled>> /\ taken' = taken /\ received' = received
      /\ pc' = "recv" /\ r' = Compact(r) /\ r.pos = r.end
  BY DEF ProcessEnd
<1>2. LenThere' = LenThere /\ info'.max_payload = info.max_payload
  BY <1>1, LenKept DEF WireInv
<1> QED
  BY <1>1, <1>2, SameBuf, Zenon DEF RB!ProcessEnd, LenThere

LEMMA MessageThere ==
    ASSUME AllSpeak, WireInv, pc = "process",
           NEW v, v = IF r.pos = r.end THEN Failed(Again) ELSE Parse(Bytes), ProcessMessage(v)
    PROVE  RB!ProcessMessage
<1> DEFINE n == Len(Sends[UnderWay].text)
<1>1. UnderWay \in Good /\ received >= Behind(UnderWay) /\ v.rc = n
  BY MessageIs DEF Formed
<1>2. /\ r' = Advance(r, n) /\ taken' = taken + n /\ received' = received /\ pc' = pc
  BY <1>1 DEF ProcessMessage
<1>3. LenThere = n
  BY <1>1 DEF LenThere
<1>4. LenThere' \in 1 .. MaxStream /\ info'.max_payload \in -(IntMax + 1) .. IntMax
  <2>1. WireInv' /\ info'.max_payload \in -(IntMax + 1) .. IntMax
    BY MessageInv
  <2>2. script' \in Scripts
    BY <2>1 DEF WireInv, HandledInv
  <2>3. LenThere' \in 1 .. MaxStream
    BY <2>2, LenRange DEF LenThere, Good, Sends
  <2> QED
    BY <2>1, <2>3
<1>5. r.end - r.pos >= LenThere
  <2>1. n \in Nat /\ Behind(UnderWay) = taken + n /\ taken \in Nat /\ received \in Nat
    BY <1>1, StateFacts
  <2>2. r.end - r.pos = received - taken
    BY DEF WireInv, StreamInv
  <2> HIDE DEF n
  <2> QED
    BY <1>1, <1>3, <2>1, <2>2
<1> HIDE DEF n
<1>6. r' = Advance(r, LenThere) /\ taken' = taken + LenThere
  BY <1>2, <1>3
<1> QED
  BY <1>2, <1>4, <1>5, <1>6, SameBuf, Zenon DEF RB!ProcessMessage, RB!Lens, LenThere

\* A connection given up, for whatever reason
LEMMA CloseThere ==
    ASSUME WireInv, pc # "closed", NEW reason, Close(reason)
    PROVE  RB!Disconnect
<1>1. /\ UNCHANGED <<script, info, okayed, handled>> /\ received' = received /\ taken' = taken
      /\ r' = Reset(r) /\ pc' = "closed"
  BY DEF Close
<1>2. LenThere' = LenThere /\ info'.max_payload = info.max_payload
  BY <1>1, LenKept DEF WireInv
<1> QED
  BY <1>1, <1>2, SameBuf, Zenon DEF RB!Disconnect, LenThere

\* A message that the parser has not got whole is not there as a whole.
LEMMA PartialFacts ==
    ASSUME AllSpeak, WireInv, pc = "process", r.pos < r.end,
           NEW v, v = IF r.pos = r.end THEN Failed(Again) ELSE Parse(Bytes), v.rc = Again
    PROVE  r.end - r.pos < LenThere
<1>1. r.end - r.pos = received - taken /\ Holds(r, taken)
  BY DEF WireInv, StreamInv
<1>2. CASE UnderWay \notin Good
  BY <1>1, <1>2, LenFacts
<1>3. CASE UnderWay \in Good
  <2>1. /\ Len(Sends[UnderWay].text) \in Nat /\ Behind(UnderWay) = taken + Len(Sends[UnderWay].text)
        /\ received \in Nat /\ taken \in Nat
    BY <1>3, StateFacts
  <2>2. r.pos \in Nat /\ r.end \in Nat
    BY <1>1, <2>1, HoldsFacts
  <2>3. v = Parse(Bytes) /\ r.pos # r.end
    BY <2>2
  <2>4. received >= Behind(UnderWay) => v.rc = Len(Sends[UnderWay].text)
    BY <1>3, <2>3, Verdict DEF Formed
  <2>5. received < Behind(UnderWay)
    BY <2>1, <2>4 DEF Again
  <2>6. LenThere = Len(Sends[UnderWay].text)
    BY <1>3 DEF LenThere
  <2> QED
    BY <1>1, <2>1, <2>5, <2>6
<1> QED
  BY <1>2, <1>3

LEMMA PartialThere ==
    ASSUME AllSpeak, WireInv, pc = "process",
           NEW v, v = IF r.pos = r.end THEN Failed(Again) ELSE Parse(Bytes), ProcessPartial(v)
    PROVE  RB!ProcessPartial
<1>1. /\ UNCHANGED <<script, info, okayed, handled>> /\ taken' = taken /\ received' = received
      /\ pc' = "recv" /\ r.pos < r.end /\ v.rc = Again
  BY DEF ProcessPartial
<1>2. IF Full(Compact(r)) THEN ~Limit(Compact(r)) /\ r' \in Ensure(Compact(r), r.cap - 1, 0) ELSE r' = Compact(r)
  BY DEF ProcessPartial
<1>3. r.end - r.pos < LenThere
  BY <1>1, PartialFacts
<1>4. LenThere' = LenThere /\ info'.max_payload = info.max_payload
  BY <1>1, LenKept DEF WireInv
<1>5. RB!Partial
  BY <1>1, <1>3 DEF RB!Partial, LenThere
<1>6. \A b : RB!Full(b) = Full(b) /\ RB!Limit(b) = Limit(b)
  BY DEF RB!Full, Full, RB!Limit, Limit
<1> QED
  BY <1>1, <1>2, <1>4, <1>5, <1>6, SameBuf, Zenon DEF RB!ProcessPartial, LenThere

LEMMA TooLongThere ==
    ASSUME AllSpeak, WireInv, pc = "process",
           NEW v, v = IF r.pos = r.end THEN Failed(Again) ELSE Parse(Bytes), ProcessTooLong(v)
    PROVE  RB!ProcessTooLong
<1>1. /\ UNCHANGED <<script, info, okayed, handled>> /\ taken' = taken /\ received' = received
      /\ r' = Reset(r) /\ pc' = "closed" /\ r.pos < r.end /\ v.rc = Again
      /\ Full(Compact(r)) /\ Limit(Compact(r))
  BY DEF ProcessTooLong, Close
<1>2. r.end - r.pos < LenThere
  BY <1>1, PartialFacts
<1>3. LenThere' = LenThere /\ info'.max_payload = info.max_payload
  BY <1>1, LenKept DEF WireInv
<1>4. RB!Partial
  BY <1>1, <1>2 DEF RB!Partial, LenThere
<1>5. RB!Full(Compact(r)) /\ RB!Limit(Compact(r))
  BY <1>1 DEF RB!Full, Full, RB!Limit, Limit
<1>6. r' = Reset(Compact(r))
  <2>1. Compact(r).cap = r.cap
    BY DEF Compact, Reset, Move
  <2> QED
    BY <1>1, <2>1 DEF Reset
<1> QED
  BY <1>1, <1>3, <1>4, <1>5, <1>6, SameBuf, Zenon DEF RB!ProcessTooLong, LenThere

LEMMA ReconnectThere == ASSUME AllSpeak, WireInv, Reconnect PROVE RB!Reconnect
<1>1. /\ pc = "closed" /\ r' = Reset(r) /\ received' = 0 /\ taken' = 0 /\ info' = NoInfo /\ pc' = "recv"
  BY DEF Reconnect
<1>2. LenThere' \in 1 .. MaxStream
  <2>1. WireInv'
    BY ReconnectInv
  <2>2. script' \in Scripts
    BY <2>1 DEF WireInv, HandledInv
  <2>3. LenThere' \in 1 .. MaxStream
    BY <2>2, LenRange DEF LenThere, Good, Sends
  <2> QED
    BY <2>3
<1>3. info'.max_payload = 0
  BY <1>1, StartFacts
<1> QED
  BY <1>1, <1>2, <1>3, SameBuf, Zenon DEF RB!Reconnect, RB!Lens, LenThere

LEMMA NextThere == ASSUME AllSpeak, WireInv, [Next]_vars PROVE [RB!Next]_(RB!vars)
<1>1. CASE Recv
  BY <1>1, RecvThere DEF RB!Next
<1>2. CASE Process
  <2> DEFINE v == IF r.pos = r.end THEN Failed(Again) ELSE Parse(Bytes)
  <2>1. pc = "process" /\ (ProcessEnd \/ ProcessMessage(v) \/ ProcessBad(v) \/ ProcessPartial(v) \/ ProcessTooLong(v))
    BY <1>2 DEF Process
  <2>2. CASE ProcessEnd
    BY <2>1, <2>2, EndThere DEF RB!Next, RB!Process
  <2>3. CASE ProcessMessage(v)
    BY <2>1, <2>3, MessageThere DEF RB!Next, RB!Process
  <2>4. CASE ProcessBad(v)
    <3>1. PICK reason \in {"refused", "bad"} : Close(reason)
      BY <2>4, Zenon DEF ProcessBad
    <3> HIDE DEF v
    <3>2. RB!Disconnect
      BY <2>1, <3>1, CloseThere
    <3> QED
      BY <3>2 DEF RB!Next
  <2>5. CASE ProcessPartial(v)
    BY <2>1, <2>5, PartialThere DEF RB!Next, RB!Process
  <2>6. CASE ProcessTooLong(v)
    BY <2>1, <2>6, TooLongThere DEF RB!Next, RB!Process
  <2> QED
    BY <2>1, <2>2, <2>3, <2>4, <2>5, <2>6
<1>3. CASE Disconnect
  <2>1. RB!Disconnect
    BY <1>3, CloseThere DEF Disconnect
  <2> QED
    BY <2>1 DEF RB!Next
<1>4. CASE Reconnect
  BY <1>4, ReconnectThere DEF RB!Next
<1>5. CASE UNCHANGED vars
  <2>1. /\ UNCHANGED <<script, info, okayed, handled>> /\ r' = r /\ received' = received
        /\ taken' = taken /\ pc' = pc
    BY <1>5 DEF vars
  <2>2. LenThere' = LenThere /\ info'.max_payload = info.max_payload
    BY <2>1, LenKept DEF WireInv
  <2> QED
    BY <2>1, <2>2, Zenon DEF RB!vars, LenThere
<1> QED
  BY <1>1, <1>2, <1>3, <1>4, <1>5 DEF Next

\* The parser's verdict may be taken for what NatsReadBuf takes it for: a
\* message is complete once as many bytes as it has are there, whatever they
\* are and wherever recv() cut them (ngx_nats_parse in
\* ngx_nats_process_buffer).
THEOREM WireImplementsReadBuf == AllSpeak => (Spec => ImplementsReadBuf)
<1> SUFFICES ASSUME AllSpeak PROVE Spec => ImplementsReadBuf
  OBVIOUS
<1>1. Init => RB!Init
  BY InitThere
<1>2. WireInv /\ [Next]_vars => [RB!Next]_(RB!vars)
  BY NextThere
<1>3. Spec => []WireInv
  BY WireInvariant
<1> QED
  BY <1>1, <1>2, <1>3, PTL DEF Spec, ImplementsReadBuf, RB!Spec

=============================================================================
