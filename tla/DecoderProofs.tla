---------------------------- MODULE DecoderProofs ----------------------------
(***************************************************************************)
(* A decoder that is in step decodes every message once and in order, and  *)
(* never leaves a complete one waiting, for every length of a prefix, every*)
(* set of bodies and every way to cut the stream into pieces.              *)
(*                                                                         *)
(* Start(i) is a sum that a recursive function computes; that the function *)
(* exists, and grows, is shown by induction over Nat as a set.             *)
(***************************************************************************)
EXTENDS Decoder, NaturalLemmas

-----------------------------------------------------------------------------
(***************************************************************************)
(* Where the messages begin.                                               *)
(***************************************************************************)

\* The function that Start applies, for the messages m.
Sums(m) ==
  CHOOSE s : s = [j \in 1 .. MaxMsgs + 1 |->
                    IF j = 1 THEN 0 ELSE s[j - 1] + Prefix + m[j - 1].len]

LEMMA StartIsSum ==
  ASSUME NEW i
  PROVE  Start(i) = Sums(msgs)[i] /\ Start(i)' = Sums(msgs')[i]
BY DEF Start, Sums

LEMMA SumsExist ==
  ASSUME NEW m
  PROVE  Sums(m) = [j \in 1 .. MaxMsgs + 1 |->
                      IF j = 1 THEN 0 ELSE Sums(m)[j - 1] + Prefix + m[j - 1].len]
<1> DEFINE E(f, j) == IF j = 1 THEN 0 ELSE f[j - 1] + Prefix + m[j - 1].len
           Sum(f, k) == f = [j \in 1 .. k + 1 |-> E(f, j)]
           S == {k \in Nat : \E f : Sum(f, k)}
<1>1. 0 \in S
  <2> DEFINE f == [j \in 1 .. 1 |-> 0]
  <2>1. Sum(f, 0)
    OBVIOUS
  <2> QED
    BY <2>1
<1>2. ASSUME NEW k \in S PROVE k + 1 \in S
  <2>1. k \in Nat
    OBVIOUS
  <2>2. PICK f : Sum(f, k)
    OBVIOUS
  <2> DEFINE g == [j \in 1 .. (k + 1) + 1 |-> IF j = k + 2 THEN E(f, j) ELSE f[j]]
  <2>3. ASSUME NEW j \in 1 .. (k + 1) + 1 PROVE g[j] = E(g, j)
    <3>1. CASE j = 1
      <4>1. 1 \in 1 .. k + 1 /\ 1 # k + 2
        BY <2>1
      <4>2. f[1] = E(f, 1)
        BY <2>2, <4>1
      <4> QED
        BY <2>1, <3>1, <4>1, <4>2
    <3>2. CASE j # 1
      <4>1. j - 1 \in 1 .. k + 1 /\ j - 1 # k + 2 /\ j - 1 \in 1 .. (k + 1) + 1
        BY <2>1, <3>2
      <4>2. g[j - 1] = f[j - 1]
        BY <4>1
      <4>3. g[j] = E(f, j)
        <5>1. CASE j = k + 2
          BY <5>1
        <5>2. CASE j # k + 2
          <6>1. j \in 1 .. k + 1
            BY <2>1, <5>2
          <6>2. f[j] = E(f, j)
            BY <2>2, <6>1
          <6> QED
            BY <5>2, <6>2
        <5> QED
          BY <5>1, <5>2
      <4> QED
        BY <3>2, <4>2, <4>3
    <3> QED
      BY <3>1, <3>2
  <2>4. Sum(g, k + 1)
    <3> DEFINE D == 1 .. (k + 1) + 1
    <3>1. g = [j \in D |-> g[j]]
      OBVIOUS
    <3>2. \A j \in D : g[j] = E(g, j)
      BY <2>3
    <3> HIDE DEF g, E, D
    <3>3. g = [j \in D |-> E(g, j)]
      BY <3>1, <3>2
    <3> QED
      BY <3>3 DEF D
  <2> HIDE DEF g, Sum
  <2> QED
    BY <2>1, <2>4
<1>3. MaxMsgs \in S
  <2>1. S \subseteq Nat
    OBVIOUS
  <2> HIDE DEF S
  <2>2. S = Nat
    BY <1>1, <1>2, <2>1, Induction
  <2> QED
    BY <2>2, BoundAssumption
<1>4. \E f : f = [j \in 1 .. MaxMsgs + 1 |->
                    IF j = 1 THEN 0 ELSE f[j - 1] + Prefix + m[j - 1].len]
  BY <1>3
<1> QED
  BY <1>4, Zenon DEF Sums

LEMMA StreamIs ==
  ASSUME NEW m \in Streams
  PROVE  /\ Len(m) \in 0 .. MaxMsgs /\ DOMAIN m = 1 .. Len(m)
         /\ \A i \in 1 .. Len(m) :
              m[i].len \in BodyLen /\ m[i].len \in Nat /\ m[i].len > Prefix
<1>1. PICK k \in 0 .. MaxMsgs : m \in [1 .. k -> Message]
  BY DEF Streams
<1>2. k \in Nat
  BY BoundAssumption
<1>3. m \in Seq(Message) /\ Len(m) = k /\ DOMAIN m = 1 .. k
  BY <1>1, <1>2
<1> QED
  BY <1>1, <1>3, BodyLenAssumption DEF Message

\* Each message begins a length and a body behind the one before.
LEMMA SumsGrow ==
  ASSUME NEW m \in Streams
  PROVE  /\ Sums(m)[1] = 0
         /\ \A i \in 1 .. Len(m) + 1 : Sums(m)[i] \in Nat
         /\ \A i \in 1 .. Len(m) : Sums(m)[i + 1] = Sums(m)[i] + Prefix + m[i].len
         /\ \A i, j \in 1 .. Len(m) + 1 : i < j => Sums(m)[i] + Prefix < Sums(m)[j]
<1> DEFINE s == Sums(m)
           n == Len(m)
<1>1. /\ n \in Nat /\ n <= MaxMsgs /\ MaxMsgs \in Nat /\ Prefix \in Nat \ {0}
      /\ \A i \in 1 .. n : m[i].len \in Nat /\ m[i].len > Prefix
  BY StreamIs, BoundAssumption, PrefixAssumption
<1>2. \A j \in 1 .. MaxMsgs + 1 : s[j] = IF j = 1 THEN 0 ELSE s[j - 1] + Prefix + m[j - 1].len
  <2> DEFINE D == 1 .. MaxMsgs + 1
             e(f, j) == IF j = 1 THEN 0 ELSE f[j - 1] + Prefix + m[j - 1].len
  <2>1. s = [j \in D |-> e(s, j)]
    BY SumsExist
  <2> HIDE DEF s, D, e
  <2>2. \A j \in D : s[j] = e(s, j)
    BY <2>1
  <2> QED
    BY <2>2 DEF D, e
<1> HIDE DEF s, n
<1>3. s[1] = 0
  BY <1>1, <1>2
<1>4. ASSUME NEW i \in 1 .. n PROVE s[i + 1] = s[i] + Prefix + m[i].len
  <2>1. i + 1 \in 1 .. MaxMsgs + 1 /\ i + 1 # 1 /\ (i + 1) - 1 = i
    BY <1>1
  <2> QED
    BY <1>2, <2>1
<1> DEFINE S == {k \in Nat : k <= n => s[k + 1] \in Nat}
<1>5. S = Nat
  <2>1. 0 \in S
    BY <1>3
  <2>2. ASSUME NEW k \in S PROVE k + 1 \in S
    <3>1. CASE k + 1 <= n
      <4>1. k + 1 \in 1 .. n /\ k \in Nat /\ k <= n
        BY <1>1, <3>1
      <4> QED
        BY <1>1, <1>4, <4>1
    <3>2. CASE ~(k + 1 <= n)
      BY <3>2
    <3> QED
      BY <3>1, <3>2
  <2>3. S \subseteq Nat
    OBVIOUS
  <2> HIDE DEF S
  <2> QED
    BY <2>1, <2>2, <2>3, Induction
<1> HIDE DEF S
<1>6. \A i \in 1 .. n + 1 : s[i] \in Nat
  <2> SUFFICES ASSUME NEW i \in 1 .. n + 1 PROVE s[i] \in Nat
    OBVIOUS
  <2>1. i - 1 \in S /\ i - 1 <= n /\ (i - 1) + 1 = i
    BY <1>1, <1>5
  <2> QED
    BY <2>1 DEF S
<1>7. ASSUME NEW i \in 1 .. n PROVE s[i] + Prefix < s[i + 1]
  BY <1>1, <1>4, <1>6
<1> DEFINE T == {k \in Nat : \A i \in 1 .. n + 1 : i <= k /\ k <= n => s[i] + Prefix < s[k + 1]}
<1>8. T = Nat
  <2>1. 0 \in T
    BY <1>1
  <2>2. ASSUME NEW k \in T PROVE k + 1 \in T
    <3> SUFFICES ASSUME NEW i \in 1 .. n + 1, i <= k + 1, k + 1 <= n
                 PROVE  s[i] + Prefix < s[(k + 1) + 1]
      OBVIOUS
    <3>1. k \in Nat /\ k + 1 \in 1 .. n /\ k + 1 \in 1 .. n + 1
      BY <1>1
    <3>2. s[k + 1] + Prefix < s[(k + 1) + 1]
      BY <1>7, <3>1
    <3>3. i # k + 1 => s[i] + Prefix < s[k + 1]
      <4>1. i # k + 1 => i <= k
        BY <3>1
      <4>2. k <= n
        BY <1>1, <3>1
      <4> QED
        BY <4>1, <4>2
    <3>4. s[i] \in Nat /\ s[k + 1] \in Nat /\ s[(k + 1) + 1] \in Nat
      BY <1>1, <1>6, <3>1
    <3> QED
      BY <1>1, <3>2, <3>3, <3>4
  <2>3. T \subseteq Nat
    OBVIOUS
  <2> HIDE DEF T
  <2> QED
    BY <2>1, <2>2, <2>3, Induction
<1> HIDE DEF T
<1>9. \A i, j \in 1 .. n + 1 : i < j => s[i] + Prefix < s[j]
  <2> SUFFICES ASSUME NEW i \in 1 .. n + 1, NEW j \in 1 .. n + 1, i < j
               PROVE  s[i] + Prefix < s[j]
    OBVIOUS
  <2>1. j - 1 \in T /\ i <= j - 1 /\ j - 1 <= n /\ (j - 1) + 1 = j
    BY <1>1, <1>8
  <2> QED
    BY <2>1 DEF T
<1> QED
  BY <1>3, <1>4, <1>6, <1>9 DEF s, n

LEMMA Starts ==
  ASSUME msgs \in Streams
  PROVE  /\ Len(msgs) \in Nat /\ DOMAIN msgs = 1 .. Len(msgs)
         /\ \A i \in 1 .. Len(msgs) :
              msgs[i].len \in BodyLen /\ msgs[i].len \in Nat /\ msgs[i].len > Prefix
         /\ Start(1) = 0
         /\ \A i \in 1 .. Len(msgs) + 1 : Start(i) \in Nat
         /\ \A i \in 1 .. Len(msgs) : Start(i + 1) = Start(i) + Prefix + msgs[i].len
         /\ \A i, j \in 1 .. Len(msgs) + 1 : i < j => Start(i) + Prefix < Start(j)
<1>1. Len(msgs) \in Nat
  BY StreamIs, BoundAssumption
<1>2. /\ DOMAIN msgs = 1 .. Len(msgs)
      /\ \A i \in 1 .. Len(msgs) :
           msgs[i].len \in BodyLen /\ msgs[i].len \in Nat /\ msgs[i].len > Prefix
  BY StreamIs
<1>3. \A i : Start(i) = Sums(msgs)[i]
  BY StartIsSum
<1>4. /\ Start(1) = 0
      /\ \A i \in 1 .. Len(msgs) + 1 : Start(i) \in Nat
      /\ \A i \in 1 .. Len(msgs) : Start(i + 1) = Start(i) + Prefix + msgs[i].len
      /\ \A i, j \in 1 .. Len(msgs) + 1 : i < j => Start(i) + Prefix < Start(j)
  BY <1>3, SumsGrow, Zenon
<1> QED
  BY <1>1, <1>2, <1>4

\* No two messages begin at the same byte.
LEMMA StartTells ==
  ASSUME msgs \in Streams, NEW i \in 1 .. Len(msgs), NEW j \in 1 .. Len(msgs),
         Start(i) = Start(j) \/ Body(i) = Body(j)
  PROVE  i = j
<1>1. /\ Len(msgs) \in Nat /\ Start(i) \in Nat /\ Start(j) \in Nat
      /\ i < j => Start(i) + Prefix < Start(j)
      /\ j < i => Start(j) + Prefix < Start(i)
  BY Starts
<1> QED
  BY <1>1, PrefixAssumption DEF Body

-----------------------------------------------------------------------------
(***************************************************************************)
(* The invariant.                                                          *)
(***************************************************************************)

\* While the decoder is in step, a length it has taken is that of the next
\* message.
InStep ==
  synced =>
    /\ Len(delivered) <= Len(msgs)
    /\ state = "LEN_DECODED" =>
         Len(delivered) < Len(msgs) /\ remain = msgs[Len(delivered) + 1].len

DecoderInv == TypeOK /\ InOrder /\ InStep /\ NothingCompleteWaits

\* The decoder is in step before the message with this number.
Before(i) == synced /\ Len(delivered) + 1 = i /\ i \in 1 .. Len(msgs)

LEMMA InvFacts ==
  ASSUME DecoderInv
  PROVE  /\ msgs \in Streams /\ tail \in Nat /\ head \in Nat /\ head <= tail
         /\ Len(msgs) \in Nat /\ Len(delivered) \in Nat
         /\ tail <= Start(Len(msgs) + 1) /\ Start(Len(msgs) + 1) \in Nat
         /\ Held \in Nat /\ Prefix \in Nat \ {0}
<1>1. /\ msgs \in Streams /\ tail \in 0 .. Start(Len(msgs) + 1) /\ head \in 0 .. tail
      /\ delivered \in Seq(0 .. MaxMsgs)
  BY DEF DecoderInv, TypeOK
<1>2. Len(msgs) \in Nat /\ Len(msgs) + 1 \in 1 .. Len(msgs) + 1 /\ Start(Len(msgs) + 1) \in Nat
  BY <1>1, Starts
<1> QED
  BY <1>1, <1>2, PrefixAssumption DEF Held

LEMMA LengthTyped ==
  ASSUME NEW n \in BodyLen \union Garbage
  PROVE  n \in Int
<1>1. CASE n \in BodyLen
  <2>1. n \in Nat
    BY <1>1, BodyLenAssumption
  <2> QED
    BY <2>1
<1>2. CASE n \in Garbage
  BY <1>2, GarbageAssumption
<1> QED
  BY <1>1, <1>2

\* More than a length is held and no length was taken: there is a next
\* message, it begins at head, and its length is read.
LEMMA NextLength ==
  ASSUME DecoderInv, LoopsOn, synced, state # "LEN_DECODED",
         NEW n \in BodyLen \union Garbage, LengthRead(n)
  PROVE  LET i == Len(delivered) + 1
         IN  Before(i) /\ head = Start(i) /\ n = msgs[i].len
<1> DEFINE i == Len(delivered) + 1
<1>1. /\ msgs \in Streams /\ tail \in Nat /\ head \in Nat
      /\ Len(msgs) \in Nat /\ Len(delivered) \in Nat
      /\ tail <= Start(Len(msgs) + 1) /\ Prefix \in Nat \ {0}
  BY InvFacts
<1>2. head = Start(i) /\ Len(delivered) <= Len(msgs) /\ tail - head > Prefix
  BY DEF DecoderInv, InOrder, InStep, LoopsOn, Held
<1>3. i \in 1 .. Len(msgs)
  <2>1. CASE Len(delivered) = Len(msgs)
    <3>1. tail <= head
      BY <1>2, <1>1, <2>1
    <3> QED
      BY <1>1, <1>2, <3>1
  <2>2. CASE Len(delivered) # Len(msgs)
    BY <1>1, <1>2, <2>2
  <2> QED
    BY <2>1, <2>2
<1>4. DOMAIN msgs = 1 .. Len(msgs)
  BY <1>1, Starts
<1>5. PICK j \in DOMAIN msgs : Start(j) = head /\ n = msgs[j].len
  BY <1>2, <1>3, <1>4 DEF LengthRead
<1>6. j = i
  BY <1>1, <1>2, <1>3, <1>4, <1>5, StartTells
<1> QED
  BY <1>2, <1>3, <1>5, <1>6 DEF Before

\* What decodeRemain() and reset() leave.
LEMMA BodyStep ==
  ASSUME DecoderInv, reading, UNCHANGED <<msgs, conn, tail>>,
         NEW n \in Nat, NEW from \in Nat, NEW parsed \in Nat, from + n <= tail, DecodeBody(from, n, parsed),
         synced => LET i == Len(delivered) + 1
                   IN  Before(i) /\ from = Body(i) /\ n = msgs[i].len
  PROVE  DecoderInv'
<1>1. /\ msgs \in Streams /\ tail \in Nat
      /\ Len(msgs) \in Nat /\ Len(delivered) \in Nat /\ delivered \in Seq(0 .. MaxMsgs)
      /\ Len(msgs) \in 0 .. MaxMsgs /\ DOMAIN msgs = 1 .. Len(msgs)
  BY InvFacts, StreamIs DEF DecoderInv, TypeOK
<1>2. /\ msgs' = msgs /\ tail' = tail /\ conn' = conn /\ state' = "COMPLETED" /\ remain' = 0
      /\ \A i : Start(i)' = Start(i)
  BY StartIsSum DEF DecodeBody
<1>3. ASSUME Parses(from, n, TRUE), head' = from + n,
             delivered' = Append(delivered,
                            IF At(from, n) = {} THEN 0 ELSE CHOOSE i \in At(from, n) : TRUE),
             reading' = GoesOn(parsed + n), broken' = FALSE, UNCHANGED synced
      PROVE  DecoderInv'
  <2> DEFINE x == IF At(from, n) = {} THEN 0 ELSE CHOOSE i \in At(from, n) : TRUE
             d == Len(delivered)
  <2>1. x \in 0 .. MaxMsgs
    <3>1. At(from, n) \subseteq 1 .. Len(msgs)
      BY <1>1 DEF At
    <3>2. At(from, n) # {} => (CHOOSE i \in At(from, n) : TRUE) \in At(from, n)
      BY Zenon
    <3> QED
      BY <1>1, <3>1, <3>2, BoundAssumption
  <2>2. delivered' = Append(delivered, x)
    BY <1>3
  <2>3. synced => x = d + 1
    <3> SUFFICES ASSUME synced PROVE x = d + 1
      OBVIOUS
    <3>1. d + 1 \in 1 .. Len(msgs) /\ from = Body(d + 1) /\ n = msgs[d + 1].len
      BY DEF Before
    <3>2. At(from, n) = {d + 1}
      <4>1. d + 1 \in At(from, n)
        BY <1>1, <3>1 DEF At
      <4>2. ASSUME NEW j \in At(from, n) PROVE j = d + 1
        <5>1. j \in 1 .. Len(msgs) /\ Body(j) = Body(d + 1)
          BY <1>1, <3>1 DEF At
        <5> QED
          BY <1>1, <3>1, <5>1, StartTells
      <4> QED
        BY <4>1, <4>2
    <3>3. (CHOOSE i \in {d + 1} : TRUE) = d + 1
      OBVIOUS
    <3> QED
      BY <3>2, <3>3
  <2> HIDE DEF x
  <2>4. /\ delivered' \in Seq(0 .. MaxMsgs) /\ Len(delivered') = d + 1
        /\ delivered'[d + 1] = x /\ \A i \in 1 .. d : delivered'[i] = delivered[i]
    BY <1>1, <2>1, <2>2
  <2>5. reading' \in BOOLEAN /\ (synced => reading')
    <3>1. synced => n > 0
      <4> SUFFICES ASSUME synced PROVE n > 0
        OBVIOUS
      <4>1. d + 1 \in 1 .. Len(msgs) /\ n = msgs[d + 1].len
        BY DEF Before
      <4> QED
        BY <1>1, <4>1, Starts, PrefixAssumption
    <3>2. reading' <=> parsed + n # 0
      BY <1>3 DEF GoesOn
    <3>3. reading' \in BOOLEAN
      BY <1>3 DEF GoesOn
    <3> QED
      BY <1>1, <3>1, <3>2, <3>3
  <2>6. TypeOK'
    <3>1. head' \in 0 .. tail
      BY <1>1, <1>3
    <3> QED
      BY <1>2, <1>3, <2>4, <2>5, <3>1 DEF TypeOK, DecoderInv
  <2>7. synced => /\ d + 1 \in 1 .. Len(msgs) /\ head' = Start(d + 2)
                  /\ \A i \in 1 .. d : delivered[i] = i
    <3> SUFFICES ASSUME synced
                 PROVE  d + 1 \in 1 .. Len(msgs) /\ head' = Start(d + 2)
                        /\ \A i \in 1 .. d : delivered[i] = i
      OBVIOUS
    <3>1. d + 1 \in 1 .. Len(msgs) /\ from = Body(d + 1) /\ n = msgs[d + 1].len
      BY DEF Before
    <3>2. Start((d + 1) + 1) = Start(d + 1) + Prefix + msgs[d + 1].len
      BY <1>1, <3>1, Starts
    <3>3. (d + 1) + 1 = d + 2
      BY <1>1
    <3>4. \A i \in 1 .. d : delivered[i] = i
      BY DEF DecoderInv, InOrder
    <3> QED
      BY <1>3, <3>1, <3>2, <3>3, <3>4 DEF Body
  <2>8. InOrder' /\ InStep'
    <3> SUFFICES ASSUME synced PROVE InOrder' /\ InStep'
      BY <1>3 DEF InOrder, InStep
    <3>1. (d + 1) + 1 = d + 2 /\ d + 1 <= Len(msgs)
      BY <1>1, <2>7
    <3>2. \A i \in 1 .. d + 1 : delivered'[i] = i
      <4>1. \A i \in 1 .. d : delivered'[i] = i
        BY <2>4, <2>7
      <4>2. delivered'[d + 1] = d + 1
        BY <2>3, <2>4
      <4>3. d \in Nat
        BY <1>1
      <4> HIDE DEF d
      <4> QED
        BY <4>1, <4>2, <4>3
    <3> QED
      BY <1>2, <2>4, <2>7, <3>1, <3>2 DEF InOrder, InStep
  <2>9. NothingCompleteWaits'
    BY <1>3, <2>5 DEF NothingCompleteWaits
  <2> QED
    BY <2>6, <2>8, <2>9 DEF DecoderInv
<1>4. ASSUME head' = from, reading' = GoesOn(parsed), synced' = FALSE, broken' = TRUE,
             UNCHANGED delivered
      PROVE  DecoderInv'
  <2>1. from \in 0 .. tail
    BY <1>1
  <2>2. TypeOK'
    BY <1>2, <1>4, <2>1 DEF TypeOK, DecoderInv, GoesOn
  <2> QED
    BY <1>4, <2>2 DEF DecoderInv, InOrder, InStep, NothingCompleteWaits
<1> QED
  BY <1>3, <1>4 DEF DecodeBody

\* decodeLen(), and decodeRemain() at once if the body is there.
LEMMA LengthStep ==
  ASSUME DecoderInv, LoopsOn, NEW n \in BodyLen \union Garbage, DecodeLength(n),
         UNCHANGED <<msgs, conn, tail>>
  PROVE  DecoderInv'
<1> DEFINE d == Len(delivered)
<1>1. /\ msgs \in Streams /\ tail \in Nat /\ head \in Nat /\ n \in Int
      /\ Len(msgs) \in Nat /\ d \in Nat /\ Prefix \in Nat \ {0}
      /\ Held = tail - head /\ Held > Prefix /\ reading /\ state # "LEN_DECODED"
  BY InvFacts, LengthTyped DEF LoopsOn, Held, DecodeLength
<1>2. synced => Before(d + 1) /\ head = Start(d + 1) /\ n = msgs[d + 1].len
  BY <1>1, NextLength DEF DecodeLength
<1>3. /\ head + Prefix \in Nat /\ head + Prefix <= tail
      /\ synced => head + Prefix = Body(d + 1)
  BY <1>1, <1>2 DEF Body
<1>4. ASSUME state' = "LEN_DECODED", remain' = n, head' = PrefixDrained,
             reading' = GoesOn(Prefix), broken' = FALSE, UNCHANGED <<delivered, synced>>
      PROVE  DecoderInv'
  <2>1. head' = head + Prefix /\ reading'
    BY <1>1, <1>4 DEF PrefixDrained, GoesOn
  <2>2. msgs' = msgs /\ tail' = tail /\ conn' = conn /\ (\A i : Start(i)' = Start(i))
        /\ (\A i : Body(i)' = Body(i))
    BY StartIsSum DEF Body
  <2>3. TypeOK'
    <3>1. head' \in 0 .. tail
      BY <1>1, <1>3, <2>1
    <3>2. reading' \in BOOLEAN
      BY <1>4 DEF GoesOn
    <3> QED
      BY <1>4, <2>2, <3>1, <3>2 DEF TypeOK, DecoderInv
  <2>4. InOrder'
    BY <1>3, <1>4, <2>1, <2>2 DEF InOrder, DecoderInv
  <2>5. InStep'
    <3>1. synced => d <= Len(msgs) /\ d < Len(msgs)
      BY <1>1, <1>2 DEF Before
    <3> QED
      BY <1>2, <1>4, <2>2, <3>1 DEF InStep
  <2> QED
    BY <2>1, <2>3, <2>4, <2>5 DEF DecoderInv, NothingCompleteWaits
<1>5. ASSUME n >= 0, Complete(n, Held - Prefix), DecodeBody(PrefixDrained, n, Prefix)
      PROVE  DecoderInv'
  <2>1. (head + Prefix) + n <= tail
    BY <1>1, <1>5 DEF Complete
  <2>2. DecodeBody(head + Prefix, n, Prefix)
    BY <1>5 DEF PrefixDrained
  <2>3. n \in Nat
    BY <1>1, <1>5
  <2> QED
    BY <1>1, <1>2, <1>3, <2>1, <2>2, <2>3, BodyStep
<1> QED
  BY <1>4, <1>5 DEF DecodeLength

\* decodeRemain() of a body whose length was taken before: incomplete, and
\* decode() returns 0, or complete.
LEMMA RestStep ==
  ASSUME DecoderInv, LoopsOn, DecodeRest, UNCHANGED <<msgs, conn, tail>>
  PROVE  DecoderInv'
<1> DEFINE d == Len(delivered)
<1>1. /\ msgs \in Streams /\ tail \in Nat /\ head \in Nat
      /\ Len(msgs) \in Nat /\ d \in Nat /\ Prefix \in Nat \ {0}
      /\ Held = tail - head /\ reading /\ state = "LEN_DECODED" /\ remain >= 0
  BY InvFacts DEF LoopsOn, Held, DecodeRest
<1>2. synced => Before(d + 1) /\ head = Body(d + 1) /\ remain = msgs[d + 1].len
  <2> SUFFICES ASSUME synced
               PROVE  Before(d + 1) /\ head = Body(d + 1) /\ remain = msgs[d + 1].len
    OBVIOUS
  <2>1. d < Len(msgs) /\ remain = msgs[d + 1].len /\ head = Body(d + 1)
    BY <1>1 DEF DecoderInv, InStep, InOrder
  <2>2. d + 1 \in 1 .. Len(msgs)
    BY <1>1, <2>1
  <2> QED
    BY <2>1, <2>2 DEF Before
<1>3. remain \in Int /\ remain \in BodyLen \union Garbage \union {0}
  <2>1. remain \in BodyLen \union Garbage \union {0}
    BY DEF DecoderInv, TypeOK
  <2> QED
    BY <2>1, LengthTyped
<1>4. ASSUME ~Complete(remain, Held), reading' = GoesOn(0), broken' = FALSE,
             UNCHANGED <<head, state, remain, delivered, synced>>
      PROVE  DecoderInv'
  <2>1. /\ msgs' = msgs /\ tail' = tail /\ conn' = conn /\ reading' = FALSE
        /\ \A i : Start(i)' = Start(i) /\ Body(i)' = Body(i)
    BY <1>4, StartIsSum DEF GoesOn, Body
  <2>2. TypeOK'
    BY <1>4, <2>1 DEF TypeOK, DecoderInv
  <2>3. InOrder' /\ InStep'
    BY <1>4, <2>1 DEF InOrder, InStep, DecoderInv
  <2>4. NothingCompleteWaits'
    <3> SUFFICES ASSUME synced, d < Len(msgs) PROVE tail < Start(d + 2)
      BY <1>4, <2>1 DEF NothingCompleteWaits
    <3>1. d + 1 \in 1 .. Len(msgs) /\ head = Start(d + 1) + Prefix /\ remain = msgs[d + 1].len
      BY <1>2 DEF Before, Body
    <3>2. Start((d + 1) + 1) = Start(d + 1) + Prefix + msgs[d + 1].len
      BY <1>1, <3>1, Starts
    <3>3. (d + 1) + 1 = d + 2 /\ ~(Held >= remain)
      BY <1>1, <1>4 DEF Complete
    <3>4. Start(d + 2) = head + remain
      BY <3>1, <3>2, <3>3
    <3> QED
      BY <1>1, <1>3, <3>3, <3>4
  <2> QED
    BY <2>2, <2>3, <2>4 DEF DecoderInv
<1>5. ASSUME Complete(remain, Held), DecodeBody(head, remain, 0)
      PROVE  DecoderInv'
  <2>1. head + remain <= tail
    BY <1>1, <1>3, <1>5 DEF Complete
  <2>2. remain \in Nat
    BY <1>1, <1>3
  <2> QED
    BY <1>1, <1>2, <1>5, <2>1, <2>2, BodyStep
<1> QED
  BY <1>4, <1>5 DEF DecodeRest

LEMMA ReturnStep ==
  ASSUME DecoderInv, ReadReturns
  PROVE  DecoderInv'
<1> DEFINE d == Len(delivered)
<1>1. /\ msgs' = msgs /\ conn' = conn /\ tail' = tail /\ head' = head /\ state' = state
      /\ remain' = remain /\ delivered' = delivered /\ synced' = synced /\ broken' = broken
      /\ reading' = FALSE /\ Held <= Prefix
      /\ \A i : Start(i)' = Start(i) /\ Body(i)' = Body(i)
  BY StartIsSum DEF ReadReturns, Body
<1>2. TypeOK' /\ InOrder' /\ InStep'
  BY <1>1 DEF DecoderInv, TypeOK, InOrder, InStep
<1>3. NothingCompleteWaits'
  <2> SUFFICES ASSUME synced, d < Len(msgs) PROVE tail < Start(d + 2)
    BY <1>1 DEF NothingCompleteWaits
  <2>1. /\ msgs \in Streams /\ tail \in Nat /\ head \in Nat
        /\ Len(msgs) \in Nat /\ d \in Nat /\ Prefix \in Nat \ {0} /\ Held = tail - head
    BY InvFacts DEF Held
  <2>2. d + 1 \in 1 .. Len(msgs) /\ d + 1 \in 1 .. Len(msgs) + 1 /\ (d + 1) + 1 = d + 2
    BY <2>1
  <2>3. /\ Start(d + 2) = Start(d + 1) + Prefix + msgs[d + 1].len /\ Start(d + 1) \in Nat
        /\ msgs[d + 1].len \in Nat /\ msgs[d + 1].len > Prefix
    BY <2>1, <2>2, Starts
  <2>4. head = Start(d + 1) \/ head = Start(d + 1) + Prefix
    BY DEF DecoderInv, InOrder, Body
  <2> QED
    BY <1>1, <2>1, <2>3, <2>4
<1> QED
  BY <1>2, <1>3 DEF DecoderInv

LEMMA ArriveStep ==
  ASSUME DecoderInv, NEW n \in 0 .. Start(Len(msgs) + 1) - tail, Arrive(n)
  PROVE  DecoderInv'
<1>1. /\ msgs' = msgs /\ conn' = conn /\ tail' = tail + n /\ head' = head /\ state' = state
      /\ remain' = remain /\ delivered' = delivered /\ synced' = synced /\ broken' = broken
      /\ reading' = TRUE
      /\ \A i : Start(i)' = Start(i) /\ Body(i)' = Body(i)
  BY StartIsSum DEF Arrive, Body
<1>2. tail' \in 0 .. Start(Len(msgs) + 1) /\ head \in 0 .. tail'
  BY <1>1, InvFacts
<1>3. TypeOK' /\ InOrder' /\ InStep' /\ NothingCompleteWaits'
  BY <1>1, <1>2 DEF DecoderInv, TypeOK, InOrder, InStep, NothingCompleteWaits
<1> QED
  BY <1>3 DEF DecoderInv

\* The messages of a connection are of any number and length: what Starts
\* says, for those of the next state.
LEMMA NewStarts ==
  ASSUME msgs' \in Streams
  PROVE  /\ Len(msgs') \in Nat
         /\ Start(1)' = 0 /\ Start(Len(msgs) + 1)' \in Nat
         /\ 0 < Len(msgs') => 0 < Start(2)'
<1>1. /\ Len(msgs') \in Nat
      /\ Sums(msgs')[1] = 0 /\ Sums(msgs')[Len(msgs') + 1] \in Nat
      /\ 0 < Len(msgs') => Sums(msgs')[1] + Prefix < Sums(msgs')[2] /\ Sums(msgs')[2] \in Nat
  <2>1. Len(msgs') \in Nat
    BY StreamIs, BoundAssumption
  <2> QED
    BY <2>1, SumsGrow
<1>2. Start(1)' = Sums(msgs')[1] /\ Start(2)' = Sums(msgs')[2]
      /\ Start(Len(msgs) + 1)' = Sums(msgs')[Len(msgs') + 1]
  BY DEF Start, Sums
<1> QED
  BY <1>1, <1>2, PrefixAssumption

LEMMA ReconnectStep ==
  ASSUME DecoderInv, Reconnect
  PROVE  DecoderInv'
<1>1. /\ msgs' \in Streams /\ tail' = 0 /\ head' = 0 /\ state' = state
      /\ remain' = remain /\ delivered' = <<>> /\ synced' = (synced /\ state # "LEN_DECODED")
      /\ broken' = broken /\ reading' = reading /\ conn' = conn + 1 /\ conn < MaxConn
  BY DEF Reconnect
<1>2. Len(msgs') \in Nat /\ Start(1)' = 0 /\ Start(Len(msgs) + 1)' \in Nat
      /\ (0 < Len(msgs') => 0 < Start(2)')
  BY <1>1, NewStarts
<1>3. Len(delivered') = 0 /\ Len(delivered') \in Nat
  BY <1>1
<1>4. synced' => state' # "LEN_DECODED"
  BY <1>1
<1>5. TypeOK'
  <2>1. conn' \in 1 .. MaxConn
    BY <1>1, BoundAssumption DEF DecoderInv, TypeOK
  <2>2. tail' \in 0 .. Start(Len(msgs) + 1)' /\ head' \in 0 .. tail'
    BY <1>1, <1>2
  <2>3. delivered' \in Seq(0 .. MaxMsgs) /\ synced' \in BOOLEAN
    BY <1>1 DEF DecoderInv, TypeOK
  <2> QED
    BY <1>1, <2>1, <2>2, <2>3 DEF DecoderInv, TypeOK
<1>6. InOrder'
  <2>1. Start(Len(delivered) + 1)' = 0
    <3>1. Start(Len(delivered) + 1)' = Sums(msgs')[Len(delivered') + 1] /\ Start(1)' = Sums(msgs')[1]
      BY DEF Start, Sums
    <3> QED
      BY <1>2, <1>3, <3>1
  <2>2. \A i \in 1 .. Len(delivered') : delivered'[i] = i
    BY <1>3
  <2> QED
    BY <1>1, <1>4, <2>1, <2>2 DEF InOrder
<1>7. InStep'
  BY <1>1, <1>2, <1>3, <1>4 DEF InStep
<1>8. NothingCompleteWaits'
  <2>1. Start(Len(delivered) + 2)' = Start(2)'
    <3>1. Start(Len(delivered) + 2)' = Sums(msgs')[Len(delivered') + 2] /\ Start(2)' = Sums(msgs')[2]
      BY DEF Start, Sums
    <3> QED
      BY <1>3, <3>1
  <2> QED
    BY <1>1, <1>2, <1>3, <2>1 DEF NothingCompleteWaits
<1> QED
  BY <1>5, <1>6, <1>7, <1>8 DEF DecoderInv

LEMMA DecoderInit ==
  ASSUME Init
  PROVE  DecoderInv
<1>1. /\ msgs \in Streams /\ tail = 0 /\ head = 0 /\ state = "IDLE" /\ remain = 0
      /\ delivered = <<>> /\ synced = TRUE /\ broken = FALSE /\ reading = FALSE /\ conn = 1
  BY DEF Init
<1>2. /\ Len(msgs) \in Nat /\ Start(1) = 0 /\ Start(Len(msgs) + 1) \in Nat
      /\ 0 < Len(msgs) => 0 < Start(2)
  <2>1. /\ Len(msgs) \in Nat /\ Start(1) = 0 /\ Start(Len(msgs) + 1) \in Nat
        /\ 0 < Len(msgs) => Start(1) + Prefix < Start(2) /\ Start(2) \in Nat
    <3>1. Len(msgs) \in Nat /\ Start(1) = 0
      BY <1>1, Starts
    <3>2. Len(msgs) + 1 \in 1 .. Len(msgs) + 1 /\ 1 \in 1 .. Len(msgs) + 1
          /\ (0 < Len(msgs) => 2 \in 1 .. Len(msgs) + 1)
      BY <3>1
    <3> QED
      BY <1>1, <3>1, <3>2, Starts
  <2> QED
    BY <2>1, PrefixAssumption
<1>3. Len(delivered) = 0 /\ 0 + 1 = 1 /\ 0 + 2 = 2
  BY <1>1
<1>4. TypeOK
  <2>1. conn \in 1 .. MaxConn
    BY <1>1, BoundAssumption
  <2>2. tail \in 0 .. Start(Len(msgs) + 1) /\ head \in 0 .. tail
    BY <1>1, <1>2
  <2>3. delivered \in Seq(0 .. MaxMsgs)
    BY <1>1
  <2> QED
    BY <1>1, <2>1, <2>2, <2>3 DEF TypeOK
<1>5. InOrder
  BY <1>1, <1>2, <1>3 DEF InOrder
<1>6. InStep /\ NothingCompleteWaits
  BY <1>1, <1>2, <1>3 DEF InStep, NothingCompleteWaits
<1> QED
  BY <1>4, <1>5, <1>6 DEF DecoderInv

LEMMA DecoderNext ==
  ASSUME DecoderInv, [Next]_vars
  PROVE  DecoderInv'
<1>1. CASE \E n \in 0 .. Start(Len(msgs) + 1) - tail : Arrive(n)
  BY <1>1, ArriveStep
<1>2. CASE Decode
  BY <1>2, LengthStep, RestStep DEF Decode
<1>3. CASE ReadReturns
  BY <1>3, ReturnStep
<1>4. CASE Reconnect
  BY <1>4, ReconnectStep
<1>5. CASE UNCHANGED vars
  <2>1. /\ msgs' = msgs /\ conn' = conn /\ tail' = tail /\ head' = head /\ state' = state
        /\ remain' = remain /\ delivered' = delivered /\ synced' = synced /\ broken' = broken
        /\ reading' = reading
        /\ \A i : Start(i)' = Start(i) /\ Body(i)' = Body(i)
    BY <1>5, StartIsSum DEF vars, Body
  <2> QED
    BY <2>1 DEF DecoderInv, TypeOK, InOrder, InStep, NothingCompleteWaits
<1> QED
  BY <1>1, <1>2, <1>3, <1>4, <1>5 DEF Next

-----------------------------------------------------------------------------
(***************************************************************************)
(* The theorems.                                                           *)
(***************************************************************************)

\* The invariant of do_on_read's loop and of the decoder between two calls.
THEOREM DecoderInvariance == Spec => []DecoderInv
<1>1. Init => DecoderInv
  BY DecoderInit
<1>2. DecoderInv /\ [Next]_vars => DecoderInv'
  BY DecoderNext
<1> QED
  BY <1>1, <1>2, PTL DEF Spec

\* decoder.h takes no byte that did not arrive, whatever lengths and bodies
\* the bytes spell.
THEOREM DecoderTypes == Spec => []TypeOK
<1>1. DecoderInv => TypeOK
  BY DEF DecoderInv
<1> QED
  BY <1>1, DecoderInvariance, PTL

\* A decoder in step delivers every message of a connection once and in order,
\* however the bytes arrive.
THEOREM DecodedInOrder == Spec => []InOrder
<1>1. DecoderInv => InOrder
  BY DEF DecoderInv
<1> QED
  BY <1>1, DecoderInvariance, PTL

\* do_on_read() decodes all there is before it returns.
THEOREM DecodedAtOnce == Spec => []NothingCompleteWaits
<1>1. DecoderInv => NothingCompleteWaits
  BY DEF DecoderInv
<1> QED
  BY <1>1, DecoderInvariance, PTL

=============================================================================
