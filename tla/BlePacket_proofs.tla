-------------------------- MODULE BlePacket_proofs --------------------------
(***************************************************************************)
(* The parser that all phones share hands over what was sent (BlePacket),  *)
(* for every set of phones, of commands and size of a write, wherever      *)
(* earlier frames were cut off or mixed.  About the commands on files      *)
(* (BleFiles and DeviceName): a name survives one cut, whatever else the   *)
(* tool does, and a listing has every file that stays, for directories of  *)
(* every size.                                                             *)
(***************************************************************************)
EXTENDS BlePacket, BleFiles, SequenceTheorems, FiniteSetTheorems, WellFoundedInduction, TLAPS

\* What LinkAssumption says of a command.
Sendable(c) ==
  c.code \in Word /\ c.payload \in Seq(Byte) /\ Len(c.payload) + 2 <= BuffSize

\* The elements of a frame: the exclusive or of bytes need not be known.
Elements == Byte \cup {Sums(s)[Len(s)] : s \in Seq(Byte)}

\* Bytes of the last frame of phone p that are still to be parsed.
Due(p) == Len(air[p]) + (IF writer = p THEN Len(input) ELSE 0)

Parsed(p) == Len(Frame(sending[p])) - Due(p)

\* s is what frame f holds before its byte m + 1.
EndsAt(s, f, m) == \A i \in 1 .. Len(s) : s[i] = f[m - Len(s) + i]

\* What is to be parsed is the end of the frame.
Ends(p) ==
  LET f == Frame(sending[p]) IN
  /\ sending[p] = [from |-> p, code |-> sending[p].code, payload |-> sending[p].payload]
  /\ Sendable(sending[p])
  /\ Due(p) <= Len(f) /\ EndsAt(air[p], f, Len(f))
  /\ writer = p => EndsAt(input, f, Len(f) - Len(air[p]))

Started(p) == Due(p) # 0 /\ (Parsed(p) # 0 \/ writer = p)

Shaped(pk) == pk = [status |-> pk.status, length |-> pk.length, rBuff |-> pk.rBuff, crc |-> pk.crc]

\* The parser after k bytes of the frame of c.
Reads(pk, c, k) ==
  LET n == Len(Body(c)) IN
  /\ k = 0 => pk.status \in {"stx_u", "stx_l"}
  /\ k = 1 => pk.status = "stx_l"
  /\ k = 2 => pk.status = "len"
  /\ k \in 3 .. n + 2 => pk.status = "data" /\ pk.rBuff = SubSeq(Body(c), 1, k - 3)
  /\ k = n + 3 => pk.status = "crc"
  /\ k = n + 4 => pk.status = "etx"
  /\ k >= 3 => pk.length = n
  /\ k \in 3 .. n + 3 => pk.crc = Sums(Body(c))[k - 3]
  /\ k >= n + 3 => pk.rBuff = Body(c)

LinkTypes ==
  /\ input \in Seq(Elements) /\ writer \in Phones \cup {NoOne} /\ (input = <<>>) = (writer = NoOne)
  /\ sending = [p \in Phones |-> sending[p]] /\ air \in [Phones -> Seq(Elements)]
  /\ Shaped(packet)
  /\ follows \in Phones \cup {NoOne} /\ (input # <<>> => follows \in {writer, NoOne})

AllEnd == \A p \in Phones : Due(p) # 0 => Ends(p)

\* The parser is where it ought to be in the frame that it follows.
ParserFollows ==
  \A p \in Phones : follows = p /\ Started(p) => Reads(packet, sending[p], Parsed(p))

LinkInv == LinkTypes /\ AllEnd /\ ParserFollows
-----------------------------------------------------------------------------
(* The exclusive or of the first bytes *)

SumsTo(f, s, n) == f = [i \in 0 .. n |-> IF i = 0 THEN 0 ELSE Xor(f[i - 1], s[i])]

\* Every non-empty set of naturals has a least element.
LEMMA Least ==
  ASSUME NEW T \in SUBSET Nat, T # {}
  PROVE  \E m \in T : \A k \in T : m <= k
<1>1. IsWellFoundedOn(OpToRel(<, Nat), Nat)
  BY NatLessThanWellFounded
<1>2. PICK m \in T : \A k \in T : ~ (<<k, m>> \in OpToRel(<, Nat))
  BY <1>1, WFMin
<1>3. ASSUME NEW k \in T, k < m PROVE FALSE
  <2>1. <<k, m>> \in Nat \X Nat /\ <<k, m>>[1] < <<k, m>>[2]
    BY <1>3
  <2>2. <<k, m>> \in OpToRel(<, Nat)
    BY <2>1, Zenon DEF OpToRel
  <2> QED
    BY <1>2, <2>2
<1> QED
  BY <1>3

LEMMA SumsValue ==
  ASSUME NEW f, NEW s, NEW n, SumsTo(f, s, n)
  PROVE  \A i \in 0 .. n : f[i] = IF i = 0 THEN 0 ELSE Xor(f[i - 1], s[i])
<1> DEFINE e(i) == IF i = 0 THEN 0 ELSE Xor(f[i - 1], s[i])
<1>1. f = [i \in 0 .. n |-> e(i)]
  BY Zenon DEF SumsTo
<1> HIDE DEF e
<1>2. \A i \in 0 .. n : f[i] = e(i)
  BY <1>1, Zenon
<1> QED
  BY <1>2, Zenon DEF e

\* There is such a function for every number of bytes.
LEMMA SumsExist ==
  ASSUME NEW s, NEW n \in Nat
  PROVE  \E f : SumsTo(f, s, n)
<1> DEFINE Lacks == {k \in Nat : ~ \E f : SumsTo(f, s, k)}
<1> SUFFICES Lacks = {}
  OBVIOUS
<1> SUFFICES ASSUME Lacks # {} PROVE FALSE
  OBVIOUS
<1>1. PICK m \in Lacks : \A k \in Lacks : m <= k
  BY Least
<1>2. m # 0
  <2> DEFINE z == [i \in 0 .. 0 |-> 0]
  <2>1. SumsTo(z, s, 0)
    <3>1. \A i \in 0 .. 0 : 0 = IF i = 0 THEN 0 ELSE Xor(z[i - 1], s[i])
      OBVIOUS
    <3> QED
      BY <3>1 DEF SumsTo
  <2> QED
    BY <2>1
<1>3. m - 1 \in Nat /\ m - 1 \notin Lacks
  BY <1>1, <1>2
<1>4. PICK f : SumsTo(f, s, m - 1)
  BY <1>3
<1> DEFINE g == [i \in 0 .. m |-> IF i = m THEN Xor(f[m - 1], s[m]) ELSE f[i]]
<1>5. SumsTo(g, s, m)
  <2>1. m \in Nat /\ m # 0
    BY <1>2
  <2>2. \A i \in 0 .. m - 1 : f[i] = IF i = 0 THEN 0 ELSE Xor(f[i - 1], s[i])
    BY ONLY <1>4, SumsValue
  <2> DEFINE e(i) == IF i = 0 THEN 0 ELSE Xor(g[i - 1], s[i])
  <2>3. ASSUME NEW i \in 0 .. m PROVE (IF i = m THEN Xor(f[m - 1], s[m]) ELSE f[i]) = e(i)
    <3>1. CASE i = m
      <4>1. g[m - 1] = f[m - 1]
        BY <2>1
      <4> QED
        BY <2>1, <3>1, <4>1
    <3>2. CASE i # m /\ i # 0
      <4>1. g[i - 1] = f[i - 1]
        BY <2>1, <3>2
      <4> QED
        BY <2>1, <2>2, <3>2, <4>1
    <3>3. CASE i # m /\ i = 0
      BY <2>1, <2>2, <3>3
    <3> QED
      BY <3>1, <3>2, <3>3
  <2>4. g = [i \in 0 .. m |-> e(i)]
    BY <2>3, Zenon
  <2> QED
    BY <2>4, Zenon DEF SumsTo
<1> QED
  BY <1>5

\* So the exclusive or is taken byte by byte.
LEMMA SumsNext ==
  ASSUME NEW s \in Seq(Byte)
  PROVE  /\ Sums(s)[0] = 0
         /\ \A i \in 1 .. Len(s) : Sums(s)[i] = Xor(Sums(s)[i - 1], s[i])
<1> DEFINE acc == Sums(s)
<1>1. Len(s) \in Nat
  BY LenProperties
<1>2. acc = CHOOSE f : SumsTo(f, s, Len(s))
  BY DEF Sums, SumsTo
<1>3. SumsTo(acc, s, Len(s))
  BY <1>1, <1>2, SumsExist
<1>4. \A i \in 0 .. Len(s) : acc[i] = IF i = 0 THEN 0 ELSE Xor(acc[i - 1], s[i])
  BY ONLY <1>3, SumsValue
<1> HIDE DEF acc
<1>5. acc[0] = 0 /\ \A i \in 1 .. Len(s) : acc[i] = Xor(acc[i - 1], s[i])
  BY <1>1, <1>4
<1> QED
  BY <1>5 DEF acc
-----------------------------------------------------------------------------
(* The frame of a command *)

LEMMA TwoBytes ==
  ASSUME NEW w \in Word
  PROVE  w \div 256 \in Byte /\ w % 256 \in Byte /\ w = 256 * (w \div 256) + (w % 256)
<1>1. w \in Nat /\ w <= 65535
  BY ONLY w \in Word, SMTT(20) DEF Word
<1>2. /\ w \div 256 \in Nat /\ w \div 256 < 256 /\ w % 256 \in Nat /\ w % 256 < 256
      /\ w = 256 * (w \div 256) + (w % 256)
  BY ONLY <1>1
<1>3. ASSUME NEW b \in Nat, b < 256 PROVE b \in Byte
  BY ONLY <1>3 DEF Byte
<1> QED
  BY ONLY <1>2, <1>3, SMTT(20)

LEMMA BodyBytes ==
  ASSUME NEW c, Sendable(c)
  PROVE  LET n == Len(Body(c)) IN
         /\ Body(c) \in Seq(Byte) /\ n = Len(c.payload) + 2 /\ n \in 2 .. 255
         /\ c.code = 256 * Body(c)[1] + Body(c)[2] /\ c.payload = SubSeq(Body(c), 3, n)
<1> DEFINE high == c.code \div 256
           low  == c.code % 256
           pay  == c.payload
<1>1. c.code \in Word /\ pay \in Seq(Byte) /\ Len(pay) + 2 <= BuffSize
  BY Zenon DEF Sendable
<1>2. Len(pay) \in Nat
  BY ONLY <1>1, LenProperties
<1>3. Len(pay) + 2 \in 2 .. 255
  <2> HIDE DEF pay
  <2>1. BuffSize \in Byte /\ Len(pay) + 2 <= BuffSize
    BY <1>1, LinkAssumption, Zenon DEF LinkAssumption, pay
  <2>2. ASSUME NEW m \in Nat, NEW b \in Byte, m + 2 <= b PROVE m + 2 \in 2 .. 255
    BY ONLY <2>2, SMT DEF Byte
  <2> QED
    BY ONLY <1>2, <2>1, <2>2, Zenon
<1>4. high \in Byte /\ low \in Byte /\ c.code = 256 * high + low
  <2>1. c.code \in Word
    BY <1>1, Zenon
  <2> QED
    BY ONLY <2>1, TwoBytes
<1> HIDE DEF high, low, pay
<1>5. <<high, low>> \in Seq(Byte) /\ Len(<<high, low>>) = 2
      /\ <<high, low>>[1] = high /\ <<high, low>>[2] = low
  BY ONLY <1>4
<1> DEFINE head == <<high, low>>
           body == head \o pay
           rest == SubSeq(body, 3, Len(body))
<1> HIDE DEF head
<1>6. head \in Seq(Byte) /\ Len(head) = 2 /\ head[1] = high /\ head[2] = low
  BY ONLY <1>5 DEF head
<1>7. /\ body \in Seq(Byte) /\ Len(body) = Len(head) + Len(pay)
      /\ \A i \in 1 .. Len(head) + Len(pay) :
           body[i] = IF i <= Len(head) THEN head[i] ELSE pay[i - Len(head)]
  BY ONLY <1>1, <1>6, ConcatProperties, Zenon
<1> HIDE DEF body
<1>8. /\ Len(body) = Len(pay) + 2 /\ body[1] = high /\ body[2] = low
      /\ \A i \in 1 .. Len(pay) : body[i + 2] = pay[i]
  BY ONLY <1>2, <1>6, <1>7
<1>9. rest = pay
  <2>1. \A i \in 3 .. Len(body) : body[i] \in Byte
    <3>1. \A i \in 1 .. Len(body) : body[i] \in Byte
      BY ONLY <1>7, ElementOfSeq
    <3> QED
      BY ONLY <3>1, <1>2, <1>8
  <2>2. 3 \in Int /\ Len(body) \in Int
    BY ONLY <1>2, <1>8
  <2>3. /\ rest \in Seq(Byte)
        /\ Len(rest) = IF 3 <= Len(body) THEN Len(body) - 3 + 1 ELSE 0
        /\ \A i \in 1 .. Len(body) - 3 + 1 : rest[i] = body[3 + i - 1]
    BY ONLY <2>1, <2>2, SubSeqProperties, SMT
  <2> HIDE DEF rest
  <2>4. Len(rest) = Len(pay) /\ \A i \in 1 .. Len(rest) : rest[i] = pay[i]
    BY ONLY <1>2, <1>8, <2>3
  <2> QED
    BY ONLY <1>1, <2>3, <2>4, SeqEqual, Zenon
<1>10. Body(c) = body /\ pay = c.payload
  BY Zenon DEF Body, body, head, pay, high, low
<1> QED
  BY ONLY <1>3, <1>4, <1>7, <1>8, <1>9, <1>10

LEMMA FrameBytes ==
  ASSUME NEW c, Sendable(c)
  PROVE  /\ Frame(c) \in Seq(Elements) /\ Len(Frame(c)) = Len(Body(c)) + 5
         /\ Frame(c)[1] = 255 /\ Frame(c)[2] = 254 /\ Frame(c)[3] = Len(Body(c))
         /\ \A i \in 1 .. Len(Body(c)) : Frame(c)[i + 3] = Body(c)[i]
         /\ Frame(c)[Len(Body(c)) + 4] = Sums(Body(c))[Len(Body(c))]
         /\ Frame(c)[Len(Body(c)) + 5] = 3
<1> DEFINE body == Body(c)
           n    == Len(body)
           sum  == Sums(body)[n]
           size == (Len(c.payload) + 2) % 256
<1>1. body \in Seq(Byte) /\ n = Len(c.payload) + 2 /\ n \in 2 .. 255
  BY BodyBytes, Zenon
<1>2. size = n
  <2> DEFINE l == Len(c.payload) + 2
  <2>1. l \in 2 .. 255
    BY <1>1, Zenon
  <2> HIDE DEF l
  <2>2. l % 256 = l
    BY ONLY <2>1, SMT
  <2> QED
    BY <1>1, <2>2, Zenon DEF l
<1> HIDE DEF size
<1>3. {255, 254, 3, size} \subseteq Byte
  BY ONLY <1>1, <1>2 DEF Byte
<1>4. Byte \subseteq Elements
  BY ONLY DEF Elements
<1>5. sum \in Elements
  BY ONLY <1>1, Zenon DEF Elements
<1>6. body \in Seq(Elements)
  BY ONLY <1>1, <1>4, SeqMonotonic, Zenon
<1> DEFINE head == <<255, 254, size>>
           last == <<sum, 3>>
<1> HIDE DEF sum, body
<1>7. head \in Seq(Elements) /\ Len(head) = 3 /\ head[1] = 255 /\ head[2] = 254 /\ head[3] = size
  BY ONLY <1>3, <1>4
<1>8. last \in Seq(Elements) /\ Len(last) = 2 /\ last[1] = sum /\ last[2] = 3
  BY ONLY <1>3, <1>4, <1>5
<1> DEFINE front == head \o body
           frame == front \o last
<1>9. Frame(c) = frame
  BY Zenon DEF Frame, head, body, last, sum, size
<1> HIDE DEF head, last
<1>10. head \in Seq(Elements) /\ last \in Seq(Elements)
  BY <1>7, <1>8
<1>11. /\ front \in Seq(Elements) /\ Len(front) = Len(head) + n
       /\ \A i \in 1 .. Len(head) + n :
            front[i] = IF i <= Len(head) THEN head[i] ELSE body[i - Len(head)]
  BY ONLY <1>6, <1>10, ConcatProperties, Zenon
<1> HIDE DEF front
<1>12. /\ frame \in Seq(Elements) /\ Len(frame) = Len(front) + Len(last)
       /\ \A i \in 1 .. Len(front) + Len(last) :
            frame[i] = IF i <= Len(front) THEN front[i] ELSE last[i - Len(front)]
  <2>1. front \in Seq(Elements)
    BY <1>11, Zenon
  <2> QED
    BY ONLY <1>10, <2>1, ConcatProperties, Zenon
<1> HIDE DEF frame, n
<1>13. n \in 2 .. 255 /\ Len(front) = n + 3 /\ Len(frame) = n + 5
  BY ONLY <1>1, <1>7, <1>8, <1>11, <1>12
<1>14. /\ frame[1] = 255 /\ frame[2] = 254 /\ frame[3] = n
       /\ \A i \in 1 .. n : frame[i + 3] = body[i]
  BY ONLY <1>2, <1>7, <1>8, <1>11, <1>12, <1>13
<1>15. frame[n + 4] = sum /\ frame[n + 5] = 3
  BY ONLY <1>8, <1>12, <1>13
<1>16. frame \in Seq(Elements)
  BY <1>12, Zenon
<1> QED
  BY ONLY <1>9, <1>13, <1>14, <1>15, <1>16, Zenon DEF body, n, sum

LEMMA GrowsByOne ==
  ASSUME NEW s \in Seq(Byte), NEW i \in 1 .. Len(s)
  PROVE  Append(SubSeq(s, 1, i - 1), s[i]) = SubSeq(s, 1, i) /\ Len(SubSeq(s, 1, i - 1)) = i - 1
<1>1. Len(s) \in Nat /\ 1 \in 1 .. Len(s) /\ i \in 1 .. Len(s)
  BY LenProperties
<1>2. SubSeq(s, 1, i) = SubSeq(s, 1, i - 1) \o <<s[i]>>
  BY <1>1, SubSeqRecursiveSecond
<1>3. \A j \in 1 .. i - 1 : s[j] \in Byte
  <2>1. \A j \in 1 .. Len(s) : s[j] \in Byte
    BY ElementOfSeq
  <2> QED
    BY <1>1, <2>1
<1>4. SubSeq(s, 1, i - 1) \in Seq(Byte) /\ Len(SubSeq(s, 1, i - 1)) = i - 1
  <2>1. 1 \in Int /\ i - 1 \in Int
    BY <1>1
  <2>2. SubSeq(s, 1, i - 1) \in Seq(Byte)
        /\ Len(SubSeq(s, 1, i - 1)) = IF 1 <= i - 1 THEN i - 1 - 1 + 1 ELSE 0
    BY ONLY <1>3, <2>1, SubSeqProperties
  <2> QED
    BY ONLY <1>1, <2>2
<1>5. s[i] \in Byte
  BY ElementOfSeq
<1> QED
  BY <1>2, <1>4, <1>5, AppendIsConcat

\* What the parser does with a byte.
Takes(byte) == (Start(byte) \/ Length(byte) \/ Data(byte) \/ Check(byte) \/ End(byte)) /\ HandOver(byte)

\* The parser goes through a frame byte by byte.
LEMMA ParserGoesOn ==
  ASSUME NEW c, Sendable(c), NEW k \in 0 .. Len(Body(c)) + 3,
         Shaped(packet), Reads(packet, c, k), Takes(Frame(c)[k + 1])
  PROVE  Shaped(packet') /\ Reads(packet', c, k + 1) /\ handled' = Nothing
<1> DEFINE body == Body(c)
           n    == Len(body)
           byte == Frame(c)[k + 1]
<1>1. body \in Seq(Byte) /\ n \in 2 .. 255
  BY BodyBytes, Zenon
<1>2. byte = IF k = 0 THEN 255 ELSE IF k = 1 THEN 254 ELSE IF k = 2 THEN n
             ELSE IF k <= n + 2 THEN body[k - 2] ELSE Sums(body)[n]
  <2> DEFINE f == Frame(c)
             last == Sums(body)[n]
  <2>1. f[1] = 255 /\ f[2] = 254 /\ f[3] = n /\ (\A i \in 1 .. n : f[i + 3] = body[i]) /\ f[n + 4] = last
    BY ONLY Sendable(c), FrameBytes
  <2> HIDE DEF f, n, body, last
  <2>2. f[k + 1] = IF k = 0 THEN 255 ELSE IF k = 1 THEN 254 ELSE IF k = 2 THEN n
                   ELSE IF k <= n + 2 THEN body[k - 2] ELSE last
    <3>1. k \in 0 .. n + 3 /\ n \in 2 .. 255
      BY <1>1 DEF n, body
    <3>2. CASE k \in 3 .. n + 2
      <4>1. k - 2 \in 1 .. n /\ f[(k - 2) + 3] = body[k - 2] /\ (k - 2) + 3 = k + 1
        BY ONLY <2>1, <3>1, <3>2
      <4> QED
        BY ONLY <3>1, <3>2, <4>1
    <3>3. CASE k \notin 3 .. n + 2
      <4>1. k \in {0, 1, 2, n + 3}
        BY ONLY <3>1, <3>3
      <4> QED
        BY ONLY <2>1, <3>1, <4>1
    <3> QED
      BY <3>2, <3>3
  <2> QED
    BY <2>2 DEF f, last
<1> DEFINE sums == Sums(body)
<1>3. sums[0] = 0 /\ \A i \in 1 .. n : sums[i] = Xor(sums[i - 1], body[i])
  BY ONLY <1>1, SumsNext
<1> DEFINE R(pk, j) ==
             /\ j = 0 => pk.status \in {"stx_u", "stx_l"}
             /\ j = 1 => pk.status = "stx_l"
             /\ j = 2 => pk.status = "len"
             /\ j \in 3 .. n + 2 => pk.status = "data" /\ pk.rBuff = SubSeq(body, 1, j - 3)
             /\ j = n + 3 => pk.status = "crc"
             /\ j = n + 4 => pk.status = "etx"
             /\ j >= 3 => pk.length = n
             /\ j \in 3 .. n + 3 => pk.crc = sums[j - 3]
             /\ j >= n + 3 => pk.rBuff = body
<1>4. /\ k \in 0 .. n + 3 /\ Shaped(packet)
      /\ Start(byte) \/ Length(byte) \/ Data(byte) \/ Check(byte) \/ End(byte)
      /\ HandOver(byte)
  BY DEF Takes
<1>5. R(packet, k) /\ (R(packet', k + 1) => Reads(packet', c, k + 1))
  BY Zenon DEF Reads
<1> HIDE DEF n, byte, sums, body
<1>6. packet.status # "etx"
  BY ONLY <1>1, <1>4, <1>5
<1>7. handled' = Nothing
  BY ONLY <1>4, <1>6, Zenon DEF HandOver, InStatus
<1> DEFINE To(s, l, r, x) == packet' = [status |-> s, length |-> l, rBuff |-> r, crc |-> x]
           Same(s) == To(s, packet.length, packet.rBuff, packet.crc)
<1> SUFFICES Shaped(packet') /\ R(packet', k + 1)
  BY <1>5, <1>7, Zenon
<1>8. CASE k = 0
  <2>1. packet.status \in {"stx_u", "stx_l"} /\ byte = 255
    BY ONLY <1>5, <1>8, <1>2
  <2>2. Same("stx_l")
    BY ONLY <1>4, <2>1 DEF InStatus, Become, Start, Length, Data, Check, End, Shaped
  <2> QED
    BY ONLY <1>1, <1>8, <2>2 DEF Shaped
<1>9. CASE k = 1
  <2>1. packet.status = "stx_l" /\ byte = 254
    BY ONLY <1>5, <1>2, <1>9
  <2>2. Same("len")
    BY ONLY <1>4, <2>1 DEF InStatus, Become, Start, Length, Data, Check, End, Shaped
  <2> QED
    BY ONLY <1>1, <1>9, <2>2 DEF Shaped
<1>10. CASE k = 2
  <2>1. packet.status = "len" /\ byte = n
    BY ONLY <1>5, <1>2, <1>10
  <2>2. To("data", n, <<>>, 0)
    BY ONLY <1>4, <2>1 DEF InStatus, Become, Start, Length, Data, Check, End, Shaped
  <2>3. SubSeq(body, 1, 0) = <<>>
    BY ONLY SubSeqEmpty
  <2> QED
    BY ONLY <1>1, <1>3, <1>10, <2>2, <2>3 DEF Shaped
<1>11. CASE k \in 3 .. n + 2
  <2> DEFINE old == SubSeq(body, 1, k - 3)
             new == SubSeq(body, 1, k - 2)
  <2>1. packet.status = "data" /\ packet.rBuff = old /\ packet.length = n /\ packet.crc = sums[k - 3]
        /\ byte = body[k - 2]
    <3>1. packet.status = "data" /\ packet.rBuff = old
      BY ONLY <1>5, <1>11
    <3>2. packet.length = n /\ packet.crc = sums[k - 3]
      BY ONLY <1>1, <1>5, <1>11
    <3>3. byte = body[k - 2]
      BY ONLY <1>1, <1>2, <1>11
    <3> QED
      BY ONLY <3>1, <3>2, <3>3
  <2>2. To(IF Len(old) + 1 >= n THEN "crc" ELSE "data", n, Append(old, byte), Xor(sums[k - 3], byte))
    BY ONLY <1>4, <2>1 DEF InStatus, Become, Start, Length, Data, Check, End, Shaped
  <2>3. k - 2 \in 1 .. Len(body) /\ (k - 2) - 1 = k - 3
    BY ONLY <1>1, <1>11 DEF n
  <2>4. Append(old, byte) = new /\ Len(old) = k - 3
    BY ONLY <1>1, <2>1, <2>3, GrowsByOne
  <2>5. Xor(sums[k - 3], byte) = sums[k - 2]
    BY ONLY <1>3, <2>1, <2>3 DEF n
  <2>6. To(IF k = n + 2 THEN "crc" ELSE "data", n, new, sums[k - 2])
    <3>1. (Len(old) + 1 >= n) = (k = n + 2)
      BY ONLY <1>1, <1>11, <2>4
    <3> QED
      BY ONLY <2>2, <2>4, <2>5, <3>1
  <2>7. k = n + 2 => new = body
    <3>1. SubSeq(body, 1, n) = body
      BY ONLY <1>1, SubSeqFull DEF n
    <3>2. k = n + 2 => k - 2 = n
      BY ONLY <1>1
    <3> QED
      BY ONLY <3>1, <3>2
  <2>8. (k + 1) - 3 = k - 2 /\ k + 1 \in 4 .. n + 3 /\ (k = n + 2 <=> k + 1 = n + 3)
    BY ONLY <1>1, <1>11
  <2> HIDE DEF new
  <2>9. Shaped(packet') /\ packet'.status = (IF k + 1 = n + 3 THEN "crc" ELSE "data")
        /\ packet'.length = n /\ packet'.rBuff = new /\ packet'.crc = sums[k - 2]
    BY ONLY <2>6, <2>8 DEF Shaped
  <2>10. \A j : j = k + 1 => R(packet', j)
    BY ONLY <1>1, <2>7, <2>8, <2>9 DEF new
  <2> QED
    BY ONLY <2>9, <2>10, Zenon
<1>12. CASE k = n + 3
  <2>1. packet.status = "crc" /\ packet.length = n /\ packet.rBuff = body /\ byte = packet.crc
    BY ONLY <1>1, <1>5, <1>2, <1>12 DEF sums
  <2>2. Same("etx")
    BY ONLY <1>4, <2>1 DEF InStatus, Become, Start, Length, Data, Check, End, Shaped
  <2> QED
    BY ONLY <1>1, <1>12, <2>1, <2>2 DEF Shaped
<1> QED
  BY ONLY <1>1, <1>4, <1>8, <1>9, <1>10, <1>11, <1>12

\* At its end it hands the command over.
LEMMA ParserEnds ==
  ASSUME NEW c, Sendable(c), Shaped(packet), Reads(packet, c, Len(Body(c)) + 4),
         Takes(Frame(c)[Len(Body(c)) + 5])
  PROVE  /\ Shaped(packet') /\ packet'.status = "stx_u"
         /\ handled' = [from |-> writer, code |-> c.code, payload |-> c.payload]
<1> DEFINE body == Body(c)
           n    == Len(body)
           byte == Frame(c)[n + 5]
<1>1. /\ body \in Seq(Byte) /\ n \in 2 .. 255
      /\ c.code = 256 * body[1] + body[2] /\ c.payload = SubSeq(body, 3, n)
  BY BodyBytes, Zenon
<1>2. byte = 3
  BY FrameBytes, Zenon
<1>3. /\ Shaped(packet) /\ HandOver(byte)
      /\ Start(byte) \/ Length(byte) \/ Data(byte) \/ Check(byte) \/ End(byte)
  BY DEF Takes
<1>4. packet.status = "etx" /\ packet.length = n /\ packet.rBuff = body
  <2> DEFINE k == n + 4
  <2>1. k = n + 4 /\ k >= 3 /\ k >= n + 3
    BY ONLY <1>1
  <2>2. Reads(packet, c, k)
    OBVIOUS
  <2> QED
    BY ONLY <2>1, <2>2, Zenon DEF Reads
<1> HIDE DEF byte
<1>5. packet' = [status |-> "stx_u", length |-> packet.length, rBuff |-> packet.rBuff, crc |-> packet.crc]
  BY ONLY <1>3, <1>4 DEF InStatus, Become, Start, Length, Data, Check, End, Shaped
<1>6. Shaped(packet') /\ packet'.status = "stx_u"
  BY ONLY <1>5 DEF Shaped
<1>7. n >= 2
  BY ONLY <1>1
<1>8. handled' = [from |-> writer, code |-> 256 * body[1] + body[2], payload |-> SubSeq(body, 3, n)]
  BY ONLY <1>2, <1>3, <1>4, <1>7, Zenon DEF HandOver, InStatus
<1> QED
  BY <1>1, <1>6, <1>8, Zenon
-----------------------------------------------------------------------------
(* The steps of the link *)

LEMMA DueTypes ==
  ASSUME LinkTypes, NEW p \in Phones
  PROVE  /\ Len(air[p]) \in Nat /\ Len(input) \in Nat /\ Due(p) \in Nat
         /\ writer # p => Due(p) = Len(air[p])
         /\ writer = p => Due(p) = Len(air[p]) + Len(input)
<1>1. air[p] \in Seq(Elements) /\ input \in Seq(Elements)
  BY Zenon DEF LinkTypes
<1>2. Len(air[p]) \in Nat /\ Len(input) \in Nat
  BY <1>1, LenProperties
<1>3. CASE writer = p
  <2>1. Due(p) = Len(air[p]) + Len(input)
    BY <1>3, Zenon DEF Due
  <2> QED
    BY ONLY <1>2, <1>3, <2>1
<1>4. CASE writer # p
  <2>1. Due(p) = Len(air[p]) + 0
    BY <1>4, Zenon DEF Due
  <2> QED
    BY ONLY <1>2, <1>4, <2>1
<1> QED
  BY <1>3, <1>4

\* A frame of which nothing has been parsed is in the air whole.
LEMMA NoneParsed ==
  ASSUME LinkInv, NEW p \in Phones, writer # p, air[p] # <<>>, Parsed(p) = 0
  PROVE  air[p] = Frame(sending[p])
<1> DEFINE a == air[p]
           f == Frame(sending[p])
<1>1. a \in Seq(Elements) /\ Len(a) \in Nat /\ Due(p) = Len(a)
  BY DueTypes, Zenon DEF LinkInv, LinkTypes
<1>2. Len(a) # 0
  BY ONLY <1>1, a # <<>>, EmptySeq
<1>3. Sendable(sending[p]) /\ EndsAt(a, f, Len(f))
  BY <1>1, <1>2, Zenon DEF LinkInv, AllEnd, Ends
<1>4. f \in Seq(Elements) /\ Len(f) \in Nat
  BY <1>3, FrameBytes, LenProperties, Zenon
<1>5. Len(f) - Len(a) = 0
  BY <1>1, Zenon DEF Parsed
<1> HIDE DEF a, f
<1>6. Len(a) = Len(f)
  BY ONLY <1>1, <1>4, <1>5
<1>7. \A i \in 1 .. Len(a) : a[i] = f[i]
  BY ONLY <1>1, <1>3, <1>4, <1>6 DEF EndsAt
<1>8. a = f
  BY ONLY <1>1, <1>4, <1>6, <1>7, SeqEqual, Zenon
<1> QED
  BY <1>8, Zenon DEF a, f

\* What a step leaves alone of a phone.
Kept(p) == air'[p] = air[p] /\ sending'[p] = sending[p] /\ writer' = writer /\ input' = input

LEMMA KeptIsKept ==
  ASSUME NEW p, Kept(p)
  PROVE  Due(p)' = Due(p) /\ Parsed(p)' = Parsed(p) /\ Started(p)' = Started(p) /\ Ends(p)' = Ends(p)
<1>1. Due(p)' = Due(p)
  BY DEF Kept, Due
<1>2. Parsed(p)' = Parsed(p)
  BY <1>1, Zenon DEF Kept, Parsed
<1>3. Started(p)' = Started(p)
  BY <1>1, <1>2, Zenon DEF Started, Kept
<1>4. Ends(p)' = Ends(p)
  BY <1>1, Zenon DEF Ends, Kept
<1> QED
  BY <1>1, <1>2, <1>3, <1>4

LEMMA InitKeeps == Init => LinkInv
<1> SUFFICES ASSUME Init PROVE LinkInv
  OBVIOUS
<1>1. LinkTypes
  BY DEF Init, LinkTypes, NewPacket, Shaped
<1>2. \A p \in Phones : air[p] = <<>> /\ writer # p
  BY LinkAssumption, Zenon DEF Init, LinkAssumption
<1>3. ASSUME NEW p \in Phones PROVE Due(p) = 0
  <2>1. Len(air[p]) = 0
    BY <1>2
  <2> QED
    BY <1>1, <1>2, <2>1, DueTypes
<1> QED
  BY <1>1, <1>3, Zenon DEF LinkInv, AllEnd, ParserFollows, Started

\* The invariant after a step that leaves the phones and the parser alone.
LEMMA AllKept ==
  ASSUME LinkInv, UNCHANGED <<sending, air, input, writer, packet, follows>>
  PROVE  LinkInv'
<1>1. \A q : Kept(q)
  BY DEF Kept
<1>2. \A q : /\ Due(q)' = Due(q) /\ Parsed(q)' = Parsed(q)
              /\ Started(q)' = Started(q) /\ Ends(q)' = Ends(q)
  BY ONLY <1>1, KeptIsKept
<1>3. LinkTypes'
  BY DEF LinkInv, LinkTypes, Shaped
<1>4. AllEnd' /\ ParserFollows'
  BY <1>2, Zenon DEF LinkInv, AllEnd, ParserFollows
<1> QED
  BY <1>3, <1>4 DEF LinkInv

\* The invariant after a step of phone p that leaves the other phones alone and
\* does not parse.
LEMMA OtherPhones ==
  ASSUME LinkInv, LinkTypes', NEW p \in Phones, packet' = packet,
         \A q \in Phones \ {p} : /\ Due(q)' = Due(q) /\ Parsed(q)' = Parsed(q) /\ Ends(q)' = Ends(q)
                                 /\ sending'[q] = sending[q] /\ (writer' = q => writer = q)
                                 /\ (follows' = q => follows = q),
         (Due(p) # 0 => Ends(p))',
         follows' = p /\ Started(p)' => Reads(packet', sending'[p], Parsed(p)')
  PROVE  LinkInv'
<1>1. AllEnd'
  BY Zenon DEF LinkInv, AllEnd
<1>2. ASSUME NEW q \in Phones, follows' = q, Started(q)'
      PROVE  Reads(packet', sending'[q], Parsed(q)')
  <2>1. CASE q = p
    BY <1>2, <2>1, Zenon
  <2>2. CASE q # p
    <3>1. q \in Phones \ {p}
      BY <2>2, Zenon
    <3>2. follows = q /\ Started(q)
      BY <1>2, <3>1, Zenon DEF Started
    <3> QED
      BY <3>1, <3>2, Zenon DEF LinkInv, ParserFollows
  <2> QED
    BY <2>1, <2>2, Zenon
<1> QED
  BY <1>1, <1>2, Zenon DEF LinkInv, ParserFollows

LEMMA DisconnectKeeps ==
  ASSUME LinkInv, NEW p \in Phones, Disconnect(p)
  PROVE  LinkInv'
<1>1. input = <<>> /\ writer \notin Phones /\ UNCHANGED <<writer, input, packet, follows>>
  BY LinkAssumption DEF Disconnect, LinkInv, LinkTypes, LinkAssumption
<1>2. air' = [air EXCEPT ![p] = <<>>] /\ sending' = [sending EXCEPT ![p] = Nothing]
  BY DEF Disconnect
<1>3. LinkTypes'
  <2>1. <<>> \in Seq(Elements)
    BY EmptySeq
  <2>2. air' \in [Phones -> Seq(Elements)]
    BY <1>2, <2>1 DEF LinkInv, LinkTypes
  <2>3. sending' = [q \in Phones |-> sending'[q]]
    BY <1>2 DEF LinkInv, LinkTypes
  <2> QED
    BY <1>1, <2>2, <2>3, Zenon DEF LinkInv, LinkTypes
<1>4. \A q \in Phones \ {p} : Kept(q)
  BY <1>1, <1>2 DEF Kept, LinkInv, LinkTypes
<1>5. Due(p)' = 0
  <2>1. Len(air'[p]) = 0
    BY <1>2 DEF LinkInv, LinkTypes
  <2>2. Due(p)' = Len(air'[p]) + 0
    BY <1>1, Zenon DEF Due
  <2> QED
    BY ONLY <2>1, <2>2
<1>6. \A q \in Phones \ {p} : /\ Due(q)' = Due(q) /\ Parsed(q)' = Parsed(q) /\ Ends(q)' = Ends(q)
                               /\ sending'[q] = sending[q] /\ (writer' = q => writer = q)
                               /\ (follows' = q => follows = q)
  BY <1>1, <1>4, KeptIsKept, Zenon DEF Kept
<1>7. /\ (Due(p) # 0 => Ends(p))'
      /\ follows' = p /\ Started(p)' => Reads(packet', sending'[p], Parsed(p)')
  BY <1>5, Zenon DEF Started
<1> QED
  BY ONLY LinkInv, p \in Phones, <1>1, <1>3, <1>6, <1>7, OtherPhones, Zenon

LEMMA SendKeeps ==
  ASSUME LinkInv, NEW p \in Phones, Send(p)
  PROVE  LinkInv'
<1>1. PICK c \in Commands :
        /\ sending' = [sending EXCEPT ![p] = [from |-> p, code |-> c.code, payload |-> c.payload]]
        /\ air' = [air EXCEPT ![p] = Frame(c)]
  BY DEF Send
<1>2. /\ air[p] = <<>> /\ writer # p /\ writer' = writer /\ input' = input /\ packet' = packet
      /\ follows' = follows
  BY DEF Send
<1> DEFINE sent == [from |-> p, code |-> c.code, payload |-> c.payload]
<1>3. sending'[p] = sent /\ air'[p] = Frame(c)
      /\ \A q \in Phones \ {p} : sending'[q] = sending[q] /\ air'[q] = air[q]
  BY <1>1 DEF LinkInv, LinkTypes
<1>4. sent.code = c.code /\ sent.payload = c.payload /\ sent.from = p
  OBVIOUS
<1> HIDE DEF sent
<1>5. Sendable(sent) /\ Sendable(c)
  BY <1>4, LinkAssumption, Zenon DEF Sendable, LinkAssumption
<1>6. Frame(sent) = Frame(c)
  <2>1. Body(sent) = Body(c)
    BY ONLY <1>4 DEF Body
  <2> QED
    BY ONLY <1>4, <2>1 DEF Frame
<1>7. Frame(c) \in Seq(Elements) /\ Len(Frame(c)) \in Nat
  BY <1>5, FrameBytes, LenProperties, Zenon
<1>8. LinkTypes'
  <2>1. air' \in [Phones -> Seq(Elements)]
    BY <1>1, <1>7 DEF LinkInv, LinkTypes
  <2>2. sending' = [q \in Phones |-> sending'[q]]
    BY <1>1 DEF LinkInv, LinkTypes
  <2> QED
    BY <1>2, <2>1, <2>2 DEF LinkInv, LinkTypes
<1>9. \A q \in Phones \ {p} : Kept(q)
  BY <1>2, <1>3, Zenon DEF Kept
<1>10. Due(p) = 0 /\ Due(p)' = Len(Frame(c)) /\ Parsed(p)' = 0
  <2>1. Len(air[p]) = 0
    BY <1>2
  <2>2. Due(p) = 0 /\ Due(p)' = Len(Frame(c)) + 0
    <3>1. Due(p)' = Len(Frame(c)) + 0
      BY <1>2, <1>3, Zenon DEF Due
    <3> QED
      BY <1>2, <2>1, <3>1, DueTypes DEF LinkInv
  <2>3. Parsed(p)' = Len(Frame(c)) - Due(p)'
    BY <1>3, <1>6, Zenon DEF Parsed
  <2> QED
    BY ONLY <1>7, <2>2, <2>3
<1>11. Ends(p)'
  <2> DEFINE f == Frame(c)
  <2>1. EndsAt(f, f, Len(f))
    BY ONLY <1>7 DEF EndsAt
  <2>2. f = Frame(sending'[p]) /\ air'[p] = f /\ sending'[p] = sent /\ writer' # p
    BY <1>2, <1>3, <1>6
  <2>3. sent = [from |-> p, code |-> sent.code, payload |-> sent.payload]
    BY DEF sent
  <2>4. Due(p)' <= Len(f)
    BY ONLY <1>7, <1>10
  <2> HIDE DEF f
  <2> QED
    BY ONLY <1>5, <2>1, <2>2, <2>3, <2>4, Zenon DEF Ends
<1>12. ~Started(p)'
  BY <1>2, <1>10, Zenon DEF Started
<1>13. \A q \in Phones \ {p} : /\ Due(q)' = Due(q) /\ Parsed(q)' = Parsed(q) /\ Ends(q)' = Ends(q)
                                /\ sending'[q] = sending[q] /\ (writer' = q => writer = q)
                                /\ (follows' = q => follows = q)
  BY <1>2, <1>9, KeptIsKept, Zenon DEF Kept
<1>14. /\ (Due(p) # 0 => Ends(p))'
       /\ follows' = p /\ Started(p)' => Reads(packet', sending'[p], Parsed(p)')
  BY <1>11, <1>12, Zenon
<1> QED
  BY ONLY LinkInv, p \in Phones, <1>2, <1>8, <1>13, <1>14, OtherPhones, Zenon

LEMMA SplitEnds ==
  ASSUME NEW a \in Seq(Elements), NEW f, NEW m \in Int, NEW n \in 0 .. Len(a), EndsAt(a, f, m)
  PROVE  /\ SubSeq(a, 1, n) \in Seq(Elements) /\ Len(SubSeq(a, 1, n)) = n
         /\ SubSeq(a, n + 1, Len(a)) \in Seq(Elements) /\ Len(SubSeq(a, n + 1, Len(a))) = Len(a) - n
         /\ EndsAt(SubSeq(a, n + 1, Len(a)), f, m)
         /\ EndsAt(SubSeq(a, 1, n), f, m - (Len(a) - n))
<1> DEFINE l    == Len(a)
           now  == SubSeq(a, 1, n)
           rest == SubSeq(a, n + 1, l)
<1>1. l \in Nat /\ n \in 0 .. l
  BY LenProperties
<1>2. \A i \in 1 .. l : a[i] \in Elements /\ a[i] = f[m - l + i]
  BY ElementOfSeq DEF EndsAt
<1> HIDE DEF l
<1>3. now \in Seq(Elements) /\ Len(now) = n /\ \A i \in 1 .. n : now[i] = a[i]
  <2>1. 1 \in Int /\ n \in Int /\ \A i \in 1 .. n : a[i] \in Elements
    BY ONLY <1>1, <1>2
  <2>2. /\ now \in Seq(Elements) /\ Len(now) = IF 1 <= n THEN n - 1 + 1 ELSE 0
        /\ \A i \in 1 .. n - 1 + 1 : now[i] = a[1 + i - 1]
    BY ONLY <2>1, SubSeqProperties
  <2> HIDE DEF now
  <2> QED
    BY ONLY <1>1, <2>2
<1>4. rest \in Seq(Elements) /\ Len(rest) = l - n /\ \A i \in 1 .. l - n : rest[i] = a[n + i]
  <2>1. n + 1 \in Int /\ l \in Int /\ \A i \in n + 1 .. l : a[i] \in Elements
    BY ONLY <1>1, <1>2
  <2>2. /\ rest \in Seq(Elements) /\ Len(rest) = IF n + 1 <= l THEN l - (n + 1) + 1 ELSE 0
        /\ \A i \in 1 .. l - (n + 1) + 1 : rest[i] = a[n + 1 + i - 1]
    BY ONLY <2>1, SubSeqProperties
  <2> HIDE DEF rest
  <2> QED
    BY ONLY <1>1, <2>2
<1> HIDE DEF now, rest
<1>5. EndsAt(rest, f, m)
  <2>1. \A i \in 1 .. l - n : n + i \in 1 .. l /\ m - l + (n + i) = m - (l - n) + i
    BY ONLY <1>1
  <2> QED
    BY ONLY <1>2, <1>4, <2>1 DEF EndsAt
<1>6. EndsAt(now, f, m - (l - n))
  <2>1. \A i \in 1 .. n : i \in 1 .. l /\ m - l + i = m - (l - n) - n + i
    BY ONLY <1>1
  <2> QED
    BY ONLY <1>2, <1>3, <2>1 DEF EndsAt
<1> QED
  BY <1>3, <1>4, <1>5, <1>6 DEF now, rest, l

LEMMA WriteKeeps ==
  ASSUME LinkInv, NEW p \in Phones, Write(p)
  PROVE  LinkInv'
<1> DEFINE a == air[p]
           l == Len(a)
           n == IF l < Mtu THEN l ELSE Mtu
           f == Frame(sending[p])
<1>1. /\ input = <<>> /\ a # <<>> /\ input' = SubSeq(a, 1, n)
      /\ air' = [air EXCEPT ![p] = SubSeq(a, n + 1, l)] /\ writer' = p
      /\ sending' = sending /\ packet' = packet
      /\ follows' = IF Follows(p) THEN p ELSE NoOne
  BY DEF Write
<1>2. writer \notin Phones
  BY <1>1, LinkAssumption DEF LinkInv, LinkTypes, LinkAssumption
<1>3. a \in Seq(Elements) /\ l \in Nat /\ Due(p) = l /\ l # 0
  <2>1. a \in Seq(Elements)
    BY DEF LinkInv, LinkTypes
  <2>2. l \in Nat /\ Due(p) = l
    BY <1>2, DueTypes DEF LinkInv
  <2>3. l # 0
    BY ONLY <1>1, <2>1, EmptySeq
  <2> QED
    BY <2>1, <2>2, <2>3
<1>4. Ends(p)
  BY <1>3 DEF LinkInv, AllEnd
<1>5. Sendable(sending[p]) /\ Due(p) <= Len(f) /\ EndsAt(a, f, Len(f))
  BY <1>4, Zenon DEF Ends
<1>6. Len(f) = Len(sending[p].payload) + 7 /\ Len(f) \in Nat
  <2>1. Len(f) = Len(Body(sending[p])) + 5
    BY <1>5, FrameBytes, Zenon
  <2>2. Len(Body(sending[p])) = Len(sending[p].payload) + 2 /\ Len(Body(sending[p])) \in 2 .. 255
    BY <1>5, BodyBytes, Zenon
  <2>3. Len(sending[p].payload) \in Nat
    BY <1>5, LenProperties DEF Sendable
  <2> QED
    BY ONLY <2>1, <2>2, <2>3
<1>7. n \in 1 .. l /\ n \in 0 .. l
  <2>1. Mtu \in Nat \ {0}
    BY LinkAssumption, Zenon DEF LinkAssumption
  <2> HIDE DEF l
  <2> QED
    BY ONLY <1>3, <2>1
<1> HIDE DEF n
<1>8. air'[p] = SubSeq(a, n + 1, l) /\ \A q \in Phones \ {p} : air'[q] = air[q]
  BY <1>1 DEF LinkInv, LinkTypes
<1>9. /\ input' \in Seq(Elements) /\ Len(input') = n
      /\ air'[p] \in Seq(Elements) /\ Len(air'[p]) = l - n
      /\ EndsAt(air'[p], f, Len(f)) /\ EndsAt(input', f, Len(f) - (l - n))
  <2>1. Len(f) \in Int
    BY <1>6
  <2> HIDE DEF f
  <2>2. /\ SubSeq(a, 1, n) \in Seq(Elements) /\ Len(SubSeq(a, 1, n)) = n
        /\ SubSeq(a, n + 1, Len(a)) \in Seq(Elements) /\ Len(SubSeq(a, n + 1, Len(a))) = Len(a) - n
        /\ EndsAt(SubSeq(a, n + 1, Len(a)), f, Len(f))
        /\ EndsAt(SubSeq(a, 1, n), f, Len(f) - (Len(a) - n))
    BY ONLY <1>3, <1>5, <1>7, <2>1, SplitEnds
  <2> QED
    BY ONLY <1>1, <1>8, <2>2, Zenon
<1>10. LinkTypes'
  <2>1. air' \in [Phones -> Seq(Elements)]
    <3>1. SubSeq(a, n + 1, l) \in Seq(Elements)
      BY ONLY <1>8, <1>9, Zenon
    <3> HIDE DEF a, l
    <3> QED
      BY <1>1, <3>1 DEF LinkInv, LinkTypes
  <2>2. input' # <<>>
    <3>1. Len(input') # 0
      BY ONLY <1>7, <1>9
    <3> QED
      BY ONLY <3>1
  <2>3. p # NoOne
    BY LinkAssumption, Zenon DEF LinkAssumption
  <2>4. Shaped(packet') /\ sending' = [q \in Phones |-> sending'[q]]
        /\ follows' \in Phones \cup {NoOne} /\ follows' \in {writer', NoOne}
    BY <1>1, Zenon DEF LinkInv, LinkTypes
  <2> QED
    BY <1>1, <1>9, <2>1, <2>2, <2>3, <2>4, Zenon DEF LinkTypes
<1>11. Due(p)' = Due(p)
  <2>1. Due(p)' = Len(air'[p]) + Len(input')
    BY <1>1, Zenon DEF Due
  <2> HIDE DEF l
  <2> QED
    BY ONLY <1>3, <1>7, <1>9, <2>1
<1>12. Parsed(p)' = Parsed(p) /\ sending'[p] = sending[p]
  BY <1>1, <1>11, Zenon DEF Parsed
<1>13. Ends(p)'
  <2>1. f = Frame(sending'[p]) /\ sending'[p] = sending[p] /\ writer' = p /\ Len(air'[p]) = l - n
    BY <1>1, <1>9, Zenon
  <2>2. Due(p)' <= Len(f)
    BY <1>5, <1>11, Zenon
  <2> QED
    BY <1>4, <1>9, <2>1, <2>2, Zenon DEF Ends
<1>14. \A q \in Phones \ {p} : /\ Due(q)' = Due(q) /\ Parsed(q)' = Parsed(q) /\ Ends(q)' = Ends(q)
                                /\ sending'[q] = sending[q] /\ (writer' = q => writer = q)
                                /\ (follows' = q => follows = q)
  <2> SUFFICES ASSUME NEW q \in Phones \ {p}
               PROVE /\ Due(q)' = Due(q) /\ Parsed(q)' = Parsed(q) /\ Ends(q)' = Ends(q)
                     /\ sending'[q] = sending[q] /\ writer' # q /\ follows' # q
    BY Zenon
  <2>1. writer # q /\ writer' # q /\ air'[q] = air[q] /\ sending'[q] = sending[q]
    BY <1>1, <1>2, <1>8
  <2>2. Due(q)' = Due(q)
    BY <2>1, Zenon DEF Due
  <2>3. Parsed(q)' = Parsed(q)
    BY <2>1, <2>2, Zenon DEF Parsed
  <2>4. Ends(q)' = Ends(q)
    BY <2>1, <2>2, Zenon DEF Ends
  <2>5. follows' # q
    BY <1>1, LinkAssumption, Zenon DEF LinkAssumption
  <2> QED
    BY <2>1, <2>2, <2>3, <2>4, <2>5
<1>15. follows' = p => Reads(packet', sending'[p], Parsed(p)')
  <2> SUFFICES ASSUME follows' = p PROVE Reads(packet, sending[p], Parsed(p))
    BY <1>1, <1>12, Zenon
  <2>1. Follows(p)
    BY <1>1, LinkAssumption, Zenon DEF LinkAssumption
  <2>2. writer # p
    BY <1>2, Zenon
  <2>3. CASE a = f
    <3>1. packet.status \in {"stx_u", "stx_l"}
      BY <2>1, <2>3, Zenon DEF Follows, BetweenFrames
    <3>2. Parsed(p) = 0
      <4>1. Parsed(p) = Len(f) - Len(f)
        BY <1>3, <2>3, Zenon DEF Parsed
      <4> HIDE DEF f
      <4> QED
        BY ONLY <1>6, <4>1
    <3>3. Len(Body(sending[p])) \in 2 .. 255
      BY <1>5, BodyBytes, Zenon
    <3> QED
      BY ONLY <3>1, <3>2, <3>3 DEF Reads
  <2>4. CASE a # f
    <3>1. follows = p
      BY <2>1, <2>4, Zenon DEF Follows
    <3>2. Parsed(p) # 0
      BY <1>1, <2>2, <2>4, NoneParsed, Zenon
    <3>3. Started(p)
      BY <1>3, <3>2, Zenon DEF Started
    <3> QED
      BY <3>1, <3>3, Zenon DEF LinkInv, ParserFollows
  <2> QED
    BY <2>3, <2>4, Zenon
<1>16. (Due(p) # 0 => Ends(p))'
  BY <1>13, Zenon
<1> QED
  BY ONLY LinkInv, p \in Phones, <1>1, <1>10, <1>14, <1>15, <1>16, OtherPhones, Zenon

\* The writer's bytes are parsed from where its frame stands.
LEMMA WriterReads ==
  ASSUME LinkInv, input # <<>>
  PROVE  /\ writer \in Phones /\ Ends(writer) /\ Due(writer) = Len(air[writer]) + Len(input)
         /\ Len(input) \in Nat \ {0} /\ Len(air[writer]) \in Nat
         /\ Parsed(writer) \in 0 .. Len(Frame(sending[writer])) - 1
         /\ follows \in {writer, NoOne}
         /\ follows = writer => Reads(packet, sending[writer], Parsed(writer))
<1> DEFINE w == writer
           f == Frame(sending[w])
<1>1. w \in Phones
  BY DEF LinkInv, LinkTypes
<1>2. Due(w) = Len(air[w]) + Len(input) /\ Len(air[w]) \in Nat /\ Len(input) \in Nat
  BY <1>1, DueTypes, Zenon DEF LinkInv
<1>3. Len(input) # 0
  <2>1. input \in Seq(Elements)
    BY Zenon DEF LinkInv, LinkTypes
  <2> QED
    BY <2>1, EmptySeq
<1>4. Due(w) # 0 /\ Due(w) \in Nat
  BY ONLY <1>2, <1>3
<1>5. Ends(w) /\ Due(w) <= Len(f) /\ Sendable(sending[w])
  BY <1>1, <1>4, Zenon DEF LinkInv, AllEnd, Ends
<1>6. Len(f) \in Nat
  BY <1>5, FrameBytes, LenProperties, Zenon
<1>7. Parsed(w) \in 0 .. Len(f) - 1
  <2>1. Parsed(w) = Len(f) - Due(w)
    BY Zenon DEF Parsed
  <2> HIDE DEF f
  <2> QED
    BY ONLY <1>4, <1>5, <1>6, <2>1
<1>8. follows = w => Reads(packet, sending[w], Parsed(w))
  BY <1>1, <1>4, Zenon DEF LinkInv, ParserFollows, Started
<1>9. follows \in {w, NoOne}
  BY Zenon DEF LinkInv, LinkTypes
<1> QED
  BY <1>1, <1>2, <1>3, <1>5, <1>7, <1>8, <1>9

\* Whatever the parser makes of a byte, it keeps its shape.
LEMMA ShapeStays ==
  ASSUME NEW byte, Shaped(packet), Takes(byte)
  PROVE  Shaped(packet')
<1>1. CASE Start(byte)
  BY <1>1 DEF Start, Become, InStatus, Shaped
<1>2. CASE Length(byte)
  BY <1>2 DEF Length, Shaped
<1>3. CASE Data(byte)
  BY <1>3 DEF Data, Shaped
<1>4. CASE Check(byte) \/ End(byte)
  BY <1>4 DEF Check, End, Become, Shaped
<1> QED
  BY <1>1, <1>2, <1>3, <1>4 DEF Takes

LEMMA ParseKeeps ==
  ASSUME LinkInv, ParseByte
  PROVE  /\ LinkInv'
         /\ follows # NoOne =>
              handled' = IF Len(input) = 1 /\ air[follows] = <<>> THEN sending[follows] ELSE Nothing
<1>1. PICK w \in Phones : w = writer
  BY WriterReads, Zenon DEF ParseByte
<1> DEFINE c == sending[w]
           f == Frame(c)
           k == Parsed(w)
           n == Len(Body(c))
<1>2. /\ input # <<>> /\ input' = Tail(input) /\ Takes(Head(input))
      /\ writer' = IF Len(input) = 1 THEN NoOne ELSE w
      /\ sending' = sending /\ air' = air /\ follows' = follows
  BY <1>1, Zenon DEF ParseByte, Takes
<1>3. /\ w \in Phones /\ Ends(w) /\ Due(w) = Len(air[w]) + Len(input)
      /\ Len(input) \in Nat \ {0} /\ Len(air[w]) \in Nat
      /\ k \in 0 .. Len(f) - 1
      /\ follows \in {w, NoOne} /\ (follows = w => Reads(packet, c, k))
  BY <1>1, <1>2, WriterReads, Zenon
<1>4. Sendable(c) /\ c = [from |-> w, code |-> c.code, payload |-> c.payload]
      /\ EndsAt(air[w], f, Len(f)) /\ EndsAt(input, f, Len(f) - Len(air[w]))
  BY <1>1, <1>3, Zenon DEF Ends
<1>5. Len(f) = n + 5 /\ n \in 2 .. 255
  BY <1>4, FrameBytes, BodyBytes, Zenon
<1>6. k = Len(f) - Due(w)
  BY Zenon DEF Parsed
<1>7. input \in Seq(Elements) /\ air[w] \in Seq(Elements)
  BY <1>3, Zenon DEF LinkInv, LinkTypes
<1>8. /\ input' \in Seq(Elements) /\ Len(input') = Len(input) - 1
      /\ \A i \in 1 .. Len(input) - 1 : input'[i] = input[i + 1]
  BY ONLY <1>2, <1>7, HeadTailProperties
<1> HIDE DEF f, n, k
<1>9. Head(input) = f[k + 1]
  <2>1. Head(input) = input[1]
    BY ONLY <1>2, <1>7
  <2>2. 1 \in 1 .. Len(input) /\ Len(f) - Len(air[w]) - Len(input) + 1 = k + 1
    BY ONLY <1>3, <1>5, <1>6
  <2> QED
    BY ONLY <1>4, <2>1, <2>2 DEF EndsAt
<1>10. ASSUME follows = w
       PROVE  \/ k \in 0 .. n + 3 /\ Reads(packet', c, k + 1) /\ handled' = Nothing
              \/ k = n + 4 /\ handled' = c
  <2>1. Takes(Frame(c)[k + 1]) /\ Shaped(packet)
    BY <1>2, <1>9, Zenon DEF f, LinkInv, LinkTypes
  <2>2. CASE k \in 0 .. Len(Body(c)) + 3
    BY ONLY <1>3, <1>10, <1>4, <2>1, <2>2, ParserGoesOn, Zenon DEF n
  <2>3. CASE k \notin 0 .. Len(Body(c)) + 3
    <3>1. k = Len(Body(c)) + 4 /\ k + 1 = Len(Body(c)) + 5
      BY ONLY <1>3, <1>10, <1>5, <2>3 DEF n
    <3>2. handled' = [from |-> w, code |-> c.code, payload |-> c.payload]
      BY ONLY <1>1, <1>3, <1>4, <1>10, <2>1, <3>1, ParserEnds, Zenon
    <3> QED
      BY <1>4, <3>1, <3>2, Zenon DEF n
  <2> QED
    BY <2>2, <2>3
<1>11. LinkTypes'
  <2>1. (input' = <<>>) = (writer' = NoOne) /\ writer' \in Phones \cup {NoOne}
    <3>1. w # NoOne
      BY <1>3, LinkAssumption, Zenon DEF LinkAssumption
    <3>2. CASE Len(input) = 1
      <4>1. Len(input') = 0
        BY ONLY <1>8, <3>2
      <4>2. input' = <<>>
        BY ONLY <1>8, <4>1, EmptySeq
      <4> QED
        BY <1>2, <3>2, <4>2
    <3>3. CASE Len(input) # 1
      <4>1. Len(input') # 0
        BY ONLY <1>3, <1>8, <3>3
      <4>2. input' # <<>>
        BY ONLY <4>1
      <4> QED
        BY <1>2, <1>3, <3>1, <3>3, <4>2
    <3> QED
      BY <3>2, <3>3
  <2>2. Shaped(packet')
    BY <1>2, ShapeStays, Zenon DEF LinkInv, LinkTypes
  <2>3. input' # <<>> => follows' \in {writer', NoOne}
    <3>1. Len(input) = 1 => input' = <<>>
      <4>1. Len(input) = 1 => Len(input') = 0
        BY ONLY <1>8
      <4> QED
        BY ONLY <1>8, <4>1, EmptySeq
    <3> QED
      BY <1>2, <1>3, <3>1, Zenon
  <2> QED
    BY <1>2, <1>8, <2>1, <2>2, <2>3, Zenon DEF LinkInv, LinkTypes
<1>12. Due(w)' = Due(w) - 1
  <2>1. CASE Len(input) = 1
    <3>1. writer' # w
      BY <1>2, <1>3, <2>1, LinkAssumption, Zenon DEF LinkAssumption
    <3>2. Due(w)' = Len(air[w]) + 0
      BY <1>2, <3>1, Zenon DEF Due
    <3> QED
      BY ONLY <1>3, <2>1, <3>2
  <2>2. CASE Len(input) # 1
    <3>1. Due(w)' = Len(air[w]) + Len(input')
      BY <1>2, <2>2, Zenon DEF Due
    <3> QED
      BY ONLY <1>3, <1>8, <3>1
  <2> QED
    BY <2>1, <2>2
<1>13. Parsed(w)' = k + 1
  <2>1. Parsed(w)' = Len(f) - Due(w)'
    BY <1>2, Zenon DEF Parsed, f
  <2> QED
    BY ONLY <1>3, <1>5, <1>6, <1>12, <2>1
<1>14. /\ Due(w) = n + 5 - k /\ Due(w)' = n + 4 - k /\ Parsed(w)' = k + 1
       /\ Due(w) = Len(air[w]) + Len(input) /\ n \in 2 .. 255 /\ k \in 0 .. n + 4
        /\ Len(input) \in Nat \ {0} /\ Len(air[w]) \in Nat /\ Len(input') = Len(input) - 1
  <2>1. Due(w) = Len(air[w]) + Len(input) /\ Len(input) \in Nat \ {0} /\ Len(air[w]) \in Nat
        /\ k \in 0 .. Len(f) - 1 /\ Len(input') = Len(input) - 1
    BY <1>3, <1>8, Zenon
  <2>2. Due(w) = n + 5 - k /\ k \in 0 .. n + 4
    <3>1. Due(w) \in Nat
      BY ONLY <2>1
    <3>2. k = (n + 5) - Due(w) /\ k \in 0 .. (n + 5) - 1 /\ n \in 2 .. 255
      BY <1>5, <1>6, <2>1, Zenon
    <3> QED
      BY ONLY <3>1, <3>2
  <2>3. Due(w)' = n + 4 - k
    BY ONLY <1>5, <1>12, <2>2
  <2> QED
    BY <1>5, <1>13, <2>1, <2>2, <2>3, Zenon
<1>15. \A q \in Phones \ {w} : /\ Due(q)' = Due(q) /\ Parsed(q)' = Parsed(q) /\ Ends(q)' = Ends(q)
                                /\ writer # q /\ writer' # q
  <2> SUFFICES ASSUME NEW q \in Phones \ {w}
               PROVE /\ Due(q)' = Due(q) /\ Parsed(q)' = Parsed(q) /\ Ends(q)' = Ends(q)
                     /\ writer # q /\ writer' # q
    OBVIOUS
  <2>1. writer # q /\ writer' # q
    BY <1>1, <1>2, LinkAssumption DEF LinkAssumption
  <2>2. Due(q)' = Due(q)
    BY <1>2, <2>1, Zenon DEF Due
  <2>3. Parsed(q)' = Parsed(q)
    BY <1>2, <2>2, Zenon DEF Parsed
  <2>4. Ends(q)' = Ends(q)
    BY <1>2, <2>1, <2>2, Zenon DEF Ends
  <2> QED
    BY <2>1, <2>2, <2>3, <2>4
<1>16. Ends(w)'
  <2>1. Due(w)' <= Len(f)
    BY ONLY <1>3, <1>5, <1>6, <1>12
  <2>2. EndsAt(input', f, Len(f) - Len(air[w]))
    <3>1. \A i \in 1 .. Len(input') : i + 1 \in 1 .. Len(input)
            /\ Len(f) - Len(air[w]) - Len(input) + (i + 1) = Len(f) - Len(air[w]) - Len(input') + i
      BY ONLY <1>3, <1>5, <1>8
    <3> QED
      BY ONLY <1>4, <1>8, <3>1 DEF EndsAt
  <2>3. sending'[w] = c /\ air'[w] = air[w] /\ Frame(sending'[w]) = f
    BY <1>2, Zenon DEF f
  <2> QED
    BY <1>4, <2>1, <2>2, <2>3, Zenon DEF Ends
<1>17. AllEnd'
  BY <1>3, <1>15, <1>16, Zenon DEF LinkInv, AllEnd
<1>18. ParserFollows'
  <2> SUFFICES ASSUME NEW q \in Phones, follows' = q, Started(q)'
               PROVE  Reads(packet', sending'[q], Parsed(q)')
    BY Zenon DEF ParserFollows
  <2>1. q = w /\ follows = w
    BY <1>2, <1>3, LinkAssumption, Zenon DEF LinkAssumption
  <2>2. k # n + 4
    <3>1. Due(w)' # 0
      BY <2>1, Zenon DEF Started
    <3> QED
      BY ONLY <1>14, <3>1
  <2>3. Reads(packet', c, k + 1)
    BY <1>10, <2>1, <2>2, Zenon
  <2> QED
    BY <1>2, <1>13, <2>1, <2>3, Zenon
<1>19. ASSUME follows # NoOne
       PROVE  handled' = IF Len(input) = 1 /\ air[follows] = <<>> THEN sending[follows] ELSE Nothing
  <2>1. follows = w
    BY <1>3, <1>19, Zenon
  <2>2. air[w] = <<>> <=> Len(air[w]) = 0
    BY ONLY <1>7, EmptySeq
  <2>3. k = n + 4 <=> Len(input) = 1 /\ Len(air[w]) = 0
    BY ONLY <1>14
  <2>4. k \in 0 .. n + 3 => k # n + 4
    BY ONLY <1>14
  <2> QED
    BY <1>10, <2>1, <2>2, <2>3, <2>4, Zenon
<1> QED
  BY <1>11, <1>17, <1>18, <1>19, Zenon DEF LinkInv
-----------------------------------------------------------------------------
\* Of a frame that begins when the parser is between frames, and that no other
\* phone breaks into, the tool is handed over the command at the last byte and
\* nothing before it: for all phones, commands and sizes of a write, and wherever
\* earlier frames were cut off or mixed (ProductPacket_ParserPacket,
\* ble_parsing_packet).
THEOREM CommandsArrive == Spec => WholeFramesArrive
<1>1. LinkInv /\ [Next]_vars => LinkInv'
  <2> SUFFICES ASSUME LinkInv, [Next]_vars PROVE LinkInv'
    OBVIOUS
  <2>1. CASE ParseByte
    BY <2>1, ParseKeeps
  <2>2. CASE \E p \in Phones : Connect(p)
    BY <2>2, AllKept DEF Connect
  <2>3. CASE \E p \in Phones : Disconnect(p)
    BY <2>3, DisconnectKeeps
  <2>4. CASE \E p \in Phones : Send(p)
    BY <2>4, SendKeeps
  <2>5. CASE \E p \in Phones : Write(p)
    BY <2>5, WriteKeeps
  <2>6. CASE UNCHANGED vars
    BY <2>6, AllKept DEF vars
  <2> QED
    BY <2>1, <2>2, <2>3, <2>4, <2>5, <2>6, Zenon DEF Next
<1>2. LinkInv /\ [Next]_vars =>
        [ParseByte /\ follows # NoOne =>
           handled' = IF Len(input) = 1 /\ air[follows] = <<>> THEN sending[follows] ELSE Nothing]_vars
  BY ParseKeeps, Zenon
<1> QED
  BY <1>1, <1>2, InitKeeps, PTL DEF Spec, WholeFramesArrive
-----------------------------------------------------------------------------
(* Names and listings *)

Starting == {"config", "reset", "name", "default"}
Resting  == Starting \cup {"on", "list"}

\* The files as they are yield the name to keep, or the one being given.
Safe ==
  \/ config \in {acked, trying}
  \/ config \notin Known /\ setting \in {acked, trying}
  \/ config \notin Known /\ setting \notin Known /\ Default \in {acked, trying}

\* A start knows the alias that config.json holds.
StartReadsConfig ==
  /\ at = "config" => alias = NoName
  /\ trouble = "none" /\ at = "name" => alias = config \/ (alias = NoName /\ config \notin Known)
  /\ trouble = "none" /\ at \in {"reset", "default"} => alias = NoName /\ config \notin Known
  /\ trouble = "none" /\ at = "default" => setting = Empty /\ gap = Default

\* A rename changes the setting first, then the alias, then config.json.
RenameInOrder ==
  trouble # "now" =>
    /\ at \in {"save", "saving", "gap"} => setting = trying /\ alias = trying
    /\ at = "saving" => config = Empty
    /\ at = "gap" => config = trying

SafeAtRest ==
  trouble = "none" /\ powerCuts <= 1 /\ at \in Resting =>
    /\ Safe
    /\ at \in {"on", "list"} => gap \in {acked, trying}

\* Before the first cut one of the files still has the acknowledged name.
WholeBeforeCut ==
  trouble = "none" /\ powerCuts = 0 =>
    /\ at \in Resting => trying = acked
    /\ at \notin {"saving", "gap"} =>
         \/ config = acked
         \/ config \notin Known /\ acked = Default /\ setting \in {Missing, Empty, Default, trying}

NameInv == NameTypeOK /\ StartReadsConfig /\ RenameInOrder /\ SafeAtRest /\ WholeBeforeCut
-----------------------------------------------------------------------------
\* What a name and the marks for its absence are.
LEMMA NamesApart ==
  /\ NoName \notin Known /\ Missing \notin Known /\ Empty \notin Known
  /\ Default \in Known /\ Names \subseteq Known
  BY NamesAreNames DEF NamesAreNames, Known

\* A new tool has no name of its own yet, and every file is still missing.
LEMMA InitNameInv == FilesInit => NameInv
<1> SUFFICES ASSUME NameInit PROVE NameInv
  BY DEF FilesInit
<1> USE NamesApart DEF NameInit
<1>1. NameTypeOK
  BY DEF NameTypeOK
<1>2. StartReadsConfig /\ RenameInOrder
  BY DEF StartReadsConfig, RenameInOrder
<1>3. Safe
  BY DEF Safe
<1>4. SafeAtRest /\ WholeBeforeCut
  BY <1>3 DEF SafeAtRest, WholeBeforeCut, Starting, Resting
<1> QED
  BY <1>1, <1>2, <1>4 DEF NameInv

\* Every step of the start and of a rename keeps the invariant.
LEMMA NameStepKeeps == NameInv /\ NameStep => NameInv'
<1> SUFFICES ASSUME NameInv, NameStep PROVE NameInv'
  OBVIOUS
<1> USE NamesApart DEF NameInv, NameTypeOK, StartReadsConfig, RenameInOrder, SafeAtRest, WholeBeforeCut, Safe,
    Starting, Resting, history, Go, Known
<1>1. CASE LoadConfig
  <2>1. CASE config \in {Missing, Empty}
    BY <1>1, <2>1 DEF LoadConfig
  <2>2. CASE config \notin {Missing, Empty}
    BY <1>1, <2>2 DEF LoadConfig
  <2> QED
    BY <2>1, <2>2
<1>2. CASE ResetConfig
  BY <1>2 DEF ResetConfig
<1>3. CASE FindName
  BY <1>3 DEF FindName
<1>4. CASE StoreDefault
  BY <1>4 DEF StoreDefault
<1>5. CASE StoreSetting
  BY <1>5 DEF StoreSetting
<1>6. CASE SaveConfig
  BY <1>6 DEF SaveConfig
<1>7. CASE StoreConfig
  BY <1>7 DEF StoreConfig
<1>8. CASE Acknowledge
  BY <1>8 DEF Acknowledge
<1> QED
  BY <1>1, <1>2, <1>3, <1>4, <1>5, <1>6, <1>7, <1>8 DEF NameStep

\* A rename begins at rest, with one of the files still whole.
LEMMA BeginKeeps == NameInv /\ (\E n \in Names : BeginRename(n)) => NameInv'
<1> SUFFICES ASSUME NameInv, NEW n \in Names, BeginRename(n) PROVE NameInv'
  OBVIOUS
<1> QED
  BY NamesApart DEF BeginRename, NameInv, NameTypeOK, StartReadsConfig, RenameInOrder, SafeAtRest,
     WholeBeforeCut, Safe, Starting, Resting, history, Go, Known

\* A cut keeps the files; the first one finds them with a name to keep.
LEMMA CutKeeps == NameInv /\ Cut => NameInv'
<1> SUFFICES ASSUME NameInv, Cut PROVE NameInv'
  OBVIOUS
<1> USE NamesApart DEF Cut, history, Known
<1>1. NameTypeOK' /\ powerCuts' # 0
  BY DEF NameInv, NameTypeOK
<1>2. StartReadsConfig' /\ RenameInOrder'
  BY DEF StartReadsConfig, RenameInOrder
<1>3. ASSUME trouble = "none", powerCuts = 0 PROVE Safe
  <2>1. CASE at \in {"saving", "gap"}
    BY <1>3, <2>1 DEF NameInv, RenameInOrder, Safe
  <2>2. CASE at \notin {"saving", "gap"}
    BY <1>3, <2>2 DEF NameInv, NameTypeOK, WholeBeforeCut, Safe
  <2> QED
    BY <2>1, <2>2
<1>4. SafeAtRest'
  <2> SUFFICES ASSUME trouble' = "none", powerCuts' <= 1 PROVE Safe
    BY DEF SafeAtRest, Safe
  <2> QED
    BY <1>3 DEF NameInv, NameTypeOK
<1>5. WholeBeforeCut'
  BY <1>1 DEF WholeBeforeCut
<1> QED
  BY <1>1, <1>2, <1>4, <1>5 DEF NameInv

\* Files that are lost are trouble, about which nothing is claimed.
LEMMA LoseKeeps == ASSUME NEW files, NameInv, Lose(files) PROVE NameInv'
  BY NamesApart DEF Lose, NameInv, NameTypeOK, StartReadsConfig, RenameInOrder, SafeAtRest,
     WholeBeforeCut, Safe, Starting, Resting, Known

\* A listing only takes the host task from "on" and gives it back.
LEMMA ListingKeeps == NameInv /\ Listing => NameInv'
<1> SUFFICES ASSUME NameInv, Listing PROVE NameInv'
  OBVIOUS
<1>1. /\ {at, at'} \subseteq {"on", "list"}
      /\ UNCHANGED <<setting, config, alias, gap, trying, acked, powerCuts, trouble>>
  BY DEF Listing, Count, Rewind, Answer, EndList, BeginList, Pass, Go, history, nameVars
<1> QED
  BY <1>1, NamesApart DEF NameInv, NameTypeOK, StartReadsConfig, RenameInOrder, SafeAtRest,
     WholeBeforeCut, Safe, Starting, Resting, Known

\* What leaves the variables of the name alone keeps the invariant.
LEMMA StutterKeeps == NameInv /\ UNCHANGED nameVars => NameInv'
  BY DEF nameVars, NameInv, NameTypeOK, StartReadsConfig, RenameInOrder, SafeAtRest,
     WholeBeforeCut, Safe

LEMMA NextKeeps == NameInv /\ [FilesNext]_filesVars => NameInv'
<1> SUFFICES ASSUME NameInv, [FilesNext]_filesVars PROVE NameInv'
  OBVIOUS
<1>1. CASE Listing
  BY <1>1, ListingKeeps
<1>2. CASE Naming
  BY <1>2, NameStepKeeps, BeginKeeps DEF Naming
<1>3. CASE Changes
  BY <1>3, LoseKeeps, StutterKeeps DEF Changes, Store, DeleteSd, DeleteFat, FormatSd, FormatFat
<1>4. CASE Restart
  BY <1>4, CutKeeps DEF Restart
<1>5. CASE UNCHANGED filesVars
  BY <1>5, StutterKeeps DEF filesVars
<1> QED
  BY <1>1, <1>2, <1>3, <1>4, <1>5 DEF FilesNext

\* The types of the device name's state hold for any set of names, any card
\* and any order of commands, requests, cuts and restarts.
THEOREM NameTypesHold == FilesSpec => []NameTypeOK
<1>1. NameInv => NameTypeOK
  BY DEF NameInv
<1> QED
  BY InitNameInv, NextKeeps, <1>1, PTL DEF FilesSpec

\* The rename command (ble_cmd_parser.c) writes ble_setting.txt and then
\* config.json: whenever one cut comes, one of the two holds the name that was
\* acknowledged, or the one that was being given, and the start finds it.
THEOREM OneCutKeepsName == FilesSpec => []NameSurvivesOneCut
<1>1. NameInv => NameSurvivesOneCut
  BY DEF NameInv, SafeAtRest, Resting, NameSurvivesOneCut
<1> QED
  BY InitNameInv, NextKeeps, <1>1, PTL DEF FilesSpec
-----------------------------------------------------------------------------
(***************************************************************************)
(* The listings.                                                           *)
(***************************************************************************)
ListTypes ==
  /\ list \in [of : {"none", "sd", "fat"}, pass : 0 .. 3, slot : Nat, total : Nat,
               sent : SUBSET Nat, stable : SUBSET Nat, changed : BOOLEAN]
  /\ card \in SUBSET (1 .. CardSlots)

\* A listing goes on as long as the host task is in the command.
ListUnderWay == at = "list" <=> list.pass \in {1, 2}

\* What a listing knows to be stable is there; as long as nothing has changed
\* that is all there is.
StableIsThere ==
  list.pass \in {1, 2} => list.stable \subseteq Listed /\ (~list.changed => list.stable = Listed)

\* The slots up to the one that a pass has reached.
UpTo(files, slot) == {s \in files : s <= slot}

Counting ==
  list.pass = 1 =>
    /\ list.sent = {}
    /\ list.total = 0 => \A s \in list.stable : s > list.slot
    /\ ~list.changed => list.total = Cardinality(UpTo(Listed, list.slot))

Answering ==
  list.pass = 2 =>
    /\ \A s \in list.stable : s <= list.slot => s \in list.sent
    /\ ~list.changed => list.sent = UpTo(Listed, list.slot) /\ list.total = Cardinality(Listed)

ListInv == ListTypes /\ ListUnderWay /\ StableIsThere /\ Counting /\ Answering /\ ListsWhatStays

\* A directory has finitely many files, in numbered slots.
LEMMA FilesFinite ==
  ASSUME NEW mount, NEW c \in SUBSET (1 .. CardSlots), NEW f1, NEW f2
  PROVE  /\ Files(mount, c, f1, f2) \subseteq Slots(mount)
         /\ Files(mount, c, f1, f2) \in SUBSET Nat
         /\ IsFiniteSet(Files(mount, c, f1, f2))
         /\ 0 \notin Files(mount, c, f1, f2)
<1>1. Files(mount, c, f1, f2) \subseteq Slots(mount)
  BY DEF Files, Slots
<1>2. IsFiniteSet(Slots(mount))
  <2>1. CardSlots \in Int /\ 1 \in Int /\ 2 \in Int
    BY CardAssumption DEF CardAssumption
  <2>2. IsFiniteSet(1 .. CardSlots)
    BY <2>1, FS_Interval
  <2>3. IsFiniteSet(1 .. 2)
    BY <2>1, FS_Interval
  <2> QED BY <2>2, <2>3 DEF Slots
<1>3. Slots(mount) \subseteq Nat /\ 0 \notin Slots(mount)
  BY CardAssumption DEF CardAssumption, Slots
<1>4. IsFiniteSet(Files(mount, c, f1, f2))
  BY <1>1, <1>2, FS_Subset
<1> QED BY <1>1, <1>3, <1>4

LEMMA ListedFinite ==
  ASSUME ListTypes
  PROVE  /\ Listed \subseteq Slots(list.of) /\ Listed \in SUBSET Nat
         /\ IsFiniteSet(Listed) /\ 0 \notin Listed
  BY FilesFinite DEF ListTypes, Listed

\* A pass goes on to the next slot.
LEMMA NextSlot ==
  ASSUME NEW files \in SUBSET Nat, IsFiniteSet(files), NEW slot \in Nat
  PROVE  /\ Cardinality(UpTo(files, slot)) \in Nat
         /\ slot + 1 \in files =>
              /\ UpTo(files, slot + 1) = UpTo(files, slot) \cup {slot + 1}
              /\ Cardinality(UpTo(files, slot + 1)) = Cardinality(UpTo(files, slot)) + 1
         /\ slot + 1 \notin files => UpTo(files, slot + 1) = UpTo(files, slot)
<1>1. IsFiniteSet(UpTo(files, slot))
  <2>1. UpTo(files, slot) \in SUBSET files
    BY DEF UpTo
  <2> QED BY <2>1, FS_Subset
<1>2. \A s \in files : s <= slot + 1 <=> s <= slot \/ s = slot + 1
  OBVIOUS
<1>3. slot + 1 \notin files => UpTo(files, slot + 1) = UpTo(files, slot)
  BY <1>2 DEF UpTo
<1>4. ASSUME slot + 1 \in files
      PROVE  UpTo(files, slot + 1) = UpTo(files, slot) \cup {slot + 1}
  BY <1>2, <1>4 DEF UpTo
<1>5. slot + 1 \notin UpTo(files, slot)
  BY DEF UpTo
<1>6. Cardinality(UpTo(files, slot)) \in Nat
  BY <1>1, FS_CardinalityType
<1>7. Cardinality(UpTo(files, slot) \cup {slot + 1}) = Cardinality(UpTo(files, slot)) + 1
  BY <1>1, <1>5, FS_AddElement
<1> QED BY <1>3, <1>4, <1>6, <1>7

\* A pass begins before the first slot.
LEMMA NothingUpToZero ==
  ASSUME NEW files \in SUBSET Nat, 0 \notin files
  PROVE  /\ UpTo(files, 0) = {} /\ Cardinality(UpTo(files, 0)) = 0
         /\ \A s \in files : s > 0 /\ ~(s <= 0)
<1>1. \A s \in files : s > 0 /\ ~(s <= 0)
  OBVIOUS
<1>2. UpTo(files, 0) = {}
  BY <1>1 DEF UpTo
<1> QED BY <1>1, <1>2, FS_EmptySet

\* At the end of a pass every file was looked at.
LEMMA WholeDirectory == ASSUME ListTypes, AtEnd PROVE UpTo(Listed, list.slot) = Listed
<1>1. \A s \in Listed : s <= list.slot
  BY ListedFinite DEF AtEnd
<1> QED BY <1>1 DEF UpTo

\* A listing keeps its shape.
LEMMA ListKeepsTypes ==
  ASSUME ListTypes, NEW pass \in 0 .. 3, NEW slot \in Nat, NEW total \in Nat,
         NEW sent \in SUBSET Nat, UNCHANGED card,
         list' = [of |-> list.of, pass |-> pass, slot |-> slot, total |-> total, sent |-> sent,
                  stable |-> list.stable, changed |-> list.changed]
  PROVE  ListTypes'
  BY DEF ListTypes

LEMMA BeginListKeeps == ASSUME NEW mount \in {"sd", "fat"}, ListInv, BeginList(mount) PROVE ListInv'
<1>1. list' = [of |-> mount, pass |-> 1, slot |-> 0, total |-> 0, sent |-> {},
               stable |-> Files(mount, card, setting, config), changed |-> FALSE]
      /\ at' = "list" /\ UNCHANGED <<card, setting, config>>
  BY DEF BeginList, NoList, Go
<1>2. Listed' = Files(mount, card, setting, config)
  BY <1>1 DEF Listed
<1>3. ListTypes'
  BY <1>1, FilesFinite DEF ListInv, ListTypes
<1>4. Listed' \in SUBSET Nat /\ 0 \notin Listed'
  BY <1>2, FilesFinite DEF ListInv, ListTypes
<1>5. UpTo(Listed', 0) = {} /\ Cardinality(UpTo(Listed', 0)) = 0 /\ \A s \in Listed' : s > 0
  BY <1>4, NothingUpToZero
<1>6. /\ list'.pass = 1 /\ list'.slot = 0 /\ list'.total = 0 /\ list'.sent = {}
      /\ list'.stable = Listed'
  BY <1>1, <1>2
<1>7. Counting'
  BY <1>5, <1>6 DEF Counting
<1> QED BY <1>1, <1>3, <1>6, <1>7
        DEF ListInv, ListUnderWay, StableIsThere, Answering, ListsWhatStays

LEMMA CountKeeps == ASSUME ListInv, Count PROVE ListInv'
<1> DEFINE total == IF list.slot + 1 \in Listed THEN list.total + 1 ELSE list.total
<1>1. /\ list.pass = 1 /\ at = "list" /\ UNCHANGED <<at, card, setting, config>>
      /\ list' = [list EXCEPT !.slot = @ + 1, !.total = total]
  BY DEF Count, Pass, nameVars
<1>2. /\ total \in Nat /\ list.slot \in Nat /\ list.total \in Nat /\ list.sent \in SUBSET Nat
      /\ 1 \in 0 .. 3 /\ list.slot + 1 \in Nat
      /\ list.slot + 1 \in Listed => total = list.total + 1
      /\ list.slot + 1 \notin Listed => total = list.total
  BY DEF ListInv, ListTypes
<1> HIDE DEF total
<1>3. list' = [of |-> list.of, pass |-> 1, slot |-> list.slot + 1, total |-> total,
               sent |-> list.sent, stable |-> list.stable, changed |-> list.changed]
  BY <1>1 DEF ListInv, ListTypes
<1>4. ListTypes'
  BY <1>1, <1>2, <1>3, ListKeepsTypes DEF ListInv
<1>5. /\ list'.of = list.of /\ list'.pass = 1 /\ list'.slot = list.slot + 1 /\ list'.total = total
      /\ list'.sent = list.sent /\ list'.stable = list.stable /\ list'.changed = list.changed
  BY <1>3
<1>6. Listed' = Listed
  BY <1>1, <1>2, <1>5 DEF Listed
<1>7. Listed \in SUBSET Nat /\ IsFiniteSet(Listed)
  BY ListedFinite DEF ListInv
<1>8. Counting'
  <2>1. ASSUME list'.total = 0, NEW s \in list'.stable PROVE s > list'.slot
    <3>1. list.slot + 1 \notin Listed /\ list.total = 0
      BY <1>2, <1>5, <2>1
    <3>2. s \in Listed /\ s > list.slot
      BY <1>1, <1>2, <1>5, <2>1, <3>1 DEF ListInv, StableIsThere, Counting
    <3>3. s \in Nat /\ s # list.slot + 1
      BY <1>7, <3>1, <3>2
    <3> QED BY <1>2, <1>5, <3>2, <3>3
  <2>2. ASSUME ~list'.changed PROVE list'.total = Cardinality(UpTo(Listed', list'.slot))
    <3>1. list.total = Cardinality(UpTo(Listed, list.slot))
      BY <1>1, <1>2, <1>5, <2>2 DEF ListInv, Counting
    <3> QED BY <1>2, <1>5, <1>6, <1>7, <3>1, NextSlot
  <2>3. list'.sent = {}
    BY <1>1, <1>2, <1>5 DEF ListInv, Counting
  <2> QED BY <2>1, <2>2, <2>3 DEF Counting
<1> QED BY <1>1, <1>4, <1>2, <1>5, <1>6, <1>8
        DEF ListInv, ListUnderWay, StableIsThere, Answering, ListsWhatStays

LEMMA RewindKeeps == ASSUME ListInv, Rewind PROVE ListInv'
<1>1. list.pass = 1 /\ AtEnd /\ at = "list" /\ UNCHANGED <<card, setting, config>>
  BY DEF Rewind, Pass
<1>2. UpTo(Listed, list.slot) = Listed /\ Listed \in SUBSET Nat /\ 0 \notin Listed
  BY <1>1, WholeDirectory, ListedFinite DEF ListInv
<1>3. list.stable \subseteq Listed
  BY <1>1 DEF ListInv, StableIsThere
<1>4. CASE list.total # 0 /\ list' = [list EXCEPT !.pass = 2, !.slot = 0] /\ UNCHANGED at
  <2>0. list' = [of |-> list.of, pass |-> 2, slot |-> 0, total |-> list.total, sent |-> list.sent,
                 stable |-> list.stable, changed |-> list.changed]
        /\ list.total \in Nat /\ list.sent \in SUBSET Nat
    BY <1>4 DEF ListInv, ListTypes
  <2>1. ListTypes'
    BY <1>1, <2>0, ListKeepsTypes DEF ListInv
  <2>2. /\ list'.of = list.of /\ list'.pass = 2 /\ list'.slot = 0 /\ list'.total = list.total
        /\ list'.sent = list.sent /\ list'.stable = list.stable /\ list'.changed = list.changed
    BY <1>4 DEF ListInv, ListTypes
  <2>3. Listed' = Listed
    BY <1>1, <2>2 DEF Listed
  <2>4. UpTo(Listed, 0) = {} /\ \A s \in Listed : ~(s <= 0)
    BY <1>2, NothingUpToZero
  <2>5. \A s \in list.stable : ~(s <= 0)
    BY <1>2, <1>3, <2>4
  <2>6. list.sent = {} /\ (~list.changed => list.total = Cardinality(Listed))
    BY <1>1, <1>2 DEF ListInv, Counting
  <2>7. Answering'
    BY <2>2, <2>3, <2>4, <2>5, <2>6 DEF Answering
  <2> QED BY <1>1, <1>4, <2>1, <2>2, <2>3, <2>7
          DEF ListInv, ListUnderWay, StableIsThere, Counting, ListsWhatStays
<1>5. CASE at' = "on" /\ list.total = 0 /\ list' = [list EXCEPT !.pass = 3]
  <2>1. ListTypes'
    BY <1>1, <1>5 DEF ListInv, ListTypes
  <2>2. /\ list'.pass = 3 /\ list'.total = 0
        /\ list'.sent = list.sent /\ list'.stable = list.stable
    BY <1>5 DEF ListInv, ListTypes
  <2>3. \A s \in list.stable : s > list.slot /\ s <= list.slot /\ s \in Nat /\ list.slot \in Nat
    BY <1>1, <1>2, <1>3, <1>5 DEF ListInv, ListTypes, Counting, UpTo
  <2>4. list.stable = {} /\ list.sent = {}
    BY <1>1, <2>3 DEF ListInv, Counting
  <2>5. Cardinality({}) = 0
    BY FS_EmptySet
  <2> QED BY <1>5, <2>1, <2>2, <2>4, <2>5
          DEF ListInv, ListUnderWay, StableIsThere, Counting, Answering, ListsWhatStays
<1>6. CASE at' = "on" /\ list' = NoList
  BY <1>1, <1>6 DEF NoList, ListInv, ListTypes, ListUnderWay, StableIsThere, Counting,
                    Answering, ListsWhatStays
<1> QED BY <1>4, <1>5, <1>6 DEF Rewind

LEMMA AnswerKeeps == ASSUME ListInv, Answer PROVE ListInv'
<1> DEFINE sent == IF list.slot + 1 \in Listed THEN list.sent \cup {list.slot + 1} ELSE list.sent
<1>1. /\ list.pass = 2 /\ at = "list" /\ UNCHANGED <<at, card, setting, config>>
      /\ list' = [list EXCEPT !.slot = @ + 1, !.sent = sent]
  BY DEF Answer, Pass, nameVars
<1>2. /\ sent \in SUBSET Nat /\ list.slot \in Nat /\ list.total \in Nat
      /\ 2 \in 0 .. 3 /\ list.slot + 1 \in Nat
      /\ list.slot + 1 \in Listed => sent = list.sent \cup {list.slot + 1}
      /\ list.slot + 1 \notin Listed => sent = list.sent
  BY DEF ListInv, ListTypes
<1> HIDE DEF sent
<1>3. list' = [of |-> list.of, pass |-> 2, slot |-> list.slot + 1, total |-> list.total,
               sent |-> sent, stable |-> list.stable, changed |-> list.changed]
  BY <1>1 DEF ListInv, ListTypes
<1>4. ListTypes'
  BY <1>1, <1>2, <1>3, ListKeepsTypes DEF ListInv
<1>5. /\ list'.of = list.of /\ list'.pass = 2 /\ list'.slot = list.slot + 1
      /\ list'.total = list.total /\ list'.sent = sent
      /\ list'.stable = list.stable /\ list'.changed = list.changed
  BY <1>3
<1>6. Listed' = Listed
  BY <1>1, <1>2, <1>5 DEF Listed
<1>7. Listed \in SUBSET Nat /\ IsFiniteSet(Listed)
  BY ListedFinite DEF ListInv
<1>8. ASSUME NEW s \in list'.stable, s <= list'.slot PROVE s \in list'.sent
  <2>1. s \in Listed /\ s \in Nat /\ (s <= list.slot => s \in list.sent)
    BY <1>1, <1>2, <1>5, <1>7 DEF ListInv, StableIsThere, Answering
  <2> QED BY <1>2, <1>5, <1>8, <2>1
<1>9. ASSUME ~list'.changed
      PROVE  list'.sent = UpTo(Listed', list'.slot) /\ list'.total = Cardinality(Listed')
  <2>1. list.sent = UpTo(Listed, list.slot) /\ list.total = Cardinality(Listed)
    BY <1>1, <1>2, <1>5, <1>9 DEF ListInv, Answering
  <2>2. /\ list.slot + 1 \in Listed => UpTo(Listed, list.slot + 1) = UpTo(Listed, list.slot) \cup {list.slot + 1}
        /\ list.slot + 1 \notin Listed => UpTo(Listed, list.slot + 1) = UpTo(Listed, list.slot)
    BY ONLY <1>2, <1>7, NextSlot
  <2> QED
    BY ONLY <1>2, <1>5, <1>6, <2>1, <2>2, Zenon
<1>10. Answering'
  BY <1>8, <1>9 DEF Answering
<1> QED BY <1>1, <1>2, <1>5, <1>4, <1>6, <1>10
        DEF ListInv, ListUnderWay, StableIsThere, Counting, ListsWhatStays

LEMMA EndListKeeps == ASSUME ListInv, EndList PROVE ListInv'
<1>1. /\ list.pass = 2 /\ at = "list" /\ AtEnd /\ at' = "on" /\ UNCHANGED card
      /\ list' = [list EXCEPT !.pass = 3]
  BY DEF EndList, Pass
<1>2. ListTypes'
  BY <1>1 DEF ListInv, ListTypes
<1>3. /\ list'.pass = 3 /\ list'.total = list.total /\ list'.sent = list.sent
      /\ list'.stable = list.stable /\ list'.changed = list.changed
  BY <1>1 DEF ListInv, ListTypes
<1>4. UpTo(Listed, list.slot) = Listed
  BY <1>1, WholeDirectory DEF ListInv
<1>5. list.stable \subseteq list.sent
  BY <1>1, <1>4 DEF ListInv, StableIsThere, Answering, UpTo
<1>6. list.changed \/ list.total = Cardinality(list.sent)
  BY <1>1, <1>4 DEF ListInv, Answering
<1> QED BY <1>1, <1>2, <1>3, <1>5, <1>6
        DEF ListInv, ListUnderWay, StableIsThere, Counting, Answering, ListsWhatStays

\* A step that changes files is seen by the listing that goes on.
LEMMA TouchedKeeps ==
  ASSUME ListInv, card' \in SUBSET (1 .. CardSlots), UNCHANGED at, Touched
  PROVE  ListInv'
<1> DEFINE files   == Files(list.of, card', setting', config')
           changed == list.changed \/ (at = "list" /\ files # Listed)
           stable  == IF at = "list" THEN list.stable \cap files ELSE list.stable
<1>1. changed \in BOOLEAN
  OBVIOUS
<1>2. stable \in SUBSET Nat
  BY DEF ListInv, ListTypes
<1>3. list' = [list EXCEPT !.changed = changed, !.stable = stable]
  BY DEF Touched
<1>4. /\ at # "list" => changed = list.changed /\ stable = list.stable
      /\ at = "list" => stable = list.stable \cap files
  BY DEF ListInv, ListTypes
<1>5. at = "list" => (~changed <=> ~list.changed /\ files = Listed)
  OBVIOUS
<1> HIDE DEF changed, stable
<1>6. ListTypes'
  BY <1>1, <1>2, <1>3 DEF ListInv, ListTypes
<1>7. /\ list'.of = list.of /\ list'.pass = list.pass /\ list'.slot = list.slot
      /\ list'.total = list.total /\ list'.sent = list.sent
      /\ list'.changed = changed /\ list'.stable = stable
  BY <1>3 DEF ListInv, ListTypes
<1>8. Listed' = files
  BY <1>7 DEF Listed
<1> HIDE DEF files
<1>9. CASE at # "list"
  BY <1>4, <1>6, <1>7, <1>9
     DEF ListInv, ListUnderWay, StableIsThere, Counting, Answering, ListsWhatStays
<1>10. CASE at = "list"
  <2>1. list'.stable = list.stable \cap Listed' /\ (~list'.changed => ~list.changed /\ Listed' = Listed)
    BY <1>4, <1>5, <1>7, <1>8, <1>10
  <2>2. list.pass \in {1, 2}
    BY <1>10 DEF ListInv, ListUnderWay
  <2>3. ListUnderWay' /\ StableIsThere' /\ ListsWhatStays'
    BY <1>7, <1>10, <2>1, <2>2 DEF ListInv, ListUnderWay, StableIsThere, ListsWhatStays
  <2>4. Counting' /\ Answering'
    BY <1>7, <2>1 DEF ListInv, Counting, Answering
  <2> QED BY <1>6, <2>3, <2>4 DEF ListInv
<1> QED BY <1>9, <1>10

LEMMA ListNextKeeps == ListInv /\ [FilesNext]_filesVars => ListInv'
<1> SUFFICES ASSUME ListInv, [FilesNext]_filesVars PROVE ListInv'
  OBVIOUS
<1>1. CASE Listing
  BY <1>1, BeginListKeeps, CountKeeps, RewindKeeps, AnswerKeeps, EndListKeeps DEF Listing
<1>2. ASSUME UNCHANGED <<card, list>>, at # "list", at' # "list" PROVE ListInv'
  BY <1>2 DEF ListInv, ListTypes, ListUnderWay, StableIsThere, Counting, Answering, ListsWhatStays
<1>3. CASE Naming
  BY <1>2, <1>3 DEF Naming, NameStep, LoadConfig, ResetConfig, FindName, StoreDefault,
     StoreSetting, SaveConfig, StoreConfig, Acknowledge, BeginRename, Go
<1>4. CASE Changes
  <2>1. UNCHANGED at /\ Touched /\ card' \in SUBSET (1 .. CardSlots)
    BY <1>4 DEF Changes, Store, DeleteSd, DeleteFat, FormatSd, FormatFat, Lose, nameVars,
       ListInv, ListTypes
  <2> QED BY <2>1, TouchedKeeps
<1>5. CASE Restart
  BY <1>5 DEF Restart, Cut, NoList, ListInv, ListTypes, ListUnderWay, StableIsThere, Counting,
     Answering, ListsWhatStays
<1>6. CASE UNCHANGED filesVars
  BY <1>6 DEF filesVars, nameVars, ListInv, ListTypes, ListUnderWay, StableIsThere, Counting,
     Answering, ListsWhatStays, Listed, UpTo
<1> QED BY <1>1, <1>3, <1>4, <1>5, <1>6 DEF FilesNext

\* ble_send_sdmmc_program_list, ble_send_file_list: a file that stays is in the
\* listing, and a directory that nobody changes is announced with as many
\* answers as are sent, for directories of every size and files that come and go.
THEOREM ListingsAreComplete == FilesSpec => []ListsWhatStays
<1>1. FilesInit => ListInv
  BY DEF FilesInit, NameInit, NoList, ListInv, ListTypes, ListUnderWay, StableIsThere, Counting,
     Answering, ListsWhatStays
<1>2. ListInv => ListsWhatStays
  BY DEF ListInv
<1> QED BY <1>1, <1>2, ListNextKeeps, PTL DEF FilesSpec
=============================================================================
