--------------------------- MODULE Formats_proofs ---------------------------
(***************************************************************************)
(* What the conversion and the packaging make of a file (Formats) is what  *)
(* the file says, for every Intel HEX file and every object file that the  *)
(* assumptions admit, wherever it was cut.                                 *)
(***************************************************************************)
EXTENDS Formats, SequenceTheorems, WellFoundedInduction, TLAPS

\* Every non-empty set of naturals has a least element.
LEMMA Least ==
  ASSUME NEW T \in SUBSET Nat, T # {}
  PROVE  \E m \in T : \A k \in T : m <= k
<1>1. IsWellFoundedOn(OpToRel(<, Nat), Nat)
  BY NatLessThanWellFounded
<1>2. PICK m \in T : \A k \in T : ~ (<<k, m>> \in OpToRel(<, Nat))
  BY <1>1, WFMin
<1>3. ASSUME NEW k \in T, k < m PROVE FALSE
  <2>1. <<k, m>> \in Nat \X Nat /\ <<k, m>>[1] < <<k, m>>[2]
    BY <1>3
  <2>2. <<k, m>> \in OpToRel(<, Nat)
    BY <2>1, Zenon DEF OpToRel
  <2> QED
    BY <1>2, <2>2
<1> QED
  BY <1>3

\* A set that leaves out a number of 0 .. n leaves out a first one.
LEMMA FirstLeftOut ==
  ASSUME NEW n \in Nat, NEW T, ~ (0 .. n \subseteq T)
  PROVE  \E m \in 0 .. n : m \notin T /\ (m # 0 => m - 1 \in T)
<1> DEFINE L == {k \in 0 .. n : k \notin T}
<1>1. L \in SUBSET Nat /\ L # {}
  OBVIOUS
<1>2. PICK m \in L : \A k \in L : m <= k
  BY <1>1, Least
<1>3. m # 0 => m - 1 \in 0 .. n
  BY <1>2
<1> QED
  BY <1>2, <1>3

\* The greatest and the least of some of the first numbers.
LEMMA LeastIsMin ==
  ASSUME NEW S \in SUBSET Nat, S # {}
  PROVE  Min(S) \in S /\ \A k \in S : Min(S) <= k
BY Least DEF Min

LEMMA GreatestIsMax ==
  ASSUME NEW n \in Nat, NEW S \in SUBSET (0 .. n), S # {}
  PROVE  Max(S) \in S /\ \A k \in S : k <= Max(S)
<1> DEFINE T == {n - k : k \in S}
<1>1. T \in SUBSET Nat /\ T # {}
  <2>1. \A k \in S : n - k \in Nat
    OBVIOUS
  <2> QED
    BY <2>1
<1>2. PICK m \in T : \A k \in T : m <= k
  BY <1>1, Least
<1>3. PICK x \in S : m = n - x
  BY <1>2
<1>4. \A k \in S : x >= k
  <2> TAKE k \in S
  <2>1. n - x <= n - k
    BY <1>2, <1>3
  <2> QED
    BY <2>1, <1>3
<1>5. Max(S) \in S /\ \A k \in S : Max(S) >= k
  BY <1>3, <1>4 DEF Max
<1> QED
  BY <1>5

LEMMA LargerOfTwo ==
  ASSUME NEW a \in Int, NEW b \in Int
  PROVE  /\ Max({a, b}) = IF a >= b THEN a ELSE b
         /\ Min({a, b}) = IF a <= b THEN a ELSE b
BY DEF Max, Min
-----------------------------------------------------------------------------
(* The sum of a line *)

SumTo(f, s, n) == f = [i \in 0 .. n |-> IF i = 0 THEN 0 ELSE f[i - 1] + s[i]]

LEMMA SumValue ==
  ASSUME NEW f, NEW s, NEW n, SumTo(f, s, n)
  PROVE  \A i \in 0 .. n : f[i] = IF i = 0 THEN 0 ELSE f[i - 1] + s[i]
<1> DEFINE e(i) == IF i = 0 THEN 0 ELSE f[i - 1] + s[i]
<1>1. f = [i \in 0 .. n |-> e(i)]
  BY Zenon DEF SumTo
<1> HIDE DEF e
<1>2. \A i \in 0 .. n : f[i] = e(i)
  BY <1>1, Zenon
<1> QED
  BY <1>2, Zenon DEF e

LEMMA SumExists ==
  ASSUME NEW s, NEW n \in Nat
  PROVE  \E f : SumTo(f, s, n)
<1> DEFINE T == {k \in Nat : \E f : SumTo(f, s, k)}
<1> SUFFICES ASSUME ~ (0 .. n \subseteq T) PROVE FALSE
  OBVIOUS
<1>1. PICK m \in 0 .. n : m \notin T /\ (m # 0 => m - 1 \in T)
  BY FirstLeftOut
<1>2. m # 0
  <2> DEFINE z == [i \in 0 .. 0 |-> 0]
  <2>1. SumTo(z, s, 0)
    <3>1. \A i \in 0 .. 0 : 0 = IF i = 0 THEN 0 ELSE z[i - 1] + s[i]
      OBVIOUS
    <3> QED
      BY <3>1 DEF SumTo
  <2> QED
    BY <2>1, <1>1
<1>3. PICK f : SumTo(f, s, m - 1)
  BY <1>1, <1>2
<1> DEFINE g == [i \in 0 .. m |-> IF i = m THEN f[m - 1] + s[m] ELSE f[i]]
           e(i) == IF i = 0 THEN 0 ELSE g[i - 1] + s[i]
<1>4. \A i \in 0 .. m - 1 : f[i] = IF i = 0 THEN 0 ELSE f[i - 1] + s[i]
  BY ONLY <1>3, SumValue
<1>5. ASSUME NEW i \in 0 .. m PROVE (IF i = m THEN f[m - 1] + s[m] ELSE f[i]) = e(i)
  <2>1. i # 0 => g[i - 1] = f[i - 1]
    BY <1>2
  <2> QED
    BY <1>2, <1>4, <2>1
<1>6. g = [i \in 0 .. m |-> e(i)]
  BY <1>5, Zenon
<1>7. SumTo(g, s, m)
  BY <1>6, Zenon DEF SumTo
<1> QED
  BY <1>1, <1>7

LEMMA SumIsNat ==
  ASSUME NEW s \in Seq(Bytes)
  PROVE  Sum(s) \in Nat
<1>0. Len(s) \in Nat /\ \A i \in 1 .. Len(s) : s[i] \in Nat
  <2>1. Len(s) \in Nat /\ \A i \in 1 .. Len(s) : s[i] \in Bytes
    BY ONLY s \in Seq(Bytes), LenProperties, ElementOfSeq
  <2>2. \A b \in Bytes : b \in Nat
    BY DEF Bytes
  <2> QED
    BY ONLY <2>1, <2>2
<1> DEFINE n == Len(s)
           f == CHOOSE g : SumTo(g, s, n)
<1>1. n \in Nat /\ \A i \in 1 .. n : s[i] \in Nat
  BY <1>0
<1>2. Sum(s) = f[n]
  BY DEF Sum, SumTo
<1>3. SumTo(f, s, n)
  BY <1>1, SumExists
<1>4. \A i \in 0 .. n : f[i] = IF i = 0 THEN 0 ELSE f[i - 1] + s[i]
  BY ONLY <1>3, SumValue
<1> HIDE DEF f, n
<1> DEFINE T == {k \in 0 .. n : f[k] \in Nat}
<1>5. 0 .. n \subseteq T
  <2> SUFFICES ASSUME ~ (0 .. n \subseteq T) PROVE FALSE
    OBVIOUS
  <2>1. PICK m \in 0 .. n : m \notin T /\ (m # 0 => m - 1 \in T)
    BY <1>1, FirstLeftOut
  <2> QED
    <3>1. m \in 0 .. n /\ f[m] \notin Nat /\ (m # 0 => f[m - 1] \in Nat)
      BY ONLY <2>1
    <3>2. f[m] = IF m = 0 THEN 0 ELSE f[m - 1] + s[m]
      BY ONLY <1>4, <3>1, Zenon
    <3>3. m # 0 => s[m] \in Nat
      BY ONLY <1>1, <3>1
    <3> QED
      BY ONLY <3>1, <3>2, <3>3
<1> QED
  BY <1>1, <1>2, <1>5
-----------------------------------------------------------------------------
(* The tokens of a line *)

Token == Bytes \cup {Start}

LastOf(r) == (256 - (Summands(Len(r.data), r.addr, r.type, r.data) % 256) + r.off) % 256

\* What is used of words: an interval that large is not for the provers to open.
LEMMA WordIsNat ==
  ASSUME NEW w \in Word
  PROVE  w \in Nat /\ w < 65536
<1>1. Bank \in Nat
  BY DEF Bank
<1>2. w \in Nat /\ w < Bank
  BY <1>1 DEF Word
<1> QED
  BY ONLY <1>2 DEF Bank

LEMMA NatIsWord ==
  ASSUME NEW w \in Nat, w < 65536
  PROVE  w \in Word
<1>1. Bank \in Nat /\ w < Bank
  BY DEF Bank
<1> QED
  BY ONLY <1>1, w \in Nat DEF Word

LEMMA NatIsByte ==
  ASSUME NEW w \in Nat, w < 256
  PROVE  w \in Bytes
BY ONLY w \in Nat, w < 256 DEF Bytes

LEMMA TwoBytes ==
  ASSUME NEW w \in Word
  PROVE  w \div 256 \in Bytes /\ w % 256 \in Bytes /\ w = 256 * (w \div 256) + (w % 256)
<1>1. w \in Nat /\ w < 65536
  BY WordIsNat
<1>2. /\ w \div 256 \in Nat /\ w \div 256 < 256 /\ w % 256 \in Nat /\ w % 256 < 256
      /\ w = 256 * (w \div 256) + (w % 256)
  BY ONLY <1>1
<1> QED
  BY ONLY <1>2, NatIsByte

LEMMA RecordTypes ==
  ASSUME NEW r \in Record
  PROVE  /\ r.type \in Bytes /\ r.addr \in Word /\ r.off \in Bytes
         /\ r.data \in Seq(Bytes) /\ Len(r.data) \in Bytes
BY DEF Record

LEMMA SummandsNat ==
  ASSUME NEW n \in Nat, NEW a \in Nat, NEW t \in Nat, NEW s \in Seq(Bytes)
  PROVE  Summands(n, a, t, s) \in Nat
<1>1. Sum(s) \in Nat
  BY SumIsNat
<1> QED
  BY <1>1 DEF Summands

LEMMA LastOfByte ==
  ASSUME NEW r \in Record
  PROVE  LastOf(r) \in Bytes
<1>1. r.type \in Bytes /\ r.addr \in Word /\ r.off \in Bytes /\ r.data \in Seq(Bytes) /\ Len(r.data) \in Bytes
  BY RecordTypes
<1>2. \A x \in Bytes : x \in Nat /\ \A y \in Word : y \in Nat
  BY WordIsNat, SMT DEF Bytes
<1>3. Summands(Len(r.data), r.addr, r.type, r.data) \in Nat
  BY ONLY <1>1, <1>2, SummandsNat
<1>4. ASSUME NEW x \in Nat, NEW y \in Bytes PROVE (256 - (x % 256) + y) % 256 \in Bytes
  BY DEF Bytes
<1>5. PICK x \in Nat : x = Summands(Len(r.data), r.addr, r.type, r.data)
  BY <1>3
<1>6. LastOf(r) = (256 - (x % 256) + r.off) % 256
  BY ONLY <1>5 DEF LastOf
<1> QED
  BY ONLY <1>1, <1>4, <1>6

LEMMA LineTokens ==
  ASSUME NEW r \in Record
  PROVE  LET n == Len(r.data) IN
         /\ Line(r) \in Seq(Token) /\ Len(Line(r)) = n + 6
         /\ Line(r)[1] = Start /\ Line(r)[2] = n
         /\ Line(r)[3] = r.addr \div 256 /\ Line(r)[4] = r.addr % 256 /\ Line(r)[5] = r.type
         /\ \A m \in 1 .. n : Line(r)[5 + m] = r.data[m]
         /\ Line(r)[6 + n] = LastOf(r)
<1> DEFINE n == Len(r.data)
           a == r.addr \div 256
           b == r.addr % 256
           t == r.type
           d == r.data
           c == LastOf(r)
<1>1. r.type \in Bytes /\ r.addr \in Word /\ d \in Seq(Bytes) /\ n \in Bytes
  BY RecordTypes
<1>2. n \in Token /\ a \in Token /\ b \in Token /\ t \in Token /\ c \in Token /\ n \in Nat /\ Start \in Token
  <2>1. c \in Bytes
    BY LastOfByte
  <2>2. ASSUME NEW w \in Word PROVE w \div 256 \in Bytes /\ w % 256 \in Bytes
    BY ONLY w \in Word, TwoBytes, Zenon
  <2>3. \A x \in Bytes : x \in Nat
    BY DEF Bytes
  <2> QED
    BY ONLY <1>1, <2>1, <2>2, <2>3, Zenon DEF Token
<1>3. d \in Seq(Token)
  <2>1. \A i \in 1 .. Len(d) : d[i] \in Token
    BY ONLY <1>1, ElementOfSeq, Zenon DEF Token
  <2> QED
    BY <1>1, <2>1, SeqDef
<1>4. Line(r) = <<Start, n, a, b, t>> \o d \o <<c>>
  BY Zenon DEF Line, LastOf
<1> HIDE DEF a, b, t, d, c
<1> DEFINE head == <<Start, n, a, b, t>>
           tail == <<c>>
           most == head \o d
<1>5. /\ head \in Seq(Token) /\ Len(head) = 5 /\ head[1] = Start /\ head[2] = n
      /\ head[3] = a /\ head[4] = b /\ head[5] = t
      /\ tail \in Seq(Token) /\ Len(tail) = 1 /\ tail[1] = c
  BY ONLY <1>2
<1>6. Len(d) = n
  BY DEF d
<1> HIDE DEF head, tail, n
<1>7. /\ most \in Seq(Token) /\ Len(most) = Len(head) + Len(d)
      /\ \A i \in 1 .. Len(head) + Len(d) :
           most[i] = IF i <= Len(head) THEN head[i] ELSE d[i - Len(head)]
  BY ONLY <1>3, <1>5, ConcatProperties, Zenon
<1> HIDE DEF most
<1> DEFINE all == most \o tail
<1>8. /\ all \in Seq(Token) /\ Len(all) = Len(most) + Len(tail)
      /\ \A i \in 1 .. Len(most) + Len(tail) :
           all[i] = IF i <= Len(most) THEN most[i] ELSE tail[i - Len(most)]
  <2>1. most \in Seq(Token) /\ tail \in Seq(Token)
    BY ONLY <1>5, <1>7
  <2> QED
    BY ONLY <2>1, ConcatProperties, Zenon
<1>9. Line(r) = all
  BY <1>4, Zenon DEF all, most, head, tail
<1> HIDE DEF all
<1>10. /\ all \in Seq(Token) /\ Len(all) = n + 6
       /\ all[1] = Start /\ all[2] = n /\ all[3] = a /\ all[4] = b /\ all[5] = t
       /\ \A m \in 1 .. n : all[5 + m] = d[m]
       /\ all[6 + n] = c
  BY ONLY <1>2, <1>5, <1>6, <1>7, <1>8
<1> QED
  BY ONLY <1>9, <1>10, Zenon DEF n, a, b, t, d, c
-----------------------------------------------------------------------------
(* The tokens of a file *)

TokTo(f, r, n) == f = [i \in 0 .. n |-> IF i = 0 THEN << >> ELSE f[i - 1] \o Line(r[i])]

LEMMA TokValue ==
  ASSUME NEW f, NEW r, NEW n, TokTo(f, r, n)
  PROVE  \A i \in 0 .. n : f[i] = IF i = 0 THEN << >> ELSE f[i - 1] \o Line(r[i])
<1> DEFINE e(i) == IF i = 0 THEN << >> ELSE f[i - 1] \o Line(r[i])
<1>1. f = [i \in 0 .. n |-> e(i)]
  BY Zenon DEF TokTo
<1> HIDE DEF e
<1>2. \A i \in 0 .. n : f[i] = e(i)
  BY <1>1, Zenon
<1> QED
  BY <1>2, Zenon DEF e

LEMMA TokExists ==
  ASSUME NEW r, NEW n \in Nat
  PROVE  \E f : TokTo(f, r, n)
<1> DEFINE T == {k \in Nat : \E f : TokTo(f, r, k)}
<1> SUFFICES ASSUME ~ (0 .. n \subseteq T) PROVE FALSE
  OBVIOUS
<1>1. PICK m \in 0 .. n : m \notin T /\ (m # 0 => m - 1 \in T)
  BY FirstLeftOut
<1>2. m # 0
  <2> DEFINE z == [i \in 0 .. 0 |-> << >>]
  <2>1. TokTo(z, r, 0)
    <3>1. \A i \in 0 .. 0 : << >> = IF i = 0 THEN << >> ELSE z[i - 1] \o Line(r[i])
      OBVIOUS
    <3> QED
      BY <3>1 DEF TokTo
  <2> QED
    BY <2>1, <1>1
<1>3. PICK f : TokTo(f, r, m - 1)
  BY <1>1, <1>2
<1> DEFINE g == [i \in 0 .. m |-> IF i = m THEN f[m - 1] \o Line(r[m]) ELSE f[i]]
           e(i) == IF i = 0 THEN << >> ELSE g[i - 1] \o Line(r[i])
<1>4. \A i \in 0 .. m - 1 : f[i] = IF i = 0 THEN << >> ELSE f[i - 1] \o Line(r[i])
  BY ONLY <1>3, TokValue
<1>5. ASSUME NEW i \in 0 .. m PROVE (IF i = m THEN f[m - 1] \o Line(r[m]) ELSE f[i]) = e(i)
  <2>1. i # 0 => g[i - 1] = f[i - 1]
    BY <1>2
  <2> QED
    BY <1>2, <1>4, <2>1
<1>6. g = [i \in 0 .. m |-> e(i)]
  BY <1>5, Zenon
<1>7. TokTo(g, r, m)
  BY <1>6, Zenon DEF TokTo
<1> QED
  BY <1>1, <1>7

\* Line by line.
LEMMA TokensStep ==
  ASSUME NEW f \in Seq(Record)
  PROVE  /\ TokensTo(f)[0] = << >>
         /\ \A i \in 1 .. Len(f) : TokensTo(f)[i] = TokensTo(f)[i - 1] \o Line(f[i])
<1> DEFINE acc == TokensTo(f)
<1>1. Len(f) \in Nat
  BY LenProperties
<1>2. acc = CHOOSE g : TokTo(g, f, Len(f))
  BY DEF TokensTo, TokTo
<1>3. TokTo(acc, f, Len(f))
  BY <1>1, <1>2, TokExists
<1>4. \A i \in 0 .. Len(f) : acc[i] = IF i = 0 THEN << >> ELSE acc[i - 1] \o Line(f[i])
  BY ONLY <1>3, TokValue
<1> HIDE DEF acc
<1>5. acc[0] = << >>
  BY <1>1, <1>4
<1>6. ASSUME NEW i \in 1 .. Len(f) PROVE acc[i] = acc[i - 1] \o Line(f[i])
  <2>1. i \in 0 .. Len(f) /\ i # 0
    BY <1>1
  <2> QED
    BY ONLY <1>4, <2>1, Zenon
<1> QED
  BY <1>5, <1>6, Zenon DEF acc

LEMMA TokensTyped ==
  ASSUME NEW f \in Seq(Record)
  PROVE  \A i \in 0 .. Len(f) : TokensTo(f)[i] \in Seq(Token)
<1> DEFINE n == Len(f)
           T == {k \in 0 .. n : TokensTo(f)[k] \in Seq(Token)}
<1>1. n \in Nat
  BY LenProperties
<1> SUFFICES ASSUME ~ (0 .. n \subseteq T) PROVE FALSE
  OBVIOUS
<1>2. PICK m \in 0 .. n : m \notin T /\ (m # 0 => m - 1 \in T)
  BY <1>1, FirstLeftOut
<1>3. m # 0
  <2>1. TokensTo(f)[0] \in Seq(Token)
    BY TokensStep, EmptySeq
  <2> QED
    BY <1>2, <2>1
<1>4. m \in 1 .. n /\ TokensTo(f)[m - 1] \in Seq(Token)
  BY <1>1, <1>2, <1>3
<1>5. Line(f[m]) \in Seq(Token)
  BY <1>4, ElementOfSeq, LineTokens
<1>6. TokensTo(f)[m] = TokensTo(f)[m - 1] \o Line(f[m])
  BY <1>4, TokensStep
<1> QED
  BY <1>2, <1>4, <1>5, <1>6, ConcatProperties

LEMMA TokensGrow ==
  ASSUME NEW f \in Seq(Record), NEW i \in 1 .. Len(f)
  PROVE  LET T == TokensTo(f) IN
         /\ Len(T[i - 1]) \in Nat /\ Len(f[i].data) \in Bytes
         /\ Len(T[i]) = Len(T[i - 1]) + Len(f[i].data) + 6
         /\ \A x \in 1 .. Len(T[i - 1]) : T[i][x] = T[i - 1][x]
         /\ \A k \in 1 .. Len(f[i].data) + 6 : T[i][Len(T[i - 1]) + k] = Line(f[i])[k]
<1> DEFINE s == TokensTo(f)[i - 1]
           l == Line(f[i])
           d == Len(f[i].data)
<1>1. Len(f) \in Nat
  BY LenProperties
<1>2. s \in Seq(Token)
  BY <1>1, TokensTyped
<1>3. f[i] \in Record
  BY ElementOfSeq
<1>4. l \in Seq(Token) /\ Len(l) = d + 6 /\ d \in Bytes
  BY <1>3, LineTokens, RecordTypes
<1>5. TokensTo(f)[i] = s \o l
  BY TokensStep
<1>6. Len(s) \in Nat
  BY <1>2, LenProperties
<1> HIDE DEF s, l, d
<1>7. /\ Len(s \o l) = Len(s) + Len(l)
      /\ \A x \in 1 .. Len(s) + Len(l) : (s \o l)[x] = IF x <= Len(s) THEN s[x] ELSE l[x - Len(s)]
  BY ONLY <1>2, <1>4, ConcatProperties, Zenon
<1>8. d \in Nat
  BY <1>4 DEF Bytes
<1>9. /\ Len(s \o l) = Len(s) + d + 6
      /\ \A x \in 1 .. Len(s) : (s \o l)[x] = s[x]
      /\ \A k \in 1 .. d + 6 : (s \o l)[Len(s) + k] = l[k]
  <2>1. ASSUME NEW k \in 1 .. d + 6 PROVE (s \o l)[Len(s) + k] = l[k]
    <3>1. /\ Len(s) + k \in 1 .. Len(s) + Len(l) /\ ~ (Len(s) + k <= Len(s))
          /\ Len(s) + k - Len(s) = k
      BY ONLY <1>4, <1>6, <1>8, k \in 1 .. d + 6
    <3> QED
      BY ONLY <1>7, <3>1
  <2>2. ASSUME NEW x \in 1 .. Len(s) PROVE (s \o l)[x] = s[x]
    BY ONLY <1>4, <1>6, <1>7, <1>8, x \in 1 .. Len(s)
  <2> QED
    BY ONLY <1>4, <1>6, <1>7, <1>8, <2>1, <2>2
<1> QED
  BY <1>4, <1>5, <1>6, <1>9 DEF s, l, d

\* What was there stays there.
LEMMA TokensKept ==
  ASSUME NEW f \in Seq(Record), NEW j \in 0 .. Len(f), NEW i \in 0 .. j
  PROVE  LET T == TokensTo(f) IN
         /\ Len(T[i]) \in Nat /\ Len(T[j]) \in Nat
         /\ Len(T[i]) + 6 * (j - i) <= Len(T[j])
         /\ \A x \in 1 .. Len(T[i]) : T[j][x] = T[i][x]
<1> DEFINE n == Len(f)
           S == TokensTo(f)
           Keeps(k) == /\ Len(S[i]) + 6 * (k - i) <= Len(S[k])
                       /\ \A x \in 1 .. Len(S[i]) : S[k][x] = S[i][x]
           T == {k \in 0 .. n : k >= i => Keeps(k)}
<1>1. n \in Nat
  BY LenProperties
<1>2. \A k \in 0 .. n : Len(S[k]) \in Nat
  BY TokensTyped, LenProperties
<1>3. \A k \in 1 .. n : Len(S[k - 1]) + 6 <= Len(S[k]) /\ \A x \in 1 .. Len(S[k - 1]) : S[k][x] = S[k - 1][x]
  <2> TAKE k \in 1 .. n
  <2>1. /\ Len(S[k]) = Len(S[k - 1]) + Len(f[k].data) + 6 /\ Len(f[k].data) \in Bytes /\ Len(S[k - 1]) \in Nat
        /\ \A x \in 1 .. Len(S[k - 1]) : S[k][x] = S[k - 1][x]
    BY TokensGrow
  <2> DEFINE a == Len(S[k - 1])
             b == Len(S[k])
             d == Len(f[k].data)
  <2>2. b = a + d + 6 /\ a \in Nat /\ d \in Nat
    <3>1. \A y \in Bytes : y \in Nat
      BY DEF Bytes
    <3> QED
      BY ONLY <2>1, <3>1
  <2> HIDE DEF a, b, d
  <2>3. a + 6 <= b
    BY ONLY <2>2
  <2> QED
    BY ONLY <2>1, <2>3, Zenon DEF a, b
<1>0. j \in 0 .. n /\ i \in 0 .. j /\ i \in 0 .. n /\ i <= j
  BY <1>1
<1> HIDE DEF S, n, T
<1>4. 0 .. n \subseteq T
  <2> SUFFICES ASSUME ~ (0 .. n \subseteq T) PROVE FALSE
    OBVIOUS
  <2>1. PICK m \in 0 .. n : m \notin T /\ (m # 0 => m - 1 \in T)
    BY ONLY <1>1, FirstLeftOut, ~ (0 .. n \subseteq T)
  <2>2. m \in 0 .. n /\ m >= i /\ ~ Keeps(m)
    BY ONLY <2>1, m \in 0 .. n DEF T
  <2>3. Keeps(i)
    BY ONLY <1>0, <1>1, <1>2
  <2>4. m # i
    BY ONLY <2>2, <2>3, Zenon
  <2>5. m # 0 /\ m - 1 >= i /\ m - 1 \in 0 .. n /\ m \in 1 .. n /\ i \in Int
    BY ONLY <1>0, <1>1, <2>2, <2>4
  <2>6. Keeps(m - 1)
    BY ONLY <2>1, <2>5 DEF T
  <2>7. Keeps(m)
    <3>1. /\ Len(S[m - 1]) \in Nat /\ Len(S[m]) \in Nat /\ Len(S[i]) \in Nat
          /\ Len(S[m - 1]) + 6 <= Len(S[m])
          /\ Len(S[i]) + 6 * (m - 1 - i) <= Len(S[m - 1])
      BY ONLY <1>0, <1>2, <1>3, <2>2, <2>5, <2>6
    <3>2. /\ Len(S[i]) + 6 * (m - 1 - i) + 6 = Len(S[i]) + 6 * (m - i)
          /\ Len(S[i]) <= Len(S[i]) + 6 * (m - 1 - i)
          /\ Len(S[i]) + 6 * (m - 1 - i) \in Int
      <4> DEFINE a == Len(S[i])
      <4>1. a \in Nat /\ m \in Int /\ i \in Int /\ m - 1 >= i
        BY ONLY <1>1, <2>2, <2>5, <3>1
      <4> HIDE DEF a
      <4>2. a + 6 * (m - 1 - i) + 6 = a + 6 * (m - i) /\ a <= a + 6 * (m - 1 - i) /\ a + 6 * (m - 1 - i) \in Int
        BY ONLY <4>1
      <4> QED
        BY ONLY <4>2, Zenon DEF a
    <3> DEFINE a == Len(S[i])
               b == Len(S[m - 1])
               c == Len(S[m])
               u == a + 6 * (m - 1 - i)
               v == a + 6 * (m - i)
    <3>3. a \in Nat /\ b \in Nat /\ c \in Nat /\ b + 6 <= c /\ u <= b /\ u + 6 = v /\ a <= u /\ u \in Int
      BY ONLY <3>1, <3>2, Zenon
    <3> HIDE DEF a, b, c, u, v
    <3>4. v <= c /\ a <= b
      BY ONLY <3>3
    <3>5. Len(S[i]) + 6 * (m - i) <= Len(S[m])
      BY ONLY <3>4, Zenon DEF a, v, c
    <3>6. ASSUME NEW x \in 1 .. Len(S[i]) PROVE S[m][x] = S[i][x]
      <4>1. x \in 1 .. Len(S[m - 1])
        <5>1. x \in 1 .. a /\ a \in Nat /\ b \in Nat /\ a <= b
          BY ONLY <3>3, <3>4, x \in 1 .. Len(S[i]), Zenon DEF a
        <5>2. x \in 1 .. b
          BY ONLY <5>1
        <5> QED
          BY ONLY <5>2, Zenon DEF b
      <4>2. S[m][x] = S[m - 1][x] /\ S[m - 1][x] = S[i][x]
        BY ONLY <1>3, <2>5, <2>6, <4>1, x \in 1 .. Len(S[i]), Zenon
      <4> QED
        BY ONLY <4>2
    <3> QED
      BY ONLY <3>5, <3>6, Zenon
  <2> QED
    BY ONLY <2>2, <2>7
<1>5. Keeps(j)
  BY ONLY <1>0, <1>4 DEF T
<1>6. Len(S[i]) \in Nat /\ Len(S[j]) \in Nat
  BY ONLY <1>0, <1>2
<1> QED
  BY ONLY <1>5, <1>6, Zenon DEF S

\* The k-th token of a line in the file.
LEMMA TokenAt ==
  ASSUME NEW f \in Seq(Record), NEW i \in 1 .. Len(f), NEW k \in 1 .. Len(f[i].data) + 6
  PROVE  Tokens(f)[Len(TokensTo(f)[i - 1]) + k] = Line(f[i])[k]
<1> DEFINE S == TokensTo(f)
           n == Len(f)
           x == Len(S[i - 1]) + k
<1>1. n \in Nat
  BY LenProperties
<1>2. /\ S[i][x] = Line(f[i])[k] /\ Len(S[i - 1]) \in Nat /\ Len(f[i].data) \in Bytes
      /\ Len(S[i]) = Len(S[i - 1]) + Len(f[i].data) + 6
  BY TokensGrow
<1>3. n \in 0 .. n /\ i \in 0 .. n
  BY <1>1
<1>4. \A y \in 1 .. Len(S[i]) : S[n][y] = S[i][y]
  BY <1>3, TokensKept
<1> HIDE DEF S, n
<1>5. x \in 1 .. Len(S[i])
  <2> DEFINE a == Len(S[i - 1])
             b == Len(S[i])
             d == Len(f[i].data)
  <2>1. \A y \in Bytes : y \in Nat
    BY DEF Bytes
  <2>2. a \in Nat /\ b = a + d + 6 /\ d \in Nat /\ k \in 1 .. d + 6
    BY ONLY <1>2, <2>1, k \in 1 .. Len(f[i].data) + 6
  <2> HIDE DEF a, b, d
  <2>3. a + k \in 1 .. b
    BY ONLY <2>2
  <2> QED
    BY ONLY <2>3, Zenon DEF a, b, x
<1> QED
  BY <1>2, <1>4, <1>5 DEF S, n, Tokens
-----------------------------------------------------------------------------
(* The reader *)

Fields == {"wait", "count", "msb", "lsb", "type", "data"}
Cell   == Bytes \cup {Hole}

HexTypes ==
  hex \in [field : Fields, high : Word, low : Word, segment : Word, type : Bytes,
           want : Bytes, data : Seq(Bytes)]

ConvTypes ==
  conv \in [based : BOOLEAN, base : Nat, error : BOOLEAN] /\ bin \in Seq(Cell)

LEMMA PutCells ==
  ASSUME NEW bytes \in Seq(Cell), NEW place \in Nat, NEW data \in Seq(Bytes)
  PROVE  LET n == Max({place + Len(data), Len(bytes)}) IN
         /\ Put(bytes, place, data) \in Seq(Cell)
         /\ Len(Put(bytes, place, data)) = n /\ n \in Nat
         /\ n >= Len(bytes) /\ n >= place + Len(data) /\ n \in {Len(bytes), place + Len(data)}
         /\ \A i \in 1 .. n :
              Put(bytes, place, data)[i] = IF i - place \in 1 .. Len(data) THEN data[i - place]
                                            ELSE IF i \in 1 .. Len(bytes) THEN bytes[i] ELSE Hole
<1> DEFINE n == Max({place + Len(data), Len(bytes)})
           cell(i) == IF i - place \in 1 .. Len(data) THEN data[i - place]
                      ELSE IF i \in 1 .. Len(bytes) THEN bytes[i] ELSE Hole
           s == [i \in 1 .. n |-> cell(i)]
<1>1. Len(data) \in Nat /\ DOMAIN data = 1 .. Len(data)
  BY LenProperties
<1>2. Len(bytes) \in Nat /\ DOMAIN bytes = 1 .. Len(bytes)
  BY LenProperties
<1>3. n \in Nat /\ n >= Len(bytes) /\ n >= place + Len(data) /\ n \in {Len(bytes), place + Len(data)}
  BY <1>1, <1>2, LargerOfTwo
<1>4. ASSUME NEW i \in 1 .. n PROVE cell(i) \in Cell
  <2>1. i - place \in 1 .. Len(data) => data[i - place] \in Bytes
    BY ElementOfSeq
  <2>2. i \in 1 .. Len(bytes) => bytes[i] \in Cell
    BY ElementOfSeq
  <2> QED
    BY <2>1, <2>2, Zenon DEF Cell
<1>5. Put(bytes, place, data) = s
  BY <1>1, <1>2, Zenon DEF Put
<1> HIDE DEF n, cell
<1>6. s \in [1 .. n -> Cell] /\ \A i \in 1 .. n : s[i] = cell(i)
  BY <1>4
<1>7. s \in Seq(Cell) /\ Len(s) = n
  BY <1>3, <1>6
<1> QED
  BY <1>3, <1>5, <1>6, <1>7, Zenon DEF n, cell

LEMMA HexFields ==
  ASSUME HexTypes
  PROVE  /\ hex.field \in Fields /\ hex.high \in Word /\ hex.low \in Word /\ hex.segment \in Word
         /\ hex.type \in Bytes /\ hex.want \in Bytes /\ hex.data \in Seq(Bytes)
BY DEF HexTypes

LEMMA LinearNat ==
  ASSUME HexTypes
  PROVE  /\ Linear \in Nat
         /\ hex.high = 0 \/ hex.segment = 0 =>
              Linear = (hex.high % 256) * Bank + hex.low + hex.segment * 16
<1>1. PICK h \in Word, l \in Word, s \in Word : h = hex.high /\ l = hex.low /\ s = hex.segment
  BY HexFields, Zenon
<1>2. h \in Nat /\ l \in Nat /\ s \in Nat /\ l < 65536 /\ s < 65536
  BY ONLY h \in Word, l \in Word, s \in Word, WordIsNat, SMT
<1>3. PICK g \in Nat : g = h % 256 /\ g <= 255 /\ (h = 0 => g = 0)
  BY ONLY <1>2
<1>4. PICK x \in Nat : x = g * 65536 + l + s * 16
  BY ONLY <1>2, <1>3
<1>5. h = 0 \/ s = 0 => x < 16777216
  BY ONLY <1>2, <1>3, <1>4
<1>6. x % 16777216 \in Nat /\ (h = 0 \/ s = 0 => x % 16777216 = x)
  BY ONLY <1>4, <1>5
<1>7. x = (hex.high % 256) * Bank + hex.low + hex.segment * 16 /\ Bank = 65536 /\ Window = 256
  BY ONLY <1>1, <1>3, <1>4 DEF Bank, Window
<1>8. Linear = x % 16777216
  BY ONLY <1>7 DEF Linear
<1> QED
  BY ONLY <1>1, <1>6, <1>7, <1>8

LEMMA WordOfTwo ==
  ASSUME NEW s \in Seq(Bytes), Len(s) >= 2
  PROVE  s[1] * 256 + s[2] \in Word
<1>1. 1 \in 1 .. Len(s) /\ 2 \in 1 .. Len(s)
  BY LenProperties
<1>2. s[1] \in Bytes /\ s[2] \in Bytes
  BY ONLY <1>1, s \in Seq(Bytes), ElementOfSeq
<1>3. ASSUME NEW a \in Bytes, NEW b \in Bytes PROVE a * 256 + b \in Word
  <2>1. a \in 0 .. 255 /\ b \in 0 .. 255
    BY Zenon DEF Bytes
  <2>2. a * 256 + b \in Nat /\ a * 256 + b < 65536
    BY ONLY <2>1
  <2> QED
    BY ONLY <2>2, NatIsWord
<1> QED
  BY ONLY <1>2, <1>3, Zenon

\* What the end of a line does.
LEMMA EndReads ==
  ASSUME HexTypes, ConvTypes, NEW check, NEW next \in Fields,
         hex.type \in {2, 4} => hex.want = 2, EndRead(check, next)
  PROVE  /\ HexTypes' /\ ConvTypes' /\ Idle'
         /\ hex'.field = next /\ hex'.want = hex.want /\ hex'.low = hex.low
         /\ hex'.high = IF ~ Idle /\ Accepted(check) /\ hex.type = 4 THEN DataWord ELSE hex.high
         /\ hex'.segment = IF ~ Idle /\ Accepted(check) /\ hex.type = 2 THEN DataWord ELSE hex.segment
         /\ conv.error => conv'.error
         /\ Idle => conv' = conv /\ bin' = bin
         /\ ~ Idle /\ ~ Accepted(check) => conv'.error
         /\ ~ Idle /\ Accepted(check) /\ hex.type # 0 => conv' = conv /\ bin' = bin
         /\ ~ Idle /\ Accepted(check) /\ hex.type = 0 /\ Linear < Base => conv'.error
         /\ ~ Idle /\ Accepted(check) /\ hex.type = 0 /\ ~ (Linear < Base) =>
              /\ conv' = [conv EXCEPT !.based = TRUE, !.base = Base]
              /\ bin' = Put(bin, Linear - Base, hex.data)
<1>1. /\ hex.field \in Fields /\ hex.high \in Word /\ hex.low \in Word /\ hex.segment \in Word
      /\ hex.type \in Bytes /\ hex.want \in Bytes /\ hex.data \in Seq(Bytes)
  BY HexFields
<1>2. << >> \in Seq(Bytes) /\ 0 \in Bytes
  BY DEF Bytes
<1>3. Linear \in Nat
  BY LinearNat
<1>4. conv.base \in Nat /\ conv \in [based : BOOLEAN, base : Nat, error : BOOLEAN] /\ bin \in Seq(Cell)
  BY DEF ConvTypes
<1>5. Base \in Nat
  BY <1>3, <1>4 DEF Base
<1>6. Len(hex.data) \in Nat
  BY <1>1, LenProperties
<1>7. CASE Idle
  <2>1. hex' = [hex EXCEPT !.field = next] /\ conv' = conv /\ bin' = bin
    BY <1>7, Zenon DEF EndRead
  <2>2. HexTypes' /\ hex'.field = next /\ hex'.want = hex.want /\ hex'.low = hex.low
        /\ hex'.high = hex.high /\ hex'.segment = hex.segment /\ hex'.data = hex.data /\ hex'.type = hex.type
    BY <2>1 DEF HexTypes
  <2>3. ConvTypes' /\ Idle'
    BY <1>7, <2>1, <2>2, Zenon DEF ConvTypes, Idle
  <2> QED
    BY ONLY <1>7, <2>1, <2>2, <2>3, Zenon
<1>8. CASE ~ Idle
  <2> DEFINE ok == Accepted(check)
             high == IF ok /\ hex.type = 4 THEN DataWord ELSE hex.high
             seg  == IF ok /\ hex.type = 2 THEN DataWord ELSE hex.segment
  <2>1. DataRead(Matches(check))
        /\ hex' = [hex EXCEPT !.field = next, !.data = << >>, !.type = 0, !.high = high, !.segment = seg]
    BY <1>8, Zenon DEF EndRead
  <2>2. ok /\ hex.type \in {2, 4} => DataWord \in Word
    <3> SUFFICES ASSUME ok, hex.type \in {2, 4} PROVE DataWord \in Word
      OBVIOUS
    <3>1. Len(hex.data) >= 2
      BY <1>6 DEF Accepted
    <3> QED
      BY ONLY <1>1, <3>1, WordOfTwo, Zenon DEF DataWord
  <2>3. high \in Word /\ seg \in Word
    <3>1. CASE ok /\ hex.type = 4
      <4>1. hex.type # 2
        BY <3>1
      <4> QED
        BY <1>1, <2>2, <3>1, <4>1, Zenon
    <3>2. CASE ok /\ hex.type = 2
      <4>1. hex.type # 4
        BY <3>2
      <4> QED
        BY <1>1, <2>2, <3>2, <4>1, Zenon
    <3> QED
      BY ONLY <1>1, <3>1, <3>2, Zenon
  <2> HIDE DEF high, seg
  <2>4. /\ HexTypes' /\ hex'.field = next /\ hex'.want = hex.want /\ hex'.low = hex.low
        /\ hex'.high = high /\ hex'.segment = seg /\ hex'.data = << >> /\ hex'.type = 0
    BY ONLY HexTypes, next \in Fields, <1>2, <2>1, <2>3 DEF HexTypes
  <2>5. Idle'
    BY <2>4, Zenon DEF Idle
  <2>6. CASE ~ ok \/ (hex.type = 0 /\ Linear < Base)
    <3>1. ~ Matches(check) \/ Len(hex.data) < hex.want \/ (hex.type = 0 /\ Linear < Base)
      <4>1. \A a \in Nat, b \in Bytes : ~ (a >= b) => a < b
        BY DEF Bytes
      <4> QED
        BY ONLY <1>1, <1>6, <2>6, <4>1, Zenon DEF ok, Accepted
    <3>2. conv' = [conv EXCEPT !.error = TRUE] /\ bin' = bin
      BY ONLY <2>1, <3>1, Zenon DEF DataRead, Misread
    <3>3. ConvTypes' /\ conv'.error
      BY ONLY <1>4, <3>2 DEF ConvTypes
    <3>4. hex.type # 0 => ~ ok
      BY ONLY <2>6, Zenon
    <3> QED
      BY ONLY <1>8, <2>4, <2>5, <2>6, <3>3, <3>4, Zenon DEF high, seg, ok
  <2>7. CASE ok /\ ~ (hex.type = 0 /\ Linear < Base)
    <3>1. Matches(check) /\ ~ (Len(hex.data) < hex.want)
      <4>1. \A a \in Nat, b \in Bytes : a >= b => ~ (a < b)
        BY DEF Bytes
      <4> QED
        BY ONLY <1>1, <1>6, <2>7, <4>1, Zenon DEF ok, Accepted
    <3>2. CASE hex.type = 0
      <4>1. conv' = [conv EXCEPT !.based = TRUE, !.base = Base] /\ bin' = Put(bin, Linear - Base, hex.data)
        BY ONLY <2>1, <2>7, <3>1, <3>2, Zenon DEF DataRead
      <4>2. Linear - Base \in Nat
        BY ONLY <1>3, <1>5, <2>7, <3>2
      <4>3. bin' \in Seq(Cell)
        BY ONLY <1>1, <1>4, <4>1, <4>2, PutCells, Zenon
      <4>4. conv' \in [based : BOOLEAN, base : Nat, error : BOOLEAN] /\ conv'.error = conv.error
        BY ONLY <1>4, <1>5, <4>1
      <4> QED
        BY ONLY <1>8, <2>4, <2>5, <2>7, <3>2, <4>1, <4>3, <4>4, Zenon DEF high, seg, ok, ConvTypes
    <3>3. CASE hex.type # 0
      <4>1. conv' = conv /\ bin' = bin
        BY ONLY <2>1, <2>7, <3>1, <3>3, Zenon DEF DataRead
      <4>2. ConvTypes'
        BY ONLY <1>4, <4>1, Zenon DEF ConvTypes
      <4> QED
        BY ONLY <1>8, <2>4, <2>5, <2>7, <3>3, <4>1, <4>2, Zenon DEF high, seg, ok
    <3> QED
      BY ONLY <3>2, <3>3, Zenon
  <2> QED
    BY ONLY <2>6, <2>7, Zenon
<1> QED
  BY ONLY <1>7, <1>8, Zenon
-----------------------------------------------------------------------------
(* The reader within a line *)

\* The reader after k bytes of the line of r.
Reads(r, k) ==
  /\ k = 1 => hex.field = "count"
  /\ k = 2 => hex.field = "msb"
  /\ k = 3 => hex.field = "lsb" /\ hex.low = (r.addr \div 256) * 256
  /\ k = 4 => hex.field = "type"
  /\ k >= 5 => hex.field = IF r.type > 7 THEN "wait" ELSE "data"
  /\ k >= 2 => hex.want = Len(r.data)
  /\ k >= 4 => hex.low = r.addr
  /\ k < 5 \/ r.type > 7 => Idle
  /\ k >= 5 /\ ~ (r.type > 7) => hex.type = r.type /\ hex.data = SubSeq(r.data, 1, k - 5)

Same == conv' = conv /\ bin' = bin /\ hex'.high = hex.high /\ hex'.segment = hex.segment

Twos(r) == r.type \in {2, 4} => Len(r.data) = 2

LEMMA ByteNotStart ==
  /\ \A b \in Bytes : b # Start /\ b \in Nat
  /\ Bytes \subseteq Token /\ "count" \in Fields /\ "wait" \in Fields
BY DEF Bytes, Start, Token, Fields

\* The colon finds nothing that a line before it has left.
LEMMA ReadsStart ==
  ASSUME HexTypes, ConvTypes, NEW r, Idle, ReadByte(Start)
  PROVE  HexTypes' /\ ConvTypes' /\ Same /\ Reads(r, 1)'
<1>1. PICK check \in Residue : EndRead(check, "count")
  BY Zenon DEF ReadByte
<1>2. hex.type \in {2, 4} => hex.want = 2
  BY DEF Idle
<1>3. /\ HexTypes' /\ ConvTypes' /\ Idle' /\ hex'.field = "count"
      /\ hex'.high = hex.high /\ hex'.segment = hex.segment /\ conv' = conv /\ bin' = bin
  BY ONLY HexTypes, ConvTypes, Idle, <1>1, <1>2, ByteNotStart, EndReads, Zenon
<1>4. Reads(r, 1)'
  BY ONLY <1>3 DEF Reads
<1> QED
  BY ONLY <1>3, <1>4, Zenon DEF Same

\* The bytes before the data.
LEMMA ReadsHead ==
  ASSUME HexTypes, ConvTypes, NEW r \in Record, NEW k \in 1 .. 4, Reads(r, k), ReadByte(Line(r)[k + 1])
  PROVE  HexTypes' /\ ConvTypes' /\ Same /\ Reads(r, k + 1)'
<1> DEFINE n == Len(r.data)
           a == r.addr \div 256
           l == r.addr % 256
           b == Line(r)[k + 1]
<1>1. r.type \in Bytes /\ r.addr \in Word /\ r.data \in Seq(Bytes) /\ n \in Bytes
  BY RecordTypes
<1>2. a \in Bytes /\ l \in Bytes /\ a * 256 \in Word /\ a * 256 + l = r.addr
  <2>1. a \in Bytes /\ l \in Bytes /\ r.addr = 256 * a + l
    BY <1>1, TwoBytes
  <2>2. ASSUME NEW x \in Bytes PROVE x * 256 \in Word /\ x * 256 = 256 * x
    <3>1. x \in Nat /\ x < 256
      BY ONLY <2>2 DEF Bytes
    <3>2. x * 256 \in Nat /\ x * 256 < 65536 /\ x * 256 = 256 * x
      BY ONLY <3>1
    <3> QED
      BY ONLY <3>2, NatIsWord
  <2> QED
    BY ONLY <2>1, <2>2
<1>3. /\ k = 1 => b = n
      /\ k = 2 => b = a
      /\ k = 3 => b = l
      /\ k = 4 => b = r.type
  BY LineTokens
<1> HIDE DEF n, a, l, b
<1>4. b \in Bytes /\ b # Start
  BY <1>1, <1>2, <1>3, ByteNotStart
<1>5. /\ Idle /\ hex.field # "data" /\ hex.field # "wait"
      /\ k = 1 => hex.field = "count"
      /\ k = 2 => hex.field = "msb" /\ hex.want = n
      /\ k = 3 => hex.field = "lsb" /\ hex.want = n /\ hex.low = a * 256
      /\ k = 4 => hex.field = "type" /\ hex.want = n /\ hex.low = r.addr
  BY DEF Reads, n, a
<1>6. conv' = conv /\ bin' = bin
      /\ hex' = CASE hex.field = "count" -> [[hex EXCEPT !.field = "msb"] EXCEPT !.want = b]
                  [] hex.field = "msb"   -> [[hex EXCEPT !.field = "lsb"] EXCEPT !.low = b * 256]
                  [] hex.field = "lsb"   -> [[hex EXCEPT !.field = "type"] EXCEPT !.low = @ + b]
                  [] hex.field = "type"  -> IF b > 7 THEN [hex EXCEPT !.field = "wait"]
                                            ELSE [[hex EXCEPT !.field = "data"] EXCEPT !.type = b]
                  [] hex.field = "data"  -> [hex EXCEPT !.data = Append(@, b)]
                  [] OTHER               -> hex
  BY <1>4, <1>5, Zenon DEF ReadByte, b
<1>7. conv' = conv /\ bin' = bin /\ ConvTypes'
  BY <1>6, Zenon DEF ConvTypes
<1>8. hex.data = << >> /\ hex.type = 0
  BY <1>5, Zenon DEF Idle
<1>9. CASE k = 1
  <2>1. hex' = [hex EXCEPT !.field = "msb", !.want = n]
    BY <1>3, <1>5, <1>6, <1>9 DEF HexTypes
  <2>2. HexTypes' /\ Same /\ hex'.field = "msb" /\ hex'.want = n /\ hex'.data = << >> /\ hex'.type = 0
    BY ONLY HexTypes, <1>1, <1>6, <1>8, <2>1 DEF HexTypes, Same, Fields, n
  <2>3. Reads(r, 2)'
    BY ONLY <2>2 DEF Reads, Idle, n
  <2> QED
    BY <1>7, <1>9, <2>2, <2>3
<1>10. CASE k = 2
  <2>1. hex' = [hex EXCEPT !.field = "lsb", !.low = a * 256]
    BY <1>3, <1>5, <1>6, <1>10 DEF HexTypes
  <2>2. /\ HexTypes' /\ Same /\ hex'.field = "lsb" /\ hex'.low = a * 256 /\ hex'.want = n
        /\ hex'.data = << >> /\ hex'.type = 0
    <3>1. hex.want = n
      BY <1>5, <1>10
    <3>2. PICK w : w = a * 256
      OBVIOUS
    <3>3. w \in Word
      BY ONLY <1>2, <3>2
    <3>4. hex' = [hex EXCEPT !.field = "lsb", !.low = w]
      BY ONLY <2>1, <3>2
    <3>5. /\ HexTypes' /\ Same /\ hex'.field = "lsb" /\ hex'.low = w /\ hex'.want = n
          /\ hex'.data = << >> /\ hex'.type = 0
      BY ONLY HexTypes, <1>7, <1>8, <3>1, <3>3, <3>4 DEF HexTypes, Same, Fields
    <3> QED
      BY ONLY <3>2, <3>5
  <2>3. Reads(r, 3)'
    BY ONLY <2>2 DEF Reads, Idle, n, a
  <2> QED
    BY <1>7, <1>10, <2>2, <2>3
<1>11. CASE k = 3
  <2>1. hex' = [hex EXCEPT !.field = "type", !.low = r.addr]
    BY <1>2, <1>3, <1>5, <1>6, <1>11 DEF HexTypes
  <2>2. /\ HexTypes' /\ Same /\ hex'.field = "type" /\ hex'.low = r.addr /\ hex'.want = n
        /\ hex'.data = << >> /\ hex'.type = 0
    <3>1. hex.want = n
      BY <1>5, <1>11
    <3> QED
      BY ONLY HexTypes, <1>1, <1>7, <1>8, <2>1, <3>1 DEF HexTypes, Same, Fields
  <2>3. Reads(r, 4)'
    BY ONLY <2>2 DEF Reads, Idle, n
  <2> QED
    BY <1>7, <1>11, <2>2, <2>3
<1>12. CASE k = 4
  <2>1. hex' = IF r.type > 7 THEN [hex EXCEPT !.field = "wait"]
               ELSE [hex EXCEPT !.field = "data", !.type = r.type]
    BY <1>3, <1>5, <1>6, <1>12 DEF HexTypes
  <2>2. /\ HexTypes' /\ Same /\ hex'.field = (IF r.type > 7 THEN "wait" ELSE "data")
        /\ hex'.low = r.addr /\ hex'.want = n /\ hex'.data = << >>
        /\ hex'.type = IF r.type > 7 THEN 0 ELSE r.type
    BY ONLY HexTypes, <1>1, <1>5, <1>6, <1>8, <1>12, <2>1 DEF HexTypes, Same, Fields
  <2>3. SubSeq(r.data, 1, 0) = << >>
    BY SubSeqEmpty
  <2>4. Reads(r, 5)'
    BY ONLY <2>2, <2>3 DEF Reads, Idle, n
  <2> QED
    BY <1>7, <1>12, <2>2, <2>4
<1> QED
  BY <1>9, <1>10, <1>11, <1>12

\* The first data of a line.
LEMMA DataSoFar ==
  ASSUME NEW s \in Seq(Bytes), NEW j \in 0 .. Len(s)
  PROVE  /\ SubSeq(s, 1, j) \in Seq(Bytes) /\ Len(SubSeq(s, 1, j)) = j
         /\ j # 0 => SubSeq(s, 1, j) = Append(SubSeq(s, 1, j - 1), s[j])
<1>1. Len(s) \in Nat
  BY LenProperties
<1>2. 1 \in Int /\ j \in Int /\ \A i \in 1 .. j : s[i] \in Bytes
  BY <1>1, ElementOfSeq
<1>3. SubSeq(s, 1, j) \in Seq(Bytes) /\ Len(SubSeq(s, 1, j)) = j
  <2>1. /\ SubSeq(s, 1, j) \in Seq(Bytes)
        /\ Len(SubSeq(s, 1, j)) = IF 1 <= j THEN j - 1 + 1 ELSE 0
    BY ONLY <1>2, SubSeqProperties, SMT
  <2> QED
    BY <1>1, <2>1
<1>4. ASSUME j # 0 PROVE SubSeq(s, 1, j) = Append(SubSeq(s, 1, j - 1), s[j])
  <2> DEFINE u == SubSeq(s, 1, j)
             v == SubSeq(s, 1, j - 1)
  <2>1. /\ \A i \in 1 .. j : u[i] = s[i]
        /\ v \in Seq(Bytes) /\ Len(v) = j - 1 /\ \A i \in 1 .. j - 1 : v[i] = s[i]
    <3>1. \A i \in 1 .. j - 1 + 1 : u[i] = s[1 + i - 1]
      BY ONLY <1>2, SubSeqProperties, SMT
    <3>2. j - 1 \in Int /\ \A i \in 1 .. j - 1 : s[i] \in Bytes
      BY <1>2
    <3>3. /\ v \in Seq(Bytes) /\ Len(v) = IF 1 <= j - 1 THEN j - 1 - 1 + 1 ELSE 0
          /\ \A i \in 1 .. j - 1 - 1 + 1 : v[i] = s[1 + i - 1]
      BY ONLY <1>2, <3>2, SubSeqProperties, SMT
    <3> HIDE DEF u, v
    <3> QED
      BY <1>1, <1>4, <3>1, <3>3
  <2>2. s[j] \in Bytes
    BY <1>2, <1>4
  <2>3. u \in Seq(Bytes) /\ Len(u) = j
    BY <1>3, Zenon
  <2> HIDE DEF u, v
  <2>4. /\ Append(v, s[j]) \in Seq(Bytes) /\ Len(Append(v, s[j])) = j
        /\ \A i \in 1 .. j : Append(v, s[j])[i] = u[i]
    BY <1>1, <1>4, <2>1, <2>2
  <2>5. u = Append(v, s[j])
    BY ONLY <2>3, <2>4, SeqEqual, Zenon
  <2> QED
    BY <2>5, Zenon DEF u, v
<1> QED
  BY <1>3, <1>4, Zenon

LEMMA ReadsData ==
  ASSUME HexTypes, ConvTypes, NEW r \in Record, NEW k \in Nat, k >= 5, k < Len(r.data) + 5,
         Reads(r, k), ReadByte(Line(r)[k + 1])
  PROVE  HexTypes' /\ ConvTypes' /\ Same /\ Reads(r, k + 1)'
<1> DEFINE n == Len(r.data)
           j == k - 5
           d == r.data
           b == Line(r)[k + 1]
<1>1. r.type \in Bytes /\ d \in Seq(Bytes) /\ n \in Bytes /\ n \in Nat
  <2>1. r.type \in Bytes /\ d \in Seq(Bytes) /\ n \in Bytes
    BY RecordTypes
  <2> QED
    BY <2>1, LenProperties
<1>2. j \in 0 .. n - 1 /\ j + 1 \in 1 .. n /\ j \in 0 .. n /\ j + 1 \in 0 .. n /\ j + 1 # 0 /\ j + 1 - 1 = j
  BY <1>1
<1>3. b = d[j + 1]
  <2>1. \A m \in 1 .. n : Line(r)[5 + m] = d[m]
    BY LineTokens
  <2>2. k + 1 = 5 + (j + 1)
    OBVIOUS
  <2> QED
    BY <1>2, <2>1, <2>2
<1>4. b \in Bytes /\ b # Start
  BY ONLY <1>1, <1>2, <1>3, ElementOfSeq, ByteNotStart
<1>5. Len(d) = n
  OBVIOUS
<1>6. /\ SubSeq(d, 1, j) \in Seq(Bytes) /\ Len(SubSeq(d, 1, j)) = j
      /\ SubSeq(d, 1, j + 1) \in Seq(Bytes)
      /\ SubSeq(d, 1, j + 1) = Append(SubSeq(d, 1, j), d[j + 1])
  <2>1. j \in 0 .. Len(d) /\ j + 1 \in 0 .. Len(d) /\ j + 1 # 0 /\ j + 1 - 1 = j
    BY <1>2, <1>5
  <2> HIDE DEF d, j
  <2> QED
    BY ONLY <1>1, <2>1, DataSoFar
<1>7. /\ hex.field = IF r.type > 7 THEN "wait" ELSE "data"
      /\ hex.want = n /\ hex.low = r.addr
      /\ r.type > 7 => Idle
      /\ ~ (r.type > 7) => hex.type = r.type /\ hex.data = SubSeq(d, 1, j)
  BY DEF Reads
<1>8. k + 1 - 5 = j + 1 /\ k + 1 >= 5 /\ ~ (k + 1 < 5) /\ k + 1 >= 4 /\ k + 1 >= 2
      /\ k + 1 # 1 /\ k + 1 # 2 /\ k + 1 # 3 /\ k + 1 # 4
  OBVIOUS
<1>9. j # n
  BY <1>1, <1>2
<1> DEFINE more == Append(hex.data, b)
<1> HIDE DEF n, j, d, b
<1>10. CASE r.type > 7
  <2>1. hex' = hex /\ conv' = conv /\ bin' = bin
    <3>1. hex.field = "wait"
      BY <1>7, <1>10, Zenon
    <3>2. "wait" # "data" /\ "wait" # "count" /\ "wait" # "msb" /\ "wait" # "lsb" /\ "wait" # "type"
      OBVIOUS
    <3> QED
      BY <1>4, <3>1, <3>2, Zenon DEF ReadByte, b
  <2>2. HexTypes' /\ ConvTypes' /\ Same
    BY <2>1, Zenon DEF HexTypes, ConvTypes, Same
  <2>3. hex'.field = "wait" /\ hex'.want = n /\ hex'.low = r.addr /\ Idle'
    BY ONLY <1>7, <1>10, <2>1, Zenon DEF Idle
  <2>4. Reads(r, k + 1)'
    BY ONLY <1>8, <1>10, <2>3, Zenon DEF Reads, n
  <2> QED
    BY <2>2, <2>4
<1>11. CASE ~ (r.type > 7)
  <2>1. hex.field = "data" /\ hex.type = r.type /\ hex.data = SubSeq(d, 1, j) /\ Len(hex.data) # hex.want
    BY ONLY <1>6, <1>7, <1>9, <1>11, Zenon
  <2>2. hex' = [hex EXCEPT !.data = more] /\ conv' = conv /\ bin' = bin
    <3>1. "data" # "count" /\ "data" # "msb" /\ "data" # "lsb" /\ "data" # "type"
      OBVIOUS
    <3> QED
      BY <1>4, <2>1, <3>1, Zenon DEF ReadByte, b, more
  <2>3. more = SubSeq(d, 1, j + 1) /\ more \in Seq(Bytes)
    BY ONLY <1>3, <1>6, <2>1, Zenon DEF more
  <2> HIDE DEF more
  <2>4. /\ HexTypes' /\ Same /\ hex'.field = hex.field /\ hex'.want = hex.want /\ hex'.low = hex.low
        /\ hex'.type = hex.type /\ hex'.data = more
    BY ONLY HexTypes, <2>2, <2>3 DEF HexTypes, Same
  <2>5. ConvTypes'
    BY <2>2, Zenon DEF ConvTypes
  <2>6. Reads(r, k + 1)'
    <3>1. hex'.field = "data" /\ hex'.want = n /\ hex'.low = r.addr /\ hex'.type = r.type /\ hex'.data = SubSeq(d, 1, j + 1)
      BY ONLY <1>7, <2>1, <2>3, <2>4, Zenon
    <3> QED
      BY ONLY <1>8, <1>11, <3>1 DEF Reads, n, d
  <2> QED
    BY <2>4, <2>5, <2>6
<1> QED
  BY <1>10, <1>11

\* The last byte of a line, which is looked at if the line has a type.
LEMMA ReadsLast ==
  ASSUME HexTypes, ConvTypes, NEW r \in Record, NEW k, k = Len(r.data) + 5,
         Reads(r, k), ReadByte(Line(r)[k + 1])
  PROVE  /\ r.type > 7 => HexTypes' /\ ConvTypes' /\ Same /\ Idle'
         /\ ~ (r.type > 7) =>
              /\ EndRead(LastOf(r), "wait")
              /\ hex.type = r.type /\ hex.data = r.data /\ hex.want = Len(r.data) /\ hex.low = r.addr
<1> DEFINE n == Len(r.data)
           d == r.data
           b == LastOf(r)
<1>1. r.type \in Bytes /\ d \in Seq(Bytes) /\ n \in Nat
  <2>1. r.type \in Bytes /\ d \in Seq(Bytes)
    BY RecordTypes
  <2> QED
    BY <2>1, LenProperties
<1>2. Line(r)[k + 1] = b
  <2>1. Line(r)[6 + n] = b
    BY LineTokens
  <2>2. k + 1 = 6 + n
    BY <1>1
  <2> QED
    BY <2>1, <2>2, Zenon
<1>3. b # Start
  BY LastOfByte, ByteNotStart
<1>4. ReadByte(b)
  BY <1>2, Zenon
<1>5. k >= 5 /\ k >= 2 /\ k >= 4 /\ k - 5 = Len(d)
  BY <1>1
<1>6. /\ hex.field = IF r.type > 7 THEN "wait" ELSE "data"
      /\ hex.want = n /\ hex.low = r.addr
      /\ r.type > 7 => Idle
      /\ ~ (r.type > 7) => hex.type = r.type /\ hex.data = SubSeq(d, 1, Len(d))
  BY <1>5, Zenon DEF Reads
<1>7. SubSeq(d, 1, Len(d)) = d
  BY <1>1, SubSeqFull
<1>8. "wait" # "data" /\ "wait" # "count" /\ "wait" # "msb" /\ "wait" # "lsb" /\ "wait" # "type"
  OBVIOUS
<1>9. CASE r.type > 7
  <2>1. hex' = hex /\ conv' = conv /\ bin' = bin
    BY <1>3, <1>4, <1>6, <1>8, <1>9, Zenon DEF ReadByte
  <2> QED
    BY <1>6, <1>9, <2>1, Zenon DEF HexTypes, ConvTypes, Same, Idle
<1>10. CASE ~ (r.type > 7)
  BY <1>3, <1>4, <1>6, <1>7, <1>10, Zenon DEF ReadByte
<1> QED
  BY <1>9, <1>10
-----------------------------------------------------------------------------
(* The reader's place in the file *)

HexFile ==
  /\ file.format = "ihex" /\ file.records \in HexFiles
  /\ cut \in 0 .. Len(Tokens(file.records))

Lines == Len(file.records)

\* m lines are complete, and k bytes of the next one are read.
Stands(m, k) ==
  /\ m \in 0 .. Lines /\ k \in Nat
  /\ at = Len(TokensTo(file.records)[m]) + k
  /\ k # 0 => m < Lines /\ k <= Len(file.records[m + 1].data) + 5

LEMMA RecordsTyped ==
  ASSUME HexFile
  PROVE  /\ file.records \in Seq(Record) /\ Lines \in Nat
         /\ \A i \in 1 .. Lines :
              /\ file.records[i] \in Record /\ Twos(file.records[i])
              /\ Len(file.records[i].data) \in Nat
              /\ Len(TokensTo(file.records)[i - 1]) \in Nat
              /\ Len(TokensTo(file.records)[i]) = Len(TokensTo(file.records)[i - 1]) + Len(file.records[i].data) + 6
<1>1. PICK f : f = file.records
  OBVIOUS
<1>2. f \in HexFiles
  BY <1>1 DEF HexFile
<1>3. f \in Seq(Record) /\ \A i \in DOMAIN f : f[i].type \in {2, 4} => Len(f[i].data) = 2
  BY <1>2, HexAssumption, Zenon DEF HexAssumption
<1>4. Len(f) \in Nat /\ DOMAIN f = 1 .. Len(f)
  BY ONLY <1>3, LenProperties
<1>5. ASSUME NEW i \in 1 .. Len(f)
      PROVE  /\ f[i] \in Record /\ Twos(f[i]) /\ Len(f[i].data) \in Nat
             /\ Len(TokensTo(f)[i - 1]) \in Nat
             /\ Len(TokensTo(f)[i]) = Len(TokensTo(f)[i - 1]) + Len(f[i].data) + 6
  <2>1. f[i] \in Record
    BY ONLY <1>3, i \in 1 .. Len(f), ElementOfSeq
  <2>2. Len(f[i].data) \in Nat
    BY ONLY <2>1, RecordTypes, ByteNotStart, Zenon
  <2>3. Twos(f[i])
    BY ONLY <1>3, <1>4, i \in 1 .. Len(f), Zenon DEF Twos
  <2>4. /\ Len(TokensTo(f)[i - 1]) \in Nat
        /\ Len(TokensTo(f)[i]) = Len(TokensTo(f)[i - 1]) + Len(f[i].data) + 6
    BY ONLY <1>3, i \in 1 .. Len(f), TokensGrow, Zenon
  <2> QED
    BY ONLY <2>1, <2>2, <2>3, <2>4, Zenon
<1> QED
  BY ONLY <1>1, <1>3, <1>4, <1>5, Zenon DEF Lines

\* The same, counted from the lines that are complete.
LEMMA LineAfter ==
  ASSUME NEW f \in Seq(Record), NEW m \in 0 .. Len(f), m < Len(f)
  PROVE  /\ m + 1 \in 1 .. Len(f) /\ Len(f[m + 1].data) \in Nat
         /\ Len(TokensTo(f)[m]) \in Nat
         /\ Len(TokensTo(f)[m + 1]) = Len(TokensTo(f)[m]) + Len(f[m + 1].data) + 6
         /\ \A k \in 1 .. Len(f[m + 1].data) + 6 :
              Tokens(f)[Len(TokensTo(f)[m]) + k] = Line(f[m + 1])[k]
<1>1. Len(f) \in Nat
  BY LenProperties
<1>2. PICK i : i = m + 1
  OBVIOUS
<1>3. i \in 1 .. Len(f) /\ i - 1 = m
  BY ONLY <1>1, <1>2, m \in 0 .. Len(f), m < Len(f)
<1>4. Len(f[i].data) \in Nat
  BY ONLY f \in Seq(Record), <1>3, ElementOfSeq, RecordTypes, LenProperties
<1>5. /\ Len(TokensTo(f)[i - 1]) \in Nat
      /\ Len(TokensTo(f)[i]) = Len(TokensTo(f)[i - 1]) + Len(f[i].data) + 6
  BY ONLY f \in Seq(Record), <1>3, TokensGrow, Zenon
<1>6. \A k \in 1 .. Len(f[i].data) + 6 : Tokens(f)[Len(TokensTo(f)[i - 1]) + k] = Line(f[i])[k]
  BY ONLY f \in Seq(Record), <1>3, TokenAt, Zenon
<1> QED
  BY ONLY <1>2, <1>3, <1>4, <1>5, <1>6, Zenon

LEMMA NextToken ==
  ASSUME HexFile, NEW m, NEW k, Stands(m, k), at < cut
  PROVE  /\ m + 1 \in 1 .. Lines /\ m < Lines /\ k \in 0 .. Len(file.records[m + 1].data) + 5
         /\ Tokens(file.records)[at + 1] = Line(file.records[m + 1])[k + 1]
<1>1. PICK f : f = file.records
  OBVIOUS
<1>2. f \in Seq(Record) /\ Len(f) \in Nat /\ \A i \in 1 .. Len(f) : Len(f[i].data) \in Nat
  BY <1>1, RecordsTyped, Zenon DEF Lines
<1>3. /\ m \in 0 .. Len(f) /\ k \in Nat /\ at = Len(TokensTo(f)[m]) + k
      /\ k # 0 => m < Len(f) /\ k <= Len(f[m + 1].data) + 5
  BY <1>1, Zenon DEF Stands, Lines
<1>4. cut \in 0 .. Len(TokensTo(f)[Len(f)])
  BY <1>1, Zenon DEF HexFile, Tokens
<1>5. Len(TokensTo(f)[m]) \in Nat
  BY ONLY <1>2, <1>3, TokensTyped, LenProperties
<1>6. m < Len(f)
  <2>1. CASE k = 0
    <3> DEFINE a == Len(TokensTo(f)[m])
               b == Len(TokensTo(f)[Len(f)])
    <3>1. a \in Nat /\ at = a + 0 /\ cut \in 0 .. b /\ at < cut
      BY ONLY <1>3, <1>4, <1>5, <2>1, at < cut, Zenon
    <3>2. b = a \/ m # Len(f)
      BY Zenon
    <3> HIDE DEF a, b
    <3>3. m # Len(f)
      BY ONLY <3>1, <3>2
    <3> QED
      BY ONLY <1>2, <1>3, <3>3
  <2> QED
    BY <1>3, <2>1
<1>7. m + 1 \in 1 .. Len(f) /\ m + 1 - 1 = m
  BY ONLY <1>2, <1>3, <1>6
<1>8. k \in 0 .. Len(f[m + 1].data) + 5 /\ k + 1 \in 1 .. Len(f[m + 1].data) + 6
  BY ONLY <1>2, <1>3, <1>7
<1>9. Tokens(f)[Len(TokensTo(f)[m]) + (k + 1)] = Line(f[m + 1])[k + 1]
  BY ONLY <1>2, <1>3, <1>6, <1>8, LineAfter, Zenon
<1>10. Len(TokensTo(f)[m]) + (k + 1) = at + 1
  <2>1. ASSUME NEW a \in Nat, at = a + k PROVE a + (k + 1) = at + 1
    BY ONLY <1>3, <2>1
  <2> QED
    BY ONLY <1>3, <1>5, <2>1, Zenon
<1> QED
  BY ONLY <1>1, <1>6, <1>7, <1>8, <1>9, <1>10, Zenon DEF Lines

LEMMA NextPlace ==
  ASSUME HexFile, NEW m, NEW k, Stands(m, k), m < Lines, at' = at + 1, file' = file
  PROVE  /\ k < Len(file.records[m + 1].data) + 5 => Stands(m, k + 1)'
         /\ k = Len(file.records[m + 1].data) + 5 => Stands(m + 1, 0)'
<1>1. PICK f : f = file.records
  OBVIOUS
<1>2. f \in Seq(Record) /\ Len(f) \in Nat /\ m \in 0 .. Len(f) /\ m < Len(f) /\ k \in Nat
  BY <1>1, RecordsTyped, Zenon DEF Lines, Stands
<1>3. m + 1 \in 1 .. Len(f) /\ m + 1 \in 0 .. Len(f) /\ m + 1 - 1 = m
  BY ONLY <1>2
<1>4. /\ Len(f[m + 1].data) \in Nat /\ Len(TokensTo(f)[m]) \in Nat
      /\ Len(TokensTo(f)[m + 1]) = Len(TokensTo(f)[m]) + Len(f[m + 1].data) + 6
  BY ONLY <1>2, LineAfter, Zenon
<1>5. at = Len(TokensTo(f)[m]) + k
  BY <1>1, Zenon DEF Stands
<1>6. k + 1 \in Nat /\ at + 1 = Len(TokensTo(f)[m]) + (k + 1)
      /\ (k < Len(f[m + 1].data) + 5 => k + 1 <= Len(f[m + 1].data) + 5)
      /\ (k = Len(f[m + 1].data) + 5 => at + 1 = Len(TokensTo(f)[m + 1]) + 0)
  <2> DEFINE a == Len(TokensTo(f)[m])
             b == Len(TokensTo(f)[m + 1])
             d == Len(f[m + 1].data)
  <2>1. k \in Nat /\ a \in Nat /\ d \in Nat /\ b = a + d + 6 /\ at = a + k
    BY ONLY <1>2, <1>4, <1>5, Zenon
  <2> HIDE DEF a, b, d
  <2>2. k + 1 \in Nat /\ at + 1 = a + (k + 1) /\ (k < d + 5 => k + 1 <= d + 5) /\ (k = d + 5 => at + 1 = b + 0)
    BY ONLY <2>1
  <2> QED
    BY ONLY <2>2, Zenon DEF a, b, d
<1>7. 0 \in Nat
  OBVIOUS
<1> QED
  BY ONLY <1>1, <1>2, <1>3, <1>6, <1>7, at' = at + 1, file' = file, Zenon DEF Stands, Lines

\* Which lines have arrived, as far as has been read.
LEMMA LinesArrived ==
  ASSUME HexFile, NEW m, NEW k, Stands(m, k), at <= cut, at \in Nat
  PROVE  /\ \A i \in 1 .. m : i \in Arrived /\ i \in Summed /\ i \in Records
         /\ k # 0 /\ k = Len(file.records[m + 1].data) + 5 => m + 1 \in Arrived
         /\ at = cut =>
              /\ \A i \in Summed : i \in 1 .. m
              /\ \A i \in Arrived : i \in 1 .. m
                                     \/ (i = m + 1 /\ k # 0 /\ k = Len(file.records[m + 1].data) + 5)
<1>1. PICK f : f = file.records
  OBVIOUS
<1>2. /\ f \in Seq(Record) /\ Len(f) \in Nat /\ m \in 0 .. Len(f) /\ k \in Nat
      /\ at = Len(TokensTo(f)[m]) + k /\ cut \in Int
      /\ k # 0 => m < Len(f) /\ k <= Len(f[m + 1].data) + 5
  <2>1. cut \in Int
    <3>1. cut \in 0 .. Len(Tokens(file.records))
      BY Zenon DEF HexFile
    <3> QED
      BY ONLY <3>1
  <2> QED
    BY <1>1, <2>1, RecordsTyped, Zenon DEF Lines, Stands
<1>3. ASSUME NEW i \in 1 .. Len(f)
      PROVE  /\ Len(f[i].data) \in Nat /\ Len(TokensTo(f)[i - 1]) \in Nat
             /\ Len(TokensTo(f)[i]) = Len(TokensTo(f)[i - 1]) + Len(f[i].data) + 6
  BY <1>1, RecordsTyped, Zenon DEF Lines
<1>4. ASSUME NEW i, NEW j, i \in 0 .. Len(f), j \in 0 .. Len(f), i <= j
      PROVE  Len(TokensTo(f)[i]) \in Nat /\ Len(TokensTo(f)[j]) \in Nat /\ Len(TokensTo(f)[i]) <= Len(TokensTo(f)[j])
  <2>1. i \in 0 .. j /\ j \in 0 .. Len(f) /\ j - i \in Nat
    BY ONLY <1>2, <1>4
  <2>2. /\ Len(TokensTo(f)[i]) \in Nat /\ Len(TokensTo(f)[j]) \in Nat
        /\ Len(TokensTo(f)[i]) + 6 * (j - i) <= Len(TokensTo(f)[j])
    BY ONLY <1>2, <2>1, TokensKept, Zenon
  <2>3. ASSUME NEW a \in Nat, NEW b \in Nat, NEW c \in Nat, a + 6 * c <= b PROVE a <= b
    BY ONLY <2>3
  <2> QED
    BY ONLY <2>1, <2>2, <2>3, Zenon
<1>5. Arrived = {i \in 1 .. Len(f) : Len(TokensTo(f)[i - 1]) + 5 + Len(f[i].data) <= cut}
  BY <1>1, Zenon DEF Arrived, Records, Before
<1>6. ASSUME NEW i \in 1 .. Len(f) PROVE i \in Summed <=> Len(TokensTo(f)[i]) <= cut
  <2>1. PICK j : j = i + 1
    OBVIOUS
  <2>2. j - 1 = i
    BY ONLY <1>2, <2>1, i \in 1 .. Len(f)
  <2>3. Before(j) = Len(TokensTo(f)[i])
    BY ONLY <1>1, <2>2, Zenon DEF Before
  <2>4. i \in Records
    BY ONLY <1>1, i \in 1 .. Len(f), Zenon DEF Records
  <2> QED
    BY ONLY <2>1, <2>3, <2>4, Zenon DEF Summed
<1>7. Records = 1 .. Len(f) /\ Summed \subseteq Records
  BY <1>1, Zenon DEF Records, Summed
<1>8. ASSUME NEW i \in 1 .. m PROVE i \in Arrived /\ i \in Summed /\ i \in Records
  <2>1. i \in 1 .. Len(f) /\ i \in 0 .. Len(f) /\ i <= m
    BY ONLY <1>2, i \in 1 .. m
  <2> DEFINE a == Len(TokensTo(f)[i - 1])
             b == Len(TokensTo(f)[i])
             c == Len(TokensTo(f)[m])
             d == Len(f[i].data)
  <2>2. d \in Nat /\ a \in Nat /\ b = a + d + 6 /\ b \in Nat /\ c \in Nat /\ b <= c /\ at = c + k /\ k \in Nat
    BY ONLY <1>2, <1>3, <1>4, <2>1, Zenon
  <2> HIDE DEF a, b, c, d
  <2>3. b <= cut /\ a + 5 + d <= cut
    BY ONLY <1>2, <2>2, at <= cut
  <2> QED
    BY ONLY <1>5, <1>6, <1>7, <2>1, <2>3, Zenon DEF a, b, d
<1>9. ASSUME k # 0, k = Len(f[m + 1].data) + 5 PROVE m + 1 \in Arrived
  <2>1. PICK i : i = m + 1
    OBVIOUS
  <2>2. i \in 1 .. Len(f) /\ i - 1 = m
    BY ONLY <1>2, <1>9, <2>1
  <2> DEFINE a == Len(TokensTo(f)[i - 1])
             d == Len(f[i].data)
  <2>3. a \in Nat /\ d \in Nat /\ at = a + k /\ k = d + 5 /\ at <= cut /\ cut \in Int
    BY ONLY <1>2, <1>3, <1>9, <2>1, <2>2, at <= cut, Zenon
  <2> HIDE DEF a, d
  <2>4. a + 5 + d <= cut
    BY ONLY <2>3
  <2> QED
    BY ONLY <1>5, <2>1, <2>2, <2>4, Zenon DEF a, d
<1>10. ASSUME at = cut, NEW i \in 1 .. Len(f)
       PROVE  /\ i \in Summed => i \in 1 .. m
              /\ i \in Arrived => i \in 1 .. m \/ (i = m + 1 /\ k # 0 /\ k = Len(f[m + 1].data) + 5)
  <2>1. CASE i \in 1 .. m
    BY <2>1
  <2>2. CASE i = m + 1
    <3> DEFINE a == Len(TokensTo(f)[m])
               b == Len(TokensTo(f)[i])
               d == Len(f[i].data)
    <3>1. i - 1 = m
      BY ONLY <1>2, <2>2
    <3>2. d \in Nat /\ a \in Nat /\ b = a + d + 6 /\ cut = a + k /\ k \in Nat /\ (k # 0 => k <= d + 5)
      BY ONLY <1>2, <1>3, <1>10, <2>2, <3>1, Zenon
    <3> HIDE DEF a, b, d
    <3>3. ~ (b <= cut) /\ (a + 5 + d <= cut => k # 0 /\ k = d + 5)
      BY ONLY <3>2
    <3> QED
      BY ONLY <1>5, <1>6, <2>2, <3>1, <3>3, i \in 1 .. Len(f), Zenon DEF a, b, d
  <2>3. CASE ~ (i \in 1 .. m) /\ i # m + 1
    <3>1. m + 1 \in 1 .. Len(f) /\ m + 1 \in 0 .. Len(f) /\ i - 1 \in 0 .. Len(f) /\ m + 1 <= i - 1
          /\ m + 1 - 1 = m /\ i \in 1 .. Len(f)
      BY ONLY <1>2, <2>3, i \in 1 .. Len(f)
    <3> DEFINE a == Len(TokensTo(f)[m])
               b == Len(TokensTo(f)[m + 1])
               c == Len(TokensTo(f)[i - 1])
               d == Len(TokensTo(f)[i])
               e == Len(f[i].data)
               g == Len(f[m + 1].data)
    <3>2. a \in Nat /\ g \in Nat /\ b = a + g + 6
      <4>1. m \in 0 .. Len(f) /\ m < Len(f)
        BY ONLY <1>2, <3>1
      <4> QED
        BY ONLY <1>2, <4>1, LineAfter, Zenon
    <3>3. c \in Nat /\ e \in Nat /\ d = c + e + 6
      BY ONLY <1>3, <3>1, Zenon
    <3>4. b <= c
      BY ONLY <1>4, <3>1, Zenon
    <3>5. cut = a + k /\ k \in Nat /\ (k # 0 => k <= g + 5)
      BY ONLY <1>2, <1>10, Zenon
    <3> HIDE DEF a, b, c, d, e, g
    <3>6. ~ (d <= cut) /\ ~ (c + 5 + e <= cut)
      BY ONLY <3>2, <3>3, <3>4, <3>5
    <3> QED
      BY ONLY <1>5, <1>6, <3>1, <3>6, Zenon DEF c, d, e
  <2> QED
    BY ONLY <2>1, <2>2, <2>3, Zenon
<1>11. Arrived \subseteq 1 .. Len(f) /\ Summed \subseteq 1 .. Len(f)
  BY ONLY <1>5, <1>7, Zenon
<1> QED
  BY ONLY <1>1, <1>8, <1>9, <1>10, <1>11, Zenon
-----------------------------------------------------------------------------
(* What the lines say *)

Reach == Window * Bank

\* The data lines among the first m.
Known(m) == {i \in DataLines : i <= m}

\* What the first m lines put at an address.
ByteOf(m, a) ==
  LET lines == {i \in Known(m) : Covers(i, a)}
      last == Max(lines)
  IN IF lines = {} THEN Hole ELSE file.records[last].data[a - AddressOf(last) + 1]

\* The upper address that the reader holds after m lines.
UpperAt(m, h) ==
  /\ Extension(m + 1) = h.high * Bank + h.segment * 16
  /\ OfType({2}) = {} => h.segment = 0
  /\ OfType({4}) = {} => h.high = 0

\* What the converter has made of them.
Holds(m, c, b) ==
  /\ Known(m) = {} => ~ c.based /\ b = << >>
  /\ Known(m) # {} => c.based /\ c.base = FirstAddress - (FirstAddress \div Reach) * Reach
  /\ \A i \in Known(m) :
       /\ 0 <= AddressOf(i) - FirstAddress
       /\ AddressOf(i) - FirstAddress + Len(file.records[i].data) <= Len(b)
  /\ \A x \in 1 .. Len(b) : b[x] = ByteOf(m, FirstAddress + x - 1)

LEMMA ReferenceTypes ==
  ASSUME HexFile
  PROVE  /\ Arrived \subseteq 1 .. Lines /\ DataLines \subseteq Arrived
         /\ \A t : OfType(t) \subseteq Arrived
         /\ \A i : Extended(i) \subseteq OfType({2, 4})
         /\ DataLines \in SUBSET Nat
         /\ \A m : Known(m) \subseteq DataLines
<1>1. Arrived \subseteq 1 .. Lines
  BY Zenon DEF Arrived, Records, Lines
<1>2. \A t : OfType(t) \subseteq Arrived
  BY Zenon DEF OfType
<1>3. \A i : Extended(i) \subseteq OfType({2, 4})
  BY Zenon DEF Extended
<1>4. DataLines \subseteq Arrived
  BY ONLY <1>2, Zenon DEF DataLines
<1>5. Lines \in Nat
  BY RecordsTyped
<1>6. 1 .. Lines \subseteq Nat
  BY ONLY <1>5
<1>7. \A m : Known(m) \subseteq DataLines
  BY Zenon DEF Known
<1> QED
  BY ONLY <1>1, <1>2, <1>3, <1>4, <1>6, <1>7, Zenon

\* The line whose extended address holds.
LEMMA LastExtended ==
  ASSUME HexFile, NEW i, Extended(i) # {}
  PROVE  LET l == Max(Extended(i)) IN
         /\ l \in Extended(i) /\ \A j \in Extended(i) : j <= l
         /\ l \in 1 .. Lines /\ file.records[l].type \in {2, 4}
         /\ file.records[l].data[1] * 256 + file.records[l].data[2] \in Word
<1> DEFINE l == Max(Extended(i))
<1>1. Extended(i) \in SUBSET (1 .. Lines)
  BY ReferenceTypes, Zenon
<1>2. Lines \in Nat /\ 1 .. Lines \subseteq 0 .. Lines
  BY RecordsTyped
<1>3. l \in Extended(i) /\ \A j \in Extended(i) : j <= l
  BY ONLY <1>1, <1>2, Extended(i) # {}, GreatestIsMax, Zenon
<1> HIDE DEF l
<1>4. l \in 1 .. Lines
  BY ONLY <1>1, <1>3, Zenon
<1>5. file.records[l].type \in {2, 4}
  BY ONLY <1>3, Zenon DEF Extended, OfType
<1>6. file.records[l] \in Record /\ Len(file.records[l].data) = 2
  BY <1>4, <1>5, RecordsTyped, Zenon DEF Twos
<1>7. file.records[l].data \in Seq(Bytes) /\ Len(file.records[l].data) >= 2
  BY <1>6, RecordTypes
<1>8. file.records[l].data[1] * 256 + file.records[l].data[2] \in Word
  BY ONLY <1>7, WordOfTwo, Zenon
<1> QED
  BY ONLY <1>3, <1>4, <1>5, <1>8, Zenon DEF l

LEMMA AddressNat ==
  ASSUME HexFile, NEW i \in 1 .. Lines
  PROVE  /\ Extension(i) \in Nat /\ AddressOf(i) \in Nat
         /\ AddressOf(i) = file.records[i].addr + Extension(i)
<1>1. file.records[i] \in Record
  BY RecordsTyped
<1>2. file.records[i].addr \in Word
  BY <1>1, RecordTypes
<1> DEFINE l == Max(Extended(i))
           w == file.records[l].data[1] * 256 + file.records[l].data[2]
<1>3. Extension(i) = IF Extended(i) = {} THEN 0 ELSE IF file.records[l].type = 2 THEN w * 16 ELSE w * Bank
  BY Zenon DEF Extension
<1>4. Extended(i) # {} => w \in Word
  BY LastExtended, Zenon
<1> HIDE DEF w
<1>5. ASSUME NEW x \in Word PROVE x \in Nat /\ x * 16 \in Nat /\ x * Bank \in Nat
  <2>1. x \in Nat /\ Bank \in Nat
    BY ONLY <1>5, WordIsNat, SMT DEF Bank
  <2> QED
    BY ONLY <2>1
<1>6. Extension(i) \in Nat
  <2>1. 0 \in Nat
    OBVIOUS
  <2> QED
    BY ONLY <1>3, <1>4, <1>5, <2>1
<1>7. AddressOf(i) = file.records[i].addr + Extension(i)
  BY Zenon DEF AddressOf
<1>8. \A x \in Nat, y \in Nat : x + y \in Nat
  OBVIOUS
<1> QED
  BY ONLY <1>2, <1>5, <1>6, <1>7, <1>8, Zenon

\* The upper address after one more line.
LEMMA UpperStep ==
  ASSUME HexFile, Plain, NEW m \in Nat, NEW h, NEW g, m + 1 \in 1 .. Lines, UpperAt(m, h),
         h.high \in Word, h.segment \in Word,
         NEW r, r = file.records[m + 1], r.type \in {2, 4} => m + 1 \in Arrived,
         g.high = IF r.type = 4 THEN r.data[1] * 256 + r.data[2] ELSE h.high,
         g.segment = IF r.type = 2 THEN r.data[1] * 256 + r.data[2] ELSE h.segment
  PROVE  UpperAt(m + 1, g)
<1> DEFINE i == m + 1
           w == r.data[1] * 256 + r.data[2]
<1>1. CASE ~ (r.type \in {2, 4})
  <2>1. g.high = h.high /\ g.segment = h.segment
    BY <1>1
  <2>2. Extended(i + 1) = Extended(i)
    <3>1. \A j \in OfType({2, 4}) : j \in 1 .. Lines /\ j # i
      <4>1. \A j \in OfType({2, 4}) : file.records[j].type \in {2, 4}
        BY Zenon DEF OfType
      <4> QED
        BY <1>1, <4>1, ReferenceTypes, Zenon
    <3>2. \A j \in OfType({2, 4}) : j < i + 1 <=> j < i
      BY <3>1
    <3> QED
      BY <3>2, Zenon DEF Extended
  <2>3. Extension(i + 1) = Extension(i)
    BY ONLY <2>2, Zenon DEF Extension
  <2> QED
    BY ONLY <2>1, <2>3, UpperAt(m, h), Zenon DEF UpperAt, i
<1>2. CASE r.type \in {2, 4}
  <2>1. i \in Arrived /\ i \in OfType({2, 4}) /\ (r.type = 2 => i \in OfType({2})) /\ (r.type = 4 => i \in OfType({4}))
    BY <1>2, Zenon DEF OfType
  <2>2. i \in Extended(i + 1) /\ \A j \in Extended(i + 1) : j <= i
    <3>1. \A j \in OfType({2, 4}) : j \in 1 .. Lines
      BY ReferenceTypes, Zenon
    <3>2. i < i + 1 /\ \A j \in 1 .. Lines : j < i + 1 => j <= i
      OBVIOUS
    <3> QED
      BY <2>1, <3>1, <3>2, Zenon DEF Extended
  <2>3. i = Max(Extended(i + 1))
    <3>1. Max(Extended(i + 1)) \in Extended(i + 1) /\ \A j \in Extended(i + 1) : j <= Max(Extended(i + 1))
          /\ Max(Extended(i + 1)) \in 1 .. Lines
      BY <2>2, LastExtended, Zenon
    <3>2. \A x \in 1 .. Lines : x <= i /\ i <= x => i = x
      OBVIOUS
    <3> QED
      BY <2>2, <3>1, <3>2, Zenon
  <2>4. Extension(i + 1) = (IF r.type = 2 THEN w * 16 ELSE w * Bank) /\ w \in Word
    <3>1. Extended(i + 1) # {}
      BY <2>2
    <3>2. w \in Word
      BY <2>3, <3>1, LastExtended, Zenon
    <3> QED
      BY <2>3, <3>1, <3>2, Zenon DEF Extension
  <2> HIDE DEF w, i
  <2>5. r.type = 2 => OfType({2}) # {} /\ OfType({4}) = {} /\ h.high = 0
    BY <2>1, Zenon DEF Plain, UpperAt
  <2>6. r.type = 4 => OfType({4}) # {} /\ OfType({2}) = {} /\ h.segment = 0
    BY <2>1, Zenon DEF Plain, UpperAt
  <2>7. ASSUME NEW x \in Word PROVE x * 16 = 0 * Bank + x * 16 /\ x * Bank = x * Bank + 0 * 16
    <3>1. x \in Nat /\ Bank \in Nat
      BY ONLY <2>7, WordIsNat, SMT DEF Bank
    <3> QED
      BY ONLY <3>1
  <2>8. CASE r.type = 2
    <3>1. g.high = 0 /\ g.segment = w /\ Extension(i + 1) = w * 16
      BY ONLY <2>4, <2>5, <2>8, g.high = IF r.type = 4 THEN r.data[1] * 256 + r.data[2] ELSE h.high,
              g.segment = IF r.type = 2 THEN r.data[1] * 256 + r.data[2] ELSE h.segment DEF w
    <3>2. Extension(i + 1) = g.high * Bank + g.segment * 16
      BY ONLY <2>4, <2>7, <3>1
    <3> QED
      BY ONLY <2>5, <2>8, <3>1, <3>2, Zenon DEF UpperAt, i
  <2>9. CASE r.type = 4
    <3>1. r.type # 2
      BY <2>9
    <3>2. g.high = w /\ g.segment = 0 /\ Extension(i + 1) = w * Bank
      BY ONLY <2>4, <2>6, <2>9, <3>1, g.high = IF r.type = 4 THEN r.data[1] * 256 + r.data[2] ELSE h.high,
              g.segment = IF r.type = 2 THEN r.data[1] * 256 + r.data[2] ELSE h.segment DEF w
    <3>3. Extension(i + 1) = g.high * Bank + g.segment * 16
      BY ONLY <2>4, <2>7, <3>2
    <3> QED
      BY ONLY <2>6, <2>9, <3>2, <3>3, Zenon DEF UpperAt, i
  <2> QED
    BY ONLY <1>2, <2>8, <2>9
<1> QED
  BY <1>1, <1>2

\* The address of a line, but for what the mask cuts off.
LEMMA Masked ==
  ASSUME NEW h \in Word, NEW l \in Word, NEW s \in Word, NEW a, h = 0 \/ s = 0,
         a = l + (h * Bank + s * 16)
  PROVE  (h % 256) * Bank + l + s * 16 = a - (a \div Reach) * Reach
<1>1. Bank = 65536 /\ Reach = 16777216
  BY DEF Bank, Reach, Window
<1>2. h \in Nat /\ h < 65536 /\ l \in Nat /\ l < 65536 /\ s \in Nat /\ s < 65536
  BY ONLY h \in Word, l \in Word, s \in Word, WordIsNat
<1>3. CASE h = 0
  <2>1. a = l + s * 16 /\ a \in Nat /\ a < 16777216
    BY ONLY <1>1, <1>2, <1>3, a = l + (h * Bank + s * 16)
  <2>2. a \div 16777216 = 0
    BY ONLY <2>1
  <2>3. h % 256 = 0
    BY ONLY <1>3
  <2> QED
    BY ONLY <1>1, <1>2, <2>1, <2>2, <2>3
<1>4. CASE s = 0
  <2>1. a = l + h * 65536
    BY ONLY <1>1, <1>2, <1>4, a = l + (h * Bank + s * 16)
  <2>2. h = 256 * (h \div 256) + (h % 256) /\ h \div 256 \in Int /\ h % 256 \in Int
        /\ 0 <= h % 256 /\ h % 256 <= 255
    BY ONLY <1>2
  <2>3. PICK q \in Int, e \in Int : q = h \div 256 /\ e = h % 256
    BY ONLY <2>2, Zenon
  <2>4. h = 256 * q + e /\ 0 <= e /\ e <= 255
    BY ONLY <2>2, <2>3, Zenon
  <2>5. ASSUME NEW x \in Int, NEW y \in Int, NEW z \in Int, 0 <= y, y <= 255, 0 <= z, z < 65536
        PROVE  /\ z + (256 * x + y) * 65536 = 16777216 * x + (65536 * y + z)
               /\ (16777216 * x + (65536 * y + z)) \div 16777216 = x
    <3>1. 65536 * y + z >= 0 /\ 65536 * y + z <= 16777215
      BY ONLY <2>5
    <3>2. PICK v \in Int : v = 65536 * y + z
      OBVIOUS
    <3>3. (16777216 * x + v) \div 16777216 = x
      BY ONLY <3>1, <3>2, x \in Int, v \in Int
    <3>4. z + (256 * x + y) * 65536 = 16777216 * x + (65536 * y + z)
      BY ONLY <2>5
    <3> QED
      BY ONLY <3>2, <3>3, <3>4
  <2>6. a = 16777216 * q + (65536 * e + l) /\ a \div 16777216 = q
    BY ONLY <1>2, <2>1, <2>3, <2>4, <2>5
  <2>7. (h % 256) * 65536 + l + s * 16 = 65536 * e + l
    BY ONLY <1>2, <1>4, <2>3
  <2>8. a - q * 16777216 = 65536 * e + l
    BY ONLY <1>2, <2>3, <2>6
  <2> QED
    BY ONLY <1>1, <2>6, <2>7, <2>8
<1> QED
  BY <1>3, <1>4

LEMMA KnownStep ==
  ASSUME HexFile, NEW m \in Nat, m + 1 \in 1 .. Lines
  PROVE  /\ m + 1 \in DataLines => Known(m + 1) = Known(m) \cup {m + 1}
         /\ m + 1 \notin DataLines => Known(m + 1) = Known(m)
         /\ m + 1 \notin Known(m)
<1>1. \A j \in DataLines : j \in Nat
  BY ReferenceTypes, Zenon
<1>2. \A j \in Nat : (j <= m + 1 <=> j <= m \/ j = m + 1) /\ ~ (m + 1 <= m)
  OBVIOUS
<1> QED
  BY <1>1, <1>2 DEF Known

\* A line without data adds nothing.
LEMMA HoldsSame ==
  ASSUME HexFile, NEW m \in Nat, m + 1 \in 1 .. Lines, NEW c, NEW b, m + 1 \notin DataLines, Holds(m, c, b)
  PROVE  Holds(m + 1, c, b)
<1>1. Known(m + 1) = Known(m)
  BY KnownStep
<1>2. \A a : ByteOf(m + 1, a) = ByteOf(m, a)
  BY ONLY <1>1, Zenon DEF ByteOf
<1> QED
  BY ONLY <1>1, <1>2, Holds(m, c, b), Zenon DEF Holds

\* The first data line is where the binary file begins.
LEMMA FirstIsKnown ==
  ASSUME HexFile, NEW m \in Nat, m + 1 \in 1 .. Lines, m + 1 \in DataLines
  PROVE  /\ Known(m) = {} => FirstAddress = AddressOf(m + 1)
         /\ FirstAddress \in Nat /\ \E f \in DataLines : FirstAddress = AddressOf(f)
<1> DEFINE f == Min(DataLines)
<1>1. f \in DataLines /\ \A k \in DataLines : f <= k
  BY ReferenceTypes, LeastIsMin, Zenon
<1>2. f \in 1 .. Lines
  BY <1>1, ReferenceTypes, Zenon
<1>3. FirstAddress = AddressOf(f)
  BY Zenon DEF FirstAddress
<1> HIDE DEF f
<1>4. FirstAddress \in Nat
  BY <1>2, <1>3, AddressNat
<1>5. ASSUME Known(m) = {} PROVE f = m + 1
  <2>1. f <= m + 1 /\ f \in Nat
    BY <1>1, <1>2
  <2>2. ~ (f <= m)
    BY <1>1, <1>5, Zenon DEF Known
  <2> QED
    BY <2>1, <2>2
<1> QED
  BY <1>1, <1>3, <1>4, <1>5, Zenon

\* A data line is written where the file says.
LEMMA HoldsWritten ==
  ASSUME HexFile, Plain, NEW m \in Nat, m + 1 \in 1 .. Lines, m + 1 \in DataLines,
         NEW h, h.high \in Word, h.segment \in Word, UpperAt(m, h),
         NEW c, NEW b \in Seq(Cell), Holds(m, c, b),
         NEW l, l = (h.high % 256) * Bank + file.records[m + 1].addr + h.segment * 16,
         NEW base \in Nat, base = IF c.based THEN c.base ELSE l, ~ (l < base), l \in Nat,
         NEW e, e.based, e.base = base
  PROVE  Holds(m + 1, e, Put(b, l - base, file.records[m + 1].data))
<1> DEFINE A == AddressOf(m + 1)
           F == FirstAddress
           d == file.records[m + 1].data
           o == l - base
           p == Put(b, o, d)
<1>1. d \in Seq(Bytes) /\ file.records[m + 1].addr \in Word /\ DOMAIN d = 1 .. Len(d) /\ Len(d) \in Nat
  <2>1. file.records[m + 1] \in Record
    BY RecordsTyped
  <2>2. d \in Seq(Bytes) /\ file.records[m + 1].addr \in Word
    BY <2>1, RecordTypes
  <2> QED
    BY ONLY <2>2, LenProperties
<1>2. A \in Nat /\ A = file.records[m + 1].addr + (h.high * Bank + h.segment * 16)
  BY AddressNat, Zenon DEF UpperAt
<1>3. h.high = 0 \/ h.segment = 0
  BY Zenon DEF Plain, UpperAt
<1>4. l = A - (A \div Reach) * Reach
  <2> DEFINE u == h.high
             v == file.records[m + 1].addr
             w == h.segment
  <2>1. /\ u \in Word /\ v \in Word /\ w \in Word /\ (u = 0 \/ w = 0)
        /\ A = v + (u * Bank + w * 16) /\ l = (u % 256) * Bank + v + w * 16
    BY <1>1, <1>2, <1>3, Zenon
  <2> HIDE DEF u, v, w, A
  <2>2. (u % 256) * Bank + v + w * 16 = A - (A \div Reach) * Reach
    BY ONLY <2>1, Masked
  <2> QED
    BY ONLY <2>1, <2>2, Zenon
<1>5. F \in Nat /\ (Known(m) = {} => F = A)
  BY FirstIsKnown, Zenon
<1>6. A \div Reach = F \div Reach
  <2>1. PICK f \in DataLines : F = AddressOf(f)
    BY FirstIsKnown, Zenon
  <2> QED
    BY <2>1, Zenon DEF Plain, Reach
<1>7. base = F - (F \div Reach) * Reach
  <2>1. CASE Known(m) = {}
    <3>1. ~ c.based
      BY <2>1, Zenon DEF Holds
    <3> QED
      BY <1>4, <1>5, <2>1, <3>1, Zenon
  <2>2. CASE Known(m) # {}
    BY <2>2, Zenon DEF Holds
  <2> QED
    BY <2>1, <2>2
<1>8. o = A - F /\ o \in Nat
  <2>1. (A \div Reach) * Reach \in Int /\ (F \div Reach) * Reach = (A \div Reach) * Reach
    BY ONLY <1>2, <1>5, <1>6 DEF Reach, Window, Bank
  <2> DEFINE z == (A \div Reach) * Reach
  <2>2. l = A - z /\ base = F - z /\ z \in Int
    BY ONLY <1>4, <1>7, <2>1, Zenon
  <2> HIDE DEF z, A, F
  <2> QED
    BY ONLY <1>2, <1>5, <2>2, ~ (l < base), l \in Nat, base \in Nat DEF o
<1>9. Len(b) \in Nat /\ DOMAIN b = 1 .. Len(b)
  BY LenProperties
<1> HIDE DEF A, F, d, o, p
<1>10. /\ Len(p) \in Nat /\ Len(p) >= Len(b) /\ Len(p) >= o + Len(d)
       /\ \A x \in 1 .. Len(p) :
            p[x] = IF x - o \in 1 .. Len(d) THEN d[x - o] ELSE IF x \in 1 .. Len(b) THEN b[x] ELSE Hole
  <2> DEFINE n == Max({o + Len(d), Len(b)})
  <2>1. o \in Nat
    BY <1>8
  <2>2. /\ Len(Put(b, o, d)) = n /\ n \in Nat /\ n >= Len(b) /\ n >= o + Len(d)
        /\ \A x \in 1 .. n :
             Put(b, o, d)[x] = IF x - o \in 1 .. Len(d) THEN d[x - o]
                               ELSE IF x \in 1 .. Len(b) THEN b[x] ELSE Hole
    BY ONLY <1>1, <2>1, b \in Seq(Cell), PutCells, Zenon
  <2> HIDE DEF n
  <2> QED
    BY ONLY <2>2, Zenon DEF p
<1>11. Known(m + 1) = Known(m) \cup {m + 1} /\ m + 1 \notin Known(m)
  BY KnownStep
<1>12. \A i \in Known(m) :
         /\ AddressOf(i) \in Nat /\ Len(file.records[i].data) \in Nat
         /\ DOMAIN file.records[i].data = 1 .. Len(file.records[i].data)
         /\ 0 <= AddressOf(i) - F /\ AddressOf(i) - F + Len(file.records[i].data) <= Len(b)
  <2> TAKE i \in Known(m)
  <2>1. i \in 1 .. Lines
    BY ReferenceTypes, Zenon
  <2>2. AddressOf(i) \in Nat /\ file.records[i] \in Record
    BY <2>1, AddressNat, RecordsTyped, Zenon
  <2>3. file.records[i].data \in Seq(Bytes)
    BY ONLY <2>2, RecordTypes, Zenon
  <2>4. Len(file.records[i].data) \in Nat /\ DOMAIN file.records[i].data = 1 .. Len(file.records[i].data)
    BY ONLY <2>3, LenProperties
  <2> QED
    BY <2>2, <2>4, Zenon DEF Holds, F
<1>13. ASSUME NEW i \in Known(m + 1)
       PROVE  0 <= AddressOf(i) - F /\ AddressOf(i) - F + Len(file.records[i].data) <= Len(p)
  <2>1. CASE i \in Known(m)
    <3>1. /\ AddressOf(i) \in Nat /\ Len(file.records[i].data) \in Nat
          /\ 0 <= AddressOf(i) - F /\ AddressOf(i) - F + Len(file.records[i].data) <= Len(b)
      BY ONLY <1>12, <2>1, Zenon
    <3>2. Len(b) <= Len(p) /\ Len(b) \in Nat /\ Len(p) \in Nat
      BY ONLY <1>5, <1>9, <1>10
    <3>3. F \in Nat
      BY ONLY <1>5, <1>9, <1>10
    <3> QED
      BY ONLY <3>1, <3>2, <3>3
  <2>2. CASE i = m + 1
    <3>1. AddressOf(i) = A /\ Len(file.records[i].data) = Len(d)
      BY <2>2, Zenon DEF A, d
    <3> QED
      BY ONLY <1>1, <1>8, <1>10, <3>1
  <2> QED
    BY ONLY <1>11, <2>1, <2>2, i \in Known(m + 1), Zenon
<1>14. ASSUME NEW x \in 1 .. Len(p) PROVE p[x] = ByteOf(m + 1, F + x - 1)
  <2> DEFINE a == F + x - 1
             some(k) == {i \in Known(k) : Covers(i, a)}
  <2>1. x \in Nat /\ a \in Int /\ a - A + 1 = x - o
    BY ONLY <1>2, <1>5, <1>8, <1>10, x \in 1 .. Len(p)
  <2>2. Covers(m + 1, a) <=> x - o \in 1 .. Len(d)
    BY ONLY <1>1, <2>1, Zenon DEF Covers, A, d
  <2>3. CASE x - o \in 1 .. Len(d)
    <3>1. m + 1 \in some(m + 1)
      BY ONLY <1>11, <2>2, <2>3, Zenon
    <3>2. some(m + 1) \in SUBSET (1 .. Lines) /\ \A j \in some(m + 1) : j <= m + 1
      BY ReferenceTypes, Zenon DEF Known
    <3>3. Lines \in Nat /\ 1 .. Lines \subseteq 0 .. Lines
      BY RecordsTyped
    <3>4. Max(some(m + 1)) \in some(m + 1) /\ \A j \in some(m + 1) : j <= Max(some(m + 1))
      <4>1. some(m + 1) \in SUBSET (0 .. Lines) /\ some(m + 1) # {}
        BY ONLY <3>1, <3>2, <3>3, Zenon
      <4> QED
        BY ONLY <3>3, <4>1, GreatestIsMax, Zenon
    <3>5. Max(some(m + 1)) = m + 1
      <4>1. \A j \in 1 .. Lines : j <= m + 1 /\ m + 1 <= j => j = m + 1
        BY ONLY m \in Nat
      <4> QED
        BY ONLY <3>1, <3>2, <3>4, <4>1, Zenon
    <3>6. ByteOf(m + 1, a) = d[a - A + 1]
      BY ONLY <3>1, <3>5, Zenon DEF ByteOf, A, d
    <3> QED
      BY ONLY <1>10, <2>1, <2>3, <3>6, x \in 1 .. Len(p), Zenon
  <2>4. CASE ~ (x - o \in 1 .. Len(d))
    <3>1. some(m + 1) = some(m)
      BY ONLY <1>11, <2>2, <2>4, Zenon
    <3>2. ByteOf(m + 1, a) = ByteOf(m, a)
      BY ONLY <3>1, Zenon DEF ByteOf
    <3>3. CASE x \in 1 .. Len(b)
      <4>1. b[x] = ByteOf(m, a)
        <5>1. \A y \in 1 .. Len(b) : b[y] = ByteOf(m, F + y - 1)
          BY ONLY Holds(m, c, b), Zenon DEF Holds, F
        <5> QED
          BY ONLY <3>3, <5>1, Zenon DEF a
      <4> QED
        BY ONLY <1>10, <2>4, <3>2, <3>3, <4>1, x \in 1 .. Len(p), Zenon
    <3>4. CASE ~ (x \in 1 .. Len(b))
      <4>1. ASSUME NEW j \in Known(m) PROVE ~ Covers(j, a)
        <5>1. ~ (a - AddressOf(j) + 1 \in 1 .. Len(file.records[j].data))
          <6> DEFINE u == AddressOf(j)
                     v == Len(file.records[j].data)
          <6>1. u \in Nat /\ v \in Nat /\ u - F + v <= Len(b)
            BY ONLY <1>12, j \in Known(m), Zenon
          <6>2. x \in Nat /\ x > Len(b)
            BY ONLY <1>9, <1>10, <3>4, x \in 1 .. Len(p)
          <6> HIDE DEF u, v
          <6>3. ~ (a - u + 1 \in 1 .. v)
            BY ONLY <1>5, <1>9, <6>1, <6>2
          <6> QED
            BY ONLY <6>3, Zenon DEF u, v
        <5> QED
          BY ONLY <1>12, <5>1, j \in Known(m), Zenon DEF Covers
      <4>2. some(m) = {}
        BY ONLY <4>1, Zenon
      <4>3. ByteOf(m, a) = Hole
        BY ONLY <4>2, Zenon DEF ByteOf
      <4> QED
        BY ONLY <1>10, <2>4, <3>2, <3>4, <4>3, x \in 1 .. Len(p), Zenon
    <3> QED
      BY ONLY <3>3, <3>4
  <2> QED
    BY ONLY <2>3, <2>4
<1>15. Known(m + 1) # {}
  BY ONLY <1>11, Zenon
<1> QED
  BY ONLY <1>7, <1>13, <1>14, <1>15, e.based, e.base = base, Zenon DEF Holds, F, p, o, d
-----------------------------------------------------------------------------
(* The end of a line *)

\* The last byte of each line makes its sum right, or the line has no type or
\* no data that the reader looks at.
SumsRight(m) ==
  \A i \in 1 .. m :
    LET r == file.records[i] IN r.off = 0 \/ r.type > 7 \/ (r.type = 0 /\ r.data = << >>)

\* A last byte that makes the sum right is the one that belongs there.
LEMMA OnlyRightSum ==
  ASSUME NEW r \in Record,
         (Summands(Len(r.data), r.addr, r.type, r.data) + LastOf(r)) % 256 = 0
  PROVE  r.off = 0
<1>1. Summands(Len(r.data), r.addr, r.type, r.data) \in Nat
  <2>1. Len(r.data) \in Nat /\ r.addr \in Nat /\ r.type \in Nat /\ r.data \in Seq(Bytes)
    <3>1. r.type \in Bytes /\ r.addr \in Word /\ r.data \in Seq(Bytes) /\ Len(r.data) \in Bytes
      BY RecordTypes, Zenon
    <3>2. \A x \in Bytes : x \in Nat
      BY DEF Bytes
    <3>3. \A x \in Word : x \in Nat
      BY ONLY WordIsNat
    <3> QED
      BY ONLY <3>1, <3>2, <3>3, Zenon
  <2> QED
    BY ONLY <2>1, SummandsNat, Zenon
<1>2. r.off \in Bytes
  BY RecordTypes
<1>3. ASSUME NEW x \in Nat, NEW y \in Bytes, NEW c, c = (256 - (x % 256) + y) % 256, (x + c) % 256 = 0
      PROVE  y = 0
  <2>1. y \in Nat /\ y < 256
    BY ONLY <1>3 DEF Bytes
  <2>2. x % 256 \in Nat /\ x % 256 < 256 /\ (x + c) % 256 = ((x % 256) + c) % 256
    BY ONLY <1>3, <2>1
  <2> QED
    BY ONLY <1>3, <2>1, <2>2
<1> DEFINE x == Summands(Len(r.data), r.addr, r.type, r.data)
<1> HIDE DEF x
<1>4. (x + LastOf(r)) % 256 = 0 /\ x \in Nat
  BY <1>1, Zenon DEF x
<1>5. LastOf(r) = (256 - (x % 256) + r.off) % 256
  BY SMT DEF LastOf, x
<1> QED
  BY ONLY <1>2, <1>3, <1>4, <1>5, Zenon

\* What the reader holds of a line when its data is complete.
FullLine(r) == hex.type = r.type /\ hex.data = r.data /\ hex.want = Len(r.data) /\ hex.low = r.addr

\* The end of a line whose data is complete takes the line over, or fails.
LEMMA LineEnds ==
  ASSUME HexFile, HexTypes, ConvTypes, NEW m \in Nat, m + 1 \in 1 .. Lines,
         NEW r, r = file.records[m + 1], FullLine(r), m + 1 \in Arrived, ~ (r.type > 7),
         NEW check, NEW next \in Fields, EndRead(check, next)
  PROVE  /\ HexTypes' /\ ConvTypes' /\ Idle'
         /\ conv.error => conv'.error
         /\ ~ conv'.error => Matches(check) \/ (r.type = 0 /\ r.data = << >>)
         /\ ~ conv'.error /\ Plain /\ UpperAt(m, hex) /\ Holds(m, conv, bin) =>
              UpperAt(m + 1, hex') /\ Holds(m + 1, conv', bin')
<1>1. /\ hex.high \in Word /\ hex.low \in Word /\ hex.segment \in Word /\ hex.data \in Seq(Bytes)
  BY HexFields
<1>2. r \in Record /\ Twos(r) /\ Lines \in Nat
  BY RecordsTyped, Zenon
<1>3. hex.type \in {2, 4} => hex.want = 2
  BY <1>2, Zenon DEF Twos, FullLine
<1>4. /\ HexTypes' /\ ConvTypes' /\ Idle'
      /\ hex'.high = IF ~ Idle /\ Accepted(check) /\ hex.type = 4 THEN DataWord ELSE hex.high
      /\ hex'.segment = IF ~ Idle /\ Accepted(check) /\ hex.type = 2 THEN DataWord ELSE hex.segment
      /\ conv.error => conv'.error
      /\ Idle => conv' = conv /\ bin' = bin
      /\ ~ Idle /\ ~ Accepted(check) => conv'.error
      /\ ~ Idle /\ Accepted(check) /\ hex.type # 0 => conv' = conv /\ bin' = bin
      /\ ~ Idle /\ Accepted(check) /\ hex.type = 0 /\ Linear < Base => conv'.error
      /\ ~ Idle /\ Accepted(check) /\ hex.type = 0 /\ ~ (Linear < Base) =>
           /\ conv' = [conv EXCEPT !.based = TRUE, !.base = Base]
           /\ bin' = Put(bin, Linear - Base, hex.data)
  BY ONLY HexTypes, ConvTypes, next \in Fields, EndRead(check, next), <1>3, EndReads, Zenon
<1>5. Idle <=> r.type = 0 /\ r.data = << >>
  BY Zenon DEF Idle, FullLine
<1>6. ~ conv'.error => Matches(check) \/ (r.type = 0 /\ r.data = << >>)
  BY ONLY <1>4, <1>5, Zenon DEF Accepted
<1>7. ASSUME ~ conv'.error, Plain, UpperAt(m, hex), Holds(m, conv, bin)
      PROVE  UpperAt(m + 1, hex') /\ Holds(m + 1, conv', bin')
  <2>1. Idle \/ Accepted(check)
    BY ONLY <1>4, <1>7, Zenon
  <2>2. DataWord = r.data[1] * 256 + r.data[2] /\ (r.type = 2 \/ r.type = 4 => ~ Idle)
    <3>1. r.type = 2 \/ r.type = 4 => r.type # 0
      OBVIOUS
    <3> QED
      BY ONLY <1>5, <3>1, FullLine(r), Zenon DEF DataWord, FullLine
  <2>3. r.type \in {2, 4} => m + 1 \in Arrived
    OBVIOUS
  <2>4. /\ hex'.high = IF r.type = 4 THEN r.data[1] * 256 + r.data[2] ELSE hex.high
        /\ hex'.segment = IF r.type = 2 THEN r.data[1] * 256 + r.data[2] ELSE hex.segment
    BY ONLY <1>4, <2>1, <2>2, FullLine(r), Zenon DEF FullLine
  <2>5. UpperAt(m + 1, hex')
    BY ONLY HexFile, m \in Nat, m + 1 \in 1 .. Lines, r = file.records[m + 1],
            <1>1, <1>7, <2>3, <2>4, UpperStep, SMT
  <2>6. m + 1 \in DataLines <=> r.type = 0 /\ r.data # << >>
    BY Zenon DEF DataLines, OfType
  <2>7. CASE m + 1 \notin DataLines
    <3>1. conv' = conv /\ bin' = bin
      BY <1>4, <1>5, <2>1, <2>6, <2>7, Zenon DEF FullLine
    <3>2. Holds(m + 1, conv, bin)
      BY <1>7, <2>7, HoldsSame, Zenon
    <3> QED
      BY ONLY <2>5, <3>1, <3>2, Zenon
  <2>8. CASE m + 1 \in DataLines
    <3>1. ~ Idle /\ Accepted(check) /\ hex.type = 0
      BY <1>5, <2>1, <2>6, <2>8, Zenon DEF FullLine
    <3>2. /\ ~ (Linear < Base)
          /\ conv' = [conv EXCEPT !.based = TRUE, !.base = Base]
          /\ bin' = Put(bin, Linear - Base, hex.data)
      BY ONLY <1>4, <1>7, <3>1, Zenon
    <3>3. Linear \in Nat /\ Linear = (hex.high % 256) * Bank + r.addr + hex.segment * 16
      <4>1. hex.high = 0 \/ hex.segment = 0
        BY <1>7, Zenon DEF Plain, UpperAt
      <4> QED
        BY <4>1, LinearNat, Zenon DEF FullLine
    <3>4. conv \in [based : BOOLEAN, base : Nat, error : BOOLEAN] /\ bin \in Seq(Cell)
      BY Zenon DEF ConvTypes
    <3>5. Base \in Nat /\ Base = IF conv.based THEN conv.base ELSE Linear
      BY <3>3, <3>4 DEF Base
    <3>6. conv'.based /\ conv'.base = Base
      BY ONLY <3>2, <3>4
    <3>7. Holds(m + 1, conv', Put(bin, Linear - Base, r.data))
      <4>1. Linear = (hex.high % 256) * Bank + file.records[m + 1].addr + hex.segment * 16
        BY ONLY <3>3, r = file.records[m + 1], Zenon
      <4>2. PICK l, base, c, e : l = Linear /\ base = Base /\ c = conv /\ e = conv'
        OBVIOUS
      <4>3. /\ l = (hex.high % 256) * Bank + file.records[m + 1].addr + hex.segment * 16
            /\ base \in Nat /\ base = (IF c.based THEN c.base ELSE l) /\ ~ (l < base) /\ l \in Nat
            /\ e.based /\ e.base = base /\ Holds(m, c, bin)
        BY ONLY <1>7, <3>2, <3>3, <3>5, <3>6, <4>1, <4>2, Zenon
      <4>4. Holds(m + 1, e, Put(bin, l - base, file.records[m + 1].data))
        BY ONLY HexFile, m \in Nat, m + 1 \in 1 .. Lines, <1>1, <1>7, <2>8, <3>4, <4>3, HoldsWritten, SMT
      <4>5. Holds(m + 1, conv', Put(bin, Linear - Base, file.records[m + 1].data))
        BY ONLY <4>2, <4>4, Zenon
      <4> QED
        BY ONLY <4>5, r = file.records[m + 1], Zenon
    <3>8. hex.data = r.data
      BY Zenon DEF FullLine
    <3> QED
      BY ONLY <2>5, <3>2, <3>7, <3>8, Zenon
  <2> QED
    BY ONLY <2>7, <2>8, Zenon
<1> QED
  BY ONLY <1>4, <1>6, <1>7, Zenon
-----------------------------------------------------------------------------
(* What the file says does not change *)

LEMMA SaysTheSame ==
  ASSUME file' = file, cut' = cut
  PROVE  /\ HexFile' <=> HexFile
         /\ Plain' <=> Plain
         /\ \A m : SumsRight(m)' <=> SumsRight(m)
         /\ \A m, k : at' = at => (Stands(m, k)' <=> Stands(m, k))
         /\ \A m : UpperAt(m, hex)' <=> UpperAt(m, hex')
         /\ \A m : Holds(m, conv, bin)' <=> Holds(m, conv', bin')
         /\ DataLines' = DataLines /\ Summed' = Summed /\ FirstAddress' = FirstAddress
         /\ \A t : OfType(t)' = OfType(t)
         /\ \A i : AddressOf(i)' = AddressOf(i)
         /\ \A a : ByteAt(a)' = ByteAt(a)
<1>1. (\A i : Before(i)' = Before(i)) /\ Records' = Records
  BY Zenon DEF Before, Records
<1>2. Arrived' = Arrived /\ Summed' = Summed
  BY <1>1, Zenon DEF Arrived, Summed
<1>3. \A t : OfType(t)' = OfType(t)
  BY <1>2, Zenon DEF OfType
<1>4. \A i : Extended(i)' = Extended(i)
  BY <1>3, Zenon DEF Extended
<1>5. \A i : Extension(i)' = Extension(i)
  BY <1>4, Zenon DEF Extension
<1>6. \A i : AddressOf(i)' = AddressOf(i)
  BY <1>5, Zenon DEF AddressOf
<1>7. DataLines' = DataLines
  BY <1>3, Zenon DEF DataLines
<1>8. FirstAddress' = FirstAddress
  BY <1>6, <1>7, Zenon DEF FirstAddress
<1>9. Plain' <=> Plain
  BY <1>3, <1>6, <1>7, Zenon DEF Plain
<1>10. \A i, a : Covers(i, a)' <=> Covers(i, a)
  BY <1>6, Zenon DEF Covers
<1>11. \A a : {i \in DataLines : Covers(i, a)}' = {i \in DataLines : Covers(i, a)}
  BY <1>7, <1>10, Zenon
<1>12. \A a : ByteAt(a)' = ByteAt(a)
  BY <1>6, <1>11, Zenon DEF ByteAt
<1>13. \A m : Known(m)' = Known(m)
  BY <1>7, Zenon DEF Known
<1>14. \A m, a : {i \in Known(m) : Covers(i, a)}' = {i \in Known(m) : Covers(i, a)}
  BY <1>10, <1>13, Zenon
<1>15. \A m, a : ByteOf(m, a)' = ByteOf(m, a)
  BY <1>6, <1>14, Zenon DEF ByteOf
<1>16. \A m : UpperAt(m, hex)' <=> UpperAt(m, hex')
  BY <1>3, <1>5, Zenon DEF UpperAt
<1>17. \A m : Holds(m, conv, bin)' <=> Holds(m, conv', bin')
  BY <1>6, <1>8, <1>13, <1>15, Zenon DEF Holds
<1>18. \A m : SumsRight(m)' <=> SumsRight(m)
  BY Zenon DEF SumsRight
<1>19. \A m, k : at' = at => (Stands(m, k)' <=> Stands(m, k))
  BY Zenon DEF Stands, Lines
<1>20. HexFile' <=> HexFile
  BY Zenon DEF HexFile
<1> QED
  BY ONLY <1>2, <1>3, <1>6, <1>7, <1>8, <1>9, <1>12, <1>16, <1>17, <1>18, <1>19, <1>20, Zenon
-----------------------------------------------------------------------------
(* Reading *)

\* The reader has taken over m lines and k bytes of the next one.
ReaderAt(m, k) ==
  /\ Stands(m, k)
  /\ IF k = 0 THEN Idle ELSE Reads(file.records[m + 1], k)
  /\ ~ conv.error => SumsRight(m) /\ (Plain => UpperAt(m, hex) /\ Holds(m, conv, bin))

ReadInv ==
  phase = "read" =>
    /\ HexFile /\ HexTypes /\ ConvTypes
    /\ at \in Nat /\ at <= cut
    /\ \E m, k : ReaderAt(m, k)

LEMMA ReadInvStarts ==
  ASSUME Init, phase = "read"
  PROVE  ReadInv
<1>1. PICK f \in HexFiles : file = [format |-> "ihex", records |-> f] /\ cut \in 0 .. Len(Tokens(f))
  <2>1. \A o \in Objects : phase # "package"
    OBVIOUS
  <2> QED
    BY <2>1 DEF Init
<1>2. HexFile /\ file.records = f
  BY <1>1 DEF HexFile
<1>3. /\ at = 0 /\ hex = NoLine /\ bin = << >>
      /\ conv = [based |-> FALSE, base |-> 0, error |-> FALSE]
  BY DEF Init
<1>4. HexTypes /\ ConvTypes /\ Idle
  <2>1. 0 \in Word /\ 0 \in Bytes
    BY NatIsWord DEF Bytes
  <2> QED
    BY <1>3, <2>1, EmptySeq DEF HexTypes, ConvTypes, Idle, NoLine, Fields
<1>5. at \in Nat /\ at <= cut
  BY <1>1, <1>3
<1>6. Lines \in Nat /\ TokensTo(file.records)[0] = << >>
  BY <1>2, RecordsTyped, TokensStep
<1>7. Stands(0, 0)
  <2>1. 0 \in 0 .. Lines /\ 0 \in Nat
    BY <1>6
  <2>2. Len(TokensTo(file.records)[0]) = 0
    BY <1>6
  <2>3. at = Len(TokensTo(file.records)[0]) + 0
    BY ONLY <1>3, <2>2
  <2> QED
    BY ONLY <2>1, <2>3 DEF Stands
<1>8. SumsRight(0)
  BY DEF SumsRight
<1>9. \A j \in 1 .. Lines : ~ (j < 0 + 1) /\ ~ (j <= 0)
  BY <1>6
<1>10. Extended(0 + 1) = {} /\ Known(0) = {}
  BY <1>2, <1>9, ReferenceTypes, Zenon DEF Extended, Known
<1>11. UpperAt(0, hex)
  <2>1. Extension(0 + 1) = 0
    BY <1>10, Zenon DEF Extension
  <2>2. hex.high = 0 /\ hex.segment = 0
    BY <1>3 DEF NoLine
  <2>3. 0 = 0 * Bank + 0 * 16
    BY DEF Bank
  <2> QED
    BY ONLY <2>1, <2>2, <2>3 DEF UpperAt
<1>12. Holds(0, conv, bin)
  <2>1. ~ conv.based /\ bin = << >> /\ 1 .. Len(bin) = {}
    BY <1>3
  <2> QED
    BY ONLY <1>10, <2>1 DEF Holds
<1>13. ReaderAt(0, 0)
  BY ONLY <1>4, <1>7, <1>8, <1>11, <1>12 DEF ReaderAt
<1> QED
  BY ONLY <1>2, <1>4, <1>5, <1>13, Zenon DEF ReadInv

\* Within a line nothing changes but the line.
LEMMA WithinLine ==
  ASSUME HexFile, NEW m, NEW k, Stands(m, k), m < Lines, file' = file, cut' = cut, at' = at + 1,
         k < Len(file.records[m + 1].data) + 5, Same,
         NEW r, r = file.records[m + 1], Reads(r, k + 1)',
         ~ conv.error => SumsRight(m) /\ (Plain => UpperAt(m, hex) /\ Holds(m, conv, bin))
  PROVE  ReaderAt(m, k + 1)'
<1>1. Stands(m, k + 1)'
  BY NextPlace, Zenon
<1>2. k + 1 # 0
  BY DEF Stands
<1>3. UpperAt(m, hex) => UpperAt(m, hex')
  BY Zenon DEF UpperAt, Same
<1>4. Holds(m, conv, bin) => Holds(m, conv', bin')
  BY Zenon DEF Same
<1>5. conv'.error = conv.error
  BY Zenon DEF Same
<1>6. ~ conv'.error => SumsRight(m)' /\ (Plain' => UpperAt(m, hex)' /\ Holds(m, conv, bin)')
  BY ONLY file' = file, cut' = cut, <1>3, <1>4, <1>5, SaysTheSame,
          ~ conv.error => SumsRight(m) /\ (Plain => UpperAt(m, hex) /\ Holds(m, conv, bin)), Zenon
<1>7. Reads(file.records[m + 1], k + 1)'
  <2>1. file'.records[m + 1] = r
    OBVIOUS
  <2> QED
    BY ONLY <2>1, Reads(r, k + 1)', Zenon DEF Reads
<1> QED
  BY ONLY <1>1, <1>2, <1>6, <1>7, Zenon DEF ReaderAt

\* A line of a type that the reader does not know says nothing.
LEMMA SkippedLine ==
  ASSUME HexFile, NEW m \in Nat, m + 1 \in 1 .. Lines, m + 1 \in Arrived, HexTypes, ConvTypes,
         file.records[m + 1].type > 7, Same,
         ~ conv.error => SumsRight(m) /\ (Plain => UpperAt(m, hex) /\ Holds(m, conv, bin))
  PROVE  ~ conv'.error => SumsRight(m + 1) /\ (Plain => UpperAt(m + 1, hex') /\ Holds(m + 1, conv', bin'))
<1> DEFINE r == file.records[m + 1]
<1>1. r.type # 0 /\ r.type # 2 /\ r.type # 4
  <2>1. r.type \in Bytes
    BY RecordsTyped, RecordTypes
  <2> QED
    BY <2>1 DEF Bytes
<1>2. m + 1 \notin DataLines
  BY <1>1, Zenon DEF DataLines, OfType
<1>3. SUFFICES ASSUME ~ conv'.error
      PROVE  SumsRight(m + 1) /\ (Plain => UpperAt(m + 1, hex') /\ Holds(m + 1, conv', bin'))
  OBVIOUS
<1>4. ~ conv.error
  BY <1>3, Zenon DEF Same
<1>5. SumsRight(m + 1)
  <2>1. \A i \in 1 .. m + 1 : i \in 1 .. m \/ i = m + 1
    OBVIOUS
  <2>2. SumsRight(m)
    BY <1>4
  <2> QED
    BY ONLY <2>1, <2>2, file.records[m + 1].type > 7, Zenon DEF SumsRight
<1>6. ASSUME Plain PROVE UpperAt(m + 1, hex') /\ Holds(m + 1, conv', bin')
  <2>1. UpperAt(m, hex) /\ Holds(m, conv, bin)
    BY <1>4, <1>6
  <2>2. hex.high \in Word /\ hex.segment \in Word
    BY HexFields
  <2>3. hex'.high = hex.high /\ hex'.segment = hex.segment /\ conv' = conv /\ bin' = bin
    BY DEF Same
  <2>4. /\ r.type \in {2, 4} => m + 1 \in Arrived
        /\ hex'.high = IF r.type = 4 THEN r.data[1] * 256 + r.data[2] ELSE hex.high
        /\ hex'.segment = IF r.type = 2 THEN r.data[1] * 256 + r.data[2] ELSE hex.segment
    BY ONLY <1>1, <2>3, m + 1 \in Arrived, Zenon
  <2>5. PICK q : q = r
    OBVIOUS
  <2>6. UpperAt(m + 1, hex')
    BY ONLY HexFile, m \in Nat, m + 1 \in 1 .. Lines, <1>6, <2>1, <2>2, <2>4, <2>5, UpperStep, SMT
  <2>7. Holds(m + 1, conv, bin)
    BY <1>2, <2>1, HoldsSame, Zenon
  <2> QED
    BY ONLY <2>3, <2>6, <2>7, Zenon
<1> QED
  BY <1>5, <1>6

LEMMA SumGoesOn ==
  ASSUME NEW m \in Nat, SumsRight(m),
         LET r == file.records[m + 1] IN r.off = 0 \/ r.type > 7 \/ (r.type = 0 /\ r.data = << >>)
  PROVE  SumsRight(m + 1)
<1>1. \A i \in 1 .. m + 1 : i \in 1 .. m \/ i = m + 1
  OBVIOUS
<1> QED
  BY <1>1, Zenon DEF SumsRight

\* A sum that the reader accepts is the one that belongs there.
LEMMA SumMatches ==
  ASSUME NEW r \in Record, FullLine(r), Matches(LastOf(r))
  PROVE  r.off = 0
<1>1. (Summands(Len(r.data), r.addr, r.type, r.data) + LastOf(r)) % 256 = 0
  BY Zenon DEF FullLine, Matches
<1> QED
  BY <1>1, OnlyRightSum

\* One more token is read.
LEMMA ReadInvStays ==
  ASSUME ReadInv, ReadHex
  PROVE  ReadInv'
<1>1. /\ HexFile /\ HexTypes /\ ConvTypes /\ at \in Nat /\ at < cut /\ phase = "read"
      /\ ReadByte(Tokens(file.records)[at + 1]) /\ at' = at + 1 /\ file' = file /\ cut' = cut
  BY Zenon DEF ReadInv, ReadHex
<1>2. PICK m, k : ReaderAt(m, k)
  BY <1>1, Zenon DEF ReadInv
<1>0. PICK r : r = file.records[m + 1]
  OBVIOUS
<1>3. /\ Stands(m, k) /\ (IF k = 0 THEN Idle ELSE Reads(r, k))
      /\ ~ conv.error => SumsRight(m) /\ (Plain => UpperAt(m, hex) /\ Holds(m, conv, bin))
  BY <1>0, <1>2, Zenon DEF ReaderAt
<1>4. m + 1 \in 1 .. Lines /\ m < Lines /\ k \in 0 .. Len(r.data) + 5 /\ ReadByte(Line(r)[k + 1])
  <2>1. /\ m + 1 \in 1 .. Lines /\ m < Lines /\ k \in 0 .. Len(r.data) + 5
        /\ Tokens(file.records)[at + 1] = Line(r)[k + 1]
    BY ONLY <1>0, <1>1, <1>3, NextToken, Zenon
  <2> QED
    BY ONLY <1>1, <2>1, Zenon
<1>5. r \in Record /\ Len(r.data) \in Nat
  BY ONLY <1>0, <1>1, <1>4, RecordsTyped, Zenon
<1>6. m \in Nat /\ k \in Nat /\ at + 1 \in Nat /\ at + 1 <= cut /\ at <= cut
  <2>1. m \in 0 .. Lines /\ Lines \in Nat /\ k \in Nat
    BY ONLY <1>1, <1>3, RecordsTyped, Zenon DEF Stands
  <2>2. cut \in Int
    BY <1>1 DEF HexFile
  <2> QED
    BY ONLY <1>1, <2>1, <2>2
<1>7. HexFile'
  BY ONLY <1>1, SaysTheSame, Zenon
<1>8. SUFFICES HexTypes' /\ ConvTypes' /\ \E i, j : ReaderAt(i, j)'
  BY ONLY <1>1, <1>6, <1>7, <1>8, Zenon DEF ReadInv
<1>9. CASE k < Len(r.data) + 5
  <2>1. HexTypes' /\ ConvTypes' /\ Same /\ Reads(r, k + 1)'
    <3>1. CASE k = 0
      <4>1. Line(r)[k + 1] = Start /\ k + 1 = 1
        BY ONLY <1>5, <3>1, LineTokens
      <4> QED
        BY ONLY <1>1, <1>3, <1>4, <3>1, <4>1, ReadsStart, Zenon
    <3>2. CASE k \in 1 .. 4
      <4>1. k # 0
        BY <3>2
      <4>2. Reads(r, k)
        BY ONLY <1>3, <4>1, Zenon
      <4> QED
        BY ONLY <1>1, <1>4, <1>5, <3>2, <4>2, ReadsHead, Zenon
    <3>3. CASE k >= 5
      <4>1. k # 0
        BY <3>3
      <4>2. Reads(r, k)
        BY ONLY <1>3, <4>1, Zenon
      <4> QED
        BY ONLY <1>1, <1>4, <1>5, <1>6, <1>9, <3>3, <4>2, ReadsData, Zenon
    <3> QED
      BY ONLY <1>6, <3>1, <3>2, <3>3
  <2>2. ReaderAt(m, k + 1)'
    BY ONLY <1>0, <1>1, <1>3, <1>4, <1>9, <2>1, WithinLine, Zenon
  <2> QED
    BY <2>1, <2>2
<1>10. CASE k = Len(r.data) + 5
  <2>1. k # 0
    BY <1>5, <1>10
  <2>2. m + 1 \in Arrived
    <3>1. at <= cut
      BY <1>6
    <3> QED
      BY ONLY <1>0, <1>1, <1>3, <1>10, <2>1, <3>1, LinesArrived, Zenon
  <2>3. /\ r.type > 7 => HexTypes' /\ ConvTypes' /\ Same /\ Idle'
        /\ ~ (r.type > 7) => EndRead(LastOf(r), "wait") /\ FullLine(r)
    BY ONLY <1>1, <1>3, <1>4, <1>5, <1>10, <2>1, ReadsLast, Zenon DEF FullLine
  <2>4. Stands(m + 1, 0)'
    BY ONLY <1>0, <1>1, <1>3, <1>4, <1>10, NextPlace, Zenon
  <2>5. /\ HexTypes' /\ ConvTypes' /\ Idle'
        /\ ~ conv'.error => SumsRight(m + 1) /\ (Plain => UpperAt(m + 1, hex') /\ Holds(m + 1, conv', bin'))
    <3>1. CASE r.type > 7
      BY ONLY <1>0, <1>1, <1>3, <1>4, <1>6, <2>2, <2>3, <3>1, SkippedLine, Zenon
    <3>2. CASE ~ (r.type > 7)
      <4>1. /\ HexTypes' /\ ConvTypes' /\ Idle' /\ (conv.error => conv'.error)
            /\ ~ conv'.error => Matches(LastOf(r)) \/ (r.type = 0 /\ r.data = << >>)
            /\ ~ conv'.error /\ Plain /\ UpperAt(m, hex) /\ Holds(m, conv, bin) =>
                 UpperAt(m + 1, hex') /\ Holds(m + 1, conv', bin')
        BY ONLY <1>0, <1>1, <1>4, <1>6, <2>2, <2>3, <3>2, ByteNotStart, LineEnds, Zenon
      <4>2. ASSUME ~ conv'.error PROVE SumsRight(m + 1)
        <5>1. r.off = 0 \/ (r.type = 0 /\ r.data = << >>)
          BY ONLY <1>5, <2>3, <3>2, <4>1, <4>2, SumMatches, Zenon
        <5>2. SumsRight(m)
          BY ONLY <1>3, <4>1, <4>2, Zenon
        <5> QED
          BY ONLY <1>0, <1>6, <5>1, <5>2, SumGoesOn, Zenon
      <4> QED
        BY ONLY <1>3, <4>1, <4>2, Zenon
    <3> QED
      BY ONLY <3>1, <3>2
  <2>6. ~ conv'.error => SumsRight(m + 1)' /\ (Plain' => UpperAt(m + 1, hex)' /\ Holds(m + 1, conv, bin)')
    BY ONLY <1>1, <2>5, SaysTheSame, Zenon
  <2>7. ReaderAt(m + 1, 0)'
    BY ONLY <2>4, <2>5, <2>6, Zenon DEF ReaderAt
  <2> QED
    BY <2>5, <2>7
<1> QED
  BY ONLY <1>4, <1>5, <1>9, <1>10
-----------------------------------------------------------------------------
(* The end of the file *)

\* What was made of all data lines is what the file says.
LEMMA HoldsAll ==
  ASSUME HexFile, NEW m, Known(m) = DataLines, NEW c, NEW b \in Seq(Cell), Holds(m, c, b)
  PROVE  /\ \A i \in 1 .. Len(b) : b[i] = ByteAt(FirstAddress + i - 1)
         /\ \A i \in DataLines : AddressOf(i) - FirstAddress + Len(file.records[i].data) \in 1 .. Len(b)
<1>1. \A a : ByteOf(m, a) = ByteAt(a)
  BY Zenon DEF ByteOf, ByteAt
<1>2. \A i \in 1 .. Len(b) : b[i] = ByteAt(FirstAddress + i - 1)
  BY <1>1, Zenon DEF Holds
<1>3. ASSUME NEW i \in DataLines
      PROVE  AddressOf(i) - FirstAddress + Len(file.records[i].data) \in 1 .. Len(b)
  <2> DEFINE x == AddressOf(i)
             F == FirstAddress
             n == Len(file.records[i].data)
  <2>1. 0 <= x - F /\ x - F + n <= Len(b)
    BY Zenon DEF Holds
  <2>2. i \in 1 .. Lines /\ file.records[i].data # << >>
    BY ReferenceTypes, Zenon DEF DataLines
  <2>3. x \in Nat /\ n \in Nat /\ n # 0
    <3>1. file.records[i] \in Record
      BY <2>2, RecordsTyped, Zenon
    <3>2. file.records[i].data \in Seq(Bytes)
      BY <3>1, RecordTypes
    <3> QED
      BY ONLY HexFile, <2>2, <3>2, AddressNat, EmptySeq, LenProperties
  <2>4. F \in Nat
    <3>1. Min(DataLines) \in DataLines
      BY ReferenceTypes, LeastIsMin, Zenon
    <3>2. Min(DataLines) \in 1 .. Lines
      BY <3>1, ReferenceTypes, Zenon
    <3> QED
      BY <3>2, AddressNat, Zenon DEF FirstAddress
  <2>5. Len(b) \in Nat
    BY LenProperties
  <2> HIDE DEF x, F, n
  <2>6. x - F + n \in 1 .. Len(b)
    BY ONLY <2>1, <2>3, <2>4, <2>5
  <2> QED
    BY ONLY <2>6, Zenon DEF x, F, n
<1> QED
  BY <1>2, <1>3

\* A conversion that succeeds has made of the file what it says.
LEMMA ConvertIsRight ==
  ASSUME ReadInv, Convert
  PROVE  HexFile' /\ ConvTypes' /\ ConvertedIsFile'
<1>1. /\ HexFile /\ HexTypes /\ ConvTypes /\ at \in Nat /\ at <= cut /\ at = cut
      /\ file' = file /\ cut' = cut /\ (phase' = "failed" \/ (~ conv'.error /\ phase' = "close"))
  BY Zenon DEF ReadInv, Convert
<1>2. PICK m, k : ReaderAt(m, k)
  BY Zenon DEF ReadInv, Convert
<1>3. PICK check : EndRead(check, "wait")
  BY Zenon DEF Convert
<1>4. PICK r : r = file.records[m + 1]
  OBVIOUS
<1>5. /\ Stands(m, k) /\ (k = 0 => Idle) /\ (k # 0 => Reads(r, k))
      /\ ~ conv.error => SumsRight(m) /\ (Plain => UpperAt(m, hex) /\ Holds(m, conv, bin))
  BY <1>2, <1>4, Zenon DEF ReaderAt
<1>6. /\ \A i \in Summed : i \in 1 .. m
      /\ \A i \in Arrived : i \in 1 .. m \/ (i = m + 1 /\ k # 0 /\ k = Len(r.data) + 5)
      /\ k # 0 /\ k = Len(r.data) + 5 => m + 1 \in Arrived
  BY ONLY <1>1, <1>4, <1>5, LinesArrived, Zenon
<1>7. m \in Nat /\ k \in Nat /\ Lines \in Nat /\ m \in 0 .. Lines
  <2>1. m \in 0 .. Lines /\ Lines \in Nat /\ k \in Nat
    BY ONLY <1>1, <1>5, RecordsTyped, Zenon DEF Stands
  <2> QED
    BY ONLY <2>1
<1>8. k # 0 => /\ m + 1 \in 1 .. Lines /\ r \in Record /\ Twos(r)
               /\ r.data \in Seq(Bytes) /\ Len(r.data) \in Nat /\ k <= Len(r.data) + 5
  <2> SUFFICES ASSUME k # 0
               PROVE  /\ m + 1 \in 1 .. Lines /\ r \in Record /\ Twos(r)
                      /\ r.data \in Seq(Bytes) /\ Len(r.data) \in Nat /\ k <= Len(r.data) + 5
    OBVIOUS
  <2>1. m < Lines /\ k <= Len(r.data) + 5
    BY ONLY <1>4, <1>5, k # 0, Zenon DEF Stands
  <2>2. m + 1 \in 1 .. Lines
    BY ONLY <1>7, <2>1
  <2>3. r \in Record /\ Twos(r) /\ Len(r.data) \in Nat
    BY ONLY <1>1, <1>4, <2>2, RecordsTyped, Zenon
  <2> QED
    BY ONLY <2>1, <2>2, <2>3, RecordTypes
<1>9. ~ Idle => /\ k # 0 /\ k >= 5 /\ ~ (r.type > 7) /\ hex.type = r.type /\ hex.want = Len(r.data)
                /\ hex.low = r.addr /\ hex.data = SubSeq(r.data, 1, k - 5)
  <2> SUFFICES ASSUME ~ Idle
               PROVE  /\ k # 0 /\ k >= 5 /\ ~ (r.type > 7) /\ hex.type = r.type /\ hex.want = Len(r.data)
                      /\ hex.low = r.addr /\ hex.data = SubSeq(r.data, 1, k - 5)
    OBVIOUS
  <2>1. k # 0 /\ Reads(r, k)
    BY ONLY <1>5, ~ Idle
  <2>2. ~ (k < 5) /\ ~ (r.type > 7)
    BY ONLY <2>1, ~ Idle DEF Reads
  <2>3. k >= 5 /\ k >= 4 /\ k >= 2
    BY ONLY <1>7, <2>2
  <2> QED
    BY ONLY <2>1, <2>2, <2>3 DEF Reads
<1>10. hex.type \in {2, 4} => hex.want = 2
  <2>1. Idle => ~ (hex.type \in {2, 4})
    BY DEF Idle
  <2> QED
    BY ONLY <1>8, <1>9, <2>1, Zenon DEF Twos
<1>12. /\ ConvTypes' /\ (conv.error => conv'.error)
       /\ Idle => conv' = conv /\ bin' = bin
       /\ ~ Idle /\ ~ Accepted(check) => conv'.error
  BY ONLY <1>1, <1>3, <1>10, ByteNotStart, EndReads, Zenon
<1>13. HexFile'
  BY ONLY <1>1, SaysTheSame, Zenon
<1>14. SUFFICES ASSUME ~ conv'.error, Plain PROVE ConvertedIsFile'
  <2>1. conv'.error => ~ (phase' \in {"close", "package", "ok"})
    BY ONLY <1>1
  <2>2. Plain' <=> Plain
    BY ONLY <1>1, SaysTheSame, Zenon
  <2>3. conv'.error \/ ~ Plain => ConvertedIsFile'
    BY ONLY <2>1, <2>2, Zenon DEF ConvertedIsFile
  <2> QED
    BY ONLY <1>12, <1>13, <1>14, <2>3, Zenon
<1>15. SumsRight(m) /\ UpperAt(m, hex) /\ Holds(m, conv, bin)
  BY ONLY <1>5, <1>12, <1>14, Zenon
<1>16. ~ Idle => k = Len(r.data) + 5 /\ FullLine(r)
  <2> SUFFICES ASSUME ~ Idle PROVE k = Len(r.data) + 5 /\ FullLine(r)
    OBVIOUS
  <2>1. Len(hex.data) >= hex.want
    BY ONLY <1>12, <1>14, ~ Idle, Zenon DEF Accepted
  <2>2. r.data \in Seq(Bytes) /\ Len(r.data) \in Nat /\ k <= Len(r.data) + 5
        /\ hex.data = SubSeq(r.data, 1, k - 5) /\ k >= 5 /\ hex.want = Len(r.data)
    BY ONLY <1>8, <1>9, ~ Idle, Zenon
  <2>3. k - 5 \in 0 .. Len(r.data)
    BY ONLY <1>7, <2>2
  <2>4. Len(hex.data) = k - 5
    BY ONLY <2>2, <2>3, DataSoFar, Zenon
  <2>5. k = Len(r.data) + 5 /\ k - 5 = Len(r.data)
    BY ONLY <1>7, <2>1, <2>2, <2>4
  <2>6. hex.data = r.data
    BY ONLY <2>2, <2>5, SubSeqFull, Zenon
  <2> QED
    BY ONLY <1>9, <2>5, <2>6, ~ Idle, Zenon DEF FullLine
<1>17. \E j \in Nat : Known(j) = DataLines /\ Holds(j, conv', bin')
  <2>1. CASE Idle
    <3>1. \A i \in DataLines : i \in 1 .. m
      <4>0. \A i \in DataLines : i \in 1 .. m \/ (i = m + 1 /\ k # 0 /\ k = Len(r.data) + 5)
        BY ONLY <1>1, <1>6, ReferenceTypes, Zenon
      <4>1. ASSUME NEW i \in DataLines, i = m + 1, k # 0, k = Len(r.data) + 5 PROVE FALSE
        <5>1. r.type = 0 /\ r.data # << >>
          BY <1>4, <4>1, Zenon DEF DataLines, OfType
        <5>2. ~ (r.type > 7) /\ k >= 5 /\ k - 5 = Len(r.data)
          BY <1>7, <1>8, <4>1, <5>1
        <5>3. hex.data = SubSeq(r.data, 1, Len(r.data))
          BY <1>5, <4>1, <5>2, Zenon DEF Reads
        <5>4. hex.data = r.data
          BY ONLY <1>8, <5>3, <4>1, SubSeqFull, Zenon
        <5> QED
          BY ONLY <2>1, <5>1, <5>4, Zenon DEF Idle
      <4> QED
        BY ONLY <4>0, <4>1, Zenon
    <3>2. Known(m) = DataLines
      <4>1. \A i \in 1 .. m : i <= m
        BY <1>7
      <4> QED
        BY ONLY <3>1, <4>1, Zenon DEF Known
    <3> QED
      BY ONLY <1>7, <1>12, <1>15, <2>1, <3>2, Zenon
  <2>2. CASE ~ Idle
    <3>1. k # 0 /\ m + 1 \in 1 .. Lines /\ m + 1 \in Arrived /\ ~ (r.type > 7) /\ FullLine(r)
      BY ONLY <1>6, <1>8, <1>9, <1>16, <2>2, Zenon
    <3>2. Holds(m + 1, conv', bin')
      BY ONLY <1>1, <1>3, <1>4, <1>7, <1>14, <1>15, <3>1, ByteNotStart, LineEnds, Zenon
    <3>3. Known(m + 1) = DataLines
      <4>1. \A i \in DataLines : i \in 1 .. m \/ i = m + 1
        BY ONLY <1>1, <1>6, ReferenceTypes, Zenon
      <4>2. \A i : i \in 1 .. m \/ i = m + 1 => i <= m + 1
        BY <1>7
      <4> QED
        BY ONLY <4>1, <4>2, Zenon DEF Known
    <3>4. m + 1 \in Nat
      BY <1>7
    <3> QED
      BY ONLY <3>2, <3>3, <3>4, Zenon
  <2> QED
    BY ONLY <2>1, <2>2
<1>18. bin' \in Seq(Cell)
  BY <1>12, Zenon DEF ConvTypes
<1>19. /\ \A i \in 1 .. Len(bin') : bin'[i] = ByteAt(FirstAddress + i - 1)
       /\ \A i \in DataLines : AddressOf(i) - FirstAddress + Len(file.records[i].data) \in 1 .. Len(bin')
  BY ONLY <1>1, <1>17, <1>18, HoldsAll, Zenon
<1>20. ASSUME NEW i \in Summed
       PROVE  file.records[i].off = 0 \/ i \notin OfType(0 .. 7)
                \/ (file.records[i].type = 0 /\ file.records[i].data = << >>)
  <2>1. i \in 1 .. m
    BY <1>6
  <2>2. \A t \in 0 .. 7 : ~ (t > 7)
    OBVIOUS
  <2> QED
    BY ONLY <1>15, <2>1, <2>2, Zenon DEF SumsRight, OfType
<1>21. /\ Summed' = Summed /\ FirstAddress' = FirstAddress /\ DataLines' = DataLines
       /\ \A t : OfType(t)' = OfType(t)
       /\ \A i : AddressOf(i)' = AddressOf(i)
       /\ \A a : ByteAt(a)' = ByteAt(a)
  BY ONLY <1>1, SaysTheSame, Zenon
<1> QED
  BY ONLY <1>1, <1>19, <1>20, <1>21, Zenon DEF ConvertedIsFile
-----------------------------------------------------------------------------
(* Packaging *)

ObjectFile == file \in Objects /\ cut \in 0 .. Len(file.bytes)

Sections == Len(file.sections)

LEMMA ObjectTypes ==
  ASSUME ObjectFile
  PROVE  /\ file.format \in {"bin", "coff", "elf"} /\ file.words \in BOOLEAN
         /\ file.announced \in Nat /\ file.announced < Wrap /\ Wrap \in Nat \ {0}
         /\ file.bytes \in Seq(Bytes) /\ Len(file.bytes) \in Nat
         /\ Sections \in Nat /\ DOMAIN file.sections = 1 .. Sections
         /\ \A j \in 1 .. Sections :
              /\ file.sections[j].addr \in Nat /\ file.sections[j].size \in Nat
              /\ file.sections[j].raw \in Nat /\ file.sections[j].loads \in BOOLEAN
<1> DEFINE T == [addr : Number, size : Number, raw : Number, loads : BOOLEAN]
<1>1. file \in [format : {"bin", "coff", "elf"}, words : BOOLEAN, header : {"good", "bad"},
                announced : Number, bytes : Seq(Bytes), sections : Seq(T)]
  BY ObjectAssumption, Zenon DEF ObjectAssumption, ObjectFile
<1>2. /\ file.format \in {"bin", "coff", "elf"} /\ file.words \in BOOLEAN /\ file.announced \in Number
      /\ file.bytes \in Seq(Bytes) /\ file.sections \in Seq(T)
  <2> HIDE DEF T
  <2> QED
    BY ONLY <1>1
<1>3. Len(file.bytes) \in Nat /\ Sections \in Nat /\ DOMAIN file.sections = 1 .. Sections
  BY ONLY <1>2, LenProperties DEF Sections
<1>4. ASSUME NEW j \in 1 .. Sections PROVE file.sections[j] \in T
  BY ONLY <1>2, <1>4, ElementOfSeq DEF Sections
<1>5. Wrap \in Nat \ {0} /\ \A x \in Number : x \in Nat /\ x < Wrap
  BY SizesAssumption DEF SizesAssumption, Number
<1>6. ASSUME NEW j \in 1 .. Sections
      PROVE  /\ file.sections[j].addr \in Number /\ file.sections[j].size \in Number
             /\ file.sections[j].raw \in Number /\ file.sections[j].loads \in BOOLEAN
  BY ONLY <1>4
<1> QED
  BY ONLY <1>2, <1>3, <1>5, <1>6, Zenon

LEMMA StoredBytes ==
  ASSUME ObjectFile
  PROVE  /\ Stored \in Seq(Bytes) /\ Len(Stored) = cut /\ cut \in Nat
         /\ \A x \in 1 .. cut : Stored[x] = file.bytes[x]
<1>1. file.bytes \in Seq(Bytes) /\ Len(file.bytes) \in Nat /\ cut \in 0 .. Len(file.bytes)
      /\ file.format \in {"bin", "coff", "elf"}
  BY ObjectTypes DEF ObjectFile
<1>2. Stored = SubSeq(file.bytes, 1, cut)
  BY <1>1 DEF Stored
<1>3. cut \in Nat /\ \A x \in 1 .. cut : file.bytes[x] \in Bytes
  BY ONLY <1>1, ElementOfSeq
<1>4. PICK c, s : c = cut /\ s = file.bytes
  OBVIOUS
<1>5. c \in Nat /\ \A x \in 1 .. c : s[x] \in Bytes
  BY ONLY <1>3, <1>4, Zenon
<1>6. /\ SubSeq(s, 1, c) \in Seq(Bytes) /\ Len(SubSeq(s, 1, c)) = (IF 1 <= c THEN c - 1 + 1 ELSE 0)
      /\ \A x \in 1 .. c - 1 + 1 : SubSeq(s, 1, c)[x] = s[1 + x - 1]
  BY ONLY <1>5, SubSeqProperties, SMT
<1> DEFINE u == SubSeq(s, 1, c)
<1>7. u \in Seq(Bytes) /\ Len(u) = c /\ \A x \in 1 .. c : u[x] = s[x]
  <2> HIDE DEF u
  <2>1. /\ u \in Seq(Bytes) /\ Len(u) = (IF 1 <= c THEN c - 1 + 1 ELSE 0)
        /\ \A x \in 1 .. c - 1 + 1 : u[x] = s[1 + x - 1]
    BY ONLY <1>6, Zenon DEF u
  <2> QED
    BY ONLY <1>5, <2>1
<1> QED
  BY ONLY <1>2, <1>3, <1>4, <1>7, Zenon

LEMMA PaddingBytes ==
  ASSUME NEW n \in Nat
  PROVE  /\ Padding(n) \in Seq(Bytes) /\ Len(Padding(n)) = n /\ PadByte \in Bytes
         /\ \A x \in 1 .. n : Padding(n)[x] = PadByte
<1>1. PadByte \in Bytes
  BY DEF PadByte, Bytes
<1> QED
  BY <1>1 DEF Padding

\* r is s, n bytes of padding and d.
Joins(S, s, n, d, r) ==
  /\ r \in Seq(S) /\ Len(r) = Len(s) + n + Len(d) /\ Len(s) \in Nat /\ Len(d) \in Nat
  /\ \A x \in 1 .. Len(s) : r[x] = s[x]
  /\ \A x \in 1 .. n : r[Len(s) + x] = PadByte
  /\ \A x \in 1 .. Len(d) : r[Len(s) + n + x] = d[x]

\* What bin_sink makes of the image.
LEMMA PadAndAppend ==
  ASSUME NEW S, NEW s \in Seq(S), NEW n \in Nat, NEW d \in Seq(S), Bytes \subseteq S
  PROVE  Joins(S, s, n, d, s \o (Padding(n) \o d))
<1> DEFINE m == Padding(n)
           p == PadByte
<1>1. m \in Seq(S) /\ Len(m) = n /\ \A x \in 1 .. n : m[x] = p
  <2>1. /\ Padding(n) \in Seq(Bytes) /\ Len(Padding(n)) = n
        /\ \A x \in 1 .. n : Padding(n)[x] = PadByte
    BY PaddingBytes, Zenon
  <2>2. \A q \in Seq(Bytes) : q \in Seq(S)
    OBVIOUS
  <2> QED
    BY ONLY <2>1, <2>2, Zenon
<1> HIDE DEF m, p
<1> DEFINE h == m \o d
           r == s \o h
<1>2. Len(s) \in Nat /\ Len(d) \in Nat
  BY LenProperties
<1>3. /\ h \in Seq(S) /\ Len(h) = Len(m) + Len(d)
      /\ \A x \in 1 .. Len(m) + Len(d) : h[x] = IF x <= Len(m) THEN m[x] ELSE d[x - Len(m)]
  BY ONLY <1>1, d \in Seq(S), ConcatProperties, Zenon
<1> HIDE DEF h
<1>4. /\ r \in Seq(S) /\ Len(r) = Len(s) + Len(h)
      /\ \A x \in 1 .. Len(s) + Len(h) : r[x] = IF x <= Len(s) THEN s[x] ELSE h[x - Len(s)]
  <2>1. h \in Seq(S)
    BY ONLY <1>3
  <2> QED
    BY ONLY <2>1, s \in Seq(S), ConcatProperties, Zenon
<1> HIDE DEF r
<1>5. \A x \in 1 .. Len(s) : r[x] = s[x]
  BY ONLY <1>1, <1>2, <1>3, <1>4, n \in Nat
<1>6. \A x \in 1 .. n : r[Len(s) + x] = p
  <2> TAKE x \in 1 .. n
  <2>1. Len(s) + x \in 1 .. Len(s) + Len(h) /\ ~ (Len(s) + x <= Len(s))
        /\ x \in 1 .. Len(m) + Len(d) /\ x <= Len(m) /\ Len(s) + x - Len(s) = x
    BY ONLY <1>1, <1>2, <1>3, n \in Nat, x \in 1 .. n
  <2>2. r[Len(s) + x] = h[x]
    BY ONLY <1>4, <2>1
  <2>3. h[x] = m[x]
    BY ONLY <1>3, <2>1, Zenon
  <2> QED
    BY ONLY <1>1, <2>2, <2>3, x \in 1 .. n, Zenon
<1>7. \A x \in 1 .. Len(d) : r[Len(s) + n + x] = d[x]
  <2> TAKE x \in 1 .. Len(d)
  <2>1. PICK y : y = n + x
    OBVIOUS
  <2>2. y \in 1 .. Len(m) + Len(d) /\ ~ (y <= Len(m)) /\ y - Len(m) = x
    BY ONLY <1>1, <1>2, <2>1, n \in Nat, x \in 1 .. Len(d)
  <2>3. Len(s) + n + x \in 1 .. Len(s) + Len(h) /\ ~ (Len(s) + n + x <= Len(s)) /\ Len(s) + n + x - Len(s) = y
    BY ONLY <1>1, <1>2, <1>3, <2>1, n \in Nat, x \in 1 .. Len(d)
  <2>4. r[Len(s) + n + x] = h[y] /\ h[y] = d[x]
    BY ONLY <1>3, <1>4, <2>2, <2>3
  <2> QED
    BY ONLY <2>4
<1>8. Len(r) = Len(s) + n + Len(d)
  BY ONLY <1>1, <1>2, <1>3, <1>4, n \in Nat
<1> QED
  BY ONLY <1>2, <1>4, <1>5, <1>6, <1>7, <1>8, Zenon DEF r, h, m, p, Joins

\* A piece of a sequence.
LEMMA Piece ==
  ASSUME NEW S, NEW s \in Seq(S), NEW a \in Nat, NEW b \in Nat, a <= b, b <= Len(s)
  PROVE  /\ SubSeq(s, a + 1, b) \in Seq(S) /\ Len(SubSeq(s, a + 1, b)) = b - a
         /\ \A x \in 1 .. b - a : SubSeq(s, a + 1, b)[x] = s[a + x]
<1>1. Len(s) \in Nat
  BY LenProperties
<1>2. a + 1 \in Int /\ b \in Int /\ \A x \in a + 1 .. b : s[x] \in S
  <2>1. \A x \in a + 1 .. b : x \in 1 .. Len(s)
    BY <1>1
  <2> QED
    BY <2>1, ElementOfSeq
<1>3. PICK m : m = a + 1
  OBVIOUS
<1>4. m \in Int /\ b \in Int /\ \A x \in m .. b : s[x] \in S
  BY ONLY <1>2, <1>3
<1> DEFINE u == SubSeq(s, m, b)
<1>5. /\ u \in Seq(S) /\ Len(u) = (IF m <= b THEN b - m + 1 ELSE 0)
      /\ \A x \in 1 .. b - m + 1 : u[x] = s[m + x - 1]
  BY ONLY <1>4, SubSeqProperties, SMT
<1> HIDE DEF u
<1>6. /\ u \in Seq(S) /\ Len(u) = b - a
      /\ \A x \in 1 .. b - a : u[x] = s[a + x]
  <2>1. b - m + 1 = b - a /\ \A x \in 1 .. b - a : m + x - 1 = a + x
    BY ONLY <1>3, a \in Nat, b \in Nat
  <2>2. Len(u) = b - a
    BY ONLY <1>3, <1>5, a \in Nat, b \in Nat, a <= b
  <2> QED
    BY ONLY <1>5, <2>1, <2>2, Zenon
<1> QED
  BY ONLY <1>3, <1>6, Zenon DEF u

LEMMA Prefix ==
  ASSUME NEW S, NEW s \in Seq(S), NEW b \in Nat, b <= Len(s)
  PROVE  /\ SubSeq(s, 1, b) \in Seq(S) /\ Len(SubSeq(s, 1, b)) = b
         /\ \A x \in 1 .. b : SubSeq(s, 1, b)[x] = s[x]
<1>1. PICK a : a = 0
  OBVIOUS
<1>2. a \in Nat /\ a <= b /\ a + 1 = 1 /\ b - a = b /\ \A x \in 1 .. b : a + x = x
  BY <1>1
<1>3. /\ SubSeq(s, a + 1, b) \in Seq(S) /\ Len(SubSeq(s, a + 1, b)) = b - a
      /\ \A x \in 1 .. b - a : SubSeq(s, a + 1, b)[x] = s[a + x]
  BY ONLY <1>2, s \in Seq(S), b \in Nat, b <= Len(s), Piece
<1> QED
  BY ONLY <1>2, <1>3

\* What one more read makes of a copy of the first bytes.
Continues(s, a, n, im, rd, z) == im \o (Padding(z) \o rd) = SubSeq(s, 1, a + n)

LEMMA CopyMore ==
  ASSUME NEW s \in Seq(Cell), NEW a \in Nat, NEW n \in Nat, a + n <= Len(s), NEW im, im = SubSeq(s, 1, a),
         NEW rd, rd = SubSeq(s, a + 1, a + n), NEW z, z = 0
  PROVE  Continues(s, a, n, im, rd, z)
<1> SUFFICES im \o (Padding(z) \o rd) = SubSeq(s, 1, a + n)
  BY Zenon DEF Continues
<1>1. Len(s) \in Nat /\ a <= Len(s)
  <2>1. Len(s) \in Nat
    BY LenProperties
  <2> QED
    BY ONLY <2>1, a \in Nat, n \in Nat, a + n <= Len(s)
<1>2. PICK b : b = a + n
  OBVIOUS
<1>3. b \in Nat /\ a <= b /\ b <= Len(s) /\ b - a = n
  BY ONLY <1>2, a \in Nat, n \in Nat, a + n <= Len(s)
<1>4. rd = SubSeq(s, a + 1, b)
  BY <1>2
<1>5. /\ rd \in Seq(Cell) /\ Len(rd) = b - a
      /\ \A x \in 1 .. b - a : rd[x] = s[a + x]
  BY ONLY <1>3, <1>4, s \in Seq(Cell), a \in Nat, Piece, Zenon
<1> DEFINE all == SubSeq(s, 1, b)
           more == im \o (Padding(z) \o rd)
<1>8. im \in Seq(Cell) /\ Len(im) = a /\ \A x \in 1 .. a : im[x] = s[x]
  BY ONLY <1>1, s \in Seq(Cell), a \in Nat, im = SubSeq(s, 1, a), Prefix, Zenon
<1>9. all \in Seq(Cell) /\ Len(all) = b /\ \A x \in 1 .. b : all[x] = s[x]
  BY ONLY <1>3, s \in Seq(Cell), Prefix, Zenon
<1>10. z \in Nat
  OBVIOUS
<1>11. /\ more \in Seq(Cell) /\ Len(more) = Len(im) + 0 + Len(rd)
       /\ \A x \in 1 .. Len(im) : more[x] = im[x]
       /\ \A x \in 1 .. Len(rd) : more[Len(im) + 0 + x] = rd[x]
  <2>1. im \in Seq(Cell) /\ rd \in Seq(Cell)
    BY ONLY <1>5, <1>8
  <2>2. Bytes \subseteq Cell
    BY DEF Cell
  <2>3. Joins(Cell, im, z, rd, im \o (Padding(z) \o rd))
    BY ONLY <1>10, <2>1, <2>2, PadAndAppend, Zenon
  <2> QED
    BY ONLY z = 0, <2>3, Zenon DEF Joins
<1> HIDE DEF all, more
<1>12. Len(more) = b /\ \A x \in 1 .. b : more[x] = s[x]
  <2>1. Len(more) = b
    BY ONLY <1>3, <1>5, <1>8, <1>11, a \in Nat
  <2>2. \A x \in 1 .. a : more[x] = s[x]
    BY ONLY <1>8, <1>11
  <2>3. ASSUME NEW x \in 1 .. b, ~ (x \in 1 .. a) PROVE more[x] = s[x]
    <3>1. PICK y : y = x - a
      OBVIOUS
    <3>2. y \in 1 .. b - a /\ a + y = x /\ a + 0 + y = x
      BY ONLY <1>3, <2>3, <3>1, a \in Nat
    <3>3. more[a + 0 + y] = rd[y] /\ rd[y] = s[a + y]
      BY ONLY <1>5, <1>8, <1>11, <3>2, Zenon
    <3> QED
      BY ONLY <3>2, <3>3
  <2> QED
    BY ONLY <2>1, <2>2, <2>3, Zenon
<1>13. more = all
  BY ONLY <1>9, <1>11, <1>12, SeqEqual
<1> QED
  BY ONLY <1>2, <1>3, <1>5, <1>13, Zenon DEF more, all

\* A file that is copied has been copied up to here.
CopyInv ==
  phase \in {"package", "ok"} /\ file.format \in {"ihex", "bin"} =>
    /\ at \in Nat /\ at <= Len(Stored) /\ offset \in Nat /\ sect = [index |-> 0, done |-> offset]
    /\ ~ unwritten => image = SubSeq(Stored, 1, at)
    /\ phase = "ok" /\ ~ unread => at = Len(Stored)

LEMMA StoredSame ==
  ASSUME file' = file, cut' = cut, bin' = bin
  PROVE  Stored' = Stored
BY DEF Stored

LEMMA CopyInvStays ==
  ASSUME CopyInv, Stored \in Seq(Cell), PackageBin
  PROVE  CopyInv'
<1> DEFINE there == Min({ReadSize, Len(Stored) - at})
<1>1. /\ phase = "package" /\ file.format \in {"ihex", "bin"}
      /\ file' = file /\ cut' = cut /\ bin' = bin
  BY Zenon DEF PackageBin
<1>2. PICK n \in 0 .. there :
        /\ unread' = (unread \/ n < there)
        /\ IF n = 0 THEN phase' = "ok" /\ at' = at /\ sect' = sect /\ image' = image /\ offset' = offset
                           /\ unwritten' = unwritten
           ELSE /\ BinSink(sect.done, SubSeq(Stored, at + 1, at + n))
                /\ at' = at + n /\ sect' = [sect EXCEPT !.done = (@ + n) % Wrap] /\ phase' = phase
  BY Zenon DEF PackageBin
<1>3. Stored' = Stored
  BY ONLY <1>1, StoredSame, Zenon
<1>4. /\ at \in Nat /\ at <= Len(Stored) /\ offset \in Nat /\ sect = [index |-> 0, done |-> offset]
      /\ ~ unwritten => image = SubSeq(Stored, 1, at)
  BY <1>1 DEF CopyInv
<1>5. Len(Stored) \in Nat /\ ReadSize \in Nat \ {0} /\ Wrap \in Nat \ {0}
  BY LenProperties, SizesAssumption DEF SizesAssumption
<1>6. there \in Nat /\ there <= Len(Stored) - at /\ (there = 0 => at = Len(Stored))
  <2>1. PICK y : y = Len(Stored) - at
    OBVIOUS
  <2>2. y \in Nat /\ ReadSize \in Int
    BY ONLY <1>4, <1>5, <2>1
  <2>3. there = Min({ReadSize, y}) /\ y \in Int
    BY ONLY <2>1, <2>2
  <2>5. Min({ReadSize, y}) = IF ReadSize <= y THEN ReadSize ELSE y
    BY ONLY <2>2, <2>3, LargerOfTwo, Zenon
  <2> QED
    BY ONLY <1>4, <1>5, <2>1, <2>2, <2>3, <2>5
<1> HIDE DEF there
<1>7. n \in Nat /\ n <= there /\ at + n \in Nat /\ at + n <= Len(Stored)
  BY ONLY <1>4, <1>5, <1>6, n \in 0 .. there
<1>8. CASE n = 0
  <2>1. ~ unread' => there = 0
    <3>1. ~ unread' => ~ (n < there)
      BY ONLY <1>2, Zenon
    <3> QED
      BY ONLY <1>6, <1>8, <3>1
  <2> QED
    BY ONLY <1>1, <1>2, <1>3, <1>4, <1>6, <1>8, <2>1, Zenon DEF CopyInv
<1>9. CASE n # 0
  <2>1. sect.done = offset /\ offset - offset = 0
    BY ONLY <1>4
  <2>2. PICK rd, z : rd = SubSeq(Stored, at + 1, at + n) /\ z = offset - offset
    OBVIOUS
  <2>3. /\ Write(Padding(z) \o rd) /\ offset' = (offset + Len(rd)) % Wrap
        /\ at' = at + n /\ sect' = [sect EXCEPT !.done = (@ + n) % Wrap] /\ phase' = phase
    BY ONLY <1>2, <1>9, <2>1, <2>2, Zenon DEF BinSink
  <2>4. Len(rd) = n
    BY ONLY Stored \in Seq(Cell), <1>4, <1>7, <2>2, Piece
  <2>5. sect' = [index |-> 0, done |-> (offset + n) % Wrap] /\ offset' = (offset + n) % Wrap
    BY ONLY <1>4, <2>3, <2>4
  <2>6. (offset + n) % Wrap \in Nat
    BY ONLY <1>4, <1>5, <1>7
  <2>7. ASSUME ~ unwritten' PROVE image' = SubSeq(Stored, 1, at + n)
    <3>1. image' = image \o (Padding(z) \o rd) /\ ~ unwritten
      <4>1. image' = image \o (Padding(z) \o rd) /\ unwritten' = unwritten
        BY ONLY <2>3, <2>7, Zenon DEF Write
      <4> QED
        BY ONLY <2>7, <4>1
    <3>2. PICK im : im = SubSeq(Stored, 1, at)
      OBVIOUS
    <3>3. im \o (Padding(z) \o rd) = SubSeq(Stored, 1, at + n)
      <4>1. z = 0
        BY ONLY <2>1, <2>2
      <4>2. at \in Nat /\ n \in Nat /\ at + n <= Len(Stored) /\ rd = SubSeq(Stored, at + 1, at + n)
        BY ONLY <1>4, <1>7, <2>2
      <4>3. PICK s, a : s = Stored /\ a = at
        OBVIOUS
      <4>4. /\ s \in Seq(Cell) /\ a \in Nat /\ n \in Nat /\ a + n <= Len(s) /\ im = SubSeq(s, 1, a)
            /\ rd = SubSeq(s, a + 1, a + n)
        BY ONLY Stored \in Seq(Cell), <3>2, <4>2, <4>3, Zenon
      <4>5. im \o (Padding(z) \o rd) = SubSeq(s, 1, a + n)
        <5>1. Continues(s, a, n, im, rd, z)
          BY ONLY <4>1, <4>4, CopyMore, Zenon
        <5> QED
          BY ONLY <5>1, Zenon DEF Continues
      <4> QED
        BY ONLY <4>3, <4>5, Zenon
    <3> QED
      BY ONLY <1>4, <3>1, <3>2, <3>3, Zenon
  <2>8. phase' # "ok"
    BY ONLY <1>1, <2>3
  <2>9. offset' \in Nat /\ sect' = [index |-> 0, done |-> offset']
    BY ONLY <2>5, <2>6, Zenon
  <2> QED
    BY ONLY <1>3, <1>7, <2>3, <2>7, <2>8, <2>9, Zenon DEF CopyInv
<1> QED
  BY ONLY <1>8, <1>9

-----------------------------------------------------------------------------
(* Sections *)

\* The bytes of a section that are in the image, of a file addressed in bytes.
Passed(j) ==
  IF j = sect.index THEN sect.done
  ELSE IF j < sect.index /\ ~ Skipped(file.sections[j]) THEN file.sections[j].size ELSE 0

Covered(j, a) == a - file.sections[j].addr \in 0 .. Passed(j) - 1

ByBytes == file.format \in {"coff", "elf"} /\ file.words = FALSE

\* The sections that were passed on are where they belong, and nothing else.
Laid ==
  /\ image \in Seq(Bytes) /\ sect.index \in Nat /\ sect.done \in Nat /\ sect.index <= Sections + 1
  /\ offset = Len(image)
  /\ \A j \in 1 .. Sections :
       Passed(j) # 0 => /\ ~ Skipped(file.sections[j])
                        /\ file.sections[j].addr + Passed(j) <= Len(image)
  /\ \A a \in Nat : a < Len(image) =>
       /\ \A j \in 1 .. Sections :
            Covered(j, a) => image[a + 1] = file.bytes[file.sections[j].raw + a - file.sections[j].addr + 1]
       /\ (\A j \in 1 .. Sections : ~ Covered(j, a)) => image[a + 1] = PadByte

LoadInv ==
  phase \in {"package", "ok"} /\ ByBytes /\ Fits /\ ~ unwritten =>
    /\ Laid
    /\ sect.index # 0 => Complete
    /\ sect.index = 0 => image = << >>
    /\ phase = "ok" => sect.index = Sections + 1

LEMMA PassedNat ==
  ASSUME ObjectFile, sect.index \in Nat, sect.done \in Nat, NEW j \in 1 .. Sections
  PROVE  Passed(j) \in Nat
BY ObjectTypes DEF Passed

\* What the sections mean for the image depends on what was passed on of each.
LEMMA LaidSame ==
  ASSUME Laid, file' = file, image' = image, offset' = offset, \A j \in 1 .. Sections : Passed(j)' = Passed(j),
         sect'.index \in Nat, sect'.done \in Nat, sect'.index <= Sections + 1
  PROVE  Laid'
<1>1. Sections' = Sections
  BY Zenon DEF Sections
<1>2. \A j : Skipped(file.sections[j])' <=> Skipped(file.sections[j])
  BY Zenon DEF Skipped, SizeOf
<1>3. \A j \in 1 .. Sections : \A a : Covered(j, a)' <=> Covered(j, a)
  BY Zenon DEF Covered
<1>4. /\ image' \in Seq(Bytes) /\ sect'.index <= Sections' + 1 /\ offset' = Len(image')
  BY <1>1, Zenon DEF Laid
<1>5. \A j \in 1 .. Sections' :
        Passed(j)' # 0 => /\ ~ Skipped(file.sections[j])'
                          /\ file'.sections[j].addr + Passed(j)' <= Len(image')
  BY <1>1, <1>2, Zenon DEF Laid
<1>6. \A a \in Nat : a < Len(image') =>
        /\ \A j \in 1 .. Sections' :
             Covered(j, a)' => image'[a + 1] = file'.bytes[file'.sections[j].raw + a - file'.sections[j].addr + 1]
        /\ (\A j \in 1 .. Sections' : ~ Covered(j, a)') => image'[a + 1] = PadByte
  BY <1>1, <1>3, Zenon DEF Laid
<1> QED
  BY ONLY <1>4, <1>5, <1>6, sect'.index \in Nat, sect'.done \in Nat, Zenon DEF Laid

\* A section that is skipped, or was passed on, is done with.
LEMMA SectionEnds ==
  ASSUME ObjectFile, ByBytes, Laid, sect.index \in 1 .. Sections, Left(Section) = 0, file' = file, image' = image,
         offset' = offset,
         sect' = [index |-> sect.index + 1, done |-> 0]
  PROVE  Laid'
<1>1. Sections \in Nat /\ sect.index \in Nat /\ sect.done \in Nat
  BY ObjectTypes DEF Laid
<1>2. sect'.index = sect.index + 1 /\ sect'.done = 0
  OBVIOUS
<1>3. ASSUME NEW j \in 1 .. Sections PROVE Passed(j)' = Passed(j)
  <2>1. Passed(j)' = IF j = sect.index + 1 THEN 0
                     ELSE IF j < sect.index + 1 /\ ~ Skipped(file.sections[j]) THEN file.sections[j].size ELSE 0
    BY <1>2, Zenon DEF Passed, Skipped, SizeOf
  <2>2. CASE j = sect.index
    <3>1. Passed(j) = sect.done
      BY <2>2, Zenon DEF Passed
    <3>2. Passed(j)' = IF Skipped(file.sections[j]) THEN 0 ELSE file.sections[j].size
      <4>1. j # sect.index + 1 /\ j < sect.index + 1
        BY <1>1, <2>2
      <4> QED
        BY <2>1, <4>1, Zenon
    <3>3. Section = file.sections[j]
      BY <2>2, Zenon DEF Section
    <3>4. CASE Skipped(file.sections[j])
      <4>1. Passed(j) = 0
        BY <3>4, Zenon DEF Laid
      <4> QED
        BY <3>2, <3>4, <4>1, Zenon
    <3>5. CASE ~ Skipped(file.sections[j])
      <4>1. SizeOf(file.sections[j]) - sect.done = 0
        BY <3>3, <3>5, Zenon DEF Left
      <4>2. SizeOf(file.sections[j]) = file.sections[j].size
        BY Zenon DEF SizeOf, ByBytes
      <4>3. file.sections[j].size \in Nat
        BY ObjectTypes, Zenon
      <4>4. file.sections[j].size = sect.done
        BY ONLY <1>1, <4>1, <4>2, <4>3
      <4> QED
        BY ONLY <3>1, <3>2, <3>5, <4>4, Zenon
    <3> QED
      BY ONLY <3>4, <3>5
  <2>3. CASE j # sect.index
    <3>1. j = sect.index + 1 => ~ (j < sect.index)
      BY <1>1
    <3>2. j # sect.index + 1 => (j < sect.index + 1 <=> j < sect.index)
      BY <1>1, <2>3
    <3> QED
      BY <2>1, <2>3, <3>1, <3>2, Zenon DEF Passed
  <2> QED
    BY ONLY <2>2, <2>3
<1>4. sect'.index \in Nat /\ sect'.done \in Nat /\ sect'.index <= Sections + 1
  BY <1>1, <1>2
<1> QED
  BY <1>3, <1>4, LaidSame, Zenon

\* The next part of a section is where it belongs.
LEMMA PartLands ==
  ASSUME ObjectFile, ByBytes, Fits, Laid, Complete, sect.index \in 1 .. Sections, Left(Section) > 0,
         SinkPart, ~ unwritten'
  PROVE  Laid'
<1> DEFINE k == sect.index
           e == sect.done
           n == Min({Left(Section), SinkSize})
           d == Part(n)
           b == Section.addr + sect.done
           L == Len(image)
           A == file.sections[sect.index].addr
           R == file.sections[sect.index].raw
           Z == file.sections[sect.index].size
<1>1. /\ BinSink(Address, d) /\ sect' = [sect EXCEPT !.done = @ + n]
      /\ file' = file /\ cut' = cut /\ bin' = bin
  BY Zenon DEF SinkPart
<1>2. /\ Sections \in Nat /\ k \in 1 .. Sections /\ e \in Nat /\ A \in Nat /\ R \in Nat /\ Z \in Nat
      /\ file.announced \in Nat /\ file.announced < Wrap /\ Wrap \in Nat \ {0}
  BY ObjectTypes DEF Laid
<1>3. Section = file.sections[k]
  BY DEF Section
<1>4. SizeOf(Section) = Z
  BY <1>3, Zenon DEF SizeOf, ByBytes
<1>5. ~ Skipped(Section) /\ Left(Section) = Z - e /\ Z - e > 0
  <2>1. ~ Skipped(Section)
    <3>1. ~ (0 > 0)
      OBVIOUS
    <3> QED
      BY <3>1, Zenon DEF Left
  <2>2. Left(Section) = Z - e
    BY <1>4, <2>1, Zenon DEF Left
  <2> QED
    BY <2>1, <2>2
<1>6. n \in Nat /\ n > 0 /\ n <= Z - e
  <2>1. SinkSize \in Nat /\ SinkSize > 0
    BY SizesAssumption DEF SizesAssumption
  <2>2. PICK z : z = Z - e
    OBVIOUS
  <2>3. z \in Int /\ z > 0
    BY <1>2, <1>5, <2>2
  <2>4. n = Min({z, SinkSize})
    BY <1>5, <2>2, Zenon
  <2>5. Min({z, SinkSize}) = IF z <= SinkSize THEN z ELSE SinkSize
    BY ONLY <2>1, <2>3, LargerOfTwo
  <2> HIDE DEF n, Z
  <2> QED
    BY ONLY <2>1, <2>2, <2>3, <2>4, <2>5
<1>7. R + Z <= file.announced /\ A + Z < Wrap /\ b = A + e
  <2>1. Section \in Range(file.sections)
    BY <1>2, <1>3, ObjectTypes, Zenon DEF Range
  <2> QED
    BY <1>3, <1>5, <2>1, Zenon DEF Fits
<1>8. /\ Stored \in Seq(Bytes) /\ Len(Stored) = cut /\ cut \in Nat /\ cut >= file.announced
      /\ \A x \in 1 .. cut : Stored[x] = file.bytes[x]
  BY StoredBytes, Zenon DEF Complete
<1> HIDE DEF n
<1>9. /\ d \in Seq(Bytes) /\ Len(d) = n
      /\ \A x \in 1 .. n : d[x] = file.bytes[R + e + x]
  <2> DEFINE pointer(x) == (R + e + x - 1) % Wrap
             byte(x) == IF pointer(x) < file.announced THEN Stored[pointer(x) + 1] ELSE Outside
             u == [x \in 1 .. n |-> byte(x)]
  <2>1. d = u
    BY <1>3, Zenon DEF Part
  <2>2. ASSUME NEW x \in 1 .. n PROVE byte(x) = file.bytes[R + e + x] /\ byte(x) \in Bytes
    <3>1. PICK y : y = R + e + x - 1
      OBVIOUS
    <3>2. y \in Nat /\ y < file.announced /\ y < Wrap /\ y + 1 = R + e + x /\ y + 1 \in 1 .. cut
      <4> HIDE DEF A, R, e, Z, b
      <4>1. R \in Nat /\ e \in Nat /\ Z \in Nat /\ file.announced \in Nat /\ R + Z <= file.announced
            /\ file.announced < Wrap /\ Wrap \in Nat /\ cut \in Nat /\ file.announced <= cut
        BY ONLY <1>2, <1>7, <1>8
      <4>2. x \in Nat /\ x >= 1 /\ e + x <= Z
        BY ONLY <1>6, <4>1, x \in 1 .. n
      <4> QED
        BY ONLY <3>1, <4>1, <4>2
    <3>3. y % Wrap = y
      BY ONLY <1>2, <3>2
    <3>4. pointer(x) = y
      BY ONLY <3>1, <3>3
    <3> HIDE DEF R, e, pointer
    <3>5. byte(x) = Stored[y + 1]
      BY ONLY <3>2, <3>4
    <3>6. Stored[y + 1] = file.bytes[y + 1] /\ Stored[y + 1] \in Bytes
      BY ONLY <1>8, <3>2, ElementOfSeq
    <3> QED
      BY ONLY <3>2, <3>5, <3>6
  <2> HIDE DEF byte
  <2>3. u \in Seq(Bytes) /\ Len(u) = n /\ \A x \in 1 .. n : u[x] = byte(x)
    BY ONLY <1>6, <2>2
  <2> HIDE DEF u, d, R, e
  <2> QED
    BY ONLY <2>1, <2>2, <2>3, Zenon
<1> HIDE DEF d
<1>10. image \in Seq(Bytes) /\ L \in Nat
  BY LenProperties DEF Laid
<1>11. b >= L /\ image' = image \o (Padding(b - L) \o d) /\ offset' = (b + Len(d)) % Wrap
  <2>1. Address = b
    <3>1. b \in Nat /\ b < Wrap
      <4> HIDE DEF A, e, b, Z
      <4> QED
        BY ONLY <1>2, <1>6, <1>7
    <3>2. b % Wrap = b
      <4> HIDE DEF b
      <4> QED
        BY ONLY <1>2, <3>1
    <3> QED
      BY <3>2, Zenon DEF Address
  <2>2. offset = L
    BY Zenon DEF Laid
  <2>3. b >= offset /\ Write(Padding(b - offset) \o d) /\ offset' = (b + Len(d)) % Wrap
    BY ONLY <1>1, <2>1, Zenon DEF BinSink
  <2>4. image' = image \o (Padding(b - offset) \o d)
    BY ONLY <2>3, ~ unwritten', Zenon DEF Write
  <2> QED
    BY ONLY <2>2, <2>3, <2>4, Zenon
<1>12. PICK p : p = b - L
  OBVIOUS
<1>13. p \in Nat /\ L + p = b
  <2> HIDE DEF A, e, b, L
  <2> QED
    BY ONLY <1>2, <1>7, <1>10, <1>11, <1>12
<1>14. Joins(Bytes, image, p, d, image')
  <2>1. image' = image \o (Padding(p) \o d) /\ Bytes \subseteq Bytes
    BY ONLY <1>11, <1>12, Zenon
  <2>2. Joins(Bytes, image, p, d, image \o (Padding(p) \o d))
    BY ONLY <1>9, <1>10, <1>13, <2>1, PadAndAppend, Zenon
  <2> QED
    BY ONLY <2>1, <2>2, Zenon
<1>15. /\ image' \in Seq(Bytes) /\ Len(image') = L + p + n
       /\ \A x \in 1 .. L : image'[x] = image[x]
       /\ \A x \in 1 .. p : image'[L + x] = PadByte
       /\ \A x \in 1 .. n : image'[L + p + x] = file.bytes[R + e + x]
  BY ONLY <1>9, <1>14, Zenon DEF Joins, L
<1>16. sect'.index = k /\ sect'.done = e + n /\ Sections' = Sections
  <2>1. Sections' = Sections
    BY <1>1, Zenon DEF Sections
  <2> QED
    BY <1>1, <2>1
<1>17. ASSUME NEW j \in 1 .. Sections
       PROVE  /\ Passed(j)' = IF j = k THEN e + n ELSE Passed(j)
              /\ Passed(j) \in Nat /\ file.sections[j].addr \in Nat
              /\ j = k => Passed(j) = e /\ file.sections[j].addr = A /\ file.sections[j].raw = R
              /\ Passed(j) # 0 => file.sections[j].addr + Passed(j) <= L
  <2>1. Passed(j)' = IF j = k THEN e + n ELSE Passed(j)
    BY <1>1, <1>16, Zenon DEF Passed, Skipped, SizeOf
  <2>2. Passed(j) \in Nat /\ file.sections[j].addr \in Nat
    <3>1. sect.index \in Nat /\ sect.done \in Nat
      BY <1>2
    <3> QED
      BY <3>1, PassedNat, ObjectTypes, Zenon
  <2>3. j = k => Passed(j) = e
    BY Zenon DEF Passed
  <2>4. Passed(j) # 0 => file.sections[j].addr + Passed(j) <= L
    BY Zenon DEF Laid
  <2> QED
    BY <2>1, <2>2, <2>3, <2>4
<1>26. offset' = Len(image')
  <2>1. b + n \in Nat /\ b + n < Wrap
    <3> HIDE DEF A, e, b, Z
    <3> QED
      BY ONLY <1>2, <1>6, <1>7
  <2> HIDE DEF b, L
  <2>2. (b + n) % Wrap = b + n
    BY ONLY <1>2, <2>1
  <2> QED
    BY ONLY <1>9, <1>11, <1>13, <1>15, <2>2, Zenon
<1>18. /\ \A j \in 1 .. Sections : Passed(j) # 0 => ~ Skipped(file.sections[j])
       /\ \A a \in Nat : a < L =>
            /\ \A j \in 1 .. Sections :
                 Covered(j, a) => image[a + 1] = file.bytes[file.sections[j].raw + a - file.sections[j].addr + 1]
            /\ (\A j \in 1 .. Sections : ~ Covered(j, a)) => image[a + 1] = PadByte
  BY Zenon DEF Laid
<1> HIDE DEF k, e, b, L, A, R, Z
<1>19. ASSUME NEW j \in 1 .. Sections, Passed(j)' # 0
       PROVE  ~ Skipped(file.sections[j])' /\ file'.sections[j].addr + Passed(j)' <= Len(image')
  <2>1. CASE j = k
    <3>1. file.sections[j].addr + Passed(j)' = b + n
      BY ONLY <1>2, <1>6, <1>7, <1>17, <2>1
    <3>2. Len(image') = b + n
      BY ONLY <1>13, <1>15, Zenon
    <3>3. ~ Skipped(file.sections[j])
      BY ONLY <1>3, <1>5, <2>1, Zenon
    <3>4. b + n \in Int
      BY ONLY <1>2, <1>6, <1>7
    <3>5. b + n <= b + n
      BY ONLY <3>4
    <3> QED
      BY ONLY <1>1, <3>1, <3>2, <3>3, <3>5, Zenon DEF Skipped, SizeOf
  <2>2. CASE j # k
    <3>1. Passed(j)' = Passed(j)
      BY ONLY <1>17, <2>2, Zenon
    <3>2. file.sections[j].addr + Passed(j) <= Len(image')
      <4>1. file.sections[j].addr + Passed(j) <= L /\ file.sections[j].addr + Passed(j) \in Nat
        BY ONLY <1>17, <1>19, <3>1
      <4> QED
        BY ONLY <1>6, <1>10, <1>13, <1>15, <4>1
    <3>3. ~ Skipped(file.sections[j])
      BY ONLY <1>18, <1>19, <3>1, Zenon
    <3> QED
      BY ONLY <1>1, <3>1, <3>2, <3>3, Zenon DEF Skipped, SizeOf
  <2> QED
    BY ONLY <2>1, <2>2
<1>20. ASSUME NEW j \in 1 .. Sections, NEW a \in Nat
       PROVE  /\ j = k => (Covered(j, a)' <=> a - A \in 0 .. e + n - 1)
              /\ j = k => (Covered(j, a) <=> a - A \in 0 .. e - 1)
              /\ j # k => (Covered(j, a)' <=> a - file.sections[j].addr \in 0 .. Passed(j) - 1)
  <2>1. Covered(j, a)' <=> a - file.sections[j].addr \in 0 .. Passed(j)' - 1
    BY ONLY <1>1, Zenon DEF Covered
  <2>2. Covered(j, a) <=> a - file.sections[j].addr \in 0 .. Passed(j) - 1
    BY ONLY Zenon DEF Covered
  <2>3. j = k => Passed(j)' - 1 = e + n - 1 /\ Passed(j) - 1 = e - 1 /\ a - file.sections[j].addr = a - A
    BY ONLY <1>2, <1>6, <1>17
  <2>4. j # k => Passed(j)' = Passed(j)
    BY ONLY <1>17
  <2> QED
    BY ONLY <2>1, <2>2, <2>3, <2>4, Zenon
<1>21. ASSUME NEW a \in Nat, a < Len(image')
       PROVE  /\ \A j \in 1 .. Sections :
                   Covered(j, a)' => image'[a + 1] = file.bytes[file.sections[j].raw + a - file.sections[j].addr + 1]
              /\ (\A j \in 1 .. Sections : ~ Covered(j, a)') => image'[a + 1] = PadByte
  <2>0. L \in Nat /\ b \in Nat /\ b >= L /\ Len(image') = b + n /\ n \in Nat /\ n > 0
        /\ A \in Nat /\ e \in Nat /\ b = A + e /\ R \in Nat /\ p \in Nat /\ L + p = b
    <3>1. b >= L
      BY ONLY <1>11
    <3> QED
      BY ONLY <1>2, <1>6, <1>7, <1>10, <1>13, <1>15, <3>1
  \* Below what is new all stays as it was.
  <2>1. CASE a < L
    <3>1. image'[a + 1] = image[a + 1]
      <4>1. a + 1 \in 1 .. L
        BY ONLY <2>0, <2>1
      <4> QED
        BY ONLY <1>15, <4>1, Zenon
    <3>2. ASSUME NEW j \in 1 .. Sections PROVE Covered(j, a)' <=> Covered(j, a)
      <4>1. CASE j = k
        <5>1. a - A \in 0 .. e + n - 1 <=> a - A \in 0 .. e - 1
          BY ONLY <2>0, <2>1
        <5> QED
          BY ONLY <1>20, <4>1, <5>1, Zenon
      <4>2. CASE j # k
        BY ONLY <1>20, <4>2, Zenon DEF Covered
      <4> QED
        BY ONLY <4>1, <4>2
    <3> QED
      BY ONLY <1>18, <2>1, <3>1, <3>2, Zenon
  \* No section has anything where the padding is.
  <2>2. CASE ~ (a < L) /\ a < b
    <3>1. image'[a + 1] = PadByte
      <4>1. PICK x : x = a + 1 - L
        OBVIOUS
      <4>2. x \in 1 .. p /\ L + x = a + 1
        BY ONLY <2>0, <2>2, <4>1
      <4> QED
        BY ONLY <1>15, <4>2, Zenon
    <3>2. ASSUME NEW j \in 1 .. Sections PROVE ~ Covered(j, a)'
      <4>1. CASE j = k
        <5>1. e # 0 => A + e <= L
          BY ONLY <1>17, <4>1
        <5>2. ~ (a - A \in 0 .. e + n - 1)
          BY ONLY <2>0, <2>2, <5>1
        <5> QED
          BY ONLY <1>20, <4>1, <5>2, Zenon
      <4>2. CASE j # k
        <5>1. ~ (a - file.sections[j].addr \in 0 .. Passed(j) - 1)
          <6> DEFINE u == file.sections[j].addr
                     v == Passed(j)
          <6>1. u \in Nat /\ v \in Nat /\ (v # 0 => u + v <= L)
            BY ONLY <1>17, Zenon
          <6> HIDE DEF u, v
          <6>2. ~ (a - u \in 0 .. v - 1)
            BY ONLY <2>0, <2>2, <6>1
          <6> QED
            BY ONLY <6>2, Zenon DEF u, v
        <5> QED
          BY ONLY <1>20, <4>2, <5>1, Zenon
      <4> QED
        BY ONLY <4>1, <4>2
    <3> QED
      BY ONLY <3>1, <3>2, Zenon
  \* What is new belongs to this section and to no other.
  <2>3. CASE ~ (a < b)
    <3>1. image'[a + 1] = file.bytes[R + a - A + 1] /\ \A j \in 1 .. Sections : j = k => Covered(j, a)'
      <4>1. PICK x : x = a + 1 - b
        OBVIOUS
      <4>2. x \in 1 .. n /\ L + p + x = a + 1 /\ R + e + x = R + a - A + 1
        BY ONLY <1>21, <2>0, <2>3, <4>1
      <4>3. image'[a + 1] = file.bytes[R + a - A + 1]
        <5>1. image'[L + p + x] = file.bytes[R + e + x]
          BY ONLY <1>15, <4>2, Zenon
        <5> QED
          BY ONLY <4>2, <5>1
      <4>4. a - A \in 0 .. e + n - 1
        BY ONLY <1>21, <2>0, <2>3
      <4> QED
        BY ONLY <1>2, <1>20, <4>3, <4>4, Zenon
    <3>2. ASSUME NEW j \in 1 .. Sections, j # k PROVE ~ Covered(j, a)'
      <4> DEFINE u == file.sections[j].addr
                 v == Passed(j)
      <4>1. u \in Nat /\ v \in Nat /\ (v # 0 => u + v <= L)
        BY ONLY <1>17, Zenon
      <4> HIDE DEF u, v
      <4>2. ~ (a - u \in 0 .. v - 1)
        BY ONLY <2>0, <2>3, <4>1
      <4> QED
        BY ONLY <1>20, <3>2, <4>2, Zenon DEF u, v
    <3>3. ASSUME NEW j \in 1 .. Sections, Covered(j, a)'
          PROVE  image'[a + 1] = file.bytes[file.sections[j].raw + a - file.sections[j].addr + 1]
      <4>1. j = k
        BY ONLY <3>2, <3>3
      <4>2. file.sections[j].raw = R /\ file.sections[j].addr = A
        BY ONLY <1>17, <4>1, Zenon
      <4> QED
        BY ONLY <3>1, <4>2, Zenon
    <3>4. PICK j \in 1 .. Sections : j = k
      BY <1>2
    <3> QED
      BY ONLY <3>1, <3>3, <3>4, Zenon
  <2> QED
    BY ONLY <2>1, <2>2, <2>3
<1>22. sect'.index \in Nat /\ sect'.done \in Nat /\ sect'.index <= Sections' + 1
  BY ONLY <1>2, <1>6, <1>16
<1>23. \A j \in 1 .. Sections' :
         Passed(j)' # 0 => ~ Skipped(file.sections[j])' /\ file'.sections[j].addr + Passed(j)' <= Len(image')
  BY ONLY <1>16, <1>19, Zenon
<1>24. \A a \in Nat : a < Len(image') =>
         /\ \A j \in 1 .. Sections' :
              Covered(j, a)' => image'[a + 1] = file'.bytes[file'.sections[j].raw + a - file'.sections[j].addr + 1]
         /\ (\A j \in 1 .. Sections' : ~ Covered(j, a)') => image'[a + 1] = PadByte
  BY ONLY <1>1, <1>16, <1>21, Zenon
<1> QED
  BY ONLY <1>15, <1>22, <1>23, <1>24, <1>26, Zenon DEF Laid
-----------------------------------------------------------------------------
(* The invariant *)

\* Before the packaging nothing is packaged.
Fresh ==
  image = << >> /\ offset = 0 /\ sect = [index |-> 0, done |-> 0] /\ (phase = "close" => at = 0)

Whole ==
  /\ HexFile \/ (ObjectFile /\ phase \notin {"read", "close"})
  /\ ConvTypes
  /\ phase \in {"read", "close"} => Fresh
  /\ file.format \in {"ihex", "bin"} => sect.index = 0
  /\ ReadInv
  /\ ConvertedIsFile
  /\ CopyInv
  /\ LoadInv

LEMMA FormatDecides ==
  /\ HexFile => file.format = "ihex"
  /\ ObjectFile => file.format \in {"bin", "coff", "elf"} /\ file.format # "ihex"
<1>1. HexFile => file.format = "ihex"
  BY DEF HexFile
<1>2. ObjectFile => file.format \in {"bin", "coff", "elf"} /\ file.format # "ihex"
  BY ObjectTypes
<1> QED
  BY <1>1, <1>2

LEMMA WholeStarts ==
  ASSUME Init
  PROVE  Whole
<1>1. /\ at = 0 /\ bin = << >> /\ sect = [index |-> 0, done |-> 0] /\ image = << >> /\ offset = 0
      /\ conv = [based |-> FALSE, base |-> 0, error |-> FALSE]
  BY DEF Init
<1>2. (HexFile /\ phase = "read") \/ (ObjectFile /\ phase = "package")
  <2>1. CASE \E f \in HexFiles : /\ file = [format |-> "ihex", records |-> f]
                                 /\ phase = "read" /\ cut \in 0 .. Len(Tokens(f))
    BY <2>1 DEF HexFile
  <2>2. CASE \E o \in Objects : /\ file = o
                                /\ phase = "package" /\ cut \in 0 .. Len(o.bytes)
    BY <2>2 DEF ObjectFile
  <2> QED
    BY <2>1, <2>2 DEF Init
<1>3. ConvTypes
  BY <1>1 DEF ConvTypes
<1>4. sect.index = 0 /\ sect.done = 0
  BY <1>1
<1>5. CASE HexFile /\ phase = "read"
  <2>1. ReadInv
    BY <1>5, ReadInvStarts, Zenon
  <2>2. phase \notin {"close", "package", "ok"}
    BY <1>5
  <2> QED
    BY ONLY <1>1, <1>3, <1>4, <1>5, <2>1, <2>2, Zenon DEF Whole, ConvertedIsFile, CopyInv, LoadInv, Fresh
<1>6. CASE ObjectFile /\ phase = "package"
  <2>1. phase # "read" /\ phase # "ok" /\ phase # "close" /\ phase \notin {"read", "close"}
    BY <1>6
  <2>2. file.format # "ihex"
    BY <1>6, FormatDecides, Zenon
  <2>3. CopyInv
    <3>1. Stored \in Seq(Bytes) /\ Len(Stored) \in Nat
      BY ONLY <1>6, StoredBytes, Zenon
    <3>2. at \in Nat /\ at <= Len(Stored) /\ offset \in Nat
      BY <1>1, <3>1
    <3>3. SubSeq(Stored, 1, at) = << >>
      BY <1>1, <3>1, SubSeqEmpty
    <3> QED
      BY ONLY <1>1, <2>1, <3>2, <3>3, Zenon DEF CopyInv
  <2>4. Laid
    <3>1. \A j \in 1 .. Sections : Passed(j) = 0
      BY <1>4 DEF Passed
    <3>2. image \in Seq(Bytes) /\ Len(image) = 0
      BY <1>1
    <3>3. Sections \in Nat
      BY <1>6, ObjectTypes, Zenon
    <3>4. \A a \in Nat : ~ (a < Len(image))
      BY <3>2
    <3>5. 0 \in Nat /\ 0 <= Sections + 1
      BY <3>3
    <3> QED
      BY ONLY <1>1, <1>4, <3>1, <3>2, <3>4, <3>5, Zenon DEF Laid
  <2> QED
    BY ONLY <1>1, <1>3, <1>4, <1>6, <2>1, <2>2, <2>3, <2>4, Zenon DEF Whole, ReadInv, ConvertedIsFile, LoadInv
<1> QED
  BY <1>2, <1>5, <1>6

\* What was made of an Intel HEX file stays.
LEMMA ConvertedStays ==
  ASSUME ConvertedIsFile, phase \in {"close", "package"}, file' = file, cut' = cut, bin' = bin,
         unwritten => unwritten'
  PROVE  ConvertedIsFile'
<1>1. /\ (Plain' <=> Plain) /\ Summed' = Summed /\ FirstAddress' = FirstAddress /\ DataLines' = DataLines
      /\ \A t : OfType(t)' = OfType(t)
      /\ \A i : AddressOf(i)' = AddressOf(i)
      /\ \A a : ByteAt(a)' = ByteAt(a)
  BY SaysTheSame, Zenon
<1>2. phase \in {"close", "package", "ok"}
  OBVIOUS
<1> QED
  BY ONLY <1>1, <1>2, ConvertedIsFile, file' = file, bin' = bin, unwritten => unwritten', Zenon DEF ConvertedIsFile

\* Nothing that is not packaged any more is claimed.
LEMMA WholeFails ==
  ASSUME Whole, phase' = "failed", file' = file, cut' = cut, sect' = sect, ConvTypes'
  PROVE  Whole'
<1>1. phase' # "read" /\ phase' \notin {"read", "close"} /\ phase' \notin {"package", "ok"}
      /\ phase' \notin {"close", "package", "ok"}
  OBVIOUS
<1>2. HexFile' \/ ObjectFile'
  <2>1. HexFile' <=> HexFile
    BY SaysTheSame, Zenon
  <2>2. ObjectFile' <=> ObjectFile
    BY Zenon DEF ObjectFile
  <2> QED
    BY <2>1, <2>2, Zenon DEF Whole
<1>3. file'.format \in {"ihex", "bin"} => sect'.index = 0
  BY Zenon DEF Whole
<1> QED
  BY ONLY <1>1, <1>2, <1>3, ConvTypes', Zenon DEF Whole, ReadInv, ConvertedIsFile, CopyInv, LoadInv

LEMMA WholeReads ==
  ASSUME Whole, ReadHex
  PROVE  Whole'
<1>1. /\ phase = "read" /\ phase' = phase /\ file' = file /\ cut' = cut /\ sect' = sect /\ image' = image
      /\ offset' = offset
  BY Zenon DEF ReadHex
<1>2. ReadInv'
  BY ReadInvStays, Zenon DEF Whole
<1>3. HexFile' /\ ConvTypes'
  BY <1>1, <1>2, Zenon DEF ReadInv
<1>4. phase' = "read" /\ phase' # "close" /\ phase \in {"read", "close"}
      /\ phase' \notin {"package", "ok"} /\ phase' \notin {"close", "package", "ok"}
  BY <1>1
<1>5. Fresh
  BY <1>4, Zenon DEF Whole
<1>6. sect'.index = 0 /\ Fresh'
  BY <1>1, <1>4, <1>5 DEF Fresh
<1> QED
  BY ONLY <1>2, <1>3, <1>4, <1>6, Zenon DEF Whole, ConvertedIsFile, CopyInv, LoadInv

LEMMA WholeConverts ==
  ASSUME Whole, Convert
  PROVE  Whole'
<1>1. /\ phase = "read" /\ (phase' = "failed" \/ phase' = "close") /\ at' = 0
      /\ file' = file /\ cut' = cut /\ sect' = sect /\ image' = image /\ offset' = offset
  BY Zenon DEF Convert
<1>2. HexFile' /\ ConvTypes' /\ ConvertedIsFile'
  BY ConvertIsRight, Zenon DEF Whole
<1>3. phase' # "read" /\ phase' \notin {"package", "ok"} /\ phase \in {"read", "close"}
  BY <1>1
<1>4. Fresh
  BY <1>3, Zenon DEF Whole
<1>5. sect'.index = 0 /\ Fresh'
  BY <1>1, <1>4 DEF Fresh
<1> QED
  BY ONLY <1>2, <1>3, <1>5, Zenon DEF Whole, ReadInv, CopyInv, LoadInv

LEMMA WholeCloses ==
  ASSUME Whole, Close
  PROVE  Whole'
<1>1. /\ phase = "close" /\ phase' = "package" /\ file' = file /\ cut' = cut /\ at' = at
      /\ conv' = conv /\ sect' = sect /\ image' = image /\ offset' = offset
      /\ \/ bin' = bin /\ unwritten' = unwritten
         \/ unwritten' = TRUE /\ \E n \in 0 .. Len(bin) : bin' = SubSeq(bin, 1, n)
  BY Zenon DEF Close
<1>2. phase \in {"read", "close"} /\ phase' \notin {"read", "close"} /\ phase' # "read" /\ phase' # "ok"
      /\ phase \in {"close", "package"}
  BY <1>1
<1>3. HexFile /\ ConvTypes /\ Fresh
  BY <1>2, Zenon DEF Whole
<1>4. HexFile' /\ file'.format = "ihex"
  BY <1>1, <1>3, SaysTheSame, FormatDecides, Zenon
<1>5. bin' \in Seq(Cell)
  <2>1. CASE bin' = bin
    BY <1>3, <2>1 DEF ConvTypes
  <2>2. CASE \E n \in 0 .. Len(bin) : bin' = SubSeq(bin, 1, n)
    <3>1. PICK n \in 0 .. Len(bin) : bin' = SubSeq(bin, 1, n)
      BY <2>2
    <3>2. bin \in Seq(Cell) /\ Len(bin) \in Nat
      BY <1>3, LenProperties DEF ConvTypes
    <3>3. n \in Nat /\ n <= Len(bin)
      BY ONLY <3>2, n \in 0 .. Len(bin)
    <3> QED
      BY ONLY <3>1, <3>2, <3>3, Prefix, Zenon
  <2> QED
    BY <1>1, <2>1, <2>2
<1>6. ConvTypes'
  BY <1>1, <1>3, <1>5, Zenon DEF ConvTypes
<1>7. ConvertedIsFile'
  <2>1. CASE bin' = bin /\ unwritten' = unwritten
    BY <1>1, <1>2, <2>1, ConvertedStays, Zenon DEF Whole
  <2>2. CASE unwritten'
    BY <2>2, Zenon DEF ConvertedIsFile
  <2> QED
    BY <1>1, <2>1, <2>2, Zenon
<1>8. at' = 0 /\ image' = << >> /\ offset' = 0 /\ sect' = [index |-> 0, done |-> 0] /\ sect'.index = 0
  BY <1>1, <1>3 DEF Fresh
<1>9. CopyInv'
  <2>1. Stored' \in Seq(Cell)
    BY <1>4, <1>5, Zenon DEF Stored
  <2>2. PICK s : s = Stored'
    OBVIOUS
  <2>3. SubSeq(s, 1, 0) = << >> /\ 0 <= Len(s) /\ 0 \in Nat
    BY <2>1, <2>2, LenProperties, SubSeqEmpty
  <2> QED
    BY ONLY <1>2, <1>8, <2>2, <2>3, Zenon DEF CopyInv
<1>10. LoadInv'
  BY <1>4 DEF LoadInv, ByBytes
<1>11. ReadInv'
  BY ONLY <1>2, Zenon DEF ReadInv
<1> QED
  BY ONLY <1>2, <1>4, <1>6, <1>7, <1>8, <1>9, <1>10, <1>11, Zenon DEF Whole

LEMMA WholeCopies ==
  ASSUME Whole, PackageBin
  PROVE  Whole'
<1>1. /\ phase = "package" /\ file.format \in {"ihex", "bin"} /\ (phase' = "ok" \/ phase' = phase)
      /\ file' = file /\ cut' = cut /\ conv' = conv /\ bin' = bin
      /\ unwritten => unwritten'
  BY Zenon DEF PackageBin, BinSink, Write
<1>2. /\ phase \in {"close", "package"} /\ phase' \notin {"read", "close"} /\ phase' # "read"
      /\ phase \notin {"read", "close"} /\ phase' \in {"package", "ok"}
  BY <1>1
<1>3. HexFile \/ ObjectFile
  BY Zenon DEF Whole
<1>4. Stored \in Seq(Cell)
  <2>1. CASE HexFile
    BY <2>1, FormatDecides, Zenon DEF Stored, Whole, ConvTypes
  <2>2. CASE ObjectFile
    <3>1. Stored \in Seq(Bytes) /\ Bytes \subseteq Cell
      BY <2>2, StoredBytes DEF Cell
    <3> QED
      BY ONLY <3>1
  <2> QED
    BY <1>3, <2>1, <2>2
<1>5. CopyInv'
  BY <1>4, CopyInvStays, Zenon DEF Whole
<1>6. HexFile' \/ ObjectFile'
  BY <1>1, <1>3, SaysTheSame, Zenon DEF ObjectFile
<1>7. ConvTypes'
  BY <1>1, Zenon DEF Whole, ConvTypes
<1>8. ConvertedIsFile'
  BY <1>1, <1>2, ConvertedStays, Zenon DEF Whole
<1>9. sect'.index = 0
  <2>1. sect' = [index |-> 0, done |-> offset']
    BY <1>1, <1>2, <1>5, Zenon DEF CopyInv
  <2> QED
    BY <2>1
<1>10. ~ ByBytes'
  BY <1>1 DEF ByBytes
<1>11. LoadInv' /\ ReadInv'
  BY <1>2, <1>10, Zenon DEF LoadInv, ReadInv
<1> QED
  BY ONLY <1>2, <1>5, <1>6, <1>7, <1>8, <1>9, <1>11, Zenon DEF Whole

\* Steps that package sections leave the rest alone.
LEMMA WholeLoads ==
  ASSUME Whole, phase = "package", file.format \in {"coff", "elf"}, phase' = "package" \/ phase' = "ok",
         file' = file, cut' = cut, conv' = conv, bin' = bin, unwritten => unwritten', LoadInv'
  PROVE  Whole'
<1>1. /\ phase \notin {"read", "close"} /\ phase' \notin {"read", "close"} /\ phase' # "read"
      /\ phase \in {"close", "package"}
  OBVIOUS
<1>2. ObjectFile'
  <2>1. ~ HexFile
    BY FormatDecides
  <2> QED
    BY <2>1, Zenon DEF Whole, ObjectFile
<1>3. ~ (file'.format \in {"ihex", "bin"})
  OBVIOUS
<1>4. ConvTypes'
  BY Zenon DEF Whole, ConvTypes
<1>5. ConvertedIsFile'
  BY <1>1, ConvertedStays, Zenon DEF Whole
<1>6. CopyInv' /\ ReadInv'
  BY <1>1, <1>3, Zenon DEF CopyInv, ReadInv
<1> QED
  BY ONLY <1>1, <1>2, <1>3, <1>4, <1>5, <1>6, LoadInv', Zenon DEF Whole

LEMMA FitsSame ==
  ASSUME file' = file
  PROVE  Fits' <=> Fits
BY Zenon DEF Fits, Skipped, SizeOf

LEMMA WholeBegins ==
  ASSUME Whole, Load, file.format \in {"coff", "elf"}
  PROVE  Whole'
<1>1. CASE Fail
  <2>1. /\ phase' = "failed" /\ file' = file /\ cut' = cut /\ sect' = sect /\ conv' = conv /\ bin' = bin
    BY <1>1, Zenon DEF Fail
  <2>2. ConvTypes'
    BY <2>1, Zenon DEF Whole, ConvTypes
  <2> QED
    BY <2>1, <2>2, WholeFails, Zenon
<1>2. CASE ~ Fail
  <2>1. /\ Complete /\ sect' = [index |-> 1, done |-> 0] /\ phase = "package" /\ sect.index = 0
        /\ file' = file /\ cut' = cut /\ phase' = phase /\ conv' = conv /\ bin' = bin /\ image' = image
        /\ offset' = offset /\ unwritten' = unwritten
    BY <1>2, Zenon DEF Load, card
  <2>2. LoadInv'
    <3> SUFFICES ASSUME ByBytes, Fits, ~ unwritten PROVE LoadInv'
      BY <2>1, FitsSame, Zenon DEF LoadInv, ByBytes
    <3>1. Laid /\ image = << >>
      BY <2>1, Zenon DEF Whole, LoadInv
    <3>2. ObjectFile
      BY FormatDecides, Zenon DEF Whole, ByBytes
    <3>3. sect'.index = 1 /\ sect'.done = 0 /\ Sections \in Nat
      BY <2>1, <3>2, ObjectTypes
    <3>4. \A j \in 1 .. Sections : Passed(j)' = 0
      BY <3>3 DEF Passed
    <3>5. image' \in Seq(Bytes) /\ Len(image') = 0 /\ offset' = 0
      BY <2>1, <3>1 DEF Laid
    <3>6. \A a \in Nat : ~ (a < Len(image'))
      BY <3>5
    <3>7. sect'.index \in Nat /\ sect'.done \in Nat /\ sect'.index <= Sections + 1 /\ sect'.index # 0
      BY <3>3
    <3>8. Sections' = Sections
      BY <2>1, Zenon DEF Sections
    <3>9. Laid'
      BY ONLY <3>4, <3>5, <3>6, <3>7, <3>8, Zenon DEF Laid
    <3>10. Complete'
      BY <2>1, Zenon DEF Complete, Stored
    <3>11. phase' # "ok"
      BY <2>1
    <3> QED
      BY ONLY <3>7, <3>9, <3>10, <3>11, Zenon DEF LoadInv
  <2> QED
    BY <2>1, <2>2, WholeLoads, Zenon
<1> QED
  BY <1>1, <1>2

LEMMA WholePacks ==
  ASSUME Whole, PackageSection
  PROVE  Whole'
<1>1. phase = "package" /\ sect.index # 0 /\ sect.index <= Len(file.sections)
  BY Zenon DEF PackageSection, Packaging
<1>2. file.format \notin {"ihex", "bin"} /\ phase # "read"
  BY <1>1, Zenon DEF Whole
<1>3. ObjectFile /\ file.format \in {"coff", "elf"}
  BY <1>2, FormatDecides DEF Whole
<1>4. CASE phase' = "failed" /\ file' = file /\ cut' = cut /\ conv' = conv /\ bin' = bin /\ sect' = sect
  <2>1. ConvTypes'
    BY <1>4, Zenon DEF Whole, ConvTypes
  <2> QED
    BY <1>4, <2>1, WholeFails, Zenon
<1>5. CASE /\ phase' = phase /\ file' = file /\ cut' = cut /\ conv' = conv /\ bin' = bin
           /\ unwritten => unwritten'
           /\ \/ /\ Left(Section) = 0 /\ image' = image /\ offset' = offset
                 /\ sect' = [index |-> sect.index + 1, done |-> 0]
              \/ Left(Section) > 0 /\ SinkPart
  <2>1. LoadInv'
    <3> SUFFICES ASSUME ByBytes, Fits, ~ unwritten' PROVE LoadInv'
      BY <1>5, FitsSame, Zenon DEF LoadInv, ByBytes
    <3>1. Laid /\ Complete
      BY <1>1, <1>5, Zenon DEF Whole, LoadInv
    <3>2. sect.index \in Nat /\ Sections \in Nat
      BY <1>3, <3>1, ObjectTypes DEF Laid
    <3>3. sect.index \in 1 .. Sections
      BY <1>1, <3>2 DEF Sections
    <3>4. Laid' /\ sect'.index # 0
      <4>1. CASE /\ Left(Section) = 0 /\ image' = image /\ offset' = offset
                 /\ sect' = [index |-> sect.index + 1, done |-> 0]
        <5>1. Laid'
          BY <1>3, <1>5, <3>1, <3>3, <4>1, SectionEnds, Zenon
        <5>2. sect'.index # 0
          BY <3>2, <4>1
        <5> QED
          BY <5>1, <5>2
      <4>2. CASE Left(Section) > 0 /\ SinkPart
        <5>1. Laid'
          BY <1>3, <3>1, <3>3, <4>2, PartLands, Zenon
        <5>2. sect'.index \in Nat /\ sect' = [sect EXCEPT !.done = @ + Min({Left(Section), SinkSize})]
          BY <4>2, <5>1, Zenon DEF SinkPart, Laid
        <5>3. sect'.index # 0
          <6>1. sect'.index = sect.index
            BY <5>2
          <6> QED
            BY <1>1, <6>1
        <5> QED
          BY <5>1, <5>3
      <4> QED
        BY <1>5, <4>1, <4>2
    <3>5. Complete'
      BY <1>5, <3>1, Zenon DEF Complete, Stored
    <3>6. phase' # "ok"
      BY <1>1, <1>5
    <3> QED
      BY ONLY <3>4, <3>5, <3>6, Zenon DEF LoadInv
  <2> QED
    BY <1>1, <1>3, <1>5, <2>1, WholeLoads, Zenon
<1> QED
  <2>1. SinkPart => (unwritten => unwritten')
    BY Zenon DEF SinkPart, BinSink, Write
  <2>2. UNCHANGED card => (unwritten => unwritten')
    BY DEF card
  <2> QED
    BY <1>4, <1>5, <2>1, <2>2, Zenon DEF PackageSection, SinkPart, Fail

LEMMA WholeEnds ==
  ASSUME Whole, Packaged
  PROVE  Whole'
<1>1. /\ phase = "package" /\ sect.index # 0 /\ sect.index > Len(file.sections) /\ phase' = "ok"
      /\ file' = file /\ cut' = cut /\ conv' = conv /\ bin' = bin /\ sect' = sect /\ image' = image
      /\ offset' = offset /\ unwritten' = unwritten
  BY Zenon DEF Packaged, Packaging, card
<1>2. file.format \notin {"ihex", "bin"} /\ phase # "read"
  BY <1>1, Zenon DEF Whole
<1>3. ObjectFile /\ file.format \in {"coff", "elf"}
  BY <1>2, FormatDecides DEF Whole
<1>4. LoadInv'
  <2> SUFFICES ASSUME ByBytes, Fits, ~ unwritten PROVE LoadInv'
    BY <1>1, FitsSame, Zenon DEF LoadInv, ByBytes
  <2>1. Laid /\ Complete
    BY <1>1, Zenon DEF Whole, LoadInv
  <2>2. Laid'
    <3>1. \A j \in 1 .. Sections : Passed(j)' = Passed(j)
      BY <1>1, Zenon DEF Passed, Skipped, SizeOf
    <3>2. sect'.index \in Nat /\ sect'.done \in Nat /\ sect'.index <= Sections + 1
      BY <1>1, <2>1, Zenon DEF Laid
    <3> QED
      BY <1>1, <2>1, <3>1, <3>2, LaidSame, Zenon
  <2>3. sect'.index = Sections' + 1
    <3>1. sect.index \in Nat /\ sect.index <= Sections + 1 /\ Sections \in Nat
      BY <1>3, <2>1, ObjectTypes DEF Laid
    <3>2. sect.index = Sections + 1
      BY <1>1, <3>1 DEF Sections
    <3> QED
      BY <1>1, <3>2, Zenon DEF Sections
  <2>4. Complete'
    BY <1>1, <2>1, Zenon DEF Complete, Stored
  <2>5. sect'.index # 0
    BY <1>1
  <2> QED
    BY ONLY <2>2, <2>3, <2>4, <2>5, Zenon DEF LoadInv
<1> QED
  BY <1>1, <1>3, <1>4, WholeLoads, Zenon

LEMMA WholeRests ==
  ASSUME Whole, UNCHANGED vars
  PROVE  Whole'
<1>1. /\ file' = file /\ cut' = cut /\ phase' = phase /\ at' = at /\ hex' = hex /\ conv' = conv
      /\ bin' = bin /\ sect' = sect /\ image' = image /\ offset' = offset
      /\ unread' = unread /\ unwritten' = unwritten
  BY Zenon DEF vars, card
<1>2. (HexFile' <=> HexFile) /\ (ObjectFile' <=> ObjectFile) /\ (ConvTypes' <=> ConvTypes) /\ (HexTypes' <=> HexTypes)
  BY <1>1, SaysTheSame, Zenon DEF ObjectFile, ConvTypes, HexTypes
<1>3. ASSUME NEW m, NEW k PROVE Reads(file.records[m + 1], k)' <=> Reads(file.records[m + 1], k)
  <2>1. PICK r : r = file.records[m + 1]
    BY Zenon
  <2>2. Reads(r, k)' <=> Reads(r, k)
    <3>1. hex' = hex
      BY <1>1
    <3> QED
      BY ONLY <3>1, SMT DEF Reads, Idle
  <2>3. file'.records[m + 1] = r
    BY ONLY <1>1, <2>1, Zenon
  <2> QED
    BY ONLY <2>1, <2>2, <2>3, SMT DEF Reads, Idle
<1>4. \A m, k : ReaderAt(m, k)' <=> ReaderAt(m, k)
  <2>1. /\ Plain' <=> Plain
        /\ \A m : SumsRight(m)' <=> SumsRight(m)
        /\ \A m, k : Stands(m, k)' <=> Stands(m, k)
        /\ \A m : UpperAt(m, hex)' <=> UpperAt(m, hex)
        /\ \A m : Holds(m, conv, bin)' <=> Holds(m, conv, bin)
        /\ Idle' <=> Idle
    BY ONLY <1>1, SaysTheSame, Zenon DEF Idle
  <2> QED
    BY ONLY <1>1, <1>3, <2>1, Zenon DEF ReaderAt
<1>5. ReadInv'
  BY <1>1, <1>2, <1>4, Zenon DEF Whole, ReadInv
<1>6. ConvertedIsFile'
  <2>1. /\ (Plain' <=> Plain) /\ Summed' = Summed /\ FirstAddress' = FirstAddress /\ DataLines' = DataLines
        /\ \A t : OfType(t)' = OfType(t)
        /\ \A i : AddressOf(i)' = AddressOf(i)
        /\ \A a : ByteAt(a)' = ByteAt(a)
    BY <1>1, SaysTheSame, Zenon
  <2>2. ConvertedIsFile
    BY DEF Whole
  <2> QED
    BY ONLY <1>1, <2>1, <2>2, Zenon DEF ConvertedIsFile
<1>7. CopyInv'
  BY <1>1, Zenon DEF Whole, CopyInv, Stored
<1>8. LoadInv'
  <2>1. ASSUME Laid PROVE Laid'
    <3>1. \A j \in 1 .. Sections : Passed(j)' = Passed(j)
      BY <1>1, Zenon DEF Passed, Skipped, SizeOf
    <3>2. sect'.index \in Nat /\ sect'.done \in Nat /\ sect'.index <= Sections + 1
      BY <1>1, <2>1, Zenon DEF Laid
    <3> QED
      BY <1>1, <2>1, <3>1, <3>2, LaidSame, Zenon
  <2>2. Complete => Complete'
    BY <1>1, Zenon DEF Complete, Stored
  <2>3. (ByBytes' <=> ByBytes) /\ (Fits' <=> Fits) /\ Sections' = Sections
    BY <1>1, FitsSame, Zenon DEF ByBytes, Sections
  <2> QED
    BY <1>1, <2>1, <2>2, <2>3, Zenon DEF Whole, LoadInv
<1>9. Fresh' <=> Fresh
  BY <1>1, Zenon DEF Fresh
<1> QED
  BY ONLY Whole, <1>1, <1>2, <1>5, <1>6, <1>7, <1>8, <1>9, Zenon DEF Whole

LEMMA WholeHolds == Spec => []Whole
<1>1. Init => Whole
  BY WholeStarts
<1>2. Whole /\ [Next]_vars => Whole'
  BY WholeReads, WholeConverts, WholeCloses, WholeCopies, WholeBegins, WholePacks, WholeEnds, WholeRests, Zenon
     DEF Next, LoadCoff, LoadElf, Done
<1> QED
  BY <1>1, <1>2, PTL DEF Spec
-----------------------------------------------------------------------------
(* The theorems *)

LEMMA CopyIsImage ==
  ASSUME Whole, phase = "ok", file.format \in {"ihex", "bin"}, ~ unwritten
  PROVE  IsPrefix(image, Stored) /\ (~ unread => image = Stored)
<1>1. at \in Nat /\ at <= Len(Stored) /\ image = SubSeq(Stored, 1, at) /\ (~ unread => at = Len(Stored))
  BY Zenon DEF Whole, CopyInv
<1>2. Stored \in Seq(Cell)
  <2>1. CASE HexFile
    BY <2>1, FormatDecides, Zenon DEF Stored, Whole, ConvTypes
  <2>2. CASE ObjectFile
    <3>1. Stored \in Seq(Bytes) /\ Bytes \subseteq Cell
      BY <2>2, StoredBytes DEF Cell
    <3> QED
      BY ONLY <3>1
  <2> QED
    BY <2>1, <2>2 DEF Whole
<1>3. ~ unread => image = Stored
  BY ONLY <1>1, <1>2, SubSeqFull, Zenon
<1>4. image \in Seq(Cell) /\ Len(image) = at
  BY ONLY <1>1, <1>2, Prefix, Zenon
<1>5. SubSeq(image, 1, at) = image
  BY ONLY <1>4, SubSeqFull, Zenon
<1>6. IsPrefix(image, Stored)
  BY ONLY <1>1, <1>4, <1>5, Zenon DEF IsPrefix
<1> QED
  BY ONLY <1>3, <1>6, Zenon

\* When all sections are done with, each is where it belongs.
LEMMA LaidIsImage ==
  ASSUME ObjectFile, ByBytes, Laid, sect.index = Sections + 1
  PROVE  /\ \A a \in 0 .. Len(image) - 1 :
              IF At(a) = {} THEN image[a + 1] = PadByte
              ELSE \A s \in At(a) : image[a + 1] = file.bytes[s.raw + a - s.addr + 1]
         /\ \A s \in Range(file.sections) : ~ Skipped(s) => s.addr + s.size <= Len(image)
<1>1. Sections \in Nat /\ DOMAIN file.sections = 1 .. Sections /\ Len(image) \in Nat
  BY ObjectTypes, LenProperties DEF Laid
<1>2. Range(file.sections) = {file.sections[j] : j \in 1 .. Sections}
  BY <1>1, Zenon DEF Range
<1>3. ASSUME NEW j \in 1 .. Sections
      PROVE  /\ Passed(j) = IF Skipped(file.sections[j]) THEN 0 ELSE file.sections[j].size
             /\ ~ Skipped(file.sections[j]) => Passed(j) # 0
  <2>1. j # sect.index /\ j < sect.index
    BY <1>1
  <2>2. Passed(j) = IF Skipped(file.sections[j]) THEN 0 ELSE file.sections[j].size
    BY <2>1, Zenon DEF Passed
  <2> QED
    BY <2>2, Zenon DEF Skipped, SizeOf, ByBytes
<1>4. ASSUME NEW s \in Range(file.sections), ~ Skipped(s) PROVE s.addr + s.size <= Len(image)
  <2>1. PICK j \in 1 .. Sections : s = file.sections[j]
    BY <1>2
  <2> QED
    BY <1>3, <1>4, <2>1, Zenon DEF Laid
<1>5. ASSUME NEW a \in 0 .. Len(image) - 1
      PROVE  IF At(a) = {} THEN image[a + 1] = PadByte
             ELSE \A s \in At(a) : image[a + 1] = file.bytes[s.raw + a - s.addr + 1]
  <2>1. a \in Nat /\ a < Len(image)
    BY <1>1
  <2>2. ASSUME At(a) = {}, NEW j \in 1 .. Sections PROVE ~ Covered(j, a)
    <3>1. ASSUME Skipped(file.sections[j]) PROVE ~ Covered(j, a)
      <4>1. Passed(j) = 0
        BY <1>3, <3>1, Zenon
      <4>2. \A x : ~ (x \in 0 .. 0 - 1)
        OBVIOUS
      <4> QED
        BY <4>1, <4>2, Zenon DEF Covered
    <3>2. ASSUME ~ Skipped(file.sections[j]), Covered(j, a) PROVE FALSE
      <4>1. a - file.sections[j].addr \in 0 .. file.sections[j].size - 1
        BY <1>3, <3>2, Zenon DEF Covered
      <4>2. file.sections[j] \in At(a)
        BY <1>2, <3>2, <4>1, Zenon DEF At
      <4> QED
        BY <2>2, <4>2
    <3> QED
      BY <3>1, <3>2
  <2>3. ASSUME NEW s \in At(a) PROVE image[a + 1] = file.bytes[s.raw + a - s.addr + 1]
    <3>1. s \in Range(file.sections) /\ ~ Skipped(s) /\ a - s.addr \in 0 .. s.size - 1
      BY Zenon DEF At
    <3>2. PICK j \in 1 .. Sections : s = file.sections[j]
      BY <1>2, <3>1
    <3>3. Covered(j, a)
      BY <1>3, <3>1, <3>2, Zenon DEF Covered
    <3> QED
      BY <2>1, <3>2, <3>3, Zenon DEF Laid
  <2> QED
    BY <2>1, <2>2, <2>3, Zenon DEF Laid
<1> QED
  BY <1>4, <1>5

\* A conversion that succeeds has dropped, moved and invented nothing, whatever
\* the file and wherever it was cut (ihex_end_read, ihex_data_read).
THEOREM ConvertsWhatItSays == Spec => []ConvertedIsFile
<1>1. Whole => ConvertedIsFile
  BY DEF Whole
<1> QED
  BY <1>1, WholeHolds, PTL

\* A file that was packaged is the image it stands for, as far as the card kept
\* what it was given, whatever its sections and their order and however the reads
\* went (process_bin, process_coff, process_elf, bin_sink).
THEOREM PackagesWhatItIs == Spec => []PackagedIsImage
<1>1. Whole => PackagedIsImage
  <2> SUFFICES ASSUME Whole, phase = "ok", ~ unwritten PROVE PackagedIsImage
    BY DEF PackagedIsImage
  <2>1. CASE file.format \in {"ihex", "bin"}
    BY <2>1, CopyIsImage, Zenon DEF PackagedIsImage
  <2>2. CASE file.format \notin {"ihex", "bin"}
    <3>1. ObjectFile /\ file.format \in {"coff", "elf"} /\ file.words \in BOOLEAN
      BY <2>2, FormatDecides, ObjectTypes DEF Whole
    <3>2. ASSUME ~ file.words, Fits PROVE ByBytes /\ Laid /\ sect.index = Sections + 1
      <4>1. ByBytes
        BY <3>1, <3>2 DEF ByBytes
      <4> QED
        BY <3>2, <4>1, Zenon DEF Whole, LoadInv
    <3> QED
      BY <2>2, <3>1, <3>2, LaidIsImage, Zenon DEF PackagedIsImage
  <2> QED
    BY <2>1, <2>2
<1> QED
  BY <1>1, WholeHolds, PTL
=============================================================================
