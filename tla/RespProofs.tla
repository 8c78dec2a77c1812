----------------------------- MODULE RespProofs -----------------------------
(***************************************************************************)
(* What Read makes of what Marshal writes, for any values, any bytes in    *)
(* them and any depth of nesting (ReadMarshal), of what a cut leaves of it *)
(* (ReadTorn), and of any bytes at all (ReadType).                         *)
(*                                                                         *)
(* The writer recurs over the nesting of a value and the reader over the   *)
(* bytes.  Recursion shows of each recursive function that it satisfies its *)
(* equation.  The proofs then go by induction: over the depth of a value   *)
(* for what is written, over the number of bytes for what is read.         *)
(***************************************************************************)
EXTENDS Wire, SequenceTheorems, TLAPS

-----------------------------------------------------------------------------
(* Sequences.                                                              *)

\* What a cut may leave of x: any of its beginnings but x itself.
Torn(S, x) == {p \in Seq(S) : \E q \in Seq(S) : q # <<>> /\ p \o q = x}

\* Skipping the first part of a concatenation leaves the second.
LEMMA SkipConcat ==
    ASSUME NEW S, NEW a \in Seq(S), NEW b \in Seq(S)
    PROVE  Skip(a \o b, Len(a)) = b
<1> DEFINE c == a \o b
<1>1. c \in Seq(S) /\ Len(c) = Len(a) + Len(b) /\ \A i \in 1 .. Len(b) : c[i + Len(a)] = b[i]
  BY ConcatProperties
<1> HIDE DEF c
<1>2. SubSeq(c, Len(a) + 1, Len(c)) \in Seq(S) /\ Len(SubSeq(c, Len(a) + 1, Len(c))) = Len(b)
  BY <1>1
<1>3. \A i \in 1 .. Len(b) : SubSeq(c, Len(a) + 1, Len(c))[i] = b[i]
  BY <1>1
<1>4. SubSeq(c, Len(a) + 1, Len(c)) = b
  BY <1>2, <1>3, SeqEqual
<1> QED BY <1>4 DEF Skip, c

\* The bytes of the first part come first.
LEMMA FirstOfConcat ==
    ASSUME NEW S, NEW a \in Seq(S), NEW b \in Seq(S)
    PROVE  SubSeq(a \o b, 1, Len(a)) = a
<1> DEFINE c == a \o b
<1>1. c \in Seq(S) /\ Len(c) = Len(a) + Len(b) /\ \A i \in 1 .. Len(a) : c[i] = a[i]
  BY ConcatProperties
<1> HIDE DEF c
<1>2. SubSeq(c, 1, Len(a)) \in Seq(S) /\ Len(SubSeq(c, 1, Len(a))) = Len(a)
  BY <1>1
<1>3. \A i \in 1 .. Len(a) : SubSeq(c, 1, Len(a))[i] = a[i]
  BY <1>1
<1>4. SubSeq(c, 1, Len(a)) = a
  BY <1>2, <1>3, SeqEqual
<1> QED BY <1>4 DEF c

\* Type, length and elements of a concatenation.
LEMMA Concat ==
    ASSUME NEW S, NEW a \in Seq(S), NEW b \in Seq(S)
    PROVE  /\ a \o b \in Seq(S)
           /\ Len(a) \in Nat /\ Len(b) \in Nat /\ Len(a \o b) = Len(a) + Len(b)
           /\ \A i \in 1 .. Len(a) : (a \o b)[i] = a[i]
           /\ \A i \in 1 .. Len(b) : (a \o b)[Len(a) + i] = b[i]
BY ConcatProperties

\* What a sequence with one element in front looks like.
LEMMA TailConcat ==
    ASSUME NEW S, NEW x \in S, NEW b \in Seq(S)
    PROVE  /\ <<x>> \o b # <<>>
           /\ (<<x>> \o b)[1] = x
           /\ Tail(<<x>> \o b) = b
           /\ <<x>> \o b \in Seq(S)
           /\ Len(<<x>> \o b) = Len(b) + 1
<1> DEFINE c == <<x>> \o b
<1>1. <<x>> \in Seq(S) /\ Len(<<x>>) = 1
  OBVIOUS
<1>2. c \in Seq(S) /\ Len(c) = 1 + Len(b) /\ c[1] = x /\ \A i \in 1 .. Len(b) : c[i + 1] = b[i]
  BY <1>1, ConcatProperties
<1> HIDE DEF c
<1>3. c # <<>>
  BY <1>2
<1>4. Tail(c) \in Seq(S) /\ Len(Tail(c)) = Len(b) /\ \A i \in 1 .. Len(b) : Tail(c)[i] = b[i]
  BY <1>2, <1>3, HeadTailProperties
<1>5. Tail(c) = b
  BY <1>4, SeqEqual
<1> QED BY <1>2, <1>3, <1>5 DEF c

\* A sequence is its first n elements and the others.
LEMMA SplitSeq ==
    ASSUME NEW S, NEW s \in Seq(S), NEW n \in 0 .. Len(s)
    PROVE  /\ SubSeq(s, 1, n) \in Seq(S) /\ Len(SubSeq(s, 1, n)) = n
           /\ Skip(s, n) \in Seq(S) /\ Len(Skip(s, n)) = Len(s) - n
           /\ s = SubSeq(s, 1, n) \o Skip(s, n)
<1>1. SubSeq(s, 1, n) \in Seq(S) /\ Len(SubSeq(s, 1, n)) = n
  OBVIOUS
<1>2. Skip(s, n) \in Seq(S) /\ Len(Skip(s, n)) = Len(s) - n
  BY DEF Skip
<1>3. 1 \in 1 .. Len(s) + 1 /\ n \in 1 - 1 .. Len(s) /\ Len(s) \in n .. Len(s)
  OBVIOUS
<1>4. SubSeq(s, 1, n) \o SubSeq(s, n + 1, Len(s)) = SubSeq(s, 1, Len(s))
  BY <1>3, ConcatAdjacentSubSeq
<1>5. SubSeq(s, 1, Len(s)) = s
  BY SubSeqFull
<1> QED BY <1>1, <1>2, <1>4, <1>5 DEF Skip

\* Where a concatenation is cut: in the first part, or in the second.
LEMMA TornConcat ==
    ASSUME NEW S, NEW x \in Seq(S), NEW y \in Seq(S), NEW p \in Torn(S, x \o y)
    PROVE  p \in Torn(S, x) \/ \E r \in Torn(S, y) : p = x \o r
<1>1. PICK q \in Seq(S) : q # <<>> /\ p \o q = x \o y
  BY DEF Torn
<1>2. p \in Seq(S)
  BY DEF Torn
<1>3. CASE Len(p) < Len(x)
  <2> DEFINE r == Skip(x, Len(p))
  <2>1. x = SubSeq(x, 1, Len(p)) \o r /\ r \in Seq(S) /\ Len(r) = Len(x) - Len(p) /\ SubSeq(x, 1, Len(p)) \in Seq(S)
    BY <1>2, <1>3, SplitSeq
  <2>2. SubSeq(p \o q, 1, Len(p)) = p
    BY <1>1, <1>2, FirstOfConcat
  <2>3. SubSeq(x \o y, 1, Len(p)) = SubSeq(x, 1, Len(p))
    <3>1. CASE Len(p) = 0
      BY <3>1, <1>2
    <3>2. CASE Len(p) # 0
      BY <3>2, <1>2, <1>3, SubSeqOfConcat1
    <3> QED BY <3>1, <3>2
  <2>4. x = p \o r
    BY <1>1, <2>1, <2>2, <2>3
  <2>5. r # <<>>
    BY <2>1, <1>3, <1>2
  <2> QED BY <2>1, <2>4, <2>5, <1>2 DEF Torn
<1>4. CASE Len(p) >= Len(x)
  <2> DEFINE r == Skip(p, Len(x))
  <2>1. p = SubSeq(p, 1, Len(x)) \o r /\ r \in Seq(S) /\ SubSeq(p, 1, Len(x)) \in Seq(S)
    BY <1>2, <1>4, SplitSeq
  <2>2. SubSeq(x \o y, 1, Len(x)) = x
    BY FirstOfConcat
  <2>3. SubSeq(p \o q, 1, Len(x)) = SubSeq(p, 1, Len(x))
    <3>1. CASE Len(x) = 0
      BY <3>1, <1>2
    <3>2. CASE Len(x) # 0
      BY <3>2, <1>1, <1>2, <1>4, SubSeqOfConcat1
    <3> QED BY <3>1, <3>2
  <2>4. p = x \o r
    BY <1>1, <2>1, <2>2, <2>3
  <2> HIDE DEF r
  <2>5. (x \o r) \o q = x \o (r \o q)
    <3>1. r \in Seq(S) /\ q \in Seq(S)
      BY <2>1, <1>1
    <3> QED BY <3>1, ConcatAssociative
  <2>6. r \o q \in Seq(S)
    BY <2>1, <1>1, ConcatProperties
  <2>7. r \o q = y
    <3>1. x \o (r \o q) = x \o y
      BY <2>5, <1>1, <2>4
    <3>2. Skip(x \o (r \o q), Len(x)) = r \o q
      BY <2>6, SkipConcat
    <3>3. Skip(x \o y, Len(x)) = y
      BY SkipConcat
    <3> QED BY <3>1, <3>2, <3>3
  <2> QED BY <2>4, <2>7, <2>1, <1>1 DEF Torn
<1> QED BY <1>3, <1>4, <1>2

-----------------------------------------------------------------------------
(* Lines and numbers.                                                      *)

\* The text of simple strings and errors.
Line == Seq(Byte \ {"LF"})

\* The line end.
LEMMA CRLFType == CRLF \in Seq(Byte) /\ Len(CRLF) = 2 /\ CRLF[1] = "CR" /\ CRLF[2] = "LF"
BY NumeralAssumption DEF CRLF

\* A line holds no LF.
LEMMA LineType == ASSUME NEW s \in Line PROVE s \in Seq(Byte) /\ \A i \in 1 .. Len(s) : s[i] # "LF"
BY DEF Line

\* A numeral is a line of one byte.
LEMMA NumeralLine ==
    ASSUME NEW n \in DOMAIN Numeral
    PROVE  <<Numeral[n]>> \in Line /\ Len(<<Numeral[n]>>) = 1
BY NumeralAssumption DEF Line

\* The bytes of a line, of its end and of what follows.
LEMMA LineConcat ==
    ASSUME NEW s \in Seq(Byte), NEW b \in Seq(Byte)
    PROVE  LET l == s \o (CRLF \o b)
           IN  /\ l \in Seq(Byte) /\ Len(l) = Len(s) + 2 + Len(b)
               /\ \A i \in 1 .. Len(s) : l[i] = s[i]
               /\ l[Len(s) + 1] = "CR" /\ l[Len(s) + 2] = "LF"
               /\ SubSeq(l, 1, Len(s)) = s /\ Skip(l, Len(s) + 2) = b
<1> DEFINE e == CRLF \o b
           l == s \o e
<1>1. CRLF \in Seq(Byte) /\ Len(CRLF) = 2
  BY CRLFType
<1>2. e \in Seq(Byte) /\ Len(e) = 2 + Len(b) /\ \A i \in 1 .. 2 : e[i] = CRLF[i]
  <2> HIDE DEF e
  <2>1. e \in Seq(Byte) /\ Len(e) = Len(CRLF) + Len(b) /\ \A i \in 1 .. Len(CRLF) : e[i] = CRLF[i]
    BY <1>1, Concat, Zenon DEF e
  <2> QED BY <2>1, <1>1
<1>3. l = (s \o CRLF) \o b
  BY <1>1, ConcatAssociative
<1>4. s \o CRLF \in Seq(Byte) /\ Len(s \o CRLF) = Len(s) + 2
  <2>1. s \o CRLF \in Seq(Byte) /\ Len(s \o CRLF) = Len(s) + Len(CRLF)
    BY <1>1, Concat, Zenon
  <2> QED BY <2>1, <1>1
<1>5. Skip((s \o CRLF) \o b, Len(s \o CRLF)) = b
  BY <1>4, SkipConcat
<1> HIDE DEF e
<1>6. Skip(l, Len(s) + 2) = b
  BY <1>3, <1>4, <1>5
<1>7. SubSeq(l, 1, Len(s)) = s
  BY <1>2, FirstOfConcat
<1>8. /\ l \in Seq(Byte) /\ Len(l) = Len(s) + Len(e) /\ Len(s) \in Nat /\ Len(e) \in Nat
      /\ \A i \in 1 .. Len(s) : l[i] = s[i]
      /\ \A i \in 1 .. Len(e) : l[Len(s) + i] = e[i]
  <2>1. e \in Seq(Byte)
    BY <1>2
  <2> QED BY <2>1, SMT
<1> HIDE DEF l
<1>9. l[Len(s) + 1] = e[1] /\ l[Len(s) + 2] = e[2]
  BY <1>2, <1>8
<1>10. e[1] = "CR" /\ e[2] = "LF"
  BY <1>2, CRLFType
<1>11. Len(l) = Len(s) + 2 + Len(b)
  BY <1>2, <1>8
<1> QED BY <1>6, <1>7, <1>8, <1>9, <1>10, <1>11 DEF l, e

\* readLine returns a line up to its end, and what follows the end.
LEMMA ReadLine ==
    ASSUME NEW s \in Line, NEW b \in Seq(Byte)
    PROVE  readLine(s \o (CRLF \o b)) = Ok(s, b)
<1> DEFINE l == s \o (CRLF \o b)
           First(i) == l[i] = "LF" /\ \A j \in 1 .. i - 1 : l[j] # "LF"
           n == CHOOSE i \in DOMAIN l : First(i)
<1>1. s \in Seq(Byte) /\ \A i \in 1 .. Len(s) : s[i] # "LF"
  BY LineType
<1>2. /\ l \in Seq(Byte) /\ Len(l) = Len(s) + 2 + Len(b)
      /\ \A i \in 1 .. Len(s) : l[i] = s[i]
      /\ l[Len(s) + 1] = "CR" /\ l[Len(s) + 2] = "LF"
      /\ SubSeq(l, 1, Len(s)) = s /\ Skip(l, Len(s) + 2) = b
  BY <1>1, LineConcat
<1> HIDE DEF l
<1>3. Len(s) \in Nat /\ Len(b) \in Nat /\ DOMAIN l = 1 .. Len(s) + 2 + Len(b)
  BY <1>1, <1>2
<1>4. Len(s) + 2 \in DOMAIN l /\ First(Len(s) + 2)
  <2>1. \A j \in 1 .. Len(s) + 2 - 1 : j \in 1 .. Len(s) \/ j = Len(s) + 1
    BY <1>3
  <2> QED BY <2>1, <1>1, <1>2, <1>3
<1>5. ASSUME NEW i \in DOMAIN l, First(i) PROVE i = Len(s) + 2
  <2>1. i \in Nat /\ i >= 1
    BY <1>3
  <2>2. CASE i < Len(s) + 2
    BY <2>1, <2>2, <1>5, <1>1, <1>2, <1>3
  <2>3. CASE i > Len(s) + 2
    <3>1. Len(s) + 2 \in 1 .. i - 1
      BY <2>1, <2>3, <1>3
    <3> QED BY <3>1, <1>5, <1>2
  <2> QED BY <2>1, <2>2, <2>3, <1>3
<1>6. n = Len(s) + 2
  BY <1>4, <1>5
<1>7. "LF" \in ToSet(l)
  BY <1>4 DEF ToSet
<1>8. ~(n < 2 \/ l[n - 1] # "CR") /\ n - 2 = Len(s)
  <2>1. n - 1 = Len(s) + 1 /\ n - 2 = Len(s) /\ ~(n < 2)
    <3> HIDE DEF n
    <3> QED BY <1>6, <1>3
  <2> QED BY <2>1, <1>2
<1>9. readLine(l) = Ok(SubSeq(l, 1, n - 2), Skip(l, n))
  <2>1. n = CHOOSE i \in DOMAIN l : l[i] = "LF" /\ \A j \in 1 .. i - 1 : l[j] # "LF"
    OBVIOUS
  <2> HIDE DEF n
  <2> QED BY <2>1, <1>7, <1>8 DEF readLine
<1>10. readLine(l) = Ok(s, b)
  BY <1>9, <1>8, <1>6, <1>2
<1> QED BY <1>10 DEF l

\* readLine finds no line in one that was cut, even between CR and LF.
LEMMA TornLine ==
    ASSUME NEW s \in Line, NEW p \in Torn(Byte, s \o CRLF)
    PROVE  p \in Line /\ readLine(p) = Fail("EOF")
<1>1. PICK q \in Seq(Byte) : q # <<>> /\ p \o q = s \o CRLF
  BY DEF Torn
<1>2. p \in Seq(Byte) /\ s \in Seq(Byte) /\ \A i \in 1 .. Len(s) : s[i] # "LF"
  BY LineType DEF Torn
<1> DEFINE l == s \o CRLF
<1>3. l \in Seq(Byte) /\ Len(l) = Len(s) + 2 /\ l[Len(s) + 1] = "CR"
      /\ \A i \in 1 .. Len(s) : l[i] = s[i]
  <2>0. CRLF \in Seq(Byte) /\ Len(CRLF) = 2 /\ CRLF[1] = "CR"
    BY CRLFType
  <2>1. /\ l \in Seq(Byte) /\ Len(l) = Len(s) + Len(CRLF) /\ \A i \in 1 .. Len(s) : l[i] = s[i]
        /\ \A i \in 1 .. Len(CRLF) : l[Len(s) + i] = CRLF[i]
    <3>1. s \in Seq(Byte) /\ CRLF \in Seq(Byte)
      BY <1>2, <2>0
    <3> QED BY <3>1, SMT
  <2> HIDE DEF l
  <2> QED BY <2>0, <2>1
<1>4. Len(l) = Len(p) + Len(q) /\ \A i \in 1 .. Len(p) : l[i] = p[i]
  BY <1>1, <1>2, Concat
<1> HIDE DEF l
<1>5. Len(p) <= Len(s) + 1 /\ Len(p) \in Nat /\ Len(s) \in Nat
  <2>1. Len(q) >= 1 /\ Len(q) \in Nat /\ Len(p) \in Nat /\ Len(s) \in Nat
    BY <1>1, <1>2, EmptySeq
  <2> QED BY <2>1, <1>3, <1>4
<1>6. ASSUME NEW i \in 1 .. Len(p) PROVE p[i] # "LF"
  <2>1. CASE i <= Len(s)
    BY <2>1, <1>2, <1>3, <1>4, <1>5
  <2>2. CASE i = Len(s) + 1
    BY <2>2, <1>3, <1>4
  <2> QED BY <2>1, <2>2, <1>5
<1>7. p \in Line
  <2>1. p \in [1 .. Len(p) -> Byte \ {"LF"}]
    BY <1>2, <1>6
  <2> QED BY <2>1, <1>5 DEF Line
<1>8. "LF" \notin ToSet(p)
  BY <1>6, <1>2 DEF ToSet
<1> QED BY <1>7, <1>8 DEF readLine

\* ParseInt is the inverse of the numerals.
LEMMA ParseIntNumeral ==
    ASSUME NEW n \in DOMAIN Numeral
    PROVE  ParseInt(<<Numeral[n]>>) = n /\ n # NotAnInteger /\ n \in Int
<1>1. \A m \in DOMAIN Numeral : <<Numeral[n]>> = <<Numeral[m]>> <=> m = n
  BY NumeralAssumption
<1> QED BY <1>1, NumeralAssumption DEF ParseInt

\* readInteger returns the number that was written.
LEMMA ReadInteger ==
    ASSUME NEW n \in DOMAIN Numeral, NEW b \in Seq(Byte)
    PROVE  readInteger(<<Numeral[n]>> \o (CRLF \o b)) = Ok(n, b)
<1>1. readLine(<<Numeral[n]>> \o (CRLF \o b)) = Ok(<<Numeral[n]>>, b)
  BY ReadLine, NumeralLine
<1> QED BY <1>1, ParseIntNumeral DEF readInteger, Ok

\* readInteger finds no number in a line that was cut.
LEMMA TornInteger ==
    ASSUME NEW n \in DOMAIN Numeral, NEW p \in Torn(Byte, <<Numeral[n]>> \o CRLF)
    PROVE  readInteger(p) = Fail("EOF")
<1>1. readLine(p) = Fail("EOF")
  BY TornLine, NumeralLine
<1> QED BY <1>1 DEF readInteger, Fail

\* Concatenation of bytes is associative.
LEMMA Assoc ==
    ASSUME NEW a \in Seq(Byte), NEW b \in Seq(Byte), NEW c \in Seq(Byte)
    PROVE  (a \o b) \o c = a \o (b \o c)
BY ConcatAssociative

\* Type and length of a concatenation.
LEMMA ConcatType ==
    ASSUME NEW S, NEW a \in Seq(S), NEW b \in Seq(S)
    PROVE  a \o b \in Seq(S) /\ Len(a \o b) = Len(a) + Len(b) /\ Len(a) \in Nat /\ Len(b) \in Nat
OBVIOUS

\* What is left of a frame is shorter than the frame.
LEMMA TornLen ==
    ASSUME NEW x \in Seq(Byte), NEW p \in Torn(Byte, x)
    PROVE  p \in Seq(Byte) /\ Len(p) \in Nat /\ Len(x) \in Nat /\ Len(p) < Len(x)
<1>1. PICK q \in Seq(Byte) : q # <<>> /\ p \o q = x
  BY DEF Torn
<1>2. p \in Seq(Byte)
  BY DEF Torn
<1>3. Len(p \o q) = Len(p) + Len(q) /\ Len(p) \in Nat /\ Len(q) \in Nat
  BY <1>2, ConcatType
<1>4. Len(q) # 0
  BY <1>1, EmptySeq
<1> QED BY <1>1, <1>2, <1>3, <1>4

\* What marshalLine writes: the marker, the line and its end.
LEMMA LineBytes ==
    ASSUME NEW x \in Byte, NEW s \in Seq(Byte), NEW b \in Seq(Byte)
    PROVE  /\ s \o CRLF \in Seq(Byte)
           /\ marshalLine(x, s) = <<x>> \o (s \o CRLF)
           /\ marshalLine(x, s) \in Seq(Byte)
           /\ Len(marshalLine(x, s)) = Len(s) + 3
           /\ (s \o CRLF) \o b = s \o (CRLF \o b)
           /\ marshalLine(x, s) \o b = <<x>> \o (s \o (CRLF \o b))
<1>1. CRLF \in Seq(Byte) /\ Len(CRLF) = 2 /\ <<x>> \in Seq(Byte) /\ Len(<<x>>) = 1 /\ Len(s) \in Nat
  BY CRLFType
<1>2. s \o CRLF \in Seq(Byte) /\ Len(s \o CRLF) = Len(s) + 2
  <2>1. s \o CRLF \in Seq(Byte) /\ Len(s \o CRLF) = Len(s) + Len(CRLF)
    BY <1>1, ConcatType
  <2> QED BY <2>1, <1>1
<1>3. (<<x>> \o s) \o CRLF = <<x>> \o (s \o CRLF)
  BY <1>1, Assoc
<1>4. (s \o CRLF) \o b = s \o (CRLF \o b)
  BY <1>1, Assoc
<1>5. (<<x>> \o (s \o CRLF)) \o b = <<x>> \o ((s \o CRLF) \o b)
  BY <1>1, <1>2, Assoc
<1>6. <<x>> \o (s \o CRLF) \in Seq(Byte) /\ Len(<<x>> \o (s \o CRLF)) = 1 + Len(s \o CRLF)
  BY <1>1, <1>2, TailConcat
<1>7. Len(<<x>> \o (s \o CRLF)) = Len(s) + 3
  BY <1>2, <1>6, <1>1
<1> QED BY <1>2, <1>3, <1>4, <1>5, <1>6, <1>7 DEF marshalLine

\* What marshalBulk writes: the length as a line, the bytes, and a line end.
LEMMA BulkBytes ==
    ASSUME NEW s \in Seq(Byte), Len(s) \in DOMAIN Numeral, NEW b \in Seq(Byte)
    PROVE  /\ marshalBulk(s) = <<"$">> \o ((<<Numeral[Len(s)]>> \o CRLF) \o (s \o CRLF))
           /\ marshalBulk(s) \in Seq(Byte)
           /\ marshalBulk(s) \o b = <<"$">> \o (<<Numeral[Len(s)]>> \o (CRLF \o (s \o (CRLF \o b))))
<1> DEFINE h == <<Numeral[Len(s)]>>
           m == marshalLine("$", h)
           e == s \o CRLF
<1>1. h \in Seq(Byte) /\ "$" \in Byte /\ <<"$">> \in Seq(Byte) /\ CRLF \in Seq(Byte)
  BY NumeralLine, LineType, NumeralAssumption, CRLFType
<1> HIDE DEF h
<1>2. e \in Seq(Byte) /\ e \o b = s \o (CRLF \o b) /\ e \o b \in Seq(Byte)
  BY <1>1, LineBytes, ConcatType
<1>3. h \o CRLF \in Seq(Byte) /\ m = <<"$">> \o (h \o CRLF) /\ m \in Seq(Byte)
  BY <1>1, <1>2, LineBytes
<1>4. m \o (e \o b) = <<"$">> \o (h \o (CRLF \o (e \o b)))
  BY <1>1, <1>2, LineBytes
<1>5. (m \o s) \o CRLF = m \o e
  <2>1. m \in Seq(Byte) /\ CRLF \in Seq(Byte)
    BY <1>1, <1>3
  <2> HIDE DEF m
  <2> QED BY <2>1, Assoc
<1> HIDE DEF e
<1>6. m \o e = <<"$">> \o ((h \o CRLF) \o e)
  <2> DEFINE d == <<"$">>
             g == h \o CRLF
  <2>1. d \in Seq(Byte) /\ g \in Seq(Byte) /\ e \in Seq(Byte) /\ m = d \o g
    BY <1>1, <1>2, <1>3
  <2> HIDE DEF d, g, m
  <2>2. (d \o g) \o e = d \o (g \o e)
    BY <2>1, Assoc
  <2> QED BY <2>1, <2>2 DEF d, g
<1>7. m \o e \in Seq(Byte) /\ (m \o e) \o b = m \o (e \o b)
  BY <1>2, <1>3, Assoc, ConcatType
<1>8. marshalBulk(s) = m \o e
  BY <1>5 DEF marshalBulk, h
<1> QED BY <1>2, <1>4, <1>6, <1>7, <1>8 DEF h, e

\* readBulk returns the bytes that were written, line ends among them included.
LEMMA ReadBulk ==
    ASSUME NEW s \in Seq(Byte), Len(s) \in DOMAIN Numeral, NEW b \in Seq(Byte)
    PROVE  readBulk(<<Numeral[Len(s)]>> \o (CRLF \o (s \o (CRLF \o b)))) = Ok(Bulk(s), b)
<1> DEFINE e == CRLF \o b
           t == s \o e
           l == <<Numeral[Len(s)]>> \o (CRLF \o t)
<1>1. CRLF \in Seq(Byte) /\ Len(s) \in Nat
  BY CRLFType
<1>2. e \in Seq(Byte) /\ t \in Seq(Byte) /\ Len(t) = Len(s) + Len(e) /\ Len(e) = Len(CRLF) + Len(b)
  BY <1>1, ConcatType
<1>3. readLine(e) = Ok(<<>>, b)
  <2>1. <<>> \in Line /\ <<>> \o e = e
    BY <1>2 DEF Line
  <2> QED BY <2>1, ReadLine
<1>4. SubSeq(t, 1, Len(s)) = s /\ Skip(t, Len(s)) = e
  BY <1>2, FirstOfConcat, SkipConcat
<1>5. readInteger(l) = Ok(Len(s), t)
  BY <1>2, ReadInteger
<1>6. ~(Len(s) < 0) /\ ~(Len(s) > 0 /\ t = <<>>) /\ ~(Len(s) > Len(t))
  BY <1>1, <1>2, CRLFType
<1> HIDE DEF l, t, e
<1>7. readBulk(l) = Ok(Bulk(SubSeq(t, 1, Len(s))), b)
  <2>1. readInteger(l).err = "none" /\ readInteger(l).val = Len(s) /\ readInteger(l).rest = t
    BY <1>5 DEF Ok
  <2>2. readLine(Skip(t, Len(s))).err = "none" /\ readLine(Skip(t, Len(s))).rest = b
    BY <1>3, <1>4 DEF Ok
  <2> QED BY <2>1, <2>2, <1>6 DEF readBulk
<1> QED BY <1>4, <1>7 DEF l, t, e

\* The errors that mean the end of the stream.
EndOfStream == {Fail("EOF"), Fail("UnexpectedEOF")}

\* readBulk returns nothing for a bulk string that was cut anywhere.
LEMMA TornBulk ==
    ASSUME NEW s \in Seq(Byte), Len(s) \in DOMAIN Numeral,
           NEW p \in Torn(Byte, (<<Numeral[Len(s)]>> \o CRLF) \o (s \o CRLF))
    PROVE  readBulk(p) \in EndOfStream
<1> DEFINE h == <<Numeral[Len(s)]>>
<1>1. CRLF \in Seq(Byte) /\ Len(s) \in Nat /\ h \in Seq(Byte)
  BY CRLFType, NumeralLine, LineType
<1>2. h \o CRLF \in Seq(Byte) /\ s \o CRLF \in Seq(Byte)
  BY <1>1, ConcatType
<1>3. CASE p \in Torn(Byte, h \o CRLF)
  <2>1. readInteger(p) = Fail("EOF")
    BY <1>3, TornInteger
  <2> QED BY <2>1 DEF readBulk, Fail, EndOfStream
<1>4. CASE \E r \in Torn(Byte, s \o CRLF) : p = (h \o CRLF) \o r
  <2>1. PICK r \in Torn(Byte, s \o CRLF) : p = (h \o CRLF) \o r
    BY <1>4
  <2>2. r \in Seq(Byte) /\ Len(r) \in Nat
    BY <1>2, TornLen
  <2>3. p = h \o (CRLF \o r)
    BY <2>1, <2>2, <1>1, Assoc
  <2>4. readInteger(p) = Ok(Len(s), r)
    BY <2>2, <2>3, ReadInteger
  <2>5. CASE r \in Torn(Byte, s)
    <3>1. Len(r) < Len(s)
      BY <2>5, TornLen
    <3> HIDE DEF h
    <3> QED BY <3>1, <2>2, <2>4, <1>1 DEF readBulk, Ok, Fail, EndOfStream
  <2>6. CASE \E u \in Torn(Byte, CRLF) : r = s \o u
    <3>1. PICK u \in Torn(Byte, CRLF) : r = s \o u
      BY <2>6
    <3>2. u \in Seq(Byte) /\ Len(u) \in Nat
      BY <1>1, TornLen
    <3>3. Skip(r, Len(s)) = u /\ Len(r) = Len(s) + Len(u)
      BY <3>1, <3>2, SkipConcat, ConcatType
    <3>4. readLine(u) = Fail("EOF")
      <4>1. <<>> \in Line /\ <<>> \o CRLF = CRLF
        BY <1>1 DEF Line
      <4> QED BY <4>1, TornLine
    <3>5. ~(Len(s) < 0) /\ ~(Len(s) > Len(r))
      BY <3>2, <3>3, <1>1
    <3> HIDE DEF h
    <3> QED BY <3>3, <3>4, <3>5, <2>4 DEF readBulk, Ok, Fail, EndOfStream
  <2> QED BY <2>5, <2>6, <1>1, TornConcat
<1> QED BY <1>2, <1>3, <1>4, TornConcat

-----------------------------------------------------------------------------
(* Recursive functions: each one satisfies its equation.                   *)

\* Bodies of the recursive functions, and what becomes less in each call.
DepthOf(v) == Depth[v]

MarshalBody(f, v) ==
    CASE v[1] \in {"+", "-"}       -> marshalLine(v[1], v[2])
      [] v[1] = ":"                -> marshalLine(":", <<Numeral[v[2]]>>)
      [] Len(v) = 1                -> marshalLine(v[1], <<Numeral[-1]>>)
      [] v[1] = "$" /\ Len(v) = 2  -> marshalBulk(v[2])
      [] OTHER                     -> marshalLine("*", <<Numeral[Len(v[2])]>>)
                                        \o FlattenSeq([i \in DOMAIN v[2] |-> f[v[2][i]]])

FramesBody(f, v) ==
    IF Len(v) = 3 THEN FlattenSeq([i \in DOMAIN v[2] |-> f[v[2][i]]]) ELSE <<v>>

UnmarkedBody(f, v) ==
    IF v[1] = "*" /\ Len(v) > 1 THEN Array([i \in DOMAIN v[2] |-> f[v[2][i]]]) ELSE v

FuelOf(k) == k

readElemsBody(f, k) ==
    [b \in Seq(Byte) |-> [n \in Nat |->
        IF n = 0 THEN Ok(<<>>, b)
        ELSE IF k = 0 THEN Fail("EOF")
        ELSE readElem(f[k - 1], b, n)]]

MarshalRec == INSTANCE Recursion WITH D <- Value, Rank <- DepthOf, Body <- MarshalBody
FramesRec == INSTANCE Recursion WITH D <- Value, Rank <- DepthOf, Body <- FramesBody
UnmarkedRec == INSTANCE Recursion WITH D <- Value, Rank <- DepthOf, Body <- UnmarkedBody
readElemsRec == INSTANCE Recursion WITH D <- Nat, Rank <- FuelOf, Body <- readElemsBody

\* v is an array or a bundle of vs.
Elements(v, vs) ==
    /\ vs \in Seq(Value) /\ Len(vs) \in DOMAIN Numeral /\ Len(vs) \in Nat
    /\ v = <<"*", vs>> \/ v = <<"*", vs, "Multi">>
    /\ \A i \in 1 .. Len(vs) : vs[i] \in Value /\ Depth[vs[i]] < Depth[v]

\* The forms of a value.
LEMMA Shapes ==
    ASSUME NEW v \in Value
    PROVE  \/ \E x \in {"+", "-"}, s \in Line : v = <<x, s>>
           \/ \E n \in DOMAIN Numeral : v = <<":", n>>
           \/ v = <<"$">> \/ v = <<"*">>
           \/ \E s \in Seq(Byte) : Len(s) \in DOMAIN Numeral /\ v = <<"$", s>>
           \/ \E vs : Elements(v, vs)
<1>1. /\ IsLine(v) \/ IsInt(v) \/ IsNull(v) \/ IsBulk(v) \/ IsArray(v)
      /\ IsArray(v) => \A i \in DOMAIN v[2] : Depth[v[2][i]] < Depth[v]
  BY ValueAssumption
<1>2. CASE IsLine(v)
  BY <1>2 DEF IsLine, Line
<1>3. CASE IsInt(v)
  BY <1>3 DEF IsInt
<1>4. CASE IsNull(v)
  BY <1>4 DEF IsNull, NullBulk, NullArray
<1>5. CASE IsBulk(v)
  BY <1>5 DEF IsBulk
<1>6. CASE IsArray(v)
  <2>1. PICK vs \in Seq(Value) : v = <<"*", vs>> \/ v = <<"*", vs, "Multi">>
    BY <1>6 DEF IsArray
  <2>2. v[2] = vs
    BY <2>1
  <2>3. Len(vs) \in DOMAIN Numeral
    BY <1>6, <2>2 DEF IsArray
  <2>4. \A i \in DOMAIN vs : Depth[vs[i]] < Depth[v]
    BY <1>6, <1>1, <2>2
  <2>5. Len(vs) \in Nat /\ DOMAIN vs = 1 .. Len(vs) /\ \A i \in 1 .. Len(vs) : vs[i] \in Value
    OBVIOUS
  <2>6. Elements(v, vs)
    BY <2>1, <2>3, <2>4, <2>5 DEF Elements
  <2> QED BY <2>6
<1> QED BY <1>1, <1>2, <1>3, <1>4, <1>5, <1>6

\* The length of the tuple tells the forms apart.
LEMMA ShapeLen ==
    ASSUME NEW v \in Value
    PROVE  (\E vs : Elements(v, vs)) \/ Len(v) = 1 \/ (Len(v) = 2 /\ v[1] # "*")
<1>1. \A x, y : Len(<<x, y>>) = 2 /\ <<x, y>>[1] = x
  OBVIOUS
<1>2. Len(<<"$">>) = 1 /\ Len(<<"*">>) = 1
  OBVIOUS
<1>3. CASE \E x \in {"+", "-"}, s \in Line : v = <<x, s>>
  BY <1>1, <1>3
<1>4. CASE \E n \in DOMAIN Numeral : v = <<":", n>>
  BY <1>1, <1>4
<1>5. CASE \E s \in Seq(Byte) : Len(s) \in DOMAIN Numeral /\ v = <<"$", s>>
  BY <1>1, <1>5
<1>6. CASE v = <<"$">> \/ v = <<"*">>
  BY <1>2, <1>6
<1> QED BY <1>3, <1>4, <1>5, <1>6, Shapes

\* The depth of a value ranks the values.
LEMMA DepthRanks == \A v \in Value : DepthOf(v) \in Nat
BY ValueAssumption DEF DepthOf

\* What f is below v decides what it is at v.
LEMMA MapsAgree ==
    ASSUME NEW v, NEW vs, Elements(v, vs), NEW g, NEW h,
           \A w \in Value : DepthOf(w) < DepthOf(v) => g[w] = h[w]
    PROVE  v[2] = vs /\ [i \in DOMAIN vs |-> g[vs[i]]] = [i \in DOMAIN vs |-> h[vs[i]]]
<1>1. v[2] = vs
  BY DEF Elements
<1>2. \A i \in DOMAIN vs : g[vs[i]] = h[vs[i]]
  <2>1. DOMAIN vs = 1 .. Len(vs)
    BY DEF Elements
  <2> QED BY <2>1 DEF Elements, DepthOf
<1> QED BY <1>1, <1>2

\* Marshal is what its definition says: an array's elements are less deep than it.
LEMMA MarshalEquation == \A v \in Value : Marshal[v] = MarshalBody(Marshal, v)
<1>1. MarshalRec!Ranked
  BY DepthRanks DEF MarshalRec!Ranked
<1>2. MarshalRec!Descends
  <2> SUFFICES ASSUME NEW v \in Value, NEW g, NEW h,
                      \A w \in Value : DepthOf(w) < DepthOf(v) => g[w] = h[w]
               PROVE  MarshalBody(g, v) = MarshalBody(h, v)
    BY DEF MarshalRec!Descends
  <2>1. CASE \E vs : Elements(v, vs)
    <3>1. PICK vs : Elements(v, vs)
      BY <2>1
    <3>2. v[2] = vs /\ [i \in DOMAIN vs |-> g[vs[i]]] = [i \in DOMAIN vs |-> h[vs[i]]]
      BY <3>1, MapsAgree
    <3> QED BY <3>2, Zenon DEF MarshalBody
  <2>2. CASE v[1] \in {"+", "-", ":"} \/ Len(v) = 1 \/ (v[1] = "$" /\ Len(v) = 2)
    BY <2>2 DEF MarshalBody
  <2>3. (\E vs : Elements(v, vs)) \/ v[1] \in {"+", "-", ":"} \/ Len(v) = 1 \/ (v[1] = "$" /\ Len(v) = 2)
    <3>1. (\E vs : Elements(v, vs)) \/ v[1] \in {"+", "-", ":", "$"} \/ Len(v) = 1
      BY Shapes
    <3> QED BY <3>1, ShapeLen
  <2> QED BY <2>1, <2>2, <2>3
<1>3. Marshal = [v \in Value |-> MarshalBody(Marshal, v)]
  BY <1>1, <1>2, MarshalRec!Recursion DEF Marshal, MarshalBody
<1> QED BY <1>3

\* So is Frames.
LEMMA FramesEquation == \A v \in Value : Frames[v] = FramesBody(Frames, v)
<1>1. FramesRec!Ranked
  BY DepthRanks DEF FramesRec!Ranked
<1>2. FramesRec!Descends
  <2> SUFFICES ASSUME NEW v \in Value, NEW g, NEW h,
                      \A w \in Value : DepthOf(w) < DepthOf(v) => g[w] = h[w]
               PROVE  FramesBody(g, v) = FramesBody(h, v)
    BY DEF FramesRec!Descends
  <2>1. CASE \E vs : Elements(v, vs)
    <3>1. PICK vs : Elements(v, vs)
      BY <2>1
    <3>2. v[2] = vs /\ [i \in DOMAIN vs |-> g[vs[i]]] = [i \in DOMAIN vs |-> h[vs[i]]]
      BY <3>1, MapsAgree
    <3> QED BY <3>2, Zenon DEF FramesBody
  <2>2. CASE ~(Len(v) = 3)
    BY <2>2 DEF FramesBody
  <2>3. (\E vs : Elements(v, vs)) \/ ~(Len(v) = 3)
    BY ShapeLen
  <2> QED BY <2>1, <2>2, <2>3
<1>3. Frames = [v \in Value |-> FramesBody(Frames, v)]
  BY <1>1, <1>2, FramesRec!Recursion DEF Frames, FramesBody
<1> QED BY <1>3

\* So is Unmarked.
LEMMA UnmarkedEquation == \A v \in Value : Unmarked[v] = UnmarkedBody(Unmarked, v)
<1>1. UnmarkedRec!Ranked
  BY DepthRanks DEF UnmarkedRec!Ranked
<1>2. UnmarkedRec!Descends
  <2> SUFFICES ASSUME NEW v \in Value, NEW g, NEW h,
                      \A w \in Value : DepthOf(w) < DepthOf(v) => g[w] = h[w]
               PROVE  UnmarkedBody(g, v) = UnmarkedBody(h, v)
    BY DEF UnmarkedRec!Descends
  <2>1. CASE \E vs : Elements(v, vs)
    <3>1. PICK vs : Elements(v, vs)
      BY <2>1
    <3>2. v[2] = vs /\ [i \in DOMAIN vs |-> g[vs[i]]] = [i \in DOMAIN vs |-> h[vs[i]]]
      BY <3>1, MapsAgree
    <3> QED BY <3>2, Zenon DEF UnmarkedBody
  <2>2. CASE ~(v[1] = "*" /\ Len(v) > 1)
    BY <2>2 DEF UnmarkedBody
  <2>3. (\E vs : Elements(v, vs)) \/ ~(v[1] = "*" /\ Len(v) > 1)
    <3>1. CASE Len(v) = 1
      BY <3>1
    <3>2. CASE v[1] # "*"
      BY <3>2
    <3> QED BY <3>1, <3>2, ShapeLen
  <2> QED BY <2>1, <2>2, <2>3
<1>3. Unmarked = [v \in Value |-> UnmarkedBody(Unmarked, v)]
  BY <1>1, <1>2, UnmarkedRec!Recursion DEF Unmarked, UnmarkedBody
<1> QED BY <1>3

\* So is readElems, which always recurs with one less.
LEMMA readElemsEquation == \A k \in Nat : readElems[k] = readElemsBody(readElems, k)
<1>1. readElemsRec!Ranked
  BY DEF readElemsRec!Ranked, FuelOf
<1>2. readElemsRec!Descends
  <2> SUFFICES ASSUME NEW k \in Nat, NEW g, NEW h, \A j \in Nat : j < k => g[j] = h[j]
               PROVE  readElemsBody(g, k) = readElemsBody(h, k)
    BY DEF readElemsRec!Descends, FuelOf
  <2>1. CASE k = 0
    BY <2>1 DEF readElemsBody
  <2>2. CASE k # 0
    <3>1. g[k - 1] = h[k - 1]
      BY <2>2
    <3> QED BY <3>1 DEF readElemsBody
  <2> QED BY <2>1, <2>2
<1>3. readElems = [k \in Nat |-> readElemsBody(readElems, k)]
  BY <1>1, <1>2, readElemsRec!Recursion DEF readElems, readElemsBody
<1> QED BY <1>3

-----------------------------------------------------------------------------
(* FlattenSeq.                                                             *)

\* f[i] is the concatenation of the first i sequences.
\* f[i] is the first i sequences of ss, one after the other.
Flattens(f, ss) == f = [i \in 1 .. Len(ss) |-> IF i = 1 THEN ss[i] ELSE f[i - 1] \o ss[i]]

\* The fold that FlattenSeq chooses exists.
LEMMA FlattensExists ==
    ASSUME NEW ss, Len(ss) \in Nat
    PROVE  \E f : Flattens(f, ss)
<1> DEFINE R(f, i) == IF i = 1 THEN ss[i] ELSE f[i - 1] \o ss[i]
           P(f, n) == f = [i \in 1 .. n |-> R(f, i)]
           S == {n \in Nat : \E f : P(f, n)}
<1>1. 0 \in S
  <2> DEFINE e == [i \in {} |-> 0]
  <2>1. 1 .. 0 = {}
    OBVIOUS
  <2>2. e = [i \in {} |-> R(e, i)]
    OBVIOUS
  <2> HIDE DEF e
  <2>3. P(e, 0)
    BY <2>1, <2>2
  <2> HIDE DEF P
  <2> QED BY <2>3
<1>2. ASSUME NEW n \in Nat, n \in S PROVE n + 1 \in S
  <2>1. PICK f : P(f, n)
    BY <1>2
  <2> DEFINE g == [i \in 1 .. n + 1 |-> R(f, i)]
  <2>2. \A i \in 1 .. n : f[i] = g[i]
    <3> HIDE DEF R
    <3>1. \A i \in 1 .. n : f[i] = R(f, i)
      BY <2>1
    <3>2. \A i \in 1 .. n : g[i] = R(f, i)
      OBVIOUS
    <3> QED BY <3>1, <3>2
  <2>3. \A i \in 1 .. n + 1 : i # 1 => f[i - 1] = g[i - 1]
    <3>1. \A i \in 1 .. n + 1 : i # 1 => i - 1 \in 1 .. n
      OBVIOUS
    <3> HIDE DEF g
    <3> QED BY <3>1, <2>2
  <2>4. P(g, n + 1)
    <3>1. ASSUME NEW i \in 1 .. n + 1 PROVE R(f, i) = R(g, i)
      <4> HIDE DEF g
      <4>1. CASE i = 1
        BY <4>1
      <4>2. CASE i # 1
        BY <4>2, <2>3
      <4> QED BY <4>1, <4>2
    <3>2. g = [i \in 1 .. n + 1 |-> R(f, i)]
      OBVIOUS
    <3> HIDE DEF g, R
    <3> QED BY <3>1, <3>2
  <2>5. n + 1 \in Nat
    OBVIOUS
  <2> HIDE DEF g, P
  <2> QED BY <2>4, <2>5
<1> HIDE DEF S
<1>3. Nat \subseteq S
  BY <1>1, <1>2, MarshalRec!SetInduction
<1>4. \E f : P(f, Len(ss))
  BY <1>3 DEF S
<1> QED BY <1>4 DEF Flattens

\* That fold, unfolded once.
LEMMA FlattensAt ==
    ASSUME NEW ss, NEW f, Flattens(f, ss), NEW i \in 1 .. Len(ss)
    PROVE  f[i] = IF i = 1 THEN ss[i] ELSE f[i - 1] \o ss[i]
<1> DEFINE R(j) == IF j = 1 THEN ss[j] ELSE f[j - 1] \o ss[j]
<1>1. f = [j \in 1 .. Len(ss) |-> R(j)]
  BY DEF Flattens
<1> HIDE DEF R
<1>2. f[i] = R(i)
  BY <1>1
<1> QED BY <1>2 DEF R

\* FlattenSeq is the last value of that fold.
LEMMA FlattenSeqIs ==
    ASSUME NEW ss, Len(ss) \in Nat, Len(ss) # 0
    PROVE  \E f : Flattens(f, ss) /\ FlattenSeq(ss) = f[Len(ss)]
<1> DEFINE f == CHOOSE f : Flattens(f, ss)
<1>1. Flattens(f, ss)
  BY FlattensExists
<1>2. FlattenSeq(ss) = f[Len(ss)]
  BY DEF FlattenSeq, Flattens
<1> HIDE DEF f
<1> QED BY <1>1, <1>2

\* The fold over sequences of S yields sequences of S.
LEMMA FlattenType ==
    ASSUME NEW S, NEW ss \in Seq(Seq(S)), NEW f, Flattens(f, ss)
    PROVE  \A i \in 1 .. Len(ss) : f[i] \in Seq(S)
<1> DEFINE T == {n \in Nat : n \in 1 .. Len(ss) => f[n] \in Seq(S)}
<1>1. 0 \in T
  OBVIOUS
<1>2. ASSUME NEW n \in Nat, n \in T PROVE n + 1 \in T
  <2> SUFFICES ASSUME n + 1 \in 1 .. Len(ss) PROVE f[n + 1] \in Seq(S)
    OBVIOUS
  <2>1. f[n + 1] = IF n + 1 = 1 THEN ss[n + 1] ELSE f[n + 1 - 1] \o ss[n + 1]
    BY FlattensAt
  <2>2. ss[n + 1] \in Seq(S)
    OBVIOUS
  <2>3. CASE n = 0
    BY <2>1, <2>2, <2>3
  <2>4. CASE n # 0
    <3>1. f[n] \in Seq(S) /\ n + 1 - 1 = n /\ n + 1 # 1
      BY <1>2, <2>4
    <3> QED BY <3>1, <2>1, <2>2
  <2> QED BY <2>3, <2>4
<1> HIDE DEF T
<1>3. Nat \subseteq T
  BY <1>1, <1>2, MarshalRec!SetInduction
<1> QED BY <1>3 DEF T

\* FlattenSeq takes one more sequence to the end.
LEMMA FlattenAppend ==
    ASSUME NEW S, NEW ss \in Seq(Seq(S)), NEW x \in Seq(S)
    PROVE  /\ FlattenSeq(ss) \in Seq(S)
           /\ FlattenSeq(Append(ss, x)) = FlattenSeq(ss) \o x
<1> DEFINE tt == Append(ss, x)
<1>0. tt \in Seq(Seq(S)) /\ Len(tt) = Len(ss) + 1 /\ Len(ss) \in Nat /\ tt[Len(tt)] = x
      /\ \A i \in 1 .. Len(ss) : tt[i] = ss[i]
  OBVIOUS
<1> HIDE DEF tt
<1>1. PICK g : Flattens(g, tt) /\ FlattenSeq(tt) = g[Len(tt)]
  <2>1. Len(tt) \in Nat /\ Len(tt) # 0
    BY <1>0
  <2> QED BY <2>1, FlattenSeqIs
<1>2. g[Len(tt)] = IF Len(tt) = 1 THEN tt[Len(tt)] ELSE g[Len(tt) - 1] \o tt[Len(tt)]
  <2>1. Len(tt) \in 1 .. Len(tt)
    BY <1>0
  <2> QED BY <2>1, <1>1, FlattensAt
<1>3. CASE Len(ss) = 0
  <2>1. ss = <<>>
    BY <1>3
  <2>2. FlattenSeq(ss) = <<>>
    BY <1>3, <2>1 DEF FlattenSeq
  <2>3. FlattenSeq(tt) = x
    BY <1>3, <1>1, <1>2, <1>0
  <2> QED BY <2>2, <2>3, <2>1 DEF tt
<1>4. CASE Len(ss) # 0
  <2>1. PICK f : Flattens(f, ss) /\ FlattenSeq(ss) = f[Len(ss)]
    BY <1>4, <1>0, FlattenSeqIs
  <2> DEFINE T == {n \in Nat : n \in 1 .. Len(ss) => f[n] = g[n]}
  <2>2. 0 \in T
    OBVIOUS
  <2>3. ASSUME NEW n \in Nat, n \in T PROVE n + 1 \in T
    <3> SUFFICES ASSUME n + 1 \in 1 .. Len(ss) PROVE f[n + 1] = g[n + 1]
      OBVIOUS
    <3>1. f[n + 1] = IF n + 1 = 1 THEN ss[n + 1] ELSE f[n + 1 - 1] \o ss[n + 1]
      BY <2>1, FlattensAt
    <3>2. g[n + 1] = IF n + 1 = 1 THEN tt[n + 1] ELSE g[n + 1 - 1] \o tt[n + 1]
      <4>1. n + 1 \in 1 .. Len(tt)
        BY <1>0
      <4> QED BY <4>1, <1>1, FlattensAt
    <3>3. tt[n + 1] = ss[n + 1]
      BY <1>0
    <3>4. n + 1 # 1 => f[n + 1 - 1] = g[n + 1 - 1]
      BY <2>3, <1>0
    <3> QED BY <3>1, <3>2, <3>3, <3>4
  <2> HIDE DEF T
  <2>4. Nat \subseteq T
    BY <2>2, <2>3, MarshalRec!SetInduction
  <2>5. f[Len(ss)] = g[Len(ss)]
    BY <2>4, <1>0, <1>4 DEF T
  <2>6. Len(tt) - 1 = Len(ss) /\ Len(tt) # 1
    BY <1>0, <1>4
  <2>7. FlattenSeq(tt) = FlattenSeq(ss) \o x
    BY <2>1, <2>5, <2>6, <1>0, <1>1, <1>2
  <2>8. FlattenSeq(ss) \in Seq(S)
    BY <2>1, <1>0, <1>4, FlattenType
  <2> QED BY <2>7, <2>8 DEF tt
<1> QED BY <1>3, <1>4

\* FlattenSeq of two lists of sequences, one after the other.
LEMMA FlattenConcat ==
    ASSUME NEW S, NEW ss \in Seq(Seq(S)), NEW tt \in Seq(Seq(S))
    PROVE  FlattenSeq(ss \o tt) = FlattenSeq(ss) \o FlattenSeq(tt)
<1> DEFINE T == {n \in Nat : \A uu \in Seq(Seq(S)) :
                                Len(uu) = n => FlattenSeq(ss \o uu) = FlattenSeq(ss) \o FlattenSeq(uu)}
<1>0. FlattenSeq(ss) \in Seq(S)
  BY FlattenAppend, EmptySeq
<1>1. 0 \in T
  <2> SUFFICES ASSUME NEW uu \in Seq(Seq(S)), Len(uu) = 0
               PROVE  FlattenSeq(ss \o uu) = FlattenSeq(ss) \o FlattenSeq(uu)
    OBVIOUS
  <2>1. uu = <<>> /\ ss \o uu = ss
    OBVIOUS
  <2>2. FlattenSeq(uu) = <<>>
    BY <2>1 DEF FlattenSeq
  <2>3. FlattenSeq(ss) \o <<>> = FlattenSeq(ss)
    BY <1>0
  <2> QED BY <2>1, <2>2, <2>3
<1>2. ASSUME NEW n \in Nat, n \in T PROVE n + 1 \in T
  <2> SUFFICES ASSUME NEW uu \in Seq(Seq(S)), Len(uu) = n + 1
               PROVE  FlattenSeq(ss \o uu) = FlattenSeq(ss) \o FlattenSeq(uu)
    OBVIOUS
  <2> DEFINE ww == SubSeq(uu, 1, n)
             x  == uu[n + 1]
  <2>1. ww \in Seq(Seq(S)) /\ Len(ww) = n /\ x \in Seq(S) /\ uu = Append(ww, x)
    OBVIOUS
  <2> HIDE DEF ww, x
  <2>2. ss \o uu = Append(ss \o ww, x) /\ ss \o ww \in Seq(Seq(S))
    BY <2>1
  <2>3. FlattenSeq(ss \o ww) = FlattenSeq(ss) \o FlattenSeq(ww)
    BY <2>1, <1>2
  <2>4. FlattenSeq(uu) = FlattenSeq(ww) \o x /\ FlattenSeq(ww) \in Seq(S)
    BY <2>1, FlattenAppend
  <2>5. FlattenSeq(ss \o uu) = FlattenSeq(ss \o ww) \o x
    BY <2>1, <2>2, FlattenAppend
  <2>6. (FlattenSeq(ss) \o FlattenSeq(ww)) \o x = FlattenSeq(ss) \o (FlattenSeq(ww) \o x)
    BY <1>0, <2>1, <2>4, ConcatAssociative
  <2> QED BY <2>3, <2>4, <2>5, <2>6
<1> HIDE DEF T
<1>3. Nat \subseteq T
  BY <1>1, <1>2, MarshalRec!SetInduction
<1>4. Len(tt) \in T
  BY <1>3
<1> QED BY <1>4 DEF T

-----------------------------------------------------------------------------
(* What is written.                                                        *)

\* What Marshal writes for an array or a bundle.
LEMMA BytesOfArray ==
    ASSUME NEW v \in Value, NEW vs, Elements(v, vs)
    PROVE  Marshal[v] = marshalLine("*", <<Numeral[Len(vs)]>>) \o Bytes(vs)
<1>1. v[1] = "*" /\ v[2] = vs /\ ~(Len(v) = 1)
  <2>1. CASE v = <<"*", vs>>
    <3>1. v[1] = "*" /\ v[2] = vs /\ Len(v) = 2
      BY <2>1
    <3> QED BY <3>1
  <2>2. CASE v = <<"*", vs, "Multi">>
    <3>1. v[1] = "*" /\ v[2] = vs /\ Len(v) = 3
      BY <2>2
    <3> QED BY <3>1
  <2> QED BY <2>1, <2>2 DEF Elements
<1>2. Marshal[v] = MarshalBody(Marshal, v)
  BY MarshalEquation
<1>3. MarshalBody(Marshal, v) = marshalLine("*", <<Numeral[Len(v[2])]>>)
                                    \o FlattenSeq([i \in DOMAIN v[2] |-> Marshal[v[2][i]]])
  BY <1>1 DEF MarshalBody
<1> QED BY <1>1, <1>2, <1>3 DEF Bytes

\* What Marshal writes for the other values.
LEMMA BytesOfLeaf ==
    ASSUME NEW v \in Value
    PROVE  /\ \A x \in {"+", "-"}, s \in Line : v = <<x, s>> => Marshal[v] = marshalLine(x, s)
           /\ \A n \in DOMAIN Numeral : v = <<":", n>> => Marshal[v] = marshalLine(":", <<Numeral[n]>>)
           /\ v = <<"$">> => Marshal[v] = marshalLine("$", <<Numeral[-1]>>)
           /\ v = <<"*">> => Marshal[v] = marshalLine("*", <<Numeral[-1]>>)
           /\ \A s \in Seq(Byte) : v = <<"$", s>> => Marshal[v] = marshalBulk(s)
<1>1. Marshal[v] = MarshalBody(Marshal, v)
  BY MarshalEquation
<1>2. ASSUME NEW x \in {"+", "-"}, NEW s \in Line, v = <<x, s>> PROVE MarshalBody(Marshal, v) = marshalLine(x, s)
  BY <1>2 DEF MarshalBody
<1>3. ASSUME NEW n \in DOMAIN Numeral, v = <<":", n>> PROVE MarshalBody(Marshal, v) = marshalLine(":", <<Numeral[n]>>)
  BY <1>3 DEF MarshalBody
<1>4. ASSUME v = <<"$">> PROVE MarshalBody(Marshal, v) = marshalLine("$", <<Numeral[-1]>>)
  <2>1. v[1] = "$" /\ Len(v) = 1
    BY <1>4
  <2> QED BY <2>1 DEF MarshalBody
<1>5. ASSUME v = <<"*">> PROVE MarshalBody(Marshal, v) = marshalLine("*", <<Numeral[-1]>>)
  <2>1. v[1] = "*" /\ Len(v) = 1
    BY <1>5
  <2> QED BY <2>1 DEF MarshalBody
<1>6. ASSUME NEW s \in Seq(Byte), v = <<"$", s>> PROVE MarshalBody(Marshal, v) = marshalBulk(s)
  <2>1. v[1] = "$" /\ Len(v) = 2 /\ v[2] = s
    BY <1>6
  <2> QED BY <2>1 DEF MarshalBody
<1> QED BY <1>1, <1>2, <1>3, <1>4, <1>5, <1>6

\* A map of a function over the elements of a sequence.
LEMMA MapType ==
    ASSUME NEW D, NEW S, NEW f, NEW vs \in Seq(D), \A i \in 1 .. Len(vs) : f[vs[i]] \in S
    PROVE  [i \in DOMAIN vs |-> f[vs[i]]] \in Seq(S)
<1>1. DOMAIN vs = 1 .. Len(vs) /\ Len(vs) \in Nat
  OBVIOUS
<1> QED BY <1>1

\* The type of a flattened map.
LEMMA FlattenMap ==
    ASSUME NEW D, NEW S, NEW f, NEW vs \in Seq(D), \A i \in 1 .. Len(vs) : f[vs[i]] \in Seq(S)
    PROVE  FlattenSeq([i \in DOMAIN vs |-> f[vs[i]]]) \in Seq(S)
<1>1. [i \in DOMAIN vs |-> f[vs[i]]] \in Seq(Seq(S))
  BY MapType
<1> QED BY <1>1, FlattenAppend, EmptySeq

\* Marshal writes bytes.
LEMMA MarshalType == \A v \in Value : Marshal[v] \in Seq(Byte)
<1> DEFINE T == {n \in Nat : \A v \in Value : Depth[v] < n => Marshal[v] \in Seq(Byte)}
<1>1. 0 \in T
  BY ValueAssumption
<1>2. ASSUME NEW n \in Nat, n \in T PROVE n + 1 \in T
  <2> SUFFICES ASSUME NEW v \in Value, Depth[v] < n + 1 PROVE Marshal[v] \in Seq(Byte)
    OBVIOUS
  <2>0. Depth[v] \in Nat /\ {"+", "-", ":", "$", "*"} \subseteq Byte /\ -1 \in DOMAIN Numeral
    BY ValueAssumption, NumeralAssumption
  <2>1. \A m \in DOMAIN Numeral : <<Numeral[m]>> \in Seq(Byte)
    BY NumeralLine, LineType
  <2>2. \A x \in Byte, s \in Seq(Byte) : marshalLine(x, s) \in Seq(Byte)
    BY LineBytes, EmptySeq
  <2>3. CASE \E vs : Elements(v, vs)
    <3>1. PICK vs : Elements(v, vs)
      BY <2>3
    <3>2. vs \in Seq(Value) /\ Len(vs) \in DOMAIN Numeral
      BY <3>1 DEF Elements
    <3>3. \A i \in 1 .. Len(vs) : Marshal[vs[i]] \in Seq(Byte)
      <4> SUFFICES ASSUME NEW i \in 1 .. Len(vs) PROVE Marshal[vs[i]] \in Seq(Byte)
        OBVIOUS
      <4>1. vs[i] \in Value /\ Depth[vs[i]] < Depth[v]
        BY <3>1 DEF Elements
      <4>2. Depth[vs[i]] \in Nat
        BY <4>1, ValueAssumption
      <4>3. Depth[vs[i]] < n
        BY <4>1, <4>2, <2>0
      <4> QED BY <4>1, <4>3, <1>2
    <3>4. Bytes(vs) \in Seq(Byte)
      BY <3>2, <3>3, FlattenMap DEF Bytes
    <3>5. marshalLine("*", <<Numeral[Len(vs)]>>) \in Seq(Byte)
      BY <3>2, <2>0, <2>1, <2>2
    <3>6. marshalLine("*", <<Numeral[Len(vs)]>>) \o Bytes(vs) \in Seq(Byte)
      BY <3>4, <3>5, ConcatType
    <3> QED BY <3>1, <3>6, BytesOfArray
  <2>4. CASE \E x \in {"+", "-"}, s \in Line : v = <<x, s>>
    BY <2>4, <2>0, <2>2, LineType, BytesOfLeaf
  <2>5. CASE \E m \in DOMAIN Numeral : v = <<":", m>>
    BY <2>5, <2>0, <2>1, <2>2, BytesOfLeaf
  <2>6. CASE v = <<"$">> \/ v = <<"*">>
    BY <2>6, <2>0, <2>1, <2>2, BytesOfLeaf
  <2>7. CASE \E s \in Seq(Byte) : Len(s) \in DOMAIN Numeral /\ v = <<"$", s>>
    <3>1. PICK s \in Seq(Byte) : Len(s) \in DOMAIN Numeral /\ v = <<"$", s>>
      BY <2>7
    <3>2. marshalBulk(s) \in Seq(Byte)
      BY <3>1, BulkBytes, EmptySeq
    <3> QED BY <3>1, <3>2, BytesOfLeaf
  <2> QED BY <2>3, <2>4, <2>5, <2>6, <2>7, Shapes
<1> HIDE DEF T
<1>3. Nat \subseteq T
  BY <1>1, <1>2, MarshalRec!SetInduction
<1> SUFFICES ASSUME NEW v \in Value PROVE Marshal[v] \in Seq(Byte)
  OBVIOUS
<1>4. Depth[v] \in Nat /\ Depth[v] + 1 \in T
  BY <1>3, ValueAssumption
<1> QED BY <1>4 DEF T

\* So do several frames.
LEMMA BytesType == ASSUME NEW fs \in Seq(Value) PROVE Bytes(fs) \in Seq(Byte) /\ Len(Bytes(fs)) \in Nat
<1>1. \A i \in 1 .. Len(fs) : Marshal[fs[i]] \in Seq(Byte)
  BY MarshalType
<1>2. Bytes(fs) \in Seq(Byte)
  BY <1>1, FlattenMap DEF Bytes
<1> QED BY <1>2

\* Frames are written one after the other.
LEMMA BytesConcat ==
    ASSUME NEW fs \in Seq(Value), NEW gs \in Seq(Value)
    PROVE  Bytes(fs \o gs) = Bytes(fs) \o Bytes(gs)
<1> DEFINE map(s) == [i \in DOMAIN s |-> Marshal[s[i]]]
<1>1. map(fs) \in Seq(Seq(Byte)) /\ map(gs) \in Seq(Seq(Byte))
  BY MarshalType
<1>2. map(fs \o gs) = map(fs) \o map(gs)
  OBVIOUS
<1>3. FlattenSeq(map(fs) \o map(gs)) = FlattenSeq(map(fs)) \o FlattenSeq(map(gs))
  <2> HIDE DEF map
  <2> QED BY <1>1, FlattenConcat
<1> QED BY <1>2, <1>3 DEF Bytes

\* No frame, and one frame.
LEMMA BytesSmall ==
    /\ Bytes(<<>>) = <<>>
    /\ \A v \in Value : Bytes(<<v>>) = Marshal[v]
<1>1. Bytes(<<>>) = <<>>
  <2>1. [i \in DOMAIN <<>> |-> Marshal[<<>>[i]]] = <<>>
    OBVIOUS
  <2> QED BY <2>1 DEF Bytes, FlattenSeq
<1>2. ASSUME NEW v \in Value PROVE Bytes(<<v>>) = Marshal[v]
  <2>1. [i \in DOMAIN <<v>> |-> Marshal[<<v>>[i]]] = Append(<<>>, Marshal[v])
    OBVIOUS
  <2>2. Marshal[v] \in Seq(Byte) /\ <<>> \in Seq(Seq(Byte))
    BY MarshalType
  <2>3. FlattenSeq(Append(<<>>, Marshal[v])) = FlattenSeq(<<>>) \o Marshal[v]
    BY <2>2, FlattenAppend
  <2>4. FlattenSeq(<<>>) = <<>>
    BY DEF FlattenSeq
  <2>5. <<>> \o Marshal[v] = Marshal[v]
    BY <2>2
  <2> QED BY <2>1, <2>3, <2>4, <2>5 DEF Bytes
<1> QED BY <1>1, <1>2

\* Writer.Write writes values as frames.
LEMMA FramesType == \A v \in Value : Frames[v] \in Seq(Value)
<1> DEFINE T == {n \in Nat : \A v \in Value : Depth[v] < n => Frames[v] \in Seq(Value)}
<1>1. 0 \in T
  BY ValueAssumption
<1>2. ASSUME NEW n \in Nat, n \in T PROVE n + 1 \in T
  <2> SUFFICES ASSUME NEW v \in Value, Depth[v] < n + 1 PROVE Frames[v] \in Seq(Value)
    OBVIOUS
  <2>0. Depth[v] \in Nat /\ Frames[v] = FramesBody(Frames, v)
    BY ValueAssumption, FramesEquation
  <2>1. CASE Len(v) # 3
    <3>1. Frames[v] = <<v>>
      BY <2>0, <2>1 DEF FramesBody
    <3> QED BY <3>1
  <2>2. CASE Len(v) = 3
    <3>1. PICK vs : Elements(v, vs)
      BY <2>2, ShapeLen
    <3>2. vs \in Seq(Value) /\ v[2] = vs
      BY <3>1 DEF Elements
    <3>3. \A i \in 1 .. Len(vs) : Frames[vs[i]] \in Seq(Value)
      <4> SUFFICES ASSUME NEW i \in 1 .. Len(vs) PROVE Frames[vs[i]] \in Seq(Value)
        OBVIOUS
      <4>1. vs[i] \in Value /\ Depth[vs[i]] < Depth[v]
        BY <3>1 DEF Elements
      <4>2. Depth[vs[i]] \in Nat
        BY <4>1, ValueAssumption
      <4>3. Depth[vs[i]] < n
        BY <4>1, <4>2, <2>0
      <4> QED BY <4>1, <4>3, <1>2
    <3>4. Frames[v] = FlattenSeq([i \in DOMAIN vs |-> Frames[vs[i]]])
      BY <2>0, <2>2, <3>2 DEF FramesBody
    <3> QED BY <3>2, <3>3, <3>4, FlattenMap
  <2> QED BY <2>1, <2>2
<1> HIDE DEF T
<1>3. Nat \subseteq T
  BY <1>1, <1>2, MarshalRec!SetInduction
<1> SUFFICES ASSUME NEW v \in Value PROVE Frames[v] \in Seq(Value)
  OBVIOUS
<1>4. Depth[v] \in Nat /\ Depth[v] + 1 \in T
  BY <1>3, ValueAssumption
<1> QED BY <1>4 DEF T

-----------------------------------------------------------------------------
(* What is read.                                                           *)

\* What a reader makes of the elements of an array.
Elems(vs) == [i \in DOMAIN vs |-> Unmarked[vs[i]]]

\* Unmarked, for each form of a value.
LEMMA UnmarkedIs ==
    ASSUME NEW v \in Value
    PROVE  /\ \A vs : Elements(v, vs) => Unmarked[v] = Array(Elems(vs))
           /\ ~(v[1] = "*" /\ Len(v) > 1) => Unmarked[v] = v
<1>1. Unmarked[v] = UnmarkedBody(Unmarked, v)
  BY UnmarkedEquation
<1>2. ASSUME NEW vs, Elements(v, vs) PROVE Unmarked[v] = Array(Elems(vs))
  <2>1. v[1] = "*" /\ v[2] = vs /\ Len(v) > 1
    <3>1. CASE v = <<"*", vs>>
      <4>1. v[1] = "*" /\ v[2] = vs /\ Len(v) = 2
        BY <3>1
      <4> QED BY <4>1
    <3>2. CASE v = <<"*", vs, "Multi">>
      <4>1. v[1] = "*" /\ v[2] = vs /\ Len(v) = 3
        BY <3>2
      <4> QED BY <4>1
    <3> QED BY <3>1, <3>2, <1>2 DEF Elements
  <2> QED BY <2>1, <1>1 DEF UnmarkedBody, Elems
<1>3. ~(v[1] = "*" /\ Len(v) > 1) => Unmarked[v] = v
  BY <1>1 DEF UnmarkedBody
<1> QED BY <1>2, <1>3

\* Read dispatches on the first byte.
LEMMA ReadWithIs ==
    ASSUME NEW R, NEW x \in Byte, NEW t \in Seq(Byte)
    PROVE  /\ x = "*" => ReadWith(R, <<x>> \o t) = readArray(R, t)
           /\ x = "$" => ReadWith(R, <<x>> \o t) = readBulk(t)
           /\ x \in {"+", "-"} => ReadWith(R, <<x>> \o t) = asValue(x, readLine(t))
           /\ x = ":" => ReadWith(R, <<x>> \o t) = asValue(":", readInteger(t))
<1> DEFINE l == <<x>> \o t
<1>1. l # <<>> /\ l[1] = x /\ Tail(l) = t
  BY TailConcat
<1> HIDE DEF l
<1>2. /\ x = "*" => ReadWith(R, l) = readArray(R, t)
      /\ x = "$" => ReadWith(R, l) = readBulk(t)
      /\ x \in {"+", "-"} => ReadWith(R, l) = asValue(x, readLine(t))
      /\ x = ":" => ReadWith(R, l) = asValue(":", readInteger(t))
  BY <1>1 DEF ReadWith
<1> QED BY <1>2 DEF l

\* R reads elements that are at most k bytes long.
Reads(R, k) ==
    \A vs \in Seq(Value), b \in Seq(Byte) :
        Len(Bytes(vs)) <= k => R[Bytes(vs) \o b][Len(vs)] = Ok(Elems(vs), b)

\* R finds the end of the stream in what a cut leaves of elements, if that is at most
\* k bytes.
Stops(R, k) ==
    \A vs \in Seq(Value) : \A p \in Torn(Byte, Bytes(vs)) :
        Len(p) <= k => R[p][Len(vs)] \in EndOfStream

\* The markers are bytes, and -1 has a numeral.
LEMMA Markers == {"+", "-", ":", "$", "*"} \subseteq Byte /\ -1 \in DOMAIN Numeral
BY NumeralAssumption

\* A numeral is a sequence of bytes.
LEMMA NumeralType == \A n \in DOMAIN Numeral : <<Numeral[n]>> \in Seq(Byte) /\ Len(<<Numeral[n]>>) = 1
BY NumeralLine, LineType

\* The bytes of an array: marker, number of elements, elements.
LEMMA ArrayBytes ==
    ASSUME NEW v \in Value, NEW vs, Elements(v, vs), NEW b \in Seq(Byte)
    PROVE  /\ Marshal[v] = <<"*">> \o ((<<Numeral[Len(vs)]>> \o CRLF) \o Bytes(vs))
           /\ <<Numeral[Len(vs)]>> \o CRLF \in Seq(Byte)
           /\ Bytes(vs) \in Seq(Byte)
           /\ Len(Marshal[v]) = 4 + Len(Bytes(vs)) /\ Len(Bytes(vs)) \in Nat
           /\ Marshal[v] \o b = <<"*">> \o (<<Numeral[Len(vs)]>> \o (CRLF \o (Bytes(vs) \o b)))
<1> DEFINE h == <<Numeral[Len(vs)]>>
           c == Bytes(vs)
           m == marshalLine("*", h)
           d == <<"*">>
           g == h \o CRLF
<1>1. Marshal[v] = m \o c
  BY BytesOfArray
<1>2. "*" \in Byte /\ h \in Seq(Byte) /\ Len(h) = 1 /\ c \in Seq(Byte) /\ Len(c) \in Nat /\ d \in Seq(Byte)
  BY Markers, NumeralType, BytesType DEF Elements
<1> HIDE DEF h, c
<1>3. c \o b \in Seq(Byte)
  BY <1>2, ConcatType
<1>4. m = d \o g /\ g \in Seq(Byte) /\ m \in Seq(Byte) /\ Len(m) = 4
      /\ m \o (c \o b) = d \o (h \o (CRLF \o (c \o b)))
  <2>1. m = d \o g /\ g \in Seq(Byte) /\ m \in Seq(Byte) /\ Len(m) = Len(h) + 3
        /\ m \o (c \o b) = d \o (h \o (CRLF \o (c \o b)))
    BY <1>2, <1>3, LineBytes
  <2> HIDE DEF m, d, g
  <2>2. Len(m) = 4
    BY <2>1, <1>2
  <2> QED BY <2>1, <2>2, Zenon
<1> HIDE DEF m, d, g
<1>5. (m \o c) \o b = m \o (c \o b)
  <2>1. m \in Seq(Byte) /\ c \in Seq(Byte)
    BY <1>2, <1>4
  <2> QED BY <2>1, Assoc
<1>6. (d \o g) \o c = d \o (g \o c)
  BY <1>2, <1>4, Assoc
<1>7. Len(m \o c) = Len(m) + Len(c)
  BY <1>2, <1>4, ConcatType
<1>8. Len(m \o c) = 4 + Len(c)
  BY <1>7, <1>4, <1>2
<1> QED BY <1>1, <1>2, <1>4, <1>5, <1>6, <1>8 DEF h, c, d, g

\* If R reads the elements of arrays, Read reads every value that is not longer.
LEMMA ReadValue ==
    ASSUME NEW k \in Nat, NEW R, Reads(R, k), NEW v \in Value, NEW b \in Seq(Byte), Len(Marshal[v]) <= k + 1
    PROVE  ReadWith(R, Marshal[v] \o b) = Ok(Unmarked[v], b)
<1>1. CASE \E x \in {"+", "-"}, s \in Line : v = <<x, s>>
  <2>1. PICK x \in {"+", "-"}, s \in Line : v = <<x, s>>
    BY <1>1
  <2>2. x \in Byte /\ s \in Seq(Byte) /\ CRLF \o b \in Seq(Byte)
    BY Markers, LineType, CRLFType, ConcatType
  <2>3. Marshal[v] \o b = <<x>> \o (s \o (CRLF \o b))
    <3>1. marshalLine(x, s) \o b = <<x>> \o (s \o (CRLF \o b))
      BY <2>2, LineBytes
    <3>2. Marshal[v] = marshalLine(x, s)
      BY <2>1, BytesOfLeaf
    <3> QED BY <3>1, <3>2, Zenon
  <2>4. s \o (CRLF \o b) \in Seq(Byte)
    BY <2>2, ConcatType
  <2>5. ReadWith(R, Marshal[v] \o b) = asValue(x, readLine(s \o (CRLF \o b)))
    BY <2>2, <2>3, <2>4, ReadWithIs
  <2>6. readLine(s \o (CRLF \o b)) = Ok(s, b)
    BY ReadLine
  <2>7. Unmarked[v] = v
    BY <2>1, UnmarkedIs
  <2> QED BY <2>1, <2>5, <2>6, <2>7 DEF asValue, Ok
<1>2. CASE \E n \in DOMAIN Numeral : v = <<":", n>>
  <2>1. PICK n \in DOMAIN Numeral : v = <<":", n>>
    BY <1>2
  <2> DEFINE s == <<Numeral[n]>>
  <2>2. ":" \in Byte /\ s \in Seq(Byte) /\ CRLF \o b \in Seq(Byte)
    BY Markers, NumeralType, CRLFType, ConcatType
  <2>3. readInteger(s \o (CRLF \o b)) = Ok(n, b)
    BY ReadInteger
  <2>4. Marshal[v] = marshalLine(":", s)
    BY <2>1, BytesOfLeaf
  <2> HIDE DEF s
  <2>5. Marshal[v] \o b = <<":">> \o (s \o (CRLF \o b))
    <3>1. marshalLine(":", s) \o b = <<":">> \o (s \o (CRLF \o b))
      BY <2>2, LineBytes
    <3> QED BY <3>1, <2>4, Zenon
  <2>6. s \o (CRLF \o b) \in Seq(Byte)
    BY <2>2, ConcatType
  <2>7. ReadWith(R, Marshal[v] \o b) = asValue(":", readInteger(s \o (CRLF \o b)))
    BY <2>2, <2>5, <2>6, ReadWithIs
  <2>8. Unmarked[v] = v
    BY <2>1, UnmarkedIs
  <2> QED BY <2>1, <2>3, <2>7, <2>8 DEF asValue, Ok
<1>3. CASE v = <<"$">> \/ v = <<"*">>
  <2>1. PICK x \in {"$", "*"} : v = <<x>>
    BY <1>3
  <2> DEFINE s == <<Numeral[-1]>>
  <2>2. x \in Byte /\ s \in Seq(Byte) /\ CRLF \o b \in Seq(Byte)
    BY Markers, NumeralType, CRLFType, ConcatType
  <2>3. readInteger(s \o (CRLF \o b)) = Ok(-1, b)
    BY ReadInteger, Markers
  <2>4. Marshal[v] = marshalLine(x, s)
    BY <2>1, BytesOfLeaf
  <2> HIDE DEF s
  <2>5. Marshal[v] \o b = <<x>> \o (s \o (CRLF \o b))
    <3>1. marshalLine(x, s) \o b = <<x>> \o (s \o (CRLF \o b))
      BY <2>2, LineBytes
    <3> QED BY <3>1, <2>4, Zenon
  <2>6. s \o (CRLF \o b) \in Seq(Byte)
    BY <2>2, ConcatType
  <2> DEFINE t == s \o (CRLF \o b)
  <2> HIDE DEF t
  <2>7. x \in Byte /\ t \in Seq(Byte) /\ Marshal[v] \o b = <<x>> \o t
    BY <2>2, <2>5, <2>6 DEF t
  <2>8. /\ x = "$" => ReadWith(R, Marshal[v] \o b) = readBulk(t)
        /\ x = "*" => ReadWith(R, Marshal[v] \o b) = readArray(R, t)
    BY <2>7, ReadWithIs
  <2>9. readInteger(t).err = "none" /\ readInteger(t).val = -1 /\ readInteger(t).rest = b
    BY <2>3 DEF Ok, t
  <2>10. readBulk(t) = Ok(<<"$">>, b) /\ readArray(R, t) = Ok(<<"*">>, b)
    BY <2>9 DEF readBulk, readArray, NullBulk, NullArray
  <2>11. Unmarked[v] = v
    <3>1. Len(v) = 1
      BY <2>1
    <3>2. ~(v[1] = "*" /\ Len(v) > 1)
      BY <3>1
    <3> QED BY <3>2, UnmarkedIs
  <2> QED BY <2>1, <2>8, <2>10, <2>11
<1>4. CASE \E s \in Seq(Byte) : Len(s) \in DOMAIN Numeral /\ v = <<"$", s>>
  <2>1. PICK s \in Seq(Byte) : Len(s) \in DOMAIN Numeral /\ v = <<"$", s>>
    BY <1>4
  <2> DEFINE t == <<Numeral[Len(s)]>> \o (CRLF \o (s \o (CRLF \o b)))
  <2>2. "$" \in Byte /\ t \in Seq(Byte)
    BY <2>1, Markers, NumeralType, CRLFType, ConcatType
  <2>3. Marshal[v] \o b = <<"$">> \o t
    <3>1. marshalBulk(s) \o b = <<"$">> \o t
      BY <2>1, BulkBytes
    <3>2. Marshal[v] = marshalBulk(s)
      BY <2>1, BytesOfLeaf
    <3> QED BY <3>1, <3>2, Zenon
  <2>4. readBulk(t) = Ok(Bulk(s), b)
    BY <2>1, ReadBulk
  <2> HIDE DEF t
  <2>5. ReadWith(R, Marshal[v] \o b) = readBulk(t)
    BY <2>2, <2>3, ReadWithIs
  <2>6. Unmarked[v] = v
    BY <2>1, UnmarkedIs
  <2> QED BY <2>1, <2>4, <2>5, <2>6 DEF Bulk
<1>5. CASE \E vs : Elements(v, vs)
  <2>1. PICK vs : Elements(v, vs)
    BY <1>5
  <2>2. vs \in Seq(Value) /\ Len(vs) \in DOMAIN Numeral /\ Len(vs) \in Nat
    BY <2>1 DEF Elements
  <2> DEFINE u == Bytes(vs) \o b
             t == <<Numeral[Len(vs)]>> \o (CRLF \o u)
  <2>3. Bytes(vs) \in Seq(Byte) /\ Marshal[v] \o b = <<"*">> \o t
        /\ Len(Marshal[v]) = 4 + Len(Bytes(vs)) /\ Len(Bytes(vs)) \in Nat
    BY <2>1, ArrayBytes
  <2>4. u \in Seq(Byte)
    BY <2>3, ConcatType
  <2>5. t \in Seq(Byte)
    <3> HIDE DEF u
    <3> QED BY <2>2, <2>4, NumeralType, CRLFType, ConcatType
  <2>6. readInteger(t) = Ok(Len(vs), u)
    BY <2>2, <2>4, ReadInteger
  <2>7. R[u][Len(vs)] = Ok(Elems(vs), b)
    <3>1. Len(Bytes(vs)) <= k
      BY <2>3
    <3> QED BY <3>1, <2>2 DEF Reads
  <2> HIDE DEF t, u
  <2>8. ReadWith(R, Marshal[v] \o b) = readArray(R, t)
    BY <2>3, <2>5, ReadWithIs, Markers
  <2>9. readInteger(t).err = "none" /\ readInteger(t).val = Len(vs) /\ readInteger(t).rest = u
    BY <2>6 DEF Ok
  <2>10. R[u][Len(vs)].err = "none" /\ R[u][Len(vs)].val = Elems(vs) /\ R[u][Len(vs)].rest = b
    BY <2>7 DEF Ok
  <2>11. ~(Len(vs) < 0)
    BY <2>2
  <2>12. readArray(R, t) = Ok(Array(Elems(vs)), b)
    BY <2>9, <2>10, <2>11 DEF readArray
  <2> QED BY <2>1, <2>8, <2>12, UnmarkedIs
<1> QED BY <1>1, <1>2, <1>3, <1>4, <1>5, Shapes

\* A cut after the first byte, or before it.
LEMMA TornHead ==
    ASSUME NEW x \in Byte, NEW t \in Seq(Byte), NEW p \in Torn(Byte, <<x>> \o t)
    PROVE  p = <<>> \/ \E r \in Torn(Byte, t) : p = <<x>> \o r
<1>1. <<x>> \in Seq(Byte) /\ Len(<<x>>) = 1
  OBVIOUS
<1>2. CASE p \in Torn(Byte, <<x>>)
  <2> DEFINE d == <<x>>
  <2>1. d \in Seq(Byte) /\ Len(d) = 1 /\ p \in Torn(Byte, d)
    BY <1>1, <1>2
  <2> HIDE DEF d
  <2>2. p \in Seq(Byte) /\ Len(p) = 0
    BY <2>1, TornLen
  <2> QED BY <2>2
<1> QED BY <1>1, <1>2, TornConcat

\* If R finds none of the elements of an array that was cut, Read finds no value.
LEMMA TornValue ==
    ASSUME NEW k \in Nat, NEW R, Stops(R, k), NEW v \in Value, NEW p \in Torn(Byte, Marshal[v]), Len(p) <= k + 1
    PROVE  ReadWith(R, p) \in EndOfStream
<1>0. CASE p = <<>>
  BY <1>0 DEF ReadWith, EndOfStream
<1>1. CASE p # <<>> /\ \E x \in {"+", "-"}, s \in Line : v = <<x, s>>
  <2>1. PICK x \in {"+", "-"}, s \in Line : v = <<x, s>>
    BY <1>1
  <2>2. x \in Byte /\ s \in Seq(Byte)
    BY Markers, LineType
  <2>3. s \o CRLF \in Seq(Byte) /\ marshalLine(x, s) = <<x>> \o (s \o CRLF)
    BY <2>2, LineBytes, EmptySeq
  <2>4. Marshal[v] = marshalLine(x, s)
    BY <2>1, BytesOfLeaf
  <2>5. PICK r \in Torn(Byte, s \o CRLF) : p = <<x>> \o r
    <3> DEFINE m == Marshal[v]
               u == s \o CRLF
    <3>1. m = <<x>> \o u /\ p # <<>> /\ x \in Byte /\ u \in Seq(Byte) /\ p \in Torn(Byte, m)
      BY <1>1, <2>2, <2>3, <2>4
    <3> HIDE DEF m, u
    <3>2. p \in Torn(Byte, <<x>> \o u)
      BY <3>1, Zenon
    <3>3. x \in Byte /\ u \in Seq(Byte)
      BY <3>1
    <3>4. p = <<>> \/ \E r \in Torn(Byte, u) : p = <<x>> \o r
      BY <3>2, <3>3, TornHead
    <3> QED BY <3>1, <3>4, Zenon DEF u
  <2>6. r \in Seq(Byte)
    BY DEF Torn
  <2>7. ReadWith(R, p) = asValue(x, readLine(r))
    BY <2>2, <2>5, <2>6, ReadWithIs
  <2>8. readLine(r) = Fail("EOF")
    BY TornLine
  <2> QED BY <2>7, <2>8 DEF asValue, Fail, EndOfStream
<1>2. CASE p # <<>> /\ \E n \in DOMAIN Numeral : v = <<":", n>>
  <2>1. PICK n \in DOMAIN Numeral : v = <<":", n>>
    BY <1>2
  <2>2. ":" \in Byte /\ <<Numeral[n]>> \in Seq(Byte)
    BY Markers, NumeralType
  <2>3. /\ <<Numeral[n]>> \o CRLF \in Seq(Byte)
        /\ marshalLine(":", <<Numeral[n]>>) = <<":">> \o (<<Numeral[n]>> \o CRLF)
    BY <2>2, LineBytes, EmptySeq
  <2>4. Marshal[v] = marshalLine(":", <<Numeral[n]>>)
    BY <2>1, BytesOfLeaf
  <2>5. PICK r \in Torn(Byte, <<Numeral[n]>> \o CRLF) : p = <<":">> \o r
    <3> DEFINE m == Marshal[v]
               u == <<Numeral[n]>> \o CRLF
    <3>1. m = <<":">> \o u /\ p # <<>> /\ ":" \in Byte /\ u \in Seq(Byte) /\ p \in Torn(Byte, m)
      BY <1>2, <2>2, <2>3, <2>4
    <3> HIDE DEF m, u
    <3>2. p \in Torn(Byte, <<":">> \o u)
      BY <3>1, Zenon
    <3>3. ":" \in Byte /\ u \in Seq(Byte)
      BY <3>1
    <3>4. p = <<>> \/ \E r \in Torn(Byte, u) : p = <<":">> \o r
      BY <3>2, <3>3, TornHead
    <3> QED BY <3>1, <3>4, Zenon DEF u
  <2>6. r \in Seq(Byte)
    BY DEF Torn
  <2>7. ReadWith(R, p) = asValue(":", readInteger(r))
    BY <2>2, <2>5, <2>6, ReadWithIs
  <2>8. readInteger(r) = Fail("EOF")
    BY TornInteger
  <2> QED BY <2>7, <2>8 DEF asValue, Fail, EndOfStream
<1>3. CASE p # <<>> /\ (v = <<"$">> \/ v = <<"*">>)
  <2>1. PICK x \in {"$", "*"} : v = <<x>>
    BY <1>3
  <2>2. x \in Byte /\ <<Numeral[-1]>> \in Seq(Byte) /\ -1 \in DOMAIN Numeral
    BY Markers, NumeralType
  <2>3. /\ <<Numeral[-1]>> \o CRLF \in Seq(Byte)
        /\ marshalLine(x, <<Numeral[-1]>>) = <<x>> \o (<<Numeral[-1]>> \o CRLF)
    BY <2>2, LineBytes, EmptySeq
  <2>4. Marshal[v] = marshalLine(x, <<Numeral[-1]>>)
    BY <2>1, BytesOfLeaf
  <2>5. PICK r \in Torn(Byte, <<Numeral[-1]>> \o CRLF) : p = <<x>> \o r
    <3> DEFINE m == Marshal[v]
               u == <<Numeral[-1]>> \o CRLF
    <3>1. m = <<x>> \o u /\ p # <<>> /\ x \in Byte /\ u \in Seq(Byte) /\ p \in Torn(Byte, m)
      BY <1>3, <2>2, <2>3, <2>4
    <3> HIDE DEF m, u
    <3>2. p \in Torn(Byte, <<x>> \o u)
      BY <3>1, Zenon
    <3>3. x \in Byte /\ u \in Seq(Byte)
      BY <3>1
    <3>4. p = <<>> \/ \E r \in Torn(Byte, u) : p = <<x>> \o r
      BY <3>2, <3>3, TornHead
    <3> QED BY <3>1, <3>4, Zenon DEF u
  <2>6. r \in Seq(Byte)
    BY DEF Torn
  <2>7. readInteger(r) = Fail("EOF")
    BY <2>2, TornInteger
  <2>8. readBulk(r) = Fail("EOF") /\ readArray(R, r) = Fail("EOF")
    BY <2>7 DEF readBulk, readArray, Fail
  <2>9. /\ x = "$" => ReadWith(R, p) = readBulk(r)
        /\ x = "*" => ReadWith(R, p) = readArray(R, r)
    BY <2>2, <2>5, <2>6, ReadWithIs
  <2> QED BY <2>8, <2>9 DEF EndOfStream
<1>4. CASE p # <<>> /\ \E s \in Seq(Byte) : Len(s) \in DOMAIN Numeral /\ v = <<"$", s>>
  <2>1. PICK s \in Seq(Byte) : Len(s) \in DOMAIN Numeral /\ v = <<"$", s>>
    BY <1>4
  <2> DEFINE t == (<<Numeral[Len(s)]>> \o CRLF) \o (s \o CRLF)
  <2>2. "$" \in Byte /\ CRLF \in Seq(Byte) /\ <<Numeral[Len(s)]>> \in Seq(Byte)
    BY <2>1, Markers, NumeralType, CRLFType
  <2>3. t \in Seq(Byte)
    BY <2>2, ConcatType
  <2>4. marshalBulk(s) = <<"$">> \o t
    BY <2>1, BulkBytes, EmptySeq
  <2>5. Marshal[v] = marshalBulk(s)
    BY <2>1, BytesOfLeaf
  <2> HIDE DEF t
  <2>6. PICK r \in Torn(Byte, t) : p = <<"$">> \o r
    <3> DEFINE m == Marshal[v]
               u == t
    <3>1. m = <<"$">> \o u /\ p # <<>> /\ "$" \in Byte /\ u \in Seq(Byte) /\ p \in Torn(Byte, m)
      BY <1>4, <2>2, <2>3, <2>4, <2>5
    <3> HIDE DEF m, u
    <3>2. p \in Torn(Byte, <<"$">> \o u)
      BY <3>1, Zenon
    <3>3. "$" \in Byte /\ u \in Seq(Byte)
      BY <3>1
    <3>4. p = <<>> \/ \E r \in Torn(Byte, u) : p = <<"$">> \o r
      BY <3>2, <3>3, TornHead
    <3> QED BY <3>1, <3>4, Zenon DEF u
  <2>7. r \in Seq(Byte)
    BY DEF Torn
  <2>8. ReadWith(R, p) = readBulk(r)
    BY <2>2, <2>6, <2>7, ReadWithIs
  <2>9. readBulk(r) \in EndOfStream
    BY <2>1, TornBulk DEF t
  <2> QED BY <2>8, <2>9
<1>5. CASE p # <<>> /\ \E vs : Elements(v, vs)
  <2>1. PICK vs : Elements(v, vs)
    BY <1>5
  <2>2. vs \in Seq(Value) /\ Len(vs) \in DOMAIN Numeral /\ Len(vs) \in Nat
    BY <2>1 DEF Elements
  <2> DEFINE h == <<Numeral[Len(vs)]>> \o CRLF
             c == Bytes(vs)
  <2>3. Marshal[v] = <<"*">> \o (h \o c) /\ h \in Seq(Byte) /\ c \in Seq(Byte)
    BY <2>1, ArrayBytes, EmptySeq
  <2>4. "*" \in Byte /\ h \o c \in Seq(Byte)
    BY <2>3, Markers, ConcatType
  <2> HIDE DEF h, c
  <2>5. PICK r \in Torn(Byte, h \o c) : p = <<"*">> \o r
    <3> DEFINE m == Marshal[v]
               u == h \o c
    <3>1. m = <<"*">> \o u /\ p # <<>> /\ "*" \in Byte /\ u \in Seq(Byte) /\ p \in Torn(Byte, m)
      BY <1>5, <2>3, <2>4
    <3> HIDE DEF m, u
    <3>2. p \in Torn(Byte, <<"*">> \o u)
      BY <3>1, Zenon
    <3>3. "*" \in Byte /\ u \in Seq(Byte)
      BY <3>1
    <3>4. p = <<>> \/ \E r \in Torn(Byte, u) : p = <<"*">> \o r
      BY <3>2, <3>3, TornHead
    <3> QED BY <3>1, <3>4, Zenon DEF u
  <2>6. r \in Seq(Byte) /\ Len(p) = Len(r) + 1
    <3>1. r \in Seq(Byte)
      BY DEF Torn
    <3>2. Len(<<"*">> \o r) = Len(r) + 1
      BY <3>1, <2>4, TailConcat
    <3> QED BY <3>1, <3>2, <2>5
  <2>7. ReadWith(R, p) = readArray(R, r)
    BY <2>4, <2>5, <2>6, ReadWithIs
  <2>8. CASE r \in Torn(Byte, h)
    <3>1. readInteger(r) = Fail("EOF")
      BY <2>2, <2>8, TornInteger DEF h
    <3>2. readArray(R, r) = Fail("EOF")
      BY <3>1 DEF readArray, Fail
    <3> QED BY <3>2, <2>7 DEF EndOfStream
  <2>9. CASE \E u \in Torn(Byte, c) : r = h \o u
    <3>1. PICK u \in Torn(Byte, c) : r = h \o u
      BY <2>9
    <3>2. u \in Seq(Byte) /\ Len(u) \in Nat
      BY <2>3, TornLen
    <3>3. Len(r) = Len(h) + Len(u) /\ Len(h) \in Nat
      BY <2>3, <3>1, <3>2, ConcatType
    <3>4. r = <<Numeral[Len(vs)]>> \o (CRLF \o u)
      <4>1. <<Numeral[Len(vs)]>> \in Seq(Byte) /\ CRLF \in Seq(Byte)
        BY <2>2, NumeralType, CRLFType
      <4>2. (<<Numeral[Len(vs)]>> \o CRLF) \o u = <<Numeral[Len(vs)]>> \o (CRLF \o u)
        BY <4>1, <3>2, Assoc
      <4> QED BY <4>2, <3>1 DEF h
    <3>5. readInteger(r) = Ok(Len(vs), u)
      BY <3>2, <3>4, <2>2, ReadInteger
    <3>6. Len(u) <= k
      BY <3>2, <3>3, <2>6
    <3>7. R[u][Len(vs)] \in EndOfStream
      BY <3>6, <2>2 DEF Stops, c
    <3>8. readInteger(r).err = "none" /\ readInteger(r).val = Len(vs) /\ readInteger(r).rest = u
      BY <3>5 DEF Ok
    <3>9. R[u][Len(vs)].err # "none"
      BY <3>7 DEF EndOfStream, Fail
    <3>10. ~(Len(vs) < 0)
      BY <2>2
    <3>11. readArray(R, r) = R[u][Len(vs)]
      BY <3>8, <3>9, <3>10 DEF readArray
    <3> QED BY <3>7, <3>11, <2>7
  <2> QED BY <2>3, <2>8, <2>9, TornConcat
<1> QED BY <1>0, <1>1, <1>2, <1>3, <1>4, <1>5, Shapes

\* A frame has at least one byte.
LEMMA MarshalLen == \A v \in Value : Len(Marshal[v]) \in Nat /\ Len(Marshal[v]) >= 1
<1> SUFFICES ASSUME NEW v \in Value PROVE Len(Marshal[v]) \in Nat /\ Len(Marshal[v]) >= 1
  OBVIOUS
<1>1. \A x \in Byte, s \in Seq(Byte) : Len(marshalLine(x, s)) \in Nat /\ Len(marshalLine(x, s)) >= 1
  <2> SUFFICES ASSUME NEW x \in Byte, NEW s \in Seq(Byte)
               PROVE  Len(marshalLine(x, s)) \in Nat /\ Len(marshalLine(x, s)) >= 1
    OBVIOUS
  <2>0. <<>> \in Seq(Byte) /\ Len(s) \in Nat
    OBVIOUS
  <2>1. Len(marshalLine(x, s)) = Len(s) + 3
    BY <2>0, LineBytes
  <2> QED BY <2>0, <2>1
<1>2. CASE \E vs : Elements(v, vs)
  <2>1. PICK vs : Elements(v, vs)
    BY <1>2
  <2>2. Len(Marshal[v]) = 4 + Len(Bytes(vs)) /\ Len(Bytes(vs)) \in Nat
    BY <2>1, ArrayBytes, EmptySeq
  <2> QED BY <2>2
<1>3. CASE \E x \in {"+", "-"}, s \in Line : v = <<x, s>>
  BY <1>1, <1>3, Markers, LineType, BytesOfLeaf
<1>4. CASE \E m \in DOMAIN Numeral : v = <<":", m>>
  BY <1>1, <1>4, Markers, NumeralType, BytesOfLeaf
<1>5. CASE v = <<"$">> \/ v = <<"*">>
  BY <1>1, <1>5, Markers, NumeralType, BytesOfLeaf
<1>6. CASE \E s \in Seq(Byte) : Len(s) \in DOMAIN Numeral /\ v = <<"$", s>>
  <2>1. PICK s \in Seq(Byte) : Len(s) \in DOMAIN Numeral /\ v = <<"$", s>>
    BY <1>6
  <2> DEFINE t == (<<Numeral[Len(s)]>> \o CRLF) \o (s \o CRLF)
  <2>2. "$" \in Byte /\ CRLF \in Seq(Byte) /\ <<Numeral[Len(s)]>> \in Seq(Byte)
    BY <2>1, Markers, NumeralType, CRLFType
  <2>3. t \in Seq(Byte)
    BY <2>2, ConcatType
  <2>4. marshalBulk(s) = <<"$">> \o t
    BY <2>1, BulkBytes, EmptySeq
  <2>5. Marshal[v] = marshalBulk(s)
    BY <2>1, BytesOfLeaf
  <2> HIDE DEF t
  <2>6. Len(<<"$">> \o t) = Len(t) + 1 /\ Len(t) \in Nat
    BY <2>2, <2>3, TailConcat
  <2> QED BY <2>4, <2>5, <2>6
<1> QED BY <1>2, <1>3, <1>4, <1>5, <1>6, Shapes

\* readElems, unfolded once.
LEMMA readElemsAt ==
    ASSUME NEW k \in Nat, NEW b \in Seq(Byte), NEW n \in Nat
    PROVE  /\ n = 0 => readElems[k][b][n] = Ok(<<>>, b)
           /\ n # 0 /\ k = 0 => readElems[k][b][n] = Fail("EOF")
           /\ n # 0 /\ k # 0 => readElems[k][b][n] = readElem(readElems[k - 1], b, n)
<1>1. readElems[k] = readElemsBody(readElems, k)
  BY readElemsEquation
<1> DEFINE R == readElems[k - 1]
<1>2. readElemsBody(readElems, k)[b][n] = IF n = 0 THEN Ok(<<>>, b)
                                           ELSE IF k = 0 THEN Fail("EOF") ELSE readElem(R, b, n)
  BY DEF readElemsBody
<1> HIDE DEF R
<1>3. readElems[k][b][n] = IF n = 0 THEN Ok(<<>>, b)
                           ELSE IF k = 0 THEN Fail("EOF") ELSE readElem(R, b, n)
  BY <1>1, <1>2, Zenon
<1> QED BY <1>3 DEF R

\* The first of several values.
LEMMA FirstValue ==
    ASSUME NEW vs \in Seq(Value), vs # <<>>
    PROVE  LET ws == Tail(vs)
           IN  /\ vs[1] \in Value /\ ws \in Seq(Value) /\ Len(vs) \in Nat /\ Len(vs) # 0 /\ Len(ws) = Len(vs) - 1
               /\ Bytes(vs) = Marshal[vs[1]] \o Bytes(ws)
               /\ Marshal[vs[1]] \in Seq(Byte) /\ Bytes(ws) \in Seq(Byte)
               /\ Len(Bytes(vs)) = Len(Marshal[vs[1]]) + Len(Bytes(ws))
               /\ Len(Marshal[vs[1]]) \in Nat /\ Len(Marshal[vs[1]]) >= 1 /\ Len(Bytes(ws)) \in Nat
               /\ Elems(vs) = <<Unmarked[vs[1]]>> \o Elems(ws)
<1> DEFINE v  == vs[1]
           ws == Tail(vs)
<1>1. v \in Value /\ ws \in Seq(Value) /\ Len(vs) \in Nat /\ Len(vs) # 0 /\ Len(ws) = Len(vs) - 1
      /\ vs = <<v>> \o ws /\ <<v>> \in Seq(Value)
  OBVIOUS
<1>2. Elems(vs) = <<Unmarked[v]>> \o Elems(ws)
  BY DEF Elems
<1> HIDE DEF v, ws
<1>3. Bytes(vs) = Bytes(<<v>>) \o Bytes(ws)
  BY <1>1, BytesConcat
<1>4. Bytes(<<v>>) = Marshal[v] /\ Marshal[v] \in Seq(Byte) /\ Len(Marshal[v]) \in Nat /\ Len(Marshal[v]) >= 1
  BY <1>1, BytesSmall, MarshalType, MarshalLen
<1>5. Bytes(ws) \in Seq(Byte)
  BY <1>1, BytesType
<1>6. Len(Marshal[v] \o Bytes(ws)) = Len(Marshal[v]) + Len(Bytes(ws)) /\ Len(Bytes(ws)) \in Nat
  BY <1>4, <1>5, ConcatType
<1>7. Bytes(vs) = Marshal[v] \o Bytes(ws)
  BY <1>3, <1>4, Zenon
<1> QED BY <1>1, <1>2, <1>4, <1>5, <1>6, <1>7 DEF v, ws

\* With one more to spare, readElems reads one more byte of elements.
LEMMA ReadsNext ==
    ASSUME NEW k \in Nat, Reads(readElems[k], k)
    PROVE  Reads(readElems[k + 1], k + 1)
<1> SUFFICES ASSUME NEW vs \in Seq(Value), NEW b \in Seq(Byte), Len(Bytes(vs)) <= k + 1
             PROVE  readElems[k + 1][Bytes(vs) \o b][Len(vs)] = Ok(Elems(vs), b)
  BY DEF Reads
<1>0. Bytes(vs) \o b \in Seq(Byte)
  BY BytesType, ConcatType
<1>1. CASE vs = <<>>
  <2>1. Bytes(vs) \o b = b /\ Len(vs) = 0 /\ Elems(vs) = <<>>
    <3>1. Bytes(vs) = <<>>
      BY <1>1, BytesSmall
    <3> QED BY <1>1, <3>1 DEF Elems
  <2>2. readElems[k + 1][b][0] = Ok(<<>>, b)
    BY readElemsAt
  <2> QED BY <2>1, <2>2
<1>2. CASE vs # <<>>
  <2> DEFINE v  == vs[1]
             ws == Tail(vs)
             R  == readElems[k]
             c  == Bytes(ws) \o b
             l  == Bytes(vs) \o b
             n  == Len(vs)
  <2>1. /\ v \in Value /\ ws \in Seq(Value) /\ n \in Nat /\ n # 0 /\ Len(ws) = n - 1
        /\ Bytes(vs) = Marshal[v] \o Bytes(ws)
        /\ Marshal[v] \in Seq(Byte) /\ Bytes(ws) \in Seq(Byte)
        /\ Len(Bytes(vs)) = Len(Marshal[v]) + Len(Bytes(ws))
        /\ Len(Marshal[v]) \in Nat /\ Len(Marshal[v]) >= 1 /\ Len(Bytes(ws)) \in Nat
        /\ Elems(vs) = <<Unmarked[v]>> \o Elems(ws)
    BY <1>2, FirstValue
  <2> HIDE DEF v, ws, R, n
  <2>2. c \in Seq(Byte)
    BY <2>1, ConcatType
  <2>3. (Marshal[v] \o Bytes(ws)) \o b = Marshal[v] \o (Bytes(ws) \o b)
    <3>1. Marshal[v] \in Seq(Byte) /\ Bytes(ws) \in Seq(Byte)
      BY <2>1
    <3> QED BY <3>1, Assoc
  <2>4. l = Marshal[v] \o c
    BY <2>1, <2>3, Zenon
  <2>5. Len(Marshal[v]) <= k + 1 /\ Len(Bytes(ws)) <= k
    BY <2>1
  <2>6. R[c][Len(ws)] = Ok(Elems(ws), b)
    BY <2>1, <2>5 DEF Reads, R
  <2> HIDE DEF c
  <2>7. ReadWith(R, Marshal[v] \o c) = Ok(Unmarked[v], c)
    BY <2>1, <2>2, <2>5, ReadValue DEF R
  <2> HIDE DEF l
  <2>8. readElem(R, l, n) = Ok(Elems(vs), b)
    <3>1. ReadWith(R, l).err = "none" /\ ReadWith(R, l).val = Unmarked[v] /\ ReadWith(R, l).rest = c
      BY <2>4, <2>7 DEF Ok
    <3>2. R[c][n - 1].err = "none" /\ R[c][n - 1].val = Elems(ws) /\ R[c][n - 1].rest = b
      BY <2>1, <2>6 DEF Ok
    <3>3. readElem(R, l, n) = Ok(<<Unmarked[v]>> \o Elems(ws), b)
      BY <3>1, <3>2 DEF readElem
    <3> QED BY <3>3, <2>1, Zenon
  <2>9. l \in Seq(Byte)
    BY <1>0 DEF l
  <2>10. k + 1 \in Nat /\ k + 1 # 0 /\ k + 1 - 1 = k
    OBVIOUS
  <2>11. readElems[k + 1][l][n] = readElem(readElems[k + 1 - 1], l, n)
    BY <2>1, <2>9, <2>10, readElemsAt
  <2>12. readElems[k + 1][l][n] = Ok(Elems(vs), b)
    BY <2>8, <2>10, <2>11 DEF R
  <2> QED BY <2>12 DEF l, n
<1> QED BY <1>1, <1>2

\* And it stops in elements that were cut one byte later.
LEMMA StopsNext ==
    ASSUME NEW k \in Nat, Reads(readElems[k], k), Stops(readElems[k], k)
    PROVE  Stops(readElems[k + 1], k + 1)
<1> SUFFICES ASSUME NEW vs \in Seq(Value), NEW p \in Torn(Byte, Bytes(vs)), Len(p) <= k + 1
             PROVE  readElems[k + 1][p][Len(vs)] \in EndOfStream
  BY DEF Stops
<1>1. p \in Seq(Byte) /\ Len(p) \in Nat /\ Len(p) < Len(Bytes(vs)) /\ Len(Bytes(vs)) \in Nat
  BY BytesType, TornLen
<1>2. vs # <<>>
  BY <1>1, BytesSmall
<1> DEFINE v  == vs[1]
           ws == Tail(vs)
           R  == readElems[k]
           n  == Len(vs)
<1>3. /\ v \in Value /\ ws \in Seq(Value) /\ n \in Nat /\ n # 0 /\ Len(ws) = n - 1
      /\ Bytes(vs) = Marshal[v] \o Bytes(ws)
      /\ Marshal[v] \in Seq(Byte) /\ Bytes(ws) \in Seq(Byte)
      /\ Len(Bytes(vs)) = Len(Marshal[v]) + Len(Bytes(ws))
      /\ Len(Marshal[v]) \in Nat /\ Len(Marshal[v]) >= 1 /\ Len(Bytes(ws)) \in Nat
  BY <1>2, FirstValue
<1> HIDE DEF v, ws, R, n
<1>4. readElems[k + 1][p][n] = readElem(R, p, n)
  <2>1. k + 1 \in Nat /\ k + 1 # 0 /\ k + 1 - 1 = k
    OBVIOUS
  <2>2. readElems[k + 1][p][n] = readElem(readElems[k + 1 - 1], p, n)
    BY <1>1, <1>3, <2>1, readElemsAt
  <2> QED BY <2>1, <2>2 DEF R
<1>5. CASE p \in Torn(Byte, Marshal[v])
  <2>1. ReadWith(R, p) \in EndOfStream
    BY <1>1, <1>3, <1>5, TornValue DEF R
  <2>2. ReadWith(R, p).err # "none"
    BY <2>1 DEF EndOfStream, Fail
  <2>3. readElem(R, p, n) = ReadWith(R, p)
    BY <2>2 DEF readElem
  <2> QED BY <2>1, <2>3, <1>4 DEF n
<1>6. CASE \E r \in Torn(Byte, Bytes(ws)) : p = Marshal[v] \o r
  <2>1. PICK r \in Torn(Byte, Bytes(ws)) : p = Marshal[v] \o r
    BY <1>6
  <2>2. r \in Seq(Byte) /\ Len(r) \in Nat
    BY <1>3, TornLen
  <2>3. Len(p) = Len(Marshal[v]) + Len(r)
    BY <1>3, <2>1, <2>2, ConcatType
  <2>4. Len(Marshal[v]) <= k + 1 /\ Len(r) <= k
    BY <1>1, <1>3, <2>2, <2>3
  <2>5. ReadWith(R, p) = Ok(Unmarked[v], r)
    BY <1>3, <2>1, <2>2, <2>4, ReadValue DEF R
  <2>6. R[r][n - 1] \in EndOfStream
    BY <1>3, <2>4 DEF Stops, R
  <2>7. ReadWith(R, p).err = "none" /\ ReadWith(R, p).rest = r
    BY <2>5 DEF Ok
  <2>8. R[r][n - 1].err # "none"
    BY <2>6 DEF EndOfStream, Fail
  <2>9. readElem(R, p, n) = R[r][n - 1]
    BY <2>7, <2>8 DEF readElem
  <2> QED BY <2>6, <2>9, <1>4 DEF n
<1>7. p \in Torn(Byte, Marshal[v] \o Bytes(ws))
  BY <1>3
<1> QED BY <1>3, <1>5, <1>6, <1>7, TornConcat

\* readElems reads all elements that are not longer than its bound, and stops at a cut.
LEMMA ElemsRead == \A k \in Nat : Reads(readElems[k], k) /\ Stops(readElems[k], k)
<1> DEFINE T == {k \in Nat : Reads(readElems[k], k) /\ Stops(readElems[k], k)}
<1>1. 0 \in T
  <2>1. ASSUME NEW vs \in Seq(Value), NEW b \in Seq(Byte), Len(Bytes(vs)) <= 0
        PROVE  readElems[0][Bytes(vs) \o b][Len(vs)] = Ok(Elems(vs), b)
    <3>1. vs = <<>>
      <4> SUFFICES ASSUME vs # <<>> PROVE FALSE
        OBVIOUS
      <4>1. /\ Len(Bytes(vs)) = Len(Marshal[vs[1]]) + Len(Bytes(Tail(vs)))
            /\ Len(Marshal[vs[1]]) \in Nat /\ Len(Marshal[vs[1]]) >= 1 /\ Len(Bytes(Tail(vs))) \in Nat
        BY FirstValue
      <4> QED BY <4>1, <2>1
    <3>2. Bytes(vs) \o b = b /\ Len(vs) = 0 /\ Elems(vs) = <<>>
      <4>1. Bytes(vs) = <<>>
        BY <3>1, BytesSmall
      <4> QED BY <3>1, <4>1 DEF Elems
    <3>3. readElems[0][b][0] = Ok(<<>>, b)
      BY readElemsAt
    <3> QED BY <3>2, <3>3
  <2>2. ASSUME NEW vs \in Seq(Value), NEW p \in Torn(Byte, Bytes(vs)), Len(p) <= 0
        PROVE  readElems[0][p][Len(vs)] \in EndOfStream
    <3>1. p \in Seq(Byte) /\ Len(p) \in Nat /\ Len(p) < Len(Bytes(vs)) /\ Len(Bytes(vs)) \in Nat
      BY BytesType, TornLen
    <3>2. vs # <<>>
      BY <3>1, BytesSmall
    <3>3. Len(vs) \in Nat /\ Len(vs) # 0
      BY <3>2, EmptySeq
    <3>4. readElems[0][p][Len(vs)] = Fail("EOF")
      BY <3>1, <3>3, readElemsAt
    <3> QED BY <3>4 DEF EndOfStream
  <2> QED BY <2>1, <2>2 DEF Reads, Stops
<1>2. ASSUME NEW k \in Nat, k \in T PROVE k + 1 \in T
  BY <1>2, ReadsNext, StopsNext
<1> HIDE DEF T
<1>3. Nat \subseteq T
  BY <1>1, <1>2, MarshalRec!SetInduction
<1> QED BY <1>3 DEF T

\* Read returns the value that Marshal wrote, at any depth of nesting and whatever
\* follows it, and leaves just what follows.
THEOREM ReadMarshal ==
    ASSUME NEW v \in Value, NEW b \in Seq(Byte)
    PROVE  Read(Marshal[v] \o b) = Ok(Unmarked[v], b)
<1> DEFINE k == Len(Marshal[v] \o b)
<1>1. k \in Nat /\ Len(Marshal[v]) <= k + 1
  <2>1. Marshal[v] \in Seq(Byte)
    BY MarshalType
  <2>2. k = Len(Marshal[v]) + Len(b) /\ Len(Marshal[v]) \in Nat /\ Len(b) \in Nat
    BY <2>1, ConcatType
  <2> HIDE DEF k
  <2> QED BY <2>2
<1> HIDE DEF k
<1>2. Reads(readElems[k], k)
  BY <1>1, ElemsRead
<1>3. ReadWith(readElems[k], Marshal[v] \o b) = Ok(Unmarked[v], b)
  BY <1>1, <1>2, ReadValue
<1> QED BY <1>3 DEF Read, k

\* Read returns the end of the stream for a frame that was cut off anywhere.
THEOREM ReadTorn ==
    ASSUME NEW v \in Value, NEW p \in Torn(Byte, Marshal[v])
    PROVE  Read(p) \in EndOfStream
<1>1. p \in Seq(Byte) /\ Len(p) \in Nat /\ Len(p) <= Len(p) + 1
  BY MarshalType, TornLen
<1>2. Stops(readElems[Len(p)], Len(p))
  BY <1>1, ElemsRead
<1>3. ReadWith(readElems[Len(p)], p) \in EndOfStream
  BY <1>1, <1>2, TornValue
<1> QED BY <1>3 DEF Read

-----------------------------------------------------------------------------
(* What Read returns, whatever the bytes.                                  *)

\* r is an error, or leaves a rest of b.
\* A reader of b leaves at most b.
Shortens(r, b) == r.err = "none" => r.rest \in Seq(Byte) /\ Len(r.rest) <= Len(b)

\* All the arguments of a request have a Str.
Worded(vs) == \E S : vs \in Seq(S) /\ \A x \in S : Text(x) \in Seq(Byte)

\* v has a Str, and so have its elements.
WellRead(v) == Text(v) \in Seq(Byte) /\ (v[1] = "*" /\ Len(v) = 2 => Worded(v[2]))

\* The type of the bytes that are left.
LEMMA SkipType ==
    ASSUME NEW b \in Seq(Byte), NEW n \in 0 .. Len(b)
    PROVE  Skip(b, n) \in Seq(Byte) /\ Len(Skip(b, n)) = Len(b) - n /\ Len(b) \in Nat
BY SplitSeq

\* What readLine returns, whatever the bytes.
LEMMA ReadLineType ==
    ASSUME NEW b \in Seq(Byte)
    PROVE  LET r == readLine(b) IN Shortens(r, b) /\ (r.err = "none" => r.val \in Seq(Byte))
<1> DEFINE n == CHOOSE i \in DOMAIN b : b[i] = "LF" /\ \A j \in 1 .. i - 1 : b[j] # "LF"
<1>1. CASE "LF" \notin ToSet(b)
  BY <1>1 DEF readLine, Fail, Shortens
<1>2. CASE "LF" \in ToSet(b)
  <2>1. n \in DOMAIN b /\ n >= 1 /\ n <= Len(b) /\ n \in Nat
    <3> DEFINE L == {i \in DOMAIN b : b[i] = "LF"}
    <3>1. L # {} /\ L \subseteq Nat /\ DOMAIN b = 1 .. Len(b)
      BY <1>2 DEF ToSet
    <3>2. PICK i \in L : \A j \in L : i <= j
      <4> HIDE DEF L
      <4> QED BY <3>1, MarshalRec!Least
    <3>3. \A j \in 1 .. i - 1 : j \in DOMAIN b /\ ~(i <= j)
      BY <3>1
    <3>4. b[i] = "LF" /\ i \in DOMAIN b /\ \A j \in 1 .. i - 1 : b[j] # "LF"
      BY <3>2, <3>3
    <3>5. n \in DOMAIN b
      BY <3>4
    <3> HIDE DEF n
    <3> QED BY <3>5, <3>1
  <2>2. readLine(b) = IF n < 2 \/ b[n - 1] # "CR" THEN Fail("malformed")
                      ELSE Ok(SubSeq(b, 1, n - 2), Skip(b, n))
    BY <1>2 DEF readLine
  <2> HIDE DEF n
  <2>3. CASE n < 2 \/ b[n - 1] # "CR"
    BY <2>2, <2>3 DEF Fail, Shortens
  <2>4. CASE ~(n < 2 \/ b[n - 1] # "CR")
    <3>1. readLine(b) = Ok(SubSeq(b, 1, n - 2), Skip(b, n))
      BY <2>2, <2>4
    <3>2. Skip(b, n) \in Seq(Byte) /\ Len(Skip(b, n)) = Len(b) - n /\ Len(b) \in Nat
      <4>1. n \in 0 .. Len(b)
        BY <2>1
      <4> QED BY <4>1, SkipType
    <3>3. n - 2 \in 0 .. Len(b)
      BY <2>1, <2>4
    <3>4. SubSeq(b, 1, n - 2) \in Seq(Byte)
      BY <3>3, SplitSeq
    <3>5. Len(Skip(b, n)) <= Len(b)
      BY <2>1, <3>2
    <3> QED BY <3>1, <3>2, <3>4, <3>5 DEF Ok, Shortens
  <2> QED BY <2>3, <2>4
<1> QED BY <1>1, <1>2

\* What readInteger returns, whatever the bytes.
LEMMA ReadIntegerType ==
    ASSUME NEW b \in Seq(Byte)
    PROVE  LET r == readInteger(b) IN Shortens(r, b) /\ (r.err = "none" => r.val \in Int)
<1> DEFINE line == readLine(b)
<1>1. Shortens(line, b)
  BY ReadLineType
<1>2. ParseInt(line.val) = NotAnInteger \/ ParseInt(line.val) \in Int
  BY NumeralAssumption DEF ParseInt
<1> HIDE DEF line
<1>3. readInteger(b) = IF line.err # "none" THEN line
                       ELSE IF ParseInt(line.val) = NotAnInteger THEN Fail("integer")
                       ELSE Ok(ParseInt(line.val), line.rest)
  BY DEF readInteger, line
<1>4. CASE line.err # "none"
  BY <1>3, <1>4 DEF Shortens
<1>5. CASE line.err = "none" /\ ParseInt(line.val) = NotAnInteger
  BY <1>3, <1>5 DEF Shortens, Fail
<1>6. CASE line.err = "none" /\ ParseInt(line.val) # NotAnInteger
  <2>1. readInteger(b) = Ok(ParseInt(line.val), line.rest)
    BY <1>3, <1>6
  <2> QED BY <2>1, <1>1, <1>2, <1>6 DEF Shortens, Ok
<1> QED BY <1>4, <1>5, <1>6

\* What readBulk returns, whatever the bytes.
LEMMA ReadBulkType ==
    ASSUME NEW b \in Seq(Byte)
    PROVE  LET r == readBulk(b)
           IN  Shortens(r, b) /\ (r.err = "none" => r.val = NullBulk \/ \E s \in Seq(Byte) : r.val = Bulk(s))
<1> DEFINE len  == readInteger(b)
           tail == readLine(Skip(len.rest, len.val))
<1>1. Shortens(len, b) /\ (len.err = "none" => len.val \in Int)
  BY ReadIntegerType
<1>2. readBulk(b) = IF len.err # "none" THEN len
                    ELSE IF len.val < 0 THEN Ok(NullBulk, len.rest)
                    ELSE IF len.val > 0 /\ len.rest = <<>> THEN Fail("EOF")
                    ELSE IF len.val > Len(len.rest) THEN Fail("UnexpectedEOF")
                    ELSE IF tail.err # "none" THEN tail
                    ELSE Ok(Bulk(SubSeq(len.rest, 1, len.val)), tail.rest)
  BY DEF readBulk
<1> HIDE DEF len
<1>3. CASE len.err # "none"
  BY <1>2, <1>3 DEF Shortens
<1>4. CASE len.err = "none" /\ len.val < 0
  <2>1. readBulk(b) = Ok(NullBulk, len.rest)
    BY <1>2, <1>4
  <2> QED BY <2>1, <1>1, <1>4 DEF Shortens, Ok
<1>5. CASE len.err = "none" /\ ~(len.val < 0) /\ (len.val > Len(len.rest) \/ (len.val > 0 /\ len.rest = <<>>))
  <2>1. readBulk(b) \in {Fail("EOF"), Fail("UnexpectedEOF")}
    BY <1>2, <1>5
  <2> QED BY <2>1 DEF Shortens, Fail
<1>6. CASE len.err = "none" /\ ~(len.val < 0) /\ ~(len.val > Len(len.rest) \/ (len.val > 0 /\ len.rest = <<>>))
  <2>1. readBulk(b) = IF tail.err # "none" THEN tail
                      ELSE Ok(Bulk(SubSeq(len.rest, 1, len.val)), tail.rest)
    BY <1>2, <1>6
  <2>2. len.rest \in Seq(Byte) /\ Len(len.rest) <= Len(b) /\ len.val \in 0 .. Len(len.rest) /\ Len(b) \in Nat
    BY <1>1, <1>6 DEF Shortens
  <2>3. Skip(len.rest, len.val) \in Seq(Byte) /\ Len(Skip(len.rest, len.val)) = Len(len.rest) - len.val
        /\ Len(len.rest) \in Nat
    BY <2>2, SkipType
  <2>4. Shortens(tail, Skip(len.rest, len.val))
    BY <2>3, ReadLineType
  <2>5. SubSeq(len.rest, 1, len.val) \in Seq(Byte)
    BY <2>2, SplitSeq
  <2> HIDE DEF tail
  <2>6. tail.err = "none" => tail.rest \in Seq(Byte) /\ Len(tail.rest) <= Len(b)
    BY <2>2, <2>3, <2>4 DEF Shortens
  <2>7. CASE tail.err # "none"
    BY <2>1, <2>7 DEF Shortens
  <2>8. CASE tail.err = "none"
    <3>1. readBulk(b) = Ok(Bulk(SubSeq(len.rest, 1, len.val)), tail.rest)
      BY <2>1, <2>8
    <3>2. readBulk(b).val = Bulk(SubSeq(len.rest, 1, len.val)) /\ readBulk(b).rest = tail.rest
      BY <3>1 DEF Ok
    <3>3. Shortens(readBulk(b), b)
      BY <3>2, <2>6, <2>8 DEF Shortens
    <3> QED BY <3>2, <3>3, <2>5
  <2> QED BY <2>7, <2>8
<1> QED BY <1>3, <1>4, <1>5, <1>6

\* The forms of values that Read returns have a Str.
LEMMA TextType ==
    ASSUME NEW s \in Seq(Byte)
    PROVE  /\ WellRead(<<"+", s>>) /\ WellRead(<<"-", s>>) /\ WellRead(<<"$", s>>)
           /\ WellRead(<<"$">>) /\ WellRead(<<"*">>)
           /\ \A n : WellRead(<<":", n>>)
           /\ \A vs : Worded(vs) => WellRead(<<"*", vs>>)
<1>0. <<>> \in Seq(Byte)
  OBVIOUS
<1>1. \A x, y : Len(<<x, y>>) = 2 /\ <<x, y>>[1] = x /\ <<x, y>>[2] = y
  OBVIOUS
<1>2. Text(<<"+", s>>) = s /\ Text(<<"-", s>>) = s /\ Text(<<"$", s>>) = s
  BY <1>1 DEF Text
<1>3. \A n : Text(<<":", n>>) = <<>> /\ Text(<<"*", n>>) = <<>>
  BY <1>1 DEF Text
<1>4. Len(<<"$">>) = 1 /\ Len(<<"*">>) = 1
  OBVIOUS
<1>5. Text(<<"$">>) = <<>> /\ Text(<<"*">>) = <<>>
  BY <1>4 DEF Text
<1>6. WellRead(<<"+", s>>) /\ WellRead(<<"-", s>>) /\ WellRead(<<"$", s>>)
  BY <1>1, <1>2 DEF WellRead
<1>7. WellRead(<<"$">>) /\ WellRead(<<"*">>)
  BY <1>0, <1>4, <1>5 DEF WellRead
<1>8. ASSUME NEW n PROVE WellRead(<<":", n>>)
  BY <1>0, <1>1, <1>3 DEF WellRead
<1>9. ASSUME NEW vs, Worded(vs) PROVE WellRead(<<"*", vs>>)
  BY <1>0, <1>1, <1>3, <1>9 DEF WellRead
<1> QED BY <1>6, <1>7, <1>8, <1>9

\* R reads elements that have a Str, from whatever bytes.
Typed(R) ==
    \A b \in Seq(Byte), n \in Nat :
        LET r == R[b][n] IN Shortens(r, b) /\ (r.err = "none" => Worded(r.val))

\* What readArray returns, whatever the bytes.
LEMMA ReadArrayType ==
    ASSUME NEW R, Typed(R), NEW b \in Seq(Byte)
    PROVE  LET r == readArray(R, b)
           IN  Shortens(r, b) /\ (r.err = "none" => r.val = <<"*">> \/ \E vs : Worded(vs) /\ r.val = <<"*", vs>>)
<1> DEFINE len == readInteger(b)
           vs  == R[len.rest][len.val]
<1>1. Shortens(len, b) /\ (len.err = "none" => len.val \in Int)
  BY ReadIntegerType
<1>2. readArray(R, b) = IF len.err # "none" THEN len
                        ELSE IF len.val < 0 THEN Ok(NullArray, len.rest)
                        ELSE IF vs.err # "none" THEN vs
                        ELSE Ok(Array(vs.val), vs.rest)
  BY DEF readArray
<1> HIDE DEF len
<1>3. CASE len.err # "none"
  BY <1>2, <1>3 DEF Shortens
<1>4. CASE len.err = "none" /\ len.val < 0
  <2>1. readArray(R, b) = Ok(NullArray, len.rest)
    BY <1>2, <1>4
  <2> QED BY <2>1, <1>1, <1>4 DEF Shortens, Ok, NullArray
<1>5. CASE len.err = "none" /\ ~(len.val < 0)
  <2>1. len.rest \in Seq(Byte) /\ len.val \in Nat /\ Len(len.rest) <= Len(b)
    BY <1>1, <1>5 DEF Shortens
  <2>2. Shortens(vs, len.rest) /\ (vs.err = "none" => Worded(vs.val))
    BY <2>1 DEF Typed
  <2> HIDE DEF vs
  <2>3. readArray(R, b) = IF vs.err # "none" THEN vs ELSE Ok(Array(vs.val), vs.rest)
    BY <1>2, <1>5
  <2>4. CASE vs.err # "none"
    BY <2>3, <2>4 DEF Shortens
  <2>5. CASE vs.err = "none"
    <3>1. readArray(R, b) = Ok(Array(vs.val), vs.rest)
      BY <2>3, <2>5
    <3>2. readArray(R, b).val = <<"*", vs.val>> /\ readArray(R, b).rest = vs.rest
      BY <3>1 DEF Ok, Array
    <3>3. vs.rest \in Seq(Byte) /\ Len(vs.rest) <= Len(b)
      <4>1. Len(b) \in Nat /\ Len(len.rest) \in Nat
        BY <2>1
      <4>2. vs.rest \in Seq(Byte) /\ Len(vs.rest) <= Len(len.rest)
        BY <2>2, <2>5 DEF Shortens
      <4>3. Len(vs.rest) \in Nat
        BY <4>2
      <4> QED BY <4>1, <4>2, <4>3, <2>1
    <3>4. Shortens(readArray(R, b), b)
      BY <3>2, <3>3 DEF Shortens
    <3> QED BY <3>2, <3>4, <2>2, <2>5
  <2> QED BY <2>4, <2>5
<1> QED BY <1>3, <1>4, <1>5

\* What Read returns if R reads the elements, whatever the bytes.
LEMMA ReadWithType ==
    ASSUME NEW R, Typed(R), NEW b \in Seq(Byte)
    PROVE  LET r == ReadWith(R, b) IN Shortens(r, b) /\ (r.err = "none" => WellRead(r.val) /\ Len(r.rest) < Len(b))
<1>1. CASE b = <<>>
  BY <1>1 DEF ReadWith, Fail, Shortens
<1>2. CASE b # <<>>
  <2> DEFINE r == ReadWith(R, b)
  <2>1. Tail(b) \in Seq(Byte) /\ Len(Tail(b)) = Len(b) - 1 /\ Len(b) \in Nat
    BY <1>2
  <2>2. ASSUME NEW q, Shortens(q, Tail(b)) PROVE Shortens(q, b) /\ (q.err = "none" => Len(q.rest) < Len(b))
    <3>1. q.err = "none" => q.rest \in Seq(Byte) /\ Len(q.rest) <= Len(Tail(b)) /\ Len(q.rest) \in Nat
      BY <2>2 DEF Shortens
    <3> QED BY <3>1, <2>1 DEF Shortens
  <2>3. CASE b[1] = "*"
    <3>1. r = readArray(R, Tail(b))
      BY <1>2, <2>3 DEF ReadWith
    <3>2. Shortens(r, Tail(b)) /\ (r.err = "none" => r.val = <<"*">> \/ \E vs : Worded(vs) /\ r.val = <<"*", vs>>)
      BY <3>1, <2>1, ReadArrayType
    <3> HIDE DEF r
    <3>3. r.err = "none" => WellRead(r.val)
      BY <3>2, TextType, EmptySeq
    <3> QED BY <3>2, <3>3, <2>2 DEF r
  <2>4. CASE b[1] = "$"
    <3>1. r = readBulk(Tail(b))
      BY <1>2, <2>4 DEF ReadWith
    <3>2. Shortens(r, Tail(b)) /\ (r.err = "none" => r.val = NullBulk \/ \E s \in Seq(Byte) : r.val = Bulk(s))
      BY <3>1, <2>1, ReadBulkType
    <3> HIDE DEF r
    <3>3. r.err = "none" => WellRead(r.val)
      BY <3>2, TextType, EmptySeq DEF NullBulk, Bulk
    <3> QED BY <3>2, <3>3, <2>2 DEF r
  <2>5. CASE b[1] \in {"+", "-"}
    <3> DEFINE line == readLine(Tail(b))
    <3>1. r = asValue(b[1], line)
      BY <1>2, <2>5 DEF ReadWith
    <3>2. Shortens(line, Tail(b)) /\ (line.err = "none" => line.val \in Seq(Byte))
      BY <2>1, ReadLineType
    <3> HIDE DEF r, line
    <3>3. r = IF line.err # "none" THEN line ELSE Ok(<<b[1], line.val>>, line.rest)
      BY <3>1 DEF asValue
    <3>4. CASE line.err # "none"
      BY <3>3, <3>4 DEF Shortens, r
    <3>5. CASE line.err = "none"
      <4>1. r.err = "none" /\ r.val = <<b[1], line.val>> /\ r.rest = line.rest
        BY <3>3, <3>5 DEF Ok
      <4>2. WellRead(r.val)
        BY <4>1, <3>2, <3>5, <2>5, TextType
      <4>3. Shortens(r, Tail(b))
        BY <4>1, <3>2, <3>5 DEF Shortens
      <4> QED BY <4>2, <4>3, <2>2 DEF r
    <3> QED BY <3>4, <3>5
  <2>6. CASE b[1] = ":"
    <3> DEFINE line == readInteger(Tail(b))
    <3>1. r = asValue(":", line)
      BY <1>2, <2>6 DEF ReadWith
    <3>2. Shortens(line, Tail(b))
      BY <2>1, ReadIntegerType
    <3> HIDE DEF r, line
    <3>3. r = IF line.err # "none" THEN line ELSE Ok(<<":", line.val>>, line.rest)
      BY <3>1 DEF asValue
    <3>4. CASE line.err # "none"
      BY <3>3, <3>4 DEF Shortens, r
    <3>5. CASE line.err = "none"
      <4>1. r.err = "none" /\ r.val = <<":", line.val>> /\ r.rest = line.rest
        BY <3>3, <3>5 DEF Ok
      <4>2. WellRead(r.val)
        BY <4>1, TextType, EmptySeq
      <4>3. Shortens(r, Tail(b))
        BY <4>1, <3>2, <3>5 DEF Shortens
      <4> QED BY <4>2, <4>3, <2>2 DEF r
    <3> QED BY <3>4, <3>5
  <2>7. CASE b[1] \notin {"*", "$", "+", "-", ":"}
    <3>1. r = Fail("unknown type")
      BY <1>2, <2>7 DEF ReadWith
    <3> HIDE DEF r
    <3>2. r.err # "none"
      BY <3>1 DEF Fail
    <3> QED BY <3>2 DEF Shortens, r
  <2> QED BY <2>3, <2>4, <2>5, <2>6, <2>7
<1> QED BY <1>1, <1>2

\* What readElems returns with a bound of k, from what it returns with one less.
LEMMA TypedNext ==
    ASSUME NEW k \in Nat, k # 0, Typed(readElems[k - 1])
    PROVE  Typed(readElems[k])
<1> SUFFICES ASSUME NEW b \in Seq(Byte), NEW n \in Nat
             PROVE  LET r == readElems[k][b][n] IN Shortens(r, b) /\ (r.err = "none" => Worded(r.val))
  BY DEF Typed
<1> DEFINE R  == readElems[k - 1]
           v  == ReadWith(R, b)
           vs == R[v.rest][n - 1]
           r  == readElems[k][b][n]
<1>1. CASE n = 0
  <2>1. r = Ok(<<>>, b)
    BY <1>1, readElemsAt
  <2>2. Worded(<<>>)
    <3>1. <<>> \in Seq({})
      OBVIOUS
    <3> QED BY <3>1 DEF Worded
  <2>3. Len(b) \in Nat
    OBVIOUS
  <2> HIDE DEF r
  <2>4. Shortens(r, b) /\ (r.err = "none" => Worded(r.val))
    BY <2>1, <2>2, <2>3 DEF Ok, Shortens
  <2> QED BY <2>4 DEF r
<1>2. CASE n # 0
  <2>1. r = readElem(R, b, n)
    BY <1>2, readElemsAt
  <2>2. Shortens(v, b) /\ (v.err = "none" => WellRead(v.val) /\ Len(v.rest) < Len(b))
    BY ReadWithType
  <2>3. readElem(R, b, n) = IF v.err # "none" THEN v
                            ELSE IF vs.err # "none" THEN vs
                            ELSE Ok(<<v.val>> \o vs.val, vs.rest)
    BY DEF readElem
  <2>4. v.err = "none" => Shortens(vs, v.rest) /\ (vs.err = "none" => Worded(vs.val))
    <3>1. n - 1 \in Nat
      BY <1>2
    <3>2. v.err = "none" => v.rest \in Seq(Byte)
      BY <2>2 DEF Shortens
    <3> HIDE DEF v, R
    <3> QED BY <3>1, <3>2 DEF Typed, R
  <2> HIDE DEF r, v, vs, R
  <2>5. CASE v.err # "none"
    <3>1. r = v
      BY <2>1, <2>3, <2>5
    <3> QED BY <3>1, <2>5 DEF Shortens, r
  <2>6. CASE v.err = "none" /\ vs.err # "none"
    <3>1. r = vs
      BY <2>1, <2>3, <2>6
    <3> QED BY <3>1, <2>6 DEF Shortens, r
  <2>7. CASE v.err = "none" /\ vs.err = "none"
    <3>1. r = Ok(<<v.val>> \o vs.val, vs.rest)
      BY <2>1, <2>3, <2>7
    <3>2. r.val = <<v.val>> \o vs.val /\ r.rest = vs.rest
      BY <3>1 DEF Ok
    <3>3. Worded(r.val)
      <4>1. PICK S : vs.val \in Seq(S) /\ \A x \in S : Text(x) \in Seq(Byte)
        BY <2>4, <2>7 DEF Worded
      <4> DEFINE S2 == S \union {v.val}
      <4>2. \A x \in S2 : Text(x) \in Seq(Byte)
        BY <4>1, <2>2, <2>7 DEF WellRead
      <4>3. vs.val \in Seq(S2) /\ v.val \in S2
        BY <4>1, SeqMonotonic
      <4> HIDE DEF S2
      <4>4. <<v.val>> \o vs.val \in Seq(S2)
        BY <4>3, TailConcat
      <4> QED BY <3>2, <4>2, <4>4 DEF Worded
    <3>4. vs.rest \in Seq(Byte) /\ Len(vs.rest) <= Len(b)
      <4>1. vs.rest \in Seq(Byte) /\ Len(vs.rest) <= Len(v.rest) /\ v.rest \in Seq(Byte) /\ Len(v.rest) <= Len(b)
        BY <2>2, <2>4, <2>7 DEF Shortens
      <4>2. Len(vs.rest) \in Nat /\ Len(v.rest) \in Nat /\ Len(b) \in Nat
        BY <4>1
      <4> QED BY <4>1, <4>2
    <3>5. Shortens(r, b)
      BY <3>2, <3>4 DEF Shortens
    <3> QED BY <3>3, <3>5 DEF r
  <2> QED BY <2>5, <2>6, <2>7
<1> QED BY <1>1, <1>2

\* What readElems returns, whatever the bytes and the bound.
LEMMA ElemsTyped == \A k \in Nat : Typed(readElems[k])
<1> DEFINE T == {k \in Nat : Typed(readElems[k])}
<1>1. 0 \in T
  <2> SUFFICES ASSUME NEW b \in Seq(Byte), NEW n \in Nat
               PROVE  LET r == readElems[0][b][n] IN Shortens(r, b) /\ (r.err = "none" => Worded(r.val))
    BY DEF Typed
  <2>1. readElems[0][b][n] = Ok(<<>>, b) \/ readElems[0][b][n] = Fail("EOF")
    BY readElemsAt
  <2>2. Worded(<<>>)
    <3>1. <<>> \in Seq({})
      OBVIOUS
    <3> QED BY <3>1 DEF Worded
  <2>3. Len(b) \in Nat
    OBVIOUS
  <2> DEFINE r == readElems[0][b][n]
  <2> HIDE DEF r
  <2>4. r = Ok(<<>>, b) \/ r = Fail("EOF")
    BY <2>1 DEF r
  <2>5. Shortens(r, b) /\ (r.err = "none" => Worded(r.val))
    BY <2>4, <2>2, <2>3 DEF Ok, Fail, Shortens
  <2> QED BY <2>5 DEF r
<1>2. ASSUME NEW k \in Nat, k \in T PROVE k + 1 \in T
  <2>1. k + 1 \in Nat /\ k + 1 # 0 /\ k + 1 - 1 = k
    OBVIOUS
  <2>2. Typed(readElems[k + 1 - 1])
    BY <1>2, <2>1
  <2>3. Typed(readElems[k + 1])
    BY <2>1, <2>2, TypedNext
  <2> QED BY <2>1, <2>3
<1> HIDE DEF T
<1>3. Nat \subseteq T
  BY <1>1, <1>2, MarshalRec!SetInduction
<1> QED BY <1>3 DEF T

\* Read returns values with a Str, and never more bytes than it was given.
LEMMA ReadType ==
    ASSUME NEW b \in Seq(Byte)
    PROVE  LET r == Read(b) IN r.err = "none" => WellRead(r.val) /\ r.rest \in Seq(Byte) /\ Len(r.rest) <= Len(b)
<1>1. Len(b) \in Nat
  OBVIOUS
<1>2. Typed(readElems[Len(b)])
  BY <1>1, ElemsTyped
<1> DEFINE r == ReadWith(readElems[Len(b)], b)
<1>3. Shortens(r, b) /\ (r.err = "none" => WellRead(r.val) /\ Len(r.rest) < Len(b))
  BY <1>2, ReadWithType
<1> HIDE DEF r
<1>4. r.err = "none" => WellRead(r.val) /\ r.rest \in Seq(Byte) /\ Len(r.rest) <= Len(b)
  BY <1>3 DEF Shortens
<1> QED BY <1>4 DEF Read, r
=============================================================================
