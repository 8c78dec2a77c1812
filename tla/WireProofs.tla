----------------------------- MODULE WireProofs -----------------------------
(***************************************************************************)
(* The properties of Wire, proved for any values and frames, streams of any *)
(* length, any int64 and any unit of time: MaxFrames, MaxBytes and MaxTail *)
(* may be anything.                                                        *)
(*                                                                         *)
(* WireInv adds to InStep and NothingFromFragment what the stream consists *)
(* of (Layout) and where in it the reader is (Position): between two       *)
(* frames, until it comes to a fragment.  With RespProofs this decides what *)
(* the next Read returns.  The options of SET and their expiries are facts *)
(* about all sequences of words; the invariant only adds that what is read *)
(* is such a sequence (ReadOK).                                            *)
(***************************************************************************)
EXTENDS RespProofs

-----------------------------------------------------------------------------
(* The stream.                                                             *)

\* The bytes of the first i frames.
Upto(fs, i) == Bytes(SubSeq(fs, 1, i))

\* The first i frames and their bytes.
LEMMA UptoType ==
    ASSUME NEW fs \in Seq(Value), NEW i \in 0 .. Len(fs)
    PROVE  /\ SubSeq(fs, 1, i) \in Seq(Value) /\ Len(SubSeq(fs, 1, i)) = i
           /\ Upto(fs, i) \in Seq(Byte) /\ Len(Upto(fs, i)) \in Nat
<1>1. SubSeq(fs, 1, i) \in Seq(Value) /\ Len(SubSeq(fs, 1, i)) = i
  BY SplitSeq
<1>2. Bytes(SubSeq(fs, 1, i)) \in Seq(Byte) /\ Len(Bytes(SubSeq(fs, 1, i))) \in Nat
  BY <1>1, BytesType
<1> QED BY <1>1, <1>2 DEF Upto

\* The bytes of the frames before, and those of the frames from there on.
LEMMA UptoSplit ==
    ASSUME NEW fs \in Seq(Value), NEW j \in 0 .. Len(fs), NEW i \in 0 .. j
    PROVE  \E r \in Seq(Byte) : Upto(fs, j) = Upto(fs, i) \o r
<1>1. Len(fs) \in Nat /\ i \in 0 .. Len(fs) /\ i \in Nat /\ j \in Nat /\ i <= j
  OBVIOUS
<1> DEFINE a == SubSeq(fs, 1, i)
           b == SubSeq(fs, i + 1, j)
           c == SubSeq(fs, 1, j)
<1>2. a \in Seq(Value) /\ Len(a) = i /\ \A k \in 1 .. i : a[k] = fs[k]
  BY <1>1
<1>3. b \in Seq(Value) /\ Len(b) = j - i /\ \A k \in 1 .. j - i : b[k] = fs[i + k]
  <2>1. b \in Seq(Value) /\ Len(b) = j - i
    BY <1>1
  <2>2. ASSUME NEW k \in 1 .. j - i PROVE b[k] = fs[i + k]
    <3>1. b[k] = fs[(i + 1) + k - 1]
      BY <1>1
    <3>2. (i + 1) + k - 1 = i + k
      OBVIOUS
    <3> QED BY <3>1, <3>2
  <2> QED BY <2>1, <2>2
<1>4. c \in Seq(Value) /\ Len(c) = j /\ \A k \in 1 .. j : c[k] = fs[k]
  BY <1>1
<1> HIDE DEF a, b, c
<1>5. a \o b \in Seq(Value) /\ Len(a \o b) = j
  <2>1. a \o b \in Seq(Value) /\ Len(a \o b) = Len(a) + Len(b)
    BY <1>2, <1>3, ConcatType
  <2> QED BY <2>1, <1>1, <1>2, <1>3
<1>6. ASSUME NEW k \in 1 .. j PROVE (a \o b)[k] = c[k]
  <2>1. CASE k <= i
    <3>1. (a \o b)[k] = a[k]
      BY <1>2, <1>3, <2>1
    <3> QED BY <3>1, <1>2, <1>4, <2>1
  <2>2. CASE k > i
    <3>1. (a \o b)[k] = b[k - i]
      BY <1>2, <1>3, <2>2
    <3>2. k - i \in 1 .. j - i /\ i + (k - i) = k
      BY <2>2
    <3>3. b[k - i] = fs[i + (k - i)]
      BY <3>2, <1>3
    <3> QED BY <3>1, <3>2, <3>3, <1>4
  <2>3. k <= i \/ k > i
    BY <1>1
  <2> QED BY <2>1, <2>2, <2>3
<1>7. a \o b = c
  BY <1>4, <1>5, <1>6, SeqEqual
<1>8. Bytes(c) = Bytes(a) \o Bytes(b)
  BY <1>2, <1>3, <1>7, BytesConcat
<1>9. Bytes(b) \in Seq(Byte)
  BY <1>3, BytesType
<1> QED BY <1>8, <1>9 DEF Upto, a, c

\* One frame more.
LEMMA UptoNext ==
    ASSUME NEW fs \in Seq(Value), NEW i \in 0 .. Len(fs) - 1
    PROVE  /\ fs[i + 1] \in Value /\ i + 1 \in 0 .. Len(fs)
           /\ Marshal[fs[i + 1]] \in Seq(Byte)
           /\ Upto(fs, i + 1) = Upto(fs, i) \o Marshal[fs[i + 1]]
<1> DEFINE a == SubSeq(fs, 1, i)
           c == SubSeq(fs, 1, i + 1)
           x == fs[i + 1]
<1>1. Len(fs) \in Nat /\ i \in Nat /\ i + 1 \in 1 .. Len(fs) /\ x \in Value
  OBVIOUS
<1>2. a \in Seq(Value) /\ Len(a) = i /\ \A k \in 1 .. i : a[k] = fs[k]
  BY <1>1
<1>3. c \in Seq(Value) /\ Len(c) = i + 1 /\ \A k \in 1 .. i + 1 : c[k] = fs[k]
  BY <1>1
<1>4. <<x>> \in Seq(Value) /\ Len(<<x>>) = 1
  BY <1>1
<1>5. c = a \o <<x>>
  <2> HIDE DEF a, c
  <2>1. a \o <<x>> \in Seq(Value) /\ Len(a \o <<x>>) = i + 1
    BY <1>2, <1>4
  <2>2. ASSUME NEW k \in 1 .. i + 1 PROVE (a \o <<x>>)[k] = c[k]
    <3>1. CASE k <= i
      <4>1. (a \o <<x>>)[k] = a[k]
        BY <1>2, <1>4, <3>1
      <4> QED BY <4>1, <1>2, <1>3, <3>1
    <3>2. CASE k = i + 1
      <4>1. (a \o <<x>>)[k] = x
        BY <1>2, <1>4, <3>2
      <4> QED BY <4>1, <1>3, <3>2
    <3>3. k <= i \/ k = i + 1
      BY <1>1
    <3> QED BY <3>1, <3>2, <3>3
  <2> QED BY <1>3, <2>1, <2>2, SeqEqual
<1>6. Bytes(c) = Bytes(a) \o Bytes(<<x>>)
  <2> HIDE DEF a, c, x
  <2> QED BY <1>2, <1>4, <1>5, BytesConcat
<1>7. Bytes(<<x>>) = Marshal[x] /\ Marshal[x] \in Seq(Byte)
  BY <1>1, BytesSmall, MarshalType
<1>8. Upto(fs, i + 1) = Upto(fs, i) \o Marshal[x]
  BY <1>6, <1>7 DEF Upto
<1> QED BY <1>1, <1>7, <1>8

\* All frames, and none.
LEMMA UptoAll ==
    ASSUME NEW fs \in Seq(Value)
    PROVE  Upto(fs, Len(fs)) = Bytes(fs) /\ Upto(fs, 0) = <<>>
<1>1. SubSeq(fs, 1, Len(fs)) = fs
  <2>1. SubSeq(fs, 1, Len(fs)) \in Seq(Value) /\ Len(SubSeq(fs, 1, Len(fs))) = Len(fs)
    OBVIOUS
  <2>2. \A k \in 1 .. Len(fs) : SubSeq(fs, 1, Len(fs))[k] = fs[k]
    OBVIOUS
  <2> QED BY <2>1, <2>2, SeqEqual
<1>2. SubSeq(fs, 1, 0) = <<>>
  OBVIOUS
<1> QED BY <1>1, <1>2, BytesSmall DEF Upto

\* Frames that are added change nothing before them.
LEMMA UptoStays ==
    ASSUME NEW fs \in Seq(Value), NEW gs \in Seq(Value), NEW i \in 0 .. Len(fs)
    PROVE  Upto(fs \o gs, i) = Upto(fs, i)
<1> DEFINE h == fs \o gs
<1>1. h \in Seq(Value) /\ Len(h) = Len(fs) + Len(gs) /\ Len(fs) \in Nat /\ Len(gs) \in Nat
  BY ConcatType
<1>2. \A k \in 1 .. Len(fs) : h[k] = fs[k]
  BY Concat
<1> HIDE DEF h
<1>3. SubSeq(h, 1, i) \in Seq(Value) /\ Len(SubSeq(h, 1, i)) = i /\ \A k \in 1 .. i : SubSeq(h, 1, i)[k] = h[k]
  BY <1>1
<1>4. SubSeq(fs, 1, i) \in Seq(Value) /\ Len(SubSeq(fs, 1, i)) = i /\ \A k \in 1 .. i : SubSeq(fs, 1, i)[k] = fs[k]
  BY <1>1
<1>5. \A k \in 1 .. i : SubSeq(h, 1, i)[k] = SubSeq(fs, 1, i)[k]
  BY <1>1, <1>2, <1>3, <1>4
<1>6. SubSeq(h, 1, i) = SubSeq(fs, 1, i)
  BY <1>3, <1>4, <1>5, SeqEqual
<1> QED BY <1>6 DEF Upto, h

\* The first n bytes of a stream, n being in the middle of a frame.
LEMMA CutConcat ==
    ASSUME NEW a \in Seq(Byte), NEW y \in Seq(Byte), NEW r \in Seq(Byte), NEW n \in Nat,
           Len(a) <= n, n < Len(a \o y)
    PROVE  \E p \in Torn(Byte, y) : SubSeq((a \o y) \o r, 1, n) = a \o p
<1> DEFINE k == n - Len(a)
           p == SubSeq(y, 1, k)
           c == (a \o y) \o r
           d == a \o p
<1>1. a \o y \in Seq(Byte) /\ Len(a \o y) = Len(a) + Len(y) /\ Len(a) \in Nat /\ Len(y) \in Nat
  BY ConcatType
<1>2. k \in 0 .. Len(y) /\ k < Len(y) /\ k \in Nat /\ Len(a) + k = n
  BY <1>1
<1>3. p \in Seq(Byte) /\ Len(p) = k /\ Skip(y, k) \in Seq(Byte) /\ Len(Skip(y, k)) = Len(y) - k
      /\ y = p \o Skip(y, k) /\ \A i \in 1 .. k : p[i] = y[i]
  <2> HIDE DEF k
  <2>1. /\ p \in Seq(Byte) /\ Len(p) = k /\ Skip(y, k) \in Seq(Byte) /\ Len(Skip(y, k)) = Len(y) - k
        /\ y = p \o Skip(y, k)
    BY <1>2, SplitSeq
  <2>2. \A i \in 1 .. k : p[i] = y[i]
    BY <1>2
  <2> QED BY <2>1, <2>2
<1>4. p \in Torn(Byte, y)
  <2>1. Skip(y, k) # <<>>
    <3> HIDE DEF k
    <3> QED BY <1>1, <1>2, <1>3
  <2> HIDE DEF p, k
  <2> QED BY <2>1, <1>3 DEF Torn
<1> HIDE DEF p, k
<1>5. c \in Seq(Byte) /\ Len(c) = Len(a \o y) + Len(r) /\ Len(r) \in Nat
      /\ \A i \in 1 .. Len(a \o y) : c[i] = (a \o y)[i]
  <2> DEFINE ay == a \o y
  <2>1. ay \in Seq(Byte)
    BY <1>1
  <2> HIDE DEF ay
  <2>2. ay \o r \in Seq(Byte) /\ Len(ay \o r) = Len(ay) + Len(r) /\ Len(r) \in Nat
        /\ \A i \in 1 .. Len(ay) : (ay \o r)[i] = ay[i]
    BY <2>1, Concat
  <2> QED BY <2>2 DEF ay
<1>6. d \in Seq(Byte) /\ Len(d) = n
  <2>1. d \in Seq(Byte) /\ Len(d) = Len(a) + Len(p)
    BY <1>3, ConcatType
  <2> QED BY <2>1, <1>2, <1>3
<1>7. ASSUME NEW i \in 1 .. n PROVE c[i] = d[i]
  <2>1. i \in 1 .. Len(a \o y)
    BY <1>1
  <2>2. c[i] = (a \o y)[i]
    BY <1>5, <2>1
  <2>3. CASE i <= Len(a)
    <3>1. (a \o y)[i] = a[i] /\ d[i] = a[i]
      BY <2>3, <1>1, <1>3
    <3> QED BY <2>2, <3>1
  <2>4. CASE i > Len(a)
    <3>1. i - Len(a) \in 1 .. k
      BY <2>4, <1>1, <1>2
    <3>2. (a \o y)[i] = y[i - Len(a)]
      BY <2>4, <1>1, <1>2
    <3>3. d[i] = p[i - Len(a)]
      BY <2>4, <1>1, <1>2, <1>3
    <3> QED BY <2>2, <3>1, <3>2, <3>3, <1>3
  <2>5. i <= Len(a) \/ i > Len(a)
    BY <1>1
  <2> QED BY <2>3, <2>4, <2>5
<1> HIDE DEF c, d
<1>8. SubSeq(c, 1, n) \in Seq(Byte) /\ Len(SubSeq(c, 1, n)) = n /\ \A i \in 1 .. n : SubSeq(c, 1, n)[i] = c[i]
  BY <1>1, <1>5
<1>9. SubSeq(c, 1, n) = d
  BY <1>6, <1>7, <1>8, SeqEqual
<1> QED BY <1>4, <1>9 DEF c, d

-----------------------------------------------------------------------------
(* The inductive invariant.                                                *)

\* The type invariant.
TypeOK ==
    /\ stream \in Seq(Byte) /\ frames \in Seq(Value)
    /\ whole \in 0 .. Len(frames) /\ cut \in 0 .. 2 /\ pos \in 0 .. Len(stream)

\* All that was read has the form of a value.
ReadOK == \E X : got \in Seq(X) /\ \A x \in X : WellRead(x)

\* The stream is the frames that are whole and what follows them: nothing, or what the
\* cut has left of the next one, or that and frames after it.
LaidOut(s, fs, w, c, rest) ==
    /\ s = Upto(fs, w) \o rest
    /\ c = 0 => w = Len(fs) /\ rest = <<>>
    /\ c = 1 => w < Len(fs) /\ rest \in Torn(Byte, Marshal[fs[w + 1]])

Layout == \E rest \in Seq(Byte) : LaidOut(stream, frames, whole, cut, rest)

\* The reader is between two frames, until it has passed the whole ones.
Position == Len(got) <= whole => pos = Len(Upto(frames, Len(got)))

\* The reader has seen the end only if there is one.
Stopped == status \in {"EOF", "UnexpectedEOF"} => ended

\* The inductive invariant.
WireInv == TypeOK /\ ReadOK /\ Layout /\ Position /\ Stopped /\ InStep /\ NothingFromFragment

\* The number of values read.
LEMMA LenGot == ASSUME ReadOK PROVE Len(got) \in Nat
BY DEF ReadOK

\* The invariant holds at first.
LEMMA InitInv == Init => WireInv
<1> SUFFICES ASSUME Init PROVE WireInv
  OBVIOUS
<1>1. /\ stream = <<>> /\ pos = 0 /\ got = <<>> /\ status = "reading" /\ ended = FALSE
      /\ frames = <<>> /\ whole = 0 /\ cut = 0
  BY DEF Init
<1>2. frames \in Seq(Value) /\ stream \in Seq(Byte) /\ Len(frames) = 0 /\ Len(stream) = 0 /\ Len(got) = 0
  BY <1>1
<1>3. Upto(frames, 0) = <<>>
  BY <1>2, UptoAll
<1>4. TypeOK
  BY <1>1, <1>2 DEF TypeOK
<1>5. ReadOK
  <2>1. got \in Seq({})
    BY <1>1
  <2> QED BY <2>1 DEF ReadOK
<1>6. Layout
  <2>1. stream = Upto(frames, whole) \o <<>> /\ <<>> \in Seq(Byte)
    BY <1>1, <1>3
  <2> QED BY <2>1, <1>1, <1>2 DEF Layout, LaidOut
<1>7. Position
  BY <1>1, <1>2, <1>3 DEF Position
<1>8. Stopped /\ InStep /\ NothingFromFragment
  BY <1>1, <1>2 DEF Stopped, InStep, NothingFromFragment
<1> QED BY <1>4, <1>5, <1>6, <1>7, <1>8 DEF WireInv

\* Before the end, and unless something follows a fragment, the reader is not ahead.
LEMMA Reading == ASSUME WireInv, ~ended, cut < 2 PROVE status = "reading" /\ Len(got) <= whole
BY DEF WireInv, Stopped, NothingFromFragment

\* A frame is written: before a cut it follows the whole ones, after it the fragment.
LEMMA WriteInv == ASSUME WireInv, NEW v \in Values, Write(v) PROVE WireInv'
<1> USE DEF WireInv
<1> DEFINE e == Bytes(Frames[v])
<1>0. v \in Value /\ Frames[v] \in Seq(Value) /\ e \in Seq(Byte) /\ Encoding[v] = e
  <2>1. v \in Value
    BY ValuesAssumption
  <2>2. Frames[v] \in Seq(Value)
    BY <2>1, FramesType
  <2>3. e \in Seq(Byte)
    BY <2>2, BytesType
  <2> QED BY <2>1, <2>2, <2>3 DEF Encoding
<1>1. ~ended /\ stream' = stream \o e /\ UNCHANGED <<pos, got, status, ended>>
  BY <1>0 DEF Write
<1>2. Len(got) \in Nat
  BY LenGot
<1>3. TypeOK
  OBVIOUS
<1>4. ReadOK'
  BY <1>1 DEF ReadOK
<1>5. Stopped'
  BY <1>1 DEF Stopped
<1>6. stream' \in Seq(Byte) /\ pos' \in 0 .. Len(stream')
  <2>1. stream \in Seq(Byte) /\ pos \in 0 .. Len(stream)
    BY <1>3 DEF TypeOK
  <2> HIDE DEF e
  <2>2. stream' \in Seq(Byte) /\ Len(stream') = Len(stream) + Len(e) /\ Len(stream) \in Nat /\ Len(e) \in Nat
    BY <2>1, <1>0, <1>1, ConcatType
  <2> QED BY <2>1, <2>2, <1>1
<1>7. CASE cut = 0 /\ cut' = 0 /\ frames' = frames \o Frames[v] /\ whole' = Len(frames')
  <2>1. status = "reading" /\ Len(got) <= whole
    BY <1>1, <1>7, Reading
  <2>2. frames \in Seq(Value) /\ whole = Len(frames) /\ stream = Upto(frames, whole)
    <3>1. PICK rest \in Seq(Byte) : stream = Upto(frames, whole) \o rest /\ whole = Len(frames) /\ rest = <<>>
      BY <1>7 DEF Layout, LaidOut
    <3>2. frames \in Seq(Value) /\ whole \in 0 .. Len(frames)
      BY <1>3 DEF TypeOK
    <3>3. Upto(frames, whole) \in Seq(Byte)
      BY <3>2, UptoType
    <3> QED BY <3>1, <3>2, <3>3
  <2>3. frames' \in Seq(Value) /\ Len(frames') = Len(frames) + Len(Frames[v]) /\ Len(frames) \in Nat /\ Len(Frames[v]) \in Nat
    BY <2>2, <1>0, <1>7, ConcatType
  <2>4. \A i \in 1 .. Len(frames) : frames'[i] = frames[i]
    BY <2>2, <1>0, <1>7, Concat
  <2>5. stream' = Upto(frames', whole')
    <3>1. stream = Bytes(frames) /\ Upto(frames', whole') = Bytes(frames')
      BY <2>2, <2>3, <1>7, UptoAll
    <3>2. Bytes(frames') = Bytes(frames) \o e
      BY <2>2, <1>0, <1>7, BytesConcat
    <3> QED BY <3>1, <3>2, <1>1
  <2>6. Layout'
    <3>1. stream' = Upto(frames', whole') \o <<>> /\ <<>> \in Seq(Byte)
      BY <2>5, <1>6
    <3>2. LaidOut(stream', frames', whole', cut', <<>>)
      BY <3>1, <1>7 DEF LaidOut
    <3> QED BY <3>1, <3>2 DEF Layout
  <2>7. Position'
    <3>1. pos = Len(Upto(frames, Len(got)))
      BY <2>1 DEF Position
    <3>2. Len(got) \in 0 .. Len(frames)
      BY <2>1, <2>2, <1>2
    <3>3. Upto(frames', Len(got)) = Upto(frames, Len(got))
      BY <3>2, <2>2, <1>0, <1>7, UptoStays
    <3> QED BY <3>1, <3>3, <1>1 DEF Position
  <2>8. InStep'
    <3>1. \A i \in 1 .. Len(frames) : i <= Len(got) => got[i] = Unmarked[frames[i]]
      BY <2>2 DEF InStep
    <3>2. ASSUME NEW i \in 1 .. whole', i <= Len(got) PROVE got[i] = Unmarked[frames'[i]]
      <4>1. i \in 1 .. Len(frames)
        BY <3>2, <2>1, <2>2, <2>3, <1>2, <1>7
      <4> QED BY <4>1, <3>1, <3>2, <2>4
    <3> QED BY <3>2, <2>1, <1>1 DEF InStep
  <2>9. NothingFromFragment'
    <3>1. Len(got) <= whole'
      BY <2>1, <2>2, <2>3, <1>2, <1>7
    <3> QED BY <3>1, <2>1, <1>1 DEF NothingFromFragment
  <2>10. TypeOK'
    BY <2>3, <1>6, <1>7 DEF TypeOK
  <2> QED BY <2>6, <2>7, <2>8, <2>9, <2>10, <1>4, <1>5
<1>8. CASE cut = 1 /\ cut' = 2 /\ UNCHANGED <<frames, whole>>
  <2>1. status = "reading" /\ Len(got) <= whole
    BY <1>1, <1>8, Reading
  <2>2. TypeOK'
    BY <1>3, <1>6, <1>8 DEF TypeOK
  <2>3. Layout'
    <3>1. PICK rest \in Seq(Byte) : stream = Upto(frames, whole) \o rest
      BY DEF Layout, LaidOut
    <3>2. Upto(frames, whole) \in Seq(Byte)
      BY <1>3, UptoType DEF TypeOK
    <3>3. rest \o e \in Seq(Byte)
      BY <1>0, ConcatType
    <3>4. stream' = Upto(frames, whole) \o (rest \o e)
      BY <3>1, <3>2, <1>0, <1>1, Assoc
    <3>5. LaidOut(stream', frames', whole', cut', rest \o e)
      BY <3>4, <1>8 DEF LaidOut
    <3> QED BY <3>3, <3>5 DEF Layout
  <2>4. Position'
    BY <1>1, <1>8 DEF Position
  <2>5. InStep'
    BY <2>1, <1>1, <1>8 DEF InStep
  <2>6. NothingFromFragment'
    BY <1>8 DEF NothingFromFragment
  <2> QED BY <2>2, <2>3, <2>4, <2>5, <2>6, <1>4, <1>5
<1> QED BY <1>7, <1>8 DEF Write

\* A cut ends the stream inside of a frame, at or behind the reader.
LEMMA CutInv == ASSUME WireInv, NEW n \in pos .. Len(stream), Cut(n) PROVE WireInv'
<1> USE DEF WireInv
<1>1. /\ cut = 0 /\ ~ended /\ n < Len(stream) /\ stream' = SubSeq(stream, 1, n) /\ cut' = 1
      /\ UNCHANGED <<pos, got, status, ended, frames>>
  BY DEF Cut
<1>2. /\ stream \in Seq(Byte) /\ frames \in Seq(Value) /\ whole \in 0 .. Len(frames) /\ pos \in 0 .. Len(stream)
      /\ Len(stream) \in Nat /\ Len(frames) \in Nat /\ Len(got) \in Nat /\ n \in Nat /\ n \in 0 .. Len(stream) /\ pos <= n
  <2>1. stream \in Seq(Byte) /\ frames \in Seq(Value) /\ whole \in 0 .. Len(frames) /\ pos \in 0 .. Len(stream)
    BY DEF TypeOK
  <2>2. Len(got) \in Nat
    BY LenGot
  <2> QED BY <2>1, <2>2
<1>3. PICK m \in 0 .. Len(frames) - 1 : EndOf(m) <= n /\ n < EndOf(m + 1) /\ whole' = m
  BY DEF Cut
<1> DEFINE a == Upto(frames, m)
           y == Marshal[frames[m + 1]]
<1>4. /\ m \in 0 .. Len(frames) /\ m \in Nat /\ m < Len(frames) /\ m + 1 \in 0 .. Len(frames)
      /\ a \in Seq(Byte) /\ Len(a) \in Nat
      /\ y \in Seq(Byte) /\ Upto(frames, m + 1) = a \o y
  <2>1. m \in 0 .. Len(frames) /\ m \in Nat /\ m < Len(frames) /\ m + 1 \in 0 .. Len(frames)
    BY <1>2
  <2> QED BY <2>1, <1>2, UptoNext, UptoType
<1>5. Len(a) <= n /\ n < Len(a \o y)
  BY <1>3, <1>4 DEF EndOf, Upto
<1>6. status = "reading" /\ Len(got) <= whole
  BY <1>1, Reading
<1>7. stream = Upto(frames, Len(frames))
  <2>1. PICK rest \in Seq(Byte) : stream = Upto(frames, whole) \o rest /\ whole = Len(frames) /\ rest = <<>>
    BY <1>1 DEF Layout, LaidOut
  <2>2. Upto(frames, whole) \in Seq(Byte)
    BY <1>2, UptoType
  <2> QED BY <2>1, <2>2
<1>8. PICK r \in Seq(Byte) : stream = (a \o y) \o r
  <2>1. Len(frames) \in 0 .. Len(frames) /\ m + 1 \in 0 .. Len(frames)
    BY <1>2, <1>4
  <2>2. \E r \in Seq(Byte) : Upto(frames, Len(frames)) = Upto(frames, m + 1) \o r
    BY <2>1, <1>2, UptoSplit
  <2> QED BY <2>2, <1>4, <1>7
<1>9. PICK p \in Torn(Byte, y) : stream' = a \o p
  <2>0. a \in Seq(Byte) /\ y \in Seq(Byte) /\ r \in Seq(Byte) /\ n \in Nat
    BY <1>2, <1>4
  <2> HIDE DEF a, y
  <2>1. \E p \in Torn(Byte, y) : SubSeq((a \o y) \o r, 1, n) = a \o p
    BY <2>0, <1>5, CutConcat
  <2> QED BY <2>1, <1>1, <1>8
<1>10. stream' \in Seq(Byte) /\ Len(stream') = n
  BY <1>1, <1>2, SplitSeq
<1>11. TypeOK'
  BY <1>1, <1>2, <1>3, <1>4, <1>10 DEF TypeOK
<1>12. ReadOK' /\ Stopped'
  BY <1>1 DEF ReadOK, Stopped
<1>13. Layout'
  <2>1. p \in Seq(Byte)
    BY DEF Torn
  <2>2. LaidOut(stream', frames, m, 1, p)
    <3>1. m < Len(frames) /\ stream' = Upto(frames, m) \o p /\ p \in Torn(Byte, Marshal[frames[m + 1]])
      BY <1>4, <1>9
    <3> QED BY <3>1 DEF LaidOut
  <2>3. LaidOut(stream', frames', whole', cut', p)
    BY <2>2, <1>1, <1>3
  <2> QED BY <2>1, <2>3 DEF Layout
<1>14. pos = Len(Upto(frames, Len(got)))
  BY <1>6 DEF Position
<1>15. Len(got) <= m
  <2> SUFFICES ASSUME Len(got) > m PROVE FALSE
    BY <1>2, <1>4
  <2>1. Len(got) \in 0 .. Len(frames) /\ m + 1 \in 0 .. Len(got)
    BY <1>2, <1>4, <1>6
  <2>2. PICK q \in Seq(Byte) : Upto(frames, Len(got)) = Upto(frames, m + 1) \o q
    BY <2>1, <1>2, UptoSplit
  <2>3. a \o y \in Seq(Byte) /\ Len(a \o y) \in Nat
    BY <1>4, ConcatType
  <2>4. Upto(frames, Len(got)) = (a \o y) \o q
    BY <2>2, <1>4
  <2> HIDE DEF a, y
  <2>5. Len((a \o y) \o q) = Len(a \o y) + Len(q) /\ Len(q) \in Nat
    <3> DEFINE ay == a \o y
    <3>1. ay \in Seq(Byte)
      BY <2>3
    <3> HIDE DEF ay
    <3>2. Len(ay \o q) = Len(ay) + Len(q) /\ Len(q) \in Nat
      BY <3>1, ConcatType
    <3> QED BY <3>2 DEF ay
  <2>6. pos = Len(a \o y) + Len(q)
    BY <1>14, <2>4, <2>5
  <2> QED BY <2>3, <2>5, <2>6, <1>2, <1>5
<1>16. Position'
  BY <1>1, <1>14 DEF Position
<1>17. InStep'
  <2>1. \A i \in 1 .. whole : i <= Len(got) => got[i] = Unmarked[frames[i]]
    BY DEF InStep
  <2>2. ASSUME NEW i \in 1 .. m, i <= Len(got) PROVE got[i] = Unmarked[frames[i]]
    <3>1. i \in 1 .. whole
      BY <2>2, <1>2, <1>4, <1>6
    <3> QED BY <3>1, <2>1, <2>2
  <2> QED BY <2>2, <1>1, <1>3, <1>6 DEF InStep
<1>18. NothingFromFragment'
  BY <1>1, <1>3, <1>6, <1>15 DEF NothingFromFragment
<1> QED BY <1>11, <1>12, <1>13, <1>16, <1>17, <1>18

\* The end of the stream becomes visible.
LEMMA EndInv == ASSUME WireInv, End PROVE WireInv'
<1>1. ended' = TRUE /\ UNCHANGED <<stream, pos, got, status, frames, whole, cut>>
  BY DEF End
<1>2. Stopped'
  BY <1>1 DEF Stopped
<1>3. TypeOK' /\ ReadOK' /\ Position' /\ InStep' /\ NothingFromFragment'
  BY <1>1 DEF WireInv, TypeOK, ReadOK, Position, InStep, NothingFromFragment
<1>4. Layout'
  BY <1>1 DEF WireInv, Layout
<1> QED BY <1>2, <1>3, <1>4 DEF WireInv

\* Read returns a value, the bytes behind it are the next to be read.
LEMMA GotInv ==
    ASSUME WireInv, status = "reading", NEW w, WellRead(w), NEW rest \in Seq(Byte), Len(rest) <= Len(stream),
           got' = Append(got, w), pos' = Len(stream) - Len(rest),
           UNCHANGED <<stream, status, ended, frames, whole, cut>>
    PROVE  TypeOK' /\ ReadOK' /\ Layout' /\ Stopped' /\ Len(got') = Len(got) + 1 /\ Len(got) \in Nat
           /\ got'[Len(got) + 1] = w /\ \A i \in 1 .. Len(got) : got'[i] = got[i]
<1>1. TypeOK'
  <2>1. TypeOK
    BY DEF WireInv
  <2>2. pos' \in 0 .. Len(stream)
    BY <2>1 DEF TypeOK
  <2> QED BY <2>1, <2>2 DEF TypeOK
<1>2. PICK X : got \in Seq(X) /\ \A x \in X : WellRead(x)
  BY DEF WireInv, ReadOK
<1>3. /\ got' \in Seq(X \cup {w}) /\ Len(got') = Len(got) + 1 /\ Len(got) \in Nat
      /\ got'[Len(got) + 1] = w /\ \A i \in 1 .. Len(got) : got'[i] = got[i]
  <2>1. got \in Seq(X \cup {w}) /\ w \in X \cup {w}
    BY <1>2
  <2> QED BY <2>1
<1>4. ReadOK'
  <2>1. \A x \in X \cup {w} : WellRead(x)
    BY <1>2
  <2> QED BY <1>3, <2>1 DEF ReadOK
<1>5. Layout' /\ Stopped'
  BY DEF WireInv, Layout, Stopped
<1> QED BY <1>1, <1>3, <1>4, <1>5

\* Read returns the next whole frame; the end of the stream, if only a fragment is
\* left; or whatever frames behind a fragment make of it.
LEMMA ReadInv == ASSUME WireInv, ReadNext PROVE WireInv'
<1> DEFINE b == Skip(stream, pos)
           r == Read(b)
<1>1. /\ status = "reading" /\ (r.err \in {"EOF", "UnexpectedEOF"} => ended)
      /\ UNCHANGED <<stream, ended, frames, whole, cut>>
  BY DEF ReadNext
<1>2. r.err = "none" => got' = Append(got, r.val) /\ pos' = Len(stream) - Len(r.rest) /\ status' = status
  BY DEF ReadNext
<1>3. r.err # "none" => status' = r.err /\ UNCHANGED <<got, pos>>
  BY DEF ReadNext
<1>4. /\ stream \in Seq(Byte) /\ frames \in Seq(Value) /\ whole \in 0 .. Len(frames) /\ pos \in 0 .. Len(stream)
      /\ cut \in 0 .. 2 /\ Len(stream) \in Nat /\ Len(frames) \in Nat /\ Len(got) \in Nat
  <2>1. stream \in Seq(Byte) /\ frames \in Seq(Value) /\ whole \in 0 .. Len(frames) /\ pos \in 0 .. Len(stream) /\ cut \in 0 .. 2
    BY DEF WireInv, TypeOK
  <2>2. Len(got) \in Nat
    BY LenGot DEF WireInv
  <2> QED BY <2>1, <2>2
<1>5. b \in Seq(Byte) /\ Len(b) = Len(stream) - pos
  BY <1>4, SkipType
<1>6. r.err = "none" => WellRead(r.val) /\ r.rest \in Seq(Byte) /\ Len(r.rest) <= Len(stream)
  <2>1. r.err = "none" => WellRead(r.val) /\ r.rest \in Seq(Byte) /\ Len(r.rest) <= Len(b)
    BY <1>5, ReadType
  <2> HIDE DEF b, r
  <2>2. r.err = "none" => Len(r.rest) \in Nat
    BY <2>1
  <2> QED BY <2>1, <2>2, <1>4, <1>5
<1>7. PICK rest \in Seq(Byte) : LaidOut(stream, frames, whole, cut, rest)
  BY DEF WireInv, Layout
<1>8. InStep /\ NothingFromFragment /\ Position /\ Stopped
  BY DEF WireInv
\* A whole frame is next.
<1>9. CASE Len(got) < whole
  <2> DEFINE i == Len(got)
             v == frames[i + 1]
             a == Upto(frames, i)
             y == Marshal[v]
  <2>1. i \in 0 .. Len(frames) - 1 /\ i + 1 \in 0 .. whole
    BY <1>4, <1>9
  <2>2. v \in Value /\ y \in Seq(Byte) /\ Upto(frames, i + 1) = a \o y /\ a \in Seq(Byte) /\ Len(a) \in Nat
    <3>1. v \in Value /\ y \in Seq(Byte) /\ Upto(frames, i + 1) = a \o y
      BY <2>1, <1>4, UptoNext
    <3>2. i \in 0 .. Len(frames)
      BY <2>1, <1>4
    <3> QED BY <3>1, <3>2, <1>4, UptoType
  <2>3. PICK q \in Seq(Byte) : Upto(frames, whole) = (a \o y) \o q
    <3>1. \E q \in Seq(Byte) : Upto(frames, whole) = Upto(frames, i + 1) \o q
      BY <2>1, <1>4, UptoSplit
    <3> QED BY <3>1, <2>2
  <2> DEFINE c == q \o rest
  <2>4. c \in Seq(Byte) /\ y \o c \in Seq(Byte)
    <3>1. c \in Seq(Byte)
      BY ConcatType
    <3> HIDE DEF c, y
    <3> QED BY <3>1, <2>2, ConcatType
  <2>5. stream = a \o (y \o c)
    <3>1. stream = ((a \o y) \o q) \o rest
      BY <2>3, <1>7 DEF LaidOut
    <3> HIDE DEF a, y, v, i
    <3>2. a \o y \in Seq(Byte)
      BY <2>2, ConcatType
    <3>3. ((a \o y) \o q) \o rest = (a \o y) \o c
      <4> DEFINE ay == a \o y
      <4>1. ay \in Seq(Byte)
        BY <3>2
      <4> HIDE DEF ay
      <4>2. (ay \o q) \o rest = ay \o (q \o rest)
        BY <4>1, Assoc
      <4> QED BY <4>2 DEF ay
    <3> HIDE DEF c
    <3>4. (a \o y) \o c = a \o (y \o c)
      BY <2>2, <2>4, Assoc
    <3> QED BY <3>1, <3>3, <3>4
  <2>6. pos = Len(a)
    BY <1>8, <1>9, <1>4 DEF Position
  <2>7. b = y \o c
    <3> HIDE DEF a, y, c, v, i
    <3>1. Skip(a \o (y \o c), Len(a)) = y \o c
      BY <2>2, <2>4, SkipConcat
    <3> QED BY <3>1, <2>5, <2>6
  <2>8. r = Ok(Unmarked[v], c)
    <3>1. Read(y \o c) = Ok(Unmarked[v], c)
      <4> HIDE DEF c, v
      <4> QED BY <2>2, <2>4, ReadMarshal
    <3> HIDE DEF b, y, c
    <3> QED BY <2>7, <3>1
  <2>9. r.err = "none" /\ r.val = Unmarked[v] /\ r.rest = c
    <3> HIDE DEF r, v, c
    <3> QED BY <2>8 DEF Ok
  <2> HIDE DEF r, b
  <2>10. TypeOK' /\ ReadOK' /\ Layout' /\ Stopped' /\ Len(got') = Len(got) + 1 /\ Len(got) \in Nat
         /\ got'[Len(got) + 1] = r.val /\ \A j \in 1 .. Len(got) : got'[j] = got[j]
    BY <2>9, <1>1, <1>2, <1>6, GotInv
  <2>11. Position'
    <3>1. Upto(frames, i + 1) = a \o y
      BY <2>2
    <3>2. Len(stream) = Len(a \o y) + Len(c)
      <4> HIDE DEF a, y, c, v, i
      <4>1. Len(a \o (y \o c)) = Len(a) + Len(y \o c)
        BY <2>2, <2>4, ConcatType
      <4>2. Len(y \o c) = Len(y) + Len(c) /\ Len(y) \in Nat /\ Len(c) \in Nat
        BY <2>2, <2>4, ConcatType
      <4>3. Len(a \o y) = Len(a) + Len(y)
        BY <2>2, ConcatType
      <4> QED BY <4>1, <4>2, <4>3, <2>2, <2>5
    <3>3. Len(a \o y) \in Nat /\ Len(c) \in Nat
      <4> HIDE DEF a, y, c, v, i
      <4>1. a \o y \in Seq(Byte)
        BY <2>2, ConcatType
      <4> QED BY <4>1, <2>4
    <3>4. pos' = Len(stream) - Len(c)
      BY <2>9, <1>2
    <3>5. pos' = Len(a \o y)
      <4> HIDE DEF a, y, c, v, i
      <4> QED BY <3>2, <3>3, <3>4
    <3>6. pos' = Len(Upto(frames, Len(got) + 1))
      BY <3>1, <3>5
    <3> QED BY <3>6, <2>10, <1>1 DEF Position
  <2>12. InStep'
    <3>1. \A j \in 1 .. whole : j <= Len(got) => got[j] = Unmarked[frames[j]]
      BY <1>8 DEF InStep
    <3>2. ASSUME NEW j \in 1 .. whole, j <= Len(got) + 1 PROVE got'[j] = Unmarked[frames[j]]
      <4>1. CASE j = Len(got) + 1
        BY <4>1, <2>9, <2>10
      <4>2. CASE j <= Len(got)
        <5>1. j \in 1 .. Len(got)
          BY <4>2, <1>4
        <5> QED BY <5>1, <4>2, <3>1, <2>10
      <4> QED BY <4>1, <4>2, <3>2, <1>4
    <3>3. status' = "reading"
      BY <1>1, <1>2, <2>9
    <3> QED BY <3>2, <3>3, <2>10, <1>1 DEF InStep
  <2>13. NothingFromFragment'
    <3>1. Len(got') <= whole
      BY <2>10, <1>4, <1>9
    <3>2. status' = "reading"
      BY <1>1, <1>2, <2>9
    <3> QED BY <3>1, <3>2, <1>1 DEF NothingFromFragment
  <2> QED BY <2>10, <2>11, <2>12, <2>13 DEF WireInv
\* Only what follows the whole frames is left.
<1>10. CASE Len(got) = whole /\ cut < 2
  <2> DEFINE a == Upto(frames, whole)
  <2>1. a \in Seq(Byte) /\ Len(a) \in Nat
    BY <1>4, UptoType
  <2>2. pos = Len(a) /\ stream = a \o rest
    BY <1>4, <1>7, <1>8, <1>10 DEF Position, LaidOut
  <2>3. b = rest
    <3> HIDE DEF a
    <3>1. Skip(a \o rest, Len(a)) = rest
      BY <2>1, SkipConcat
    <3> QED BY <3>1, <2>2
  <2>4. r \in EndOfStream /\ (rest = <<>> => r = Fail("EOF"))
    <3>1. rest = <<>> => r = Fail("EOF")
      BY <2>3 DEF Read, ReadWith
    <3>2. CASE cut = 0
      <4>1. rest = <<>>
        BY <3>2, <1>7 DEF LaidOut
      <4> HIDE DEF r, b
      <4> QED BY <4>1, <3>1 DEF EndOfStream
    <3>3. CASE cut = 1
      <4>1. whole < Len(frames) /\ rest \in Torn(Byte, Marshal[frames[whole + 1]])
        BY <3>3, <1>7 DEF LaidOut
      <4>2. frames[whole + 1] \in Value
        BY <4>1, <1>4
      <4>3. Read(rest) \in EndOfStream
        BY <4>1, <4>2, ReadTorn
      <4> HIDE DEF b
      <4> QED BY <4>3, <3>1, <2>3
    <3> HIDE DEF r, b
    <3> QED BY <3>1, <3>2, <3>3, <1>4, <1>10
  <2> HIDE DEF r, b
  <2>5. r.err \in {"EOF", "UnexpectedEOF"} /\ r.err # "none" /\ (rest = <<>> => r.err = "EOF")
    BY <2>4 DEF EndOfStream, Fail
  <2>6. ended /\ status' = r.err /\ UNCHANGED <<got, pos>>
    BY <2>5, <1>1, <1>3
  <2>7. TypeOK' /\ ReadOK' /\ Position'
    BY <2>6, <1>1 DEF WireInv, TypeOK, ReadOK, Position
  <2>8. Layout'
    BY <1>1 DEF WireInv, Layout
  <2>9. Stopped' /\ InStep'
    BY <2>6, <1>1, <1>4, <1>8, <1>10 DEF Stopped, InStep
  <2>10. rest # <<>> => cut = 1 /\ pos < Len(stream)
    <3> SUFFICES ASSUME rest # <<>> PROVE cut = 1 /\ pos < Len(stream)
      OBVIOUS
    <3>1. cut # 0
      BY <1>7 DEF LaidOut
    <3> HIDE DEF a
    <3>2. Len(stream) = Len(a) + Len(rest) /\ Len(rest) \in Nat
      BY <2>1, <2>2, ConcatType
    <3>3. Len(rest) # 0
      OBVIOUS
    <3> QED BY <3>1, <3>2, <3>3, <2>1, <2>2, <1>4, <1>10
  <2>11. NothingFromFragment'
    BY <2>5, <2>6, <2>10, <1>1, <1>4, <1>10 DEF NothingFromFragment
  <2> QED BY <2>7, <2>8, <2>9, <2>11 DEF WireInv
\* What is behind the fragment is read as it comes.
<1>11. CASE Len(got) >= whole /\ cut = 2
  <2> HIDE DEF r, b
  <2>1. CASE r.err = "none"
    <3>1. TypeOK' /\ ReadOK' /\ Layout' /\ Stopped' /\ Len(got') = Len(got) + 1 /\ Len(got) \in Nat
          /\ got'[Len(got) + 1] = r.val /\ \A j \in 1 .. Len(got) : got'[j] = got[j]
      BY <2>1, <1>1, <1>2, <1>6, GotInv
    <3>2. Position'
      BY <3>1, <1>1, <1>4, <1>11 DEF Position
    <3>3. InStep'
      <4>1. \A j \in 1 .. whole : j <= Len(got) => got[j] = Unmarked[frames[j]]
        BY <1>8 DEF InStep
      <4>2. ASSUME NEW j \in 1 .. whole PROVE got'[j] = Unmarked[frames[j]]
        <5>1. j <= Len(got) /\ j \in 1 .. Len(got)
          BY <1>4, <1>11
        <5> QED BY <5>1, <4>1, <3>1
      <4>3. Len(got') >= whole
        BY <3>1, <1>4, <1>11
      <4> QED BY <4>2, <4>3, <1>1 DEF InStep
    <3>4. NothingFromFragment'
      BY <1>1, <1>11 DEF NothingFromFragment
    <3> QED BY <3>1, <3>2, <3>3, <3>4 DEF WireInv
  <2>2. CASE r.err # "none"
    <3>1. status' = r.err /\ UNCHANGED <<got, pos>>
      BY <2>2, <1>3
    <3>2. TypeOK' /\ ReadOK' /\ Position'
      BY <3>1, <1>1 DEF WireInv, TypeOK, ReadOK, Position
    <3>3. Layout'
      BY <1>1 DEF WireInv, Layout
    <3>4. Stopped'
      BY <3>1, <1>1 DEF Stopped
    <3>5. InStep'
      BY <3>1, <1>1, <1>8, <1>11 DEF InStep
    <3>6. NothingFromFragment'
      BY <1>1, <1>11 DEF NothingFromFragment
    <3> QED BY <3>2, <3>3, <3>4, <3>5, <3>6 DEF WireInv
  <2> QED BY <2>1, <2>2
<1>12. \/ Len(got) < whole
       \/ Len(got) = whole /\ cut < 2
       \/ Len(got) >= whole /\ cut = 2
  <2>1. cut < 2 => Len(got) <= whole
    BY <1>8 DEF NothingFromFragment
  <2> QED BY <2>1, <1>4
<1> QED BY <1>9, <1>10, <1>11, <1>12

\* Every step preserves the invariant.
LEMMA NextInv == ASSUME WireInv, [Next]_vars PROVE WireInv'
<1>1. CASE Next
  BY <1>1, WriteInv, CutInv, EndInv, ReadInv DEF Next
<1>2. CASE UNCHANGED vars
  <2>1. UNCHANGED <<stream, pos, got, status, ended, frames, whole, cut>>
    BY <1>2 DEF vars
  <2>2. TypeOK' /\ ReadOK' /\ Position' /\ Stopped' /\ InStep' /\ NothingFromFragment'
    BY <2>1 DEF WireInv, TypeOK, ReadOK, Position, Stopped, InStep, NothingFromFragment
  <2>3. Layout'
    BY <2>1 DEF WireInv, Layout
  <2> QED BY <2>2, <2>3 DEF WireInv
<1> QED BY <1>1, <1>2

\* The invariant holds always.
LEMMA WireInvTheorem == Spec => []WireInv
BY InitInv, NextInv, PTL DEF Spec

\* Marshal and Read agree on where frames end: whole frames come out as they went in,
\* whatever their bytes and whatever follows them.
THEOREM InStepTheorem == Spec => []InStep
<1>1. WireInv => InStep
  BY DEF WireInv
<1> QED BY <1>1, WireInvTheorem, PTL

\* A frame that was cut anywhere yields no value and no error but the end of the
\* stream; ErrUnexpectedEOF always means a torn frame.
THEOREM FragmentTheorem == Spec => []NothingFromFragment
<1>1. WireInv => NothingFromFragment
  BY DEF WireInv
<1> QED BY <1>1, WireInvTheorem, PTL

-----------------------------------------------------------------------------
(* The options of SET.                                                     *)

\* Every other number is odd.
LEMMA Parity == ASSUME NEW n \in Nat PROVE (n + 1) % 2 = 1 <=> ~(n % 2 = 1)
OBVIOUS

\* A word is a number just if the one before it wants one and is none itself.
LEMMA ArgumentNext ==
    ASSUME NEW ws, NEW i \in Nat, i >= 1
    PROVE  IsArgument(ws, i + 1) <=> Timed(ws, i) /\ ~IsArgument(ws, i)
<1> DEFINE Run(k, n) == /\ \A j \in k .. n - 1 : Timed(ws, j)
                        /\ k = 1 \/ ~Timed(ws, k - 1)
<1>0. \A n \in Nat : IsArgument(ws, n) <=> \E k \in 1 .. n - 1 : (n - k) % 2 = 1 /\ Run(k, n)
  BY DEF IsArgument
<1>1. ASSUME IsArgument(ws, i + 1) PROVE Timed(ws, i) /\ ~IsArgument(ws, i)
  <2>1. PICK k \in 1 .. i : (i + 1 - k) % 2 = 1 /\ Run(k, i + 1)
    BY <1>0, <1>1
  <2>2. Timed(ws, i)
    BY <2>1
  <2>3. ASSUME IsArgument(ws, i) PROVE FALSE
    <3>1. PICK m \in 1 .. i - 1 : (i - m) % 2 = 1 /\ Run(m, i)
      BY <1>0, <2>3
    <3>2. CASE k < m
      BY <3>1, <3>2, <2>1
    <3>3. CASE m < k
      BY <3>1, <3>3, <2>1
    <3>4. CASE m = k
      <4>1. i - k \in Nat /\ (i - k) + 1 = i + 1 - k
        OBVIOUS
      <4> QED BY <4>1, <3>1, <3>4, <2>1, Parity
    <3> QED BY <3>2, <3>3, <3>4
  <2> QED BY <2>2, <2>3
<1>2. ASSUME Timed(ws, i), ~IsArgument(ws, i) PROVE IsArgument(ws, i + 1)
  <2> DEFINE K == {k \in 1 .. i : \A j \in k .. i : Timed(ws, j)}
  <2>1. K \in SUBSET Nat /\ K # {}
    <3>1. i \in K
      BY <1>2
    <3> QED BY <3>1
  <2>2. PICK k \in K : \A y \in K : k <= y
    <3> HIDE DEF K
    <3> QED BY <2>1, MarshalRec!Least
  <2>3. k \in 1 .. i /\ \A j \in k .. i : Timed(ws, j)
    BY <2>2
  <2>4. k = 1 \/ ~Timed(ws, k - 1)
    <3> SUFFICES ASSUME k # 1, Timed(ws, k - 1) PROVE FALSE
      OBVIOUS
    <3>1. k - 1 \in 1 .. i
      BY <2>3
    <3>2. \A j \in k - 1 .. i : j = k - 1 \/ j \in k .. i
      BY <2>3
    <3>3. k - 1 \in K
      BY <3>1, <3>2, <2>3
    <3>4. k <= k - 1
      BY <3>3, <2>2
    <3> QED BY <3>4, <2>3
  <2>5. (i + 1 - k) % 2 = 1
    <3>1. CASE k = i
      BY <3>1
    <3>2. CASE k # i
      <4>1. k \in 1 .. i - 1 /\ Run(k, i)
        BY <3>2, <2>3, <2>4
      <4>2. ~((i - k) % 2 = 1)
        BY <4>1, <1>0, <1>2
      <4>3. i - k \in Nat /\ (i - k) + 1 = i + 1 - k
        BY <2>3
      <4> QED BY <4>2, <4>3, Parity
    <3> QED BY <3>1, <3>2
  <2>6. Run(k, i + 1) /\ k \in 1 .. (i + 1) - 1 /\ i + 1 \in Nat
    BY <2>3, <2>4
  <2> QED BY <2>5, <2>6, <1>0
<1> QED BY <1>1, <1>2

\* The first word is no number.
LEMMA ArgumentFirst == ASSUME NEW ws PROVE ~IsArgument(ws, 1)
BY DEF IsArgument

-----------------------------------------------------------------------------
(* The loop of set.                                                        *)

\* The body of setFrom.
setFromBody(f, left) ==
    [words \in Seq(Seq(Byte)) |-> [opts \in SetOptions |->
        IF left = 0 THEN [err |-> "none", opts |-> opts]
        ELSE setWord(f, words, left, opts)]]

setFromRec == INSTANCE Recursion WITH D <- Nat, Rank <- FuelOf, Body <- setFromBody

\* The body of the loop goes on with fewer words.
LEMMA setWordDescends ==
    ASSUME NEW left \in Nat, left # 0, NEW g, NEW h, \A j \in Nat : j < left => g[j] = h[j],
           NEW words, NEW opts
    PROVE  setWord(g, words, left, opts) = setWord(h, words, left, opts)
<1> DEFINE w == ToUpper(words[Len(words) - left + 1])
<1>1. CASE w \in {EX, PX} /\ left # 1
  <2>1. left - Consumed(w) \in Nat /\ left - Consumed(w) < left
    BY <1>1 DEF Consumed
  <2>2. g[left - Consumed(w)] = h[left - Consumed(w)]
    BY <2>1
  <2> QED BY <2>2 DEF setWord
<1>2. CASE w \in {EX, PX} /\ left = 1
  <2>1. w # NX /\ w # XX
    BY <1>2 DEF EX, PX, NX, XX
  <2> QED BY <1>2, <2>1 DEF setWord
<1>3. CASE w \notin {EX, PX}
  <2>1. Consumed(w) = 1
    BY <1>3 DEF Consumed
  <2>2. left - Consumed(w) \in Nat /\ left - Consumed(w) < left
    BY <2>1
  <2>3. g[left - Consumed(w)] = h[left - Consumed(w)]
    BY <2>2
  <2> QED BY <2>3 DEF setWord
<1> QED BY <1>1, <1>2, <1>3

\* setFrom is what its definition says.
LEMMA setFromEquation == \A left \in Nat : setFrom[left] = setFromBody(setFrom, left)
<1>1. setFromRec!Ranked
  BY DEF setFromRec!Ranked, FuelOf
<1>2. setFromRec!Descends
  <2> SUFFICES ASSUME NEW left \in Nat, NEW g, NEW h, \A j \in Nat : j < left => g[j] = h[j]
               PROVE  setFromBody(g, left) = setFromBody(h, left)
    BY DEF setFromRec!Descends, FuelOf
  <2>1. CASE left = 0
    BY <2>1 DEF setFromBody
  <2>2. CASE left # 0
    <3>1. \A words, opts : setWord(g, words, left, opts) = setWord(h, words, left, opts)
      BY <2>2, setWordDescends
    <3> QED BY <3>1, <2>2 DEF setFromBody
  <2> QED BY <2>1, <2>2
<1>3. setFrom = [left \in Nat |-> setFromBody(setFrom, left)]
  BY <1>1, <1>2, setFromRec!Recursion DEF setFrom, setFromBody
<1> QED BY <1>3

\* setFrom, for given words and options.
LEMMA setFromAt ==
    ASSUME NEW left \in Nat, NEW words \in Seq(Seq(Byte)), NEW opts \in SetOptions
    PROVE  setFrom[left][words][opts] = IF left = 0 THEN [err |-> "none", opts |-> opts]
                                        ELSE setWord(setFrom, words, left, opts)
<1>1. setFrom[left] = setFromBody(setFrom, left)
  BY setFromEquation
<1>2. setFromBody(setFrom, left)[words][opts] = IF left = 0 THEN [err |-> "none", opts |-> opts]
                                                ELSE setWord(setFrom, words, left, opts)
  BY DEF setFromBody
<1> QED BY <1>1, <1>2

\* What the words before the i-th say.
ClocksBefore(ws, i) == {j \in Clocks(ws) : j < i}

\* The greatest and the smallest of a set of numbers.
LastOf(S) == CHOOSE i \in S : \A j \in S : j <= i

\* The expiry that word c asks for.
TTLAt(ws, c) == Duration(ParseInt(ws[c + 1]), Unit(ToUpper(ws[c])))

\* The option is among the words before the i-th.
OptionBefore(ws, option, i) == \E j \in DOMAIN ws : j < i /\ ~IsArgument(ws, j) /\ ToUpper(ws[j]) = option

\* The options that set has collected when it comes to word i.
OptsBefore(ws, i) ==
    [HasTTL    |-> ClocksBefore(ws, i) # {},
     TTL       |-> IF ClocksBefore(ws, i) = {} THEN 0 ELSE TTLAt(ws, LastOf(ClocksBefore(ws, i))),
     OnlyIfNew |-> OptionBefore(ws, NX, i),
     OnlyIfOld |-> OptionBefore(ws, XX, i)]

FirstOf(S) == CHOOSE i \in S : \A j \in S : i <= j

\* What set is to return.
Expected(ws) ==
    IF Bad(ws) # {} THEN Fail(ErrorAt(ws, FirstOf(Bad(ws))))
    ELSE [err |-> "none", opts |-> OptsBefore(ws, Len(ws) + 1)]

\* No word before the i-th is wrong.
NoneBad(ws, i) == \A j \in Bad(ws) : j >= i

\* The options are different words.
LEMMA OptionNames == /\ NX # XX /\ NX # EX /\ NX # PX /\ XX # EX /\ XX # PX /\ EX # PX
BY DEF NX, XX, EX, PX

\* Wrap returns an integer.
LEMMA WrapType == ASSUME NEW n \in Int PROVE Wrap(n) \in Int
<1>1. MaxInt \in Nat
  BY ArgumentsAssumption
<1>2. 2 * (MaxInt + 1) \in Nat /\ 2 * (MaxInt + 1) > 0 /\ n + MaxInt + 1 \in Int
  BY <1>1
<1>3. (n + MaxInt + 1) % (2 * (MaxInt + 1)) \in Int
  BY <1>2
<1> QED BY <1>1, <1>3 DEF Wrap

\* A duration is an integer.
LEMMA DurationType ==
    ASSUME NEW n \in Int, NEW unit \in {Second, Millisecond} PROVE Duration(n, unit) \in Int
<1>1. unit \in Int
  BY ArgumentsAssumption
<1>2. n * unit \in Int
  BY <1>1
<1> QED BY <1>2, WrapType DEF Duration

\* What ParseInt returns, unless it fails.
LEMMA ParseIntType == ASSUME NEW s, ParseInt(s) # NotAnInteger PROVE ParseInt(s) \in Int
<1>1. ParseInt(s) \in DOMAIN Numeral
  BY DEF ParseInt
<1> QED BY <1>1, NumeralAssumption

\* The first word that is wrong.
LEMMA FirstBad ==
    ASSUME NEW ws \in Seq(Seq(Byte)), NEW i \in DOMAIN ws, NoneBad(ws, i), NEW e, ErrorAt(ws, i) = e, e # "none"
    PROVE  Expected(ws) = Fail(e)
<1>1. i \in Bad(ws) /\ \A j \in Bad(ws) : i <= j /\ j \in Nat
  BY DEF Bad, NoneBad
<1> DEFINE S == Bad(ws)
<1>2. FirstOf(S) = i
  <2>0. i \in S /\ \A j \in S : i <= j /\ j \in Nat
    BY <1>1
  <2> HIDE DEF S
  <2>1. FirstOf(S) \in S /\ \A j \in S : FirstOf(S) <= j
    BY <2>0 DEF FirstOf
  <2>2. FirstOf(S) <= i /\ i <= FirstOf(S) /\ i \in Nat /\ FirstOf(S) \in Nat
    BY <2>0, <2>1
  <2> QED BY <2>2
<1>3. Bad(ws) # {}
  BY <1>1
<1> QED BY <1>2, <1>3 DEF Expected

\* The greatest element is the only one.
LEMMA LastOfIs ==
    ASSUME NEW S \in SUBSET Nat, NEW c \in S, \A j \in S : j <= c PROVE LastOf(S) = c
<1>1. LastOf(S) \in S /\ \A j \in S : j <= LastOf(S)
  BY DEF LastOf
<1>2. LastOf(S) <= c /\ c <= LastOf(S) /\ c \in Nat /\ LastOf(S) \in Nat
  BY <1>1
<1> QED BY <1>2

\* NX or XX at a place where the loop of set stands.
LEMMA PlainWord ==
    ASSUME NEW ws \in Seq(Seq(Byte)), NEW i \in DOMAIN ws, NoneBad(ws, i),
           ~IsArgument(ws, i), ToUpper(ws[i]) \in {NX, XX}
    PROVE  /\ NoneBad(ws, i + 1) /\ ~IsArgument(ws, i + 1)
           /\ ClocksBefore(ws, i + 1) = ClocksBefore(ws, i)
           /\ \A option : OptionBefore(ws, option, i + 1)
                            <=> OptionBefore(ws, option, i) \/ ToUpper(ws[i]) = option
<1>0. i \in Nat /\ i >= 1 /\ \A j \in DOMAIN ws : j \in Nat
  OBVIOUS
<1>1. ~Timed(ws, i)
  BY OptionNames DEF Timed
<1>2. ErrorAt(ws, i) = "none"
  BY <1>1 DEF ErrorAt
<1>3. NoneBad(ws, i + 1)
  <2>1. ASSUME NEW j \in Bad(ws) PROVE j >= i + 1
    <3>1. j \in DOMAIN ws /\ j # i /\ j >= i
      BY <1>2 DEF Bad, NoneBad
    <3> QED BY <3>1, <1>0
  <2> QED BY <2>1 DEF NoneBad
<1>4. ~IsArgument(ws, i + 1)
  BY <1>0, <1>1, ArgumentNext
<1>5. ASSUME NEW j \in Clocks(ws) PROVE j < i + 1 <=> j < i
  <2>1. j \in DOMAIN ws /\ j # i
    BY <1>1 DEF Clocks
  <2> QED BY <2>1, <1>0
<1>6. ClocksBefore(ws, i + 1) = ClocksBefore(ws, i)
  BY <1>5 DEF ClocksBefore
<1>7. ASSUME NEW option
      PROVE  OptionBefore(ws, option, i + 1) <=> OptionBefore(ws, option, i) \/ ToUpper(ws[i]) = option
  <2>1. \A j \in DOMAIN ws : j < i + 1 <=> j < i \/ j = i
    BY <1>0
  <2> QED BY <2>1 DEF OptionBefore
<1> QED BY <1>3, <1>4, <1>6, <1>7

\* EX or PX at a place where the loop stands, with a word after it.
LEMMA TimedWord ==
    ASSUME NEW ws \in Seq(Seq(Byte)), NEW i \in DOMAIN ws, i # Len(ws), NoneBad(ws, i),
           ~IsArgument(ws, i), Timed(ws, i)
    PROVE  /\ NoneBad(ws, i + 1) /\ i + 1 \in DOMAIN ws
           /\ ErrorAt(ws, i + 1) = IF ParseInt(ws[i + 1]) = NotAnInteger THEN "integer" ELSE "none"
           /\ ErrorAt(ws, i + 1) = "none" => NoneBad(ws, i + 2)
           /\ ~IsArgument(ws, i + 2)
           /\ ClocksBefore(ws, i + 2) # {} /\ LastOf(ClocksBefore(ws, i + 2)) = i
           /\ \A option \in {NX, XX} : OptionBefore(ws, option, i + 2) <=> OptionBefore(ws, option, i)
<1>0. i \in Nat /\ i >= 1 /\ i + 1 \in Nat /\ i + 1 >= 1 /\ (i + 1) + 1 = i + 2 /\ \A j \in DOMAIN ws : j \in Nat
  OBVIOUS
<1>1. i + 1 \in DOMAIN ws
  OBVIOUS
<1>2. IsArgument(ws, i + 1) /\ ~IsArgument(ws, i + 2)
  <2>1. IsArgument(ws, i + 1)
    BY <1>0, ArgumentNext
  <2>2. ~IsArgument(ws, (i + 1) + 1)
    BY <2>1, <1>0, ArgumentNext
  <2> QED BY <2>1, <2>2, <1>0
<1>3. ErrorAt(ws, i) = "none"
  BY DEF ErrorAt
<1>4. ErrorAt(ws, i + 1) = IF ParseInt(ws[i + 1]) = NotAnInteger THEN "integer" ELSE "none"
  BY <1>2 DEF ErrorAt
<1>5. NoneBad(ws, i + 1)
  <2>1. ASSUME NEW j \in Bad(ws) PROVE j >= i + 1
    <3>1. j \in DOMAIN ws /\ j # i /\ j >= i
      BY <1>3 DEF Bad, NoneBad
    <3> QED BY <3>1, <1>0
  <2> QED BY <2>1 DEF NoneBad
<1>6. ASSUME ErrorAt(ws, i + 1) = "none" PROVE NoneBad(ws, i + 2)
  <2>1. ASSUME NEW j \in Bad(ws) PROVE j >= i + 2
    <3>1. j \in DOMAIN ws /\ j # i + 1 /\ j >= i + 1
      BY <1>5, <1>6 DEF Bad, NoneBad
    <3> QED BY <3>1, <1>0
  <2> QED BY <2>1 DEF NoneBad
<1>7. ClocksBefore(ws, i + 2) # {} /\ LastOf(ClocksBefore(ws, i + 2)) = i
  <2> DEFINE S == ClocksBefore(ws, i + 2)
  <2>1. i \in S
    BY <1>0 DEF ClocksBefore, Clocks
  <2>2. ASSUME NEW j \in S PROVE j \in Nat /\ j <= i
    <3>1. j \in DOMAIN ws /\ j # i + 1 /\ j < i + 2
      BY <1>2 DEF ClocksBefore, Clocks
    <3> QED BY <3>1, <1>0
  <2>3. S \in SUBSET Nat
    BY <2>2
  <2> HIDE DEF S
  <2>4. LastOf(S) = i
    BY <2>1, <2>2, <2>3, LastOfIs
  <2> QED BY <2>1, <2>4 DEF S
<1>8. ASSUME NEW option \in {NX, XX} PROVE OptionBefore(ws, option, i + 2) <=> OptionBefore(ws, option, i)
  <2>1. ToUpper(ws[i]) # option
    BY OptionNames DEF Timed
  <2>2. \A j \in DOMAIN ws : j < i + 2 <=> j < i \/ j = i \/ j = i + 1
    BY <1>0
  <2> QED BY <2>1, <2>2, <1>2 DEF OptionBefore
<1> QED BY <1>1, <1>2, <1>4, <1>5, <1>6, <1>7, <1>8

\* Equivalent conditions are equal.
LEMMA OptionBeforeSame ==
    ASSUME NEW ws, NEW option, NEW i, NEW k, OptionBefore(ws, option, i) <=> OptionBefore(ws, option, k)
    PROVE  OptionBefore(ws, option, i) = OptionBefore(ws, option, k)
BY DEF OptionBefore

\* The options as a record.
Opts(a, b, c, d) == [HasTTL |-> a, TTL |-> b, OnlyIfNew |-> c, OnlyIfOld |-> d]

\* Assignment of OnlyIfNew.
LEMMA SetNew ==
    ASSUME NEW a, NEW b, NEW c, NEW d, NEW e
    PROVE  [Opts(a, b, c, d) EXCEPT !.OnlyIfNew = e] = Opts(a, b, e, d)
<1> DEFINE r == [Opts(a, b, c, d) EXCEPT !.OnlyIfNew = e]
           s == Opts(a, b, e, d)
           fields == {"HasTTL", "TTL", "OnlyIfNew", "OnlyIfOld"}
<1>1. r = [x \in DOMAIN r |-> r[x]] /\ s = [x \in DOMAIN s |-> s[x]]
  BY DEF Opts
<1>2. DOMAIN r = fields /\ DOMAIN s = fields
  BY DEF Opts
<1>3. r.HasTTL = s.HasTTL /\ r.TTL = s.TTL /\ r.OnlyIfNew = s.OnlyIfNew /\ r.OnlyIfOld = s.OnlyIfOld
  BY DEF Opts
<1> HIDE DEF r, s
<1>4. \A x \in DOMAIN r : r[x] = s[x]
  BY <1>2, <1>3
<1>5. r = s
  BY <1>1, <1>2, <1>4
<1> QED BY <1>5 DEF r, s

\* Assignment of OnlyIfOld.
LEMMA SetOld ==
    ASSUME NEW a, NEW b, NEW c, NEW d, NEW e
    PROVE  [Opts(a, b, c, d) EXCEPT !.OnlyIfOld = e] = Opts(a, b, c, e)
<1> DEFINE r == [Opts(a, b, c, d) EXCEPT !.OnlyIfOld = e]
           s == Opts(a, b, c, e)
           fields == {"HasTTL", "TTL", "OnlyIfNew", "OnlyIfOld"}
<1>1. r = [x \in DOMAIN r |-> r[x]] /\ s = [x \in DOMAIN s |-> s[x]]
  BY DEF Opts
<1>2. DOMAIN r = fields /\ DOMAIN s = fields
  BY DEF Opts
<1>3. r.HasTTL = s.HasTTL /\ r.TTL = s.TTL /\ r.OnlyIfNew = s.OnlyIfNew /\ r.OnlyIfOld = s.OnlyIfOld
  BY DEF Opts
<1> HIDE DEF r, s
<1>4. \A x \in DOMAIN r : r[x] = s[x]
  BY <1>2, <1>3
<1>5. r = s
  BY <1>1, <1>2, <1>4
<1> QED BY <1>5 DEF r, s

\* OnlyIfNew is set.
LEMMA SetNewTrue ==
    ASSUME NEW a, NEW b, NEW c, NEW d
    PROVE  [Opts(a, b, c, d) EXCEPT !.OnlyIfNew = TRUE] = Opts(a, b, TRUE, d)
<1> DEFINE t == TRUE
<1> HIDE DEF t
<1>1. [Opts(a, b, c, d) EXCEPT !.OnlyIfNew = t] = Opts(a, b, t, d)
  BY SetNew
<1> QED BY <1>1 DEF t

\* OnlyIfOld is set.
LEMMA SetOldTrue ==
    ASSUME NEW a, NEW b, NEW c, NEW d
    PROVE  [Opts(a, b, c, d) EXCEPT !.OnlyIfOld = TRUE] = Opts(a, b, c, TRUE)
<1> DEFINE t == TRUE
<1> HIDE DEF t
<1>1. [Opts(a, b, c, d) EXCEPT !.OnlyIfOld = t] = Opts(a, b, c, t)
  BY SetOld
<1> QED BY <1>1 DEF t

\* NX and XX set their options.
LEMMA OptsPlain ==
    ASSUME NEW ws \in Seq(Seq(Byte)), NEW i \in DOMAIN ws, NoneBad(ws, i), ~IsArgument(ws, i)
    PROVE  /\ ToUpper(ws[i]) = NX => OptsBefore(ws, i + 1) = [OptsBefore(ws, i) EXCEPT !.OnlyIfNew = TRUE]
           /\ ToUpper(ws[i]) = XX => OptsBefore(ws, i + 1) = [OptsBefore(ws, i) EXCEPT !.OnlyIfOld = TRUE]
<1> DEFINE a(k) == ClocksBefore(ws, k) # {}
           b(k) == IF ClocksBefore(ws, k) = {} THEN 0 ELSE TTLAt(ws, LastOf(ClocksBefore(ws, k)))
           c(k) == OptionBefore(ws, NX, k)
           d(k) == OptionBefore(ws, XX, k)
<1>0. \A k : OptsBefore(ws, k) = Opts(a(k), b(k), c(k), d(k))
  BY DEF OptsBefore, Opts
<1>1. ASSUME ToUpper(ws[i]) = NX PROVE OptsBefore(ws, i + 1) = [OptsBefore(ws, i) EXCEPT !.OnlyIfNew = TRUE]
  <2>1. a(i + 1) = a(i) /\ b(i + 1) = b(i)
    <3>1. ClocksBefore(ws, i + 1) = ClocksBefore(ws, i)
      BY <1>1, PlainWord
    <3> QED BY <3>1
  <2>2. c(i + 1) = TRUE
    BY <1>1, PlainWord
  <2>3. d(i + 1) = d(i)
    <3>1. d(i + 1) <=> d(i)
      BY <1>1, PlainWord, OptionNames
    <3> QED BY <3>1, OptionBeforeSame
  <2> HIDE DEF a, b, c, d
  <2>4. [OptsBefore(ws, i) EXCEPT !.OnlyIfNew = TRUE]
          = Opts(a(i), b(i), TRUE, d(i))
    <3>1. OptsBefore(ws, i) = Opts(a(i), b(i), c(i), d(i))
      BY <1>0
    <3>2. [Opts(a(i), b(i), c(i), d(i)) EXCEPT !.OnlyIfNew = TRUE] = Opts(a(i), b(i), TRUE, d(i))
      BY SetNewTrue
    <3> QED BY <3>1, <3>2, Zenon
  <2>5. OptsBefore(ws, i + 1) = Opts(a(i + 1), b(i + 1), c(i + 1), d(i + 1))
    BY <1>0
  <2> QED BY <2>1, <2>2, <2>3, <2>4, <2>5
<1>2. ASSUME ToUpper(ws[i]) = XX PROVE OptsBefore(ws, i + 1) = [OptsBefore(ws, i) EXCEPT !.OnlyIfOld = TRUE]
  <2>1. a(i + 1) = a(i) /\ b(i + 1) = b(i)
    <3>1. ClocksBefore(ws, i + 1) = ClocksBefore(ws, i)
      BY <1>2, PlainWord
    <3> QED BY <3>1
  <2>2. d(i + 1) = TRUE
    BY <1>2, PlainWord
  <2>3. c(i + 1) = c(i)
    <3>1. c(i + 1) <=> c(i)
      BY <1>2, PlainWord, OptionNames
    <3> QED BY <3>1, OptionBeforeSame
  <2> HIDE DEF a, b, c, d
  <2>4. [OptsBefore(ws, i) EXCEPT !.OnlyIfOld = TRUE]
          = Opts(a(i), b(i), c(i), TRUE)
    <3>1. OptsBefore(ws, i) = Opts(a(i), b(i), c(i), d(i))
      BY <1>0
    <3>2. [Opts(a(i), b(i), c(i), d(i)) EXCEPT !.OnlyIfOld = TRUE] = Opts(a(i), b(i), c(i), TRUE)
      BY SetOldTrue
    <3> QED BY <3>1, <3>2, Zenon
  <2>5. OptsBefore(ws, i + 1) = Opts(a(i + 1), b(i + 1), c(i + 1), d(i + 1))
    BY <1>0
  <2> QED BY <2>1, <2>2, <2>3, <2>4, <2>5
<1> QED BY <1>1, <1>2

\* EX and PX set the expiry, whatever it was before.
LEMMA OptsTimed ==
    ASSUME NEW ws \in Seq(Seq(Byte)), NEW i \in DOMAIN ws, i # Len(ws), NoneBad(ws, i),
           ~IsArgument(ws, i), Timed(ws, i)
    PROVE  OptsBefore(ws, i + 2) = [OptsBefore(ws, i) EXCEPT !.HasTTL = TRUE, !.TTL = TTLAt(ws, i)]
<1> DEFINE a(k) == ClocksBefore(ws, k) # {}
           b(k) == IF ClocksBefore(ws, k) = {} THEN 0 ELSE TTLAt(ws, LastOf(ClocksBefore(ws, k)))
           c(k) == OptionBefore(ws, NX, k)
           d(k) == OptionBefore(ws, XX, k)
<1>0. \A k : OptsBefore(ws, k) = Opts(a(k), b(k), c(k), d(k))
  BY DEF OptsBefore, Opts
<1>1. ClocksBefore(ws, i + 2) # {} /\ LastOf(ClocksBefore(ws, i + 2)) = i
  BY TimedWord
<1>2. a(i + 2) = TRUE /\ b(i + 2) = TTLAt(ws, i)
  BY <1>1
<1>3. c(i + 2) = c(i)
  <2>1. c(i + 2) <=> c(i)
    BY TimedWord
  <2> QED BY <2>1, OptionBeforeSame
<1>4. d(i + 2) = d(i)
  <2>1. d(i + 2) <=> d(i)
    BY TimedWord
  <2> QED BY <2>1, OptionBeforeSame
<1> HIDE DEF a, b, c, d
<1>5. [OptsBefore(ws, i) EXCEPT !.HasTTL = TRUE, !.TTL = TTLAt(ws, i)]
        = Opts(TRUE, TTLAt(ws, i), c(i), d(i))
  <2>1. OptsBefore(ws, i) = Opts(a(i), b(i), c(i), d(i))
    BY <1>0
  <2> DEFINE t == TRUE
             f == TTLAt(ws, i)
             r == [Opts(a(i), b(i), c(i), d(i)) EXCEPT !.HasTTL = t, !.TTL = f]
             s == Opts(t, f, c(i), d(i))
             fields == {"HasTTL", "TTL", "OnlyIfNew", "OnlyIfOld"}
  <2> HIDE DEF t, f
  <2>2. r = s
    <3>1. r = [x \in DOMAIN r |-> r[x]] /\ s = [x \in DOMAIN s |-> s[x]]
      BY DEF Opts
    <3>2. DOMAIN r = fields /\ DOMAIN s = fields
      BY DEF Opts
    <3>3. r.HasTTL = s.HasTTL /\ r.TTL = s.TTL /\ r.OnlyIfNew = s.OnlyIfNew /\ r.OnlyIfOld = s.OnlyIfOld
      BY DEF Opts
    <3> HIDE DEF r, s
    <3>4. \A x \in DOMAIN r : r[x] = s[x]
      BY <3>2, <3>3
    <3> QED BY <3>1, <3>2, <3>4
  <2> QED BY <2>1, <2>2, Zenon DEF t, f
<1>6. OptsBefore(ws, i + 2) = Opts(a(i + 2), b(i + 2), c(i + 2), d(i + 2))
  BY <1>0
<1> QED BY <1>2, <1>3, <1>4, <1>5, <1>6

\* The branches of the body of the loop.
LEMMA setWordIs ==
    ASSUME NEW loop, NEW words, NEW left, NEW opts
    PROVE  LET i == Len(words) - left + 1
               w == ToUpper(words[i])
               n == ParseInt(words[i + 1])
               r == setWord(loop, words, left, opts)
           IN  /\ w = NX => r = loop[left - 1][words][[opts EXCEPT !.OnlyIfNew = TRUE]]
               /\ w = XX => r = loop[left - 1][words][[opts EXCEPT !.OnlyIfOld = TRUE]]
               /\ w \in {EX, PX} /\ left = 1 => r = Fail("syntax")
               /\ w \in {EX, PX} /\ left # 1 /\ n = NotAnInteger => r = Fail("integer")
               /\ w \in {EX, PX} /\ left # 1 /\ n # NotAnInteger
                    => r = loop[left - 2][words][[opts EXCEPT !.HasTTL = TRUE, !.TTL = Duration(n, Unit(w))]]
               /\ w \notin {NX, XX, EX, PX} => r = Fail("syntax")
<1> DEFINE i == Len(words) - left + 1
           w == ToUpper(words[i])
           n == ParseInt(words[i + 1])
           r == setWord(loop, words, left, opts)
<1>1. w = NX => r = loop[left - 1][words][[opts EXCEPT !.OnlyIfNew = TRUE]]
  BY OptionNames DEF setWord, Consumed
<1>2. w = XX => r = loop[left - 1][words][[opts EXCEPT !.OnlyIfOld = TRUE]]
  BY OptionNames DEF setWord, Consumed
<1>3. w \in {EX, PX} /\ left = 1 => r = Fail("syntax")
  BY OptionNames DEF setWord, Consumed
<1>4. w \in {EX, PX} /\ left # 1 /\ n = NotAnInteger => r = Fail("integer")
  BY OptionNames DEF setWord, Consumed
<1>5. w \in {EX, PX} /\ left # 1 /\ n # NotAnInteger
        => r = loop[left - 2][words][[opts EXCEPT !.HasTTL = TRUE, !.TTL = Duration(n, Unit(w))]]
  BY OptionNames DEF setWord, Consumed, Unit
<1>6. w \notin {NX, XX, EX, PX} => r = Fail("syntax")
  BY OptionNames DEF setWord, Consumed
<1> QED BY <1>1, <1>2, <1>3, <1>4, <1>5, <1>6, Zenon

\* The loop gets to the right end from any word where it may start over.
Continues(ws, left) ==
    LET i == Len(ws) - left + 1
    IN  ~IsArgument(ws, i) /\ NoneBad(ws, i) /\ OptsBefore(ws, i) \in SetOptions
            => setFrom[left][ws][OptsBefore(ws, i)] = Expected(ws)

\* At the end of the words the loop returns the options.
LEMMA LoopEnds == ASSUME NEW ws \in Seq(Seq(Byte)) PROVE Continues(ws, 0)
<1> DEFINE i == Len(ws) - 0 + 1
<1> SUFFICES ASSUME NoneBad(ws, i), OptsBefore(ws, i) \in SetOptions
             PROVE  setFrom[0][ws][OptsBefore(ws, i)] = Expected(ws)
  BY DEF Continues
<1>1. i = Len(ws) + 1 /\ Len(ws) \in Nat
  OBVIOUS
<1>2. Bad(ws) = {}
  <2> SUFFICES ASSUME NEW j \in Bad(ws) PROVE FALSE
    OBVIOUS
  <2>1. j \in 1 .. Len(ws) /\ j >= i
    BY DEF Bad, NoneBad
  <2> QED BY <2>1, <1>1
<1>3. Expected(ws) = [err |-> "none", opts |-> OptsBefore(ws, i)]
  BY <1>1, <1>2 DEF Expected
<1> HIDE DEF i
<1> QED BY <1>3, setFromAt

\* At any word the loop does what is expected, if it does so further on.
LEMMA LoopGoesOn ==
    ASSUME NEW ws \in Seq(Seq(Byte)), NEW left \in 1 .. Len(ws),
           Continues(ws, left - 1), left # 1 => Continues(ws, left - 2)
    PROVE  Continues(ws, left)
<1> DEFINE i == Len(ws) - left + 1
           o == OptsBefore(ws, i)
           w == ToUpper(ws[i])
           n == ParseInt(ws[i + 1])
           r == setWord(setFrom, ws, left, o)
<1> SUFFICES ASSUME ~IsArgument(ws, i), NoneBad(ws, i), o \in SetOptions
             PROVE  setFrom[left][ws][o] = Expected(ws)
  BY DEF Continues
<1>0. /\ left \in Nat /\ left # 0 /\ Len(ws) \in Nat /\ i \in DOMAIN ws /\ i \in Nat
      /\ Len(ws) - (left - 1) + 1 = i + 1 /\ Len(ws) - (left - 2) + 1 = i + 2
      /\ left = 1 <=> i = Len(ws)
  OBVIOUS
<1>1. setFrom[left][ws][o] = r
  <2> HIDE DEF o
  <2> QED BY <1>0, setFromAt
<1>2. /\ w = NX => r = setFrom[left - 1][ws][[o EXCEPT !.OnlyIfNew = TRUE]]
      /\ w = XX => r = setFrom[left - 1][ws][[o EXCEPT !.OnlyIfOld = TRUE]]
      /\ w \in {EX, PX} /\ left = 1 => r = Fail("syntax")
      /\ w \in {EX, PX} /\ left # 1 /\ n = NotAnInteger => r = Fail("integer")
      /\ w \in {EX, PX} /\ left # 1 /\ n # NotAnInteger
           => r = setFrom[left - 2][ws][[o EXCEPT !.HasTTL = TRUE, !.TTL = Duration(n, Unit(w))]]
      /\ w \notin {NX, XX, EX, PX} => r = Fail("syntax")
  BY setWordIs, Zenon
<1>3. CASE w = NX
  <2>1. OptsBefore(ws, i + 1) = [o EXCEPT !.OnlyIfNew = TRUE]
    BY <1>0, <1>3, OptsPlain
  <2>2. OptsBefore(ws, i + 1) \in SetOptions
    <3> HIDE DEF o
    <3> QED BY <2>1 DEF SetOptions
  <2>3. ~IsArgument(ws, i + 1) /\ NoneBad(ws, i + 1)
    BY <1>0, <1>3, PlainWord
  <2>4. setFrom[left - 1][ws][OptsBefore(ws, i + 1)] = Expected(ws)
    BY <2>2, <2>3, <1>0 DEF Continues
  <2> HIDE DEF r, o, w, i
  <2> QED BY <2>1, <2>4, <1>1, <1>2, <1>3
<1>4. CASE w = XX
  <2>1. OptsBefore(ws, i + 1) = [o EXCEPT !.OnlyIfOld = TRUE]
    BY <1>0, <1>4, OptsPlain
  <2>2. OptsBefore(ws, i + 1) \in SetOptions
    <3> HIDE DEF o
    <3> QED BY <2>1 DEF SetOptions
  <2>3. ~IsArgument(ws, i + 1) /\ NoneBad(ws, i + 1)
    BY <1>0, <1>4, PlainWord
  <2>4. setFrom[left - 1][ws][OptsBefore(ws, i + 1)] = Expected(ws)
    BY <2>2, <2>3, <1>0 DEF Continues
  <2> HIDE DEF r, o, w, i
  <2> QED BY <2>1, <2>4, <1>1, <1>2, <1>4
<1>5. CASE w \in {EX, PX} /\ left = 1
  <2>1. ErrorAt(ws, i) = "syntax"
    BY <1>0, <1>5 DEF ErrorAt, Timed
  <2>2. Expected(ws) = Fail("syntax")
    BY <2>1, <1>0, FirstBad
  <2> HIDE DEF r, o, w, i
  <2> QED BY <2>2, <1>1, <1>2, <1>5
<1>6. CASE w \in {EX, PX} /\ left # 1
  <2>1. Timed(ws, i) /\ i # Len(ws)
    BY <1>0, <1>6 DEF Timed
  <2>2. /\ NoneBad(ws, i + 1) /\ i + 1 \in DOMAIN ws
        /\ ErrorAt(ws, i + 1) = IF n = NotAnInteger THEN "integer" ELSE "none"
        /\ ErrorAt(ws, i + 1) = "none" => NoneBad(ws, i + 2)
        /\ ~IsArgument(ws, i + 2)
    <3> HIDE DEF i
    <3> QED BY <2>1, <1>0, TimedWord
  <2>3. CASE n = NotAnInteger
    <3>1. ErrorAt(ws, i + 1) = "integer"
      BY <2>2, <2>3
    <3>2. Expected(ws) = Fail("integer")
      BY <3>1, <2>2, FirstBad
    <3> HIDE DEF r, o, w, i, n
    <3> QED BY <3>2, <2>3, <1>1, <1>2, <1>6
  <2>4. CASE n # NotAnInteger
    <3>1. OptsBefore(ws, i + 2) = [o EXCEPT !.HasTTL = TRUE, !.TTL = Duration(n, Unit(w))]
      BY <2>1, <1>0, OptsTimed DEF TTLAt
    <3>2. Duration(n, Unit(w)) \in Int
      <4>1. n \in Int
        BY <2>4, ParseIntType
      <4>2. Unit(w) \in {Second, Millisecond}
        BY DEF Unit
      <4> HIDE DEF n, w
      <4> QED BY <4>1, <4>2, DurationType
    <3>3. OptsBefore(ws, i + 2) \in SetOptions
      <4> DEFINE d == Duration(n, Unit(w))
      <4> HIDE DEF o, d
      <4>1. [o EXCEPT !.HasTTL = TRUE, !.TTL = d] \in SetOptions
        BY <3>2 DEF SetOptions, d
      <4> QED BY <3>1, <4>1 DEF d
    <3>4. setFrom[left - 2][ws][OptsBefore(ws, i + 2)] = Expected(ws)
      BY <3>3, <2>2, <2>4, <1>0, <1>6 DEF Continues
    <3> HIDE DEF r, o, w, i, n
    <3> QED BY <3>1, <3>4, <2>4, <1>1, <1>2, <1>6
  <2> QED BY <2>3, <2>4
<1>7. CASE w \notin {NX, XX, EX, PX}
  <2>1. ErrorAt(ws, i) = "syntax"
    BY <1>0, <1>7 DEF ErrorAt, Timed
  <2>2. Expected(ws) = Fail("syntax")
    BY <2>1, <1>0, FirstBad
  <2> HIDE DEF r, o, w, i
  <2> QED BY <2>2, <1>1, <1>2, <1>7
<1> HIDE DEF r, o, w, i
<1> QED BY <1>3, <1>4, <1>5, <1>6, <1>7

\* The loop does what is expected from the first word on.
LEMMA LoopAll == ASSUME NEW ws \in Seq(Seq(Byte)) PROVE Continues(ws, Len(ws))
<1> DEFINE T == {k \in Nat : \A left \in Nat : left <= k /\ left <= Len(ws) => Continues(ws, left)}
<1>0. Len(ws) \in Nat
  OBVIOUS
<1>1. 0 \in T
  <2>1. ASSUME NEW left \in Nat, left <= 0 PROVE Continues(ws, left)
    <3>1. left = 0
      BY <2>1
    <3> QED BY <3>1, LoopEnds
  <2> QED BY <2>1
<1>2. ASSUME NEW k \in Nat, k \in T PROVE k + 1 \in T
  <2> SUFFICES ASSUME NEW left \in Nat, left <= k + 1, left <= Len(ws) PROVE Continues(ws, left)
    OBVIOUS
  <2>1. CASE left <= k
    BY <2>1, <1>2
  <2>2. CASE left = k + 1
    <3>1. left \in 1 .. Len(ws) /\ left - 1 \in Nat /\ left - 1 <= k /\ left - 1 <= Len(ws)
      BY <2>2, <1>0
    <3>2. Continues(ws, left - 1)
      BY <3>1, <1>2
    <3>3. ASSUME left # 1 PROVE Continues(ws, left - 2)
      <4>1. left - 2 \in Nat /\ left - 2 <= k /\ left - 2 <= Len(ws)
        BY <3>1, <3>3, <1>0
      <4> QED BY <4>1, <1>2
    <3> QED BY <3>1, <3>2, <3>3, LoopGoesOn
  <2> QED BY <2>1, <2>2
<1> HIDE DEF T
<1>3. Nat \subseteq T
  BY <1>1, <1>2, MarshalRec!SetInduction
<1>4. Len(ws) \in T
  BY <1>0, <1>3
<1> QED BY <1>0, <1>4 DEF T

\* Before the first word nothing is wrong and nothing is set.
LEMMA NothingBefore ==
    ASSUME NEW ws \in Seq(Seq(Byte))
    PROVE  NoneBad(ws, 1) /\ OptsBefore(ws, 1) = NoOptions
<1>1. \A j \in DOMAIN ws : j >= 1 /\ ~(j < 1)
  OBVIOUS
<1>2. NoneBad(ws, 1)
  BY <1>1 DEF NoneBad, Bad
<1>3. ClocksBefore(ws, 1) = {}
  BY <1>1 DEF ClocksBefore, Clocks
<1>4. OptionBefore(ws, NX, 1) = FALSE /\ OptionBefore(ws, XX, 1) = FALSE
  BY <1>1 DEF OptionBefore
<1>5. (ClocksBefore(ws, 1) # {}) = FALSE
  BY <1>3
<1> QED BY <1>2, <1>3, <1>4, <1>5 DEF OptsBefore, NoOptions

\* What set returns, whatever the words are.
THEOREM SetTheorem == ASSUME NEW ws \in Seq(Seq(Byte)) PROVE set(ws) = Expected(ws)
<1>1. Continues(ws, Len(ws)) /\ Len(ws) - Len(ws) + 1 = 1
  BY LoopAll
<1>2. ~IsArgument(ws, 1) /\ NoneBad(ws, 1) /\ OptsBefore(ws, 1) = NoOptions
  BY ArgumentFirst, NothingBefore
<1>3. NoOptions \in SetOptions
  BY DEF NoOptions, SetOptions
<1>4. setFrom[Len(ws)][ws][OptsBefore(ws, 1)] = Expected(ws)
  BY <1>1, <1>2, <1>3 DEF Continues
<1> QED BY <1>2, <1>4 DEF set

\* After the last word all options are set.
LEMMA AllBefore ==
    ASSUME NEW ws \in Seq(Seq(Byte))
    PROVE  /\ ClocksBefore(ws, Len(ws) + 1) = Clocks(ws)
           /\ \A option : OptionBefore(ws, option, Len(ws) + 1) = IsOption(ws, option)
<1>1. \A j \in DOMAIN ws : j < Len(ws) + 1
  OBVIOUS
<1>2. ClocksBefore(ws, Len(ws) + 1) = Clocks(ws)
  BY <1>1 DEF ClocksBefore, Clocks
<1>3. ASSUME NEW option PROVE OptionBefore(ws, option, Len(ws) + 1) = IsOption(ws, option)
  BY <1>1 DEF OptionBefore, IsOption
<1> QED BY <1>2, <1>3

\* The last option with a number.
LastClock(ws) == CHOOSE i \in Clocks(ws) : \A j \in Clocks(ws) : j <= i

\* If there is only one, it is the last.
LEMMA OneClock ==
    ASSUME NEW ws \in Seq(Seq(Byte)), Documented(ws), Clocks(ws) # {}
    PROVE  Clock(ws) = LastClock(ws)
<1>1. PICK i \in Clocks(ws) : \A j \in Clocks(ws) : j = i
  BY DEF Documented
<1>2. Clocks(ws) = {i} /\ i \in Nat
  BY <1>1 DEF Clocks
<1>3. LastClock(ws) = i
  BY <1>2 DEF LastClock
<1>4. Clock(ws) = i
  BY <1>2 DEF Clock
<1> QED BY <1>3, <1>4

\* What set returns: the last expiry counts.
LEMMA SetReturns ==
    ASSUME NEW ws \in Seq(Seq(Byte))
    PROVE  IF Bad(ws) # {}
           THEN set(ws) = Fail(ErrorAt(ws, CHOOSE i \in Bad(ws) : \A j \in Bad(ws) : i <= j))
           ELSE LET i == LastClock(ws)
                IN  /\ set(ws).err = "none"
                    /\ set(ws).opts =
                         [HasTTL    |-> Clocks(ws) # {},
                          TTL       |-> IF Clocks(ws) = {} THEN 0
                                        ELSE Duration(ParseInt(ws[i + 1]), Unit(ToUpper(ws[i]))),
                          OnlyIfNew |-> IsOption(ws, NX),
                          OnlyIfOld |-> IsOption(ws, XX)]
<1>1. set(ws) = Expected(ws)
  BY SetTheorem
<1>2. CASE Bad(ws) # {}
  BY <1>1, <1>2 DEF Expected, FirstOf
<1>3. CASE Bad(ws) = {}
  <2> DEFINE i == LastClock(ws)
             a == Clocks(ws) # {}
             b == IF Clocks(ws) = {} THEN 0 ELSE TTLAt(ws, i)
             c == IsOption(ws, NX)
             d == IsOption(ws, XX)
  <2>1. OptsBefore(ws, Len(ws) + 1) = Opts(a, b, c, d)
    <3>1. ClocksBefore(ws, Len(ws) + 1) = Clocks(ws)
      BY AllBefore
    <3>2. OptionBefore(ws, NX, Len(ws) + 1) = IsOption(ws, NX) /\ OptionBefore(ws, XX, Len(ws) + 1) = IsOption(ws, XX)
      BY AllBefore
    <3>3. LastOf(Clocks(ws)) = i
      BY DEF LastOf, LastClock
    <3> QED BY <3>1, <3>2, <3>3 DEF OptsBefore, Opts
  <2>2. set(ws) = [err |-> "none", opts |-> Opts(a, b, c, d)]
    BY <1>1, <1>3, <2>1 DEF Expected
  <2>3. set(ws).err = "none" /\ set(ws).opts = Opts(a, b, c, d)
    <3> HIDE DEF a, b, c, d, i
    <3> QED BY <2>2
  <2> QED BY <1>3, <2>3 DEF Opts, TTLAt
<1> QED BY <1>2, <1>3

-----------------------------------------------------------------------------
(* The words of a SET are sequences of bytes.                              *)

\* The arguments of the requests that Read returns are strings.
LEMMA SetWordsType == ASSUME WireInv PROVE SetWords \subseteq Seq(Seq(Byte))
<1> SUFFICES ASSUME NEW ws \in SetWords PROVE ws \in Seq(Seq(Byte))
  OBVIOUS
<1>1. PICK k \in DOMAIN got : IsSet(got[k]) /\ ws = [j \in 1 .. Len(got[k][2]) - 3 |-> Text(got[k][2][j + 3])]
  BY DEF SetWords
<1>2. PICK X : got \in Seq(X) /\ \A x \in X : WellRead(x)
  BY DEF WireInv, ReadOK
<1>3. WellRead(got[k])
  BY <1>1, <1>2
<1> DEFINE vs == got[k][2]
<1>4. PICK S : vs \in Seq(S) /\ \A x \in S : Text(x) \in Seq(Byte)
  BY <1>1, <1>3 DEF IsSet, WellRead, Worded
<1> HIDE DEF vs
<1> DEFINE n == IF Len(vs) < 3 THEN 0 ELSE Len(vs) - 3
<1>5. Len(vs) \in Nat /\ n \in Nat /\ 1 .. Len(vs) - 3 = 1 .. n
  BY <1>4
<1>6. ASSUME NEW j \in 1 .. n PROVE Text(vs[j + 3]) \in Seq(Byte)
  <2>1. j + 3 \in 1 .. Len(vs)
    BY <1>5
  <2> QED BY <2>1, <1>4
<1>7. ws = [j \in 1 .. n |-> Text(vs[j + 3])]
  BY <1>1, <1>5 DEF vs
<1> HIDE DEF n
<1> QED BY <1>5, <1>6, <1>7

\* For every SET that is read: set takes the word after EX and PX for a number and
\* never for an option, reports the first word that is wrong, and returns all options
\* if they are as documented.
THEOREM SetOptionsTheorem == Spec => []SetOptionsAsWritten
<1>1. ASSUME WireInv PROVE SetOptionsAsWritten
  <2> SUFFICES ASSUME NEW ws \in SetWords
               PROVE  /\ Bad(ws) # {} =>
                           set(ws) = Fail(ErrorAt(ws, CHOOSE i \in Bad(ws) : \A j \in Bad(ws) : i <= j))
                      /\ Bad(ws) = {} /\ Documented(ws) =>
                           LET i == Clock(ws)
                           IN  /\ set(ws).err = "none"
                               /\ set(ws).opts =
                                    [HasTTL    |-> Clocks(ws) # {},
                                     TTL       |-> IF Clocks(ws) = {} THEN 0
                                                   ELSE Duration(ParseInt(ws[i + 1]), Unit(ToUpper(ws[i]))),
                                     OnlyIfNew |-> IsOption(ws, NX),
                                     OnlyIfOld |-> IsOption(ws, XX)]
    BY Zenon DEF SetOptionsAsWritten
  <2>1. ws \in Seq(Seq(Byte))
    BY <1>1, SetWordsType
  <2>2. CASE Bad(ws) # {}
    BY <2>1, <2>2, SetReturns
  <2>3. CASE Bad(ws) = {} /\ Documented(ws) /\ Clocks(ws) # {}
    <3>1. Clock(ws) = LastClock(ws)
      BY <2>1, <2>3, OneClock
    <3> QED BY <2>1, <2>3, <3>1, SetReturns
  <2>4. CASE Bad(ws) = {} /\ Clocks(ws) = {}
    BY <2>1, <2>4, SetReturns
  <2> QED BY <2>2, <2>3, <2>4
<1> QED BY <1>1, WireInvTheorem, PTL

-----------------------------------------------------------------------------
(* Durations.                                                              *)

\* The remainder of a small number.
LEMMA ModSmall == ASSUME NEW m \in Nat, NEW a \in 0 .. m - 1 PROVE a % m = a
OBVIOUS

\* int64 holds it.
LEMMA WrapSmall == ASSUME NEW x \in 0 .. MaxInt PROVE Wrap(x) = x
<1>1. MaxInt \in Nat
  BY ArgumentsAssumption
<1> DEFINE m == 2 * (MaxInt + 1)
           a == x + MaxInt + 1
<1>2. m \in Nat /\ a \in 0 .. m - 1
  BY <1>1
<1>3. a % m = a
  <2> HIDE DEF a, m
  <2> QED BY <1>2, ModSmall
<1>4. Wrap(x) = a - (MaxInt + 1)
  <2>1. Wrap(x) = (a % m) - (MaxInt + 1)
    BY DEF Wrap
  <2> HIDE DEF a, m
  <2> QED BY <2>1, <1>3
<1> QED BY <1>1, <1>4

\* Quotient and remainder.
LEMMA Division ==
    ASSUME NEW x \in Nat, NEW m \in Nat \ {0}
    PROVE  /\ x \div m \in Nat
           /\ (x \div m) * m <= x /\ x < (x \div m) * m + m
OBVIOUS

\* There is one quotient.
LEMMA DivisionUnique ==
    ASSUME NEW n \in Nat, NEW m \in Nat \ {0}, NEW r \in 0 .. m - 1
    PROVE  (n * m + r) \div m = n
OBVIOUS

\* What is left of a duration, rounded up to seconds.
LEMMA RoundsUp ==
    ASSUME NEW left \in Nat, left + Second - 1 <= MaxInt
    PROVE  /\ TTLSeconds(left) = (left + Second - 1) \div Second
           /\ TTLSeconds(left) * Second >= left /\ (TTLSeconds(left) - 1) * Second < left
<1>1. Second \in Nat \ {0} /\ MaxInt \in Nat
  BY ArgumentsAssumption
<1> DEFINE x == left + Second - 1
           q == x \div Second
<1>2. x \in Nat /\ x \in 0 .. MaxInt
  BY <1>1
<1>3. Wrap(x) = x
  <2> HIDE DEF x
  <2> QED BY <1>2, WrapSmall
<1>4. TTLSeconds(left) = q
  <2>1. TTLSeconds(left) = Quotient(x, Second)
    BY <1>3 DEF TTLSeconds
  <2>2. ~(x < 0)
    BY <1>2
  <2> HIDE DEF x
  <2> QED BY <2>1, <2>2 DEF Quotient
<1>5. q \in Nat /\ q * Second <= x /\ x < q * Second + Second
  <2> HIDE DEF x
  <2> QED BY <1>1, <1>2, Division
<1> HIDE DEF q
<1>6. q * Second \in Nat /\ (q - 1) * Second = q * Second - Second
  BY <1>1, <1>5
<1>7. q * Second >= left /\ (q - 1) * Second < left
  BY <1>1, <1>5, <1>6
<1> QED BY <1>4, <1>7 DEF q

\* A duration that int64 holds is reported as it was given, and rounded up as it runs
\* down.
LEMMA GivenReported ==
    ASSUME NEW n \in Nat \ {0}, NEW unit \in {Second, Millisecond}, n * unit + Second - 1 <= MaxInt
    PROVE  LET ttl == Duration(n, unit)
           IN  /\ ttl = n * unit
               /\ (IF unit = Second THEN TTLSeconds(ttl) ELSE TTLMillis(ttl)) = n
               /\ \A left \in 0 .. ttl : LET s == TTLSeconds(left)
                                         IN  s * Second >= left /\ (s - 1) * Second < left
<1>1. Second \in Nat \ {0} /\ Millisecond \in Nat \ {0} /\ MaxInt \in Nat /\ unit \in Nat \ {0}
  BY ArgumentsAssumption
<1> DEFINE ttl == n * unit
<1>2. ttl \in Nat
  BY <1>1
<1>3. Duration(n, unit) = ttl
  <2> HIDE DEF ttl
  <2>1. ttl \in 0 .. MaxInt
    BY <1>1, <1>2 DEF ttl
  <2>2. Wrap(ttl) = ttl
    BY <2>1, WrapSmall
  <2> QED BY <2>2 DEF Duration, ttl
<1>4. ASSUME unit = Second PROVE TTLSeconds(ttl) = n
  <2>1. TTLSeconds(ttl) = (ttl + Second - 1) \div Second
    <3>1. ttl + Second - 1 <= MaxInt
      OBVIOUS
    <3> HIDE DEF ttl
    <3> QED BY <1>2, <3>1, RoundsUp
  <2>2. Second - 1 \in 0 .. Second - 1 /\ ttl + Second - 1 = n * Second + (Second - 1)
    BY <1>1, <1>2, <1>4
  <2>3. (n * Second + (Second - 1)) \div Second = n
    BY <1>1, <2>2, DivisionUnique
  <2> QED BY <2>1, <2>2, <2>3
<1>5. ASSUME unit # Second PROVE TTLMillis(ttl) = n
  <2>1. unit = Millisecond
    BY <1>5
  <2>2. TTLMillis(ttl) = ttl \div Millisecond
    <3>1. ~(ttl < 0)
      BY <1>2
    <3> HIDE DEF ttl
    <3> QED BY <3>1 DEF TTLMillis, Quotient
  <2>3. 0 \in 0 .. Millisecond - 1 /\ n * Millisecond + 0 = ttl
    BY <1>1, <1>2, <2>1
  <2>4. (n * Millisecond + 0) \div Millisecond = n
    BY <1>1, <2>3, DivisionUnique
  <2> QED BY <2>2, <2>3, <2>4
<1>6. (IF unit = Second THEN TTLSeconds(ttl) ELSE TTLMillis(ttl)) = n
  <2>1. unit = Second => TTLSeconds(ttl) = n
    BY <1>4
  <2>2. unit # Second => TTLMillis(ttl) = n
    BY <1>5
  <2> HIDE DEF ttl
  <2> QED BY <2>1, <2>2
<1>7. ASSUME NEW left \in 0 .. ttl
      PROVE  TTLSeconds(left) * Second >= left /\ (TTLSeconds(left) - 1) * Second < left
  <2>0. ttl + Second - 1 <= MaxInt
    OBVIOUS
  <2> HIDE DEF ttl
  <2>1. left \in Nat /\ left + Second - 1 <= MaxInt
    BY <2>0, <1>1, <1>2
  <2> QED BY <2>1, RoundsUp
<1> QED BY <1>3, <1>6, <1>7

\* The number of the last expiry is one.
LEMMA LastNumber ==
    ASSUME NEW ws \in Seq(Seq(Byte)), Bad(ws) = {}, Clocks(ws) # {}
    PROVE  /\ ParseInt(ws[LastClock(ws) + 1]) \in Int
           /\ Unit(ToUpper(ws[LastClock(ws)])) \in {Second, Millisecond}
<1> DEFINE S == Clocks(ws)
<1>1. S \subseteq 1 .. Len(ws) /\ Len(ws) \in Nat
  BY DEF Clocks
<1>2. \E c \in S : \A j \in S : j <= c
  <2> DEFINE Left == {Len(ws) - j : j \in S}
  <2>1. Left \in SUBSET Nat /\ Left # {}
    BY <1>1
  <2>2. PICK u \in Left : \A y \in Left : u <= y
    <3> HIDE DEF Left
    <3> QED BY <2>1, MarshalRec!Least
  <2>3. PICK c \in S : u = Len(ws) - c
    OBVIOUS
  <2>4. ASSUME NEW j \in S PROVE j <= c
    <3>1. Len(ws) - j \in Left
      OBVIOUS
    <3>2. u <= Len(ws) - j
      BY <3>1, <2>2
    <3>3. j \in 1 .. Len(ws) /\ c \in 1 .. Len(ws)
      BY <1>1
    <3> QED BY <3>2, <3>3, <2>3, <1>1
  <2> QED BY <2>4
<1> DEFINE c == LastClock(ws)
<1>3. c \in S
  BY <1>2 DEF LastClock
<1>4. c \in DOMAIN ws /\ Timed(ws, c) /\ ~IsArgument(ws, c)
  BY <1>3 DEF Clocks
<1> HIDE DEF c, S
<1>5. ErrorAt(ws, c) = "none"
  BY <1>4 DEF Bad
<1>6. c # Len(ws)
  BY <1>4, <1>5 DEF ErrorAt
<1>7. c \in Nat /\ c >= 1 /\ c + 1 \in DOMAIN ws
  BY <1>4, <1>6
<1>8. IsArgument(ws, c + 1)
  BY <1>4, <1>7, ArgumentNext
<1>9. ErrorAt(ws, c + 1) = "none"
  BY <1>7 DEF Bad
<1>10. ParseInt(ws[c + 1]) # NotAnInteger
  BY <1>8, <1>9 DEF ErrorAt
<1>11. ParseInt(ws[c + 1]) \in Int
  BY <1>10, ParseIntType
<1>12. Unit(ToUpper(ws[c])) \in {Second, Millisecond}
  BY DEF Unit
<1> QED BY <1>11, <1>12 DEF c

\* TTL and PTTL report an expiry at once as it was asked for, and TTL later what is left,
\* rounded up, for every SET whose options are as documented and whose expiry int64 can
\* express.
THEOREM ExpiryTheorem == Spec => []ExpiryAsAsked
<1>1. ASSUME WireInv PROVE ExpiryAsAsked
  <2> DEFINE unit(ws) == Unit(ToUpper(ws[Clock(ws)]))
             n(ws)    == ParseInt(ws[Clock(ws) + 1])
             ttl(ws)  == set(ws).opts.TTL
  <2>1. ASSUME NEW ws \in SetWords, Bad(ws) = {}, Documented(ws), Clocks(ws) # {}, n(ws) > 0,
               n(ws) * unit(ws) + Second - 1 <= MaxInt
        PROVE  /\ (IF unit(ws) = Second THEN TTLSeconds(ttl(ws)) ELSE TTLMillis(ttl(ws))) = n(ws)
               /\ \A left \in 0 .. ttl(ws) : LET s == TTLSeconds(left)
                                             IN  s * Second >= left /\ (s - 1) * Second < left
    <3>1. ws \in Seq(Seq(Byte))
      BY <1>1, SetWordsType
    <3>0. Clock(ws) = LastClock(ws)
      BY <2>1, <3>1, OneClock
    <3>2. n(ws) \in Int /\ unit(ws) \in {Second, Millisecond}
      BY <2>1, <3>0, <3>1, LastNumber
    <3>3. ttl(ws) = Duration(n(ws), unit(ws))
      <4>1. set(ws).opts = Opts(Clocks(ws) # {}, IF Clocks(ws) = {} THEN 0 ELSE Duration(n(ws), unit(ws)),
                                IsOption(ws, NX), IsOption(ws, XX))
        BY <2>1, <3>0, <3>1, SetReturns DEF Opts
      <4> HIDE DEF n, unit
      <4> QED BY <2>1, <4>1 DEF Opts
    <3>4. n(ws) \in Nat \ {0}
      BY <2>1, <3>2
    <3> HIDE DEF n, unit, ttl
    <3> QED BY <2>1, <3>2, <3>3, <3>4, GivenReported
  <2> QED BY <2>1 DEF ExpiryAsAsked
<1> QED BY <1>1, WireInvTheorem, PTL
=============================================================================
