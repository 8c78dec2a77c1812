-------------------------------- MODULE Resp --------------------------------
(***************************************************************************)
(* The wire format of internal/resp, as pure operators: Value.Marshal, and *)
(* Reader.Read with the helpers that it calls.                             *)
(*                                                                         *)
(* Bytes are tokens: the five type markers, CR, LF, letters, and numerals, *)
(* each of which counts as one byte (where a numeral is cut makes no       *)
(* difference to a reader that wants the whole line).  A string is a       *)
(* sequence of tokens.  Operators that read take the bytes from the next   *)
(* one on, up to the end of the stream.                                    *)
(***************************************************************************)
EXTENDS Integers, Sequences, SequencesExt

CONSTANTS
    Byte,          \* the tokens
    Numeral,       \* Numeral[n]: the token of the number n
    NotAnInteger,  \* strconv.ParseInt's error
    Value,         \* the values of the program: the elements of an array are among them
    Depth          \* Depth[v]: how deep the arrays of v are nested

\* Values are tuples <<type, Str>>, <<type, Num>>, <<type, Elems>> or <<type>> (Null).
Str(s)         == <<"+", s>>
Errorf(s)      == <<"-", s>>
Int64(n)       == <<":", n>>
Bulk(s)        == <<"$", s>>
NullBulk       == <<"$">>
Array(vs)      == <<"*", vs>>
NullArray      == <<"*">>
BulkStrings(ss) == Array([i \in DOMAIN ss |-> Bulk(ss[i])])
\* Type is TypeArray here too; only Writer.Write looks at the mark.
MultiFrame(vs) == <<"*", vs, "Multi">>

CRLF == <<"CR", "LF">>

ASSUME NumeralAssumption ==
    /\ {"+", "-", ":", "$", "*", "CR", "LF"} \subseteq Byte
    /\ DOMAIN Numeral \subseteq Int /\ -1 \in DOMAIN Numeral
    /\ \A n \in DOMAIN Numeral : Numeral[n] \in Byte \ {"LF"}
    /\ \A m, n \in DOMAIN Numeral : Numeral[m] = Numeral[n] => m = n
    /\ NotAnInteger \notin DOMAIN Numeral

\* Simple strings and errors are one line: that of unknownCommand may not be one, if the
\* client's words are none.
IsLine(v)  == v \in {"+", "-"} \X Seq(Byte \ {"LF"})
IsInt(v)   == v \in {":"} \X DOMAIN Numeral
IsNull(v)  == v \in {NullBulk, NullArray}
IsBulk(v)  == v \in {"$"} \X Seq(Byte) /\ Len(v[2]) \in DOMAIN Numeral
IsArray(v) == /\ v \in {"*"} \X Seq(Value) \/ v \in {"*"} \X Seq(Value) \X {"Multi"}
              /\ Len(v[2]) \in DOMAIN Numeral

ASSUME ValueAssumption ==
    \A v \in Value :
        /\ IsLine(v) \/ IsInt(v) \/ IsNull(v) \/ IsBulk(v) \/ IsArray(v)
        /\ Depth[v] \in Nat
        /\ IsArray(v) => \A i \in DOMAIN v[2] : Depth[v[2][i]] < Depth[v]

-----------------------------------------------------------------------------
(* value.go                                                                *)

marshalLine(prefix, s) == <<prefix>> \o s \o CRLF

\* Mutant: the length counts the line end.
marshalBulkLong(s) == marshalLine("$", <<Numeral[Len(s) + 2]>>) \o s \o CRLF

marshalBulk(s) == marshalLine("$", <<Numeral[Len(s)]>>) \o s \o CRLF

Marshal[v \in Value] ==
    CASE v[1] \in {"+", "-"}       -> marshalLine(v[1], v[2])
      [] v[1] = ":"                -> marshalLine(":", <<Numeral[v[2]]>>)
      [] Len(v) = 1                -> marshalLine(v[1], <<Numeral[-1]>>)
      [] v[1] = "$" /\ Len(v) = 2  -> marshalBulk(v[2])
      [] OTHER                     -> marshalLine("*", <<Numeral[Len(v[2])]>>)
                                        \o FlattenSeq([i \in DOMAIN v[2] |-> Marshal[v[2][i]]])

\* Writer.Write: the frames it writes for v.
Frames[v \in Value] ==
    IF Len(v) = 3 THEN FlattenSeq([i \in DOMAIN v[2] |-> Frames[v[2][i]]]) ELSE <<v>>

-----------------------------------------------------------------------------
(* reader.go.  What an operator returns: a value and the bytes after it,   *)
(* or an error.  ReadByte and ReadString report the end of the stream as   *)
(* io.EOF, ReadFull as io.ErrUnexpectedEOF once it has read something.     *)

Ok(val, rest) == [err |-> "none", val |-> val, rest |-> rest]
Fail(err)     == [err |-> err]

\* b without its first n bytes.
Skip(b, n) == SubSeq(b, n + 1, Len(b))

\* Mutant: what there is of the last line is taken for a line.
readLineLenient(b) ==
    IF "LF" \notin ToSet(b) THEN Ok(b, <<>>)
    ELSE LET n == CHOOSE i \in DOMAIN b : b[i] = "LF" /\ \A j \in 1 .. i - 1 : b[j] # "LF"
         IN  IF n < 2 \/ b[n - 1] # "CR" THEN Fail("malformed")
             ELSE Ok(SubSeq(b, 1, n - 2), Skip(b, n))

readLine(b) ==
    IF "LF" \notin ToSet(b) THEN Fail("EOF")
    ELSE LET n == CHOOSE i \in DOMAIN b : b[i] = "LF" /\ \A j \in 1 .. i - 1 : b[j] # "LF"
         IN  IF n < 2 \/ b[n - 1] # "CR" THEN Fail("malformed")
             ELSE Ok(SubSeq(b, 1, n - 2), Skip(b, n))

\* strconv.ParseInt
ParseInt(s) ==
    IF \E n \in DOMAIN Numeral : s = <<Numeral[n]>>
    THEN CHOOSE n \in DOMAIN Numeral : s = <<Numeral[n]>> ELSE NotAnInteger

readInteger(b) ==
    LET line == readLine(b)
    IN  IF line.err # "none" THEN line
        ELSE IF ParseInt(line.val) = NotAnInteger THEN Fail("integer")
        ELSE Ok(ParseInt(line.val), line.rest)

\* The line end after the bytes is read as a line, whatever is in it.
readBulk(b) ==
    LET len  == readInteger(b)
        tail == readLine(Skip(len.rest, len.val))
    IN  IF len.err # "none" THEN len
        ELSE IF len.val < 0 THEN Ok(NullBulk, len.rest)
        ELSE IF len.val > 0 /\ len.rest = <<>> THEN Fail("EOF")
        ELSE IF len.val > Len(len.rest) THEN Fail("UnexpectedEOF")
        ELSE IF tail.err # "none" THEN tail
        ELSE Ok(Bulk(SubSeq(len.rest, 1, len.val)), tail.rest)

\* A line as a value.
asValue(type, line) == IF line.err # "none" THEN line ELSE Ok(<<type, line.val>>, line.rest)

\* readArray; readElems reads its elements.
readArray(elems, b) ==
    LET len == readInteger(b)
        vs  == elems[len.rest][len.val]
    IN  IF len.err # "none" THEN len
        ELSE IF len.val < 0 THEN Ok(NullArray, len.rest)
        ELSE IF vs.err # "none" THEN vs
        ELSE Ok(Array(vs.val), vs.rest)

\* Read, where elems reads the elements of an array.
ReadWith(elems, b) ==
    IF b = <<>> THEN Fail("EOF")
    ELSE CASE b[1] = "*" -> readArray(elems, Tail(b))
           [] b[1] = "$" -> readBulk(Tail(b))
           [] b[1] \in {"+", "-"} -> asValue(b[1], readLine(Tail(b)))
           [] b[1] = ":" -> asValue(":", readInteger(Tail(b)))
           [] OTHER -> Fail("unknown type")

\* The loop of readArray with n > 0 elements still to be read; elems reads those after
\* the first one.
readElem(elems, b, n) ==
    LET v  == ReadWith(elems, b)
        vs == elems[v.rest][n - 1]
    IN  IF v.err # "none" THEN v
        ELSE IF vs.err # "none" THEN vs
        ELSE Ok(<<v.val>> \o vs.val, vs.rest)

\* Every element takes a byte, so that k, the depth of the recursion, never comes to 0
\* before the bytes run out if it starts at their number.
readElems[k \in Nat] ==
    [b \in Seq(Byte) |-> [n \in Nat |->
        IF n = 0 THEN Ok(<<>>, b)
        ELSE IF k = 0 THEN Fail("EOF")
        ELSE readElem(readElems[k - 1], b, n)]]

Read(b) == ReadWith(readElems[Len(b)], b)
=============================================================================
