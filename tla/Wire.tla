-------------------------------- MODULE Wire --------------------------------
(***************************************************************************)
(* Frames on their way through a stream of bytes, which is a connection    *)
(* (requests one way, replies the other) or the append-only file: Writer   *)
(* on one end, Reader on the other.                                        *)
(*                                                                         *)
(* The writing process may die, or power may be lost, with any number of   *)
(* bytes on their way: they are cut off.  A connection then ends there; a  *)
(* file is opened again, and appended to right after the fragment.         *)
(***************************************************************************)
EXTENDS Arguments

CONSTANTS
    Values,     \* those of them that are written
    MaxFrames,  \* bound: frames written before the cut
    MaxBytes,   \* bound: the length of the stream
    MaxTail     \* bound: its length once a frame was written after the cut

VARIABLES
    stream,  \* the bytes written
    pos,     \* how many of them the reader has consumed
    got,     \* the values that Read has returned
    status,  \* "reading", or the error that Read has returned
    ended,   \* the reader can see the end of the stream
    \* History, which the code does not keep:
    frames,  \* the frames written before the cut, if any
    whole,   \* how many of them are in the stream from first byte to last
    cut      \* 0 if nothing was cut off, 1 after a cut, 2 if more was written after it

ASSUME ValuesAssumption == Values \subseteq Value

vars == <<stream, pos, got, status, ended, frames, whole, cut>>

Init ==
    /\ stream = <<>> /\ pos = 0 /\ got = <<>> /\ status = "reading" /\ ended = FALSE
    /\ frames = <<>> /\ whole = 0 /\ cut = 0

Bytes(fs) == FlattenSeq([i \in DOMAIN fs |-> Marshal[fs[i]]])

\* What Writer.Write writes for each value.
Encoding == [v \in Values |-> Bytes(Frames[v])]

\* Writer.Write, or AOF.Append.
Write(v) ==
    LET len == Len(stream) + Len(Encoding[v])
    IN  /\ ~ended
        /\ \/ /\ cut = 0 /\ cut' = 0
              /\ len <= MaxBytes /\ Len(frames) + Len(Frames[v]) <= MaxFrames
              /\ frames' = frames \o Frames[v]
              /\ whole' = Len(frames')
           \/ /\ cut = 1 /\ cut' = 2
              /\ len <= MaxTail
              /\ UNCHANGED <<frames, whole>>
        /\ stream' = stream \o Encoding[v]
        /\ UNCHANGED <<pos, got, status, ended>>

\* Where the i-th frame ends.
EndOf(i) == Len(Bytes(SubSeq(frames, 1, i)))

\* Only the first n bytes make it.
Cut(n) ==
    /\ cut = 0 /\ ~ended /\ n < Len(stream)
    /\ stream' = SubSeq(stream, 1, n)
    /\ \E m \in 0 .. Len(frames) - 1 : EndOf(m) <= n /\ n < EndOf(m + 1) /\ whole' = m
    /\ cut' = 1
    /\ UNCHANGED <<pos, got, status, ended, frames>>

\* The connection is closed; or the file is read, and nobody writes.
End ==
    /\ ~ended /\ ended' = TRUE
    /\ UNCHANGED <<stream, pos, got, status, frames, whole, cut>>

\* Reader.Read blocks while the stream may still go on.  Its callers, the loops of
\* Replay and handleConn, stop at the first error.
ReadNext ==
    LET r == Read(Skip(stream, pos))
    IN  /\ status = "reading"
        /\ r.err \in {"EOF", "UnexpectedEOF"} => ended
        /\ IF r.err = "none"
           THEN got' = Append(got, r.val) /\ pos' = Len(stream) - Len(r.rest) /\ UNCHANGED status
           ELSE status' = r.err /\ UNCHANGED <<got, pos>>
        /\ UNCHANGED <<stream, ended, frames, whole, cut>>

Next ==
    \/ \E v \in Values : Write(v)
    \/ \E n \in pos .. Len(stream) : Cut(n)
    \/ End
    \/ ReadNext

Spec == Init /\ [][Next]_vars

-----------------------------------------------------------------------------
(* Properties.                                                             *)

\* What a reader makes of a value: a bundle inside of an array is an array.
Unmarked[v \in Value] ==
    IF v[1] = "*" /\ Len(v) > 1 THEN Array([i \in DOMAIN v[2] |-> Unmarked[v[2][i]]]) ELSE v

\* Marshal and Read agree on where a frame ends: the frames that made it into the
\* stream whole come out as they went in, one by one and none missing, whatever bytes
\* they contain (a bulk string may contain CR LF, or the text of another frame) and
\* whatever follows them.
InStep ==
    /\ \A i \in 1 .. whole : i <= Len(got) => got[i] = Unmarked[frames[i]]
    /\ status # "reading" => Len(got) >= whole

\* A frame that was cut off anywhere yields no value, neither itself nor one of the
\* values inside of it, and no error but the end of the stream.  Replay tells a clean
\* end from a torn frame by the kind of that error: ErrUnexpectedEOF always means a
\* torn frame.  (io.EOF does not mean a clean end: see persist_torn_loss.)
NothingFromFragment ==
    cut < 2 =>
        /\ Len(got) <= whole
        /\ status \in {"reading", "EOF", "UnexpectedEOF"}
        /\ status = "UnexpectedEOF" => cut = 1 /\ pos < Len(stream)

-----------------------------------------------------------------------------
(* What the options of a SET mean, word by word rather than by a loop.     *)

\* args[i].Str
Text(v) == IF v[1] \in {"+", "-", "$"} /\ Len(v) = 2 THEN v[2] ELSE <<>>

IsSet(v) == v[1] = "*" /\ Len(v) = 2 /\ v[2] # <<>> /\ v[2][1] = Bulk(<<"SET">>)

\* The options of the SET requests that were read: what follows key and value.
SetWords == {[j \in 1 .. Len(v[2]) - 3 |-> Text(v[2][j + 3])] :
                v \in {got[i] : i \in {k \in DOMAIN got : IsSet(got[k])}}}

Timed(ws, i) == ToUpper(ws[i]) \in {EX, PX}

\* Word i is the number of the option before it: an odd number of EX and PX in a row
\* come before it, of which every other one is itself taken for a number.
IsArgument(ws, i) ==
    \E k \in 1 .. i - 1 : /\ (i - k) % 2 = 1
                          /\ \A j \in k .. i - 1 : Timed(ws, j)
                          /\ k = 1 \/ ~Timed(ws, k - 1)

\* The error that word i causes.
ErrorAt(ws, i) ==
    IF IsArgument(ws, i) THEN IF ParseInt(ws[i]) = NotAnInteger THEN "integer" ELSE "none"
    ELSE IF Timed(ws, i) THEN IF i = Len(ws) THEN "syntax" ELSE "none"
    ELSE IF ToUpper(ws[i]) \in {NX, XX} THEN "none" ELSE "syntax"

Bad(ws) == {i \in DOMAIN ws : ErrorAt(ws, i) # "none"}

IsOption(ws, option) == \E i \in DOMAIN ws : ~IsArgument(ws, i) /\ ToUpper(ws[i]) = option

\* The options with a number.
Clocks(ws) == {i \in DOMAIN ws : Timed(ws, i) /\ ~IsArgument(ws, i)}

\* "SET key value [EX seconds | PX milliseconds] [NX | XX]" (strings.go, above set): one of
\* each, or none.
Documented(ws) ==
    /\ \A i, j \in Clocks(ws) : i = j
    /\ ~(IsOption(ws, NX) /\ IsOption(ws, XX))

\* The one option with a number.
Clock(ws) == CHOOSE i \in Clocks(ws) : TRUE

Unit(option) == IF option = EX THEN Second ELSE Millisecond

\* set takes the word after EX and PX for a number and never for an option, and reports
\* the first word that is wrong.  Of options that are as documented, in any order and
\* case, it hands all to Store.Set.  (It also accepts EX with PX and NX with XX, which
\* are documented as alternatives.)
SetOptionsAsWritten ==
    \A ws \in SetWords :
        /\ Bad(ws) # {} =>
             set(ws) = Fail(ErrorAt(ws, CHOOSE i \in Bad(ws) : \A j \in Bad(ws) : i <= j))
        /\ Bad(ws) = {} /\ Documented(ws) =>
             LET i == Clock(ws)
             IN  /\ set(ws).err = "none"
                 /\ set(ws).opts =
                      [HasTTL    |-> Clocks(ws) # {},
                       TTL       |-> IF Clocks(ws) = {} THEN 0
                                     ELSE Duration(ParseInt(ws[i + 1]), Unit(ToUpper(ws[i]))),
                       OnlyIfNew |-> IsOption(ws, NX),
                       OnlyIfOld |-> IsOption(ws, XX)]

\* A key that was given n seconds reports n at once, and at every later moment the
\* seconds that are left, rounded up, so that it is 0 only once nothing is left (the
\* comment above TTLSeconds); one that was given n milliseconds reports n at once.  This
\* is for the expiries that int64 nanoseconds can express and that are not in the last
\* second before they overflow.  (Of what PTTL reports later nothing is said: TTLMillis
\* rounds down, although its comment calls it TTLSeconds at another resolution.)
ExpiryAsAsked ==
    \A ws \in SetWords : Bad(ws) = {} /\ Documented(ws) /\ Clocks(ws) # {} =>
        LET unit == Unit(ToUpper(ws[Clock(ws)]))
            n    == ParseInt(ws[Clock(ws) + 1])
            ttl  == set(ws).opts.TTL
        IN  n > 0 /\ n * unit + Second - 1 <= MaxInt =>
                /\ (IF unit = Second THEN TTLSeconds(ttl) ELSE TTLMillis(ttl)) = n
                /\ \A left \in 0 .. ttl : LET s == TTLSeconds(left)
                                          IN  s * Second >= left /\ (s - 1) * Second < left
=============================================================================
