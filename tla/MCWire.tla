------------------------------- MODULE MCWire -------------------------------
(* Wire on a small instance: int64 shrinks to -16 .. 15, a second to four   *)
(* nanoseconds, a millisecond to two.                                       *)
EXTENDS Wire

MCNumeral == [n \in -1 .. 15 |-> ToString(n)]

\* Replies: every type, nulls and empties, a bulk string that holds the text of an
\* integer frame, and bundles at the top and inside of an array (SUBSCRIBE under EXEC).
Replies == {
    Str(<<"o">>), Errorf(<<"e">>), Int64(-1), Bulk(<<>>), Bulk(<<"CR", "LF", ":", "0", "CR", "LF">>),
    NullBulk, NullArray, Array(<<>>),
    Array(<<Int64(1), Array(<<Bulk(<<"x">>), NullBulk>>), Str(<<>>)>>),
    MultiFrame(<<Array(<<Bulk(<<"x">>), Int64(1)>>), Int64(2)>>),
    Array(<<MultiFrame(<<Int64(1), Int64(2)>>)>>)}

\* SET k v with every one or two words, three of the essential ones, and two expiries.
Word == {NX, XX, EX, <<"ex">>, PX, <<"3">>, <<"4">>, <<"z">>}
Options == UNION ({[1 .. n -> Word] : n \in 0 .. 2} \union {[1 .. 3 -> {NX, EX, <<"3">>}]})
            \union {<<a, <<"3">>, b, c>> : a \in {EX, PX}, b \in {EX, PX}, c \in {<<"2">>, NX}}
Sets == {BulkStrings(<<<<"SET">>, <<"k">>, <<"v">>>> \o ws) : ws \in Options}

MCValues == Replies \union Sets

RECURSIVE Parts(_), Nesting(_)
Parts(v) == {v} \union (IF v[1] = "*" /\ Len(v) > 1 THEN UNION {Parts(w) : w \in ToSet(v[2])} ELSE {})
Nesting(v) == IF v[1] = "*" /\ Len(v) > 1 THEN 1 + Max({Nesting(w) : w \in ToSet(v[2])} \union {0}) ELSE 0

MCValue == UNION {Parts(v) : v \in MCValues}
MCDepth == [v \in MCValue |-> Nesting(v)]
MCByte  == {"+", "-", ":", "$", "*", "CR", "LF", "o", "e", "k", "v", "x", "z", "SET", "NX", "XX", "EX", "ex", "PX"}
             \union {MCNumeral[n] : n \in DOMAIN MCNumeral}
=============================================================================
