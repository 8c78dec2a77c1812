----------------------------- MODULE Arguments ------------------------------
(***************************************************************************)
(* How the handlers of internal/command read numbers, durations and        *)
(* options off their arguments, and how TTL and PTTL print a duration: the *)
(* conversions between the wire and the arguments of Keyspace.             *)
(***************************************************************************)
EXTENDS Resp

CONSTANTS
    MaxInt,              \* the largest int64
    Second, Millisecond  \* time.Second and time.Millisecond

ASSUME ArgumentsAssumption ==
    MaxInt \in Nat /\ Millisecond \in Nat \ {0} /\ Second \in Nat /\ Second >= Millisecond

\* The int64 that n wraps around to.
Wrap(n) == ((n + MaxInt + 1) % (2 * (MaxInt + 1))) - (MaxInt + 1)

\* Go's division truncates.
Quotient(n, m) == IF n < 0 THEN -((-n) \div m) ELSE n \div m

\* time.Duration(n) * unit.  SETEX, EXPIRE and PEXPIRE convert the same way.
Duration(n, unit) == Wrap(n * unit)

\* strings.ToUpper
ToUpper(s) == IF s = <<"ex">> THEN <<"EX">> ELSE s

NX == <<"NX">>
XX == <<"XX">>
EX == <<"EX">>
PX == <<"PX">>

NoOptions == [HasTTL |-> FALSE, TTL |-> 0, OnlyIfNew |-> FALSE, OnlyIfOld |-> FALSE]

\* Mutant: the number is not skipped.
ConsumedOne(option) == 1

\* How many words the loop of set takes for an option.
Consumed(option) == IF option \in {EX, PX} THEN 2 ELSE 1

SetOptions == [HasTTL : BOOLEAN, TTL : Int, OnlyIfNew : BOOLEAN, OnlyIfOld : BOOLEAN]

\* The body of the loop of set over the words that follow key and value, the last left of
\* which are still to be read; loop is what comes after it.
setWord(loop, words, left, opts) ==
    LET i == Len(words) - left + 1
        w == ToUpper(words[i])
        n == ParseInt(words[i + 1])
        next(o) == loop[left - Consumed(w)][words][o]
    IN  CASE w = NX -> next([opts EXCEPT !.OnlyIfNew = TRUE])
          [] w = XX -> next([opts EXCEPT !.OnlyIfOld = TRUE])
          [] w \in {EX, PX} ->
               IF left = 1 THEN Fail("syntax")
               ELSE IF n = NotAnInteger THEN Fail("integer")
               ELSE next([opts EXCEPT !.HasTTL = TRUE,
                                      !.TTL = Duration(n, IF w = EX THEN Second ELSE Millisecond)])
          [] OTHER -> Fail("syntax")

setFrom[left \in Nat] ==
    [words \in Seq(Seq(Byte)) |-> [opts \in SetOptions |->
        IF left = 0 THEN [err |-> "none", opts |-> opts]
        ELSE setWord(setFrom, words, left, opts)]]

set(words) == setFrom[Len(words)][words][NoOptions]

\* Mutant: rounded down.
TTLSecondsDown(remaining) == Quotient(remaining, Second)

\* The last lines of TTLSeconds and TTLMillis; remaining is not negative.
TTLSeconds(remaining) == Quotient(Wrap(remaining + Second - 1), Second)

TTLMillis(remaining) == Quotient(remaining, Millisecond)
=============================================================================
