------------------------------ MODULE MCStore -------------------------------
(* Store on small instances: int64 shrinks to -2 .. 1, and strings to the   *)
(* few below: "01" is a number that FormatInt never prints, and "x1" stands *)
(* for every longer string, none of which is a number in the range.         *)
EXTENDS Store

MCStr == {"-2", "-1", "0", "1", "01", "x", "x1"}

MCParseInt(s) ==
    CASE s = "-2" -> -2 [] s = "-1" -> -1 [] s = "0" -> 0 [] s \in {"1", "01"} -> 1
      [] OTHER -> NotAnInteger

MCFormatInt(n) == CASE n = -2 -> "-2" [] n = -1 -> "-1" [] n = 0 -> "0" [] n = 1 -> "1"
                    [] OTHER -> "out of range"

\* The order of their bytes.
Sorted == <<"-1", "-2", "0", "01", "1", "x", "x1">>
MCPrecedes(s, t) == \E i, j \in DOMAIN Sorted : i < j /\ Sorted[i] = s /\ Sorted[j] = t
MCLength(s) == Len(s)

MCConcat(s, t) == IF s = "0" /\ t = "1" THEN "01" ELSE "x1"

Opt(t, new, old) ==
    [HasTTL |-> t # {}, TTL |-> IF t = {} THEN 0 ELSE CHOOSE x \in t : TRUE,
     OnlyIfNew |-> new, OnlyIfOld |-> old]

MCOptions == {Opt({}, FALSE, FALSE), Opt({1}, FALSE, FALSE), Opt({}, TRUE, FALSE),
              Opt({0}, FALSE, TRUE)}

\* States that differ only in the last reply, in the time of a tick that has been dealt
\* with, or in a tick that nobody waits for, are the same to every next step.
MCView == <<data, now, IF sweeper = "done" THEN 0 ELSE tick, sweeper,
            IF sweeper = "sweep" THEN sweepTime ELSE 0, closed>>

MCDelta == {1, -2}
=============================================================================
