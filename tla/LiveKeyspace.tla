---------------------------- MODULE LiveKeyspace ----------------------------
(***************************************************************************)
(* What the store promises its clients about expiry: commands run on a     *)
(* keyspace from which a key vanishes at the very instant its deadline is  *)
(* reached.  There is no lazy check, no sweeper and no leftover entry:     *)
(* live holds exactly the keys that exist, and it changes by commands and  *)
(* by deadlines only.                                                      *)
(***************************************************************************)
EXTENDS Integers

CONSTANTS
    Command,         \* what clients can ask for
    Apply(_, _, _),  \* what running c on d at time t does (.data) and replies (.reply)
    Elapsed(_),      \* how long c runs
    Nothing,         \* no command has run yet
    Epoch            \* the clock when the server starts

VARIABLES
    live,  \* the keys that exist
    now,   \* the clock
    last   \* the command that ran last, and its reply

\* The entries whose deadline, if any, lies ahead at time t.
Alive(d, t) == [k \in {x \in DOMAIN d : d[x].expireAt = 0 \/ t < d[x].expireAt} |-> d[k]]

LiveInit == live = [k \in {} |-> k] /\ now = Epoch /\ last = Nothing

Run(c) ==
    /\ last' = [cmd |-> c, reply |-> Apply(live, now, c).reply]
    /\ now' = now + Elapsed(c)
    /\ live' = Alive(Apply(live, now, c).data, now')

TimePasses ==
    /\ now' = now + 1
    /\ live' = Alive(live, now')
    /\ last' = last

\* Run names its command in last': looking only there spares TLC all the others.
LiveNext == TimePasses \/ \E c \in {last'.cmd} \cap Command : Run(c)

LiveSpec == LiveInit /\ [][LiveNext]_<<live, now, last>>
=============================================================================
