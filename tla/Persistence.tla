---------------------------- MODULE Persistence -----------------------------
(***************************************************************************)
(* Commands on their way from a connection to the store and the            *)
(* append-only file, and from the file back into the store: the request    *)
(* loop of handleConn, Context and the handlers of transaction.go,         *)
(* Registry.Dispatch, package aof, and Server.New with its replay.         *)
(*                                                                         *)
(* Dispatch runs the handler under Store.mu and appends under AOF.mu, and  *)
(* holds nothing in between: another connection can get in.  The file is   *)
(* in the page cache until the sync loop has flushed it.  The process may  *)
(* be killed at any point (a graceful shutdown stops it when no request is *)
(* being served, which is one of these points), and the machine may lose   *)
(* power.                                                                  *)
(*                                                                         *)
(* The store is used through what LiveKeyspace promises and Store          *)
(* implements: keys vanish at their deadline.                              *)
(***************************************************************************)
EXTENDS Commands

CONSTANTS
    Conn,        \* connections
    Requests,    \* Requests[c]: what the client of c sends
    Faults,      \* which of "power", "torn", "append" and "sync" can happen
    MaxRequests, \* bound: requests served
    MaxCrashes,  \* bound: crashes
    MaxTime      \* bound: the clock stops there

\* The names in commandsBypassingQueue; BADCONTROL is one of the three with arguments,
\* which validate refuses.
Bypassing == {"MULTI", "EXEC", "DISCARD", "BADCONTROL"}

\* BAD is any other command that validate refuses: an unknown name or a wrong arity.
Control == [op : Bypassing \cup {"BAD"}]

ASSUME PersistenceAssumption ==
    /\ \A c \in Conn : Requests[c] \subseteq Command \cup Control
    /\ Faults \subseteq {"power", "torn", "append", "sync"}
    /\ MaxRequests \in Nat /\ MaxCrashes \in Nat /\ MaxTime \in Nat

VARIABLES
    data,     \* the live part of Store.data
    now,      \* the clock
    inTx,     \* Context.inTx
    queue,    \* Context.queue
    txError,  \* Context.txError
    pc,       \* where the request loop is: "read", "run", "log" or "reply"
    run,      \* the commands of the request: one, or the queue EXEC took
    at,       \* the one of them that is being dispatched
    file,     \* the append-only file: its frames, the last ones perhaps cut
    synced,   \* how many of them are on the disk for certain
    server,   \* "up", "down", "replaying", or "failed": New returned an error
    pos,      \* how many frames replay has read
    served, crashes, \* counted for the bounds
    \* History, which the code does not keep:
    states,   \* states[i + 1]: what the first i frames made of the keyspace
    sent,     \* what queueCommand was given since the last MULTI
    ranAt,    \* when the handler of the connection's last write ran
    written   \* how many writes of the connection succeeded, minus those a crash undid

store   == <<data, now>>
context == <<inTx, queue, txError, sent>>
loop    == <<pc, run, at, ranAt, written>>
aof     == <<file, synced, states>>
process == <<server, pos, crashes>>
vars    == <<data, now, inTx, queue, txError, sent, pc, run, at, ranAt, written, file, synced,
             states, server, pos, crashes, served>>

Frame == [by : Conn, cmd : Command, torn : BOOLEAN]

TypeOK ==
    /\ IsKeyspace(data) /\ now \in Nat
    /\ inTx \in [Conn -> BOOLEAN] /\ txError \in [Conn -> BOOLEAN]
    /\ queue \in [Conn -> Seq(Command)] /\ sent \in [Conn -> Seq(Command \cup Control)]
    /\ pc \in [Conn -> {"read", "run", "log", "reply"}]
    /\ run \in [Conn -> Seq(Command)]
    /\ at \in [Conn -> Nat]
    /\ \A c \in Conn : pc[c] \in {"run", "log"} => at[c] \in DOMAIN run[c]
    /\ file \in Seq(Frame) /\ synced \in 0 .. Len(file)
    /\ Len(states) = Len(file) + 1 /\ \A i \in DOMAIN states : IsKeyspace(states[i])
    /\ server \in {"up", "down", "replaying", "failed"}
    /\ pos \in 0 .. Len(file)
    /\ served \in Nat /\ crashes \in Nat /\ written \in [Conn -> Nat]
    /\ ranAt \in [Conn -> Nat]

\* The entries whose deadline, if any, lies ahead.
Alive(d, t) == [k \in {x \in DOMAIN d : d[x].expireAt = 0 \/ t < d[x].expireAt} |-> d[k]]

\* What command c, which starts now, makes of keyspace d until it is done.
After(d, c) == Alive(Apply(d, now, c).data, now + Elapsed(c))

\* The clock goes on while c runs.
Takes(c) == now' = now + Elapsed(c) /\ now' <= MaxTime

Init ==
    /\ data = EmptyMap /\ now = 1
    /\ inTx = [c \in Conn |-> FALSE] /\ txError = [c \in Conn |-> FALSE]
    /\ queue = [c \in Conn |-> <<>>] /\ sent = [c \in Conn |-> <<>>]
    /\ pc = [c \in Conn |-> "read"] /\ run = [c \in Conn |-> <<>>] /\ at = [c \in Conn |-> 0]
    /\ file = <<>> /\ synced = 0 /\ states = <<EmptyMap>>
    /\ server = "up" /\ pos = 0
    /\ served = 0 /\ crashes = 0
    /\ written = [c \in Conn |-> 0] /\ ranAt = [c \in Conn |-> 0]

-----------------------------------------------------------------------------
(* The front half of Dispatch.  A Context belongs to one goroutine, so     *)
(* reading a request and answering from the Context alone is one step.     *)

Read(c) ==
    /\ server = "up" /\ pc[c] = "read" /\ served < MaxRequests
    /\ served' = served + 1

\* The reply follows at once, success or not.
Answered == UNCHANGED <<store, loop, aof, process>>

\* Dispatch starts on the commands cmds.
Begin(c, cmds) ==
    /\ run' = [run EXCEPT ![c] = cmds]
    /\ at' = [at EXCEPT ![c] = 1]
    /\ pc' = [pc EXCEPT ![c] = IF cmds = <<>> THEN "read" ELSE "run"]
    /\ UNCHANGED <<store, ranAt, written, aof, process>>

\* Mutant: a refused command does not mark the transaction.
queueForgives(c, r) ==
    /\ Read(c) /\ inTx[c] /\ r.op \notin Bypassing
    /\ queue' = IF r.op = "BAD" THEN queue ELSE [queue EXCEPT ![c] = Append(@, r)]
    /\ sent' = [sent EXCEPT ![c] = Append(@, r)]
    /\ UNCHANGED <<inTx, txError>> /\ Answered

queueCommand(c, r) ==
    /\ Read(c) /\ inTx[c] /\ r.op \notin Bypassing
    /\ IF r.op = "BAD"
       THEN txError' = [txError EXCEPT ![c] = TRUE] /\ queue' = queue
       ELSE queue' = [queue EXCEPT ![c] = Append(@, r)] /\ txError' = txError
    /\ sent' = [sent EXCEPT ![c] = Append(@, r)]
    /\ UNCHANGED inTx /\ Answered

\* Outside of a transaction a valid command runs, an invalid one is refused.
command(c, r) ==
    /\ Read(c) /\ ~inTx[c] /\ r.op \notin Bypassing \cup {"BAD"}
    /\ Begin(c, <<r>>)
    /\ UNCHANGED context

multi(c, r) ==
    /\ Read(c) /\ r.op = "MULTI" /\ ~inTx[c]
    /\ inTx' = [inTx EXCEPT ![c] = TRUE]
    /\ queue' = [queue EXCEPT ![c] = <<>>]
    /\ txError' = [txError EXCEPT ![c] = FALSE]
    /\ sent' = [sent EXCEPT ![c] = <<>>]
    /\ Answered

\* inTx, queue, txError = false, nil, false.
Leave(c) ==
    /\ inTx' = [inTx EXCEPT ![c] = FALSE]
    /\ queue' = [queue EXCEPT ![c] = <<>>]
    /\ txError' = [txError EXCEPT ![c] = FALSE]
    /\ UNCHANGED sent

exec(c, r) ==
    /\ Read(c) /\ r.op = "EXEC" /\ inTx[c]
    /\ Leave(c)
    /\ Begin(c, IF txError[c] THEN <<>> ELSE queue[c])

discard(c, r) ==
    /\ Read(c) /\ r.op = "DISCARD" /\ inTx[c]
    /\ Leave(c)
    /\ Answered

\* EXEC and DISCARD without MULTI, MULTI inside MULTI, BAD without MULTI, BADCONTROL
\* anywhere: an error, no change, also to txError.
Refuse(c, r) ==
    /\ Read(c)
    /\ \/ r.op \in {"EXEC", "DISCARD", "BAD"} /\ ~inTx[c]
       \/ r.op = "MULTI" /\ inTx[c]
       \/ r.op = "BADCONTROL"
    /\ UNCHANGED context /\ Answered

-----------------------------------------------------------------------------
(* The back half of Dispatch, for one command, and the reply.              *)

Cmd(c) == run[c][at[c]]

\* Mutant: off by one at the end of the batch.
NextCommandTooFar(c) ==
    /\ at' = [at EXCEPT ![c] = @ + 1]
    /\ pc' = [pc EXCEPT ![c] = IF at[c] <= Len(run[c]) THEN "run" ELSE "reply"]

\* The loop of exec goes on with the next command, or the request is done.
NextCommand(c) ==
    /\ at' = [at EXCEPT ![c] = @ + 1]
    /\ pc' = [pc EXCEPT ![c] = IF at[c] < Len(run[c]) THEN "run" ELSE "reply"]

\* spec.Handler(st, ctx, args), and whether there is something to append.
Handler(c) ==
    LET res == Apply(data, now, Cmd(c))
        log == Cmd(c).op \in Write /\ ~IsError(res.reply)
    IN  /\ server = "up" /\ pc[c] = "run"
        /\ data' = After(data, Cmd(c)) /\ Takes(Cmd(c))
        /\ IF log THEN pc' = [pc EXCEPT ![c] = "log"] /\ at' = at ELSE NextCommand(c)
        /\ written' = IF log THEN [written EXCEPT ![c] = @ + 1] ELSE written
        /\ ranAt' = IF log THEN [ranAt EXCEPT ![c] = now] ELSE ranAt
        /\ UNCHANGED <<context, run, aof, process, served>>

\* Mutant: the last command of a batch is logged by exec as well.
LogTwice(c) ==
    LET f == [by |-> c, cmd |-> Cmd(c), torn |-> FALSE]
        s == Apply(states[Len(states)], ranAt[c], Cmd(c)).data
    IN  /\ server = "up" /\ pc[c] = "log"
        /\ file' = IF Len(run[c]) > 1 /\ at[c] = Len(run[c]) THEN file \o <<f, f>> ELSE Append(file, f)
        /\ states' = IF Len(run[c]) > 1 /\ at[c] = Len(run[c]) THEN states \o <<s, s>> ELSE Append(states, s)
        /\ NextCommand(c)
        /\ UNCHANGED <<store, context, run, ranAt, written, synced, process, served>>

\* ctx.OnWrite -> AOF.Append: the frame is in the file.
Log(c) ==
    /\ server = "up" /\ pc[c] = "log"
    /\ file' = Append(file, [by |-> c, cmd |-> Cmd(c), torn |-> FALSE])
    /\ states' = Append(states, Apply(states[Len(states)], ranAt[c], Cmd(c)).data)
    /\ NextCommand(c)
    /\ UNCHANGED <<store, context, run, ranAt, written, synced, process, served>>

\* Writing to the file fails, perhaps half-way; OnWrite logs the error, and that is all.
LogFails(c) ==
    /\ "append" \in Faults
    /\ server = "up" /\ pc[c] = "log"
    /\ \/ UNCHANGED <<file, states>>
       \/ /\ file' = Append(file, [by |-> c, cmd |-> Cmd(c), torn |-> TRUE])
          /\ states' = Append(states, states[Len(states)])
    /\ NextCommand(c)
    /\ UNCHANGED <<store, context, run, ranAt, written, synced, process, served>>

Reply(c) ==
    /\ server = "up" /\ pc[c] = "reply"
    /\ pc' = [pc EXCEPT ![c] = "read"]
    /\ UNCHANGED <<store, context, run, at, ranAt, written, aof, process, served>>

\* Mutant: the loop does not sync.
SyncNothing ==
    /\ server = "up" /\ synced # Len(file)
    /\ UNCHANGED vars

\* One turn of syncLoop.  fsync may fail, and nobody looks at its error: then some of
\* the frames may have reached the disk, and none of the rest is sure to have.
Sync ==
    /\ server = "up" /\ synced # Len(file)
    /\ \/ synced' = Len(file)
       \/ "sync" \in Faults /\ synced' \in synced .. Len(file) - 1
    /\ UNCHANGED <<store, context, loop, file, states, process, served>>

TimePasses ==
    /\ now < MaxTime
    /\ now' = now + 1
    /\ data' = Alive(data, now')
    /\ UNCHANGED <<context, loop, aof, process, served>>

-----------------------------------------------------------------------------
(* Crash and restart.                                                      *)

\* Whole frames of connection c in file f.
Logged(f, c) == Cardinality({i \in DOMAIN f : f[i].by = c /\ ~f[i].torn})

\* The process is gone, and with it the keyspace and every Context; what
\* happens to the file is f, with history s.
Down(f, s) ==
    /\ crashes < MaxCrashes
    /\ crashes' = crashes + 1
    /\ server' = "down" /\ pos' = 0
    /\ data' = EmptyMap
    /\ inTx' = [c \in Conn |-> FALSE] /\ txError' = [c \in Conn |-> FALSE]
    /\ queue' = [c \in Conn |-> <<>>] /\ sent' = [c \in Conn |-> <<>>]
    /\ pc' = [c \in Conn |-> "read"] /\ run' = [c \in Conn |-> <<>>] /\ at' = [c \in Conn |-> 0]
    /\ written' = [c \in Conn |-> Logged(f, c)] /\ ranAt' = [c \in Conn |-> 0]
    /\ file' = f /\ states' = s
    /\ UNCHANGED <<now, served>>

\* The process is killed: what it wrote stays in the page cache.
Crash ==
    /\ server \in {"up", "replaying"}
    /\ Down(file, states) /\ synced' = synced

\* Power is lost, perhaps after the process has ended (AOF.Close does not sync): of
\* what was not synced any prefix survives, the last frame of which may be cut
\* anywhere.
PowerLoss ==
    /\ "power" \in Faults /\ server # "failed"
    /\ \E n \in synced .. Len(file) :
        /\ synced' = n
        /\ Down(SubSeq(file, 1, n), SubSeq(states, 1, n + 1))

TornTail ==
    /\ "torn" \in Faults /\ server # "failed"
    /\ \E n \in synced .. Len(file) - 1 :
        /\ synced' = n + 1
        /\ Down(Append(SubSeq(file, 1, n), [file[n + 1] EXCEPT !.torn = TRUE]),
                Append(SubSeq(states, 1, n + 1), states[n + 1]))

\* main calls New, which opens the file.
New ==
    /\ server = "down"
    /\ server' = "replaying"
    /\ UNCHANGED <<store, context, loop, aof, pos, crashes, served>>

\* Mutant: the same frame is read again.
ReplayStuck ==
    /\ server = "replaying" /\ pos < Len(file) /\ ~file[pos + 1].torn
    /\ \E g \in Again(file[pos + 1].cmd) : data' = After(data, g) /\ Takes(g)
    /\ UNCHANGED <<context, loop, aof, server, pos, crashes, served>>

\* A frame is read and dispatched, without OnWrite; an error is only logged.
Replay ==
    /\ server = "replaying" /\ pos < Len(file) /\ ~file[pos + 1].torn
    /\ \E g \in Again(file[pos + 1].cmd) : data' = After(data, g) /\ Takes(g)
    /\ pos' = pos + 1
    /\ UNCHANGED <<context, loop, aof, server, crashes, served>>

\* The reader runs into a cut frame.  It reports an error (the stream ends
\* inside a bulk string, or goes on with something malformed) and New fails; or
\* the stream ends where a read returns a plain io.EOF, taken for the end of the
\* log; or the bytes of the following frames complete the cut one, which then
\* runs with arguments nobody sent or is refused, and they are lost.
ReplayTorn ==
    /\ server = "replaying" /\ pos < Len(file) /\ file[pos + 1].torn
    /\ \/ server' = "failed" /\ UNCHANGED <<store, pos>>
       \/ pos + 1 = Len(file) /\ pos' = Len(file) /\ UNCHANGED <<store, server>>
       \/ /\ pos' \in pos + 2 .. Len(file)
          /\ \/ UNCHANGED store
             \/ \E g \in {x \in Command : x.op = file[pos + 1].cmd.op} :
                    data' = After(data, g) /\ Takes(g)
          /\ UNCHANGED server
    /\ UNCHANGED <<context, loop, aof, crashes, served>>

\* Mutant: connections are accepted while the log is still read.
RunEarly ==
    /\ server = "replaying"
    /\ server' = "up"
    /\ UNCHANGED <<store, context, loop, aof, pos, crashes, served>>

\* The log is read: New returns and Run accepts connections.
Run ==
    /\ server = "replaying" /\ pos = Len(file)
    /\ server' = "up"
    /\ UNCHANGED <<store, context, loop, aof, pos, crashes, served>>

-----------------------------------------------------------------------------

\* What a connection does by itself, once it has a request.
Dispatch(c) == Handler(c) \/ Log(c) \/ LogFails(c)

Next ==
    \/ \E c \in Conn : \E r \in Requests[c] :
        \/ queueCommand(c, r) \/ command(c, r)
        \/ multi(c, r) \/ exec(c, r) \/ discard(c, r) \/ Refuse(c, r)
    \/ \E c \in Conn : Dispatch(c) \/ Reply(c)
    \/ Sync \/ TimePasses
    \/ Crash \/ PowerLoss \/ TornTail
    \/ New \/ Replay \/ ReplayTorn \/ Run

Spec == Init /\ [][Next]_vars

\* Request loops and the sync loop are goroutines, New runs to its end.  Nothing
\* is assumed of clients, nor that somebody restarts the process.  Of the disk it is
\* assumed that flushing does not fail for ever: each turn of the sync loop that
\* counts brings at least one more frame to the disk.
FairSpec ==
    /\ Spec
    /\ \A c \in Conn : WF_vars(Dispatch(c))
    /\ WF_vars(Sync)
    /\ WF_vars(Replay \/ ReplayTorn \/ Run)

-----------------------------------------------------------------------------
(* Properties.                                                             *)

\* "A restart replays that log and the data is exactly where it was" (README.md,
\* 60-Second Tour).  While the server is up and no command is between the store
\* and the log, the keyspace is the one that the logged commands made, one after
\* the other in the order of the log: also after a restart, when it was rebuilt.
ReplayReconstructs ==
    server = "up" /\ (\A c \in Conn : pc[c] # "log") => data = Alive(states[Len(states)], now)

\* "It's appended to an on-disk log before the reply goes back" (README.md,
\* 60-Second Tour): once a request is answered each write it made, also inside of
\* EXEC, is in the log, exactly once.
LoggedBeforeReply ==
    \A c \in Conn : server = "up" /\ pc[c] \in {"read", "reply"} => written[c] = Logged(file, c)

\* "A command that fails validation up front (unknown name, wrong arity) marks the whole
\* transaction dirty" (context.go, queueCommand): what EXEC starts to run is everything
\* that queueCommand was given since MULTI, in that order, and nothing of it was refused;
\* only EXEC runs anything, and nothing is left over from an earlier transaction.  (A
\* MULTI, EXEC or DISCARD that is refused for its arguments never reaches queueCommand
\* and aborts nothing: the batch runs without it.)
ExecAllOrNothing ==
    [][\A c \in Conn :
        inTx[c] /\ pc'[c] = "run" =>
            /\ run'[c] = sent[c]
            /\ \A i \in DOMAIN sent[c] : sent[c][i].op # "BAD"]_vars

\* Connection c has run the first command of an EXEC, but not the last.
MidBatch(c) == Len(run[c]) > 1 /\ pc[c] \in {"run", "log"} /\ (at[c] > 1 \/ pc[c] = "log")

\* "Transactions guarantee atomicity and isolation from other clients' commands
\* interleaving mid-batch" (README.md, Transactions): while c is inside a batch
\* only its own commands and the clock change the keyspace.
ExecIsolated ==
    [][\A c \in Conn : MidBatch(c) /\ data' # Alive(data, now') /\ server' = "up"
                            => pc'[c] # pc[c] \/ at'[c] # at[c]]_vars

\* "A background goroutine fsyncs it once a second so a crash loses at most ~1s of
\* writes" (aof.go): what is appended is synced in the end, unless the process dies
\* before, also when single flushes fail.
SyncedEventually ==
    \A n \in 1 .. MaxRequests :
        server = "up" /\ Len(file) >= n ~> synced >= n \/ server # "up"

\* Replay comes to an end, whatever the log holds: the server is up, or has failed,
\* or was killed in the meantime.
ReplayTerminates == server = "replaying" ~> server # "replaying"
=============================================================================
