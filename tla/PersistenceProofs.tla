------------------------- MODULE PersistenceProofs --------------------------
(***************************************************************************)
(* What Persistence guarantees for every set of connections, requests and  *)
(* faults and any number of requests and crashes.                          *)
(*                                                                         *)
(* The inductive invariant has four parts: the keyspace and the log        *)
(* (StoreOK), the request loops (LoopOK), the transactions (TxOK) and the  *)
(* count of logged writes (LogOK).                                         *)
(***************************************************************************)
EXTENDS Persistence, KeyspaceProofs, SequenceTheorems, FiniteSetTheorems

\* What occurs in sequence s.
Elements(s) == {s[i] : i \in DOMAIN s}

\* s is a sequence of keyspaces the store may hold.
IsHistory(s) == s \in Seq(Elements(s)) /\ \A i \in DOMAIN s : WellFormed(s[i])

\* The keyspace, the log and its history are well formed and fit together.
StoreOK ==
    /\ WellFormed(data) /\ now \in Nat
    /\ file \in Seq(Frame) /\ synced \in 0 .. Len(file) /\ pos \in 0 .. Len(file)
    /\ IsHistory(states) /\ Len(states) = Len(file) + 1

\* Contexts and request loops are well formed.
LoopOK ==
    /\ inTx \in [Conn -> BOOLEAN] /\ txError \in [Conn -> BOOLEAN]
    /\ queue \in [Conn -> Seq(Command)] /\ sent \in [Conn -> Seq(Command \cup Control)]
    /\ pc \in [Conn -> {"read", "run", "log", "reply"}]
    /\ run \in [Conn -> Seq(Command)]
    /\ at \in [Conn -> Nat]
    /\ \A c \in Conn : pc[c] \in {"run", "log"} => at[c] \in DOMAIN run[c]
    /\ server \in {"up", "down", "replaying", "failed"}
    /\ served \in Nat /\ crashes \in Nat /\ written \in [Conn -> Nat]
    /\ ranAt \in [Conn -> Nat]

\* Inside a transaction the loop only reads, and unless it is marked, the queue holds all
\* that was sent, none of it refused.
Transaction(c) ==
    inTx[c] => /\ pc[c] = "read"
               /\ ~txError[c] => /\ queue[c] = sent[c]
                                 /\ \A i \in DOMAIN sent[c] : sent[c][i].op # "BAD"

\* Every transaction is in order.
TxOK == \A c \in Conn : Transaction(c)

\* A write is logged, or about to be.
LogOK == \A c \in Conn : written[c] = Logged(file, c) + IF pc[c] = "log" THEN 1 ELSE 0

\* The two parts together are the type invariant.
LEMMA PartsAreTypes == StoreOK /\ LoopOK => TypeOK
  BY DEF StoreOK, LoopOK, TypeOK, WellFormed, IsHistory

-----------------------------------------------------------------------------
(* Histories and the log.                                                  *)

\* A sequence is a sequence of its elements.
LEMMA SeqOfElements == ASSUME NEW S, NEW s \in Seq(S) PROVE s \in Seq(Elements(s))
<1>1. Len(s) \in Nat /\ s \in [1 .. Len(s) -> S] /\ DOMAIN s = 1 .. Len(s)
  BY LenProperties
<1>2. s \in [1 .. Len(s) -> Elements(s)]
  BY <1>1 DEF Elements
<1> QED BY <1>1, <1>2

\* A history grows by a well-formed keyspace.
LEMMA HistoryAppend ==
    ASSUME NEW s, IsHistory(s), NEW d, WellFormed(d)
    PROVE  IsHistory(Append(s, d)) /\ Len(Append(s, d)) = Len(s) + 1
<1> DEFINE S == Elements(s) \cup {d}
           t == Append(s, d)
<1>1. s \in Seq(S)
  BY SeqMonotonic DEF IsHistory
<1>2. /\ Len(s) \in Nat /\ DOMAIN s = 1 .. Len(s)
      /\ t \in Seq(S) /\ Len(t) = Len(s) + 1 /\ DOMAIN t = 1 .. Len(s) + 1
      /\ \A i \in 1 .. Len(s) : t[i] = s[i]
      /\ t[Len(s) + 1] = d
  BY <1>1
<1>3. t \in Seq(Elements(t))
  BY <1>2, SeqOfElements
<1>4. ASSUME NEW i \in DOMAIN t PROVE WellFormed(t[i])
  <2>1. i \in 1 .. Len(s) \/ i = Len(s) + 1
    BY <1>2
  <2> QED BY <1>2, <2>1 DEF IsHistory
<1> QED BY <1>2, <1>3, <1>4 DEF IsHistory

\* A prefix of a history is one.
LEMMA HistoryPrefix ==
    ASSUME NEW s, IsHistory(s), NEW n \in 1 .. Len(s)
    PROVE  IsHistory(SubSeq(s, 1, n)) /\ Len(SubSeq(s, 1, n)) = n
<1> DEFINE t == SubSeq(s, 1, n)
<1>1. Len(s) \in Nat /\ DOMAIN s = 1 .. Len(s) /\ s \in Seq(Elements(s))
  BY LenProperties DEF IsHistory
<1>2. n \in Nat /\ n >= 1 /\ \A i \in 1 .. n : s[i] \in Elements(s)
  BY <1>1 DEF Elements
<1>3. /\ t \in Seq(Elements(s)) /\ Len(t) = n
      /\ \A i \in 1 .. n : t[i] = s[i]
  BY <1>2, SubSeqProperties
<1>4. DOMAIN t = 1 .. n
  BY <1>3, LenProperties
<1>5. t \in Seq(Elements(t))
  BY <1>3, SeqOfElements
<1> QED BY <1>1, <1>2, <1>3, <1>4, <1>5 DEF IsHistory

\* The elements of a history are well formed.
LEMMA HistoryAt ==
    ASSUME NEW s, IsHistory(s), NEW n \in 1 .. Len(s)
    PROVE  WellFormed(s[n])
<1>1. DOMAIN s = 1 .. Len(s)
  BY LenProperties DEF IsHistory
<1> QED BY <1>1 DEF IsHistory

\* A prefix of the log.
LEMMA LogPrefix ==
    ASSUME NEW f \in Seq(Frame), NEW n \in 0 .. Len(f)
    PROVE  SubSeq(f, 1, n) \in Seq(Frame) /\ Len(SubSeq(f, 1, n)) = n
<1>1. Len(f) \in Nat /\ n \in Nat /\ \A i \in 1 .. n : f[i] \in Frame
  BY LenProperties, ElementOfSeq
<1> QED BY <1>1, SubSeqProperties

\* The live part of a well-formed keyspace is well formed.
LEMMA AliveWF == ASSUME NEW d, WellFormed(d), NEW t PROVE WellFormed(Alive(d, t))
  BY DEF Alive, WellFormed, IsKeyspace

\* A command leaves a well-formed keyspace.
LEMMA ApplyWF ==
    ASSUME NEW d, WellFormed(d), NEW t \in Nat, NEW c \in Command
    PROVE  WellFormed(Apply(d, t, c).data)
<1>1. Agree(d, d, t)
  BY DEF Agree
<1> QED BY <1>1, ApplySound DEF Sound

\* The frames of a log are finitely many, and one more counts if it is whole.
LEMMA LoggedType ==
    ASSUME NEW f \in Seq(Frame), NEW c
    PROVE  /\ IsFiniteSet({i \in DOMAIN f : f[i].by = c /\ ~f[i].torn})
           /\ Logged(f, c) \in Nat
<1>1. Len(f) \in Nat /\ DOMAIN f = 1 .. Len(f)
  BY LenProperties
<1>2. IsFiniteSet(1 .. Len(f))
  BY <1>1, FS_Interval
<1>3. IsFiniteSet({i \in DOMAIN f : f[i].by = c /\ ~f[i].torn})
  BY <1>1, <1>2, FS_Subset
<1> QED BY <1>3, FS_CardinalityType DEF Logged

\* Appending a frame counts it, if it is whole, for its connection.
LEMMA LoggedAppend ==
    ASSUME NEW f \in Seq(Frame), NEW x \in Frame, NEW c
    PROVE  Logged(Append(f, x), c) = Logged(f, c) + IF x.by = c /\ ~x.torn THEN 1 ELSE 0
<1> DEFINE g == Append(f, x)
           S == {i \in DOMAIN f : f[i].by = c /\ ~f[i].torn}
           T == {i \in DOMAIN g : g[i].by = c /\ ~g[i].torn}
<1>1. /\ Len(f) \in Nat /\ DOMAIN f = 1 .. Len(f) /\ DOMAIN g = 1 .. Len(f) + 1
      /\ \A i \in 1 .. Len(f) : g[i] = f[i]
      /\ g[Len(f) + 1] = x
  OBVIOUS
<1>2. IsFiniteSet(S) /\ Cardinality(S) \in Nat
  BY LoggedType DEF Logged
<1>3. Logged(f, c) = Cardinality(S) /\ Logged(g, c) = Cardinality(T)
  BY DEF Logged
<1>4. CASE x.by = c /\ ~x.torn
  <2>1. T = S \cup {Len(f) + 1} /\ Len(f) + 1 \notin S
    BY <1>1, <1>4
  <2>2. Cardinality(T) = Cardinality(S) + 1
    BY <1>2, <2>1, FS_AddElement
  <2> QED BY <1>3, <1>4, <2>2
<1>5. CASE ~(x.by = c /\ ~x.torn)
  <2>1. T = S
    BY <1>1, <1>5
  <2>2. (IF x.by = c /\ ~x.torn THEN 1 ELSE 0) = 0
    BY <1>5, Zenon
  <2>3. Cardinality(S) + 0 = Cardinality(S)
    BY <1>2
  <2> QED BY <1>3, <2>1, <2>2, <2>3
<1> QED BY <1>4, <1>5

-----------------------------------------------------------------------------
(* The initial state, and what a step can be.                              *)

\* All parts hold when the server starts for the first time.
LEMMA InitParts == Init => StoreOK /\ LoopOK /\ TxOK /\ LogOK
<1> SUFFICES ASSUME Init PROVE StoreOK /\ LoopOK /\ TxOK /\ LogOK
  OBVIOUS
<1>1. WellFormed(EmptyMap)
  BY DEF EmptyMap, WellFormed, IsKeyspace
<1>2. IsHistory(<<EmptyMap>>) /\ Len(<<EmptyMap>>) = 1
  BY <1>1 DEF IsHistory, Elements
<1>3. file \in Seq(Frame) /\ Len(file) = 0
  BY EmptySeq DEF Init
<1>4. StoreOK
  BY <1>1, <1>2, <1>3 DEF Init, StoreOK
<1>5. <<>> \in Seq(Command) /\ <<>> \in Seq(Command \cup Control)
  BY EmptySeq
<1>6. LoopOK
  BY <1>5 DEF Init, LoopOK
<1>7. ASSUME NEW c \in Conn PROVE Logged(file, c) = 0
  <2>1. {i \in DOMAIN file : file[i].by = c /\ ~file[i].torn} = {}
    BY DEF Init
  <2> QED BY <2>1, FS_EmptySet DEF Logged
<1> QED BY <1>4, <1>6, <1>7 DEF Init, TxOK, Transaction, LogOK

\* The steps of connection c on request r that involve its Context only, or start a
\* dispatch.
Front(c, r) ==
    \/ queueCommand(c, r) \/ command(c, r)
    \/ multi(c, r) \/ exec(c, r) \/ discard(c, r) \/ Refuse(c, r)

\* A step belongs to a connection, to the sync loop or the clock, to a crash, or to New.
LEMMA NextCases ==
    Next => \/ \E c \in Conn : \E r \in Requests[c] : Front(c, r)
            \/ \E c \in Conn : Handler(c) \/ Log(c) \/ LogFails(c) \/ Reply(c)
            \/ Sync \/ TimePasses
            \/ Crash \/ PowerLoss \/ TornTail
            \/ New \/ Replay \/ ReplayTorn \/ Run
  BY Zenon DEF Next, Dispatch, Front

\* The command that is being dispatched.
LEMMA CmdType ==
    ASSUME LoopOK, NEW c \in Conn, pc[c] \in {"run", "log"}
    PROVE  Cmd(c) \in Command
<1>1. run[c] \in Seq(Command) /\ at[c] \in DOMAIN run[c]
  BY DEF LoopOK
<1> QED BY <1>1 DEF Cmd

-----------------------------------------------------------------------------
(* The keyspace and the log.                                               *)

\* A crash leaves a log and a history that fit together.
LEMMA CrashStore ==
    ASSUME StoreOK, Crash \/ PowerLoss \/ TornTail
    PROVE  StoreOK'
<1> DEFINE Rest == data' = EmptyMap /\ now' = now /\ pos' = 0
<1>0. WellFormed(EmptyMap)
  BY DEF EmptyMap, WellFormed, IsKeyspace
<1>1. /\ file \in Seq(Frame) /\ Len(file) \in Nat /\ synced \in 0 .. Len(file)
      /\ IsHistory(states) /\ Len(states) = Len(file) + 1
  BY LenProperties DEF StoreOK
<1>2. CASE Crash
  <2>1. Rest /\ file' = file /\ states' = states /\ synced' = synced
    BY <1>2 DEF Crash, Down
  <2> QED BY <1>0, <1>1, <2>1 DEF StoreOK
<1>3. CASE PowerLoss
  <2>1. PICK n \in synced .. Len(file) :
            synced' = n /\ Down(SubSeq(file, 1, n), SubSeq(states, 1, n + 1))
    BY <1>3 DEF PowerLoss
  <2>2. n \in 0 .. Len(file) /\ n + 1 \in 1 .. Len(states)
    BY <1>1
  <2>3. file' \in Seq(Frame) /\ Len(file') = n
    BY <1>1, <2>1, <2>2, LogPrefix DEF Down
  <2>4. IsHistory(states') /\ Len(states') = n + 1
    BY <1>1, <2>1, <2>2, HistoryPrefix DEF Down
  <2>5. Rest /\ synced' = n
    BY <2>1 DEF Down
  <2> QED BY <1>0, <2>2, <2>3, <2>4, <2>5 DEF StoreOK
<1>4. CASE TornTail
  <2> DEFINE cut(n) == [file[n + 1] EXCEPT !.torn = TRUE]
  <2>1. PICK n \in synced .. Len(file) - 1 :
            /\ synced' = n + 1
            /\ Down(Append(SubSeq(file, 1, n), cut(n)),
                    Append(SubSeq(states, 1, n + 1), states[n + 1]))
    BY <1>4 DEF TornTail
  <2>2. n \in 0 .. Len(file) /\ n + 1 \in 1 .. Len(states) /\ n + 1 \in 1 .. Len(file) /\ n \in Nat
    BY <1>1
  <2>3. file[n + 1] \in Frame
    BY <1>1, <2>2, ElementOfSeq
  <2>4. cut(n) \in Frame
    BY <2>3 DEF Frame
  <2>5. SubSeq(file, 1, n) \in Seq(Frame) /\ Len(SubSeq(file, 1, n)) = n
    BY <1>1, <2>2, LogPrefix
  <2>6. file' \in Seq(Frame) /\ Len(file') = n + 1
    <3> HIDE DEF cut
    <3> QED BY <2>1, <2>2, <2>4, <2>5 DEF Down
  <2>7. WellFormed(states[n + 1])
    BY <1>1, <2>2, HistoryAt
  <2>8. IsHistory(SubSeq(states, 1, n + 1)) /\ Len(SubSeq(states, 1, n + 1)) = n + 1
    BY <1>1, <2>2, HistoryPrefix
  <2>9. IsHistory(states') /\ Len(states') = n + 2
    BY <2>1, <2>2, <2>7, <2>8, HistoryAppend DEF Down
  <2>10. Rest /\ synced' = n + 1
    BY <2>1 DEF Down
  <2> QED BY <1>0, <2>2, <2>6, <2>9, <2>10 DEF StoreOK
<1> QED BY <1>2, <1>3, <1>4

\* A frame is appended, with what it made of the keyspace.
LEMMA AppendStore ==
    ASSUME StoreOK, NEW f \in Frame, NEW d, WellFormed(d),
           file' = Append(file, f), states' = Append(states, d),
           UNCHANGED <<data, now, synced, pos>>
    PROVE  StoreOK'
<1>1. /\ file \in Seq(Frame) /\ Len(file) \in Nat
      /\ synced \in 0 .. Len(file) /\ pos \in 0 .. Len(file)
  BY LenProperties DEF StoreOK
<1>2. file' \in Seq(Frame) /\ Len(file') = Len(file) + 1
  BY <1>1
<1>3. IsHistory(states') /\ Len(states') = Len(file) + 2
  BY <1>1, HistoryAppend DEF StoreOK
<1>4. synced' \in 0 .. Len(file') /\ pos' \in 0 .. Len(file')
  BY <1>1, <1>2
<1>5. Len(states') = Len(file') + 1
  BY <1>1, <1>2, <1>3
<1> QED BY <1>2, <1>3, <1>4, <1>5 DEF StoreOK

\* Every step keeps the keyspace and the log well formed.
LEMMA StoreStep == StoreOK /\ LoopOK /\ [Next]_vars => StoreOK'
<1> SUFFICES ASSUME StoreOK, LoopOK, [Next]_vars PROVE StoreOK'
  OBVIOUS
<1>1. /\ WellFormed(data) /\ now \in Nat
      /\ file \in Seq(Frame) /\ Len(file) \in Nat
      /\ synced \in 0 .. Len(file) /\ pos \in 0 .. Len(file)
      /\ IsHistory(states) /\ Len(states) = Len(file) + 1
  BY LenProperties DEF StoreOK
<1>2. WellFormed(states[Len(states)])
  BY <1>1, HistoryAt
<1>3. ASSUME UNCHANGED <<data, now, file, synced, states, pos>> PROVE StoreOK'
  BY <1>3 DEF StoreOK
<1>4. ASSUME WellFormed(data'), now' \in Nat, UNCHANGED <<file, synced, states>>,
             pos' \in 0 .. Len(file)
      PROVE  StoreOK'
  BY <1>4 DEF StoreOK
<1>5. ASSUME NEW g \in Command PROVE WellFormed(After(data, g)) /\ (Takes(g) => now' \in Nat)
  <2>1. WellFormed(After(data, g))
    BY <1>1, ApplyWF, AliveWF DEF After
  <2>2. Elapsed(g) \in Nat
    BY ReadingsAfter
  <2>3. Takes(g) => now' \in Nat
    BY <1>1, <2>2 DEF Takes
  <2> QED BY <2>1, <2>3
<1>6. ASSUME NEW c \in Conn, NEW r \in Requests[c], Front(c, r) PROVE StoreOK'
  <2>1. UNCHANGED <<data, now, file, synced, states, pos>>
    BY <1>6 DEF Front, queueCommand, command, multi, exec, discard, Refuse, Answered, Begin,
                store, aof, process
  <2> QED BY <1>3, <2>1
<1>7. ASSUME NEW c \in Conn, Handler(c) PROVE StoreOK'
  <2>1. WellFormed(data') /\ now' \in Nat
    BY <1>5, <1>7, CmdType DEF Handler
  <2>2. UNCHANGED <<file, synced, states, pos>>
    BY <1>7 DEF Handler, aof, process
  <2> QED BY <1>1, <1>4, <2>1, <2>2
<1>8. ASSUME NEW c \in Conn, Log(c) PROVE StoreOK'
  <2> DEFINE f == [by |-> c, cmd |-> Cmd(c), torn |-> FALSE]
             d == Apply(states[Len(states)], ranAt[c], Cmd(c)).data
  <2>1. Cmd(c) \in Command /\ ranAt[c] \in Nat
    BY <1>8, CmdType DEF Log, LoopOK
  <2>2. f \in Frame
    BY <2>1 DEF Frame
  <2>3. WellFormed(d)
    BY <1>2, <2>1, ApplyWF
  <2>4. file' = Append(file, f) /\ states' = Append(states, d) /\ UNCHANGED <<data, now, synced, pos>>
    BY <1>8 DEF Log, store, process
  <2> HIDE DEF f, d
  <2> QED BY <2>2, <2>3, <2>4, AppendStore
<1>9. ASSUME NEW c \in Conn, LogFails(c) PROVE StoreOK'
  <2> DEFINE f == [by |-> c, cmd |-> Cmd(c), torn |-> TRUE]
             d == states[Len(states)]
  <2>1. Cmd(c) \in Command
    BY <1>9, CmdType DEF LogFails
  <2>2. f \in Frame
    BY <2>1 DEF Frame
  <2>3. UNCHANGED <<data, now, synced, pos>>
    BY <1>9 DEF LogFails, store, process
  <2>4. \/ UNCHANGED <<file, states>>
        \/ file' = Append(file, f) /\ states' = Append(states, d)
    BY <1>9 DEF LogFails
  <2> HIDE DEF f
  <2> QED BY <1>2, <1>3, <2>2, <2>3, <2>4, AppendStore
<1>10. ASSUME NEW c \in Conn, Reply(c) PROVE StoreOK'
  BY <1>3, <1>10 DEF Reply, store, aof, process
<1>11. CASE Sync
  BY <1>1, <1>11 DEF Sync, store, process, StoreOK
<1>12. CASE TimePasses
  <2>1. now' \in Nat /\ WellFormed(data')
    BY <1>1, <1>12, AliveWF DEF TimePasses
  <2> QED BY <1>1, <1>4, <1>12, <2>1 DEF TimePasses, aof, process
<1>13. CASE Replay
  <2>1. file[pos + 1] \in Frame /\ pos' \in 0 .. Len(file)
    BY <1>1, <1>13, ElementOfSeq DEF Replay
  <2>2. file[pos + 1].cmd \in Command
    BY <2>1 DEF Frame
  <2>3. WellFormed(data') /\ now' \in Nat
    BY <1>5, <1>13, <2>2, AgainCommand DEF Replay
  <2>4. UNCHANGED <<file, synced, states>>
    BY <1>13 DEF Replay, aof
  <2> QED BY <1>1, <1>4, <2>1, <2>3, <2>4
<1>14. CASE ReplayTorn
  <2>1. WellFormed(data') /\ now' \in Nat
    BY <1>1, <1>5, <1>14 DEF ReplayTorn, store
  <2>2. pos' \in 0 .. Len(file)
    BY <1>1, <1>14 DEF ReplayTorn
  <2>3. UNCHANGED <<file, synced, states>>
    BY <1>14 DEF ReplayTorn, aof
  <2> QED BY <1>1, <1>4, <2>1, <2>2, <2>3
<1>15. CASE New \/ Run
  BY <1>3, <1>15 DEF New, Run, store, aof
<1>16. CASE UNCHANGED vars
  BY <1>3, <1>16 DEF vars
<1> QED BY <1>6, <1>7, <1>8, <1>9, <1>10, <1>11, <1>12, <1>13, <1>14, <1>15, <1>16,
           CrashStore, NextCases

-----------------------------------------------------------------------------
(* The request loops and their Contexts.                                   *)

\* A request that is no control command is a command.
LEMMA RequestType ==
    ASSUME NEW c \in Conn, NEW r \in Requests[c]
    PROVE  /\ r \in Command \cup Control
           /\ r.op \notin Bypassing \cup {"BAD"} => r \in Command
           /\ r.op \notin Bypassing /\ r.op # "BAD" => r \in Command
  BY PersistenceAssumption DEF Control

\* Dispatch starts at the first of its commands.
LEMMA BeginLoop ==
    ASSUME LoopOK, NEW c \in Conn, NEW q \in Seq(Command), Begin(c, q),
           served' \in Nat,
           inTx' \in [Conn -> BOOLEAN], txError' \in [Conn -> BOOLEAN],
           queue' \in [Conn -> Seq(Command)], sent' = sent
    PROVE  LoopOK'
<1>1. /\ run' = [run EXCEPT ![c] = q] /\ at' = [at EXCEPT ![c] = 1]
      /\ pc' = [pc EXCEPT ![c] = IF q = <<>> THEN "read" ELSE "run"]
      /\ UNCHANGED <<ranAt, written, server, crashes>>
  BY DEF Begin, process
<1>2. q # <<>> => 1 \in DOMAIN q
  BY EmptySeq, LenProperties
<1>3. /\ run' \in [Conn -> Seq(Command)] /\ at' \in [Conn -> Nat]
      /\ pc' \in [Conn -> {"read", "run", "log", "reply"}]
  BY <1>1 DEF LoopOK
<1>4. \A x \in Conn : pc'[x] \in {"run", "log"} => at'[x] \in DOMAIN run'[x]
  BY <1>1, <1>2 DEF LoopOK
<1> QED BY <1>1, <1>3, <1>4 DEF LoopOK

\* NextCommand stays inside the batch.
LEMMA NextCommandLoop ==
    ASSUME LoopOK, NEW c \in Conn, pc[c] \in {"run", "log"}, NextCommand(c), run' = run
    PROVE  /\ at' \in [Conn -> Nat]
           /\ pc' \in [Conn -> {"read", "run", "log", "reply"}]
           /\ \A x \in Conn : pc'[x] \in {"run", "log"} => at'[x] \in DOMAIN run'[x]
           /\ \A x \in Conn : x # c => pc'[x] = pc[x]
           /\ pc'[c] \in {"run", "reply"}
<1>1. /\ at \in [Conn -> Nat] /\ pc \in [Conn -> {"read", "run", "log", "reply"}]
      /\ run[c] \in Seq(Command) /\ at[c] \in DOMAIN run[c]
      /\ \A x \in Conn : pc[x] \in {"run", "log"} => at[x] \in DOMAIN run[x]
  BY DEF LoopOK
<1>2. Len(run[c]) \in Nat /\ DOMAIN run[c] = 1 .. Len(run[c])
  BY <1>1, LenProperties
<1>3. /\ at' = [at EXCEPT ![c] = at[c] + 1]
      /\ pc' = [pc EXCEPT ![c] = IF at[c] < Len(run[c]) THEN "run" ELSE "reply"]
  BY DEF NextCommand
<1>4. at' \in [Conn -> Nat] /\ at'[c] = at[c] + 1
  BY <1>1, <1>3
<1>5. /\ pc' \in [Conn -> {"read", "run", "log", "reply"}]
      /\ pc'[c] = IF at[c] < Len(run[c]) THEN "run" ELSE "reply"
      /\ \A x \in Conn : x # c => pc'[x] = pc[x] /\ at'[x] = at[x]
  BY <1>1, <1>3
<1>6. at[c] < Len(run[c]) => at'[c] \in DOMAIN run[c]
  BY <1>1, <1>2, <1>4
<1>7. \A x \in Conn : pc'[x] \in {"run", "log"} => at'[x] \in DOMAIN run[x]
  BY <1>1, <1>5, <1>6
<1> QED BY <1>4, <1>5, <1>7

\* Every step keeps contexts and request loops well formed.
LEMMA LoopStep == StoreOK /\ LoopOK /\ [Next]_vars => LoopOK'
<1> SUFFICES ASSUME StoreOK, LoopOK, [Next]_vars PROVE LoopOK'
  OBVIOUS
<1>0. <<>> \in Seq(Command) /\ <<>> \in Seq(Command \cup Control)
  BY EmptySeq
<1>1. ASSUME NEW c \in Conn, NEW r \in Requests[c], Front(c, r) PROVE LoopOK'
  <2>1. served' \in Nat
    BY <1>1 DEF Front, queueCommand, command, multi, exec, discard, Refuse, Read, LoopOK
  <2>2. CASE queueCommand(c, r)
    <3>1. UNCHANGED <<inTx, pc, run, at, ranAt, written, server, crashes>>
      BY <2>2 DEF queueCommand, Answered, loop, process
    <3>2. sent' \in [Conn -> Seq(Command \cup Control)]
      BY <2>2, RequestType DEF queueCommand, LoopOK
    <3>3. queue' \in [Conn -> Seq(Command)]
      <4>1. CASE r.op = "BAD"
        BY <2>2, <4>1 DEF queueCommand, LoopOK
      <4>2. CASE r.op # "BAD"
        <5>1. r \in Command
          BY <2>2, <4>2, RequestType DEF queueCommand
        <5>2. queue' = [queue EXCEPT ![c] = Append(queue[c], r)]
          BY <2>2, <4>2 DEF queueCommand
        <5> QED BY <5>1, <5>2 DEF LoopOK
      <4> QED BY <4>1, <4>2
    <3>4. txError' \in [Conn -> BOOLEAN]
      BY <2>2 DEF queueCommand, LoopOK
    <3> QED BY <2>1, <3>1, <3>2, <3>3, <3>4 DEF LoopOK
  <2>3. CASE command(c, r)
    <3>1. r \in Command
      BY <2>3, RequestType DEF command
    <3>2. <<r>> \in Seq(Command) /\ Begin(c, <<r>>) /\ UNCHANGED <<inTx, queue, txError, sent>>
      BY <2>3, <3>1 DEF command, context
    <3> QED BY <2>1, <3>2, BeginLoop DEF LoopOK
  <2>4. CASE multi(c, r)
    <3>1. UNCHANGED <<pc, run, at, ranAt, written, server, crashes>>
      BY <2>4 DEF multi, Answered, loop, process
    <3>2. inTx' \in [Conn -> BOOLEAN] /\ txError' \in [Conn -> BOOLEAN]
      BY <2>4 DEF multi, LoopOK
    <3>3. queue' \in [Conn -> Seq(Command)] /\ sent' \in [Conn -> Seq(Command \cup Control)]
      BY <1>0, <2>4 DEF multi, LoopOK
    <3> QED BY <2>1, <3>1, <3>2, <3>3 DEF LoopOK
  <2>5. ASSUME Leave(c)
        PROVE  /\ inTx' \in [Conn -> BOOLEAN] /\ txError' \in [Conn -> BOOLEAN]
               /\ queue' \in [Conn -> Seq(Command)] /\ sent' = sent
    BY <1>0, <2>5 DEF Leave, LoopOK
  <2>6. CASE exec(c, r)
    <3>1. (IF txError[c] THEN <<>> ELSE queue[c]) \in Seq(Command)
      BY <1>0 DEF LoopOK
    <3>2. Leave(c) /\ Begin(c, IF txError[c] THEN <<>> ELSE queue[c])
      BY <2>6 DEF exec
    <3> QED BY <2>1, <2>5, <3>1, <3>2, BeginLoop
  <2>7. CASE discard(c, r)
    <3>1. Leave(c) /\ UNCHANGED <<pc, run, at, ranAt, written, server, crashes>>
      BY <2>7 DEF discard, Answered, loop, process
    <3> QED BY <2>1, <2>5, <3>1 DEF LoopOK
  <2>8. CASE Refuse(c, r)
    BY <2>1, <2>8 DEF Refuse, Answered, context, loop, process, LoopOK
  <2> QED BY <1>1, <2>2, <2>3, <2>4, <2>6, <2>7, <2>8 DEF Front
<1>2. ASSUME NEW c \in Conn, Handler(c) PROVE LoopOK'
  <2>1. UNCHANGED <<inTx, queue, txError, sent, run, server, crashes, served>> /\ pc[c] = "run"
    BY <1>2 DEF Handler, context, process
  <2>2. written' \in [Conn -> Nat]
    BY <1>2 DEF Handler, LoopOK
  <2>3. ranAt' \in [Conn -> Nat]
    BY <1>2 DEF Handler, LoopOK, StoreOK
  <2>4. CASE NextCommand(c)
    BY <2>1, <2>2, <2>3, <2>4, NextCommandLoop DEF LoopOK
  <2>5. CASE pc' = [pc EXCEPT ![c] = "log"] /\ at' = at
    BY <2>1, <2>2, <2>3, <2>5 DEF LoopOK
  <2> QED BY <1>2, <2>4, <2>5 DEF Handler
<1>3. ASSUME NEW c \in Conn, Log(c) \/ LogFails(c) PROVE LoopOK'
  <2>1. /\ UNCHANGED <<inTx, queue, txError, sent, run, server, crashes, served, ranAt, written>>
        /\ pc[c] = "log" /\ NextCommand(c)
    BY <1>3 DEF Log, LogFails, context, process
  <2> QED BY <2>1, NextCommandLoop DEF LoopOK
<1>4. ASSUME NEW c \in Conn, Reply(c) PROVE LoopOK'
  BY <1>4 DEF Reply, context, process, LoopOK
<1>5. CASE Sync \/ TimePasses \/ UNCHANGED vars
  BY <1>5 DEF Sync, TimePasses, context, loop, process, vars, LoopOK
<1>6. CASE Crash \/ PowerLoss \/ TornTail
  <2>1. StoreOK'
    BY <1>6, CrashStore
  <2>2. \E f, s : Down(f, s)
    BY <1>6 DEF Crash, PowerLoss, TornTail
  <2>3. PICK f, s : Down(f, s)
    BY <2>2
  <2>4. f \in Seq(Frame)
    BY <2>1, <2>3 DEF Down, StoreOK
  <2>5. written' \in [Conn -> Nat]
    BY <2>3, <2>4, LoggedType DEF Down
  <2>6. served' \in Nat /\ crashes' \in Nat
    BY <2>3 DEF Down, LoopOK
  <2> QED BY <1>0, <2>3, <2>5, <2>6 DEF Down, LoopOK
<1>7. CASE New \/ Replay \/ ReplayTorn \/ Run
  BY <1>7 DEF New, Replay, ReplayTorn, Run, context, loop, LoopOK
<1> QED BY <1>1, <1>2, <1>3, <1>4, <1>5, <1>6, <1>7, NextCases

-----------------------------------------------------------------------------
(* Transactions.                                                           *)

\* What a step of another connection, or of no connection, leaves alone.
LEMMA TxSame ==
    ASSUME TxOK, NEW x \in Conn,
           inTx'[x] = inTx[x], txError'[x] = txError[x], queue'[x] = queue[x], sent'[x] = sent[x],
           inTx[x] => pc'[x] = pc[x]
    PROVE  Transaction(x)'
  BY DEF TxOK, Transaction

\* Queueing keeps a transaction in order: what is refused marks it.
LEMMA TxQueue ==
    ASSUME LoopOK, TxOK, NEW c \in Conn, NEW r \in Requests[c], queueCommand(c, r)
    PROVE  Transaction(c)'
<1>1. /\ inTx[c] /\ pc[c] = "read" /\ pc' = pc /\ inTx' = inTx
      /\ ~txError[c] => queue[c] = sent[c] /\ \A i \in DOMAIN sent[c] : sent[c][i].op # "BAD"
  BY DEF queueCommand, Answered, loop, TxOK, Transaction
<1>2. sent'[c] = Append(sent[c], r) /\ sent[c] \in Seq(Command \cup Control)
  BY DEF queueCommand, LoopOK
<1>3. CASE r.op = "BAD"
  <2>1. txError'[c]
    BY <1>3 DEF queueCommand, LoopOK
  <2> QED BY <1>1, <2>1 DEF Transaction
<1>4. CASE r.op # "BAD"
  <2>1. queue'[c] = Append(queue[c], r) /\ txError' = txError
    BY <1>4 DEF queueCommand, LoopOK
  <2>2. ASSUME ~txError[c], NEW i \in DOMAIN sent'[c] PROVE sent'[c][i].op # "BAD"
    <3>1. /\ Len(sent[c]) \in Nat /\ DOMAIN sent[c] = 1 .. Len(sent[c])
          /\ DOMAIN sent'[c] = 1 .. Len(sent[c]) + 1
          /\ \A j \in 1 .. Len(sent[c]) : sent'[c][j] = sent[c][j]
          /\ sent'[c][Len(sent[c]) + 1] = r
      BY <1>2, RequestType
    <3>2. i \in 1 .. Len(sent[c]) \/ i = Len(sent[c]) + 1
      BY <2>2, <3>1
    <3> QED BY <1>1, <1>4, <2>2, <3>1, <3>2
  <2>3. ~txError[c] => queue'[c] = sent'[c]
    BY <1>1, <1>2, <2>1
  <2> QED BY <1>1, <2>1, <2>2, <2>3 DEF Transaction
<1> QED BY <1>3, <1>4

\* Every step keeps every transaction in order.
LEMMA TxStep == LoopOK /\ TxOK /\ [Next]_vars => TxOK'
<1> SUFFICES ASSUME LoopOK, TxOK, [Next]_vars PROVE TxOK'
  OBVIOUS
<1>0. /\ inTx \in [Conn -> BOOLEAN] /\ txError \in [Conn -> BOOLEAN]
      /\ queue \in [Conn -> Seq(Command)] /\ sent \in [Conn -> Seq(Command \cup Control)]
      /\ pc \in [Conn -> {"read", "run", "log", "reply"}]
  BY DEF LoopOK
<1>1. ASSUME NEW c \in Conn, NEW r \in Requests[c], Front(c, r), NEW x \in Conn
      PROVE  Transaction(x)'
  <2>1. CASE x # c
    <3>1. /\ inTx'[x] = inTx[x] /\ txError'[x] = txError[x]
          /\ queue'[x] = queue[x] /\ sent'[x] = sent[x]
      BY <1>0, <1>1, <2>1 DEF Front, queueCommand, command, multi, exec, discard, Refuse, Leave, context
    <3>2. pc'[x] = pc[x]
      BY <1>0, <1>1, <2>1 DEF Front, queueCommand, command, multi, exec, discard, Refuse,
                              Answered, Begin, loop
    <3> QED BY <3>1, <3>2, TxSame
  <2>2. CASE queueCommand(c, r) /\ x = c
    BY <2>2, TxQueue
  <2>3. CASE command(c, r) /\ x = c
    <3>1. ~inTx'[c]
      BY <2>3 DEF command, context
    <3> QED BY <2>3, <3>1 DEF Transaction
  <2>4. CASE multi(c, r) /\ x = c
    <3>1. pc'[c] = "read" /\ queue'[c] = <<>> /\ sent'[c] = <<>>
      BY <1>0, <2>4 DEF multi, Read, Answered, loop
    <3> QED BY <2>4, <3>1 DEF Transaction
  <2>5. CASE (exec(c, r) \/ discard(c, r)) /\ x = c
    <3>1. ~inTx'[c]
      BY <1>0, <2>5 DEF exec, discard, Leave
    <3> QED BY <2>5, <3>1 DEF Transaction
  <2>6. CASE Refuse(c, r) /\ x = c
    BY <2>6, TxSame DEF Refuse, Answered, context, loop
  <2> QED BY <1>1, <2>1, <2>2, <2>3, <2>4, <2>5, <2>6 DEF Front
<1>2. ASSUME NEW c \in Conn, Handler(c) \/ Log(c) \/ LogFails(c) \/ Reply(c), NEW x \in Conn
      PROVE  Transaction(x)'
  <2>1. UNCHANGED <<inTx, queue, txError, sent>> /\ pc[c] # "read"
    BY <1>2 DEF Handler, Log, LogFails, Reply, context
  <2>2. inTx[x] => x # c
    BY <2>1 DEF TxOK, Transaction
  <2>3. x # c => pc'[x] = pc[x]
    BY <1>0, <1>2 DEF Handler, Log, LogFails, Reply, NextCommand
  <2> QED BY <2>1, <2>2, <2>3, TxSame
<1>3. ASSUME UNCHANGED <<inTx, queue, txError, sent, pc>> PROVE TxOK'
  BY <1>3 DEF TxOK, Transaction
<1>4. CASE Sync \/ TimePasses \/ New \/ Replay \/ ReplayTorn \/ Run \/ UNCHANGED vars
  BY <1>3, <1>4 DEF Sync, TimePasses, New, Replay, ReplayTorn, Run, context, loop, vars
<1>5. CASE Crash \/ PowerLoss \/ TornTail
  <2>1. inTx' = [c \in Conn |-> FALSE]
    BY <1>5 DEF Crash, PowerLoss, TornTail, Down
  <2> QED BY <2>1 DEF TxOK, Transaction
<1> QED BY <1>1, <1>2, <1>4, <1>5, NextCases DEF TxOK

-----------------------------------------------------------------------------
(* The count of logged writes.                                             *)

\* Unless appends fail, every step keeps the count.
LEMMA LogStep ==
    ASSUME "append" \notin Faults
    PROVE  StoreOK /\ LoopOK /\ LogOK /\ [Next]_vars => LogOK'
<1> SUFFICES ASSUME StoreOK, LoopOK, LogOK, [Next]_vars, NEW x \in Conn
             PROVE  written'[x] = Logged(file', x) + IF pc'[x] = "log" THEN 1 ELSE 0
  BY DEF LogOK
<1>0. /\ written \in [Conn -> Nat] /\ pc \in [Conn -> {"read", "run", "log", "reply"}]
      /\ written[x] = Logged(file, x) + IF pc[x] = "log" THEN 1 ELSE 0
      /\ file \in Seq(Frame) /\ Logged(file, x) \in Nat
  BY LoggedType DEF LoopOK, LogOK, StoreOK
<1> DEFINE Goal == written'[x] = Logged(file', x) + IF pc'[x] = "log" THEN 1 ELSE 0
<1>1. ASSUME written' = written, file' = file, pc'[x] = "log" <=> pc[x] = "log" PROVE Goal
  BY <1>0, <1>1
<1>2. ASSUME NEW c \in Conn, NEW r \in Requests[c], Front(c, r) PROVE Goal
  <2>1. written' = written /\ file' = file
    BY <1>2 DEF Front, queueCommand, command, multi, exec, discard, Refuse, Answered, Begin, loop, aof
  <2>2. pc[c] = "read"
    BY <1>2 DEF Front, queueCommand, command, multi, exec, discard, Refuse, Read
  <2>3. pc' = pc \/ pc' = [pc EXCEPT ![c] = "read"] \/ pc' = [pc EXCEPT ![c] = "run"]
    BY <1>2 DEF Front, queueCommand, command, multi, exec, discard, Refuse, Answered, Begin, loop
  <2>4. pc'[x] = "log" <=> pc[x] = "log"
    BY <1>0, <2>2, <2>3
  <2> QED BY <1>1, <2>1, <2>4
<1>3. ASSUME NEW c \in Conn, Handler(c) PROVE Goal
  <2>1. file' = file /\ pc[c] = "run"
    BY <1>3 DEF Handler, aof
  <2>2. CASE NextCommand(c) /\ written' = written
    <3>1. pc'[x] = "log" <=> pc[x] = "log"
      BY <1>0, <2>1, <2>2 DEF NextCommand
    <3> QED BY <1>1, <2>1, <2>2, <3>1
  <2>3. CASE pc' = [pc EXCEPT ![c] = "log"] /\ written' = [written EXCEPT ![c] = written[c] + 1]
    BY <1>0, <2>1, <2>3
  <2> QED BY <1>3, <2>2, <2>3 DEF Handler
<1>4. ASSUME NEW c \in Conn, Log(c) PROVE Goal
  <2> DEFINE f == [by |-> c, cmd |-> Cmd(c), torn |-> FALSE]
  <2>1. pc[c] = "log" /\ file' = Append(file, f) /\ written' = written
    BY <1>4 DEF Log
  <2>2. f \in Frame /\ f.by = c /\ f.torn = FALSE
    BY <2>1, CmdType DEF Frame
  <2> HIDE DEF f
  <2>3. Logged(file', x) = Logged(file, x) + IF f.by = x /\ ~f.torn THEN 1 ELSE 0
    BY <1>0, <2>1, <2>2, LoggedAppend
  <2>4. (IF f.by = x /\ ~f.torn THEN 1 ELSE 0) = (IF c = x THEN 1 ELSE 0)
    BY <2>2
  <2>5. pc'[x] = (IF x = c THEN pc'[c] ELSE pc[x]) /\ pc'[c] # "log"
    BY <1>0, <1>4 DEF Log, NextCommand
  <2>6. Logged(file', x) = Logged(file, x) + IF c = x THEN 1 ELSE 0
    BY <2>3, <2>4
  <2>7. CASE x = c
    BY <1>0, <2>1, <2>5, <2>6, <2>7
  <2>8. CASE x # c
    BY <1>0, <2>1, <2>5, <2>6, <2>8
  <2> QED BY <2>7, <2>8
<1>5. ASSUME NEW c \in Conn, Reply(c) PROVE Goal
  <2>1. pc'[x] = "log" <=> pc[x] = "log"
    BY <1>0, <1>5 DEF Reply
  <2> QED BY <1>1, <1>5, <2>1 DEF Reply, aof
<1>6. CASE Sync \/ TimePasses \/ New \/ Replay \/ ReplayTorn \/ Run \/ UNCHANGED vars
  BY <1>1, <1>6 DEF Sync, TimePasses, New, Replay, ReplayTorn, Run, loop, aof, vars
<1>7. CASE Crash \/ PowerLoss \/ TornTail
  <2>1. PICK f, s : Down(f, s)
    BY <1>7 DEF Crash, PowerLoss, TornTail
  <2>2. StoreOK'
    BY <1>7, CrashStore
  <2>3. file' = f /\ Logged(f, x) \in Nat
    BY <2>1, <2>2, LoggedType DEF Down, StoreOK
  <2>4. written'[x] = Logged(f, x) /\ pc'[x] = "read"
    BY <2>1 DEF Down
  <2> QED BY <2>3, <2>4
<1>8. ASSUME NEW c \in Conn PROVE ~LogFails(c)
  BY DEF LogFails
<1> QED BY <1>2, <1>3, <1>4, <1>5, <1>6, <1>7, <1>8, NextCases

-----------------------------------------------------------------------------

\* The type invariant, and that transactions are in order, hold in every reachable state.
THEOREM PersistInvariant == Spec => [](StoreOK /\ LoopOK /\ TxOK)
<1>1. Init => StoreOK /\ LoopOK /\ TxOK
  BY InitParts
<1>2. StoreOK /\ LoopOK /\ TxOK /\ [Next]_vars => (StoreOK /\ LoopOK /\ TxOK)'
  BY StoreStep, LoopStep, TxStep
<1> QED BY <1>1, <1>2, PTL DEF Spec

\* The keyspace, the log, the Contexts and the request loops always have their types:
\* EXEC's loop stays inside its batch, and replay inside the log.
THEOREM PersistTypes == Spec => []TypeOK
  BY PersistInvariant, PartsAreTypes, PTL

\* EXEC runs all that queueCommand was given since MULTI, in order, or nothing
\* (queueCommand, exec, discard): for any clients, in any interleaving, across crashes
\* and restarts.  A refused MULTI, EXEC or DISCARD in between is not given to it.
THEOREM ExecTheorem == Spec => ExecAllOrNothing
<1>1. StoreOK /\ LoopOK /\ TxOK /\ [Next]_vars =>
        [\A c \in Conn :
            inTx[c] /\ pc'[c] = "run" =>
                /\ run'[c] = sent[c]
                /\ \A i \in DOMAIN sent[c] : sent[c][i].op # "BAD"]_vars
  <2> SUFFICES ASSUME LoopOK, TxOK, Next, NEW x \in Conn, inTx[x], pc'[x] = "run"
               PROVE  /\ run'[x] = sent[x]
                      /\ \A i \in DOMAIN sent[x] : sent[x][i].op # "BAD"
    OBVIOUS
  <2>0. /\ pc[x] = "read" /\ pc \in [Conn -> {"read", "run", "log", "reply"}]
        /\ run \in [Conn -> Seq(Command)]
        /\ ~txError[x] => queue[x] = sent[x] /\ \A i \in DOMAIN sent[x] : sent[x][i].op # "BAD"
    BY DEF TxOK, Transaction, LoopOK
  <2>1. ASSUME NEW c \in Conn, NEW r \in Requests[c], Front(c, r)
        PROVE  c = x /\ exec(c, r)
    <3>1. c = x
      BY <2>0, <2>1 DEF Front, queueCommand, command, multi, exec, discard, Refuse, Answered, Begin, loop
    <3>2. ~command(x, r)
      BY DEF command
    <3>3. pc' # pc
      BY <2>0
    <3> QED BY <2>1, <3>1, <3>2, <3>3 DEF Front, queueCommand, multi, discard, Refuse, Answered, loop
  <2>2. ASSUME NEW r, exec(x, r)
        PROVE  /\ run'[x] = sent[x]
               /\ \A i \in DOMAIN sent[x] : sent[x][i].op # "BAD"
    <3> DEFINE q == IF txError[x] THEN <<>> ELSE queue[x]
    <3>1. Begin(x, q)
      BY <2>2 DEF exec
    <3>2. run'[x] = q /\ pc'[x] = IF q = <<>> THEN "read" ELSE "run"
      BY <2>0, <3>1 DEF Begin
    <3>3. ~txError[x]
      BY <3>2
    <3> QED BY <2>0, <3>2, <3>3
  <2>3. ASSUME NEW c \in Conn, Handler(c) \/ Log(c) \/ LogFails(c) \/ Reply(c) PROVE FALSE
    BY <2>0, <2>3 DEF Handler, Log, LogFails, Reply, NextCommand
  <2>4. CASE Sync \/ TimePasses \/ New \/ Replay \/ ReplayTorn \/ Run
    BY <2>0, <2>4 DEF Sync, TimePasses, New, Replay, ReplayTorn, Run, loop
  <2>5. CASE Crash \/ PowerLoss \/ TornTail
    BY <2>0, <2>5 DEF Crash, PowerLoss, TornTail, Down
  <2> QED BY <2>1, <2>2, <2>3, <2>4, <2>5, NextCases
<1> QED BY <1>1, PersistInvariant, PTL DEF Spec, ExecAllOrNothing

\* As long as no append fails, every write of an answered request is in the log, exactly
\* once, also those made by EXEC (Dispatch calls OnWrite before it returns).
THEOREM LoggedTheorem ==
    ASSUME "append" \notin Faults
    PROVE  Spec => []LoggedBeforeReply
<1>1. Init => StoreOK /\ LoopOK /\ LogOK
  BY InitParts
<1>2. StoreOK /\ LoopOK /\ LogOK /\ [Next]_vars => (StoreOK /\ LoopOK /\ LogOK)'
  BY StoreStep, LoopStep, LogStep
<1>3. StoreOK /\ LoopOK /\ LogOK => LoggedBeforeReply
  <2> SUFFICES ASSUME StoreOK, LogOK, NEW c \in Conn, pc[c] \in {"read", "reply"}
               PROVE  written[c] = Logged(file, c)
    BY DEF LoggedBeforeReply
  <2>1. Logged(file, c) \in Nat
    BY LoggedType DEF StoreOK
  <2> QED BY <2>1 DEF LogOK
<1> QED BY <1>1, <1>2, <1>3, PTL DEF Spec

-----------------------------------------------------------------------------
(* When replaying the log rebuilds the keyspace: for any number of         *)
(* connections, requests, transactions, crashes and restarts, provided     *)
(* that                                                                    *)
(*   - the file loses whole frames only (no append fails half-way, no      *)
(*     frame is cut),                                                      *)
(*   - nobody asks for a deadline, and                                     *)
(*   - writes of different connections can be exchanged.                   *)
(* Each of these is needed: persist_torn_loss, persist_ttl and             *)
(* persist_order show what happens without.                                *)
(*                                                                         *)
(* Between the step that runs a handler and the one that appends its frame *)
(* the keyspace is ahead of the log.  The inductive invariant says by how  *)
(* much: the keyspace is what the pending commands make, one after the     *)
(* other in the order in which they ran, of the last state of the log.     *)
(* The log may take them in another order; each time, the one that is      *)
(* appended is moved to the front of that chain.                           *)

\* Nobody asks for a deadline.
NoDurations == \A c \in Conn : \A r \in Requests[c] \cap Command : Timeless(r)

\* Commands x and y can be run in either order.
Exchange(x, y) == \A d : Settled(d) => Effect(Effect(d, x), y) = Effect(Effect(d, y), x)

\* Writes of different connections can.
WritesCommute ==
    \A b \in Conn, c \in Conn : b # c =>
        \A x \in Requests[b] \cap Command, y \in Requests[c] \cap Command :
            x.op \in Write /\ y.op \in Write => Exchange(x, y)

\* No key that one connection writes is written by another, unless all they do to it is
\* to add to a set.
KeysNotShared ==
    \A b \in Conn, c \in Conn : b # c =>
        \A x \in Requests[b] \cap Command, y \in Requests[c] \cap Command :
            x.op \in Write /\ y.op \in Write =>
                \/ KeysOf(x) \cap KeysOf(y) = {}
                \/ x.op = "SADD" /\ y.op = "SADD"

\* Connection c queues and runs what its client sent; what it logs is a write.
Own(c) ==
    /\ queue[c] \in Seq(Requests[c] \cap Command)
    /\ run[c] \in Seq(Requests[c] \cap Command)
    /\ pc[c] = "log" => Cmd(c).op \in Write

\* Every connection does.
OwnOK == \A c \in Conn : Own(c)

\* s is what the frames of f make of the empty keyspace, one after the other.
IsMadeBy(s, f) ==
    /\ s[1] = EmptyMap
    /\ \A i \in 1 .. Len(f) + 1 : Settled(s[i])
    /\ \A i \in 1 .. Len(f) : /\ ~f[i].torn /\ Timeless(f[i].cmd)
                              /\ s[i + 1] = Effect(s[i], f[i].cmd)

\* The history is the replay of the log, and replay follows it.
HistoryOK ==
    /\ IsMadeBy(states, file)
    /\ Settled(data)
    /\ server # "failed"
    /\ server = "down" => pos = 0 /\ data = EmptyMap
    /\ server = "replaying" => data = states[pos + 1]
    /\ server # "up" => \A c \in Conn : pc[c] = "read"

\* g leads from g[1] to g[n + 1] by the n commands q.
Links(n, q, g) ==
    /\ \A i \in 1 .. n + 1 : Settled(g[i])
    /\ \A i \in 1 .. n : /\ q[i] \in Command /\ Timeless(q[i])
                         /\ g[i + 1] = Effect(g[i], q[i])

\* p lists the connections in set S, each once.
Lists(n, p, S) ==
    /\ \A i \in 1 .. n : p[i] \in S
    /\ \A i, j \in 1 .. n : p[i] = p[j] => i = j
    /\ \A c \in S : \E i \in 1 .. n : p[i] = c

\* The commands f[c] of the connections c in S, one after the other in some order, lead
\* from keyspace s to keyspace d.
Leads(S, f, s, d) ==
    \E n \in Nat : \E p, g :
        /\ Lists(n, p, S)
        /\ Links(n, [i \in 1 .. n |-> f[p[i]]], g)
        /\ g[1] = s /\ g[n + 1] = d

\* The connections between handler and log.
Pending == {c \in Conn : pc[c] = "log"}

\* What they are at.
Cmds == [c \in Conn |-> Cmd(c)]

\* The keyspace is ahead of the log by the pending commands.
ChainOK == server = "up" => Leads(Pending, Cmds, states[Len(states)], data)

-----------------------------------------------------------------------------
(* Chains.                                                                 *)

\* A command runs: the chain grows.
LEMMA LinksGrow ==
    ASSUME NEW n \in Nat, NEW q, NEW g, Links(n, q, g), NEW c \in Command, Timeless(c)
    PROVE  LET r == [i \in 1 .. n + 1 |-> IF i = n + 1 THEN c ELSE q[i]]
               h == [i \in 1 .. n + 2 |-> IF i = n + 2 THEN Effect(g[n + 1], c) ELSE g[i]]
           IN  Links(n + 1, r, h) /\ h[1] = g[1] /\ h[n + 2] = Effect(g[n + 1], c)
<1> DEFINE e == Effect(g[n + 1], c)
           r == [i \in 1 .. n + 1 |-> IF i = n + 1 THEN c ELSE q[i]]
           h == [i \in 1 .. n + 2 |-> IF i = n + 2 THEN e ELSE g[i]]
<1>1. Settled(e)
  <2>1. Settled(g[n + 1])
    BY DEF Links
  <2> QED BY <2>1, TimelessEffect
<1>2. \A i \in 1 .. (n + 1) + 1 : Settled(h[i])
  <2> HIDE DEF e
  <2> QED BY <1>1 DEF Links
<1>3. ASSUME NEW i \in 1 .. n + 1
      PROVE  r[i] \in Command /\ Timeless(r[i]) /\ h[i + 1] = Effect(h[i], r[i])
  <2>1. CASE i = n + 1
    <3>1. r[i] = c /\ h[i] = g[n + 1] /\ h[i + 1] = e
      BY <2>1
    <3> QED BY <3>1
  <2>2. CASE i # n + 1
    <3>1. i \in 1 .. n /\ r[i] = q[i] /\ h[i] = g[i] /\ h[i + 1] = g[i + 1]
      BY <2>2
    <3> QED BY <3>1 DEF Links
  <2> QED BY <2>1, <2>2
<1>4. h[1] = g[1] /\ h[n + 2] = e
  OBVIOUS
<1> HIDE DEF r, h, e
<1>5. Links(n + 1, r, h)
  BY <1>2, <1>3 DEF Links
<1> QED BY <1>4, <1>5 DEF r, h, e

\* A command is logged: it moves to the front, past the ones that ran before it, and
\* leaves the chain.
LEMMA LinksPull ==
    ASSUME NEW n \in Nat, NEW q, NEW g, Links(n, q, g), NEW j \in 1 .. n,
           \A i \in 1 .. n : i # j => Exchange(q[i], q[j])
    PROVE  LET r == [i \in 1 .. n - 1 |-> IF i < j THEN q[i] ELSE q[i + 1]]
               h == [i \in 1 .. n |-> IF i <= j THEN Effect(g[i], q[j]) ELSE g[i + 1]]
           IN  Links(n - 1, r, h) /\ h[1] = Effect(g[1], q[j]) /\ h[n] = g[n + 1]
<1> DEFINE c == q[j]
           r == [i \in 1 .. n - 1 |-> IF i < j THEN q[i] ELSE q[i + 1]]
           h == [i \in 1 .. n |-> IF i <= j THEN Effect(g[i], c) ELSE g[i + 1]]
<1>1. c \in Command /\ Timeless(c) /\ g[j + 1] = Effect(g[j], c)
  BY DEF Links
<1>2. ASSUME NEW i \in 1 .. n PROVE Settled(Effect(g[i], c))
  <2>1. Settled(g[i])
    BY DEF Links
  <2> QED BY <1>1, <2>1, TimelessEffect
<1>3. \A i \in 1 .. (n - 1) + 1 : Settled(h[i])
  <2> SUFFICES ASSUME NEW i \in 1 .. n PROVE Settled(h[i])
    OBVIOUS
  <2>1. CASE i <= j
    BY <1>2, <2>1
  <2>2. CASE ~(i <= j)
    <3>1. i + 1 \in 1 .. n + 1 /\ h[i] = g[i + 1]
      BY <2>2
    <3> QED BY <3>1 DEF Links
  <2> QED BY <2>1, <2>2
<1>4. ASSUME NEW i \in 1 .. n - 1
      PROVE  r[i] \in Command /\ Timeless(r[i]) /\ h[i + 1] = Effect(h[i], r[i])
  <2>1. CASE i < j
    <3>1. i \in 1 .. n /\ i # j /\ r[i] = q[i] /\ h[i] = Effect(g[i], c) /\ h[i + 1] = Effect(g[i + 1], c)
      BY <2>1
    <3>2. Settled(g[i]) /\ q[i] \in Command /\ Timeless(q[i]) /\ g[i + 1] = Effect(g[i], q[i])
      BY <3>1 DEF Links
    <3>3. Effect(Effect(g[i], q[i]), c) = Effect(Effect(g[i], c), q[i])
      BY <3>1, <3>2 DEF Exchange
    <3> QED BY <3>1, <3>2, <3>3
  <2>2. CASE i = j
    <3>1. i + 1 \in 1 .. n /\ r[i] = q[i + 1] /\ h[i] = Effect(g[j], c) /\ h[i + 1] = g[(i + 1) + 1]
      BY <2>2
    <3>2. h[i] = g[i + 1]
      BY <1>1, <2>2, <3>1
    <3> QED BY <3>1, <3>2 DEF Links
  <2>3. CASE i > j
    <3>1. i + 1 \in 1 .. n /\ r[i] = q[i + 1] /\ h[i] = g[i + 1] /\ h[i + 1] = g[(i + 1) + 1]
      BY <2>3
    <3> QED BY <3>1 DEF Links
  <2> QED BY <2>1, <2>2, <2>3
<1>5. h[1] = Effect(g[1], c)
  OBVIOUS
<1>6. h[n] = g[n + 1]
  <2>1. CASE n = j
    BY <1>1, <2>1
  <2>2. CASE n # j
    BY <2>2
  <2> QED BY <2>1, <2>2
<1> HIDE DEF r, h, c
<1>7. Links(n - 1, r, h)
  BY <1>3, <1>4 DEF Links
<1> QED BY <1>5, <1>6, <1>7 DEF r, h, c

\* A list of the members of S, for S with one more member.
LEMMA ListGrow ==
    ASSUME NEW n \in Nat, NEW p, NEW S, Lists(n, p, S), NEW c, c \notin S
    PROVE  Lists(n + 1, [i \in 1 .. n + 1 |-> IF i = n + 1 THEN c ELSE p[i]], S \cup {c})
<1> DEFINE r == [i \in 1 .. n + 1 |-> IF i = n + 1 THEN c ELSE p[i]]
<1>1. \A i \in 1 .. n : r[i] = p[i]
  OBVIOUS
<1>2. r[n + 1] = c
  OBVIOUS
<1>3. \A i \in 1 .. n + 1 : i \in 1 .. n \/ i = n + 1
  OBVIOUS
<1>4. 1 .. n \subseteq 1 .. n + 1 /\ n + 1 \in 1 .. n + 1
  OBVIOUS
<1> HIDE DEF r
<1>5. Lists(n + 1, r, S \cup {c})
  BY <1>1, <1>2, <1>3, <1>4 DEF Lists
<1> QED BY <1>5 DEF r

\* A list of the members of S, without its j-th.
LEMMA ListPull ==
    ASSUME NEW n \in Nat, NEW p, NEW S, Lists(n, p, S), NEW j \in 1 .. n
    PROVE  Lists(n - 1, [i \in 1 .. n - 1 |-> IF i < j THEN p[i] ELSE p[i + 1]], S \ {p[j]})
<1> DEFINE r == [i \in 1 .. n - 1 |-> IF i < j THEN p[i] ELSE p[i + 1]]
<1>1. ASSUME NEW i \in 1 .. n - 1 PROVE r[i] \in S \ {p[j]}
  <2>1. CASE i < j
    <3>1. i \in 1 .. n /\ i # j /\ r[i] = p[i]
      BY <2>1
    <3> QED BY <3>1 DEF Lists
  <2>2. CASE ~(i < j)
    <3>1. i + 1 \in 1 .. n /\ i + 1 # j /\ r[i] = p[i + 1]
      BY <2>2
    <3> QED BY <3>1 DEF Lists
  <2> QED BY <2>1, <2>2
<1>2. ASSUME NEW i \in 1 .. n - 1, NEW m \in 1 .. n - 1, r[i] = r[m] PROVE i = m
  <2> DEFINE Old(x) == IF x < j THEN x ELSE x + 1
  <2>1. Old(i) \in 1 .. n /\ Old(m) \in 1 .. n /\ r[i] = p[Old(i)] /\ r[m] = p[Old(m)]
    OBVIOUS
  <2>2. Old(i) = Old(m)
    <3> HIDE DEF Old
    <3> QED BY <1>2, <2>1 DEF Lists
  <2> QED BY <2>2
<1>3. ASSUME NEW c \in S \ {p[j]} PROVE \E i \in 1 .. n - 1 : r[i] = c
  <2>1. PICK m \in 1 .. n : p[m] = c
    BY DEF Lists
  <2>2. m # j
    BY <2>1
  <2>3. CASE m < j
    <3>1. m \in 1 .. n - 1 /\ r[m] = p[m]
      BY <2>3
    <3> QED BY <2>1, <3>1
  <2>4. CASE m > j
    <3>1. m - 1 \in 1 .. n - 1 /\ r[m - 1] = p[(m - 1) + 1] /\ (m - 1) + 1 = m
      BY <2>4
    <3> QED BY <2>1, <3>1
  <2> QED BY <2>2, <2>3, <2>4
<1> HIDE DEF r
<1>4. Lists(n - 1, r, S \ {p[j]})
  BY <1>1, <1>2, <1>3 DEF Lists
<1> QED BY <1>4 DEF r

\* Only the commands of S matter.
LEMMA LeadsSame ==
    ASSUME NEW S, NEW f, NEW s, NEW d, Leads(S, f, s, d), NEW e, \A c \in S : e[c] = f[c]
    PROVE  Leads(S, e, s, d)
<1>0. PICK n \in Nat : \E p, g : /\ Lists(n, p, S)
                                 /\ Links(n, [i \in 1 .. n |-> f[p[i]]], g)
                                 /\ g[1] = s /\ g[n + 1] = d
  BY DEF Leads
<1>1. PICK p, g : /\ Lists(n, p, S)
                  /\ Links(n, [i \in 1 .. n |-> f[p[i]]], g)
                  /\ g[1] = s /\ g[n + 1] = d
  BY <1>0
<1>2. [i \in 1 .. n |-> f[p[i]]] = [i \in 1 .. n |-> e[p[i]]]
  BY <1>1 DEF Lists
<1>3. Links(n, [i \in 1 .. n |-> e[p[i]]], g)
  BY <1>1, <1>2
<1> QED BY <1>1, <1>3 DEF Leads

\* No command leads from a keyspace to itself, and nowhere else.
LEMMA LeadsNone ==
    ASSUME NEW f, NEW s, NEW d
    PROVE  /\ Leads({}, f, s, d) => s = d
           /\ Settled(d) => Leads({}, f, d, d)
<1>1. ASSUME Leads({}, f, s, d) PROVE s = d
  <2>0. PICK n \in Nat : \E p, g : Lists(n, p, {}) /\ g[1] = s /\ g[n + 1] = d
    BY <1>1 DEF Leads
  <2>1. PICK p, g : Lists(n, p, {}) /\ g[1] = s /\ g[n + 1] = d
    BY <2>0
  <2>2. n = 0
    <3>1. 1 \notin 1 .. n
      BY <2>1 DEF Lists
    <3> QED BY <3>1
  <2> QED BY <2>1, <2>2
<1>2. ASSUME Settled(d) PROVE Leads({}, f, d, d)
  <2> DEFINE g == [i \in {1} |-> d]
             p == [i \in {} |-> d]
             q == [i \in 1 .. 0 |-> f[p[i]]]
  <2>1. 1 .. 0 = {} /\ 1 .. 0 + 1 = {1} /\ 0 \in Nat
    OBVIOUS
  <2>2. g[1] = d /\ g[0 + 1] = d
    OBVIOUS
  <2> HIDE DEF g, p
  <2>3. Lists(0, p, {})
    BY <2>1 DEF Lists
  <2>4. Links(0, q, g)
    BY <1>2, <2>1, <2>2 DEF Links
  <2> QED BY <2>1, <2>2, <2>3, <2>4 DEF Leads
<1> QED BY <1>1, <1>2

\* A handler runs.
LEMMA LeadsGrow ==
    ASSUME NEW S, NEW f, NEW s, NEW d, Leads(S, f, s, d), NEW c, c \notin S, NEW e,
           \A x \in S : e[x] = f[x], e[c] \in Command, Timeless(e[c])
    PROVE  Leads(S \cup {c}, e, s, Effect(d, e[c]))
<1>1. Leads(S, e, s, d)
  BY LeadsSame
<1>0. PICK n \in Nat : \E p, g : /\ Lists(n, p, S)
                                 /\ Links(n, [i \in 1 .. n |-> e[p[i]]], g)
                                 /\ g[1] = s /\ g[n + 1] = d
  BY <1>1 DEF Leads
<1>2. PICK p, g : /\ Lists(n, p, S)
                  /\ Links(n, [i \in 1 .. n |-> e[p[i]]], g)
                  /\ g[1] = s /\ g[n + 1] = d
  BY <1>0
<1> DEFINE q == [i \in 1 .. n |-> e[p[i]]]
           w == [i \in 1 .. n + 1 |-> IF i = n + 1 THEN c ELSE p[i]]
           r == [i \in 1 .. n + 1 |-> IF i = n + 1 THEN e[c] ELSE q[i]]
           h == [i \in 1 .. n + 2 |-> IF i = n + 2 THEN Effect(g[n + 1], e[c]) ELSE g[i]]
<1>3. Lists(n + 1, w, S \cup {c})
  BY <1>2, ListGrow
<1>4. Links(n + 1, r, h) /\ h[1] = g[1] /\ h[n + 2] = Effect(g[n + 1], e[c])
  <2>1. Links(n, q, g)
    BY <1>2
  <2> HIDE DEF q
  <2> QED BY <2>1, LinksGrow
<1>5. r = [i \in 1 .. n + 1 |-> e[w[i]]]
  <2> SUFFICES ASSUME NEW i \in 1 .. n + 1 PROVE r[i] = e[w[i]]
    OBVIOUS
  <2>1. CASE i = n + 1
    BY <2>1
  <2>2. CASE i # n + 1
    <3>1. i \in 1 .. n /\ w[i] = p[i] /\ r[i] = q[i]
      BY <2>2
    <3> QED BY <3>1
  <2> QED BY <2>1, <2>2
<1>6. n + 1 \in Nat /\ (n + 1) + 1 = n + 2
  OBVIOUS
<1> HIDE DEF q, w, r, h
<1>7. h[1] = s /\ h[(n + 1) + 1] = Effect(d, e[c])
  BY <1>2, <1>4, <1>6
<1>8. Links(n + 1, [i \in 1 .. n + 1 |-> e[w[i]]], h)
  BY <1>4, <1>5
<1> QED BY <1>3, <1>6, <1>7, <1>8 DEF Leads

\* A frame is appended.
LEMMA LeadsPull ==
    ASSUME NEW S, NEW f, NEW s, NEW d, Leads(S, f, s, d), NEW c \in S,
           \A b \in S : b # c => Exchange(f[b], f[c]), NEW e, \A x \in S \ {c} : e[x] = f[x]
    PROVE  Leads(S \ {c}, e, Effect(s, f[c]), d)
<1>0. PICK n \in Nat : \E p, g : /\ Lists(n, p, S)
                                 /\ Links(n, [i \in 1 .. n |-> f[p[i]]], g)
                                 /\ g[1] = s /\ g[n + 1] = d
  BY DEF Leads
<1>1. PICK p, g : /\ Lists(n, p, S)
                  /\ Links(n, [i \in 1 .. n |-> f[p[i]]], g)
                  /\ g[1] = s /\ g[n + 1] = d
  BY <1>0
<1>2. PICK j \in 1 .. n : p[j] = c
  BY <1>1 DEF Lists
<1> DEFINE q == [i \in 1 .. n |-> f[p[i]]]
           w == [i \in 1 .. n - 1 |-> IF i < j THEN p[i] ELSE p[i + 1]]
           r == [i \in 1 .. n - 1 |-> IF i < j THEN q[i] ELSE q[i + 1]]
           h == [i \in 1 .. n |-> IF i <= j THEN Effect(g[i], q[j]) ELSE g[i + 1]]
<1>3. Lists(n - 1, w, S \ {c})
  BY <1>1, <1>2, ListPull
<1>4. q[j] = f[c]
  BY <1>2
<1>5. \A i \in 1 .. n : i # j => Exchange(q[i], q[j])
  <2> SUFFICES ASSUME NEW i \in 1 .. n, i # j PROVE Exchange(q[i], q[j])
    OBVIOUS
  <2>1. p[i] \in S /\ p[i] # c /\ q[i] = f[p[i]]
    BY <1>1, <1>2 DEF Lists
  <2> HIDE DEF q
  <2> QED BY <1>4, <2>1
<1>6. Links(n - 1, r, h) /\ h[1] = Effect(g[1], q[j]) /\ h[n] = g[n + 1]
  <2>1. Links(n, q, g)
    BY <1>1
  <2> HIDE DEF q
  <2> QED BY <1>5, <2>1, LinksPull
<1>7. r = [i \in 1 .. n - 1 |-> f[w[i]]]
  <2> SUFFICES ASSUME NEW i \in 1 .. n - 1 PROVE r[i] = f[w[i]]
    OBVIOUS
  <2> QED OBVIOUS
<1>8. n - 1 \in Nat /\ (n - 1) + 1 = n
  OBVIOUS
<1> HIDE DEF q, w, r, h
<1>9. h[1] = Effect(s, f[c]) /\ h[(n - 1) + 1] = d
  BY <1>1, <1>4, <1>6, <1>8
<1>10. Links(n - 1, [i \in 1 .. n - 1 |-> f[w[i]]], h)
  BY <1>6, <1>7
<1>11. Leads(S \ {c}, f, Effect(s, f[c]), d)
  BY <1>3, <1>8, <1>9, <1>10 DEF Leads
<1> QED BY <1>11, LeadsSame

-----------------------------------------------------------------------------
(* Keyspaces without deadlines, and histories.                             *)

\* Without deadlines nothing expires.
LEMMA AliveSame == ASSUME NEW d, Settled(d), NEW t PROVE Alive(d, t) = d
<1>1. {k \in DOMAIN d : d[k].expireAt = 0 \/ t < d[k].expireAt} = DOMAIN d
  BY DEF Settled, Permanent
<1>2. d = [k \in DOMAIN d |-> d[k]]
  BY DEF Settled, WellFormed, IsKeyspace
<1> QED BY <1>1, <1>2 DEF Alive

\* What a command does is its effect, now as at any other time.
LEMMA AfterIsEffect ==
    ASSUME NEW d, Settled(d), now \in Nat, NEW c \in Command, Timeless(c)
    PROVE  After(d, c) = Effect(d, c) /\ Settled(Effect(d, c))
<1>1. Settled(Effect(d, c)) /\ Apply(d, now, c).data = Effect(d, c)
  BY TimelessEffect
<1> QED BY <1>1, AliveSame DEF After

\* What is not logged has not changed the keyspace.
LEMMA Unlogged ==
    ASSUME NEW d, Settled(d), now \in Nat, NEW c \in Command,
           c.op \notin Write \/ IsError(Apply(d, now, c).reply)
    PROVE  After(d, c) = d
<1>1. Agree(d, d, now)
  BY DEF Agree
<1>2. Sound(Apply(d, now, c), Apply(d, now, c), d, now)
  BY <1>1, ApplySound DEF Settled
<1>3. Apply(d, now, c).data = d
  BY <1>2, ReadsLeaveData DEF Sound
<1> QED BY <1>3, AliveSame DEF After

\* The history grows with the log.
LEMMA MadeAppend ==
    ASSUME NEW f \in Seq(Frame), NEW s, IsHistory(s), Len(s) = Len(f) + 1, IsMadeBy(s, f),
           NEW x \in Frame, ~x.torn, Timeless(x.cmd)
    PROVE  IsMadeBy(Append(s, Effect(s[Len(s)], x.cmd)), Append(f, x))
<1> DEFINE e == Effect(s[Len(s)], x.cmd)
           t == Append(s, e)
           g == Append(f, x)
           n == Len(f)
<1>1. n \in Nat /\ Len(g) = n + 1 /\ \A i \in 1 .. n : g[i] = f[i]
  BY AppendProperties, LenProperties
<1>2. g[n + 1] = x
  BY AppendProperties
<1>3. Settled(s[n + 1])
  BY <1>1 DEF IsMadeBy
<1>4. x.cmd \in Command
  BY DEF Frame
<1>5. Settled(e) /\ e = Effect(s[n + 1], x.cmd)
  BY <1>3, <1>4, TimelessEffect
<1>6. (\A i \in 1 .. n + 1 : t[i] = s[i]) /\ t[n + 2] = e
  <2> HIDE DEF e
  <2>1. s \in Seq(Elements(s) \cup {e})
    BY SeqMonotonic DEF IsHistory
  <2>2. \A i \in 1 .. Len(s) : t[i] = s[i]
    BY <2>1, AppendProperties
  <2>3. t[Len(s) + 1] = e
    BY <2>1, AppendProperties
  <2>4. Len(s) + 1 = n + 2
    BY <1>1
  <2> QED BY <2>2, <2>3, <2>4
<1> HIDE DEF e, t, g, n
<1>7. \A i \in 1 .. Len(g) + 1 : i \in 1 .. n + 1 \/ i = n + 2
  BY <1>1
<1>8. \A i \in 1 .. Len(g) + 1 : Settled(t[i])
  BY <1>5, <1>6, <1>7 DEF IsMadeBy, n
<1>9. ASSUME NEW i \in 1 .. Len(g)
      PROVE  ~g[i].torn /\ Timeless(g[i].cmd) /\ t[i + 1] = Effect(t[i], g[i].cmd)
  <2>1. CASE i = n + 1
    <3>1. t[i] = s[n + 1] /\ t[i + 1] = e /\ g[i] = x
      <4>1. i + 1 = n + 2 /\ n + 1 \in 1 .. n + 1
        BY <1>1, <2>1
      <4> QED BY <1>2, <1>6, <2>1, <4>1
    <3> QED BY <1>5, <3>1
  <2>2. CASE i # n + 1
    <3>1. i \in 1 .. n /\ i \in 1 .. n + 1 /\ i + 1 \in 1 .. n + 1
      BY <1>1, <2>2
    <3>2. t[i] = s[i] /\ t[i + 1] = s[i + 1] /\ g[i] = f[i]
      BY <1>1, <1>6, <3>1
    <3> QED BY <3>1, <3>2 DEF IsMadeBy, n
  <2> QED BY <2>1, <2>2
<1>10. t[1] = EmptyMap
  <2>1. 1 \in 1 .. n + 1
    BY <1>1
  <2> QED BY <1>6, <2>1 DEF IsMadeBy
<1>11. IsMadeBy(t, g)
  BY <1>8, <1>9, <1>10 DEF IsMadeBy
<1> QED BY <1>11 DEF t, g, e

\* A prefix of the log has a prefix of the history.
LEMMA MadePrefix ==
    ASSUME NEW f \in Seq(Frame), NEW s, IsHistory(s), Len(s) = Len(f) + 1, IsMadeBy(s, f),
           NEW n \in 0 .. Len(f)
    PROVE  IsMadeBy(SubSeq(s, 1, n + 1), SubSeq(f, 1, n))
<1> DEFINE g == SubSeq(f, 1, n)
           t == SubSeq(s, 1, n + 1)
<1>1. Len(f) \in Nat /\ n \in Nat /\ n <= Len(f) /\ n + 1 \in 1 .. Len(s)
  BY LenProperties
<1>2. \A i \in 1 .. n : g[i] = f[i]
  <2>1. \A i \in 1 .. n : f[i] \in Frame
    BY <1>1, ElementOfSeq
  <2> QED BY <1>1, <2>1, SubSeqProperties
<1>3. Len(g) = n
  BY LogPrefix
<1>4. \A i \in 1 .. n + 1 : t[i] = s[i]
  <2>1. s \in Seq(Elements(s))
    BY DEF IsHistory
  <2>2. \A i \in 1 .. n + 1 : s[i] \in Elements(s)
    BY <1>1, <2>1, ElementOfSeq
  <2> QED BY <1>1, <2>2, SubSeqProperties
<1> HIDE DEF g, t
<1>5. \A i \in 1 .. n : i \in 1 .. Len(f) /\ i \in 1 .. n + 1 /\ i + 1 \in 1 .. n + 1
  BY <1>1
<1>6. \A i \in 1 .. n + 1 : i \in 1 .. Len(f) + 1
  BY <1>1
<1>7. 1 \in 1 .. n + 1
  BY <1>1
<1>8. IsMadeBy(t, g)
  BY <1>2, <1>3, <1>4, <1>5, <1>6, <1>7 DEF IsMadeBy
<1> QED BY <1>8 DEF g, t

-----------------------------------------------------------------------------
(* What the connections run.                                               *)

\* The command a connection is at is one its client sent.
LEMMA CmdSent ==
    ASSUME LoopOK, OwnOK, NEW c \in Conn, pc[c] \in {"run", "log"}
    PROVE  Cmd(c) \in Requests[c] \cap Command
<1>1. run[c] \in Seq(Requests[c] \cap Command) /\ at[c] \in DOMAIN run[c]
  BY DEF OwnOK, Own, LoopOK
<1> QED BY <1>1 DEF Cmd

\* The same, without deadlines.
LEMMA CmdTimeless ==
    ASSUME LoopOK, OwnOK, NoDurations, NEW c \in Conn, pc[c] \in {"run", "log"}
    PROVE  Cmd(c) \in Command /\ Timeless(Cmd(c))
  BY CmdSent DEF NoDurations

\* Every step keeps to what the clients sent.
LEMMA OwnStep == LoopOK /\ OwnOK /\ [Next]_vars => OwnOK'
<1> SUFFICES ASSUME LoopOK, OwnOK, [Next]_vars, NEW x \in Conn PROVE Own(x)'
  BY DEF OwnOK
<1> DEFINE Sent == Seq(Requests[x] \cap Command)
<1>0. /\ queue \in [Conn -> Seq(Command)] /\ run \in [Conn -> Seq(Command)]
      /\ pc \in [Conn -> {"read", "run", "log", "reply"}] /\ at \in [Conn -> Nat]
      /\ queue[x] \in Sent /\ run[x] \in Sent
      /\ pc[x] = "log" => Cmd(x).op \in Write
  BY DEF LoopOK, OwnOK, Own
<1>1. <<>> \in Sent
  BY EmptySeq
<1>2. ASSUME queue'[x] \in Sent, run'[x] \in Sent, pc'[x] # "log" PROVE Own(x)'
  BY <1>2 DEF Own
<1>3. ASSUME queue'[x] = queue[x], run'[x] = run[x], at'[x] = at[x], pc'[x] = pc[x] PROVE Own(x)'
  BY <1>0, <1>3 DEF Own, Cmd
<1>4. ASSUME NEW c \in Conn, NEW r \in Requests[c], Front(c, r) PROVE Own(x)'
  <2>0. pc[c] = "read"
    BY <1>4 DEF Front, queueCommand, command, multi, exec, discard, Refuse, Read
  <2>1. CASE c # x
    <3>1. pc'[x] = pc[x] /\ run'[x] = run[x] /\ at'[x] = at[x]
      BY <1>0, <1>4, <2>1 DEF Front, queueCommand, command, multi, exec, discard, Refuse, Answered,
                              Begin, loop
    <3>2. queue'[x] = queue[x]
      BY <1>0, <1>4, <2>1 DEF Front, queueCommand, command, multi, exec, discard, Refuse, Leave, context
    <3> QED BY <1>3, <3>1, <3>2
  <2>2. CASE c = x
    <3>1. CASE queueCommand(x, r)
      <4>1. pc'[x] # "log" /\ run'[x] = run[x]
        BY <2>0, <2>2, <3>1 DEF queueCommand, Answered, loop
      <4>2. CASE r.op = "BAD"
        BY <1>0, <1>2, <3>1, <4>1, <4>2 DEF queueCommand
      <4>3. CASE r.op # "BAD"
        <5>1. r \in Requests[x] \cap Command
          BY <1>4, <2>2, <3>1, <4>3, RequestType DEF queueCommand
        <5>2. queue'[x] = Append(queue[x], r)
          BY <1>0, <3>1, <4>3 DEF queueCommand
        <5>3. queue'[x] \in Sent
          BY <1>0, <5>1, <5>2, AppendProperties
        <5> QED BY <1>0, <1>2, <4>1, <5>3
      <4> QED BY <4>2, <4>3
    <3>2. CASE command(x, r)
      <4>1. r \in Requests[x] \cap Command
        BY <1>4, <2>2, <3>2, RequestType DEF command
      <4>2. run'[x] = <<r>> /\ pc'[x] # "log" /\ queue'[x] = queue[x]
        BY <1>0, <3>2 DEF command, Begin, context
      <4>3. <<r>> \in Sent
        BY <4>1
      <4> QED BY <1>0, <1>2, <4>2, <4>3
    <3>3. CASE multi(x, r) \/ discard(x, r)
      <4>1. queue'[x] = <<>> /\ run'[x] = run[x] /\ pc'[x] # "log"
        BY <1>0, <2>0, <2>2, <3>3 DEF multi, discard, Leave, Answered, loop
      <4> QED BY <1>0, <1>1, <1>2, <4>1
    <3>4. CASE exec(x, r)
      <4>1. queue'[x] = <<>> /\ pc'[x] # "log"
        BY <1>0, <3>4 DEF exec, Leave, Begin
      <4>2. run'[x] = <<>> \/ run'[x] = queue[x]
        BY <1>0, <3>4 DEF exec, Begin
      <4> QED BY <1>0, <1>1, <1>2, <4>1, <4>2
    <3>5. CASE Refuse(x, r)
      BY <1>3, <3>5 DEF Refuse, Answered, context, loop
    <3> QED BY <1>4, <2>2, <3>1, <3>2, <3>3, <3>4, <3>5 DEF Front
  <2> QED BY <2>1, <2>2
<1>5. ASSUME NEW c \in Conn, Handler(c) PROVE Own(x)'
  <2>1. queue' = queue /\ run' = run
    BY <1>5 DEF Handler, context
  <2>2. CASE c # x
    <3>1. pc'[x] = pc[x] /\ at'[x] = at[x]
      BY <1>0, <1>5, <2>2 DEF Handler, NextCommand
    <3> QED BY <1>3, <2>1, <3>1
  <2>3. CASE c = x
    <3>1. CASE NextCommand(x)
      <4>1. pc'[x] # "log"
        BY <1>0, <3>1 DEF NextCommand
      <4> QED BY <1>0, <1>2, <2>1, <4>1
    <3>2. CASE at' = at /\ Cmd(x).op \in Write
      BY <1>0, <2>1, <3>2 DEF Own, Cmd
    <3> QED BY <1>5, <2>3, <3>1, <3>2 DEF Handler
  <2> QED BY <2>2, <2>3
<1>6. ASSUME NEW c \in Conn, Log(c) \/ LogFails(c) \/ Reply(c) PROVE Own(x)'
  <2>1. queue' = queue /\ run' = run
    BY <1>6 DEF Log, LogFails, Reply, context
  <2>2. CASE c # x
    <3>1. pc'[x] = pc[x] /\ at'[x] = at[x]
      BY <1>0, <1>6, <2>2 DEF Log, LogFails, Reply, NextCommand
    <3> QED BY <1>3, <2>1, <3>1
  <2>3. CASE c = x
    <3>1. pc'[x] # "log"
      BY <1>0, <1>6, <2>3 DEF Log, LogFails, Reply, NextCommand
    <3> QED BY <1>0, <1>2, <2>1, <3>1
  <2> QED BY <2>2, <2>3
<1>7. CASE Sync \/ TimePasses \/ New \/ Replay \/ ReplayTorn \/ Run \/ UNCHANGED vars
  BY <1>3, <1>7 DEF Sync, TimePasses, New, Replay, ReplayTorn, Run, context, loop, vars
<1>8. CASE Crash \/ PowerLoss \/ TornTail
  <2>1. queue'[x] = <<>> /\ run'[x] = <<>> /\ pc'[x] = "read"
    BY <1>8 DEF Crash, PowerLoss, TornTail, Down
  <2> QED BY <1>1, <1>2, <2>1
<1> QED BY <1>4, <1>5, <1>6, <1>7, <1>8, NextCases

-----------------------------------------------------------------------------
(* The history of the log.                                                 *)

\* Frames are only appended and dropped whole, and replay follows the history.
LEMMA HistoryStep ==
    ASSUME Faults \subseteq {"power", "sync"}, NoDurations
    PROVE  StoreOK /\ LoopOK /\ OwnOK /\ HistoryOK /\ [Next]_vars => HistoryOK'
<1> SUFFICES ASSUME StoreOK, LoopOK, OwnOK, HistoryOK, [Next]_vars PROVE HistoryOK'
  OBVIOUS
<1>0. /\ now \in Nat /\ file \in Seq(Frame) /\ Len(file) \in Nat
      /\ synced \in 0 .. Len(file) /\ pos \in 0 .. Len(file)
      /\ IsHistory(states) /\ Len(states) = Len(file) + 1
      /\ IsMadeBy(states, file) /\ Settled(data)
  BY LenProperties DEF StoreOK, HistoryOK
<1>1. Settled(EmptyMap)
  BY DEF EmptyMap, Settled, Permanent, WellFormed, IsKeyspace
<1>2. ASSUME server = "up", server' = "up", IsMadeBy(states', file'), Settled(data')
      PROVE  HistoryOK'
  BY <1>2 DEF HistoryOK
<1>3. ASSUME NEW c \in Conn, NEW r \in Requests[c], Front(c, r) PROVE HistoryOK'
  <2>1. server = "up" /\ UNCHANGED <<server, data, states, file>>
    BY <1>3 DEF Front, queueCommand, command, multi, exec, discard, Refuse, Read, Answered, Begin,
                store, aof, process
  <2> QED BY <1>0, <1>2, <2>1
<1>4. ASSUME NEW c \in Conn, Handler(c) PROVE HistoryOK'
  <2>1. /\ server = "up" /\ UNCHANGED <<server, states, file>> /\ pc[c] = "run"
        /\ data' = After(data, Cmd(c))
    BY <1>4 DEF Handler, aof, process
  <2>2. Cmd(c) \in Command /\ Timeless(Cmd(c))
    BY <2>1, CmdTimeless
  <2>3. Settled(data')
    BY <1>0, <2>1, <2>2, AfterIsEffect
  <2> QED BY <1>0, <1>2, <2>1, <2>3
<1>5. ASSUME NEW c \in Conn, Log(c) PROVE HistoryOK'
  <2> DEFINE f == [by |-> c, cmd |-> Cmd(c), torn |-> FALSE]
             s == states[Len(states)]
  <2>1. /\ server = "up" /\ UNCHANGED <<server, data>> /\ pc[c] = "log"
        /\ file' = Append(file, f)
        /\ states' = Append(states, Apply(s, ranAt[c], Cmd(c)).data)
    BY <1>5 DEF Log, store, process
  <2>2. Cmd(c) \in Command /\ Timeless(Cmd(c)) /\ ranAt[c] \in Nat
    BY <2>1, CmdTimeless DEF LoopOK
  <2>3. f \in Frame /\ ~f.torn /\ f.cmd = Cmd(c)
    BY <2>2 DEF Frame
  <2>4. Settled(s)
    BY <1>0 DEF IsMadeBy
  <2>5. Apply(s, ranAt[c], Cmd(c)).data = Effect(s, Cmd(c))
    BY <2>2, <2>4, TimelessEffect
  <2> HIDE DEF f
  <2>6. IsMadeBy(states', file')
    BY <1>0, <2>1, <2>2, <2>3, <2>5, MadeAppend
  <2> QED BY <1>0, <1>2, <2>1, <2>6
<1>6. ASSUME NEW c \in Conn, Reply(c) PROVE HistoryOK'
  <2>1. server = "up" /\ UNCHANGED <<server, data, states, file>>
    BY <1>6 DEF Reply, store, aof, process
  <2> QED BY <1>0, <1>2, <2>1
<1>7. CASE Sync
  <2>1. server = "up" /\ UNCHANGED <<server, data, states, file>>
    BY <1>7 DEF Sync, store, process
  <2> QED BY <1>0, <1>2, <2>1
<1>8. CASE TimePasses \/ UNCHANGED vars
  <2>1. data' = data
    BY <1>0, <1>8, AliveSame DEF TimePasses, vars
  <2>2. UNCHANGED <<server, states, file, pos, pc>>
    BY <1>8 DEF TimePasses, vars, loop, aof, process
  <2> QED BY <2>1, <2>2 DEF HistoryOK
<1>9. CASE Crash \/ PowerLoss
  <2>1. IsMadeBy(states', file')
    <3>1. CASE Crash
      BY <1>0, <3>1 DEF Crash, Down
    <3>2. CASE PowerLoss
      <4>1. PICK n \in synced .. Len(file) : Down(SubSeq(file, 1, n), SubSeq(states, 1, n + 1))
        BY <3>2 DEF PowerLoss
      <4>2. n \in 0 .. Len(file)
        BY <1>0
      <4> QED BY <1>0, <4>1, <4>2, MadePrefix DEF Down
    <3> QED BY <1>9, <3>1, <3>2
  <2>2. server' = "down" /\ pos' = 0 /\ data' = EmptyMap /\ \A c \in Conn : pc'[c] = "read"
    BY <1>9 DEF Crash, PowerLoss, Down
  <2> QED BY <1>1, <2>1, <2>2 DEF HistoryOK
<1>10. CASE New
  <2>1. server = "down" /\ server' = "replaying" /\ UNCHANGED <<data, states, file, pos, pc>>
    BY <1>10 DEF New, store, aof, loop
  <2>2. data = states[pos + 1]
    BY <2>1 DEF HistoryOK, IsMadeBy
  <2> QED BY <2>1, <2>2 DEF HistoryOK
<1>11. CASE Replay
  <2> DEFINE f == file[pos + 1]
  <2>1. /\ server = "replaying" /\ pos < Len(file) /\ pos' = pos + 1
        /\ \E g \in Again(f.cmd) : data' = After(data, g)
        /\ UNCHANGED <<server, states, file, pc>>
    BY <1>11 DEF Replay, aof, loop
  <2>2. pos + 1 \in 1 .. Len(file) /\ pos' + 1 = (pos + 1) + 1
    BY <1>0, <2>1
  <2>3. Timeless(f.cmd) /\ states[(pos + 1) + 1] = Effect(states[pos + 1], f.cmd)
    BY <1>0, <2>2 DEF IsMadeBy
  <2>4. f.cmd \in Command
    <3>1. f \in Frame
      BY <1>0, <2>2, ElementOfSeq
    <3> QED BY <3>1 DEF Frame
  <2>5. data = states[pos + 1]
    BY <2>1 DEF HistoryOK
  <2> HIDE DEF f
  <2>6. data' = Effect(data, f.cmd) /\ Settled(data')
    <3>1. PICK g \in Again(f.cmd) : data' = After(data, g)
      BY <2>1
    <3>2. g \in Command /\ Timeless(g) /\ Apply(data, now, g).data = Effect(data, f.cmd)
      BY <1>0, <2>3, <2>4, AgainEffect
    <3>3. data' = Effect(data, g) /\ Settled(data') /\ Apply(data, now, g).data = Effect(data, g)
      BY <1>0, <3>1, <3>2, AfterIsEffect, TimelessEffect
    <3> QED BY <3>2, <3>3
  <2>7. data' = states'[pos' + 1]
    BY <2>1, <2>2, <2>3, <2>5, <2>6
  <2> QED BY <2>1, <2>6, <2>7 DEF HistoryOK
<1>12. CASE Run
  <2>1. server' = "up" /\ UNCHANGED <<data, states, file>>
    BY <1>12 DEF Run, store, aof
  <2> QED BY <1>0, <2>1 DEF HistoryOK
<1>13. ~TornTail /\ \A c \in Conn : ~LogFails(c)
  BY DEF TornTail, LogFails
<1>14. ~ReplayTorn
  <2>1. SUFFICES ASSUME ReplayTorn PROVE FALSE
    OBVIOUS
  <2>2. pos + 1 \in 1 .. Len(file) /\ file[pos + 1].torn
    BY <1>0, <2>1 DEF ReplayTorn
  <2> QED BY <1>0, <2>2 DEF IsMadeBy
<1> QED BY <1>3, <1>4, <1>5, <1>6, <1>7, <1>8, <1>9, <1>10, <1>11, <1>12, <1>13, <1>14, NextCases

-----------------------------------------------------------------------------
(* The pending commands.                                                   *)

\* A step that leaves the pending commands, the log and the keyspace alone.
LEMMA ChainSame ==
    ASSUME ChainOK, UNCHANGED <<server, states, data>>, Pending' = Pending,
           \A x \in Pending : Cmds'[x] = Cmds[x]
    PROVE  ChainOK'
<1> SUFFICES ASSUME server = "up"
             PROVE  Leads(Pending', Cmds', states[Len(states)], data)
  BY DEF ChainOK
<1>1. Leads(Pending, Cmds, states[Len(states)], data)
  BY DEF ChainOK
<1>2. Leads(Pending, Cmds', states[Len(states)], data)
  BY <1>1, LeadsSame
<1> QED BY <1>2

\* A step of connection c changes what c is at, and nobody else.
LEMMA OthersSame ==
    ASSUME NEW c \in Conn, \A x \in Conn \ {c} : pc'[x] = pc[x] /\ run'[x] = run[x] /\ at'[x] = at[x]
    PROVE  /\ \A x \in Conn \ {c} : Cmds'[x] = Cmds[x]
           /\ Pending' \ {c} = Pending \ {c}
  BY DEF Cmds, Cmd, Pending

\* The keyspace stays ahead of the log by exactly the pending commands.
LEMMA ChainStep ==
    ASSUME Faults \subseteq {"power", "sync"}, NoDurations, WritesCommute
    PROVE  StoreOK /\ LoopOK /\ OwnOK /\ HistoryOK /\ ChainOK /\ [Next]_vars => ChainOK'
<1> SUFFICES ASSUME StoreOK, LoopOK, OwnOK, HistoryOK, ChainOK, [Next]_vars PROVE ChainOK'
  OBVIOUS
<1>0. /\ now \in Nat /\ Settled(data) /\ IsMadeBy(states, file) /\ Len(file) \in Nat
      /\ IsHistory(states) /\ Len(states) = Len(file) + 1
      /\ pc \in [Conn -> {"read", "run", "log", "reply"}]
      /\ run \in [Conn -> Seq(Command)] /\ at \in [Conn -> Nat]
  BY LenProperties DEF StoreOK, HistoryOK, LoopOK
<1>1. ASSUME NEW c \in Conn, NEW r \in Requests[c], Front(c, r) PROVE ChainOK'
  <2>1. UNCHANGED <<server, states, data>> /\ pc[c] = "read"
    BY <1>1 DEF Front, queueCommand, command, multi, exec, discard, Refuse, Read, Answered, Begin,
                store, aof, process
  <2>2. pc'[c] # "log"
    BY <1>0, <1>1, <2>1 DEF Front, queueCommand, command, multi, exec, discard, Refuse, Answered,
                            Begin, loop
  <2>3. \A x \in Conn \ {c} : pc'[x] = pc[x] /\ run'[x] = run[x] /\ at'[x] = at[x]
    BY <1>0, <1>1 DEF Front, queueCommand, command, multi, exec, discard, Refuse, Answered, Begin, loop
  <2>4. /\ Pending' \ {c} = Pending \ {c} /\ c \notin Pending /\ c \notin Pending'
        /\ \A x \in Conn \ {c} : Cmds'[x] = Cmds[x]
    BY <2>1, <2>2, <2>3, OthersSame DEF Pending
  <2>5. Pending' = Pending /\ Pending \subseteq Conn \ {c}
    BY <2>4 DEF Pending
  <2> QED BY <2>1, <2>4, <2>5, ChainSame
<1>2. ASSUME NEW c \in Conn, Handler(c) PROVE ChainOK'
  <2>1. /\ server = "up" /\ UNCHANGED <<server, states, run>> /\ pc[c] = "run"
        /\ data' = After(data, Cmd(c))
    BY <1>2 DEF Handler, aof, process
  <2>2. \A x \in Conn \ {c} : pc'[x] = pc[x] /\ run'[x] = run[x] /\ at'[x] = at[x]
    BY <1>0, <1>2 DEF Handler, NextCommand
  <2>3. /\ Pending' \ {c} = Pending \ {c} /\ c \notin Pending /\ Pending \subseteq Conn \ {c}
        /\ \A x \in Conn \ {c} : Cmds'[x] = Cmds[x]
    BY <2>1, <2>2, OthersSame DEF Pending
  <2>4. Cmd(c) \in Command /\ Timeless(Cmd(c))
    BY <2>1, CmdTimeless
  <2>5. CASE /\ Cmd(c).op \in Write /\ ~IsError(Apply(data, now, Cmd(c)).reply)
             /\ pc' = [pc EXCEPT ![c] = "log"] /\ at' = at
    <3>1. Pending' = Pending \cup {c} /\ Cmds'[c] = Cmd(c)
      BY <1>0, <2>1, <2>3, <2>5 DEF Pending, Cmds, Cmd
    <3>2. data' = Effect(data, Cmd(c))
      BY <1>0, <2>1, <2>4, AfterIsEffect
    <3>3. Leads(Pending, Cmds, states[Len(states)], data)
      BY <2>1 DEF ChainOK
    <3>4. \A x \in Pending : Cmds'[x] = Cmds[x]
      BY <2>3
    <3>5. Leads(Pending \cup {c}, Cmds', states[Len(states)], Effect(data, Cmds'[c]))
      BY <2>3, <2>4, <3>1, <3>3, <3>4, LeadsGrow
    <3> QED BY <2>1, <3>1, <3>2, <3>5 DEF ChainOK
  <2>6. CASE /\ ~(Cmd(c).op \in Write /\ ~IsError(Apply(data, now, Cmd(c)).reply))
             /\ NextCommand(c)
    <3>1. data' = data
      BY <1>0, <2>1, <2>4, <2>6, Unlogged
    <3>2. c \notin Pending'
      BY <1>0, <2>6 DEF NextCommand, Pending
    <3>3. Pending' = Pending
      BY <2>3, <3>2
    <3> QED BY <2>1, <2>3, <3>1, <3>3, ChainSame
  <2> QED BY <1>2, <2>5, <2>6 DEF Handler
<1>3. ASSUME NEW c \in Conn, Log(c) PROVE ChainOK'
  <2> DEFINE s == states[Len(states)]
             e == Apply(s, ranAt[c], Cmd(c)).data
  <2>1. /\ server = "up" /\ UNCHANGED <<server, data, run>> /\ pc[c] = "log"
        /\ states' = Append(states, e) /\ NextCommand(c)
    BY <1>3 DEF Log, store, process
  <2>2. Cmd(c) \in Command /\ Timeless(Cmd(c)) /\ ranAt[c] \in Nat
    BY <2>1, CmdTimeless DEF LoopOK
  <2>3. e = Effect(s, Cmd(c))
    <3>1. Settled(s)
      BY <1>0 DEF IsMadeBy
    <3> QED BY <2>2, <3>1, TimelessEffect
  <2>4. states'[Len(states')] = e
    <3> HIDE DEF e
    <3>1. states \in Seq(Elements(states) \cup {e})
      BY <1>0, SeqMonotonic DEF IsHistory
    <3>2. Append(states, e)[Len(Append(states, e))] = e
      BY <3>1, AppendProperties
    <3> QED BY <2>1, <3>2
  <2>5. \A x \in Conn \ {c} : pc'[x] = pc[x] /\ run'[x] = run[x] /\ at'[x] = at[x]
    BY <1>0, <2>1 DEF NextCommand
  <2>6. \A x \in Conn \ {c} : Cmds'[x] = Cmds[x]
    BY <2>5, OthersSame
  <2>7. Pending' = Pending \ {c} /\ c \in Pending /\ Cmds[c] = Cmd(c)
    <3>1. pc'[c] # "log"
      BY <1>0, <2>1 DEF NextCommand
    <3> QED BY <2>1, <2>5, <3>1 DEF Pending, Cmds
  <2>8. \A b \in Pending : b # c => Exchange(Cmds[b], Cmds[c])
    <3> SUFFICES ASSUME NEW b \in Pending, b # c PROVE Exchange(Cmds[b], Cmds[c])
      OBVIOUS
    <3>1. b \in Conn /\ pc[b] = "log" /\ Cmds[b] = Cmd(b)
      BY DEF Pending, Cmds
    <3>2. /\ Cmd(b) \in Requests[b] \cap Command /\ Cmd(c) \in Requests[c] \cap Command
          /\ Cmd(b).op \in Write /\ Cmd(c).op \in Write
      BY <2>1, <3>1, CmdSent DEF OwnOK, Own
    <3> QED BY <2>7, <3>1, <3>2 DEF WritesCommute
  <2>9. Leads(Pending, Cmds, s, data)
    BY <2>1 DEF ChainOK
  <2>10. \A x \in Pending \ {c} : Cmds'[x] = Cmds[x]
    BY <2>6 DEF Pending
  <2> HIDE DEF s, e
  <2>11. Leads(Pending \ {c}, Cmds', Effect(s, Cmds[c]), data)
    BY <2>7, <2>8, <2>9, <2>10, LeadsPull
  <2> QED BY <2>1, <2>3, <2>4, <2>7, <2>11 DEF ChainOK
<1>4. ASSUME NEW c \in Conn, Reply(c) PROVE ChainOK'
  <2>1. UNCHANGED <<server, states, data, run, at>> /\ pc[c] = "reply" /\ pc' = [pc EXCEPT ![c] = "read"]
    BY <1>4 DEF Reply, store, aof, process
  <2>2. Pending' = Pending
    BY <1>0, <2>1 DEF Pending
  <2>3. Cmds' = Cmds
    BY <2>1 DEF Cmds, Cmd
  <2> QED BY <2>1, <2>2, <2>3, ChainSame
<1>5. CASE Sync \/ TimePasses \/ UNCHANGED vars
  <2>1. UNCHANGED <<server, states, pc, run, at>>
    BY <1>5 DEF Sync, TimePasses, vars, loop, aof, process
  <2>2. data' = data
    BY <1>0, <1>5, AliveSame DEF Sync, TimePasses, store, vars
  <2>3. Pending' = Pending /\ Cmds' = Cmds
    BY <2>1 DEF Pending, Cmds, Cmd
  <2> QED BY <2>1, <2>2, <2>3, ChainSame
<1>6. CASE Crash \/ PowerLoss \/ New \/ Replay
  BY <1>6 DEF Crash, PowerLoss, Down, New, Replay, ChainOK
<1>7. CASE Run
  <2>1. server = "replaying" /\ pos = Len(file) /\ UNCHANGED <<data, states, pc>>
    BY <1>7 DEF Run, store, aof, loop
  <2>2. data = states[Len(states)]
    BY <1>0, <2>1 DEF HistoryOK
  <2>3. Pending' = {}
    BY <2>1 DEF Pending, HistoryOK
  <2>4. Leads({}, Cmds', data, data)
    BY <1>0, LeadsNone
  <2> QED BY <2>1, <2>2, <2>3, <2>4 DEF ChainOK
<1>8. ~TornTail /\ \A c \in Conn : ~LogFails(c)
  BY DEF TornTail, LogFails
<1>9. ~ReplayTorn
  <2>1. SUFFICES ASSUME ReplayTorn PROVE FALSE
    OBVIOUS
  <2>2. pos + 1 \in 1 .. Len(file) /\ file[pos + 1].torn
    BY <1>0, <2>1 DEF ReplayTorn, StoreOK
  <2> QED BY <1>0, <2>2 DEF IsMadeBy
<1> QED BY <1>1, <1>2, <1>3, <1>4, <1>5, <1>6, <1>7, <1>8, <1>9, NextCases

-----------------------------------------------------------------------------

\* All parts hold when the server starts for the first time.
LEMMA InitReplay == Init => OwnOK /\ HistoryOK /\ ChainOK
<1> SUFFICES ASSUME Init PROVE OwnOK /\ HistoryOK /\ ChainOK
  OBVIOUS
<1>1. Settled(EmptyMap)
  BY DEF EmptyMap, Settled, Permanent, WellFormed, IsKeyspace
<1>2. OwnOK
  BY EmptySeq DEF Init, OwnOK, Own
<1>3. Len(file) = 0 /\ states[1] = EmptyMap /\ Len(states) = 1 /\ data = EmptyMap
  BY DEF Init
<1>4. IsMadeBy(states, file)
  <2>1. 1 .. Len(file) = {} /\ 1 .. Len(file) + 1 = {1}
    BY <1>3
  <2> QED BY <1>1, <1>3, <2>1 DEF IsMadeBy
<1>5. HistoryOK
  BY <1>1, <1>3, <1>4 DEF Init, HistoryOK
<1>6. Pending = {}
  BY DEF Init, Pending
<1>7. Leads({}, Cmds, EmptyMap, EmptyMap)
  BY <1>1, LeadsNone
<1>8. ChainOK
  BY <1>3, <1>6, <1>7 DEF ChainOK
<1> QED BY <1>2, <1>5, <1>8

\* Replay rebuilds the keyspace that the clients left behind (Dispatch, AOF.Append, New):
\* for any connections, requests, transactions, crashes, failing flushes, losses of
\* unsynced frames and restarts, whenever no write is between the store and the log the
\* keyspace is what the logged commands make one after the other, if the log loses whole
\* frames only, no client asks for a deadline, and writes of different clients can be
\* exchanged.
THEOREM ReplayTheorem ==
    ASSUME Faults \subseteq {"power", "sync"}, NoDurations, WritesCommute
    PROVE  Spec => []ReplayReconstructs
<1> DEFINE Inv == StoreOK /\ LoopOK /\ OwnOK /\ HistoryOK /\ ChainOK
<1>1. Init => Inv
  BY InitParts, InitReplay
<1>2. Inv /\ [Next]_vars => Inv'
  BY StoreStep, LoopStep, OwnStep, HistoryStep, ChainStep
<1>3. Inv => ReplayReconstructs
  <2> SUFFICES ASSUME Inv, server = "up", \A c \in Conn : pc[c] # "log"
               PROVE  data = Alive(states[Len(states)], now)
    BY DEF ReplayReconstructs
  <2>1. Pending = {}
    BY DEF Pending
  <2>2. states[Len(states)] = data
    BY <2>1, LeadsNone DEF ChainOK
  <2>3. Settled(data)
    BY DEF HistoryOK
  <2> QED BY <2>2, <2>3, AliveSame
<1> QED BY <1>1, <1>2, <1>3, PTL DEF Spec

\* In particular it does when no two clients write the same key, except to add to the
\* same set: what they send then needs no order other than each client's own (Dispatch
\* holds no lock between the store and the log).  A single client is a special case.
THEOREM ReplayUnshared ==
    ASSUME Faults \subseteq {"power", "sync"}, NoDurations, KeysNotShared
    PROVE  Spec => []ReplayReconstructs
<1>1. WritesCommute
  <2> SUFFICES ASSUME NEW b \in Conn, NEW c \in Conn, b # c,
                      NEW x \in Requests[b] \cap Command, NEW y \in Requests[c] \cap Command,
                      x.op \in Write, y.op \in Write,
                      NEW d, Settled(d)
               PROVE  Effect(Effect(d, x), y) = Effect(Effect(d, y), x)
    BY DEF WritesCommute, Exchange
  <2>1. Timeless(x) /\ Timeless(y)
    BY DEF NoDurations
  <2>2. CASE KeysOf(x) \cap KeysOf(y) = {}
    BY <2>1, <2>2, DisjointCommute
  <2>3. CASE x.op = "SADD" /\ y.op = "SADD"
    BY <2>3, SAddCommute
  <2> QED BY <2>2, <2>3 DEF KeysNotShared
<1> QED BY <1>1, ReplayTheorem
=============================================================================
