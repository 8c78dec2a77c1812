---------------------------- MODULE ServerProofs ----------------------------
(***************************************************************************)
(* The safety properties of Server, proved for any finite set of           *)
(* connections and with or without the timing assumption PromptAccept.     *)
(*                                                                         *)
(* At the core of the inductive invariant: the wait group counts exactly   *)
(* the goroutines that run (so a zero counter means that none does), the   *)
(* accept loop holds at most one connection, nothing is accepted once      *)
(* somebody waits, and the log is closed only after the wait.              *)
(***************************************************************************)
EXTENDS Server, FiniteSetTheorems, TLAPS

\* The connections whose goroutine has been started and has not called wg.Done.
Busy == {c \in Conn : handler[c] \in Counted}

\* The wait group counts them.
WgCounts == wg = Cardinality(Busy)

\* What acceptLoop holds: at most one connection, which has no goroutine yet.
InHandOK ==
    /\ inHand # {} <=> acceptor \in {"track", "add"}
    /\ \A c, e \in inHand : c = e
    /\ \A c \in inHand : handler[c] = "none" /\ socket[c] \notin {"none", "backlog"}
    /\ \A c \in Conn : socket[c] \in {"none", "backlog"} => handler[c] = "none"

\* How far Run has got when the listener is open, and when somebody waits.
PhasesOK ==
    /\ listening => waiter = "none"
    /\ main = "listen" => waiter = "none" /\ acceptor = "idle"
    /\ main \in {"select", "close", "listener", "wait"} => waiter = "none"
    /\ main = "wait" => ~listening
    /\ main = "listener" => closing
    /\ acceptor # "idle" /\ ~listening => closing

\* The log is closed after the wait, and only then a write can miss it.
LogOK ==
    /\ main \in {"store", "aof"} => waiter = "done"
    /\ aof = "closed" => waiter = "done"
    /\ unlogged # {} => aof = "closed"

\* The inductive invariant.
ServerInv == TypeOK /\ WgCounts /\ InHandOK /\ PhasesOK /\ LogOK /\ AtMostOneOutlives

\* There are finitely many goroutines.
LEMMA BusyFinite == IsFiniteSet(Busy) /\ Cardinality(Busy) \in Nat
<1>1. Busy \in SUBSET Conn
  BY DEF Busy
<1> QED BY <1>1, ServerAssumption, FS_Subset, FS_CardinalityType

\* A zero counter means that no goroutine runs.
LEMMA ZeroMeansNone == WgCounts /\ wg = 0 => Busy = {}
  BY BusyFinite, FS_EmptySet DEF WgCounts

\* The invariant holds when New returns.
LEMMA InitInv == Init => ServerInv
<1> SUFFICES ASSUME Init PROVE ServerInv
  OBVIOUS
<1>1. Busy = {}
  BY DEF Init, Busy, Counted, Serving
<1>2. WgCounts
  BY <1>1, FS_EmptySet DEF Init, WgCounts
<1> QED BY <1>2 DEF Init, ServerInv, TypeOK, InHandOK, PhasesOK, LogOK, AtMostOneOutlives

\* The steps of Run and shutdown preserve the invariant.
LEMMA RunInv ==
    ASSUME ServerInv, Cancel \/ Listen \/ RunFails \/ ContextDone \/ CloseClosing \/ CloseListener \/ StartWaiter \/ Drained \/ GraceElapses \/ ForceClose \/ CloseStore \/ CloseAOF
    PROVE  ServerInv'
<1>1. CASE Cancel
  <2>1. TypeOK'
    BY <1>1 DEF ServerInv, TypeOK, Cancel, loop
  <2>2. WgCounts'
    BY <1>1 DEF ServerInv, WgCounts, Busy, Cancel, loop
  <2>3. InHandOK'
    BY <1>1 DEF ServerInv, TypeOK, InHandOK, Cancel, loop
  <2>4. PhasesOK'
    BY <1>1 DEF ServerInv, TypeOK, PhasesOK, Cancel, loop
  <2>5. LogOK'
    BY <1>1 DEF ServerInv, TypeOK, LogOK, PhasesOK, Cancel, loop
  <2>6. AtMostOneOutlives'
    BY <1>1 DEF ServerInv, TypeOK, AtMostOneOutlives, Unfinished, PhasesOK, Cancel, loop
  <2> QED BY <2>1, <2>2, <2>3, <2>4, <2>5, <2>6 DEF ServerInv
<1>2. CASE Listen
  <2>1. TypeOK'
    BY <1>2 DEF ServerInv, TypeOK, Listen, loop
  <2>2. WgCounts'
    BY <1>2 DEF ServerInv, WgCounts, Busy, Listen, loop
  <2>3. InHandOK'
    BY <1>2 DEF ServerInv, TypeOK, InHandOK, PhasesOK, Listen, loop
  <2>4. PhasesOK'
    BY <1>2 DEF ServerInv, TypeOK, PhasesOK, Listen, loop
  <2>5. LogOK'
    BY <1>2 DEF ServerInv, TypeOK, LogOK, PhasesOK, Listen, loop
  <2>6. AtMostOneOutlives'
    BY <1>2 DEF ServerInv, TypeOK, AtMostOneOutlives, Unfinished, PhasesOK, Listen, loop
  <2> QED BY <2>1, <2>2, <2>3, <2>4, <2>5, <2>6 DEF ServerInv
<1>3. CASE RunFails
  <2>1. TypeOK'
    BY <1>3 DEF ServerInv, TypeOK, RunFails, loop
  <2>2. WgCounts'
    BY <1>3 DEF ServerInv, WgCounts, Busy, RunFails, loop
  <2>3. InHandOK'
    BY <1>3 DEF ServerInv, TypeOK, InHandOK, RunFails, loop
  <2>4. PhasesOK'
    BY <1>3 DEF ServerInv, TypeOK, PhasesOK, RunFails, loop
  <2>5. LogOK'
    BY <1>3 DEF ServerInv, TypeOK, LogOK, PhasesOK, RunFails, loop
  <2>6. AtMostOneOutlives'
    BY <1>3 DEF ServerInv, TypeOK, AtMostOneOutlives, Unfinished, PhasesOK, RunFails, loop
  <2> QED BY <2>1, <2>2, <2>3, <2>4, <2>5, <2>6 DEF ServerInv
<1>4. CASE ContextDone
  <2>1. TypeOK'
    BY <1>4 DEF ServerInv, TypeOK, ContextDone, To, loop
  <2>2. WgCounts'
    BY <1>4 DEF ServerInv, WgCounts, Busy, ContextDone, To, loop
  <2>3. InHandOK'
    BY <1>4 DEF ServerInv, TypeOK, InHandOK, ContextDone, To, loop
  <2>4. PhasesOK'
    BY <1>4 DEF ServerInv, TypeOK, PhasesOK, ContextDone, To, loop
  <2>5. LogOK'
    BY <1>4 DEF ServerInv, TypeOK, LogOK, PhasesOK, ContextDone, To, loop
  <2>6. AtMostOneOutlives'
    BY <1>4 DEF ServerInv, TypeOK, AtMostOneOutlives, Unfinished, PhasesOK, ContextDone, To, loop
  <2> QED BY <2>1, <2>2, <2>3, <2>4, <2>5, <2>6 DEF ServerInv
<1>5. CASE CloseClosing
  <2>1. TypeOK'
    BY <1>5 DEF ServerInv, TypeOK, CloseClosing, To, loop
  <2>2. WgCounts'
    BY <1>5 DEF ServerInv, WgCounts, Busy, CloseClosing, To, loop
  <2>3. InHandOK'
    BY <1>5 DEF ServerInv, TypeOK, InHandOK, CloseClosing, To, loop
  <2>4. PhasesOK'
    BY <1>5 DEF ServerInv, TypeOK, PhasesOK, CloseClosing, To, loop
  <2>5. LogOK'
    BY <1>5 DEF ServerInv, TypeOK, LogOK, PhasesOK, CloseClosing, To, loop
  <2>6. AtMostOneOutlives'
    BY <1>5 DEF ServerInv, TypeOK, AtMostOneOutlives, Unfinished, PhasesOK, CloseClosing, To, loop
  <2> QED BY <2>1, <2>2, <2>3, <2>4, <2>5, <2>6 DEF ServerInv
<1>6. CASE CloseListener
  <2>1. TypeOK'
    BY <1>6 DEF ServerInv, TypeOK, CloseListener, To, loop
  <2>2. WgCounts'
    BY <1>6 DEF ServerInv, WgCounts, Busy, CloseListener, To, loop
  <2>3. InHandOK'
    BY <1>6 DEF ServerInv, TypeOK, InHandOK, CloseListener, To, loop
  <2>4. PhasesOK'
    BY <1>6 DEF ServerInv, TypeOK, PhasesOK, CloseListener, To, loop
  <2>5. LogOK'
    BY <1>6 DEF ServerInv, TypeOK, LogOK, PhasesOK, CloseListener, To, loop
  <2>6. AtMostOneOutlives'
    BY <1>6 DEF ServerInv, TypeOK, AtMostOneOutlives, Unfinished, PhasesOK, CloseListener, To, loop
  <2> QED BY <2>1, <2>2, <2>3, <2>4, <2>5, <2>6 DEF ServerInv
<1>7. CASE StartWaiter
  <2>1. TypeOK'
    BY <1>7 DEF ServerInv, TypeOK, StartWaiter, To, loop
  <2>2. WgCounts'
    BY <1>7 DEF ServerInv, WgCounts, Busy, StartWaiter, To, loop
  <2>3. InHandOK'
    BY <1>7 DEF ServerInv, TypeOK, InHandOK, StartWaiter, To, loop
  <2>4. PhasesOK'
    BY <1>7 DEF ServerInv, TypeOK, PhasesOK, StartWaiter, To, loop
  <2>5. LogOK'
    BY <1>7 DEF ServerInv, TypeOK, LogOK, PhasesOK, StartWaiter, To, loop
  <2>6. AtMostOneOutlives'
    BY <1>7 DEF ServerInv, TypeOK, AtMostOneOutlives, Unfinished, PhasesOK, StartWaiter, To, loop
  <2> QED BY <2>1, <2>2, <2>3, <2>4, <2>5, <2>6 DEF ServerInv
<1>8. CASE Drained
  <2>1. TypeOK'
    BY <1>8 DEF ServerInv, TypeOK, Drained, To, loop
  <2>2. WgCounts'
    BY <1>8 DEF ServerInv, WgCounts, Busy, Drained, To, loop
  <2>3. InHandOK'
    BY <1>8 DEF ServerInv, TypeOK, InHandOK, Drained, To, loop
  <2>4. PhasesOK'
    BY <1>8 DEF ServerInv, TypeOK, PhasesOK, Drained, To, loop
  <2>5. LogOK'
    BY <1>8 DEF ServerInv, TypeOK, LogOK, PhasesOK, Drained, To, loop
  <2>6. AtMostOneOutlives'
    BY <1>8 DEF ServerInv, TypeOK, AtMostOneOutlives, Unfinished, PhasesOK, Drained, To, loop
  <2> QED BY <2>1, <2>2, <2>3, <2>4, <2>5, <2>6 DEF ServerInv
<1>9. CASE GraceElapses
  <2>1. TypeOK'
    BY <1>9 DEF ServerInv, TypeOK, GraceElapses, To, loop
  <2>2. WgCounts'
    BY <1>9 DEF ServerInv, WgCounts, Busy, GraceElapses, To, loop
  <2>3. InHandOK'
    BY <1>9 DEF ServerInv, TypeOK, InHandOK, GraceElapses, To, loop
  <2>4. PhasesOK'
    BY <1>9 DEF ServerInv, TypeOK, PhasesOK, GraceElapses, To, loop
  <2>5. LogOK'
    BY <1>9 DEF ServerInv, TypeOK, LogOK, PhasesOK, GraceElapses, To, loop
  <2>6. AtMostOneOutlives'
    BY <1>9 DEF ServerInv, TypeOK, AtMostOneOutlives, Unfinished, PhasesOK, GraceElapses, To, loop
  <2> QED BY <2>1, <2>2, <2>3, <2>4, <2>5, <2>6 DEF ServerInv
<1>10. CASE ForceClose
  <2>1. TypeOK'
    BY <1>10 DEF ServerInv, TypeOK, ForceClose, To, loop
  <2>2. WgCounts'
    BY <1>10 DEF ServerInv, WgCounts, Busy, ForceClose, To, loop
  <2>3. InHandOK'
    BY <1>10 DEF ServerInv, TypeOK, InHandOK, ForceClose, To, loop
  <2>4. PhasesOK'
    BY <1>10 DEF ServerInv, TypeOK, PhasesOK, ForceClose, To, loop
  <2>5. LogOK'
    BY <1>10 DEF ServerInv, TypeOK, LogOK, PhasesOK, ForceClose, To, loop
  <2>6. AtMostOneOutlives'
    BY <1>10 DEF ServerInv, TypeOK, AtMostOneOutlives, Unfinished, PhasesOK, ForceClose, To, loop
  <2> QED BY <2>1, <2>2, <2>3, <2>4, <2>5, <2>6 DEF ServerInv
<1>11. CASE CloseStore
  <2>1. TypeOK'
    BY <1>11 DEF ServerInv, TypeOK, CloseStore, To, loop
  <2>2. WgCounts'
    BY <1>11 DEF ServerInv, WgCounts, Busy, CloseStore, To, loop
  <2>3. InHandOK'
    BY <1>11 DEF ServerInv, TypeOK, InHandOK, CloseStore, To, loop
  <2>4. PhasesOK'
    BY <1>11 DEF ServerInv, TypeOK, PhasesOK, CloseStore, To, loop
  <2>5. LogOK'
    BY <1>11 DEF ServerInv, TypeOK, LogOK, PhasesOK, CloseStore, To, loop
  <2>6. AtMostOneOutlives'
    BY <1>11 DEF ServerInv, TypeOK, AtMostOneOutlives, Unfinished, PhasesOK, CloseStore, To, loop
  <2> QED BY <2>1, <2>2, <2>3, <2>4, <2>5, <2>6 DEF ServerInv
<1>12. CASE CloseAOF
  <2>1. TypeOK'
    BY <1>12 DEF ServerInv, TypeOK, CloseAOF, To, loop
  <2>2. WgCounts'
    BY <1>12 DEF ServerInv, WgCounts, Busy, CloseAOF, To, loop
  <2>3. InHandOK'
    BY <1>12 DEF ServerInv, TypeOK, InHandOK, CloseAOF, To, loop
  <2>4. PhasesOK'
    BY <1>12 DEF ServerInv, TypeOK, PhasesOK, CloseAOF, To, loop
  <2>5. LogOK'
    BY <1>12 DEF ServerInv, TypeOK, LogOK, PhasesOK, CloseAOF, To, loop
  <2>6. AtMostOneOutlives'
    BY <1>12 DEF ServerInv, TypeOK, AtMostOneOutlives, Unfinished, PhasesOK, CloseAOF, To, loop
  <2> QED BY <2>1, <2>2, <2>3, <2>4, <2>5, <2>6 DEF ServerInv
<1> QED BY <1>1, <1>2, <1>3, <1>4, <1>5, <1>6, <1>7, <1>8, <1>9, <1>10, <1>11, <1>12

\* wg.Wait: when it returns no goroutine runs, and nobody can have missed the log.
LEMMA WaitInv ==
    ASSUME ServerInv, Wait \/ WaitReturns
    PROVE  ServerInv'
<1>1. CASE Wait
  <2>1. TypeOK'
    BY <1>1 DEF ServerInv, TypeOK, Wait, run, loop
  <2>2. WgCounts'
    BY <1>1 DEF ServerInv, WgCounts, Busy, Wait, run, loop
  <2>3. InHandOK'
    BY <1>1 DEF ServerInv, TypeOK, InHandOK, Wait, run, loop
  <2>4. PhasesOK'
    BY <1>1 DEF ServerInv, TypeOK, PhasesOK, Wait, run, loop
  <2>5. LogOK'
    BY <1>1 DEF ServerInv, TypeOK, LogOK, PhasesOK, Wait, run, loop
  <2>6. AtMostOneOutlives'
    <3>1. CASE wg = 0
      <4>1. Busy = {} /\ unlogged = {}
        BY <1>1, <3>1, ZeroMeansNone DEF ServerInv, LogOK, Wait
      <4>2. Unfinished' = inHand /\ unlogged' = {}
        BY <1>1, <4>1 DEF Unfinished, Busy, Wait, run, loop
      <4> QED BY <4>2 DEF ServerInv, InHandOK, AtMostOneOutlives
    <3>2. CASE wg # 0
      BY <1>1, <3>2 DEF Wait, AtMostOneOutlives
    <3> QED BY <3>1, <3>2
  <2> QED BY <2>1, <2>2, <2>3, <2>4, <2>5, <2>6 DEF ServerInv
<1>2. CASE WaitReturns
  <2>1. TypeOK'
    BY <1>2 DEF ServerInv, TypeOK, WaitReturns, loop
  <2>2. WgCounts'
    BY <1>2 DEF ServerInv, WgCounts, Busy, WaitReturns, loop
  <2>3. InHandOK'
    BY <1>2 DEF ServerInv, TypeOK, InHandOK, WaitReturns, loop
  <2>4. PhasesOK'
    BY <1>2 DEF ServerInv, TypeOK, PhasesOK, WaitReturns, loop
  <2>5. LogOK'
    BY <1>2 DEF ServerInv, TypeOK, LogOK, PhasesOK, WaitReturns, loop
  <2>6. AtMostOneOutlives'
    <3>1. CASE wg = 0
      <4>1. Busy = {} /\ unlogged = {}
        BY <1>2, <3>1, ZeroMeansNone DEF ServerInv, LogOK, WaitReturns
      <4>2. Unfinished' = inHand /\ unlogged' = {}
        BY <1>2, <4>1 DEF Unfinished, Busy, WaitReturns, loop
      <4> QED BY <4>2 DEF ServerInv, InHandOK, AtMostOneOutlives
    <3>2. CASE wg # 0
      BY <1>2, <3>2 DEF WaitReturns, AtMostOneOutlives
    <3> QED BY <3>1, <3>2
  <2> QED BY <2>1, <2>2, <2>3, <2>4, <2>5, <2>6 DEF ServerInv
<1> QED BY <1>1, <1>2

\* The steps of acceptLoop that concern no particular connection preserve the invariant.
LEMMA AcceptLoopInv ==
    ASSUME ServerInv, AcceptFails \/ TrackConn
    PROVE  ServerInv'
<1>1. CASE AcceptFails
  <2>1. TypeOK'
    BY <1>1 DEF ServerInv, TypeOK, AcceptFails, run
  <2>2. WgCounts'
    BY <1>1 DEF ServerInv, WgCounts, Busy, AcceptFails, run
  <2>3. InHandOK'
    BY <1>1 DEF ServerInv, TypeOK, InHandOK, AcceptFails, run
  <2>4. PhasesOK'
    BY <1>1 DEF ServerInv, TypeOK, PhasesOK, AcceptFails, run
  <2>5. LogOK'
    BY <1>1 DEF ServerInv, TypeOK, LogOK, PhasesOK, AcceptFails, run
  <2>6. AtMostOneOutlives'
    BY <1>1 DEF ServerInv, TypeOK, AtMostOneOutlives, Unfinished, PhasesOK, AcceptFails, run
  <2> QED BY <2>1, <2>2, <2>3, <2>4, <2>5, <2>6 DEF ServerInv
<1>2. CASE TrackConn
  <2>1. TypeOK'
    BY <1>2 DEF ServerInv, TypeOK, TrackConn, run
  <2>2. WgCounts'
    BY <1>2 DEF ServerInv, WgCounts, Busy, TrackConn, run
  <2>3. InHandOK'
    BY <1>2 DEF ServerInv, TypeOK, InHandOK, TrackConn, run
  <2>4. PhasesOK'
    BY <1>2 DEF ServerInv, TypeOK, PhasesOK, TrackConn, run
  <2>5. LogOK'
    BY <1>2 DEF ServerInv, TypeOK, LogOK, PhasesOK, TrackConn, run
  <2>6. AtMostOneOutlives'
    BY <1>2 DEF ServerInv, TypeOK, AtMostOneOutlives, Unfinished, PhasesOK, TrackConn, run
  <2> QED BY <2>1, <2>2, <2>3, <2>4, <2>5, <2>6 DEF ServerInv
<1> QED BY <1>1, <1>2

\* Accepting and starting a connection, and the client's steps, preserve the invariant.
LEMMA AcceptInv ==
    ASSUME ServerInv, NEW c \in Conn, Accept(c) \/ Connect(c) \/ ClientLeaves(c) \/ Start(c)
    PROVE  ServerInv'
<1>1. CASE Accept(c)
  <2>1. TypeOK'
    BY <1>1 DEF ServerInv, TypeOK, Accept, run
  <2>2. WgCounts'
    BY <1>1 DEF ServerInv, WgCounts, Busy, Accept, run
  <2>3. InHandOK'
    BY <1>1 DEF ServerInv, TypeOK, InHandOK, Accept, run
  <2>4. PhasesOK'
    BY <1>1 DEF ServerInv, TypeOK, PhasesOK, Accept, run
  <2>5. LogOK'
    BY <1>1 DEF ServerInv, TypeOK, LogOK, PhasesOK, Accept, run
  <2>6. AtMostOneOutlives'
    BY <1>1 DEF ServerInv, TypeOK, AtMostOneOutlives, Unfinished, PhasesOK, Accept, run
  <2> QED BY <2>1, <2>2, <2>3, <2>4, <2>5, <2>6 DEF ServerInv
<1>2. CASE Connect(c)
  <2>1. TypeOK'
    BY <1>2 DEF ServerInv, TypeOK, Connect, run, loop
  <2>2. WgCounts'
    BY <1>2 DEF ServerInv, WgCounts, Busy, Connect, run, loop
  <2>3. InHandOK'
    BY <1>2 DEF ServerInv, TypeOK, InHandOK, Connect, run, loop
  <2>4. PhasesOK'
    BY <1>2 DEF ServerInv, TypeOK, PhasesOK, Connect, run, loop
  <2>5. LogOK'
    BY <1>2 DEF ServerInv, TypeOK, LogOK, PhasesOK, Connect, run, loop
  <2>6. AtMostOneOutlives'
    BY <1>2 DEF ServerInv, TypeOK, AtMostOneOutlives, Unfinished, PhasesOK, Connect, run, loop
  <2> QED BY <2>1, <2>2, <2>3, <2>4, <2>5, <2>6 DEF ServerInv
<1>3. CASE ClientLeaves(c)
  <2>1. TypeOK'
    BY <1>3 DEF ServerInv, TypeOK, ClientLeaves, run, loop
  <2>2. WgCounts'
    BY <1>3 DEF ServerInv, WgCounts, Busy, ClientLeaves, run, loop
  <2>3. InHandOK'
    BY <1>3 DEF ServerInv, TypeOK, InHandOK, ClientLeaves, run, loop
  <2>4. PhasesOK'
    BY <1>3 DEF ServerInv, TypeOK, PhasesOK, ClientLeaves, run, loop
  <2>5. LogOK'
    BY <1>3 DEF ServerInv, TypeOK, LogOK, PhasesOK, ClientLeaves, run, loop
  <2>6. AtMostOneOutlives'
    BY <1>3 DEF ServerInv, TypeOK, AtMostOneOutlives, Unfinished, PhasesOK, ClientLeaves, run, loop
  <2> QED BY <2>1, <2>2, <2>3, <2>4, <2>5, <2>6 DEF ServerInv
<1>4. CASE Start(c)
  <2>1. TypeOK'
    <3>1. wg' \in Nat
      BY <1>4 DEF ServerInv, TypeOK, Start
    <3>2. handler' \in [Conn -> Counted \cup {"none", "ended"}]
      BY <1>4 DEF ServerInv, TypeOK, Start, Counted, Serving
    <3> QED BY <1>4, <3>1, <3>2 DEF ServerInv, TypeOK, Start, run
  <2>2. WgCounts'
    <3>1. c \notin Busy /\ Busy' = Busy \cup {c}
      BY <1>4 DEF ServerInv, TypeOK, InHandOK, Busy, Start, Counted, Serving
    <3> QED BY <1>4, <3>1, BusyFinite, FS_AddElement DEF ServerInv, WgCounts, Start
  <2>3. InHandOK'
    BY <1>4 DEF ServerInv, TypeOK, InHandOK, Start, run
  <2>4. PhasesOK'
    BY <1>4 DEF ServerInv, TypeOK, PhasesOK, Start, run
  <2>5. LogOK'
    BY <1>4 DEF ServerInv, TypeOK, LogOK, PhasesOK, Start, run
  <2>6. AtMostOneOutlives'
    BY <1>4 DEF ServerInv, TypeOK, AtMostOneOutlives, Unfinished, PhasesOK, Start, run
  <2> QED BY <2>1, <2>2, <2>3, <2>4, <2>5, <2>6 DEF ServerInv
<1> QED BY <1>1, <1>2, <1>3, <1>4

\* The steps of a connection's goroutine preserve the invariant.
LEMMA GoroutineInv ==
    ASSUME ServerInv, NEW c \in Conn, Request(c) \/ OnWrite(c) \/ Reply(c) \/ ConnError(c) \/ UntrackConn(c) \/ Done(c)
    PROVE  ServerInv'
<1>1. CASE Request(c)
  <2>1. TypeOK'
    BY <1>1 DEF ServerInv, TypeOK, Request, Goto, run, loop, Counted, Serving
  <2>2. WgCounts'
    BY <1>1 DEF ServerInv, WgCounts, Busy, Request, Goto, run, loop, Counted, Serving
  <2>3. InHandOK'
    BY <1>1 DEF ServerInv, TypeOK, InHandOK, Request, Goto, run, loop, Counted, Serving
  <2>4. PhasesOK'
    BY <1>1 DEF ServerInv, TypeOK, PhasesOK, Request, Goto, run, loop, Counted, Serving
  <2>5. LogOK'
    BY <1>1 DEF ServerInv, TypeOK, LogOK, PhasesOK, Request, Goto, run, loop, Counted, Serving
  <2>6. AtMostOneOutlives'
    BY <1>1 DEF ServerInv, TypeOK, AtMostOneOutlives, Unfinished, PhasesOK, Request, Goto, run, loop, Counted, Serving
  <2> QED BY <2>1, <2>2, <2>3, <2>4, <2>5, <2>6 DEF ServerInv
<1>2. CASE OnWrite(c)
  <2>1. TypeOK'
    BY <1>2 DEF ServerInv, TypeOK, OnWrite, Goto, run, loop, Counted, Serving
  <2>2. WgCounts'
    BY <1>2 DEF ServerInv, WgCounts, Busy, OnWrite, Goto, run, loop, Counted, Serving
  <2>3. InHandOK'
    BY <1>2 DEF ServerInv, TypeOK, InHandOK, OnWrite, Goto, run, loop, Counted, Serving
  <2>4. PhasesOK'
    BY <1>2 DEF ServerInv, TypeOK, PhasesOK, OnWrite, Goto, run, loop, Counted, Serving
  <2>5. LogOK'
    BY <1>2 DEF ServerInv, TypeOK, LogOK, PhasesOK, OnWrite, Goto, run, loop, Counted, Serving
  <2>6. AtMostOneOutlives'
    BY <1>2 DEF ServerInv, TypeOK, AtMostOneOutlives, Unfinished, PhasesOK, OnWrite, Goto, run, loop, Counted, Serving
  <2> QED BY <2>1, <2>2, <2>3, <2>4, <2>5, <2>6 DEF ServerInv
<1>3. CASE Reply(c)
  <2>1. TypeOK'
    BY <1>3 DEF ServerInv, TypeOK, Reply, Goto, run, loop, Counted, Serving
  <2>2. WgCounts'
    BY <1>3 DEF ServerInv, WgCounts, Busy, Reply, Goto, run, loop, Counted, Serving
  <2>3. InHandOK'
    BY <1>3 DEF ServerInv, TypeOK, InHandOK, Reply, Goto, run, loop, Counted, Serving
  <2>4. PhasesOK'
    BY <1>3 DEF ServerInv, TypeOK, PhasesOK, Reply, Goto, run, loop, Counted, Serving
  <2>5. LogOK'
    BY <1>3 DEF ServerInv, TypeOK, LogOK, PhasesOK, Reply, Goto, run, loop, Counted, Serving
  <2>6. AtMostOneOutlives'
    BY <1>3 DEF ServerInv, TypeOK, AtMostOneOutlives, Unfinished, PhasesOK, Reply, Goto, run, loop, Counted, Serving
  <2> QED BY <2>1, <2>2, <2>3, <2>4, <2>5, <2>6 DEF ServerInv
<1>4. CASE ConnError(c)
  <2>1. TypeOK'
    BY <1>4 DEF ServerInv, TypeOK, ConnError, Goto, run, loop, Counted, Serving
  <2>2. WgCounts'
    <3>1. Busy' = Busy
      BY <1>4 DEF ServerInv, TypeOK, Busy, ConnError, Goto, Counted, Serving
    <3> QED BY <1>4, <3>1 DEF ServerInv, WgCounts, ConnError
  <2>3. InHandOK'
    BY <1>4 DEF ServerInv, TypeOK, InHandOK, ConnError, Goto, run, loop, Counted, Serving
  <2>4. PhasesOK'
    BY <1>4 DEF ServerInv, TypeOK, PhasesOK, ConnError, Goto, run, loop, Counted, Serving
  <2>5. LogOK'
    BY <1>4 DEF ServerInv, TypeOK, LogOK, PhasesOK, ConnError, Goto, run, loop, Counted, Serving
  <2>6. AtMostOneOutlives'
    BY <1>4 DEF ServerInv, TypeOK, AtMostOneOutlives, Unfinished, PhasesOK, ConnError, Goto, run, loop, Counted, Serving
  <2> QED BY <2>1, <2>2, <2>3, <2>4, <2>5, <2>6 DEF ServerInv
<1>5. CASE UntrackConn(c)
  <2>1. TypeOK'
    BY <1>5 DEF ServerInv, TypeOK, UntrackConn, Goto, run, loop, Counted, Serving
  <2>2. WgCounts'
    BY <1>5 DEF ServerInv, WgCounts, Busy, UntrackConn, Goto, run, loop, Counted, Serving
  <2>3. InHandOK'
    BY <1>5 DEF ServerInv, TypeOK, InHandOK, UntrackConn, Goto, run, loop, Counted, Serving
  <2>4. PhasesOK'
    BY <1>5 DEF ServerInv, TypeOK, PhasesOK, UntrackConn, Goto, run, loop, Counted, Serving
  <2>5. LogOK'
    BY <1>5 DEF ServerInv, TypeOK, LogOK, PhasesOK, UntrackConn, Goto, run, loop, Counted, Serving
  <2>6. AtMostOneOutlives'
    BY <1>5 DEF ServerInv, TypeOK, AtMostOneOutlives, Unfinished, PhasesOK, UntrackConn, Goto, run, loop, Counted, Serving
  <2> QED BY <2>1, <2>2, <2>3, <2>4, <2>5, <2>6 DEF ServerInv
<1>6. CASE Done(c)
  <2>1. TypeOK'
    <3>1. wg' \in Nat
      <4>1. c \in Busy
        BY <1>6 DEF Busy, Done, Goto, Counted
      <4>2. Cardinality(Busy) # 0
        BY <4>1, BusyFinite, FS_EmptySet
      <4> QED BY <1>6, <4>2, BusyFinite DEF ServerInv, WgCounts, Done
    <3>2. handler' \in [Conn -> Counted \cup {"none", "ended"}]
      BY <1>6 DEF ServerInv, TypeOK, Done, Goto, Counted, Serving
    <3>3. waiter' \in {"none", "start", "waiting", "woken", "done"}
      BY <1>6 DEF ServerInv, TypeOK, Done
    <3> QED BY <1>6, <3>1, <3>2, <3>3 DEF ServerInv, TypeOK, Done, Goto, run, loop
  <2>2. WgCounts'
    <3>1. c \in Busy /\ Busy' = Busy \ {c}
      BY <1>6 DEF ServerInv, TypeOK, Busy, Done, Goto, Counted, Serving
    <3> QED BY <1>6, <3>1, BusyFinite, FS_RemoveElement DEF ServerInv, WgCounts, Done
  <2>3. InHandOK'
    BY <1>6 DEF ServerInv, TypeOK, InHandOK, Done, Goto, run, loop, Counted, Serving
  <2>4. PhasesOK'
    BY <1>6 DEF ServerInv, TypeOK, PhasesOK, Done, Goto, run, loop, Counted, Serving
  <2>5. LogOK'
    BY <1>6 DEF ServerInv, TypeOK, LogOK, PhasesOK, Done, Goto, run, loop, Counted, Serving
  <2>6. AtMostOneOutlives'
    BY <1>6 DEF ServerInv, TypeOK, AtMostOneOutlives, Unfinished, PhasesOK, Done, Goto, run, loop, Counted, Serving
  <2> QED BY <2>1, <2>2, <2>3, <2>4, <2>5, <2>6 DEF ServerInv
<1> QED BY <1>1, <1>2, <1>3, <1>4, <1>5, <1>6

\* Every step preserves the invariant.
LEMMA NextInv == ServerInv /\ [Next]_vars => ServerInv'
<1> SUFFICES ASSUME ServerInv, [Next]_vars PROVE ServerInv'
  OBVIOUS
<1>1. CASE UNCHANGED vars
  BY <1>1 DEF vars, ServerInv, TypeOK, WgCounts, Busy, InHandOK, PhasesOK, LogOK, AtMostOneOutlives, Unfinished
<1>2. CASE Next
  BY <1>2, RunInv, WaitInv, AcceptLoopInv, AcceptInv, GoroutineInv DEF Next, Shutdown, AcceptLoop, Goroutine
<1> QED BY <1>1, <1>2

\* The inductive invariant holds in every reachable state, for any number of
\* connections: in particular the wait group counts the running goroutines.
THEOREM ServerInvariant == Spec => []ServerInv
  BY InitInv, NextInv, PTL DEF Spec

\* The server's state is well typed; the wait group never goes below zero.
THEOREM ServerTyped == Spec => []TypeOK
<1>1. ServerInv => TypeOK
  BY DEF ServerInv
<1> QED BY <1>1, ServerInvariant, PTL

\* Whatever the order of shutdown, accept loop and connections, at most one connection
\* is still there when wg.Wait has returned, and only that one can lose a write.
THEOREM OutliveTheorem == Spec => []AtMostOneOutlives
<1>1. ServerInv => AtMostOneOutlives
  BY DEF ServerInv
<1> QED BY <1>1, ServerInvariant, PTL
=============================================================================
