------------------------------- MODULE Server -------------------------------
(***************************************************************************)
(* The lifecycle of server.Server: Run, the accept loop, the connections   *)
(* it starts, and shutdown with its grace period.                          *)
(*                                                                         *)
(* The accept loop and shutdown run side by side and share connsMu and the *)
(* wait group only: between the return of Accept and wg.Add a connection   *)
(* is known to nobody.  sync.WaitGroup is used as it is documented: Wait   *)
(* returns when the counter is zero, and panics if the counter has been    *)
(* raised again before it got to return.                                   *)
(***************************************************************************)
EXTENDS Integers, FiniteSets

CONSTANTS
    Conn,         \* the connections that clients may open
    PromptAccept  \* from Accept's return to wg.Add takes less than shutdownGrace

ASSUME ServerAssumption == IsFiniteSet(Conn) /\ PromptAccept \in BOOLEAN

VARIABLES
    cancelled, \* ctx is done
    main,      \* where Run, and in it shutdown, is
    closing,   \* the channel Server.closing has been closed
    listening, \* the listener is open
    acceptor,  \* where acceptLoop is: "idle", "accept", "track", "add", "nil" or "error"
    inHand,    \* the connection acceptLoop got and has not started yet: at most one
    socket,    \* "none", "backlog", "open" or "dead": reads and writes fail
    handler,   \* the goroutine of a connection
    conns,     \* Server.conns
    wg,        \* the counter of Server.wg
    waiter,    \* the goroutine in wg.Wait; "done" when it has closed the channel done
    sweeping,  \* the store's sweeper has not been stopped
    aof,       \* "off", "open" or "closed"
    \* History, which the code does not keep:
    unlogged   \* connections with an acknowledged write that is not in the log

run  == <<cancelled, main, closing, sweeping, aof>>
loop == <<acceptor, inHand>>
vars == <<cancelled, main, closing, listening, acceptor, inHand, socket, handler, conns, wg,
          waiter, sweeping, aof, unlogged>>

\* handleConn waits for a request, has run one and logs it, or answers.
Serving == {"read", "log", "reply"}
\* What wg counts: the goroutines that have not called wg.Done.
Counted == Serving \cup {"untrack", "done"}

TypeOK ==
    /\ cancelled \in BOOLEAN /\ closing \in BOOLEAN /\ listening \in BOOLEAN
    /\ sweeping \in BOOLEAN
    /\ main \in {"listen", "select", "close", "listener", "wait", "drain", "force", "join",
                 "store", "aof", "returned", "panicked"}
    /\ acceptor \in {"idle", "accept", "track", "add", "nil", "error"}
    /\ inHand \subseteq Conn /\ conns \subseteq Conn /\ unlogged \subseteq Conn
    /\ socket \in [Conn -> {"none", "backlog", "open", "dead"}]
    /\ handler \in [Conn -> Counted \cup {"none", "ended"}]
    /\ wg \in Nat    \* a negative counter panics
    /\ waiter \in {"none", "start", "waiting", "woken", "done"}
    /\ aof \in {"off", "open", "closed"}

Init ==
    /\ cancelled = FALSE /\ main = "listen"
    /\ closing = FALSE /\ listening = FALSE
    /\ acceptor = "idle" /\ inHand = {}
    /\ socket = [c \in Conn |-> "none"] /\ handler = [c \in Conn |-> "none"]
    /\ conns = {} /\ wg = 0 /\ waiter = "none"
    /\ sweeping = TRUE /\ aof \in {"off", "open"}
    /\ unlogged = {}

-----------------------------------------------------------------------------
(* Clients and the context.                                                *)

\* A panic in one goroutine ends the process.
Alive == main # "panicked"

Cancel ==
    /\ Alive /\ ~cancelled /\ cancelled' = TRUE
    /\ UNCHANGED <<main, closing, listening, loop, socket, handler, conns, wg, waiter,
                   sweeping, aof, unlogged>>

Connect(c) ==
    /\ Alive /\ listening /\ socket[c] = "none"
    /\ socket' = [socket EXCEPT ![c] = "backlog"]
    /\ UNCHANGED <<run, listening, loop, handler, conns, wg, waiter, unlogged>>

ClientLeaves(c) ==
    /\ Alive /\ socket[c] = "open"
    /\ socket' = [socket EXCEPT ![c] = "dead"]
    /\ UNCHANGED <<run, listening, loop, handler, conns, wg, waiter, unlogged>>

-----------------------------------------------------------------------------
(* Run.                                                                    *)

Listen ==
    /\ main = "listen"
    /\ main' = "select" /\ listening' = TRUE /\ acceptor' = "accept"
    /\ UNCHANGED <<cancelled, closing, inHand, socket, handler, conns, wg, waiter,
                   sweeping, aof, unlogged>>

\* Listen fails, or select picks the error of acceptLoop: Run returns without
\* shutdown, also when ctx is done as well.
RunFails ==
    /\ main = "listen" \/ (main = "select" /\ acceptor = "error")
    /\ main' = "returned"
    /\ UNCHANGED <<cancelled, closing, listening, loop, socket, handler, conns, wg, waiter,
                   sweeping, aof, unlogged>>

\* A step of shutdown that changes nothing but the variables named with it.
To(here, there) == main = here /\ main' = there /\ UNCHANGED <<cancelled, loop, conns, wg, unlogged>>

ContextDone ==
    /\ cancelled /\ To("select", "close")
    /\ UNCHANGED <<closing, listening, socket, handler, waiter, sweeping, aof>>

CloseClosing ==
    /\ To("close", "listener") /\ closing' = TRUE
    /\ UNCHANGED <<listening, socket, handler, waiter, sweeping, aof>>

\* Mutant: the listener stays open.
CloseListenerNot ==
    /\ To("listener", "wait")
    /\ UNCHANGED <<closing, listening, socket, handler, waiter, sweeping, aof>>

\* ln.Close: connections nobody has accepted are reset.
CloseListener ==
    /\ To("listener", "wait") /\ listening' = FALSE
    /\ socket' = [c \in Conn |-> IF socket[c] = "backlog" THEN "dead" ELSE socket[c]]
    /\ UNCHANGED <<closing, handler, waiter, sweeping, aof>>

StartWaiter ==
    /\ To("wait", "drain") /\ waiter' = "start"
    /\ UNCHANGED <<closing, listening, socket, handler, sweeping, aof>>

\* case <-done, and <-done after the force close.
Drained ==
    /\ waiter = "done" /\ (To("drain", "store") \/ To("join", "store"))
    /\ UNCHANGED <<closing, listening, socket, handler, waiter, sweeping, aof>>

\* case <-time.After(shutdownGrace).
GraceElapses ==
    /\ PromptAccept => inHand = {}
    /\ To("drain", "force")
    /\ UNCHANGED <<closing, listening, socket, handler, waiter, sweeping, aof>>

\* Mutant: a warning is all.
ForceNothing ==
    /\ To("force", "join")
    /\ UNCHANGED <<closing, listening, socket, handler, waiter, sweeping, aof>>

\* Under connsMu, every connection that is tracked now is closed.
ForceClose ==
    /\ To("force", "join")
    /\ socket' = [c \in Conn |-> IF c \in conns THEN "dead" ELSE socket[c]]
    /\ UNCHANGED <<closing, listening, handler, waiter, sweeping, aof>>

CloseStore ==
    /\ To("store", "aof") /\ sweeping' = FALSE
    /\ UNCHANGED <<closing, listening, socket, handler, waiter, aof>>

CloseAOF ==
    /\ To("aof", "returned")
    /\ aof' = IF aof = "open" THEN "closed" ELSE aof
    /\ UNCHANGED <<closing, listening, socket, handler, waiter, sweeping>>

-----------------------------------------------------------------------------
(* wg.Wait in its goroutine.                                               *)

\* With a zero counter Wait returns at once, and done is closed.
Wait ==
    /\ Alive /\ waiter = "start"
    /\ waiter' = IF wg = 0 THEN "done" ELSE "waiting"
    /\ UNCHANGED <<run, listening, loop, socket, handler, conns, wg, unlogged>>

\* Woken by the last Done, the goroutine runs; "WaitGroup is reused before
\* previous Wait has returned" if somebody has added in the meantime.
WaitReturns ==
    /\ Alive /\ waiter = "woken"
    /\ IF wg = 0 THEN waiter' = "done" /\ main' = main
                 ELSE waiter' = waiter /\ main' = "panicked"
    /\ UNCHANGED <<cancelled, closing, listening, loop, socket, handler, conns, wg,
                   sweeping, aof, unlogged>>

-----------------------------------------------------------------------------
(* acceptLoop.                                                             *)

Accept(c) ==
    /\ Alive /\ acceptor = "accept" /\ listening /\ socket[c] = "backlog"
    /\ acceptor' = "track" /\ inHand' = {c}
    /\ socket' = [socket EXCEPT ![c] = "open"]
    /\ UNCHANGED <<run, listening, handler, conns, wg, waiter, unlogged>>

\* Accept returns an error: the listener was closed, or it failed by itself.
AcceptFails ==
    /\ Alive /\ acceptor = "accept"
    /\ acceptor' = IF closing THEN "nil" ELSE "error"
    /\ UNCHANGED <<run, listening, inHand, socket, handler, conns, wg, waiter, unlogged>>

TrackConn ==
    /\ Alive /\ acceptor = "track"
    /\ conns' = conns \cup inHand
    /\ acceptor' = "add"
    /\ UNCHANGED <<run, listening, inHand, socket, handler, wg, waiter, unlogged>>

\* Mutant: wg.Add(1) is left to the goroutine, and forgotten there.
StartUncounted(c) ==
    /\ Alive /\ acceptor = "add" /\ c \in inHand
    /\ handler' = [handler EXCEPT ![c] = "read"]
    /\ acceptor' = "accept" /\ inHand' = {}
    /\ UNCHANGED <<run, listening, socket, conns, wg, waiter, unlogged>>

\* wg.Add(1), and the goroutine starts.
Start(c) ==
    /\ Alive /\ acceptor = "add" /\ c \in inHand
    /\ wg' = wg + 1
    /\ handler' = [handler EXCEPT ![c] = "read"]
    /\ acceptor' = "accept" /\ inHand' = {}
    /\ UNCHANGED <<run, listening, socket, conns, waiter, unlogged>>

-----------------------------------------------------------------------------
(* The goroutine of a connection: handleConn and the deferred calls.       *)

Goto(c, here, there) ==
    /\ Alive /\ handler[c] = here /\ handler' = [handler EXCEPT ![c] = there]
    /\ UNCHANGED <<run, listening, loop, socket>>

\* A request that writes arrives and is run (others change nothing here).
Request(c) ==
    /\ socket[c] = "open" /\ Goto(c, "read", "log")
    /\ UNCHANGED <<conns, wg, waiter, unlogged>>

\* ctx.OnWrite: appending to a closed file fails, which is only logged.
OnWrite(c) ==
    /\ Goto(c, "log", "reply")
    /\ unlogged' = IF aof = "closed" THEN unlogged \cup {c} ELSE unlogged
    /\ UNCHANGED <<conns, wg, waiter>>

Reply(c) ==
    /\ socket[c] = "open" /\ Goto(c, "reply", "read")
    /\ UNCHANGED <<conns, wg, waiter, unlogged>>

\* Read or Write returns an error and handleConn returns.
ConnError(c) ==
    /\ socket[c] = "dead"
    /\ Goto(c, "read", "untrack") \/ Goto(c, "reply", "untrack")
    /\ UNCHANGED <<conns, wg, waiter, unlogged>>

\* Mutant: the map keeps the connection.
UntrackNothing(c) ==
    /\ Goto(c, "untrack", "done")
    /\ UNCHANGED <<conns, wg, waiter, unlogged>>

UntrackConn(c) ==
    /\ Goto(c, "untrack", "done")
    /\ conns' = conns \ {c}
    /\ UNCHANGED <<wg, waiter, unlogged>>

Done(c) ==
    /\ Goto(c, "done", "ended")
    /\ wg' = wg - 1
    /\ waiter' = IF wg = 1 /\ waiter = "waiting" THEN "woken" ELSE waiter
    /\ UNCHANGED <<conns, unlogged>>

-----------------------------------------------------------------------------

\* What each goroutine does by itself.
Shutdown ==
    \/ ContextDone \/ CloseClosing \/ CloseListener \/ StartWaiter
    \/ Drained \/ GraceElapses \/ ForceClose \/ CloseStore \/ CloseAOF
AcceptLoop == AcceptFails \/ TrackConn \/ (\E c \in Conn : Accept(c) \/ Start(c))
Goroutine(c) == OnWrite(c) \/ ConnError(c) \/ UntrackConn(c) \/ Done(c)

Next ==
    \/ Cancel \/ Listen \/ RunFails \/ Shutdown
    \/ Wait \/ WaitReturns \/ AcceptLoop
    \/ \E c \in Conn : Connect(c) \/ ClientLeaves(c) \/ Request(c) \/ Reply(c) \/ Goroutine(c)

Spec == Init /\ [][Next]_vars

\* Goroutines are scheduled and the timer fires.  Nothing is assumed of clients: they
\* may stay connected for ever, send nothing, and never read a reply.
FairSpec ==
    /\ Spec
    /\ WF_vars(Listen \/ RunFails \/ Shutdown)
    /\ WF_vars(Wait \/ WaitReturns)
    /\ WF_vars(TrackConn \/ (\E c \in Conn : Start(c)))
    /\ \A c \in Conn : WF_vars(Goroutine(c))

-----------------------------------------------------------------------------
(* Properties.                                                             *)

\* The connections that are still served, or about to be.
Unfinished == {c \in Conn : handler[c] \in Counted} \cup inHand

\* "Drains active connections ... before returning" (server.go, Run), as far as it
\* goes: once wg.Wait has returned at most one connection is left, the one that
\* Accept had returned when the listener was closed; and nobody but that one can
\* ever be told OK for a write that is not in the log (which it can: AcknowledgedIsLogged).
AtMostOneOutlives ==
    waiter = "done" => \A c, e \in Unfinished \cup unlogged : c = e

\* "Drains active connections (up to shutdownGrace) before returning" (server.go, Run),
\* and "appended to an on-disk log before the reply goes back" (README.md, 60-Second
\* Tour): nobody has been told OK for a write that is not in the log.
AcknowledgedIsLogged == \A c \in unlogged : handler[c] # "read"

\* "Close() unblocks each connection's pending Read, so this returns promptly"
\* (server.go, shutdown): Run returns once ctx is done, whatever the clients do,
\* unless the wait group panics.
ShutdownEnds == cancelled ~> main \in {"returned", "panicked"}

\* handleConn, untrackConn and wg.Done: a goroutine whose connection is dead ends,
\* and is no longer tracked.
DeadAreForgotten ==
    \A c \in Conn :
        (socket[c] = "dead" /\ handler[c] # "none")
            ~> ((handler[c] = "ended" /\ c \notin conns) \/ main = "panicked")
=============================================================================
