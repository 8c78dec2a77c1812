------------------------------- MODULE PubSub -------------------------------
(***************************************************************************)
(* Publish/subscribe: pubsub.Hub, the handlers of command/pubsub.go, and   *)
(* the two goroutines that server.handleConn runs for every connection,    *)
(* the request loop and forwardPubSub.                                     *)
(*                                                                         *)
(* Hub.mu and Subscriber.mu are never held together and never while a      *)
(* message is sent, so each critical section is one step and the request   *)
(* loops interleave between them: (un)subscribing is two steps, publishing *)
(* is a snapshot of the subscribers followed by one step for each of them. *)
(***************************************************************************)
EXTENDS Integers, Sequences, FiniteSets

CONSTANTS
    Conn,        \* connections; each owns one Subscriber
    Channel,     \* channel names
    Requests,    \* what a client sends: the sequence of commands to dispatch
    InboxSize,   \* capacity of Subscriber.messages (inboxSize)
    MaxRequests  \* bound: requests that clients send

\* The orders in which ranging over a map can visit its keys S.
Orders(S) == {s \in [1 .. Cardinality(S) -> S] : \A x \in S : \E i \in DOMAIN s : s[i] = x}

Command ==
    [op : {"SUBSCRIBE", "UNSUBSCRIBE"}, chs : Seq(Channel)]
    \cup [op : {"PUBLISH"}, ch : Channel]

\* A request is one command, or the queue of an EXEC.
ASSUME PubSubAssumption ==
    /\ IsFiniteSet(Channel)
    /\ \A q \in Requests :
        /\ q \in Seq(Command) /\ q # <<>>
        /\ \A i \in DOMAIN q : q[i].op = "SUBSCRIBE" => q[i].chs # <<>>
    /\ InboxSize \in Nat \ {0}
    /\ MaxRequests \in Nat

VARIABLES
    subs,      \* Hub.subs: the channels present, each with its subscribers
    channels,  \* Subscriber.channels
    inbox,     \* Subscriber.messages
    pc,        \* where the request loop is
    queue,     \* commands of the request still to dispatch
    todo,      \* channels the running handler still has to (un)subscribe
    left,      \* subscribers the running Publish still has to send to
    stop,      \* stopForwarder is closed: the loop has returned
    forwarder, \* forwardPubSub is running
    held,      \* the message it took out of the inbox and is writing, if any
    broken,    \* the client is gone: reads and writes fail
    served,    \* requests read so far
    published, \* messages published so far
    pushed     \* pushed[c][p]: the number of the last message of p written to c

hub  == <<subs, channels, inbox>>
loop == <<pc, queue, todo, left, stop, served, published>>
wire == <<forwarder, held, broken, pushed>>
vars == <<subs, channels, inbox, pc, queue, todo, left, stop, forwarder, held, broken,
          served, published, pushed>>

\* published numbers a connection's messages, so that their order can be observed.
Message == [Channel : Channel, from : Conn, n : Nat]

TypeOK ==
    /\ DOMAIN subs \subseteq Channel /\ subs \in [DOMAIN subs -> SUBSET Conn]
    /\ channels \in [Conn -> SUBSET Channel]
    /\ inbox \in [Conn -> Seq(Message)] /\ \A c \in Conn : Len(inbox[c]) <= InboxSize
    /\ pc \in [Conn -> {"read", "dispatch", "hub+", "sub+", "hub-", "sub-", "send",
                        "reply", "teardown", "closed"}]
    /\ queue \in [Conn -> Seq(Command)]
    /\ todo \in [Conn -> Seq(Channel)]
    /\ left \in [Conn -> SUBSET Conn]
    /\ stop \in [Conn -> BOOLEAN]
    /\ forwarder \in [Conn -> BOOLEAN]
    /\ held \in [Conn -> Seq(Message)]
    /\ broken \in [Conn -> BOOLEAN]
    /\ served \in Nat /\ published \in [Conn -> Nat]
    /\ pushed \in [Conn -> [Conn -> Nat]]

Init ==
    /\ subs = [ch \in {} |-> {}]
    /\ channels = [c \in Conn |-> {}]
    /\ inbox = [c \in Conn |-> <<>>]
    /\ pc = [c \in Conn |-> "read"]
    /\ queue = [c \in Conn |-> <<>>] /\ todo = [c \in Conn |-> <<>>]
    /\ left = [c \in Conn |-> {}]
    /\ stop = [c \in Conn |-> FALSE]
    /\ forwarder = [c \in Conn |-> TRUE] /\ held = [c \in Conn |-> <<>>]
    /\ broken = [c \in Conn |-> FALSE]
    /\ served = 0 /\ published = [c \in Conn |-> 0]
    /\ pushed = [c \in Conn |-> [p \in Conn |-> 0]]

-----------------------------------------------------------------------------
(* The request loop.                                                       *)

InSubscriberMode(c) == channels[c] # {}

\* A connection with a subscription may only (un)subscribe, and PING, which changes
\* nothing; all else, MULTI and so EXEC included, is refused with an error.
subscriberModeAllowed(q) == Len(q) = 1 /\ q[1].op \in {"SUBSCRIBE", "UNSUBSCRIBE"}

Request(c) ==
    /\ pc[c] = "read" /\ ~broken[c] /\ served < MaxRequests
    /\ \E q \in Requests :
        /\ InSubscriberMode(c) => subscriberModeAllowed(q)
        /\ queue' = [queue EXCEPT ![c] = q]
    /\ pc' = [pc EXCEPT ![c] = "dispatch"]
    /\ served' = served + 1
    /\ UNCHANGED <<hub, todo, left, stop, published, wire>>

\* Handler subscribe, up to its first call of the hub.
subscribe(c) ==
    /\ pc[c] = "dispatch" /\ queue[c] # <<>> /\ queue[c][1].op = "SUBSCRIBE"
    /\ todo' = [todo EXCEPT ![c] = queue[c][1].chs]
    /\ queue' = [queue EXCEPT ![c] = Tail(@)]
    /\ pc' = [pc EXCEPT ![c] = "hub+"]
    /\ UNCHANGED <<hub, left, stop, served, published, wire>>

\* Handler unsubscribe: without arguments, every channel in some order.
unsubscribe(c) ==
    /\ pc[c] = "dispatch" /\ queue[c] # <<>> /\ queue[c][1].op = "UNSUBSCRIBE"
    /\ \E chs \in IF queue[c][1].chs # <<>> THEN {queue[c][1].chs}
                  ELSE Orders(channels[c]) :
        /\ todo' = [todo EXCEPT ![c] = chs]
        /\ pc' = [pc EXCEPT ![c] = IF chs = <<>> THEN "dispatch" ELSE "hub-"]
    /\ queue' = [queue EXCEPT ![c] = Tail(@)]
    /\ UNCHANGED <<hub, left, stop, served, published, wire>>

\* Mutant: each subscription starts a new set.
SubscribeAlone(c) ==
    LET ch == Head(todo[c])
    IN  /\ pc[c] = "hub+"
        /\ subs' = [x \in DOMAIN subs \cup {ch} |-> IF x = ch THEN {c} ELSE subs[x]]
        /\ pc' = [pc EXCEPT ![c] = "sub+"]
        /\ UNCHANGED <<channels, inbox, queue, todo, left, stop, served, published, wire>>

\* Hub.Subscribe under Hub.mu, then under Subscriber.mu.
Subscribe(c) ==
    LET ch == Head(todo[c])
    IN  /\ pc[c] = "hub+"
        /\ subs' = [x \in DOMAIN subs \cup {ch} |->
                        (IF x \in DOMAIN subs THEN subs[x] ELSE {})
                        \cup (IF x = ch THEN {c} ELSE {})]
        /\ pc' = [pc EXCEPT ![c] = "sub+"]
        /\ UNCHANGED <<channels, inbox, queue, todo, left, stop, served, published, wire>>

\* The loop of handler subscribe goes on with the next channel.
SubscribeSub(c) ==
    /\ pc[c] = "sub+"
    /\ channels' = [channels EXCEPT ![c] = @ \cup {Head(todo[c])}]
    /\ todo' = [todo EXCEPT ![c] = Tail(@)]
    /\ pc' = [pc EXCEPT ![c] = IF Len(todo[c]) > 1 THEN "hub+" ELSE "dispatch"]
    /\ UNCHANGED <<subs, inbox, queue, left, stop, served, published, wire>>

\* Mutant: a channel without subscribers stays in the map.
UnsubscribeKeeps(c) ==
    /\ pc[c] = "hub-"
    /\ subs' = [x \in DOMAIN subs |-> IF x = Head(todo[c]) THEN subs[x] \ {c} ELSE subs[x]]
    /\ pc' = [pc EXCEPT ![c] = "sub-"]
    /\ UNCHANGED <<channels, inbox, queue, todo, left, stop, served, published, wire>>

\* Hub.Unsubscribe under Hub.mu: a channel without subscribers leaves the map.
Unsubscribe(c) ==
    LET rest == [x \in DOMAIN subs |-> IF x = Head(todo[c]) THEN subs[x] \ {c} ELSE subs[x]]
    IN  /\ pc[c] = "hub-"
        /\ subs' = [x \in {y \in DOMAIN subs : y = Head(todo[c]) => rest[y] # {}} |-> rest[x]]
        /\ pc' = [pc EXCEPT ![c] = "sub-"]
        /\ UNCHANGED <<channels, inbox, queue, todo, left, stop, served, published, wire>>

\* Mutant: a connection is closed after its first channel.
UnsubscribeSubCloses(c) ==
    /\ pc[c] = "sub-"
    /\ channels' = [channels EXCEPT ![c] = @ \ {Head(todo[c])}]
    /\ todo' = [todo EXCEPT ![c] = Tail(@)]
    /\ pc' = [pc EXCEPT ![c] = IF stop[c] THEN "closed"
                               ELSE IF Len(todo[c]) > 1 THEN "hub-" ELSE "dispatch"]
    /\ UNCHANGED <<subs, inbox, queue, left, stop, served, published, wire>>

\* The caller's loop goes on; UnsubscribeAll's ends in conn.Close.
UnsubscribeSub(c) ==
    /\ pc[c] = "sub-"
    /\ channels' = [channels EXCEPT ![c] = @ \ {Head(todo[c])}]
    /\ todo' = [todo EXCEPT ![c] = Tail(@)]
    /\ pc' = [pc EXCEPT ![c] = IF Len(todo[c]) > 1 THEN "hub-"
                               ELSE IF stop[c] THEN "closed" ELSE "dispatch"]
    /\ UNCHANGED <<subs, inbox, queue, left, stop, served, published, wire>>

\* Handler publish up to the end of Hub.Publish's critical section.
Publish(c) ==
    /\ pc[c] = "dispatch" /\ queue[c] # <<>> /\ queue[c][1].op = "PUBLISH"
    /\ left' = [left EXCEPT ![c] = LET ch == queue[c][1].ch
                                   IN  IF ch \in DOMAIN subs THEN subs[ch] ELSE {}]
    /\ published' = [published EXCEPT ![c] = @ + 1]
    /\ pc' = [pc EXCEPT ![c] = "send"]
    /\ UNCHANGED <<hub, queue, todo, stop, served, wire>>

\* Mutant: no default case, the send waits for room.
SendBlocks(c) ==
    /\ pc[c] = "send"
    /\ \E s \in left[c] :
        /\ Len(inbox[s]) < InboxSize
        /\ left' = [left EXCEPT ![c] = @ \ {s}]
        /\ inbox' = [inbox EXCEPT ![s] = Append(@,
                        [Channel |-> queue[c][1].ch, from |-> c, n |-> published[c]])]
    /\ UNCHANGED <<subs, channels, pc, queue, todo, stop, served, published, wire>>

\* Mutant: an inbox without a limit.
SendUnbounded(c) ==
    /\ pc[c] = "send"
    /\ \E s \in left[c] :
        /\ left' = [left EXCEPT ![c] = @ \ {s}]
        /\ inbox' = [inbox EXCEPT ![s] = Append(@,
                        [Channel |-> queue[c][1].ch, from |-> c, n |-> published[c]])]
    /\ UNCHANGED <<subs, channels, pc, queue, todo, stop, served, published, wire>>

\* One turn of Publish's loop: the select sends, or drops if the inbox is full.
Send(c) ==
    /\ pc[c] = "send"
    /\ \E s \in left[c] :
        /\ left' = [left EXCEPT ![c] = @ \ {s}]
        /\ inbox' = IF Len(inbox[s]) >= InboxSize THEN inbox
                    ELSE [inbox EXCEPT ![s] = Append(@,
                            [Channel |-> queue[c][1].ch, from |-> c, n |-> published[c]])]
    /\ UNCHANGED <<subs, channels, pc, queue, todo, stop, served, published, wire>>

\* Publish returns; the handler is done.
PublishReturns(c) ==
    /\ pc[c] = "send" /\ left[c] = {}
    /\ queue' = [queue EXCEPT ![c] = Tail(@)]
    /\ pc' = [pc EXCEPT ![c] = "dispatch"]
    /\ UNCHANGED <<hub, todo, left, stop, served, published, wire>>

\* safeWrite(result): a failing write ends the loop.
Reply(c) ==
    /\ pc[c] = "dispatch" /\ queue[c] = <<>>
    /\ pc' = [pc EXCEPT ![c] = IF broken[c] THEN "teardown" ELSE "read"]
    /\ UNCHANGED <<hub, queue, todo, left, stop, served, published, wire>>

\* Mutant: a read error is ignored.
ReadErrorIgnored(c) ==
    /\ pc[c] = "read" /\ broken[c]
    /\ UNCHANGED vars

\* reader.Read fails.
ReadError(c) ==
    /\ pc[c] = "read" /\ broken[c]
    /\ pc' = [pc EXCEPT ![c] = "teardown"]
    /\ UNCHANGED <<hub, queue, todo, left, stop, served, published, wire>>

\* Mutant: ctx.Close is not deferred.
CloseOnly(c) ==
    /\ pc[c] = "teardown"
    /\ stop' = [stop EXCEPT ![c] = TRUE]
    /\ pc' = [pc EXCEPT ![c] = "closed"]
    /\ UNCHANGED <<hub, queue, todo, left, served, published, wire>>

\* The deferred calls: close(stopForwarder), then ctx.Close, whose UnsubscribeAll
\* copies the channels and unsubscribes from each, then conn.Close.
UnsubscribeAll(c) ==
    /\ pc[c] = "teardown"
    /\ stop' = [stop EXCEPT ![c] = TRUE]
    /\ \E chs \in Orders(channels[c]) :
        /\ todo' = [todo EXCEPT ![c] = chs]
        /\ pc' = [pc EXCEPT ![c] = IF chs = <<>> THEN "closed" ELSE "hub-"]
    /\ UNCHANGED <<hub, queue, left, served, published, wire>>

-----------------------------------------------------------------------------
(* forwardPubSub, and the client.                                          *)

\* Mutant: a message is read but not taken out of the inbox.
ReceivePeeks(c) ==
    /\ forwarder[c] /\ held[c] = <<>> /\ inbox[c] # <<>>
    /\ held' = [held EXCEPT ![c] = <<Head(inbox[c])>>]
    /\ UNCHANGED <<hub, loop, forwarder, broken, pushed>>

Receive(c) ==
    /\ forwarder[c] /\ held[c] = <<>> /\ inbox[c] # <<>>
    /\ held' = [held EXCEPT ![c] = <<Head(inbox[c])>>]
    /\ inbox' = [inbox EXCEPT ![c] = Tail(@)]
    /\ UNCHANGED <<subs, channels, loop, forwarder, broken, pushed>>

\* The frame is written.
Forward(c) ==
    /\ held[c] # <<>> /\ ~broken[c] /\ pc[c] # "closed"
    /\ held' = [held EXCEPT ![c] = <<>>]
    /\ pushed' = [pushed EXCEPT ![c][held[c][1].from] = held[c][1].n]
    /\ UNCHANGED <<hub, loop, forwarder, broken>>

\* Writing the frame fails, or there is none and stop is closed.
StopForwarding(c) ==
    /\ forwarder[c]
    /\ \/ held[c] # <<>> /\ (broken[c] \/ pc[c] = "closed")
       \/ held[c] = <<>> /\ stop[c]
    /\ forwarder' = [forwarder EXCEPT ![c] = FALSE]
    /\ held' = [held EXCEPT ![c] = <<>>]
    /\ UNCHANGED <<hub, loop, broken, pushed>>

Disconnect(c) ==
    /\ ~broken[c]
    /\ broken' = [broken EXCEPT ![c] = TRUE]
    /\ UNCHANGED <<hub, loop, forwarder, held, pushed>>

\* The steps of the request loop that do not wait for the client.
Handle(c) ==
    \/ subscribe(c) \/ Subscribe(c) \/ SubscribeSub(c)
    \/ unsubscribe(c) \/ Unsubscribe(c) \/ UnsubscribeSub(c)
    \/ Publish(c) \/ Send(c) \/ PublishReturns(c)
    \/ Reply(c) \/ ReadError(c) \/ UnsubscribeAll(c)

Next ==
    \E c \in Conn : \/ Request(c) \/ Handle(c)
                    \/ Receive(c) \/ Forward(c) \/ StopForwarding(c)
                    \/ Disconnect(c)

Spec == Init /\ [][Next]_vars

\* Writing a reply waits for the client to read, unless the client is gone.
WaitsForClient(c) == pc[c] = "dispatch" /\ queue[c] = <<>> /\ ~broken[c]

\* The request loop is a goroutine that the runtime schedules.  Nothing is
\* assumed of a client, nor of the forwarders: a client that does not read
\* blocks its own, and then its loop's next reply.
FairSpec == Spec /\ \A c \in Conn : WF_vars(~WaitsForClient(c) /\ Handle(c))

-----------------------------------------------------------------------------
(* Properties.                                                             *)

\* Hub.subs holds connection c under channel ch.
Registered(c, ch) == ch \in DOMAIN subs /\ c \in subs[ch]

\* The channel a handler has dealt with in the hub but not yet in the subscriber.
Between(c, ch) == pc[c] \in {"sub+", "sub-"} /\ Head(todo[c]) = ch

\* The hub and the subscribers agree: apart from the one channel it is just
\* (un)subscribing, a connection is registered for a channel in the hub exactly when
\* its own set says so, and no channel stays in the map without subscribers.
\* (Hub.Subscribe and Hub.Unsubscribe update the two under different locks.)
HubAgrees ==
    /\ \A c \in Conn, ch \in Channel :
        ~Between(c, ch) => (ch \in channels[c] <=> Registered(c, ch))
    /\ \A ch \in DOMAIN subs : subs[ch] # {}

\* A closed connection is registered nowhere: no later Publish sends to it, and the
\* hub does not keep it alive (Context.Close, UnsubscribeAll).
NoLeak == \A c \in Conn, ch \in Channel : pc[c] = "closed" => ~Registered(c, ch)

\* The messages on their way to c, oldest first.
InFlight(c) == held[c] \o inbox[c]

\* Between one publisher and one subscriber messages keep their order and none is
\* delivered twice: what is under way to c is younger than what c got from the
\* same publisher, and in ascending order, although several publishers and a
\* forwarder share the inbox (Hub.Publish sends without a lock).
PublishOrder ==
    \A c \in Conn :
        /\ \A i \in DOMAIN InFlight(c) :
            LET m == InFlight(c)[i] IN pushed[c][m.from] < m.n /\ m.n <= published[m.from]
        /\ \A i, j \in DOMAIN InFlight(c) :
            i < j /\ InFlight(c)[i].from = InFlight(c)[j].from => InFlight(c)[i].n < InFlight(c)[j].n

\* "A subscriber whose inbox is full is skipped rather than blocked on" (hub.go,
\* Publish): every publish returns, even if no forwarder ever takes a step.
PublishCompletes == \A c \in Conn : pc[c] = "send" ~> pc[c] = "dispatch"

\* A client that goes away in whatever state is eventually unregistered and its
\* connection closed, whatever the other connections do.
DisconnectedLeaves ==
    \A c \in Conn : broken[c] ~> (pc[c] = "closed" /\ \A ch \in Channel : ch \notin channels[c])
=============================================================================
