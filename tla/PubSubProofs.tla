---------------------------- MODULE PubSubProofs ----------------------------
(***************************************************************************)
(* The safety properties of PubSub, proved for any number of connections,  *)
(* channels, requests and any inbox size.                                  *)
(*                                                                         *)
(* HubInv strengthens HubAgrees by what is known of a request loop between *)
(* the two critical sections of (un)subscribing, and of one that is        *)
(* tearing its connection down; OrderInv strengthens PublishOrder by what  *)
(* a Publish still has to send.                                            *)
(***************************************************************************)
EXTENDS PubSub, FiniteSetTheorems, SequenceTheorems, TLAPS

\* The sequence s names every element of S.
Covered(S, s) == \A x \in S : \E i \in DOMAIN s : s[i] = x

\* What the program counter of a request loop says of its local variables.
Control(c) ==
    /\ pc[c] \in {"hub+", "sub+", "hub-", "sub-"} => todo[c] # <<>>
    /\ pc[c] = "send" => queue[c] # <<>> /\ queue[c][1].op = "PUBLISH"
    /\ \A i \in DOMAIN queue[c] : queue[c][i].op = "SUBSCRIBE" => queue[c][i].chs # <<>>
    /\ Len(held[c]) <= 1

\* Every request loop is in order.
ControlOK == \A c \in Conn : Control(c)

\* A step of connection c.
Step(c) ==
    \/ Request(c) \/ Handle(c) \/ Receive(c) \/ Forward(c) \/ StopForwarding(c) \/ Disconnect(c)

\* While a connection is torn down, UnsubscribeAll still has every remaining channel on
\* its list: nothing is added behind its back, since only its own loop subscribes.
Teardown(c) ==
    /\ stop[c] => pc[c] \in {"hub-", "sub-", "closed"}
    /\ stop[c] /\ pc[c] \in {"hub-", "sub-"} => Covered(channels[c], todo[c])
    /\ pc[c] = "closed" => channels[c] = {}

\* Every teardown is in order.
TeardownOK == \A c \in Conn : Teardown(c)

\* Between its two critical sections a loop knows what the hub says of its channel.
HalfwayOK ==
    \A c \in Conn :
        /\ pc[c] = "sub+" => Registered(c, Head(todo[c]))
        /\ pc[c] = "sub-" => ~Registered(c, Head(todo[c]))

\* The inductive invariant.
HubInv == TypeOK /\ ControlOK /\ HubAgrees /\ HalfwayOK /\ TeardownOK

\* A visiting order of the channels names each of them.
LEMMA OrdersType ==
    ASSUME NEW S \in SUBSET Channel, NEW s \in Orders(S)
    PROVE  s \in Seq(Channel) /\ Covered(S, s) /\ (s = <<>> <=> S = {})
<1>1. Cardinality(S) \in Nat
  BY FS_Subset, FS_CardinalityType, PubSubAssumption
<1>2. s \in [1 .. Cardinality(S) -> S] /\ Covered(S, s)
  BY DEF Orders, Covered
<1>3. s \in Seq(S)
  BY <1>1, <1>2
<1>4. s \in Seq(Channel)
  BY <1>3
<1>5. s = <<>> => S = {}
  BY <1>2 DEF Covered
<1>6. S = {} => s = <<>>
  BY <1>3
<1> QED BY <1>2, <1>4, <1>5, <1>6

\* The tail of a sequence with more than one element is not empty.
LEMMA LongTail ==
    ASSUME NEW S, NEW s \in Seq(S), s # <<>>
    PROVE  Len(s) > 1 => Tail(s) # <<>>
<1>1. Len(Tail(s)) = Len(s) - 1 /\ Len(s) \in Nat
  OBVIOUS
<1>2. ASSUME Len(s) > 1, Tail(s) = <<>> PROVE FALSE
  <2>1. Len(Tail(s)) > 0
    BY <1>1, <1>2
  <2>2. Len(<<>>) > 0
    BY <1>2, <2>1
  <2> QED BY <2>2
<1> QED BY <1>2

\* The fields of a command.
LEMMA CommandType ==
    ASSUME NEW x \in Command
    PROVE  /\ x.op \in {"SUBSCRIBE", "UNSUBSCRIBE", "PUBLISH"}
           /\ x.op \in {"SUBSCRIBE", "UNSUBSCRIBE"} => x.chs \in Seq(Channel)
           /\ x.op = "PUBLISH" => x.ch \in Channel
  BY DEF Command

\* The invariant holds initially.
LEMMA InitHub == Init => HubInv
  BY PubSubAssumption DEF Init, HubInv, TypeOK, ControlOK, Control, HubAgrees, HalfwayOK, TeardownOK, Teardown, Registered, Between

\* Every step preserves the types.
LEMMA TypeStep == HubInv /\ [Next]_vars => TypeOK'
<1> SUFFICES ASSUME TypeOK, ControlOK, [Next]_vars PROVE TypeOK'
  BY DEF HubInv
<1>1. CASE UNCHANGED vars
  BY <1>1 DEF TypeOK, vars
<1>2. ASSUME NEW c \in Conn, Request(c) PROVE TypeOK'
  BY <1>2, PubSubAssumption DEF Request, TypeOK, hub, wire
<1>3. ASSUME NEW c \in Conn, subscribe(c) PROVE TypeOK'
  BY <1>3, CommandType DEF subscribe, TypeOK, hub, wire
<1>4. ASSUME NEW c \in Conn, Subscribe(c) PROVE TypeOK'
  BY <1>4 DEF Subscribe, TypeOK, ControlOK, Control, hub, wire
<1>5. ASSUME NEW c \in Conn, SubscribeSub(c) PROVE TypeOK'
  BY <1>5 DEF SubscribeSub, TypeOK, ControlOK, Control, hub, wire
<1>6. ASSUME NEW c \in Conn, unsubscribe(c) PROVE TypeOK'
  <2>1. PICK chs \in IF queue[c][1].chs # <<>> THEN {queue[c][1].chs} ELSE Orders(channels[c]) :
            /\ todo' = [todo EXCEPT ![c] = chs]
            /\ pc' = [pc EXCEPT ![c] = IF chs = <<>> THEN "dispatch" ELSE "hub-"]
    BY <1>6 DEF unsubscribe
  <2>2. queue[c][1] \in Command /\ channels[c] \in SUBSET Channel
    BY <1>6 DEF unsubscribe, TypeOK
  <2>3. chs \in Seq(Channel)
    BY <1>6, <2>1, <2>2, CommandType, OrdersType DEF unsubscribe
  <2>4. /\ queue[c] # <<>> /\ queue' = [queue EXCEPT ![c] = Tail(@)]
        /\ UNCHANGED <<hub, left, stop, served, published, wire>>
    BY <1>6 DEF unsubscribe
  <2> QED BY <2>1, <2>3, <2>4 DEF TypeOK, hub, wire
<1>7. ASSUME NEW c \in Conn, Unsubscribe(c) PROVE TypeOK'
  BY <1>7 DEF Unsubscribe, TypeOK, hub, wire
<1>8. ASSUME NEW c \in Conn, UnsubscribeSub(c) PROVE TypeOK'
  BY <1>8 DEF UnsubscribeSub, TypeOK, ControlOK, Control, hub, wire
<1>9. ASSUME NEW c \in Conn, Publish(c) PROVE TypeOK'
  BY <1>9, CommandType DEF Publish, TypeOK, hub, wire
<1>10. ASSUME NEW c \in Conn, Send(c) PROVE TypeOK'
  <2> DEFINE m == [Channel |-> queue[c][1].ch, from |-> c, n |-> published[c]]
  <2>1. queue[c][1] \in Command /\ queue[c][1].op = "PUBLISH"
    BY <1>10 DEF Send, TypeOK, ControlOK, Control
  <2>2. m \in Message
    BY <2>1, CommandType DEF TypeOK, Message
  <2>3. PICK s \in left[c] :
            /\ left' = [left EXCEPT ![c] = @ \ {s}]
            /\ inbox' = IF Len(inbox[s]) >= InboxSize THEN inbox
                        ELSE [inbox EXCEPT ![s] = Append(@, m)]
    BY <1>10 DEF Send
  <2> HIDE DEF m
  <2>4. inbox' \in [Conn -> Seq(Message)] /\ \A d \in Conn : Len(inbox'[d]) <= InboxSize
    <3>1. /\ s \in Conn /\ inbox \in [Conn -> Seq(Message)] /\ inbox[s] \in Seq(Message)
          /\ \A d \in Conn : Len(inbox[d]) <= InboxSize
      BY DEF TypeOK
    <3>2. Append(inbox[s], m) \in Seq(Message) /\ Len(Append(inbox[s], m)) = Len(inbox[s]) + 1
      BY <2>2, <3>1
    <3>3. CASE inbox' = inbox
      BY <3>1, <3>3
    <3>4. CASE Len(inbox[s]) < InboxSize /\ inbox' = [inbox EXCEPT ![s] = Append(@, m)]
      <4>1. /\ inbox' \in [Conn -> Seq(Message)] /\ inbox'[s] = Append(inbox[s], m)
            /\ \A d \in Conn : d # s => inbox'[d] = inbox[d]
        BY <3>1, <3>2, <3>4
      <4>2. Len(inbox[s]) \in Nat /\ InboxSize \in Nat
        BY <3>1, PubSubAssumption
      <4>3. Len(inbox'[s]) <= InboxSize
        BY <3>2, <3>4, <4>1, <4>2
      <4> QED BY <3>1, <4>1, <4>3
    <3>5. Len(inbox[s]) \in Nat /\ InboxSize \in Nat
      BY <3>1, PubSubAssumption
    <3> QED BY <2>3, <3>3, <3>4, <3>5
  <2>5. left' \in [Conn -> SUBSET Conn]
    BY <2>3 DEF TypeOK
  <2>6. UNCHANGED <<subs, channels, pc, queue, todo, stop, served, published, wire>>
    BY <1>10 DEF Send
  <2> QED BY <2>4, <2>5, <2>6 DEF TypeOK, wire
<1>11. ASSUME NEW c \in Conn, PublishReturns(c) PROVE TypeOK'
  BY <1>11 DEF PublishReturns, TypeOK, ControlOK, Control, hub, wire
<1>12. ASSUME NEW c \in Conn, Reply(c) PROVE TypeOK'
  BY <1>12 DEF Reply, TypeOK, hub, wire
<1>13. ASSUME NEW c \in Conn, ReadError(c) PROVE TypeOK'
  BY <1>13 DEF ReadError, TypeOK, hub, wire
<1>14. ASSUME NEW c \in Conn, UnsubscribeAll(c) PROVE TypeOK'
  <2>1. PICK chs \in Orders(channels[c]) :
            /\ todo' = [todo EXCEPT ![c] = chs]
            /\ pc' = [pc EXCEPT ![c] = IF chs = <<>> THEN "closed" ELSE "hub-"]
    BY <1>14 DEF UnsubscribeAll
  <2>2. chs \in Seq(Channel)
    BY <2>1, OrdersType DEF TypeOK
  <2> QED BY <1>14, <2>1, <2>2 DEF UnsubscribeAll, TypeOK, hub, wire
<1>15. ASSUME NEW c \in Conn, Receive(c) PROVE TypeOK'
  <2>1. /\ inbox[c] # <<>> /\ inbox' = [inbox EXCEPT ![c] = Tail(@)]
        /\ held' = [held EXCEPT ![c] = <<Head(inbox[c])>>]
        /\ UNCHANGED <<subs, channels, loop, forwarder, broken, pushed>>
    BY <1>15 DEF Receive
  <2>2. /\ inbox \in [Conn -> Seq(Message)] /\ inbox[c] \in Seq(Message)
        /\ \A d \in Conn : Len(inbox[d]) <= InboxSize
    BY DEF TypeOK
  <2>3. /\ Tail(inbox[c]) \in Seq(Message) /\ Head(inbox[c]) \in Message
        /\ Len(inbox[c]) \in Nat /\ Len(Tail(inbox[c])) = Len(inbox[c]) - 1
    BY <2>1, <2>2
  <2>4. /\ inbox' \in [Conn -> Seq(Message)] /\ inbox'[c] = Tail(inbox[c])
        /\ \A d \in Conn : d # c => inbox'[d] = inbox[d]
    BY <2>1, <2>2, <2>3
  <2>5. \A d \in Conn : Len(inbox'[d]) <= InboxSize
    <3>1. Len(inbox'[c]) <= InboxSize
      BY <2>2, <2>3, <2>4, PubSubAssumption
    <3> QED BY <2>2, <2>4, <3>1
  <2>6. held' \in [Conn -> Seq(Message)]
    BY <2>1, <2>3 DEF TypeOK
  <2> QED BY <2>1, <2>4, <2>5, <2>6 DEF TypeOK, loop
<1>16. ASSUME NEW c \in Conn, Forward(c) PROVE TypeOK'
  <2>1. held[c][1] \in Message
    BY <1>16 DEF Forward, TypeOK
  <2>2. held[c][1].from \in Conn /\ held[c][1].n \in Nat
    BY <2>1 DEF Message
  <2>3. pushed' \in [Conn -> [Conn -> Nat]]
    BY <1>16, <2>2 DEF Forward, TypeOK
  <2>4. held' \in [Conn -> Seq(Message)]
    BY <1>16 DEF Forward, TypeOK
  <2>5. UNCHANGED <<hub, loop, forwarder, broken>>
    BY <1>16 DEF Forward
  <2> QED BY <2>3, <2>4, <2>5 DEF TypeOK, hub, loop
<1>17. ASSUME NEW c \in Conn, StopForwarding(c) PROVE TypeOK'
  BY <1>17 DEF StopForwarding, TypeOK, hub, loop
<1>18. ASSUME NEW c \in Conn, Disconnect(c) PROVE TypeOK'
  BY <1>18 DEF Disconnect, TypeOK, hub, loop
<1> QED BY <1>1, <1>2, <1>3, <1>4, <1>5, <1>6, <1>7, <1>8, <1>9, <1>10, <1>11, <1>12, <1>13,
           <1>14, <1>15, <1>16, <1>17, <1>18 DEF Next, Handle

\* A step of connection c leaves the local state of every other one alone.
LEMMA Others ==
    ASSUME TypeOK, NEW c \in Conn, NEW d \in Conn, d # c, Step(c)
    PROVE  /\ pc'[d] = pc[d] /\ queue'[d] = queue[d] /\ todo'[d] = todo[d]
           /\ channels'[d] = channels[d] /\ left'[d] = left[d] /\ stop'[d] = stop[d]
           /\ held'[d] = held[d] /\ pushed'[d] = pushed[d] /\ published'[d] = published[d]
<1>1. CASE Request(c)
  BY <1>1 DEF Request, TypeOK, hub, wire
<1>2. CASE Handle(c)
  <2>1. CASE subscribe(c) \/ Subscribe(c) \/ SubscribeSub(c)
    BY <2>1 DEF subscribe, Subscribe, SubscribeSub, TypeOK, hub, wire
  <2>2. CASE unsubscribe(c) \/ Unsubscribe(c) \/ UnsubscribeSub(c)
    BY <2>2 DEF unsubscribe, Unsubscribe, UnsubscribeSub, TypeOK, hub, wire
  <2>3. CASE Publish(c) \/ Send(c) \/ PublishReturns(c)
    BY <2>3 DEF Publish, Send, PublishReturns, TypeOK, hub, wire
  <2>4. CASE Reply(c) \/ ReadError(c) \/ UnsubscribeAll(c)
    BY <2>4 DEF Reply, ReadError, UnsubscribeAll, TypeOK, hub, wire
  <2> QED BY <1>2, <2>1, <2>2, <2>3, <2>4 DEF Handle
<1>3. CASE Receive(c) \/ Forward(c) \/ StopForwarding(c) \/ Disconnect(c)
  BY <1>3 DEF Receive, Forward, StopForwarding, Disconnect, TypeOK, hub, loop
<1> QED BY <1>1, <1>2, <1>3 DEF Step

\* Every step preserves ControlOK.
LEMMA ControlStep ==
    ASSUME TypeOK, ControlOK, NEW c \in Conn, Step(c)
    PROVE  ControlOK'
<1> SUFFICES ASSUME NEW d \in Conn PROVE Control(d)'
  BY DEF ControlOK
<1>0. Control(c) /\ Control(d)
  BY DEF ControlOK
<1>1. CASE d # c
  BY <1>0, <1>1, Others DEF Control
<1> SUFFICES Control(c)'
  BY <1>1
<1> USE <1>0
<1>2. CASE Request(c)
  <2>1. PICK q \in Requests : queue' = [queue EXCEPT ![c] = q]
    BY <1>2 DEF Request
  <2>2. queue'[c] = q /\ pc'[c] = "dispatch" /\ held'[c] = held[c]
    BY <1>2, <2>1 DEF Request, TypeOK, wire
  <2> QED BY <2>2, PubSubAssumption DEF Control
<1>3. CASE subscribe(c)
  <2>1. queue[c][1].chs # <<>> /\ pc'[c] = "hub+" /\ held'[c] = held[c]
    BY <1>3 DEF subscribe, TypeOK, Control, wire
  <2>2. queue[c] \in Seq(Command) /\ queue[c] # <<>> /\ queue'[c] = Tail(queue[c]) /\ todo'[c] = queue[c][1].chs
    BY <1>3 DEF subscribe, TypeOK
  <2> QED BY <2>1, <2>2 DEF Control
<1>4. CASE Subscribe(c) \/ Unsubscribe(c)
  BY <1>4 DEF Subscribe, Unsubscribe, TypeOK, Control, wire
<1>5. CASE SubscribeSub(c) \/ UnsubscribeSub(c)
  <2>1. /\ todo[c] \in Seq(Channel) /\ todo[c] # <<>>
        /\ todo'[c] = Tail(todo[c]) /\ queue'[c] = queue[c] /\ held'[c] = held[c]
    BY <1>5 DEF SubscribeSub, UnsubscribeSub, TypeOK, Control, wire
  <2>2. \/ pc'[c] \in {"dispatch", "closed"}
        \/ pc'[c] \in {"hub+", "hub-"} /\ Len(todo[c]) > 1
    BY <1>5 DEF SubscribeSub, UnsubscribeSub, TypeOK
  <2>3. Len(todo[c]) > 1 => Tail(todo[c]) # <<>>
    BY <2>1, LongTail
  <2> QED BY <2>1, <2>2, <2>3 DEF Control
<1>6. CASE unsubscribe(c)
  <2>1. queue[c] \in Seq(Command) /\ queue[c] # <<>> /\ queue'[c] = Tail(queue[c]) /\ held'[c] = held[c]
    BY <1>6 DEF unsubscribe, TypeOK, wire
  <2>2. pc'[c] = IF todo'[c] = <<>> THEN "dispatch" ELSE "hub-"
    BY <1>6 DEF unsubscribe, TypeOK
  <2> QED BY <2>1, <2>2 DEF Control
<1>7. CASE Publish(c) \/ Send(c)
  BY <1>7 DEF Publish, Send, TypeOK, Control, wire
<1>8. CASE PublishReturns(c)
  <2>1. /\ queue[c] \in Seq(Command) /\ queue[c] # <<>> /\ queue'[c] = Tail(queue[c])
        /\ held'[c] = held[c] /\ pc'[c] = "dispatch"
    BY <1>8 DEF PublishReturns, TypeOK, Control, wire
  <2> QED BY <2>1 DEF Control
<1>9. CASE Reply(c) \/ ReadError(c)
  BY <1>9 DEF Reply, ReadError, TypeOK, Control, wire
<1>10. CASE UnsubscribeAll(c)
  <2>1. /\ pc'[c] = IF todo'[c] = <<>> THEN "closed" ELSE "hub-"
        /\ queue'[c] = queue[c] /\ held'[c] = held[c]
    BY <1>10 DEF UnsubscribeAll, TypeOK, wire
  <2> QED BY <2>1 DEF Control
<1>11. CASE Receive(c) \/ Forward(c) \/ StopForwarding(c) \/ Disconnect(c)
  <2>1. Len(held'[c]) <= 1
    <3>1. CASE Receive(c)
      <4>1. held'[c] = <<Head(inbox[c])>>
        BY <3>1 DEF Receive, TypeOK
      <4> QED BY <4>1
    <3>2. CASE Forward(c) \/ StopForwarding(c)
      BY <3>2 DEF Forward, StopForwarding, TypeOK
    <3>3. CASE Disconnect(c)
      BY <3>3 DEF Disconnect, Control
    <3> QED BY <1>11, <3>1, <3>2, <3>3
  <2>2. pc'[c] = pc[c] /\ queue'[c] = queue[c] /\ todo'[c] = todo[c]
    BY <1>11 DEF Receive, Forward, StopForwarding, Disconnect, loop
  <2> QED BY <2>1, <2>2 DEF Control
<1> QED BY <1>2, <1>3, <1>4, <1>5, <1>6, <1>7, <1>8, <1>9, <1>10, <1>11 DEF Step, Handle

\* Subscribe registers one connection for one channel.
LEMMA SubscribeEffect ==
    ASSUME TypeOK, NEW c \in Conn, Subscribe(c)
    PROVE  /\ \A d, x : Registered(d, x)' <=> Registered(d, x) \/ (d = c /\ x = Head(todo[c]))
           /\ HubAgrees => \A x \in DOMAIN subs' : subs'[x] # {}
  BY DEF Subscribe, Registered, HubAgrees

\* Unsubscribe removes one registration, and the channel with the last one.
LEMMA UnsubscribeEffect ==
    ASSUME TypeOK, NEW c \in Conn, Unsubscribe(c)
    PROVE  /\ \A d, x : Registered(d, x)' <=> Registered(d, x) /\ ~(d = c /\ x = Head(todo[c]))
           /\ HubAgrees => \A x \in DOMAIN subs' : subs'[x] # {}
  BY DEF Unsubscribe, Registered, HubAgrees

\* The steps that change registrations.
HubStep(c) == Subscribe(c) \/ SubscribeSub(c) \/ Unsubscribe(c) \/ UnsubscribeSub(c)

\* Every other step leaves the hub and the half-way point of the loop alone.
LEMMA Quiet ==
    ASSUME TypeOK, NEW c \in Conn, Step(c), ~HubStep(c)
    PROVE  /\ subs' = subs /\ channels' = channels
           /\ \/ pc[c] \notin {"sub+", "sub-"} /\ pc'[c] \notin {"sub+", "sub-"}
              \/ pc'[c] = pc[c] /\ todo'[c] = todo[c]
<1>1. CASE Request(c)
  BY <1>1 DEF Request, TypeOK, hub
<1>2. CASE subscribe(c)
  BY <1>2 DEF subscribe, TypeOK, hub
<1>3. CASE unsubscribe(c)
  BY <1>3 DEF unsubscribe, TypeOK, hub
<1>4. CASE Publish(c) \/ Send(c) \/ PublishReturns(c)
  BY <1>4 DEF Publish, Send, PublishReturns, TypeOK, hub
<1>5. CASE Reply(c) \/ ReadError(c)
  BY <1>5 DEF Reply, ReadError, TypeOK, hub
<1>6. CASE UnsubscribeAll(c)
  BY <1>6 DEF UnsubscribeAll, TypeOK, hub
<1>7. CASE Receive(c) \/ Forward(c) \/ StopForwarding(c) \/ Disconnect(c)
  BY <1>7 DEF Receive, Forward, StopForwarding, Disconnect, hub, loop
<1> QED BY <1>1, <1>2, <1>3, <1>4, <1>5, <1>6, <1>7 DEF Step, Handle, HubStep

\* Every step preserves the agreement of the hub and the subscribers.
LEMMA AgreeStep ==
    ASSUME TypeOK, ControlOK, HubAgrees, HalfwayOK, NEW c \in Conn, Step(c)
    PROVE  HubAgrees' /\ HalfwayOK'
<1>1. CASE ~HubStep(c)
  <2>1. \A d, x : Registered(d, x)' <=> Registered(d, x)
    BY <1>1, Quiet DEF Registered
  <2>2. \A d \in Conn : \/ pc[d] \notin {"sub+", "sub-"} /\ pc'[d] \notin {"sub+", "sub-"}
                        \/ pc'[d] = pc[d] /\ todo'[d] = todo[d]
    BY <1>1, Quiet, Others
  <2> QED BY <1>1, <2>1, <2>2, Quiet DEF HubAgrees, HalfwayOK, Between
<1>2. CASE Subscribe(c)
  <2>1. /\ channels' = channels /\ todo' = todo /\ pc[c] = "hub+" /\ pc'[c] = "sub+"
    BY <1>2 DEF Subscribe, TypeOK
  <2>2. \A d \in Conn : d # c => pc'[d] = pc[d]
    BY Others
  <2> QED BY <1>2, <2>1, <2>2, SubscribeEffect DEF HubAgrees, HalfwayOK, Between
<1>3. CASE Unsubscribe(c)
  <2>1. /\ channels' = channels /\ todo' = todo /\ pc[c] = "hub-" /\ pc'[c] = "sub-"
    BY <1>3 DEF Unsubscribe, TypeOK
  <2>2. \A d \in Conn : d # c => pc'[d] = pc[d]
    BY Others
  <2> QED BY <1>3, <2>1, <2>2, UnsubscribeEffect DEF HubAgrees, HalfwayOK, Between
<1>4. CASE SubscribeSub(c)
  <2>1. /\ subs' = subs /\ pc[c] = "sub+" /\ pc'[c] \notin {"sub+", "sub-"}
        /\ channels'[c] = channels[c] \cup {Head(todo[c])}
    BY <1>4 DEF SubscribeSub, TypeOK
  <2>2. \A d \in Conn : d # c => pc'[d] = pc[d] /\ todo'[d] = todo[d] /\ channels'[d] = channels[d]
    BY Others
  <2>3. \A d, x : Registered(d, x)' <=> Registered(d, x)
    BY <2>1 DEF Registered
  <2> QED BY <2>1, <2>2, <2>3 DEF HubAgrees, HalfwayOK, Between
<1>5. CASE UnsubscribeSub(c)
  <2>1. /\ subs' = subs /\ pc[c] = "sub-" /\ pc'[c] \notin {"sub+", "sub-"}
        /\ channels'[c] = channels[c] \ {Head(todo[c])}
    BY <1>5 DEF UnsubscribeSub, TypeOK
  <2>2. \A d \in Conn : d # c => pc'[d] = pc[d] /\ todo'[d] = todo[d] /\ channels'[d] = channels[d]
    BY Others
  <2>3. \A d, x : Registered(d, x)' <=> Registered(d, x)
    BY <2>1 DEF Registered
  <2> QED BY <2>1, <2>2, <2>3 DEF HubAgrees, HalfwayOK, Between
<1> QED BY <1>1, <1>2, <1>3, <1>4, <1>5 DEF HubStep

\* Taking the head off both leaves the rest covered.
LEMMA CoveredTail ==
    ASSUME NEW S, NEW s \in Seq(Channel), s # <<>>, Covered(S, s)
    PROVE  /\ Covered(S \ {Head(s)}, Tail(s))
           /\ ~(Len(s) > 1) => S \ {Head(s)} = {}
<1>1. /\ Len(s) \in Nat /\ Len(Tail(s)) = Len(s) - 1 /\ Head(s) = s[1]
      /\ DOMAIN s = 1 .. Len(s) /\ DOMAIN Tail(s) = 1 .. Len(Tail(s))
      /\ \A i \in 1 .. Len(Tail(s)) : Tail(s)[i] = s[i + 1]
  BY HeadTailProperties
<1>2. ASSUME NEW x \in S \ {Head(s)} PROVE Len(s) > 1 /\ \E i \in DOMAIN Tail(s) : Tail(s)[i] = x
  <2>1. PICK j \in DOMAIN s : s[j] = x
    BY DEF Covered
  <2>2. j \in 2 .. Len(s)
    BY <1>1, <2>1
  <2>3. j - 1 \in 1 .. Len(Tail(s)) /\ Tail(s)[j - 1] = s[j - 1 + 1]
    BY <1>1, <2>2
  <2>4. j - 1 + 1 = j
    BY <2>2
  <2> QED BY <1>1, <2>1, <2>2, <2>3, <2>4
<1> QED BY <1>2 DEF Covered

\* Every step preserves TeardownOK.
LEMMA TeardownStep ==
    ASSUME TypeOK, ControlOK, TeardownOK, NEW c \in Conn, Step(c)
    PROVE  TeardownOK'
<1> SUFFICES ASSUME NEW d \in Conn PROVE Teardown(d)'
  BY DEF TeardownOK
<1>0. Teardown(c) /\ Teardown(d) /\ Control(c)
  BY DEF TeardownOK, ControlOK
<1>1. CASE d # c
  BY <1>0, <1>1, Others DEF Teardown
<1> SUFFICES Teardown(c)'
  BY <1>1
<1>2. CASE Unsubscribe(c)
  <2>1. /\ pc[c] = "hub-" /\ pc'[c] = "sub-" /\ channels' = channels /\ todo' = todo /\ stop' = stop
    BY <1>2 DEF Unsubscribe, TypeOK
  <2> QED BY <1>0, <2>1 DEF Teardown
<1>3. CASE UnsubscribeSub(c)
  <2>1. /\ pc[c] = "sub-" /\ channels'[c] = channels[c] \ {Head(todo[c])} /\ todo'[c] = Tail(todo[c])
        /\ stop' = stop /\ todo[c] \in Seq(Channel) /\ todo[c] # <<>>
        /\ pc'[c] = IF Len(todo[c]) > 1 THEN "hub-" ELSE IF stop[c] THEN "closed" ELSE "dispatch"
    BY <1>0, <1>3 DEF UnsubscribeSub, TypeOK, Control
  <2>2. CASE stop[c]
    BY <1>0, <2>1, <2>2, CoveredTail DEF Teardown
  <2>3. CASE ~stop[c]
    BY <2>1, <2>3 DEF Teardown
  <2> QED BY <2>2, <2>3
<1>4. CASE UnsubscribeAll(c)
  <2>1. PICK chs \in Orders(channels[c]) :
            /\ todo' = [todo EXCEPT ![c] = chs]
            /\ pc' = [pc EXCEPT ![c] = IF chs = <<>> THEN "closed" ELSE "hub-"]
    BY <1>4 DEF UnsubscribeAll
  <2>2. Covered(channels[c], chs) /\ (chs = <<>> <=> channels[c] = {})
    BY OrdersType DEF TypeOK
  <2>3. channels' = channels /\ todo'[c] = chs /\ pc'[c] = IF chs = <<>> THEN "closed" ELSE "hub-"
    BY <1>4, <2>1 DEF UnsubscribeAll, TypeOK, hub
  <2> QED BY <2>2, <2>3 DEF Teardown
<1>5. CASE Receive(c) \/ Forward(c) \/ StopForwarding(c) \/ Disconnect(c)
  BY <1>0, <1>5 DEF Receive, Forward, StopForwarding, Disconnect, hub, loop, Teardown
<1>6. CASE Request(c) \/ subscribe(c) \/ unsubscribe(c) \/ Subscribe(c) \/ SubscribeSub(c)
           \/ Publish(c) \/ Send(c) \/ PublishReturns(c) \/ Reply(c) \/ ReadError(c)
  <2>1. pc[c] \notin {"hub-", "sub-", "closed"} /\ stop' = stop
    BY <1>6 DEF Request, subscribe, unsubscribe, Subscribe, SubscribeSub, Publish, Send,
                PublishReturns, Reply, ReadError
  <2>2. pc'[c] # "closed"
    <3>1. CASE Request(c) \/ subscribe(c) \/ unsubscribe(c) \/ Reply(c) \/ ReadError(c)
      BY <3>1 DEF Request, subscribe, unsubscribe, Reply, ReadError, TypeOK
    <3>2. CASE Subscribe(c) \/ SubscribeSub(c) \/ Publish(c) \/ Send(c) \/ PublishReturns(c)
      BY <3>2 DEF Subscribe, SubscribeSub, Publish, Send, PublishReturns, TypeOK
    <3> QED BY <1>6, <3>1, <3>2
  <2> QED BY <1>0, <2>1, <2>2 DEF Teardown
<1> QED BY <1>2, <1>3, <1>4, <1>5, <1>6 DEF Step, Handle

\* A step of the system is a step of some connection.
LEMMA NextStep == Next <=> \E c \in Conn : Step(c)
  BY DEF Next, Step

\* Every step preserves the invariant.
LEMMA NextHub == HubInv /\ [Next]_vars => HubInv'
<1> SUFFICES ASSUME HubInv, [Next]_vars PROVE HubInv'
  OBVIOUS
<1>1. TypeOK'
  BY TypeStep
<1>2. CASE Next
  BY <1>1, <1>2, NextStep, ControlStep, AgreeStep, TeardownStep DEF HubInv
<1>3. CASE UNCHANGED vars
  BY <1>3 DEF vars, HubInv, TypeOK, ControlOK, Control, HubAgrees, Between, Registered, HalfwayOK,
              TeardownOK, Teardown
<1> QED BY <1>2, <1>3

\* The inductive invariant holds in every reachable state.
THEOREM HubInvariant == Spec => []HubInv
  BY InitHub, NextHub, PTL DEF Spec

\* The state is well typed, and no inbox ever holds more than inboxSize messages
\* (Publish's select with a default).
THEOREM HubTyped == Spec => []TypeOK
<1>1. HubInv => TypeOK
  BY DEF HubInv
<1> QED BY <1>1, HubInvariant, PTL

\* Hub.subs and the subscribers' own sets agree outside the two-step window of
\* Subscribe and Unsubscribe, and no channel is kept without subscribers.
THEOREM HubCorrect == Spec => []HubAgrees
<1>1. HubInv => HubAgrees
  BY DEF HubInv
<1> QED BY <1>1, HubInvariant, PTL

\* A connection that was closed, in whatever state its client left it, is registered
\* nowhere (Context.Close, UnsubscribeAll).
THEOREM NoLeakTheorem == Spec => []NoLeak
<1>1. HubInv => NoLeak
  BY DEF HubInv, HubAgrees, NoLeak, TeardownOK, Teardown, Between
<1> QED BY <1>1, HubInvariant, PTL

\* Messages s go to a client that got the numbers last, from publishers that have
\* used the numbers up to pub: they are new to it, and ascending per publisher.
Ordered(s, last, pub) ==
    /\ \A i \in DOMAIN s : last[s[i].from] < s[i].n /\ s[i].n <= pub[s[i].from]
    /\ \A i, j \in DOMAIN s : i < j /\ s[i].from = s[j].from => s[i].n < s[j].n

\* The message p is sending is newer than all that c got, or will get, from p so far.
Fresh(p, c) ==
    /\ pushed[c][p] < published[p]
    /\ \A i \in DOMAIN InFlight(c) : InFlight(c)[i].from = p => InFlight(c)[i].n < published[p]

\* The inductive invariant of PublishOrder: a subscriber that a Publish has not yet
\* reached has nothing as new from that publisher.
OrderInv ==
    /\ \A c \in Conn : Ordered(InFlight(c), pushed[c], published)
    /\ \A c, p \in Conn : pushed[c][p] <= published[p]
    /\ \A p, c \in Conn : pc[p] = "send" /\ c \in left[p] => Fresh(p, c)

\* A newer message may join the end.
LEMMA OrderedAppend ==
    ASSUME NEW s \in Seq(Message), NEW m \in Message, NEW last, NEW pub,
           Ordered(s, last, pub), last[m.from] < m.n, m.n <= pub[m.from],
           \A i \in DOMAIN s : s[i].from = m.from => s[i].n < m.n
    PROVE  Ordered(Append(s, m), last, pub)
<1> DEFINE t == Append(s, m)
<1>1. /\ Len(s) \in Nat /\ DOMAIN s = 1 .. Len(s) /\ DOMAIN t = 1 .. Len(s) + 1
      /\ t[Len(s) + 1] = m
      /\ \A i \in 1 .. Len(s) : t[i] = s[i]
  OBVIOUS
<1> HIDE DEF t
<1>2. ASSUME NEW i \in DOMAIN t PROVE last[t[i].from] < t[i].n /\ t[i].n <= pub[t[i].from]
  BY <1>1 DEF Ordered
<1>3. ASSUME NEW i \in DOMAIN t, NEW j \in DOMAIN t, i < j, t[i].from = t[j].from
      PROVE  t[i].n < t[j].n
  <2>1. i \in DOMAIN s
    BY <1>1, <1>3
  <2>2. CASE j = Len(s) + 1
    BY <1>1, <1>3, <2>1, <2>2
  <2>3. CASE j \in DOMAIN s
    BY <1>1, <1>3, <2>1, <2>3 DEF Ordered
  <2> QED BY <1>1, <2>2, <2>3
<1> QED BY <1>2, <1>3 DEF Ordered, t

\* The messages under way to a client: at most one held, then the inbox.
LEMMA Flight1 ==
    ASSUME NEW h \in Seq(Message), Len(h) <= 1, NEW b \in Seq(Message)
    PROVE  /\ h \o b \in Seq(Message)
           /\ h = <<>> => h \o b = b
           /\ h # <<>> => /\ DOMAIN (h \o b) = 1 .. Len(b) + 1
                         /\ (h \o b)[1] = h[1]
                         /\ \A i \in 1 .. Len(b) : (h \o b)[i + 1] = b[i]
<1>1. h \o b \in Seq(Message)
  OBVIOUS
<1>2. h = <<>> => h \o b = b
  OBVIOUS
<1>3. ASSUME h # <<>> PROVE /\ DOMAIN (h \o b) = 1 .. Len(b) + 1
                            /\ (h \o b)[1] = h[1]
                            /\ \A i \in 1 .. Len(b) : (h \o b)[i + 1] = b[i]
  <2>1. Len(h) \in Nat \ {0} /\ Len(b) \in Nat
    BY <1>3, EmptySeq, LenProperties
  <2>2. Len(h) + Len(b) = Len(b) + 1 /\ 1 <= Len(h) /\ Len(h) <= 1
    BY <2>1
  <2>3. /\ Len(h \o b) = Len(h) + Len(b)
        /\ \A i \in 1 .. Len(h) + Len(b) : (h \o b)[i] = IF i <= Len(h) THEN h[i] ELSE b[i - Len(h)]
    BY ConcatProperties
  <2>4. DOMAIN (h \o b) = 1 .. Len(b) + 1
    BY <1>1, <2>2, <2>3
  <2>5. (h \o b)[1] = h[1]
    BY <2>1, <2>2, <2>3
  <2>6. ASSUME NEW i \in 1 .. Len(b) PROVE (h \o b)[i + 1] = b[i]
    <3>1. i + 1 \in 1 .. Len(h) + Len(b) /\ ~(i + 1 <= Len(h)) /\ i + 1 - Len(h) = i
      BY <2>1, <2>2
    <3> QED BY <2>3, <3>1
  <2> QED BY <2>4, <2>5, <2>6
<1> QED BY <1>1, <1>2, <1>3

\* The inbox alone is ordered, and newer than the message held.
LEMMA OrderedDrop ==
    ASSUME NEW h \in Seq(Message), Len(h) <= 1, NEW b \in Seq(Message), NEW last, NEW pub,
           Ordered(h \o b, last, pub)
    PROVE  /\ Ordered(b, last, pub)
           /\ h # <<>> => \A i \in DOMAIN b : b[i].from = h[1].from => h[1].n < b[i].n
<1>1. CASE h = <<>>
  BY <1>1, Flight1
<1>2. CASE h # <<>>
  <2>1. /\ DOMAIN (h \o b) = 1 .. Len(b) + 1
        /\ (h \o b)[1] = h[1]
        /\ \A i \in 1 .. Len(b) : (h \o b)[i + 1] = b[i]
    BY <1>2, Flight1
  <2>2. Len(b) \in Nat /\ DOMAIN b = 1 .. Len(b)
    OBVIOUS
  <2>3. ASSUME NEW i \in DOMAIN b
        PROVE  /\ last[b[i].from] < b[i].n /\ b[i].n <= pub[b[i].from]
               /\ b[i].from = h[1].from => h[1].n < b[i].n
    <3>1. i + 1 \in DOMAIN (h \o b) /\ 1 \in DOMAIN (h \o b) /\ 1 < i + 1
      BY <2>1, <2>2
    <3> QED BY <2>1, <2>2, <3>1 DEF Ordered
  <2>4. ASSUME NEW i \in DOMAIN b, NEW j \in DOMAIN b, i < j, b[i].from = b[j].from
        PROVE  b[i].n < b[j].n
    <3>1. i + 1 \in DOMAIN (h \o b) /\ j + 1 \in DOMAIN (h \o b) /\ i + 1 < j + 1
      BY <2>1, <2>2, <2>4
    <3> QED BY <2>1, <2>2, <2>4, <3>1 DEF Ordered
  <2> QED BY <2>3, <2>4 DEF Ordered
<1> QED BY <1>1, <1>2

\* Moving the head of the inbox into the hand changes nothing under way.
LEMMA ReceiveKeeps ==
    ASSUME NEW b \in Seq(Message), b # <<>>
    PROVE  <<Head(b)>> \o Tail(b) = b
  OBVIOUS

\* The fields of a message.
LEMMA MessageFields ==
    ASSUME NEW s \in Seq(Message), NEW i \in DOMAIN s
    PROVE  s[i] \in Message /\ s[i].from \in Conn /\ s[i].n \in Nat
<1>1. s[i] \in Message
  OBVIOUS
<1> QED BY <1>1 DEF Message

\* Appending to the inbox appends to what is under way.
LEMMA AppendAfter ==
    ASSUME NEW h \in Seq(Message), NEW b \in Seq(Message), NEW m \in Message
    PROVE  h \o Append(b, m) = Append(h \o b, m)
<1>1. /\ <<m>> \in Seq(Message) /\ h \o b \in Seq(Message)
      /\ Append(b, m) = b \o <<m>>
  BY AppendIsConcat
<1>2. Append(h \o b, m) = (h \o b) \o <<m>>
  BY <1>1, AppendIsConcat
<1> QED BY <1>1, <1>2, ConcatAssociative

\* Every step preserves OrderInv.
LEMMA OrderStep ==
    ASSUME HubInv, OrderInv, NEW c \in Conn, Step(c)
    PROVE  OrderInv'
<1>0. /\ TypeOK /\ \A d \in Conn : Len(held[d]) <= 1
      /\ \A d \in Conn : held[d] \in Seq(Message) /\ inbox[d] \in Seq(Message) /\ InFlight(d) \in Seq(Message)
  BY Flight1 DEF HubInv, ControlOK, Control, TypeOK, InFlight
<1>1. CASE UNCHANGED <<inbox, held, pushed, published>> /\ (pc'[c] = "send" => pc[c] = "send" /\ left' = left)
  <2>1. \A d \in Conn : pc'[d] = "send" => pc[d] = "send" /\ left'[d] = left[d]
    BY <1>0, <1>1, Others
  <2> QED BY <1>1, <2>1 DEF OrderInv, Fresh, InFlight
<1>2. CASE Publish(c)
  <2>1. /\ UNCHANGED <<inbox, held, pushed>> /\ published' = [published EXCEPT ![c] = @ + 1]
        /\ pc[c] # "send"
    BY <1>2 DEF Publish, hub, wire
  <2>a. \A d \in Conn : published[d] \in Nat
    BY <1>0 DEF TypeOK
  <2>b. published'[c] = published[c] + 1 /\ \A d \in Conn : d # c => published'[d] = published[d]
    BY <1>0, <2>1 DEF TypeOK
  <2>3. published'[c] > published[c] /\ \A d \in Conn : d # c => published'[d] = published[d]
    BY <2>a, <2>b
  <2>2. \A d \in Conn : published[d] \in Nat /\ published'[d] \in Nat /\ published'[d] >= published[d]
    <3> SUFFICES ASSUME NEW d \in Conn
                 PROVE  published[d] \in Nat /\ published'[d] \in Nat /\ published'[d] >= published[d]
      OBVIOUS
    <3>1. CASE d = c
      BY <2>a, <2>b, <3>1
    <3>2. CASE d # c
      BY <2>a, <2>b, <3>2
    <3> QED BY <3>1, <3>2
  <2>4. \A d \in Conn : InFlight(d)' = InFlight(d)
    BY <2>1 DEF InFlight
  <2>5. \A d \in Conn : \A i \in DOMAIN InFlight(d) : InFlight(d)[i].from \in Conn /\ InFlight(d)[i].n \in Nat
    BY <1>0, MessageFields
  <2>6. \A d \in Conn : Ordered(InFlight(d)', pushed'[d], published')
    BY <2>1, <2>2, <2>4, <2>5 DEF OrderInv, Ordered
  <2>7. \A d, p \in Conn : pushed[d][p] \in Nat /\ pushed'[d][p] <= published'[p]
    <3>1. \A d, p \in Conn : pushed[d][p] \in Nat
      BY <1>0 DEF TypeOK
    <3>2. \A d, p \in Conn : pushed'[d][p] = pushed[d][p] /\ pushed[d][p] <= published[p]
      BY <2>1 DEF OrderInv
    <3> QED BY <2>2, <3>1, <3>2
  <2>8. \A d \in Conn : Fresh(c, d)'
    BY <2>1, <2>2, <2>3, <2>4, <2>5, <2>7 DEF OrderInv, Ordered, Fresh
  <2>9. \A p, d \in Conn : p # c /\ pc'[p] = "send" /\ d \in left'[p] => Fresh(p, d)'
    <3>1. \A p \in Conn : p # c => pc'[p] = pc[p] /\ left'[p] = left[p]
      BY <1>0, Others
    <3> QED BY <2>1, <2>3, <2>4, <3>1 DEF OrderInv, Fresh
  <2> QED BY <2>6, <2>7, <2>8, <2>9 DEF OrderInv
<1>3. CASE Send(c)
  <2> DEFINE m == [Channel |-> queue[c][1].ch, from |-> c, n |-> published[c]]
  <2>1. UNCHANGED <<held, pushed, published, pc>> /\ pc[c] = "send"
    BY <1>3 DEF Send, wire
  <2>2. PICK s \in left[c] :
            /\ left' = [left EXCEPT ![c] = @ \ {s}]
            /\ inbox' = IF Len(inbox[s]) >= InboxSize THEN inbox
                        ELSE [inbox EXCEPT ![s] = Append(@, m)]
    BY <1>3 DEF Send
  <2>3. m \in Message /\ m.from = c /\ m.n = published[c] /\ s \in Conn
    <3>1. queue[c][1] \in Command /\ queue[c][1].op = "PUBLISH"
      BY <2>1 DEF HubInv, ControlOK, Control, TypeOK
    <3> QED BY <1>0, <3>1, CommandType DEF TypeOK, Message
  <2> HIDE DEF m
  <2>4. Fresh(c, s)
    BY <2>1, <2>2, <2>3 DEF OrderInv
  <2>5. \A p, d \in Conn : pc'[p] = "send" /\ d \in left'[p] => Fresh(p, d) /\ ~(p = c /\ d = s)
    BY <1>0, <2>1, <2>2 DEF OrderInv, TypeOK
  <2>6. CASE inbox' = inbox
    BY <2>1, <2>5, <2>6 DEF OrderInv, Fresh, InFlight
  <2>7. CASE inbox' = [inbox EXCEPT ![s] = Append(@, m)]
    <3>1. InFlight(s)' = Append(InFlight(s), m)
      <4>1. inbox'[s] = Append(inbox[s], m) /\ held'[s] = held[s]
        BY <1>0, <2>1, <2>3, <2>7 DEF TypeOK
      <4>2. held[s] \o Append(inbox[s], m) = Append(held[s] \o inbox[s], m)
        BY <1>0, <2>3, AppendAfter
      <4> QED BY <4>1, <4>2 DEF InFlight
    <3>2. \A d \in Conn : d # s => InFlight(d)' = InFlight(d)
      BY <1>0, <2>1, <2>7 DEF TypeOK, InFlight
    <3>3. Ordered(InFlight(s)', pushed'[s], published')
      <4>1. published[c] <= published[c]
        BY <1>0 DEF TypeOK
      <4> QED BY <1>0, <2>1, <2>3, <2>4, <3>1, <4>1, OrderedAppend DEF OrderInv, Fresh
    <3>4. \A d \in Conn : Ordered(InFlight(d)', pushed'[d], published')
      BY <2>1, <3>2, <3>3 DEF OrderInv
    <3>5. ASSUME NEW p \in Conn, NEW d \in Conn, pc'[p] = "send", d \in left'[p] PROVE Fresh(p, d)'
      <4>1. CASE d # s
        BY <2>1, <2>5, <3>2, <3>5, <4>1 DEF Fresh
      <4>2. CASE d = s
        <5>1. p # c /\ Fresh(p, s)
          BY <2>5, <3>5, <4>2
        <5>2. ASSUME NEW i \in DOMAIN Append(InFlight(s), m), Append(InFlight(s), m)[i].from = p
              PROVE  i \in DOMAIN InFlight(s) /\ Append(InFlight(s), m)[i] = InFlight(s)[i]
          BY <1>0, <2>3, <5>1, <5>2
        <5> QED BY <2>1, <3>1, <4>2, <5>1, <5>2 DEF Fresh
      <4> QED BY <4>1, <4>2
    <3> QED BY <2>1, <3>4, <3>5 DEF OrderInv
  <2> QED BY <2>2, <2>6, <2>7
<1>4. CASE Receive(c)
  <2>1. /\ UNCHANGED <<pc, left, pushed, published>> /\ held[c] = <<>> /\ inbox[c] # <<>>
        /\ held' = [held EXCEPT ![c] = <<Head(inbox[c])>>] /\ inbox' = [inbox EXCEPT ![c] = Tail(@)]
    BY <1>4 DEF Receive, loop
  <2>2. InFlight(c)' = InFlight(c)
    <3>1. held'[c] = <<Head(inbox[c])>> /\ inbox'[c] = Tail(inbox[c])
      BY <1>0, <2>1 DEF TypeOK
    <3>2. held[c] \o inbox[c] = inbox[c]
      BY <1>0, <2>1, Flight1
    <3> QED BY <1>0, <2>1, <3>1, <3>2, ReceiveKeeps DEF InFlight
  <2>3. \A d \in Conn : d # c => InFlight(d)' = InFlight(d)
    BY <1>0, <2>1 DEF TypeOK, InFlight
  <2> QED BY <2>1, <2>2, <2>3 DEF OrderInv, Fresh
<1>5. CASE Forward(c) \/ StopForwarding(c)
  <2>1. /\ UNCHANGED <<pc, left, published, inbox>> /\ held' = [held EXCEPT ![c] = <<>>]
        /\ \/ pushed' = pushed
           \/ held[c] # <<>> /\ pushed' = [pushed EXCEPT ![c][held[c][1].from] = held[c][1].n]
    BY <1>5 DEF Forward, StopForwarding, hub, loop
  <2>2. InFlight(c)' = inbox[c] /\ \A d \in Conn : d # c => InFlight(d)' = InFlight(d)
    <3>1. held'[c] = <<>> /\ inbox'[c] = inbox[c]
      BY <1>0, <2>1 DEF TypeOK
    <3>2. <<>> \o inbox[c] = inbox[c]
      BY <1>0
    <3>3. \A d \in Conn : d # c => held'[d] = held[d] /\ inbox'[d] = inbox[d]
      BY <1>0, <2>1 DEF TypeOK
    <3> QED BY <3>1, <3>2, <3>3 DEF InFlight
  <2>3. /\ Ordered(inbox[c], pushed[c], published)
        /\ held[c] # <<>> => \A i \in DOMAIN inbox[c] :
                               inbox[c][i].from = held[c][1].from => held[c][1].n < inbox[c][i].n
    BY <1>0, OrderedDrop DEF OrderInv, InFlight
  <2>4. \A i \in DOMAIN inbox[c] : inbox[c][i].from \in Conn
    BY <1>0, MessageFields
  <2>5. \A i \in DOMAIN inbox[c] : \E j \in DOMAIN InFlight(c) : InFlight(c)[j] = inbox[c][i]
    <3>1. CASE held[c] = <<>>
      BY <1>0, <3>1, Flight1 DEF InFlight
    <3>2. CASE held[c] # <<>>
      <4>1. /\ DOMAIN InFlight(c) = 1 .. Len(inbox[c]) + 1
            /\ \A i \in 1 .. Len(inbox[c]) : InFlight(c)[i + 1] = inbox[c][i]
        BY <1>0, <3>2, Flight1 DEF InFlight
      <4>2. \A i \in DOMAIN inbox[c] : i \in 1 .. Len(inbox[c]) /\ i + 1 \in 1 .. Len(inbox[c]) + 1
        BY <1>0
      <4> QED BY <4>1, <4>2
    <3> QED BY <3>1, <3>2
  <2>6. CASE pushed' = pushed
    BY <2>1, <2>2, <2>3, <2>5, <2>6 DEF OrderInv, Fresh
  <2>7. CASE held[c] # <<>> /\ pushed' = [pushed EXCEPT ![c][held[c][1].from] = held[c][1].n]
    <3> DEFINE h == held[c][1]
    <3>1. h.from \in Conn /\ 1 \in DOMAIN InFlight(c) /\ InFlight(c)[1] = h
      <4>1. h \in Message
        BY <1>0, <2>7
      <4>2. DOMAIN InFlight(c) = 1 .. Len(inbox[c]) + 1 /\ InFlight(c)[1] = h
        BY <1>0, <2>7, Flight1 DEF InFlight
      <4>3. Len(inbox[c]) \in Nat
        BY <1>0
      <4>4. h.from \in Conn
        BY <4>1 DEF Message
      <4>5. 1 \in 1 .. Len(inbox[c]) + 1
        BY <4>3
      <4> QED BY <4>2, <4>4, <4>5
    <3>2. /\ \A p \in Conn : pushed'[c][p] = IF p = h.from THEN h.n ELSE pushed[c][p]
          /\ \A d \in Conn : d # c => pushed'[d] = pushed[d]
      BY <1>0, <2>7, <3>1 DEF TypeOK
    <3> HIDE DEF h
    <3>3. h.n <= published[h.from]
      BY <3>1 DEF OrderInv, Ordered
    <3>4. Ordered(inbox[c], pushed'[c], published)
      BY <2>3, <2>4, <2>7, <3>2 DEF Ordered, h
    <3>5. \A d \in Conn : Ordered(InFlight(d)', pushed'[d], published')
      BY <2>1, <2>2, <3>2, <3>4 DEF OrderInv
    <3>6. \A d, p \in Conn : pushed'[d][p] <= published'[p]
      BY <2>1, <3>2, <3>3 DEF OrderInv
    <3>7. ASSUME NEW p \in Conn, NEW d \in Conn, Fresh(p, d) PROVE Fresh(p, d)'
      <4>1. CASE d # c
        BY <2>1, <2>2, <3>2, <3>7, <4>1 DEF Fresh
      <4>2. CASE d = c
        <5>1. pushed'[c][p] < published[p]
          BY <3>1, <3>2, <3>7, <4>2 DEF Fresh
        <5>2. \A i \in DOMAIN inbox[c] : inbox[c][i].from = p => inbox[c][i].n < published[p]
          BY <2>5, <3>7, <4>2 DEF Fresh
        <5> QED BY <2>1, <2>2, <4>2, <5>1, <5>2 DEF Fresh
      <4> QED BY <4>1, <4>2
    <3> QED BY <2>1, <3>5, <3>6, <3>7 DEF OrderInv
  <2> QED BY <2>1, <2>6, <2>7
<1>6. CASE Request(c) \/ subscribe(c) \/ unsubscribe(c) \/ Subscribe(c) \/ SubscribeSub(c) \/ Unsubscribe(c)
           \/ UnsubscribeSub(c) \/ PublishReturns(c) \/ Reply(c) \/ ReadError(c) \/ UnsubscribeAll(c)
           \/ Disconnect(c)
  <2>1. UNCHANGED <<inbox, held, pushed, published>>
    BY <1>6 DEF Request, subscribe, unsubscribe, Subscribe, SubscribeSub, Unsubscribe, UnsubscribeSub,
                PublishReturns, Reply, ReadError, UnsubscribeAll, Disconnect, hub, wire, loop
  <2>2. left' = left
    BY <1>6 DEF Request, subscribe, unsubscribe, Subscribe, SubscribeSub, Unsubscribe, UnsubscribeSub,
                PublishReturns, Reply, ReadError, UnsubscribeAll, Disconnect, loop
  <2>3. pc'[c] = "send" => pc[c] = "send"
    <3>1. CASE Request(c) \/ subscribe(c) \/ unsubscribe(c) \/ Subscribe(c) \/ SubscribeSub(c) \/ Unsubscribe(c)
      BY <1>0, <3>1 DEF Request, subscribe, unsubscribe, Subscribe, SubscribeSub, Unsubscribe, TypeOK
    <3>2. CASE UnsubscribeSub(c) \/ PublishReturns(c) \/ Reply(c) \/ ReadError(c)
      BY <1>0, <3>2 DEF UnsubscribeSub, PublishReturns, Reply, ReadError, TypeOK
    <3>3. CASE UnsubscribeAll(c) \/ Disconnect(c)
      BY <1>0, <3>3 DEF UnsubscribeAll, Disconnect, TypeOK, loop
    <3> QED BY <1>6, <3>1, <3>2, <3>3
  <2> QED BY <1>1, <2>1, <2>2, <2>3
<1> QED BY <1>2, <1>3, <1>4, <1>5, <1>6 DEF Step, Handle

\* The two inductive invariants hold in every reachable state.
THEOREM OrderInvariant == Spec => [](HubInv /\ OrderInv)
<1>1. Init => HubInv /\ OrderInv
  <2> SUFFICES ASSUME Init PROVE OrderInv
    BY InitHub
  <2>1. \A c \in Conn : InFlight(c) = <<>> /\ pc[c] = "read"
    BY DEF Init, InFlight
  <2> QED BY <2>1 DEF Init, OrderInv, Ordered
<1>2. HubInv /\ OrderInv /\ [Next]_vars => (HubInv /\ OrderInv)'
  <2> SUFFICES ASSUME HubInv, OrderInv, [Next]_vars PROVE OrderInv'
    BY NextHub
  <2>1. CASE Next
    BY <2>1, NextStep, OrderStep
  <2>2. CASE UNCHANGED vars
    BY <2>2 DEF vars, OrderInv, Fresh, InFlight
  <2> QED BY <2>1, <2>2
<1> QED BY <1>1, <1>2, PTL DEF Spec

\* Whatever the interleaving of publishers, forwarders and (un)subscribers, and however
\* many messages a full inbox drops, a subscriber receives the messages of one
\* publisher in the order of their Hub.Publish calls, and none twice.
THEOREM DeliveryInOrder == Spec => []PublishOrder
<1>1. OrderInv => PublishOrder
  BY DEF OrderInv, Ordered, PublishOrder
<1> QED BY <1>1, OrderInvariant, PTL
=============================================================================
