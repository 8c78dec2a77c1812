------------------------------ MODULE MCPubSub ------------------------------
(* PubSub on small instances.                                              *)
EXTENDS PubSub

CONSTANTS a, b    \* channels

SUBSCRIBE(chs)   == [op |-> "SUBSCRIBE", chs |-> chs]
UNSUBSCRIBE(chs) == [op |-> "UNSUBSCRIBE", chs |-> chs]
PUBLISH(ch)      == [op |-> "PUBLISH", ch |-> ch]

\* Two channels in one command, and one of them twice; the last two requests are
\* EXECs: more messages than an inbox holds, and a connection that publishes while
\* it is subscribed.
MCRequests == { <<SUBSCRIBE(<<a, b>>)>>, <<SUBSCRIBE(<<b, b>>)>>,
                <<UNSUBSCRIBE(<<>>)>>, <<UNSUBSCRIBE(<<b>>)>>,
                <<PUBLISH(b), PUBLISH(b)>>, <<SUBSCRIBE(<<a>>), PUBLISH(b)>> }
=============================================================================
