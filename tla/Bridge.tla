------------------------------- MODULE Bridge -------------------------------
(***************************************************************************)
(* The bridge of src/intellasphere/nodejs/server.js from a RabbitMQ topic  *)
(* exchange to browsers.  A `message' of a socket opens a subscription: a  *)
(* queue named for the user, the view and the millisecond, a binding, and  *)
(* a consumer that forwards to the socket.  Only an `unsubscribe' with the *)
(* consumer's tag takes it down again.  A subscription stands for its tag. *)
(***************************************************************************)
EXTENDS Naturals, Sequences

CONSTANTS Subs,      \* the subscriptions asked for
          Sockets,
          SocketOf,  \* the socket each comes from
          Info,      \* viewInfo: user, customer, view, channel and profile
          Messages,  \* what is published on com.es.topic: routing keys
          MaxTime    \* bound: the last millisecond of the server's clock

VARIABLES now,        \* Date().getTime()
          connected,  \* sockets with a client at the other end
          phase,      \* of each subscription
          name,       \* its queueName
          queueStack, \* the tags the server knows
          queues,     \* at the broker: the queues there are,
          bindings,   \* <<queue, routing key>>,
          consumers,  \* <<queue, subscription>>,
          backlog,    \* <<queue, message>> routed and not yet consumed,
          published,  \* messages the exchange has had
          received    \* <<socket, message>> emitted to a client

serverVars == <<connected, phase, name, queueStack>>
brokerVars == <<queues, bindings, consumers, backlog>>
vars == <<now, serverVars, brokerVars, published, received>>

BridgeAssumption ==
    /\ MaxTime \in Nat
    /\ SocketOf \in [Subs -> Sockets]
ASSUME BridgeAssumption

(* Faulty variant: the name does not tell users apart. *)
QueueNameWithoutUser(d, t) == <<d.customer, t, d.view>>

(* queueName: the customer is left out of a "temp" view's; channel and profile
   of every view's. *)
QueueName(d, t) ==
    IF d.view = "temp" THEN <<d.user, t, d.view>>
                       ELSE <<d.user, d.customer, t, d.view>>

RoutingKey(d) ==
    CASE d.view = "temp" -> <<d.user>>
      [] d.view = "profile" -> <<d.customer, d.view, d.channel, "*", "*">>
      [] OTHER -> <<d.customer, d.view, d.channel, d.profile>>

(* A topic exchange's match; a star stands for any word. *)
Matches(rk, m) ==
    Len(rk) = Len(m) /\ \A i \in 1 .. Len(m) : rk[i] \in {"*", m[i]}

NoName == <<>>
Phases == {"none", "declaring", "binding", "consuming", "active", "ended",
           "failed"}

Init ==
    /\ now = 0
    /\ connected = Sockets
    /\ phase = [s \in Subs |-> "none"]
    /\ name = [s \in Subs |-> NoName]
    /\ queueStack = {}
    /\ queues = {} /\ bindings = {} /\ consumers = {} /\ backlog = {}
    /\ published = {}
    /\ received = {}

Enter(s, p) == phase' = [phase EXCEPT ![s] = p]

Tick ==
    /\ now < MaxTime
    /\ now' = now + 1
    /\ UNCHANGED <<serverVars, brokerVars, published, received>>

(* The `message' handler, up to the declaration of the queue. *)
Subscribe(s) ==
    /\ phase[s] = "none"
    /\ SocketOf[s] \in connected
    /\ Enter(s, "declaring")
    /\ name' = [name EXCEPT ![s] = QueueName(Info[s], now)]
    /\ UNCHANGED <<now, connected, queueStack, brokerVars, published, received>>

(* The broker declares the queue, or finds it there. *)
Declare(s) ==
    /\ phase[s] = "declaring"
    /\ Enter(s, "binding")
    /\ queues' = queues \cup {name[s]}
    /\ UNCHANGED <<now, connected, name, queueStack, bindings, consumers,
                   backlog, published, received>>

(* The callback's bind and subscribe reach the broker; the queue may have been
   destroyed meanwhile. *)
BindAndConsume(s) ==
    /\ phase[s] = "binding"
    /\ IF name[s] \in queues
       THEN /\ Enter(s, "consuming")
            /\ bindings' = bindings \cup {<<name[s], RoutingKey(Info[s])>>}
            /\ consumers' = consumers \cup {<<name[s], s>>}
       ELSE Enter(s, "failed") /\ UNCHANGED <<bindings, consumers>>
    /\ UNCHANGED <<now, connected, name, queueStack, queues, backlog, published,
                   received>>

(* Faulty variant: the tag is told to the client only. *)
ConsumeNotRecorded(s) ==
    /\ phase[s] = "consuming"
    /\ Enter(s, "active")
    /\ UNCHANGED <<now, connected, name, queueStack, brokerVars, published, received>>

(* The callback of the subscription: its tag goes to queueStack and to the
   client. *)
ConsumeOk(s) ==
    /\ phase[s] = "consuming"
    /\ Enter(s, "active")
    /\ queueStack' = queueStack \cup {s}
    /\ UNCHANGED <<now, connected, name, brokerVars, published, received>>

(* Faulty variant: the queue goes, its bindings stay. *)
DestroyWithoutUnbind(n) ==
    /\ queues' = queues \ {n}
    /\ consumers' = {c \in consumers : c[1] # n}
    /\ backlog' = {b \in backlog : b[1] # n}
    /\ UNCHANGED bindings

(* unbind, unsubscribe and destroy: the queue goes, with all it has. *)
Destroy(n) ==
    /\ queues' = queues \ {n}
    /\ bindings' = {b \in bindings : b[1] # n}
    /\ consumers' = {c \in consumers : c[1] # n}
    /\ backlog' = {b \in backlog : b[1] # n}

(* Faulty variant: queueStack is keyed by the view, not by the tag. *)
UnsubscribeView(s) ==
    /\ phase[s] = "active"
    /\ s \in queueStack
    /\ SocketOf[s] \in connected
    /\ \E t \in queueStack : Info[t].view = Info[s].view /\ Destroy(name[t])
    /\ queueStack' = queueStack \ {s}
    /\ Enter(s, "ended")
    /\ UNCHANGED <<now, connected, name, published, received>>

(* The `unsubscribe' handler, for a tag the client was told. *)
Unsubscribe(s) ==
    /\ phase[s] = "active"
    /\ s \in queueStack
    /\ SocketOf[s] \in connected
    /\ Destroy(name[s])
    /\ queueStack' = queueStack \ {s}
    /\ Enter(s, "ended")
    /\ UNCHANGED <<now, connected, name, published, received>>

(* The `disconnect' handler writes a line to the log. *)
Disconnect(k) ==
    /\ k \in connected
    /\ connected' = connected \ {k}
    /\ UNCHANGED <<now, phase, name, queueStack, brokerVars, published, received>>

(* A message is routed to the queues whose bindings it matches. *)
Publish(m) ==
    /\ m \notin published
    /\ published' = published \cup {m}
    /\ backlog' = backlog \cup
          {<<b[1], m>> : b \in {c \in bindings : Matches(c[2], m)}}
    /\ UNCHANGED <<now, serverVars, queues, bindings, consumers, received>>

(* Faulty variant: only the callback of the one known subscription emits. *)
ForwardToLast(s, m) ==
    /\ <<name[s], s>> \in consumers
    /\ <<name[s], m>> \in backlog
    /\ backlog' = backlog \ {<<name[s], m>>}
    /\ received' = IF queueStack = {s} /\ SocketOf[s] \in connected
                   THEN received \cup {<<SocketOf[s], m>>} ELSE received
    /\ UNCHANGED <<now, serverVars, queues, bindings, consumers, published>>

(* The broker gives a message of a queue to one of its consumers, whose
   callback emits it to its socket. *)
Forward(s, m) ==
    /\ <<name[s], s>> \in consumers
    /\ <<name[s], m>> \in backlog
    /\ backlog' = backlog \ {<<name[s], m>>}
    /\ received' = IF SocketOf[s] \in connected
                   THEN received \cup {<<SocketOf[s], m>>} ELSE received
    /\ UNCHANGED <<now, serverVars, queues, bindings, consumers, published>>

Next ==
    \/ Tick
    \/ \E s \in Subs : \/ Subscribe(s) \/ Declare(s) \/ BindAndConsume(s)
                       \/ ConsumeOk(s) \/ Unsubscribe(s)
                       \/ \E m \in Messages : Forward(s, m)
    \/ \E k \in Sockets : Disconnect(k)
    \/ \E m \in Messages : Publish(m)

Spec == Init /\ [][Next]_vars

(* The broker serves the consumers it has. *)
FairSpec == Spec /\ WF_vars(\E s \in Subs, m \in Messages : Forward(s, m))

-----------------------------------------------------------------------------

(* Every variable keeps its type. *)
TypeOK ==
    LET Names == {name[s] : s \in Subs} IN
    /\ now \in 0 .. MaxTime
    /\ connected \subseteq Sockets
    /\ phase \in [Subs -> Phases]
    /\ name \in [Subs -> {NoName} \cup
                   {QueueName(Info[s], t) : s \in Subs, t \in 0 .. MaxTime}]
    /\ queueStack \subseteq Subs
    /\ queues \subseteq Names
    /\ bindings \subseteq queues \X {RoutingKey(Info[s]) : s \in Subs}
    /\ consumers \subseteq queues \X Subs
    /\ backlog \subseteq queues \X published
    /\ published \subseteq Messages
    /\ received \subseteq Sockets \X published

(* Two subscriptions may share a queue, when the names coincide, and then each
   gets what the other asked for; but a client never gets what only other users
   asked for. *)
OwnUsersMessages ==
    \A r \in received : \E s, t \in Subs :
        /\ SocketOf[s] = r[1]
        /\ Info[t].user = Info[s].user
        /\ phase[t] \notin {"none", "declaring", "binding"}
        /\ Matches(RoutingKey(Info[t]), r[2])

Shared(s) == \E t \in Subs \ {s} : name[t] = name[s]

(* A subscription whose tag the client holds has its queue, bound to its key and
   consumed by it, whatever others open and close; unless it shares its queue,
   which the other's unsubscribe destroys. *)
UnsharedServed ==
    \A s \in queueStack : ~Shared(s) =>
        /\ <<name[s], RoutingKey(Info[s])>> \in bindings
        /\ <<name[s], s>> \in consumers

(* No consumer is left at the broker that no tag can take down: though a client
   that is gone asks for nothing, the server can still name what it left. *)
ConsumerKnown ==
    \A c \in consumers : c[2] \in queueStack \/ phase[c[2]] = "consuming"

Bound(s) == phase[s] \notin {"none", "declaring", "binding"}

(* The inductive invariant: whatever is at the broker can be traced to the
   subscription that put it there, a binding to one that was bound, a message to a
   binding it matched, a consumer to one not yet ended; and the server's stack is
   what was told to clients and not taken back. *)
BridgeInv ==
    /\ TypeOK
    /\ \A s \in Subs :
          name[s] \in IF phase[s] = "none" THEN {NoName}
                      ELSE {QueueName(Info[s], t) : t \in 0 .. MaxTime}
    /\ NoName \notin queues
    /\ \A b \in bindings : \E t \in Subs :
          Bound(t) /\ name[t] = b[1] /\ RoutingKey(Info[t]) = b[2]
    /\ \A b \in backlog : \E t \in Subs :
          Bound(t) /\ name[t] = b[1] /\ Matches(RoutingKey(Info[t]), b[2])
    /\ \A c \in consumers :
          name[c[2]] = c[1] /\ phase[c[2]] \in {"consuming", "active"}
    /\ queueStack = {s \in Subs : phase[s] = "active"}
    /\ \A s \in Subs : phase[s] \in {"consuming", "active"} /\ ~Shared(s) =>
          <<name[s], RoutingKey(Info[s])>> \in bindings /\ <<name[s], s>> \in consumers
    /\ OwnUsersMessages

(* A message that is in the queue of a subscription reaches the client, unless
   the client leaves, or the queue is shared and may give it to another. *)
MessageForwarded ==
    \A s \in Subs, m \in Messages :
        (<<name[s], m>> \in backlog /\ s \in queueStack) ~>
            (\/ <<SocketOf[s], m>> \in received
             \/ SocketOf[s] \notin connected
             \/ phase[s] = "ended" \/ Shared(s))
=============================================================================
