---------------------------- MODULE BridgeProofs ----------------------------
(***************************************************************************)
(* The bridge of server.js keeps its subscriptions apart, for any users,   *)
(* sockets, views and messages.                                            *)
(***************************************************************************)
EXTENDS Bridge, TLAPS

(* A queue's name holds its user, in both forms that QueueName gives it. *)
LEMMA QueueNameTellsUser ==
    ASSUME NEW d, NEW e, NEW t, NEW u, QueueName(d, t) = QueueName(e, u)
    PROVE  d.user = e.user /\ QueueName(d, t) # NoName
  BY DEF QueueName, NoName

(* Subscriptions of one queue are one user's. *)
LEMMA SharedByUser ==
    ASSUME BridgeInv, NEW s \in Subs, NEW t \in Subs,
           name[s] = name[t], phase[s] # "none", phase[t] # "none"
    PROVE  Info[s].user = Info[t].user
  <1>1. PICK u \in 0 .. MaxTime, v \in 0 .. MaxTime :
           name[s] = QueueName(Info[s], u) /\ name[t] = QueueName(Info[t], v)
    BY DEF BridgeInv
  <1> QED BY <1>1, QueueNameTellsUser

LEMMA InitBridgeInv == Init => BridgeInv
  <1> SUFFICES ASSUME Init PROVE BridgeInv
    OBVIOUS
  <1>1. TypeOK
    BY BridgeAssumption DEF Init, TypeOK, Phases, BridgeAssumption
  <1> QED BY <1>1 DEF Init, BridgeInv, OwnUsersMessages

(* Every step keeps it. *)
LEMMA NextBridgeInv == ASSUME BridgeInv, [Next]_vars PROVE BridgeInv'
  <1> USE DEF BridgeInv, TypeOK, Phases, Bound, Shared, OwnUsersMessages, Enter,
              serverVars, brokerVars
  <1>1. CASE Tick
    <2>1. now' \in 0 .. MaxTime
      BY <1>1, BridgeAssumption DEF Tick, BridgeAssumption
    <2> QED BY <1>1, <2>1 DEF Tick
  <1>2. ASSUME NEW s \in Subs, Subscribe(s) PROVE BridgeInv'
    <2>1. /\ name[s] = NoName
          /\ \A t \in Subs \ {s} : name'[t] = name[t] /\ phase'[t] = phase[t]
          /\ name'[s] = QueueName(Info[s], now) /\ phase'[s] = "declaring"
          /\ phase' \in [Subs -> Phases]
      BY <1>2 DEF Subscribe
    <2> QED BY <1>2, <2>1, QueueNameTellsUser DEF Subscribe
  <1>3. ASSUME NEW s \in Subs, Declare(s) PROVE BridgeInv'
    <2>1. name[s] # NoName
      BY <1>3, QueueNameTellsUser DEF Declare
    <2> QED BY <1>3, <2>1 DEF Declare
  <1>4. ASSUME NEW s \in Subs, BindAndConsume(s) PROVE BridgeInv'
    BY <1>4 DEF BindAndConsume
  <1>5. ASSUME NEW s \in Subs, ConsumeOk(s) PROVE BridgeInv'
    BY <1>5 DEF ConsumeOk
  <1>6. ASSUME NEW s \in Subs, Unsubscribe(s) PROVE BridgeInv'
    BY <1>6 DEF Unsubscribe, Destroy
  <1>7. ASSUME NEW s \in Subs, NEW m \in Messages, Forward(s, m) PROVE BridgeInv'
    <2>1. PICK t \in Subs :
             Bound(t) /\ name[t] = name[s] /\ Matches(RoutingKey(Info[t]), m)
      BY <1>7 DEF Forward
    <2>2. Info[t].user = Info[s].user
      BY <1>7, <2>1, SharedByUser DEF Forward
    <2>3. OwnUsersMessages'
      BY <1>7, <2>1, <2>2 DEF Forward
    <2>4. received' \subseteq Sockets \X published
      BY <1>7 DEF Forward
    <2> QED BY <1>7, <2>3, <2>4 DEF Forward
  <1>8. ASSUME NEW k \in Sockets, Disconnect(k) PROVE BridgeInv'
    BY <1>8 DEF Disconnect
  <1>9. ASSUME NEW m \in Messages, Publish(m) PROVE BridgeInv'
    BY <1>9 DEF Publish
  <1>10. CASE UNCHANGED vars
    BY <1>10 DEF vars
  <1> HIDE DEF BridgeInv
  <1> QED
    BY <1>1, <1>2, <1>3, <1>4, <1>5, <1>6, <1>7, <1>8, <1>9, <1>10 DEF Next

(* The invariant holds of every behaviour of server.js with its broker. *)
THEOREM SpecBridgeInv == Spec => []BridgeInv
  <1> QED BY InitBridgeInv, NextBridgeInv, PTL DEF Spec

(* Every variable of the bridge keeps its type. *)
THEOREM SpecTypeOK == Spec => []TypeOK
  <1>1. BridgeInv => TypeOK
    BY DEF BridgeInv
  <1> QED BY <1>1, SpecBridgeInv, PTL

(* A client is sent only what its own user asked for (the emit of the consumer's
   callback), though queues are shared whose names coincide. *)
THEOREM SpecOwnUsersMessages == Spec => []OwnUsersMessages
  <1>1. BridgeInv => OwnUsersMessages
    BY DEF BridgeInv
  <1> QED BY <1>1, SpecBridgeInv, PTL

(* A subscription the client can name is served, whatever the handlers of others
   (message, unsubscribe, disconnect) do, unless its queue's name is another's. *)
THEOREM SpecUnsharedServed == Spec => []UnsharedServed
  <1>1. BridgeInv => UnsharedServed
    BY DEF BridgeInv, UnsharedServed
  <1> QED BY <1>1, SpecBridgeInv, PTL

(* A consumer at the broker can be taken down by its tag, or is about to be told
   to its client (queueStack of server.js). *)
THEOREM SpecConsumerKnown == Spec => []ConsumerKnown
  <1>1. BridgeInv => ConsumerKnown
    BY DEF BridgeInv, TypeOK, ConsumerKnown
  <1> QED BY <1>1, SpecBridgeInv, PTL
=============================================================================
