-------------------------------- MODULE PubSub --------------------------------
(***************************************************************************)
(* What EasyMQ promises to the connections of its clients.  Requests are   *)
(* handled one at a time, in the order in which they were read.  A message *)
(* is owed to all who have subscribed to its topic by then, and each of    *)
(* them gets what it is owed in that order, nothing else and nothing       *)
(* twice.  What is owed may be lost, and the subscriptions do not outlive  *)
(* the broker process.                                                     *)
(***************************************************************************)
EXTENDS Integers, Sequences, SequencesExt

CONSTANTS Addresses, Topics

VARIABLES
  requests,     (* all requests ever read                                   *)
  handled,      (* how many of them have been handled                       *)
  subscribers,  (* of each topic, the connections subscribed to it          *)
  owed,         (* of each connection that can be sent something, the       *)
                (* messages on their way to it                              *)
  connections   (* of each there ever was, the client's address and the     *)
                (* messages it was sent                                     *)

vars == <<requests, handled, subscribers, owed, connections>>

Init ==
  /\ requests = <<>> /\ handled = 0
  /\ subscribers = [t \in Topics |-> {}]
  /\ owed = <<>> /\ connections = <<>>

Dial ==
  /\ DOMAIN connections' # DOMAIN connections
  /\ \E a \in Addresses :
       connections' = Append(connections, [address |-> a, got |-> <<>>])
  /\ UNCHANGED <<requests, handled, subscribers, owed>>

Connect ==
  /\ \E c \in DOMAIN owed' \ DOMAIN owed : owed' = owed @@ (c :> <<>>)
  /\ UNCHANGED <<requests, handled, subscribers, connections>>

(* What is owed to a connection that is over is never sent.                *)
Disconnect ==
  /\ DOMAIN owed' \subseteq DOMAIN owed /\ DOMAIN owed' # DOMAIN owed
  /\ owed' = [c \in DOMAIN owed' |-> owed[c]]
  /\ UNCHANGED <<requests, handled, subscribers, connections>>

Request ==
  /\ Len(requests') = Len(requests) + 1 /\ Front(requests') = requests
  /\ LET r == Last(requests') IN r.conn \in DOMAIN owed /\ r.topic \in Topics
  /\ UNCHANGED <<handled, subscribers, owed, connections>>

(* A subscriber is known by its address: a later connection of an address  *)
(* that is among the subscribers is not added.                             *)
Subscribe(r) ==
  /\ r.type = "init"
  /\ subscribers' =
       IF \E c \in subscribers[r.topic] :
            connections[c].address = connections[r.conn].address
       THEN subscribers
       ELSE [subscribers EXCEPT ![r.topic] = @ \cup {r.conn}]
  /\ UNCHANGED owed

(* A message is known by the number of the request that published it.      *)
Publish(r) ==
  /\ r.type = "publish"
  /\ owed' = [c \in DOMAIN owed |->
                IF c \in subscribers[r.topic] THEN Append(owed[c], handled') ELSE owed[c]]
  /\ UNCHANGED subscribers

Other(r) == r.type \notin {"init", "publish"} /\ UNCHANGED <<subscribers, owed>>

Handle ==
  /\ handled < Len(requests)
  /\ handled' = handled + 1
  /\ LET r == requests[handled + 1] IN Subscribe(r) \/ Publish(r) \/ Other(r)
  /\ UNCHANGED <<requests, connections>>

Deliver(c) ==
  /\ owed[c] # <<>>
  /\ ~Contains(connections[c].got, Head(owed[c]))
  /\ connections' = [connections EXCEPT ![c].got = Append(@, Head(owed[c]))]
  /\ owed' = [owed EXCEPT ![c] = Tail(@)]
  /\ UNCHANGED <<requests, handled, subscribers>>

Lose(c) ==
  /\ \E k \in DOMAIN owed[c] : owed' = [owed EXCEPT ![c] = RemoveAt(@, k)]
  /\ UNCHANGED <<requests, handled, subscribers, connections>>

(* The broker process dies: nobody is subscribed any more, and the message *)
(* it was sending out is lost to those it had not come to.                 *)
Forget ==
  /\ \E t \in Topics : subscribers[t] # {}
  /\ subscribers' = [t \in Topics |-> {}]
  /\ DOMAIN owed' = DOMAIN owed
  /\ \A c \in DOMAIN owed :
       \/ owed'[c] = owed[c]
       \/ owed[c] # <<>> /\ owed'[c] = Front(owed[c])
  /\ UNCHANGED <<requests, handled, connections>>

Next ==
  \/ Request \/ Handle
  \/ Dial \/ Connect \/ Disconnect
  \/ \E c \in DOMAIN owed : Deliver(c) \/ Lose(c)
  \/ Forget

Spec == Init /\ [][Next]_vars
=============================================================================
