-------------------------------- MODULE Broker --------------------------------
(***************************************************************************)
(* CCS and MCP with the pipes between them: publish and subscribe from end *)
(* to end.                                                                 *)
(***************************************************************************)
EXTENDS CcsAux, MasterCtrl

vars == <<ccs2mcp, mcp2ccs, ccsVars, mcpVars>>

Init == CcsInit /\ McpInit /\ ccs2mcp = <<>> /\ mcp2ccs = <<>>

Next ==
  \/ CcsNext /\ UNCHANGED mcpVars
  \/ McpNext /\ UNCHANGED ccsVars

Spec == Init /\ [][Next]_vars

(* Both processes run loops that wait a millisecond at most.               *)
Fairness ==
  /\ WF_vars(CcsWork /\ UNCHANGED mcpVars)
  /\ WF_vars(McpWork /\ UNCHANGED ccsVars)

FairSpec == Spec /\ Fairness
-----------------------------------------------------------------------------
TypeOK ==
  /\ ccs2mcp \in Seq(Frame)
  /\ mcp2ccs \in Seq(Frame)
  /\ CcsTypeOK
  /\ McpTypeOK

Received(c) == {inbox[c][i] : i \in 1 .. Len(inbox[c])}

(* A copy of a published message, as opposed to the acknowledgement.       *)
IsCopy(f) == f.type = "publish_rsp" /\ f.msgLen = "whole"

(* m_unID is "the only ID" of a connection (ccs/src/define.h:169), but it  *)
(* is counted from 0 again in every life of CCS while pipes and broker keep *)
(* the old ones.  What holds is that a message meant for another connection *)
(* was meant for one of an earlier life of CCS.                            *)
RoutedWithinLife ==
  \A c \in 1 .. Len(conns) : \A f \in Received(c) :
    f.conn # c => conns[f.conn].life < conns[c].life

(* A connection receives only answers to its own requests, and messages of *)
(* a topic it has asked for before.                                        *)
Asked(c, t) ==
  \E p \in 1 .. Len(sent) : sent[p].conn = c /\ sent[p].type = "init" /\ sent[p].topic = t

OnlyWhatWasAsked ==
  \A c \in 1 .. Len(conns) : \A f \in Received(c) :
    f.conn = c =>
      IF IsCopy(f) THEN Asked(c, f.topic) ELSE sent[f.req].conn = c

(* A subscriber gets the messages of a publisher in the order of their     *)
(* publication and each at most once, and its answers likewise, however    *)
(* often MCP dies half way through a request.                              *)
InOrder ==
  \A c \in 1 .. Len(conns) : \A i, j \in 1 .. Len(inbox[c]) :
    LET f == inbox[c][i]  g == inbox[c][j] IN
      (i < j /\ f.conn = c /\ g.conn = c /\ (IsCopy(f) <=> IsCopy(g))) => f.req < g.req

Connected(c) == Live(c) /\ conns[c].open

(* How far request q has come: it has left ccs2mcp and its handler has     *)
(* returned.                                                               *)
Handled(q) ==
  /\ \A i \in 1 .. Len(ccs2mcp) : ccs2mcp[i].req # q
  /\ mpc = "idle" \/ pMsgBuff.req # q

OnItsWay(q, c) ==
  \E i \in 1 .. Len(mcp2ccs) :
    mcp2ccs[i].req = q /\ mcp2ccs[i].conn = c /\ IsCopy(mcp2ccs[i])

Got(q, c) == \E f \in Received(c) : f.req = q /\ f.conn = c /\ IsCopy(f)

(* An earlier connection of the same client address.                       *)
AddressReused(c) == \E d \in 1 .. c - 1 : conns[d].addr = conns[c].addr

(* Whoever knew its subscription to be made before a message was published *)
(* and is still connected gets the message, unless the pipe was full or    *)
(* MCP died, or its address was that of an earlier connection.             *)
SubscribersServed ==
  mcpDeaths = 0 =>
    \A q \in 1 .. Len(sent) :
      (sent[q].type = "publish" /\ Handled(q)) =>
        \A c \in sent[q].to :
          \/ ~Connected(c)
          \/ Got(q, c)
          \/ OnItsWay(q, c)
          \/ [req |-> q, conn |-> c] \in dropped
          \/ AddressReused(c)

(* "Subscribed to topic ... successfully" (clnt.h:108): the broker has an  *)
(* entry that reaches the connection.                                      *)
SubscriptionMade ==
  mcpDeaths = 0 =>
    \A c \in 1 .. Len(conns), t \in Topics :
      (Connected(c) /\ Subscribed(c, t)) => \E a \in g_mapTopicToAgent[t] : a.conn = c

(* Every request read is handled in the end; nothing waits for a pipe to   *)
(* have room.                                                              *)
RequestsHandled == \A q \in Reqs : (q = Len(sent)) ~> Handled(q)

(* What is in the pipe for the connections leaves it in the end.           *)
RepliesTaken == \A q \in Reqs, c \in Conns : OnItsWay(q, c) ~> ~OnItsWay(q, c)
=============================================================================
