---------------------------- MODULE BrokerPubSub ----------------------------
(***************************************************************************)
(* CCS, MCP and the pipes between them, read as the publish and subscribe  *)
(* of PubSub.                                                              *)
(***************************************************************************)
EXTENDS Broker

(* What is in ccs2mcp has not been handled, but for a head that was        *)
(* answered in place.                                                      *)
Waiting ==
  IF ccs2mcp # <<>> /\ Head(ccs2mcp).type \in RspTypes
  THEN Len(ccs2mcp) - 1 ELSE Len(ccs2mcp)

(* On their way to connection c are its copies in mcp2ccs, except a head   *)
(* that was delivered in place, and one that is still to be sent out.      *)
Copies(seq, c) ==
  LET copies == SelectSeq(seq, LAMBDA f : f.conn = c /\ IsCopy(f))
  IN [k \in DOMAIN copies |-> copies[k].req]

Coming(c) ==
  Copies(IF cpc = "skip" THEN Tail(mcp2ccs) ELSE mcp2ccs, c)
    \o (IF \E a \in todo : a.conn = c THEN <<pMsgBuff.req>> ELSE <<>>)

Promise == INSTANCE PubSub WITH
  Addresses <- Clients,
  requests <- sent,
  handled <- Len(sent) - Waiting,
  subscribers <- [t \in Topics |-> {a.conn : a \in g_mapTopicToAgent[t]}],
  owed <- [c \in {m_pSocket[s].conn : s \in Suffixes} \ {FreeNode.conn} |-> Coming(c)],
  connections <- [c \in DOMAIN conns |->
                    [address |-> conns[c].addr, got |-> Copies(inbox[c], c)]]

(* The two processes keep that promise: a handler that works through the   *)
(* subscribers one by one in a ring that others write, and that may be     *)
(* killed and started again in between, looks like one that does it all at *)
(* once; what a connection gets is what it was owed, in order, once.       *)
ImplementsPubSub == Promise!Spec
=============================================================================
