------------------------------ MODULE MasterCtrl ------------------------------
(***************************************************************************)
(* The broker process: CFrameCtrl::Run takes requests from ccs2mcp,        *)
(* CMasterCtrl::OnReqMessage answers them and copies a published message   *)
(* to the subscribers in g_mapTopicToAgent.  It works in place: the frame  *)
(* it rewrites and sends is the one that is still in the ring.             *)
(***************************************************************************)
EXTENDS Pipes

VARIABLES
  g_mapTopicToAgent,  (* the subscribers of each topic, in memory only     *)
  mpc,                (* where OnReqMessage is                             *)
  pMsgBuff,           (* the frame worked on                               *)
  inPlace,            (* it is the head of ccs2mcp, and not a copy         *)
  todo,               (* the subscribers still to be sent the message      *)
  dropped,            (* history: the frames a full mcp2ccs refused        *)
  mcpDeaths

mcpVars == <<g_mapTopicToAgent, mpc, pMsgBuff, inPlace, todo, dropped, mcpDeaths>>

EasyMQAgent == [addr : Clients, m_iSuffix : Suffixes, echo : Ids, conn : Conns]

NoFrame == [type |-> "none"]

McpInit ==
  /\ g_mapTopicToAgent = [t \in Topics |-> {}]
  /\ mpc = "idle"
  /\ pMsgBuff = NoFrame
  /\ inPlace = FALSE
  /\ todo = {}
  /\ dropped = {}
  /\ mcpDeaths = 0

(* The frame is rewritten where it is.                                     *)
Rewrite(f) ==
  /\ pMsgBuff' = f
  /\ ccs2mcp' = IF inPlace THEN <<f>> \o Tail(ccs2mcp) ELSE ccs2mcp

(* The result of the append is ignored.                                    *)
SendRsp(f) ==
  IF HasRoom(mcp2ccs)
  THEN mcp2ccs' = Append(mcp2ccs, f) /\ UNCHANGED dropped
  ELSE dropped' = dropped \cup {[req |-> f.req, conn |-> f.conn]} /\ UNCHANGED mcp2ccs

(* Mutant: the set of subscribers is made anew for every one.              *)
initTopicAnew(topic, agent) ==
  g_mapTopicToAgent' = [g_mapTopicToAgent EXCEPT ![topic] = {agent}]

(* An address that is in the set already stays there as it is.             *)
initTopic(topic, agent) ==
  g_mapTopicToAgent' =
    IF \E a \in g_mapTopicToAgent[topic] : a.addr = agent.addr
    THEN g_mapTopicToAgent
    ELSE [g_mapTopicToAgent EXCEPT ![topic] = @ \cup {agent}]

-----------------------------------------------------------------------------
(* Mutant: a request looks the same before and after it is answered.       *)
AnsweredInCopyOnly(f) == f

(* Mutant: an answer is always the request's number and 0x10, which fits   *)
(* 0x10 and 0x11 but not 0x31.                                             *)
AnsweredByOffset(f) ==
  CASE f.type = "init"    -> [f EXCEPT !.type = "init_rsp"]
    [] f.type = "publish" -> [f EXCEPT !.type = "publish_rsp"]
    [] f.type = "echo"    -> [f EXCEPT !.type = "0x41"]
    [] OTHER              -> f

(* The type becomes that of the response before anything is sent, in the   *)
(* ring too: a successor that finds the frame there will not answer it.    *)
Answered(f) ==
  CASE f.type = "init"    -> [f EXCEPT !.type = "init_rsp"]
    [] f.type = "publish" -> [f EXCEPT !.type = "publish_rsp"]
    [] f.type = "echo"    -> [f EXCEPT !.type = "echo_rsp"]
    [] OTHER              -> f

(* OnReqMessage up to the first response.                                  *)
OnReqMessage ==
  /\ mpc = "idle"
  /\ ccs2mcp # <<>>
  /\ LET f == Head(ccs2mcp) IN
       /\ pMsgBuff' = Answered(f)
       /\ \/ inPlace' = TRUE /\ ccs2mcp' = <<Answered(f)>> \o Tail(ccs2mcp)
          \/ inPlace' = FALSE /\ ccs2mcp' = Tail(ccs2mcp)
       /\ \/ /\ f.type = "init"
             /\ initTopic(f.topic, [addr |-> f.addr, m_iSuffix |-> f.m_iSuffix,
                                    echo |-> f.echo, conn |-> f.conn])
             /\ mpc' = "init"
             /\ UNCHANGED todo
          \/ /\ f.type = "publish"
             /\ mpc' = "publish"
             /\ todo' = g_mapTopicToAgent[f.topic]
             /\ UNCHANGED g_mapTopicToAgent
          \/ /\ f.type \notin {"init", "publish"}
             /\ mpc' = "done"
             /\ UNCHANGED <<g_mapTopicToAgent, todo>>
  /\ UNCHANGED <<mcp2ccs, dropped, mcpDeaths>>

(* The length of the answer is left in the byte order of the host.         *)
ReplyInitTopic ==
  /\ mpc = "init"
  /\ LET f == [pMsgBuff EXCEPT !.msgLen = "swapped"] IN Rewrite(f) /\ SendRsp(f)
  /\ mpc' = "done"
  /\ UNCHANGED <<g_mapTopicToAgent, inPlace, todo, mcpDeaths>>

(* Mutant: the publisher is answered after the subscribers, with the head  *)
(* that was rewritten for them.                                            *)
AckPublishLast ==
  /\ mpc = "publish"
  /\ IF todo = {}
     THEN /\ SendRsp([pMsgBuff EXCEPT !.msgLen = "beyond"])
          /\ mpc' = "forward"
          /\ UNCHANGED <<ccs2mcp, pMsgBuff, todo>>
     ELSE \E agent \in todo :
            LET f == [pMsgBuff EXCEPT !.m_iSuffix = agent.m_iSuffix,
                                      !.echo = agent.echo, !.conn = agent.conn]
            IN Rewrite(f) /\ SendRsp(f) /\ todo' = todo \ {agent} /\ UNCHANGED mpc
  /\ UNCHANGED <<g_mapTopicToAgent, inPlace, mcpDeaths>>

(* ProcessMsg acknowledges with the first bytes of the request: SendRsp    *)
(* sends what lies behind the head, and not the answer made on the stack.  *)
AckPublish ==
  /\ mpc = "publish"
  /\ SendRsp([pMsgBuff EXCEPT !.msgLen = "beyond"])
  /\ mpc' = "forward"
  /\ UNCHANGED <<ccs2mcp, g_mapTopicToAgent, pMsgBuff, inPlace, todo, mcpDeaths>>

(* The subscribers in the order of their addresses, publisher included.    *)
Forward ==
  /\ mpc = "forward"
  /\ \E agent \in todo :
       LET f == [pMsgBuff EXCEPT !.m_iSuffix = agent.m_iSuffix,
                                 !.echo = agent.echo, !.conn = agent.conn]
       IN /\ \A other \in todo : agent.addr <= other.addr
          /\ Rewrite(f) /\ SendRsp(f) /\ todo' = todo \ {agent}
  /\ UNCHANGED <<g_mapTopicToAgent, mpc, inPlace, mcpDeaths>>

(* Mutant: a request that is not answered is not skipped either.           *)
SkipRequestAnswered ==
  /\ mpc = "done" \/ (mpc = "forward" /\ todo = {})
  /\ ccs2mcp' = IF inPlace /\ pMsgBuff.type # "echo_rsp" THEN Tail(ccs2mcp) ELSE ccs2mcp
  /\ mpc' = "idle"
  /\ pMsgBuff' = NoFrame
  /\ inPlace' = FALSE
  /\ UNCHANGED <<mcp2ccs, g_mapTopicToAgent, todo, dropped, mcpDeaths>>

(* The handler returns, and a frame worked on in place is skipped.         *)
SkipRequest ==
  /\ mpc = "done" \/ (mpc = "forward" /\ todo = {})
  /\ ccs2mcp' = IF inPlace THEN Tail(ccs2mcp) ELSE ccs2mcp
  /\ mpc' = "idle"
  /\ pMsgBuff' = NoFrame
  /\ inPlace' = FALSE
  /\ UNCHANGED <<mcp2ccs, g_mapTopicToAgent, todo, dropped, mcpDeaths>>

(* MCP dies and is started again: the subscriptions are gone, the pipes as *)
(* they were, a rewritten head included.                                   *)
McpRestart ==
  /\ mcpDeaths < MaxMcpDeaths
  /\ mcpDeaths' = mcpDeaths + 1
  /\ g_mapTopicToAgent' = [t \in Topics |-> {}]
  /\ mpc' = "idle"
  /\ pMsgBuff' = NoFrame
  /\ inPlace' = FALSE
  /\ todo' = {}
  /\ UNCHANGED <<ccs2mcp, mcp2ccs, dropped>>

-----------------------------------------------------------------------------
McpWork == OnReqMessage \/ ReplyInitTopic \/ AckPublish \/ Forward \/ SkipRequest

McpNext == McpWork \/ McpRestart

McpTypeOK ==
  /\ g_mapTopicToAgent \in [Topics -> SUBSET EasyMQAgent]
  /\ mpc \in {"idle", "init", "publish", "forward", "done"}
  /\ pMsgBuff \in Frame \cup {NoFrame}
  /\ inPlace \in BOOLEAN
  /\ todo \subseteq EasyMQAgent
  /\ dropped \subseteq [req : Reqs, conn : Conns]
  /\ mcpDeaths \in 0 .. MaxMcpDeaths
=============================================================================
