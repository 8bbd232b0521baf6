----------------------------- MODULE BrokerProofs -----------------------------
(***************************************************************************)
(* The types of Broker, that within a life of CCS nothing reaches a        *)
(* connection it was not meant for, and what reaches one at all: for any   *)
(* number of clients, topics, slots and requests, any room in the pipes,   *)
(* and any number of deaths of either process.                             *)
(*                                                                         *)
(* Frames and subscribers go round between the two processes, and what is  *)
(* to be shown of them is that they stay within a set.  The steps of MCP   *)
(* are therefore proved once, for a set F of frames and a set A of         *)
(* subscribers that its rewriting does not leave.                          *)
(***************************************************************************)
EXTENDS Broker, SequenceTheorems, TLAPS

(* MCP's rewriting of frames stays in F, what it remembers of them in A.   *)
Closed(F, A) ==
  /\ F \subseteq Frame /\ A \subseteq EasyMQAgent
  /\ \A f \in F : Answered(f) \in F
  /\ \A f \in F, l \in LenField : [f EXCEPT !.msgLen = l] \in F
  /\ \A f \in F, a \in A :
       [f EXCEPT !.m_iSuffix = a.m_iSuffix, !.echo = a.echo, !.conn = a.conn] \in F
  /\ \A f \in F : [addr |-> f.addr, m_iSuffix |-> f.m_iSuffix,
                   echo |-> f.echo, conn |-> f.conn] \in A

(* All that is under way is in F and A, and MCP works on what is there.    *)
Within(F, A) ==
  /\ ccs2mcp \in Seq(F) /\ mcp2ccs \in Seq(F)
  /\ g_mapTopicToAgent \in [Topics -> SUBSET A]
  /\ todo \subseteq A
  /\ mpc # "idle" => pMsgBuff \in F
  /\ mpc \in {"idle", "init", "done"} => todo = {}
  /\ inPlace => ccs2mcp # <<>>

(* The history of refused frames is made of frames that were in F.         *)
OnlyFrames == dropped \subseteq [req : Reqs, conn : Conns]

LEMMA SendRspWithin ==
  ASSUME NEW F \in SUBSET Frame, NEW f \in F, SendRsp(f), mcp2ccs \in Seq(F), OnlyFrames
  PROVE  mcp2ccs' \in Seq(F) /\ OnlyFrames' /\ (mcp2ccs # <<>> => mcp2ccs' # <<>>)
<1>1. CASE HasRoom(mcp2ccs)
  <2>1. mcp2ccs' = Append(mcp2ccs, f) /\ dropped' = dropped
    BY <1>1 DEF SendRsp
  <2> QED BY <2>1, AppendProperties DEF OnlyFrames
<1>2. CASE ~HasRoom(mcp2ccs)
  <2>1. mcp2ccs' = mcp2ccs /\ dropped' = dropped \cup {[req |-> f.req, conn |-> f.conn]}
    BY <1>2 DEF SendRsp
  <2>2. f.req \in Reqs /\ f.conn \in Conns
    BY DEF Frame
  <2> QED BY <2>1, <2>2 DEF OnlyFrames
<1> QED BY <1>1, <1>2

LEMMA RewriteWithin ==
  ASSUME NEW F, NEW f \in F, Rewrite(f), ccs2mcp \in Seq(F), inPlace => ccs2mcp # <<>>
  PROVE  /\ ccs2mcp' \in Seq(F) /\ pMsgBuff' = f
         /\ inPlace => ccs2mcp' # <<>>
<1>1. CASE inPlace
  <2>1. Tail(ccs2mcp) \in Seq(F)
    BY <1>1, HeadTailProperties
  <2>2. <<f>> \in Seq(F) /\ Len(<<f>>) = 1
    OBVIOUS
  <2>3. /\ <<f>> \o Tail(ccs2mcp) \in Seq(F)
        /\ Len(<<f>> \o Tail(ccs2mcp)) = 1 + Len(Tail(ccs2mcp))
    BY <2>1, <2>2, ConcatProperties
  <2>4. Len(Tail(ccs2mcp)) \in Nat
    BY <2>1, LenProperties
  <2>5. <<f>> \o Tail(ccs2mcp) # <<>>
    BY <2>3, <2>4, EmptySeq
  <2> QED BY <1>1, <2>3, <2>5 DEF Rewrite
<1>2. CASE ~inPlace
  BY <1>2 DEF Rewrite
<1> QED BY <1>1, <1>2

LEMMA McpStepWithin ==
  ASSUME NEW F, NEW A, Closed(F, A), Within(F, A), OnlyFrames, McpNext
  PROVE  Within(F, A)' /\ OnlyFrames' /\ (mcp2ccs # <<>> => mcp2ccs' # <<>>)
<1> USE DEF Within
<1>0. F \in SUBSET Frame
  BY DEF Closed
<1>1. CASE OnReqMessage
  <2> DEFINE f == Head(ccs2mcp)
  <2>1. /\ f \in F /\ Tail(ccs2mcp) \in Seq(F) /\ Answered(f) \in F
    BY <1>1, HeadTailProperties DEF OnReqMessage, Closed
  <2>2. /\ <<Answered(f)>> \o Tail(ccs2mcp) \in Seq(F)
        /\ <<Answered(f)>> \o Tail(ccs2mcp) # <<>>
    <3>1. <<Answered(f)>> \in Seq(F) /\ Len(<<Answered(f)>>) = 1
      BY <2>1
    <3>2. /\ <<Answered(f)>> \o Tail(ccs2mcp) \in Seq(F)
          /\ Len(<<Answered(f)>> \o Tail(ccs2mcp)) = 1 + Len(Tail(ccs2mcp))
      BY <2>1, <3>1, ConcatProperties
    <3>3. Len(Tail(ccs2mcp)) \in Nat
      BY <2>1, LenProperties
    <3> QED BY <3>2, <3>3, EmptySeq
  <2>3. pMsgBuff' \in F /\ ccs2mcp' \in Seq(F) /\ (inPlace' => ccs2mcp' # <<>>)
    BY <1>1, <2>1, <2>2 DEF OnReqMessage
  <2>4. UNCHANGED <<mcp2ccs, dropped>>
    BY <1>1 DEF OnReqMessage
  <2>5. f.topic \in Topics
    BY <1>0, <2>1 DEF Frame
  <2>6. /\ g_mapTopicToAgent' \in [Topics -> SUBSET A] /\ todo' \subseteq A
        /\ mpc' \in {"idle", "init", "done"} => todo' = {}
    <3> DEFINE a == [addr |-> f.addr, m_iSuffix |-> f.m_iSuffix,
                     echo |-> f.echo, conn |-> f.conn]
    <3>1. a \in A
      BY <2>1 DEF Closed
    <3>2. mpc = "idle"
      BY <1>1 DEF OnReqMessage
    <3> HIDE DEF a
    <3>3. CASE initTopic(f.topic, a) /\ mpc' = "init" /\ todo' = todo
      BY <2>5, <3>1, <3>2, <3>3 DEF initTopic
    <3>4. CASE /\ mpc' = "publish" /\ todo' = g_mapTopicToAgent[f.topic]
               /\ UNCHANGED g_mapTopicToAgent
      BY <2>5, <3>4
    <3>5. CASE mpc' = "done" /\ UNCHANGED <<g_mapTopicToAgent, todo>>
      BY <3>2, <3>5
    <3> QED BY <1>1, <3>3, <3>4, <3>5 DEF OnReqMessage, a
  <2> QED BY <2>3, <2>4, <2>6 DEF OnlyFrames
<1>2. CASE ReplyInitTopic
  <2> DEFINE f == [pMsgBuff EXCEPT !.msgLen = "swapped"]
  <2>1. f \in F
    BY <1>2 DEF ReplyInitTopic, Closed, LenField
  <2>2. Rewrite(f) /\ SendRsp(f)
    BY <1>2 DEF ReplyInitTopic
  <2> HIDE DEF f
  <2> QED BY <1>0, <1>2, <2>1, <2>2, RewriteWithin, SendRspWithin DEF ReplyInitTopic
<1>3. CASE AckPublish
  <2> DEFINE f == [pMsgBuff EXCEPT !.msgLen = "beyond"]
  <2>1. f \in F
    BY <1>3 DEF AckPublish, Closed, LenField
  <2>2. SendRsp(f)
    BY <1>3 DEF AckPublish
  <2> HIDE DEF f
  <2> QED BY <1>0, <1>3, <2>1, <2>2, SendRspWithin DEF AckPublish
<1>4. CASE Forward
  <2>1. PICK agent \in todo :
          LET f == [pMsgBuff EXCEPT !.m_iSuffix = agent.m_iSuffix,
                                    !.echo = agent.echo, !.conn = agent.conn]
          IN Rewrite(f) /\ SendRsp(f) /\ todo' = todo \ {agent}
    BY <1>4 DEF Forward
  <2> DEFINE f == [pMsgBuff EXCEPT !.m_iSuffix = agent.m_iSuffix,
                                   !.echo = agent.echo, !.conn = agent.conn]
  <2>2. f \in F
    BY <1>4 DEF Forward, Closed
  <2>3. Rewrite(f) /\ SendRsp(f) /\ todo' = todo \ {agent}
    BY <2>1
  <2> HIDE DEF f
  <2> QED BY <1>0, <1>4, <2>2, <2>3, RewriteWithin, SendRspWithin DEF Forward
<1>5. CASE SkipRequest
  <2>1. inPlace => Tail(ccs2mcp) \in Seq(F)
    BY HeadTailProperties
  <2>2. ccs2mcp' \in Seq(F) /\ mpc' = "idle" /\ inPlace' = FALSE
    BY <1>5, <2>1 DEF SkipRequest
  <2>3. todo' = {}
    BY <1>5 DEF SkipRequest
  <2> QED BY <1>5, <2>2, <2>3 DEF SkipRequest, OnlyFrames
<1>6. CASE McpRestart
  BY <1>6 DEF McpRestart, OnlyFrames
<1> QED BY <1>1, <1>2, <1>3, <1>4, <1>5, <1>6 DEF McpNext, McpWork

-----------------------------------------------------------------------------
(* Rewriting changes type, length, slot, number and connection of a frame, *)
(* and leaves it a frame.                                                  *)
LEMMA FrameRewritten ==
  ASSUME NEW f \in Frame
  PROVE  /\ Answered(f) \in Frame
         /\ Answered(f).conn = f.conn /\ Answered(f).echo = f.echo
         /\ \A l \in LenField : /\ [f EXCEPT !.msgLen = l] \in Frame
                                /\ [f EXCEPT !.msgLen = l].conn = f.conn
                                /\ [f EXCEPT !.msgLen = l].echo = f.echo
         /\ \A a \in EasyMQAgent :
              LET g == [f EXCEPT !.m_iSuffix = a.m_iSuffix, !.echo = a.echo, !.conn = a.conn]
              IN g \in Frame /\ g.conn = a.conn /\ g.echo = a.echo
         /\ [addr |-> f.addr, m_iSuffix |-> f.m_iSuffix,
             echo |-> f.echo, conn |-> f.conn] \in EasyMQAgent
<1>1. \A t \in ReqTypes \cup RspTypes :
        /\ [f EXCEPT !.type = t] \in Frame
        /\ [f EXCEPT !.type = t].conn = f.conn /\ [f EXCEPT !.type = t].echo = f.echo
  BY DEF Frame
<1>2. /\ Answered(f) \in Frame
      /\ Answered(f).conn = f.conn /\ Answered(f).echo = f.echo
  BY <1>1 DEF Answered, ReqTypes, RspTypes
<1>3. \A l \in LenField : /\ [f EXCEPT !.msgLen = l] \in Frame
                          /\ [f EXCEPT !.msgLen = l].conn = f.conn
                          /\ [f EXCEPT !.msgLen = l].echo = f.echo
  BY DEF Frame
<1>4. \A a \in EasyMQAgent :
        LET g == [f EXCEPT !.m_iSuffix = a.m_iSuffix, !.echo = a.echo, !.conn = a.conn]
        IN g \in Frame /\ g.conn = a.conn /\ g.echo = a.echo
  BY DEF Frame, EasyMQAgent
<1>5. [addr |-> f.addr, m_iSuffix |-> f.m_iSuffix,
       echo |-> f.echo, conn |-> f.conn] \in EasyMQAgent
  BY DEF Frame, EasyMQAgent
<1> QED BY <1>2, <1>3, <1>4, <1>5

LEMMA AllFramesClosed == Closed(Frame, EasyMQAgent)
BY FrameRewritten DEF Closed

(* The type invariant, and what it takes for it to be inductive: whoever   *)
(* works on the head of a pipe finds one there.                            *)
Typed ==
  /\ TypeOK
  /\ Within(Frame, EasyMQAgent)
  /\ cpc = "skip" => mcp2ccs # <<>>
  /\ Len(conns) <= MaxConns /\ Len(sent) <= MaxReqs
  /\ Len(inbox) = Len(conns)
  /\ \A s \in Suffixes : m_pSocket[s].conn <= Len(conns)
  /\ \A s \in Suffixes : m_pSocket[s].conn = 0 => m_pSocket[s] = FreeNode
  /\ \A k \in 1 .. Len(main2me) : main2me[k].conn <= Len(conns)

LEMMA TypedInit == ASSUME Init PROVE Typed
<1> USE PipesAssumption DEF Init, CcsInit, McpInit
<1>0. MaxMcpDeaths \in Nat /\ MaxCcsDeaths \in Nat
  OBVIOUS
<1>1. McpTypeOK
  <2>1. mcpDeaths \in 0 .. MaxMcpDeaths
    BY <1>0
  <2>2. g_mapTopicToAgent \in [Topics -> SUBSET EasyMQAgent]
    OBVIOUS
  <2>3. pMsgBuff \in Frame \cup {NoFrame} /\ inPlace \in BOOLEAN
    OBVIOUS
  <2> QED BY <2>1, <2>2, <2>3 DEF McpTypeOK
<1>2. CcsTypeOK
  BY DEF CcsTypeOK, FreeNode, FirstId, Ids, Conns
<1>3. Within(Frame, EasyMQAgent)
  BY DEF Within
<1> QED BY <1>1, <1>2, <1>3 DEF Typed, TypeOK, FreeNode

LEMMA McpTyped == ASSUME Typed, McpNext, UNCHANGED ccsVars PROVE Typed'
<1>1. OnlyFrames
  BY DEF Typed, TypeOK, McpTypeOK, OnlyFrames
<1>2. Within(Frame, EasyMQAgent)' /\ OnlyFrames' /\ (mcp2ccs # <<>> => mcp2ccs' # <<>>)
  BY <1>1, AllFramesClosed, McpStepWithin DEF Typed
<1>3. McpTypeOK'
  <2>1. mpc' \in {"idle", "init", "publish", "forward", "done"}
    BY DEF McpNext, McpWork, OnReqMessage, ReplyInitTopic, AckPublish, Forward,
           SkipRequest, McpRestart, Typed, TypeOK, McpTypeOK
  <2>2. inPlace' \in BOOLEAN /\ pMsgBuff' \in Frame \cup {NoFrame}
    <3>1. CASE mpc' = "idle"
      BY <3>1 DEF McpNext, McpWork, OnReqMessage, ReplyInitTopic, AckPublish, Forward,
                  SkipRequest, McpRestart, Typed, TypeOK, McpTypeOK
    <3>2. CASE mpc' # "idle"
      BY <1>2, <3>2
         DEF McpNext, McpWork, OnReqMessage, ReplyInitTopic, AckPublish, Forward,
             SkipRequest, McpRestart, Typed, TypeOK, McpTypeOK, Within
    <3> QED BY <3>1, <3>2
  <2>3. mcpDeaths' \in 0 .. MaxMcpDeaths
    <3>1. MaxMcpDeaths \in Nat
      BY PipesAssumption
    <3>2. mcpDeaths \in 0 .. MaxMcpDeaths
      BY DEF Typed, TypeOK, McpTypeOK
    <3>3. mcpDeaths' = mcpDeaths \/ (mcpDeaths < MaxMcpDeaths /\ mcpDeaths' = mcpDeaths + 1)
      BY DEF McpNext, McpWork, OnReqMessage, ReplyInitTopic, AckPublish, Forward,
             SkipRequest, McpRestart
    <3> QED BY <3>1, <3>2, <3>3
  <2> QED BY <1>2, <2>1, <2>2, <2>3 DEF McpTypeOK, Within, OnlyFrames
<1> QED BY <1>2, <1>3 DEF Typed, TypeOK, CcsTypeOK, ccsVars, Within

(* What an action of CCS has to show: the pipes and its own variables.     *)
LEMMA CcsTypedFrom ==
  ASSUME Typed, UNCHANGED mcpVars,
         ccs2mcp' \in Seq(Frame), ccs2mcp # <<>> => ccs2mcp' # <<>>,
         mcp2ccs' \in Seq(Frame), cpc' = "skip" => mcp2ccs' # <<>>,
         CcsTypeOK',
         Len(conns') <= MaxConns, Len(sent') <= MaxReqs, Len(inbox') = Len(conns'),
         \A s \in Suffixes : m_pSocket'[s].conn <= Len(conns'),
         \A s \in Suffixes : m_pSocket'[s].conn = 0 => m_pSocket'[s] = FreeNode,
         \A k \in 1 .. Len(main2me') : main2me'[k].conn <= Len(conns')
  PROVE  Typed'
BY DEF Typed, TypeOK, McpTypeOK, mcpVars, Within

(* Sequences out of the table of connections.                              *)
LEMMA ConnsTyped ==
  ASSUME Typed
  PROVE  /\ Len(conns) \in Nat /\ MaxConns \in Nat
         /\ 1 .. Len(conns) \subseteq Conns
         /\ \A c \in 1 .. Len(conns) :
              conns[c] \in [addr : Clients, open : BOOLEAN, life : 0 .. MaxCcsDeaths]
         /\ \A c \in 1 .. Len(conns) : inbox[c] \in Seq(Frame)
         /\ \A s \in Suffixes :
              m_pSocket[s] # FreeNode => m_pSocket[s].conn \in 1 .. Len(conns)
<1>1. /\ conns \in Seq([addr : Clients, open : BOOLEAN, life : 0 .. MaxCcsDeaths])
      /\ inbox \in Seq(Seq(Frame)) /\ Len(inbox) = Len(conns)
      /\ m_pSocket \in [Suffixes -> [conn : Conns \cup {0}, m_unID : Ids]]
  BY DEF Typed, TypeOK, CcsTypeOK
<1>2. MaxConns \in Nat /\ Len(conns) \in Nat /\ Len(conns) <= MaxConns
  BY <1>1, PipesAssumption, LenProperties DEF Typed
<1>3. \A c \in 1 .. Len(conns) :
        conns[c] \in [addr : Clients, open : BOOLEAN, life : 0 .. MaxCcsDeaths]
  BY <1>1, ElementOfSeq
<1>4. \A c \in 1 .. Len(conns) : inbox[c] \in Seq(Frame)
  BY <1>1, ElementOfSeq
<1>5. ASSUME NEW s \in Suffixes, m_pSocket[s] # FreeNode
      PROVE  m_pSocket[s].conn \in 1 .. Len(conns)
  <2>1. m_pSocket[s].conn \in Conns /\ m_pSocket[s].conn <= Len(conns)
    BY <1>1, <1>5 DEF Typed
  <2> QED BY <1>2, <2>1 DEF Conns
<1> QED BY <1>2, <1>3, <1>4, <1>5 DEF Conns

(* A connection that is closed keeps its address and its life.             *)
LEMMA ConnClosed ==
  ASSUME Typed, NEW c \in 1 .. Len(conns), conns' = [conns EXCEPT ![c].open = FALSE]
  PROVE  /\ conns' \in Seq([addr : Clients, open : BOOLEAN, life : 0 .. MaxCcsDeaths])
         /\ Len(conns') = Len(conns)
         /\ \A d \in 1 .. Len(conns) : conns'[d].life = conns[d].life
<1> DEFINE r == [conns[c] EXCEPT !.open = FALSE]
           R == [addr : Clients, open : BOOLEAN, life : 0 .. MaxCcsDeaths]
<1>1. conns \in Seq(R)
  BY DEF Typed, TypeOK, CcsTypeOK
<1>2. r \in R /\ r.life = conns[c].life
  BY ConnsTyped
<1>3. conns' = [conns EXCEPT ![c] = r]
  OBVIOUS
<1> HIDE DEF r, R
<1>4. /\ [conns EXCEPT ![c] = r] \in Seq(R) /\ Len([conns EXCEPT ![c] = r]) = Len(conns)
      /\ \A d \in 1 .. Len(conns) :
           [conns EXCEPT ![c] = r][d] = IF d = c THEN r ELSE conns[d]
  BY <1>1, <1>2, ExceptSeq
<1> QED BY <1>2, <1>3, <1>4 DEF R

LEMMA ClearSocketNodeTyped ==
  ASSUME Typed, NEW s \in Suffixes, m_pSocket[s] # FreeNode, ClearSocketNode(s)
  PROVE  /\ conns' \in Seq([addr : Clients, open : BOOLEAN, life : 0 .. MaxCcsDeaths])
         /\ Len(conns') = Len(conns)
         /\ \A d \in 1 .. Len(conns) : conns'[d].life = conns[d].life
         /\ m_pSocket' \in [Suffixes -> [conn : Conns \cup {0}, m_unID : Ids]]
         /\ m_pSocket'[s] = FreeNode
         /\ \A r \in Suffixes \ {s} : m_pSocket'[r] = m_pSocket[r]
<1>1. m_pSocket[s].conn \in 1 .. Len(conns)
  BY ConnsTyped
<1>2. FreeNode \in [conn : Conns \cup {0}, m_unID : Ids]
  BY DEF FreeNode, Ids
<1>3. m_pSocket \in [Suffixes -> [conn : Conns \cup {0}, m_unID : Ids]]
  BY DEF Typed, TypeOK, CcsTypeOK
<1> QED BY <1>1, <1>2, <1>3, ConnClosed DEF ClearSocketNode

(* A frame is put into the inbox of one connection.                        *)
LEMMA InboxFilled ==
  ASSUME Typed, NEW c \in 1 .. Len(conns), NEW f \in Frame,
         inbox' = [inbox EXCEPT ![c] = Append(inbox[c], f)]
  PROVE  /\ inbox' \in Seq(Seq(Frame)) /\ Len(inbox') = Len(inbox)
         /\ inbox'[c] = Append(inbox[c], f)
         /\ \A d \in 1 .. Len(conns) : d # c => inbox'[d] = inbox[d]
<1>1. inbox \in Seq(Seq(Frame)) /\ Len(inbox) = Len(conns)
  BY DEF Typed, TypeOK, CcsTypeOK
<1>2. Append(inbox[c], f) \in Seq(Frame)
  BY ConnsTyped, AppendProperties
<1> DEFINE e == Append(inbox[c], f)
<1> HIDE DEF e
<1>3. /\ [inbox EXCEPT ![c] = e] \in Seq(Seq(Frame))
      /\ Len([inbox EXCEPT ![c] = e]) = Len(inbox)
      /\ \A j \in 1 .. Len(inbox) : [inbox EXCEPT ![c] = e][j] = IF j = c THEN e ELSE inbox[j]
  BY <1>1, <1>2, ExceptSeq DEF e
<1> QED BY <1>1, <1>3 DEF e

LEMMA FillMQHeadTyped ==
  ASSUME Typed, NEW s \in Suffixes, m_pSocket[s] # FreeNode,
         NEW type \in Requests, NEW t \in Topics, Len(sent) < MaxReqs
  PROVE  /\ FillMQHead(s, type, t) \in Frame
         /\ FillMQHead(s, type, t).conn = m_pSocket[s].conn
         /\ FillMQHead(s, type, t).echo = m_pSocket[s].m_unID
<1>1. m_pSocket[s].conn \in 1 .. Len(conns) /\ m_pSocket[s].m_unID \in Ids
  BY ConnsTyped DEF Typed, TypeOK, CcsTypeOK
<1>2. m_pSocket[s].conn \in Conns /\ conns[m_pSocket[s].conn].addr \in Clients
  BY <1>1, ConnsTyped
<1>3. Len(sent) + 1 \in Reqs
  <2>1. Len(sent) \in Nat /\ MaxReqs \in Nat
    BY PipesAssumption, LenProperties DEF Typed, TypeOK, CcsTypeOK
  <2> QED BY <2>1 DEF Reqs
<1>4. type \in ReqTypes \cup RspTypes /\ "whole" \in LenField
  BY PipesAssumption DEF ReqTypes, LenField
<1> QED BY <1>1, <1>2, <1>3, <1>4 DEF FillMQHead, Frame

LEMMA CcsTyped == ASSUME Typed, CcsNext, UNCHANGED mcpVars PROVE Typed'
<1> DEFINE R == [addr : Clients, open : BOOLEAN, life : 0 .. MaxCcsDeaths]
           N == [conn : Conns \cup {0}, m_unID : Ids]
           M == [conn : Conns, m_iSuffix : Suffixes]
           Q == [conn : Conns, type : ReqTypes, topic : Topics, to : SUBSET Conns]
<1>0. /\ m_pSocket \in [Suffixes -> N] /\ m_unID \in Nat
      /\ main2me \in Seq(M) /\ cpc \in {"idle", "skip"}
      /\ conns \in Seq(R) /\ inbox \in Seq(Seq(Frame))
      /\ sent \in Seq(Q) /\ ccsDeaths \in 0 .. MaxCcsDeaths
      /\ ccs2mcp \in Seq(Frame) /\ mcp2ccs \in Seq(Frame)
  BY DEF Typed, TypeOK, CcsTypeOK, Ids
<1>a. /\ cpc = "skip" => mcp2ccs # <<>>
      /\ Len(conns) <= MaxConns /\ Len(sent) <= MaxReqs /\ Len(inbox) = Len(conns)
      /\ \A s \in Suffixes : m_pSocket[s].conn <= Len(conns)
      /\ \A s \in Suffixes : m_pSocket[s].conn = 0 => m_pSocket[s] = FreeNode
      /\ \A k \in 1 .. Len(main2me) : main2me[k].conn <= Len(conns)
  BY DEF Typed
<1>b. /\ MaxConns \in Nat /\ MaxReqs \in Nat /\ MaxCcsDeaths \in Nat
      /\ Len(conns) \in Nat /\ Len(sent) \in Nat
  BY <1>0, PipesAssumption, LenProperties
<1>c. FreeNode \in N /\ FreeNode.conn = 0
  BY DEF FreeNode, Ids
<1>d. CcsTypeOK <=> /\ m_pSocket \in [Suffixes -> N] /\ m_unID \in Nat
                    /\ main2me \in Seq(M) /\ cpc \in {"idle", "skip"}
                    /\ conns \in Seq(R) /\ inbox \in Seq(Seq(Frame))
                    /\ sent \in Seq(Q) /\ ccsDeaths \in 0 .. MaxCcsDeaths
  BY DEF CcsTypeOK, Ids
<1>e. CcsTypeOK' <=> /\ m_pSocket' \in [Suffixes -> N] /\ m_unID' \in Nat
                     /\ main2me' \in Seq(M) /\ cpc' \in {"idle", "skip"}
                     /\ conns' \in Seq(R) /\ inbox' \in Seq(Seq(Frame))
                     /\ sent' \in Seq(Q) /\ ccsDeaths' \in 0 .. MaxCcsDeaths
  BY DEF CcsTypeOK, Ids
<1> HIDE DEF R, N, M, Q
<1>1. ASSUME NEW a \in Clients, NEW s \in Suffixes, Accept(a, s) PROVE Typed'
  <2> DEFINE r == [addr |-> a, open |-> TRUE, life |-> ccsDeaths]
             m == [conn |-> Len(conns) + 1, m_iSuffix |-> s]
  <2>1. r \in R /\ m \in M
    BY <1>0, <1>1, <1>b DEF R, M, Conns, Accept
  <2>2. /\ conns' = Append(conns, r) /\ inbox' = Append(inbox, <<>>)
        /\ main2me' = Append(main2me, m) /\ Len(conns) < MaxConns
        /\ UNCHANGED <<ccs2mcp, mcp2ccs, m_pSocket, m_unID, cpc, sent, ccsDeaths>>
    BY <1>1 DEF Accept
  <2>3. m.conn = Len(conns) + 1
    OBVIOUS
  <2> HIDE DEF r, m
  <2>4. conns' \in Seq(R) /\ Len(conns') = Len(conns) + 1
    BY <1>0, <2>1, <2>2, AppendProperties
  <2>5. inbox' \in Seq(Seq(Frame)) /\ Len(inbox') = Len(inbox) + 1
    <3>1. <<>> \in Seq(Frame)
      OBVIOUS
    <3> QED BY <1>0, <2>2, <3>1, AppendProperties
  <2>6. /\ main2me' \in Seq(M) /\ Len(main2me') = Len(main2me) + 1
        /\ \A k \in 1 .. Len(main2me) : main2me'[k] = main2me[k]
        /\ main2me'[Len(main2me) + 1] = m
    BY <1>0, <2>1, <2>2, AppendProperties
  <2>7. ASSUME NEW k \in 1 .. Len(main2me') PROVE main2me'[k].conn <= Len(conns')
    <3>0. Len(main2me) \in Nat
      BY <1>0, LenProperties
    <3>1. CASE k = Len(main2me) + 1
      BY <1>b, <2>3, <2>4, <2>6, <3>1
    <3>2. CASE k \in 1 .. Len(main2me)
      <4>0. main2me[k] \in M
        BY <1>0, <3>2, ElementOfSeq
      <4>1. main2me[k].conn \in Conns
        BY <4>0 DEF M
      <4> QED BY <1>a, <1>b, <2>4, <2>6, <3>2, <4>1 DEF Conns
    <3> QED BY <2>6, <3>0, <3>1, <3>2
  <2>8. \A q \in Suffixes : m_pSocket[q].conn \in Nat /\ m_pSocket[q].conn <= Len(conns) + 1
    BY <1>0, <1>a, <1>b DEF N, Conns
  <2> QED BY <1>0, <1>a, <1>b, <1>e, <2>2, <2>4, <2>5, <2>6, <2>7, <2>8, CcsTypedFrom
<1>2. ASSUME NEW c \in 1 .. Len(conns), ClientCloses(c) PROVE Typed'
  <2>1. conns' \in Seq(R) /\ Len(conns') = Len(conns)
    BY <1>2, ConnClosed DEF ClientCloses, R
  <2>2. UNCHANGED <<ccs2mcp, mcp2ccs, m_pSocket, m_unID, main2me, cpc, inbox, sent, ccsDeaths>>
    BY <1>2 DEF ClientCloses
  <2> QED BY <1>0, <1>a, <1>e, <2>1, <2>2, CcsTypedFrom
<1>3. ASSUME NEW s \in Suffixes, NEW type \in Requests, NEW t \in Topics,
             RecvClientData(s, type, t)
      PROVE  Typed'
  <2>0. /\ m_pSocket[s] # FreeNode /\ Len(sent) < MaxReqs
        /\ UNCHANGED <<mcp2ccs, m_unID, main2me, cpc, inbox, ccsDeaths>>
    BY <1>3 DEF RecvClientData
  <2>1. CASE /\ ccs2mcp' = Append(ccs2mcp, FillMQHead(s, type, t))
             /\ sent' = Append(sent, [conn |-> m_pSocket[s].conn, type |-> type,
                                      topic |-> t, to |-> Addressees(type, t)])
             /\ UNCHANGED <<m_pSocket, conns>>
    <3> DEFINE q == [conn |-> m_pSocket[s].conn, type |-> type,
                     topic |-> t, to |-> Addressees(type, t)]
    <3>1. q \in Q
      <4>1. m_pSocket[s].conn \in Conns
        BY <2>0, ConnsTyped
      <4>2. Addressees(type, t) \subseteq Conns
        BY ConnsTyped DEF Addressees, SubscribersOf
      <4>3. type \in ReqTypes
        BY PipesAssumption DEF ReqTypes
      <4> QED BY <4>1, <4>2, <4>3 DEF Q
    <3>2. sent' = Append(sent, q)
      BY <2>1
    <3> HIDE DEF q
    <3>3. sent' \in Seq(Q) /\ Len(sent') = Len(sent) + 1
      BY <1>0, <3>1, <3>2, AppendProperties
    <3>4. ccs2mcp' \in Seq(Frame) /\ ccs2mcp' # <<>>
      BY <1>0, <2>0, <2>1, FillMQHeadTyped, AppendProperties
    <3>5. Len(sent') <= MaxReqs
      BY <1>b, <2>0, <3>3
    <3>6. UNCHANGED <<mcp2ccs, m_unID, main2me, cpc, inbox, ccsDeaths, m_pSocket, conns>>
      BY <2>0, <2>1
    <3>7. CcsTypeOK'
      BY <1>0, <1>e, <3>3, <3>6
    <3> QED BY <1>0, <1>a, <3>4, <3>5, <3>6, <3>7, CcsTypedFrom
  <2>2. CASE ClearSocketNode(s) /\ UNCHANGED <<ccs2mcp, sent>>
    <3>1. /\ conns' \in Seq(R) /\ Len(conns') = Len(conns)
          /\ m_pSocket' \in [Suffixes -> N] /\ m_pSocket'[s] = FreeNode
          /\ \A r \in Suffixes \ {s} : m_pSocket'[r] = m_pSocket[r]
      BY <2>0, <2>2, ClearSocketNodeTyped DEF R, N
    <3>2. \A r \in Suffixes : /\ m_pSocket'[r].conn <= Len(conns')
                              /\ m_pSocket'[r].conn = 0 => m_pSocket'[r] = FreeNode
      BY <1>a, <1>b, <1>c, <3>1
    <3> QED BY <1>0, <1>a, <1>e, <2>0, <2>2, <3>1, <3>2, CcsTypedFrom
  <2> QED BY <1>3, <2>1, <2>2 DEF RecvClientData
<1>4. CASE CreateSocketNode
  <2> DEFINE new == Head(main2me)
  <2>1. /\ new \in M /\ Tail(main2me) \in Seq(M)
        /\ Len(Tail(main2me)) = Len(main2me) - 1
        /\ \A k \in 1 .. Len(Tail(main2me)) : Tail(main2me)[k] = main2me[k + 1]
    BY <1>0, <1>4, HeadTailProperties DEF CreateSocketNode
  <2>2. new.conn \in 1 .. Len(conns)
    <3>1. new = main2me[1] /\ 1 \in 1 .. Len(main2me)
      <4>1. main2me # <<>>
        BY <1>4 DEF CreateSocketNode
      <4>2. Len(main2me) \in Nat \ {0}
        BY <1>0, <4>1, EmptySeq
      <4> QED BY <4>1, <4>2
    <3>2. new.conn \in Conns /\ new.conn <= Len(conns)
      BY <1>a, <2>1, <3>1 DEF M
    <3> QED BY <1>b, <3>2 DEF Conns
  <2>3. \A k \in 1 .. Len(Tail(main2me)) : Tail(main2me)[k].conn <= Len(conns)
    <3>1. Len(main2me) \in Nat
      BY <1>0, LenProperties
    <3>2. \A k \in 1 .. Len(Tail(main2me)) : k + 1 \in 1 .. Len(main2me)
      BY <2>1, <3>1
    <3> QED BY <1>a, <2>1, <3>2
  <2>4. new.m_iSuffix \in Suffixes /\ new.conn \in Conns
    BY <2>1 DEF M
  <2>5. /\ main2me' = Tail(main2me)
        /\ UNCHANGED <<ccs2mcp, mcp2ccs, cpc, inbox, sent, ccsDeaths>>
    BY <1>4 DEF CreateSocketNode
  <2>6. CASE /\ m_pSocket' = [m_pSocket EXCEPT ![new.m_iSuffix] =
                                [conn |-> new.conn, m_unID |-> m_unID]]
             /\ m_unID' = m_unID + 1
             /\ UNCHANGED conns
    <3> DEFINE n == [conn |-> new.conn, m_unID |-> m_unID]
    <3>1. n \in N /\ n.conn = new.conn
      BY <1>0, <2>4 DEF N, Ids
    <3> HIDE DEF n, new
    <3>2. /\ m_pSocket' \in [Suffixes -> N]
          /\ \A r \in Suffixes : m_pSocket'[r] = IF r = new.m_iSuffix THEN n ELSE m_pSocket[r]
      BY <1>0, <2>4, <2>6, <3>1 DEF n
    <3>3. \A r \in Suffixes : /\ m_pSocket'[r].conn <= Len(conns)
                              /\ m_pSocket'[r].conn = 0 => m_pSocket'[r] = FreeNode
      BY <1>a, <1>b, <2>2, <3>1, <3>2
    <3>4. m_unID' \in Nat
      BY <1>0, <2>6
    <3> QED BY <1>0, <1>a, <1>e, <2>1, <2>3, <2>5, <2>6, <3>2, <3>3, <3>4, CcsTypedFrom
  <2>7. CASE /\ conns' = [conns EXCEPT ![new.conn].open = FALSE]
             /\ UNCHANGED <<m_pSocket, m_unID>>
    <3>1. conns' \in Seq(R) /\ Len(conns') = Len(conns)
      BY <2>2, <2>7, ConnClosed DEF R
    <3> QED BY <1>0, <1>a, <1>e, <2>1, <2>3, <2>5, <2>7, <3>1, CcsTypedFrom
  <2> QED BY <1>4, <2>6, <2>7 DEF CreateSocketNode
<1>5. ASSUME NEW s \in Suffixes, RecvClientClosed(s) PROVE Typed'
  <2>0. /\ m_pSocket[s] # FreeNode /\ ClearSocketNode(s)
        /\ UNCHANGED <<ccs2mcp, mcp2ccs, m_unID, main2me, cpc, inbox, sent, ccsDeaths>>
    BY <1>5 DEF RecvClientClosed
  <2>1. /\ conns' \in Seq(R) /\ Len(conns') = Len(conns)
        /\ m_pSocket' \in [Suffixes -> N] /\ m_pSocket'[s] = FreeNode
        /\ \A r \in Suffixes \ {s} : m_pSocket'[r] = m_pSocket[r]
    BY <2>0, ClearSocketNodeTyped DEF R, N
  <2>2. \A r \in Suffixes : /\ m_pSocket'[r].conn <= Len(conns')
                            /\ m_pSocket'[r].conn = 0 => m_pSocket'[r] = FreeNode
    BY <1>a, <1>b, <1>c, <2>1
  <2> QED BY <1>0, <1>a, <1>e, <2>0, <2>1, <2>2, CcsTypedFrom
<1>6. CASE CheckSvrMessage
  <2> DEFINE f == Head(mcp2ccs)
  <2>1. f \in Frame /\ Tail(mcp2ccs) \in Seq(Frame) /\ mcp2ccs # <<>>
    BY <1>0, <1>6, HeadTailProperties DEF CheckSvrMessage
  <2>2. /\ DoSvrMessage(f)
        /\ UNCHANGED <<ccs2mcp, m_unID, main2me, sent, ccsDeaths>>
        /\ mcp2ccs' \in Seq(Frame) /\ cpc' \in {"idle", "skip"}
        /\ cpc' = "skip" => mcp2ccs' # <<>>
    BY <1>0, <1>6, <2>1 DEF CheckSvrMessage
  <2>3. f.m_iSuffix \in Suffixes
    BY <2>1 DEF Frame
  <2> HIDE DEF f
  <2>4. CASE /\ FindsNode(f)
             /\ inbox' = [inbox EXCEPT ![m_pSocket[f.m_iSuffix].conn] =
                            Append(inbox[m_pSocket[f.m_iSuffix].conn], f)]
             /\ UNCHANGED <<m_pSocket, conns>>
    <3>1. m_pSocket[f.m_iSuffix].conn \in 1 .. Len(conns)
      BY <2>3, <2>4, ConnsTyped DEF FindsNode
    <3>2. inbox' \in Seq(Seq(Frame)) /\ Len(inbox') = Len(inbox)
      BY <2>1, <2>4, <3>1, InboxFilled
    <3> QED BY <1>0, <1>a, <1>e, <2>2, <2>4, <3>2, CcsTypedFrom
  <2>5. CASE FindsNode(f) /\ ClearSocketNode(f.m_iSuffix) /\ UNCHANGED inbox
    <3> DEFINE s == f.m_iSuffix
    <3>1. /\ conns' \in Seq(R) /\ Len(conns') = Len(conns)
          /\ m_pSocket' \in [Suffixes -> N] /\ m_pSocket'[s] = FreeNode
          /\ \A r \in Suffixes \ {s} : m_pSocket'[r] = m_pSocket[r]
      BY <2>3, <2>5, ClearSocketNodeTyped DEF R, N, FindsNode
    <3>2. \A r \in Suffixes : /\ m_pSocket'[r].conn <= Len(conns')
                              /\ m_pSocket'[r].conn = 0 => m_pSocket'[r] = FreeNode
      BY <1>a, <1>b, <1>c, <3>1
    <3> QED BY <1>0, <1>a, <1>e, <2>2, <2>5, <3>1, <3>2, CcsTypedFrom
  <2>6. CASE UNCHANGED <<m_pSocket, conns, inbox>>
    BY <1>0, <1>a, <1>e, <2>2, <2>6, CcsTypedFrom
  <2> QED BY <2>2, <2>4, <2>5, <2>6 DEF DoSvrMessage
<1>7. CASE SkipSvrMessage
  <2>1. Tail(mcp2ccs) \in Seq(Frame)
    BY <1>0, <1>7, <1>a, HeadTailProperties DEF SkipSvrMessage
  <2>2. /\ mcp2ccs' = Tail(mcp2ccs) /\ cpc' = "idle"
        /\ UNCHANGED <<ccs2mcp, m_pSocket, m_unID, main2me, conns, inbox, sent, ccsDeaths>>
    BY <1>7 DEF SkipSvrMessage
  <2> QED BY <1>0, <1>a, <1>e, <2>1, <2>2, CcsTypedFrom
<1>8. CASE CcsRestart
  <2>1. /\ ccsDeaths < MaxCcsDeaths /\ ccsDeaths' = ccsDeaths + 1
        /\ m_pSocket' = [s \in Suffixes |-> FreeNode] /\ m_unID' = FirstId
        /\ main2me' = <<>> /\ cpc' = "idle"
        /\ conns' = [c \in DOMAIN conns |-> [conns[c] EXCEPT !.open = FALSE]]
        /\ UNCHANGED <<ccs2mcp, mcp2ccs, inbox, sent>>
    BY <1>8 DEF CcsRestart
  <2>2. \A c \in 1 .. Len(conns) : [conns[c] EXCEPT !.open = FALSE] \in R
    BY ConnsTyped DEF R
  <2>3. conns' \in Seq(R) /\ Len(conns') = Len(conns)
    <3>1. DOMAIN conns = 1 .. Len(conns)
      BY <1>0, LenProperties
    <3>2. conns' = [c \in 1 .. Len(conns) |-> [conns[c] EXCEPT !.open = FALSE]]
      BY <2>1, <3>1
    <3>3. conns' \in [1 .. Len(conns) -> R]
      BY <2>2, <3>2
    <3> QED BY <1>b, <3>3
  <2>4. ccsDeaths' \in 0 .. MaxCcsDeaths /\ m_unID' \in Nat
    BY <1>0, <1>b, <2>1 DEF FirstId
  <2>5. m_pSocket' \in [Suffixes -> N] /\ main2me' \in Seq(M) /\ Len(main2me') = 0
    BY <1>c, <2>1
  <2>6. \A r \in Suffixes : /\ m_pSocket'[r].conn <= Len(conns')
                            /\ m_pSocket'[r].conn = 0 => m_pSocket'[r] = FreeNode
    BY <1>b, <1>c, <2>1, <2>3
  <2> QED BY <1>0, <1>a, <1>e, <2>1, <2>3, <2>4, <2>5, <2>6, CcsTypedFrom
<1> QED BY <1>1, <1>2, <1>3, <1>4, <1>5, <1>6, <1>7, <1>8 DEF CcsNext, CcsWork

LEMMA TypedStep == ASSUME Typed, [Next]_vars PROVE Typed'
<1>1. CASE CcsNext /\ UNCHANGED mcpVars
  BY <1>1, CcsTyped
<1>2. CASE McpNext /\ UNCHANGED ccsVars
  BY <1>2, McpTyped
<1>3. CASE UNCHANGED vars
  BY <1>3 DEF vars, ccsVars, mcpVars, Typed, TypeOK, CcsTypeOK, McpTypeOK, Within
<1> QED BY <1>1, <1>2, <1>3 DEF Next

(* Every frame stays a frame with a request, a connection and a type there *)
(* is, through both processes and both pipes, whoever dies.                *)
THEOREM BrokerTypes == Spec => []TypeOK
<1>1. Init => Typed
  BY TypedInit
<1>2. Typed /\ [Next]_vars => Typed'
  BY TypedStep
<1>3. Typed => TypeOK
  BY DEF Typed
<1> QED BY <1>1, <1>2, <1>3, PTL DEF Spec

-----------------------------------------------------------------------------
Known == 1 .. Len(conns)

(* The number e belongs to connection c and, while CCS is in the life in   *)
(* which c was accepted, to no other connection in the table.              *)
Tagged(c, e) ==
  /\ c \in Known
  /\ conns[c].life = ccsDeaths =>
       /\ e < m_unID
       /\ \A s \in Suffixes :
            m_pSocket[s] # FreeNode /\ m_pSocket[s].m_unID = e => m_pSocket[s].conn = c

TaggedFrame == {f \in Frame : Tagged(f.conn, f.echo)}
TaggedAgent == {a \in EasyMQAgent : Tagged(a.conn, a.echo)}

(* All connections in the table, and on their way to it, are of this life. *)
NodesRight ==
  /\ \A c \in Known : conns[c].life <= ccsDeaths
  /\ \A s \in Suffixes : m_pSocket[s] # FreeNode =>
       /\ conns[m_pSocket[s].conn].life = ccsDeaths
       /\ Tagged(m_pSocket[s].conn, m_pSocket[s].m_unID)
  /\ \A k \in 1 .. Len(main2me) : conns[main2me[k].conn].life = ccsDeaths

(* What connection c may be sent.                                          *)
RightFrame(c) ==
  {f \in Frame : f.conn \in Known /\ (f.conn # c => conns[f.conn].life < conns[c].life)}

Delivered == \A c \in Known : inbox[c] \in Seq(RightFrame(c))

(* Whatever either process holds or has sent carries a number that finds   *)
(* its own connection or one of a later life.                              *)
Routed == NodesRight /\ Within(TaggedFrame, TaggedAgent) /\ Delivered

LEMMA TaggedClosed == Closed(TaggedFrame, TaggedAgent)
BY FrameRewritten DEF Closed, TaggedFrame, TaggedAgent, Frame, EasyMQAgent

LEMMA RoutedInit == ASSUME Init PROVE Routed
BY DEF Init, CcsInit, McpInit, Routed, NodesRight, Within, Delivered, Known, FreeNode

LEMMA McpRouted == ASSUME Typed, Routed, McpNext, UNCHANGED ccsVars PROVE Routed'
<1>0. UNCHANGED <<m_pSocket, m_unID, main2me, conns, inbox, ccsDeaths>>
  BY DEF ccsVars
<1>1. TaggedFrame' = TaggedFrame /\ TaggedAgent' = TaggedAgent
  BY <1>0 DEF TaggedFrame, TaggedAgent, Tagged, Known
<1>2. PICK F : F = TaggedFrame
  OBVIOUS
<1>3. PICK A : A = TaggedAgent
  OBVIOUS
<1>4. OnlyFrames
  BY DEF Typed, TypeOK, McpTypeOK, OnlyFrames
<1>5. Closed(F, A) /\ Within(F, A)
  BY <1>2, <1>3, TaggedClosed DEF Routed
<1>6. Within(F, A)'
  BY <1>4, <1>5, McpStepWithin
<1>7. Within(TaggedFrame, TaggedAgent)'
  BY <1>1, <1>2, <1>3, <1>6 DEF Within
<1> QED BY <1>0, <1>7 DEF Routed, NodesRight, Delivered, RightFrame, Known, Tagged

(* What an action of CCS has to show.                                      *)
LEMMA RoutedFrom ==
  ASSUME Typed, Routed, UNCHANGED mcpVars, NodesRight',
         Known \subseteq Known', \A c \in Known : conns'[c].life = conns[c].life,
         \A c \in Known, e \in Nat : Tagged(c, e) => Tagged(c, e)',
         ccs2mcp' \in Seq(TaggedFrame), ccs2mcp # <<>> => ccs2mcp' # <<>>,
         mcp2ccs' \in Seq(TaggedFrame),
         \A c \in Known : inbox'[c] \in Seq(RightFrame(c)),
         \A c \in Known' \ Known : inbox'[c] = <<>>
  PROVE  Routed'
<1>1. TaggedFrame \subseteq TaggedFrame'
  <2> SUFFICES ASSUME NEW f \in Frame, Tagged(f.conn, f.echo) PROVE Tagged(f.conn, f.echo)'
    BY DEF TaggedFrame
  <2>1. f.conn \in Known /\ f.echo \in Nat
    BY DEF Tagged, Frame, Ids
  <2> QED BY <2>1
<1>2. TaggedAgent \subseteq TaggedAgent'
  <2> SUFFICES ASSUME NEW a \in EasyMQAgent, Tagged(a.conn, a.echo)
               PROVE  Tagged(a.conn, a.echo)'
    BY DEF TaggedAgent
  <2>1. a.conn \in Known /\ a.echo \in Nat
    BY DEF Tagged, EasyMQAgent, Ids
  <2> QED BY <2>1
<1>3. Within(TaggedFrame, TaggedAgent)'
  <2>1. ccs2mcp' \in Seq(TaggedFrame') /\ mcp2ccs' \in Seq(TaggedFrame')
    BY <1>1, SeqMonotonic
  <2> QED BY <1>1, <1>2, <2>1 DEF Routed, Within, mcpVars
<1>4. Delivered'
  <2>1. ASSUME NEW c \in Known PROVE inbox'[c] \in Seq(RightFrame(c)')
    <3>1. RightFrame(c) \subseteq RightFrame(c)'
      BY <2>1 DEF RightFrame
    <3> QED BY <2>1, <3>1, SeqMonotonic
  <2>2. ASSUME NEW c \in Known', c \notin Known PROVE inbox'[c] \in Seq(RightFrame(c)')
    <3>1. inbox'[c] = <<>>
      BY <2>2
    <3>2. <<>> \in Seq(RightFrame(c)')
      BY EmptySeq
    <3> QED BY <3>1, <3>2
  <2> QED BY <2>1, <2>2 DEF Delivered
<1> QED BY <1>3, <1>4 DEF Routed

(* Closing connections and freeing slots leaves every number as it is.     *)
LEMMA TagsStay ==
  ASSUME Typed, Routed, UNCHANGED <<m_unID, ccsDeaths, main2me>>,
         Len(conns') = Len(conns), \A c \in Known : conns'[c].life = conns[c].life,
         \A s \in Suffixes : m_pSocket'[s] = m_pSocket[s] \/ m_pSocket'[s] = FreeNode
  PROVE  /\ Known' = Known
         /\ \A c \in Known, e \in Nat : Tagged(c, e) => Tagged(c, e)'
         /\ NodesRight'
<1>1. Known' = Known
  BY DEF Known
<1>2. \A c, e : Tagged(c, e) => Tagged(c, e)'
  BY <1>1 DEF Tagged
<1>3. \A k \in 1 .. Len(main2me) : main2me[k].conn \in Known
  <2> SUFFICES ASSUME NEW k \in 1 .. Len(main2me) PROVE main2me[k].conn \in Known
    OBVIOUS
  <2>1. main2me[k] \in [conn : Conns, m_iSuffix : Suffixes]
    BY ElementOfSeq DEF Typed, TypeOK, CcsTypeOK
  <2>2. main2me[k].conn \in Conns /\ main2me[k].conn <= Len(conns)
    BY <2>1 DEF Typed
  <2> QED BY <2>2, ConnsTyped DEF Known, Conns
<1>4. \A s \in Suffixes : m_pSocket'[s] # FreeNode =>
        m_pSocket'[s] = m_pSocket[s] /\ m_pSocket[s].conn \in Known
  BY ConnsTyped DEF Known
<1>5. NodesRight'
  <2>1. (\A c \in Known : conns[c].life <= ccsDeaths)'
    BY <1>1 DEF Routed, NodesRight
  <2>2. (\A k \in 1 .. Len(main2me) : conns[main2me[k].conn].life = ccsDeaths)'
    BY <1>3 DEF Routed, NodesRight
  <2>3. ASSUME NEW s \in Suffixes, m_pSocket'[s] # FreeNode
        PROVE  /\ conns'[m_pSocket'[s].conn].life = ccsDeaths'
               /\ Tagged(m_pSocket[s].conn, m_pSocket[s].m_unID)'
    <3>1. m_pSocket'[s] = m_pSocket[s] /\ m_pSocket[s].conn \in Known
      BY <1>4, <2>3
    <3>2. /\ conns[m_pSocket[s].conn].life = ccsDeaths
          /\ Tagged(m_pSocket[s].conn, m_pSocket[s].m_unID)
      BY <2>3, <3>1 DEF Routed, NodesRight
    <3>3. m_pSocket'[s].conn = m_pSocket[s].conn /\ m_pSocket'[s].m_unID = m_pSocket[s].m_unID
      BY <3>1
    <3>4. Tagged(m_pSocket[s].conn, m_pSocket[s].m_unID)'
      BY <1>1, <1>4, <3>1, <3>2, <3>3 DEF Tagged
    <3> QED BY <3>1, <3>2, <3>4
  <2> QED BY <2>1, <2>2, <2>3 DEF NodesRight
<1> QED BY <1>1, <1>2, <1>5

(* What the steps below use of the invariant.                              *)
LEMMA RoutedFacts ==
  ASSUME Typed, Routed
  PROVE  /\ Len(conns) \in Nat /\ m_unID \in Nat /\ ccsDeaths \in Nat
         /\ \A c \in Known : conns[c].life \in Nat /\ conns[c].life <= ccsDeaths
         /\ \A s \in Suffixes : m_pSocket[s] # FreeNode =>
              /\ m_pSocket[s].conn \in Known /\ m_pSocket[s].m_unID \in Nat
              /\ conns[m_pSocket[s].conn].life = ccsDeaths
              /\ Tagged(m_pSocket[s].conn, m_pSocket[s].m_unID)
         /\ \A k \in 1 .. Len(main2me) :
              main2me[k].conn \in Known /\ conns[main2me[k].conn].life = ccsDeaths
         /\ ccs2mcp \in Seq(TaggedFrame) /\ mcp2ccs \in Seq(TaggedFrame)
         /\ \A c \in Known : inbox[c] \in Seq(RightFrame(c))
<1>1. /\ m_unID \in Nat /\ ccsDeaths \in 0 .. MaxCcsDeaths
      /\ m_pSocket \in [Suffixes -> [conn : Conns \cup {0}, m_unID : Ids]]
      /\ main2me \in Seq([conn : Conns, m_iSuffix : Suffixes])
  BY DEF Typed, TypeOK, CcsTypeOK, Ids
<1>2. \A c \in Known : conns[c].life \in Nat
  <2>1. \A c \in Known : conns[c] \in [addr : Clients, open : BOOLEAN, life : 0 .. MaxCcsDeaths]
    BY ConnsTyped DEF Known
  <2> QED BY <2>1
<1>3. \A s \in Suffixes : m_pSocket[s] # FreeNode =>
        m_pSocket[s].conn \in Known /\ m_pSocket[s].m_unID \in Nat
  BY <1>1, ConnsTyped DEF Known, Ids
<1>4. ASSUME NEW k \in 1 .. Len(main2me) PROVE main2me[k].conn \in Known
  <2>1. main2me[k] \in [conn : Conns, m_iSuffix : Suffixes]
    BY <1>1, ElementOfSeq
  <2>2. main2me[k].conn \in Conns /\ main2me[k].conn <= Len(conns)
    BY <2>1 DEF Typed
  <2> QED BY <2>2, ConnsTyped DEF Known, Conns
<1>5. Len(conns) \in Nat /\ ccsDeaths \in Nat
  BY <1>1, ConnsTyped
<1> QED BY <1>1, <1>2, <1>3, <1>4, <1>5 DEF Routed, NodesRight, Within, Delivered

(* A step that only closes connections and frees slots.                    *)
LEMMA RoutedAfterClosing ==
  ASSUME Typed, Routed, UNCHANGED mcpVars,
         UNCHANGED <<m_unID, ccsDeaths, main2me, ccs2mcp, inbox>>,
         mcp2ccs' \in Seq(TaggedFrame),
         Len(conns') = Len(conns), \A c \in Known : conns'[c].life = conns[c].life,
         \A s \in Suffixes : m_pSocket'[s] = m_pSocket[s] \/ m_pSocket'[s] = FreeNode
  PROVE  Routed'
<1>1. /\ Known' = Known /\ NodesRight'
      /\ \A c \in Known, e \in Nat : Tagged(c, e) => Tagged(c, e)'
  BY TagsStay
<1>2. ccs2mcp' \in Seq(TaggedFrame) /\ \A c \in Known : inbox'[c] \in Seq(RightFrame(c))
  BY RoutedFacts
<1> QED BY <1>1, <1>2, RoutedFrom

LEMMA AcceptRouted ==
  ASSUME Typed, Routed, UNCHANGED mcpVars, NEW a \in Clients, NEW s \in Suffixes, Accept(a, s)
  PROVE  Routed'
<1> DEFINE R == [addr : Clients, open : BOOLEAN, life : 0 .. MaxCcsDeaths]
           M == [conn : Conns, m_iSuffix : Suffixes]
           r == [addr |-> a, open |-> TRUE, life |-> ccsDeaths]
           m == [conn |-> Len(conns) + 1, m_iSuffix |-> s]
<1>0. /\ conns \in Seq(R) /\ inbox \in Seq(Seq(Frame)) /\ Len(inbox) = Len(conns)
      /\ main2me \in Seq(M) /\ ccsDeaths \in 0 .. MaxCcsDeaths
      /\ Len(conns) \in Nat /\ MaxConns \in Nat
  BY ConnsTyped DEF Typed, TypeOK, CcsTypeOK
<1>1. /\ conns' = Append(conns, r) /\ inbox' = Append(inbox, <<>>)
      /\ main2me' = Append(main2me, m) /\ Len(conns) < MaxConns
      /\ UNCHANGED <<ccs2mcp, mcp2ccs, m_pSocket, m_unID, cpc, sent, ccsDeaths>>
  BY DEF Accept
<1>2. r \in R /\ m \in M /\ r.life = ccsDeaths /\ m.conn = Len(conns) + 1
  BY <1>0, <1>1 DEF Conns
<1> HIDE DEF r, m, R, M
<1>3. /\ Len(conns') = Len(conns) + 1 /\ conns'[Len(conns) + 1] = r
      /\ \A c \in 1 .. Len(conns) : conns'[c] = conns[c]
  BY <1>0, <1>1, <1>2, AppendProperties
<1>4. inbox'[Len(conns) + 1] = <<>> /\ \A c \in 1 .. Len(conns) : inbox'[c] = inbox[c]
  <2>1. <<>> \in Seq(Frame)
    OBVIOUS
  <2> QED BY <1>0, <1>1, <2>1, AppendProperties
<1>5. /\ Len(main2me') = Len(main2me) + 1 /\ main2me'[Len(main2me) + 1] = m
      /\ \A k \in 1 .. Len(main2me) : main2me'[k] = main2me[k]
  BY <1>0, <1>1, <1>2, AppendProperties
<1>6. Known' = Known \cup {Len(conns) + 1} /\ Len(conns) + 1 \notin Known
  BY <1>0, <1>3 DEF Known
<1>7. \A c \in Known : conns'[c].life = conns[c].life
  BY <1>3 DEF Known
<1>8. \A c \in Known, e \in Nat : Tagged(c, e) => Tagged(c, e)'
  BY <1>1, <1>6, <1>7 DEF Tagged
<1>9. NodesRight'
  <2>1. ASSUME NEW c \in Known' PROVE conns'[c].life <= ccsDeaths'
    <3>1. CASE c \in Known
      BY <1>1, <1>7, <3>1, RoutedFacts
    <3>2. CASE c = Len(conns) + 1
      BY <1>1, <1>2, <1>3, <3>2, RoutedFacts
    <3> QED BY <1>6, <2>1, <3>1, <3>2
  <2>2. ASSUME NEW q \in Suffixes, m_pSocket'[q] # FreeNode
        PROVE  /\ conns'[m_pSocket'[q].conn].life = ccsDeaths'
               /\ Tagged(m_pSocket[q].conn, m_pSocket[q].m_unID)'
    <3>1. /\ m_pSocket[q].conn \in Known /\ m_pSocket[q].m_unID \in Nat
          /\ conns[m_pSocket[q].conn].life = ccsDeaths
          /\ Tagged(m_pSocket[q].conn, m_pSocket[q].m_unID)
      BY <1>1, <2>2, RoutedFacts
    <3>2. PICK c \in Known, e \in Nat : c = m_pSocket[q].conn /\ e = m_pSocket[q].m_unID
      BY <3>1
    <3>3. Tagged(c, e)'
      BY <1>8, <3>1, <3>2
    <3>4. c = m_pSocket'[q].conn /\ e = m_pSocket'[q].m_unID
      BY <1>1, <3>2
    <3> QED BY <1>1, <1>7, <3>1, <3>3, <3>4
  <2>3. ASSUME NEW k \in 1 .. Len(main2me') PROVE conns'[main2me'[k].conn].life = ccsDeaths'
    <3>0. Len(main2me) \in Nat
      BY <1>0, LenProperties
    <3>1. CASE k \in 1 .. Len(main2me)
      BY <1>1, <1>5, <1>7, <3>1, RoutedFacts
    <3>2. CASE k = Len(main2me) + 1
      BY <1>1, <1>2, <1>3, <1>5, <3>2
    <3> QED BY <1>5, <2>3, <3>0, <3>1, <3>2
  <2> QED BY <2>1, <2>2, <2>3 DEF NodesRight
<1>10. /\ ccs2mcp' \in Seq(TaggedFrame) /\ mcp2ccs' \in Seq(TaggedFrame)
       /\ \A c \in Known : inbox'[c] \in Seq(RightFrame(c))
  BY <1>1, <1>4, RoutedFacts DEF Known
<1>11. \A c \in Known' \ Known : inbox'[c] = <<>>
  BY <1>4, <1>6
<1> QED BY <1>1, <1>6, <1>7, <1>8, <1>9, <1>10, <1>11, RoutedFrom

LEMMA CreateSocketNodeRouted ==
  ASSUME Typed, Routed, UNCHANGED mcpVars, CreateSocketNode
  PROVE  Routed'
<1> DEFINE M == [conn : Conns, m_iSuffix : Suffixes]
           new == Head(main2me)
<1>1. /\ main2me \in Seq(M) /\ main2me # <<>>
      /\ m_pSocket \in [Suffixes -> [conn : Conns \cup {0}, m_unID : Ids]]
  BY DEF Typed, TypeOK, CcsTypeOK, CreateSocketNode
<1>2. Len(main2me) \in Nat /\ Len(main2me) # 0
  BY <1>1, EmptySeq, LenProperties
<1>3. /\ new = main2me[1] /\ new \in M /\ Len(Tail(main2me)) = Len(main2me) - 1
      /\ \A k \in 1 .. Len(Tail(main2me)) : Tail(main2me)[k] = main2me[k + 1]
  <2>1. /\ Head(main2me) \in M /\ Len(Tail(main2me)) = Len(main2me) - 1
        /\ \A k \in 1 .. Len(Tail(main2me)) : Tail(main2me)[k] = main2me[k + 1]
    <3> HIDE DEF M
    <3> QED BY <1>1, HeadTailProperties
  <2>2. Head(main2me) = main2me[1]
    BY <1>1
  <2> QED BY <2>1, <2>2
<1>4. new.conn \in Known /\ conns[new.conn].life = ccsDeaths /\ new.m_iSuffix \in Suffixes
  BY <1>2, <1>3, RoutedFacts
<1>5. /\ main2me' = Tail(main2me)
      /\ UNCHANGED <<ccs2mcp, mcp2ccs, inbox, ccsDeaths>>
  BY DEF CreateSocketNode
<1>6. \A k \in 1 .. Len(main2me') :
        main2me'[k].conn \in Known /\ conns[main2me'[k].conn].life = ccsDeaths
  <2>1. \A k \in 1 .. Len(main2me') : k + 1 \in 1 .. Len(main2me)
    BY <1>2, <1>3, <1>5
  <2> QED BY <1>3, <1>5, <2>1, RoutedFacts
<1>7. /\ ccs2mcp' \in Seq(TaggedFrame) /\ mcp2ccs' \in Seq(TaggedFrame)
      /\ \A c \in Known : inbox'[c] \in Seq(RightFrame(c))
  BY <1>5, RoutedFacts
<1>8. CASE /\ m_pSocket' = [m_pSocket EXCEPT ![new.m_iSuffix] =
                              [conn |-> new.conn, m_unID |-> m_unID]]
           /\ m_unID' = m_unID + 1
           /\ UNCHANGED conns
  <2> DEFINE n == [conn |-> new.conn, m_unID |-> m_unID]
  <2>1. n.conn = new.conn /\ n.m_unID = m_unID
    OBVIOUS
  <2> HIDE DEF n, new
  <2>2. /\ m_pSocket'[new.m_iSuffix] = n
        /\ \A q \in Suffixes \ {new.m_iSuffix} : m_pSocket'[q] = m_pSocket[q]
    BY <1>1, <1>4, <1>8 DEF n
  <2>3. Known' = Known /\ conns' = conns /\ m_unID' = m_unID + 1
    BY <1>8 DEF Known
  <2>4. ASSUME NEW c \in Known, NEW e \in Nat, Tagged(c, e) PROVE Tagged(c, e)'
    <3> SUFFICES ASSUME conns[c].life = ccsDeaths
                 PROVE  /\ e < m_unID'
                        /\ \A q \in Suffixes :
                             m_pSocket'[q] # FreeNode /\ m_pSocket'[q].m_unID = e
                               => m_pSocket'[q].conn = c
      BY <1>5, <2>3 DEF Tagged
    <3>1. e < m_unID /\ e < m_unID' /\ e # m_unID
      BY <2>3, <2>4, RoutedFacts DEF Tagged
    <3>2. \A q \in Suffixes \ {new.m_iSuffix} :
            m_pSocket'[q] # FreeNode /\ m_pSocket'[q].m_unID = e => m_pSocket'[q].conn = c
      BY <2>2, <2>4 DEF Tagged
    <3> QED BY <2>1, <2>2, <3>1, <3>2
  <2>0. PICK c0 \in Known, u \in Nat : c0 = new.conn /\ u = m_unID
    BY <1>4, RoutedFacts
  <2>5. Tagged(c0, u)'
    <3>1. ASSUME NEW q \in Suffixes \ {new.m_iSuffix}, m_pSocket[q] # FreeNode
          PROVE  m_pSocket[q].m_unID # m_unID
      <4>1. /\ m_pSocket[q].conn \in Known /\ m_pSocket[q].m_unID \in Nat
            /\ conns[m_pSocket[q].conn].life = ccsDeaths
            /\ Tagged(m_pSocket[q].conn, m_pSocket[q].m_unID)
        BY <3>1, RoutedFacts
      <4>2. m_pSocket[q].m_unID < m_unID
        BY <4>1 DEF Tagged
      <4> QED BY <4>1, <4>2, RoutedFacts
    <3>2. \A q \in Suffixes :
            m_pSocket'[q] # FreeNode /\ m_pSocket'[q].m_unID = u => m_pSocket'[q].conn = c0
      BY <2>0, <2>1, <2>2, <3>1
    <3>3. c0 \in Known' /\ u < m_unID'
      BY <2>0, <2>3, RoutedFacts
    <3> QED BY <3>2, <3>3 DEF Tagged
  <2>6. NodesRight'
    <3>1. \A c \in Known' : conns'[c].life <= ccsDeaths'
      BY <1>5, <2>3, RoutedFacts
    <3>2. ASSUME NEW q \in Suffixes, m_pSocket'[q] # FreeNode
          PROVE  /\ conns'[m_pSocket'[q].conn].life = ccsDeaths'
                 /\ Tagged(m_pSocket[q].conn, m_pSocket[q].m_unID)'
      <4>1. CASE q = new.m_iSuffix
        <5>1. m_pSocket'[q].conn = c0 /\ m_pSocket'[q].m_unID = u
          BY <2>0, <2>1, <2>2, <4>1
        <5>2. conns[c0].life = ccsDeaths
          BY <1>4, <2>0
        <5> QED BY <1>5, <2>3, <2>5, <5>1, <5>2
      <4>2. CASE q # new.m_iSuffix
        <5>1. m_pSocket'[q] = m_pSocket[q]
          BY <2>2, <4>2
        <5>2. /\ m_pSocket[q].conn \in Known /\ m_pSocket[q].m_unID \in Nat
              /\ conns[m_pSocket[q].conn].life = ccsDeaths
              /\ Tagged(m_pSocket[q].conn, m_pSocket[q].m_unID)
          BY <3>2, <5>1, RoutedFacts
        <5>3. PICK c \in Known, e \in Nat : c = m_pSocket[q].conn /\ e = m_pSocket[q].m_unID
          BY <5>2
        <5>4. Tagged(c, e)'
          BY <2>4, <5>2, <5>3
        <5> QED BY <1>5, <2>3, <5>1, <5>2, <5>3, <5>4
      <4> QED BY <4>1, <4>2
    <3>3. \A k \in 1 .. Len(main2me') : conns'[main2me'[k].conn].life = ccsDeaths'
      BY <1>5, <1>6, <2>3
    <3> QED BY <3>1, <3>2, <3>3 DEF NodesRight
  <2> QED BY <1>5, <1>7, <2>3, <2>4, <2>6, RoutedFrom
<1>9. CASE conns' = [conns EXCEPT ![new.conn].open = FALSE] /\ UNCHANGED <<m_pSocket, m_unID>>
  <2>1. Len(conns') = Len(conns) /\ \A c \in Known : conns'[c].life = conns[c].life
    BY <1>4, <1>9, ConnClosed DEF Known
  <2>2. Known' = Known
    BY <2>1 DEF Known
  <2>3. \A c \in Known, e \in Nat : Tagged(c, e) => Tagged(c, e)'
    BY <1>5, <1>9, <2>1, <2>2 DEF Tagged
  <2>4. NodesRight'
    <3>1. \A c \in Known' : conns'[c].life <= ccsDeaths'
      BY <1>5, <2>1, <2>2, RoutedFacts
    <3>2. ASSUME NEW q \in Suffixes, m_pSocket'[q] # FreeNode
          PROVE  /\ conns'[m_pSocket'[q].conn].life = ccsDeaths'
                 /\ Tagged(m_pSocket[q].conn, m_pSocket[q].m_unID)'
      <4>1. /\ m_pSocket[q].conn \in Known /\ m_pSocket[q].m_unID \in Nat
            /\ conns[m_pSocket[q].conn].life = ccsDeaths
            /\ Tagged(m_pSocket[q].conn, m_pSocket[q].m_unID)
        BY <1>9, <3>2, RoutedFacts
      <4>2. PICK c \in Known, e \in Nat : c = m_pSocket[q].conn /\ e = m_pSocket[q].m_unID
        BY <4>1
      <4>3. Tagged(c, e)'
        BY <2>3, <4>1, <4>2
      <4>4. c = m_pSocket'[q].conn /\ e = m_pSocket'[q].m_unID
        BY <1>9, <4>2
      <4> QED BY <1>5, <2>1, <4>1, <4>2, <4>3, <4>4
    <3>3. \A k \in 1 .. Len(main2me') : conns'[main2me'[k].conn].life = ccsDeaths'
      BY <1>5, <1>6, <2>1
    <3> QED BY <3>1, <3>2, <3>3 DEF NodesRight
  <2> QED BY <1>5, <1>7, <2>1, <2>2, <2>3, <2>4, RoutedFrom
<1> QED BY <1>8, <1>9 DEF CreateSocketNode

LEMMA RecvClientDataRouted ==
  ASSUME Typed, Routed, UNCHANGED mcpVars, NEW s \in Suffixes, NEW type \in Requests,
         NEW t \in Topics, RecvClientData(s, type, t)
  PROVE  Routed'
<1>0. /\ m_pSocket[s] # FreeNode /\ Len(sent) < MaxReqs
      /\ UNCHANGED <<mcp2ccs, m_unID, main2me, inbox, ccsDeaths>>
  BY DEF RecvClientData
<1>1. CASE /\ ccs2mcp' = Append(ccs2mcp, FillMQHead(s, type, t))
           /\ UNCHANGED <<m_pSocket, conns>>
  <2>1. FillMQHead(s, type, t) \in TaggedFrame
    BY <1>0, FillMQHeadTyped, RoutedFacts DEF TaggedFrame
  <2>2. ccs2mcp' \in Seq(TaggedFrame) /\ ccs2mcp' # <<>>
    BY <1>1, <2>1, RoutedFacts, AppendProperties
  <2>3. Known' = Known /\ (\A c, e : Tagged(c, e)' <=> Tagged(c, e))
    BY <1>0, <1>1 DEF Known, Tagged
  <2>4. NodesRight'
    BY <1>0, <1>1 DEF Routed, NodesRight, Known, Tagged
  <2> QED BY <1>0, <1>1, <2>2, <2>3, <2>4, RoutedFacts, RoutedFrom
<1>2. CASE ClearSocketNode(s) /\ UNCHANGED <<ccs2mcp, sent>>
  <2>1. /\ Len(conns') = Len(conns) /\ \A c \in Known : conns'[c].life = conns[c].life
        /\ \A q \in Suffixes : m_pSocket'[q] = m_pSocket[q] \/ m_pSocket'[q] = FreeNode
    BY <1>0, <1>2, ClearSocketNodeTyped DEF Known
  <2> QED BY <1>0, <1>2, <2>1, RoutedFacts, RoutedAfterClosing
<1> QED BY <1>1, <1>2 DEF RecvClientData

(* The number of a frame finds the frame's own connection or one that was  *)
(* accepted in a later life of CCS.                                        *)
LEMMA FoundIsRight ==
  ASSUME Typed, Routed, NEW f \in TaggedFrame, FindsNode(f)
  PROVE  /\ m_pSocket[f.m_iSuffix].conn \in Known
         /\ f \in RightFrame(m_pSocket[f.m_iSuffix].conn)
<1> DEFINE s == f.m_iSuffix
           c == m_pSocket[s].conn
<1>1. s \in Suffixes /\ f \in Frame /\ Tagged(f.conn, f.echo)
  BY DEF TaggedFrame, Frame
<1>2. m_pSocket[s] # FreeNode /\ m_pSocket[s].m_unID = f.echo
  BY DEF FindsNode
<1>3. c \in Known /\ conns[c].life = ccsDeaths
  BY <1>1, <1>2, RoutedFacts
<1>4. f.conn \in Known /\ (f.conn # c => conns[f.conn].life # ccsDeaths)
  BY <1>1, <1>2 DEF Tagged
<1>5. f.conn # c => conns[f.conn].life < conns[c].life
  BY <1>3, <1>4, RoutedFacts
<1> QED BY <1>1, <1>3, <1>4, <1>5 DEF RightFrame

LEMMA CheckSvrMessageRouted ==
  ASSUME Typed, Routed, UNCHANGED mcpVars, CheckSvrMessage
  PROVE  Routed'
<1> DEFINE f == Head(mcp2ccs)
           c == m_pSocket[f.m_iSuffix].conn
<1>1. f \in TaggedFrame /\ Tail(mcp2ccs) \in Seq(TaggedFrame)
  BY RoutedFacts, HeadTailProperties DEF CheckSvrMessage
<1>2. /\ DoSvrMessage(f) /\ mcp2ccs' \in Seq(TaggedFrame)
      /\ UNCHANGED <<ccs2mcp, m_unID, main2me, sent, ccsDeaths>>
  BY <1>1, RoutedFacts DEF CheckSvrMessage
<1>3. f \in Frame /\ f.m_iSuffix \in Suffixes
  BY <1>1 DEF TaggedFrame, Frame
<1>4. CASE /\ FindsNode(f) /\ inbox' = [inbox EXCEPT ![c] = Append(inbox[c], f)]
           /\ UNCHANGED <<m_pSocket, conns>>
  <2>1. c \in Known /\ f \in RightFrame(c)
    BY <1>1, <1>4, FoundIsRight
  <2> HIDE DEF f, c
  <2>2. inbox'[c] = Append(inbox[c], f) /\ \A d \in Known : d # c => inbox'[d] = inbox[d]
    BY <1>3, <1>4, <2>1, InboxFilled DEF Known
  <2>3. inbox'[c] \in Seq(RightFrame(c))
    BY <2>1, <2>2, RoutedFacts, AppendProperties
  <2>4. \A d \in Known : inbox'[d] \in Seq(RightFrame(d))
    BY <2>2, <2>3, RoutedFacts
  <2>5. Known' = Known /\ (\A d, e : Tagged(d, e)' <=> Tagged(d, e))
    BY <1>2, <1>4 DEF Known, Tagged
  <2>6. NodesRight'
    BY <1>2, <1>4 DEF Routed, NodesRight, Known, Tagged
  <2> QED BY <1>2, <1>4, <2>4, <2>5, <2>6, RoutedFacts, RoutedFrom
<1>5. CASE FindsNode(f) /\ ClearSocketNode(f.m_iSuffix) /\ UNCHANGED inbox
  <2>0. m_pSocket[f.m_iSuffix] # FreeNode
    BY <1>5 DEF FindsNode
  <2>1. /\ Len(conns') = Len(conns) /\ \A d \in Known : conns'[d].life = conns[d].life
        /\ \A q \in Suffixes : m_pSocket'[q] = m_pSocket[q] \/ m_pSocket'[q] = FreeNode
    BY <1>3, <1>5, <2>0, ClearSocketNodeTyped DEF Known
  <2> QED BY <1>2, <1>5, <2>1, RoutedAfterClosing
<1>6. CASE UNCHANGED <<m_pSocket, conns, inbox>>
  BY <1>2, <1>6, RoutedAfterClosing
<1>7. \/ /\ FindsNode(f) /\ inbox' = [inbox EXCEPT ![c] = Append(inbox[c], f)]
         /\ UNCHANGED <<m_pSocket, conns>>
      \/ FindsNode(f) /\ ClearSocketNode(f.m_iSuffix) /\ UNCHANGED inbox
      \/ UNCHANGED <<m_pSocket, conns, inbox>>
  <2> HIDE DEF f
  <2> QED BY <1>2 DEF DoSvrMessage
<1> QED BY <1>4, <1>5, <1>6, <1>7

LEMMA CcsRestartRouted ==
  ASSUME Typed, Routed, UNCHANGED mcpVars, CcsRestart
  PROVE  Routed'
<1> DEFINE R == [addr : Clients, open : BOOLEAN, life : 0 .. MaxCcsDeaths]
<1>1. /\ ccsDeaths' = ccsDeaths + 1 /\ m_pSocket' = [s \in Suffixes |-> FreeNode]
      /\ main2me' = <<>>
      /\ conns' = [c \in DOMAIN conns |-> [conns[c] EXCEPT !.open = FALSE]]
      /\ UNCHANGED <<ccs2mcp, mcp2ccs, inbox, sent>>
  BY DEF CcsRestart
<1>2. conns \in Seq(R) /\ Len(conns) \in Nat
  BY RoutedFacts DEF Typed, TypeOK, CcsTypeOK
<1>3. DOMAIN conns = Known
  BY <1>2, LenProperties DEF Known
<1>4. \A c \in Known : conns'[c] = [conns[c] EXCEPT !.open = FALSE]
  BY <1>1, <1>3
<1>5. \A c \in Known : conns'[c].life = conns[c].life
  BY <1>4, ConnsTyped DEF Known
<1>6. Len(conns') = Len(conns)
  BY <1>1, <1>2, <1>3 DEF Known
<1>7. Known' = Known
  BY <1>6 DEF Known
<1>8. ASSUME NEW c \in Known
      PROVE  conns'[c].life <= ccsDeaths' /\ conns'[c].life # ccsDeaths'
  <2>1. conns[c].life \in Nat /\ conns[c].life <= ccsDeaths /\ ccsDeaths \in Nat
    BY RoutedFacts
  <2> QED BY <1>1, <1>5, <2>1
<1>9. \A c \in Known, e \in Nat : Tagged(c, e)'
  BY <1>7, <1>8 DEF Tagged
<1>10. NodesRight'
  <2>1. \A c \in Known' : conns'[c].life <= ccsDeaths'
    BY <1>7, <1>8
  <2>2. \A s \in Suffixes : m_pSocket'[s] = FreeNode
    BY <1>1
  <2>3. Len(main2me') = 0
    BY <1>1
  <2> QED BY <2>1, <2>2, <2>3 DEF NodesRight
<1> QED BY <1>1, <1>5, <1>7, <1>9, <1>10, RoutedFacts, RoutedFrom

LEMMA CcsRouted == ASSUME Typed, Routed, CcsNext, UNCHANGED mcpVars PROVE Routed'
<1>1. ASSUME NEW c \in 1 .. Len(conns), ClientCloses(c) PROVE Routed'
  <2>1. Len(conns') = Len(conns) /\ \A d \in Known : conns'[d].life = conns[d].life
    BY <1>1, ConnClosed DEF ClientCloses, Known
  <2>2. UNCHANGED <<ccs2mcp, mcp2ccs, m_pSocket, m_unID, main2me, inbox, ccsDeaths>>
    BY <1>1 DEF ClientCloses
  <2> QED BY <2>1, <2>2, RoutedFacts, RoutedAfterClosing
<1>2. ASSUME NEW s \in Suffixes, RecvClientClosed(s) PROVE Routed'
  <2>1. /\ m_pSocket[s] # FreeNode /\ ClearSocketNode(s)
        /\ UNCHANGED <<ccs2mcp, mcp2ccs, m_unID, main2me, inbox, ccsDeaths>>
    BY <1>2 DEF RecvClientClosed
  <2>2. /\ Len(conns') = Len(conns) /\ \A d \in Known : conns'[d].life = conns[d].life
        /\ \A q \in Suffixes : m_pSocket'[q] = m_pSocket[q] \/ m_pSocket'[q] = FreeNode
    BY <2>1, ClearSocketNodeTyped DEF Known
  <2> QED BY <2>1, <2>2, RoutedFacts, RoutedAfterClosing
<1>3. CASE SkipSvrMessage
  <2>1. mcp2ccs # <<>>
    BY <1>3 DEF SkipSvrMessage, Typed
  <2>2. Tail(mcp2ccs) \in Seq(TaggedFrame)
    BY <2>1, RoutedFacts, HeadTailProperties
  <2>3. /\ mcp2ccs' = Tail(mcp2ccs)
        /\ UNCHANGED <<ccs2mcp, m_pSocket, m_unID, main2me, conns, inbox, ccsDeaths>>
    BY <1>3 DEF SkipSvrMessage
  <2> QED BY <2>2, <2>3, RoutedAfterClosing
<1> QED BY <1>1, <1>2, <1>3, AcceptRouted, RecvClientDataRouted, CreateSocketNodeRouted,
           CheckSvrMessageRouted, CcsRestartRouted DEF CcsNext, CcsWork

LEMMA RoutedStep == ASSUME Typed, Routed, [Next]_vars PROVE Routed'
<1>1. CASE CcsNext /\ UNCHANGED mcpVars
  BY <1>1, CcsRouted
<1>2. CASE McpNext /\ UNCHANGED ccsVars
  BY <1>2, McpRouted
<1>3. CASE UNCHANGED vars
  BY <1>3, RoutedFacts, RoutedAfterClosing DEF vars, ccsVars, mcpVars
<1> QED BY <1>1, <1>2, <1>3 DEF Next

(* Within a life of CCS nothing reaches a connection it was not meant for, *)
(* however connections come and go in a slot while its answers and the     *)
(* messages of its topics are under way, and whatever dies.                *)
THEOREM BrokerRoutedWithinLife == Spec => []RoutedWithinLife
<1>1. Init => Typed /\ Routed
  BY TypedInit, RoutedInit
<1>2. Typed /\ Routed /\ [Next]_vars => (Typed /\ Routed)'
  BY TypedStep, RoutedStep
<1>3. Typed /\ Routed => RoutedWithinLife
  <2> SUFFICES ASSUME Typed, Routed, NEW c \in 1 .. Len(conns), NEW i \in 1 .. Len(inbox[c]),
                      inbox[c][i].conn # c
               PROVE  conns[inbox[c][i].conn].life < conns[c].life
    BY DEF RoutedWithinLife, Received
  <2>1. inbox[c] \in Seq(RightFrame(c))
    BY RoutedFacts DEF Known
  <2>2. inbox[c][i] \in RightFrame(c)
    BY <2>1, ElementOfSeq
  <2> QED BY <2>2 DEF RightFrame
<1> QED BY <1>1, <1>2, <1>3, PTL DEF Spec

(***************************************************************************)
(* What Broker promises its clients, from what is shown above: a           *)
(* connection gets only what it asked for, it gets that in order and once, *)
(* and, as long as MCP has not died, a subscriber gets every message that  *)
(* was published after it knew of its subscription.                        *)
(***************************************************************************)

(* A frame that still is a request says what was read, and nobody has      *)
(* touched it.                                                             *)
RequestOf(f) ==
  /\ f.req \in 1 .. Len(sent)
  /\ f.type \in ReqTypes =>
       /\ f.msgLen = "whole" /\ f.addr = conns[f.conn].addr
       /\ sent[f.req].conn = f.conn
       /\ sent[f.req].type = f.type /\ sent[f.req].topic = f.topic

(* What may be put into mcp2ccs: a copy for who asked for the topic, or an *)
(* answer for who made the request.                                        *)
ReplyOf(f) ==
  /\ f.req \in 1 .. Len(sent)
  /\ IF IsCopy(f) THEN Asked(f.conn, f.topic) ELSE sent[f.req].conn = f.conn

SubscriberOf(t, a) == Asked(a.conn, t) /\ a.addr = conns[a.conn].addr

RequestFrame   == {f \in Frame : f.conn \in Known /\ RequestOf(f)}
ReplyFrame     == {f \in Frame : f.conn \in Known /\ ReplyOf(f)}
Subscribers(t) == {a \in EasyMQAgent : a.conn \in Known /\ SubscriberOf(t, a)}

(* What MCP holds of the request it works on.                              *)
WorkRight ==
  mpc # "idle" =>
    /\ pMsgBuff \in RequestFrame /\ pMsgBuff.type \in RspTypes
    /\ mpc \in {"init", "publish"} => sent[pMsgBuff.req].conn = pMsgBuff.conn
    /\ mpc = "init" => pMsgBuff.type = "init_rsp"
    /\ mpc \in {"publish", "forward"} =>
         /\ pMsgBuff.type = "publish_rsp" /\ pMsgBuff.msgLen = "whole"
         /\ todo \subseteq Subscribers(pMsgBuff.topic)

Asking ==
  /\ ccs2mcp \in Seq(RequestFrame) /\ mcp2ccs \in Seq(ReplyFrame)
  /\ \A c \in Known : inbox[c] \in Seq(ReplyFrame)
  /\ \A t \in Topics : g_mapTopicToAgent[t] \subseteq Subscribers(t)
  /\ WorkRight

-----------------------------------------------------------------------------
(* Everything MCP has sent and CCS has not dropped.                        *)
Out == {mcp2ccs[i] : i \in 1 .. Len(mcp2ccs)} \cup UNION {Received(c) : c \in Known}

(* Two frames of one kind for one connection stem from requests in order.  *)
Before(f, g) == f.conn = g.conn /\ (IsCopy(f) <=> IsCopy(g)) => f.req < g.req

(* No address is twice in a set of subscribers.                            *)
AddressesApart(A) == \A a, b \in A : a.addr = b.addr => a = b

(* A frame in the ring is that of request r or a later one, and of a later *)
(* one if it has not been answered.                                        *)
From(r, g) == r <= g.req /\ (g.type \in ReqTypes => r < g.req)

RingInOrder ==
  \A i, j \in 1 .. Len(ccs2mcp) : i < j => ccs2mcp[i].req < ccs2mcp[j].req

OutBehind ==
  /\ \A f \in Out, i \in 1 .. Len(ccs2mcp) : From(f.req, ccs2mcp[i])
  /\ mpc # "idle" => /\ \A f \in Out : f.req <= pMsgBuff.req
                     /\ \A i \in 1 .. Len(ccs2mcp) : From(pMsgBuff.req, ccs2mcp[i])
  /\ mpc \in {"init", "publish"} => \A f \in Out : f.req < pMsgBuff.req
  /\ mpc = "forward" => \A f \in Out, a \in todo :
       f.req = pMsgBuff.req /\ IsCopy(f) => f.conn # a.conn

(* A head that is worked on in place is what MCP works on.                 *)
HeadInHand == inPlace => mpc # "idle" /\ ccs2mcp # <<>> /\ ccs2mcp[1] = pMsgBuff

SetsRight == AddressesApart(todo) /\ \A t \in Topics : AddressesApart(g_mapTopicToAgent[t])

PipeInOrder ==
  \A i, j \in 1 .. Len(mcp2ccs) : i < j => Before(mcp2ccs[i], mcp2ccs[j])

(* The place of the first frame in mcp2ccs that CCS is not done with.      *)
Next2Deliver == IF cpc = "skip" THEN 2 ELSE 1

InboxThenPipe ==
  \A c \in Known : conns[c].life = ccsDeaths =>
    \A f \in Received(c), j \in Next2Deliver .. Len(mcp2ccs) :
      f.conn = c => Before(f, mcp2ccs[j])

Ordered ==
  /\ RingInOrder /\ OutBehind /\ HeadInHand /\ SetsRight
  /\ PipeInOrder /\ InboxThenPipe /\ InOrder

-----------------------------------------------------------------------------
(* A connection is in one place of CCS, and before it is in the table it   *)
(* has asked for nothing.                                                  *)
OnePlace ==
  /\ \A r, s \in Suffixes :
       m_pSocket[s] # FreeNode /\ m_pSocket[r].conn = m_pSocket[s].conn => r = s
  /\ \A k \in 1 .. Len(main2me), s \in Suffixes : main2me[k].conn # m_pSocket[s].conn
  /\ \A k, l \in 1 .. Len(main2me) : main2me[k].conn = main2me[l].conn => k = l
  /\ \A k \in 1 .. Len(main2me), p \in 1 .. Len(sent) : main2me[k].conn # sent[p].conn
  /\ \A p \in 1 .. Len(sent) : sent[p].conn \in Known

HasSent(c) == \E p \in 1 .. Len(sent) : sent[p].conn = c

(* Slot s and number e find connection c, if it is still there.            *)
Finds(c, s, e) ==
  /\ c \in Known /\ HasSent(c)
  /\ \A r \in Suffixes : m_pSocket[r].conn = c => r = s /\ m_pSocket[r].m_unID = e

FindingFrame == {f \in Frame : Finds(f.conn, f.m_iSuffix, f.echo)}
FindingAgent == {a \in EasyMQAgent : Finds(a.conn, a.m_iSuffix, a.echo)}

Found == OnePlace /\ Within(FindingFrame, FindingAgent)

(* Of the connections of an address only the last may be open, and their   *)
(* requests were read in their order.                                      *)
LastOpen ==
  /\ \A c, d \in Known : c < d /\ conns[c].addr = conns[d].addr => ~conns[c].open
  /\ \A p, q \in 1 .. Len(sent) :
       p < q /\ conns[sent[p].conn].addr = conns[sent[q].conn].addr
         => sent[p].conn <= sent[q].conn

(* The subscribers of t have the address of c, from c or from before c.    *)
Registered(t, c) ==
  \E a \in g_mapTopicToAgent[t] : a.addr = conns[c].addr /\ a.conn <= c

(* While MCP lives it remembers whom it told that it had subscribed, and   *)
(* every subscriber from a request before those that are to be answered.   *)
Remembered ==
  mcpDeaths = 0 =>
    /\ mpc = "init" => Registered(pMsgBuff.topic, pMsgBuff.conn)
    /\ \A f \in Out : f.type = "init_rsp" => Registered(f.topic, f.conn)
    /\ \A t \in Topics : \A a \in g_mapTopicToAgent[t] : \E p \in 1 .. Len(sent) :
         /\ sent[p].conn = a.conn
         /\ \A i \in 1 .. Len(ccs2mcp) : ccs2mcp[i].type \in ReqTypes => p < ccs2mcp[i].req

(* Subscriber c has been served with request q as far as the broker can.   *)
Served(q, c) ==
  \/ ~Connected(c)
  \/ Got(q, c)
  \/ OnItsWay(q, c)
  \/ [req |-> q, conn |-> c] \in dropped
  \/ AddressReused(c)

Waiting(q) == \E i \in 1 .. Len(ccs2mcp) : ccs2mcp[i].req = q /\ ccs2mcp[i].type \in ReqTypes

InHand(q, c) ==
  mpc \in {"publish", "forward"} /\ pMsgBuff.req = q /\ \E a \in todo : a.conn = c

Serving ==
  /\ \A q \in 1 .. Len(sent) : \A c \in sent[q].to :
       c \in Known /\ HasSent(c) /\ Subscribed(c, sent[q].topic)
  /\ cpc = "skip" => LET f == Head(mcp2ccs) IN ~Connected(f.conn) \/ f \in Received(f.conn)
  /\ mcpDeaths = 0 =>
       \A q \in 1 .. Len(sent) : sent[q].type = "publish" =>
         \A c \in sent[q].to : Waiting(q) \/ InHand(q, c) \/ Served(q, c)

-----------------------------------------------------------------------------
(* The first element of a sequence is replaced; it is taken off.           *)
LEMMA HeadReplaced ==
  ASSUME NEW S, NEW q \in Seq(S), q # <<>>, NEW f \in S
  PROVE  /\ <<f>> \o Tail(q) \in Seq(S) /\ Len(<<f>> \o Tail(q)) = Len(q)
         /\ (<<f>> \o Tail(q))[1] = f
         /\ \A i \in 2 .. Len(q) : (<<f>> \o Tail(q))[i] = q[i]
<1>1. /\ Tail(q) \in Seq(S) /\ Len(Tail(q)) = Len(q) - 1 /\ Len(q) \in Nat
      /\ \A i \in 1 .. Len(Tail(q)) : Tail(q)[i] = q[i + 1]
  BY HeadTailProperties, LenProperties
<1>2. <<f>> \in Seq(S) /\ Len(<<f>>) = 1 /\ <<f>>[1] = f
  OBVIOUS
<1> DEFINE u == <<f>>
           v == Tail(q)
<1> HIDE DEF u, v
<1>3. /\ u \o v \in Seq(S) /\ Len(u \o v) = Len(u) + Len(v)
      /\ \A i \in 1 .. Len(u) + Len(v) :
           (u \o v)[i] = IF i <= Len(u) THEN u[i] ELSE v[i - Len(u)]
  BY <1>1, <1>2, ConcatProperties DEF u, v
<1>4. Len(u \o v) = Len(q) /\ Len(u) = 1 /\ u[1] = f /\ Len(v) = Len(q) - 1
  BY <1>1, <1>2, <1>3 DEF u, v
<1>5. Len(q) >= 1
  BY <1>1, EmptySeq
<1>6. (u \o v)[1] = f
  BY <1>1, <1>3, <1>4, <1>5
<1>7. ASSUME NEW i \in 2 .. Len(q) PROVE (u \o v)[i] = q[i]
  <2>1. (u \o v)[i] = v[i - 1] /\ i - 1 \in 1 .. Len(v)
    BY <1>1, <1>3, <1>4
  <2>2. v[i - 1] = q[(i - 1) + 1]
    BY <1>1, <2>1 DEF v
  <2>3. (i - 1) + 1 = i
    OBVIOUS
  <2> QED BY <2>1, <2>2, <2>3
<1> QED BY <1>3, <1>4, <1>6, <1>7 DEF u, v

LEMMA HeadTakenOff ==
  ASSUME NEW S, NEW q \in Seq(S), q # <<>>
  PROVE  /\ Tail(q) \in Seq(S) /\ Len(Tail(q)) = Len(q) - 1 /\ Len(q) \in Nat \ {0}
         /\ Head(q) = q[1] /\ Head(q) \in S
         /\ \A i \in 1 .. Len(Tail(q)) : Tail(q)[i] = q[i + 1] /\ i + 1 \in 1 .. Len(q)
<1>1. /\ Tail(q) \in Seq(S) /\ Len(Tail(q)) = Len(q) - 1 /\ Len(q) \in Nat \ {0}
      /\ Head(q) \in S /\ \A i \in 1 .. Len(Tail(q)) : Tail(q)[i] = q[i + 1]
  BY HeadTailProperties, EmptySeq
<1>2. Head(q) = q[1]
  OBVIOUS
<1>3. \A i \in 1 .. Len(Tail(q)) : i + 1 \in 1 .. Len(q)
  BY <1>1
<1> QED BY <1>1, <1>2, <1>3

-----------------------------------------------------------------------------
(* What no step takes back.                                                *)
Grown ==
  /\ Known \subseteq Known'
  /\ \A c \in Known : /\ conns'[c].addr = conns[c].addr
                      /\ conns'[c].life = conns[c].life
                      /\ conns'[c].open => conns[c].open
  /\ Len(sent) \in Nat /\ Len(sent') \in Nat /\ Len(sent) <= Len(sent')
  /\ \A p \in 1 .. Len(sent) : sent'[p] = sent[p]

(* What a step of CCS does to connections, pipes and inboxes.              *)
Requested ==
  \E s \in Suffixes, type \in Requests, t \in Topics :
    /\ m_pSocket[s] # FreeNode /\ conns[m_pSocket[s].conn].open /\ Len(sent) < MaxReqs
    /\ ccs2mcp' = Append(ccs2mcp, FillMQHead(s, type, t))
    /\ sent' = Append(sent, [conn |-> m_pSocket[s].conn, type |-> type,
                             topic |-> t, to |-> Addressees(type, t)])
    /\ UNCHANGED <<m_pSocket, conns, mcp2ccs, m_unID, main2me, cpc, inbox, ccsDeaths>>

(* The head of mcp2ccs goes to connection c.                               *)
DeliveredTo(c) ==
  /\ cpc = "idle" /\ mcp2ccs # <<>>
  /\ FindsNode(Head(mcp2ccs)) /\ m_pSocket[Head(mcp2ccs).m_iSuffix].conn = c
  /\ inbox'[c] = Append(inbox[c], Head(mcp2ccs))
  /\ \A d \in Known \ {c} : inbox'[d] = inbox[d]
  /\ UNCHANGED <<conns, m_pSocket>>

CcsMoves ==
  /\ Requested \/ UNCHANGED <<ccs2mcp, sent>>
  /\ mcp2ccs' = mcp2ccs \/ (mcp2ccs # <<>> /\ mcp2ccs' = Tail(mcp2ccs))
  /\ (\A c \in Known : inbox'[c] = inbox[c]) \/ (\E c \in Known : DeliveredTo(c))
  /\ \A c \in Known' \ Known : inbox'[c] = <<>>
  /\ Known' = Known \/ \E a \in Clients, s \in Suffixes : Accept(a, s)
  /\ Grown

LEMMA NothingClosed ==
  ASSUME Typed, UNCHANGED <<conns, sent>>
  PROVE  Grown
<1>1. Len(sent) \in Nat
  BY LenProperties DEF Typed, TypeOK, CcsTypeOK
<1> QED BY <1>1 DEF Grown, Known

LEMMA OneClosed ==
  ASSUME Typed, NEW c \in Known, conns' = [conns EXCEPT ![c].open = FALSE], sent' = sent
  PROVE  Grown /\ Known' = Known
<1>1. /\ Len(conns') = Len(conns) /\ Known' = Known
      /\ \A d \in Known : conns'[d].life = conns[d].life
  BY ConnClosed DEF Known
<1>2. /\ conns \in Seq([addr : Clients, open : BOOLEAN, life : 0 .. MaxCcsDeaths])
      /\ DOMAIN conns = Known /\ Len(sent) \in Nat
  BY LenProperties DEF Typed, TypeOK, CcsTypeOK, Known
<1>3. /\ \A d \in Known \ {c} : conns'[d] = conns[d]
      /\ conns'[c] = [conns[c] EXCEPT !.open = FALSE]
  BY <1>2
<1>4. conns[c] \in [addr : Clients, open : BOOLEAN, life : 0 .. MaxCcsDeaths]
  BY ConnsTyped DEF Known
<1>5. conns'[c].addr = conns[c].addr /\ conns'[c].open = FALSE
  BY <1>3, <1>4
<1>6. \A d \in Known : conns'[d].addr = conns[d].addr /\ (conns'[d].open => conns[d].open)
  BY <1>3, <1>5
<1> QED BY <1>1, <1>2, <1>6 DEF Grown

LEMMA CcsMovesStep == ASSUME Typed, CcsNext PROVE CcsMoves
<1> DEFINE R == [addr : Clients, open : BOOLEAN, life : 0 .. MaxCcsDeaths]
           Q == [conn : Conns, type : ReqTypes, topic : Topics, to : SUBSET Conns]
<1>0. /\ conns \in Seq(R) /\ sent \in Seq(Q) /\ inbox \in Seq(Seq(Frame))
      /\ Len(inbox) = Len(conns) /\ mcp2ccs \in Seq(Frame)
      /\ Len(sent) \in Nat /\ Len(conns) \in Nat
  BY LenProperties DEF Typed, TypeOK, CcsTypeOK
<1>a. ASSUME Grown, Known' = Known, UNCHANGED <<ccs2mcp, mcp2ccs, inbox, sent>>
      PROVE  CcsMoves
  BY <1>a DEF CcsMoves
<1>b. ASSUME NEW s \in Suffixes, m_pSocket[s] # FreeNode, ClearSocketNode(s), sent' = sent
      PROVE  Grown /\ Known' = Known
  <2>1. m_pSocket[s].conn \in Known
    BY <1>b, ConnsTyped DEF Known
  <2> QED BY <1>b, <2>1, OneClosed DEF ClearSocketNode
<1>1. ASSUME NEW a \in Clients, NEW s \in Suffixes, Accept(a, s) PROVE CcsMoves
  <2> DEFINE r == [addr |-> a, open |-> TRUE, life |-> ccsDeaths]
  <2>1. r \in R
    BY DEF Typed, TypeOK, CcsTypeOK
  <2>2. /\ conns' = Append(conns, r) /\ inbox' = Append(inbox, <<>>)
        /\ UNCHANGED <<ccs2mcp, mcp2ccs, sent>>
    BY <1>1 DEF Accept
  <2> HIDE DEF r, R
  <2>3. /\ Len(conns') = Len(conns) + 1 /\ \A c \in 1 .. Len(conns) : conns'[c] = conns[c]
    BY <1>0, <2>1, <2>2, AppendProperties
  <2>4. inbox'[Len(conns) + 1] = <<>> /\ \A c \in 1 .. Len(conns) : inbox'[c] = inbox[c]
    <3>1. <<>> \in Seq(Frame)
      OBVIOUS
    <3> QED BY <1>0, <2>2, <3>1, AppendProperties
  <2>5. Known' = Known \cup {Len(conns) + 1}
    BY <1>0, <2>3 DEF Known
  <2>6. Grown
    BY <1>0, <2>2, <2>3, <2>5 DEF Grown, Known
  <2> QED BY <1>1, <2>2, <2>4, <2>5, <2>6 DEF CcsMoves, Known
<1>2. ASSUME NEW c \in 1 .. Len(conns), ClientCloses(c) PROVE CcsMoves
  BY <1>2, <1>a, OneClosed DEF ClientCloses, Known
<1>3. ASSUME NEW s \in Suffixes, NEW type \in Requests, NEW t \in Topics,
             RecvClientData(s, type, t)
      PROVE  CcsMoves
  <2>1. CASE /\ ccs2mcp' = Append(ccs2mcp, FillMQHead(s, type, t))
             /\ sent' = Append(sent, [conn |-> m_pSocket[s].conn, type |-> type,
                                      topic |-> t, to |-> Addressees(type, t)])
             /\ UNCHANGED <<m_pSocket, conns>>
    <3>1. Requested
      BY <1>3, <2>1 DEF RecvClientData, Requested
    <3>2. Grown
      <4> DEFINE q == [conn |-> m_pSocket[s].conn, type |-> type,
                       topic |-> t, to |-> Addressees(type, t)]
      <4>1. m_pSocket[s].conn \in Conns
        BY <1>3, ConnsTyped DEF RecvClientData
      <4>2. Addressees(type, t) \subseteq Conns
        BY ConnsTyped DEF Addressees, SubscribersOf
      <4>3. q \in Q
        <5>1. type \in ReqTypes
          BY PipesAssumption DEF ReqTypes
        <5> QED BY <4>1, <4>2, <5>1
      <4>4. sent' = Append(sent, q)
        BY <2>1
      <4> HIDE DEF q, Q
      <4>5. Len(sent') = Len(sent) + 1 /\ \A p \in 1 .. Len(sent) : sent'[p] = sent[p]
        BY <1>0, <4>3, <4>4, AppendProperties
      <4> QED BY <1>0, <2>1, <4>5 DEF Grown, Known
    <3>3. UNCHANGED <<mcp2ccs, inbox>> /\ Known' = Known
      BY <1>3, <2>1 DEF RecvClientData, Known
    <3> QED BY <3>1, <3>2, <3>3 DEF CcsMoves
  <2>2. CASE ClearSocketNode(s) /\ UNCHANGED <<ccs2mcp, sent>>
    BY <1>3, <1>a, <1>b, <2>2 DEF RecvClientData
  <2> QED BY <1>3, <2>1, <2>2 DEF RecvClientData
<1>4. CASE CreateSocketNode
  <2>1. Head(main2me).conn \in Known
    <3> DEFINE M == [conn : Conns, m_iSuffix : Suffixes]
    <3>1. main2me \in Seq(M) /\ main2me # <<>>
      BY <1>4 DEF CreateSocketNode, Typed, TypeOK, CcsTypeOK
    <3>2. /\ Head(main2me) = main2me[1] /\ 1 \in 1 .. Len(main2me)
          /\ Head(main2me) \in M
      <4> HIDE DEF M
      <4> QED BY <3>1, HeadTakenOff
    <3>3. Head(main2me).conn \in Conns
      BY <3>2
    <3> QED BY <3>2, <3>3, <1>0 DEF Typed, Known, Conns
  <2>2. Grown /\ Known' = Known
    BY <1>4, <2>1, OneClosed, NothingClosed DEF CreateSocketNode, Known
  <2> QED BY <1>4, <1>a, <2>2 DEF CreateSocketNode
<1>5. ASSUME NEW s \in Suffixes, RecvClientClosed(s) PROVE CcsMoves
  BY <1>5, <1>a, <1>b DEF RecvClientClosed
<1>6. CASE CheckSvrMessage
  <2> DEFINE f == Head(mcp2ccs)
             c == m_pSocket[f.m_iSuffix].conn
  <2>1. /\ mcp2ccs # <<>> /\ cpc = "idle" /\ DoSvrMessage(f)
        /\ mcp2ccs' = mcp2ccs \/ mcp2ccs' = Tail(mcp2ccs)
        /\ UNCHANGED <<ccs2mcp, sent>>
    BY <1>6 DEF CheckSvrMessage
  <2>2. f \in Frame /\ f.m_iSuffix \in Suffixes
    <3>1. f \in Frame
      BY <1>0, <2>1, HeadTakenOff
    <3> QED BY <3>1 DEF Frame
  <2> HIDE DEF f
  <2>3. CASE FindsNode(f) /\ inbox' = [inbox EXCEPT ![c] = Append(inbox[c], f)]
             /\ UNCHANGED <<m_pSocket, conns>>
    <3>1. c \in 1 .. Len(conns)
      BY <2>2, <2>3, ConnsTyped DEF FindsNode
    <3> HIDE DEF c
    <3>2. inbox'[c] = Append(inbox[c], f) /\ \A d \in Known \ {c} : inbox'[d] = inbox[d]
      BY <2>2, <2>3, <3>1, InboxFilled DEF Known
    <3>3. DeliveredTo(c)
      BY <2>1, <2>3, <3>2 DEF DeliveredTo, f, c
    <3>4. Grown /\ Known' = Known
      BY <2>1, <2>3, NothingClosed DEF Known
    <3> QED BY <2>1, <3>1, <3>3, <3>4 DEF CcsMoves, Known
  <2>4. CASE FindsNode(f) /\ ClearSocketNode(f.m_iSuffix) /\ UNCHANGED inbox
    <3>1. Grown /\ Known' = Known
      BY <1>b, <2>1, <2>2, <2>4 DEF FindsNode
    <3> QED BY <2>1, <2>4, <3>1 DEF CcsMoves
  <2>5. CASE UNCHANGED <<m_pSocket, conns, inbox>>
    <3>1. Grown /\ Known' = Known
      BY <2>1, <2>5, NothingClosed DEF Known
    <3> QED BY <2>1, <2>5, <3>1 DEF CcsMoves
  <2> QED BY <2>1, <2>3, <2>4, <2>5 DEF DoSvrMessage
<1>7. CASE SkipSvrMessage
  <2>1. mcp2ccs # <<>> /\ mcp2ccs' = Tail(mcp2ccs) /\ UNCHANGED <<ccs2mcp, conns, inbox, sent>>
    BY <1>7 DEF SkipSvrMessage, Typed
  <2>2. Grown /\ Known' = Known
    BY <2>1, NothingClosed DEF Known
  <2> QED BY <2>1, <2>2 DEF CcsMoves
<1>8. CASE CcsRestart
  <2>1. /\ conns' = [c \in DOMAIN conns |-> [conns[c] EXCEPT !.open = FALSE]]
        /\ UNCHANGED <<ccs2mcp, mcp2ccs, inbox, sent>>
    BY <1>8 DEF CcsRestart
  <2>2. DOMAIN conns = Known
    BY <1>0, LenProperties DEF Known
  <2>3. \A c \in Known : conns[c] \in R
    BY ConnsTyped DEF Known
  <2>4. Len(conns') = Len(conns)
    BY <1>0, <2>1, <2>2 DEF Known
  <2>5. Known' = Known
    BY <2>4 DEF Known
  <2>6. \A c \in Known : /\ conns'[c].addr = conns[c].addr
                         /\ conns'[c].life = conns[c].life
                         /\ conns'[c].open = FALSE
    BY <2>1, <2>2, <2>3
  <2>7. Grown
    BY <1>0, <2>1, <2>5, <2>6 DEF Grown
  <2> QED BY <1>a, <2>1, <2>5, <2>7
<1> QED BY <1>1, <1>2, <1>3, <1>4, <1>5, <1>6, <1>7, <1>8 DEF CcsNext, CcsWork


(* A request of connection c, in slot s, becomes frame f.                  *)
RequestMade(s, c, f) ==
  /\ m_pSocket[s] # FreeNode /\ m_pSocket[s].conn = c /\ conns[c].open
  /\ f.req = Len(sent) + 1 /\ f.conn = c /\ f.m_iSuffix = s /\ f.echo = m_pSocket[s].m_unID
  /\ f.type \in ReqTypes /\ f.msgLen = "whole" /\ f.addr = conns[c].addr
  /\ ccs2mcp' = Append(ccs2mcp, f)
  /\ Len(sent') = Len(sent) + 1
  /\ \A p \in 1 .. Len(sent) : sent'[p] = sent[p]
  /\ sent'[Len(sent) + 1] = [conn |-> c, type |-> f.type, topic |-> f.topic,
                             to |-> Addressees(f.type, f.topic)]
  /\ UNCHANGED <<m_pSocket, conns, mcp2ccs, m_unID, main2me, cpc, inbox, ccsDeaths>>

LEMMA RequestedMakes ==
  ASSUME Typed, Requested
  PROVE  \E s \in Suffixes, c \in Known, f \in Frame : RequestMade(s, c, f)
<1> DEFINE Q == [conn : Conns, type : ReqTypes, topic : Topics, to : SUBSET Conns]
<1>1. PICK s \in Suffixes, type \in Requests, t \in Topics :
        /\ m_pSocket[s] # FreeNode /\ conns[m_pSocket[s].conn].open /\ Len(sent) < MaxReqs
        /\ ccs2mcp' = Append(ccs2mcp, FillMQHead(s, type, t))
        /\ sent' = Append(sent, [conn |-> m_pSocket[s].conn, type |-> type,
                                 topic |-> t, to |-> Addressees(type, t)])
        /\ UNCHANGED <<m_pSocket, conns, mcp2ccs, m_unID, main2me, cpc, inbox, ccsDeaths>>
  BY DEF Requested
<1> DEFINE c == m_pSocket[s].conn
           f == FillMQHead(s, type, t)
           q == [conn |-> c, type |-> type, topic |-> t, to |-> Addressees(type, t)]
<1>2. c \in Known /\ c \in Conns
  BY <1>1, ConnsTyped DEF Known
<1>3. f \in Frame
  BY <1>1, FillMQHeadTyped
<1>4. /\ f.req = Len(sent) + 1 /\ f.conn = c /\ f.m_iSuffix = s /\ f.echo = m_pSocket[s].m_unID
      /\ f.type = type /\ f.topic = t /\ f.msgLen = "whole" /\ f.addr = conns[c].addr
  BY DEF FillMQHead
<1>5. type \in ReqTypes
  BY PipesAssumption DEF ReqTypes
<1>6. q \in Q
  <2>1. Addressees(type, t) \subseteq Conns
    BY ConnsTyped DEF Addressees, SubscribersOf
  <2> QED BY <1>2, <1>5, <2>1
<1>7. sent \in Seq(Q)
  BY DEF Typed, TypeOK, CcsTypeOK
<1>8. sent' = Append(sent, q)
  BY <1>1
<1>9. q = [conn |-> c, type |-> f.type, topic |-> f.topic, to |-> Addressees(f.type, f.topic)]
  BY <1>4
<1> HIDE DEF q, Q, f, c
<1>10. /\ Len(sent') = Len(sent) + 1 /\ sent'[Len(sent) + 1] = q
       /\ \A p \in 1 .. Len(sent) : sent'[p] = sent[p]
  BY <1>6, <1>7, <1>8, AppendProperties
<1>11. RequestMade(s, c, f)
  BY <1>1, <1>4, <1>5, <1>9, <1>10 DEF RequestMade, c, f
<1> QED BY <1>2, <1>3, <1>11

-----------------------------------------------------------------------------
(* Only what was asked.                                                    *)
LEMMA AskingSetsGrow ==
  ASSUME Grown
  PROVE  /\ RequestFrame \subseteq RequestFrame' /\ ReplyFrame \subseteq ReplyFrame'
         /\ \A t : Subscribers(t) \subseteq Subscribers(t)'
         /\ \A c, t : Asked(c, t) => Asked(c, t)'
<1>1. \A p \in 1 .. Len(sent) : p \in 1 .. Len(sent') /\ sent'[p] = sent[p]
  BY DEF Grown
<1>2. \A c, t : Asked(c, t) => Asked(c, t)'
  BY <1>1 DEF Asked
<1>3. RequestFrame \subseteq RequestFrame'
  <2> SUFFICES ASSUME NEW f \in Frame, f.conn \in Known, RequestOf(f)
               PROVE  f.conn \in Known' /\ RequestOf(f)'
    BY DEF RequestFrame
  <2> QED BY <1>1 DEF RequestOf, Grown
<1>4. ReplyFrame \subseteq ReplyFrame'
  <2> SUFFICES ASSUME NEW f \in Frame, f.conn \in Known, ReplyOf(f)
               PROVE  f.conn \in Known' /\ ReplyOf(f)'
    BY DEF ReplyFrame
  <2> QED BY <1>1, <1>2 DEF ReplyOf, Grown
<1>5. \A t : Subscribers(t) \subseteq Subscribers(t)'
  <2> SUFFICES ASSUME NEW t, NEW a \in EasyMQAgent, a.conn \in Known, SubscriberOf(t, a)
               PROVE  a.conn \in Known' /\ SubscriberOf(t, a)'
    BY DEF Subscribers
  <2> QED BY <1>2 DEF SubscriberOf, Grown
<1> QED BY <1>2, <1>3, <1>4, <1>5

LEMMA AskingInit == ASSUME Init PROVE Asking
BY DEF Init, CcsInit, McpInit, Asking, Known, WorkRight

LEMMA CcsAsking == ASSUME Typed, Asking, CcsNext, UNCHANGED mcpVars PROVE Asking'
<1>0. CcsMoves /\ Grown
  BY CcsMovesStep DEF CcsMoves
<1>1. /\ RequestFrame \subseteq RequestFrame' /\ ReplyFrame \subseteq ReplyFrame'
      /\ \A t : Subscribers(t) \subseteq Subscribers(t)'
  BY <1>0, AskingSetsGrow
<1>2. /\ ccs2mcp \in Seq(RequestFrame') /\ mcp2ccs \in Seq(ReplyFrame')
      /\ \A c \in Known : inbox[c] \in Seq(ReplyFrame')
  BY <1>1, SeqMonotonic DEF Asking
<1>3. ccs2mcp' \in Seq(RequestFrame')
  <2>1. CASE Requested
    <3>1. PICK s \in Suffixes, c \in Known, f \in Frame : RequestMade(s, c, f)
      BY <2>1, RequestedMakes
    <3>2. f \in RequestFrame'
      <4>1. Len(sent) \in Nat
        BY <1>0 DEF Grown
      <4>2. f.conn \in Known' /\ f.req \in 1 .. Len(sent') /\ conns' = conns
        BY <1>0, <3>1, <4>1 DEF RequestMade, Grown
      <4>3. /\ sent'[f.req].conn = f.conn /\ sent'[f.req].type = f.type
            /\ sent'[f.req].topic = f.topic
        BY <3>1 DEF RequestMade
      <4>4. f.msgLen = "whole" /\ f.addr = conns[f.conn].addr
        BY <3>1 DEF RequestMade
      <4> QED BY <4>2, <4>3, <4>4 DEF RequestFrame, RequestOf
    <3> QED BY <1>2, <3>1, <3>2, AppendProperties DEF RequestMade
  <2>2. CASE UNCHANGED <<ccs2mcp, sent>>
    BY <1>2, <2>2
  <2> QED BY <1>0, <2>1, <2>2 DEF CcsMoves
<1>4. mcp2ccs' \in Seq(ReplyFrame')
  <2>1. mcp2ccs # <<>> => Tail(mcp2ccs) \in Seq(ReplyFrame')
    BY <1>2, HeadTakenOff
  <2> QED BY <1>0, <1>2, <2>1 DEF CcsMoves
<1>5. ASSUME NEW c \in Known' PROVE inbox'[c] \in Seq(ReplyFrame')
  <2>1. CASE c \notin Known
    <3>1. inbox'[c] = <<>>
      BY <1>0, <1>5, <2>1 DEF CcsMoves
    <3> QED BY <3>1, EmptySeq
  <2>2. CASE c \in Known /\ inbox'[c] = inbox[c]
    BY <1>2, <2>2
  <2>3. CASE c \in Known /\ DeliveredTo(c)
    <3>1. mcp2ccs # <<>> /\ inbox'[c] = Append(inbox[c], Head(mcp2ccs))
      BY <2>3 DEF DeliveredTo
    <3>2. Head(mcp2ccs) \in ReplyFrame'
      BY <1>2, <3>1, HeadTakenOff
    <3> QED BY <1>2, <2>3, <3>1, <3>2, AppendProperties
  <2>4. c \in Known => inbox'[c] = inbox[c] \/ DeliveredTo(c)
    BY <1>0 DEF CcsMoves, DeliveredTo
  <2> QED BY <2>1, <2>2, <2>3, <2>4
<1>6. \A t \in Topics : g_mapTopicToAgent'[t] \subseteq Subscribers(t)'
  BY <1>1 DEF Asking, mcpVars
<1>7. WorkRight'
  <2>1. UNCHANGED <<mpc, pMsgBuff, todo>>
    BY DEF mcpVars
  <2>2. mpc # "idle" => pMsgBuff \in RequestFrame /\ sent'[pMsgBuff.req] = sent[pMsgBuff.req]
    BY <1>0 DEF Asking, WorkRight, RequestFrame, RequestOf, Grown
  <2> QED BY <1>1, <2>1, <2>2 DEF Asking, WorkRight
<1> QED BY <1>3, <1>4, <1>5, <1>6, <1>7 DEF Asking


(* Answering a frame changes its type, and then it is no request.          *)
LEMMA AnsweredIs ==
  ASSUME NEW f \in Frame
  PROVE  /\ Answered(f) \in Frame /\ Answered(f).type \in RspTypes
         /\ Answered(f).conn = f.conn /\ Answered(f).req = f.req
         /\ Answered(f).addr = f.addr /\ Answered(f).topic = f.topic
         /\ Answered(f).msgLen = f.msgLen
         /\ f.type = "init" => Answered(f).type = "init_rsp"
         /\ f.type = "publish" => Answered(f).type = "publish_rsp"
         /\ f.type \in RspTypes => Answered(f) = f
<1>1. \A t \in RspTypes :
        LET g == [f EXCEPT !.type = t] IN
          /\ g \in Frame /\ g.type = t /\ g.conn = f.conn /\ g.req = f.req
          /\ g.addr = f.addr /\ g.topic = f.topic /\ g.msgLen = f.msgLen
  BY DEF Frame
<1>2. f.type \in ReqTypes \cup RspTypes
  BY DEF Frame
<1>3. CASE f.type = "init"
  <2>1. Answered(f) = [f EXCEPT !.type = "init_rsp"]
    BY <1>3 DEF Answered
  <2> QED BY <1>1, <1>3, <2>1 DEF RspTypes
<1>4. CASE f.type = "publish"
  <2>1. Answered(f) = [f EXCEPT !.type = "publish_rsp"]
    BY <1>4 DEF Answered
  <2> QED BY <1>1, <1>4, <2>1 DEF RspTypes
<1>5. CASE f.type = "echo"
  <2>1. Answered(f) = [f EXCEPT !.type = "echo_rsp"]
    BY <1>5 DEF Answered
  <2> QED BY <1>1, <1>5, <2>1 DEF RspTypes
<1>6. CASE f.type \in RspTypes
  <2>1. Answered(f) = f
    BY <1>6 DEF Answered, RspTypes
  <2> QED BY <1>6, <2>1 DEF RspTypes
<1> QED BY <1>2, <1>3, <1>4, <1>5, <1>6 DEF ReqTypes

(* What Forward makes of the frame for one subscriber.                     *)
CopyFor(f, a) == [f EXCEPT !.m_iSuffix = a.m_iSuffix, !.echo = a.echo, !.conn = a.conn]

LEMMA CopyIs ==
  ASSUME NEW f \in Frame, NEW a \in EasyMQAgent
  PROVE  /\ CopyFor(f, a) \in Frame /\ CopyFor(f, a).conn = a.conn
         /\ CopyFor(f, a).req = f.req /\ CopyFor(f, a).type = f.type
         /\ CopyFor(f, a).topic = f.topic /\ CopyFor(f, a).msgLen = f.msgLen
         /\ CopyFor(f, a).m_iSuffix = a.m_iSuffix /\ CopyFor(f, a).echo = a.echo
BY DEF CopyFor, Frame, EasyMQAgent

LEMMA AnswerIs ==
  ASSUME NEW f \in Frame, NEW l \in LenField
  PROVE  LET g == [f EXCEPT !.msgLen = l] IN
           /\ g \in Frame /\ g.conn = f.conn /\ g.req = f.req /\ g.type = f.type
           /\ g.topic = f.topic /\ g.msgLen = l
BY DEF Frame

(* What a step of MCP sends, if it sends anything: it is put at the end of *)
(* mcp2ccs, or refused and forgotten.                                      *)
Sends(f) ==
  \/ mcp2ccs' = Append(mcp2ccs, f) /\ dropped' = dropped
  \/ mcp2ccs' = mcp2ccs /\ dropped' = dropped \cup {[req |-> f.req, conn |-> f.conn]}

LEMMA SendRspSends == ASSUME NEW f, SendRsp(f) PROVE Sends(f)
BY DEF SendRsp, Sends

LEMMA McpAsking == ASSUME Typed, Asking, McpNext, UNCHANGED ccsVars PROVE Asking'
<1>0. UNCHANGED <<conns, inbox, sent>>
  BY DEF ccsVars
<1>1. /\ RequestFrame' = RequestFrame /\ ReplyFrame' = ReplyFrame
      /\ \A t : Subscribers(t)' = Subscribers(t)
  BY <1>0 DEF RequestFrame, RequestOf, ReplyFrame, ReplyOf, Subscribers, SubscriberOf, Asked, Known
<1>2. PICK F : F = RequestFrame
  OBVIOUS
<1>3. PICK G : G = ReplyFrame
  OBVIOUS
<1>a. ASSUME ccs2mcp' \in Seq(F), mcp2ccs' \in Seq(G), WorkRight',
             \A t \in Topics : g_mapTopicToAgent'[t] \subseteq Subscribers(t)
      PROVE  Asking'
  BY <1>0, <1>1, <1>2, <1>3, <1>a DEF Asking, Known
<1>b. /\ ccs2mcp \in Seq(F) /\ mcp2ccs \in Seq(G)
      /\ \A t \in Topics : g_mapTopicToAgent[t] \subseteq Subscribers(t)
      /\ inPlace => ccs2mcp # <<>>
      /\ g_mapTopicToAgent \in [Topics -> SUBSET EasyMQAgent]
  BY <1>2, <1>3 DEF Asking, Typed, Within
<1>c. \A f : f \in F <=> f \in Frame /\ f.conn \in Known /\ RequestOf(f)
  BY <1>2 DEF RequestFrame
<1>d. ASSUME NEW f \in G, Sends(f) PROVE mcp2ccs' \in Seq(G)
  <2>1. Append(mcp2ccs, f) \in Seq(G)
    BY <1>b, <1>d, AppendProperties
  <2> QED BY <1>b, <1>d, <2>1 DEF Sends
<1>e. ASSUME NEW f \in F, Rewrite(f)
      PROVE  ccs2mcp' \in Seq(F) /\ pMsgBuff' = f
  BY <1>b, <1>e, RewriteWithin
<1>f. \A f : f \in RequestFrame' <=> f \in F
  BY <1>1, <1>2
<1>4. CASE OnReqMessage
  <2> DEFINE f == Head(ccs2mcp)
             g == Answered(f)
             a == [addr |-> f.addr, m_iSuffix |-> f.m_iSuffix,
                   echo |-> f.echo, conn |-> f.conn]
  <2>1. ccs2mcp # <<>> /\ pMsgBuff' = g /\ mpc' \in {"init", "publish", "done"}
    BY <1>4 DEF OnReqMessage
  <2>2. f \in F /\ Tail(ccs2mcp) \in Seq(F)
    BY <1>b, <2>1, HeadTakenOff
  <2>3. f \in Frame /\ f.conn \in Known /\ RequestOf(f)
    BY <1>c, <2>2
  <2>4. g \in F /\ g.type \in RspTypes
    <3>1. g.type \notin ReqTypes
      BY <2>3, AnsweredIs DEF ReqTypes, RspTypes
    <3> QED BY <1>c, <2>3, <3>1, AnsweredIs DEF RequestOf
  <2>5. ccs2mcp' \in Seq(F)
    <3>1. <<g>> \o Tail(ccs2mcp) \in Seq(F)
      BY <1>b, <2>1, <2>4, HeadReplaced
    <3> QED BY <1>4, <2>2, <3>1 DEF OnReqMessage
  <2>6. mcp2ccs' = mcp2ccs
    BY <1>4 DEF OnReqMessage
  <2>7. f.topic \in Topics /\ g.topic = f.topic /\ g.msgLen = f.msgLen
        /\ g.conn = f.conn /\ g.req = f.req
    BY <2>3, AnsweredIs DEF Frame
  <2>8. CASE f.type = "init" /\ initTopic(f.topic, a) /\ mpc' = "init" /\ UNCHANGED todo
    <3>1. sent[f.req].conn = f.conn /\ Asked(f.conn, f.topic) /\ f.addr = conns[f.conn].addr
      BY <2>3, <2>8 DEF RequestOf, Asked, ReqTypes
    <3>2. a \in Subscribers(f.topic)
      BY <2>3, <3>1 DEF Subscribers, SubscriberOf, Frame, EasyMQAgent
    <3> HIDE DEF a
    <3>3. \A t \in Topics : g_mapTopicToAgent'[t] \subseteq Subscribers(t)
      BY <1>b, <2>7, <2>8, <3>2 DEF initTopic
    <3>4. g.type = "init_rsp"
      BY <2>3, <2>8, AnsweredIs
    <3> HIDE DEF f, g
    <3>5. WorkRight'
      BY <1>0, <1>f, <2>1, <2>4, <2>7, <2>8, <3>1, <3>4 DEF WorkRight
    <3> QED BY <1>a, <1>b, <2>5, <2>6, <3>3, <3>5
  <2>9. CASE /\ f.type = "publish" /\ mpc' = "publish" /\ todo' = g_mapTopicToAgent[f.topic]
             /\ UNCHANGED g_mapTopicToAgent
    <3>1. sent[f.req].conn = f.conn /\ f.msgLen = "whole"
      BY <2>3, <2>9 DEF RequestOf, ReqTypes
    <3>2. g.type = "publish_rsp"
      BY <2>3, <2>9, AnsweredIs
    <3> HIDE DEF f, g
    <3>3. todo' \subseteq Subscribers(g.topic)
      BY <1>b, <2>7, <2>9
    <3>4. sent'[g.req].conn = g.conn /\ g.msgLen = "whole"
      BY <1>0, <2>7, <3>1
    <3>5. WorkRight'
      BY <1>1, <1>f, <2>1, <2>4, <2>9, <3>2, <3>3, <3>4 DEF WorkRight
    <3> QED BY <1>a, <1>b, <2>5, <2>6, <2>9, <3>5
  <2>10. CASE mpc' = "done" /\ UNCHANGED <<g_mapTopicToAgent, todo>>
    <3> HIDE DEF f, g
    <3>1. WorkRight'
      BY <1>f, <2>1, <2>4, <2>10 DEF WorkRight
    <3> QED BY <1>a, <1>b, <2>5, <2>6, <2>10, <3>1
  <2> QED BY <1>4, <2>8, <2>9, <2>10 DEF OnReqMessage
<1>5. CASE ReplyInitTopic
  <2> DEFINE f == [pMsgBuff EXCEPT !.msgLen = "swapped"]
  <2>1. /\ pMsgBuff \in Frame /\ pMsgBuff.conn \in Known /\ pMsgBuff.type = "init_rsp"
        /\ sent[pMsgBuff.req].conn = pMsgBuff.conn /\ RequestOf(pMsgBuff)
    BY <1>5 DEF ReplyInitTopic, Asking, WorkRight, RequestFrame
  <2>2. /\ f \in Frame /\ f.conn = pMsgBuff.conn /\ f.req = pMsgBuff.req
        /\ f.type = "init_rsp" /\ f.msgLen = "swapped"
    BY <2>1, AnswerIs DEF LenField
  <2>3. Rewrite(f) /\ SendRsp(f) /\ mpc' = "done" /\ UNCHANGED g_mapTopicToAgent
    BY <1>5 DEF ReplyInitTopic
  <2> HIDE DEF f
  <2>4. f \in F /\ f \in G
    BY <1>3, <1>c, <2>1, <2>2 DEF RequestOf, ReplyFrame, ReplyOf, IsCopy, ReqTypes
  <2>5. WorkRight'
    BY <1>e, <1>f, <2>2, <2>3, <2>4 DEF WorkRight, RspTypes
  <2> QED BY <1>a, <1>b, <1>d, <1>e, <2>3, <2>4, <2>5, SendRspSends
<1>6. CASE AckPublish
  <2> DEFINE f == [pMsgBuff EXCEPT !.msgLen = "beyond"]
  <2>1. /\ pMsgBuff \in Frame /\ pMsgBuff.conn \in Known /\ pMsgBuff.type = "publish_rsp"
        /\ sent[pMsgBuff.req].conn = pMsgBuff.conn /\ RequestOf(pMsgBuff)
    BY <1>6 DEF AckPublish, Asking, WorkRight, RequestFrame
  <2>2. /\ f \in Frame /\ f.conn = pMsgBuff.conn /\ f.req = pMsgBuff.req /\ f.msgLen = "beyond"
    BY <2>1, AnswerIs DEF LenField
  <2>3. /\ SendRsp(f) /\ mpc = "publish" /\ mpc' = "forward"
        /\ UNCHANGED <<ccs2mcp, g_mapTopicToAgent, pMsgBuff, todo>>
    BY <1>6 DEF AckPublish
  <2> HIDE DEF f
  <2>4. f \in G
    BY <1>3, <2>1, <2>2 DEF RequestOf, ReplyFrame, ReplyOf, IsCopy
  <2>5. WorkRight'
    BY <1>1, <2>3 DEF Asking, WorkRight
  <2> QED BY <1>a, <1>b, <1>d, <2>3, <2>4, <2>5, SendRspSends
<1>7. CASE Forward
  <2>1. PICK a \in todo : /\ Rewrite(CopyFor(pMsgBuff, a)) /\ SendRsp(CopyFor(pMsgBuff, a))
                          /\ todo' = todo \ {a}
    BY <1>7 DEF Forward, CopyFor
  <2>2. mpc = "forward" /\ mpc' = "forward" /\ UNCHANGED g_mapTopicToAgent
    BY <1>7 DEF Forward
  <2> DEFINE f == CopyFor(pMsgBuff, a)
  <2>3. /\ pMsgBuff \in Frame /\ pMsgBuff.type = "publish_rsp" /\ pMsgBuff.msgLen = "whole"
        /\ RequestOf(pMsgBuff) /\ todo \subseteq Subscribers(pMsgBuff.topic)
    BY <2>2 DEF Asking, WorkRight, RequestFrame
  <2>4. a \in EasyMQAgent /\ a.conn \in Known /\ Asked(a.conn, pMsgBuff.topic)
    BY <2>1, <2>3 DEF Subscribers, SubscriberOf
  <2>5. /\ f \in Frame /\ f.conn = a.conn /\ f.req = pMsgBuff.req /\ f.type = "publish_rsp"
        /\ f.topic = pMsgBuff.topic /\ f.msgLen = "whole"
    BY <2>3, <2>4, CopyIs
  <2>6. Rewrite(f) /\ SendRsp(f) /\ todo' = todo \ {a}
    BY <2>1
  <2> HIDE DEF f
  <2>7. f \in F /\ f \in G
    BY <1>3, <1>c, <2>3, <2>4, <2>5 DEF RequestOf, ReplyFrame, ReplyOf, IsCopy, ReqTypes
  <2>8. todo' \subseteq Subscribers(f.topic)
    BY <2>3, <2>5, <2>6
  <2>9. WorkRight'
    BY <1>1, <1>e, <1>f, <2>2, <2>5, <2>6, <2>7, <2>8 DEF WorkRight, RspTypes
  <2> QED BY <1>a, <1>b, <1>d, <1>e, <2>2, <2>6, <2>7, <2>9, SendRspSends
<1>8. CASE SkipRequest
  <2>1. inPlace => Tail(ccs2mcp) \in Seq(F)
    BY <1>b, HeadTakenOff
  <2>2. ccs2mcp' \in Seq(F) /\ mpc' = "idle" /\ UNCHANGED <<mcp2ccs, g_mapTopicToAgent>>
    BY <1>8, <1>b, <2>1 DEF SkipRequest
  <2> QED BY <1>a, <1>b, <2>2 DEF WorkRight
<1>9. CASE McpRestart
  <2>1. /\ mpc' = "idle" /\ g_mapTopicToAgent' = [t \in Topics |-> {}]
        /\ UNCHANGED <<ccs2mcp, mcp2ccs>>
    BY <1>9 DEF McpRestart
  <2> QED BY <1>a, <1>b, <2>1 DEF WorkRight
<1> QED BY <1>4, <1>5, <1>6, <1>7, <1>8, <1>9 DEF McpNext, McpWork


LEMMA AskingStep == ASSUME Typed, Asking, [Next]_vars PROVE Asking'
<1>1. CASE CcsNext /\ UNCHANGED mcpVars
  BY <1>1, CcsAsking
<1>2. CASE McpNext /\ UNCHANGED ccsVars
  BY <1>2, McpAsking
<1>3. CASE UNCHANGED vars
  BY <1>3 DEF vars, ccsVars, mcpVars, Asking, WorkRight, RequestFrame, ReplyFrame, Subscribers,
              RequestOf, ReplyOf, SubscriberOf, Asked, Known
<1> QED BY <1>1, <1>2, <1>3 DEF Next

(* A connection receives only answers to its own requests and messages of  *)
(* topics it has asked for, however frames are rewritten in place, kept by *)
(* MCP, left in the ring by one that died, and delivered late.             *)
THEOREM BrokerOnlyWhatWasAsked == Spec => []OnlyWhatWasAsked
<1>1. Init => Typed /\ Asking
  BY TypedInit, AskingInit
<1>2. Typed /\ Asking /\ [Next]_vars => (Typed /\ Asking)'
  <2> SUFFICES ASSUME Typed, Asking, [Next]_vars PROVE Asking'
    BY TypedStep
  <2> QED BY AskingStep
<1>3. Typed /\ Asking => OnlyWhatWasAsked
  <2> SUFFICES ASSUME Typed, Asking, NEW c \in Known, NEW f \in Received(c), f.conn = c
               PROVE  IF IsCopy(f) THEN Asked(c, f.topic) ELSE sent[f.req].conn = c
    BY DEF OnlyWhatWasAsked, Known
  <2>1. f \in ReplyFrame
    BY ElementOfSeq DEF Asking, Received
  <2> QED BY <2>1 DEF ReplyFrame, ReplyOf
<1> QED BY <1>1, <1>2, <1>3, PTL DEF Spec

-----------------------------------------------------------------------------
(* In order.                                                               *)
LEMMA OrderedInit == ASSUME Init PROVE Ordered
BY DEF Init, CcsInit, McpInit, Ordered, RingInOrder, OutBehind, HeadInHand, SetsRight,
       AddressesApart, PipeInOrder, InboxThenPipe, InOrder, Known, Out

(* What the steps below use of the types.                                  *)
LEMMA OutFacts ==
  ASSUME Typed, Asking
  PROVE  /\ Len(ccs2mcp) \in Nat /\ Len(mcp2ccs) \in Nat /\ Len(sent) \in Nat
         /\ \A i \in 1 .. Len(ccs2mcp) : ccs2mcp[i] \in RequestFrame
         /\ \A i \in 1 .. Len(mcp2ccs) : mcp2ccs[i] \in ReplyFrame
         /\ \A c \in Known : inbox[c] \in Seq(ReplyFrame) /\ Len(inbox[c]) \in Nat
         /\ \A c \in Known : Received(c) \subseteq ReplyFrame
         /\ \A f \in Out : f.req \in 1 .. Len(sent)
         /\ \A i \in 1 .. Len(ccs2mcp) : ccs2mcp[i].req \in 1 .. Len(sent)
         /\ mpc # "idle" => pMsgBuff.req \in 1 .. Len(sent)
<1>1. /\ \A i \in 1 .. Len(ccs2mcp) : ccs2mcp[i] \in RequestFrame
      /\ \A i \in 1 .. Len(mcp2ccs) : mcp2ccs[i] \in ReplyFrame
      /\ Len(ccs2mcp) \in Nat /\ Len(mcp2ccs) \in Nat
  BY ElementOfSeq, LenProperties DEF Asking
<1>2. /\ \A c \in Known : inbox[c] \in Seq(ReplyFrame) /\ Len(inbox[c]) \in Nat
      /\ \A c \in Known : Received(c) \subseteq ReplyFrame
  BY ElementOfSeq, LenProperties DEF Asking, Received
<1>3. Len(sent) \in Nat
  BY LenProperties DEF Typed, TypeOK, CcsTypeOK
<1>4. Out \subseteq ReplyFrame
  BY <1>1, <1>2 DEF Out
<1>5. \A f \in Out : f.req \in 1 .. Len(sent)
  BY <1>4 DEF ReplyFrame, ReplyOf
<1>6. \A i \in 1 .. Len(ccs2mcp) : ccs2mcp[i].req \in 1 .. Len(sent)
  BY <1>1 DEF RequestFrame, RequestOf
<1>7. mpc # "idle" => pMsgBuff.req \in 1 .. Len(sent)
  BY DEF Asking, WorkRight, RequestFrame, RequestOf
<1> QED BY <1>1, <1>2, <1>3, <1>5, <1>6, <1>7

(* What MCP sends is ordered if it is ordered behind all that is out.      *)
LEMMA SentInOrder ==
  ASSUME Typed, Asking, PipeInOrder, InboxThenPipe, InOrder, UNCHANGED ccsVars,
         NEW f \in Frame, Sends(f), \A g \in Out : Before(g, f)
  PROVE  PipeInOrder' /\ InboxThenPipe' /\ InOrder' /\ Out' \subseteq Out \cup {f}
<1>0. UNCHANGED <<conns, inbox, cpc, ccsDeaths>>
  BY DEF ccsVars
<1>1. InOrder' /\ Known' = Known /\ \A c : Received(c)' = Received(c)
  BY <1>0 DEF InOrder, Known, Received
<1>2. CASE mcp2ccs' = mcp2ccs
  BY <1>0, <1>1, <1>2 DEF PipeInOrder, InboxThenPipe, Next2Deliver, Out
<1>3. CASE mcp2ccs' = Append(mcp2ccs, f)
  <2>1. /\ Len(mcp2ccs') = Len(mcp2ccs) + 1 /\ Len(mcp2ccs) \in Nat
        /\ \A i \in 1 .. Len(mcp2ccs) : mcp2ccs'[i] = mcp2ccs[i]
        /\ mcp2ccs'[Len(mcp2ccs) + 1] = f
    <3>1. mcp2ccs \in Seq(Frame)
      BY DEF Typed, TypeOK
    <3> QED BY <1>3, <3>1, AppendProperties, LenProperties
  <2>2. Out' \subseteq Out \cup {f}
    <3>1. \A i \in 1 .. Len(mcp2ccs') : i \in 1 .. Len(mcp2ccs) \/ i = Len(mcp2ccs) + 1
      BY <2>1
    <3> QED BY <1>1, <2>1, <3>1 DEF Out
  <2>3. PipeInOrder'
    <3> SUFFICES ASSUME NEW i \in 1 .. Len(mcp2ccs'), NEW j \in 1 .. Len(mcp2ccs'), i < j
                 PROVE  Before(mcp2ccs'[i], mcp2ccs'[j])
      BY DEF PipeInOrder, Before, IsCopy
    <3>1. i \in 1 .. Len(mcp2ccs)
      BY <2>1
    <3>2. CASE j = Len(mcp2ccs) + 1
      BY <2>1, <3>1, <3>2 DEF Out
    <3>3. CASE j \in 1 .. Len(mcp2ccs)
      BY <2>1, <3>1, <3>3 DEF PipeInOrder
    <3>4. j \in 1 .. Len(mcp2ccs) \/ j = Len(mcp2ccs) + 1
      BY <2>1
    <3> QED BY <3>2, <3>3, <3>4
  <2>4. InboxThenPipe'
    <3> SUFFICES ASSUME NEW c \in Known, conns[c].life = ccsDeaths, NEW g \in Received(c),
                        NEW j \in Next2Deliver .. Len(mcp2ccs'), g.conn = c
                 PROVE  Before(g, mcp2ccs'[j])
      BY <1>0, <1>1 DEF InboxThenPipe, Next2Deliver, Before, IsCopy
    <3>1. CASE j = Len(mcp2ccs) + 1
      BY <2>1, <3>1 DEF Out
    <3>2. CASE j \in Next2Deliver .. Len(mcp2ccs)
      <4>1. mcp2ccs'[j] = mcp2ccs[j]
        BY <2>1, <3>2 DEF Next2Deliver
      <4> QED BY <3>2, <4>1 DEF InboxThenPipe
    <3>3. j \in Next2Deliver .. Len(mcp2ccs) \/ j = Len(mcp2ccs) + 1
      BY <2>1 DEF Next2Deliver
    <3> QED BY <3>1, <3>2, <3>3
  <2> QED BY <1>1, <2>2, <2>3, <2>4
<1> QED BY <1>2, <1>3 DEF Sends

LEMMA NothingSent ==
  ASSUME PipeInOrder, InboxThenPipe, InOrder, UNCHANGED <<ccsVars, mcp2ccs>>
  PROVE  PipeInOrder' /\ InboxThenPipe' /\ InOrder' /\ Out' = Out
BY DEF ccsVars, PipeInOrder, InboxThenPipe, InOrder, Next2Deliver, Out, Received, Known


(* The ring keeps its requests, and no answered frame turns into one again.*)
RingKept ==
  /\ Len(ccs2mcp') = Len(ccs2mcp)
  /\ \A i \in 1 .. Len(ccs2mcp) :
       /\ ccs2mcp'[i].req = ccs2mcp[i].req
       /\ ccs2mcp'[i].type \in ReqTypes => ccs2mcp[i].type \in ReqTypes
       /\ (inPlace => i # 1) => ccs2mcp'[i] = ccs2mcp[i]

LEMMA RewriteKeepsRing ==
  ASSUME Typed, HeadInHand, mpc # "idle", UNCHANGED inPlace,
         NEW f \in Frame, f.req = pMsgBuff.req, f.type \in RspTypes, Rewrite(f)
  PROVE  /\ RingKept /\ pMsgBuff' = f
         /\ inPlace => ccs2mcp' # <<>> /\ ccs2mcp'[1] = f
<1>1. pMsgBuff' = f
  BY DEF Rewrite
<1>2. CASE inPlace
  <2>1. /\ ccs2mcp \in Seq(Frame) /\ ccs2mcp # <<>> /\ ccs2mcp' = <<f>> \o Tail(ccs2mcp)
        /\ ccs2mcp[1] = pMsgBuff
    BY <1>2 DEF Typed, TypeOK, Rewrite, HeadInHand
  <2>2. /\ ccs2mcp' \in Seq(Frame) /\ Len(ccs2mcp') = Len(ccs2mcp) /\ ccs2mcp'[1] = f
        /\ \A i \in 2 .. Len(ccs2mcp) : ccs2mcp'[i] = ccs2mcp[i]
        /\ Len(ccs2mcp) \in Nat \ {0}
    BY <2>1, HeadReplaced, EmptySeq
  <2>3. ccs2mcp' # <<>>
    BY <2>2
  <2>4. f.type \notin ReqTypes
    BY DEF ReqTypes, RspTypes
  <2>5. \A i \in 1 .. Len(ccs2mcp) : i = 1 \/ i \in 2 .. Len(ccs2mcp)
    BY <2>2
  <2>6. \A i \in 1 .. Len(ccs2mcp) : (inPlace => i # 1) => ccs2mcp'[i] = ccs2mcp[i]
    BY <1>2, <2>2, <2>5
  <2>7. ccs2mcp'[1].req = ccs2mcp[1].req /\ ccs2mcp'[1].type \notin ReqTypes
    BY <2>1, <2>2, <2>4
  <2>8. \A i \in 1 .. Len(ccs2mcp) :
          /\ ccs2mcp'[i].req = ccs2mcp[i].req
          /\ ccs2mcp'[i].type \in ReqTypes => ccs2mcp[i].type \in ReqTypes
    BY <2>2, <2>5, <2>7
  <2> QED BY <1>1, <2>2, <2>3, <2>6, <2>8 DEF RingKept
<1>3. CASE ~inPlace
  BY <1>1, <1>3 DEF Rewrite, RingKept
<1> QED BY <1>2, <1>3

LEMMA RingKeptInOrder ==
  ASSUME Typed, Asking, Ordered, RingKept
  PROVE  /\ RingInOrder'
         /\ \A r : (\A i \in 1 .. Len(ccs2mcp) : From(r, ccs2mcp[i]))
                     => \A i \in 1 .. Len(ccs2mcp') : From(r, ccs2mcp'[i])
BY DEF RingKept, Ordered, RingInOrder, From

(* A step of MCP that sends something for the request it works on.         *)
LEMMA AnswerInOrder ==
  ASSUME Typed, Asking, Ordered, UNCHANGED ccsVars, mpc # "idle",
         NEW f \in Frame, f.req = pMsgBuff.req, Sends(f), \A g \in Out : Before(g, f),
         RingKept, pMsgBuff'.req = pMsgBuff.req, HeadInHand', SetsRight',
         mpc' \notin {"init", "publish"},
         mpc' = "forward" => \A g \in Out \cup {f}, a \in todo' :
           g.req = pMsgBuff.req /\ IsCopy(g) => g.conn # a.conn
  PROVE  Ordered'
<1>1. PipeInOrder' /\ InboxThenPipe' /\ InOrder' /\ Out' \subseteq Out \cup {f}
  BY SentInOrder DEF Ordered
<1>2. RingInOrder'
  BY RingKeptInOrder
<1>3. /\ \A g \in Out : g.req <= pMsgBuff.req
      /\ \A i \in 1 .. Len(ccs2mcp) : From(pMsgBuff.req, ccs2mcp[i])
      /\ \A g \in Out, i \in 1 .. Len(ccs2mcp) : From(g.req, ccs2mcp[i])
  BY DEF Ordered, OutBehind
<1>4. \A i \in 1 .. Len(ccs2mcp') : From(pMsgBuff.req, ccs2mcp'[i])
  BY <1>3, RingKeptInOrder
<1>5. \A g \in Out : \A i \in 1 .. Len(ccs2mcp') : From(g.req, ccs2mcp'[i])
  <2> SUFFICES ASSUME NEW g \in Out PROVE \A i \in 1 .. Len(ccs2mcp') : From(g.req, ccs2mcp'[i])
    OBVIOUS
  <2> QED BY <1>3, RingKeptInOrder
<1>6. pMsgBuff.req \in Nat
  BY OutFacts
<1>7. \A g \in Out' : g.req <= pMsgBuff.req
  BY <1>1, <1>3, <1>6
<1>8. \A g \in Out', i \in 1 .. Len(ccs2mcp') : From(g.req, ccs2mcp'[i])
  BY <1>1, <1>4, <1>5
<1>9. OutBehind'
  BY <1>1, <1>4, <1>7, <1>8 DEF OutBehind, From, IsCopy
<1> QED BY <1>1, <1>2, <1>9 DEF Ordered

(* Different subscribers have different connections.                       *)
LEMMA ConnsApart ==
  ASSUME NEW t, NEW A \in SUBSET Subscribers(t), AddressesApart(A), NEW a \in A, NEW b \in A,
         a.conn = b.conn
  PROVE  a = b
BY DEF Subscribers, SubscriberOf, AddressesApart

LEMMA McpOrdered ==
  ASSUME Typed, Asking, Ordered, McpNext, UNCHANGED ccsVars
  PROVE  Ordered'
<1>1. CASE OnReqMessage
  <2> DEFINE f == Head(ccs2mcp)
             g == Answered(f)
             a == [addr |-> f.addr, m_iSuffix |-> f.m_iSuffix,
                   echo |-> f.echo, conn |-> f.conn]
  <2>0. /\ ccs2mcp # <<>> /\ ccs2mcp \in Seq(Frame) /\ pMsgBuff' = g
        /\ mpc' \in {"init", "publish", "done"} /\ UNCHANGED <<mcp2ccs, dropped>>
    BY <1>1 DEF OnReqMessage, Typed, TypeOK
  <2>1. /\ Len(ccs2mcp) \in Nat \ {0} /\ f = ccs2mcp[1] /\ f \in Frame
        /\ Tail(ccs2mcp) \in Seq(Frame) /\ Len(Tail(ccs2mcp)) = Len(ccs2mcp) - 1
        /\ \A i \in 1 .. Len(Tail(ccs2mcp)) :
             Tail(ccs2mcp)[i] = ccs2mcp[i + 1] /\ i + 1 \in 1 .. Len(ccs2mcp)
    BY <2>0, HeadTakenOff
  <2>2. g \in Frame /\ g.type \in RspTypes /\ g.req = f.req
    BY <2>1, AnsweredIs
  <2>3. g.type \notin ReqTypes
    BY <2>2 DEF ReqTypes, RspTypes
  <2> HIDE DEF g, a
  <2>4. PipeInOrder' /\ InboxThenPipe' /\ InOrder' /\ Out' = Out
    BY <2>0, NothingSent DEF Ordered
  <2>5. f.req \in Nat /\ \A i \in 1 .. Len(ccs2mcp) : ccs2mcp[i].req \in Nat
    BY <2>1, OutFacts
  <2>6. \A i \in 2 .. Len(ccs2mcp) : f.req < ccs2mcp[i].req
    BY <2>1 DEF Ordered, RingInOrder
  <2>7. \A h \in Out : h.req <= f.req /\ h.req \in Nat /\ (f.type \in ReqTypes => h.req < f.req)
    BY <2>1, OutFacts DEF Ordered, OutBehind, From
  <2>8. /\ RingInOrder' /\ HeadInHand'
        /\ \A i \in 1 .. Len(ccs2mcp') : From(f.req, ccs2mcp'[i])
    <3>1. CASE inPlace' = TRUE /\ ccs2mcp' = <<g>> \o Tail(ccs2mcp)
      <4>1. /\ ccs2mcp' \in Seq(Frame) /\ Len(ccs2mcp') = Len(ccs2mcp) /\ ccs2mcp'[1] = g
            /\ \A i \in 2 .. Len(ccs2mcp) : ccs2mcp'[i] = ccs2mcp[i]
        BY <2>0, <2>2, <3>1, HeadReplaced
      <4>2. \A i \in 1 .. Len(ccs2mcp) : i = 1 \/ i \in 2 .. Len(ccs2mcp)
        BY <2>1
      <4>3. \A i \in 1 .. Len(ccs2mcp) : ccs2mcp'[i].req = ccs2mcp[i].req
        BY <2>1, <2>2, <4>1, <4>2
      <4>4. RingInOrder'
        BY <4>1, <4>3 DEF Ordered, RingInOrder
      <4>5. HeadInHand'
        <5>1. ccs2mcp' # <<>>
          BY <2>1, <4>1
        <5> QED BY <2>0, <4>1, <5>1 DEF HeadInHand
      <4>6. \A i \in 1 .. Len(ccs2mcp') : From(f.req, ccs2mcp'[i])
        BY <2>2, <2>3, <2>5, <2>6, <4>1, <4>2 DEF From
      <4> QED BY <4>4, <4>5, <4>6
    <3>2. CASE inPlace' = FALSE /\ ccs2mcp' = Tail(ccs2mcp)
      <4>1. RingInOrder'
        <5> SUFFICES ASSUME NEW i \in 1 .. Len(ccs2mcp'), NEW j \in 1 .. Len(ccs2mcp'), i < j
                     PROVE  ccs2mcp'[i].req < ccs2mcp'[j].req
          BY DEF RingInOrder
        <5>1. i + 1 < j + 1
          BY <2>1, <3>2
        <5> QED BY <2>1, <3>2, <5>1 DEF Ordered, RingInOrder
      <4>2. ASSUME NEW i \in 1 .. Len(ccs2mcp') PROVE From(f.req, ccs2mcp'[i])
        <5>1. i + 1 \in 2 .. Len(ccs2mcp) /\ ccs2mcp'[i] = ccs2mcp[i + 1]
          BY <2>1, <3>2
        <5>2. f.req < ccs2mcp[i + 1].req /\ ccs2mcp[i + 1].req \in Nat
          BY <2>5, <2>6, <5>1
        <5> QED BY <2>5, <5>1, <5>2 DEF From
      <4> QED BY <3>2, <4>1, <4>2 DEF HeadInHand
    <3> QED BY <1>1, <3>1, <3>2 DEF OnReqMessage, g
  <2>9. \A h \in Out, i \in 1 .. Len(ccs2mcp') : From(h.req, ccs2mcp'[i])
    <3> SUFFICES ASSUME NEW h \in Out, NEW i \in 1 .. Len(ccs2mcp')
                 PROVE  From(h.req, ccs2mcp'[i])
      OBVIOUS
    <3>1. ccs2mcp'[i].req \in Nat
      <4>1. ccs2mcp' \in Seq(Frame)
        BY McpTyped DEF Typed, TypeOK
      <4>2. ccs2mcp'[i] \in Frame
        BY <4>1, ElementOfSeq
      <4> QED BY <4>2 DEF Frame, Reqs
    <3>2. From(f.req, ccs2mcp'[i]) /\ h.req <= f.req /\ h.req \in Nat
      BY <2>7, <2>8
    <3> QED BY <2>5, <3>1, <3>2 DEF From
  <2>10. OutBehind'
    <3>1. mpc' \in {"init", "publish"} => f.type \in ReqTypes
      BY <1>1 DEF OnReqMessage, ReqTypes
    <3>2. mpc' # "forward"
      BY <2>0
    <3>3. /\ \A h \in Out' : h.req <= pMsgBuff'.req
          /\ \A i \in 1 .. Len(ccs2mcp') : From(pMsgBuff'.req, ccs2mcp'[i])
          /\ mpc' \in {"init", "publish"} => \A h \in Out' : h.req < pMsgBuff'.req
      BY <2>0, <2>2, <2>4, <2>7, <2>8, <3>1
    <3>4. \A h \in Out', i \in 1 .. Len(ccs2mcp') : From(h.req, ccs2mcp'[i])
      BY <2>4, <2>9
    <3> QED BY <3>2, <3>3, <3>4 DEF OutBehind, From
  <2>11. SetsRight'
    <3>0. g_mapTopicToAgent \in [Topics -> SUBSET EasyMQAgent] /\ f.topic \in Topics
      BY <2>1 DEF Typed, Within, Frame
    <3>1. CASE initTopic(f.topic, a) /\ UNCHANGED todo
      <4>1. CASE \E b \in g_mapTopicToAgent[f.topic] : b.addr = a.addr
        BY <3>1, <4>1 DEF initTopic, Ordered, SetsRight, AddressesApart
      <4>2. CASE ~ \E b \in g_mapTopicToAgent[f.topic] : b.addr = a.addr
        <5>1. g_mapTopicToAgent' =
                [g_mapTopicToAgent EXCEPT ![f.topic] = g_mapTopicToAgent[f.topic] \cup {a}]
          BY <3>1, <4>2 DEF initTopic
        <5>2. /\ g_mapTopicToAgent'[f.topic] = g_mapTopicToAgent[f.topic] \cup {a}
              /\ \A t \in Topics \ {f.topic} : g_mapTopicToAgent'[t] = g_mapTopicToAgent[t]
          BY <3>0, <5>1
        <5>3. AddressesApart(g_mapTopicToAgent[f.topic] \cup {a})
          BY <3>0, <4>2 DEF Ordered, SetsRight, AddressesApart
        <5>4. \A t \in Topics : AddressesApart(g_mapTopicToAgent'[t])
          BY <5>2, <5>3 DEF Ordered, SetsRight
        <5> QED BY <3>1, <5>4 DEF Ordered, SetsRight, AddressesApart
      <4> QED BY <4>1, <4>2
    <3>2. CASE todo' = g_mapTopicToAgent[f.topic] /\ UNCHANGED g_mapTopicToAgent
      BY <3>0, <3>2 DEF Ordered, SetsRight, AddressesApart
    <3>3. CASE UNCHANGED <<g_mapTopicToAgent, todo>>
      BY <3>3 DEF Ordered, SetsRight, AddressesApart
    <3> QED BY <1>1, <3>1, <3>2, <3>3 DEF OnReqMessage, a
  <2> QED BY <2>4, <2>8, <2>10, <2>11 DEF Ordered
<1>a. SetsRight /\ HeadInHand /\ (mpc # "idle" => pMsgBuff \in Frame /\ pMsgBuff.type \in RspTypes)
  BY DEF Ordered, Asking, WorkRight, RequestFrame
<1>2. CASE ReplyInitTopic
  <2> DEFINE f == [pMsgBuff EXCEPT !.msgLen = "swapped"]
  <2>1. /\ mpc = "init" /\ mpc' = "done" /\ Rewrite(f) /\ SendRsp(f)
        /\ UNCHANGED <<g_mapTopicToAgent, inPlace, todo>>
    BY <1>2 DEF ReplyInitTopic
  <2>2. /\ f \in Frame /\ f.req = pMsgBuff.req /\ f.type \in RspTypes
    BY <1>a, <2>1, AnswerIs DEF LenField
  <2> HIDE DEF f
  <2>3. \A g \in Out : Before(g, f)
    BY <2>1, <2>2 DEF Ordered, OutBehind, Before
  <2>4. RingKept /\ HeadInHand' /\ pMsgBuff' = f
    BY <1>a, <2>1, <2>2, RewriteKeepsRing DEF HeadInHand
  <2>5. SetsRight'
    BY <1>a, <2>1 DEF SetsRight, AddressesApart
  <2> QED BY <2>1, <2>2, <2>3, <2>4, <2>5, SendRspSends, AnswerInOrder
<1>3. CASE AckPublish
  <2> DEFINE f == [pMsgBuff EXCEPT !.msgLen = "beyond"]
  <2>1. /\ mpc = "publish" /\ mpc' = "forward" /\ SendRsp(f)
        /\ UNCHANGED <<ccs2mcp, g_mapTopicToAgent, pMsgBuff, inPlace, todo>>
    BY <1>3 DEF AckPublish
  <2>2. f \in Frame /\ f.req = pMsgBuff.req /\ f.msgLen = "beyond"
    BY <1>a, <2>1, AnswerIs DEF LenField
  <2> HIDE DEF f
  <2>3. \A g \in Out : Before(g, f) /\ g.req # pMsgBuff.req
    BY <2>1, <2>2, OutFacts DEF Ordered, OutBehind, Before
  <2>4. RingKept /\ HeadInHand'
    BY <1>a, <2>1 DEF HeadInHand, RingKept
  <2>5. SetsRight'
    BY <1>a, <2>1 DEF SetsRight, AddressesApart
  <2>6. \A g \in Out \cup {f} : ~(g.req = pMsgBuff.req /\ IsCopy(g))
    BY <2>2, <2>3 DEF IsCopy
  <2> QED BY <2>1, <2>2, <2>3, <2>4, <2>5, <2>6, SendRspSends, AnswerInOrder
<1>4. CASE Forward
  <2>1. PICK a \in todo : /\ Rewrite(CopyFor(pMsgBuff, a)) /\ SendRsp(CopyFor(pMsgBuff, a))
                          /\ todo' = todo \ {a}
    BY <1>4 DEF Forward, CopyFor
  <2> DEFINE f == CopyFor(pMsgBuff, a)
  <2>2. mpc = "forward" /\ mpc' = "forward" /\ UNCHANGED <<g_mapTopicToAgent, inPlace>>
    BY <1>4 DEF Forward
  <2>3. todo \subseteq Subscribers(pMsgBuff.topic) /\ todo \subseteq EasyMQAgent
    BY <2>2 DEF Asking, WorkRight, Subscribers
  <2>4. f \in Frame /\ f.conn = a.conn /\ f.req = pMsgBuff.req /\ f.type \in RspTypes
    BY <1>a, <2>1, <2>2, <2>3, CopyIs
  <2>5. Rewrite(f) /\ SendRsp(f) /\ todo' = todo \ {a}
    BY <2>1
  <2>6. IsCopy(f)
    BY <1>a, <2>2, <2>3, CopyIs DEF IsCopy, Asking, WorkRight
  <2> HIDE DEF f
  <2>7. ASSUME NEW g \in Out PROVE Before(g, f)
    <3>1. g.req <= pMsgBuff.req /\ (g.req = pMsgBuff.req /\ IsCopy(g) => g.conn # a.conn)
      BY <2>2, <2>7 DEF Ordered, OutBehind
    <3>2. g.req \in Nat /\ pMsgBuff.req \in Nat
      BY <2>2, <2>7, OutFacts
    <3> QED BY <2>4, <2>6, <3>1, <3>2 DEF Before
  <2>8. RingKept /\ HeadInHand' /\ pMsgBuff' = f
    BY <1>a, <2>2, <2>4, <2>5, RewriteKeepsRing DEF HeadInHand
  <2>9. SetsRight'
    BY <1>a, <2>2, <2>5 DEF SetsRight, AddressesApart
  <2>10. ASSUME NEW b \in todo' PROVE b.conn # a.conn
    BY <1>a, <2>1, <2>3, <2>5, <2>10, ConnsApart DEF SetsRight
  <2>11. \A g \in Out \cup {f}, b \in todo' :
           g.req = pMsgBuff.req /\ IsCopy(g) => g.conn # b.conn
    BY <2>2, <2>4, <2>5, <2>10 DEF Ordered, OutBehind
  <2> QED BY <2>2, <2>4, <2>5, <2>7, <2>8, <2>9, <2>11, SendRspSends, AnswerInOrder
<1>5. CASE SkipRequest
  <2>1. /\ mpc' = "idle" /\ inPlace' = FALSE /\ UNCHANGED <<mcp2ccs, g_mapTopicToAgent, todo>>
        /\ ccs2mcp' = IF inPlace THEN Tail(ccs2mcp) ELSE ccs2mcp
    BY <1>5 DEF SkipRequest
  <2>2. PipeInOrder' /\ InboxThenPipe' /\ InOrder' /\ Out' = Out
    BY <2>1, NothingSent DEF Ordered
  <2>3. SetsRight' /\ HeadInHand'
    BY <1>a, <2>1 DEF SetsRight, AddressesApart, HeadInHand
  <2>4. RingInOrder' /\ \A h \in Out, i \in 1 .. Len(ccs2mcp') : From(h.req, ccs2mcp'[i])
    <3>1. CASE ~inPlace
      BY <2>1, <3>1 DEF Ordered, RingInOrder, OutBehind
    <3>2. CASE inPlace
      <4>1. ccs2mcp # <<>> /\ ccs2mcp \in Seq(Frame) /\ ccs2mcp' = Tail(ccs2mcp)
        BY <2>1, <3>2 DEF Typed, TypeOK, Within
      <4>2. /\ Len(ccs2mcp) \in Nat \ {0} /\ Len(ccs2mcp') = Len(ccs2mcp) - 1
            /\ \A i \in 1 .. Len(ccs2mcp') :
                 ccs2mcp'[i] = ccs2mcp[i + 1] /\ i + 1 \in 1 .. Len(ccs2mcp)
        BY <4>1, HeadTakenOff
      <4>3. \A i, j \in 1 .. Len(ccs2mcp') : i < j => i + 1 < j + 1
        BY <4>2
      <4> QED BY <4>2, <4>3 DEF Ordered, RingInOrder, OutBehind
    <3> QED BY <3>1, <3>2
  <2>5. OutBehind'
    BY <2>1, <2>2, <2>4 DEF OutBehind, From
  <2> QED BY <2>2, <2>3, <2>4, <2>5 DEF Ordered
<1>6. CASE McpRestart
  <2>1. /\ mpc' = "idle" /\ inPlace' = FALSE /\ UNCHANGED <<mcp2ccs, ccs2mcp>>
        /\ todo' = {} /\ g_mapTopicToAgent' = [t \in Topics |-> {}]
    BY <1>6 DEF McpRestart
  <2>2. PipeInOrder' /\ InboxThenPipe' /\ InOrder' /\ Out' = Out
    BY <2>1, NothingSent DEF Ordered
  <2>3. SetsRight' /\ HeadInHand' /\ RingInOrder'
    BY <2>1 DEF SetsRight, AddressesApart, HeadInHand, Ordered, RingInOrder
  <2>4. OutBehind'
    BY <2>1, <2>2 DEF Ordered, OutBehind, From
  <2> QED BY <2>2, <2>3, <2>4 DEF Ordered
<1> QED BY <1>1, <1>2, <1>3, <1>4, <1>5, <1>6 DEF McpNext, McpWork


(* What CCS is not done with moves up by k places.                         *)
MovesUp(k) ==
  \A j \in Next2Deliver' .. Len(mcp2ccs') :
    /\ j + k \in Next2Deliver .. Len(mcp2ccs)
    /\ mcp2ccs'[j] = mcp2ccs[j + k]

LEMMA CcsMovesUp ==
  ASSUME Typed, CcsNext
  PROVE  \/ CcsRestart
         \/ /\ ccsDeaths' = ccsDeaths
            /\ \E k \in {0, 1} :
                 /\ MovesUp(k)
                 /\ \/ \A c \in Known : inbox'[c] = inbox[c]
                    \/ \A j \in Next2Deliver' .. Len(mcp2ccs') : j + k >= 2
<1>0. /\ mcp2ccs \in Seq(Frame) /\ Len(mcp2ccs) \in Nat
      /\ cpc \in {"idle", "skip"} /\ (cpc = "skip" => mcp2ccs # <<>>)
      /\ inbox \in Seq(Seq(Frame)) /\ Len(inbox) = Len(conns)
  BY LenProperties DEF Typed, TypeOK, CcsTypeOK
<1>1. mcp2ccs # <<>> =>
        /\ Len(mcp2ccs) \in Nat \ {0} /\ Len(Tail(mcp2ccs)) = Len(mcp2ccs) - 1
        /\ \A i \in 1 .. Len(Tail(mcp2ccs)) : Tail(mcp2ccs)[i] = mcp2ccs[i + 1]
  BY <1>0, HeadTakenOff
<1>2. ASSUME UNCHANGED <<mcp2ccs, cpc>> PROVE MovesUp(0)
  <2>1. \A j \in Next2Deliver .. Len(mcp2ccs) : j + 0 = j
    BY <1>0 DEF Next2Deliver
  <2> QED BY <1>2, <2>1 DEF MovesUp, Next2Deliver
<1>3. CASE UNCHANGED <<mcp2ccs, cpc, ccsDeaths>> /\ \A c \in Known : inbox'[c] = inbox[c]
  BY <1>2, <1>3
<1>4. CASE CheckSvrMessage
  <2>1. cpc = "idle" /\ mcp2ccs # <<>> /\ ccsDeaths' = ccsDeaths
    BY <1>4 DEF CheckSvrMessage
  <2>2. CASE cpc' = "skip" /\ mcp2ccs' = mcp2ccs
    <3>1. \A j \in 2 .. Len(mcp2ccs) : j + 0 = j /\ j \in 1 .. Len(mcp2ccs) /\ j + 0 >= 2
      BY <1>0
    <3>2. MovesUp(0) /\ \A j \in Next2Deliver' .. Len(mcp2ccs') : j + 0 >= 2
      BY <2>1, <2>2, <3>1 DEF MovesUp, Next2Deliver
    <3> QED BY <2>1, <3>2
  <2>3. CASE mcp2ccs' = Tail(mcp2ccs) /\ cpc' = cpc
    <3>1. \A j \in 1 .. Len(mcp2ccs') : j + 1 \in 1 .. Len(mcp2ccs) /\ j + 1 >= 2
      BY <1>1, <2>1, <2>3
    <3>2. MovesUp(1) /\ \A j \in Next2Deliver' .. Len(mcp2ccs') : j + 1 >= 2
      BY <1>1, <2>1, <2>3, <3>1 DEF MovesUp, Next2Deliver
    <3> QED BY <2>1, <3>2
  <2> QED BY <1>4, <2>2, <2>3 DEF CheckSvrMessage
<1>5. CASE SkipSvrMessage
  <2>1. /\ cpc = "skip" /\ cpc' = "idle" /\ mcp2ccs' = Tail(mcp2ccs)
        /\ UNCHANGED <<inbox, ccsDeaths>>
    BY <1>5 DEF SkipSvrMessage
  <2>2. \A j \in 1 .. Len(mcp2ccs') : j + 1 \in 2 .. Len(mcp2ccs)
    BY <1>0, <1>1, <2>1
  <2>3. MovesUp(1)
    BY <1>0, <1>1, <2>1, <2>2 DEF MovesUp, Next2Deliver
  <2> QED BY <2>1, <2>3
<1>6. ASSUME NEW a \in Clients, NEW s \in Suffixes, Accept(a, s)
      PROVE  UNCHANGED <<mcp2ccs, cpc, ccsDeaths>> /\ \A c \in Known : inbox'[c] = inbox[c]
  <2>1. inbox' = Append(inbox, <<>>) /\ UNCHANGED <<mcp2ccs, cpc, ccsDeaths>>
    BY <1>6 DEF Accept
  <2>2. <<>> \in Seq(Frame)
    OBVIOUS
  <2> QED BY <1>0, <2>1, <2>2, AppendProperties DEF Known
<1>7. ASSUME \/ \E c \in 1 .. Len(conns) : ClientCloses(c)
             \/ CreateSocketNode
             \/ \E s \in Suffixes, type \in Requests, t \in Topics : RecvClientData(s, type, t)
             \/ \E s \in Suffixes : RecvClientClosed(s)
      PROVE  UNCHANGED <<mcp2ccs, cpc, ccsDeaths, inbox>>
  BY <1>7 DEF ClientCloses, CreateSocketNode, RecvClientData, RecvClientClosed
<1> QED BY <1>3, <1>4, <1>5, <1>6, <1>7 DEF CcsNext, CcsWork

(* What a step of CCS takes out of mcp2ccs and puts into the inboxes.      *)
LEMMA CcsDelivers ==
  ASSUME Typed, CcsNext
  PROVE  /\ \A c \in Known : DeliveredTo(c) =>
              /\ mcp2ccs # <<>> /\ mcp2ccs[1] \in Out /\ 1 \in 1 .. Len(mcp2ccs)
              /\ Head(mcp2ccs) = mcp2ccs[1]
              /\ inbox'[c] = Append(inbox[c], mcp2ccs[1])
              /\ Received(c)' = Received(c) \cup {mcp2ccs[1]}
              /\ Len(inbox[c]) \in Nat /\ Len(inbox'[c]) = Len(inbox[c]) + 1
              /\ \A i \in 1 .. Len(inbox[c]) : inbox'[c][i] = inbox[c][i]
              /\ inbox'[c][Len(inbox[c]) + 1] = mcp2ccs[1]
         /\ \A c \in Known' : \/ c \in Known /\ Received(c)' = Received(c)
                              \/ c \in Known /\ DeliveredTo(c)
                              \/ c \notin Known /\ Received(c)' = {} /\ inbox'[c] = <<>>
         /\ Out' \subseteq Out
<1>0. CcsMoves
  BY CcsMovesStep
<1>a. mcp2ccs \in Seq(Frame) /\ Len(mcp2ccs) \in Nat
  BY LenProperties DEF Typed, TypeOK
<1>1. \A j \in 1 .. Len(mcp2ccs') : \E i \in 1 .. Len(mcp2ccs) : mcp2ccs'[j] = mcp2ccs[i]
  <2>1. mcp2ccs # <<>> =>
          \A i \in 1 .. Len(Tail(mcp2ccs)) :
            Tail(mcp2ccs)[i] = mcp2ccs[i + 1] /\ i + 1 \in 1 .. Len(mcp2ccs)
    BY <1>a, HeadTakenOff
  <2> QED BY <1>0, <2>1 DEF CcsMoves
<1>2. ASSUME NEW c \in Known, DeliveredTo(c)
      PROVE  /\ mcp2ccs # <<>> /\ mcp2ccs[1] \in Out /\ 1 \in 1 .. Len(mcp2ccs)
             /\ Head(mcp2ccs) = mcp2ccs[1]
             /\ inbox'[c] = Append(inbox[c], mcp2ccs[1])
             /\ Received(c)' = Received(c) \cup {mcp2ccs[1]}
             /\ Len(inbox[c]) \in Nat /\ Len(inbox'[c]) = Len(inbox[c]) + 1
             /\ \A i \in 1 .. Len(inbox[c]) : inbox'[c][i] = inbox[c][i]
             /\ inbox'[c][Len(inbox[c]) + 1] = mcp2ccs[1]
  <2>1. /\ mcp2ccs # <<>> /\ Head(mcp2ccs) = mcp2ccs[1] /\ mcp2ccs[1] \in Frame
        /\ 1 \in 1 .. Len(mcp2ccs) /\ inbox'[c] = Append(inbox[c], Head(mcp2ccs))
    BY <1>2, <1>a, HeadTakenOff DEF DeliveredTo
  <2>2. inbox[c] \in Seq(Frame)
    BY ConnsTyped DEF Known
  <2> DEFINE q == inbox[c]
             f == mcp2ccs[1]
  <2> HIDE DEF q, f
  <2>3. /\ Len(q) \in Nat /\ Len(Append(q, f)) = Len(q) + 1
        /\ \A i \in 1 .. Len(q) : Append(q, f)[i] = q[i]
        /\ Append(q, f)[Len(q) + 1] = f
    BY <2>1, <2>2, AppendProperties, LenProperties DEF q, f
  <2>4. inbox'[c] = Append(q, f)
    BY <2>1 DEF q, f
  <2>5. Received(c)' = Received(c) \cup {f}
    <3>1. \A i \in 1 .. Len(q) + 1 : i \in 1 .. Len(q) \/ i = Len(q) + 1
      BY <2>3
    <3>2. {inbox'[c][i] : i \in 1 .. Len(inbox'[c])} = {q[i] : i \in 1 .. Len(q)} \cup {f}
      BY <2>3, <2>4, <3>1
    <3> QED BY <3>2 DEF Received, q
  <2> QED BY <2>1, <2>3, <2>4, <2>5 DEF q, f, Out
<1>3. \A c \in Known' : \/ c \in Known /\ Received(c)' = Received(c)
                        \/ c \in Known /\ DeliveredTo(c)
                        \/ c \notin Known /\ Received(c)' = {} /\ inbox'[c] = <<>>
  <2>1. \A c \in Known : inbox'[c] = inbox[c] => Received(c)' = Received(c)
    BY DEF Received
  <2>2. \A c \in Known' \ Known : inbox'[c] = <<>>
    BY <1>0 DEF CcsMoves
  <2>3. \A c : inbox'[c] = <<>> => Received(c)' = {}
    BY DEF Received
  <2>4. \A c \in Known : inbox'[c] = inbox[c] \/ DeliveredTo(c)
    BY <1>0 DEF CcsMoves, DeliveredTo
  <2> QED BY <2>1, <2>2, <2>3, <2>4
<1>4. Out' \subseteq Out
  <2> SUFFICES ASSUME NEW f \in Out' PROVE f \in Out
    OBVIOUS
  <2>1. CASE f \in {mcp2ccs'[j] : j \in 1 .. Len(mcp2ccs')}
    BY <1>1, <2>1 DEF Out
  <2>2. ASSUME NEW c \in Known', f \in Received(c)' PROVE f \in Out
    <3>1. CASE c \in Known /\ Received(c)' = Received(c)
      BY <2>2, <3>1 DEF Out
    <3>2. CASE c \in Known /\ DeliveredTo(c)
      BY <1>2, <2>2, <3>2 DEF Out
    <3> QED BY <1>3, <2>2, <3>1, <3>2
  <2> QED BY <2>1, <2>2 DEF Out
<1> QED BY <1>2, <1>3, <1>4

LEMMA CcsOrdered ==
  ASSUME Typed, Routed, Asking, Ordered, CcsNext, UNCHANGED mcpVars
  PROVE  Ordered'
<1>0. CcsMoves /\ Grown /\ UNCHANGED <<g_mapTopicToAgent, mpc, pMsgBuff, inPlace, todo>>
  BY CcsMovesStep DEF CcsMoves, mcpVars
<1>a. /\ ccs2mcp \in Seq(Frame) /\ mcp2ccs \in Seq(Frame) /\ Len(ccs2mcp) \in Nat
      /\ Len(mcp2ccs) \in Nat /\ Len(sent) \in Nat
  BY LenProperties DEF Typed, TypeOK, CcsTypeOK
<1>2. ASSUME NEW c \in Known, DeliveredTo(c)
      PROVE  /\ mcp2ccs # <<>> /\ mcp2ccs[1] \in Out /\ 1 \in 1 .. Len(mcp2ccs)
             /\ Received(c)' = Received(c) \cup {mcp2ccs[1]}
             /\ Len(inbox[c]) \in Nat /\ Len(inbox'[c]) = Len(inbox[c]) + 1
             /\ \A i \in 1 .. Len(inbox[c]) : inbox'[c][i] = inbox[c][i]
             /\ inbox'[c][Len(inbox[c]) + 1] = mcp2ccs[1]
  BY <1>2, CcsDelivers
<1>3. \A c \in Known' : \/ c \in Known /\ Received(c)' = Received(c)
                        \/ c \in Known /\ DeliveredTo(c)
                        \/ c \notin Known /\ Received(c)' = {} /\ inbox'[c] = <<>>
  BY CcsDelivers
<1>4. Out' \subseteq Out
  BY CcsDelivers
<1>5. RingInOrder' /\ OutBehind' /\ HeadInHand'
  <2>1. CASE UNCHANGED ccs2mcp
    BY <1>0, <1>4, <2>1 DEF Ordered, RingInOrder, OutBehind, HeadInHand, From, IsCopy
  <2>2. CASE Requested
    <3>1. PICK s \in Suffixes, c \in Known, f \in Frame : RequestMade(s, c, f)
      BY <2>2, RequestedMakes
    <3>2. ccs2mcp' = Append(ccs2mcp, f) /\ f.req = Len(sent) + 1
      BY <3>1 DEF RequestMade
    <3>3. /\ Len(ccs2mcp') = Len(ccs2mcp) + 1 /\ ccs2mcp' # <<>>
          /\ \A i \in 1 .. Len(ccs2mcp) : ccs2mcp'[i] = ccs2mcp[i]
          /\ ccs2mcp'[Len(ccs2mcp) + 1] = f
      BY <1>a, <3>2, AppendProperties
    <3>4. \A i \in 1 .. Len(ccs2mcp') : i \in 1 .. Len(ccs2mcp) \/ i = Len(ccs2mcp) + 1
      BY <1>a, <3>3
    <3>5. /\ \A i \in 1 .. Len(ccs2mcp) : ccs2mcp[i].req < f.req
          /\ \A g \in Out : From(g.req, f)
          /\ mpc # "idle" => From(pMsgBuff.req, f)
      BY <1>a, <3>2, OutFacts DEF From
    <3>6. RingInOrder'
      <4> SUFFICES ASSUME NEW i \in 1 .. Len(ccs2mcp'), NEW j \in 1 .. Len(ccs2mcp'), i < j
                   PROVE  ccs2mcp'[i].req < ccs2mcp'[j].req
        BY DEF RingInOrder
      <4>1. i \in 1 .. Len(ccs2mcp)
        BY <1>a, <3>3
      <4>2. CASE j = Len(ccs2mcp) + 1
        BY <3>3, <3>5, <4>1, <4>2
      <4>3. CASE j \in 1 .. Len(ccs2mcp)
        BY <3>3, <4>1, <4>3 DEF Ordered, RingInOrder
      <4> QED BY <3>4, <4>2, <4>3
    <3>7. \A g \in Out : \A i \in 1 .. Len(ccs2mcp') : From(g.req, ccs2mcp'[i])
      BY <3>3, <3>4, <3>5 DEF Ordered, OutBehind
    <3>8. mpc # "idle" => \A i \in 1 .. Len(ccs2mcp') : From(pMsgBuff.req, ccs2mcp'[i])
      BY <3>3, <3>4, <3>5 DEF Ordered, OutBehind
    <3>9. OutBehind'
      BY <1>0, <1>4, <3>7, <3>8 DEF Ordered, OutBehind, From, IsCopy
    <3>10. HeadInHand'
      <4>1. ccs2mcp # <<>> => ccs2mcp'[1] = ccs2mcp[1]
        BY <1>a, <3>3, EmptySeq
      <4> QED BY <1>0, <3>3, <4>1 DEF Ordered, HeadInHand
    <3> QED BY <3>6, <3>9, <3>10
  <2> QED BY <1>0, <2>1, <2>2 DEF CcsMoves
<1>6. SetsRight'
  BY <1>0 DEF Ordered, SetsRight, AddressesApart
<1>7. PipeInOrder'
  <2>1. CASE mcp2ccs' = mcp2ccs
    BY <2>1 DEF Ordered, PipeInOrder, Before, IsCopy
  <2>2. CASE mcp2ccs # <<>> /\ mcp2ccs' = Tail(mcp2ccs)
    <3>1. \A i \in 1 .. Len(mcp2ccs') :
            mcp2ccs'[i] = mcp2ccs[i + 1] /\ i + 1 \in 1 .. Len(mcp2ccs)
      BY <1>a, <2>2, HeadTakenOff
    <3>2. \A i, j \in 1 .. Len(mcp2ccs') : i < j => i + 1 < j + 1
      BY <1>a
    <3> QED BY <3>1, <3>2 DEF Ordered, PipeInOrder, Before, IsCopy
  <2> QED BY <1>0, <2>1, <2>2 DEF CcsMoves
<1>8. ASSUME NEW c \in Known, DeliveredTo(c), NEW g \in Received(c), g.conn = c
      PROVE  Before(g, mcp2ccs[1])
  <2>1. cpc = "idle" /\ 1 \in 1 .. Len(mcp2ccs)
    BY <1>2, <1>8 DEF DeliveredTo
  <2>2. conns[c].life = ccsDeaths
    <3>1. m_pSocket[mcp2ccs[1].m_iSuffix] # FreeNode /\ m_pSocket[mcp2ccs[1].m_iSuffix].conn = c
      BY <1>2, <1>8, <1>a, HeadTakenOff DEF DeliveredTo, FindsNode
    <3>2. mcp2ccs[1] \in Frame
      BY <1>a, <2>1, ElementOfSeq
    <3>3. mcp2ccs[1].m_iSuffix \in Suffixes
      BY <3>2 DEF Frame
    <3> QED BY <3>1, <3>3, RoutedFacts
  <2> QED BY <1>8, <2>1, <2>2 DEF Ordered, InboxThenPipe, Next2Deliver
<1>9. InOrder'
  <2> SUFFICES ASSUME NEW c \in Known', NEW i \in 1 .. Len(inbox'[c]),
                      NEW j \in 1 .. Len(inbox'[c]), i < j,
                      inbox'[c][i].conn = c, inbox'[c][j].conn = c
               PROVE  Before(inbox'[c][i], inbox'[c][j])
    BY DEF InOrder, Before, Known, IsCopy
  <2>1. CASE c \in Known /\ inbox'[c] = inbox[c]
    BY <2>1 DEF Ordered, InOrder, Before, Known
  <2>2. CASE c \in Known /\ DeliveredTo(c)
    <3>1. /\ i \in 1 .. Len(inbox[c]) /\ inbox'[c][i] = inbox[c][i]
          /\ j \in 1 .. Len(inbox[c]) \/ j = Len(inbox[c]) + 1
      BY <1>2, <2>2
    <3>2. CASE j \in 1 .. Len(inbox[c])
      <4>1. inbox'[c][j] = inbox[c][j]
        BY <1>2, <2>2, <3>2
      <4> QED BY <2>2, <3>1, <3>2, <4>1 DEF Ordered, InOrder, Before, Known
    <3>3. CASE j = Len(inbox[c]) + 1
      <4>1. inbox'[c][j] = mcp2ccs[1] /\ inbox[c][i] \in Received(c)
        BY <1>2, <2>2, <3>1, <3>3 DEF Received
      <4> QED BY <1>8, <2>2, <3>1, <4>1
    <3> QED BY <3>1, <3>2, <3>3
  <2>3. CASE c \notin Known
    <3>1. inbox'[c] = <<>>
      BY <1>3, <2>3
    <3>2. Len(inbox'[c]) = 0
      BY <3>1
    <3> QED BY <3>2
  <2>4. c \in Known => inbox'[c] = inbox[c] \/ DeliveredTo(c)
    BY <1>0 DEF CcsMoves, DeliveredTo
  <2> QED BY <2>1, <2>2, <2>3, <2>4
<1>10. InboxThenPipe'
  <2>1. CASE CcsRestart
    <3>1. ccsDeaths' = ccsDeaths + 1 /\ Known' = Known
      BY <1>a, <2>1, <1>3 DEF CcsRestart, Known, Typed, TypeOK, CcsTypeOK
    <3>2. \A c \in Known : conns'[c].life = conns[c].life
      BY <1>0 DEF Grown
    <3>3. \A c \in Known' : conns'[c].life # ccsDeaths'
      BY <3>1, <3>2, RoutedFacts
    <3> QED BY <3>3 DEF InboxThenPipe
  <2>2. ASSUME ccsDeaths' = ccsDeaths, NEW k \in {0, 1}, MovesUp(k),
               \/ \A c \in Known : inbox'[c] = inbox[c]
               \/ \A j \in Next2Deliver' .. Len(mcp2ccs') : j + k >= 2
        PROVE  InboxThenPipe'
    <3> SUFFICES ASSUME NEW c \in Known', conns'[c].life = ccsDeaths', NEW g \in Received(c)',
                        NEW j \in Next2Deliver' .. Len(mcp2ccs'), g.conn = c
                 PROVE  Before(g, mcp2ccs'[j])
      BY DEF InboxThenPipe, Before, IsCopy
    <3>1. /\ j + k \in Next2Deliver .. Len(mcp2ccs) /\ mcp2ccs'[j] = mcp2ccs[j + k]
          /\ 1 <= j + k
      <4>1. j + k \in Next2Deliver .. Len(mcp2ccs) /\ mcp2ccs'[j] = mcp2ccs[j + k]
        BY <2>2 DEF MovesUp
      <4> QED BY <4>1 DEF Next2Deliver
    <3>2. CASE c \in Known /\ g \in Received(c)
      <4>1. conns[c].life = ccsDeaths
        BY <1>0, <2>2, <3>2 DEF Grown
      <4> QED BY <3>1, <3>2, <4>1 DEF Ordered, InboxThenPipe
    <3>3. CASE c \in Known /\ DeliveredTo(c) /\ g = mcp2ccs[1] /\ j + k >= 2
      <4>1. 1 < j + k /\ j + k \in 1 .. Len(mcp2ccs) /\ 1 \in 1 .. Len(mcp2ccs)
        BY <1>a, <3>1, <3>3, <1>2
      <4> QED BY <3>1, <3>3, <4>1 DEF Ordered, PipeInOrder
    <3>4. c \in Known
      BY <1>3
    <3>5. (\A d \in Known : inbox'[d] = inbox[d]) => g \in Received(c)
      BY <3>4 DEF Received
    <3>6. g \in Received(c) \/ (DeliveredTo(c) /\ g = mcp2ccs[1])
      BY <1>2, <1>3, <3>4
    <3> QED BY <2>2, <3>2, <3>3, <3>4, <3>5, <3>6
  <2> QED BY <2>1, <2>2, CcsMovesUp
<1> QED BY <1>5, <1>6, <1>7, <1>9, <1>10 DEF Ordered

LEMMA OrderedStep == ASSUME Typed, Routed, Asking, Ordered, [Next]_vars PROVE Ordered'
<1>1. CASE CcsNext /\ UNCHANGED mcpVars
  BY <1>1, CcsOrdered
<1>2. CASE McpNext /\ UNCHANGED ccsVars
  BY <1>2, McpOrdered
<1>3. CASE UNCHANGED vars
  <2>1. UNCHANGED ccsVars /\ UNCHANGED mcpVars /\ UNCHANGED <<ccs2mcp, mcp2ccs>>
    BY <1>3 DEF vars
  <2>2. PipeInOrder' /\ InboxThenPipe' /\ InOrder' /\ Out' = Out
    BY <2>1, NothingSent DEF Ordered
  <2> QED BY <2>1, <2>2 DEF mcpVars, Ordered, RingInOrder, OutBehind, HeadInHand, SetsRight,
                            AddressesApart, From, IsCopy
<1> QED BY <1>1, <1>2, <1>3 DEF Next

(* A connection gets the messages it subscribed to in the order in which   *)
(* they were published, each at most once, and its answers in the order of *)
(* its requests, over any number of deaths of either process.              *)
THEOREM BrokerInOrder == Spec => []InOrder
<1>1. Init => Typed /\ Routed /\ Asking /\ Ordered
  BY TypedInit, RoutedInit, AskingInit, OrderedInit
<1>2. Typed /\ Routed /\ Asking /\ Ordered /\ [Next]_vars => (Typed /\ Routed /\ Asking /\ Ordered)'
  <2> SUFFICES ASSUME Typed, Routed, Asking, Ordered, [Next]_vars
               PROVE  Typed' /\ Routed' /\ Asking' /\ Ordered'
    OBVIOUS
  <2> QED BY TypedStep, RoutedStep, AskingStep, OrderedStep
<1>3. Ordered => InOrder
  BY DEF Ordered
<1> QED BY <1>1, <1>2, <1>3, PTL DEF Spec


-----------------------------------------------------------------------------
(* Who is found.  Rewriting leaves the head of a frame alone, but for the  *)
(* head of a subscriber that is put in its place.                          *)
LEMMA HeadIsKept ==
  ASSUME NEW f \in Frame
  PROVE  /\ Answered(f).m_iSuffix = f.m_iSuffix /\ Answered(f).echo = f.echo
         /\ \A l \in LenField : LET g == [f EXCEPT !.msgLen = l]
                                IN g.m_iSuffix = f.m_iSuffix /\ g.echo = f.echo
<1>1. \A t \in RspTypes : LET g == [f EXCEPT !.type = t]
                          IN g.m_iSuffix = f.m_iSuffix /\ g.echo = f.echo
  BY DEF Frame
<1>2. Answered(f) = f \/ \E t \in RspTypes : Answered(f) = [f EXCEPT !.type = t]
  BY DEF Answered, RspTypes
<1>3. \A l \in LenField : LET g == [f EXCEPT !.msgLen = l]
                          IN g.m_iSuffix = f.m_iSuffix /\ g.echo = f.echo
  BY DEF Frame
<1>4. Answered(f).m_iSuffix = f.m_iSuffix /\ Answered(f).echo = f.echo
  <2>1. CASE Answered(f) = f
    BY <2>1
  <2>2. ASSUME NEW t \in RspTypes, Answered(f) = [f EXCEPT !.type = t]
        PROVE  Answered(f).m_iSuffix = f.m_iSuffix /\ Answered(f).echo = f.echo
    BY <1>1, <2>2
  <2> QED BY <1>2, <2>1, <2>2
<1> QED BY <1>3, <1>4

LEMMA FindingClosed == Closed(FindingFrame, FindingAgent)
<1>1. FindingFrame \subseteq Frame /\ FindingAgent \subseteq EasyMQAgent
  BY DEF FindingFrame, FindingAgent
<1>2. \A f \in FindingFrame : Answered(f) \in FindingFrame
  BY AnsweredIs, HeadIsKept DEF FindingFrame
<1>3. \A f \in FindingFrame, l \in LenField : [f EXCEPT !.msgLen = l] \in FindingFrame
  BY AnswerIs, HeadIsKept DEF FindingFrame
<1>4. \A f \in FindingFrame, a \in FindingAgent : CopyFor(f, a) \in FindingFrame
  BY CopyIs DEF FindingFrame, FindingAgent
<1>5. \A f \in FindingFrame : [addr |-> f.addr, m_iSuffix |-> f.m_iSuffix,
                               echo |-> f.echo, conn |-> f.conn] \in FindingAgent
  <2> SUFFICES ASSUME NEW f \in FindingFrame
               PROVE  [addr |-> f.addr, m_iSuffix |-> f.m_iSuffix,
                       echo |-> f.echo, conn |-> f.conn] \in FindingAgent
    OBVIOUS
  <2>1. f \in Frame /\ Finds(f.conn, f.m_iSuffix, f.echo)
    BY DEF FindingFrame
  <2>2. [addr |-> f.addr, m_iSuffix |-> f.m_iSuffix,
         echo |-> f.echo, conn |-> f.conn] \in EasyMQAgent
    BY <2>1, FrameRewritten
  <2> QED BY <2>1, <2>2 DEF FindingAgent
<1> QED BY <1>1, <1>2, <1>3, <1>4, <1>5 DEF Closed, CopyFor

LEMMA FoundInit == ASSUME Init PROVE Found
BY DEF Init, CcsInit, McpInit, Found, OnePlace, Within, FreeNode

LEMMA McpFound == ASSUME Typed, Found, McpNext, UNCHANGED ccsVars PROVE Found'
<1>0. UNCHANGED <<m_pSocket, main2me, conns, sent>>
  BY DEF ccsVars
<1>1. FindingFrame' = FindingFrame /\ FindingAgent' = FindingAgent
  BY <1>0 DEF FindingFrame, FindingAgent, Finds, HasSent, Known
<1>2. PICK F : F = FindingFrame
  OBVIOUS
<1>3. PICK A : A = FindingAgent
  OBVIOUS
<1>4. OnlyFrames
  BY DEF Typed, TypeOK, McpTypeOK, OnlyFrames
<1>5. Closed(F, A) /\ Within(F, A)
  BY <1>2, <1>3, FindingClosed DEF Found
<1>6. Within(F, A)'
  BY <1>4, <1>5, McpStepWithin
<1>7. Within(FindingFrame, FindingAgent)'
  BY <1>1, <1>2, <1>3, <1>6 DEF Within
<1> QED BY <1>0, <1>7 DEF Found, OnePlace, Known

(* Where a step of CCS puts a connection.                                  *)
SlotsOnlyFreed ==
  /\ \A r \in Suffixes : m_pSocket'[r] = m_pSocket[r] \/ m_pSocket'[r] = FreeNode
  /\ main2me' = main2me \/ main2me' = <<>> \/ (main2me # <<>> /\ main2me' = Tail(main2me))

Accepted ==
  /\ UNCHANGED <<m_pSocket, sent>>
  /\ Len(main2me') = Len(main2me) + 1
  /\ \A k \in 1 .. Len(main2me) : main2me'[k] = main2me[k]
  /\ main2me'[Len(main2me) + 1].conn = Len(conns) + 1

PutInSlot(s) ==
  /\ main2me # <<>> /\ main2me' = Tail(main2me) /\ sent' = sent
  /\ m_pSocket'[s].conn = main2me[1].conn
  /\ \A r \in Suffixes \ {s} : m_pSocket'[r] = m_pSocket[r]

LEMMA CcsSlots ==
  ASSUME Typed, CcsNext
  PROVE  SlotsOnlyFreed \/ Accepted \/ \E s \in Suffixes : PutInSlot(s)
<1> DEFINE M == [conn : Conns, m_iSuffix : Suffixes]
<1>0. /\ main2me \in Seq(M)
      /\ m_pSocket \in [Suffixes -> [conn : Conns \cup {0}, m_unID : Ids]]
  BY DEF Typed, TypeOK, CcsTypeOK
<1>a. ASSUME NEW s \in Suffixes, ClearSocketNode(s)
      PROVE  \A r \in Suffixes : m_pSocket'[r] = m_pSocket[r] \/ m_pSocket'[r] = FreeNode
  BY <1>0, <1>a DEF ClearSocketNode
<1>1. ASSUME NEW a \in Clients, NEW s \in Suffixes, Accept(a, s) PROVE Accepted
  <2> DEFINE m == [conn |-> Len(conns) + 1, m_iSuffix |-> s]
  <2>1. main2me' = Append(main2me, m) /\ UNCHANGED <<m_pSocket, sent>>
    BY <1>1 DEF Accept
  <2>2. m \in M /\ m.conn = Len(conns) + 1
    BY <1>1, ConnsTyped DEF Accept, Conns
  <2> HIDE DEF m, M
  <2>3. /\ Len(main2me') = Len(main2me) + 1 /\ main2me'[Len(main2me) + 1] = m
        /\ \A k \in 1 .. Len(main2me) : main2me'[k] = main2me[k]
    BY <1>0, <2>1, <2>2, AppendProperties
  <2> QED BY <2>1, <2>2, <2>3 DEF Accepted
<1>2. ASSUME NEW c \in 1 .. Len(conns), ClientCloses(c) PROVE SlotsOnlyFreed
  BY <1>2 DEF ClientCloses, SlotsOnlyFreed
<1>3. ASSUME NEW s \in Suffixes, NEW type \in Requests, NEW t \in Topics,
             RecvClientData(s, type, t)
      PROVE  SlotsOnlyFreed
  BY <1>3, <1>a DEF RecvClientData, SlotsOnlyFreed
<1>4. CASE CreateSocketNode
  <2>1. main2me # <<>> /\ main2me' = Tail(main2me) /\ sent' = sent
    BY <1>4 DEF CreateSocketNode
  <2>2. Head(main2me) = main2me[1] /\ Head(main2me) \in M
    <3> HIDE DEF M
    <3> QED BY <1>0, <2>1, HeadTakenOff
  <2> DEFINE new == Head(main2me)
  <2>3. new.m_iSuffix \in Suffixes
    BY <2>2
  <2>4. CASE m_pSocket' = [m_pSocket EXCEPT ![new.m_iSuffix] =
                             [conn |-> new.conn, m_unID |-> m_unID]]
    <3>1. /\ m_pSocket'[new.m_iSuffix] = [conn |-> new.conn, m_unID |-> m_unID]
          /\ \A r \in Suffixes \ {new.m_iSuffix} : m_pSocket'[r] = m_pSocket[r]
      BY <1>0, <2>3, <2>4
    <3>2. PutInSlot(new.m_iSuffix)
      BY <2>1, <2>2, <3>1 DEF PutInSlot
    <3> QED BY <2>3, <3>2
  <2>5. CASE m_pSocket' = m_pSocket
    BY <2>1, <2>5 DEF SlotsOnlyFreed
  <2> QED BY <1>4, <2>4, <2>5 DEF CreateSocketNode
<1>5. ASSUME NEW s \in Suffixes, RecvClientClosed(s) PROVE SlotsOnlyFreed
  BY <1>5, <1>a DEF RecvClientClosed, SlotsOnlyFreed
<1>6. CASE CheckSvrMessage
  <2>1. Head(mcp2ccs).m_iSuffix \in Suffixes
    <3>1. mcp2ccs # <<>> /\ mcp2ccs \in Seq(Frame)
      BY <1>6 DEF CheckSvrMessage, Typed, TypeOK
    <3>2. Head(mcp2ccs) \in Frame
      BY <3>1, HeadTakenOff
    <3> QED BY <3>2 DEF Frame
  <2> QED BY <1>6, <1>a, <2>1 DEF CheckSvrMessage, DoSvrMessage, SlotsOnlyFreed
<1>7. CASE SkipSvrMessage
  BY <1>7 DEF SkipSvrMessage, SlotsOnlyFreed
<1>8. CASE CcsRestart
  BY <1>8 DEF CcsRestart, SlotsOnlyFreed
<1> QED BY <1>1, <1>2, <1>3, <1>4, <1>5, <1>6, <1>7, <1>8 DEF CcsNext, CcsWork


LEMMA SlotFacts ==
  ASSUME Typed
  PROVE  /\ Len(main2me) \in Nat /\ Len(sent) \in Nat /\ Len(conns) \in Nat
         /\ \A k \in 1 .. Len(main2me) : main2me[k].conn \in Known
         /\ \A s \in Suffixes : m_pSocket[s] # FreeNode => m_pSocket[s].conn \in Known
         /\ \A s \in Suffixes : m_pSocket[s] # FreeNode <=> m_pSocket[s].conn # 0
         /\ FreeNode.conn = 0 /\ 0 \notin Known /\ Len(conns) + 1 \notin Known
         /\ \A s \in Suffixes : m_pSocket[s].conn \in Nat
<1> DEFINE M == [conn : Conns, m_iSuffix : Suffixes]
<1>1. /\ main2me \in Seq(M) /\ Len(sent) \in Nat /\ Len(conns) \in Nat /\ MaxConns \in Nat
      /\ m_pSocket \in [Suffixes -> [conn : Conns \cup {0}, m_unID : Ids]]
  BY ConnsTyped, LenProperties DEF Typed, TypeOK, CcsTypeOK
<1>2. \A k \in 1 .. Len(main2me) : main2me[k] \in M
  <2> HIDE DEF M
  <2> QED BY <1>1, ElementOfSeq
<1>3. \A k \in 1 .. Len(main2me) : main2me[k].conn \in Known
  <2> SUFFICES ASSUME NEW k \in 1 .. Len(main2me) PROVE main2me[k].conn \in Known
    OBVIOUS
  <2>1. main2me[k].conn \in Conns /\ main2me[k].conn <= Len(conns)
    BY <1>2 DEF Typed
  <2> QED BY <1>1, <2>1 DEF Known, Conns
<1>4. FreeNode.conn = 0 /\ 0 \notin Known /\ Len(conns) + 1 \notin Known
  BY <1>1 DEF FreeNode, Known
<1>5. /\ \A s \in Suffixes : m_pSocket[s] # FreeNode => m_pSocket[s].conn \in Known
      /\ \A s \in Suffixes : m_pSocket[s] # FreeNode <=> m_pSocket[s].conn # 0
  BY <1>4, ConnsTyped DEF Known, Typed
<1>6. Len(main2me) \in Nat
  BY <1>1, LenProperties
<1>7. \A s \in Suffixes : m_pSocket[s].conn \in Nat
  BY <1>1 DEF Conns
<1> QED BY <1>1, <1>3, <1>4, <1>5, <1>6, <1>7

(* A connection that has sent something does not get a slot any more.      *)
LEMMA SlotStays ==
  ASSUME Typed, OnePlace, CcsNext, NEW r \in Suffixes, NEW c \in Known, HasSent(c),
         m_pSocket'[r].conn = c
  PROVE  m_pSocket'[r] = m_pSocket[r]
<1>1. CASE SlotsOnlyFreed
  BY <1>1, SlotFacts DEF SlotsOnlyFreed
<1>2. CASE Accepted
  BY <1>2 DEF Accepted
<1>3. ASSUME NEW s \in Suffixes, PutInSlot(s) PROVE m_pSocket'[r] = m_pSocket[r]
  <2>1. 1 \in 1 .. Len(main2me)
    <3>1. main2me # <<>> /\ main2me \in Seq([conn : Conns, m_iSuffix : Suffixes])
      BY <1>3 DEF PutInSlot, Typed, TypeOK, CcsTypeOK
    <3>2. Len(main2me) \in Nat \ {0}
      BY <3>1, EmptySeq
    <3> QED BY <3>2
  <2>2. main2me[1].conn # c
    BY <2>1 DEF OnePlace, HasSent
  <2> QED BY <1>3, <2>2 DEF PutInSlot
<1> QED BY <1>1, <1>2, <1>3, CcsSlots

LEMMA OnePlaceKept ==
  ASSUME Typed, OnePlace, CcsNext, UNCHANGED sent
  PROVE  OnePlace'
<1>0. /\ Grown /\ Known \subseteq Known'
      /\ \A p \in 1 .. Len(sent') : sent'[p].conn \in Known'
  BY CcsMovesStep DEF CcsMoves, Grown, OnePlace
<1>a. main2me # <<>> =>
        /\ 1 \in 1 .. Len(main2me) /\ Len(Tail(main2me)) = Len(main2me) - 1
        /\ \A k \in 1 .. Len(Tail(main2me)) :
             Tail(main2me)[k] = main2me[k + 1] /\ k + 1 \in 1 .. Len(main2me) /\ k + 1 # 1
  <2> DEFINE M == [conn : Conns, m_iSuffix : Suffixes]
  <2>1. main2me \in Seq(M)
    BY DEF Typed, TypeOK, CcsTypeOK
  <2> HIDE DEF M
  <2>2. main2me # <<>> =>
          /\ Len(main2me) \in Nat \ {0} /\ Len(Tail(main2me)) = Len(main2me) - 1
          /\ \A k \in 1 .. Len(Tail(main2me)) :
               Tail(main2me)[k] = main2me[k + 1] /\ k + 1 \in 1 .. Len(main2me)
    BY <2>1, HeadTakenOff
  <2> QED BY <2>2
<1>b. SUFFICES ASSUME SlotsOnlyFreed \/ Accepted \/ \E s \in Suffixes : PutInSlot(s)
               PROVE  /\ \A r, s \in Suffixes :
                           m_pSocket'[s] # FreeNode /\ m_pSocket'[r].conn = m_pSocket'[s].conn
                             => r = s
                      /\ \A k \in 1 .. Len(main2me'), s \in Suffixes :
                           main2me'[k].conn # m_pSocket'[s].conn
                      /\ \A k, l \in 1 .. Len(main2me') :
                           main2me'[k].conn = main2me'[l].conn => k = l
                      /\ \A k \in 1 .. Len(main2me'), p \in 1 .. Len(sent) :
                           main2me'[k].conn # sent[p].conn
  BY <1>0, CcsSlots DEF OnePlace
<1>1. CASE SlotsOnlyFreed
  <2>0. ASSUME NEW r \in Suffixes, NEW s \in Suffixes,
               m_pSocket'[s] # FreeNode, m_pSocket'[r].conn = m_pSocket'[s].conn
        PROVE  r = s
    <3>1. m_pSocket'[s] = m_pSocket[s] /\ m_pSocket[s].conn # 0
      BY <1>1, <2>0, SlotFacts DEF SlotsOnlyFreed
    <3>2. m_pSocket'[r] = m_pSocket[r]
      BY <1>1, <2>0, <3>1, SlotFacts DEF SlotsOnlyFreed
    <3> QED BY <2>0, <3>1, <3>2, SlotFacts DEF OnePlace
  <2>1. \A k \in 1 .. Len(main2me), s \in Suffixes : main2me[k].conn # m_pSocket'[s].conn
    BY <1>1, SlotFacts DEF SlotsOnlyFreed, OnePlace
  <2>2. CASE main2me' = main2me
    BY <2>0, <2>1, <2>2 DEF OnePlace
  <2>3. CASE main2me' = <<>>
    <3>1. Len(main2me') = 0
      BY <2>3
    <3> QED BY <2>0, <3>1
  <2>4. CASE main2me # <<>> /\ main2me' = Tail(main2me)
    <3>1. \A k \in 1 .. Len(main2me') : main2me'[k] = main2me[k + 1] /\ k + 1 \in 1 .. Len(main2me)
      BY <1>a, <2>4
    <3>2. \A k, l \in 1 .. Len(main2me') : k + 1 = l + 1 => k = l
      OBVIOUS
    <3>3. ASSUME NEW k \in 1 .. Len(main2me'), NEW l \in 1 .. Len(main2me'),
                 main2me'[k].conn = main2me'[l].conn
          PROVE  k = l
      <4>1. main2me[k + 1].conn = main2me[l + 1].conn
        BY <3>1, <3>3
      <4>2. k + 1 \in 1 .. Len(main2me) /\ l + 1 \in 1 .. Len(main2me)
        BY <3>1
      <4>3. k + 1 = l + 1
        BY <4>1, <4>2 DEF OnePlace
      <4> QED BY <3>2, <4>3
    <3>4. /\ \A k \in 1 .. Len(main2me'), s \in Suffixes : main2me'[k].conn # m_pSocket'[s].conn
          /\ \A k \in 1 .. Len(main2me'), p \in 1 .. Len(sent) : main2me'[k].conn # sent[p].conn
      BY SMTT(30), <2>1, <3>1 DEF OnePlace
    <3> QED BY <2>0, <3>3, <3>4
  <2> QED BY <1>1, <2>2, <2>3, <2>4 DEF SlotsOnlyFreed
<1>2. CASE Accepted
  <2>1. \A k \in 1 .. Len(main2me') :
          \/ k \in 1 .. Len(main2me) /\ main2me'[k] = main2me[k] /\ main2me[k].conn \in Known
          \/ k = Len(main2me) + 1 /\ main2me'[k].conn = Len(conns) + 1
    BY <1>2, SlotFacts DEF Accepted
  <2>2. \A p \in 1 .. Len(sent) : sent[p].conn # Len(conns) + 1
    BY SlotFacts DEF OnePlace
  <2>3. \A s \in Suffixes : m_pSocket[s].conn # Len(conns) + 1
    BY SlotFacts
  <2> QED BY SMTT(30), <1>2, <2>1, <2>2, <2>3, SlotFacts DEF Accepted, OnePlace
<1>3. ASSUME NEW s \in Suffixes, PutInSlot(s)
      PROVE  /\ \A r, q \in Suffixes :
                  m_pSocket'[q] # FreeNode /\ m_pSocket'[r].conn = m_pSocket'[q].conn => r = q
             /\ \A k \in 1 .. Len(main2me'), q \in Suffixes :
                  main2me'[k].conn # m_pSocket'[q].conn
             /\ \A k, l \in 1 .. Len(main2me') : main2me'[k].conn = main2me'[l].conn => k = l
             /\ \A k \in 1 .. Len(main2me'), p \in 1 .. Len(sent) :
                  main2me'[k].conn # sent[p].conn
  <2>1. /\ 1 \in 1 .. Len(main2me)
        /\ \A k \in 1 .. Len(main2me') :
             main2me'[k] = main2me[k + 1] /\ k + 1 \in 1 .. Len(main2me) /\ k + 1 # 1
    BY <1>a, <1>3 DEF PutInSlot
  <2>2. /\ m_pSocket'[s].conn = main2me[1].conn
        /\ \A r \in Suffixes \ {s} : m_pSocket'[r] = m_pSocket[r]
        /\ \A r \in Suffixes : m_pSocket[r].conn # main2me[1].conn
    BY <1>3, <2>1 DEF PutInSlot, OnePlace
  <2>3. \A r, q \in Suffixes :
          m_pSocket'[q] # FreeNode /\ m_pSocket'[r].conn = m_pSocket'[q].conn => r = q
    BY <2>2 DEF OnePlace
  <2>4. \A k \in 1 .. Len(main2me'), q \in Suffixes : main2me'[k].conn # m_pSocket'[q].conn
    <3> SUFFICES ASSUME NEW k \in 1 .. Len(main2me'), NEW q \in Suffixes
                 PROVE  main2me'[k].conn # m_pSocket'[q].conn
      OBVIOUS
    <3>1. main2me[k + 1].conn # main2me[1].conn
      BY <2>1 DEF OnePlace
    <3> QED BY <2>1, <2>2, <3>1 DEF OnePlace
  <2>5. \A k, l \in 1 .. Len(main2me') : k + 1 = l + 1 => k = l
    OBVIOUS
  <2>6. ASSUME NEW k \in 1 .. Len(main2me'), NEW l \in 1 .. Len(main2me'),
               main2me'[k].conn = main2me'[l].conn
        PROVE  k = l
    <3>1. main2me[k + 1].conn = main2me[l + 1].conn
      BY <2>1, <2>6
    <3>2. k + 1 \in 1 .. Len(main2me) /\ l + 1 \in 1 .. Len(main2me)
      BY <2>1
    <3>3. k + 1 = l + 1
      BY <3>1, <3>2 DEF OnePlace
    <3> QED BY <2>5, <3>3
  <2>7. ASSUME NEW k \in 1 .. Len(main2me'), NEW p \in 1 .. Len(sent)
        PROVE  main2me'[k].conn # sent[p].conn
    <3>1. main2me'[k] = main2me[k + 1] /\ k + 1 \in 1 .. Len(main2me)
      BY <2>1
    <3>2. main2me[k + 1].conn # sent[p].conn
      BY <3>1 DEF OnePlace
    <3> QED BY <3>1, <3>2
  <2> QED BY <2>3, <2>4, <2>6, <2>7
<1> QED BY <1>b, <1>1, <1>2, <1>3

LEMMA OnePlaceRequested ==
  ASSUME Typed, OnePlace, Requested
  PROVE  OnePlace'
<1>1. PICK s \in Suffixes, c \in Known, f \in Frame : RequestMade(s, c, f)
  BY RequestedMakes
<1>2. /\ UNCHANGED <<m_pSocket, main2me, conns>> /\ Known' = Known
      /\ m_pSocket[s].conn = c /\ Len(sent') = Len(sent) + 1
      /\ \A p \in 1 .. Len(sent) : sent'[p] = sent[p]
      /\ sent'[Len(sent) + 1].conn = c
  BY <1>1 DEF RequestMade, Known
<1>3. \A p \in 1 .. Len(sent') : p \in 1 .. Len(sent) \/ p = Len(sent) + 1
  BY <1>2, SlotFacts
<1>4. \A k \in 1 .. Len(main2me) : main2me[k].conn # c
  BY <1>2 DEF OnePlace
<1>5. \A k \in 1 .. Len(main2me'), p \in 1 .. Len(sent') : main2me'[k].conn # sent'[p].conn
  BY <1>2, <1>3, <1>4 DEF OnePlace
<1>6. \A p \in 1 .. Len(sent') : sent'[p].conn \in Known'
  BY <1>2, <1>3 DEF OnePlace
<1> QED BY <1>2, <1>5, <1>6 DEF OnePlace

LEMMA CcsFound == ASSUME Typed, Found, CcsNext, UNCHANGED mcpVars PROVE Found'
<1>0. CcsMoves /\ Grown
  BY CcsMovesStep DEF CcsMoves
<1>1. OnePlace'
  BY <1>0, OnePlaceKept, OnePlaceRequested DEF Found, CcsMoves
<1>2. ASSUME NEW c, NEW s, NEW e, Finds(c, s, e)
      PROVE  c \in Known' /\ HasSent(c)'
             /\ \A r \in Suffixes : m_pSocket'[r].conn = c => r = s /\ m_pSocket'[r].m_unID = e
  <2>1. c \in Known /\ HasSent(c) /\ OnePlace
    BY <1>2 DEF Finds, Found
  <2>2. c \in Known' /\ HasSent(c)'
    BY <1>0, <2>1 DEF Grown, HasSent
  <2>3. \A r \in Suffixes : m_pSocket'[r].conn = c => m_pSocket'[r] = m_pSocket[r]
    BY <2>1, SlotStays
  <2> QED BY <1>2, <2>2, <2>3 DEF Finds
<1>3. FindingFrame \subseteq FindingFrame'
  <2> SUFFICES ASSUME NEW f \in Frame, Finds(f.conn, f.m_iSuffix, f.echo)
               PROVE  Finds(f.conn, f.m_iSuffix, f.echo)'
    BY DEF FindingFrame
  <2>1. /\ f.conn \in Known' /\ HasSent(f.conn)'
        /\ \A r \in Suffixes :
             m_pSocket'[r].conn = f.conn => r = f.m_iSuffix /\ m_pSocket'[r].m_unID = f.echo
    BY <1>2
  <2> QED BY <2>1 DEF Finds
<1>4. FindingAgent \subseteq FindingAgent'
  <2> SUFFICES ASSUME NEW a \in EasyMQAgent, Finds(a.conn, a.m_iSuffix, a.echo)
               PROVE  Finds(a.conn, a.m_iSuffix, a.echo)'
    BY DEF FindingAgent
  <2>1. /\ a.conn \in Known' /\ HasSent(a.conn)'
        /\ \A r \in Suffixes :
             m_pSocket'[r].conn = a.conn => r = a.m_iSuffix /\ m_pSocket'[r].m_unID = a.echo
    BY <1>2
  <2> QED BY <2>1 DEF Finds
<1>5. ccs2mcp \in Seq(FindingFrame') /\ mcp2ccs \in Seq(FindingFrame')
  BY <1>3, SeqMonotonic DEF Found, Within
<1>6. mcp2ccs' \in Seq(FindingFrame')
  <2>1. mcp2ccs # <<>> => Tail(mcp2ccs) \in Seq(FindingFrame')
    BY <1>5, HeadTakenOff
  <2> QED BY <1>0, <1>5, <2>1 DEF CcsMoves
<1>7. ccs2mcp' \in Seq(FindingFrame') /\ (ccs2mcp # <<>> => ccs2mcp' # <<>>)
  <2>1. CASE UNCHANGED ccs2mcp
    BY <1>5, <2>1
  <2>2. CASE Requested
    <3>1. PICK s \in Suffixes, c \in Known, f \in Frame : RequestMade(s, c, f)
      BY <2>2, RequestedMakes
    <3>2. /\ m_pSocket[s] # FreeNode /\ m_pSocket[s].conn = c
          /\ f.conn = c /\ f.m_iSuffix = s /\ f.echo = m_pSocket[s].m_unID
          /\ ccs2mcp' = Append(ccs2mcp, f) /\ m_pSocket' = m_pSocket /\ conns' = conns
          /\ Len(sent') = Len(sent) + 1 /\ sent'[Len(sent) + 1].conn = c
      BY <3>1 DEF RequestMade
    <3>3. HasSent(c)'
      <4>1. Len(sent) + 1 \in 1 .. Len(sent')
        BY <3>2, SlotFacts
      <4> QED BY <3>2, <4>1 DEF HasSent
    <3>4. \A r \in Suffixes : m_pSocket[r].conn = c => r = s
      BY <3>2 DEF Found, OnePlace
    <3>5. f \in FindingFrame'
      BY <3>2, <3>3, <3>4 DEF FindingFrame, Finds, Known
    <3> QED BY <1>5, <3>2, <3>5, AppendProperties
  <2> QED BY <1>0, <2>1, <2>2 DEF CcsMoves
<1>8. Within(FindingFrame, FindingAgent)'
  BY <1>3, <1>4, <1>6, <1>7 DEF Found, Within, mcpVars
<1> QED BY <1>1, <1>8 DEF Found


-----------------------------------------------------------------------------
(* Whose connection is the last of its address.                            *)
LEMMA LastOpenInit == ASSUME Init PROVE LastOpen
BY DEF Init, CcsInit, LastOpen, Known

LEMMA CcsLastOpen == ASSUME Typed, OnePlace, LastOpen, CcsNext PROVE LastOpen'
<1>0. CcsMoves /\ Grown
  BY CcsMovesStep DEF CcsMoves
<1>1. ASSUME NEW c \in Known', NEW d \in Known', c < d, conns'[c].addr = conns'[d].addr
      PROVE  ~conns'[c].open
  <2>1. CASE c \in Known /\ d \in Known
    BY <1>0, <1>1, <2>1 DEF Grown, LastOpen
  <2>2. ASSUME NEW a \in Clients, NEW s \in Suffixes, Accept(a, s), ~(c \in Known /\ d \in Known)
        PROVE  ~conns'[c].open
    <3> DEFINE R == [addr : Clients, open : BOOLEAN, life : 0 .. MaxCcsDeaths]
               r == [addr |-> a, open |-> TRUE, life |-> ccsDeaths]
    <3>1. conns \in Seq(R) /\ r \in R /\ r.addr = a /\ Len(conns) \in Nat
      BY LenProperties DEF Typed, TypeOK, CcsTypeOK
    <3>2. /\ conns' = Append(conns, r)
          /\ \A b \in Known : conns[b].addr = a => ~conns[b].open
      BY <2>2 DEF Accept, Known
    <3> HIDE DEF r, R
    <3>3. Len(conns') = Len(conns) + 1 /\ conns'[Len(conns) + 1] = r
      BY <3>1, <3>2, AppendProperties
    <3>4. c \in Known /\ d = Len(conns) + 1
      BY <1>1, <2>2, <3>1, <3>3 DEF Known
    <3>5. conns'[c].addr = conns[c].addr /\ (conns'[c].open => conns[c].open)
      BY <1>0, <3>4 DEF Grown
    <3> QED BY <1>1, <3>1, <3>2, <3>3, <3>4, <3>5
  <2> QED BY <1>0, <1>1, <2>1, <2>2 DEF CcsMoves
<1>2. ASSUME NEW p \in 1 .. Len(sent'), NEW q \in 1 .. Len(sent'), p < q,
             conns'[sent'[p].conn].addr = conns'[sent'[q].conn].addr
      PROVE  sent'[p].conn <= sent'[q].conn
  <2>1. CASE q \in 1 .. Len(sent)
    <3>1. p \in 1 .. Len(sent) /\ sent'[p] = sent[p] /\ sent'[q] = sent[q]
      BY <1>0, <1>2, <2>1 DEF Grown
    <3>2. sent[p].conn \in Known /\ sent[q].conn \in Known
      BY <2>1, <3>1 DEF OnePlace
    <3>3. conns[sent[p].conn].addr = conns[sent[q].conn].addr
      BY <1>0, <1>2, <3>1, <3>2 DEF Grown
    <3> QED BY <1>2, <2>1, <3>1, <3>3 DEF LastOpen
  <2>2. CASE Requested
    <3>1. PICK s \in Suffixes, c \in Known, f \in Frame : RequestMade(s, c, f)
      BY <2>2, RequestedMakes
    <3>2. /\ conns[c].open /\ conns' = conns /\ Len(sent') = Len(sent) + 1
          /\ sent'[Len(sent) + 1].conn = c
          /\ \A b \in 1 .. Len(sent) : sent'[b] = sent[b]
      BY <3>1 DEF RequestMade
    <3>3. CASE q = Len(sent) + 1
      <4>1. p \in 1 .. Len(sent)
        BY <1>0, <1>2, <3>3 DEF Grown
      <4>2. sent'[p] = sent[p] /\ sent[p].conn \in Known
        BY <3>2, <4>1 DEF OnePlace
      <4>3. ~(c < sent[p].conn)
        BY <1>2, <3>2, <3>3, <4>2 DEF LastOpen
      <4>4. c \in Nat /\ sent[p].conn \in Nat
        BY <4>2, SlotFacts DEF Known
      <4> QED BY <3>2, <3>3, <4>2, <4>3, <4>4
    <3>4. q \in 1 .. Len(sent) \/ q = Len(sent) + 1
      BY <1>0, <3>2 DEF Grown
    <3> QED BY <2>1, <3>3, <3>4
  <2>3. CASE UNCHANGED sent
    BY <2>1, <2>3
  <2> QED BY <1>0, <2>2, <2>3 DEF CcsMoves
<1> QED BY <1>1, <1>2 DEF LastOpen

(* What MCP remembers.                                                     *)
LEMMA RememberedInit == ASSUME Init PROVE Remembered
BY DEF Init, CcsInit, McpInit, Remembered, Out, Known

LEMMA RegisteredStays ==
  ASSUME NEW t, NEW c \in Known, Registered(t, c), Grown,
         g_mapTopicToAgent[t] \subseteq g_mapTopicToAgent'[t]
  PROVE  Registered(t, c)'
BY DEF Registered, Grown

LEMMA OutKnown ==
  ASSUME Typed, Asking
  PROVE  /\ \A f \in Out : f \in ReplyFrame /\ f.conn \in Known /\ f.topic \in Topics
         /\ mpc # "idle" => /\ pMsgBuff \in Frame /\ pMsgBuff.conn \in Known
                            /\ pMsgBuff.topic \in Topics /\ pMsgBuff.type \in RspTypes
<1>1. Out \subseteq ReplyFrame
  BY OutFacts DEF Out
<1>2. \A f \in Out : f \in Frame /\ f.conn \in Known
  BY <1>1 DEF ReplyFrame
<1>3. \A f \in Out : f.topic \in Topics
  BY <1>2 DEF Frame
<1>4. mpc # "idle" => /\ pMsgBuff \in Frame /\ pMsgBuff.conn \in Known
                      /\ pMsgBuff.type \in RspTypes
  BY DEF Asking, WorkRight, RequestFrame
<1>5. pMsgBuff \in Frame => pMsgBuff.topic \in Topics
  BY DEF Frame
<1> QED BY <1>1, <1>2, <1>3, <1>4, <1>5

LEMMA CcsRemembered ==
  ASSUME Typed, Asking, Remembered, CcsNext, UNCHANGED mcpVars
  PROVE  Remembered'
<1>0. /\ CcsMoves /\ Grown /\ Out' \subseteq Out
      /\ UNCHANGED <<g_mapTopicToAgent, mpc, pMsgBuff, mcpDeaths>>
  BY CcsMovesStep, CcsDelivers DEF CcsMoves, mcpVars
<1> SUFFICES ASSUME mcpDeaths = 0
             PROVE  Remembered'
  BY <1>0 DEF Remembered
<1>1. mpc' = "init" => Registered(pMsgBuff.topic, pMsgBuff.conn)'
  <2> SUFFICES ASSUME mpc = "init" PROVE Registered(pMsgBuff.topic, pMsgBuff.conn)'
    BY <1>0
  <2>1. pMsgBuff.conn \in Known /\ Registered(pMsgBuff.topic, pMsgBuff.conn)
    BY OutKnown DEF Remembered
  <2> QED BY <1>0, <2>1 DEF Registered, Grown
<1>2. ASSUME NEW f \in Out', f.type = "init_rsp" PROVE Registered(f.topic, f.conn)'
  <2>1. f \in Out /\ f.conn \in Known /\ Registered(f.topic, f.conn)
    BY <1>0, <1>2, OutKnown DEF Remembered
  <2> QED BY <1>0, <2>1, RegisteredStays
<1>3. ASSUME NEW t \in Topics, NEW a \in g_mapTopicToAgent[t]
      PROVE  \E p \in 1 .. Len(sent') :
               /\ sent'[p].conn = a.conn
               /\ \A i \in 1 .. Len(ccs2mcp') :
                    ccs2mcp'[i].type \in ReqTypes => p < ccs2mcp'[i].req
  <2>1. PICK p \in 1 .. Len(sent) :
          /\ sent[p].conn = a.conn
          /\ \A i \in 1 .. Len(ccs2mcp) : ccs2mcp[i].type \in ReqTypes => p < ccs2mcp[i].req
    BY <1>3 DEF Remembered
  <2>2. p \in 1 .. Len(sent') /\ sent'[p].conn = a.conn
    BY <1>0, <2>1 DEF Grown
  <2>3. ASSUME NEW i \in 1 .. Len(ccs2mcp'), ccs2mcp'[i].type \in ReqTypes
        PROVE  p < ccs2mcp'[i].req
    <3>1. CASE UNCHANGED ccs2mcp
      BY <2>1, <2>3, <3>1
    <3>2. CASE Requested
      <4>1. PICK s \in Suffixes, c \in Known, f \in Frame : RequestMade(s, c, f)
        BY <3>2, RequestedMakes
      <4>2. ccs2mcp' = Append(ccs2mcp, f) /\ f.req = Len(sent) + 1 /\ ccs2mcp \in Seq(Frame)
        BY <4>1 DEF RequestMade, Typed, TypeOK
      <4>3. /\ Len(ccs2mcp') = Len(ccs2mcp) + 1 /\ Len(ccs2mcp) \in Nat
            /\ \A k \in 1 .. Len(ccs2mcp) : ccs2mcp'[k] = ccs2mcp[k]
            /\ ccs2mcp'[Len(ccs2mcp) + 1] = f
        BY <4>2, AppendProperties, LenProperties
      <4>4. i \in 1 .. Len(ccs2mcp) \/ i = Len(ccs2mcp) + 1
        BY <4>3
      <4>5. p < Len(sent) + 1
        BY <1>0 DEF Grown
      <4> QED BY <2>1, <2>3, <4>2, <4>3, <4>4, <4>5
    <3> QED BY <1>0, <3>1, <3>2 DEF CcsMoves
  <2> QED BY <2>2, <2>3
<1> QED BY <1>0, <1>1, <1>2, <1>3 DEF Remembered


(* A step of MCP that sends f, if anything, and takes no request.          *)
LEMMA RememberedKept ==
  ASSUME Typed, Asking, Remembered, UNCHANGED <<ccsVars, g_mapTopicToAgent, mcpDeaths>>,
         \A i \in 1 .. Len(ccs2mcp') : \E j \in 1 .. Len(ccs2mcp) :
           /\ ccs2mcp'[i].req = ccs2mcp[j].req
           /\ ccs2mcp'[i].type \in ReqTypes => ccs2mcp[j].type \in ReqTypes,
         NEW f, Out' \subseteq Out \cup {f},
         (mcpDeaths = 0 /\ f.type = "init_rsp") => Registered(f.topic, f.conn),
         mpc' # "init"
  PROVE  Remembered'
<1>0. UNCHANGED <<conns, sent>>
  BY DEF ccsVars
<1> SUFFICES ASSUME mcpDeaths = 0
             PROVE  Remembered'
  BY DEF Remembered
<1>1. \A g \in Out' : g.type = "init_rsp" => Registered(g.topic, g.conn)'
  BY <1>0 DEF Remembered, Registered
<1>2. ASSUME NEW t \in Topics, NEW a \in g_mapTopicToAgent[t]
      PROVE  \E p \in 1 .. Len(sent) :
               /\ sent[p].conn = a.conn
               /\ \A i \in 1 .. Len(ccs2mcp') :
                    ccs2mcp'[i].type \in ReqTypes => p < ccs2mcp'[i].req
  <2>1. PICK p \in 1 .. Len(sent) :
          /\ sent[p].conn = a.conn
          /\ \A i \in 1 .. Len(ccs2mcp) : ccs2mcp[i].type \in ReqTypes => p < ccs2mcp[i].req
    BY <1>2 DEF Remembered
  <2> QED BY <2>1
<1> QED BY <1>0, <1>1, <1>2 DEF Remembered

(* What SkipRequest leaves in the ring was there, further back.            *)
LEMMA SkippedMovesUp ==
  ASSUME Typed, SkipRequest
  PROVE  \/ UNCHANGED ccs2mcp
         \/ /\ inPlace /\ ccs2mcp # <<>> /\ ccs2mcp \in Seq(Frame)
            /\ Len(ccs2mcp) \in Nat \ {0} /\ Len(ccs2mcp') = Len(ccs2mcp) - 1
            /\ \A i \in 1 .. Len(ccs2mcp') :
                 ccs2mcp'[i] = ccs2mcp[i + 1] /\ i + 1 \in 1 .. Len(ccs2mcp)
<1>1. CASE inPlace
  <2>1. ccs2mcp # <<>> /\ ccs2mcp \in Seq(Frame) /\ ccs2mcp' = Tail(ccs2mcp)
    BY <1>1 DEF SkipRequest, Typed, TypeOK, Within
  <2> QED BY <1>1, <2>1, HeadTakenOff
<1>2. CASE ~inPlace
  BY <1>2 DEF SkipRequest
<1> QED BY <1>1, <1>2

(* What a request becomes in the ring when MCP takes it.                   *)
LEMMA RequestTaken ==
  ASSUME Typed, Asking, Ordered, OnReqMessage
  PROVE  LET f == Head(ccs2mcp) IN
           /\ f = ccs2mcp[1] /\ f \in RequestFrame /\ f.topic \in Topics
           /\ 1 \in 1 .. Len(ccs2mcp) /\ pMsgBuff' = Answered(f)
           /\ pMsgBuff'.req = f.req /\ pMsgBuff'.conn = f.conn /\ pMsgBuff'.topic = f.topic
           /\ \A i \in 1 .. Len(ccs2mcp') : ccs2mcp'[i].type \in ReqTypes =>
                \E j \in 2 .. Len(ccs2mcp) :
                  ccs2mcp'[i] = ccs2mcp[j] /\ f.req < ccs2mcp'[i].req
           /\ \A j \in 2 .. Len(ccs2mcp) : \E i \in 1 .. Len(ccs2mcp') :
                ccs2mcp'[i] = ccs2mcp[j]
<1> DEFINE f == Head(ccs2mcp)
           g == Answered(f)
<1>1. /\ ccs2mcp # <<>> /\ ccs2mcp \in Seq(Frame) /\ ccs2mcp \in Seq(RequestFrame)
      /\ pMsgBuff' = g
  BY DEF OnReqMessage, Typed, TypeOK, Asking
<1>2. /\ Len(ccs2mcp) \in Nat \ {0} /\ f = ccs2mcp[1] /\ f \in Frame
      /\ Len(Tail(ccs2mcp)) = Len(ccs2mcp) - 1
      /\ \A i \in 1 .. Len(Tail(ccs2mcp)) : Tail(ccs2mcp)[i] = ccs2mcp[i + 1]
  BY <1>1, HeadTakenOff
<1>3. f \in RequestFrame
  BY <1>1, HeadTakenOff
<1>4. /\ g \in Frame /\ g.type \in RspTypes /\ g.req = f.req /\ g.conn = f.conn
      /\ g.topic = f.topic
  BY <1>2, AnsweredIs
<1>5. f.topic \in Topics
  BY <1>2 DEF Frame
<1>6. g.type \notin ReqTypes
  BY <1>4 DEF ReqTypes, RspTypes
<1> HIDE DEF g
<1>7. \A j \in 2 .. Len(ccs2mcp) : f.req < ccs2mcp[j].req
  BY <1>2 DEF Ordered, RingInOrder
<1>8. CASE ccs2mcp' = <<g>> \o Tail(ccs2mcp)
  <2>1. /\ Len(ccs2mcp') = Len(ccs2mcp) /\ ccs2mcp'[1] = g
        /\ \A i \in 2 .. Len(ccs2mcp) : ccs2mcp'[i] = ccs2mcp[i]
    BY <1>1, <1>4, <1>8, HeadReplaced
  <2>2. \A i \in 1 .. Len(ccs2mcp) : i = 1 \/ i \in 2 .. Len(ccs2mcp)
    BY <1>2
  <2>3. \A i \in 2 .. Len(ccs2mcp) : i \in 1 .. Len(ccs2mcp)
    BY <1>2
  <2> HIDE DEF f
  <2>4. \A i \in 1 .. Len(ccs2mcp') : ccs2mcp'[i].type \in ReqTypes =>
          \E j \in 2 .. Len(ccs2mcp) : ccs2mcp'[i] = ccs2mcp[j] /\ f.req < ccs2mcp'[i].req
    BY <1>6, <1>7, <2>1, <2>2
  <2>5. \A j \in 2 .. Len(ccs2mcp) : \E i \in 1 .. Len(ccs2mcp') : ccs2mcp'[i] = ccs2mcp[j]
    BY <2>1, <2>3
  <2>6. 1 \in 1 .. Len(ccs2mcp)
    BY <1>2
  <2> QED BY <1>1, <1>2, <1>3, <1>4, <1>5, <2>4, <2>5, <2>6 DEF f, g
<1>9. CASE ccs2mcp' = Tail(ccs2mcp)
  <2>1. \A i \in 1 .. Len(ccs2mcp') : ccs2mcp'[i] = ccs2mcp[i + 1] /\ i + 1 \in 2 .. Len(ccs2mcp)
    BY <1>2, <1>9
  <2>2. \A j \in 2 .. Len(ccs2mcp) : j - 1 \in 1 .. Len(ccs2mcp') /\ (j - 1) + 1 = j
    BY <1>2, <1>9
  <2> HIDE DEF f
  <2>3. \A i \in 1 .. Len(ccs2mcp') :
          \E j \in 2 .. Len(ccs2mcp) : ccs2mcp'[i] = ccs2mcp[j] /\ f.req < ccs2mcp'[i].req
    BY <1>7, <2>1
  <2>4. ASSUME NEW j \in 2 .. Len(ccs2mcp)
        PROVE  \E i \in 1 .. Len(ccs2mcp') : ccs2mcp'[i] = ccs2mcp[j]
    <3>1. j - 1 \in 1 .. Len(ccs2mcp') /\ ccs2mcp'[j - 1] = ccs2mcp[j]
      BY <2>1, <2>2
    <3> QED BY <3>1
  <2>5. 1 \in 1 .. Len(ccs2mcp)
    BY <1>2
  <2> QED BY <1>1, <1>2, <1>3, <1>4, <1>5, <2>3, <2>4, <2>5 DEF f, g
<1> QED BY <1>8, <1>9 DEF OnReqMessage, g


(* What is sent is out, and nothing else comes out.                        *)
LEMMA SendsOut ==
  ASSUME Typed, UNCHANGED <<conns, inbox>>, NEW f, Sends(f)
  PROVE  /\ Out' \subseteq Out \cup {f}
         /\ \A i \in 1 .. Len(mcp2ccs) : i \in 1 .. Len(mcp2ccs') /\ mcp2ccs'[i] = mcp2ccs[i]
         /\ mcp2ccs' # mcp2ccs => \E i \in 1 .. Len(mcp2ccs') : mcp2ccs'[i] = f
<1>1. Known' = Known /\ \A c : Received(c)' = Received(c)
  BY DEF Known, Received
<1>2. CASE mcp2ccs' = mcp2ccs
  BY <1>1, <1>2 DEF Out
<1>3. CASE mcp2ccs' = Append(mcp2ccs, f)
  <2>1. mcp2ccs \in Seq(Frame \cup {f}) /\ Len(mcp2ccs) \in Nat
    BY SeqMonotonic, LenProperties DEF Typed, TypeOK
  <2>2. /\ Len(mcp2ccs') = Len(mcp2ccs) + 1
        /\ \A i \in 1 .. Len(mcp2ccs) : mcp2ccs'[i] = mcp2ccs[i]
        /\ mcp2ccs'[Len(mcp2ccs) + 1] = f
    BY <1>3, <2>1, AppendProperties
  <2>3. /\ \A i \in 1 .. Len(mcp2ccs') : i \in 1 .. Len(mcp2ccs) \/ i = Len(mcp2ccs) + 1
        /\ \A i \in 1 .. Len(mcp2ccs) : i \in 1 .. Len(mcp2ccs')
        /\ Len(mcp2ccs) + 1 \in 1 .. Len(mcp2ccs')
    BY <2>1, <2>2
  <2>4. Out' \subseteq Out \cup {f}
    BY <1>1, <2>2, <2>3 DEF Out
  <2> QED BY <2>2, <2>3, <2>4
<1> QED BY <1>2, <1>3 DEF Sends

(* A subscriber that is there already is as old as the newcomer.           *)
LEMMA OldSubscriber ==
  ASSUME Typed, Asking, LastOpen, Remembered, mcpDeaths = 0, ccs2mcp # <<>>,
         Head(ccs2mcp).type = "init",
         NEW b \in g_mapTopicToAgent[Head(ccs2mcp).topic], b.addr = Head(ccs2mcp).addr
  PROVE  Registered(Head(ccs2mcp).topic, Head(ccs2mcp).conn)
<1> DEFINE f == Head(ccs2mcp)
<1>1. f = ccs2mcp[1] /\ 1 \in 1 .. Len(ccs2mcp) /\ f \in RequestFrame
  <2>1. ccs2mcp \in Seq(RequestFrame)
    BY DEF Asking
  <2>2. f = ccs2mcp[1] /\ Len(ccs2mcp) \in Nat \ {0} /\ f \in RequestFrame
    BY <2>1, HeadTakenOff
  <2> QED BY <2>2
<1>2. /\ f \in Frame /\ f.conn \in Known /\ f.req \in 1 .. Len(sent)
      /\ f.addr = conns[f.conn].addr /\ sent[f.req].conn = f.conn
  BY <1>1 DEF RequestFrame, RequestOf, ReqTypes
<1>3. f.topic \in Topics
  BY <1>2 DEF Frame
<1> HIDE DEF f
<1>4. b.conn \in Known /\ b.addr = conns[b.conn].addr
  BY <1>3 DEF Asking, Subscribers, SubscriberOf, f
<1>5. PICK p \in 1 .. Len(sent) : sent[p].conn = b.conn /\ p < f.req
  <2>1. \E p \in 1 .. Len(sent) :
          /\ sent[p].conn = b.conn
          /\ \A i \in 1 .. Len(ccs2mcp) : ccs2mcp[i].type \in ReqTypes => p < ccs2mcp[i].req
    BY <1>3 DEF Remembered, f
  <2>2. ccs2mcp[1].type \in ReqTypes
    BY <1>1 DEF f, ReqTypes
  <2> QED BY <1>1, <2>1, <2>2
<1>6. sent[p].conn <= sent[f.req].conn
  BY <1>2, <1>4, <1>5 DEF LastOpen, f
<1> QED BY <1>2, <1>5, <1>6 DEF Registered, f

LEMMA McpRemembered ==
  ASSUME Typed, Asking, Ordered, LastOpen, Remembered, McpNext, UNCHANGED ccsVars
  PROVE  Remembered'
<1>0. UNCHANGED <<conns, inbox, sent>> /\ Len(sent) \in Nat /\ mcpDeaths \in Nat
  BY OutFacts, PipesAssumption DEF ccsVars, Typed, TypeOK, McpTypeOK
<1>1. CASE OnReqMessage
  <2> DEFINE f == Head(ccs2mcp)
             a == [addr |-> f.addr, m_iSuffix |-> f.m_iSuffix,
                   echo |-> f.echo, conn |-> f.conn]
  <2> SUFFICES ASSUME mcpDeaths = 0
               PROVE  Remembered'
    BY <1>1 DEF OnReqMessage, Remembered
  <2>1. /\ f = ccs2mcp[1] /\ f \in RequestFrame /\ f.topic \in Topics
        /\ 1 \in 1 .. Len(ccs2mcp)
        /\ pMsgBuff'.req = f.req /\ pMsgBuff'.conn = f.conn /\ pMsgBuff'.topic = f.topic
        /\ \A i \in 1 .. Len(ccs2mcp') : ccs2mcp'[i].type \in ReqTypes =>
             \E j \in 2 .. Len(ccs2mcp) : ccs2mcp'[i] = ccs2mcp[j] /\ f.req < ccs2mcp'[i].req
    BY <1>1, RequestTaken
  <2>2. /\ f \in Frame /\ f.conn \in Known /\ f.req \in 1 .. Len(sent)
        /\ f.type \in ReqTypes => f.addr = conns[f.conn].addr /\ sent[f.req].conn = f.conn
    BY <2>1 DEF RequestFrame, RequestOf
  <2>3. Out' = Out /\ ccs2mcp # <<>>
    <3>1. mcp2ccs' = mcp2ccs
      BY <1>1 DEF OnReqMessage
    <3> QED BY <1>1, <3>1, NothingSent DEF Ordered, OnReqMessage
  <2>4. g_mapTopicToAgent \in [Topics -> SUBSET EasyMQAgent]
    BY DEF Typed, Within
  <2>a. a.addr = f.addr /\ a.conn = f.conn
    OBVIOUS
  <2> HIDE DEF f, a
  <2>b. \A i \in 1 .. Len(ccs2mcp') : ccs2mcp'[i].type \in ReqTypes =>
          \E j \in 1 .. Len(ccs2mcp) : ccs2mcp'[i] = ccs2mcp[j]
    <3>1. \A j \in 2 .. Len(ccs2mcp) : j \in 1 .. Len(ccs2mcp)
      BY OutFacts
    <3> QED BY <2>1, <3>1
  <2>5. ASSUME NEW A, NEW t \in Topics, A = g_mapTopicToAgent[t], NEW b \in A
        PROVE  \E p \in 1 .. Len(sent) :
                 /\ sent[p].conn = b.conn
                 /\ \A i \in 1 .. Len(ccs2mcp') :
                      ccs2mcp'[i].type \in ReqTypes => p < ccs2mcp'[i].req
    <3>1. PICK p \in 1 .. Len(sent) :
            /\ sent[p].conn = b.conn
            /\ \A i \in 1 .. Len(ccs2mcp) : ccs2mcp[i].type \in ReqTypes => p < ccs2mcp[i].req
      BY <2>5 DEF Remembered
    <3> QED BY <2>b, <3>1
  <2>6. CASE f.type = "init" /\ initTopic(f.topic, a) /\ mpc' = "init"
    <3>1. /\ f.addr = conns[f.conn].addr /\ sent[f.req].conn = f.conn
      BY <2>2, <2>6 DEF ReqTypes
    <3>2. \/ /\ g_mapTopicToAgent' = g_mapTopicToAgent
             /\ \E b \in g_mapTopicToAgent[f.topic] : b.addr = f.addr
          \/ /\ g_mapTopicToAgent'[f.topic] = g_mapTopicToAgent[f.topic] \cup {a}
             /\ \A t \in Topics \ {f.topic} : g_mapTopicToAgent'[t] = g_mapTopicToAgent[t]
      BY <2>1, <2>4, <2>6, <2>a DEF initTopic
    <3>3. \A t \in Topics : g_mapTopicToAgent[t] \subseteq g_mapTopicToAgent'[t]
      BY <3>2
    <3>4. \E b \in g_mapTopicToAgent'[f.topic] : b.addr = conns[f.conn].addr /\ b.conn <= f.conn
      <4>1. CASE /\ g_mapTopicToAgent' = g_mapTopicToAgent
                 /\ \E b \in g_mapTopicToAgent[f.topic] : b.addr = f.addr
        <5>1. Registered(f.topic, f.conn)
          BY <2>3, <2>6, <4>1, OldSubscriber DEF f
        <5> QED BY <4>1, <5>1 DEF Registered
      <4>2. CASE a \in g_mapTopicToAgent'[f.topic]
        <5>1. a.conn <= f.conn
          BY <2>2, <2>a, SlotFacts DEF Known
        <5> QED BY <2>a, <3>1, <4>2, <5>1
      <4> QED BY <3>2, <4>1, <4>2
    <3>5. \A h \in Out' : h.type = "init_rsp" => Registered(h.topic, h.conn)'
      <4> SUFFICES ASSUME NEW h \in Out, h.type = "init_rsp"
                   PROVE  Registered(h.topic, h.conn)'
        BY <2>3
      <4>1. h.topic \in Topics /\ h.conn \in Known /\ Registered(h.topic, h.conn)
        BY OutKnown DEF Remembered
      <4> QED BY <1>0, <3>3, <4>1 DEF Registered
    <3>6. ASSUME NEW t \in Topics, NEW b \in g_mapTopicToAgent'[t]
          PROVE  \E p \in 1 .. Len(sent) :
                   /\ sent[p].conn = b.conn
                   /\ \A i \in 1 .. Len(ccs2mcp') :
                        ccs2mcp'[i].type \in ReqTypes => p < ccs2mcp'[i].req
      <4>1. CASE b \in g_mapTopicToAgent[t]
        BY <2>5, <4>1
      <4>2. CASE b = a
        <5>1. f.req \in 1 .. Len(sent) /\ sent[f.req].conn = b.conn
          BY <2>2, <2>a, <3>1, <4>2
        <5>2. \A i \in 1 .. Len(ccs2mcp') :
                ccs2mcp'[i].type \in ReqTypes => f.req < ccs2mcp'[i].req
          BY <2>1
        <5> QED BY <5>1, <5>2
      <4> QED BY <3>2, <3>6, <4>1, <4>2
    <3>7. Registered(pMsgBuff.topic, pMsgBuff.conn)'
      BY <1>0, <2>1, <3>4 DEF Registered
    <3> QED BY <1>0, <3>5, <3>6, <3>7 DEF Remembered
  <2>7. CASE UNCHANGED g_mapTopicToAgent /\ mpc' # "init"
    <3>1. \A h \in Out' : h.type = "init_rsp" => Registered(h.topic, h.conn)'
      BY <1>0, <2>3, <2>7 DEF Remembered, Registered
    <3>2. \A t \in Topics : \A b \in g_mapTopicToAgent[t] : \E p \in 1 .. Len(sent) :
            /\ sent[p].conn = b.conn
            /\ \A i \in 1 .. Len(ccs2mcp') :
                 ccs2mcp'[i].type \in ReqTypes => p < ccs2mcp'[i].req
      BY <2>5
    <3> QED BY <1>0, <2>7, <3>1, <3>2 DEF Remembered
  <2> QED BY <1>1, <2>6, <2>7 DEF OnReqMessage, f, a
<1>a. HeadInHand /\ (mpc # "idle" => /\ pMsgBuff \in Frame /\ pMsgBuff.type \in RspTypes)
  BY OutKnown DEF Ordered
<1>b. ASSUME RingKept
      PROVE  \A i \in 1 .. Len(ccs2mcp') : \E j \in 1 .. Len(ccs2mcp) :
               /\ ccs2mcp'[i].req = ccs2mcp[j].req
               /\ ccs2mcp'[i].type \in ReqTypes => ccs2mcp[j].type \in ReqTypes
  BY <1>b DEF RingKept
<1>c. ASSUME NEW f, Sends(f) PROVE Out' \subseteq Out \cup {f}
  BY <1>0, <1>c, SendsOut
<1>2. CASE ReplyInitTopic
  <2> DEFINE f == [pMsgBuff EXCEPT !.msgLen = "swapped"]
  <2>1. /\ mpc = "init" /\ mpc' = "done" /\ Rewrite(f) /\ SendRsp(f)
        /\ UNCHANGED <<g_mapTopicToAgent, inPlace, mcpDeaths>>
    BY <1>2 DEF ReplyInitTopic
  <2>2. /\ f \in Frame /\ f.req = pMsgBuff.req /\ f.type \in RspTypes
        /\ f.topic = pMsgBuff.topic /\ f.conn = pMsgBuff.conn
    BY <1>a, <2>1, AnswerIs DEF LenField
  <2> HIDE DEF f
  <2>3. RingKept
    BY <1>a, <2>1, <2>2, RewriteKeepsRing
  <2>4. mcpDeaths = 0 => Registered(f.topic, f.conn)
    BY <2>1, <2>2 DEF Remembered
  <2> QED BY <1>b, <1>c, <2>1, <2>3, <2>4, SendRspSends, RememberedKept
<1>3. CASE AckPublish
  <2> DEFINE f == [pMsgBuff EXCEPT !.msgLen = "beyond"]
  <2>1. /\ mpc = "publish" /\ mpc' = "forward" /\ SendRsp(f)
        /\ UNCHANGED <<ccs2mcp, g_mapTopicToAgent, mcpDeaths>>
    BY <1>3 DEF AckPublish
  <2>2. f.type = "publish_rsp"
    BY <1>a, <2>1, AnswerIs DEF LenField, Asking, WorkRight
  <2> HIDE DEF f
  <2>3. RingKept
    BY <2>1 DEF RingKept
  <2> QED BY <1>b, <1>c, <2>1, <2>2, <2>3, SendRspSends, RememberedKept
<1>4. CASE Forward
  <2>1. PICK a \in todo : /\ Rewrite(CopyFor(pMsgBuff, a)) /\ SendRsp(CopyFor(pMsgBuff, a))
    BY <1>4 DEF Forward, CopyFor
  <2> DEFINE f == CopyFor(pMsgBuff, a)
  <2>2. /\ mpc = "forward" /\ mpc' = "forward"
        /\ UNCHANGED <<g_mapTopicToAgent, inPlace, mcpDeaths>>
    BY <1>4 DEF Forward
  <2>3. todo \subseteq EasyMQAgent /\ pMsgBuff.type = "publish_rsp"
    BY <2>2 DEF Asking, WorkRight, Subscribers
  <2>4. f \in Frame /\ f.req = pMsgBuff.req /\ f.type = "publish_rsp"
    BY <1>a, <2>1, <2>2, <2>3, CopyIs
  <2>5. Rewrite(f) /\ SendRsp(f)
    BY <2>1
  <2> HIDE DEF f
  <2>6. RingKept
    BY <1>a, <2>2, <2>4, <2>5, RewriteKeepsRing DEF RspTypes
  <2> QED BY <1>b, <1>c, <2>2, <2>4, <2>5, <2>6, SendRspSends, RememberedKept
<1>5. CASE SkipRequest
  <2>1. /\ mpc' = "idle" /\ UNCHANGED <<mcp2ccs, g_mapTopicToAgent, mcpDeaths>>
    BY <1>5 DEF SkipRequest
  <2>2. Out' = Out
    BY <2>1, NothingSent DEF Ordered
  <2>3. \A i \in 1 .. Len(ccs2mcp') : \E j \in 1 .. Len(ccs2mcp) : ccs2mcp'[i] = ccs2mcp[j]
    BY <1>5, SkippedMovesUp
  <2>4. PICK f : f = [type |-> "none"]
    OBVIOUS
  <2>5. f.type # "init_rsp"
    BY <2>4
  <2> QED BY <2>1, <2>2, <2>3, <2>5, RememberedKept
<1>6. CASE McpRestart
  <2>1. mcpDeaths' = mcpDeaths + 1
    BY <1>6 DEF McpRestart
  <2> QED BY <1>0, <2>1 DEF Remembered
<1> QED BY <1>1, <1>2, <1>3, <1>4, <1>5, <1>6 DEF McpNext, McpWork


-----------------------------------------------------------------------------
(* Who is served.                                                          *)
LEMMA ServingInit == ASSUME Init PROVE Serving
BY DEF Init, CcsInit, Serving

(* What has been received stays received.                                  *)
LEMMA InboxGrows ==
  ASSUME Typed, CcsNext
  PROVE  /\ \A c \in Known : Received(c) \subseteq Received(c)'
         /\ \A c \in Known : \A t : Subscribed(c, t) => Subscribed(c, t)'
<1>1. \A c \in Known : Received(c) \subseteq Received(c)'
  <2> SUFFICES ASSUME NEW c \in Known PROVE Received(c) \subseteq Received(c)'
    OBVIOUS
  <2>1. c \in Known'
    BY CcsMovesStep DEF CcsMoves, Grown
  <2> QED BY <2>1, CcsDelivers
<1>2. \A c, t : Subscribed(c, t) <=>
        \E f \in Received(c) : f.conn = c /\ f.type = "init_rsp" /\ f.topic = t
  BY DEF Subscribed, Received
<1>3. \A c, t : Subscribed(c, t)' <=>
        \E f \in Received(c)' : f.conn = c /\ f.type = "init_rsp" /\ f.topic = t
  BY DEF Subscribed, Received
<1> QED BY <1>1, <1>2, <1>3

(* A connection that has sent something is not connected again.            *)
LEMMA StaysGone ==
  ASSUME Typed, OnePlace, CcsNext, NEW c \in Known, HasSent(c), Connected(c)'
  PROVE  Connected(c)
<1>1. PICK r \in Suffixes : m_pSocket'[r].conn = c
  BY DEF Connected, Live
<1>2. m_pSocket[r].conn = c
  BY <1>1, SlotStays
<1>3. conns'[c].open => conns[c].open
  BY CcsMovesStep DEF CcsMoves, Grown
<1> QED BY <1>2, <1>3 DEF Connected, Live

(* When CCS is done with a frame, its connection has it or is gone.        *)
LEMMA HeadDone ==
  ASSUME Typed, Found, CheckSvrMessage, NEW f, f = Head(mcp2ccs), Connected(f.conn)'
  PROVE  f \in Received(f.conn)'
<1>2. mcp2ccs # <<>> /\ DoSvrMessage(f)
  BY DEF CheckSvrMessage
<1>3. f \in Frame /\ Finds(f.conn, f.m_iSuffix, f.echo)
  <2>1. mcp2ccs \in Seq(FindingFrame)
    BY DEF Found, Within
  <2>2. f \in FindingFrame
    BY <1>2, <2>1, HeadTakenOff
  <2> QED BY <2>2 DEF FindingFrame
<1>4. f.conn \in Known /\ HasSent(f.conn) /\ f.m_iSuffix \in Suffixes
  BY <1>3 DEF Finds, Frame
<1>5. CcsNext
  BY DEF CcsNext, CcsWork
<1>6. PICK r \in Suffixes : m_pSocket'[r].conn = f.conn
  BY DEF Connected, Live
<1>7. m_pSocket'[r] = m_pSocket[r] /\ Connected(f.conn)
  BY <1>4, <1>5, <1>6, SlotStays, StaysGone DEF Found
<1>8. r = f.m_iSuffix /\ m_pSocket[r].m_unID = f.echo
  BY <1>3, <1>6, <1>7 DEF Finds
<1>9. FindsNode(f) /\ m_pSocket[f.m_iSuffix].conn = f.conn
  BY <1>4, <1>6, <1>7, <1>8, SlotFacts DEF FindsNode
<1>10. ~ClearSocketNode(f.m_iSuffix)
  <2>1. m_pSocket' = [m_pSocket EXCEPT ![f.m_iSuffix] = FreeNode]
          => m_pSocket'[f.m_iSuffix] = FreeNode
    BY <1>4 DEF Typed, TypeOK, CcsTypeOK
  <2> QED BY <1>4, <1>6, <1>8, <2>1, SlotFacts DEF ClearSocketNode
<1>11. inbox' = [inbox EXCEPT ![f.conn] = Append(inbox[f.conn], f)]
  <2>1. conns[f.conn].open
    BY <1>7 DEF Connected
  <2> QED BY <1>2, <1>9, <1>10, <2>1 DEF DoSvrMessage
<1>12. inbox'[f.conn] = Append(inbox[f.conn], f) /\ inbox[f.conn] \in Seq(Frame)
  BY <1>3, <1>4, <1>11, InboxFilled, ConnsTyped DEF Known
<1> DEFINE q == inbox[f.conn]
<1> HIDE DEF q
<1>13. Len(Append(q, f)) = Len(q) + 1 /\ Len(q) \in Nat /\ Append(q, f)[Len(q) + 1] = f
  BY <1>3, <1>12, AppendProperties, LenProperties DEF q
<1>14. Len(q) + 1 \in 1 .. Len(inbox'[f.conn]) /\ inbox'[f.conn][Len(q) + 1] = f
  BY <1>12, <1>13 DEF q
<1> QED BY <1>14 DEF Received

(* A frame that is to be skipped is still the head.                        *)
LEMMA CcsKeepsWhenSkipping == ASSUME CcsNext, cpc' = "skip" PROVE mcp2ccs' = mcp2ccs
<1>1. CASE CheckSvrMessage
  BY <1>1 DEF CheckSvrMessage
<1>2. CASE SkipSvrMessage \/ CcsRestart
  BY <1>2 DEF SkipSvrMessage, CcsRestart
<1>3. ASSUME \/ \E a \in Clients, s \in Suffixes : Accept(a, s)
             \/ \E c \in 1 .. Len(conns) : ClientCloses(c)
             \/ CreateSocketNode
             \/ \E s \in Suffixes, type \in Requests, t \in Topics : RecvClientData(s, type, t)
             \/ \E s \in Suffixes : RecvClientClosed(s)
      PROVE  mcp2ccs' = mcp2ccs
  BY <1>3 DEF Accept, ClientCloses, CreateSocketNode, RecvClientData, RecvClientClosed
<1> QED BY <1>1, <1>2, <1>3 DEF CcsNext, CcsWork

(* What leaves mcp2ccs, or waits to be skipped, has been done with.        *)
LEMMA HeadGone ==
  ASSUME Typed, Found, Serving, CcsNext, cpc' = "skip" \/ mcp2ccs' # mcp2ccs,
         NEW f, f = Head(mcp2ccs), Connected(f.conn)'
  PROVE  f \in Received(f.conn)'
<1>1. CASE CheckSvrMessage
  BY <1>1, HeadDone
<1>2. ASSUME cpc = "skip" PROVE f \in Received(f.conn)'
  <2>1. mcp2ccs # <<>> /\ mcp2ccs \in Seq(FindingFrame)
    BY <1>2 DEF Typed, Found, Within
  <2>2. f.conn \in Known /\ HasSent(f.conn)
    <3>1. f \in FindingFrame
      BY <2>1, HeadTakenOff
    <3> QED BY <3>1 DEF FindingFrame, Finds
  <2>3. Connected(f.conn)
    BY <2>2, StaysGone DEF Found
  <2>4. f \in Received(f.conn)
    BY <1>2, <2>3 DEF Serving
  <2> QED BY <2>2, <2>4, InboxGrows
<1>3. CheckSvrMessage \/ cpc = "skip"
  <2>1. ASSUME NEW a \in Clients, NEW s \in Suffixes, Accept(a, s) PROVE cpc = "skip"
    BY <2>1 DEF Accept
  <2>2. ASSUME NEW s \in Suffixes, NEW type \in Requests, NEW t \in Topics,
               RecvClientData(s, type, t)
        PROVE  cpc = "skip"
    BY <2>2 DEF RecvClientData
  <2>3. CASE (\E c \in 1 .. Len(conns) : ClientCloses(c)) \/ CreateSocketNode
             \/ \E s \in Suffixes : RecvClientClosed(s)
    BY <2>3 DEF ClientCloses, CreateSocketNode, RecvClientClosed
  <2>4. CASE SkipSvrMessage \/ CcsRestart
    BY <2>4 DEF SkipSvrMessage, CcsRestart
  <2> QED BY <2>1, <2>2, <2>3, <2>4 DEF CcsNext, CcsWork
<1> QED BY <1>1, <1>2, <1>3

(* A step of CCS leaves who is served served.                              *)
LEMMA CcsServes ==
  ASSUME Typed, Found, Serving, CcsNext, UNCHANGED mcpVars,
         NEW q, NEW c \in Known, HasSent(c), Served(q, c)
  PROVE  Served(q, c)'
<1>0. CcsMoves /\ Grown /\ dropped' = dropped
  BY CcsMovesStep DEF CcsMoves, mcpVars
<1> SUFFICES ASSUME Connected(c)'
             PROVE  Served(q, c)'
  BY DEF Served
<1>1. Connected(c)
  BY StaysGone DEF Found
<1>2. CASE Got(q, c)
  <2>1. Got(q, c)'
    BY <1>2, InboxGrows DEF Got, IsCopy
  <2> QED BY <2>1 DEF Served
<1>3. CASE OnItsWay(q, c)
  <2>1. PICK i \in 1 .. Len(mcp2ccs) :
          mcp2ccs[i].req = q /\ mcp2ccs[i].conn = c /\ IsCopy(mcp2ccs[i])
    BY <1>3 DEF OnItsWay
  <2>2. CASE mcp2ccs' = mcp2ccs
    BY <2>1, <2>2 DEF Served, OnItsWay, IsCopy
  <2>3. CASE mcp2ccs # <<>> /\ mcp2ccs' = Tail(mcp2ccs) /\ mcp2ccs' # mcp2ccs
    <3>1. mcp2ccs \in Seq(Frame)
      BY DEF Typed, TypeOK
    <3>2. /\ Len(mcp2ccs) \in Nat \ {0} /\ Len(mcp2ccs') = Len(mcp2ccs) - 1
          /\ Head(mcp2ccs) = mcp2ccs[1]
          /\ \A k \in 1 .. Len(mcp2ccs') : mcp2ccs'[k] = mcp2ccs[k + 1]
      BY <2>3, <3>1, HeadTakenOff
    <3>3. CASE i = 1
      <4>1. PICK f : f = Head(mcp2ccs)
        OBVIOUS
      <4>2. f.req = q /\ f.conn = c /\ IsCopy(f)
        BY <2>1, <3>2, <3>3, <4>1
      <4>3. f \in Received(c)'
        BY <2>3, <4>1, <4>2, HeadGone
      <4>4. Got(q, c)'
        BY <4>2, <4>3 DEF Got, IsCopy
      <4> QED BY <4>4 DEF Served
    <3>4. CASE i # 1
      <4>1. i - 1 \in 1 .. Len(mcp2ccs') /\ (i - 1) + 1 = i
        BY <3>2, <3>4
      <4>2. mcp2ccs'[i - 1] = mcp2ccs[i]
        BY <3>2, <4>1
      <4>3. OnItsWay(q, c)'
        BY <2>1, <4>1, <4>2 DEF OnItsWay, IsCopy
      <4> QED BY <4>3 DEF Served
    <3> QED BY <3>3, <3>4
  <2> QED BY <1>0, <2>2, <2>3 DEF CcsMoves
<1>4. CASE [req |-> q, conn |-> c] \in dropped
  BY <1>0, <1>4 DEF Served
<1>5. CASE AddressReused(c)
  <2>1. PICK d \in 1 .. c - 1 : conns[d].addr = conns[c].addr
    BY <1>5 DEF AddressReused
  <2>2. d \in Known
    BY SlotFacts DEF Known
  <2>3. AddressReused(c)'
    BY <1>0, <2>1, <2>2 DEF AddressReused, Grown
  <2> QED BY <2>3 DEF Served
<1> QED BY <1>1, <1>2, <1>3, <1>4, <1>5 DEF Served

LEMMA CcsServing ==
  ASSUME Typed, Asking, Found, Serving, CcsNext, UNCHANGED mcpVars
  PROVE  Serving'
<1>0. CcsMoves /\ Grown /\ UNCHANGED <<mpc, pMsgBuff, todo, mcpDeaths>>
  BY CcsMovesStep DEF CcsMoves, mcpVars
<1>1. ASSUME NEW q \in 1 .. Len(sent), NEW c \in sent[q].to
      PROVE  /\ q \in 1 .. Len(sent') /\ sent'[q] = sent[q]
             /\ (c \in Known /\ HasSent(c) /\ Subscribed(c, sent[q].topic))'
  <2>1. c \in Known /\ HasSent(c) /\ Subscribed(c, sent[q].topic)
    BY DEF Serving
  <2>2. PICK t : t = sent[q].topic
    OBVIOUS
  <2>3. Subscribed(c, t)'
    BY <2>1, <2>2, InboxGrows
  <2> QED BY <1>0, <2>1, <2>2, <2>3 DEF Grown, HasSent, Subscribed
<1>n. PICK n : n = Len(sent) + 1
  OBVIOUS
<1>2. ASSUME Requested
      PROVE  /\ \A q \in 1 .. Len(sent') : q \in 1 .. Len(sent) \/ q = n
             /\ Waiting(n)'
             /\ \A c \in sent'[n].to : (c \in Known /\ HasSent(c) /\ Subscribed(c, sent[n].topic))'
  <2>1. PICK s \in Suffixes, d \in Known, f \in Frame : RequestMade(s, d, f)
    BY <1>2, RequestedMakes
  <2>2. /\ ccs2mcp' = Append(ccs2mcp, f) /\ f.req = n /\ f.type \in ReqTypes
        /\ Len(sent') = n /\ UNCHANGED <<inbox, conns>>
        /\ sent'[n].to = Addressees(f.type, f.topic) /\ sent'[n].topic = f.topic
    BY <1>n, <2>1 DEF RequestMade
  <2>3. Waiting(n)'
    <3>1. ccs2mcp \in Seq(Frame) /\ Len(ccs2mcp) \in Nat
      BY LenProperties DEF Typed, TypeOK
    <3>2. Len(ccs2mcp') = Len(ccs2mcp) + 1 /\ ccs2mcp'[Len(ccs2mcp) + 1] = f
      BY <2>2, <3>1, AppendProperties
    <3>3. Len(ccs2mcp) + 1 \in 1 .. Len(ccs2mcp')
      BY <3>1, <3>2
    <3> QED BY <2>2, <3>2, <3>3 DEF Waiting
  <2>4. ASSUME NEW c \in Addressees(f.type, f.topic)
        PROVE  c \in Known' /\ HasSent(c)' /\ Subscribed(c, f.topic)
    <3>1. c \in Known /\ Subscribed(c, f.topic)
      BY DEF Addressees, SubscribersOf, Known
    <3>2. PICK g \in Received(c) : g.conn = c /\ g.type = "init_rsp"
      BY <3>1 DEF Subscribed, Received
    <3>3. g \in ReplyFrame
      BY <3>1, OutFacts
    <3>4. HasSent(c)
      BY <3>2, <3>3 DEF ReplyFrame, ReplyOf, IsCopy, HasSent
    <3> QED BY <1>0, <3>1, <3>4 DEF Grown, HasSent
  <2>5. \A q \in 1 .. Len(sent') : q \in 1 .. Len(sent) \/ q = n
    BY <1>0, <1>n, <2>2 DEF Grown
  <2>6. \A c \in sent'[n].to : (c \in Known /\ HasSent(c) /\ Subscribed(c, sent[n].topic))'
    BY <2>2, <2>4 DEF Subscribed
  <2> QED BY <2>3, <2>5, <2>6
<1>3. \A q \in 1 .. Len(sent') : \A c \in sent'[q].to :
        (c \in Known /\ HasSent(c) /\ Subscribed(c, sent[q].topic))'
  <2>a. \A q \in 1 .. Len(sent) : \A c \in sent'[q].to :
          (c \in Known /\ HasSent(c) /\ Subscribed(c, sent[q].topic))'
    <3> SUFFICES ASSUME NEW q \in 1 .. Len(sent), NEW c \in sent'[q].to
                 PROVE  (c \in Known /\ HasSent(c) /\ Subscribed(c, sent[q].topic))'
      OBVIOUS
    <3>1. sent'[q] = sent[q]
      BY <1>0 DEF Grown
    <3> QED BY <1>1, <3>1
  <2>1. CASE UNCHANGED sent
    BY <2>a, <2>1
  <2>2. CASE Requested
    BY <1>2, <2>a, <2>2
  <2> QED BY <1>0, <2>1, <2>2 DEF CcsMoves
<1>4. ASSUME cpc' = "skip"
      PROVE  (LET f == Head(mcp2ccs) IN ~Connected(f.conn) \/ f \in Received(f.conn))'
  <2>1. mcp2ccs' = mcp2ccs
    BY <1>4, CcsKeepsWhenSkipping
  <2>2. PICK f : f = Head(mcp2ccs)
    OBVIOUS
  <2>3. Connected(f.conn)' => f \in Received(f.conn)'
    BY <1>4, <2>2, HeadGone
  <2> QED BY <2>1, <2>2, <2>3 DEF Connected, Live, Received
<1>5. ASSUME mcpDeaths = 0, NEW q \in 1 .. Len(sent'), sent'[q].type = "publish",
             NEW c \in sent'[q].to
      PROVE  (Waiting(q) \/ InHand(q, c) \/ Served(q, c))'
  <2>1. CASE q \in 1 .. Len(sent)
    <3>1. sent'[q] = sent[q] /\ sent[q].type = "publish" /\ c \in sent[q].to
      BY <1>0, <1>5, <2>1 DEF Grown
    <3>2. c \in Known /\ HasSent(c) /\ (Waiting(q) \/ InHand(q, c) \/ Served(q, c))
      BY <1>5, <2>1, <3>1 DEF Serving
    <3>3. Served(q, c) => Served(q, c)'
      BY <3>2, CcsServes
    <3>4. InHand(q, c) => InHand(q, c)'
      BY <1>0 DEF InHand
    <3>5. Waiting(q) => Waiting(q)'
      <4>1. CASE UNCHANGED ccs2mcp
        BY <4>1 DEF Waiting
      <4>2. CASE Requested
        <5>1. PICK s \in Suffixes, d \in Known, f \in Frame : RequestMade(s, d, f)
          BY <4>2, RequestedMakes
        <5>2. ccs2mcp' = Append(ccs2mcp, f) /\ ccs2mcp \in Seq(Frame) /\ Len(ccs2mcp) \in Nat
          BY <5>1, LenProperties DEF RequestMade, Typed, TypeOK
        <5>3. /\ Len(ccs2mcp') = Len(ccs2mcp) + 1
              /\ \A k \in 1 .. Len(ccs2mcp) : ccs2mcp'[k] = ccs2mcp[k]
          BY <5>2, AppendProperties
        <5>4. \A k \in 1 .. Len(ccs2mcp) : k \in 1 .. Len(ccs2mcp')
          BY <5>2, <5>3
        <5> QED BY <5>3, <5>4 DEF Waiting
      <4> QED BY <1>0, <4>1, <4>2 DEF CcsMoves
    <3> QED BY <3>2, <3>3, <3>4, <3>5
  <2>2. CASE Requested
    BY <1>2, <2>1, <2>2
  <2> QED BY <1>0, <2>1, <2>2 DEF CcsMoves
<1> QED BY <1>0, <1>3, <1>4, <1>5 DEF Serving


(* A step of MCP leaves who is served served; what it sends is on its way  *)
(* or dropped.                                                             *)
LEMMA McpServes ==
  ASSUME Typed, UNCHANGED ccsVars,
         \/ UNCHANGED <<mcp2ccs, dropped>>
         \/ \E f : Sends(f)
  PROVE  \A q, c : Served(q, c) => Served(q, c)'
<1>0. UNCHANGED <<conns, inbox, m_pSocket>>
  BY DEF ccsVars
<1>1. /\ \A i \in 1 .. Len(mcp2ccs) : i \in 1 .. Len(mcp2ccs') /\ mcp2ccs'[i] = mcp2ccs[i]
      /\ dropped \subseteq dropped'
  <2>1. ASSUME NEW f, Sends(f)
        PROVE  \A i \in 1 .. Len(mcp2ccs) : i \in 1 .. Len(mcp2ccs') /\ mcp2ccs'[i] = mcp2ccs[i]
    BY <1>0, <2>1, SendsOut
  <2>2. ASSUME NEW f, Sends(f) PROVE dropped \subseteq dropped'
    BY <2>2 DEF Sends
  <2> QED BY <2>1, <2>2
<1> SUFFICES ASSUME NEW q, NEW c, Served(q, c)
             PROVE  Served(q, c)'
  OBVIOUS
<1>2. CASE OnItsWay(q, c)
  <2>1. OnItsWay(q, c)'
    BY <1>1, <1>2 DEF OnItsWay, IsCopy
  <2> QED BY <2>1 DEF Served
<1>3. CASE [req |-> q, conn |-> c] \in dropped
  BY <1>1, <1>3 DEF Served
<1>4. CASE ~Connected(c) \/ Got(q, c) \/ AddressReused(c)
  BY <1>0, <1>4 DEF Served, Connected, Live, Got, Received, IsCopy, AddressReused
<1> QED BY <1>2, <1>3, <1>4 DEF Served

LEMMA SendsServes ==
  ASSUME Typed, UNCHANGED ccsVars, NEW f, Sends(f), IsCopy(f)
  PROVE  Served(f.req, f.conn)'
<1>1. PICK q, c : q = f.req /\ c = f.conn
  OBVIOUS
<1>2. CASE \E i \in 1 .. Len(mcp2ccs') : mcp2ccs'[i] = f
  <2>1. OnItsWay(q, c)'
    BY <1>1, <1>2 DEF OnItsWay, IsCopy
  <2> QED BY <1>1, <2>1 DEF Served
<1>3. CASE mcp2ccs' = mcp2ccs /\ dropped' = dropped \cup {[req |-> f.req, conn |-> f.conn]}
  BY <1>1, <1>3 DEF Served
<1>4. mcp2ccs' = mcp2ccs \/ \E i \in 1 .. Len(mcp2ccs') : mcp2ccs'[i] = f
  BY SendsOut DEF ccsVars
<1>5. mcp2ccs' = Append(mcp2ccs, f) => mcp2ccs' # mcp2ccs
  <2>1. mcp2ccs \in Seq(Frame \cup {f}) /\ Len(mcp2ccs) \in Nat
    BY SeqMonotonic, LenProperties DEF Typed, TypeOK
  <2>2. Len(Append(mcp2ccs, f)) = Len(mcp2ccs) + 1
    BY <2>1, AppendProperties
  <2> QED BY <2>1, <2>2
<1> QED BY <1>2, <1>3, <1>4, <1>5 DEF Sends

(* The head that MCP works on in place is answered already.                *)
LEMMA WaitingKept ==
  ASSUME Typed, Asking, HeadInHand, mpc # "idle", RingKept
  PROVE  \A q : Waiting(q) => Waiting(q)'
<1>1. \A i \in 1 .. Len(ccs2mcp) : ccs2mcp[i].type \in ReqTypes => (inPlace => i # 1)
  BY OutKnown DEF HeadInHand, ReqTypes, RspTypes
<1> QED BY <1>1 DEF RingKept, Waiting

(* Who knew of its subscription is among the subscribers, or an earlier    *)
(* connection of its address is.                                           *)
LEMMA SubscribedIsRegistered ==
  ASSUME Typed, Asking, Remembered, mcpDeaths = 0,
         NEW c \in Known, NEW t \in Topics, Subscribed(c, t)
  PROVE  AddressReused(c) \/ \E a \in g_mapTopicToAgent[t] : a.conn = c
<1>1. PICK f \in Received(c) : f.conn = c /\ f.type = "init_rsp" /\ f.topic = t
  BY DEF Subscribed, Received
<1>2. f \in Out
  BY DEF Out
<1>3. PICK a \in g_mapTopicToAgent[t] : a.addr = conns[c].addr /\ a.conn <= c
  BY <1>1, <1>2 DEF Remembered, Registered
<1>4. a.conn \in Known /\ a.addr = conns[a.conn].addr
  BY DEF Asking, Subscribers, SubscriberOf
<1>5. CASE a.conn # c
  <2>1. a.conn \in 1 .. c - 1
    BY <1>3, <1>4, <1>5, SlotFacts DEF Known
  <2> QED BY <1>3, <1>4, <2>1 DEF AddressReused
<1> QED BY <1>3, <1>5

LEMMA McpServing ==
  ASSUME Typed, Asking, Ordered, Remembered, Serving, McpNext, UNCHANGED ccsVars
  PROVE  Serving'
<1>0. UNCHANGED <<conns, inbox, sent, m_pSocket, cpc>> /\ mcpDeaths \in Nat
  BY PipesAssumption DEF ccsVars, Typed, TypeOK, McpTypeOK
<1>1. \A q \in 1 .. Len(sent') : \A c \in sent'[q].to :
        (c \in Known /\ HasSent(c) /\ Subscribed(c, sent[q].topic))'
  BY <1>0 DEF Serving, Known, HasSent, Subscribed
<1>a. ASSUME UNCHANGED <<mcp2ccs, dropped>> \/ \E f : Sends(f)
      PROVE  (cpc = "skip" =>
                LET f == Head(mcp2ccs) IN ~Connected(f.conn) \/ f \in Received(f.conn))'
  <2> SUFFICES ASSUME cpc = "skip"
               PROVE  (LET f == Head(mcp2ccs) IN ~Connected(f.conn) \/ f \in Received(f.conn))'
    BY <1>0
  <2>1. mcp2ccs # <<>> /\ mcp2ccs \in Seq(Frame)
    BY DEF Typed, TypeOK
  <2>2. Head(mcp2ccs') = Head(mcp2ccs)
    <3>1. CASE mcp2ccs' = mcp2ccs
      BY <3>1
    <3>2. ASSUME NEW f, mcp2ccs' = Append(mcp2ccs, f) PROVE Head(mcp2ccs') = Head(mcp2ccs)
      <4>1. /\ mcp2ccs \in Seq(Frame \cup {f}) /\ mcp2ccs' \in Seq(Frame \cup {f})
            /\ Len(mcp2ccs') = Len(mcp2ccs) + 1
            /\ \A i \in 1 .. Len(mcp2ccs) : mcp2ccs'[i] = mcp2ccs[i]
        BY <2>1, <3>2, SeqMonotonic, AppendProperties
      <4>2. mcp2ccs' # <<>> /\ Len(mcp2ccs) \in Nat \ {0} /\ Head(mcp2ccs) = mcp2ccs[1]
        BY <2>1, <4>1, HeadTakenOff
      <4>3. Head(mcp2ccs') = mcp2ccs'[1]
        BY <4>1, <4>2, HeadTakenOff
      <4> QED BY <4>1, <4>2, <4>3
    <3> QED BY <1>a, <3>1, <3>2 DEF Sends
  <2> QED BY <1>0, <2>2 DEF Serving, Connected, Live, Received
<1>b. ASSUME UNCHANGED <<mcp2ccs, dropped>> \/ \E f : Sends(f),
             mcpDeaths' = mcpDeaths,
             mcpDeaths = 0 =>
               \A q \in 1 .. Len(sent) : sent[q].type = "publish" => \A c \in sent[q].to :
                 /\ Waiting(q) => (Waiting(q) \/ InHand(q, c) \/ Served(q, c))'
                 /\ InHand(q, c) => (Waiting(q) \/ InHand(q, c) \/ Served(q, c))'
      PROVE  Serving'
  <2>1. \A q, c : Served(q, c) => Served(q, c)'
    BY <1>b, McpServes
  <2>2. mcpDeaths = 0 =>
          \A q \in 1 .. Len(sent) : sent[q].type = "publish" => \A c \in sent[q].to :
            (Waiting(q) \/ InHand(q, c) \/ Served(q, c))'
    BY <1>b, <2>1 DEF Serving
  <2> QED BY <1>0, <1>1, <1>a, <1>b, <2>2 DEF Serving
<1>2. CASE OnReqMessage
  <2>0. UNCHANGED <<mcp2ccs, dropped, mcpDeaths>> /\ mpc = "idle"
    BY <1>2 DEF OnReqMessage
  <2> SUFFICES ASSUME mcpDeaths = 0, NEW q \in 1 .. Len(sent), sent[q].type = "publish",
                      NEW c \in sent[q].to, Waiting(q)
               PROVE  (Waiting(q) \/ InHand(q, c) \/ Served(q, c))'
    BY <1>b, <2>0 DEF InHand
  <2>1. PICK i \in 1 .. Len(ccs2mcp) : ccs2mcp[i].req = q /\ ccs2mcp[i].type \in ReqTypes
    BY DEF Waiting
  <2>2. PICK f : f = Head(ccs2mcp)
    OBVIOUS
  <2>3. /\ f = ccs2mcp[1] /\ f \in RequestFrame /\ f.topic \in Topics
        /\ pMsgBuff'.req = f.req
        /\ \A j \in 2 .. Len(ccs2mcp) : \E k \in 1 .. Len(ccs2mcp') :
             ccs2mcp'[k] = ccs2mcp[j]
    BY <1>2, <2>2, RequestTaken
  <2>4. CASE i # 1
    <3>1. i \in 2 .. Len(ccs2mcp)
      BY <2>4, OutFacts
    <3>2. Waiting(q)'
      BY <2>1, <2>3, <3>1 DEF Waiting
    <3> QED BY <3>2
  <2>5. CASE i = 1
    <3>1. f.req = q /\ sent[q].type = f.type /\ sent[q].topic = f.topic
      BY <2>1, <2>3, <2>5 DEF RequestFrame, RequestOf
    <3>2. mpc' = "publish" /\ todo' = g_mapTopicToAgent[f.topic]
      BY <1>2, <2>2, <3>1 DEF OnReqMessage
    <3>3. c \in Known /\ Subscribed(c, f.topic)
      BY <3>1 DEF Serving
    <3>4. CASE AddressReused(c)
      <4>1. Served(q, c)'
        BY <1>0, <3>4 DEF Served, AddressReused
      <4> QED BY <4>1
    <3>5. CASE \E a \in g_mapTopicToAgent[f.topic] : a.conn = c
      <4>1. InHand(q, c)'
        BY <2>3, <3>1, <3>2, <3>5 DEF InHand
      <4> QED BY <4>1
    <3> QED BY <2>3, <3>3, <3>4, <3>5, SubscribedIsRegistered
  <2> QED BY <2>4, <2>5
<1>c. HeadInHand /\ (mpc # "idle" => /\ pMsgBuff \in Frame /\ pMsgBuff.type \in RspTypes)
  BY OutKnown DEF Ordered
<1>3. CASE ReplyInitTopic
  <2> DEFINE f == [pMsgBuff EXCEPT !.msgLen = "swapped"]
  <2>1. /\ mpc = "init" /\ Rewrite(f) /\ SendRsp(f) /\ UNCHANGED <<inPlace, mcpDeaths>>
    BY <1>3 DEF ReplyInitTopic
  <2>2. f \in Frame /\ f.req = pMsgBuff.req /\ f.type \in RspTypes
    BY <1>c, <2>1, AnswerIs DEF LenField
  <2> HIDE DEF f
  <2>3. RingKept
    BY <1>c, <2>1, <2>2, RewriteKeepsRing
  <2>4. \A q : Waiting(q) => Waiting(q)'
    BY <1>c, <2>1, <2>3, WaitingKept
  <2>5. \A q, c : ~InHand(q, c)
    BY <2>1 DEF InHand
  <2>6. \E g : Sends(g)
    BY <2>1, SendRspSends
  <2> QED BY <1>b, <2>1, <2>4, <2>5, <2>6
<1>4. CASE AckPublish
  <2> DEFINE f == [pMsgBuff EXCEPT !.msgLen = "beyond"]
  <2>1. /\ mpc = "publish" /\ mpc' = "forward" /\ SendRsp(f)
        /\ UNCHANGED <<ccs2mcp, pMsgBuff, todo, mcpDeaths>>
    BY <1>4 DEF AckPublish
  <2> HIDE DEF f
  <2>2. \A q : Waiting(q) => Waiting(q)'
    BY <2>1 DEF Waiting
  <2>3. \A q, c : InHand(q, c) => InHand(q, c)'
    BY <2>1 DEF InHand
  <2>4. \E g : Sends(g)
    BY <2>1, SendRspSends
  <2> QED BY <1>b, <2>1, <2>2, <2>3, <2>4
<1>5. CASE Forward
  <2>1. PICK a \in todo : /\ Rewrite(CopyFor(pMsgBuff, a)) /\ SendRsp(CopyFor(pMsgBuff, a))
                          /\ todo' = todo \ {a}
    BY <1>5 DEF Forward, CopyFor
  <2>2. mpc = "forward" /\ mpc' = "forward" /\ UNCHANGED <<inPlace, mcpDeaths>>
    BY <1>5 DEF Forward
  <2>3. a \in EasyMQAgent /\ pMsgBuff.type = "publish_rsp" /\ pMsgBuff.msgLen = "whole"
    BY <2>1, <2>2 DEF Asking, WorkRight, Subscribers
  <2>4. PICK f \in Frame : f = CopyFor(pMsgBuff, a)
    BY <1>c, <2>2, <2>3, CopyIs
  <2>5. f.conn = a.conn /\ f.req = pMsgBuff.req /\ f.type = "publish_rsp" /\ f.msgLen = "whole"
    BY <1>c, <2>2, <2>3, <2>4, CopyIs
  <2>6. Rewrite(f) /\ Sends(f) /\ pMsgBuff' = f
    BY <2>1, <2>4, SendRspSends DEF Rewrite
  <2>7. RingKept
    BY <1>c, <2>2, <2>5, <2>6, RewriteKeepsRing DEF RspTypes
  <2>8. \A q : Waiting(q) => Waiting(q)'
    BY <1>c, <2>2, <2>7, WaitingKept
  <2>9. ASSUME NEW q, NEW c, InHand(q, c) PROVE InHand(q, c)' \/ Served(q, c)'
    <3>1. PICK b \in todo : b.conn = c /\ pMsgBuff.req = q
      BY <2>9 DEF InHand
    <3>2. CASE b = a
      <4>1. Served(f.req, f.conn)'
        BY <2>5, <2>6, SendsServes DEF IsCopy
      <4> QED BY <2>5, <3>1, <3>2, <4>1
    <3>3. CASE b # a
      <4>1. b \in todo' /\ pMsgBuff'.req = q
        BY <2>1, <2>5, <2>6, <3>1, <3>3
      <4> QED BY <2>2, <3>1, <4>1 DEF InHand
    <3> QED BY <3>2, <3>3
  <2> QED BY <1>b, <2>2, <2>6, <2>8, <2>9
<1>6. CASE SkipRequest
  <2>1. UNCHANGED <<mcp2ccs, dropped, mcpDeaths>> /\ mpc # "idle"
    BY <1>6 DEF SkipRequest
  <2>2. \A q, c : ~InHand(q, c)
    BY <1>6 DEF SkipRequest, InHand
  <2>3. ASSUME NEW q, Waiting(q) PROVE Waiting(q)'
    <3>1. PICK i \in 1 .. Len(ccs2mcp) : ccs2mcp[i].req = q /\ ccs2mcp[i].type \in ReqTypes
      BY <2>3 DEF Waiting
    <3>2. CASE UNCHANGED ccs2mcp
      BY <2>3, <3>2 DEF Waiting
    <3>3. CASE /\ inPlace /\ Len(ccs2mcp) \in Nat \ {0} /\ Len(ccs2mcp') = Len(ccs2mcp) - 1
               /\ \A k \in 1 .. Len(ccs2mcp') : ccs2mcp'[k] = ccs2mcp[k + 1]
      <4>1. i # 1
        BY <1>c, <2>1, <3>1, <3>3 DEF HeadInHand, ReqTypes, RspTypes
      <4>2. i - 1 \in 1 .. Len(ccs2mcp') /\ (i - 1) + 1 = i
        BY <3>3, <4>1
      <4>3. ccs2mcp'[i - 1] = ccs2mcp[i]
        BY <3>3, <4>2
      <4> QED BY <3>1, <4>2, <4>3 DEF Waiting
    <3> QED BY <1>6, <3>2, <3>3, SkippedMovesUp
  <2> QED BY <1>b, <2>1, <2>2, <2>3
<1>7. CASE McpRestart
  <2>1. UNCHANGED <<mcp2ccs, dropped>> /\ mcpDeaths' = mcpDeaths + 1
    BY <1>7 DEF McpRestart
  <2>2. mcpDeaths' # 0
    BY <1>0, <2>1
  <2> QED BY <1>0, <1>1, <1>a, <2>1, <2>2 DEF Serving
<1> QED BY <1>2, <1>3, <1>4, <1>5, <1>6, <1>7 DEF McpNext, McpWork


LEMMA FoundStep == ASSUME Typed, Found, [Next]_vars PROVE Found'
<1>1. CASE CcsNext /\ UNCHANGED mcpVars
  BY <1>1, CcsFound
<1>2. CASE McpNext /\ UNCHANGED ccsVars
  BY <1>2, McpFound
<1>3. CASE UNCHANGED vars
  <2>1. /\ UNCHANGED <<m_pSocket, main2me, sent, conns, ccs2mcp, mcp2ccs>>
        /\ UNCHANGED <<g_mapTopicToAgent, todo, mpc, pMsgBuff, inPlace>>
    BY <1>3 DEF vars, ccsVars, mcpVars
  <2>2. OnePlace'
    BY <2>1 DEF Found, OnePlace, Known
  <2>3. ASSUME NEW c, NEW s, NEW e PROVE Finds(c, s, e)' = Finds(c, s, e)
    BY <2>1 DEF Finds, HasSent, Known
  <2>4. FindingFrame' = FindingFrame
    BY <2>3 DEF FindingFrame
  <2>5. FindingAgent' = FindingAgent
    BY <2>3 DEF FindingAgent
  <2> QED BY <2>1, <2>2, <2>4, <2>5 DEF Found, Within
<1> QED BY <1>1, <1>2, <1>3 DEF Next

LEMMA LastOpenStep == ASSUME Typed, Found, LastOpen, [Next]_vars PROVE LastOpen'
<1>1. CASE CcsNext /\ UNCHANGED mcpVars
  BY <1>1, CcsLastOpen DEF Found
<1>2. CASE UNCHANGED <<conns, sent>>
  BY <1>2 DEF LastOpen, Known
<1> QED BY <1>1, <1>2 DEF Next, vars, ccsVars

LEMMA RememberedStep ==
  ASSUME Typed, Asking, Ordered, LastOpen, Remembered, [Next]_vars
  PROVE  Remembered'
<1>1. CASE CcsNext /\ UNCHANGED mcpVars
  BY <1>1, CcsRemembered
<1>2. CASE McpNext /\ UNCHANGED ccsVars
  BY <1>2, McpRemembered
<1>3. CASE UNCHANGED vars
  BY <1>3 DEF vars, ccsVars, mcpVars, Remembered, Registered, Out, Received, Known
<1> QED BY <1>1, <1>2, <1>3 DEF Next

LEMMA ServingStep ==
  ASSUME Typed, Asking, Ordered, Found, Remembered, Serving, [Next]_vars
  PROVE  Serving'
<1>1. CASE CcsNext /\ UNCHANGED mcpVars
  BY <1>1, CcsServing
<1>2. CASE McpNext /\ UNCHANGED ccsVars
  BY <1>2, McpServing
<1>3. CASE UNCHANGED vars
  <2>1. /\ UNCHANGED ccsVars /\ UNCHANGED mcpVars /\ UNCHANGED <<ccs2mcp, mcp2ccs>>
        /\ UNCHANGED <<conns, inbox, sent, m_pSocket, cpc>>
        /\ UNCHANGED <<mpc, pMsgBuff, todo, dropped, mcpDeaths>>
    BY <1>3 DEF vars, ccsVars, mcpVars
  <2>2. \A q, c : Served(q, c) => Served(q, c)'
    BY <2>1, McpServes
  <2>3. \A q, c : (Waiting(q) => Waiting(q)') /\ (InHand(q, c) => InHand(q, c)')
    BY <2>1 DEF Waiting, InHand
  <2>4. mcpDeaths = 0 =>
          \A q \in 1 .. Len(sent) : sent[q].type = "publish" => \A c \in sent[q].to :
            (Waiting(q) \/ InHand(q, c) \/ Served(q, c))'
    BY <2>2, <2>3 DEF Serving
  <2>5. (cpc = "skip" =>
           LET f == Head(mcp2ccs) IN ~Connected(f.conn) \/ f \in Received(f.conn))'
    BY <2>1 DEF Serving, Connected, Live, Received
  <2>6. \A q \in 1 .. Len(sent') : \A c \in sent'[q].to :
          (c \in Known /\ HasSent(c) /\ Subscribed(c, sent[q].topic))'
    BY <2>1 DEF Serving, Known, HasSent, Subscribed
  <2> QED BY <2>1, <2>4, <2>5, <2>6 DEF Serving
<1> QED BY <1>1, <1>2, <1>3 DEF Next

(* Whoever knew its subscription to be made before a message was published *)
(* and is still connected gets the message, has it on its way, or lost it  *)
(* to a full pipe, unless MCP has died or its address was that of an       *)
(* earlier connection.                                                     *)
THEOREM BrokerSubscribersServed == Spec => []SubscribersServed
<1> DEFINE IInv == Typed /\ Routed /\ Asking /\ Ordered /\ Found /\ LastOpen /\ Remembered /\ Serving
<1>1. Init => IInv
  BY TypedInit, RoutedInit, AskingInit, OrderedInit, FoundInit, LastOpenInit, RememberedInit,
     ServingInit
<1>2. IInv /\ [Next]_vars => IInv'
  <2> SUFFICES ASSUME IInv, [Next]_vars PROVE IInv'
    OBVIOUS
  <2>1. Typed' /\ Routed' /\ Asking' /\ Ordered'
    BY TypedStep, RoutedStep, AskingStep, OrderedStep
  <2>2. Found' /\ LastOpen'
    BY FoundStep, LastOpenStep
  <2>3. Remembered' /\ Serving'
    BY RememberedStep, ServingStep
  <2> QED BY <2>1, <2>2, <2>3
<1>3. IInv => SubscribersServed
  <2> SUFFICES ASSUME Serving, mcpDeaths = 0, NEW q \in 1 .. Len(sent),
                      sent[q].type = "publish", Handled(q), NEW c \in sent[q].to
               PROVE  Served(q, c)
    BY DEF SubscribersServed, Served
  <2>1. ~Waiting(q)
    BY DEF Handled, Waiting
  <2>2. ~InHand(q, c)
    BY DEF Handled, InHand
  <2> QED BY <2>1, <2>2 DEF Serving
<1> QED BY <1>1, <1>2, <1>3, PTL DEF Spec
===============================================================================
