-------------------------------- MODULE CcsAux --------------------------------
(***************************************************************************)
(* The connection server: the main thread that accepts, and the one        *)
(* auxiliary thread (CAuxHandle) that owns the connections, reads requests *)
(* into ccs2mcp and writes what comes out of mcp2ccs to the connections.   *)
(***************************************************************************)
EXTENDS Pipes

VARIABLES
  m_pSocket,   (* the connection table; slot = fd % MAX_SOCKET_NUM *)
  m_unID,      (* the next connection's number                             *)
  main2me,     (* accepted sockets on their way to the auxiliary thread    *)
  cpc,         (* "skip": the head of mcp2ccs is done with but still there *)
  conns,       (* external: every connection a client ever made            *)
  inbox,       (* external: what each connection has been sent             *)
  sent,        (* history: every request put into ccs2mcp                  *)
  ccsDeaths

ccsVars == <<m_pSocket, m_unID, main2me, cpc, conns, inbox, sent, ccsDeaths>>

FreeNode == [conn |-> 0, m_unID |-> 0]

CcsInit ==
  /\ m_pSocket = [s \in Suffixes |-> FreeNode]
  /\ m_unID = FirstId
  /\ main2me = <<>>
  /\ cpc = "idle"
  /\ conns = <<>>
  /\ inbox = <<>>
  /\ sent = <<>>
  /\ ccsDeaths = 0

Live(c) == \E s \in Suffixes : m_pSocket[s].conn = c

(* The connections that have been told their subscription to t is made.    *)
Subscribed(c, t) ==
  \E i \in 1 .. Len(inbox[c]) :
    LET f == inbox[c][i] IN f.conn = c /\ f.type = "init_rsp" /\ f.topic = t

SubscribersOf(t) == {c \in 1 .. Len(conns) : Live(c) /\ Subscribed(c, t)}

Addressees(type, t) == {c \in SubscribersOf(t) : type = "publish"}

-----------------------------------------------------------------------------
(* Clients, and the main thread.                                           *)

(* A client whose last connection is over connects; accept gives some      *)
(* descriptor, with any remainder when more are open than the table has    *)
(* slots.                                                                  *)
Accept(a, s) ==
  /\ Len(conns) < MaxConns
  /\ \A c \in 1 .. Len(conns) : conns[c].addr = a => ~conns[c].open
  /\ conns' = Append(conns, [addr |-> a, open |-> TRUE, life |-> ccsDeaths])
  /\ inbox' = Append(inbox, <<>>)
  /\ main2me' = Append(main2me, [conn |-> Len(conns) + 1, m_iSuffix |-> s])
  /\ UNCHANGED <<ccs2mcp, mcp2ccs, m_pSocket, m_unID, cpc, sent, ccsDeaths>>

ClientCloses(c) ==
  /\ conns[c].open
  /\ conns' = [conns EXCEPT ![c].open = FALSE]
  /\ UNCHANGED <<ccs2mcp, mcp2ccs, m_pSocket, m_unID, main2me, cpc, inbox, sent,
                 ccsDeaths>>

-----------------------------------------------------------------------------
(* The auxiliary thread.                                                   *)

(* A slot that is taken costs the newcomer its connection.                 *)
CreateSocketNode ==
  /\ cpc = "idle"
  /\ main2me # <<>>
  /\ main2me' = Tail(main2me)
  /\ LET new == Head(main2me) IN
       \/ /\ m_pSocket[new.m_iSuffix] = FreeNode
          /\ m_pSocket' = [m_pSocket EXCEPT ![new.m_iSuffix] =
                             [conn |-> new.conn, m_unID |-> m_unID]]
          /\ m_unID' = m_unID + 1
          /\ UNCHANGED conns
       \/ /\ m_pSocket[new.m_iSuffix] # FreeNode
          /\ conns' = [conns EXCEPT ![new.conn].open = FALSE]
          /\ UNCHANGED <<m_pSocket, m_unID>>
  /\ UNCHANGED <<ccs2mcp, mcp2ccs, cpc, inbox, sent, ccsDeaths>>

(* The disconnect notification is off (DisconnectNotify 0 in etc/).        *)
ClearSocketNode(s) ==
  /\ m_pSocket' = [m_pSocket EXCEPT ![s] = FreeNode]
  /\ conns' = [conns EXCEPT ![m_pSocket[s].conn].open = FALSE]

(* read() returns 0 or an error.                                           *)
RecvClientClosed(s) ==
  /\ cpc = "idle"
  /\ m_pSocket[s] # FreeNode
  /\ ~conns[m_pSocket[s].conn].open
  /\ ClearSocketNode(s)
  /\ UNCHANGED <<ccs2mcp, mcp2ccs, m_unID, main2me, cpc, inbox, sent, ccsDeaths>>

FillMQHead(s, type, t) ==
  LET c == m_pSocket[s].conn IN
    [addr |-> conns[c].addr, m_iSuffix |-> s, echo |-> m_pSocket[s].m_unID,
     type |-> type, topic |-> t, msgLen |-> "whole",
     req |-> Len(sent) + 1, conn |-> c]

(* A complete request goes into the pipe; when it has no room the client   *)
(* is made to notice.  Of a publication history keeps who had subscribed   *)
(* by then.                                                                *)
RecvClientData(s, type, t) ==
  /\ cpc = "idle"
  /\ m_pSocket[s] # FreeNode
  /\ conns[m_pSocket[s].conn].open
  /\ Len(sent) < MaxReqs
  /\ \/ /\ HasRoom(ccs2mcp)
        /\ ccs2mcp' = Append(ccs2mcp, FillMQHead(s, type, t))
        /\ sent' = Append(sent, [conn |-> m_pSocket[s].conn, type |-> type,
                                 topic |-> t, to |-> Addressees(type, t)])
        /\ UNCHANGED <<m_pSocket, conns>>
     \/ /\ ~HasRoom(ccs2mcp)
        /\ ClearSocketNode(s)
        /\ UNCHANGED <<ccs2mcp, sent>>
  /\ UNCHANGED <<mcp2ccs, m_unID, main2me, cpc, inbox, ccsDeaths>>

(* Mutant: any connection in the slot will do.                             *)
FindsNodeBySlot(f) == m_pSocket[f.m_iSuffix] # FreeNode

(* The slot is taken, and by the connection the head was filled for.       *)
FindsNode(f) ==
  /\ m_pSocket[f.m_iSuffix] # FreeNode
  /\ m_pSocket[f.m_iSuffix].m_unID = f.echo

(* Mutant: what cannot be delivered stays in the pipe.                     *)
CheckSvrMessageKeeps ==
  /\ cpc = "idle"
  /\ mcp2ccs # <<>>
  /\ FindsNode(Head(mcp2ccs))
  /\ LET f == Head(mcp2ccs) IN
       /\ inbox' = [inbox EXCEPT ![m_pSocket[f.m_iSuffix].conn] = Append(@, f)]
       /\ UNCHANGED <<m_pSocket, conns>>
  /\ mcp2ccs' = Tail(mcp2ccs)
  /\ UNCHANGED <<ccs2mcp, m_unID, main2me, cpc, sent, ccsDeaths>>

(* A frame for a connection that is not there any more is dropped; one     *)
(* that the send buffer has no room for costs the connection; one sent to  *)
(* a client that has closed is lost.                                       *)
DoSvrMessage(f) ==
  LET c == m_pSocket[f.m_iSuffix].conn IN
    \/ FindsNode(f) /\ conns[c].open /\ inbox' = [inbox EXCEPT ![c] = Append(@, f)]
       /\ UNCHANGED <<m_pSocket, conns>>
    \/ FindsNode(f) /\ ClearSocketNode(f.m_iSuffix) /\ UNCHANGED inbox
    \/ (FindsNode(f) => ~conns[c].open) /\ UNCHANGED <<m_pSocket, conns, inbox>>

(* Frames are worked on in place and skipped afterwards, or, when the      *)
(* ring's edge breaks them, copied out first.                              *)
CheckSvrMessage ==
  /\ cpc = "idle"
  /\ mcp2ccs # <<>>
  /\ DoSvrMessage(Head(mcp2ccs))
  /\ \/ cpc' = "skip" /\ UNCHANGED mcp2ccs
     \/ mcp2ccs' = Tail(mcp2ccs) /\ UNCHANGED cpc
  /\ UNCHANGED <<ccs2mcp, m_unID, main2me, sent, ccsDeaths>>

SkipSvrMessage ==
  /\ cpc = "skip"
  /\ mcp2ccs' = Tail(mcp2ccs)
  /\ cpc' = "idle"
  /\ UNCHANGED <<ccs2mcp, m_pSocket, m_unID, main2me, conns, inbox, sent, ccsDeaths>>

(* CCS dies and is started again: every connection is gone, numbers start  *)
(* afresh, the pipes are as they were.                                     *)
CcsRestart ==
  /\ ccsDeaths < MaxCcsDeaths
  /\ ccsDeaths' = ccsDeaths + 1
  /\ m_pSocket' = [s \in Suffixes |-> FreeNode]
  /\ m_unID' = FirstId
  /\ main2me' = <<>>
  /\ cpc' = "idle"
  /\ conns' = [c \in DOMAIN conns |-> [conns[c] EXCEPT !.open = FALSE]]
  /\ UNCHANGED <<ccs2mcp, mcp2ccs, inbox, sent>>

-----------------------------------------------------------------------------
(* What the thread does of its own accord.                                 *)
CcsWork ==
  \/ CreateSocketNode
  \/ \E s \in Suffixes : RecvClientClosed(s)
  \/ CheckSvrMessage
  \/ SkipSvrMessage

CcsNext ==
  \/ \E a \in Clients, s \in Suffixes : Accept(a, s)
  \/ \E c \in 1 .. Len(conns) : ClientCloses(c)
  \/ \E s \in Suffixes, type \in Requests, t \in Topics : RecvClientData(s, type, t)
  \/ CcsWork
  \/ CcsRestart

CcsTypeOK ==
  /\ m_pSocket \in [Suffixes -> [conn : Conns \cup {0}, m_unID : Ids]]
  /\ m_unID \in Ids
  /\ main2me \in Seq([conn : Conns, m_iSuffix : Suffixes])
  /\ cpc \in {"idle", "skip"}
  /\ conns \in Seq([addr : Clients, open : BOOLEAN, life : 0 .. MaxCcsDeaths])
  /\ inbox \in Seq(Seq(Frame))
  /\ sent \in Seq([conn : Conns, type : ReqTypes, topic : Topics, to : SUBSET Conns])
  /\ ccsDeaths \in 0 .. MaxCcsDeaths
=============================================================================
