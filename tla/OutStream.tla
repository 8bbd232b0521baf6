------------------------------ MODULE OutStream ------------------------------
(***************************************************************************)
(* How one slot of the connection table sends: what the kernel does not    *)
(* take at once waits in the slot's send buffer until epoll reports the    *)
(* socket writable.  In CCS the slot is filled by a client that connects;  *)
(* in SCC by MCP, which asks for a connection (CMD_REQ_SCC_CONN) or just   *)
(* sends to an address, and is told how the connecting ended.              *)
(*                                                                         *)
(* epoll_wait returns the events of many sockets at once, and they are     *)
(* handled one after the other: when the turn of this slot comes, a        *)
(* message handled before may have closed its connection and opened        *)
(* another one.                                                            *)
(*                                                                         *)
(* A byte is a pair <<m, k>>: byte k of the m-th message ever sent.  Left  *)
(* out: that connect() or the table may refuse a connection at once, which *)
(* changes nothing and is answered with nothing, and a full pipe to MCP,   *)
(* which loses the answer.                                                 *)
(***************************************************************************)
EXTENDS Integers, Sequences

CONSTANTS
  Peers,     (* the addresses MCP has messages for                          *)
  NoPeer,    (* none of them: the slot is free                              *)
  Programs,  (* which programs to look at, "ccs" or "scc"                   *)
  Lens,      (* the lengths of the messages                                 *)
  SndBuf,    (* SOCKET_SNDBUF: what the kernel takes before the peer reads  *)
  MaxMsgs,   (* bound: the messages                                         *)
  MaxConns   (* bound: the connections                                      *)

ASSUME OutStreamAssumption ==
  /\ NoPeer \notin Peers
  /\ Programs \subseteq {"ccs", "scc"}
  /\ Lens \subseteq Nat \ {0}
  /\ {SndBuf, MaxMsgs, MaxConns} \subseteq Nat

VARIABLES
  program,    (* whose slot this is; never changes                          *)
  peer,       (* m_unClientIP, m_usClientPort of the node                   *)
  m_sStatus,
  tcp,        (* external: "syn", "up", "dead", or "none" for no socket     *)
  kernel,     (* external: what the peer has not read yet                   *)
  m_stBuffMngSend,
  epollout,   (* EPOLLOUT is among the events asked for                     *)
  events,     (* the events epoll_wait has returned for the slot            *)
  pc,         (* "out": between the two halves of CheckClientMessage        *)
  opened,     (* history: by "accept", by a "conn" or a "data" request      *)
  established,(* history: the connection has been up                        *)
  told,       (* history: the last answer about it, "none", "succ", "fail"  *)
  lens,       (* history: the length of every message ever sent             *)
  offered,    (* history: the bytes to be sent on this connection           *)
  wire,       (* history: those of them that the kernel has taken           *)
  conns       (* history: how many connections there were                   *)

node == <<peer, m_sStatus, opened>>
stream == <<kernel, m_stBuffMngSend, offered, wire>>

vars ==
  <<program, node, tcp, stream, epollout, events, pc, established, told, lens, conns>>

First(s, n)   == SubSeq(s, 1, n)
Beyond(s, n)  == SubSeq(s, n + 1, Len(s))
Smaller(m, n) == IF m < n THEN m ELSE n

Message(n) == [k \in 1 .. n |-> <<Len(lens) + 1, k>>]

Init ==
  /\ program \in Programs
  /\ peer = NoPeer /\ m_sStatus = "OK" /\ opened = "accept"
  /\ tcp = "none" /\ established = FALSE
  /\ kernel = <<>> /\ m_stBuffMngSend = <<>> /\ offered = <<>> /\ wire = <<>>
  /\ epollout = FALSE /\ events = {} /\ pc = "loop"
  /\ told = "none" /\ lens = <<>> /\ conns = 0

-----------------------------------------------------------------------------
(* The node goes back to the pool, and only its socket is overwritten.     *)
(* DisconnectNotify is 0.                                                  *)
ClearSocketNode ==
  /\ peer' = NoPeer /\ tcp' = "none"
  /\ told' = IF m_sStatus = "CONNECTING" THEN "fail" ELSE told
  /\ epollout' = FALSE
  /\ kernel' = <<>> /\ m_stBuffMngSend' = <<>>
  /\ UNCHANGED <<m_sStatus, opened, offered, wire>>

(* What the kernel takes of a write.                                       *)
Room == IF tcp = "up" THEN SndBuf - Len(kernel) ELSE 0

(* Of the bytes s the kernel takes the first n.                            *)
Takes(s, n) ==
  /\ kernel' = kernel \o First(s, n)
  /\ wire' = wire \o First(s, n)

-----------------------------------------------------------------------------
(* CCS, DoSvrMessage.                                                      *)

(* A client connects; the listening socket hands over an open socket.      *)
CreateSocketNodeAccepted(p) ==
  /\ program = "ccs"
  /\ peer = NoPeer /\ pc = "loop" /\ conns < MaxConns
  /\ peer' = p /\ m_sStatus' = "OK" /\ opened' = "accept"
  /\ tcp' = "up" /\ established' = TRUE
  /\ kernel' = <<>> /\ offered' = <<>> /\ wire' = <<>>
  /\ epollout' = FALSE /\ told' = "none"
  /\ conns' = conns + 1
  /\ UNCHANGED <<program, m_stBuffMngSend, events, pc, lens>>

(* Mutant: sent without a look at what waits already.                      *)
SendAtOnceAlways(b) ==
  LET n == Smaller(Len(b), Room) IN
    /\ tcp # "dead"
    /\ Takes(b, n)
    /\ m_stBuffMngSend' = m_stBuffMngSend \o Beyond(b, n)
    /\ epollout' = (epollout \/ n < Len(b))

(* Nothing waits: what the kernel does not take now waits for EPOLLOUT.    *)
SendAtOnce(b) ==
  LET n == Smaller(Len(b), Room) IN
    /\ m_stBuffMngSend = <<>>
    /\ tcp # "dead"
    /\ Takes(b, n)
    /\ m_stBuffMngSend' = Beyond(b, n)
    /\ epollout' = (epollout \/ n < Len(b))

SendBehind(b) ==
  /\ m_stBuffMngSend # <<>>
  /\ m_stBuffMngSend' = m_stBuffMngSend \o b
  /\ UNCHANGED <<kernel, wire, epollout>>

(* The blocks that all connections share are used up.                      *)
NoBlocks(b) ==
  /\ m_stBuffMngSend # <<>> \/ (tcp # "dead" /\ Room < Len(b))
  /\ ClearSocketNode

(* A send that fails changes nothing; epoll reports the dead socket.       *)
SendFails ==
  /\ m_stBuffMngSend = <<>> /\ tcp = "dead"
  /\ UNCHANGED <<node, tcp, stream, epollout, told>>

DoSvrMessage(n) ==
  /\ program = "ccs"
  /\ peer # NoPeer /\ pc = "loop" /\ Len(lens) < MaxMsgs
  /\ lens' = Append(lens, n)
  /\ LET b == Message(n) IN
       \/ /\ SendAtOnce(b) \/ SendBehind(b)
          /\ offered' = offered \o b
          /\ UNCHANGED <<node, tcp, told>>
       \/ NoBlocks(b)
       \/ SendFails
  /\ UNCHANGED <<program, events, pc, established, conns>>

-----------------------------------------------------------------------------
(* SCC, CheckSvrMessage.                                                   *)

(* The part that sends, on a connection in state t with what is in its     *)
(* buffer: first that, then the bytes b as far as nothing waits.  A        *)
(* request for a connection sends no bytes, and asks for EPOLLOUT while it *)
(* is not up.                                                              *)
Sends(b) ==
  LET flushed == Smaller(Len(m_stBuffMngSend), Room)
      rest    == Beyond(m_stBuffMngSend, flushed)
      n       == IF rest = <<>> THEN Smaller(Len(b), Room - flushed) ELSE 0
  IN /\ tcp # "dead"
     /\ Takes(First(m_stBuffMngSend, flushed) \o b, flushed + n)
     /\ m_stBuffMngSend' = rest \o Beyond(b, n)
     /\ epollout' = (epollout \/ (rest = <<>> /\ (n < Len(b) \/ tcp = "syn")))

(* A write fails, or there is more to be stored than there are blocks.     *)
SendingFails(b) ==
  /\ tcp = "dead" \/ Len(m_stBuffMngSend) + Len(b) > Room
  /\ ClearSocketNode

(* Mutant: a connection that is being made is watched for input only, as   *)
(* one that was accepted is.                                               *)
CreateSocketNodeUnwatched(p, s, b) ==
  /\ peer = NoPeer /\ conns < MaxConns
  /\ conns' = conns + 1
  /\ m_sStatus' = s /\ opened' = IF s = "CONNECTING" THEN "conn" ELSE "data"
  /\ offered' = b
  /\ \E t \in {"syn", "up"} :
       LET n == IF t = "up" THEN Smaller(Len(b), SndBuf) ELSE 0 IN
         /\ peer' = p /\ tcp' = t /\ established' = (t = "up")
         /\ kernel' = First(b, n) /\ wire' = First(b, n)
         /\ m_stBuffMngSend' = m_stBuffMngSend \o Beyond(b, n)
         /\ epollout' = (n < Len(b)) /\ told' = "none"

(* There is no connection yet.  Connecting may be done at once; until it   *)
(* is, all bytes go to the buffer.  When connecting, writing or storing    *)
(* fails the new connection is closed again.                               *)
CreateSocketNode(p, s, b) ==
  /\ peer = NoPeer /\ conns < MaxConns
  /\ conns' = conns + 1
  /\ m_sStatus' = s /\ opened' = IF s = "CONNECTING" THEN "conn" ELSE "data"
  /\ offered' = b
  /\ \/ \E t \in {"syn", "up"} :
          LET n == IF t = "up" THEN Smaller(Len(b), SndBuf) ELSE 0 IN
            /\ peer' = p /\ tcp' = t /\ established' = (t = "up")
            /\ kernel' = First(b, n) /\ wire' = First(b, n)
            /\ m_stBuffMngSend' = m_stBuffMngSend \o Beyond(b, n)
            /\ epollout' = TRUE /\ told' = "none"
     \/ /\ told' = IF s = "CONNECTING" THEN "fail" ELSE "none"
        /\ kernel' = <<>> /\ wire' = <<>> /\ established' = FALSE
        /\ UNCHANGED <<peer, tcp, m_stBuffMngSend, epollout>>

ReqConn(p) ==
  /\ program = "scc" /\ pc = "loop"
  /\ \/ CreateSocketNode(p, "CONNECTING", <<>>)
     \/ /\ peer = p
        /\ told' = "succ"
        /\ UNCHANGED <<node, tcp, stream, epollout, established, conns>>
  /\ UNCHANGED <<program, events, pc, lens>>

DataTrans(p, n) ==
  /\ program = "scc" /\ pc = "loop" /\ Len(lens) < MaxMsgs
  /\ lens' = Append(lens, n)
  /\ LET b == Message(n) IN
       \/ CreateSocketNode(p, "SENDING", b)
       \/ /\ peer = p
          /\ \/ Sends(b) /\ offered' = offered \o b /\ UNCHANGED <<node, tcp, told>>
             \/ SendingFails(b)
          /\ UNCHANGED <<established, conns>>
  /\ UNCHANGED <<program, events, pc>>

ReqClose(p) ==
  /\ program = "scc" /\ pc = "loop"
  /\ peer = p
  /\ ClearSocketNode
  /\ UNCHANGED <<program, events, pc, established, lens, conns>>

-----------------------------------------------------------------------------
(* Both: epoll and CheckClientMessage.  Data from the peer is left out     *)
(* (RecvFraming), so that a socket is readable when it is dead.            *)
Ready ==
  {e \in {"in", "out"} :
     IF e = "in" THEN tcp = "dead" ELSE epollout /\ (tcp = "dead" \/ Room > 0)}

EpollWait ==
  /\ pc = "loop" /\ events = {}
  /\ Ready # {}
  /\ events' = Ready
  /\ UNCHANGED <<program, node, tcp, stream, epollout, pc, established, told, lens, conns>>

(* A free slot is passed over, a dead connection closed; another one finds *)
(* nothing to read.  What follows looks at the node in any case.           *)
HandleIn ==
  /\ pc = "loop" /\ events # {}
  /\ IF peer # NoPeer /\ "in" \in events /\ tcp = "dead"
     THEN ClearSocketNode
     ELSE UNCHANGED <<node, tcp, stream, epollout, told>>
  /\ pc' = IF peer # NoPeer /\ "out" \in events THEN "out" ELSE "loop"
  /\ events' = {}
  /\ UNCHANGED <<program, established, lens, conns>>

(* Mutant: the check of the socket is not there.                           *)
SocketBadNever == FALSE

(* getsockopt() fails on the socket -1 of a node that has just been        *)
(* cleared.  The error it returns of a good one is not looked at.          *)
SocketBad == m_sStatus # "OK" /\ tcp = "none"

Status ==
  /\ m_sStatus' = "OK"
  /\ told' = IF m_sStatus = "CONNECTING" THEN "succ" ELSE told
  /\ UNCHANGED <<peer, opened>>

(* Mutant: EPOLLOUT is given up after every flush.                         *)
WatchNoMore == epollout' = FALSE

(* EPOLLOUT is given up when the buffer is empty; but also, before it is   *)
(* flushed, by a connection that was asked for.                            *)
Watch ==
  epollout' = (epollout /\ m_sStatus # "CONNECTING" /\ m_stBuffMngSend' # <<>>)

Flush ==
  LET n == Smaller(Len(m_stBuffMngSend), Room) IN
    /\ tcp # "dead" \/ m_stBuffMngSend = <<>>
    /\ Takes(m_stBuffMngSend, n)
    /\ m_stBuffMngSend' = Beyond(m_stBuffMngSend, n)
    /\ Watch
    /\ UNCHANGED <<tcp, offered>>

(* The connection died since epoll_wait: its status is "OK" by now.        *)
FlushFails ==
  /\ tcp = "dead" /\ m_stBuffMngSend # <<>>
  /\ peer' = NoPeer /\ tcp' = "none" /\ m_sStatus' = "OK"
  /\ told' = IF m_sStatus = "CONNECTING" THEN "succ" ELSE told
  /\ epollout' = FALSE
  /\ kernel' = <<>> /\ m_stBuffMngSend' = <<>>
  /\ UNCHANGED <<opened, offered, wire>>

HandleOut ==
  /\ pc = "out"
  /\ \/ SocketBad /\ UNCHANGED <<node, tcp, stream, epollout, told>>
     \/ ~SocketBad /\ Status /\ Flush
     \/ ~SocketBad /\ FlushFails
  /\ pc' = "loop"
  /\ UNCHANGED <<program, events, established, lens, conns>>

-----------------------------------------------------------------------------
(* External: the network and the peer.                                     *)
Resolves ==
  /\ tcp = "syn"
  /\ tcp' \in {"up", "dead"}
  /\ established' = (tcp' = "up")
  /\ UNCHANGED <<program, node, stream, epollout, events, pc, told, lens, conns>>

Dies ==
  /\ tcp = "up"
  /\ tcp' = "dead"
  /\ UNCHANGED <<program, node, stream, epollout, events, pc, established, told, lens, conns>>

PeerReads ==
  /\ kernel # <<>>
  /\ kernel' = Tail(kernel)
  /\ UNCHANGED <<program, node, tcp, m_stBuffMngSend, offered, wire, epollout, events,
                 pc, established, told, lens, conns>>

Loop == EpollWait \/ HandleIn \/ HandleOut

Next ==
  \/ \E p \in Peers :
       \/ CreateSocketNodeAccepted(p)
       \/ ReqConn(p)
       \/ ReqClose(p)
       \/ \E n \in Lens : DataTrans(p, n)
  \/ \E n \in Lens : DoSvrMessage(n)
  \/ Loop
  \/ Resolves \/ Dies \/ PeerReads

Spec == Init /\ [][Next]_vars

(* The loop goes round; a peer that lives reads, and connecting ends.      *)
FairSpec == Spec /\ WF_vars(Loop) /\ WF_vars(PeerReads) /\ WF_vars(Resolves)
-----------------------------------------------------------------------------
Bytes == (1 .. MaxMsgs) \X Nat

(* The type invariant; a free slot holds nothing.                          *)
TypeOK ==
  /\ peer \in Peers \cup {NoPeer}
  /\ m_sStatus \in {"OK", "CONNECTING", "SENDING"}
  /\ tcp \in {"none", "syn", "up", "dead"}
  /\ {m_stBuffMngSend, offered, wire} \subseteq Seq(Bytes)
  /\ kernel \in Seq(Bytes) /\ Len(kernel) <= SndBuf
  /\ events \subseteq {"in", "out"} /\ pc \in {"loop", "out"}
  /\ {epollout, established} \subseteq BOOLEAN
  /\ told \in {"none", "succ", "fail"}
  /\ opened \in {"accept", "conn", "data"}
  /\ lens \in Seq(Lens) /\ conns \in 0 .. MaxConns
  /\ (peer = NoPeer) <=> (tcp = "none")
  /\ peer = NoPeer => m_stBuffMngSend = <<>> /\ ~epollout

(* As long as a connection lives, every byte MCP sent on it is on the wire *)
(* or in the buffer behind those on the wire: none is lost, doubled or     *)
(* overtaken by a later one, and none of an earlier connection is among    *)
(* them ("prevent the data from getting mixed up", auxhandle.cpp:317).     *)
StreamWhole ==
  (peer # NoPeer /\ tcp # "dead") => wire \o m_stBuffMngSend = offered

(* What a slot holds, and what of it belongs to its connection.            *)
StreamRight == TypeOK /\ StreamWhole

(* Once MCP was told that a connection failed, no later part of the same   *)
(* event, which still works on the freed node, tells it the opposite.      *)
FailIsFinal == [][told = "fail" => told' # "succ"]_vars

(* A request for a connection that was begun is answered, and truly: with  *)
(* a failure, or with success once its status is that of a connection that *)
(* can be written to; also when it was asked for again in between, which   *)
(* is answered with success at once (mainctrl.cpp:809).                    *)
Answered ==
  (peer # NoPeer /\ m_sStatus = "CONNECTING")
    ~> \/ peer = NoPeer /\ told = "fail"
       \/ m_sStatus = "OK" /\ told = "succ"

(* The last byte of message m is among the bytes s.                        *)
HasAll(s, m) ==
  m <= Len(lens) /\ \E i \in 1 .. Len(s) : s[i] = <<m, lens[m]>>

(* A message for a connection that a client or a message opened is sent in *)
(* the end, without another one having to follow, or the connection ends.  *)
(* (Not so for one that CMD_REQ_SCC_CONN opened: EPOLLOUT is taken off at  *)
(* mainctrl.cpp:613 before what waited is flushed at :621.)                *)
Drained ==
  \A m \in 1 .. MaxMsgs :
    (peer # NoPeer /\ opened # "conn" /\ HasAll(offered, m))
      ~> (peer = NoPeer \/ HasAll(wire, m))
=============================================================================
