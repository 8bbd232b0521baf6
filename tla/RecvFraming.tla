----------------------------- MODULE RecvFraming -----------------------------
(***************************************************************************)
(* How one slot of the connection table turns the byte stream of its       *)
(* connection into messages for the pipe to MCP: RecvClientData of CCS     *)
(* (CAuxHandle) and of SCC (CMainCtrl), with the completeness function of  *)
(* asn20_complete.so.  A read returns any part of what has arrived; what   *)
(* is not yet a message waits in the slot's receive buffer.  When the slot *)
(* is given to the next connection the buffer goes with it.                *)
(*                                                                         *)
(* A byte is a pair <<m, k>>: byte k of the m-th message ever sent.        *)
(***************************************************************************)
EXTENDS Integers, Sequences

CONSTANTS
  Lens,            (* the lengths of the messages the clients send          *)
  HeaderLen,       (* msg_header_len(): the bytes that tell a length        *)
  RecvRoom,        (* the bytes there are in m_szBuffRecv behind the head   *)
  Programs,        (* which programs to look at, "ccs" or "scc"             *)
  PipeCap,         (* bound: the messages the pipe has room for             *)
  MaxMsgs          (* bound: how many messages are ever sent                *)

ASSUME FramingAssumption ==
  /\ Lens \subseteq {n \in Nat : n >= HeaderLen}
  /\ {HeaderLen, RecvRoom, PipeCap, MaxMsgs} \subseteq Nat \ {0}
  /\ HeaderLen < RecvRoom
  /\ Programs \subseteq {"ccs", "scc"}

VARIABLES
  program,   (* whose slot this is; never changes                           *)
  net,       (* external: sent by the client and not yet read               *)
  gone,      (* external: the client has closed                             *)
  open,      (* the slot is in use                                          *)
  m_stBuffMngRecv,
  pc,        (* "cut": in the loop that takes messages off the front        *)
  left,      (* the bytes from pCodeStartPos on, iCodeLeftLen of them       *)
  pipe,      (* Me2Svr, read by MCP                                         *)
  lens,      (* history: the length of every message ever sent              *)
  sent,      (* history: every byte sent on this connection                 *)
  done       (* history: every byte of it that went into the pipe           *)

vars ==
  <<program, net, gone, open, m_stBuffMngRecv, pc, left, pipe, lens, sent, done>>

Message(m) == [k \in 1 .. lens[m] |-> <<m, k>>]

First(s, n)  == SubSeq(s, 1, n)
Beyond(s, n) == SubSeq(s, n + 1, Len(s))

Init ==
  /\ program \in Programs
  /\ net = <<>> /\ gone = FALSE
  /\ open = TRUE
  /\ m_stBuffMngRecv = <<>>
  /\ pc = "idle" /\ left = <<>>
  /\ pipe = <<>>
  /\ lens = <<>> /\ sent = <<>> /\ done = <<>>

-----------------------------------------------------------------------------
(* net_complete_func: the tag is wrong, or the length is known, or both    *)
(* are still to come.  The tag is four bytes and taken not to occur within *)
(* a message; only SCC, after a full pipe, could tell.                     *)
BadTag(b) == Len(b) >= HeaderLen /\ b[1][2] # 1

PkgTheoryLen(b) == IF Len(b) < HeaderLen THEN 0 ELSE lens[b[1][1]]

IsComplete(b) == Len(b) >= HeaderLen /\ ~BadTag(b) /\ PkgTheoryLen(b) <= Len(b)

(* Mutant: what is buffered already is not taken off.                      *)
MissDataLenOfAll ==
  IF Len(m_stBuffMngRecv) < HeaderLen THEN 0 ELSE PkgTheoryLen(m_stBuffMngRecv)

(* How much the message in the buffer lacks at least.                      *)
MissDataLen ==
  IF Len(m_stBuffMngRecv) < HeaderLen
  THEN 0
  ELSE PkgTheoryLen(m_stBuffMngRecv) - Len(m_stBuffMngRecv)

(* Mutant: the buffer is left to whoever gets the slot next.               *)
ClearSocketNodeOnly ==
  /\ open' = FALSE
  /\ left' = <<>>
  /\ pc' = "idle"
  /\ UNCHANGED m_stBuffMngRecv

ClearSocketNode ==
  /\ open' = FALSE
  /\ m_stBuffMngRecv' = <<>>
  /\ left' = <<>>
  /\ pc' = "idle"

(* The buffer takes the bytes b behind what it holds, unless the blocks    *)
(* that all connections share are used up.                                 *)
AppendBuffer(b) ==
  \/ m_stBuffMngRecv' = m_stBuffMngRecv \o b /\ pc' = "idle" /\ left' = <<>>
     /\ UNCHANGED open
  \/ ClearSocketNode

-----------------------------------------------------------------------------
ClientSends(n) ==
  /\ open /\ ~gone
  /\ Len(lens) < MaxMsgs
  /\ lens' = Append(lens, n)
  /\ LET bytes == [k \in 1 .. n |-> <<Len(lens) + 1, k>>] IN
       net' = net \o bytes /\ sent' = sent \o bytes
  /\ UNCHANGED <<gone, open, m_stBuffMngRecv, pc, left, pipe, done>>

(* The client dies; the last bytes it sent may never arrive.               *)
ClientDies ==
  /\ open /\ ~gone
  /\ gone' = TRUE
  /\ \E n \in 0 .. Len(net) :
       /\ net' = First(net, n)
       /\ sent' = First(sent, Len(sent) - Len(net) + n)
  /\ UNCHANGED <<open, m_stBuffMngRecv, pc, left, pipe, lens, done>>

(* The slot is given to a new connection.                                  *)
CreateSocketNode ==
  /\ ~open
  /\ open' = TRUE /\ gone' = FALSE
  /\ net' = <<>> /\ sent' = <<>> /\ done' = <<>>
  /\ UNCHANGED <<m_stBuffMngRecv, pc, left, pipe, lens>>

-----------------------------------------------------------------------------
(* Mutant: read() is allowed the whole of the room, also behind old data.  *)
ReadableWithoutOld == IF Len(net) < RecvRoom THEN Len(net) ELSE RecvRoom

(* The room that is left behind the buffered bytes limits a read.          *)
Readable ==
  LET room == RecvRoom - Len(m_stBuffMngRecv)
  IN IF Len(net) < room THEN Len(net) ELSE room

(* Mutant: the bytes of an earlier read are forgotten.                     *)
StoreReadAlone(n) ==
  /\ n < MissDataLen
  /\ m_stBuffMngRecv' = First(net, n)
  /\ UNCHANGED <<open, pc, left>>

(* Too little for the message in the buffer: kept for the next time.       *)
StoreRead(n) ==
  /\ n < MissDataLen
  /\ AppendBuffer(First(net, n))

StartCut(n) ==
  /\ n >= MissDataLen
  /\ left' = m_stBuffMngRecv \o First(net, n)
  /\ m_stBuffMngRecv' = <<>>
  /\ pc' = "cut"
  /\ UNCHANGED open

(* What is buffered has been through net_complete_func before, so that the *)
(* check of its header (HeldIsPartial) has nothing to find.                *)
RecvClientData(n) ==
  /\ open /\ pc = "idle"
  /\ StoreRead(n) \/ StartCut(n)
  /\ net' = Beyond(net, n)
  /\ UNCHANGED <<gone, pipe, lens, sent, done>>

(* read() returns 0, at the end of the stream, but also when it is asked   *)
(* for 0 bytes because the buffer has no room.                             *)
RecvNothing ==
  /\ open /\ pc = "idle"
  /\ (gone /\ net = <<>>) \/ Len(m_stBuffMngRecv) = RecvRoom
  /\ ClearSocketNode
  /\ UNCHANGED <<net, gone, pipe, lens, sent, done>>

(* A message goes into the pipe.  Its length is below MAX_MSG_LEN, as it   *)
(* is in m_szBuffRecv, which is no longer.                                 *)
ForwardMessage ==
  /\ pc = "cut"
  /\ IsComplete(left)
  /\ Len(pipe) < PipeCap
  /\ LET n == PkgTheoryLen(left) IN
       /\ pipe' = Append(pipe, First(left, n))
       /\ done' = done \o First(left, n)
       /\ left' = Beyond(left, n)
  /\ UNCHANGED <<net, gone, open, m_stBuffMngRecv, pc, lens, sent>>

(* CCS makes the client notice that its request is lost.                   *)
PipeFullCloses ==
  /\ program = "ccs"
  /\ pc = "cut" /\ IsComplete(left) /\ Len(pipe) = PipeCap
  /\ ClearSocketNode
  /\ UNCHANGED <<net, gone, pipe, lens, sent, done>>

(* SCC has the line that does so commented out.                            *)
PipeFullReturns ==
  /\ program = "scc"
  /\ pc = "cut" /\ IsComplete(left) /\ Len(pipe) = PipeCap
  /\ left' = <<>>
  /\ pc' = "idle"
  /\ UNCHANGED <<net, gone, open, m_stBuffMngRecv, pipe, lens, sent, done>>

BadMessage ==
  /\ pc = "cut"
  /\ BadTag(left)
  /\ ClearSocketNode
  /\ UNCHANGED <<net, gone, pipe, lens, sent, done>>

(* No whole message is left: the rest is kept.                             *)
KeepRest ==
  /\ pc = "cut"
  /\ ~BadTag(left) /\ ~IsComplete(left)
  /\ AppendBuffer(left)
  /\ UNCHANGED <<net, gone, pipe, lens, sent, done>>

McpTakes ==
  /\ pipe # <<>>
  /\ pipe' = Tail(pipe)
  /\ UNCHANGED <<net, gone, open, m_stBuffMngRecv, pc, left, lens, sent, done>>

-----------------------------------------------------------------------------
Work ==
  \/ \E n \in 1 .. Readable : RecvClientData(n)
  \/ RecvNothing
  \/ ForwardMessage
  \/ PipeFullCloses
  \/ PipeFullReturns
  \/ BadMessage
  \/ KeepRest

Next ==
  /\ \/ \E n \in Lens : ClientSends(n)
     \/ ClientDies
     \/ CreateSocketNode
     \/ Work
     \/ McpTakes
  /\ UNCHANGED program

Spec == Init /\ [][Next]_vars

(* epoll reports a readable socket again and again; the rest is one call.  *)
FairSpec == Spec /\ WF_vars(Work /\ UNCHANGED program)
-----------------------------------------------------------------------------
Bytes == (1 .. MaxMsgs) \X Nat

(* The type invariant: nothing is ever longer than m_szBuffRecv.           *)
TypeOK ==
  /\ {net, m_stBuffMngRecv, left, sent, done} \subseteq Seq(Bytes)
  /\ {gone, open} \subseteq BOOLEAN
  /\ Len(m_stBuffMngRecv) <= RecvRoom /\ Len(left) <= RecvRoom
  /\ pc \in {"idle", "cut"}
  /\ pipe \in Seq(Seq(Bytes)) /\ Len(pipe) <= PipeCap
  /\ lens \in Seq(Lens) /\ Len(lens) <= MaxMsgs

(* The messages in the pipe are the messages of the clients: none is cut   *)
(* short, run into the next one or put together from those of two          *)
(* connections that had the slot one after the other.  (Of SCC this is not *)
(* asked: after a full pipe it goes on in the middle of a message.)        *)
WholeMessages ==
  program = "ccs" =>
    \A i \in 1 .. Len(pipe) : \E m \in 1 .. Len(lens) : pipe[i] = Message(m)

(* While a connection is open none of its bytes is lost, doubled or out of *)
(* order: "must not drop a packet secretly, close the connection to let    *)
(* the outside know" (the comment at ccs auxhandle.cpp:696 and scc         *)
(* mainctrl.cpp:959).  CCS keeps to it; SCC does not (mainctrl.cpp:962).   *)
NothingSkipped ==
  (program = "ccs" /\ open) => done \o left \o m_stBuffMngRecv \o net = sent

(* Between two reads the buffer holds the start of one message and not all *)
(* of it: no complete message waits for the client to send another one.    *)
HeldIsPartial ==
  (open /\ pc = "idle") => ~BadTag(m_stBuffMngRecv) /\ ~IsComplete(m_stBuffMngRecv)

(* What is buffered, at any time and between two reads.                    *)
BufferRight == TypeOK /\ HeldIsPartial

(* The last byte of message m is among the bytes s.                        *)
HasAll(s, m) ==
  m <= Len(lens) /\ \E i \in 1 .. Len(s) : s[i] = <<m, lens[m]>>

(* Every message a client of CCS sends is handed on in the end, without    *)
(* another one having to follow, or the client is cut off.                 *)
AllTaken ==
  \A m \in 1 .. MaxMsgs :
    (program = "ccs" /\ open /\ HasAll(sent, m)) ~> (~open \/ HasAll(done, m))
=============================================================================
