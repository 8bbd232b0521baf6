---------------------------- MODULE CodeQueueFifo ----------------------------
(***************************************************************************)
(* The bytes of CodeQueue read as the FIFO of MessageFifo.  The messages   *)
(* are decoded from shared memory alone, the way a reader that walks from  *)
(* m_nBegin to m_nEnd would; the history variable plays no part.           *)
(***************************************************************************)
EXTENDS CodeQueue

(* The messages in the last u bytes before m_nEnd.  Bytes that are not a   *)
(* whole frame end the list.                                               *)
RECURSIVE MessagesIn(_)
MessagesIn(u) ==
  LET p == Wrap(m_nEnd - u)
      n == LengthAt(p)
  IN IF u = 0 \/ n = 0 \/ HDR + n > u
     THEN <<>>
     ELSE <<[len |-> n, body |-> BodyAt(Wrap(p + HDR), n)]>> \o MessagesIn(u - HDR - n)

Fifo == INSTANCE MessageFifo WITH Spoilt <- Blank, fifo <- MessagesIn(Used)

(* Every step of the two processes, restarts included, is a Put, a Take or *)
(* no step of the FIFO: appends become visible at once and in order, none  *)
(* is lost, doubled or reordered.                                          *)
ImplementsFifo == Fifo!Spec

=============================================================================
