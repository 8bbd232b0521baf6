------------------------------ MODULE ByteFifos ------------------------------
(***************************************************************************)
(* What a CBuffMng promises: a FIFO of bytes for every suffix.  Bytes go   *)
(* in as they come, whole appends or none of it, come out in that order,   *)
(* and no suffix sees those of another.                                    *)
(*                                                                         *)
(* A byte is its suffix and the number of bytes that were appended to it   *)
(* before, modulo Values.                                                  *)
(***************************************************************************)
EXTENDS Naturals, Sequences

CONSTANTS Bufs, Lens, Values

VARIABLES fifo, next

vars == <<fifo, next>>

Init ==
  /\ fifo = [b \in Bufs |-> <<>>]
  /\ next = [b \in Bufs |-> 0]

Put(b, n) ==
  /\ fifo' = [fifo EXCEPT ![b] = @ \o [k \in 1 .. n |-> <<b, (next[b] + k - 1) % Values>>]]
  /\ next' = [next EXCEPT ![b] = (@ + n) % Values]

Take(b, n) ==
  /\ n <= Len(fifo[b])
  /\ fifo' = [fifo EXCEPT ![b] = SubSeq(@, n + 1, Len(@))]
  /\ UNCHANGED next

Next ==
  \E b \in Bufs :
    \/ \E n \in Lens : Put(b, n)
    \/ \E n \in 1 .. Len(fifo[b]) : Take(b, n)

Spec == Init /\ [][Next]_vars
=============================================================================
