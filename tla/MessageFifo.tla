----------------------------- MODULE MessageFifo -----------------------------
(***************************************************************************)
(* What a CCodeQueue promises its two users: a FIFO of messages.  A        *)
(* message that was accepted keeps its length and its place; the one thing *)
(* that may happen to it is that its body is spoilt when it goes in.       *)
(***************************************************************************)
EXTENDS Naturals, Sequences

CONSTANTS Lens, Payloads, Spoilt

VARIABLE fifo

Message == [len : Lens, body : Payloads \cup {Spoilt}]

Init == fifo = <<>>

Put(m) == fifo' = Append(fifo, m)

Take == fifo # <<>> /\ fifo' = Tail(fifo)

Next == (\E m \in Message : Put(m)) \/ Take

Spec == Init /\ [][Next]_fifo
=============================================================================
