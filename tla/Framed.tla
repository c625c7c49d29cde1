------------------------------- MODULE Framed -------------------------------
(***************************************************************************)
(* What transports promise of each direction of a connection: whole        *)
(* frames, each once, in the order they were sent.  Frames at the end may  *)
(* be lost when the connection breaks; nothing else is ever delivered.     *)
(***************************************************************************)
EXTENDS Naturals, Sequences

CONSTANT Directions

VARIABLES
  sent,  \* the frames handed over, oldest first
  got    \* the frames delivered, oldest first

Init ==
  /\ sent = [d \in Directions |-> << >>]
  /\ got = [d \in Directions |-> << >>]

Send(d) ==
  /\ Len(sent'[d]) = Len(sent[d]) + 1
  /\ sent' = [sent EXCEPT ![d] = Append(@, sent'[d][Len(sent[d]) + 1])]
  /\ UNCHANGED got

Deliver(d) ==
  /\ Len(got[d]) < Len(sent[d])
  /\ got' = [got EXCEPT ![d] = Append(@, sent[d][Len(got[d]) + 1])]
  /\ UNCHANGED sent

Next == \E d \in Directions : Send(d) \/ Deliver(d)

Spec == Init /\ [][Next]_<<sent, got>>
=============================================================================
