----------------------------- MODULE SeenWindow -----------------------------
(***************************************************************************)
(* What duplicate suppression promises: the node remembers exactly the     *)
(* Size most recently accepted packets, in the order it accepted them.  A  *)
(* packet in the window is a duplicate, is said to be one, and changes     *)
(* nothing; a packet outside it is accepted, said to be new and, once the  *)
(* window is full, displaces the packet accepted longest ago.  Neither     *)
(* hearing a duplicate nor the passage of time moves a packet in the       *)
(* window.                                                                 *)
(***************************************************************************)
EXTENDS Naturals, Sequences

CONSTANTS Packet, Size, NoPacket

VARIABLES
  window,
  told     \* the last packet asked about and whether it was said to be new

Members == {window[i] : i \in DOMAIN window}

Init == window = <<>> /\ told = [packet |-> NoPacket, new |-> TRUE]

Accept(p) ==
  /\ p \notin Members
  /\ window' = IF Len(window) < Size THEN Append(window, p) ELSE Append(Tail(window), p)
  /\ told' = [packet |-> p, new |-> TRUE]

Repeat(p) ==
  /\ p \in Members
  /\ told' = [packet |-> p, new |-> FALSE]
  /\ UNCHANGED window

Next == \E p \in Packet : Accept(p) \/ Repeat(p)

Spec == Init /\ [][Next]_<<window, told>>
=============================================================================
