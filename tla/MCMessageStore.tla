--------------------------- MODULE MCMessageStore ---------------------------
(* The message ring on the two flash drivers.                               *)
EXTENDS MessageStore, Bitwise, TLC

Frames == Permutations(Msg)

\* esp_storage: each write reads the sector, erases it and writes it back.
Replaced(old, new) == new

\* nrf_mpsl: writing clears bits and never sets one.  An erased slot takes anything; the
\* valid byte of an invalid slot stays 0; a frame over a frame leaves a mixture.
NorSlot(old, new) ==
  CASE old = Erased -> new
    [] old = Invalid \/ new = Invalid -> Invalid
    [] OTHER -> IF old = new THEN new ELSE Garbled

NorHeader(old, new) ==
  IF old = Erased THEN new
  ELSE [head |-> old.head & new.head, tail |-> old.tail & new.tail, count |-> old.count & new.count]
=============================================================================
