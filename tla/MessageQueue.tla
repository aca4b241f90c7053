---------------------------- MODULE MessageQueue ----------------------------
(***************************************************************************)
(* What the store-and-forward buffer promises: a bounded queue that drops  *)
(* its oldest frame to admit a new one and survives resets.  A reset       *)
(* between the writes of an operation may undo it or leave its mark; one   *)
(* that cuts a write may lose frames.  Once a write has failed nothing is  *)
(* promised of what a reset finds, but the queue goes on until then.       *)
(***************************************************************************)
EXTENDS Naturals, Sequences, SequencesExt

CONSTANTS
  Msg, Size,
  Lost,     \* the place of a frame that is lost
  Garbled   \* the remains of frames

Item == Msg \cup {Lost, Garbled}

VARIABLES
  kept,    \* the frames admitted and not yet taken, in order
  stored,  \* what a reset would find
  doing,   \* the operation in progress: "nothing", "adding" or "taking"
  failed   \* a write has failed since the last reset

vars == <<kept, stored, doing, failed>>

Init == kept = <<>> /\ stored = <<>> /\ doing = "nothing" /\ failed = FALSE

Add(m) ==
  /\ doing = "nothing" /\ doing' = "adding"
  /\ kept' = Append(IF Len(kept) < Size THEN kept ELSE Tail(kept), m)
  /\ UNCHANGED <<stored, failed>>

\* A lost frame at the front is not passed over: it waits to be dropped.
Take ==
  /\ doing = "nothing" /\ doing' = "taking"
  /\ kept # <<>> /\ Head(kept) # Lost
  /\ kept' = Tail(kept)
  /\ UNCHANGED <<stored, failed>>

\* What is found half-way: the frame that enters a full queue stands in the place of the
\* oldest one, at the front, and the place of the frame that leaves is empty.
Halfway ==
  CASE doing = "nothing" -> stored
    [] doing = "adding"  -> IF Len(stored) = Size THEN <<Last(kept)>> \o Front(kept) ELSE stored
    [] doing = "taking"  -> <<Lost>> \o kept

Mark == doing # "nothing" /\ stored' = Halfway /\ UNCHANGED <<kept, doing, failed>>

Persist == doing # "nothing" /\ stored' = kept /\ doing' = "nothing" /\ UNCHANGED <<kept, failed>>

\* A write fails, or follows one that failed.
Spoil ==
  /\ doing # "nothing" /\ doing' \in {doing, "nothing"}
  /\ stored' \in Seq(Item) /\ Len(stored') <= Size
  /\ failed' = TRUE
  /\ UNCHANGED kept

Reset == kept' = stored /\ doing' = "nothing" /\ failed' = FALSE /\ UNCHANGED stored

\* Frames are lost where they are, or everything is.
Holes(q, r) ==
  \/ r = <<>>
  \/ Len(r) = Len(q) /\ \A k \in 1..Len(q) : r[k] \in {q[k], Lost, Garbled}

ResetTorn ==
  /\ doing # "nothing" /\ doing' = "nothing"
  /\ failed \/ \E q \in {stored, Halfway, kept} : Holes(q, stored')
  /\ stored' \in Seq(Item) /\ Len(stored') <= Size
  /\ kept' = stored' /\ failed' = FALSE

Next == (\E m \in Msg : Add(m)) \/ Take \/ Mark \/ Persist \/ Spoil \/ Reset \/ ResetTorn

Spec == Init /\ [][Next]_vars

=============================================================================
