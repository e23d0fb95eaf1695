------------------------------ MODULE RecordLog ------------------------------
(***************************************************************************)
(* What the event buffer of GdsStream promises to the ground (Svc/         *)
(* GdsStream/docs/sdd.md, "Event Storage"): a queue of whole records with  *)
(* two retention rules. Until the GDS has attached, the oldest records may *)
(* be given up to make room; from then on nothing leaves the queue except  *)
(* the record at its head, once the GDS has taken it.                      *)
(*                                                                         *)
(* GdsStream implements this specification: see GdsStreamRefinement.       *)
(***************************************************************************)
EXTENDS Sequences

CONSTANTS
  Records,   \* every record that can be stored
  None       \* the GDS holds no record

VARIABLES
  queue,     \* the records the buffer holds, oldest first
  evicting,  \* TRUE until the GDS has been handed the buffer
  hand       \* the record the GDS has read and not yet acknowledged

vars == <<queue, evicting, hand>>

Init ==
  /\ queue = <<>>
  /\ evicting = TRUE
  /\ hand = None

(* A record is stored, whole, behind all the others. *)
Store ==
  /\ UNCHANGED <<evicting, hand>>
  /\ queue' # queue
  /\ \E r \in Records : queue' = Append(queue, r)

(* The oldest record is given up. *)
Evict ==
  /\ evicting
  /\ UNCHANGED <<evicting, hand>>
  /\ queue # <<>>
  /\ queue' = Tail(queue)

(* The buffer is handed to the GDS as it stands. *)
Handoff ==
  /\ evicting
  /\ evicting' = FALSE
  /\ UNCHANGED <<queue, hand>>

(* The GDS reads the record at the head, and acknowledges it later. *)
Take ==
  /\ ~ evicting
  /\ hand = None
  /\ hand' # None
  /\ queue # <<>>
  /\ hand' = Head(queue)
  /\ UNCHANGED <<queue, evicting>>

Acknowledge ==
  /\ ~ evicting
  /\ hand # None
  /\ hand' = None
  /\ queue # <<>>
  /\ hand = Head(queue)
  /\ queue' = Tail(queue)
  /\ UNCHANGED evicting

(* A reset of the flight computer forgets the buffer. *)
Reset ==
  /\ evicting' = TRUE
  /\ hand' = None
  /\ queue' = <<>>

Next == Store \/ Evict \/ Handoff \/ Take \/ Acknowledge \/ Reset

Spec == Init /\ [][Next]_vars
==============================================================================
