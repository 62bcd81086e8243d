--------------------------- MODULE CommittedStream ---------------------------
(***************************************************************************)
(* What tx and publish promise together (db.ts, event.service.ts): changes *)
(* become durable all at once, and a subscriber hears of an event at most  *)
(* once and never of one that is not durable.                              *)
(***************************************************************************)
EXTENDS Sequences, SequencesExt

CONSTANT Events

VARIABLES
  rows,      \* events that are durable
  streamed   \* events the subscribers got, in order

Init == rows = {} /\ streamed = << >>

\* One outermost transaction.
Commit == \E work \in SUBSET (Events \ rows) : rows' = rows \cup work /\ UNCHANGED streamed

Stream ==
  \E e \in rows \ ToSet(streamed) : streamed' = Append(streamed, e) /\ UNCHANGED rows

Spec == Init /\ [][Commit \/ Stream]_<<rows, streamed>>
=============================================================================
