---------------------------- MODULE ReportNumbers ----------------------------
(***************************************************************************)
(* The numbers of the status reports of one vehicle.  report_seq is the    *)
(* boot reference and the low bits of a counter that the vehicle keeps for *)
(* ever; the simulated vehicle never changes its boot.  Status ingest takes*)
(* a report only if its report_seq is above that of every report of the    *)
(* vehicle it has taken and still stores, and the retention sweep deletes  *)
(* what is older than the retention period, except what an open incident   *)
(* or anomaly holds.  Reports may be lost, repeated and reordered on the   *)
(* way (IF-06, GLEO).  Everything else ingest checks is in Delivery.       *)
(***************************************************************************)
EXTENDS Naturals, Sequences, FiniteSets, FiniteSetsExt

CONSTANTS
  Range16,     \* 2^16 in the code
  Features,
  MaxEmitted   \* bound: reports of the vehicle

ASSUME NumberConstants == Range16 \in Nat \ {0} /\ MaxEmitted \in Nat

VARIABLES
  emitted,   \* feature of each report the vehicle has sent, by counter
  taken,     \* accepted rows of status_report: [counter, old]
  shut,      \* reports refused although newer than every one stored
  reversed   \* reports taken although one as new, or newer, was stored

numberVars == <<emitted, taken, shut, reversed>>

NumberInit == emitted = << >> /\ taken = {} /\ shut = {} /\ reversed = {}

\* Mutant of ReportSeq: the mask is one too small.
ReportSeqShort(counter) == Range16 + (counter % (Range16 - 1))

\* reportSeqOf, with boot reference 1.
ReportSeq(counter) == Range16 + (counter % Range16)

Emit(f) ==
  /\ Len(emitted) < MaxEmitted
  /\ emitted' = Append(emitted, f)
  /\ UNCHANGED <<taken, shut, reversed>>

\* Mutant of LastReportSeq: of this feature.
LastReportSeqOfFeature(f) ==
  Max({0} \cup {ReportSeq(r.counter) : r \in {x \in taken : emitted[x.counter] = f}})

\* lastReportSeq, whatever the feature of the report at hand.
LastReportSeq(f) == Max({0} \cup {ReportSeq(r.counter) : r \in taken})

Newest(c) == \A r \in taken : r.counter < c

\* A report arrives, perhaps again.
IngestReport(c) ==
  /\ IF ReportSeq(c) > LastReportSeq(emitted[c])
     THEN /\ taken' = {r \in taken : r.counter # c} \cup {[counter |-> c, old |-> FALSE]}
          /\ reversed' = IF Newest(c) THEN reversed ELSE reversed \cup {c}
          /\ UNCHANGED shut
     ELSE /\ shut' = IF Newest(c) THEN shut \cup {c} ELSE shut
          /\ UNCHANGED <<taken, reversed>>
  /\ UNCHANGED emitted

\* The retention period passes.
TakenAge ==
  /\ taken' = {[r EXCEPT !.old = TRUE] : r \in taken}
  /\ UNCHANGED <<emitted, shut, reversed>>

\* sweep: held are the features open incidents and anomalies hold.
Sweep(held) ==
  /\ taken' = {r \in taken : ~r.old \/ emitted[r.counter] \in held}
  /\ UNCHANGED <<emitted, shut, reversed>>

NumberNext ==
  \/ \E f \in Features : Emit(f)
  \/ \E c \in DOMAIN emitted : IngestReport(c)
  \/ TakenAge
  \/ \E held \in SUBSET Features : Sweep(held)

NumberSpec == NumberInit /\ [][NumberNext]_numberVars

-----------------------------------------------------------------------------
(* Properties *)

NumberTypeOK ==
  /\ emitted \in Seq(Features)
  /\ taken \subseteq [counter: DOMAIN emitted, old: BOOLEAN]
  /\ shut \cup reversed \subseteq DOMAIN emitted

\* A report newer than all that are stored is refused as a replay only once the
\* counter has run over its bits (status-v2.ts:15).
FreshTakenUntilWrap == \A c \in shut : c >= Range16

\* A report is taken after one as new or newer only once the counter has run over,
\* or once the sweep has deleted the newer one: lost, repeated and reordered
\* reports of several features never turn the vehicle's status back
\* (status-ingest.service.ts:102).
NeverReversedUntilWrap == reversed # {} => Len(emitted) >= Range16
=============================================================================
