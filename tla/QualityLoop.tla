----------------------------- MODULE QualityLoop -----------------------------
(***************************************************************************)
(* From signals out of the field to the next version of a feature.         *)
(* Signals of one kind about the feature are gathered in an open anomaly   *)
(* case; a person closes it, or the kill that names it does.  A case that  *)
(* was mitigated becomes a quality feedback on the version in the field,   *)
(* and a later version that passes gate G5 resolves the feedback, one row  *)
(* at a time.  Every link of this chain is a callback after the commit of  *)
(* the one before: nothing else runs between, but the process may die, and *)
(* half a callback is done then.  Kinds never meet, so one is followed.    *)
(* Advice, reasons and texts are left out.                                 *)
(***************************************************************************)
EXTENDS Naturals, Sequences, FiniteSets, FiniteSetsExt, SequencesExt

CONSTANTS
  CaseKinds,        \* of "FEATURE_FAULT", "SECURITY", "DELIVERY", "FIELD_SOTIF"
  CaseSignals,      \* signals: [vin, severity], INFO is 0, WARNING 1 and CRITICAL 2
  SafetyVersions,   \* versions of ASIL B and above
  MaxSignals,       \* signals a case keeps, 100 in the code
  ManyVehicles,     \* vehicles that make a fault CRITICAL, 3 in the code
  ManyAsilB,        \* and if the newest version is of ASIL B or above, 2
  MaxCases,         \* bound: cases
  MaxVersion,       \* bound: versions of the feature
  MaxPasses,        \* bound: G5 judged PASS
  MaxLoopCrashes    \* bound: stops of the process

ASSUME LoopConstants ==
  /\ {MaxSignals, MaxVersion, ManyAsilB} \subseteq Nat \ {0}
  /\ ManyVehicles \in Nat /\ ManyAsilB <= ManyVehicles
  /\ {MaxCases, MaxPasses, MaxLoopCrashes} \subseteq Nat
  /\ \A s \in CaseSignals : s.severity \in {0, 1, 2}

VARIABLES
  caseKind,    \* the kind followed
  cases,       \* table anomaly, in order of id
  newest,      \* newest version in the registry
  deployed,    \* version of the deployed policy, 0 if there is none
  feedbacks,   \* table quality_feedback, in order of id
  kills,       \* cases named by an issued kill
  passes,      \* versions judged PASS at G5, in order
  callback,    \* what runs after the commit: [what, of]
  missed,      \* callbacks that died with the process
  loopCrashes

loopVars == <<caseKind, cases, newest, deployed, feedbacks, kills, passes, callback,
              missed, loopCrashes>>

NoCallback == [what |-> "NONE", of |-> 0]

LoopInit ==
  /\ caseKind \in CaseKinds
  /\ cases = << >>
  /\ newest = 1
  /\ deployed = 0
  /\ feedbacks = << >>
  /\ kills = {}
  /\ passes = << >>
  /\ callback = NoCallback
  /\ missed = {}
  /\ loopCrashes = 0

Open(c) == cases[c].status \in {"OPEN", "ACKNOWLEDGED"}

\* Mutant of Kept: the signal at hand only.
KeptLast(signals) == <<Last(signals)>>

\* signals.slice(-MAX_SIGNALS)
Kept(signals) ==
  IF Len(signals) <= MaxSignals THEN signals
  ELSE SubSeq(signals, Len(signals) - MaxSignals + 1, Len(signals))

\* Faults of many vehicles are CRITICAL whatever they report.
ClassifyAnomaly(signals) ==
  LET vins == {s.vin : s \in ToSet(signals)}
      reported == Max({s.severity : s \in ToSet(signals)}) IN
  IF /\ caseKind = "FEATURE_FAULT"
     /\ Cardinality(vins) >= (IF newest \in SafetyVersions THEN ManyAsilB ELSE ManyVehicles)
  THEN 2
  ELSE reported

\* The version in the field, as seen when asked.
FieldVersion == IF deployed # 0 THEN deployed ELSE newest

AddSignal(row, s) ==
  LET signals == Kept(Append(row.signals, s)) IN
  [row EXCEPT !.signals = signals, !.severity = ClassifyAnomaly(signals)]

Signal(s) ==
  /\ callback = NoCallback
  /\ \/ \E c \in DOMAIN cases :
          /\ Open(c)
          /\ cases' = [cases EXCEPT ![c] = AddSignal(@, s)]
     \/ /\ \A c \in DOMAIN cases : ~Open(c)
        /\ Len(cases) < MaxCases
        /\ cases' = Append(cases, AddSignal(
             [status |-> "OPEN", severity |-> 0, signals |-> << >>], s))
  /\ UNCHANGED <<caseKind, newest, deployed, feedbacks, kills, passes, callback,
                 missed, loopCrashes>>

Acknowledge(c) ==
  /\ callback = NoCallback
  /\ cases[c].status = "OPEN"
  /\ cases' = [cases EXCEPT ![c].status = "ACKNOWLEDGED"]
  /\ UNCHANGED <<caseKind, newest, deployed, feedbacks, kills, passes, callback,
                 missed, loopCrashes>>

\* The signals of a closed case are read no more, and forgotten here.
CloseCase(c, status) ==
  /\ Open(c)
  /\ cases' = [cases EXCEPT ![c].status = status, ![c].signals = << >>]
  /\ callback' = IF status = "MITIGATED" THEN [what |-> "MITIGATED", of |-> c] ELSE NoCallback
  /\ UNCHANGED <<caseKind, newest, deployed, feedbacks, kills, passes, missed, loopCrashes>>

Decide(c) ==
  /\ callback = NoCallback
  /\ \E status \in {"MITIGATED", "DISMISSED"} : CloseCase(c, status)

\* The kill switch issues a kill whose request named the case, whatever has become
\* of the case since (see KillSwitch).
KillIssued(c) ==
  /\ callback = NoCallback
  /\ c \notin kills
  /\ kills' = kills \cup {c}
  /\ callback' = [what |-> "KILL", of |-> c]
  /\ UNCHANGED <<caseKind, cases, newest, deployed, feedbacks, passes, missed, loopCrashes>>

\* close throws for a closed case, and the subscriber catches it.
OnKillIssued ==
  /\ callback.what = "KILL"
  /\ \/ CloseCase(callback.of, "MITIGATED")
     \/ /\ ~Open(callback.of)
        /\ callback' = NoCallback
        /\ UNCHANGED <<caseKind, cases, newest, deployed, feedbacks, kills, passes,
                       missed, loopCrashes>>

\* fromAnomaly: a delivery case ends with the operator.  since is not stored; it
\* tells later passes from earlier ones.
OnMitigated ==
  /\ callback.what = "MITIGATED"
  /\ feedbacks' =
       IF caseKind = "DELIVERY" THEN feedbacks
       ELSE Append(feedbacks, [case |-> callback.of, version |-> FieldVersion,
                               status |-> "OPEN", since |-> Len(passes)])
  /\ callback' = NoCallback
  /\ UNCHANGED <<caseKind, cases, newest, deployed, kills, passes, missed, loopCrashes>>

\* accept
AcceptFeedback(f) ==
  /\ callback = NoCallback
  /\ feedbacks[f].status = "OPEN"
  /\ feedbacks' = [feedbacks EXCEPT ![f].status = "ACCEPTED"]
  /\ UNCHANGED <<caseKind, cases, newest, deployed, kills, passes, callback, missed,
                 loopCrashes>>

\* A version that is not released yet may be judged again; a policy may be deployed
\* for it before.
JudgeG5(v) ==
  /\ callback = NoCallback
  /\ Len(passes) < MaxPasses
  /\ passes' = Append(passes, v)
  /\ callback' = [what |-> "PASS", of |-> Len(passes) + 1]
  /\ UNCHANGED <<caseKind, cases, newest, deployed, feedbacks, kills, missed, loopCrashes>>

\* Mutant of ResolvedBy: only feedback nobody has accepted.
ResolvedByOpen(fb, v) == fb.status = "OPEN" /\ v > fb.version

ResolvedBy(fb, v) == fb.status # "RESOLVED" /\ v > fb.version

\* Feedback the version that just passed resolves.
Resolvable == {f \in DOMAIN feedbacks : ResolvedBy(feedbacks[f], passes[callback.of])}

\* The list is newest first, and every resolution a transaction of its own.
OnG5Pass ==
  /\ callback.what = "PASS"
  /\ \/ /\ Resolvable # {}
        /\ feedbacks' = [feedbacks EXCEPT ![Max(Resolvable)].status = "RESOLVED"]
        /\ UNCHANGED callback
     \/ /\ Resolvable = {}
        /\ callback' = NoCallback
        /\ UNCHANGED feedbacks
  /\ UNCHANGED <<caseKind, cases, newest, deployed, kills, passes, missed, loopCrashes>>

NewVersion ==
  /\ callback = NoCallback
  /\ newest < MaxVersion
  /\ newest' = newest + 1
  /\ UNCHANGED <<caseKind, cases, deployed, feedbacks, kills, passes, callback, missed,
                 loopCrashes>>

\* A deployment or a rollback (see PolicyRelease).
DeployVersion(v) ==
  /\ callback = NoCallback
  /\ deployed' = v
  /\ UNCHANGED <<caseKind, cases, newest, feedbacks, kills, passes, callback, missed,
                 loopCrashes>>

LoopCrash ==
  /\ callback # NoCallback
  /\ loopCrashes < MaxLoopCrashes
  /\ loopCrashes' = loopCrashes + 1
  /\ missed' = missed \cup {callback}
  /\ callback' = NoCallback
  /\ UNCHANGED <<caseKind, cases, newest, deployed, feedbacks, kills, passes>>

LoopNext ==
  \/ \E s \in CaseSignals : Signal(s)
  \/ \E c \in DOMAIN cases : Acknowledge(c) \/ Decide(c) \/ KillIssued(c)
  \/ OnKillIssued \/ OnMitigated \/ OnG5Pass
  \/ \E f \in DOMAIN feedbacks : AcceptFeedback(f)
  \/ \E v \in 1 .. newest : JudgeG5(v) \/ DeployVersion(v)
  \/ NewVersion \/ LoopCrash

LoopSpec == LoopInit /\ [][LoopNext]_loopVars

-----------------------------------------------------------------------------
(* Properties *)

LoopTypeOK ==
  /\ caseKind \in CaseKinds
  /\ \A c \in DOMAIN cases :
       /\ cases[c].status \in {"OPEN", "ACKNOWLEDGED", "MITIGATED", "DISMISSED"}
       /\ cases[c].severity \in {0, 1, 2}
       /\ Len(cases[c].signals) \in 0 .. MaxSignals
  /\ deployed \in 0 .. newest /\ newest \in 1 .. MaxVersion
  /\ \A f \in DOMAIN feedbacks :
       /\ feedbacks[f].case \in DOMAIN cases
       /\ feedbacks[f].status \in {"OPEN", "ACCEPTED", "RESOLVED"}
  /\ kills \subseteq DOMAIN cases

\* A case in the hands of the operators never loses severity by a further signal,
\* except that its oldest signal was dropped for it, or that a newer version of lower
\* integrity was registered meanwhile: anomaly.service.ts:139 would announce that
\* as an escalation.
NeverPlayedDown ==
  [][\A c \in DOMAIN cases :
       cases'[c].severity < cases[c].severity
       => \/ Len(cases[c].signals) >= MaxSignals
          \/ newest \notin SafetyVersions /\ 1 .. newest \cap SafetyVersions # {}]_loopVars

Missed(what, of) == [what |-> what, of |-> of] \in missed

\* The pass at p answers the feedback at f: of a version above, and judged after it.
Answers(p, f) == p \in feedbacks[f].since + 1 .. Len(passes) /\ passes[p] > feedbacks[f].version
Resolved(f) == feedbacks[f].status = "RESOLVED"

\* The loop closes, whatever people, kills, deployments and judgements come in
\* which order, and except for what died with the process: an issued kill closes its
\* case; a mitigated case of any kind but delivery has one feedback, and no other
\* case has any; feedback is resolved only by a version above the one it names that
\* passed G5 after it, and always by one whose callback did not die half done; and
\* where one did, the newest feedback was resolved first, so that none stays open
\* beside an older one that the same pass resolved (anomaly.service.ts:4,
\* feedback.service.ts:1 to 3).
LoopCloses ==
  callback = NoCallback =>
    /\ \A c \in kills : ~Open(c) \/ Missed("KILL", c)
    /\ \A c \in DOMAIN cases :
         Cardinality({f \in DOMAIN feedbacks : feedbacks[f].case = c}) =
           IF cases[c].status = "MITIGATED" /\ caseKind # "DELIVERY" /\ ~Missed("MITIGATED", c)
           THEN 1 ELSE 0
    /\ \A f \in DOMAIN feedbacks :
         /\ Resolved(f) => \E p \in DOMAIN passes : Answers(p, f)
         /\ (\E p \in DOMAIN passes : Answers(p, f) /\ ~Missed("PASS", p)) => Resolved(f)
    /\ \A f, g \in DOMAIN feedbacks :
         f < g /\ Resolved(f) /\ ~Resolved(g)
         => \E p \in DOMAIN passes : Answers(p, f) /\ ~Answers(p, g)
=============================================================================
