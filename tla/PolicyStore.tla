----------------------------- MODULE PolicyStore -----------------------------
(***************************************************************************)
(* The policies of one flag (D01-06, D01-08): written, validated, approved,*)
(* deployed, staged.  A row of the table is rewritten as a whole from what *)
(* the handler read.  All handlers run at once, except validate: it reads  *)
(* the row, awaits the validators and then writes back the row it read,    *)
(* with a new status, over whatever has happened to the row since.         *)
(*                                                                         *)
(* A content stands for its hash, a run for its inputs.  The feature is of *)
(* class F2 or above and its rollout is wider than the canary; the checks  *)
(* against the registry (lifecycle, restricted ODD) only refuse and are    *)
(* left out.  The revision table has (policy, revision) as its key: an     *)
(* edit that would write a number again fails as a whole.                  *)
(***************************************************************************)
EXTENDS Naturals, Sequences, FiniteSets

CONSTANTS
  Policies,      \* policy ids
  Contents,      \* contents (hashes)
  People,        \* people who act
  System,        \* the automatic rollback, as an actor
  Nobody,        \* no one
  MaxRevision,   \* bound: revisions of a policy,
  MaxRows,       \*        and of all of them
  MaxValidating  \* bound: validations under way

ASSUME PolicyConstants ==
  /\ System # Nobody
  /\ {System, Nobody} \cap People = {}
  /\ {MaxRevision, MaxRows, MaxValidating} \subseteq Nat /\ MaxRevision >= 1

VARIABLES
  policies,    \* table policy: id -> row
  revisions,   \* table policy_revision: id -> contents, by number
  runs,        \* validation runs whose decision was GO
  approvals,   \* POLICY_APPROVE in the audit log
  validating,  \* validations that await their validators: the row they read
  lost         \* a deployed row was overwritten since the last deployment

storeVars == <<policies, revisions, runs, approvals, validating, lost>>

Editable == {"DRAFT", "VALIDATED", "REJECTED"}
NoRun == [revision |-> 0]   \* none, or its decision was not GO
Off == 0      \* stages: nobody,
Canary == 1   \* at most CANARY_MAX_BP,
Wide == 2     \* all that was approved

NoPolicy == [status |-> "NONE"]
Draft(who, content) ==
  [status |-> "DRAFT", revision |-> 1, content |-> content, createdBy |-> who,
   approvedBy |-> Nobody, lastRun |-> NoRun, stage |-> Wide, deployedBy |-> Nobody,
   watched |-> FALSE]

Known == {p \in Policies : policies[p].status # "NONE"}
Deployed == {p \in Known : policies[p].status = "DEPLOYED"}
CanEdit(p) == p \in Known /\ policies[p].status \in Editable

StoreInit ==
  /\ policies = [p \in Policies |-> NoPolicy]
  /\ revisions = [p \in Policies |-> << >>]
  /\ runs = {}
  /\ approvals = {}
  /\ validating = {}
  /\ lost = FALSE

Create(p, who, content) ==
  /\ p \notin Known
  /\ policies' = [policies EXCEPT ![p] = Draft(who, content)]
  /\ revisions' = [revisions EXCEPT ![p] = <<content>>]
  /\ UNCHANGED <<runs, approvals, validating, lost>>

Rows == Cardinality({x \in Policies \X (1..MaxRevision) : x[2] \in DOMAIN revisions[x[1]]})

\* Mutant of Revised: a revision number that is taken keeps its old content.
RevisedOver(p, content) ==
  LET n == policies[p].revision + 1 IN
  /\ n <= MaxRevision /\ Rows < MaxRows
  /\ policies' = [policies EXCEPT ![p] = [@ EXCEPT !.status = "DRAFT", !.revision = n,
                                                   !.content = content]]
  /\ revisions' = IF n <= Len(revisions[p]) THEN revisions
                  ELSE [revisions EXCEPT ![p] = Append(@, content)]

\* The next revision, with a row of its own; the last run stays.
Revised(p, content) ==
  LET n == policies[p].revision + 1 IN
  /\ n <= MaxRevision /\ Rows < MaxRows
  /\ n = Len(revisions[p]) + 1
  /\ policies' = [policies EXCEPT ![p] = [@ EXCEPT !.status = "DRAFT", !.revision = n,
                                                   !.content = content]]
  /\ revisions' = [revisions EXCEPT ![p] = Append(@, content)]

Update(p, content) ==
  /\ CanEdit(p)
  /\ Revised(p, content)
  /\ UNCHANGED <<runs, approvals, validating, lost>>

\* The content of an earlier revision comes back as a new one.
RestoreRevision(p, n) ==
  /\ CanEdit(p)
  /\ revisions[p][n] # policies[p].content
  /\ Revised(p, revisions[p][n])
  /\ UNCHANGED <<runs, approvals, validating, lost>>

\* What validate keeps of the row it read: it writes a status and a run of its own.
Unjudged(p) == [policies[p] EXCEPT !.status = "DRAFT", !.lastRun = NoRun]

\* Mutant of StartValidate: any known policy may be validated.
StartValidateAny(p) ==
  /\ p \in Known
  /\ Cardinality(validating) < MaxValidating
  /\ validating' = validating \cup {[policy |-> p, row |-> Unjudged(p)]}
  /\ UNCHANGED <<policies, revisions, runs, approvals, lost>>

\* validate, up to the await.
StartValidate(p) ==
  /\ CanEdit(p)
  /\ Cardinality(validating) < MaxValidating
  /\ validating' = validating \cup {[policy |-> p, row |-> Unjudged(p)]}
  /\ UNCHANGED <<policies, revisions, runs, approvals, lost>>

\* validate, from the await on: the run, and the row as it was read.
FinishValidate(v, go) ==
  /\ runs' = IF go THEN runs \cup {[policy |-> v.policy, content |-> v.row.content]} ELSE runs
  /\ policies' = [policies EXCEPT ![v.policy] =
       IF go THEN [v.row EXCEPT !.status = "VALIDATED",
                     !.lastRun = [revision |-> v.row.revision, content |-> v.row.content]]
       ELSE [v.row EXCEPT !.status = "DRAFT", !.lastRun = NoRun]]
  /\ validating' = validating \ {v}
  /\ lost' = (lost \/ (v.row.deployedBy = Nobody /\ v.policy \in Deployed))
  /\ UNCHANGED <<revisions, approvals>>

\* Mutant of Approvable: an earlier run will do.
ApprovableEver(p, who) ==
  LET row == policies[p] IN
  /\ who # row.createdBy
  /\ row.lastRun # NoRun

\* approvable: the last run is GO and judged this revision and content, and the
\* approver did not create the policy.
Approvable(p, who) ==
  LET row == policies[p] IN
  /\ who # row.createdBy
  /\ row.lastRun = [revision |-> row.revision, content |-> row.content]

Approve(p, who) ==
  /\ CanEdit(p)
  /\ Approvable(p, who)
  /\ policies' = [policies EXCEPT ![p] = [@ EXCEPT !.status = "APPROVED", !.approvedBy = who]]
  /\ approvals' = approvals \cup {[policy |-> p, content |-> policies[p].content, by |-> who]}
  /\ UNCHANGED <<revisions, runs, validating, lost>>

RejectPolicy(p) ==
  /\ CanEdit(p)
  /\ policies' = [policies EXCEPT ![p] = [@ EXCEPT !.status = "REJECTED"]]
  /\ UNCHANGED <<revisions, runs, approvals, validating, lost>>

\* Whatever else is deployed is retired.
Retired == [q \in Policies |-> IF q \in Deployed THEN [policies[q] EXCEPT !.status = "RETIRED"]
                               ELSE policies[q]]

\* Mutant of Deploy: everything approved at once.
DeployWide(p, who) ==
  /\ p \in Known
  /\ policies[p].status = "APPROVED"
  /\ policies' = [Retired EXCEPT ![p] = [policies[p] EXCEPT !.status = "DEPLOYED",
                    !.deployedBy = who, !.watched = FALSE]]
  /\ lost' = FALSE
  /\ UNCHANGED <<revisions, runs, approvals, validating>>

\* Deployment starts as a canary.
Deploy(p, who) ==
  /\ p \in Known
  /\ policies[p].status = "APPROVED"
  /\ policies' = [Retired EXCEPT ![p] = [policies[p] EXCEPT !.status = "DEPLOYED",
                    !.deployedBy = who, !.stage = Canary, !.watched = FALSE]]
  /\ lost' = FALSE
  /\ UNCHANGED <<revisions, runs, approvals, validating>>

\* execute of a rollback: the recovery policy takes over as it is, stage and its
\* time included.
Redeploy(p, who) ==
  /\ policies' = [Retired EXCEPT ![p] = [policies[p] EXCEPT !.status = "DEPLOYED",
                                                            !.deployedBy = who]]
  /\ lost' = FALSE
  /\ UNCHANGED <<revisions, runs, approvals, validating>>

\* judgeStageChange: narrowing is free; widening is for someone else than the
\* deployer, and beyond the canary for a canary watched for CANARY_OBSERVE_MS
\* without an open anomaly or kill (calm).
MayStage(row, to, who, calm) ==
  to > row.stage =>
    /\ who # row.deployedBy
    /\ to = Wide => row.stage = Canary /\ row.watched /\ calm

Stage(p, to, who, calm) ==
  /\ p \in Deployed
  /\ to # policies[p].stage
  /\ MayStage(policies[p], to, who, calm)
  /\ policies' = [policies EXCEPT ![p] = [@ EXCEPT !.stage = to, !.watched = FALSE]]
  /\ UNCHANGED <<revisions, runs, approvals, validating, lost>>

\* CANARY_OBSERVE_MS pass; it matters for what was once deployed.
WatchPasses ==
  /\ policies' = [p \in Policies |->
                    IF p \in Known /\ policies[p].deployedBy # Nobody
                    THEN [policies[p] EXCEPT !.watched = TRUE] ELSE policies[p]]
  /\ UNCHANGED <<revisions, runs, approvals, validating, lost>>

\* Validations live in memory.
StoreCrash ==
  /\ validating' = {}
  /\ UNCHANGED <<policies, revisions, runs, approvals, lost>>

\* What happens to the rows besides deployment and rollback.
StoreStep ==
  \/ \E p \in Policies :
       \/ \E who \in People, content \in Contents : Create(p, who, content)
       \/ \E content \in Contents : Update(p, content)
       \/ \E n \in DOMAIN revisions[p] : RestoreRevision(p, n)
       \/ StartValidate(p)
       \/ \E who \in People : Approve(p, who)
       \/ RejectPolicy(p)
  \/ \E v \in validating, go \in BOOLEAN : FinishValidate(v, go)

-----------------------------------------------------------------------------
(* Properties *)

Row ==
  [status: Editable \cup {"APPROVED", "DEPLOYED", "RETIRED"}, revision: 1..MaxRevision,
   content: Contents, createdBy: People, approvedBy: People \cup {Nobody},
   lastRun: {NoRun} \cup [revision: 1..MaxRevision, content: Contents],
   stage: {Off, Canary, Wide}, deployedBy: People \cup {System, Nobody}, watched: BOOLEAN]

StoreTypeOK ==
  /\ policies \in [Policies -> Row \cup {NoPolicy}]
  /\ revisions \in [Policies -> Seq(Contents)]
  /\ runs \subseteq [policy: Policies, content: Contents]
  /\ approvals \subseteq [policy: Policies, content: Contents, by: People]
  /\ validating \subseteq [policy: Policies, row: Row]
  /\ lost \in BOOLEAN

\* The row of a policy carries the content recorded for its revision, also after
\* a late validation has written back an older row: no content that was validated
\* or deployed is missing from the history or replaced in it
\* (policy-repos.ts:104).
RowIsItsRevision ==
  \A p \in Known :
    /\ policies[p].revision \in DOMAIN revisions[p]
    /\ policies[p].content = revisions[p][policies[p].revision]
=============================================================================
