---------------------------- MODULE PolicyRelease ----------------------------
(***************************************************************************)
(* Deployment of the policies of one flag to the vehicles and back:        *)
(* PolicyStore, the signed publications each deployment makes (D06-08),    *)
(* and rollback (D03-04).  A rollback is planned for a deployment, and     *)
(* runs by itself when vehicles fail, or is requested and run by a person; *)
(* it is judged when asked for and judged again when it runs.              *)
(*                                                                         *)
(* Everything here runs at once, except that an automatic rollback runs    *)
(* after the commit of what triggered it: todo, lost in a crash.  How a    *)
(* publication reaches its verdict is the matter of Delivery; here it is   *)
(* closed once with any verdict, also before the next step.  Plans for one *)
(* deployment have the same failure rate.  Feature state, active kills and *)
(* the scope of vehicles are one fact, fit, which may change at any time.  *)
(* That the requester of a rollback does not decide it is left out: both   *)
(* are fixed in the request.                                               *)
(***************************************************************************)
EXTENDS PolicyStore, SequencesExt, FiniteSetsExt

CONSTANTS
  MaxPublications, \* bound: deployments and rollbacks
  MaxCases,        \* bound: rollback plans and requests
  MaxCrashes       \* bound: crashes

ASSUME ReleaseConstants == {MaxPublications, MaxCases, MaxCrashes} \subseteq Nat

VARIABLES
  publications, \* table publication, POLICY only, oldest first
  cases,        \* rollback_plan and rollback_request
  executions,   \* rollback_execution
  todo,         \* plans to run after the commit, the newest first
  aged,         \* the last publication is CANARY_OBSERVE_MS old,
  widened,      \*   and someone else than its deployer widened it since
  unheard,      \* plans approved after the verdict on their deployment, or whose
                \*   trigger a crash lost
  crashes       \* crashes so far

releaseVars == <<publications, cases, executions, todo, aged, widened, unheard, crashes>>
allVars == <<storeVars, releaseVars>>

ReleaseInit ==
  /\ StoreInit
  /\ publications = << >> /\ cases = << >> /\ executions = << >>
  /\ todo = {}
  /\ aged = FALSE /\ widened = FALSE /\ unheard = {}
  /\ crashes = 0

-----------------------------------------------------------------------------
(* Publications *)

Published(p, who, rollback) ==
  /\ Len(publications) < MaxPublications
  /\ publications' = Append(publications,
       [policy |-> p, content |-> policies[p].content, by |-> who, rollback |-> rollback,
        status |-> "OPEN", failing |-> FALSE])
  /\ aged' = FALSE /\ widened' = FALSE

DeployAndPublish(p, who) ==
  /\ Deploy(p, who)
  /\ Published(p, who, FALSE)
  /\ UNCHANGED <<cases, executions, todo, unheard, crashes>>

\* latestPublication.
Latest(p) == Max({0} \cup {d \in DOMAIN publications : publications[d].policy = p})

\* Mutant of PlansFor: only a deployment that failed entirely triggers.
PlansForFailed(d, failing) ==
  {i \in DOMAIN cases : /\ failing /\ publications'[d].status = "FAILED"
                        /\ cases[i].kind = "PLAN" /\ cases[i].status = "APPROVED"
                        /\ cases[i].deployment = d}

\* Approved plans for a deployment closed above their failure rate.
PlansFor(d, failing) ==
  {i \in DOMAIN cases : /\ failing
                        /\ cases[i].kind = "PLAN" /\ cases[i].status = "APPROVED"
                        /\ cases[i].deployment = d}

\* Mutant of FinishExecution: any end of the publication completes the rollback.
FinishExecutionAny(d, verdict) ==
  executions' = [x \in DOMAIN executions |->
    IF executions[x].artifact = d /\ executions[x].status = "RUNNING"
    THEN [executions[x] EXCEPT !.status = "COMPLETED"]
    ELSE executions[x]]

\* Mutant of FinishExecution: the verdict is stored as it is.
FinishExecutionRaw(d, verdict) ==
  executions' = [x \in DOMAIN executions |->
    IF executions[x].artifact = d /\ executions[x].status = "RUNNING"
    THEN [executions[x] EXCEPT !.status = verdict]
    ELSE executions[x]]

\* finish: complete only when every vehicle confirmed.
FinishExecution(d, verdict) ==
  executions' = [x \in DOMAIN executions |->
    IF executions[x].artifact = d /\ executions[x].status = "RUNNING"
    THEN [executions[x] EXCEPT !.status = IF verdict = "CONFIRMED" THEN "COMPLETED" ELSE "FAILED"]
    ELSE executions[x]]

\* The verdict on a publication (FAILED: DIVERGED or TIMEOUT) and, in the same
\* transaction, onEvent.
ClosePublication(d, verdict, failing) ==
  /\ publications[d].status = "OPEN"
  /\ verdict = "CONFIRMED" => ~failing
  /\ publications' = [publications EXCEPT ![d].status = verdict, ![d].failing = failing]
  /\ FinishExecution(d, verdict)
  /\ todo' = PlansFor(d, failing)
  /\ UNCHANGED <<storeVars, cases, aged, widened, unheard, crashes>>

\* A vehicle reports a trouble code these plans for its deployment name.
TroubleCode(plans) ==
  /\ \A i \in plans : cases[i].kind = "PLAN" /\ cases[i].status = "APPROVED"
  /\ todo' = plans
  /\ UNCHANGED <<storeVars, publications, cases, executions, aged, widened, unheard, crashes>>

-----------------------------------------------------------------------------
(* Rollback *)

\* recoveryBlockers.
Recoverable(r, content) ==
  /\ r \in Known
  /\ policies[r].content # content
  /\ policies[r].deployedBy # Nobody
  /\ policies[r].approvedBy # Nobody
  /\ [policy |-> r, content |-> policies[r].content] \in runs
  /\ Latest(r) # 0
  /\ publications[Latest(r)].status \in {"CONFIRMED", "PARTIAL"}

\* Mutant of Applicable: the deployment need not be in force any more.
ApplicableOld(d, r, fit) ==
  LET p == publications[d].policy IN
  /\ fit
  /\ d = Latest(p)
  /\ r # p
  /\ Recoverable(r, policies[p].content)

\* assess: the deployment is the latest of the policy deployed now, and r can be
\* recovered.
Applicable(d, r, fit) ==
  LET p == publications[d].policy IN
  /\ fit
  /\ p \in Deployed /\ d = Latest(p)
  /\ r # p
  /\ Recoverable(r, policies[p].content)

\* createPlan, createRequest.
AskRollback(kind, d, r) ==
  /\ Len(cases) < MaxCases
  /\ Applicable(d, r, TRUE)
  /\ cases' = Append(cases, [kind |-> kind, deployment |-> d, recovery |-> r,
                             status |-> "REQUESTED"])
  /\ UNCHANGED <<storeVars, publications, executions, todo, aged, widened, unheard, crashes>>

\* decidePlan, decideRequest.
DecideRollback(i, approve) ==
  /\ cases[i].status = "REQUESTED"
  /\ cases' = [cases EXCEPT ![i].status = IF approve THEN "APPROVED" ELSE "REJECTED"]
  /\ unheard' = IF approve /\ publications[cases[i].deployment].failing
                THEN unheard \cup {i} ELSE unheard
  /\ UNCHANGED <<storeVars, publications, executions, todo, aged, widened, crashes>>

Executed(i, artifact) ==
  /\ executions' = Append(executions, [of |-> i, artifact |-> artifact,
                            status |-> IF artifact = 0 THEN "FAILED" ELSE "RUNNING"])
  /\ cases' = [cases EXCEPT ![i].status = "DONE"]
  /\ UNCHANGED <<unheard, crashes>>

\* execute: judged again; either nothing changes and the failure is recorded, or
\* the recovery policy takes over and is published.
Execute(i, who, fit) ==
  LET c == cases[i] IN
  IF Applicable(c.deployment, c.recovery, fit)
  THEN /\ Redeploy(c.recovery, who)
       /\ Published(c.recovery, who, TRUE)
       /\ Executed(i, Len(publications) + 1)
  ELSE /\ Executed(i, 0)
       /\ UNCHANGED <<storeVars, publications, aged, widened>>

\* executeRequest.
ExecuteRequest(i, who, fit) ==
  /\ cases[i].kind = "REQUEST" /\ cases[i].status = "APPROVED"
  /\ Execute(i, who, fit)
  /\ UNCHANGED todo

\* autoExecute, the first thing after the commit.
AutoExecute(i, fit) ==
  /\ \A j \in todo : j <= i
  /\ todo' = todo \ {i}
  /\ IF cases[i].status = "APPROVED"
     THEN Execute(i, System, fit)
     ELSE UNCHANGED <<storeVars, publications, cases, executions, aged, widened, unheard, crashes>>

-----------------------------------------------------------------------------
StageAndWatch(p, to, who, calm) ==
  /\ Stage(p, to, who, calm)
  /\ widened' = (widened \/ (to = Wide /\ aged /\ who # Last(publications).by))
  /\ UNCHANGED <<publications, cases, executions, todo, aged, unheard, crashes>>

Day ==
  /\ WatchPasses
  /\ aged' = (publications # << >>)
  /\ UNCHANGED <<publications, cases, executions, todo, widened, unheard, crashes>>

ReleaseCrash ==
  /\ crashes < MaxCrashes
  /\ crashes' = crashes + 1
  /\ StoreCrash
  /\ todo' = {}
  /\ unheard' = unheard \cup todo
  /\ UNCHANGED <<publications, cases, executions, aged, widened>>

ReleaseNext ==
  \/ /\ todo = {}
     /\ \/ StoreStep /\ UNCHANGED releaseVars
        \/ \E p \in Policies, who \in People : DeployAndPublish(p, who)
        \/ \E p \in Policies, to \in {Off, Canary, Wide}, who \in People, calm \in BOOLEAN :
             StageAndWatch(p, to, who, calm)
        \/ Day
        \/ \E d \in DOMAIN publications, verdict \in {"CONFIRMED", "PARTIAL", "FAILED"},
              failing \in BOOLEAN : ClosePublication(d, verdict, failing)
        \/ \E kind \in {"PLAN", "REQUEST"}, d \in DOMAIN publications, r \in Policies :
             AskRollback(kind, d, r)
        \/ \E i \in DOMAIN cases :
             \/ \E approve \in BOOLEAN : DecideRollback(i, approve)
             \/ \E who \in People, fit \in BOOLEAN : ExecuteRequest(i, who, fit)
        \/ \E plans \in SUBSET DOMAIN cases : TroubleCode(plans)
  \/ \E i \in todo, fit \in BOOLEAN : AutoExecute(i, fit)
  \/ ReleaseCrash

ReleaseSpec == ReleaseInit /\ [][ReleaseNext]_allVars

-----------------------------------------------------------------------------
(* Properties *)

ReleaseTypeOK ==
  /\ StoreTypeOK
  /\ \A d \in DOMAIN publications :
       /\ publications[d].policy \in Known
       /\ publications[d].status \in {"OPEN", "CONFIRMED", "PARTIAL", "FAILED"}
  /\ \A i \in DOMAIN cases :
       /\ cases[i].kind \in {"PLAN", "REQUEST"}
       /\ cases[i].deployment \in DOMAIN publications
       /\ cases[i].status \in {"REQUESTED", "APPROVED", "REJECTED", "DONE"}
  /\ \A x \in DOMAIN executions :
       /\ executions[x].of \in DOMAIN cases
       /\ executions[x].artifact \in {0} \cup DOMAIN publications
       /\ executions[x].status \in {"RUNNING", "COMPLETED", "FAILED"}
  /\ todo \subseteq DOMAIN cases
  /\ unheard \subseteq DOMAIN cases
  /\ crashes \in 0..MaxCrashes

\* Whatever is published, by deployment or rollback, was judged GO with exactly
\* this content and approved with exactly this content by someone other than the
\* one who created the policy, however edits, restored revisions and late
\* validations rewrote its row before (deploy-safety.service.ts:17).
PublishedWasJudged ==
  \A d \in DOMAIN publications :
    LET x == publications[d] IN
    /\ [policy |-> x.policy, content |-> x.content] \in runs
    /\ \E by \in People \ {policies[x.policy].createdBy} :
         [policy |-> x.policy, content |-> x.content, by |-> by] \in approvals

\* The policy the server evaluates is the one the vehicles were sent last, with
\* the same content, unless a validation that began before the deployment has
\* since written an older row over it (policy.service.ts:173-190).
ServedIsPublished ==
  publications # << >> =>
    LET x == Last(publications) IN
    IF lost THEN Deployed = {}
    ELSE Deployed = {x.policy} /\ policies[x.policy].content = x.content

\* A rollback runs as long as its publication is open, and is complete exactly
\* when every vehicle confirmed it (rollback.service.ts:106, 523).
ExecutionMatchesArtifact ==
  \A x \in DOMAIN executions :
    LET a == executions[x].artifact IN
    a # 0 => executions[x].status =
               CASE publications[a].status = "OPEN" -> "RUNNING"
                 [] publications[a].status = "CONFIRMED" -> "COMPLETED"
                 [] OTHER -> "FAILED"

\* A rollback replaces the deployment it was asked for, directly: nothing was
\* deployed between, whatever happened between its request, its approval and its
\* execution; so no deployment is rolled back twice.
RollsBackTheLast ==
  \A x \in DOMAIN executions :
    executions[x].artifact # 0
    => executions[x].artifact = cases[executions[x].of].deployment + 1

\* An approved plan whose deployment was closed above its failure rate has been
\* run, or is about to, unless it was approved only after that or a crash came
\* between the verdict and the rollback (rollback.service.ts:107-110).
TriggerHeard ==
  \A i \in DOMAIN cases :
    /\ cases[i].kind = "PLAN" /\ cases[i].status = "APPROVED"
    /\ publications[cases[i].deployment].failing
    => i \in todo \cup unheard

\* Vehicles beyond the canary get a policy only in a deployment that has been out
\* for CANARY_OBSERVE_MS and was widened by someone other than its deployer, or
\* by a rollback, which brings back the stage its policy once had
\* (rollout-stage.ts:45, rollback.service.ts:500).
WideOnlyAfterWatch ==
  \A p \in Deployed :
    policies[p].stage = Wide => widened \/ Last(publications).rollback
=============================================================================
