--------------------------- MODULE MCPolicyRelease ---------------------------
(***************************************************************************)
(* PolicyRelease and UnleashSync, which share no state, in one run of TLC. *)
(* It explores four corners of the first and all of the second side by     *)
(* side; focus, chosen once, says which.                                   *)
(***************************************************************************)
EXTENDS PolicyRelease, UnleashSync, TLC

CONSTANT Corners
VARIABLE focus

Interchangeable ==
  UNION {Permutations(S) : S \in {Policies, Contents, People, Syncs}}

\* Plans for the server: two strategies, then one; on, then off.
Sizes == [x \in 1..MaxPlan |-> IF x = 1 THEN 2 ELSE 1]
Switches == [x \in 1..MaxPlan |-> x # 2]

NoRejection == \A x \in Policies : policies'[x].status # "REJECTED"
NoStaging == ~aged' /\ \A x \in Deployed' : policies'[x].stage = Canary
NoEdits == \A x \in Policies : Len(revisions'[x]) <= 1
NoneLate == \A v \in validating' : policies'[v.policy].status = "DRAFT"

\* Edits of one policy, with two validations under way, and its deployments.
Edits ==
  /\ Cardinality(Known') <= 1
  /\ NoStaging
  /\ \A d \in DOMAIN publications' : publications'[d].status = "OPEN"

\* Stages of two policies, with one rollback.
Stages ==
  /\ NoEdits /\ NoRejection /\ NoneLate
  /\ Len(cases') <= 1 /\ crashes' = 0

\* Two rollbacks, or one and a crash.
Rollbacks ==
  /\ NoEdits /\ NoRejection /\ NoStaging /\ NoneLate
  /\ crashes' = 0 \/ Len(cases') <= 1

\* Late validations of two policies, with one rollback.
Late ==
  /\ NoEdits /\ NoRejection /\ NoStaging
  /\ Len(cases') <= 1 /\ Cardinality(validating') <= 1
  /\ crashes' = 0
  /\ \A d \in DOMAIN publications' : publications'[d].status \in {"OPEN", "CONFIRMED"}

MCInit == ReleaseInit /\ CopyInit /\ focus \in Corners
MCNext ==
  /\ \/ focus # "COPY" /\ ReleaseNext /\ UNCHANGED copyVars
     \/ focus = "COPY" /\ CopyNext /\ UNCHANGED allVars
  /\ focus = "EDITS" => Edits
  /\ focus = "STAGES" => Stages
  /\ focus = "ROLLBACKS" => Rollbacks
  /\ focus = "LATE" => Late
  /\ UNCHANGED focus

MCSpec == MCInit /\ [][MCNext]_<<allVars, copyVars, focus>>
=============================================================================
