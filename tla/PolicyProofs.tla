----------------------------- MODULE PolicyProofs -----------------------------
(***************************************************************************)
(* Theorems about PolicyRelease for every set of policies, contents and    *)
(* people, and any number of revisions, validations, deployments and       *)
(* crashes: a row carries what its revision recorded, nothing is published *)
(* that was not judged and approved with its content, what is evaluated is *)
(* what was published last, and a rollback replaces that directly.         *)
(***************************************************************************)
EXTENDS PolicyRelease, SequenceTheorems, TLAPS

LastRuns == {NoRun} \cup [revision: 1..MaxRevision, content: Contents]
Actors == People \cup {System}
Pub ==
  [policy: Policies, content: Contents, by: Actors, rollback: BOOLEAN,
   status: {"OPEN", "CONFIRMED", "PARTIAL", "FAILED"}, failing: BOOLEAN]

\* This content was judged GO, and approved by someone other than who.
Judged(p, content, who) ==
  /\ [policy |-> p, content |-> content] \in runs
  /\ \E by \in People \ {who} : [policy |-> p, content |-> content, by |-> by] \in approvals

\* This row may stand, or be written, in the table.
Recorded(p, row) ==
  row.revision \in DOMAIN revisions[p] /\ row.content = revisions[p][row.revision]

RowGood(p, row) ==
  /\ Recorded(p, row)
  /\ row.lastRun # NoRun => [policy |-> p, content |-> row.lastRun.content] \in runs
  /\ row.status \notin Editable => Judged(p, row.content, row.createdBy)
  /\ row.deployedBy # Nobody => row.status \notin Editable

\* What a validation holds was read before any deployment of the policy.
ReadGood(v) ==
  /\ v.policy \in Known
  /\ Recorded(v.policy, v.row)
  /\ v.row.createdBy = policies[v.policy].createdBy
  /\ v.row.deployedBy = Nobody

RowsGood == \A p \in Known : RowGood(p, policies[p])
ReadsGood == \A v \in validating : ReadGood(v)
PublicationsGood ==
  \A d \in DOMAIN publications :
    LET x == publications[d] IN
    x.policy \in Known /\ Judged(x.policy, x.content, policies[x.policy].createdBy)

StoreInv == StoreTypeOK /\ RowsGood /\ ReadsGood
ReleaseInv == StoreInv /\ publications \in Seq(Pub) /\ PublicationsGood

-----------------------------------------------------------------------------
(* Rows *)

LEMMA KnownRows ==
  ASSUME StoreTypeOK
  PROVE  /\ \A p \in Known : p \in Policies /\ policies[p] \in Row
         /\ \A p \in Policies : policies[p] \in Row => p \in Known
         /\ Known \subseteq Policies
<1>1. policies \in [Policies -> Row \cup {NoPolicy}]  BY DEF StoreTypeOK
<1>2. NoPolicy.status = "NONE"  BY DEF NoPolicy
<1>3. \A row \in Row : row.status # "NONE"  BY DEF Row, Editable
<1> QED  BY <1>1, <1>2, <1>3 DEF Known

\* What each way of rewriting a row leaves of it.
LEMMA RowMoved ==
  ASSUME NEW row \in Row, NEW s \in Editable \cup {"APPROVED", "DEPLOYED", "RETIRED"}
  PROVE  LET e == [row EXCEPT !.status = s] IN
         /\ e \in Row /\ e.status = s
         /\ e.revision = row.revision /\ e.content = row.content /\ e.lastRun = row.lastRun
         /\ e.createdBy = row.createdBy /\ e.deployedBy = row.deployedBy
  BY DEF Row, Editable

LEMMA RowApproved ==
  ASSUME NEW row \in Row, NEW who \in People
  PROVE  LET e == [row EXCEPT !.status = "APPROVED", !.approvedBy = who] IN
         /\ e \in Row /\ e.status = "APPROVED"
         /\ e.revision = row.revision /\ e.content = row.content /\ e.lastRun = row.lastRun
         /\ e.createdBy = row.createdBy /\ e.deployedBy = row.deployedBy
  BY DEF Row, Editable

LEMMA RowRedeployed ==
  ASSUME NEW row \in Row, NEW who \in Actors
  PROVE  LET e == [row EXCEPT !.status = "DEPLOYED", !.deployedBy = who] IN
         /\ e \in Row /\ e.status = "DEPLOYED"
         /\ e.revision = row.revision /\ e.content = row.content /\ e.lastRun = row.lastRun
         /\ e.createdBy = row.createdBy
  BY DEF Row, Actors

LEMMA RowStaged ==
  ASSUME NEW row \in Row, NEW to \in {Off, Canary, Wide}
  PROVE  /\ LET e == [row EXCEPT !.stage = to, !.watched = FALSE] IN
            /\ e \in Row /\ e.status = row.status
            /\ e.revision = row.revision /\ e.content = row.content /\ e.lastRun = row.lastRun
            /\ e.createdBy = row.createdBy /\ e.deployedBy = row.deployedBy
         /\ LET e == [row EXCEPT !.watched = TRUE] IN
            /\ e \in Row /\ e.status = row.status
            /\ e.revision = row.revision /\ e.content = row.content /\ e.lastRun = row.lastRun
            /\ e.createdBy = row.createdBy /\ e.deployedBy = row.deployedBy
  BY DEF Row, Editable

LEMMA RowDeployed ==
  ASSUME NEW row \in Row, NEW who \in Actors
  PROVE  LET e == [row EXCEPT !.status = "DEPLOYED", !.deployedBy = who, !.stage = Canary,
                              !.watched = FALSE] IN
         /\ e \in Row /\ e.status = "DEPLOYED"
         /\ e.revision = row.revision /\ e.content = row.content /\ e.lastRun = row.lastRun
         /\ e.createdBy = row.createdBy
<1> DEFINE e == [row EXCEPT !.status = "DEPLOYED", !.deployedBy = who, !.stage = Canary,
                            !.watched = FALSE]
           f == [row EXCEPT !.status = "DEPLOYED", !.deployedBy = who]
<1>1. f \in Row /\ f.status = "DEPLOYED"
      /\ f.revision = row.revision /\ f.content = row.content /\ f.lastRun = row.lastRun
      /\ f.createdBy = row.createdBy
  BY RowRedeployed
<1>2. e = [f EXCEPT !.stage = Canary, !.watched = FALSE]  OBVIOUS
<1> HIDE DEF e, f
<1>3. e \in Row /\ e.status = f.status
      /\ e.revision = f.revision /\ e.content = f.content /\ e.lastRun = f.lastRun
      /\ e.createdBy = f.createdBy
  BY <1>1, <1>2, RowStaged
<1> QED  BY <1>1, <1>3 DEF e

-----------------------------------------------------------------------------
(* What keeps the invariant *)

\* A step that keeps what is recorded, and writes good rows only, keeps everything.
Grows ==
  /\ runs \subseteq runs' /\ approvals \subseteq approvals'
  /\ \A p \in Known : \A n \in DOMAIN revisions[p] :
       n \in DOMAIN revisions'[p] /\ revisions'[p][n] = revisions[p][n]

RowsWritten ==
  \A p \in Policies :
    \/ policies'[p] = policies[p]
    \/ /\ policies'[p] \in Row
       /\ RowGood(p, policies[p])'
       /\ p \in Known => policies'[p].createdBy = policies[p].createdBy

Typed ==
  /\ DOMAIN policies' = Policies /\ policies' = [p \in Policies |-> policies'[p]]
  /\ revisions' \in [Policies -> Seq(Contents)]
  /\ runs' \subseteq [policy: Policies, content: Contents]
  /\ approvals' \subseteq [policy: Policies, content: Contents, by: People]
  /\ lost' \in BOOLEAN

\* What every step keeps.
Kept ==
  /\ StoreInv'
  /\ \A q \in Known : q \in Known' /\ policies'[q].createdBy = policies[q].createdBy
  /\ runs \subseteq runs' /\ approvals \subseteq approvals'

LEMMA GoodStays ==
  ASSUME Grows, NEW p \in Known, NEW row
  PROVE  /\ Recorded(p, row) => row.revision \in DOMAIN revisions'[p]
                                /\ row.content = revisions'[p][row.revision]
         /\ \A content, who : Judged(p, content, who) =>
              /\ [policy |-> p, content |-> content] \in runs'
              /\ \E by \in People \ {who} :
                   [policy |-> p, content |-> content, by |-> by] \in approvals'
  BY DEF Grows, Recorded, Judged

LEMMA StoreKept ==
  ASSUME StoreInv, Grows, RowsWritten, Typed,
         \A v \in validating' :
           \/ v \in validating
           \/ v \in [policy: Policies, row: Row] /\ ReadGood(v) /\ policies' = policies
  PROVE  Kept
<1>1. /\ \A p \in Known : p \in Policies /\ policies[p] \in Row
      /\ policies \in [Policies -> Row \cup {NoPolicy}]
  BY KnownRows DEF StoreInv, StoreTypeOK
<1>2. \A row \in Row : row.status # "NONE"  BY DEF Row, Editable
<1>3. \A p \in Policies : policies'[p] \in Row \cup {NoPolicy}
  BY <1>1 DEF RowsWritten
<1>4. policies' \in [Policies -> Row \cup {NoPolicy}]  BY <1>3 DEF Typed
<1>5. \A p \in Known : p \in Known' /\ policies'[p].createdBy = policies[p].createdBy
  <2> TAKE p \in Known
  <2>1. CASE policies'[p] = policies[p]  BY <1>1, <2>1 DEF Known
  <2>2. CASE policies'[p] # policies[p]
    <3>1. policies'[p] \in Row /\ policies'[p].createdBy = policies[p].createdBy
      BY <1>1, <2>2 DEF RowsWritten
    <3> QED  BY <1>1, <1>2, <3>1 DEF Known
  <2> QED  BY <2>1, <2>2
<1>6. RowsGood'
  <2> SUFFICES ASSUME NEW p \in Known'  PROVE RowGood(p, policies[p])'
    BY DEF RowsGood
  <2>1. p \in Policies  BY DEF Known
  <2>2. CASE policies'[p] = policies[p]
    <3>1. p \in Known  BY <2>1, <2>2 DEF Known
    <3>2. RowGood(p, policies[p])  BY <3>1 DEF StoreInv, RowsGood
    <3> QED  BY <2>2, <3>1, <3>2, GoodStays DEF RowGood, Recorded, Judged, Grows
  <2>3. CASE policies'[p] # policies[p]  BY <2>1, <2>3 DEF RowsWritten
  <2> QED  BY <2>2, <2>3
<1>7. ASSUME NEW v, ReadGood(v)  PROVE ReadGood(v)'
  <2>1. v.policy \in Known /\ Recorded(v.policy, v.row)
        /\ v.row.createdBy = policies[v.policy].createdBy /\ v.row.deployedBy = Nobody
    BY <1>7 DEF ReadGood
  <2>2. Recorded(v.policy, v.row)'  BY <2>1, GoodStays DEF Recorded
  <2> QED  BY <1>5, <2>1, <2>2 DEF ReadGood
<1>8. \A v \in validating' : ReadGood(v) /\ v \in [policy: Policies, row: Row]
  BY DEF StoreInv, StoreTypeOK, ReadsGood
<1>9. ReadsGood'  BY <1>7, <1>8 DEF ReadsGood
<1>10. validating' \subseteq [policy: Policies, row: Row]  BY <1>8
<1>11. StoreTypeOK'  BY <1>4, <1>10 DEF StoreTypeOK, Typed
<1> QED  BY <1>5, <1>6, <1>9, <1>11 DEF StoreInv, Kept, Grows

-----------------------------------------------------------------------------
(* The store *)

\* One row is written.
LEMMA RowWritten ==
  ASSUME StoreInv, NEW p \in Policies, NEW e \in Row, policies' = [policies EXCEPT ![p] = e],
         Grows, RowGood(p, policies[p])', p \in Known => e.createdBy = policies[p].createdBy,
         validating' \subseteq validating,
         revisions' \in [Policies -> Seq(Contents)],
         runs' \subseteq [policy: Policies, content: Contents],
         approvals' \subseteq [policy: Policies, content: Contents, by: People],
         lost' \in BOOLEAN
  PROVE  Kept
<1>1. policies \in [Policies -> Row \cup {NoPolicy}]  BY DEF StoreInv, StoreTypeOK
<1>2. /\ DOMAIN policies' = Policies /\ policies' = [q \in Policies |-> policies'[q]]
      /\ policies'[p] = e /\ \A q \in Policies : q # p => policies'[q] = policies[q]
  BY <1>1
<1>3. Typed  BY <1>2 DEF Typed
<1>4. RowsWritten  BY <1>2 DEF RowsWritten
<1> QED  BY <1>3, <1>4, StoreKept

LEMMA CreateKeeps ==
  ASSUME StoreInv, NEW p \in Policies, NEW who \in People, NEW content \in Contents,
         Create(p, who, content)
  PROVE  Kept
<1> DEFINE e == Draft(who, content)
<1>1. e \in Row
  BY PolicyConstants DEF Draft, Row, Editable, Wide, NoRun
<1>2. /\ e.revision = 1 /\ e.content = content /\ e.lastRun = NoRun /\ e.status = "DRAFT"
      /\ e.deployedBy = Nobody
  BY DEF Draft
<1>3. p \notin Known /\ policies' = [policies EXCEPT ![p] = e]
      /\ revisions' = [revisions EXCEPT ![p] = <<content>>]
      /\ UNCHANGED <<runs, approvals, validating, lost>>
  BY DEF Create
<1> HIDE DEF e
<1>4. revisions \in [Policies -> Seq(Contents)] /\ <<content>> \in Seq(Contents)
  BY DEF StoreInv, StoreTypeOK
<1>5. revisions' \in [Policies -> Seq(Contents)] /\ revisions'[p] = <<content>>
      /\ \A q \in Policies : q # p => revisions'[q] = revisions[q]
  BY <1>3, <1>4
<1>6. Grows  BY <1>3, <1>5, KnownRows DEF Grows, StoreInv
<1>7. policies'[p] = e  BY <1>3 DEF StoreInv, StoreTypeOK
<1>8. RowGood(p, policies[p])'  BY <1>2, <1>5, <1>7 DEF RowGood, Recorded, Editable
<1> QED
  BY <1>1, <1>3, <1>5, <1>6, <1>8, RowWritten DEF StoreInv, StoreTypeOK

LEMMA RevisedKeeps ==
  ASSUME StoreInv, NEW p \in Policies, NEW content \in Contents, CanEdit(p), Revised(p, content),
         UNCHANGED <<runs, approvals, validating, lost>>
  PROVE  Kept
<1> DEFINE n == policies[p].revision + 1
           e == [policies[p] EXCEPT !.status = "DRAFT", !.revision = n, !.content = content]
<1>1. p \in Known /\ policies[p] \in Row /\ RowGood(p, policies[p])
      /\ policies[p].status \in Editable
  BY KnownRows DEF CanEdit, StoreInv, RowsGood
<1>2. n \in 1 .. MaxRevision
  BY <1>1, PolicyConstants DEF Revised, Row
<1>3. /\ policies' = [policies EXCEPT ![p] = e] /\ n = Len(revisions[p]) + 1
      /\ revisions' = [revisions EXCEPT ![p] = Append(revisions[p], content)]
  BY DEF Revised
<1> HIDE DEF n
<1>4. /\ e \in Row /\ e.status = "DRAFT" /\ e.revision = n /\ e.content = content
      /\ e.createdBy = policies[p].createdBy /\ e.lastRun = policies[p].lastRun
      /\ e.deployedBy = policies[p].deployedBy
  BY <1>1, <1>2 DEF Row, Editable
<1> HIDE DEF e
<1>5. revisions \in [Policies -> Seq(Contents)]  BY DEF StoreInv, StoreTypeOK
<1>6. /\ revisions' \in [Policies -> Seq(Contents)]
      /\ revisions'[p] = Append(revisions[p], content)
      /\ \A q \in Policies : q # p => revisions'[q] = revisions[q]
  BY <1>3, <1>5
<1>7. revisions[p] \in Seq(Contents)  BY <1>5
<1>8. /\ n \in DOMAIN revisions'[p] /\ revisions'[p][n] = content
      /\ \A m \in DOMAIN revisions[p] :
           m \in DOMAIN revisions'[p] /\ revisions'[p][m] = revisions[p][m]
  BY <1>3, <1>6, <1>7
<1>9. Known \subseteq Policies  BY DEF Known
<1>10. Grows  BY <1>6, <1>8, <1>9 DEF Grows
<1>11. RowGood(p, policies[p])'
  <2>0. policies'[p] = e  BY <1>3 DEF StoreInv, StoreTypeOK
  <2>1. Recorded(p, policies[p])'  BY <1>4, <1>8, <2>0 DEF Recorded
  <2>2. e.lastRun # NoRun => [policy |-> p, content |-> e.lastRun.content] \in runs'
    BY <1>1, <1>4 DEF RowGood
  <2>3. e.status \in Editable  BY <1>4 DEF Editable
  <2>4. e.deployedBy = Nobody  BY <1>1, <1>4 DEF RowGood
  <2> QED  BY <2>0, <2>1, <2>2, <2>3, <2>4 DEF RowGood
<1>12. /\ runs' \subseteq [policy: Policies, content: Contents]
       /\ approvals' \subseteq [policy: Policies, content: Contents, by: People]
       /\ lost' \in BOOLEAN /\ validating' \subseteq validating
  BY DEF StoreInv, StoreTypeOK
<1>13. policies' = [policies EXCEPT ![p] = e]  BY <1>3
<1>14. e \in Row /\ e.createdBy = policies[p].createdBy  BY <1>4
<1>15. revisions' \in [Policies -> Seq(Contents)]  BY <1>6
<1> QED
  BY <1>10, <1>11, <1>12, <1>13, <1>14, <1>15, RowWritten

LEMMA StartKeeps ==
  ASSUME StoreInv, NEW p \in Policies, StartValidate(p)  PROVE Kept
<1> DEFINE e == Unjudged(p)
           v == [policy |-> p, row |-> e]
<1>1. p \in Known /\ policies[p] \in Row /\ RowGood(p, policies[p])
      /\ policies[p].status \in Editable
  BY KnownRows DEF StartValidate, CanEdit, StoreInv, RowsGood
<1>2. /\ e \in Row /\ e.status = "DRAFT" /\ e.revision = policies[p].revision
      /\ e.content = policies[p].content /\ e.createdBy = policies[p].createdBy
      /\ e.deployedBy = policies[p].deployedBy
  BY <1>1 DEF Unjudged, Row, Editable
<1>3. policies[p].deployedBy = Nobody  BY <1>1 DEF RowGood
<1> HIDE DEF e
<1>4. v \in [policy: Policies, row: Row] /\ v.policy = p /\ v.row = e  BY <1>2
<1>5. ReadGood(v)
  BY <1>1, <1>2, <1>3, <1>4 DEF ReadGood, RowGood, Recorded
<1>6. /\ validating' = validating \cup {v}
      /\ UNCHANGED <<policies, revisions, runs, approvals, lost>>
  BY DEF StartValidate, e
<1> HIDE DEF v
<1>7. Typed  BY <1>6 DEF Typed, StoreInv, StoreTypeOK
<1>8. Grows  BY <1>6, KnownRows DEF Grows
<1>9. RowsWritten  BY <1>6 DEF RowsWritten
<1> QED  BY <1>4, <1>5, <1>6, <1>7, <1>8, <1>9, StoreKept

LEMMA FinishKeeps ==
  ASSUME StoreInv, NEW v \in validating, NEW go \in BOOLEAN, FinishValidate(v, go)
  PROVE  Kept
<1> DEFINE p == v.policy
           run == IF go THEN [revision |-> v.row.revision, content |-> v.row.content] ELSE NoRun
           s == IF go THEN "VALIDATED" ELSE "DRAFT"
           e == [v.row EXCEPT !.status = s, !.lastRun = run]
           judged == [policy |-> p, content |-> v.row.content]
<1>1. v \in [policy: Policies, row: Row] /\ ReadGood(v)
  BY DEF StoreInv, StoreTypeOK, ReadsGood
<1>2. p \in Policies /\ v.row \in Row /\ p \in Known  BY <1>1 DEF ReadGood
<1>3. v.row.revision \in 1 .. MaxRevision /\ v.row.content \in Contents  BY <1>2 DEF Row
<1>4. /\ run \in LastRuns /\ s \in Editable
      /\ run # NoRun => go /\ run.content = v.row.content
  BY <1>3 DEF Editable, LastRuns
<1>5. policies' = [policies EXCEPT ![p] = e]
  BY DEF FinishValidate
<1>6. runs' = IF go THEN runs \cup {judged} ELSE runs  BY DEF FinishValidate
<1>7. validating' = validating \ {v} /\ UNCHANGED <<revisions, approvals>>
      /\ lost' = (lost \/ (v.row.deployedBy = Nobody /\ v.policy \in Deployed))
  BY DEF FinishValidate
<1>8. judged \in [policy: Policies, content: Contents]  BY <1>2, <1>3
<1> HIDE DEF run, s
<1>9. /\ e \in Row /\ e.status = s /\ e.lastRun = run
      /\ e.revision = v.row.revision /\ e.content = v.row.content
      /\ e.createdBy = v.row.createdBy /\ e.deployedBy = v.row.deployedBy
  <2> DEFINE row == v.row
  <2>1. row \in Row  BY <1>2
  <2> HIDE DEF row
  <2>2. LET x == [row EXCEPT !.status = s, !.lastRun = run] IN
        /\ x \in Row /\ x.status = s /\ x.lastRun = run
        /\ x.revision = row.revision /\ x.content = row.content
        /\ x.createdBy = row.createdBy /\ x.deployedBy = row.deployedBy
    BY <1>4, <2>1 DEF Row, Editable, LastRuns
  <2> QED  BY <2>2 DEF row
<1> HIDE DEF e
<1>10. Grows  BY <1>6, <1>7 DEF Grows
<1>11. RowGood(p, policies[p])'
  <2>0. policies'[p] = e  BY <1>2, <1>5 DEF StoreInv, StoreTypeOK
  <2>1. Recorded(p, policies[p])'  BY <1>1, <1>7, <1>9, <2>0 DEF ReadGood, Recorded
  <2>2. e.lastRun # NoRun => [policy |-> p, content |-> e.lastRun.content] \in runs'
    <3> SUFFICES ASSUME run # NoRun  PROVE [policy |-> p, content |-> run.content] \in runs'
      BY <1>9
    <3>1. go /\ run.content = v.row.content  BY <1>4
    <3>2. judged \in runs'  BY <1>6, <3>1
    <3> QED  BY <3>1, <3>2
  <2>3. e.deployedBy = Nobody /\ e.status \in Editable
    <3>1. e.deployedBy = v.row.deployedBy /\ e.status = s  BY <1>9
    <3>2. v.row.deployedBy = Nobody  BY <1>1 DEF ReadGood
    <3> QED  BY <1>4, <3>1, <3>2
  <2> QED  BY <2>0, <2>1, <2>2, <2>3 DEF RowGood
<1>12. e.createdBy = policies[p].createdBy  BY <1>1, <1>9 DEF ReadGood
<1>13. runs' \subseteq [policy: Policies, content: Contents]
  BY <1>6, <1>8 DEF StoreInv, StoreTypeOK
<1>14. lost' \in BOOLEAN  BY <1>7
<1>15. revisions' \in [Policies -> Seq(Contents)]
       /\ approvals' \subseteq [policy: Policies, content: Contents, by: People]
       /\ validating' \subseteq validating
  BY <1>7 DEF StoreInv, StoreTypeOK
<1> HIDE DEF p
<1> QED
  BY <1>2, <1>5, <1>9, <1>10, <1>11, <1>12, <1>13, <1>14, <1>15, RowWritten

LEMMA ApproveKeeps ==
  ASSUME StoreInv, NEW p \in Policies, NEW who \in People, Approve(p, who)  PROVE Kept
<1> DEFINE e == [policies[p] EXCEPT !.status = "APPROVED", !.approvedBy = who]
           a == [policy |-> p, content |-> policies[p].content, by |-> who]
<1>1. p \in Known /\ policies[p] \in Row /\ RowGood(p, policies[p])
      /\ policies[p].status \in Editable
  BY KnownRows DEF Approve, CanEdit, StoreInv, RowsGood
<1>2. /\ who # policies[p].createdBy
      /\ policies[p].lastRun = [revision |-> policies[p].revision,
                                content |-> policies[p].content]
  BY DEF Approve, Approvable
<1>3. /\ policies' = [policies EXCEPT ![p] = e] /\ approvals' = approvals \cup {a}
      /\ UNCHANGED <<revisions, runs, validating, lost>>
  BY DEF Approve
<1>4. /\ e \in Row /\ e.status = "APPROVED"
      /\ e.revision = policies[p].revision /\ e.content = policies[p].content
      /\ e.lastRun = policies[p].lastRun
      /\ e.createdBy = policies[p].createdBy /\ e.deployedBy = policies[p].deployedBy
  BY <1>1, RowApproved
<1> HIDE DEF e
<1>5. policies[p].revision \in 1 .. MaxRevision /\ policies[p].content \in Contents
  BY <1>1 DEF Row
<1>6. policies[p].lastRun # NoRun /\ policies[p].lastRun.content = policies[p].content
  BY <1>2, <1>5 DEF NoRun
<1>7. [policy |-> p, content |-> policies[p].content] \in runs  BY <1>1, <1>6 DEF RowGood
<1>8. policies[p].deployedBy = Nobody  BY <1>1 DEF RowGood
<1>9. policies'[p] = e  BY <1>3 DEF StoreInv, StoreTypeOK
<1>10. Judged(p, policies[p].content, policies[p].createdBy)'
  BY <1>2, <1>3, <1>4, <1>7, <1>9 DEF Judged
<1>11. RowGood(p, policies[p])'
  BY <1>1, <1>3, <1>4, <1>8, <1>10, <1>9 DEF RowGood, Recorded
<1>12. Grows  BY <1>3 DEF Grows
<1>13. approvals' \subseteq [policy: Policies, content: Contents, by: People]
  BY <1>3, <1>5 DEF StoreInv, StoreTypeOK
<1> QED
  BY <1>1, <1>3, <1>4, <1>11, <1>12, <1>13, RowWritten DEF StoreInv, StoreTypeOK

LEMMA RejectKeeps ==
  ASSUME StoreInv, NEW p \in Policies, RejectPolicy(p)  PROVE Kept
<1> DEFINE e == [policies[p] EXCEPT !.status = "REJECTED"]
<1>1. p \in Known /\ policies[p] \in Row /\ RowGood(p, policies[p])
      /\ policies[p].status \in Editable
  BY KnownRows DEF RejectPolicy, CanEdit, StoreInv, RowsGood
<1>2. policies' = [policies EXCEPT ![p] = e]
      /\ UNCHANGED <<revisions, runs, approvals, validating, lost>>
  BY DEF RejectPolicy
<1>3. "REJECTED" \in Editable  BY DEF Editable
<1>4. /\ e \in Row /\ e.status = "REJECTED"
      /\ e.revision = policies[p].revision /\ e.content = policies[p].content
      /\ e.lastRun = policies[p].lastRun
      /\ e.createdBy = policies[p].createdBy /\ e.deployedBy = policies[p].deployedBy
  BY <1>1, <1>3, RowMoved
<1> HIDE DEF e
<1>5. policies'[p] = e  BY <1>2 DEF StoreInv, StoreTypeOK
<1>6. RowGood(p, policies[p])'  BY <1>1, <1>2, <1>3, <1>4, <1>5 DEF RowGood, Recorded
<1>7. Grows  BY <1>2 DEF Grows
<1> QED
  BY <1>1, <1>2, <1>4, <1>6, <1>7, RowWritten DEF StoreInv, StoreTypeOK

\* A row stays good when its status stays on one side and the rest stays.
LEMMA RowStillGood ==
  ASSUME NEW p, RowGood(p, policies[p]), UNCHANGED <<revisions, runs, approvals>>,
         policies'[p].revision = policies[p].revision,
         policies'[p].content = policies[p].content,
         policies'[p].lastRun = policies[p].lastRun,
         policies'[p].createdBy = policies[p].createdBy,
         policies'[p].deployedBy = policies[p].deployedBy,
         policies'[p].status \in Editable <=> policies[p].status \in Editable
  PROVE  RowGood(p, policies[p])'
<1>1. Recorded(p, policies[p])'  BY DEF RowGood, Recorded
<1>2. policies'[p].status \notin Editable
        => Judged(p, policies[p].content, policies[p].createdBy)'
  BY DEF RowGood, Judged
<1> QED  BY <1>1, <1>2 DEF RowGood

\* A policy that was judged and approved takes the place of what was deployed.
LEMMA TakesOver ==
  ASSUME StoreInv, NEW p \in Known, NEW e \in Row, policies' = [Retired EXCEPT ![p] = e],
         e.status = "DEPLOYED", e.revision = policies[p].revision,
         e.content = policies[p].content, e.lastRun = policies[p].lastRun,
         e.createdBy = policies[p].createdBy, policies[p].status \notin Editable,
         UNCHANGED <<revisions, runs, approvals, validating>>, lost' \in BOOLEAN
  PROVE  Kept
<1>1. /\ p \in Policies /\ RowGood(p, policies[p])
      /\ policies \in [Policies -> Row \cup {NoPolicy}]
  BY KnownRows DEF StoreInv, StoreTypeOK, RowsGood
<1>2. /\ DOMAIN policies' = Policies /\ policies' = [q \in Policies |-> policies'[q]]
      /\ policies'[p] = e
      /\ \A q \in Policies : q # p =>
           policies'[q] = IF q \in Deployed THEN [policies[q] EXCEPT !.status = "RETIRED"]
                          ELSE policies[q]
  BY <1>1 DEF Retired
<1>3. Typed  BY <1>2 DEF Typed, StoreInv, StoreTypeOK
<1>4. Grows  BY DEF Grows
<1>5. RowGood(p, policies[p])'
  BY <1>1, <1>2 DEF RowGood, Recorded, Judged, Editable
<1>6. ASSUME NEW q \in Policies, q # p, q \in Deployed
      PROVE  /\ policies'[q] \in Row /\ RowGood(q, policies[q])'
             /\ policies'[q].createdBy = policies[q].createdBy
  <2> DEFINE x == [policies[q] EXCEPT !.status = "RETIRED"]
  <2>1. q \in Known /\ policies[q].status = "DEPLOYED"  BY <1>6 DEF Deployed
  <2>2. policies[q] \in Row /\ RowGood(q, policies[q])
    BY <2>1, KnownRows DEF StoreInv, RowsGood
  <2>3. policies'[q] = x  BY <1>2, <1>6
  <2>4. /\ x \in Row /\ x.status = "RETIRED"
        /\ x.revision = policies[q].revision /\ x.content = policies[q].content
        /\ x.lastRun = policies[q].lastRun
        /\ x.createdBy = policies[q].createdBy /\ x.deployedBy = policies[q].deployedBy
    BY <2>2, RowMoved
  <2> HIDE DEF x
  <2>5. policies[q].status \notin Editable /\ x.status \notin Editable
    BY <2>1, <2>4 DEF Editable
  <2>6. RowGood(q, policies[q])'
    BY <2>2, <2>3, <2>4, <2>5, RowStillGood
  <2> QED  BY <2>3, <2>4, <2>6
<1>7. RowsWritten  BY <1>1, <1>2, <1>5, <1>6 DEF RowsWritten
<1> QED  BY <1>3, <1>4, <1>7, StoreKept

LEMMA DeployKeeps ==
  ASSUME StoreInv, NEW p \in Policies, NEW who \in People, Deploy(p, who)
  PROVE  Kept /\ p \in Known /\ policies[p].status \notin Editable
<1> DEFINE e == [policies[p] EXCEPT !.status = "DEPLOYED", !.deployedBy = who,
                                    !.stage = Canary, !.watched = FALSE]
<1>1. p \in Known /\ policies[p] \in Row /\ policies[p].status \notin Editable
  BY KnownRows DEF Deploy, StoreInv, Editable
<1>2. /\ policies' = [Retired EXCEPT ![p] = e] /\ lost' = FALSE
      /\ UNCHANGED <<revisions, runs, approvals, validating>>
  BY DEF Deploy
<1>3. /\ e \in Row /\ e.status = "DEPLOYED"
      /\ e.revision = policies[p].revision /\ e.content = policies[p].content
      /\ e.lastRun = policies[p].lastRun /\ e.createdBy = policies[p].createdBy
  BY <1>1, RowDeployed DEF Actors
<1> HIDE DEF e
<1>4. Kept  BY <1>1, <1>2, <1>3, TakesOver
<1> QED  BY <1>1, <1>4

LEMMA RedeployKeeps ==
  ASSUME StoreInv, NEW p \in Known, NEW who \in Actors, Redeploy(p, who),
         policies[p].deployedBy # Nobody
  PROVE  Kept /\ policies[p].status \notin Editable
<1> DEFINE e == [policies[p] EXCEPT !.status = "DEPLOYED", !.deployedBy = who]
<1>1. policies[p] \in Row /\ RowGood(p, policies[p])
  BY KnownRows DEF StoreInv, RowsGood
<1>2. /\ policies' = [Retired EXCEPT ![p] = e] /\ lost' = FALSE
      /\ UNCHANGED <<revisions, runs, approvals, validating>>
  BY DEF Redeploy
<1>3. /\ e \in Row /\ e.status = "DEPLOYED"
      /\ e.revision = policies[p].revision /\ e.content = policies[p].content
      /\ e.lastRun = policies[p].lastRun /\ e.createdBy = policies[p].createdBy
  BY <1>1, RowRedeployed
<1>4. policies[p].status \notin Editable  BY <1>1 DEF RowGood
<1> HIDE DEF e
<1>5. Kept  BY <1>2, <1>3, <1>4, TakesOver
<1> QED  BY <1>4, <1>5

LEMMA StageKeeps ==
  ASSUME StoreInv, NEW p \in Policies, NEW to \in {Off, Canary, Wide}, NEW who, NEW calm,
         Stage(p, to, who, calm)
  PROVE  Kept
<1> DEFINE e == [policies[p] EXCEPT !.stage = to, !.watched = FALSE]
<1>1. p \in Known /\ policies[p] \in Row /\ RowGood(p, policies[p])
  BY KnownRows DEF Stage, Deployed, StoreInv, RowsGood
<1>2. policies' = [policies EXCEPT ![p] = e]
      /\ UNCHANGED <<revisions, runs, approvals, validating, lost>>
  BY DEF Stage
<1>3. /\ e \in Row /\ e.status = policies[p].status
      /\ e.revision = policies[p].revision /\ e.content = policies[p].content
      /\ e.lastRun = policies[p].lastRun
      /\ e.createdBy = policies[p].createdBy /\ e.deployedBy = policies[p].deployedBy
  BY <1>1, RowStaged
<1> HIDE DEF e
<1>4. policies'[p] = e  BY <1>2 DEF StoreInv, StoreTypeOK
<1>5. RowGood(p, policies[p])'
  BY <1>1, <1>2, <1>3, <1>4, RowStillGood
<1>6. Grows  BY <1>2 DEF Grows
<1> QED
  BY <1>1, <1>2, <1>3, <1>5, <1>6, RowWritten DEF StoreInv, StoreTypeOK

LEMMA WatchKeeps == ASSUME StoreInv, WatchPasses PROVE Kept
<1>1. /\ policies \in [Policies -> Row \cup {NoPolicy}]
      /\ UNCHANGED <<revisions, runs, approvals, validating, lost>>
      /\ policies' = [p \in Policies |->
                    IF p \in Known /\ policies[p].deployedBy # Nobody
                    THEN [policies[p] EXCEPT !.watched = TRUE] ELSE policies[p]]
  BY DEF StoreInv, StoreTypeOK, WatchPasses
<1>2. Typed
  <2>1. DOMAIN policies' = Policies /\ policies' = [p \in Policies |-> policies'[p]]
    BY <1>1
  <2> QED  BY <1>1, <2>1 DEF Typed, StoreInv, StoreTypeOK
<1>3. ASSUME NEW p \in Known, policies'[p] # policies[p]
      PROVE  /\ policies'[p] \in Row /\ RowGood(p, policies[p])'
             /\ policies'[p].createdBy = policies[p].createdBy
  <2> DEFINE x == [policies[p] EXCEPT !.watched = TRUE]
  <2>1. p \in Policies /\ policies[p] \in Row /\ RowGood(p, policies[p])
    BY KnownRows DEF StoreInv, RowsGood
  <2>2. policies'[p] = x  BY <1>1, <1>3, <2>1
  <2>3. /\ x \in Row /\ x.status = policies[p].status
        /\ x.revision = policies[p].revision /\ x.content = policies[p].content
        /\ x.lastRun = policies[p].lastRun
        /\ x.createdBy = policies[p].createdBy /\ x.deployedBy = policies[p].deployedBy
    BY <2>1, RowStaged DEF Off, Canary, Wide
  <2> HIDE DEF x
  <2>4. RowGood(p, policies[p])'
    BY <1>1, <2>1, <2>2, <2>3, RowStillGood
  <2> QED  BY <2>2, <2>3, <2>4
<1>4. \A p \in Policies \ Known : policies'[p] = policies[p]  BY <1>1
<1>5. RowsWritten  BY <1>3, <1>4 DEF RowsWritten
<1>6. Grows  BY <1>1 DEF Grows
<1> QED  BY <1>1, <1>2, <1>5, <1>6, StoreKept

LEMMA StoreSame ==
  ASSUME StoreInv, validating' \subseteq validating,
         UNCHANGED <<policies, revisions, runs, approvals, lost>>
  PROVE  Kept
<1>1. Typed  BY DEF Typed, StoreInv, StoreTypeOK
<1>2. Grows  BY DEF Grows
<1>3. RowsWritten  BY DEF RowsWritten
<1> QED  BY <1>1, <1>2, <1>3, StoreKept

\* Each handler of the store keeps its invariant.
LEMMA StoreStepKeeps ==
  ASSUME StoreInv, StoreStep  PROVE Kept
<1>1. ASSUME NEW p \in Policies, NEW who \in People, NEW content \in Contents,
             Create(p, who, content)
      PROVE  Kept
  BY <1>1, CreateKeeps
<1>2. ASSUME NEW p \in Policies, NEW content \in Contents, Update(p, content)  PROVE Kept
  BY <1>2, RevisedKeeps DEF Update
<1>3. ASSUME NEW p \in Policies, NEW n \in DOMAIN revisions[p], RestoreRevision(p, n)
      PROVE  Kept
  <2>1. revisions[p] \in Seq(Contents)  BY DEF StoreInv, StoreTypeOK
  <2>2. revisions[p][n] \in Contents  BY <2>1
  <2> QED  BY <1>3, <2>2, RevisedKeeps DEF RestoreRevision
<1>4. ASSUME NEW p \in Policies, StartValidate(p)  PROVE Kept  BY <1>4, StartKeeps
<1>5. ASSUME NEW p \in Policies, NEW who \in People, Approve(p, who)  PROVE Kept
  BY <1>5, ApproveKeeps
<1>6. ASSUME NEW p \in Policies, RejectPolicy(p)  PROVE Kept  BY <1>6, RejectKeeps
<1>7. ASSUME NEW v \in validating, NEW go \in BOOLEAN, FinishValidate(v, go)  PROVE Kept
  BY <1>7, FinishKeeps
<1> QED  BY <1>1, <1>2, <1>3, <1>4, <1>5, <1>6, <1>7 DEF StoreStep

-----------------------------------------------------------------------------
(* Publications *)

LEMMA PublicationsKept ==
  ASSUME ReleaseInv, Kept, publications' \in Seq(Pub),
         \A d \in DOMAIN publications' :
           \/ /\ d \in DOMAIN publications
              /\ publications'[d].policy = publications[d].policy
              /\ publications'[d].content = publications[d].content
           \/ /\ publications'[d].policy \in Known
              /\ Judged(publications'[d].policy, publications'[d].content,
                        policies[publications'[d].policy].createdBy)
  PROVE  ReleaseInv'
<1>1. ASSUME NEW p \in Known, NEW content, Judged(p, content, policies[p].createdBy)
      PROVE  p \in Known' /\ Judged(p, content, policies[p].createdBy)'
  BY <1>1 DEF Kept, Judged
<1>2. ASSUME NEW d \in DOMAIN publications'
      PROVE  /\ publications'[d].policy \in Known
             /\ Judged(publications'[d].policy, publications'[d].content,
                       policies[publications'[d].policy].createdBy)
  BY DEF ReleaseInv, PublicationsGood
<1>3. PublicationsGood'
  <2> SUFFICES ASSUME NEW d \in DOMAIN publications'
               PROVE  /\ publications'[d].policy \in Known'
                      /\ Judged(publications[d].policy, publications[d].content,
                                policies[publications[d].policy].createdBy)'
    BY DEF PublicationsGood
  <2> DEFINE p == publications'[d].policy
             content == publications'[d].content
  <2>1. p \in Known /\ Judged(p, content, policies[p].createdBy)  BY <1>2
  <2>2. p \in Known' /\ policies'[p].createdBy = policies[p].createdBy
          /\ runs \subseteq runs' /\ approvals \subseteq approvals'
    BY <2>1 DEF Kept
  <2> QED  BY <2>1, <2>2 DEF Judged
<1> QED  BY <1>3 DEF ReleaseInv, Kept

\* Nothing is published.
LEMMA NothingPublished ==
  ASSUME ReleaseInv, Kept, publications' = publications  PROVE ReleaseInv'
  BY PublicationsKept DEF ReleaseInv

\* A policy whose content was judged and approved is published.
LEMMA PublishedKeeps ==
  ASSUME ReleaseInv, Kept, NEW p \in Known, NEW who \in Actors, NEW rollback \in BOOLEAN,
         Published(p, who, rollback), policies[p].status \notin Editable
  PROVE  ReleaseInv'
<1> DEFINE x == [policy |-> p, content |-> policies[p].content, by |-> who,
                 rollback |-> rollback, status |-> "OPEN", failing |-> FALSE]
<1>1. p \in Policies /\ policies[p] \in Row /\ RowGood(p, policies[p])
  BY KnownRows DEF ReleaseInv, StoreInv, RowsGood
<1>2. policies[p].content \in Contents  BY <1>1 DEF Row
<1>3. x \in Pub /\ x.policy = p /\ x.content = policies[p].content  BY <1>1, <1>2 DEF Pub
<1>4. publications' = Append(publications, x)  BY DEF Published
<1>5. Judged(p, policies[p].content, policies[p].createdBy)  BY <1>1 DEF RowGood
<1> HIDE DEF x
<1>6. publications \in Seq(Pub)  BY DEF ReleaseInv
<1>7. /\ publications' \in Seq(Pub)
      /\ DOMAIN publications' = DOMAIN publications \cup {Len(publications) + 1}
      /\ publications'[Len(publications) + 1] = x
      /\ \A d \in DOMAIN publications : publications'[d] = publications[d]
  BY <1>3, <1>4, <1>6
<1> QED  BY <1>3, <1>5, <1>7, PublicationsKept

\* The verdict changes neither the policy nor its content.
LEMMA CloseKeeps ==
  ASSUME ReleaseInv, NEW d \in DOMAIN publications,
         NEW verdict \in {"CONFIRMED", "PARTIAL", "FAILED"}, NEW failing \in BOOLEAN,
         ClosePublication(d, verdict, failing)
  PROVE  ReleaseInv'
<1> DEFINE x == [publications[d] EXCEPT !.status = verdict, !.failing = failing]
<1>1. publications \in Seq(Pub) /\ publications[d] \in Pub  BY DEF ReleaseInv
<1>2. x \in Pub /\ x.policy = publications[d].policy /\ x.content = publications[d].content
  BY <1>1 DEF Pub
<1>3. publications' = [publications EXCEPT ![d] = x]
  BY <1>1 DEF ClosePublication
<1> HIDE DEF x
<1>4. publications' \in Seq(Pub)  BY <1>1, <1>2, <1>3, ExceptSeq
<1>5. /\ DOMAIN publications' = DOMAIN publications /\ publications'[d] = x
      /\ \A c \in DOMAIN publications : c # d => publications'[c] = publications[c]
  BY <1>1, <1>3
<1>6. Kept  BY StoreSame DEF ClosePublication, storeVars, ReleaseInv
<1> QED  BY <1>2, <1>4, <1>5, <1>6, PublicationsKept

LEMMA ExecuteKeeps ==
  ASSUME ReleaseInv, NEW i, NEW who \in Actors, NEW fit, Execute(i, who, fit)
  PROVE  ReleaseInv'
<1> DEFINE c == cases[i]
           r == cases[i].recovery
<1>1. CASE Applicable(c.deployment, r, fit)
  <2>1. r \in Known /\ policies[r].deployedBy # Nobody
    BY <1>1 DEF Applicable, Recoverable
  <2>2. Redeploy(r, who) /\ Published(r, who, TRUE)  BY <1>1 DEF Execute
  <2> HIDE DEF r
  <2>3. Kept /\ policies[r].status \notin Editable
    BY <2>1, <2>2, RedeployKeeps DEF ReleaseInv
  <2> QED  BY <2>1, <2>2, <2>3, PublishedKeeps
<1>2. CASE ~Applicable(c.deployment, r, fit)
  <2>1. UNCHANGED <<storeVars, publications>>  BY <1>2 DEF Execute
  <2>2. Kept  BY <2>1, StoreSame DEF storeVars, ReleaseInv
  <2> QED  BY <2>1, <2>2, NothingPublished
<1> QED  BY <1>1, <1>2

LEMMA ReleaseInvNext == ReleaseInv /\ [ReleaseNext]_allVars => ReleaseInv'
<1> SUFFICES ASSUME ReleaseInv, [ReleaseNext]_allVars  PROVE ReleaseInv'  OBVIOUS
<1>1. StoreInv  BY DEF ReleaseInv
<1>2. CASE StoreStep /\ UNCHANGED releaseVars
  BY <1>1, <1>2, StoreStepKeeps, NothingPublished DEF releaseVars
<1>3. ASSUME NEW p \in Policies, NEW who \in People, DeployAndPublish(p, who)
      PROVE  ReleaseInv'
  BY <1>1, <1>3, DeployKeeps, PublishedKeeps DEF DeployAndPublish, Actors
<1>4. ASSUME NEW p \in Policies, NEW to \in {Off, Canary, Wide}, NEW who, NEW calm,
             StageAndWatch(p, to, who, calm)
      PROVE  ReleaseInv'
  BY <1>1, <1>4, StageKeeps, NothingPublished DEF StageAndWatch
<1>5. CASE Day  BY <1>1, <1>5, WatchKeeps, NothingPublished DEF Day
<1>6. ASSUME NEW d \in DOMAIN publications, NEW verdict \in {"CONFIRMED", "PARTIAL", "FAILED"},
             NEW failing \in BOOLEAN, ClosePublication(d, verdict, failing)
      PROVE  ReleaseInv'
  BY <1>6, CloseKeeps
<1>7. ASSUME UNCHANGED storeVars, publications' = publications  PROVE ReleaseInv'
  BY <1>1, <1>7, StoreSame, NothingPublished DEF storeVars
<1>8. ASSUME NEW kind, NEW d, NEW r, AskRollback(kind, d, r)  PROVE ReleaseInv'
  BY <1>7, <1>8 DEF AskRollback
<1>9. ASSUME NEW i, NEW approve, DecideRollback(i, approve)  PROVE ReleaseInv'
  BY <1>7, <1>9 DEF DecideRollback
<1>10. ASSUME NEW i, NEW who \in People, NEW fit, ExecuteRequest(i, who, fit)
       PROVE  ReleaseInv'
  BY <1>10, ExecuteKeeps DEF ExecuteRequest, Actors
<1>11. ASSUME NEW plans, TroubleCode(plans)  PROVE ReleaseInv'
  BY <1>7, <1>11 DEF TroubleCode
<1>12. ASSUME NEW i, NEW fit, AutoExecute(i, fit)  PROVE ReleaseInv'
  <2>1. CASE cases[i].status = "APPROVED"
    BY <1>12, <2>1, ExecuteKeeps DEF AutoExecute, Actors
  <2>2. CASE cases[i].status # "APPROVED"
    BY <1>7, <1>12, <2>2 DEF AutoExecute
  <2> QED  BY <2>1, <2>2
<1>13. CASE ReleaseCrash
  BY <1>1, <1>13, StoreSame, NothingPublished DEF ReleaseCrash, StoreCrash
<1>14. CASE UNCHANGED allVars  BY <1>7, <1>14 DEF allVars, releaseVars
<1> QED
  BY <1>2, <1>3, <1>4, <1>5, <1>6, <1>8, <1>9, <1>10, <1>11, <1>12, <1>13, <1>14
     DEF ReleaseNext

LEMMA ReleaseInvInit == ReleaseInit => ReleaseInv
<1> SUFFICES ASSUME ReleaseInit  PROVE ReleaseInv  OBVIOUS
<1>1. /\ policies = [p \in Policies |-> NoPolicy] /\ revisions = [p \in Policies |-> << >>]
      /\ runs = {} /\ approvals = {} /\ validating = {} /\ lost = FALSE
      /\ publications = << >>
  BY DEF ReleaseInit, StoreInit
<1>2. NoPolicy.status = "NONE"  BY DEF NoPolicy
<1>3. Known = {}  BY <1>1, <1>2 DEF Known
<1>4. << >> \in Seq(Contents) /\ << >> \in Seq(Pub)  OBVIOUS
<1>5. StoreTypeOK  BY <1>1, <1>4 DEF StoreTypeOK
<1>6. DOMAIN publications = {}  BY <1>1
<1> QED
  BY <1>1, <1>3, <1>4, <1>5, <1>6
     DEF ReleaseInv, StoreInv, RowsGood, ReadsGood, PublicationsGood

-----------------------------------------------------------------------------
(* What the server evaluates, and who sees it *)

\* The deployed policy and its last publication.  After a rollback nothing is said
\* of the stage, which the policy brings back.
WatchGood ==
  \A p \in Deployed :
    ~Last(publications).rollback =>
      /\ policies[p].deployedBy = Last(publications).by
      /\ policies[p].watched => aged
      /\ policies[p].stage = Wide => widened

ServedInv ==
  /\ publications = << >> => Deployed = {}
  /\ ServedIsPublished
  /\ WatchGood

LEMMA DeployedRows ==
  ASSUME StoreTypeOK
  PROVE  /\ Deployed = {p \in Policies : policies[p].status = "DEPLOYED"}
         /\ \A p \in Deployed : p \in Policies /\ p \in Known /\ policies[p] \in Row
  BY KnownRows DEF Deployed, Known

\* The verdict leaves what is said of the last publication.
SamePublications ==
  /\ publications' = << >> <=> publications = << >>
  /\ publications # << >> =>
       /\ Last(publications').policy = Last(publications).policy
       /\ Last(publications').content = Last(publications).content
       /\ Last(publications').by = Last(publications).by
       /\ Last(publications').rollback = Last(publications).rollback

LEMMA ServedStays ==
  ASSUME ServedInv, StoreTypeOK, SamePublications, Deployed' = Deployed,
         \A p \in Deployed : policies'[p] = policies[p], UNCHANGED <<lost, aged, widened>>
  PROVE  ServedInv'
<1>1. Deployed # {} => publications # << >>  BY DEF ServedInv
<1>2. ServedIsPublished'
  <2> SUFFICES ASSUME publications # << >>
               PROVE  IF lost THEN Deployed = {}
                      ELSE /\ Deployed = {Last(publications).policy}
                           /\ policies'[Last(publications).policy].content
                                = Last(publications).content
    BY DEF ServedIsPublished, SamePublications
  <2> QED  BY DEF ServedInv, ServedIsPublished
<1>3. WatchGood'
  <2> SUFFICES ASSUME NEW p \in Deployed, ~Last(publications).rollback
               PROVE  /\ policies'[p].deployedBy = Last(publications).by
                      /\ policies'[p].watched => aged
                      /\ policies'[p].stage = Wide => widened
    BY <1>1 DEF WatchGood, SamePublications
  <2> QED  BY DEF ServedInv, WatchGood
<1> QED  BY <1>2, <1>3 DEF ServedInv, SamePublications

\* A row that is not deployed, before or after, is written.
LEMMA OtherWritten ==
  ASSUME StoreTypeOK, StoreTypeOK', NEW p \in Policies, NEW e,
         policies' = [policies EXCEPT ![p] = e], p \notin Deployed, e.status # "DEPLOYED"
  PROVE  Deployed' = Deployed /\ \A q \in Deployed : policies'[q] = policies[q]
<1>1. policies \in [Policies -> Row \cup {NoPolicy}]  BY DEF StoreTypeOK
<1>2. Deployed' = {q \in Policies : policies'[q].status = "DEPLOYED"}
  BY DeployedRows DEF Deployed, Known
<1>3. Deployed = {q \in Policies : policies[q].status = "DEPLOYED"}  BY DeployedRows
<1> QED  BY <1>1, <1>2, <1>3

\* The handlers of the store leave the deployed row alone, but for a validation that
\* began before its deployment.
LEMMA ServedStore ==
  ASSUME ReleaseInv, ServedInv, StoreStep, UNCHANGED releaseVars  PROVE ServedInv'
<1>1. StoreTypeOK /\ StoreTypeOK' /\ SamePublications
  BY StoreStepKeeps DEF ReleaseInv, StoreInv, Kept, SamePublications, releaseVars
<1>2. UNCHANGED <<publications, aged, widened>>  BY DEF releaseVars
<1>3. \A p : CanEdit(p) => p \in Policies /\ p \notin Deployed
  BY DEF CanEdit, Known, Deployed, Editable
<1>4. ASSUME NEW p \in Policies, NEW e, policies' = [policies EXCEPT ![p] = e],
             p \notin Deployed, e.status # "DEPLOYED", lost' = lost
      PROVE  ServedInv'
  BY <1>1, <1>2, <1>4, OtherWritten, ServedStays
<1>5. ASSUME NEW p \in Policies, NEW who \in People, NEW content \in Contents,
             Create(p, who, content)
      PROVE  ServedInv'
  <2>1. p \notin Deployed /\ Draft(who, content).status # "DEPLOYED"
    BY <1>5 DEF Create, Deployed, Draft
  <2> QED  BY <1>4, <1>5, <2>1 DEF Create
<1>6. ASSUME NEW p, NEW content, CanEdit(p), Revised(p, content), lost' = lost  PROVE ServedInv'
  <2> DEFINE e == [policies[p] EXCEPT !.status = "DRAFT", !.revision = policies[p].revision + 1,
                                      !.content = content]
  <2>1. p \in Policies /\ p \notin Deployed /\ policies[p] \in Row
    BY <1>1, <1>3, <1>6, KnownRows DEF CanEdit
  <2>2. e.status = "DRAFT"  BY <2>1 DEF Row
  <2>3. policies' = [policies EXCEPT ![p] = e]  BY <1>6 DEF Revised
  <2> HIDE DEF e
  <2> QED  BY <1>4, <1>6, <2>1, <2>2, <2>3
<1>7. ASSUME NEW p \in Policies, StartValidate(p)  PROVE ServedInv'
  BY <1>1, <1>2, <1>7, ServedStays DEF StartValidate, Deployed, Known
<1>8. ASSUME NEW p \in Policies, NEW who \in People, Approve(p, who)  PROVE ServedInv'
  <2> DEFINE e == [policies[p] EXCEPT !.status = "APPROVED", !.approvedBy = who]
  <2>1. p \notin Deployed /\ policies[p] \in Row
    BY <1>1, <1>3, <1>8, KnownRows DEF CanEdit, Approve
  <2>2. e.status = "APPROVED"  BY <2>1, RowApproved
  <2>3. policies' = [policies EXCEPT ![p] = e] /\ lost' = lost  BY <1>8 DEF Approve
  <2> HIDE DEF e
  <2> QED  BY <1>4, <2>1, <2>2, <2>3
<1>9. ASSUME NEW p \in Policies, RejectPolicy(p)  PROVE ServedInv'
  <2> DEFINE e == [policies[p] EXCEPT !.status = "REJECTED"]
  <2>1. p \notin Deployed /\ policies[p] \in Row
    BY <1>1, <1>3, <1>9, KnownRows DEF CanEdit, RejectPolicy
  <2>2. e.status = "REJECTED"  BY <2>1 DEF Row
  <2>3. policies' = [policies EXCEPT ![p] = e] /\ lost' = lost  BY <1>9 DEF RejectPolicy
  <2> HIDE DEF e
  <2> QED  BY <1>4, <2>1, <2>2, <2>3
<1>10. ASSUME NEW v \in validating, NEW go \in BOOLEAN, FinishValidate(v, go)
       PROVE  ServedInv'
  <2> DEFINE p == v.policy
             e == IF go THEN [v.row EXCEPT !.status = "VALIDATED",
                     !.lastRun = [revision |-> v.row.revision, content |-> v.row.content]]
                  ELSE [v.row EXCEPT !.status = "DRAFT", !.lastRun = NoRun]
  <2>1. v.row \in Row /\ p \in Policies /\ ReadGood(v)
    BY DEF ReleaseInv, StoreInv, StoreTypeOK, ReadsGood
  <2>2. e.status # "DEPLOYED"  BY <2>1 DEF Row
  <2>3. policies' = [policies EXCEPT ![p] = e]
        /\ lost' = (lost \/ (v.row.deployedBy = Nobody /\ v.policy \in Deployed))
    BY <1>10 DEF FinishValidate
  <2> HIDE DEF e, p
  <2>4. CASE p \notin Deployed
    <3>1. lost' = lost
      BY <2>3, <2>4 DEF p, ReleaseInv, StoreInv, StoreTypeOK
    <3> QED  BY <1>4, <2>1, <2>2, <2>3, <2>4, <3>1
  <2>5. CASE p \in Deployed
    <3>1. lost'  BY <2>1, <2>3, <2>5 DEF ReadGood, p
    <3>2. publications # << >> /\ ~lost /\ Deployed = {p}
      BY <2>5 DEF ServedInv, ServedIsPublished
    <3>3. Deployed' = {}
      <4>1. /\ Deployed' = {q \in Policies : policies'[q].status = "DEPLOYED"}
            /\ Deployed = {q \in Policies : policies[q].status = "DEPLOYED"}
        BY <1>1, DeployedRows DEF Deployed, Known
      <4>2. policies \in [Policies -> Row \cup {NoPolicy}]  BY <1>1 DEF StoreTypeOK
      <4> QED  BY <2>1, <2>2, <2>3, <3>2, <4>1, <4>2
    <3> QED  BY <1>2, <3>1, <3>3 DEF ServedInv, ServedIsPublished, WatchGood
  <2> QED  BY <2>4, <2>5
<1> QED
  BY <1>5, <1>6, <1>7, <1>8, <1>9, <1>10 DEF StoreStep, Update, RestoreRevision

\* A deployment or rollback: the policy that takes over is the one published.
LEMMA ServedPublished ==
  ASSUME ReleaseInv, StoreTypeOK', NEW p \in Known, NEW who, NEW rollback \in BOOLEAN,
         NEW e \in Row, policies' = [Retired EXCEPT ![p] = e], e.status = "DEPLOYED",
         e.content = policies[p].content, e.deployedBy = who,
         ~rollback => e.stage = Canary /\ ~e.watched,
         lost' = FALSE, Published(p, who, rollback)
  PROVE  ServedInv'
<1>1. StoreTypeOK /\ p \in Policies /\ policies \in [Policies -> Row \cup {NoPolicy}]
  BY KnownRows DEF ReleaseInv, StoreInv, StoreTypeOK
<1>2. Deployed = {q \in Policies : policies[q].status = "DEPLOYED"}  BY <1>1, DeployedRows
<1>3. Deployed' = {q \in Policies : policies'[q].status = "DEPLOYED"}
  BY DeployedRows DEF Deployed, Known
<1>4. ASSUME NEW q \in Policies, q # p  PROVE policies'[q].status # "DEPLOYED"
  <2>1. policies'[q] = IF q \in Deployed THEN [policies[q] EXCEPT !.status = "RETIRED"]
                       ELSE policies[q]
    BY <1>1, <1>4 DEF Retired
  <2>2. q \in Deployed => policies[q] \in Row  BY <1>1, DeployedRows
  <2>3. CASE q \in Deployed
    <3>1. [policies[q] EXCEPT !.status = "RETIRED"].status = "RETIRED"
      BY <2>2, <2>3, RowMoved
    <3> QED  BY <2>1, <2>3, <3>1
  <2> QED  BY <1>2, <1>4, <2>1, <2>3
<1>5. policies'[p] = e  BY <1>1 DEF Retired
<1>6. Deployed' = {p}  BY <1>1, <1>3, <1>4, <1>5
<1> DEFINE x == [policy |-> p, content |-> policies[p].content, by |-> who,
                 rollback |-> rollback, status |-> "OPEN", failing |-> FALSE]
<1>7. publications \in Seq(Pub)  BY DEF ReleaseInv
<1>8. publications' = Append(publications, x)  BY DEF Published
<1>9. publications' # << >> /\ Last(publications') = x
  BY <1>7, <1>8 DEF Last
<1>10. x.policy = p /\ x.content = policies[p].content /\ x.by = who /\ x.rollback = rollback
  OBVIOUS
<1> HIDE DEF x
<1>11. ServedIsPublished'  BY <1>5, <1>6, <1>9, <1>10 DEF ServedIsPublished
<1>12. Canary # Wide  BY DEF Canary, Wide
<1>13. WatchGood'  BY <1>5, <1>6, <1>9, <1>10, <1>12 DEF WatchGood
<1> QED  BY <1>9, <1>11, <1>13 DEF ServedInv

LEMMA ServedDeploy ==
  ASSUME ReleaseInv, NEW p \in Policies, NEW who \in People, DeployAndPublish(p, who)
  PROVE  ServedInv'
<1> DEFINE e == [policies[p] EXCEPT !.status = "DEPLOYED", !.deployedBy = who,
                                    !.stage = Canary, !.watched = FALSE]
<1>1. StoreTypeOK' /\ p \in Known
  BY DeployKeeps DEF DeployAndPublish, ReleaseInv, Kept, StoreInv
<1>2. policies[p] \in Row  BY <1>1, KnownRows DEF ReleaseInv, StoreInv
<1>3. /\ e \in Row /\ e.status = "DEPLOYED" /\ e.content = policies[p].content
  BY <1>2, RowDeployed DEF Actors
<1>4. e.deployedBy = who /\ e.stage = Canary /\ ~e.watched  BY <1>2 DEF Row
<1>5. policies' = [Retired EXCEPT ![p] = e] /\ lost' = FALSE /\ Published(p, who, FALSE)
  BY DEF DeployAndPublish, Deploy
<1> HIDE DEF e
<1> QED  BY <1>1, <1>3, <1>4, <1>5, ServedPublished

LEMMA ServedRollback ==
  ASSUME ReleaseInv, NEW p \in Known, NEW who \in Actors, Redeploy(p, who),
         policies[p].deployedBy # Nobody, Published(p, who, TRUE)
  PROVE  ServedInv'
<1> DEFINE e == [policies[p] EXCEPT !.status = "DEPLOYED", !.deployedBy = who]
<1>1. StoreTypeOK'
  BY RedeployKeeps DEF ReleaseInv, Kept, StoreInv
<1>2. policies[p] \in Row  BY KnownRows DEF ReleaseInv, StoreInv
<1>3. e \in Row /\ e.status = "DEPLOYED" /\ e.content = policies[p].content
  BY <1>2, RowRedeployed
<1>4. e.deployedBy = who  BY <1>2 DEF Row
<1>5. policies' = [Retired EXCEPT ![p] = e] /\ lost' = FALSE  BY DEF Redeploy
<1> HIDE DEF e
<1> QED  BY <1>1, <1>3, <1>4, <1>5, ServedPublished

LEMMA ServedExecute ==
  ASSUME ReleaseInv, ServedInv, NEW i, NEW who \in Actors, NEW fit, Execute(i, who, fit)
  PROVE  ServedInv'
<1> DEFINE r == cases[i].recovery
<1>1. CASE Applicable(cases[i].deployment, r, fit)
  <2>1. r \in Known /\ policies[r].deployedBy # Nobody
    BY <1>1 DEF Applicable, Recoverable
  <2>2. Redeploy(r, who) /\ Published(r, who, TRUE)  BY <1>1 DEF Execute
  <2> HIDE DEF r
  <2> QED  BY <2>1, <2>2, ServedRollback
<1>2. CASE ~Applicable(cases[i].deployment, r, fit)
  <2>1. UNCHANGED <<storeVars, publications, aged, widened>>  BY <1>2 DEF Execute
  <2> QED
    BY <2>1, ServedStays
       DEF storeVars, SamePublications, ReleaseInv, StoreInv, Deployed, Known
<1> QED  BY <1>1, <1>2

\* Stages and time.
LEMMA ServedStage ==
  ASSUME ReleaseInv, ServedInv, NEW p \in Policies, NEW to \in {Off, Canary, Wide}, NEW who,
         NEW calm, StageAndWatch(p, to, who, calm)
  PROVE  ServedInv'
<1> DEFINE e == [policies[p] EXCEPT !.stage = to, !.watched = FALSE]
<1>1. StoreTypeOK /\ StoreTypeOK' /\ policies \in [Policies -> Row \cup {NoPolicy}]
  BY StageKeeps DEF StageAndWatch, ReleaseInv, Kept, StoreInv, StoreTypeOK
<1>2. p \in Deployed /\ to # policies[p].stage /\ MayStage(policies[p], to, who, calm)
      /\ policies' = [policies EXCEPT ![p] = e] /\ lost' = lost
  BY DEF StageAndWatch, Stage
<1>3. policies[p] \in Row  BY <1>1, <1>2, DeployedRows
<1>4. e.status = policies[p].status /\ e.content = policies[p].content
      /\ e.deployedBy = policies[p].deployedBy /\ e.stage = to /\ ~e.watched
  BY <1>3 DEF Row
<1> HIDE DEF e
<1>5. /\ Deployed' = {q \in Policies : policies'[q].status = "DEPLOYED"}
      /\ Deployed = {q \in Policies : policies[q].status = "DEPLOYED"}
  BY <1>1, DeployedRows DEF Deployed, Known
<1>6. Deployed' = Deployed  BY <1>1, <1>2, <1>4, <1>5
<1>7. publications # << >> /\ ~lost /\ Deployed = {p} /\ Last(publications).policy = p
      /\ policies[p].content = Last(publications).content
  BY <1>2 DEF ServedInv, ServedIsPublished
<1>8. policies'[p] = e  BY <1>1, <1>2
<1>9. UNCHANGED <<publications, aged>>
      /\ widened' = (widened \/ (to = Wide /\ aged /\ who # Last(publications).by))
  BY DEF StageAndWatch
<1>10. ServedIsPublished'  BY <1>2, <1>4, <1>6, <1>7, <1>8, <1>9 DEF ServedIsPublished
<1>11. ASSUME ~Last(publications).rollback
       PROVE  /\ e.deployedBy = Last(publications).by
              /\ to = Wide => widened'
  <2>1. /\ policies[p].deployedBy = Last(publications).by
        /\ policies[p].watched => aged
        /\ policies[p].stage = Wide => widened
    BY <1>2, <1>11 DEF ServedInv, WatchGood
  <2>2. policies[p].stage \in {Off, Canary, Wide}  BY <1>3 DEF Row
  <2>3. to = Wide => who # policies[p].deployedBy /\ policies[p].watched
    BY <1>2, <2>2 DEF MayStage, Off, Canary, Wide
  <2> QED  BY <1>4, <1>9, <2>1, <2>3
<1>12. WatchGood'  BY <1>4, <1>6, <1>7, <1>8, <1>9, <1>11 DEF WatchGood
<1> QED  BY <1>7, <1>9, <1>10, <1>12 DEF ServedInv

LEMMA ServedDay ==
  ASSUME ReleaseInv, ServedInv, Day  PROVE ServedInv'
<1>1. StoreTypeOK /\ StoreTypeOK' /\ policies \in [Policies -> Row \cup {NoPolicy}]
  BY WatchKeeps DEF Day, ReleaseInv, Kept, StoreInv, StoreTypeOK
<1>2. ASSUME NEW p \in Policies
      PROVE  /\ policies'[p].status = policies[p].status
             /\ p \in Known => /\ policies'[p].content = policies[p].content
                               /\ policies'[p].deployedBy = policies[p].deployedBy
                               /\ policies'[p].stage = policies[p].stage
  <2>1. policies'[p] = IF p \in Known /\ policies[p].deployedBy # Nobody
                       THEN [policies[p] EXCEPT !.watched = TRUE] ELSE policies[p]
    BY DEF Day, WatchPasses
  <2>2. p \in Known => policies[p] \in Row  BY <1>1, KnownRows
  <2>3. CASE p \in Known /\ policies[p].deployedBy # Nobody
    <3> DEFINE x == [policies[p] EXCEPT !.watched = TRUE]
    <3>1. /\ x.status = policies[p].status /\ x.content = policies[p].content
          /\ x.deployedBy = policies[p].deployedBy /\ x.stage = policies[p].stage
      BY <2>2, <2>3 DEF Row
    <3>2. policies'[p] = x  BY <2>1, <2>3
    <3> HIDE DEF x
    <3> QED  BY <3>1, <3>2
  <2> QED  BY <2>1, <2>3
<1>3. /\ Deployed' = {q \in Policies : policies'[q].status = "DEPLOYED"}
      /\ Deployed = {q \in Policies : policies[q].status = "DEPLOYED"}
      /\ \A q \in Deployed : q \in Known
  BY <1>1, DeployedRows DEF Deployed, Known
<1>4. Deployed' = Deployed  BY <1>2, <1>3
<1>5. UNCHANGED <<publications, widened, lost>> /\ aged' = (publications # << >>)
  BY DEF Day, WatchPasses
<1>6. Deployed # {} => publications # << >>  BY DEF ServedInv
<1>7. ServedIsPublished'
  <2> SUFFICES ASSUME publications # << >>
               PROVE  IF lost THEN Deployed = {}
                      ELSE /\ Deployed = {Last(publications).policy}
                           /\ policies'[Last(publications).policy].content
                                = Last(publications).content
    BY <1>4, <1>5 DEF ServedIsPublished
  <2> QED  BY <1>2, <1>3 DEF ServedInv, ServedIsPublished
<1>8. WatchGood'
  <2> SUFFICES ASSUME NEW p \in Deployed, ~Last(publications).rollback
               PROVE  /\ policies'[p].deployedBy = Last(publications).by
                      /\ aged'
                      /\ policies'[p].stage = Wide => widened
    BY <1>4, <1>5 DEF WatchGood
  <2> QED  BY <1>2, <1>3, <1>5, <1>6 DEF ServedInv, WatchGood
<1> QED  BY <1>4, <1>5, <1>7, <1>8 DEF ServedInv

LEMMA ServedClose ==
  ASSUME ReleaseInv, ServedInv, NEW d \in DOMAIN publications,
         NEW verdict \in {"CONFIRMED", "PARTIAL", "FAILED"}, NEW failing \in BOOLEAN,
         ClosePublication(d, verdict, failing)
  PROVE  ServedInv'
<1>1. publications \in Seq(Pub) /\ publications[d] \in Pub  BY DEF ReleaseInv
<1> DEFINE x == [publications[d] EXCEPT !.status = verdict, !.failing = failing]
<1>2. /\ x \in Pub /\ x.policy = publications[d].policy /\ x.content = publications[d].content
      /\ x.by = publications[d].by /\ x.rollback = publications[d].rollback
  BY <1>1 DEF Pub
<1>3. publications' = [publications EXCEPT ![d] = x]  BY <1>1 DEF ClosePublication
<1> HIDE DEF x
<1>4. publications' \in Seq(Pub) /\ Len(publications') = Len(publications)
      /\ \A c \in DOMAIN publications : publications'[c] = IF c = d THEN x ELSE publications[c]
  BY <1>1, <1>2, <1>3, ExceptSeq
<1>5. Len(publications) \in Nat /\ DOMAIN publications = 1 .. Len(publications)
      /\ Len(publications) >= 1
  BY <1>1
<1>6. publications # << >> /\ publications' # << >>  BY <1>1, <1>4, <1>5
<1>7. Len(publications) \in DOMAIN publications  BY <1>5
<1>8. SamePublications  BY <1>2, <1>4, <1>6, <1>7 DEF SamePublications, Last
<1>9. UNCHANGED <<storeVars, aged, widened>>  BY DEF ClosePublication
<1> QED
  BY <1>8, <1>9, ServedStays DEF storeVars, ReleaseInv, StoreInv, Deployed, Known

LEMMA ServedNext == ReleaseInv /\ ServedInv /\ [ReleaseNext]_allVars => ServedInv'
<1> SUFFICES ASSUME ReleaseInv, ServedInv, [ReleaseNext]_allVars  PROVE ServedInv'  OBVIOUS
<1>1. CASE StoreStep /\ UNCHANGED releaseVars  BY <1>1, ServedStore
<1>2. ASSUME NEW p \in Policies, NEW who \in People, DeployAndPublish(p, who)
      PROVE  ServedInv'
  BY <1>2, ServedDeploy
<1>3. ASSUME NEW p \in Policies, NEW to \in {Off, Canary, Wide}, NEW who, NEW calm,
             StageAndWatch(p, to, who, calm)
      PROVE  ServedInv'
  BY <1>3, ServedStage
<1>4. CASE Day  BY <1>4, ServedDay
<1>5. ASSUME NEW d \in DOMAIN publications, NEW verdict \in {"CONFIRMED", "PARTIAL", "FAILED"},
             NEW failing \in BOOLEAN, ClosePublication(d, verdict, failing)
      PROVE  ServedInv'
  BY <1>5, ServedClose
<1>6. ASSUME UNCHANGED <<policies, lost, publications, aged, widened>>  PROVE ServedInv'
  BY <1>6, ServedStays DEF SamePublications, ReleaseInv, StoreInv, Deployed, Known
<1>7. ASSUME NEW kind, NEW d, NEW r, AskRollback(kind, d, r)  PROVE ServedInv'
  BY <1>6, <1>7 DEF AskRollback, storeVars
<1>8. ASSUME NEW i, NEW approve, DecideRollback(i, approve)  PROVE ServedInv'
  BY <1>6, <1>8 DEF DecideRollback, storeVars
<1>9. ASSUME NEW i, NEW who \in People, NEW fit, ExecuteRequest(i, who, fit)
      PROVE  ServedInv'
  BY <1>9, ServedExecute DEF ExecuteRequest, Actors
<1>10. ASSUME NEW plans, TroubleCode(plans)  PROVE ServedInv'
  BY <1>6, <1>10 DEF TroubleCode, storeVars
<1>11. ASSUME NEW i, NEW fit, AutoExecute(i, fit)  PROVE ServedInv'
  <2>1. CASE cases[i].status = "APPROVED"
    BY <1>11, <2>1, ServedExecute DEF AutoExecute, Actors
  <2>2. CASE cases[i].status # "APPROVED"
    BY <1>6, <1>11, <2>2 DEF AutoExecute, storeVars
  <2> QED  BY <2>1, <2>2
<1>12. CASE ReleaseCrash  BY <1>6, <1>12 DEF ReleaseCrash, StoreCrash
<1>13. CASE UNCHANGED allVars  BY <1>6, <1>13 DEF allVars, storeVars, releaseVars
<1> QED
  BY <1>1, <1>2, <1>3, <1>4, <1>5, <1>7, <1>8, <1>9, <1>10, <1>11, <1>12, <1>13
     DEF ReleaseNext

LEMMA ServedInit == ReleaseInit => ServedInv
<1> SUFFICES ASSUME ReleaseInit  PROVE ServedInv  OBVIOUS
<1>1. publications = << >> /\ policies = [p \in Policies |-> NoPolicy]
  BY DEF ReleaseInit, StoreInit
<1>2. Deployed = {}  BY <1>1 DEF Deployed, Known, NoPolicy
<1> QED  BY <1>1, <1>2 DEF ServedInv, ServedIsPublished, WatchGood

-----------------------------------------------------------------------------
(* Rollbacks *)

CaseRow ==
  [kind: {"PLAN", "REQUEST"}, deployment: Nat, recovery: Policies,
   status: {"REQUESTED", "APPROVED", "REJECTED", "DONE"}]
ExecutionRow == [of: Nat, artifact: Nat, status: {"RUNNING", "COMPLETED", "FAILED"}]

\* A rollback that published: for which deployment, and how far it is.
ExecutionGood(x) ==
  /\ executions[x].of \in DOMAIN cases
  /\ executions[x].artifact \in {0} \cup DOMAIN publications
  /\ executions[x].artifact # 0 =>
       /\ executions[x].artifact = cases[executions[x].of].deployment + 1
       /\ executions[x].status =
            CASE publications[executions[x].artifact].status = "OPEN" -> "RUNNING"
              [] publications[executions[x].artifact].status = "CONFIRMED" -> "COMPLETED"
              [] OTHER -> "FAILED"

RollbackInv ==
  /\ cases \in Seq(CaseRow)
  /\ \A i \in DOMAIN cases : cases[i].deployment \in DOMAIN publications
  /\ executions \in Seq(ExecutionRow)
  /\ \A x \in DOMAIN executions : ExecutionGood(x)
  /\ todo \subseteq DOMAIN cases /\ unheard \subseteq DOMAIN cases
  /\ TriggerHeard

\* Publications are added, and what is known of the earlier ones stays.
PublicationsGrow ==
  /\ DOMAIN publications \subseteq DOMAIN publications'
  /\ \A d \in DOMAIN publications :
       /\ publications'[d].status = publications[d].status
       /\ publications'[d].failing = publications[d].failing

LEMMA RollbackStays ==
  ASSUME RollbackInv, PublicationsGrow, UNCHANGED <<cases, executions>>,
         todo' \subseteq DOMAIN cases, unheard' \subseteq DOMAIN cases,
         todo \cup unheard \subseteq todo' \cup unheard'
  PROVE  RollbackInv'
<1>1. ASSUME NEW x \in DOMAIN executions  PROVE ExecutionGood(x)'
  <2>1. ExecutionGood(x)  BY DEF RollbackInv
  <2> QED  BY <2>1 DEF ExecutionGood, PublicationsGrow
<1>2. \A i \in DOMAIN cases : cases[i].deployment \in DOMAIN publications
  BY DEF RollbackInv
<1>3. TriggerHeard'
  <2> SUFFICES ASSUME NEW i \in DOMAIN cases, cases[i].kind = "PLAN",
                      cases[i].status = "APPROVED",
                      publications'[cases[i].deployment].failing
               PROVE  i \in todo' \cup unheard'
    BY DEF TriggerHeard
  <2>1. publications[cases[i].deployment].failing  BY <1>2 DEF PublicationsGrow
  <2>2. i \in todo \cup unheard  BY <2>1 DEF RollbackInv, TriggerHeard
  <2> QED  BY <2>2
<1> QED  BY <1>1, <1>2, <1>3 DEF RollbackInv, PublicationsGrow

LEMMA PublishedGrows ==
  ASSUME ReleaseInv, NEW p \in Known, NEW who \in Actors, NEW rollback \in BOOLEAN,
         Published(p, who, rollback)
  PROVE  /\ PublicationsGrow
         /\ Len(publications) \in Nat /\ DOMAIN publications = 1 .. Len(publications)
         /\ DOMAIN publications' = 1 .. Len(publications) + 1
         /\ publications'[Len(publications) + 1].status = "OPEN"
<1> DEFINE x == [policy |-> p, content |-> policies[p].content, by |-> who,
                 rollback |-> rollback, status |-> "OPEN", failing |-> FALSE]
<1>1. p \in Policies /\ policies[p] \in Row
  BY KnownRows DEF ReleaseInv, StoreInv
<1>2. policies[p].content \in Contents  BY <1>1 DEF Row
<1>3. x \in Pub /\ x.status = "OPEN"  BY <1>1, <1>2 DEF Pub
<1>4. publications \in Seq(Pub) /\ publications' = Append(publications, x)
  BY DEF ReleaseInv, Published
<1> HIDE DEF x
<1>5. /\ DOMAIN publications = 1 .. Len(publications) /\ Len(publications) \in Nat
      /\ DOMAIN publications' = 1 .. Len(publications) + 1
      /\ publications'[Len(publications) + 1] = x
      /\ \A d \in DOMAIN publications : publications'[d] = publications[d]
  BY <1>3, <1>4
<1> QED  BY <1>3, <1>5 DEF PublicationsGrow

\* The deployment a rollback is for is the last publication of all.
LEMMA LatestIsLast ==
  ASSUME ReleaseInv, ServedInv, NEW p \in Deployed
  PROVE  Latest(p) = Len(publications)
<1>1. publications # << >> /\ Last(publications).policy = p
  BY DEF ServedInv, ServedIsPublished
<1>2. publications \in Seq(Pub)  BY DEF ReleaseInv
<1>3. /\ Len(publications) \in Nat /\ Len(publications) >= 1
      /\ DOMAIN publications = 1 .. Len(publications)
  BY <1>1, <1>2
<1> DEFINE S == {0} \cup {d \in DOMAIN publications : publications[d].policy = p}
           n == Len(publications)
<1>4. n \in S /\ S \subseteq Nat /\ \A y \in S : n >= y
  BY <1>1, <1>3 DEF Last
<1>5. Latest(p) = CHOOSE x \in S : \A y \in S : x >= y  BY DEF Latest, Max
<1> HIDE DEF S
<1>6. Latest(p) \in S /\ \A y \in S : Latest(p) >= y  BY <1>4, <1>5
<1>7. Latest(p) >= n /\ n >= Latest(p) /\ Latest(p) \in Nat /\ n \in Nat  BY <1>4, <1>6
<1> QED  BY <1>7

LEMMA RollbackAsked ==
  ASSUME RollbackInv, NEW kind \in {"PLAN", "REQUEST"}, NEW d \in DOMAIN publications,
         NEW r \in Policies, publications \in Seq(Pub), AskRollback(kind, d, r)
  PROVE  RollbackInv'
<1> DEFINE c == [kind |-> kind, deployment |-> d, recovery |-> r, status |-> "REQUESTED"]
<1>1. c \in CaseRow /\ c.deployment = d /\ c.status = "REQUESTED"  BY DEF CaseRow
<1>2. /\ cases' = Append(cases, c)
      /\ UNCHANGED <<publications, executions, todo, unheard>>
  BY DEF AskRollback
<1> HIDE DEF c
<1>3. cases \in Seq(CaseRow)  BY DEF RollbackInv
<1>4. /\ cases' \in Seq(CaseRow)
      /\ DOMAIN cases' = DOMAIN cases \cup {Len(cases) + 1}
      /\ cases'[Len(cases) + 1] = c
      /\ \A i \in DOMAIN cases : cases'[i] = cases[i]
  BY <1>1, <1>2, <1>3
<1>5. ASSUME NEW x \in DOMAIN executions  PROVE ExecutionGood(x)'
  <2>1. ExecutionGood(x)  BY DEF RollbackInv
  <2> QED  BY <1>2, <1>4, <2>1 DEF ExecutionGood
<1>6. \A i \in DOMAIN cases' : cases'[i].deployment \in DOMAIN publications'
  BY <1>1, <1>2, <1>4 DEF RollbackInv
<1>7. TriggerHeard'
  <2> SUFFICES ASSUME NEW i \in DOMAIN cases', cases'[i].kind = "PLAN",
                      cases'[i].status = "APPROVED",
                      publications[cases'[i].deployment].failing
               PROVE  i \in todo \cup unheard
    BY <1>2 DEF TriggerHeard
  <2>1. i \in DOMAIN cases /\ cases'[i] = cases[i]  BY <1>1, <1>4
  <2> QED  BY <2>1 DEF RollbackInv, TriggerHeard
<1> QED  BY <1>2, <1>4, <1>5, <1>6, <1>7 DEF RollbackInv

\* A case changes its status, and nothing else of it.
LEMMA CaseMoved ==
  ASSUME cases \in Seq(CaseRow), NEW i \in DOMAIN cases,
         NEW s \in {"REQUESTED", "APPROVED", "REJECTED", "DONE"},
         cases' = [cases EXCEPT ![i].status = s]
  PROVE  /\ cases' \in Seq(CaseRow) /\ DOMAIN cases' = DOMAIN cases
         /\ cases'[i].status = s
         /\ \A j \in DOMAIN cases :
              /\ cases'[j].deployment = cases[j].deployment
              /\ cases'[j].kind = cases[j].kind
              /\ j # i => cases'[j] = cases[j]
<1> DEFINE c == [cases[i] EXCEPT !.status = s]
<1>1. cases[i] \in CaseRow  OBVIOUS
<1>2. /\ c \in CaseRow /\ c.status = s /\ c.deployment = cases[i].deployment
      /\ c.kind = cases[i].kind
  BY <1>1 DEF CaseRow
<1>3. cases' = [cases EXCEPT ![i] = c]  BY <1>1
<1> HIDE DEF c
<1>4. cases' \in Seq(CaseRow)  BY <1>2, <1>3, ExceptSeq
<1>5. /\ DOMAIN cases' = DOMAIN cases /\ cases'[i] = c
      /\ \A j \in DOMAIN cases : j # i => cases'[j] = cases[j]
  BY <1>3
<1> QED  BY <1>2, <1>4, <1>5

LEMMA RollbackDecided ==
  ASSUME RollbackInv, NEW i \in DOMAIN cases, NEW approve \in BOOLEAN,
         DecideRollback(i, approve)
  PROVE  RollbackInv'
<1> DEFINE s == IF approve THEN "APPROVED" ELSE "REJECTED"
<1>1. /\ cases' = [cases EXCEPT ![i].status = s]
      /\ UNCHANGED <<publications, executions, todo>>
      /\ unheard' = IF approve /\ publications[cases[i].deployment].failing
                    THEN unheard \cup {i} ELSE unheard
  BY DEF DecideRollback
<1>2. s \in {"REQUESTED", "APPROVED", "REJECTED", "DONE"} /\ (s = "APPROVED" => approve)
  OBVIOUS
<1> HIDE DEF s
<1>3. /\ cases' \in Seq(CaseRow) /\ DOMAIN cases' = DOMAIN cases
      /\ cases'[i].status = s
      /\ \A j \in DOMAIN cases :
           /\ cases'[j].deployment = cases[j].deployment
           /\ cases'[j].kind = cases[j].kind
           /\ j # i => cases'[j] = cases[j]
  BY <1>1, <1>2, CaseMoved DEF RollbackInv
<1>4. ASSUME NEW x \in DOMAIN executions  PROVE ExecutionGood(x)'
  <2>1. ExecutionGood(x)  BY DEF RollbackInv
  <2> QED  BY <1>1, <1>3, <2>1 DEF ExecutionGood
<1>5. TriggerHeard'
  <2> SUFFICES ASSUME NEW j \in DOMAIN cases, cases'[j].kind = "PLAN",
                      cases'[j].status = "APPROVED",
                      publications[cases[j].deployment].failing
               PROVE  j \in todo \cup unheard'
    BY <1>1, <1>3 DEF TriggerHeard
  <2>1. CASE j = i  BY <1>1, <1>2, <1>3, <2>1
  <2>2. CASE j # i
    <3>1. j \in todo \cup unheard  BY <1>3, <2>2 DEF RollbackInv, TriggerHeard
    <3> QED  BY <1>1, <3>1
  <2> QED  BY <2>1, <2>2
<1> QED  BY <1>1, <1>3, <1>4, <1>5 DEF RollbackInv

\* The verdict ends the rollback that made the publication, and wakes the plans.
LEMMA RollbackClosed ==
  ASSUME ReleaseInv, RollbackInv, todo = {}, NEW d \in DOMAIN publications,
         NEW verdict \in {"CONFIRMED", "PARTIAL", "FAILED"}, NEW failing \in BOOLEAN,
         ClosePublication(d, verdict, failing)
  PROVE  RollbackInv'
<1> DEFINE p == [publications[d] EXCEPT !.status = verdict, !.failing = failing]
           end == IF verdict = "CONFIRMED" THEN "COMPLETED" ELSE "FAILED"
           ends(x) == executions[x].artifact = d /\ executions[x].status = "RUNNING"
<1>1. publications \in Seq(Pub) /\ publications[d] \in Pub  BY DEF ReleaseInv
<1>2. p.status = verdict /\ p.failing = failing  BY <1>1 DEF Pub
<1>3. publications' = [publications EXCEPT ![d] = p]  BY <1>1 DEF ClosePublication
<1> HIDE DEF p
<1>4. /\ DOMAIN publications' = DOMAIN publications /\ publications'[d] = p
      /\ \A c \in DOMAIN publications : c # d => publications'[c] = publications[c]
  BY <1>1, <1>3
<1>5. /\ publications[d].status = "OPEN" /\ todo' = PlansFor(d, failing)
      /\ UNCHANGED <<cases, unheard>>
      /\ executions' = [x \in DOMAIN executions |->
           IF ends(x) THEN [executions[x] EXCEPT !.status = end] ELSE executions[x]]
  BY DEF ClosePublication, FinishExecution
<1>6. executions \in Seq(ExecutionRow) /\ DOMAIN executions = 1 .. Len(executions)
      /\ Len(executions) \in Nat
  BY DEF RollbackInv
<1>7. ASSUME NEW x \in DOMAIN executions
      PROVE  /\ executions'[x] \in ExecutionRow
             /\ executions'[x].of = executions[x].of
             /\ executions'[x].artifact = executions[x].artifact
             /\ executions'[x].status = IF ends(x) THEN end ELSE executions[x].status
  <2>1. executions[x] \in ExecutionRow  BY <1>6
  <2>2. executions'[x] = IF ends(x) THEN [executions[x] EXCEPT !.status = end] ELSE executions[x]
    BY <1>5
  <2> QED  BY <2>1, <2>2 DEF ExecutionRow
<1>8. DOMAIN executions' = 1 .. Len(executions)  BY <1>5, <1>6
<1>9. executions' \in Seq(ExecutionRow)
  <2>1. executions' = [x \in 1 .. Len(executions) |-> executions'[x]]  BY <1>5, <1>6
  <2>2. \A x \in 1 .. Len(executions) : executions'[x] \in ExecutionRow  BY <1>6, <1>7
  <2> QED  BY <1>6, <2>1, <2>2, IsASeq
<1>10. ASSUME NEW x \in DOMAIN executions  PROVE ExecutionGood(x)'
  <2>1. ExecutionGood(x)  BY DEF RollbackInv
  <2>2. CASE executions[x].artifact = d
    <3>1. ends(x)
      BY <1>1, <1>5, <1>6, <2>1, <2>2 DEF ExecutionGood
    <3> QED  BY <1>2, <1>4, <1>5, <1>7, <2>1, <3>1 DEF ExecutionGood
  <2>3. CASE executions[x].artifact # d
    BY <1>4, <1>5, <1>7, <2>1, <2>3 DEF ExecutionGood
  <2> QED  BY <2>2, <2>3
<1>11. TriggerHeard'
  <2> SUFFICES ASSUME NEW i \in DOMAIN cases, cases[i].kind = "PLAN",
                      cases[i].status = "APPROVED",
                      publications'[cases[i].deployment].failing
               PROVE  i \in PlansFor(d, failing) \cup unheard
    BY <1>5 DEF TriggerHeard
  <2>1. CASE cases[i].deployment = d  BY <1>2, <1>4, <2>1 DEF PlansFor
  <2>2. CASE cases[i].deployment # d
    BY <1>4, <2>2 DEF RollbackInv, TriggerHeard
  <2> QED  BY <2>1, <2>2
<1>12. PlansFor(d, failing) \subseteq DOMAIN cases  BY DEF PlansFor
<1> QED
  BY <1>4, <1>5, <1>6, <1>8, <1>9, <1>10, <1>11, <1>12 DEF RollbackInv

\* A rollback that ran: it published the very next deployment, or nothing.
LEMMA RollbackDone ==
  ASSUME RollbackInv, ReleaseInv, PublicationsGrow, NEW i \in DOMAIN cases, NEW a \in Nat,
         Executed(i, a), a # 0 => /\ a = cases[i].deployment + 1 /\ a \in DOMAIN publications'
                                  /\ publications'[a].status = "OPEN",
         todo' \subseteq DOMAIN cases, todo \subseteq todo' \cup {i}
  PROVE  RollbackInv'
<1> DEFINE e == [of |-> i, artifact |-> a, status |-> IF a = 0 THEN "FAILED" ELSE "RUNNING"]
           n == Len(executions) + 1
<1>1. /\ executions' = Append(executions, e) /\ unheard' = unheard
      /\ cases' = [cases EXCEPT ![i].status = "DONE"]
  BY DEF Executed
<1>2. cases \in Seq(CaseRow) /\ i \in Nat  BY DEF RollbackInv
<1>3. /\ e \in ExecutionRow /\ e.of = i /\ e.artifact = a
      /\ a # 0 => e.status = "RUNNING"
  BY <1>2 DEF ExecutionRow
<1> HIDE DEF e
<1>4. executions \in Seq(ExecutionRow)  BY DEF RollbackInv
<1>5. /\ executions' \in Seq(ExecutionRow)
      /\ DOMAIN executions' = DOMAIN executions \cup {n} /\ executions'[n] = e
      /\ \A x \in DOMAIN executions : executions'[x] = executions[x]
  BY <1>1, <1>3, <1>4
<1>6. /\ cases' \in Seq(CaseRow) /\ DOMAIN cases' = DOMAIN cases
      /\ cases'[i].status = "DONE"
      /\ \A j \in DOMAIN cases :
           /\ cases'[j].deployment = cases[j].deployment
           /\ cases'[j].kind = cases[j].kind
           /\ j # i => cases'[j] = cases[j]
  BY <1>1, <1>2, CaseMoved
<1>7. ASSUME NEW x \in DOMAIN executions'  PROVE ExecutionGood(x)'
  <2>1. CASE x \in DOMAIN executions
    <3>1. ExecutionGood(x)  BY <2>1 DEF RollbackInv
    <3>2. executions'[x] = executions[x]  BY <1>5, <2>1
    <3> QED  BY <1>6, <3>1, <3>2 DEF ExecutionGood, PublicationsGrow
  <2>2. CASE x = n  BY <1>3, <1>5, <1>6, <2>2 DEF ExecutionGood
  <2> QED  BY <1>5, <2>1, <2>2
<1>8. \A j \in DOMAIN cases : cases[j].deployment \in DOMAIN publications
  BY DEF RollbackInv
<1>9. TriggerHeard'
  <2> SUFFICES ASSUME NEW j \in DOMAIN cases, cases'[j].kind = "PLAN",
                      cases'[j].status = "APPROVED",
                      publications'[cases[j].deployment].failing
               PROVE  j \in todo' \cup unheard
    BY <1>1, <1>6 DEF TriggerHeard
  <2>1. j # i  BY <1>6
  <2>2. publications[cases[j].deployment].failing  BY <1>8 DEF PublicationsGrow
  <2>3. j \in todo \cup unheard  BY <1>6, <2>1, <2>2 DEF RollbackInv, TriggerHeard
  <2> QED  BY <2>1, <2>3
<1> QED
  BY <1>1, <1>5, <1>6, <1>7, <1>8, <1>9 DEF RollbackInv, PublicationsGrow

LEMMA RollbackRun ==
  ASSUME ReleaseInv, ServedInv, RollbackInv, NEW i \in DOMAIN cases, NEW who \in Actors,
         NEW fit, Execute(i, who, fit), todo' \subseteq DOMAIN cases,
         todo \subseteq todo' \cup {i}
  PROVE  RollbackInv'
<1> DEFINE d == cases[i].deployment
           r == cases[i].recovery
<1>0. publications \in Seq(Pub) /\ d \in DOMAIN publications
  BY DEF ReleaseInv, RollbackInv
<1>1. CASE Applicable(d, r, fit)
  <2>1. /\ publications[d].policy \in Deployed /\ d = Latest(publications[d].policy)
        /\ r \in Known
    BY <1>1 DEF Applicable, Recoverable
  <2>2. d = Len(publications)  BY <2>1, LatestIsLast
  <2>3. Published(r, who, TRUE) /\ Executed(i, Len(publications) + 1)
    BY <1>1 DEF Execute
  <2> HIDE DEF d, r
  <2>4. /\ PublicationsGrow /\ Len(publications) \in Nat
        /\ DOMAIN publications' = 1 .. Len(publications) + 1
        /\ publications'[Len(publications) + 1].status = "OPEN"
    BY <2>1, <2>3, PublishedGrows
  <2>5. Len(publications) + 1 \in DOMAIN publications' /\ Len(publications) + 1 \in Nat
    BY <2>4
  <2>6. Len(publications) + 1 = cases[i].deployment + 1  BY <2>2 DEF d
  <2> QED  BY <2>3, <2>4, <2>5, <2>6, RollbackDone
<1>2. CASE ~Applicable(d, r, fit)
  <2>1. UNCHANGED publications /\ Executed(i, 0)  BY <1>2 DEF Execute
  <2>2. PublicationsGrow  BY <2>1 DEF PublicationsGrow
  <2> QED  BY <2>1, <2>2, RollbackDone
<1> QED  BY <1>1, <1>2

LEMMA RollbackNext ==
  ReleaseInv /\ ServedInv /\ RollbackInv /\ [ReleaseNext]_allVars => RollbackInv'
<1> SUFFICES ASSUME ReleaseInv, ServedInv, RollbackInv, [ReleaseNext]_allVars
             PROVE  RollbackInv'
  OBVIOUS
<1>1. publications \in Seq(Pub) /\ todo \subseteq DOMAIN cases /\ unheard \subseteq DOMAIN cases
  BY DEF ReleaseInv, RollbackInv
<1>2. ASSUME UNCHANGED <<publications, cases, executions>>,
             todo' \subseteq DOMAIN cases, unheard' \subseteq DOMAIN cases,
             todo \cup unheard \subseteq todo' \cup unheard'
      PROVE  RollbackInv'
  <2>1. PublicationsGrow  BY <1>2 DEF PublicationsGrow
  <2> QED  BY <1>2, <2>1, RollbackStays
<1>3. ASSUME UNCHANGED <<publications, cases, executions, todo, unheard>>  PROVE RollbackInv'
  BY <1>1, <1>2, <1>3
<1>4. ASSUME NEW p \in Policies, NEW who \in People, DeployAndPublish(p, who)
      PROVE  RollbackInv'
  <2>1. /\ p \in Known /\ Published(p, who, FALSE)
        /\ UNCHANGED <<cases, executions, todo, unheard>>
    BY <1>4 DEF DeployAndPublish, Deploy
  <2>2. PublicationsGrow  BY <2>1, PublishedGrows DEF Actors
  <2> QED  BY <1>1, <2>1, <2>2, RollbackStays
<1>5. ASSUME NEW p, NEW to, NEW who, NEW calm, StageAndWatch(p, to, who, calm)
      PROVE  RollbackInv'
  BY <1>3, <1>5 DEF StageAndWatch
<1>6. CASE Day  BY <1>3, <1>6 DEF Day
<1>7. ASSUME todo = {}, NEW d \in DOMAIN publications,
             NEW verdict \in {"CONFIRMED", "PARTIAL", "FAILED"}, NEW failing \in BOOLEAN,
             ClosePublication(d, verdict, failing)
      PROVE  RollbackInv'
  BY <1>7, RollbackClosed
<1>8. ASSUME NEW kind \in {"PLAN", "REQUEST"}, NEW d \in DOMAIN publications,
             NEW r \in Policies, AskRollback(kind, d, r)
      PROVE  RollbackInv'
  BY <1>1, <1>8, RollbackAsked
<1>9. ASSUME NEW i \in DOMAIN cases, NEW approve \in BOOLEAN, DecideRollback(i, approve)
      PROVE  RollbackInv'
  BY <1>9, RollbackDecided
<1>10. ASSUME NEW i \in DOMAIN cases, NEW who \in People, NEW fit, ExecuteRequest(i, who, fit)
       PROVE  RollbackInv'
  BY <1>1, <1>10, RollbackRun DEF ExecuteRequest, Actors
<1>11. ASSUME todo = {}, NEW plans \in SUBSET DOMAIN cases, TroubleCode(plans)
       PROVE  RollbackInv'
  BY <1>1, <1>2, <1>11 DEF TroubleCode
<1>12. ASSUME NEW i \in todo, NEW fit, AutoExecute(i, fit)  PROVE RollbackInv'
  <2>1. i \in DOMAIN cases /\ todo' = todo \ {i}  BY <1>1, <1>12 DEF AutoExecute
  <2>2. CASE cases[i].status = "APPROVED"
    BY <1>1, <1>12, <2>1, <2>2, RollbackRun DEF AutoExecute, Actors
  <2>3. CASE cases[i].status # "APPROVED"
    <3>1. UNCHANGED <<publications, cases, executions, unheard>>
      BY <1>12, <2>3 DEF AutoExecute
    <3>2. PublicationsGrow /\ todo' \subseteq DOMAIN cases
      BY <1>1, <2>1, <3>1 DEF PublicationsGrow
    <3>3. ASSUME NEW x \in DOMAIN executions  PROVE ExecutionGood(x)'
      <4>1. ExecutionGood(x)  BY DEF RollbackInv
      <4> QED  BY <3>1, <4>1 DEF ExecutionGood
    <3>4. TriggerHeard'  BY <2>1, <2>3, <3>1 DEF RollbackInv, TriggerHeard
    <3> QED  BY <3>1, <3>2, <3>3, <3>4 DEF RollbackInv
  <2> QED  BY <2>2, <2>3
<1>13. CASE ReleaseCrash  BY <1>1, <1>2, <1>13 DEF ReleaseCrash
<1>14. CASE StoreStep /\ UNCHANGED releaseVars  BY <1>3, <1>14 DEF releaseVars
<1>15. CASE UNCHANGED allVars  BY <1>3, <1>15 DEF allVars, releaseVars
<1> QED
  BY <1>4, <1>5, <1>6, <1>7, <1>8, <1>9, <1>10, <1>11, <1>12, <1>13, <1>14, <1>15
     DEF ReleaseNext

LEMMA CrashesCounted ==
  crashes \in 0 .. MaxCrashes /\ [ReleaseNext]_allVars => crashes' \in 0 .. MaxCrashes
<1> SUFFICES ASSUME crashes \in 0 .. MaxCrashes, [ReleaseNext]_allVars
             PROVE  crashes' \in 0 .. MaxCrashes
  OBVIOUS
<1>1. CASE crashes' = crashes  BY <1>1
<1>2. CASE ReleaseCrash  BY <1>2, ReleaseConstants DEF ReleaseCrash
<1>3. ASSUME NEW i, NEW who, NEW fit, Execute(i, who, fit)  PROVE crashes' = crashes
  BY <1>3 DEF Execute, Executed
<1>4. CASE ReleaseNext /\ ~ReleaseCrash
  <2>1. crashes' = crashes
    BY <1>3, <1>4
       DEF ReleaseNext, releaseVars, DeployAndPublish, StageAndWatch, Day, ClosePublication,
           AskRollback, DecideRollback, ExecuteRequest, TroubleCode, AutoExecute
  <2> QED  BY <1>1, <2>1
<1> QED  BY <1>1, <1>2, <1>4 DEF allVars, releaseVars

LEMMA RollbackInit == ReleaseInit => RollbackInv
<1> SUFFICES ASSUME ReleaseInit  PROVE RollbackInv  OBVIOUS
<1>1. cases = << >> /\ executions = << >> /\ todo = {} /\ unheard = {}
  BY DEF ReleaseInit
<1>2. << >> \in Seq(CaseRow) /\ << >> \in Seq(ExecutionRow)  OBVIOUS
<1>3. DOMAIN cases = {} /\ DOMAIN executions = {}  BY <1>1
<1> QED  BY <1>1, <1>2, <1>3 DEF RollbackInv, TriggerHeard

-----------------------------------------------------------------------------
(* Theorems *)

\* Rows, publications, plans, requests and executions keep their shape, and refer to
\* what is there.
THEOREM ReleaseTyped == ReleaseSpec => []ReleaseTypeOK
<1> DEFINE Counted == crashes \in 0 .. MaxCrashes
<1>1. ReleaseInit => ReleaseInv /\ ServedInv /\ RollbackInv /\ Counted
  BY ReleaseInvInit, ServedInit, RollbackInit, ReleaseConstants DEF ReleaseInit
<1>2. ReleaseInv /\ ServedInv /\ RollbackInv /\ Counted /\ [ReleaseNext]_allVars
        => ReleaseInv' /\ ServedInv' /\ RollbackInv' /\ Counted'
  BY ReleaseInvNext, ServedNext, RollbackNext, CrashesCounted
<1>3. ReleaseInv /\ RollbackInv /\ Counted => ReleaseTypeOK
  <2> SUFFICES ASSUME ReleaseInv, RollbackInv, Counted  PROVE ReleaseTypeOK  OBVIOUS
  <2>1. \A d \in DOMAIN publications :
          /\ publications[d].policy \in Known
          /\ publications[d].status \in {"OPEN", "CONFIRMED", "PARTIAL", "FAILED"}
    <3> TAKE d \in DOMAIN publications
    <3>1. publications[d] \in Pub  BY DEF ReleaseInv
    <3> QED  BY <3>1 DEF ReleaseInv, PublicationsGood, Pub
  <2>2. \A i \in DOMAIN cases : cases[i] \in CaseRow  BY DEF RollbackInv
  <2>3. \A x \in DOMAIN executions : executions[x] \in ExecutionRow  BY DEF RollbackInv
  <2> QED
    BY <2>1, <2>2, <2>3
       DEF ReleaseTypeOK, ReleaseInv, StoreInv, RollbackInv, ExecutionGood, CaseRow, ExecutionRow
<1> HIDE DEF Counted
<1> QED  BY <1>1, <1>2, <1>3, PTL DEF ReleaseSpec

\* The row of a policy carries the content its revision recorded, also after a late
\* validation has written back an older row (PolicyService.validate).
THEOREM RowsStayRecorded == ReleaseSpec => []RowIsItsRevision
<1>1. ReleaseInit => ReleaseInv  BY ReleaseInvInit
<1>2. ReleaseInv /\ [ReleaseNext]_allVars => ReleaseInv'  BY ReleaseInvNext
<1>3. ReleaseInv => RowIsItsRevision
  BY DEF ReleaseInv, StoreInv, RowsGood, RowGood, Recorded, RowIsItsRevision
<1> QED  BY <1>1, <1>2, <1>3, PTL DEF ReleaseSpec

\* Whatever deployment or rollback publishes was judged GO and approved, with that
\* content, by someone other than its creator, for any interleaving of edits, late
\* validations, deployments, rollbacks and crashes (DeploySafetyService.approvable).
THEOREM OnlyJudgedIsPublished == ReleaseSpec => []PublishedWasJudged
<1>1. ReleaseInit => ReleaseInv  BY ReleaseInvInit
<1>2. ReleaseInv /\ [ReleaseNext]_allVars => ReleaseInv'  BY ReleaseInvNext
<1>3. ReleaseInv => PublishedWasJudged
  BY DEF ReleaseInv, PublicationsGood, Judged, PublishedWasJudged
<1> QED  BY <1>1, <1>2, <1>3, PTL DEF ReleaseSpec

\* After any deployment or rollback the server evaluates the policy the vehicles were
\* sent last, with the content they were sent, unless a validation that began before
\* the deployment has since been written back (PolicyService.validate).
THEOREM ServedAlways == ReleaseSpec => []ServedIsPublished
<1>1. ReleaseInit => ReleaseInv /\ ServedInv  BY ReleaseInvInit, ServedInit
<1>2. ReleaseInv /\ ServedInv /\ [ReleaseNext]_allVars => ReleaseInv' /\ ServedInv'
  BY ReleaseInvNext, ServedNext
<1>3. ServedInv => ServedIsPublished  BY DEF ServedInv
<1> QED  BY <1>1, <1>2, <1>3, PTL DEF ReleaseSpec

\* Vehicles beyond the canary get a policy only after CANARY_OBSERVE_MS and by someone
\* other than its deployer, or by a rollback (judgeStageChange, RollbackService.execute).
THEOREM WideAfterWatch == ReleaseSpec => []WideOnlyAfterWatch
<1>1. ReleaseInit => ReleaseInv /\ ServedInv  BY ReleaseInvInit, ServedInit
<1>2. ReleaseInv /\ ServedInv /\ [ReleaseNext]_allVars => ReleaseInv' /\ ServedInv'
  BY ReleaseInvNext, ServedNext
<1>3. ServedInv => WideOnlyAfterWatch  BY DEF ServedInv, WatchGood, WideOnlyAfterWatch
<1> QED  BY <1>1, <1>2, <1>3, PTL DEF ReleaseSpec

\* A rollback is judged against what is deployed when it runs, so it replaces exactly
\* the deployment it was asked for, however long it waited and whatever else was
\* deployed, rolled back or restarted meanwhile (RollbackService.assess, execute).
THEOREM RollbackOfTheLast == ReleaseSpec => []RollsBackTheLast
<1>1. ReleaseInit => ReleaseInv /\ ServedInv /\ RollbackInv
  BY ReleaseInvInit, ServedInit, RollbackInit
<1>2. ReleaseInv /\ ServedInv /\ RollbackInv /\ [ReleaseNext]_allVars
        => ReleaseInv' /\ ServedInv' /\ RollbackInv'
  BY ReleaseInvNext, ServedNext, RollbackNext
<1>3. RollbackInv => RollsBackTheLast  BY DEF RollbackInv, ExecutionGood, RollsBackTheLast
<1> QED  BY <1>1, <1>2, <1>3, PTL DEF ReleaseSpec

\* The execution of a rollback always says what became of its publication
\* (RollbackService.finish).
THEOREM ExecutionAlwaysMatches == ReleaseSpec => []ExecutionMatchesArtifact
<1>1. ReleaseInit => ReleaseInv /\ ServedInv /\ RollbackInv
  BY ReleaseInvInit, ServedInit, RollbackInit
<1>2. ReleaseInv /\ ServedInv /\ RollbackInv /\ [ReleaseNext]_allVars
        => ReleaseInv' /\ ServedInv' /\ RollbackInv'
  BY ReleaseInvNext, ServedNext, RollbackNext
<1>3. RollbackInv => ExecutionMatchesArtifact
  BY DEF RollbackInv, ExecutionGood, ExecutionMatchesArtifact
<1> QED  BY <1>1, <1>2, <1>3, PTL DEF ReleaseSpec

\* No approved plan waits for a verdict that has come, but for a late approval and a
\* crash between the verdict and the rollback (RollbackService.onEvent).
THEOREM TriggerAlwaysHeard == ReleaseSpec => []TriggerHeard
<1>1. ReleaseInit => ReleaseInv /\ ServedInv /\ RollbackInv
  BY ReleaseInvInit, ServedInit, RollbackInit
<1>2. ReleaseInv /\ ServedInv /\ RollbackInv /\ [ReleaseNext]_allVars
        => ReleaseInv' /\ ServedInv' /\ RollbackInv'
  BY ReleaseInvNext, ServedNext, RollbackNext
<1>3. RollbackInv => TriggerHeard  BY DEF RollbackInv
<1> QED  BY <1>1, <1>2, <1>3, PTL DEF ReleaseSpec
=============================================================================
