-------------------------- MODULE KillSwitchProofs --------------------------
(***************************************************************************)
(* Theorems about KillSwitch for every set of features, vehicles, people   *)
(* and profiles, and any bounds.                                           *)
(***************************************************************************)
EXTENDS KillSwitch, SequenceTheorems, FiniteSetTheorems, TLAPS

-----------------------------------------------------------------------------
(* Tables *)

\* Replacing a row of a table by a row keeps the table, its length and the others.
LEMMA RowReplaced ==
  ASSUME NEW S, NEW s \in Seq(S), NEW k \in DOMAIN s, NEW e \in S
  PROVE  /\ [s EXCEPT ![k] = e] \in Seq(S)
         /\ DOMAIN [s EXCEPT ![k] = e] = DOMAIN s
         /\ [s EXCEPT ![k] = e][k] = e
         /\ \A l \in DOMAIN s : l # k => [s EXCEPT ![k] = e][l] = s[l]
<1>1. k \in 1 .. Len(s)  OBVIOUS
<1>2. [s EXCEPT ![k] = e] \in Seq(S)  BY <1>1, ExceptSeq
<1> QED  BY <1>2

\* Adding a row at the end leaves the others where they are.
LEMMA RowAdded ==
  ASSUME NEW S, NEW s \in Seq(S), NEW e \in S
  PROVE  /\ Append(s, e) \in Seq(S)
         /\ DOMAIN Append(s, e) = DOMAIN s \cup {Len(s) + 1}
         /\ \A l \in DOMAIN s : Append(s, e)[l] = s[l]
         /\ Append(s, e)[Len(s) + 1] = e
         /\ Len(s) + 1 \notin DOMAIN s
  OBVIOUS

\* One more signature keeps the list of approvals typed.
LEMMA ApprovalsGrow ==
  ASSUME NEW approvals \in Seq(Approval), NEW u \in Users, NEW r \in Roles
  PROVE  Append(approvals, [by |-> u, role |-> r]) \in Seq(Approval)
  BY DEF Approval

-----------------------------------------------------------------------------
(* Type correctness *)

\* The empty tables have the right shape.
LEMMA TypeInit == ASSUME ConstantsOK, Init PROVE TypeOK
<1>1. << >> \in Seq(Kill) /\ << >> \in Seq(Command)  OBVIOUS
<1> QED  BY <1>1 DEF ConstantsOK, Init, TypeOK

\* Storing a new request keeps the shape of the tables.
LEMMA TypeIssue ==
  ASSUME ConstantsOK, TypeOK,
         NEW u \in Users \cup {System}, NEW f \in Features, NEW vins \in SUBSET Vehicles,
         NEW category \in ReasonCategories, NEW basis \in BOOLEAN,
         Issue(u, f, vins, category, basis)
  PROVE  TypeOK'
<1> DEFINE k == [feature |-> f, vins |-> vins, category |-> category, basis |-> basis,
         requestedBy |-> u, fClass |-> registry[f].profile.fClass, status |-> "REQUESTED",
         approvals |-> << >>, expiresAt |-> now + ApprovalTTL,
         restore |-> NoRestore]
<1>1. registry[f].profile.fClass \in FClasses
  BY DEF ConstantsOK, TypeOK, Profile
<1>2. << >> \in Seq(Approval)  OBVIOUS
<1>3. now + ApprovalTTL \in Nat  BY DEF ConstantsOK, TypeOK
<1>4. NoRestore \in [status : RestoreStatuses, requestedBy : Users \cup {None},
                     approvals : Seq(Approval)]
  BY <1>2 DEF NoRestore, RestoreStatuses
<1>5. k \in Kill  BY <1>1, <1>2, <1>3, <1>4 DEF Kill, KillStatuses
<1>6. kills' = Append(kills, k)  BY DEF Issue
<1>7. kills' \in Seq(Kill)  BY <1>5, <1>6, RowAdded DEF TypeOK
<1> QED  BY <1>7 DEF TypeOK, Issue

\* Kill k keeps its type when its status, its approvals or its restore change.
LEMMA KillKeepsType ==
  ASSUME NEW kill \in Kill
  PROVE  /\ \A s \in KillStatuses : [kill EXCEPT !.status = s] \in Kill
         /\ \A ap \in Seq(Approval) : [kill EXCEPT !.approvals = ap] \in Kill
         /\ \A s \in KillStatuses, ap \in Seq(Approval) :
              [kill EXCEPT !.approvals = ap, !.status = s] \in Kill
         /\ \A re \in [status : RestoreStatuses, requestedBy : Users \cup {None},
                        approvals : Seq(Approval)] :
              /\ [kill EXCEPT !.restore = re] \in Kill
              /\ \A s \in KillStatuses : [kill EXCEPT !.status = s, !.restore = re] \in Kill
  BY DEF Kill

\* A command built from a typed table is typed.
LEMMA CommandType ==
  ASSUME ConstantsOK, TypeOK, NEW k \in DOMAIN kills,
         NEW request \in {"deactivate", "restore"}, NEW approvals \in Seq(Approval)
  PROVE  BuildCommand(k, request, approvals) \in Command
<1>1. kills[k] \in Kill /\ k \in Nat  BY ElementOfSeq, LenProperties DEF TypeOK
<1>2. kills[k].feature \in Features  BY <1>1 DEF Kill
<1>3. registry[kills[k].feature].profile.fClass \in FClasses
  BY <1>2 DEF ConstantsOK, TypeOK, Profile
<1>4. ledger[kills[k].feature].lastSeq + 1 \in Nat  BY <1>2 DEF TypeOK
<1>5. now \in Nat  BY DEF TypeOK
<1> QED  BY <1>1, <1>2, <1>3, <1>4, <1>5 DEF BuildCommand, Kill, Command

\* Issuing a typed command keeps the ledger and the commands typed.
LEMMA IssueCommandType ==
  ASSUME TypeOK, NEW cmd \in Command, ApproverIds(cmd.approvals) \subseteq Users,
         IssueCommand(cmd)
  PROVE  /\ ledger' \in [Features -> [lastSeq : Nat, lastKillApprovers : SUBSET Users]]
         /\ commands' \in Seq(Command)
<1>1. commands' \in Seq(Command)  BY RowAdded DEF TypeOK, IssueCommand
<1>2. cmd.feature \in Features /\ cmd.seq \in Nat  BY DEF Command
<1>3. ledger' \in [Features -> [lastSeq : Nat, lastKillApprovers : SUBSET Users]]
  BY <1>2 DEF TypeOK, IssueCommand
<1> QED  BY <1>1, <1>3

\* Only people stand under a list of approvals.
LEMMA ApproversAreUsers ==
  ASSUME NEW approvals \in Seq(Approval)
  PROVE  ApproverIds(approvals) \subseteq Users
<1>1. \A i \in DOMAIN approvals : approvals[i] \in Approval  BY ElementOfSeq, LenProperties
<1> QED  BY <1>1 DEF ApproverIds, Approval

\* An approval, with its gate judgement and command, keeps the shape of the tables.
LEMMA TypeApprove ==
  ASSUME ConstantsOK, TypeOK, NEW u \in Users, NEW r \in Roles, NEW k \in DOMAIN kills,
         Approve(u, r, k)
  PROVE  TypeOK'
<1> DEFINE approvals == Append(kills[k].approvals, [by |-> u, role |-> r])
           cmd == BuildCommand(k, "deactivate", approvals)
<1>1. kills[k] \in Kill  BY ElementOfSeq, LenProperties DEF TypeOK
<1>2. approvals \in Seq(Approval)  BY <1>1, ApprovalsGrow DEF Kill
<1>3. registry' = registry /\ now' = now  BY DEF Approve
<1> HIDE DEF approvals
<1>4. \/ /\ kills' = [kills EXCEPT ![k].approvals = approvals]
         /\ ledger' = ledger /\ commands' = commands
      \/ /\ kills' = [kills EXCEPT ![k] = [@ EXCEPT !.approvals = approvals, !.status = "ACTIVE"]]
         /\ IssueCommand(cmd)
      \/ /\ kills' = [kills EXCEPT ![k] = [@ EXCEPT !.approvals = approvals, !.status = "REJECTED"]]
         /\ ledger' = ledger /\ commands' = commands
  BY DEF Approve, approvals
<1>5. kills' \in Seq(Kill)
  <2>1. \E e \in Kill : kills' = [kills EXCEPT ![k] = e]
    BY <1>1, <1>2, <1>4, KillKeepsType DEF KillStatuses
  <2> QED  BY <2>1, RowReplaced DEF TypeOK
<1>6. /\ ledger' \in [Features -> [lastSeq : Nat, lastKillApprovers : SUBSET Users]]
      /\ commands' \in Seq(Command)
  <2>1. cmd \in Command  BY <1>2, CommandType
  <2>2. cmd.approvals = approvals  BY DEF BuildCommand
  <2>3. CASE IssueCommand(cmd)
    BY <1>2, <2>1, <2>2, <2>3, IssueCommandType, ApproversAreUsers
  <2>4. CASE ledger' = ledger /\ commands' = commands  BY <2>4 DEF TypeOK
  <2> QED  BY <1>4, <2>3, <2>4
<1> QED  BY <1>3, <1>5, <1>6 DEF TypeOK

RestoreRow == [status : RestoreStatuses, requestedBy : Users \cup {None},
               approvals : Seq(Approval)]

\* The same for an approval of a restore.
LEMMA TypeApproveRestore ==
  ASSUME ConstantsOK, TypeOK, NEW u \in Users, NEW r \in Roles, NEW k \in DOMAIN kills,
         ApproveRestore(u, r, k)
  PROVE  TypeOK'
<1> DEFINE approvals == Append(kills[k].restore.approvals, [by |-> u, role |-> r])
           restore == [kills[k].restore EXCEPT !.approvals = approvals]
           cmd == BuildCommand(k, "restore", approvals)
<1>1. kills[k] \in Kill  BY ElementOfSeq, LenProperties DEF TypeOK
<1>2. approvals \in Seq(Approval)  BY <1>1, ApprovalsGrow DEF Kill
<1>3. registry' = registry /\ now' = now  BY DEF ApproveRestore
<1> HIDE DEF approvals
<1>4. restore \in RestoreRow  BY <1>1, <1>2 DEF Kill, RestoreRow
<1>5. /\ [restore EXCEPT !.status = "APPROVED"] \in RestoreRow
      /\ [restore EXCEPT !.status = "REJECTED"] \in RestoreRow
  BY <1>4 DEF RestoreRow, RestoreStatuses
<1>6. \/ /\ kills' = [kills EXCEPT ![k].restore = restore]
         /\ ledger' = ledger /\ commands' = commands
      \/ /\ kills' = [kills EXCEPT ![k] =
              [@ EXCEPT !.status = "RELEASED", !.restore = [restore EXCEPT !.status = "APPROVED"]]]
         /\ IssueCommand(cmd)
      \/ /\ kills' = [kills EXCEPT ![k].restore = [restore EXCEPT !.status = "REJECTED"]]
         /\ ledger' = ledger /\ commands' = commands
  BY DEF ApproveRestore, approvals
<1>7. /\ ledger' \in [Features -> [lastSeq : Nat, lastKillApprovers : SUBSET Users]]
      /\ commands' \in Seq(Command)
  <2>1. cmd \in Command  BY <1>2, CommandType
  <2>2. cmd.approvals = approvals  BY DEF BuildCommand
  <2>3. CASE IssueCommand(cmd)
    BY <1>2, <2>1, <2>2, <2>3, IssueCommandType, ApproversAreUsers
  <2>4. CASE ledger' = ledger /\ commands' = commands  BY <2>4 DEF TypeOK
  <2> QED  BY <1>6, <2>3, <2>4
<1> HIDE DEF restore, cmd
<1>8. \E e \in Kill : kills' = [kills EXCEPT ![k] = e]
  BY <1>1, <1>4, <1>5, <1>6, KillKeepsType DEF KillStatuses, RestoreRow
<1>9. kills' \in Seq(Kill)  BY <1>8, RowReplaced DEF TypeOK
<1> QED  BY <1>3, <1>7, <1>9 DEF TypeOK

\* The steps that only turn the status of one kill or of its restore.
LEMMA TypeOneRow ==
  ASSUME TypeOK, NEW k \in DOMAIN kills,
         Reject(k) \/ RejectRestore(k) \/ \E u \in Users : RequestRestore(u, k)
  PROVE  TypeOK'
<1>1. kills[k] \in Kill  BY ElementOfSeq, LenProperties DEF TypeOK
<1>2. UNCHANGED <<registry, ledger, commands, now>>
  BY DEF Reject, RequestRestore, RejectRestore
<1>3. kills[k].restore \in RestoreRow  BY <1>1 DEF Kill, RestoreRow
<1>4. \/ kills' = [kills EXCEPT ![k].status = "REJECTED"]
      \/ \E u \in Users : kills' = [kills EXCEPT ![k].restore =
                     [status |-> "REQUESTED", requestedBy |-> u, approvals |-> << >>]]
      \/ kills' = [kills EXCEPT ![k].restore.status = "REJECTED"]
  BY DEF Reject, RequestRestore, RejectRestore
<1>5. \A u \in Users :
        [status |-> "REQUESTED", requestedBy |-> u, approvals |-> << >>] \in RestoreRow
  BY DEF RestoreRow, RestoreStatuses
<1>6. [kills[k].restore EXCEPT !.status = "REJECTED"] \in RestoreRow
  BY <1>3 DEF RestoreRow, RestoreStatuses
<1>7. \E e \in Kill : kills' = [kills EXCEPT ![k] = e]
  BY <1>1, <1>4, <1>5, <1>6, KillKeepsType DEF KillStatuses, RestoreRow
<1>8. kills' \in Seq(Kill)  BY <1>7, RowReplaced DEF TypeOK
<1> QED  BY <1>2, <1>8 DEF TypeOK

\* No handler breaks the shape of the tables.
LEMMA TypeNext == ASSUME ConstantsOK, TypeOK, [Next]_vars PROVE TypeOK'
<1>1. ASSUME NEW u \in Users, NEW f \in Features, NEW vins \in SUBSET Vehicles,
             NEW category \in Categories, NEW basis \in BOOLEAN,
             RequestKill(u, f, vins, category, basis)
      PROVE  TypeOK'
  BY <1>1, TypeIssue DEF RequestKill, ConstantsOK
<1>2. ASSUME NEW f \in Features, NEW v \in Vehicles, TrialExpired(f, v)  PROVE  TypeOK'
  BY <1>2, TypeIssue DEF TrialExpired, ReasonCategories
<1>3. ASSUME NEW u \in Users, NEW r \in Roles, NEW k \in DOMAIN kills, Approve(u, r, k)
      PROVE  TypeOK'
  BY <1>3, TypeApprove
<1>4. ASSUME NEW u \in Users, NEW r \in Roles, NEW k \in DOMAIN kills, ApproveRestore(u, r, k)
      PROVE  TypeOK'
  BY <1>4, TypeApproveRestore
<1>5. ASSUME NEW u \in Users, NEW k \in DOMAIN kills, RequestRestore(u, k)  PROVE  TypeOK'
  BY <1>5, TypeOneRow
<1>6. ASSUME NEW k \in DOMAIN kills, Reject(k) \/ RejectRestore(k)  PROVE  TypeOK'
  BY <1>6, TypeOneRow
<1>7. ASSUME NEW f \in Features, NEW to \in LifecycleStates, Transition(f, to)  PROVE  TypeOK'
  BY <1>7 DEF TypeOK, Transition
<1>8. ASSUME NEW f \in Features, NEW p \in Profiles, UpdateProfile(f, p)  PROVE  TypeOK'
  BY <1>8 DEF TypeOK, UpdateProfile
<1>9. ASSUME NEW f \in Features, ConfirmProfile(f)  PROVE  TypeOK'
  BY <1>9 DEF TypeOK, ConfirmProfile
<1>10. CASE Tick  BY <1>10 DEF TypeOK, Tick
<1>11. CASE UNCHANGED vars  BY <1>11 DEF TypeOK, vars
<1> QED
  BY <1>1, <1>2, <1>3, <1>4, <1>5, <1>6, <1>7, <1>8, <1>9, <1>10, <1>11 DEF Next

\* The tables keep their shape for ever: in particular no status outside the four
\* that are stored, and no approver who is not a user.
THEOREM TypeCorrect == Spec => []TypeOK
<1>1. Init => TypeOK  BY ConstantsOK, TypeInit
<1>2. TypeOK /\ [Next]_vars => TypeOK'  BY ConstantsOK, TypeNext
<1> QED  BY <1>1, <1>2, PTL DEF Spec

-----------------------------------------------------------------------------
(* The two-person rule, and the approval deadline *)

\* Signatures on one request: at most two, of different people, none of them asker's.
SignedBy(approvals, asker) ==
  /\ Len(approvals) <= 2
  /\ Len(approvals) = 2 => approvals[1].by # approvals[2].by
  /\ asker \notin ApproverIds(approvals)

KillsSigned ==
  \A k \in DOMAIN kills :
    /\ SignedBy(kills[k].approvals, kills[k].requestedBy)
    /\ SignedBy(kills[k].restore.approvals, kills[k].restore.requestedBy)

\* What holds of an issued command c: it belongs to a kill, and a restore ends it,
\* so that no later request for a restore replaces the requester c is judged by;
\* c has its signatures and was issued in time.
CommandGood(c) ==
  /\ c.kill \in DOMAIN kills
  /\ c.request = "restore" => kills[c.kill].status = "RELEASED"
  /\ Len(c.approvals) = 2
  /\ c.approvals[1].by # c.approvals[2].by
  /\ Requester(c) \notin ApproverIds(c.approvals)
  /\ FsmRequired(c.fClass, c.category) => "FSM" \in ApproverRolesOf(c.approvals)
  /\ c.request = "deactivate" => c.at < kills[c.kill].expiresAt

CommandsGood == \A i \in DOMAIN commands : CommandGood(commands[i])

SignedInv == TypeOK /\ KillsSigned /\ CommandsGood

\* The arithmetic of at most two signatures.
LEMMA BelowTwo == \A n \in Nat : n < 2 => (n = 0 \/ n = 1) /\ n + 1 <= 2
  OBVIOUS

\* One more signature by someone MayApprove lets sign.
LEMMA OneMoreSignature ==
  ASSUME NEW approvals \in Seq(Approval), NEW asker, NEW u \in Users, NEW r \in Roles,
         NEW fsm, NEW excluded,
         SignedBy(approvals, asker), MayApprove(u, r, asker, approvals, fsm, excluded)
  PROVE  LET more == Append(approvals, [by |-> u, role |-> r]) IN
         /\ more \in Seq(Approval)
         /\ SignedBy(more, asker)
<1> DEFINE more == Append(approvals, [by |-> u, role |-> r])
<1>1. more \in Seq(Approval)  BY ApprovalsGrow
<1>2. (Len(approvals) = 0 \/ Len(approvals) = 1) /\ Len(approvals) + 1 <= 2
  <2>1. Len(approvals) \in Nat  BY LenProperties
  <2>2. Len(approvals) < 2  BY Zenon DEF MayApprove
  <2> QED  BY <2>1, <2>2, BelowTwo, Zenon
<1>3. Len(more) = Len(approvals) + 1 /\ DOMAIN more = DOMAIN approvals \cup {Len(approvals) + 1}
  OBVIOUS
<1>4. /\ \A i \in DOMAIN approvals : more[i] = approvals[i]
      /\ more[Len(approvals) + 1] = [by |-> u, role |-> r]
  OBVIOUS
<1>5. ApproverIds(more) = ApproverIds(approvals) \cup {u}
  BY <1>3, <1>4 DEF ApproverIds
<1>6. asker \notin ApproverIds(more)  BY <1>5 DEF SignedBy, MayApprove
<1>7. ASSUME Len(more) = 2  PROVE  more[1].by # more[2].by
  <2>1. Len(approvals) = 1  BY <1>2, <1>3, <1>7
  <2>2. more[1] = approvals[1] /\ more[2].by = u  BY <2>1, <1>4
  <2>3. approvals[1].by \in ApproverIds(approvals)  BY <2>1 DEF ApproverIds
  <2> QED  BY <2>2, <2>3 DEF MayApprove
<1>8. Len(more) <= 2  BY <1>2, <1>3, Zenon
<1> QED  BY <1>1, <1>6, <1>7, <1>8 DEF SignedBy

\* What no step changes of kill k: who asked, the deadline, and, once it is
\* released, its status and who asked for the restore.
KillFrame(k) ==
  /\ k \in DOMAIN kills'
  /\ kills'[k].requestedBy = kills[k].requestedBy
  /\ kills'[k].expiresAt = kills[k].expiresAt
  /\ kills[k].status = "RELEASED" =>
       /\ kills'[k].status = "RELEASED"
       /\ kills'[k].restore.requestedBy = kills[k].restore.requestedBy

\* A command already issued stays good while its request keeps its asker and approvals.
LEMMA CommandStaysGood ==
  ASSUME NEW c \in Command, CommandGood(c), KillFrame(c.kill)
  PROVE  CommandGood(c)'
<1>1. c.request = "deactivate" \/ c.request = "restore"  BY DEF Command
<1>2. Requester(c)' = Requester(c)  BY <1>1 DEF Requester, KillFrame, CommandGood
<1>3. CASE c.request = "deactivate"  BY <1>2, <1>3 DEF CommandGood, KillFrame
<1>4. CASE c.request = "restore"  BY <1>2, <1>4 DEF CommandGood, KillFrame
<1> QED  BY <1>1, <1>3, <1>4

\* A step that keeps the frame of every kill and issues nothing keeps commands good.
LEMMA NothingIssued ==
  ASSUME TypeOK, CommandsGood, commands' = commands, \A k \in DOMAIN kills : KillFrame(k)
  PROVE  CommandsGood'
<1> SUFFICES ASSUME NEW i \in DOMAIN commands  PROVE CommandGood(commands[i])'
  BY DEF CommandsGood
<1>1. commands[i] \in Command /\ CommandGood(commands[i])
  BY ElementOfSeq, LenProperties DEF TypeOK, CommandsGood
<1>2. KillFrame(commands[i].kill)  BY <1>1 DEF CommandGood
<1>3. ASSUME NEW c \in Command, CommandGood(c), KillFrame(c.kill)  PROVE CommandGood(c)'
  BY <1>3, CommandStaysGood
<1> QED  BY <1>1, <1>2, <1>3

\* A step that keeps the frame and issues one good command.
LEMMA OneIssued ==
  ASSUME TypeOK, CommandsGood, \A k \in DOMAIN kills : KillFrame(k),
         NEW cmd \in Command, commands' = Append(commands, cmd), CommandGood(cmd)'
  PROVE  CommandsGood'
<1> SUFFICES ASSUME NEW i \in DOMAIN commands'  PROVE CommandGood(commands[i])'
  BY DEF CommandsGood
<1>1. \/ i = Len(commands) + 1 /\ commands'[i] = cmd
      \/ i \in DOMAIN commands /\ commands'[i] = commands[i]
  BY RowAdded DEF TypeOK
<1>2. CASE commands'[i] = cmd  BY <1>2
<1>3. CASE i \in DOMAIN commands /\ commands'[i] = commands[i]
  <2>1. commands[i] \in Command /\ CommandGood(commands[i])
    BY <1>3, ElementOfSeq, LenProperties DEF TypeOK, CommandsGood
  <2>2. KillFrame(commands[i].kill)  BY <2>1 DEF CommandGood
  <2>3. ASSUME NEW c \in Command, CommandGood(c), KillFrame(c.kill)  PROVE CommandGood(c)'
    BY <2>3, CommandStaysGood
  <2> QED  BY <1>3, <2>1, <2>2, <2>3
<1> QED  BY <1>1, <1>2, <1>3

\* Replacing kill k by e, with the same requester and deadline and good signatures.
LEMMA KillReplaced ==
  ASSUME TypeOK, KillsSigned, NEW k \in DOMAIN kills, NEW e \in Kill,
         kills' = [kills EXCEPT ![k] = e],
         e.requestedBy = kills[k].requestedBy, e.expiresAt = kills[k].expiresAt,
         kills[k].status = "RELEASED" =>
           e.status = "RELEASED" /\ e.restore.requestedBy = kills[k].restore.requestedBy,
         SignedBy(e.approvals, e.requestedBy),
         SignedBy(e.restore.approvals, e.restore.requestedBy)
  PROVE  KillsSigned' /\ \A l \in DOMAIN kills : KillFrame(l)
<1>1. /\ DOMAIN kills' = DOMAIN kills
      /\ kills'[k] = e
      /\ \A l \in DOMAIN kills : l # k => kills'[l] = kills[l]
  BY RowReplaced DEF TypeOK
<1>2. \A l \in DOMAIN kills : KillFrame(l)  BY <1>1 DEF KillFrame
<1>3. ASSUME NEW l \in DOMAIN kills
      PROVE  /\ SignedBy(kills'[l].approvals, kills'[l].requestedBy)
             /\ SignedBy(kills'[l].restore.approvals, kills'[l].restore.requestedBy)
  BY <1>1, <1>3 DEF KillsSigned
<1>4. KillsSigned'  BY <1>1, <1>3 DEF KillsSigned, SignedBy, ApproverIds
<1> QED  BY <1>2, <1>4

\* A new request carries no signature yet, and touches no other.
LEMMA SignedIssue ==
  ASSUME ConstantsOK, SignedInv,
         NEW u \in Users \cup {System}, NEW f \in Features, NEW vins \in SUBSET Vehicles,
         NEW category \in ReasonCategories, NEW basis \in BOOLEAN,
         Issue(u, f, vins, category, basis)
  PROVE  SignedInv'
<1>1. TypeOK'  BY TypeIssue DEF SignedInv
<1>2. commands' = commands  BY DEF Issue
<1>3. PICK e : /\ kills' = Append(kills, e)
               /\ e.approvals = << >> /\ e.restore.approvals = << >>
  BY DEF Issue, NoRestore
<1>4. /\ DOMAIN kills' = DOMAIN kills \cup {Len(kills) + 1}
      /\ \A l \in DOMAIN kills : kills'[l] = kills[l]
      /\ kills'[Len(kills) + 1] = e
  BY <1>3 DEF SignedInv, TypeOK
<1>5. \A l \in DOMAIN kills : KillFrame(l)  BY <1>4 DEF KillFrame
<1>6. CommandsGood'  BY <1>2, <1>5, NothingIssued DEF SignedInv
<1>7. \A asker : SignedBy(<< >>, asker)  BY DEF SignedBy, ApproverIds
<1>8. ASSUME NEW l \in DOMAIN kills'
      PROVE  /\ SignedBy(kills'[l].approvals, kills'[l].requestedBy)
             /\ SignedBy(kills'[l].restore.approvals, kills'[l].restore.requestedBy)
  BY <1>3, <1>4, <1>7, <1>8 DEF SignedInv, KillsSigned
<1>9. KillsSigned'  BY <1>8 DEF KillsSigned
<1> QED  BY <1>1, <1>6, <1>9 DEF SignedInv

\* The gate asks for the Safety Manager by the class the command carries.
LEMMA GateAsksFsm ==
  ASSUME NEW k \in DOMAIN kills, NEW request \in {"deactivate", "restore"}, NEW approvals,
         GatePasses(BuildCommand(k, request, approvals))
  PROVE  LET cmd == BuildCommand(k, request, approvals) IN
         FsmRequired(cmd.fClass, cmd.category) => "FSM" \in ApproverRolesOf(cmd.approvals)
  BY DEF GatePasses, ApprovalRule, BuildCommand

\* An approval keeps the rules of signing, and a command it issues is good: the gate has
\* judged the approvals by the class of now, before the deadline.
LEMMA SignedApprove ==
  ASSUME ConstantsOK, SignedInv, NEW u \in Users, NEW r \in Roles, NEW k \in DOMAIN kills,
         Approve(u, r, k)
  PROVE  SignedInv'
<1> DEFINE approvals == Append(kills[k].approvals, [by |-> u, role |-> r])
           cmd       == BuildCommand(k, "deactivate", approvals)
           first     == [kills[k] EXCEPT !.approvals = approvals]
           passed    == [kills[k] EXCEPT !.approvals = approvals, !.status = "ACTIVE"]
           failed    == [kills[k] EXCEPT !.approvals = approvals, !.status = "REJECTED"]
<1>1. TypeOK'  BY TypeApprove DEF SignedInv
<1>2. kills[k] \in Kill  BY ElementOfSeq, LenProperties DEF SignedInv, TypeOK
<1>3. approvals \in Seq(Approval) /\ SignedBy(approvals, kills[k].requestedBy)
  BY <1>2, OneMoreSignature, Zenon DEF Approve, Kill, SignedInv, KillsSigned
<1>4. /\ kills[k].status = "REQUESTED" /\ now < kills[k].expiresAt
      /\ now' = now
  BY DEF Approve, Pending
<1>5. SignedBy(kills[k].restore.approvals, kills[k].restore.requestedBy)
  BY DEF SignedInv, KillsSigned
<1> HIDE DEF approvals
<1>6. \/ kills' = [kills EXCEPT ![k] = first] /\ commands' = commands
      \/ /\ kills' = [kills EXCEPT ![k] = passed] /\ commands' = Append(commands, cmd)
         /\ Len(approvals) = 2 /\ GatePasses(cmd)
      \/ kills' = [kills EXCEPT ![k] = failed] /\ commands' = commands
  BY DEF Approve, IssueCommand, approvals
<1>7. first \in Kill /\ passed \in Kill /\ failed \in Kill
  BY <1>2, <1>3, KillKeepsType DEF KillStatuses
<1>8. KillsSigned' /\ \A l \in DOMAIN kills : KillFrame(l)
  <2>1. ASSUME NEW e \in {first, passed, failed}, kills' = [kills EXCEPT ![k] = e]
        PROVE  KillsSigned' /\ \A l \in DOMAIN kills : KillFrame(l)
    <3>1. e \in Kill  BY <1>7
    <3>2. /\ e.requestedBy = kills[k].requestedBy /\ e.expiresAt = kills[k].expiresAt
          /\ e.approvals = approvals /\ e.restore = kills[k].restore
      BY <1>2 DEF Kill
    <3> HIDE DEF first, passed, failed
    <3> QED  BY <2>1, <3>1, <3>2, <1>3, <1>4, <1>5, KillReplaced DEF SignedInv
  <2> QED  BY <1>6, <2>1
<1>9. CommandsGood'
  <2>1. CASE commands' = commands  BY <1>8, <2>1, NothingIssued DEF SignedInv
  <2>2. CASE /\ kills' = [kills EXCEPT ![k] = passed] /\ commands' = Append(commands, cmd)
             /\ Len(approvals) = 2 /\ GatePasses(cmd)
    <3>1. cmd \in Command  BY <1>3, CommandType DEF SignedInv
    <3>2. /\ k \in DOMAIN kills' /\ kills'[k].requestedBy = kills[k].requestedBy
          /\ kills'[k].expiresAt = kills[k].expiresAt
      BY <1>8 DEF KillFrame
    <3>3. PICK c \in Command : c = cmd  BY <3>1
    <3>4. /\ c.kill = k /\ c.request = "deactivate" /\ c.approvals = approvals /\ c.at = now
      BY <3>3 DEF BuildCommand
    <3>5. FsmRequired(c.fClass, c.category) => "FSM" \in ApproverRolesOf(c.approvals)
      BY <2>2, <3>3, GateAsksFsm
    <3>6. /\ Len(c.approvals) = 2 /\ c.approvals[1].by # c.approvals[2].by
          /\ kills[k].requestedBy \notin ApproverIds(c.approvals)
          /\ c.at < kills[k].expiresAt
      BY <1>3, <1>4, <2>2, <3>4 DEF SignedBy
    <3>7. CommandGood(c)'  BY <3>2, <3>4, <3>5, <3>6 DEF CommandGood, Requester
    <3>8. commands' = Append(commands, c)  BY <2>2, <3>3
    <3> QED  BY <1>8, <3>7, <3>8, OneIssued DEF SignedInv
  <2> QED  BY <1>6, <2>1, <2>2
<1> QED  BY <1>1, <1>8, <1>9 DEF SignedInv

\* The same for an approval of a restore.
LEMMA SignedApproveRestore ==
  ASSUME ConstantsOK, SignedInv, NEW u \in Users, NEW r \in Roles, NEW k \in DOMAIN kills,
         ApproveRestore(u, r, k)
  PROVE  SignedInv'
<1> DEFINE approvals == Append(kills[k].restore.approvals, [by |-> u, role |-> r])
           restore   == [kills[k].restore EXCEPT !.approvals = approvals]
           cmd       == BuildCommand(k, "restore", approvals)
           granted   == [restore EXCEPT !.status = "APPROVED"]
           refused   == [restore EXCEPT !.status = "REJECTED"]
           first     == [kills[k] EXCEPT !.restore = restore]
           passed    == [kills[k] EXCEPT !.status = "RELEASED", !.restore = granted]
           failed    == [kills[k] EXCEPT !.restore = refused]
<1>1. TypeOK'  BY TypeApproveRestore DEF SignedInv
<1>2. kills[k] \in Kill /\ kills[k].restore \in RestoreRow
  <2>1. kills[k] \in Kill  BY ElementOfSeq, LenProperties DEF SignedInv, TypeOK
  <2> QED  BY <2>1 DEF Kill, RestoreRow
<1>3. approvals \in Seq(Approval) /\ SignedBy(approvals, kills[k].restore.requestedBy)
  BY <1>2, OneMoreSignature, Zenon DEF ApproveRestore, Kill, SignedInv, KillsSigned
<1>4. kills[k].status = "ACTIVE" /\ now' = now  BY DEF ApproveRestore
<1>5. SignedBy(kills[k].approvals, kills[k].requestedBy)
  BY DEF SignedInv, KillsSigned
<1>6. \/ kills' = [kills EXCEPT ![k] = first] /\ commands' = commands
      \/ /\ kills' = [kills EXCEPT ![k] = passed] /\ commands' = Append(commands, cmd)
         /\ Len(approvals) = 2 /\ GatePasses(cmd)
      \/ kills' = [kills EXCEPT ![k] = failed] /\ commands' = commands
  <2> HIDE DEF approvals
  <2> QED  BY DEF ApproveRestore, IssueCommand, approvals
<1> HIDE DEF approvals
<1>7. /\ restore \in RestoreRow /\ granted \in RestoreRow /\ refused \in RestoreRow
      /\ \A x \in {restore, granted, refused} :
           x.approvals = approvals /\ x.requestedBy = kills[k].restore.requestedBy
  BY <1>2, <1>3 DEF RestoreRow, RestoreStatuses
<1> HIDE DEF restore, granted, refused
<1>8. first \in Kill /\ passed \in Kill /\ failed \in Kill
  BY <1>2, <1>7, KillKeepsType DEF KillStatuses, RestoreRow
<1>9. KillsSigned' /\ \A l \in DOMAIN kills : KillFrame(l)
  <2>1. ASSUME NEW e \in {first, passed, failed}, kills' = [kills EXCEPT ![k] = e]
        PROVE  KillsSigned' /\ \A l \in DOMAIN kills : KillFrame(l)
    <3>1. e \in Kill  BY <1>8
    <3>2. /\ e.requestedBy = kills[k].requestedBy /\ e.expiresAt = kills[k].expiresAt
          /\ e.approvals = kills[k].approvals /\ e.restore \in {restore, granted, refused}
      BY <1>2 DEF Kill
    <3> HIDE DEF first, passed, failed
    <3>3. SignedBy(e.restore.approvals, e.restore.requestedBy)  BY <1>3, <1>7, <3>2
    <3> QED  BY <2>1, <3>1, <3>2, <3>3, <1>4, <1>5, KillReplaced DEF SignedInv
  <2> QED  BY <1>6, <2>1
<1>10. CommandsGood'
  <2>1. CASE commands' = commands  BY <1>9, <2>1, NothingIssued DEF SignedInv
  <2>2. CASE /\ kills' = [kills EXCEPT ![k] = passed] /\ commands' = Append(commands, cmd)
             /\ Len(approvals) = 2 /\ GatePasses(cmd)
    <3>1. cmd \in Command  BY <1>3, CommandType DEF SignedInv
    <3>2. kills'[k] = passed /\ k \in DOMAIN kills'
      BY <1>8, <2>2, RowReplaced DEF SignedInv, TypeOK
    <3>3. /\ kills'[k].status = "RELEASED"
          /\ kills'[k].restore.requestedBy = kills[k].restore.requestedBy
      BY <1>2, <1>7, <3>2 DEF Kill
    <3>4. PICK c \in Command : c = cmd  BY <3>1
    <3>5. c.kill = k /\ c.request = "restore" /\ c.approvals = approvals
      BY <3>4 DEF BuildCommand
    <3>6. FsmRequired(c.fClass, c.category) => "FSM" \in ApproverRolesOf(c.approvals)
      BY <2>2, <3>4, GateAsksFsm
    <3>7. /\ Len(c.approvals) = 2 /\ c.approvals[1].by # c.approvals[2].by
          /\ kills[k].restore.requestedBy \notin ApproverIds(c.approvals)
      BY <1>3, <2>2, <3>5 DEF SignedBy
    <3>8. CommandGood(c)'  BY <3>2, <3>3, <3>5, <3>6, <3>7 DEF CommandGood, Requester
    <3>9. commands' = Append(commands, c)  BY <2>2, <3>4
    <3> QED  BY <1>9, <3>8, <3>9, OneIssued DEF SignedInv
  <2> QED  BY <1>6, <2>1, <2>2
<1> QED  BY <1>1, <1>9, <1>10 DEF SignedInv

\* Declining, and asking for a restore, change one request and issue nothing.
LEMMA SignedOneRow ==
  ASSUME SignedInv, NEW k \in DOMAIN kills,
         Reject(k) \/ RejectRestore(k) \/ \E u \in Users : RequestRestore(u, k)
  PROVE  SignedInv'
<1>1. TypeOK'  BY TypeOneRow DEF SignedInv
<1>2. kills[k] \in Kill /\ kills[k].restore \in RestoreRow
  <2>1. kills[k] \in Kill  BY ElementOfSeq, LenProperties DEF SignedInv, TypeOK
  <2> QED  BY <2>1 DEF Kill, RestoreRow
<1>3. /\ SignedBy(kills[k].approvals, kills[k].requestedBy)
      /\ SignedBy(kills[k].restore.approvals, kills[k].restore.requestedBy)
  BY DEF SignedInv, KillsSigned
<1>4. commands' = commands  BY DEF Reject, RejectRestore, RequestRestore
<1>5. KillsSigned' /\ \A l \in DOMAIN kills : KillFrame(l)
  <2>1. CASE Reject(k)
    <3> DEFINE e == [kills[k] EXCEPT !.status = "REJECTED"]
    <3>1. e \in Kill /\ kills' = [kills EXCEPT ![k] = e]
      BY <1>2, <2>1, KillKeepsType DEF Reject, KillStatuses
    <3>2. /\ e.requestedBy = kills[k].requestedBy /\ e.expiresAt = kills[k].expiresAt
          /\ e.approvals = kills[k].approvals /\ e.restore = kills[k].restore
          /\ kills[k].status # "RELEASED"
      BY <1>2, <2>1 DEF Kill, Reject, Pending
    <3> HIDE DEF e
    <3> QED  BY <1>3, <3>1, <3>2, KillReplaced DEF SignedInv
  <2>2. CASE RejectRestore(k)
    <3> DEFINE re == [kills[k].restore EXCEPT !.status = "REJECTED"]
               e  == [kills[k] EXCEPT !.restore = re]
    <3>1. re \in RestoreRow /\ re.approvals = kills[k].restore.approvals
                           /\ re.requestedBy = kills[k].restore.requestedBy
      BY <1>2 DEF RestoreRow, RestoreStatuses
    <3>2. kills' = [kills EXCEPT ![k] = e]  BY <2>2 DEF RejectRestore
    <3> HIDE DEF re
    <3>3. e \in Kill  BY <1>2, <3>1, KillKeepsType DEF RestoreRow
    <3>4. /\ e.requestedBy = kills[k].requestedBy /\ e.expiresAt = kills[k].expiresAt
          /\ e.approvals = kills[k].approvals /\ e.restore = re /\ e.status = kills[k].status
      BY <1>2 DEF Kill
    <3> HIDE DEF e
    <3> QED  BY <1>3, <3>1, <3>2, <3>3, <3>4, KillReplaced DEF SignedInv
  <2>3. ASSUME NEW u \in Users, RequestRestore(u, k)
        PROVE  KillsSigned' /\ \A l \in DOMAIN kills : KillFrame(l)
    <3> DEFINE re == [status |-> "REQUESTED", requestedBy |-> u, approvals |-> << >>]
               e  == [kills[k] EXCEPT !.restore = re]
    <3>1. re \in RestoreRow  BY DEF RestoreRow, RestoreStatuses
    <3>2. SignedBy(re.approvals, re.requestedBy)  BY DEF SignedBy, ApproverIds
    <3>3. kills' = [kills EXCEPT ![k] = e] /\ kills[k].status # "RELEASED"
      BY <2>3 DEF RequestRestore
    <3> HIDE DEF re
    <3>4. e \in Kill  BY <1>2, <3>1, KillKeepsType DEF RestoreRow
    <3>5. /\ e.requestedBy = kills[k].requestedBy /\ e.expiresAt = kills[k].expiresAt
          /\ e.approvals = kills[k].approvals /\ e.restore = re
      BY <1>2 DEF Kill
    <3> HIDE DEF e
    <3> QED  BY <1>3, <3>2, <3>3, <3>4, <3>5, KillReplaced DEF SignedInv
  <2> QED  BY <2>1, <2>2, <2>3
<1>6. CommandsGood'  BY <1>4, <1>5, NothingIssued DEF SignedInv
<1> QED  BY <1>1, <1>5, <1>6 DEF SignedInv

\* The steps that leave requests and commands alone.
LEMMA SignedStill ==
  ASSUME SignedInv, TypeOK', UNCHANGED <<kills, commands>>  PROVE  SignedInv'
<1>1. KillsSigned'  BY DEF SignedInv, KillsSigned
<1>2. CommandsGood'
  BY DEF SignedInv, CommandsGood, CommandGood, Requester
<1> QED  BY <1>1, <1>2 DEF SignedInv

\* No handler breaks the rules of signing.
LEMMA SignedNext == ASSUME ConstantsOK, SignedInv, [Next]_vars PROVE SignedInv'
<1>1. ASSUME NEW u \in Users, NEW f \in Features, NEW vins \in SUBSET Vehicles,
             NEW category \in Categories, NEW basis \in BOOLEAN,
             RequestKill(u, f, vins, category, basis)
      PROVE  SignedInv'
  BY <1>1, SignedIssue DEF RequestKill, ConstantsOK
<1>2. ASSUME NEW f \in Features, NEW v \in Vehicles, TrialExpired(f, v)  PROVE  SignedInv'
  BY <1>2, SignedIssue DEF TrialExpired, ReasonCategories
<1>3. ASSUME NEW u \in Users, NEW r \in Roles, NEW k \in DOMAIN kills, Approve(u, r, k)
      PROVE  SignedInv'
  BY <1>3, SignedApprove
<1>4. ASSUME NEW u \in Users, NEW r \in Roles, NEW k \in DOMAIN kills, ApproveRestore(u, r, k)
      PROVE  SignedInv'
  BY <1>4, SignedApproveRestore
<1>5. ASSUME NEW u \in Users, NEW k \in DOMAIN kills, RequestRestore(u, k)  PROVE  SignedInv'
  BY <1>5, SignedOneRow
<1>6. ASSUME NEW k \in DOMAIN kills, Reject(k) \/ RejectRestore(k)  PROVE  SignedInv'
  BY <1>6, SignedOneRow
<1>7. TypeOK'  BY TypeNext DEF SignedInv
<1>8. ASSUME NEW f \in Features, NEW to \in LifecycleStates, Transition(f, to)  PROVE  SignedInv'
  BY <1>7, <1>8, SignedStill DEF Transition
<1>9. ASSUME NEW f \in Features, NEW p \in Profiles, UpdateProfile(f, p)  PROVE  SignedInv'
  BY <1>7, <1>9, SignedStill DEF UpdateProfile
<1>10. ASSUME NEW f \in Features, ConfirmProfile(f)  PROVE  SignedInv'
  BY <1>7, <1>10, SignedStill DEF ConfirmProfile
<1>11. CASE Tick  BY <1>7, <1>11, SignedStill DEF Tick
<1>12. CASE UNCHANGED vars  BY <1>7, <1>12, SignedStill DEF vars
<1> QED
  BY <1>1, <1>2, <1>3, <1>4, <1>5, <1>6, <1>8, <1>9, <1>10, <1>11, <1>12 DEF Next

\* With no request and no command nothing is out of order.
LEMMA SignedInit == ASSUME ConstantsOK, Init PROVE SignedInv
<1>1. TypeOK  BY TypeInit
<1>2. DOMAIN kills = {} /\ DOMAIN commands = {}  BY DEF Init
<1> QED  BY <1>1, <1>2 DEF SignedInv, KillsSigned, CommandsGood

\* Requests keep to the rules of signing and every command issued stays good.
THEOREM SignedAlways == Spec => []SignedInv
<1>1. Init => SignedInv  BY ConstantsOK, SignedInit
<1>2. SignedInv /\ [Next]_vars => SignedInv'  BY ConstantsOK, SignedNext
<1> QED  BY <1>1, <1>2, PTL DEF Spec

\* Every command ever issued carries the signatures of two people, neither of them
\* the one who asked, and the Safety Manager's where its class at issue wants it
\* (KillService.approve, RestoreService.approve with the gate's FFG-PLT-005).
THEOREM TwoPersonAlways == Spec => []TwoPersonRule
<1>1. SignedInv => TwoPersonRule  BY DEF SignedInv, CommandsGood, CommandGood, TwoPersonRule
<1> QED  BY <1>1, SignedAlways, PTL

\* No deactivation is issued at or after its request's deadline (KillService.effective).
THEOREM InTimeAlways == Spec => []IssuedInTime
<1>1. SignedInv => IssuedInTime  BY DEF SignedInv, CommandsGood, CommandGood, IssuedInTime
<1> QED  BY <1>1, SignedAlways, PTL

-----------------------------------------------------------------------------
(* The cap on a time window *)

\* The vehicles of a command the gate lets pass, with those touched before it in the
\* window, stay within the cap of the profile of now.
LEMMA WindowIssue ==
  ASSUME ConstantsOK, TypeOK, WindowCap, NEW k \in DOMAIN kills,
         NEW request \in {"deactivate", "restore"}, NEW approvals \in Seq(Approval),
         ScopeRule(BuildCommand(k, request, approvals)),
         commands' = Append(commands, BuildCommand(k, request, approvals))
  PROVE  WindowCap'
<1> DEFINE cmd == BuildCommand(k, request, approvals)
           f == kills[k].feature
           before == {p \in (DOMAIN commands) \X Vehicles :
                        LET c == commands[p[1]] IN
                        /\ c.feature = f /\ c.request = request
                        /\ c.at + KillWindow >= now
                        /\ p[2] \in c.vins}
<1>0. PICK n \in Nat : n = Len(commands)  BY LenProperties DEF TypeOK
<1> DEFINE added == {n + 1} \X cmd.vins
<1>1. /\ cmd \in Command /\ cmd.feature = f /\ cmd.request = request /\ cmd.at = now
      /\ cmd.approvals = approvals
  BY CommandType DEF BuildCommand
<1>2. /\ commands \in Seq(Command) /\ n \in Nat /\ DOMAIN commands = 1 .. n
      /\ DOMAIN commands' = 1 .. n + 1
      /\ commands'[n + 1] = cmd
      /\ \A i \in 1 .. n : commands'[i] = commands[i]
  <2>1. commands \in Seq(Command) /\ n \in Nat /\ DOMAIN commands = 1 .. n
    BY <1>0, LenProperties DEF TypeOK
  <2> QED  BY <1>0, <1>1, <2>1, RowAdded
<1>3. f \in Features /\ registry[f].profile \in Profiles /\ now \in Nat
  <2>1. kills[k] \in Kill  BY ElementOfSeq, LenProperties DEF TypeOK
  <2>2. f \in Features  BY <2>1 DEF Kill
  <2> QED  BY <2>2 DEF TypeOK
<1>4. KillWindow \in Nat /\ now + KillWindow >= now  BY <1>3 DEF ConstantsOK
<1>5. /\ ScopeRule(cmd)
      /\ commands' = Append(commands, cmd)
  OBVIOUS
<1> HIDE DEF cmd
<1>6. Cardinality(before) + Cardinality(cmd.vins) <= registry[f].profile.perWindow
      \/ {"FSM", "CSM"} \subseteq ApproverRolesOf(approvals)
  BY <1>1, <1>5 DEF ScopeRule, InWindow
<1>7. IsFiniteSet(before) /\ Cardinality(before) \in Nat
  <2>1. IsFiniteSet(DOMAIN commands) /\ IsFiniteSet(Vehicles)
    <3>1. IsFiniteSet(1 .. n)  BY FS_Interval
    <3> QED  BY <1>2, <3>1 DEF ConstantsOK
  <2>2. IsFiniteSet((DOMAIN commands) \X Vehicles)  BY <2>1, FS_Product
  <2> QED  BY <2>2, FS_Subset, FS_CardinalityType
<1>8. IsFiniteSet(added) /\ Cardinality(added) = Cardinality(cmd.vins)
      /\ Cardinality(cmd.vins) \in Nat
  <2>1. cmd.vins \in SUBSET Vehicles  BY <1>1 DEF Command
  <2>2. IsFiniteSet(cmd.vins)  BY <2>1, FS_Subset DEF ConstantsOK
  <2>3. IsFiniteSet({n + 1}) /\ Cardinality({n + 1}) = 1  BY FS_Singleton
  <2>4. Cardinality(cmd.vins) \in Nat  BY <2>2, FS_CardinalityType
  <2>5. IsFiniteSet(added) /\ Cardinality(added) = Cardinality({n + 1}) * Cardinality(cmd.vins)
    BY <2>2, <2>3, FS_Product
  <2> QED  BY <2>3, <2>4, <2>5
<1>9. TouchedWith(n + 1)' = before \cup added
  <2>1. \A i \in 1 .. n, v \in Vehicles :
          <<i, v>> \in TouchedWith(n + 1)' <=> <<i, v>> \in before
    BY <1>1, <1>2 DEF TouchedWith
  <2>2. \A v \in Vehicles : <<n + 1, v>> \in TouchedWith(n + 1)' <=> v \in cmd.vins
    BY <1>1, <1>2, <1>4 DEF TouchedWith
  <2>3. TouchedWith(n + 1)' \subseteq (1 .. n + 1) \X Vehicles  BY DEF TouchedWith
  <2>4. before \subseteq (1 .. n) \X Vehicles  BY <1>2
  <2>5. cmd.vins \subseteq Vehicles  BY <1>1 DEF Command
  <2>6. 1 .. n + 1 = (1 .. n) \cup {n + 1} /\ n + 1 \notin 1 .. n  BY <1>2
  <2> HIDE DEF before
  <2> QED  BY <2>1, <2>2, <2>3, <2>4, <2>5, <2>6
<1> HIDE DEF before, added
<1>10. Cardinality(TouchedWith(n + 1)') <= Cardinality(before) + Cardinality(cmd.vins)
  <2>1. /\ Cardinality(before \cup added)
             = Cardinality(before) + Cardinality(added) - Cardinality(before \cap added)
    BY <1>7, <1>8, FS_Union
  <2>2. Cardinality(before \cap added) \in Nat
    BY <1>7, FS_Intersection, FS_CardinalityType
  <2>3. Cardinality(before \cup added) <= Cardinality(before) + Cardinality(cmd.vins)
    BY <1>7, <1>8, <2>1, <2>2
  <2> QED  BY <1>9, <2>3, Zenon
<1>11. Cardinality(TouchedWith(n + 1)') \in Nat
  <2>1. IsFiniteSet(before \cup added)  BY <1>7, <1>8, FS_Union
  <2> QED  BY <1>9, <2>1, FS_CardinalityType
<1>12. registry[f].profile.perWindow \in Nat  BY <1>3 DEF ConstantsOK, Profile
<1>13. \A i \in 1 .. n : TouchedWith(i)' = TouchedWith(i)
  BY <1>2 DEF TouchedWith
<1> SUFFICES ASSUME NEW i \in 1 .. n + 1
             PROVE  \/ {"FSM", "CSM"} \subseteq ApproverRolesOf(commands'[i].approvals)
                    \/ \E p \in Profiles : Cardinality(TouchedWith(i)') <= p.perWindow
  BY <1>2 DEF WindowCap
<1>14. CASE i \in 1 .. n  BY <1>2, <1>13, <1>14 DEF WindowCap
<1>15. CASE i = n + 1
  <2>1. {"FSM", "CSM"} \subseteq ApproverRolesOf(approvals)
        \/ Cardinality(TouchedWith(n + 1)') <= registry[f].profile.perWindow
    BY <1>6, <1>7, <1>8, <1>10, <1>11, <1>12
  <2>2. registry[f].profile \in Profiles  BY <1>3
  <2> HIDE DEF f
  <2> QED  BY <1>1, <1>2, <1>15, <2>1, <2>2
<1> QED  BY <1>2, <1>14, <1>15

\* The other steps issue nothing.
LEMMA WindowStill ==
  ASSUME WindowCap, commands' = commands
  PROVE  WindowCap'
  BY DEF WindowCap, TouchedWith

LEMMA WindowNext == ASSUME ConstantsOK, TypeOK, WindowCap, [Next]_vars  PROVE WindowCap'
<1>1. ASSUME NEW u \in Users, NEW r \in Roles, NEW k \in DOMAIN kills,
             Approve(u, r, k) \/ ApproveRestore(u, r, k)
      PROVE  WindowCap'
  <2>1. kills[k] \in Kill  BY ElementOfSeq, LenProperties DEF TypeOK
  <2>2. CASE commands' = commands  BY <2>2, WindowStill
  <2>3. CASE /\ Approve(u, r, k) /\ commands' # commands
    <3> DEFINE approvals == Append(kills[k].approvals, [by |-> u, role |-> r])
    <3>1. approvals \in Seq(Approval)  BY <2>1, ApprovalsGrow DEF Kill
    <3>2. /\ GatePasses(BuildCommand(k, "deactivate", approvals))
          /\ IssueCommand(BuildCommand(k, "deactivate", approvals))
      BY <2>3 DEF Approve
    <3> HIDE DEF approvals
    <3> QED  BY <3>1, <3>2, WindowIssue DEF GatePasses, IssueCommand
  <2>4. CASE /\ ApproveRestore(u, r, k) /\ commands' # commands
    <3> DEFINE approvals == Append(kills[k].restore.approvals, [by |-> u, role |-> r])
    <3>1. approvals \in Seq(Approval)  BY <2>1, ApprovalsGrow DEF Kill
    <3>2. /\ GatePasses(BuildCommand(k, "restore", approvals))
          /\ IssueCommand(BuildCommand(k, "restore", approvals))
      BY <2>4 DEF ApproveRestore
    <3> HIDE DEF approvals
    <3> QED  BY <3>1, <3>2, WindowIssue DEF GatePasses, IssueCommand
  <2> QED  BY <1>1, <2>2, <2>3, <2>4
<1>2. ASSUME ~ \E u \in Users, r \in Roles, k \in DOMAIN kills :
                 Approve(u, r, k) \/ ApproveRestore(u, r, k)
      PROVE  commands' = commands
  BY <1>2 DEF Next, RequestKill, TrialExpired, Issue, Reject, RequestRestore, RejectRestore,
     Transition, UpdateProfile, ConfirmProfile, Tick, vars
<1> QED  BY <1>1, <1>2, WindowStill

\* Within a window the commands of one kind on a feature touch no more vehicles than
\* the cap of a profile, however they are split over kills, for any window, any
\* profiles and any number of kills (policy-gate.ts, the window cap).
THEOREM WindowAlwaysCapped == Spec => []WindowCap
<1>1. Init => WindowCap
  <2>1. Init => DOMAIN commands = {}  BY DEF Init
  <2> QED  BY <2>1 DEF WindowCap
<1>2. TypeOK /\ WindowCap /\ [Next]_vars => WindowCap'  BY ConstantsOK, WindowNext
<1> QED  BY <1>1, <1>2, TypeCorrect, PTL DEF Spec
=============================================================================
