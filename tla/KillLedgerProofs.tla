--------------------------- MODULE KillLedgerProofs ---------------------------
(***************************************************************************)
(* Theorems about requests, commands and the ledger of KillSwitch, for     *)
(* every set of features, vehicles, people and profiles and any bounds:    *)
(* the numbering has no gaps, a restore is approved by other people than   *)
(* the kills before it, statuses and commands agree, and live kills        *)
(* overlap only over the expiry of a trial.  From these, the kill switch   *)
(* implements TwoPersonControl: the refinement mapping takes a kill to the *)
(* case CaseOf(kill), and every handler to a step of the case or to a      *)
(* stutter.                                                                *)
(***************************************************************************)
EXTENDS KillSwitchProofs

-----------------------------------------------------------------------------
(* What a step does to the ledger *)

\* Command cmd, numbered by the ledger, is issued for kill k.
IssuesFor(k, cmd) ==
  /\ cmd \in Command
  /\ cmd.kill = k
  /\ cmd.feature = kills[k].feature
  /\ cmd.seq = ledger[cmd.feature].lastSeq + 1
  /\ IssueCommand(cmd)

\* The ledger and the commands stay, or one command is issued.
LEMMA LedgerStep ==
  ASSUME TypeOK, [Next]_vars
  PROVE  \/ UNCHANGED <<ledger, commands>>
         \/ \E k \in DOMAIN kills, cmd \in Command : IssuesFor(k, cmd)
<1>1. ASSUME NEW u \in Users, NEW r \in Roles, NEW k \in DOMAIN kills, Approve(u, r, k)
      PROVE  \/ UNCHANGED <<ledger, commands>>
             \/ \E cmd \in Command : IssuesFor(k, cmd)
  <2> DEFINE approvals == Append(kills[k].approvals, [by |-> u, role |-> r])
             cmd       == BuildCommand(k, "deactivate", approvals)
  <2>1. kills[k] \in Kill  BY ElementOfSeq, LenProperties DEF TypeOK
  <2>2. approvals \in Seq(Approval)  BY <2>1, ApprovalsGrow DEF Kill
  <2> HIDE DEF approvals
  <2>3. cmd \in Command  BY <2>2, CommandType, ConstantsOK
  <2>4. UNCHANGED <<ledger, commands>> \/ IssueCommand(cmd)  BY <1>1 DEF Approve, approvals
  <2>5. cmd.kill = k /\ cmd.feature = kills[k].feature /\ cmd.seq = ledger[cmd.feature].lastSeq + 1
    BY DEF BuildCommand
  <2> HIDE DEF cmd
  <2> QED  BY <2>3, <2>4, <2>5 DEF IssuesFor
<1>2. ASSUME NEW u \in Users, NEW r \in Roles, NEW k \in DOMAIN kills, ApproveRestore(u, r, k)
      PROVE  \/ UNCHANGED <<ledger, commands>>
             \/ \E cmd \in Command : IssuesFor(k, cmd)
  <2> DEFINE approvals == Append(kills[k].restore.approvals, [by |-> u, role |-> r])
             cmd       == BuildCommand(k, "restore", approvals)
  <2>1. kills[k] \in Kill  BY ElementOfSeq, LenProperties DEF TypeOK
  <2>2. approvals \in Seq(Approval)  BY <2>1, ApprovalsGrow DEF Kill
  <2> HIDE DEF approvals
  <2>3. cmd \in Command  BY <2>2, CommandType, ConstantsOK
  <2>4. UNCHANGED <<ledger, commands>> \/ IssueCommand(cmd)
    BY <1>2 DEF ApproveRestore, approvals
  <2>5. cmd.kill = k /\ cmd.feature = kills[k].feature /\ cmd.seq = ledger[cmd.feature].lastSeq + 1
    BY DEF BuildCommand
  <2> HIDE DEF cmd
  <2> QED  BY <2>3, <2>4, <2>5 DEF IssuesFor
<1>3. ASSUME NEW u, NEW f, NEW vins, NEW category, NEW basis,
             RequestKill(u, f, vins, category, basis) \/ TrialExpired(f, u)
      PROVE  UNCHANGED <<ledger, commands>>
  BY <1>3 DEF RequestKill, TrialExpired, Issue
<1>4. ASSUME NEW u, NEW k, Reject(k) \/ RejectRestore(k) \/ RequestRestore(u, k)
      PROVE  UNCHANGED <<ledger, commands>>
  BY <1>4 DEF Reject, RejectRestore, RequestRestore
<1>5. ASSUME NEW f, NEW x, Transition(f, x) \/ UpdateProfile(f, x) \/ ConfirmProfile(f)
      PROVE  UNCHANGED <<ledger, commands>>
  BY <1>5 DEF Transition, UpdateProfile, ConfirmProfile
<1>6. CASE Tick  BY <1>6 DEF Tick
<1>7. CASE UNCHANGED vars  BY <1>7 DEF vars
<1> QED  BY <1>1, <1>2, <1>3, <1>4, <1>5, <1>6, <1>7 DEF Next

-----------------------------------------------------------------------------
(* The numbering *)

\* SeqGapFree for one feature.
Numbered(f) ==
  LET own == {i \in DOMAIN commands : commands[i].feature = f} IN
  /\ {commands[i].seq : i \in own} = 1 .. ledger[f].lastSeq
  /\ \A i, j \in own : i < j => commands[i].seq < commands[j].seq

\* The number after the last one extends the range by one.
LEMMA NextNumber == \A n \in Nat : 1 .. n + 1 = (1 .. n) \cup {n + 1}
  OBVIOUS

\* Issuing one more command keeps the numbering of every feature.
LEMMA NumberingGrows ==
  ASSUME TypeOK, SeqGapFree, NEW k \in DOMAIN kills, NEW cmd \in Command, IssuesFor(k, cmd)
  PROVE  SeqGapFree'
<1> SUFFICES ASSUME NEW f \in Features  PROVE Numbered(f)'
  BY DEF SeqGapFree, Numbered
<1> DEFINE n == Len(commands) + 1
           g == cmd.feature
           own == {i \in DOMAIN commands : commands[i].feature = f}
           new == {i \in DOMAIN commands' : commands'[i].feature = f}
<1>1. /\ DOMAIN commands' = DOMAIN commands \cup {n}
      /\ \A i \in DOMAIN commands : commands'[i] = commands[i]
      /\ commands'[n] = cmd
      /\ n \notin DOMAIN commands
      /\ \A i \in DOMAIN commands : i \in Nat /\ i < n
      /\ n \in Nat
  BY RowAdded, LenProperties DEF TypeOK, IssuesFor, IssueCommand
<1>2. Numbered(f)  BY DEF SeqGapFree, Numbered
<1>3. g \in Features  BY DEF Command
<1>4. /\ ledger'[g].lastSeq = ledger[g].lastSeq + 1
      /\ f # g => ledger'[f] = ledger[f]
      /\ ledger[f].lastSeq \in Nat
  BY <1>3 DEF TypeOK, IssuesFor, IssueCommand
<1>5. /\ {commands[i].seq : i \in own} = 1 .. ledger[f].lastSeq
      /\ \A i, j \in own : i < j => commands[i].seq < commands[j].seq
  BY <1>2 DEF Numbered
<1> HIDE DEF n
<1>6. CASE f # g
  <2>1. new = own  BY <1>1, <1>6
  <2>2. \A i \in own : commands'[i] = commands[i]  BY <1>1
  <2> QED  BY <1>4, <1>5, <1>6, <2>1, <2>2 DEF Numbered
<1>7. CASE f = g
  <2>1. new = own \cup {n}  BY <1>1, <1>7
  <2>2. \A i \in own : commands'[i] = commands[i]  BY <1>1
  <2>3. commands'[n].seq = ledger[f].lastSeq + 1  BY <1>1, <1>7 DEF IssuesFor
  <2>4. {commands'[i].seq : i \in new} = 1 .. ledger'[f].lastSeq
    <3>1. {commands'[i].seq : i \in new} = {commands[i].seq : i \in own} \cup {ledger[f].lastSeq + 1}
      BY <2>1, <2>2, <2>3
    <3> QED  BY <1>4, <1>5, <1>7, <3>1, NextNumber
  <2>5. ASSUME NEW i \in new, NEW j \in new, i < j  PROVE commands'[i].seq < commands'[j].seq
    <3>1. i \in own  BY <1>1, <2>1, <2>5
    <3>2. CASE j \in own  BY <1>5, <2>2, <2>5, <3>1, <3>2
    <3>3. CASE j = n
      <4>1. commands[i].seq \in 1 .. ledger[f].lastSeq  BY <1>5, <3>1
      <4> QED  BY <1>4, <2>2, <2>3, <3>1, <3>3, <4>1
    <3> QED  BY <2>1, <3>2, <3>3
  <2> QED  BY <2>4, <2>5 DEF Numbered
<1> QED  BY <1>6, <1>7

\* Commands of a feature are numbered without gap or repetition over kills and
\* restores, and the ledger stands at the last one (PolicyGateService.commit with
\* the gate's FFG-PLT-017).
THEOREM NumberedAlways == Spec => []SeqGapFree
<1>1. Init => SeqGapFree
  <2> SUFFICES ASSUME Init, NEW f \in Features  PROVE Numbered(f)
    BY DEF SeqGapFree, Numbered
  <2>1. DOMAIN commands = {} /\ ledger[f].lastSeq = 0  BY DEF Init
  <2>2. 1 .. 0 = {}  OBVIOUS
  <2> QED  BY <2>1, <2>2 DEF Numbered
<1>2. TypeOK /\ SeqGapFree /\ [Next]_vars => SeqGapFree'
  <2> SUFFICES ASSUME TypeOK, SeqGapFree, [Next]_vars  PROVE SeqGapFree'
    OBVIOUS
  <2>1. CASE UNCHANGED <<ledger, commands>>  BY <2>1 DEF SeqGapFree
  <2> QED  BY <2>1, LedgerStep, NumberingGrows
<1> QED  BY <1>1, <1>2, TypeCorrect, PTL DEF Spec

-----------------------------------------------------------------------------
(* Who approves a restore *)

\* A restore under way has no approver of its kill among its approvers, and a
\* request still waiting for its own approvals has no restore.
RestoreApart ==
  \A k \in DOMAIN kills :
    /\ kills[k].status = "REQUESTED" => kills[k].restore.approvals = << >>
    /\ ApproverIds(kills[k].restore.approvals) \cap ApproverIds(kills[k].approvals) = {}

\* What happened to the kill of an issued deactivation since: nothing but a restore.
Standing(c) ==
  /\ c.kill \in DOMAIN kills
  /\ kills[c.kill].status \in {"ACTIVE", "RELEASED"}
  /\ kills[c.kill].approvals = c.approvals

CommandsStand == \A i \in DOMAIN commands : commands[i].request = "deactivate" => Standing(commands[i])

Deactivates(i, f) == commands[i].request = "deactivate" /\ commands[i].feature = f

\* The ledger remembers the approvers of the last deactivation of each feature.
LedgerRemembers ==
  \A j \in DOMAIN commands :
    LET f == commands[j].feature IN
    /\ Deactivates(j, f)
    /\ \A l \in DOMAIN commands : j < l => ~Deactivates(l, f)
    => ledger[f].lastKillApprovers = ApproverIds(commands[j].approvals)

SeparationInv == TypeOK /\ RestoreApart /\ CommandsStand /\ LedgerRemembers /\ RestoreSeparation

\* What no step changes of a kill that was issued: that it was, and by whose approvals.
KillStands(k) ==
  /\ k \in DOMAIN kills'
  /\ kills[k].status \in {"ACTIVE", "RELEASED"} =>
       /\ kills'[k].status \in {"ACTIVE", "RELEASED"}
       /\ kills'[k].approvals = kills[k].approvals

\* One more approval adds one approver.
LEMMA OneMoreApprover ==
  ASSUME NEW approvals \in Seq(Approval), NEW u, NEW r
  PROVE  ApproverIds(Append(approvals, [by |-> u, role |-> r])) = ApproverIds(approvals) \cup {u}
<1> DEFINE more == Append(approvals, [by |-> u, role |-> r])
<1>1. DOMAIN more = DOMAIN approvals \cup {Len(approvals) + 1}
  OBVIOUS
<1>2. /\ \A i \in DOMAIN approvals : more[i] = approvals[i]
      /\ more[Len(approvals) + 1] = [by |-> u, role |-> r]
  OBVIOUS
<1> QED  BY <1>1, <1>2 DEF ApproverIds

\* Replacing kill k by e, which keeps the two rules, keeps them for all.
LEMMA ApartReplaced ==
  ASSUME TypeOK, RestoreApart, NEW k \in DOMAIN kills, NEW e \in Kill,
         kills' = [kills EXCEPT ![k] = e],
         e.status = "REQUESTED" => e.restore.approvals = << >>,
         ApproverIds(e.restore.approvals) \cap ApproverIds(e.approvals) = {},
         kills[k].status \in {"ACTIVE", "RELEASED"} =>
           e.status \in {"ACTIVE", "RELEASED"} /\ e.approvals = kills[k].approvals
  PROVE  RestoreApart' /\ \A l \in DOMAIN kills : KillStands(l)
<1>1. /\ DOMAIN kills' = DOMAIN kills
      /\ kills'[k] = e
      /\ \A l \in DOMAIN kills : l # k => kills'[l] = kills[l]
  BY RowReplaced DEF TypeOK
<1>2. \A l \in DOMAIN kills : KillStands(l)  BY <1>1 DEF KillStands
<1>3. RestoreApart'
  <2> SUFFICES ASSUME NEW l \in DOMAIN kills
               PROVE  /\ kills'[l].status = "REQUESTED" => kills'[l].restore.approvals = << >>
                      /\ ApproverIds(kills'[l].restore.approvals)
                           \cap ApproverIds(kills'[l].approvals) = {}
    BY <1>1 DEF RestoreApart
  <2>1. CASE l = k  BY <1>1, <2>1
  <2>2. CASE l # k  BY <1>1, <2>2 DEF RestoreApart
  <2> QED  BY <2>1, <2>2
<1> QED  BY <1>2, <1>3

\* A step that issues nothing and keeps the rules for the kills.
LEMMA SeparationStill ==
  ASSUME SeparationInv, TypeOK', RestoreApart', \A k \in DOMAIN kills : KillStands(k),
         UNCHANGED <<ledger, commands>>
  PROVE  SeparationInv'
<1>1. CommandsStand'
  <2> SUFFICES ASSUME NEW i \in DOMAIN commands, commands[i].request = "deactivate"
               PROVE  Standing(commands[i])'
    BY DEF CommandsStand
  <2>1. Standing(commands[i])  BY DEF SeparationInv, CommandsStand
  <2> QED  BY <2>1 DEF Standing, KillStands
<1>2. LedgerRemembers'  BY DEF SeparationInv, LedgerRemembers, Deactivates
<1>3. RestoreSeparation'  BY DEF SeparationInv, RestoreSeparation
<1> QED  BY <1>1, <1>2, <1>3 DEF SeparationInv

\* A step that issues one command: a deactivation by the approvals of its kill, or a
\* restore by people who approved neither its kill nor the last deactivation.
LEMMA SeparationIssued ==
  ASSUME SeparationInv, TypeOK', RestoreApart', \A k \in DOMAIN kills : KillStands(k),
         NEW cmd \in Command, IssueCommand(cmd),
         cmd.request = "deactivate" => Standing(cmd)',
         cmd.request = "restore" =>
           /\ ApproverIds(cmd.approvals) \cap ledger[cmd.feature].lastKillApprovers = {}
           /\ ApproverIds(cmd.approvals) \cap ApproverIds(kills[cmd.kill].approvals) = {}
  PROVE  SeparationInv'
<1> DEFINE n == Len(commands) + 1
           g == cmd.feature
<1>1. /\ DOMAIN commands' = DOMAIN commands \cup {n}
      /\ \A i \in DOMAIN commands : commands'[i] = commands[i]
      /\ commands'[n] = cmd
      /\ DOMAIN commands = 1 .. n - 1
      /\ n \in Nat /\ n \notin DOMAIN commands
  BY RowAdded, LenProperties DEF SeparationInv, TypeOK, IssueCommand
<1>2. g \in Features /\ (cmd.request = "deactivate" \/ cmd.request = "restore")  BY DEF Command
<1>3. /\ \A f \in Features : f # g => ledger'[f] = ledger[f]
      /\ ledger'[g].lastKillApprovers = IF cmd.request = "deactivate"
                                          THEN ApproverIds(cmd.approvals)
                                          ELSE ledger[g].lastKillApprovers
  BY <1>2 DEF SeparationInv, TypeOK, IssueCommand
<1>4. \A i \in DOMAIN commands : commands[i].feature \in Features
  <2>1. \A i \in DOMAIN commands : commands[i] \in Command
    BY ElementOfSeq, LenProperties DEF SeparationInv, TypeOK
  <2> QED  BY <2>1 DEF Command
<1> HIDE DEF n
<1>5. CommandsStand'
  <2> SUFFICES ASSUME NEW i \in DOMAIN commands', commands'[i].request = "deactivate"
               PROVE  Standing(commands[i])'
    BY DEF CommandsStand
  <2>1. CASE i = n
    <3>1. Standing(cmd)'  BY <1>1, <2>1
    <3> QED  BY <1>1, <2>1, <3>1 DEF Standing
  <2>2. CASE i \in DOMAIN commands
    <3>1. Standing(commands[i]) /\ commands'[i] = commands[i]
      BY <1>1, <2>2 DEF SeparationInv, CommandsStand
    <3> QED  BY <3>1 DEF Standing, KillStands
  <2> QED  BY <1>1, <2>1, <2>2
<1>6. LedgerRemembers'
  <2> SUFFICES ASSUME NEW j \in DOMAIN commands', NEW f, f = commands'[j].feature,
                      Deactivates(j, f)',
                      \A l \in DOMAIN commands' : j < l => ~Deactivates(l, f)'
               PROVE  ledger'[f].lastKillApprovers = ApproverIds(commands'[j].approvals)
    BY DEF LedgerRemembers
  <2>1. CASE j = n  BY <1>1, <1>3, <2>1 DEF Deactivates
  <2>2. CASE j \in DOMAIN commands
    <3>1. f \in Features /\ f = commands[j].feature /\ Deactivates(j, f)
      BY <1>1, <1>4, <2>2 DEF Deactivates
    <3>2. \A l \in DOMAIN commands : j < l => ~Deactivates(l, f)
      BY <1>1 DEF Deactivates
    <3>3. ledger[f].lastKillApprovers = ApproverIds(commands[j].approvals)
      BY <2>2, <3>1, <3>2 DEF SeparationInv, LedgerRemembers
    <3>4. j < n  BY <1>1, <2>2
    <3>5. ~(cmd.request = "deactivate" /\ g = f)  BY <1>1, <3>4 DEF Deactivates
    <3>6. ledger'[f].lastKillApprovers = ledger[f].lastKillApprovers
      BY <1>3, <3>1, <3>5
    <3> QED  BY <1>1, <2>2, <3>3, <3>6
  <2> QED  BY <1>1, <2>1, <2>2
<1>7. RestoreSeparation'
  <2> SUFFICES ASSUME NEW i \in DOMAIN commands', NEW j \in DOMAIN commands', j < i,
                      commands'[i].request = "restore", commands'[j].request = "deactivate",
                      commands'[j].feature = commands'[i].feature,
                      \/ commands'[j].kill = commands'[i].kill
                      \/ \A l \in j+1 .. i-1 :
                           ~(/\ commands'[l].request = "deactivate"
                             /\ commands'[l].feature = commands'[i].feature)
               PROVE  ApproverIds(commands'[i].approvals)
                        \cap ApproverIds(commands'[j].approvals) = {}
    BY DEF RestoreSeparation
  <2>1. j \in DOMAIN commands /\ commands'[j] = commands[j]  BY <1>1
  <2>2. CASE i \in DOMAIN commands
    <3>1. commands'[i] = commands[i]  BY <1>1, <2>2
    <3>2. \A l \in j+1 .. i-1 : commands'[l] = commands[l]  BY <1>1, <2>1, <2>2
    <3> QED  BY <2>1, <2>2, <3>1, <3>2 DEF SeparationInv, RestoreSeparation
  <2>3. CASE i = n
    <3>1. commands'[i] = cmd  BY <1>1, <2>3
    <3>2. CASE commands[j].kill = cmd.kill
      <4>1. Standing(commands[j])  BY <2>1 DEF SeparationInv, CommandsStand
      <4> QED  BY <2>1, <3>1, <3>2, <4>1 DEF Standing
    <3>3. CASE \A l \in j+1 .. i-1 : ~(/\ commands'[l].request = "deactivate"
                                       /\ commands'[l].feature = g)
      <4>1. \A l \in DOMAIN commands : j < l => l \in j+1 .. i-1  BY <1>1, <2>1, <2>3
      <4>2. \A l \in DOMAIN commands : j < l => ~Deactivates(l, g)
        BY <1>1, <3>3, <4>1 DEF Deactivates
      <4>3. commands[j].feature = g /\ Deactivates(j, g)  BY <2>1, <3>1 DEF Deactivates
      <4>4. ledger[g].lastKillApprovers = ApproverIds(commands[j].approvals)
        BY <2>1, <4>2, <4>3 DEF SeparationInv, LedgerRemembers
      <4> QED  BY <2>1, <3>1, <4>4
    <3> QED  BY <2>1, <3>1, <3>2, <3>3
  <2> QED  BY <1>1, <2>2, <2>3
<1> QED  BY <1>5, <1>6, <1>7 DEF SeparationInv

\* A new request has neither approvals nor a restore.
LEMMA SeparationIssue ==
  ASSUME SeparationInv, TypeOK', NEW u, NEW f, NEW vins, NEW category, NEW basis,
         Issue(u, f, vins, category, basis)
  PROVE  SeparationInv'
<1> DEFINE n == Len(kills) + 1
<1>1. UNCHANGED <<ledger, commands>>  BY DEF Issue
<1>2. PICK e : /\ kills' = Append(kills, e)
               /\ e.approvals = << >> /\ e.restore.approvals = << >>
  BY DEF Issue, NoRestore
<1>3. /\ DOMAIN kills' = DOMAIN kills \cup {n}
      /\ \A k \in DOMAIN kills : kills'[k] = kills[k]
      /\ kills'[n] = e
  BY <1>2 DEF SeparationInv, TypeOK
<1>4. \A k \in DOMAIN kills : KillStands(k)  BY <1>3 DEF KillStands
<1>5. ApproverIds(<< >>) = {}  BY DEF ApproverIds
<1>6. RestoreApart'  BY <1>2, <1>3, <1>5 DEF SeparationInv, RestoreApart
<1> QED  BY <1>1, <1>4, <1>6, SeparationStill

\* An approval of a kill: the request has no restore yet, so its new approver is
\* apart from it, and a deactivation is issued by exactly its approvals.
LEMMA SeparationApprove ==
  ASSUME SeparationInv, TypeOK', NEW u \in Users, NEW r \in Roles, NEW k \in DOMAIN kills,
         Approve(u, r, k)
  PROVE  SeparationInv'
<1> DEFINE approvals == Append(kills[k].approvals, [by |-> u, role |-> r])
           cmd       == BuildCommand(k, "deactivate", approvals)
           first     == [kills[k] EXCEPT !.approvals = approvals]
           passed    == [kills[k] EXCEPT !.approvals = approvals, !.status = "ACTIVE"]
           failed    == [kills[k] EXCEPT !.approvals = approvals, !.status = "REJECTED"]
<1>1. kills[k] \in Kill  BY ElementOfSeq, LenProperties DEF SeparationInv, TypeOK
<1>2. approvals \in Seq(Approval)  BY <1>1, ApprovalsGrow DEF Kill
<1>3. kills[k].status = "REQUESTED"  BY DEF Approve, Pending
<1>4. kills[k].restore.approvals = << >>  BY <1>3 DEF SeparationInv, RestoreApart
<1> HIDE DEF approvals
<1>5. \/ kills' = [kills EXCEPT ![k] = first] /\ UNCHANGED <<ledger, commands>>
      \/ kills' = [kills EXCEPT ![k] = passed] /\ IssueCommand(cmd)
      \/ kills' = [kills EXCEPT ![k] = failed] /\ UNCHANGED <<ledger, commands>>
  BY DEF Approve, approvals
<1>6. first \in Kill /\ passed \in Kill /\ failed \in Kill
  BY <1>1, <1>2, KillKeepsType DEF KillStatuses
<1>7. RestoreApart' /\ \A l \in DOMAIN kills : KillStands(l)
  <2>1. ASSUME NEW e \in {first, passed, failed}, kills' = [kills EXCEPT ![k] = e]
        PROVE  RestoreApart' /\ \A l \in DOMAIN kills : KillStands(l)
    <3>1. e \in Kill /\ e.restore.approvals = << >>  BY <1>1, <1>4, <1>6 DEF Kill
    <3>2. ApproverIds(<< >>) = {}  BY DEF ApproverIds
    <3> HIDE DEF first, passed, failed
    <3> QED  BY <2>1, <3>1, <3>2, <1>3, ApartReplaced DEF SeparationInv
  <2> QED  BY <1>5, <2>1
<1>8. CASE UNCHANGED <<ledger, commands>>  BY <1>7, <1>8, SeparationStill
<1>9. CASE kills' = [kills EXCEPT ![k] = passed] /\ IssueCommand(cmd)
  <2>1. cmd \in Command  BY <1>2, CommandType, ConstantsOK DEF SeparationInv
  <2>2. PICK c \in Command : c = cmd  BY <2>1
  <2>3. c.kill = k /\ c.request = "deactivate" /\ c.approvals = approvals
    BY <2>2 DEF BuildCommand
  <2>4. kills'[k] = passed /\ k \in DOMAIN kills'
    BY <1>6, <1>9, RowReplaced DEF SeparationInv, TypeOK
  <2>5. kills'[k].status = "ACTIVE" /\ kills'[k].approvals = approvals
    BY <1>1, <2>4 DEF Kill
  <2>6. Standing(c)'  BY <2>3, <2>4, <2>5 DEF Standing
  <2>7. IssueCommand(c)  BY <1>9, <2>2
  <2> QED  BY <1>7, <2>3, <2>6, <2>7, SeparationIssued
<1> QED  BY <1>5, <1>8, <1>9

\* An approval of a restore: RestoreExcluded keeps the approvers of the kill out at
\* each signature, and the gate looks at those of the last kill once more.
LEMMA SeparationApproveRestore ==
  ASSUME SeparationInv, TypeOK', NEW u \in Users, NEW r \in Roles, NEW k \in DOMAIN kills,
         ApproveRestore(u, r, k)
  PROVE  SeparationInv'
<1> DEFINE approvals == Append(kills[k].restore.approvals, [by |-> u, role |-> r])
           restore   == [kills[k].restore EXCEPT !.approvals = approvals]
           cmd       == BuildCommand(k, "restore", approvals)
           granted   == [restore EXCEPT !.status = "APPROVED"]
           refused   == [restore EXCEPT !.status = "REJECTED"]
           first     == [kills[k] EXCEPT !.restore = restore]
           passed    == [kills[k] EXCEPT !.status = "RELEASED", !.restore = granted]
           failed    == [kills[k] EXCEPT !.restore = refused]
<1>1. kills[k] \in Kill /\ kills[k].restore \in RestoreRow
  <2>1. kills[k] \in Kill  BY ElementOfSeq, LenProperties DEF SeparationInv, TypeOK
  <2> QED  BY <2>1 DEF Kill, RestoreRow
<1>2. approvals \in Seq(Approval)  BY <1>1, ApprovalsGrow DEF RestoreRow
<1>3. kills[k].status = "ACTIVE"  BY DEF ApproveRestore
<1>4. ApproverIds(approvals) \cap ApproverIds(kills[k].approvals) = {}
  <2>1. ApproverIds(approvals) = ApproverIds(kills[k].restore.approvals) \cup {u}
    BY <1>1, OneMoreApprover DEF RestoreRow
  <2>2. u \notin ApproverIds(kills[k].approvals)
    BY DEF ApproveRestore, MayApprove, RestoreExcluded
  <2> QED  BY <2>1, <2>2 DEF SeparationInv, RestoreApart
<1>5. \/ kills' = [kills EXCEPT ![k] = first] /\ UNCHANGED <<ledger, commands>>
      \/ /\ kills' = [kills EXCEPT ![k] = passed] /\ IssueCommand(cmd)
         /\ GatePasses(cmd)
      \/ kills' = [kills EXCEPT ![k] = failed] /\ UNCHANGED <<ledger, commands>>
  <2> HIDE DEF approvals
  <2> QED  BY DEF ApproveRestore, approvals
<1> HIDE DEF approvals
<1>6. /\ restore \in RestoreRow /\ granted \in RestoreRow /\ refused \in RestoreRow
      /\ \A x \in {restore, granted, refused} : x.approvals = approvals
  BY <1>1, <1>2 DEF RestoreRow, RestoreStatuses
<1> HIDE DEF restore, granted, refused
<1>7. first \in Kill /\ passed \in Kill /\ failed \in Kill
  BY <1>1, <1>6, KillKeepsType DEF KillStatuses, RestoreRow
<1>8. RestoreApart' /\ \A l \in DOMAIN kills : KillStands(l)
  <2>1. ASSUME NEW e \in {first, passed, failed}, kills' = [kills EXCEPT ![k] = e]
        PROVE  RestoreApart' /\ \A l \in DOMAIN kills : KillStands(l)
    <3>1. /\ e \in Kill /\ e.approvals = kills[k].approvals
          /\ e.status \in {"ACTIVE", "RELEASED"}
          /\ e.restore \in {restore, granted, refused}
      <4>1. CASE e = first   BY <1>1, <1>3, <1>7, <4>1 DEF Kill
      <4>2. CASE e = passed  BY <1>1, <1>3, <1>7, <4>2 DEF Kill
      <4>3. CASE e = failed  BY <1>1, <1>3, <1>7, <4>3 DEF Kill
      <4> QED  BY <4>1, <4>2, <4>3
    <3> HIDE DEF first, passed, failed
    <3>2. ApproverIds(e.restore.approvals) \cap ApproverIds(e.approvals) = {}
      BY <3>1, <1>4, <1>6
    <3>3. TypeOK /\ RestoreApart /\ e.status # "REQUESTED"  BY <3>1 DEF SeparationInv
    <3> QED  BY <2>1, <3>1, <3>2, <3>3, ApartReplaced
  <2> QED  BY <1>5, <2>1
<1>9. CASE UNCHANGED <<ledger, commands>>  BY <1>8, <1>9, SeparationStill
<1>10. CASE IssueCommand(cmd) /\ GatePasses(cmd)
  <2>1. cmd \in Command  BY <1>2, CommandType, ConstantsOK DEF SeparationInv
  <2>2. PICK c \in Command : c = cmd  BY <2>1
  <2>3. c.kill = k /\ c.request = "restore" /\ c.approvals = approvals
    BY <2>2 DEF BuildCommand
  <2>4. GatePasses(c) /\ IssueCommand(c)  BY <1>10, <2>2
  <2>5. ApproverIds(c.approvals) \cap ledger[c.feature].lastKillApprovers = {}
    BY <2>3, <2>4 DEF GatePasses, ApprovalRule
  <2> QED  BY <1>4, <1>8, <2>3, <2>4, <2>5, SeparationIssued
<1> QED  BY <1>5, <1>9, <1>10

\* Declining, and asking for a restore, add no approver.
LEMMA SeparationOneRow ==
  ASSUME SeparationInv, TypeOK', NEW k \in DOMAIN kills,
         Reject(k) \/ RejectRestore(k) \/ \E u \in Users : RequestRestore(u, k)
  PROVE  SeparationInv'
<1>1. kills[k] \in Kill /\ kills[k].restore \in RestoreRow
  <2>1. kills[k] \in Kill  BY ElementOfSeq, LenProperties DEF SeparationInv, TypeOK
  <2> QED  BY <2>1 DEF Kill, RestoreRow
<1>2. UNCHANGED <<ledger, commands>>  BY DEF Reject, RejectRestore, RequestRestore
<1>3. /\ kills[k].status = "REQUESTED" => kills[k].restore.approvals = << >>
      /\ ApproverIds(kills[k].restore.approvals) \cap ApproverIds(kills[k].approvals) = {}
  BY DEF SeparationInv, RestoreApart
<1>4. RestoreApart' /\ \A l \in DOMAIN kills : KillStands(l)
  <2>1. CASE Reject(k)
    <3> DEFINE e == [kills[k] EXCEPT !.status = "REJECTED"]
    <3>1. e \in Kill /\ kills' = [kills EXCEPT ![k] = e]
      BY <1>1, <2>1, KillKeepsType DEF Reject, KillStatuses
    <3>2. /\ e.status = "REJECTED" /\ kills[k].status = "REQUESTED"
          /\ e.approvals = kills[k].approvals /\ e.restore = kills[k].restore
      BY <1>1, <2>1 DEF Kill, Reject, Pending
    <3> HIDE DEF e
    <3> QED  BY <1>3, <3>1, <3>2, ApartReplaced DEF SeparationInv
  <2>2. CASE RejectRestore(k)
    <3> DEFINE re == [kills[k].restore EXCEPT !.status = "REJECTED"]
               e  == [kills[k] EXCEPT !.restore = re]
    <3>1. re \in RestoreRow /\ re.approvals = kills[k].restore.approvals
      BY <1>1 DEF RestoreRow, RestoreStatuses
    <3>2. kills' = [kills EXCEPT ![k] = e]  BY <2>2 DEF RejectRestore
    <3> HIDE DEF re
    <3>3. e \in Kill  BY <1>1, <3>1, KillKeepsType DEF RestoreRow
    <3>4. e.approvals = kills[k].approvals /\ e.restore = re /\ e.status = kills[k].status
      BY <1>1 DEF Kill
    <3> HIDE DEF e
    <3> QED  BY <1>3, <3>1, <3>2, <3>3, <3>4, ApartReplaced DEF SeparationInv
  <2>3. ASSUME NEW u \in Users, RequestRestore(u, k)
        PROVE  RestoreApart' /\ \A l \in DOMAIN kills : KillStands(l)
    <3> DEFINE re == [status |-> "REQUESTED", requestedBy |-> u, approvals |-> << >>]
               e  == [kills[k] EXCEPT !.restore = re]
    <3>1. re \in RestoreRow /\ re.approvals = << >>  BY DEF RestoreRow, RestoreStatuses
    <3>2. kills' = [kills EXCEPT ![k] = e]  BY <2>3 DEF RequestRestore
    <3>3. ApproverIds(<< >>) = {}  BY DEF ApproverIds
    <3> HIDE DEF re
    <3>4. e \in Kill  BY <1>1, <3>1, KillKeepsType DEF RestoreRow
    <3>5. e.approvals = kills[k].approvals /\ e.restore = re /\ e.status = kills[k].status
      BY <1>1 DEF Kill
    <3> HIDE DEF e
    <3> QED  BY <3>1, <3>2, <3>3, <3>4, <3>5, ApartReplaced DEF SeparationInv
  <2> QED  BY <2>1, <2>2, <2>3
<1> QED  BY <1>2, <1>4, SeparationStill

\* The steps that leave requests, ledger and commands alone.
LEMMA SeparationFrame ==
  ASSUME SeparationInv, TypeOK', UNCHANGED <<kills, ledger, commands>>  PROVE  SeparationInv'
<1>1. RestoreApart'  BY DEF SeparationInv, RestoreApart
<1>2. \A k \in DOMAIN kills : KillStands(k)  BY DEF KillStands
<1> QED  BY <1>1, <1>2, SeparationStill

\* No handler breaks the separation.
LEMMA SeparationNext == ASSUME SeparationInv, [Next]_vars PROVE SeparationInv'
<1>1. TypeOK'  BY ConstantsOK, TypeNext DEF SeparationInv
<1>2. ASSUME NEW u, NEW f, NEW vins, NEW category, NEW basis,
             RequestKill(u, f, vins, category, basis) \/ TrialExpired(f, u)
      PROVE  SeparationInv'
  BY <1>1, <1>2, SeparationIssue DEF RequestKill, TrialExpired
<1>3. ASSUME NEW u \in Users, NEW r \in Roles, NEW k \in DOMAIN kills, Approve(u, r, k)
      PROVE  SeparationInv'
  BY <1>1, <1>3, SeparationApprove
<1>4. ASSUME NEW u \in Users, NEW r \in Roles, NEW k \in DOMAIN kills, ApproveRestore(u, r, k)
      PROVE  SeparationInv'
  BY <1>1, <1>4, SeparationApproveRestore
<1>5. ASSUME NEW k \in DOMAIN kills,
             Reject(k) \/ RejectRestore(k) \/ \E u \in Users : RequestRestore(u, k)
      PROVE  SeparationInv'
  BY <1>1, <1>5, SeparationOneRow
<1>6. ASSUME NEW f, NEW x, Transition(f, x) \/ UpdateProfile(f, x) \/ ConfirmProfile(f)
      PROVE  SeparationInv'
  BY <1>1, <1>6, SeparationFrame DEF Transition, UpdateProfile, ConfirmProfile
<1>7. CASE Tick  BY <1>1, <1>7, SeparationFrame DEF Tick
<1>8. CASE UNCHANGED vars  BY <1>1, <1>8, SeparationFrame DEF vars
<1> QED  BY <1>2, <1>3, <1>4, <1>5, <1>6, <1>7, <1>8 DEF Next

\* With no request and no command nobody has approved anything.
LEMMA SeparationInit == ASSUME Init PROVE SeparationInv
<1>1. TypeOK  BY ConstantsOK, TypeInit
<1>2. DOMAIN kills = {} /\ DOMAIN commands = {}  BY DEF Init
<1> QED  BY <1>1, <1>2
         DEF SeparationInv, RestoreApart, CommandsStand, LedgerRemembers, RestoreSeparation

\* Nobody who approved a restore had approved its kill, nor the last kill issued on the
\* feature before it (RestoreService.approve with the gate's FFG-PLT-005).
THEOREM SeparationAlways == Spec => []RestoreSeparation
<1>1. Init => SeparationInv  BY SeparationInit
<1>2. SeparationInv /\ [Next]_vars => SeparationInv'  BY SeparationNext
<1>3. SeparationInv => RestoreSeparation  BY DEF SeparationInv
<1> QED  BY <1>1, <1>2, <1>3, PTL DEF Spec

-----------------------------------------------------------------------------
(* Statuses and commands *)

\* StatusMatchesCommands for one kill.
Matches(k) ==
  LET on  == CommandsOf(k, "deactivate")
      off == CommandsOf(k, "restore")
  IN /\ kills[k].status \in {"REQUESTED", "REJECTED"} <=> on = {}
     /\ kills[k].status = "RELEASED" <=> off # {}
     /\ \A i, j \in on : i = j
     /\ \A i, j \in off : i = j
     /\ \A i \in off : \E j \in on : j < i

MatchInv == SignedInv /\ StatusMatchesCommands

\* A step that issues nothing and turns kill k within its half of the statuses.
LEMMA MatchKept ==
  ASSUME TypeOK, StatusMatchesCommands, NEW k \in DOMAIN kills, NEW e \in Kill,
         kills' = [kills EXCEPT ![k] = e], commands' = commands,
         \/ e.status = kills[k].status
         \/ kills[k].status = "REQUESTED" /\ e.status = "REJECTED"
  PROVE  StatusMatchesCommands'
<1>1. /\ DOMAIN kills' = DOMAIN kills
      /\ kills'[k] = e
      /\ \A l \in DOMAIN kills : l # k => kills'[l] = kills[l]
  BY RowReplaced DEF TypeOK
<1> SUFFICES ASSUME NEW l \in DOMAIN kills  PROVE Matches(l)'
  BY <1>1 DEF StatusMatchesCommands, Matches
<1>2. Matches(l)  BY DEF StatusMatchesCommands, Matches
<1>3. \A request : CommandsOf(l, request)' = CommandsOf(l, request)  BY DEF CommandsOf
<1>4. /\ kills'[l].status \in {"REQUESTED", "REJECTED"} <=> kills[l].status \in {"REQUESTED", "REJECTED"}
      /\ kills'[l].status = "RELEASED" <=> kills[l].status = "RELEASED"
  BY <1>1
<1> QED  BY <1>2, <1>3, <1>4 DEF Matches

\* A step that issues the deactivation of a waiting kill, or the restore of an active one.
LEMMA MatchIssued ==
  ASSUME TypeOK, StatusMatchesCommands, NEW k \in DOMAIN kills, NEW e \in Kill,
         kills' = [kills EXCEPT ![k] = e], NEW cmd \in Command,
         commands' = Append(commands, cmd), cmd.kill = k,
         \/ cmd.request = "deactivate" /\ kills[k].status = "REQUESTED" /\ e.status = "ACTIVE"
         \/ cmd.request = "restore" /\ kills[k].status = "ACTIVE" /\ e.status = "RELEASED"
  PROVE  StatusMatchesCommands'
<1> DEFINE n == Len(commands) + 1
<1>1. /\ DOMAIN kills' = DOMAIN kills
      /\ kills'[k] = e
      /\ \A l \in DOMAIN kills : l # k => kills'[l] = kills[l]
  BY RowReplaced DEF TypeOK
<1>2. /\ DOMAIN commands' = DOMAIN commands \cup {n}
      /\ \A i \in DOMAIN commands : commands'[i] = commands[i] /\ i < n
      /\ commands'[n] = cmd
      /\ n \notin DOMAIN commands
  BY RowAdded, LenProperties DEF TypeOK
<1> HIDE DEF n
<1>3. ASSUME NEW l, NEW request
      PROVE  CommandsOf(l, request)' = IF cmd.kill = l /\ cmd.request = request
                                         THEN CommandsOf(l, request) \cup {n}
                                         ELSE CommandsOf(l, request)
  BY <1>2 DEF CommandsOf
<1> SUFFICES ASSUME NEW l \in DOMAIN kills  PROVE Matches(l)'
  BY <1>1 DEF StatusMatchesCommands, Matches
<1>4. Matches(l)  BY DEF StatusMatchesCommands, Matches
<1>5. CASE l # k
  <2>1. \A request : CommandsOf(l, request)' = CommandsOf(l, request)  BY <1>3, <1>5
  <2>2. kills'[l] = kills[l]  BY <1>1, <1>5
  <2> QED  BY <1>4, <2>1, <2>2 DEF Matches
<1>6. CASE l = k /\ cmd.request = "deactivate"
  <2>1. CommandsOf(k, "deactivate") = {} /\ CommandsOf(k, "restore") = {}
    BY <1>4, <1>6 DEF Matches
  <2>2. CommandsOf(k, "deactivate")' = {n} /\ CommandsOf(k, "restore")' = {}
    BY <1>3, <1>6, <2>1
  <2>3. kills'[k].status = "ACTIVE"  BY <1>1, <1>6
  <2> QED  BY <1>6, <2>2, <2>3 DEF Matches
<1>7. CASE l = k /\ cmd.request = "restore"
  <2>1. /\ CommandsOf(k, "deactivate") # {} /\ CommandsOf(k, "restore") = {}
        /\ \A i, j \in CommandsOf(k, "deactivate") : i = j
    BY <1>4, <1>7 DEF Matches
  <2>2. /\ CommandsOf(k, "deactivate")' = CommandsOf(k, "deactivate")
        /\ CommandsOf(k, "restore")' = {n}
    BY <1>3, <1>7, <2>1
  <2>3. \E j \in CommandsOf(k, "deactivate") : j < n  BY <1>2, <2>1 DEF CommandsOf
  <2>4. kills'[k].status = "RELEASED"  BY <1>1, <1>7
  <2> QED  BY <1>7, <2>1, <2>2, <2>3, <2>4 DEF Matches
<1>8. cmd.request = "deactivate" \/ cmd.request = "restore"  BY DEF Command
<1> QED  BY <1>5, <1>6, <1>7, <1>8

\* No command names a request that has just been made.
LEMMA MatchIssue ==
  ASSUME MatchInv, NEW u, NEW f, NEW vins, NEW category, NEW basis,
         Issue(u, f, vins, category, basis)
  PROVE  StatusMatchesCommands'
<1> DEFINE n == Len(kills) + 1
<1>1. commands' = commands  BY DEF Issue
<1>2. PICK e : kills' = Append(kills, e) /\ e.status = "REQUESTED"  BY DEF Issue
<1>3. /\ DOMAIN kills' = DOMAIN kills \cup {n}
      /\ \A k \in DOMAIN kills : kills'[k] = kills[k]
      /\ kills'[n] = e
      /\ n \notin DOMAIN kills
  BY <1>2 DEF MatchInv, SignedInv, TypeOK
<1> HIDE DEF n
<1>4. \A k, request : CommandsOf(k, request)' = CommandsOf(k, request)
  BY <1>1 DEF CommandsOf
<1> SUFFICES ASSUME NEW k \in DOMAIN kills'  PROVE Matches(k)'
  BY DEF StatusMatchesCommands, Matches
<1>5. CASE k \in DOMAIN kills
  <2>1. Matches(k)  BY <1>5 DEF MatchInv, StatusMatchesCommands, Matches
  <2>2. kills'[k] = kills[k]  BY <1>3, <1>5
  <2> QED  BY <1>4, <2>1, <2>2 DEF Matches
<1>6. CASE k = n
  <2>1. \A request : CommandsOf(n, request) = {}
    BY <1>3 DEF CommandsOf, MatchInv, SignedInv, CommandsGood, CommandGood
  <2>2. kills'[k].status = "REQUESTED"  BY <1>2, <1>3, <1>6
  <2>3. \A request : CommandsOf(k, request)' = {}  BY <1>4, <1>6, <2>1
  <2> QED  BY <2>2, <2>3 DEF Matches
<1> QED  BY <1>3, <1>5, <1>6

\* An approval issues the deactivation of a waiting kill, or nothing.
LEMMA MatchApprove ==
  ASSUME MatchInv, NEW u \in Users, NEW r \in Roles, NEW k \in DOMAIN kills, Approve(u, r, k)
  PROVE  StatusMatchesCommands'
<1> DEFINE approvals == Append(kills[k].approvals, [by |-> u, role |-> r])
           cmd       == BuildCommand(k, "deactivate", approvals)
           first     == [kills[k] EXCEPT !.approvals = approvals]
           passed    == [kills[k] EXCEPT !.approvals = approvals, !.status = "ACTIVE"]
           failed    == [kills[k] EXCEPT !.approvals = approvals, !.status = "REJECTED"]
<1>1. TypeOK /\ kills[k] \in Kill
  BY ElementOfSeq, LenProperties DEF MatchInv, SignedInv, TypeOK
<1>2. approvals \in Seq(Approval)  BY <1>1, ApprovalsGrow DEF Kill
<1>3. kills[k].status = "REQUESTED"  BY DEF Approve, Pending
<1> HIDE DEF approvals
<1>4. \/ kills' = [kills EXCEPT ![k] = first] /\ commands' = commands
      \/ kills' = [kills EXCEPT ![k] = passed] /\ commands' = Append(commands, cmd)
      \/ kills' = [kills EXCEPT ![k] = failed] /\ commands' = commands
  BY DEF Approve, IssueCommand, approvals
<1>5. first \in Kill /\ passed \in Kill /\ failed \in Kill
  BY <1>1, <1>2, KillKeepsType DEF KillStatuses
<1>6. first.status = "REQUESTED" /\ passed.status = "ACTIVE" /\ failed.status = "REJECTED"
  BY <1>1, <1>3 DEF Kill
<1>7. PICK c \in Command : c = cmd  BY <1>1, <1>2, CommandType, ConstantsOK
<1>8. c.kill = k /\ c.request = "deactivate"  BY <1>7 DEF BuildCommand
<1> HIDE DEF first, passed, failed, cmd
<1>9. CASE kills' = [kills EXCEPT ![k] = first] /\ commands' = commands
  BY <1>1, <1>3, <1>5, <1>6, <1>9, MatchKept DEF MatchInv
<1>10. CASE kills' = [kills EXCEPT ![k] = failed] /\ commands' = commands
  BY <1>1, <1>3, <1>5, <1>6, <1>10, MatchKept DEF MatchInv
<1>11. CASE kills' = [kills EXCEPT ![k] = passed] /\ commands' = Append(commands, c)
  BY <1>1, <1>3, <1>5, <1>6, <1>8, <1>11, MatchIssued DEF MatchInv
<1> QED  BY <1>4, <1>7, <1>9, <1>10, <1>11

\* An approval of a restore issues the restore of an active kill, or nothing.
LEMMA MatchApproveRestore ==
  ASSUME MatchInv, NEW u \in Users, NEW r \in Roles, NEW k \in DOMAIN kills,
         ApproveRestore(u, r, k)
  PROVE  StatusMatchesCommands'
<1> DEFINE approvals == Append(kills[k].restore.approvals, [by |-> u, role |-> r])
           restore   == [kills[k].restore EXCEPT !.approvals = approvals]
           cmd       == BuildCommand(k, "restore", approvals)
           granted   == [restore EXCEPT !.status = "APPROVED"]
           refused   == [restore EXCEPT !.status = "REJECTED"]
           first     == [kills[k] EXCEPT !.restore = restore]
           passed    == [kills[k] EXCEPT !.status = "RELEASED", !.restore = granted]
           failed    == [kills[k] EXCEPT !.restore = refused]
<1>1. TypeOK /\ kills[k] \in Kill
  BY ElementOfSeq, LenProperties DEF MatchInv, SignedInv, TypeOK
<1>2. kills[k].restore \in RestoreRow /\ approvals \in Seq(Approval)
  BY <1>1, ApprovalsGrow DEF Kill, RestoreRow
<1>3. kills[k].status = "ACTIVE"  BY DEF ApproveRestore
<1>4. \/ kills' = [kills EXCEPT ![k] = first] /\ commands' = commands
      \/ kills' = [kills EXCEPT ![k] = passed] /\ commands' = Append(commands, cmd)
      \/ kills' = [kills EXCEPT ![k] = failed] /\ commands' = commands
  <2> HIDE DEF approvals
  <2> QED  BY DEF ApproveRestore, IssueCommand, approvals
<1> HIDE DEF approvals
<1>5. restore \in RestoreRow /\ granted \in RestoreRow /\ refused \in RestoreRow
  BY <1>2 DEF RestoreRow, RestoreStatuses
<1> HIDE DEF restore, granted, refused
<1>6. first \in Kill /\ passed \in Kill /\ failed \in Kill
  BY <1>1, <1>5, KillKeepsType DEF KillStatuses, RestoreRow
<1>7. first.status = "ACTIVE" /\ passed.status = "RELEASED" /\ failed.status = "ACTIVE"
  BY <1>1, <1>3 DEF Kill
<1>8. PICK c \in Command : c = cmd  BY <1>1, <1>2, CommandType, ConstantsOK
<1>9. c.kill = k /\ c.request = "restore"  BY <1>8 DEF BuildCommand
<1> HIDE DEF first, passed, failed, cmd
<1>10. CASE kills' = [kills EXCEPT ![k] = first] /\ commands' = commands
  BY <1>1, <1>3, <1>6, <1>7, <1>10, MatchKept DEF MatchInv
<1>11. CASE kills' = [kills EXCEPT ![k] = failed] /\ commands' = commands
  BY <1>1, <1>3, <1>6, <1>7, <1>11, MatchKept DEF MatchInv
<1>12. CASE kills' = [kills EXCEPT ![k] = passed] /\ commands' = Append(commands, c)
  BY <1>1, <1>3, <1>6, <1>7, <1>9, <1>12, MatchIssued DEF MatchInv
<1> QED  BY <1>4, <1>8, <1>10, <1>11, <1>12

\* Declining a waiting kill, and what is done to a restore short of its second approval.
LEMMA MatchOneRow ==
  ASSUME MatchInv, NEW k \in DOMAIN kills,
         Reject(k) \/ RejectRestore(k) \/ \E u \in Users : RequestRestore(u, k)
  PROVE  StatusMatchesCommands'
<1>1. TypeOK /\ kills[k] \in Kill
  BY ElementOfSeq, LenProperties DEF MatchInv, SignedInv, TypeOK
<1>2. kills[k].restore \in RestoreRow  BY <1>1 DEF Kill, RestoreRow
<1>3. CASE Reject(k)
  <2> DEFINE e == [kills[k] EXCEPT !.status = "REJECTED"]
  <2>1. e \in Kill /\ kills' = [kills EXCEPT ![k] = e] /\ commands' = commands
    BY <1>1, <1>3, KillKeepsType DEF Reject, KillStatuses
  <2>2. e.status = "REJECTED" /\ kills[k].status = "REQUESTED"
    BY <1>1, <1>3 DEF Kill, Reject, Pending
  <2> HIDE DEF e
  <2> QED  BY <1>1, <2>1, <2>2, MatchKept DEF MatchInv
<1>4. CASE RejectRestore(k) \/ \E u \in Users : RequestRestore(u, k)
  <2>1. PICK re \in RestoreRow :
          kills' = [kills EXCEPT ![k] = [@ EXCEPT !.restore = re]] /\ commands' = commands
    <3>1. \A u \in Users :
            [status |-> "REQUESTED", requestedBy |-> u, approvals |-> << >>] \in RestoreRow
      BY DEF RestoreRow, RestoreStatuses
    <3>2. [kills[k].restore EXCEPT !.status = "REJECTED"] \in RestoreRow
      BY <1>2 DEF RestoreRow, RestoreStatuses
    <3> QED  BY <1>4, <3>1, <3>2 DEF RejectRestore, RequestRestore
  <2> DEFINE e == [kills[k] EXCEPT !.restore = re]
  <2>2. e \in Kill  BY <1>1, KillKeepsType DEF RestoreRow
  <2>3. e.status = kills[k].status  BY <1>1 DEF Kill
  <2>4. kills' = [kills EXCEPT ![k] = e] /\ commands' = commands  BY <2>1
  <2> HIDE DEF e
  <2> QED  BY <1>1, <2>2, <2>3, <2>4, MatchKept DEF MatchInv
<1> QED  BY <1>3, <1>4

\* No handler lets statuses and commands drift apart.
LEMMA MatchNext == ASSUME MatchInv, [Next]_vars PROVE MatchInv'
<1>1. SignedInv'  BY ConstantsOK, SignedNext DEF MatchInv
<1> SUFFICES StatusMatchesCommands'
  BY <1>1 DEF MatchInv
<1>2. ASSUME NEW u, NEW f, NEW vins, NEW category, NEW basis,
             RequestKill(u, f, vins, category, basis) \/ TrialExpired(f, u)
      PROVE  StatusMatchesCommands'
  BY <1>2, MatchIssue DEF RequestKill, TrialExpired
<1>3. ASSUME NEW u \in Users, NEW r \in Roles, NEW k \in DOMAIN kills,
             Approve(u, r, k) \/ ApproveRestore(u, r, k)
      PROVE  StatusMatchesCommands'
  BY <1>3, MatchApprove, MatchApproveRestore
<1>4. ASSUME NEW k \in DOMAIN kills,
             Reject(k) \/ RejectRestore(k) \/ \E u \in Users : RequestRestore(u, k)
      PROVE  StatusMatchesCommands'
  BY <1>4, MatchOneRow
<1>5. ASSUME UNCHANGED <<kills, commands>>  PROVE StatusMatchesCommands'
  BY <1>5 DEF MatchInv, StatusMatchesCommands, CommandsOf
<1>6. ASSUME NEW f, NEW x, Transition(f, x) \/ UpdateProfile(f, x) \/ ConfirmProfile(f)
      PROVE  UNCHANGED <<kills, commands>>
  BY <1>6 DEF Transition, UpdateProfile, ConfirmProfile
<1>7. Tick \/ UNCHANGED vars => UNCHANGED <<kills, commands>>  BY DEF Tick, vars
<1> QED  BY <1>2, <1>3, <1>4, <1>5, <1>6, <1>7 DEF MatchInv, Next

\* Nothing was sent for a kill that waits or was refused, one deactivation for an active
\* one, and one restore after it for a released one (KillService and RestoreService with
\* issueCommand).
THEOREM MatchAlways == Spec => []StatusMatchesCommands
<1>1. Init => MatchInv
  <2> SUFFICES ASSUME Init PROVE MatchInv  OBVIOUS
  <2>1. SignedInv  BY ConstantsOK, SignedInit
  <2>2. DOMAIN kills = {}  BY DEF Init
  <2>3. StatusMatchesCommands  BY <2>2 DEF StatusMatchesCommands
  <2> QED  BY <2>1, <2>3 DEF MatchInv
<1>2. MatchInv /\ [Next]_vars => MatchInv'  BY MatchNext
<1>3. MatchInv => StatusMatchesCommands  BY DEF MatchInv
<1> QED  BY <1>1, <1>2, <1>3, PTL DEF Spec

-----------------------------------------------------------------------------
(* Overlapping kills *)

\* In force, or still waiting for its approvals.
Live(k) == kills[k].status = "ACTIVE" \/ Pending(k)

\* What no handler changes of a stored request; it never comes back to life.
LivesOnly(k) ==
  /\ kills'[k].feature = kills[k].feature
  /\ kills'[k].vins = kills[k].vins
  /\ kills'[k].category = kills[k].category
  /\ Live(k)' => Live(k)

OverlapInv == TypeOK /\ OverlapOnlyOverCommercial

\* A step that adds no request and revives none adds no overlap.
LEMMA NoNewOverlap ==
  ASSUME OverlapOnlyOverCommercial, DOMAIN kills' = DOMAIN kills,
         \A k \in DOMAIN kills : LivesOnly(k)
  PROVE  OverlapOnlyOverCommercial'
  BY DEF OverlapOnlyOverCommercial, LivesOnly, Live

\* A new request overlaps a live one only if that is commercial and the new one is not.
LEMMA OverlapIssue ==
  ASSUME OverlapInv, NEW u, NEW f, NEW vins, NEW category, NEW basis,
         Issue(u, f, vins, category, basis)
  PROVE  OverlapOnlyOverCommercial'
<1> DEFINE n == Len(kills) + 1
<1>1. PICK e : /\ kills' = Append(kills, e)
               /\ e.feature = f /\ e.vins = vins /\ e.category = category
  BY DEF Issue
<1>2. /\ DOMAIN kills' = DOMAIN kills \cup {n}
      /\ \A k \in DOMAIN kills : kills'[k] = kills[k] /\ k < n
      /\ kills'[n] = e
  BY <1>1 DEF OverlapInv, TypeOK
<1>3. now' = now  BY DEF Issue
<1>4. \A k \in DOMAIN kills : Live(k)' = Live(k)  BY <1>2, <1>3 DEF Live, Pending
<1>5. DOMAIN kills \subseteq Nat /\ n \in Nat  BY DEF OverlapInv, TypeOK
<1> HIDE DEF n
<1> SUFFICES ASSUME NEW k \in DOMAIN kills', NEW l \in DOMAIN kills', k < l,
                    kills'[k].feature = kills'[l].feature,
                    kills'[k].vins \cap kills'[l].vins # {},
                    Live(k)', Live(l)'
             PROVE  kills'[k].category = "COMMERCIAL" /\ kills'[l].category # "COMMERCIAL"
  BY DEF OverlapOnlyOverCommercial, Live
<1>6. k \in DOMAIN kills  BY <1>2, <1>5
<1>7. CASE l \in DOMAIN kills
  BY <1>2, <1>4, <1>6, <1>7 DEF OverlapInv, OverlapOnlyOverCommercial, Live
<1>8. CASE l = n
  <2>1. k \notin ActiveKills(f, vins, category)  BY DEF Issue
  <2>2. Live(k) /\ kills[k].feature = f /\ kills[k].vins \cap vins # {}
    BY <1>1, <1>2, <1>4, <1>6, <1>8
  <2>3. kills[k].category = "COMMERCIAL" /\ category # "COMMERCIAL"
    BY <1>6, <2>1, <2>2 DEF ActiveKills, Live
  <2> QED  BY <1>1, <1>2, <1>6, <1>8, <2>3
<1> QED  BY <1>2, <1>7, <1>8

\* Every handler on a stored request leaves it live only if it was, and the others alone.
LEMMA HandlersReviveNone ==
  ASSUME TypeOK, NEW k \in DOMAIN kills,
         \/ \E u \in Users, r \in Roles : Approve(u, r, k) \/ ApproveRestore(u, r, k)
         \/ Reject(k) \/ RejectRestore(k) \/ \E u \in Users : RequestRestore(u, k)
  PROVE  DOMAIN kills' = DOMAIN kills /\ \A l \in DOMAIN kills : LivesOnly(l)
<1>1. kills[k] \in Kill  BY ElementOfSeq, LenProperties DEF TypeOK
<1>2. now' = now
  BY DEF Approve, ApproveRestore, Reject, RejectRestore, RequestRestore
<1> DEFINE Keeps(e) ==
             /\ e.feature = kills[k].feature /\ e.vins = kills[k].vins
             /\ e.category = kills[k].category /\ e.expiresAt = kills[k].expiresAt
           Stays(e) ==
             \/ e.status = kills[k].status
             \/ Live(k)
             \/ e.status \notin {"ACTIVE", "REQUESTED"}
<1>3. PICK e : kills' = [kills EXCEPT ![k] = e] /\ Keeps(e) /\ Stays(e)
  <2>1. ASSUME NEW approvals,
               \/ kills' = [kills EXCEPT ![k].approvals = approvals]
               \/ \E status : kills' = [kills EXCEPT ![k] = [@ EXCEPT !.approvals = approvals,
                                                                     !.status = status]],
               Live(k)
        PROVE  \E e : kills' = [kills EXCEPT ![k] = e] /\ Keeps(e) /\ Stays(e)
    BY <1>1, <2>1 DEF Kill
  <2>2. ASSUME NEW restore,
               \/ kills' = [kills EXCEPT ![k].restore = restore]
               \/ kills' = [kills EXCEPT ![k] = [@ EXCEPT !.restore = restore,
                                                        !.status = "RELEASED"]]
        PROVE  \E e : kills' = [kills EXCEPT ![k] = e] /\ Keeps(e) /\ Stays(e)
    <3>1. ASSUME NEW e, e = [kills[k] EXCEPT !.restore = restore]
                        \/ e = [kills[k] EXCEPT !.restore = restore, !.status = "RELEASED"]
          PROVE  Keeps(e) /\ Stays(e)
      BY <1>1, <3>1 DEF Kill
    <3>2. \/ kills' = [kills EXCEPT ![k] = [kills[k] EXCEPT !.restore = restore]]
          \/ kills' = [kills EXCEPT ![k] = [kills[k] EXCEPT !.restore = restore,
                                                          !.status = "RELEASED"]]
      BY <2>2, Zenon
    <3> HIDE DEF Keeps, Stays
    <3> QED  BY <3>1, <3>2, Zenon
  <2>3. CASE Reject(k)
    <3> DEFINE e == [kills[k] EXCEPT !.status = "REJECTED"]
    <3>1. kills' = [kills EXCEPT ![k] = e]  BY <2>3 DEF Reject
    <3>2. Keeps(e) /\ Stays(e)  BY <1>1 DEF Kill
    <3> QED  BY <3>1, <3>2
  <2>4. CASE \E u \in Users, r \in Roles : Approve(u, r, k)
    BY <2>1, <2>4 DEF Approve, Live
  <2>5. CASE \E u \in Users, r \in Roles : ApproveRestore(u, r, k)
    <3>1. PICK u \in Users, r \in Roles : ApproveRestore(u, r, k)  BY <2>5
    <3>2. PICK restore :
            \/ kills' = [kills EXCEPT ![k].restore = restore]
            \/ kills' = [kills EXCEPT ![k] = [@ EXCEPT !.restore = restore,
                                                     !.status = "RELEASED"]]
      BY <3>1 DEF ApproveRestore
    <3> HIDE DEF Keeps, Stays
    <3> QED  BY <2>2, <3>2
  <2>6. CASE RejectRestore(k) \/ \E u \in Users : RequestRestore(u, k)
    BY <2>2, <2>6 DEF RejectRestore, RequestRestore
  <2> QED  BY <2>3, <2>4, <2>5, <2>6
<1>4. /\ DOMAIN kills' = DOMAIN kills
      /\ kills'[k] = e
      /\ \A l \in DOMAIN kills : l # k => kills'[l] = kills[l]
  BY <1>3 DEF TypeOK
<1> SUFFICES ASSUME NEW l \in DOMAIN kills  PROVE LivesOnly(l)
  BY <1>4
<1>5. CASE l = k  BY <1>2, <1>3, <1>4, <1>5 DEF LivesOnly, Live, Pending
<1>6. CASE l # k  BY <1>2, <1>4, <1>6 DEF LivesOnly, Live, Pending
<1> QED  BY <1>5, <1>6

\* No step makes two kills overlap that may not.
LEMMA OverlapNext == ASSUME OverlapInv, [Next]_vars PROVE OverlapInv'
<1>1. TypeOK'  BY ConstantsOK, TypeNext DEF OverlapInv
<1> SUFFICES OverlapOnlyOverCommercial'
  BY <1>1 DEF OverlapInv
<1>2. ASSUME NEW u, NEW f, NEW vins, NEW category, NEW basis,
             RequestKill(u, f, vins, category, basis) \/ TrialExpired(f, u)
      PROVE  OverlapOnlyOverCommercial'
  BY <1>2, OverlapIssue DEF RequestKill, TrialExpired
<1>3. ASSUME NEW k \in DOMAIN kills,
             \/ \E u \in Users, r \in Roles : Approve(u, r, k) \/ ApproveRestore(u, r, k)
             \/ Reject(k) \/ RejectRestore(k) \/ \E u \in Users : RequestRestore(u, k)
      PROVE  OverlapOnlyOverCommercial'
  BY <1>3, HandlersReviveNone, NoNewOverlap DEF OverlapInv
<1>4. ASSUME UNCHANGED kills, now' >= now  PROVE OverlapOnlyOverCommercial'
  <2>1. \A k \in DOMAIN kills : LivesOnly(k)
    <3> SUFFICES ASSUME NEW k \in DOMAIN kills  PROVE LivesOnly(k)
      OBVIOUS
    <3>1. kills[k] \in Kill  BY ElementOfSeq, LenProperties DEF OverlapInv, TypeOK
    <3>2. now \in Nat /\ now' \in Nat  BY <1>1 DEF OverlapInv, TypeOK
    <3>3. kills[k].expiresAt \in Nat  BY <3>1 DEF Kill
    <3> QED  BY <1>4, <3>2, <3>3 DEF LivesOnly, Live, Pending
  <2> QED  BY <1>4, <2>1, NoNewOverlap DEF OverlapInv
<1>5. ASSUME NEW f, NEW x, Transition(f, x) \/ UpdateProfile(f, x) \/ ConfirmProfile(f)
      PROVE  UNCHANGED <<kills, now>>
  BY <1>5 DEF Transition, UpdateProfile, ConfirmProfile
<1>6. now \in Nat  BY DEF OverlapInv, TypeOK
<1>7. Tick \/ UNCHANGED vars => UNCHANGED kills /\ now' >= now  BY <1>6 DEF Tick, vars
<1> QED  BY <1>2, <1>3, <1>4, <1>5, <1>6, <1>7 DEF Next

\* Two live kills of one feature share a vehicle only when the older one is commercial and
\* the newer one is not, whatever is asked, approved, declined or left to expire in between
\* (preview.activeKill in KillService).
THEOREM OverlapAlways == Spec => []OverlapOnlyOverCommercial
<1>1. Init => OverlapInv
  <2> SUFFICES ASSUME Init PROVE OverlapInv  OBVIOUS
  <2>1. TypeOK  BY ConstantsOK, TypeInit
  <2>2. DOMAIN kills = {}  BY DEF Init
  <2>3. OverlapOnlyOverCommercial  BY <2>2 DEF OverlapOnlyOverCommercial
  <2> QED  BY <2>1, <2>3 DEF OverlapInv
<1>2. OverlapInv /\ [Next]_vars => OverlapInv'  BY OverlapNext
<1>3. OverlapInv => OverlapOnlyOverCommercial  BY DEF OverlapInv
<1> QED  BY <1>1, <1>2, <1>3, PTL DEF Spec

-----------------------------------------------------------------------------
(* The refinement mapping *)

\* A handler that replaces kill k replaces its case.
LEMMA CaseReplaced ==
  ASSUME TypeOK, NEW k \in DOMAIN kills, NEW e \in Kill, kills' = [kills EXCEPT ![k] = e]
  PROVE  Cases' = [Cases EXCEPT ![k] = CaseOf(e)]
<1>1. /\ DOMAIN kills' = DOMAIN kills
      /\ kills'[k] = e
      /\ \A l \in DOMAIN kills : l # k => kills'[l] = kills[l]
  BY RowReplaced DEF TypeOK
<1>2. Cases' = [l \in DOMAIN kills |-> CaseOf(kills'[l])]  BY <1>1 DEF Cases
<1> HIDE DEF CaseOf
<1> QED  BY <1>1, <1>2 DEF Cases

\* A handler that adds a kill adds its case.
LEMMA CaseAdded ==
  ASSUME TypeOK, NEW e \in Kill, kills' = Append(kills, e)
  PROVE  Cases' = Append(Cases, CaseOf(e))
<1> DEFINE n == Len(kills)
<1>1. /\ DOMAIN kills = 1 .. n /\ n \in Nat
      /\ DOMAIN kills' = 1 .. n + 1
      /\ \A l \in 1 .. n : kills'[l] = kills[l]
      /\ kills'[n + 1] = e
  BY RowAdded, LenProperties DEF TypeOK
<1> HIDE DEF n
<1>2. Cases' = [l \in 1 .. n + 1 |-> CaseOf(kills'[l])]  BY <1>1 DEF Cases
<1>3. Cases = [l \in 1 .. n |-> CaseOf(kills[l])]  BY <1>1 DEF Cases
<1> DEFINE T == {CaseOf(kills[l]) : l \in 1 .. n} \cup {CaseOf(e)}
<1>4. Cases \in Seq(T) /\ Len(Cases) = n  BY <1>1, <1>3
<1> HIDE DEF CaseOf
<1>5. Append(Cases, CaseOf(e)) \in Seq(T) /\ Cases' \in Seq(T)
  <2>1. CaseOf(e) \in T /\ \A l \in 1 .. n + 1 : CaseOf(kills'[l]) \in T  BY <1>1
  <2> QED  BY <1>1, <1>2, <1>4, <2>1
<1>6. /\ Len(Append(Cases, CaseOf(e))) = n + 1
      /\ \A l \in 1 .. n : Append(Cases, CaseOf(e))[l] = Cases[l]
      /\ Append(Cases, CaseOf(e))[n + 1] = CaseOf(e)
  BY <1>1, <1>4, AppendProperties
<1>7. Len(Cases') = n + 1 /\ \A l \in 1 .. n + 1 : Cases'[l] = Append(Cases, CaseOf(e))[l]
  BY <1>1, <1>2, <1>3, <1>6
<1> QED  BY <1>1, <1>5, <1>6, <1>7, SeqEqual

\* Two different people.
IsPair(S) == \E p, q \in Users : p # q /\ S = {p, q}

\* Two signatures of different people make a pair.
LEMMA SignaturesMakePair ==
  ASSUME NEW approvals \in Seq(Approval), Len(approvals) = 2,
         approvals[1].by # approvals[2].by
  PROVE  IsPair(ApproverIds(approvals))
<1>1. ApproverIds(approvals) = {approvals[1].by, approvals[2].by}
  BY DEF ApproverIds
<1>2. 1 \in DOMAIN approvals /\ 2 \in DOMAIN approvals  BY LenProperties
<1>3. approvals[1] \in Approval /\ approvals[2] \in Approval  BY <1>2, ElementOfSeq, LenProperties
<1>4. approvals[1].by \in Users /\ approvals[2].by \in Users  BY <1>3 DEF Approval
<1> QED  BY <1>1, <1>4 DEF IsPair

-----------------------------------------------------------------------------
(* Every handler is a step of a case, or a stutter *)

\* What the other proofs establish in every state.
Known == SignedInv /\ SeparationInv

ControlStep == [Control!Next]_Cases

\* A new request is a case asked for.
LEMMA IssueAsks ==
  ASSUME Known, Known', NEW u \in Users \cup {System}, NEW f, NEW vins, NEW category, NEW basis,
         Issue(u, f, vins, category, basis)
  PROVE  ControlStep
<1>1. PICK e : /\ kills' = Append(kills, e)
               /\ e.status = "REQUESTED" /\ e.requestedBy = u
  BY DEF Issue
<1>2. e \in Kill
  <2>1. kills' \in Seq(Kill) /\ kills \in Seq(Kill)
    BY DEF Known, SeparationInv, TypeOK
  <2>2. Len(kills') = Len(kills) + 1 /\ kills'[Len(kills) + 1] = e /\ Len(kills) \in Nat
    BY <1>1, <2>1, LenProperties
  <2> QED  BY <2>1, <2>2, ElementOfSeq
<1>3. CaseOf(e) = [stage |-> "asked", asker |-> u, onBy |-> {}, offBy |-> {}]
  BY <1>1 DEF CaseOf, StageOf
<1>4. Cases' = Append(Cases, CaseOf(e))
  BY <1>1, <1>2, CaseAdded DEF Known, SeparationInv
<1>5. Control!Ask(u)  BY <1>3, <1>4 DEF Control!Ask
<1> QED  BY <1>5 DEF ControlStep, Control!Next

\* A handler that changes kill k is a stutter, or a step of its case.
LEMMA OneCase ==
  ASSUME TypeOK, NEW k \in DOMAIN kills, NEW e \in Kill, kills' = [kills EXCEPT ![k] = e],
         \/ CaseOf(e) = CaseOf(kills[k])
         \/ /\ kills[k].status = "REQUESTED" /\ e.status = "REJECTED"
            /\ e.requestedBy = kills[k].requestedBy
         \/ /\ kills[k].status = "REQUESTED" /\ e.status = "ACTIVE"
            /\ e.requestedBy = kills[k].requestedBy
            /\ IsPair(ApproverIds(e.approvals))
            /\ e.requestedBy \notin ApproverIds(e.approvals)
         \/ /\ kills[k].status = "ACTIVE" /\ e.status = "RELEASED"
            /\ e.requestedBy = kills[k].requestedBy /\ e.approvals = kills[k].approvals
            /\ IsPair(ApproverIds(e.restore.approvals))
            /\ ApproverIds(e.restore.approvals) \cap ApproverIds(e.approvals) = {}
  PROVE  ControlStep
<1>1. Cases' = [Cases EXCEPT ![k] = CaseOf(e)]  BY CaseReplaced
<1>2. k \in DOMAIN Cases /\ Cases[k] = CaseOf(kills[k])  BY DEF Cases
<1>4. CASE CaseOf(e) = CaseOf(kills[k])
  <2>1. Cases' = Cases  BY <1>1, <1>2, <1>4 DEF Cases
  <2> QED  BY <2>1 DEF ControlStep
<1>5. CASE /\ kills[k].status = "REQUESTED" /\ e.status = "REJECTED"
           /\ e.requestedBy = kills[k].requestedBy
  <2>1. Cases[k].stage = "asked" /\ CaseOf(e) = [Cases[k] EXCEPT !.stage = "refused"]
    BY <1>2, <1>5 DEF CaseOf, StageOf
  <2>2. Control!Refuse(k)  BY <1>1, <2>1 DEF Control!Refuse
  <2> QED  BY <1>2, <2>2 DEF ControlStep, Control!Next
<1>6. CASE /\ kills[k].status = "REQUESTED" /\ e.status = "ACTIVE"
           /\ e.requestedBy = kills[k].requestedBy
           /\ IsPair(ApproverIds(e.approvals))
           /\ e.requestedBy \notin ApproverIds(e.approvals)
  <2> DEFINE S == ApproverIds(e.approvals)
  <2>1. Cases[k] = [stage |-> "asked", asker |-> e.requestedBy, onBy |-> {}, offBy |-> {}]
    BY <1>2, <1>6 DEF CaseOf, StageOf
  <2>2. CaseOf(e) = [stage |-> "on", asker |-> e.requestedBy, onBy |-> S, offBy |-> {}]
    BY <1>6 DEF CaseOf, StageOf
  <2>3. PICK p, q \in Users : p # q /\ S = {p, q}  BY <1>6 DEF IsPair
  <2>4. p # e.requestedBy /\ q # e.requestedBy  BY <1>6, <2>3
  <2> HIDE DEF S
  <2>5. Cases[k].asker = e.requestedBy /\ Cases[k].stage = "asked"  BY <2>1
  <2>6. Cases' = [Cases EXCEPT ![k] =
                    [stage |-> "on", asker |-> @.asker, onBy |-> {p, q}, offBy |-> {}]]
    BY <1>1, <2>2, <2>3, <2>5
  <2>7. Control!TurnOn(k)  BY <2>3, <2>4, <2>5, <2>6, Zenon DEF Control!TurnOn
  <2> QED  BY <1>2, <2>7 DEF ControlStep, Control!Next
<1>7. CASE /\ kills[k].status = "ACTIVE" /\ e.status = "RELEASED"
           /\ e.requestedBy = kills[k].requestedBy /\ e.approvals = kills[k].approvals
           /\ IsPair(ApproverIds(e.restore.approvals))
           /\ ApproverIds(e.restore.approvals) \cap ApproverIds(e.approvals) = {}
  <2> DEFINE S == ApproverIds(e.restore.approvals)
             On == ApproverIds(e.approvals)
  <2>1. Cases[k] = [stage |-> "on", asker |-> e.requestedBy, onBy |-> On, offBy |-> {}]
    BY <1>2, <1>7 DEF CaseOf, StageOf
  <2>2. CaseOf(e) = [stage |-> "off", asker |-> e.requestedBy, onBy |-> On, offBy |-> S]
    BY <1>7 DEF CaseOf, StageOf
  <2>3. PICK p, q \in Users : p # q /\ S = {p, q}  BY <1>7 DEF IsPair
  <2>4. p \notin On /\ q \notin On  BY <1>7, <2>3
  <2> HIDE DEF S, On
  <2>5. Cases[k].asker = e.requestedBy /\ Cases[k].stage = "on" /\ Cases[k].onBy = On  BY <2>1
  <2>6. Cases' = [Cases EXCEPT ![k] =
                    [stage |-> "off", asker |-> @.asker, onBy |-> @.onBy, offBy |-> {p, q}]]
    BY <1>1, <2>2, <2>3, <2>5
  <2>7. Control!TurnOff(k)  BY <2>3, <2>4, <2>5, <2>6, Zenon DEF Control!TurnOff
  <2> QED  BY <1>2, <2>7 DEF ControlStep, Control!Next
<1> QED  BY <1>4, <1>5, <1>6, <1>7

\* An approval of a kill signs it, refuses it, or turns its case on.
LEMMA ApproveControls ==
  ASSUME Known, Known', NEW u \in Users, NEW r \in Roles, NEW k \in DOMAIN kills,
         Approve(u, r, k)
  PROVE  ControlStep
<1> DEFINE approvals == Append(kills[k].approvals, [by |-> u, role |-> r])
           first     == [kills[k] EXCEPT !.approvals = approvals]
           passed    == [kills[k] EXCEPT !.approvals = approvals, !.status = "ACTIVE"]
           failed    == [kills[k] EXCEPT !.approvals = approvals, !.status = "REJECTED"]
<1>1. kills[k] \in Kill  BY ElementOfSeq, LenProperties DEF Known, SeparationInv, TypeOK
<1>2. kills[k].status = "REQUESTED"  BY DEF Approve, Pending
<1>3. approvals \in Seq(Approval) /\ SignedBy(approvals, kills[k].requestedBy)
  BY <1>1, OneMoreSignature, Zenon DEF Approve, Kill, Known, SignedInv, KillsSigned
<1> HIDE DEF approvals
<1>4. \/ kills' = [kills EXCEPT ![k] = first]
      \/ kills' = [kills EXCEPT ![k] = passed] /\ Len(approvals) = 2
      \/ kills' = [kills EXCEPT ![k] = failed]
  BY DEF Approve, approvals
<1>5. first \in Kill /\ passed \in Kill /\ failed \in Kill
  BY <1>1, <1>3, KillKeepsType DEF KillStatuses
<1>6. TypeOK  BY DEF Known, SeparationInv
<1>7. CASE kills' = [kills EXCEPT ![k] = first]
  <2>1. /\ first.status = "REQUESTED" /\ first.requestedBy = kills[k].requestedBy
    BY <1>1, <1>2 DEF Kill
  <2>2. CaseOf(first) = CaseOf(kills[k])
    <3> HIDE DEF first
    <3> QED  BY <1>2, <2>1 DEF CaseOf
  <2> HIDE DEF first
  <2> QED  BY <1>5, <1>6, <1>7, <2>2, OneCase
<1>8. CASE kills' = [kills EXCEPT ![k] = passed] /\ Len(approvals) = 2
  <2>1. /\ passed.status = "ACTIVE" /\ passed.requestedBy = kills[k].requestedBy
        /\ passed.approvals = approvals
    BY <1>1 DEF Kill
  <2>2. /\ IsPair(ApproverIds(approvals))
        /\ kills[k].requestedBy \notin ApproverIds(approvals)
    BY <1>3, <1>8, SignaturesMakePair DEF SignedBy
  <2> HIDE DEF passed
  <2> QED  BY <1>2, <1>5, <1>6, <1>8, <2>1, <2>2, OneCase
<1>9. CASE kills' = [kills EXCEPT ![k] = failed]
  <2>1. failed.status = "REJECTED" /\ failed.requestedBy = kills[k].requestedBy
    BY <1>1 DEF Kill
  <2> HIDE DEF failed
  <2> QED  BY <1>2, <1>5, <1>6, <1>9, <2>1, OneCase
<1> QED  BY <1>4, <1>7, <1>8, <1>9

\* An approval of a restore leaves the case on, or turns it off.
LEMMA ApproveRestoreControls ==
  ASSUME Known, Known', NEW u \in Users, NEW r \in Roles, NEW k \in DOMAIN kills,
         ApproveRestore(u, r, k)
  PROVE  ControlStep
<1> DEFINE approvals == Append(kills[k].restore.approvals, [by |-> u, role |-> r])
           restore   == [kills[k].restore EXCEPT !.approvals = approvals]
           granted   == [restore EXCEPT !.status = "APPROVED"]
           refused   == [restore EXCEPT !.status = "REJECTED"]
           first     == [kills[k] EXCEPT !.restore = restore]
           passed    == [kills[k] EXCEPT !.status = "RELEASED", !.restore = granted]
           failed    == [kills[k] EXCEPT !.restore = refused]
<1>1. kills[k] \in Kill /\ kills[k].restore \in RestoreRow
  <2>1. kills[k] \in Kill  BY ElementOfSeq, LenProperties DEF Known, SeparationInv, TypeOK
  <2> QED  BY <2>1 DEF Kill, RestoreRow
<1>2. kills[k].status = "ACTIVE"  BY DEF ApproveRestore
<1>3. approvals \in Seq(Approval) /\ SignedBy(approvals, kills[k].restore.requestedBy)
  BY <1>1, OneMoreSignature, Zenon DEF ApproveRestore, RestoreRow, Known, SignedInv, KillsSigned
<1>4. ApproverIds(approvals) \cap ApproverIds(kills[k].approvals) = {}
  <2>1. ApproverIds(approvals) = ApproverIds(kills[k].restore.approvals) \cup {u}
    BY <1>1, OneMoreApprover DEF RestoreRow
  <2>2. u \notin ApproverIds(kills[k].approvals)
    BY DEF ApproveRestore, MayApprove, RestoreExcluded
  <2> QED  BY <2>1, <2>2 DEF Known, SeparationInv, RestoreApart
<1>5. \/ kills' = [kills EXCEPT ![k] = first]
      \/ kills' = [kills EXCEPT ![k] = passed] /\ Len(approvals) = 2
      \/ kills' = [kills EXCEPT ![k] = failed]
  <2> HIDE DEF approvals
  <2> QED  BY DEF ApproveRestore, approvals
<1> HIDE DEF approvals
<1>6. /\ restore \in RestoreRow /\ granted \in RestoreRow /\ refused \in RestoreRow
      /\ granted.approvals = approvals
  BY <1>1, <1>3 DEF RestoreRow, RestoreStatuses
<1> HIDE DEF restore, granted, refused
<1>7. first \in Kill /\ passed \in Kill /\ failed \in Kill
  BY <1>1, <1>6, KillKeepsType DEF KillStatuses, RestoreRow
<1>8. TypeOK  BY DEF Known, SeparationInv
<1>9. ASSUME NEW e \in {first, failed}, kills' = [kills EXCEPT ![k] = e]  PROVE ControlStep
  <2>1. /\ e.status = "ACTIVE" /\ e.requestedBy = kills[k].requestedBy
        /\ e.approvals = kills[k].approvals /\ e \in Kill
    BY <1>1, <1>2, <1>7 DEF Kill
  <2> HIDE DEF first, failed
  <2>2. CaseOf(e) = CaseOf(kills[k])  BY <1>2, <2>1 DEF CaseOf
  <2> QED  BY <1>8, <1>9, <2>1, <2>2, OneCase
<1>10. CASE kills' = [kills EXCEPT ![k] = passed] /\ Len(approvals) = 2
  <2>1. /\ passed.status = "RELEASED" /\ passed.requestedBy = kills[k].requestedBy
        /\ passed.approvals = kills[k].approvals /\ passed.restore = granted
    BY <1>1 DEF Kill
  <2>2. IsPair(ApproverIds(approvals))
    BY <1>3, <1>10, SignaturesMakePair DEF SignedBy
  <2> HIDE DEF passed
  <2> QED  BY <1>2, <1>4, <1>6, <1>7, <1>8, <1>10, <2>1, <2>2, OneCase
<1> QED  BY <1>5, <1>9, <1>10

\* Declining a kill refuses its case; asking for a restore and declining one leave it.
LEMMA OneRowControls ==
  ASSUME Known, NEW k \in DOMAIN kills,
         Reject(k) \/ RejectRestore(k) \/ \E u \in Users : RequestRestore(u, k)
  PROVE  ControlStep
<1>1. kills[k] \in Kill /\ kills[k].restore \in RestoreRow
  <2>1. kills[k] \in Kill  BY ElementOfSeq, LenProperties DEF Known, SeparationInv, TypeOK
  <2> QED  BY <2>1 DEF Kill, RestoreRow
<1>2. TypeOK  BY DEF Known, SeparationInv
<1>3. CASE Reject(k)
  <2> DEFINE e == [kills[k] EXCEPT !.status = "REJECTED"]
  <2>1. e \in Kill /\ kills' = [kills EXCEPT ![k] = e]
    BY <1>1, <1>3, KillKeepsType DEF Reject, KillStatuses
  <2>2. /\ e.status = "REJECTED" /\ kills[k].status = "REQUESTED"
        /\ e.requestedBy = kills[k].requestedBy
    BY <1>1, <1>3 DEF Kill, Reject, Pending
  <2> HIDE DEF e
  <2> QED  BY <1>2, <2>1, <2>2, OneCase
<1>4. CASE RejectRestore(k)
  <2> DEFINE re == [kills[k].restore EXCEPT !.status = "REJECTED"]
             e  == [kills[k] EXCEPT !.restore = re]
  <2>1. re \in RestoreRow /\ re.approvals = kills[k].restore.approvals
    BY <1>1 DEF RestoreRow, RestoreStatuses
  <2>2. kills' = [kills EXCEPT ![k] = e]  BY <1>4 DEF RejectRestore
  <2> HIDE DEF re
  <2>3. e \in Kill  BY <1>1, <2>1, KillKeepsType DEF RestoreRow
  <2>4. /\ e.approvals = kills[k].approvals /\ e.restore = re /\ e.status = kills[k].status
        /\ e.requestedBy = kills[k].requestedBy
    BY <1>1 DEF Kill
  <2> HIDE DEF e
  <2>5. CaseOf(e) = CaseOf(kills[k])  BY <2>1, <2>4 DEF CaseOf
  <2> QED  BY <1>2, <2>2, <2>3, <2>5, OneCase
<1>5. ASSUME NEW u \in Users, RequestRestore(u, k)  PROVE ControlStep
  <2> DEFINE re == [status |-> "REQUESTED", requestedBy |-> u, approvals |-> << >>]
             e  == [kills[k] EXCEPT !.restore = re]
  <2>1. re \in RestoreRow  BY DEF RestoreRow, RestoreStatuses
  <2>2. kills' = [kills EXCEPT ![k] = e] /\ kills[k].status = "ACTIVE"
    BY <1>5 DEF RequestRestore
  <2> HIDE DEF re
  <2>3. e \in Kill  BY <1>1, <2>1, KillKeepsType DEF RestoreRow
  <2>4. /\ e.approvals = kills[k].approvals /\ e.status = kills[k].status
        /\ e.requestedBy = kills[k].requestedBy
    BY <1>1 DEF Kill
  <2> HIDE DEF e
  <2>5. CaseOf(e) = CaseOf(kills[k])  BY <2>2, <2>4 DEF CaseOf
  <2> QED  BY <1>2, <2>2, <2>3, <2>5, OneCase
<1> QED  BY <1>3, <1>4, <1>5

\* Every handler is a step of the two-person control or leaves its cases alone.
LEMMA StepsControl == ASSUME Known, Known', [Next]_vars PROVE ControlStep
<1>1. ASSUME NEW u \in Users, NEW f \in Features, NEW vins, NEW category, NEW basis,
             RequestKill(u, f, vins, category, basis)
      PROVE  ControlStep
  BY <1>1, IssueAsks DEF RequestKill
<1>2. ASSUME NEW f \in Features, NEW v \in Vehicles, TrialExpired(f, v)  PROVE ControlStep
  BY <1>2, IssueAsks DEF TrialExpired
<1>3. ASSUME NEW u \in Users, NEW r \in Roles, NEW k \in DOMAIN kills,
             Approve(u, r, k) \/ ApproveRestore(u, r, k)
      PROVE  ControlStep
  BY <1>3, ApproveControls, ApproveRestoreControls
<1>4. ASSUME NEW k \in DOMAIN kills,
             Reject(k) \/ RejectRestore(k) \/ \E u \in Users : RequestRestore(u, k)
      PROVE  ControlStep
  BY <1>4, OneRowControls
<1>5. ASSUME kills' = kills  PROVE ControlStep
  BY <1>5 DEF ControlStep, Cases
<1>6. ASSUME NEW f, NEW x, Transition(f, x) \/ UpdateProfile(f, x) \/ ConfirmProfile(f)
      PROVE  kills' = kills
  BY <1>6 DEF Transition, UpdateProfile, ConfirmProfile
<1>7. Tick \/ UNCHANGED vars => kills' = kills  BY DEF Tick, vars
<1> QED  BY <1>1, <1>2, <1>3, <1>4, <1>5, <1>6, <1>7 DEF Next

\* The kill switch implements the two-person control (KillService and RestoreService:
\* a kill takes effect by two people other than its requester, ends by two others, and
\* does not come back).
THEOREM ControlImplemented == Spec => ImplementsTwoPersonControl
<1>1. Init => Control!Init
  <2> SUFFICES ASSUME Init  PROVE Control!Init
    OBVIOUS
  <2>1. DOMAIN kills = {}  BY DEF Init
  <2>2. Cases = << >>  BY <2>1 DEF Cases
  <2> QED  BY <2>2 DEF Control!Init
<1>2. Known /\ Known' /\ [Next]_vars => [Control!Next]_Cases
  BY StepsControl DEF ControlStep
<1>3. Init => SeparationInv /\ SignedInv
  BY ConstantsOK, SignedInit, SeparationInit
<1>4. SignedInv /\ SeparationInv /\ [Next]_vars => SignedInv' /\ SeparationInv'
  BY ConstantsOK, SignedNext, SeparationNext
<1> QED  BY <1>1, <1>2, <1>3, <1>4, PTL DEF Spec, Known, ImplementsTwoPersonControl, Control!Spec
=============================================================================
