----------------------------- MODULE KillSwitch -----------------------------
(***************************************************************************)
(* The remote-deactivation protocol of the platform (components D03-02     *)
(* policy gate, D03-03 kill switch, D03-04 restore): a kill request, two   *)
(* signed approvals within a deadline, the final judgement of the policy   *)
(* gate over the registry and the command ledger, the issued kill_command, *)
(* and the same road back for the restore.                                 *)
(*                                                                         *)
(* Every HTTP handler of these services runs to its end without an await   *)
(* on one Node thread over a synchronous database, so one handler is one   *)
(* action; the interleaving is between the requests of different people,   *)
(* the clock and edits of the registry.                                    *)
(*                                                                         *)
(* A user is a person (actor.id).  The platform role comes with each       *)
(* request (X-Actor-Role), and each approving platform role stands for     *)
(* exactly one approver role of the report, so an approval names a person  *)
(* and an approver role.  One version per feature is modelled.             *)
(***************************************************************************)
EXTENDS Naturals, Sequences, FiniteSets

CONSTANTS
  Features,       \* feature ids
  Vehicles,       \* VINs in the scope of every feature
  Users,          \* people
  System,         \* the SYSTEM actor of the trial-expiry listener
  Roles,          \* approver roles in use, a subset of ApproverRoles
  Categories,     \* reason categories in use, a subset of ReasonCategories
  Profiles,       \* safety profiles the registry may hold
  Lifecycles,     \* lifecycles a feature may start in
  MaxKills,       \* bound: kill requests ever made
  MaxTime,        \* bound: last instant of the clock
  ApprovalTTL,    \* APPROVAL_TTL_MS, in ticks
  KillWindow,     \* DEFAULT_GATE_POLICY.kill_window_hours, in ticks
  CanaryMax       \* DEFAULT_GATE_POLICY.canary_max_vehicles

ApproverRoles    == {"FSM", "CSM", "OPS_LEAD", "PRODUCT_OWNER", "QA", "REGULATORY"}
ReasonCategories == {"SAFETY", "SECURITY", "REGULATORY", "COMMERCIAL", "OPERATIONAL"}
FClasses         == {"F0", "F1", "F2", "F3", "F4"}
DeactClasses     == {"DC0", "DC1", "DC2", "DC3", "DC4"}
LifecycleStates  == {"PROPOSED", "APPROVED", "DEVELOPING", "VERIFIED", "RELEASED",
                     "DEPRECATED", "RETIRED"}

\* What the gate reads of a feature version: its class, the caps on one command
\* and on a time window, and whether the checks on plain registry data hold.
Profile == [fClass : FClasses, deactClass : DeactClasses,
            gsr : BOOLEAN,              \* gsrMandatory
            coherent : BOOLEAN,         \* FFG-CLS-009 and FFG-ADS-002
            maxVehicles : Nat, perWindow : Nat,
            marketApproved : BOOLEAN,   \* FFG-PLT-009 market, FFG-GEN-003
            cn : BOOLEAN,               \* the market is China
            evidence : BOOLEAN]         \* BOM baseline and SBOM present

ASSUME ConstantsOK ==
  /\ System \notin Users
  /\ Roles \subseteq ApproverRoles
  /\ Categories \subseteq ReasonCategories
  /\ Profiles \subseteq Profile
  /\ Lifecycles \subseteq LifecycleStates
  /\ {MaxKills, MaxTime, ApprovalTTL, KillWindow, CanaryMax} \subseteq Nat
  /\ IsFiniteSet(Vehicles)

VARIABLES
  registry,   \* feature -> lifecycle, profile, whether the profile is confirmed
  kills,      \* the kill_request table, in the order of kill_id
  ledger,     \* the command_ledger table
  commands,   \* the kill_command and command_window tables, oldest first
  now         \* the clock

vars == <<registry, kills, ledger, commands, now>>

HighClasses == {"F2", "F3", "F4"}
None        == "NONE"
NoRestore   == [status |-> None, requestedBy |-> None, approvals |-> << >>]

-----------------------------------------------------------------------------
(* Approvals (contracts rules/kill-v2.ts) *)

\* approvalPlan: F2 and above, for safety or security, needs the Safety Manager.
FsmRequired(fClass, category) ==
  fClass \in HighClasses /\ category \in {"SAFETY", "SECURITY"}

ApproverIds(approvals) == {approvals[i].by : i \in DOMAIN approvals}
ApproverRolesOf(approvals) == {approvals[i].role : i \in DOMAIN approvals}

\* Mutant of MayApprove: the requester may sign.
MayApproveOwn(u, r, requestedBy, approvals, fsm, excluded) ==
  /\ Len(approvals) < 2
  /\ u \notin ApproverIds(approvals)
  /\ u \notin excluded
  /\ (fsm /\ "FSM" \notin ApproverRolesOf(approvals) /\ Len(approvals) = 1) => r = "FSM"

\* approvalCheck: person u, asking as role r, may sign the next approval.
MayApprove(u, r, requestedBy, approvals, fsm, excluded) ==
  /\ Len(approvals) < 2
  /\ u # requestedBy
  /\ u \notin ApproverIds(approvals)
  /\ u \notin excluded
  /\ (fsm /\ "FSM" \notin ApproverRolesOf(approvals) /\ Len(approvals) = 1) => r = "FSM"

-----------------------------------------------------------------------------
(* The policy gate (contracts rules/policy-gate.ts, policy-gate.service.ts) *)

\* gateStatusOf: end of support counts as decommissioned.
GateStatus(lifecycle) ==
  IF lifecycle \in {"DEPRECATED", "RETIRED"} THEN "DECOMMISSIONED" ELSE lifecycle

\* Mutant of InWindow: the oldest instant of the window is left out.
InWindowShort(f, request, t) ==
  Cardinality({p \in (DOMAIN commands) \X Vehicles :
                 LET c == commands[p[1]] IN
                 /\ c.feature = f /\ c.request = request
                 /\ c.at + KillWindow > t
                 /\ p[2] \in c.vins})

\* How many vehicles the commands of one kind on f have touched in the window
\* ending at t (command_window rows no older than kill_window_hours).
InWindow(f, request, t) ==
  Cardinality({p \in (DOMAIN commands) \X Vehicles :
                 LET c == commands[p[1]] IN
                 /\ c.feature = f /\ c.request = request
                 /\ c.at + KillWindow >= t
                 /\ p[2] \in c.vins})

\* The rules of evaluateGate, over the registry and the ledger as they are NOW.
\* Those that cannot fail for a command buildCommand has just made (FFG-PLT-001,
\* 003, 006, 007: class, order of validity, notice) are left out.

\* FFG-PLT-002, ADS-010: a released feature takes both commands, a deprecated or
\* retired one only a deactivation.
LifecycleRule(cmd) ==
  \/ GateStatus(registry[cmd.feature].lifecycle) = "RELEASED"
  \/ /\ GateStatus(registry[cmd.feature].lifecycle) = "DECOMMISSIONED"
     /\ cmd.request = "deactivate"

\* FFG-CLS-009, ADS-002 and PLT-004.
ClassRule(cmd) ==
  LET prof == registry[cmd.feature].profile IN
  prof.coherent /\ prof.deactClass # "DC4" /\ ~prof.gsr

\* Mutant of ApprovalRule: the class is the one stored with the request.
ApprovalRuleStale(cmd) ==
  /\ Cardinality(ApproverIds(cmd.approvals)) = Len(cmd.approvals)
  /\ Len(cmd.approvals) >= 2
  /\ FsmRequired(kills[cmd.kill].fClass, cmd.category)
       => "FSM" \in ApproverRolesOf(cmd.approvals)
  /\ cmd.request = "restore"
       => ApproverIds(cmd.approvals) \cap ledger[cmd.feature].lastKillApprovers = {}

\* FFG-PLT-005: two people, the Safety Manager among them where the class of now
\* asks for it, and for a restore nobody who approved the last deactivation.
ApprovalRule(cmd) ==
  /\ Cardinality(ApproverIds(cmd.approvals)) = Len(cmd.approvals)
  /\ Len(cmd.approvals) >= 2
  /\ FsmRequired(registry[cmd.feature].profile.fClass, cmd.category)
       => "FSM" \in ApproverRolesOf(cmd.approvals)
  /\ cmd.request = "restore"
       => ApproverIds(cmd.approvals) \cap ledger[cmd.feature].lastKillApprovers = {}

\* FFG-PLT-017.
SequenceRule(cmd) == cmd.seq = ledger[cmd.feature].lastSeq + 1

\* FFG-PLT-008 and SEC-003: the cap on one command, canary-sized for a restore,
\* and the cap on a window, which FSM and CSM together may exceed.
ScopeRule(cmd) ==
  LET prof == registry[cmd.feature].profile
      n    == Cardinality(cmd.vins)
  IN /\ n <= prof.maxVehicles
     /\ cmd.request = "restore" => n <= CanaryMax
     /\ \/ InWindow(cmd.feature, cmd.request, now) + n <= prof.perWindow
        \/ {"FSM", "CSM"} \subseteq ApproverRolesOf(cmd.approvals)

\* FFG-PLT-009, GEN-003 and PLT-010: approved market, China's filing for a restore
\* (never on record), the basis of a safety kill, evidence for a restore.
RegulationRule(cmd) ==
  LET prof == registry[cmd.feature].profile
      high == prof.fClass \in HighClasses
  IN /\ prof.marketApproved
     /\ ~(prof.cn /\ high /\ cmd.request = "restore")
     /\ (high /\ cmd.category = "SAFETY" /\ cmd.request = "deactivate") => cmd.basis
     /\ cmd.request = "restore" => prof.evidence

GatePasses(cmd) ==
  /\ LifecycleRule(cmd) /\ ClassRule(cmd) /\ ApprovalRule(cmd)
  /\ SequenceRule(cmd) /\ ScopeRule(cmd) /\ RegulationRule(cmd)

\* buildCommand: class and sequence number come from the registry and ledger of now.
BuildCommand(k, request, approvals) ==
  [kill |-> k, feature |-> kills[k].feature, vins |-> kills[k].vins,
   category |-> kills[k].category, basis |-> kills[k].basis,
   fClass |-> registry[kills[k].feature].profile.fClass,
   request |-> request, approvals |-> approvals,
   seq |-> ledger[kills[k].feature].lastSeq + 1, at |-> now]

\* Mutant of IssueCommand: the ledger moves on for deactivations only.
IssueCommandNoRestoreSeq(cmd) ==
  /\ ledger' = IF cmd.request = "restore" THEN ledger
               ELSE [ledger EXCEPT ![cmd.feature] =
                       [lastSeq |-> cmd.seq, lastKillApprovers |-> ApproverIds(cmd.approvals)]]
  /\ commands' = Append(commands, cmd)

\* issueCommand with the gate's commit: the ledger moves on by one, the approvers
\* of a deactivation are remembered, and the command is recorded.
IssueCommand(cmd) ==
  /\ ledger' = [ledger EXCEPT ![cmd.feature] =
                  [lastSeq |-> cmd.seq,
                   lastKillApprovers |-> IF cmd.request = "deactivate"
                                           THEN ApproverIds(cmd.approvals)
                                           ELSE @.lastKillApprovers]]
  /\ commands' = Append(commands, cmd)

-----------------------------------------------------------------------------
(* Kill requests (kill.service.ts) *)

\* Mutant of Pending: the deadline itself still counts.
PendingLate(k) == kills[k].status = "REQUESTED" /\ now <= kills[k].expiresAt

\* effective: a request whose deadline has passed is treated as expired.  The
\* stored status stays REQUESTED for ever: every later handler refuses it.
Pending(k) == kills[k].status = "REQUESTED" /\ now < kills[k].expiresAt

\* Mutant of ActiveKills: requests awaiting approval do not block.
ActiveKillsIssued(f, vins, category) ==
  {k \in DOMAIN kills :
     /\ kills[k].feature = f
     /\ kills[k].status = "ACTIVE"
     /\ ~(kills[k].category = "COMMERCIAL" /\ category # "COMMERCIAL")
     /\ kills[k].vins \cap vins # {}}

\* preview.activeKill: the live kills that block a new request.
ActiveKills(f, vins, category) ==
  {k \in DOMAIN kills :
     /\ kills[k].feature = f
     /\ kills[k].status = "ACTIVE" \/ Pending(k)
     /\ ~(kills[k].category = "COMMERCIAL" /\ category # "COMMERCIAL")
     /\ kills[k].vins \cap vins # {}}

\* issue: store a request and start its approval deadline.
Issue(u, f, vins, category, basis) ==
  LET prof == registry[f].profile IN
  /\ Len(kills) < MaxKills
  /\ ActiveKills(f, vins, category) = {}
  /\ vins # {}
  /\ prof.deactClass # "DC4" /\ ~prof.gsr
  /\ (category = "SAFETY" /\ prof.fClass \in HighClasses) => basis
  /\ kills' = Append(kills,
        [feature |-> f, vins |-> vins, category |-> category, basis |-> basis,
         requestedBy |-> u, fClass |-> prof.fClass, status |-> "REQUESTED",
         approvals |-> << >>, expiresAt |-> now + ApprovalTTL,
         restore |-> NoRestore])
  /\ UNCHANGED <<registry, ledger, commands, now>>

\* A person asks for a kill.  A recall campaign or containment decision is only
\* read for safety reasons, so it is only given for those.
RequestKill(u, f, vins, category, basis) ==
  /\ basis => category = "SAFETY"
  /\ Issue(u, f, vins, category, basis)

\* The trial-expiry listener asks for a commercial kill of one vehicle (F2 and
\* above, after the notice to the user).
TrialExpired(f, v) ==
  /\ registry[f].profile.fClass \in HighClasses
  /\ Issue(System, f, {v}, "COMMERCIAL", FALSE)

\* approve: the first approval is stored; the second one builds the command,
\* and the gate decides between ACTIVE (command issued) and REJECTED.
Approve(u, r, k) ==
  /\ Pending(k)
  /\ MayApprove(u, r, kills[k].requestedBy, kills[k].approvals,
                FsmRequired(kills[k].fClass, kills[k].category), {})
  /\ LET approvals == Append(kills[k].approvals, [by |-> u, role |-> r])
         cmd       == BuildCommand(k, "deactivate", approvals)
     IN \/ /\ Len(approvals) < 2
           /\ kills' = [kills EXCEPT ![k].approvals = approvals]
           /\ UNCHANGED <<ledger, commands>>
        \/ /\ Len(approvals) = 2
           /\ GatePasses(cmd)
           /\ IssueCommand(cmd)
           /\ kills' = [kills EXCEPT ![k] = [@ EXCEPT !.approvals = approvals, !.status = "ACTIVE"]]
        \/ /\ Len(approvals) = 2
           /\ ~GatePasses(cmd)
           /\ kills' = [kills EXCEPT ![k] = [@ EXCEPT !.approvals = approvals, !.status = "REJECTED"]]
           /\ UNCHANGED <<ledger, commands>>
  /\ UNCHANGED <<registry, now>>

\* Mutant of Reject: any request may be declined.
RejectAnytime(k) ==
  /\ kills' = [kills EXCEPT ![k].status = "REJECTED"]
  /\ UNCHANGED <<registry, ledger, commands, now>>

\* reject: someone declines a pending request.
Reject(k) ==
  /\ Pending(k)
  /\ kills' = [kills EXCEPT ![k].status = "REJECTED"]
  /\ UNCHANGED <<registry, ledger, commands, now>>

-----------------------------------------------------------------------------
(* Restore requests (restore.service.ts) *)

RequestRestore(u, k) ==
  /\ kills[k].status = "ACTIVE"
  /\ kills[k].restore.status # "REQUESTED"
  /\ kills' = [kills EXCEPT ![k].restore =
                 [status |-> "REQUESTED", requestedBy |-> u, approvals |-> << >>]]
  /\ UNCHANGED <<registry, ledger, commands, now>>

\* Mutant of RestoreExcluded: only the approvers of the last kill on the feature.
RestoreExcludedLast(k) == ledger[kills[k].feature].lastKillApprovers

\* Who approved this kill, and who approved the last kill on the feature.
RestoreExcluded(k) ==
  ApproverIds(kills[k].approvals) \cup ledger[kills[k].feature].lastKillApprovers

\* approve: as for the kill; a restore refused by the gate leaves the kill ACTIVE.
ApproveRestore(u, r, k) ==
  /\ kills[k].status = "ACTIVE"
  /\ kills[k].restore.status = "REQUESTED"
  /\ MayApprove(u, r, kills[k].restore.requestedBy, kills[k].restore.approvals,
                FsmRequired(kills[k].fClass, kills[k].category), RestoreExcluded(k))
  /\ LET approvals == Append(kills[k].restore.approvals, [by |-> u, role |-> r])
         restore   == [kills[k].restore EXCEPT !.approvals = approvals]
         cmd       == BuildCommand(k, "restore", approvals)
     IN \/ /\ Len(approvals) < 2
           /\ kills' = [kills EXCEPT ![k].restore = restore]
           /\ UNCHANGED <<ledger, commands>>
        \/ /\ Len(approvals) = 2
           /\ GatePasses(cmd)
           /\ IssueCommand(cmd)
           /\ kills' = [kills EXCEPT ![k] =
                [@ EXCEPT !.status = "RELEASED", !.restore = [restore EXCEPT !.status = "APPROVED"]]]
        \/ /\ Len(approvals) = 2
           /\ ~GatePasses(cmd)
           /\ kills' = [kills EXCEPT ![k].restore = [restore EXCEPT !.status = "REJECTED"]]
           /\ UNCHANGED <<ledger, commands>>
  /\ UNCHANGED <<registry, now>>

RejectRestore(k) ==
  /\ kills[k].restore.status = "REQUESTED"
  /\ kills' = [kills EXCEPT ![k].restore.status = "REJECTED"]
  /\ UNCHANGED <<registry, ledger, commands, now>>

-----------------------------------------------------------------------------
(* The registry changes underneath open requests *)

\* The transitions a feature version makes around its release.  The gates and
\* roles they ask for are left open.
LateTransitions == {<<"DEVELOPING", "VERIFIED">>,
                    <<"VERIFIED", "RELEASED">>, <<"VERIFIED", "DEVELOPING">>,
                    <<"RELEASED", "DEPRECATED">>, <<"DEPRECATED", "RETIRED">>}

Transition(f, to) ==
  /\ <<registry[f].lifecycle, to>> \in LateTransitions
  /\ registry' = [registry EXCEPT ![f].lifecycle = to]
  /\ UNCHANGED <<kills, ledger, commands, now>>

\* A safety profile may be edited until the Safety Manager confirms it.
UpdateProfile(f, p) ==
  /\ ~registry[f].confirmed
  /\ registry' = [registry EXCEPT ![f].profile = p]
  /\ UNCHANGED <<kills, ledger, commands, now>>

\* confirm refuses a profile that breaks a blocking combination.
ConfirmProfile(f) ==
  /\ ~registry[f].confirmed
  /\ registry[f].profile.coherent
  /\ registry' = [registry EXCEPT ![f].confirmed = TRUE]
  /\ UNCHANGED <<kills, ledger, commands, now>>

Tick ==
  /\ now < MaxTime
  /\ now' = now + 1
  /\ UNCHANGED <<registry, kills, ledger, commands>>

-----------------------------------------------------------------------------
Init ==
  /\ registry \in [Features -> [lifecycle : Lifecycles, profile : Profiles, confirmed : {FALSE}]]
  /\ kills = << >>
  /\ ledger = [f \in Features |-> [lastSeq |-> 0, lastKillApprovers |-> {}]]
  /\ commands = << >>
  /\ now = 0

Next ==
  \/ \E u \in Users, f \in Features, vins \in SUBSET Vehicles,
        category \in Categories, basis \in BOOLEAN :
       RequestKill(u, f, vins, category, basis)
  \/ \E f \in Features, v \in Vehicles : TrialExpired(f, v)
  \/ \E u \in Users, r \in Roles, k \in DOMAIN kills : Approve(u, r, k)
  \/ \E k \in DOMAIN kills : Reject(k)
  \/ \E u \in Users, k \in DOMAIN kills : RequestRestore(u, k)
  \/ \E u \in Users, r \in Roles, k \in DOMAIN kills : ApproveRestore(u, r, k)
  \/ \E k \in DOMAIN kills : RejectRestore(k)
  \/ \E f \in Features, to \in LifecycleStates : Transition(f, to)
  \/ \E f \in Features, p \in Profiles : UpdateProfile(f, p)
  \/ \E f \in Features : ConfirmProfile(f)
  \/ Tick

Spec == Init /\ [][Next]_vars

-----------------------------------------------------------------------------
(* Properties *)

KillStatuses    == {"REQUESTED", "ACTIVE", "REJECTED", "RELEASED"}
RestoreStatuses == {None, "REQUESTED", "APPROVED", "REJECTED"}

Approval == [by : Users, role : Roles]

Kill == [feature : Features, vins : SUBSET Vehicles, category : ReasonCategories,
         basis : BOOLEAN, requestedBy : Users \cup {System}, fClass : FClasses,
         status : KillStatuses, approvals : Seq(Approval), expiresAt : Nat,
         restore : [status : RestoreStatuses, requestedBy : Users \cup {None},
                    approvals : Seq(Approval)]]

Command == [kill : Nat, feature : Features, vins : SUBSET Vehicles,
            category : ReasonCategories, basis : BOOLEAN, fClass : FClasses,
            request : {"deactivate", "restore"}, approvals : Seq(Approval),
            seq : Nat, at : Nat]

\* The shape of the tables.
TypeOK ==
  /\ registry \in [Features -> [lifecycle : LifecycleStates, profile : Profiles,
                                confirmed : BOOLEAN]]
  /\ kills \in Seq(Kill)
  /\ ledger \in [Features -> [lastSeq : Nat, lastKillApprovers : SUBSET Users]]
  /\ commands \in Seq(Command)
  /\ now \in Nat

Requester(c) == IF c.request = "deactivate" THEN kills[c.kill].requestedBy
                                            ELSE kills[c.kill].restore.requestedBy

\* Every issued command, deactivation or restore, carries the approvals of two
\* different people, neither of them the one who asked, and one Safety Manager
\* if the feature was F2 or above WHEN THE COMMAND WAS ISSUED and the reason is
\* safety or security, even though the profile may have been edited since the
\* request was made (FFG-PLT-005, FFG-SEC-008).
TwoPersonRule ==
  \A i \in DOMAIN commands :
    LET c == commands[i] IN
    /\ Len(c.approvals) = 2
    /\ c.approvals[1].by # c.approvals[2].by
    /\ Requester(c) \notin ApproverIds(c.approvals)
    /\ FsmRequired(c.fClass, c.category) => "FSM" \in ApproverRolesOf(c.approvals)

\* Nobody who approved a restore had approved the kill it restores, nor the last
\* kill issued on the feature before it, also when that kill was issued between
\* the two approvals of the restore (FFG-DEAC-008).
RestoreSeparation ==
  \A i, j \in DOMAIN commands :
    /\ commands[i].request = "restore"
    /\ commands[j].request = "deactivate"
    /\ commands[j].feature = commands[i].feature
    /\ j < i
    /\ \/ commands[j].kill = commands[i].kill
       \/ \A l \in j+1 .. i-1 : ~(/\ commands[l].request = "deactivate"
                                  /\ commands[l].feature = commands[i].feature)
    => ApproverIds(commands[i].approvals) \cap ApproverIds(commands[j].approvals) = {}

CommandsOf(k, request) ==
  {i \in DOMAIN commands : commands[i].kill = k /\ commands[i].request = request}

\* The status of a kill and the commands that left the platform agree: nothing
\* was sent for a kill that is waiting or refused, exactly one deactivation for
\* one that is ACTIVE, and one restore after it for one that is RELEASED.
StatusMatchesCommands ==
  \A k \in DOMAIN kills :
    LET on  == CommandsOf(k, "deactivate")
        off == CommandsOf(k, "restore")
    IN /\ kills[k].status \in {"REQUESTED", "REJECTED"} <=> on = {}
       /\ kills[k].status = "RELEASED" <=> off # {}
       /\ \A i, j \in on : i = j
       /\ \A i, j \in off : i = j
       /\ \A i \in off : \E j \in on : j < i

\* Commands of a feature are numbered 1, 2, 3... without gap or repetition, and
\* the ledger stands at the last one: a refused or expired request uses no
\* number (FFG-PLT-017).
SeqGapFree ==
  \A f \in Features :
    LET own == {i \in DOMAIN commands : commands[i].feature = f} IN
    /\ {commands[i].seq : i \in own} = 1 .. ledger[f].lastSeq
    /\ \A i, j \in own : i < j => commands[i].seq < commands[j].seq

\* A deactivation is never issued at or after the approval deadline of its
\* request, whenever the two approvals were given.
IssuedInTime ==
  \A i \in DOMAIN commands :
    commands[i].request = "deactivate" => commands[i].at < kills[commands[i].kill].expiresAt

\* Two live kills of one feature share a vehicle only when the older one is
\* commercial and the newer one is not: an urgent kill may pass over the expiry
\* of a trial, nothing else may overlap.
OverlapOnlyOverCommercial ==
  \A k, l \in DOMAIN kills :
    /\ k < l
    /\ kills[k].feature = kills[l].feature
    /\ kills[k].vins \cap kills[l].vins # {}
    /\ kills[k].status = "ACTIVE" \/ Pending(k)
    /\ kills[l].status = "ACTIVE" \/ Pending(l)
    => kills[k].category = "COMMERCIAL" /\ kills[l].category # "COMMERCIAL"

\* The vehicles, counted once per command, that command i and the earlier ones of
\* its kind and feature touched in the time window that ends with it.
TouchedWith(i) ==
  LET c == commands[i] IN
  {p \in (1 .. i) \X Vehicles :
     LET d == commands[p[1]] IN
     /\ d.feature = c.feature /\ d.request = c.request
     /\ d.at + KillWindow >= c.at
     /\ p[2] \in d.vins}

\* However the vehicles are split over kills, the commands of one kind issued on
\* a feature within one time window never touch more vehicles than the cap of some
\* profile, unless the last of them was approved by FSM and CSM together
\* (FFG-SEC-003).
WindowCap ==
  \A i \in DOMAIN commands :
    \/ {"FSM", "CSM"} \subseteq ApproverRolesOf(commands[i].approvals)
    \/ \E p \in Profiles : Cardinality(TouchedWith(i)) <= p.perWindow

\* The kill the system asks for when a trial expires is not issued on a vehicle
\* where an urgent kill of the feature is in force: trial-expiry.listener.ts says
\* that a kill in progress is not overwritten (DEAC-004).
NoCommercialOverwrite ==
  [][ \A k \in DOMAIN kills :
        /\ kills[k].status = "REQUESTED" /\ kills'[k].status = "ACTIVE"
        /\ kills[k].requestedBy = System
        => ~ \E l \in DOMAIN kills :
               /\ kills[l].status = "ACTIVE"
               /\ kills[l].category \in {"SAFETY", "SECURITY", "REGULATORY"}
               /\ kills[l].feature = kills[k].feature
               /\ kills[l].vins \cap kills[k].vins # {} ]_vars

-----------------------------------------------------------------------------
(* The two-person control this protocol implements *)

StageOf == [REQUESTED |-> "asked", REJECTED |-> "refused", ACTIVE |-> "on", RELEASED |-> "off"]

CaseOf(kill) ==
  [stage |-> StageOf[kill.status],
   asker |-> kill.requestedBy,
   onBy  |-> IF kill.status \in {"ACTIVE", "RELEASED"} THEN ApproverIds(kill.approvals) ELSE {},
   offBy |-> IF kill.status = "RELEASED" THEN ApproverIds(kill.restore.approvals) ELSE {}]

Cases == [k \in DOMAIN kills |-> CaseOf(kills[k])]

Control == INSTANCE TwoPersonControl WITH
  People <- Users, Askers <- Users \cup {System}, cases <- Cases

\* The kill switch is a two-person control: a kill takes effect only by two
\* people other than the requester, ends only by two others, and never comes
\* back once refused or released.
ImplementsTwoPersonControl == Control!Spec
=============================================================================
