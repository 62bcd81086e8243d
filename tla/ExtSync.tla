------------------------------- MODULE ExtSync -------------------------------
(***************************************************************************)
(* Two-way mirroring of a status between the platform and JIRA (D05-01):   *)
(* one Epic, which mirrors the lifecycle of a feature version, or one      *)
(* change request (CR), which mirrors a policy.  A change on the platform  *)
(* puts a job in the outbox in the same transaction; drain takes the due   *)
(* jobs one by one, awaiting JIRA twice per job (read, then write); a      *)
(* change in JIRA comes back as a webhook, which may arrive late, twice or *)
(* out of order, and asks for the same change on the platform.  What a job *)
(* sends is fixed when the job starts, so the platform may have moved on   *)
(* when it is written.  A write is refused when JIRA's revision is not the *)
(* last one seen: a conflict, for a person to resolve, who awaits JIRA too *)
(* and may meet another person resolving the same one.                     *)
(*                                                                         *)
(* JIRA is external; its revision counts its changes and a write compares  *)
(* and sets atomically, as the mock adapter does.  Statuses are numbers.   *)
(* The item exists and is linked; creation, comments without a status,     *)
(* requirements, merge requests and pipelines are not modelled.            *)
(***************************************************************************)
EXTENDS Naturals, Sequences, FiniteSetsExt

CONSTANTS
  EpicSteps,    \* FEATURE_TRANSITIONS as pairs of statuses
  MirrorSteps,  \* the changes the platform makes to a policy, as pairs
  Approved,     \* the CR status that asks for an approval (REJECTED is alike)
  InReview,     \* the CR status of a VALIDATED policy
  MaxStatus,    \* bound: statuses are 1 .. this
  MaxAttempts,  \* Len(OUTBOX_BACKOFF_MS) + 1
  MaxChanges,   \* bound: changes people make, on either side
  Resolvers,    \* requests to resolve a conflict that may overlap
  MaxConflicts, \* bound: people resolve no conflict after one more than this
  MaxSyncFaults \* bound: failed calls and crashes

ASSUME SyncConstants ==
  /\ EpicSteps \cup MirrorSteps \subseteq (1..MaxStatus) \X (1..MaxStatus)
  /\ {Approved, InReview} \subseteq 1..MaxStatus
  /\ {MaxStatus, MaxAttempts, MaxChanges, MaxConflicts, MaxSyncFaults} \subseteq Nat

VARIABLES
  kind,      \* "EPIC" or "CR", chosen once
  platform,  \* status of the lifecycle or policy, in JIRA's names
  remote,    \* JIRA: [status, rev]
  seen,      \* ext_item: status and revision last seen
  notices,   \* webhooks sent: [rev, from, to, mine]
  inbox,     \* revisions whose webhook has been received
  outbox,    \* sync_outbox: [status, key, state, attempts, due]
  drain,     \* the running drain: [queue, step, desired, item, expected], or Idle; queue
             \* is what is left of its list, the job in hand included; desired is the
             \* status that job sends, item JIRA's answer, expected the revision a write
             \* compares with
  conflicts, \* sync_conflict: [job, open]
  resolving, \* for every resolver, the resolution in progress: [conflict, choose, item]
  changes,   \* changes made by people so far
  syncFaults \* failed calls and crashes so far

syncVars == <<kind, platform, remote, seen, notices, inbox, outbox, drain,
              conflicts, resolving, changes, syncFaults>>

Item == [status: 1..MaxStatus, rev: Nat]
NoItem == [status |-> 0, rev |-> 0]
Idle == [queue |-> {}, step |-> "idle", desired |-> 0, item |-> NoItem, expected |-> 0]
NoResolution == [conflict |-> 0, choose |-> "NONE", item |-> NoItem]
Unresolving == [r \in Resolvers |-> NoResolution]

SyncInit ==
  /\ kind \in {"EPIC", "CR"}
  /\ platform = 1
  /\ remote = [status |-> 1, rev |-> 1]
  /\ seen = remote
  /\ notices = {}
  /\ inbox = {}
  /\ outbox = << >>
  /\ drain = Idle
  /\ conflicts = << >>
  /\ resolving = Unresolving
  /\ changes = 0
  /\ syncFaults = 0

-----------------------------------------------------------------------------
(* The outbox *)

\* Idempotency keys.  Every event has one of its own, so which does not matter; a
\* reversal has that of the webhook it answers, or of the conflict just resolved.
EventKey == [by |-> "EVENT", of |-> 0]
WebhookKey(rev) == [by |-> "WEBHOOK", of |-> rev]
ConflictKey(c) == [by |-> "CONFLICT", of |-> c]

Known(box, key) == key # EventKey /\ \E i \in DOMAIN box : box[i].key = key

\* enqueue: INSERT OR IGNORE by the idempotency key.
Enqueued(box, status, key) ==
  IF Known(box, key)
  THEN box
  ELSE Append(box, [status |-> status, key |-> key,
                    state |-> "PENDING", attempts |-> 0, due |-> TRUE])

AnotherChange == changes < MaxChanges /\ changes' = changes + 1
AnotherFault  == syncFaults < MaxSyncFaults /\ syncFaults' = syncFaults + 1

\* onEvent: a change on the platform and its job are one transaction.
PlatformChange(status) ==
  /\ <<platform, status>> \in (IF kind = "EPIC" THEN EpicSteps ELSE MirrorSteps)
  /\ AnotherChange
  /\ platform' = status
  /\ outbox' = Enqueued(outbox, status, EventKey)
  /\ UNCHANGED <<kind, remote, seen, notices, inbox, drain, conflicts, resolving, syncFaults>>

Finished(box, j, state) == [box EXCEPT ![j].state = state, ![j].attempts = @ + 1]

\* retry: wait, or give up when the waits are used up.
Retried(j) ==
  IF outbox[j].attempts + 1 < MaxAttempts
  THEN [outbox EXCEPT ![j].attempts = @ + 1, ![j].due = FALSE]
  ELSE Finished(outbox, j, "FAILED")

WaitEnds(j) ==
  /\ ~outbox[j].due
  /\ outbox' = [outbox EXCEPT ![j].due = TRUE]
  /\ UNCHANGED <<kind, platform, remote, seen, notices, inbox, drain, conflicts,
                 resolving, changes, syncFaults>>

-----------------------------------------------------------------------------
(* Sending: drain, run, mirrorStatus *)

\* Mutant of Due: a job that failed once is never due again.
DueFresh == {j \in DOMAIN outbox : outbox[j].state = "PENDING" /\ outbox[j].attempts = 0}

Due == {j \in DOMAIN outbox : outbox[j].state = "PENDING" /\ outbox[j].due}

\* Mutant of First: newest first.
FirstNewest(queue) == Max(queue)

\* The list of due jobs is in order of their number.
First(queue) == Min(queue)
Current == First(drain.queue)

\* Mutant of Desired: an Epic gets the status the job was put in the outbox with.
DesiredQueued(j) == outbox[j].status

\* What the job of an Epic sends is looked up when the job starts, that of a CR was
\* fixed when it was put in the outbox.
Desired(j) == IF kind = "EPIC" THEN platform ELSE outbox[j].status

\* run, up to its first await.
Running(queue) ==
  IF queue = {} THEN Idle
  ELSE [queue |-> queue, step |-> "read", desired |-> Desired(First(queue)),
        item |-> NoItem, expected |-> 0]

NextJob == Running(drain.queue \ {Current})

\* One round: the list of due jobs is read once.
StartDrain ==
  /\ drain.step = "idle"
  /\ Due # {}
  /\ drain' = Running(Due)
  /\ UNCHANGED <<kind, platform, remote, seen, notices, inbox, outbox, conflicts,
                 resolving, changes, syncFaults>>

\* JIRA answers.
ReadRemote ==
  /\ drain.step = "read"
  /\ drain' = [drain EXCEPT !.step = "compare", !.item = remote]
  /\ UNCHANGED <<kind, platform, remote, seen, notices, inbox, outbox, conflicts,
                 resolving, changes, syncFaults>>

\* The answer has arrived.  JIRA already shows the status: only a comment is sent,
\* without a revision check.  Otherwise the status, expecting the revision last seen.
CompareStatus ==
  /\ drain.step = "compare"
  /\ \/ /\ drain.item.status = drain.desired
        /\ drain' = [drain EXCEPT !.step = "comment", !.item = NoItem]
     \/ /\ drain.item.status # drain.desired
        /\ drain' = [drain EXCEPT !.step = "status", !.item = NoItem, !.expected = seen.rev]
  /\ UNCHANGED <<kind, platform, remote, seen, notices, inbox, outbox, conflicts,
                 resolving, changes, syncFaults>>

Notice(to, mine) == [rev |-> remote.rev + 1, from |-> remote.status, to |-> to, mine |-> mine]

WriteTaken == drain' = [drain EXCEPT !.step = "done", !.item = remote', !.expected = 0]

WriteComment ==
  /\ drain.step = "comment"
  /\ remote' = [remote EXCEPT !.rev = @ + 1]
  /\ WriteTaken
  /\ UNCHANGED <<kind, platform, seen, notices, inbox, outbox, conflicts, resolving,
                 changes, syncFaults>>

\* JIRA compares and sets.
WriteStatus ==
  /\ drain.step = "status"
  /\ \/ /\ remote.rev = drain.expected
        /\ remote' = [status |-> drain.desired, rev |-> remote.rev + 1]
        /\ notices' = notices \cup {Notice(drain.desired, TRUE)}
        /\ WriteTaken
     \/ /\ remote.rev # drain.expected
        /\ drain' = [drain EXCEPT !.step = "conflict", !.expected = 0]
        /\ UNCHANGED <<remote, notices>>
  /\ UNCHANGED <<kind, platform, seen, inbox, outbox, conflicts, resolving, changes, syncFaults>>

\* A call fails, before or after it took effect: the job is retried.
CallFails ==
  /\ drain.step # "idle"
  /\ AnotherFault
  /\ outbox' = Retried(Current)
  /\ drain' = NextJob
  /\ UNCHANGED <<kind, platform, remote, seen, notices, inbox, conflicts, resolving,
                 changes>>

\* observe, then finish.
FinishJob ==
  /\ drain.step = "done"
  /\ seen' = drain.item
  /\ outbox' = Finished(outbox, Current, "DONE")
  /\ drain' = NextJob
  /\ UNCHANGED <<kind, platform, remote, notices, inbox, conflicts, resolving, changes, syncFaults>>

OpenConflict ==
  /\ drain.step = "conflict"
  /\ conflicts' = Append(conflicts, [job |-> Current, open |-> TRUE])
  /\ outbox' = Finished(outbox, Current, "CONFLICT")
  /\ drain' = NextJob
  /\ UNCHANGED <<kind, platform, remote, seen, notices, inbox, resolving, changes, syncFaults>>

-----------------------------------------------------------------------------
(* Receiving: webhooks *)

\* A person changes the status in JIRA.
Edit(status) ==
  /\ status # remote.status
  /\ AnotherChange
  /\ notices' = notices \cup {Notice(status, FALSE)}
  /\ remote' = [status |-> status, rev |-> remote.rev + 1]
  /\ UNCHANGED <<kind, platform, seen, inbox, outbox, drain, conflicts, resolving, syncFaults>>

\* onEpic: a lifecycle transition by the mapped person, or a reversal.  ok says
\* that the account is mapped, has the role and the transition's guards hold.
\* onChangeRequest: an approval of a validated policy, or a reversal; the other
\* statuses of a CR are JIRA's own.
Concerns(to) == to # platform /\ (kind = "EPIC" \/ to = Approved)
Accepts(to, ok) ==
  ok /\ IF kind = "EPIC" THEN <<platform, to>> \in EpicSteps ELSE platform = InReview

\* apply: the item is stored as the webhook describes it, whatever came before.
\* The outbox becomes box followed by the job for the answer.
ApplyChange(change, ok, key, box) ==
  /\ seen' = [status |-> change.to, rev |-> change.rev]
  /\ IF change.mine \/ ~Concerns(change.to)
     THEN platform' = platform /\ outbox' = box
     ELSE IF Accepts(change.to, ok)
     THEN platform' = change.to /\ outbox' = Enqueued(box, change.to, EventKey)
     ELSE platform' = platform /\ outbox' = Enqueued(box, platform, key)

\* ingest: a delivery that was received before is dropped.
Ingest(n, ok) ==
  /\ n.rev \notin inbox
  /\ ApplyChange(n, ok, WebhookKey(n.rev), outbox)
  /\ inbox' = inbox \cup {n.rev}
  /\ UNCHANGED <<kind, remote, notices, drain, conflicts, resolving, changes, syncFaults>>

\* A crash after the change was applied and before its receipt was stored: the
\* sender will deliver it again.
CrashInIngest(n, ok) ==
  /\ AnotherFault
  /\ n.rev \notin inbox
  /\ ApplyChange(n, ok, WebhookKey(n.rev), outbox)
  /\ drain' = Idle
  /\ resolving' = Unresolving
  /\ UNCHANGED <<kind, remote, notices, inbox, conflicts, changes>>

\* A crash anywhere else; between observe and finish the item is stored and the
\* job is not.
SyncCrash ==
  /\ AnotherFault
  /\ seen' \in IF drain.step = "done" THEN {seen, drain.item} ELSE {seen}
  /\ drain' = Idle
  /\ resolving' = Unresolving
  /\ UNCHANGED <<kind, platform, remote, notices, inbox, outbox, conflicts, changes>>

-----------------------------------------------------------------------------
(* People resolve conflicts *)

\* The conflict is looked at before JIRA is read: several may resolve the same one.
StartResolve(r, c, choose) ==
  /\ resolving[r] = NoResolution
  /\ conflicts[c].open
  /\ Len(conflicts) <= MaxConflicts
  /\ resolving' = [resolving EXCEPT ![r] = [conflict |-> c, choose |-> choose, item |-> NoItem]]
  /\ UNCHANGED <<kind, platform, remote, seen, notices, inbox, outbox, drain, conflicts,
                 changes, syncFaults>>

ReadTheirs(r) ==
  /\ resolving[r].choose \in {"PLATFORM", "EXTERNAL"}
  /\ resolving[r].item = NoItem
  /\ resolving' = [resolving EXCEPT ![r].item = remote]
  /\ UNCHANGED <<kind, platform, remote, seen, notices, inbox, outbox, drain, conflicts,
                 changes, syncFaults>>

\* The read fails: the conflict stays open.
ReadTheirsFails(r) ==
  /\ resolving[r].choose \in {"PLATFORM", "EXTERNAL"}
  /\ AnotherFault
  /\ resolving' = [resolving EXCEPT ![r] = NoResolution]
  /\ UNCHANGED <<kind, platform, remote, seen, notices, inbox, outbox, drain, conflicts, changes>>

AwaitDrain(r) ==
  resolving' = [resolving EXCEPT ![r] = [@ EXCEPT !.choose = "CLOSE", !.item = NoItem]]

\* PLATFORM: the value read counts as seen, and the job is sent again.
SendAgain(r) ==
  LET j == conflicts[resolving[r].conflict].job IN
  /\ resolving[r].choose = "PLATFORM"
  /\ resolving[r].item # NoItem
  /\ seen' = resolving[r].item
  /\ outbox' = [outbox EXCEPT ![j].state = "PENDING", ![j].due = TRUE]
  /\ AwaitDrain(r)
  /\ UNCHANGED <<kind, platform, remote, notices, inbox, drain, conflicts, changes, syncFaults>>

\* EXTERNAL: the value read is asked for as this person's request, and the job
\* is closed.
TakeTheirs(r, ok) ==
  LET c == resolving[r].conflict
      theirs == resolving[r].item IN
  /\ resolving[r].choose = "EXTERNAL"
  /\ theirs # NoItem
  /\ ApplyChange([to |-> theirs.status, rev |-> theirs.rev, mine |-> FALSE],
                 ok, ConflictKey(c), Finished(outbox, conflicts[c].job, "SKIPPED"))
  /\ AwaitDrain(r)
  /\ UNCHANGED <<kind, remote, notices, inbox, drain, conflicts, changes, syncFaults>>

\* After the drain it waits for.
CloseConflict(r) ==
  /\ resolving[r].choose = "CLOSE"
  /\ drain.step = "idle"
  /\ conflicts' = [conflicts EXCEPT ![resolving[r].conflict].open = FALSE]
  /\ resolving' = [resolving EXCEPT ![r] = NoResolution]
  /\ UNCHANGED <<kind, platform, remote, seen, notices, inbox, outbox, drain, changes, syncFaults>>

-----------------------------------------------------------------------------
DrainStep ==
  StartDrain \/ ReadRemote \/ CompareStatus \/ WriteComment \/ WriteStatus \/ FinishJob
  \/ OpenConflict

SyncNext ==
  \/ \E s \in 1..MaxStatus : PlatformChange(s) \/ Edit(s)
  \/ \E j \in DOMAIN outbox : WaitEnds(j)
  \/ DrainStep
  \/ CallFails
  \/ \E n \in notices, ok \in BOOLEAN : Ingest(n, ok) \/ CrashInIngest(n, ok)
  \/ SyncCrash
  \/ \E r \in Resolvers :
       \/ \E c \in DOMAIN conflicts, choose \in {"PLATFORM", "EXTERNAL"} :
            StartResolve(r, c, choose)
       \/ ReadTheirs(r) \/ ReadTheirsFails(r)
       \/ SendAgain(r)
       \/ \E ok \in BOOLEAN : TakeTheirs(r, ok)
       \/ CloseConflict(r)

\* The scheduler calls drain every DRAIN_MS, its promises settle, and the clock
\* reaches the end of every wait.  Nothing makes people act or webhooks arrive.
SyncFairness ==
  /\ WF_syncVars(DrainStep)
  /\ WF_syncVars(\E j \in DOMAIN outbox : WaitEnds(j))

SyncSpec == SyncInit /\ [][SyncNext]_syncVars /\ SyncFairness

-----------------------------------------------------------------------------
(* Properties *)

Job == [status: 1..MaxStatus, key: [by: {"EVENT", "WEBHOOK", "CONFLICT"}, of: Nat],
        attempts: Nat, due: BOOLEAN,
        state: {"PENDING", "DONE", "FAILED", "CONFLICT", "SKIPPED"}]

SyncTypeOK ==
  /\ kind \in {"EPIC", "CR"}
  /\ platform \in 1..MaxStatus
  /\ {remote, seen} \subseteq Item
  /\ notices \subseteq [rev: 1..remote.rev, from: 1..MaxStatus, to: 1..MaxStatus, mine: BOOLEAN]
  /\ inbox \subseteq {n.rev : n \in notices}
  /\ outbox \in Seq(Job)
  /\ drain \in [queue: SUBSET DOMAIN outbox, item: Item \cup {NoItem},
               desired: 0..MaxStatus, expected: Nat,
               step: {"idle", "read", "compare", "comment", "status", "done", "conflict"}]
  /\ drain.step = "idle" <=> drain.queue = {}
  /\ conflicts \in Seq([job: DOMAIN outbox, open: BOOLEAN])
  /\ resolving \in [Resolvers -> [conflict: 0..Len(conflicts), item: Item \cup {NoItem},
                                 choose: {"NONE", "PLATFORM", "EXTERNAL", "CLOSE"}]]
  /\ changes \in 0..MaxChanges
  /\ syncFaults \in 0..MaxSyncFaults

\* Nothing is under way: every job was sent or closed, every webhook received,
\* every conflict resolved.
Settled ==
  /\ drain = Idle
  /\ resolving = Unresolving
  /\ \A j \in DOMAIN outbox : outbox[j].state \in {"DONE", "SKIPPED"}
  /\ \A c \in DOMAIN conflicts : ~conflicts[c].open
  /\ \A n \in notices : n.rev \in inbox

\* Once everything has settled the Epic shows the lifecycle, whoever changed what
\* when, however late or out of order the webhooks came and wherever the process
\* crashed: the lifecycle is the platform's (SYNC_OWNERSHIP).
EpicConverges == (kind = "EPIC" /\ Settled) => remote.status = platform

\* A CR nobody touches in JIRA ends with the policy's status, unless a job had to
\* be retried: a status put in the outbox earlier and sent later, after a newer
\* one, stays (ext-sync.repo.ts:128, due orders by number but a retry waits).
CrCurrentUnlessRetried ==
  /\ kind = "CR" /\ Settled /\ conflicts = << >>
  /\ \A n \in notices : n.mine
  /\ \A j \in DOMAIN outbox : outbox[j].attempts <= 1
  => remote.status = platform

\* Whenever a job waits to be sent, a moment comes when none does: each is sent,
\* closed, given up after its retries or left to a person.
OutboxDrains ==
  (\E j \in DOMAIN outbox : outbox[j].state = "PENDING")
    ~> (\A j \in DOMAIN outbox : outbox[j].state # "PENDING")
=============================================================================
