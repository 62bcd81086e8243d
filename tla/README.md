# Verification of the Feature Topology Platform

TLA+ models of the core of the platform in `src/FF` (a NestJS backend over SQLite that
decides which vehicle features are on, and switches them off remotely), the TLC runs that
check them on small instances, and theorems about them checked by TLAPS.

## 1. Inventory

One Node process serves HTTP over a synchronous SQLite database. A handler without an
`await` therefore runs as one step; concurrency comes from different requests, from timers
(`kernel/scheduler.ts`), from callbacks after a commit (`kernel/db.ts`), from vehicles, and
from the process dying between two of these.

| Part | State | Operations | Talks to | What is hard, what makes it correct |
|---|---|---|---|---|
| Kill switch D03-03, restore D03-04 | `kill_request`, `kill_command`, `command_window`, `vehicle_envelope` | request, approve, decline, restore request/approve/decline, trial-expiry listener | gate, HSM, secure deploy, events | approvals over several requests, a deadline never stored, edits in between. Two other people for every command, none of the kill's approvers for its restore |
| Policy gate D03-02 | `command_ledger` | evaluate, commit | registry, ledger | judged on the registry of now; gap-free numbers, caps on one command and on a time window |
| Registry, lifecycle, safety profile D01-02 | `feature`, `safety_profile`, sign-offs | transition, update, confirm | gate, kill switch | edits race with approvals |
| Secure deploy D06-08 | `publication`, `readback` | sign, dispatch, recompute, close, boot sync | pipeline, vehicle runtime, telemetry | after-commit work, deadline against last reply, crash. Final verdicts, every publication closed |
| Vehicle runtime D02-03 | `vehicle_runtime` and pending timers | deliver, receive, guard, stages, report | scheduler, HSM, status ingest | timers of several commands at once. Orders of the platform win |
| Status ingest D04-03 | `status_report`, `vehicle_feature_status` | ingest, bridge, watch, checkOverdue | publications, events | late and overtaken reports |
| HSM/PKI D06-10 | keys, epoch | sign, verify, bumpEpoch | all of the above | epoch changes with commands under way |
| Kernel database and events | `events`, transaction depth, after-commit list | tx, afterCommit, publish, hooks | everything | nested transactions, vetoes, throwing callbacks, callbacks that run transactions. An event is streamed once, and only if durable |
| Kernel idempotency | `idempotency` | intercept | every change by HTTP | repetition while the first request runs, crash before the answer is stored. One effect per key |
| Policy store D01-06 | `policy`, `policy_revision`, gate runs, approvals | create, edit, validate, approve, reject, deploy, restore a revision | gate, publications | a validation awaits and then writes the row it read. What is published was judged and approved |
| Staged rollout D01-08 | stage and stage time of a policy | widen, return to the canary | policy store | widening only after observation and by a second person |
| Rollback D03-04 | plans, requests, executions | plan, request, decide, run, finish | policy store, publications | asked for, approved and run at three times, with deployments between. It undoes the deployment it was asked for |
| Vehicle requests D02-04 | cursor of the vehicle, stored answers | report, HELLO, redelivery | evaluation, entitlement | an `await` between two commits, old boots, retries. A report takes effect once |
| External sync D05-01 | outbox, items, conflicts, webhooks received | change, drain, webhook, resolve | JIRA | two awaits per job, webhooks late, twice or reordered, retries. Both sides end alike |
| Report numbers and retention D04-03 | counter of the vehicle, stored reports | number, ingest, sweep | vehicle runtime | 16-bit counter, swept history. Newer reports are taken, older ones are not |
| Entitlement and trials D01-05 | `entitlement` | offer, accept, decline, buy, daily sweep, listener | kill switch | missed days, sweeps cut short, late purchases. No kill without lapse and notice |
| Unleash sync D01 | flag, strategies and switch on the flag server, records of the calls | sync, compare | an external flag server | a dozen awaited calls, each may fail or lose its answer; runs overlap, people change the server. The flag is never without strategies, and a run that nothing disturbed leaves its plan |
| Experiments D01 | assignments, results | start, conclude | reports | results awaited before the decision |
| Anomaly response D06-12, quality feedback D04-06 | `anomaly`, `quality_feedback` | signal, acknowledge, close, accept, hear kills and G5 verdicts | kill switch, registry, policy store | three callbacks after commits link a signal in the field to the next version. The loop closes, a case is not played down |
| Security events D06-12 | `security_event`, `vehicle_channel_limit` | observe, limit | status ingest | the limit is set when a count meets the threshold, not while it stands above |
| Notifications, incidents, change records, retention | records and acknowledgement timers | create, acknowledge, escalate | events | escalation against acknowledgement |
| Other adapters D05 | call records | call | external systems | request and response over stored data |

`PROJECT.json` lists every part with its files and whether it is modelled, and the hazards
of the code, each at its line. Front end, tools, documents, catalogues, evaluation screens
and the five-year replay keep no state of the platform and are left out. The GLEO broker and
the CARLA simulator are external vehicles; in the models a vehicle is the one this program
simulates.

## 2. Modules

| Module | Models |
|---|---|
| `KillSwitch` | kill switch, restore, gate, ledger, and the registry edits that race with them |
| `TwoPersonControl` | abstract promise of `KillSwitch`: a case is switched on by two people other than the asker and off by two others, and never twice |
| `KillSwitchProofs` | theorems about `KillSwitch`: types, two-person rule, deadlines, window cap |
| `KillLedgerProofs` | theorems about `KillSwitch`: numbering, restore separation, statuses and commands, overlap, and that it implements `TwoPersonControl` |
| `Delivery` | an issued command until it is applied and confirmed: publication, dispatch, vehicle, reports, deadlines, crash |
| `DeliveryProofs` | theorems about `Delivery`: types, final verdicts, what the status table may show, true alarms, that the orders of the platform win, and that the overdue watch is exact |
| `Kernel` | transactions, savepoints, hooks, after-commit callbacks, flush, exceptions |
| `CommittedStream` | abstract promise of `Kernel`: an event becomes durable, then is streamed once |
| `KernelProofs` | theorems about `Kernel`, and that it implements `CommittedStream` |
| `IdempotencyKeys` | requests repeated under a key |
| `VehicleRequests` | report channel of a vehicle over a network that loses, repeats and reorders |
| `RequestProofs` | theorems about `VehicleRequests`, `IdempotencyKeys`, `ReportNumbers` and `ChannelLimit` |
| `ReportNumbers` | report numbers beyond the width of their counter, and the retention sweep |
| `ExtSync` | a status mirrored between the platform and JIRA |
| `UnleashSync` | the copy of a deployed policy on the flag server, one awaited call after another |
| `SyncProofs` | theorems about `ExtSync` and `UnleashSync` |
| `Entitlement` | offers, trials, purchases, the daily sweep and the kill it asks for |
| `ChainProofs` | theorems about `Entitlement` and `QualityLoop` |
| `QualityLoop` | anomaly cases, the kill that closes them, the feedback they become and the version that resolves it |
| `ChannelLimit` | failed authentications of a vehicle and the limit on its channel |
| `PolicyStore` | rows, revisions, validations, approvals and deployment of the policies of a flag |
| `PolicyRelease` | `PolicyStore` with publications, stages and rollbacks |
| `PolicyProofs` | theorems about `PolicyRelease` |
| `MCKillSwitch`, `MCDelivery`, `MCChannels`, `MCPolicyRelease` | instances for TLC |

The two system modules meet at `issueCommand`: `KillSwitch.IssueCommand` writes ledger and
command, and `Delivery.IssueKill` / `IssueRestore` write publication and envelopes of the
same transaction. `Delivery` takes over what `KillSwitch` guarantees: overlapping kills in
force differ in that exactly one is commercial (`OverlapOnlyOverCommercial`), and a restore
is only issued for a kill that is `ACTIVE`. `PolicyRelease` extends `PolicyStore`, with
deployment and rollback as one step over the variables of both; the way of a publication to
its verdict is the matter of `Delivery`. `Entitlement` ends where the listener asks for a
kill and `KillSwitch.TrialExpired` begins. `QualityLoop` takes the issue of a kill and the
deployment of a version as inputs that may come at any time, `UnleashSync` a deployment of the
policy. `VehicleRequests`, `ExtSync`,
`Kernel`, `IdempotencyKeys`, `ReportNumbers`, `Entitlement`, `QualityLoop` and `ChannelLimit`
share no state with each other; `MCChannels` puts them side by side, and `part`, chosen in
the initial state, says which one moves, so that one run explores the sum of their state
spaces.

Operators whose comment begins with "Mutant of" are variants of the definition that follows
them with one plausible mistake. No specification uses them; `PROJECT.json` pairs each with
the property that must fail when it takes the original's place.

### KillSwitch

`registry` holds lifecycle, profile and whether it is confirmed; `kills` is `kill_request`
in order of id; `ledger` is `command_ledger`; `commands` stands for `kill_command` and
`command_window`. `RequestKill`, `TrialExpired`, `Approve`, `Reject`, `RequestRestore`,
`ApproveRestore`, `RejectRestore` are the handlers, `Transition`, `UpdateProfile`,
`ConfirmProfile` the registry's. The second approval runs the gate and writes either the
command or the rejection in one step, as the handler does. Of `evaluateGate` the rules that
can fail for a command `buildCommand` has just made are kept, in six named groups; data
they only look up (market approval, evidence, coherence of the class) is a Boolean of the
profile. Identity signatures, texts, audit rows and the legacy v1 kill are left out; one
version per feature is modelled, with no dependent features.

### Delivery

A publication, its command and its envelopes are one record of `pubs`; its index is the
publication's sequence within the feature. `turn` is the after-commit callback that runs
right after the commit, before any other step except a crash. `tasks` are the timers.
`vehicle` is `vehicle_runtime`, `status` is `vehicle_feature_status`, `topSeq` what
`acknowledged` reads, `alarms` and `overdue` the events. One timer callback is one action
with everything it calls synchronously: a stage of the vehicle sets its state, builds the
report, has it checked and stored, links it to a publication and recomputes the verdict.
Timers run when due, in the order they were set when they have one duration, in any order
otherwise; `Tick` waits for those that are due. Policy publications, key purposes and
signatures (genuine here), `activate` and `sync` commands, several features per kill and the
1024 window of sequence numbers are left out.

### Kernel

`frames` are the open transaction and its savepoints with what each has written, `pending`
the callbacks for after the commit, `flushing` the lists being run, outermost first,
because a callback may run a transaction whose own callbacks run in the middle of the list
it stands in. `throwing` lets an exception leave one frame per step, as the unwinding
does. A callback of the event bus cannot throw (its subscribers are caught); one that is work,
such as a dispatch, can, and then `tx` runs its rollback branch after the commit: `depth`
stays at -1 and every later `tx` fails (`wedged`, `db.ts:63`).

### IdempotencyKeys and VehicleRequests

Both describe handlers that commit an effect and store the answer later. In
`IdempotencyKeys` nothing marks a key while its handler runs. `VehicleRequests` is the
report channel: `cursor` and the effect are one commit, `working` holds handlers that await
the evaluation, `records` the stored answers. The network is the set `sent`, from which
anything may arrive at any time. The vehicle reconciles first, as the header of
`rules/vehicle-requests.ts` asks. `stray` records, when another boot takes over, the
reports without a stored answer: the properties may except those and nothing else.

### ReportNumbers, ExtSync, Entitlement

`ReportNumbers` keeps what number checking compares: the counter, the accepted rows that
are still stored, and whether a row is old enough to be swept. `ExtSync` follows one Epic
or one change request: `outbox`, the jobs of `drain`, taken by number, with the two awaits
of the first, the revision last `seen`, webhooks sent and received, `conflicts` and the
requests to resolve one. What a job sends is in `drain.desired`: for an Epic the status the
platform had when the job started (`ext-sync.service.ts:227`), which may be stale when it is
compared and when it is written. A write that finds its status in JIRA only comments
(`WriteComment`), any other expects the revision last seen, as read after the first await. A
resolution looks at the conflict and then awaits JIRA, so several may resolve the same one
(`resolving`, one entry for each request). JIRA itself is external: it counts changes and
compares before it sets, as the mock does. `Entitlement` follows one vehicle and product in days; `sweepAt` is the right the
daily sweep has reached, `cuts` the kills the listener asked for, with what was true of the
vehicle's other rights at that moment.

### QualityLoop and ChannelLimit

`QualityLoop` follows one kind of signal about one feature. `cases` and `feedbacks` are the
two tables; `callback` is the subscriber that runs after the commit, before anything else
except a crash, which puts it into `missed`. The subscriber of a verdict resolves one feedback
per step, newest first, since each is a transaction of its own (`feedback.service.ts:50` and
`97`), so a crash may leave it half done. Signals have a vehicle and a severity, INFO among
them, since a report of INFO may open a case and takes one of its places; a case
keeps the last `MaxSignals` and is classified by those. `passes` are the G5 verdicts in
order, so that a feedback can be compared with those that came after it. `ChannelLimit` has
the ages of the failures still counted and the ticks the channel stays closed.

### PolicyStore and PolicyRelease

A row of `policies` has the content, status, stage and people; `revisions` are the stored
contents; `runs` and `approvals` remember what was judged and approved, and `validating`
holds the rows read before the validators are awaited, which `FinishValidate` writes
back. Contents are model values; the checks against the registry only refuse and are left
out. `publications` are the deployments of the flag; `cases` rollback plans and requests;
`todo` the automatic rollbacks that wait for their after-commit callback, run newest first
as the code reads its plans. The clock appears
as one fact, `aged`: the last deployment has been out for the time of observation.

### UnleashSync

`syncs` are the requests to sync, with the plan each took when it started, where it stands
(`at`), the strategies it has made and those it listed and still has to delete. One action
is one awaited call: what the call does on the server is external and modelled after
`MockUnleash.admin`; what the run does with the answer is `unleash-sync.service.ts`. A call
that is reported as failed may have been carried out all the same. A plan is the number of
strategies it has and whether the environment is on. `ByHand` is a person or another tool
on the server (`tamper` in the mock). `alone` records that nothing else touched the server
since a run started; the promise of one run can only be made of those. Tags and dependencies
(only ever added), runs that call nothing (BLOCKED, mode off), the records of calls, and a
call that takes effect after its timeout, when the run has long gone on, are left out.

## 3. Runs

| Run | Instance | Shows |
|---|---|---|
| `kill_two` | one vehicle, four people with the Safety Manager role, two requests (safety, commercial, also by the listener) | restore separation, statuses and commands agree, gap-free numbers, overlap rule, refinement of `TwoPersonControl` |
| `kill_drafts` | one request, three people, two roles, the profile moves between F1 and F2, time | two-person rule at the class of the moment of issue; nothing issued at or after the deadline |
| `kill_window` | two vehicles, two requests, cap one, window of zero ticks, two instants | the window cap |
| `kill_overwrite` | one vehicle | violation, see section 5 |
| `delivery_order` | two vehicles, one list, safety, DC3, five commands | agreement at rest, true alarms |
| `delivery_watch` | two vehicles, one of them offline, two lists, DC2, three commands | overdue watch, every publication closed, every kill takes effect |
| `delivery_faults` | two vehicles, two lists, safety and commercial, DC0, three commands, one epoch bump, one crash; the stagger is long enough for a late reply (long lists) | final verdicts, no vehicle that took a kill shown as active |
| `delivery_loose`, `delivery_confirmed`, `delivery_crash` | one vehicle | violations, see section 5 |
| `channels` | the eight modules of `MCChannels` (1 207 117 distinct states) | reports take effect once and old boots stay out but for the cases named; a reconciled vehicle has what was dispatched; Epic and CR agree at rest, the outbox empties; streams follow commits; one effect per key; new reports are taken and old ones are not until the counter wraps; kills for lapsed trials are due; an anomaly case and its feedback close, and are not played down; a vehicle that goes on failing stays limited |
| `release` | two policies, contents and people, three publications, two rollback cases, one crash; beside it two requests to sync, two plans, three runs, one change by hand (1 515 335 states up to symmetry) | what is published was judged and approved; the server evaluates what was sent; executions match their publications; a rollback undoes the last deployment; triggers are not missed; nothing wide without observation; a flag on the server is never left bare, and an undisturbed sync leaves its plan |

Bounds. Two requests are enough for every race the kill switch has: rules compare a request
with one other kill, with the last kill of the ledger, or with a sum. Four people are the
least that let a restore pass (two approvers of the kill, two others, one of each pair may
be the other's requester); two would make the restore vacuous. People are interchangeable,
hence the symmetry sets; the runs with symmetry check safety only. `MaxTime` lets the clock
pass a deadline of one tick. In `Delivery` three commands are kill, restore and the next
kill, the shortest history in which timers of one command can meet those of another; five
repeat it. Delays keep the order of the defaults (latency and stagger below the stage times,
2 s to the next start, deadlines above them), not their size. Time is relative: a timer
counts down, so no bound on the clock is needed.

In `channels` each part has the least bounds in which its hazards meet. Requests: two boots,
two reports each, three messages, four effects, two handlers at once, three kinds of
report. Sync: two statuses, two attempts per job, two changes by people, one failed call or
crash: enough for a webhook to overtake, for a conflict, for a job to be sent after a
newer one and for one to be sent when the platform has moved on. It is explored twice: with a
failure or crash and one resolution at a time (`SYNC`), and without either and with two
resolutions that overlap (`OVERLAP`). People resolve nothing more after three conflicts: with
two requests at once each may put the other's job back for ever, and every time a write on an
old revision opens another conflict. Kernel: three events, two levels, one work callback, one crash. Keys: two keys,
two bodies, two handlers at once, three effects, one crash. Numbers: a counter of three
values and five reports, so that it wraps, over two features. Trials: offers, trials
and plans of two days, notice one day ahead, days 0 to 4, three rights, one stop of the
process. Loop: two cases of two signals, two vehicles, one of which reports INFO, two versions of which the older has
the higher integrity, two vehicles (one for that version) to make a fault CRITICAL instead of
three (two), one G5 verdict, one stop; a case with a full list, a fall of the threshold and a
verdict that comes before, after or between the feedbacks, or dies between two, all happen. Limits: threshold three, window
two and limit six ticks, the 10 and 30 minutes of the code to scale, and six failures, so that
the count passes the threshold.

In `release` the state space is the union of four corners, chosen once by `focus`: edits of
one policy with two validations under way; stages of two policies with one rollback; two
rollbacks, or one and a crash; late validations of two policies with one rollback. Each
corner leaves out what the others explore; together they fire every action. The fifth part of
`release`, `COPY`, is `UnleashSync`, which shares no state with the rest. Its three runs are
one that is cut off, one that overlaps it, and one that repairs what they left; a plan of two
strategies, then one of one, takes both ways of replacing, one for one in place, and new ones
made before the old ones go; the switch goes from on to off. The two requests are alike,
hence the symmetry.

The type invariant of every module is proved (section 4); only `ReleaseTypeOK`, which includes
that of `PolicyStore`, is also run. `CHECK_DEADLOCK FALSE` because every
system may come to rest: nobody need ask for anything.

Fairness. `Delivery` has weak fairness of `Dispatch` (the callback runs in the call that
committed), of `RunTimer` (the event loop runs due timers) and of `Tick`. Nothing people
do, no crash and no epoch change is fair. `PublicationsClose` and `KillTakesEffect` hold
under it without a crash. `ExtSync` has `SyncFairness`: the scheduler calls `drain`
again and again, promises settle (an awaited call succeeds or fails), and the clock reaches
the end of every wait. Nobody need act and no webhook need arrive; `OutboxDrains` holds with
failures and a crash. The other modules check safety only and state no fairness.

What holds only in part. `QuietAgreement` is checked for class DC3, where every stage takes
as long as the next start; with DC1 or DC2 the timers of an earlier command outlast a later
one and it fails (section 5; for DC2 with the default 4 s + 3 s against 2 s, the ramp
and end of a kill even come after its restore has made the vehicle ACTIVE). It also needs
kills that do not overlap, hence no commercial one: with two kills in force over one vehicle
the restore of the first ends in a vehicle the second still covers. Vehicle lists may be of
any length: then a later publication may overtake an earlier one, which is dropped as REPLAY,
but the later one decides. `OrdersWin` proves it under just these conditions (section 4).
`LooseKillAlarmIsTrue` is checked and proved within one key epoch: `vehicle_seq` restarts at
each epoch while `tookDeactivation` compares numbers alone, and with a bump between two
kills TLC finds an honest report rejected.

Exceptions named in a property are what the code does, found by checking the property
without them:

- `TwiceOnlyIfStray`, `OldBootOnlyIfStray`: a HELLO of any other boot opens that boot
  (`rules/vehicle-requests.ts:93`), so a delayed HELLO that has no stored answer brings an
  earlier boot back, although line 6 says old boots are refused.
- `CrCurrentUnlessRetried`: a job keeps the status of its moment; one that waits for its
  retry is sent after a newer one and stays (`ext-sync.repo.ts:128`).
- A write that finds its status there already only comments, without the check of
  the revision, and counts a change it has not processed as seen (`ext-sync.service.ts:304`
  against `:298`). A webhook that is lost is never made up for. `EpicConverges` asks that
  everything has settled because a job in hand may write a lifecycle the platform has left;
  the job of the later change then sends the new one.
- `ServedIsPublished`: a validation begun before a deployment writes back the row it read
  and un-deploys or reverts the policy (`policy.service.ts:183`). After a lost update the
  next edit can meet a revision number that is taken, and edits of that policy fail from
  then on. Only the creator is kept from approving, not the last editor.
- `TriggerHeard`: a plan approved after its deployment was closed, or a crash before the
  callback, and the rollback never runs by itself (`rollback.service.ts:110`).
- `WideOnlyAfterWatch`: a rollback brings back the stage and stage time the policy once
  had, so it is wide at once (`rollback.service.ts:495`).
- `NeverReversedUntilWrap`, `FreshTakenUntilWrap`: after 65 536 reports of a vehicle the
  numbers repeat and all further reports are refused, since the simulated vehicle keeps its
  boot reference.
- `NothingUnheard`: work that throws after a commit leaves the process wedged (`db.ts:63`).
- `OneEffectUnlessExcused`: two requests at once, or a crash before the answer is stored.
- `LoopCloses`: the feedback names the version deployed when the case is closed. After a
  rollback that is not the faulty one, and the faulty version, judged once more at G5 (a policy
  may be deployed for a version that is not released), resolves it. A crash between a commit
  and its subscriber loses the link (`anomaly.service.ts:79`). A crash between two of the
  feedbacks a verdict resolves (`feedback.service.ts:50`) leaves the older ones open, and
  nothing takes them up before the next verdict: the property then claims no more than that
  the newer ones went first.
- `NeverPlayedDown`: newer signals push a CRITICAL one out of the hundred, and a newer version
  of lower integrity raises the number of vehicles; either lowers the severity of the case,
  and line 139 would announce that as an escalation.
- `LimitedWhileFailing`: for reports over IF-06 only. A simulated or GLEO vehicle is not
  stopped by the limit, and above the threshold nothing renews it
  (`rules/security-events.ts:63`).
- `CopyHolds`: what a run leaves is claimed of an undisturbed one only (`alone`). Two that
  both list the flag before either has made its strategies may both end SYNCED and leave each
  strategy twice, although a sync is called a re-runnable upsert
  (`unleash-sync.service.ts:120`); a later run alone repairs it. That a flag is never bare
  excepts a person who deletes strategies (`cut`).
- `CutIsDue`: a lapsed trial may be bought while a later one runs, and a trial offered
  again before the sweep settled the last one; each lapses for itself, and the kill is asked
  for a vehicle that has another right. A crash between the expiry and the listener loses
  the kill (`trial-expiry.service.ts:111`), and a purchase between request and approval does
  not withdraw it.

## 4. Proofs

Proved for any sets of features, vehicles, people, roles and profiles and any bounds
(assuming only what the modules assume of their constants: `ConstantsOK`, `KernelConstants`,
`KeyConstants`, `RequestConstants`, `PolicyConstants`, `ReleaseConstants`,
`TrialConstants`, `LoopConstants`, `NumberConstants`, `LimitConstants`, `SyncConstants`,
`CopyConstants`; three theorems about `Delivery` have hypotheses of their own, see below):

| Theorem | States | Inductive invariant |
|---|---|---|
| `TypeCorrect` | `[]TypeOK` | itself |
| `SignedAlways` | `[]SignedInv` | itself |
| `TwoPersonAlways`, `InTimeAlways` | `[]TwoPersonRule`, `[]IssuedInTime` | `SignedInv` |
| `NumberedAlways` | `[]SeqGapFree` | with `TypeOK` |
| `SeparationAlways` | `[]RestoreSeparation` | `SeparationInv` |
| `MatchAlways` | `[]StatusMatchesCommands` | `MatchInv` |
| `OverlapAlways` | `[]OverlapOnlyOverCommercial` | `OverlapInv` |
| `WindowAlwaysCapped` | `[]WindowCap` | itself, with `TypeOK` |
| `ControlImplemented` | `ImplementsTwoPersonControl` | `Known`: `SignedInv` and `SeparationInv` |
| `DeliveryTyped`, `ClosedStaysClosed` | `[]TypeOK`, `ClosedIsFinal` | `DeliveryInv` |
| `TakenNotActive` | `[]AckedKillNotShownActive` | `DeliveryInv` |
| `AlarmAlwaysTrue` | `LooseKillAlarmIsTrue`, if `MaxEpoch = 1` | `DeliveryInv` and `HeardInv` |
| `OrdersWin` | `[]QuietAgreement`, if `QuietConstants` | these and `QuietInv` |
| `OverdueAlwaysExact` | `[]OverdueExact`, if `WatchConstants` | `DeliveryInv`, `HeardInv` and `WatchInv` |
| `KernelTyped` | `[]KernelTypeOK` | itself |
| `UndoneAlwaysOut`, `AllHeard` | `[]UndoneStaysOut`, `[]NothingUnheard` | `KernelInv` |
| `StreamImplemented` | `StreamsCommitted` | `KernelInv` |
| `KeysTyped`, `OneEffectAlways` | `[]KeyTypeOK`, `[]OneEffectUnlessExcused` | `KeyInv` |
| `RequestTyped`, `NumberTyped` | `[]RequestTypeOK`, `[]NumberTypeOK` | `Typed` with `Reconciled`; itself |
| `TwiceOnlyStray`, `OldBootOnlyStray` | `[]TwiceOnlyIfStray`, `[]OldBootOnlyIfStray` | `Channel` |
| `ReconciledAlways` | `[]ReconciledCoversSent` | `Reconciled` |
| `FreshAlwaysTaken`, `NeverTurnedBack` | `[]FreshTakenUntilWrap`, `[]NeverReversedUntilWrap` | `Numbered` |
| `LimitTyped`, `AlwaysLimited` | `[]LimitTypeOK`, `[]LimitedWhileFailing` | `Limited` |
| `SyncTyped` | `[]SyncTypeOK` | itself |
| `EpicAlwaysConverges` | `[]EpicConverges` | `Tables`, `Followed` and `Told` |
| `CrAlwaysCurrentUnlessRetried` | `[]CrCurrentUnlessRetried` | `Tables` and `SentInTurn` |
| `CopyTyped`, `CopyAlwaysHolds` | `[]CopyTypeOK`, `[]CopyHolds` | `CopyInv` |
| `RowsStayRecorded`, `OnlyJudgedIsPublished` | `[]RowIsItsRevision`, `[]PublishedWasJudged` | `ReleaseInv` |
| `ReleaseTyped` | `[]ReleaseTypeOK` | `ReleaseInv` and `RollbackInv` |
| `ServedAlways`, `WideAfterWatch` | `[]ServedIsPublished`, `[]WideOnlyAfterWatch` | `ReleaseInv` and `ServedInv` |
| `RollbackOfTheLast`, `ExecutionAlwaysMatches`, `TriggerAlwaysHeard` | `[]RollsBackTheLast`, `[]ExecutionMatchesArtifact`, `[]TriggerHeard` | these and `RollbackInv` |
| `RightsTyped`, `CutAlwaysDue` | `[]TrialTypeOK`, `[]CutIsDue` | `TrialTyped` with `TrialInv`; `TrialInv` |
| `LoopAlwaysTyped`, `LoopAlwaysCloses` | `[]LoopTypeOK`, `[]LoopCloses` | `LoopTyped` with `LoopInv`; `LoopInv` |
| `NeverDown` | `NeverPlayedDown` | `LoopInv` and `SevereKept` |

Signatures. `TwoPersonRule` speaks of issued commands only and is not inductive: nothing
in it says that the first approval of a request, stored long before, is sound. `SignedInv`
adds that the approvals stored with every request and every restore are by different people
and none by the requester, and that every command names an existing kill, has exactly two
such approvals, satisfied the gate's approval rule and, for a deactivation, was issued before
the deadline stored in its request. `OneMoreSignature` shows that `MayApprove` keeps this
for a list of approvals; `CommandStaysGood` that no later step spoils an old command, since
requester and deadline of a request never change. The steps are then one lemma per group of
actions: issue, approve, approve a restore, change one row, leave the tables alone.

Restore separation. A restore excludes the approvers of its own kill and those the ledger
holds, and is judged once more by the gate when its second approval arrives. The property
speaks of the order of commands instead: no approver of a restore approved the last
deactivation of the feature before it. `SeparationInv` links the two. `RestoreApart` says
that the approvers a kill's restore has so far are none of the kill's; `CommandsStand` that
the kill of an issued deactivation is still in force or was restored, and has the approvers
of the command; `LedgerRemembers` that the ledger holds the approvers of the last
deactivation. The case that needs all of it is a kill issued between the two approvals of
the restore of an older one: the first approver may be among its approvers, and the gate's
rule then refuses the command (`SeparationIssued`).

Numbers, statuses, overlap. `NumberingGrows` shows that `LedgerStep`, the one way the ledger
changes, extends the numbering of one feature and leaves the others. `MatchInv` needs
`SignedInv` for one reason: no command may name a request that does not exist yet. For
`OverlapOnlyOverCommercial`, `HandlersReviveNone` shows that a request that is neither in
force nor waiting never becomes live again, although its stored status stays `REQUESTED`
past the deadline; only `Issue` adds a live kill, behind its guard.

Window cap. `WindowCap` counts pairs of command and vehicle, so that no sum is needed. What
an earlier command touched with those before it never changes; a new command adds at most
the vehicles of its list to what the gate has counted (`FS_Union`), and the gate compares
that total with the cap or asks for FSM and CSM.

Refinement. `CaseOf` maps a kill to a case: its stage from the status, the people who
switched it on from the approvals once it is issued, those who switched it off from the
approvals of the restore once it is released. A first approval is a stutter, a second one a
step `TurnOn` or `TurnOff`, or `Refuse`; declining and asking for a restore are `Refuse` and
a stutter; ledger, gate, registry and clock do not appear.

Delivery. `AckedKillNotShownActive` speaks of a vehicle's status row and its last command;
the timers and guards of earlier commands are what could break it. `DeliveryInv` says that
numbers rise from command to command within an epoch (`Numbered`), that the number a guard
remembers is that of a command (`GuardFromCommand`), that every timer belongs to a
publication and one of its targets (`TasksGood`), that the publication waiting for its
dispatch is untouched (`TurnSigned`), and that a vehicle that took its last command has acknowledged it
(`TakenAcked`): so the check of acknowledgements in status ingest sees the kill whenever
the timer of an older restore reports ACTIVE. Issue and key epoch are the steps that
need the numbers; the steps of one vehicle go through one lemma, `OneVehicle`. Final verdicts
need `TypeOK` and that `Recompute` leaves closed publications alone.

True alarms. The alarm is raised on numbers the platform has heard, the claim is about the
number the guard keeps. `HeardInv` says that the platform has heard of no number the vehicle
has not reached (`NotAhead`) and that stages under way are those of commands the guard took
(`StagesTaken`). Both compare numbers of one epoch, hence `MaxEpoch = 1`; crashes, classes,
overtaking and offline vehicles are all allowed.

Orders win. Once nothing is on its way, what matters is the last command of each vehicle.
`QuietInv` says of every vehicle that its last command is on its way to it, at work in it, or
done (`UnderWay`); that timers of stages have one duration and that of a later command
never fires before that of an earlier one (`StagesInOrder`), so the last to fire is that of
the last command; that the guard's number is that of a command received (`NumbersKept`), so
it does not refuse the next. `OneKill` and `RestoresLater` relate the last command to kills in
force. `QuietConstants` names what the theorem needs, and each hypothesis is a way it fails
otherwise: stages of other lengths (`delivery_loose` runs the shortest case), commercial
kills under others, numbers that start again, timers a crash forgets, vehicles without a
link. It covers any delays and lists and any number of commands.

The overdue watch. That the watch raises whoever is late is a matter of the step that runs
it; that nobody seen as done comes loose again, and nobody with a link is late, is not.
`WatchInv` says of every vehicle with a link that its last command, if it is a kill, is on
its way to it, or was taken and ends by a timer, or has ended with no stage of a kill left
(`LastUnderWay`, `KillDone`); that the end of a kill fires after its ramp and after all
stages of earlier kills (`KillsInOrder`), so the last end reported is that of the last
kill. Restores need no such order: once the later kill was taken, the report that an earlier
restore has ended is refused (`RestoreUnheard`), so the platform's view holds where the
vehicle itself comes loose (`delivery_loose`). `InTime` says that a watch fires after the
deliveries of its kill and the stages they set off, and `Silent` that a vehicle without a
link is never heard of. `WatchConstants` asks for one epoch and no crash (a refused command
has no end, a crash forgets the watch), no commercial kill (two kills in force, the second
decides), one class in use (with DC1 and a mild reason the longer stage of an earlier kill may
end after that of a later one and overwrite it) and for each list the inequality the code
relies on and never checks: `Latency`, a `Stagger` for every further vehicle and the stages
together stay below the platform's time for the class and the margin. With the defaults
(350 ms, 120 ms, 30 s) it holds for DC0 and DC2 up to 248 simulated vehicles in one command;
above, a kill that every vehicle obeys is still raised as overdue.

Kernel. While a transaction is open, what the frames have written and what waits for the
commit are the same events, each once (`StackInv`); while lists are flushed, every durable
event has been streamed or stands in the rest of exactly one list, unless the process is
wedged or has crashed (`FlushInv`). A commit and the streaming of one event are the steps of
`CommittedStream`; everything else is a stutter.

Requests and keys. A report is open while it has no stored answer. `Channel` says that what
took effect and is still open is behind the cursor or in `stray`, that the open reports of a
boot older than one that took effect are stray, and that a boot came back, or has stray
reports ahead of the cursor, only by a stray HELLO. `Reconciled` says that a
stored HELLO answer covers the publications known when it was sent; it needs facts on the
maximum of a bounded set of numbers, proved through the least number. `KeyInv` notes
each way a second handler can exist: two running with one key are in `excused`
(`SharedNoted`), an answered key with a running handler too (`AnsweredNoted`), every
unexcused effect has a stored answer or its handler still running (`EffectKept`), and a
handler that has yet to act on a key that took effect is noted (`LateNoted`).

Report numbers and limits. `Numbered` adds nothing to the two properties but the type: until
the counter wraps numbers grow with it, so the number the platform compares with is that of
the newest stored report (`LastNumber`, from the largest of a finite set of numbers).
`Limited` adds to `LimitedWhileFailing` that failures are kept oldest first and, for IF-06
alone, never pass the threshold: the rest of the limit and the age of the failure that set
it add up to the time of the limit (`StoppedAtThreshold`), which `LimitConstants` make no
shorter than the window.

Sync. `Told` says that where JIRA and the platform differ some job will still tell, or the
latest change in JIRA was neither received nor answered. A job does not count when it may be
closed without telling (`Closing`): the one in hand, when it has found its status in JIRA or
has written (`HandCloses`), and those whose conflict is being or was answered otherwise
(`AnswerCloses`). The case that needs the latter is a resolution in favour of JIRA whose
transition back is in the outbox when the process dies. The status in hand may be stale:
`Followed` says that whenever it differs from the platform's before the write, the change
that came between has put a job in the outbox that this round does not take and no conflict is
about (`Fresh`), so whatever the stale write does, `FreshTells`.
For a CR there is nobody to tell, and `SentInTurn` says that jobs tried at most once are sent
by number: the first k are done, the drain works through the others, and JIRA shows the
status of job k or k + 1. It stops to hold at the first retry, as the property says.

The flag server. Nothing in `CopyHolds` speaks of a run under way, and almost every step is
one. `CopyInv` says that ids are unique and none is beyond the newest (`OneEach`); that a run
lists ids that exist already, and that one which deletes does not list the newest
(`ListsOld`): what it deletes was made before what it made itself; and that the newest strategy
stays (`NewestStays`) unless a person deletes one, so the flag is never bare although two
runs may each delete what the other listed. `AloneOnCourse` follows an undisturbed run call by
call: before the deletions the flag has what the run listed and the first `made` strategies
of its plan, each once, and after them only these. It holds from any state that failed and
lost runs may have left, which is why no history of earlier runs is needed. When another run
or a person steps in the run is no longer `alone`, and `ListsOld` and `NewestStays` are all
that is left of it.

Policies. `PublishedWasJudged` does not follow from the rows alone: a late validation may
write an old row back. `ReleaseInv` says of rows (`RowsGood`) and of rows read by validations
under way (`ReadsGood`) that their content is the recorded one of their revision; of rows
also that a status beyond VALIDATED is covered by `runs` and `approvals` for exactly their
content; and of rows read that this was before any deployment. What a validation writes
back has a status below approval, so the invariant survives it and the row has to be
approved again.

`ServedInv` ties the deployed row to the last publication. The one step that may part them
is a validation that read the row before its deployment; it leaves no deployed row at all,
and `lost` until the next deployment. `WideOnlyAfterWatch` needs more of that row
(`WatchGood`): unless the last publication is a rollback, its deployer is the one who
published, it counts as watched only once the publication has aged, and it is wide only
after someone else widened it.

Rollbacks. `RollsBackTheLast` rests on `ServedInv`: when a rollback runs, `Applicable` asks
that the policy of its deployment is deployed and the deployment the latest of that policy.
The deployed policy is that of the last publication, so its latest publication is the last
of all (`LatestIsLast`), and what the rollback publishes is the next one. `RollbackInv`
keeps for every execution that its publication exists and that its status says what became
of it, and for every approved plan whose deployment failed that it waits in `todo` or is
noted in `unheard`.

Trials. `TrialInv` adds to `CutIsDue` that a notice counts only for the last day it
names and was given in the days before it (`Sound`), that a paid right comes from a
converted, accepted trial (`RightsGood`), and that a trial a kill was asked for is settled
and keeps its last day (`CutsGood`). The case that needs it is a trial that lapses
next to another right: if that right is paid, the trial it was bought from is the second
accepted one.

Quality loop. `LoopCloses` speaks of the moments without a callback under way; `LoopInv`
says what holds during one. `CallbackGood` is what a callback finds: a kill that was issued,
a mitigated case without feedback, the newest verdict, younger than every feedback. The
case or verdict it is about counts as under way, and as missed once the process dies, so
that `KillsHeard`, one feedback for each mitigated case (`OneEach`) and the feedbacks
resolved by later verdicts (`ResolvedRight`) hold throughout. The order of resolution
(`NewestFirst`) is kept by every single resolution: the newest that can be resolved is taken
(`Greatest`), so a newer one that stays open is not answered by this verdict, while the one
taken is. For `NeverPlayedDown`, `SevereKept` says that the signals of an open CRITICAL case
still hold a CRITICAL one or come from enough vehicles, and those of a WARNING case one
above INFO; adding a signal without dropping one only adds to both.

Model-checked only. Liveness (`PublicationsClose`, `KillTakesEffect`, `OutboxDrains`) is
beyond the prover. Every other property of a passing run is proved.

## 5. Where code and text disagree

Each is a run that must end in a violation; `PROJECT.json` quotes the text.

- `kill_overwrite`: a kill in force is not overwritten by the expiry of a trial, says the
  listener; it looks when it asks, not when the request is approved.
- `delivery_loose`: a safety kill is lifted only by a restore, says the guard; the timer of a
  restore accepted before the kill lifts it too.
- `delivery_confirmed`: a report that reaches the end state answers its publication; it is
  linked to the command issued last, which the vehicle may not have received.
- `delivery_crash`: past its deadline a publication is PARTIAL or TIMEOUT; after a crash the
  deadline is gone.

## 6. Not modelled, and plan

The map covers a few percent of the lines of the repository. Most of the rest holds no
state of the platform: the front end and its data, generated tables (workflows, report
catalogue), seeds, interface texts, generators of synthetic fleets, and reads over
stored data. What is left of the logic:

- Audit chain: each record carries the hash of the one before inside the caller's
  transaction; nothing runs between, so a model would restate the code.
- Activation and targeting: a pure function of a flag, a vehicle and its context.
- Experiments, notifications, incidents, change records: state of their own, not modelled.
  One hazard of theirs is known: an experiment is concluded on results read before an
  `await`. The one listed hazard without a property is the kill a crash loses between the
  end of a trial and the listener; the model of `Entitlement` shows the loss.
- Security events other than failed authentication, and the alerts they send to the VSOC.
- Within the modules: the legacy v1 kill, `activate` and `sync` commands, several versions
  of a feature, key purposes, SBOM binding, JIRA items other than one status, the rate limit
  of reports, retention of stores other than reports, and of Unleash tags, dependencies
  and the records of calls. In `ExtSync` a call to JIRA that takes effect only after it was
  reported as failed, or after the process died; and `attempts`, which a round writes back
  from its own list (`ext-sync.repo.ts:125`), counts up from the row.

In this order:

1. Notifications: acknowledgement against escalation, over restarts.
2. `Evaluation`: the order of kill, entitlement, ODD and targeting as an operator, against a
   reference definition.
