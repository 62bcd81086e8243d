---------------------------- MODULE SyncProofs ----------------------------
(***************************************************************************)
(* Theorems about ExtSync, for any statuses, transitions, waits and number *)
(* of changes, overlapping resolutions, failed calls and crashes: the      *)
(* tables keep their shape, an Epic at rest shows the platform's status,   *)
(* and so does a CR that nobody touched in JIRA and of which no job was    *)
(* tried twice.                                                            *)
(*                                                                         *)
(* Theorems about UnleashSync, for any requests, plans, runs and changes   *)
(* by hand: its state keeps its types, a flag that had a strategy keeps    *)
(* one, and a run that nothing disturbed leaves the copy of its plan.      *)
(***************************************************************************)
EXTENDS ExtSync, UnleashSync, WellFoundedInduction, SequenceTheorems, TLAPS

Statuses == 1 .. MaxStatus
JobStates == {"PENDING", "DONE", "FAILED", "CONFLICT", "SKIPPED"}
Keys == [by: {"EVENT", "WEBHOOK", "CONFLICT"}, of: Nat]
Conflict == [job: DOMAIN outbox, open: BOOLEAN]

-----------------------------------------------------------------------------
(* The outbox and the drain *)

\* A set of numbers has a least element, which is its Min.
LEMMA Least ==
  ASSUME NEW S \in SUBSET Nat, S # {}
  PROVE  Min(S) \in S /\ \A y \in S : Min(S) <= y
<1>1. PICK m \in S : \A k \in S : <<k, m>> \notin OpToRel(<, Nat)
  BY WFMin, NatLessThanWellFounded, Zenon
<1>2. \A k \in S : ~(k < m)  BY <1>1, Zenon DEF OpToRel
<1>3. \A k \in S : m <= k  BY <1>2
<1> QED  BY <1>3 DEF Min

\* The first of a list is its least number.
LEMMA FirstIs ==
  ASSUME NEW Q \in SUBSET Nat, Q # {}
  PROVE  First(Q) \in Q /\ \A j \in Q : First(Q) <= j
  BY Least DEF First

\* The job in hand is the first of the list.
LEMMA CurrentIs ==
  ASSUME SyncTypeOK, drain.step # "idle"
  PROVE  Current \in drain.queue /\ Current \in DOMAIN outbox
         /\ \A j \in drain.queue : Current <= j
<1>1. drain.queue \subseteq DOMAIN outbox /\ drain.queue # {}  BY DEF SyncTypeOK
<1>2. DOMAIN outbox \subseteq Nat  BY LenProperties DEF SyncTypeOK
<1> QED  BY <1>1, <1>2, FirstIs DEF Current

LEMMA StatusesAre == MaxStatus \in Nat /\ 1 \in Statuses
  BY SyncConstants DEF Statuses

\* e is job j with another state, other attempts, or another wait.
Changed(e, j, s, n, d) ==
  /\ e \in Job /\ e.key = j.key /\ e.status = j.status
  /\ e.state = s /\ e.attempts = n /\ e.due = d

LEMMA JobKeeps ==
  ASSUME NEW j \in Job, NEW s \in JobStates, NEW d \in BOOLEAN
  PROVE  /\ Changed([j EXCEPT !.state = s, !.attempts = @ + 1], j, s, j.attempts + 1, j.due)
         /\ Changed([j EXCEPT !.attempts = @ + 1, !.due = d], j, j.state, j.attempts + 1, d)
         /\ Changed([j EXCEPT !.due = d], j, j.state, j.attempts, d)
         /\ Changed([j EXCEPT !.state = s, !.due = d], j, s, j.attempts, d)
<1>1. j.attempts \in Nat /\ j.attempts + 1 \in Nat  BY DEF Job
<1>2. PICK n \in Nat : n = j.attempts + 1  BY <1>1
<1>3. Changed([j EXCEPT !.state = s, !.attempts = n], j, s, n, j.due)
  BY DEF Changed, Job, JobStates
<1>4. Changed([j EXCEPT !.attempts = n, !.due = d], j, j.state, n, d)
  BY DEF Changed, Job, JobStates
<1>5. Changed([j EXCEPT !.due = d], j, j.state, j.attempts, d)
  BY DEF Changed, Job, JobStates
<1>6. Changed([j EXCEPT !.state = s, !.due = d], j, s, j.attempts, d)
  BY DEF Changed, Job, JobStates
<1> QED  BY <1>2, <1>3, <1>4, <1>5, <1>6

\* A step that puts nothing in the outbox.
SameJobs(box) ==
  /\ box \in Seq(Job) /\ DOMAIN box = DOMAIN outbox /\ Len(box) = Len(outbox)
  /\ \A i \in DOMAIN outbox : box[i].key = outbox[i].key /\ box[i].status = outbox[i].status

\* A step that changes nothing but job j, which becomes e.
OneJob(box, j, e) ==
  SameJobs(box) /\ box[j] = e /\ \A i \in DOMAIN outbox : i # j => box[i] = outbox[i]

LEMMA JobReplaced ==
  ASSUME SyncTypeOK, NEW j \in DOMAIN outbox, NEW e \in Job,
         e.key = outbox[j].key, e.status = outbox[j].status
  PROVE  OneJob([outbox EXCEPT ![j] = e], j, e)
<1>1. outbox \in Seq(Job) /\ j \in 1 .. Len(outbox) /\ DOMAIN outbox = 1 .. Len(outbox)
  BY LenProperties DEF SyncTypeOK
<1> DEFINE box == [outbox EXCEPT ![j] = e]
<1>2. box \in Seq(Job) /\ Len(box) = Len(outbox)  BY <1>1, ExceptSeq
<1>3. box[j] = e /\ \A i \in DOMAIN outbox : i # j => box[i] = outbox[i]  BY <1>1
<1>4. DOMAIN box = DOMAIN outbox  OBVIOUS
<1> QED  BY <1>2, <1>3, <1>4 DEF OneJob, SameJobs

LEMMA JobIs ==
  ASSUME SyncTypeOK, NEW j \in DOMAIN outbox
  PROVE  outbox[j] \in Job
  BY ElementOfSeq, LenProperties DEF SyncTypeOK

\* finish.
LEMMA FinishedIs ==
  ASSUME SyncTypeOK, NEW j \in DOMAIN outbox, NEW s \in JobStates
  PROVE  \E e \in Job : /\ OneJob(Finished(outbox, j, s), j, e)
                        /\ e.attempts = outbox[j].attempts + 1 /\ e.state = s
<1> DEFINE e == [outbox[j] EXCEPT !.state = s, !.attempts = @ + 1]
<1>1. outbox[j] \in Job  BY JobIs
<1>2. Changed(e, outbox[j], s, outbox[j].attempts + 1, outbox[j].due)
  BY <1>1, JobKeeps DEF Job
<1>3. Finished(outbox, j, s) = [outbox EXCEPT ![j] = e]  BY DEF Finished
<1> HIDE DEF e
<1>4. /\ e \in Job /\ e.key = outbox[j].key /\ e.status = outbox[j].status
      /\ e.state = s /\ e.attempts = outbox[j].attempts + 1
  BY <1>2 DEF Changed
<1> QED  BY <1>3, <1>4, JobReplaced

\* retry.
LEMMA RetriedIs ==
  ASSUME SyncTypeOK, NEW j \in DOMAIN outbox
  PROVE  \E e \in Job : /\ OneJob(Retried(j), j, e)
                        /\ e.attempts = outbox[j].attempts + 1
                        /\ e.state \in {outbox[j].state, "FAILED"}
<1>1. outbox[j] \in Job  BY JobIs
<1>2. CASE outbox[j].attempts + 1 < MaxAttempts
  <2> DEFINE e == [outbox[j] EXCEPT !.attempts = @ + 1, !.due = FALSE]
  <2>1. Changed(e, outbox[j], outbox[j].state, outbox[j].attempts + 1, FALSE)
    BY <1>1, JobKeeps DEF JobStates
  <2>2. Retried(j) = [outbox EXCEPT ![j] = e]  BY <1>2 DEF Retried
  <2> HIDE DEF e
  <2>3. /\ e \in Job /\ e.key = outbox[j].key /\ e.status = outbox[j].status
        /\ e.attempts = outbox[j].attempts + 1 /\ e.state = outbox[j].state
    BY <2>1 DEF Changed
  <2> QED  BY <2>2, <2>3, JobReplaced
<1>3. CASE ~(outbox[j].attempts + 1 < MaxAttempts)
  <2>1. Retried(j) = Finished(outbox, j, "FAILED")  BY <1>3 DEF Retried
  <2> QED  BY <2>1, FinishedIs DEF JobStates
<1> QED  BY <1>2, <1>3

\* The end of a wait.
LEMMA DueIs ==
  ASSUME SyncTypeOK, NEW j \in DOMAIN outbox
  PROVE  \E e \in Job : /\ OneJob([outbox EXCEPT ![j].due = TRUE], j, e)
                        /\ e.attempts = outbox[j].attempts /\ e.state = outbox[j].state
                        /\ e.due = TRUE
<1>1. outbox[j] \in Job  BY JobIs
<1> DEFINE e == [outbox[j] EXCEPT !.due = TRUE]
<1>2. Changed(e, outbox[j], outbox[j].state, outbox[j].attempts, TRUE)
  BY <1>1, JobKeeps DEF JobStates
<1>3. [outbox EXCEPT ![j].due = TRUE] = [outbox EXCEPT ![j] = e]  OBVIOUS
<1> HIDE DEF e
<1>4. /\ e \in Job /\ e.key = outbox[j].key /\ e.status = outbox[j].status
      /\ e.state = outbox[j].state /\ e.attempts = outbox[j].attempts /\ e.due = TRUE
  BY <1>2 DEF Changed
<1> QED  BY <1>3, <1>4, JobReplaced

\* requeue.
LEMMA AgainIs ==
  ASSUME SyncTypeOK, NEW j \in DOMAIN outbox
  PROVE  \E e \in Job :
           /\ OneJob([outbox EXCEPT ![j].state = "PENDING", ![j].due = TRUE], j, e)
           /\ e.attempts = outbox[j].attempts /\ e.state = "PENDING"
<1>1. outbox[j] \in Job  BY JobIs
<1> DEFINE e == [outbox[j] EXCEPT !.state = "PENDING", !.due = TRUE]
<1>2. Changed(e, outbox[j], "PENDING", outbox[j].attempts, TRUE)
  BY <1>1, JobKeeps DEF JobStates
<1>3. [outbox EXCEPT ![j].state = "PENDING", ![j].due = TRUE] = [outbox EXCEPT ![j] = e]
  <2>1. outbox \in [DOMAIN outbox -> Job]  BY LenProperties DEF SyncTypeOK
  <2> QED  BY <2>1
<1> HIDE DEF e
<1>4. /\ e \in Job /\ e.key = outbox[j].key /\ e.status = outbox[j].status
      /\ e.state = "PENDING" /\ e.attempts = outbox[j].attempts
  BY <1>2 DEF Changed
<1> QED  BY <1>3, <1>4, JobReplaced

\* enqueue, into an outbox with the same jobs: nothing, if the key is known, or one
\* more job that waits to be sent.
NewJob(status, key) ==
  [status |-> status, key |-> key, state |-> "PENDING", attempts |-> 0, due |-> TRUE]

OneMore(box, s, k) ==
  /\ outbox' \in Seq(Job) /\ Len(outbox') = Len(outbox) + 1
  /\ Len(outbox) \in Nat /\ DOMAIN outbox = 1 .. Len(outbox)
  /\ DOMAIN outbox' = 1 .. Len(outbox) + 1
  /\ \A i \in DOMAIN outbox : outbox'[i] = box[i]
  /\ outbox'[Len(outbox) + 1] = NewJob(s, k)

LEMMA EnqueuedIs ==
  ASSUME SyncTypeOK, NEW box, SameJobs(box), NEW s \in Statuses, NEW k \in Keys,
         outbox' = Enqueued(box, s, k)
  PROVE  /\ Known(outbox, k) => outbox' = box
         /\ ~Known(outbox, k) => OneMore(box, s, k)
<1>1. box \in Seq(Job) /\ DOMAIN box = DOMAIN outbox /\ Len(box) = Len(outbox)
      /\ Len(outbox) \in Nat /\ DOMAIN outbox = 1 .. Len(outbox)
  BY LenProperties DEF SameJobs, SyncTypeOK
<1>2. Known(box, k) <=> Known(outbox, k)  BY DEF Known, SameJobs
<1>3. NewJob(s, k) \in Job  BY DEF NewJob, Job, Statuses, Keys
<1>4. CASE Known(outbox, k)  BY <1>2, <1>4 DEF Enqueued
<1>5. CASE ~Known(outbox, k)
  <2>1. outbox' = Append(box, NewJob(s, k))  BY <1>2, <1>5 DEF Enqueued, NewJob
  <2> HIDE DEF NewJob
  <2>2. /\ outbox' \in Seq(Job) /\ Len(outbox') = Len(box) + 1
        /\ \A i \in 1 .. Len(box) : outbox'[i] = box[i]
        /\ outbox'[Len(box) + 1] = NewJob(s, k)
    BY <1>1, <1>3, <2>1, AppendProperties
  <2>3. DOMAIN outbox' = 1 .. Len(outbox')  BY <2>2, LenProperties
  <2> QED  BY <1>1, <1>5, <2>2, <2>3 DEF OneMore
<1> QED  BY <1>4, <1>5

-----------------------------------------------------------------------------
(* The shape of the tables *)

Steps == {"idle", "read", "compare", "comment", "status", "done", "conflict"}
ChooseValues == {"NONE", "PLATFORM", "EXTERNAL", "CLOSE"}
Resolution == [conflict: 0..Len(conflicts), item: Item \cup {NoItem}, choose: ChooseValues]

NoticesGood ==
  /\ remote \in Item
  /\ notices \subseteq [rev: 1..remote.rev, from: Statuses, to: Statuses, mine: BOOLEAN]
  /\ inbox \subseteq {n.rev : n \in notices}
  /\ \A m, n \in notices : m.rev = n.rev => m = n

\* Keys of reversals name a webhook that was sent or a conflict there is.
KeyGood(key) ==
  /\ key.by = "WEBHOOK" => key.of <= remote.rev
  /\ key.by = "CONFLICT" => key.of \in DOMAIN conflicts

JobsGood ==
  /\ outbox \in Seq(Job)
  /\ \A j \in DOMAIN outbox : KeyGood(outbox[j].key)

\* A drain that runs has a status to send, and JIRA's answer when it looks at it.
DrainGood ==
  /\ drain \in [queue: SUBSET DOMAIN outbox, step: Steps, desired: 0..MaxStatus,
               item: Item \cup {NoItem}, expected: Nat]
  /\ drain.step = "idle" <=> drain.queue = {}
  /\ drain.step \in {"compare", "done"} => drain.item \in Item
  /\ drain.step # "idle" => drain.desired \in Statuses

ConflictsGood == conflicts \in Seq(Conflict)

ResolvingGood ==
  /\ resolving \in [Resolvers -> Resolution]
  /\ \A r \in Resolvers :
       resolving[r].choose # "NONE" => resolving[r].conflict \in DOMAIN conflicts

CountsGood == changes \in 0..MaxChanges /\ syncFaults \in 0..MaxSyncFaults

Tables ==
  /\ kind \in {"EPIC", "CR"} /\ platform \in Statuses /\ seen \in Item
  /\ NoticesGood /\ JobsGood /\ DrainGood /\ ConflictsGood /\ ResolvingGood /\ CountsGood

LEMMA TablesTyped == Tables => SyncTypeOK
  BY DEF Tables, NoticesGood, JobsGood, DrainGood, ConflictsGood, ResolvingGood, CountsGood,
     SyncTypeOK, Statuses, Steps, ChooseValues, Conflict, Resolution

\* What stays as it is keeps its shape when the tables it refers to grow.
LEMMA DrainStill ==
  ASSUME DrainGood, UNCHANGED drain, DOMAIN outbox \subseteq DOMAIN outbox'
  PROVE  DrainGood'
  BY DEF DrainGood

LEMMA DesiredIs ==
  ASSUME SyncTypeOK, NEW j \in DOMAIN outbox
  PROVE  Desired(j) \in Statuses
<1>1. outbox[j].status \in Statuses  BY JobIs DEF Job, Statuses
<1> QED  BY <1>1 DEF Desired, SyncTypeOK, Statuses

\* The start of the first job of a list, or the end of the list.
LEMMA RunningIs ==
  ASSUME SyncTypeOK, NEW Q \in SUBSET DOMAIN outbox, drain' = Running(Q),
         DOMAIN outbox \subseteq DOMAIN outbox'
  PROVE  /\ DrainGood' /\ drain'.queue = Q /\ drain'.step \in {"idle", "read"}
         /\ drain'.step = "idle" <=> Q = {}
         /\ Q # {} => First(Q) \in Q /\ drain'.desired = Desired(First(Q))
<1>1. CASE Q = {}
  <2>1. drain' = Idle  BY <1>1 DEF Running
  <2>2. DrainGood'  BY <2>1, SyncConstants DEF Idle, DrainGood, Steps
  <2> QED  BY <1>1, <2>1, <2>2 DEF Idle
<1>2. CASE Q # {}
  <2>1. DOMAIN outbox \subseteq Nat  BY LenProperties DEF SyncTypeOK
  <2>2. First(Q) \in Q  BY <1>2, <2>1, FirstIs
  <2> DEFINE d == Desired(First(Q))
  <2>3. d \in Statuses  BY <2>2, DesiredIs
  <2>4. drain' = [queue |-> Q, step |-> "read", desired |-> d, item |-> NoItem, expected |-> 0]
    BY <1>2 DEF Running
  <2> HIDE DEF d
  <2>5. DrainGood'  BY <1>2, <2>3, <2>4, SyncConstants DEF DrainGood, Steps, Statuses
  <2> QED  BY <1>2, <2>2, <2>4, <2>5 DEF d
<1> QED  BY <1>1, <1>2

LEMMA DrainNext ==
  ASSUME SyncTypeOK, drain.step # "idle", drain' = NextJob,
         DOMAIN outbox \subseteq DOMAIN outbox'
  PROVE  DrainGood' /\ drain'.step \in {"idle", "read"} /\ drain'.queue = drain.queue \ {Current}
<1>1. drain.queue \ {Current} \in SUBSET DOMAIN outbox  BY DEF SyncTypeOK
<1> HIDE DEF Current
<1> QED  BY <1>1, RunningIs DEF NextJob

LEMMA DrainIdle == ASSUME drain' = Idle  PROVE DrainGood'
  BY SyncConstants DEF Idle, DrainGood, Steps

LEMMA ConflictsStill ==
  ASSUME ConflictsGood, UNCHANGED conflicts, DOMAIN outbox \subseteq DOMAIN outbox'
  PROVE  ConflictsGood'
<1>1. Conflict \subseteq Conflict'  BY DEF Conflict
<1> QED  BY <1>1, SeqMonotonic DEF ConflictsGood

LEMMA ResolvingNone == ASSUME resolving' = Unresolving, ConflictsGood'  PROVE ResolvingGood'
<1>1. Len(conflicts') \in Nat  BY LenProperties DEF ConflictsGood
<1>2. NoResolution \in Resolution' /\ NoResolution.choose = "NONE"
  BY <1>1 DEF NoResolution, Resolution, ChooseValues
<1> HIDE DEF NoResolution, Resolution
<1> QED  BY <1>2 DEF Unresolving, ResolvingGood

LEMMA ResolvingStill ==
  ASSUME ResolvingGood, UNCHANGED resolving,
         Len(conflicts') = Len(conflicts), DOMAIN conflicts' = DOMAIN conflicts
  PROVE  ResolvingGood'
  BY DEF ResolvingGood, Resolution

\* A step of one resolution leaves the others alone.
LEMMA ResolvingOne ==
  ASSUME ResolvingGood, NEW r \in Resolvers, NEW e \in Resolution,
         e.choose # "NONE" => e.conflict \in DOMAIN conflicts,
         resolving' = [resolving EXCEPT ![r] = e],
         Len(conflicts') = Len(conflicts), DOMAIN conflicts' = DOMAIN conflicts
  PROVE  ResolvingGood' /\ resolving'[r] = e
         /\ \A q \in Resolvers : q # r => resolving'[q] = resolving[q]
<1>1. Resolution' = Resolution  BY DEF Resolution
<1> HIDE DEF Resolution
<1> QED  BY <1>1 DEF ResolvingGood

LEMMA SameJobsGood ==
  ASSUME JobsGood, SameJobs(outbox'), remote'.rev >= remote.rev, remote' \in Item,
         remote \in Item, DOMAIN conflicts \subseteq DOMAIN conflicts'
  PROVE  JobsGood'
<1>1. \A j \in DOMAIN outbox : outbox[j].key.of \in Nat
  <2>1. \A j \in DOMAIN outbox : outbox[j] \in Job
    BY ElementOfSeq, LenProperties DEF JobsGood
  <2> QED  BY <2>1 DEF Job
<1>2. remote.rev \in Nat /\ remote'.rev \in Nat  BY DEF Item
<1>3. \A j \in DOMAIN outbox : KeyGood(outbox[j].key)'
  <2> SUFFICES ASSUME NEW j \in DOMAIN outbox  PROVE KeyGood(outbox[j].key)'  OBVIOUS
  <2>1. outbox'[j].key = outbox[j].key /\ KeyGood(outbox[j].key)  BY DEF SameJobs, JobsGood
  <2> QED  BY <1>1, <1>2, <2>1 DEF KeyGood
<1> QED  BY <1>3 DEF SameJobs, JobsGood

LEMMA OneMoreGood ==
  ASSUME JobsGood, NEW box, SameJobs(box), NEW s, NEW k, OneMore(box, s, k), KeyGood(k),
         UNCHANGED <<remote, conflicts>>
  PROVE  JobsGood' /\ DOMAIN outbox \subseteq DOMAIN outbox'
<1>1. Len(outbox) \in Nat  BY DEF OneMore
<1>2. ASSUME NEW j \in DOMAIN outbox'  PROVE KeyGood(outbox'[j].key)
  <2>1. CASE j \in DOMAIN outbox  BY <2>1 DEF OneMore, SameJobs, JobsGood
  <2>2. CASE j = Len(outbox) + 1  BY <2>2 DEF OneMore, NewJob
  <2> QED  BY <1>1, <1>2, <2>1, <2>2 DEF OneMore
<1>3. \A j \in DOMAIN outbox' : KeyGood(outbox[j].key)'
  BY <1>2 DEF KeyGood
<1> QED  BY <1>1, <1>3 DEF OneMore, JobsGood

\* apply: nothing happens to the platform and the outbox, or one more job waits.
Ignored(change, ok, key) ==
  \/ change.mine
  \/ ~Concerns(change.to)
  \/ ~Accepts(change.to, ok) /\ Known(outbox, key)

LEMMA AppliedIs ==
  ASSUME SyncTypeOK, NEW change, change.to \in Statuses, change.rev \in Nat, NEW ok \in BOOLEAN,
         NEW key \in Keys, NEW box, SameJobs(box), ApplyChange(change, ok, key, box)
  PROVE  /\ seen' \in Item /\ platform' \in Statuses
         /\ \/ outbox' = box /\ platform' = platform /\ Ignored(change, ok, key)
            \/ \E s \in Statuses, k \in {EventKey, key} : OneMore(box, s, k)
<1>1. platform \in Statuses  BY DEF SyncTypeOK, Statuses
<1>2. EventKey \in Keys /\ ~Known(outbox, EventKey)  BY DEF EventKey, Keys, Known
<1>3. seen' \in Item  BY DEF ApplyChange, Item, Statuses
<1>4. CASE change.mine \/ ~Concerns(change.to)
  <2>1. outbox' = box /\ platform' = platform  BY <1>4 DEF ApplyChange
  <2>2. Ignored(change, ok, key)  BY <1>4 DEF Ignored
  <2> QED  BY <1>1, <1>3, <2>1, <2>2
<1>5. CASE ~(change.mine \/ ~Concerns(change.to)) /\ Accepts(change.to, ok)
  <2>1. platform' = change.to /\ outbox' = Enqueued(box, change.to, EventKey)
    BY <1>5 DEF ApplyChange
  <2>2. OneMore(box, change.to, EventKey)  BY <1>2, <2>1, EnqueuedIs
  <2> QED  BY <1>3, <2>1, <2>2
<1>6. CASE ~(change.mine \/ ~Concerns(change.to)) /\ ~Accepts(change.to, ok)
  <2>1. platform' = platform /\ outbox' = Enqueued(box, platform, key)
    BY <1>6 DEF ApplyChange
  <2>2. CASE Known(outbox, key)
    BY <1>1, <1>3, <1>6, <2>1, <2>2, EnqueuedIs DEF Ignored
  <2>3. CASE ~Known(outbox, key)
    <3>1. OneMore(box, platform, key)  BY <1>1, <2>1, <2>3, EnqueuedIs
    <3> QED  BY <1>1, <1>3, <2>1, <3>1
  <2> QED  BY <2>2, <2>3
<1> QED  BY <1>4, <1>5, <1>6

LEMMA SameJobsHere == ASSUME SyncTypeOK  PROVE SameJobs(outbox)
  BY DEF SyncTypeOK, SameJobs

\* A change of the status in JIRA, or a comment, makes the next revision.
LEMMA NoticesNext ==
  ASSUME NoticesGood, NEW to \in Statuses, NEW mine \in BOOLEAN,
         remote' = [status |-> to, rev |-> remote.rev + 1],
         notices' = notices \cup {Notice(to, mine)}, UNCHANGED inbox
  PROVE  NoticesGood'
<1>1. remote.rev \in Nat /\ remote.status \in Statuses  BY DEF NoticesGood, Item, Statuses
<1>2. remote' \in Item /\ remote'.rev = remote.rev + 1  BY <1>1 DEF Item, Statuses
<1>3. Notice(to, mine) \in [rev: 1..remote'.rev, from: Statuses, to: Statuses, mine: BOOLEAN]
  BY <1>1, <1>2 DEF Notice
<1>4. \A n \in notices : /\ n \in [rev: 1..remote'.rev, from: Statuses, to: Statuses, mine: BOOLEAN]
                         /\ n.rev \in Nat /\ n.rev <= remote.rev
  BY <1>1, <1>2 DEF NoticesGood
<1>5. Notice(to, mine).rev = remote.rev + 1  BY DEF Notice
<1>6. inbox' \subseteq {n.rev : n \in notices'}  BY DEF NoticesGood
<1> DEFINE new == Notice(to, mine)
<1> HIDE DEF new
<1>7. \A m, n \in notices' : m.rev = n.rev => m = n
  BY <1>1, <1>4, <1>5 DEF NoticesGood, new
<1> QED  BY <1>2, <1>3, <1>4, <1>6, <1>7 DEF NoticesGood

LEMMA NoticesComment ==
  ASSUME NoticesGood, remote' = [remote EXCEPT !.rev = @ + 1], UNCHANGED <<notices, inbox>>
  PROVE  NoticesGood' /\ remote'.status = remote.status /\ remote'.rev = remote.rev + 1
<1>1. remote.rev \in Nat /\ remote \in Item  BY DEF NoticesGood, Item
<1>2. remote' \in Item /\ remote'.rev = remote.rev + 1 /\ remote'.status = remote.status
  BY <1>1 DEF Item
<1>3. \A n \in notices : n \in [rev: 1..remote'.rev, from: Statuses, to: Statuses, mine: BOOLEAN]
  BY <1>1, <1>2 DEF NoticesGood
<1> QED  BY <1>2, <1>3 DEF NoticesGood

LEMMA TablesPlatformChange ==
  ASSUME Tables, NEW s \in Statuses, PlatformChange(s)
  PROVE  /\ Tables' /\ OneMore(outbox, s, EventKey) /\ platform' = s
         /\ UNCHANGED <<kind, remote, seen, notices, inbox, drain, conflicts, resolving>>
<1>1. SyncTypeOK  BY TablesTyped
<1>2. /\ UNCHANGED <<kind, remote, seen, notices, inbox, drain, conflicts, resolving, syncFaults>>
      /\ platform' = s /\ outbox' = Enqueued(outbox, s, EventKey) /\ AnotherChange
  BY DEF PlatformChange
<1>3. EventKey \in Keys /\ ~Known(outbox, EventKey) /\ KeyGood(EventKey)
  BY DEF EventKey, Keys, Known, KeyGood
<1>4. SameJobs(outbox) /\ OneMore(outbox, s, EventKey)
  BY <1>1, <1>2, <1>3, EnqueuedIs, SameJobsHere
<1>5. JobsGood' /\ DOMAIN outbox \subseteq DOMAIN outbox'
  BY <1>2, <1>3, <1>4, OneMoreGood DEF Tables
<1>6. CountsGood'  BY <1>2, SyncConstants DEF Tables, CountsGood, AnotherChange
<1>7. DrainGood' /\ ConflictsGood' BY <1>2, <1>5, DrainStill, ConflictsStill DEF Tables
<1>8. NoticesGood' /\ ResolvingGood'  BY <1>2, ResolvingStill DEF Tables, NoticesGood
<1> QED  BY <1>2, <1>4, <1>5, <1>6, <1>7, <1>8 DEF Tables

\* Steps that touch no more than the jobs there are and the drain.
LEMMA TablesDrain ==
  ASSUME Tables, SameJobs(outbox'), DrainGood', seen' \in Item, CountsGood',
         UNCHANGED <<kind, platform, remote, notices, inbox, conflicts, resolving>>
  PROVE  Tables'
<1>1. remote \in Item /\ remote.rev \in Nat  BY DEF Tables, NoticesGood, Item
<1>2. JobsGood'  BY <1>1, SameJobsGood DEF Tables
<1>3. NoticesGood' /\ ResolvingGood'  BY ResolvingStill DEF Tables, NoticesGood
<1>4. ConflictsGood'  BY ConflictsStill DEF Tables, SameJobs
<1> QED  BY <1>2, <1>3, <1>4 DEF Tables

LEMMA TablesWaitEnds ==
  ASSUME Tables, NEW j \in DOMAIN outbox, WaitEnds(j)
  PROVE  Tables'
<1>1. SyncTypeOK  BY TablesTyped
<1>2. /\ UNCHANGED <<kind, platform, remote, seen, notices, inbox, drain, conflicts,
                     resolving, changes, syncFaults>>
      /\ outbox' = [outbox EXCEPT ![j].due = TRUE]
  BY DEF WaitEnds
<1>3. SameJobs(outbox')  BY <1>1, <1>2, DueIs DEF OneJob
<1>4. DrainGood'  BY <1>2, <1>3, DrainStill DEF Tables, SameJobs
<1>5. CountsGood' /\ seen' \in Item  BY <1>2 DEF Tables, CountsGood
<1> QED  BY <1>2, <1>3, <1>4, <1>5, TablesDrain

LEMMA TablesStartDrain ==
  ASSUME Tables, StartDrain
  PROVE  /\ Tables' /\ drain'.queue = Due /\ drain'.step = "read" /\ First(Due) \in Due
         /\ drain'.desired = Desired(First(Due))
         /\ UNCHANGED <<kind, platform, remote, notices, inbox, outbox, conflicts, resolving>>
<1>1. SyncTypeOK /\ SameJobs(outbox)  BY TablesTyped, SameJobsHere
<1>2. /\ UNCHANGED <<kind, platform, remote, seen, notices, inbox, outbox, conflicts,
                     resolving, changes, syncFaults>>
      /\ Due # {} /\ drain' = Running(Due)
  BY DEF StartDrain
<1>3. Due \in SUBSET DOMAIN outbox  BY DEF Due
<1> HIDE DEF Due
<1>4. /\ DrainGood' /\ drain'.queue = Due /\ drain'.step = "read" /\ First(Due) \in Due
      /\ drain'.desired = Desired(First(Due))
  BY <1>1, <1>2, <1>3, RunningIs
<1>5. CountsGood' /\ seen' \in Item  BY <1>2 DEF Tables, CountsGood
<1> QED  BY <1>1, <1>2, <1>4, <1>5, TablesDrain

LEMMA TablesReadRemote ==
  ASSUME Tables, ReadRemote
  PROVE  /\ Tables' /\ drain'.item = remote /\ drain'.queue = drain.queue
         /\ drain.step = "read" /\ drain'.step = "compare" /\ drain'.desired = drain.desired
         /\ UNCHANGED <<kind, platform, remote, notices, inbox, outbox, conflicts, resolving>>
<1>1. SyncTypeOK /\ SameJobs(outbox)  BY TablesTyped, SameJobsHere
<1>2. /\ UNCHANGED <<kind, platform, remote, seen, notices, inbox, outbox, conflicts,
                     resolving, changes, syncFaults>>
      /\ drain.step = "read"
      /\ drain' = [drain EXCEPT !.step = "compare", !.item = remote]
  BY DEF ReadRemote
<1>3. remote \in Item  BY DEF Tables, NoticesGood
<1>4. /\ DrainGood' /\ drain'.item = remote /\ drain'.queue = drain.queue
      /\ drain'.step = "compare" /\ drain'.desired = drain.desired
  BY <1>2, <1>3 DEF Tables, DrainGood, Steps
<1>5. CountsGood' /\ seen' \in Item  BY <1>2 DEF Tables, CountsGood
<1> QED  BY <1>1, <1>2, <1>4, <1>5, TablesDrain

LEMMA TablesCompareStatus ==
  ASSUME Tables, CompareStatus
  PROVE  /\ Tables' /\ drain'.queue = drain.queue /\ drain'.desired = drain.desired
         /\ drain.step = "compare"
         /\ \/ drain.item.status = drain.desired /\ drain'.step = "comment"
            \/ drain.item.status # drain.desired /\ drain'.step = "status"
         /\ UNCHANGED <<kind, platform, remote, notices, inbox, outbox, conflicts, resolving>>
<1>1. SyncTypeOK /\ SameJobs(outbox)  BY TablesTyped, SameJobsHere
<1>2. /\ UNCHANGED <<kind, platform, remote, seen, notices, inbox, outbox, conflicts,
                     resolving, changes, syncFaults>>
      /\ drain.step = "compare"
  BY DEF CompareStatus
<1>3. seen' \in Item /\ seen.rev \in Nat /\ CountsGood'
  BY <1>2 DEF Tables, CountsGood, Item
<1>4. /\ DrainGood' /\ drain'.queue = drain.queue /\ drain'.desired = drain.desired
      /\ \/ drain.item.status = drain.desired /\ drain'.step = "comment"
         \/ drain.item.status # drain.desired /\ drain'.step = "status"
  <2>1. CASE /\ drain.item.status = drain.desired
             /\ drain' = [drain EXCEPT !.step = "comment", !.item = NoItem]
    BY <1>2, <2>1 DEF Tables, DrainGood, Steps
  <2>2. CASE /\ drain.item.status # drain.desired
             /\ drain' = [drain EXCEPT !.step = "status", !.item = NoItem, !.expected = seen.rev]
    BY <1>2, <1>3, <2>2 DEF Tables, DrainGood, Steps
  <2> QED  BY <2>1, <2>2 DEF CompareStatus
<1> QED  BY <1>1, <1>2, <1>3, <1>4, TablesDrain

\* JIRA took the write.
LEMMA TablesWriteTaken ==
  ASSUME Tables, WriteTaken, drain.step # "idle", NoticesGood', remote'.rev = remote.rev + 1,
         UNCHANGED <<kind, platform, seen, inbox, outbox, conflicts, resolving, changes, syncFaults>>
  PROVE  /\ Tables' /\ drain'.queue = drain.queue /\ drain'.desired = drain.desired
         /\ drain'.step = "done"
<1>1. remote \in Item /\ remote.rev \in Nat /\ remote' \in Item  BY DEF Tables, NoticesGood, Item
<1>2. SameJobs(outbox)  BY TablesTyped, SameJobsHere
<1>3. JobsGood'  BY <1>1, <1>2, SameJobsGood DEF Tables
<1>4. /\ DrainGood' /\ drain'.queue = drain.queue /\ drain'.desired = drain.desired
      /\ drain'.step = "done"
  BY <1>1 DEF Tables, DrainGood, Steps, WriteTaken
<1>5. ConflictsGood' /\ ResolvingGood'  BY ConflictsStill, ResolvingStill DEF Tables
<1>6. CountsGood'  BY DEF Tables, CountsGood
<1> QED  BY <1>3, <1>4, <1>5, <1>6 DEF Tables

LEMMA TablesWriteComment ==
  ASSUME Tables, WriteComment
  PROVE  /\ Tables' /\ drain'.queue = drain.queue /\ drain'.desired = drain.desired
         /\ drain.step = "comment" /\ drain'.step = "done" /\ remote'.status = remote.status
         /\ UNCHANGED <<kind, platform, notices, inbox, outbox, conflicts, resolving>>
<1>1. /\ UNCHANGED <<kind, platform, seen, notices, inbox, outbox, conflicts, resolving,
                     changes, syncFaults>>
      /\ drain.step = "comment" /\ WriteTaken /\ remote' = [remote EXCEPT !.rev = @ + 1]
  BY DEF WriteComment
<1>2. NoticesGood' /\ remote'.status = remote.status /\ remote'.rev = remote.rev + 1
  BY <1>1, NoticesComment DEF Tables
<1> QED  BY <1>1, <1>2, TablesWriteTaken

\* The status is written, or somebody changed JIRA since it was last seen.
LEMMA TablesWriteStatus ==
  ASSUME Tables, WriteStatus
  PROVE  /\ Tables' /\ drain'.queue = drain.queue /\ drain'.desired = drain.desired
         /\ drain.step = "status"
         /\ \/ /\ drain'.step = "done" /\ remote'.status = drain.desired
               /\ notices' = notices \cup {Notice(drain.desired, TRUE)}
            \/ drain'.step = "conflict" /\ UNCHANGED <<remote, notices>>
         /\ UNCHANGED <<kind, platform, inbox, outbox, conflicts, resolving>>
<1>1. /\ UNCHANGED <<kind, platform, seen, inbox, outbox, conflicts, resolving, changes, syncFaults>>
      /\ drain.step = "status"
  BY DEF WriteStatus
<1>2. drain.desired \in Statuses /\ NoticesGood  BY <1>1 DEF Tables, DrainGood
<1>3. CASE /\ remote' = [status |-> drain.desired, rev |-> remote.rev + 1]
           /\ notices' = notices \cup {Notice(drain.desired, TRUE)}
           /\ WriteTaken
  <2>1. NoticesGood'  BY <1>1, <1>2, <1>3, NoticesNext
  <2>2. remote'.rev = remote.rev + 1 /\ remote'.status = drain.desired  BY <1>3
  <2> QED  BY <1>1, <1>3, <2>1, <2>2, TablesWriteTaken
<1>4. CASE /\ drain' = [drain EXCEPT !.step = "conflict", !.expected = 0]
           /\ UNCHANGED <<remote, notices>>
  <2>1. /\ DrainGood' /\ drain'.queue = drain.queue /\ drain'.desired = drain.desired
        /\ drain'.step = "conflict"
    BY <1>1, <1>4 DEF Tables, DrainGood, Steps
  <2>2. SameJobs(outbox')  BY <1>1, TablesTyped, SameJobsHere
  <2>3. CountsGood' /\ seen' \in Item  BY <1>1 DEF Tables, CountsGood
  <2> QED  BY <1>1, <1>4, <2>1, <2>2, <2>3, TablesDrain
<1> QED  BY <1>3, <1>4 DEF WriteStatus

LEMMA TablesCallFails ==
  ASSUME Tables, CallFails
  PROVE  /\ Tables' /\ drain'.step \in {"idle", "read"} /\ drain.step # "idle"
         /\ drain' = NextJob /\ drain'.queue = drain.queue \ {Current}
         /\ Current \in DOMAIN outbox
         /\ \E e \in Job : /\ OneJob(outbox', Current, e)
                           /\ e.attempts = outbox[Current].attempts + 1
                           /\ e.state \in {outbox[Current].state, "FAILED"}
         /\ UNCHANGED <<kind, platform, remote, seen, notices, inbox, conflicts, resolving>>
<1>1. SyncTypeOK  BY TablesTyped
<1>2. /\ UNCHANGED <<kind, platform, remote, seen, notices, inbox, conflicts, resolving, changes>>
      /\ drain.step # "idle" /\ AnotherFault
      /\ outbox' = Retried(Current) /\ drain' = NextJob
  BY DEF CallFails
<1>3. Current \in DOMAIN outbox  BY <1>1, <1>2, CurrentIs
<1>4. \E e \in Job : /\ OneJob(outbox', Current, e)
                     /\ e.attempts = outbox[Current].attempts + 1
                     /\ e.state \in {outbox[Current].state, "FAILED"}
  BY <1>1, <1>2, <1>3, RetriedIs
<1>5. SameJobs(outbox')  BY <1>4 DEF OneJob
<1>6. DrainGood' /\ drain'.step \in {"idle", "read"} /\ drain'.queue = drain.queue \ {Current}
  BY <1>1, <1>2, <1>5, DrainNext DEF SameJobs
<1>7. CountsGood' /\ seen' \in Item
  BY <1>2, SyncConstants DEF Tables, CountsGood, AnotherFault
<1> QED  BY <1>2, <1>3, <1>4, <1>5, <1>6, <1>7, TablesDrain

LEMMA TablesFinishJob ==
  ASSUME Tables, FinishJob
  PROVE  /\ Tables' /\ drain'.step \in {"idle", "read"} /\ drain.step = "done"
         /\ drain' = NextJob /\ drain'.queue = drain.queue \ {Current}
         /\ Current \in DOMAIN outbox
         /\ \E e \in Job : /\ OneJob(outbox', Current, e)
                           /\ e.attempts = outbox[Current].attempts + 1 /\ e.state = "DONE"
         /\ UNCHANGED <<kind, platform, remote, notices, inbox, conflicts, resolving>>
<1>1. SyncTypeOK  BY TablesTyped
<1>2. /\ UNCHANGED <<kind, platform, remote, notices, inbox, conflicts, resolving, changes, syncFaults>>
      /\ drain.step = "done" /\ seen' = drain.item
      /\ outbox' = Finished(outbox, Current, "DONE") /\ drain' = NextJob
  BY DEF FinishJob
<1>3. Current \in DOMAIN outbox  BY <1>1, <1>2, CurrentIs
<1>4. \E e \in Job : /\ OneJob(outbox', Current, e)
                     /\ e.attempts = outbox[Current].attempts + 1 /\ e.state = "DONE"
  BY <1>1, <1>2, <1>3, FinishedIs DEF JobStates
<1>5. SameJobs(outbox')  BY <1>4 DEF OneJob
<1>6. DrainGood' /\ drain'.step \in {"idle", "read"} /\ drain'.queue = drain.queue \ {Current}
  BY <1>1, <1>2, <1>5, DrainNext DEF SameJobs
<1>7. CountsGood' /\ seen' \in Item  BY <1>2 DEF Tables, CountsGood, DrainGood
<1> QED  BY <1>2, <1>3, <1>4, <1>5, <1>6, <1>7, TablesDrain

LEMMA TablesOpenConflict ==
  ASSUME Tables, OpenConflict
  PROVE  /\ Tables' /\ drain'.step \in {"idle", "read"} /\ drain.step # "idle" /\ drain' = NextJob
         /\ Current \in DOMAIN outbox
         /\ \E e \in Job : OneJob(outbox', Current, e) /\ e.state = "CONFLICT"
         /\ Len(conflicts) \in Nat /\ DOMAIN conflicts = 1 .. Len(conflicts)
         /\ DOMAIN conflicts' = 1 .. Len(conflicts) + 1
         /\ \A c \in DOMAIN conflicts : conflicts'[c] = conflicts[c]
         /\ UNCHANGED <<kind, platform, remote, notices, inbox, resolving>>
<1>1. SyncTypeOK  BY TablesTyped
<1>2. /\ UNCHANGED <<kind, platform, remote, seen, notices, inbox, resolving, changes, syncFaults>>
      /\ drain.step = "conflict"
      /\ conflicts' = Append(conflicts, [job |-> Current, open |-> TRUE])
      /\ outbox' = Finished(outbox, Current, "CONFLICT") /\ drain' = NextJob
  BY DEF OpenConflict
<1>3. Current \in DOMAIN outbox  BY <1>1, <1>2, CurrentIs
<1>4. \E e \in Job : OneJob(outbox', Current, e) /\ e.state = "CONFLICT"
  BY <1>1, <1>2, <1>3, FinishedIs DEF JobStates
<1>5. SameJobs(outbox') /\ DOMAIN outbox' = DOMAIN outbox  BY <1>4 DEF OneJob, SameJobs
<1>6. DrainGood' /\ drain'.step \in {"idle", "read"}
  BY <1>1, <1>2, <1>5, DrainNext
<1>7. /\ conflicts' \in Seq(Conflict) /\ Len(conflicts) \in Nat /\ Len(conflicts') = Len(conflicts) + 1
      /\ DOMAIN conflicts = 1 .. Len(conflicts)
      /\ DOMAIN conflicts' = 1 .. Len(conflicts) + 1
      /\ \A c \in DOMAIN conflicts : conflicts'[c] = conflicts[c]
  <2>1. [job |-> Current, open |-> TRUE] \in Conflict  BY <1>3 DEF Conflict
  <2>2. conflicts \in Seq(Conflict)  BY DEF Tables, ConflictsGood
  <2> HIDE DEF Conflict
  <2>3. conflicts' \in Seq(Conflict) /\ Len(conflicts') = Len(conflicts) + 1
        /\ \A c \in 1 .. Len(conflicts) : conflicts'[c] = conflicts[c]
    BY <1>2, <2>1, <2>2, AppendProperties
  <2> QED  BY <2>2, <2>3, LenProperties
<1>8. ConflictsGood'
  <2>1. Conflict = Conflict'  BY <1>5 DEF Conflict
  <2> QED  BY <1>7, <2>1 DEF ConflictsGood
<1>9. ResolvingGood'
  BY <1>2, <1>7 DEF Tables, ResolvingGood, Resolution
<1>10. remote \in Item /\ remote.rev \in Nat  BY DEF Tables, NoticesGood, Item
<1>11. JobsGood'  BY <1>2, <1>5, <1>7, <1>10, SameJobsGood DEF Tables
<1>12. NoticesGood' /\ CountsGood' /\ seen' \in Item /\ kind' \in {"EPIC", "CR"} /\ platform' \in Statuses
  BY <1>2 DEF Tables, NoticesGood, CountsGood
<1> QED  BY <1>2, <1>3, <1>4, <1>6, <1>7, <1>8, <1>9, <1>11, <1>12 DEF Tables

LEMMA TablesEdit ==
  ASSUME Tables, NEW s \in Statuses, Edit(s)
  PROVE  /\ Tables' /\ remote' = [status |-> s, rev |-> remote.rev + 1]
         /\ notices' = notices \cup {Notice(s, FALSE)}
         /\ UNCHANGED <<kind, platform, seen, inbox, outbox, drain, conflicts, resolving>>
<1>1. SyncTypeOK /\ SameJobs(outbox)  BY TablesTyped, SameJobsHere
<1>2. /\ remote' = [status |-> s, rev |-> remote.rev + 1] /\ AnotherChange
      /\ notices' = notices \cup {Notice(s, FALSE)}
      /\ UNCHANGED <<kind, platform, seen, inbox, outbox, drain, conflicts, resolving, syncFaults>>
  BY DEF Edit
<1>3. NoticesGood'  BY <1>2, NoticesNext DEF Tables
<1>4. remote \in Item /\ remote.rev \in Nat /\ remote' \in Item /\ remote'.rev = remote.rev + 1
  BY <1>2, <1>3 DEF Tables, NoticesGood, Item
<1>5. JobsGood'  BY <1>1, <1>2, <1>4, SameJobsGood DEF Tables
<1>6. DrainGood' /\ ConflictsGood' /\ ResolvingGood'
  BY <1>2, DrainStill, ConflictsStill, ResolvingStill DEF Tables
<1>7. CountsGood'  BY <1>2, SyncConstants DEF Tables, CountsGood, AnotherChange
<1> QED  BY <1>2, <1>3, <1>5, <1>6, <1>7 DEF Tables

\* What follows from apply, whoever asked for the change.
LEMMA TablesApply ==
  ASSUME Tables, NEW change, change.to \in Statuses, change.rev \in Nat, NEW ok \in BOOLEAN,
         NEW key \in Keys, KeyGood(key), NEW box, SameJobs(box), ApplyChange(change, ok, key, box),
         drain' \in {drain, Idle}, NoticesGood', CountsGood', ConflictsGood' => ResolvingGood',
         UNCHANGED <<kind, remote, conflicts>>
  PROVE  /\ Tables'
         /\ \/ outbox' = box /\ platform' = platform /\ Ignored(change, ok, key)
            \/ \E s \in Statuses, k \in {EventKey, key} : OneMore(box, s, k)
<1>1. SyncTypeOK  BY TablesTyped
<1>2. /\ seen' \in Item /\ platform' \in Statuses
      /\ \/ outbox' = box /\ platform' = platform /\ Ignored(change, ok, key)
         \/ \E s \in Statuses, k \in {EventKey, key} : OneMore(box, s, k)
  BY <1>1, AppliedIs
<1>3. JobsGood' /\ DOMAIN outbox \subseteq DOMAIN outbox'
  <2>1. CASE outbox' = box
    <3>1. remote \in Item /\ remote.rev \in Nat  BY DEF Tables, NoticesGood, Item
    <3>2. SameJobs(outbox')  BY <2>1
    <3> QED  BY <3>1, <3>2, SameJobsGood DEF Tables, SameJobs
  <2>2. ASSUME NEW s \in Statuses, NEW k \in {EventKey, key}, OneMore(box, s, k)
        PROVE  JobsGood' /\ DOMAIN outbox \subseteq DOMAIN outbox'
    <3>1. KeyGood(k)  BY <2>2 DEF KeyGood, EventKey
    <3> QED  BY <2>2, <3>1, OneMoreGood DEF Tables
  <2> QED  BY <1>2, <2>1, <2>2
<1>4. DrainGood' /\ ConflictsGood'
  BY <1>3, DrainStill, DrainIdle, ConflictsStill DEF Tables
<1> QED  BY <1>2, <1>3, <1>4 DEF Tables

LEMMA NoticeIs ==
  ASSUME Tables, NEW n \in notices
  PROVE  /\ n.to \in Statuses /\ n.rev \in Nat /\ n.rev <= remote.rev
         /\ WebhookKey(n.rev) \in Keys /\ KeyGood(WebhookKey(n.rev))
<1>1. n \in [rev: 1..remote.rev, from: Statuses, to: Statuses, mine: BOOLEAN] /\ remote.rev \in Nat
  BY DEF Tables, NoticesGood, Item
<1>2. n.to \in Statuses /\ n.rev \in Nat /\ n.rev <= remote.rev  BY <1>1
<1> QED  BY <1>2 DEF WebhookKey, Keys, KeyGood

\* A webhook, whether or not its receipt was stored.
LEMMA TablesIngest ==
  ASSUME Tables, NEW n \in notices, NEW ok \in BOOLEAN, Ingest(n, ok) \/ CrashInIngest(n, ok)
  PROVE  /\ Tables'
         /\ \/ outbox' = outbox /\ platform' = platform /\ Ignored(n, ok, WebhookKey(n.rev))
            \/ \E s \in Statuses, k \in Keys : OneMore(outbox, s, k) /\ k.by # "CONFLICT"
         /\ drain' \in {drain, Idle} /\ resolving' \in {resolving, Unresolving}
         /\ inbox' \subseteq inbox \cup {n.rev} /\ n.rev \notin inbox
         /\ UNCHANGED <<kind, remote, notices, conflicts>>
<1>1. SyncTypeOK /\ SameJobs(outbox)  BY TablesTyped, SameJobsHere
<1>2. /\ n.rev \notin inbox /\ ApplyChange(n, ok, WebhookKey(n.rev), outbox)
      /\ UNCHANGED <<kind, remote, notices, conflicts>>
      /\ drain' \in {drain, Idle} /\ resolving' \in {resolving, Unresolving}
      /\ inbox' \in {inbox, inbox \cup {n.rev}}
      /\ changes' = changes /\ (syncFaults' = syncFaults \/ AnotherFault)
  BY DEF Ingest, CrashInIngest
<1>3. n.to \in Statuses /\ n.rev \in Nat /\ WebhookKey(n.rev) \in Keys /\ KeyGood(WebhookKey(n.rev))
  BY NoticeIs
<1>4. NoticesGood'  BY <1>2 DEF Tables, NoticesGood
<1>5. CountsGood'  BY <1>2, SyncConstants DEF Tables, CountsGood, AnotherFault
<1>6. ConflictsGood' => ResolvingGood'
  BY <1>2, ResolvingNone, ResolvingStill DEF Tables
<1>7. /\ Tables'
      /\ \/ outbox' = outbox /\ platform' = platform /\ Ignored(n, ok, WebhookKey(n.rev))
         \/ \E s \in Statuses, k \in {EventKey, WebhookKey(n.rev)} : OneMore(outbox, s, k)
  BY <1>1, <1>2, <1>3, <1>4, <1>5, <1>6, TablesApply
<1>8. \A k \in {EventKey, WebhookKey(n.rev)} : k \in Keys /\ k.by # "CONFLICT"
  BY <1>3 DEF EventKey, WebhookKey, Keys
<1> QED  BY <1>2, <1>7, <1>8

LEMMA TablesSyncCrash ==
  ASSUME Tables, SyncCrash
  PROVE  /\ Tables' /\ drain' = Idle /\ resolving' = Unresolving
         /\ UNCHANGED <<kind, platform, remote, notices, inbox, outbox, conflicts>>
<1>1. /\ drain' = Idle /\ resolving' = Unresolving /\ AnotherFault
      /\ seen' \in IF drain.step = "done" THEN {seen, drain.item} ELSE {seen}
      /\ UNCHANGED <<kind, platform, remote, notices, inbox, outbox, conflicts, changes>>
  BY DEF SyncCrash
<1>2. seen' \in Item  BY <1>1 DEF Tables, DrainGood
<1>3. DrainGood' /\ ConflictsGood' /\ ResolvingGood'
  BY <1>1, DrainIdle, ConflictsStill, ResolvingNone DEF Tables
<1>4. CountsGood'  BY <1>1, SyncConstants DEF Tables, CountsGood, AnotherFault
<1>5. NoticesGood' /\ JobsGood'  BY <1>1 DEF Tables, NoticesGood, JobsGood, KeyGood
<1> QED  BY <1>1, <1>2, <1>3, <1>4, <1>5 DEF Tables

-----------------------------------------------------------------------------
(* Steps of a resolution *)

LEMMA ConflictIs ==
  ASSUME Tables, NEW c \in DOMAIN conflicts
  PROVE  /\ c \in Nat /\ c \in 0 .. Len(conflicts) /\ conflicts[c] \in Conflict
         /\ conflicts[c].job \in DOMAIN outbox
         /\ ConflictKey(c) \in Keys /\ KeyGood(ConflictKey(c))
<1>1. conflicts \in Seq(Conflict)  BY DEF Tables, ConflictsGood
<1>2. conflicts[c] \in Conflict /\ c \in 1 .. Len(conflicts) /\ Len(conflicts) \in Nat
  <2> HIDE DEF Conflict
  <2> QED  BY <1>1, ElementOfSeq, LenProperties
<1> QED  BY <1>2 DEF Conflict, ConflictKey, Keys, KeyGood

\* Steps that touch no more than one resolution.
LEMMA TablesResolving ==
  ASSUME Tables, ResolvingGood', CountsGood',
         UNCHANGED <<kind, platform, remote, seen, notices, inbox, outbox, drain, conflicts>>
  PROVE  Tables'
<1>1. NoticesGood' /\ JobsGood' /\ DrainGood' /\ ConflictsGood'
  BY DrainStill, ConflictsStill DEF Tables, NoticesGood, JobsGood, KeyGood
<1> QED  BY <1>1 DEF Tables

LEMMA TablesStartResolve ==
  ASSUME Tables, NEW r \in Resolvers, NEW c \in DOMAIN conflicts,
         NEW choose \in {"PLATFORM", "EXTERNAL"}, StartResolve(r, c, choose)
  PROVE  /\ Tables' /\ resolving'[r].item = NoItem
         /\ \A q \in Resolvers : q # r => resolving'[q] = resolving[q]
         /\ UNCHANGED <<kind, platform, remote, seen, notices, inbox, outbox, drain, conflicts>>
<1> DEFINE e == [conflict |-> c, choose |-> choose, item |-> NoItem]
<1>1. /\ resolving' = [resolving EXCEPT ![r] = e]
      /\ UNCHANGED <<kind, platform, remote, seen, notices, inbox, outbox, drain, conflicts,
                     changes, syncFaults>>
  BY DEF StartResolve
<1>2. c \in 0 .. Len(conflicts)  BY ConflictIs
<1>3. e \in Resolution /\ e.conflict \in DOMAIN conflicts /\ e.item = NoItem
  BY <1>2 DEF Resolution, ChooseValues
<1> HIDE DEF e
<1>4. ResolvingGood' /\ resolving'[r] = e /\ \A q \in Resolvers : q # r => resolving'[q] = resolving[q]
  BY <1>1, <1>3, ResolvingOne DEF Tables
<1>5. CountsGood'  BY <1>1 DEF Tables, CountsGood
<1> QED  BY <1>1, <1>3, <1>4, <1>5, TablesResolving

LEMMA TablesReadTheirs ==
  ASSUME Tables, NEW r \in Resolvers, ReadTheirs(r)
  PROVE  /\ Tables' /\ resolving'[r].item = remote
         /\ \A q \in Resolvers : q # r => resolving'[q] = resolving[q]
         /\ UNCHANGED <<kind, platform, remote, seen, notices, inbox, outbox, drain, conflicts>>
<1> DEFINE e == [resolving[r] EXCEPT !.item = remote]
<1>1. /\ resolving' = [resolving EXCEPT ![r] = e]
      /\ resolving[r].choose \in {"PLATFORM", "EXTERNAL"}
      /\ UNCHANGED <<kind, platform, remote, seen, notices, inbox, outbox, drain, conflicts,
                     changes, syncFaults>>
  BY DEF ReadTheirs
<1>2. remote \in Item  BY DEF Tables, NoticesGood
<1>3. e \in Resolution /\ e.conflict \in DOMAIN conflicts /\ e.item = remote
  BY <1>1, <1>2 DEF Tables, ResolvingGood, Resolution
<1> HIDE DEF e
<1>4. ResolvingGood' /\ resolving'[r] = e /\ \A q \in Resolvers : q # r => resolving'[q] = resolving[q]
  BY <1>1, <1>3, ResolvingOne DEF Tables
<1>5. CountsGood'  BY <1>1 DEF Tables, CountsGood
<1> QED  BY <1>1, <1>3, <1>4, <1>5, TablesResolving

\* A resolution that is over.
LEMMA ResolvingEnds ==
  ASSUME Tables, NEW r \in Resolvers, resolving' = [resolving EXCEPT ![r] = NoResolution],
         Len(conflicts') = Len(conflicts), DOMAIN conflicts' = DOMAIN conflicts
  PROVE  /\ ResolvingGood' /\ resolving'[r].choose = "NONE"
         /\ \A q \in Resolvers : q # r => resolving'[q] = resolving[q]
<1>1. Len(conflicts) \in Nat  BY LenProperties DEF Tables, ConflictsGood
<1>2. NoResolution \in Resolution /\ NoResolution.choose = "NONE"
  BY <1>1 DEF NoResolution, Resolution, ChooseValues
<1> HIDE DEF NoResolution
<1> QED  BY <1>2, ResolvingOne DEF Tables

LEMMA TablesReadTheirsFails ==
  ASSUME Tables, NEW r \in Resolvers, ReadTheirsFails(r)
  PROVE  /\ Tables' /\ resolving'[r].choose = "NONE"
         /\ \A q \in Resolvers : q # r => resolving'[q] = resolving[q]
         /\ UNCHANGED <<kind, platform, remote, seen, notices, inbox, outbox, drain, conflicts>>
<1>1. /\ resolving' = [resolving EXCEPT ![r] = NoResolution] /\ AnotherFault
      /\ UNCHANGED <<kind, platform, remote, seen, notices, inbox, outbox, drain, conflicts, changes>>
  BY DEF ReadTheirsFails
<1>2. /\ ResolvingGood' /\ resolving'[r].choose = "NONE"
      /\ \A q \in Resolvers : q # r => resolving'[q] = resolving[q]
  BY <1>1, ResolvingEnds
<1>3. CountsGood'  BY <1>1, SyncConstants DEF Tables, CountsGood, AnotherFault
<1> QED  BY <1>1, <1>2, <1>3, TablesResolving

\* A resolution that has only to wait for the drain.
LEMMA ResolvingWaits ==
  ASSUME Tables, NEW r \in Resolvers, resolving[r].choose # "NONE", AwaitDrain(r), UNCHANGED conflicts
  PROVE  /\ ResolvingGood' /\ resolving'[r].choose = "CLOSE"
         /\ \A q \in Resolvers : q # r => resolving'[q] = resolving[q]
<1> DEFINE e == [resolving[r] EXCEPT !.choose = "CLOSE", !.item = NoItem]
<1>1. e \in Resolution /\ e.conflict \in DOMAIN conflicts /\ e.choose = "CLOSE"
  BY DEF Tables, ResolvingGood, Resolution, ChooseValues
<1>2. resolving' = [resolving EXCEPT ![r] = e]  BY DEF AwaitDrain
<1> HIDE DEF e
<1> QED  BY <1>1, <1>2, ResolvingOne DEF Tables

LEMMA TablesSendAgain ==
  ASSUME Tables, NEW r \in Resolvers, SendAgain(r)
  PROVE  /\ Tables' /\ resolving'[r].choose = "CLOSE"
         /\ \A q \in Resolvers : q # r => resolving'[q] = resolving[q]
         /\ resolving[r].choose # "NONE" /\ resolving[r].conflict \in DOMAIN conflicts
         /\ \E e \in Job : OneJob(outbox', conflicts[resolving[r].conflict].job, e) /\ e.state = "PENDING"
         /\ UNCHANGED <<kind, platform, remote, notices, inbox, drain, conflicts>>
<1> DEFINE c == resolving[r].conflict
           j == conflicts[c].job
<1>1. SyncTypeOK  BY TablesTyped
<1>2. /\ resolving[r].choose = "PLATFORM" /\ resolving[r].item # NoItem /\ seen' = resolving[r].item
      /\ outbox' = [outbox EXCEPT ![j].state = "PENDING", ![j].due = TRUE]
      /\ AwaitDrain(r)
      /\ UNCHANGED <<kind, platform, remote, notices, inbox, drain, conflicts, changes, syncFaults>>
  BY DEF SendAgain
<1>3. c \in DOMAIN conflicts /\ seen' \in Item
  BY <1>2 DEF Tables, ResolvingGood, Resolution
<1>4. j \in DOMAIN outbox  BY <1>3, ConflictIs
<1> HIDE DEF j
<1>5. \E e \in Job : OneJob(outbox', j, e) /\ e.state = "PENDING"
  BY <1>1, <1>2, <1>4, AgainIs
<1>6. SameJobs(outbox') /\ DOMAIN outbox' = DOMAIN outbox  BY <1>5 DEF OneJob, SameJobs
<1>7. /\ ResolvingGood' /\ resolving'[r].choose = "CLOSE"
      /\ \A q \in Resolvers : q # r => resolving'[q] = resolving[q]
  BY <1>2, ResolvingWaits
<1>8. remote \in Item /\ remote.rev \in Nat  BY DEF Tables, NoticesGood, Item
<1>9. JobsGood'  BY <1>2, <1>6, <1>8, SameJobsGood DEF Tables
<1>10. NoticesGood' /\ DrainGood' /\ ConflictsGood' /\ CountsGood'
  BY <1>2, <1>6, DrainStill, ConflictsStill DEF Tables, NoticesGood, CountsGood
<1> QED  BY <1>2, <1>3, <1>5, <1>7, <1>9, <1>10 DEF Tables, j

\* The request is ignored, or answered by one more job; either way the conflict's
\* job is closed.
LEMMA TablesTakeTheirs ==
  ASSUME Tables, NEW r \in Resolvers, NEW ok \in BOOLEAN, TakeTheirs(r, ok)
  PROVE  /\ Tables' /\ resolving'[r].choose = "CLOSE" /\ resolving[r].choose = "EXTERNAL"
         /\ \A q \in Resolvers : q # r => resolving'[q] = resolving[q]
         /\ resolving[r].conflict \in DOMAIN conflicts
         /\ conflicts[resolving[r].conflict].job \in DOMAIN outbox
         /\ \E box \in Seq(Job), e \in Job :
              /\ OneJob(box, conflicts[resolving[r].conflict].job, e)
              /\ \/ /\ outbox' = box /\ platform' = platform
                    /\ \/ resolving[r].item.status = platform
                       \/ kind = "CR"
                       \/ Known(outbox, ConflictKey(resolving[r].conflict))
                 \/ \E s \in Statuses, k \in Keys : OneMore(box, s, k)
         /\ UNCHANGED <<kind, remote, notices, inbox, drain, conflicts>>
<1> DEFINE c == resolving[r].conflict
           j == conflicts[c].job
           change == [to |-> resolving[r].item.status, rev |-> resolving[r].item.rev, mine |-> FALSE]
           box == Finished(outbox, j, "SKIPPED")
<1>1. SyncTypeOK  BY TablesTyped
<1>2. /\ resolving[r].choose = "EXTERNAL" /\ ApplyChange(change, ok, ConflictKey(c), box)
      /\ AwaitDrain(r) /\ resolving[r].item # NoItem
      /\ UNCHANGED <<kind, remote, notices, inbox, drain, conflicts, changes, syncFaults>>
  BY DEF TakeTheirs
<1>3. c \in DOMAIN conflicts /\ resolving[r].item \in Item
  BY <1>2 DEF Tables, ResolvingGood, Resolution
<1>4. j \in DOMAIN outbox /\ ConflictKey(c) \in Keys /\ KeyGood(ConflictKey(c))
  BY <1>3, ConflictIs
<1>5. change.to = resolving[r].item.status /\ change.to \in Statuses /\ change.rev \in Nat /\ ~change.mine
  BY <1>3 DEF Item, Statuses
<1> HIDE DEF change
<1>6. PICK e \in Job : OneJob(box, j, e)
  <2> HIDE DEF j
  <2> QED  BY <1>1, <1>4, FinishedIs DEF JobStates
<1>7. SameJobs(box) /\ box \in Seq(Job)  BY <1>6 DEF OneJob, SameJobs
<1>8. /\ ResolvingGood' /\ resolving'[r].choose = "CLOSE"
      /\ \A q \in Resolvers : q # r => resolving'[q] = resolving[q]
  BY <1>2, ResolvingWaits
<1>9. NoticesGood' /\ CountsGood'  BY <1>2 DEF Tables, NoticesGood, CountsGood
<1> HIDE DEF box, j, c
<1>10. /\ Tables'
       /\ \/ outbox' = box /\ platform' = platform /\ Ignored(change, ok, ConflictKey(c))
          \/ \E s \in Statuses, k \in {EventKey, ConflictKey(c)} : OneMore(box, s, k)
  BY <1>2, <1>4, <1>5, <1>7, <1>8, <1>9, TablesApply
<1>11. Ignored(change, ok, ConflictKey(c)) =>
         resolving[r].item.status = platform \/ kind = "CR" \/ Known(outbox, ConflictKey(c))
  BY <1>1, <1>5 DEF Ignored, Concerns, SyncTypeOK
<1>12. EventKey \in Keys  BY DEF EventKey, Keys
<1> QED  BY <1>2, <1>3, <1>4, <1>6, <1>7, <1>8, <1>10, <1>11, <1>12 DEF c, j

LEMMA TablesCloseConflict ==
  ASSUME Tables, NEW r \in Resolvers, CloseConflict(r)
  PROVE  /\ Tables' /\ DOMAIN conflicts' = DOMAIN conflicts
         /\ resolving[r].choose # "NONE" /\ resolving'[r].choose = "NONE"
         /\ \A q \in Resolvers : q # r => resolving'[q] = resolving[q]
         /\ \A c \in DOMAIN conflicts : conflicts'[c].job = conflicts[c].job
         /\ UNCHANGED <<kind, platform, remote, notices, inbox, outbox, drain>>
<1> DEFINE c == resolving[r].conflict
           e == [conflicts[c] EXCEPT !.open = FALSE]
<1>1. /\ resolving[r].choose = "CLOSE" /\ resolving' = [resolving EXCEPT ![r] = NoResolution]
      /\ conflicts' = [conflicts EXCEPT ![c].open = FALSE]
      /\ UNCHANGED <<kind, platform, remote, seen, notices, inbox, outbox, drain, changes, syncFaults>>
  BY DEF CloseConflict
<1>2. c \in DOMAIN conflicts  BY <1>1 DEF Tables, ResolvingGood
<1>3. conflicts[c] \in Conflict  BY <1>2, ConflictIs
<1>4. e \in Conflict /\ e.job = conflicts[c].job  BY <1>3 DEF Conflict
<1>5. conflicts' = [conflicts EXCEPT ![c] = e]  BY <1>1
<1> HIDE DEF e, c
<1>6. conflicts \in Seq(Conflict)  BY DEF Tables, ConflictsGood
<1>7. c \in 1 .. Len(conflicts) /\ conflicts' \in Seq(Conflict) /\ Len(conflicts') = Len(conflicts)
      /\ DOMAIN conflicts' = DOMAIN conflicts
  <2> HIDE DEF Conflict
  <2> QED  BY <1>2, <1>4, <1>5, <1>6, ExceptSeq, LenProperties
<1>8. \A d \in DOMAIN conflicts : conflicts'[d].job = conflicts[d].job
  BY <1>2, <1>4, <1>5
<1>9. ConflictsGood'
  <2>1. Conflict = Conflict'  BY <1>1 DEF Conflict
  <2> QED  BY <1>7, <2>1 DEF ConflictsGood
<1>10. /\ ResolvingGood' /\ resolving'[r].choose = "NONE"
       /\ \A q \in Resolvers : q # r => resolving'[q] = resolving[q]
  BY <1>1, <1>7, ResolvingEnds
<1>11. JobsGood' /\ NoticesGood' /\ DrainGood' /\ CountsGood'
  BY <1>1, <1>7, DrainStill DEF Tables, NoticesGood, JobsGood, KeyGood, CountsGood
<1> QED  BY <1>1, <1>7, <1>8, <1>9, <1>10, <1>11 DEF Tables

LEMMA TablesInit == SyncInit => Tables
<1> SUFFICES ASSUME SyncInit  PROVE Tables  OBVIOUS
<1>1. remote = [status |-> 1, rev |-> 1] /\ seen = remote /\ platform = 1 /\ remote \in Item
  BY StatusesAre DEF SyncInit, Item, Statuses
<1>2. NoticesGood  BY <1>1 DEF SyncInit, NoticesGood
<1>3. JobsGood  BY EmptySeq DEF SyncInit, JobsGood
<1>4. DrainGood  BY SyncConstants DEF SyncInit, DrainGood, Idle, Steps
<1>5. ConflictsGood  BY EmptySeq DEF SyncInit, ConflictsGood
<1>6. ResolvingGood
  BY EmptySeq DEF SyncInit, ResolvingGood, Resolution, Unresolving, NoResolution, ChooseValues
<1>7. CountsGood  BY SyncConstants DEF SyncInit, CountsGood
<1> QED  BY <1>1, <1>2, <1>3, <1>4, <1>5, <1>6, <1>7, StatusesAre DEF Tables, SyncInit

LEMMA TablesStutter == ASSUME Tables, UNCHANGED syncVars  PROVE Tables'
  BY DEF syncVars, Tables, NoticesGood, JobsGood, KeyGood, DrainGood, ConflictsGood, Conflict,
     ResolvingGood, Resolution, CountsGood

LEMMA TablesResolve ==
  ASSUME Tables, NEW r \in Resolvers,
         \/ \E c \in DOMAIN conflicts, choose \in {"PLATFORM", "EXTERNAL"} : StartResolve(r, c, choose)
         \/ ReadTheirs(r) \/ ReadTheirsFails(r) \/ SendAgain(r)
         \/ \E ok \in BOOLEAN : TakeTheirs(r, ok)
         \/ CloseConflict(r)
  PROVE  Tables'
<1>1. ASSUME NEW c \in DOMAIN conflicts, NEW choose \in {"PLATFORM", "EXTERNAL"},
             StartResolve(r, c, choose)
      PROVE  Tables'
  BY <1>1, TablesStartResolve
<1>2. CASE ReadTheirs(r) \/ ReadTheirsFails(r)  BY <1>2, TablesReadTheirs, TablesReadTheirsFails
<1>3. CASE SendAgain(r)  BY <1>3, TablesSendAgain
<1>4. ASSUME NEW ok \in BOOLEAN, TakeTheirs(r, ok)  PROVE Tables'
  BY <1>4, TablesTakeTheirs
<1>5. CASE CloseConflict(r)  BY <1>5, TablesCloseConflict
<1> QED  BY <1>1, <1>2, <1>3, <1>4, <1>5

LEMMA TablesNext ==
  ASSUME Tables, [SyncNext]_syncVars
  PROVE  Tables'
<1>1. ASSUME NEW s \in 1 .. MaxStatus, PlatformChange(s)  PROVE Tables'
  BY <1>1, TablesPlatformChange DEF Statuses
<1>2. ASSUME NEW s \in 1 .. MaxStatus, Edit(s)  PROVE Tables'
  BY <1>2, TablesEdit DEF Statuses
<1>3. ASSUME NEW j \in DOMAIN outbox, WaitEnds(j)  PROVE Tables'
  BY <1>3, TablesWaitEnds
<1>4. CASE DrainStep
  BY <1>4, TablesStartDrain, TablesReadRemote, TablesCompareStatus, TablesWriteComment,
     TablesWriteStatus, TablesFinishJob, TablesOpenConflict DEF DrainStep
<1>5. CASE CallFails  BY <1>5, TablesCallFails
<1>6. ASSUME NEW n \in notices, NEW ok \in BOOLEAN, Ingest(n, ok) \/ CrashInIngest(n, ok)
      PROVE  Tables'
  BY <1>6, TablesIngest
<1>7. CASE SyncCrash  BY <1>7, TablesSyncCrash
<1>8. ASSUME NEW r \in Resolvers,
             \/ \E c \in DOMAIN conflicts, choose \in {"PLATFORM", "EXTERNAL"} :
                  StartResolve(r, c, choose)
             \/ ReadTheirs(r) \/ ReadTheirsFails(r) \/ SendAgain(r)
             \/ \E ok \in BOOLEAN : TakeTheirs(r, ok)
             \/ CloseConflict(r)
      PROVE  Tables'
  BY <1>8, TablesResolve
<1>9. CASE UNCHANGED syncVars  BY <1>9, TablesStutter
<1> QED  BY <1>1, <1>2, <1>3, <1>4, <1>5, <1>6, <1>7, <1>8, <1>9 DEF SyncNext

\* The tables keep their shape: jobs, conflicts and the resolution refer to rows
\* there are, a drain has a list of jobs there are exactly while it runs, a webhook
\* received was sent, and no revision has two webhooks.
THEOREM SyncTyped == SyncSpec => []SyncTypeOK
<1>1. Tables /\ [SyncNext]_syncVars => Tables'  BY TablesNext
<1> QED  BY <1>1, TablesInit, TablesTyped, PTL DEF SyncSpec

-----------------------------------------------------------------------------
(* An Epic: what a stale job missed, a later one sends *)

\* The job in hand sends, or may yet send, a status the platform has left.
Stale == drain.step \in {"read", "compare", "status"} /\ drain.desired # platform

\* Jobs that wait for another round and that no conflict is about.
Fresh ==
  {j \in DOMAIN outbox : /\ outbox[j].state = "PENDING" /\ j \notin drain.queue
                         /\ \A c \in DOMAIN conflicts : j # conflicts[c].job}

\* A change of the platform under a running job has put a job in the outbox that
\* this round does not take.
Followed == kind = "EPIC" /\ Stale => Fresh # {}

LEMMA JobsNumbered ==
  ASSUME SyncTypeOK
  PROVE  Len(outbox) \in Nat /\ DOMAIN outbox = 1 .. Len(outbox)
  BY LenProperties DEF SyncTypeOK

\* A job just put in the outbox waits for another round.
LEMMA NewJobFresh ==
  ASSUME Tables, NEW box, NEW s, NEW k, OneMore(box, s, k),
         drain' \in {drain, Idle}, UNCHANGED conflicts
  PROVE  Fresh' # {}
<1>1. PICK n \in Nat : n = Len(outbox) + 1  BY DEF OneMore
<1>2. n \in DOMAIN outbox' /\ outbox'[n].state = "PENDING" /\ n \notin DOMAIN outbox
  BY <1>1 DEF OneMore, NewJob
<1>3. \A c \in DOMAIN conflicts' : n # conflicts'[c].job
  BY <1>2, ConflictIs
<1>4. drain'.queue \subseteq DOMAIN outbox  BY DEF Tables, DrainGood, Idle
<1> QED  BY <1>2, <1>3, <1>4 DEF Fresh

\* No job is taken away.
LEMMA FreshStill ==
  ASSUME SyncTypeOK, UNCHANGED conflicts, drain'.queue \subseteq drain.queue,
         SameJobs(outbox'), \A j \in Fresh : outbox'[j].state = outbox[j].state
  PROVE  Fresh \subseteq Fresh'
  BY DEF Fresh, SameJobs

\* A step of one job that stays in hand or is the job of a conflict.
LEMMA FreshOne ==
  ASSUME SyncTypeOK, NEW j, NEW e, OneJob(outbox', j, e), UNCHANGED <<conflicts, drain>>,
         j \notin Fresh \/ e.state = outbox[j].state
  PROVE  Fresh \subseteq Fresh'
  BY DEF OneJob, SameJobs, Fresh

\* The next job of an Epic sends what the platform shows when it starts.
LEMMA NextNotStale ==
  ASSUME SyncTypeOK, drain.step # "idle", drain' = NextJob, DOMAIN outbox \subseteq DOMAIN outbox',
         UNCHANGED <<kind, platform>>, kind = "EPIC"
  PROVE  ~Stale'
<1> DEFINE Q == drain.queue \ {Current}
<1>1. Q \in SUBSET DOMAIN outbox /\ drain' = Running(Q)  BY DEF SyncTypeOK, NextJob
<1> HIDE DEF Q
<1>2. /\ drain'.step = "idle" <=> Q = {}
      /\ Q # {} => drain'.desired = Desired(First(Q))
  BY <1>1, RunningIs
<1> QED  BY <1>2 DEF Stale, Desired

\* A step of the drain that leaves the outbox alone.
LEMMA FollowedSame ==
  ASSUME Tables, Followed, UNCHANGED <<kind, platform, outbox, conflicts>>,
         Stale' => Stale, drain'.queue = drain.queue
  PROVE  Followed'
<1>1. SameJobs(outbox') /\ SyncTypeOK  BY SameJobsHere, TablesTyped
<1>2. Fresh \subseteq Fresh'  BY <1>1, FreshStill
<1> QED  BY <1>2 DEF Followed

LEMMA FollowedDrain ==
  ASSUME Tables, Followed, DrainStep \/ CallFails
  PROVE  Followed'
<1>1. CASE StartDrain
  <2>1. drain'.desired = Desired(First(Due)) /\ UNCHANGED <<kind, platform>>
    BY <1>1, TablesStartDrain
  <2> QED  BY <2>1 DEF Followed, Stale, Desired
<1>2. CASE ReadRemote  BY <1>2, TablesReadRemote, FollowedSame DEF Stale
<1>3. CASE CompareStatus  BY <1>3, TablesCompareStatus, FollowedSame DEF Stale
<1>4. CASE WriteComment  BY <1>4, TablesWriteComment DEF Followed, Stale
<1>5. CASE WriteStatus  BY <1>5, TablesWriteStatus DEF Followed, Stale
<1>6. CASE FinishJob \/ CallFails
  <2>1. /\ drain.step # "idle" /\ drain' = NextJob /\ UNCHANGED <<kind, platform>>
        /\ \E e \in Job : OneJob(outbox', Current, e)
    BY <1>6, TablesFinishJob, TablesCallFails
  <2>2. DOMAIN outbox' = DOMAIN outbox  BY <2>1 DEF OneJob, SameJobs
  <2> QED  BY <2>1, <2>2, NextNotStale, TablesTyped DEF Followed
<1>7. CASE OpenConflict
  <2>1. /\ drain.step # "idle" /\ drain' = NextJob /\ UNCHANGED <<kind, platform>>
        /\ \E e \in Job : OneJob(outbox', Current, e)
    BY <1>7, TablesOpenConflict
  <2>2. DOMAIN outbox' = DOMAIN outbox  BY <2>1 DEF OneJob, SameJobs
  <2> QED  BY <2>1, <2>2, NextNotStale, TablesTyped DEF Followed
<1> QED  BY <1>1, <1>2, <1>3, <1>4, <1>5, <1>6, <1>7 DEF DrainStep

LEMMA FollowedIngest ==
  ASSUME Tables, Followed, NEW n \in notices, NEW ok \in BOOLEAN, Ingest(n, ok) \/ CrashInIngest(n, ok)
  PROVE  Followed'
<1>1. drain' \in {drain, Idle} /\ UNCHANGED <<kind, conflicts>>  BY TablesIngest
<1>2. CASE \E s \in Statuses, k \in Keys : OneMore(outbox, s, k)
  BY <1>1, <1>2, NewJobFresh DEF Followed
<1>3. CASE outbox' = outbox /\ platform' = platform
  <2>1. CASE drain' = drain  BY <1>1, <1>3, <2>1, FollowedSame DEF Stale
  <2>2. CASE drain' = Idle  BY <2>2 DEF Followed, Stale, Idle
  <2> QED  BY <1>1, <2>1, <2>2
<1> QED  BY <1>2, <1>3, TablesIngest

LEMMA FollowedResolve ==
  ASSUME Tables, Followed, NEW r \in Resolvers,
         \/ \E c \in DOMAIN conflicts, choose \in {"PLATFORM", "EXTERNAL"} : StartResolve(r, c, choose)
         \/ ReadTheirs(r) \/ ReadTheirsFails(r) \/ SendAgain(r)
         \/ \E ok \in BOOLEAN : TakeTheirs(r, ok)
         \/ CloseConflict(r)
  PROVE  Followed'
<1> DEFINE j == conflicts[resolving[r].conflict].job
<1>1. CASE \/ \E c \in DOMAIN conflicts, choose \in {"PLATFORM", "EXTERNAL"} : StartResolve(r, c, choose)
           \/ ReadTheirs(r) \/ ReadTheirsFails(r)
  <2>1. UNCHANGED <<kind, platform, outbox, conflicts, drain>>
    BY <1>1 DEF StartResolve, ReadTheirs, ReadTheirsFails
  <2> QED  BY <2>1, FollowedSame DEF Stale
<1>2. CASE SendAgain(r)
  <2>1. /\ UNCHANGED <<kind, platform, drain, conflicts>>
        /\ resolving[r].conflict \in DOMAIN conflicts
        /\ \E e \in Job : OneJob(outbox', j, e)
    BY <1>2, TablesSendAgain
  <2>2. j \notin Fresh  BY <2>1 DEF Fresh
  <2> HIDE DEF j
  <2>3. Fresh \subseteq Fresh'  BY <2>1, <2>2, FreshOne, TablesTyped
  <2> QED  BY <2>1, <2>3 DEF Followed, Stale
<1>3. ASSUME NEW ok \in BOOLEAN, TakeTheirs(r, ok)  PROVE Followed'
  <2>1. /\ UNCHANGED <<kind, drain, conflicts>>
        /\ resolving[r].conflict \in DOMAIN conflicts
        /\ \E box \in Seq(Job), e \in Job :
             /\ OneJob(box, j, e)
             /\ \/ outbox' = box /\ platform' = platform
                \/ \E s \in Statuses, k \in Keys : OneMore(box, s, k)
    BY <1>3, TablesTakeTheirs
  <2>2. j \notin Fresh  BY <2>1 DEF Fresh
  <2> HIDE DEF j
  <2>3. ASSUME NEW box \in Seq(Job), NEW e \in Job, OneJob(box, j, e), outbox' = box, platform' = platform
        PROVE  Followed'
    <3>1. Fresh \subseteq Fresh'  BY <2>1, <2>2, <2>3, FreshOne, TablesTyped
    <3> QED  BY <2>1, <2>3, <3>1 DEF Followed, Stale
  <2>4. ASSUME NEW box, NEW s, NEW k, OneMore(box, s, k)  PROVE Followed'
    BY <2>1, <2>4, NewJobFresh DEF Followed
  <2> QED  BY <2>1, <2>3, <2>4
<1>4. CASE CloseConflict(r)
  <2>1. /\ DOMAIN conflicts' = DOMAIN conflicts
        /\ \A c \in DOMAIN conflicts : conflicts'[c].job = conflicts[c].job
        /\ UNCHANGED <<kind, platform, outbox, drain>>
    BY <1>4, TablesCloseConflict
  <2>2. Fresh \subseteq Fresh'  BY <2>1 DEF Fresh
  <2> QED  BY <2>1, <2>2 DEF Followed, Stale
<1> QED  BY <1>1, <1>2, <1>3, <1>4

LEMMA FollowedInit == SyncInit => Followed
  BY DEF SyncInit, Followed, Stale, Idle

LEMMA FollowedNext ==
  ASSUME Tables, Followed, [SyncNext]_syncVars
  PROVE  Followed'
<1>1. ASSUME NEW s \in 1 .. MaxStatus, PlatformChange(s)  PROVE Followed'
  <2>1. OneMore(outbox, s, EventKey) /\ UNCHANGED <<drain, conflicts>>
    BY <1>1, TablesPlatformChange DEF Statuses
  <2> QED  BY <2>1, NewJobFresh DEF Followed
<1>2. ASSUME NEW s \in 1 .. MaxStatus, Edit(s)  PROVE Followed'
  BY <1>2, TablesEdit, FollowedSame DEF Statuses, Stale
<1>3. ASSUME NEW j \in DOMAIN outbox, WaitEnds(j)  PROVE Followed'
  <2>1. UNCHANGED <<kind, platform, drain, conflicts>>
        /\ outbox' = [outbox EXCEPT ![j].due = TRUE]
    BY <1>3 DEF WaitEnds
  <2>2. \E e \in Job : OneJob(outbox', j, e) /\ e.state = outbox[j].state
    BY <2>1, DueIs, TablesTyped
  <2>3. Fresh \subseteq Fresh'  BY <2>1, <2>2, FreshOne, TablesTyped
  <2> QED  BY <2>1, <2>3 DEF Followed, Stale
<1>4. CASE DrainStep \/ CallFails  BY <1>4, FollowedDrain
<1>5. ASSUME NEW n \in notices, NEW ok \in BOOLEAN, Ingest(n, ok) \/ CrashInIngest(n, ok)
      PROVE  Followed'
  BY <1>5, FollowedIngest
<1>6. CASE SyncCrash  BY <1>6, TablesSyncCrash DEF Followed, Stale, Idle
<1>7. ASSUME NEW r \in Resolvers,
             \/ \E c \in DOMAIN conflicts, choose \in {"PLATFORM", "EXTERNAL"} :
                  StartResolve(r, c, choose)
             \/ ReadTheirs(r) \/ ReadTheirsFails(r) \/ SendAgain(r)
             \/ \E ok \in BOOLEAN : TakeTheirs(r, ok)
             \/ CloseConflict(r)
      PROVE  Followed'
  BY <1>7, FollowedResolve
<1>8. CASE UNCHANGED syncVars  BY <1>8, FollowedSame DEF syncVars, Stale
<1> QED  BY <1>1, <1>2, <1>3, <1>4, <1>5, <1>6, <1>7, <1>8 DEF SyncNext

-----------------------------------------------------------------------------
(* An Epic: where JIRA and the platform differ, something will tell *)
\* Jobs still to be sent, given up or left to a person.
Outstanding == {j \in DOMAIN outbox : outbox[j].state \notin {"DONE", "SKIPPED"}}

\* The job in hand has been written, or will not change JIRA's status any more.
HandCloses ==
  \/ drain.step \in {"comment", "done"}
  \/ drain.step = "compare" /\ drain.item.status = drain.desired

\* Person r resolves in favour of a status the platform has meanwhile taken.
AnswerCloses(r) == resolving[r].choose = "EXTERNAL" /\ resolving[r].item.status = platform

\* Jobs that may be closed although JIRA does not show the platform's status: the
\* one in hand; those of conflicts being resolved in favour of that status; and
\* those of conflicts whose reversal is in the outbox.
Closing ==
  {j \in DOMAIN outbox :
     \/ HandCloses /\ j = Current
     \/ \E r \in Resolvers : AnswerCloses(r) /\ j = conflicts[resolving[r].conflict].job
     \/ \E c \in DOMAIN conflicts : j = conflicts[c].job /\ Known(outbox, ConflictKey(c))}

\* The latest change of the status, made in JIRA, has neither been received nor
\* answered.
Unanswered ==
  \E n \in notices :
    /\ ~n.mine /\ n.to = remote.status
    /\ \A m \in notices : m.rev <= n.rev
    /\ n.rev \notin inbox
    /\ ~Known(outbox, WebhookKey(n.rev))

\* Where JIRA and the platform differ, something is under way that will tell.
Told == kind = "EPIC" /\ remote.status # platform => Outstanding \ Closing # {} \/ Unanswered

SameKeys == \A k \in Keys : Known(outbox', k) <=> Known(outbox, k)

LEMMA KeysStill == ASSUME SameJobs(outbox')  PROVE SameKeys
  BY DEF SameJobs, SameKeys, Known

\* A job that waits for another round tells.
LEMMA FreshTells ==
  ASSUME Tables, Fresh # {}
  PROVE  Outstanding \ Closing # {}
<1>1. PICK j \in DOMAIN outbox :
        /\ outbox[j].state = "PENDING" /\ j \notin drain.queue
        /\ \A c \in DOMAIN conflicts : j # conflicts[c].job
  BY DEF Fresh
<1>2. HandCloses => j # Current
  BY <1>1, CurrentIs, TablesTyped DEF HandCloses
<1>3. \A r \in Resolvers : AnswerCloses(r) => resolving[r].conflict \in DOMAIN conflicts
  BY DEF Tables, ResolvingGood, AnswerCloses
<1>4. j \in Outstanding \ Closing  BY <1>1, <1>2, <1>3 DEF Outstanding, Closing
<1> QED  BY <1>4

LEMMA FreshTellsNext ==
  ASSUME Tables', Fresh' # {}
  PROVE  Outstanding' \ Closing' # {}
<1>1. (Tables /\ Fresh # {} => Outstanding \ Closing # {})'  BY FreshTells, PTL
<1> QED  BY <1>1

\* A job just put in the outbox tells.
LEMMA NewJobTells ==
  ASSUME Tables, Tables', NEW box, NEW s, NEW k, OneMore(box, s, k),
         drain' \in {drain, Idle}, UNCHANGED conflicts
  PROVE  Outstanding' \ Closing' # {}
<1>1. Fresh' # {}  BY NewJobFresh
<1> QED  BY <1>1, FreshTellsNext

\* Steps after which no more jobs may be closed than before.
DrainCloses ==
  \/ drain' = drain
  \/ ~HandCloses'
  \/ Current' = Current /\ HandCloses

ResolvingCloses ==
  \A r \in Resolvers : resolving'[r] = resolving[r] \/ ~AnswerCloses(r)'

ConflictsClose ==
  /\ \A c \in DOMAIN conflicts : c \in DOMAIN conflicts' /\ conflicts'[c].job = conflicts[c].job
  /\ \A c \in DOMAIN conflicts' : c \in DOMAIN conflicts \/ ~Known(outbox, ConflictKey(c))

LEMMA ClosingStill ==
  ASSUME Tables, Tables', SameKeys, DrainCloses, ResolvingCloses, ConflictsClose,
         UNCHANGED platform
  PROVE  Closing' \subseteq Closing
<1> SUFFICES ASSUME NEW j \in Closing'  PROVE j \in Closing  OBVIOUS
<1>1. CASE HandCloses' /\ j = Current'
  <2>1. HandCloses /\ Current' = Current
    BY <1>1 DEF DrainCloses, HandCloses, Current
  <2>2. Current \in DOMAIN outbox  BY <2>1, CurrentIs, TablesTyped DEF HandCloses
  <2> QED  BY <1>1, <2>1, <2>2 DEF Closing
<1>2. ASSUME NEW r \in Resolvers, AnswerCloses(r)', j = conflicts'[resolving'[r].conflict].job
      PROVE  j \in Closing
  <2>1. AnswerCloses(r) /\ resolving'[r] = resolving[r] /\ resolving[r].conflict \in DOMAIN conflicts
    BY <1>2 DEF ResolvingCloses, AnswerCloses, Tables, ResolvingGood
  <2>2. j = conflicts[resolving[r].conflict].job  BY <1>2, <2>1 DEF ConflictsClose
  <2>3. j \in DOMAIN outbox  BY <2>1, <2>2, ConflictIs
  <2> QED  BY <2>1, <2>2, <2>3 DEF Closing
<1>3. ASSUME NEW c \in DOMAIN conflicts', j = conflicts'[c].job,
             Known(outbox', ConflictKey(c))
      PROVE  j \in Closing
  <2>1. ConflictKey(c) \in Keys
    <3>1. c \in Nat  BY LenProperties DEF Tables, ConflictsGood
    <3> QED  BY <3>1 DEF ConflictKey, Keys
  <2>2. Known(outbox, ConflictKey(c))  BY <1>3, <2>1 DEF SameKeys
  <2>3. c \in DOMAIN conflicts /\ j = conflicts[c].job  BY <1>3, <2>2 DEF ConflictsClose
  <2>4. j \in DOMAIN outbox  BY <2>3, ConflictIs
  <2> QED  BY <2>2, <2>3, <2>4 DEF Closing
<1>4. \/ HandCloses' /\ j = Current'
      \/ \E r \in Resolvers : AnswerCloses(r)' /\ j = conflicts'[resolving'[r].conflict].job
      \/ \E c \in DOMAIN conflicts' : j = conflicts'[c].job /\ Known(outbox', ConflictKey(c))
  BY DEF Closing, Known, ConflictKey, EventKey
<1> QED  BY <1>1, <1>2, <1>3, <1>4

LEMMA UnansweredStill ==
  ASSUME Tables, SameKeys, UNCHANGED <<notices, inbox>>, remote'.status = remote.status
  PROVE  Unanswered => Unanswered'
<1> SUFFICES ASSUME Unanswered  PROVE Unanswered'  OBVIOUS
<1>1. PICK n \in notices : /\ ~n.mine /\ n.to = remote.status
                           /\ \A m \in notices : m.rev <= n.rev
                           /\ n.rev \notin inbox /\ ~Known(outbox, WebhookKey(n.rev))
  BY DEF Unanswered
<1>2. WebhookKey(n.rev) \in Keys  BY NoticeIs
<1>3. ~Known(outbox', WebhookKey(n.rev))  BY <1>1, <1>2 DEF SameKeys
<1> QED  BY <1>1, <1>3 DEF Unanswered, Known, WebhookKey, EventKey

\* A step that closes only jobs that may be closed.
LEMMA ToldStill ==
  ASSUME Tables, Tables', Told, SameKeys, DrainCloses, ResolvingCloses, ConflictsClose,
         UNCHANGED <<kind, platform, notices, inbox>>, remote'.status = remote.status,
         Outstanding \ Closing \subseteq Outstanding'
  PROVE  Told'
<1>1. Closing' \subseteq Closing  BY ClosingStill
<1>2. Unanswered => Unanswered'  BY UnansweredStill
<1> QED  BY <1>1, <1>2 DEF Told

LEMMA OutstandingStill ==
  ASSUME SyncTypeOK, NEW j, NEW e, OneJob(outbox', j, e)
  PROVE  /\ SameKeys /\ Outstanding \ {j} \subseteq Outstanding'
         /\ e.state \notin {"DONE", "SKIPPED"} => Outstanding \subseteq Outstanding'
  BY KeysStill DEF OneJob, SameJobs, Outstanding

LEMMA ToldPlatformChange == ASSUME Tables, NEW s \in Statuses, PlatformChange(s)  PROVE Told'
  BY TablesPlatformChange, NewJobTells DEF Told

LEMMA ConflictsSame == ASSUME UNCHANGED conflicts  PROVE ConflictsClose
  BY DEF ConflictsClose

LEMMA ResolvingSame == ASSUME UNCHANGED resolving  PROVE ResolvingCloses
  BY DEF ResolvingCloses

LEMMA ToldWaitEnds ==
  ASSUME Tables, Told, NEW j \in DOMAIN outbox, WaitEnds(j)
  PROVE  Told'
<1>1. SyncTypeOK /\ Tables'  BY TablesTyped, TablesWaitEnds
<1>2. UNCHANGED <<kind, platform, remote, notices, inbox, drain, conflicts, resolving>>
      /\ outbox' = [outbox EXCEPT ![j].due = TRUE]
  BY DEF WaitEnds
<1>3. \E e \in Job : OneJob(outbox', j, e) /\ e.state = outbox[j].state  BY <1>1, <1>2, DueIs
<1>4. SameKeys /\ Outstanding \subseteq Outstanding'
  <2>1. PICK e \in Job : OneJob(outbox', j, e) /\ e.state = outbox[j].state  BY <1>3
  <2>2. SameKeys /\ Outstanding \ {j} \subseteq Outstanding'  BY <1>1, <2>1, OutstandingStill
  <2>3. j \in Outstanding => j \in Outstanding'  BY <2>1 DEF Outstanding, OneJob, SameJobs
  <2> QED  BY <2>2, <2>3
<1>5. DrainCloses /\ ResolvingCloses  BY <1>2, ResolvingSame DEF DrainCloses
<1> QED  BY <1>1, <1>2, <1>4, <1>5, ToldStill, ConflictsSame

\* A step that leaves the outbox alone.
LEMMA ToldSameOutbox ==
  ASSUME Tables, Tables', Told, UNCHANGED outbox, DrainCloses, ResolvingCloses, ConflictsClose,
         UNCHANGED <<kind, platform, notices, inbox>>, remote'.status = remote.status
  PROVE  Told'
<1>1. SameKeys /\ Outstanding \subseteq Outstanding'
  BY DEF SameKeys, Outstanding
<1> QED  BY <1>1, ToldStill

\* A step of the drain that leaves the outbox alone.
LEMMA ToldDrain ==
  ASSUME Tables, Tables', Told,
         UNCHANGED <<kind, platform, notices, inbox, outbox, conflicts, resolving>>,
         remote'.status = remote.status, DrainCloses
  PROVE  Told'
  BY ToldSameOutbox, ResolvingSame, ConflictsSame

LEMMA ToldStartDrain == ASSUME Tables, Told, StartDrain  PROVE Told'
  BY TablesStartDrain, ToldDrain DEF DrainCloses, HandCloses

\* If JIRA shows the status to be sent and not the platform's, the job is stale.
LEMMA ToldReadRemote == ASSUME Tables, Told, Followed', ReadRemote  PROVE Told'
<1>1. /\ Tables' /\ drain'.step = "compare" /\ drain'.item = remote /\ drain'.desired = drain.desired
      /\ UNCHANGED <<kind, platform, remote, notices, inbox, outbox, conflicts, resolving>>
  BY TablesReadRemote
<1>2. CASE remote.status = platform  BY <1>1, <1>2 DEF Told
<1>3. CASE remote.status # drain.desired
  BY <1>1, <1>3, ToldDrain DEF DrainCloses, HandCloses
<1>4. CASE remote.status = drain.desired /\ remote.status # platform
  <2>1. Stale'  BY <1>1, <1>4 DEF Stale
  <2> QED  BY <1>1, <2>1, FreshTellsNext DEF Followed, Told
<1> QED  BY <1>2, <1>3, <1>4

LEMMA ToldCompareStatus == ASSUME Tables, Told, CompareStatus  PROVE Told'
<1>1. /\ Tables' /\ drain'.queue = drain.queue /\ drain.step = "compare"
      /\ \/ drain.item.status = drain.desired /\ drain'.step = "comment"
         \/ drain.item.status # drain.desired /\ drain'.step = "status"
      /\ UNCHANGED <<kind, platform, remote, notices, inbox, outbox, conflicts, resolving>>
  BY TablesCompareStatus
<1>2. Current' = Current  BY <1>1 DEF Current
<1> QED  BY <1>1, <1>2, ToldDrain DEF DrainCloses, HandCloses

LEMMA ToldWriteComment == ASSUME Tables, Told, WriteComment  PROVE Told'
<1>1. /\ Tables' /\ drain'.queue = drain.queue /\ drain.step = "comment"
      /\ remote'.status = remote.status
      /\ UNCHANGED <<kind, platform, notices, inbox, outbox, conflicts, resolving>>
  BY TablesWriteComment
<1>2. Current' = Current  BY <1>1 DEF Current
<1> QED  BY <1>1, <1>2, ToldDrain DEF DrainCloses, HandCloses

\* A stale status that is written leaves a job for another round.
LEMMA ToldWriteStatus == ASSUME Tables, Told, Followed, WriteStatus  PROVE Told'
<1>1. /\ Tables' /\ drain'.queue = drain.queue /\ drain.step = "status"
      /\ UNCHANGED <<kind, platform, inbox, outbox, conflicts, resolving>>
  BY TablesWriteStatus
<1>2. CASE drain'.step = "conflict" /\ UNCHANGED <<remote, notices>>
  BY <1>1, <1>2, ToldDrain DEF DrainCloses, HandCloses
<1>3. CASE remote'.status = drain.desired /\ drain.desired = platform
  BY <1>1, <1>3 DEF Told
<1>4. CASE kind = "EPIC" /\ drain.desired # platform
  <2>1. Stale  BY <1>1, <1>4 DEF Stale
  <2>2. Fresh' = Fresh  BY <1>1 DEF Fresh
  <2> QED  BY <1>1, <1>4, <2>1, <2>2, FreshTellsNext DEF Followed, Told
<1>5. CASE kind # "EPIC"  BY <1>1, <1>5 DEF Told
<1> QED  BY <1>2, <1>3, <1>4, <1>5, TablesWriteStatus

LEMMA ToldCallFails == ASSUME Tables, Told, CallFails  PROVE Told'
<1>1. /\ Tables' /\ drain'.step \in {"idle", "read"} /\ Current \in DOMAIN outbox
      /\ UNCHANGED <<kind, platform, remote, notices, inbox, conflicts, resolving>>
  BY TablesCallFails
<1>2. SameKeys /\ Outstanding \subseteq Outstanding'
  <2>1. PICK e \in Job : OneJob(outbox', Current, e) /\ e.state \in {outbox[Current].state, "FAILED"}
    BY TablesCallFails
  <2>2. SameKeys /\ Outstanding \ {Current} \subseteq Outstanding'
    BY <2>1, OutstandingStill, TablesTyped
  <2>3. Current \in Outstanding => Current \in Outstanding'
    BY <2>1 DEF Outstanding, OneJob, SameJobs
  <2> QED  BY <2>2, <2>3
<1> QED  BY <1>1, <1>2, ToldStill, ConflictsSame, ResolvingSame DEF DrainCloses, HandCloses

LEMMA ToldFinishJob == ASSUME Tables, Told, FinishJob  PROVE Told'
<1>1. /\ Tables' /\ drain'.step \in {"idle", "read"} /\ drain.step = "done"
      /\ Current \in DOMAIN outbox
      /\ UNCHANGED <<kind, platform, remote, notices, inbox, conflicts, resolving>>
  BY TablesFinishJob
<1>2. Current \in Closing  BY <1>1 DEF Closing, HandCloses
<1>3. SameKeys /\ Outstanding \ {Current} \subseteq Outstanding'
  BY TablesFinishJob, OutstandingStill, TablesTyped
<1>4. Outstanding \ Closing \subseteq Outstanding'  BY <1>2, <1>3
<1> QED  BY <1>1, <1>3, <1>4, ToldStill, ConflictsSame, ResolvingSame DEF DrainCloses, HandCloses

LEMMA ToldOpenConflict == ASSUME Tables, Told, OpenConflict  PROVE Told'
<1>1. /\ Tables' /\ drain'.step \in {"idle", "read"}
      /\ Len(conflicts) \in Nat /\ DOMAIN conflicts = 1 .. Len(conflicts)
      /\ DOMAIN conflicts' = 1 .. Len(conflicts) + 1
      /\ \A c \in DOMAIN conflicts : conflicts'[c] = conflicts[c]
      /\ UNCHANGED <<kind, platform, remote, notices, inbox, resolving>>
  BY TablesOpenConflict
<1>2. SameKeys /\ Outstanding \subseteq Outstanding'
  BY TablesOpenConflict, OutstandingStill, TablesTyped
<1>3. ConflictsClose
  <2>1. \A c \in DOMAIN conflicts' : c \in DOMAIN conflicts \/ ~Known(outbox, ConflictKey(c))
    BY DEF Known, ConflictKey, Tables, JobsGood, KeyGood
  <2> QED  BY <1>1, <2>1 DEF ConflictsClose
<1> QED  BY <1>1, <1>2, <1>3, ToldStill, ResolvingSame DEF DrainCloses, HandCloses

LEMMA ToldEdit == ASSUME Tables, Told, NEW s \in Statuses, Edit(s)  PROVE Told'
<1>1. /\ remote' = [status |-> s, rev |-> remote.rev + 1]
      /\ notices' = notices \cup {Notice(s, FALSE)}
      /\ UNCHANGED <<kind, platform, inbox, outbox>>
  BY TablesEdit
<1> DEFINE n == Notice(s, FALSE)
<1>2. remote.rev \in Nat  BY DEF Tables, NoticesGood, Item
<1>3. ~n.mine /\ n.to = remote'.status /\ n.rev = remote.rev + 1 /\ notices' = notices \cup {n}
  BY <1>1 DEF Notice
<1> HIDE DEF n
<1>4. \A m \in notices : m.rev \in Nat /\ m.rev <= remote.rev  BY NoticeIs
<1>5. \A m \in notices' : m.rev <= n.rev
  BY <1>2, <1>3, <1>4
<1>6. n.rev \notin inbox'
  BY <1>1, <1>2, <1>3, <1>4 DEF Tables, NoticesGood
<1>7. ~Known(outbox', WebhookKey(n.rev))
  <2>1. \A j \in DOMAIN outbox : outbox[j].key # WebhookKey(n.rev)
    BY <1>2, <1>3 DEF Tables, JobsGood, KeyGood, WebhookKey
  <2> QED  BY <1>1, <2>1 DEF Known
<1>8. Unanswered'
  BY <1>3, <1>5, <1>6, <1>7 DEF Unanswered, Known, WebhookKey, EventKey
<1> QED  BY <1>8 DEF Told

LEMMA UnresolvingCloses == ASSUME resolving' \in {resolving, Unresolving}  PROVE ResolvingCloses
  BY DEF ResolvingCloses, AnswerCloses, Unresolving, NoResolution

LEMMA ToldIngest ==
  ASSUME Tables, Told, NEW n \in notices, NEW ok \in BOOLEAN, Ingest(n, ok) \/ CrashInIngest(n, ok)
  PROVE  Told'
<1>1. /\ Tables' /\ drain' \in {drain, Idle} /\ resolving' \in {resolving, Unresolving}
      /\ inbox' \subseteq inbox \cup {n.rev}
      /\ UNCHANGED <<kind, remote, notices, conflicts>>
  BY TablesIngest
<1>2. CASE \E s \in Statuses, k \in Keys : OneMore(outbox, s, k)
  BY <1>1, <1>2, NewJobTells DEF Told
<1>3. CASE outbox' = outbox /\ platform' = platform /\ Ignored(n, ok, WebhookKey(n.rev))
  <2> SUFFICES ASSUME kind = "EPIC", remote.status # platform
               PROVE  Outstanding' \ Closing' # {} \/ Unanswered'
    BY <1>1, <1>3 DEF Told
  <2>1. DrainCloses /\ ResolvingCloses
    BY <1>1, UnresolvingCloses DEF DrainCloses, HandCloses, Idle
  <2>2. SameKeys  BY <1>3 DEF SameKeys
  <2>3. Closing' \subseteq Closing /\ Outstanding' = Outstanding
    BY <1>1, <1>3, <2>1, <2>2, ClosingStill, ConflictsSame DEF Outstanding
  <2>4. CASE Outstanding \ Closing # {}  BY <2>3, <2>4
  <2>5. CASE Unanswered
    <3>1. PICK m \in notices : /\ ~m.mine /\ m.to = remote.status
                               /\ \A o \in notices : o.rev <= m.rev
                               /\ m.rev \notin inbox /\ ~Known(outbox, WebhookKey(m.rev))
      BY <2>5 DEF Unanswered
    <3>2. n # m
      BY <1>3, <3>1 DEF Ignored, Concerns
    <3>3. m.rev # n.rev  BY <3>1, <3>2 DEF Tables, NoticesGood
    <3>4. m.rev \notin inbox' /\ ~Known(outbox', WebhookKey(m.rev)) /\ m \in notices'
      BY <1>1, <1>3, <3>1, <3>3
    <3>5. Unanswered'
      BY <1>1, <3>1, <3>4 DEF Unanswered, Known, WebhookKey, EventKey
    <3> QED  BY <3>5
  <2> QED  BY <2>4, <2>5 DEF Told
<1> QED  BY <1>2, <1>3, TablesIngest

LEMMA ToldSyncCrash == ASSUME Tables, Told, SyncCrash  PROVE Told'
  BY TablesSyncCrash, ToldSameOutbox, ConflictsSame, UnresolvingCloses
     DEF DrainCloses, HandCloses, Idle

\* The answer read is not the platform's status, or there is nothing to tell.
LEMMA ToldStartResolve ==
  ASSUME Tables, Told, NEW r \in Resolvers,
         \/ \E c \in DOMAIN conflicts, choose \in {"PLATFORM", "EXTERNAL"} : StartResolve(r, c, choose)
         \/ ReadTheirs(r) \/ ReadTheirsFails(r)
  PROVE  Told'
<1>1. /\ Tables' /\ \A q \in Resolvers : q # r => resolving'[q] = resolving[q]
      /\ resolving'[r].item \in {NoItem, remote} \/ resolving'[r].choose = "NONE"
      /\ UNCHANGED <<kind, platform, remote, notices, inbox, outbox, drain, conflicts>>
  BY TablesStartResolve, TablesReadTheirs, TablesReadTheirsFails
<1>2. CASE remote.status = platform  BY <1>1, <1>2 DEF Told
<1>3. CASE remote.status # platform
  <2>1. NoItem.status # platform  BY DEF NoItem, Tables, Statuses
  <2>2. ResolvingCloses  BY <1>1, <1>3, <2>1 DEF ResolvingCloses, AnswerCloses
  <2> QED  BY <1>1, <2>2, ToldSameOutbox, ConflictsSame DEF DrainCloses
<1> QED  BY <1>2, <1>3

LEMMA ToldSendAgain == ASSUME Tables, Told, NEW r \in Resolvers, SendAgain(r)  PROVE Told'
<1>1. /\ Tables' /\ resolving'[r].choose = "CLOSE"
      /\ \A q \in Resolvers : q # r => resolving'[q] = resolving[q]
      /\ UNCHANGED <<kind, platform, remote, notices, inbox, drain, conflicts>>
  BY TablesSendAgain
<1>2. SameKeys /\ Outstanding \subseteq Outstanding'
  BY TablesSendAgain, OutstandingStill, TablesTyped
<1>3. ResolvingCloses  BY <1>1 DEF ResolvingCloses, AnswerCloses
<1> QED  BY <1>1, <1>2, <1>3, ToldStill, ConflictsSame DEF DrainCloses

LEMMA ToldTakeTheirs ==
  ASSUME Tables, Told, NEW r \in Resolvers, NEW ok \in BOOLEAN,
         TakeTheirs(r, ok)
  PROVE  Told'
<1> DEFINE j == conflicts[resolving[r].conflict].job
<1>1. /\ Tables' /\ resolving'[r].choose = "CLOSE" /\ resolving[r].choose = "EXTERNAL"
      /\ \A q \in Resolvers : q # r => resolving'[q] = resolving[q]
      /\ resolving[r].conflict \in DOMAIN conflicts /\ j \in DOMAIN outbox
      /\ UNCHANGED <<kind, remote, notices, inbox, drain, conflicts>>
  BY TablesTakeTheirs
<1>2. PICK box \in Seq(Job), e \in Job :
              /\ OneJob(box, j, e)
              /\ \/ /\ outbox' = box /\ platform' = platform
                    /\ \/ resolving[r].item.status = platform
                       \/ kind = "CR"
                       \/ Known(outbox, ConflictKey(resolving[r].conflict))
                 \/ \E s \in Statuses, k \in Keys : OneMore(box, s, k)
  BY TablesTakeTheirs
<1>3. CASE \E s \in Statuses, k \in Keys : OneMore(box, s, k)
  BY <1>1, <1>3, NewJobTells DEF Told
<1>4. CASE outbox' = box /\ platform' = platform /\ kind = "CR"
  BY <1>1, <1>4 DEF Told
<1>5. CASE /\ outbox' = box /\ platform' = platform
           /\ \/ resolving[r].item.status = platform
              \/ Known(outbox, ConflictKey(resolving[r].conflict))
  <2>1. j \in Closing  BY <1>1, <1>5 DEF Closing, AnswerCloses
  <2>2. SameKeys /\ Outstanding \ {j} \subseteq Outstanding'
    <3> HIDE DEF j
    <3> QED  BY <1>2, <1>5, OutstandingStill, TablesTyped
  <2>3. Outstanding \ Closing \subseteq Outstanding'  BY <2>1, <2>2
  <2>4. ResolvingCloses  BY <1>1 DEF ResolvingCloses, AnswerCloses
  <2> QED  BY <1>1, <1>5, <2>2, <2>3, <2>4, ToldStill, ConflictsSame DEF DrainCloses
<1> QED  BY <1>2, <1>3, <1>4, <1>5

LEMMA ToldCloseConflict == ASSUME Tables, Told, NEW r \in Resolvers, CloseConflict(r)  PROVE Told'
<1>1. /\ Tables' /\ DOMAIN conflicts' = DOMAIN conflicts /\ resolving'[r].choose = "NONE"
      /\ \A q \in Resolvers : q # r => resolving'[q] = resolving[q]
      /\ \A c \in DOMAIN conflicts : conflicts'[c].job = conflicts[c].job
      /\ UNCHANGED <<kind, platform, remote, notices, inbox, outbox, drain>>
  BY TablesCloseConflict
<1>2. ResolvingCloses  BY <1>1 DEF ResolvingCloses, AnswerCloses
<1> QED  BY <1>1, <1>2, ToldSameOutbox DEF DrainCloses, ConflictsClose

LEMMA ToldInit == SyncInit => Told
  BY DEF SyncInit, Told

LEMMA ToldNext ==
  ASSUME Tables, Told, Followed, [SyncNext]_syncVars
  PROVE  Told'
<1>1. ASSUME NEW s \in 1 .. MaxStatus, PlatformChange(s)  PROVE Told'
  BY <1>1, ToldPlatformChange DEF Statuses
<1>2. ASSUME NEW s \in 1 .. MaxStatus, Edit(s)  PROVE Told'
  BY <1>2, ToldEdit DEF Statuses
<1>3. ASSUME NEW j \in DOMAIN outbox, WaitEnds(j)  PROVE Told'
  BY <1>3, ToldWaitEnds
<1>4. CASE DrainStep
  <2>1. Followed'  BY FollowedNext
  <2> QED  BY <1>4, <2>1, ToldStartDrain, ToldReadRemote, ToldCompareStatus, ToldWriteComment,
              ToldWriteStatus, ToldFinishJob, ToldOpenConflict DEF DrainStep
<1>5. CASE CallFails  BY <1>5, ToldCallFails
<1>6. ASSUME NEW n \in notices, NEW ok \in BOOLEAN, Ingest(n, ok) \/ CrashInIngest(n, ok)
      PROVE  Told'
  BY <1>6, ToldIngest
<1>7. CASE SyncCrash  BY <1>7, ToldSyncCrash
<1>8. ASSUME NEW r \in Resolvers,
             \/ \E c \in DOMAIN conflicts, choose \in {"PLATFORM", "EXTERNAL"} :
                  StartResolve(r, c, choose)
             \/ ReadTheirs(r) \/ ReadTheirsFails(r)
      PROVE  Told'
  BY <1>8, ToldStartResolve
<1>9. ASSUME NEW r \in Resolvers, SendAgain(r) \/ CloseConflict(r)  PROVE Told'
  BY <1>9, ToldSendAgain, ToldCloseConflict
<1>10. ASSUME NEW r \in Resolvers, NEW ok \in BOOLEAN, TakeTheirs(r, ok)  PROVE Told'
  BY <1>10, ToldTakeTheirs
<1>11. CASE UNCHANGED syncVars
  <2>1. Tables' /\ UNCHANGED <<kind, platform, remote, notices, inbox, outbox, drain, conflicts, resolving>>
    BY <1>11, TablesStutter DEF syncVars
  <2> QED  BY <2>1, ToldDrain DEF DrainCloses
<1> QED  BY <1>1, <1>2, <1>3, <1>4, <1>5, <1>6, <1>7, <1>8, <1>9, <1>10, <1>11 DEF SyncNext

LEMMA ToldMeansConverged ==
  ASSUME Tables, Told
  PROVE  EpicConverges
<1> SUFFICES ASSUME kind = "EPIC", Settled, remote.status # platform  PROVE FALSE
  BY DEF EpicConverges
<1>1. Outstanding = {}  BY DEF Settled, Outstanding
<1>2. ~Unanswered  BY DEF Settled, Unanswered
<1> QED  BY <1>1, <1>2 DEF Told

\* Once everything has settled the Epic shows the lifecycle, whoever changed what when,
\* however late, often or out of order the webhooks came, however many people resolved
\* the same conflict, whichever calls failed, wherever the process crashed, and although
\* a job sends what the platform showed before it awaited JIRA.
THEOREM EpicAlwaysConverges == SyncSpec => []EpicConverges
<1>1. SyncInit => Tables /\ Told /\ Followed  BY TablesInit, ToldInit, FollowedInit
<1>2. Tables /\ Told /\ Followed /\ [SyncNext]_syncVars => Tables' /\ Told' /\ Followed'
  BY TablesNext, ToldNext, FollowedNext
<1>3. Tables /\ Told => EpicConverges  BY ToldMeansConverged
<1> QED  BY <1>1, <1>2, <1>3, PTL DEF SyncSpec

-----------------------------------------------------------------------------
(* A CR that nobody touched in JIRA: the jobs are sent in turn *)

\* Only the platform has changed the CR, and no job was tried twice.
OwnOnly ==
  /\ kind = "CR" /\ conflicts = << >>
  /\ \A n \in notices : n.mine
  /\ \A j \in DOMAIN outbox : outbox[j].attempts <= 1

StatusAt(k) == IF k = 0 THEN 1 ELSE outbox[k].status

\* A job that failed once can only end by being tried twice.
Tried == \E j \in DOMAIN outbox : outbox[j].attempts = 1 /\ outbox[j].state \notin {"DONE", "SKIPPED"}

\* The first k jobs are done and the others wait.
DoneUpTo(k) ==
  \A j \in DOMAIN outbox :
    IF j <= k THEN outbox[j].state = "DONE"
    ELSE outbox[j].state = "PENDING" /\ outbox[j].due /\ outbox[j].attempts = 0

\* The drain works through the others in order.
DrainsAfter(k) ==
  /\ \A j \in drain.queue : j > k /\ k + 1 \in drain.queue
  /\ \A j \in drain.queue : \A i \in k + 1 .. j : i \in drain.queue

\* JIRA shows the status of the last job done or of the one after it, which the job
\* in hand sends.
ShowsUpTo(k) ==
  /\ \/ remote.status = StatusAt(k)
     \/ k + 1 \in DOMAIN outbox /\ remote.status = StatusAt(k + 1)
  /\ drain.step # "idle" => drain.desired = StatusAt(k + 1)
  /\ drain.step = "compare" => drain.item.status = remote.status
  /\ drain.step \in {"comment", "done"} => remote.status = StatusAt(k + 1)

SentUpTo(k) == DoneUpTo(k) /\ DrainsAfter(k) /\ ShowsUpTo(k)

SentSome == Tried \/ \E k \in 0 .. Len(outbox) : SentUpTo(k)

InTurn ==
  /\ resolving = Unresolving
  /\ platform = StatusAt(Len(outbox))
  /\ SentSome

SentInTurn == OwnOnly => InTurn

LEMMA JobsTyped ==
  ASSUME Tables, NEW j \in DOMAIN outbox
  PROVE  outbox[j].attempts \in Nat /\ outbox[j].status \in Statuses /\ j \in Nat
<1>1. outbox[j] \in Job /\ j \in Nat  BY JobIs, JobsNumbered, TablesTyped
<1> QED  BY <1>1 DEF Job, Statuses

\* While nothing was tried twice, the job in hand is the first that is not done.
LEMMA CurrentInTurn ==
  ASSUME Tables, drain.step # "idle", NEW k \in 0 .. Len(outbox), DrainsAfter(k)
  PROVE  Current = k + 1 /\ k + 1 \in DOMAIN outbox /\ k \in Nat
<1>1. Current \in drain.queue /\ Current \in DOMAIN outbox /\ \A j \in drain.queue : Current <= j
  BY TablesTyped, CurrentIs
<1>2. Len(outbox) \in Nat /\ DOMAIN outbox = 1 .. Len(outbox)  BY TablesTyped, JobsNumbered
<1> HIDE DEF Current
<1> QED  BY <1>1, <1>2 DEF DrainsAfter

\* The first of a list that begins after k.
LEMMA FirstInTurn ==
  ASSUME NEW Q \in SUBSET Nat, NEW k \in Nat, k + 1 \in Q, \A j \in Q : j > k
  PROVE  First(Q) = k + 1
<1>1. First(Q) \in Q /\ \A j \in Q : First(Q) <= j  BY FirstIs
<1>2. PICK x : x = First(Q)  OBVIOUS
<1>3. x \in Nat /\ x > k /\ x <= k + 1  BY <1>1, <1>2
<1>4. x = k + 1  BY <1>3
<1> QED  BY <1>2, <1>4

LEMMA TurnPlatformChange ==
  ASSUME Tables, SentInTurn, NEW s \in Statuses, PlatformChange(s), OwnOnly'
  PROVE  InTurn'
<1>1. /\ OneMore(outbox, s, EventKey) /\ platform' = s
      /\ UNCHANGED <<kind, remote, notices, drain, conflicts, resolving>>
  BY TablesPlatformChange
<1>2. PICK n \in Nat : n = Len(outbox)  BY <1>1 DEF OneMore
<1>3. /\ DOMAIN outbox = 1 .. n /\ DOMAIN outbox' = 1 .. n + 1 /\ Len(outbox') = n + 1
      /\ \A j \in 1 .. n : outbox'[j] = outbox[j]
      /\ outbox'[n + 1] = NewJob(s, EventKey)
  BY <1>1, <1>2 DEF OneMore
<1>4. OwnOnly  BY <1>1, <1>3 DEF OwnOnly
<1>5. StatusAt(Len(outbox))' = s /\ \A k \in 0 .. n : StatusAt(k)' = StatusAt(k)
  BY <1>2, <1>3 DEF StatusAt, NewJob
<1>6. Tried => Tried'  BY <1>3 DEF Tried
<1>7. ASSUME NEW k \in 0 .. n, SentUpTo(k)  PROVE SentUpTo(k)'
  <2>1. DoneUpTo(k)'  BY <1>3, <1>7 DEF SentUpTo, DoneUpTo, NewJob
  <2>2. DrainsAfter(k)'  BY <1>1, <1>7 DEF SentUpTo, DrainsAfter
  <2>3. CASE k + 1 \in 1 .. n
    <3>1. StatusAt(k + 1)' = StatusAt(k + 1)  BY <1>5, <2>3
    <3>2. ShowsUpTo(k)' BY <1>1, <1>3, <1>5, <1>7, <2>3, <3>1 DEF SentUpTo, ShowsUpTo
    <3> QED  BY <2>1, <2>2, <3>2 DEF SentUpTo
  <2>4. CASE k + 1 \notin 1 .. n
    <3>1. drain.step = "idle"
      <4> SUFFICES ASSUME drain.step # "idle"  PROVE FALSE  OBVIOUS
      <4> QED  BY <1>2, <1>3, <1>7, <2>4, CurrentInTurn DEF SentUpTo
    <3>2. ShowsUpTo(k)' BY <1>1, <1>3, <1>5, <1>7, <2>4, <3>1 DEF SentUpTo, ShowsUpTo
    <3> QED  BY <2>1, <2>2, <3>2 DEF SentUpTo
  <2> QED  BY <2>3, <2>4
<1>8. SentSome'
  <2>1. SentSome  BY <1>4 DEF SentInTurn, InTurn
  <2>2. CASE Tried  BY <1>6, <2>2 DEF SentSome
  <2>3. ASSUME NEW k \in 0 .. n, SentUpTo(k)  PROVE SentSome'
    <3>1. k \in 0 .. Len(outbox')  BY <1>3
    <3> QED  BY <1>7, <2>3, <3>1 DEF SentSome
  <2> QED  BY <1>2, <2>1, <2>2, <2>3 DEF SentSome
<1> QED  BY <1>1, <1>4, <1>5, <1>8 DEF SentInTurn, InTurn

LEMMA TurnWaitEnds ==
  ASSUME Tables, SentInTurn, NEW j \in DOMAIN outbox, WaitEnds(j), OwnOnly'
  PROVE  InTurn'
<1>1. UNCHANGED <<kind, platform, remote, notices, drain, conflicts, resolving>>
      /\ outbox' = [outbox EXCEPT ![j].due = TRUE]
  BY DEF WaitEnds
<1>2. PICK e \in Job : /\ OneJob(outbox', j, e)
                       /\ e.attempts = outbox[j].attempts /\ e.state = outbox[j].state /\ e.due = TRUE
  BY <1>1, DueIs, TablesTyped
<1>3. /\ DOMAIN outbox' = DOMAIN outbox /\ Len(outbox') = Len(outbox)
      /\ \A i \in DOMAIN outbox : /\ outbox'[i].status = outbox[i].status
                                  /\ outbox'[i].attempts = outbox[i].attempts
                                  /\ outbox'[i].state = outbox[i].state
                                  /\ outbox[i].due => outbox'[i].due
  BY <1>2 DEF OneJob, SameJobs
<1>4. OwnOnly  BY <1>1, <1>3 DEF OwnOnly
<1>5. DOMAIN outbox = 1 .. Len(outbox) /\ Len(outbox) \in Nat  BY JobsNumbered, TablesTyped
<1>6. platform' = StatusAt(Len(outbox))'  BY <1>1, <1>3, <1>4, <1>5 DEF StatusAt, SentInTurn, InTurn
<1>7. Tried => Tried'  BY <1>3 DEF Tried
<1>8. ASSUME NEW k \in 0 .. Len(outbox), SentUpTo(k)  PROVE SentUpTo(k)'
  <2>1. DoneUpTo(k)' /\ DrainsAfter(k)'  BY <1>1, <1>3, <1>8 DEF SentUpTo, DoneUpTo, DrainsAfter
  <2>2. \A i \in DOMAIN outbox : StatusAt(i)' = StatusAt(i)  BY <1>3 DEF StatusAt
  <2>3. StatusAt(k)' = StatusAt(k)  BY <1>5, <2>2 DEF StatusAt
  <2>4. drain.step # "idle" => k + 1 \in DOMAIN outbox  BY <1>8, CurrentInTurn DEF SentUpTo
  <2>5. ShowsUpTo(k)'  BY <1>1, <1>3, <1>8, <2>2, <2>3, <2>4 DEF SentUpTo, ShowsUpTo
  <2> QED  BY <2>1, <2>5 DEF SentUpTo
<1> QED  BY <1>1, <1>3, <1>4, <1>6, <1>7, <1>8 DEF SentInTurn, InTurn, SentSome

\* A step of the drain that leaves the outbox alone.
LEMMA TurnSameOutbox ==
  ASSUME Tables, SentInTurn, UNCHANGED <<kind, platform, outbox, conflicts>>,
         notices \subseteq notices', resolving' \in {resolving, Unresolving},
         \A k \in 0 .. Len(outbox) : SentUpTo(k) => DrainsAfter(k)' /\ ShowsUpTo(k)',
         OwnOnly'
  PROVE  InTurn'
<1>1. OwnOnly  BY DEF OwnOnly
<1>2. Tried => Tried'  BY DEF Tried
<1>3. \A k \in 0 .. Len(outbox) : SentUpTo(k) => SentUpTo(k)'
  BY DEF SentUpTo, DoneUpTo
<1>4. SentSome'  BY <1>1, <1>2, <1>3 DEF SentInTurn, InTurn, SentSome
<1> QED  BY <1>1, <1>4 DEF SentInTurn, InTurn, StatusAt

LEMMA TurnStartDrain == ASSUME Tables, SentInTurn, StartDrain, OwnOnly'  PROVE InTurn'
<1>1. /\ drain'.queue = Due /\ drain'.step = "read" /\ First(Due) \in Due
      /\ drain'.desired = Desired(First(Due))
      /\ UNCHANGED <<kind, platform, remote, notices, inbox, outbox, conflicts, resolving>>
  BY TablesStartDrain
<1>2. DOMAIN outbox = 1 .. Len(outbox) /\ Len(outbox) \in Nat  BY JobsNumbered, TablesTyped
<1>3. kind = "CR"  BY <1>1 DEF OwnOnly
<1>4. ASSUME NEW k \in 0 .. Len(outbox), SentUpTo(k)  PROVE DrainsAfter(k)' /\ ShowsUpTo(k)'
  <2>1. \A j : j \in Due <=> j \in 1 .. Len(outbox) /\ j > k
    BY <1>2, <1>4 DEF Due, SentUpTo, DoneUpTo
  <2> HIDE DEF Due
  <2>2. DrainsAfter(k)'  BY <1>1, <1>2, <2>1 DEF DrainsAfter
  <2>3. k \in Nat /\ Due \in SUBSET Nat /\ k + 1 \in Due  BY <1>1, <1>2, <2>1
  <2>4. First(Due) = k + 1  BY <2>1, <2>3, FirstInTurn
  <2>5. drain'.desired = StatusAt(k + 1)'  BY <1>1, <1>3, <2>3, <2>4 DEF Desired, StatusAt
  <2>6. ShowsUpTo(k)'  BY <1>1, <1>4, <2>5 DEF SentUpTo, ShowsUpTo, StatusAt
  <2> QED  BY <2>2, <2>6
<1> QED  BY <1>1, <1>4, TurnSameOutbox

LEMMA TurnReadRemote == ASSUME Tables, SentInTurn, ReadRemote, OwnOnly'  PROVE InTurn'
<1>1. /\ drain'.item = remote /\ drain'.queue = drain.queue /\ drain'.desired = drain.desired
      /\ drain.step = "read" /\ drain'.step = "compare"
      /\ UNCHANGED <<kind, platform, remote, notices, inbox, outbox, conflicts, resolving>>
  BY TablesReadRemote
<1>2. ASSUME NEW k \in 0 .. Len(outbox), SentUpTo(k)  PROVE DrainsAfter(k)' /\ ShowsUpTo(k)'
  BY <1>1, <1>2 DEF SentUpTo, DrainsAfter, ShowsUpTo, StatusAt
<1> QED  BY <1>1, <1>2, TurnSameOutbox

LEMMA TurnCompareStatus == ASSUME Tables, SentInTurn, CompareStatus, OwnOnly'  PROVE InTurn'
<1>1. /\ drain'.queue = drain.queue /\ drain'.desired = drain.desired /\ drain.step = "compare"
      /\ \/ drain.item.status = drain.desired /\ drain'.step = "comment"
         \/ drain.item.status # drain.desired /\ drain'.step = "status"
      /\ UNCHANGED <<kind, platform, remote, notices, inbox, outbox, conflicts, resolving>>
  BY TablesCompareStatus
<1>2. ASSUME NEW k \in 0 .. Len(outbox), SentUpTo(k)  PROVE DrainsAfter(k)' /\ ShowsUpTo(k)'
  BY <1>1, <1>2 DEF SentUpTo, DrainsAfter, ShowsUpTo, StatusAt
<1> QED  BY <1>1, <1>2, TurnSameOutbox

LEMMA TurnWriteComment == ASSUME Tables, SentInTurn, WriteComment, OwnOnly'  PROVE InTurn'
<1>1. /\ drain'.queue = drain.queue /\ drain'.desired = drain.desired
      /\ drain.step = "comment" /\ drain'.step = "done" /\ remote'.status = remote.status
      /\ UNCHANGED <<kind, platform, notices, inbox, outbox, conflicts, resolving>>
  BY TablesWriteComment
<1>2. ASSUME NEW k \in 0 .. Len(outbox), SentUpTo(k)  PROVE DrainsAfter(k)' /\ ShowsUpTo(k)'
  BY <1>1, <1>2 DEF SentUpTo, DrainsAfter, ShowsUpTo, StatusAt
<1> QED  BY <1>1, <1>2, TurnSameOutbox

LEMMA TurnWriteStatus == ASSUME Tables, SentInTurn, WriteStatus, OwnOnly'  PROVE InTurn'
<1>1. /\ drain'.queue = drain.queue /\ drain'.desired = drain.desired /\ drain.step = "status"
      /\ \/ /\ drain'.step = "done" /\ remote'.status = drain.desired
            /\ notices' = notices \cup {Notice(drain.desired, TRUE)}
         \/ drain'.step = "conflict" /\ UNCHANGED <<remote, notices>>
      /\ UNCHANGED <<kind, platform, inbox, outbox, conflicts, resolving>>
  BY TablesWriteStatus
<1>2. notices \subseteq notices'  BY <1>1
<1>3. ASSUME NEW k \in 0 .. Len(outbox), SentUpTo(k)  PROVE DrainsAfter(k)' /\ ShowsUpTo(k)'
  <2>1. k + 1 \in DOMAIN outbox  BY <1>1, <1>3, CurrentInTurn DEF SentUpTo
  <2>2. DrainsAfter(k)'  BY <1>1, <1>3 DEF SentUpTo, DrainsAfter
  <2>3. StatusAt(k)' = StatusAt(k) /\ StatusAt(k + 1)' = StatusAt(k + 1)  BY <1>1 DEF StatusAt
  <2>4. drain.desired = StatusAt(k + 1)  BY <1>1, <1>3 DEF SentUpTo, ShowsUpTo
  <2>5. CASE drain'.step = "done" /\ remote'.status = drain.desired
    BY <1>1, <2>1, <2>2, <2>3, <2>4, <2>5 DEF ShowsUpTo
  <2>6. CASE drain'.step = "conflict" /\ remote' = remote
    BY <1>1, <1>3, <2>2, <2>3, <2>4, <2>6 DEF SentUpTo, ShowsUpTo
  <2> QED  BY <1>1, <2>5, <2>6, Zenon
<1> QED  BY <1>1, <1>2, <1>3, TurnSameOutbox

\* The job in hand was tried once more: no job may have been tried before.
LEMMA TurnTried ==
  ASSUME Tables, SentInTurn, drain.step # "idle", NEW e \in Job, OneJob(outbox', Current, e),
         e.attempts = outbox[Current].attempts + 1,
         UNCHANGED <<kind, platform, notices, conflicts, resolving>>, OwnOnly'
  PROVE  /\ OwnOnly /\ resolving' = Unresolving /\ platform' = StatusAt(Len(outbox))'
         /\ Tried => Tried'
<1>1. /\ DOMAIN outbox' = DOMAIN outbox /\ Len(outbox') = Len(outbox)
      /\ \A i \in DOMAIN outbox : outbox'[i].status = outbox[i].status
      /\ \A i \in DOMAIN outbox : i # Current => outbox'[i] = outbox[i]
      /\ outbox'[Current] = e
  BY DEF OneJob, SameJobs
<1>2. Current \in DOMAIN outbox /\ DOMAIN outbox = 1 .. Len(outbox) /\ Len(outbox) \in Nat
  BY CurrentIs, TablesTyped, JobsNumbered
<1>3. outbox[Current].attempts \in Nat  BY <1>2, JobsTyped
<1>4. e.attempts <= 1  BY <1>1, <1>2 DEF OwnOnly
<1> HIDE DEF Current
<1>5. OwnOnly
  <2>1. \A i \in DOMAIN outbox : outbox[i].attempts <= 1
    BY <1>1, <1>2, <1>3, <1>4 DEF OwnOnly
  <2> QED  BY <2>1 DEF OwnOnly
<1>6. Tried => Tried'  BY <1>1, <1>2, <1>3, <1>4 DEF Tried
<1>7. platform' = StatusAt(Len(outbox))'
  BY <1>1, <1>2, <1>5 DEF SentInTurn, InTurn, StatusAt
<1> QED  BY <1>5, <1>6, <1>7 DEF SentInTurn, InTurn

LEMMA TurnCallFails == ASSUME Tables, SentInTurn, CallFails, OwnOnly'  PROVE InTurn'
<1>1. /\ drain.step # "idle" /\ Current \in DOMAIN outbox
      /\ UNCHANGED <<kind, platform, notices, conflicts, resolving>>
  BY TablesCallFails
<1>2. PICK e \in Job : /\ OneJob(outbox', Current, e)
                       /\ e.attempts = outbox[Current].attempts + 1
                       /\ e.state \in {outbox[Current].state, "FAILED"}
  BY TablesCallFails
<1>3. /\ OwnOnly /\ resolving' = Unresolving /\ platform' = StatusAt(Len(outbox))'
      /\ Tried => Tried'
  BY <1>1, <1>2, TurnTried
<1>4. ASSUME NEW k \in 0 .. Len(outbox), SentUpTo(k)  PROVE Tried'
  <2>1. Current = k + 1 /\ k \in Nat  BY <1>1, <1>4, CurrentInTurn DEF SentUpTo
  <2>2. ~(Current <= k)  BY <2>1
  <2>3. outbox[Current].state = "PENDING" /\ outbox[Current].attempts = 0
    BY <1>1, <1>4, <2>2 DEF SentUpTo, DoneUpTo
  <2>4. Current \in DOMAIN outbox' /\ outbox'[Current].attempts = 1
        /\ outbox'[Current].state \notin {"DONE", "SKIPPED"}
    BY <1>1, <1>2, <2>3 DEF OneJob, SameJobs
  <2> QED  BY <2>4 DEF Tried
<1>5. Tried'  BY <1>3, <1>4 DEF SentInTurn, InTurn, SentSome
<1> QED  BY <1>3, <1>5 DEF InTurn, SentSome

LEMMA TurnFinishJob == ASSUME Tables, SentInTurn, FinishJob, OwnOnly'  PROVE InTurn'
<1>1. /\ drain.step = "done" /\ Current \in DOMAIN outbox /\ drain'.step \in {"idle", "read"}
      /\ drain' = NextJob /\ drain'.queue = drain.queue \ {Current} /\ Tables'
      /\ UNCHANGED <<kind, platform, remote, notices, conflicts, resolving>>
  BY TablesFinishJob
<1>2. PICK e \in Job : /\ OneJob(outbox', Current, e)
                       /\ e.attempts = outbox[Current].attempts + 1 /\ e.state = "DONE"
  BY TablesFinishJob
<1>3. /\ OwnOnly /\ resolving' = Unresolving /\ platform' = StatusAt(Len(outbox))'
      /\ Tried => Tried'
  BY <1>1, <1>2, TurnTried
<1>4. ASSUME NEW k \in 0 .. Len(outbox), SentUpTo(k)  PROVE SentSome'
  <2>1. Current = k + 1 /\ k + 1 \in DOMAIN outbox /\ k \in Nat
    BY <1>1, <1>4, CurrentInTurn DEF SentUpTo
  <2>2. PICK m \in Nat : m = k + 1  BY <2>1
  <2>3. Current = m  BY <2>1, <2>2
  <2>4. /\ DOMAIN outbox' = DOMAIN outbox /\ Len(outbox') = Len(outbox)
        /\ \A i \in DOMAIN outbox : outbox'[i].status = outbox[i].status
        /\ \A i \in DOMAIN outbox : i # m => outbox'[i] = outbox[i]
        /\ outbox'[m].state = "DONE"
    BY <1>2, <2>3 DEF OneJob, SameJobs
  <2>5. DOMAIN outbox = 1 .. Len(outbox) /\ Len(outbox) \in Nat  BY TablesTyped, JobsNumbered
  <2>6. DoneUpTo(m)'
    BY <1>4, <2>1, <2>2, <2>4, <2>5 DEF SentUpTo, DoneUpTo
  <2>7. DrainsAfter(m)'
    <3>1. drain'.queue = drain.queue \ {m}  BY <1>1, <2>3
    <3>2. drain.queue \subseteq Nat  BY <2>5 DEF Tables, DrainGood
    <3> QED  BY <1>4, <2>1, <2>2, <3>1, <3>2 DEF SentUpTo, DrainsAfter
  <2>8. remote.status = StatusAt(m)  BY <1>1, <1>4, <2>2 DEF SentUpTo, ShowsUpTo
  <2>9. remote'.status = StatusAt(m)'  BY <1>1, <2>1, <2>2, <2>4, <2>8 DEF StatusAt
  <2>10. drain'.step # "idle" => drain'.desired = StatusAt(m + 1)'
    <3> SUFFICES ASSUME drain'.step # "idle"  PROVE drain'.desired = StatusAt(m + 1)'
      OBVIOUS
    <3> DEFINE Q == drain.queue \ {Current}
    <3>1. Q \in SUBSET DOMAIN outbox /\ drain' = Running(Q) /\ drain'.queue = Q
      BY <1>1 DEF Tables, DrainGood, NextJob
    <3>2. Q # {}  BY <1>1, <3>1 DEF Tables, DrainGood
    <3>3. \A j \in Q : j > m /\ m + 1 \in Q  BY <2>7, <3>1 DEF DrainsAfter
    <3> HIDE DEF Q
    <3>4. First(Q) = m + 1  BY <2>2, <2>5, <3>1, <3>2, <3>3, FirstInTurn
    <3>5. drain'.desired = Desired(m + 1)  BY <3>1, <3>2, <3>4, TablesTyped, RunningIs, <2>4
    <3>6. m + 1 \in DOMAIN outbox /\ m + 1 # 0  BY <2>2, <3>1, <3>2, <3>3
    <3>7. kind = "CR"  BY <1>1 DEF OwnOnly
    <3> QED  BY <2>4, <3>5, <3>6, <3>7 DEF Desired, StatusAt
  <2>11. ShowsUpTo(m)'  BY <1>1, <2>9, <2>10 DEF ShowsUpTo
  <2>12. m \in 0 .. Len(outbox')  BY <2>1, <2>2, <2>4, <2>5
  <2> QED  BY <2>6, <2>7, <2>11, <2>12 DEF SentUpTo, SentSome
<1>5. SentSome'  BY <1>3, <1>4 DEF SentInTurn, InTurn, SentSome
<1> QED  BY <1>3, <1>5 DEF InTurn

\* After a step that takes the drain away.
LEMMA TurnIdle ==
  ASSUME NEW k, SentUpTo(k), drain' \in {drain, Idle}, UNCHANGED <<remote, outbox>>
  PROVE  DrainsAfter(k)' /\ ShowsUpTo(k)'
  BY DEF SentUpTo, DrainsAfter, ShowsUpTo, StatusAt, Idle

LEMMA TurnIngest ==
  ASSUME Tables, SentInTurn, NEW n \in notices, NEW ok \in BOOLEAN,
         Ingest(n, ok) \/ CrashInIngest(n, ok), OwnOnly'
  PROVE  InTurn'
<1>1. /\ drain' \in {drain, Idle} /\ resolving' \in {resolving, Unresolving}
      /\ UNCHANGED <<kind, remote, notices, conflicts>>
  BY TablesIngest
<1>2. n.mine  BY <1>1 DEF OwnOnly
<1>3. platform' = platform /\ outbox' = outbox
  BY <1>2 DEF Ingest, CrashInIngest, ApplyChange
<1> QED  BY <1>1, <1>3, TurnIdle, TurnSameOutbox

LEMMA TurnSyncCrash == ASSUME Tables, SentInTurn, SyncCrash, OwnOnly'  PROVE InTurn'
  BY TablesSyncCrash, TurnIdle, TurnSameOutbox

\* Steps of people in JIRA, and everything about conflicts, are ruled out.
LEMMA TurnOthers ==
  ASSUME Tables,
         \/ \E s \in Statuses : Edit(s)
         \/ OpenConflict
         \/ \E r \in Resolvers :
              \/ \E c \in DOMAIN conflicts, choose \in {"PLATFORM", "EXTERNAL"} :
                   StartResolve(r, c, choose)
              \/ ReadTheirs(r) \/ ReadTheirsFails(r) \/ SendAgain(r)
              \/ \E ok \in BOOLEAN : TakeTheirs(r, ok)
              \/ CloseConflict(r)
  PROVE  ~OwnOnly'
<1>1. ASSUME NEW s \in Statuses, Edit(s)  PROVE ~OwnOnly'
  <2>1. Notice(s, FALSE) \in notices' /\ ~Notice(s, FALSE).mine
    BY <1>1, TablesEdit DEF Notice
  <2> QED  BY <2>1 DEF OwnOnly
<1>2. CASE OpenConflict
  <2>1. DOMAIN conflicts' # {}
    <3>1. Len(conflicts) \in Nat /\ DOMAIN conflicts' = 1 .. Len(conflicts) + 1
      BY <1>2, TablesOpenConflict
    <3>2. 1 \in DOMAIN conflicts'  BY <3>1
    <3> QED  BY <3>2
  <2> QED  BY <2>1 DEF OwnOnly
<1>3. ASSUME NEW r \in Resolvers, NEW c \in DOMAIN conflicts, NEW choose \in {"PLATFORM", "EXTERNAL"},
             StartResolve(r, c, choose)
      PROVE  ~OwnOnly'
  <2>1. UNCHANGED conflicts  BY <1>3 DEF StartResolve
  <2> QED  BY <2>1 DEF OwnOnly
<1>4. ASSUME NEW r \in Resolvers, resolving[r].choose # "NONE", DOMAIN conflicts' = DOMAIN conflicts
      PROVE  ~OwnOnly'
  <2>1. resolving[r].conflict \in DOMAIN conflicts  BY <1>4 DEF Tables, ResolvingGood
  <2> QED  BY <1>4, <2>1 DEF OwnOnly
<1>5. ASSUME NEW r \in Resolvers, ReadTheirs(r) \/ ReadTheirsFails(r) \/ SendAgain(r)
      PROVE  ~OwnOnly'
  <2>1. UNCHANGED conflicts /\ resolving[r].choose # "NONE"
    BY <1>5 DEF ReadTheirs, ReadTheirsFails, SendAgain
  <2> QED  BY <1>4, <2>1
<1>6. ASSUME NEW r \in Resolvers, NEW ok \in BOOLEAN, TakeTheirs(r, ok)  PROVE ~OwnOnly'
  <2>1. UNCHANGED conflicts /\ resolving[r].choose # "NONE"  BY <1>6 DEF TakeTheirs
  <2> QED  BY <1>4, <2>1
<1>7. ASSUME NEW r \in Resolvers, CloseConflict(r)  PROVE ~OwnOnly'
  BY <1>4, <1>7, TablesCloseConflict
<1> QED  BY <1>1, <1>2, <1>3, <1>5, <1>6, <1>7

LEMMA TurnInit == SyncInit => SentInTurn
<1> SUFFICES ASSUME SyncInit  PROVE InTurn  BY DEF SentInTurn
<1>1. outbox = << >> /\ Len(outbox) = 0 /\ DOMAIN outbox = {} /\ 0 \in 0 .. Len(outbox)
  BY EmptySeq DEF SyncInit
<1>2. SentUpTo(0)
  BY <1>1 DEF SyncInit, SentUpTo, DoneUpTo, DrainsAfter, ShowsUpTo, StatusAt, Idle
<1> QED  BY <1>1, <1>2 DEF InTurn, SentSome, StatusAt, SyncInit

LEMMA TurnNext ==
  ASSUME Tables, SentInTurn, [SyncNext]_syncVars
  PROVE  SentInTurn'
<1> SUFFICES ASSUME OwnOnly'  PROVE InTurn'  BY DEF SentInTurn
<1>1. ASSUME NEW s \in 1 .. MaxStatus, PlatformChange(s)  PROVE InTurn'
  BY <1>1, TurnPlatformChange DEF Statuses
<1>2. ASSUME NEW j \in DOMAIN outbox, WaitEnds(j)  PROVE InTurn'
  BY <1>2, TurnWaitEnds
<1>3. CASE StartDrain \/ ReadRemote \/ CompareStatus \/ WriteComment \/ WriteStatus \/ FinishJob
  BY <1>3, TurnStartDrain, TurnReadRemote, TurnCompareStatus, TurnWriteComment, TurnWriteStatus,
     TurnFinishJob
<1>4. CASE CallFails  BY <1>4, TurnCallFails
<1>5. ASSUME NEW n \in notices, NEW ok \in BOOLEAN, Ingest(n, ok) \/ CrashInIngest(n, ok)
      PROVE  InTurn'
  BY <1>5, TurnIngest
<1>6. CASE SyncCrash  BY <1>6, TurnSyncCrash
<1>7. CASE \/ \E s \in Statuses : Edit(s)
           \/ OpenConflict
           \/ \E r \in Resolvers :
                \/ \E c \in DOMAIN conflicts, choose \in {"PLATFORM", "EXTERNAL"} :
                     StartResolve(r, c, choose)
                \/ ReadTheirs(r) \/ ReadTheirsFails(r) \/ SendAgain(r)
                \/ \E ok \in BOOLEAN : TakeTheirs(r, ok)
                \/ CloseConflict(r)
  BY <1>7, TurnOthers
<1>8. CASE UNCHANGED syncVars
  BY <1>8, TurnIdle, TurnSameOutbox DEF syncVars
<1> QED  BY <1>1, <1>2, <1>3, <1>4, <1>5, <1>6, <1>7, <1>8 DEF SyncNext, DrainStep, Statuses

LEMMA SentMeansCurrent ==
  ASSUME Tables, SentInTurn
  PROVE  CrCurrentUnlessRetried
<1> SUFFICES ASSUME OwnOnly, Settled  PROVE remote.status = platform
  BY DEF CrCurrentUnlessRetried, OwnOnly
<1>1. ~Tried  BY DEF Settled, Tried
<1>2. PICK k \in 0 .. Len(outbox) : SentUpTo(k)
  BY <1>1 DEF SentInTurn, InTurn, SentSome
<1>3. DOMAIN outbox = 1 .. Len(outbox) /\ Len(outbox) \in Nat  BY JobsNumbered, TablesTyped
<1>4. k + 1 \notin DOMAIN outbox
  BY <1>2, <1>3 DEF Settled, SentUpTo, DoneUpTo
<1>5. k = Len(outbox)
  <2>1. PICK n \in Nat : n = Len(outbox)  BY <1>3
  <2>2. k \in 0 .. n /\ k + 1 \notin 1 .. n  BY <1>2, <1>3, <1>4, <2>1
  <2>3. k = n  BY <2>2
  <2> QED  BY <2>1, <2>3
<1>6. remote.status = StatusAt(k)  BY <1>2, <1>4 DEF SentUpTo, ShowsUpTo
<1> QED  BY <1>5, <1>6 DEF SentInTurn, InTurn

\* A CR nobody touched in JIRA, and of which no job was tried twice, ends with the
\* policy's status: the jobs are sent in the order of the changes, whatever crashes
\* and whenever the waits end.
THEOREM CrAlwaysCurrentUnlessRetried == SyncSpec => []CrCurrentUnlessRetried
<1>1. SyncInit => Tables /\ SentInTurn  BY TablesInit, TurnInit
<1>2. Tables /\ SentInTurn /\ [SyncNext]_syncVars => Tables' /\ SentInTurn'
  BY TablesNext, TurnNext
<1>3. Tables /\ SentInTurn => CrCurrentUnlessRetried  BY SentMeansCurrent
<1> QED  BY <1>1, <1>2, <1>3, PTL DEF SyncSpec

-----------------------------------------------------------------------------
(* Syncing a copy to the flag server                                       *)

Now == UnderWay \cup Ended

\* Only run s moves, and keeps its plan.
Moves(s, now, made, listed) ==
  /\ syncs' \in [Syncs -> Run]
  /\ syncs'[s] = [plan |-> syncs[s].plan, at |-> now, made |-> made, listed |-> listed,
                 alone |-> syncs[s].alone]
  /\ \A t \in Syncs : t # s => syncs'[t] = syncs[t]

LEMMA MovesRun ==
  ASSUME CopyTypeOK, NEW s \in Syncs, NEW now \in Now, NEW made \in Nat,
         NEW listed \in SUBSET Nat,
         \/ syncs' = [syncs EXCEPT ![s].at = now] /\ made = syncs[s].made
            /\ listed = syncs[s].listed
         \/ syncs' = [syncs EXCEPT ![s].listed = listed, ![s].at = now] /\ made = syncs[s].made
         \/ syncs' = [syncs EXCEPT ![s].at = now, ![s].made = made] /\ listed = syncs[s].listed
         \/ syncs' = [syncs EXCEPT ![s].at = now, ![s].listed = listed] /\ made = syncs[s].made
  PROVE  Moves(s, now, made, listed)
<1>1. syncs \in [Syncs -> Run]  BY DEF CopyTypeOK
<1> DEFINE r == [plan |-> syncs[s].plan, at |-> now, made |-> made, listed |-> listed,
                 alone |-> syncs[s].alone]
<1>2. r \in Run  BY <1>1 DEF Run, Now
<1>3. syncs' = [syncs EXCEPT ![s] = r]  BY <1>1 DEF Run
<1> QED  BY <1>1, <1>2, <1>3 DEF Moves

LEMMA GoesOn ==
  ASSUME CopyTypeOK, NEW s \in Syncs, NEW now \in Now, Goes(s, now)
  PROVE  Moves(s, now, syncs[s].made, syncs[s].listed)
<1>1. syncs[s].made \in Nat /\ syncs[s].listed \in SUBSET Nat  BY DEF CopyTypeOK, Run
<1> QED  BY <1>1, MovesRun DEF Goes

\* A call that was not carried out, or only moves the run on.
LEMMA IdleMove ==
  ASSUME CopyTypeOK, NEW s \in Syncs, NEW now \in Now, Goes(s, now),
         UNCHANGED <<deployed, starts, hands, cut>>,
         UNCHANGED <<flag, switched, strategies, newest>>
  PROVE  CopyTypeOK'
<1> QED  BY GoesOn DEF CopyTypeOK, Moves

LEMMA NowIs == {"ensure", "create", "revive", "prepare", "list", "put", "post", "delete",
                "switch", "SYNCED", "FAILED", "LOST", "idle"} = Now
  BY DEF Now, UnderWay, Ended

\* The strategies of a run that posted one more.
LEMMA HoldsOneMore ==
  ASSUME NEW S, NEW plan, NEW n \in Nat, NEW id, Holds(S, plan, n)
  PROVE  Holds(S \cup {Strategy(id, plan, n + 1)}, plan, n + 1)
<1> DEFINE new == Strategy(id, plan, n + 1)
           T == S \cup {new}
<1>1. new.plan = plan /\ new.nr = n + 1  BY DEF Strategy
<1> HIDE DEF new
<1>2. \A x \in S : x.plan = plan /\ x.nr \in 1..n  BY DEF Holds
<1>3. \A x \in T : x.plan = plan /\ x.nr \in 1..(n + 1)  BY <1>1, <1>2
<1>4. \A k \in 1..(n + 1) : \E x \in T : x.nr = k
  <2> TAKE k \in 1..(n + 1)
  <2>1. CASE k = n + 1  BY <1>1, <2>1
  <2>2. CASE k \in 1..n  BY <2>2 DEF Holds
  <2> QED  BY <2>1, <2>2
<1>5. \A x, y \in T : x.nr = y.nr => x = y
  <2> TAKE x, y \in T
  <2>1. CASE x \in S /\ y \in S  BY <2>1 DEF Holds
  <2>2. CASE x \in S /\ y = new  BY <1>1, <1>2, <2>2
  <2>3. CASE x = new /\ y \in S  BY <1>1, <1>2, <2>3
  <2>4. CASE x = new /\ y = new  BY <2>4
  <2> QED  BY <2>1, <2>2, <2>3, <2>4
<1> QED  BY <1>3, <1>4, <1>5 DEF Holds, new
\* Ids are given out once, and a flag that was never made has no strategies.
OneEach ==
  /\ \A x \in strategies : x.id \in 1..newest
  /\ \A x, y \in strategies : x.id = y.id => x = y
  /\ flag = "NONE" => newest = 0

\* A run lists only what is there, and at its deletions there is a newer one.
ListsOld ==
  \A s \in Syncs :
    /\ syncs[s].listed \subseteq 1..newest
    /\ syncs[s].at = "delete" => newest \notin syncs[s].listed

\* The newest strategy stays, unless a person deletes one.
NewestStays == newest > 0 /\ ~ cut => newest \in Ids

\* What is on the server that the run did not list.
MadeSince(run) == {x \in strategies : x.id \notin run.listed}

\* Where the run stands when nothing else touches the server.
OnCourse(run) ==
  /\ run.at \in {"put", "post", "delete", "switch", "SYNCED"} => flag = "LIVE"
  /\ run.at = "ensure" => run.made = 0
  /\ run.at \in {"create", "revive", "prepare", "list"} => run.made = 0
  /\ run.at = "put" => Ids = run.listed /\ Size[run.plan] = 1 /\ \E id \in Ids : Ids = {id}
  /\ run.at = "post" => run.made < Size[run.plan] /\ Holds(MadeSince(run), run.plan, run.made)
  /\ run.at = "delete" => Holds(MadeSince(run), run.plan, Size[run.plan])
  /\ run.at \in {"switch", "SYNCED"} => Holds(strategies, run.plan, Size[run.plan])
  /\ run.at = "SYNCED" => switched = On[run.plan]

AloneOnCourse ==
  \A s \in Syncs : syncs[s].alone =>
    /\ OnCourse(syncs[s])
    /\ \A t \in Syncs \ {s} : syncs[t].at \in Ended

CopyInv == CopyTypeOK /\ OneEach /\ ListsOld /\ NewestStays /\ AloneOnCourse

-----------------------------------------------------------------------------
\* A step of a run, which stays a run; nothing else of the state but the server moves.
LEMMA StrategyMade ==
  ASSUME CopyTypeOK, NEW id \in Nat, NEW plan \in Plan \cup {NoPlan}, NEW nr \in Nat
  PROVE  strategies \cup {Strategy(id, plan, nr)}
           \in SUBSET [id: Nat, plan: Plan \cup {NoPlan}, nr: Nat]
<1> QED  BY DEF CopyTypeOK, Strategy

LEMMA CallTyped ==
  ASSUME CopyTypeOK, NEW s \in Syncs, SyncCall(s)
  PROVE  CopyTypeOK'
<1> USE NowIs
<1>1. syncs[s].plan \in Plan /\ syncs[s].made \in Nat /\ syncs[s].listed \in SUBSET Nat
  BY DEF CopyTypeOK, Run
<1>2. Size[syncs[s].plan] \in Nat \ {0} /\ On[syncs[s].plan] \in BOOLEAN
  BY <1>1, CopyConstants DEF Plan
<1>3. Ids \in SUBSET Nat  BY DEF CopyTypeOK, Ids
<1>4. UNCHANGED <<deployed, starts, hands, cut>>  BY DEF SyncCall
<1>5. ASSUME Refused(s)  PROVE  CopyTypeOK'
  BY <1>4, <1>5, IdleMove DEF Refused
<1>6. CASE GetFlag(s)
  <2>1. PICK next \in Now : Goes(s, next)  BY <1>6 DEF GetFlag
  <2> QED  BY <1>4, <1>6, <2>1, IdleMove DEF GetFlag
<1>7. CASE CreateFlag(s)
  <2>1. PICK next \in Now : Goes(s, next)  BY <1>7 DEF CreateFlag
  <2>2. syncs' \in [Syncs -> Run]  BY <2>1, GoesOn DEF Moves
  <2>3. CASE flag' = "LIVE" /\ switched' = FALSE /\ strategies' = {} /\ UNCHANGED newest
    BY <1>4, <2>2, <2>3 DEF CopyTypeOK
  <2>4. CASE UNCHANGED <<flag, switched, strategies, newest>>
    BY <1>4, <2>1, <2>4, IdleMove
  <2> QED  BY <1>7, <2>3, <2>4 DEF CreateFlag
<1>8. CASE ReviveFlag(s)
  <2>1. CASE /\ flag' = "LIVE"
             /\ \E next \in {"prepare", "FAILED"} : Goes(s, next)
             /\ UNCHANGED <<switched, strategies, newest>>
    <3>1. PICK next \in Now : Goes(s, next)  BY <2>1
    <3>2. syncs' \in [Syncs -> Run]  BY <3>1, GoesOn DEF Moves
    <3> QED  BY <1>4, <2>1, <3>2 DEF CopyTypeOK
  <2> QED  BY <1>5, <1>8, <2>1 DEF ReviveFlag
<1>9. CASE Prepare(s)
  <2>1. PICK next \in Now : Goes(s, next)  BY <1>9 DEF Prepare
  <2> QED  BY <1>4, <1>9, <2>1, IdleMove DEF Prepare
<1>10. CASE ListStrategies(s)
  <2>1. CASE syncs' = [syncs EXCEPT ![s].listed = Ids,
                        ![s].at = IF OneForOne(syncs[s]) THEN "put" ELSE "post"]
    <3>1. PICK next \in Now : syncs' = [syncs EXCEPT ![s].listed = Ids, ![s].at = next]
      BY <2>1
    <3>2. Moves(s, next, syncs[s].made, Ids)  BY <1>1, <1>3, <3>1, MovesRun
    <3> QED  BY <1>4, <1>10, <3>2 DEF ListStrategies, CopyTypeOK, Moves
  <2>2. CASE Goes(s, "FAILED")
    BY <1>4, <1>10, <2>2, IdleMove DEF ListStrategies
  <2> QED  BY <1>10, <2>1, <2>2 DEF ListStrategies
<1>11. CASE PutStrategy(s)
  <2>1. ASSUME NEW old \in strategies,
               strategies' = (strategies \ {old}) \cup {Strategy(old.id, syncs[s].plan, 1)},
               NEW next \in {"switch", "FAILED"}, Goes(s, next),
               UNCHANGED <<flag, switched, newest>>
        PROVE  CopyTypeOK'
    <3>1. syncs' \in [Syncs -> Run]  BY <2>1, GoesOn DEF Moves
    <3>2. old.id \in Nat  BY DEF CopyTypeOK
    <3>3. strategies' \subseteq [id: Nat, plan: Plan \cup {NoPlan}, nr: Nat]
      BY <1>1, <2>1, <3>2, StrategyMade
    <3> QED  BY <1>4, <2>1, <3>1, <3>3 DEF CopyTypeOK
  <2> QED  BY <1>5, <1>11, <2>1 DEF PutStrategy
<1>12. CASE PostStrategy(s)
  <2>1. ASSUME newest' = newest + 1,
               strategies' = strategies
                 \cup {Strategy(newest + 1, syncs[s].plan, syncs[s].made + 1)},
               NEW next \in {AfterPost(syncs[s]), "FAILED"},
               syncs' = [syncs EXCEPT ![s].at = next, ![s].made = @ + 1],
               UNCHANGED <<flag, switched>>
        PROVE  CopyTypeOK'
    <3>1. next \in Now  BY <2>1 DEF AfterPost
    <3>2. PICK m \in Nat : m = syncs[s].made + 1  BY <1>1
    <3>3. syncs' = [syncs EXCEPT ![s].at = next, ![s].made = m]  BY <2>1, <3>2 DEF CopyTypeOK, Run
    <3>4. syncs' \in [Syncs -> Run]  BY <1>1, <3>1, <3>3, MovesRun DEF Moves
    <3>5. newest \in Nat /\ newest + 1 \in Nat  BY DEF CopyTypeOK
    <3>6. strategies' \subseteq [id: Nat, plan: Plan \cup {NoPlan}, nr: Nat]
      BY <1>1, <2>1, <3>2, <3>5, StrategyMade
    <3> QED  BY <1>4, <2>1, <3>4, <3>5, <3>6 DEF CopyTypeOK
  <2> QED  BY <1>5, <1>12, <2>1 DEF PostStrategy
<1>13. CASE DeleteStrategy(s)
  <2>1. ASSUME NEW old \in strategies, strategies' = strategies \ {old},
               NEW next \in {IF syncs[s].listed = {old.id} THEN "switch" ELSE "delete", "FAILED"},
               syncs' = [syncs EXCEPT ![s].at = next, ![s].listed = @ \ {old.id}],
               UNCHANGED <<flag, switched, newest>>
        PROVE  CopyTypeOK'
    <3>1. next \in Now  BY <2>1
    <3>2. PICK l \in SUBSET Nat : l = syncs[s].listed \ {old.id}  BY <1>1
    <3>3. syncs' = [syncs EXCEPT ![s].at = next, ![s].listed = l]
      BY <2>1, <3>2 DEF CopyTypeOK, Run
    <3>4. syncs' \in [Syncs -> Run]  BY <1>1, <3>1, <3>3, MovesRun DEF Moves
    <3> QED  BY <1>4, <2>1, <3>4 DEF CopyTypeOK
  <2> QED  BY <1>5, <1>13, <2>1 DEF DeleteStrategy
<1>14. CASE SwitchEnvironment(s)
  <2>1. CASE /\ switched' = On[syncs[s].plan]
             /\ \E next \in {"SYNCED", "FAILED"} : Goes(s, next)
             /\ UNCHANGED <<flag, strategies, newest>>
    <3>1. PICK next \in Now : Goes(s, next)  BY <2>1
    <3>2. syncs' \in [Syncs -> Run]  BY <3>1, GoesOn DEF Moves
    <3> QED  BY <1>2, <1>4, <2>1, <3>2 DEF CopyTypeOK
  <2> QED  BY <1>5, <1>14, <2>1 DEF SwitchEnvironment
<1> QED  BY <1>6, <1>7, <1>8, <1>9, <1>10, <1>11, <1>12, <1>13, <1>14 DEF SyncCall

LEMMA CopyTypeStep ==
  ASSUME CopyTypeOK, [CopyNext]_copyVars
  PROVE  CopyTypeOK'
<1> USE NowIs
<1>0. syncs \in [Syncs -> Run]  BY DEF CopyTypeOK
<1>1. CASE NewRelease
  <2>1. deployed' \in Plan  BY <1>1, CopyConstants DEF NewRelease, CopyTypeOK, Plan
  <2> QED  BY <1>1, <2>1 DEF NewRelease, CopyTypeOK
<1>2. CASE CopyCrash
  <2>1. syncs' \in [Syncs -> Run]  BY <1>0, <1>2 DEF CopyCrash, Run, Now
  <2> QED  BY <1>2, <2>1 DEF CopyCrash, CopyTypeOK
<1>3. CASE ByHand
  <2>1. syncs' \in [Syncs -> Run]  BY <1>0, <1>3 DEF ByHand, Run
  <2>2. hands' \in Nat /\ UNCHANGED <<deployed, starts>>  BY <1>3 DEF ByHand, CopyTypeOK
  <2>3. /\ flag' \in {"NONE", "LIVE", "ARCHIVED"} /\ switched' \in BOOLEAN
        /\ cut' \in BOOLEAN /\ newest' \in Nat
    <3>1. CASE HandSwitch  BY <3>1 DEF HandSwitch, CopyTypeOK
    <3>2. CASE HandArchive \/ HandAdd  BY <3>2 DEF HandArchive, HandAdd, CopyTypeOK
    <3>3. CASE HandEdit \/ HandDelete  BY <3>3 DEF HandEdit, HandDelete, CopyTypeOK
    <3> QED  BY <1>3, <3>1, <3>2, <3>3 DEF ByHand
  <2>4. \A x \in strategies : x.id \in Nat /\ x.nr \in Nat  BY DEF CopyTypeOK
  <2>5. newest \in Nat /\ newest + 1 \in Nat  BY DEF CopyTypeOK
  <2>6. strategies' \subseteq [id: Nat, plan: Plan \cup {NoPlan}, nr: Nat]
    <3>1. CASE HandAdd  BY <2>5, <3>1, StrategyMade DEF HandAdd
    <3>2. CASE HandEdit
      <4>1. PICK x \in strategies :
              strategies' = (strategies \ {x}) \cup {Strategy(x.id, NoPlan, x.nr)}
        BY <3>2 DEF HandEdit
      <4> QED  BY <2>4, <4>1, StrategyMade
    <3>3. CASE HandSwitch \/ HandArchive \/ HandDelete
      BY <3>3 DEF HandSwitch, HandArchive, HandDelete, CopyTypeOK
    <3> QED  BY <1>3, <3>1, <3>2, <3>3 DEF ByHand
  <2> QED  BY <2>1, <2>2, <2>3, <2>6 DEF CopyTypeOK
<1>4. ASSUME NEW s \in Syncs, StartSync(s)  PROVE  CopyTypeOK'
  <2>1. deployed \in Plan  BY DEF CopyTypeOK
  <2>2. [plan |-> deployed, at |-> "ensure", made |-> 0, listed |-> {},
         alone |-> \A u \in Syncs : syncs[u].at \in Ended] \in Run
    BY <2>1 DEF Run, Now
  <2>3. \A t \in Syncs : [syncs[t] EXCEPT !.alone = FALSE] \in Run  BY <1>0 DEF Run
  <2>4. syncs' \in [Syncs -> Run]  BY <1>4, <2>2, <2>3 DEF StartSync
  <2> QED  BY <1>4, <2>4 DEF StartSync, CopyTypeOK
<1>5. ASSUME NEW s \in Syncs, SyncCall(s)  PROVE  CopyTypeOK'
  BY <1>5, CallTyped
<1>6. CASE UNCHANGED copyVars
  BY <1>6 DEF copyVars, CopyTypeOK
<1> QED  BY <1>1, <1>2, <1>3, <1>4, <1>5, <1>6 DEF CopyNext

LEMMA CopyTypeInit == CopyInit => CopyTypeOK
<1> USE NowIs
<1>1. 1 \in Plan  BY CopyConstants DEF Plan
<1>2. [plan |-> 1, at |-> "idle", made |-> 0, listed |-> {}, alone |-> FALSE] \in Run
  BY <1>1 DEF Run, Now
<1>3. ASSUME CopyInit  PROVE  syncs \in [Syncs -> Run]  BY <1>2, <1>3 DEF CopyInit
<1>4. ASSUME CopyInit
      PROVE  flag = "NONE" /\ switched = FALSE /\ cut = FALSE /\ strategies = {}
             /\ newest = 0 /\ starts = 0 /\ hands = 0 /\ deployed = 1
  BY <1>4 DEF CopyInit
<1> QED  BY <1>1, <1>3, <1>4 DEF CopyTypeOK

\* Each run, strategy and counter of a copy has its form.
THEOREM CopyTyped == CopySpec => []CopyTypeOK
<1> QED  BY CopyTypeInit, CopyTypeStep, PTL DEF CopySpec

-----------------------------------------------------------------------------
\* How the strategies change: one is replaced under its id, made, or taken away.
Replaces(old, new) ==
  old \in strategies /\ new.id = old.id /\ strategies' = (strategies \ {old}) \cup {new}
  /\ newest' = newest
Makes(new) ==
  flag = "LIVE" /\ new.id = newest + 1 /\ strategies' = strategies \cup {new}
  /\ newest' = newest + 1
Removes(old) ==
  old \in strategies /\ strategies' = strategies \ {old} /\ newest' = newest
  /\ (old.id # newest \/ cut')

ServerStep ==
  /\ flag' = "NONE" => flag = "NONE"
  /\ cut => cut'
  /\ \/ strategies' = strategies /\ newest' = newest
     \/ flag = "NONE" /\ strategies' = {} /\ newest' = newest
     \/ \E old, new : Replaces(old, new)
     \/ \E new : Makes(new)
     \/ \E old : Removes(old)

LEMMA CallServer ==
  ASSUME CopyTypeOK, ListsOld, NEW s \in Syncs, SyncCall(s)
  PROVE  ServerStep
<1>1. UNCHANGED cut  BY DEF SyncCall
<1>2. ASSUME UNCHANGED <<flag, switched, strategies, newest>>  PROVE  ServerStep
  BY <1>1, <1>2 DEF ServerStep
<1>3. CASE GetFlag(s) \/ Prepare(s) \/ ListStrategies(s)
  BY <1>2, <1>3 DEF GetFlag, Prepare, ListStrategies
<1>4. CASE CreateFlag(s)  BY <1>1, <1>2, <1>4 DEF CreateFlag, ServerStep
<1>5. CASE ReviveFlag(s)  BY <1>1, <1>2, <1>5 DEF ReviveFlag, Refused, ServerStep
<1>6. CASE PutStrategy(s)
  <2>1. ASSUME NEW old \in strategies, UNCHANGED <<flag, newest>>,
               strategies' = (strategies \ {old}) \cup {Strategy(old.id, syncs[s].plan, 1)}
        PROVE  ServerStep
    <3>1. Replaces(old, Strategy(old.id, syncs[s].plan, 1))  BY <2>1 DEF Replaces, Strategy
    <3> QED  BY <1>1, <2>1, <3>1 DEF ServerStep
  <2> QED  BY <1>2, <1>6, <2>1 DEF PutStrategy, Refused
<1>7. CASE PostStrategy(s)
  <2>1. ASSUME flag = "LIVE", newest' = newest + 1, UNCHANGED flag,
               strategies' = strategies
                 \cup {Strategy(newest + 1, syncs[s].plan, syncs[s].made + 1)}
        PROVE  ServerStep
    <3>1. Makes(Strategy(newest + 1, syncs[s].plan, syncs[s].made + 1))
      BY <2>1 DEF Makes, Strategy
    <3> QED  BY <1>1, <2>1, <3>1 DEF ServerStep
  <2> QED  BY <1>2, <1>7, <2>1 DEF PostStrategy, Refused
<1>8. CASE DeleteStrategy(s)
  <2>1. ASSUME NEW old \in strategies, UNCHANGED <<flag, newest>>,
               old.id \in ToDelete(syncs[s]), strategies' = strategies \ {old}
        PROVE  ServerStep
    <3>1. newest \notin syncs[s].listed  BY <1>8 DEF DeleteStrategy, ListsOld
    <3>2. Removes(old)  BY <2>1, <3>1 DEF Removes, ToDelete
    <3> QED  BY <1>1, <2>1, <3>2 DEF ServerStep
  <2> QED  BY <1>2, <1>8, <2>1 DEF DeleteStrategy, Refused
<1>9. CASE SwitchEnvironment(s)
  BY <1>1, <1>9 DEF SwitchEnvironment, Refused, ServerStep
<1> QED  BY <1>3, <1>4, <1>5, <1>6, <1>7, <1>8, <1>9 DEF SyncCall

LEMMA AnyServerStep ==
  ASSUME CopyTypeOK, ListsOld, [CopyNext]_copyVars
  PROVE  ServerStep
<1>1. ASSUME UNCHANGED <<flag, strategies, newest, cut>>  PROVE  ServerStep
  BY <1>1 DEF ServerStep
<1>2. CASE NewRelease \/ CopyCrash \/ UNCHANGED copyVars
      \/ \E s \in Syncs : StartSync(s)
  BY <1>1, <1>2 DEF NewRelease, CopyCrash, StartSync, copyVars
<1>3. CASE ByHand
  <2>1. flag = "LIVE"  BY <1>3 DEF ByHand
  <2>2. CASE HandSwitch  BY <1>1, <2>2 DEF HandSwitch
  <2>3. CASE HandArchive  BY <2>3 DEF HandArchive, ServerStep
  <2>4. CASE HandAdd
    <3>1. Makes(Strategy(newest + 1, NoPlan, 1))  BY <2>1, <2>4 DEF HandAdd, Makes, Strategy
    <3> QED  BY <2>4, <3>1 DEF HandAdd, ServerStep
  <2>5. CASE HandEdit
    <3>1. PICK x \in strategies :
            strategies' = (strategies \ {x}) \cup {Strategy(x.id, NoPlan, x.nr)}
      BY <2>5 DEF HandEdit
    <3>2. Replaces(x, Strategy(x.id, NoPlan, x.nr))
      BY <2>5, <3>1 DEF HandEdit, Replaces, Strategy
    <3> QED  BY <2>5, <3>2 DEF HandEdit, ServerStep
  <2>6. CASE HandDelete
    <3>1. PICK x \in strategies : strategies' = strategies \ {x}  BY <2>6 DEF HandDelete
    <3>2. Removes(x)  BY <2>6, <3>1 DEF HandDelete, Removes
    <3> QED  BY <2>6, <3>2 DEF HandDelete, ServerStep
  <2> QED  BY <1>3, <2>2, <2>3, <2>4, <2>5, <2>6 DEF ByHand
<1>4. CASE \E s \in Syncs : SyncCall(s)  BY <1>4, CallServer
<1> QED  BY <1>2, <1>3, <1>4 DEF CopyNext

LEMMA OneEachStep ==
  ASSUME CopyTypeOK, OneEach, ServerStep, newest' \in Nat
  PROVE  OneEach'
<1>1. newest \in Nat /\ \A x \in strategies : x.id \in 1..newest
  BY DEF CopyTypeOK, OneEach
<1>2. \A x, y \in strategies : x.id = y.id => x = y  BY DEF OneEach
<1>3. flag = "NONE" => strategies = {} /\ newest = 0  BY <1>1 DEF OneEach
<1>4. flag' = "NONE" => flag = "NONE"  BY DEF ServerStep
<1>5. CASE strategies' = strategies /\ newest' = newest
  BY <1>4, <1>5 DEF OneEach
<1>6. CASE flag = "NONE" /\ strategies' = {} /\ newest' = newest
  BY <1>3, <1>6 DEF OneEach
<1>7. ASSUME NEW old, NEW new, Replaces(old, new)  PROVE  OneEach'
  <2>1. /\ old \in strategies /\ new.id = old.id /\ newest' = newest
        /\ strategies' = (strategies \ {old}) \cup {new}
    BY <1>7 DEF Replaces
  <2>2. \A x \in strategies' : x.id \in 1..newest  BY <1>1, <2>1
  <2>3. \A x, y \in strategies' : x.id = y.id => x = y  BY <1>2, <2>1
  <2> QED  BY <1>3, <1>4, <2>1, <2>2, <2>3 DEF OneEach
<1>8. ASSUME NEW new, Makes(new)  PROVE  OneEach'
  <2>1. /\ flag = "LIVE" /\ new.id = newest + 1 /\ newest' = newest + 1
        /\ strategies' = strategies \cup {new}
    BY <1>8 DEF Makes
  <2>2. \A x \in strategies' : x.id \in 1..newest'  BY <1>1, <2>1
  <2>3. \A x \in strategies : x.id # newest + 1  BY <1>1
  <2>4. \A x, y \in strategies' : x.id = y.id => x = y  BY <1>2, <2>1, <2>3
  <2> QED  BY <1>4, <2>1, <2>2, <2>4 DEF OneEach
<1>9. ASSUME NEW old, Removes(old)  PROVE  OneEach'
  BY <1>1, <1>2, <1>3, <1>4, <1>9 DEF Removes, OneEach
<1> QED  BY <1>5, <1>6, <1>7, <1>8, <1>9 DEF ServerStep

LEMMA NewestStep ==
  ASSUME CopyTypeOK, OneEach, NewestStays, ServerStep
  PROVE  NewestStays'
<1>1. SUFFICES ASSUME newest' > 0, ~ cut'  PROVE  newest' \in Ids'
  BY DEF NewestStays
<1>2. newest \in Nat /\ ~ cut  BY <1>1 DEF ServerStep, CopyTypeOK
<1>3. ASSUME newest' = newest  PROVE  \E x \in strategies : x.id = newest
  BY <1>1, <1>2, <1>3 DEF NewestStays, Ids
<1>4. SUFFICES \E x \in strategies' : x.id = newest'  BY DEF Ids
<1>5. CASE strategies' = strategies /\ newest' = newest  BY <1>3, <1>5
<1>6. CASE flag = "NONE" /\ strategies' = {} /\ newest' = newest
  BY <1>1, <1>6 DEF OneEach
<1>7. ASSUME NEW old, NEW new, Replaces(old, new)
      PROVE  \E x \in strategies' : x.id = newest'
  BY <1>3, <1>7 DEF Replaces
<1>8. ASSUME NEW new, Makes(new)  PROVE  \E x \in strategies' : x.id = newest'
  BY <1>8 DEF Makes
<1>9. ASSUME NEW old, Removes(old)  PROVE  \E x \in strategies' : x.id = newest'
  BY <1>1, <1>3, <1>9 DEF Removes
<1> QED  BY <1>5, <1>6, <1>7, <1>8, <1>9 DEF ServerStep

-----------------------------------------------------------------------------
\* What a step does to the list of run t.
ListStep(t) ==
  \/ /\ syncs'[t].listed \subseteq syncs[t].listed
     /\ syncs'[t].at = "delete" => syncs[t].at = "delete" \/ newest' = newest + 1
  \/ /\ syncs'[t].listed = Ids /\ syncs'[t].at # "delete"
     /\ strategies' = strategies /\ newest' = newest

LEMMA ListsOldStep ==
  ASSUME CopyTypeOK, OneEach, ListsOld, ServerStep, \A t \in Syncs : ListStep(t)
  PROVE  ListsOld'
<1>1. newest \in Nat /\ newest' \in Nat /\ newest' \in {newest, newest + 1}
  BY DEF ServerStep, CopyTypeOK, Replaces, Makes, Removes
<1>2. Ids \subseteq 1..newest  BY DEF OneEach, Ids
<1>3. SUFFICES ASSUME NEW t \in Syncs
               PROVE  /\ syncs'[t].listed \subseteq 1..newest'
                      /\ syncs'[t].at = "delete" => newest' \notin syncs'[t].listed
  BY DEF ListsOld
<1>4. /\ syncs[t].listed \subseteq 1..newest
      /\ syncs[t].at = "delete" => newest \notin syncs[t].listed
  BY DEF ListsOld
<1>5. CASE syncs'[t].listed = Ids /\ syncs'[t].at # "delete" /\ newest' = newest
  BY <1>2, <1>5
<1>6. CASE /\ syncs'[t].listed \subseteq syncs[t].listed
           /\ syncs'[t].at = "delete" => syncs[t].at = "delete" \/ newest' = newest + 1
  <2>1. 1..newest \subseteq 1..newest'  BY <1>1
  <2>2. ASSUME newest' = newest + 1  PROVE  newest' \notin 1..newest  BY <1>1, <2>2
  <2> QED  BY <1>1, <1>4, <1>6, <2>1, <2>2
<1> QED  BY <1>5, <1>6 DEF ListStep

\* A run that keeps its list and does not come to its deletions.
LEMMA GoesLists ==
  ASSUME CopyTypeOK, NEW s \in Syncs, NEW now \in Now, Goes(s, now), now # "delete"
  PROVE  \A t \in Syncs : ListStep(t)
<1>1. Moves(s, now, syncs[s].made, syncs[s].listed)  BY GoesOn
<1>2. ListStep(s)  BY <1>1 DEF Moves, ListStep
<1>3. \A t \in Syncs : t # s => ListStep(t)  BY <1>1 DEF Moves, ListStep
<1> QED  BY <1>2, <1>3

LEMMA PostMoves ==
  ASSUME CopyTypeOK, NEW s \in Syncs, NEW now \in Now,
         syncs' = [syncs EXCEPT ![s].at = now, ![s].made = @ + 1]
  PROVE  Moves(s, now, syncs[s].made + 1, syncs[s].listed)
<1>1. syncs[s].made \in Nat /\ syncs[s].listed \in SUBSET Nat  BY DEF CopyTypeOK, Run
<1>2. PICK m \in Nat : m = syncs[s].made + 1  BY <1>1
<1>3. syncs' = [syncs EXCEPT ![s].at = now, ![s].made = m]  BY <1>2 DEF CopyTypeOK, Run
<1> QED  BY <1>1, <1>2, <1>3, MovesRun

LEMMA DeleteMoves ==
  ASSUME CopyTypeOK, NEW s \in Syncs, NEW now \in Now, NEW id,
         syncs' = [syncs EXCEPT ![s].at = now, ![s].listed = @ \ {id}]
  PROVE  Moves(s, now, syncs[s].made, syncs[s].listed \ {id})
<1>1. syncs[s].made \in Nat /\ syncs[s].listed \in SUBSET Nat  BY DEF CopyTypeOK, Run
<1>2. PICK l \in SUBSET Nat : l = syncs[s].listed \ {id}  BY <1>1
<1>3. syncs' = [syncs EXCEPT ![s].at = now, ![s].listed = l]  BY <1>2 DEF CopyTypeOK, Run
<1> QED  BY <1>1, <1>2, <1>3, MovesRun

LEMMA ListMoves ==
  ASSUME CopyTypeOK, NEW s \in Syncs, NEW now \in Now,
         syncs' = [syncs EXCEPT ![s].listed = Ids, ![s].at = now]
  PROVE  Moves(s, now, syncs[s].made, Ids)
<1>1. syncs[s].made \in Nat  BY DEF CopyTypeOK, Run
<1>2. Ids \in SUBSET Nat  BY DEF CopyTypeOK, Ids
<1> QED  BY <1>1, <1>2, MovesRun

LEMMA CallLists ==
  ASSUME CopyTypeOK, NEW s \in Syncs, SyncCall(s)
  PROVE  \A t \in Syncs : ListStep(t)
<1> USE NowIs
<1>1. CASE Refused(s)  BY <1>1, GoesLists DEF Refused
<1>2. CASE GetFlag(s) \/ CreateFlag(s) \/ ReviveFlag(s) \/ Prepare(s) \/ PutStrategy(s)
           \/ SwitchEnvironment(s)
  <2>1. \E now \in Now \ {"delete"} : Goes(s, now)
    BY <1>2 DEF GetFlag, CreateFlag, ReviveFlag, Prepare, PutStrategy, SwitchEnvironment,
                Refused
  <2> QED  BY <2>1, GoesLists
<1>3. CASE ListStrategies(s)
  <2>1. CASE Goes(s, "FAILED")  BY <2>1, GoesLists
  <2>2. CASE \E now \in Now \ {"delete"} :
               syncs' = [syncs EXCEPT ![s].listed = Ids, ![s].at = now]
    <3>1. PICK now \in Now \ {"delete"} :
            syncs' = [syncs EXCEPT ![s].listed = Ids, ![s].at = now]
      BY <2>2
    <3>2. Moves(s, now, syncs[s].made, Ids)  BY <3>1, ListMoves
    <3>3. ListStep(s)  BY <1>3, <3>2 DEF Moves, ListStep, ListStrategies
    <3>4. \A t \in Syncs : t # s => ListStep(t)  BY <3>2 DEF Moves, ListStep
    <3> QED  BY <3>3, <3>4
  <2> QED  BY <1>3, <2>1, <2>2 DEF ListStrategies
<1>4. CASE PostStrategy(s)
  <2>1. ASSUME NEW now \in {AfterPost(syncs[s]), "FAILED"}, newest' = newest + 1,
               syncs' = [syncs EXCEPT ![s].at = now, ![s].made = @ + 1]
        PROVE  \A t \in Syncs : ListStep(t)
    <3>1. now \in Now  BY DEF AfterPost
    <3>2. Moves(s, now, syncs[s].made + 1, syncs[s].listed)  BY <2>1, <3>1, PostMoves
    <3>3. ListStep(s)  BY <2>1, <3>2 DEF Moves, ListStep
    <3>4. \A t \in Syncs : t # s => ListStep(t)  BY <3>2 DEF Moves, ListStep
    <3> QED  BY <3>3, <3>4
  <2> QED  BY <1>1, <1>4, <2>1 DEF PostStrategy
<1>5. CASE DeleteStrategy(s)
  <2>1. ASSUME NEW old \in strategies,
               NEW now \in {IF syncs[s].listed = {old.id} THEN "switch" ELSE "delete", "FAILED"},
               syncs' = [syncs EXCEPT ![s].at = now, ![s].listed = @ \ {old.id}]
        PROVE  \A t \in Syncs : ListStep(t)
    <3>1. Moves(s, now, syncs[s].made, syncs[s].listed \ {old.id})  BY <2>1, DeleteMoves
    <3>2. syncs[s].at = "delete"  BY <1>5 DEF DeleteStrategy
    <3>3. ListStep(s)  BY <3>1, <3>2 DEF Moves, ListStep
    <3>4. \A t \in Syncs : t # s => ListStep(t)  BY <3>1 DEF Moves, ListStep
    <3> QED  BY <3>3, <3>4
  <2> QED  BY <1>1, <1>5, <2>1 DEF DeleteStrategy
<1> QED  BY <1>2, <1>3, <1>4, <1>5 DEF SyncCall

LEMMA AnyLists ==
  ASSUME CopyTypeOK, [CopyNext]_copyVars
  PROVE  \A t \in Syncs : ListStep(t)
<1>0. syncs \in [Syncs -> Run]  BY DEF CopyTypeOK
<1>1. CASE NewRelease \/ UNCHANGED copyVars
  BY <1>1 DEF NewRelease, copyVars, ListStep
<1>2. CASE CopyCrash
  <2> TAKE t \in Syncs
  <2>1. syncs'[t].listed = syncs[t].listed /\ (syncs'[t] = syncs[t] \/ syncs'[t].at = "LOST")
    BY <1>0, <1>2 DEF CopyCrash, Run
  <2> QED  BY <2>1 DEF ListStep
<1>3. CASE ByHand
  <2> TAKE t \in Syncs
  <2>1. syncs'[t].listed = syncs[t].listed /\ syncs'[t].at = syncs[t].at
    BY <1>0, <1>3 DEF ByHand, Run
  <2> QED  BY <2>1 DEF ListStep
<1>4. ASSUME NEW s \in Syncs, StartSync(s)  PROVE  \A t \in Syncs : ListStep(t)
  <2> TAKE t \in Syncs
  <2>1. CASE t = s
    <3>1. syncs'[t].listed = {} /\ syncs'[t].at = "ensure"  BY <1>4, <2>1 DEF StartSync
    <3> QED  BY <3>1 DEF ListStep
  <2>2. CASE t # s
    <3>1. syncs'[t] = [syncs[t] EXCEPT !.alone = FALSE]  BY <1>4, <2>2 DEF StartSync
    <3>2. syncs'[t].listed = syncs[t].listed /\ syncs'[t].at = syncs[t].at
      BY <1>0, <3>1 DEF Run
    <3> QED  BY <3>2 DEF ListStep
  <2> QED  BY <2>1, <2>2
<1>5. CASE \E s \in Syncs : SyncCall(s)  BY <1>5, CallLists
<1> QED  BY <1>1, <1>2, <1>3, <1>4, <1>5 DEF CopyNext

-----------------------------------------------------------------------------
\* A run under way by itself is the only one that can touch the server.
LEMMA OnlyOne ==
  ASSUME AloneOnCourse, NEW s \in Syncs, syncs[s].at \in UnderWay,
         NEW t \in Syncs, syncs[t].alone
  PROVE  t = s
<1>1. "idle" \notin UnderWay /\ "SYNCED" \notin UnderWay /\ "FAILED" \notin UnderWay
      /\ "LOST" \notin UnderWay
  BY DEF UnderWay
<1> QED  BY <1>1 DEF AloneOnCourse, Ended

\* When only s moves, it is enough that s is where it should be.
LEMMA AloneByMove ==
  ASSUME CopyTypeOK, AloneOnCourse, NEW s \in Syncs, syncs[s].at \in UnderWay,
         NEW now, NEW made, NEW listed, Moves(s, now, made, listed),
         syncs[s].alone => OnCourse(syncs[s])'
  PROVE  AloneOnCourse'
<1>1. SUFFICES ASSUME NEW t \in Syncs, syncs'[t].alone
               PROVE  /\ OnCourse(syncs[t])'
                      /\ \A u \in Syncs \ {t} : syncs'[u].at \in Ended
  BY DEF AloneOnCourse
<1>2. syncs'[s].alone = syncs[s].alone /\ \A u \in Syncs : u # s => syncs'[u] = syncs[u]
  BY DEF Moves
<1>3. syncs[t].alone  BY <1>1, <1>2
<1>4. t = s  BY <1>3, OnlyOne
<1>5. \A u \in Syncs \ {s} : syncs[u].at \in Ended  BY <1>3, <1>4 DEF AloneOnCourse
<1> QED  BY <1>2, <1>3, <1>4, <1>5

\* A run that fails, or has not listed the strategies yet, is where it should be.
LEMMA EarlyMove ==
  ASSUME CopyTypeOK, AloneOnCourse, NEW s \in Syncs, syncs[s].at \in UnderWay,
         NEW now \in Now, Goes(s, now),
         \/ now = "FAILED"
         \/ /\ now \in {"create", "revive", "prepare", "list"}
            /\ syncs[s].at \in {"ensure", "create", "revive", "prepare"}
  PROVE  AloneOnCourse'
<1>1. Moves(s, now, syncs[s].made, syncs[s].listed)  BY GoesOn
<1>2. ASSUME syncs[s].alone  PROVE  OnCourse(syncs[s])'
  <2>1. OnCourse(syncs[s])  BY <1>2 DEF AloneOnCourse
  <2>2. syncs[s].at \in {"ensure", "create", "revive", "prepare"} => syncs[s].made = 0
    BY <2>1 DEF OnCourse
  <2> QED  BY <1>1, <2>2 DEF Moves, OnCourse
<1> QED  BY <1>1, <1>2, AloneByMove

LEMMA UnderWayIs ==
  {"ensure", "create", "revive", "prepare", "list", "put", "post", "delete", "switch"}
    = UnderWay
  BY DEF UnderWay

LEMMA AloneList ==
  ASSUME CopyTypeOK, AloneOnCourse, NEW s \in Syncs, ListStrategies(s)
  PROVE  AloneOnCourse'
<1> USE NowIs, UnderWayIs
<1>1. syncs[s].at = "list"  BY DEF ListStrategies
<1>2. CASE Goes(s, "FAILED")  BY <1>1, <1>2, EarlyMove
<1>3. CASE /\ flag = "LIVE"
           /\ syncs' = [syncs EXCEPT ![s].listed = Ids,
                                   ![s].at = IF OneForOne(syncs[s]) THEN "put" ELSE "post"]
  <2>1. PICK now \in Now : now = IF OneForOne(syncs[s]) THEN "put" ELSE "post"  OBVIOUS
  <2>2. Moves(s, now, syncs[s].made, Ids)  BY <1>3, <2>1, ListMoves
  <2>3. ASSUME syncs[s].alone  PROVE  OnCourse(syncs[s])'
    <3>1. syncs[s].made = 0  BY <1>1, <2>3 DEF AloneOnCourse, OnCourse
    <3>2. /\ syncs'[s].at = now /\ syncs'[s].made = 0 /\ syncs'[s].listed = Ids
          /\ syncs'[s].plan = syncs[s].plan
      BY <2>2, <3>1 DEF Moves
    <3>3. flag' = "LIVE" /\ strategies' = strategies  BY <1>3 DEF ListStrategies
    <3>4. Ids' = Ids  BY <3>3 DEF Ids
    <3>5. CASE now = "put"
      <4>1. OneForOne(syncs[s])  BY <2>1, <3>5
      <4> QED  BY <3>2, <3>3, <3>4, <3>5, <4>1 DEF OnCourse, OneForOne
    <3>6. CASE now = "post"
      <4>1. MadeSince(syncs[s])' = {}  BY <3>2, <3>3 DEF MadeSince, Ids
      <4>2. Holds(MadeSince(syncs[s]), syncs[s].plan, syncs[s].made)'
        <5>1. Holds({}, syncs'[s].plan, 0)  BY DEF Holds
        <5> QED  BY <3>2, <4>1, <5>1
      <4>3. Size[syncs[s].plan] \in Nat \ {0}  BY CopyConstants DEF CopyTypeOK, Run, Plan
      <4>4. 0 < Size[syncs[s].plan]  BY <4>3
      <4> QED  BY <3>2, <3>3, <3>6, <4>2, <4>4 DEF OnCourse
    <3> QED  BY <2>1, <3>5, <3>6
  <2> QED  BY <1>1, <2>2, <2>3, AloneByMove
<1> QED  BY <1>2, <1>3 DEF ListStrategies

LEMMA AlonePut ==
  ASSUME CopyTypeOK, OneEach, AloneOnCourse, NEW s \in Syncs, PutStrategy(s)
  PROVE  AloneOnCourse'
<1> USE NowIs, UnderWayIs
<1>1. syncs[s].at = "put"  BY DEF PutStrategy
<1>2. CASE Goes(s, "FAILED")  BY <1>1, <1>2, EarlyMove
<1>3. ASSUME NEW old \in strategies, flag = "LIVE", old.id \in syncs[s].listed,
             strategies' = (strategies \ {old}) \cup {Strategy(old.id, syncs[s].plan, 1)},
             Goes(s, "switch"), UNCHANGED flag
      PROVE  AloneOnCourse'
  <2>1. Moves(s, "switch", syncs[s].made, syncs[s].listed)  BY <1>3, GoesOn
  <2>2. ASSUME syncs[s].alone  PROVE  OnCourse(syncs[s])'
    <3>1. Size[syncs[s].plan] = 1 /\ \E id \in Ids : Ids = {id}
      BY <1>1, <2>2 DEF AloneOnCourse, OnCourse
    <3>2. \A x \in strategies : x.id = old.id  BY <3>1 DEF Ids
    <3>3. strategies = {old}  BY <3>2 DEF OneEach
    <3>4. strategies' = {Strategy(old.id, syncs[s].plan, 1)}  BY <1>3, <3>3
    <3>5. Holds(strategies', syncs[s].plan, 1)  BY <3>4 DEF Holds, Strategy
    <3>6. syncs'[s].at = "switch" /\ syncs'[s].plan = syncs[s].plan  BY <2>1 DEF Moves
    <3>7. Holds(strategies, syncs[s].plan, Size[syncs[s].plan])'  BY <3>1, <3>5, <3>6
    <3> QED  BY <1>3, <3>6, <3>7 DEF OnCourse
  <2> QED  BY <1>1, <2>1, <2>2, AloneByMove
<1> QED  BY <1>2, <1>3 DEF PutStrategy, Refused

LEMMA AlonePost ==
  ASSUME CopyTypeOK, ListsOld, AloneOnCourse, NEW s \in Syncs, PostStrategy(s)
  PROVE  AloneOnCourse'
<1> USE NowIs, UnderWayIs
<1>1. syncs[s].at = "post"  BY DEF PostStrategy
<1>2. CASE Goes(s, "FAILED")  BY <1>1, <1>2, EarlyMove
<1>3. ASSUME flag = "LIVE", NEW now \in {AfterPost(syncs[s]), "FAILED"},
             strategies' = strategies
               \cup {Strategy(newest + 1, syncs[s].plan, syncs[s].made + 1)},
             syncs' = [syncs EXCEPT ![s].at = now, ![s].made = @ + 1], UNCHANGED flag
      PROVE  AloneOnCourse'
  <2>1. now \in Now  BY DEF AfterPost
  <2>2. Moves(s, now, syncs[s].made + 1, syncs[s].listed)  BY <1>3, <2>1, PostMoves
  <2>3. ASSUME syncs[s].alone, now # "FAILED"  PROVE  OnCourse(syncs[s])'
    <3> DEFINE new == Strategy(newest + 1, syncs[s].plan, syncs[s].made + 1)
    <3>1. syncs[s].made \in Nat /\ Size[syncs[s].plan] \in Nat
      BY CopyConstants DEF CopyTypeOK, Run, Plan
    <3>2. /\ syncs[s].made < Size[syncs[s].plan]
          /\ Holds(MadeSince(syncs[s]), syncs[s].plan, syncs[s].made)
      BY <1>1, <2>3 DEF AloneOnCourse, OnCourse
    <3>3. new.id \notin syncs[s].listed
      <4>1. newest \in Nat /\ newest + 1 \notin 1..newest  BY DEF CopyTypeOK
      <4> QED  BY <4>1 DEF ListsOld, Strategy
    <3>4. /\ syncs'[s].at = now /\ syncs'[s].made = syncs[s].made + 1
          /\ syncs'[s].listed = syncs[s].listed /\ syncs'[s].plan = syncs[s].plan
      BY <2>2 DEF Moves
    <3>5. MadeSince(syncs[s])' = MadeSince(syncs[s]) \cup {new}
      BY <1>3, <3>3, <3>4 DEF MadeSince
    <3>6. Holds(MadeSince(syncs[s]) \cup {new}, syncs[s].plan, syncs[s].made + 1)
      BY <3>1, <3>2, HoldsOneMore
    <3>7. Holds(MadeSince(syncs[s]), syncs[s].plan, syncs[s].made)'
      BY <3>4, <3>5, <3>6
    <3>8. now = AfterPost(syncs[s]) /\ flag' = "LIVE"  BY <1>3, <2>3
    <3>9. CASE syncs[s].made + 1 < Size[syncs[s].plan]
      <4>1. now = "post"  BY <3>8, <3>9 DEF AfterPost
      <4> QED  BY <3>4, <3>7, <3>8, <3>9, <4>1 DEF OnCourse
    <3>10. CASE ~ (syncs[s].made + 1 < Size[syncs[s].plan])
      <4>1. syncs[s].made + 1 = Size[syncs[s].plan]  BY <3>1, <3>2, <3>10
      <4>2. Holds(MadeSince(syncs[s]), syncs[s].plan, Size[syncs[s].plan])'
        BY <3>4, <3>7, <4>1
      <4>3. CASE syncs[s].listed = {}
        <5>1. now = "switch"  BY <3>8, <3>10, <4>3 DEF AfterPost
        <5>2. MadeSince(syncs[s])' = strategies'  BY <3>4, <4>3 DEF MadeSince
        <5>3. Holds(strategies, syncs[s].plan, Size[syncs[s].plan])'  BY <4>2, <5>2
        <5> QED  BY <3>4, <3>8, <5>1, <5>3 DEF OnCourse
      <4>4. CASE syncs[s].listed # {}
        <5>1. now = "delete"  BY <3>8, <3>10, <4>4 DEF AfterPost
        <5> QED  BY <3>4, <3>8, <4>2, <5>1 DEF OnCourse
      <4> QED  BY <4>3, <4>4
    <3> QED  BY <3>9, <3>10
  <2>4. ASSUME now = "FAILED"  PROVE  OnCourse(syncs[s])'
    BY <2>2, <2>4 DEF Moves, OnCourse
  <2> QED  BY <1>1, <2>2, <2>3, <2>4, AloneByMove
<1> QED  BY <1>2, <1>3 DEF PostStrategy, Refused

LEMMA AloneDelete ==
  ASSUME CopyTypeOK, OneEach, AloneOnCourse, NEW s \in Syncs, DeleteStrategy(s)
  PROVE  AloneOnCourse'
<1> USE NowIs, UnderWayIs
<1>1. syncs[s].at = "delete"  BY DEF DeleteStrategy
<1>2. CASE Goes(s, "FAILED")  BY <1>1, <1>2, EarlyMove
<1>3. ASSUME NEW old \in strategies, flag = "LIVE", old.id \in syncs[s].listed,
             strategies' = strategies \ {old}, UNCHANGED flag,
             NEW now \in {IF syncs[s].listed = {old.id} THEN "switch" ELSE "delete", "FAILED"},
             syncs' = [syncs EXCEPT ![s].at = now, ![s].listed = @ \ {old.id}]
      PROVE  AloneOnCourse'
  <2>1. Moves(s, now, syncs[s].made, syncs[s].listed \ {old.id})  BY <1>3, DeleteMoves
  <2>2. /\ syncs'[s].at = now /\ syncs'[s].plan = syncs[s].plan
        /\ syncs'[s].listed = syncs[s].listed \ {old.id}
    BY <2>1 DEF Moves
  <2>3. ASSUME syncs[s].alone, now # "FAILED"  PROVE  OnCourse(syncs[s])'
    <3>1. Holds(MadeSince(syncs[s]), syncs[s].plan, Size[syncs[s].plan])
      BY <1>1, <2>3 DEF AloneOnCourse, OnCourse
    <3>2. \A x \in strategies : x # old => x.id # old.id  BY DEF OneEach
    <3>3. MadeSince(syncs[s])' = MadeSince(syncs[s])  BY <1>3, <2>2, <3>2 DEF MadeSince
    <3>4. Holds(MadeSince(syncs[s]), syncs[s].plan, Size[syncs[s].plan])'
      BY <2>2, <3>1, <3>3
    <3>5. CASE syncs[s].listed = {old.id}
      <4>1. now = "switch" /\ syncs'[s].listed = {}  BY <2>2, <2>3, <3>5
      <4>2. MadeSince(syncs[s])' = strategies'  BY <4>1 DEF MadeSince
      <4>3. Holds(strategies, syncs[s].plan, Size[syncs[s].plan])'  BY <3>4, <4>2
      <4> QED  BY <1>3, <2>2, <4>1, <4>3 DEF OnCourse
    <3>6. CASE syncs[s].listed # {old.id}
      <4>1. now = "delete"  BY <2>3, <3>6
      <4> QED  BY <1>3, <2>2, <3>4, <4>1 DEF OnCourse
    <3> QED  BY <3>5, <3>6
  <2>4. ASSUME now = "FAILED"  PROVE  OnCourse(syncs[s])'
    BY <2>1, <2>4 DEF Moves, OnCourse
  <2> QED  BY <1>1, <2>1, <2>3, <2>4, AloneByMove
<1> QED  BY <1>2, <1>3 DEF DeleteStrategy, Refused, ToDelete

LEMMA AloneSwitch ==
  ASSUME CopyTypeOK, AloneOnCourse, NEW s \in Syncs, SwitchEnvironment(s)
  PROVE  AloneOnCourse'
<1> USE NowIs, UnderWayIs
<1>1. syncs[s].at = "switch"  BY DEF SwitchEnvironment
<1>2. CASE Goes(s, "FAILED")  BY <1>1, <1>2, EarlyMove
<1>3. CASE /\ flag = "LIVE" /\ switched' = On[syncs[s].plan] /\ Goes(s, "SYNCED")
           /\ UNCHANGED <<flag, strategies>>
  <2>1. Moves(s, "SYNCED", syncs[s].made, syncs[s].listed)  BY <1>3, GoesOn
  <2>2. ASSUME syncs[s].alone  PROVE  OnCourse(syncs[s])'
    <3>1. Holds(strategies, syncs[s].plan, Size[syncs[s].plan])
      BY <1>1, <2>2 DEF AloneOnCourse, OnCourse
    <3>2. syncs'[s].at = "SYNCED" /\ syncs'[s].plan = syncs[s].plan  BY <2>1 DEF Moves
    <3>3. Holds(strategies, syncs[s].plan, Size[syncs[s].plan])'  BY <1>3, <3>1, <3>2
    <3> QED  BY <1>3, <3>2, <3>3 DEF OnCourse
  <2> QED  BY <1>1, <2>1, <2>2, AloneByMove
<1> QED  BY <1>2, <1>3 DEF SwitchEnvironment, Refused

LEMMA AloneCall ==
  ASSUME CopyTypeOK, OneEach, ListsOld, AloneOnCourse, NEW s \in Syncs, SyncCall(s)
  PROVE  AloneOnCourse'
<1> USE NowIs, UnderWayIs
<1>1. CASE GetFlag(s) \/ CreateFlag(s) \/ ReviveFlag(s) \/ Prepare(s)
  <2>1. syncs[s].at \in {"ensure", "create", "revive", "prepare"}
    BY <1>1 DEF GetFlag, CreateFlag, ReviveFlag, Prepare
  <2>2. \E now \in {"create", "revive", "prepare", "list", "FAILED"} : Goes(s, now)
    BY <1>1 DEF GetFlag, CreateFlag, ReviveFlag, Prepare, Refused
  <2> QED  BY <2>1, <2>2, EarlyMove
<1> QED  BY <1>1, AloneList, AlonePut, AlonePost, AloneDelete, AloneSwitch DEF SyncCall

LEMMA AloneStep ==
  ASSUME CopyTypeOK, OneEach, ListsOld, AloneOnCourse, [CopyNext]_copyVars
  PROVE  AloneOnCourse'
<1> USE NowIs, UnderWayIs
<1>0. syncs \in [Syncs -> Run]  BY DEF CopyTypeOK
<1>1. CASE NewRelease \/ UNCHANGED copyVars
  <2>1. UNCHANGED <<flag, switched, strategies, syncs>>  BY <1>1 DEF NewRelease, copyVars
  <2> QED  BY <2>1 DEF AloneOnCourse, OnCourse, MadeSince, Ids
<1>2. CASE CopyCrash
  <2>1. SUFFICES ASSUME NEW t \in Syncs, syncs'[t].alone
                 PROVE  OnCourse(syncs[t])' /\ \A u \in Syncs \ {t} : syncs'[u].at \in Ended
    BY DEF AloneOnCourse
  <2>2. \A u \in Syncs :
          \/ syncs'[u] = syncs[u] /\ syncs[u].at \notin UnderWay
          \/ syncs'[u].at = "LOST" /\ syncs'[u].alone = syncs[u].alone
    BY <1>0, <1>2 DEF CopyCrash, Run
  <2>3. OnCourse(syncs[t]) /\ \A u \in Syncs \ {t} : syncs[u].at \in Ended
    BY <2>1, <2>2 DEF AloneOnCourse
  <2>4. \A u \in Syncs \ {t} : syncs'[u].at \in Ended  BY <2>2, <2>3 DEF Ended
  <2>5. CASE syncs'[t].at = "LOST"  BY <2>4, <2>5 DEF OnCourse
  <2>6. CASE syncs'[t] = syncs[t]
    <3>1. UNCHANGED <<flag, switched, strategies>>  BY <1>2 DEF CopyCrash
    <3> QED  BY <2>3, <2>4, <2>6, <3>1 DEF OnCourse, MadeSince, Ids
  <2> QED  BY <2>2, <2>4, <2>5, <2>6
<1>3. CASE ByHand
  <2>1. \A t \in Syncs : syncs'[t].alone = FALSE  BY <1>0, <1>3 DEF ByHand, Run
  <2> QED  BY <2>1 DEF AloneOnCourse
<1>4. ASSUME NEW s \in Syncs, StartSync(s)  PROVE  AloneOnCourse'
  <2>1. SUFFICES ASSUME NEW t \in Syncs, syncs'[t].alone
                 PROVE  OnCourse(syncs[t])' /\ \A u \in Syncs \ {t} : syncs'[u].at \in Ended
    BY DEF AloneOnCourse
  <2>2. \A u \in Syncs \ {s} : syncs'[u].alone = FALSE /\ syncs'[u].at = syncs[u].at
    BY <1>0, <1>4 DEF StartSync, Run
  <2>3. t = s  BY <2>1, <2>2
  <2>4. /\ syncs'[s].at = "ensure" /\ syncs'[s].made = 0
        /\ syncs'[s].alone = \A u \in Syncs : syncs[u].at \in Ended
    BY <1>4 DEF StartSync
  <2>5. \A u \in Syncs : syncs[u].at \in Ended  BY <2>1, <2>3, <2>4
  <2> QED  BY <2>2, <2>3, <2>4, <2>5 DEF OnCourse
<1>5. CASE \E s \in Syncs : SyncCall(s)  BY <1>5, AloneCall
<1> QED  BY <1>1, <1>2, <1>3, <1>4, <1>5 DEF CopyNext

LEMMA CopyInvInit == CopyInit => CopyInv
<1> SUFFICES ASSUME CopyInit  PROVE  CopyInv  OBVIOUS
<1>1. CopyTypeOK  BY CopyTypeInit
<1>2. /\ strategies = {} /\ newest = 0
      /\ \A s \in Syncs : /\ syncs[s].at = "idle" /\ syncs[s].listed = {}
                          /\ syncs[s].alone = FALSE
  BY DEF CopyInit
<1>3. OneEach /\ ListsOld  BY <1>2 DEF OneEach, ListsOld
<1>4. NewestStays /\ AloneOnCourse  BY <1>2 DEF NewestStays, AloneOnCourse
<1> QED  BY <1>1, <1>3, <1>4 DEF CopyInv

LEMMA CopyInvStep ==
  ASSUME CopyInv, [CopyNext]_copyVars
  PROVE  CopyInv'
<1>1. CopyTypeOK /\ OneEach /\ ListsOld /\ NewestStays /\ AloneOnCourse  BY DEF CopyInv
<1>2. CopyTypeOK'  BY <1>1, CopyTypeStep
<1>3. ServerStep  BY <1>1, AnyServerStep
<1>4. newest' \in Nat  BY <1>2 DEF CopyTypeOK
<1>5. OneEach'  BY <1>1, <1>3, <1>4, OneEachStep
<1>6. ListsOld'  BY <1>1, <1>3, AnyLists, ListsOldStep
<1>7. NewestStays'  BY <1>1, <1>3, NewestStep
<1>8. AloneOnCourse'  BY <1>1, AloneStep
<1> QED  BY <1>2, <1>5, <1>6, <1>7, <1>8 DEF CopyInv

LEMMA CopyInvAlways == CopySpec => []CopyInv
<1> QED  BY CopyInvInit, CopyInvStep, PTL DEF CopySpec

\* However runs fail, overlap and crash, a flag that had a strategy keeps one; and a
\* run that was SYNCED by itself leaves its plan, whatever earlier runs left there.
THEOREM CopyAlwaysHolds == CopySpec => []CopyHolds
<1>1. CopyInv => NeverBare  BY DEF CopyInv, NewestStays, NeverBare, Ids
<1>2. CopyInv => SyncedIsPlan
  <2>1. SUFFICES ASSUME CopyInv, NEW s \in Syncs, syncs[s].at = "SYNCED", syncs[s].alone
                 PROVE  IsCopyOf(syncs[s].plan)
    BY DEF SyncedIsPlan
  <2>2. OnCourse(syncs[s])  BY <2>1 DEF CopyInv, AloneOnCourse
  <2> QED  BY <2>1, <2>2 DEF OnCourse, IsCopyOf
<1> QED  BY <1>1, <1>2, CopyInvAlways, PTL DEF CopyHolds
=============================================================================
