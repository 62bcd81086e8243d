--------------------------- MODULE VehicleRequests ---------------------------
(***************************************************************************)
(* The report channel of one vehicle (D02-03, IF-06).  A report carries    *)
(* the boot and the number the vehicle gave it, (vin, boot, sequence) is   *)
(* its idempotency key.  The handler commits what the report does together *)
(* with the cursor, awaits the evaluation of the vehicle's flags, and only *)
(* then stores the answer under the key: another request or a crash of the *)
(* platform can come in between.                                           *)
(*                                                                         *)
(* The network may lose, delay, repeat and reorder: every report ever sent *)
(* may arrive at any time.  The vehicle is external; as the header of      *)
(* rules/vehicle-requests.ts asks, it reconciles first: in a boot it sends *)
(* reports only after a HELLO of that boot has been answered.  Vehicles    *)
(* share no state of this channel, so one vehicle stands for all.  A body  *)
(* always has its own key here (the vehicle never reuses one).  A request  *)
(* refused for its identity, its order or the rate limit leaves no keyed   *)
(* record: to the rest of the state it is a lost message.  CONTEXT stands  *)
(* for FAULT, ATTESTATION and READBACK, which differ in what they publish. *)
(***************************************************************************)
EXTENDS Naturals, Sequences, FiniteSets, SequencesExt, FiniteSetsExt

CONSTANTS
  ReportTypes,         \* types of report in use
  ChannelPublications, \* bound: publications for this vehicle, 1 .. this
  MaxBoot,             \* bound: boots of the vehicle
  MaxReports,          \* bound: reports of one boot,
  MaxSent,             \*        and in all
  MaxApplied,          \* bound: reports that take effect
  MaxWorking           \* bound: handlers that await their evaluation

ASSUME RequestConstants ==
  /\ ReportTypes \subseteq {"HELLO", "CONTEXT", "TRIAL_ACCEPT", "OVERRIDE"}
  /\ {ChannelPublications, MaxBoot, MaxReports, MaxSent, MaxApplied,
      MaxWorking} \subseteq Nat /\ MaxBoot > 0

VARIABLES
  cursor,    \* vehicle_channel: last report position, or NoCursor
  records,   \* vehicle_request rows with a key: key -> [outcome, redeliver]
  working,   \* handlers past their commit that await the evaluation
  trial,     \* state of the trial grant the vehicle may accept
  applied,   \* keys in the order their reports took effect
  dispatched,\* publications no longer SIGNED
  stray,     \* reports without a stored answer when another boot took over
  boot,      \* the vehicle: current boot, number of its last report,
  number,
  sent,      \*   reports sent: key -> [type, highest, known],
  answered,  \*   its HELLOs that got ACCEPTED or DUPLICATE,
  highest    \*   and its highest publication

platformVars == <<cursor, records, working, trial, applied, dispatched,
                  stray>>
carVars == <<boot, number, sent, answered, highest>>
requestVars == <<platformVars, carVars>>

Key == [boot: 1..MaxBoot, sequence: 1..MaxReports]
NoCursor == [boot |-> 0, sequence |-> 0]
Answer == [outcome: {"ACCEPTED", "REJECTED"}, redeliver: SUBSET (1..ChannelPublications)]

IsHello(k) == sent[k].type = "HELLO"
Put(f, x, v) == [y \in DOMAIN f \cup {x} |-> IF y = x THEN v ELSE f[y]]

RequestInit ==
  /\ cursor = NoCursor
  /\ records = << >>
  /\ working = << >>
  /\ trial = "OFFERED"
  /\ applied = << >>
  /\ dispatched = {}
  /\ stray = {}
  /\ boot = 1
  /\ number = 0
  /\ sent = << >>
  /\ answered = {}
  /\ highest = 0

-----------------------------------------------------------------------------
(* The vehicle *)

SendReport(type) ==
  /\ number < MaxReports
  /\ Cardinality(DOMAIN sent) < MaxSent
  /\ type # "HELLO" => \E k \in answered : k.boot = boot
  /\ number' = number + 1
  /\ sent' = Put(sent, [boot |-> boot, sequence |-> number + 1],
                 [type |-> type,
                  highest |-> IF type = "HELLO" THEN highest ELSE 0,
                  known |-> IF type = "HELLO" THEN dispatched ELSE {}])
  /\ UNCHANGED <<platformVars, boot, answered, highest>>

Reboot ==
  /\ boot < MaxBoot
  /\ boot' = boot + 1
  /\ number' = 0
  /\ UNCHANGED <<platformVars, sent, answered, highest>>

\* The answer to k reaches the vehicle, or is lost.  A HELLO's answer carries
\* the publications it lacks; no other answer changes what the vehicle does.
Receive(k, redeliver) ==
  \/ UNCHANGED <<answered, highest>>
  \/ /\ IsHello(k)
     /\ answered' = answered \cup {k}
     /\ highest' = Max(redeliver \cup {highest})

-----------------------------------------------------------------------------
(* The platform *)

\* A publication for this vehicle is dispatched, and its live delivery fails
\* (one that succeeds only raises what the vehicle has).
DispatchTo(p) ==
  /\ p \notin dispatched
  /\ dispatched' = dispatched \cup {p}
  /\ UNCHANGED <<cursor, records, working, trial, applied, stray, carVars>>

\* Mutants of InOrder: any report opens another boot; the position the cursor is
\* at is accepted again.
InOrderAnyBoot(k) == cursor = NoCursor \/ k.boot # cursor.boot \/ k.sequence > cursor.sequence
InOrderAgain(k) ==
  \/ cursor = NoCursor
  \/ k.boot # cursor.boot /\ IsHello(k)
  \/ k.boot = cursor.boot /\ k.sequence >= cursor.sequence

\* checkReportOrder.
InOrder(k) ==
  \/ cursor = NoCursor
  \/ k.boot # cursor.boot /\ IsHello(k)
  \/ k.boot = cursor.boot /\ k.sequence > cursor.sequence

\* Mutant of MissingAt: the newest publication is left out.
MissingShort(k) == {p \in dispatched : p > sent[k].highest /\ \E q \in dispatched : q > p}

\* missing: dispatched publications for the vehicle above what it says it has.
MissingAt(k) == {p \in dispatched : p > sent[k].highest}

\* A retry of an answered key gets the stored answer, a refused one its refusal.
Replay(k) ==
  /\ k \in DOMAIN records
  /\ IF records[k].outcome = "ACCEPTED"
     THEN Receive(k, records[k].redeliver)
     ELSE UNCHANGED <<answered, highest>>
  /\ UNCHANGED <<cursor, records, working, trial, applied, dispatched, stray,
                 boot, number, sent>>

\* An OVERRIDE, or the acceptance of a trial that is not on offer.
BadContent(k) ==
  \/ sent[k].type = "OVERRIDE"
  \/ sent[k].type = "TRIAL_ACCEPT" /\ trial # "OFFERED"

\* Refused for its content, after the rollback of its transaction: the refusal
\* is stored under the key and the cursor stays.
RefuseContent(k) ==
  /\ k \notin DOMAIN records
  /\ InOrder(k)
  /\ BadContent(k)
  /\ records' = Put(records, k, [outcome |-> "REJECTED", redeliver |-> {}])
  /\ UNCHANGED <<cursor, working, trial, applied, dispatched, stray, carVars>>

\* Reports of other boots than b that were sent and have no stored answer.
Unsettled(b) == {k \in DOMAIN sent \ DOMAIN records : k.boot # b}

\* One transaction: what the report does, and the cursor.  Then the handler
\* awaits the evaluation.
Apply(k) ==
  /\ k \notin DOMAIN records
  /\ InOrder(k)
  /\ ~BadContent(k)
  /\ Len(working) < MaxWorking
  /\ Len(applied) < MaxApplied
  /\ trial' = IF sent[k].type = "TRIAL_ACCEPT" THEN "ACTIVE" ELSE trial
  /\ cursor' = k
  /\ stray' = IF k.boot = cursor.boot THEN stray ELSE stray \cup Unsettled(k.boot)
  /\ applied' = Append(applied, k)
  /\ working' = Append(working, [key |-> k, redeliver |->
                                 IF IsHello(k) THEN MissingAt(k) ELSE {}])
  /\ UNCHANGED <<records, dispatched, carVars>>

\* The evaluation is there: store the answer under the key and send it.  A
\* second handler of the same key fails on the unique index: no answer.
StoreAnswer(i) ==
  /\ LET w == working[i] IN
       IF w.key \in DOMAIN records
       THEN UNCHANGED <<records, answered, highest>>
       ELSE /\ records' = Put(records, w.key,
                              [outcome |-> "ACCEPTED", redeliver |-> w.redeliver])
            /\ Receive(w.key, w.redeliver)
  /\ working' = RemoveAt(working, i)
  /\ UNCHANGED <<cursor, trial, applied, dispatched, stray,
                 boot, number, sent>>

\* A crash of the platform: handlers live in memory.
RequestCrash ==
  /\ working # << >>
  /\ working' = << >>
  /\ UNCHANGED <<cursor, records, trial, applied, dispatched, stray, carVars>>

RequestNext ==
  \/ \E type \in ReportTypes : SendReport(type)
  \/ Reboot
  \/ \E p \in 1..ChannelPublications : DispatchTo(p)
  \/ \E k \in DOMAIN sent :
       \/ Replay(k)
       \/ RefuseContent(k)
       \/ Apply(k)
  \/ \E i \in DOMAIN working : StoreAnswer(i)
  \/ RequestCrash

RequestSpec == RequestInit /\ [][RequestNext]_requestVars

-----------------------------------------------------------------------------
(* Properties *)

RequestTypeOK ==
  /\ cursor \in Key \cup {NoCursor}
  /\ DOMAIN records \subseteq DOMAIN sent
  /\ \A k \in DOMAIN records : records[k] \in Answer
  /\ \A i \in DOMAIN working : working[i].key \in DOMAIN sent
  /\ trial \in {"OFFERED", "ACTIVE"}
  /\ ToSet(applied) \subseteq DOMAIN sent
  /\ dispatched \subseteq 1..ChannelPublications
  /\ stray \subseteq DOMAIN sent
  /\ boot \in 1..MaxBoot
  /\ number \in 0..MaxReports
  /\ DOMAIN sent \subseteq Key
  /\ \A k \in DOMAIN sent : sent[k].type \in ReportTypes
  /\ answered \subseteq DOMAIN sent
  /\ highest \in 0..ChannelPublications

\* A report takes effect twice only if it, and a HELLO of its boot, had no
\* stored answer when another boot took over: within a boot neither the await
\* between the commit and the stored answer nor a crash in it lets a retry
\* through (vehicle-request.service.ts:180-196).
TwiceOnlyIfStray ==
  \A i, j \in DOMAIN applied :
    i # j /\ applied[i] = applied[j]
      => /\ applied[i] \in stray
         /\ \E k \in stray : IsHello(k) /\ k.boot = applied[i].boot

\* A report of an earlier boot takes effect after one of a later boot only if a
\* HELLO of the earlier boot had no stored answer when the later one took over:
\* a boot that reconciled completely never comes back to overwrite what a newer
\* one said (rules/vehicle-requests.ts:6 says no boot ever does).
OldBootOnlyIfStray ==
  \A i, j \in DOMAIN applied :
    i < j /\ applied[j].boot < applied[i].boot
      => \E k \in stray : IsHello(k) /\ k.boot = applied[j].boot

\* A vehicle whose HELLO was answered has every publication that was dispatched
\* when it sent the HELLO, or a newer one, also when the answer is a replay of
\* the stored one (missing, UL-065).
ReconciledCoversSent ==
  \A k \in answered : \A p \in sent[k].known : p <= highest

=============================================================================
