------------------------------ MODULE Delivery ------------------------------
(***************************************************************************)
(* What happens to an issued command of one feature: the signed publication*)
(* and its deadline (D06-08), its delivery to the simulated vehicles, the  *)
(* vehicle's guard and its stage machine (D02-03), the checks on the status*)
(* reports that come back and their link to a publication, and the overdue *)
(* watch (D04-03).                                                         *)
(*                                                                         *)
(* The issuing of a command (module KillSwitch) commits a publication with *)
(* status SIGNED; everything after the commit is a callback or a timer of  *)
(* one Node process, and one callback or timer is one action.  The timers  *)
(* live in memory only: a crash forgets them, the database stays.          *)
(*                                                                         *)
(* A kill is the publication that switches off; a restore names it.  The   *)
(* sequence of a publication within its feature is its index in pubs.      *)
(* Vehicles behind the GLEO broker are not modelled (external).            *)
(***************************************************************************)
EXTENDS Naturals, Sequences, FiniteSets, SequencesExt

CONSTANTS
  Vehicles,       \* VINs
  Offline,        \* those whose link is OFFLINE: nothing is delivered to them
  Lists,          \* the vehicle lists a kill may name
  Categories,     \* reason categories in use
  Class,          \* deactivation class of the feature, DC0 to DC3
  Latency,        \* FLEET_SIM_LATENCY_MS and FLEET_SIM_STAGGER_MS, in ticks
  Stagger,
  IdleDelay,      \* SIM_IDLE_MS: the vehicle falls idle (DC1)
  CycleDelay,     \* SIM_CYCLE_MS: its next start (DC3 and restore)
  Takeover,       \* takeoverMs and rampMs of the safety profile (DC2)
  Ramp,
  ApplyWindow,    \* maxPendingMs or maxCycleWaitMs, what the platform allows for them
  ReplyTime,      \* EMERGENCY_TIMEOUT_MS
  OverdueMargin,  \* OVERDUE_MARGIN_MS
  MaxCommands,    \* bound: commands ever issued
  MaxEpoch,       \* bound: key epochs
  MaxCrashes      \* bound: crashes of the platform

ASSUME ConstantsOK ==
  /\ Offline \subseteq Vehicles
  /\ \A l \in Lists : l \in Seq(Vehicles) /\ l # << >> /\ IsInjective(l)
  /\ Categories \subseteq {"SAFETY", "SECURITY", "REGULATORY", "COMMERCIAL", "OPERATIONAL"}
  /\ Class \in {"DC0", "DC1", "DC2", "DC3"}
  /\ {Latency, Stagger, IdleDelay, CycleDelay, Takeover, ApplyWindow, ReplyTime,
      OverdueMargin, MaxCommands, MaxEpoch, MaxCrashes} \subseteq Nat
  /\ Ramp \in Nat \ {0}

VARIABLES
  pubs,     \* publication, kill_command and vehicle_envelope, in order of issue
  vehicle,  \* vehicle -> its runtime record
  status,   \* vehicle -> vehicle_feature_status: the last accepted state
  topSeq,   \* vehicle -> highest vehicle_seq of an accepted, non-REJECTED report
  alarms,   \* vehicle.status.rejected events
  overdue,  \* kills with a kill.overdue event
  tasks,    \* timers of the process
  turn,     \* publication whose after-commit callback is due, or 0
  epoch,    \* current vehicle key epoch
  crashes   \* crashes so far

vars == <<pubs, vehicle, status, topSeq, alarms, overdue, tasks, turn, epoch, crashes>>

None == "NONE"

DeactStates == {"DEACT_PENDING_IDLE", "DEACT_PENDING_CYCLE", "DEACT_WARNING",
                "DEACT_RAMP", "DISABLED"}
GuardStates == DeactStates \cup {"ACTIVE", "INACTIVE", "RESTORE_PENDING"}
OpenStatuses  == {"SIGNED", "DISPATCHED"}
PubStatuses == OpenStatuses \cup {"CONFIRMED", "PARTIAL", "TIMEOUT"}

-----------------------------------------------------------------------------
(* Classes and publications *)

Mild == {"COMMERCIAL", "OPERATIONAL"}

\* effectiveClass: a mild reason waits for the next start.
EffectiveClass(category) == IF category \in Mild /\ Class # "DC0" THEN "DC3" ELSE Class

\* endState: a mild reason ends INACTIVE, which an activation may switch on again.
EndState(category) == IF category \in Mild THEN "INACTIVE" ELSE "DISABLED"

\* applyWindowMs: how long the platform gives a vehicle to reach the end.
ApplyTime(request, category) ==
  IF request = "restore" THEN ApplyWindow
  ELSE [DC0 |-> 0, DC1 |-> ApplyWindow, DC2 |-> Takeover + Ramp, DC3 |-> ApplyWindow]
         [EffectiveClass(category)]

Targets(p) == ToSet(pubs[p].vins)

\* payload.desired: the state that counts as applied.
Desired(p) == IF pubs[p].request = "restore" THEN "ACTIVE" ELSE EndState(pubs[p].category)

\* A kill is ACTIVE until its restore is issued.
InForce(k) ==
  /\ pubs[k].request = "deactivate"
  /\ ~ \E p \in DOMAIN pubs : pubs[p].request = "restore" /\ pubs[p].kill = k

\* EnvelopeRepo.last: the last command issued to v (epochs only grow).
LastCommand(v) == Max({p \in DOMAIN pubs : v \in Targets(p)})

\* Mutant of NextSeq: restores take no number.
NextSeqKillsOnly(v) ==
  1 + Max({0} \cup {pubs[p].seq[v] : p \in {q \in DOMAIN pubs :
                      pubs[q].epoch = epoch /\ pubs[q].request = "deactivate"}})

\* issueCommand: vehicle_seq counts the commands of the current key epoch.
NextSeq(v) ==
  1 + Max({0} \cup {pubs[p].seq[v] : p \in {q \in DOMAIN pubs : pubs[q].epoch = epoch}})

Timer(delay, what, p, v) == [left |-> delay, delay |-> delay, what |-> what, pub |-> p, vin |-> v]

\* publishKill, publishRestore and create: the publication is stored SIGNED with
\* the envelopes, and its dispatch waits for the commit.
Publish(request, kill, category, vins) ==
  /\ Len(pubs) < MaxCommands
  /\ pubs' = Append(pubs,
       [request |-> request, kill |-> kill, category |-> category, vins |-> vins,
        epoch |-> epoch, status |-> "SIGNED", heard |-> {},
        seq |-> [v \in Vehicles |-> IF v \in ToSet(vins) THEN NextSeq(v) ELSE 0]])
  /\ turn' = Len(pubs) + 1

IssueKill(vins, category) ==
  /\ turn = 0
  \* what the overlap rule of the kill switch leaves possible
  /\ \A k \in DOMAIN pubs :
       InForce(k) /\ Targets(k) \cap ToSet(vins) # {}
         => (pubs[k].category = "COMMERCIAL") # (category = "COMMERCIAL")
  /\ Publish("deactivate", Len(pubs) + 1, category, vins)
  /\ UNCHANGED <<vehicle, status, topSeq, alarms, overdue, tasks, epoch, crashes>>

\* A restore needs the kill to be ACTIVE; how far the vehicles are is not asked.
IssueRestore(k) ==
  /\ turn = 0
  /\ InForce(k)
  /\ Publish("restore", k, pubs[k].category, pubs[k].vins)
  /\ UNCHANGED <<vehicle, status, topSeq, alarms, overdue, tasks, epoch, crashes>>

\* deliver: vehicles with a link get the publication one after the other.
Deliveries(p) ==
  LET vins == pubs[p].vins
      sim  == {i \in DOMAIN vins : vins[i] \notin Offline}
  IN {Timer(Latency + Cardinality({j \in sim : j < i}) * Stagger, "receive", p, vins[i]) : i \in sim}

\* Mutant of Watches: the reply deadline is forgotten.
WatchesNoClose(p) ==
  LET time == ApplyTime(pubs[p].request, pubs[p].category) IN
  IF pubs[p].request = "restore" THEN {} ELSE {Timer(time + OverdueMargin, "overdue", p, None)}

\* The reply deadline, and for a kill the overdue watch on top of it (watch).
Watches(p) ==
  LET time == ApplyTime(pubs[p].request, pubs[p].category) IN
  {Timer(ReplyTime + time, "close", p, None)}
    \cup IF pubs[p].request = "restore" THEN {} ELSE {Timer(time + OverdueMargin, "overdue", p, None)}

\* dispatch, the after-commit callback.
Dispatch ==
  /\ turn # 0
  /\ pubs' = [pubs EXCEPT ![turn].status = "DISPATCHED"]
  /\ tasks' = tasks \cup Deliveries(turn) \cup Watches(turn)
  /\ turn' = 0
  /\ UNCHANGED <<vehicle, status, topSeq, alarms, overdue, epoch, crashes>>

-----------------------------------------------------------------------------
(* Status reports (status-ingest.service.ts, rules/status-v2.ts) *)

\* Mutant of TookDeactivation: an earlier acknowledgement is not looked up.
TookDeactivationNow(v, r) == r.seq >= pubs[LastCommand(v)].seq[v]

\* Mutant of TookDeactivation: issued is as good as taken.
TookDeactivationIssued(v, r) == r.seq <= pubs[LastCommand(v)].seq[v]

\* tookDeactivation: by this report, or by an earlier accepted one, the vehicle
\* has taken the last command.  Sequence numbers are compared across epochs.
TookDeactivation(v, r) ==
  \/ r.seq >= pubs[LastCommand(v)].seq[v]
  \/ topSeq[v] >= pubs[LastCommand(v)].seq[v]

\* checkStatusReport, step HISTORY; the report of a simulated vehicle passes the
\* other steps.
Violation(v, r) ==
  LET last == pubs[LastCommand(v)] IN
  CASE r.source = "REMOTE" /\ r.state \in DeactStates /\ last.request # "deactivate"
         -> "STATE_WITHOUT_COMMAND"
    [] r.source = "REMOTE" /\ r.seq > last.seq[v]
         -> "SEQ_AHEAD"
    [] r.state = "ACTIVE" /\ last.request = "deactivate" /\ TookDeactivation(v, r)
         -> "ACTIVE_WITHOUT_RESTORE"
    [] OTHER -> None

\* Mutant of Settled: a closed publication is judged again.
SettledAgain(p, heard) == IF Targets(p) \subseteq heard THEN "CONFIRMED" ELSE pubs[p].status

\* recompute, after every readback: an open, dispatched publication is CONFIRMED
\* once every target has been heard.
Settled(p, heard) ==
  IF pubs[p].status = "DISPATCHED" /\ Targets(p) \subseteq heard THEN "CONFIRMED"
                                                               ELSE pubs[p].status

\* bridge: an accepted report that shows the desired state counts as the readback
\* of the last command issued to the vehicle.
Bridge(v, r) ==
  LET p     == LastCommand(v)
      heard == pubs[p].heard \cup {v}
  IN pubs' = IF r.result # "REJECTED" /\ r.state = Desired(p)
               THEN [pubs EXCEPT ![p] = [@ EXCEPT !.heard = heard, !.status = Settled(p, heard)]]
               ELSE pubs

\* ingest: a report that violates the history is only an alarm.
Ingest(v, r) ==
  \/ /\ Violation(v, r) # None
     /\ alarms' = alarms \cup {[vin |-> v, code |-> Violation(v, r), pub |-> LastCommand(v)]}
     /\ UNCHANGED <<status, topSeq, pubs>>
  \/ /\ Violation(v, r) = None
     /\ status' = [status EXCEPT ![v] = r.state]
     /\ topSeq' = IF r.result = "REJECTED" THEN topSeq
                                           ELSE [topSeq EXCEPT ![v] = Max({@, r.seq})]
     /\ Bridge(v, r)
     /\ UNCHANGED alarms

\* emit, for a stage of command p.
Emit(p, v, state, result, source) ==
  Ingest(v, [state |-> state, result |-> result, seq |-> pubs[p].seq[v], source |-> source])

-----------------------------------------------------------------------------
(* The vehicle (vehicle-runtime.service.ts) *)

\* Mutant of SetState: reaching ACTIVE leaves the block in place.
SetStateKeepsBlock(record, state, killed) ==
  [record EXCEPT !.state = state, !.killed = @ \/ killed]

\* setState: an end state blocks the feature, ACTIVE lifts the block, a stage in
\* between leaves it as it is.
SetState(record, state, killed) ==
  [record EXCEPT !.state = state, !.killed = killed \/ (@ /\ state # "ACTIVE")]

Stage       == [DC1 |-> "DEACT_PENDING_IDLE", DC2 |-> "DEACT_WARNING", DC3 |-> "DEACT_PENDING_CYCLE"]
FinishDelay == [DC1 |-> IdleDelay, DC2 |-> Takeover + Ramp, DC3 |-> CycleDelay]

\* guardCheck: key epoch, then the sequence number within the epoch.
GuardRefuses(v, p) ==
  \/ pubs[p].epoch < epoch
  \/ vehicle[v].epoch = pubs[p].epoch /\ pubs[p].seq[v] <= vehicle[v].lastSeq

\* The record of a vehicle that has let the guard accept p.
Accepted(v, p) ==
  [vehicle[v] EXCEPT !.highest = p, !.epoch = pubs[p].epoch, !.lastSeq = pubs[p].seq[v]]

\* Timer t is due.  Timers of one duration fire in the order they were set, which
\* for one vehicle is the order of its commands; between durations there is none.
Due(t, what) ==
  /\ turn = 0
  /\ t.what = what /\ t.left = 0
  /\ \A u \in tasks :
       /\ u.left = 0 /\ u.delay = t.delay /\ u.vin = t.vin
       /\ (u.what = "receive") = (what = "receive")
       => t.pub <= u.pub

\* receive: a publication older than one already received is dropped.
ReceiveOld(t) ==
  /\ Due(t, "receive")
  /\ t.pub <= vehicle[t.vin].highest
  /\ tasks' = tasks \ {t}
  /\ UNCHANGED <<pubs, vehicle, status, topSeq, alarms, overdue, turn, epoch, crashes>>

\* receive and guard: the guard refuses, and the vehicle reports its state.
ReceiveRefused(t) ==
  LET v == t.vin IN
  /\ Due(t, "receive")
  /\ t.pub > vehicle[v].highest
  /\ GuardRefuses(v, t.pub)
  /\ vehicle' = [vehicle EXCEPT ![v].highest = t.pub]
  /\ Ingest(v, [state |-> vehicle[v].state, result |-> "REJECTED",
                seq |-> vehicle[v].lastSeq, source |-> "REMOTE"])
  /\ tasks' = tasks \ {t}
  /\ UNCHANGED <<overdue, turn, epoch, crashes>>

\* receive and guard: the command is taken and its stages are put on timers.
\* Timers of earlier commands are left running.
ReceiveTaken(t) ==
  LET v  == t.vin
      p  == t.pub
      dc == EffectiveClass(pubs[p].category)
      Enter(state, killed, result, timers) ==
        /\ vehicle' = [vehicle EXCEPT ![v] = SetState(Accepted(v, p), state, killed)]
        /\ Emit(p, v, state, result, "REMOTE")
        /\ tasks' = (tasks \ {t}) \cup timers
  IN
  /\ Due(t, "receive")
  /\ p > vehicle[v].highest
  /\ ~GuardRefuses(v, p)
  /\ \/ /\ pubs[p].request = "restore"
        /\ Enter("RESTORE_PENDING", FALSE, "ACCEPTED", {Timer(CycleDelay, "restored", p, v)})
     \/ /\ pubs[p].request = "deactivate" /\ dc = "DC0"
        /\ Enter(Desired(p), TRUE, "NONE", {})
     \/ /\ pubs[p].request = "deactivate" /\ dc # "DC0"
        /\ Enter(Stage[dc], FALSE, "ACCEPTED",
                 {Timer(FinishDelay[dc], "finish", p, v)}
                   \cup IF dc = "DC2" THEN {Timer(Takeover, "ramp", p, v)} ELSE {})
  /\ UNCHANGED <<overdue, turn, epoch, crashes>>

\* A stage timer fires: the state is set whatever the vehicle has done since.
StageFires(t, what, state, killed, source) ==
  /\ Due(t, what)
  /\ vehicle' = [vehicle EXCEPT ![t.vin] = SetState(@, state, killed)]
  /\ Emit(t.pub, t.vin, state, "NONE", source)
  /\ tasks' = tasks \ {t}
  /\ UNCHANGED <<overdue, turn, epoch, crashes>>

RampStarts(t) == StageFires(t, "ramp", "DEACT_RAMP", FALSE, "REMOTE")
Finish(t)     == StageFires(t, "finish", Desired(t.pub), TRUE, "REMOTE")
Restored(t)   == StageFires(t, "restored", "ACTIVE", FALSE, "STARTUP")

-----------------------------------------------------------------------------
(* Deadlines, the clock, and failures *)

\* evaluate at the deadline.
Outcome(p) ==
  CASE Targets(p) \subseteq pubs[p].heard -> "CONFIRMED"
    [] pubs[p].heard = {}                 -> "TIMEOUT"
    [] OTHER                              -> "PARTIAL"

\* close: the reply deadline; a closed publication is left alone.
Close(t) ==
  /\ Due(t, "close")
  /\ pubs' = IF pubs[t.pub].status \in OpenStatuses
               THEN [pubs EXCEPT ![t.pub].status = Outcome(t.pub)]
               ELSE pubs
  /\ tasks' = tasks \ {t}
  /\ UNCHANGED <<vehicle, status, topSeq, alarms, overdue, turn, epoch, crashes>>

\* Mutant of Late: only vehicles that have reported at all.
LateReported(k) == {v \in Targets(k) : status[v] \notin {Desired(k), None}}

\* The vehicles not known to be in the end state of kill k.
Late(k) == {v \in Targets(k) : status[v] # Desired(k)}

\* checkOverdue, once per kill.
CheckOverdue(t) ==
  /\ Due(t, "overdue")
  /\ overdue' = IF InForce(t.pub) /\ Late(t.pub) # {} THEN overdue \cup {t.pub} ELSE overdue
  /\ tasks' = tasks \ {t}
  /\ UNCHANGED <<pubs, vehicle, status, topSeq, alarms, turn, epoch, crashes>>

\* Timers fire when they are due: time passes only when none is.
Tick ==
  /\ turn = 0
  /\ tasks # {}
  /\ \A t \in tasks : t.left > 0
  /\ tasks' = {[t EXCEPT !.left = @ - 1] : t \in tasks}
  /\ UNCHANGED <<pubs, vehicle, status, topSeq, alarms, overdue, turn, epoch, crashes>>

\* bumpEpoch: commands already issued keep the old epoch.
BumpEpoch ==
  /\ turn = 0
  /\ epoch < MaxEpoch
  /\ epoch' = epoch + 1
  /\ UNCHANGED <<pubs, vehicle, status, topSeq, alarms, overdue, tasks, turn, crashes>>

\* The process dies and starts again.  onApplicationBootstrap sends policies only:
\* no command is dispatched again and no timer is set up again.
Crash ==
  /\ crashes < MaxCrashes
  /\ crashes' = crashes + 1
  /\ tasks' = {}
  /\ turn' = 0
  /\ UNCHANGED <<pubs, vehicle, status, topSeq, alarms, overdue, epoch>>

-----------------------------------------------------------------------------
Init ==
  /\ pubs = << >>
  /\ vehicle = [v \in Vehicles |-> [state |-> "ACTIVE", killed |-> FALSE, highest |-> 0,
                                    epoch |-> 0, lastSeq |-> 0]]
  /\ status = [v \in Vehicles |-> None]
  /\ topSeq = [v \in Vehicles |-> 0]
  /\ alarms = {} /\ overdue = {} /\ tasks = {}
  /\ turn = 0 /\ epoch = 1 /\ crashes = 0

RunTimer ==
  \E t \in tasks :
    \/ ReceiveOld(t) \/ ReceiveRefused(t) \/ ReceiveTaken(t)
    \/ RampStarts(t) \/ Finish(t) \/ Restored(t)
    \/ Close(t) \/ CheckOverdue(t)

Next ==
  \/ \E vins \in Lists, category \in Categories : IssueKill(vins, category)
  \/ \E k \in DOMAIN pubs : IssueRestore(k)
  \/ Dispatch
  \/ RunTimer
  \/ Tick
  \/ BumpEpoch
  \/ Crash

\* The event loop runs the after-commit callback and the timers that are due, and
\* the clock goes on; people need never issue anything.
Fairness == WF_vars(Dispatch) /\ WF_vars(RunTimer) /\ WF_vars(Tick)

Spec == Init /\ [][Next]_vars /\ Fairness

-----------------------------------------------------------------------------
(* Properties *)

Pub == [request : {"deactivate", "restore"}, kill : Nat, category : Categories,
        vins : Lists, epoch : Nat, status : PubStatuses, heard : SUBSET Vehicles,
        seq : [Vehicles -> Nat]]

Task == [left : Nat, delay : Nat,
         what : {"receive", "ramp", "finish", "restored", "close", "overdue"},
         pub : Nat, vin : Vehicles \cup {None}]

\* The shape of the state.
TypeOK ==
  /\ pubs \in Seq(Pub)
  /\ vehicle \in [Vehicles -> [state : GuardStates, killed : BOOLEAN, highest : Nat,
                               epoch : Nat, lastSeq : Nat]]
  /\ status \in [Vehicles -> GuardStates \cup {None}]
  /\ topSeq \in [Vehicles -> Nat]
  /\ alarms \subseteq [vin : Vehicles, pub : Nat,
                       code : {"STATE_WITHOUT_COMMAND", "SEQ_AHEAD", "ACTIVE_WITHOUT_RESTORE"}]
  /\ overdue \subseteq Nat
  /\ tasks \subseteq Task
  /\ turn \in Nat
  /\ epoch \in Nat /\ crashes \in Nat

\* The guard of v has accepted command p, or a later one of the same epoch.
Took(v, p) == vehicle[v].epoch = pubs[p].epoch /\ vehicle[v].lastSeq >= pubs[p].seq[v]

Closed(p) == pubs[p].status \notin OpenStatuses

\* The verdict of a closed publication never changes, whatever readbacks arrive
\* after it and however the deadline and the last readback race.
ClosedIsFinal ==
  [][\A p \in DOMAIN pubs : Closed(p) => pubs'[p].status = pubs[p].status]_vars

\* Once a vehicle has taken the last command and that is a kill, the platform does
\* not show the feature as ACTIVE there, although the timer of an earlier restore
\* may still make the vehicle report it (FFG-DEAC-007, FFG-ADS-004).
AckedKillNotShownActive ==
  \A v \in Vehicles :
    (\E p \in DOMAIN pubs : v \in Targets(p))
    /\ pubs[LastCommand(v)].request = "deactivate" /\ Took(v, LastCommand(v))
      => status[v] # "ACTIVE"

\* ACTIVE_WITHOUT_RESTORE, the incident "the safety kill came loose", is only
\* raised for a vehicle that has taken the deactivation it names.
LooseKillAlarmIsTrue ==
  [][\A a \in alarms' \ alarms : a.code = "ACTIVE_WITHOUT_RESTORE" => Took(a.vin, a.pub)']_vars

Quiet == tasks = {} /\ turn = 0

\* When nothing is on its way any more, the orders of the platform have won: the
\* feature is blocked in a vehicle exactly if a kill in force covers it, and the
\* state the platform shows is the state the vehicle is in.
QuietAgreement ==
  Quiet => \A v \in Vehicles :
             /\ vehicle[v].killed <=> \E k \in DOMAIN pubs : InForce(k) /\ v \in Targets(k)
             /\ status[v] \in {vehicle[v].state, None}

\* A kill in force whose overdue watch has run was seen in the end state in every
\* vehicle or is raised as overdue, also for vehicles that have never reported
\* anything; and it is only raised if one of its vehicles has no link: the platform's
\* time for the class covers the stages of a vehicle it can reach (FFG-SEC-004,
\* FFG-DEAC-013).
OverdueExact ==
  /\ \A k \in DOMAIN pubs :
       /\ InForce(k)
       /\ turn # k
       /\ ~ \E t \in tasks : t.what = "overdue" /\ t.pub = k
       => k \in overdue \/ \A v \in Targets(k) : status[v] = Desired(k)
  /\ \A k \in overdue : Targets(k) \cap Offline # {}

\* Every publication is closed in the end, by the replies or by its deadline.
PublicationsClose ==
  \A p \in 1 .. MaxCommands :
    (p \in DOMAIN pubs /\ pubs[p].status = "SIGNED") ~> (p \in DOMAIN pubs /\ Closed(p))

\* Every kill takes effect in every vehicle that has a link, as far as the platform
\* can see, unless it is restored first.
KillTakesEffect ==
  \A k \in 1 .. MaxCommands :
    (k \in DOMAIN pubs /\ InForce(k))
      ~> (k \in DOMAIN pubs /\ InForce(k) => \A v \in Targets(k) \ Offline : status[v] = Desired(k))

\* "A safety kill is lifted only by a restore command": a vehicle that stands at
\* DISABLED by a safety kill in force stays blocked.
SafetyKillHolds ==
  [][\A v \in Vehicles, k \in DOMAIN pubs :
       /\ InForce(k) /\ pubs[k].category = "SAFETY" /\ v \in Targets(k) /\ Took(v, k)
       /\ vehicle[v].state = "DISABLED" /\ vehicle[v].killed
       => vehicle'[v].killed]_vars

\* A publication is CONFIRMED by replies to it: every vehicle has taken its command.
ConfirmedWasTaken ==
  \A p \in DOMAIN pubs : pubs[p].status = "CONFIRMED" => \A v \in Targets(p) : Took(v, p)
=============================================================================
