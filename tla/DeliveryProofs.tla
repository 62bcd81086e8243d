---------------------------- MODULE DeliveryProofs ----------------------------
(***************************************************************************)
(* Theorems about Delivery for any vehicles, lists, delays and number of   *)
(* commands.  For any deactivation class, key epochs and crashes: verdicts *)
(* are final, and a vehicle that took a kill is not shown as active.  In   *)
(* one key epoch: the loose-kill alarm is true.  Where every stage ends at *)
(* the next start and nothing fails: the orders of the platform win.  And  *)
(* with one class in use and a margin that is long enough: the overdue     *)
(* watch is exact.                                                         *)
(***************************************************************************)
EXTENDS Delivery, WellFoundedInduction, FiniteSetTheorems, SequenceTheorems, TLAPS

-----------------------------------------------------------------------------
(* Numbers *)

\* A set of numbers with a bound has a greatest element, which is its Max.
LEMMA Greatest ==
  ASSUME NEW n \in Nat, NEW S \in SUBSET (0..n), S # {}
  PROVE  Max(S) \in S /\ \A y \in S : y <= Max(S)
<1> DEFINE T == {m \in Nat : n - m \in S}
<1>1. T \subseteq Nat /\ T # {}
  <2>1. PICK y \in S : TRUE  OBVIOUS
  <2>2. n - y \in Nat /\ n - (n - y) = y  OBVIOUS
  <2>3. n - y \in T  BY <2>2
  <2> QED  BY <2>3
<1>2. PICK m \in T : \A k \in T : <<k, m>> \notin OpToRel(<, Nat)
  BY <1>1, WFMin, NatLessThanWellFounded, Zenon
<1>3. \A k \in T : ~(k < m)  BY <1>1, <1>2, Zenon DEF OpToRel
<1>4. n - m \in S /\ \A y \in S : n - m >= y
  <2>1. n - m \in S  OBVIOUS
  <2>2. ASSUME NEW y \in S  PROVE n - m >= y
    <3>1. n - y \in Nat /\ n - (n - y) = y  OBVIOUS
    <3>2. n - y \in T  BY <3>1
    <3>3. ~(n - y < m)  BY <1>3, <3>2
    <3> QED  BY <3>1, <3>3
  <2> QED  BY <2>1, <2>2
<1> HIDE DEF T
<1>5. Max(S) \in S /\ \A y \in S : Max(S) >= y  BY <1>4 DEF Max
<1> QED  BY <1>5

LEMMA Larger ==
  ASSUME NEW a \in Nat, NEW b \in Nat
  PROVE  /\ Max({a, b}) \in Nat /\ a <= Max({a, b}) /\ b <= Max({a, b})
         /\ Max({a, b}) \in {a, b}
<1>1. {a, b} \in SUBSET (0..(a + b)) /\ {a, b} # {}  OBVIOUS
<1>2. Max({a, b}) \in {a, b} /\ \A y \in {a, b} : y <= Max({a, b})  BY <1>1, Greatest
<1> QED  BY <1>2

-----------------------------------------------------------------------------
(* The table of publications *)

\* What never changes of a publication.
SameOrder(x, y) ==
  /\ x.request = y.request /\ x.kill = y.kill /\ x.category = y.category
  /\ x.vins = y.vins /\ x.epoch = y.epoch /\ x.seq = y.seq

\* A step that issues nothing keeps the orders; verdicts and replies may change.
PubsKept ==
  /\ pubs' \in Seq(Pub)
  /\ DOMAIN pubs' = DOMAIN pubs /\ Len(pubs') = Len(pubs)
  /\ \A p \in DOMAIN pubs : SameOrder(pubs'[p], pubs[p])

VerdictsStay == \A p \in DOMAIN pubs : Closed(p) => pubs'[p].status = pubs[p].status

LEMMA RowsOf ==
  ASSUME TypeOK
  PROVE  /\ DOMAIN pubs = 1 .. Len(pubs) /\ Len(pubs) \in Nat
         /\ \A p \in DOMAIN pubs :
              /\ pubs[p] \in Pub
              /\ pubs[p].request \in {"deactivate", "restore"}
              /\ pubs[p].category \in Categories
              /\ pubs[p].vins \in Lists /\ pubs[p].vins \in Seq(Vehicles)
              /\ pubs[p].epoch \in Nat /\ pubs[p].status \in PubStatuses
              /\ pubs[p].heard \in SUBSET Vehicles
              /\ pubs[p].seq \in [Vehicles -> Nat]
              /\ Targets(p) \subseteq Vehicles
<1>1. DOMAIN pubs = 1 .. Len(pubs) /\ Len(pubs) \in Nat  BY DEF TypeOK
<1>2. ASSUME NEW p \in DOMAIN pubs
      PROVE  /\ pubs[p] \in Pub
             /\ pubs[p].request \in {"deactivate", "restore"}
             /\ pubs[p].category \in Categories
             /\ pubs[p].vins \in Lists
             /\ pubs[p].epoch \in Nat /\ pubs[p].status \in PubStatuses
             /\ pubs[p].heard \in SUBSET Vehicles
             /\ pubs[p].seq \in [Vehicles -> Nat]
  <2>1. pubs[p] \in Pub  BY DEF TypeOK
  <2> QED  BY <2>1 DEF Pub
<1>3. ASSUME NEW l \in Lists  PROVE l \in Seq(Vehicles) /\ ToSet(l) \subseteq Vehicles
  <2>1. l \in Seq(Vehicles)  BY ConstantsOK
  <2> QED  BY <2>1 DEF ToSet
<1> QED  BY <1>1, <1>2, <1>3 DEF Targets

\* One row gets a new verdict or reply.
LEMMA OneChanged ==
  ASSUME TypeOK, NEW p \in DOMAIN pubs, NEW e \in Pub, SameOrder(e, pubs[p]),
         pubs' = [pubs EXCEPT ![p] = e]
  PROVE  /\ PubsKept
         /\ pubs'[p] = e
         /\ \A q \in DOMAIN pubs : q # p => pubs'[q] = pubs[q]
<1>1. pubs' \in Seq(Pub) /\ Len(pubs') = Len(pubs) /\ DOMAIN pubs' = DOMAIN pubs
  BY ExceptSeq, RowsOf DEF TypeOK
<1>2. pubs'[p] = e /\ \A q \in DOMAIN pubs : q # p => pubs'[q] = pubs[q]  BY <1>1
<1> QED  BY <1>1, <1>2 DEF PubsKept, SameOrder

LEMMA NoneChanged == ASSUME TypeOK, UNCHANGED pubs  PROVE PubsKept /\ VerdictsStay
  BY DEF TypeOK, PubsKept, SameOrder, VerdictsStay

\* The row with another status.
LEMMA RowStatus ==
  ASSUME NEW x \in Pub, NEW s \in PubStatuses
  PROVE  LET e == [x EXCEPT !.status = s]
         IN  e \in Pub /\ SameOrder(e, x) /\ e.status = s
  BY DEF Pub, SameOrder

-----------------------------------------------------------------------------
(* The last command of a vehicle *)

IsLast(v, p) ==
  /\ p \in DOMAIN pubs /\ v \in Targets(p)
  /\ \A q \in DOMAIN pubs : v \in Targets(q) => q <= p

LEMMA LastIs ==
  ASSUME TypeOK, NEW v, NEW q \in DOMAIN pubs, v \in Targets(q)
  PROVE  IsLast(v, LastCommand(v))
<1> DEFINE S == {p \in DOMAIN pubs : v \in Targets(p)}
<1>1. S \in SUBSET (0 .. Len(pubs)) /\ S # {} /\ Len(pubs) \in Nat  BY RowsOf
<1>2. LastCommand(v) = Max(S)  BY DEF LastCommand
<1> HIDE DEF S
<1>3. Max(S) \in S /\ \A y \in S : y <= Max(S)  BY <1>1, Greatest
<1> QED  BY <1>2, <1>3 DEF S, IsLast

LEMMA LastOnly ==
  ASSUME TypeOK, NEW v, NEW p, NEW q, IsLast(v, p), IsLast(v, q)
  PROVE  p = q
<1>1. p \in Nat /\ q \in Nat /\ p <= q /\ q <= p  BY RowsOf DEF IsLast
<1> QED  BY <1>1

-----------------------------------------------------------------------------
(* The invariant *)

\* Numbers rise from command to command within a key epoch.
Numbered ==
  /\ epoch >= 1
  /\ \A p \in DOMAIN pubs :
       /\ pubs[p].epoch >= 1 /\ pubs[p].epoch <= epoch
       /\ \A v \in Vehicles : pubs[p].seq[v] <= p
  /\ \A p, q \in DOMAIN pubs : \A v \in Targets(q) :
       p < q /\ pubs[p].epoch = pubs[q].epoch => pubs[p].seq[v] < pubs[q].seq[v]

\* What the guard remembers is the number of a command, if it has taken any.
GuardFromCommand ==
  \A v \in Vehicles :
    \/ vehicle[v].epoch = 0
    \/ \E p \in DOMAIN pubs :
         vehicle[v].epoch = pubs[p].epoch /\ vehicle[v].lastSeq = pubs[p].seq[v]

\* A timer belongs to a publication, a vehicle's timer to one of its targets.
TaskGood(t) ==
  /\ t.pub \in DOMAIN pubs
  /\ t.what \notin {"close", "overdue"} => t.vin \in Targets(t.pub)

TasksGood == \A t \in tasks : TaskGood(t)

\* The publication that waits for its dispatch has not been touched.
TurnSigned == turn # 0 => turn \in DOMAIN pubs /\ pubs[turn].status = "SIGNED"

\* A vehicle that took its last command has acknowledged it, and is not shown as
\* active if that is a kill.
TakenSeen(v, p) ==
  IsLast(v, p) /\ Took(v, p) =>
    /\ topSeq[v] >= pubs[p].seq[v]
    /\ pubs[p].request = "deactivate" => status[v] # "ACTIVE"

TakenAcked == \A v \in Vehicles : \A p \in DOMAIN pubs : TakenSeen(v, p)

DeliveryInv ==
  TypeOK /\ Numbered /\ GuardFromCommand /\ TasksGood /\ TurnSigned /\ TakenAcked

-----------------------------------------------------------------------------
(* Steps that leave the vehicles alone *)

\* Nothing of the last command depends on verdicts.
LEMMA KeptSame ==
  ASSUME TypeOK, PubsKept
  PROVE  /\ \A p \in DOMAIN pubs : Targets(p)' = Targets(p)
         /\ \A v, p : IsLast(v, p)' <=> IsLast(v, p)
<1>1. \A p \in DOMAIN pubs : Targets(p)' = Targets(p)
  BY DEF PubsKept, SameOrder, Targets
<1> QED  BY <1>1 DEF IsLast, PubsKept

LEMMA NumbersStay ==
  ASSUME TypeOK, Numbered, PubsKept, epoch \in Nat, epoch' \in Nat, epoch <= epoch'
  PROVE  Numbered'
<1>1. \A p \in DOMAIN pubs : Targets(p)' = Targets(p)  BY KeptSame
<1>2. ASSUME NEW p \in DOMAIN pubs
      PROVE  /\ pubs'[p].epoch = pubs[p].epoch /\ pubs'[p].seq = pubs[p].seq
             /\ pubs[p].epoch <= epoch'
  <2>1. pubs[p].epoch \in Nat /\ pubs[p].epoch <= epoch  BY RowsOf DEF Numbered
  <2> QED  BY <2>1 DEF PubsKept, SameOrder
<1> QED  BY <1>1, <1>2 DEF Numbered, PubsKept

LEMMA VehiclesStay ==
  ASSUME DeliveryInv, PubsKept, TypeOK', TurnSigned',
         epoch <= epoch', \A t \in tasks' : TaskGood(t),
         UNCHANGED <<vehicle, status, topSeq>>
  PROVE  DeliveryInv'
<1>1. TypeOK /\ Numbered /\ TasksGood /\ TakenAcked /\ GuardFromCommand  BY DEF DeliveryInv
<1>2. epoch \in Nat /\ epoch' \in Nat  BY <1>1 DEF TypeOK
<1>3. Numbered'  BY <1>1, <1>2, NumbersStay
<1>4. /\ \A p \in DOMAIN pubs : Targets(p)' = Targets(p)
      /\ \A v, p : IsLast(v, p)' <=> IsLast(v, p)
  BY <1>1, KeptSame
<1>5. TasksGood'  BY <1>4 DEF TasksGood, TaskGood, PubsKept
<1>6. GuardFromCommand'  BY <1>1 DEF GuardFromCommand, PubsKept, SameOrder
<1>7. TakenAcked'
  BY <1>1, <1>4 DEF TakenAcked, TakenSeen, Took, PubsKept, SameOrder
<1> QED  BY <1>3, <1>5, <1>6, <1>7 DEF DeliveryInv

-----------------------------------------------------------------------------
(* Issuing and dispatch *)

\* The next number of a vehicle is above all of the epoch.
LEMMA NextSeqAbove ==
  ASSUME TypeOK, Numbered, NEW v \in Vehicles
  PROVE  /\ NextSeq(v) \in Nat /\ NextSeq(v) >= 1 /\ NextSeq(v) <= Len(pubs) + 1
         /\ \A q \in DOMAIN pubs : pubs[q].epoch = epoch => pubs[q].seq[v] < NextSeq(v)
<1> DEFINE Q == {q \in DOMAIN pubs : pubs[q].epoch = epoch}
           S == {0} \cup {pubs[q].seq[v] : q \in Q}
<1>1. DOMAIN pubs = 1 .. Len(pubs) /\ Len(pubs) \in Nat  BY RowsOf
<1>2. ASSUME NEW q \in DOMAIN pubs  PROVE pubs[q].seq[v] \in 0 .. Len(pubs)
  <2>1. pubs[q].seq \in [Vehicles -> Nat]  BY RowsOf
  <2>2. pubs[q].seq[v] \in Nat /\ pubs[q].seq[v] <= q  BY <2>1 DEF Numbered
  <2> QED  BY <1>1, <2>2
<1>3. S \in SUBSET (0 .. Len(pubs)) /\ S # {}  BY <1>1, <1>2
<1>4. NextSeq(v) = 1 + Max(S)  BY DEF NextSeq
<1>5. \A q \in Q : pubs[q].seq[v] \in S  OBVIOUS
<1> HIDE DEF S
<1>6. Max(S) \in S /\ \A y \in S : y <= Max(S)  BY <1>1, <1>3, Greatest
<1>7. Max(S) \in 0 .. Len(pubs)  BY <1>3, <1>6
<1>8. ASSUME NEW q \in DOMAIN pubs, pubs[q].epoch = epoch  PROVE pubs[q].seq[v] < NextSeq(v)
  <2>1. pubs[q].seq[v] <= Max(S)  BY <1>5, <1>6, <1>8
  <2>2. pubs[q].seq[v] \in Nat  BY <1>1, <1>2
  <2> QED  BY <1>1, <1>4, <1>7, <2>1, <2>2
<1> QED  BY <1>1, <1>4, <1>7, <1>8

\* The row that Publish adds.
NewPub(request, kill, category, vins) ==
  [request |-> request, kill |-> kill, category |-> category, vins |-> vins,
   epoch |-> epoch, status |-> "SIGNED", heard |-> {},
   seq |-> [v \in Vehicles |-> IF v \in ToSet(vins) THEN NextSeq(v) ELSE 0]]

LEMMA NewPubGood ==
  ASSUME TypeOK, Numbered, NEW request \in {"deactivate", "restore"}, NEW kill \in Nat,
         NEW category \in Categories, NEW vins \in Lists
  PROVE  LET e == NewPub(request, kill, category, vins)
         IN  /\ e \in Pub /\ e.status = "SIGNED" /\ e.epoch = epoch
             /\ \A v \in Vehicles :
                  e.seq[v] <= Len(pubs) + 1 /\ (v \in ToSet(e.vins) => e.seq[v] = NextSeq(v))
             /\ e.request = request /\ e.kill = kill /\ e.category = category /\ e.vins = vins
<1>1. epoch \in Nat  BY DEF TypeOK
<1>2. \A v \in Vehicles : NextSeq(v) \in Nat /\ NextSeq(v) <= Len(pubs) + 1  BY NextSeqAbove
<1>3. Len(pubs) \in Nat  BY RowsOf
<1> QED  BY <1>1, <1>2, <1>3 DEF NewPub, Pub, PubStatuses, OpenStatuses

LEMMA PublishKeeps ==
  ASSUME DeliveryInv, NEW request \in {"deactivate", "restore"}, NEW kill \in Nat,
         NEW category \in Categories, NEW vins \in Lists,
         Publish(request, kill, category, vins),
         UNCHANGED <<vehicle, status, topSeq, alarms, overdue, tasks, epoch, crashes>>
  PROVE  DeliveryInv' /\ VerdictsStay
<1>0. TypeOK /\ Numbered /\ GuardFromCommand /\ TasksGood /\ TakenAcked  BY DEF DeliveryInv
<1>1. DOMAIN pubs = 1 .. Len(pubs) /\ Len(pubs) \in Nat /\ pubs \in Seq(Pub)
  BY <1>0, RowsOf DEF TypeOK
<1>2. PICK n \in Nat : n = Len(pubs) + 1  BY <1>1
<1>3. PICK e \in Pub :
        /\ e = NewPub(request, kill, category, vins)
        /\ e.status = "SIGNED" /\ e.epoch = epoch
        /\ \A v \in Vehicles : e.seq[v] <= n /\ (v \in ToSet(e.vins) => e.seq[v] = NextSeq(v))
  BY <1>0, <1>2, NewPubGood
<1>4. /\ pubs' = Append(pubs, e) /\ turn' = n  BY <1>2, <1>3 DEF Publish, NewPub
<1>5. /\ pubs' \in Seq(Pub) /\ DOMAIN pubs' = DOMAIN pubs \cup {n} /\ n \notin DOMAIN pubs
      /\ pubs'[n] = e /\ \A p \in DOMAIN pubs : pubs'[p] = pubs[p] /\ p < n
  BY <1>1, <1>2, <1>4
<1>6. TypeOK'  BY <1>0, <1>4, <1>5 DEF TypeOK
<1>7. VerdictsStay  BY <1>5 DEF VerdictsStay
<1>8. TurnSigned'  BY <1>3, <1>4, <1>5 DEF TurnSigned
<1>9. \A p \in DOMAIN pubs : Targets(p)' = Targets(p) /\ Targets(p) \subseteq Vehicles
  BY <1>0, <1>5, RowsOf DEF Targets
<1>10. Targets(n)' = ToSet(e.vins) /\ Targets(n)' \subseteq Vehicles
  <2>1. Targets(n)' = ToSet(e.vins)  BY <1>5 DEF Targets
  <2>2. e.vins \in Seq(Vehicles)  BY ConstantsOK DEF Pub
  <2> QED  BY <2>1, <2>2 DEF ToSet
<1>11. TasksGood'  BY <1>0, <1>5, <1>9 DEF TasksGood, TaskGood
<1>12. GuardFromCommand'  BY <1>0, <1>5 DEF GuardFromCommand
<1>13. \A v \in Vehicles : \A q \in DOMAIN pubs :
         v \in ToSet(e.vins) /\ pubs[q].epoch = epoch => pubs[q].seq[v] < e.seq[v]
  BY <1>0, <1>3, NextSeqAbove
<1>14. Numbered'
  <2>1. \A p \in DOMAIN pubs' :
          /\ pubs'[p].epoch >= 1 /\ pubs'[p].epoch <= epoch
          /\ \A v \in Vehicles : pubs'[p].seq[v] <= p
    <3>1. epoch \in Nat  BY <1>0 DEF TypeOK
    <3> QED  BY <1>0, <1>3, <1>5, <3>1 DEF Numbered
  <2>2. ASSUME NEW p \in DOMAIN pubs', NEW q \in DOMAIN pubs', NEW v \in Targets(q)',
               p < q, pubs'[p].epoch = pubs'[q].epoch
        PROVE  pubs'[p].seq[v] < pubs'[q].seq[v]
    <3>1. CASE q = n
      <4>1. p \in DOMAIN pubs  BY <1>2, <1>5, <2>2, <3>1
      <4>2. v \in Vehicles /\ v \in ToSet(e.vins)  BY <1>10, <3>1
      <4> QED  BY <1>3, <1>5, <1>13, <2>2, <3>1, <4>1, <4>2
    <3>2. CASE q # n
      <4>1. q \in DOMAIN pubs /\ q < n /\ q \in Nat  BY <1>1, <1>5, <3>2
      <4>2. p \in DOMAIN pubs  BY <1>2, <1>5, <2>2, <4>1
      <4>3. v \in Targets(q)  BY <1>9, <4>1
      <4> QED  BY <1>0, <1>5, <2>2, <4>1, <4>2, <4>3 DEF Numbered
    <3> QED  BY <3>1, <3>2
  <2> QED  BY <1>0, <2>1, <2>2 DEF Numbered
\* No vehicle has taken the new command yet.
<1>15. ASSUME NEW v \in Vehicles, v \in ToSet(e.vins)  PROVE ~Took(v, n)'
  <2> SUFFICES ASSUME vehicle[v].epoch = epoch, vehicle[v].lastSeq >= e.seq[v]  PROVE FALSE
    BY <1>3, <1>5 DEF Took
  <2>1. epoch # 0  BY <1>0 DEF TypeOK, Numbered
  <2>2. PICK p \in DOMAIN pubs : pubs[p].epoch = epoch /\ vehicle[v].lastSeq = pubs[p].seq[v]
    BY <1>0, <2>1 DEF GuardFromCommand
  <2>3. pubs[p].seq[v] < e.seq[v]  BY <1>13, <1>15, <2>2
  <2>4. pubs[p].seq[v] \in Nat /\ e.seq[v] \in Nat
    <3>1. pubs[p].seq \in [Vehicles -> Nat] /\ e.seq \in [Vehicles -> Nat]
      BY <1>0, RowsOf DEF Pub
    <3> QED  BY <3>1
  <2> QED  BY <2>2, <2>3, <2>4
<1>16. TakenAcked'
  <2> SUFFICES ASSUME NEW v \in Vehicles, NEW p \in DOMAIN pubs', IsLast(v, p)', Took(v, p)'
               PROVE  /\ topSeq[v] >= pubs'[p].seq[v]
                      /\ pubs'[p].request = "deactivate" => status[v] # "ACTIVE"
    BY DEF TakenAcked, TakenSeen
  <2>1. p # n
    <3>1. ASSUME p = n  PROVE v \in ToSet(e.vins)  BY <1>10, <3>1 DEF IsLast
    <3> QED  BY <1>15, <3>1
  <2>2. p \in DOMAIN pubs /\ pubs'[p] = pubs[p]  BY <1>5, <2>1
  <2>3. IsLast(v, p)  BY <1>5, <1>9, <2>2 DEF IsLast
  <2>4. Took(v, p)  BY <2>2 DEF Took
  <2> QED  BY <1>0, <2>2, <2>3, <2>4 DEF TakenAcked, TakenSeen
<1> QED  BY <1>6, <1>7, <1>8, <1>11, <1>12, <1>14, <1>16 DEF DeliveryInv

LEMMA DispatchKeeps == ASSUME DeliveryInv, Dispatch PROVE DeliveryInv' /\ VerdictsStay
<1>0. TypeOK /\ TasksGood /\ TurnSigned  BY DEF DeliveryInv
<1>1. /\ turn \in DOMAIN pubs /\ pubs[turn].status = "SIGNED" /\ turn' = 0
      /\ pubs' = [pubs EXCEPT ![turn].status = "DISPATCHED"]
      /\ tasks' = tasks \cup Deliveries(turn) \cup Watches(turn)
      /\ UNCHANGED <<vehicle, status, topSeq, alarms, overdue, epoch, crashes>>
  BY <1>0 DEF Dispatch, TurnSigned
<1>2. PICK p \in DOMAIN pubs : p = turn  BY <1>1
<1>3. PICK e : e = [pubs[p] EXCEPT !.status = "DISPATCHED"]  OBVIOUS
<1>4. e \in Pub /\ SameOrder(e, pubs[p]) /\ e.status = "DISPATCHED"
  <2>1. "DISPATCHED" \in PubStatuses  BY DEF PubStatuses, OpenStatuses
  <2> QED  BY <1>0, <1>3, <2>1, RowsOf, RowStatus
<1>5. pubs' = [pubs EXCEPT ![p] = e]  BY <1>1, <1>2, <1>3
<1>6. PubsKept /\ \A q \in DOMAIN pubs : q # p => pubs'[q] = pubs[q]
  BY <1>0, <1>4, <1>5, OneChanged
<1>7. VerdictsStay
  BY <1>1, <1>2, <1>6 DEF VerdictsStay, Closed, OpenStatuses
<1>8. pubs[p].vins \in Seq(Vehicles) /\ p \in Nat  BY <1>0, RowsOf
<1>9. \A t \in Deliveries(p) : t \in Task /\ TaskGood(t)
  <2> DEFINE vins == pubs[p].vins
             sim  == {i \in DOMAIN vins : vins[i] \notin Offline}
  <2>1. ASSUME NEW i \in sim  PROVE Cardinality({j \in sim : j < i}) \in Nat
    <3>1. {j \in sim : j < i} \subseteq 1 .. Len(vins) /\ Len(vins) \in Nat  BY <1>8
    <3>2. IsFiniteSet(1 .. Len(vins))  BY <3>1, FS_Interval
    <3>3. IsFiniteSet({j \in sim : j < i})  BY <3>1, <3>2, FS_Subset
    <3> QED  BY <3>3, FS_CardinalityType
  <2>2. \A i \in sim : vins[i] \in Vehicles /\ vins[i] \in Targets(p)
    BY <1>8 DEF Targets, ToSet
  <2> SUFFICES ASSUME NEW i \in sim
               PROVE  LET t == Timer(Latency + Cardinality({j \in sim : j < i}) * Stagger,
                                     "receive", p, vins[i])
                      IN  t \in Task /\ TaskGood(t)
    BY DEF Deliveries
  <2> DEFINE c == Cardinality({j \in sim : j < i})
             v == vins[i]
  <2>3. c \in Nat /\ v \in Vehicles /\ v \in Targets(p)  BY <2>1, <2>2
  <2> HIDE DEF c, v
  <2>4. Latency + c * Stagger \in Nat  BY <2>3, ConstantsOK
  <2>5. Timer(Latency + c * Stagger, "receive", p, v) \in Task
    BY <1>8, <2>3, <2>4 DEF Timer, Task
  <2>6. TaskGood(Timer(Latency + c * Stagger, "receive", p, v))
    BY <2>3 DEF Timer, TaskGood
  <2> QED  BY <2>5, <2>6 DEF c, v
<1>10. \A t \in Watches(p) : t \in Task /\ TaskGood(t)
  <2> DEFINE time == ApplyTime(pubs[p].request, pubs[p].category)
  <2>1. time \in Nat
    <3>1. EffectiveClass(pubs[p].category) \in {"DC0", "DC1", "DC2", "DC3"}
      BY ConstantsOK DEF EffectiveClass
    <3>2. Takeover \in Nat /\ Ramp \in Nat /\ ApplyWindow \in Nat  BY ConstantsOK
    <3> QED  BY <3>1, <3>2 DEF ApplyTime
  <2> HIDE DEF time
  <2>2. ReplyTime + time \in Nat /\ time + OverdueMargin \in Nat  BY <2>1, ConstantsOK
  <2>3. ASSUME NEW d \in Nat, NEW what \in {"close", "overdue"}
        PROVE  Timer(d, what, p, None) \in Task /\ TaskGood(Timer(d, what, p, None))
    BY <1>8 DEF Timer, Task, TaskGood
  <2>4. \A t \in Watches(p) : \/ t = Timer(ReplyTime + time, "close", p, None)
                              \/ t = Timer(time + OverdueMargin, "overdue", p, None)
    BY DEF Watches, time
  <2> QED  BY <2>2, <2>3, <2>4
<1>11. \A t \in tasks' : t \in Task /\ TaskGood(t)
  BY <1>0, <1>1, <1>2, <1>9, <1>10 DEF TypeOK, TasksGood
<1>12. TypeOK'  BY <1>0, <1>1, <1>6, <1>11 DEF TypeOK, PubsKept
<1>13. TurnSigned'  BY <1>1 DEF TurnSigned
<1>14. epoch <= epoch'  BY <1>0, <1>1 DEF TypeOK
<1> QED  BY <1>1, <1>6, <1>7, <1>11, <1>12, <1>13, <1>14, VehiclesStay

-----------------------------------------------------------------------------
(* Reports *)

Report == [state : GuardStates, result : {"REJECTED", "ACCEPTED", "NONE"}, seq : Nat,
           source : {"REMOTE", "STARTUP"}]

Alarm == [vin : Vehicles, pub : Nat,
          code : {"STATE_WITHOUT_COMMAND", "SEQ_AHEAD", "ACTIVE_WITHOUT_RESTORE"}]

LEMMA ViolationIs ==
  ASSUME NEW v, NEW r
  PROVE  Violation(v, r) \in {None, "STATE_WITHOUT_COMMAND", "SEQ_AHEAD", "ACTIVE_WITHOUT_RESTORE"}
  BY DEF Violation

\* The bridge touches one row, and never the verdict of a closed one.
LEMMA BridgeDoes ==
  ASSUME TypeOK, NEW v \in Vehicles, NEW q \in DOMAIN pubs, v \in Targets(q),
         NEW r \in Report, Bridge(v, r)
  PROVE  PubsKept /\ VerdictsStay
<1>1. IsLast(v, LastCommand(v))  BY LastIs
<1>2. PICK p \in DOMAIN pubs : p = LastCommand(v)  BY <1>1 DEF IsLast
<1>3. CASE pubs' = pubs  BY <1>3, NoneChanged
<1>4. CASE pubs' # pubs
  <2>1. PICK h : h = pubs[p].heard \cup {v}  OBVIOUS
  <2>2. PICK s : s = Settled(p, h)  OBVIOUS
  <2>3. PICK e : e = [pubs[p] EXCEPT !.heard = h, !.status = s]  OBVIOUS
  <2>4. pubs' = [pubs EXCEPT ![p] = e]
    BY <1>2, <1>4, <2>1, <2>2, <2>3 DEF Bridge
  <2>5. pubs[p] \in Pub /\ h \in SUBSET Vehicles /\ pubs[p].status \in PubStatuses
    BY <2>1, RowsOf
  <2>6. s \in PubStatuses /\ (Closed(p) => s = pubs[p].status)
    BY <2>2, <2>5 DEF Settled, PubStatuses, OpenStatuses, Closed
  <2>7. e \in Pub /\ SameOrder(e, pubs[p]) /\ e.status = s
    <3>1. PICK x \in Pub : x = pubs[p]  BY <2>5
    <3>2. PICK y : y = [x EXCEPT !.heard = h]  OBVIOUS
    <3>3. y \in Pub /\ SameOrder(y, x)  BY <2>5, <3>2 DEF Pub, SameOrder
    <3>4. e = [y EXCEPT !.status = s]  BY <2>3, <3>1, <3>2, <3>3 DEF Pub
    <3>5. e \in Pub /\ SameOrder(e, y) /\ e.status = s
      BY <2>6, <3>3, <3>4 DEF Pub, SameOrder
    <3> QED  BY <3>1, <3>3, <3>5 DEF SameOrder
  <2>8. PubsKept /\ pubs'[p] = e /\ \A x \in DOMAIN pubs : x # p => pubs'[x] = pubs[x]
    BY <2>4, <2>7, OneChanged
  <2> QED  BY <2>6, <2>7, <2>8 DEF VerdictsStay
<1> QED  BY <1>3, <1>4

LEMMA IngestDoes ==
  ASSUME TypeOK, NEW v \in Vehicles, NEW q \in DOMAIN pubs, v \in Targets(q),
         NEW r \in Report, Ingest(v, r)
  PROVE  /\ PubsKept /\ VerdictsStay
         /\ status' \in [Vehicles -> GuardStates \cup {None}]
         /\ topSeq' \in [Vehicles -> Nat]
         /\ alarms' \subseteq Alarm
         /\ \A w \in Vehicles : w # v => status'[w] = status[w] /\ topSeq'[w] = topSeq[w]
         /\ topSeq'[v] >= topSeq[v]
         /\ Violation(v, r) # None => status'[v] = status[v]
         /\ Violation(v, r) = None =>
              /\ status'[v] = r.state
              /\ r.result # "REJECTED" => topSeq'[v] >= r.seq
         /\ topSeq'[v] \in {topSeq[v], r.seq}
         /\ \A a \in alarms' \ alarms :
              a.vin = v /\ a.code = Violation(v, r) /\ a.pub = LastCommand(v)
<1>0. /\ status \in [Vehicles -> GuardStates \cup {None}] /\ topSeq \in [Vehicles -> Nat]
      /\ alarms \subseteq Alarm
  BY DEF TypeOK, Alarm
<1>1. CASE Violation(v, r) # None
  <2>1. /\ alarms' = alarms \cup {[vin |-> v, code |-> Violation(v, r), pub |-> LastCommand(v)]}
        /\ UNCHANGED <<status, topSeq, pubs>>
    BY <1>1 DEF Ingest
  <2>2. LastCommand(v) \in Nat  BY LastIs, RowsOf DEF IsLast
  <2>3. [vin |-> v, code |-> Violation(v, r), pub |-> LastCommand(v)] \in Alarm
    BY <1>1, <2>2, ViolationIs DEF Alarm
  <2>4. topSeq[v] \in Nat  BY <1>0
  <2> QED  BY <1>0, <1>1, <2>1, <2>3, <2>4, NoneChanged
<1>2. CASE Violation(v, r) = None
  <2>1. /\ status' = [status EXCEPT ![v] = r.state]
        /\ topSeq' = IF r.result = "REJECTED" THEN topSeq
                                              ELSE [topSeq EXCEPT ![v] = Max({@, r.seq})]
        /\ Bridge(v, r)
        /\ alarms' = alarms
    BY <1>2 DEF Ingest
  <2>2. topSeq[v] \in Nat /\ r.seq \in Nat /\ r.state \in GuardStates  BY <1>0 DEF Report
  <2>3. PICK m \in Nat : /\ m = Max({topSeq[v], r.seq}) /\ topSeq[v] <= m /\ r.seq <= m
                      /\ m \in {topSeq[v], r.seq}
    BY <2>2, Larger
  <2>4. topSeq' = IF r.result = "REJECTED" THEN topSeq ELSE [topSeq EXCEPT ![v] = m]
    BY <2>1, <2>3
  <2>5. PubsKept /\ VerdictsStay  BY <2>1, BridgeDoes
  <2>6. /\ status' \in [Vehicles -> GuardStates \cup {None}] /\ status'[v] = r.state
        /\ \A w \in Vehicles : w # v => status'[w] = status[w]
    BY <1>0, <2>1, <2>2
  <2>7. /\ topSeq' \in [Vehicles -> Nat]
        /\ \A w \in Vehicles : w # v => topSeq'[w] = topSeq[w]
        /\ topSeq'[v] >= topSeq[v] /\ topSeq'[v] \in {topSeq[v], r.seq}
        /\ r.result # "REJECTED" => topSeq'[v] >= r.seq
    BY <1>0, <2>2, <2>3, <2>4
  <2> QED  BY <1>0, <1>2, <2>1, <2>5, <2>6, <2>7
<1> QED  BY <1>1, <1>2

-----------------------------------------------------------------------------
(* Steps of one vehicle *)

Record == [state : GuardStates, killed : BOOLEAN, highest : Nat, epoch : Nat, lastSeq : Nat]

LEMMA StateSet ==
  ASSUME NEW x \in Record, NEW s \in GuardStates, NEW b \in BOOLEAN
  PROVE  LET y == SetState(x, s, b)
         IN  /\ y \in Record /\ y.epoch = x.epoch /\ y.lastSeq = x.lastSeq
             /\ y.highest = x.highest /\ y.state = s
             /\ y.killed = (b \/ (x.killed /\ s # "ACTIVE"))
<1>1. (b \/ (x.killed /\ s # "ACTIVE")) \in BOOLEAN  OBVIOUS
<1>2. PICK k \in BOOLEAN : k = (b \/ (x.killed /\ s # "ACTIVE"))  BY <1>1
<1>3. PICK y : y = [x EXCEPT !.state = s]  OBVIOUS
<1>4. /\ y \in Record /\ y.killed = x.killed /\ y.state = s /\ y.highest = x.highest
      /\ y.epoch = x.epoch /\ y.lastSeq = x.lastSeq
  BY <1>3 DEF Record
<1>5. SetState(x, s, b) = [y EXCEPT !.killed = k]
  BY <1>2, <1>3, <1>4 DEF SetState, Record
<1>6. /\ [y EXCEPT !.killed = k] \in Record
      /\ [y EXCEPT !.killed = k].epoch = y.epoch
      /\ [y EXCEPT !.killed = k].lastSeq = y.lastSeq
      /\ [y EXCEPT !.killed = k].highest = y.highest /\ [y EXCEPT !.killed = k].state = y.state
      /\ [y EXCEPT !.killed = k].killed = k
  BY <1>4 DEF Record
<1> QED  BY <1>2, <1>4, <1>5, <1>6

\* Vehicle v takes a report's effects; what it then remembers came from a command,
\* and if that is its last command, the report or an earlier one acknowledged it.
LEMMA OneVehicle ==
  ASSUME DeliveryInv, turn = 0, UNCHANGED <<overdue, turn, epoch, crashes>>,
         NEW v \in Vehicles, NEW x \in Record, vehicle' = [vehicle EXCEPT ![v] = x],
         PubsKept, alarms' \subseteq Alarm,
         status' \in [Vehicles -> GuardStates \cup {None}], topSeq' \in [Vehicles -> Nat],
         \A w \in Vehicles : w # v => status'[w] = status[w] /\ topSeq'[w] = topSeq[w],
         tasks' \subseteq Task, \A t \in tasks' : TaskGood(t),
         \/ x.epoch = 0
         \/ \E p \in DOMAIN pubs : x.epoch = pubs[p].epoch /\ x.lastSeq = pubs[p].seq[v],
         \A p \in DOMAIN pubs :
           IsLast(v, p) /\ x.epoch = pubs[p].epoch /\ x.lastSeq >= pubs[p].seq[v] =>
             /\ topSeq'[v] >= pubs[p].seq[v]
             /\ pubs[p].request = "deactivate" => status'[v] # "ACTIVE"
  PROVE  DeliveryInv'
<1>0. TypeOK /\ Numbered /\ GuardFromCommand /\ TasksGood /\ TakenAcked  BY DEF DeliveryInv
<1>1. /\ vehicle \in [Vehicles -> Record] /\ vehicle' \in [Vehicles -> Record]
      /\ vehicle'[v] = x /\ \A w \in Vehicles : w # v => vehicle'[w] = vehicle[w]
  BY <1>0 DEF TypeOK, Record
<1>2. TypeOK'  BY <1>0, <1>1 DEF TypeOK, PubsKept, Record, Alarm
<1>3. epoch \in Nat /\ epoch' \in Nat /\ epoch <= epoch'  BY <1>0 DEF TypeOK
<1>4. Numbered'  BY <1>0, <1>3, NumbersStay
<1>5. /\ \A p \in DOMAIN pubs : Targets(p)' = Targets(p)
      /\ \A w, p : IsLast(w, p)' <=> IsLast(w, p)
  BY <1>0, KeptSame
<1>6. TasksGood'  BY <1>5 DEF TasksGood, TaskGood, PubsKept
<1>7. TurnSigned'  BY DEF TurnSigned
<1>8. /\ DOMAIN pubs' = DOMAIN pubs
      /\ \A p \in DOMAIN pubs : /\ pubs'[p].epoch = pubs[p].epoch /\ pubs'[p].seq = pubs[p].seq
                                /\ pubs'[p].request = pubs[p].request
  BY DEF PubsKept, SameOrder
<1>9. GuardFromCommand'
  <2> SUFFICES ASSUME NEW w \in Vehicles
               PROVE  \/ vehicle'[w].epoch = 0
                      \/ \E p \in DOMAIN pubs : /\ vehicle'[w].epoch = pubs[p].epoch
                                                /\ vehicle'[w].lastSeq = pubs[p].seq[w]
    BY <1>8 DEF GuardFromCommand
  <2>1. CASE w = v  BY <1>1, <2>1
  <2>2. CASE w # v  BY <1>0, <1>1, <2>2 DEF GuardFromCommand
  <2> QED  BY <2>1, <2>2
<1>10. TakenAcked'
  <2> SUFFICES ASSUME NEW w \in Vehicles, NEW p \in DOMAIN pubs, IsLast(w, p), Took(w, p)'
               PROVE  /\ topSeq'[w] >= pubs[p].seq[w]
                      /\ pubs[p].request = "deactivate" => status'[w] # "ACTIVE"
    BY <1>5, <1>8 DEF TakenAcked, TakenSeen
  <2>1. vehicle'[w].epoch = pubs[p].epoch /\ vehicle'[w].lastSeq >= pubs[p].seq[w]
    BY <1>8 DEF Took
  <2>2. CASE w = v  BY <1>1, <2>1, <2>2
  <2>3. CASE w # v
    <3>1. Took(w, p)  BY <1>1, <2>1, <2>3 DEF Took
    <3> QED  BY <1>0, <2>3, <3>1 DEF TakenAcked, TakenSeen
  <2> QED  BY <2>2, <2>3
<1> QED  BY <1>2, <1>4, <1>6, <1>7, <1>9, <1>10 DEF DeliveryInv

\* A report that comes with no new command: what was taken was acknowledged before.
LEMMA SameCommand ==
  ASSUME DeliveryInv, turn = 0, UNCHANGED <<overdue, turn, epoch, crashes>>,
         NEW v \in Vehicles, NEW q \in DOMAIN pubs, v \in Targets(q),
         NEW x \in Record, vehicle' = [vehicle EXCEPT ![v] = x],
         x.epoch = vehicle[v].epoch, x.lastSeq = vehicle[v].lastSeq,
         NEW r \in Report, Ingest(v, r),
         tasks' \subseteq tasks
  PROVE  DeliveryInv' /\ VerdictsStay
<1>0. TypeOK /\ GuardFromCommand /\ TasksGood /\ TakenAcked  BY DEF DeliveryInv
<1>1. /\ PubsKept /\ VerdictsStay
      /\ status' \in [Vehicles -> GuardStates \cup {None}] /\ topSeq' \in [Vehicles -> Nat]
      /\ alarms' \subseteq Alarm
      /\ \A w \in Vehicles : w # v => status'[w] = status[w] /\ topSeq'[w] = topSeq[w]
      /\ topSeq'[v] >= topSeq[v]
      /\ Violation(v, r) # None => status'[v] = status[v]
      /\ Violation(v, r) = None => status'[v] = r.state
  BY <1>0, IngestDoes
<1>2. tasks' \subseteq Task /\ \A t \in tasks' : TaskGood(t)
  BY <1>0 DEF TypeOK, TasksGood
<1>3. \/ x.epoch = 0
      \/ \E p \in DOMAIN pubs : x.epoch = pubs[p].epoch /\ x.lastSeq = pubs[p].seq[v]
  BY <1>0 DEF GuardFromCommand
<1>4. ASSUME NEW p \in DOMAIN pubs, IsLast(v, p), x.epoch = pubs[p].epoch,
             x.lastSeq >= pubs[p].seq[v]
      PROVE  /\ topSeq'[v] >= pubs[p].seq[v]
             /\ pubs[p].request = "deactivate" => status'[v] # "ACTIVE"
  <2>1. Took(v, p)  BY <1>4 DEF Took
  <2>2. /\ topSeq[v] >= pubs[p].seq[v]
        /\ pubs[p].request = "deactivate" => status[v] # "ACTIVE"
    BY <1>0, <1>4, <2>1 DEF TakenAcked, TakenSeen
  <2>3. /\ topSeq[v] \in Nat /\ topSeq'[v] \in Nat /\ pubs[p].seq[v] \in Nat
    <3>1. pubs[p].seq \in [Vehicles -> Nat]  BY <1>0, RowsOf
    <3> QED  BY <1>0, <1>1, <3>1 DEF TypeOK
  <2>4. LastCommand(v) = p  BY <1>0, <1>4, LastIs, LastOnly
  <2>5. ASSUME pubs[p].request = "deactivate", r.state = "ACTIVE"
        PROVE  Violation(v, r) # None
    <3>1. TookDeactivation(v, r)  BY <2>2, <2>4 DEF TookDeactivation
    <3> QED  BY <2>4, <2>5, <3>1 DEF Violation, None
  <2> QED  BY <1>1, <2>2, <2>3, <2>5
<1> QED  BY <1>0, <1>1, <1>2, <1>3, <1>4, OneVehicle

-----------------------------------------------------------------------------
(* The timers *)

\* What a due timer of a vehicle says.
LEMMA VehicleTimer ==
  ASSUME TypeOK, TasksGood, NEW t \in tasks, t.what \notin {"close", "overdue"}
  PROVE  t.vin \in Vehicles /\ t.pub \in DOMAIN pubs /\ t.pub \in Nat /\ t.vin \in Targets(t.pub)
<1>1. t.pub \in DOMAIN pubs /\ t.vin \in Targets(t.pub)  BY DEF TasksGood, TaskGood
<1> QED  BY <1>1, RowsOf

LEMMA DesiredIs ==
  ASSUME TypeOK, NEW p \in DOMAIN pubs
  PROVE  /\ Desired(p) \in GuardStates
         /\ pubs[p].request = "deactivate" => Desired(p) \in {"INACTIVE", "DISABLED"}
  BY DEF Desired, EndState, GuardStates, DeactStates

LEMMA RefusedKeeps ==
  ASSUME DeliveryInv, NEW t \in tasks, ReceiveRefused(t)
  PROVE  DeliveryInv' /\ VerdictsStay
<1>0. TypeOK /\ TasksGood  BY DEF DeliveryInv
<1>1. t.what = "receive" /\ turn = 0  BY DEF ReceiveRefused, Due
<1>2. PICK v \in Vehicles : v = t.vin  BY <1>0, <1>1, VehicleTimer
<1>3. PICK q \in DOMAIN pubs : q = t.pub /\ q \in Nat /\ v \in Targets(q)
  BY <1>0, <1>1, <1>2, VehicleTimer
<1>4. /\ vehicle' = [vehicle EXCEPT ![v].highest = q]
      /\ Ingest(v, [state |-> vehicle[v].state, result |-> "REJECTED",
                    seq |-> vehicle[v].lastSeq, source |-> "REMOTE"])
      /\ tasks' = tasks \ {t}
      /\ UNCHANGED <<overdue, turn, epoch, crashes>>
  BY <1>2, <1>3 DEF ReceiveRefused
<1>5. vehicle[v] \in Record  BY <1>0 DEF TypeOK, Record
<1>6. PICK x : x = [vehicle[v] EXCEPT !.highest = q]  OBVIOUS
<1>7. /\ x \in Record /\ vehicle' = [vehicle EXCEPT ![v] = x]
      /\ x.epoch = vehicle[v].epoch /\ x.lastSeq = vehicle[v].lastSeq
  BY <1>3, <1>4, <1>5, <1>6 DEF Record
<1>8. PICK r \in Report : Ingest(v, r)  BY <1>4, <1>5 DEF Record, Report
<1>9. tasks' \subseteq tasks  BY <1>4
<1> QED  BY <1>1, <1>3, <1>4, <1>7, <1>8, <1>9, SameCommand

LEMMA StageKeeps ==
  ASSUME DeliveryInv, NEW t \in tasks, NEW what \in {"ramp", "finish", "restored"},
         NEW state \in GuardStates, NEW killed \in BOOLEAN,
         NEW source \in {"REMOTE", "STARTUP"},
         StageFires(t, what, state, killed, source)
  PROVE  DeliveryInv' /\ VerdictsStay
<1>0. TypeOK /\ TasksGood  BY DEF DeliveryInv
<1>1. t.what = what /\ turn = 0  BY DEF StageFires, Due
<1>2. PICK v \in Vehicles : v = t.vin  BY <1>0, <1>1, VehicleTimer
<1>3. PICK q \in DOMAIN pubs : q = t.pub /\ q \in Nat /\ v \in Targets(q)
  BY <1>0, <1>1, <1>2, VehicleTimer
<1>4. /\ vehicle' = [vehicle EXCEPT ![v] = SetState(vehicle[v], state, killed)]
      /\ Ingest(v, [state |-> state, result |-> "NONE", seq |-> pubs[q].seq[v],
                    source |-> source])
      /\ tasks' = tasks \ {t}
      /\ UNCHANGED <<overdue, turn, epoch, crashes>>
  BY <1>2, <1>3 DEF StageFires, Emit
<1>5. vehicle[v] \in Record  BY <1>0 DEF TypeOK, Record
<1>6. PICK x \in Record : /\ x = SetState(vehicle[v], state, killed)
                          /\ x.epoch = vehicle[v].epoch /\ x.lastSeq = vehicle[v].lastSeq
  BY <1>5, StateSet
<1>7. vehicle' = [vehicle EXCEPT ![v] = x]  BY <1>4, <1>6
<1>8. pubs[q].seq[v] \in Nat
  <2>1. pubs[q].seq \in [Vehicles -> Nat]  BY <1>0, RowsOf
  <2> QED  BY <2>1
<1>9. PICK r \in Report : Ingest(v, r)  BY <1>4, <1>8 DEF Report
<1>10. tasks' \subseteq tasks  BY <1>4
<1> QED  BY <1>1, <1>3, <1>4, <1>6, <1>7, <1>9, <1>10, SameCommand

\* The command that is taken is acknowledged by the report that goes with it.
LEMMA EnterKeeps ==
  ASSUME DeliveryInv, turn = 0, UNCHANGED <<overdue, turn, epoch, crashes>>,
         NEW v \in Vehicles, NEW p \in DOMAIN pubs, v \in Targets(p),
         NEW state \in GuardStates, NEW killed \in BOOLEAN,
         state # "ACTIVE", pubs[p].request = "restore" => state \notin DeactStates,
         NEW result \in {"ACCEPTED", "NONE"},
         vehicle' = [vehicle EXCEPT ![v] = SetState(Accepted(v, p), state, killed)],
         Emit(p, v, state, result, "REMOTE"),
         tasks' \subseteq Task, \A t \in tasks' : TaskGood(t)
  PROVE  DeliveryInv' /\ VerdictsStay
<1>0. TypeOK /\ Numbered /\ TasksGood  BY DEF DeliveryInv
<1>1. p \in Nat /\ pubs[p].epoch \in Nat /\ pubs[p].seq[v] \in Nat
  <2>1. pubs[p].seq \in [Vehicles -> Nat]  BY <1>0, RowsOf
  <2> QED  BY <1>0, <2>1, RowsOf
<1>2. vehicle[v] \in Record  BY <1>0 DEF TypeOK, Record
<1>3. PICK y : y = [[[vehicle[v] EXCEPT !.highest = p] EXCEPT !.epoch = pubs[p].epoch]
                      EXCEPT !.lastSeq = pubs[p].seq[v]]
  OBVIOUS
<1>4. y \in Record /\ y.epoch = pubs[p].epoch /\ y.lastSeq = pubs[p].seq[v]
  BY <1>1, <1>2, <1>3 DEF Record
<1>5. y = Accepted(v, p)  BY <1>2, <1>3 DEF Accepted, Record
<1>6. PICK x \in Record : /\ x = SetState(y, state, killed)
                          /\ x.epoch = pubs[p].epoch /\ x.lastSeq = pubs[p].seq[v]
  BY <1>4, StateSet
<1>7. vehicle' = [vehicle EXCEPT ![v] = x]  BY <1>5, <1>6
<1>8. PICK r \in Report : /\ r.state = state /\ r.result = result /\ r.source = "REMOTE"
                          /\ r.seq = pubs[p].seq[v] /\ Ingest(v, r)
  BY <1>1 DEF Emit, Report
<1>9. /\ PubsKept /\ VerdictsStay
      /\ status' \in [Vehicles -> GuardStates \cup {None}] /\ topSeq' \in [Vehicles -> Nat]
      /\ alarms' \subseteq Alarm
      /\ \A w \in Vehicles : w # v => status'[w] = status[w] /\ topSeq'[w] = topSeq[w]
      /\ Violation(v, r) = None =>
           status'[v] = r.state /\ (r.result # "REJECTED" => topSeq'[v] >= r.seq)
  BY <1>0, <1>8, IngestDoes
<1>10. ASSUME NEW q \in DOMAIN pubs, IsLast(v, q), x.epoch = pubs[q].epoch,
              x.lastSeq >= pubs[q].seq[v]
       PROVE  /\ topSeq'[v] >= pubs[q].seq[v]
              /\ pubs[q].request = "deactivate" => status'[v] # "ACTIVE"
  <2>1. CASE p = q
    <3>1. LastCommand(v) = p  BY <1>0, <1>10, <2>1, LastIs, LastOnly
    <3>2. pubs[p].request \in {"deactivate", "restore"}  BY <1>0, RowsOf
    <3>3. ~(r.seq > pubs[p].seq[v])  BY <1>1, <1>8
    <3>4. Violation(v, r) = None  BY <1>8, <3>1, <3>2, <3>3 DEF Violation
    <3> QED  BY <1>8, <1>9, <2>1, <3>4
  <2>2. CASE p # q
    <3>1. q \in Nat /\ p < q /\ v \in Targets(q)  BY <1>0, <1>1, <1>10, <2>2, RowsOf DEF IsLast
    <3>2. pubs[p].seq[v] < pubs[q].seq[v]  BY <1>0, <1>6, <1>10, <3>1 DEF Numbered
    <3>3. pubs[q].seq[v] \in Nat
      <4>1. pubs[q].seq \in [Vehicles -> Nat]  BY <1>0, RowsOf
      <4> QED  BY <4>1
    <3> QED  BY <1>1, <1>6, <1>10, <3>2, <3>3
  <2> QED  BY <2>1, <2>2
<1>11. \E q \in DOMAIN pubs : x.epoch = pubs[q].epoch /\ x.lastSeq = pubs[q].seq[v]
  BY <1>6
<1>12. DeliveryInv'  BY <1>7, <1>9, <1>10, <1>11, OneVehicle
<1> QED  BY <1>9, <1>12

LEMMA TakenKeeps ==
  ASSUME DeliveryInv, NEW t \in tasks, ReceiveTaken(t)
  PROVE  DeliveryInv' /\ VerdictsStay
<1>0. TypeOK /\ TasksGood  BY DEF DeliveryInv
<1>1. t.what = "receive" /\ turn = 0  BY DEF ReceiveTaken, Due
<1>2. PICK v \in Vehicles : v = t.vin  BY <1>0, <1>1, VehicleTimer
<1>3. PICK p \in DOMAIN pubs : p = t.pub /\ p \in Nat /\ v \in Targets(p)
  BY <1>0, <1>1, <1>2, VehicleTimer
<1>4. PICK dc : dc = EffectiveClass(pubs[p].category)  OBVIOUS
<1>5. dc \in {"DC0", "DC1", "DC2", "DC3"}  BY <1>4, ConstantsOK DEF EffectiveClass
<1>6. UNCHANGED <<overdue, turn, epoch, crashes>>  BY DEF ReceiveTaken
<1>7. \/ /\ pubs[p].request = "restore"
         /\ vehicle' = [vehicle EXCEPT ![v] = SetState(Accepted(v, p), "RESTORE_PENDING", FALSE)]
         /\ Emit(p, v, "RESTORE_PENDING", "ACCEPTED", "REMOTE")
         /\ tasks' = (tasks \ {t}) \cup {Timer(CycleDelay, "restored", p, v)}
      \/ /\ pubs[p].request = "deactivate"
         /\ vehicle' = [vehicle EXCEPT ![v] = SetState(Accepted(v, p), Desired(p), TRUE)]
         /\ Emit(p, v, Desired(p), "NONE", "REMOTE")
         /\ tasks' = (tasks \ {t}) \cup {}
      \/ /\ pubs[p].request = "deactivate" /\ dc # "DC0"
         /\ vehicle' = [vehicle EXCEPT ![v] = SetState(Accepted(v, p), Stage[dc], FALSE)]
         /\ Emit(p, v, Stage[dc], "ACCEPTED", "REMOTE")
         /\ tasks' = (tasks \ {t}) \cup
              ({Timer(FinishDelay[dc], "finish", p, v)}
                 \cup IF dc = "DC2" THEN {Timer(Takeover, "ramp", p, v)} ELSE {})
  BY <1>2, <1>3, <1>4 DEF ReceiveTaken
<1>8. ASSUME NEW d \in Nat, NEW what \in {"restored", "finish", "ramp"}
      PROVE  Timer(d, what, p, v) \in Task /\ TaskGood(Timer(d, what, p, v))
  BY <1>3 DEF Timer, Task, TaskGood
<1>9. \A u \in tasks : u \in Task /\ TaskGood(u)  BY <1>0 DEF TypeOK, TasksGood
<1>10. /\ CycleDelay \in Nat /\ Takeover \in Nat
       /\ dc # "DC0" => FinishDelay[dc] \in Nat
  <2>1. /\ IdleDelay \in Nat /\ CycleDelay \in Nat /\ Takeover \in Nat /\ Ramp \in Nat
    BY ConstantsOK
  <2> QED  BY <1>5, <2>1 DEF FinishDelay
<1>11. tasks' \subseteq Task /\ \A u \in tasks' : TaskGood(u)
  <2> SUFFICES ASSUME NEW u \in tasks'  PROVE u \in Task /\ TaskGood(u)
    OBVIOUS
  <2>1. \/ u \in tasks
        \/ u = Timer(CycleDelay, "restored", p, v)
        \/ dc # "DC0" /\ u = Timer(FinishDelay[dc], "finish", p, v)
        \/ u = Timer(Takeover, "ramp", p, v)
    BY <1>7
  <2> QED  BY <1>8, <1>9, <1>10, <2>1
<1>12. CASE /\ pubs[p].request = "restore"
            /\ vehicle' = [vehicle EXCEPT ![v] = SetState(Accepted(v, p), "RESTORE_PENDING", FALSE)]
            /\ Emit(p, v, "RESTORE_PENDING", "ACCEPTED", "REMOTE")
  <2>1. /\ "RESTORE_PENDING" \in GuardStates /\ "RESTORE_PENDING" \notin DeactStates
    BY DEF GuardStates, DeactStates
  <2> QED  BY <1>1, <1>3, <1>6, <1>11, <1>12, <2>1, EnterKeeps
<1>13. CASE /\ pubs[p].request = "deactivate"
            /\ vehicle' = [vehicle EXCEPT ![v] = SetState(Accepted(v, p), Desired(p), TRUE)]
            /\ Emit(p, v, Desired(p), "NONE", "REMOTE")
  <2>1. PICK s \in GuardStates : s = Desired(p) /\ s # "ACTIVE"  BY <1>0, <1>13, DesiredIs
  <2> QED  BY <1>1, <1>3, <1>6, <1>11, <1>13, <2>1, EnterKeeps
<1>14. CASE /\ pubs[p].request = "deactivate" /\ dc # "DC0"
            /\ vehicle' = [vehicle EXCEPT ![v] = SetState(Accepted(v, p), Stage[dc], FALSE)]
            /\ Emit(p, v, Stage[dc], "ACCEPTED", "REMOTE")
  <2>1. PICK s \in GuardStates : s = Stage[dc] /\ s # "ACTIVE"
    BY <1>5, <1>14 DEF Stage, GuardStates, DeactStates
  <2> QED  BY <1>1, <1>3, <1>6, <1>11, <1>14, <2>1, EnterKeeps
<1> QED  BY <1>7, <1>12, <1>13, <1>14

LEMMA CloseKeeps == ASSUME DeliveryInv, NEW t \in tasks, Close(t)  PROVE DeliveryInv' /\ VerdictsStay
<1>0. TypeOK /\ TasksGood  BY DEF DeliveryInv
<1>1. PICK p \in DOMAIN pubs : p = t.pub  BY <1>0 DEF TasksGood, TaskGood
<1>2. /\ turn = 0 /\ turn' = 0 /\ tasks' = tasks \ {t}
      /\ UNCHANGED <<vehicle, status, topSeq, alarms, overdue, epoch, crashes>>
      /\ pubs' = IF pubs[p].status \in OpenStatuses
                   THEN [pubs EXCEPT ![p].status = Outcome(p)] ELSE pubs
  BY <1>1 DEF Close, Due
<1>3. PubsKept /\ VerdictsStay
  <2>1. CASE pubs[p].status \in OpenStatuses
    <3>1. PICK s \in PubStatuses : s = Outcome(p)  BY DEF Outcome, PubStatuses
    <3>2. PICK e : e = [pubs[p] EXCEPT !.status = s]  OBVIOUS
    <3>3. pubs[p] \in Pub  BY <1>0, RowsOf
    <3>4. e \in Pub /\ SameOrder(e, pubs[p])  BY <3>2, <3>3 DEF Pub, SameOrder
    <3>5. pubs' = [pubs EXCEPT ![p] = e]  BY <1>2, <2>1, <3>1, <3>2
    <3>6. PubsKept /\ \A x \in DOMAIN pubs : x # p => pubs'[x] = pubs[x]
      BY <1>0, <3>4, <3>5, OneChanged
    <3> QED  BY <2>1, <3>6 DEF VerdictsStay, Closed
  <2>2. CASE pubs[p].status \notin OpenStatuses  BY <1>0, <1>2, <2>2, NoneChanged
  <2> QED  BY <2>1, <2>2
<1>4. \A u \in tasks' : u \in Task /\ TaskGood(u)  BY <1>0, <1>2 DEF TypeOK, TasksGood
<1>5. TypeOK'  BY <1>0, <1>2, <1>3, <1>4 DEF TypeOK, PubsKept
<1>6. TurnSigned' /\ epoch <= epoch'  BY <1>0, <1>2 DEF TurnSigned, TypeOK
<1> QED  BY <1>2, <1>3, <1>4, <1>5, <1>6, VehiclesStay

-----------------------------------------------------------------------------
(* The clock, the other timers, and failures *)

LEMMA OldKeeps ==
  ASSUME DeliveryInv, NEW t \in tasks, ReceiveOld(t)
  PROVE  DeliveryInv' /\ VerdictsStay
<1>0. TypeOK /\ TasksGood  BY DEF DeliveryInv
<1>1. /\ turn = 0 /\ turn' = 0 /\ tasks' = tasks \ {t} /\ UNCHANGED pubs
      /\ UNCHANGED <<vehicle, status, topSeq, alarms, overdue, epoch, crashes>>
  BY DEF ReceiveOld, Due
<1>2. PubsKept /\ VerdictsStay  BY <1>0, <1>1, NoneChanged
<1>3. \A u \in tasks' : u \in Task /\ TaskGood(u)  BY <1>0, <1>1 DEF TypeOK, TasksGood
<1>4. TypeOK'  BY <1>0, <1>1, <1>3 DEF TypeOK
<1>5. TurnSigned' /\ epoch <= epoch'  BY <1>0, <1>1 DEF TurnSigned, TypeOK
<1> QED  BY <1>1, <1>2, <1>3, <1>4, <1>5, VehiclesStay

LEMMA OverdueKeeps ==
  ASSUME DeliveryInv, NEW t \in tasks, CheckOverdue(t)
  PROVE  DeliveryInv' /\ VerdictsStay
<1>0. TypeOK /\ TasksGood  BY DEF DeliveryInv
<1>1. /\ turn = 0 /\ turn' = 0 /\ tasks' = tasks \ {t} /\ UNCHANGED pubs
      /\ UNCHANGED <<vehicle, status, topSeq, alarms, epoch, crashes>>
      /\ overdue' \subseteq overdue \cup {t.pub}
  BY DEF CheckOverdue, Due
<1>2. PubsKept /\ VerdictsStay  BY <1>0, <1>1, NoneChanged
<1>3. \A u \in tasks' : u \in Task /\ TaskGood(u)  BY <1>0, <1>1 DEF TypeOK, TasksGood
<1>4. t.pub \in Nat  BY <1>0 DEF TypeOK, Task
<1>5. TypeOK'  BY <1>0, <1>1, <1>3, <1>4 DEF TypeOK
<1>6. TurnSigned' /\ epoch <= epoch'  BY <1>0, <1>1 DEF TurnSigned, TypeOK
<1> QED  BY <1>1, <1>2, <1>3, <1>5, <1>6, VehiclesStay

LEMMA TickKeeps == ASSUME DeliveryInv, Tick  PROVE DeliveryInv' /\ VerdictsStay
<1>0. TypeOK /\ TasksGood  BY DEF DeliveryInv
<1>1. /\ turn = 0 /\ turn' = 0 /\ UNCHANGED pubs
      /\ UNCHANGED <<vehicle, status, topSeq, alarms, overdue, epoch, crashes>>
      /\ tasks' = {[t EXCEPT !.left = @ - 1] : t \in tasks}
      /\ \A t \in tasks : t.left > 0
  BY DEF Tick
<1>2. PubsKept /\ VerdictsStay  BY <1>0, <1>1, NoneChanged
<1>3. ASSUME NEW t \in tasks
      PROVE  [t EXCEPT !.left = @ - 1] \in Task /\ TaskGood([t EXCEPT !.left = @ - 1])
  <2>1. t \in Task /\ t.left > 0 /\ TaskGood(t)  BY <1>0, <1>1 DEF TypeOK, TasksGood
  <2>2. PICK n \in Nat : n = t.left - 1  BY <2>1 DEF Task
  <2>3. PICK u : u = [t EXCEPT !.left = n]  OBVIOUS
  <2>4. u \in Task /\ u.pub = t.pub /\ u.what = t.what /\ u.vin = t.vin
    BY <2>1, <2>3 DEF Task
  <2>5. TaskGood(u)  BY <2>1, <2>4 DEF TaskGood
  <2> QED  BY <2>2, <2>3, <2>4, <2>5
<1>4. \A u \in tasks' : u \in Task /\ TaskGood(u)  BY <1>1, <1>3
<1>5. TypeOK'  BY <1>0, <1>1, <1>4 DEF TypeOK
<1>6. TurnSigned' /\ epoch <= epoch'  BY <1>0, <1>1 DEF TurnSigned, TypeOK
<1> QED  BY <1>1, <1>2, <1>4, <1>5, <1>6, VehiclesStay

LEMMA BumpKeeps == ASSUME DeliveryInv, BumpEpoch  PROVE DeliveryInv' /\ VerdictsStay
<1>0. TypeOK /\ TasksGood  BY DEF DeliveryInv
<1>1. /\ turn = 0 /\ turn' = 0 /\ epoch' = epoch + 1 /\ UNCHANGED pubs
      /\ UNCHANGED <<vehicle, status, topSeq, alarms, overdue, tasks, crashes>>
  BY DEF BumpEpoch
<1>2. PubsKept /\ VerdictsStay  BY <1>0, <1>1, NoneChanged
<1>3. \A u \in tasks' : TaskGood(u)  BY <1>0, <1>1 DEF TasksGood
<1>4. TypeOK'  BY <1>0, <1>1 DEF TypeOK
<1>5. TurnSigned' /\ epoch <= epoch'  BY <1>0, <1>1 DEF TurnSigned, TypeOK
<1> QED  BY <1>1, <1>2, <1>3, <1>4, <1>5, VehiclesStay

LEMMA CrashKeeps == ASSUME DeliveryInv, Crash  PROVE DeliveryInv' /\ VerdictsStay
<1>0. TypeOK  BY DEF DeliveryInv
<1>1. /\ turn' = 0 /\ tasks' = {} /\ crashes' = crashes + 1 /\ UNCHANGED pubs
      /\ UNCHANGED <<vehicle, status, topSeq, alarms, overdue, epoch>>
  BY DEF Crash
<1>2. PubsKept /\ VerdictsStay  BY <1>0, <1>1, NoneChanged
<1>3. \A u \in tasks' : TaskGood(u)  BY <1>1
<1>4. TypeOK'  BY <1>0, <1>1 DEF TypeOK
<1>5. TurnSigned' /\ epoch <= epoch'  BY <1>0, <1>1 DEF TurnSigned, TypeOK
<1> QED  BY <1>1, <1>2, <1>3, <1>4, <1>5, VehiclesStay

LEMMA IdleKeeps == ASSUME DeliveryInv, UNCHANGED vars  PROVE DeliveryInv' /\ VerdictsStay
<1>0. TypeOK /\ TasksGood /\ TurnSigned  BY DEF DeliveryInv
<1>1. PubsKept /\ VerdictsStay  BY <1>0, NoneChanged DEF vars
<1>2. \A u \in tasks' : TaskGood(u)  BY <1>0 DEF vars, TasksGood
<1>3. TypeOK' /\ TurnSigned' /\ epoch <= epoch'  BY <1>0 DEF vars, TypeOK, TurnSigned
<1> QED  BY <1>1, <1>2, <1>3, VehiclesStay DEF vars

-----------------------------------------------------------------------------
(* The theorems *)

LEMMA DeliveryInvInit == Init => DeliveryInv
<1> SUFFICES ASSUME Init  PROVE DeliveryInv
  OBVIOUS
<1>1. pubs = << >> /\ DOMAIN pubs = {} /\ pubs \in Seq(Pub)  BY DEF Init
<1>2. TypeOK  BY <1>1 DEF Init, TypeOK, GuardStates, DeactStates
<1>3. Numbered /\ TasksGood /\ TurnSigned /\ TakenAcked
  BY <1>1 DEF Init, Numbered, TasksGood, TurnSigned, TakenAcked
<1>4. GuardFromCommand  BY DEF Init, GuardFromCommand
<1> QED  BY <1>2, <1>3, <1>4 DEF DeliveryInv

LEMMA DeliveryInvNext == DeliveryInv /\ [Next]_vars => DeliveryInv' /\ VerdictsStay
<1> SUFFICES ASSUME DeliveryInv, [Next]_vars  PROVE DeliveryInv' /\ VerdictsStay
  OBVIOUS
<1>0. TypeOK  BY DEF DeliveryInv
<1>1. ASSUME NEW vins \in Lists, NEW category \in Categories, IssueKill(vins, category)
      PROVE  DeliveryInv' /\ VerdictsStay
  <2>1. Len(pubs) + 1 \in Nat  BY <1>0, RowsOf
  <2> QED  BY <1>1, <2>1, PublishKeeps DEF IssueKill
<1>2. ASSUME NEW k \in DOMAIN pubs, IssueRestore(k)  PROVE DeliveryInv' /\ VerdictsStay
  <2>1. k \in Nat /\ pubs[k].category \in Categories /\ pubs[k].vins \in Lists
    BY <1>0, RowsOf
  <2> QED  BY <1>2, <2>1, PublishKeeps DEF IssueRestore
<1>3. CASE Dispatch  BY <1>3, DispatchKeeps
<1>4. ASSUME NEW t \in tasks, ReceiveOld(t)  PROVE DeliveryInv' /\ VerdictsStay
  BY <1>4, OldKeeps
<1>5. ASSUME NEW t \in tasks, ReceiveRefused(t)  PROVE DeliveryInv' /\ VerdictsStay
  BY <1>5, RefusedKeeps
<1>6. ASSUME NEW t \in tasks, ReceiveTaken(t)  PROVE DeliveryInv' /\ VerdictsStay
  BY <1>6, TakenKeeps
<1>7. ASSUME NEW t \in tasks, RampStarts(t)  PROVE DeliveryInv' /\ VerdictsStay
  <2>1. "DEACT_RAMP" \in GuardStates  BY DEF GuardStates, DeactStates
  <2> QED  BY <1>7, <2>1, StageKeeps DEF RampStarts
<1>8. ASSUME NEW t \in tasks, Finish(t)  PROVE DeliveryInv' /\ VerdictsStay
  <2>1. t.pub \in DOMAIN pubs  BY DEF DeliveryInv, TasksGood, TaskGood
  <2>2. Desired(t.pub) \in GuardStates  BY <1>0, <2>1, DesiredIs
  <2> QED  BY <1>8, <2>2, StageKeeps DEF Finish
<1>9. ASSUME NEW t \in tasks, Restored(t)  PROVE DeliveryInv' /\ VerdictsStay
  <2>1. "ACTIVE" \in GuardStates  BY DEF GuardStates
  <2> QED  BY <1>9, <2>1, StageKeeps DEF Restored
<1>10. ASSUME NEW t \in tasks, Close(t)  PROVE DeliveryInv' /\ VerdictsStay
  BY <1>10, CloseKeeps
<1>11. ASSUME NEW t \in tasks, CheckOverdue(t)  PROVE DeliveryInv' /\ VerdictsStay
  BY <1>11, OverdueKeeps
<1>12. CASE RunTimer
  BY <1>4, <1>5, <1>6, <1>7, <1>8, <1>9, <1>10, <1>11, <1>12 DEF RunTimer
<1>13. CASE Tick  BY <1>13, TickKeeps
<1>14. CASE BumpEpoch  BY <1>14, BumpKeeps
<1>15. CASE Crash  BY <1>15, CrashKeeps
<1>16. CASE UNCHANGED vars  BY <1>16, IdleKeeps
<1> QED  BY <1>1, <1>2, <1>3, <1>12, <1>13, <1>14, <1>15, <1>16 DEF Next

\* The shape of the state never changes: every timer, guard record, status and
\* verdict the actions write is one the types allow.
THEOREM DeliveryTyped == Spec => []TypeOK
<1>1. DeliveryInv => TypeOK  BY DEF DeliveryInv
<1> QED  BY <1>1, DeliveryInvInit, DeliveryInvNext, PTL DEF Spec

\* A verdict is final: no readback and no deadline changes the outcome of a
\* closed publication (publication.service.ts, recompute and close).
THEOREM ClosedStaysClosed == Spec => ClosedIsFinal
<1>1. DeliveryInv /\ [Next]_vars
        => [\A p \in DOMAIN pubs : Closed(p) => pubs'[p].status = pubs[p].status]_vars
  BY DeliveryInvNext DEF VerdictsStay
<1> QED  BY <1>1, DeliveryInvInit, DeliveryInvNext, PTL DEF Spec, ClosedIsFinal

\* Whatever timers of earlier commands are still running in a vehicle, the
\* platform never shows a feature as ACTIVE there once the vehicle has taken a
\* kill that is its last command (checkStatusReport, FFG-DEAC-007).
THEOREM TakenNotActive == Spec => []AckedKillNotShownActive
<1>1. DeliveryInv => AckedKillNotShownActive
  <2> SUFFICES ASSUME DeliveryInv, NEW v \in Vehicles, NEW q \in DOMAIN pubs, v \in Targets(q),
                      pubs[LastCommand(v)].request = "deactivate", Took(v, LastCommand(v))
               PROVE  status[v] # "ACTIVE"
    BY DEF AckedKillNotShownActive
  <2>1. IsLast(v, LastCommand(v))  BY LastIs DEF DeliveryInv
  <2>2. PICK p \in DOMAIN pubs : p = LastCommand(v)  BY <2>1 DEF IsLast
  <2> QED  BY <2>1, <2>2 DEF DeliveryInv, TakenAcked, TakenSeen
<1> QED  BY <1>1, DeliveryInvInit, DeliveryInvNext, PTL DEF Spec

-----------------------------------------------------------------------------
(* What the steps do, for the properties that need more than types *)

StageTimers == {"ramp", "finish", "restored"}

\* Timer t moves vehicle v to record x with report r and sets the timers fresh.
Moves(t, v, q, x, r, fresh) ==
  /\ t \in tasks /\ t.vin = v /\ t.pub = q
  /\ v \in Vehicles /\ q \in DOMAIN pubs /\ v \in Targets(q)
  /\ turn = 0 /\ UNCHANGED <<overdue, turn, epoch, crashes>>
  /\ x \in Record /\ vehicle' = [vehicle EXCEPT ![v] = x]
  /\ r \in Report /\ Ingest(v, r)
  /\ tasks' = (tasks \ {t}) \cup fresh

LEMMA SeqIs ==
  ASSUME TypeOK, NEW p \in DOMAIN pubs, NEW v \in Vehicles
  PROVE  pubs[p].seq[v] \in Nat /\ p \in Nat
<1>1. pubs[p].seq \in [Vehicles -> Nat]  BY RowsOf
<1> QED  BY <1>1, RowsOf

LEMMA RecordIs ==
  ASSUME TypeOK, NEW v \in Vehicles
  PROVE  vehicle[v] \in Record /\ topSeq[v] \in Nat
  BY DEF TypeOK, Record

LEMMA RefusedIs ==
  ASSUME DeliveryInv, NEW t \in tasks, ReceiveRefused(t)
  PROVE  \E x, r : /\ Moves(t, t.vin, t.pub, x, r, {}) /\ t.what = "receive"
                   /\ t.pub > vehicle[t.vin].highest /\ GuardRefuses(t.vin, t.pub)
                   /\ x.lastSeq = vehicle[t.vin].lastSeq /\ x.epoch = vehicle[t.vin].epoch
                   /\ r.seq = vehicle[t.vin].lastSeq
<1>0. TypeOK /\ TasksGood  BY DEF DeliveryInv
<1>1. t.what = "receive" /\ turn = 0  BY DEF ReceiveRefused, Due
<1>2. PICK v \in Vehicles : v = t.vin  BY <1>0, <1>1, VehicleTimer
<1>3. PICK q \in DOMAIN pubs : q = t.pub /\ q \in Nat /\ v \in Targets(q)
  BY <1>0, <1>1, <1>2, VehicleTimer
<1>4. /\ vehicle' = [vehicle EXCEPT ![v].highest = q]
      /\ Ingest(v, [state |-> vehicle[v].state, result |-> "REJECTED",
                    seq |-> vehicle[v].lastSeq, source |-> "REMOTE"])
      /\ tasks' = tasks \ {t}
      /\ UNCHANGED <<overdue, turn, epoch, crashes>>
      /\ q > vehicle[v].highest /\ GuardRefuses(v, q)
  BY <1>2, <1>3 DEF ReceiveRefused
<1>5. vehicle[v] \in Record  BY <1>0, RecordIs
<1>6. PICK x : x = [vehicle[v] EXCEPT !.highest = q]  OBVIOUS
<1>7. /\ x \in Record /\ vehicle' = [vehicle EXCEPT ![v] = x]
      /\ x.epoch = vehicle[v].epoch /\ x.lastSeq = vehicle[v].lastSeq
  BY <1>3, <1>4, <1>5, <1>6 DEF Record
<1>8. PICK r \in Report : Ingest(v, r) /\ r.seq = vehicle[v].lastSeq
  BY <1>4, <1>5 DEF Record, Report
<1>9. tasks' = (tasks \ {t}) \cup {}  BY <1>4
<1>10. Moves(t, v, q, x, r, {})
  BY <1>1, <1>2, <1>3, <1>4, <1>7, <1>8, <1>9 DEF Moves
<1> QED  BY <1>1, <1>2, <1>3, <1>4, <1>7, <1>8, <1>10

\* Timers of one duration fire in order.
FiresInOrder(t) ==
  /\ t.left = 0
  /\ \A u \in tasks :
       u.left = 0 /\ u.delay = t.delay /\ u.vin = t.vin /\ u.what # "receive" => t.pub <= u.pub

LEMMA StageIs ==
  ASSUME DeliveryInv, NEW t \in tasks, NEW what \in StageTimers,
         NEW state \in GuardStates, NEW killed \in BOOLEAN,
         NEW source \in {"REMOTE", "STARTUP"},
         StageFires(t, what, state, killed, source)
  PROVE  \E x, r : /\ Moves(t, t.vin, t.pub, x, r, {}) /\ t.what = what /\ FiresInOrder(t)
                   /\ x.lastSeq = vehicle[t.vin].lastSeq /\ x.epoch = vehicle[t.vin].epoch
                   /\ x.highest = vehicle[t.vin].highest /\ x.state = state
                   /\ x.killed = (killed \/ (vehicle[t.vin].killed /\ state # "ACTIVE"))
                   /\ r.state = state /\ r.source = source /\ r.seq = pubs[t.pub].seq[t.vin]
<1>0. TypeOK /\ TasksGood  BY DEF DeliveryInv
<1>1. t.what = what /\ turn = 0 /\ FiresInOrder(t)
  BY DEF StageFires, Due, FiresInOrder, StageTimers
<1>2. PICK v \in Vehicles : v = t.vin  BY <1>0, <1>1, VehicleTimer DEF StageTimers
<1>3. PICK q \in DOMAIN pubs : q = t.pub /\ q \in Nat /\ v \in Targets(q)
  BY <1>0, <1>1, <1>2, VehicleTimer DEF StageTimers
<1>4. /\ vehicle' = [vehicle EXCEPT ![v] = SetState(vehicle[v], state, killed)]
      /\ Ingest(v, [state |-> state, result |-> "NONE", seq |-> pubs[q].seq[v],
                    source |-> source])
      /\ tasks' = tasks \ {t}
      /\ UNCHANGED <<overdue, turn, epoch, crashes>>
  BY <1>2, <1>3 DEF StageFires, Emit
<1>5. vehicle[v] \in Record  BY <1>0, RecordIs
<1>6. PICK x \in Record : /\ x = SetState(vehicle[v], state, killed)
                          /\ x.epoch = vehicle[v].epoch /\ x.lastSeq = vehicle[v].lastSeq
                          /\ x.highest = vehicle[v].highest /\ x.state = state
                          /\ x.killed = (killed \/ (vehicle[v].killed /\ state # "ACTIVE"))
  BY <1>5, StateSet
<1>7. vehicle' = [vehicle EXCEPT ![v] = x]  BY <1>4, <1>6
<1>8. pubs[q].seq[v] \in Nat  BY <1>0, SeqIs
<1>9. PICK r \in Report : /\ Ingest(v, r) /\ r.state = state /\ r.source = source
                          /\ r.seq = pubs[q].seq[v]
  BY <1>4, <1>8 DEF Report
<1>10. tasks' = (tasks \ {t}) \cup {}  BY <1>4
<1>11. Moves(t, v, q, x, r, {})
  BY <1>1, <1>2, <1>3, <1>4, <1>6, <1>7, <1>9, <1>10 DEF Moves
<1> QED  BY <1>1, <1>2, <1>3, <1>6, <1>9, <1>11

\* The timers a command sets in a vehicle.
StagesOf(p, v) ==
  LET dc == EffectiveClass(pubs[p].category) IN
  IF pubs[p].request = "restore" THEN {Timer(CycleDelay, "restored", p, v)}
  ELSE IF dc = "DC0" THEN {}
  ELSE {Timer(FinishDelay[dc], "finish", p, v)}
         \cup IF dc = "DC2" THEN {Timer(Takeover, "ramp", p, v)} ELSE {}

\* A kill without stages takes effect as it is received.
TakenAtOnce(p) == pubs[p].request = "deactivate" /\ EffectiveClass(pubs[p].category) = "DC0"

LEMMA TakenIs ==
  ASSUME DeliveryInv, NEW t \in tasks, ReceiveTaken(t)
  PROVE  \E x, r : /\ Moves(t, t.vin, t.pub, x, r, StagesOf(t.pub, t.vin)) /\ t.what = "receive"
                   /\ t.pub > vehicle[t.vin].highest /\ ~GuardRefuses(t.vin, t.pub)
                   /\ x.highest = t.pub /\ x.epoch = pubs[t.pub].epoch
                   /\ x.lastSeq = pubs[t.pub].seq[t.vin] /\ r.seq = x.lastSeq
                   /\ TakenAtOnce(t.pub) => r.state = Desired(t.pub)
<1>0. TypeOK /\ TasksGood  BY DEF DeliveryInv
<1>1. t.what = "receive" /\ turn = 0  BY DEF ReceiveTaken, Due
<1>2. PICK v \in Vehicles : v = t.vin  BY <1>0, <1>1, VehicleTimer
<1>3. PICK p \in DOMAIN pubs : p = t.pub /\ p \in Nat /\ v \in Targets(p)
  BY <1>0, <1>1, <1>2, VehicleTimer
<1>4. PICK dc : dc = EffectiveClass(pubs[p].category)  OBVIOUS
<1>5. dc \in {"DC0", "DC1", "DC2", "DC3"}  BY <1>4, ConstantsOK DEF EffectiveClass
<1>6. /\ UNCHANGED <<overdue, turn, epoch, crashes>>
      /\ p > vehicle[v].highest /\ ~GuardRefuses(v, p)
  BY <1>2, <1>3 DEF ReceiveTaken
<1>7. pubs[p].request \in {"deactivate", "restore"}  BY <1>0, RowsOf
<1>8. \E s, result, killed :
        /\ s \in GuardStates /\ killed \in BOOLEAN /\ result \in {"ACCEPTED", "NONE"}
        /\ vehicle' = [vehicle EXCEPT ![v] = SetState(Accepted(v, p), s, killed)]
        /\ Emit(p, v, s, result, "REMOTE")
        /\ tasks' = (tasks \ {t}) \cup StagesOf(p, v)
        /\ TakenAtOnce(p) => s = Desired(p)
  <2>1. CASE /\ pubs[p].request = "restore"
             /\ vehicle' = [vehicle EXCEPT ![v] = SetState(Accepted(v, p), "RESTORE_PENDING", FALSE)]
             /\ Emit(p, v, "RESTORE_PENDING", "ACCEPTED", "REMOTE")
             /\ tasks' = (tasks \ {t}) \cup {Timer(CycleDelay, "restored", p, v)}
    <3>1. "RESTORE_PENDING" \in GuardStates  BY DEF GuardStates
    <3> QED  BY <2>1, <3>1 DEF StagesOf, TakenAtOnce
  <2>2. CASE /\ pubs[p].request = "deactivate" /\ dc = "DC0"
             /\ vehicle' = [vehicle EXCEPT ![v] = SetState(Accepted(v, p), Desired(p), TRUE)]
             /\ Emit(p, v, Desired(p), "NONE", "REMOTE")
             /\ tasks' = (tasks \ {t}) \cup {}
    <3>1. Desired(p) \in GuardStates  BY <1>0, DesiredIs
    <3>2. StagesOf(p, v) = {}  BY <1>4, <2>2 DEF StagesOf
    <3> QED  BY <2>2, <3>1, <3>2
  <2>3. CASE /\ pubs[p].request = "deactivate" /\ dc # "DC0"
             /\ vehicle' = [vehicle EXCEPT ![v] = SetState(Accepted(v, p), Stage[dc], FALSE)]
             /\ Emit(p, v, Stage[dc], "ACCEPTED", "REMOTE")
             /\ tasks' = (tasks \ {t}) \cup
                  ({Timer(FinishDelay[dc], "finish", p, v)}
                     \cup IF dc = "DC2" THEN {Timer(Takeover, "ramp", p, v)} ELSE {})
    <3>1. Stage[dc] \in GuardStates  BY <1>5, <2>3 DEF Stage, GuardStates, DeactStates
    <3>2. StagesOf(p, v) = {Timer(FinishDelay[dc], "finish", p, v)}
                     \cup IF dc = "DC2" THEN {Timer(Takeover, "ramp", p, v)} ELSE {}
      BY <1>4, <2>3 DEF StagesOf
    <3>3. ~TakenAtOnce(p)  BY <1>4, <2>3 DEF TakenAtOnce
    <3> QED  BY <2>3, <3>1, <3>2, <3>3
  <2> QED  BY <1>2, <1>3, <1>4, <2>1, <2>2, <2>3 DEF ReceiveTaken
<1>9. PICK s, result, killed :
        /\ s \in GuardStates /\ killed \in BOOLEAN /\ result \in {"ACCEPTED", "NONE"}
        /\ vehicle' = [vehicle EXCEPT ![v] = SetState(Accepted(v, p), s, killed)]
        /\ Emit(p, v, s, result, "REMOTE")
        /\ tasks' = (tasks \ {t}) \cup StagesOf(p, v)
        /\ TakenAtOnce(p) => s = Desired(p)
  BY <1>8
<1>10. pubs[p].epoch \in Nat /\ pubs[p].seq[v] \in Nat /\ vehicle[v] \in Record
  BY <1>0, RowsOf, SeqIs, RecordIs
<1>11. PICK y : y = [[[vehicle[v] EXCEPT !.highest = p] EXCEPT !.epoch = pubs[p].epoch]
                       EXCEPT !.lastSeq = pubs[p].seq[v]]
  OBVIOUS
<1>12. /\ y \in Record /\ y.epoch = pubs[p].epoch /\ y.lastSeq = pubs[p].seq[v]
       /\ y.highest = p
  BY <1>3, <1>10, <1>11 DEF Record
<1>13. y = Accepted(v, p)  BY <1>10, <1>11 DEF Accepted, Record
<1>14. PICK x \in Record : /\ x = SetState(y, s, killed) /\ x.highest = p
                           /\ x.epoch = pubs[p].epoch /\ x.lastSeq = pubs[p].seq[v]
  BY <1>9, <1>12, StateSet
<1>15. vehicle' = [vehicle EXCEPT ![v] = x]  BY <1>9, <1>13, <1>14
<1>16. PICK r \in Report : r.seq = pubs[p].seq[v] /\ r.state = s /\ Ingest(v, r)
  BY <1>9, <1>10 DEF Emit, Report
<1>17. Moves(t, v, p, x, r, StagesOf(p, v))
  BY <1>1, <1>2, <1>3, <1>6, <1>9, <1>14, <1>15, <1>16 DEF Moves
<1> QED  BY <1>1, <1>2, <1>3, <1>6, <1>9, <1>14, <1>16, <1>17

-----------------------------------------------------------------------------
(* One key epoch: what the vehicles report, and what the platform concludes *)

\* Commands are numbered from 1.
SeqsPositive == \A p \in DOMAIN pubs : \A v \in Targets(p) : pubs[p].seq[v] >= 1

\* The platform has not heard of a number the vehicle has not reached.
NotAhead ==
  \A v \in Vehicles : /\ topSeq[v] <= vehicle[v].lastSeq
                      /\ vehicle[v].epoch = 0 => vehicle[v].lastSeq = 0

\* The stages under way are those of commands the vehicle has taken.
StagesTaken ==
  \A t \in tasks : t.what \in StageTimers => pubs[t.pub].seq[t.vin] <= vehicle[t.vin].lastSeq

HeardInv == epoch = 1 /\ SeqsPositive /\ NotAhead /\ StagesTaken

AlarmsTrue == \A a \in alarms' \ alarms : a.code = "ACTIVE_WITHOUT_RESTORE" => Took(a.vin, a.pub)'

\* Every command is of the first epoch.
LEMMA FirstEpoch ==
  ASSUME DeliveryInv, epoch = 1
  PROVE  \A p \in DOMAIN pubs : pubs[p].epoch = 1
<1>0. TypeOK /\ Numbered  BY DEF DeliveryInv
<1>1. ASSUME NEW p \in DOMAIN pubs  PROVE pubs[p].epoch = 1
  <2>1. pubs[p].epoch \in Nat /\ pubs[p].epoch >= 1 /\ pubs[p].epoch <= 1
    BY <1>0, RowsOf DEF Numbered
  <2> QED  BY <2>1
<1> QED  BY <1>1

\* A vehicle's step: its numbers only rise, and it reports no number above them.
LEMMA MovesHeard ==
  ASSUME DeliveryInv, DeliveryInv', HeardInv,
         NEW t, NEW v, NEW q, NEW x, NEW r, NEW fresh, Moves(t, v, q, x, r, fresh),
         x.lastSeq >= vehicle[v].lastSeq, r.seq <= x.lastSeq,
         x.epoch = 0 => x.lastSeq = 0,
         \A u \in fresh : u.vin = v /\ u.pub = q,
         fresh # {} => x.lastSeq = pubs[q].seq[v]
  PROVE  HeardInv' /\ AlarmsTrue
<1>0. TypeOK /\ TypeOK' /\ TasksGood /\ TasksGood'  BY DEF DeliveryInv
<1>1. /\ v \in Vehicles /\ q \in DOMAIN pubs /\ v \in Targets(q) /\ r \in Report /\ x \in Record
      /\ Ingest(v, r) /\ vehicle' = [vehicle EXCEPT ![v] = x] /\ epoch' = epoch
      /\ tasks' = (tasks \ {t}) \cup fresh
  BY DEF Moves
<1>2. /\ PubsKept
      /\ \A w \in Vehicles : w # v => topSeq'[w] = topSeq[w]
      /\ topSeq'[v] \in {topSeq[v], r.seq}
      /\ \A a \in alarms' \ alarms :
           a.vin = v /\ a.code = Violation(v, r) /\ a.pub = LastCommand(v)
  BY <1>0, <1>1, IngestDoes
<1>3. /\ DOMAIN pubs' = DOMAIN pubs
      /\ \A p \in DOMAIN pubs : pubs'[p].seq = pubs[p].seq /\ pubs'[p].epoch = pubs[p].epoch
      /\ \A p \in DOMAIN pubs : Targets(p)' = Targets(p)
  BY <1>0, <1>2, KeptSame DEF PubsKept, SameOrder
<1>4. /\ vehicle'[v] = x /\ \A w \in Vehicles : w # v => vehicle'[w] = vehicle[w]
  BY <1>0, <1>1 DEF TypeOK
<1>5. SeqsPositive'  BY <1>3 DEF HeardInv, SeqsPositive
<1>6. /\ topSeq[v] \in Nat /\ vehicle[v].lastSeq \in Nat /\ x.lastSeq \in Nat /\ r.seq \in Nat
      /\ x.epoch \in Nat /\ topSeq[v] <= vehicle[v].lastSeq
  BY <1>0, <1>1, RecordIs DEF Record, Report, HeardInv, NotAhead
<1>7. topSeq[v] <= x.lastSeq /\ topSeq'[v] <= x.lastSeq  BY <1>2, <1>6
<1>8. NotAhead'
  <2> SUFFICES ASSUME NEW w \in Vehicles
               PROVE  /\ topSeq'[w] <= vehicle'[w].lastSeq
                      /\ vehicle'[w].epoch = 0 => vehicle'[w].lastSeq = 0
    BY DEF NotAhead
  <2>1. CASE w = v  BY <1>4, <1>7, <2>1
  <2>2. CASE w # v  BY <1>2, <1>4, <2>2 DEF HeardInv, NotAhead
  <2> QED  BY <2>1, <2>2
<1>9. StagesTaken'
  <2> SUFFICES ASSUME NEW u \in tasks', u.what \in StageTimers
               PROVE  pubs'[u.pub].seq[u.vin] <= vehicle'[u.vin].lastSeq
    BY DEF StagesTaken
  <2>1. CASE u \in fresh
    <3>1. u.vin = v /\ u.pub = q /\ x.lastSeq = pubs[q].seq[v]  BY <2>1
    <3> QED  BY <1>1, <1>3, <1>4, <1>6, <3>1
  <2>2. CASE u \in tasks
    <3>1. pubs[u.pub].seq[u.vin] <= vehicle[u.vin].lastSeq  BY <2>2 DEF HeardInv, StagesTaken
    <3>2. u.pub \in DOMAIN pubs /\ u.vin \in Vehicles
      BY <1>0, <2>2, VehicleTimer DEF StageTimers
    <3>3. pubs[u.pub].seq[u.vin] \in Nat  BY <1>0, <3>2, SeqIs
    <3>4. CASE u.vin = v  BY <1>3, <1>4, <1>6, <3>1, <3>2, <3>3, <3>4
    <3>5. CASE u.vin # v  BY <1>3, <1>4, <3>1, <3>2, <3>5
    <3> QED  BY <3>4, <3>5
  <2> QED  BY <1>1, <2>1, <2>2
<1>10. AlarmsTrue
  <2> SUFFICES ASSUME NEW a \in alarms' \ alarms, a.code = "ACTIVE_WITHOUT_RESTORE"
               PROVE  Took(a.vin, a.pub)'
    BY DEF AlarmsTrue
  <2>1. a.vin = v /\ Violation(v, r) = "ACTIVE_WITHOUT_RESTORE" /\ a.pub = LastCommand(v)
    BY <1>2
  <2>2. TookDeactivation(v, r)  BY <2>1 DEF Violation, None
  <2>3. PICK p \in DOMAIN pubs : p = LastCommand(v) /\ v \in Targets(p)
    BY <1>0, <1>1, LastIs DEF IsLast
  <2>4. pubs[p].seq[v] \in Nat /\ pubs[p].seq[v] >= 1
    BY <1>0, <1>1, <2>3, SeqIs DEF HeardInv, SeqsPositive
  <2>5. r.seq >= pubs[p].seq[v] \/ topSeq[v] >= pubs[p].seq[v]
    BY <2>2, <2>3 DEF TookDeactivation
  <2>6. x.lastSeq >= pubs[p].seq[v] /\ x.lastSeq # 0  BY <1>6, <1>7, <2>4, <2>5
  <2>7. x.epoch = 1 /\ pubs[p].epoch = 1
    <3>1. \A y \in DOMAIN pubs : pubs[y].epoch = 1  BY FirstEpoch DEF HeardInv
    <3>2. GuardFromCommand'  BY DEF DeliveryInv
    <3>3. \/ vehicle'[v].epoch = 0
          \/ \E y \in DOMAIN pubs : vehicle'[v].epoch = pubs[y].epoch
      BY <1>1, <1>3, <3>2 DEF GuardFromCommand
    <3>4. x.epoch \in {0, 1}  BY <1>4, <3>1, <3>3
    <3> QED  BY <2>6, <3>1, <3>4
  <2> QED  BY <1>3, <1>4, <2>1, <2>3, <2>6, <2>7 DEF Took
<1> QED  BY <1>1, <1>5, <1>8, <1>9, <1>10 DEF HeardInv

\* A step that leaves the vehicles and the orders as they are.
LEMMA StillHeard ==
  ASSUME DeliveryInv, HeardInv, PubsKept, UNCHANGED <<vehicle, topSeq, alarms, epoch>>,
         \A u \in tasks' : u.what \in StageTimers =>
           \E t \in tasks : t.what = u.what /\ t.pub = u.pub /\ t.vin = u.vin
  PROVE  HeardInv' /\ AlarmsTrue
<1>0. TypeOK  BY DEF DeliveryInv
<1>1. /\ DOMAIN pubs' = DOMAIN pubs
      /\ \A p \in DOMAIN pubs : pubs'[p].seq = pubs[p].seq /\ Targets(p)' = Targets(p)
  BY <1>0, KeptSame DEF PubsKept, SameOrder
<1>2. SeqsPositive' /\ NotAhead'  BY <1>1 DEF HeardInv, SeqsPositive, NotAhead
<1>3. StagesTaken'
  <2> SUFFICES ASSUME NEW u \in tasks', u.what \in StageTimers
               PROVE  pubs'[u.pub].seq[u.vin] <= vehicle'[u.vin].lastSeq
    BY DEF StagesTaken
  <2>1. PICK t \in tasks : t.what = u.what /\ t.pub = u.pub /\ t.vin = u.vin  OBVIOUS
  <2>2. t.pub \in DOMAIN pubs  BY DEF DeliveryInv, TasksGood, TaskGood
  <2> QED  BY <1>1, <2>1, <2>2 DEF HeardInv, StagesTaken
<1> QED  BY <1>2, <1>3 DEF HeardInv, AlarmsTrue

LEMMA PublishHeard ==
  ASSUME DeliveryInv, HeardInv, NEW request \in {"deactivate", "restore"}, NEW kill \in Nat,
         NEW category \in Categories, NEW vins \in Lists,
         Publish(request, kill, category, vins),
         UNCHANGED <<vehicle, topSeq, alarms, tasks, epoch>>
  PROVE  HeardInv' /\ AlarmsTrue
<1>0. TypeOK /\ Numbered /\ TasksGood  BY DEF DeliveryInv
<1>1. PICK n \in Nat : n = Len(pubs) + 1  BY <1>0, RowsOf
<1>2. PICK e \in Pub :
        /\ e = NewPub(request, kill, category, vins)
        /\ \A v \in Vehicles : v \in ToSet(e.vins) => e.seq[v] = NextSeq(v)
  BY <1>0, NewPubGood
<1>3. /\ pubs' \in Seq(Pub) /\ DOMAIN pubs' = DOMAIN pubs \cup {n} /\ n \notin DOMAIN pubs
      /\ pubs'[n] = e /\ \A p \in DOMAIN pubs : pubs'[p] = pubs[p]
  <2>1. pubs' = Append(pubs, e)  BY <1>1, <1>2 DEF Publish, NewPub
  <2> QED  BY <1>0, <1>1, <2>1, RowsOf DEF TypeOK
<1>4. SeqsPositive'
  <2> SUFFICES ASSUME NEW p \in DOMAIN pubs', NEW v \in Targets(p)'  PROVE pubs'[p].seq[v] >= 1
    BY DEF SeqsPositive
  <2>1. CASE p = n
    <3>1. v \in ToSet(e.vins)  BY <1>3, <2>1 DEF Targets
    <3>2. e.vins \in Seq(Vehicles)  BY ConstantsOK DEF Pub
    <3>3. v \in Vehicles  BY <3>1, <3>2 DEF ToSet
    <3>4. NextSeq(v) >= 1  BY <1>0, <3>3, NextSeqAbove
    <3> QED  BY <1>2, <1>3, <2>1, <3>1, <3>3, <3>4
  <2>2. CASE p \in DOMAIN pubs
    <3>1. v \in Targets(p)  BY <1>3, <2>2 DEF Targets
    <3> QED  BY <1>3, <2>2, <3>1 DEF HeardInv, SeqsPositive
  <2> QED  BY <1>3, <2>1, <2>2
<1>5. NotAhead'  BY DEF HeardInv, NotAhead
<1>6. StagesTaken'
  BY <1>0, <1>3 DEF HeardInv, StagesTaken, TasksGood, TaskGood
<1> QED  BY <1>4, <1>5, <1>6 DEF HeardInv, AlarmsTrue

\* A vehicle's guard is at no epoch but the first.
LEMMA GuardEpoch ==
  ASSUME DeliveryInv, epoch = 1, NEW v \in Vehicles
  PROVE  vehicle[v].epoch \in {0, 1}
  BY FirstEpoch DEF DeliveryInv, GuardFromCommand

LEMMA DispatchDoes ==
  ASSUME TypeOK, turn \in DOMAIN pubs, Dispatch
  PROVE  PubsKept
<1>1. PICK p \in DOMAIN pubs : p = turn  OBVIOUS
<1>2. PICK e : e = [pubs[p] EXCEPT !.status = "DISPATCHED"]  OBVIOUS
<1>3. e \in Pub /\ SameOrder(e, pubs[p])
  <2>1. "DISPATCHED" \in PubStatuses  BY DEF PubStatuses, OpenStatuses
  <2> QED  BY <1>2, <2>1, RowsOf, RowStatus
<1>4. pubs' = [pubs EXCEPT ![p] = e]  BY <1>1, <1>2 DEF Dispatch
<1> QED  BY <1>3, <1>4, OneChanged

LEMMA CloseDoes ==
  ASSUME DeliveryInv, NEW t \in tasks, Close(t)
  PROVE  PubsKept
<1>0. TypeOK  BY DEF DeliveryInv
<1>1. PICK p \in DOMAIN pubs : p = t.pub  BY DEF DeliveryInv, TasksGood, TaskGood
<1>2. CASE pubs' = pubs  BY <1>0, <1>2, NoneChanged
<1>3. CASE pubs' # pubs
  <2>1. PICK s \in PubStatuses : s = Outcome(p)  BY DEF Outcome, PubStatuses
  <2>2. PICK e : e = [pubs[p] EXCEPT !.status = s]  OBVIOUS
  <2>3. e \in Pub /\ SameOrder(e, pubs[p])  BY <1>0, <2>2, RowsOf, RowStatus
  <2>4. pubs' = [pubs EXCEPT ![p] = e]  BY <1>1, <1>3, <2>1, <2>2 DEF Close
  <2> QED  BY <1>0, <2>3, <2>4, OneChanged
<1> QED  BY <1>2, <1>3

\* The timers a dispatch sets.
LEMMA TimersOf ==
  ASSUME NEW p
  PROVE  /\ \A u \in Deliveries(p) : u.what = "receive"
         /\ \A u \in Watches(p) : u.what \in {"close", "overdue"}
<1>1. \A d, what, v : Timer(d, what, p, v).what = what  BY DEF Timer
<1>2. ASSUME NEW u \in Deliveries(p)  PROVE u.what = "receive"
  <2>1. \E d, v : u = Timer(d, "receive", p, v)  BY DEF Deliveries
  <2> QED  BY <1>1, <2>1
<1>3. \A u \in Watches(p) : u.what \in {"close", "overdue"}  BY <1>1 DEF Watches
<1> QED  BY <1>2, <1>3

LEMMA DispatchHeard == ASSUME DeliveryInv, HeardInv, Dispatch  PROVE HeardInv' /\ AlarmsTrue
<1>0. TypeOK /\ TurnSigned  BY DEF DeliveryInv
<1>1. PICK p \in DOMAIN pubs : p = turn  BY <1>0 DEF Dispatch, TurnSigned
<1>2. PubsKept  BY <1>0, <1>1, DispatchDoes
<1>3. \A u \in Deliveries(p) \cup Watches(p) : u.what \notin StageTimers
  BY TimersOf DEF StageTimers
<1> QED  BY <1>1, <1>2, <1>3, StillHeard DEF Dispatch

\* Stage and receive timers that only fire, and timers of the platform.
LEMMA TimerHeard ==
  ASSUME DeliveryInv, DeliveryInv', HeardInv, NEW t \in tasks,
         \/ ReceiveOld(t) \/ ReceiveRefused(t) \/ ReceiveTaken(t)
         \/ RampStarts(t) \/ Finish(t) \/ Restored(t) \/ Close(t) \/ CheckOverdue(t)
  PROVE  HeardInv' /\ AlarmsTrue
<1>0. TypeOK /\ TasksGood  BY DEF DeliveryInv
<1>1. CASE ReceiveOld(t) \/ CheckOverdue(t)
  <2>1. PubsKept  BY <1>0, <1>1, NoneChanged DEF ReceiveOld, CheckOverdue
  <2> QED  BY <1>1, <2>1, StillHeard DEF ReceiveOld, CheckOverdue
<1>2. CASE Close(t)
  <2>1. PubsKept  BY <1>2, CloseDoes
  <2> QED  BY <1>2, <2>1, StillHeard DEF Close
<1>3. CASE ReceiveRefused(t)
  <2>1. PICK x, r : /\ Moves(t, t.vin, t.pub, x, r, {})
                    /\ x.lastSeq = vehicle[t.vin].lastSeq /\ x.epoch = vehicle[t.vin].epoch
                    /\ r.seq = vehicle[t.vin].lastSeq
    BY <1>3, RefusedIs
  <2>2. t.vin \in Vehicles  BY <2>1 DEF Moves
  <2>3. vehicle[t.vin].lastSeq \in Nat  BY <1>0, <2>2, RecordIs DEF Record
  <2>4. x.lastSeq >= vehicle[t.vin].lastSeq /\ r.seq <= x.lastSeq  BY <2>1, <2>3
  <2>5. x.epoch = 0 => x.lastSeq = 0  BY <2>1, <2>2 DEF HeardInv, NotAhead
  <2> QED  BY <2>1, <2>4, <2>5, MovesHeard
<1>4. CASE ReceiveTaken(t)
  <2>1. PICK x, r : /\ Moves(t, t.vin, t.pub, x, r, StagesOf(t.pub, t.vin))
                    /\ ~GuardRefuses(t.vin, t.pub)
                    /\ x.epoch = pubs[t.pub].epoch /\ x.lastSeq = pubs[t.pub].seq[t.vin]
                    /\ r.seq = x.lastSeq
    BY <1>4, TakenIs
  <2>2. t.vin \in Vehicles /\ t.pub \in DOMAIN pubs /\ t.vin \in Targets(t.pub)
    BY <2>1 DEF Moves
  <2>3. pubs[t.pub].epoch = 1  BY <2>2, FirstEpoch DEF HeardInv
  <2>4. /\ pubs[t.pub].seq[t.vin] \in Nat /\ pubs[t.pub].seq[t.vin] >= 1
        /\ vehicle[t.vin].lastSeq \in Nat
    BY <1>0, <2>2, SeqIs, RecordIs DEF HeardInv, SeqsPositive, Record
  <2>5. vehicle[t.vin].epoch \in {0, 1}  BY <1>0, <2>2, GuardEpoch DEF HeardInv
  <2>6. \/ vehicle[t.vin].lastSeq = 0
        \/ ~(pubs[t.pub].seq[t.vin] <= vehicle[t.vin].lastSeq)
    BY <2>1, <2>2, <2>3, <2>5 DEF GuardRefuses, HeardInv, NotAhead
  <2>7. x.lastSeq >= vehicle[t.vin].lastSeq /\ r.seq <= x.lastSeq /\ x.epoch # 0
    BY <2>1, <2>3, <2>4, <2>6
  <2>8. \A u \in StagesOf(t.pub, t.vin) : u.vin = t.vin /\ u.pub = t.pub
    BY DEF StagesOf, Timer
  <2> QED  BY <2>1, <2>7, <2>8, MovesHeard
<1>5. CASE RampStarts(t) \/ Finish(t) \/ Restored(t)
  <2>1. \E x, r : /\ Moves(t, t.vin, t.pub, x, r, {}) /\ t.what \in StageTimers
                  /\ x.lastSeq = vehicle[t.vin].lastSeq /\ x.epoch = vehicle[t.vin].epoch
                  /\ r.seq = pubs[t.pub].seq[t.vin]
    <3>1. "DEACT_RAMP" \in GuardStates /\ "ACTIVE" \in GuardStates
      BY DEF GuardStates, DeactStates
    <3>2. Desired(t.pub) \in GuardStates  BY <1>0, DesiredIs DEF TasksGood, TaskGood
    <3>3. ASSUME NEW what \in StageTimers, NEW state \in GuardStates, NEW killed \in BOOLEAN,
                 NEW source \in {"REMOTE", "STARTUP"}, StageFires(t, what, state, killed, source)
          PROVE  \E x, r : /\ Moves(t, t.vin, t.pub, x, r, {}) /\ t.what \in StageTimers
                           /\ x.lastSeq = vehicle[t.vin].lastSeq /\ x.epoch = vehicle[t.vin].epoch
                           /\ r.seq = pubs[t.pub].seq[t.vin]
      <4>1. PICK x, r : /\ Moves(t, t.vin, t.pub, x, r, {}) /\ t.what = what
                        /\ x.lastSeq = vehicle[t.vin].lastSeq /\ x.epoch = vehicle[t.vin].epoch
                        /\ r.seq = pubs[t.pub].seq[t.vin]
        BY <3>3, StageIs
      <4> QED  BY <4>1
    <3>4. "ramp" \in StageTimers /\ "finish" \in StageTimers /\ "restored" \in StageTimers
      BY DEF StageTimers
    <3> QED  BY <1>5, <3>1, <3>2, <3>3, <3>4 DEF RampStarts, Finish, Restored
  <2>2. PICK x, r : /\ Moves(t, t.vin, t.pub, x, r, {}) /\ t.what \in StageTimers
                    /\ x.lastSeq = vehicle[t.vin].lastSeq /\ x.epoch = vehicle[t.vin].epoch
                    /\ r.seq = pubs[t.pub].seq[t.vin]
    BY <2>1
  <2>3. t.vin \in Vehicles  BY <2>2 DEF Moves
  <2>4. vehicle[t.vin].lastSeq \in Nat  BY <1>0, <2>3, RecordIs DEF Record
  <2>5. x.lastSeq >= vehicle[t.vin].lastSeq /\ r.seq <= x.lastSeq
    BY <2>2, <2>4 DEF HeardInv, StagesTaken
  <2>6. x.epoch = 0 => x.lastSeq = 0  BY <2>2, <2>3 DEF HeardInv, NotAhead
  <2> QED  BY <2>2, <2>5, <2>6, MovesHeard
<1> QED  BY <1>1, <1>2, <1>3, <1>4, <1>5

LEMMA HeardNext ==
  ASSUME MaxEpoch = 1, DeliveryInv, DeliveryInv', HeardInv, [Next]_vars
  PROVE  HeardInv' /\ AlarmsTrue
<1>0. TypeOK  BY DEF DeliveryInv
<1>1. ASSUME NEW vins \in Lists, NEW category \in Categories, IssueKill(vins, category)
      PROVE  HeardInv' /\ AlarmsTrue
  <2>1. Len(pubs) + 1 \in Nat  BY <1>0, RowsOf
  <2> QED  BY <1>1, <2>1, PublishHeard DEF IssueKill
<1>2. ASSUME NEW k \in DOMAIN pubs, IssueRestore(k)  PROVE HeardInv' /\ AlarmsTrue
  <2>1. k \in Nat /\ pubs[k].category \in Categories /\ pubs[k].vins \in Lists
    BY <1>0, RowsOf
  <2> QED  BY <1>2, <2>1, PublishHeard DEF IssueRestore
<1>3. CASE Dispatch  BY <1>3, DispatchHeard
<1>4. CASE RunTimer  BY <1>4, TimerHeard DEF RunTimer
<1>5. CASE Tick
  <2>1. PubsKept  BY <1>0, <1>5, NoneChanged DEF Tick
  <2>2. ASSUME NEW t \in tasks, NEW u, u = [t EXCEPT !.left = @ - 1]
        PROVE  u.what = t.what /\ u.pub = t.pub /\ u.vin = t.vin
    <3>1. t \in Task  BY <1>0 DEF TypeOK
    <3> QED  BY <2>2, <3>1 DEF Task
  <2>3. \A u \in tasks' : \E t \in tasks : u = [t EXCEPT !.left = @ - 1]  BY <1>5 DEF Tick
  <2>4. \A u \in tasks' : \E t \in tasks : u.what = t.what /\ u.pub = t.pub /\ u.vin = t.vin
    BY <2>2, <2>3
  <2> QED  BY <1>5, <2>1, <2>4, StillHeard DEF Tick
<1>6. CASE BumpEpoch  BY <1>6 DEF BumpEpoch, HeardInv
<1>7. CASE Crash
  <2>1. PubsKept  BY <1>0, <1>7, NoneChanged DEF Crash
  <2> QED  BY <1>7, <2>1, StillHeard DEF Crash
<1>8. CASE UNCHANGED vars
  <2>1. PubsKept  BY <1>0, <1>8, NoneChanged DEF vars
  <2> QED  BY <1>8, <2>1, StillHeard DEF vars
<1> QED  BY <1>1, <1>2, <1>3, <1>4, <1>5, <1>6, <1>7, <1>8 DEF Next

LEMMA HeardInit == Init => HeardInv
  BY DEF Init, HeardInv, SeqsPositive, NotAhead, StagesTaken

\* As long as the key epoch has not been bumped, the incident "the safety kill came
\* loose" is raised only for a vehicle whose guard has taken the deactivation it
\* names, whatever reports of earlier commands arrive late (checkStatusReport,
\* tookDeactivation).
THEOREM AlarmAlwaysTrue == MaxEpoch = 1 /\ Spec => LooseKillAlarmIsTrue
<1>1. Init /\ MaxEpoch = 1 => MaxEpoch = 1 /\ DeliveryInv /\ HeardInv
  BY DeliveryInvInit, HeardInit
<1>2. (MaxEpoch = 1 /\ DeliveryInv /\ HeardInv) /\ [Next]_vars
        => (MaxEpoch = 1 /\ DeliveryInv /\ HeardInv)'
           /\ [\A a \in alarms' \ alarms : a.code = "ACTIVE_WITHOUT_RESTORE" => Took(a.vin, a.pub)']_vars
  BY DeliveryInvNext, HeardNext DEF AlarmsTrue
<1> QED  BY <1>1, <1>2, PTL DEF Spec, LooseKillAlarmIsTrue

-----------------------------------------------------------------------------
(* When everything has arrived: one key epoch, no crash, every vehicle on its *)
(* link, and every stage lasting until the next start                        *)

QuietConstants ==
  /\ MaxEpoch = 1 /\ MaxCrashes = 0 /\ Offline = {}
  /\ \A c \in Categories : c # "COMMERCIAL" /\ EffectiveClass(c) = "DC3"

StageOf(v) == {t \in tasks : t.what \in StageTimers /\ t.vin = v}

\* A kill in force is the last command of its vehicles.
OneKill == \A k \in DOMAIN pubs : InForce(k) => \A v \in Targets(k) : IsLast(v, k)

\* A restore follows its kill and covers the same vehicles.
RestoresLater ==
  \A p \in DOMAIN pubs : pubs[p].request = "restore" =>
    /\ pubs[p].kill \in DOMAIN pubs /\ pubs[p].kill < p
    /\ pubs[p].vins = pubs[pubs[p].kill].vins

\* A vehicle without a command is as it was built.
Untouched(v) ==
  (\A p \in DOMAIN pubs : v \notin Targets(p)) =>
    ~vehicle[v].killed /\ status[v] = None /\ vehicle[v].highest = 0

\* A stage has one timer, of one duration, and that of a later command fires later.
StagesInOrder(v) ==
  /\ \A t \in StageOf(v) :
       /\ t.pub <= vehicle[v].highest /\ t.delay = CycleDelay /\ t.left <= CycleDelay
       /\ t.what = IF pubs[t.pub].request = "restore" THEN "restored" ELSE "finish"
  /\ \A t, u \in StageOf(v) : /\ t.pub < u.pub => t.left <= u.left
                              /\ t.pub = u.pub => t = u

\* The number the guard remembers is that of a command it has received.
NumbersKept(v) ==
  \/ vehicle[v].lastSeq = 0
  \/ \E q \in DOMAIN pubs : /\ v \in Targets(q) /\ q <= vehicle[v].highest
                            /\ vehicle[v].lastSeq = pubs[q].seq[v]

Coming(v, p) == turn = p \/ \E t \in tasks : t.what = "receive" /\ t.pub = p /\ t.vin = v

Arrived(v, p) ==
  /\ vehicle[v].state = Desired(p) /\ (vehicle[v].killed <=> pubs[p].request = "deactivate")
  /\ status[v] = vehicle[v].state /\ StageOf(v) = {}

\* The last command of a vehicle is on its way, at work in the vehicle, or done.
UnderWay(v) ==
  \A p \in DOMAIN pubs : IsLast(v, p) =>
    /\ vehicle[v].highest <= p
    /\ vehicle[v].highest < p => Coming(v, p)
    /\ vehicle[v].highest = p => (\E t \in StageOf(v) : t.pub = p) \/ Arrived(v, p)

CarInv(v) == Untouched(v) /\ StagesInOrder(v) /\ NumbersKept(v) /\ UnderWay(v)

QuietInv == OneKill /\ RestoresLater /\ \A v \in Vehicles : CarInv(v)

\* A timer a tick later.
SameTimer(u, t) ==
  /\ u.what = t.what /\ u.pub = t.pub /\ u.vin = t.vin /\ u.delay = t.delay
  /\ u.left = t.left - 1

LEMMA OrdersKept ==
  ASSUME TypeOK, PubsKept, OneKill, RestoresLater
  PROVE  /\ OneKill' /\ RestoresLater'
         /\ \A p \in DOMAIN pubs : Desired(p)' = Desired(p)
<1>1. /\ \A p \in DOMAIN pubs : Targets(p)' = Targets(p)
      /\ \A v, p : IsLast(v, p)' <=> IsLast(v, p)
  BY KeptSame
<1>2. \A k \in DOMAIN pubs : InForce(k)' <=> InForce(k)  BY DEF InForce, PubsKept, SameOrder
<1>3. OneKill'  BY <1>1, <1>2 DEF OneKill, PubsKept
<1>4. RestoresLater'  BY DEF RestoresLater, PubsKept, SameOrder
<1>5. \A p \in DOMAIN pubs : Desired(p)' = Desired(p)
  BY DEF Desired, EndState, PubsKept, SameOrder
<1> QED  BY <1>3, <1>4, <1>5

\* A step that does not concern vehicle v.
LEMMA SameCar ==
  ASSUME TypeOK, TasksGood, PubsKept, OneKill, RestoresLater, NEW v \in Vehicles, CarInv(v),
         vehicle'[v] = vehicle[v], status'[v] = status[v], StageOf(v)' = StageOf(v),
         \A p \in DOMAIN pubs :
           IsLast(v, p) /\ vehicle[v].highest < p /\ Coming(v, p) => Coming(v, p)'
  PROVE  CarInv(v)'
<1>1. /\ DOMAIN pubs' = DOMAIN pubs
      /\ \A p \in DOMAIN pubs : pubs'[p].seq = pubs[p].seq /\ pubs'[p].request = pubs[p].request
      /\ \A p \in DOMAIN pubs : Targets(p)' = Targets(p)
      /\ \A p : IsLast(v, p)' <=> IsLast(v, p)
      /\ \A p \in DOMAIN pubs : Desired(p)' = Desired(p)
  BY KeptSame, OrdersKept DEF PubsKept, SameOrder
<1>2. \A t \in StageOf(v) : t.pub \in DOMAIN pubs  BY DEF StageOf, TasksGood, TaskGood
<1>3. Untouched(v)'  BY <1>1 DEF CarInv, Untouched
<1>4. StagesInOrder(v)'  BY <1>1, <1>2 DEF CarInv, StagesInOrder
<1>5. NumbersKept(v)'  BY <1>1 DEF CarInv, NumbersKept
<1>6. UnderWay(v)'
  <2> SUFFICES ASSUME NEW p \in DOMAIN pubs, IsLast(v, p)
               PROVE  /\ vehicle'[v].highest <= p
                      /\ vehicle'[v].highest < p => Coming(v, p)'
                      /\ vehicle'[v].highest = p =>
                           (\E t \in StageOf(v)' : t.pub = p) \/ Arrived(v, p)'
    BY <1>1 DEF UnderWay
  <2>1. Arrived(v, p) => Arrived(v, p)'  BY <1>1 DEF Arrived
  <2> QED  BY <2>1 DEF CarInv, UnderWay
<1> QED  BY <1>3, <1>4, <1>5, <1>6 DEF CarInv

\* Until it has received its last command, a vehicle's guard lets commands in.
LEMMA Accepting ==
  ASSUME DeliveryInv, HeardInv, NEW v \in Vehicles, NumbersKept(v),
         NEW q \in DOMAIN pubs, v \in Targets(q), q > vehicle[v].highest
  PROVE  ~GuardRefuses(v, q)
<1>0. TypeOK /\ Numbered  BY DEF DeliveryInv
<1>1. pubs[q].epoch = 1 /\ epoch = 1  BY FirstEpoch DEF HeardInv
<1>2. pubs[q].seq[v] \in Nat /\ q \in Nat /\ vehicle[v].lastSeq \in Nat /\ vehicle[v].highest \in Nat
  BY <1>0, SeqIs, RecordIs DEF Record
<1>3. pubs[q].seq[v] >= 1  BY DEF HeardInv, SeqsPositive
<1>4. vehicle[v].lastSeq < pubs[q].seq[v]
  <2>1. CASE vehicle[v].lastSeq = 0  BY <1>2, <1>3, <2>1
  <2>2. ASSUME NEW p \in DOMAIN pubs, p <= vehicle[v].highest, vehicle[v].lastSeq = pubs[p].seq[v]
        PROVE  vehicle[v].lastSeq < pubs[q].seq[v]
    <3>1. pubs[p].epoch = 1 /\ p \in Nat  BY <1>0, FirstEpoch, SeqIs DEF HeardInv
    <3>2. p < q  BY <1>2, <2>2, <3>1
    <3> QED  BY <1>0, <1>1, <2>2, <3>1, <3>2 DEF Numbered
  <2> QED  BY <2>1, <2>2 DEF NumbersKept
<1> QED  BY <1>1, <1>2, <1>4 DEF GuardRefuses

\* The command that is taken puts one stage on a timer, behind those under way.
LEMMA TakenQuiet ==
  ASSUME QuietConstants, DeliveryInv, HeardInv, QuietInv, NEW t \in tasks, ReceiveTaken(t)
  PROVE  QuietInv'
<1>0. TypeOK /\ TasksGood /\ OneKill /\ RestoresLater  BY DEF DeliveryInv, QuietInv
<1>1. PICK x, r : /\ Moves(t, t.vin, t.pub, x, r, StagesOf(t.pub, t.vin)) /\ t.what = "receive"
                  /\ t.pub > vehicle[t.vin].highest /\ x.highest = t.pub
                  /\ x.lastSeq = pubs[t.pub].seq[t.vin]
  BY TakenIs
<1>2. PICK v \in Vehicles, q \in DOMAIN pubs : v = t.vin /\ q = t.pub /\ v \in Targets(q)
  BY <1>1 DEF Moves
<1>3. /\ turn = 0 /\ turn' = 0 /\ vehicle' = [vehicle EXCEPT ![v] = x] /\ x \in Record
      /\ r \in Report /\ Ingest(v, r) /\ tasks' = (tasks \ {t}) \cup StagesOf(q, v)
      /\ q > vehicle[v].highest /\ x.highest = q /\ x.lastSeq = pubs[q].seq[v]
  BY <1>1, <1>2 DEF Moves
<1>4. PubsKept /\ \A w \in Vehicles : w # v => status'[w] = status[w]  BY <1>0, <1>2, <1>3, IngestDoes
<1>5. OneKill' /\ RestoresLater'  BY <1>0, <1>4, OrdersKept
<1>6. vehicle'[v] = x /\ \A w \in Vehicles : w # v => vehicle'[w] = vehicle[w]
  BY <1>0, <1>3 DEF TypeOK
<1>7. PICK what \in {"restored", "finish"} :
        /\ what = IF pubs[q].request = "restore" THEN "restored" ELSE "finish"
        /\ StagesOf(q, v) = {Timer(CycleDelay, what, q, v)}
  <2>1. EffectiveClass(pubs[q].category) = "DC3"  BY <1>0, RowsOf DEF QuietConstants
  <2>2. FinishDelay["DC3"] = CycleDelay  BY DEF FinishDelay
  <2> QED  BY <2>1, <2>2 DEF StagesOf
<1>8. PICK f : f = Timer(CycleDelay, what, q, v)  OBVIOUS
<1>9. /\ f.left = CycleDelay /\ f.delay = CycleDelay /\ f.what = what /\ f.pub = q /\ f.vin = v
      /\ tasks' = (tasks \ {t}) \cup {f} /\ f.what \in StageTimers
  BY <1>3, <1>7, <1>8 DEF Timer, StageTimers
<1>10. StageOf(v)' = StageOf(v) \cup {f}  BY <1>1, <1>9 DEF StageOf, StageTimers
<1>11. ASSUME NEW w \in Vehicles, w # v  PROVE CarInv(w)'
  <2>1. StageOf(w)' = StageOf(w)  BY <1>1, <1>9, <1>11 DEF StageOf, StageTimers
  <2>2. \A p : Coming(w, p) => Coming(w, p)'  BY <1>2, <1>3, <1>9, <1>11 DEF Coming
  <2> QED  BY <1>0, <1>4, <1>6, <1>11, <2>1, <2>2, SameCar DEF QuietInv
<1>12. CarInv(v)'
  <2>0. /\ DOMAIN pubs' = DOMAIN pubs
        /\ \A p \in DOMAIN pubs : pubs'[p].seq = pubs[p].seq /\ pubs'[p].request = pubs[p].request
        /\ \A p \in DOMAIN pubs : Targets(p)' = Targets(p)
        /\ \A p : IsLast(v, p)' <=> IsLast(v, p)
    BY <1>0, <1>4, KeptSame DEF PubsKept, SameOrder
  <2>1. CarInv(v)  BY DEF QuietInv
  <2>2. q \in Nat /\ vehicle[v].highest \in Nat /\ CycleDelay \in Nat
    BY <1>0, SeqIs, RecordIs, ConstantsOK DEF Record
  <2>3. Untouched(v)'  BY <1>2, <2>0 DEF Untouched
  <2>4. NumbersKept(v)'  BY <1>2, <1>3, <1>6, <2>0, <2>2 DEF NumbersKept
  <2>5. \A u \in StageOf(v) : u.pub \in DOMAIN pubs /\ u.pub \in Nat /\ u.pub < q
    <3> SUFFICES ASSUME NEW u \in StageOf(v)  PROVE u.pub \in DOMAIN pubs /\ u.pub \in Nat /\ u.pub < q
      OBVIOUS
    <3>1. u.pub \in DOMAIN pubs /\ u.pub \in Nat  BY <1>0, VehicleTimer DEF StageOf, StageTimers
    <3>2. u.pub <= vehicle[v].highest  BY <2>1 DEF CarInv, StagesInOrder
    <3> QED  BY <1>3, <2>2, <3>1, <3>2
  <2>6. StagesInOrder(v)'
    <3>1. \A u \in StageOf(v)' :
            /\ u.pub <= q /\ u.delay = CycleDelay /\ u.left <= CycleDelay
            /\ u.what = IF pubs'[u.pub].request = "restore" THEN "restored" ELSE "finish"
      <4> SUFFICES ASSUME NEW u \in StageOf(v)'
                   PROVE  /\ u.pub <= q /\ u.delay = CycleDelay /\ u.left <= CycleDelay
                          /\ u.what = IF pubs'[u.pub].request = "restore" THEN "restored" ELSE "finish"
        OBVIOUS
      <4>1. CASE u = f  BY <1>7, <1>9, <2>0, <2>2, <4>1
      <4>2. CASE u \in StageOf(v)
        <5>1. u.pub <= q  BY <2>2, <2>5, <4>2
        <5> QED  BY <2>0, <2>1, <2>5, <4>2, <5>1 DEF CarInv, StagesInOrder
      <4> QED  BY <1>10, <4>1, <4>2
    <3>2. ASSUME NEW u \in StageOf(v)', NEW w \in StageOf(v)'
          PROVE  (u.pub < w.pub => u.left <= w.left) /\ (u.pub = w.pub => u = w)
      <4>1. CASE u \in StageOf(v) /\ w \in StageOf(v)  BY <2>1, <4>1 DEF CarInv, StagesInOrder
      <4>2. CASE u \in StageOf(v) /\ w = f
        <5>1. u.pub < q /\ u.left <= CycleDelay /\ u.pub \in Nat
          BY <2>1, <2>5, <4>2 DEF CarInv, StagesInOrder
        <5> QED  BY <1>9, <2>2, <4>2, <5>1
      <4>3. CASE u = f /\ w \in StageOf(v)
        <5>1. w.pub < q /\ w.pub \in Nat  BY <2>5, <4>3
        <5> QED  BY <1>9, <2>2, <4>3, <5>1
      <4>4. CASE u = f /\ w = f  BY <1>9, <2>2, <4>4
      <4> QED  BY <1>10, <4>1, <4>2, <4>3, <4>4
    <3> QED  BY <1>3, <1>6, <3>1, <3>2 DEF StagesInOrder
  <2>7. UnderWay(v)'
    <3> SUFFICES ASSUME NEW p \in DOMAIN pubs, IsLast(v, p)
                 PROVE  /\ q <= p
                        /\ q < p => Coming(v, p)'
                        /\ q = p => \E u \in StageOf(v)' : u.pub = p
      BY <1>3, <1>6, <2>0 DEF UnderWay
    <3>1. p \in Nat /\ q <= p /\ p # 0  BY <1>0, <1>2, RowsOf DEF IsLast
    <3>2. ASSUME q < p  PROVE Coming(v, p)'
      <4>1. vehicle[v].highest < p  BY <1>3, <2>2, <3>1, <3>2
      <4>2. Coming(v, p)  BY <2>1, <4>1 DEF CarInv, UnderWay
      <4>3. p # q  BY <2>2, <3>2
      <4> QED  BY <1>2, <1>3, <1>9, <3>1, <4>2, <4>3 DEF Coming
    <3>3. q = p => \E u \in StageOf(v)' : u.pub = p  BY <1>9, <1>10
    <3> QED  BY <3>1, <3>2, <3>3
  <2> QED  BY <2>3, <2>4, <2>6, <2>7 DEF CarInv
<1> QED  BY <1>5, <1>11, <1>12 DEF QuietInv

\* A stage ends: that of the last command is the last one, and it is reported.
LEMMA StageQuiet ==
  ASSUME DeliveryInv, HeardInv, QuietInv, NEW t \in tasks,
         RampStarts(t) \/ Finish(t) \/ Restored(t)
  PROVE  QuietInv'
<1>0. TypeOK /\ TasksGood /\ OneKill /\ RestoresLater  BY DEF DeliveryInv, QuietInv
<1>1. t.what \in StageTimers
  BY DEF RampStarts, Finish, Restored, StageFires, Due, StageTimers
<1>2. PICK v \in Vehicles, q \in DOMAIN pubs : v = t.vin /\ q = t.pub /\ v \in Targets(q) /\ q \in Nat
  BY <1>0, <1>1, VehicleTimer DEF StageTimers
<1>3. CarInv(v) /\ t \in StageOf(v)  BY <1>1, <1>2 DEF QuietInv, StageOf
<1>4. /\ q <= vehicle[v].highest /\ t.delay = CycleDelay
      /\ t.what = IF pubs[q].request = "restore" THEN "restored" ELSE "finish"
  BY <1>2, <1>3 DEF CarInv, StagesInOrder
<1>5. pubs[q].request \in {"deactivate", "restore"} /\ Desired(q) \in GuardStates
  BY <1>0, RowsOf, DesiredIs
<1>6. PICK x, r : /\ Moves(t, v, q, x, r, {}) /\ FiresInOrder(t)
                  /\ x.lastSeq = vehicle[v].lastSeq /\ x.highest = vehicle[v].highest
                  /\ x.state = Desired(q) /\ x.killed = (pubs[q].request = "deactivate")
                  /\ r.state = Desired(q) /\ r.seq = pubs[q].seq[v]
                  /\ r.source = IF pubs[q].request = "restore" THEN "STARTUP" ELSE "REMOTE"
  <2>1. t.what # "ramp"  BY <1>4
  <2>2. CASE Finish(t)
    <3>1. t.what = "finish" /\ pubs[q].request = "deactivate"
      BY <1>4, <1>5, <2>2 DEF Finish, StageFires, Due
    <3>2. PICK what, state, killed, source :
            /\ what \in StageTimers /\ state = Desired(q) /\ state \in GuardStates
            /\ killed = TRUE /\ killed \in BOOLEAN
            /\ source = "REMOTE" /\ source \in {"REMOTE", "STARTUP"}
            /\ StageFires(t, what, state, killed, source)
      BY <1>2, <1>5, <2>2, <3>1 DEF Finish, StageTimers
    <3>3. /\ what \in StageTimers /\ state \in GuardStates /\ killed \in BOOLEAN
          /\ source \in {"REMOTE", "STARTUP"} /\ StageFires(t, what, state, killed, source)
      BY <3>2
    <3>4. PICK x, r : /\ Moves(t, t.vin, t.pub, x, r, {}) /\ t.what = what /\ FiresInOrder(t)
                      /\ x.lastSeq = vehicle[t.vin].lastSeq /\ x.epoch = vehicle[t.vin].epoch
                      /\ x.highest = vehicle[t.vin].highest /\ x.state = state
                      /\ x.killed = (killed \/ (vehicle[t.vin].killed /\ state # "ACTIVE"))
                      /\ r.state = state /\ r.source = source
                      /\ r.seq = pubs[t.pub].seq[t.vin]
      BY <3>3, StageIs
    <3>5. x.killed = (pubs[q].request = "deactivate")  BY <3>1, <3>2, <3>4
    <3> QED  BY <1>2, <3>1, <3>2, <3>4, <3>5
  <2>3. CASE Restored(t)
    <3>1. t.what = "restored" /\ pubs[q].request = "restore" /\ Desired(q) = "ACTIVE"
      BY <1>4, <1>5, <2>3 DEF Restored, StageFires, Due, Desired
    <3>2. PICK what, state, killed, source :
            /\ what \in StageTimers /\ state = Desired(q) /\ state \in GuardStates
            /\ killed = FALSE /\ killed \in BOOLEAN
            /\ source = "STARTUP" /\ source \in {"REMOTE", "STARTUP"}
            /\ StageFires(t, what, state, killed, source)
      BY <1>2, <1>5, <2>3, <3>1 DEF Restored, StageTimers
    <3>3. /\ what \in StageTimers /\ state \in GuardStates /\ killed \in BOOLEAN
          /\ source \in {"REMOTE", "STARTUP"} /\ StageFires(t, what, state, killed, source)
      BY <3>2
    <3>4. PICK x, r : /\ Moves(t, t.vin, t.pub, x, r, {}) /\ t.what = what /\ FiresInOrder(t)
                      /\ x.lastSeq = vehicle[t.vin].lastSeq /\ x.epoch = vehicle[t.vin].epoch
                      /\ x.highest = vehicle[t.vin].highest /\ x.state = state
                      /\ x.killed = (killed \/ (vehicle[t.vin].killed /\ state # "ACTIVE"))
                      /\ r.state = state /\ r.source = source
                      /\ r.seq = pubs[t.pub].seq[t.vin]
      BY <3>3, StageIs
    <3>5. x.killed = (pubs[q].request = "deactivate")  BY <3>1, <3>2, <3>4
    <3> QED  BY <1>2, <3>1, <3>2, <3>4, <3>5
  <2> QED  BY <2>1, <2>2, <2>3 DEF RampStarts, StageFires, Due
<1>7. /\ turn = 0 /\ turn' = 0 /\ vehicle' = [vehicle EXCEPT ![v] = x] /\ x \in Record
      /\ r \in Report /\ Ingest(v, r) /\ tasks' = tasks \ {t}
  BY <1>6 DEF Moves
<1>8. /\ PubsKept /\ \A w \in Vehicles : w # v => status'[w] = status[w]
      /\ Violation(v, r) = None => status'[v] = r.state
  BY <1>0, <1>2, <1>7, IngestDoes
<1>9. OneKill' /\ RestoresLater' /\ \A p \in DOMAIN pubs : Desired(p)' = Desired(p)
  BY <1>0, <1>8, OrdersKept
<1>10. vehicle'[v] = x /\ \A w \in Vehicles : w # v => vehicle'[w] = vehicle[w]
  BY <1>0, <1>7 DEF TypeOK
<1>11. StageOf(v)' = StageOf(v) \ {t}  BY <1>7 DEF StageOf
<1>12. \A w, p : Coming(w, p) => Coming(w, p)'  BY <1>1, <1>7 DEF Coming, StageTimers
<1>13. ASSUME NEW w \in Vehicles, w # v  PROVE CarInv(w)'
  <2>1. StageOf(w)' = StageOf(w)  BY <1>2, <1>7, <1>13 DEF StageOf
  <2> QED  BY <1>0, <1>8, <1>10, <1>12, <1>13, <2>1, SameCar DEF QuietInv
<1>14. CarInv(v)'
  <2>0. /\ DOMAIN pubs' = DOMAIN pubs
        /\ \A p \in DOMAIN pubs : pubs'[p].seq = pubs[p].seq /\ pubs'[p].request = pubs[p].request
        /\ \A p \in DOMAIN pubs : Targets(p)' = Targets(p)
        /\ \A p : IsLast(v, p)' <=> IsLast(v, p)
    BY <1>0, <1>8, KeptSame DEF PubsKept, SameOrder
  <2>1. \A u \in StageOf(v) : u.pub \in DOMAIN pubs /\ u.pub \in Nat /\ u.left \in Nat
    BY <1>0, VehicleTimer DEF StageOf, StageTimers, TypeOK, Task
  <2>2. Untouched(v)'  BY <1>2, <2>0 DEF Untouched
  <2>3. NumbersKept(v)'  BY <1>3, <1>6, <1>10, <2>0 DEF CarInv, NumbersKept
  <2>4. StagesInOrder(v)'
    BY <1>3, <1>6, <1>10, <1>11, <2>0, <2>1 DEF CarInv, StagesInOrder
  <2>5. UnderWay(v)'
    <3> SUFFICES ASSUME NEW p \in DOMAIN pubs, IsLast(v, p)
                 PROVE  /\ vehicle[v].highest <= p
                        /\ vehicle[v].highest < p => Coming(v, p)'
                        /\ vehicle[v].highest = p =>
                             (\E u \in StageOf(v)' : u.pub = p) \/ Arrived(v, p)'
      BY <1>6, <1>10, <2>0 DEF UnderWay
    <3>1. /\ vehicle[v].highest <= p
          /\ vehicle[v].highest < p => Coming(v, p)
          /\ vehicle[v].highest = p => (\E u \in StageOf(v) : u.pub = p) \/ Arrived(v, p)
      BY <1>3 DEF CarInv, UnderWay
    <3>2. ASSUME vehicle[v].highest = p, q # p
          PROVE  \E u \in StageOf(v)' : u.pub = p
      <4>1. ~Arrived(v, p)  BY <1>3 DEF Arrived
      <4> QED  BY <1>2, <1>11, <3>1, <3>2, <4>1
    <3>3. ASSUME vehicle[v].highest = p, q = p  PROVE Arrived(v, p)'
      <4>1. StageOf(v)' = {}
        <5> SUFFICES ASSUME NEW u \in StageOf(v), u # t  PROVE FALSE
          BY <1>11
        <5>1. u.pub <= p /\ u.pub # p /\ u.delay = CycleDelay /\ u.pub \in Nat
          BY <1>2, <1>3, <2>1, <3>3 DEF CarInv, StagesInOrder
        <5>2. u.pub < q  BY <1>2, <3>3, <5>1
        <5>3. u.left <= t.left  BY <1>2, <1>3, <5>2 DEF CarInv, StagesInOrder
        <5>4. t.left = 0  BY <1>6 DEF FiresInOrder
        <5>5. u.left = 0  BY <2>1, <5>3, <5>4
        <5>6. u \in tasks /\ u.vin = t.vin /\ u.what # "receive"
          BY <1>2 DEF StageOf, StageTimers
        <5>7. t.pub <= u.pub  BY <1>4, <1>6, <5>1, <5>5, <5>6 DEF FiresInOrder
        <5> QED  BY <1>2, <5>1, <5>2, <5>7
      <4>2. LastCommand(v) = q  BY <1>0, <1>2, <3>3, LastIs, LastOnly
      <4>3. Violation(v, r) = None
        <5>1. ~(r.source = "REMOTE" /\ r.state \in DeactStates /\ pubs[q].request # "deactivate")
          BY <1>5, <1>6
        <5>2. ~(r.seq > pubs[q].seq[v])  BY <1>0, <1>6, SeqIs
        <5>3. ~(r.state = "ACTIVE" /\ pubs[q].request = "deactivate")
          BY <1>0, <1>6, DesiredIs
        <5> QED  BY <4>2, <5>1, <5>2, <5>3 DEF Violation
      <4>4. status'[v] = Desired(q)  BY <1>6, <1>8, <4>3
      <4> QED  BY <1>6, <1>9, <1>10, <2>0, <3>3, <4>1, <4>4 DEF Arrived
    <3> QED  BY <1>12, <3>1, <3>2, <3>3
  <2> QED  BY <2>2, <2>3, <2>4, <2>5 DEF CarInv
<1> QED  BY <1>9, <1>13, <1>14 DEF QuietInv

-----------------------------------------------------------------------------
(* The platform's steps *)

\* A step that changes no vehicle and no stage, and forgets no delivery in need.
LEMMA StillQuiet ==
  ASSUME DeliveryInv, QuietInv, PubsKept, UNCHANGED <<vehicle, status>>,
         \A v \in Vehicles : StageOf(v)' = StageOf(v),
         \A v \in Vehicles, p \in DOMAIN pubs :
           IsLast(v, p) /\ vehicle[v].highest < p /\ Coming(v, p) => Coming(v, p)'
  PROVE  QuietInv'
<1>0. TypeOK /\ TasksGood /\ OneKill /\ RestoresLater  BY DEF DeliveryInv, QuietInv
<1>1. OneKill' /\ RestoresLater'  BY <1>0, OrdersKept
<1>2. \A v \in Vehicles : CarInv(v)'  BY <1>0, SameCar DEF QuietInv
<1> QED  BY <1>1, <1>2 DEF QuietInv

LEMMA DispatchQuiet ==
  ASSUME QuietConstants, DeliveryInv, QuietInv, Dispatch
  PROVE  QuietInv'
<1>0. TypeOK /\ TurnSigned  BY DEF DeliveryInv
<1>1. PICK p \in DOMAIN pubs : p = turn  BY <1>0 DEF Dispatch, TurnSigned
<1>2. PubsKept  BY <1>0, <1>1, DispatchDoes
<1>3. tasks' = tasks \cup Deliveries(p) \cup Watches(p) /\ UNCHANGED <<vehicle, status>>
  BY <1>1 DEF Dispatch
<1>4. /\ \A u \in Deliveries(p) : u.what = "receive"
      /\ \A u \in Watches(p) : u.what \in {"close", "overdue"}
  BY TimersOf
<1>5. \A v \in Vehicles : StageOf(v)' = StageOf(v)  BY <1>3, <1>4 DEF StageOf, StageTimers
<1>6. ASSUME NEW v \in Targets(p)
      PROVE  \E u \in Deliveries(p) : u.what = "receive" /\ u.pub = p /\ u.vin = v
  <2> DEFINE sim == {i \in DOMAIN pubs[p].vins : pubs[p].vins[i] \notin Offline}
  <2>1. PICK i \in DOMAIN pubs[p].vins : v = pubs[p].vins[i]
    BY <1>6 DEF Targets, ToSet
  <2>2. i \in sim  BY DEF QuietConstants
  <2>3. PICK d : d = Latency + Cardinality({j \in sim : j < i}) * Stagger  OBVIOUS
  <2>4. Timer(d, "receive", p, pubs[p].vins[i]) \in Deliveries(p)
    BY <2>2, <2>3 DEF Deliveries
  <2>5. Timer(d, "receive", p, v) \in Deliveries(p)  BY <2>1, <2>4
  <2>6. /\ Timer(d, "receive", p, v).what = "receive" /\ Timer(d, "receive", p, v).pub = p
        /\ Timer(d, "receive", p, v).vin = v
    BY DEF Timer
  <2> QED  BY <2>5, <2>6
<1>7. ASSUME NEW v \in Vehicles, NEW y \in DOMAIN pubs, IsLast(v, y), Coming(v, y)
      PROVE  Coming(v, y)'
  BY <1>1, <1>3, <1>6, <1>7 DEF Coming, IsLast
<1> QED  BY <1>2, <1>3, <1>5, <1>7, StillQuiet

LEMMA PlatformQuiet ==
  ASSUME DeliveryInv, QuietInv, NEW t \in tasks, ReceiveOld(t) \/ Close(t) \/ CheckOverdue(t)
  PROVE  QuietInv'
<1>0. TypeOK  BY DEF DeliveryInv
<1>1. PubsKept  BY <1>0, NoneChanged, CloseDoes DEF ReceiveOld, CheckOverdue
<1>2. /\ tasks' = tasks \ {t} /\ turn' = turn /\ UNCHANGED <<vehicle, status>>
      /\ t.what \notin StageTimers
      /\ t.what = "receive" => t.pub <= vehicle[t.vin].highest
  BY DEF ReceiveOld, Close, CheckOverdue, Due, StageTimers
<1>3. \A v \in Vehicles : StageOf(v)' = StageOf(v)  BY <1>2 DEF StageOf
<1>4. ASSUME NEW v \in Vehicles, NEW p \in DOMAIN pubs, vehicle[v].highest < p, Coming(v, p)
      PROVE  Coming(v, p)'
  <2>1. vehicle[v].highest \in Nat /\ p \in Nat  BY <1>0, SeqIs, RecordIs DEF Record
  <2>2. ~(p <= vehicle[v].highest)  BY <1>4, <2>1
  <2> QED  BY <1>2, <1>4, <2>2 DEF Coming
<1> QED  BY <1>1, <1>2, <1>3, <1>4, StillQuiet

LEMMA TickQuiet == ASSUME DeliveryInv, QuietInv, Tick  PROVE QuietInv'
<1>0. TypeOK /\ TasksGood /\ OneKill /\ RestoresLater  BY DEF DeliveryInv, QuietInv
<1>1. /\ turn = 0 /\ tasks' = {[t EXCEPT !.left = @ - 1] : t \in tasks}
      /\ \A t \in tasks : t.left > 0
      /\ UNCHANGED <<pubs, vehicle, status, turn>>
  BY DEF Tick
<1>2. ASSUME NEW t \in tasks
      PROVE  \E u \in tasks' : SameTimer(u, t)
  <2>1. t \in Task /\ t.left > 0  BY <1>0, <1>1 DEF TypeOK
  <2>2. PICK u : u = [t EXCEPT !.left = @ - 1]  OBVIOUS
  <2>3. u \in tasks'  BY <1>1, <2>2
  <2>4. SameTimer(u, t)  BY <2>1, <2>2 DEF Task, SameTimer
  <2> QED  BY <2>3, <2>4
<1>3. ASSUME NEW u \in tasks'
      PROVE  \E t \in tasks : u = [t EXCEPT !.left = @ - 1] /\ SameTimer(u, t)
  <2>1. PICK t \in tasks : u = [t EXCEPT !.left = @ - 1]  BY <1>1
  <2>2. t \in Task /\ t.left > 0  BY <1>0, <1>1 DEF TypeOK
  <2>3. SameTimer(u, t)  BY <2>1, <2>2 DEF Task, SameTimer
  <2> QED  BY <2>1, <2>3
<1>4. OneKill' /\ RestoresLater'
  BY <1>0, <1>1, NoneChanged, OrdersKept
<1>5. ASSUME NEW v \in Vehicles  PROVE CarInv(v)'
  <2>0. CarInv(v)  BY DEF QuietInv
  <2>1. /\ \A p \in DOMAIN pubs : Targets(p)' = Targets(p) /\ Desired(p)' = Desired(p)
        /\ \A p : IsLast(v, p)' <=> IsLast(v, p)
    BY <1>0, <1>1, NoneChanged, KeptSame, OrdersKept
  <2>2. ASSUME NEW u \in StageOf(v)'
        PROVE  \E t \in StageOf(v) : u = [t EXCEPT !.left = @ - 1] /\ SameTimer(u, t)
    BY <1>3, <2>2 DEF StageOf, SameTimer
  <2>3. ASSUME NEW t \in StageOf(v)  PROVE \E u \in StageOf(v)' : SameTimer(u, t)
    BY <1>2, <2>3 DEF StageOf, SameTimer
  <2>4. Untouched(v)'  BY <1>1, <2>0, <2>1 DEF CarInv, Untouched
  <2>5. NumbersKept(v)'  BY <1>1, <2>0, <2>1 DEF CarInv, NumbersKept
  <2>6. \A t \in StageOf(v) : t.left \in Nat  BY <1>0 DEF StageOf, TypeOK, Task
  <2>7. StagesInOrder(v)'
    <3>1. \A t \in StageOf(v) :
            /\ t.pub <= vehicle[v].highest /\ t.delay = CycleDelay /\ t.left <= CycleDelay
            /\ t.what = IF pubs[t.pub].request = "restore" THEN "restored" ELSE "finish"
      BY <2>0 DEF CarInv, StagesInOrder
    <3>2. ASSUME NEW u \in StageOf(v)'
          PROVE  /\ u.pub <= vehicle[v].highest /\ u.delay = CycleDelay /\ u.left <= CycleDelay
                 /\ u.what = IF pubs[u.pub].request = "restore" THEN "restored" ELSE "finish"
      <4>1. PICK t \in StageOf(v) : SameTimer(u, t)  BY <2>2
      <4>2. CycleDelay \in Nat  BY ConstantsOK
      <4>3. u.left <= CycleDelay  BY <2>6, <3>1, <4>1, <4>2 DEF SameTimer
      <4> QED  BY <3>1, <4>1, <4>3 DEF SameTimer
    <3>3. ASSUME NEW u \in StageOf(v)', NEW w \in StageOf(v)'
          PROVE  (u.pub < w.pub => u.left <= w.left) /\ (u.pub = w.pub => u = w)
      <4>1. PICK t \in StageOf(v) : u = [t EXCEPT !.left = @ - 1] /\ SameTimer(u, t)  BY <2>2
      <4>2. PICK s \in StageOf(v) : w = [s EXCEPT !.left = @ - 1] /\ SameTimer(w, s)  BY <2>2
      <4>3. (t.pub < s.pub => t.left <= s.left) /\ (t.pub = s.pub => t = s)
        BY <2>0 DEF CarInv, StagesInOrder
      <4>4. u.pub < w.pub => u.left <= w.left
        BY <2>6, <4>1, <4>2, <4>3 DEF SameTimer
      <4>5. u.pub = w.pub => u = w  BY <4>1, <4>2, <4>3 DEF SameTimer
      <4> QED  BY <4>4, <4>5
    <3> QED  BY <1>1, <3>2, <3>3 DEF StagesInOrder
  <2>8. UnderWay(v)'
    <3> SUFFICES ASSUME NEW p \in DOMAIN pubs, IsLast(v, p)
                 PROVE  /\ vehicle[v].highest <= p
                        /\ vehicle[v].highest < p => Coming(v, p)'
                        /\ vehicle[v].highest = p =>
                             (\E u \in StageOf(v)' : u.pub = p) \/ Arrived(v, p)'
      BY <1>1, <2>1 DEF UnderWay
    <3>1. ASSUME Coming(v, p)  PROVE Coming(v, p)'
      <4>1. CASE turn = p  BY <1>1, <4>1 DEF Coming
      <4>2. ASSUME NEW t \in tasks, t.what = "receive", t.pub = p, t.vin = v
            PROVE  \E u \in tasks' : u.what = "receive" /\ u.pub = p /\ u.vin = v
        BY <1>2, <4>2 DEF SameTimer
      <4> QED  BY <3>1, <4>1, <4>2 DEF Coming
    <3>2. Arrived(v, p) => Arrived(v, p)'  BY <1>1, <2>1, <2>2 DEF Arrived
    <3>3. ASSUME NEW t \in StageOf(v), t.pub = p  PROVE \E u \in StageOf(v)' : u.pub = p
      BY <2>3, <3>3 DEF SameTimer
    <3> QED  BY <2>0, <3>1, <3>2, <3>3 DEF CarInv, UnderWay
  <2> QED  BY <2>4, <2>5, <2>7, <2>8 DEF CarInv
<1> QED  BY <1>4, <1>5 DEF QuietInv

-----------------------------------------------------------------------------
(* Issuing *)

\* Command n has been added to the orders and waits for its dispatch.
Adds(n, request, kill, vins) ==
  /\ n = Len(pubs) + 1 /\ n \notin DOMAIN pubs /\ DOMAIN pubs' = DOMAIN pubs \cup {n}
  /\ turn' = n /\ \A p \in DOMAIN pubs : pubs'[p] = pubs[p] /\ p < n
  /\ pubs'[n].request = request /\ pubs'[n].kill = kill /\ pubs'[n].vins = vins

LEMMA Issued ==
  ASSUME TypeOK, Numbered, NEW request \in {"deactivate", "restore"}, NEW kill \in Nat,
         NEW category \in Categories, NEW vins \in Lists,
         Publish(request, kill, category, vins)
  PROVE  \E n \in Nat : Adds(n, request, kill, vins)
<1>1. PICK n \in Nat : n = Len(pubs) + 1  BY RowsOf
<1>2. PICK e \in Pub :
        /\ e = NewPub(request, kill, category, vins)
        /\ e.request = request /\ e.kill = kill /\ e.vins = vins
  BY NewPubGood
<1>3. /\ DOMAIN pubs' = DOMAIN pubs \cup {n} /\ n \notin DOMAIN pubs
      /\ pubs'[n] = e /\ \A p \in DOMAIN pubs : pubs'[p] = pubs[p] /\ p < n
  <2>1. pubs' = Append(pubs, e)  BY <1>1, <1>2 DEF Publish, NewPub
  <2> QED  BY <1>1, <2>1, RowsOf DEF TypeOK
<1>4. turn' = n  BY <1>1 DEF Publish
<1> QED  BY <1>1, <1>2, <1>3, <1>4 DEF Adds

\* The orders have one more, n, which is about to be dispatched.
OneOrder(n) ==
  /\ n # 0 /\ n \notin DOMAIN pubs /\ DOMAIN pubs' = DOMAIN pubs \cup {n} /\ turn' = n
  /\ \A p \in DOMAIN pubs : pubs'[p] = pubs[p] /\ p < n /\ Targets(p)' = Targets(p)
  /\ OneKill' /\ RestoresLater'

\* The vehicles named have a new last command, the others keep theirs.
LEMMA IssuedQuiet ==
  ASSUME DeliveryInv, DeliveryInv', QuietInv, turn = 0,
         UNCHANGED <<vehicle, status, tasks>>, NEW n \in Nat, OneOrder(n)
  PROVE  QuietInv'
<1>0. /\ TypeOK /\ TasksGood /\ n # 0
      /\ n \notin DOMAIN pubs /\ DOMAIN pubs' = DOMAIN pubs \cup {n} /\ turn' = n
      /\ \A p \in DOMAIN pubs : pubs'[p] = pubs[p] /\ p < n /\ Targets(p)' = Targets(p)
      /\ OneKill' /\ RestoresLater'
  BY DEF DeliveryInv, OneOrder
<1>1. ASSUME NEW v \in Vehicles  PROVE CarInv(v)'
  <2>0. CarInv(v) /\ StageOf(v)' = StageOf(v)  BY DEF QuietInv, StageOf
  <2>1. vehicle[v].highest \in Nat /\ vehicle[v].highest < n
    <3>1. CASE \A p \in DOMAIN pubs : v \notin Targets(p)
      BY <1>0, <2>0, <3>1 DEF CarInv, Untouched
    <3>2. CASE \E p \in DOMAIN pubs : v \in Targets(p)
      <4>1. PICK p \in DOMAIN pubs : IsLast(v, p)  BY <1>0, <3>2, LastIs DEF IsLast
      <4>2. vehicle[v].highest <= p  BY <2>0, <4>1 DEF CarInv, UnderWay
      <4>3. vehicle[v].highest \in Nat /\ p \in Nat  BY <1>0, SeqIs, RecordIs DEF Record
      <4> QED  BY <1>0, <4>2, <4>3
    <3> QED  BY <3>1, <3>2
  <2>2. \A t \in StageOf(v) : t.pub \in DOMAIN pubs  BY <1>0 DEF StageOf, TasksGood, TaskGood
  <2>3. \A p \in DOMAIN pubs : Desired(p)' = Desired(p)  BY <1>0 DEF Desired, EndState
  <2>4. Untouched(v)'  BY <1>0, <2>0 DEF CarInv, Untouched
  <2>5. StagesInOrder(v)'  BY <1>0, <2>0, <2>2 DEF CarInv, StagesInOrder
  <2>6. NumbersKept(v)'  BY <1>0, <2>0 DEF CarInv, NumbersKept
  <2>7. UnderWay(v)'
    <3> SUFFICES ASSUME NEW p \in DOMAIN pubs', IsLast(v, p)'
                 PROVE  /\ vehicle[v].highest <= p
                        /\ vehicle[v].highest < p => Coming(v, p)'
                        /\ vehicle[v].highest = p =>
                             (\E t \in StageOf(v)' : t.pub = p) \/ Arrived(v, p)'
      BY DEF UnderWay
    <3>1. CASE p = n  BY <1>0, <2>1, <3>1 DEF Coming
    <3>2. CASE p \in DOMAIN pubs
      <4>1. IsLast(v, p)  BY <1>0, <3>2 DEF IsLast
      <4>2. p # 0  BY <1>0, <3>2, RowsOf
      <4>3. Coming(v, p) => Coming(v, p)'  BY <1>0, <4>2 DEF Coming
      <4>4. Arrived(v, p) => Arrived(v, p)'  BY <1>0, <2>0, <2>3, <3>2 DEF Arrived
      <4> QED  BY <2>0, <3>2, <4>1, <4>3, <4>4 DEF CarInv, UnderWay
    <3> QED  BY <1>0, <3>1, <3>2
  <2> QED  BY <2>4, <2>5, <2>6, <2>7 DEF CarInv
<1> QED  BY <1>0, <1>1 DEF QuietInv

\* A kill is issued: no kill in force covers any of its vehicles.
LEMMA IssueKillOrders ==
  ASSUME DeliveryInv, OneKill, RestoresLater, "COMMERCIAL" \notin Categories,
         NEW vins \in Lists, NEW category \in Categories, IssueKill(vins, category)
  PROVE  turn = 0 /\ UNCHANGED <<vehicle, status, tasks, overdue>> /\ \E n \in Nat : OneOrder(n)
<1>0. TypeOK /\ Numbered  BY DEF DeliveryInv
<1>1. Len(pubs) + 1 \in Nat /\ Publish("deactivate", Len(pubs) + 1, category, vins) /\ turn = 0
  BY <1>0, RowsOf DEF IssueKill
<1>2. PICK n \in Nat :
        /\ n = Len(pubs) + 1 /\ n \notin DOMAIN pubs /\ DOMAIN pubs' = DOMAIN pubs \cup {n}
        /\ turn' = n /\ \A p \in DOMAIN pubs : pubs'[p] = pubs[p] /\ p < n /\ Targets(p)' = Targets(p)
        /\ pubs'[n].request = "deactivate" /\ pubs'[n].kill = Len(pubs) + 1 /\ pubs'[n].vins = vins
        /\ Targets(n)' = ToSet(vins)
  <2>0. PICK n \in Nat : Adds(n, "deactivate", Len(pubs) + 1, vins)
    BY <1>0, <1>1, Issued
  <2>1. /\ n = Len(pubs) + 1 /\ n \notin DOMAIN pubs /\ DOMAIN pubs' = DOMAIN pubs \cup {n}
        /\ turn' = n /\ \A p \in DOMAIN pubs : pubs'[p] = pubs[p] /\ p < n
        /\ pubs'[n].request = "deactivate" /\ pubs'[n].kill = Len(pubs) + 1 /\ pubs'[n].vins = vins
    BY <2>0 DEF Adds
  <2>2. \A p \in DOMAIN pubs : Targets(p)' = Targets(p)  BY <2>1 DEF Targets
  <2>3. Targets(n)' = ToSet(vins)  BY <2>1 DEF Targets
  <2> QED  BY <2>1, <2>2, <2>3
<1>3. RestoresLater'  BY <1>0, <1>2 DEF RestoresLater
<1>4. OneKill'
  <2> SUFFICES ASSUME NEW k \in DOMAIN pubs', InForce(k)', NEW v \in Targets(k)'
               PROVE  IsLast(v, k)'
    BY DEF OneKill
  <2>1. CASE k = n
    <3>1. n <= n /\ \A p \in DOMAIN pubs : p <= n
      <4>1. \A p \in DOMAIN pubs : p \in Nat  BY <1>0, RowsOf
      <4> QED  BY <1>2, <4>1
    <3> QED  BY <1>2, <2>1, <3>1 DEF IsLast
  <2>2. CASE k \in DOMAIN pubs
    <3>1. InForce(k) /\ v \in Targets(k)  BY <1>2, <2>2 DEF InForce
    <3>2. pubs[k].category # "COMMERCIAL" /\ category # "COMMERCIAL"
      BY <1>0, <2>2, RowsOf
    <3>3. v \notin ToSet(vins)  BY <2>2, <3>1, <3>2 DEF IssueKill
    <3>4. IsLast(v, k)  BY <1>0, <2>2, <3>1 DEF OneKill
    <3> QED  BY <1>2, <2>2, <3>3, <3>4 DEF IsLast
  <2> QED  BY <1>2, <2>1, <2>2
<1>5. UNCHANGED <<vehicle, status, tasks, overdue>> /\ n # 0
  BY <1>0, <1>2, RowsOf DEF IssueKill
<1>6. OneOrder(n)  BY <1>2, <1>3, <1>4, <1>5 DEF OneOrder
<1> QED  BY <1>1, <1>5, <1>6

LEMMA IssueRestoreOrders ==
  ASSUME DeliveryInv, OneKill, RestoresLater, NEW k \in DOMAIN pubs, IssueRestore(k)
  PROVE  turn = 0 /\ UNCHANGED <<vehicle, status, tasks, overdue>> /\ \E n \in Nat : OneOrder(n)
<1>0. TypeOK /\ Numbered  BY DEF DeliveryInv
<1>1. /\ k \in Nat /\ pubs[k].category \in Categories /\ pubs[k].vins \in Lists
      /\ Publish("restore", k, pubs[k].category, pubs[k].vins) /\ turn = 0 /\ InForce(k)
  BY <1>0, RowsOf DEF IssueRestore
<1>2. PICK n \in Nat :
        /\ n = Len(pubs) + 1 /\ n \notin DOMAIN pubs /\ DOMAIN pubs' = DOMAIN pubs \cup {n}
        /\ turn' = n /\ \A p \in DOMAIN pubs : pubs'[p] = pubs[p] /\ p < n /\ Targets(p)' = Targets(p)
        /\ pubs'[n].request = "restore" /\ pubs'[n].kill = k /\ pubs'[n].vins = pubs[k].vins
        /\ Targets(n)' = ToSet(pubs[k].vins)
  <2>0. PICK n \in Nat : Adds(n, "restore", k, pubs[k].vins)
    BY <1>0, <1>1, Issued
  <2>1. /\ n = Len(pubs) + 1 /\ n \notin DOMAIN pubs /\ DOMAIN pubs' = DOMAIN pubs \cup {n}
        /\ turn' = n /\ \A p \in DOMAIN pubs : pubs'[p] = pubs[p] /\ p < n
        /\ pubs'[n].request = "restore" /\ pubs'[n].kill = k /\ pubs'[n].vins = pubs[k].vins
    BY <2>0 DEF Adds
  <2>2. \A p \in DOMAIN pubs : Targets(p)' = Targets(p)  BY <2>1 DEF Targets
  <2>3. Targets(n)' = ToSet(pubs[k].vins)  BY <2>1 DEF Targets
  <2> QED  BY <2>1, <2>2, <2>3
<1>3. RestoresLater'  BY <1>0, <1>2 DEF RestoresLater
<1>4. OneKill'
  <2> SUFFICES ASSUME NEW y \in DOMAIN pubs', InForce(y)', NEW v \in Targets(y)'
               PROVE  IsLast(v, y)'
    BY DEF OneKill
  <2>1. y \in DOMAIN pubs /\ y # k  BY <1>2 DEF InForce
  <2>2. InForce(y) /\ v \in Targets(y)  BY <1>2, <2>1 DEF InForce
  <2>3. IsLast(v, y)  BY <1>0, <2>1, <2>2 DEF OneKill
  <2>4. v \notin Targets(k)  BY <1>0, <1>1, <2>1, <2>3, LastOnly DEF OneKill
  <2>5. v \notin Targets(n)'  BY <1>2, <2>4 DEF Targets
  <2> QED  BY <1>2, <2>1, <2>3, <2>5 DEF IsLast
<1>5. UNCHANGED <<vehicle, status, tasks, overdue>> /\ n # 0
  BY <1>0, <1>2, RowsOf DEF IssueRestore
<1>6. OneOrder(n)  BY <1>2, <1>3, <1>4, <1>5 DEF OneOrder
<1> QED  BY <1>1, <1>5, <1>6

LEMMA IssueQuiet ==
  ASSUME QuietConstants, DeliveryInv, DeliveryInv', QuietInv,
         \/ \E vins \in Lists, category \in Categories : IssueKill(vins, category)
         \/ \E k \in DOMAIN pubs : IssueRestore(k)
  PROVE  QuietInv'
<1>1. OneKill /\ RestoresLater /\ "COMMERCIAL" \notin Categories  BY DEF QuietInv, QuietConstants
<1>2. turn = 0 /\ UNCHANGED <<vehicle, status, tasks, overdue>> /\ \E n \in Nat : OneOrder(n)
  BY <1>1, IssueKillOrders, IssueRestoreOrders
<1>3. PICK n \in Nat : OneOrder(n)  BY <1>2
<1> QED  BY <1>2, <1>3, IssuedQuiet

-----------------------------------------------------------------------------
(* The orders win *)

LEMMA QuietNext ==
  ASSUME QuietConstants, DeliveryInv, DeliveryInv', HeardInv, QuietInv, crashes = 0, [Next]_vars
  PROVE  QuietInv' /\ crashes' = 0
<1>0. TypeOK  BY DEF DeliveryInv
<1>1. ASSUME NEW vins \in Lists, NEW category \in Categories, IssueKill(vins, category)
      PROVE  QuietInv' /\ crashes' = 0
  BY <1>1, IssueQuiet DEF IssueKill
<1>2. ASSUME NEW k \in DOMAIN pubs, IssueRestore(k)  PROVE QuietInv' /\ crashes' = 0
  BY <1>2, IssueQuiet DEF IssueRestore
<1>3. CASE Dispatch  BY <1>3, DispatchQuiet DEF Dispatch
<1>4. ASSUME NEW t \in tasks, ReceiveOld(t) \/ Close(t) \/ CheckOverdue(t)
      PROVE  QuietInv' /\ crashes' = 0
  BY <1>4, PlatformQuiet DEF ReceiveOld, Close, CheckOverdue
<1>5. ASSUME NEW t \in tasks, ReceiveRefused(t)  PROVE FALSE
  <2>1. PICK x, r : /\ Moves(t, t.vin, t.pub, x, r, {}) /\ t.pub > vehicle[t.vin].highest
                    /\ GuardRefuses(t.vin, t.pub)
    BY <1>5, RefusedIs
  <2>2. t.vin \in Vehicles /\ t.pub \in DOMAIN pubs /\ t.vin \in Targets(t.pub)
    BY <2>1 DEF Moves
  <2>3. NumbersKept(t.vin)  BY <2>2 DEF QuietInv, CarInv
  <2> QED  BY <2>1, <2>2, <2>3, Accepting
<1>6. ASSUME NEW t \in tasks, ReceiveTaken(t)  PROVE QuietInv' /\ crashes' = 0
  BY <1>6, TakenQuiet DEF ReceiveTaken
<1>7. ASSUME NEW t \in tasks, RampStarts(t) \/ Finish(t) \/ Restored(t)
      PROVE  QuietInv' /\ crashes' = 0
  BY <1>7, StageQuiet DEF RampStarts, Finish, Restored, StageFires
<1>8. CASE RunTimer  BY <1>4, <1>5, <1>6, <1>7, <1>8 DEF RunTimer
<1>9. CASE Tick  BY <1>9, TickQuiet DEF Tick
<1>10. CASE BumpEpoch  BY <1>10 DEF BumpEpoch, HeardInv, QuietConstants
<1>11. CASE Crash  BY <1>11 DEF Crash, QuietConstants
<1>12. CASE UNCHANGED vars
  <2>1. PubsKept  BY <1>0, <1>12, NoneChanged DEF vars
  <2>2. /\ \A v \in Vehicles : StageOf(v)' = StageOf(v)
        /\ \A v, p : Coming(v, p) => Coming(v, p)'
    BY <1>12 DEF vars, StageOf, Coming
  <2> QED  BY <1>12, <2>1, <2>2, StillQuiet DEF vars
<1> QED  BY <1>1, <1>2, <1>3, <1>8, <1>9, <1>10, <1>11, <1>12 DEF Next

LEMMA QuietInit == Init => QuietInv /\ crashes = 0
<1> SUFFICES ASSUME Init  PROVE QuietInv /\ crashes = 0
  OBVIOUS
<1>1. DOMAIN pubs = {} /\ tasks = {} /\ crashes = 0  BY DEF Init
<1>2. OneKill /\ RestoresLater  BY <1>1 DEF OneKill, RestoresLater
<1>3. ASSUME NEW v \in Vehicles  PROVE CarInv(v)
  <2>1. StageOf(v) = {}  BY <1>1 DEF StageOf
  <2>2. ~vehicle[v].killed /\ status[v] = None /\ vehicle[v].highest = 0 /\ vehicle[v].lastSeq = 0
    BY DEF Init
  <2> QED  BY <1>1, <2>1, <2>2 DEF CarInv, Untouched, StagesInOrder, NumbersKept, UnderWay
<1> QED  BY <1>1, <1>2, <1>3 DEF QuietInv

\* Nothing is on its way: the last command of every vehicle has arrived.
LEMMA QuietAgrees ==
  ASSUME DeliveryInv, QuietInv, Quiet
  PROVE  \A v \in Vehicles :
           /\ vehicle[v].killed <=> \E k \in DOMAIN pubs : InForce(k) /\ v \in Targets(k)
           /\ status[v] \in {vehicle[v].state, None}
<1>0. TypeOK /\ OneKill /\ RestoresLater  BY DEF DeliveryInv, QuietInv
<1> SUFFICES ASSUME NEW v \in Vehicles
             PROVE  /\ vehicle[v].killed <=> \E k \in DOMAIN pubs : InForce(k) /\ v \in Targets(k)
                    /\ status[v] \in {vehicle[v].state, None}
  OBVIOUS
<1>1. CarInv(v)  BY DEF QuietInv
<1>2. CASE \A p \in DOMAIN pubs : v \notin Targets(p)
  BY <1>1, <1>2 DEF CarInv, Untouched
<1>3. CASE \E p \in DOMAIN pubs : v \in Targets(p)
  <2>1. PICK p \in DOMAIN pubs : IsLast(v, p)  BY <1>0, <1>3, LastIs DEF IsLast
  <2>2. Arrived(v, p)
    <3>1. p \in Nat /\ p # 0 /\ vehicle[v].highest \in Nat
      BY <1>0, RowsOf, RecordIs DEF Record
    <3>2. ~Coming(v, p) /\ StageOf(v) = {}  BY <3>1 DEF Quiet, Coming, StageOf
    <3>3. vehicle[v].highest <= p /\ ~(vehicle[v].highest < p)
      BY <1>1, <2>1, <3>2 DEF CarInv, UnderWay
    <3>4. vehicle[v].highest = p  BY <3>1, <3>3
    <3> QED  BY <1>1, <2>1, <3>2, <3>4 DEF CarInv, UnderWay
  <2>3. pubs[p].request = "deactivate" => InForce(p)
    <3> SUFFICES ASSUME NEW q \in DOMAIN pubs, pubs[q].request = "restore", pubs[q].kill = p
                 PROVE  FALSE
      BY DEF InForce
    <3>1. p < q /\ v \in Targets(q)  BY <1>0, <2>1 DEF RestoresLater, IsLast, Targets
    <3>2. q <= p  BY <2>1, <3>1 DEF IsLast
    <3> QED  BY <1>0, <3>1, <3>2, RowsOf
  <2>4. ASSUME NEW k \in DOMAIN pubs, InForce(k), v \in Targets(k)
        PROVE  pubs[p].request = "deactivate"
    <3>1. IsLast(v, k)  BY <1>0, <2>4 DEF OneKill
    <3>2. k = p  BY <1>0, <2>1, <3>1, LastOnly
    <3> QED  BY <2>4, <3>2 DEF InForce
  <2> QED  BY <2>1, <2>2, <2>3, <2>4 DEF Arrived, IsLast
<1> QED  BY <1>2, <1>3

\* The orders of the platform win: however kills and restores of a feature with
\* the deactivation class "next start" are interleaved with the deliveries and the
\* stages they set off, and however many there are, once no timer is left a vehicle
\* is blocked exactly if a kill in force covers it, and is shown as it is
\* (vehicle-runtime.service.ts, receive and guard; status-ingest.service.ts).
THEOREM OrdersWin == QuietConstants /\ Spec => []QuietAgreement
<1> DEFINE Inv == QuietConstants /\ DeliveryInv /\ HeardInv /\ QuietInv /\ crashes = 0
<1>1. QuietConstants /\ Init => Inv
  BY DeliveryInvInit, HeardInit, QuietInit
<1>2. Inv /\ [Next]_vars => Inv'
  <2> SUFFICES ASSUME Inv, [Next]_vars  PROVE Inv'
    OBVIOUS
  <2>1. DeliveryInv'  BY DeliveryInvNext
  <2>2. HeardInv'  BY <2>1, HeardNext DEF QuietConstants
  <2>3. QuietInv' /\ crashes' = 0  BY <2>1, QuietNext
  <2> QED  BY <2>1, <2>2, <2>3 DEF QuietConstants
<1>3. Inv => QuietAgreement  BY QuietAgrees DEF QuietAgreement
<1> HIDE DEF Inv
<1> QED  BY <1>1, <1>2, <1>3, PTL DEF Spec

-----------------------------------------------------------------------------
(* The overdue watch: one key epoch, no crash, kills that do not overlap, and  *)
(* a margin in which the last vehicle of every list is reached                *)

\* From the moment a vehicle takes a kill to its end state.
StageTime(c) == IF EffectiveClass(c) = "DC0" THEN 0 ELSE FinishDelay[EffectiveClass(c)]

WatchConstants ==
  /\ MaxEpoch = 1 /\ MaxCrashes = 0
  /\ "COMMERCIAL" \notin Categories
  /\ \A c, d \in Categories : EffectiveClass(c) = EffectiveClass(d)
  /\ \A c \in Categories, l \in Lists :
       Latency + (Len(l) - 1) * Stagger + StageTime(c) < ApplyTime("deactivate", c) + OverdueMargin

KillStages(v) == {t \in tasks : t.what \in {"ramp", "finish"} /\ t.vin = v}

\* A stage of a kill is that of a kill received, and its timer not set too late.
KillStageGood(v, t) ==
  /\ t.pub <= vehicle[v].highest
  /\ EffectiveClass(pubs[t.pub].category) # "DC0"
  /\ t.what = "finish" => t.delay = StageTime(pubs[t.pub].category) /\ t.left <= t.delay
  /\ t.what = "ramp" => t.left < StageTime(pubs[t.pub].category)

\* The end f of a kill fires after its ramp and after the stages of earlier kills.
FiresBefore(t, f) ==
  /\ t.what = "finish" => (t.pub < f.pub => t.left <= f.left) /\ (t.pub = f.pub => t = f)
  /\ t.what = "ramp" /\ t.pub <= f.pub => t.left < f.left

KillsInOrder(v) ==
  /\ \A t \in KillStages(v) : KillStageGood(v, t)
  /\ \A t, f \in KillStages(v) : f.what = "finish" => FiresBefore(t, f)

\* Kill k ends in v by a timer, or has ended and no kill is at work.
Ending(v, k) == \E f \in KillStages(v) : f.what = "finish" /\ f.pub = k
KillDone(v, k) == status[v] = Desired(k) /\ KillStages(v) = {}

\* The last command of a vehicle is on its way, or received; if it is a kill it was
\* taken and ends, or has ended.
LastUnderWay(v) ==
  \A p \in DOMAIN pubs : IsLast(v, p) =>
    /\ vehicle[v].highest <= p
    /\ vehicle[v].highest < p => Coming(v, p)
    /\ vehicle[v].highest = p /\ pubs[p].request = "deactivate" =>
         Took(v, p) /\ (Ending(v, p) \/ KillDone(v, p))

WatchCar(v) == Untouched(v) /\ NumbersKept(v) /\ KillsInOrder(v) /\ LastUnderWay(v)

\* Nothing reaches a vehicle without a link.
Silent(v) == status[v] = None /\ \A t \in tasks : t.what \notin {"close", "overdue"} => t.vin # v

\* The watch of a kill fires after its deliveries and the stages they set off.
InTime ==
  \A w, t \in tasks : w.what = "overdue" /\ t.pub = w.pub =>
    /\ t.what = "receive" => t.left + StageTime(pubs[t.pub].category) < w.left
    /\ t.what = "finish" => t.left < w.left

SeenDone(k) == \A v \in Targets(k) : v \notin Offline /\ vehicle[v].highest = k /\ KillDone(v, k)

\* A kill in force is being watched, was raised, or was seen to have ended.
WatchKept ==
  \A k \in DOMAIN pubs : InForce(k) /\ turn # k =>
    \/ \E w \in tasks : w.what = "overdue" /\ w.pub = k
    \/ k \in overdue
    \/ SeenDone(k)

OverdueTrue == \A k \in overdue : k \in DOMAIN pubs /\ Targets(k) \cap Offline # {}

\* No timer belongs to the publication that waits for its dispatch.
TurnFresh == \A t \in tasks : t.pub # turn

WatchInv ==
  /\ OneKill /\ RestoresLater /\ TurnFresh /\ InTime /\ WatchKept /\ OverdueTrue
  /\ \A v \in Vehicles \ Offline : WatchCar(v)
  /\ \A v \in Offline : Silent(v)

\* Every stage of a kill takes the same time; a ramp starts before its end.
LEMMA StageTimes ==
  ASSUME WatchConstants, NEW c \in Categories
  PROVE  /\ StageTime(c) \in Nat
         /\ \A d \in Categories : StageTime(d) = StageTime(c)
         /\ EffectiveClass(c) # "DC0" => StageTime(c) = FinishDelay[EffectiveClass(c)]
         /\ EffectiveClass(c) = "DC2" => Takeover < StageTime(c)
<1>1. EffectiveClass(c) \in {"DC0", "DC1", "DC2", "DC3"}  BY ConstantsOK DEF EffectiveClass
<1>2. /\ FinishDelay["DC1"] = IdleDelay /\ FinishDelay["DC2"] = Takeover + Ramp
      /\ FinishDelay["DC3"] = CycleDelay
  BY DEF FinishDelay
<1>3. {IdleDelay, CycleDelay, Takeover} \subseteq Nat /\ Ramp \in Nat /\ Ramp > 0  BY ConstantsOK
<1>4. \A d \in Categories : StageTime(d) = StageTime(c)  BY DEF WatchConstants, StageTime
<1> QED  BY <1>1, <1>2, <1>3, <1>4 DEF StageTime

\* The end state of a vehicle's last command is reported without objection.
LEMMA EndReported ==
  ASSUME TypeOK, NEW v \in Vehicles, NEW q, IsLast(v, q), pubs[q].request = "deactivate",
         NEW r, r.state = Desired(q), r.seq = pubs[q].seq[v]
  PROVE  Violation(v, r) = None
<1>1. q \in DOMAIN pubs /\ v \in Targets(q)  BY DEF IsLast
<1>2. LastCommand(v) = q  BY <1>1, LastIs, LastOnly
<1>3. ~(r.seq > pubs[q].seq[v])  BY <1>1, SeqIs
<1>4. r.state # "ACTIVE"  BY DEF Desired, EndState
<1> QED  BY <1>2, <1>3, <1>4 DEF Violation

\* Once a kill was taken the report that a restore has ended is refused.
LEMMA RestoreUnheard ==
  ASSUME DeliveryInv, NEW v \in Vehicles, NEW q, IsLast(v, q), pubs[q].request = "deactivate",
         Took(v, q), NEW r, r.state = "ACTIVE"
  PROVE  Violation(v, r) # None
<1>0. TypeOK /\ TakenAcked  BY DEF DeliveryInv
<1>1. q \in DOMAIN pubs /\ v \in Targets(q)  BY DEF IsLast
<1>2. LastCommand(v) = q  BY <1>0, <1>1, LastIs, LastOnly
<1>3. topSeq[v] >= pubs[q].seq[v]  BY <1>0, <1>1 DEF TakenAcked, TakenSeen
<1>4. TookDeactivation(v, r)  BY <1>2, <1>3 DEF TookDeactivation
<1> QED  BY <1>2, <1>4 DEF Violation, None

\* A step that does not concern vehicle v.
LEMMA SameWatchCar ==
  ASSUME TypeOK, TasksGood, PubsKept, NEW v \in Vehicles, WatchCar(v),
         OneKill, RestoresLater,
         vehicle'[v] = vehicle[v], status'[v] = status[v], KillStages(v)' = KillStages(v),
         \A p \in DOMAIN pubs :
           IsLast(v, p) /\ vehicle[v].highest < p /\ Coming(v, p) => Coming(v, p)'
  PROVE  /\ WatchCar(v)'
         /\ \A k \in DOMAIN pubs : KillDone(v, k) => KillDone(v, k)'
<1>1. /\ DOMAIN pubs' = DOMAIN pubs
      /\ \A p \in DOMAIN pubs : SameOrder(pubs'[p], pubs[p])
      /\ \A p \in DOMAIN pubs : Targets(p)' = Targets(p)
      /\ \A p : IsLast(v, p)' <=> IsLast(v, p)
      /\ \A p \in DOMAIN pubs : Desired(p)' = Desired(p)
  BY KeptSame, OrdersKept DEF PubsKept
<1>2. \A t \in KillStages(v) : t.pub \in DOMAIN pubs  BY DEF KillStages, TasksGood, TaskGood
<1>3. Untouched(v)'  BY <1>1 DEF WatchCar, Untouched
<1>4. KillsInOrder(v)'
  BY <1>1, <1>2 DEF WatchCar, KillsInOrder, KillStageGood, FiresBefore, SameOrder
<1>5. NumbersKept(v)'  BY <1>1 DEF WatchCar, NumbersKept, SameOrder
<1>6. \A k \in DOMAIN pubs : KillDone(v, k) => KillDone(v, k)'  BY <1>1 DEF KillDone
<1>7. LastUnderWay(v)'
  <2> SUFFICES ASSUME NEW p \in DOMAIN pubs, IsLast(v, p)
               PROVE  /\ vehicle'[v].highest <= p
                      /\ vehicle'[v].highest < p => Coming(v, p)'
                      /\ vehicle'[v].highest = p /\ pubs[p].request = "deactivate" =>
                           Took(v, p)' /\ (Ending(v, p)' \/ KillDone(v, p)')
    BY <1>1 DEF LastUnderWay, SameOrder
  <2>1. Took(v, p) => Took(v, p)'  BY <1>1 DEF Took, SameOrder
  <2>2. Ending(v, p) => Ending(v, p)'  BY DEF Ending
  <2> QED  BY <1>6, <2>1, <2>2 DEF WatchCar, LastUnderWay
<1> QED  BY <1>3, <1>4, <1>5, <1>6, <1>7 DEF WatchCar

\* A vehicle that has something to receive or to do has a link.
LEMMA HasLink ==
  ASSUME TypeOK, TasksGood, WatchInv, NEW t \in tasks, t.what \notin {"close", "overdue"}
  PROVE  t.vin \in Vehicles \ Offline
<1>1. t.vin \in Vehicles  BY VehicleTimer
<1>2. t.vin \notin Offline  BY DEF WatchInv, Silent
<1> QED  BY <1>1, <1>2

\* A step of vehicle v that keeps what the watch relies on.
LEMMA CarMoved ==
  ASSUME DeliveryInv, WatchInv, NEW t, NEW v, NEW q, NEW x, NEW r, NEW fresh,
         Moves(t, v, q, x, r, fresh), v \notin Offline, t.what # "overdue",
         \A u \in fresh : u.vin = v /\ u.pub = q /\ u.what \in StageTimers,
         \A w \in tasks, u \in fresh :
           w.what = "overdue" /\ w.pub = q /\ u.what = "finish" => u.left < w.left,
         WatchCar(v)',
         \A k : /\ IsLast(v, k) /\ pubs[k].request = "deactivate"
                /\ vehicle[v].highest = k /\ KillDone(v, k)
                => x.highest = k /\ KillDone(v, k)'
  PROVE  WatchInv'
<1>0. TypeOK /\ TasksGood /\ OneKill /\ RestoresLater  BY DEF DeliveryInv, WatchInv
<1>1. /\ t \in tasks /\ t.vin = v /\ t.pub = q /\ v \in Vehicles /\ q \in DOMAIN pubs
      /\ v \in Targets(q) /\ turn = 0 /\ turn' = 0 /\ overdue' = overdue
      /\ vehicle' = [vehicle EXCEPT ![v] = x] /\ r \in Report /\ Ingest(v, r)
      /\ tasks' = (tasks \ {t}) \cup fresh
  BY DEF Moves
<1>2. PubsKept /\ \A w \in Vehicles : w # v => status'[w] = status[w]
  BY <1>0, <1>1, IngestDoes
<1>3. vehicle'[v] = x /\ \A w \in Vehicles : w # v => vehicle'[w] = vehicle[w]
  BY <1>0, <1>1 DEF TypeOK
<1>4. /\ DOMAIN pubs' = DOMAIN pubs
      /\ \A p \in DOMAIN pubs : SameOrder(pubs'[p], pubs[p]) /\ Targets(p)' = Targets(p)
      /\ \A k \in DOMAIN pubs : InForce(k)' <=> InForce(k)
      /\ OneKill' /\ RestoresLater'
  <2>1. \A k \in DOMAIN pubs : InForce(k)' <=> InForce(k)
    BY <1>2 DEF InForce, PubsKept, SameOrder
  <2> QED  BY <1>0, <1>2, <2>1, KeptSame, OrdersKept DEF PubsKept
<1>5. ASSUME NEW w \in Vehicles, w # v
      PROVE  KillStages(w)' = KillStages(w) /\ \A p : Coming(w, p) => Coming(w, p)'
  BY <1>1, <1>5 DEF KillStages, Coming
<1>6. ASSUME NEW w \in Vehicles \ Offline, w # v
      PROVE  WatchCar(w)' /\ \A k \in DOMAIN pubs : KillDone(w, k) => KillDone(w, k)'
  <2>1. WatchCar(w)  BY DEF WatchInv
  <2> QED  BY <1>0, <1>2, <1>3, <1>5, <1>6, <2>1, SameWatchCar
<1>7. ASSUME NEW w \in Offline  PROVE Silent(w)'
  <2>1. Silent(w) /\ w \in Vehicles /\ w # v  BY ConstantsOK DEF WatchInv
  <2> QED  BY <1>1, <1>2, <2>1 DEF Silent
<1>8. TurnFresh'
  <2>1. \A u \in tasks : u.pub # 0  BY <1>1 DEF WatchInv, TurnFresh
  <2> QED  BY <1>1, <2>1 DEF TurnFresh
<1>9. InTime'
  <2> SUFFICES ASSUME NEW w \in tasks', NEW u \in tasks', w.what = "overdue", u.pub = w.pub
               PROVE  /\ u.what = "receive" => u.left + StageTime(pubs'[u.pub].category) < w.left
                      /\ u.what = "finish" => u.left < w.left
    BY DEF InTime
  <2>1. w \in tasks  BY <1>1 DEF StageTimers
  <2>2. CASE u \in tasks
    <3>1. u.pub \in DOMAIN pubs  BY <1>0, <2>2 DEF TasksGood, TaskGood
    <3>2. pubs'[u.pub].category = pubs[u.pub].category  BY <1>4, <3>1 DEF SameOrder
    <3> QED  BY <2>1, <2>2, <3>2 DEF WatchInv, InTime
  <2>3. CASE u \in fresh  BY <2>1, <2>3 DEF StageTimers
  <2> QED  BY <1>1, <2>2, <2>3
<1>10. WatchKept'
  <2> SUFFICES ASSUME NEW k \in DOMAIN pubs, InForce(k)
               PROVE  \/ \E w \in tasks' : w.what = "overdue" /\ w.pub = k
                      \/ k \in overdue
                      \/ SeenDone(k)'
    BY <1>1, <1>4 DEF WatchKept
  <2>1. turn # k  BY <1>0, <1>1, RowsOf
  <2>2. ASSUME NEW w \in tasks, w.what = "overdue"  PROVE w \in tasks'  BY <1>1, <2>2
  <2>3. ASSUME SeenDone(k)  PROVE SeenDone(k)'
    <3> SUFFICES ASSUME NEW w \in Targets(k)
                 PROVE  w \notin Offline /\ vehicle'[w].highest = k /\ KillDone(w, k)'
      BY <1>4 DEF SeenDone
    <3>1. /\ w \notin Offline /\ vehicle[w].highest = k /\ KillDone(w, k) /\ w \in Vehicles
          /\ IsLast(w, k) /\ pubs[k].request = "deactivate"
      BY <1>0, <2>3, RowsOf DEF SeenDone, OneKill, InForce
    <3>2. CASE w = v  BY <1>3, <3>1, <3>2
    <3>3. CASE w # v  BY <1>3, <1>6, <3>1, <3>3
    <3> QED  BY <3>2, <3>3
  <2> QED  BY <2>1, <2>2, <2>3 DEF WatchInv, WatchKept
<1>11. OverdueTrue'  BY <1>1, <1>4 DEF WatchInv, OverdueTrue
<1> QED  BY <1>1, <1>4, <1>6, <1>7, <1>8, <1>9, <1>10, <1>11 DEF WatchInv

-----------------------------------------------------------------------------
(* The vehicles and the watch *)

\* The stages of a kill that is taken fire behind those under way.
LEMMA TakenInOrder ==
  ASSUME WatchConstants, TypeOK, TasksGood, PubsKept,
         NEW t, t.what = "receive", NEW v \in Vehicles, NEW q \in DOMAIN pubs,
         KillsInOrder(v), q > vehicle[v].highest, vehicle'[v].highest = q,
         tasks' = (tasks \ {t}) \cup StagesOf(q, v)
  PROVE  /\ KillsInOrder(v)'
         /\ TakenAtOnce(q) => KillStages(v)' = {}
         /\ pubs[q].request = "deactivate" /\ ~TakenAtOnce(q) => Ending(v, q)'
         /\ \A u \in StagesOf(q, v) :
              /\ u.vin = v /\ u.pub = q /\ u.what \in StageTimers
              /\ u.what = "finish" => u.left = StageTime(pubs[q].category)
<1> DEFINE c == pubs[q].category
<1>1. /\ c \in Categories /\ q \in Nat /\ vehicle[v].highest \in Nat
      /\ pubs[q].request \in {"deactivate", "restore"}
  BY RowsOf, SeqIs, RecordIs DEF Record
<1>2. /\ StageTime(c) \in Nat
      /\ \A d \in Categories : StageTime(d) = StageTime(c)
      /\ EffectiveClass(c) # "DC0" => StageTime(c) = FinishDelay[EffectiveClass(c)]
      /\ EffectiveClass(c) = "DC2" => Takeover < StageTime(c)
  BY <1>1, StageTimes
<1>3. \A d \in Categories : EffectiveClass(d) = EffectiveClass(c)  BY <1>1 DEF WatchConstants
<1>4. /\ \A p \in DOMAIN pubs : pubs'[p].category = pubs[p].category
      /\ pubs'[q].category = c
  BY DEF PubsKept, SameOrder
<1> HIDE DEF c
<1> DEFINE f == Timer(StageTime(c), "finish", q, v)
           g == Timer(Takeover, "ramp", q, v)
<1>5. /\ f.left = StageTime(c) /\ f.delay = StageTime(c) /\ f.what = "finish" /\ f.pub = q /\ f.vin = v
      /\ g.left = Takeover /\ g.what = "ramp" /\ g.pub = q /\ g.vin = v
  BY DEF Timer
<1> HIDE DEF f, g
<1>6. \E S \in SUBSET {f, g} :
        /\ KillStages(v)' = KillStages(v) \cup S
        /\ g \in S => EffectiveClass(c) = "DC2"
        /\ TakenAtOnce(q) => S = {}
        /\ S # {} => EffectiveClass(c) # "DC0"
        /\ pubs[q].request = "deactivate" /\ ~TakenAtOnce(q) => f \in S
        /\ \A u \in StagesOf(q, v) :
             (u = f /\ f \in S) \/ (u = g /\ g \in S) \/ u = Timer(CycleDelay, "restored", q, v)
  <2>1. CASE pubs[q].request = "restore"
    <3>1. StagesOf(q, v) = {Timer(CycleDelay, "restored", q, v)}  BY <2>1 DEF StagesOf
    <3>2. Timer(CycleDelay, "restored", q, v).what = "restored"  BY DEF Timer
    <3>3. KillStages(v)' = KillStages(v) \cup {}  BY <3>1, <3>2 DEF KillStages
    <3>4. \A u \in StagesOf(q, v) : u = Timer(CycleDelay, "restored", q, v)  BY <3>1
    <3>5. pubs[q].request # "deactivate" /\ ~TakenAtOnce(q)  BY <2>1 DEF TakenAtOnce
    <3>6. WITNESS {} \in SUBSET {f, g}
    <3> QED  BY <3>3, <3>4, <3>5
  <2>2. CASE pubs[q].request = "deactivate" /\ EffectiveClass(c) = "DC0"
    <3>1. StagesOf(q, v) = {}  BY <2>2 DEF StagesOf, c
    <3>2. KillStages(v)' = KillStages(v) \cup {}  BY <3>1 DEF KillStages
    <3> QED  BY <2>2, <3>1, <3>2 DEF TakenAtOnce, c
  <2>3. CASE pubs[q].request = "deactivate" /\ EffectiveClass(c) # "DC0" /\ EffectiveClass(c) # "DC2"
    <3>1. StagesOf(q, v) = {f}  BY <1>2, <2>3 DEF StagesOf, c, f
    <3>2. KillStages(v)' = KillStages(v) \cup {f}  BY <1>5, <3>1 DEF KillStages
    <3>3. g \notin {f} /\ ~TakenAtOnce(q)  BY <1>5, <2>3 DEF TakenAtOnce, c
    <3>4. /\ \A u \in StagesOf(q, v) : u = f /\ f \in {f}
          /\ EffectiveClass(c) # "DC0" /\ f \in {f}
      BY <2>3, <3>1
    <3> HIDE DEF TakenAtOnce
    <3>5. WITNESS {f} \in SUBSET {f, g}
    <3> QED  BY <3>2, <3>3, <3>4, Zenon
  <2>4. CASE pubs[q].request = "deactivate" /\ EffectiveClass(c) = "DC2"
    <3>1. StagesOf(q, v) = {f, g}  BY <1>2, <2>4 DEF StagesOf, c, f, g
    <3>2. KillStages(v)' = KillStages(v) \cup {f, g}  BY <1>5, <3>1 DEF KillStages
    <3> QED  BY <2>4, <3>1, <3>2 DEF TakenAtOnce, c
  <2> QED  BY <1>1, <2>1, <2>2, <2>3, <2>4
<1>7. PICK S \in SUBSET {f, g} :
        /\ KillStages(v)' = KillStages(v) \cup S
        /\ g \in S => EffectiveClass(c) = "DC2"
        /\ TakenAtOnce(q) => S = {}
        /\ S # {} => EffectiveClass(c) # "DC0"
        /\ pubs[q].request = "deactivate" /\ ~TakenAtOnce(q) => f \in S
        /\ \A u \in StagesOf(q, v) :
             (u = f /\ f \in S) \/ (u = g /\ g \in S) \/ u = Timer(CycleDelay, "restored", q, v)
  BY <1>6
<1>8. ASSUME NEW u \in KillStages(v)
      PROVE  /\ u.pub \in DOMAIN pubs /\ u.pub \in Nat /\ u.pub < q /\ u.left \in Nat
             /\ pubs[u.pub].category \in Categories
             /\ StageTime(pubs[u.pub].category) = StageTime(c)
             /\ KillStageGood(v, u) /\ u.what \in {"ramp", "finish"}
  <2>1. u \in tasks /\ u.what \in {"ramp", "finish"}  BY DEF KillStages
  <2>2. u.pub \in DOMAIN pubs /\ u.pub \in Nat /\ u.left \in Nat
    BY <2>1, VehicleTimer DEF TypeOK, Task
  <2>3. KillStageGood(v, u)  BY DEF KillsInOrder
  <2>4. u.pub < q  BY <1>1, <2>2, <2>3 DEF KillStageGood
  <2>5. pubs[u.pub].category \in Categories  BY <2>2, RowsOf
  <2> QED  BY <1>2, <2>1, <2>2, <2>3, <2>4, <2>5
<1>9. Takeover \in Nat  BY ConstantsOK
<1>10. KillsInOrder(v)'
  <2>1. ASSUME NEW u \in KillStages(v)'  PROVE KillStageGood(v, u)'
    <3>1. CASE u = f /\ f \in S
      <4>1. q <= q /\ StageTime(c) <= StageTime(c)  BY <1>1, <1>2
      <4> QED  BY <1>4, <1>5, <1>7, <3>1, <4>1 DEF KillStageGood
    <3>2. CASE u = g /\ g \in S
      <4>1. q <= q /\ Takeover < StageTime(c)  BY <1>1, <1>2, <1>7, <3>2
      <4> QED  BY <1>4, <1>5, <1>7, <3>2, <4>1 DEF KillStageGood
    <3>3. CASE u \in KillStages(v)
      <4>1. u.pub <= q  BY <1>1, <1>8, <3>3
      <4> QED  BY <1>4, <1>8, <3>3, <4>1 DEF KillStageGood
    <3> QED  BY <1>7, <2>1, <3>1, <3>2, <3>3
  <2>2. ASSUME NEW u \in KillStages(v)', NEW e \in KillStages(v)', e.what = "finish"
        PROVE  FiresBefore(u, e)
    <3>1. CASE u \in KillStages(v) /\ e \in KillStages(v)  BY <2>2, <3>1 DEF KillsInOrder
    <3>2. CASE u \in KillStages(v) /\ e = f
      <4>1. /\ u.pub # q
            /\ u.what = "finish" => u.left <= StageTime(c)
            /\ u.what = "ramp" => u.left < StageTime(c)
        BY <1>1, <1>8, <3>2 DEF KillStageGood
      <4> QED  BY <1>5, <3>2, <4>1 DEF FiresBefore
    <3>3. CASE u \in {f, g} /\ e \in KillStages(v)
      <4>1. u.pub = q /\ ~(q <= e.pub) /\ ~(q < e.pub) /\ q # e.pub
        BY <1>1, <1>5, <1>8, <3>3
      <4> QED  BY <4>1 DEF FiresBefore
    <3>4. CASE u = f /\ e = f  BY <1>1, <1>5, <3>4 DEF FiresBefore
    <3>5. CASE u = g /\ g \in S /\ e = f
      <4>1. Takeover < StageTime(c)  BY <1>2, <1>7, <3>5
      <4> QED  BY <1>5, <3>5, <4>1 DEF FiresBefore
    <3> QED  BY <1>5, <1>7, <2>2, <3>1, <3>2, <3>3, <3>4, <3>5
  <2> QED  BY <2>1, <2>2 DEF KillsInOrder, FiresBefore
<1>11. ASSUME TakenAtOnce(q)  PROVE KillStages(v)' = {}
  <2>1. KillStages(v)' = KillStages(v)  BY <1>7, <1>11
  <2>2. EffectiveClass(c) = "DC0"  BY <1>11 DEF TakenAtOnce, c
  <2>3. \A u \in KillStages(v) : FALSE  BY <1>3, <1>8, <2>2 DEF KillStageGood
  <2> QED  BY <2>1, <2>3
<1>12. pubs[q].request = "deactivate" /\ ~TakenAtOnce(q) => Ending(v, q)'
  BY <1>5, <1>7 DEF Ending
<1>13. ASSUME NEW u \in StagesOf(q, v)
       PROVE  /\ u.vin = v /\ u.pub = q /\ u.what \in StageTimers
              /\ u.what = "finish" => u.left = StageTime(c)
  <2>1. CASE u = f \/ u = g  BY <1>5, <2>1 DEF StageTimers
  <2>2. CASE u = Timer(CycleDelay, "restored", q, v)  BY <2>2 DEF Timer, StageTimers
  <2> QED  BY <1>7, <2>1, <2>2
<1> QED  BY <1>10, <1>11, <1>12, <1>13 DEF c

\* A vehicle takes a command: its last command is at work in it.
LEMMA TakenWatch ==
  ASSUME WatchConstants, DeliveryInv, HeardInv, WatchInv, NEW t \in tasks, ReceiveTaken(t)
  PROVE  WatchInv'
<1>0. TypeOK /\ TasksGood /\ OneKill /\ RestoresLater /\ InTime  BY DEF DeliveryInv, WatchInv
<1>1. PICK x, r : /\ Moves(t, t.vin, t.pub, x, r, StagesOf(t.pub, t.vin)) /\ t.what = "receive"
                  /\ t.pub > vehicle[t.vin].highest /\ ~GuardRefuses(t.vin, t.pub)
                  /\ x.highest = t.pub /\ x.epoch = pubs[t.pub].epoch
                  /\ x.lastSeq = pubs[t.pub].seq[t.vin] /\ r.seq = x.lastSeq
                  /\ TakenAtOnce(t.pub) => r.state = Desired(t.pub)
  BY TakenIs
<1>2. PICK v \in Vehicles, q \in DOMAIN pubs : v = t.vin /\ q = t.pub /\ v \in Targets(q)
  BY <1>1 DEF Moves
<1>3. /\ turn = 0 /\ turn' = 0 /\ vehicle' = [vehicle EXCEPT ![v] = x] /\ x \in Record
      /\ r \in Report /\ Ingest(v, r) /\ tasks' = (tasks \ {t}) \cup StagesOf(q, v)
      /\ q > vehicle[v].highest /\ x.highest = q /\ x.lastSeq = pubs[q].seq[v]
      /\ x.epoch = pubs[q].epoch /\ r.seq = pubs[q].seq[v]
      /\ Moves(t, v, q, x, r, StagesOf(q, v))
      /\ TakenAtOnce(q) => r.state = Desired(q)
  BY <1>1, <1>2 DEF Moves
<1>4. v \notin Offline /\ WatchCar(v)  BY <1>0, <1>1, <1>2, HasLink DEF WatchInv
<1>5. PubsKept /\ (Violation(v, r) = None => status'[v] = r.state)
  BY <1>0, <1>2, <1>3, IngestDoes
<1>6. vehicle'[v] = x  BY <1>0, <1>3 DEF TypeOK
<1>7. /\ DOMAIN pubs' = DOMAIN pubs
      /\ \A p \in DOMAIN pubs : SameOrder(pubs'[p], pubs[p]) /\ Targets(p)' = Targets(p)
                                /\ Desired(p)' = Desired(p)
      /\ \A p : IsLast(v, p)' <=> IsLast(v, p)
  BY <1>0, <1>5, KeptSame, OrdersKept DEF PubsKept
<1>8. q \in Nat /\ vehicle[v].highest \in Nat /\ pubs[q].seq[v] \in Nat
  BY <1>0, SeqIs, RecordIs DEF Record
<1>9. /\ KillsInOrder(v)'
      /\ TakenAtOnce(q) => KillStages(v)' = {}
      /\ pubs[q].request = "deactivate" /\ ~TakenAtOnce(q) => Ending(v, q)'
      /\ \A u \in StagesOf(q, v) :
           /\ u.vin = v /\ u.pub = q /\ u.what \in StageTimers
           /\ u.what = "finish" => u.left = StageTime(pubs[q].category)
  <2>1. KillsInOrder(v)  BY <1>4 DEF WatchCar
  <2> QED  BY <1>0, <1>1, <1>3, <1>5, <1>6, <2>1, TakenInOrder
<1>10. ASSUME NEW w \in tasks, NEW u \in StagesOf(q, v),
              w.what = "overdue", w.pub = q, u.what = "finish"
       PROVE  u.left < w.left
  <2>1. t.left = 0  BY DEF ReceiveTaken, Due
  <2>2. t.left + StageTime(pubs[q].category) < w.left
    BY <1>0, <1>1, <1>2, <1>10 DEF InTime
  <2>3. u.left = StageTime(pubs[q].category)  BY <1>9, <1>10
  <2>4. StageTime(pubs[q].category) \in Nat  BY <1>0, RowsOf, StageTimes
  <2> QED  BY <2>1, <2>2, <2>3, <2>4
<1>11. WatchCar(v)'
  <2>1. Untouched(v)'  BY <1>2, <1>7 DEF Untouched
  <2>2. NumbersKept(v)'  BY <1>2, <1>3, <1>6, <1>7, <1>8 DEF NumbersKept, SameOrder
  <2>3. LastUnderWay(v)'
    <3> SUFFICES ASSUME NEW p \in DOMAIN pubs, IsLast(v, p)
                 PROVE  /\ q <= p
                        /\ q < p => Coming(v, p)'
                        /\ q = p /\ pubs[p].request = "deactivate" =>
                             Took(v, p)' /\ (Ending(v, p)' \/ KillDone(v, p)')
      BY <1>3, <1>6, <1>7 DEF LastUnderWay, SameOrder
    <3>1. p \in Nat /\ q <= p /\ p # 0  BY <1>0, <1>2, RowsOf DEF IsLast
    <3>2. ASSUME q < p  PROVE Coming(v, p)'
      <4>1. vehicle[v].highest < p  BY <1>3, <1>8, <3>1, <3>2
      <4>2. Coming(v, p)  BY <1>4, <4>1 DEF WatchCar, LastUnderWay
      <4>3. p # q  BY <1>8, <3>2
      <4> QED  BY <1>2, <1>3, <3>1, <4>2, <4>3 DEF Coming
    <3>3. ASSUME q = p, pubs[p].request = "deactivate"
          PROVE  Took(v, p)' /\ (Ending(v, p)' \/ KillDone(v, p)')
      <4>1. Took(v, p)'
        <5>1. pubs'[p].epoch = pubs[p].epoch /\ pubs'[p].seq = pubs[p].seq
          BY <1>7 DEF SameOrder
        <5> QED  BY <1>3, <1>6, <1>8, <3>3, <5>1 DEF Took
      <4>2. CASE TakenAtOnce(q)
        <5>1. Violation(v, r) = None  BY <1>0, <1>3, <3>3, <4>2, EndReported
        <5>2. status'[v] = Desired(q)  BY <1>3, <1>5, <4>2, <5>1
        <5> QED  BY <1>7, <1>9, <3>3, <4>1, <4>2, <5>2 DEF KillDone
      <4>3. CASE ~TakenAtOnce(q)  BY <1>9, <3>3, <4>1, <4>3
      <4> QED  BY <4>2, <4>3
    <3> QED  BY <3>1, <3>2, <3>3
  <2> QED  BY <1>9, <2>1, <2>2, <2>3 DEF WatchCar
<1>12. ASSUME NEW k, IsLast(v, k), vehicle[v].highest = k  PROVE FALSE
  <2>1. q <= k /\ k \in Nat  BY <1>0, <1>2, <1>12, RowsOf DEF IsLast
  <2> QED  BY <1>3, <1>8, <1>12, <2>1
<1>13. t.what # "overdue"  BY <1>1
<1>14. \A u \in StagesOf(q, v) : u.vin = v /\ u.pub = q /\ u.what \in StageTimers  BY <1>9
<1> QED  BY <1>3, <1>4, <1>10, <1>11, <1>12, <1>13, <1>14, CarMoved

\* A stage fires: the end of the last kill is the last of the kills to fire, and a
\* restore that ends later is not heard.
LEMMA StageWatch ==
  ASSUME WatchConstants, DeliveryInv, WatchInv, NEW t \in tasks,
         RampStarts(t) \/ Finish(t) \/ Restored(t)
  PROVE  WatchInv'
<1>0. TypeOK /\ TasksGood /\ OneKill /\ RestoresLater  BY DEF DeliveryInv, WatchInv
<1>1. t.what \in StageTimers
  BY DEF RampStarts, Finish, Restored, StageFires, Due, StageTimers
<1>2. PICK v \in Vehicles, q \in DOMAIN pubs : v = t.vin /\ q = t.pub /\ v \in Targets(q) /\ q \in Nat
  BY <1>0, <1>1, VehicleTimer DEF StageTimers
<1>3. v \notin Offline /\ WatchCar(v)
  BY <1>0, <1>1, <1>2, HasLink DEF StageTimers, WatchInv
<1>4. PICK x, r : /\ Moves(t, v, q, x, r, {}) /\ FiresInOrder(t)
                  /\ x.lastSeq = vehicle[v].lastSeq /\ x.epoch = vehicle[v].epoch
                  /\ x.highest = vehicle[v].highest /\ r.seq = pubs[q].seq[v]
                  /\ t.what = "finish" => r.state = Desired(q)
                  /\ t.what = "restored" => r.state = "ACTIVE"
  <2>1. \E what \in StageTimers, state \in GuardStates, killed \in BOOLEAN,
           source \in {"REMOTE", "STARTUP"} :
          /\ StageFires(t, what, state, killed, source) /\ t.what = what
          /\ what = "finish" => state = Desired(q)
          /\ what = "restored" => state = "ACTIVE"
    <3>1. "DEACT_RAMP" \in GuardStates /\ "ACTIVE" \in GuardStates /\ Desired(q) \in GuardStates
      BY <1>0, DesiredIs DEF GuardStates, DeactStates
    <3>2. CASE RampStarts(t)
      <4>1. t.what = "ramp"  BY <3>2 DEF RampStarts, StageFires, Due
      <4>2. StageFires(t, "ramp", "DEACT_RAMP", FALSE, "REMOTE")  BY <3>2 DEF RampStarts
      <4> QED  BY <3>1, <4>1, <4>2 DEF StageTimers
    <3>3. CASE Finish(t)
      <4>1. t.what = "finish"  BY <3>3 DEF Finish, StageFires, Due
      <4>2. StageFires(t, "finish", Desired(q), TRUE, "REMOTE")  BY <1>2, <3>3 DEF Finish
      <4> QED  BY <3>1, <4>1, <4>2 DEF StageTimers
    <3>4. CASE Restored(t)
      <4>1. t.what = "restored"  BY <3>4 DEF Restored, StageFires, Due
      <4>2. StageFires(t, "restored", "ACTIVE", FALSE, "STARTUP")  BY <3>4 DEF Restored
      <4> QED  BY <3>1, <4>1, <4>2 DEF StageTimers
    <3> QED  BY <3>2, <3>3, <3>4
  <2>2. PICK what \in StageTimers, state \in GuardStates, killed \in BOOLEAN,
             source \in {"REMOTE", "STARTUP"} :
          /\ StageFires(t, what, state, killed, source) /\ t.what = what
          /\ what = "finish" => state = Desired(q)
          /\ what = "restored" => state = "ACTIVE"
    BY <2>1
  <2>3. PICK x, r : /\ Moves(t, t.vin, t.pub, x, r, {}) /\ t.what = what /\ FiresInOrder(t)
                    /\ x.lastSeq = vehicle[t.vin].lastSeq /\ x.epoch = vehicle[t.vin].epoch
                    /\ x.highest = vehicle[t.vin].highest /\ x.state = state
                    /\ x.killed = (killed \/ (vehicle[t.vin].killed /\ state # "ACTIVE"))
                    /\ r.state = state /\ r.source = source
                    /\ r.seq = pubs[t.pub].seq[t.vin]
    BY <2>2, StageIs
  <2> QED  BY <1>2, <2>2, <2>3
<1>5. /\ turn = 0 /\ turn' = 0 /\ vehicle' = [vehicle EXCEPT ![v] = x] /\ x \in Record
      /\ r \in Report /\ Ingest(v, r) /\ tasks' = tasks \ {t}
  BY <1>4 DEF Moves
<1>6. /\ PubsKept
      /\ Violation(v, r) = None => status'[v] = r.state
      /\ Violation(v, r) # None => status'[v] = status[v]
  BY <1>0, <1>2, <1>5, IngestDoes
<1>7. vehicle'[v] = x  BY <1>0, <1>5 DEF TypeOK
<1>8. /\ DOMAIN pubs' = DOMAIN pubs
      /\ \A p \in DOMAIN pubs : SameOrder(pubs'[p], pubs[p]) /\ Targets(p)' = Targets(p)
                                /\ Desired(p)' = Desired(p)
      /\ \A p : IsLast(v, p)' <=> IsLast(v, p)
  BY <1>0, <1>6, KeptSame, OrdersKept DEF PubsKept
<1>9. KillStages(v)' = KillStages(v) \ {t}  BY <1>5 DEF KillStages
<1>10. \A p : Coming(v, p) => Coming(v, p)'  BY <1>1, <1>5 DEF Coming, StageTimers
<1>11. \A u \in KillStages(v) : /\ u.pub \in DOMAIN pubs /\ u.pub \in Nat /\ u.left \in Nat
                                /\ u \in tasks /\ u.what \in {"ramp", "finish"} /\ u.vin = v
                                /\ KillStageGood(v, u)
  BY <1>0, <1>3, VehicleTimer DEF KillStages, TypeOK, Task, WatchCar, KillsInOrder
<1>12. ASSUME NEW k, IsLast(v, k), pubs[k].request = "deactivate",
              vehicle[v].highest = k, KillDone(v, k)
       PROVE  x.highest = k /\ KillDone(v, k)'
  <2>1. k \in DOMAIN pubs /\ Took(v, k)
    BY <1>3, <1>12 DEF IsLast, WatchCar, LastUnderWay
  <2>2. t \notin KillStages(v)  BY <1>12 DEF KillDone
  <2>3. t.what = "restored"  BY <1>1, <1>2, <2>2 DEF KillStages, StageTimers
  <2>4. Violation(v, r) # None  BY <1>4, <1>12, <2>1, <2>3, RestoreUnheard
  <2> QED  BY <1>4, <1>6, <1>8, <1>9, <1>12, <2>1, <2>4 DEF KillDone
<1>13. WatchCar(v)'
  <2>1. Untouched(v)'  BY <1>2, <1>8 DEF Untouched
  <2>2. NumbersKept(v)'  BY <1>3, <1>4, <1>7, <1>8 DEF WatchCar, NumbersKept, SameOrder
  <2>3. KillsInOrder(v)'
    BY <1>3, <1>4, <1>7, <1>8, <1>9, <1>11
       DEF WatchCar, KillsInOrder, KillStageGood, FiresBefore, SameOrder
  <2>4. LastUnderWay(v)'
    <3> SUFFICES ASSUME NEW p \in DOMAIN pubs, IsLast(v, p)
                 PROVE  /\ vehicle[v].highest <= p
                        /\ vehicle[v].highest < p => Coming(v, p)'
                        /\ vehicle[v].highest = p /\ pubs[p].request = "deactivate" =>
                             Took(v, p)' /\ (Ending(v, p)' \/ KillDone(v, p)')
      BY <1>4, <1>7, <1>8 DEF LastUnderWay, SameOrder
    <3>1. /\ vehicle[v].highest <= p
          /\ vehicle[v].highest < p => Coming(v, p)
          /\ vehicle[v].highest = p /\ pubs[p].request = "deactivate" =>
               Took(v, p) /\ (Ending(v, p) \/ KillDone(v, p))
      BY <1>3 DEF WatchCar, LastUnderWay
    <3>2. Took(v, p) => Took(v, p)'  BY <1>4, <1>7, <1>8 DEF Took, SameOrder
    <3>3. ASSUME vehicle[v].highest = p, pubs[p].request = "deactivate",
                 NEW f \in KillStages(v), f.what = "finish", f.pub = p
          PROVE  Ending(v, p)' \/ KillDone(v, p)'
      <4>1. CASE f # t  BY <1>9, <3>3, <4>1 DEF Ending
      <4>2. CASE f = t
        <5>1. q = p /\ t.left = 0 /\ t.delay = StageTime(pubs[p].category)
          BY <1>2, <1>4, <1>11, <3>3, <4>2 DEF FiresInOrder, KillStageGood
        <5>2. KillStages(v)' = {}
          <6> SUFFICES ASSUME NEW u \in KillStages(v), u # t  PROVE FALSE
            BY <1>9
          <6>1. u.pub <= p /\ FiresBefore(u, t)
            BY <1>3, <1>11, <3>3, <4>2 DEF KillStageGood, WatchCar, KillsInOrder
          <6>2. u.what = "finish"
            BY <1>2, <1>11, <3>3, <4>2, <5>1, <6>1 DEF FiresBefore
          <6>3. u.pub < p  BY <1>2, <1>11, <3>3, <4>2, <5>1, <6>1, <6>2 DEF FiresBefore
          <6>4. u.left = 0  BY <1>2, <1>11, <5>1, <6>1, <6>2, <6>3 DEF FiresBefore
          <6>5. u.delay = t.delay
            <7>1. u.delay = StageTime(pubs[u.pub].category)  BY <1>11, <6>2 DEF KillStageGood
            <7>2. pubs[u.pub].category \in Categories /\ pubs[p].category \in Categories
              BY <1>0, <1>11, RowsOf
            <7>3. StageTime(pubs[u.pub].category) = StageTime(pubs[p].category)
              BY <7>2, StageTimes
            <7> QED  BY <5>1, <7>1, <7>3
          <6>6. t.pub <= u.pub
            BY <1>2, <1>4, <1>11, <6>2, <6>4, <6>5 DEF FiresInOrder
          <6> QED  BY <1>2, <1>11, <5>1, <6>3, <6>6
        <5>3. Violation(v, r) = None  BY <1>0, <1>4, <3>3, <4>2, <5>1, EndReported
        <5>4. status'[v] = Desired(p)  BY <1>4, <1>6, <3>3, <4>2, <5>1, <5>3
        <5> QED  BY <1>8, <5>2, <5>4 DEF KillDone
      <4> QED  BY <4>1, <4>2
    <3>4. vehicle[v].highest = p /\ pubs[p].request = "deactivate" /\ KillDone(v, p)
            => KillDone(v, p)'
      BY <1>12
    <3> QED  BY <1>10, <3>1, <3>2, <3>3, <3>4 DEF Ending
  <2> QED  BY <2>1, <2>2, <2>3, <2>4 DEF WatchCar
<1>14. t.what # "overdue"  BY <1>1 DEF StageTimers
<1> QED  BY <1>3, <1>4, <1>12, <1>13, <1>14, CarMoved

-----------------------------------------------------------------------------
(* The platform's steps and the watch *)

\* A step that changes no vehicle and no stage, and forgets no delivery in need:
\* the vehicles stay as the watch relies on.
LEMMA CarsStill ==
  ASSUME DeliveryInv, WatchInv, PubsKept, UNCHANGED <<vehicle, status>>,
         \A v \in Vehicles : KillStages(v)' = KillStages(v),
         \A v \in Vehicles, p \in DOMAIN pubs :
           IsLast(v, p) /\ vehicle[v].highest < p /\ Coming(v, p) => Coming(v, p)'
  PROVE  /\ \A v \in Vehicles \ Offline : WatchCar(v)'
         /\ \A k \in DOMAIN pubs : SeenDone(k) => SeenDone(k)'
         /\ \A k \in DOMAIN pubs : InForce(k)' <=> InForce(k)
         /\ OneKill' /\ RestoresLater' /\ (overdue' = overdue => OverdueTrue')
<1>0. TypeOK /\ TasksGood /\ OneKill /\ RestoresLater /\ OverdueTrue  BY DEF DeliveryInv, WatchInv
<1>1. ASSUME NEW v \in Vehicles \ Offline
      PROVE  WatchCar(v)' /\ \A k \in DOMAIN pubs : KillDone(v, k) => KillDone(v, k)'
  <2>1. WatchCar(v)  BY DEF WatchInv
  <2> QED  BY <1>0, <2>1, SameWatchCar
<1>2. \A p \in DOMAIN pubs : Targets(p)' = Targets(p) /\ Targets(p) \subseteq Vehicles
  BY <1>0, KeptSame, RowsOf
<1>3. OneKill' /\ RestoresLater'  BY <1>0, OrdersKept
<1>4. \A k \in DOMAIN pubs : InForce(k)' <=> InForce(k)  BY DEF InForce, PubsKept, SameOrder
<1>5. \A k \in DOMAIN pubs : SeenDone(k) => SeenDone(k)'  BY <1>1, <1>2 DEF SeenDone
<1>6. overdue' = overdue => OverdueTrue'  BY <1>0, <1>2 DEF OverdueTrue, PubsKept
<1> QED  BY <1>1, <1>3, <1>4, <1>5, <1>6

\* The watch fires: every vehicle with a link has done what the kill asks.
LEMMA WatchedDone ==
  ASSUME WatchConstants, DeliveryInv, WatchInv, NEW t \in tasks, Due(t, "overdue"),
         InForce(t.pub), NEW v \in Targets(t.pub), v \notin Offline
  PROVE  vehicle[v].highest = t.pub /\ KillDone(v, t.pub)
<1>0. TypeOK /\ TasksGood /\ OneKill /\ InTime  BY DEF DeliveryInv, WatchInv
<1>1. /\ t.pub \in DOMAIN pubs /\ t.left = 0 /\ turn = 0 /\ t.what = "overdue"
      /\ pubs[t.pub].request = "deactivate"
  BY <1>0 DEF TasksGood, TaskGood, Due, InForce
<1>2. v \in Vehicles /\ t.pub \in Nat /\ t.pub # 0 /\ pubs[t.pub].category \in Categories
  BY <1>0, <1>1, RowsOf
<1>3. IsLast(v, t.pub) /\ WatchCar(v)  BY <1>0, <1>1, <1>2 DEF OneKill, WatchInv
<1>4. vehicle[v].highest \in Nat /\ StageTime(pubs[t.pub].category) \in Nat
  BY <1>0, <1>2, RecordIs, StageTimes DEF Record
<1>5. ASSUME NEW u \in tasks, u.pub = t.pub
      PROVE  u.left \in Nat /\ u.what \notin {"receive", "finish"}
  <2>1. u.left \in Nat  BY <1>0 DEF TypeOK, Task
  <2>2. /\ u.what = "receive" => u.left + StageTime(pubs[t.pub].category) < 0
        /\ u.what = "finish" => u.left < 0
    BY <1>0, <1>1, <1>5 DEF InTime
  <2> QED  BY <1>4, <2>1, <2>2
<1>6. ~Coming(v, t.pub)  BY <1>1, <1>2, <1>5 DEF Coming
<1>7. ~Ending(v, t.pub)  BY <1>5 DEF Ending, KillStages
<1>8. vehicle[v].highest <= t.pub /\ ~(vehicle[v].highest < t.pub)
  BY <1>1, <1>3, <1>6 DEF WatchCar, LastUnderWay
<1>9. vehicle[v].highest = t.pub  BY <1>2, <1>4, <1>8
<1> QED  BY <1>1, <1>3, <1>7, <1>9 DEF WatchCar, LastUnderWay

\* A watch fires: whoever is late has no link.
LEMMA TimerWatch ==
  ASSUME WatchConstants, DeliveryInv, WatchInv, NEW t \in tasks,
         ReceiveOld(t) \/ Close(t) \/ CheckOverdue(t)
  PROVE  WatchInv'
<1>0. TypeOK /\ TasksGood /\ InTime /\ TurnFresh /\ OverdueTrue  BY DEF DeliveryInv, WatchInv
<1>1. PubsKept  BY <1>0, NoneChanged, CloseDoes DEF ReceiveOld, CheckOverdue
<1>2. /\ tasks' = tasks \ {t} /\ turn = 0 /\ turn' = 0 /\ UNCHANGED <<vehicle, status>>
      /\ t.what \in {"receive", "close", "overdue"}
      /\ t.what = "receive" => t.pub <= vehicle[t.vin].highest
  BY DEF ReceiveOld, Close, CheckOverdue, Due
<1>3. \A v \in Vehicles : KillStages(v)' = KillStages(v)  BY <1>2 DEF KillStages
<1>4. ASSUME NEW v \in Vehicles, NEW p \in DOMAIN pubs, vehicle[v].highest < p, Coming(v, p)
      PROVE  Coming(v, p)'
  <2>1. vehicle[v].highest \in Nat /\ p \in Nat  BY <1>0, SeqIs, RecordIs DEF Record
  <2>2. ~(p <= vehicle[v].highest)  BY <1>4, <2>1
  <2> QED  BY <1>2, <1>4, <2>2 DEF Coming
<1>5. /\ \A v \in Vehicles \ Offline : WatchCar(v)'
      /\ \A k \in DOMAIN pubs : SeenDone(k) => SeenDone(k)'
      /\ \A k \in DOMAIN pubs : InForce(k)' <=> InForce(k)
      /\ OneKill' /\ RestoresLater' /\ (overdue' = overdue => OverdueTrue')
  BY <1>1, <1>2, <1>3, <1>4, CarsStill
<1>6. \A v \in Offline : Silent(v)'  BY <1>2 DEF WatchInv, Silent
<1>7. TurnFresh'  BY <1>0, <1>2 DEF TurnFresh
<1>8. InTime'
  <2>1. \A u \in tasks : u.pub \in DOMAIN pubs /\ pubs'[u.pub].category = pubs[u.pub].category
    BY <1>0, <1>1 DEF TasksGood, TaskGood, PubsKept, SameOrder
  <2> QED  BY <1>0, <1>2, <2>1 DEF InTime
<1>9. DOMAIN pubs' = DOMAIN pubs /\ \A k \in DOMAIN pubs : turn # k /\ Targets(k)' = Targets(k)
  BY <1>0, <1>1, <1>2, RowsOf, KeptSame DEF PubsKept
<1>10. CASE t.what # "overdue"
  <2>1. overdue' = overdue  BY <1>10 DEF ReceiveOld, Close, CheckOverdue, Due
  <2>2. \A w \in tasks : w.what = "overdue" => w \in tasks'  BY <1>2, <1>10
  <2>3. WatchKept'  BY <1>5, <1>9, <2>1, <2>2 DEF WatchInv, WatchKept
  <2> QED  BY <1>5, <1>6, <1>7, <1>8, <2>1, <2>3 DEF WatchInv
<1>11. CASE t.what = "overdue"
  <2>1. /\ Due(t, "overdue")
        /\ overdue' = IF InForce(t.pub) /\ Late(t.pub) # {} THEN overdue \cup {t.pub} ELSE overdue
    BY <1>11 DEF ReceiveOld, Close, CheckOverdue, Due
  <2>2. t.pub \in DOMAIN pubs /\ Targets(t.pub) \subseteq Vehicles
    BY <1>0, RowsOf DEF TasksGood, TaskGood
  <2>3. OverdueTrue'
    <3>1. CASE overdue' = overdue  BY <1>5, <3>1
    <3>2. CASE InForce(t.pub) /\ Late(t.pub) # {}
      <4>1. PICK v \in Targets(t.pub) : status[v] # Desired(t.pub)  BY <3>2 DEF Late
      <4>2. v \in Offline  BY <2>1, <3>2, <4>1, WatchedDone DEF KillDone
      <4> QED  BY <1>0, <1>9, <2>1, <2>2, <3>2, <4>2 DEF OverdueTrue
    <3> QED  BY <2>1, <3>1, <3>2
  <2>4. WatchKept'
    <3> SUFFICES ASSUME NEW k \in DOMAIN pubs, InForce(k)
                 PROVE  \/ \E w \in tasks' : w.what = "overdue" /\ w.pub = k
                        \/ k \in overdue'
                        \/ SeenDone(k)'
      BY <1>5, <1>9 DEF WatchKept
    <3>1. CASE k # t.pub
      <4>1. \A w \in tasks : w.pub = k => w \in tasks'  BY <1>2, <3>1
      <4> QED  BY <1>5, <1>9, <2>1, <4>1 DEF WatchInv, WatchKept
    <3>2. CASE k = t.pub /\ Late(k) = {}
      <4>1. SeenDone(k)
        <5> SUFFICES ASSUME NEW v \in Targets(k)
                     PROVE  v \notin Offline /\ vehicle[v].highest = k /\ KillDone(v, k)
          BY DEF SeenDone
        <5>1. status[v] = Desired(k)  BY <3>2 DEF Late
        <5>2. v \notin Offline
          <6>1. Desired(k) # None  BY DEF Desired, EndState, None
          <6> QED  BY <5>1, <6>1 DEF WatchInv, Silent
        <5> QED  BY <2>1, <3>2, <5>2, WatchedDone
      <4> QED  BY <1>5, <4>1
    <3>3. CASE k = t.pub /\ Late(k) # {}  BY <2>1, <3>3
    <3> QED  BY <3>1, <3>2, <3>3
  <2> QED  BY <1>5, <1>6, <1>7, <1>8, <2>3, <2>4 DEF WatchInv
<1> QED  BY <1>10, <1>11

\* Time passes for all timers alike.
LEMMA TickWatch == ASSUME WatchConstants, DeliveryInv, WatchInv, Tick  PROVE WatchInv'
<1>0. TypeOK /\ TasksGood /\ OneKill /\ RestoresLater /\ InTime /\ OverdueTrue
  BY DEF DeliveryInv, WatchInv
<1>1. /\ turn = 0 /\ tasks' = {[t EXCEPT !.left = @ - 1] : t \in tasks}
      /\ \A t \in tasks : t.left > 0
      /\ UNCHANGED <<pubs, vehicle, status, turn, overdue>>
  BY DEF Tick
<1>2. ASSUME NEW t \in tasks
      PROVE  \E u \in tasks' : SameTimer(u, t)
  <2>1. t \in Task /\ t.left > 0  BY <1>0, <1>1 DEF TypeOK
  <2>2. PICK u : u = [t EXCEPT !.left = @ - 1]  OBVIOUS
  <2>3. u \in tasks'  BY <1>1, <2>2
  <2>4. SameTimer(u, t)  BY <2>1, <2>2 DEF Task, SameTimer
  <2> QED  BY <2>3, <2>4
<1>3. ASSUME NEW u \in tasks'
      PROVE  \E t \in tasks : u = [t EXCEPT !.left = @ - 1] /\ SameTimer(u, t) /\ t.left \in Nat
  <2>1. PICK t \in tasks : u = [t EXCEPT !.left = @ - 1]  BY <1>1
  <2>2. t \in Task /\ t.left > 0 /\ t.left \in Nat  BY <1>0, <1>1 DEF TypeOK, Task
  <2>3. SameTimer(u, t)  BY <2>1, <2>2 DEF Task, SameTimer
  <2> QED  BY <2>1, <2>2, <2>3
<1>4. PubsKept /\ OneKill' /\ RestoresLater'  BY <1>0, <1>1, NoneChanged, OrdersKept
<1>5. /\ \A p \in DOMAIN pubs : Targets(p)' = Targets(p) /\ Desired(p)' = Desired(p)
      /\ \A v, p : IsLast(v, p)' <=> IsLast(v, p)
      /\ \A k : InForce(k)' <=> InForce(k)
  BY <1>0, <1>1, <1>4, KeptSame, OrdersKept DEF InForce
<1>6. ASSUME NEW v \in Vehicles
      PROVE  /\ \A u \in KillStages(v)' :
                  \E t \in KillStages(v) : u = [t EXCEPT !.left = @ - 1] /\ SameTimer(u, t) /\ t.left \in Nat
             /\ \A t \in KillStages(v) : \E u \in KillStages(v)' : SameTimer(u, t)
             /\ \A k \in DOMAIN pubs : KillDone(v, k) => KillDone(v, k)'
  <2>1. ASSUME NEW u \in KillStages(v)'
        PROVE  \E t \in KillStages(v) : u = [t EXCEPT !.left = @ - 1] /\ SameTimer(u, t) /\ t.left \in Nat
    BY <1>3, <2>1 DEF KillStages, SameTimer
  <2>2. ASSUME NEW t \in KillStages(v)  PROVE \E u \in KillStages(v)' : SameTimer(u, t)
    BY <1>2, <2>2 DEF KillStages, SameTimer
  <2>3. KillStages(v) = {} => KillStages(v)' = {}  BY <2>1
  <2>4. \A k \in DOMAIN pubs : KillDone(v, k) => KillDone(v, k)'  BY <1>1, <1>5, <2>3 DEF KillDone
  <2> QED  BY <2>1, <2>2, <2>4
<1>7. ASSUME NEW v \in Vehicles \ Offline  PROVE WatchCar(v)'
  <2>0. WatchCar(v)  BY DEF WatchInv
  <2>1. Untouched(v)'  BY <1>1, <1>5, <2>0 DEF WatchCar, Untouched
  <2>2. NumbersKept(v)'  BY <1>1, <1>5, <2>0 DEF WatchCar, NumbersKept
  <2>3. KillsInOrder(v)'
    <3>1. ASSUME NEW u \in KillStages(v)'  PROVE KillStageGood(v, u)'
      <4>1. PICK t \in KillStages(v) :
              u = [t EXCEPT !.left = @ - 1] /\ SameTimer(u, t) /\ t.left \in Nat
        BY <1>6
      <4>2. KillStageGood(v, t) /\ t.pub \in DOMAIN pubs
        BY <1>0, <2>0 DEF WatchCar, KillsInOrder, KillStages, TasksGood, TaskGood
      <4>3. StageTime(pubs[t.pub].category) \in Nat  BY <1>0, <4>2, RowsOf, StageTimes
      <4>4. /\ t.delay = StageTime(pubs[t.pub].category) /\ t.left <= t.delay => u.left <= t.delay
            /\ t.left < StageTime(pubs[t.pub].category) => u.left < StageTime(pubs[t.pub].category)
        BY <4>1, <4>3 DEF SameTimer
      <4> QED  BY <1>1, <4>1, <4>2, <4>4 DEF KillStageGood, SameTimer
    <3>2. ASSUME NEW u \in KillStages(v)', NEW e \in KillStages(v)', e.what = "finish"
          PROVE  FiresBefore(u, e)
      <4>1. PICK t \in KillStages(v) :
              u = [t EXCEPT !.left = @ - 1] /\ SameTimer(u, t) /\ t.left \in Nat
        BY <1>6
      <4>2. PICK f \in KillStages(v) :
              e = [f EXCEPT !.left = @ - 1] /\ SameTimer(e, f) /\ f.left \in Nat
        BY <1>6
      <4>3. f.what = "finish"  BY <3>2, <4>2 DEF SameTimer
      <4>4. FiresBefore(t, f)  BY <2>0, <4>3 DEF WatchCar, KillsInOrder
      <4>5. (t.left <= f.left => u.left <= e.left) /\ (t.left < f.left => u.left < e.left)
        BY <4>1, <4>2 DEF SameTimer
      <4>6. t = f => u = e  BY <4>1, <4>2
      <4> QED  BY <4>1, <4>2, <4>4, <4>5, <4>6 DEF FiresBefore, SameTimer
    <3> QED  BY <3>1, <3>2 DEF KillsInOrder, FiresBefore
  <2>4. LastUnderWay(v)'
    <3> SUFFICES ASSUME NEW p \in DOMAIN pubs, IsLast(v, p)
                 PROVE  /\ vehicle[v].highest <= p
                        /\ vehicle[v].highest < p => Coming(v, p)'
                        /\ vehicle[v].highest = p /\ pubs[p].request = "deactivate" =>
                             Took(v, p)' /\ (Ending(v, p)' \/ KillDone(v, p)')
      BY <1>1, <1>5 DEF LastUnderWay
    <3>1. ASSUME Coming(v, p)  PROVE Coming(v, p)'
      <4>1. CASE turn = p  BY <1>1, <4>1 DEF Coming
      <4>2. ASSUME NEW t \in tasks, t.what = "receive", t.pub = p, t.vin = v
            PROVE  \E u \in tasks' : u.what = "receive" /\ u.pub = p /\ u.vin = v
        BY <1>2, <4>2 DEF SameTimer
      <4> QED  BY <3>1, <4>1, <4>2 DEF Coming
    <3>2. Took(v, p) => Took(v, p)'  BY <1>1 DEF Took
    <3>3. Ending(v, p) => Ending(v, p)'  BY <1>6 DEF Ending, SameTimer
    <3> QED  BY <1>6, <2>0, <3>1, <3>2, <3>3 DEF WatchCar, LastUnderWay
  <2> QED  BY <2>1, <2>2, <2>3, <2>4 DEF WatchCar
<1>8. ASSUME NEW v \in Offline  PROVE Silent(v)'
  <2>1. Silent(v)  BY DEF WatchInv
  <2>2. \A u \in tasks' : u.what \notin {"close", "overdue"} => u.vin # v
    BY <1>3, <2>1 DEF Silent, SameTimer
  <2> QED  BY <1>1, <2>1, <2>2 DEF Silent
<1>9. TurnFresh'  BY <1>1, <1>3 DEF WatchInv, TurnFresh, SameTimer
<1>10. InTime'
  <2> SUFFICES ASSUME NEW x \in tasks', NEW u \in tasks', x.what = "overdue", u.pub = x.pub
               PROVE  /\ u.what = "receive" => u.left + StageTime(pubs[u.pub].category) < x.left
                      /\ u.what = "finish" => u.left < x.left
    BY <1>1 DEF InTime
  <2>1. PICK w \in tasks : SameTimer(x, w) /\ w.left \in Nat  BY <1>3
  <2>2. PICK t \in tasks : SameTimer(u, t) /\ t.left \in Nat  BY <1>3
  <2>3. /\ t.what = "receive" => t.left + StageTime(pubs[t.pub].category) < w.left
        /\ t.what = "finish" => t.left < w.left
    BY <1>0, <2>1, <2>2 DEF InTime, SameTimer
  <2>4. StageTime(pubs[t.pub].category) \in Nat
    BY <1>0, RowsOf, StageTimes DEF TasksGood, TaskGood
  <2> QED  BY <2>1, <2>2, <2>3, <2>4 DEF SameTimer
<1>11. WatchKept'
  <2> SUFFICES ASSUME NEW k \in DOMAIN pubs, InForce(k), turn # k
               PROVE  \/ \E w \in tasks' : w.what = "overdue" /\ w.pub = k
                      \/ k \in overdue
                      \/ SeenDone(k)'
    BY <1>1, <1>5 DEF WatchKept
  <2>1. ASSUME NEW w \in tasks, w.what = "overdue", w.pub = k
        PROVE  \E u \in tasks' : u.what = "overdue" /\ u.pub = k
    BY <1>2, <2>1 DEF SameTimer
  <2>2. SeenDone(k) => SeenDone(k)'
    <3>1. Targets(k) \subseteq Vehicles /\ Targets(k)' = Targets(k)  BY <1>0, <1>5, RowsOf
    <3> QED  BY <1>1, <1>6, <3>1 DEF SeenDone
  <2> QED  BY <2>1, <2>2 DEF WatchInv, WatchKept
<1>12. OverdueTrue'  BY <1>0, <1>1, <1>5 DEF OverdueTrue
<1> QED  BY <1>4, <1>7, <1>8, <1>9, <1>10, <1>11, <1>12 DEF WatchInv

\* A product grows with its factor.
LEMMA ProductGrows ==
  ASSUME NEW n \in Nat, NEW m \in Nat, n <= m, NEW k \in Nat
  PROVE  n * k \in Nat /\ m * k \in Nat /\ n * k <= m * k
<1>1. PICK d \in Nat : m = n + d  
  <2>1. m - n \in Nat /\ m = n + (m - n)  OBVIOUS
  <2> QED  BY <2>1
<1>2. m * k = n * k + d * k  BY <1>1
<1>3. n * k \in Nat /\ d * k \in Nat  OBVIOUS
<1> QED  BY <1>2, <1>3

\* The platform's time for a kill is a number.
LEMMA ApplyTimeIs ==
  ASSUME NEW c \in Categories
  PROVE  ApplyTime("deactivate", c) \in Nat
<1>1. EffectiveClass(c) \in {"DC0", "DC1", "DC2", "DC3"}  BY ConstantsOK DEF EffectiveClass
<1>2. Takeover \in Nat /\ Ramp \in Nat /\ ApplyWindow \in Nat  BY ConstantsOK
<1> QED  BY <1>1, <1>2 DEF ApplyTime

\* The deliveries of a publication: one to each vehicle with a link, in time.
LEMMA DeliveriesAre ==
  ASSUME WatchConstants, TypeOK, NEW p \in DOMAIN pubs
  PROVE  /\ \A u \in Deliveries(p) :
              /\ u.what = "receive" /\ u.pub = p /\ u.vin \notin Offline
              /\ u.left + StageTime(pubs[p].category)
                   < ApplyTime("deactivate", pubs[p].category) + OverdueMargin
         /\ \A v \in Targets(p) : v \notin Offline =>
              \E u \in Deliveries(p) : u.what = "receive" /\ u.pub = p /\ u.vin = v
<1> DEFINE vins == pubs[p].vins
           c == pubs[p].category
           sim == {i \in DOMAIN vins : vins[i] \notin Offline}
           before(i) == {j \in sim : j < i}
           delay(i) == Latency + Cardinality(before(i)) * Stagger
<1>1. c \in Categories /\ vins \in Lists /\ vins \in Seq(Vehicles)  BY RowsOf
<1>2. Deliveries(p) = {Timer(delay(i), "receive", p, vins[i]) : i \in sim}  BY DEF Deliveries
<1>3. Latency \in Nat /\ Stagger \in Nat  BY ConstantsOK
<1>4. ASSUME NEW i \in sim
      PROVE  delay(i) + StageTime(c) < ApplyTime("deactivate", c) + OverdueMargin
  <2>1. DOMAIN vins = 1 .. Len(vins) /\ Len(vins) \in Nat  BY <1>1, LenProperties
  <2>2. i \in 1 .. Len(vins) /\ Len(vins) - 1 \in Nat  BY <2>1
  <2>3. before(i) \subseteq 1 .. (i - 1)  BY <2>1, <2>2
  <2>4. IsFiniteSet(1 .. (i - 1)) /\ Cardinality(1 .. (i - 1)) = i - 1
    <3> DEFINE k == i - 1
    <3>1. k \in Nat  BY <2>2
    <3> HIDE DEF k
    <3>2. IsFiniteSet(1 .. k) /\ Cardinality(1 .. k) = IF 1 > k THEN 0 ELSE k - 1 + 1
      BY <3>1, FS_Interval
    <3>3. Cardinality(1 .. k) = k  BY <3>1, <3>2
    <3> QED  BY <3>2, <3>3 DEF k
  <2>5. Cardinality(before(i)) \in Nat /\ Cardinality(before(i)) <= i - 1
    BY <2>3, <2>4, FS_Subset, FS_CardinalityType
  <2> DEFINE n == Cardinality(before(i))
             m == Len(vins) - 1
  <2>6. n \in Nat /\ m \in Nat /\ n <= m  BY <2>2, <2>5
  <2>7. Latency + m * Stagger + StageTime(c) < ApplyTime("deactivate", c) + OverdueMargin
    BY <1>1 DEF WatchConstants
  <2>8. StageTime(c) \in Nat /\ ApplyTime("deactivate", c) + OverdueMargin \in Nat
    <3>1. StageTime(c) \in Nat  BY <1>1, StageTimes
    <3>2. ApplyTime("deactivate", c) \in Nat /\ OverdueMargin \in Nat
      BY <1>1, ConstantsOK, ApplyTimeIs
    <3> QED  BY <3>1, <3>2
  <2> HIDE DEF n, m, c
  <2>9. n * Stagger \in Nat /\ m * Stagger \in Nat /\ n * Stagger <= m * Stagger
    BY <1>3, <2>6, ProductGrows
  <2>10. Latency + n * Stagger + StageTime(c) < ApplyTime("deactivate", c) + OverdueMargin
    BY <1>3, <2>7, <2>8, <2>9
  <2> QED  BY <2>10 DEF n
<1> HIDE DEF delay, c
<1>5. \A d, v : LET u == Timer(d, "receive", p, v)
                IN u.what = "receive" /\ u.pub = p /\ u.vin = v /\ u.left = d
  BY DEF Timer
<1>6. ASSUME NEW u \in Deliveries(p)
      PROVE  /\ u.what = "receive" /\ u.pub = p /\ u.vin \notin Offline
             /\ u.left + StageTime(c) < ApplyTime("deactivate", c) + OverdueMargin
  <2>1. PICK i \in sim : u = Timer(delay(i), "receive", p, vins[i])  BY <1>2
  <2>2. u.what = "receive" /\ u.pub = p /\ u.vin = vins[i] /\ u.left = delay(i)
    BY <1>5, <2>1
  <2> QED  BY <1>4, <2>2
<1>7. ASSUME NEW v \in Targets(p), v \notin Offline
      PROVE  \E u \in Deliveries(p) : u.what = "receive" /\ u.pub = p /\ u.vin = v
  <2>1. PICK i \in DOMAIN vins : v = vins[i]  BY DEF Targets, ToSet
  <2>2. i \in sim  BY <1>7, <2>1
  <2>3. Timer(delay(i), "receive", p, v) \in Deliveries(p)  BY <1>2, <2>1, <2>2
  <2> QED  BY <1>5, <2>3
<1> QED  BY <1>6, <1>7 DEF c

\* The watches of a publication: for a kill the overdue watch is one.
LEMMA WatchesAre ==
  ASSUME TypeOK, NEW p \in DOMAIN pubs
  PROVE  /\ \A w \in Watches(p) :
              /\ w.pub = p /\ w.what \in {"close", "overdue"}
              /\ w.what = "overdue" =>
                   w.left = ApplyTime("deactivate", pubs[p].category) + OverdueMargin
         /\ pubs[p].request = "deactivate" =>
              \E w \in Watches(p) : w.what = "overdue" /\ w.pub = p
<1> DEFINE time == ApplyTime(pubs[p].request, pubs[p].category)
           a == Timer(ReplyTime + time, "close", p, None)
           b == Timer(time + OverdueMargin, "overdue", p, None)
<1>1. /\ a.pub = p /\ a.what = "close"
      /\ b.pub = p /\ b.what = "overdue" /\ b.left = time + OverdueMargin
  BY DEF Timer
<1>2. pubs[p].request \in {"deactivate", "restore"}  BY RowsOf
<1>3. CASE pubs[p].request = "restore"
  <2>1. Watches(p) = {a}  BY <1>3 DEF Watches
  <2> HIDE DEF a
  <2> QED  BY <1>1, <1>3, <2>1
<1>4. CASE pubs[p].request = "deactivate"
  <2>1. Watches(p) = {a, b} /\ time = ApplyTime("deactivate", pubs[p].category)
    BY <1>4 DEF Watches
  <2> HIDE DEF a, b, time
  <2> QED  BY <1>1, <1>4, <2>1
<1> QED  BY <1>2, <1>3, <1>4

\* A kill that is dispatched is watched, and its deliveries are in time.
LEMMA DispatchWatch ==
  ASSUME WatchConstants, DeliveryInv, WatchInv, Dispatch
  PROVE  WatchInv'
<1>0. TypeOK /\ TasksGood /\ TurnSigned /\ InTime /\ TurnFresh  BY DEF DeliveryInv, WatchInv
<1>1. PICK p \in DOMAIN pubs : p = turn /\ p # 0  BY <1>0 DEF Dispatch, TurnSigned
<1>2. PubsKept  BY <1>0, <1>1, DispatchDoes
<1>3. /\ tasks' = tasks \cup Deliveries(p) \cup Watches(p) /\ turn' = 0
      /\ UNCHANGED <<vehicle, status, overdue>>
  BY <1>1 DEF Dispatch
<1>4. /\ \A u \in Deliveries(p) :
           /\ u.what = "receive" /\ u.pub = p /\ u.vin \notin Offline
           /\ u.left + StageTime(pubs[p].category)
                < ApplyTime("deactivate", pubs[p].category) + OverdueMargin
      /\ \A v \in Targets(p) : v \notin Offline =>
           \E u \in Deliveries(p) : u.what = "receive" /\ u.pub = p /\ u.vin = v
  BY <1>0, DeliveriesAre
<1>5. /\ \A w \in Watches(p) :
           /\ w.pub = p /\ w.what \in {"close", "overdue"}
           /\ w.what = "overdue" => w.left = ApplyTime("deactivate", pubs[p].category) + OverdueMargin
      /\ pubs[p].request = "deactivate" => \E w \in Watches(p) : w.what = "overdue" /\ w.pub = p
  BY <1>0, WatchesAre
<1>6. \A v \in Vehicles : KillStages(v)' = KillStages(v)  BY <1>3, <1>4, <1>5 DEF KillStages
<1>7. ASSUME NEW v \in Vehicles \ Offline PROVE WatchCar(v)'
  <2>1. WatchCar(v) /\ OneKill /\ RestoresLater  BY DEF WatchInv
  <2>2. \A y \in DOMAIN pubs : IsLast(v, y) /\ vehicle[v].highest < y /\ Coming(v, y) => Coming(v, y)'
    BY <1>1, <1>3, <1>4 DEF Coming, IsLast
  <2> QED  BY <1>0, <1>2, <1>3, <1>6, <2>1, <2>2, SameWatchCar
<1>8. /\ \A q \in DOMAIN pubs : Targets(q)' = Targets(q) /\ Desired(q)' = Desired(q)
      /\ \A k \in DOMAIN pubs : InForce(k)' <=> InForce(k)
      /\ OneKill' /\ RestoresLater' /\ DOMAIN pubs' = DOMAIN pubs
      /\ \A u \in tasks : u.pub \in DOMAIN pubs
      /\ \A q \in DOMAIN pubs : pubs'[q].category = pubs[q].category
  <2>1. \A k \in DOMAIN pubs : InForce(k)' <=> InForce(k)
    BY <1>2 DEF InForce, PubsKept, SameOrder
  <2> QED  BY <1>0, <1>2, <2>1, KeptSame, OrdersKept
           DEF PubsKept, SameOrder, TasksGood, TaskGood, WatchInv
<1>9. \A v \in Offline : Silent(v)'  BY <1>3, <1>4, <1>5 DEF WatchInv, Silent
<1>10. TurnFresh'
  <2>1. \A q \in DOMAIN pubs : q # 0  BY <1>0, RowsOf
  <2> QED  BY <1>1, <1>3, <1>4, <1>5, <1>8, <2>1 DEF TurnFresh
<1>11. InTime'
  <2> SUFFICES ASSUME NEW w \in tasks', NEW u \in tasks', w.what = "overdue", u.pub = w.pub
               PROVE  /\ u.what = "receive" => u.left + StageTime(pubs'[u.pub].category) < w.left
                      /\ u.what = "finish" => u.left < w.left
    BY DEF InTime
  <2>1. CASE w.pub = p
    <3>1. w \in Watches(p) /\ u \in Deliveries(p) \cup Watches(p)
      BY <1>0, <1>1, <1>3, <1>4, <2>1 DEF TurnFresh
    <3> QED  BY <1>1, <1>4, <1>5, <1>8, <2>1, <3>1
  <2>2. CASE w.pub # p
    <3>1. w \in tasks /\ u \in tasks  BY <1>3, <1>4, <1>5, <2>2
    <3> QED  BY <1>0, <1>8, <3>1 DEF InTime
  <2> QED  BY <2>1, <2>2
<1>12. WatchKept'
  <2> SUFFICES ASSUME NEW k \in DOMAIN pubs, InForce(k)
               PROVE  \/ \E w \in tasks' : w.what = "overdue" /\ w.pub = k
                      \/ k \in overdue
                      \/ SeenDone(k)'
    BY <1>3, <1>8 DEF WatchKept
  <2>1. CASE k = p  BY <1>3, <1>5, <2>1 DEF InForce
  <2>2. CASE k # p
    <3>1. SeenDone(k) => SeenDone(k)'
      <4>1. Targets(k) \subseteq Vehicles  BY <1>0, RowsOf
      <4> QED  BY <1>3, <1>6, <1>8, <4>1 DEF SeenDone, KillDone
    <3> QED  BY <1>1, <1>3, <2>2, <3>1 DEF WatchInv, WatchKept
  <2> QED  BY <2>1, <2>2
<1>13. OverdueTrue'  BY <1>3, <1>8 DEF WatchInv, OverdueTrue
<1> QED  BY <1>7, <1>8, <1>9, <1>10, <1>11, <1>12, <1>13 DEF WatchInv

\* A command is issued: nothing has been seen of it yet, and its watch is set up by
\* its dispatch.
LEMMA IssueWatch ==
  ASSUME WatchConstants, DeliveryInv, WatchInv,
         \/ \E vins \in Lists, category \in Categories : IssueKill(vins, category)
         \/ \E k \in DOMAIN pubs : IssueRestore(k)
  PROVE  WatchInv'
<1>0. /\ TypeOK /\ TasksGood /\ OneKill /\ RestoresLater /\ TurnFresh /\ InTime /\ WatchKept
      /\ OverdueTrue /\ "COMMERCIAL" \notin Categories
  BY DEF DeliveryInv, WatchInv, WatchConstants
<1>1. turn = 0 /\ UNCHANGED <<vehicle, status, tasks, overdue>> /\ \E n \in Nat : OneOrder(n)
  BY <1>0, IssueKillOrders, IssueRestoreOrders
<1>2. PICK n \in Nat : OneOrder(n)  BY <1>1
<1>3. /\ n # 0 /\ n \notin DOMAIN pubs /\ DOMAIN pubs' = DOMAIN pubs \cup {n} /\ turn' = n
      /\ \A p \in DOMAIN pubs : pubs'[p] = pubs[p] /\ p < n /\ Targets(p)' = Targets(p)
      /\ OneKill' /\ RestoresLater'
  BY <1>2 DEF OneOrder
<1>4. \A t \in tasks : t.pub \in DOMAIN pubs  BY <1>0 DEF TasksGood, TaskGood
<1>5. \A p \in DOMAIN pubs : Desired(p)' = Desired(p)  BY <1>3 DEF Desired, EndState
<1>6. ASSUME NEW v \in Vehicles \ Offline  PROVE WatchCar(v)'
  <2>0. WatchCar(v) /\ KillStages(v)' = KillStages(v)  BY <1>1 DEF WatchInv, KillStages
  <2>1. vehicle[v].highest \in Nat /\ vehicle[v].highest < n
    <3>1. CASE \A p \in DOMAIN pubs : v \notin Targets(p)
      BY <1>3, <2>0, <3>1 DEF WatchCar, Untouched
    <3>2. CASE \E p \in DOMAIN pubs : v \in Targets(p)
      <4>1. PICK p \in DOMAIN pubs : IsLast(v, p)  BY <1>0, <3>2, LastIs DEF IsLast
      <4>2. vehicle[v].highest <= p  BY <2>0, <4>1 DEF WatchCar, LastUnderWay
      <4>3. vehicle[v].highest \in Nat /\ p \in Nat  BY <1>0, SeqIs, RecordIs DEF Record
      <4> QED  BY <1>3, <4>2, <4>3
    <3> QED  BY <3>1, <3>2
  <2>2. Untouched(v)'  BY <1>1, <1>3, <2>0 DEF WatchCar, Untouched
  <2>3. NumbersKept(v)'  BY <1>1, <1>3, <2>0 DEF WatchCar, NumbersKept
  <2>4. KillsInOrder(v)'
    <3>1. \A t \in KillStages(v) : t.pub \in DOMAIN pubs  BY <1>4 DEF KillStages
    <3> QED  BY <1>1, <1>3, <2>0, <3>1 DEF WatchCar, KillsInOrder, KillStageGood, FiresBefore
  <2>5. LastUnderWay(v)'
    <3> SUFFICES ASSUME NEW p \in DOMAIN pubs', IsLast(v, p)'
                 PROVE  /\ vehicle[v].highest <= p
                        /\ vehicle[v].highest < p => Coming(v, p)'
                        /\ vehicle[v].highest = p /\ pubs'[p].request = "deactivate" =>
                             Took(v, p)' /\ (Ending(v, p)' \/ KillDone(v, p)')
      BY <1>1 DEF LastUnderWay
    <3>1. CASE p = n  BY <1>3, <2>1, <3>1 DEF Coming
    <3>2. CASE p \in DOMAIN pubs
      <4>1. IsLast(v, p)  BY <1>3, <3>2 DEF IsLast
      <4>2. p # 0  BY <1>0, <3>2, RowsOf
      <4>3. Coming(v, p) => Coming(v, p)'  BY <1>1, <4>2 DEF Coming
      <4>4. Took(v, p) => Took(v, p)'  BY <1>1, <1>3, <3>2 DEF Took
      <4>5. Ending(v, p) => Ending(v, p)'  BY <2>0 DEF Ending
      <4>6. KillDone(v, p) => KillDone(v, p)'  BY <1>1, <1>5, <2>0, <3>2 DEF KillDone
      <4> QED  BY <1>3, <2>0, <3>2, <4>1, <4>3, <4>4, <4>5, <4>6 DEF WatchCar, LastUnderWay
    <3> QED  BY <1>3, <3>1, <3>2
  <2> QED  BY <2>2, <2>3, <2>4, <2>5 DEF WatchCar
<1>7. \A v \in Offline : Silent(v)'  BY <1>1 DEF WatchInv, Silent
<1>8. TurnFresh'  BY <1>1, <1>3, <1>4 DEF TurnFresh
<1>9. InTime'  BY <1>0, <1>1, <1>3, <1>4 DEF InTime
<1>10. WatchKept'
  <2> SUFFICES ASSUME NEW k \in DOMAIN pubs', InForce(k)', n # k
               PROVE  \/ \E w \in tasks' : w.what = "overdue" /\ w.pub = k
                      \/ k \in overdue'
                      \/ SeenDone(k)'
    BY <1>3 DEF WatchKept
  <2>1. k \in DOMAIN pubs /\ k # 0  BY <1>0, <1>3, RowsOf
  <2>2. InForce(k)  BY <1>3, <2>1 DEF InForce
  <2>3. ASSUME SeenDone(k)  PROVE SeenDone(k)'
    <3>1. \A v \in Targets(k) : KillDone(v, k) => KillDone(v, k)'
      BY <1>1, <1>5, <2>1 DEF KillDone, KillStages
    <3> QED  BY <1>1, <1>3, <2>1, <2>3, <3>1 DEF SeenDone
  <2> QED  BY <1>0, <1>1, <2>1, <2>2, <2>3 DEF WatchKept
<1>11. OverdueTrue'  BY <1>0, <1>1, <1>3 DEF OverdueTrue
<1> QED  BY <1>3, <1>6, <1>7, <1>8, <1>9, <1>10, <1>11 DEF WatchInv

-----------------------------------------------------------------------------
(* The watch is exact *)

\* A step that changes nothing.
LEMMA StillWatch == ASSUME DeliveryInv, WatchInv, UNCHANGED vars  PROVE WatchInv'
<1>0. TypeOK /\ TasksGood /\ WatchKept  BY DEF DeliveryInv, WatchInv
<1>1. UNCHANGED <<pubs, vehicle, status, tasks, turn, overdue>>  BY DEF vars
<1>2. PubsKept  BY <1>0, <1>1, NoneChanged
<1>3. \A v \in Vehicles : KillStages(v)' = KillStages(v)  BY <1>1 DEF KillStages
<1>4. \A v \in Vehicles, p \in DOMAIN pubs :
        IsLast(v, p) /\ vehicle[v].highest < p /\ Coming(v, p) => Coming(v, p)'
  BY <1>1 DEF Coming
<1>5. /\ \A v \in Vehicles \ Offline : WatchCar(v)'
      /\ \A k \in DOMAIN pubs : SeenDone(k) => SeenDone(k)'
      /\ \A k \in DOMAIN pubs : InForce(k)' <=> InForce(k)
      /\ OneKill' /\ RestoresLater' /\ (overdue' = overdue => OverdueTrue')
  BY <1>1, <1>2, <1>3, <1>4, CarsStill
<1>6. /\ \A v \in Offline : Silent(v)'
      /\ TurnFresh' /\ InTime'
  BY <1>1 DEF WatchInv, Silent, TurnFresh, InTime
<1>7. WatchKept'  BY <1>0, <1>1, <1>5 DEF WatchKept
<1> QED  BY <1>1, <1>5, <1>6, <1>7 DEF WatchInv

LEMMA WatchNext ==
  ASSUME WatchConstants, DeliveryInv, HeardInv, WatchInv, crashes = 0, [Next]_vars
  PROVE  WatchInv' /\ crashes' = 0
<1>0. TypeOK /\ TasksGood  BY DEF DeliveryInv
<1>1. CASE \/ \E vins \in Lists, category \in Categories : IssueKill(vins, category)
           \/ \E k \in DOMAIN pubs : IssueRestore(k)
  BY <1>1, IssueWatch DEF IssueKill, IssueRestore
<1>2. CASE Dispatch  BY <1>2, DispatchWatch DEF Dispatch
<1>3. ASSUME NEW t \in tasks, ReceiveOld(t) \/ Close(t) \/ CheckOverdue(t)
      PROVE  WatchInv' /\ crashes' = 0
  BY <1>3, TimerWatch DEF ReceiveOld, Close, CheckOverdue
<1>4. ASSUME NEW t \in tasks, ReceiveRefused(t)  PROVE FALSE
  <2>1. PICK x, r : /\ Moves(t, t.vin, t.pub, x, r, {}) /\ t.pub > vehicle[t.vin].highest
                    /\ GuardRefuses(t.vin, t.pub)
    BY <1>4, RefusedIs
  <2>2. t.vin \in Vehicles /\ t.pub \in DOMAIN pubs /\ t.vin \in Targets(t.pub)
    BY <2>1 DEF Moves
  <2>3. t.vin \notin Offline  BY <1>0, <1>4, HasLink DEF ReceiveRefused, Due
  <2>4. NumbersKept(t.vin)  BY <2>2, <2>3 DEF WatchInv, WatchCar
  <2> QED  BY <2>1, <2>2, <2>4, Accepting
<1>5. ASSUME NEW t \in tasks, ReceiveTaken(t)  PROVE WatchInv' /\ crashes' = 0
  BY <1>5, TakenWatch DEF ReceiveTaken
<1>6. ASSUME NEW t \in tasks, RampStarts(t) \/ Finish(t) \/ Restored(t)
      PROVE  WatchInv' /\ crashes' = 0
  BY <1>6, StageWatch DEF RampStarts, Finish, Restored, StageFires
<1>7. CASE RunTimer  BY <1>3, <1>4, <1>5, <1>6, <1>7 DEF RunTimer
<1>8. CASE Tick  BY <1>8, TickWatch DEF Tick
<1>9. CASE BumpEpoch  BY <1>9 DEF BumpEpoch, HeardInv, WatchConstants
<1>10. CASE Crash  BY <1>10 DEF Crash, WatchConstants
<1>11. CASE UNCHANGED vars  BY <1>11, StillWatch DEF vars
<1> QED  BY <1>1, <1>2, <1>7, <1>8, <1>9, <1>10, <1>11 DEF Next

LEMMA WatchInit == Init => WatchInv /\ crashes = 0
<1> SUFFICES ASSUME Init  PROVE WatchInv /\ crashes = 0
  OBVIOUS
<1>1. DOMAIN pubs = {} /\ tasks = {} /\ overdue = {} /\ crashes = 0  BY DEF Init
<1>2. /\ OneKill /\ RestoresLater /\ TurnFresh /\ InTime /\ WatchKept /\ OverdueTrue
  BY <1>1 DEF OneKill, RestoresLater, TurnFresh, InTime, WatchKept, OverdueTrue
<1>3. ASSUME NEW v \in Vehicles  PROVE WatchCar(v) /\ (v \in Offline => Silent(v))
  <2>1. KillStages(v) = {}  BY <1>1 DEF KillStages
  <2>2. ~vehicle[v].killed /\ status[v] = None /\ vehicle[v].highest = 0 /\ vehicle[v].lastSeq = 0
    BY DEF Init
  <2> QED  BY <1>1, <2>1, <2>2
           DEF WatchCar, Untouched, NumbersKept, KillsInOrder, LastUnderWay, IsLast, Silent
<1> QED  BY <1>1, <1>2, <1>3, ConstantsOK DEF WatchInv

\* What the watch keeps is what is asked of it.
LEMMA WatchExact == ASSUME WatchInv  PROVE OverdueExact
<1>1. \A k : SeenDone(k) => \A v \in Targets(k) : status[v] = Desired(k)
  BY DEF SeenDone, KillDone
<1> QED  BY <1>1 DEF WatchInv, WatchKept, OverdueTrue, OverdueExact

\* A kill whose overdue watch has run was seen in the end state everywhere or is
\* raised, and it is raised only for a vehicle without a link: however many kills
\* and restores there are, with one key epoch, no crash, kills that do not overlap,
\* one deactivation class in use, and a margin longer than the way to the last
\* vehicle of a list takes beyond the platform's time for the class
\* (status-ingest.service.ts, watch and checkOverdue).
THEOREM OverdueAlwaysExact == WatchConstants /\ Spec => []OverdueExact
<1> DEFINE Inv == WatchConstants /\ DeliveryInv /\ HeardInv /\ WatchInv /\ crashes = 0
<1>1. WatchConstants /\ Init => Inv
  BY DeliveryInvInit, HeardInit, WatchInit
<1>2. Inv /\ [Next]_vars => Inv'
  <2> SUFFICES ASSUME Inv, [Next]_vars  PROVE Inv'
    OBVIOUS
  <2>1. DeliveryInv'  BY DeliveryInvNext
  <2>2. HeardInv'  BY <2>1, HeardNext DEF WatchConstants
  <2>3. WatchInv' /\ crashes' = 0  BY WatchNext
  <2> QED  BY <2>1, <2>2, <2>3 DEF WatchConstants
<1>3. Inv => OverdueExact  BY WatchExact
<1> HIDE DEF Inv
<1> QED  BY <1>1, <1>2, <1>3, PTL DEF Spec
=============================================================================
