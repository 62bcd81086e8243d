---------------------------- MODULE RequestProofs ----------------------------
(***************************************************************************)
(* Theorems about repeated requests.  VehicleRequests, for any number of   *)
(* boots, reports and publications, any loss, repetition and reordering,   *)
(* and any number of crashes: what the cursor alone guarantees, and when   *)
(* it does not.  IdempotencyKeys, for every set of keys and bodies and any *)
(* number of handlers, effects and crashes.                                *)
(***************************************************************************)
EXTENDS VehicleRequests, IdempotencyKeys, ReportNumbers, ChannelLimit,
        WellFoundedInduction, FiniteSetTheorems, SequenceTheorems, TLAPS

Position == [boot: Nat \ {0}, sequence: Nat]

\* Reports without a stored answer.
Open == DOMAIN sent \ DOMAIN records

Formed ==
  /\ DOMAIN sent \subseteq Position
  /\ applied \in Seq(Position)
  /\ cursor \in Position \cup {NoCursor}
  /\ stray \subseteq DOMAIN sent
  /\ \A i \in DOMAIN applied : applied[i] \in DOMAIN sent
  /\ boot \in Nat \ {0} /\ number \in Nat

\* The vehicle counts up, boot by boot.
SentInOrder ==
  \A k \in DOMAIN sent : k.boot <= boot /\ (k.boot = boot => k.sequence <= number)

\* The cursor is a report that took effect; before the first there is none.
CursorApplied ==
  /\ cursor = NoCursor => applied = << >> /\ stray = {}
  /\ cursor # NoCursor => \E i \in DOMAIN applied : applied[i] = cursor

\* What took effect without a stored answer is behind the cursor, or stray.
BehindCursor ==
  \A i \in DOMAIN applied :
    applied[i] \in Open \ stray
      => applied[i].boot = cursor.boot /\ applied[i].sequence <= cursor.sequence

\* What was open before a stray report of the same boot is stray as well.
StrayBelow ==
  \A k \in stray, x \in Open : x.boot = k.boot /\ x.sequence < k.sequence => x \in stray

StrayHello(b) == \E h \in stray : IsHello(h) /\ h.boot = b

\* A boot that came back with stray reports still ahead came back by a stray HELLO.
CameBack == \A k \in stray : k.boot = cursor.boot /\ k.sequence > cursor.sequence
                               => StrayHello(cursor.boot)

\* What is open of a boot before one that took effect is stray.
OlderOpenStray ==
  \A i \in DOMAIN applied, x \in Open : x.boot < applied[i].boot => x \in stray

\* A boot older than one that took effect came back by a stray HELLO.
OlderCameBack ==
  \A i \in DOMAIN applied : cursor.boot < applied[i].boot => StrayHello(cursor.boot)

Channel ==
  /\ Formed /\ SentInOrder /\ CursorApplied /\ BehindCursor /\ StrayBelow /\ CameBack
  /\ OlderOpenStray /\ OlderCameBack
  /\ TwiceOnlyIfStray /\ OldBootOnlyIfStray

-----------------------------------------------------------------------------
\* A stored answer more, and all else the same, changes nothing of this.
LEMMA ChannelSame ==
  ASSUME Channel, UNCHANGED <<cursor, applied, stray, boot, number, sent>>,
         DOMAIN records \subseteq DOMAIN records'
  PROVE  Channel'
<1>1. Open' \subseteq Open  BY DEF Open
<1>2. \A b : StrayHello(b) => StrayHello(b)'  BY DEF StrayHello, IsHello
<1>3. Formed' /\ SentInOrder' /\ CursorApplied'
  BY DEF Channel, Formed, SentInOrder, CursorApplied
<1>4. BehindCursor'  BY <1>1 DEF Channel, BehindCursor
<1>5. StrayBelow'  BY <1>1 DEF Channel, StrayBelow
<1>6. CameBack'  BY <1>2 DEF Channel, CameBack
<1>7. OlderOpenStray'  BY <1>1 DEF Channel, OlderOpenStray
<1>8. OlderCameBack'  BY <1>2 DEF Channel, OlderCameBack
<1>9. TwiceOnlyIfStray' /\ OldBootOnlyIfStray'
  BY DEF Channel, TwiceOnlyIfStray, OldBootOnlyIfStray, IsHello
<1> QED  BY <1>3, <1>4, <1>5, <1>6, <1>7, <1>8, <1>9 DEF Channel

\* The vehicle sends: the new report is ahead of all it sent.
LEMMA ChannelSend ==
  ASSUME Channel, NEW type, SendReport(type)  PROVE Channel'
<1> DEFINE n == [boot |-> boot, sequence |-> number + 1]
<1>1. /\ DOMAIN sent' = DOMAIN sent \cup {n}
      /\ \A k \in DOMAIN sent : k # n => sent'[k] = sent[k]
      /\ number' = number + 1
      /\ UNCHANGED <<cursor, records, applied, stray, boot>>
  BY DEF SendReport, Put, platformVars
<1>2. n \in Position /\ n.boot = boot /\ n.sequence = number + 1 /\ number \in Nat
      /\ boot \in Nat \ {0}
  BY DEF Channel, Formed, Position
<1> HIDE DEF n
<1>3. n \notin DOMAIN sent
  <2> SUFFICES ASSUME n \in DOMAIN sent  PROVE FALSE  OBVIOUS
  <2>1. n.sequence <= number  BY <1>2 DEF Channel, SentInOrder
  <2> QED  BY <1>2, <2>1
<1>4. \A k \in DOMAIN sent : sent'[k] = sent[k]  BY <1>1, <1>3
<1>5. Formed /\ SentInOrder /\ stray \subseteq DOMAIN sent /\ DOMAIN sent \subseteq Position
  BY DEF Channel, Formed
<1>6. Formed' /\ CursorApplied'
  BY <1>1, <1>2 DEF Channel, Formed, CursorApplied
<1>7. SentInOrder'
  BY <1>1, <1>2, <1>5 DEF SentInOrder, Position
<1>8. Open' = (Open \cup {n}) \ DOMAIN records  BY <1>1, <1>3 DEF Open
<1>9. \A b : StrayHello(b) => StrayHello(b)'  BY <1>1, <1>4, <1>5 DEF StrayHello, IsHello
<1>10. BehindCursor'
  BY <1>1, <1>3, <1>8 DEF Channel, BehindCursor, Formed
<1>11. StrayBelow'
  <2> SUFFICES ASSUME NEW k \in stray, NEW x \in Open', x.boot = k.boot, x.sequence < k.sequence
               PROVE  x \in stray
    BY <1>1 DEF StrayBelow
  <2>1. CASE x \in Open  BY <2>1 DEF Channel, StrayBelow
  <2>2. CASE x = n
    <3>1. k \in DOMAIN sent /\ k \in Position  BY <1>5
    <3>2. k.sequence <= number  BY <1>2, <1>5, <2>2, <3>1 DEF SentInOrder
    <3> QED  BY <1>2, <2>2, <3>1, <3>2 DEF Position
  <2> QED  BY <1>8, <2>1, <2>2
<1>12. CameBack'  BY <1>1, <1>9 DEF Channel, CameBack
<1>13. OlderOpenStray'
  <2> SUFFICES ASSUME NEW i \in DOMAIN applied, NEW x \in Open', x.boot < applied[i].boot
               PROVE  x \in stray
    BY <1>1 DEF OlderOpenStray
  <2>1. CASE x \in Open  BY <2>1 DEF Channel, OlderOpenStray
  <2>2. CASE x = n
    <3>1. applied[i] \in DOMAIN sent /\ applied[i] \in Position  BY <1>5 DEF Formed
    <3>2. applied[i].boot <= boot  BY <1>5, <3>1 DEF SentInOrder
    <3> QED  BY <1>2, <2>2, <3>1, <3>2 DEF Position
  <2> QED  BY <1>8, <2>1, <2>2
<1>14. OlderCameBack'  BY <1>1, <1>9 DEF Channel, OlderCameBack
<1>15. TwiceOnlyIfStray' /\ OldBootOnlyIfStray'
  BY <1>1, <1>4, <1>5 DEF Channel, TwiceOnlyIfStray, OldBootOnlyIfStray, IsHello
<1> QED
  BY <1>6, <1>7, <1>10, <1>11, <1>12, <1>13, <1>14, <1>15 DEF Channel

\* The vehicle boots: what it sent is of earlier boots.
LEMMA ChannelReboot == ASSUME Channel, Reboot PROVE Channel'
<1>1. /\ boot' = boot + 1 /\ number' = 0
      /\ UNCHANGED <<cursor, records, applied, stray, sent>>
  BY DEF Reboot, platformVars
<1>2. Formed /\ SentInOrder /\ boot \in Nat \ {0} /\ DOMAIN sent \subseteq Position
  BY DEF Channel, Formed
<1>3. Formed'  BY <1>1, <1>2 DEF Formed
<1>4. SentInOrder'  BY <1>1, <1>2 DEF SentInOrder, Position
<1>5. \A b : StrayHello(b) => StrayHello(b)'  BY <1>1 DEF StrayHello, IsHello
<1>6. Open' = Open  BY <1>1 DEF Open
<1>7. CursorApplied' /\ BehindCursor' /\ StrayBelow' /\ OlderOpenStray'
  BY <1>1, <1>6 DEF Channel, CursorApplied, BehindCursor, StrayBelow, OlderOpenStray
<1>8. CameBack' /\ OlderCameBack'  BY <1>1, <1>5 DEF Channel, CameBack, OlderCameBack
<1>9. TwiceOnlyIfStray' /\ OldBootOnlyIfStray'
  BY <1>1 DEF Channel, TwiceOnlyIfStray, OldBootOnlyIfStray, IsHello
<1> QED  BY <1>3, <1>4, <1>7, <1>8, <1>9 DEF Channel

\* A report takes effect: again only when it is stray and its boot came back.
LEMMA ChannelApply ==
  ASSUME Channel, NEW x \in DOMAIN sent, Apply(x)  PROVE Channel'
<1> DEFINE n == Len(applied) + 1
<1>1. /\ x \notin DOMAIN records /\ InOrder(x) /\ cursor' = x
      /\ stray' = IF x.boot = cursor.boot THEN stray ELSE stray \cup Unsettled(x.boot)
      /\ applied' = Append(applied, x)
      /\ UNCHANGED <<records, boot, number, sent>>
  BY DEF Apply, carVars
<1>2. /\ DOMAIN sent \subseteq Position /\ x \in Position /\ applied \in Seq(Position)
      /\ stray \subseteq DOMAIN sent /\ cursor \in Position \cup {NoCursor}
  BY DEF Channel, Formed
<1>3. /\ applied' \in Seq(Position) /\ DOMAIN applied' = DOMAIN applied \cup {n}
      /\ n \notin DOMAIN applied /\ applied'[n] = x
      /\ \A i \in DOMAIN applied : applied'[i] = applied[i]
      /\ \A i \in DOMAIN applied : i < n /\ ~(n < i)
  BY <1>1, <1>2
<1> HIDE DEF n
<1>4. x \in Open /\ Open' = Open  BY <1>1 DEF Open
<1>5. stray \subseteq stray' /\ stray' \subseteq DOMAIN sent
  BY <1>1, <1>2 DEF Unsettled
<1>6. x.boot # cursor.boot => \A y \in Open : y.boot # x.boot => y \in stray'
  BY <1>1 DEF Unsettled, Open
<1>7. \A y \in stray' : y \in stray \/ (y.boot # x.boot /\ y \in Open /\ x.boot # cursor.boot)
  BY <1>1 DEF Unsettled, Open
<1>8. \A b : StrayHello(b) => StrayHello(b)'  BY <1>1, <1>5 DEF StrayHello, IsHello
<1>9. x.boot \in Nat \ {0} /\ x.sequence \in Nat /\ NoCursor.boot = 0
  BY <1>2 DEF Position, NoCursor
<1>10. cursor = NoCursor => applied = << >> /\ stray = {}  BY DEF Channel, CursorApplied
\* Three ways to be in order.
<1>11. \/ cursor = NoCursor /\ x.boot # cursor.boot
       \/ cursor # NoCursor /\ x.boot # cursor.boot /\ IsHello(x)
       \/ cursor # NoCursor /\ x.boot = cursor.boot /\ x.sequence > cursor.sequence
  BY <1>1, <1>9 DEF InOrder
<1>12. \A i \in DOMAIN applied : cursor # NoCursor
  BY <1>10
<1>13. Formed' /\ SentInOrder'
  BY <1>1, <1>2, <1>3, <1>5 DEF Channel, Formed, SentInOrder
<1>14. CursorApplied'
  <2>1. x # NoCursor  BY <1>9
  <2> QED  BY <1>1, <1>3, <2>1 DEF CursorApplied
<1>15. BehindCursor'
  <2> SUFFICES ASSUME NEW i \in DOMAIN applied', applied'[i] \in Open, applied'[i] \notin stray'
               PROVE  applied'[i].boot = x.boot /\ applied'[i].sequence <= x.sequence
    BY <1>1, <1>4 DEF BehindCursor
  <2>1. CASE i = n  BY <1>3, <1>9, <2>1
  <2>2. CASE i \in DOMAIN applied
    <3>1. applied'[i] = applied[i] /\ applied[i] \in Open \ stray /\ applied[i] \in Position
      BY <1>2, <1>3, <1>5, <2>2
    <3>2. applied[i].boot = cursor.boot /\ applied[i].sequence <= cursor.sequence
      BY <2>2, <3>1 DEF Channel, BehindCursor
    <3>3. CASE x.boot # cursor.boot  BY <1>6, <3>1, <3>2, <3>3
    <3>4. CASE x.boot = cursor.boot
      <4>1. x.sequence > cursor.sequence /\ cursor \in Position  BY <1>2, <1>11, <3>4
      <4> QED  BY <1>9, <3>1, <3>2, <3>4, <4>1 DEF Position
    <3> QED  BY <3>3, <3>4
  <2> QED  BY <1>3, <2>1, <2>2
<1>16. StrayBelow'
  <2> SUFFICES ASSUME NEW k \in stray', NEW y \in Open, y.boot = k.boot, y.sequence < k.sequence
               PROVE  y \in stray'
    BY <1>4 DEF StrayBelow
  <2>1. CASE k \in stray  BY <1>5, <2>1 DEF Channel, StrayBelow
  <2>2. CASE k.boot # x.boot /\ x.boot # cursor.boot  BY <1>6, <2>2
  <2> QED  BY <1>7, <2>1, <2>2
<1>17. CameBack'
  <2> SUFFICES ASSUME NEW k \in stray', k.boot = x.boot, k.sequence > x.sequence
               PROVE  StrayHello(x.boot)'
    BY <1>1 DEF CameBack
  <2>1. k \in stray /\ k \in Position  BY <1>2, <1>7
  <2>2. CASE x.boot = cursor.boot
    <3>1. x.sequence > cursor.sequence /\ cursor \in Position  BY <1>2, <1>11, <2>2
    <3>2. k.sequence > cursor.sequence  BY <1>9, <2>1, <3>1 DEF Position
    <3>3. StrayHello(cursor.boot)  BY <2>1, <2>2, <3>2 DEF Channel, CameBack
    <3> QED  BY <1>8, <2>2, <3>3
  <2>3. CASE x.boot # cursor.boot
    <3>1. IsHello(x)  BY <1>10, <1>11, <2>1, <2>3
    <3>2. x \in stray  BY <1>4, <1>9, <2>1 DEF Channel, StrayBelow, Position
    <3>3. StrayHello(x.boot)  BY <3>1, <3>2 DEF StrayHello
    <3> QED  BY <1>8, <3>3
  <2> QED  BY <2>2, <2>3
<1>18. OlderOpenStray'
  <2> SUFFICES ASSUME NEW i \in DOMAIN applied', NEW y \in Open, y.boot < applied'[i].boot
               PROVE  y \in stray'
    BY <1>4 DEF OlderOpenStray
  <2>0. y \in Position  BY <1>2 DEF Open
  <2>1. CASE i \in DOMAIN applied  BY <1>3, <1>5, <2>1 DEF Channel, OlderOpenStray
  <2>2. CASE i = n
    <3>1. y.boot < x.boot  BY <1>3, <2>2
    <3>2. CASE x.boot # cursor.boot  BY <1>6, <1>9, <2>0, <3>1, <3>2 DEF Position
    <3>3. CASE x.boot = cursor.boot
      <4>1. PICK j \in DOMAIN applied : applied[j] = cursor
        BY <1>11, <3>3 DEF Channel, CursorApplied
      <4>2. y.boot < applied[j].boot  BY <3>1, <3>3, <4>1
      <4>3. y \in stray  BY <4>2 DEF Channel, OlderOpenStray
      <4> QED  BY <1>5, <4>3
    <3> QED  BY <3>2, <3>3
  <2> QED  BY <1>3, <2>1, <2>2
<1>19. ASSUME NEW i \in DOMAIN applied, x.boot < applied[i].boot  PROVE StrayHello(x.boot)'
  <2>1. CASE x.boot = cursor.boot
    <3>1. StrayHello(cursor.boot)  BY <1>19, <2>1 DEF Channel, OlderCameBack
    <3> QED  BY <1>8, <2>1, <3>1
  <2>2. CASE x.boot # cursor.boot
    <3>1. IsHello(x)  BY <1>11, <1>12, <2>2
    <3>2. x \in stray  BY <1>4, <1>19 DEF Channel, OlderOpenStray
    <3>3. StrayHello(x.boot)  BY <3>1, <3>2 DEF StrayHello
    <3> QED  BY <1>8, <3>3
  <2> QED  BY <2>1, <2>2
<1>20. OlderCameBack'
  <2> SUFFICES ASSUME NEW i \in DOMAIN applied', x.boot < applied'[i].boot
               PROVE  StrayHello(x.boot)'
    BY <1>1 DEF OlderCameBack
  <2>1. i # n  BY <1>3, <1>9
  <2> QED  BY <1>3, <1>19, <2>1
<1>21. ASSUME NEW i \in DOMAIN applied, applied[i] = x
       PROVE  x \in stray /\ StrayHello(x.boot)'
  <2>1. x \in stray
    <3> SUFFICES ASSUME x \notin stray  PROVE FALSE  OBVIOUS
    <3>1. x.boot = cursor.boot /\ x.sequence <= cursor.sequence
      BY <1>4, <1>21 DEF Channel, BehindCursor
    <3>2. cursor \in Position /\ x.sequence > cursor.sequence  BY <1>2, <1>11, <3>1
    <3> QED  BY <1>9, <3>1, <3>2 DEF Position
  <2>2. CASE x.boot = cursor.boot
    <3>1. x.sequence > cursor.sequence  BY <1>11, <2>2
    <3>2. StrayHello(cursor.boot)  BY <2>1, <2>2, <3>1 DEF Channel, CameBack
    <3> QED  BY <1>8, <2>1, <2>2, <3>2
  <2>3. CASE x.boot # cursor.boot
    <3>1. IsHello(x)  BY <1>11, <1>12, <1>21, <2>3
    <3>2. StrayHello(x.boot)  BY <2>1, <3>1 DEF StrayHello
    <3> QED  BY <1>8, <2>1, <3>2
  <2> QED  BY <2>2, <2>3
<1>22. TwiceOnlyIfStray'
  <2> SUFFICES ASSUME NEW i \in DOMAIN applied', NEW j \in DOMAIN applied', i # j,
                      applied'[i] = applied'[j]
               PROVE  applied'[i] \in stray' /\ StrayHello(applied[i].boot)'
    BY DEF TwiceOnlyIfStray, StrayHello
  <2>1. CASE i \in DOMAIN applied /\ j \in DOMAIN applied
    <3>1. applied[i] = applied[j] /\ applied'[i] = applied[i]  BY <1>3, <2>1
    <3>2. applied[i] \in stray /\ StrayHello(applied[i].boot)
      BY <2>1, <3>1 DEF Channel, TwiceOnlyIfStray, StrayHello
    <3> QED  BY <1>5, <1>8, <3>1, <3>2 DEF StrayHello
  <2>2. CASE i = n /\ j \in DOMAIN applied
    <3>1. applied[j] = x /\ applied'[i] = x  BY <1>3, <2>2
    <3> QED  BY <1>5, <1>21, <2>2, <3>1 DEF StrayHello
  <2>3. CASE j = n /\ i \in DOMAIN applied
    <3>1. applied[i] = x /\ applied'[i] = x  BY <1>3, <2>3
    <3> QED  BY <1>5, <1>21, <2>3, <3>1 DEF StrayHello
  <2> QED  BY <1>3, <2>1, <2>2, <2>3
<1>23. OldBootOnlyIfStray'
  <2> SUFFICES ASSUME NEW i \in DOMAIN applied', NEW j \in DOMAIN applied', i < j,
                      applied'[j].boot < applied'[i].boot
               PROVE  StrayHello(applied[j].boot)'
    BY DEF OldBootOnlyIfStray, StrayHello
  <2>1. CASE i \in DOMAIN applied /\ j \in DOMAIN applied
    <3>1. applied[j].boot < applied[i].boot /\ applied'[j] = applied[j]  BY <1>3, <2>1
    <3>2. StrayHello(applied[j].boot)
      BY <2>1, <3>1 DEF Channel, OldBootOnlyIfStray, StrayHello
    <3> QED  BY <1>8, <3>1, <3>2 DEF StrayHello
  <2>2. CASE j = n /\ i \in DOMAIN applied
    <3>1. applied'[j] = x /\ x.boot < applied[i].boot  BY <1>3, <2>2
    <3> QED  BY <1>19, <2>2, <3>1 DEF StrayHello
  <2>3. i # n
    <3>1. CASE j = n  BY <1>3, <1>9, <3>1
    <3>2. CASE j \in DOMAIN applied  BY <1>3, <3>2
    <3> QED  BY <1>3, <3>1, <3>2
  <2> QED  BY <1>3, <2>1, <2>2, <2>3
<1> QED
  BY <1>13, <1>14, <1>15, <1>16, <1>17, <1>18, <1>20, <1>22, <1>23 DEF Channel

LEMMA ChannelNext == Channel /\ [RequestNext]_requestVars => Channel'
<1> SUFFICES ASSUME Channel, [RequestNext]_requestVars  PROVE Channel'  OBVIOUS
<1>1. ASSUME NEW type, SendReport(type)  PROVE Channel'  BY <1>1, ChannelSend
<1>2. CASE Reboot  BY <1>2, ChannelReboot
<1>3. ASSUME NEW p, DispatchTo(p)  PROVE Channel'
  BY <1>3, ChannelSame DEF DispatchTo, carVars
<1>4. ASSUME NEW k \in DOMAIN sent, Replay(k)  PROVE Channel'
  BY <1>4, ChannelSame DEF Replay
<1>5. ASSUME NEW k, NEW a, records' = Put(records, k, a)
      PROVE  DOMAIN records \subseteq DOMAIN records'
  BY <1>5 DEF Put
<1>6. ASSUME NEW k \in DOMAIN sent, RefuseContent(k)  PROVE Channel'
  BY <1>5, <1>6, ChannelSame DEF RefuseContent, carVars
<1>7. ASSUME NEW k \in DOMAIN sent, Apply(k)  PROVE Channel'  BY <1>7, ChannelApply
<1>8. ASSUME NEW i \in DOMAIN working, StoreAnswer(i)  PROVE Channel'
  <2>1. DOMAIN records \subseteq DOMAIN records'
    BY <1>5, <1>8 DEF StoreAnswer
  <2> QED  BY <1>8, <2>1, ChannelSame DEF StoreAnswer
<1>9. CASE RequestCrash  BY <1>9, ChannelSame DEF RequestCrash, carVars
<1>10. CASE UNCHANGED requestVars
  BY <1>10, ChannelSame DEF requestVars, platformVars, carVars
<1> QED
  BY <1>1, <1>2, <1>3, <1>4, <1>6, <1>7, <1>8, <1>9, <1>10 DEF RequestNext

LEMMA ChannelInit == RequestInit => Channel
<1> SUFFICES ASSUME RequestInit  PROVE Channel  OBVIOUS
<1>1. /\ cursor = NoCursor /\ applied = << >> /\ stray = {} /\ sent = << >>
      /\ boot = 1 /\ number = 0
  BY DEF RequestInit
<1>2. DOMAIN applied = {} /\ DOMAIN sent = {} /\ applied \in Seq(Position)  BY <1>1
<1> QED
  BY <1>1, <1>2 DEF Channel, Formed, SentInOrder, CursorApplied, BehindCursor, StrayBelow,
     CameBack, OlderOpenStray, OlderCameBack, TwiceOnlyIfStray, OldBootOnlyIfStray

-----------------------------------------------------------------------------
(* What an answered HELLO brings *)

\* A set of numbers with a bound has a greatest element, which is its Max.
LEMMA Greatest ==
  ASSUME NEW n \in Nat, NEW S \in SUBSET (0..n), S # {}
  PROVE  Max(S) \in S /\ \A y \in S : y <= Max(S)
<1> DEFINE T == {m \in Nat : n - m \in S}
<1>1. T \subseteq Nat /\ T # {}
  <2>1. PICK y \in S : TRUE  OBVIOUS
  <2>2. n - y \in Nat /\ n - (n - y) = y  OBVIOUS
  <2>3. n - y \in T  BY <2>2
  <2> QED  BY <2>3
<1>2. PICK m \in T : \A k \in T : <<k, m>> \notin OpToRel(<, Nat)
  BY <1>1, WFMin, NatLessThanWellFounded, Zenon
<1>3. \A k \in T : ~(k < m)  BY <1>1, <1>2, Zenon DEF OpToRel
<1>4. n - m \in S /\ \A y \in S : n - m >= y
  <2>1. n - m \in S  OBVIOUS
  <2>2. ASSUME NEW y \in S  PROVE n - m >= y
    <3>1. n - y \in Nat /\ n - (n - y) = y  OBVIOUS
    <3>2. n - y \in T  BY <3>1
    <3>3. ~(n - y < m)  BY <1>3, <3>2
    <3> QED  BY <3>1, <3>3
  <2> QED  BY <2>1, <2>2
<1> HIDE DEF T
<1>5. Max(S) \in S /\ \A y \in S : Max(S) >= y  BY <1>4 DEF Max
<1> QED  BY <1>5

\* An answer to k that makes good what its HELLO knew.
MakesGood(k, redeliver) ==
  /\ redeliver \subseteq 1..ChannelPublications
  /\ IsHello(k) => \A p \in sent[k].known : p > sent[k].highest => p \in redeliver

Awaited == {w \in [key: DOMAIN sent, redeliver: SUBSET (1..ChannelPublications)] :
              MakesGood(w.key, w.redeliver)}

\* What a report knew was dispatched, and what it has the vehicle still has.
KnownBefore ==
  \A k \in DOMAIN sent :
    /\ sent[k].known \subseteq dispatched
    /\ sent[k].highest \in 0..highest

AnswersGood ==
  \A k \in DOMAIN records :
    /\ k \in DOMAIN sent
    /\ records[k].outcome = "ACCEPTED" => MakesGood(k, records[k].redeliver)

Reconciled ==
  /\ Channel
  /\ dispatched \subseteq 1..ChannelPublications
  /\ highest \in 0..ChannelPublications
  /\ answered \subseteq DOMAIN sent
  /\ KnownBefore /\ AnswersGood
  /\ working \in Seq(Awaited)
  /\ ReconciledCoversSent

\* A report, sent with a number of its own, leaves the others as they are.
LEMMA SentStays ==
  ASSUME Channel, NEW type, SendReport(type)
  PROVE  /\ DOMAIN sent \subseteq DOMAIN sent'
         /\ \A k \in DOMAIN sent : sent'[k] = sent[k]
         /\ \A k \in DOMAIN sent' \ DOMAIN sent :
              sent'[k].known \subseteq dispatched /\ sent'[k].highest \in {0, highest}
<1> DEFINE n == [boot |-> boot, sequence |-> number + 1]
           new == [type |-> type,
                   highest |-> IF type = "HELLO" THEN highest ELSE 0,
                   known |-> IF type = "HELLO" THEN dispatched ELSE {}]
<1>1. /\ DOMAIN sent' = DOMAIN sent \cup {n}
      /\ \A k \in DOMAIN sent : k # n => sent'[k] = sent[k]
      /\ sent'[n] = new
  BY DEF SendReport, Put
<1>2. n.boot = boot /\ n.sequence = number + 1 /\ number \in Nat
  BY DEF Channel, Formed
<1>3. new.known \subseteq dispatched /\ new.highest \in {0, highest}  OBVIOUS
<1> HIDE DEF n, new
<1>4. n \notin DOMAIN sent
  <2> SUFFICES ASSUME n \in DOMAIN sent  PROVE FALSE  OBVIOUS
  <2>1. n.sequence <= number  BY <1>2 DEF Channel, SentInOrder
  <2> QED  BY <1>2, <2>1
<1> QED  BY <1>1, <1>3, <1>4

\* Steps that send and answer nothing new.
LEMMA ReconciledSame ==
  ASSUME Reconciled, Channel',
         DOMAIN sent \subseteq DOMAIN sent', \A k \in DOMAIN sent : sent'[k] = sent[k],
         dispatched \subseteq dispatched', dispatched' \subseteq 1..ChannelPublications,
         KnownBefore', UNCHANGED <<answered, highest>>, AnswersGood',
         working' \in Seq(Awaited')
  PROVE  Reconciled'
<1>1. ReconciledCoversSent'  BY DEF Reconciled, ReconciledCoversSent
<1> QED  BY <1>1 DEF Reconciled

\* The answer to k is good, and arrives or not.
LEMMA ReconciledReceive ==
  ASSUME Reconciled, Channel', NEW k \in DOMAIN sent, NEW redeliver,
         MakesGood(k, redeliver), Receive(k, redeliver),
         UNCHANGED <<sent, dispatched>>, AnswersGood', working' \in Seq(Awaited')
  PROVE  Reconciled'
<1>1. CASE UNCHANGED <<answered, highest>>
  <2>1. KnownBefore'  BY <1>1 DEF Reconciled, KnownBefore
  <2> QED  BY <1>1, <2>1, ReconciledSame DEF Reconciled
<1>2. CASE IsHello(k) /\ answered' = answered \cup {k} /\ highest' = Max(redeliver \cup {highest})
  <2>1. highest \in 0..ChannelPublications /\ ChannelPublications \in Nat
    BY RequestConstants DEF Reconciled
  <2>2. redeliver \cup {highest} \in SUBSET (0..ChannelPublications)
    BY <2>1 DEF MakesGood
  <2>3. /\ highest' \in redeliver \cup {highest}
        /\ \A y \in redeliver \cup {highest} : y <= highest'
    BY <1>2, <2>1, <2>2, Greatest
  <2>4. highest' \in 0..ChannelPublications /\ highest <= highest'  BY <2>2, <2>3
  <2>5. KnownBefore'  BY <2>1, <2>4 DEF Reconciled, KnownBefore
  <2>6. ASSUME NEW a \in answered', NEW p \in sent[a].known  PROVE p <= highest'
    <3>0. a \in DOMAIN sent  BY <1>2 DEF Reconciled
    <3>1. p \in 1..ChannelPublications  BY <2>6, <3>0 DEF Reconciled, KnownBefore
    <3>2. CASE a \in answered
      <4>1. p <= highest  BY <2>6, <3>2 DEF Reconciled, ReconciledCoversSent
      <4> QED  BY <2>1, <2>4, <3>1, <4>1
    <3>3. CASE a = k
      <4>1. CASE p > sent[k].highest
        <5>1. p \in redeliver  BY <1>2, <2>6, <3>3, <4>1 DEF MakesGood
        <5> QED  BY <2>3, <5>1
      <4>2. CASE ~(p > sent[k].highest)
        <5>1. sent[k].highest \in 0..highest  BY DEF Reconciled, KnownBefore
        <5> QED  BY <2>1, <2>4, <3>1, <4>2, <5>1
      <4> QED  BY <4>1, <4>2
    <3> QED  BY <1>2, <3>2, <3>3
  <2>7. ReconciledCoversSent'  BY <2>6 DEF ReconciledCoversSent
  <2> QED  BY <1>2, <2>4, <2>5, <2>7 DEF Reconciled
<1> QED  BY <1>1, <1>2 DEF Receive

LEMMA ReconciledNext == Reconciled /\ [RequestNext]_requestVars => Reconciled'
<1> SUFFICES ASSUME Reconciled, [RequestNext]_requestVars  PROVE Reconciled'  OBVIOUS
<1>0. Channel'  BY ChannelNext DEF Reconciled
<1> USE DEF Reconciled
\* Whoever leaves sent and records alone keeps what is good.
<1>a. ASSUME UNCHANGED <<sent, records>>  PROVE AnswersGood'
  BY <1>a DEF AnswersGood, MakesGood, IsHello
<1>b. ASSUME UNCHANGED sent  PROVE Awaited' = Awaited
  BY <1>b DEF Awaited, MakesGood, IsHello
<1>c. ASSUME UNCHANGED <<sent, dispatched, highest>>  PROVE KnownBefore'
  BY <1>c DEF KnownBefore
<1>1. ASSUME NEW type, SendReport(type)  PROVE Reconciled'
  <2>1. UNCHANGED <<records, working, dispatched, answered, highest>>
    BY <1>1 DEF SendReport, platformVars
  <2>2. /\ DOMAIN sent \subseteq DOMAIN sent'
        /\ \A k \in DOMAIN sent : sent'[k] = sent[k]
        /\ \A k \in DOMAIN sent' \ DOMAIN sent :
             sent'[k].known \subseteq dispatched /\ sent'[k].highest \in {0, highest}
    BY <1>1, SentStays
  <2>3. AnswersGood'  BY <2>1, <2>2 DEF AnswersGood, MakesGood, IsHello
  <2>4. Awaited \subseteq Awaited'  BY <2>2 DEF Awaited, MakesGood, IsHello
  <2>5. working' \in Seq(Awaited')  BY <2>1, <2>4
  <2>6. KnownBefore'
    <3> SUFFICES ASSUME NEW k \in DOMAIN sent'
                 PROVE  sent'[k].known \subseteq dispatched /\ sent'[k].highest \in 0..highest
      BY <2>1 DEF KnownBefore
    <3>1. CASE k \in DOMAIN sent  BY <2>2, <3>1 DEF KnownBefore
    <3>2. CASE k \notin DOMAIN sent  BY <2>2, <3>2
    <3> QED  BY <3>1, <3>2
  <2> QED  BY <1>0, <2>1, <2>2, <2>3, <2>5, <2>6, ReconciledSame
<1>2. CASE Reboot
  <2>1. UNCHANGED <<sent, records, working, dispatched, answered, highest>>
    BY <1>2 DEF Reboot, platformVars
  <2> QED  BY <1>0, <1>a, <1>b, <1>c, <2>1, ReconciledSame
<1>3. ASSUME NEW p \in 1..ChannelPublications, DispatchTo(p)  PROVE Reconciled'
  <2>1. UNCHANGED <<sent, records, working, answered, highest>>
        /\ dispatched' = dispatched \cup {p}
    BY <1>3 DEF DispatchTo, carVars
  <2>2. KnownBefore'  BY <2>1 DEF KnownBefore
  <2> QED  BY <1>0, <1>a, <1>b, <2>1, <2>2, ReconciledSame
<1>4. ASSUME NEW k \in DOMAIN sent, Replay(k)  PROVE Reconciled'
  <2>1. k \in DOMAIN records /\ UNCHANGED <<sent, records, working, dispatched>>
    BY <1>4 DEF Replay
  <2>2. AnswersGood' /\ Awaited' = Awaited  BY <1>a, <1>b, <2>1
  <2>3. CASE records[k].outcome = "ACCEPTED"
    <3>1. Receive(k, records[k].redeliver)  BY <1>4, <2>3 DEF Replay
    <3>2. MakesGood(k, records[k].redeliver)  BY <2>1, <2>3 DEF AnswersGood
    <3> QED  BY <1>0, <2>1, <2>2, <3>1, <3>2, ReconciledReceive
  <2>4. CASE records[k].outcome # "ACCEPTED"
    <3>1. UNCHANGED <<answered, highest>>  BY <1>4, <2>4 DEF Replay
    <3> QED  BY <1>0, <1>c, <2>1, <2>2, <3>1, ReconciledSame
  <2> QED  BY <2>3, <2>4
<1>5. ASSUME NEW k \in DOMAIN sent, RefuseContent(k)  PROVE Reconciled'
  <2>1. /\ records' = Put(records, k, [outcome |-> "REJECTED", redeliver |-> {}])
        /\ UNCHANGED <<sent, working, dispatched, answered, highest>>
    BY <1>5 DEF RefuseContent, carVars
  <2>2. AnswersGood'
    BY <2>1 DEF AnswersGood, MakesGood, IsHello, Put
  <2> QED  BY <1>0, <1>b, <1>c, <2>1, <2>2, ReconciledSame
<1>6. ASSUME NEW k \in DOMAIN sent, Apply(k)  PROVE Reconciled'
  <2> DEFINE w == [key |-> k, redeliver |-> IF IsHello(k) THEN MissingAt(k) ELSE {}]
  <2>1. working' = Append(working, w) /\ UNCHANGED <<sent, records, dispatched, answered, highest>>
    BY <1>6 DEF Apply, carVars
  <2>2. w \in Awaited
    <3>1. MissingAt(k) \subseteq 1..ChannelPublications  BY DEF MissingAt
    <3>2. \A p \in sent[k].known : p > sent[k].highest => p \in MissingAt(k)
      BY DEF MissingAt, KnownBefore
    <3>3. MakesGood(k, w.redeliver)  BY <3>1, <3>2 DEF MakesGood
    <3>4. w \in [key: DOMAIN sent, redeliver: SUBSET (1..ChannelPublications)]  BY <3>1
    <3> QED  BY <3>3, <3>4 DEF Awaited
  <2> HIDE DEF w
  <2>3. working' \in Seq(Awaited')  BY <1>b, <2>1, <2>2
  <2> QED  BY <1>0, <1>a, <1>c, <2>1, <2>3, ReconciledSame
<1>7. ASSUME NEW i \in DOMAIN working, StoreAnswer(i)  PROVE Reconciled'
  <2> DEFINE w == working[i]
  <2>1. w \in Awaited  OBVIOUS
  <2>2. w.key \in DOMAIN sent /\ MakesGood(w.key, w.redeliver)  BY <2>1 DEF Awaited
  <2>3. UNCHANGED <<sent, dispatched>> /\ working' = RemoveAt(working, i)
    BY <1>7 DEF StoreAnswer
  <2>4. working' \in Seq(Awaited)
    <3>1. i \in 1..Len(working) /\ Len(working) \in Nat  OBVIOUS
    <3>2. SubSeq(working, 1, i - 1) \in Seq(Awaited)  BY <3>1
    <3>3. SubSeq(working, i + 1, Len(working)) \in Seq(Awaited)  BY <3>1
    <3> QED  BY <2>3, <3>2, <3>3, ConcatProperties DEF RemoveAt
  <2>5. Awaited' = Awaited  BY <1>b, <2>3
  <2>6. CASE w.key \in DOMAIN records
    <3>1. UNCHANGED <<records, answered, highest>>  BY <1>7, <2>6 DEF StoreAnswer
    <3> QED  BY <1>0, <1>a, <1>c, <2>3, <2>4, <2>5, <3>1, ReconciledSame
  <2>7. CASE w.key \notin DOMAIN records
    <3>1. /\ records' = Put(records, w.key, [outcome |-> "ACCEPTED", redeliver |-> w.redeliver])
          /\ Receive(w.key, w.redeliver)
      BY <1>7, <2>7 DEF StoreAnswer
    <3> HIDE DEF w
    <3>2. AnswersGood'
      BY <2>2, <2>3, <3>1 DEF AnswersGood, MakesGood, IsHello, Put
    <3> QED  BY <1>0, <2>2, <2>3, <2>4, <2>5, <3>1, <3>2, ReconciledReceive
  <2> QED  BY <2>6, <2>7
<1>8. CASE RequestCrash
  <2>1. working' = << >> /\ UNCHANGED <<sent, records, dispatched, answered, highest>>
    BY <1>8 DEF RequestCrash, carVars
  <2>2. working' \in Seq(Awaited')  BY <2>1
  <2> QED  BY <1>0, <1>a, <1>c, <2>1, <2>2, ReconciledSame
<1>9. CASE UNCHANGED requestVars
  <2>1. UNCHANGED <<sent, records, working, dispatched, answered, highest>>
    BY <1>9 DEF requestVars, platformVars, carVars
  <2> QED  BY <1>0, <1>a, <1>b, <1>c, <2>1, ReconciledSame
<1> QED
  BY <1>1, <1>2, <1>3, <1>4, <1>5, <1>6, <1>7, <1>8, <1>9 DEF RequestNext

LEMMA ReconciledInit == RequestInit => Reconciled
<1> SUFFICES ASSUME RequestInit  PROVE Reconciled  OBVIOUS
<1>1. Channel  BY ChannelInit
<1>2. /\ sent = << >> /\ records = << >> /\ working = << >> /\ answered = {}
      /\ dispatched = {} /\ highest = 0
  BY DEF RequestInit
<1>3. DOMAIN sent = {} /\ DOMAIN records = {} /\ working \in Seq(Awaited)  BY <1>2
<1>4. 0 \in 0..ChannelPublications  BY RequestConstants
<1> QED
  BY <1>1, <1>2, <1>3, <1>4 DEF Reconciled, KnownBefore, AnswersGood, ReconciledCoversSent

\* What has a form of its own: what is sent, stored and counted.
Typed ==
  /\ DOMAIN sent \subseteq Key
  /\ \A k \in DOMAIN sent : sent[k].type \in ReportTypes
  /\ \A k \in DOMAIN records : records[k] \in Answer
  /\ trial \in {"OFFERED", "ACTIVE"}
  /\ boot \in 1..MaxBoot /\ number \in 0..MaxReports

LEMMA TypedSend ==
  ASSUME Typed, NEW type \in ReportTypes, SendReport(type)
  PROVE  Typed'
<1> DEFINE n == [boot |-> boot, sequence |-> number + 1]
<1>1. /\ number' = number + 1 /\ DOMAIN sent' = DOMAIN sent \cup {n}
      /\ \A k \in DOMAIN sent' : sent'[k].type = type \/ (k \in DOMAIN sent /\ sent'[k] = sent[k])
      /\ UNCHANGED <<records, trial, boot>>
  BY DEF SendReport, Put, platformVars
<1>2. number + 1 \in 1..MaxReports
  BY RequestConstants DEF SendReport, Typed
<1>3. n \in Key  BY <1>2 DEF Typed, Key
<1> QED  BY <1>1, <1>2, <1>3 DEF Typed

\* An answer that is stored has its form.
LEMMA TypedStore ==
  ASSUME Typed, NEW k, NEW a \in Answer, records' = Put(records, k, a),
         UNCHANGED <<trial, boot, number, sent>>
  PROVE  Typed'
<1>1. \A x \in DOMAIN records' : records'[x] = a \/ (x \in DOMAIN records /\ records'[x] = records[x])
  BY DEF Put
<1> QED  BY <1>1 DEF Typed

LEMMA TypedNext == Typed /\ Reconciled /\ [RequestNext]_requestVars => Typed'
<1> SUFFICES ASSUME Typed, Reconciled, [RequestNext]_requestVars  PROVE Typed'  OBVIOUS
<1>1. ASSUME NEW type \in ReportTypes, SendReport(type)  PROVE Typed'  BY <1>1, TypedSend
<1>2. CASE Reboot
  <2>1. boot < MaxBoot /\ boot' = boot + 1 /\ number' = 0
        /\ UNCHANGED <<records, trial, sent>>
    BY <1>2 DEF Reboot, platformVars
  <2> QED  BY <2>1, RequestConstants DEF Typed
<1>3. CASE UNCHANGED <<records, trial, boot, number, sent>>  BY <1>3 DEF Typed
<1>4. ASSUME NEW k \in DOMAIN sent, RefuseContent(k)  PROVE Typed'
  <2>1. [outcome |-> "REJECTED", redeliver |-> {}] \in Answer  BY DEF Answer
  <2> QED  BY <1>4, <2>1, TypedStore DEF RefuseContent, carVars
<1>5. ASSUME NEW k \in DOMAIN sent, Apply(k)  PROVE Typed'
  BY <1>5 DEF Apply, carVars, Typed
<1>6. ASSUME NEW i \in DOMAIN working, StoreAnswer(i)  PROVE Typed'
  <2>1. CASE UNCHANGED records  BY <1>6, <1>3, <2>1 DEF StoreAnswer
  <2>2. CASE records' = Put(records, working[i].key,
                            [outcome |-> "ACCEPTED", redeliver |-> working[i].redeliver])
    <3>1. working[i] \in Awaited  BY DEF Reconciled
    <3>2. [outcome |-> "ACCEPTED", redeliver |-> working[i].redeliver] \in Answer
      BY <3>1 DEF Awaited, Answer
    <3> QED  BY <1>6, <2>2, <3>2, TypedStore DEF StoreAnswer
  <2> QED  BY <1>6, <2>1, <2>2 DEF StoreAnswer
<1>7. ASSUME NEW p, DispatchTo(p)  PROVE Typed'  BY <1>3, <1>7 DEF DispatchTo, carVars
<1>8. ASSUME NEW k \in DOMAIN sent, Replay(k)  PROVE Typed'  BY <1>3, <1>8 DEF Replay
<1>9. CASE RequestCrash  BY <1>3, <1>9 DEF RequestCrash, carVars
<1>10. CASE UNCHANGED requestVars
  BY <1>3, <1>10 DEF requestVars, platformVars, carVars
<1> QED
  BY <1>1, <1>2, <1>4, <1>5, <1>6, <1>7, <1>8, <1>9, <1>10 DEF RequestNext

LEMMA TypedInit == RequestInit => Typed
<1> SUFFICES ASSUME RequestInit  PROVE Typed  OBVIOUS
<1>1. DOMAIN sent = {} /\ DOMAIN records = {} /\ trial = "OFFERED" /\ boot = 1 /\ number = 0
  BY DEF RequestInit
<1> QED  BY <1>1, RequestConstants DEF Typed

LEMMA TypedIsType == Typed /\ Reconciled => RequestTypeOK
<1> SUFFICES ASSUME Typed, Reconciled  PROVE RequestTypeOK  OBVIOUS
<1>1. Formed /\ CursorApplied  BY DEF Reconciled, Channel
<1>2. cursor \in Key \cup {NoCursor}  BY <1>1 DEF CursorApplied, Formed, Typed
<1>3. ToSet(applied) \subseteq DOMAIN sent  BY <1>1 DEF Formed, ToSet
<1>4. \A i \in DOMAIN working : working[i].key \in DOMAIN sent
  BY DEF Reconciled, Awaited
<1>5. DOMAIN records \subseteq DOMAIN sent  BY DEF Reconciled, AnswersGood
<1> QED
  BY <1>1, <1>2, <1>3, <1>4, <1>5 DEF RequestTypeOK, Typed, Reconciled, Formed

-----------------------------------------------------------------------------
(* Theorems about VehicleRequests *)

\* Every report, stored answer and handler at work has its form, and what took
\* effect, was answered or went stray was sent.
THEOREM RequestTyped == RequestSpec => []RequestTypeOK
<1>1. RequestInit => Typed /\ Reconciled  BY TypedInit, ReconciledInit
<1>2. (Typed /\ Reconciled) /\ [RequestNext]_requestVars => (Typed /\ Reconciled)'
  BY TypedNext, ReconciledNext
<1>3. Typed /\ Reconciled => RequestTypeOK  BY TypedIsType
<1> QED  BY <1>1, <1>2, <1>3, PTL DEF RequestSpec

\* A report takes effect twice only if it, and a HELLO of its boot, had no stored
\* answer when another boot took over (VehicleRequestService, checkReportOrder).
THEOREM TwiceOnlyStray == RequestSpec => []TwiceOnlyIfStray
<1>1. RequestInit => Channel  BY ChannelInit
<1>2. Channel /\ [RequestNext]_requestVars => Channel'  BY ChannelNext
<1>3. Channel => TwiceOnlyIfStray  BY DEF Channel
<1> QED  BY <1>1, <1>2, <1>3, PTL DEF RequestSpec

\* A boot takes effect after a later one only if a HELLO of it had no stored answer
\* when another boot took over (checkReportOrder accepts any HELLO of another boot).
THEOREM OldBootOnlyStray == RequestSpec => []OldBootOnlyIfStray
<1>1. RequestInit => Channel  BY ChannelInit
<1>2. Channel /\ [RequestNext]_requestVars => Channel'  BY ChannelNext
<1>3. Channel => OldBootOnlyIfStray  BY DEF Channel
<1> QED  BY <1>1, <1>2, <1>3, PTL DEF RequestSpec

\* A vehicle whose HELLO was answered, perhaps by the replay of a stored answer,
\* has every publication dispatched when it sent it, or a newer one (missing).
THEOREM ReconciledAlways == RequestSpec => []ReconciledCoversSent
<1>1. RequestInit => Reconciled  BY ReconciledInit
<1>2. Reconciled /\ [RequestNext]_requestVars => Reconciled'  BY ReconciledNext
<1>3. Reconciled => ReconciledCoversSent  BY DEF Reconciled
<1> QED  BY <1>1, <1>2, <1>3, PTL DEF RequestSpec

-----------------------------------------------------------------------------
(* Idempotency keys: lists *)

\* The place that place a had before item i was removed.
Before(i, a) == IF a < i THEN a ELSE a + 1

\* Removing an item leaves the others, in their order.
LEMMA Removed ==
  ASSUME NEW S, NEW s \in Seq(S), NEW i \in DOMAIN s
  PROVE  /\ RemoveAt(s, i) \in Seq(S)
         /\ \A a \in DOMAIN RemoveAt(s, i) :
              /\ Before(i, a) \in DOMAIN s
              /\ Before(i, a) # i
              /\ RemoveAt(s, i)[a] = s[Before(i, a)]
         /\ \A a, b \in DOMAIN RemoveAt(s, i) : a # b => Before(i, a) # Before(i, b)
         /\ \A b \in DOMAIN s : b # i => \E a \in DOMAIN RemoveAt(s, i) : RemoveAt(s, i)[a] = s[b]
<1> DEFINE left == SubSeq(s, 1, i - 1)
           right == SubSeq(s, i + 1, Len(s))
           r == RemoveAt(s, i)
<1>1. i \in Nat /\ 1 <= i /\ i <= Len(s) /\ Len(s) \in Nat /\ DOMAIN s = 1 .. Len(s)
  OBVIOUS
<1>2. /\ left \in Seq(S) /\ Len(left) = i - 1
      /\ \A a \in 1 .. (i - 1) : left[a] = s[a]
  BY <1>1
<1>3. /\ right \in Seq(S) /\ Len(right) = Len(s) - i
      /\ \A a \in 1 .. (Len(s) - i) : right[a] = s[i + a]
  BY <1>1
<1>4. r = left \o right  BY DEF RemoveAt
<1> HIDE DEF left, right
<1>5. r \in Seq(S) /\ Len(r) = Len(s) - 1 /\ DOMAIN r = 1 .. (Len(s) - 1)
  <2>1. left \o right \in Seq(S) /\ Len(left \o right) = Len(left) + Len(right)
    BY <1>2, <1>3, ConcatProperties
  <2>2. (i - 1) + (Len(s) - i) = Len(s) - 1  BY <1>1
  <2>3. r \in Seq(S) /\ Len(r) = Len(s) - 1  BY <1>2, <1>3, <1>4, <2>1, <2>2
  <2> HIDE DEF r
  <2> QED  BY <2>3
<1>6. \A a \in 1 .. (Len(s) - 1) : r[a] = IF a < i THEN s[a] ELSE s[a + 1]
  <2> TAKE a \in 1 .. (Len(s) - 1)
  <2>1. r[a] = IF a <= Len(left) THEN left[a] ELSE right[a - Len(left)]
    BY <1>1, <1>2, <1>3, <1>4
  <2>2. CASE a < i  BY <2>1, <2>2, <1>1, <1>2
  <2>3. CASE ~(a < i)
    <3>1. a - (i - 1) \in 1 .. (Len(s) - i)  BY <2>3, <1>1
    <3>2. i + (a - (i - 1)) = a + 1  BY <1>1
    <3> QED  BY <2>1, <2>3, <3>1, <3>2, <1>1, <1>2, <1>3
  <2> QED  BY <2>2, <2>3
<1> HIDE DEF r
<1>7. \A a \in DOMAIN r : Before(i, a) \in DOMAIN s /\ Before(i, a) # i /\ r[a] = s[Before(i, a)]
  BY <1>1, <1>5, <1>6 DEF Before
<1>8. \A a, b \in DOMAIN r : a # b => Before(i, a) # Before(i, b)
  BY <1>1, <1>5 DEF Before
<1>9. ASSUME NEW b \in DOMAIN s, b # i  PROVE \E a \in DOMAIN r : r[a] = s[b]
  <2>1. CASE b < i
    <3>1. b \in DOMAIN r  BY <1>1, <1>5, <2>1
    <3> QED  BY <3>1, <1>1, <1>5, <1>6, <2>1
  <2>2. CASE b > i
    <3>1. b - 1 \in DOMAIN r /\ ~(b - 1 < i) /\ (b - 1) + 1 = b  BY <1>1, <1>5, <2>2
    <3> QED  BY <3>1, <1>5, <1>6
  <2> QED  BY <2>1, <2>2, <1>1, <1>9
<1> QED  BY <1>5, <1>7, <1>8, <1>9 DEF r
-----------------------------------------------------------------------------
(* Idempotency keys: type correctness *)

Handler == [key: Keys, body: Bodies, did: BOOLEAN]

LEMMA KeyTypeInit == KeyInit => KeyTypeOK
<1> SUFFICES ASSUME KeyInit  PROVE KeyTypeOK  OBVIOUS
<1>1. stored = << >> /\ handlers = << >> /\ effects = << >> /\ excused = {} /\ keyCrashes = 0
  BY DEF KeyInit
<1>2. DOMAIN stored = {}  BY <1>1
<1>3. handlers \in Seq([key: Keys, body: Bodies, did: BOOLEAN])  BY <1>1
<1>4. effects \in Seq([key: Keys, body: Bodies])  BY <1>1
<1>5. keyCrashes \in 0 .. MaxKeyCrashes  BY <1>1, KeyConstants
<1> QED  BY <1>1, <1>2, <1>3, <1>4, <1>5 DEF KeyTypeOK

LEMMA KeyTypeNext == KeyTypeOK /\ [KeyNext]_keyVars => KeyTypeOK'
<1> SUFFICES ASSUME KeyTypeOK, [KeyNext]_keyVars  PROVE KeyTypeOK'  OBVIOUS
<1>1. handlers \in Seq(Handler)  BY DEF KeyTypeOK, Handler
<1>2. ASSUME NEW k \in Keys, NEW body \in Bodies, Begin(k, body)  PROVE KeyTypeOK'
  <2>1. [key |-> k, body |-> body, did |-> FALSE] \in Handler  BY DEF Handler
  <2>2. handlers' \in Seq(Handler)  BY <1>1, <1>2, <2>1 DEF Begin
  <2> QED  BY <1>2, <2>2 DEF Begin, KeyTypeOK, Handler
<1>3. ASSUME NEW i \in DOMAIN handlers, Effect(i)  PROVE KeyTypeOK'
  <2>1. handlers[i] \in Handler  BY <1>1
  <2>2. [handlers[i] EXCEPT !.did = TRUE] \in Handler  BY <2>1 DEF Handler
  <2>3. handlers' = [handlers EXCEPT ![i] = [handlers[i] EXCEPT !.did = TRUE]]
    BY <1>3 DEF Effect
  <2>4. handlers' \in Seq(Handler)
    BY <1>1, <2>2, <2>3, ExceptSeq
  <2>5. [key |-> handlers[i].key, body |-> handlers[i].body] \in [key: Keys, body: Bodies]
    BY <2>1 DEF Handler
  <2>6. effects' \in Seq([key: Keys, body: Bodies])  BY <1>3, <2>5 DEF Effect, KeyTypeOK
  <2> QED  BY <1>3, <2>4, <2>6 DEF Effect, KeyTypeOK, Handler
<1>4. ASSUME NEW i \in DOMAIN handlers  PROVE RemoveAt(handlers, i) \in Seq(Handler)
  BY <1>1, Removed
<1>5. ASSUME NEW i \in DOMAIN handlers, StoreResponse(i)  PROVE KeyTypeOK'
  <2>1. handlers[i] \in Handler  BY <1>1
  <2>2. handlers' \in Seq(Handler)  BY <1>4, <1>5 DEF StoreResponse
  <2>3. DOMAIN stored' \subseteq Keys /\ \A k \in DOMAIN stored' : stored'[k] \in Bodies
    <3>1. CASE handlers[i].key \in DOMAIN stored
      BY <3>1, <1>5 DEF StoreResponse, KeyTypeOK
    <3>2. CASE handlers[i].key \notin DOMAIN stored
      <4>1. stored' = [k \in DOMAIN stored \cup {handlers[i].key} |->
                         IF k = handlers[i].key THEN handlers[i].body ELSE stored[k]]
        BY <3>2, <1>5 DEF StoreResponse
      <4> QED  BY <4>1, <2>1 DEF Handler, KeyTypeOK
    <3> QED  BY <3>1, <3>2
  <2> QED  BY <1>5, <2>2, <2>3 DEF StoreResponse, KeyTypeOK, Handler
<1>6. ASSUME NEW i \in DOMAIN handlers, HandlerThrows(i)  PROVE KeyTypeOK'
  <2>1. handlers[i] \in Handler  BY <1>1
  <2>2. handlers' \in Seq(Handler)  BY <1>4, <1>6 DEF HandlerThrows
  <2>3. excused' \subseteq Keys  BY <1>6, <2>1 DEF HandlerThrows, KeyTypeOK, Handler
  <2> QED  BY <1>6, <2>2, <2>3 DEF HandlerThrows, KeyTypeOK, Handler
<1>7. CASE KeyCrash
  <2>1. handlers' \in Seq(Handler)  BY <1>7 DEF KeyCrash
  <2>2. \A h \in ToSet(handlers) : h.key \in Keys
    <3>1. \A i \in DOMAIN handlers : handlers[i] \in Handler  BY <1>1
    <3>2. \A h \in ToSet(handlers) : h \in Handler  BY <3>1 DEF ToSet
    <3> QED  BY <3>2 DEF Handler
  <2>3. excused' \subseteq Keys  BY <1>7, <2>2 DEF KeyCrash, KeyTypeOK
  <2>4. keyCrashes' \in 0 .. MaxKeyCrashes  BY <1>7, KeyConstants DEF KeyCrash, KeyTypeOK
  <2> QED  BY <1>7, <2>1, <2>3, <2>4 DEF KeyCrash, KeyTypeOK, Handler
<1>8. CASE UNCHANGED keyVars  BY <1>8 DEF keyVars, KeyTypeOK
<1> QED  BY <1>2, <1>3, <1>5, <1>6, <1>7, <1>8 DEF KeyNext

-----------------------------------------------------------------------------
(* Idempotency keys: one effect *)

\* Handlers that share a key are noted.
SharedNoted ==
  \A i, j \in DOMAIN handlers :
    i # j /\ handlers[i].key = handlers[j].key => handlers[i].key \in excused

\* A handler whose key has an answer shared it with the one that answered.
AnsweredNoted ==
  \A i \in DOMAIN handlers : handlers[i].key \in DOMAIN stored => handlers[i].key \in excused

\* What a handler did is answered, or its handler still runs, or it is noted.
EffectKept ==
  \A e \in DOMAIN effects :
    \/ effects[e].key \in excused \cup DOMAIN stored
    \/ \E i \in DOMAIN handlers : handlers[i].key = effects[e].key /\ handlers[i].did

\* A handler that has done nothing yet, of a key that took effect, is noted.
LateNoted ==
  \A i \in DOMAIN handlers, e \in DOMAIN effects :
    effects[e].key = handlers[i].key /\ ~handlers[i].did => handlers[i].key \in excused

Noted == SharedNoted /\ AnsweredNoted /\ EffectKept /\ LateNoted /\ OneEffectUnlessExcused

KeyInv == KeyTypeOK /\ Noted

\* A request comes in: what it shares with running handlers is noted.
LEMMA NotedBegin ==
  ASSUME KeyInv, NEW k \in Keys, NEW body \in Bodies, Begin(k, body)
  PROVE  Noted'
<1> DEFINE h == [key |-> k, body |-> body, did |-> FALSE]
           n == Len(handlers) + 1
<1>1. handlers \in Seq(Handler) /\ h \in Handler  BY DEF KeyInv, KeyTypeOK, Handler
<1>2. handlers' = Append(handlers, h) /\ stored' = stored /\ effects' = effects
  BY DEF Begin
<1>3. /\ DOMAIN handlers' = DOMAIN handlers \cup {n} /\ n \notin DOMAIN handlers
      /\ handlers'[n] = h
      /\ \A i \in DOMAIN handlers : handlers'[i] = handlers[i]
  <2> HIDE DEF h
  <2> QED  BY <1>1, <1>2
<1>4. k \notin DOMAIN stored  BY DEF Begin, Admitted
<1>5. excused \subseteq excused'  BY DEF Begin
<1>6. ASSUME NEW i \in DOMAIN handlers, handlers[i].key = k  PROVE k \in excused'
  BY <1>6 DEF Begin
<1>7. h.key = k /\ ~h.did  OBVIOUS
<1> HIDE DEF h, n
<1>8. SharedNoted'
  BY <1>3, <1>5, <1>6, <1>7 DEF KeyInv, Noted, SharedNoted
<1>9. AnsweredNoted'
  BY <1>2, <1>3, <1>4, <1>5, <1>7 DEF KeyInv, Noted, AnsweredNoted
<1>10. EffectKept'
  BY <1>2, <1>3, <1>5 DEF KeyInv, Noted, EffectKept
<1>11. LateNoted'
  <2> SUFFICES ASSUME NEW i \in DOMAIN handlers', NEW e \in DOMAIN effects,
                      effects[e].key = handlers'[i].key, ~handlers'[i].did
               PROVE  handlers'[i].key \in excused'
    BY <1>2 DEF LateNoted
  <2>1. CASE i \in DOMAIN handlers
    BY <2>1, <1>3, <1>5 DEF KeyInv, Noted, LateNoted
  <2>2. CASE i = n
    <3>1. effects[e].key = k  BY <2>2, <1>3, <1>7
    <3> QED  BY <2>2, <3>1, <1>3, <1>4, <1>5, <1>6, <1>7 DEF KeyInv, Noted, EffectKept
  <2> QED  BY <2>1, <2>2, <1>3
<1>12. OneEffectUnlessExcused'
  BY <1>2, <1>5 DEF KeyInv, Noted, OneEffectUnlessExcused
<1> QED  BY <1>8, <1>9, <1>10, <1>11, <1>12 DEF Noted

\* A handler takes effect: an earlier effect of its key has been noted.
LEMMA NotedEffect ==
  ASSUME KeyInv, NEW i \in DOMAIN handlers, Effect(i)
  PROVE  Noted'
<1> DEFINE k == handlers[i].key
           n == Len(effects) + 1
<1>1. handlers \in Seq(Handler)  BY DEF KeyInv, KeyTypeOK, Handler
<1>2. \A j \in DOMAIN handlers : handlers[j] \in Handler  BY <1>1
<1>3. /\ DOMAIN handlers' = DOMAIN handlers
      /\ \A j \in DOMAIN handlers : handlers'[j].key = handlers[j].key
      /\ \A j \in DOMAIN handlers : j # i => handlers'[j] = handlers[j]
      /\ handlers'[i].did
  BY <1>2 DEF Effect, Handler
<1>4. /\ DOMAIN effects' = DOMAIN effects \cup {n} /\ n \notin DOMAIN effects
      /\ effects'[n].key = k
      /\ \A e \in DOMAIN effects : effects'[e] = effects[e]
  BY DEF Effect, KeyInv, KeyTypeOK
<1>5. stored' = stored /\ excused' = excused /\ ~handlers[i].did  BY DEF Effect
<1> HIDE DEF k, n
<1>6. k = handlers[i].key  BY DEF k
<1>7. SharedNoted'  BY <1>3, <1>5 DEF KeyInv, Noted, SharedNoted
<1>8. AnsweredNoted'  BY <1>3, <1>5 DEF KeyInv, Noted, AnsweredNoted
<1>9. EffectKept'
  <2> SUFFICES ASSUME NEW e \in DOMAIN effects'
               PROVE  \/ effects'[e].key \in excused \cup DOMAIN stored
                      \/ \E j \in DOMAIN handlers :
                           handlers'[j].key = effects'[e].key /\ handlers'[j].did
    BY <1>3, <1>5 DEF EffectKept
  <2>1. ASSUME e \in DOMAIN effects, effects[e].key \notin excused \cup DOMAIN stored
        PROVE  \E j \in DOMAIN handlers :
                 handlers'[j].key = effects[e].key /\ handlers'[j].did
    <3>1. PICK j \in DOMAIN handlers : handlers[j].key = effects[e].key /\ handlers[j].did
      BY <2>1 DEF KeyInv, Noted, EffectKept
    <3>2. handlers'[j] = handlers[j]  BY <3>1, <1>3, <1>5
    <3>3. handlers'[j].key = effects[e].key /\ handlers'[j].did  BY <3>1, <3>2
    <3> QED  BY <3>3
  <2>2. CASE e = n  BY <2>2, <1>3, <1>4, <1>6
  <2> QED  BY <2>1, <2>2, <1>4
<1>10. LateNoted'
  <2> SUFFICES ASSUME NEW j \in DOMAIN handlers, NEW e \in DOMAIN effects',
                      effects'[e].key = handlers[j].key, ~handlers[j].did, j # i
               PROVE  handlers[j].key \in excused
    BY <1>3, <1>5 DEF LateNoted
  <2>1. CASE e \in DOMAIN effects  BY <2>1, <1>4 DEF KeyInv, Noted, LateNoted
  <2>2. CASE e = n  BY <2>2, <1>4, <1>6 DEF KeyInv, Noted, SharedNoted
  <2> QED  BY <2>1, <2>2, <1>4
<1>11. OneEffectUnlessExcused'
  <2>1. \A e \in DOMAIN effects : effects[e].key = k => k \in excused
    BY <1>5, <1>6 DEF KeyInv, Noted, LateNoted
  <2> QED  BY <2>1, <1>4, <1>5 DEF KeyInv, Noted, OneEffectUnlessExcused
<1> QED  BY <1>7, <1>8, <1>9, <1>10, <1>11 DEF Noted

\* A handler is gone, and what it did is answered or noted.
LEMMA NotedRemove ==
  ASSUME KeyInv, NEW i \in DOMAIN handlers, handlers' = RemoveAt(handlers, i),
         effects' = effects, excused \subseteq excused', DOMAIN stored \subseteq DOMAIN stored',
         DOMAIN stored' \subseteq DOMAIN stored \cup {handlers[i].key},
         handlers[i].did => handlers[i].key \in excused' \cup DOMAIN stored'
  PROVE  Noted'
<1>1. handlers \in Seq(Handler)  BY DEF KeyInv, KeyTypeOK, Handler
<1>2. /\ \A a \in DOMAIN handlers' :
           /\ Before(i, a) \in DOMAIN handlers
           /\ Before(i, a) # i
           /\ handlers'[a] = handlers[Before(i, a)]
      /\ \A a, b \in DOMAIN handlers' : a # b => Before(i, a) # Before(i, b)
      /\ \A b \in DOMAIN handlers :
           b # i => \E a \in DOMAIN handlers' : handlers'[a] = handlers[b]
  BY <1>1, Removed
<1>3. SharedNoted'
  BY <1>2 DEF KeyInv, Noted, SharedNoted
<1>4. AnsweredNoted'
  BY <1>2 DEF KeyInv, Noted, AnsweredNoted, SharedNoted
<1>5. EffectKept'
  <2> SUFFICES ASSUME NEW e \in DOMAIN effects,
                      effects[e].key \notin excused' \cup DOMAIN stored'
               PROVE  \E a \in DOMAIN handlers' :
                        handlers'[a].key = effects[e].key /\ handlers'[a].did
    BY DEF EffectKept
  <2>1. PICK b \in DOMAIN handlers : handlers[b].key = effects[e].key /\ handlers[b].did
    BY DEF KeyInv, Noted, EffectKept
  <2>2. b # i  BY <2>1
  <2> QED  BY <1>2, <2>1, <2>2
<1>6. LateNoted'  BY <1>2 DEF KeyInv, Noted, LateNoted
<1>7. OneEffectUnlessExcused'  BY DEF KeyInv, Noted, OneEffectUnlessExcused
<1> QED  BY <1>3, <1>4, <1>5, <1>6, <1>7 DEF Noted

\* A crash: no handler is left, and what they did is noted.
LEMMA NotedCrash ==
  ASSUME KeyInv, KeyCrash
  PROVE  Noted'
<1>1. handlers' = << >> /\ DOMAIN handlers' = {}  BY DEF KeyCrash
<1>2. stored' = stored /\ effects' = effects  BY DEF KeyCrash
<1>3. excused' = excused \cup {h.key : h \in {x \in ToSet(handlers) : x.did}}  BY DEF KeyCrash
<1>4. \A i \in DOMAIN handlers : handlers[i] \in ToSet(handlers)  BY DEF ToSet
<1>5. \A i \in DOMAIN handlers : handlers[i].did => handlers[i].key \in excused'
  BY <1>3, <1>4
<1>6. excused \subseteq excused'  BY <1>3
<1>7. SharedNoted' /\ AnsweredNoted' /\ LateNoted'
  BY <1>1 DEF SharedNoted, AnsweredNoted, LateNoted
<1>8. EffectKept'  BY <1>2, <1>5, <1>6 DEF KeyInv, Noted, EffectKept
<1>9. OneEffectUnlessExcused'  BY <1>2, <1>6 DEF KeyInv, Noted, OneEffectUnlessExcused
<1> QED  BY <1>7, <1>8, <1>9 DEF Noted

LEMMA KeyInvNext == KeyInv /\ [KeyNext]_keyVars => KeyInv'
<1> SUFFICES ASSUME KeyInv, [KeyNext]_keyVars  PROVE Noted'
  BY KeyTypeNext DEF KeyInv
<1>1. ASSUME NEW k \in Keys, NEW body \in Bodies, Begin(k, body)  PROVE Noted'
  BY <1>1, NotedBegin
<1>2. ASSUME NEW i \in DOMAIN handlers, Effect(i)  PROVE Noted'  BY <1>2, NotedEffect
<1>3. ASSUME NEW i \in DOMAIN handlers, StoreResponse(i)  PROVE Noted'
  <2>1. DOMAIN stored' = DOMAIN stored \cup {handlers[i].key}
    <3>1. CASE handlers[i].key \in DOMAIN stored  BY <3>1, <1>3 DEF StoreResponse
    <3>2. CASE handlers[i].key \notin DOMAIN stored
      <4>1. stored' = [k \in DOMAIN stored \cup {handlers[i].key} |->
                         IF k = handlers[i].key THEN handlers[i].body ELSE stored[k]]
        BY <3>2, <1>3 DEF StoreResponse
      <4> QED  BY <4>1
    <3> QED  BY <3>1, <3>2
  <2>2. handlers' = RemoveAt(handlers, i) /\ effects' = effects /\ excused' = excused
    BY <1>3 DEF StoreResponse
  <2> QED  BY <2>1, <2>2, NotedRemove
<1>4. ASSUME NEW i \in DOMAIN handlers, HandlerThrows(i)  PROVE Noted'
  <2>1. /\ handlers' = RemoveAt(handlers, i) /\ effects' = effects /\ stored' = stored
        /\ excused \subseteq excused'
        /\ handlers[i].did => handlers[i].key \in excused'
    BY <1>4 DEF HandlerThrows
  <2> QED  BY <2>1, NotedRemove
<1>5. CASE KeyCrash  BY <1>5, NotedCrash
<1>6. CASE UNCHANGED keyVars
  BY <1>6 DEF keyVars, KeyInv, Noted, SharedNoted, AnsweredNoted, EffectKept, LateNoted,
              OneEffectUnlessExcused
<1> QED  BY <1>1, <1>2, <1>3, <1>4, <1>5, <1>6 DEF KeyNext

LEMMA KeyInvInit == KeyInit => KeyInv
<1> SUFFICES ASSUME KeyInit  PROVE Noted  BY KeyTypeInit DEF KeyInv
<1>1. handlers = << >> /\ effects = << >>  BY DEF KeyInit
<1>2. DOMAIN handlers = {} /\ DOMAIN effects = {}  BY <1>1
<1> QED
  BY <1>2 DEF Noted, SharedNoted, AnsweredNoted, EffectKept, LateNoted, OneEffectUnlessExcused

\* However many requests repeat a key, in whatever order, with whatever failures
\* and crashes: the table, the handlers and the effects keep their form, and a key
\* takes effect once unless the interceptor could not have seen the repetition.
THEOREM KeysTyped == KeySpec => []KeyTypeOK
<1>1. KeyInit => KeyTypeOK  BY KeyTypeInit
<1>2. KeyTypeOK /\ [KeyNext]_keyVars => KeyTypeOK'  BY KeyTypeNext
<1> QED  BY <1>1, <1>2, PTL DEF KeySpec

\* A repeated request takes effect once, with one body, unless two handlers of
\* its key ran at once, or one failed or died between its effect and its answer.
THEOREM OneEffectAlways == KeySpec => []OneEffectUnlessExcused
<1>1. KeyInit => KeyInv  BY KeyInvInit
<1>2. KeyInv /\ [KeyNext]_keyVars => KeyInv'  BY KeyInvNext
<1>3. KeyInv => OneEffectUnlessExcused  BY DEF KeyInv, Noted
<1> QED  BY <1>1, <1>2, <1>3, PTL DEF KeySpec

-----------------------------------------------------------------------------
(* Numbers of the status reports *)

\* Until the counter has run over its bits, report_seq follows it.
LEMMA NumberIs ==
  ASSUME NEW c \in Nat
  PROVE  /\ ReportSeq(c) \in Nat \ {0} /\ ReportSeq(c) <= 2 * Range16
         /\ c < Range16 => ReportSeq(c) = Range16 + c
<1>1. Range16 \in Nat /\ Range16 > 0  BY NumberConstants
<1>2. c % Range16 \in Nat /\ c % Range16 < Range16  BY <1>1
<1>3. c < Range16 => c % Range16 = c  BY <1>1
<1> QED  BY <1>1, <1>2, <1>3 DEF ReportSeq

\* The greatest number stored; 0 when none is.
LEMMA LastNumber ==
  ASSUME NumberTypeOK, NEW f
  PROVE  /\ \A r \in taken : ReportSeq(r.counter) <= LastReportSeq(f)
         /\ \/ LastReportSeq(f) = 0
            \/ \E r \in taken : LastReportSeq(f) = ReportSeq(r.counter)
<1> DEFINE S == {0} \cup {ReportSeq(r.counter) : r \in taken}
<1>1. Range16 \in Nat /\ 2 * Range16 \in Nat  BY NumberConstants
<1>2. \A r \in taken : r.counter \in Nat
  <2>1. DOMAIN emitted \subseteq Nat  BY LenProperties DEF NumberTypeOK
  <2> QED  BY <2>1 DEF NumberTypeOK
<1>3. \A r \in taken : ReportSeq(r.counter) \in 0 .. 2 * Range16
  BY <1>1, <1>2, NumberIs
<1>4. S \in SUBSET (0 .. 2 * Range16) /\ S # {}  BY <1>1, <1>3
<1>5. LastReportSeq(f) = Max(S)  BY DEF LastReportSeq
<1> HIDE DEF LastReportSeq
<1>6. Max(S) \in S /\ \A y \in S : y <= Max(S)
  <2> HIDE DEF S
  <2> QED  BY <1>1, <1>4, Greatest
<1> QED  BY <1>5, <1>6

Numbered == NumberTypeOK /\ FreshTakenUntilWrap /\ NeverReversedUntilWrap

LEMMA NumberedIngest ==
  ASSUME Numbered, NEW c \in DOMAIN emitted, IngestReport(c)
  PROVE  Numbered'
<1>1. Range16 \in Nat /\ Range16 > 0  BY NumberConstants
<1>2. /\ Len(emitted) \in Nat /\ DOMAIN emitted = 1 .. Len(emitted) /\ c \in Nat
      /\ emitted' = emitted
  BY LenProperties DEF Numbered, NumberTypeOK, IngestReport
<1>3. \A r \in taken : r.counter \in 1 .. Len(emitted)  BY <1>2 DEF Numbered, NumberTypeOK
<1> DEFINE last == LastReportSeq(emitted[c])
<1>4. /\ \A r \in taken : ReportSeq(r.counter) <= last
      /\ last = 0 \/ \E r \in taken : last = ReportSeq(r.counter)
  BY LastNumber DEF Numbered
<1>5. ReportSeq(c) \in Nat /\ ReportSeq(c) > 0 /\ (c < Range16 => ReportSeq(c) = Range16 + c)
  <2>1. ReportSeq(c) \in Nat \ {0}  BY <1>2, NumberIs
  <2>2. c < Range16 => ReportSeq(c) = Range16 + c  BY <1>2, NumberIs
  <2> QED  BY <2>1, <2>2
<1>6. \A r \in taken : /\ ReportSeq(r.counter) \in Nat
                       /\ r.counter < Range16 => ReportSeq(r.counter) = Range16 + r.counter
  <2> SUFFICES ASSUME NEW r \in taken
               PROVE  /\ ReportSeq(r.counter) \in Nat
                      /\ r.counter < Range16 => ReportSeq(r.counter) = Range16 + r.counter
    OBVIOUS
  <2>1. r.counter \in Nat  BY <1>3
  <2> QED  BY <2>1, NumberIs
<1> HIDE DEF last
<1>7. CASE ReportSeq(c) > last
  <2>1. /\ taken' = {r \in taken : r.counter # c} \cup {[counter |-> c, old |-> FALSE]}
        /\ reversed' = IF Newest(c) THEN reversed ELSE reversed \cup {c}
        /\ shut' = shut
    BY <1>7 DEF IngestReport, last
  <2>2. NumberTypeOK'
    <3>1. [counter |-> c, old |-> FALSE] \in [counter: DOMAIN emitted, old: BOOLEAN]
      OBVIOUS
    <3>2. taken' \subseteq [counter: DOMAIN emitted, old: BOOLEAN]
      BY <2>1, <3>1 DEF Numbered, NumberTypeOK
    <3>3. shut' \cup reversed' \subseteq DOMAIN emitted
      BY <2>1 DEF Numbered, NumberTypeOK
    <3> QED  BY <1>2, <3>2, <3>3 DEF Numbered, NumberTypeOK
  <2>3. ~Newest(c) => Len(emitted) >= Range16
    <3> SUFFICES ASSUME NEW r \in taken, ~(r.counter < c)  PROVE Len(emitted) >= Range16
      BY DEF Newest
    <3>1. r.counter \in Nat /\ r.counter <= Len(emitted) /\ c <= r.counter  BY <1>2, <1>3
    <3>2. ReportSeq(r.counter) < ReportSeq(c)
      <4>1. last \in Nat  BY <1>4, <1>6
      <4> QED  BY <1>4, <1>5, <1>6, <1>7, <4>1
    <3>3. ~(r.counter < Range16)  BY <1>1, <1>2, <1>5, <1>6, <3>1, <3>2
    <3> QED  BY <1>1, <1>2, <3>1, <3>3
  <2>4. FreshTakenUntilWrap' /\ NeverReversedUntilWrap'
    BY <1>2, <2>1, <2>3 DEF Numbered, FreshTakenUntilWrap, NeverReversedUntilWrap
  <2> QED  BY <2>2, <2>4 DEF Numbered
<1>8. CASE ~(ReportSeq(c) > last)
  <2>1. /\ shut' = IF Newest(c) THEN shut \cup {c} ELSE shut
        /\ taken' = taken /\ reversed' = reversed
    BY <1>8 DEF IngestReport, last
  <2>2. NumberTypeOK'
    BY <1>2, <2>1 DEF Numbered, NumberTypeOK
  <2>3. Newest(c) => c >= Range16
    <3> SUFFICES ASSUME Newest(c), c < Range16  PROVE FALSE  BY <1>1, <1>2
    <3>1. last # 0  BY <1>5, <1>8
    <3>2. PICK r \in taken : last = ReportSeq(r.counter)  BY <1>4, <3>1
    <3>3. r.counter \in Nat /\ r.counter < c  BY <1>3 DEF Newest
    <3>4. ReportSeq(r.counter) = Range16 + r.counter  BY <1>1, <1>2, <1>6, <3>3
    <3> QED  BY <1>1, <1>2, <1>5, <1>8, <3>2, <3>3, <3>4
  <2>4. FreshTakenUntilWrap' /\ NeverReversedUntilWrap'
    BY <1>2, <2>1, <2>3 DEF Numbered, FreshTakenUntilWrap, NeverReversedUntilWrap
  <2> QED  BY <2>2, <2>4 DEF Numbered
<1> QED  BY <1>7, <1>8

LEMMA NumberedNext == Numbered /\ [NumberNext]_numberVars => Numbered'
<1> SUFFICES ASSUME Numbered, [NumberNext]_numberVars  PROVE Numbered'  OBVIOUS
<1>1. CASE \E f \in Features : Emit(f)
  <2>1. PICK f \in Features : Emit(f)  BY <1>1
  <2>2. /\ emitted' \in Seq(Features)
        /\ Len(emitted') = Len(emitted) + 1 /\ Len(emitted) \in Nat
        /\ DOMAIN emitted \subseteq DOMAIN emitted'
    BY <2>1, AppendProperties, LenProperties DEF Emit, Numbered, NumberTypeOK
  <2>3. taken' = taken /\ shut' = shut /\ reversed' = reversed  BY <2>1 DEF Emit
  <2>4. NumberTypeOK'  BY <2>2, <2>3 DEF Numbered, NumberTypeOK
  <2>5. Range16 \in Nat  BY NumberConstants
  <2> QED
    BY <2>2, <2>3, <2>4, <2>5 DEF Numbered, FreshTakenUntilWrap, NeverReversedUntilWrap
<1>2. CASE \E c \in DOMAIN emitted : IngestReport(c)  BY <1>2, NumberedIngest
<1>3. ASSUME taken' \subseteq [counter: DOMAIN emitted, old: BOOLEAN],
             UNCHANGED <<emitted, shut, reversed>>
      PROVE  Numbered'
  BY <1>3 DEF Numbered, NumberTypeOK, FreshTakenUntilWrap, NeverReversedUntilWrap
<1>4. CASE TakenAge
  <2>1. \A r \in taken : [r EXCEPT !.old = TRUE] \in [counter: DOMAIN emitted, old: BOOLEAN]
    BY DEF Numbered, NumberTypeOK
  <2> QED  BY <1>3, <1>4, <2>1 DEF TakenAge
<1>5. CASE \E held \in SUBSET Features : Sweep(held)
  BY <1>3, <1>5 DEF Sweep, Numbered, NumberTypeOK
<1>6. CASE UNCHANGED numberVars
  BY <1>3, <1>6 DEF numberVars, Numbered, NumberTypeOK
<1> QED  BY <1>1, <1>2, <1>4, <1>5, <1>6 DEF NumberNext

LEMMA NumberedInit == NumberInit => Numbered
<1>1. << >> \in Seq(Features)  OBVIOUS
<1> QED
  BY <1>1 DEF NumberInit, Numbered, NumberTypeOK, FreshTakenUntilWrap, NeverReversedUntilWrap

LEMMA NumberedAlways == NumberSpec => []Numbered
<1> QED  BY NumberedInit, NumberedNext, PTL DEF NumberSpec

\* What is taken, refused or turned back was emitted.
THEOREM NumberTyped == NumberSpec => []NumberTypeOK
<1> QED  BY NumberedAlways, PTL DEF Numbered

\* Until the counter runs over, a report newer than all that are stored is taken,
\* whatever was lost, repeated, reordered and swept (status-v2.ts:15).
THEOREM FreshAlwaysTaken == NumberSpec => []FreshTakenUntilWrap
<1> QED  BY NumberedAlways, PTL DEF Numbered

\* Until then no report is taken after a newer one that is stored, of whatever
\* feature (status-ingest.service.ts:102).
THEOREM NeverTurnedBack == NumberSpec => []NeverReversedUntilWrap
<1> QED  BY NumberedAlways, PTL DEF Numbered

-----------------------------------------------------------------------------
(* Failed authentications *)

Ages == 0 .. FailWindow - 1

OldestFirst == \A i, j \in DOMAIN failed : i <= j => failed[i] >= failed[j]

\* Reports over IF-06 alone stop at the threshold, and what is left of the limit is
\* what the failure that met it, now the newest, has not used.
StoppedAtThreshold ==
  reported \subseteq {"IF-06"} =>
    /\ Len(failed) <= FailCount
    /\ Len(failed) = FailCount => limit + failed[FailCount] = LimitTime

Limited ==
  /\ failed \in Seq(Ages)
  /\ limit \in 0 .. LimitTime
  /\ reported \subseteq Channels
  /\ OldestFirst
  /\ StoppedAtThreshold

LEMMA LimitedInit == LimitInit => Limited
<1> SUFFICES ASSUME LimitInit  PROVE Limited  OBVIOUS
<1>1. failed = << >> /\ limit = 0 /\ reported = {}  BY DEF LimitInit
<1>2. failed \in Seq(Ages) /\ DOMAIN failed = {} /\ Len(failed) = 0  BY <1>1
<1>3. FailCount \in Nat /\ FailCount # 0 /\ LimitTime \in Nat  BY LimitConstants
<1> QED  BY <1>1, <1>2, <1>3 DEF Limited, OldestFirst, StoppedAtThreshold

\* One more failure.
LEMMA LimitedObserve ==
  ASSUME Limited, NEW channel \in Channels, Observe(channel)
  PROVE  Limited'
<1> DEFINE n == Len(failed)
<1>1. /\ failed \in Seq(Ages) /\ n \in Nat /\ DOMAIN failed = 1 .. n
      /\ limit \in 0 .. LimitTime /\ reported \subseteq Channels
  BY LenProperties DEF Limited
<1>0. n = Len(failed)  OBVIOUS
<1> HIDE DEF n
<1>2. /\ FailCount \in Nat \ {0} /\ FailWindow \in Nat \ {0} /\ LimitTime \in Nat \ {0}
      /\ FailWindow <= LimitTime
  BY LimitConstants
<1>3. /\ Unlimited(channel)
      /\ failed' = Append(failed, 0)
      /\ reported' = reported \cup {channel}
      /\ limit' = IF n + 1 = FailCount THEN LimitTime ELSE limit
  BY <1>0 DEF Observe
<1>4. 0 \in Ages  BY <1>2 DEF Ages
<1>5. /\ failed' \in Seq(Ages) /\ Len(failed') = n + 1
      /\ DOMAIN failed' = 1 .. n + 1
      /\ failed'[n + 1] = 0
      /\ \A i \in 1 .. n : failed'[i] = failed[i]
  BY <1>0, <1>1, <1>3, <1>4, AppendProperties
<1>6. \A i \in 1 .. n : failed[i] \in Nat /\ failed[i] < FailWindow
  BY <1>0, <1>1, <1>2, ElementOfSeq DEF Ages
<1>7. OldestFirst'
  <2> SUFFICES ASSUME NEW i \in 1 .. n + 1, NEW j \in 1 .. n + 1, i <= j
               PROVE  failed'[i] >= failed'[j]
    BY <1>5 DEF OldestFirst
  <2>1. CASE j = n + 1  BY <1>1, <1>5, <1>6, <2>1
  <2>2. CASE j # n + 1
    <3>1. i \in 1 .. n /\ j \in 1 .. n  BY <1>1, <2>2
    <3> QED  BY <1>1, <1>5, <3>1 DEF Limited, OldestFirst
  <2> QED  BY <2>1, <2>2
<1>8. StoppedAtThreshold'
  <2> SUFFICES ASSUME reported' \subseteq {"IF-06"}
               PROVE  /\ Len(failed') <= FailCount
                      /\ Len(failed') = FailCount => limit' + failed'[FailCount] = LimitTime
    BY DEF StoppedAtThreshold
  <2>1. reported \subseteq {"IF-06"} /\ channel = "IF-06"  BY <1>3
  <2>2. limit = 0  BY <1>3, <2>1 DEF Unlimited
  <2>3. n <= FailCount /\ (n = FailCount => limit + failed[FailCount] = LimitTime)
    BY <1>0, <2>1 DEF Limited, StoppedAtThreshold
  <2>4. n # FailCount
    <3> SUFFICES ASSUME n = FailCount  PROVE FALSE  OBVIOUS
    <3>1. FailCount \in 1 .. n  BY <1>2
    <3>2. failed[FailCount] \in Nat /\ failed[FailCount] < FailWindow  BY <1>6, <3>1
    <3> QED  BY <1>2, <2>2, <2>3, <3>2
  <2>5. n + 1 <= FailCount  BY <1>1, <1>2, <2>3, <2>4
  <2> QED  BY <1>2, <1>3, <1>5, <2>5
<1>9. limit' \in 0 .. LimitTime /\ reported' \subseteq Channels  BY <1>1, <1>2, <1>3
<1> QED  BY <1>5, <1>7, <1>8, <1>9 DEF Limited

\* The rows that leave the window are the first ones.
LEMMA FirstOnesLeave ==
  ASSUME Limited
  PROVE  \E g \in 0 .. Len(failed) :
           /\ Cardinality({i \in DOMAIN failed : failed[i] + 1 >= FailWindow}) = g
           /\ \A i \in 1 .. Len(failed) : failed[i] + 1 >= FailWindow <=> i <= g
<1> DEFINE n == Len(failed)
           Old == {i \in DOMAIN failed : failed[i] + 1 >= FailWindow}
           Kept == {i \in Nat : i = n \/ i + 1 \in (1 .. n) \ Old}
<1>1. /\ failed \in Seq(Ages) /\ n \in Nat /\ DOMAIN failed = 1 .. n
      /\ \A i, j \in 1 .. n : i <= j => failed[i] >= failed[j]
  BY LenProperties DEF Limited, OldestFirst
<1>0. n = Len(failed)  OBVIOUS
<1> HIDE DEF n
<1>2. FailWindow \in Nat /\ \A i \in 1 .. n : failed[i] \in Nat
  BY <1>0, <1>1, LimitConstants, ElementOfSeq DEF Ages
<1>3. Kept \subseteq Nat /\ n \in Kept  BY <1>1
<1>4. PICK g \in Kept : \A k \in Kept : <<k, g>> \notin OpToRel(<, Nat)
  BY <1>3, WFMin, NatLessThanWellFounded, Zenon
<1>5. \A k \in Kept : ~(k < g)  BY <1>3, <1>4, Zenon DEF OpToRel
<1>6. g \in 0 .. n
  <2>1. ~(n < g) /\ g \in Nat  BY <1>3, <1>5
  <2> QED  BY <1>1, <2>1
<1>7. \A i \in 1 .. n : i <= g => i \in Old
  <2> SUFFICES ASSUME NEW i \in 1 .. n, i <= g, i \notin Old  PROVE FALSE  OBVIOUS
  <2>1. i - 1 \in Nat /\ i - 1 + 1 = i /\ i - 1 < g  BY <1>6
  <2>2. i - 1 \in Kept  BY <2>1
  <2> QED  BY <1>5, <2>1, <2>2
<1>8. \A i \in 1 .. n : i > g => i \notin Old
  <2> SUFFICES ASSUME NEW i \in 1 .. n, i > g, i \in Old  PROVE FALSE  OBVIOUS
  <2>1. g # n  BY <1>1, <1>6
  <2>2. g + 1 \in (1 .. n) \ Old  BY <1>4, <2>1
  <2>3. ~(failed[g + 1] + 1 >= FailWindow)  BY <1>1, <2>2
  <2>4. failed[i] + 1 >= FailWindow  BY <1>1
  <2>5. g + 1 \in 1 .. n /\ g + 1 <= i  BY <1>1, <1>6, <2>2
  <2>6. failed[g + 1] >= failed[i]  BY <1>1, <2>5
  <2> QED  BY <1>2, <2>3, <2>4, <2>5, <2>6
<1>9. Old = 1 .. g
  <2> HIDE DEF Kept
  <2>1. Old \subseteq 1 .. n  BY <1>1
  <2>2. \A i : i \in Old <=> i \in 1 .. g  BY <1>1, <1>6, <1>7, <1>8, <2>1
  <2> QED  BY <2>2
<1>10. Cardinality(Old) = g
  <2>1. g \in Nat /\ Cardinality(1 .. g) = IF 1 > g THEN 0 ELSE g - 1 + 1
    BY <1>6, FS_Interval
  <2>2. Cardinality(1 .. g) = g  BY <2>1
  <2> HIDE DEF Old
  <2> QED  BY <1>9, <2>2
<1>11. \A i \in 1 .. n : failed[i] + 1 >= FailWindow <=> i \in Old  BY <1>1
<1> HIDE DEF Kept
<1>12. \A i \in 1 .. n : failed[i] + 1 >= FailWindow <=> i <= g
  BY <1>1, <1>6, <1>7, <1>8, <1>11
<1> QED  BY <1>0, <1>6, <1>10, <1>12

LEMMA LimitedMinute == ASSUME Limited, Minute  PROVE Limited'
<1> DEFINE n == Len(failed)
<1>1. /\ failed \in Seq(Ages) /\ n \in Nat /\ DOMAIN failed = 1 .. n
      /\ limit \in 0 .. LimitTime /\ reported \subseteq Channels
  BY LenProperties DEF Limited
<1>0. n = Len(failed)  OBVIOUS
<1> HIDE DEF n
<1>2. /\ FailCount \in Nat \ {0} /\ FailWindow \in Nat \ {0} /\ LimitTime \in Nat \ {0}
      /\ FailWindow <= LimitTime
  BY LimitConstants
<1>3. PICK g \in 0 .. n :
        /\ Cardinality({i \in DOMAIN failed : failed[i] + 1 >= FailWindow}) = g
        /\ \A i \in 1 .. n : failed[i] + 1 >= FailWindow <=> i <= g
  BY <1>0, FirstOnesLeave
<1>4. /\ failed' = [i \in 1 .. n - g |-> failed[i + g] + 1]
      /\ limit' = IF limit > 0 THEN limit - 1 ELSE 0
      /\ reported' = reported
  BY <1>0, <1>3 DEF Minute
<1>5. \A i \in 1 .. n : failed[i] \in Nat /\ failed[i] < FailWindow
  BY <1>0, <1>1, <1>2, ElementOfSeq DEF Ages
<1>6. /\ DOMAIN failed' = 1 .. n - g
      /\ \A i \in 1 .. n - g : i + g \in 1 .. n /\ failed'[i] = failed[i + g] + 1
  BY <1>1, <1>4
<1>7. \A i \in 1 .. n - g : failed'[i] \in Ages
  <2> SUFFICES ASSUME NEW i \in 1 .. n - g  PROVE failed'[i] \in Ages  OBVIOUS
  <2>1. i + g \in 1 .. n /\ ~(i + g <= g) /\ failed'[i] = failed[i + g] + 1  BY <1>1, <1>6
  <2>2. ~(failed[i + g] + 1 >= FailWindow) /\ failed[i + g] \in Nat  BY <1>3, <1>5, <2>1
  <2> QED  BY <1>2, <2>1, <2>2 DEF Ages
<1>8. failed' \in Seq(Ages) /\ Len(failed') = n - g
  <2>1. n - g \in Nat  BY <1>1
  <2>2. failed' = [i \in 1 .. n - g |-> failed'[i]]  BY <1>4
  <2>3. failed' \in [1 .. n - g -> Ages]  BY <1>7, <2>2
  <2> QED  BY <2>1, <2>3
<1>9. OldestFirst'
  <2> SUFFICES ASSUME NEW i \in 1 .. n - g, NEW j \in 1 .. n - g, i <= j
               PROVE  failed'[i] >= failed'[j]
    BY <1>6 DEF OldestFirst
  <2>1. i + g \in 1 .. n /\ j + g \in 1 .. n /\ i + g <= j + g  BY <1>1, <1>6
  <2>2. failed[i + g] >= failed[j + g]  BY <1>1, <2>1 DEF Limited, OldestFirst
  <2> QED  BY <1>5, <1>6, <2>1, <2>2
<1>10. StoppedAtThreshold'
  <2> SUFFICES ASSUME reported \subseteq {"IF-06"}
               PROVE  /\ Len(failed') <= FailCount
                      /\ Len(failed') = FailCount => limit' + failed'[FailCount] = LimitTime
    BY <1>4 DEF StoppedAtThreshold
  <2>1. n <= FailCount /\ (n = FailCount => limit + failed[FailCount] = LimitTime)
    BY <1>0 DEF Limited, StoppedAtThreshold
  <2>2. Len(failed') <= FailCount  BY <1>1, <1>2, <1>8, <2>1
  <2>3. ASSUME Len(failed') = FailCount  PROVE limit' + failed'[FailCount] = LimitTime
    <3>1. g = 0 /\ n = FailCount  BY <1>1, <1>2, <1>8, <2>1, <2>3
    <3>2. FailCount \in 1 .. n /\ FailCount \in 1 .. n - g /\ FailCount + g = FailCount
      BY <1>2, <3>1
    <3>3. failed'[FailCount] = failed[FailCount] + 1  BY <1>6, <3>2
    <3>4. failed[FailCount] \in Nat /\ failed[FailCount] < FailWindow  BY <1>5, <3>2
    <3>5. limit' = limit - 1  BY <1>1, <1>2, <1>4, <2>1, <3>1, <3>4
    <3> QED  BY <1>1, <2>1, <3>1, <3>3, <3>4, <3>5
  <2> QED  BY <2>2, <2>3
<1>11. limit' \in 0 .. LimitTime  BY <1>1, <1>2, <1>4
<1> QED  BY <1>1, <1>4, <1>8, <1>9, <1>10, <1>11 DEF Limited

LEMMA LimitedNext == Limited /\ [LimitNext]_limitVars => Limited'
<1> SUFFICES ASSUME Limited, [LimitNext]_limitVars  PROVE Limited'  OBVIOUS
<1>1. CASE Minute  BY <1>1, LimitedMinute
<1>2. CASE \E channel \in Channels : Observe(channel)  BY <1>2, LimitedObserve
<1>3. CASE UNCHANGED limitVars
  BY <1>3 DEF limitVars, Limited, OldestFirst, StoppedAtThreshold
<1> QED  BY <1>1, <1>2, <1>3 DEF LimitNext

LEMMA LimitedAlways == LimitSpec => []Limited
<1> QED  BY LimitedInit, LimitedNext, PTL DEF LimitSpec

\* Ages stay within the window and the limit within its time.
THEOREM LimitTyped == LimitSpec => []LimitTypeOK
<1>1. Limited => LimitTypeOK
  <2> SUFFICES ASSUME Limited  PROVE LimitTypeOK  OBVIOUS
  <2>1. \A i \in DOMAIN failed : failed[i] \in Ages
    BY LenProperties, ElementOfSeq DEF Limited
  <2> QED  BY <2>1 DEF Limited, LimitTypeOK, Ages
<1> QED  BY <1>1, LimitedAlways, PTL

\* A vehicle whose failures came over IF-06 alone is limited as long as they stand
\* at the threshold (rules/security-events.ts:63), whatever the threshold, the
\* window and a limit no shorter than it.
THEOREM AlwaysLimited == LimitSpec => []LimitedWhileFailing
<1>1. Limited => LimitedWhileFailing
  <2> SUFFICES ASSUME Limited, reported \subseteq {"IF-06"}, Len(failed) >= FailCount
               PROVE  limit > 0
    BY DEF LimitedWhileFailing
  <2>1. failed \in Seq(Ages) /\ Len(failed) \in Nat /\ limit \in 0 .. LimitTime
    BY LenProperties DEF Limited
  <2>2. /\ FailCount \in Nat \ {0} /\ FailWindow \in Nat \ {0} /\ LimitTime \in Nat \ {0}
        /\ FailWindow <= LimitTime
    BY LimitConstants
  <2>3. Len(failed) = FailCount /\ limit + failed[FailCount] = LimitTime
    BY <2>1, <2>2 DEF Limited, StoppedAtThreshold
  <2>4. failed[FailCount] \in Ages  BY <2>1, <2>2, <2>3, ElementOfSeq
  <2> QED  BY <2>1, <2>2, <2>3, <2>4 DEF Ages
<1> QED  BY <1>1, LimitedAlways, PTL
=============================================================================
