------------------------------ MODULE ChainProofs ------------------------------
(***************************************************************************)
(* Theorems about the two chains of steps around the kill switch that are  *)
(* linked by listeners: Entitlement, from an offered trial to the kill its *)
(* end asks for, and QualityLoop, from signals and kills to the version    *)
(* that resolves them.  For any lengths of offers, trials and plans, any   *)
(* signals, thresholds, versions and stops of the process.                 *)
(***************************************************************************)
EXTENDS Entitlement, QualityLoop, SequenceTheorems, FiniteSetTheorems,
        WellFoundedInduction, TLAPS

(***************************************************************************)
(* Entitlement                                                             *)
(***************************************************************************)

Right == [kind: {"TRIAL", "PAID"},
          status: {"OFFERED", "ACTIVE", "DECLINED", "EXPIRED", "CONVERTED"},
          first: Int, last: Int, accepted: BOOLEAN, noticed: Int, noticeFor: Int]

Settled == {"EXPIRED", "CONVERTED"}

\* A notice counts for the last day it was given for; an offer has none.
Sound(g) ==
  /\ g \in Right
  /\ g.last >= 0
  /\ g.status = "OFFERED" => g.noticeFor = NoDay
  /\ g.noticeFor = g.last => g.noticed \in (g.last - NoticeDays)..g.last
  /\ g.kind = "TRIAL" /\ g.status = "ACTIVE" => g.accepted

Bought(s) == \E k \in DOMAIN s : s[k].kind = "TRIAL" /\ s[k].accepted /\ s[k].status = "CONVERTED"

\* A paid right comes from a trial that says so.
RightsGood(s) ==
  /\ s \in Seq(Right)
  /\ \A i \in DOMAIN s : Sound(s[i])
  /\ (\E i \in DOMAIN s : s[i].kind = "PAID") => Bought(s)

\* What no step undoes about a right.
Becomes(g, h) ==
  /\ h.kind = g.kind
  /\ g.accepted => h.accepted
  /\ g.status \in Settled => h.status \in Settled /\ h.last = g.last
  /\ g.status = "CONVERTED" => h.status = "CONVERTED"

Grown(s, t) == \A i \in DOMAIN s : i \in DOMAIN t /\ Becomes(s[i], t[i])

CutsGood ==
  /\ cuts \in Seq([trial: Nat, day: Int, noticed: Int, rights: SUBSET Nat])
  /\ \A k \in DOMAIN cuts :
       /\ cuts[k].trial \in DOMAIN grants
       /\ grants[cuts[k].trial].status \in Settled

\* CutIsDue for one kill and a table of rights.
OtherAccepted(s, i) == \E j \in DOMAIN s \ {i} : s[j].kind = "TRIAL" /\ s[j].accepted

Due(s, c) ==
  /\ c.day > s[c.trial].last
  /\ c.noticed \in (s[c.trial].last - NoticeDays)..s[c.trial].last
  /\ c.rights = {} \/ OtherAccepted(s, c.trial)

TrialInv ==
  /\ today \in Nat /\ sweepAt \in Nat
  /\ RightsGood(grants)
  /\ CutsGood
  /\ CutIsDue

-----------------------------------------------------------------------------
(* Changes of the table *)

LEMMA GrownSame == ASSUME NEW s \in Seq(Right)  PROVE Grown(s, s)
BY DEF Grown, Becomes

LEMMA GrownTwice ==
  ASSUME NEW s, NEW t, NEW u, Grown(s, t), Grown(t, u)
  PROVE  Grown(s, u)
BY DEF Grown, Becomes, Settled

LEMMA OneChanged ==
  ASSUME NEW s, RightsGood(s), NEW i \in DOMAIN s, NEW g, Sound(g), Becomes(s[i], g),
         NEW t, t = [s EXCEPT ![i] = g]
  PROVE  RightsGood(t) /\ Grown(s, t) /\ DOMAIN t = DOMAIN s
<1>1. s \in Seq(Right) /\ g \in Right  BY DEF RightsGood, Sound
<1>2. t \in Seq(Right) /\ DOMAIN t = DOMAIN s
  BY <1>1, ExceptSeq
<1>3. \A j \in DOMAIN s : t[j] = IF j = i THEN g ELSE s[j]  BY <1>1
<1>4. Grown(s, t)  BY <1>2, <1>3 DEF Grown, Becomes
<1>5. \A j \in DOMAIN t : Sound(t[j])  BY <1>2, <1>3 DEF RightsGood
<1>6. ASSUME \E j \in DOMAIN t : t[j].kind = "PAID"  PROVE Bought(t)
  <2>1. Bought(s)  BY <1>2, <1>3, <1>6 DEF RightsGood, Becomes
  <2>2. PICK k \in DOMAIN s : s[k].kind = "TRIAL" /\ s[k].accepted /\ s[k].status = "CONVERTED"
    BY <2>1 DEF Bought
  <2>3. t[k].kind = "TRIAL" /\ t[k].accepted /\ t[k].status = "CONVERTED"
    BY <2>2, <1>4 DEF Grown, Becomes
  <2> QED  BY <2>3, <1>2 DEF Bought
<1> QED  BY <1>2, <1>4, <1>5, <1>6 DEF RightsGood

LEMMA OneAdded ==
  ASSUME NEW s, RightsGood(s), NEW g, Sound(g), g.kind = "PAID" => Bought(s),
         NEW t, t = Append(s, g)
  PROVE  RightsGood(t) /\ Grown(s, t)
<1>1. s \in Seq(Right) /\ g \in Right  BY DEF RightsGood, Sound
<1>2. /\ t \in Seq(Right) /\ DOMAIN t = DOMAIN s \cup {Len(s) + 1}
      /\ \A j \in DOMAIN s : t[j] = s[j]
      /\ t[Len(s) + 1] = g
  BY <1>1
<1>3. Grown(s, t)  BY <1>2 DEF Grown, Becomes
<1>4. \A j \in DOMAIN t : Sound(t[j])  BY <1>2 DEF RightsGood
<1>5. ASSUME \E j \in DOMAIN t : t[j].kind = "PAID"  PROVE Bought(t)
  <2>1. Bought(s)  BY <1>2, <1>5 DEF RightsGood
  <2> QED  BY <2>1, <1>2 DEF Bought
<1> QED  BY <1>2, <1>3, <1>4, <1>5 DEF RightsGood

LEMMA DueEach == CutIsDue <=> \A k \in DOMAIN cuts : Due(grants, cuts[k])
BY DEF CutIsDue, Due, Reoffered, OtherAccepted

LEMMA DueEachNext == CutIsDue' <=> \A k \in DOMAIN cuts' : Due(grants', cuts'[k])
BY DEF CutIsDue, Due, Reoffered, OtherAccepted

LEMMA AcceptedStays ==
  ASSUME NEW s, NEW t, Grown(s, t), NEW i, OtherAccepted(s, i)
  PROVE  OtherAccepted(t, i)
BY DEF OtherAccepted, Grown, Becomes

\* Kills asked for earlier stay due while the rights only grow.
LEMMA CutsStay ==
  ASSUME TrialInv, Grown(grants, grants')
  PROVE  /\ \A k \in DOMAIN cuts : Due(grants', cuts[k])
         /\ \A k \in DOMAIN cuts : /\ cuts[k].trial \in DOMAIN grants'
                                  /\ grants'[cuts[k].trial].status \in Settled
<1> SUFFICES ASSUME NEW k \in DOMAIN cuts
             PROVE  /\ Due(grants', cuts[k])
                    /\ cuts[k].trial \in DOMAIN grants'
                    /\ grants'[cuts[k].trial].status \in Settled
  OBVIOUS
<1>1. /\ cuts[k].trial \in DOMAIN grants'
      /\ grants'[cuts[k].trial].status \in Settled
      /\ grants'[cuts[k].trial].last = grants[cuts[k].trial].last
  BY DEF TrialInv, CutsGood, Grown, Becomes
<1>2. Due(grants, cuts[k])  BY DueEach DEF TrialInv
<1>3. OtherAccepted(grants, cuts[k].trial) => OtherAccepted(grants', cuts[k].trial)
  BY AcceptedStays
<1>4. Due(grants', cuts[k])  BY <1>1, <1>2, <1>3 DEF Due
<1> QED  BY <1>1, <1>4

LEMMA CutsKept ==
  ASSUME TrialInv, Grown(grants, grants'), UNCHANGED cuts
  PROVE  CutsGood' /\ CutIsDue'
<1>1. CutIsDue'  BY CutsStay, DueEachNext
<1>2. CutsGood'  BY CutsStay DEF TrialInv, CutsGood
<1> QED  BY <1>1, <1>2

-----------------------------------------------------------------------------
(* Steps *)

LEMMA OneSigned ==
  ASSUME TrialInv, NEW i \in DOMAIN grants
  PROVE  Sound(grants[i]) /\ grants[i] \in Right
BY DEF TrialInv, RightsGood, Sound

LEMMA StepOffer ==
  ASSUME TrialInv, OfferTrial  PROVE RightsGood(grants') /\ Grown(grants, grants')
<1> DEFINE g == [kind |-> "TRIAL", status |-> "OFFERED", first |-> today,
                 last |-> today + OfferDays - 1, accepted |-> FALSE, noticed |-> NoDay,
                 noticeFor |-> NoDay]
<1>1. g.last >= 0 /\ g.last # NoDay /\ g \in Right
  BY TrialConstants DEF TrialInv, Right, NoDay
<1>2. Sound(g)  BY <1>1 DEF Sound
<1>3. grants' = Append(grants, g)  BY DEF OfferTrial
<1> HIDE DEF g
<1>4. g.kind = "TRIAL"  BY DEF g
<1> QED  BY <1>2, <1>3, <1>4, OneAdded DEF TrialInv

LEMMA StepAccept ==
  ASSUME TrialInv, NEW i \in DOMAIN grants, AcceptTrial(i)
  PROVE  RightsGood(grants') /\ Grown(grants, grants')
<1> DEFINE g == [grants[i] EXCEPT !.status = "ACTIVE", !.accepted = TRUE, !.first = today,
                                  !.last = today + TrialDays - 1]
<1>1. grants[i].status = "OFFERED"  BY DEF AcceptTrial, GrantState
<1>2. Sound(grants[i]) /\ grants[i] \in Right  BY OneSigned
<1>3. g \in Right /\ g.last = today + TrialDays - 1 /\ g.noticeFor = grants[i].noticeFor
      /\ g.kind = grants[i].kind /\ g.status = "ACTIVE" /\ g.accepted
  <2>1. today \in Int /\ today + TrialDays - 1 \in Int  BY TrialConstants DEF TrialInv
  <2>2. [grants[i] EXCEPT !.status = "ACTIVE", !.accepted = TRUE] \in Right
    BY <1>2 DEF Right
  <2>3. [grants[i] EXCEPT !.status = "ACTIVE", !.accepted = TRUE, !.first = today] \in Right
    BY <2>1, <2>2 DEF Right
  <2>4. g \in Right  BY <2>1, <2>3 DEF Right
  <2>5. g.last = today + TrialDays - 1 /\ g.noticeFor = grants[i].noticeFor
        /\ g.kind = grants[i].kind /\ g.status = "ACTIVE"
    BY <1>2 DEF Right
  <2>6. g.accepted = TRUE  BY <1>2 DEF Right
  <2> QED  BY <2>4, <2>5, <2>6
<1>4. g.last >= 0 /\ g.last # NoDay  BY <1>3, TrialConstants DEF TrialInv, NoDay
<1>5. g.noticeFor = NoDay  BY <1>1, <1>2, <1>3 DEF Sound
<1>6. grants' = [grants EXCEPT ![i] = g]  BY DEF AcceptTrial
<1> HIDE DEF g
<1>7. Sound(g)  BY <1>3, <1>4, <1>5 DEF Sound
<1>8. Becomes(grants[i], g)  BY <1>1, <1>3 DEF Becomes, Settled
<1> QED  BY <1>6, <1>7, <1>8, OneChanged DEF TrialInv

\* Only the status of an accepted trial or of an offer changes.
LEMMA StatusSet ==
  ASSUME TrialInv, NEW i \in DOMAIN grants, NEW status,
         status \in {"DECLINED", "EXPIRED", "CONVERTED"},
         \/ grants[i].status \in {"OFFERED", "ACTIVE"}
         \/ grants[i].status \in Settled /\ status = "CONVERTED"
  PROVE  LET t == [grants EXCEPT ![i].status = status] IN
         /\ RightsGood(t) /\ Grown(grants, t)
         /\ DOMAIN t = DOMAIN grants /\ t[i] = [grants[i] EXCEPT !.status = status]
<1> DEFINE g == [grants[i] EXCEPT !.status = status]
           t == [grants EXCEPT ![i].status = status]
<1>1. Sound(grants[i]) /\ grants[i] \in Right  BY OneSigned
<1>2. g \in Right /\ g.last = grants[i].last /\ g.noticeFor = grants[i].noticeFor
      /\ g.noticed = grants[i].noticed /\ g.kind = grants[i].kind /\ g.status = status
      /\ g.accepted = grants[i].accepted
  BY <1>1 DEF Right
<1>3. t = [grants EXCEPT ![i] = g]  OBVIOUS
<1> HIDE DEF g, t
<1>4. Sound(g)  BY <1>1, <1>2 DEF Sound
<1>5. Becomes(grants[i], g)  BY <1>2 DEF Becomes, Settled
<1>6. RightsGood(t) /\ Grown(grants, t) /\ DOMAIN t = DOMAIN grants
  BY <1>3, <1>4, <1>5, OneChanged DEF TrialInv
<1>7. t[i] = g  BY <1>3
<1> QED  BY <1>6, <1>7 DEF g, t

LEMMA StepPurchase ==
  ASSUME TrialInv, NEW i \in DOMAIN grants, NEW last \in {today + PlanDays - 1, Forever},
         Purchase(i, last)
  PROVE  RightsGood(grants') /\ Grown(grants, grants')
<1> DEFINE t == Converted(i)
           g == [kind |-> "PAID", status |-> "ACTIVE", first |-> today, last |-> last,
                 accepted |-> FALSE, noticed |-> NoDay, noticeFor |-> NoDay]
<1>1. grants[i].kind = "TRIAL" /\ grants[i].accepted
      /\ grants[i].status \in {"OFFERED", "ACTIVE", "EXPIRED"}
  BY DEF Purchase, Convertible, GrantState
<1>2. /\ RightsGood(t) /\ Grown(grants, t)
      /\ DOMAIN t = DOMAIN grants /\ t[i] = [grants[i] EXCEPT !.status = "CONVERTED"]
  BY <1>1, StatusSet DEF Converted, Settled
<1>3. grants[i] \in Right  BY OneSigned
<1>4. Bought(t)
  <2>1. t[i].kind = "TRIAL" /\ t[i].accepted /\ t[i].status = "CONVERTED"
    BY <1>1, <1>2, <1>3 DEF Right
  <2> QED  BY <2>1, <1>2 DEF Bought
<1>5. last \in Int /\ last >= 0
  BY TrialConstants DEF TrialInv, Forever
<1>6. g \in Right /\ Sound(g)
  <2>1. g \in Right  BY <1>5 DEF TrialInv, Right, NoDay
  <2>2. g.last # g.noticeFor  BY <1>5 DEF NoDay
  <2> QED  BY <2>1, <2>2, <1>5 DEF Sound
<1>7. grants' = Append(t, g)  BY DEF Purchase
<1> HIDE DEF t, g
<1>8. RightsGood(grants') /\ Grown(t, grants')  BY <1>2, <1>4, <1>6, <1>7, OneAdded
<1> QED  BY <1>2, <1>8, GrownTwice

LEMMA StepNotice ==
  ASSUME TrialInv, GiveNotice  PROVE RightsGood(grants') /\ Grown(grants, grants')
<1> DEFINE i == sweepAt
           g == [grants[i] EXCEPT !.noticed = today, !.noticeFor = grants[i].last]
<1>1. i \in DOMAIN grants /\ SweepPlan(grants[i]) = "NOTICE"  BY DEF GiveNotice, Sweeping
<1>2. Sound(grants[i]) /\ grants[i] \in Right  BY <1>1, OneSigned
<1>3. grants[i].status = "ACTIVE" /\ ~(today > grants[i].last)
      /\ today >= grants[i].last - NoticeDays
  BY <1>1 DEF SweepPlan
<1>4. today \in (grants[i].last - NoticeDays)..grants[i].last
  BY <1>2, <1>3, TrialConstants DEF TrialInv, Right
<1>5. g \in Right /\ g.last = grants[i].last /\ g.noticed = today /\ g.kind = grants[i].kind
      /\ g.status = grants[i].status /\ g.accepted = grants[i].accepted
  <2>1. today \in Int /\ grants[i].last \in Int  BY <1>2 DEF TrialInv, Right
  <2>2. [grants[i] EXCEPT !.noticed = today] \in Right  BY <1>2, <2>1 DEF Right
  <2>3. g \in Right  BY <2>1, <2>2 DEF Right
  <2>4. g.last = grants[i].last /\ g.noticed = today /\ g.kind = grants[i].kind
        /\ g.status = grants[i].status
    BY <1>2 DEF Right
  <2>5. g.accepted = grants[i].accepted  BY <1>2 DEF Right
  <2> QED  BY <2>3, <2>4, <2>5
<1>6. grants' = [grants EXCEPT ![i] = g]  BY DEF GiveNotice
<1> HIDE DEF g, i
<1>7. Sound(g)  BY <1>2, <1>3, <1>4, <1>5 DEF Sound
<1>8. Becomes(grants[i], g)  BY <1>5 DEF Becomes
<1> QED  BY <1>1, <1>6, <1>7, <1>8, OneChanged DEF TrialInv

LEMMA StepExpired ==
  ASSUME TrialInv, Sweeping("EXPIRE"), grants' = Expired(sweepAt)
  PROVE  /\ RightsGood(grants') /\ Grown(grants, grants')
         /\ sweepAt \in DOMAIN grants'
         /\ grants[sweepAt].status = "ACTIVE" /\ today > grants[sweepAt].last
         /\ grants'[sweepAt].status = "EXPIRED"
         /\ grants'[sweepAt].last = grants[sweepAt].last
<1>1. sweepAt \in DOMAIN grants /\ SweepPlan(grants[sweepAt]) = "EXPIRE"  BY DEF Sweeping
<1>2. grants[sweepAt].status = "ACTIVE" /\ today > grants[sweepAt].last
  BY <1>1 DEF SweepPlan
<1>3. /\ RightsGood(grants') /\ Grown(grants, grants')
      /\ DOMAIN grants' = DOMAIN grants
      /\ grants'[sweepAt] = [grants[sweepAt] EXCEPT !.status = "EXPIRED"]
  BY <1>1, <1>2, StatusSet DEF Expired, Settled
<1>4. grants[sweepAt] \in Right  BY <1>1, OneSigned
<1> QED  BY <1>1, <1>2, <1>3, <1>4 DEF Right

\* A right in force next to a lapsed trial: another trial was accepted.
LEMMA AnotherRight ==
  ASSUME TrialInv, NEW i \in DOMAIN grants, grants[i].status = "ACTIVE",
         NEW j \in DOMAIN grants, j # i, Effective(grants[j])
  PROVE  Reoffered(i)
<1>1. grants[j].status = "ACTIVE" /\ Sound(grants[j]) /\ grants[j] \in Right
  BY OneSigned DEF Effective
<1>2. CASE grants[j].kind = "TRIAL"  BY <1>1, <1>2 DEF Sound, Reoffered
<1>3. CASE grants[j].kind = "PAID"
  <2>1. PICK k \in DOMAIN grants :
          grants[k].kind = "TRIAL" /\ grants[k].accepted /\ grants[k].status = "CONVERTED"
    BY <1>3 DEF TrialInv, RightsGood, Bought
  <2>2. k # i  BY <2>1
  <2> QED  BY <2>1, <2>2 DEF Reoffered
<1> QED  BY <1>1, <1>2, <1>3 DEF Right

\* The listener adds one kill, for the trial that has just expired.
LEMMA CutAdded ==
  ASSUME TrialInv, Sweeping("EXPIRE"), grants' = Expired(sweepAt), AskForKill(sweepAt)
  PROVE  CutsGood' /\ CutIsDue'
<1> DEFINE i == sweepAt
           c == [trial |-> i, day |-> today, noticed |-> grants[i].noticed,
                 rights |-> {j \in DOMAIN grants \ {i} : Effective(grants[j])}]
<1>1. i \in DOMAIN grants  BY DEF Sweeping
<1>2. Sound(grants[i]) /\ grants[i] \in Right  BY <1>1, OneSigned
<1>3. /\ RightsGood(grants') /\ Grown(grants, grants') /\ i \in DOMAIN grants'
      /\ grants[i].status = "ACTIVE" /\ today > grants[i].last
      /\ grants'[i].status = "EXPIRED" /\ grants'[i].last = grants[i].last
  BY StepExpired
<1>4. grants[i].noticeFor = grants[i].last  BY DEF AskForKill
<1>5. c.noticed \in (grants'[i].last - NoticeDays)..grants'[i].last
  BY <1>2, <1>3, <1>4 DEF Sound
<1>6. c.rights = {} \/ OtherAccepted(grants', i)
  BY <1>1, <1>3, AnotherRight, AcceptedStays DEF Reoffered, OtherAccepted
<1>7. c \in [trial: Nat, day: Int, noticed: Int, rights: SUBSET Nat]
  <2>1. DOMAIN grants \subseteq Nat /\ today \in Int  BY DEF TrialInv, RightsGood
  <2>2. grants[i].noticed \in Int  BY <1>2 DEF Right
  <2>3. {j \in DOMAIN grants \ {i} : Effective(grants[j])} \in SUBSET Nat  BY <2>1
  <2> QED  BY <1>1, <2>1, <2>2, <2>3
<1>8. cuts' = Append(cuts, c)  BY DEF AskForKill
<1>9. c.trial = i /\ c.day = today  OBVIOUS
<1>10. today > grants'[i].last  BY <1>3
<1> HIDE DEF c, i
<1>11. /\ cuts' \in Seq([trial: Nat, day: Int, noticed: Int, rights: SUBSET Nat])
       /\ DOMAIN cuts' = DOMAIN cuts \cup {Len(cuts) + 1}
       /\ \A k \in DOMAIN cuts : cuts'[k] = cuts[k]
       /\ cuts'[Len(cuts) + 1] = c
  <2> DEFINE S == [trial: Nat, day: Int, noticed: Int, rights: SUBSET Nat]
  <2>1. cuts \in Seq(S) /\ c \in S  BY <1>7 DEF TrialInv, CutsGood
  <2> HIDE DEF S
  <2>2. /\ cuts' \in Seq(S) /\ Len(cuts') = Len(cuts) + 1
        /\ \A k \in 1..Len(cuts) : cuts'[k] = cuts[k]
        /\ cuts'[Len(cuts) + 1] = c
    BY <1>8, <2>1, AppendProperties
  <2>3. DOMAIN cuts = 1..Len(cuts) /\ DOMAIN cuts' = 1..Len(cuts') /\ Len(cuts) \in Nat
    BY <2>1, <2>2
  <2>4. DOMAIN cuts' = DOMAIN cuts \cup {Len(cuts) + 1}  BY <2>2, <2>3
  <2> QED  BY <2>2, <2>3, <2>4 DEF S
<1>12. Due(grants', c)  BY <1>5, <1>6, <1>9, <1>10 DEF Due
<1>13. CutsGood'  BY <1>3, <1>9, <1>11, CutsStay DEF CutsGood, Settled
<1>14. CutIsDue'  BY <1>3, <1>11, <1>12, CutsStay, DueEachNext
<1> QED  BY <1>13, <1>14

LEMMA TrialInvNext == TrialInv /\ [TrialNext]_trialVars => TrialInv'
<1> SUFFICES ASSUME TrialInv, [TrialNext]_trialVars  PROVE TrialInv'  OBVIOUS
<1>1. Grown(grants, grants)  BY GrownSame DEF TrialInv, RightsGood
<1>2. today' \in Nat /\ sweepAt' \in Nat
  <2>1. today \in Nat /\ sweepAt \in Nat  BY DEF TrialInv
  <2>2. CASE UNCHANGED <<today, sweepAt>>  BY <2>1, <2>2
  <2>3. CASE Pass \/ GiveNotice \/ Expire
    BY <2>1, <2>3 DEF Pass, GiveNotice, Expire
  <2>4. CASE StartSweep \/ EndSweep \/ Stop \/ Boot \/ NextDay
    BY <2>1, <2>4 DEF StartSweep, EndSweep, Stop, Boot, NextDay
  <2> QED
    BY <2>2, <2>3, <2>4
    DEF TrialNext, trialVars, OfferTrial, AcceptTrial, DeclineTrial, Purchase
<1>3. ASSUME RightsGood(grants'), Grown(grants, grants'), UNCHANGED cuts  PROVE TrialInv'
  BY <1>2, <1>3, CutsKept DEF TrialInv
<1>4. ASSUME UNCHANGED grants, UNCHANGED cuts  PROVE TrialInv'
  BY <1>1, <1>3, <1>4 DEF TrialInv
<1>5. CASE OfferTrial  BY <1>3, <1>5, StepOffer DEF OfferTrial
<1>6. ASSUME NEW i \in DOMAIN grants, AcceptTrial(i)  PROVE TrialInv'
  BY <1>3, <1>6, StepAccept DEF AcceptTrial
<1>7. ASSUME NEW i \in DOMAIN grants, DeclineTrial(i)  PROVE TrialInv'
  <2>1. grants[i].status = "OFFERED"  BY <1>7 DEF DeclineTrial, GrantState
  <2>2. RightsGood(grants') /\ Grown(grants, grants')
    BY <1>7, <2>1, StatusSet DEF DeclineTrial
  <2> QED  BY <1>3, <1>7, <2>2 DEF DeclineTrial
<1>8. ASSUME NEW i \in DOMAIN grants, NEW last \in {today + PlanDays - 1, Forever},
             Purchase(i, last)
      PROVE  TrialInv'
  BY <1>3, <1>8, StepPurchase DEF Purchase
<1>9. CASE GiveNotice  BY <1>3, <1>9, StepNotice DEF GiveNotice
<1>10. CASE Expire
  <2>1. Sweeping("EXPIRE") /\ grants' = Expired(sweepAt)  BY <1>10 DEF Expire
  <2>2. RightsGood(grants') /\ Grown(grants, grants')  BY <2>1, StepExpired
  <2>3. CASE UNCHANGED cuts  BY <1>3, <2>2, <2>3
  <2>4. CASE AskForKill(sweepAt)  BY <1>2, <2>1, <2>2, <2>4, CutAdded DEF TrialInv
  <2> QED  BY <1>10, <2>3, <2>4 DEF Expire
<1>11. CASE Stop
  <2>1. CASE UNCHANGED grants  BY <1>4, <1>11, <2>1 DEF Stop
  <2>2. CASE Sweeping("EXPIRE") /\ grants' = Expired(sweepAt)
    BY <1>3, <1>11, <2>2, StepExpired DEF Stop
  <2> QED  BY <1>11, <2>1, <2>2 DEF Stop
<1>12. CASE StartSweep \/ Pass \/ EndSweep \/ Boot \/ NextDay \/ UNCHANGED trialVars
  BY <1>4, <1>12 DEF StartSweep, Pass, EndSweep, Boot, NextDay, trialVars
<1> QED
  BY <1>5, <1>6, <1>7, <1>8, <1>9, <1>10, <1>11, <1>12 DEF TrialNext

LEMMA TrialInvInit == TrialInit => TrialInv
<1> SUFFICES ASSUME TrialInit  PROVE TrialInv  OBVIOUS
<1>1. grants = << >> /\ cuts = << >> /\ today = 0 /\ sweepAt = 1  BY DEF TrialInit
<1>2. RightsGood(grants)  BY <1>1 DEF RightsGood
<1>3. CutsGood /\ CutIsDue  BY <1>1 DEF CutsGood, CutIsDue
<1> QED  BY <1>1, <1>2, <1>3 DEF TrialInv

-----------------------------------------------------------------------------
(* A kill for a lapsed trial is only asked for after its last day, with a  *)
(* notice given in time for that day, and next to another right only if a  *)
(* second trial was accepted: however long the process is down, whenever   *)
(* it stops in a sweep, and however late trials are bought                 *)
(* (trial-expiry.service.ts, trial-expiry.listener.ts).                    *)
THEOREM CutAlwaysDue == TrialSpec => []CutIsDue
<1>1. TrialInv => CutIsDue  BY DEF TrialInv
<1> QED  BY <1>1, TrialInvInit, TrialInvNext, PTL DEF TrialSpec

-----------------------------------------------------------------------------
(* Types of the rights *)

FirstDays(s) == \A i \in DOMAIN s : s[i].first \in 0..MaxDay

TrialTyped ==
  /\ today \in 0..MaxDay
  /\ FirstDays(grants)
  /\ sweepAt \in 0 .. Len(grants) + 1
  /\ trialCrashes \in 0..MaxTrialCrashes

UpOrDown == {serving, swept} \subseteq BOOLEAN

\* A table of as many rights, none of which begins in the future.
LEMMA SameLength ==
  ASSUME TrialInv, TrialTyped, TrialInv',
         DOMAIN grants' = DOMAIN grants,
         \A j \in DOMAIN grants : grants'[j].first \in {grants[j].first, today}
  PROVE  FirstDays(grants') /\ Len(grants') = Len(grants)
<1>1. grants \in Seq(Right) /\ grants' \in Seq(Right)  BY DEF TrialInv, RightsGood
<1>2. /\ Len(grants) \in Nat /\ Len(grants') \in Nat
      /\ DOMAIN grants = 1 .. Len(grants) /\ DOMAIN grants' = 1 .. Len(grants')
  BY <1>1, LenProperties
<1>3. 1 .. Len(grants') = 1 .. Len(grants)  BY <1>2
<1> QED  BY <1>2, <1>3 DEF TrialTyped, FirstDays

\* One right more, which begins today.
LEMMA OneMore ==
  ASSUME TrialInv, TrialTyped, NEW s \in Seq(Right), FirstDays(s), NEW g, g.first = today,
         grants' = Append(s, g)
  PROVE  FirstDays(grants')
<1>1. DOMAIN grants' = DOMAIN s \cup {Len(s) + 1}
      /\ \A j \in DOMAIN grants' : grants'[j] = IF j \in DOMAIN s THEN s[j] ELSE g
  BY LenProperties
<1> QED  BY <1>1 DEF FirstDays, TrialTyped

LEMMA TrialTypedNext ==
  TrialInv /\ TrialTyped /\ TrialInv' /\ [TrialNext]_trialVars => TrialTyped'
<1> SUFFICES ASSUME TrialInv, TrialTyped, TrialInv', [TrialNext]_trialVars
             PROVE  TrialTyped'
  OBVIOUS
<1>0. /\ grants \in Seq(Right) /\ Len(grants) \in Nat /\ grants' \in Seq(Right)
      /\ Len(grants') \in Nat /\ sweepAt \in Nat /\ today \in Nat
      /\ {MaxDay, MaxTrialCrashes} \subseteq Nat
  BY LenProperties, TrialConstants DEF TrialInv, RightsGood
\* Between sweeps.
<1>1. ASSUME FirstDays(grants'), sweepAt = 0,
             UNCHANGED <<today, serving, sweepAt, swept, trialCrashes>>
      PROVE  TrialTyped'
  BY <1>0, <1>1 DEF TrialTyped
\* In a sweep.
<1>2. ASSUME FirstDays(grants'), Len(grants') = Len(grants), sweepAt \in DOMAIN grants,
             sweepAt' = sweepAt + 1, UNCHANGED <<today, serving, swept, trialCrashes>>
      PROVE  TrialTyped'
  <2>1. sweepAt \in 1 .. Len(grants)  BY <1>0, <1>2, LenProperties
  <2> QED  BY <1>0, <1>2, <2>1 DEF TrialTyped
<1>3. CASE OfferTrial
  <2>1. FirstDays(grants')  BY <1>0, <1>3, OneMore DEF OfferTrial, TrialTyped
  <2> QED  BY <1>1, <1>3, <2>1 DEF OfferTrial, Quiet
<1>4. ASSUME NEW i \in DOMAIN grants, AcceptTrial(i) \/ DeclineTrial(i)  PROVE TrialTyped'
  <2> DEFINE g == [grants[i] EXCEPT !.status = "ACTIVE", !.accepted = TRUE,
                                    !.first = today, !.last = today + TrialDays - 1]
             d == [grants[i] EXCEPT !.status = "DECLINED"]
  <2>0. /\ grants' = [grants EXCEPT ![i] = g] \/ grants' = [grants EXCEPT ![i] = d]
        /\ {g.first, d.first} \subseteq {grants[i].first, today}
    <3>1. grants[i] \in Right  BY <1>0, ElementOfSeq, LenProperties
    <3>2. AcceptTrial(i) => grants' = [grants EXCEPT ![i] = g]  BY DEF AcceptTrial
    <3>3. DeclineTrial(i) => grants' = [grants EXCEPT ![i] = d]  BY DEF DeclineTrial
    <3> QED  BY <1>4, <3>1, <3>2, <3>3 DEF Right
  <2> HIDE DEF g, d
  <2>1. DOMAIN grants' = DOMAIN grants
        /\ \A j \in DOMAIN grants : grants'[j].first \in {grants[j].first, today}
    BY <1>0, <2>0
  <2> QED  BY <1>1, <1>4, <2>1, SameLength DEF AcceptTrial, DeclineTrial, Quiet
<1>5. ASSUME NEW i \in DOMAIN grants, NEW last \in {today + PlanDays - 1, Forever},
             Purchase(i, last)
      PROVE  TrialTyped'
  <2>1. /\ Converted(i) \in Seq(Right) /\ DOMAIN Converted(i) = DOMAIN grants
        /\ \A j \in DOMAIN grants : Converted(i)[j].first = grants[j].first
    <3>1. grants[i] \in Right  BY <1>0, ElementOfSeq, LenProperties
    <3>2. [grants[i] EXCEPT !.status = "CONVERTED"] \in Right  BY <3>1 DEF Right
    <3>3. Converted(i) = [grants EXCEPT ![i] = [grants[i] EXCEPT !.status = "CONVERTED"]]
      BY DEF Converted
    <3>4. [grants[i] EXCEPT !.status = "CONVERTED"].first = grants[i].first  BY <3>1 DEF Right
    <3> QED  BY <1>0, <3>2, <3>3, <3>4, ExceptSeq
  <2>2. FirstDays(Converted(i))  BY <2>1 DEF TrialTyped, FirstDays
  <2>3. FirstDays(grants')  BY <1>5, <2>1, <2>2, OneMore DEF Purchase
  <2> QED  BY <1>1, <1>5, <2>3 DEF Purchase, Quiet
<1>6. CASE Pass  BY <1>2, <1>6 DEF Pass, Sweeping, TrialTyped
<1>7. ASSUME sweepAt \in DOMAIN grants, grants' = Expired(sweepAt)
      PROVE  FirstDays(grants') /\ Len(grants') = Len(grants)
  <2>1. DOMAIN grants' = DOMAIN grants
        /\ \A j \in DOMAIN grants : grants'[j].first \in {grants[j].first, today}
    BY <1>0, <1>7 DEF Expired, Right
  <2> QED  BY <2>1, SameLength
<1>8. CASE GiveNotice
  <2> DEFINE g == [grants[sweepAt] EXCEPT !.noticed = today,
                                          !.noticeFor = grants[sweepAt].last]
  <2>0. /\ grants' = [grants EXCEPT ![sweepAt] = g] /\ sweepAt \in DOMAIN grants
        /\ g.first = grants[sweepAt].first
    <3>1. sweepAt \in DOMAIN grants  BY <1>8 DEF GiveNotice, Sweeping
    <3>2. grants[sweepAt] \in Right  BY <1>0, <3>1, ElementOfSeq, LenProperties
    <3>3. grants' = [grants EXCEPT ![sweepAt] = g]  BY <1>8 DEF GiveNotice
    <3> QED  BY <3>1, <3>2, <3>3 DEF Right
  <2> HIDE DEF g
  <2>1. DOMAIN grants' = DOMAIN grants
        /\ \A j \in DOMAIN grants : grants'[j].first \in {grants[j].first, today}
    BY <1>0, <2>0
  <2> QED  BY <1>2, <1>8, <2>1, SameLength DEF GiveNotice, Sweeping
<1>9. CASE Expire  BY <1>2, <1>7, <1>9 DEF Expire, Sweeping
<1>10. CASE Stop
  <2>1. /\ sweepAt' = 0 /\ serving' = FALSE /\ UNCHANGED <<today, swept>>
        /\ trialCrashes < MaxTrialCrashes /\ trialCrashes' = trialCrashes + 1
    BY <1>10 DEF Stop
  <2>2. FirstDays(grants')  BY <1>7, <1>10 DEF Stop, Sweeping, TrialTyped
  <2> QED  BY <1>0, <2>1, <2>2 DEF TrialTyped
<1>11. CASE NextDay
  BY <1>0, <1>11 DEF NextDay, TrialTyped
<1>12. CASE StartSweep \/ EndSweep \/ Boot \/ UNCHANGED trialVars
  BY <1>0, <1>12 DEF StartSweep, EndSweep, Boot, trialVars, TrialTyped
<1> QED
  BY <1>3, <1>4, <1>5, <1>6, <1>8, <1>9, <1>10, <1>11, <1>12 DEF TrialNext

LEMMA UpOrDownNext == UpOrDown /\ [TrialNext]_trialVars => UpOrDown'
<1> SUFFICES ASSUME UpOrDown, [TrialNext]_trialVars  PROVE UpOrDown'  OBVIOUS
<1> USE DEF UpOrDown
<1>1. CASE UNCHANGED <<serving, swept>>  BY <1>1
<1>2. CASE EndSweep \/ Stop \/ Boot \/ NextDay
  BY <1>2 DEF EndSweep, Stop, Boot, NextDay
<1> QED
  BY <1>1, <1>2
  DEF TrialNext, trialVars, OfferTrial, AcceptTrial, DeclineTrial, Purchase, StartSweep,
      Pass, GiveNotice, Expire

LEMMA TrialTypedInit == TrialInit => TrialTyped /\ UpOrDown
<1> SUFFICES ASSUME TrialInit  PROVE TrialTyped /\ UpOrDown  OBVIOUS
<1>1. grants = << >> /\ today = 0 /\ sweepAt = 1 /\ trialCrashes = 0  BY DEF TrialInit
<1>2. DOMAIN grants = {} /\ Len(grants) = 0  BY <1>1
<1>3. TrialTyped  BY <1>1, <1>2, TrialConstants DEF TrialTyped, FirstDays
<1>4. UpOrDown  BY DEF TrialInit, UpOrDown
<1> QED  BY <1>3, <1>4

\* Every right has its kind, its status and a first day that has come, and the sweep
\* never looks beyond the table, although rights are added between its days.
THEOREM RightsTyped == TrialSpec => []TrialTypeOK
<1> DEFINE I == TrialInv /\ TrialTyped /\ UpOrDown
<1>1. TrialInit => I  BY TrialInvInit, TrialTypedInit
<1>2. I /\ [TrialNext]_trialVars => I'
  BY TrialInvNext, TrialTypedNext, UpOrDownNext
<1>3. I => TrialTypeOK
  <2> SUFFICES ASSUME TrialInv, TrialTyped, UpOrDown  PROVE TrialTypeOK  OBVIOUS
  <2>1. \A i \in DOMAIN grants : grants[i] \in Right
    BY DEF TrialInv, RightsGood, Sound
  <2>2. \A i \in DOMAIN grants :
          /\ grants[i].kind \in {"TRIAL", "PAID"}
          /\ grants[i].status \in {"OFFERED", "ACTIVE", "DECLINED", "EXPIRED", "CONVERTED"}
          /\ {grants[i].noticed, grants[i].noticeFor} \subseteq Int
    BY <2>1 DEF Right
  <2> QED  BY <2>2 DEF TrialTypeOK, TrialTyped, UpOrDown, FirstDays
<1> QED  BY <1>1, <1>2, <1>3, PTL DEF TrialSpec

(***************************************************************************)
(* QualityLoop                                                             *)
(***************************************************************************)

Case == [status: {"OPEN", "ACKNOWLEDGED", "MITIGATED", "DISMISSED"},
         severity: {0, 1, 2}, signals: Seq(CaseSignals)]

Feedback == [case: Nat, version: Nat, status: {"OPEN", "ACCEPTED", "RESOLVED"}, since: Nat]

TablesGood ==
  /\ cases \in Seq(Case)
  /\ feedbacks \in Seq(Feedback)
  /\ passes \in Seq(Nat)
  /\ newest \in Nat \ {0} /\ deployed \in Nat
  /\ kills \subseteq DOMAIN cases
  /\ callback \in [what: {"NONE", "KILL", "MITIGATED", "PASS"}, of: Nat]

Under(what, of) == callback = [what |-> what, of |-> of]

\* What a callback finds when it runs.
CallbackGood ==
  /\ callback.what = "NONE" => callback = NoCallback
  /\ callback.what = "KILL" => callback.of \in kills
  /\ callback.what = "MITIGATED" =>
       /\ callback.of \in DOMAIN cases /\ cases[callback.of].status = "MITIGATED"
       /\ ~Missed("MITIGATED", callback.of)
  /\ callback.what = "PASS" =>
       /\ callback.of = Len(passes) /\ callback.of > 0
       /\ ~Missed("PASS", callback.of)
       /\ \A f \in DOMAIN feedbacks : feedbacks[f].since < callback.of

MissedGood ==
  /\ \A c \in Nat : Missed("MITIGATED", c) =>
       c \in DOMAIN cases /\ cases[c].status = "MITIGATED"
  /\ \A p \in Nat : Missed("PASS", p) => p <= Len(passes)

KillsHeard == \A c \in kills : ~Open(c) \/ Missed("KILL", c) \/ Under("KILL", c)

\* A case that has, or should have, its feedback.
Fed(c) ==
  /\ cases[c].status = "MITIGATED" /\ caseKind # "DELIVERY"
  /\ ~Missed("MITIGATED", c) /\ ~Under("MITIGATED", c)

FeedbackOf(c) == {f \in DOMAIN feedbacks : feedbacks[f].case = c}

OneEach ==
  /\ \A f \in DOMAIN feedbacks : feedbacks[f].case \in DOMAIN cases
  /\ \A c \in DOMAIN cases :
       /\ Fed(c) => \E f \in DOMAIN feedbacks : FeedbackOf(c) = {f}
       /\ ~Fed(c) => FeedbackOf(c) = {}

\* Two feedbacks out of order were not answered by the same passes.
NewestFirst ==
  \A f, g \in DOMAIN feedbacks :
    f < g /\ Resolved(f) /\ ~Resolved(g)
    => \E p \in DOMAIN passes : Answers(p, f) /\ ~Answers(p, g)

\* Only by a pass that answers, and by every one whose callback ran to its end.
ResolvedRight ==
  /\ \A f \in DOMAIN feedbacks :
       /\ feedbacks[f].since <= Len(passes)
       /\ Resolved(f) => \E p \in DOMAIN passes : Answers(p, f)
       /\ \A p \in DOMAIN passes :
            Answers(p, f) /\ ~Missed("PASS", p) /\ ~Under("PASS", p) => Resolved(f)
  /\ NewestFirst

LoopInv ==
  TablesGood /\ CallbackGood /\ MissedGood /\ KillsHeard /\ OneEach /\ ResolvedRight

-----------------------------------------------------------------------------
(* Signals of a case *)

LEMMA KeptSignals ==
  ASSUME NEW signals \in Seq(CaseSignals), signals # << >>
  PROVE  Kept(signals) \in Seq(CaseSignals) /\ Kept(signals) # << >>
<1>0. MaxSignals \in Nat \ {0}  BY LoopConstants
<1>1. CASE Len(signals) <= MaxSignals  BY <1>1 DEF Kept
<1>2. CASE Len(signals) > MaxSignals
  <2>1. Len(signals) \in Nat /\ Len(signals) - MaxSignals + 1 \in 1 .. Len(signals)
    BY <1>0, <1>2, LenProperties
  <2>2. Kept(signals) = SubSeq(signals, Len(signals) - MaxSignals + 1, Len(signals))
    BY <1>0, <1>2, <2>1 DEF Kept
  <2>3. /\ Kept(signals) \in Seq(CaseSignals)
        /\ Len(Kept(signals)) > 0
    BY <2>1, <2>2, SubSeqProperties
  <2> QED  BY <2>3
<1> QED  BY <1>0, <1>1, <1>2, LenProperties

\* A report above INFO.
Reported(signals) == \E s \in ToSet(signals) : s.severity # 0

LEMMA MaxSeverity ==
  ASSUME NEW signals \in Seq(CaseSignals), signals # << >>
  PROVE  /\ Max({s.severity : s \in ToSet(signals)}) \in {0, 1, 2}
         /\ Max({s.severity : s \in ToSet(signals)}) = 2
              <=> \E s \in ToSet(signals) : s.severity = 2
         /\ Max({s.severity : s \in ToSet(signals)}) # 0 <=> Reported(signals)
<1> DEFINE S == {s.severity : s \in ToSet(signals)}
<1>1. \A s \in ToSet(signals) : s \in CaseSignals
  BY ElementOfSeq, LenProperties DEF ToSet
<1>2. S \subseteq {0, 1, 2}  BY <1>1, LoopConstants
<1>3. signals[1] \in ToSet(signals)
  BY LenProperties DEF ToSet
<1>4. S # {}  BY <1>3
<1>5. /\ 2 \in S <=> \E s \in ToSet(signals) : s.severity = 2
      /\ (\E x \in S : x # 0) <=> Reported(signals)
  BY DEF Reported
<1>6. Max(S) \in S /\ \A y \in S : Max(S) >= y
  <2> HIDE DEF S
  <2>1. \E x \in S : \A y \in S : x >= y
    <3>1. CASE 2 \in S
      <4>1. \A y \in S : 2 >= y  BY <1>2
      <4> QED  BY <3>1, <4>1
    <3>2. CASE 2 \notin S /\ 1 \in S
      <4>1. \A y \in S : 1 >= y  BY <1>2, <3>2
      <4> QED  BY <3>2, <4>1
    <3>3. CASE 2 \notin S /\ 1 \notin S
      <4>1. S = {0}  BY <1>2, <1>4, <3>3
      <4> QED  BY <4>1
    <3> QED  BY <3>1, <3>2, <3>3
  <2> QED  BY <2>1 DEF Max
<1>7. /\ Max(S) \in {0, 1, 2} /\ (Max(S) = 2 <=> 2 \in S)
      /\ Max(S) # 0 <=> \E x \in S : x # 0
  <2> HIDE DEF S
  <2>1. PICK m : m = Max(S)  OBVIOUS
  <2>2. m \in {0, 1, 2} /\ m \in S /\ \A y \in S : m >= y  BY <1>2, <1>6, <2>1
  <2>3. 2 \in S => m = 2  BY <2>2
  <2>4. \A x \in S : x # 0 => m # 0  BY <1>2, <2>2
  <2> QED  BY <2>1, <2>2, <2>3, <2>4
<1> QED  BY <1>5, <1>7

LEMMA Classified ==
  ASSUME NEW signals \in Seq(CaseSignals), signals # << >>
  PROVE  ClassifyAnomaly(signals) \in {0, 1, 2}
BY MaxSeverity DEF ClassifyAnomaly

LEMMA SignalAdded ==
  ASSUME NEW row \in [status: {"OPEN", "ACKNOWLEDGED", "MITIGATED", "DISMISSED"},
                      severity: Nat, signals: Seq(CaseSignals)],
         NEW s \in CaseSignals
  PROVE  AddSignal(row, s) \in Case /\ AddSignal(row, s).status = row.status
<1> DEFINE signals == Kept(Append(row.signals, s))
<1>1. Append(row.signals, s) \in Seq(CaseSignals) /\ Append(row.signals, s) # << >>
  BY AppendProperties
<1>2. signals \in Seq(CaseSignals) /\ signals # << >>  BY <1>1, KeptSignals
<1>3. ClassifyAnomaly(signals) \in {0, 1, 2}  BY <1>2, Classified
<1>4. AddSignal(row, s) =
        [status |-> row.status, severity |-> ClassifyAnomaly(signals), signals |-> signals]
  <2>1. AddSignal(row, s) =
          [row EXCEPT !.signals = signals, !.severity = ClassifyAnomaly(signals)]
    BY DEF AddSignal
  <2> HIDE DEF signals
  <2> QED  BY <2>1
<1> HIDE DEF signals
<1> QED  BY <1>2, <1>3, <1>4 DEF Case

-----------------------------------------------------------------------------
(* Steps *)

LEMMA FeedbackTyped ==
  ASSUME LoopInv
  PROVE  \A f \in DOMAIN feedbacks : feedbacks[f] \in Feedback /\ feedbacks[f].since \in Nat
<1>1. feedbacks \in Seq(Feedback)  BY DEF LoopInv, TablesGood
<1> TAKE f \in DOMAIN feedbacks
<1>2. feedbacks[f] \in Feedback  BY <1>1, ElementOfSeq, LenProperties
<1> QED  BY <1>2 DEF Feedback

\* An issued kill whose callback is not about to run has been heard.
LEMMA HeardBefore ==
  ASSUME LoopInv, NEW c \in kills, callback.what = "KILL" => callback.of # c
  PROVE  c \in DOMAIN cases /\ (~Open(c) \/ Missed("KILL", c))
<1>1. ~Under("KILL", c)  BY DEF Under
<1> QED  BY <1>1 DEF LoopInv, TablesGood, KillsHeard

\* A step that changes neither feedbacks nor verdicts, and forgets no callback.
LEMMA NothingResolved ==
  ASSUME LoopInv, UNCHANGED <<feedbacks, passes>>,
         \A p : Missed("PASS", p) \/ Under("PASS", p)
                => Missed("PASS", p)' \/ Under("PASS", p)'
  PROVE  ResolvedRight'
<1>1. \A f : Resolved(f)' <=> Resolved(f)  BY DEF Resolved
<1>2. \A p, f : Answers(p, f)' <=> Answers(p, f)  BY DEF Answers
<1>3. NewestFirst'  BY <1>1, <1>2 DEF LoopInv, ResolvedRight, NewestFirst
<1> QED  BY <1>1, <1>2, <1>3 DEF LoopInv, ResolvedRight

\* A step that leaves feedbacks, verdicts and what callbacks did alone, and no case
\* loses or wins a status.
LEMMA CasesOnly ==
  ASSUME LoopInv, callback = NoCallback, cases' \in Seq(Case), 
         \A c \in DOMAIN cases : c \in DOMAIN cases' /\ (Open(c)' => Open(c))
              /\ (cases'[c].status = "MITIGATED" <=> cases[c].status = "MITIGATED"),
         \A c \in DOMAIN cases' \ DOMAIN cases : cases'[c].status = "OPEN",
         newest' \in Nat \ {0}, deployed' \in Nat,
         UNCHANGED <<caseKind, feedbacks, kills, passes, callback, missed>>
  PROVE  LoopInv'
<1> USE DEF NoCallback
<1>1. TablesGood'  BY DEF LoopInv, TablesGood
<1>2. CallbackGood'  BY DEF LoopInv, CallbackGood
<1>3. MissedGood'  BY DEF LoopInv, MissedGood, Missed
<1>4. KillsHeard'
  BY DEF LoopInv, TablesGood, KillsHeard, Missed, Under
<1>5. OneEach'
  <2>1. \A c : FeedbackOf(c)' = FeedbackOf(c)  BY DEF FeedbackOf
  <2>2. \A c \in DOMAIN cases : Fed(c)' <=> Fed(c)  BY DEF Fed, Missed, Under
  <2>3. \A c \in DOMAIN cases' \ DOMAIN cases : ~Fed(c)' /\ FeedbackOf(c) = {}
    BY DEF Fed, FeedbackOf, LoopInv, OneEach
  <2> QED  BY <2>1, <2>2, <2>3 DEF LoopInv, OneEach
<1>6. ResolvedRight'  BY NothingResolved DEF Missed, Under
<1> QED  BY <1>1, <1>2, <1>3, <1>4, <1>5, <1>6 DEF LoopInv

LEMMA StepSignal ==
  ASSUME LoopInv, NEW s \in CaseSignals, Signal(s)
  PROVE  LoopInv'
<1>1. newest' \in Nat \ {0} /\ deployed' \in Nat
  BY DEF LoopInv, TablesGood, Signal
<1>2. cases \in Seq(Case) /\ Len(cases) \in Nat /\ DOMAIN cases = 1 .. Len(cases)
  BY LenProperties DEF LoopInv, TablesGood
<1>3. ASSUME NEW c \in DOMAIN cases, cases' = [cases EXCEPT ![c] = AddSignal(@, s)]
      PROVE  LoopInv'
  <2>1. cases[c] \in Case  BY <1>2, ElementOfSeq
  <2>2. AddSignal(cases[c], s) \in Case /\ AddSignal(cases[c], s).status = cases[c].status
    BY <2>1, SignalAdded DEF Case
  <2>3. cases' \in Seq(Case) /\ DOMAIN cases' = DOMAIN cases
    BY <1>2, <1>3, <2>2, ExceptSeq
  <2>4. \A d \in DOMAIN cases : cases'[d].status = cases[d].status
    BY <1>2, <1>3, <2>2
  <2> QED  BY <1>1, <2>3, <2>4, CasesOnly DEF Signal, Open
<1>4. ASSUME cases' = Append(cases, AddSignal(
               [status |-> "OPEN", severity |-> 0, signals |-> << >>], s))
      PROVE  LoopInv'
  <2> DEFINE row == [status |-> "OPEN", severity |-> 0, signals |-> << >>]
  <2>1. row \in [status: {"OPEN", "ACKNOWLEDGED", "MITIGATED", "DISMISSED"},
                severity: Nat, signals: Seq(CaseSignals)]
    BY EmptySeq
  <2>2. AddSignal(row, s) \in Case /\ AddSignal(row, s).status = "OPEN"
    BY <2>1, SignalAdded
  <2>3. /\ cases' \in Seq(Case) /\ DOMAIN cases' = 1 .. Len(cases) + 1
        /\ \A d \in DOMAIN cases : cases'[d] = cases[d]
        /\ cases'[Len(cases) + 1].status = "OPEN"
    BY <1>2, <1>4, <2>2, AppendProperties
  <2>4. \A d \in DOMAIN cases' \ DOMAIN cases : cases'[d].status = "OPEN"
    BY <1>2, <2>3
  <2>5. \A d \in DOMAIN cases : d \in DOMAIN cases' /\ (Open(d)' => Open(d))
           /\ (cases'[d].status = "MITIGATED" <=> cases[d].status = "MITIGATED")
    BY <1>2, <2>3 DEF Open
  <2> QED  BY <1>1, <2>3, <2>4, <2>5, CasesOnly DEF Signal
<1> QED  BY <1>3, <1>4 DEF Signal

LEMMA StepAcknowledge ==
  ASSUME LoopInv, NEW c \in DOMAIN cases, Acknowledge(c)
  PROVE  LoopInv'
<1>1. cases \in Seq(Case) /\ cases[c] \in Case /\ newest' \in Nat \ {0} /\ deployed' \in Nat
  BY ElementOfSeq, LenProperties DEF LoopInv, TablesGood, Acknowledge
<1>2. [cases[c] EXCEPT !.status = "ACKNOWLEDGED"] \in Case  BY <1>1 DEF Case
<1>3. cases' = [cases EXCEPT ![c] = [cases[c] EXCEPT !.status = "ACKNOWLEDGED"]]
  BY DEF Acknowledge
<1>4. cases' \in Seq(Case) /\ DOMAIN cases' = DOMAIN cases
  BY <1>1, <1>2, <1>3, ExceptSeq
<1>5. \A d \in DOMAIN cases :
        IF d = c THEN cases[d].status = "OPEN" /\ cases'[d].status = "ACKNOWLEDGED"
        ELSE cases'[d] = cases[d]
  BY <1>1, <1>3 DEF Acknowledge, Case
<1>6. \A d \in DOMAIN cases : d \in DOMAIN cases' /\ (Open(d)' => Open(d))
         /\ (cases'[d].status = "MITIGATED" <=> cases[d].status = "MITIGATED")
  BY <1>4, <1>5 DEF Open
<1> QED  BY <1>1, <1>4, <1>6, CasesOnly DEF Acknowledge

LEMMA StepClose ==
  ASSUME LoopInv, NEW c \in DOMAIN cases, NEW status \in {"MITIGATED", "DISMISSED"},
         CloseCase(c, status),
         callback.what = "PASS" => FALSE, callback.what = "MITIGATED" => FALSE,
         callback.what = "KILL" => callback.of = c
  PROVE  LoopInv'
<1>1. cases \in Seq(Case) /\ cases[c] \in Case /\ c \in Nat /\ DOMAIN cases \subseteq Nat
  BY ElementOfSeq, LenProperties DEF LoopInv, TablesGood
<1> DEFINE row == [cases[c] EXCEPT !.status = status, !.signals = << >>]
<1>2. row \in Case /\ row.status = status  BY <1>1, EmptySeq DEF Case
<1>3. cases' = [cases EXCEPT ![c] = row]  BY DEF CloseCase
<1> HIDE DEF row
<1>4. cases' \in Seq(Case) /\ DOMAIN cases' = DOMAIN cases
  BY <1>1, <1>2, <1>3, ExceptSeq
<1>5. cases'[c].status = status /\ \A d \in DOMAIN cases \ {c} : cases'[d] = cases[d]
  BY <1>1, <1>2, <1>3
<1>6. /\ UNCHANGED <<caseKind, newest, deployed, feedbacks, kills, passes, missed>>
      /\ callback' = IF status = "MITIGATED" THEN [what |-> "MITIGATED", of |-> c] ELSE NoCallback
      /\ Open(c) /\ cases[c].status # "MITIGATED"
  BY DEF CloseCase, Open
<1>7. ~Missed("MITIGATED", c) /\ FeedbackOf(c) = {}
  BY <1>1, <1>6 DEF LoopInv, MissedGood, OneEach, Fed
<1>8. TablesGood'  BY <1>1, <1>4, <1>6 DEF LoopInv, TablesGood, NoCallback
<1>9. CallbackGood'  BY <1>4, <1>5, <1>6, <1>7 DEF CallbackGood, Missed, NoCallback
<1>10. MissedGood'  BY <1>1, <1>4, <1>5, <1>6, <1>7 DEF LoopInv, MissedGood, Missed
<1>11. KillsHeard'
  <2> SUFFICES ASSUME NEW d \in kills  PROVE (~Open(d) \/ Missed("KILL", d))'
    BY <1>6 DEF KillsHeard
  <2>1. CASE d = c  BY <2>1, <1>5 DEF Open
  <2>2. CASE d # c
    <3>1. ~Open(d) \/ Missed("KILL", d)
      BY <2>2 DEF LoopInv, KillsHeard, Under
    <3>2. d \in DOMAIN cases  BY DEF LoopInv, TablesGood
    <3> QED  BY <2>2, <3>1, <3>2, <1>5, <1>6 DEF Open, Missed
  <2> QED  BY <2>1, <2>2
<1>12. OneEach'
  <2>1. \A d : FeedbackOf(d)' = FeedbackOf(d)  BY <1>6 DEF FeedbackOf
  <2>2. \A d \in DOMAIN cases \ {c} : Fed(d)' <=> Fed(d)
    <3> TAKE d \in DOMAIN cases \ {c}
    <3>1. ~Under("MITIGATED", d)  BY DEF Under
    <3>2. ~Under("MITIGATED", d)'  BY <1>6 DEF Under, NoCallback
    <3> QED  BY <3>1, <3>2, <1>5, <1>6 DEF Fed, Missed
  <2>3. ~Fed(c)'  BY <1>5, <1>6 DEF Fed, Under
  <2> QED  BY <2>1, <2>2, <2>3, <1>4, <1>6, <1>7 DEF LoopInv, OneEach
<1>13. ResolvedRight'
  <2>1. \A p : ~Under("PASS", p) /\ ~Under("PASS", p)'
    BY <1>6 DEF Under, NoCallback
  <2> QED  BY <2>1, <1>6, NothingResolved DEF Missed
<1> QED  BY <1>8, <1>9, <1>10, <1>11, <1>12, <1>13 DEF LoopInv

LEMMA StepKill ==
  ASSUME LoopInv, NEW c \in DOMAIN cases, KillIssued(c)
  PROVE  LoopInv'
<1>1. c \in Nat  BY LenProperties DEF LoopInv, TablesGood
<1>2. /\ UNCHANGED <<caseKind, cases, newest, deployed, feedbacks, passes, missed>>
      /\ kills' = kills \cup {c} /\ callback = NoCallback
      /\ callback' = [what |-> "KILL", of |-> c]
  BY DEF KillIssued
<1>3. TablesGood'  BY <1>1, <1>2 DEF LoopInv, TablesGood
<1>4. CallbackGood'  BY <1>2 DEF CallbackGood
<1>5. MissedGood'  BY <1>2 DEF LoopInv, MissedGood, Missed
<1>6. KillsHeard'
  <2>1. \A d \in kills : ~Open(d) \/ Missed("KILL", d)
    BY <1>2 DEF LoopInv, KillsHeard, Under, NoCallback
  <2> QED  BY <2>1, <1>2 DEF KillsHeard, Under, Missed, Open
<1>7. OneEach' /\ ResolvedRight'
  <2>1. \A d : /\ Under("MITIGATED", d)' <=> Under("MITIGATED", d)
               /\ Under("PASS", d)' <=> Under("PASS", d)
    BY <1>2 DEF Under, NoCallback
  <2>2. /\ \A d : Fed(d)' <=> Fed(d)
        /\ \A d : FeedbackOf(d)' = FeedbackOf(d)
    BY <1>2, <2>1 DEF Fed, FeedbackOf, Missed
  <2>3. ResolvedRight'  BY <1>2, <2>1, NothingResolved DEF Missed
  <2> QED  BY <1>2, <2>2, <2>3 DEF LoopInv, OneEach
<1> QED  BY <1>3, <1>4, <1>5, <1>6, <1>7 DEF LoopInv

LEMMA StepHeardKill ==
  ASSUME LoopInv, OnKillIssued
  PROVE  LoopInv'
<1>1. callback.what = "KILL" /\ callback.of \in DOMAIN cases
  BY DEF OnKillIssued, LoopInv, TablesGood, CallbackGood
<1>2. CASE CloseCase(callback.of, "MITIGATED")  BY <1>1, <1>2, StepClose
<1>3. CASE /\ ~Open(callback.of) /\ callback' = NoCallback
           /\ UNCHANGED <<caseKind, cases, newest, deployed, feedbacks, kills, passes,
                          missed, loopCrashes>>
  <2>1. TablesGood' /\ CallbackGood' /\ MissedGood'
    BY <1>3 DEF LoopInv, TablesGood, CallbackGood, MissedGood, Missed, NoCallback
  <2>2. KillsHeard'
    <3> SUFFICES ASSUME NEW c \in kills  PROVE (~Open(c) \/ Missed("KILL", c))'
      BY <1>3 DEF KillsHeard
    <3>1. ~Open(c) \/ Missed("KILL", c)
      BY <1>3, HeardBefore
    <3> QED  BY <3>1, <1>3 DEF Open, Missed
  <2>3. \A d : /\ Under("MITIGATED", d)' <=> Under("MITIGATED", d)
               /\ Under("PASS", d)' <=> Under("PASS", d)
    BY <1>1, <1>3 DEF Under, NoCallback
  <2>4. /\ \A d : Fed(d)' <=> Fed(d)
        /\ \A d : FeedbackOf(d)' = FeedbackOf(d)
    BY <1>3, <2>3 DEF Fed, FeedbackOf, Missed
  <2>5. OneEach'  BY <1>3, <2>4 DEF LoopInv, OneEach
  <2>6. ResolvedRight'  BY <1>3, <2>3, NothingResolved DEF Missed
  <2> QED  BY <2>1, <2>2, <2>5, <2>6 DEF LoopInv
<1> QED  BY <1>2, <1>3 DEF OnKillIssued

LEMMA StepMitigated ==
  ASSUME LoopInv, OnMitigated
  PROVE  LoopInv'
<1>0. PICK c : c = callback.of  OBVIOUS
<1> DEFINE new == [case |-> c, version |-> FieldVersion, status |-> "OPEN",
                   since |-> Len(passes)]
<1>1. /\ c \in DOMAIN cases /\ c \in Nat /\ cases[c].status = "MITIGATED"
      /\ ~Missed("MITIGATED", c) /\ Under("MITIGATED", c)
  BY <1>0 DEF OnMitigated, LoopInv, TablesGood, CallbackGood, Under
<1>2. /\ UNCHANGED <<caseKind, cases, newest, deployed, kills, passes, missed>>
      /\ callback' = NoCallback
  BY DEF OnMitigated
<1>3. /\ feedbacks \in Seq(Feedback) /\ Len(feedbacks) \in Nat
      /\ DOMAIN feedbacks = 1 .. Len(feedbacks)
      /\ passes \in Seq(Nat) /\ Len(passes) \in Nat
  BY LenProperties DEF LoopInv, TablesGood
<1>4. new \in Feedback
  BY <1>1, <1>3 DEF LoopInv, TablesGood, Feedback, FieldVersion
<1>5. FeedbackOf(c) = {}  BY <1>1 DEF LoopInv, OneEach, Fed
<1>8. KillsHeard'
  <2> SUFFICES ASSUME NEW d \in kills  PROVE (~Open(d) \/ Missed("KILL", d))'
    BY <1>2 DEF KillsHeard
  <2>1. ~Open(d) \/ Missed("KILL", d)
    BY HeardBefore DEF OnMitigated
  <2> QED  BY <2>1, <1>2 DEF Open, Missed
<1>6. CASE caseKind = "DELIVERY" /\ UNCHANGED feedbacks
  <2>1. TablesGood' /\ CallbackGood' /\ MissedGood'
    BY <1>2, <1>6 DEF LoopInv, TablesGood, CallbackGood, MissedGood, Missed, NoCallback
  <2>3. \A d : ~Fed(d) /\ ~Fed(d)'  BY <1>2, <1>6 DEF Fed
  <2>4. /\ \A d : FeedbackOf(d)' = FeedbackOf(d)
        /\ \A p : ~Under("PASS", p) /\ ~Under("PASS", p)'
    BY <1>1, <1>2, <1>6 DEF FeedbackOf, Under, NoCallback
  <2>5. OneEach'  BY <1>2, <1>6, <2>3, <2>4 DEF LoopInv, OneEach
  <2>6. ResolvedRight'  BY <1>2, <1>6, <2>4, NothingResolved DEF Missed
  <2> QED  BY <2>1, <1>8, <2>5, <2>6 DEF LoopInv
<1>7. CASE caseKind # "DELIVERY" /\ feedbacks' = Append(feedbacks, new)
  <2> HIDE DEF new
  <2>0. PICK n : n = Len(feedbacks) + 1  OBVIOUS
  <2>1. /\ feedbacks' \in Seq(Feedback) /\ DOMAIN feedbacks' = DOMAIN feedbacks \cup {n}
        /\ n \notin DOMAIN feedbacks
        /\ \A f \in DOMAIN feedbacks : feedbacks'[f] = feedbacks[f]
        /\ feedbacks'[n] = new
    BY <1>3, <1>4, <1>7, <2>0, AppendProperties
  <2>2. new.case = c /\ new.status = "OPEN" /\ new.since = Len(passes)  BY DEF new
  <2>3. TablesGood' /\ CallbackGood' /\ MissedGood'
    BY <1>2, <2>1 DEF LoopInv, TablesGood, CallbackGood, MissedGood, Missed, NoCallback
  <2>5. OneEach'
    <3>1. \A d : d # c => (Fed(d)' <=> Fed(d)) /\ FeedbackOf(d)' = FeedbackOf(d)
      <4> TAKE d
      <4> HAVE d # c
      <4>1. ~Under("MITIGATED", d) /\ ~Under("MITIGATED", d)'
        BY <1>1, <1>2 DEF Under, NoCallback
      <4>2. FeedbackOf(d)' = FeedbackOf(d)  BY <2>1, <2>2 DEF FeedbackOf
      <4> QED  BY <4>1, <4>2, <1>2 DEF Fed, Missed
    <3>2. Fed(c)'  BY <1>1, <1>2, <1>7 DEF Fed, Missed, Under, NoCallback
    <3>3. FeedbackOf(c)' = {n}  BY <1>2, <1>5, <2>1, <2>2 DEF FeedbackOf
    <3>4. \A f \in DOMAIN feedbacks' : feedbacks'[f].case \in DOMAIN cases
      BY <1>1, <2>1, <2>2 DEF LoopInv, OneEach
    <3>5. \A d \in DOMAIN cases : Fed(d)' => \E f \in DOMAIN feedbacks' : FeedbackOf(d)' = {f}
      BY <2>1, <3>1, <3>3 DEF LoopInv, OneEach
    <3>6. \A d \in DOMAIN cases : ~Fed(d)' => FeedbackOf(d)' = {}
      BY <3>1, <3>2 DEF LoopInv, OneEach
    <3> QED  BY <1>2, <3>4, <3>5, <3>6 DEF OneEach
  <2>6. ResolvedRight'
    <3>1. \A p : ~Under("PASS", p) /\ ~Under("PASS", p)'
      BY <1>1, <1>2 DEF Under, NoCallback
    <3>2. \A f \in DOMAIN feedbacks : Resolved(f)' <=> Resolved(f)
      BY <2>1 DEF Resolved
    <3>3. \A f \in DOMAIN feedbacks : \A p : Answers(p, f)' <=> Answers(p, f)
      BY <1>2, <2>1 DEF Answers
    <3>4. ~Resolved(n)' /\ \A p : ~Answers(p, n)'
      BY <1>2, <1>3, <2>1, <2>2 DEF Resolved, Answers
    <3>5. \A f \in DOMAIN feedbacks : Resolved(f) => \E p \in DOMAIN passes : Answers(p, f)
      BY DEF LoopInv, ResolvedRight
    <3>6. NewestFirst'
      <4> SUFFICES ASSUME NEW f \in DOMAIN feedbacks', NEW g \in DOMAIN feedbacks',
                          f < g, Resolved(f)', ~Resolved(g)'
                   PROVE  \E p \in DOMAIN passes : Answers(p, f)' /\ ~Answers(p, g)'
        BY <1>2 DEF NewestFirst
      <4>1. f \in DOMAIN feedbacks /\ Resolved(f)  BY <2>1, <3>2, <3>4
      <4>2. CASE g = n  BY <4>1, <4>2, <3>3, <3>4, <3>5
      <4>3. CASE g \in DOMAIN feedbacks
        BY <4>1, <4>3, <3>2, <3>3 DEF LoopInv, ResolvedRight, NewestFirst
      <4> QED  BY <4>2, <4>3, <2>1
    <3>7. \A f \in DOMAIN feedbacks' :
            /\ feedbacks'[f].since <= Len(passes)
            /\ Resolved(f)' => \E p \in DOMAIN passes : Answers(p, f)'
            /\ \A p \in DOMAIN passes :
                 Answers(p, f)' /\ ~Missed("PASS", p)' /\ ~Under("PASS", p)' => Resolved(f)'
      <4> TAKE f \in DOMAIN feedbacks'
      <4>1. CASE f = n  BY <1>3, <2>1, <2>2, <3>4, <4>1
      <4>2. CASE f \in DOMAIN feedbacks
        BY <1>2, <2>1, <3>1, <3>2, <3>3, <4>2 DEF LoopInv, ResolvedRight, Missed
      <4> QED  BY <4>1, <4>2, <2>1
    <3> QED  BY <1>2, <3>6, <3>7 DEF ResolvedRight
  <2> QED  BY <2>3, <1>8, <2>5, <2>6 DEF LoopInv
<1> QED  BY <1>0, <1>6, <1>7 DEF OnMitigated

\* Feedbacks that change status only.
LEMMA StatusOnly ==
  ASSUME LoopInv, DOMAIN feedbacks' = DOMAIN feedbacks, feedbacks' \in Seq(Feedback),
         \A f \in DOMAIN feedbacks :
           /\ feedbacks'[f].case = feedbacks[f].case
           /\ feedbacks'[f].since = feedbacks[f].since
           /\ feedbacks'[f].version = feedbacks[f].version,
         callback.what \in {"NONE", "PASS"}, callback' \in {callback, NoCallback},
         UNCHANGED <<caseKind, cases, newest, deployed, kills, passes, missed>>
  PROVE  TablesGood' /\ CallbackGood' /\ MissedGood' /\ KillsHeard' /\ OneEach'
<1>1. TablesGood' /\ CallbackGood' /\ MissedGood'
  BY DEF LoopInv, TablesGood, CallbackGood, MissedGood, Missed, NoCallback
<1>2. KillsHeard'
  <2> SUFFICES ASSUME NEW d \in kills  PROVE (~Open(d) \/ Missed("KILL", d))'
    BY DEF KillsHeard
  <2>1. ~Open(d) \/ Missed("KILL", d)  BY HeardBefore
  <2> QED  BY <2>1 DEF Open, Missed
<1>3. \A d : Fed(d)' <=> Fed(d)  BY DEF Fed, Missed, Under, NoCallback
<1>4. \A d : FeedbackOf(d)' = FeedbackOf(d)  BY DEF FeedbackOf
<1>5. OneEach'  BY <1>3, <1>4 DEF LoopInv, OneEach
<1> QED  BY <1>1, <1>2, <1>5

LEMMA StepAcceptFeedback ==
  ASSUME LoopInv, NEW f \in DOMAIN feedbacks, AcceptFeedback(f)
  PROVE  LoopInv'
<1>1. feedbacks \in Seq(Feedback) /\ feedbacks[f] \in Feedback
  BY ElementOfSeq, LenProperties DEF LoopInv, TablesGood
<1> DEFINE row == [feedbacks[f] EXCEPT !.status = "ACCEPTED"]
<1>2. /\ row \in Feedback /\ row.case = feedbacks[f].case /\ row.since = feedbacks[f].since
      /\ row.version = feedbacks[f].version /\ row.status = "ACCEPTED"
  BY <1>1 DEF Feedback
<1>3. /\ feedbacks' = [feedbacks EXCEPT ![f] = row] /\ feedbacks[f].status = "OPEN"
      /\ callback = NoCallback
      /\ UNCHANGED <<caseKind, cases, newest, deployed, kills, passes, callback, missed>>
  BY DEF AcceptFeedback
<1> HIDE DEF row
<1>4. feedbacks' \in Seq(Feedback) /\ DOMAIN feedbacks' = DOMAIN feedbacks
  BY <1>1, <1>2, <1>3, ExceptSeq
<1>5. feedbacks'[f] = row /\ \A g \in DOMAIN feedbacks \ {f} : feedbacks'[g] = feedbacks[g]
  BY <1>1, <1>3
<1>6. TablesGood' /\ CallbackGood' /\ MissedGood' /\ KillsHeard' /\ OneEach'
  BY <1>2, <1>3, <1>4, <1>5, StatusOnly DEF NoCallback
<1>7. \A g \in DOMAIN feedbacks :
        (Resolved(g)' <=> Resolved(g)) /\ feedbacks'[g].since = feedbacks[g].since
  BY <1>2, <1>3, <1>5 DEF Resolved
<1>8. \A g \in DOMAIN feedbacks : \A p : Answers(p, g)' <=> Answers(p, g)
  BY <1>2, <1>3, <1>5 DEF Answers
<1>9. NewestFirst'
  BY <1>3, <1>4, <1>7, <1>8 DEF LoopInv, ResolvedRight, NewestFirst
<1>10. ResolvedRight'
  BY <1>3, <1>4, <1>7, <1>8, <1>9 DEF LoopInv, ResolvedRight, Missed, Under
<1> QED  BY <1>6, <1>10 DEF LoopInv

LEMMA StepJudge ==
  ASSUME LoopInv, NEW v \in 1 .. newest, JudgeG5(v)
  PROVE  LoopInv'
<1> DEFINE n == Len(passes) + 1
<1>1. /\ passes \in Seq(Nat) /\ Len(passes) \in Nat /\ v \in Nat
      /\ feedbacks \in Seq(Feedback)
  BY LenProperties DEF LoopInv, TablesGood
<1>2. /\ passes' = Append(passes, v) /\ callback' = [what |-> "PASS", of |-> n]
      /\ callback = NoCallback
      /\ UNCHANGED <<caseKind, cases, newest, deployed, feedbacks, kills, missed>>
  BY DEF JudgeG5
<1>3. /\ passes' \in Seq(Nat) /\ Len(passes') = n
      /\ \A p \in 1 .. Len(passes) : passes'[p] = passes[p]
  BY <1>1, <1>2, AppendProperties
<1>4. TablesGood'  BY <1>1, <1>2, <1>3 DEF LoopInv, TablesGood
<1>5. ~Missed("PASS", n)  BY <1>1 DEF LoopInv, MissedGood
<1>6. CallbackGood'
  <2>1. \A f \in DOMAIN feedbacks : feedbacks[f].since < n
    BY <1>1, FeedbackTyped DEF LoopInv, ResolvedRight
  <2> QED  BY <1>1, <1>2, <1>3, <1>5, <2>1 DEF CallbackGood, Missed
<1>7. MissedGood'  BY <1>1, <1>2, <1>3 DEF LoopInv, MissedGood, Missed
<1>8. KillsHeard'
  BY <1>2 DEF LoopInv, KillsHeard, Missed, Under, Open, NoCallback
<1>9. OneEach'
  <2>1. \A d : Fed(d)' <=> Fed(d)  BY <1>2 DEF Fed, Missed, Under, NoCallback
  <2>2. \A d : FeedbackOf(d)' = FeedbackOf(d)  BY <1>2 DEF FeedbackOf
  <2> QED  BY <1>2, <2>1, <2>2 DEF LoopInv, OneEach
<1>10. ResolvedRight'
  <2>1. \A p : ~Under("PASS", p) /\ (Under("PASS", p)' <=> p = n)
    BY <1>2 DEF Under, NoCallback
  <2>2. \A f \in DOMAIN feedbacks : feedbacks[f].since \in Nat
    BY FeedbackTyped
  <2>3. DOMAIN passes' = DOMAIN passes \cup {n} /\ DOMAIN passes = 1 .. Len(passes)
    BY <1>1, <1>3, LenProperties
  <2>4. \A f \in DOMAIN feedbacks, p \in DOMAIN passes : Answers(p, f)' <=> Answers(p, f)
    BY <1>1, <1>2, <1>3, <2>2, <2>3 DEF Answers
  <2>5. \A f : Resolved(f)' <=> Resolved(f)  BY <1>2 DEF Resolved
  <2>6. NewestFirst'
    BY <1>2, <2>3, <2>4, <2>5 DEF LoopInv, ResolvedRight, NewestFirst
  <2>7. \A f \in DOMAIN feedbacks :
          /\ feedbacks[f].since <= Len(passes')
          /\ Resolved(f)' => \E p \in DOMAIN passes' : Answers(p, f)'
          /\ \A p \in DOMAIN passes' :
               Answers(p, f)' /\ ~Missed("PASS", p)' /\ ~Under("PASS", p)' => Resolved(f)'
    <3> TAKE f \in DOMAIN feedbacks
    <3>1. feedbacks[f].since <= Len(passes')
      BY <1>1, <1>3, <2>2 DEF LoopInv, ResolvedRight
    <3>2. Resolved(f)' => \E p \in DOMAIN passes' : Answers(p, f)'
      BY <2>3, <2>4, <2>5 DEF LoopInv, ResolvedRight
    <3>3. ASSUME NEW p \in DOMAIN passes', Answers(p, f)', ~Missed("PASS", p)',
                 ~Under("PASS", p)'
          PROVE  Resolved(f)'
      <4>1. p \in DOMAIN passes  BY <2>1, <2>3, <3>3
      <4>2. Answers(p, f) /\ ~Missed("PASS", p) /\ ~Under("PASS", p)
        BY <1>2, <2>1, <2>4, <3>3, <4>1 DEF Missed
      <4> QED  BY <4>1, <4>2, <2>5 DEF LoopInv, ResolvedRight
    <3> QED  BY <3>1, <3>2, <3>3
  <2> QED  BY <1>2, <2>6, <2>7 DEF ResolvedRight
<1> QED  BY <1>4, <1>6, <1>7, <1>8, <1>9, <1>10 DEF LoopInv

\* The greatest number of a bounded set.
LEMMA Greatest ==
  ASSUME NEW n \in Nat, NEW S \in SUBSET (1 .. n), S # {}
  PROVE  Max(S) \in S /\ \A y \in S : y <= Max(S)
<1> DEFINE D == {n - y : y \in S}
<1>1. D \subseteq Nat /\ D # {}
  <2>1. \A y \in S : n - y \in Nat  OBVIOUS
  <2>2. D \subseteq Nat  BY <2>1
  <2> QED  BY <2>2
<1> HIDE DEF D
<1>2. PICK m \in D : \A k \in D : <<k, m>> \notin OpToRel(<, Nat)
  BY <1>1, WFMin, NatLessThanWellFounded, Zenon
<1>3. \A k \in D : ~(k < m)  BY <1>1, <1>2, Zenon DEF OpToRel
<1>4. PICK x \in S : m = n - x  BY <1>2 DEF D
<1>5. \A y \in S : n - y \in D  BY DEF D
<1>6. \A y \in S : x >= y
  <2> TAKE y \in S
  <2>1. ~(n - y < n - x)  BY <1>3, <1>4, <1>5
  <2> QED  BY <2>1
<1>7. Max(S) \in S /\ \A y \in S : Max(S) >= y  BY <1>6 DEF Max
<1> QED  BY <1>7

LEMMA StepPass ==
  ASSUME LoopInv, OnG5Pass
  PROVE  LoopInv'
<1> DEFINE p0 == callback.of
<1>1. /\ feedbacks \in Seq(Feedback) /\ Len(feedbacks) \in Nat
      /\ DOMAIN feedbacks = 1 .. Len(feedbacks)
      /\ passes \in Seq(Nat) /\ Len(passes) \in Nat /\ DOMAIN passes = 1 .. Len(passes)
  BY LenProperties DEF LoopInv, TablesGood
<1>2. /\ p0 = Len(passes) /\ p0 > 0 /\ ~Missed("PASS", p0) /\ callback.what = "PASS"
      /\ \A f \in DOMAIN feedbacks : feedbacks[f].since < p0
  BY DEF OnG5Pass, LoopInv, CallbackGood, TablesGood
<1>3. UNCHANGED <<caseKind, cases, newest, deployed, kills, passes, missed>>
  BY DEF OnG5Pass
<1>4. p0 \in DOMAIN passes /\ passes[p0] \in Nat  BY <1>1, <1>2, ElementOfSeq
<1>5. \A f \in DOMAIN feedbacks :
        f \in Resolvable <=> ~Resolved(f) /\ Answers(p0, f)
  <2> TAKE f \in DOMAIN feedbacks
  <2>1. p0 \in feedbacks[f].since + 1 .. Len(passes)  BY <1>1, <1>2, FeedbackTyped
  <2> QED  BY <2>1 DEF Resolvable, ResolvedBy, Resolved, Answers
<1>6. Under("PASS", p0) /\ \A p : Under("PASS", p) => p = p0
  BY <1>2 DEF Under, LoopInv, TablesGood
<1>7. CASE Resolvable # {} /\ UNCHANGED callback
           /\ feedbacks' = [feedbacks EXCEPT ![Max(Resolvable)].status = "RESOLVED"]
  <2>0. Resolvable \in SUBSET (1 .. Len(feedbacks))  BY <1>1 DEF Resolvable
  <2>1. PICK f0 : f0 = Max(Resolvable)  OBVIOUS
  <2>2. /\ f0 \in Resolvable /\ f0 \in DOMAIN feedbacks
        /\ \A g \in Resolvable : g <= f0
    BY <1>1, <1>7, <2>0, <2>1, Greatest
  <2> DEFINE row == [feedbacks[f0] EXCEPT !.status = "RESOLVED"]
  <2>3. feedbacks[f0] \in Feedback  BY <2>2, FeedbackTyped
  <2>4. /\ row \in Feedback /\ row.case = feedbacks[f0].case
        /\ row.since = feedbacks[f0].since /\ row.version = feedbacks[f0].version
        /\ row.status = "RESOLVED"
    BY <2>3 DEF Feedback
  <2>5. feedbacks' = [feedbacks EXCEPT ![f0] = row]  BY <1>7, <2>1
  <2> HIDE DEF row
  <2>6. feedbacks' \in Seq(Feedback) /\ DOMAIN feedbacks' = DOMAIN feedbacks
    BY <1>1, <2>2, <2>4, <2>5, ExceptSeq
  <2>7. feedbacks'[f0] = row /\ \A g \in DOMAIN feedbacks \ {f0} : feedbacks'[g] = feedbacks[g]
    BY <2>2, <2>5
  <2>8. TablesGood' /\ CallbackGood' /\ MissedGood' /\ KillsHeard' /\ OneEach'
    BY <1>2, <1>3, <1>7, <2>4, <2>6, <2>7, StatusOnly
  <2>9. \A g \in DOMAIN feedbacks : /\ Resolved(g)' <=> Resolved(g) \/ g = f0
                                    /\ feedbacks'[g].since = feedbacks[g].since
    BY <2>4, <2>7 DEF Resolved
  <2>10. \A g \in DOMAIN feedbacks : \A p : Answers(p, g)' <=> Answers(p, g)
    BY <1>3, <2>4, <2>7 DEF Answers
  <2>11. Answers(p0, f0)  BY <1>5, <2>2
  <2>12. NewestFirst'
    <3> SUFFICES ASSUME NEW f \in DOMAIN feedbacks, NEW g \in DOMAIN feedbacks,
                        f < g, Resolved(f)', ~Resolved(g)'
                 PROVE  \E p \in DOMAIN passes : Answers(p, f)' /\ ~Answers(p, g)'
      BY <1>3, <2>6 DEF NewestFirst
    <3>1. ~Resolved(g) /\ g # f0  BY <2>9
    <3>2. CASE f = f0
      <4>1. g \notin Resolvable  BY <1>1, <2>2, <3>2
      <4>2. ~Answers(p0, g)  BY <1>5, <3>1, <4>1
      <4> QED  BY <1>4, <2>10, <2>11, <3>2, <4>2
    <3>3. CASE f # f0
      <4>1. Resolved(f)  BY <2>9, <3>3
      <4> QED  BY <2>10, <3>1, <4>1 DEF LoopInv, ResolvedRight, NewestFirst
    <3> QED  BY <3>2, <3>3
  <2>13. \A f \in DOMAIN feedbacks :
           /\ feedbacks'[f].since <= Len(passes)
           /\ Resolved(f)' => \E p \in DOMAIN passes : Answers(p, f)'
           /\ \A p \in DOMAIN passes :
                Answers(p, f)' /\ ~Missed("PASS", p) /\ ~Under("PASS", p) => Resolved(f)'
    BY <1>4, <2>9, <2>10, <2>11 DEF LoopInv, ResolvedRight
  <2>14. ResolvedRight'
    BY <1>3, <1>7, <2>6, <2>12, <2>13 DEF ResolvedRight, Missed, Under
  <2> QED  BY <2>8, <2>14 DEF LoopInv
<1>8. CASE Resolvable = {} /\ callback' = NoCallback /\ UNCHANGED feedbacks
  <2>1. TablesGood' /\ CallbackGood' /\ MissedGood' /\ KillsHeard' /\ OneEach'
    BY <1>1, <1>2, <1>3, <1>8, StatusOnly
  <2>2. /\ \A f : Resolved(f)' <=> Resolved(f)
        /\ \A p, f : Answers(p, f)' <=> Answers(p, f)
    BY <1>3, <1>8 DEF Resolved, Answers
  <2>3. NewestFirst'
    BY <1>3, <1>8, <2>2 DEF LoopInv, ResolvedRight, NewestFirst
  <2>4. \A f \in DOMAIN feedbacks : Answers(p0, f) => Resolved(f)  BY <1>5, <1>8
  <2>5. \A f \in DOMAIN feedbacks, p \in DOMAIN passes :
          Answers(p, f) /\ ~Missed("PASS", p) => Resolved(f)
    BY <1>6, <2>4 DEF LoopInv, ResolvedRight
  <2>6. ResolvedRight'
    BY <1>3, <1>8, <2>2, <2>3, <2>5 DEF LoopInv, ResolvedRight, Missed
  <2> QED  BY <2>1, <2>6 DEF LoopInv
<1> QED  BY <1>7, <1>8 DEF OnG5Pass

LEMMA StepCrash ==
  ASSUME LoopInv, LoopCrash
  PROVE  LoopInv'
<1>1. /\ UNCHANGED <<caseKind, cases, newest, deployed, feedbacks, kills, passes>>
      /\ missed' = missed \cup {callback} /\ callback' = NoCallback
  BY DEF LoopCrash
<1>2. callback = [what |-> callback.what, of |-> callback.of] /\ callback.of \in Nat
  BY DEF LoopInv, TablesGood
<1>3. \A what, of : Missed(what, of)' <=> Missed(what, of) \/ Under(what, of)
  BY <1>1 DEF Missed, Under
<1>4. \A of : ~Under("KILL", of)' /\ ~Under("MITIGATED", of)' /\ ~Under("PASS", of)'
  BY <1>1 DEF Under, NoCallback
<1>5. TablesGood' /\ CallbackGood'
  BY <1>1 DEF LoopInv, TablesGood, CallbackGood, NoCallback
<1>6. MissedGood'
  BY <1>1, <1>2, <1>3 DEF LoopInv, TablesGood, MissedGood, CallbackGood, Under
<1>7. KillsHeard'  BY <1>1, <1>3 DEF LoopInv, KillsHeard, Open
<1>8. \A d : (Fed(d)' <=> Fed(d)) /\ FeedbackOf(d)' = FeedbackOf(d)
  BY <1>1, <1>3, <1>4 DEF Fed, FeedbackOf
<1>9. ResolvedRight'  BY <1>1, <1>3, NothingResolved
<1>10. OneEach'  BY <1>1, <1>8 DEF LoopInv, OneEach
<1> QED  BY <1>5, <1>6, <1>7, <1>9, <1>10 DEF LoopInv

LEMMA LoopInvNext == LoopInv /\ [LoopNext]_loopVars => LoopInv'
<1> SUFFICES ASSUME LoopInv, [LoopNext]_loopVars  PROVE LoopInv'  OBVIOUS
<1>1. ASSUME NEW s \in CaseSignals, Signal(s)  PROVE LoopInv'  BY <1>1, StepSignal
<1>2. ASSUME NEW c \in DOMAIN cases, Acknowledge(c)  PROVE LoopInv'
  BY <1>2, StepAcknowledge
<1>3. ASSUME NEW c \in DOMAIN cases, Decide(c)  PROVE LoopInv'
  <2>1. callback.what = "NONE"  BY <1>3 DEF Decide, NoCallback
  <2>2. PICK status \in {"MITIGATED", "DISMISSED"} : CloseCase(c, status)
    BY <1>3 DEF Decide
  <2> QED  BY <2>1, <2>2, StepClose
<1>4. ASSUME NEW c \in DOMAIN cases, KillIssued(c)  PROVE LoopInv'  BY <1>4, StepKill
<1>5. CASE OnKillIssued  BY <1>5, StepHeardKill
<1>6. CASE OnMitigated  BY <1>6, StepMitigated
<1>7. CASE OnG5Pass  BY <1>7, StepPass
<1>8. ASSUME NEW f \in DOMAIN feedbacks, AcceptFeedback(f)  PROVE LoopInv'
  BY <1>8, StepAcceptFeedback
<1>9. ASSUME NEW v \in 1 .. newest, JudgeG5(v)  PROVE LoopInv'  BY <1>9, StepJudge
<1>10. ASSUME NEW v \in 1 .. newest, DeployVersion(v)  PROVE LoopInv'
  BY <1>10, CasesOnly DEF DeployVersion, LoopInv, TablesGood, Open
<1>11. CASE NewVersion
  BY <1>11, CasesOnly DEF NewVersion, LoopInv, TablesGood, Open
<1>12. CASE LoopCrash  BY <1>12, StepCrash
<1>13. CASE UNCHANGED loopVars
  <2>1. TablesGood' /\ CallbackGood' /\ MissedGood' /\ KillsHeard'
    BY <1>13 DEF loopVars, LoopInv, TablesGood, CallbackGood, MissedGood, KillsHeard,
       Missed, Under, Open
  <2>2. /\ \A d : Fed(d)' <=> Fed(d)
        /\ \A d : FeedbackOf(d)' = FeedbackOf(d)
    BY <1>13 DEF loopVars, Fed, FeedbackOf, Missed, Under
  <2>3. OneEach'  BY <1>13, <2>2 DEF loopVars, LoopInv, OneEach
  <2>4. ResolvedRight'  BY <1>13, NothingResolved DEF loopVars, Missed, Under
  <2> QED  BY <2>1, <2>3, <2>4 DEF LoopInv
<1> QED
  BY <1>1, <1>2, <1>3, <1>4, <1>5, <1>6, <1>7, <1>8, <1>9, <1>10, <1>11, <1>12, <1>13
  DEF LoopNext

LEMMA LoopInvInit == LoopInit => LoopInv
<1> SUFFICES ASSUME LoopInit  PROVE LoopInv  OBVIOUS
<1>1. /\ cases = << >> /\ feedbacks = << >> /\ passes = << >> /\ kills = {} /\ missed = {}
      /\ newest = 1 /\ deployed = 0 /\ callback = NoCallback
  BY DEF LoopInit
<1>2. TablesGood  BY <1>1, EmptySeq DEF TablesGood, NoCallback
<1>3. CallbackGood /\ MissedGood /\ KillsHeard  
  BY <1>1 DEF CallbackGood, MissedGood, KillsHeard, Missed, NoCallback
<1>4. OneEach /\ ResolvedRight  BY <1>1 DEF OneEach, ResolvedRight, NewestFirst
<1> QED  BY <1>2, <1>3, <1>4 DEF LoopInv

LEMMA LoopInvCloses == LoopInv => LoopCloses
<1> SUFFICES ASSUME LoopInv, callback = NoCallback  PROVE
      /\ \A c \in kills : ~Open(c) \/ Missed("KILL", c)
      /\ \A c \in DOMAIN cases :
           Cardinality({f \in DOMAIN feedbacks : feedbacks[f].case = c}) =
             IF cases[c].status = "MITIGATED" /\ caseKind # "DELIVERY" /\ ~Missed("MITIGATED", c)
             THEN 1 ELSE 0
      /\ \A f \in DOMAIN feedbacks :
           /\ Resolved(f) => \E p \in DOMAIN passes : Answers(p, f)
           /\ (\E p \in DOMAIN passes : Answers(p, f) /\ ~Missed("PASS", p)) => Resolved(f)
      /\ NewestFirst
  BY DEF LoopCloses, NewestFirst
<1>1. \A of : ~Under("KILL", of) /\ ~Under("MITIGATED", of) /\ ~Under("PASS", of)
  BY DEF Under, NoCallback
<1>2. \A c \in kills : ~Open(c) \/ Missed("KILL", c)  BY <1>1 DEF LoopInv, KillsHeard
<1>3. ASSUME NEW c \in DOMAIN cases
      PROVE  Cardinality({f \in DOMAIN feedbacks : feedbacks[f].case = c}) =
             IF cases[c].status = "MITIGATED" /\ caseKind # "DELIVERY" /\ ~Missed("MITIGATED", c)
             THEN 1 ELSE 0
  <2>1. CASE Fed(c)
    <3>1. PICK f \in DOMAIN feedbacks : FeedbackOf(c) = {f}  BY <2>1 DEF LoopInv, OneEach
    <3>2. Cardinality(FeedbackOf(c)) = 1  BY <3>1, FS_Singleton
    <3> QED  BY <2>1, <3>2 DEF Fed, FeedbackOf
  <2>2. CASE ~Fed(c)
    <3>1. FeedbackOf(c) = {}  BY <2>2 DEF LoopInv, OneEach
    <3>2. Cardinality(FeedbackOf(c)) = 0  BY <3>1, FS_EmptySet
    <3> QED  BY <1>1, <2>2, <3>2 DEF Fed, FeedbackOf
  <2> QED  BY <2>1, <2>2
<1> QED  BY <1>1, <1>2, <1>3 DEF LoopInv, ResolvedRight

(* An issued kill closes the case it names, and a mitigated case has one   *)
(* feedback, unless the callback died with the process.  A feedback is     *)
(* resolved only by a later version that passes G5 after it, and always by *)
(* one whose callback was not cut short; where it was, the newest were     *)
(* resolved first.  Whatever people, kills, deployments and verdicts come  *)
(* in which order (anomaly.service.ts, feedback.service.ts).               *)
THEOREM LoopAlwaysCloses == LoopSpec => []LoopCloses
<1> QED  BY LoopInvInit, LoopInvNext, LoopInvCloses, PTL DEF LoopSpec

-----------------------------------------------------------------------------
(* Types of the loop *)

FewKept(s) == \A c \in DOMAIN s : Len(s[c].signals) <= MaxSignals

LoopTyped ==
  /\ caseKind \in CaseKinds
  /\ FewKept(cases)
  /\ newest <= MaxVersion /\ deployed <= newest

\* A case keeps no more signals than it may.
LEMMA KeptFew ==
  ASSUME NEW signals \in Seq(CaseSignals)
  PROVE  Len(Kept(signals)) <= MaxSignals
<1>0. MaxSignals \in Nat \ {0} /\ Len(signals) \in Nat  BY LoopConstants, LenProperties
<1>1. CASE Len(signals) <= MaxSignals  BY <1>1 DEF Kept
<1>2. CASE Len(signals) > MaxSignals
  <2>1. Len(signals) - MaxSignals + 1 \in 1 .. Len(signals)  BY <1>0, <1>2
  <2>2. Kept(signals) = SubSeq(signals, Len(signals) - MaxSignals + 1, Len(signals))
    BY <1>0, <1>2 DEF Kept
  <2>3. Len(Kept(signals)) = Len(signals) - (Len(signals) - MaxSignals + 1) + 1
    BY <1>0, <2>1, <2>2, SubSeqProperties
  <2> QED  BY <1>0, <2>3
<1> QED  BY <1>0, <1>1, <1>2

LEMMA AddedFew ==
  ASSUME NEW row \in [status: {"OPEN", "ACKNOWLEDGED", "MITIGATED", "DISMISSED"},
                      severity: Nat, signals: Seq(CaseSignals)],
         NEW s \in CaseSignals
  PROVE  Len(AddSignal(row, s).signals) <= MaxSignals
<1>1. Append(row.signals, s) \in Seq(CaseSignals)  BY AppendProperties
<1>2. AddSignal(row, s).signals = Kept(Append(row.signals, s))  BY DEF AddSignal
<1> QED  BY <1>1, <1>2, KeptFew

LEMMA LoopTypedNext ==
  LoopInv /\ LoopTyped /\ [LoopNext]_loopVars => LoopTyped'
<1> SUFFICES ASSUME LoopInv, LoopTyped, [LoopNext]_loopVars  PROVE LoopTyped'  OBVIOUS
<1>0. /\ cases \in Seq(Case) /\ \A c \in DOMAIN cases : cases[c] \in Case
      /\ newest \in Nat /\ deployed \in Nat /\ MaxVersion \in Nat
      /\ DOMAIN cases = 1 .. Len(cases) /\ Len(cases) \in Nat
  BY ElementOfSeq, LenProperties, LoopConstants DEF LoopInv, TablesGood
<1>1. ASSUME FewKept(cases'), UNCHANGED <<caseKind, newest, deployed>>  PROVE LoopTyped'
  BY <1>1 DEF LoopTyped
<1>2. ASSUME UNCHANGED <<caseKind, newest, deployed, cases>>  PROVE LoopTyped'
  BY <1>1, <1>2 DEF LoopTyped
<1>3. ASSUME NEW c \in DOMAIN cases, NEW row, cases' = [cases EXCEPT ![c] = row],
             Len(row.signals) <= MaxSignals
      PROVE  FewKept(cases')
  BY <1>0, <1>3 DEF FewKept, LoopTyped
<1>4. ASSUME NEW s \in CaseSignals, Signal(s)  PROVE LoopTyped'
  <2>1. ASSUME NEW c \in DOMAIN cases, cases' = [cases EXCEPT ![c] = AddSignal(@, s)]
        PROVE  FewKept(cases')
    <3>1. cases' = [cases EXCEPT ![c] = AddSignal(cases[c], s)]  BY <2>1
    <3>2. cases[c] \in [status: {"OPEN", "ACKNOWLEDGED", "MITIGATED", "DISMISSED"},
                         severity: Nat, signals: Seq(CaseSignals)]
      <4>1. cases[c] \in Case  BY <1>0
      <4> QED  BY <4>1 DEF Case
    <3>3. Len(AddSignal(cases[c], s).signals) <= MaxSignals  BY <3>2, AddedFew
    <3> QED  BY <1>3, <3>1, <3>3
  <2>2. ASSUME cases' = Append(cases, AddSignal(
                 [status |-> "OPEN", severity |-> 0, signals |-> << >>], s))
        PROVE  FewKept(cases')
    <3> DEFINE new == AddSignal([status |-> "OPEN", severity |-> 0, signals |-> << >>], s)
    <3>1. Len(new.signals) <= MaxSignals  BY AddedFew, EmptySeq
    <3> HIDE DEF new
    <3>2. \A c \in DOMAIN cases' : cases'[c] = new \/ (c \in DOMAIN cases /\ cases'[c] = cases[c])
      BY <1>0, <2>2 DEF new
    <3> QED  BY <3>1, <3>2 DEF FewKept, LoopTyped
  <2> QED  BY <1>1, <1>4, <2>1, <2>2 DEF Signal
<1>5. ASSUME NEW c \in DOMAIN cases, Acknowledge(c)  PROVE LoopTyped'
  <2>1. cases' = [cases EXCEPT ![c] = [cases[c] EXCEPT !.status = "ACKNOWLEDGED"]]
    BY <1>5 DEF Acknowledge
  <2>2. [cases[c] EXCEPT !.status = "ACKNOWLEDGED"].signals = cases[c].signals  BY <1>0 DEF Case
  <2>3. Len(cases[c].signals) <= MaxSignals  BY DEF LoopTyped, FewKept
  <2>4. FewKept(cases')  BY <1>3, <2>1, <2>2, <2>3
  <2> QED  BY <1>1, <1>5, <2>4 DEF Acknowledge
<1>6. ASSUME NEW c \in DOMAIN cases, NEW status, CloseCase(c, status)  PROVE LoopTyped'
  <2> DEFINE row == [cases[c] EXCEPT !.status = status, !.signals = << >>]
  <2>1. cases' = [cases EXCEPT ![c] = row]  BY <1>6 DEF CloseCase
  <2>2. row.signals = << >>  BY <1>0 DEF Case
  <2>3. Len(row.signals) <= MaxSignals  BY <2>2, LoopConstants
  <2> HIDE DEF row
  <2>4. FewKept(cases')  BY <1>3, <2>1, <2>3
  <2> QED  BY <1>1, <1>6, <2>4 DEF CloseCase
<1>7. ASSUME NEW c \in DOMAIN cases, Decide(c)  PROVE LoopTyped'  BY <1>6, <1>7 DEF Decide
<1>8. ASSUME NEW c \in DOMAIN cases, KillIssued(c)  PROVE LoopTyped'
  BY <1>2, <1>8 DEF KillIssued
<1>9. CASE OnKillIssued
  <2>1. callback.of \in DOMAIN cases
    BY <1>9 DEF OnKillIssued, LoopInv, TablesGood, CallbackGood
  <2> QED  BY <1>2, <1>6, <1>9, <2>1 DEF OnKillIssued
<1>10. CASE OnMitigated \/ OnG5Pass \/ LoopCrash \/ UNCHANGED loopVars
  BY <1>2, <1>10 DEF OnMitigated, OnG5Pass, LoopCrash, loopVars
<1>11. ASSUME NEW f \in DOMAIN feedbacks, AcceptFeedback(f)  PROVE LoopTyped'
  BY <1>2, <1>11 DEF AcceptFeedback
<1>12. ASSUME NEW v \in 1 .. newest, JudgeG5(v)  PROVE LoopTyped'
  BY <1>2, <1>12 DEF JudgeG5
<1>13. ASSUME NEW v \in 1 .. newest, DeployVersion(v)  PROVE LoopTyped'
  BY <1>0, <1>13 DEF DeployVersion, LoopTyped
<1>14. CASE NewVersion  BY <1>0, <1>14 DEF NewVersion, LoopTyped
<1> QED
  BY <1>4, <1>5, <1>7, <1>8, <1>9, <1>10, <1>11, <1>12, <1>13, <1>14 DEF LoopNext

LEMMA LoopTypedInit == LoopInit => LoopTyped
<1> SUFFICES ASSUME LoopInit  PROVE LoopTyped  OBVIOUS
<1>1. /\ cases = << >> /\ newest = 1 /\ deployed = 0 /\ caseKind \in CaseKinds
  BY DEF LoopInit
<1>2. DOMAIN cases = {}  BY <1>1
<1> QED  BY <1>1, <1>2, LoopConstants DEF LoopTyped, FewKept

\* A case keeps at most MAX_SIGNALS signals and has a severity, a feedback is about a
\* case, and the version in the field is in the registry.
THEOREM LoopAlwaysTyped == LoopSpec => []LoopTypeOK
<1>1. LoopInit => LoopInv /\ LoopTyped  BY LoopInvInit, LoopTypedInit
<1>2. (LoopInv /\ LoopTyped) /\ [LoopNext]_loopVars => (LoopInv /\ LoopTyped)'
  BY LoopInvNext, LoopTypedNext
<1>3. LoopInv /\ LoopTyped => LoopTypeOK
  <2> SUFFICES ASSUME LoopInv, LoopTyped  PROVE LoopTypeOK  OBVIOUS
  <2>1. \A c \in DOMAIN cases : cases[c] \in Case
    BY ElementOfSeq, LenProperties DEF LoopInv, TablesGood
  <2>2. \A c \in DOMAIN cases : Len(cases[c].signals) \in Nat
    BY <2>1, LenProperties DEF Case
  <2>3. \A f \in DOMAIN feedbacks : feedbacks[f] \in Feedback  BY FeedbackTyped
  <2>4. newest \in Nat \ {0} /\ deployed \in Nat /\ kills \subseteq DOMAIN cases
        /\ MaxSignals \in Nat /\ MaxVersion \in Nat
    BY LoopConstants DEF LoopInv, TablesGood
  <2>5. \A c \in DOMAIN cases : Len(cases[c].signals) \in 0 .. MaxSignals
    BY <2>2, <2>4 DEF LoopTyped, FewKept
  <2>6. deployed \in 0 .. newest /\ newest \in 1 .. MaxVersion  BY <2>4 DEF LoopTyped
  <2>7. \A f \in DOMAIN feedbacks : feedbacks[f].case \in DOMAIN cases  BY DEF LoopInv, OneEach
  <2> QED
    BY <2>1, <2>3, <2>4, <2>5, <2>6, <2>7 DEF LoopTypeOK, LoopTyped, Case, Feedback
<1> QED  BY <1>1, <1>2, <1>3, PTL DEF LoopSpec

-----------------------------------------------------------------------------
(* Severity *)

Vins(signals) == {s.vin : s \in ToSet(signals)}

Severe(signals) ==
  \/ \E s \in ToSet(signals) : s.severity = 2
  \/ /\ caseKind = "FEATURE_FAULT"
     /\ Cardinality(Vins(signals)) >= ManyAsilB
     /\ Cardinality(Vins(signals)) >= ManyVehicles \/ 1 .. newest \cap SafetyVersions # {}

SevereKept ==
  \A c \in DOMAIN cases : Open(c) =>
    /\ cases[c].severity = 2 => Severe(cases[c].signals)
    /\ cases[c].severity = 1 => Reported(cases[c].signals)

LEMMA VinsFinite ==
  ASSUME NEW signals \in Seq(CaseSignals)
  PROVE  IsFiniteSet(Vins(signals)) /\ Cardinality(Vins(signals)) \in Nat
<1>1. DOMAIN signals = 1 .. Len(signals) /\ Len(signals) \in Nat  BY LenProperties
<1>2. IsFiniteSet(DOMAIN signals)  BY <1>1, FS_Interval
<1> DEFINE f == [i \in DOMAIN signals |-> signals[i].vin]
<1>3. f \in Surjection(DOMAIN signals, Vins(signals))
  BY DEF Surjection, Vins, ToSet
<1> HIDE DEF f
<1> QED  BY <1>2, <1>3, FS_Surjection, FS_CardinalityType

LEMMA JudgedSevere ==
  ASSUME TablesGood, NEW signals \in Seq(CaseSignals), signals # << >>
  PROVE  /\ ClassifyAnomaly(signals) = 2 => Severe(signals)
         /\ ClassifyAnomaly(signals) = 1 => Reported(signals)
<1>1. Cardinality(Vins(signals)) \in Nat  BY VinsFinite
<1>2. newest \in 1 .. newest  BY DEF TablesGood
<1>3. ManyAsilB \in Nat /\ ManyVehicles \in Nat /\ ManyAsilB <= ManyVehicles
  BY LoopConstants
<1> QED
  BY <1>1, <1>2, <1>3, MaxSeverity DEF ClassifyAnomaly, Severe, Vins

LEMMA StaysSevere ==
  ASSUME TablesGood, NEW signals \in Seq(CaseSignals), NEW s \in CaseSignals,
         Severe(signals), ClassifyAnomaly(Append(signals, s)) # 2
  PROVE  newest \notin SafetyVersions /\ 1 .. newest \cap SafetyVersions # {}
<1> DEFINE more == Append(signals, s)
<1>1. more \in Seq(CaseSignals) /\ more # << >>  BY AppendProperties
<1>2. ToSet(signals) \subseteq ToSet(more)
  BY AppendProperties, LenProperties DEF ToSet
<1> HIDE DEF more
<1>3. Vins(signals) \subseteq Vins(more)  BY <1>2 DEF Vins
<1>4. /\ Cardinality(Vins(signals)) \in Nat /\ Cardinality(Vins(more)) \in Nat
      /\ Cardinality(Vins(signals)) <= Cardinality(Vins(more))
  BY <1>1, <1>3, VinsFinite, FS_Subset
<1>5. ManyAsilB \in Nat /\ ManyVehicles \in Nat /\ ManyAsilB <= ManyVehicles
  BY LoopConstants
<1>6. ClassifyAnomaly(more) # 2  BY DEF more
<1>7. /\ Max({x.severity : x \in ToSet(more)}) # 2
      /\ caseKind = "FEATURE_FAULT" =>
           ~(Cardinality(Vins(more)) >= (IF newest \in SafetyVersions THEN ManyAsilB ELSE ManyVehicles))
  BY <1>6 DEF ClassifyAnomaly, Vins
<1>8. ~ \E x \in ToSet(signals) : x.severity = 2  BY <1>1, <1>2, <1>7, MaxSeverity
<1> QED  BY <1>4, <1>5, <1>7, <1>8 DEF Severe

\* A case that gets a signal.
LEMMA SignalSevere ==
  ASSUME TablesGood, NEW row \in [status: {"OPEN", "ACKNOWLEDGED", "MITIGATED", "DISMISSED"},
                      severity: Nat, signals: Seq(CaseSignals)],
         NEW s \in CaseSignals
  PROVE  /\ AddSignal(row, s).severity = 2 => Severe(AddSignal(row, s).signals)
         /\ AddSignal(row, s).severity = 1 => Reported(AddSignal(row, s).signals)
         /\ Len(row.signals) < MaxSignals /\ Reported(row.signals)
            => AddSignal(row, s).severity # 0
         /\ Len(row.signals) < MaxSignals /\ Severe(row.signals)
            /\ AddSignal(row, s).severity # 2
            => newest \notin SafetyVersions /\ 1 .. newest \cap SafetyVersions # {}
<1> DEFINE more == Append(row.signals, s)
<1>1. more \in Seq(CaseSignals) /\ more # << >> /\ Len(more) = Len(row.signals) + 1
  BY AppendProperties
<1>2. Kept(more) \in Seq(CaseSignals) /\ Kept(more) # << >>  BY <1>1, KeptSignals
<1>3. /\ AddSignal(row, s).severity = ClassifyAnomaly(Kept(more))
      /\ AddSignal(row, s).signals = Kept(more)
  <2>1. AddSignal(row, s) =
          [row EXCEPT !.signals = Kept(more), !.severity = ClassifyAnomaly(Kept(more))]
    BY DEF AddSignal
  <2> HIDE DEF more
  <2> QED  BY <2>1
<1>4. Len(row.signals) < MaxSignals => Kept(more) = more
  BY <1>1, LoopConstants, LenProperties DEF Kept
<1>5. /\ AddSignal(row, s).severity = 2 => Severe(AddSignal(row, s).signals)
      /\ AddSignal(row, s).severity = 1 => Reported(AddSignal(row, s).signals)
  BY <1>2, <1>3, JudgedSevere
<1>6. Len(row.signals) < MaxSignals /\ Reported(row.signals) => AddSignal(row, s).severity # 0
  <2>1. ToSet(row.signals) \subseteq ToSet(more)
    BY AppendProperties, LenProperties DEF ToSet
  <2> HIDE DEF more
  <2>2. Reported(row.signals) => Reported(more)  BY <2>1 DEF Reported
  <2>3. Reported(more) => Max({x.severity : x \in ToSet(more)}) # 0  BY <1>1, MaxSeverity
  <2>4. Reported(more) => ClassifyAnomaly(more) # 0  BY <2>3 DEF ClassifyAnomaly
  <2> QED  BY <1>3, <1>4, <2>2, <2>4
<1>7. ASSUME Len(row.signals) < MaxSignals, Severe(row.signals), AddSignal(row, s).severity # 2
      PROVE  newest \notin SafetyVersions /\ 1 .. newest \cap SafetyVersions # {}
  <2>1. ClassifyAnomaly(more) # 2  BY <1>3, <1>4, <1>7
  <2> QED  BY <2>1, <1>7, StaysSevere
<1> QED  BY <1>5, <1>6, <1>7

\* No step but a signal changes the severity of a case that stays open.
LEMMA SevereNext == LoopInv /\ SevereKept /\ [LoopNext]_loopVars => SevereKept'
<1> SUFFICES ASSUME LoopInv, SevereKept, [LoopNext]_loopVars  PROVE SevereKept'  OBVIOUS
<1>1. /\ TablesGood /\ cases \in Seq(Case) /\ Len(cases) \in Nat
      /\ DOMAIN cases = 1 .. Len(cases)
  BY LenProperties DEF LoopInv, TablesGood
<1>2. \A c \in DOMAIN cases : cases[c] \in Case  BY <1>1, ElementOfSeq
<1>3. ASSUME newest' >= newest, newest' \in Nat, caseKind' = caseKind,
             NEW signals, Severe(signals)
      PROVE  Severe(signals)'
  BY <1>1, <1>3 DEF Severe, TablesGood
<1>4. ASSUME UNCHANGED cases, newest' >= newest, newest' \in Nat, caseKind' = caseKind
      PROVE  SevereKept'
  BY <1>3, <1>4 DEF SevereKept, Open
<1>5. newest >= newest /\ newest \in Nat  BY <1>1 DEF TablesGood
<1>6. ASSUME NEW s \in CaseSignals, Signal(s)  PROVE SevereKept'
  <2>1. \A signals : Severe(signals)' <=> Severe(signals)
    BY <1>6 DEF Signal, Severe
  <2>2. ASSUME NEW c \in DOMAIN cases, cases' = [cases EXCEPT ![c] = AddSignal(@, s)]
        PROVE  SevereKept'
    <3>1. /\ cases'[c].severity = 2 => Severe(cases'[c].signals)
          /\ cases'[c].severity = 1 => Reported(cases'[c].signals)
      <4>1. cases'[c] = AddSignal(cases[c], s)  BY <1>1, <2>2
      <4>2. cases[c] \in [status: {"OPEN", "ACKNOWLEDGED", "MITIGATED", "DISMISSED"},
                          severity: Nat, signals: Seq(CaseSignals)]
        BY <1>2 DEF Case
      <4> QED  BY <1>1, <4>1, <4>2, SignalSevere
    <3>2. /\ DOMAIN cases' = DOMAIN cases
          /\ \A d \in DOMAIN cases \ {c} : cases'[d] = cases[d]
      BY <1>1, <2>2
    <3> QED  BY <2>1, <3>1, <3>2 DEF SevereKept, Open
  <2>3. ASSUME cases' = Append(cases, AddSignal(
                 [status |-> "OPEN", severity |-> 0, signals |-> << >>], s))
        PROVE  SevereKept'
    <3> DEFINE row == [status |-> "OPEN", severity |-> 0, signals |-> << >>]
    <3>1. row \in [status: {"OPEN", "ACKNOWLEDGED", "MITIGATED", "DISMISSED"},
                   severity: Nat, signals: Seq(CaseSignals)]
      BY EmptySeq
    <3>2. AddSignal(row, s) \in Case  BY <3>1, SignalAdded
    <3>3. /\ AddSignal(row, s).severity = 2 => Severe(AddSignal(row, s).signals)
          /\ AddSignal(row, s).severity = 1 => Reported(AddSignal(row, s).signals)
      BY <1>1, <3>1, SignalSevere
    <3>4. /\ DOMAIN cases' = 1 .. Len(cases) + 1
          /\ \A d \in DOMAIN cases : cases'[d] = cases[d]
          /\ cases'[Len(cases) + 1] = AddSignal(row, s)
      BY <1>1, <2>3, <3>2, AppendProperties
    <3> HIDE DEF row
    <3> QED  BY <1>1, <2>1, <3>3, <3>4 DEF SevereKept, Open
  <2> QED  BY <1>6, <2>2, <2>3 DEF Signal
<1>7. ASSUME NEW c \in DOMAIN cases, Acknowledge(c)  PROVE SevereKept'
  <2>1. \A signals : Severe(signals)' <=> Severe(signals)
    BY <1>7 DEF Acknowledge, Severe
  <2>2. /\ DOMAIN cases' = DOMAIN cases /\ Open(c)
        /\ \A d \in DOMAIN cases : /\ cases'[d].severity = cases[d].severity
                                   /\ cases'[d].signals = cases[d].signals
                                   /\ d # c => cases'[d].status = cases[d].status
    BY <1>1, <1>2, <1>7 DEF Acknowledge, Case, Open
  <2> QED  BY <2>1, <2>2 DEF SevereKept, Open
<1>8. ASSUME NEW c \in DOMAIN cases, NEW status \in {"MITIGATED", "DISMISSED"},
             CloseCase(c, status)
      PROVE  SevereKept'
  <2>1. \A signals : Severe(signals)' <=> Severe(signals)
    BY <1>8 DEF CloseCase, Severe
  <2>2. /\ DOMAIN cases' = DOMAIN cases /\ cases'[c].status = status
        /\ \A d \in DOMAIN cases \ {c} : cases'[d] = cases[d]
    BY <1>1, <1>2, <1>8 DEF CloseCase, Case
  <2> QED  BY <2>1, <2>2 DEF SevereKept, Open
<1>9. ASSUME NEW c \in DOMAIN cases, Decide(c)  PROVE SevereKept'
  BY <1>8, <1>9 DEF Decide
<1>10. CASE OnKillIssued
  <2>1. callback.of \in DOMAIN cases
    BY <1>10 DEF OnKillIssued, LoopInv, TablesGood, CallbackGood
  <2> QED  BY <1>4, <1>5, <1>8, <1>10, <2>1 DEF OnKillIssued
<1>11. CASE NewVersion  BY <1>4, <1>5, <1>11 DEF NewVersion
<1>12. CASE \/ \E c \in DOMAIN cases : KillIssued(c)
            \/ OnMitigated \/ OnG5Pass \/ LoopCrash \/ UNCHANGED loopVars
            \/ \E f \in DOMAIN feedbacks : AcceptFeedback(f)
            \/ \E v \in 1 .. newest : JudgeG5(v) \/ DeployVersion(v)
  <2>1. UNCHANGED <<cases, newest, caseKind>>
    BY <1>12 DEF KillIssued, OnMitigated, OnG5Pass, LoopCrash, AcceptFeedback, JudgeG5,
       DeployVersion, loopVars
  <2> QED  BY <1>4, <1>5, <2>1
<1> QED
  BY <1>6, <1>7, <1>9, <1>10, <1>11, <1>12 DEF LoopNext

LEMMA SevereStep ==
  LoopInv /\ SevereKept /\ [LoopNext]_loopVars =>
    [\A c \in DOMAIN cases :
       cases'[c].severity < cases[c].severity
       => \/ Len(cases[c].signals) >= MaxSignals
          \/ newest \notin SafetyVersions /\ 1 .. newest \cap SafetyVersions # {}]_loopVars
<1> SUFFICES ASSUME LoopInv, SevereKept, LoopNext, NEW c \in DOMAIN cases,
                    cases'[c].severity < cases[c].severity,
                    ~(Len(cases[c].signals) >= MaxSignals)
             PROVE  newest \notin SafetyVersions /\ 1 .. newest \cap SafetyVersions # {}
  OBVIOUS
<1>1. /\ TablesGood /\ cases \in Seq(Case) /\ Len(cases) \in Nat
      /\ DOMAIN cases = 1 .. Len(cases)
  BY LenProperties DEF LoopInv, TablesGood
<1>2. \A d \in DOMAIN cases : cases[d] \in Case  BY <1>1, ElementOfSeq
<1>3. cases[c].severity \in {0, 1, 2} /\ Len(cases[c].signals) < MaxSignals
  <2>1. cases[c].severity \in {0, 1, 2} /\ Len(cases[c].signals) \in Nat
    BY <1>2, LenProperties DEF Case
  <2> QED  BY <2>1, LoopConstants
<1>4. ASSUME cases'[c].severity = cases[c].severity  PROVE FALSE
  BY <1>3, <1>4
<1>5. ASSUME NEW s \in CaseSignals, Signal(s)
      PROVE  newest \notin SafetyVersions /\ 1 .. newest \cap SafetyVersions # {}
  <2>1. ASSUME NEW d \in DOMAIN cases, Open(d), cases' = [cases EXCEPT ![d] = AddSignal(@, s)]
        PROVE  newest \notin SafetyVersions /\ 1 .. newest \cap SafetyVersions # {}
    <3>1. CASE d # c  BY <1>1, <1>4, <2>1, <3>1
    <3>2. CASE d = c
      <4>1. cases'[c] = AddSignal(cases[c], s)  BY <1>1, <2>1, <3>2
      <4>2. cases[c] \in [status: {"OPEN", "ACKNOWLEDGED", "MITIGATED", "DISMISSED"},
                          severity: Nat, signals: Seq(CaseSignals)]
        BY <1>2 DEF Case
      <4>3. AddSignal(cases[c], s).severity \in {0, 1, 2}  BY <4>2, SignalAdded DEF Case
      <4>4. \/ cases[c].severity = 2 /\ AddSignal(cases[c], s).severity # 2
            \/ cases[c].severity = 1 /\ AddSignal(cases[c], s).severity = 0
        BY <1>3, <4>1, <4>3
      <4>5. /\ cases[c].severity = 2 => Severe(cases[c].signals)
            /\ cases[c].severity = 1 => Reported(cases[c].signals)
        BY <2>1, <3>2 DEF SevereKept
      <4> QED  BY <1>1, <1>3, <4>2, <4>4, <4>5, SignalSevere
    <3> QED  BY <3>1, <3>2
  <2>2. ASSUME NEW row, cases' = Append(cases, row)  PROVE FALSE
    BY <1>1, <1>4, <2>2
  <2> QED  BY <1>5, <2>1, <2>2 DEF Signal
<1>6. ASSUME NEW d \in DOMAIN cases, Acknowledge(d)  PROVE FALSE
  <2>1. cases'[c].severity = cases[c].severity  BY <1>1, <1>2, <1>6 DEF Acknowledge, Case
  <2> QED  BY <1>4, <2>1
<1>7. ASSUME NEW d \in DOMAIN cases, NEW status, CloseCase(d, status)  PROVE FALSE
  <2>1. cases'[c].severity = cases[c].severity  BY <1>1, <1>2, <1>7 DEF CloseCase, Case
  <2> QED  BY <1>4, <2>1
<1>8. ASSUME UNCHANGED cases  PROVE FALSE  BY <1>4, <1>8
<1>9. CASE OnKillIssued
  <2>1. callback.of \in DOMAIN cases
    BY <1>9 DEF OnKillIssued, LoopInv, TablesGood, CallbackGood
  <2> QED  BY <1>7, <1>8, <1>9, <2>1 DEF OnKillIssued
<1>10. ASSUME NEW d \in DOMAIN cases, Decide(d)  PROVE FALSE
  BY <1>7, <1>10 DEF Decide
<1>11. CASE \/ \E d \in DOMAIN cases : KillIssued(d)
            \/ OnMitigated \/ OnG5Pass \/ LoopCrash \/ NewVersion
            \/ \E f \in DOMAIN feedbacks : AcceptFeedback(f)
            \/ \E v \in 1 .. newest : JudgeG5(v) \/ DeployVersion(v)
  <2>1. UNCHANGED cases
    BY <1>11 DEF KillIssued, OnMitigated, OnG5Pass, LoopCrash, NewVersion, AcceptFeedback,
       JudgeG5, DeployVersion
  <2> QED  BY <1>8, <2>1
<1> QED  BY <1>5, <1>6, <1>9, <1>10, <1>11 DEF LoopNext

LEMMA SevereInit == LoopInit => SevereKept
BY DEF LoopInit, SevereKept

(* A further signal never lowers the severity of a case, unless its oldest *)
(* signal is dropped or a newer version of lower integrity was registered, *)
(* for any number of signals kept and any thresholds                       *)
(* (anomaly.service.ts:133).                                               *)
THEOREM NeverDown == LoopSpec => NeverPlayedDown
<1> QED
  BY LoopInvInit, LoopInvNext, SevereInit, SevereNext, SevereStep, PTL
  DEF LoopSpec, NeverPlayedDown
=============================================================================
