----------------------------- MODULE Entitlement -----------------------------
(***************************************************************************)
(* Rights of one vehicle to one product: a trial is offered, accepted for  *)
(* some days, and lapses, is declined or is bought.  A daily sweep gives   *)
(* notice before the last day and settles what has lapsed; the listener of *)
(* the kill switch then asks for a commercial kill.  Rights of other       *)
(* vehicles and products never meet these.  A stored status is only the    *)
(* last change: what it means today depends on the day.                    *)
(***************************************************************************)
EXTENDS Integers, Sequences, SequencesExt

CONSTANTS
  OfferDays, TrialDays, PlanDays,  \* days an offer, a trial, a subscription lasts
  NoticeDays,        \* notice is due from this many days before the last
  MaxDay,            \* bound: days
  MaxGrants,         \* bound: rights in all
  MaxTrialCrashes    \* bound: stops of the process

ASSUME TrialConstants ==
  /\ {OfferDays, TrialDays, PlanDays} \subseteq Nat \ {0}
  /\ {NoticeDays, MaxDay, MaxGrants, MaxTrialCrashes} \subseteq Nat

VARIABLES
  today,     \* day of the clock
  grants,    \* table entitlement, in order of id
  serving,   \* the process is up
  sweepAt,   \* next right the sweep looks at, 0 between sweeps
  swept,     \* the sweep of this day has run since the process came up or before
  cuts,      \* kills the listener asked for
  trialCrashes

trialVars == <<today, grants, serving, sweepAt, swept, cuts, trialCrashes>>

Forever == MaxDay + 1
NoDay == -1

TrialInit ==
  /\ today = 0
  /\ grants = << >>
  /\ serving = TRUE
  /\ sweepAt = 1
  /\ swept = FALSE
  /\ cuts = << >>
  /\ trialCrashes = 0

\* A handler runs when no sweep does: both are synchronous.
Quiet == serving /\ sweepAt = 0

Within(g) == g.first <= today /\ today <= g.last

\* The stored status as of today; no right begins in the future.
GrantState(g) ==
  IF g.status \in {"ACTIVE", "OFFERED"} /\ today > g.last THEN "EXPIRED" ELSE g.status

Effective(g) == g.status = "ACTIVE" /\ Within(g)

\* An open or converted trial, or a paid right in force.
Blocking(g) ==
  \/ g.kind = "TRIAL" /\ GrantState(g) \in {"OFFERED", "ACTIVE", "CONVERTED"}
  \/ g.kind # "TRIAL" /\ Effective(g)

OfferTrial ==
  /\ Quiet
  /\ Len(grants) < MaxGrants
  /\ \A i \in DOMAIN grants : ~Blocking(grants[i])
  /\ grants' = Append(grants,
       [kind |-> "TRIAL", status |-> "OFFERED", first |-> today,
        last |-> today + OfferDays - 1, accepted |-> FALSE, noticed |-> NoDay,
        noticeFor |-> NoDay])
  /\ UNCHANGED <<today, serving, sweepAt, swept, cuts, trialCrashes>>

AcceptTrial(i) ==
  /\ Quiet
  /\ grants[i].kind = "TRIAL" /\ GrantState(grants[i]) = "OFFERED"
  /\ grants' = [grants EXCEPT ![i].status = "ACTIVE", ![i].accepted = TRUE,
                              ![i].first = today, ![i].last = today + TrialDays - 1]
  /\ UNCHANGED <<today, serving, sweepAt, swept, cuts, trialCrashes>>

DeclineTrial(i) ==
  /\ Quiet
  /\ grants[i].kind = "TRIAL" /\ GrantState(grants[i]) = "OFFERED"
  /\ grants' = [grants EXCEPT ![i].status = "DECLINED"]
  /\ UNCHANGED <<today, serving, sweepAt, swept, cuts, trialCrashes>>

Convertible(i) ==
  /\ grants[i].kind = "TRIAL"
  /\ grants[i].accepted
  /\ GrantState(grants[i]) \in {"ACTIVE", "EXPIRED"}

\* Mutant of Converted: the trial keeps its status.
ConvertedOpen(i) == grants

Converted(i) == [grants EXCEPT ![i].status = "CONVERTED"]

\* Billing and both rights in one transaction; no other right is looked at.
Purchase(i, last) ==
  /\ Quiet
  /\ Convertible(i)
  /\ Len(grants) < MaxGrants
  /\ grants' = Append(Converted(i),
       [kind |-> "PAID", status |-> "ACTIVE", first |-> today, last |-> last,
        accepted |-> FALSE, noticed |-> NoDay, noticeFor |-> NoDay])
  /\ UNCHANGED <<today, serving, sweepAt, swept, cuts, trialCrashes>>

\* What the sweep does with a right.
SweepPlan(g) ==
  IF g.kind # "TRIAL" \/ g.status # "ACTIVE" \/ ~g.accepted THEN "NOTHING"
  ELSE IF today > g.last THEN "EXPIRE"
  ELSE IF today >= g.last - NoticeDays /\ g.noticeFor # g.last THEN "NOTICE"
  ELSE "NOTHING"

StartSweep ==
  /\ Quiet /\ ~swept
  /\ sweepAt' = 1
  /\ UNCHANGED <<today, grants, serving, swept, cuts, trialCrashes>>

Sweeping(plan) ==
  /\ serving /\ sweepAt \in DOMAIN grants
  /\ SweepPlan(grants[sweepAt]) = plan

Pass ==
  /\ Sweeping("NOTHING")
  /\ sweepAt' = sweepAt + 1
  /\ UNCHANGED <<today, grants, serving, swept, cuts, trialCrashes>>

GiveNotice ==
  /\ Sweeping("NOTICE")
  /\ grants' = [grants EXCEPT ![sweepAt].noticed = today,
                              ![sweepAt].noticeFor = grants[sweepAt].last]
  /\ sweepAt' = sweepAt + 1
  /\ UNCHANGED <<today, serving, swept, cuts, trialCrashes>>

Expired(i) == [grants EXCEPT ![i].status = "EXPIRED"]

\* The listener: without a notice for this last day no kill is asked for.  With
\* one it depends on the policies, the class and the kills in force.
AskForKill(i) ==
  LET g == grants[i] IN
  /\ g.noticeFor = g.last
  /\ cuts' = Append(cuts,
       [trial |-> i, day |-> today, noticed |-> g.noticed,
        rights |-> {j \in DOMAIN grants \ {i} : Effective(grants[j])}])

Expire ==
  /\ Sweeping("EXPIRE")
  /\ grants' = Expired(sweepAt)
  /\ AskForKill(sweepAt) \/ UNCHANGED cuts
  /\ sweepAt' = sweepAt + 1
  /\ UNCHANGED <<today, serving, swept, trialCrashes>>

EndSweep ==
  /\ serving /\ sweepAt = Len(grants) + 1
  /\ sweepAt' = 0
  /\ swept' = TRUE
  /\ UNCHANGED <<today, grants, serving, cuts, trialCrashes>>

\* The process stops: anywhere in a sweep, and between the commit of an expiry
\* and the listener.
Stop ==
  /\ serving
  /\ trialCrashes < MaxTrialCrashes
  /\ \/ UNCHANGED grants
     \/ Sweeping("EXPIRE") /\ grants' = Expired(sweepAt)
  /\ serving' = FALSE
  /\ sweepAt' = 0
  /\ trialCrashes' = trialCrashes + 1
  /\ UNCHANGED <<today, swept, cuts>>

\* onApplicationBootstrap sweeps at once.
Boot ==
  /\ ~serving
  /\ serving' = TRUE
  /\ sweepAt' = 1
  /\ UNCHANGED <<today, grants, swept, cuts, trialCrashes>>

\* A process that is up sweeps once in each day.
NextDay ==
  /\ today < MaxDay
  /\ sweepAt = 0
  /\ serving => swept
  /\ today' = today + 1
  /\ swept' = FALSE
  /\ UNCHANGED <<grants, serving, sweepAt, cuts, trialCrashes>>

TrialNext ==
  \/ OfferTrial
  \/ \E i \in DOMAIN grants : AcceptTrial(i) \/ DeclineTrial(i)
  \/ \E i \in DOMAIN grants, last \in {today + PlanDays - 1, Forever} : Purchase(i, last)
  \/ StartSweep \/ Pass \/ GiveNotice \/ Expire \/ EndSweep
  \/ Stop \/ Boot \/ NextDay

TrialSpec == TrialInit /\ [][TrialNext]_trialVars

-----------------------------------------------------------------------------
(* Properties *)

TrialTypeOK ==
  /\ today \in 0..MaxDay
  /\ \A i \in DOMAIN grants :
       /\ grants[i].kind \in {"TRIAL", "PAID"}
       /\ grants[i].status \in {"OFFERED", "ACTIVE", "DECLINED", "EXPIRED", "CONVERTED"}
       /\ grants[i].first \in 0..MaxDay
       /\ {grants[i].noticed, grants[i].noticeFor} \subseteq Int
  /\ {serving, swept} \subseteq BOOLEAN
  /\ sweepAt \in 0..Len(grants) + 1
  /\ trialCrashes \in 0..MaxTrialCrashes

Reoffered(i) ==
  \E j \in DOMAIN grants \ {i} : grants[j].kind = "TRIAL" /\ grants[j].accepted

\* A kill for a lapsed trial is asked for only after its last day, only if the
\* customer was told in the days before it was over, and only if the vehicle has
\* no other right to the product, unless the product was accepted on trial twice
\* (trial-expiry.listener.ts:3, trial-expiry.service.ts:2).  It holds although
\* the process may be down for days, sweeps repeat and trials are bought late.
CutIsDue ==
  \A k \in DOMAIN cuts :
    LET c == cuts[k]  last == grants[c.trial].last IN
    /\ c.day > last
    /\ c.noticed \in (last - NoticeDays)..last
    /\ c.rights = {} \/ Reoffered(c.trial)
=============================================================================
