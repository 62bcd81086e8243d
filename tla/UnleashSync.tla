---------------------------- MODULE UnleashSync ----------------------------
(***************************************************************************)
(* The copy of one deployed policy on an Unleash server (D01, IF-04).      *)
(* sync takes the policy's plan and then awaits one Admin API call after   *)
(* another: make or revive the flag, tag it, list its strategies, replace  *)
(* them (one for one by PUT, else POST the new ones and DELETE the listed  *)
(* ones), switch the environment.  The first failure stops the run, and    *)
(* the next run starts over.  Any call may fail, before it took effect or  *)
(* after (the answer is lost, or the 8 s are over); the process may crash; *)
(* two people may run it at once; a release may change the plan, and a     *)
(* person may change the flag on the server, between any two calls.        *)
(*                                                                         *)
(* The server is external; its calls do what MockUnleash.admin does.  A    *)
(* plan is what the copy must show: how many strategies, and on or off.    *)
(* Tags and dependencies are only ever added, and are left out, and so are *)
(* plans with blockers and mode off, which call nothing.                   *)
(***************************************************************************)
EXTENDS Naturals

CONSTANTS
  Syncs,      \* requests to sync, as many as may be under way at once
  MaxPlan,    \* bound: releases of the policy; a plan is one of 1 .. this
  Size,       \* strategies of each plan; a policy without any gives one, for all
  On,         \* is the environment on in each plan?
  MaxStarts,  \* bound: runs of sync
  MaxHands    \* bound: changes made on the server by hand

ASSUME CopyConstants ==
  /\ {MaxPlan, MaxStarts, MaxHands} \subseteq Nat /\ MaxPlan > 0
  /\ Size \in [1..MaxPlan -> Nat \ {0}]
  /\ On \in [1..MaxPlan -> BOOLEAN]

VARIABLES
  deployed,   \* the plan of the deployed policy
  flag,       \* on the server: "NONE", "LIVE" or "ARCHIVED"
  switched,   \* is the environment on?
  strategies, \* those of the flag: [id, plan, nr], the nr-th strategy of the plan
  newest,     \* strategies ever made: the id of the newest one
  syncs,      \* each request: [plan, at, made, listed, alone]; made is the number of
              \* strategies it made, listed the ones it still has to delete; alone:
              \* nothing else touched the server since it started
  starts,     \* runs started so far
  hands,      \* changes made by hand so far
  cut         \* did a person ever delete a strategy?

copyVars == <<deployed, flag, switched, strategies, newest, syncs, starts, hands, cut>>

NoPlan == 0   \* of a strategy made or edited by hand
UnderWay == {"ensure", "create", "revive", "prepare", "list", "put", "post", "delete", "switch"}
Ended == {"idle", "SYNCED", "FAILED", "LOST"}

CopyInit ==
  /\ deployed = 1
  /\ flag = "NONE" /\ switched = FALSE /\ strategies = {} /\ newest = 0
  /\ syncs = [s \in Syncs |->
               [plan |-> 1, at |-> "idle", made |-> 0, listed |-> {}, alone |-> FALSE]]
  /\ starts = 0 /\ hands = 0 /\ cut = FALSE

-----------------------------------------------------------------------------
(* sync: one action per awaited call.  A call that fails may have been     *)
(* carried out; one that was not carried out changes nothing.              *)

Ids == {x.id : x \in strategies}

Goes(s, next) == syncs' = [syncs EXCEPT ![s].at = next]

\* The call was not carried out, or was refused: the run stops.
Refused(s) ==
  /\ Goes(s, "FAILED")
  /\ UNCHANGED <<flag, switched, strategies, newest>>

NewRelease ==
  /\ deployed < MaxPlan
  /\ deployed' = deployed + 1
  /\ UNCHANGED <<flag, switched, strategies, newest, syncs, starts, hands, cut>>

\* require and plan: the run keeps the plan of this moment.
StartSync(s) ==
  /\ starts < MaxStarts /\ syncs[s].at \in Ended
  /\ starts' = starts + 1
  /\ syncs' = [t \in Syncs |->
       IF t = s
       THEN [plan |-> deployed, at |-> "ensure", made |-> 0, listed |-> {},
             alone |-> \A u \in Syncs : syncs[u].at \in Ended]
       ELSE [syncs[t] EXCEPT !.alone = FALSE]]
  /\ UNCHANGED <<deployed, flag, switched, strategies, newest, hands, cut>>

\* 1. GET the flag: an answer that is neither OK, NOT_FOUND nor FAILED ends the run.
GetFlag(s) ==
  /\ syncs[s].at = "ensure"
  /\ \E next \in {"create", "FAILED"} \cup (IF flag = "LIVE" THEN {"prepare"} ELSE {}) :
       Goes(s, next)
  /\ UNCHANGED <<flag, switched, strategies, newest>>

\* POST the flag.  Refused when it exists, archived or not; any failure leads to a revival.
CreateFlag(s) ==
  /\ syncs[s].at = "create"
  /\ \/ /\ flag = "NONE"
        /\ flag' = "LIVE" /\ switched' = FALSE /\ strategies' = {}
        /\ \E next \in {"prepare", "revive"} : Goes(s, next)
        /\ UNCHANGED newest
     \/ /\ Goes(s, "revive")
        /\ UNCHANGED <<flag, switched, strategies, newest>>

ReviveFlag(s) ==
  /\ syncs[s].at = "revive"
  /\ \/ /\ flag # "NONE"
        /\ flag' = "LIVE"
        /\ \E next \in {"prepare", "FAILED"} : Goes(s, next)
        /\ UNCHANGED <<switched, strategies, newest>>
     \/ Refused(s)

\* 2. tags and 3. parents: nothing of the flag that the model keeps.
Prepare(s) ==
  /\ syncs[s].at = "prepare"
  /\ \E next \in {"list", "FAILED"} : Goes(s, next)
  /\ UNCHANGED <<flag, switched, strategies, newest>>

OneForOne(run) == Size[run.plan] = 1 /\ \E id \in Ids : Ids = {id}

\* 4. GET the strategies; the run works on its own copy of the list.
ListStrategies(s) ==
  /\ syncs[s].at = "list"
  /\ \/ /\ flag = "LIVE"
        /\ syncs' = [syncs EXCEPT ![s].listed = Ids,
                                ![s].at = IF OneForOne(syncs[s]) THEN "put" ELSE "post"]
     \/ Goes(s, "FAILED")
  /\ UNCHANGED <<flag, switched, strategies, newest>>

Strategy(id, plan, nr) == [id |-> id, plan |-> plan, nr |-> nr]

PutStrategy(s) ==
  /\ syncs[s].at = "put"
  /\ \/ \E old \in strategies :
          /\ flag = "LIVE" /\ old.id \in syncs[s].listed
          /\ strategies' = (strategies \ {old}) \cup {Strategy(old.id, syncs[s].plan, 1)}
          /\ \E next \in {"switch", "FAILED"} : Goes(s, next)
          /\ UNCHANGED <<flag, switched, newest>>
     \/ Refused(s)

\* What follows a POST: the next one, the first DELETE, or the switch.
AfterPost(run) ==
  IF run.made + 1 < Size[run.plan] THEN "post"
  ELSE IF run.listed = {} THEN "switch" ELSE "delete"

PostStrategy(s) ==
  /\ syncs[s].at = "post"
  /\ \/ /\ flag = "LIVE"
        /\ newest' = newest + 1
        /\ strategies' =
             strategies \cup {Strategy(newest + 1, syncs[s].plan, syncs[s].made + 1)}
        /\ \E next \in {AfterPost(syncs[s]), "FAILED"} :
             syncs' = [syncs EXCEPT ![s].at = next, ![s].made = @ + 1]
        /\ UNCHANGED <<flag, switched>>
     \/ Refused(s)

\* Mutant of ToDelete: a list shared with the server also shows the strategies made since.
ToDeleteShared(run) == Ids

\* The strategies to delete: the ones the run listed, not what the server has now.
ToDelete(run) == run.listed

DeleteStrategy(s) ==
  /\ syncs[s].at = "delete"
  /\ \/ \E old \in strategies :
          /\ flag = "LIVE" /\ old.id \in ToDelete(syncs[s])
          /\ strategies' = strategies \ {old}
          /\ \E next \in {IF syncs[s].listed = {old.id} THEN "switch" ELSE "delete", "FAILED"} :
               syncs' = [syncs EXCEPT ![s].at = next, ![s].listed = @ \ {old.id}]
          /\ UNCHANGED <<flag, switched, newest>>
     \/ Refused(s)

\* 5. the environment on or off; the outcome is recorded in the same synchronous stretch.
SwitchEnvironment(s) ==
  /\ syncs[s].at = "switch"
  /\ \/ /\ flag = "LIVE"
        /\ switched' = On[syncs[s].plan]
        /\ \E next \in {"SYNCED", "FAILED"} : Goes(s, next)
        /\ UNCHANGED <<flag, strategies, newest>>
     \/ Refused(s)

\* The process crashes: no run goes on, and what they did on the server stays.
CopyCrash ==
  /\ \E s \in Syncs : syncs[s].at \in UnderWay
  /\ syncs' = [s \in Syncs |->
                IF syncs[s].at \in UnderWay THEN [syncs[s] EXCEPT !.at = "LOST"] ELSE syncs[s]]
  /\ UNCHANGED <<deployed, flag, switched, strategies, newest, starts, hands, cut>>

-----------------------------------------------------------------------------
(* Another tool, or a person, changes the flag on the server.              *)

HandSwitch == switched' = ~ switched /\ UNCHANGED <<flag, strategies, newest, cut>>
HandArchive == flag' = "ARCHIVED" /\ UNCHANGED <<switched, strategies, newest, cut>>
HandAdd ==
  /\ newest' = newest + 1
  /\ strategies' = strategies \cup {Strategy(newest + 1, NoPlan, 1)}
  /\ UNCHANGED <<flag, switched, cut>>
HandEdit ==
  /\ \E x \in strategies :
       strategies' = (strategies \ {x}) \cup {Strategy(x.id, NoPlan, x.nr)}
  /\ UNCHANGED <<flag, switched, newest, cut>>
HandDelete ==
  /\ \E x \in strategies : strategies' = strategies \ {x}
  /\ cut' = TRUE
  /\ UNCHANGED <<flag, switched, newest>>

ByHand ==
  /\ flag = "LIVE" /\ hands < MaxHands
  /\ HandSwitch \/ HandArchive \/ HandAdd \/ HandEdit \/ HandDelete
  /\ hands' = hands + 1
  /\ syncs' = [s \in Syncs |-> [syncs[s] EXCEPT !.alone = FALSE]]
  /\ UNCHANGED <<deployed, starts>>

-----------------------------------------------------------------------------
SyncCall(s) ==
  /\ \/ GetFlag(s) \/ CreateFlag(s) \/ ReviveFlag(s) \/ Prepare(s) \/ ListStrategies(s)
     \/ PutStrategy(s) \/ PostStrategy(s) \/ DeleteStrategy(s) \/ SwitchEnvironment(s)
  /\ UNCHANGED <<deployed, starts, hands, cut>>

CopyNext ==
  \/ NewRelease \/ CopyCrash \/ ByHand
  \/ \E s \in Syncs : StartSync(s) \/ SyncCall(s)

CopySpec == CopyInit /\ [][CopyNext]_copyVars

-----------------------------------------------------------------------------
(* Properties *)

Plan == 1..MaxPlan

Run == [plan: Plan, at: UnderWay \cup Ended, made: Nat, listed: SUBSET Nat, alone: BOOLEAN]

CopyTypeOK ==
  /\ deployed \in Plan
  /\ flag \in {"NONE", "LIVE", "ARCHIVED"}
  /\ {switched, cut} \subseteq BOOLEAN
  /\ strategies \subseteq [id: Nat, plan: Plan \cup {NoPlan}, nr: Nat]
  /\ {newest, starts, hands} \subseteq Nat
  /\ syncs \in [Syncs -> Run]

\* S holds the first n strategies of the plan, each once, and no other.
Holds(S, plan, n) ==
  /\ \A x \in S : x.plan = plan /\ x.nr \in 1..n
  /\ \A k \in 1..n : \E x \in S : x.nr = k
  /\ \A x, y \in S : x.nr = y.nr => x = y

IsCopyOf(plan) ==
  flag = "LIVE" /\ Holds(strategies, plan, Size[plan]) /\ switched = On[plan]

\* Once a flag has had a strategy it is never without one, whatever fails, overlaps or
\* crashes in the middle of a replacement, unless a person deletes one by hand: new
\* strategies are made first, and only listed ones are deleted.
NeverBare == newest > 0 /\ ~ cut => strategies # {}

\* A run that reports SYNCED, and during which nothing else touched the server, leaves
\* exactly the strategies of its plan and its switch, whatever failed, lost or crashed
\* runs left there before: no strategy of an earlier plan, and none twice.
SyncedIsPlan ==
  \A s \in Syncs : syncs[s].at = "SYNCED" /\ syncs[s].alone => IsCopyOf(syncs[s].plan)

\* What a sync does to the copy, over any mixture of runs.
CopyHolds == NeverBare /\ SyncedIsPlan
=============================================================================
