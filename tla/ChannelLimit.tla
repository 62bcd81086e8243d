---------------------------- MODULE ChannelLimit ----------------------------
(***************************************************************************)
(* Failed authentications one vehicle reports, and the limit on its status *)
(* channel.  Each is recorded; the one that brings the number within the   *)
(* window to the threshold, and no other, raises an alert to the VSOC and  *)
(* closes the channel for a while.  Only reports of IF-06 meet the limit:  *)
(* simulated vehicles and GLEO hand theirs to status ingest directly.      *)
(***************************************************************************)
EXTENDS Naturals, Sequences, FiniteSets

CONSTANTS
  FailCount,     \* threshold of the event AUTH_FAILURE
  FailWindow,    \* its window, in ticks of the clock
  LimitTime,     \* CHANNEL_LIMIT_MS
  Channels,      \* of "IF-06", "SIM", "GLEO"
  MaxFailures    \* bound: failures within a window

ASSUME LimitConstants ==
  /\ {FailCount, FailWindow, LimitTime} \subseteq Nat \ {0}
  /\ FailWindow <= LimitTime   \* 10 and 30 minutes
  /\ MaxFailures \in Nat

VARIABLES
  failed,     \* ages of the rows of security_event still within the window
  limit,      \* ticks until the latest vehicle_channel_limit ends
  reported    \* channels some failure came by

limitVars == <<failed, limit, reported>>

LimitInit == failed = << >> /\ limit = 0 /\ reported = {}

\* Mutant of Unlimited: the limit is not looked at.
UnlimitedAny(channel) == TRUE

Unlimited(channel) == channel = "IF-06" => limit = 0

\* An accepted report carries a code of AUTH_FAILURE: observe records it and raises
\* an alert when the threshold is met, not when it is passed.
Observe(channel) ==
  /\ Unlimited(channel)
  /\ Len(failed) < MaxFailures
  /\ failed' = Append(failed, 0)
  /\ reported' = reported \cup {channel}
  /\ limit' = IF Len(failed) + 1 = FailCount THEN LimitTime ELSE limit

\* securityAlert counts a row while it is younger than the window; older rows, the
\* first ones, are never read again.
Minute ==
  LET gone == Cardinality({i \in DOMAIN failed : failed[i] + 1 >= FailWindow}) IN
  /\ failed' = [i \in 1 .. Len(failed) - gone |-> failed[i + gone] + 1]
  /\ limit' = IF limit > 0 THEN limit - 1 ELSE 0
  /\ UNCHANGED reported

LimitNext == Minute \/ \E channel \in Channels : Observe(channel)

LimitSpec == LimitInit /\ [][LimitNext]_limitVars

-----------------------------------------------------------------------------
(* Properties *)

LimitTypeOK ==
  /\ \A i \in DOMAIN failed : failed[i] \in 0 .. FailWindow - 1
  /\ limit \in 0 .. LimitTime
  /\ reported \subseteq Channels

\* As long as the failures of a vehicle within the window stand at the threshold or
\* above, its channel is limited, although the limit is set only by the very failure
\* that meets the threshold and is never renewed (rules/security-events.ts:63).  It
\* holds because a limited vehicle cannot report: with failures over a channel that
\* knows no limit, the limit ends while the vehicle goes on failing.
LimitedWhileFailing ==
  reported \subseteq {"IF-06"} /\ Len(failed) >= FailCount => limit > 0
=============================================================================
