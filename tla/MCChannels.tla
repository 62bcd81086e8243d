----------------------------- MODULE MCChannels -----------------------------
(***************************************************************************)
(* Eight modules that share no state, checked side by side in one run:     *)
(* part, chosen once, says which of them moves.  The others stay in one    *)
(* initial state, so the run explores the sum of their state spaces.       *)
(* ExtSync is explored twice: with faults and one conflict resolved at a   *)
(* time, and without faults and two resolutions that may overlap.          *)
(***************************************************************************)
EXTENDS VehicleRequests, ExtSync, Kernel, IdempotencyKeys, ReportNumbers, Entitlement,
        QualityLoop, ChannelLimit, TLC

CONSTANTS Parts, SecondResolver
VARIABLE part

TwoSteps    == {<<1, 2>>}
ThereAndBack == {<<1, 2>>, <<2, 1>>}

\* One vehicle reports INFO, the other WARNING and CRITICAL.
FewSignals ==
  {[vin |-> 1, severity |-> 0], [vin |-> 2, severity |-> 1], [vin |-> 2, severity |-> 2]}

Init ==
  /\ part \in Parts
  /\ RequestInit /\ SyncInit /\ KernelInit /\ KeyInit /\ NumberInit /\ TrialInit
  /\ LoopInit /\ LimitInit
  /\ part # "LOOP" => caseKind = "DELIVERY"

Next ==
  /\ UNCHANGED part
  /\ \/ /\ part = "REQUESTS" /\ RequestNext
        /\ UNCHANGED <<syncVars, kernelVars, keyVars, numberVars, trialVars,
                       loopVars, limitVars>>
     \/ /\ part \in {"SYNC", "OVERLAP"} /\ SyncNext
        /\ part = "SYNC" => resolving'[SecondResolver] = NoResolution
        /\ part = "OVERLAP" => syncFaults' = 0
        /\ UNCHANGED <<requestVars, kernelVars, keyVars, numberVars, trialVars,
                       loopVars, limitVars>>
     \/ /\ part = "KERNEL" /\ KernelNext
        /\ UNCHANGED <<requestVars, syncVars, keyVars, numberVars, trialVars,
                       loopVars, limitVars>>
     \/ /\ part = "KEYS" /\ KeyNext
        /\ UNCHANGED <<requestVars, syncVars, kernelVars, numberVars, trialVars,
                       loopVars, limitVars>>
     \/ /\ part = "NUMBERS" /\ NumberNext
        /\ UNCHANGED <<requestVars, syncVars, kernelVars, keyVars, trialVars,
                       loopVars, limitVars>>
     \/ /\ part = "TRIALS" /\ TrialNext
        /\ UNCHANGED <<requestVars, syncVars, kernelVars, keyVars, numberVars,
                       loopVars, limitVars>>
     \/ /\ part = "LOOP" /\ LoopNext
        /\ UNCHANGED <<requestVars, syncVars, kernelVars, keyVars, numberVars, trialVars,
                       limitVars>>
     \/ /\ part = "LIMIT" /\ LimitNext
        /\ UNCHANGED <<requestVars, syncVars, kernelVars, keyVars, numberVars, trialVars,
                       loopVars>>

Spec ==
  /\ Init
  /\ [][Next]_<<part, requestVars, syncVars, kernelVars, keyVars, numberVars, trialVars,
             loopVars, limitVars>>
  /\ SyncFairness
=============================================================================
