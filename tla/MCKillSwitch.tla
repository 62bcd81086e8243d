---------------------------- MODULE MCKillSwitch ----------------------------
(* Instances of KillSwitch for TLC: small sets of people, vehicles and profiles. *)
EXTENDS KillSwitch, TLC

CONSTANTS f1, v1, v2, ann, ben, cho, dan, sys

Base == [fClass |-> "F2", deactClass |-> "DC2", gsr |-> FALSE, coherent |-> TRUE,
         maxVehicles |-> 2, perWindow |-> 2, marketApproved |-> TRUE, cn |-> FALSE,
         evidence |-> TRUE]

\* One profile only: the registry stands still.
FixedProfiles == {Base}

\* A draft that is raised from F1 to F2, or loses its BOM baseline.
DraftProfiles == {Base, [Base EXCEPT !.fClass = "F1", !.deactClass = "DC1"]}

\* A cap of one vehicle per window.
TightProfiles == {[Base EXCEPT !.fClass = "F1", !.deactClass = "DC1", !.perWindow = 1]}

People == Permutations({ann, ben, cho, dan})
Three  == Permutations({ann, ben, cho})
=============================================================================
