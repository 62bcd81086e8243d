-------------------------- MODULE TwoPersonControl --------------------------
(***************************************************************************)
(* What the kill switch promises, with no deadline, ledger or gate: a case *)
(* is asked for by someone, turned on by two other people, and turned off  *)
(* by two people who are none of those who turned it on.  A case that was  *)
(* refused or turned off is over.                                          *)
(***************************************************************************)
EXTENDS Sequences

CONSTANTS People,   \* those who may sign
          Askers    \* those who may ask: people and the system

VARIABLE cases

Init == cases = << >>

Ask(a) ==
  cases' = Append(cases, [stage |-> "asked", asker |-> a, onBy |-> {}, offBy |-> {}])

Refuse(c) ==
  /\ cases[c].stage = "asked"
  /\ cases' = [cases EXCEPT ![c] = [@ EXCEPT !.stage = "refused"]]

TurnOn(c) ==
  /\ cases[c].stage = "asked"
  /\ \E p, q \in People \ {cases[c].asker} :
       /\ p # q
       /\ cases' = [cases EXCEPT ![c] =
                      [stage |-> "on", asker |-> @.asker, onBy |-> {p, q}, offBy |-> {}]]

TurnOff(c) ==
  /\ cases[c].stage = "on"
  /\ \E p, q \in People \ cases[c].onBy :
       /\ p # q
       /\ cases' = [cases EXCEPT ![c] =
                      [stage |-> "off", asker |-> @.asker, onBy |-> @.onBy, offBy |-> {p, q}]]

Next ==
  \/ \E a \in Askers : Ask(a)
  \/ \E c \in DOMAIN cases : Refuse(c) \/ TurnOn(c) \/ TurnOff(c)

Spec == Init /\ [][Next]_cases
=============================================================================
