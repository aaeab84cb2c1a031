------------------------------- MODULE Delivery -------------------------------
(***************************************************************************)
(* What a channel promises about the messages that arrive upstream of it:  *)
(* each is handed on, or lost, or handed on again, as its promise allows.  *)
(***************************************************************************)
EXTENDS Naturals

CONSTANTS Msgs  \* messages

VARIABLES
  promise,  \* "at_most_once", "at_least_once" or "best_effort"
  fate,     \* per message: "unsent", "waiting", "handed" or "lost"
  copies    \* per message: times it was handed on

vars == <<promise, fate, copies>>

Init == /\ promise \in {"at_most_once", "at_least_once", "best_effort"}
        /\ fate = [m \in Msgs |-> "unsent"]
        /\ copies = [m \in Msgs |-> 0]

Arrive(m) == /\ fate[m] = "unsent"
             /\ fate' = [fate EXCEPT ![m] = "waiting"]
             /\ UNCHANGED <<promise, copies>>

Hand(m) == /\ fate[m] = "waiting"
           /\ fate' = [fate EXCEPT ![m] = "handed"]
           /\ copies' = [copies EXCEPT ![m] = 1]
           /\ UNCHANGED promise

Repeat(m) == /\ promise # "at_most_once" /\ fate[m] = "handed"
             /\ copies' = [copies EXCEPT ![m] = @ + 1]
             /\ UNCHANGED <<promise, fate>>

\* Several go at once when the list of a fetch dies with the process.
Lose == /\ promise # "at_least_once"
        /\ \E gone \in (SUBSET {m \in Msgs : fate[m] = "waiting"}) \ {{}} :
             fate' = [m \in Msgs |-> IF m \in gone THEN "lost" ELSE fate[m]]
        /\ UNCHANGED <<promise, copies>>

Next == Lose \/ \E m \in Msgs : Arrive(m) \/ Hand(m) \/ Repeat(m)

\* At least once: what waits is handed on in the end.
Keeps == \A m \in Msgs :
           promise = "at_least_once" /\ fate[m] = "waiting" ~> fate[m] = "handed"

Spec == Init /\ [][Next]_vars /\ Keeps
=============================================================================
