------------------------------ MODULE OneWake ------------------------------
(***************************************************************************)
(* What the terminal continuation wake promises, without workers, rows or  *)
(* retries: each task's wake is opened at most once, hands the original    *)
(* session at most one message while it is open, and once closed it stays  *)
(* closed.                                                                 *)
(***************************************************************************)
EXTENDS Naturals

CONSTANT Tasks

VARIABLES
  status,      \* task -> "none", "open" or "closed"
  delivered    \* task -> number of wake messages the session was handed

vars == <<status, delivered>>

TypeOK ==
  /\ status \in [Tasks -> {"none", "open", "closed"}]
  /\ delivered \in [Tasks -> 0..1]

Init ==
  /\ status = [t \in Tasks |-> "none"]
  /\ delivered = [t \in Tasks |-> 0]

\* A first terminal observation opens the wake, or closes it on the spot
\* when the task is not eligible for one.
Open(t) ==
  /\ status[t] = "none"
  /\ \E s \in {"open", "closed"} : status' = [status EXCEPT ![t] = s]
  /\ UNCHANGED delivered

Deliver(t) ==
  /\ status[t] = "open"
  /\ delivered[t] = 0
  /\ delivered' = [delivered EXCEPT ![t] = 1]
  /\ UNCHANGED status

\* Several wakes can be closed at once: a tick, or a crash, ends all of them.
Close ==
  /\ \E S \in SUBSET {t \in Tasks : status[t] = "open"} :
       status' = [t \in Tasks |-> IF t \in S THEN "closed" ELSE status[t]]
  /\ UNCHANGED delivered

Next == Close \/ \E t \in Tasks : Open(t) \/ Deliver(t)

Spec == Init /\ [][Next]_vars
=============================================================================
