-------------------------- MODULE MCTaskLifecycle --------------------------
(* Instances of TaskLifecycle for TLC.  A scenario is a budget for the     *)
(* outside events: each event of a set at most once.                       *)
EXTENDS TaskLifecycle

Once(E) == [e \in Events |-> IF e \in E THEN 1 ELSE 0]

Undisturbed == {Once({})}
Aborted == {Once({"abort"})}
Interrupted == {Once({"crash", "raise"}), Once({"crash", "fail"}), Once({"verify"})}
Disturbed == {Once({"crash", "abort"}), Once({"crash", "verify"}), Once({"steer"}),
              Once({"resume"}), Once({"abort", "fail"})}
============================================================================
