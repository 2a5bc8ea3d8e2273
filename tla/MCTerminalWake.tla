--------------------------- MODULE MCTerminalWake ---------------------------
(* Instances of TerminalWake for TLC. *)
EXTENDS TerminalWake, TLC

CONSTANTS t1, t2

MCTasks == {t1, t2}
MCOneTask == {t1}
MCBackoff == <<1, 2>>
MCSymmetry == Permutations(MCTasks)
=============================================================================
