----------------------------- MODULE ExecState -----------------------------
(***************************************************************************)
(* The execution_state column of a task (core.py): its values, and what an *)
(* RPC event asks of it.                                                   *)
(***************************************************************************)

Final == {"SETTLED", "CRASHED", "ABORTED"}
Resumable == {"STARTING", "RUNNING", "TOOL_RUNNING", "WAITING", "STALLED",
              "UNRESPONSIVE"}
ExecStates == Final \cup Resumable
\* Event kinds: agent_start or a tool's end, a tool's start or update, agent_end,
\* agent_settled, and every other event.
EventKinds == {"run", "tool", "end", "settled", "other"}

\* Mutation: agent_end settles the task.
MutNewState(ev, before) ==
  CASE ev = "run" -> "RUNNING"
    [] ev = "tool" -> "TOOL_RUNNING"
    [] ev \in {"end", "settled"} -> "SETTLED"
    [] OTHER -> before
\* The state an event asks for; agent_end and the rest only heal.
NewState(ev, before) ==
  CASE ev = "run" -> "RUNNING"
    [] ev = "tool" -> "TOOL_RUNNING"
    [] ev = "settled" -> "SETTLED"
    [] ev \in {"end", "other"} ->
         IF before \in {"STALLED", "WAITING", "UNRESPONSIVE"} THEN "RUNNING"
         ELSE before
============================================================================
