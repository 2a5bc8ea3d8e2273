---------------------------- MODULE StallPolicy ----------------------------
(***************************************************************************)
(* The watchdog of one running task against a clock (core.py,              *)
(* watchdog_tick): heartbeats, WAITING, the stall grace and its abort      *)
(* request, STALLED, UNRESPONSIVE, the CPU proof for a silent tool and the *)
(* emergency cap.  TaskLifecycle has the same watchdog among the task's    *)
(* other threads, with every clock reading a free choice; here the         *)
(* readings are kept, so that what the thresholds promise can be stated.   *)
(*                                                                         *)
(* A timestamp is kept as its age.  Time passes while the watchdog sleeps  *)
(* and while it waits for an RPC answer; everything else is instantaneous. *)
(* A tick reads the row and the clock once, at its start, and works with   *)
(* what it read; RPC events are handled between any two of its steps.      *)
(***************************************************************************)
EXTENDS Integers, ExecState

CONSTANTS
  Heartbeat, RpcTimeout, Waiting, SoftStall, ToolStall, Grace, Interval,
  Window,     \* tool_activity_window_seconds
  HasCap,     \* has the operator set emergency_cap_seconds?
  MayFail     \* may a live agent miss a heartbeat?

ASSUME ThresholdsAssumption ==
  /\ {Heartbeat, RpcTimeout, Waiting, Interval, Window, Grace} \subseteq Nat \ {0}
  /\ SoftStall \in Nat /\ ToolStall \in Nat
  /\ Waiting <= SoftStall /\ SoftStall <= ToolStall
  /\ HasCap \in BOOLEAN /\ MayFail \in BOOLEAN

VARIABLES
  \* the row and the runtime record
  exec,
  idle,        \* age of last_progress_at
  stateAge,    \* age of last_state_at
  grace,       \* age of stall_grace_started_at, None when there is none
  pre,         \* pre_unresponsive_state
  sample,      \* age of the last CPU sample, None before the first
  stop,        \* stop_watchdog
  overdue,     \* is the task older than the cap?
  \* the watchdog thread
  pc,
  timer,       \* what is left of the sleep or of the RPC's timeout
  lag,         \* age of the tick's clock reading
  tick,        \* the execution state it read, and how it judged the silence
  \* the agent
  alive,
  tool,        \* the tool that runs: none, one that idles, one that burns CPU
  burnt,       \* was CPU burnt since the last sample?
  owed,        \* is an answer under way whose caller timed out?
  \* history
  silent,      \* time since the agent last did anything
  failed,      \* has a heartbeat failed, or an answer come late, since then?
  abort,       \* age of the last abort request, None before the first
  wasQuiet     \* was the agent ever silent for SoftStall?

row == <<exec, idle, stateAge, overdue>>
runtime == <<grace, pre, sample, stop>>
agent == <<alive, tool, burnt, owed>>
thread == <<pc, timer, lag, tick>>
history == <<silent, failed, abort, wasQuiet>>
vars == <<row, runtime, agent, thread, history>>

None == -1
Tools == {"none", "idle", "busy"}
NoTick == [current |-> "RUNNING", silence |-> "fresh"]

\* The longest time between the clock readings of two ticks: the sleep, a
\* heartbeat and an abort request.
TickSpan == Interval + 2 * RpcTimeout
\* How long a silence can last before the code must have acted on it.
LabelledBy == Waiting + TickSpan + RpcTimeout
RelabelledBy == ToolStall + TickSpan + RpcTimeout
StalledBy == ToolStall + Grace + 2 * TickSpan
\* Bound: ages are counted up to here.
Horizon == StalledBy + 1

Smaller(a, b) == IF a < b THEN a ELSE b
\* An age one unit later, counted up to the given bound.
Older(a, top) == IF a = None THEN None ELSE Smaller(a + 1, top)

TypeOK ==
  /\ exec \in ExecStates
  /\ idle \in 0..Horizon /\ silent \in 0..Horizon /\ stateAge \in 0..Heartbeat
  /\ grace \in -1..(Grace + 2 * RpcTimeout) /\ abort \in -1..Grace
  /\ sample \in -1..(3 * Window + 1)
  /\ pre \in Resumable \cup {"none"}
  /\ stop \in BOOLEAN /\ overdue \in BOOLEAN /\ alive \in BOOLEAN
  /\ burnt \in BOOLEAN /\ owed \in BOOLEAN /\ failed \in BOOLEAN /\ wasQuiet \in BOOLEAN
  /\ pc \in {"sleep", "beat", "unresp", "heal", "relabel", "quiet", "abort",
             "waiting", "stall", "loop", "exit"}
  /\ timer \in 0..(Interval + RpcTimeout)
  /\ lag \in 0..(2 * RpcTimeout)
  /\ tick \in [current : Resumable, silence : {"fresh", "waiting", "quiet"}]
  /\ tool \in Tools

\* The boot thread has just written RUNNING and started the watchdog.
Init ==
  /\ exec = "RUNNING" /\ idle = 0 /\ stateAge = 0 /\ overdue = FALSE
  /\ grace = None /\ pre = "none" /\ sample = None /\ stop = FALSE
  /\ pc = "sleep" /\ timer = 0 /\ lag = 0 /\ tick = NoTick
  /\ alive = TRUE /\ tool = "none" /\ burnt = FALSE /\ owed = FALSE
  /\ silent = 0 /\ failed = FALSE /\ abort = None /\ wasQuiet = FALSE

----------------------------------------------------------------------------
\* Time and the agent

\* The cap can be of any length: a task is overdue from some moment on.
TimePasses ==
  /\ timer > 0 /\ ~(pc = "sleep" /\ stop)
  /\ timer' = timer - 1
  /\ lag' = IF pc = "sleep" THEN lag ELSE lag + 1
  /\ idle' = Older(idle, Horizon)
  /\ stateAge' = Older(stateAge, Heartbeat)
  /\ grace' = Older(grace, Grace + 2 * RpcTimeout)
  /\ sample' = Older(sample, 3 * Window + 1)
  /\ burnt' = (burnt \/ tool = "busy")
  /\ overdue' \in {overdue, overdue \/ HasCap}
  /\ silent' = Older(silent, Horizon)
  /\ abort' = Older(abort, Grace)
  /\ wasQuiet' = (wasQuiet \/ silent' >= SoftStall)
  /\ UNCHANGED <<exec, pre, stop, pc, tick, alive, tool, owed, failed>>

AgentDies ==
  /\ alive
  /\ alive' = FALSE /\ tool' = "none" /\ owed' = FALSE
  /\ UNCHANGED <<row, runtime, thread, burnt, history>>

----------------------------------------------------------------------------
\* _on_event, on the RPC reader's thread

\* Mutation: no default when there is no remembered state.
MutHealed == pre
\* The state to heal UNRESPONSIVE to.
Healed == IF pre = "none" THEN "RUNNING" ELSE pre

\* Mutation: an event leaves the stall grace running.
MutEventClears == grace' = grace /\ pre' = "none"
EventClears == grace' = None /\ pre' = "none"

\* What the handler does with any line that is not a command's answer.
HandleEvent(ev) ==
  /\ exec' = IF exec \in Final THEN exec
             ELSE NewState(ev, IF exec = "UNRESPONSIVE" THEN Healed ELSE exec)
  /\ idle' = 0
  /\ EventClears
  /\ UNCHANGED <<stateAge, overdue, sample, thread>>

\* The agent emits an event.  A tool's start or update tells what the tool is
\* doing until the next one; agent_start and a tool's end leave none.
AgentEvent(ev) ==
  /\ alive
  /\ HandleEvent(ev)
  /\ CASE ev = "tool" -> tool' \in {"idle", "busy"}
       [] ev \in {"run", "settled"} -> tool' = "none"
       [] ev \in {"end", "other"} -> tool' = tool
  /\ silent' = 0 /\ failed' = FALSE
  /\ UNCHANGED <<burnt, abort, wasQuiet>>

OtherEvent == \E ev \in EventKinds \ {"settled"} :
  AgentEvent(ev) /\ UNCHANGED <<stop, alive, owed>>

\* agent_settled: _on_settled stops the watchdog and disposes of the process.
Settles ==
  /\ AgentEvent("settled")
  /\ stop' = TRUE /\ alive' = FALSE /\ owed' = FALSE

\* The answer to a get_state or an abort that timed out: no command waits for it any more,
\* so the reader hands it to the event handler.
LateAnswer ==
  /\ alive /\ owed /\ owed' = FALSE
  /\ HandleEvent("other")
  /\ failed' = TRUE
  /\ UNCHANGED <<stop, alive, tool, burnt, silent, abort, wasQuiet>>

----------------------------------------------------------------------------
\* _watchdog_loop and watchdog_tick

Goto(p) == pc' = p /\ UNCHANGED <<lag, tick>>
GotoRpc(p) == Goto(p) /\ timer' = RpcTimeout
TickEnds == Goto("loop") /\ timer' = 0
\* What a step of the tick leaves alone besides the row and the runtime.
Outside == UNCHANGED <<overdue, stop, agent, history>>

WatchdogStops ==
  /\ \/ pc = "sleep" /\ stop
     \/ pc = "loop" /\ (stop \/ exec \in Final)
  /\ Goto("exit") /\ timer' = 0
  /\ UNCHANGED <<row, runtime, agent, history>>

WatchdogSleeps ==
  /\ pc = "loop" /\ ~stop /\ exec \notin Final
  /\ pc' = "sleep" /\ timer' = Interval /\ lag' = 0 /\ tick' = NoTick
  /\ UNCHANGED <<row, runtime, agent, history>>

TickDue == pc = "sleep" /\ timer = 0 /\ ~stop /\ exec \notin Final

\* _emergency_cap_abort: abort_task ends the process and records ABORTED.
TickCap ==
  /\ TickDue /\ overdue
  /\ exec' = "ABORTED" /\ stop' = TRUE
  /\ alive' = FALSE /\ tool' = "none" /\ owed' = FALSE
  /\ TickEnds
  /\ UNCHANGED <<idle, stateAge, overdue, grace, pre, sample, burnt, history>>

TickCrashed ==
  /\ TickDue /\ ~overdue /\ ~alive
  /\ exec' = "CRASHED"
  /\ TickEnds
  /\ UNCHANGED <<idle, stateAge, grace, pre, sample>> /\ Outside

QuietThreshold(current) == IF current = "TOOL_RUNNING" THEN ToolStall ELSE SoftStall

\* Mutation: an idle task counts as quiet without waiting for its threshold.
MutSilence == IF idle < Waiting THEN "fresh" ELSE "quiet"
Silence == IF idle < Waiting THEN "fresh"
           ELSE IF idle < QuietThreshold(exec) THEN "waiting"
           ELSE "quiet"

\* The heartbeat is due by its own clock, or because the task is quiet.
TickBegins ==
  /\ TickDue /\ ~overdue /\ alive
  /\ tick' = [current |-> exec, silence |-> Silence]
  /\ lag' = 0
  /\ IF stateAge >= Heartbeat \/ Silence = "quiet"
       THEN pc' = "beat" /\ timer' = RpcTimeout
       ELSE /\ pc' = IF Silence = "fresh" THEN "loop" ELSE "relabel"
            /\ timer' = 0
  /\ UNCHANGED <<row, runtime, agent, history>>

\* Mutation: an unchanged heartbeat refreshes progress.
MutHeartbeatUnchanged ==
  /\ pc = "beat" /\ alive
  /\ stateAge' = 0 /\ idle' = 0
  /\ Goto(CASE tick.silence = "fresh" -> "loop"
            [] tick.silence = "waiting" -> "relabel"
            [] tick.silence = "quiet" -> "quiet") /\ timer' = 0
  /\ UNCHANGED <<exec, grace, pre, sample>> /\ Outside
\* get_state answers and its hash is the one stored.
HeartbeatUnchanged ==
  /\ pc = "beat" /\ alive
  /\ stateAge' = 0
  /\ Goto(CASE tick.silence = "fresh" -> "loop"
            [] tick.silence = "waiting" -> "relabel"
            [] tick.silence = "quiet" -> "quiet") /\ timer' = 0
  /\ UNCHANGED <<exec, idle, grace, pre, sample>> /\ Outside

\* get_state answers with another hash: progress.
HeartbeatChanged ==
  /\ pc = "beat" /\ alive
  /\ stateAge' = 0 /\ idle' = 0
  /\ silent' = 0 /\ failed' = FALSE
  /\ Goto("heal") /\ timer' = 0
  /\ UNCHANGED <<exec, overdue, runtime, agent, abort, wasQuiet>>

\* The process is gone, or the call fails, or no answer comes in time: the
\* answer to a call that timed out may still be under way.
HeartbeatFails ==
  /\ pc = "beat"
  /\ alive => MayFail
  /\ pre' = IF pre = "none" THEN tick.current ELSE pre
  /\ owed' = (owed \/ (alive /\ timer = 0))
  /\ failed' = TRUE
  /\ Goto("unresp") /\ timer' = 0
  /\ UNCHANGED <<row, grace, sample, stop, alive, tool, burnt, silent, abort, wasQuiet>>

MarkUnresponsive ==
  /\ pc = "unresp"
  /\ exec' = "UNRESPONSIVE"
  /\ TickEnds
  /\ UNCHANGED <<idle, stateAge, grace, pre, sample>> /\ Outside

ApplyChangedHeartbeat ==
  /\ pc = "heal"
  /\ grace' = None
  /\ CASE tick.current \in {"WAITING", "STALLED"} -> exec' = "RUNNING" /\ pre' = pre
       [] tick.current = "UNRESPONSIVE" -> exec' = Healed /\ pre' = "none"
       [] OTHER -> UNCHANGED <<exec, pre>>
  /\ TickEnds
  /\ UNCHANGED <<idle, stateAge, sample>> /\ Outside

\* Mutation: only a task that is WAITING already is labelled.
MutTickRelabels ==
  /\ pc = "relabel"
  /\ exec' = IF tick.current = "WAITING" THEN "WAITING" ELSE exec
  /\ TickEnds
  /\ UNCHANGED <<idle, stateAge, grace, pre, sample>> /\ Outside
\* Idle, but not for long enough to be quiet.
TickRelabels ==
  /\ pc = "relabel"
  /\ exec' = IF tick.current \in {"RUNNING", "WAITING"} THEN "WAITING" ELSE exec
  /\ TickEnds
  /\ UNCHANGED <<idle, stateAge, grace, pre, sample>> /\ Outside

\* _tool_process_active: CPU burnt since a sample that is recent enough.  The
\* first sample is only a baseline.
ToolProcessActive ==
  /\ tick.current = "TOOL_RUNNING"
  /\ sample # None /\ burnt /\ sample <= 3 * Window
Sampled == IF tick.current = "TOOL_RUNNING" THEN sample' = 0 /\ burnt' = FALSE
           ELSE UNCHANGED <<sample, burnt>>

\* The tool works: progress as of the tick's clock reading.
TickToolActive ==
  /\ pc = "quiet" /\ ToolProcessActive
  /\ Sampled
  /\ idle' = lag /\ silent' = Smaller(silent, lag)
  /\ grace' = None
  /\ TickEnds
  /\ UNCHANGED <<exec, stateAge, overdue, pre, stop, alive, tool, owed, failed, abort, wasQuiet>>

\* The first quiet tick starts the grace and asks the agent to abort.
GraceStarts ==
  /\ pc = "quiet" /\ ~ToolProcessActive /\ grace = None
  /\ Sampled
  /\ grace' = lag
  /\ abort' = 0
  /\ GotoRpc("abort")
  /\ UNCHANGED <<row, pre, stop, alive, tool, owed, silent, failed, wasQuiet>>

\* send_abort returns, answered or not.
AbortReturns ==
  /\ pc = "abort"
  /\ owed' = (owed \/ (alive /\ MayFail /\ timer = 0))
  /\ Goto("waiting") /\ timer' = 0
  /\ UNCHANGED <<row, runtime, alive, tool, burnt, history>>

GraceIsOver == grace # None /\ grace - lag >= Grace

GraceEnds ==
  /\ pc = "quiet" /\ ~ToolProcessActive /\ grace # None
  /\ Sampled
  /\ Goto(IF GraceIsOver THEN "stall" ELSE "waiting") /\ timer' = 0
  /\ UNCHANGED <<row, grace, pre, stop, alive, tool, owed, history>>

TickWaits ==
  /\ pc = "waiting"
  /\ exec' = IF tick.current = "STALLED" THEN exec ELSE "WAITING"
  /\ TickEnds
  /\ UNCHANGED <<idle, stateAge, grace, pre, sample>> /\ Outside

\* After the stall diagnosis, which lists the live descendants with ps.
TickStalls ==
  /\ pc = "stall"
  /\ exec' = "STALLED"
  /\ TickEnds
  /\ UNCHANGED <<idle, stateAge, grace, pre, sample>> /\ Outside

Tick ==
  \/ TickCap \/ TickCrashed \/ TickBegins
  \/ HeartbeatUnchanged \/ HeartbeatChanged \/ HeartbeatFails
  \/ MarkUnresponsive \/ ApplyChangedHeartbeat \/ TickRelabels
  \/ TickToolActive \/ GraceStarts \/ AbortReturns \/ GraceEnds
  \/ TickWaits \/ TickStalls

Next ==
  \/ TimePasses
  \/ AgentDies \/ OtherEvent \/ Settles \/ LateAnswer
  \/ WatchdogStops \/ WatchdogSleeps \/ Tick

Spec == Init /\ [][Next]_vars

----------------------------------------------------------------------------
\* Safety: an agent that answers its heartbeats and does nothing is found out
\* in bounded time: after the larger threshold, the grace and two ticks it is
\* STALLED or in a final state.
StallIsDetected ==
  silent >= StalledBy /\ ~failed /\ ~stop => exec \in Final \cup {"STALLED"}

\* Action property: only an agent that ignored an abort request is given up
\* on: when a tick decides for STALLED, the request is at least the grace old
\* (less the heartbeat that came before it) and nothing was heard since.
OnlyAnIgnoredAbortStalls ==
  [][pc = "quiet" /\ pc' = "stall"
       => abort >= Grace - RpcTimeout /\ silent >= abort]_vars

\* Safety: an agent that was never silent for the soft threshold is never
\* asked to abort and never STALLED, whatever its heartbeats do.
SteadyIsLeftAlone == ~wasQuiet => abort = None /\ exec # "STALLED"

\* Safety: the label follows the silence the row shows: idle past its
\* threshold and a tick, a task is no longer RUNNING or TOOL_RUNNING.
IdleIsLabelled ==
  ~stop => /\ idle >= LabelledBy => exec # "RUNNING"
           /\ idle >= RelabelledBy => exec # "TOOL_RUNNING"

----------------------------------------------------------------------------
\* What the comments of core.py say and the code does not keep.

\* Action property: a tool that has been silent past its own threshold, but
\* whose process tree has burnt CPU all along, is not taken for a stall.
BusyToolIsNotStalled ==
  [][pc = "quiet" /\ pc' = "stall" /\ silent >= ToolStall => tool # "busy"]_vars

\* Action property: a running tool has the larger threshold: an agent that
\* has been silent since a tool's event is asked to abort only after ToolStall.
ToolKeepsItsThreshold ==
  [][abort' = 0 /\ abort # 0 /\ tool # "none" /\ silent >= SoftStall
       => silent >= ToolStall]_vars

\* Action property: an agent that settles on its abort request keeps the
\* result: the tick that started the grace, which the settlement has cleared
\* since, leaves SETTLED alone.
SettledInGraceIsKept ==
  [][pc = "waiting" /\ grace = None /\ exec = "SETTLED" => exec' = "SETTLED"]_vars
============================================================================
