------------------------- MODULE StallPolicyProofs -------------------------
(***************************************************************************)
(* Proofs about StallPolicy, for every setting of the thresholds that the  *)
(* configuration allows.                                                   *)
(***************************************************************************)
EXTENDS StallPolicy, TLAPS

\* Where time can pass and how old the tick's clock reading is.
Clock ==
  /\ timer > 0 => pc \in {"sleep", "beat", "abort"}
  /\ pc = "sleep" => timer <= Interval /\ lag = 0
  /\ pc = "beat" => lag + timer = RpcTimeout
  /\ pc = "abort" => lag + timer <= 2 * RpcTimeout /\ timer <= RpcTimeout
  /\ pc \in {"unresp", "heal", "relabel", "quiet", "stall"} => lag <= RpcTimeout

\* Until the agent has been silent for SoftStall, the row shows no more silence
\* than there is, and no tick finds the task quiet.
SteadyInv ==
  ~wasQuiet => /\ silent < SoftStall /\ idle <= silent
               /\ abort = None
               /\ "STALLED" \notin {exec, pre, tick.current}
               /\ pc \notin {"quiet", "abort", "waiting", "stall"}
               /\ tick.silence # "quiet"

\* A grace is as old as its abort request, but for the heartbeat before it, and
\* nothing was heard since the request.
IgnoredInv ==
  grace # None => /\ abort # None
                  /\ abort = Grace \/ abort >= grace - RpcTimeout
                  /\ pc = "heal" \/ silent >= abort

\* The steps of a tick between its reading of the row and its last write.
InTick == pc \notin {"sleep", "loop", "exit"}
\* What a tick adds to the tick that follows, when no grace is running.
Slack == IF grace = None THEN RpcTimeout ELSE 2 * RpcTimeout
Threshold(s) == IF s = "RUNNING" THEN Waiting ELSE ToolStall
\* The tick will not relabel s.
Passive(s) == tick.silence = "fresh" \/ (s = "TOOL_RUNNING" /\ tick.silence = "waiting")

\* How idle the row of a task that shows s can be, step by step.
LabelInv(s) ==
  exec = s /\ ~stop =>
    /\ pc = "sleep" => idle + timer < Threshold(s) + Interval + Slack
    /\ pc = "loop" => idle < Threshold(s) + Slack
    /\ pc # "exit"
    /\ InTick /\ tick.current # s => idle <= lag
    /\ InTick /\ tick.current = s /\ Passive(s) => idle < Threshold(s) + lag
    /\ pc \in {"beat", "relabel", "quiet"} => idle < Threshold(s) + Interval + Slack + lag
    /\ pc = "abort" => idle < Threshold(s) + Interval + RpcTimeout + lag
    /\ pc = "abort" /\ grace = None => idle + timer <= RpcTimeout
    /\ pc = "waiting" /\ grace = None => idle <= RpcTimeout
    /\ InTick => idle < Threshold(s) + Interval + 3 * RpcTimeout

\* The longest silence at the start of a tick that no grace precedes, and of any
\* tick of a task that is not STALLED yet.
Unasked == ToolStall + RpcTimeout + Interval - 1
Asked == Unasked + Grace - 1 + 2 * RpcTimeout
Quiet == IF grace = None THEN Unasked ELSE Asked + Interval

\* How long the silence of a task that nobody has called STALLED can be.
StallInv ==
  /\ ~failed => silent <= idle
  /\ pc = "heal" => silent = 0 /\ idle = 0
  /\ pc = "unresp" /\ ~failed => silent = 0
  /\ pc = "relabel" => tick.silence = "waiting"
  /\ exec \in Final /\ ~stop => pc \in {"loop", "exit"}
  /\ pc = "exit" => stop \/ exec \in Final
  /\ InTick /\ exec = "STALLED" => tick.current = "STALLED"
  /\ ~failed /\ ~stop /\ exec \notin Final \cup {"STALLED"} =>
       /\ 0 <= grace /\ grace < Grace + 2 * RpcTimeout => silent <= grace + Unasked
       /\ pc = "sleep" => silent + timer <= Quiet
       /\ pc = "loop" => silent <= (IF grace = None THEN ToolStall - 1 + RpcTimeout
                                    ELSE Asked)
       /\ pc \in {"beat", "relabel", "quiet"} =>
            silent <= (IF tick.silence = "quiet" THEN Quiet ELSE ToolStall - 1) + lag
       /\ pc \in {"abort", "waiting"} /\ grace # None => grace - lag < Grace
       /\ pc = "abort" /\ grace = None => silent + timer <= RpcTimeout
       /\ pc = "waiting" /\ grace = None => silent <= RpcTimeout
       /\ pc = "stall" => silent <= Asked + Interval + RpcTimeout

LEMMA Thresholds ==
  /\ Heartbeat \in Nat /\ RpcTimeout \in Nat /\ Waiting \in Nat /\ Interval \in Nat
  /\ Window \in Nat /\ Grace \in Nat /\ SoftStall \in Nat /\ ToolStall \in Nat
  /\ Heartbeat >= 1 /\ RpcTimeout >= 1 /\ Waiting >= 1 /\ Interval >= 1 /\ Window >= 1
  /\ Grace >= 1 /\ Waiting <= SoftStall /\ SoftStall <= ToolStall
  /\ HasCap \in BOOLEAN /\ MayFail \in BOOLEAN
BY ThresholdsAssumption

LEMMA HealedType == ASSUME TypeOK PROVE Healed \in Resumable
BY DEF TypeOK, Healed, Resumable

\* An event never takes a task out of a final state, makes it final only by
\* settling it, and never leaves it STALLED.
LEMMA EventState ==
  ASSUME TypeOK, NEW ev \in EventKinds, HandleEvent(ev)
  PROVE  /\ exec' \in ExecStates /\ exec' # "STALLED"
         /\ exec \in Final => exec' = exec
         /\ exec' \in Final => exec \in Final \/ ev = "settled"
<1> DEFINE before == IF exec = "UNRESPONSIVE" THEN Healed ELSE exec
<1>1. CASE exec \in Final
  BY <1>1 DEF HandleEvent, Final, ExecStates
<1>2. CASE exec \notin Final
  <2>1. before \in Resumable
    BY <1>2, HealedType DEF TypeOK, ExecStates
  <2>2. exec' = NewState(ev, before)
    BY <1>2 DEF HandleEvent
  <2> HIDE DEF before
  <2>3. QED
    BY <1>2, <2>1, <2>2 DEF NewState, EventKinds, ExecStates, Final, Resumable
<1>3. QED
  BY <1>1, <1>2

\* The CPU sample of a quiet tick.
LEMMA SampledType ==
  ASSUME TypeOK, Sampled
  PROVE  sample' \in -1..(3 * Window + 1) /\ burnt' \in BOOLEAN
<1>1. 0 \in -1..(3 * Window + 1)
  BY Thresholds
<1>2. CASE tick.current = "TOOL_RUNNING"
  BY <1>1, <1>2 DEF Sampled
<1>3. CASE tick.current # "TOOL_RUNNING"
  BY <1>3, Zenon DEF TypeOK, Sampled
<1>4. QED
  BY <1>2, <1>3

\* Every step keeps the clocks within their bounds.
LEMMA ClockStep ==
  ASSUME TypeOK, Clock, [Next]_vars PROVE Clock'
<1> USE Thresholds DEF TypeOK, Clock
<1>1. CASE TimePasses
  BY <1>1 DEF TimePasses, Older, Smaller
<1>2. CASE AgentDies
  BY <1>2 DEF AgentDies, row, runtime, thread, history
<1>3. CASE OtherEvent
  BY <1>3 DEF OtherEvent, AgentEvent, HandleEvent, EventClears, thread
<1>4. CASE Settles
  BY <1>4 DEF Settles, AgentEvent, HandleEvent, EventClears, thread
<1>5. CASE LateAnswer
  BY <1>5 DEF LateAnswer, HandleEvent, EventClears, thread
<1>6. CASE WatchdogStops
  BY <1>6 DEF WatchdogStops, Goto, row, runtime, agent, history
<1>7. CASE WatchdogSleeps
  BY <1>7 DEF WatchdogSleeps, row, runtime, agent, history
<1>8. CASE TickCap
  BY <1>8 DEF TickCap, TickDue, TickEnds, Goto, history
<1>9. CASE TickCrashed
  BY <1>9 DEF TickCrashed, TickDue, TickEnds, Goto, Outside, agent, history
<1>10. CASE TickBegins
  BY <1>10 DEF TickBegins, TickDue, Silence, QuietThreshold, row, runtime, agent,
    history
<1>11. CASE HeartbeatUnchanged
  BY <1>11 DEF HeartbeatUnchanged, Goto, Outside, agent, history
<1>12. CASE HeartbeatChanged
  BY <1>12 DEF HeartbeatChanged, Goto, runtime, agent
<1>13. CASE HeartbeatFails
  BY <1>13 DEF HeartbeatFails, Goto, row
<1>14. CASE MarkUnresponsive
  BY <1>14 DEF MarkUnresponsive, TickEnds, Goto, Outside, agent, history
<1>15. CASE ApplyChangedHeartbeat
  BY <1>15 DEF ApplyChangedHeartbeat, TickEnds, Goto, Outside, agent, history
<1>16. CASE TickRelabels
  BY <1>16 DEF TickRelabels, TickEnds, Goto, Outside, agent, history
<1>17. CASE TickToolActive
  BY <1>17 DEF TickToolActive, TickEnds, Goto, Smaller
<1>18. CASE GraceStarts
  BY <1>18 DEF GraceStarts, GotoRpc, Goto, row
<1>19. CASE AbortReturns
  BY <1>19 DEF AbortReturns, Goto, row, runtime, history
<1>20. CASE GraceEnds
  BY <1>20 DEF GraceEnds, GraceIsOver, Goto, row, history
<1>21. CASE TickWaits
  BY <1>21 DEF TickWaits, TickEnds, Goto, Outside, agent, history
<1>22. CASE TickStalls
  BY <1>22 DEF TickStalls, TickEnds, Goto, Outside, agent, history
<1>23. CASE UNCHANGED vars
  BY <1>23 DEF vars, row, runtime, agent, thread, history
<1>24. QED
  BY <1>1, <1>2, <1>3, <1>4, <1>5, <1>6, <1>7, <1>8, <1>9, <1>10, <1>11, <1>12, <1>13,
    <1>14, <1>15, <1>16, <1>17, <1>18, <1>19, <1>20, <1>21, <1>22, <1>23 DEF Next, Tick

\* Every step keeps the types.
LEMMA TypeStep ==
  ASSUME TypeOK, Clock, [Next]_vars PROVE TypeOK'
<1> USE Thresholds DEF TypeOK, Clock, None, TickSpan, StalledBy, Horizon
<1>1. CASE TimePasses
  BY <1>1 DEF TimePasses, Older, Smaller
<1>2. CASE AgentDies
  <2>1. tool' \in Tools /\ alive' \in BOOLEAN /\ owed' \in BOOLEAN
    BY <1>2 DEF AgentDies, Tools
  <2>2. QED
    BY <1>2, <2>1 DEF AgentDies, row, runtime, thread, history
<1>3. CASE OtherEvent
  <2>1. PICK ev \in EventKinds \ {"settled"} :
          AgentEvent(ev) /\ UNCHANGED <<stop, alive, owed>>
    BY <1>3 DEF OtherEvent
  <2>2. exec' \in ExecStates
    BY <2>1, EventState DEF AgentEvent
  <2>3. tool' \in Tools
    BY <2>1 DEF AgentEvent, EventKinds, Tools
  <2>4. 0 \in 0..Horizon /\ None \in -1..(Grace + 2 * RpcTimeout)
    OBVIOUS
  <2>5. /\ idle' = 0 /\ silent' = 0 /\ grace' = None /\ pre' = "none"
        /\ UNCHANGED <<stateAge, overdue, sample, pc, timer, lag, tick, stop, alive, owed,
                       burnt, abort, wasQuiet>>
    BY <2>1 DEF AgentEvent, HandleEvent, EventClears, thread
  <2>6. failed' \in BOOLEAN
    BY <2>1 DEF AgentEvent
  <2>7. QED
    BY <2>2, <2>3, <2>4, <2>5, <2>6
<1>4. CASE Settles
  <2>1. exec' \in ExecStates
    BY <1>4, EventState DEF Settles, AgentEvent, EventKinds
  <2>2. tool' \in Tools
    BY <1>4 DEF Settles, AgentEvent, Tools
  <2>3. 0 \in 0..Horizon /\ None \in -1..(Grace + 2 * RpcTimeout)
    OBVIOUS
  <2>4. QED
    BY <1>4, <2>1, <2>2, <2>3 DEF Settles, AgentEvent, HandleEvent, EventClears, thread
<1>5. CASE LateAnswer
  <2>1. exec' \in ExecStates
    BY <1>5, EventState DEF LateAnswer, EventKinds
  <2>2. 0 \in 0..Horizon /\ None \in -1..(Grace + 2 * RpcTimeout)
    OBVIOUS
  <2>3. QED
    BY <1>5, <2>1, <2>2 DEF LateAnswer, HandleEvent, EventClears, thread
<1>6. CASE WatchdogStops
  BY <1>6 DEF WatchdogStops, Goto, row, runtime, agent, history
<1>7. CASE WatchdogSleeps
  BY <1>7 DEF WatchdogSleeps, row, runtime, agent, history, NoTick, Resumable
<1>8. CASE TickCap
  BY <1>8 DEF TickCap, TickDue, TickEnds, Goto, history, Tools, ExecStates, Final
<1>9. CASE TickCrashed
  BY <1>9 DEF TickCrashed, TickDue, TickEnds, Goto, Outside, agent, history, ExecStates,
    Resumable, Final
<1>10. CASE TickBegins
  BY <1>10 DEF TickBegins, TickDue, Silence, QuietThreshold, row, runtime, agent,
    history, ExecStates, Resumable, Final
<1>11. CASE HeartbeatUnchanged
  BY <1>11 DEF HeartbeatUnchanged, Goto, Outside, agent, history
<1>12. CASE HeartbeatChanged
  <2>1. 0 \in 0..Horizon /\ 0 \in 0..Heartbeat /\ 0 \in 0..(Interval + RpcTimeout)
    OBVIOUS
  <2>2. QED
    BY <1>12, <2>1 DEF HeartbeatChanged, Goto, runtime, agent
<1>13. CASE HeartbeatFails
  BY <1>13 DEF HeartbeatFails, Goto, row
<1>14. CASE MarkUnresponsive
  BY <1>14 DEF MarkUnresponsive, TickEnds, Goto, Outside, agent, history, ExecStates,
    Resumable, Final
<1>15. CASE ApplyChangedHeartbeat
  BY <1>15 DEF ApplyChangedHeartbeat, TickEnds, Goto, Outside, agent, history, Healed,
    ExecStates, Resumable
<1>16. CASE TickRelabels
  BY <1>16 DEF TickRelabels, TickEnds, Goto, Outside, agent, history, ExecStates,
    Resumable, Final
<1>17. CASE TickToolActive
  <2>1. sample' \in -1..(3 * Window + 1) /\ burnt' \in BOOLEAN
    BY <1>17, SampledType DEF TickToolActive
  <2>2. QED
    BY <1>17, <2>1 DEF TickToolActive, TickEnds, Goto, Smaller
<1>18. CASE GraceStarts
  <2>1. sample' \in -1..(3 * Window + 1) /\ burnt' \in BOOLEAN
    BY <1>18, SampledType DEF GraceStarts
  <2>2. QED
    BY <1>18, <2>1 DEF GraceStarts, GotoRpc, Goto, row
<1>19. CASE AbortReturns
  BY <1>19 DEF AbortReturns, Goto, row, runtime, history
<1>20. CASE GraceEnds
  <2>1. sample' \in -1..(3 * Window + 1) /\ burnt' \in BOOLEAN
    BY <1>20, SampledType DEF GraceEnds
  <2>2. QED
    BY <1>20, <2>1 DEF GraceEnds, Goto, row, history
<1>21. CASE TickWaits
  BY <1>21 DEF TickWaits, TickEnds, Goto, Outside, agent, history, ExecStates,
    Resumable, Final
<1>22. CASE TickStalls
  BY <1>22 DEF TickStalls, TickEnds, Goto, Outside, agent, history, ExecStates,
    Resumable, Final
<1>23. CASE UNCHANGED vars
  BY <1>23 DEF vars, row, runtime, agent, thread, history
<1>24. QED
  BY <1>1, <1>2, <1>3, <1>4, <1>5, <1>6, <1>7, <1>8, <1>9, <1>10, <1>11, <1>12, <1>13,
    <1>14, <1>15, <1>16, <1>17, <1>18, <1>19, <1>20, <1>21, <1>22, <1>23 DEF Next, Tick

\* A task that was never quiet goes on being left alone.
LEMMA SteadyStep ==
  ASSUME TypeOK, Clock, SteadyInv, [Next]_vars PROVE SteadyInv'
<1> USE Thresholds DEF TypeOK, Clock, SteadyInv, None, Horizon, StalledBy, TickSpan
<1>1. CASE TimePasses
  <2>1. wasQuiet' = (wasQuiet \/ silent' >= SoftStall)
    BY <1>1 DEF TimePasses
  <2>2. ~wasQuiet' => ~wasQuiet /\ ~(silent' >= SoftStall)
    BY <2>1, Zenon
  <2>3. QED
    BY <1>1, <2>2 DEF TimePasses, Older, Smaller
<1>2. CASE AgentDies
  BY <1>2 DEF AgentDies, row, runtime, thread, history
<1>3. CASE OtherEvent
  BY <1>3 DEF OtherEvent, AgentEvent, HandleEvent, EventClears, thread, NewState,
    Healed, EventKinds, Final, Resumable
<1>4. CASE Settles
  BY <1>4 DEF Settles, AgentEvent, HandleEvent, EventClears, thread, NewState, Healed,
    EventKinds, Final, Resumable
<1>5. CASE LateAnswer
  BY <1>5 DEF LateAnswer, HandleEvent, EventClears, thread, NewState, Healed,
    EventKinds, Final, Resumable
<1>6. CASE WatchdogStops
  BY <1>6 DEF WatchdogStops, Goto, row, runtime, agent, history
<1>7. CASE WatchdogSleeps
  BY <1>7 DEF WatchdogSleeps, row, runtime, agent, history, NoTick
<1>8. CASE TickCap
  BY <1>8 DEF TickCap, TickDue, TickEnds, Goto, history
<1>9. CASE TickCrashed
  BY <1>9 DEF TickCrashed, TickDue, TickEnds, Goto, Outside, agent, history
<1>10. CASE TickBegins
  BY <1>10 DEF TickBegins, TickDue, Silence, QuietThreshold, row, runtime, agent,
    history
<1>11. CASE HeartbeatUnchanged
  BY <1>11 DEF HeartbeatUnchanged, Goto, Outside, agent, history
<1>12. CASE HeartbeatChanged
  BY <1>12 DEF HeartbeatChanged, Goto, runtime, agent
<1>13. CASE HeartbeatFails
  BY <1>13 DEF HeartbeatFails, Goto, row
<1>14. CASE MarkUnresponsive
  BY <1>14 DEF MarkUnresponsive, TickEnds, Goto, Outside, agent, history
<1>15. CASE ApplyChangedHeartbeat
  BY <1>15 DEF ApplyChangedHeartbeat, TickEnds, Goto, Outside, agent, history, Healed
<1>16. CASE TickRelabels
  BY <1>16 DEF TickRelabels, TickEnds, Goto, Outside, agent, history
<1>17. CASE TickToolActive
  BY <1>17 DEF TickToolActive, TickEnds, Goto, Smaller
<1>18. CASE GraceStarts
  BY <1>18 DEF GraceStarts, GotoRpc, Goto, row
<1>19. CASE AbortReturns
  BY <1>19 DEF AbortReturns, Goto, row, runtime, history
<1>20. CASE GraceEnds
  BY <1>20 DEF GraceEnds, GraceIsOver, Goto, row, history
<1>21. CASE TickWaits
  BY <1>21 DEF TickWaits, TickEnds, Goto, Outside, agent, history
<1>22. CASE TickStalls
  BY <1>22 DEF TickStalls, TickEnds, Goto, Outside, agent, history
<1>23. CASE UNCHANGED vars
  BY <1>23 DEF vars, row, runtime, agent, thread, history
<1>24. QED
  BY <1>1, <1>2, <1>3, <1>4, <1>5, <1>6, <1>7, <1>8, <1>9, <1>10, <1>11, <1>12, <1>13,
    <1>14, <1>15, <1>16, <1>17, <1>18, <1>19, <1>20, <1>21, <1>22, <1>23 DEF Next, Tick

\* A running grace goes on measuring the time since its abort request.
LEMMA IgnoredStep ==
  ASSUME TypeOK, Clock, IgnoredInv, [Next]_vars PROVE IgnoredInv'
<1> USE Thresholds DEF TypeOK, Clock, IgnoredInv, None, Horizon, StalledBy, TickSpan
<1>1. CASE TimePasses
  BY <1>1 DEF TimePasses, Older, Smaller
<1>2. CASE AgentDies
  BY <1>2 DEF AgentDies, row, runtime, thread, history
<1>3. CASE OtherEvent
  BY <1>3 DEF OtherEvent, AgentEvent, HandleEvent, EventClears, thread
<1>4. CASE Settles
  BY <1>4 DEF Settles, AgentEvent, HandleEvent, EventClears, thread
<1>5. CASE LateAnswer
  BY <1>5 DEF LateAnswer, HandleEvent, EventClears, thread
<1>6. CASE WatchdogStops
  BY <1>6 DEF WatchdogStops, Goto, row, runtime, agent, history
<1>7. CASE WatchdogSleeps
  BY <1>7 DEF WatchdogSleeps, row, runtime, agent, history
<1>8. CASE TickCap
  BY <1>8 DEF TickCap, TickDue, TickEnds, Goto, history
<1>9. CASE TickCrashed
  BY <1>9 DEF TickCrashed, TickDue, TickEnds, Goto, Outside, agent, history
<1>10. CASE TickBegins
  BY <1>10 DEF TickBegins, TickDue, Silence, QuietThreshold, row, runtime, agent,
    history
<1>11. CASE HeartbeatUnchanged
  BY <1>11 DEF HeartbeatUnchanged, Goto, Outside, agent, history
<1>12. CASE HeartbeatChanged
  BY <1>12 DEF HeartbeatChanged, Goto, runtime, agent
<1>13. CASE HeartbeatFails
  BY <1>13 DEF HeartbeatFails, Goto, row
<1>14. CASE MarkUnresponsive
  BY <1>14 DEF MarkUnresponsive, TickEnds, Goto, Outside, agent, history
<1>15. CASE ApplyChangedHeartbeat
  BY <1>15 DEF ApplyChangedHeartbeat, TickEnds, Goto, Outside, agent, history
<1>16. CASE TickRelabels
  BY <1>16 DEF TickRelabels, TickEnds, Goto, Outside, agent, history
<1>17. CASE TickToolActive
  BY <1>17 DEF TickToolActive, TickEnds, Goto, Smaller
<1>18. CASE GraceStarts
  BY <1>18 DEF GraceStarts, GotoRpc, Goto, row
<1>19. CASE AbortReturns
  BY <1>19 DEF AbortReturns, Goto, row, runtime, history
<1>20. CASE GraceEnds
  BY <1>20 DEF GraceEnds, GraceIsOver, Goto, row, history
<1>21. CASE TickWaits
  BY <1>21 DEF TickWaits, TickEnds, Goto, Outside, agent, history
<1>22. CASE TickStalls
  BY <1>22 DEF TickStalls, TickEnds, Goto, Outside, agent, history
<1>23. CASE UNCHANGED vars
  BY <1>23 DEF vars, row, runtime, agent, thread, history
<1>24. QED
  BY <1>1, <1>2, <1>3, <1>4, <1>5, <1>6, <1>7, <1>8, <1>9, <1>10, <1>11, <1>12, <1>13,
    <1>14, <1>15, <1>16, <1>17, <1>18, <1>19, <1>20, <1>21, <1>22, <1>23 DEF Next, Tick

\* Every step keeps the idleness of a RUNNING or TOOL_RUNNING row within its bound.
LEMMA LabelStep ==
  ASSUME TypeOK, Clock, StallInv, NEW s \in {"RUNNING", "TOOL_RUNNING"}, LabelInv(s),
         [Next]_vars
  PROVE  LabelInv(s)'
<1> USE Thresholds DEF TypeOK, Clock, LabelInv, InTick, Slack, Threshold, Passive, None,
  Horizon, StalledBy, TickSpan
<1>1. CASE TimePasses
  BY <1>1 DEF TimePasses, Older, Smaller
<1>2. CASE AgentDies
  BY <1>2 DEF AgentDies, row, runtime, thread, history
<1>3. CASE OtherEvent
  <2>1. PICK ev \in EventKinds \ {"settled"} :
          AgentEvent(ev) /\ UNCHANGED <<stop, alive, owed>>
    BY <1>3 DEF OtherEvent
  <2>2. exec' # "STALLED" /\ (exec \in Final <=> exec' \in Final)
    BY <2>1, EventState DEF AgentEvent
  <2>3. QED
    BY <2>1, <2>2 DEF AgentEvent, HandleEvent, EventClears, thread, StallInv, Final
<1>4. CASE Settles
  <2>1. exec' # "STALLED"
    BY <1>4, EventState DEF Settles, AgentEvent, EventKinds
  <2>2. QED
    BY <1>4, <2>1 DEF Settles, AgentEvent, HandleEvent, EventClears, thread, StallInv, Final
<1>5. CASE LateAnswer
  <2>1. exec' # "STALLED" /\ (exec \in Final <=> exec' \in Final)
    BY <1>5, EventState DEF LateAnswer, EventKinds
  <2>2. QED
    BY <1>5, <2>1 DEF LateAnswer, HandleEvent, EventClears, thread, StallInv, Final
<1>6. CASE WatchdogStops
  BY <1>6 DEF WatchdogStops, Goto, row, runtime, agent, history, Final
<1>7. CASE WatchdogSleeps
  BY <1>7 DEF WatchdogSleeps, row, runtime, agent, history
<1>8. CASE TickCap
  BY <1>8 DEF TickCap, TickDue, TickEnds, Goto, history
<1>9. CASE TickCrashed
  BY <1>9 DEF TickCrashed, TickDue, TickEnds, Goto, Outside, agent, history
<1>10. CASE TickBegins
  BY <1>10 DEF TickBegins, TickDue, Silence, QuietThreshold, row, runtime, agent,
    history
<1>11. CASE HeartbeatUnchanged
  BY <1>11 DEF HeartbeatUnchanged, Goto, Outside, agent, history
<1>12. CASE HeartbeatChanged
  BY <1>12 DEF HeartbeatChanged, Goto, runtime, agent
<1>13. CASE HeartbeatFails
  BY <1>13 DEF HeartbeatFails, Goto, row
<1>14. CASE MarkUnresponsive
  BY <1>14 DEF MarkUnresponsive, TickEnds, Goto, Outside, agent, history
<1>15. CASE ApplyChangedHeartbeat
  BY <1>15 DEF ApplyChangedHeartbeat, TickEnds, Goto, Outside, agent, history, Healed,
    StallInv
<1>16. CASE TickRelabels
  BY <1>16 DEF TickRelabels, TickEnds, Goto, Outside, agent, history, StallInv
<1>17. CASE TickToolActive
  BY <1>17 DEF TickToolActive, TickEnds, Goto, Smaller
<1>18. CASE GraceStarts
  BY <1>18 DEF GraceStarts, GotoRpc, Goto, row
<1>19. CASE AbortReturns
  BY <1>19 DEF AbortReturns, Goto, row, runtime, history
<1>20. CASE GraceEnds
  BY <1>20 DEF GraceEnds, GraceIsOver, Goto, row, history
<1>21. CASE TickWaits
  BY <1>21 DEF TickWaits, TickEnds, Goto, Outside, agent, history
<1>22. CASE TickStalls
  BY <1>22 DEF TickStalls, TickEnds, Goto, Outside, agent, history
<1>23. CASE UNCHANGED vars
  BY <1>23 DEF vars, row, runtime, agent, thread, history
<1>24. QED
  BY <1>1, <1>2, <1>3, <1>4, <1>5, <1>6, <1>7, <1>8, <1>9, <1>10, <1>11, <1>12, <1>13,
    <1>14, <1>15, <1>16, <1>17, <1>18, <1>19, <1>20, <1>21, <1>22, <1>23 DEF Next, Tick

\* Every step keeps the silence of a task that is not STALLED within its bound.
LEMMA StallStep ==
  ASSUME TypeOK, Clock, StallInv, [Next]_vars PROVE StallInv'
<1> USE Thresholds DEF TypeOK, Clock, StallInv, InTick, Unasked, Asked, Quiet, None,
  Horizon, StalledBy, TickSpan
<1>1. CASE TimePasses
  BY <1>1 DEF TimePasses, Older, Smaller
<1>2. CASE AgentDies
  BY <1>2 DEF AgentDies, row, runtime, thread, history
<1>3. CASE OtherEvent
  <2>1. PICK ev \in EventKinds \ {"settled"} :
          AgentEvent(ev) /\ UNCHANGED <<stop, alive, owed>>
    BY <1>3 DEF OtherEvent
  <2>2. exec' # "STALLED" /\ (exec \in Final <=> exec' \in Final)
    BY <2>1, EventState DEF AgentEvent
  <2>3. QED
    BY <2>1, <2>2 DEF AgentEvent, HandleEvent, EventClears, thread
<1>4. CASE Settles
  <2>1. exec' # "STALLED"
    BY <1>4, EventState DEF Settles, AgentEvent, EventKinds
  <2>2. QED
    BY <1>4, <2>1 DEF Settles, AgentEvent, HandleEvent, EventClears, thread
<1>5. CASE LateAnswer
  <2>1. exec' # "STALLED" /\ (exec \in Final <=> exec' \in Final)
    BY <1>5, EventState DEF LateAnswer, EventKinds
  <2>2. QED
    BY <1>5, <2>1 DEF LateAnswer, HandleEvent, EventClears, thread
<1>6. CASE WatchdogStops
  BY <1>6 DEF WatchdogStops, Goto, row, runtime, agent, history
<1>7. CASE WatchdogSleeps
  BY <1>7 DEF WatchdogSleeps, row, runtime, agent, history
<1>8. CASE TickCap
  BY <1>8 DEF TickCap, TickDue, TickEnds, Goto, history, Final
<1>9. CASE TickCrashed
  BY <1>9 DEF TickCrashed, TickDue, TickEnds, Goto, Outside, agent, history, Final
<1>10. CASE TickBegins
  BY <1>10 DEF TickBegins, TickDue, Silence, QuietThreshold, row, runtime, agent,
    history
<1>11. CASE HeartbeatUnchanged
  BY <1>11 DEF HeartbeatUnchanged, Goto, Outside, agent, history
<1>12. CASE HeartbeatChanged
  BY <1>12 DEF HeartbeatChanged, Goto, runtime, agent
<1>13. CASE HeartbeatFails
  BY <1>13 DEF HeartbeatFails, Goto, row
<1>14. CASE MarkUnresponsive
  BY <1>14 DEF MarkUnresponsive, TickEnds, Goto, Outside, agent, history
<1>15. CASE ApplyChangedHeartbeat
  BY <1>15 DEF ApplyChangedHeartbeat, TickEnds, Goto, Outside, agent, history, Healed
<1>16. CASE TickRelabels
  BY <1>16 DEF TickRelabels, TickEnds, Goto, Outside, agent, history
<1>17. CASE TickToolActive
  BY <1>17 DEF TickToolActive, TickEnds, Goto, Smaller
<1>18. CASE GraceStarts
  BY <1>18 DEF GraceStarts, GotoRpc, Goto, row
<1>19. CASE AbortReturns
  BY <1>19 DEF AbortReturns, Goto, row, runtime, history
<1>20. CASE GraceEnds
  BY <1>20 DEF GraceEnds, GraceIsOver, Goto, row, history
<1>21. CASE TickWaits
  BY <1>21 DEF TickWaits, TickEnds, Goto, Outside, agent, history
<1>22. CASE TickStalls
  BY <1>22 DEF TickStalls, TickEnds, Goto, Outside, agent, history
<1>23. CASE UNCHANGED vars
  BY <1>23 DEF vars, row, runtime, agent, thread, history
<1>24. QED
  BY <1>1, <1>2, <1>3, <1>4, <1>5, <1>6, <1>7, <1>8, <1>9, <1>10, <1>11, <1>12, <1>13,
    <1>14, <1>15, <1>16, <1>17, <1>18, <1>19, <1>20, <1>21, <1>22, <1>23 DEF Next, Tick

\* All of it.
IInv ==
  /\ TypeOK /\ Clock /\ SteadyInv /\ IgnoredInv /\ StallInv
  /\ LabelInv("RUNNING") /\ LabelInv("TOOL_RUNNING")

LEMMA InitInv == Init => IInv
<1> SUFFICES ASSUME Init PROVE IInv
  OBVIOUS
<1> USE Thresholds DEF Init, NoTick, None, Final
<1>1. TypeOK
  <2>1. tick \in [current : Resumable, silence : {"fresh", "waiting", "quiet"}]
    BY DEF Resumable
  <2>2. 0 \in 0..Horizon /\ 0 \in 0..Heartbeat /\ 0 \in 0..(2 * RpcTimeout)
        /\ 0 \in 0..(Interval + RpcTimeout) /\ -1 \in -1..Grace
        /\ -1 \in -1..(3 * Window + 1) /\ -1 \in -1..(Grace + 2 * RpcTimeout)
    BY DEF Horizon, StalledBy, TickSpan
  <2>3. QED
    BY <2>1, <2>2 DEF TypeOK, ExecStates, Resumable, Tools
<1>2. Clock /\ SteadyInv /\ IgnoredInv
  BY DEF Clock, SteadyInv, IgnoredInv
<1>3. StallInv
  BY DEF StallInv, InTick, Quiet, Unasked
<1>4. LabelInv("RUNNING") /\ LabelInv("TOOL_RUNNING")
  BY DEF LabelInv, InTick, Slack, Threshold
<1>5. QED
  BY <1>1, <1>2, <1>3, <1>4 DEF IInv

LEMMA InvStep == ASSUME IInv, [Next]_vars PROVE IInv'
BY ClockStep, TypeStep, SteadyStep, IgnoredStep, StallStep, LabelStep DEF IInv

LEMMA Invariance == Spec => []IInv
<1>1. IInv /\ [Next]_vars => IInv'
  BY InvStep
<1>2. QED
  BY InitInv, <1>1, PTL DEF Spec

\* The type invariant: whatever the thresholds and the agent do, the clocks of the
\* watchdog stay within their bounds; a tick's reading of the clock is never older
\* than its heartbeat and its abort request.
THEOREM TypeCorrect == Spec => []TypeOK
<1>1. IInv => TypeOK
  BY DEF IInv
<1>2. QED
  BY Invariance, <1>1, PTL

\* An agent that was never silent for the soft threshold is never asked to abort and
\* never called STALLED, even if every heartbeat fails.
THEOREM SteadyCorrect == Spec => []SteadyIsLeftAlone
<1>1. IInv => SteadyIsLeftAlone
  BY DEF IInv, SteadyInv, SteadyIsLeftAlone
<1>2. QED
  BY Invariance, <1>1, PTL

\* A tick decides for STALLED only when an abort request has gone unanswered for the
\* grace, less the heartbeat that came before the request.
THEOREM IgnoredAbortCorrect == Spec => OnlyAnIgnoredAbortStalls
<1>1. ASSUME IInv, [Next]_vars, pc = "quiet", pc' = "stall"
      PROVE  abort >= Grace - RpcTimeout /\ silent >= abort
  <2>1. GraceEnds
    BY <1>1 DEF Next, Tick, TimePasses, AgentDies, OtherEvent, Settles, LateAnswer,
      AgentEvent, HandleEvent, WatchdogStops, WatchdogSleeps, TickCap, TickCrashed,
      TickBegins, TickDue, HeartbeatUnchanged, HeartbeatChanged, HeartbeatFails,
      MarkUnresponsive, ApplyChangedHeartbeat, TickRelabels, TickToolActive, GraceStarts,
      AbortReturns, TickWaits, TickStalls, TickEnds, GotoRpc, Goto, thread, vars
  <2>2. grace # None /\ grace - lag >= Grace
    BY <1>1, <2>1 DEF GraceEnds, GraceIsOver, Goto
  <2>3. QED
    BY <1>1, <2>2, Thresholds DEF IInv, IgnoredInv, Clock, TypeOK, None
<1>2. IInv /\ [Next]_vars => (pc = "quiet" /\ pc' = "stall"
                               => abort >= Grace - RpcTimeout /\ silent >= abort)
  BY <1>1
<1>3. QED
  BY Invariance, <1>2, PTL DEF Spec, OnlyAnIgnoredAbortStalls

\* A row that has been idle for its threshold, a tick and the RPC calls of the next
\* tick no longer shows RUNNING or TOOL_RUNNING.
THEOREM LabelCorrect == Spec => []IdleIsLabelled
<1>1. ASSUME IInv, NEW s \in {"RUNNING", "TOOL_RUNNING"}, exec = s, ~stop
      PROVE  idle < Threshold(s) + Interval + 3 * RpcTimeout
  <2>1. LabelInv(s)
    BY <1>1 DEF IInv
  <2>2. QED
    BY <1>1, <2>1, Thresholds DEF IInv, TypeOK, Clock, LabelInv, InTick, Slack, Threshold
<1>2. IInv => IdleIsLabelled
  BY <1>1, Thresholds DEF IdleIsLabelled, LabelledBy, RelabelledBy, TickSpan, Threshold,
    IInv, TypeOK
<1>3. QED
  BY Invariance, <1>2, PTL

\* An agent that answers its heartbeats and does nothing is STALLED, or final, by the
\* time it has been silent for the larger threshold, the grace and two ticks.
THEOREM StallCorrect == Spec => []StallIsDetected
<1>1. IInv => StallIsDetected
  <2> SUFFICES ASSUME IInv, ~failed, ~stop, exec \notin Final \cup {"STALLED"}
               PROVE  silent < StalledBy
    BY Thresholds DEF StallIsDetected, IInv, TypeOK, StalledBy, TickSpan
  <2>1. pc \in {"sleep", "loop", "beat", "relabel", "quiet", "stall", "heal", "unresp"}
          => silent < StalledBy
    BY Thresholds DEF IInv, TypeOK, Clock, StallInv, Quiet, Asked, Unasked, StalledBy,
      TickSpan
  <2>2. pc \in {"abort", "waiting"} => silent < StalledBy
    BY Thresholds DEF IInv, TypeOK, Clock, StallInv, Unasked, StalledBy, TickSpan, None
  <2>3. QED
    BY <2>1, <2>2 DEF IInv, TypeOK, StallInv
<1>2. QED
  BY Invariance, <1>1, PTL

============================================================================
