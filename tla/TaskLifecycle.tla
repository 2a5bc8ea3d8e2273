--------------------------- MODULE TaskLifecycle ---------------------------
(***************************************************************************)
(* One managed Pi task (core.py): its registry row and every thread of the *)
(* host process that writes to it - the boot thread, the RPC reader and    *)
(* the watchdog of each Pi process, the verifier threads, the pi_abort,    *)
(* pi_steer, pi_verify and pi_resume tools, and recovery after the host    *)
(* died.                                                                   *)
(*                                                                         *)
(* One step is one registry call, with the in-memory writes around it: a   *)
(* thread can be overtaken between any two registry calls and at every RPC *)
(* or process call.  _set_execution_state is an unguarded write; only the  *)
(* reader uses the compare-and-set transition_task_state.  A read that     *)
(* only guards the thread's next write is taken together with it.          *)
(*                                                                         *)
(* Clock readings are nondeterministic choices: a tick may find the task   *)
(* active, waiting or quiet, and a stall grace over or not.  A generation  *)
(* is one _TaskRuntime with its Pi process, reader and watchdog; the first *)
(* is started by pi_task, each recovery takes the next.                    *)
(***************************************************************************)
EXTENDS Naturals, FiniteSets, ExecState

CONSTANTS
  MaxGens,        \* bound: generations
  ResumeBusy,     \* bound: may pi_resume overlap the task's other threads?
  MaxVerifiers,   \* bound: verifier threads running at the same time
  Budgets         \* bound: how often each outside event may happen in a run

\* "raise" is an exception in recover_all, "fail" one in the registry call of a
\* notice or of a wake request.
Events == {"crash", "abort", "steer", "verify", "resume", "raise", "fail"}

ASSUME ConstantsAssumption ==
  /\ MaxGens \in Nat \ {0}
  /\ MaxVerifiers \in Nat \ {0}
  /\ ResumeBusy \in BOOLEAN
  /\ Budgets \subseteq [Events -> Nat]
  /\ \A b \in Budgets : MaxGens > b["crash"] + b["resume"]

Gens == 1..MaxGens
Slots == 1..MaxVerifiers

VerifStates == {"NOT_RUN", "PENDING", "PASS", "FAIL", "UNRUNNABLE"}
Verdicts == {"PASS", "FAIL", "UNRUNNABLE"}
Kinds == {"failed", "stalled", "settled", "verifier"}

VARIABLES
  \* the registry row
  exec, verif, wake,
  notes,       \* kinds of notification enqueued (a stable id per kind)
  gated,       \* has the task a verifier spec?
  eligible,    \* continuation_enabled
  \* the host process
  up,
  starting,    \* is recover_all running (the tools wait for get_manager)?
  cur,         \* the generation registered in _runtimes, 0 for none
  gens,        \* generations used
  attached,    \* generation -> rt.transport is set
  grace,       \* generation -> rt.stall_grace_started_at is set
  pre,         \* generation -> rt.pre_unresponsive_state
  stop,        \* generation -> rt.stop_watchdog
  \* the Pi processes (external): working ones emit events, a dying one has
  \* exited with lines left in its stdout, and an orphan outlived its host and
  \* has nobody at its pipes
  proc,
  \* the threads
  boot, rdPc, rd, wdPc, wd, verPc, verTool, abPc, abOn, recPc, recGen,
  \* bounds and history
  budget,
  seen,
  stray        \* generations whose living process the manager let go of

row == <<exec, verif, wake, notes>>
conf == <<gated, eligible>>
mgr == <<up, starting, cur, gens>>
rts == <<attached, grace, pre, stop>>
reader == <<rdPc, rd>>
watchdog == <<wdPc, wd>>
verifier == <<verPc, verTool>>
abort == <<abPc, abOn>>
recovery == <<recPc, recGen>>
history == <<budget, seen, stray>>
vars == <<row, conf, mgr, rts, proc, boot, reader, watchdog, verifier, abort,
          recovery, history>>

\* A process the manager can talk to, and one that may write to the session.
Alive(g) == proc[g] \in {"idle", "working"}
Lives(g) == Alive(g) \/ proc[g] = "orphan"
Exited(g) == proc[g] \in {"dying", "dead"}

RowOK ==
  /\ exec \in ExecStates
  /\ verif \in VerifStates
  /\ wake \in {"null", "pending", "disabled", "accepted"}
  /\ notes \subseteq Kinds
  /\ seen \subseteq {"settled", "passed", "swept", "aborted", "disposed",
                  "verified", "abandoned", "overlap", "lostNotice", "lostWake"}

HostOK ==
  /\ gated \in BOOLEAN /\ eligible \in BOOLEAN
  /\ up \in BOOLEAN /\ starting \in BOOLEAN
  /\ cur \in 0..MaxGens /\ gens \in Gens
  /\ budget \in [Events -> Nat]

RuntimesOK ==
  /\ attached \in [Gens -> BOOLEAN]
  /\ grace \in [Gens -> BOOLEAN]
  /\ pre \in [Gens -> Resumable \cup {"none"}]
  /\ stop \in [Gens -> BOOLEAN]
  /\ proc \in [Gens -> {"none", "idle", "working", "dying", "dead", "orphan"}]
  /\ stray \subseteq Gens

ReadersOK ==
  /\ rdPc \in [Gens -> {"idle", "cas", "update", "settle"}]
  /\ rd \in [Gens -> [settled : BOOLEAN, new : ExecStates \cup {"none"},
                      on : 0..MaxGens]]
  /\ \A g \in Gens : rdPc[g] = "cas" => rd[g].new # "none"

WatchdogsOK ==
  /\ wdPc \in [Gens -> {"none", "loop", "poll", "beat", "waiting", "nFailed",
                        "nStalled", "wake", "exited"}]
  /\ wd \in [Gens -> [on : 0..MaxGens, current : Resumable]]

ToolsOK ==
  /\ boot \in {"off", "spawn", "state", "prompt", "running", "watch",
               "fail", "notify", "wake"}
  /\ verPc \in [Slots -> {"off", "check", "gate", "notify", "wake"}]
  /\ verTool \in [Slots -> BOOLEAN]
  /\ abPc \in {"off", "kill", "set", "notify"}
  /\ abOn \in 0..MaxGens
  /\ recPc \in {"off", "spawn", "state", "waiting", "watch", "reject", "notify",
                "wake", "gate", "done", "doneWake", "sweep"}
  /\ recGen \in 0..MaxGens

TypeOK == RowOK /\ HostOK /\ RuntimesOK /\ ReadersOK /\ WatchdogsOK /\ ToolsOK

\* A thread's local variables between two events and between two ticks.
NoEvent == [settled |-> FALSE, new |-> "none", on |-> 0]
NoTick == [on |-> 0, current |-> "STARTING"]

\* start_task has created the row, registered the runtime and started the
\* boot thread.
Init ==
  /\ exec = "STARTING" /\ verif = "NOT_RUN" /\ wake = "null" /\ notes = {}
  /\ gated \in BOOLEAN /\ eligible \in BOOLEAN
  /\ up = TRUE /\ starting = FALSE /\ cur = 1 /\ gens = 1
  /\ attached = [g \in Gens |-> FALSE]
  /\ grace = [g \in Gens |-> FALSE]
  /\ pre = [g \in Gens |-> "none"]
  /\ stop = [g \in Gens |-> FALSE]
  /\ proc = [g \in Gens |-> "none"]
  /\ boot = "spawn"
  /\ rdPc = [g \in Gens |-> "idle"] /\ rd = [g \in Gens |-> NoEvent]
  /\ wdPc = [g \in Gens |-> "none"] /\ wd = [g \in Gens |-> NoTick]
  /\ verPc = [v \in Slots |-> "off"] /\ verTool = [v \in Slots |-> FALSE]
  /\ abPc = "off" /\ abOn = 0
  /\ recPc = "off" /\ recGen = 0
  /\ budget \in Budgets
  /\ seen = {} /\ stray = {}

----------------------------------------------------------------------------
\* Shared by several threads.  Operators named Mut... are not used by the
\* specification: each is a plausible bug in the definition that follows it.

Spend(e) == budget[e] > 0 /\ budget' = [budget EXCEPT ![e] = @ - 1]

\* The tools and the wake worker get the manager once recovery is over.
Ready == up /\ ~starting

\* _enqueue_notification: INSERT OR IGNORE under a stable id.  An exception is
\* swallowed and the caller goes on as if the notice were there.
Notify(kinds) ==
  \/ notes' = notes \cup kinds /\ UNCHANGED <<budget, seen>>
  \/ Spend("fail") /\ seen' = seen \cup {"lostNotice"} /\ UNCHANGED notes

WakeAfter == IF wake # "null" THEN wake
             ELSE IF eligible THEN "pending" ELSE "disabled"

\* _request_terminal_wake and begin_terminal_wake, with the history to record;
\* an exception is swallowed here too.
RequestWake(tags) ==
  \/ wake' = WakeAfter /\ seen' = seen \cup tags /\ UNCHANGED budget
  \/ Spend("fail") /\ seen' = seen \cup {"lostWake"} /\ UNCHANGED wake

\* Mutation: only a process that is at work is ended.
MutKilled(g) == IF proc[g] = "working" THEN "dying" ELSE proc[g]
\* A process that ended, on its own or by SIGTERM, wait, SIGKILL and wait: it is
\* gone, its last output may not be.
Killed(g) == IF proc[g] = "working" THEN "dying"
             ELSE IF Lives(g) THEN "dead" ELSE proc[g]

\* The manager turns away from a process without knowing that it ended.
LetGo(g) == stray' = stray \cup {h \in Gens : h = g /\ Alive(h)}

\* Mutation: no default when there is no remembered state.
MutHealed(g) == IF g = 0 THEN "RUNNING" ELSE pre[g]
\* The state to heal UNRESPONSIVE to: pre_unresponsive_state or RUNNING.
Healed(g) == IF g = 0 THEN "RUNNING"
             ELSE IF pre[g] = "none" THEN "RUNNING" ELSE pre[g]

\* _start_watchdog: at most one watchdog thread per runtime.
StartWatchdog ==
  IF cur = 0 \/ wdPc[cur] # "none" THEN UNCHANGED <<stop, wdPc>>
  ELSE /\ stop' = [stop EXCEPT ![cur] = FALSE]
       /\ wdPc' = [wdPc EXCEPT ![cur] = "loop"]

StopWatchdog == stop' = [g \in Gens |-> g = cur \/ stop[g]]

----------------------------------------------------------------------------
\* _boot_and_run, of generation 1
BootFrame == UNCHANGED <<conf, mgr, grace, pre, reader, wd, verifier, abort,
                         recovery>>

\* The spawn raises: CRASHED, and the thread returns.
BootSpawnFails ==
  /\ boot = "spawn"
  /\ exec' = "CRASHED"
  /\ boot' = "off"
  /\ UNCHANGED <<verif, wake, notes, attached, stop, proc, wdPc, history>> /\ BootFrame

BootSpawn ==
  /\ boot = "spawn"
  /\ proc' = [proc EXCEPT ![1] = "idle"]
  /\ attached' = [attached EXCEPT ![1] = TRUE]
  /\ boot' = "state"
  /\ UNCHANGED <<row, stop, wdPc, history>> /\ BootFrame

\* get_state answers with the allocated session's identity.
BootIdentified ==
  /\ boot = "state"
  /\ Alive(1)
  /\ boot' = "prompt"
  /\ UNCHANGED <<row, rts, proc, wdPc, history>> /\ BootFrame

BootPrompted ==
  /\ boot = "prompt"
  /\ Alive(1)
  /\ proc' = [proc EXCEPT ![1] = "working"]
  /\ boot' = "running"
  /\ UNCHANGED <<row, rts, wdPc, history>> /\ BootFrame

\* get_state or the prompt fails or times out, or the identity is wrong.  The
\* process gets a SIGTERM that nobody waits for, so it may live on, and a prompt
\* that timed out may have been taken.
BootRpcFails ==
  /\ boot \in {"state", "prompt"}
  /\ \/ UNCHANGED proc
     \/ boot = "prompt" /\ Alive(1) /\ proc' = [proc EXCEPT ![1] = "working"]
  /\ LetGo(1)
  /\ boot' = "fail"
  /\ UNCHANGED <<row, rts, wdPc, budget, seen>> /\ BootFrame

BootRunning ==
  /\ boot = "running"
  /\ exec' = "RUNNING"
  /\ boot' = "watch"
  /\ UNCHANGED <<verif, wake, notes, rts, proc, wdPc, history>> /\ BootFrame

BootWatch ==
  /\ boot = "watch"
  /\ StartWatchdog
  /\ boot' = "off"
  /\ UNCHANGED <<row, attached, proc, history>> /\ BootFrame

\* _handle_early_failure
BootCrashed ==
  /\ boot = "fail"
  /\ exec' = "CRASHED"
  /\ boot' = "notify"
  /\ UNCHANGED <<verif, wake, notes, rts, proc, wdPc, history>> /\ BootFrame

BootNotify ==
  /\ boot = "notify"
  /\ Notify({"failed"})
  /\ boot' = "wake"
  /\ UNCHANGED <<exec, verif, wake, rts, proc, wdPc, stray>> /\ BootFrame

BootWake ==
  /\ boot = "wake"
  /\ RequestWake({})
  /\ boot' = "off"
  /\ UNCHANGED <<exec, verif, notes, rts, proc, wdPc, stray>> /\ BootFrame

Boot ==
  \/ BootSpawnFails \/ BootSpawn \/ BootIdentified \/ BootPrompted
  \/ BootRpcFails \/ BootRunning \/ BootWatch \/ BootCrashed \/ BootNotify
  \/ BootWake

----------------------------------------------------------------------------
\* _on_event, in the reader thread of generation g
ReaderFrame == UNCHANGED <<wake, notes, conf, mgr, attached, boot, watchdog,
                           abort, recovery, budget, stray>>

\* An event arrives and the handler reads the row.
ReadEvent(g, ev) ==
  /\ rdPc[g] = "idle"
  /\ proc[g] \in {"working", "dying"}
  /\ LET before == IF exec = "UNRESPONSIVE" THEN Healed(cur) ELSE exec
         new == NewState(ev, before)
         moves == exec \notin Final /\ new # exec
     IN  /\ rd' = [rd EXCEPT ![g] = [settled |-> ev = "settled", on |-> cur,
                                    new |-> IF moves THEN new ELSE "none"]]
         /\ rdPc' = [rdPc EXCEPT ![g] = IF moves THEN "cas" ELSE "update"]
  /\ IF ev = "settled"
       THEN /\ proc' = [proc EXCEPT ![g] = IF @ = "working" THEN "idle" ELSE "dead"]
            /\ seen' = seen \cup {"settled"}
       ELSE UNCHANGED <<proc, seen>>
  /\ UNCHANGED <<exec, verif, grace, pre, stop, verifier>> /\ ReaderFrame

\* Mutation: the transition is a plain update.
MutMayTransition == TRUE
\* transition_task_state's WHERE clause
MayTransition == exec \notin Final

ReaderTransition(g) ==
  /\ rdPc[g] = "cas"
  /\ exec' = IF MayTransition THEN rd[g].new ELSE exec
  /\ rd' = [rd EXCEPT ![g].new = "none"]
  /\ rdPc' = [rdPc EXCEPT ![g] = "update"]
  /\ UNCHANGED <<verif, rts, proc, verifier, seen>> /\ ReaderFrame

\* The plain update, and the clearing of the grace and the remembered state.
ReaderUpdate(g) ==
  /\ rdPc[g] = "update"
  /\ verif' = IF ~rd[g].settled THEN verif
              ELSE IF gated /\ rd[g].on # 0 THEN "PENDING" ELSE "NOT_RUN"
  /\ grace' = [h \in Gens |-> grace[h] /\ h # rd[g].on]
  /\ pre' = [h \in Gens |-> IF h = rd[g].on THEN "none" ELSE pre[h]]
  /\ rdPc' = [rdPc EXCEPT ![g] = IF rd[g].settled THEN "settle" ELSE "idle"]
  /\ rd' = [rd EXCEPT ![g] = NoEvent]
  /\ UNCHANGED <<exec, stop, proc, verifier, seen>> /\ ReaderFrame

\* _on_settled: stop the watchdog, dispose of the process, start a verifier.
ReaderSettled(g) ==
  /\ rdPc[g] = "settle"
  /\ StopWatchdog
  /\ proc' = [h \in Gens |-> IF h = cur /\ attached[h] THEN Killed(h) ELSE proc[h]]
  /\ seen' = seen \cup (IF exec = "SETTLED" /\ cur # 0 /\ attached[cur] /\ Alive(cur)
                         THEN {"disposed"} ELSE {})
  /\ \E v \in Slots :
       /\ verPc[v] = "off"
       /\ verPc' = [verPc EXCEPT ![v] = "check"]
       /\ verTool' = [verTool EXCEPT ![v] = FALSE]
  /\ rdPc' = [rdPc EXCEPT ![g] = "idle"]
  /\ UNCHANGED <<exec, verif, grace, pre, rd>> /\ ReaderFrame

Reader(g) == ReaderTransition(g) \/ ReaderUpdate(g) \/ ReaderSettled(g)

----------------------------------------------------------------------------
\* _run_verifier, in a thread of its own, and the pi_verify tool
VerifierFrame == UNCHANGED <<exec, conf, mgr, rts, proc, boot, reader, watchdog,
                             abort, recovery, stray>>

VerifyTool(v) ==
  /\ Ready
  /\ exec = "SETTLED"
  /\ verPc[v] = "off"
  /\ Spend("verify")
  /\ verPc' = [verPc EXCEPT ![v] = "check"]
  /\ verTool' = [verTool EXCEPT ![v] = TRUE]
  /\ seen' = seen \cup {"verified"}
  /\ UNCHANGED <<verif, wake, notes>> /\ VerifierFrame

\* An ungated task is announced at once.  A gate refuses a task that is no
\* longer SETTLED; the finally clause announces it all the same.
VerifyCheck(v) ==
  /\ verPc[v] = "check"
  /\ LET run == verTool[v] \/ (gated /\ cur # 0) IN
       IF run /\ exec = "SETTLED"
         THEN /\ verif' = "PENDING"
              /\ verPc' = [verPc EXCEPT ![v] = "gate"]
         ELSE /\ UNCHANGED verif
              /\ verPc' = [verPc EXCEPT ![v] = IF verTool[v] THEN "off" ELSE "notify"]
  /\ UNCHANGED <<wake, notes, verTool, budget, seen>> /\ VerifierFrame

\* The gate's exit code: 0; 126, 127 or a timeout; anything else.
VerifyGate(v, outcome) ==
  /\ verPc[v] = "gate"
  /\ verif' = outcome
  /\ seen' = seen \cup (IF outcome = "PASS" THEN {"passed"} ELSE {})
  /\ verPc' = [verPc EXCEPT ![v] = IF verTool[v] THEN "off" ELSE "notify"]
  /\ UNCHANGED <<wake, notes, verTool, budget>> /\ VerifierFrame

\* _notify_done
DoneKind == IF verif \in Verdicts THEN "verifier" ELSE "settled"

VerifyNotify(v) ==
  /\ verPc[v] = "notify"
  /\ Notify({DoneKind})
  /\ verPc' = [verPc EXCEPT ![v] = "wake"]
  /\ UNCHANGED <<verif, wake, verTool>> /\ VerifierFrame

VerifyWake(v) ==
  /\ verPc[v] = "wake"
  /\ RequestWake({})
  /\ verPc' = [verPc EXCEPT ![v] = "off"]
  /\ UNCHANGED <<verif, notes, verTool>> /\ VerifierFrame

Verifier(v) ==
  \/ VerifyCheck(v) \/ VerifyNotify(v) \/ VerifyWake(v)
  \/ \E outcome \in Verdicts : VerifyGate(v, outcome)

----------------------------------------------------------------------------
\* _watchdog_loop and watchdog_tick, in the watchdog thread of generation g
WatchdogFrame == UNCHANGED <<verif, conf, mgr, attached, stop, proc, boot, reader,
                             verifier, abort, recovery, stray>>
WdGoto(g, to) == wdPc' = [wdPc EXCEPT ![g] = to]
WdLeave(g, to) == WdGoto(g, to) /\ wd' = [wd EXCEPT ![g] = NoTick]

\* The loop ends on its own runtime's flag, or on a final row, which it reads
\* after and the tick before anything else.  The tick takes the registered
\* runtime and one reading of the row.
TickStart(g) ==
  /\ wdPc[g] = "loop"
  /\ IF stop[g] \/ exec \in Final THEN WdLeave(g, "exited")
     ELSE /\ WdGoto(g, "poll")
          /\ wd' = [wd EXCEPT ![g] = [on |-> cur, current |-> exec]]
  /\ UNCHANGED <<row, grace, pre, budget, seen>> /\ WatchdogFrame

\* Mutation: the liveness check is lost.
MutProcessExited(g) == FALSE
ProcessExited(g) == attached[g] /\ Exited(g)

\* Process liveness: an exit before settlement is a crash.
TickPoll(g) ==
  /\ wdPc[g] = "poll"
  /\ IF ProcessExited(wd[g].on) THEN exec' = "CRASHED" /\ WdLeave(g, "nFailed")
     ELSE WdGoto(g, "beat") /\ UNCHANGED <<exec, wd>>
  /\ UNCHANGED <<verif, wake, notes, grace, pre, budget, seen>> /\ WatchdogFrame

\* A heartbeat failed: _mark_unresponsive.
TickUnresponsive(g) ==
  /\ wdPc[g] = "beat"
  /\ LET on == wd[g].on IN
       pre' = [pre EXCEPT ![on] = IF @ = "none" THEN wd[g].current ELSE @]
  /\ exec' = "UNRESPONSIVE"
  /\ WdLeave(g, "loop")
  /\ UNCHANGED <<verif, wake, notes, grace, budget, seen>> /\ WatchdogFrame

\* The heartbeat saw a changed state: _apply_changed_heartbeat.
TickChanged(g) ==
  /\ wdPc[g] = "beat"
  /\ attached[wd[g].on] /\ Alive(wd[g].on)
  /\ LET on == wd[g].on IN
       /\ grace' = [grace EXCEPT ![on] = FALSE]
       /\ IF wd[g].current \in {"WAITING", "STALLED"}
            THEN exec' = "RUNNING" /\ UNCHANGED pre
          ELSE IF wd[g].current = "UNRESPONSIVE"
            THEN exec' = Healed(on) /\ pre' = [pre EXCEPT ![on] = "none"]
          ELSE UNCHANGED <<exec, pre>>
  /\ WdLeave(g, "loop")
  /\ UNCHANGED <<verif, wake, notes, budget, seen>> /\ WatchdogFrame

\* No heartbeat due, or an unchanged one, and the task is not quiet: it is
\* progressing, or idle for long enough to be WAITING.
TickCalm(g) ==
  /\ wdPc[g] = "beat"
  /\ \/ UNCHANGED exec
     \/ wd[g].current \in {"RUNNING", "WAITING"} /\ exec' = "WAITING"
  /\ WdLeave(g, "loop")
  /\ UNCHANGED <<verif, wake, notes, grace, pre, budget, seen>> /\ WatchdogFrame

\* Quiet, but the running tool's process tree burnt CPU.
TickToolActive(g) ==
  /\ wdPc[g] = "beat"
  /\ attached[wd[g].on] /\ Alive(wd[g].on)
  /\ wd[g].current = "TOOL_RUNNING"
  /\ grace' = [grace EXCEPT ![wd[g].on] = FALSE]
  /\ WdLeave(g, "loop")
  /\ UNCHANGED <<row, pre, budget, seen>> /\ WatchdogFrame

\* Quiet: the first such tick starts the grace and asks the agent to abort.
TickGraceStarts(g) ==
  /\ wdPc[g] = "beat"
  /\ attached[wd[g].on] /\ Alive(wd[g].on)
  /\ ~grace[wd[g].on]
  /\ grace' = [grace EXCEPT ![wd[g].on] = TRUE]
  /\ WdGoto(g, "waiting")
  /\ UNCHANGED <<row, wd, pre, budget, seen>> /\ WatchdogFrame

\* After the abort request, and on every quiet tick within the grace.
TickWaiting(g) ==
  /\ \/ wdPc[g] = "waiting"
     \/ wdPc[g] = "beat" /\ attached[wd[g].on] /\ Alive(wd[g].on) /\ grace[wd[g].on]
  /\ exec' = IF wd[g].current = "STALLED" THEN exec ELSE "WAITING"
  /\ WdLeave(g, "loop")
  /\ UNCHANGED <<verif, wake, notes, grace, pre, budget, seen>> /\ WatchdogFrame

\* The grace is over.
TickStalled(g) ==
  /\ wdPc[g] = "beat"
  /\ attached[wd[g].on] /\ Alive(wd[g].on)
  /\ grace[wd[g].on]
  /\ exec' = "STALLED"
  /\ WdLeave(g, "nStalled")
  /\ UNCHANGED <<verif, wake, notes, grace, pre, budget, seen>> /\ WatchdogFrame

\* Mutation: the notice is the end of it.
MutTickNotify(g) ==
  /\ wdPc[g] \in {"nFailed", "nStalled"}
  /\ Notify({IF wdPc[g] = "nFailed" THEN "failed" ELSE "stalled"})
  /\ WdLeave(g, "loop")
  /\ UNCHANGED <<exec, verif, wake, grace, pre>> /\ WatchdogFrame
TickNotify(g) ==
  /\ wdPc[g] \in {"nFailed", "nStalled"}
  /\ Notify({IF wdPc[g] = "nFailed" THEN "failed" ELSE "stalled"})
  /\ WdGoto(g, "wake")
  /\ UNCHANGED <<exec, verif, wake, wd, grace, pre>> /\ WatchdogFrame

TickWake(g) ==
  /\ wdPc[g] = "wake"
  /\ RequestWake({})
  /\ WdLeave(g, "loop")
  /\ UNCHANGED <<exec, verif, notes, grace, pre>> /\ WatchdogFrame

Watchdog(g) ==
  \/ TickStart(g) \/ TickPoll(g) \/ TickUnresponsive(g) \/ TickChanged(g)
  \/ TickCalm(g) \/ TickToolActive(g) \/ TickGraceStarts(g) \/ TickWaiting(g)
  \/ TickStalled(g) \/ TickNotify(g) \/ TickWake(g)

----------------------------------------------------------------------------
\* abort_task, called by the pi_abort tool
AbortFrame == UNCHANGED <<verif, wake, conf, mgr, attached, grace, pre, boot, reader,
                          watchdog, verifier, recovery>>

\* The row is read once; a final task is left alone.
AbortStart ==
  /\ Ready
  /\ abPc = "off"
  /\ exec \notin Final
  /\ Spend("abort")
  /\ abPc' = "kill"
  /\ abOn' = cur
  /\ UNCHANGED <<exec, notes, stop, proc, seen, stray>> /\ AbortFrame

\* RPC abort, SIGTERM, SIGKILL - if the runtime has a transport yet.
AbortKill ==
  /\ abPc = "kill"
  /\ proc' = [g \in Gens |-> IF g = abOn /\ attached[g] THEN Killed(g) ELSE proc[g]]
  /\ abPc' = "set"
  /\ UNCHANGED <<exec, notes, stop, abOn, history>> /\ AbortFrame

\* A process that was attached after the look for one to end is left alone.
AbortSet ==
  /\ abPc = "set"
  /\ StopWatchdog
  /\ exec' = "ABORTED"
  /\ seen' = seen \cup (IF wake = "null" THEN {"aborted"} ELSE {})
  /\ LetGo(cur)
  /\ abPc' = "notify"
  /\ UNCHANGED <<notes, proc, abOn, budget>> /\ AbortFrame

AbortNotify ==
  /\ abPc = "notify"
  /\ Notify({"failed"})
  /\ abPc' = "off"
  /\ abOn' = 0
  /\ UNCHANGED <<exec, stop, proc, stray>> /\ AbortFrame

Abort == AbortKill \/ AbortSet \/ AbortNotify

\* steer_task: only a live, attached, unfinished task.
Steer ==
  /\ Ready
  /\ exec \notin Final
  /\ cur # 0
  /\ attached[cur] /\ Alive(cur)
  /\ Spend("steer")
  /\ proc' = [proc EXCEPT ![cur] = "working"]
  /\ UNCHANGED <<row, conf, mgr, rts, boot, reader, watchdog, verifier, abort,
                 recovery, seen, stray>>

----------------------------------------------------------------------------
\* recover_task, called by the pi_resume tool and by recover_all
RecoveryFrame == UNCHANGED <<conf, up, grace, pre, boot, reader, wd, verifier, abort>>

UnresolvedGate == gated /\ verif \in {"PENDING", "NOT_RUN"}

\* Mutation: a task without a gate is not swept.
MutResolvedGate == verif \in Verdicts
ResolvedGate == verif \in Verdicts \/ (verif = "NOT_RUN" /\ ~gated)

\* A settled task gets a runtime without a process and its gate again; any
\* other task gets a new process on the same session.
Recover ==
  IF exec = "SETTLED"
    THEN IF UnresolvedGate
           THEN /\ recPc' = "gate"
                /\ verif' = "PENDING"
                /\ gens' = gens + 1 /\ recGen' = gens' /\ cur' = gens'
           ELSE UNCHANGED <<recPc, recGen, gens, verif, cur>>
    ELSE /\ recPc' = "spawn"
         /\ gens' = gens + 1 /\ recGen' = gens'
         /\ UNCHANGED <<verif, cur>>

\* No thread of the task is at work.
Quiescent ==
  /\ up /\ boot = "off" /\ abPc = "off" /\ recPc = "off"
  /\ \A g \in Gens : rdPc[g] = "idle" /\ wdPc[g] \in {"none", "exited"}
  /\ \A v \in Slots : verPc[v] = "off"

Resume ==
  /\ Ready
  /\ recPc = "off"
  /\ ResumeBusy \/ Quiescent
  /\ gens < MaxGens
  /\ Spend("resume")
  /\ Recover
  /\ seen' = (seen \ {"aborted", "disposed"})
              \cup (IF Quiescent THEN {} ELSE {"overlap"})
  /\ UNCHANGED <<exec, wake, notes, starting, attached, stop, proc, wdPc, stray>>
  /\ RecoveryFrame

\* The manager is built after a crash: recover_all looks at the row.
Restart ==
  /\ ~up
  /\ up' = TRUE
  /\ IF exec \in Resumable \/ (exec = "SETTLED" /\ UnresolvedGate)
       THEN /\ gens < MaxGens
            /\ starting' = TRUE
            /\ Recover
     ELSE IF exec = "SETTLED" /\ ResolvedGate /\ wake = "null"
       THEN /\ recPc' = "sweep"
            /\ starting' = TRUE
            /\ UNCHANGED <<gens, recGen, verif, cur>>
     ELSE UNCHANGED <<gens, starting, recPc, recGen, verif, cur>>
  /\ seen' = seen \ {"abandoned"}
  /\ UNCHANGED <<exec, wake, notes, conf, rts, proc, boot, reader, watchdog,
                 verifier, abort, budget, stray>>

\* recover_all raises over a task that comes before this one: get_manager goes
\* on with the manager, and this row waits for the next start.
RestartAbandoned ==
  /\ ~up
  /\ Spend("raise")
  /\ up' = TRUE
  /\ seen' = seen \cup {"abandoned"}
  /\ UNCHANGED <<row, conf, starting, cur, gens, rts, proc, boot, reader, watchdog,
                 verifier, abort, recovery, stray>>

\* Back to the tool's caller, or to get_manager's.
RecoveryEnds == recPc' = "off" /\ recGen' = 0 /\ starting' = FALSE

\* The session file is missing or empty, or the spawn raises.
RecoverySpawnFails ==
  /\ recPc = "spawn"
  /\ recPc' = "reject"
  /\ UNCHANGED <<row, starting, cur, gens, attached, stop, proc, wdPc, recGen, history>>
  /\ RecoveryFrame

RecoverySpawn ==
  /\ recPc = "spawn"
  /\ proc' = [proc EXCEPT ![recGen] = "idle"]
  /\ recPc' = "state"
  /\ UNCHANGED <<row, starting, cur, gens, attached, stop, wdPc, recGen, history>>
  /\ RecoveryFrame

\* get_state fails, or reports another session.  The SIGTERM is not waited for.
RecoveryRejected ==
  /\ recPc = "state"
  /\ LetGo(recGen)
  /\ recPc' = "reject"
  /\ UNCHANGED <<row, starting, cur, gens, attached, stop, proc, wdPc, recGen,
                 budget, seen>>
  /\ RecoveryFrame

\* The identity is proved: the new runtime replaces the registered one.
RecoveryAttach ==
  /\ recPc = "state"
  /\ Alive(recGen)
  /\ cur' = recGen
  /\ attached' = [attached EXCEPT ![recGen] = TRUE]
  /\ recPc' = "waiting"
  /\ UNCHANGED <<row, starting, gens, stop, proc, wdPc, recGen, history>>
  /\ RecoveryFrame

RecoveryWaiting ==
  /\ recPc = "waiting"
  /\ exec' = "WAITING"
  /\ recPc' = "watch"
  /\ UNCHANGED <<verif, wake, notes, starting, cur, gens, attached, stop, proc, wdPc,
                 recGen, history>>
  /\ RecoveryFrame

\* Mutation: the recovered task is not watched.
MutRecoveryWatch ==
  /\ recPc = "watch"
  /\ RecoveryEnds
  /\ UNCHANGED <<row, cur, gens, attached, stop, proc, wdPc, history>> /\ RecoveryFrame
RecoveryWatch ==
  /\ recPc = "watch"
  /\ StartWatchdog
  /\ RecoveryEnds
  /\ UNCHANGED <<row, cur, gens, attached, proc, history>> /\ RecoveryFrame

\* _reject
RecoveryAborted ==
  /\ recPc = "reject"
  /\ exec' = "ABORTED"
  /\ recPc' = "notify"
  /\ UNCHANGED <<verif, wake, notes, starting, cur, gens, attached, stop, proc, wdPc,
                 recGen, history>>
  /\ RecoveryFrame

\* Mutation: the re-run gate is announced by its wake alone.
MutAnnounced == {}
Announced == {IF recPc = "notify" THEN "failed" ELSE DoneKind}

RecoveryNotify ==
  /\ recPc \in {"notify", "done"}
  /\ Notify(Announced)
  /\ recPc' = IF recPc = "notify" THEN "wake" ELSE "doneWake"
  /\ UNCHANGED <<exec, verif, wake, starting, cur, gens, attached, stop, proc, wdPc,
                 recGen, stray>>
  /\ RecoveryFrame

\* The recovered gate, run in the caller's thread.
RecoveryGate(outcome) ==
  /\ recPc = "gate"
  /\ verif' = outcome
  /\ seen' = seen \cup (IF outcome = "PASS" THEN {"passed"} ELSE {})
  /\ recPc' = "done"
  /\ UNCHANGED <<exec, wake, notes, starting, cur, gens, attached, stop, proc, wdPc,
                 recGen, budget, stray>>
  /\ RecoveryFrame

\* The last call of a rejection, of a recovered gate, and of the sweep.
RecoveryWake ==
  /\ recPc \in {"wake", "doneWake", "sweep"}
  /\ RequestWake(IF recPc = "sweep" THEN {"swept"} ELSE {})
  /\ RecoveryEnds
  /\ UNCHANGED <<exec, verif, notes, cur, gens, attached, stop, proc, wdPc, stray>>
  /\ RecoveryFrame

Recovery ==
  \/ RecoverySpawnFails \/ RecoverySpawn \/ RecoveryRejected \/ RecoveryAttach
  \/ RecoveryWaiting \/ RecoveryWatch \/ RecoveryAborted \/ RecoveryNotify
  \/ RecoveryWake \/ \E outcome \in Verdicts : RecoveryGate(outcome)

----------------------------------------------------------------------------
\* The environment: Pi processes that die, asked to or not; the host that dies
\* with all its threads and leaves its Pi processes behind; and the wake worker
\* (TerminalWake) that delivers.
ProcessDies(g) ==
  /\ Lives(g)
  /\ proc' = [proc EXCEPT ![g] = Killed(g)]
  /\ UNCHANGED <<row, conf, mgr, rts, boot, reader, watchdog, verifier, abort,
                 recovery, history>>

StdoutEnds(g) ==
  /\ proc[g] = "dying"
  /\ rdPc[g] = "idle"
  /\ proc' = [proc EXCEPT ![g] = "dead"]
  /\ UNCHANGED <<row, conf, mgr, rts, boot, reader, watchdog, verifier, abort,
                 recovery, history>>

DispatchWake ==
  /\ Ready
  /\ wake = "pending"
  /\ wake' = "accepted"
  /\ UNCHANGED <<exec, verif, notes, conf, mgr, rts, proc, boot, reader, watchdog,
                 verifier, abort, recovery, history>>

Crash ==
  /\ up
  /\ Spend("crash")
  /\ up' = FALSE /\ starting' = FALSE /\ cur' = 0
  /\ attached' = [g \in Gens |-> FALSE]
  /\ grace' = [g \in Gens |-> FALSE]
  /\ pre' = [g \in Gens |-> "none"]
  /\ stop' = [g \in Gens |-> FALSE]
  /\ proc' = [g \in Gens |-> IF Alive(g) THEN "orphan"
                             ELSE IF proc[g] = "dying" THEN "dead" ELSE proc[g]]
  /\ stray' = stray \cup {g \in Gens : Alive(g)}
  /\ seen' = seen \ {"lostWake"}
  /\ boot' = "off"
  /\ rdPc' = [g \in Gens |-> "idle"] /\ rd' = [g \in Gens |-> NoEvent]
  /\ wdPc' = [g \in Gens |-> "none"] /\ wd' = [g \in Gens |-> NoTick]
  /\ verPc' = [v \in Slots |-> "off"] /\ verTool' = [v \in Slots |-> FALSE]
  /\ abPc' = "off" /\ abOn' = 0
  /\ recPc' = "off" /\ recGen' = 0
  /\ UNCHANGED <<row, conf, gens>>

Next ==
  \/ Boot \/ AbortStart \/ Abort \/ Steer \/ Resume \/ Recovery
  \/ Crash \/ Restart \/ RestartAbandoned \/ DispatchWake
  \/ \E g \in Gens : \/ Reader(g) \/ Watchdog(g) \/ ProcessDies(g) \/ StdoutEnds(g)
                     \/ \E ev \in EventKinds : ReadEvent(g, ev)
  \/ \E v \in Slots : VerifyTool(v) \/ Verifier(v)

Spec == Init /\ [][Next]_vars

\* Threads are scheduled and their RPC and process calls are bounded by
\* timeouts; a host that died is started again.
Fairness ==
  /\ WF_vars(Boot) /\ WF_vars(Abort) /\ WF_vars(Recovery) /\ WF_vars(Restart)
  /\ \A g \in Gens : WF_vars(Reader(g)) /\ WF_vars(Watchdog(g))
  /\ \A v \in Slots : WF_vars(Verifier(v))

FairSpec == Spec /\ Fairness

----------------------------------------------------------------------------
\* Safety: the plugin never calls a task done without evidence.  SETTLED was
\* proved by an agent_settled event, never by agent_end or by a process exit,
\* and PASS by a gate that ended with exit code 0.
DoneIsEarned ==
  /\ exec = "SETTLED" => "settled" \in seen
  /\ verif = "PASS" => "passed" \in seen

\* Action property: a step of a reader thread never takes a task out of a
\* final state, however old its reading of the row is
\* (transition_task_state: "a final state is never resurrected by a stale
\* snapshot").
ReaderKeepsFinal ==
  [][\A g \in Gens : rdPc'[g] # rdPc[g] /\ rdPc[g] # "idle" /\ up' /\ exec \in Final
       => exec' = exec]_vars

\* Safety: the passive notice is enqueued before the session is woken, on
\* every path but recover_all's sweep; a woken orchestrator finds it there,
\* unless the registry failed an enqueue and outbox.py swallowed it.
NoticeBeforeWake ==
  wake # "null" /\ {"swept", "lostNotice"} \cap seen = {} => notes # {}

\* Safety: the manager answers for at most one living Pi process on the task's
\* session file.  A second agent there is one that it let go of alive - left by
\* a host that died, sent a SIGTERM that nobody waited for, or attached after
\* pi_abort had looked - unless pi_resume was used on a task at work.
SecondAgentIsStray ==
  "overlap" \notin seen => \A g, h \in Gens \ stray : Lives(g) /\ Lives(h) => g = h

\* Liveness: a settled task's wake is opened, whatever the gate says and even
\* if the host dies on the way - unless something takes it out of SETTLED,
\* pi_verify was used on it, recovery at the last start did not get to it, or
\* the registry has failed the request since that start (the exception is
\* swallowed, and the next start's sweep has to make it good).
SettledIsWoken ==
  exec = "SETTLED" /\ wake = "null"
    ~> wake # "null" \/ exec # "SETTLED"
         \/ {"verified", "abandoned", "lostWake"} \cap seen # {}

\* Liveness: a watchdog that has not been told to stop notices that its
\* process is gone, and the task ends in a final state.
DeadProcessIsNoticed ==
  \A g \in Gens :
    cur = g /\ wdPc[g] = "loop" /\ ~stop[g] /\ proc[g] = "dead"
      ~> exec \in Final \/ stop[g] \/ cur # g

\* Liveness: a task that the host died on is taken up again: it gets a new
\* watchdog or ends in a final state, unless recovery did not get to it.
InterruptedIsRecovered ==
  ~up /\ exec \in Resumable
    ~> exec \in Final \/ (cur # 0 /\ wdPc[cur] # "none") \/ "abandoned" \in seen

\* Liveness: a crash of the process is reported: the wake of a CRASHED task is
\* opened, unless the host dies first, the registry fails the request, or there
\* never was a process (a spawn that raises records CRASHED and nothing else).
CrashIsWoken ==
  cur # 0 /\ exec = "CRASHED" /\ wake = "null"
    ~> wake # "null" \/ exec # "CRASHED" \/ cur = 0 \/ proc[cur] = "none"
         \/ "lostWake" \in seen

----------------------------------------------------------------------------
\* What the comments of core.py say and the code does not keep.

\* Safety: what pi_abort recorded holds: the task is ABORTED until someone
\* resumes it, and if its wake was not open it is never woken for.
AbortHolds == "aborted" \in seen => exec = "ABORTED" /\ wake = "null"

\* Action property: once the manager has disposed of a settled task's
\* process, no watchdog tick takes its exit for a crash.
DisposalIsNotACrash ==
  [][\A g \in Gens : wdPc[g] = "poll" /\ wdPc'[g] = "nFailed"
       => "disposed" \notin seen]_vars
============================================================================
