# A TLA+ model of hermes-pi-manager

`hermes-pi-manager` is a plugin of the Hermes agent host. It starts coding tasks
in separate *Pi* processes, follows them over a JSON-lines RPC, decides when a
task is done, stalled or dead, runs an optional verifier command, tells the user
through a durable notification outbox and wakes the session that delegated the
task. Everything runs in threads of one host process over one SQLite registry;
host and plugin may be reloaded, or die, at any moment.

This directory holds TLA+ modules translated from `src/`, TLC configurations for
small instances, and TLAPS proofs for all instances. `PROJECT.json` is the index:
components, runs, mutants, the map from definitions to source lines, findings,
hazards and theorems.

    tlc -workers 4 -config TerminalWake_overlap.cfg MCTerminalWake
    tlapm TerminalWakeProofs.tla

## 1. Inventory

| Component | State | Operations | Hard part |
|---|---|---|---|
| Task lifecycle (`core.py`) | the task's row (execution state, verification state), one `_TaskRuntime` per start or recovery, a Pi process each | boot, event handling, settlement, disposal, abort, steer | four to six threads write one row, most of them without a guard |
| Verification gate (`core.py`) | `verification_state` | gate after settlement, `pi_verify`, re-run by recovery | the gate runs for minutes and the row moves meanwhile |
| Stall policy (`core.py`) | progress and heartbeat times, grace start, remembered state | one watchdog tick every 30 s | a tick acts on a row it read at its start |
| Recovery (`core.py`, `tools.py`) | rows left by a dead host | `recover_all` at first use of the manager, `pi_resume` | whatever the dead host was in the middle of |
| Terminal continuation wake (`wake_worker.py`, `registry_db.py`) | `wake_state`, `wake_attempts`, `wake_requested_at` of each row; a worker thread per plugin load | open once, claim, inject, record; give up stale claims | an injection cannot be taken back or asked about; workers overlap on a reload |
| Notification outbox (`outbox.py`, `registry_db.py`) | the `notifications` table; a worker thread per plugin load | enqueue, lease a batch, send, mark | leases expire under slow workers; marks are unguarded |
| Pi RPC transport (`rpc_transport.py`) | pending requests, a reader thread | send and wait, correlate, wake everybody at end of file | late answers, registration after end of file |
| Task registry (`registry_db.py`) | SQLite under one lock | the calls above, migration, event log, retention | one call is atomic, a sequence of two is not |
| LSP check, status and digest texts, tool schemas, host adapter | none that decides anything | formatting, one external call | none |

How they interact. `pi_task` creates the row and a boot thread; the boot thread
spawns Pi, attaches the transport and starts the watchdog. The transport's
reader thread calls `_on_event`; `agent_settled` stops the watchdog, disposes of
the process and starts a verifier thread. Whoever observes a terminal state
(boot, watchdog, verifier, recovery) enqueues a notice in the outbox and then
opens the wake. The two workers poll their tables and never talk to the other
threads. `register()` replaces both workers on a plugin reload: the outbox
worker is started before the old one is stopped, the wake worker after.

What makes them correct:

- wake: at most one orchestrator turn per task; the row tells the truth about
  the gateway; every opened wake is resolved;
- lifecycle: done is never claimed without evidence; a final task is not
  resurrected by a late event; an abort holds; a disposal is not a crash; a dead
  process is noticed;
- settlement: a settled task's wake is opened even if the host dies on the way,
  and the notice is there before the wake;
- stall policy: a silent agent is found out in bounded time, an active one is
  never asked to abort, only an ignored abort request ends in STALLED;
- transport: a caller gets its own answer or none, every call ends, nothing is
  left behind in the table of pending requests;
- outbox: an enqueued notification is resolved; a duplicate has a known cause; the
  retry budget is kept; a closed row stays closed.

`PROJECT.json` lists under `hazards` the lines where these can go wrong.

## 2. Modules

| Module | What it is |
|---|---|
| `OneWake` | abstract specification: one wake per task is opened, delivered at most once, closed |
| `TerminalWake` | wake columns, worker threads, reload, crash, clock |
| `TerminalWakeProofs`, `TerminalWakeRefinement` | proofs of its invariants, and that it implements `OneWake` |
| `ExecState` | the execution states and what an event asks of them; shared by `TaskLifecycle` and `StallPolicy` |
| `TaskLifecycle` | one task: row, processes and all threads, with free clock readings |
| `TaskLifecycleProofs`, `TaskLifecycleSafety`, `TaskLifecycleAgents` | type invariant; the safety invariants and the action property; one managed process per session |
| `StallPolicy` | the watchdog of one task with its clock, against the agent's events |
| `StallPolicyProofs` | proofs of its safety properties, for every setting of the thresholds |
| `RpcTransport` | `send_command` on any number of threads, the reader thread, the pipes and Pi |
| `RpcTransportProofs` | proofs of its safety properties |
| `Outbox` | notification rows, leases, worker threads, reload, crash, clock |
| `OutboxProofs` | proofs about the leases, the receipts and the retry budget |
| `MCTerminalWake`, `MCTaskLifecycle`, `MCRpcTransport`, `MCOutbox` | values of the constants for TLC |

**Granularity.** A step is one registry call (atomic under the registry's lock)
or one call that leaves the process (an injection, a send, an RPC, a kill),
together with the assignments around it. A thread can be overtaken between any
two of these. A read whose only use is to guard the thread's next write is taken
with that write in `TaskLifecycle` where nothing else distinguishes the two; the
reads that matter (a tick's row, an event's row, a claimed notification's
attempts) are kept in thread-local variables and used later, as in the code.

**TerminalWake.** `wake`, `attempts`, `due` are the row's columns (`due` counts
down to `wake_requested_at`), `pc`, `batch`, `cur`, `age` a worker's place and
local variables. `BeginTerminalWake` is the compare-and-set that opens a wake;
`WTop`, `WSettle`, `WList`, `WClaim`, `WInject`, `WAccept`, `WRefuse`, `WSleep`
are one tick of the worker; `Register`, `Joined` are `_replace_wake_worker` with
its bounded join; `WDbError` is a registry call that raises, which ends the tick;
`Crash` and `Restart` are the host. The gateway is external: an injection is
taken or refused; `injected` counts what it took.

**TaskLifecycle.** `exec`, `verif`, `wake`, `notes` are the row and its notices;
a *generation* is one `_TaskRuntime` with its process, reader and watchdog.
`Boot...` is `_boot_and_run`, `ReadEvent` and `Reader...` is `_on_event` with
`_on_settled`, `Verify...` the gate, `Tick...` is `watchdog_tick`, `Abort...` is
`abort_task`, `Recover...`/`Recovery...` is `recover_all`, `recover_task` and
`pi_resume`. Clock readings are nondeterministic: a tick may find the task
active, waiting, or quiet with its grace over. Events carry only their kind. The
wake worker appears as one step, `DispatchWake`. `RestartAbandoned` is a start on
which `recover_all` raised before it was done with this task, at this task's
recovery or at an earlier one's; `get_manager` swallows the exception, so the row
stays as the dead host left it. Tasks share nothing else in that loop, which is
why one task is enough.

Nothing ties a Pi process to the host that started it (`default_popen_factory`).
`Crash` therefore leaves every living process an `orphan`, which may die at
any time or never, and `recover_task` starts a new one beside it. A bare
`transport.terminate()` (a failed boot, a rejected recovery) only asks: the process
may live on. Where the code sends SIGTERM, waits, sends SIGKILL and waits (disposal,
abort) the process is gone (`Killed`). `stray` is history: the processes the manager
turned away from while they lived (`LetGo`, `Crash`).

`Notify` and `RequestWake` swallow a failing registry call, as the code does: the
thread goes on without the notice or the wake. The event "fail" bounds how often, and
the history values "lostNotice" and "lostWake" say that it happened ("lostWake" only
until the host's next death, since the next start sweeps).

**StallPolicy.** What `TaskLifecycle` leaves free is kept here, and the other way
round: one runtime, no crash of the host, no verifier, but a clock. A timestamp
is its age (`idle` for `last_progress_at`, `stateAge`, `grace`, `sample`), counted
up to a bound past which nothing depends on it. Time passes while the watchdog
sleeps and while it waits for an RPC; `lag` is how old the tick's one clock
reading is by now, and `grace - lag` is what `now - grace_started` computes. A
tick is cut at every point where the reader thread can come in between: after
the row read, during the heartbeat, between the heartbeat's verdict and the write
that follows from it, during the abort request, before the STALLED write.
`AgentEvent` is `_on_event` for each kind of event; `LateAnswer` is the answer to
an RPC that timed out, which the transport hands to `_on_event` as well;
`Settles` is `agent_settled` with the disposal; `HeartbeatUnchanged`,
`HeartbeatChanged`, `HeartbeatFails` are the outcomes of `get_state`;
`TickToolActive` is the CPU proof, where `ps` is abstracted to whether the tool
burned CPU since the last sample; `TickCap` is the emergency cap. `silent`, `failed`,
`abort` and `wasQuiet` are history: what the agent really did.

**RpcTransport.** `at[c]` is where the call `c` is in `send_command`; `pending`,
`event`, `box`, `writer` are `_pending`, the entries' events and boxes, and
`_write_lock`; `reader`, `entry`, `toWake` are the reader thread. `Register`,
`TakeWriteLock`, `Write`/`WriteFails`, `WaitEnds`/`TimesOut`, `RaiseTimeout`/
`TakeResponse` are the sections of `send_command` another thread can come between;
`ReadLine`, `FillBox`, `SetEvent`, `Handled`, `EndOfFile`, `WakeOne` those of
`_read_loop`. An empty line and a malformed one have no effect on this state and
are not lines of the model. Pi and the pipes are external: `executed` is the set
of answers Pi has given, so that an answer may be written late, twice, in any
order, or never.

**Outbox.** `status`, `attempts`, `due`, `lease` are the columns; `snap` is the
copy of `attempts` in the claimed row, which `mark_failed` uses; `batch`, `cur`,
`answer` are a worker's place in its loop. The host's `send_message` is external: a
receipt, no answer or one that names no error ("empty"), a transient error or an
exception, a permanent error; a row without a target is failed without being sent.
`extract_tool_error` takes the empty answer for a delivery. Only a receipt says where
the message is: in every other case it may have reached the chat or not (`Arrivals`).
`arrived` (messages in the chat), `denied` (those whose send answered an error, before
any lease of the row expired), `blank` and `requeues` are history. The tick's `now` is
taken together with the claim.

Operators whose name begins with `Mut` are not part of the specifications: each
is a plausible bug in the definition that follows it, and `PROJECT.json`
`mutants` says which property must catch it.

## 3. Runs

Passing runs:

| Run | Instance | What it shows |
|---|---|---|
| `wake_overlap` | 2 tasks (symmetric), 2 loads that may overlap, 2 attempts, 1 crash, 1 registry error | `AtMostOneAcceptance`, `ClaimsAreExclusive`, `AuditIsTruthful`, `AttemptsWithinBudget`, `ClosedStaysClosed`, and the refinement of `OneWake` |
| `wake_reload` | the same, when an injection always returns within `stop()`'s join | `LiveDispatchNeverUncertain`, `ClaimsAreDue`, and the liveness `WakeResolves` |
| `task_disturbed` | 1 task, 2 generations, scenarios: crash and abort; crash and pi_verify; steer; pi_resume; abort and a failing notice or wake request | `DoneIsEarned`, `NoticeBeforeWake`, `SecondAgentIsStray`, `ReaderKeepsFinal` |
| `task_live` | 1 task, 2 generations, a crash with a recovery that may raise or with a failing notice or wake request, or a pi_verify | the liveness `SettledIsWoken`, `DeadProcessIsNoticed`, `InterruptedIsRecovered`, `CrashIsWoken` |
| `stall_timed` | heartbeat 2, RPC timeout 1, waiting 1, soft 4, tool 6, grace 4, interval 2, window 3 units; cap, failing heartbeats | `StallIsDetected`, `SteadyIsLeftAlone`, `IdleIsLabelled`, `OnlyAnIgnoredAbortStalls` |
| `rpc_calls` | 2 concurrent commands, a pipe with room for 1, 3 lines from Pi | `PendingIsInFlight`, `ResultIsTruthful`, `StrayAnswersAreUnwanted`, `EofWakesAll`, and the liveness `CallEnds` |
| `outbox_overlap` | 1 notification, 2 overlapping loads, 2 attempts, a lease of 1 tick, backoff 1 then 2, 1 crash, 1 registry error | `LeaseIsExclusive`, `DuplicateIsExplained`, `SentIsDelivered`, `AttemptsBounded`, `ClosedNeedsRequeue`, and the liveness `NoticeResolves` |

Each also checks its module's `TypeOK` where that is listed.

**Bounds.** Two loads give every overlap of an old and a new worker; a third
adds nothing that is not pairwise, and the theorems cover any number. Two
attempts give a first, a repeated and a last one. One crash or failing call at
every point separates "never", "before" and "after" for each step. In the outbox
a lease shorter than a delivery makes expiry under a live worker happen. Two
generations give one recovery or resume. In `TaskLifecycle` the outside events
are bounded by scenarios (`Budgets`) instead of all at once, which keeps the
instance within reach; the theorems hold for every budget. `SecondAgentIsStray`
allows a second living process on the session file only if the manager let go of it
alive, and excepts, by history, a `pi_resume` on a task whose threads are at work
("overlap": `recover_task` starts a second process, and nothing in it prevents
that). The run has `pi_resume` alone, at rest (`ResumeBusy` FALSE); `pi_resume`
together with aborts and crashes is left to the theorem.
The thresholds of `StallPolicy` are scaled down in the order of the production
values (waiting <= soft <= tool, `ThresholdsAssumption`); the bounds in its
properties (`TickSpan`, `LabelledBy`, `RelabelledBy`, `StalledBy`) are written in
terms of them. Its passing run takes a window wide enough for a second CPU sample
to count, so that the proof of work happens; in production, 3 x 60 s against a
threshold of 1200 s, it never does for a tool that was judged quiet once
(`stall_busy`). Two commands give every overlap of two callers on the lock, of a
caller with the reader, and of a late answer with the next command; three lines
give an event and a duplicate besides an answer; the theorems cover any number.
`CHECK_DEADLOCK` is off for `TaskLifecycle`, `StallPolicy` and `RpcTransport`: a
finished task, a stopped watchdog and a transport whose process is gone have
nothing left to do.

**Fairness** (liveness runs only). Threads of a live process are scheduled, and
the calls they make return (every RPC has a timeout, the gate has one,
`inject_message` and `send_message` are assumed to return), hence weak fairness
of each thread. Time passes. A dead host is started again and loads the plugin.
Nothing is assumed of Pi's output: it may never emit an event or an answer and may
die or not. `CallEnds` alone assumes that a living Pi reads its stdin: the write
in `send_command` has no timeout and is made under the lock, so that with a full
pipe and a Pi that does not read every caller would wait for ever. The
number of crashes and failing calls is finite in an instance, so recovery
eventually gets an undisturbed period, which no liveness property of this code
could do without.

Runs that TLC must refute (`findings` quotes the lines):

| Run | Claim in the repository | What the code does |
|---|---|---|
| `abort_races` | abort "Always records ABORTED" (`core.py:1897`), "A manual abort NEVER wakes." (`core.py:53`) | the boot thread overwrites ABORTED with RUNNING or CRASHED; a thread that recorded CRASHED just before opens the wake after |
| `dispose_crash` | the exit after a disposal "can never be mistaken for an unexpected crash" (`core.py:1117`) | a tick already under way polls the disposed process |
| `stall_settled` | on settlement during the grace "the true result is preserved" (`core.py:1577`) | the tick that sent the abort writes WAITING over SETTLED when the answer returns |
| `stall_busy` | a tool that burns CPU "is working and silence is not a stall" (`core.py:509`) | the first quiet tick only takes a baseline, sends the abort and relabels the task, so no second sample is taken |
| `stall_tool` | TOOL_RUNNING has its own, larger threshold (`core.py:1528`) | one missed heartbeat relabels the task UNRESPONSIVE and the soft threshold applies |

All are races of a few registry calls or RPC answers, or one tick after another.

Further limits of the code the models show, without a run of their own:

- An injection that outlasts `stop()`'s five-second join is marked uncertain by
  the new worker although it is live (`wake_worker.py:85` says this never
  happens): with `JoinMayTimeOut` TRUE `LiveDispatchNeverUncertain` fails, and
  `wake_reload` checks it for FALSE only.
- A spawn that raises (`core.py:764`) records CRASHED and neither notifies nor
  wakes, although `core.py:854` calls a spawn failure something the orchestrator
  must act on; `CrashIsWoken` excepts it.
- After a host crash two agents may work on one session file: `shutdown()` says "an
  orphaned process is exactly what recovery is designed to re-attach to"
  (`core.py:2257`), but `recover_task` never looks for the old process and starts a
  new one (`core.py:2135`). A boot or a recovery that gives up on its process after a
  bare SIGTERM can leave one too.
- An abort that looks for a process before the boot or the recovery has attached
  its transport (`core.py:1910`) ends nothing, but stops the watchdog and records
  ABORTED; a `pi_resume` afterwards puts a second agent beside the one that was
  missed. `SecondAgentIsStray` says that these are all the ways to a second agent.
- A failed enqueue and a failed wake request are swallowed (`outbox.py:281`,
  `core.py:911`). The first leaves a woken orchestrator without its notice; the second
  is made good for a SETTLED task by the next start's sweep, for a CRASHED or STALLED
  one by nothing.
- A send that raised or timed out after its message had arrived is retried
  (`outbox.py:432`): the chat gets it twice with no lease expiring.
- An empty answer to a send marks the row sent (`outbox.py:201`), whether or not the
  message arrived, although prose is refused as "not a delivery receipt"
  (`outbox.py:198`).
- A notification that went to `failed` ("never retried", `outbox.py:69`) is
  reopened by a worker that outlived its lease; `ClosedNeedsRequeue` is the
  strongest that holds.
- A late `get_state` answer refreshes `last_progress_at` whatever it says
  (`rpc_transport.py:301`), although "an unchanged heartbeat must never refresh
  progress" (`core.py:1672`): `StallIsDetected` is stated for agents whose answers
  come in time. An agent that always answers late alternates between UNRESPONSIVE
  and RUNNING and is never STALLED.
- An event that arrives after a tick read its row does not stop that tick: the
  abort request, WAITING or STALLED may follow it. `OnlyAnIgnoredAbortStalls` is
  stated of the tick's verdict for this reason.
- A command woken by the end of stdout fails with the error of a rejected one.
- The comment at `core.py:491` says an UNCHANGED snapshot resets the grace; the
  code, and the comment at line 1579, mean a CHANGED one.

## 4. Theorems

All hold for every value of the constants that satisfies the module's
`ConstantsAssumption` (sizes positive, tables of naturals, `NoTask`/`NoNote`/`NoCall`
not a task/note/call, enough generations for the budget) or `ThresholdsAssumption`
(the thresholds in the order of the production values). Nothing else is assumed,
but for two theorems that state their hypothesis, `~JoinMayTimeOut`.

**TerminalWakeProofs**: `TypeCorrect`, `OneAcceptance`, `ExclusiveClaims`,
`TruthfulAudit`, `BoundedAttempts`. "At most one acceptance" is not inductive. It
needs that a claim is held by one thread (so nobody else injects), that the row
of a claim is dispatching or uncertain (so nobody else claims it), and that a
row which may be claimed again was never delivered. `IInv` is the conjunction of
exactly these, which are the other invariants the run checks. `LiveDispatch` and
`DueClaims` hold when `stop()` outlasts the worker it joins, as in the run
`wake_reload`. `SoloInv` says that then only the newest worker is at work, and that
what it has listed and not visited is still due: nobody else can reschedule it, so
the claim may do without testing the deadline.

**TerminalWakeRefinement**: `Refinement` (`Spec => Abstract!Spec`) and
`ClosedForGood`. A row maps to *closed* only when no thread still dispatches it,
because an uncertain row may yet be accepted by the thread that was given up.

**TaskLifecycleProofs**: `TypeCorrect`. The types carry content: a remembered
`pre_unresponsive_state` and a tick's reading are never final, so healing cannot
resurrect a task by itself, and a reader at its transition has a state to write.

**TaskLifecycleSafety**: `EarnedDone`, `NoticeFirst`, `FinalKept`.
`DoneInv` adds to `DoneIsEarned` that a reader holding SETTLED has seen
`agent_settled`; `NoticeInv` adds that a thread about to request the wake
has enqueued its notice, if no enqueue was lost. The theorems include the overlap of `pi_resume` with
the task's other threads (`ResumeBusy`), which is out of TLC's reach here.

**TaskLifecycleAgents**: `OneManagedAgent`. That at most one process is managed says
nothing about who may start the next. `AgentsInv` gives each living process that is
not a stray an owner (the boot thread, a recovery, or the registered runtime) and says
that its end will be noticed: it is being started, a watchdog that is not told to stop
watches it, or a reader has taken in `agent_settled` and is about to dispose of it.
`Turns` says that boot, recovery and watchdogs do not overlap, `ReadersSettle` that a
reader makes a task final for no other reason. A resume at rest, which requires that
none of these is under way, then finds only strays; so does a start after a crash,
which made strays of all that lived.

**StallPolicyProofs**: `TypeCorrect`, `SteadyCorrect`, `IgnoredAbortCorrect`,
`LabelCorrect`, `StallCorrect`. The bounds are exact sums of the thresholds, so
the invariants follow one tick step by step. `Clock` bounds how old the tick's
clock reading is at each step. `SteadyInv`: until the agent was silent for the soft
threshold, the row shows no more silence than there is, and no tick is on the
quiet branch. `IgnoredInv`: a grace is as old as its abort request but for one
heartbeat, and nothing was heard since. `LabelInv` and `StallInv` bound the idle
time and the silence at every step of a tick, with and without a running grace; the
largest of these bounds, plus the sleep and the RPCs that follow, are `LabelledBy`,
`RelabelledBy` and `StalledBy`.

**RpcTransportProofs**: `TypeCorrect`, `PendingExact`, `TruthfulResult`,
`StrayUnwanted`, `EofReachesAll`, for any number of concurrent callers. Types need
`EntryInv`: what the reader delivers answers a command. Truthfulness needs
`AnswerInv` (every answer on its way, in the pipe, the reader's hands, a box or a
result, is one Pi gave to that command) and `SentInv` (before its write has
returned, nothing of a command has reached Pi). With both, an answer to an
unregistered command can only be of a call that has ended. `EofInv` says that
once the pass is made, a waiting command is woken, on the pass's list, or was
written after it.

**OutboxProofs**: `TypeCorrect`, `ExclusiveLease`, `NoUnexplainedDuplicate`,
`TruthfulSent`, `BoundedAttempts`, `ClosedUntilRequeue`. The exclusive lease does not exclude a
duplicate by itself; `LeaseInv` adds, for a row without an expired lease, that a
claimable row, and one a thread has yet to send or was told it could not send, has
reached the chat only by sends that answered an error. `SentIsDelivered` needs that
of a thread that comes to mark a row sent (`ReceiptInv`). `ThreadInv` ties a thread's place to what it holds. The retry budget is
decided by the count in the claimed copy, so several threads with an outdated lease
may each grant one more retry. `StaleInv` counts them: every thread but the one with
the current lease is paid for by an expired lease, and so is, once the budget is
spent, every claim beyond it and every retry still to be granted.

Only model-checked: the liveness properties `WakeResolves`, `SettledIsWoken`,
`DeadProcessIsNoticed`, `InterruptedIsRecovered`, `CrashIsWoken`, `CallEnds` and
`NoticeResolves` (fairness is outside the prover's reach). Every invariant and every
action property of a passing run is a theorem. The properties of the runs that must
fail are false and have none.

## 5. Not modelled

- Progress notices (`_notify_progress` and its baseline): they pace messages to
  the user and decide nothing about the task.
- `shutdown()` and `Registry.close()`: only tests call them; the plugin has no
  path that does.
- Retention, schema migration, the event log, the repeat-failure note of the
  verifier: rows that are written or deleted and that nothing decides on.
- `ps` parsing (`_tool_process_active`, `_live_descendants`): the CPU reading is a
  free choice of whether there was activity since the last sample; the stall
  diagnosis only goes to the event log. A heartbeat's payload is a hash that
  changed or did not.
- In `TaskLifecycle`, registry calls that raise outside notices, wake requests and
  recovery: the code lets such an exception end the thread, and no comment claims
  anything of the task it leaves. A SIGKILL that does not end a process within the
  grace the code waits for it.
- The emergency cap is in `StallPolicy` only; in `TaskLifecycle` it would be
  another caller of `abort_task`.
- Two tasks at once: they share the registry, whose calls are atomic, the workers
  (two tasks in `wake_overlap`) and the loop of `recover_all` (see
  `RestartAbandoned`), and nothing else.
- The stderr tail, the argv of the process, texts, digests, LSP diagnostics, tool
  schemas, routing capture, the host adapter's call: formatting, discovery of
  binaries and pure I/O.

## 6. Plan

Done: the wake with its abstract specification and refinement, the lifecycle with
recovery, the outbox, the stall policy with its clock, the transport, and the
theorems above. In order of importance, next:

1. The wake column of `TaskLifecycle` implements `OneWake`, which would compose it
   with `TerminalWake`.
2. An abstract outbox (at least one delivery, one per lease) and the step
   refinement from `Outbox`; an abstract call (asked, answered, ended) for
   `RpcTransport`.
3. Progress notices as a module: first after 90 s, then one per 180 s, and only
   on progress, across a recovery as well.
