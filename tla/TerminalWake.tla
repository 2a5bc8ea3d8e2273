---------------------------- MODULE TerminalWake ----------------------------
(***************************************************************************)
(* The terminal continuation wake: the wake columns of the task rows       *)
(* (registry_db.py), the worker threads that drain them through            *)
(* inject_message (wake_worker.py) and the plugin (re)load that replaces a *)
(* worker (tools.py).  One step is one registry call: each of them runs    *)
(* under the registry's lock.  The gateway behind inject_message is        *)
(* external: it accepts or refuses.                                        *)
(*                                                                         *)
(* Time is relative.  due[t] counts down to the row's wake_requested_at    *)
(* and age[w] counts up from the `now' that worker w took at the start of  *)
(* its tick, so "now + delay" is a countdown of delay - age.               *)
(***************************************************************************)
EXTENDS Integers, Sequences, FiniteSets

CONSTANTS
  Tasks, NoTask,
  MaxLoads,         \* bound: plugin loads in the life of one host process
  MaxAttempts,      \* max_attempts
  Backoff,          \* retry_backoff, in clock ticks
  MaxPerTick,       \* max_per_tick
  MaxCrashes,       \* bound: host process deaths
  MaxDbErrors,      \* bound: registry calls that raise
  JoinMayTimeOut    \* may inject_message outlast stop()'s bounded join?

ASSUME ConstantsAssumption ==
  /\ NoTask \notin Tasks
  /\ MaxLoads \in Nat \ {0}
  /\ MaxAttempts \in Nat \ {0}
  /\ Backoff \in Seq(Nat)
  /\ Len(Backoff) > 0
  /\ MaxPerTick \in Nat \ {0}
  /\ MaxCrashes \in Nat
  /\ MaxDbErrors \in Nat
  /\ JoinMayTimeOut \in BOOLEAN

Workers == 1..MaxLoads

Terminal == {"accepted", "disabled", "uncertain", "exhausted"}
WakeStates == {"null", "pending", "dispatching"} \cup Terminal

VARIABLES
  wake,       \* task -> wake_state
  attempts,   \* task -> wake_attempts
  due,        \* task -> ticks until wake_requested_at (0: due)
  eligible,   \* task -> continuation_enabled
  injected,   \* task -> injections the gateway accepted (history)
  up,         \* is the host process alive?
  loads,      \* plugin loads of this process; the newest worker's number
  reload,     \* _replace_wake_worker: "idle", or "joining" the old worker
  pc,         \* worker -> where its thread is
  stop,       \* worker -> its _stop event
  batch,      \* worker -> rows of this tick not visited yet
  cur,        \* worker -> the row it has claimed and not recorded, or NoTask
  age,        \* worker -> ticks since its `now'
  crashes, dbErrors

rows == <<wake, attempts, due>>
threads == <<pc, batch, cur, age>>
host == <<up, loads, reload, stop>>
faults == <<crashes, dbErrors>>
vars == <<rows, eligible, injected, host, threads, faults>>

\* A thread here is between its claim of cur[w] and the recorded outcome.
Holding == {"inject", "accept", "refuse"}
Places == {"off", "top", "settle", "list", "claim", "inject", "accept", "refuse"}

MaxBackoff == CHOOSE m \in {Backoff[i] : i \in 1..Len(Backoff)} :
                \A i \in 1..Len(Backoff) : Backoff[i] <= m

RowsOK ==
  /\ wake \in [Tasks -> WakeStates]
  /\ attempts \in [Tasks -> Nat]
  /\ due \in [Tasks -> Nat]
  /\ eligible \in [Tasks -> BOOLEAN]
  /\ injected \in [Tasks -> Nat]

HostOK ==
  /\ up \in BOOLEAN
  /\ loads \in 0..MaxLoads
  /\ reload \in {"idle", "joining"}
  /\ reload = "joining" => loads \in 1..MaxLoads - 1
  /\ stop \in [Workers -> BOOLEAN]
  /\ crashes \in 0..MaxCrashes
  /\ dbErrors \in 0..MaxDbErrors

ThreadsOK ==
  /\ pc \in [Workers -> Places]
  /\ batch \in [Workers -> SUBSET Tasks]
  /\ cur \in [Workers -> Tasks \cup {NoTask}]
  /\ age \in [Workers -> Nat]

UnstartedAreOff == \A w \in Workers : w > loads => pc[w] = "off"

TypeOK == RowsOK /\ HostOK /\ ThreadsOK /\ UnstartedAreOff

Init ==
  /\ wake = [t \in Tasks |-> "null"]
  /\ attempts = [t \in Tasks |-> 0]
  /\ due = [t \in Tasks |-> 0]
  /\ eligible \in [Tasks -> BOOLEAN]
  /\ injected = [t \in Tasks |-> 0]
  /\ up = TRUE
  /\ loads = 0
  /\ reload = "idle"
  /\ pc = [w \in Workers |-> "off"]
  /\ stop = [w \in Workers |-> FALSE]
  /\ batch = [w \in Workers |-> {}]
  /\ cur = [w \in Workers |-> NoTask]
  /\ age = [w \in Workers |-> 0]
  /\ crashes = 0
  /\ dbErrors = 0

----------------------------------------------------------------------------
\* Operators named Mut... are never used by the specification: each is a
\* plausible bug in the definition below it, kept to see a property fail.

\* Mutation: any closed wake may be opened again.
MutUnopened(t) == wake[t] \notin {"pending", "dispatching"}
Unopened(t) == wake[t] = "null"

\* begin_terminal_wake: the first terminal observation of the task moves
\* NULL to pending, or to disabled; every later one leaves the row alone.
BeginTerminalWake(t) ==
  /\ up
  /\ Unopened(t)
  /\ wake' = [wake EXCEPT ![t] = IF eligible[t] THEN "pending" ELSE "disabled"]
  /\ due' = [due EXCEPT ![t] = 0]
  /\ UNCHANGED <<attempts, eligible, injected, host, threads, faults>>

----------------------------------------------------------------------------
\* _replace_wake_worker.  stop() sets the old worker's event and joins it
\* for a bounded time; only then is the new worker built and started.
StartWorker ==
  /\ loads' = loads + 1
  /\ pc' = [pc EXCEPT ![loads + 1] = "top"]

Register ==
  /\ up
  /\ reload = "idle"
  /\ loads < MaxLoads
  /\ IF loads = 0
       THEN StartWorker /\ UNCHANGED <<reload, stop>>
       ELSE /\ stop' = [stop EXCEPT ![loads] = TRUE]
            /\ reload' = "joining"
            /\ UNCHANGED <<loads, pc>>
  /\ UNCHANGED <<rows, eligible, injected, up, batch, cur, age, faults>>

\* Mutation: the new worker starts before the old one is joined.
MutJoinOver == TRUE
JoinOver == pc[loads] = "off" \/ JoinMayTimeOut

Joined ==
  /\ reload = "joining"
  /\ JoinOver
  /\ StartWorker
  /\ reload' = "idle"
  /\ UNCHANGED <<rows, eligible, injected, up, stop, batch, cur, age, faults>>

----------------------------------------------------------------------------
\* The worker thread: _loop, run_once, _dispatch_one.
Goto(w, to) == pc' = [pc EXCEPT ![w] = to]

\* The loop's test of _stop; a tick takes its `now' here.
WTop(w) ==
  /\ pc[w] = "top"
  /\ Goto(w, IF stop[w] THEN "off" ELSE "settle")
  /\ age' = [age EXCEPT ![w] = 0]
  /\ UNCHANGED <<rows, eligible, injected, host, batch, cur, faults>>

\* Mutations: a stale dispatch is retried; stale dispatches are not recovered.
MutRequeueStale(s) == IF s = "dispatching" THEN "pending" ELSE s
MutForgetStale(s) == s
SettleStale(s) == IF s = "dispatching" THEN "uncertain" ELSE s

\* settle_stale_wake_dispatching, at the start of every tick: whoever holds
\* a dispatching row is presumed dead.
WSettle(w) ==
  /\ pc[w] = "settle"
  /\ wake' = [t \in Tasks |-> SettleStale(wake[t])]
  /\ Goto(w, "list")
  /\ UNCHANGED <<attempts, due, eligible, injected, host, batch, cur, age, faults>>

\* Mutation: the deadline is not tested.
MutDue == {t \in Tasks : wake[t] = "pending" /\ eligible[t]}
\* list_wake_pending: at most MaxPerTick of the rows that are due.
Due == {t \in Tasks : wake[t] = "pending" /\ eligible[t] /\ due[t] = 0}

WList(w) ==
  /\ pc[w] = "list"
  /\ \E S \in SUBSET Due :
       /\ \/ S = Due /\ Cardinality(S) <= MaxPerTick
          \/ Cardinality(S) = MaxPerTick
       /\ batch' = [batch EXCEPT ![w] = S]
  /\ Goto(w, "claim")
  /\ UNCHANGED <<rows, eligible, injected, host, cur, age, faults>>

\* Mutation: the claim is a plain UPDATE.
MutClaimable(t) == wake[t] \in {"pending", "dispatching"}
Claimable(t) == wake[t] = "pending"

\* claim_terminal_wake: a CAS on the state alone; a lost race skips the row.
WClaim(w, t) ==
  /\ pc[w] = "claim"
  /\ t \in batch[w]
  /\ batch' = [batch EXCEPT ![w] = @ \ {t}]
  /\ IF Claimable(t)
       THEN /\ wake' = [wake EXCEPT ![t] = "dispatching"]
            /\ attempts' = [attempts EXCEPT ![t] = @ + 1]
            /\ cur' = [cur EXCEPT ![w] = t]
            /\ Goto(w, "inject")
       ELSE UNCHANGED <<wake, attempts, cur, pc>>
  /\ UNCHANGED <<due, eligible, injected, host, age, faults>>

\* ctx.inject_message: the gateway accepts, or returns False or raises.
WInject(w) ==
  /\ pc[w] = "inject"
  /\ \/ /\ injected' = [injected EXCEPT ![cur[w]] = @ + 1]
        /\ Goto(w, "accept")
     \/ /\ UNCHANGED injected
        /\ Goto(w, "refuse")
  /\ UNCHANGED <<rows, eligible, host, batch, cur, age, faults>>

\* mark_wake_accepted writes whatever the row says now.
WAccept(w) ==
  /\ pc[w] = "accept"
  /\ wake' = [wake EXCEPT ![cur[w]] = "accepted"]
  /\ cur' = [cur EXCEPT ![w] = NoTask]
  /\ Goto(w, "claim")
  /\ UNCHANGED <<attempts, due, eligible, injected, host, batch, age, faults>>

\* Mutation: a slow injection puts the deadline in the past.
MutRetryDelay(n, elapsed) ==
  Backoff[IF n < Len(Backoff) THEN n ELSE Len(Backoff)] - elapsed
\* The deadline now + retry_backoff[min(attempts - 1, last)], seen from here.
RetryDelay(n, elapsed) ==
  LET i == IF n < Len(Backoff) THEN n ELSE Len(Backoff)
  IN  IF elapsed < Backoff[i] THEN Backoff[i] - elapsed ELSE 0

\* Mutation: one attempt too many.
MutBudgetLeft(n) == n <= MaxAttempts
BudgetLeft(n) == n < MaxAttempts

\* Mutation: the outcome is written whatever the row says.
MutOutcomeOpen(t) == TRUE
OutcomeOpen(t) == wake[t] = "dispatching"

\* mark_wake_retry or mark_wake_exhausted; both only move a dispatching row.
WRefuse(w) ==
  /\ pc[w] = "refuse"
  /\ LET t == cur[w] IN
       IF ~OutcomeOpen(t) THEN UNCHANGED rows
       ELSE IF BudgetLeft(attempts[t])
         THEN /\ wake' = [wake EXCEPT ![t] = "pending"]
              /\ due' = [due EXCEPT ![t] = RetryDelay(attempts[t], age[w])]
              /\ UNCHANGED attempts
         ELSE /\ wake' = [wake EXCEPT ![t] = "exhausted"]
              /\ UNCHANGED <<attempts, due>>
  /\ cur' = [cur EXCEPT ![w] = NoTask]
  /\ Goto(w, "claim")
  /\ UNCHANGED <<eligible, injected, host, batch, age, faults>>

\* The batch is done: _stop.wait(interval), then the loop's test again.
WSleep(w) ==
  /\ pc[w] = "claim"
  /\ batch[w] = {}
  /\ Goto(w, "top")
  /\ age' = [age EXCEPT ![w] = 0]
  /\ UNCHANGED <<rows, eligible, injected, host, batch, cur, faults>>

\* A registry call raises (before an injection it is _dispatch_one's
\* get_task).  The recovery pass swallows it and goes on to the list; anywhere
\* else the tick is abandoned and the worker lives on.
WDbError(w) ==
  /\ dbErrors < MaxDbErrors
  /\ pc[w] \in {"settle", "list", "claim", "inject", "accept", "refuse"}
  /\ pc[w] = "claim" => batch[w] # {}
  /\ dbErrors' = dbErrors + 1
  /\ IF pc[w] = "settle"
       THEN Goto(w, "list") /\ UNCHANGED <<batch, cur, age>>
       ELSE /\ Goto(w, "top")
            /\ batch' = [batch EXCEPT ![w] = {}]
            /\ cur' = [cur EXCEPT ![w] = NoTask]
            /\ age' = [age EXCEPT ![w] = 0]
  /\ UNCHANGED <<rows, eligible, injected, host, crashes>>

Worker(w) ==
  \/ WTop(w) \/ WSettle(w) \/ WList(w) \/ WInject(w) \/ WAccept(w)
  \/ WRefuse(w) \/ WSleep(w) \/ \E t \in Tasks : WClaim(w, t)

----------------------------------------------------------------------------
\* One clock tick.
Tick ==
  /\ \/ \E t \in Tasks : due[t] > 0
     \/ \E w \in Workers : pc[w] \notin {"off", "top"} /\ age[w] < MaxBackoff
  /\ due' = [t \in Tasks |-> IF due[t] > 0 THEN due[t] - 1 ELSE 0]
  /\ age' = [w \in Workers |->
               IF pc[w] \notin {"off", "top"} /\ age[w] < MaxBackoff
                 THEN age[w] + 1 ELSE age[w]]
  /\ UNCHANGED <<wake, attempts, eligible, injected, host, pc, batch, cur, faults>>

\* The host process dies with every thread in it; the rows stay.
Crash ==
  /\ up
  /\ crashes < MaxCrashes
  /\ crashes' = crashes + 1
  /\ up' = FALSE
  /\ loads' = 0
  /\ reload' = "idle"
  /\ pc' = [w \in Workers |-> "off"]
  /\ stop' = [w \in Workers |-> FALSE]
  /\ batch' = [w \in Workers |-> {}]
  /\ cur' = [w \in Workers |-> NoTask]
  /\ age' = [w \in Workers |-> 0]
  /\ UNCHANGED <<rows, eligible, injected, dbErrors>>

Restart ==
  /\ ~up
  /\ up' = TRUE
  /\ UNCHANGED <<rows, eligible, injected, loads, reload, stop, threads, faults>>

Next ==
  \/ \E t \in Tasks : BeginTerminalWake(t)
  \/ Register \/ Joined \/ Tick \/ Crash \/ Restart
  \/ \E w \in Workers : Worker(w) \/ WDbError(w)

Spec == Init /\ [][Next]_vars

\* The threads are scheduled, inject_message returns, time passes, the host
\* comes back after a crash and loads the plugin.
Fairness ==
  /\ \A w \in Workers : WF_vars(Worker(w))
  /\ WF_vars(Tick)
  /\ WF_vars(Restart)
  /\ WF_vars(loads = 0 /\ Register)
  /\ WF_vars(Joined)

FairSpec == Spec /\ Fairness

----------------------------------------------------------------------------
\* Safety: the original session is resumed at most once per task, however
\* workers overlap, ticks fail and hosts die (registry_db.py: "at most one
\* wake per task"; wake_worker.py: a duplicate orchestrator turn is the
\* failure this exists to prevent).
AtMostOneAcceptance == \A t \in Tasks : injected[t] <= 1

\* The parts of ClaimsAreExclusive, below.
HolderHasClaim ==
  \A w \in Workers : pc[w] \in Holding <=> cur[w] # NoTask

ClaimMatchesRow ==
  \A w \in Workers : cur[w] # NoTask =>
    /\ wake[cur[w]] \in {"dispatching", "uncertain"}
    /\ attempts[cur[w]] > 0
    /\ injected[cur[w]] = IF pc[w] = "accept" THEN 1 ELSE 0

OneHolder ==
  \A v, w \in Workers : cur[w] # NoTask /\ cur[v] = cur[w] => v = w

\* Safety: a claim is exclusive.  At most one thread is dispatching a row,
\* the row says dispatching (or uncertain, once a later tick gave it up), and
\* the gateway has not taken the message unless that thread is about to
\* record it.  A retry or a give-up can therefore not hide a delivery.
ClaimsAreExclusive == HolderHasClaim /\ ClaimMatchesRow /\ OneHolder

\* Safety: the audit state tells the truth about the gateway.  A row says
\* accepted only if the message was taken, and a row that is exhausted, or
\* waiting for another attempt, was never taken.
AuditIsTruthful ==
  \A t \in Tasks :
    /\ wake[t] = "accepted" => injected[t] = 1
    /\ wake[t] \in {"null", "pending", "exhausted", "disabled"} => injected[t] = 0

\* Safety: a task is dispatched at most max_attempts times, claims lost to a
\* crash or to a failed tick included, and is exhausted only by the last.
AttemptsWithinBudget ==
  \A t \in Tasks :
    /\ attempts[t] <= MaxAttempts
    /\ wake[t] \in {"null", "pending"} => attempts[t] < MaxAttempts
    /\ wake[t] = "exhausted" => attempts[t] = MaxAttempts

\* Safety: a dispatch in flight in a live worker is not declared uncertain by
\* the worker that replaces it (the reload order of tools.py).
LiveDispatchNeverUncertain ==
  \A w \in Workers : pc[w] \in Holding => wake[cur[w]] # "uncertain"

\* Action property: no attempt is spent before the retry deadline of the
\* previous one, although claim_terminal_wake does not test it.
ClaimsAreDue ==
  [][\A t \in Tasks : attempts'[t] # attempts[t] => due[t] = 0]_vars

\* Action property: a closed wake never goes back to be dispatched; the one
\* change left is uncertain to accepted, by the worker that did deliver it.
ClosedStaysClosed ==
  [][\A t \in Tasks :
       wake[t] \in Terminal /\ wake'[t] # wake[t] =>
         wake[t] = "uncertain" /\ wake'[t] = "accepted" /\ injected[t] = 1]_vars

\* Liveness: every opened wake is resolved: accepted, given up after
\* max_attempts, or uncertain.  Crashes, reloads and failed ticks included.
WakeResolves ==
  \A t \in Tasks : wake[t] = "pending" ~> wake[t] \in Terminal

\* The implementation of the abstract wake: a row is closed once it is in a
\* terminal state and no thread is still dispatching it.
WakeStatus ==
  [t \in Tasks |->
     IF wake[t] = "null" THEN "none"
     ELSE IF wake[t] \in Terminal /\ \A w \in Workers : cur[w] # t THEN "closed"
     ELSE "open"]

Abstract == INSTANCE OneWake WITH status <- WakeStatus, delivered <- injected

\* Refinement: the rows and the workers implement OneWake.
ImplementsOneWake == Abstract!Spec
=============================================================================
