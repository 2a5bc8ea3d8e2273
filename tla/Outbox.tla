------------------------------- MODULE Outbox -------------------------------
(***************************************************************************)
(* The notification outbox: the notifications table (registry_db.py), the  *)
(* enqueue and the worker threads that deliver its rows (outbox.py), and   *)
(* the plugin (re)load that replaces a worker (tools.py).  One step is one *)
(* registry call or one delivery.  The host's send_message tool is         *)
(* external: it reports success or an error, answers nothing, or raises,   *)
(* and an answer other than success does not tell whether the message has  *)
(* reached the chat.                                                       *)
(*                                                                         *)
(* Time is relative: lease[n] counts down to lease_until, due[n] to        *)
(* next_retry_at, and age[w] up from the `now' of worker w's tick.         *)
(***************************************************************************)
EXTENDS Integers, Sequences, FiniteSets

CONSTANTS
  Notes, NoNote,
  MaxLoads,       \* bound: plugin loads in the life of one host process
  MaxAttempts,    \* MAX_ATTEMPTS
  Backoff,        \* RETRY_BACKOFF_SECONDS, in clock ticks
  Lease,          \* lease_seconds, in clock ticks
  MaxPerTick,     \* max_per_tick
  MaxCrashes,     \* bound: host process deaths
  MaxDbErrors     \* bound: registry calls that raise

ASSUME ConstantsAssumption ==
  /\ NoNote \notin Notes
  /\ MaxLoads \in Nat \ {0}
  /\ MaxAttempts \in Nat \ {0}
  /\ Backoff \in Seq(Nat)
  /\ Len(Backoff) > 0
  /\ Lease \in Nat \ {0}
  /\ MaxPerTick \in Nat \ {0}
  /\ MaxCrashes \in Nat
  /\ MaxDbErrors \in Nat

Workers == 1..MaxLoads
Closed == {"sent", "failed"}

VARIABLES
  status,     \* note -> status, "none" before the row exists
  attempts,   \* note -> attempts
  due,        \* note -> ticks until next_retry_at (0: due)
  lease,      \* note -> ticks until lease_until (0: expired)
  routable,   \* note -> was a target built from the task's origin?
  arrived,    \* note -> messages that reached the chat (history)
  denied,     \* note -> those, before a lease of it expired, whose send answered an error
  blank,      \* notes whose send has been answered with nothing (history)
  requeues,   \* note -> expired leases that were requeued (history)
  up, loads,
  stopping,   \* _replace_worker has started the new worker, not stopped the old
  stop,       \* worker -> its _stop event
  pc,         \* worker -> where its thread is
  batch,      \* worker -> rows of this tick not recorded yet
  snap,       \* worker -> note -> attempts in the row its claim returned
  cur,        \* worker -> the row delivered and not recorded yet, or NoNote
  answer,     \* worker -> what the tool answered for it
  age,        \* worker -> ticks since its `now'
  crashes, dbErrors

rows == <<status, attempts, due, lease>>
history == <<arrived, denied, blank, requeues>>
host == <<up, loads, stopping, stop>>
threads == <<pc, batch, snap, cur, answer, age>>
faults == <<crashes, dbErrors>>
vars == <<rows, routable, history, host, threads, faults>>

MaxBackoff == CHOOSE m \in {Backoff[i] : i \in 1..Len(Backoff)} :
                \A i \in 1..Len(Backoff) : Backoff[i] <= m

RowsOK ==
  /\ status \in [Notes -> {"none", "pending", "leased"} \cup Closed]
  /\ attempts \in [Notes -> Nat]
  /\ due \in [Notes -> Nat]
  /\ lease \in [Notes -> Nat]
  /\ routable \in [Notes -> BOOLEAN]
  /\ arrived \in [Notes -> Nat]
  /\ denied \in [Notes -> Nat]
  /\ blank \in SUBSET Notes
  /\ requeues \in [Notes -> Nat]

HostOK ==
  /\ up \in BOOLEAN
  /\ loads \in 0..MaxLoads
  /\ stopping \in BOOLEAN
  /\ stop \in [Workers -> BOOLEAN]
  /\ crashes \in 0..MaxCrashes
  /\ dbErrors \in 0..MaxDbErrors

ThreadsOK ==
  /\ pc \in [Workers -> {"off", "top", "claim", "deliver", "record"}]
  /\ batch \in [Workers -> SUBSET Notes]
  /\ snap \in [Workers -> [Notes -> Nat]]
  /\ cur \in [Workers -> Notes \cup {NoNote}]
  /\ answer \in [Workers -> {"none", "ok", "empty", "transient", "permanent"}]
  /\ age \in [Workers -> Nat]

TypeOK == RowsOK /\ HostOK /\ ThreadsOK

NoAttempts == [n \in Notes |-> 0]

Init ==
  /\ status = [n \in Notes |-> "none"]
  /\ attempts = NoAttempts
  /\ due = NoAttempts
  /\ lease = NoAttempts
  /\ routable \in [Notes -> BOOLEAN]
  /\ arrived = NoAttempts
  /\ denied = NoAttempts
  /\ blank = {}
  /\ requeues = NoAttempts
  /\ up = TRUE /\ loads = 0 /\ stopping = FALSE
  /\ stop = [w \in Workers |-> FALSE]
  /\ pc = [w \in Workers |-> "off"]
  /\ batch = [w \in Workers |-> {}]
  /\ snap = [w \in Workers |-> NoAttempts]
  /\ cur = [w \in Workers |-> NoNote]
  /\ answer = [w \in Workers |-> "none"]
  /\ age = [w \in Workers |-> 0]
  /\ crashes = 0 /\ dbErrors = 0

----------------------------------------------------------------------------
\* Operators named Mut... are never used by the specification: each is a
\* plausible bug in the definition below it.

\* enqueue: INSERT OR IGNORE under a stable id; a second one is a no-op.
Enqueue(n) ==
  /\ up
  /\ status[n] = "none"
  /\ status' = [status EXCEPT ![n] = "pending"]
  /\ UNCHANGED <<attempts, due, lease, routable, history, host, threads, faults>>

\* _replace_worker: the new worker is started first, then the old one is
\* told to stop.
Register ==
  /\ up
  /\ ~stopping
  /\ loads < MaxLoads
  /\ loads' = loads + 1
  /\ pc' = [pc EXCEPT ![loads + 1] = "top"]
  /\ stopping' = (loads > 0)
  /\ UNCHANGED <<rows, routable, history, up, stop, batch, snap, cur, answer, age, faults>>

StopOld ==
  /\ stopping
  /\ stop' = [stop EXCEPT ![loads - 1] = TRUE]
  /\ stopping' = FALSE
  /\ UNCHANGED <<rows, routable, history, up, loads, threads, faults>>

----------------------------------------------------------------------------
\* The worker thread: _loop, run_once, _deliver_one.
Goto(w, to) == pc' = [pc EXCEPT ![w] = to]

WTop(w) ==
  /\ pc[w] = "top"
  /\ Goto(w, IF stop[w] THEN "off" ELSE "claim")
  /\ UNCHANGED <<rows, routable, history, host, batch, snap, cur, answer, age, faults>>

\* Mutation: expired leases are not requeued.
MutExpired == {}
Expired == {n \in Notes : status[n] = "leased" /\ lease[n] = 0}

\* Mutations: the status is not tested; a failed row is tried again.
MutAvailable == {n \in Notes : status[n] \in {"pending", "leased"} /\ due[n] = 0}
MutAvailableFailed ==
  {n \in Notes : (status[n] \in {"pending", "failed"} \/ n \in Expired) /\ due[n] = 0}
Available == {n \in Notes : (status[n] = "pending" \/ n \in Expired) /\ due[n] = 0}

\* claim_notifications, one atomic step: requeue the expired leases, then
\* lease up to MaxPerTick of the due rows (the oldest; here any).  The tick's
\* `now', taken just before the call, is that of the step.
WClaim(w) ==
  /\ pc[w] = "claim"
  /\ \E S \in SUBSET Available :
       /\ \/ S = Available /\ Cardinality(S) <= MaxPerTick
          \/ Cardinality(S) = MaxPerTick
       /\ status' = [n \in Notes |-> IF n \in S THEN "leased"
                                     ELSE IF n \in Expired THEN "pending" ELSE status[n]]
       /\ lease' = [n \in Notes |-> IF n \in S THEN Lease ELSE lease[n]]
       /\ attempts' = [n \in Notes |-> IF n \in S THEN attempts[n] + 1 ELSE attempts[n]]
       /\ batch' = [batch EXCEPT ![w] = S]
       /\ snap' = [snap EXCEPT ![w] = [n \in Notes |-> IF n \in S THEN attempts[n] + 1 ELSE 0]]
  /\ requeues' = [n \in Notes |-> IF n \in Expired THEN requeues[n] + 1 ELSE requeues[n]]
  /\ age' = [age EXCEPT ![w] = 0]
  /\ Goto(w, "deliver")
  /\ UNCHANGED <<due, routable, arrived, denied, blank, host, cur, answer, faults>>

\* What _deliver_one gets for a row.  "ok" is a receipt, "empty" no answer or
\* one that names no error, "transient" a raised send or an error to try
\* again.  Without a target nothing is sent, and the failure is permanent.
Answers(n) ==
  IF routable[n] THEN {"ok", "empty", "transient", "permanent"} ELSE {"permanent"}

\* Has the message reached the chat?  Only a receipt tells: a send that raised
\* or timed out may have arrived all the same.
Arrivals(n, a) == IF ~routable[n] THEN {FALSE} ELSE IF a = "ok" THEN {TRUE} ELSE BOOLEAN

\* Mutation: prose instead of JSON counts as a delivery.
MutDelivered(a) == a # "permanent"
\* extract_tool_error returns no error: for a receipt, and for no answer too.
Delivered(a) == a \in {"ok", "empty"}

WDeliver(w, n, a, reached) ==
  /\ pc[w] = "deliver"
  /\ n \in batch[w]
  /\ arrived' = [arrived EXCEPT ![n] = IF reached THEN @ + 1 ELSE @]
  /\ denied' = [denied EXCEPT ![n] =
                 IF reached /\ ~Delivered(a) /\ requeues[n] = 0 THEN @ + 1 ELSE @]
  /\ blank' = IF a = "empty" THEN blank \cup {n} ELSE blank
  /\ batch' = [batch EXCEPT ![w] = @ \ {n}]
  /\ cur' = [cur EXCEPT ![w] = n]
  /\ answer' = [answer EXCEPT ![w] = a]
  /\ Goto(w, "record")
  /\ UNCHANGED <<rows, routable, requeues, host, snap, age, faults>>

\* Mutation: a slow delivery puts the deadline in the past.
MutRetryDelay(k, elapsed) ==
  Backoff[IF k < Len(Backoff) THEN k ELSE Len(Backoff)] - elapsed
\* now + RETRY_BACKOFF_SECONDS[min(attempts - 1, last)], seen from here.
RetryDelay(k, elapsed) ==
  LET i == IF k < Len(Backoff) THEN k ELSE Len(Backoff)
  IN  IF elapsed < Backoff[i] THEN Backoff[i] - elapsed ELSE 0

\* Mutation: one attempt too many.
MutRetries(a, k) == a = "transient" /\ k <= MaxAttempts
Retries(a, k) == a = "transient" /\ k < MaxAttempts

\* mark_sent or mark_failed.  The attempts are those of the claimed row, and
\* the row is written whatever it says by now.
WRecord(w) ==
  /\ pc[w] = "record"
  /\ LET n == cur[w]
         k == IF snap[w][n] = 0 THEN 1 ELSE snap[w][n]
     IN  IF Delivered(answer[w])
           THEN status' = [status EXCEPT ![n] = "sent"] /\ UNCHANGED due
         ELSE IF Retries(answer[w], k)
           THEN /\ status' = [status EXCEPT ![n] = "pending"]
                /\ due' = [due EXCEPT ![n] = RetryDelay(k, age[w])]
         ELSE /\ status' = [status EXCEPT ![n] = "failed"]
              /\ due' = [due EXCEPT ![n] = 0]
  /\ cur' = [cur EXCEPT ![w] = NoNote]
  /\ answer' = [answer EXCEPT ![w] = "none"]
  /\ Goto(w, "deliver")
  /\ UNCHANGED <<attempts, lease, routable, history, host, batch, snap, age, faults>>

\* The batch is done: _stop.wait(interval), then the loop's test again.
WSleep(w) ==
  /\ pc[w] = "deliver"
  /\ batch[w] = {}
  /\ Goto(w, "top")
  /\ snap' = [snap EXCEPT ![w] = NoAttempts]
  /\ age' = [age EXCEPT ![w] = 0]
  /\ UNCHANGED <<rows, routable, history, host, batch, cur, answer, faults>>

\* A registry call raises and the tick is abandoned; rows it has leased stay
\* leased until their lease expires.
WDbError(w) ==
  /\ dbErrors < MaxDbErrors
  /\ pc[w] \in {"claim", "record"}
  /\ dbErrors' = dbErrors + 1
  /\ Goto(w, "top")
  /\ batch' = [batch EXCEPT ![w] = {}]
  /\ snap' = [snap EXCEPT ![w] = NoAttempts]
  /\ cur' = [cur EXCEPT ![w] = NoNote]
  /\ answer' = [answer EXCEPT ![w] = "none"]
  /\ age' = [age EXCEPT ![w] = 0]
  /\ UNCHANGED <<rows, routable, history, host, crashes>>

Worker(w) ==
  \/ WTop(w) \/ WClaim(w) \/ WRecord(w) \/ WSleep(w)
  \/ \E n \in Notes : \E a \in Answers(n) : \E reached \in Arrivals(n, a) :
       WDeliver(w, n, a, reached)

----------------------------------------------------------------------------
InTick(w) == pc[w] \in {"deliver", "record"}

\* One clock tick.
Tick ==
  /\ \/ \E n \in Notes : due[n] > 0 \/ (status[n] = "leased" /\ lease[n] > 0)
     \/ \E w \in Workers : InTick(w) /\ age[w] < MaxBackoff
  /\ due' = [n \in Notes |-> IF due[n] > 0 THEN due[n] - 1 ELSE 0]
  /\ lease' = [n \in Notes |-> IF lease[n] > 0 THEN lease[n] - 1 ELSE 0]
  /\ age' = [w \in Workers |->
               IF InTick(w) /\ age[w] < MaxBackoff THEN age[w] + 1 ELSE age[w]]
  /\ UNCHANGED <<status, attempts, routable, history, host, pc, batch, snap, cur,
                 answer, faults>>

\* The host process dies with every thread in it; the rows stay.
Crash ==
  /\ up
  /\ crashes < MaxCrashes
  /\ crashes' = crashes + 1
  /\ up' = FALSE /\ loads' = 0 /\ stopping' = FALSE
  /\ stop' = [w \in Workers |-> FALSE]
  /\ pc' = [w \in Workers |-> "off"]
  /\ batch' = [w \in Workers |-> {}]
  /\ snap' = [w \in Workers |-> NoAttempts]
  /\ cur' = [w \in Workers |-> NoNote]
  /\ answer' = [w \in Workers |-> "none"]
  /\ age' = [w \in Workers |-> 0]
  /\ UNCHANGED <<rows, routable, history, dbErrors>>

Restart ==
  /\ ~up
  /\ up' = TRUE
  /\ UNCHANGED <<rows, routable, history, loads, stopping, stop, threads, faults>>

Next ==
  \/ \E n \in Notes : Enqueue(n)
  \/ Register \/ StopOld \/ Tick \/ Crash \/ Restart
  \/ \E w \in Workers : Worker(w) \/ WDbError(w)

Spec == Init /\ [][Next]_vars

\* The threads are scheduled, send_message returns, time passes, the host
\* comes back after a crash and loads the plugin.
Fairness ==
  /\ \A w \in Workers : WF_vars(Worker(w))
  /\ WF_vars(Tick) /\ WF_vars(Restart)
  /\ WF_vars(loads = 0 /\ Register)

FairSpec == Spec /\ Fairness

----------------------------------------------------------------------------
\* The rows a thread has claimed and not recorded.
Held(w) == batch[w] \cup ({cur[w]} \ {NoNote})

\* Safety: as long as no lease of a row has expired, the row is leased to the
\* one thread that works on it, and nobody works on a row that is closed or
\* waiting (claim_notifications: "two workers in this process can never lease
\* the same row").
LeaseIsExclusive ==
  \A n \in Notes : requeues[n] = 0 =>
    \A w \in Workers : n \in Held(w) =>
      /\ status[n] = "leased"
      /\ \A v \in Workers : n \in Held(v) => v = w

\* Safety: a notification reaches the chat once, and once more for every send
\* that arrived although it raised or answered an error (mark_failed then
\* retries it).  Only an expired lease adds to that: reloads, overlapping
\* workers, failing registry calls and empty answers never do.
DuplicateIsExplained ==
  \A n \in Notes : requeues[n] = 0 => arrived[n] <= 1 + denied[n]

\* Safety: a row says sent only if it has a target and its message reached the
\* chat or a send of it was answered with nothing, the one answer that
\* extract_tool_error takes for a delivery without a receipt.
SentIsDelivered ==
  \A n \in Notes : status[n] = "sent" => routable[n] /\ (arrived[n] > 0 \/ n \in blank)

\* Safety: the retry budget.  A row is claimed at most MAX_ATTEMPTS times, and
\* once more for each of its leases that expired.
AttemptsBounded ==
  \A n \in Notes : attempts[n] <= MaxAttempts + requeues[n]

\* Action property: a closed row is opened again only by a thread that had
\* outlived its lease.
ClosedNeedsRequeue ==
  [][\A n \in Notes : status[n] \in Closed /\ status'[n] # status[n] => requeues[n] > 0]_vars

\* Liveness: every enqueued notification ends sent or failed, and stays so.
\* Crashes, reloads and failing registry calls included (outbox.py: "a crash
\* or a manager restart never loses a notification").
NoticeResolves ==
  \A n \in Notes : status[n] = "pending" ~> [](status[n] \in Closed)
=============================================================================
