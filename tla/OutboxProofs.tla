---------------------------- MODULE OutboxProofs ----------------------------
(***************************************************************************)
(* Proofs about Outbox, for every set of notifications, number of workers, *)
(* retry budget, backoff table, lease, batch size and number of faults.    *)
(***************************************************************************)
EXTENDS Outbox, FiniteSetTheorems, TLAPS

\* Thread w has claimed row n and not recorded an outcome.
Holds(w, n) == n \in batch[w] \/ cur[w] = n

\* Where a thread is and what it has in hand agree; a worker that is not
\* registered has no thread.
ThreadInv ==
  \A w \in Workers :
    /\ pc[w] = "record" => cur[w] \in Notes \ batch[w] /\ answer[w] \in Answers(cur[w])
    /\ pc[w] # "record" => cur[w] = NoNote
    /\ pc[w] \notin {"deliver", "record"} => batch[w] = {}
    /\ w > loads => pc[w] = "off"

\* A receipt in hand is of a message that arrived, an empty answer in hand is
\* noted.
ReceiptInv ==
  \A w \in Workers : pc[w] = "record" =>
    /\ answer[w] = "ok" => arrived[cur[w]] > 0
    /\ answer[w] = "empty" => cur[w] \in blank

\* A row without an expired lease.  The exclusive lease alone does not
\* exclude a second delivery: of a row that may be claimed, or that a thread
\* still has to send, or sent with an error, no arrival is unexplained.
LeaseInv ==
  \A n \in Notes : requeues[n] = 0 =>
    /\ arrived[n] <= 1 + denied[n]
    /\ status[n] \in {"none", "pending"} => arrived[n] <= denied[n]
    /\ \A w \in Workers : Holds(w, n) =>
         status[n] = "leased" /\ (\A v \in Workers : Holds(v, n) => v = w)
    /\ \A w \in Workers :
         n \in batch[w] \/ (cur[w] = n /\ ~Delivered(answer[w])) => arrived[n] <= denied[n]

\* The threads that work on row n, the ones with an outdated lease included,
\* and those of them that would still grant it a retry: mark_failed decides by
\* the attempts of the claimed row, not by those the row has by now.
Holders(n) == {w \in Workers : Holds(w, n)}
Retriers(n) == {w \in Holders(n) : snap[w][n] < MaxAttempts}

\* A row with status st, a attempts and q expired leases, h threads that work
\* on it and r of them that may retry it.  Every thread but the one with the
\* current lease is paid for by an expired lease; once the budget is spent,
\* so is every claim beyond it and every retry that may still be granted, and
\* a row that waits to be claimed has one expired lease to spare.
Within(st, a, q, h, r) ==
  /\ h <= IF st = "leased" THEN q + 1 ELSE q
  /\ a >= MaxAttempts =>
       a + r <= MaxAttempts + (IF st \in {"none", "pending"} THEN q - 1 ELSE q)

StaleInv ==
  \A n \in Notes : Within(status[n], attempts[n], requeues[n],
                          Cardinality(Holders(n)), Cardinality(Retriers(n)))

IInv == TypeOK /\ ThreadInv /\ ReceiptInv /\ SentIsDelivered /\ LeaseInv /\ StaleInv

\* RETRY_BACKOFF_SECONDS is indexed inside its bounds from the first attempt on.
LEMMA RetryDelayType ==
  ASSUME NEW k \in Nat \ {0}, NEW e \in Nat PROVE RetryDelay(k, e) \in Nat
<1> DEFINE i == IF k < Len(Backoff) THEN k ELSE Len(Backoff)
<1>1. i \in 1..Len(Backoff)
  BY ConstantsAssumption
<1>2. Backoff[i] \in Nat
  BY <1>1, ConstantsAssumption
<1>3. QED
  BY <1>2 DEF RetryDelay

\* Every step keeps the types of the rows.
LEMMA RowsStep ==
  ASSUME TypeOK, ThreadInv, [Next]_vars PROVE RowsOK'
<1> USE DEF TypeOK, RowsOK, Closed
<1>1. ASSUME NEW n \in Notes, Enqueue(n) PROVE RowsOK'
  BY <1>1 DEF Enqueue, host, threads, faults, history
<1>2. CASE Register
  BY <1>2 DEF Register, rows, history, faults
<1>3. CASE StopOld
  BY <1>3 DEF StopOld, rows, history, threads, faults
<1>4. CASE Tick
  BY <1>4 DEF Tick, history, host, faults
<1>5. CASE Crash
  BY <1>5 DEF Crash, rows, history
<1>6. CASE Restart
  BY <1>6 DEF Restart, rows, history, threads, faults
<1>7. ASSUME NEW w \in Workers, WTop(w) PROVE RowsOK'
  BY <1>7 DEF WTop, Goto, rows, history, host, faults
<1>8. ASSUME NEW w \in Workers, WClaim(w) PROVE RowsOK'
  <2>1. PICK S \in SUBSET Available :
          /\ status' = [n \in Notes |-> IF n \in S THEN "leased"
                          ELSE IF n \in Expired THEN "pending" ELSE status[n]]
          /\ lease' = [n \in Notes |-> IF n \in S THEN Lease ELSE lease[n]]
          /\ attempts' = [n \in Notes |-> IF n \in S THEN attempts[n] + 1 ELSE attempts[n]]
    BY <1>8 DEF WClaim
  <2>2. requeues' = [n \in Notes |-> IF n \in Expired THEN requeues[n] + 1 ELSE requeues[n]]
    BY <1>8 DEF WClaim
  <2>3. UNCHANGED <<due, routable, arrived, denied, blank>>
    BY <1>8 DEF WClaim
  <2>4. status' \in [Notes -> {"none", "pending", "leased"} \cup Closed]
    BY <2>1
  <2>5. attempts' \in [Notes -> Nat] /\ lease' \in [Notes -> Nat] /\ requeues' \in [Notes -> Nat]
    BY <2>1, <2>2, ConstantsAssumption
  <2>6. QED
    BY <2>3, <2>4, <2>5
<1>9. ASSUME NEW w \in Workers, NEW n \in Notes, NEW a \in Answers(n),
             NEW reached \in Arrivals(n, a), WDeliver(w, n, a, reached)
      PROVE RowsOK'
  BY <1>9 DEF WDeliver, Goto, rows, host, faults
<1>10. ASSUME NEW w \in Workers, WRecord(w) PROVE RowsOK'
  <2> DEFINE n == cur[w]
             k == IF snap[w][n] = 0 THEN 1 ELSE snap[w][n]
  <2>1. n \in Notes /\ k \in Nat \ {0} /\ age[w] \in Nat
    BY <1>10 DEF WRecord, ThreadInv, ThreadsOK
  <2>2. RetryDelay(k, age[w]) \in Nat
    BY <2>1, RetryDelayType
  <2> HIDE DEF n, k
  <2>3. \/ status' = [status EXCEPT ![n] = "sent"] /\ due' = due
        \/ /\ status' = [status EXCEPT ![n] = "pending"]
           /\ due' = [due EXCEPT ![n] = RetryDelay(k, age[w])]
        \/ status' = [status EXCEPT ![n] = "failed"] /\ due' = [due EXCEPT ![n] = 0]
    BY <1>10 DEF WRecord, n, k
  <2>4. UNCHANGED <<attempts, lease, routable, arrived, denied, blank, requeues>>
    BY <1>10 DEF WRecord, history
  <2>5. QED
    BY <2>1, <2>2, <2>3, <2>4
<1>11. ASSUME NEW w \in Workers, WSleep(w) PROVE RowsOK'
  BY <1>11 DEF WSleep, Goto, rows, history, host, faults
<1>12. ASSUME NEW w \in Workers, WDbError(w) PROVE RowsOK'
  BY <1>12 DEF WDbError, Goto, rows, history, host
<1>13. CASE UNCHANGED vars
  BY <1>13 DEF vars, rows, history, host, threads, faults
<1>14. QED
  BY <1>1, <1>2, <1>3, <1>4, <1>5, <1>6, <1>7,
     <1>8, <1>9, <1>10, <1>11, <1>12, <1>13 DEF Next, Worker

\* Every step keeps the types of the host's state.
LEMMA HostStep ==
  ASSUME TypeOK, [Next]_vars PROVE HostOK'
<1> USE ConstantsAssumption DEF TypeOK, HostOK
<1>1. ASSUME NEW n \in Notes, Enqueue(n) PROVE HostOK'
  BY <1>1 DEF Enqueue, host, threads, faults, history
<1>2. CASE Register
  <2>1. stopping' \in BOOLEAN
    BY <1>2 DEF Register
  <2>2. QED
    BY <1>2, <2>1 DEF Register, faults
<1>3. CASE StopOld
  <2>1. stop' \in [Workers -> BOOLEAN]
    BY <1>3 DEF StopOld
  <2>2. QED
    BY <1>3, <2>1 DEF StopOld, faults
<1>4. CASE Tick
  BY <1>4 DEF Tick, history, host, faults
<1>5. CASE Crash
  <2>1. stop' \in [Workers -> BOOLEAN]
    BY <1>5 DEF Crash
  <2>2. up' \in BOOLEAN /\ stopping' \in BOOLEAN
    BY <1>5 DEF Crash
  <2>3. loads' = 0 /\ crashes' = crashes + 1 /\ crashes < MaxCrashes /\ dbErrors' = dbErrors
    BY <1>5 DEF Crash
  <2>4. QED
    BY <2>1, <2>2, <2>3
<1>6. CASE Restart
  BY <1>6 DEF Restart, rows, history, threads, faults
<1>7. ASSUME NEW w \in Workers, WTop(w) PROVE HostOK'
  BY <1>7 DEF WTop, Goto, rows, history, host, faults
<1>8. ASSUME NEW w \in Workers, WClaim(w) PROVE HostOK'
  BY <1>8 DEF WClaim, Goto, host, faults
<1>9. ASSUME NEW w \in Workers, NEW n \in Notes, NEW a \in Answers(n),
             NEW reached \in Arrivals(n, a), WDeliver(w, n, a, reached)
      PROVE HostOK'
  BY <1>9 DEF WDeliver, Goto, rows, host, faults
<1>10. ASSUME NEW w \in Workers, WRecord(w) PROVE HostOK'
  BY <1>10 DEF WRecord, Goto, history, host, faults
<1>11. ASSUME NEW w \in Workers, WSleep(w) PROVE HostOK'
  BY <1>11 DEF WSleep, Goto, rows, history, host, faults
<1>12. ASSUME NEW w \in Workers, WDbError(w) PROVE HostOK'
  BY <1>12 DEF WDbError, Goto, rows, history, host
<1>13. CASE UNCHANGED vars
  BY <1>13 DEF vars, rows, history, host, threads, faults
<1>14. QED
  BY <1>1, <1>2, <1>3, <1>4, <1>5, <1>6, <1>7,
     <1>8, <1>9, <1>10, <1>11, <1>12, <1>13 DEF Next, Worker

\* Every step keeps the types of the threads' local state.
LEMMA ThreadsStep ==
  ASSUME TypeOK, [Next]_vars PROVE ThreadsOK'
<1> USE DEF TypeOK, ThreadsOK
<1>1. ASSUME NEW n \in Notes, Enqueue(n) PROVE ThreadsOK'
  BY <1>1 DEF Enqueue, host, threads, faults, history
<1>2. CASE Register
  BY <1>2, ConstantsAssumption DEF Register, HostOK, Workers
<1>3. CASE StopOld
  BY <1>3 DEF StopOld, rows, history, threads, faults
<1>4. CASE Tick
  BY <1>4 DEF Tick, history, host, faults
<1>5. CASE Crash
  BY <1>5 DEF Crash, NoAttempts
<1>6. CASE Restart
  BY <1>6 DEF Restart, rows, history, threads, faults
<1>7. ASSUME NEW w \in Workers, WTop(w) PROVE ThreadsOK'
  BY <1>7 DEF WTop, Goto, rows, history, host, faults
<1>8. ASSUME NEW w \in Workers, WClaim(w) PROVE ThreadsOK'
  <2>1. PICK S \in SUBSET Available :
          /\ batch' = [batch EXCEPT ![w] = S]
          /\ snap' = [snap EXCEPT ![w] = [n \in Notes |-> IF n \in S THEN attempts[n] + 1 ELSE 0]]
    BY <1>8 DEF WClaim
  <2>2. batch' \in [Workers -> SUBSET Notes]
    BY <2>1 DEF Available
  <2>3. snap' \in [Workers -> [Notes -> Nat]]
    BY <2>1 DEF RowsOK
  <2>4. QED
    BY <1>8, <2>2, <2>3 DEF WClaim, Goto
<1>9. ASSUME NEW w \in Workers, NEW n \in Notes, NEW a \in Answers(n),
             NEW reached \in Arrivals(n, a), WDeliver(w, n, a, reached)
      PROVE ThreadsOK'
  BY <1>9 DEF WDeliver, Answers, Goto
<1>10. ASSUME NEW w \in Workers, WRecord(w) PROVE ThreadsOK'
  BY <1>10 DEF WRecord, Goto, history, host, faults
<1>11. ASSUME NEW w \in Workers, WSleep(w) PROVE ThreadsOK'
  BY <1>11 DEF WSleep, NoAttempts, Goto
<1>12. ASSUME NEW w \in Workers, WDbError(w) PROVE ThreadsOK'
  BY <1>12 DEF WDbError, NoAttempts, Goto
<1>13. CASE UNCHANGED vars
  BY <1>13 DEF vars, rows, history, host, threads, faults
<1>14. QED
  BY <1>1, <1>2, <1>3, <1>4, <1>5, <1>6, <1>7,
     <1>8, <1>9, <1>10, <1>11, <1>12, <1>13 DEF Next, Worker

\* Every step keeps a thread's place and hands in agreement.
LEMMA ThreadStep ==
  ASSUME TypeOK, ThreadInv, [Next]_vars PROVE ThreadInv'
<1> USE ConstantsAssumption DEF TypeOK, HostOK, ThreadsOK, ThreadInv, Answers
<1>1. ASSUME NEW n \in Notes, Enqueue(n) PROVE ThreadInv'
  BY <1>1 DEF Enqueue, host, threads, faults, history
<1>2. CASE Register
  <2>1. loads + 1 \in Workers /\ \A w \in Workers : w > loads + 1 => w > loads
    BY <1>2 DEF Register, Workers
  <2>2. pc[loads + 1] = "off"
    BY <2>1
  <2>3. QED
    BY <1>2, <2>1, <2>2 DEF Register
<1>3. CASE StopOld
  BY <1>3 DEF StopOld, rows, history, threads, faults
<1>4. CASE Tick
  BY <1>4 DEF Tick, history, host, faults
<1>5. CASE Crash
  BY <1>5 DEF Crash
<1>6. CASE Restart
  BY <1>6 DEF Restart, rows, history, threads, faults
<1>7. ASSUME NEW w \in Workers, WTop(w) PROVE ThreadInv'
  BY <1>7 DEF WTop, Goto, rows, history, host, faults
<1>8. ASSUME NEW w \in Workers, WClaim(w) PROVE ThreadInv'
  <2>1. PICK S \in SUBSET Available : batch' = [batch EXCEPT ![w] = S]
    BY <1>8 DEF WClaim
  <2>2. /\ pc[w] = "claim" /\ pc' = [pc EXCEPT ![w] = "deliver"]
        /\ UNCHANGED <<cur, answer, routable, loads>>
    BY <1>8 DEF WClaim, Goto, host
  <2>3. QED
    BY <2>1, <2>2
<1>9. ASSUME NEW w \in Workers, NEW n \in Notes, NEW a \in Answers(n),
             NEW reached \in Arrivals(n, a), WDeliver(w, n, a, reached)
      PROVE ThreadInv'
  BY <1>9 DEF WDeliver, Goto, host, Answers
<1>10. ASSUME NEW w \in Workers, WRecord(w) PROVE ThreadInv'
  BY <1>10 DEF WRecord, Goto, history, host, faults
<1>11. ASSUME NEW w \in Workers, WSleep(w) PROVE ThreadInv'
  BY <1>11 DEF WSleep, Goto, rows, history, host, faults
<1>12. ASSUME NEW w \in Workers, WDbError(w) PROVE ThreadInv'
  BY <1>12 DEF WDbError, Goto, rows, history, host
<1>13. CASE UNCHANGED vars
  BY <1>13 DEF vars, rows, history, host, threads, faults
<1>14. QED
  BY <1>1, <1>2, <1>3, <1>4, <1>5, <1>6, <1>7,
     <1>8, <1>9, <1>10, <1>11, <1>12, <1>13 DEF Next, Worker

\* Every step keeps the record of arrivals and empty answers ahead of the threads.
LEMMA ReceiptStep ==
  ASSUME TypeOK, ThreadInv, ReceiptInv, [Next]_vars PROVE ReceiptInv'
<1> USE DEF TypeOK, RowsOK, ThreadsOK, ThreadInv, ReceiptInv
<1>1. ASSUME NEW n \in Notes, Enqueue(n) PROVE ReceiptInv'
  BY <1>1 DEF Enqueue, host, threads, faults, history
<1>2. CASE Register
  <2>1. \A w \in Workers : pc'[w] = "record" => pc[w] = "record"
    BY <1>2, ConstantsAssumption DEF Register, HostOK, Workers
  <2>2. UNCHANGED <<cur, answer, arrived, blank>>
    BY <1>2 DEF Register, history
  <2>3. QED
    BY <2>1, <2>2
<1>3. CASE StopOld
  BY <1>3 DEF StopOld, rows, history, threads, faults
<1>4. CASE Tick
  BY <1>4 DEF Tick, history, host, faults
<1>5. CASE Crash
  BY <1>5 DEF Crash, rows, history
<1>6. CASE Restart
  BY <1>6 DEF Restart, rows, history, threads, faults
<1>7. ASSUME NEW w \in Workers, WTop(w) PROVE ReceiptInv'
  BY <1>7 DEF WTop, Goto, rows, history, host, faults
<1>8. ASSUME NEW w \in Workers, WClaim(w) PROVE ReceiptInv'
  BY <1>8 DEF WClaim, Goto, host, faults
<1>9. ASSUME NEW w \in Workers, NEW n \in Notes, NEW a \in Answers(n),
             NEW reached \in Arrivals(n, a), WDeliver(w, n, a, reached)
      PROVE ReceiptInv'
  <2>1. /\ arrived' = [arrived EXCEPT ![n] = IF reached THEN @ + 1 ELSE @]
        /\ blank' = IF a = "empty" THEN blank \cup {n} ELSE blank
        /\ cur' = [cur EXCEPT ![w] = n] /\ answer' = [answer EXCEPT ![w] = a]
        /\ pc' = [pc EXCEPT ![w] = "record"]
    BY <1>9 DEF WDeliver, Goto
  <2>2. a = "ok" => reached
    BY <1>9 DEF Arrivals, Answers
  <2>3. \A m \in Notes : arrived[m] > 0 => arrived'[m] > 0
    BY <2>1
  <2>4. QED
    BY <2>1, <2>2, <2>3
<1>10. ASSUME NEW w \in Workers, WRecord(w) PROVE ReceiptInv'
  BY <1>10 DEF WRecord, Goto, history, host, faults
<1>11. ASSUME NEW w \in Workers, WSleep(w) PROVE ReceiptInv'
  BY <1>11 DEF WSleep, Goto, rows, history, host, faults
<1>12. ASSUME NEW w \in Workers, WDbError(w) PROVE ReceiptInv'
  BY <1>12 DEF WDbError, Goto, rows, history, host
<1>13. CASE UNCHANGED vars
  BY <1>13 DEF vars, rows, history, host, threads, faults
<1>14. QED
  BY <1>1, <1>2, <1>3, <1>4, <1>5, <1>6, <1>7,
     <1>8, <1>9, <1>10, <1>11, <1>12, <1>13 DEF Next, Worker

\* A row is marked sent by a thread that has the receipt in hand.
LEMMA SentStep ==
  ASSUME TypeOK, ThreadInv, ReceiptInv, SentIsDelivered, [Next]_vars PROVE SentIsDelivered'
<1> USE DEF TypeOK, RowsOK, SentIsDelivered
<1>1. ASSUME NEW n \in Notes, Enqueue(n) PROVE SentIsDelivered'
  BY <1>1 DEF Enqueue, host, threads, faults, history
<1>2. CASE Register
  BY <1>2 DEF Register, rows, history, faults
<1>3. CASE StopOld
  BY <1>3 DEF StopOld, rows, history, threads, faults
<1>4. CASE Tick
  BY <1>4 DEF Tick, history, host, faults
<1>5. CASE Crash
  BY <1>5 DEF Crash, rows, history
<1>6. CASE Restart
  BY <1>6 DEF Restart, rows, history, threads, faults
<1>7. ASSUME NEW w \in Workers, WTop(w) PROVE SentIsDelivered'
  BY <1>7 DEF WTop, Goto, rows, history, host, faults
<1>8. ASSUME NEW w \in Workers, WClaim(w) PROVE SentIsDelivered'
  BY <1>8 DEF WClaim, Available
<1>9. ASSUME NEW w \in Workers, NEW n \in Notes, NEW a \in Answers(n),
             NEW reached \in Arrivals(n, a), WDeliver(w, n, a, reached)
      PROVE SentIsDelivered'
  BY <1>9 DEF WDeliver, Goto, rows, host, faults
<1>10. ASSUME NEW w \in Workers, WRecord(w) PROVE SentIsDelivered'
  <2>1. /\ cur[w] \in Notes
        /\ Delivered(answer[w]) =>
             routable[cur[w]] /\ (arrived[cur[w]] > 0 \/ cur[w] \in blank)
    BY <1>10 DEF WRecord, ThreadInv, ReceiptInv, Answers, Delivered
  <2>2. \A n \in Notes : status'[n] = "sent" =>
          status[n] = "sent" \/ (n = cur[w] /\ Delivered(answer[w]))
    BY <1>10, <2>1 DEF WRecord
  <2>3. UNCHANGED <<arrived, blank, routable>>
    BY <1>10 DEF WRecord, history
  <2>4. QED
    BY <2>1, <2>2, <2>3
<1>11. ASSUME NEW w \in Workers, WSleep(w) PROVE SentIsDelivered'
  BY <1>11 DEF WSleep, Goto, rows, history, host, faults
<1>12. ASSUME NEW w \in Workers, WDbError(w) PROVE SentIsDelivered'
  BY <1>12 DEF WDbError, Goto, rows, history, host
<1>13. CASE UNCHANGED vars
  BY <1>13 DEF vars, rows, history, host, threads, faults
<1>14. QED
  BY <1>1, <1>2, <1>3, <1>4, <1>5, <1>6, <1>7,
     <1>8, <1>9, <1>10, <1>11, <1>12, <1>13 DEF Next, Worker

\* Every step keeps the lease of a row exclusive until it expires.
LEMMA LeaseStep ==
  ASSUME TypeOK, ThreadInv, LeaseInv, [Next]_vars PROVE LeaseInv'
<1> USE DEF TypeOK, RowsOK, ThreadsOK, ThreadInv, LeaseInv, Holds
<1>1. ASSUME NEW n \in Notes, Enqueue(n) PROVE LeaseInv'
  BY <1>1 DEF Enqueue, host, threads, faults, history
<1>2. CASE Register
  BY <1>2, ConstantsAssumption DEF Register, rows, history
<1>3. CASE StopOld
  BY <1>3 DEF StopOld, rows, history, threads, faults
<1>4. CASE Tick
  BY <1>4 DEF Tick, history, host, faults
<1>5. CASE Crash
  BY <1>5, ConstantsAssumption DEF Crash, rows, history
<1>6. CASE Restart
  BY <1>6 DEF Restart, rows, history, threads, faults
<1>7. ASSUME NEW w \in Workers, WTop(w) PROVE LeaseInv'
  BY <1>7 DEF WTop, Goto, rows, history, host, faults
<1>8. ASSUME NEW w \in Workers, WClaim(w) PROVE LeaseInv'
  <2>1. PICK S \in SUBSET Available :
          /\ status' = [n \in Notes |-> IF n \in S THEN "leased"
                          ELSE IF n \in Expired THEN "pending" ELSE status[n]]
          /\ batch' = [batch EXCEPT ![w] = S]
    BY <1>8 DEF WClaim
  <2>2. requeues' = [n \in Notes |-> IF n \in Expired THEN requeues[n] + 1 ELSE requeues[n]]
    BY <1>8 DEF WClaim
  <2>3. UNCHANGED <<arrived, denied, cur, answer>> /\ batch[w] = {} /\ cur[w] = NoNote
    BY <1>8 DEF WClaim
  <2>4. SUFFICES ASSUME NEW n \in Notes, requeues'[n] = 0
        PROVE  /\ arrived[n] <= 1 + denied[n]
               /\ status'[n] \in {"none", "pending"} => arrived[n] <= denied[n]
               /\ \A v \in Workers : n \in batch'[v] \/ cur[v] = n =>
                    /\ status'[n] = "leased"
                    /\ (\A u \in Workers : n \in batch'[u] \/ cur[u] = n => u = v)
               /\ \A v \in Workers :
                    n \in batch'[v] \/ (cur[v] = n /\ ~Delivered(answer[v])) => arrived[n] <= denied[n]
    BY <2>3
  <2>5. requeues[n] = 0 /\ n \notin Expired
    BY <2>2, <2>4
  <2>6. CASE n \in S
    <3>1. status[n] = "pending" /\ status'[n] = "leased"
      BY <2>1, <2>5, <2>6 DEF Available
    <3>2. arrived[n] <= denied[n] /\ \A v \in Workers : ~Holds(v, n)
      BY <2>5, <3>1
    <3>3. \A v \in Workers : n \in batch'[v] => v = w
      BY <2>1, <3>2
    <3>4. QED
      BY <3>1, <3>2, <3>3
  <2>7. CASE n \notin S
    <3>1. status'[n] = status[n]
      BY <2>1, <2>5, <2>7
    <3>2. \A v \in Workers : n \in batch'[v] => n \in batch[v]
      BY <2>1, <2>7
    <3>3. QED
      BY <2>5, <3>1, <3>2
  <2>8. QED
    BY <2>6, <2>7
<1>9. ASSUME NEW w \in Workers, NEW n \in Notes, NEW a \in Answers(n),
             NEW reached \in Arrivals(n, a), WDeliver(w, n, a, reached)
      PROVE LeaseInv'
  <2>1. /\ arrived' = [arrived EXCEPT ![n] = IF reached THEN @ + 1 ELSE @]
        /\ denied' = [denied EXCEPT ![n] =
                       IF reached /\ ~Delivered(a) /\ requeues[n] = 0 THEN @ + 1 ELSE @]
        /\ batch' = [batch EXCEPT ![w] = @ \ {n}]
        /\ cur' = [cur EXCEPT ![w] = n]
        /\ answer' = [answer EXCEPT ![w] = a]
        /\ UNCHANGED <<status, requeues>>
    BY <1>9 DEF WDeliver, rows
  <2>2. n \in batch[w] /\ cur[w] = NoNote
    BY <1>9 DEF WDeliver
  <2>3. SUFFICES ASSUME NEW m \in Notes, requeues[m] = 0
        PROVE  /\ arrived'[m] <= 1 + denied'[m]
               /\ status[m] \in {"none", "pending"} => arrived'[m] <= denied'[m]
               /\ \A v \in Workers : m \in batch'[v] \/ cur'[v] = m =>
                    /\ status[m] = "leased"
                    /\ (\A u \in Workers : m \in batch'[u] \/ cur'[u] = m => u = v)
               /\ \A v \in Workers :
                    m \in batch'[v] \/ (cur'[v] = m /\ ~Delivered(answer'[v])) => arrived'[m] <= denied'[m]
    BY <2>1
  <2>4. CASE m = n
    <3>1. arrived[n] <= denied[n] /\ status[n] = "leased" /\ \A v \in Workers : Holds(v, n) => v = w
      BY <2>2, <2>3, <2>4
    <3>2. \A v \in Workers : n \notin batch'[v] /\ (cur'[v] = n => v = w)
      BY <2>1, <3>1
    <3>3. /\ arrived'[n] <= 1 + denied'[n]
          /\ ~Delivered(a) => arrived'[n] <= denied'[n]
      BY <2>1, <2>3, <2>4, <3>1
    <3>4. answer'[w] = a
      BY <2>1
    <3>5. QED
      BY <2>4, <3>1, <3>2, <3>3, <3>4
  <2>5. CASE m # n
    <3>1. arrived'[m] = arrived[m] /\ denied'[m] = denied[m]
      BY <2>1, <2>5
    <3>2. \A v \in Workers :
            (m \in batch'[v] => m \in batch[v]) /\ (cur'[v] = m => v # w /\ cur[v] = m)
      BY <2>1, <2>5
    <3>3. \A v \in Workers : v # w => answer'[v] = answer[v]
      BY <2>1
    <3>4. QED
      BY <2>3, <3>1, <3>2, <3>3
  <2>6. QED
    BY <2>4, <2>5
<1>10. ASSUME NEW w \in Workers, WRecord(w) PROVE LeaseInv'
  <2> DEFINE n == cur[w]
  <2>1. n \in Notes /\ n \notin batch[w]
    BY <1>10 DEF WRecord
  <2>2. /\ cur' = [cur EXCEPT ![w] = NoNote]
        /\ answer' = [answer EXCEPT ![w] = "none"]
        /\ UNCHANGED <<batch, arrived, denied, requeues>>
    BY <1>10 DEF WRecord, history
  <2>3. /\ status'[n] = "pending" => ~Delivered(answer[w])
        /\ status'[n] # "none"
        /\ \A m \in Notes : m # n => status'[m] = status[m]
    BY <1>10, <2>1 DEF WRecord
  <2> HIDE DEF n
  <2>4. SUFFICES ASSUME NEW m \in Notes, requeues[m] = 0
        PROVE  /\ arrived[m] <= 1 + denied[m]
               /\ status'[m] \in {"none", "pending"} => arrived[m] <= denied[m]
               /\ \A v \in Workers : m \in batch[v] \/ cur'[v] = m =>
                    /\ status'[m] = "leased"
                    /\ (\A u \in Workers : m \in batch[u] \/ cur'[u] = m => u = v)
               /\ \A v \in Workers :
                    m \in batch[v] \/ (cur'[v] = m /\ ~Delivered(answer'[v])) => arrived[m] <= denied[m]
    BY <2>2
  <2>5. \A v \in Workers : cur'[v] = m => v # w /\ cur[v] = m /\ answer'[v] = answer[v]
    BY <2>2, ConstantsAssumption
  <2>6. CASE m = n
    <3>1. \A v \in Workers : m \in batch[v] \/ cur[v] = m => v = w
      BY <2>4, <2>6 DEF n
    <3>2. \A v \in Workers : m \notin batch[v] /\ cur'[v] # m
      BY <2>1, <2>5, <2>6, <3>1
    <3>3. arrived[m] <= 1 + denied[m] /\ (~Delivered(answer[w]) => arrived[m] <= denied[m])
      BY <2>4, <2>6 DEF n
    <3>4. QED
      BY <2>3, <2>6, <3>2, <3>3
  <2>7. CASE m # n
    BY <2>3, <2>4, <2>5, <2>7
  <2>8. QED
    BY <2>6, <2>7
<1>11. ASSUME NEW w \in Workers, WSleep(w) PROVE LeaseInv'
  BY <1>11 DEF WSleep, Goto, rows, history, host, faults
<1>12. ASSUME NEW w \in Workers, WDbError(w) PROVE LeaseInv'
  <2>1. /\ batch' = [batch EXCEPT ![w] = {}] /\ cur' = [cur EXCEPT ![w] = NoNote]
        /\ answer' = [answer EXCEPT ![w] = "none"]
        /\ UNCHANGED <<status, arrived, denied, requeues>>
    BY <1>12 DEF WDbError, rows, history
  <2>2. \A n \in Notes : n \notin batch'[w] /\ cur'[w] # n
    BY <2>1, ConstantsAssumption
  <2>3. \A v \in Workers \ {w} :
          batch'[v] = batch[v] /\ cur'[v] = cur[v] /\ answer'[v] = answer[v]
    BY <2>1
  <2>4. QED
    BY <2>1, <2>2, <2>3
<1>13. CASE UNCHANGED vars
  BY <1>13 DEF vars, rows, history, host, threads, faults
<1>14. QED
  BY <1>1, <1>2, <1>3, <1>4, <1>5, <1>6, <1>7,
     <1>8, <1>9, <1>10, <1>11, <1>12, <1>13 DEF Next, Worker

\* There are finitely many workers, so a smaller set of them is counted lower.
LEMMA Counts ==
  ASSUME NEW S \in SUBSET Workers, NEW T \in SUBSET S
  PROVE  /\ IsFiniteSet(S) /\ IsFiniteSet(T)
         /\ Cardinality(S) \in Nat /\ Cardinality(T) \in Nat
         /\ Cardinality(T) <= Cardinality(S)
<1>1. IsFiniteSet(Workers)
  BY ConstantsAssumption, FS_Interval DEF Workers
<1>2. IsFiniteSet(S)
  BY <1>1, FS_Subset
<1>3. IsFiniteSet(T) /\ Cardinality(T) <= Cardinality(S)
  BY <1>2, FS_Subset
<1>4. QED
  BY <1>2, <1>3, FS_CardinalityType

\* One worker more.
LEMMA OneMore ==
  ASSUME NEW S, NEW x, IsFiniteSet(S), x \notin S
  PROVE  Cardinality(S \cup {x}) = Cardinality(S) + 1
BY FS_AddElement, Zenon

\* One worker less.
LEMMA OneLess ==
  ASSUME NEW S, NEW x, IsFiniteSet(S), x \in S
  PROVE  Cardinality(S \ {x}) = Cardinality(S) - 1
BY FS_RemoveElement, Zenon

\* With fewer threads at work on it, a row stays within its budget.
LEMMA WithinFewer ==
  ASSUME NEW st, NEW a \in Nat, NEW q \in Nat,
         NEW S \in SUBSET Workers, NEW T \in SUBSET S,
         NEW U \in SUBSET S, NEW V \in SUBSET T, V \subseteq U,
         Within(st, a, q, Cardinality(S), Cardinality(T))
  PROVE  Within(st, a, q, Cardinality(U), Cardinality(V))
<1>1. /\ Cardinality(S) \in Nat /\ Cardinality(U) \in Nat
      /\ Cardinality(U) <= Cardinality(S)
  BY Counts
<1>2. /\ Cardinality(T) \in Nat /\ Cardinality(V) \in Nat
      /\ Cardinality(V) <= Cardinality(T)
  BY Counts
<1>3. QED
  BY <1>1, <1>2, ConstantsAssumption DEF Within

\* A step that claims and records nothing, and hands no thread a row.
LEMMA StaleKept ==
  ASSUME TypeOK, StaleInv,
         UNCHANGED <<attempts, requeues>>,
         \A n \in Notes : \/ status'[n] = status[n]
                          \/ status[n] = "none" /\ status'[n] = "pending",
         \A n \in Notes : \A w \in Workers : Holds(w, n)' =>
           Holds(w, n) /\ snap'[w][n] = snap[w][n]
  PROVE  StaleInv'
<1> SUFFICES ASSUME NEW n \in Notes
             PROVE  Within(status'[n], attempts[n], requeues[n],
                           Cardinality(Holders(n)'), Cardinality(Retriers(n)'))
  BY DEF StaleInv
<1>1. /\ Holders(n) \in SUBSET Workers /\ Retriers(n) \in SUBSET Holders(n)
      /\ Holders(n)' \in SUBSET Holders(n) /\ Retriers(n)' \in SUBSET Retriers(n)
      /\ Retriers(n)' \subseteq Holders(n)'
  BY DEF Holders, Retriers
<1>2. attempts[n] \in Nat /\ requeues[n] \in Nat
  BY DEF TypeOK, RowsOK
<1>3. Within(status[n], attempts[n], requeues[n],
             Cardinality(Holders(n)), Cardinality(Retriers(n)))
  BY DEF StaleInv
<1>4. Within(status[n], attempts[n], requeues[n],
             Cardinality(Holders(n)'), Cardinality(Retriers(n)'))
  BY <1>1, <1>2, <1>3, WithinFewer
<1>5. QED
  BY <1>4 DEF Within

\* Every step keeps the threads that outlived their lease within the number of
\* expired leases, and the retries they may grant with them.
LEMMA StaleStep ==
  ASSUME TypeOK, ThreadInv, StaleInv, [Next]_vars PROVE StaleInv'
<1> USE DEF TypeOK, RowsOK, ThreadsOK, ThreadInv
<1>1. ASSUME NEW n \in Notes, Enqueue(n) PROVE StaleInv'
  BY <1>1, StaleKept DEF Enqueue, host, threads, faults, history, Holds
<1>2. CASE Register
  BY <1>2, StaleKept DEF Register, rows, history, Holds
<1>3. CASE StopOld
  BY <1>3, StaleKept DEF StopOld, rows, history, threads, Holds
<1>4. CASE Tick
  BY <1>4, StaleKept DEF Tick, history, Holds
<1>5. CASE Crash
  <2>1. \A n \in Notes : \A w \in Workers : ~Holds(w, n)'
    BY <1>5, ConstantsAssumption DEF Crash, Holds
  <2>2. QED
    BY <1>5, <2>1, StaleKept DEF Crash, rows, history
<1>6. CASE Restart
  BY <1>6, StaleKept DEF Restart, rows, history, threads, Holds
<1>7. ASSUME NEW w \in Workers, WTop(w) PROVE StaleInv'
  BY <1>7, StaleKept DEF WTop, rows, history, Holds
<1>8. ASSUME NEW w \in Workers, WClaim(w) PROVE StaleInv'
  <2>1. PICK S \in SUBSET Available :
          /\ status' = [n \in Notes |-> IF n \in S THEN "leased"
                          ELSE IF n \in Expired THEN "pending" ELSE status[n]]
          /\ attempts' = [n \in Notes |-> IF n \in S THEN attempts[n] + 1 ELSE attempts[n]]
          /\ batch' = [batch EXCEPT ![w] = S]
          /\ snap' = [snap EXCEPT ![w] =
                        [n \in Notes |-> IF n \in S THEN attempts[n] + 1 ELSE 0]]
    BY <1>8 DEF WClaim
  <2>2. requeues' = [n \in Notes |-> IF n \in Expired THEN requeues[n] + 1 ELSE requeues[n]]
    BY <1>8 DEF WClaim
  <2>3. cur' = cur /\ batch[w] = {} /\ cur[w] = NoNote
    BY <1>8 DEF WClaim
  <2> SUFFICES ASSUME NEW n \in Notes
               PROVE  Within(status'[n], attempts'[n], requeues'[n],
                             Cardinality(Holders(n)'), Cardinality(Retriers(n)'))
    BY DEF StaleInv
  <2> DEFINE h == Cardinality(Holders(n))
             r == Cardinality(Retriers(n))
             q == requeues[n]
             a == attempts[n]
  <2>4. /\ Holders(n) \in SUBSET Workers /\ Retriers(n) \in SUBSET Holders(n)
        /\ w \notin Holders(n)
    BY <2>3, ConstantsAssumption DEF Holders, Retriers, Holds
  <2>5. IsFiniteSet(Holders(n)) /\ h \in Nat /\ r \in Nat /\ r <= h
    BY <2>4, Counts
  <2>6. q \in Nat /\ a \in Nat /\ MaxAttempts \in Nat \ {0}
    BY ConstantsAssumption
  <2>7. Within(status[n], a, q, h, r)
    BY DEF StaleInv
  <2>8. \A v \in Workers \ {w} : (Holds(v, n)' <=> Holds(v, n)) /\ snap'[v] = snap[v]
    BY <2>1, <2>3 DEF Holds
  <2>9. CASE n \in S
    <3>1. Holds(w, n)' /\ snap'[w][n] = a + 1
      BY <2>1, <2>9 DEF Holds
    <3>2. Holders(n)' = Holders(n) \cup {w}
      BY <2>4, <2>8, <3>1 DEF Holders
    <3>3. Cardinality(Holders(n)') = h + 1
      <4>1. Cardinality(Holders(n) \cup {w}) = h + 1
        BY <2>4, <2>5, OneMore
      <4>2. QED
        BY <3>2, <4>1
    <3>4. a + 1 >= MaxAttempts => Retriers(n)' = Retriers(n)
      BY <2>4, <2>6, <2>8, <3>1, <3>2 DEF Retriers
    <3>5. a + 1 >= MaxAttempts => Cardinality(Retriers(n)') = r
      BY <3>4
    <3>6. /\ status'[n] = "leased" /\ attempts'[n] = a + 1
          /\ \/ status[n] = "pending" /\ requeues'[n] = q
             \/ status[n] = "leased" /\ requeues'[n] = q + 1
      BY <2>1, <2>2, <2>9 DEF Available, Expired
    <3>7. QED
      <4> HIDE DEF h, r, q, a
      <4> QED
        BY <2>5, <2>6, <2>7, <3>3, <3>5, <3>6 DEF Within
  <2>10. CASE n \notin S
    <3>1. ~Holds(w, n)' /\ ~Holds(w, n)
      BY <2>1, <2>3, <2>10, ConstantsAssumption DEF Holds
    <3>2. Holders(n)' = Holders(n) /\ Retriers(n)' = Retriers(n)
      BY <2>8, <3>1 DEF Holders, Retriers
    <3>3. Cardinality(Holders(n)') = h /\ Cardinality(Retriers(n)') = r
      BY <3>2
    <3>4. /\ attempts'[n] = a
          /\ \/ status'[n] = status[n] /\ requeues'[n] = q
             \/ status[n] = "leased" /\ status'[n] = "pending" /\ requeues'[n] = q + 1
      BY <2>1, <2>2, <2>10 DEF Expired
    <3>5. QED
      <4> HIDE DEF h, r, q, a
      <4> QED
        BY <2>5, <2>6, <2>7, <3>3, <3>4 DEF Within
  <2>11. QED
    BY <2>9, <2>10
<1>9. ASSUME NEW w \in Workers, NEW n \in Notes, NEW a \in Answers(n),
             NEW reached \in Arrivals(n, a), WDeliver(w, n, a, reached)
      PROVE StaleInv'
  <2>1. \A m \in Notes : \A v \in Workers : Holds(v, m)' => Holds(v, m)
    BY <1>9 DEF WDeliver, Holds
  <2>2. QED
    BY <1>9, <2>1, StaleKept DEF WDeliver, rows
<1>10. ASSUME NEW w \in Workers, WRecord(w) PROVE StaleInv'
  <2>1. cur[w] \in Notes /\ cur[w] \notin batch[w]
    BY <1>10 DEF WRecord
  <2>2. cur' = [cur EXCEPT ![w] = NoNote] /\ UNCHANGED <<attempts, requeues, batch, snap>>
    BY <1>10 DEF WRecord, history
  <2>3. /\ \A m \in Notes : m # cur[w] => status'[m] = status[m]
        /\ \/ status'[cur[w]] \in Closed
           \/ status'[cur[w]] = "pending" /\ snap[w][cur[w]] < MaxAttempts
    BY <1>10, <2>1, ConstantsAssumption DEF WRecord, Retries, Closed
  <2> SUFFICES ASSUME NEW n \in Notes
               PROVE  Within(status'[n], attempts[n], requeues[n],
                             Cardinality(Holders(n)'), Cardinality(Retriers(n)'))
    BY <2>2 DEF StaleInv
  <2>4. /\ Holders(n) \in SUBSET Workers /\ Retriers(n) \in SUBSET Holders(n)
        /\ Holders(n)' \in SUBSET Holders(n) /\ Retriers(n)' \in SUBSET Retriers(n)
        /\ Retriers(n)' \subseteq Holders(n)'
    BY <2>2, ConstantsAssumption DEF Holders, Retriers, Holds
  <2> DEFINE h == Cardinality(Holders(n))
             r == Cardinality(Retriers(n))
             q == requeues[n]
             a == attempts[n]
  <2>5. q \in Nat /\ a \in Nat /\ MaxAttempts \in Nat
    BY ConstantsAssumption
  <2>6. Within(status[n], a, q, h, r)
    BY DEF StaleInv
  <2>7. CASE n # cur[w]
    BY <2>3, <2>4, <2>5, <2>6, <2>7, WithinFewer
  <2>8. CASE n = cur[w]
    <3>1. /\ IsFiniteSet(Holders(n)) /\ IsFiniteSet(Retriers(n))
          /\ h \in Nat /\ r \in Nat
      BY <2>4, Counts
    <3>2. /\ Cardinality(Retriers(n)') \in Nat
          /\ Cardinality(Retriers(n)') <= r
      BY <2>4, Counts
    <3>3. w \in Holders(n) /\ Holders(n)' = Holders(n) \ {w}
      BY <2>1, <2>2, <2>8, ConstantsAssumption DEF Holders, Holds
    <3>4. Cardinality(Holders(n)') = h - 1
      BY <3>1, <3>3, OneLess
    <3>5. CASE status'[n] \in Closed
      <4> HIDE DEF h, r
      <4> QED
        BY <2>5, <2>6, <3>1, <3>2, <3>4, <3>5 DEF Within, Closed
    <3>6. CASE status'[n] = "pending" /\ snap[w][n] < MaxAttempts
      <4>1. w \in Retriers(n) /\ Retriers(n)' = Retriers(n) \ {w}
        BY <2>2, <3>3, <3>6 DEF Retriers
      <4>2. Cardinality(Retriers(n)') = r - 1
        BY <3>1, <4>1, OneLess
      <4> HIDE DEF h, r
      <4>3. QED
        BY <2>5, <2>6, <3>1, <3>4, <3>6, <4>2 DEF Within
    <3>7. QED
      BY <2>3, <2>8, <3>5, <3>6
  <2>9. QED
    BY <2>7, <2>8
<1>11. ASSUME NEW w \in Workers, WSleep(w) PROVE StaleInv'
  <2>1. \A n \in Notes : ~Holds(w, n)
    BY <1>11, ConstantsAssumption DEF WSleep, Holds
  <2>2. QED
    BY <1>11, <2>1, StaleKept DEF WSleep, rows, history, Holds
<1>12. ASSUME NEW w \in Workers, WDbError(w) PROVE StaleInv'
  <2>1. \A n \in Notes : ~Holds(w, n)'
    BY <1>12, ConstantsAssumption DEF WDbError, Holds
  <2>2. \A n \in Notes : \A v \in Workers \ {w} :
          (Holds(v, n)' => Holds(v, n)) /\ snap'[v] = snap[v]
    BY <1>12 DEF WDbError, Holds
  <2>3. QED
    BY <1>12, <2>1, <2>2, StaleKept DEF WDbError, rows, history
<1>13. CASE UNCHANGED vars
  BY <1>13, StaleKept DEF vars, rows, history, threads, Holds
<1>14. QED
  BY <1>1, <1>2, <1>3, <1>4, <1>5, <1>6, <1>7,
     <1>8, <1>9, <1>10, <1>11, <1>12, <1>13 DEF Next, Worker

\* The invariant holds initially.
LEMMA InitInv == Init => IInv
<1> SUFFICES ASSUME Init PROVE IInv
  OBVIOUS
<1> USE ConstantsAssumption DEF Init, NoAttempts
<1>1. RowsOK
  BY DEF RowsOK
<1>2. HostOK
  <2>1. stop \in [Workers -> BOOLEAN] /\ up \in BOOLEAN /\ stopping \in BOOLEAN
    OBVIOUS
  <2>2. QED
    BY <2>1 DEF HostOK
<1>3. ThreadsOK
  BY DEF ThreadsOK
<1>4. ThreadInv /\ ReceiptInv
  BY DEF ThreadInv, ReceiptInv
<1>5. SentIsDelivered
  BY DEF SentIsDelivered
<1>6. LeaseInv
  BY DEF LeaseInv, Holds
<1>7. StaleInv
  <2> SUFFICES ASSUME NEW n \in Notes
               PROVE  Within("none", 0, 0, Cardinality(Holders(n)), Cardinality(Retriers(n)))
    BY DEF StaleInv
  <2>1. Holders(n) = {} /\ Retriers(n) = {}
    BY DEF Holders, Retriers, Holds
  <2>2. QED
    BY <2>1, FS_EmptySet DEF Within
<1>8. QED
  BY <1>1, <1>2, <1>3, <1>4, <1>5, <1>6, <1>7 DEF IInv, TypeOK

\* Every step keeps the invariant.
LEMMA StepInv == IInv /\ [Next]_vars => IInv'
BY RowsStep, HostStep, ThreadsStep, ThreadStep, ReceiptStep, SentStep, LeaseStep, StaleStep
   DEF IInv, TypeOK

LEMMA Invariance == Spec => []IInv
BY InitInv, StepInv, PTL DEF Spec

\* Types of the rows (outbox.py's statuses, counters and deadlines), the host
\* and the worker threads; a retry deadline is never in the past of the tick
\* that computes it.
THEOREM TypeCorrect == Spec => []TypeOK
<1>1. IInv => TypeOK
  BY DEF IInv
<1>2. QED
  BY <1>1, Invariance, PTL

\* claim_notifications: until one of its leases expires, a row is worked on by
\* the one thread that leased it.
THEOREM ExclusiveLease == Spec => []LeaseIsExclusive
<1>1. IInv => LeaseIsExclusive
  BY DEF IInv, LeaseInv, LeaseIsExclusive, Held, Holds
<1>2. QED
  BY <1>1, Invariance, PTL

\* Until a lease of it expires, a notification reaches the chat once, and once
\* more for every send that arrived although it raised or answered an error.
THEOREM NoUnexplainedDuplicate == Spec => []DuplicateIsExplained
<1>1. IInv => DuplicateIsExplained
  BY DEF IInv, LeaseInv, DuplicateIsExplained
<1>2. QED
  BY <1>1, Invariance, PTL

\* mark_sent: a row says sent only if it has a target that took the message or
\* answered nothing.
THEOREM TruthfulSent == Spec => []SentIsDelivered
<1>1. IInv => SentIsDelivered
  BY DEF IInv
<1>2. QED
  BY <1>1, Invariance, PTL

\* MAX_ATTEMPTS and mark_failed: a row is claimed at most MaxAttempts times, and
\* once more for each of its leases that expired, however many threads that
\* outlived their lease still decide its retries by an old count.
THEOREM BoundedAttempts == Spec => []AttemptsBounded
<1>1. ASSUME IInv, NEW n \in Notes PROVE attempts[n] <= MaxAttempts + requeues[n]
  <2>1. Cardinality(Retriers(n)) \in Nat
    BY Counts DEF Retriers, Holders
  <2>2. Within(status[n], attempts[n], requeues[n],
               Cardinality(Holders(n)), Cardinality(Retriers(n)))
    BY <1>1 DEF IInv, StaleInv
  <2>3. attempts[n] \in Nat /\ requeues[n] \in Nat /\ MaxAttempts \in Nat
    BY <1>1, ConstantsAssumption DEF IInv, TypeOK, RowsOK
  <2>4. QED
    BY <2>1, <2>2, <2>3 DEF Within
<1>2. IInv => AttemptsBounded
  BY <1>1 DEF AttemptsBounded
<1>3. QED
  BY <1>2, Invariance, PTL

\* Only a thread that records an outcome changes a closed row, and only the
\* row it holds.
LEMMA ClosedStep ==
  ASSUME IInv, [Next]_vars, NEW n \in Notes, status[n] \in Closed, status'[n] # status[n]
  PROVE  requeues[n] > 0
<1> USE DEF IInv, TypeOK, RowsOK, Closed
<1>1. ASSUME NEW m \in Notes, Enqueue(m) PROVE FALSE
  BY <1>1 DEF Enqueue
<1>2. ASSUME NEW w \in Workers, WClaim(w) PROVE FALSE
  BY <1>2 DEF WClaim, Available, Expired
<1>3. ASSUME NEW w \in Workers, WRecord(w) PROVE requeues[n] > 0
  <2>1. cur[w] = n
    BY <1>3 DEF WRecord
  <2>2. QED
    BY <2>1 DEF LeaseInv, Holds
<1>4. CASE UNCHANGED status
  BY <1>4
<1>5. QED
  BY <1>1, <1>2, <1>3, <1>4 DEF Next, Worker, Register, StopOld, Tick, Crash, Restart,
     WTop, WDeliver, WSleep, WDbError, vars, rows

\* A closed row is opened again only by a thread that had outlived its lease.
THEOREM ClosedUntilRequeue == Spec => ClosedNeedsRequeue
<1>1. IInv /\ [Next]_vars =>
        [\A n \in Notes : status[n] \in Closed /\ status'[n] # status[n] => requeues[n] > 0]_vars
  BY ClosedStep
<1>2. QED
  BY <1>1, Invariance, PTL DEF Spec, ClosedNeedsRequeue
=============================================================================
