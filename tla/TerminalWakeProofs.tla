------------------------- MODULE TerminalWakeProofs -------------------------
(***************************************************************************)
(* Proofs about TerminalWake, for every set of tasks, number of workers,   *)
(* retry budget, backoff table and number of faults.                       *)
(***************************************************************************)
EXTENDS TerminalWake, TLAPS

\* The inductive invariant.  "At most one acceptance" is not inductive: it
\* needs that the claim is exclusive and that a row which may be claimed
\* again was never delivered.
IInv ==
  /\ TypeOK
  /\ ClaimsAreExclusive
  /\ AuditIsTruthful
  /\ AttemptsWithinBudget
  /\ AtMostOneAcceptance

\* retry_backoff is indexed inside its bounds after at least one attempt.
LEMMA RetryDelayType ==
  ASSUME NEW n \in Nat \ {0}, NEW e \in Nat PROVE RetryDelay(n, e) \in Nat
<1> DEFINE i == IF n < Len(Backoff) THEN n ELSE Len(Backoff)
<1>1. i \in 1..Len(Backoff)
  BY ConstantsAssumption
<1>2. Backoff[i] \in Nat
  BY <1>1, ConstantsAssumption
<1>3. QED
  BY <1>2 DEF RetryDelay

\* The workers' numbers are those of the plugin loads.
LEMMA WorkerNumbers ==
  ASSUME NEW n \in 0..MaxLoads - 1 PROVE n + 1 \in Workers /\ n + 1 \in 0..MaxLoads
BY ConstantsAssumption DEF Workers

\* Every step keeps the types of the rows.
LEMMA RowsStep ==
  ASSUME TypeOK, ClaimsAreExclusive, [Next]_vars PROVE RowsOK'
<1> USE DEF TypeOK, RowsOK, WakeStates, Terminal
<1>1. ASSUME NEW t \in Tasks, BeginTerminalWake(t) PROVE RowsOK'
  BY <1>1 DEF BeginTerminalWake, Unopened, host, threads, faults
<1>2. CASE Register
  BY <1>2 DEF Register, StartWorker, rows, faults
<1>3. CASE Joined
  BY <1>3 DEF Joined, JoinOver, StartWorker, rows, faults
<1>4. CASE Tick
  BY <1>4 DEF Tick, host, faults
<1>5. CASE Crash
  BY <1>5 DEF Crash, rows
<1>6. CASE Restart
  BY <1>6 DEF Restart, rows, threads, faults
<1>7. ASSUME NEW w \in Workers, WTop(w) PROVE RowsOK'
  BY <1>7 DEF WTop, Goto, rows, host, faults
<1>8. ASSUME NEW w \in Workers, WSettle(w) PROVE RowsOK'
  BY <1>8 DEF WSettle, SettleStale, Goto, host, faults
<1>9. ASSUME NEW w \in Workers, WList(w) PROVE RowsOK'
  BY <1>9 DEF WList, Goto, Due, rows, host, faults
<1>10. ASSUME NEW w \in Workers, NEW t \in Tasks, WClaim(w, t) PROVE RowsOK'
  BY <1>10 DEF WClaim, Claimable, Goto, host, faults
<1>11. ASSUME NEW w \in Workers, WInject(w) PROVE RowsOK'
  <2>1. cur[w] \in Tasks
    BY <1>11 DEF WInject, ThreadsOK, ClaimsAreExclusive, HolderHasClaim,
        ClaimMatchesRow, Holding
  <2>2. QED
    BY <1>11, <2>1 DEF WInject, Goto, rows, host, faults
<1>12. ASSUME NEW w \in Workers, WAccept(w) PROVE RowsOK'
  BY <1>12 DEF WAccept, Goto, host, faults
<1>13. ASSUME NEW w \in Workers, WRefuse(w) PROVE RowsOK'
  <2>1. cur[w] \in Tasks /\ attempts[cur[w]] \in Nat \ {0}
    BY <1>13 DEF WRefuse, ThreadsOK, ClaimsAreExclusive, HolderHasClaim,
        ClaimMatchesRow, Holding
  <2>2. RetryDelay(attempts[cur[w]], age[w]) \in Nat
    BY <2>1, RetryDelayType DEF ThreadsOK
  <2>3. QED
    BY <1>13, <2>1, <2>2 DEF WRefuse, OutcomeOpen, BudgetLeft, Goto, rows, host, faults
<1>14. ASSUME NEW w \in Workers, WSleep(w) PROVE RowsOK'
  BY <1>14 DEF WSleep, Goto, rows, host, faults
<1>15. ASSUME NEW w \in Workers, WDbError(w) PROVE RowsOK'
  BY <1>15 DEF WDbError, Goto, rows, host
<1>16. CASE UNCHANGED vars
  BY <1>16 DEF vars, rows, host, threads, faults
<1>17. QED
  BY <1>1, <1>2, <1>3, <1>4, <1>5, <1>6, <1>7, <1>8, <1>9, <1>10,
     <1>11, <1>12, <1>13, <1>14, <1>15, <1>16 DEF Next, Worker

\* Every step keeps the types of the host's state.
LEMMA HostStep ==
  ASSUME TypeOK, [Next]_vars PROVE HostOK'
<1> USE ConstantsAssumption DEF TypeOK, HostOK
<1>1. ASSUME NEW t \in Tasks, BeginTerminalWake(t) PROVE HostOK'
  BY <1>1 DEF BeginTerminalWake, Unopened, host, threads, faults
<1>2. CASE Register
  <2>1. CASE loads = 0
    BY <1>2, <2>1 DEF Register, StartWorker, rows, faults
  <2>2. CASE loads # 0
    <3>1. stop' \in [Workers -> BOOLEAN]
      BY <1>2, <2>2 DEF Register
    <3>2. QED
      BY <1>2, <2>2, <3>1 DEF Register, StartWorker, rows, faults
  <2>3. QED
    BY <2>1, <2>2
<1>3. CASE Joined
  BY <1>3 DEF Joined, JoinOver, StartWorker, rows, faults
<1>4. CASE Tick
  BY <1>4 DEF Tick, host, faults
<1>5. CASE Crash
  <2>1. stop' \in [Workers -> BOOLEAN]
    BY <1>5 DEF Crash
  <2>2. up' \in BOOLEAN
    BY <1>5 DEF Crash
  <2>3. loads' = 0 /\ crashes' = crashes + 1 /\ crashes < MaxCrashes /\ reload' = "idle"
    BY <1>5 DEF Crash
  <2>4. dbErrors' = dbErrors
    BY <1>5 DEF Crash
  <2>5. QED
    BY <2>1, <2>2, <2>3, <2>4
<1>6. CASE Restart
  BY <1>6 DEF Restart, rows, threads, faults
<1>7. ASSUME NEW w \in Workers, WTop(w) PROVE HostOK'
  BY <1>7 DEF WTop, Goto, rows, host, faults
<1>8. ASSUME NEW w \in Workers, WSettle(w) PROVE HostOK'
  BY <1>8 DEF WSettle, SettleStale, Goto, host, faults
<1>9. ASSUME NEW w \in Workers, WList(w) PROVE HostOK'
  BY <1>9 DEF WList, Goto, Due, rows, host, faults
<1>10. ASSUME NEW w \in Workers, NEW t \in Tasks, WClaim(w, t) PROVE HostOK'
  BY <1>10 DEF WClaim, Claimable, Goto, host, faults
<1>11. ASSUME NEW w \in Workers, WInject(w) PROVE HostOK'
  BY <1>11 DEF WInject, Goto, rows, host, faults
<1>12. ASSUME NEW w \in Workers, WAccept(w) PROVE HostOK'
  BY <1>12 DEF WAccept, Goto, host, faults
<1>13. ASSUME NEW w \in Workers, WRefuse(w) PROVE HostOK'
  BY <1>13 DEF WRefuse, OutcomeOpen, BudgetLeft, Goto, rows, host, faults
<1>14. ASSUME NEW w \in Workers, WSleep(w) PROVE HostOK'
  BY <1>14 DEF WSleep, Goto, rows, host, faults
<1>15. ASSUME NEW w \in Workers, WDbError(w) PROVE HostOK'
  BY <1>15 DEF WDbError, Goto, rows, host
<1>16. CASE UNCHANGED vars
  BY <1>16 DEF vars, rows, host, threads, faults
<1>17. QED
  BY <1>1, <1>2, <1>3, <1>4, <1>5, <1>6, <1>7, <1>8, <1>9, <1>10,
     <1>11, <1>12, <1>13, <1>14, <1>15, <1>16 DEF Next, Worker

\* Every step keeps the types of the threads' state.
LEMMA ThreadsStep ==
  ASSUME TypeOK, [Next]_vars PROVE ThreadsOK'
<1> USE DEF TypeOK, ThreadsOK, Places
<1>1. ASSUME NEW t \in Tasks, BeginTerminalWake(t) PROVE ThreadsOK'
  BY <1>1 DEF BeginTerminalWake, Unopened, host, threads, faults
<1>2. CASE Register
  <2>1. loads \in 0..MaxLoads - 1
    BY <1>2, ConstantsAssumption DEF Register, HostOK
  <2>2. loads + 1 \in Workers
    BY <2>1, WorkerNumbers
  <2>3. QED
    BY <1>2, <2>2 DEF Register, StartWorker, rows, faults
<1>3. CASE Joined
  <2>1. loads \in 0..MaxLoads - 1
    BY <1>3, ConstantsAssumption DEF Joined, HostOK
  <2>2. loads + 1 \in Workers
    BY <2>1, WorkerNumbers
  <2>3. QED
    BY <1>3, <2>2 DEF Joined, JoinOver, StartWorker, rows, faults
<1>4. CASE Tick
  BY <1>4 DEF Tick, host, faults
<1>5. CASE Crash
  BY <1>5 DEF Crash, rows
<1>6. CASE Restart
  BY <1>6 DEF Restart, rows, threads, faults
<1>7. ASSUME NEW w \in Workers, WTop(w) PROVE ThreadsOK'
  BY <1>7 DEF WTop, Goto, rows, host, faults
<1>8. ASSUME NEW w \in Workers, WSettle(w) PROVE ThreadsOK'
  BY <1>8 DEF WSettle, SettleStale, Goto, host, faults
<1>9. ASSUME NEW w \in Workers, WList(w) PROVE ThreadsOK'
  BY <1>9 DEF WList, Goto, Due, rows, host, faults
<1>10. ASSUME NEW w \in Workers, NEW t \in Tasks, WClaim(w, t) PROVE ThreadsOK'
  BY <1>10 DEF WClaim, Claimable, Goto, host, faults
<1>11. ASSUME NEW w \in Workers, WInject(w) PROVE ThreadsOK'
  BY <1>11 DEF WInject, Goto, rows, host, faults
<1>12. ASSUME NEW w \in Workers, WAccept(w) PROVE ThreadsOK'
  BY <1>12 DEF WAccept, Goto, host, faults
<1>13. ASSUME NEW w \in Workers, WRefuse(w) PROVE ThreadsOK'
  BY <1>13 DEF WRefuse, OutcomeOpen, BudgetLeft, Goto, rows, host, faults
<1>14. ASSUME NEW w \in Workers, WSleep(w) PROVE ThreadsOK'
  BY <1>14 DEF WSleep, Goto, rows, host, faults
<1>15. ASSUME NEW w \in Workers, WDbError(w) PROVE ThreadsOK'
  <2>1. CASE pc[w] = "settle"
    BY <1>15, <2>1 DEF WDbError, Goto, rows, host
  <2>2. CASE ~(pc[w] = "settle")
    BY <1>15, <2>2 DEF WDbError, Goto, rows, host
  <2>3. QED
    BY <2>1, <2>2
<1>16. CASE UNCHANGED vars
  BY <1>16 DEF vars, rows, host, threads, faults
<1>17. QED
  BY <1>1, <1>2, <1>3, <1>4, <1>5, <1>6, <1>7, <1>8, <1>9, <1>10,
     <1>11, <1>12, <1>13, <1>14, <1>15, <1>16 DEF Next, Worker

\* Every step leaves the workers that were not started off.
LEMMA UnstartedStep ==
  ASSUME TypeOK, [Next]_vars PROVE UnstartedAreOff'
<1> USE ConstantsAssumption DEF TypeOK, HostOK, ThreadsOK, UnstartedAreOff, Workers
<1>1. ASSUME NEW t \in Tasks, BeginTerminalWake(t) PROVE UnstartedAreOff'
  BY <1>1 DEF BeginTerminalWake, Unopened, host, threads, faults
<1>2. CASE Register
  BY <1>2 DEF Register, StartWorker, rows, faults
<1>3. CASE Joined
  BY <1>3 DEF Joined, JoinOver, StartWorker, rows, faults
<1>4. CASE Tick
  BY <1>4 DEF Tick, host, faults
<1>5. CASE Crash
  BY <1>5 DEF Crash, rows
<1>6. CASE Restart
  BY <1>6 DEF Restart, rows, threads, faults
<1>7. ASSUME NEW w \in Workers, WTop(w) PROVE UnstartedAreOff'
  BY <1>7 DEF WTop, Goto, rows, host, faults
<1>8. ASSUME NEW w \in Workers, WSettle(w) PROVE UnstartedAreOff'
  BY <1>8 DEF WSettle, SettleStale, Goto, host, faults
<1>9. ASSUME NEW w \in Workers, WList(w) PROVE UnstartedAreOff'
  BY <1>9 DEF WList, Goto, Due, rows, host, faults
<1>10. ASSUME NEW w \in Workers, NEW t \in Tasks, WClaim(w, t) PROVE UnstartedAreOff'
  BY <1>10 DEF WClaim, Claimable, Goto, host, faults
<1>11. ASSUME NEW w \in Workers, WInject(w) PROVE UnstartedAreOff'
  BY <1>11 DEF WInject, Goto, rows, host, faults
<1>12. ASSUME NEW w \in Workers, WAccept(w) PROVE UnstartedAreOff'
  BY <1>12 DEF WAccept, Goto, host, faults
<1>13. ASSUME NEW w \in Workers, WRefuse(w) PROVE UnstartedAreOff'
  BY <1>13 DEF WRefuse, OutcomeOpen, BudgetLeft, Goto, rows, host, faults
<1>14. ASSUME NEW w \in Workers, WSleep(w) PROVE UnstartedAreOff'
  BY <1>14 DEF WSleep, Goto, rows, host, faults
<1>15. ASSUME NEW w \in Workers, WDbError(w) PROVE UnstartedAreOff'
  <2>1. CASE pc[w] = "settle"
    BY <1>15, <2>1 DEF WDbError, Goto, rows, host
  <2>2. CASE ~(pc[w] = "settle")
    BY <1>15, <2>2 DEF WDbError, Goto, rows, host
  <2>3. QED
    BY <2>1, <2>2
<1>16. CASE UNCHANGED vars
  BY <1>16 DEF vars, rows, host, threads, faults
<1>17. QED
  BY <1>1, <1>2, <1>3, <1>4, <1>5, <1>6, <1>7, <1>8, <1>9, <1>10,
     <1>11, <1>12, <1>13, <1>14, <1>15, <1>16 DEF Next, Worker

\* Every step keeps the claims exclusive.
LEMMA ExclusiveStep ==
  ASSUME TypeOK, ClaimsAreExclusive, AuditIsTruthful, [Next]_vars
  PROVE  ClaimsAreExclusive'
<1> USE ConstantsAssumption
    DEF TypeOK, RowsOK, ThreadsOK, Places, ClaimsAreExclusive, HolderHasClaim,
        ClaimMatchesRow, OneHolder, Holding
<1>1. ASSUME NEW t \in Tasks, BeginTerminalWake(t) PROVE ClaimsAreExclusive'
  BY <1>1 DEF BeginTerminalWake, Unopened, host, threads, faults
<1>2. CASE Register
  <2>1. loads \in 0..MaxLoads - 1
    BY <1>2, ConstantsAssumption DEF Register, HostOK
  <2>2. loads + 1 \in Workers
    BY <2>1, WorkerNumbers
  <2>3. pc[loads + 1] = "off"
    BY <2>1, <2>2 DEF HostOK, UnstartedAreOff
  <2>4. /\ pc' = pc \/ pc' = [pc EXCEPT ![loads + 1] = "top"]
        /\ UNCHANGED <<wake, attempts, injected, cur>>
    BY <1>2 DEF Register, StartWorker, rows
  <2>5. \A w \in Workers : pc'[w] = pc[w] \/ (pc[w] = "off" /\ pc'[w] = "top")
    BY <2>2, <2>3, <2>4
  <2>6. HolderHasClaim'
    BY <2>4, <2>5
  <2>7. ClaimMatchesRow'
    BY <2>4, <2>5
  <2>8. QED
    BY <2>4, <2>6, <2>7
<1>3. CASE Joined
  <2>1. loads \in 0..MaxLoads - 1
    BY <1>3, ConstantsAssumption DEF Joined, HostOK
  <2>2. loads + 1 \in Workers
    BY <2>1, WorkerNumbers
  <2>3. pc[loads + 1] = "off"
    BY <2>1, <2>2 DEF HostOK, UnstartedAreOff
  <2>4. QED
    BY <1>3, <2>2, <2>3 DEF Joined, JoinOver, StartWorker, rows, faults
<1>4. CASE Tick
  BY <1>4 DEF Tick, host, faults
<1>5. CASE Crash
  BY <1>5 DEF Crash, rows
<1>6. CASE Restart
  BY <1>6 DEF Restart, rows, threads, faults
<1>7. ASSUME NEW w \in Workers, WTop(w) PROVE ClaimsAreExclusive'
  BY <1>7 DEF WTop, Goto, rows, host, faults
<1>8. ASSUME NEW w \in Workers, WSettle(w) PROVE ClaimsAreExclusive'
  BY <1>8 DEF WSettle, SettleStale, Goto, host, faults
<1>9. ASSUME NEW w \in Workers, WList(w) PROVE ClaimsAreExclusive'
  BY <1>9 DEF WList, Goto, Due, rows, host, faults
<1>10. ASSUME NEW w \in Workers, NEW t \in Tasks, WClaim(w, t) PROVE ClaimsAreExclusive'
  <2>1. CASE wake[t] = "pending"
    <3>1. /\ wake' = [wake EXCEPT ![t] = "dispatching"]
          /\ attempts' = [attempts EXCEPT ![t] = attempts[t] + 1]
          /\ cur' = [cur EXCEPT ![w] = t]
          /\ pc' = [pc EXCEPT ![w] = "inject"]
          /\ injected' = injected
      BY <1>10, <2>1 DEF WClaim, Claimable, Goto
    <3>2. \A v \in Workers : cur[v] # t
      BY <2>1
    <3>3. injected[t] = 0
      BY <2>1 DEF AuditIsTruthful
    <3>4. HolderHasClaim'
      BY <3>1
    <3>5. ClaimMatchesRow'
      BY <3>1, <3>2, <3>3
    <3>6. OneHolder'
      BY <3>1, <3>2
    <3>7. QED
      BY <3>4, <3>5, <3>6
  <2>2. CASE wake[t] # "pending"
    <3>1. UNCHANGED <<wake, attempts, cur, pc, injected>>
      BY <1>10, <2>2 DEF WClaim, Claimable
    <3>2. QED
      BY <3>1
  <2>3. QED
    BY <2>1, <2>2
<1>11. ASSUME NEW w \in Workers, WInject(w) PROVE ClaimsAreExclusive'
  <2>1. PICK to \in {"accept", "refuse"} : pc' = [pc EXCEPT ![w] = to]
    BY <1>11 DEF WInject, Goto
  <2>2. HolderHasClaim'
    BY <1>11, <2>1 DEF WInject
  <2>3. ClaimMatchesRow'
    BY <1>11 DEF WInject, Goto, rows, host, faults
  <2>4. OneHolder'
    BY <1>11 DEF WInject
  <2>5. QED
    BY <2>2, <2>3, <2>4
<1>12. ASSUME NEW w \in Workers, WAccept(w) PROVE ClaimsAreExclusive'
  BY <1>12 DEF WAccept, Goto, host, faults
<1>13. ASSUME NEW w \in Workers, WRefuse(w) PROVE ClaimsAreExclusive'
  BY <1>13 DEF WRefuse, OutcomeOpen, BudgetLeft, Goto, rows, host, faults
<1>14. ASSUME NEW w \in Workers, WSleep(w) PROVE ClaimsAreExclusive'
  BY <1>14 DEF WSleep, Goto, rows, host, faults
<1>15. ASSUME NEW w \in Workers, WDbError(w) PROVE ClaimsAreExclusive'
  <2>1. UNCHANGED <<wake, attempts, injected>>
    BY <1>15 DEF WDbError, rows
  <2>2. CASE pc[w] = "settle"
    <3>1. cur' = cur /\ pc' = [pc EXCEPT ![w] = "list"]
      BY <1>15, <2>2 DEF WDbError, Goto
    <3>2. QED
      BY <2>1, <2>2, <3>1
  <2>3. CASE pc[w] # "settle"
    <3>1. /\ cur' = [cur EXCEPT ![w] = NoTask]
          /\ pc' = [pc EXCEPT ![w] = "top"]
      BY <1>15, <2>3 DEF WDbError, Goto
    <3>2. QED
      BY <2>1, <3>1
  <2>4. QED
    BY <2>2, <2>3
<1>16. CASE UNCHANGED vars
  BY <1>16 DEF vars, rows, host, threads, faults
<1>17. QED
  BY <1>1, <1>2, <1>3, <1>4, <1>5, <1>6, <1>7, <1>8, <1>9, <1>10,
     <1>11, <1>12, <1>13, <1>14, <1>15, <1>16 DEF Next, Worker

\* Every step keeps the audit state truthful, and no message is repeated.
LEMMA AuditStep ==
  ASSUME TypeOK, ClaimsAreExclusive, AuditIsTruthful, AtMostOneAcceptance, [Next]_vars
  PROVE  AuditIsTruthful' /\ AtMostOneAcceptance'
<1> USE DEF TypeOK, RowsOK, ThreadsOK, Places, AuditIsTruthful, AtMostOneAcceptance
<1>1. ASSUME NEW t \in Tasks, BeginTerminalWake(t)
      PROVE  AuditIsTruthful' /\ AtMostOneAcceptance'
  BY <1>1 DEF BeginTerminalWake, Unopened, host, threads, faults
<1>2. CASE Register
  BY <1>2 DEF Register, StartWorker, rows, faults
<1>3. CASE Joined
  BY <1>3 DEF Joined, JoinOver, StartWorker, rows, faults
<1>4. CASE Tick
  BY <1>4 DEF Tick, host, faults
<1>5. CASE Crash
  BY <1>5 DEF Crash, rows
<1>6. CASE Restart
  BY <1>6 DEF Restart, rows, threads, faults
<1>7. ASSUME NEW w \in Workers, WTop(w) PROVE AuditIsTruthful' /\ AtMostOneAcceptance'
  BY <1>7 DEF WTop, Goto, rows, host, faults
<1>8. ASSUME NEW w \in Workers, WSettle(w) PROVE AuditIsTruthful' /\ AtMostOneAcceptance'
  BY <1>8 DEF WSettle, SettleStale, Goto, host, faults
<1>9. ASSUME NEW w \in Workers, WList(w) PROVE AuditIsTruthful' /\ AtMostOneAcceptance'
  BY <1>9 DEF WList, Goto, Due, rows, host, faults
<1>10. ASSUME NEW w \in Workers, NEW t \in Tasks, WClaim(w, t)
       PROVE  AuditIsTruthful' /\ AtMostOneAcceptance'
  BY <1>10 DEF WClaim, Claimable, Goto, host, faults
<1>11. ASSUME NEW w \in Workers, WInject(w) PROVE AuditIsTruthful' /\ AtMostOneAcceptance'
  BY <1>11 DEF WInject, Goto, rows, host, faults, ClaimsAreExclusive,
      HolderHasClaim, ClaimMatchesRow, OneHolder, Holding
<1>12. ASSUME NEW w \in Workers, WAccept(w) PROVE AuditIsTruthful' /\ AtMostOneAcceptance'
  BY <1>12 DEF WAccept, Goto, host, faults, ClaimsAreExclusive, HolderHasClaim,
      ClaimMatchesRow, OneHolder, Holding
<1>13. ASSUME NEW w \in Workers, WRefuse(w) PROVE AuditIsTruthful' /\ AtMostOneAcceptance'
  BY <1>13 DEF WRefuse, OutcomeOpen, BudgetLeft, Goto, rows, host, faults,
      ClaimsAreExclusive, HolderHasClaim, ClaimMatchesRow, OneHolder, Holding
<1>14. ASSUME NEW w \in Workers, WSleep(w) PROVE AuditIsTruthful' /\ AtMostOneAcceptance'
  BY <1>14 DEF WSleep, Goto, rows, host, faults
<1>15. ASSUME NEW w \in Workers, WDbError(w) PROVE AuditIsTruthful' /\ AtMostOneAcceptance'
  BY <1>15 DEF WDbError, Goto, rows, host
<1>16. CASE UNCHANGED vars
  BY <1>16 DEF vars, rows, host, threads, faults
<1>17. QED
  BY <1>1, <1>2, <1>3, <1>4, <1>5, <1>6, <1>7, <1>8, <1>9, <1>10,
     <1>11, <1>12, <1>13, <1>14, <1>15, <1>16 DEF Next, Worker

\* Every step keeps the attempts within their budget.
LEMMA BudgetStep ==
  ASSUME TypeOK, ClaimsAreExclusive, AttemptsWithinBudget, [Next]_vars
  PROVE  AttemptsWithinBudget'
<1> USE ConstantsAssumption DEF TypeOK, RowsOK, ThreadsOK, Places, AttemptsWithinBudget
<1>1. ASSUME NEW t \in Tasks, BeginTerminalWake(t) PROVE AttemptsWithinBudget'
  BY <1>1 DEF BeginTerminalWake, Unopened, host, threads, faults
<1>2. CASE Register
  BY <1>2 DEF Register, StartWorker, rows, faults
<1>3. CASE Joined
  BY <1>3 DEF Joined, JoinOver, StartWorker, rows, faults
<1>4. CASE Tick
  BY <1>4 DEF Tick, host, faults
<1>5. CASE Crash
  BY <1>5 DEF Crash, rows
<1>6. CASE Restart
  BY <1>6 DEF Restart, rows, threads, faults
<1>7. ASSUME NEW w \in Workers, WTop(w) PROVE AttemptsWithinBudget'
  BY <1>7 DEF WTop, Goto, rows, host, faults
<1>8. ASSUME NEW w \in Workers, WSettle(w) PROVE AttemptsWithinBudget'
  BY <1>8 DEF WSettle, SettleStale, Goto, host, faults
<1>9. ASSUME NEW w \in Workers, WList(w) PROVE AttemptsWithinBudget'
  BY <1>9 DEF WList, Goto, Due, rows, host, faults
<1>10. ASSUME NEW w \in Workers, NEW t \in Tasks, WClaim(w, t) PROVE AttemptsWithinBudget'
  <2>1. CASE wake[t] = "pending"
    BY <1>10, <2>1 DEF WClaim, Claimable, Goto, host, faults
  <2>2. CASE ~(wake[t] = "pending")
    BY <1>10, <2>2 DEF WClaim, Claimable, Goto, host, faults
  <2>3. QED
    BY <2>1, <2>2
<1>11. ASSUME NEW w \in Workers, WInject(w) PROVE AttemptsWithinBudget'
  BY <1>11 DEF WInject, Goto, rows, host, faults
<1>12. ASSUME NEW w \in Workers, WAccept(w) PROVE AttemptsWithinBudget'
  BY <1>12 DEF WAccept, Goto, host, faults, ClaimsAreExclusive, HolderHasClaim,
      ClaimMatchesRow, OneHolder, Holding
<1>13. ASSUME NEW w \in Workers, WRefuse(w) PROVE AttemptsWithinBudget'
  BY <1>13 DEF WRefuse, OutcomeOpen, BudgetLeft, Goto, rows, host, faults,
      ClaimsAreExclusive, HolderHasClaim, ClaimMatchesRow, OneHolder, Holding
<1>14. ASSUME NEW w \in Workers, WSleep(w) PROVE AttemptsWithinBudget'
  BY <1>14 DEF WSleep, Goto, rows, host, faults
<1>15. ASSUME NEW w \in Workers, WDbError(w) PROVE AttemptsWithinBudget'
  BY <1>15 DEF WDbError, Goto, rows, host
<1>16. CASE UNCHANGED vars
  BY <1>16 DEF vars, rows, host, threads, faults
<1>17. QED
  BY <1>1, <1>2, <1>3, <1>4, <1>5, <1>6, <1>7, <1>8, <1>9, <1>10,
     <1>11, <1>12, <1>13, <1>14, <1>15, <1>16 DEF Next, Worker

\* The initial states satisfy the inductive invariant.
LEMMA InitIInv == ASSUME Init PROVE IInv
BY ConstantsAssumption
   DEF Init, IInv, TypeOK, RowsOK, HostOK, ThreadsOK, WakeStates, Terminal, Places,
       UnstartedAreOff, Holding, ClaimsAreExclusive, HolderHasClaim, ClaimMatchesRow,
       OneHolder, AuditIsTruthful, AttemptsWithinBudget,
       AtMostOneAcceptance

\* The inductive invariant holds in every reachable state.
THEOREM Inductive == Spec => []IInv
<1>1. IInv /\ [Next]_vars => IInv'
  BY RowsStep, HostStep, ThreadsStep, UnstartedStep, ExclusiveStep,
     AuditStep, BudgetStep
     DEF IInv, TypeOK
<1>2. QED
  BY InitIInv, <1>1, PTL DEF Spec

\* Types: rows, claims, threads and history keep their types.
THEOREM TypeCorrect == Spec => []TypeOK
BY Inductive, PTL DEF IInv

\* The original session is resumed at most once per task, however many
\* workers overlap, ticks fail and host processes die.
THEOREM OneAcceptance == Spec => []AtMostOneAcceptance
BY Inductive, PTL DEF IInv

\* The claim CAS gives every row at most one dispatcher.
THEOREM ExclusiveClaims == Spec => []ClaimsAreExclusive
BY Inductive, PTL DEF IInv

\* wake_state never lies about what the gateway took.
THEOREM TruthfulAudit == Spec => []AuditIsTruthful
BY Inductive, PTL DEF IInv

\* No task is dispatched more than max_attempts times.
THEOREM BoundedAttempts == Spec => []AttemptsWithinBudget
BY Inductive, PTL DEF IInv

\* When stop() always outlasts the worker it joins, one worker is at work at a time:
\* the newest.  What it has listed and not visited yet is still due, and what it is
\* dispatching was not given up.
SoloInv ==
  /\ \A w \in Workers : pc[w] # "off" => w = loads
  /\ \A w \in Workers : batch[w] # {} => pc[w] \in Holding \cup {"claim"}
  /\ \A w \in Workers : cur[w] \notin batch[w] /\ \A t \in batch[w] : due[t] = 0
  /\ LiveDispatchNeverUncertain

\* Every step keeps the workers from overlapping.
LEMMA SoloStep ==
  ASSUME ~JoinMayTimeOut, IInv, SoloInv, [Next]_vars PROVE SoloInv'
<1> USE ConstantsAssumption
    DEF IInv, TypeOK, RowsOK, HostOK, ThreadsOK, Places, ClaimsAreExclusive, HolderHasClaim,
        Holding, SoloInv, LiveDispatchNeverUncertain
<1>1. ASSUME NEW t \in Tasks, BeginTerminalWake(t) PROVE SoloInv'
  BY <1>1 DEF BeginTerminalWake, Unopened, host, threads
<1>2. CASE Register
  <2>1. /\ loads = 0 => loads' = 1 /\ pc' = [pc EXCEPT ![1] = "top"]
        /\ loads # 0 => UNCHANGED <<loads, pc>>
        /\ UNCHANGED <<wake, due, batch, cur>>
    BY <1>2 DEF Register, StartWorker, rows
  <2>2. \A w \in Workers : pc'[w] = pc[w] \/ (w = 1 /\ pc'[w] = "top" /\ pc[w] = "off")
    BY <2>1 DEF Workers
  <2>3. \A w \in Workers : pc'[w] # "off" => w = loads'
    BY <2>1, <2>2 DEF Workers
  <2>4. \A w \in Workers : pc'[w] \in Holding => pc[w] \in Holding
    BY <2>2
  <2>5. \A w \in Workers : batch[w] # {} => pc'[w] \in Holding \cup {"claim"}
    BY <2>2
  <2>6. QED
    BY <2>1, <2>3, <2>4, <2>5
<1>3. CASE Joined
  BY <1>3 DEF Joined, JoinOver, StartWorker, rows, Workers
<1>4. CASE Tick
  BY <1>4 DEF Tick, host
<1>5. CASE Crash
  BY <1>5 DEF Crash, rows
<1>6. CASE Restart
  BY <1>6 DEF Restart, rows, threads
<1>7. ASSUME NEW w \in Workers, WTop(w) PROVE SoloInv'
  BY <1>7 DEF WTop, Goto, rows, host
<1>8. ASSUME NEW w \in Workers, WSettle(w) PROVE SoloInv'
  BY <1>8 DEF WSettle, SettleStale, Goto, host
<1>9. ASSUME NEW w \in Workers, WList(w) PROVE SoloInv'
  <2>1. PICK S \in SUBSET Due : batch' = [batch EXCEPT ![w] = S]
    BY <1>9 DEF WList
  <2>2. S \subseteq Tasks /\ \A t \in S : due[t] = 0
    BY DEF Due
  <2>3. cur[w] = NoTask /\ NoTask \notin S
    BY <1>9, <2>2 DEF WList
  <2>4. /\ pc[w] = "list" /\ pc' = [pc EXCEPT ![w] = "claim"]
        /\ UNCHANGED <<wake, due, loads, cur>>
    BY <1>9 DEF WList, Goto, rows, host
  <2>5. QED
    BY <2>1, <2>2, <2>3, <2>4
<1>10. ASSUME NEW w \in Workers, NEW t \in Tasks, WClaim(w, t) PROVE SoloInv'
  <2>1. /\ pc[w] = "claim" /\ t \in batch[w] /\ UNCHANGED <<due, loads>>
        /\ batch' = [batch EXCEPT ![w] = @ \ {t}]
    BY <1>10 DEF WClaim, host
  <2>2. CASE Claimable(t)
    <3>1. /\ wake' = [wake EXCEPT ![t] = "dispatching"]
          /\ cur' = [cur EXCEPT ![w] = t] /\ pc' = [pc EXCEPT ![w] = "inject"]
      BY <1>10, <2>2 DEF WClaim, Goto
    <3>2. LiveDispatchNeverUncertain'
      BY <3>1
    <3>3. \A v \in Workers : cur'[v] \notin batch'[v] /\ \A u \in batch'[v] : due'[u] = 0
      BY <2>1, <3>1
    <3>4. QED
      BY <2>1, <3>1, <3>2, <3>3
  <2>3. CASE ~Claimable(t)
    BY <1>10, <2>1, <2>3 DEF WClaim
  <2>4. QED
    BY <2>2, <2>3
<1>11. ASSUME NEW w \in Workers, WInject(w) PROVE SoloInv'
  <2>1. /\ pc[w] = "inject" /\ UNCHANGED <<wake, due, loads, batch, cur>>
        /\ \/ pc' = [pc EXCEPT ![w] = "accept"]
           \/ pc' = [pc EXCEPT ![w] = "refuse"]
    BY <1>11 DEF WInject, Goto, rows, host
  <2>2. \A v \in Workers : pc'[v] = pc[v] \/ (pc[v] = "inject" /\ pc'[v] \in {"accept", "refuse"})
    BY <2>1
  <2>3. QED
    BY <2>1, <2>2
<1>12. ASSUME NEW w \in Workers, WAccept(w) PROVE SoloInv'
  BY <1>12 DEF WAccept, Goto, host
<1>13. ASSUME NEW w \in Workers, WRefuse(w) PROVE SoloInv'
  <2>1. /\ pc[w] = "refuse" /\ pc' = [pc EXCEPT ![w] = "claim"]
        /\ cur' = [cur EXCEPT ![w] = NoTask] /\ UNCHANGED <<loads, batch>>
    BY <1>13 DEF WRefuse, Goto, host
  <2>2. /\ \A t \in Tasks \ {cur[w]} : due'[t] = due[t]
        /\ \A t \in Tasks : wake'[t] = "uncertain" => wake[t] = "uncertain"
    BY <1>13 DEF WRefuse, rows
  <2>3. \A v \in Workers : batch[v] \subseteq Tasks \ {cur[w]} /\ NoTask \notin batch[v]
    <3> TAKE v \in Workers
    <3>1. batch[v] \subseteq Tasks /\ NoTask \notin batch[v]
      OBVIOUS
    <3>2. v # w => batch[v] = {}
      BY <2>1
    <3>3. cur[w] \notin batch[v]
      BY <3>2
    <3>4. QED
      BY <3>1, <3>3
  <2>4. LiveDispatchNeverUncertain'
    BY <2>1, <2>2
  <2>5. \A v \in Workers : cur'[v] \notin batch'[v] /\ \A t \in batch'[v] : due'[t] = 0
    BY <2>1, <2>2, <2>3
  <2>6. QED
    BY <2>1, <2>4, <2>5
<1>14. ASSUME NEW w \in Workers, WSleep(w) PROVE SoloInv'
  BY <1>14 DEF WSleep, Goto, rows, host
<1>15. ASSUME NEW w \in Workers, WDbError(w) PROVE SoloInv'
  <2>1. CASE pc[w] = "settle"
    <3>1. pc' = [pc EXCEPT ![w] = "list"] /\ UNCHANGED <<wake, due, loads, batch, cur>>
      BY <1>15, <2>1 DEF WDbError, Goto, rows, host
    <3>2. QED
      BY <2>1, <3>1
  <2>2. CASE pc[w] # "settle"
    <3>1. /\ pc[w] # "off" /\ pc' = [pc EXCEPT ![w] = "top"]
          /\ batch' = [batch EXCEPT ![w] = {}] /\ cur' = [cur EXCEPT ![w] = NoTask]
          /\ UNCHANGED <<wake, due, loads>>
      BY <1>15, <2>2 DEF WDbError, Goto, rows, host
    <3>2. QED
      BY <3>1
  <2>3. QED
    BY <2>1, <2>2
<1>16. CASE UNCHANGED vars
  BY <1>16 DEF vars, rows, host, threads
<1>17. QED
  BY <1>1, <1>2, <1>3, <1>4, <1>5, <1>6, <1>7, <1>8, <1>9, <1>10,
     <1>11, <1>12, <1>13, <1>14, <1>15, <1>16 DEF Next, Worker

LEMMA Solo == ASSUME ~JoinMayTimeOut PROVE Spec => [](IInv /\ SoloInv)
<1>1. Init => SoloInv
  BY ConstantsAssumption DEF Init, SoloInv, LiveDispatchNeverUncertain, Holding
<1>2. IInv /\ SoloInv /\ [Next]_vars => SoloInv'
  BY SoloStep
<1>3. QED
  BY Inductive, <1>1, <1>2, PTL DEF Spec

\* As long as stop() waits for the old worker to end, no reload gives up a dispatch
\* that is in flight: only a dead host leaves an uncertain row behind.
THEOREM LiveDispatch ==
  ASSUME ~JoinMayTimeOut PROVE Spec => []LiveDispatchNeverUncertain
<1>1. SoloInv => LiveDispatchNeverUncertain
  BY DEF SoloInv
<1>2. QED
  BY Solo, <1>1, PTL

\* Under the same condition every attempt respects the backoff of the one before:
\* a row that was due when it was listed is still due when it is claimed.
THEOREM DueClaims == ASSUME ~JoinMayTimeOut PROVE Spec => ClaimsAreDue
<1>1. IInv /\ SoloInv /\ [Next]_vars
        => \A t \in Tasks : attempts'[t] # attempts[t] => due[t] = 0
  <2> SUFFICES ASSUME IInv, SoloInv, [Next]_vars, NEW t \in Tasks,
                      attempts'[t] # attempts[t]
               PROVE  due[t] = 0
    OBVIOUS
  <2>1. PICK w \in Workers, u \in Tasks : WClaim(w, u)
    BY DEF Next, Worker, BeginTerminalWake, Register, Joined, Tick, Crash, Restart, WTop,
      WSettle, WList, WInject, WAccept, WRefuse, WSleep, WDbError, rows, vars
  <2>2. u \in batch[w] /\ u = t
    BY <2>1 DEF WClaim, IInv, TypeOK, RowsOK
  <2>3. QED
    BY <2>2 DEF SoloInv
<1>2. QED
  BY Solo, <1>1, PTL DEF Spec, ClaimsAreDue
=============================================================================
