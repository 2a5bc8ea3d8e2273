----------------------- MODULE TerminalWakeRefinement -----------------------
(***************************************************************************)
(* TerminalWake implements OneWake, and a closed wake stays closed: both   *)
(* rest on the inductive invariant of TerminalWakeProofs.                  *)
(***************************************************************************)
EXTENDS TerminalWakeProofs

\* The status that the refinement mapping gives one row.
LEMMA StatusOf ==
  ASSUME NEW t \in Tasks
  PROVE  WakeStatus[t] = IF wake[t] = "null" THEN "none"
                         ELSE IF wake[t] \in Terminal /\ \A w \in Workers : cur[w] # t
                           THEN "closed" ELSE "open"
BY DEF WakeStatus

\* A step that delivers nothing and at most closes open wakes is a Close.
LEMMA ClosingStep ==
  ASSUME injected' = injected,
         \A t \in Tasks : \/ WakeStatus'[t] = WakeStatus[t]
                          \/ WakeStatus[t] = "open" /\ WakeStatus'[t] = "closed"
  PROVE  Abstract!Close
<1> DEFINE S == {t \in Tasks : WakeStatus[t] = "open" /\ WakeStatus'[t] = "closed"}
<1>1. S \in SUBSET {t \in Tasks : WakeStatus[t] = "open"}
  OBVIOUS
<1>2. WakeStatus' = [t \in Tasks |-> WakeStatus'[t]]
  BY DEF WakeStatus
<1>3. \A t \in Tasks : WakeStatus'[t] = IF t \in S THEN "closed" ELSE WakeStatus[t]
  OBVIOUS
<1>4. WakeStatus' = [t \in Tasks |-> IF t \in S THEN "closed" ELSE WakeStatus[t]]
  BY <1>2, <1>3
<1>5. QED
  BY <1>1, <1>4 DEF Abstract!Close

\* A step that leaves the rows' states, the claims and the history alone
\* changes nothing in OneWake.
LEMMA SilentStep ==
  ASSUME UNCHANGED <<wake, cur, injected>>
  PROVE  UNCHANGED Abstract!vars
BY DEF Abstract!vars, WakeStatus

\* How the status of one row can change in a step without a delivery.
LEMMA StatusStep ==
  ASSUME NEW t \in Tasks,
         wake[t] = "null" <=> wake'[t] = "null",
         wake[t] \in Terminal /\ (\A w \in Workers : cur[w] # t) =>
           wake'[t] \in Terminal /\ (\A w \in Workers : cur'[w] # t)
  PROVE  \/ WakeStatus'[t] = WakeStatus[t]
         \/ WakeStatus[t] = "open" /\ WakeStatus'[t] = "closed"
<1>1. WakeStatus'[t] = IF wake'[t] = "null" THEN "none"
                       ELSE IF wake'[t] \in Terminal /\ \A w \in Workers : cur'[w] # t
                         THEN "closed" ELSE "open"
  BY DEF WakeStatus
<1>2. QED
  BY <1>1, StatusOf DEF Terminal

\* Every step of the workers is a step of OneWake, or none.
LEMMA StepSimulation ==
  ASSUME IInv, [Next]_vars
  PROVE  [Abstract!Next]_Abstract!vars
<1> USE DEF IInv, TypeOK, RowsOK, ThreadsOK
<1>1. ASSUME NEW t \in Tasks, BeginTerminalWake(t) PROVE [Abstract!Next]_Abstract!vars
  <2>1. \A w \in Workers : cur[w] # t
    BY <1>1, ConstantsAssumption DEF BeginTerminalWake, Unopened,
        ClaimsAreExclusive, ClaimMatchesRow
  <2>2. WakeStatus[t] = "none"
    BY <1>1, StatusOf DEF BeginTerminalWake, Unopened
  <2>3. PICK s \in {"open", "closed"} : WakeStatus' = [WakeStatus EXCEPT ![t] = s]
    <3>1. CASE eligible[t]
      <4>1. wake' = [wake EXCEPT ![t] = "pending"] /\ cur' = cur
        BY <1>1, <3>1 DEF BeginTerminalWake, Unopened, threads
      <4>2. WakeStatus' = [WakeStatus EXCEPT ![t] = "open"]
        BY <4>1 DEF WakeStatus, Terminal
      <4>3. QED
        BY <4>2
    <3>2. CASE ~eligible[t]
      <4>1. wake' = [wake EXCEPT ![t] = "disabled"] /\ cur' = cur
        BY <1>1, <3>2 DEF BeginTerminalWake, Unopened, threads
      <4>2. WakeStatus' = [WakeStatus EXCEPT ![t] = "closed"]
        BY <2>1, <4>1 DEF WakeStatus, Terminal
      <4>3. QED
        BY <4>2
    <3>3. QED
      BY <3>1, <3>2
  <2>4. Abstract!Open(t)
    BY <1>1, <2>2, <2>3 DEF Abstract!Open, BeginTerminalWake
  <2>5. QED
    BY <2>4 DEF Abstract!Next
<1>2. CASE Register
  <2>1. UNCHANGED <<wake, cur, injected>>
    BY <1>2 DEF Register, StartWorker, rows, faults
  <2>2. QED
    BY <2>1, SilentStep
<1>3. CASE Joined
  <2>1. UNCHANGED <<wake, cur, injected>>
    BY <1>3 DEF Joined, JoinOver, StartWorker, rows, faults
  <2>2. QED
    BY <2>1, SilentStep
<1>4. CASE Tick
  <2>1. UNCHANGED <<wake, cur, injected>>
    BY <1>4 DEF Tick, host, faults
  <2>2. QED
    BY <2>1, SilentStep
<1>5. CASE Crash
  <2>5. injected' = injected
    BY <1>5 DEF Crash, rows
  <2>6. ASSUME NEW r \in Tasks
        PROVE  /\ wake[r] = "null" <=> wake'[r] = "null"
               /\ wake[r] \in Terminal /\ (\A v \in Workers : cur[v] # r) =>
                    wake'[r] \in Terminal /\ (\A v \in Workers : cur'[v] # r)
    BY <1>5, ConstantsAssumption DEF Crash, rows, Terminal
  <2>7. Abstract!Close
    BY <2>5, <2>6, StatusStep, ClosingStep
  <2>8. QED
    BY <2>7 DEF Abstract!Next
<1>6. CASE Restart
  <2>1. UNCHANGED <<wake, cur, injected>>
    BY <1>6 DEF Restart, rows, threads, faults
  <2>2. QED
    BY <2>1, SilentStep
<1>7. ASSUME NEW w \in Workers, WTop(w) PROVE [Abstract!Next]_Abstract!vars
  <2>1. UNCHANGED <<wake, cur, injected>>
    BY <1>7 DEF WTop, Goto, rows, host, faults
  <2>2. QED
    BY <2>1, SilentStep
<1>8. ASSUME NEW w \in Workers, WSettle(w) PROVE [Abstract!Next]_Abstract!vars
  <2>5. injected' = injected
    BY <1>8 DEF WSettle, SettleStale, Goto, host, faults
  <2>6. ASSUME NEW r \in Tasks
        PROVE  /\ wake[r] = "null" <=> wake'[r] = "null"
               /\ wake[r] \in Terminal /\ (\A v \in Workers : cur[v] # r) =>
                    wake'[r] \in Terminal /\ (\A v \in Workers : cur'[v] # r)
    BY <1>8, ConstantsAssumption DEF WSettle, SettleStale, Goto, host, faults, Terminal
  <2>7. Abstract!Close
    BY <2>5, <2>6, StatusStep, ClosingStep
  <2>8. QED
    BY <2>7 DEF Abstract!Next
<1>9. ASSUME NEW w \in Workers, WList(w) PROVE [Abstract!Next]_Abstract!vars
  <2>1. UNCHANGED <<wake, cur, injected>>
    BY <1>9 DEF WList, Goto, Due, rows, host, faults
  <2>2. QED
    BY <2>1, SilentStep
<1>10. ASSUME NEW w \in Workers, NEW t \in Tasks, WClaim(w, t)
       PROVE  [Abstract!Next]_Abstract!vars
  <2>5. injected' = injected
    BY <1>10 DEF WClaim, Claimable, Goto, host, faults
  <2>6. ASSUME NEW r \in Tasks
        PROVE  /\ wake[r] = "null" <=> wake'[r] = "null"
               /\ wake[r] \in Terminal /\ (\A v \in Workers : cur[v] # r) =>
                    wake'[r] \in Terminal /\ (\A v \in Workers : cur'[v] # r)
    BY <1>10, ConstantsAssumption DEF WClaim, Claimable, Goto, host, faults, Terminal
  <2>7. Abstract!Close
    BY <2>5, <2>6, StatusStep, ClosingStep
  <2>8. QED
    BY <2>7 DEF Abstract!Next
<1>11. ASSUME NEW w \in Workers, WInject(w) PROVE [Abstract!Next]_Abstract!vars
  <2>1. cur[w] \in Tasks /\ injected[cur[w]] = 0 /\ wake[cur[w]] \in {"dispatching", "uncertain"}
    BY <1>11 DEF WInject, ClaimsAreExclusive, HolderHasClaim, ClaimMatchesRow, Holding
  <2>2. UNCHANGED <<wake, cur>>
    BY <1>11 DEF WInject, Goto, rows, host, faults
  <2>3. WakeStatus' = WakeStatus
    BY <2>2 DEF WakeStatus
  <2>4. CASE injected' = injected
    BY <2>2, <2>4, SilentStep
  <2>5. CASE injected' # injected
    <3>1. injected' = [injected EXCEPT ![cur[w]] = 1]
      BY <1>11, <2>1, <2>5 DEF WInject
    <3>2. WakeStatus[cur[w]] = "open"
      BY <2>1, StatusOf
    <3>3. Abstract!Deliver(cur[w])
      BY <2>1, <2>3, <3>1, <3>2 DEF Abstract!Deliver
    <3>4. QED
      BY <2>1, <3>3 DEF Abstract!Next
  <2>6. QED
    BY <2>4, <2>5
<1>12. ASSUME NEW w \in Workers, WAccept(w) PROVE [Abstract!Next]_Abstract!vars
  <2> USE DEF ClaimsAreExclusive, ClaimMatchesRow, HolderHasClaim, OneHolder, Holding
  <2>5. injected' = injected
    BY <1>12 DEF WAccept, Goto, host, faults
  <2>6. ASSUME NEW r \in Tasks
        PROVE  /\ wake[r] = "null" <=> wake'[r] = "null"
               /\ wake[r] \in Terminal /\ (\A v \in Workers : cur[v] # r) =>
                    wake'[r] \in Terminal /\ (\A v \in Workers : cur'[v] # r)
    BY <1>12, ConstantsAssumption DEF WAccept, Goto, host, faults, Terminal
  <2>7. Abstract!Close
    BY <2>5, <2>6, StatusStep, ClosingStep
  <2>8. QED
    BY <2>7 DEF Abstract!Next
<1>13. ASSUME NEW w \in Workers, WRefuse(w) PROVE [Abstract!Next]_Abstract!vars
  <2> USE DEF ClaimsAreExclusive, ClaimMatchesRow, HolderHasClaim, OneHolder, Holding
  <2>5. injected' = injected
    BY <1>13 DEF WRefuse, OutcomeOpen, BudgetLeft, Goto, rows, host, faults
  <2>6. ASSUME NEW r \in Tasks
        PROVE  /\ wake[r] = "null" <=> wake'[r] = "null"
               /\ wake[r] \in Terminal /\ (\A v \in Workers : cur[v] # r) =>
                    wake'[r] \in Terminal /\ (\A v \in Workers : cur'[v] # r)
    BY <1>13, ConstantsAssumption DEF WRefuse, OutcomeOpen, BudgetLeft, Goto, rows,
        host, faults, Terminal
  <2>7. Abstract!Close
    BY <2>5, <2>6, StatusStep, ClosingStep
  <2>8. QED
    BY <2>7 DEF Abstract!Next
<1>14. ASSUME NEW w \in Workers, WSleep(w) PROVE [Abstract!Next]_Abstract!vars
  <2>1. UNCHANGED <<wake, cur, injected>>
    BY <1>14 DEF WSleep, Goto, rows, host, faults
  <2>2. QED
    BY <2>1, SilentStep
<1>15. ASSUME NEW w \in Workers, WDbError(w) PROVE [Abstract!Next]_Abstract!vars
  <2>5. injected' = injected
    BY <1>15 DEF WDbError, Goto, rows, host
  <2>6. ASSUME NEW r \in Tasks
        PROVE  /\ wake[r] = "null" <=> wake'[r] = "null"
               /\ wake[r] \in Terminal /\ (\A v \in Workers : cur[v] # r) =>
                    wake'[r] \in Terminal /\ (\A v \in Workers : cur'[v] # r)
    BY <1>15, ConstantsAssumption DEF WDbError, Goto, rows, host, Terminal
  <2>7. Abstract!Close
    BY <2>5, <2>6, StatusStep, ClosingStep
  <2>8. QED
    BY <2>7 DEF Abstract!Next
<1>16. CASE UNCHANGED vars
  BY <1>16, SilentStep DEF vars, rows, threads
<1>17. QED
  BY <1>1, <1>2, <1>3, <1>4, <1>5, <1>6, <1>7, <1>8, <1>9, <1>10,
     <1>11, <1>12, <1>13, <1>14, <1>15, <1>16 DEF Next, Worker

\* The rows and the workers implement the abstract wake: one opening, at most
\* one delivery while open, and nothing after it is closed.
THEOREM Refinement == Spec => ImplementsOneWake
<1>1. Init => Abstract!Init
  BY DEF Init, Abstract!Init, WakeStatus
<1>2. IInv /\ [Next]_vars => [Abstract!Next]_Abstract!vars
  BY StepSimulation
<1>3. QED
  BY <1>1, <1>2, Inductive, PTL DEF Spec, ImplementsOneWake, Abstract!Spec

\* What a step may do to a row that is already closed.
ClosedStep ==
  \A t \in Tasks :
    wake[t] \in Terminal /\ wake'[t] # wake[t] =>
      wake[t] = "uncertain" /\ wake'[t] = "accepted" /\ injected[t] = 1

\* Only the late recording of a real delivery touches a closed row.
LEMMA StepKeepsClosed ==
  ASSUME IInv, [Next]_vars PROVE ClosedStep
<1> USE DEF IInv, TypeOK, RowsOK, ClosedStep, Terminal
<1>1. ASSUME NEW t \in Tasks, BeginTerminalWake(t) PROVE ClosedStep
  BY <1>1 DEF BeginTerminalWake, Unopened, host, threads, faults
<1>2. CASE Register
  BY <1>2 DEF Register, StartWorker, rows, faults
<1>3. CASE Joined
  BY <1>3 DEF Joined, JoinOver, StartWorker, rows, faults
<1>4. CASE Tick
  BY <1>4 DEF Tick, host, faults
<1>5. CASE Crash
  BY <1>5 DEF Crash, rows
<1>6. CASE Restart
  BY <1>6 DEF Restart, rows, threads, faults
<1>7. ASSUME NEW w \in Workers, WTop(w) PROVE ClosedStep
  BY <1>7 DEF WTop, Goto, rows, host, faults
<1>8. ASSUME NEW w \in Workers, WSettle(w) PROVE ClosedStep
  BY <1>8 DEF WSettle, SettleStale, Goto, host, faults
<1>9. ASSUME NEW w \in Workers, WList(w) PROVE ClosedStep
  BY <1>9 DEF WList, Goto, Due, rows, host, faults
<1>10. ASSUME NEW w \in Workers, NEW t \in Tasks, WClaim(w, t) PROVE ClosedStep
  BY <1>10 DEF WClaim, Claimable, Goto, host, faults
<1>11. ASSUME NEW w \in Workers, WInject(w) PROVE ClosedStep
  BY <1>11 DEF WInject, Goto, rows, host, faults
<1>12. ASSUME NEW w \in Workers, WAccept(w) PROVE ClosedStep
  <2>1. /\ cur[w] \in Tasks
        /\ wake[cur[w]] \in {"dispatching", "uncertain"}
        /\ injected[cur[w]] = 1
    BY <1>12 DEF WAccept, ThreadsOK, ClaimsAreExclusive, HolderHasClaim,
        ClaimMatchesRow, Holding
  <2>2. QED
    BY <1>12, <2>1 DEF WAccept
<1>13. ASSUME NEW w \in Workers, WRefuse(w) PROVE ClosedStep
  BY <1>13 DEF WRefuse, OutcomeOpen, BudgetLeft, Goto, rows, host, faults
<1>14. ASSUME NEW w \in Workers, WSleep(w) PROVE ClosedStep
  BY <1>14 DEF WSleep, Goto, rows, host, faults
<1>15. ASSUME NEW w \in Workers, WDbError(w) PROVE ClosedStep
  BY <1>15 DEF WDbError, Goto, rows, host
<1>16. CASE UNCHANGED vars
  BY <1>16 DEF vars, rows, host, threads, faults
<1>17. QED
  BY <1>1, <1>2, <1>3, <1>4, <1>5, <1>6, <1>7, <1>8, <1>9, <1>10,
     <1>11, <1>12, <1>13, <1>14, <1>15, <1>16 DEF Next, Worker

\* A closed wake is never dispatched again.
THEOREM ClosedForGood == Spec => ClosedStaysClosed
<1>1. IInv /\ [Next]_vars => [ClosedStep]_vars
  BY StepKeepsClosed
<1>2. QED
  BY <1>1, Inductive, PTL DEF Spec, ClosedStaysClosed, ClosedStep
=============================================================================
