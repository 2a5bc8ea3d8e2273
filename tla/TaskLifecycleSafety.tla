----------------------- MODULE TaskLifecycleSafety -----------------------
(***************************************************************************)
(* The safety properties of TaskLifecycle, proved from its type invariant. *)
(***************************************************************************)
EXTENDS TaskLifecycleProofs

\* A thread whose next registry call opens the wake, recover_all's sweep
\* excepted.
AboutToWake ==
  \/ boot = "wake"
  \/ \E g \in Gens : wdPc[g] = "wake"
  \/ \E v \in Slots : verPc[v] = "wake"
  \/ recPc \in {"wake", "doneWake"}

\* NoticeBeforeWake is not inductive: a notice must also be there before any
\* thread comes to the call that opens the wake, if no enqueue was lost.
NoticeInv ==
  /\ NoticeBeforeWake
  /\ AboutToWake /\ "lostNotice" \notin seen => notes # {}

\* DoneIsEarned is not inductive: a reader may hold SETTLED in hand, and must
\* have taken it from an agent_settled event.
DoneInv ==
  /\ DoneIsEarned
  /\ \A g \in Gens : rd[g].new = "SETTLED" => "settled" \in seen

\* Every step keeps the notice ahead of the wake.
LEMMA NoticeStep ==
  ASSUME TypeOK, NoticeInv, [Next]_vars PROVE NoticeInv'
<1> USE DEF TypeOK, ToolsOK, WatchdogsOK, NoticeInv, NoticeBeforeWake, AboutToWake, history
<1>1. CASE Boot
  <2>1. CASE BootSpawnFails
    BY <2>1 DEF BootSpawnFails, BootFrame, verifier, recovery
  <2>2. CASE BootSpawn
    BY <2>2 DEF BootSpawn, row, BootFrame, verifier, recovery
  <2>3. CASE BootIdentified
    BY <2>3 DEF BootIdentified, row, BootFrame, verifier, recovery
  <2>4. CASE BootPrompted
    BY <2>4 DEF BootPrompted, row, BootFrame, verifier, recovery
  <2>5. CASE BootRpcFails
    BY <2>5 DEF BootRpcFails, row, BootFrame, verifier, recovery
  <2>6. CASE BootRunning
    BY <2>6 DEF BootRunning, BootFrame, verifier, recovery
  <2>7. CASE BootWatch
    BY <2>7 DEF BootWatch, StartWatchdog, row, BootFrame, verifier, recovery
  <2>8. CASE BootCrashed
    BY <2>8 DEF BootCrashed, BootFrame, verifier, recovery
  <2>9. CASE BootNotify
    BY <2>9 DEF BootNotify, Notify, BootFrame, verifier, recovery
  <2>10. CASE BootWake
    BY <2>10 DEF BootWake, RequestWake, BootFrame, WakeAfter, verifier, recovery
  <2>11. QED
    BY <1>1, <2>1, <2>2, <2>3, <2>4, <2>5, <2>6, <2>7, <2>8, <2>9, <2>10 DEF Boot
<1>2. CASE AbortStart
  BY <1>2 DEF AbortStart, AbortFrame, watchdog, verifier, recovery
<1>3. CASE Abort
  BY <1>3 DEF Abort, AbortKill, AbortSet, AbortNotify, AbortFrame, Notify, watchdog,
    verifier, recovery
<1>4. CASE Steer
  BY <1>4 DEF Steer, row, watchdog, verifier, recovery
<1>5. CASE Resume
  BY <1>5 DEF Resume, Recover, RecoveryFrame, verifier
<1>6. CASE Recovery
  <2>1. CASE RecoverySpawnFails
    BY <2>1 DEF RecoverySpawnFails, row, RecoveryFrame, verifier
  <2>2. CASE RecoverySpawn
    BY <2>2 DEF RecoverySpawn, row, RecoveryFrame, verifier
  <2>3. CASE RecoveryRejected
    BY <2>3 DEF RecoveryRejected, row, RecoveryFrame, verifier
  <2>4. CASE RecoveryAttach
    BY <2>4 DEF RecoveryAttach, row, RecoveryFrame, verifier
  <2>5. CASE RecoveryWaiting
    BY <2>5 DEF RecoveryWaiting, RecoveryFrame, verifier
  <2>6. CASE RecoveryWatch
    BY <2>6 DEF RecoveryWatch, StartWatchdog, RecoveryEnds, row, RecoveryFrame,
      verifier
  <2>7. CASE RecoveryAborted
    BY <2>7 DEF RecoveryAborted, RecoveryFrame, verifier
  <2>8. CASE RecoveryNotify
    BY <2>8 DEF RecoveryNotify, Notify, Announced, RecoveryFrame, verifier
  <2>9. CASE RecoveryWake
    BY <2>9 DEF RecoveryWake, RequestWake, RecoveryEnds, RecoveryFrame, WakeAfter,
      verifier
  <2>10. ASSUME NEW outcome \in Verdicts, RecoveryGate(outcome) PROVE NoticeInv'
    BY <2>10 DEF RecoveryGate, RecoveryFrame, verifier
  <2>11. QED
    BY <1>6, <2>1, <2>2, <2>3, <2>4, <2>5, <2>6, <2>7, <2>8, <2>9, <2>10 DEF Recovery
<1>7. CASE Crash
  BY <1>7 DEF Crash, row
<1>8. CASE Restart
  BY <1>8 DEF Restart, Recover, watchdog, verifier
<1>8a. CASE RestartAbandoned
  BY <1>8a DEF RestartAbandoned, row, watchdog, verifier, recovery
<1>9. CASE DispatchWake
  BY <1>9 DEF DispatchWake, watchdog, verifier, recovery
<1>10. ASSUME NEW g \in Gens, Reader(g) PROVE NoticeInv'
  BY <1>10 DEF Reader, ReaderTransition, ReaderUpdate, ReaderSettled, verifier,
    ReaderFrame, watchdog, recovery
<1>11. ASSUME NEW g \in Gens, Watchdog(g) PROVE NoticeInv'
  <2>1. CASE TickStart(g)
    BY <2>1 DEF TickStart, WdLeave, WdGoto, row, WatchdogFrame, verifier, recovery
  <2>2. CASE TickPoll(g)
    BY <2>2 DEF TickPoll, WdLeave, WdGoto, WatchdogFrame, verifier, recovery
  <2>3. CASE TickUnresponsive(g)
    BY <2>3 DEF TickUnresponsive, WdLeave, WatchdogFrame, WdGoto, verifier, recovery
  <2>4. CASE TickChanged(g)
    BY <2>4 DEF TickChanged, WdLeave, WatchdogFrame, WdGoto, verifier, recovery
  <2>5. CASE TickCalm(g)
    BY <2>5 DEF TickCalm, WdLeave, WatchdogFrame, WdGoto, verifier, recovery
  <2>6. CASE TickToolActive(g)
    BY <2>6 DEF TickToolActive, WdLeave, row, WatchdogFrame, WdGoto, verifier,
      recovery
  <2>7. CASE TickGraceStarts(g)
    BY <2>7 DEF TickGraceStarts, WdGoto, row, WatchdogFrame, verifier, recovery
  <2>8. CASE TickWaiting(g)
    BY <2>8 DEF TickWaiting, WdLeave, WatchdogFrame, WdGoto, verifier, recovery
  <2>9. CASE TickStalled(g)
    BY <2>9 DEF TickStalled, WdLeave, WatchdogFrame, WdGoto, verifier, recovery
  <2>10. CASE TickNotify(g)
    BY <2>10 DEF TickNotify, Notify, WdGoto, WatchdogFrame, verifier, recovery
  <2>11. CASE TickWake(g)
    BY <2>11 DEF TickWake, RequestWake, WdLeave, WatchdogFrame, WakeAfter, WdGoto,
      verifier, recovery
  <2>12. QED
    BY <1>11, <2>1, <2>2, <2>3, <2>4, <2>5, <2>6, <2>7, <2>8, <2>9, <2>10, <2>11 DEF
        Watchdog
<1>12. ASSUME NEW g \in Gens, ProcessDies(g) PROVE NoticeInv'
  BY <1>12 DEF ProcessDies, row, watchdog, verifier, recovery
<1>13. ASSUME NEW g \in Gens, StdoutEnds(g) PROVE NoticeInv'
  BY <1>13 DEF StdoutEnds, row, watchdog, verifier, recovery
<1>14. ASSUME NEW g \in Gens, NEW ev \in EventKinds, ReadEvent(g, ev) PROVE NoticeInv'
  BY <1>14 DEF ReadEvent, verifier, ReaderFrame, watchdog, recovery
<1>15. ASSUME NEW v \in Slots, VerifyTool(v) PROVE NoticeInv'
  BY <1>15 DEF VerifyTool, VerifierFrame, watchdog, recovery
<1>16. ASSUME NEW v \in Slots, Verifier(v) PROVE NoticeInv'
  <2>1. CASE VerifyCheck(v)
    BY <2>1 DEF VerifyCheck, VerifierFrame, watchdog, recovery
  <2>2. CASE VerifyNotify(v)
    BY <2>2 DEF VerifyNotify, Notify, VerifierFrame, watchdog, recovery
  <2>3. CASE VerifyWake(v)
    BY <2>3 DEF VerifyWake, RequestWake, VerifierFrame, WakeAfter, watchdog, recovery
  <2>4. ASSUME NEW outcome \in Verdicts, VerifyGate(v, outcome) PROVE NoticeInv'
    BY <2>4 DEF VerifyGate, VerifierFrame, watchdog, recovery
  <2>5. QED
    BY <1>16, <2>1, <2>2, <2>3, <2>4 DEF Verifier
<1>17. CASE UNCHANGED vars
  BY <1>17 DEF vars, row, watchdog, verifier, recovery
<1>18. QED
  BY <1>1, <1>2, <1>3, <1>4, <1>5, <1>6, <1>7, <1>8, <1>9, <1>10, <1>11, <1>12, <1>13,
    <1>14, <1>15, <1>16, <1>17, <1>8a DEF Next

\* Every step keeps SETTLED and PASS earned.
LEMMA DoneStep ==
  ASSUME TypeOK, DoneInv, [Next]_vars PROVE DoneInv'
<1> USE DEF TypeOK, ReadersOK, DoneInv, DoneIsEarned, history
<1>1. CASE Boot
  <2>1. CASE BootSpawnFails \/ BootSpawn \/ BootIdentified \/ BootPrompted
    BY <2>1 DEF BootSpawnFails, BootSpawn, BootIdentified, BootPrompted, BootFrame, row,
      reader
  <2>2. CASE BootRpcFails \/ BootRunning \/ BootWatch \/ BootCrashed
    BY <2>2 DEF BootRpcFails, BootRunning, BootWatch, BootCrashed, BootFrame, row, reader
  <2>3. CASE BootNotify
    BY <2>3 DEF BootNotify, Notify, BootFrame, reader
  <2>4. CASE BootWake
    BY <2>4 DEF BootWake, RequestWake, BootFrame, reader
  <2>5. QED
    BY <1>1, <2>1, <2>2, <2>3, <2>4 DEF Boot
<1>2. CASE AbortStart
  BY <1>2 DEF AbortStart, AbortFrame, reader
<1>3. CASE Abort
  BY <1>3 DEF Abort, AbortKill, AbortSet, AbortNotify, Notify, AbortFrame, reader
<1>4. CASE Steer
  BY <1>4 DEF Steer, row, reader
<1>5. CASE Resume
  BY <1>5 DEF Resume, Recover, RecoveryFrame, reader
<1>6. CASE Recovery
  <2>1. CASE RecoverySpawnFails \/ RecoverySpawn \/ RecoveryRejected \/ RecoveryAttach
    BY <2>1 DEF RecoverySpawnFails, RecoverySpawn, RecoveryRejected, RecoveryAttach, row,
      RecoveryFrame, reader
  <2>2. CASE RecoveryWaiting \/ RecoveryWatch \/ RecoveryAborted
    BY <2>2 DEF RecoveryWaiting, RecoveryWatch, RecoveryAborted, row, RecoveryFrame, reader
  <2>3. CASE RecoveryNotify
    BY <2>3 DEF RecoveryNotify, Notify, RecoveryFrame, reader
  <2>4. CASE RecoveryWake
    BY <2>4 DEF RecoveryWake, RequestWake, RecoveryFrame, reader
  <2>5. ASSUME NEW outcome \in Verdicts, RecoveryGate(outcome) PROVE DoneInv'
    BY <2>5 DEF RecoveryGate, RecoveryFrame, reader
  <2>6. QED
    BY <1>6, <2>1, <2>2, <2>3, <2>4, <2>5 DEF Recovery
<1>7. CASE Crash
  BY <1>7 DEF Crash, row, NoEvent
<1>8. CASE Restart
  BY <1>8 DEF Restart, Recover, reader
<1>8a. CASE RestartAbandoned
  BY <1>8a DEF RestartAbandoned, row, reader, verifier
<1>9. CASE DispatchWake
  BY <1>9 DEF DispatchWake, reader
<1>10. ASSUME NEW g \in Gens, Reader(g) PROVE DoneInv'
  <2>1. CASE ReaderTransition(g)
    BY <2>1 DEF ReaderTransition, MayTransition
  <2>2. CASE ReaderUpdate(g)
    BY <2>2 DEF ReaderUpdate, ReaderFrame, NoEvent
  <2>3. CASE ReaderSettled(g)
    BY <2>3 DEF ReaderSettled
  <2>4. QED
    BY <1>10, <2>1, <2>2, <2>3 DEF Reader
<1>11. ASSUME NEW g \in Gens, Watchdog(g) PROVE DoneInv'
  <2>1. CASE TickStart(g)
    BY <2>1 DEF TickStart, row, WatchdogFrame, reader
  <2>2. CASE TickPoll(g)
    BY <2>2 DEF TickPoll, WatchdogFrame, reader
  <2>3. CASE TickUnresponsive(g)
    BY <2>3 DEF TickUnresponsive, WatchdogFrame, reader
  <2>4. CASE TickChanged(g)
    <3>1. Healed(wd[g].on) \in Resumable
      BY HealedType DEF WatchdogsOK
    <3>2. exec' = "SETTLED" => exec = "SETTLED"
      BY <2>4, <3>1 DEF TickChanged, Resumable
    <3>3. QED
      BY <2>4, <3>2 DEF TickChanged, WatchdogFrame, reader
  <2>5. CASE TickCalm(g)
    BY <2>5 DEF TickCalm, WatchdogFrame, reader
  <2>6. CASE TickToolActive(g)
    BY <2>6 DEF TickToolActive, row, WatchdogFrame, reader
  <2>7. CASE TickGraceStarts(g)
    BY <2>7 DEF TickGraceStarts, row, WatchdogFrame, reader
  <2>8. CASE TickWaiting(g)
    BY <2>8 DEF TickWaiting, WatchdogFrame, reader
  <2>9. CASE TickStalled(g)
    BY <2>9 DEF TickStalled, WatchdogFrame, reader
  <2>10. CASE TickNotify(g)
    BY <2>10 DEF TickNotify, Notify, WatchdogFrame, reader
  <2>11. CASE TickWake(g)
    BY <2>11 DEF TickWake, RequestWake, WatchdogFrame, reader
  <2>12. QED
    BY <1>11, <2>1, <2>2, <2>3, <2>4, <2>5, <2>6, <2>7, <2>8, <2>9, <2>10, <2>11 DEF
        Watchdog
<1>12. ASSUME NEW g \in Gens, ProcessDies(g) PROVE DoneInv'
  BY <1>12 DEF ProcessDies, row, reader
<1>13. ASSUME NEW g \in Gens, StdoutEnds(g) PROVE DoneInv'
  BY <1>13 DEF StdoutEnds, row, reader
<1>14. ASSUME NEW g \in Gens, NEW ev \in EventKinds, ReadEvent(g, ev) PROVE DoneInv'
  <2> DEFINE before == IF exec = "UNRESPONSIVE" THEN Healed(cur) ELSE exec
             new == NewState(ev, before)
             moves == exec \notin Final /\ new # exec
  <2>1. Healed(cur) \in Resumable
    BY HealedType DEF HostOK
  <2>2. moves /\ new = "SETTLED" => ev = "settled"
    BY <2>1 DEF NewState, EventKinds, Resumable, Final
  <2>3. rd' = [rd EXCEPT ![g] = [settled |-> ev = "settled", on |-> cur,
                                 new |-> IF moves THEN new ELSE "none"]]
    BY <1>14 DEF ReadEvent
  <2>4. rd'[g].new = "SETTLED" => ev = "settled"
    BY <2>2, <2>3
  <2>5. \A h \in Gens : h # g => rd'[h] = rd[h]
    BY <2>3
  <2>6. seen' = IF ev = "settled" THEN seen \cup {"settled"} ELSE seen
    BY <1>14 DEF ReadEvent
  <2>7. UNCHANGED <<exec, verif>>
    BY <1>14 DEF ReadEvent
  <2>8. QED
    BY <2>4, <2>5, <2>6, <2>7
<1>15. ASSUME NEW v \in Slots, VerifyTool(v) PROVE DoneInv'
  BY <1>15 DEF VerifyTool, VerifierFrame, reader
<1>16. ASSUME NEW v \in Slots, Verifier(v) PROVE DoneInv'
  <2>1. CASE VerifyCheck(v)
    BY <2>1 DEF VerifyCheck, VerifierFrame, reader
  <2>2. CASE VerifyNotify(v)
    BY <2>2 DEF VerifyNotify, Notify, VerifierFrame, reader
  <2>3. CASE VerifyWake(v)
    BY <2>3 DEF VerifyWake, RequestWake, VerifierFrame, reader
  <2>4. ASSUME NEW outcome \in Verdicts, VerifyGate(v, outcome) PROVE DoneInv'
    BY <2>4 DEF VerifyGate, VerifierFrame, reader
  <2>5. QED
    BY <1>16, <2>1, <2>2, <2>3, <2>4 DEF Verifier
<1>17. CASE UNCHANGED vars
  BY <1>17 DEF vars, row, reader
<1>18. QED
  BY <1>1, <1>2, <1>3, <1>4, <1>5, <1>6, <1>7, <1>8, <1>9, <1>10, <1>11, <1>12, <1>13,
    <1>14, <1>15, <1>16, <1>17, <1>8a DEF Next

\* A reader that is past its reading of the row keeps a final state.
LEMMA ReaderStep ==
  ASSUME NEW h \in Gens, TypeOK, rdPc'[h] # rdPc[h], rdPc[h] # "idle", up', exec \in Final, [Next]_vars
  PROVE  exec' = exec
<1> USE DEF TypeOK, ReadersOK
<1>1. CASE Boot
  BY <1>1 DEF Boot, BootSpawnFails, BootSpawn, BootIdentified, BootPrompted,
    BootRpcFails, BootRunning, BootWatch, BootCrashed, BootNotify, BootWake,
    BootFrame, row, reader
<1>2. CASE AbortStart
  BY <1>2 DEF AbortStart, AbortFrame, reader
<1>3. CASE Abort
  BY <1>3 DEF Abort, AbortKill, AbortSet, AbortNotify, AbortFrame, reader
<1>4. CASE Steer
  BY <1>4 DEF Steer, row, reader
<1>5. CASE Resume
  BY <1>5 DEF Resume, Recover, RecoveryFrame, reader
<1>6. CASE Recovery
  BY <1>6 DEF Recovery, RecoverySpawnFails, RecoverySpawn, RecoveryRejected,
    RecoveryAttach, RecoveryWaiting, RecoveryWatch, RecoveryAborted, RecoveryNotify,
    RecoveryWake, RecoveryGate, row, RecoveryFrame, reader
<1>7. CASE Crash
  BY <1>7 DEF Crash
<1>8. CASE Restart
  BY <1>8 DEF Restart, Recover, reader
<1>8a. CASE RestartAbandoned
  BY <1>8a DEF RestartAbandoned, row, reader
<1>9. CASE DispatchWake
  BY <1>9 DEF DispatchWake, reader
<1>10. ASSUME NEW g \in Gens, Reader(g) PROVE exec' = exec
  <2>1. CASE ReaderTransition(g)
    BY <2>1 DEF ReaderTransition, MayTransition
  <2>2. CASE ReaderUpdate(g)
    BY <2>2 DEF ReaderUpdate
  <2>3. CASE ReaderSettled(g)
    BY <2>3 DEF ReaderSettled
  <2>4. QED
    BY <1>10, <2>1, <2>2, <2>3 DEF Reader
<1>11. ASSUME NEW g \in Gens, Watchdog(g) PROVE exec' = exec
  BY <1>11 DEF Watchdog, TickStart, TickPoll, TickUnresponsive, TickChanged, TickCalm,
    TickToolActive, TickGraceStarts, TickWaiting, TickStalled, TickNotify, TickWake,
    row, WatchdogFrame, reader
<1>12. ASSUME NEW g \in Gens, ProcessDies(g) PROVE exec' = exec
  BY <1>12 DEF ProcessDies, row, reader
<1>13. ASSUME NEW g \in Gens, StdoutEnds(g) PROVE exec' = exec
  BY <1>13 DEF StdoutEnds, row, reader
<1>14. ASSUME NEW g \in Gens, NEW ev \in EventKinds, ReadEvent(g, ev) PROVE exec' = exec
  BY <1>14 DEF ReadEvent
<1>15. ASSUME NEW v \in Slots, VerifyTool(v) PROVE exec' = exec
  BY <1>15 DEF VerifyTool, VerifierFrame, reader
<1>16. ASSUME NEW v \in Slots, Verifier(v) PROVE exec' = exec
  BY <1>16 DEF Verifier, VerifyCheck, VerifyNotify, VerifyWake, VerifyGate,
    VerifierFrame, reader
<1>17. CASE UNCHANGED vars
  BY <1>17 DEF vars, row, reader
<1>18. QED
  BY <1>1, <1>2, <1>3, <1>4, <1>5, <1>6, <1>7, <1>8, <1>9, <1>10, <1>11, <1>12, <1>13,
    <1>14, <1>15, <1>16, <1>17, <1>8a DEF Next

\* Nothing has been announced, settled or passed at the start.
LEMMA InitSafety == Init => NoticeInv /\ DoneInv
BY DEF Init, NoticeInv, NoticeBeforeWake, AboutToWake, DoneInv, DoneIsEarned, NoEvent

\* _notify_failed, _notify_stalled and _notify_done before
\* _request_terminal_wake, on every path and in every interleaving: when the
\* session is woken a notice is in the outbox, unless the wake came from
\* recover_all's sweep or the registry failed an enqueue, which is swallowed.
THEOREM NoticeFirst == Spec => []NoticeBeforeWake
<1>1. Init => TypeOK /\ NoticeInv
  BY InitType, InitSafety
<1>2. TypeOK /\ NoticeInv /\ [Next]_vars => (TypeOK /\ NoticeInv)'
  BY TypeStep, NoticeStep
<1>3. NoticeInv => NoticeBeforeWake
  BY DEF NoticeInv
<1>4. QED
  BY <1>1, <1>2, <1>3, PTL DEF Spec

\* SETTLED only after an agent_settled event and PASS only after a gate that
\* exited with 0, however many processes, readers, watchdogs, verifiers and
\* recoveries there are.
THEOREM EarnedDone == Spec => []DoneIsEarned
<1>1. Init => TypeOK /\ DoneInv
  BY InitType, InitSafety
<1>2. TypeOK /\ DoneInv /\ [Next]_vars => (TypeOK /\ DoneInv)'
  BY TypeStep, DoneStep
<1>3. DoneInv => DoneIsEarned
  BY DEF DoneInv
<1>4. QED
  BY <1>1, <1>2, <1>3, PTL DEF Spec

\* transition_task_state's WHERE clause is enough: a reader never resurrects
\* a final task, however stale the row it decided on.
THEOREM FinalKept == Spec => ReaderKeepsFinal
<1>1. TypeOK /\ [Next]_vars
        => [\A g \in Gens : rdPc'[g] # rdPc[g] /\ rdPc[g] # "idle" /\ up' /\ exec \in Final
              => exec' = exec]_vars
  BY ReaderStep
<1>2. QED
  BY <1>1, TypeCorrect, PTL DEF Spec, ReaderKeepsFinal
==========================================================================
