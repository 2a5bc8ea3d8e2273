------------------------ MODULE TaskLifecycleProofs ------------------------
(***************************************************************************)
(* Proofs about TaskLifecycle, for every number of generations, verifier   *)
(* threads and outside events, and for a pi_resume that overlaps the       *)
(* task's other threads as well as for one that does not.                  *)
(***************************************************************************)
EXTENDS TaskLifecycle, TLAPS

\* The numbers of generations, and 0 for none.
LEMMA GenNumbers ==
  /\ 0 \in 0..MaxGens /\ 1 \in Gens
  /\ \A g \in Gens : g \in 0..MaxGens
  /\ \A g \in Gens : g < MaxGens => g + 1 \in Gens
BY ConstantsAssumption DEF Gens

\* An outside event is taken from its budget.
LEMMA SpendType ==
  ASSUME NEW e \in Events, budget \in [Events -> Nat], Spend(e)
  PROVE  budget' \in [Events -> Nat]
<1>1. budget[e] - 1 \in Nat
  BY DEF Spend
<1>2. QED
  BY <1>1 DEF Spend

\* So is a failure of the registry in a notice or in a wake request.
LEMMA NotifyType ==
  ASSUME NEW kinds, budget \in [Events -> Nat], Notify(kinds)
  PROVE  budget' \in [Events -> Nat]
BY SpendType DEF Notify, Events

LEMMA RequestType ==
  ASSUME NEW tags, budget \in [Events -> Nat], RequestWake(tags)
  PROVE  budget' \in [Events -> Nat]
BY SpendType DEF RequestWake, Events

\* A healed task is not final.
LEMMA HealedType ==
  ASSUME RuntimesOK, NEW g \in 0..MaxGens PROVE Healed(g) \in Resumable
<1>1. CASE g = 0
  BY <1>1 DEF Healed, Resumable
<1>2. CASE g # 0
  <2>1. pre[g] \in Resumable \cup {"none"}
    BY <1>2, ConstantsAssumption DEF RuntimesOK, Gens
  <2>2. QED
    BY <1>2, <2>1 DEF Healed, Resumable
<1>3. QED
  BY <1>1, <1>2

\* The local variables of a reader and of a watchdog that are at rest.
LEMMA RestTypes ==
  /\ NoEvent \in [settled : BOOLEAN, new : ExecStates \cup {"none"}, on : 0..MaxGens]
  /\ NoTick \in [on : 0..MaxGens, current : Resumable]
BY GenNumbers DEF NoEvent, NoTick, Resumable

\* Every step keeps the types of the row and of the history.
LEMMA RowStep ==
  ASSUME TypeOK, [Next]_vars PROVE RowOK'
<1> USE DEF TypeOK, RowOK, ExecStates, VerifStates, Resumable, Final, Verdicts, Kinds,
  history
<1>1. CASE Boot
  <2>1. CASE BootSpawnFails \/ BootSpawn \/ BootIdentified \/ BootPrompted
    BY <2>1 DEF BootSpawnFails, BootSpawn, BootIdentified, BootPrompted, BootFrame, row
  <2>2. CASE BootRpcFails \/ BootRunning \/ BootWatch \/ BootCrashed
    BY <2>2 DEF BootRpcFails, BootRunning, BootWatch, BootCrashed, BootFrame, row
  <2>3. CASE BootNotify \/ BootWake
    BY <2>3 DEF BootNotify, BootWake, BootFrame, Notify, RequestWake, WakeAfter
  <2>4. QED
    BY <1>1, <2>1, <2>2, <2>3 DEF Boot
<1>2. CASE AbortStart
  BY <1>2 DEF AbortStart, AbortFrame
<1>3. CASE Abort
  BY <1>3 DEF Abort, AbortKill, AbortSet, AbortNotify, AbortFrame, Notify
<1>4. CASE Steer
  BY <1>4 DEF Steer, row
<1>5. CASE Resume
  BY <1>5 DEF Resume, Recover
<1>6. CASE Recovery
  <2>1. CASE RecoverySpawnFails \/ RecoverySpawn \/ RecoveryRejected \/ RecoveryAttach
    BY <2>1 DEF RecoverySpawnFails, RecoverySpawn, RecoveryRejected, RecoveryAttach, row
  <2>2. CASE RecoveryWaiting \/ RecoveryWatch \/ RecoveryAborted
    BY <2>2 DEF RecoveryWaiting, RecoveryWatch, RecoveryAborted, row
  <2>3. CASE RecoveryNotify
    BY <2>3 DEF RecoveryNotify, Notify, Announced, DoneKind
  <2>4. CASE RecoveryWake
    BY <2>4 DEF RecoveryWake, RequestWake, WakeAfter
  <2>5. ASSUME NEW outcome \in Verdicts, RecoveryGate(outcome) PROVE RowOK'
    BY <2>5 DEF RecoveryGate
  <2>6. QED
    BY <1>6, <2>1, <2>2, <2>3, <2>4, <2>5 DEF Recovery
<1>7. CASE Crash
  BY <1>7 DEF Crash, row
<1>8. CASE Restart
  BY <1>8 DEF Restart, Recover
<1>8a. CASE RestartAbandoned
  BY <1>8a DEF RestartAbandoned, row
<1>9. CASE DispatchWake
  BY <1>9 DEF DispatchWake
<1>10. ASSUME NEW g \in Gens, Reader(g) PROVE RowOK'
  <2>1. CASE ReaderTransition(g)
    BY <2>1 DEF ReaderTransition, ReaderFrame, ReadersOK, MayTransition
  <2>2. CASE ReaderUpdate(g)
    BY <2>2 DEF ReaderUpdate, ReaderFrame
  <2>3. CASE ReaderSettled(g)
    BY <2>3 DEF ReaderSettled, ReaderFrame
  <2>4. QED
    BY <1>10, <2>1, <2>2, <2>3 DEF Reader
<1>11. ASSUME NEW g \in Gens, Watchdog(g) PROVE RowOK'
  <2>1. CASE TickStart(g)
    BY <2>1 DEF TickStart, row, WatchdogFrame
  <2>2. CASE TickPoll(g)
    BY <2>2 DEF TickPoll, WatchdogFrame
  <2>3. CASE TickUnresponsive(g)
    BY <2>3 DEF TickUnresponsive, WatchdogFrame
  <2>4. CASE TickChanged(g)
    <3>1. Healed(wd[g].on) \in Resumable
      BY HealedType DEF WatchdogsOK
    <3>2. QED
      BY <2>4, <3>1 DEF TickChanged, WatchdogFrame
  <2>5. CASE TickCalm(g)
    BY <2>5 DEF TickCalm, WatchdogFrame
  <2>6. CASE TickToolActive(g)
    BY <2>6 DEF TickToolActive, row, WatchdogFrame
  <2>7. CASE TickGraceStarts(g)
    BY <2>7 DEF TickGraceStarts, row, WatchdogFrame
  <2>8. CASE TickWaiting(g)
    BY <2>8 DEF TickWaiting, WatchdogFrame
  <2>9. CASE TickStalled(g)
    BY <2>9 DEF TickStalled, WatchdogFrame
  <2>10. CASE TickNotify(g)
    BY <2>10 DEF TickNotify, Notify, WatchdogFrame
  <2>11. CASE TickWake(g)
    BY <2>11 DEF TickWake, RequestWake, WatchdogFrame, WakeAfter
  <2>12. QED
    BY <1>11, <2>1, <2>2, <2>3, <2>4, <2>5, <2>6, <2>7, <2>8, <2>9, <2>10, <2>11 DEF Watchdog
<1>12. ASSUME NEW g \in Gens, ProcessDies(g) PROVE RowOK'
  BY <1>12 DEF ProcessDies, row
<1>13. ASSUME NEW g \in Gens, StdoutEnds(g) PROVE RowOK'
  BY <1>13 DEF StdoutEnds, row
<1>14. ASSUME NEW g \in Gens, NEW ev \in EventKinds, ReadEvent(g, ev) PROVE RowOK'
  BY <1>14 DEF ReadEvent, Healed, NewState, ReaderFrame
<1>15. ASSUME NEW v \in Slots, VerifyTool(v) PROVE RowOK'
  BY <1>15 DEF VerifyTool, VerifierFrame
<1>16. ASSUME NEW v \in Slots, Verifier(v) PROVE RowOK'
  <2>1. CASE VerifyCheck(v)
    BY <2>1 DEF VerifyCheck, VerifierFrame
  <2>2. CASE VerifyNotify(v)
    BY <2>2 DEF VerifyNotify, VerifierFrame, Notify, DoneKind
  <2>3. CASE VerifyWake(v)
    BY <2>3 DEF VerifyWake, VerifierFrame, RequestWake, WakeAfter
  <2>4. ASSUME NEW outcome \in Verdicts, VerifyGate(v, outcome) PROVE RowOK'
    BY <2>4 DEF VerifyGate, VerifierFrame
  <2>5. QED
    BY <1>16, <2>1, <2>2, <2>3, <2>4 DEF Verifier
<1>17. CASE UNCHANGED vars
  BY <1>17 DEF vars, row
<1>18. QED
  BY <1>1, <1>2, <1>3, <1>4, <1>5, <1>6, <1>7, <1>8, <1>9, <1>10, <1>11, <1>12, <1>13,
    <1>14, <1>15, <1>16, <1>17, <1>8a DEF Next

\* Every step keeps the types of the host process.
LEMMA HostStep ==
  ASSUME TypeOK, [Next]_vars PROVE HostOK'
<1> USE GenNumbers DEF TypeOK, HostOK, history
<1>1. CASE Boot
  <2>1. CASE BootNotify
    BY <2>1, NotifyType DEF BootNotify, BootFrame, conf, mgr
  <2>2. CASE BootWake
    BY <2>2, RequestType DEF BootWake, BootFrame, conf, mgr
  <2>3. CASE ~BootNotify /\ ~BootWake
    BY <1>1, <2>3 DEF Boot, BootSpawnFails, BootSpawn, BootIdentified, BootPrompted,
      BootRpcFails, BootRunning, BootWatch, BootCrashed, BootFrame, conf, mgr
  <2>4. QED
    BY <2>1, <2>2, <2>3
<1>2. CASE AbortStart
  <2>1. budget' \in [Events -> Nat]
    BY <1>2, SpendType DEF AbortStart, Events
  <2>2. QED
    BY <1>2, <2>1 DEF AbortStart, AbortFrame, conf, mgr
<1>3. CASE Abort
  <2>1. CASE AbortKill \/ AbortSet
    BY <2>1 DEF AbortKill, AbortSet, AbortFrame, conf, mgr
  <2>2. CASE AbortNotify
    BY <2>2, NotifyType DEF AbortNotify, AbortFrame, conf, mgr
  <2>3. QED
    BY <1>3, <2>1, <2>2 DEF Abort
<1>4. CASE Steer
  <2>1. budget' \in [Events -> Nat]
    BY <1>4, SpendType DEF Steer, Events
  <2>2. QED
    BY <1>4, <2>1 DEF Steer, conf, mgr
<1>5. CASE Resume
  <2>1. budget' \in [Events -> Nat]
    BY <1>5, SpendType DEF Resume, Events
  <2>2. QED
    BY <1>5, <2>1 DEF Resume, Recover, RecoveryFrame, conf
<1>6. CASE Recovery
  <2>1. CASE RecoverySpawnFails \/ RecoverySpawn \/ RecoveryRejected \/ RecoveryAttach
    BY <2>1 DEF ToolsOK, RecoverySpawnFails, RecoverySpawn, RecoveryRejected,
      RecoveryAttach, RecoveryFrame, conf
  <2>2. CASE RecoveryWaiting \/ RecoveryWatch \/ RecoveryAborted
    BY <2>2 DEF RecoveryWaiting, RecoveryWatch, RecoveryAborted, RecoveryFrame,
      RecoveryEnds, conf
  <2>3. CASE RecoveryNotify
    BY <2>3, NotifyType DEF RecoveryNotify, RecoveryFrame, conf
  <2>4. CASE RecoveryWake
    BY <2>4, RequestType DEF RecoveryWake, RecoveryFrame, RecoveryEnds, conf
  <2>5. ASSUME NEW outcome \in Verdicts, RecoveryGate(outcome) PROVE HostOK'
    BY <2>5 DEF RecoveryGate, RecoveryFrame, conf
  <2>6. QED
    BY <1>6, <2>1, <2>2, <2>3, <2>4, <2>5 DEF Recovery
<1>7. CASE Crash
  <2>1. budget' \in [Events -> Nat]
    BY <1>7, SpendType DEF Crash, Events
  <2>2. QED
    BY <1>7, <2>1 DEF Crash, conf
<1>8. CASE Restart
  BY <1>8 DEF Restart, Recover, conf
<1>8a. CASE RestartAbandoned
  <2>1. budget' \in [Events -> Nat]
    BY <1>8a, SpendType DEF RestartAbandoned, Events
  <2>2. QED
    BY <1>8a, <2>1 DEF RestartAbandoned, conf
<1>9. CASE DispatchWake
  BY <1>9 DEF DispatchWake, conf, mgr
<1>10. ASSUME NEW g \in Gens, Reader(g) PROVE HostOK'
  BY <1>10 DEF Reader, ReaderTransition, ReaderUpdate, ReaderSettled, ReaderFrame,
    StopWatchdog, conf, mgr
<1>11. ASSUME NEW g \in Gens, Watchdog(g) PROVE HostOK'
  <2>1. CASE TickNotify(g)
    BY <2>1, NotifyType DEF TickNotify, WatchdogFrame, conf, mgr
  <2>2. CASE TickWake(g)
    BY <2>2, RequestType DEF TickWake, WatchdogFrame, conf, mgr
  <2>3. CASE ~TickNotify(g) /\ ~TickWake(g)
    BY <1>11, <2>3 DEF Watchdog, TickStart, TickPoll, TickUnresponsive, TickChanged,
      TickCalm, TickToolActive, TickGraceStarts, TickWaiting, TickStalled,
      WatchdogFrame, conf, mgr
  <2>4. QED
    BY <2>1, <2>2, <2>3
<1>12. ASSUME NEW g \in Gens, ProcessDies(g) PROVE HostOK'
  BY <1>12 DEF ProcessDies, conf, mgr
<1>13. ASSUME NEW g \in Gens, StdoutEnds(g) PROVE HostOK'
  BY <1>13 DEF StdoutEnds, conf, mgr
<1>14. ASSUME NEW g \in Gens, NEW ev \in EventKinds, ReadEvent(g, ev) PROVE HostOK'
  BY <1>14 DEF ReadEvent, ReaderFrame, conf, mgr
<1>15. ASSUME NEW v \in Slots, VerifyTool(v) PROVE HostOK'
  <2>1. budget' \in [Events -> Nat]
    BY <1>15, SpendType DEF VerifyTool, Events
  <2>2. QED
    BY <1>15, <2>1 DEF VerifyTool, VerifierFrame, conf, mgr
<1>16. ASSUME NEW v \in Slots, Verifier(v) PROVE HostOK'
  <2>1. CASE VerifyNotify(v)
    BY <2>1, NotifyType DEF VerifyNotify, VerifierFrame, conf, mgr
  <2>2. CASE VerifyWake(v)
    BY <2>2, RequestType DEF VerifyWake, VerifierFrame, conf, mgr
  <2>3. CASE ~VerifyNotify(v) /\ ~VerifyWake(v)
    BY <1>16, <2>3 DEF Verifier, VerifyCheck, VerifyGate, VerifierFrame, conf, mgr
  <2>4. QED
    BY <2>1, <2>2, <2>3
<1>17. CASE UNCHANGED vars
  BY <1>17 DEF vars, conf, mgr
<1>18. QED
  BY <1>1, <1>2, <1>3, <1>4, <1>5, <1>6, <1>7, <1>8, <1>9, <1>10, <1>11, <1>12, <1>13,
    <1>14, <1>15, <1>16, <1>17, <1>8a DEF Next

\* Every step keeps the types of the runtimes.
LEMMA RuntimesStep ==
  ASSUME TypeOK, [Next]_vars PROVE RuntimesOK'
<1> USE DEF TypeOK, RuntimesOK, history
<1>1. CASE Boot
  <2>1. CASE BootRpcFails
    BY <2>1 DEF BootRpcFails, LetGo, BootFrame, rts
  <2>2. CASE ~BootRpcFails
    BY <1>1, <2>2 DEF Boot, BootSpawnFails, BootSpawn, BootIdentified, BootPrompted,
      BootRunning, BootWatch, BootCrashed, BootNotify, BootWake, BootFrame, rts,
      StartWatchdog
  <2>3. QED
    BY <2>1, <2>2
<1>2. CASE AbortStart
  BY <1>2 DEF AbortStart, AbortFrame
<1>3. CASE Abort
  BY <1>3 DEF Abort, AbortKill, AbortSet, AbortNotify, Killed, AbortFrame,
    LetGo, StopWatchdog
<1>4. CASE Steer
  BY <1>4 DEF Steer, rts
<1>5. CASE Resume
  BY <1>5 DEF Resume, RecoveryFrame
<1>6. CASE Recovery
  <2>1. CASE RecoverySpawnFails \/ RecoverySpawn \/ RecoveryAttach
    BY <2>1 DEF RecoverySpawnFails, RecoverySpawn, RecoveryAttach, RecoveryFrame
  <2>2. CASE RecoveryRejected
    BY <2>2 DEF RecoveryRejected, LetGo, RecoveryFrame
  <2>3. CASE RecoveryWaiting \/ RecoveryWatch \/ RecoveryAborted
    BY <2>3 DEF RecoveryWaiting, RecoveryWatch, RecoveryAborted, RecoveryFrame,
      StartWatchdog
  <2>4. CASE RecoveryNotify \/ RecoveryWake \/ \E outcome \in Verdicts : RecoveryGate(outcome)
    BY <2>4 DEF RecoveryNotify, RecoveryWake, RecoveryGate, RecoveryFrame
  <2>5. QED
    BY <1>6, <2>1, <2>2, <2>3, <2>4 DEF Recovery
<1>7. CASE Crash
  BY <1>7 DEF Crash
<1>8. CASE Restart
  BY <1>8 DEF Restart, rts
<1>8a. CASE RestartAbandoned
  BY <1>8a DEF RestartAbandoned, rts
<1>9. CASE DispatchWake
  BY <1>9 DEF DispatchWake, rts
<1>10. ASSUME NEW g \in Gens, Reader(g) PROVE RuntimesOK'
  <2>1. CASE ReaderTransition(g)
    BY <2>1 DEF ReaderTransition, rts, ReaderFrame
  <2>2. CASE ReaderUpdate(g)
    BY <2>2 DEF ReaderUpdate, ReaderFrame
  <2>3. CASE ReaderSettled(g)
    BY <2>3 DEF ReaderSettled, StopWatchdog, Killed, ReaderFrame
  <2>4. QED
    BY <1>10, <2>1, <2>2, <2>3 DEF Reader
<1>11. ASSUME NEW g \in Gens, Watchdog(g) PROVE RuntimesOK'
  <2>1. CASE TickStart(g)
    BY <2>1 DEF TickStart, WatchdogFrame
  <2>2. CASE TickPoll(g)
    BY <2>2 DEF TickPoll, WatchdogFrame
  <2>3. CASE TickUnresponsive(g)
    <3>1. wd[g].current \in Resumable
      BY DEF WatchdogsOK
    <3>2. QED
      BY <2>3, <3>1 DEF TickUnresponsive, WatchdogFrame
  <2>4. CASE TickChanged(g)
    BY <2>4 DEF TickChanged, Healed, WatchdogFrame
  <2>5. CASE TickCalm(g)
    BY <2>5 DEF TickCalm, WatchdogFrame
  <2>6. CASE TickToolActive(g)
    BY <2>6 DEF TickToolActive, WatchdogFrame
  <2>7. CASE TickGraceStarts(g)
    BY <2>7 DEF TickGraceStarts, WatchdogFrame
  <2>8. CASE TickWaiting(g)
    BY <2>8 DEF TickWaiting, WatchdogFrame
  <2>9. CASE TickStalled(g)
    BY <2>9 DEF TickStalled, WatchdogFrame
  <2>10. CASE TickNotify(g)
    BY <2>10 DEF TickNotify, WatchdogFrame
  <2>11. CASE TickWake(g)
    BY <2>11 DEF TickWake, WatchdogFrame
  <2>12. QED
    BY <1>11, <2>1, <2>2, <2>3, <2>4, <2>5, <2>6, <2>7, <2>8, <2>9, <2>10, <2>11 DEF Watchdog
<1>12. ASSUME NEW g \in Gens, ProcessDies(g) PROVE RuntimesOK'
  BY <1>12 DEF ProcessDies, Killed, rts
<1>13. ASSUME NEW g \in Gens, StdoutEnds(g) PROVE RuntimesOK'
  BY <1>13 DEF StdoutEnds, rts
<1>14. ASSUME NEW g \in Gens, NEW ev \in EventKinds, ReadEvent(g, ev) PROVE RuntimesOK'
  BY <1>14 DEF ReadEvent, Healed, ReaderFrame
<1>15. ASSUME NEW v \in Slots, VerifyTool(v) PROVE RuntimesOK'
  BY <1>15 DEF VerifyTool, VerifierFrame, rts
<1>16. ASSUME NEW v \in Slots, Verifier(v) PROVE RuntimesOK'
  BY <1>16 DEF Verifier, VerifyCheck, VerifyNotify, VerifyWake, VerifyGate,
    VerifierFrame, rts
<1>17. CASE UNCHANGED vars
  BY <1>17 DEF vars, rts
<1>18. QED
  BY <1>1, <1>2, <1>3, <1>4, <1>5, <1>6, <1>7, <1>8, <1>9, <1>10, <1>11, <1>12, <1>13,
    <1>14, <1>15, <1>16, <1>17, <1>8a DEF Next

\* Every step keeps the types of the reader threads.
LEMMA ReadersStep ==
  ASSUME TypeOK, [Next]_vars PROVE ReadersOK'
<1> USE RestTypes DEF TypeOK, ReadersOK
<1>1. CASE Boot
  BY <1>1 DEF Boot, BootSpawnFails, BootSpawn, BootIdentified, BootPrompted,
    BootRpcFails, BootRunning, BootWatch, BootCrashed, BootNotify, BootWake,
    BootFrame, reader
<1>2. CASE AbortStart
  BY <1>2 DEF AbortStart, AbortFrame, reader
<1>3. CASE Abort
  BY <1>3 DEF Abort, AbortKill, AbortSet, AbortNotify, AbortFrame, reader
<1>4. CASE Steer
  BY <1>4 DEF Steer, reader
<1>5. CASE Resume
  BY <1>5 DEF Resume, RecoveryFrame, reader
<1>6. CASE Recovery
  BY <1>6 DEF Recovery, RecoverySpawnFails, RecoverySpawn, RecoveryRejected,
    RecoveryAttach, RecoveryWaiting, RecoveryWatch, RecoveryAborted, RecoveryNotify,
    RecoveryWake, RecoveryGate, RecoveryFrame, reader
<1>7. CASE Crash
  BY <1>7 DEF Crash
<1>8. CASE Restart
  BY <1>8 DEF Restart, reader
<1>8a. CASE RestartAbandoned
  BY <1>8a DEF RestartAbandoned, reader
<1>9. CASE DispatchWake
  BY <1>9 DEF DispatchWake, reader
<1>10. ASSUME NEW g \in Gens, Reader(g) PROVE ReadersOK'
  <2>1. CASE ReaderTransition(g)
    BY <2>1 DEF ReaderTransition
  <2>2. CASE ReaderUpdate(g)
    BY <2>2 DEF ReaderUpdate
  <2>3. CASE ReaderSettled(g)
    BY <2>3 DEF ReaderSettled
  <2>4. QED
    BY <1>10, <2>1, <2>2, <2>3 DEF Reader
<1>11. ASSUME NEW g \in Gens, Watchdog(g) PROVE ReadersOK'
  BY <1>11 DEF Watchdog, TickStart, TickPoll, TickUnresponsive, TickChanged, TickCalm,
    TickToolActive, TickGraceStarts, TickWaiting, TickStalled, TickNotify, TickWake,
    WatchdogFrame, Healed, reader
<1>12. ASSUME NEW g \in Gens, ProcessDies(g) PROVE ReadersOK'
  BY <1>12 DEF ProcessDies, reader
<1>13. ASSUME NEW g \in Gens, StdoutEnds(g) PROVE ReadersOK'
  BY <1>13 DEF StdoutEnds, reader
<1>14. ASSUME NEW g \in Gens, NEW ev \in EventKinds, ReadEvent(g, ev) PROVE ReadersOK'
  <2> DEFINE before == IF exec = "UNRESPONSIVE" THEN Healed(cur) ELSE exec
             new == NewState(ev, before)
             moves == exec \notin Final /\ new # exec
             r == [settled |-> ev = "settled", on |-> cur,
                   new |-> IF moves THEN new ELSE "none"]
             to == IF moves THEN "cas" ELSE "update"
  <2>1. before \in ExecStates
    BY HealedType DEF HostOK, RowOK, ExecStates
  <2>2. new \in ExecStates /\ new # "none"
    BY <2>1 DEF NewState, EventKinds, ExecStates, Resumable, Final
  <2>3. r \in [settled : BOOLEAN, new : ExecStates \cup {"none"}, on : 0..MaxGens]
    BY <2>2 DEF HostOK
  <2>4. to = "cas" => r.new # "none"
    BY <2>2
  <2>5. rd' = [rd EXCEPT ![g] = r] /\ rdPc' = [rdPc EXCEPT ![g] = to]
    BY <1>14 DEF ReadEvent
  <2> HIDE DEF r, to
  <2>6. to \in {"cas", "update"}
    BY DEF to
  <2>7. QED
    BY <2>3, <2>4, <2>5, <2>6
<1>15. ASSUME NEW v \in Slots, VerifyTool(v) PROVE ReadersOK'
  BY <1>15 DEF VerifyTool, VerifierFrame, reader
<1>16. ASSUME NEW v \in Slots, Verifier(v) PROVE ReadersOK'
  BY <1>16 DEF Verifier, VerifyCheck, VerifyNotify, VerifyWake, VerifyGate,
    VerifierFrame, reader
<1>17. CASE UNCHANGED vars
  BY <1>17 DEF vars, reader
<1>18. QED
  BY <1>1, <1>2, <1>3, <1>4, <1>5, <1>6, <1>7, <1>8, <1>9, <1>10, <1>11, <1>12, <1>13,
    <1>14, <1>15, <1>16, <1>17, <1>8a DEF Next

\* Every step keeps the types of the watchdog threads.
LEMMA WatchdogsStep ==
  ASSUME TypeOK, [Next]_vars PROVE WatchdogsOK'
<1> USE RestTypes DEF TypeOK, WatchdogsOK
<1>1. CASE Boot
  BY <1>1 DEF Boot, BootSpawnFails, BootSpawn, BootIdentified, BootPrompted,
    BootRpcFails, BootRunning, BootWatch, BootCrashed, BootNotify, BootWake,
    BootFrame, StartWatchdog
<1>2. CASE AbortStart
  BY <1>2 DEF AbortStart, AbortFrame, watchdog
<1>3. CASE Abort
  BY <1>3 DEF Abort, AbortKill, AbortSet, AbortNotify, AbortFrame, watchdog
<1>4. CASE Steer
  BY <1>4 DEF Steer, watchdog
<1>5. CASE Resume
  BY <1>5 DEF Resume, RecoveryFrame
<1>6. CASE Recovery
  BY <1>6 DEF Recovery, RecoverySpawnFails, RecoverySpawn, RecoveryRejected,
    RecoveryAttach, RecoveryWaiting, RecoveryWatch, RecoveryAborted, RecoveryNotify,
    RecoveryWake, RecoveryGate, RecoveryFrame, StartWatchdog
<1>7. CASE Crash
  BY <1>7 DEF Crash
<1>8. CASE Restart
  BY <1>8 DEF Restart, watchdog
<1>8a. CASE RestartAbandoned
  BY <1>8a DEF RestartAbandoned, watchdog
<1>9. CASE DispatchWake
  BY <1>9 DEF DispatchWake, watchdog
<1>10. ASSUME NEW g \in Gens, Reader(g) PROVE WatchdogsOK'
  BY <1>10 DEF Reader, ReaderTransition, ReaderUpdate, ReaderSettled, ReaderFrame,
    watchdog
<1>11. ASSUME NEW g \in Gens, Watchdog(g) PROVE WatchdogsOK'
  <2>1. CASE TickStart(g)
    <3>1. wdPc' \in {[wdPc EXCEPT ![g] = "exited"], [wdPc EXCEPT ![g] = "poll"]}
      BY <2>1 DEF TickStart, WdLeave, WdGoto
    <3>2. CASE stop[g] \/ exec \in Final
      BY <2>1, <3>1, <3>2 DEF TickStart, WdLeave
    <3>3. CASE ~(stop[g] \/ exec \in Final)
      <4>1. cur \in 0..MaxGens /\ exec \in Resumable
        BY <3>3 DEF RowOK, HostOK, ExecStates
      <4>2. wd' = [wd EXCEPT ![g] = [on |-> cur, current |-> exec]]
        BY <2>1, <3>3 DEF TickStart
      <4>3. QED
        BY <3>1, <4>1, <4>2
    <3>4. QED
      BY <3>2, <3>3
  <2>2. CASE TickPoll(g)
    BY <2>2 DEF TickPoll, WdLeave, WdGoto
  <2>3. CASE TickUnresponsive(g)
    BY <2>3 DEF TickUnresponsive, WdLeave, WdGoto
  <2>4. CASE TickChanged(g)
    BY <2>4 DEF TickChanged, WdLeave, WdGoto
  <2>5. CASE TickCalm(g)
    BY <2>5 DEF TickCalm, WdLeave, WdGoto
  <2>6. CASE TickToolActive(g)
    BY <2>6 DEF TickToolActive, WdLeave, WdGoto
  <2>7. CASE TickGraceStarts(g)
    BY <2>7 DEF TickGraceStarts, WdGoto
  <2>8. CASE TickWaiting(g)
    BY <2>8 DEF TickWaiting, WdLeave, WdGoto
  <2>9. CASE TickStalled(g)
    BY <2>9 DEF TickStalled, WdLeave, WdGoto
  <2>10. CASE TickNotify(g)
    BY <2>10 DEF TickNotify, WdGoto
  <2>11. CASE TickWake(g)
    BY <2>11 DEF TickWake, WdLeave, WdGoto
  <2>12. QED
    BY <1>11, <2>1, <2>2, <2>3, <2>4, <2>5, <2>6, <2>7, <2>8, <2>9, <2>10, <2>11 DEF Watchdog
<1>12. ASSUME NEW g \in Gens, ProcessDies(g) PROVE WatchdogsOK'
  BY <1>12 DEF ProcessDies, watchdog
<1>13. ASSUME NEW g \in Gens, StdoutEnds(g) PROVE WatchdogsOK'
  BY <1>13 DEF StdoutEnds, watchdog
<1>14. ASSUME NEW g \in Gens, NEW ev \in EventKinds, ReadEvent(g, ev) PROVE WatchdogsOK'
  BY <1>14 DEF ReadEvent, ReaderFrame, watchdog
<1>15. ASSUME NEW v \in Slots, VerifyTool(v) PROVE WatchdogsOK'
  BY <1>15 DEF VerifyTool, VerifierFrame, watchdog
<1>16. ASSUME NEW v \in Slots, Verifier(v) PROVE WatchdogsOK'
  BY <1>16 DEF Verifier, VerifyCheck, VerifyNotify, VerifyWake, VerifyGate,
    VerifierFrame, watchdog
<1>17. CASE UNCHANGED vars
  BY <1>17 DEF vars, watchdog
<1>18. QED
  BY <1>1, <1>2, <1>3, <1>4, <1>5, <1>6, <1>7, <1>8, <1>9, <1>10, <1>11, <1>12, <1>13,
    <1>14, <1>15, <1>16, <1>17, <1>8a DEF Next

\* Every step keeps the types of the other threads.
LEMMA ToolsStep ==
  ASSUME TypeOK, [Next]_vars PROVE ToolsOK'
<1> USE GenNumbers DEF TypeOK, HostOK, ToolsOK
<1>1. CASE Boot
  BY <1>1 DEF Boot, BootSpawnFails, BootSpawn, BootIdentified, BootPrompted,
    BootRpcFails, BootRunning, BootWatch, BootCrashed, BootNotify, BootWake,
    BootFrame, mgr, verifier, abort, recovery
<1>2. CASE AbortStart
  BY <1>2 DEF AbortStart, AbortFrame, mgr, verifier, recovery
<1>3. CASE Abort
  BY <1>3 DEF Abort, AbortKill, AbortSet, AbortNotify, AbortFrame, mgr, verifier,
    recovery
<1>4. CASE Steer
  BY <1>4 DEF Steer, mgr, verifier, abort, recovery
<1>5. CASE Resume
  BY <1>5 DEF Resume, Recover, RecoveryFrame, verifier, abort
<1>6. CASE Recovery
  <2>1. CASE RecoverySpawnFails
    BY <2>1 DEF RecoverySpawnFails, RecoveryFrame, verifier, abort
  <2>2. CASE RecoverySpawn
    BY <2>2 DEF RecoverySpawn, RecoveryFrame, verifier, abort
  <2>3. CASE RecoveryRejected
    BY <2>3 DEF RecoveryRejected, RecoveryFrame, verifier, abort
  <2>4. CASE RecoveryAttach
    BY <2>4 DEF RecoveryAttach, RecoveryFrame, verifier, abort
  <2>5. CASE RecoveryWaiting
    BY <2>5 DEF RecoveryWaiting, RecoveryFrame, verifier, abort
  <2>6. CASE RecoveryWatch
    BY <2>6 DEF RecoveryWatch, RecoveryEnds, RecoveryFrame, verifier, abort
  <2>7. CASE RecoveryAborted
    BY <2>7 DEF RecoveryAborted, RecoveryFrame, verifier, abort
  <2>8. CASE RecoveryNotify
    BY <2>8 DEF RecoveryNotify, Announced, RecoveryFrame, verifier, abort
  <2>9. CASE RecoveryWake
    BY <2>9 DEF RecoveryWake, RecoveryEnds, RecoveryFrame, verifier, abort
  <2>10. ASSUME NEW outcome \in Verdicts, RecoveryGate(outcome) PROVE ToolsOK'
    BY <2>10 DEF RecoveryGate, RecoveryFrame, verifier, abort
  <2>11. QED
    BY <1>6, <2>1, <2>2, <2>3, <2>4, <2>5, <2>6, <2>7, <2>8, <2>9, <2>10 DEF Recovery
<1>7. CASE Crash
  BY <1>7 DEF Crash
<1>8. CASE Restart
  BY <1>8 DEF Restart, Recover, verifier, abort
<1>8a. CASE RestartAbandoned
  BY <1>8a DEF RestartAbandoned, verifier, abort, recovery
<1>9. CASE DispatchWake
  BY <1>9 DEF DispatchWake, mgr, verifier, abort, recovery
<1>10. ASSUME NEW g \in Gens, Reader(g) PROVE ToolsOK'
  <2>1. CASE ReaderTransition(g) \/ ReaderUpdate(g)
    BY <2>1 DEF ReaderTransition, ReaderUpdate, verifier, ReaderFrame, mgr, abort, recovery
  <2>2. CASE ReaderSettled(g)
    BY <2>2 DEF ReaderSettled, verifier, ReaderFrame, mgr, abort, recovery
  <2>3. QED
    BY <1>10, <2>1, <2>2 DEF Reader
<1>11. ASSUME NEW g \in Gens, Watchdog(g) PROVE ToolsOK'
  BY <1>11 DEF Watchdog, TickStart, TickPoll, TickUnresponsive, TickChanged, TickCalm,
    TickToolActive, TickGraceStarts, TickWaiting, TickStalled, TickNotify, TickWake,
    WatchdogFrame, mgr, verifier, abort, recovery
<1>12. ASSUME NEW g \in Gens, ProcessDies(g) PROVE ToolsOK'
  BY <1>12 DEF ProcessDies, mgr, verifier, abort, recovery
<1>13. ASSUME NEW g \in Gens, StdoutEnds(g) PROVE ToolsOK'
  BY <1>13 DEF StdoutEnds, mgr, verifier, abort, recovery
<1>14. ASSUME NEW g \in Gens, NEW ev \in EventKinds, ReadEvent(g, ev) PROVE ToolsOK'
  BY <1>14 DEF ReadEvent, verifier, ReaderFrame, mgr, abort, recovery
<1>15. ASSUME NEW v \in Slots, VerifyTool(v) PROVE ToolsOK'
  BY <1>15 DEF VerifyTool, VerifierFrame, mgr, abort, recovery
<1>16. ASSUME NEW v \in Slots, Verifier(v) PROVE ToolsOK'
  BY <1>16 DEF Verifier, VerifyCheck, VerifyNotify, VerifyWake, VerifyGate,
    VerifierFrame, mgr, abort, recovery
<1>17. CASE UNCHANGED vars
  BY <1>17 DEF vars, mgr, verifier, abort, recovery
<1>18. QED
  BY <1>1, <1>2, <1>3, <1>4, <1>5, <1>6, <1>7, <1>8, <1>9, <1>10, <1>11, <1>12, <1>13,
    <1>14, <1>15, <1>16, <1>17, <1>8a DEF Next

\* The inductive step of the type invariant.
LEMMA TypeStep == ASSUME TypeOK, [Next]_vars PROVE TypeOK'
BY RowStep, HostStep, RuntimesStep, ReadersStep, WatchdogsStep, ToolsStep DEF TypeOK

LEMMA InitType == Init => TypeOK
<1> SUFFICES ASSUME Init PROVE TypeOK
  OBVIOUS
<1> USE GenNumbers, RestTypes DEF Init
<1>1. RowOK
  BY DEF RowOK, ExecStates, Resumable, VerifStates
<1>2. HostOK
  BY ConstantsAssumption DEF HostOK
<1>3. RuntimesOK
  BY DEF RuntimesOK
<1>4. ReadersOK
  BY DEF ReadersOK
<1>5. WatchdogsOK
  BY DEF WatchdogsOK
<1>6. ToolsOK
  BY DEF ToolsOK
<1>7. QED
  BY <1>1, <1>2, <1>3, <1>4, <1>5, <1>6 DEF TypeOK

\* The type invariant: whatever the threads of a task interleave, its row and
\* every thread's local state stay well formed.  In particular a remembered
\* pre_unresponsive_state and a tick's reading are never final, so no heal
\* makes a task final.
THEOREM TypeCorrect == Spec => []TypeOK
<1>1. Init => TypeOK
  BY InitType
<1>2. TypeOK /\ [Next]_vars => TypeOK'
  BY TypeStep
<1>3. QED
  BY <1>1, <1>2, PTL DEF Spec
============================================================================
