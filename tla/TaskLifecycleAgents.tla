------------------------ MODULE TaskLifecycleAgents ------------------------
(***************************************************************************)
(* One managed Pi process per session file: proofs about the living        *)
(* processes of TaskLifecycle, for every budget of crashes, aborts,        *)
(* resumes and registry failures.                                          *)
(***************************************************************************)
EXTENDS TaskLifecycleProofs

\* No pi_resume overlapped the task's threads.
Clean == "overlap" \notin seen

\* The thread in charge of the session's process: the boot thread, a recovery,
\* or the threads of the registered runtime.
Owner == IF boot # "off" THEN 1 ELSE IF recPc # "off" THEN recGen ELSE cur

Watching(g) == wdPc[g] \notin {"none", "exited"}

\* A reader has taken in agent_settled and will dispose of the process.
Settling == \E g \in Gens : rdPc[g] = "settle" \/ rd[g].settled

\* A reader makes a task final on agent_settled only.
ReadersSettle ==
  \A g \in Gens : /\ rd[g].settled => rdPc[g] \in {"cas", "update"}
                  /\ rd[g].new \in Final => rd[g].settled

\* The boot thread, the recovery and the watchdogs take turns.
Turns ==
  /\ ~up => boot = "off" /\ recPc = "off" /\ cur = 0
  /\ boot # "off" => /\ cur = 1 /\ gens = 1 /\ recPc = "off" /\ wdPc[1] = "none"
                     /\ boot = "spawn" \/ attached[1]
  /\ recPc \in {"spawn", "state", "waiting", "watch"}
       => recGen = gens /\ wdPc[recGen] = "none"
  /\ recPc \in {"waiting", "watch"} => cur = recGen /\ attached[recGen]
  /\ \A g \in Gens : Watching(g) => /\ cur = g /\ attached[g]
                                    /\ boot = "off" /\ recPc = "off"
  /\ \A g \in Gens : wdPc[g] \in {"poll", "beat", "waiting"} => wd[g].on = g
  /\ \A g \in Gens : g > gens => wdPc[g] = "none" /\ proc[g] = "none"

\* A living process that was not let go of is its owner's, and somebody will
\* notice its end: it is being started, it is watched, or a reader is about to
\* dispose of it.
Attended(g) ==
  /\ Alive(g)
  /\ up
  /\ g = Owner
  /\ boot \in {"off", "state", "prompt", "running", "watch"}
  /\ recPc \in {"off", "state", "waiting", "watch"}
  /\ boot = "off" /\ recPc = "off"
       => attached[g] /\ ((Watching(g) /\ ~stop[g]) \/ Settling)
  /\ boot \in {"off", "watch"} /\ recPc \in {"off", "watch"}
       => exec \notin Final \/ Settling

AgentsInv ==
  /\ ReadersSettle
  /\ Clean => Turns /\ \A g \in Gens \ stray : Lives(g) => Attended(g)

\* Every step keeps what a reader thread holds in hand.
LEMMA ReadersSettleStep ==
  ASSUME TypeOK, ReadersSettle, [Next]_vars PROVE ReadersSettle'
<1> USE DEF TypeOK, ReadersOK, ReadersSettle
<1>1. CASE Boot
  <2>1. CASE BootSpawnFails
    BY <2>1 DEF BootSpawnFails, BootFrame, reader
  <2>2. CASE BootSpawn
    BY <2>2 DEF BootSpawn, BootFrame, reader
  <2>3. CASE BootIdentified
    BY <2>3 DEF BootIdentified, BootFrame, reader
  <2>4. CASE BootPrompted
    BY <2>4 DEF BootPrompted, BootFrame, reader
  <2>5. CASE BootRpcFails
    BY <2>5 DEF BootRpcFails, BootFrame, reader
  <2>6. CASE BootRunning
    BY <2>6 DEF BootRunning, BootFrame, reader
  <2>7. CASE BootWatch
    BY <2>7 DEF BootWatch, BootFrame, reader
  <2>8. CASE BootCrashed
    BY <2>8 DEF BootCrashed, BootFrame, reader
  <2>9. CASE BootNotify
    BY <2>9 DEF BootNotify, BootFrame, reader
  <2>10. CASE BootWake
    BY <2>10 DEF BootWake, BootFrame, reader
  <2>11. QED
    BY <1>1, <2>1, <2>2, <2>3, <2>4, <2>5, <2>6, <2>7, <2>8, <2>9, <2>10 DEF Boot
<1>2. CASE AbortStart
  BY <1>2 DEF AbortStart, AbortFrame, reader
<1>3. CASE Abort
  <2>1. CASE AbortKill
    BY <2>1 DEF AbortKill, AbortFrame, reader
  <2>2. CASE AbortSet
    BY <2>2 DEF AbortSet, AbortFrame, reader
  <2>3. CASE AbortNotify
    BY <2>3 DEF AbortNotify, AbortFrame, reader
  <2>4. QED
    BY <1>3, <2>1, <2>2, <2>3 DEF Abort
<1>4. CASE Steer
  BY <1>4 DEF Steer, reader
<1>5. CASE Resume
  BY <1>5 DEF Resume, Recover, RecoveryFrame, reader
<1>6. CASE Recovery
  <2>1. CASE RecoverySpawnFails
    BY <2>1 DEF RecoverySpawnFails, RecoveryFrame, reader
  <2>2. CASE RecoverySpawn
    BY <2>2 DEF RecoverySpawn, RecoveryFrame, reader
  <2>3. CASE RecoveryRejected
    BY <2>3 DEF RecoveryRejected, RecoveryFrame, reader
  <2>4. CASE RecoveryAttach
    BY <2>4 DEF RecoveryAttach, RecoveryFrame, reader
  <2>5. CASE RecoveryWaiting
    BY <2>5 DEF RecoveryWaiting, RecoveryFrame, reader
  <2>6. CASE RecoveryWatch
    BY <2>6 DEF RecoveryWatch, RecoveryFrame, reader
  <2>7. CASE RecoveryAborted
    BY <2>7 DEF RecoveryAborted, RecoveryFrame, reader
  <2>8. CASE RecoveryNotify
    BY <2>8 DEF RecoveryNotify, RecoveryFrame, reader
  <2>9. CASE RecoveryWake
    BY <2>9 DEF RecoveryWake, RecoveryFrame, reader
  <2>10. ASSUME NEW outcome \in Verdicts, RecoveryGate(outcome) PROVE ReadersSettle'
    BY <2>10 DEF RecoveryGate, RecoveryFrame, reader
  <2>11. QED
    BY <1>6, <2>1, <2>2, <2>3, <2>4, <2>5, <2>6, <2>7, <2>8, <2>9, <2>10 DEF Recovery
<1>7. CASE Crash
  BY <1>7 DEF Crash, NoEvent, Final
<1>8. CASE Restart
  BY <1>8 DEF Restart, Recover, reader
<1>8a. CASE RestartAbandoned
  BY <1>8a DEF RestartAbandoned, reader
<1>9. CASE DispatchWake
  BY <1>9 DEF DispatchWake, reader
<1>10. ASSUME NEW g \in Gens, Reader(g) PROVE ReadersSettle'
  <2>1. CASE ReaderTransition(g)
    BY <2>1 DEF ReaderTransition, ReaderFrame, Final
  <2>2. CASE ReaderUpdate(g)
    BY <2>2 DEF ReaderUpdate, ReaderFrame, NoEvent, Final
  <2>3. CASE ReaderSettled(g)
    BY <2>3 DEF ReaderSettled, ReaderFrame
  <2>4. QED
    BY <1>10, <2>1, <2>2, <2>3 DEF Reader
<1>11. ASSUME NEW g \in Gens, Watchdog(g) PROVE ReadersSettle'
  <2>1. CASE TickStart(g)
    BY <2>1 DEF TickStart, WatchdogFrame, reader
  <2>2. CASE TickPoll(g)
    BY <2>2 DEF TickPoll, WatchdogFrame, reader
  <2>3. CASE TickUnresponsive(g)
    BY <2>3 DEF TickUnresponsive, WatchdogFrame, reader
  <2>4. CASE TickChanged(g)
    BY <2>4 DEF TickChanged, WatchdogFrame, reader
  <2>5. CASE TickCalm(g)
    BY <2>5 DEF TickCalm, WatchdogFrame, reader
  <2>6. CASE TickToolActive(g)
    BY <2>6 DEF TickToolActive, WatchdogFrame, reader
  <2>7. CASE TickGraceStarts(g)
    BY <2>7 DEF TickGraceStarts, WatchdogFrame, reader
  <2>8. CASE TickWaiting(g)
    BY <2>8 DEF TickWaiting, WatchdogFrame, reader
  <2>9. CASE TickStalled(g)
    BY <2>9 DEF TickStalled, WatchdogFrame, reader
  <2>10. CASE TickNotify(g)
    BY <2>10 DEF TickNotify, WatchdogFrame, reader
  <2>11. CASE TickWake(g)
    BY <2>11 DEF TickWake, WatchdogFrame, reader
  <2>12. QED
    BY <1>11, <2>1, <2>2, <2>3, <2>4, <2>5, <2>6, <2>7, <2>8, <2>9, <2>10, <2>11 DEF
      Watchdog
<1>12. ASSUME NEW g \in Gens, ProcessDies(g) PROVE ReadersSettle'
  BY <1>12 DEF ProcessDies, reader
<1>13. ASSUME NEW g \in Gens, StdoutEnds(g) PROVE ReadersSettle'
  BY <1>13 DEF StdoutEnds, reader
<1>14. ASSUME NEW g \in Gens, NEW ev \in EventKinds, ReadEvent(g, ev) PROVE ReadersSettle'
  <2> DEFINE before == IF exec = "UNRESPONSIVE" THEN Healed(cur) ELSE exec
             new == NewState(ev, before)
             moves == exec \notin Final /\ new # exec
             r == [settled |-> ev = "settled", on |-> cur,
                   new |-> IF moves THEN new ELSE "none"]
             to == IF moves THEN "cas" ELSE "update"
  <2>1. exec \notin Final => before \in Resumable
    BY HealedType DEF HostOK, RowOK, ExecStates
  <2>2. r.new \in Final => r.settled
    BY <2>1 DEF NewState, EventKinds, Resumable, Final
  <2>3. to \in {"cas", "update"}
    OBVIOUS
  <2>4. rd' = [rd EXCEPT ![g] = r] /\ rdPc' = [rdPc EXCEPT ![g] = to]
    BY <1>14 DEF ReadEvent
  <2> HIDE DEF r, to
  <2>5. QED
    BY <2>2, <2>3, <2>4
<1>15. ASSUME NEW v \in Slots, VerifyTool(v) PROVE ReadersSettle'
  BY <1>15 DEF VerifyTool, VerifierFrame, reader
<1>16. ASSUME NEW v \in Slots, Verifier(v) PROVE ReadersSettle'
  BY <1>16 DEF Verifier, VerifyCheck, VerifyNotify, VerifyWake, VerifyGate,
    VerifierFrame, reader
<1>17. CASE UNCHANGED vars
  BY <1>17 DEF vars, reader
<1>18. QED
  BY <1>1, <1>2, <1>3, <1>4, <1>5, <1>6, <1>7, <1>8, <1>9, <1>10, <1>11, <1>12, <1>13,
    <1>14, <1>15, <1>16, <1>17, <1>8a DEF Next

\* The history is never cleared of an overlap.
LEMMA CleanStep ==
  ASSUME [Next]_vars, Clean' PROVE Clean
<1> USE DEF Clean, history, Notify, RequestWake
<1>1. CASE Boot
  <2>1. CASE BootSpawnFails
    BY <2>1 DEF BootSpawnFails, BootFrame
  <2>2. CASE BootSpawn
    BY <2>2 DEF BootSpawn, BootFrame
  <2>3. CASE BootIdentified
    BY <2>3 DEF BootIdentified, BootFrame
  <2>4. CASE BootPrompted
    BY <2>4 DEF BootPrompted, BootFrame
  <2>5. CASE BootRpcFails
    BY <2>5 DEF BootRpcFails, BootFrame
  <2>6. CASE BootRunning
    BY <2>6 DEF BootRunning, BootFrame
  <2>7. CASE BootWatch
    BY <2>7 DEF BootWatch, BootFrame
  <2>8. CASE BootCrashed
    BY <2>8 DEF BootCrashed, BootFrame
  <2>9. CASE BootNotify
    BY <2>9 DEF BootNotify, BootFrame
  <2>10. CASE BootWake
    BY <2>10 DEF BootWake, BootFrame
  <2>11. QED
    BY <1>1, <2>1, <2>2, <2>3, <2>4, <2>5, <2>6, <2>7, <2>8, <2>9, <2>10 DEF Boot
<1>2. CASE AbortStart
  BY <1>2 DEF AbortStart, AbortFrame
<1>3. CASE Abort
  <2>1. CASE AbortKill
    BY <2>1 DEF AbortKill, AbortFrame
  <2>2. CASE AbortSet
    BY <2>2 DEF AbortSet, AbortFrame
  <2>3. CASE AbortNotify
    BY <2>3 DEF AbortNotify, AbortFrame
  <2>4. QED
    BY <1>3, <2>1, <2>2, <2>3 DEF Abort
<1>4. CASE Steer
  BY <1>4 DEF Steer
<1>5. CASE Resume
  BY <1>5 DEF Resume, Recover, RecoveryFrame
<1>6. CASE Recovery
  <2>1. CASE RecoverySpawnFails
    BY <2>1 DEF RecoverySpawnFails, RecoveryFrame
  <2>2. CASE RecoverySpawn
    BY <2>2 DEF RecoverySpawn, RecoveryFrame
  <2>3. CASE RecoveryRejected
    BY <2>3 DEF RecoveryRejected, RecoveryFrame
  <2>4. CASE RecoveryAttach
    BY <2>4 DEF RecoveryAttach, RecoveryFrame
  <2>5. CASE RecoveryWaiting
    BY <2>5 DEF RecoveryWaiting, RecoveryFrame
  <2>6. CASE RecoveryWatch
    BY <2>6 DEF RecoveryWatch, RecoveryFrame
  <2>7. CASE RecoveryAborted
    BY <2>7 DEF RecoveryAborted, RecoveryFrame
  <2>8. CASE RecoveryNotify
    BY <2>8 DEF RecoveryNotify, RecoveryFrame
  <2>9. CASE RecoveryWake
    BY <2>9 DEF RecoveryWake, RecoveryFrame
  <2>10. ASSUME NEW outcome \in Verdicts, RecoveryGate(outcome) PROVE Clean
    BY <2>10 DEF RecoveryGate, RecoveryFrame
  <2>11. QED
    BY <1>6, <2>1, <2>2, <2>3, <2>4, <2>5, <2>6, <2>7, <2>8, <2>9, <2>10 DEF Recovery
<1>7. CASE Crash
  BY <1>7 DEF Crash
<1>8. CASE Restart
  BY <1>8 DEF Restart, Recover
<1>8a. CASE RestartAbandoned
  BY <1>8a DEF RestartAbandoned
<1>9. CASE DispatchWake
  BY <1>9 DEF DispatchWake
<1>10. ASSUME NEW g \in Gens, Reader(g) PROVE Clean
  <2>1. CASE ReaderTransition(g)
    BY <2>1 DEF ReaderTransition, ReaderFrame
  <2>2. CASE ReaderUpdate(g)
    BY <2>2 DEF ReaderUpdate, ReaderFrame
  <2>3. CASE ReaderSettled(g)
    BY <2>3 DEF ReaderSettled, ReaderFrame
  <2>4. QED
    BY <1>10, <2>1, <2>2, <2>3 DEF Reader
<1>11. ASSUME NEW g \in Gens, Watchdog(g) PROVE Clean
  <2>1. CASE TickStart(g)
    BY <2>1 DEF TickStart, WatchdogFrame
  <2>2. CASE TickPoll(g)
    BY <2>2 DEF TickPoll, WatchdogFrame
  <2>3. CASE TickUnresponsive(g)
    BY <2>3 DEF TickUnresponsive, WatchdogFrame
  <2>4. CASE TickChanged(g)
    BY <2>4 DEF TickChanged, WatchdogFrame
  <2>5. CASE TickCalm(g)
    BY <2>5 DEF TickCalm, WatchdogFrame
  <2>6. CASE TickToolActive(g)
    BY <2>6 DEF TickToolActive, WatchdogFrame
  <2>7. CASE TickGraceStarts(g)
    BY <2>7 DEF TickGraceStarts, WatchdogFrame
  <2>8. CASE TickWaiting(g)
    BY <2>8 DEF TickWaiting, WatchdogFrame
  <2>9. CASE TickStalled(g)
    BY <2>9 DEF TickStalled, WatchdogFrame
  <2>10. CASE TickNotify(g)
    BY <2>10 DEF TickNotify, WatchdogFrame
  <2>11. CASE TickWake(g)
    BY <2>11 DEF TickWake, WatchdogFrame
  <2>12. QED
    BY <1>11, <2>1, <2>2, <2>3, <2>4, <2>5, <2>6, <2>7, <2>8, <2>9, <2>10, <2>11 DEF
      Watchdog
<1>12. ASSUME NEW g \in Gens, ProcessDies(g) PROVE Clean
  BY <1>12 DEF ProcessDies
<1>13. ASSUME NEW g \in Gens, StdoutEnds(g) PROVE Clean
  BY <1>13 DEF StdoutEnds
<1>14. ASSUME NEW g \in Gens, NEW ev \in EventKinds, ReadEvent(g, ev) PROVE Clean
  BY <1>14 DEF ReadEvent, ReaderFrame
<1>15. ASSUME NEW v \in Slots, VerifyTool(v) PROVE Clean
  BY <1>15 DEF VerifyTool, VerifierFrame
<1>16. ASSUME NEW v \in Slots, Verifier(v) PROVE Clean
  BY <1>16 DEF Verifier, VerifyCheck, VerifyNotify, VerifyWake, VerifyGate,
    VerifierFrame
<1>17. CASE UNCHANGED vars
  BY <1>17 DEF vars
<1>18. QED
  BY <1>1, <1>2, <1>3, <1>4, <1>5, <1>6, <1>7, <1>8, <1>9, <1>10, <1>11, <1>12, <1>13,
    <1>14, <1>15, <1>16, <1>17, <1>8a DEF Next

\* The threads in charge of the task's processes go on taking turns.
LEMMA TurnsStep ==
  ASSUME TypeOK, Clean, Clean', Turns, [Next]_vars PROVE Turns'
<1> USE GenNumbers DEF TypeOK, HostOK, RuntimesOK, WatchdogsOK, ToolsOK, Turns, Watching
<1>1. CASE Boot
  <2>1. CASE BootSpawnFails
    BY <2>1 DEF BootSpawnFails, BootFrame, reader, recovery, mgr
  <2>2. CASE BootSpawn
    BY <2>2 DEF BootSpawn, BootFrame, reader, recovery, mgr, row
  <2>3. CASE BootIdentified
    BY <2>3 DEF BootIdentified, BootFrame, reader, recovery, mgr, rts, row
  <2>4. CASE BootPrompted
    BY <2>4 DEF BootPrompted, BootFrame, reader, recovery, mgr, rts, row
  <2>5. CASE BootRpcFails
    BY <2>5 DEF BootRpcFails, BootFrame, reader, recovery, mgr, rts, row, Alive
  <2>6. CASE BootRunning
    BY <2>6 DEF BootRunning, BootFrame, reader, recovery, mgr, rts
  <2>7. CASE BootWatch
    BY <2>7 DEF BootWatch, BootFrame, reader, recovery, mgr, row, StartWatchdog
  <2>8. CASE BootCrashed
    BY <2>8 DEF BootCrashed, BootFrame, reader, recovery, mgr, rts
  <2>9. CASE BootNotify
    BY <2>9 DEF BootNotify, BootFrame, reader, recovery, mgr, rts
  <2>10. CASE BootWake
    BY <2>10 DEF BootWake, BootFrame, reader, recovery, mgr, rts
  <2>11. QED
    BY <1>1, <2>1, <2>2, <2>3, <2>4, <2>5, <2>6, <2>7, <2>8, <2>9, <2>10 DEF Boot
<1>2. CASE AbortStart
  BY <1>2 DEF AbortStart, AbortFrame, reader, watchdog, recovery, mgr
<1>3. CASE Abort
  <2>1. CASE AbortKill
    BY <2>1 DEF AbortKill, AbortFrame, reader, watchdog, recovery, mgr, Killed, Lives, Alive
  <2>2. CASE AbortSet
    BY <2>2 DEF AbortSet, AbortFrame, reader, watchdog, recovery, mgr, StopWatchdog
  <2>3. CASE AbortNotify
    BY <2>3 DEF AbortNotify, AbortFrame, reader, watchdog, recovery, mgr
  <2>4. QED
    BY <1>3, <2>1, <2>2, <2>3 DEF Abort
<1>4. CASE Steer
  BY <1>4 DEF Steer, row, reader, watchdog, recovery, mgr, rts, Gens, Alive
<1>5. CASE Resume
  <2>1. Quiescent
    BY <1>5 DEF Resume, Clean
  <2>2. \A g \in Gens : ~Watching(g)
    BY <2>1 DEF Quiescent
  <2>3. gens < MaxGens /\ gens + 1 \in Gens
    BY <1>5 DEF Resume
  <2> HIDE DEF Watching
  <2>4. UNCHANGED <<up, boot, attached, proc, wdPc, wd>> /\ (\A g \in Gens : ~Watching(g)')
    BY <1>5, <2>2 DEF Resume, RecoveryFrame, Watching
  <2>5. up /\ boot = "off"
    BY <2>1 DEF Quiescent
  <2>6. \/ UNCHANGED <<recPc, recGen, gens, cur>>
        \/ recPc' = "gate" /\ gens' = gens + 1
        \/ recPc' = "spawn" /\ gens' = gens + 1 /\ recGen' = gens'
    BY <1>5 DEF Resume, Recover
  <2>7. QED
    BY <2>2, <2>3, <2>4, <2>5, <2>6 DEF Gens
<1>6. CASE Recovery
  <2>1. CASE RecoverySpawnFails
    BY <2>1 DEF RecoverySpawnFails, RecoveryFrame, reader, row
  <2>2. CASE RecoverySpawn
    BY <2>2 DEF RecoverySpawn, RecoveryFrame, reader, row
  <2>3. CASE RecoveryRejected
    BY <2>3 DEF RecoveryRejected, RecoveryFrame, reader, row
  <2>4. CASE RecoveryAttach
    BY <2>4 DEF RecoveryAttach, RecoveryFrame, reader, row
  <2>5. CASE RecoveryWaiting
    BY <2>5 DEF RecoveryWaiting, RecoveryFrame, reader
  <2>6. CASE RecoveryWatch
    BY <2>6 DEF RecoveryWatch, RecoveryFrame, reader, RecoveryEnds, StartWatchdog, row
  <2>7. CASE RecoveryAborted
    BY <2>7 DEF RecoveryAborted, RecoveryFrame, reader
  <2>8. CASE RecoveryNotify
    BY <2>8 DEF RecoveryNotify, RecoveryFrame, reader
  <2>9. CASE RecoveryWake
    BY <2>9 DEF RecoveryWake, RecoveryFrame, reader, RecoveryEnds
  <2>10. ASSUME NEW outcome \in Verdicts, RecoveryGate(outcome) PROVE Turns'
    BY <2>10 DEF RecoveryGate, RecoveryFrame, reader
  <2>11. QED
    BY <1>6, <2>1, <2>2, <2>3, <2>4, <2>5, <2>6, <2>7, <2>8, <2>9, <2>10 DEF Recovery
<1>7. CASE Crash
  BY <1>7 DEF Crash, NoEvent, NoTick, Alive
<1>8. CASE Restart
  BY <1>8 DEF Restart, Recover, reader, watchdog, rts, Gens
<1>8a. CASE RestartAbandoned
  BY <1>8a DEF RestartAbandoned, reader, watchdog, rts, recovery, row
<1>9. CASE DispatchWake
  BY <1>9 DEF DispatchWake, reader, watchdog, rts, recovery, mgr
<1>10. ASSUME NEW g \in Gens, Reader(g) PROVE Turns'
  <2>1. CASE ReaderTransition(g)
    BY <2>1 DEF ReaderTransition, ReaderFrame, mgr, watchdog, recovery, rts
  <2>2. CASE ReaderUpdate(g)
    BY <2>2 DEF ReaderUpdate, ReaderFrame, mgr, watchdog, recovery, NoEvent
  <2>3. CASE ReaderSettled(g)
    BY <2>3 DEF ReaderSettled, ReaderFrame, mgr, watchdog, recovery, StopWatchdog,
      Killed, Lives, Alive
  <2>4. QED
    BY <1>10, <2>1, <2>2, <2>3 DEF Reader
<1>11. ASSUME NEW g \in Gens, Watchdog(g) PROVE Turns'
  <2>1. CASE TickStart(g)
    <3>1. /\ wdPc[g] = "loop" /\ wdPc' \in {[wdPc EXCEPT ![g] = "exited"], [wdPc EXCEPT ![g] = "poll"]}
          /\ wdPc' = [wdPc EXCEPT ![g] = "poll"] => wd' = [wd EXCEPT ![g] = [on |-> cur, current |-> exec]]
          /\ \A h \in Gens \ {g} : wd'[h] = wd[h]
      BY <2>1 DEF TickStart, WdGoto, WdLeave
    <3>2. UNCHANGED <<up, cur, gens, boot, recPc, recGen, attached, proc, stop>>
      BY <2>1 DEF TickStart, WatchdogFrame, mgr, recovery
    <3>3. cur = g
      BY <3>1
    <3>4. wdPc'[g] = "poll" => wd'[g].on = g
      BY <3>1, <3>3
    <3>5. QED
      BY <3>1, <3>2, <3>3, <3>4
  <2>2. CASE TickPoll(g)
    <3>1. /\ wdPc[g] = "poll"
          /\ \/ wdPc' = [wdPc EXCEPT ![g] = "nFailed"]
             \/ wdPc' = [wdPc EXCEPT ![g] = "beat"] /\ wd' = wd
          /\ \A h \in Gens \ {g} : wd'[h] = wd[h]
      BY <2>2 DEF TickPoll, WdGoto, WdLeave
    <3>2. UNCHANGED <<up, cur, gens, boot, recPc, recGen, attached, proc>>
      BY <2>2 DEF TickPoll, WatchdogFrame, mgr, recovery
    <3>3. cur = g /\ attached[g] /\ boot = "off" /\ recPc = "off" /\ ~(g > gens)
      BY <3>1
    <3>4. \A h \in Gens : h # g => wdPc'[h] = wdPc[h] /\ wdPc[h] \in {"none", "exited"}
      BY <3>1, <3>3
    <3>5. wdPc'[g] # "waiting" /\ (wdPc'[g] \in {"poll", "beat"} => wd'[g].on = g)
      BY <3>1
    <3>6. \A h \in Gens : wdPc'[h] \notin {"none", "exited"} => h = g
      BY <3>4
    <3>7. \A h \in Gens : h > gens => wdPc'[h] = "none" /\ proc[h] = "none"
      BY <3>3, <3>4
    <3>8. QED
      BY <3>2, <3>3, <3>5, <3>6, <3>7
  <2>3. CASE TickUnresponsive(g)
    BY <2>3 DEF TickUnresponsive, WatchdogFrame, mgr, reader, recovery, WdGoto, WdLeave,
      NoTick
  <2>4. CASE TickChanged(g)
    BY <2>4 DEF TickChanged, WatchdogFrame, mgr, reader, recovery, WdGoto, WdLeave,
      NoTick
  <2>5. CASE TickCalm(g)
    BY <2>5 DEF TickCalm, WatchdogFrame, mgr, reader, recovery, WdGoto, WdLeave, NoTick
  <2>6. CASE TickToolActive(g)
    BY <2>6 DEF TickToolActive, WatchdogFrame, mgr, reader, recovery, WdGoto, WdLeave,
      NoTick, row
  <2>7. CASE TickGraceStarts(g)
    BY <2>7 DEF TickGraceStarts, WatchdogFrame, mgr, reader, recovery, WdGoto, row
  <2>8. CASE TickWaiting(g)
    BY <2>8 DEF TickWaiting, WatchdogFrame, mgr, reader, recovery, WdGoto, WdLeave,
      NoTick
  <2>9. CASE TickStalled(g)
    BY <2>9 DEF TickStalled, WatchdogFrame, mgr, reader, recovery, WdGoto, WdLeave,
      NoTick
  <2>10. CASE TickNotify(g)
    BY <2>10 DEF TickNotify, WatchdogFrame, mgr, reader, recovery, WdGoto
  <2>11. CASE TickWake(g)
    BY <2>11 DEF TickWake, WatchdogFrame, mgr, reader, recovery, WdGoto, WdLeave, NoTick
  <2>12. QED
    BY <1>11, <2>1, <2>2, <2>3, <2>4, <2>5, <2>6, <2>7, <2>8, <2>9, <2>10, <2>11 DEF
      Watchdog
<1>12. ASSUME NEW g \in Gens, ProcessDies(g) PROVE Turns'
  BY <1>12 DEF ProcessDies, row, mgr, rts, reader, watchdog, recovery, Killed,
    Lives, Alive
<1>13. ASSUME NEW g \in Gens, StdoutEnds(g) PROVE Turns'
  BY <1>13 DEF StdoutEnds, row, mgr, rts, reader, watchdog, recovery
<1>14. ASSUME NEW g \in Gens, NEW ev \in EventKinds, ReadEvent(g, ev) PROVE Turns'
  BY <1>14 DEF ReadEvent, ReaderFrame, mgr, watchdog, recovery
<1>15. ASSUME NEW v \in Slots, VerifyTool(v) PROVE Turns'
  BY <1>15 DEF VerifyTool, VerifierFrame, mgr, rts, reader, watchdog, recovery
<1>16. ASSUME NEW v \in Slots, Verifier(v) PROVE Turns'
  BY <1>16 DEF Verifier, VerifyCheck, VerifyNotify, VerifyWake, VerifyGate,
    VerifierFrame, mgr, rts, reader, watchdog, recovery
<1>17. CASE UNCHANGED vars
  BY <1>17 DEF vars, row, mgr, rts, reader, watchdog, recovery
<1>18. QED
  BY <1>1, <1>2, <1>3, <1>4, <1>5, <1>6, <1>7, <1>8, <1>9, <1>10, <1>11, <1>12, <1>13,
    <1>14, <1>15, <1>16, <1>17, <1>8a DEF Next

\* A living process stays in somebody's charge until it is let go of.
LEMMA AttendedStep ==
  ASSUME TypeOK, ReadersSettle, Clean, Clean', Turns, Turns', [Next]_vars,
         \A x \in Gens \ stray : Lives(x) => Attended(x),
         NEW p \in Gens, p \notin stray', Lives(p)'
  PROVE  Attended(p)'
<1> USE GenNumbers DEF TypeOK, RowOK, HostOK, RuntimesOK, ReadersOK, WatchdogsOK, ToolsOK,
  Turns, Attended, Owner, Watching, Settling, Alive, Lives, history
<1>1. CASE Boot
  <2>1. CASE BootSpawnFails
    BY <2>1 DEF BootSpawnFails, BootFrame, reader, recovery, mgr
  <2>2. CASE BootSpawn
    BY <2>2 DEF BootSpawn, BootFrame, reader, recovery, mgr, row
  <2>3. CASE BootIdentified
    BY <2>3 DEF BootIdentified, BootFrame, reader, recovery, mgr, rts, row
  <2>4. CASE BootPrompted
    BY <2>4 DEF BootPrompted, BootFrame, reader, recovery, mgr, rts, row
  <2>5. CASE BootRpcFails
    <3>1. p # 1
      BY <2>5 DEF BootRpcFails, LetGo
    <3>2. p \notin stray /\ proc'[p] = proc[p]
      BY <2>5, <3>1 DEF BootRpcFails, LetGo
    <3>3. QED
      BY <2>5, <3>1, <3>2 DEF BootRpcFails
  <2>6. CASE BootRunning
    BY <2>6 DEF BootRunning, BootFrame, reader, recovery, mgr, rts, Final
  <2>7. CASE BootWatch
    BY <2>7 DEF BootWatch, BootFrame, reader, recovery, mgr, row, StartWatchdog
  <2>8. CASE BootCrashed
    BY <2>8 DEF BootCrashed, BootFrame, reader, recovery, mgr, rts
  <2>9. CASE BootNotify
    BY <2>9 DEF BootNotify, BootFrame, reader, recovery, mgr, rts
  <2>10. CASE BootWake
    BY <2>10 DEF BootWake, BootFrame, reader, recovery, mgr, rts
  <2>11. QED
    BY <1>1, <2>1, <2>2, <2>3, <2>4, <2>5, <2>6, <2>7, <2>8, <2>9, <2>10 DEF Boot
<1>2. CASE AbortStart
  BY <1>2 DEF AbortStart, AbortFrame, reader, watchdog, recovery, mgr
<1>3. CASE Abort
  <2>1. CASE AbortKill
    BY <2>1 DEF AbortKill, AbortFrame, reader, watchdog, recovery, mgr, Killed
  <2>2. CASE AbortSet
    <3>1. Attended(p)
      BY <2>2 DEF AbortSet, LetGo
    <3>2. p # cur
      BY <2>2, <3>1 DEF AbortSet, LetGo
    <3>3. boot = "off" /\ recPc = "state"
      BY <3>1, <3>2
    <3>4. QED
      BY <2>2, <3>1, <3>3 DEF AbortSet, AbortFrame, mgr, recovery
  <2>3. CASE AbortNotify
    BY <2>3 DEF AbortNotify, AbortFrame, reader, watchdog, recovery, mgr
  <2>4. QED
    BY <1>3, <2>1, <2>2, <2>3 DEF Abort
<1>4. CASE Steer
  BY <1>4 DEF Steer, row, reader, watchdog, recovery, mgr, rts
<1>5. CASE Resume
  <2>1. Quiescent
    BY <1>5 DEF Resume, Clean
  <2>2. Attended(p)
    BY <1>5 DEF Resume
  <2>3. ~Settling /\ ~Watching(p)
    BY <2>1 DEF Quiescent, ReadersSettle
  <2>4. QED
    BY <2>1, <2>2, <2>3 DEF Quiescent
<1>6. CASE Recovery
  <2>1. CASE RecoverySpawnFails
    BY <2>1 DEF RecoverySpawnFails, RecoveryFrame, reader, row
  <2>2. CASE RecoverySpawn
    BY <2>2 DEF RecoverySpawn, RecoveryFrame, reader, row
  <2>3. CASE RecoveryRejected
    <3>1. Attended(p)
      BY <2>3 DEF RecoveryRejected, LetGo
    <3>2. p # recGen
      BY <2>3, <3>1 DEF RecoveryRejected, LetGo
    <3>3. QED
      BY <2>3, <3>1, <3>2 DEF RecoveryRejected
  <2>4. CASE RecoveryAttach
    BY <2>4 DEF RecoveryAttach, RecoveryFrame, reader, row
  <2>5. CASE RecoveryWaiting
    BY <2>5 DEF RecoveryWaiting, RecoveryFrame, reader, Final
  <2>6. CASE RecoveryWatch
    <3>1. Attended(p)
      BY <2>6 DEF RecoveryWatch
    <3>2. p = cur /\ attached[p] /\ wdPc[cur] = "none" /\ cur # 0 /\ boot = "off"
      BY <2>6, <3>1 DEF RecoveryWatch, Gens
    <3>3. wdPc'[p] = "loop" /\ ~stop'[p]
      BY <2>6, <3>2 DEF RecoveryWatch, StartWatchdog
    <3>4. exec' \notin Final \/ Settling'
      BY <2>6, <3>1, <3>2 DEF RecoveryWatch, RecoveryFrame, row, reader
    <3>5. UNCHANGED <<up, boot, cur, attached, proc>> /\ recPc' = "off"
      BY <2>6 DEF RecoveryWatch, RecoveryEnds, RecoveryFrame
    <3>6. QED
      BY <3>1, <3>2, <3>3, <3>4, <3>5
  <2>7. CASE RecoveryAborted
    BY <2>7 DEF RecoveryAborted, RecoveryFrame, reader
  <2>8. CASE RecoveryNotify
    BY <2>8 DEF RecoveryNotify, RecoveryFrame, reader
  <2>9. CASE RecoveryWake
    BY <2>9 DEF RecoveryWake, RecoveryFrame, reader, RecoveryEnds
  <2>10. ASSUME NEW outcome \in Verdicts, RecoveryGate(outcome) PROVE Attended(p)'
    BY <2>10 DEF RecoveryGate, RecoveryFrame, reader
  <2>11. QED
    BY <1>6, <2>1, <2>2, <2>3, <2>4, <2>5, <2>6, <2>7, <2>8, <2>9, <2>10 DEF Recovery
<1>7. CASE Crash
  BY <1>7 DEF Crash, NoEvent, NoTick
<1>8. CASE Restart
  BY <1>8 DEF Restart, Recover, reader, watchdog, rts
<1>8a. CASE RestartAbandoned
  BY <1>8a DEF RestartAbandoned, reader, watchdog, rts, recovery, row
<1>9. CASE DispatchWake
  BY <1>9 DEF DispatchWake, reader, watchdog, rts, recovery, mgr
<1>10. ASSUME NEW g \in Gens, Reader(g) PROVE Attended(p)'
  <2>1. CASE ReaderTransition(g)
    <3>1. Attended(p)
      BY <2>1 DEF ReaderTransition, ReaderFrame
    <3>2. rd'[g].settled = rd[g].settled /\ (\A h \in Gens \ {g} : rd'[h] = rd[h] /\ rdPc'[h] = rdPc[h])
      BY <2>1 DEF ReaderTransition
    <3>3. Settling => Settling'
      BY <2>1, <3>2 DEF ReaderTransition
    <3>4. exec' \in Final => exec \in Final \/ Settling'
      BY <2>1, <3>2 DEF ReaderTransition, MayTransition, ReadersSettle
    <3> HIDE DEF Settling
    <3>5. QED
      BY <2>1, <3>1, <3>3, <3>4 DEF ReaderTransition, ReaderFrame, mgr, rts, watchdog, recovery
  <2>2. CASE ReaderUpdate(g)
    BY <2>2 DEF ReaderUpdate, ReaderFrame, mgr, watchdog, recovery, NoEvent
  <2>3. CASE ReaderSettled(g)
    <3>1. proc'[p] = proc[p] /\ ~(p = cur /\ attached[p])
      BY <2>3 DEF ReaderSettled, Killed, Alive, Lives
    <3>2. Attended(p)
      BY <2>3, <3>1 DEF ReaderSettled, ReaderFrame
    <3>3. boot = "off" /\ recPc = "state"
      BY <3>1, <3>2
    <3>4. QED
      BY <2>3, <3>1, <3>2, <3>3 DEF ReaderSettled, ReaderFrame, mgr, recovery
  <2>4. QED
    BY <1>10, <2>1, <2>2, <2>3 DEF Reader
<1>11. ASSUME NEW g \in Gens, Watchdog(g) PROVE Attended(p)'
  <2>1. CASE TickStart(g)
    BY <2>1 DEF TickStart, WatchdogFrame, mgr, reader, recovery, WdGoto, WdLeave,
      NoTick, row
  <2>2. CASE TickPoll(g)
    <3>1. UNCHANGED <<up, cur, boot, recPc, recGen, attached, stop, proc, rdPc, rd,
                    stray>>
      BY <2>2 DEF TickPoll, WatchdogFrame, mgr, reader, recovery
    <3>2. cur = g /\ wd[g].on = g /\ boot = "off" /\ recPc = "off"
      BY <2>2 DEF TickPoll
    <3>3. Attended(p) /\ p = g
      BY <3>1, <3>2
    <3>4. exec' = exec /\ wdPc' = [wdPc EXCEPT ![g] = "beat"]
      BY <2>2, <3>1, <3>2, <3>3 DEF TickPoll, WdGoto, ProcessExited, Exited
    <3>5. QED
      BY <3>1, <3>3, <3>4
  <2>3. CASE TickUnresponsive(g)
    BY <2>3 DEF TickUnresponsive, WatchdogFrame, mgr, reader, recovery, WdGoto, WdLeave,
      NoTick, Final
  <2>4. CASE TickChanged(g)
    <3>1. Healed(wd[g].on) \in Resumable
      BY HealedType
    <3>2. exec' \notin Final \/ exec' = exec
      BY <2>4, <3>1 DEF TickChanged, Final, Resumable
    <3>3. QED
      BY <2>4, <3>2 DEF TickChanged, WatchdogFrame, mgr, reader, recovery, WdLeave, WdGoto
  <2>5. CASE TickCalm(g)
    BY <2>5 DEF TickCalm, WatchdogFrame, mgr, reader, recovery, WdGoto, WdLeave, NoTick,
      Final
  <2>6. CASE TickToolActive(g)
    BY <2>6 DEF TickToolActive, WatchdogFrame, mgr, reader, recovery, WdGoto, WdLeave,
      NoTick, row
  <2>7. CASE TickGraceStarts(g)
    BY <2>7 DEF TickGraceStarts, WatchdogFrame, mgr, reader, recovery, WdGoto, row
  <2>8. CASE TickWaiting(g)
    BY <2>8 DEF TickWaiting, WatchdogFrame, mgr, reader, recovery, WdGoto, WdLeave,
      NoTick, Final
  <2>9. CASE TickStalled(g)
    BY <2>9 DEF TickStalled, WatchdogFrame, mgr, reader, recovery, WdGoto, WdLeave,
      NoTick, Final
  <2>10. CASE TickNotify(g)
    BY <2>10 DEF TickNotify, WatchdogFrame, mgr, reader, recovery, WdGoto
  <2>11. CASE TickWake(g)
    BY <2>11 DEF TickWake, WatchdogFrame, mgr, reader, recovery, WdGoto, WdLeave, NoTick
  <2>12. QED
    BY <1>11, <2>1, <2>2, <2>3, <2>4, <2>5, <2>6, <2>7, <2>8, <2>9, <2>10, <2>11 DEF
      Watchdog
<1>12. ASSUME NEW g \in Gens, ProcessDies(g) PROVE Attended(p)'
  BY <1>12 DEF ProcessDies, row, mgr, rts, reader, watchdog, recovery, Killed
<1>13. ASSUME NEW g \in Gens, StdoutEnds(g) PROVE Attended(p)'
  BY <1>13 DEF StdoutEnds, row, mgr, rts, reader, watchdog, recovery
<1>14. ASSUME NEW g \in Gens, NEW ev \in EventKinds, ReadEvent(g, ev) PROVE Attended(p)'
  <2>1. p \notin stray /\ Lives(p) /\ (Alive(p) => Alive(p)')
    BY <1>14 DEF ReadEvent, ReaderFrame
  <2>2. ASSUME Settling PROVE Settling'
    <3>1. PICK h \in Gens : rdPc[h] = "settle" \/ rd[h].settled
      BY <2>2
    <3>2. h # g
      BY <1>14, <3>1 DEF ReadEvent, ReadersSettle
    <3>3. rdPc'[h] = rdPc[h] /\ rd'[h] = rd[h]
      BY <1>14, <3>2 DEF ReadEvent
    <3>4. rdPc'[h] = "settle" \/ rd'[h].settled
      BY <3>1, <3>3
    <3>5. QED
      BY <3>4
  <2> HIDE DEF Settling
  <2>3. QED
    BY <1>14, <2>1, <2>2 DEF ReadEvent, ReaderFrame, mgr, watchdog, recovery
<1>15. ASSUME NEW v \in Slots, VerifyTool(v) PROVE Attended(p)'
  BY <1>15 DEF VerifyTool, VerifierFrame, mgr, rts, reader, watchdog, recovery
<1>16. ASSUME NEW v \in Slots, Verifier(v) PROVE Attended(p)'
  BY <1>16 DEF Verifier, VerifyCheck, VerifyNotify, VerifyWake, VerifyGate,
    VerifierFrame, mgr, rts, reader, watchdog, recovery
<1>17. CASE UNCHANGED vars
  BY <1>17 DEF vars, row, mgr, rts, reader, watchdog, recovery
<1>18. QED
  BY <1>1, <1>2, <1>3, <1>4, <1>5, <1>6, <1>7, <1>8, <1>9, <1>10, <1>11, <1>12, <1>13,
    <1>14, <1>15, <1>16, <1>17, <1>8a DEF Next

LEMMA InitAgents == Init => AgentsInv
BY GenNumbers DEF Init, AgentsInv, ReadersSettle, Turns, Watching, Alive, Lives, NoEvent,
  NoTick, Final

\* The inductive step.
LEMMA AgentsStep ==
  ASSUME TypeOK, AgentsInv, [Next]_vars PROVE AgentsInv'
<1>1. ReadersSettle'
  BY ReadersSettleStep DEF AgentsInv
<1>2. ASSUME Clean'
      PROVE  Turns' /\ \A p \in Gens : p \notin stray' /\ Lives(p)' => Attended(p)'
  <2>1. Clean
    BY <1>2, CleanStep
  <2>2. Turns'
    BY <1>2, <2>1, TurnsStep DEF AgentsInv
  <2>3. QED
    BY <1>2, <2>1, <2>2, AttendedStep DEF AgentsInv
<1>3. QED
  BY <1>1, <1>2 DEF AgentsInv

\* The manager answers for at most one living Pi process on the task's session
\* file, whatever the interleaving of the boot thread, readers, watchdogs,
\* aborts, crashes and recoveries: any other agent there was let go of alive, by
\* the death of the host, by a SIGTERM that nobody waited for, or by an abort
\* that looked too early - as long as no pi_resume overlapped the task's threads.
THEOREM OneManagedAgent == Spec => []SecondAgentIsStray
<1>1. Init => TypeOK /\ AgentsInv
  BY InitType, InitAgents
<1>2. TypeOK /\ AgentsInv /\ [Next]_vars => TypeOK' /\ AgentsInv'
  BY TypeStep, AgentsStep
<1>3. AgentsInv => SecondAgentIsStray
  BY DEF AgentsInv, Clean, Attended, SecondAgentIsStray
<1>4. QED
  BY <1>1, <1>2, <1>3, PTL DEF Spec
============================================================================
