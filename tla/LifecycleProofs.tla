--------------------------- MODULE LifecycleProofs ---------------------------
(***************************************************************************)
(* Theorems about Lifecycle, for any number of commands, servers, pids and *)
(* ports.                                                                  *)
(***************************************************************************)
EXTENDS LifecycleRefinement, TLAPS

-----------------------------------------------------------------------------
(* The type invariant *)

LEMMA TypeInit == Init => TypeOK
  BY ConstantsAssumption
  DEF Init, TypeOK, ServerPc, Op, Step, Outcome, NoWant, NoSight, Sight

LEMMA ServerTypeStep ==
  ASSUME TypeOK, NEW s \in Server,
         LaunchForeground(s) \/ ServerProgress(s) \/ FinishRequest(s)
         \/ Interrupt(s) \/ CrashServer(s)
  PROVE  TypeOK'
  <1> USE DEF TypeOK, ServerPc, ServerGoes, clientVars, fileVars
  <1>1. CASE LaunchForeground(s)  BY <1>1 DEF LaunchForeground, Spawned
  <1>2. CASE TakeHome(s)  BY <1>2 DEF TakeHome
  <1>3. CASE ClearFiles(s)  BY <1>3 DEF ClearFiles
  <1>4. CASE WriteSecret(s)  BY <1>4 DEF WriteSecret
  <1>5. CASE Listen(s)  BY <1>5 DEF Listen
  <1>6. CASE Publish(s)  BY <1>6 DEF Publish
  <1>7. CASE Drained(s)  BY <1>7 DEF Drained
  <1>8. CASE RemoveOwnFiles(s)  BY <1>8 DEF RemoveOwnFiles
  <1>9. CASE UnlockHome(s)  BY <1>9 DEF UnlockHome
  <1>10. CASE Leave(s)  BY <1>10 DEF Leave, Dies
  <1>11. CASE FinishRequest(s)  BY <1>11 DEF FinishRequest
  <1>12. CASE Interrupt(s)  BY <1>12 DEF Interrupt, BeginsDraining
  <1>13. CASE CrashServer(s)  BY <1>13 DEF CrashServer, Dies
  <1>14. QED
    BY <1>1, <1>2, <1>3, <1>4, <1>5, <1>6, <1>7, <1>8, <1>9, <1>10, <1>11,
       <1>12, <1>13 DEF ServerProgress

ClientTypeOK ==
    /\ op \in [Client -> Op]
    /\ step \in [Client -> Step]
    /\ want \in [Client -> [port : Port \cup {None}, explicit : BOOLEAN]]
    /\ child \in [Client -> Server \cup {None}]
    /\ seen \in [Client -> Sight]

SharedTypeOK ==
    /\ spc \in [Server -> ServerPc]
    /\ pid \in [Server -> Pid \cup {None}]
    /\ portOf \in [Server -> Port \cup {None}]
    /\ writing \in SUBSET Server
    /\ bound \in [Port -> Server \cup {None, Foreign}]
    /\ alien \in SUBSET Pid
    /\ record \in Server \cup {None, Corrupt}
    /\ secret \in Server \cup {None}
    /\ homeLock \in Client \cup Server \cup {None}
    /\ startLock \in Client \cup {None}

\* The four ways in which a command moves keep the types of its state.
LEMMA GoesType ==
  ASSUME ClientTypeOK, NEW c \in Client, NEW to \in Step, Goes(c, to)
  PROVE  ClientTypeOK'
  BY DEF ClientTypeOK, Goes

LEMMA LooksType ==
  ASSUME ClientTypeOK, NEW c \in Client, NEW sight \in Sight, NEW to \in Step,
         Looks(c, sight, to)
  PROVE  ClientTypeOK'
  BY DEF ClientTypeOK, Looks

LEMMA TurnsType ==
  ASSUME ClientTypeOK, NEW c \in Client, NEW o \in Op, NEW to \in Step,
         Turns(c, o, to)
  PROVE  ClientTypeOK'
  BY DEF ClientTypeOK, Turns

LEMMA EndsType ==
  ASSUME ClientTypeOK, NEW c \in Client, NEW outcome \in Outcome,
         Ends(c, outcome)
  PROVE  ClientTypeOK'
  <1>1. "idle" \in Op /\ outcome \in Step /\ NoSight \in Sight
        /\ NoWant \in [port : Port \cup {None}, explicit : BOOLEAN]
    BY DEF Op, Step, NoSight, Sight, NoWant
  <1>2. QED
    BY <1>1 DEF ClientTypeOK, Ends

LEMMA ClientTypeStep ==
  ASSUME TypeOK, NEW c \in Client,
         Begin(c) \/ Inspects(c) \/ Starts(c) \/ Stops(c) \/ Writes(c)
         \/ CrashClient(c)
  PROVE  ClientTypeOK'
  <1>a. ClientTypeOK /\ seen[c] \in Sight
    BY DEF TypeOK, ClientTypeOK
  <1>b. /\ "start" \in Op /\ "busyStart" \in Op /\ "await" \in Op
        /\ "stop" \in Op /\ "write" \in Op /\ "rewrite" \in Op
    BY DEF Op
  <1>c. /\ "lock" \in Step /\ "record" \in Step /\ "secret" \in Step
        /\ "probe" \in Step /\ "decide" \in Step /\ "port" \in Step
        /\ "spawn" \in Step /\ "shutdown" \in Step /\ "identify" \in Step
        /\ "terminate" \in Step /\ "waitGone" \in Step
        /\ "clearStart" \in Step /\ "clearHome" \in Step
        /\ "clearFiles" \in Step /\ "clearUnlock" \in Step
        /\ "home" \in Step /\ "write" \in Step /\ "put" \in Step
    BY DEF Step
  <1>d. /\ "none" \in Outcome /\ "started" \in Outcome
        /\ "already" \in Outcome /\ "failed" \in Outcome
        /\ "stopped" \in Outcome /\ "notRunning" \in Outcome
        /\ "unconfirmed" \in Outcome /\ "done" \in Outcome
    BY DEF Outcome
  <1>1. CASE Begin(c)
    <2>1. CASE Turns(c, "stop", "record") \/ Turns(c, "write", "record")
      BY <2>1, <1>a, <1>b, <1>c, TurnsType
    <2>2. ASSUME NEW choice \in PortChoice,
                 want' = [want EXCEPT ![c] = choice],
                 op' = [op EXCEPT ![c] = "start"],
                 step' = [step EXCEPT ![c] = "lock"],
                 UNCHANGED <<child, seen>>
          PROVE  ClientTypeOK'
      <3>1. choice \in [port : Port \cup {None}, explicit : BOOLEAN]
        BY ConstantsAssumption
      <3>2. QED
        BY <2>2, <3>1, <1>a, <1>b, <1>c DEF ClientTypeOK
    <2>3. QED
      BY <1>1, <2>1, <2>2 DEF Begin
  <1>2. CASE ReadRecord(c)
    <2> DEFINE sight == [NoSight EXCEPT !.record = record]
               to == IF record \in Server THEN "secret" ELSE "decide"
    <2>1. record \in Server \cup {None, Corrupt}
      BY DEF TypeOK
    <2>2. sight \in Sight
      BY <2>1 DEF NoSight, Sight
    <2>3. to \in Step
      BY <1>c
    <2>4. Looks(c, sight, to)
      BY <1>2 DEF ReadRecord
    <2> HIDE DEF sight, to
    <2>5. QED
      BY <2>2, <2>3, <2>4, <1>a, LooksType
  <1>3. CASE ReadSecret(c)
    BY <1>3, <1>a, <1>c, <1>d, LooksType, GoesType, EndsType
    DEF ReadSecret, NoSight, Sight, TypeOK
  <1>4. CASE Probe(c)
    BY <1>4, <1>a, <1>c, <1>d, LooksType, GoesType, EndsType
    DEF Probe, NoSight, Sight, TypeOK
  <1>5. CASE LockStart(c)
    BY <1>5, <1>a, <1>b, <1>c, <1>d, GoesType, EndsType, TurnsType
    DEF LockStart
  <1>6. CASE FindRunning(c)
    BY <1>6, <1>a, <1>b, <1>c, <1>d, GoesType, EndsType, TurnsType
    DEF FindRunning
  <1>7. CASE CheckPort(c)
    BY <1>7, <1>a, <1>b, <1>c, <1>d, GoesType, EndsType, TurnsType
    DEF CheckPort
  <1>8. CASE Spawn(c)
    BY <1>8, <1>a, <1>b, <1>c DEF Spawn, ClientTypeOK
  <1>9. CASE SpawnFails(c)
    BY <1>9, <1>a, <1>b, <1>c, <1>d, GoesType, EndsType, TurnsType
    DEF SpawnFails
  <1>10. CASE Tick(c)
    BY <1>10, <1>a, <1>b, <1>c, <1>d, GoesType, EndsType, TurnsType
    DEF Tick
  <1>11. CASE ChildExited(c)
    BY <1>11, <1>a, <1>b, <1>c, <1>d, GoesType, EndsType, TurnsType
    DEF ChildExited
  <1>12. CASE GiveUp(c)
    BY <1>12, <1>a, <1>b, <1>c, <1>d, GoesType, EndsType, TurnsType
    DEF GiveUp
  <1>13. CASE DecideStop(c)
    BY <1>13, <1>a, <1>b, <1>c, <1>d, GoesType, EndsType, TurnsType
    DEF DecideStop
  <1>14. CASE RequestShutdown(c)
    BY <1>14, <1>a, <1>b, <1>c, <1>d, GoesType, EndsType, TurnsType
    DEF RequestShutdown
  <1>15. CASE Identify(c)
    BY <1>15, <1>a, <1>c, <1>d, LooksType, GoesType, EndsType
    DEF Identify, NoSight, Sight, TypeOK
  <1>16. CASE Terminate(c)
    BY <1>16, <1>a, <1>c, <1>d, LooksType, GoesType, EndsType
    DEF Terminate, NoSight, Sight, TypeOK
  <1>17. CASE WaitGone(c)
    BY <1>17, <1>a, <1>b, <1>c, <1>d, GoesType, EndsType, TurnsType
    DEF WaitGone
  <1>18. CASE ClearTakesStart(c)
    BY <1>18, <1>a, <1>b, <1>c, <1>d, GoesType, EndsType, TurnsType
    DEF ClearTakesStart, StopOutcome
  <1>19. CASE ClearTakesHome(c)
    BY <1>19, <1>a, <1>b, <1>c, <1>d, GoesType, EndsType, TurnsType
    DEF ClearTakesHome, StopOutcome
  <1>20. CASE ClearRemoves(c)
    BY <1>20, <1>a, <1>b, <1>c, <1>d, GoesType, EndsType, TurnsType
    DEF ClearRemoves
  <1>21. CASE ClearUnlocks(c)
    BY <1>21, <1>a, <1>b, <1>c, <1>d, GoesType, EndsType, TurnsType
    DEF ClearUnlocks, StopOutcome
  <1>22. CASE DecideWrite(c)
    BY <1>22, <1>a, <1>b, <1>c, <1>d, GoesType, EndsType, TurnsType
    DEF DecideWrite
  <1>23. CASE PutConfig(c)
    BY <1>23, <1>a, <1>b, <1>c, <1>d, GoesType, EndsType, TurnsType
    DEF PutConfig
  <1>24. CASE WriteTakesStart(c)
    BY <1>24, <1>a, <1>b, <1>c, <1>d, GoesType, EndsType, TurnsType
    DEF WriteTakesStart
  <1>25. CASE WriteTakesHome(c)
    BY <1>25, <1>a, <1>b, <1>c, <1>d, GoesType, EndsType, TurnsType
    DEF WriteTakesHome
  <1>26. CASE WriteEnds(c)
    BY <1>26, <1>a, <1>b, <1>c, <1>d, GoesType, EndsType, TurnsType
    DEF WriteEnds
  <1>27. CASE CrashClient(c)
    BY <1>27, <1>a, <1>b, <1>c, <1>d, GoesType, EndsType, TurnsType
    DEF CrashClient
  <1>28. QED
    BY <1>1, <1>2, <1>3, <1>4, <1>5, <1>6, <1>7, <1>8, <1>9, <1>10, <1>11,
       <1>12, <1>13, <1>14, <1>15, <1>16, <1>17, <1>18, <1>19, <1>20, <1>21,
       <1>22, <1>23, <1>24, <1>25, <1>26, <1>27
       DEF Inspects, Starts, Stops, Writes

LEMMA SharedTypeStep ==
  ASSUME TypeOK, Knowledge, NEW c \in Client,
         Begin(c) \/ Inspects(c) \/ Starts(c) \/ Stops(c) \/ Writes(c)
         \/ CrashClient(c)
  PROVE  SharedTypeOK'
  <1> USE DEF SharedTypeOK, TypeOK, serverVars, fileVars
  <1>1. CASE Begin(c) \/ Inspects(c)
    BY <1>1 DEF Begin, Inspects, ReadRecord, ReadSecret, Probe
  <1>2. CASE LockStart(c) \/ FindRunning(c) \/ CheckPort(c) \/ SpawnFails(c)
             \/ Tick(c) \/ ChildExited(c)
    BY <1>2 DEF LockStart, FindRunning, CheckPort, SpawnFails, Tick,
                ChildExited, DropLocks, KeepLocks
  <1>3. CASE Spawn(c)
    BY <1>3 DEF Spawn, Spawned, ServerPc
  <1>4. CASE GiveUp(c)
    BY <1>4 DEF GiveUp, Dies, ServerPc
  <1>5. CASE DecideStop(c) \/ Identify(c) \/ WaitGone(c)
    BY <1>5 DEF DecideStop, Identify, WaitGone
  <1>6. CASE RequestShutdown(c)
    BY <1>6 DEF RequestShutdown, BeginsDraining, ServerPc
  <1>7. CASE Terminate(c)
    BY <1>7 DEF Terminate, Dies, BeginsDraining, ServerPc
  <1>8. CASE ClearTakesStart(c) \/ ClearTakesHome(c) \/ ClearRemoves(c)
             \/ ClearUnlocks(c)
    BY <1>8 DEF ClearTakesStart, ClearTakesHome, ClearRemoves, ClearUnlocks,
                DropLocks
  <1>9. CASE Writes(c) \/ CrashClient(c)
    BY <1>9
    DEF Writes, DecideWrite, PutConfig, WriteTakesStart, WriteTakesHome,
        WriteEnds, CrashClient, DropLocks, Knowledge
  <1>10. QED
    BY <1>1, <1>2, <1>3, <1>4, <1>5, <1>6, <1>7, <1>8, <1>9 DEF Starts, Stops

LEMMA TypeNext == TypeOK /\ Knowledge /\ [Next]_vars => TypeOK'
  <1> SUFFICES ASSUME TypeOK, Knowledge, [Next]_vars PROVE TypeOK'
    OBVIOUS
  <1>1. ASSUME NEW p \in Pid, OtherProcess(p) PROVE TypeOK'
    BY <1>1 DEF OtherProcess, TypeOK, serverVars, fileVars, clientVars
  <1>2. ASSUME NEW p \in Port, OtherListener(p) PROVE TypeOK'
    BY <1>2 DEF OtherListener, TypeOK, fileVars, clientVars
  <1>3. CASE UNCHANGED vars
    BY <1>3 DEF TypeOK, vars, serverVars, fileVars, clientVars
  <1>4. QED
    BY <1>1, <1>2, <1>3, ServerTypeStep, ClientTypeStep, SharedTypeStep
    DEF Next, TypeOK, ClientTypeOK, SharedTypeOK

LEMMA ControlServer ==
  ASSUME IInv, NEW s \in Server,
         LaunchForeground(s) \/ ServerProgress(s) \/ FinishRequest(s)
         \/ Interrupt(s) \/ CrashServer(s)
  PROVE  Control'
  <1> USE ConstantsAssumption
      DEF IInv, TypeOK, Control, InspectStep, ClearStep, Outcome,
          ServerGoes, Goes, Looks, Turns, Ends, NoSight, NoWant, serverVars,
          fileVars, clientVars
  <1>1. CASE LaunchForeground(s)  BY <1>1 DEF LaunchForeground, Spawned
  <1>2. CASE TakeHome(s)  BY <1>2 DEF TakeHome
  <1>3. CASE ClearFiles(s)  BY <1>3 DEF ClearFiles
  <1>4. CASE WriteSecret(s)  BY <1>4 DEF WriteSecret
  <1>5. CASE Listen(s)  BY <1>5 DEF Listen
  <1>6. CASE Publish(s)  BY <1>6 DEF Publish
  <1>7. CASE FinishRequest(s)  BY <1>7 DEF FinishRequest
  <1>8. CASE Interrupt(s)  BY <1>8 DEF Interrupt, BeginsDraining
  <1>9. CASE Drained(s)  BY <1>9 DEF Drained
  <1>10. CASE RemoveOwnFiles(s)  BY <1>10 DEF RemoveOwnFiles
  <1>11. CASE UnlockHome(s)  BY <1>11 DEF UnlockHome
  <1>12. CASE Leave(s)  BY <1>12 DEF Leave, Dies
  <1>13. CASE CrashServer(s)  BY <1>13 DEF CrashServer, Dies, Alive
  <1>14. QED
    BY <1>1, <1>2, <1>3, <1>4, <1>5, <1>6, <1>7, <1>8, <1>9, <1>10, <1>11,
       <1>12, <1>13
    DEF ServerProgress

LEMMA ControlClient ==
  ASSUME IInv, NEW c \in Client,
         Begin(c) \/ Inspects(c) \/ Starts(c) \/ Stops(c) \/ Writes(c)
         \/ CrashClient(c)
  PROVE  Control'
  <1> USE ConstantsAssumption
      DEF IInv, TypeOK, Control, InspectStep, ClearStep, Outcome,
          ServerGoes, Goes, Looks, Turns, Ends, NoSight, NoWant, serverVars,
          fileVars, clientVars
  <1>1. CASE Begin(c)  BY <1>1 DEF Begin
  <1>2. CASE ReadRecord(c)  BY <1>2 DEF ReadRecord
  <1>3. CASE ReadSecret(c)  BY <1>3 DEF ReadSecret
  <1>4. CASE Probe(c)  BY <1>4 DEF Probe, Answers
  <1>5. CASE LockStart(c)  BY <1>5 DEF LockStart
  <1>6. CASE FindRunning(c)  BY <1>6 DEF FindRunning, DropLocks, KeepLocks
  <1>7. CASE CheckPort(c)  BY <1>7 DEF CheckPort, DropLocks, KeepLocks
  <1>8. CASE Spawn(c)  BY <1>8 DEF Spawn, Spawned
  <1>9. CASE SpawnFails(c)  BY <1>9 DEF SpawnFails, DropLocks
  <1>10. CASE Tick(c)  BY <1>10 DEF Tick, DropLocks, KeepLocks
  <1>11. CASE ChildExited(c)  BY <1>11 DEF ChildExited, DropLocks, Alive
  <1>12. CASE GiveUp(c)  BY <1>12 DEF GiveUp, Dies, Alive
  <1>13. CASE DecideStop(c)  BY <1>13 DEF DecideStop
  <1>14. CASE RequestShutdown(c)
    BY <1>14 DEF RequestShutdown, BeginsDraining, Answers
  <1>15. CASE Identify(c)  BY <1>15 DEF Identify, Alive
  <1>16. CASE Terminate(c)
    <2>1. op[c] = "stop" /\ step[c] = "terminate"
      BY <1>16 DEF Terminate, Op
    <2>3. \/ UNCHANGED op /\ step'[c] = "waitGone"
          \/ Ends(c, "unconfirmed")
          \/ Ends(c, "failed")
      BY <1>16 DEF Terminate
    <2>4. \A d \in Client : d # c => step'[d] = step[d] /\ op'[d] = op[d]
      BY <1>16 DEF Terminate
    <2>5. CASE UNCHANGED op /\ step'[c] = "waitGone"
      BY <2>1, <2>4, <2>5
    <2>6. CASE Ends(c, "unconfirmed") \/ Ends(c, "failed")
      <3>1. op'[c] = "idle" /\ step'[c] \in {"unconfirmed", "failed"}
        BY <2>6
      <3>2. QED
        BY <3>1, <2>4
    <2>7. QED
      BY <2>3, <2>5, <2>6
  <1>17. CASE WaitGone(c)  BY <1>17 DEF WaitGone, Alive
  <1>18. CASE ClearTakesStart(c)  BY <1>18 DEF ClearTakesStart, StopOutcome
  <1>19. CASE ClearTakesHome(c)  BY <1>19 DEF ClearTakesHome, StopOutcome
  <1>20. CASE ClearRemoves(c)  BY <1>20 DEF ClearRemoves
  <1>21. CASE ClearUnlocks(c)
    BY <1>21 DEF ClearUnlocks, DropLocks, StopOutcome
  <1>22. CASE DecideWrite(c)  BY <1>22 DEF DecideWrite
  <1>23. CASE PutConfig(c)  BY <1>23 DEF PutConfig, Answers
  <1>24. CASE WriteTakesStart(c)  BY <1>24 DEF WriteTakesStart
  <1>25. CASE WriteTakesHome(c)  BY <1>25 DEF WriteTakesHome
  <1>26. CASE WriteEnds(c)  BY <1>26 DEF WriteEnds, DropLocks
  <1>27. CASE CrashClient(c)  BY <1>27 DEF CrashClient, DropLocks
  <1>28. QED
    BY <1>1, <1>2, <1>3, <1>4, <1>5, <1>6, <1>7, <1>8, <1>9, <1>10, <1>11,
       <1>12, <1>13, <1>14, <1>15, <1>16, <1>17, <1>18, <1>19, <1>20, <1>21,
       <1>22, <1>23, <1>24, <1>25, <1>26, <1>27
    DEF Inspects, Starts, Stops, Writes

LEMMA KnowledgeServer ==
  ASSUME IInv, NEW s \in Server,
         LaunchForeground(s) \/ ServerProgress(s) \/ FinishRequest(s)
         \/ Interrupt(s) \/ CrashServer(s)
  PROVE  Knowledge'
  <1> USE ConstantsAssumption
      DEF IInv, TypeOK, Knowledge, Published, Alive, ClearStep, NoSight,
          NoWant, Control, InspectStep,
          ServerGoes, Goes, Looks, Turns, Ends, NoSight, NoWant, serverVars,
          fileVars, clientVars
  <1>1. CASE LaunchForeground(s)  BY <1>1 DEF LaunchForeground, Spawned
  <1>2. CASE TakeHome(s)  BY <1>2 DEF TakeHome
  <1>3. CASE ClearFiles(s)  BY <1>3 DEF ClearFiles
  <1>4. CASE WriteSecret(s)  BY <1>4 DEF WriteSecret
  <1>5. CASE Listen(s)  BY <1>5 DEF Listen
  <1>6. CASE Publish(s)  BY <1>6 DEF Publish
  <1>7. CASE FinishRequest(s)  BY <1>7 DEF FinishRequest
  <1>8. CASE Interrupt(s)  BY <1>8 DEF Interrupt, BeginsDraining
  <1>9. CASE Drained(s)  BY <1>9 DEF Drained
  <1>10. CASE RemoveOwnFiles(s)  BY <1>10 DEF RemoveOwnFiles
  <1>11. CASE UnlockHome(s)  BY <1>11 DEF UnlockHome
  <1>12. CASE Leave(s)  BY <1>12 DEF Leave, Dies
  <1>13. CASE CrashServer(s)  BY <1>13 DEF CrashServer, Dies, Alive
  <1>14. QED
    BY <1>1, <1>2, <1>3, <1>4, <1>5, <1>6, <1>7, <1>8, <1>9, <1>10, <1>11,
       <1>12, <1>13
    DEF ServerProgress

LEMMA KnowledgeClient ==
  ASSUME IInv, NEW c \in Client,
         Begin(c) \/ Inspects(c) \/ Starts(c) \/ Stops(c) \/ Writes(c)
         \/ CrashClient(c)
  PROVE  Knowledge'
  <1> USE ConstantsAssumption
      DEF IInv, TypeOK, Knowledge, Published, Alive, ClearStep, NoSight,
          NoWant, Control, InspectStep,
          ServerGoes, Goes, Looks, Turns, Ends, NoSight, NoWant, serverVars,
          fileVars, clientVars
  <1>1. CASE Begin(c)  BY <1>1 DEF Begin
  <1>2. CASE ReadRecord(c)
    <2>1. spc' = spc /\ op' = op
          /\ seen'[c].record = record /\ ~seen'[c].forced /\ ~seen'[c].running
          /\ step'[c] = IF record \in Server THEN "secret" ELSE "decide"
      BY <1>2 DEF ReadRecord
    <2>2. record \in Server => Published(record)
      BY DEF RecordFollows
    <2>3. \A d \in Client : /\ child'[d] = child[d] /\ want'[d] = want[d]
                            /\ d # c => /\ step'[d] = step[d]
                                        /\ seen'[d] = seen[d]
      BY <1>2 DEF ReadRecord
    <2>4. QED
      BY <2>1, <2>2, <2>3
  <1>3. CASE ReadSecret(c)  BY <1>3 DEF ReadSecret
  <1>4. CASE Probe(c)  BY <1>4 DEF Probe, Answers
  <1>5. CASE LockStart(c)  BY <1>5 DEF LockStart
  <1>6. CASE FindRunning(c)  BY <1>6 DEF FindRunning, DropLocks, KeepLocks
  <1>7. CASE CheckPort(c)  BY <1>7 DEF CheckPort, DropLocks, KeepLocks
  <1>8. CASE Spawn(c)  BY <1>8 DEF Spawn, Spawned
  <1>9. CASE SpawnFails(c)  BY <1>9 DEF SpawnFails, DropLocks
  <1>10. CASE Tick(c)  BY <1>10 DEF Tick, DropLocks, KeepLocks
  <1>11. CASE ChildExited(c)  BY <1>11 DEF ChildExited, DropLocks, Alive
  <1>12. CASE GiveUp(c)  BY <1>12 DEF GiveUp, Dies, Alive
  <1>13. CASE DecideStop(c)  BY <1>13 DEF DecideStop
  <1>14. CASE RequestShutdown(c)
    BY <1>14 DEF RequestShutdown, BeginsDraining, Answers
  <1>15. CASE Identify(c)
    <2>1. spc' = spc /\ seen[c].record \in Server /\ op[c] = "stop"
      BY <1>15 DEF Identify, Op, Outcome
    <2>2. CASE Ends(c, "failed")
      BY <2>1, <2>2
    <2>3. CASE ~Ends(c, "failed")
      <3>1. op' = op /\ step'[c] \in {"terminate", "clearStart"}
        BY <1>15, <2>3 DEF Identify
      <3>2. seen'[c].record = seen[c].record /\ seen'[c].forced = seen[c].forced
            /\ (~Alive(seen[c].record) \/ step'[c] = "terminate")
        BY <1>15, <2>3 DEF Identify, Sight
      <3>3. \A d \in Client : /\ child'[d] = child[d] /\ want'[d] = want[d]
                              /\ d # c => /\ step'[d] = step[d]
                                          /\ seen'[d] = seen[d]
        BY <1>15, <2>3 DEF Identify
      <3>4. QED
        BY <2>1, <3>1, <3>2, <3>3
    <2>4. QED
      BY <2>2, <2>3
  <1>16. CASE Terminate(c)
    <2>1. seen[c].record \in Server
      BY <1>16 DEF Terminate
    <2>2. \A s \in Server : /\ Published(s) => Published(s)'
                            /\ ~Alive(s) => ~Alive(s)'
                            /\ spc[s] # "unborn" => spc'[s] # "unborn"
      BY <1>16, <2>1 DEF Terminate, Dies, BeginsDraining
    <2>3. /\ \A d \in Client : d # c => /\ step'[d] = step[d] /\ op'[d] = op[d]
                                        /\ seen'[d] = seen[d]
                                        /\ child'[d] = child[d]
                                        /\ want'[d] = want[d]
      BY <1>16 DEF Terminate
    <2>4. op[c] = "stop"
      BY <1>16 DEF Terminate, Op, Outcome
    <2>5. CASE Ends(c, "unconfirmed")
      BY <1>16, <2>2, <2>3, <2>5 DEF Terminate
    <2>6. CASE Looks(c, [seen[c] EXCEPT !.forced = TRUE], "waitGone")
      <3>1. seen'[c].record = seen[c].record /\ op'[c] = "stop"
            /\ step'[c] = "waitGone"
        BY <2>4, <2>6 DEF Sight
      <3>2. QED
        BY <2>1, <2>2, <2>3, <3>1
    <2>7. QED
      BY <1>16, <2>5, <2>6 DEF Terminate
  <1>17. CASE WaitGone(c)  BY <1>17 DEF WaitGone, Alive
  <1>18. CASE ClearTakesStart(c)  BY <1>18 DEF ClearTakesStart, StopOutcome
  <1>19. CASE ClearTakesHome(c)  BY <1>19 DEF ClearTakesHome, StopOutcome
  <1>20. CASE ClearRemoves(c)  BY <1>20 DEF ClearRemoves
  <1>21. CASE ClearUnlocks(c)
    BY <1>21, SMTT(30) DEF ClearUnlocks, DropLocks, StopOutcome
  <1>22. CASE DecideWrite(c)  BY <1>22 DEF DecideWrite
  <1>23. CASE PutConfig(c)
    <2>1. CASE Ends(c, "done")
      BY <1>23, <2>1 DEF PutConfig
    <2>2. CASE Ends(c, "failed")
      BY <1>23, <2>2 DEF PutConfig
    <2>3. QED
      BY <1>23, <2>1, <2>2 DEF PutConfig
  <1>24. CASE WriteTakesStart(c)  BY <1>24 DEF WriteTakesStart
  <1>25. CASE WriteTakesHome(c)  BY <1>25 DEF WriteTakesHome
  <1>26. CASE WriteEnds(c)  BY <1>26 DEF WriteEnds, DropLocks
  <1>27. CASE CrashClient(c)  BY <1>27 DEF CrashClient, DropLocks
  <1>28. QED
    BY <1>1, <1>2, <1>3, <1>4, <1>5, <1>6, <1>7, <1>8, <1>9, <1>10, <1>11,
       <1>12, <1>13, <1>14, <1>15, <1>16, <1>17, <1>18, <1>19, <1>20, <1>21,
       <1>22, <1>23, <1>24, <1>25, <1>26, <1>27
    DEF Inspects, Starts, Stops, Writes

LEMMA LocksHeldServer ==
  ASSUME IInv, NEW s \in Server,
         LaunchForeground(s) \/ ServerProgress(s) \/ FinishRequest(s)
         \/ Interrupt(s) \/ CrashServer(s)
  PROVE  LocksHeld'
  <1> USE ConstantsAssumption
      DEF IInv, TypeOK, LocksHeld, HoldingPc, HoldsStart, InspectStep,
          Control, ClearStep, Outcome,
          ServerGoes, Goes, Looks, Turns, Ends, NoSight, NoWant, serverVars,
          fileVars, clientVars
  <1>1. CASE LaunchForeground(s)  BY <1>1 DEF LaunchForeground, Spawned
  <1>2. CASE TakeHome(s)  BY <1>2 DEF TakeHome
  <1>3. CASE ClearFiles(s)  BY <1>3 DEF ClearFiles
  <1>4. CASE WriteSecret(s)  BY <1>4 DEF WriteSecret
  <1>5. CASE Listen(s)  BY <1>5 DEF Listen
  <1>6. CASE Publish(s)  BY <1>6 DEF Publish
  <1>7. CASE FinishRequest(s)  BY <1>7 DEF FinishRequest
  <1>8. CASE Interrupt(s)  BY <1>8 DEF Interrupt, BeginsDraining
  <1>9. CASE Drained(s)  BY <1>9 DEF Drained
  <1>10. CASE RemoveOwnFiles(s)  BY <1>10 DEF RemoveOwnFiles
  <1>11. CASE UnlockHome(s)  BY <1>11 DEF UnlockHome
  <1>12. CASE Leave(s)  BY <1>12 DEF Leave, Dies
  <1>13. CASE CrashServer(s)  BY <1>13 DEF CrashServer, Dies, Alive
  <1>14. QED
    BY <1>1, <1>2, <1>3, <1>4, <1>5, <1>6, <1>7, <1>8, <1>9, <1>10, <1>11,
       <1>12, <1>13
    DEF ServerProgress

LEMMA LocksHeldClient ==
  ASSUME IInv, NEW c \in Client,
         Begin(c) \/ Inspects(c) \/ Starts(c) \/ Stops(c) \/ Writes(c)
         \/ CrashClient(c)
  PROVE  LocksHeld'
  <1> USE ConstantsAssumption
      DEF IInv, TypeOK, LocksHeld, HoldingPc, HoldsStart, InspectStep,
          Control, ClearStep, Outcome,
          ServerGoes, Goes, Looks, Turns, Ends, NoSight, NoWant, serverVars,
          fileVars, clientVars
  <1>1. CASE Begin(c)  BY <1>1 DEF Begin
  <1>2. CASE ReadRecord(c)  BY <1>2 DEF ReadRecord
  <1>3. CASE ReadSecret(c)  BY <1>3 DEF ReadSecret
  <1>4. CASE Probe(c)  BY <1>4 DEF Probe, Answers
  <1>5. CASE LockStart(c)  BY <1>5 DEF LockStart
  <1>6. CASE FindRunning(c)
    <2>1. homeLock # c
      BY <1>6 DEF FindRunning
    <2>2. \A d \in Client : d # c => step'[d] = step[d] /\ op'[d] = op[d]
      BY <1>6 DEF FindRunning
    <2>3. CASE Goes(c, "port") /\ op[c] = "start" /\ KeepLocks
      BY <1>6, <2>1, <2>2, <2>3 DEF FindRunning, KeepLocks
    <2>4. CASE (\E o \in {"failed", "already"} : Ends(c, o)) /\ DropLocks(c)
      BY <1>6, <2>1, <2>2, <2>4 DEF FindRunning, DropLocks
    <2>5. QED
      BY <1>6, <2>3, <2>4 DEF FindRunning
  <1>7. CASE CheckPort(c)  BY <1>7 DEF CheckPort, DropLocks, KeepLocks
  <1>8. CASE Spawn(c)
    <2>1. op[c] = "start"
      BY <1>8 DEF Spawn, Op
    <2>2. startLock = c
      BY <1>8, <2>1 DEF Spawn
    <2>3. op'[c] = "await" /\ step'[c] = "record"
          /\ \A d \in Client : d # c => step'[d] = step[d] /\ op'[d] = op[d]
      BY <1>8 DEF Spawn
    <2>4. PICK s \in Server : \E p \in Pid : Spawned(s, p, want[c].port)
      BY <1>8 DEF Spawn
    <2>5. /\ \A r \in Server : r # s => spc'[r] = spc[r]
          /\ spc[s] = "unborn" /\ spc'[s] = "waitHome"
          /\ UNCHANGED <<homeLock, startLock>>
      BY <1>8, <2>4 DEF Spawn, Spawned
    <2>6. QED
      BY <1>8, <2>2, <2>3, <2>5 DEF Spawn
  <1>9. CASE SpawnFails(c)  BY <1>9 DEF SpawnFails, DropLocks
  <1>10. CASE Tick(c)
    <2>1. startLock = c /\ homeLock # c
      BY <1>10 DEF Tick
    <2>2. \A d \in Client : d # c => step'[d] = step[d] /\ op'[d] = op[d]
      BY <1>10 DEF Tick
    <2>3. CASE Ends(c, "started") /\ DropLocks(c)
      <3>1. op'[c] = "idle" /\ step'[c] = "started"
        BY <2>3
      <3>2. startLock' = None /\ homeLock' = homeLock
        BY <2>1, <2>3 DEF DropLocks
      <3>3. \A d \in Client : HoldsStart(d)' <=> startLock' = d
        BY <2>1, <2>2, <3>1, <3>2
      <3>4. \A d \in Client :
              step'[d] \in {"clearFiles", "clearUnlock", "write"} <=> homeLock' = d
        BY <2>1, <2>2, <3>1, <3>2
      <3>5. spc' = spc
        BY <1>10 DEF Tick
      <3>6. QED
        BY <3>2, <3>3, <3>4, <3>5
    <2>4. CASE Goes(c, "record") /\ KeepLocks
      BY <1>10, <2>1, <2>2, <2>4 DEF Tick, KeepLocks
    <2>5. QED
      BY <1>10, <2>3, <2>4 DEF Tick
  <1>11. CASE ChildExited(c)  BY <1>11 DEF ChildExited, DropLocks, Alive
  <1>12. CASE GiveUp(c)  BY <1>12 DEF GiveUp, Dies, Alive
  <1>13. CASE DecideStop(c)  BY <1>13 DEF DecideStop
  <1>14. CASE RequestShutdown(c)
    BY <1>14 DEF RequestShutdown, BeginsDraining, Answers
  <1>15. CASE Identify(c)  BY <1>15 DEF Identify, Alive
  <1>16. CASE Terminate(c)
    <2>1. startLock # c /\ homeLock # c
      BY <1>16 DEF Terminate
    <2>2. /\ ~HoldsStart(c)'
          /\ step'[c] \notin {"clearFiles", "clearUnlock", "write"}
      <3>1. step'[c] \in {"waitGone", "unconfirmed", "failed"}
        BY <1>16 DEF Terminate
      <3>2. op[c] = "stop"
        BY <1>16 DEF Terminate, Op
      <3>3. UNCHANGED op \/ Ends(c, "unconfirmed") \/ Ends(c, "failed")
        BY <1>16 DEF Terminate
      <3>4. op'[c] \in {"stop", "idle"}
        BY <3>2, <3>3
      <3>5. QED
        BY <3>1, <3>4
    <2>3. \A d \in Client : d # c => step'[d] = step[d] /\ op'[d] = op[d]
      BY <1>16 DEF Terminate
    <2>4. seen[c].record \in Server
      BY <1>16 DEF Terminate, Knowledge
    <2>5. CASE Dies(seen[c].record)
      BY <1>16, <2>1, <2>2, <2>3, <2>4, <2>5 DEF Terminate, Dies
    <2>6. CASE /\ UNCHANGED homeLock
               /\ \/ /\ BeginsDraining(seen[c].record)
                     /\ spc[seen[c].record] = "serving"
                  \/ UNCHANGED spc
      BY <1>16, <2>1, <2>2, <2>3, <2>4, <2>6 DEF Terminate, BeginsDraining
    <2>7. QED
      BY <1>16, <2>5, <2>6 DEF Terminate
  <1>17. CASE WaitGone(c)  BY <1>17 DEF WaitGone, Alive
  <1>18. CASE ClearTakesStart(c)  BY <1>18 DEF ClearTakesStart, StopOutcome
  <1>19. CASE ClearTakesHome(c)
    <2>1. CASE Goes(c, "clearFiles") /\ homeLock' = c /\ homeLock = None
      BY <1>19, <2>1 DEF ClearTakesHome
    <2>2. CASE Ends(c, StopOutcome(c, FALSE)) /\ startLock' = None
               /\ UNCHANGED homeLock
      <3>1. startLock' = None /\ homeLock' = homeLock /\ spc' = spc
        BY <1>19, <2>2 DEF ClearTakesHome
      <3>2. step'[c] \in Outcome /\ op'[c] = "idle"
        BY <1>19, <2>2 DEF ClearTakesHome, StopOutcome
      <3>3. \A d \in Client : d # c => step'[d] = step[d] /\ op'[d] = op[d]
        BY <1>19, <2>2 DEF ClearTakesHome
      <3>4. startLock = c /\ homeLock # c
        BY <1>19, <2>2 DEF ClearTakesHome
      <3>5. QED
        BY <3>1, <3>2, <3>3, <3>4
    <2>3. QED
      BY <1>19, <2>1, <2>2 DEF ClearTakesHome
  <1>20. CASE ClearRemoves(c)  BY <1>20 DEF ClearRemoves
  <1>21. CASE ClearUnlocks(c)
    BY <1>21 DEF ClearUnlocks, DropLocks, StopOutcome
  <1>22. CASE DecideWrite(c)  BY <1>22 DEF DecideWrite
  <1>23. CASE PutConfig(c)
    <2>1. UNCHANGED <<spc, homeLock, startLock>>
      BY <1>23 DEF PutConfig
    <2>2. step'[c] \in {"done", "failed"} /\ op'[c] = "idle"
      BY <1>23 DEF PutConfig
    <2>3. \A d \in Client : d # c => step'[d] = step[d] /\ op'[d] = op[d]
      BY <1>23 DEF PutConfig
    <2>4. startLock # c /\ homeLock # c
      BY <1>23 DEF PutConfig
    <2>5. QED
      BY <2>1, <2>2, <2>3, <2>4
  <1>24. CASE WriteTakesStart(c)  BY <1>24 DEF WriteTakesStart
  <1>25. CASE WriteTakesHome(c)
    <2>1. startLock = c /\ homeLock # c /\ spc' = spc
      BY <1>25 DEF WriteTakesHome
    <2>2. \A d \in Client : d # c => step'[d] = step[d] /\ op'[d] = op[d]
      BY <1>25 DEF WriteTakesHome
    <2>3. CASE /\ homeLock = None /\ homeLock' = c /\ startLock' = startLock
               /\ step'[c] = "write" /\ op'[c] = op[c]
      BY <1>25, <2>1, <2>2, <2>3
    <2>4. CASE /\ UNCHANGED homeLock /\ startLock' = None
               /\ \/ op'[c] = "rewrite" /\ step'[c] = "record"
                  \/ op'[c] = "idle" /\ step'[c] = "failed"
      BY <2>1, <2>2, <2>4
    <2>5. QED
      BY <1>25, <2>3, <2>4 DEF WriteTakesHome
  <1>26. CASE WriteEnds(c)  BY <1>26 DEF WriteEnds, DropLocks
  <1>27. CASE CrashClient(c)  BY <1>27 DEF CrashClient, DropLocks
  <1>28. QED
    BY <1>1, <1>2, <1>3, <1>4, <1>5, <1>6, <1>7, <1>8, <1>9, <1>10, <1>11,
       <1>12, <1>13, <1>14, <1>15, <1>16, <1>17, <1>18, <1>19, <1>20, <1>21,
       <1>22, <1>23, <1>24, <1>25, <1>26, <1>27
    DEF Inspects, Starts, Stops, Writes

LEMMA FilesBelongToHolderServer ==
  ASSUME IInv, NEW s \in Server,
         LaunchForeground(s) \/ ServerProgress(s) \/ FinishRequest(s)
         \/ Interrupt(s) \/ CrashServer(s)
  PROVE  FilesBelongToHolder'
  <1> USE ConstantsAssumption
      DEF IInv, TypeOK, FilesBelongToHolder, LocksHeld, HoldingPc,
          ServerGoes, Goes, Looks, Turns, Ends, NoSight, NoWant, serverVars,
          fileVars, clientVars
  <1>1. CASE LaunchForeground(s)  BY <1>1 DEF LaunchForeground, Spawned
  <1>2. CASE TakeHome(s)  BY <1>2 DEF TakeHome
  <1>3. CASE ClearFiles(s)  BY <1>3 DEF ClearFiles
  <1>4. CASE WriteSecret(s)  BY <1>4 DEF WriteSecret
  <1>5. CASE Listen(s)  BY <1>5 DEF Listen
  <1>6. CASE Publish(s)  BY <1>6 DEF Publish
  <1>7. CASE FinishRequest(s)  BY <1>7 DEF FinishRequest
  <1>8. CASE Interrupt(s)  BY <1>8 DEF Interrupt, BeginsDraining
  <1>9. CASE Drained(s)  BY <1>9 DEF Drained
  <1>10. CASE RemoveOwnFiles(s)  BY <1>10 DEF RemoveOwnFiles
  <1>11. CASE UnlockHome(s)  BY <1>11 DEF UnlockHome
  <1>12. CASE Leave(s)  BY <1>12 DEF Leave, Dies
  <1>13. CASE CrashServer(s)  BY <1>13 DEF CrashServer, Dies, Alive
  <1>14. QED
    BY <1>1, <1>2, <1>3, <1>4, <1>5, <1>6, <1>7, <1>8, <1>9, <1>10, <1>11,
       <1>12, <1>13
    DEF ServerProgress

LEMMA FilesBelongToHolderClient ==
  ASSUME IInv, NEW c \in Client,
         Begin(c) \/ Inspects(c) \/ Starts(c) \/ Stops(c) \/ Writes(c)
         \/ CrashClient(c)
  PROVE  FilesBelongToHolder'
  <1> USE ConstantsAssumption
      DEF IInv, TypeOK, FilesBelongToHolder, LocksHeld, HoldingPc,
          ServerGoes, Goes, Looks, Turns, Ends, NoSight, NoWant, serverVars,
          fileVars, clientVars
  <1>1. CASE Begin(c)  BY <1>1 DEF Begin
  <1>2. CASE ReadRecord(c)  BY <1>2 DEF ReadRecord
  <1>3. CASE ReadSecret(c)  BY <1>3 DEF ReadSecret
  <1>4. CASE Probe(c)  BY <1>4 DEF Probe, Answers
  <1>5. CASE LockStart(c)  BY <1>5 DEF LockStart
  <1>6. CASE FindRunning(c)  BY <1>6 DEF FindRunning, DropLocks, KeepLocks
  <1>7. CASE CheckPort(c)  BY <1>7 DEF CheckPort, DropLocks, KeepLocks
  <1>8. CASE Spawn(c)  BY <1>8 DEF Spawn, Spawned
  <1>9. CASE SpawnFails(c)  BY <1>9 DEF SpawnFails, DropLocks
  <1>10. CASE Tick(c)  BY <1>10 DEF Tick, DropLocks, KeepLocks
  <1>11. CASE ChildExited(c)  BY <1>11 DEF ChildExited, DropLocks, Alive
  <1>12. CASE GiveUp(c)  BY <1>12 DEF GiveUp, Dies, Alive
  <1>13. CASE DecideStop(c)  BY <1>13 DEF DecideStop
  <1>14. CASE RequestShutdown(c)
    BY <1>14 DEF RequestShutdown, BeginsDraining, Answers
  <1>15. CASE Identify(c)  BY <1>15 DEF Identify, Alive
  <1>16. CASE Terminate(c)  BY <1>16 DEF Terminate, Dies, BeginsDraining, Alive
  <1>17. CASE WaitGone(c)  BY <1>17 DEF WaitGone, Alive
  <1>18. CASE ClearTakesStart(c)  BY <1>18 DEF ClearTakesStart, StopOutcome
  <1>19. CASE ClearTakesHome(c)  BY <1>19 DEF ClearTakesHome, StopOutcome
  <1>20. CASE ClearRemoves(c)  BY <1>20 DEF ClearRemoves
  <1>21. CASE ClearUnlocks(c)
    BY <1>21 DEF ClearUnlocks, DropLocks, StopOutcome
  <1>22. CASE DecideWrite(c)  BY <1>22 DEF DecideWrite
  <1>23. CASE PutConfig(c)  BY <1>23 DEF PutConfig, Answers
  <1>24. CASE WriteTakesStart(c)  BY <1>24 DEF WriteTakesStart
  <1>25. CASE WriteTakesHome(c)  BY <1>25 DEF WriteTakesHome
  <1>26. CASE WriteEnds(c)  BY <1>26 DEF WriteEnds, DropLocks
  <1>27. CASE CrashClient(c)  BY <1>27 DEF CrashClient, DropLocks
  <1>28. QED
    BY <1>1, <1>2, <1>3, <1>4, <1>5, <1>6, <1>7, <1>8, <1>9, <1>10, <1>11,
       <1>12, <1>13, <1>14, <1>15, <1>16, <1>17, <1>18, <1>19, <1>20, <1>21,
       <1>22, <1>23, <1>24, <1>25, <1>26, <1>27
    DEF Inspects, Starts, Stops, Writes

LEMMA RecordFollowsServer ==
  ASSUME IInv, NEW s \in Server,
         LaunchForeground(s) \/ ServerProgress(s) \/ FinishRequest(s)
         \/ Interrupt(s) \/ CrashServer(s)
  PROVE  RecordFollows'
  <1> USE ConstantsAssumption
      DEF IInv, TypeOK, RecordFollows, Published, LocksHeld, HoldingPc,
          FilesBelongToHolder,
          ServerGoes, Goes, Looks, Turns, Ends, NoSight, NoWant, serverVars,
          fileVars, clientVars
  <1>1. CASE LaunchForeground(s)  BY <1>1 DEF LaunchForeground, Spawned
  <1>2. CASE TakeHome(s)  BY <1>2 DEF TakeHome
  <1>3. CASE ClearFiles(s)  BY <1>3 DEF ClearFiles
  <1>4. CASE WriteSecret(s)  BY <1>4 DEF WriteSecret
  <1>5. CASE Listen(s)  BY <1>5 DEF Listen
  <1>6. CASE Publish(s)  BY <1>6 DEF Publish
  <1>7. CASE FinishRequest(s)  BY <1>7 DEF FinishRequest
  <1>8. CASE Interrupt(s)  BY <1>8 DEF Interrupt, BeginsDraining
  <1>9. CASE Drained(s)  BY <1>9 DEF Drained
  <1>10. CASE RemoveOwnFiles(s)  BY <1>10 DEF RemoveOwnFiles
  <1>11. CASE UnlockHome(s)  BY <1>11 DEF UnlockHome
  <1>12. CASE Leave(s)  BY <1>12 DEF Leave, Dies
  <1>13. CASE CrashServer(s)  BY <1>13 DEF CrashServer, Dies, Alive
  <1>14. QED
    BY <1>1, <1>2, <1>3, <1>4, <1>5, <1>6, <1>7, <1>8, <1>9, <1>10, <1>11,
       <1>12, <1>13
    DEF ServerProgress

LEMMA RecordFollowsClient ==
  ASSUME IInv, NEW c \in Client,
         Begin(c) \/ Inspects(c) \/ Starts(c) \/ Stops(c) \/ Writes(c)
         \/ CrashClient(c)
  PROVE  RecordFollows'
  <1> USE ConstantsAssumption
      DEF IInv, TypeOK, RecordFollows, Published, LocksHeld, HoldingPc,
          FilesBelongToHolder,
          ServerGoes, Goes, Looks, Turns, Ends, NoSight, NoWant, serverVars,
          fileVars, clientVars
  <1>1. CASE Begin(c)  BY <1>1 DEF Begin
  <1>2. CASE ReadRecord(c)  BY <1>2 DEF ReadRecord
  <1>3. CASE ReadSecret(c)  BY <1>3 DEF ReadSecret
  <1>4. CASE Probe(c)  BY <1>4 DEF Probe, Answers
  <1>5. CASE LockStart(c)  BY <1>5 DEF LockStart
  <1>6. CASE FindRunning(c)  BY <1>6 DEF FindRunning, DropLocks, KeepLocks
  <1>7. CASE CheckPort(c)  BY <1>7 DEF CheckPort, DropLocks, KeepLocks
  <1>8. CASE Spawn(c)  BY <1>8 DEF Spawn, Spawned
  <1>9. CASE SpawnFails(c)  BY <1>9 DEF SpawnFails, DropLocks
  <1>10. CASE Tick(c)  BY <1>10 DEF Tick, DropLocks, KeepLocks
  <1>11. CASE ChildExited(c)  BY <1>11 DEF ChildExited, DropLocks, Alive
  <1>12. CASE GiveUp(c)  BY <1>12 DEF GiveUp, Dies, Alive
  <1>13. CASE DecideStop(c)  BY <1>13 DEF DecideStop
  <1>14. CASE RequestShutdown(c)
    BY <1>14 DEF RequestShutdown, BeginsDraining, Answers
  <1>15. CASE Identify(c)  BY <1>15 DEF Identify, Alive
  <1>16. CASE Terminate(c)  BY <1>16 DEF Terminate, Dies, BeginsDraining, Alive
  <1>17. CASE WaitGone(c)  BY <1>17 DEF WaitGone, Alive
  <1>18. CASE ClearTakesStart(c)  BY <1>18 DEF ClearTakesStart, StopOutcome
  <1>19. CASE ClearTakesHome(c)  BY <1>19 DEF ClearTakesHome, StopOutcome
  <1>20. CASE ClearRemoves(c)  BY <1>20 DEF ClearRemoves
  <1>21. CASE ClearUnlocks(c)
    BY <1>21 DEF ClearUnlocks, DropLocks, StopOutcome
  <1>22. CASE DecideWrite(c)  BY <1>22 DEF DecideWrite
  <1>23. CASE PutConfig(c)  BY <1>23 DEF PutConfig, Answers
  <1>24. CASE WriteTakesStart(c)  BY <1>24 DEF WriteTakesStart
  <1>25. CASE WriteTakesHome(c)  BY <1>25 DEF WriteTakesHome
  <1>26. CASE WriteEnds(c)  BY <1>26 DEF WriteEnds, DropLocks
  <1>27. CASE CrashClient(c)  BY <1>27 DEF CrashClient, DropLocks
  <1>28. QED
    BY <1>1, <1>2, <1>3, <1>4, <1>5, <1>6, <1>7, <1>8, <1>9, <1>10, <1>11,
       <1>12, <1>13, <1>14, <1>15, <1>16, <1>17, <1>18, <1>19, <1>20, <1>21,
       <1>22, <1>23, <1>24, <1>25, <1>26, <1>27
    DEF Inspects, Starts, Stops, Writes

LEMMA ListenersServer ==
  ASSUME IInv, NEW s \in Server,
         LaunchForeground(s) \/ ServerProgress(s) \/ FinishRequest(s)
         \/ Interrupt(s) \/ CrashServer(s)
  PROVE  Listeners'
  <1> USE ConstantsAssumption
      DEF IInv, TypeOK, Listeners, ListeningPc, Knowledge,
          ServerGoes, Goes, Looks, Turns, Ends, NoSight, NoWant, serverVars,
          fileVars, clientVars
  <1>1. CASE LaunchForeground(s)  BY <1>1 DEF LaunchForeground, Spawned
  <1>2. CASE TakeHome(s)  BY <1>2 DEF TakeHome
  <1>3. CASE ClearFiles(s)  BY <1>3 DEF ClearFiles
  <1>4. CASE WriteSecret(s)  BY <1>4 DEF WriteSecret
  <1>5. CASE Listen(s)  BY <1>5 DEF Listen
  <1>6. CASE Publish(s)  BY <1>6 DEF Publish
  <1>7. CASE FinishRequest(s)  BY <1>7 DEF FinishRequest
  <1>8. CASE Interrupt(s)  BY <1>8 DEF Interrupt, BeginsDraining
  <1>9. CASE Drained(s)  BY <1>9 DEF Drained
  <1>10. CASE RemoveOwnFiles(s)  BY <1>10 DEF RemoveOwnFiles
  <1>11. CASE UnlockHome(s)  BY <1>11 DEF UnlockHome
  <1>12. CASE Leave(s)  BY <1>12 DEF Leave, Dies
  <1>13. CASE CrashServer(s)  BY <1>13 DEF CrashServer, Dies, Alive
  <1>14. QED
    BY <1>1, <1>2, <1>3, <1>4, <1>5, <1>6, <1>7, <1>8, <1>9, <1>10, <1>11,
       <1>12, <1>13
    DEF ServerProgress

LEMMA ListenersClient ==
  ASSUME IInv, NEW c \in Client,
         Begin(c) \/ Inspects(c) \/ Starts(c) \/ Stops(c) \/ Writes(c)
         \/ CrashClient(c)
  PROVE  Listeners'
  <1> USE ConstantsAssumption
      DEF IInv, TypeOK, Listeners, ListeningPc, Knowledge,
          ServerGoes, Goes, Looks, Turns, Ends, NoSight, NoWant, serverVars,
          fileVars, clientVars
  <1>1. CASE Begin(c)  BY <1>1 DEF Begin
  <1>2. CASE ReadRecord(c)  BY <1>2 DEF ReadRecord
  <1>3. CASE ReadSecret(c)  BY <1>3 DEF ReadSecret
  <1>4. CASE Probe(c)  BY <1>4 DEF Probe, Answers
  <1>5. CASE LockStart(c)  BY <1>5 DEF LockStart
  <1>6. CASE FindRunning(c)  BY <1>6 DEF FindRunning, DropLocks, KeepLocks
  <1>7. CASE CheckPort(c)  BY <1>7 DEF CheckPort, DropLocks, KeepLocks
  <1>8. CASE Spawn(c)
    <2>1. op[c] = "start"
      BY <1>8 DEF Spawn, Control, InspectStep, ClearStep, Outcome, Op
    <2>2. want[c].port \in Port
      BY <2>1
    <2>3. PICK s \in Server : \E p \in Pid : Spawned(s, p, want[c].port)
      BY <1>8 DEF Spawn
    <2>4. /\ \A r \in Server : r # s => /\ spc'[r] = spc[r]
                                        /\ portOf'[r] = portOf[r]
          /\ spc[s] = "unborn" /\ spc'[s] = "waitHome"
          /\ portOf'[s] = want[c].port /\ bound' = bound
      BY <1>8, <2>3 DEF Spawn, Spawned
    <2>5. QED
      BY <2>2, <2>4
  <1>9. CASE SpawnFails(c)  BY <1>9 DEF SpawnFails, DropLocks
  <1>10. CASE Tick(c)  BY <1>10 DEF Tick, DropLocks, KeepLocks
  <1>11. CASE ChildExited(c)  BY <1>11 DEF ChildExited, DropLocks, Alive
  <1>12. CASE GiveUp(c)  BY <1>12 DEF GiveUp, Dies, Alive
  <1>13. CASE DecideStop(c)  BY <1>13 DEF DecideStop
  <1>14. CASE RequestShutdown(c)
    BY <1>14 DEF RequestShutdown, BeginsDraining, Answers
  <1>15. CASE Identify(c)  BY <1>15 DEF Identify, Alive
  <1>16. CASE Terminate(c)  BY <1>16 DEF Terminate, Dies, BeginsDraining, Alive
  <1>17. CASE WaitGone(c)  BY <1>17 DEF WaitGone, Alive
  <1>18. CASE ClearTakesStart(c)  BY <1>18 DEF ClearTakesStart, StopOutcome
  <1>19. CASE ClearTakesHome(c)  BY <1>19 DEF ClearTakesHome, StopOutcome
  <1>20. CASE ClearRemoves(c)  BY <1>20 DEF ClearRemoves
  <1>21. CASE ClearUnlocks(c)
    BY <1>21 DEF ClearUnlocks, DropLocks, StopOutcome
  <1>22. CASE DecideWrite(c)  BY <1>22 DEF DecideWrite
  <1>23. CASE PutConfig(c)  BY <1>23 DEF PutConfig, Answers
  <1>24. CASE WriteTakesStart(c)  BY <1>24 DEF WriteTakesStart
  <1>25. CASE WriteTakesHome(c)  BY <1>25 DEF WriteTakesHome
  <1>26. CASE WriteEnds(c)  BY <1>26 DEF WriteEnds, DropLocks
  <1>27. CASE CrashClient(c)  BY <1>27 DEF CrashClient, DropLocks
  <1>28. QED
    BY <1>1, <1>2, <1>3, <1>4, <1>5, <1>6, <1>7, <1>8, <1>9, <1>10, <1>11,
       <1>12, <1>13, <1>14, <1>15, <1>16, <1>17, <1>18, <1>19, <1>20, <1>21,
       <1>22, <1>23, <1>24, <1>25, <1>26, <1>27
    DEF Inspects, Starts, Stops, Writes

LEMMA RequestsRunInServerServer ==
  ASSUME IInv, NEW s \in Server,
         LaunchForeground(s) \/ ServerProgress(s) \/ FinishRequest(s)
         \/ Interrupt(s) \/ CrashServer(s)
  PROVE  RequestsRunInServer'
  <1> USE ConstantsAssumption
      DEF IInv, TypeOK, RequestsRunInServer, Knowledge, Published, ListeningPc,
          ServerGoes, Goes, Looks, Turns, Ends, NoSight, NoWant, serverVars,
          fileVars, clientVars
  <1>1. CASE LaunchForeground(s)  BY <1>1 DEF LaunchForeground, Spawned
  <1>2. CASE TakeHome(s)  BY <1>2 DEF TakeHome
  <1>3. CASE ClearFiles(s)  BY <1>3 DEF ClearFiles
  <1>4. CASE WriteSecret(s)  BY <1>4 DEF WriteSecret
  <1>5. CASE Listen(s)  BY <1>5 DEF Listen
  <1>6. CASE Publish(s)  BY <1>6 DEF Publish
  <1>7. CASE FinishRequest(s)  BY <1>7 DEF FinishRequest
  <1>8. CASE Interrupt(s)  BY <1>8 DEF Interrupt, BeginsDraining
  <1>9. CASE Drained(s)  BY <1>9 DEF Drained
  <1>10. CASE RemoveOwnFiles(s)  BY <1>10 DEF RemoveOwnFiles
  <1>11. CASE UnlockHome(s)  BY <1>11 DEF UnlockHome
  <1>12. CASE Leave(s)  BY <1>12 DEF Leave, Dies
  <1>13. CASE CrashServer(s)  BY <1>13 DEF CrashServer, Dies, Alive
  <1>14. QED
    BY <1>1, <1>2, <1>3, <1>4, <1>5, <1>6, <1>7, <1>8, <1>9, <1>10, <1>11,
       <1>12, <1>13
    DEF ServerProgress

LEMMA RequestsRunInServerClient ==
  ASSUME IInv, NEW c \in Client,
         Begin(c) \/ Inspects(c) \/ Starts(c) \/ Stops(c) \/ Writes(c)
         \/ CrashClient(c)
  PROVE  RequestsRunInServer'
  <1> USE ConstantsAssumption
      DEF IInv, TypeOK, RequestsRunInServer, Knowledge, Published, ListeningPc,
          ServerGoes, Goes, Looks, Turns, Ends, NoSight, NoWant, serverVars,
          fileVars, clientVars
  <1>1. CASE Begin(c)  BY <1>1 DEF Begin
  <1>2. CASE ReadRecord(c)  BY <1>2 DEF ReadRecord
  <1>3. CASE ReadSecret(c)  BY <1>3 DEF ReadSecret
  <1>4. CASE Probe(c)  BY <1>4 DEF Probe, Answers
  <1>5. CASE LockStart(c)  BY <1>5 DEF LockStart
  <1>6. CASE FindRunning(c)  BY <1>6 DEF FindRunning, DropLocks, KeepLocks
  <1>7. CASE CheckPort(c)  BY <1>7 DEF CheckPort, DropLocks, KeepLocks
  <1>8. CASE Spawn(c)  BY <1>8 DEF Spawn, Spawned
  <1>9. CASE SpawnFails(c)  BY <1>9 DEF SpawnFails, DropLocks
  <1>10. CASE Tick(c)  BY <1>10 DEF Tick, DropLocks, KeepLocks
  <1>11. CASE ChildExited(c)  BY <1>11 DEF ChildExited, DropLocks, Alive
  <1>12. CASE GiveUp(c)  BY <1>12 DEF GiveUp, Dies, Alive
  <1>13. CASE DecideStop(c)  BY <1>13 DEF DecideStop
  <1>14. CASE RequestShutdown(c)
    BY <1>14 DEF RequestShutdown, BeginsDraining, Answers
  <1>15. CASE Identify(c)  BY <1>15 DEF Identify, Alive
  <1>16. CASE Terminate(c)  BY <1>16 DEF Terminate, Dies, BeginsDraining, Alive
  <1>17. CASE WaitGone(c)  BY <1>17 DEF WaitGone, Alive
  <1>18. CASE ClearTakesStart(c)  BY <1>18 DEF ClearTakesStart, StopOutcome
  <1>19. CASE ClearTakesHome(c)  BY <1>19 DEF ClearTakesHome, StopOutcome
  <1>20. CASE ClearRemoves(c)  BY <1>20 DEF ClearRemoves
  <1>21. CASE ClearUnlocks(c)
    BY <1>21 DEF ClearUnlocks, DropLocks, StopOutcome
  <1>22. CASE DecideWrite(c)  BY <1>22 DEF DecideWrite
  <1>23. CASE PutConfig(c)
    <2>1. CASE UNCHANGED writing
      BY <1>23, <2>1 DEF PutConfig
    <2>2. CASE /\ Answers(seen[c].record, seen[c].secret)
               /\ writing' = writing \cup {seen[c].record}
      <3>1. seen[c].record \in Server /\ Published(seen[c].record)
        BY <1>23 DEF PutConfig
      <3>2. spc[seen[c].record] = "serving"
        BY <2>2, <3>1 DEF Answers
      <3>3. QED
        BY <1>23, <2>2, <3>2 DEF PutConfig
    <2>3. QED
      BY <1>23, <2>1, <2>2 DEF PutConfig
  <1>24. CASE WriteTakesStart(c)  BY <1>24 DEF WriteTakesStart
  <1>25. CASE WriteTakesHome(c)  BY <1>25 DEF WriteTakesHome
  <1>26. CASE WriteEnds(c)  BY <1>26 DEF WriteEnds, DropLocks
  <1>27. CASE CrashClient(c)  BY <1>27 DEF CrashClient, DropLocks
  <1>28. QED
    BY <1>1, <1>2, <1>3, <1>4, <1>5, <1>6, <1>7, <1>8, <1>9, <1>10, <1>11,
       <1>12, <1>13, <1>14, <1>15, <1>16, <1>17, <1>18, <1>19, <1>20, <1>21,
       <1>22, <1>23, <1>24, <1>25, <1>26, <1>27
    DEF Inspects, Starts, Stops, Writes

-----------------------------------------------------------------------------
(* The inductive invariant *)

LEMMA IInvInit == Init => IInv
  <1> SUFFICES ASSUME Init PROVE IInv
    OBVIOUS
  <1>1. TypeOK
    BY TypeInit
  <1>2. Control /\ Knowledge
    BY ConstantsAssumption
    DEF Init, Control, Knowledge, Outcome, ClearStep, NoSight
  <1>3. LocksHeld
    BY ConstantsAssumption
    DEF Init, LocksHeld, HoldingPc, HoldsStart, InspectStep
  <1>4. FilesBelongToHolder /\ RecordFollows /\ RequestsRunInServer
    BY ConstantsAssumption
    DEF Init, FilesBelongToHolder, RecordFollows, RequestsRunInServer
  <1>5. Listeners
    BY ConstantsAssumption DEF Init, Listeners, ListeningPc
  <1>6. QED
    BY <1>1, <1>2, <1>3, <1>4, <1>5 DEF IInv

LEMMA EnvironmentStep ==
  ASSUME IInv,
         \/ \E p \in Pid : OtherProcess(p)
         \/ \E p \in Port : OtherListener(p)
         \/ UNCHANGED vars
  PROVE  (Control /\ Knowledge /\ LocksHeld /\ FilesBelongToHolder
          /\ RecordFollows /\ Listeners /\ RequestsRunInServer)'
  <1>1. UNCHANGED <<spc, pid, portOf, writing, fileVars, homeLock, startLock,
                    clientVars>>
    BY DEF OtherProcess, OtherListener, vars, serverVars
  <1>2. \A s \in Server, p \in Port : bound'[p] = s <=> bound[p] = s
    BY ConstantsAssumption
    DEF OtherProcess, OtherListener, vars, serverVars, IInv, TypeOK
  <1>3. (Control /\ Knowledge)'
    BY <1>1 DEF IInv, Control, Knowledge, Published, Alive, clientVars
  <1>4. (LocksHeld /\ FilesBelongToHolder /\ RecordFollows
         /\ RequestsRunInServer)'
    BY <1>1
    DEF IInv, LocksHeld, HoldsStart, FilesBelongToHolder, RecordFollows,
        Published, RequestsRunInServer, clientVars, fileVars
  <1>5. Listeners'
    BY <1>1, <1>2 DEF IInv, Listeners, ListeningPc
  <1>6. QED
    BY <1>3, <1>4, <1>5

LEMMA IInvNext == IInv /\ [Next]_vars => IInv'
  <1> SUFFICES ASSUME IInv, [Next]_vars PROVE IInv'
    OBVIOUS
  <1>1. TypeOK'
    BY TypeNext DEF IInv
  <1>2. ASSUME NEW s \in Server,
               LaunchForeground(s) \/ ServerProgress(s) \/ FinishRequest(s)
               \/ Interrupt(s) \/ CrashServer(s)
        PROVE  IInv'
    BY <1>1, <1>2, ControlServer, KnowledgeServer, LocksHeldServer,
       FilesBelongToHolderServer, RecordFollowsServer, ListenersServer,
       RequestsRunInServerServer DEF IInv
  <1>3. ASSUME NEW c \in Client,
               Begin(c) \/ Inspects(c) \/ Starts(c) \/ Stops(c) \/ Writes(c)
               \/ CrashClient(c)
        PROVE  IInv'
    BY <1>1, <1>3, ControlClient, KnowledgeClient, LocksHeldClient,
       FilesBelongToHolderClient, RecordFollowsClient, ListenersClient,
       RequestsRunInServerClient DEF IInv
  <1>4. CASE \/ \E p \in Pid : OtherProcess(p)
             \/ \E p \in Port : OtherListener(p)
             \/ UNCHANGED vars
    BY <1>1, <1>4, EnvironmentStep DEF IInv
  <1>5. QED
    BY <1>2, <1>3, <1>4 DEF Next

\* Control states, locks, files, ports and requests agree in every reachable
\* state of Run, Start, Stop and SetConfig, with any number of processes.
THEOREM Inductive == Spec => []IInv
  BY IInvInit, IInvNext, PTL DEF Spec

-----------------------------------------------------------------------------
(* What follows from it *)

\* What one command knows and where it is change only in its own steps.
LEMMA OwnStep ==
  ASSUME TypeOK, [Next]_vars, NEW c \in Client, step'[c] # step[c]
  PROVE  Begin(c) \/ Inspects(c) \/ Starts(c) \/ Stops(c) \/ Writes(c)
         \/ CrashClient(c)
  <1> USE DEF clientVars
  <1>1. ASSUME NEW s \in Server,
               LaunchForeground(s) \/ ServerProgress(s) \/ FinishRequest(s)
               \/ Interrupt(s) \/ CrashServer(s)
        PROVE  step' = step
    BY <1>1
    DEF LaunchForeground, ServerProgress, TakeHome, ClearFiles, WriteSecret,
        Listen, Publish, Drained, RemoveOwnFiles, UnlockHome, Leave,
        FinishRequest, Interrupt, CrashServer
  <1>2. CASE \/ \E p \in Pid : OtherProcess(p)
             \/ \E p \in Port : OtherListener(p)
             \/ UNCHANGED vars
    BY <1>2 DEF OtherProcess, OtherListener, vars
  <1>3. ASSUME NEW d \in Client, d # c,
               Begin(d) \/ Inspects(d) \/ Starts(d) \/ Stops(d) \/ Writes(d)
               \/ CrashClient(d)
        PROVE  step'[c] = step[c]
    <2> USE <1>3 DEF TypeOK, Goes, Looks, Turns, Ends
    <2>1. CASE Begin(d) \/ Inspects(d) \/ CrashClient(d)
      BY <2>1
      DEF Begin, Inspects, ReadRecord, ReadSecret, Probe, CrashClient
    <2>2. CASE Starts(d)
      BY <2>2
      DEF Starts, LockStart, FindRunning, CheckPort, Spawn, SpawnFails, Tick,
          ChildExited, GiveUp
    <2>3. CASE Stops(d)
      BY <2>3
      DEF Stops, DecideStop, RequestShutdown, Identify, Terminate, WaitGone,
          ClearTakesStart, ClearTakesHome, ClearRemoves, ClearUnlocks
    <2>4. CASE Writes(d)
      BY <2>4
      DEF Writes, DecideWrite, PutConfig, WriteTakesStart, WriteTakesHome,
          WriteEnds
    <2>5. QED
      BY <2>1, <2>2, <2>3, <2>4
  <1>4. QED
    BY <1>1, <1>2, <1>3 DEF Next

LEMMA ProbingStep ==
  ASSUME IInv, [Next]_vars, NEW c \in Client,
         step[c] = "probe", step'[c] = "decide"
  PROVE  Probe(c)
  <1> USE DEF IInv, TypeOK, Goes, Looks, Turns, Ends
  <1>1. Begin(c) \/ Inspects(c) \/ Starts(c) \/ Stops(c) \/ Writes(c)
        \/ CrashClient(c)
    BY OwnStep
  <1>2. ~Begin(c) /\ ~CrashClient(c)
    BY DEF Begin, CrashClient, Control, Outcome
  <1>3. ~ReadRecord(c) /\ ~ReadSecret(c)
    BY DEF ReadRecord, ReadSecret
  <1>4. ~Starts(c)
    BY DEF Starts, LockStart, FindRunning, CheckPort, Spawn, SpawnFails, Tick,
           ChildExited, GiveUp
  <1>5. ~Stops(c)
    BY DEF Stops, DecideStop, RequestShutdown, Identify, Terminate, WaitGone,
           ClearTakesStart, ClearTakesHome, ClearRemoves, ClearUnlocks
  <1>6. ~Writes(c)
    BY DEF Writes, DecideWrite, PutConfig, WriteTakesStart, WriteTakesHome,
           WriteEnds
  <1>7. QED
    BY <1>1, <1>2, <1>3, <1>4, <1>5, <1>6 DEF Inspects

LEMMA StoppedStep ==
  ASSUME IInv, [Next]_vars, NEW c \in Client,
         op[c] = "stop", step'[c] = "stopped"
  PROVE  seen[c].record \in Server /\ ~Alive(seen[c].record)
  <1> USE DEF IInv, TypeOK, Goes, Looks, Turns, Ends
  <1>0. step[c] # "stopped"
    BY DEF Control, InspectStep, ClearStep
  <1>1. Begin(c) \/ Inspects(c) \/ Starts(c) \/ Stops(c) \/ Writes(c)
        \/ CrashClient(c)
    BY <1>0, OwnStep
  <1>2. ~Begin(c) /\ ~CrashClient(c) /\ ~Inspects(c)
    BY DEF Begin, CrashClient, Inspects, ReadRecord, ReadSecret, Probe
  <1>3. ~Writes(c)
    BY DEF Writes, DecideWrite, PutConfig, WriteTakesStart, WriteTakesHome,
           WriteEnds
  <1>4. ~Starts(c)
    BY DEF Starts, LockStart, FindRunning, CheckPort, Spawn, SpawnFails, Tick,
           ChildExited, GiveUp
  <1>5. CASE WaitGone(c)
    BY <1>5 DEF WaitGone, Knowledge
  <1>6. CASE ClearTakesStart(c) \/ ClearTakesHome(c) \/ ClearUnlocks(c)
    <2>1. seen[c].forced /\ step[c] \in ClearStep
      BY <1>6
      DEF ClearTakesStart, ClearTakesHome, ClearUnlocks, StopOutcome, ClearStep
    <2>2. QED
      BY <2>1 DEF Knowledge
  <1>7. ~DecideStop(c) /\ ~RequestShutdown(c) /\ ~Identify(c) /\ ~Terminate(c)
        /\ ~ClearRemoves(c)
    BY DEF DecideStop, RequestShutdown, Identify, Terminate, ClearRemoves
  <1>8. QED
    BY <1>1, <1>2, <1>3, <1>4, <1>5, <1>6, <1>7 DEF Stops

LEMMA TerminatingStep ==
  ASSUME IInv, [Next]_vars, NEW c \in Client,
         step[c] = "terminate", step'[c] # "terminate"
  PROVE  Terminate(c) \/ CrashClient(c)
  <1> USE DEF IInv
  <1>0. op[c] = "stop"
    BY DEF TypeOK, Control, Op, Outcome, InspectStep
  <1>1. Begin(c) \/ Inspects(c) \/ Starts(c) \/ Stops(c) \/ Writes(c)
        \/ CrashClient(c)
    BY OwnStep
  <1>2. ~Begin(c) /\ ~Inspects(c)
    BY <1>0 DEF Begin, Inspects, ReadRecord, ReadSecret, Probe
  <1>3. ~Starts(c)
    BY <1>0 DEF Starts, LockStart, FindRunning, CheckPort, Spawn, SpawnFails,
                Tick, ChildExited, GiveUp
  <1>4. ~Writes(c)
    BY DEF Writes, DecideWrite, PutConfig, WriteTakesStart, WriteTakesHome,
           WriteEnds
  <1>5. Stops(c) => Terminate(c)
    BY DEF Stops, DecideStop, RequestShutdown, Identify, WaitGone,
           ClearTakesStart, ClearTakesHome, ClearRemoves, ClearUnlocks
  <1>6. QED
    BY <1>1, <1>2, <1>3, <1>4, <1>5

LEMMA FailedAwaitStep ==
  ASSUME IInv, [Next]_vars, NEW c \in Client,
         op[c] = "await", step'[c] = "failed"
  PROVE  ChildExited(c) \/ GiveUp(c)
  <1> USE DEF IInv, TypeOK, Goes, Looks, Turns, Ends
  <1>0. step[c] \in InspectStep
    BY DEF Control
  <1>1. Begin(c) \/ Inspects(c) \/ Starts(c) \/ Stops(c) \/ Writes(c)
        \/ CrashClient(c)
    BY <1>0, OwnStep DEF InspectStep
  <1>2. ~Begin(c) /\ ~CrashClient(c) /\ ~Inspects(c)
    BY DEF Begin, CrashClient, Inspects, ReadRecord, ReadSecret, Probe
  <1>3. ~Stops(c)
    BY <1>0
    DEF Stops, DecideStop, RequestShutdown, Identify, Terminate, WaitGone,
        ClearTakesStart, ClearTakesHome, ClearRemoves, ClearUnlocks, InspectStep
  <1>4. ~Writes(c)
    BY <1>0
    DEF Writes, DecideWrite, PutConfig, WriteTakesStart, WriteTakesHome,
        WriteEnds, InspectStep
  <1>5. Starts(c) => ChildExited(c) \/ GiveUp(c)
    BY <1>0 DEF Starts, LockStart, FindRunning, CheckPort, Spawn, SpawnFails,
                Tick, InspectStep
  <1>6. QED
    BY <1>1, <1>2, <1>3, <1>4, <1>5

\* Every variable of the runtime directory and of the processes around it
\* keeps its type.
THEOREM TypeCorrect == Spec => []TypeOK
  <1>1. IInv => TypeOK
    BY DEF IInv
  <1>2. QED
    BY <1>1, Inductive, PTL

\* Acquire, Release, clearStale and WithHomeLock keep server.json and the
\* secret with the server that holds home.lock.
THEOREM FilesStay == Spec => []FilesBelongToHolder
  <1>1. IInv => FilesBelongToHolder
    BY DEF IInv
  <1>2. QED
    BY <1>1, Inductive, PTL

LEMMA WriterHolds ==
  ASSUME ~SlowHandlers, IInv
  PROVE  SingleWriter
  <1> SUFFICES ASSUME NEW w \in Writers PROVE homeLock = w
    BY DEF SingleWriter
  <1>1. CASE w \in writing
    <2>1. w \in Server /\ spc[w] \in {"serving", "draining"}
      BY <1>1 DEF IInv, TypeOK, RequestsRunInServer
    <2>2. QED
      BY <2>1 DEF IInv, LocksHeld, HoldingPc
  <1>2. CASE w \in {c \in Client : step[c] = "write"}
    BY <1>2 DEF IInv, LocksHeld
  <1>3. QED
    BY <1>1, <1>2 DEF Writers

\* As long as every request ends within the shutdown deadline, whoever writes
\* the home holds home.lock.
THEOREM OneWriter == ASSUME ~SlowHandlers PROVE Spec => []SingleWriter
  <1>1. IInv => SingleWriter
    BY WriterHolds
  <1>2. QED
    BY <1>1, Inductive, PTL

\* Two starts never wait for a child at the same time.
THEOREM SerialStarts == Spec => []StartsAreSerial
  <1>1. IInv => StartsAreSerial
    BY DEF IInv, LocksHeld, HoldsStart, StartsAreSerial
  <1>2. QED
    BY <1>1, Inductive, PTL

\* Two servers of one home never listen at the same time, on any ports.
THEOREM OneListener == Spec => []NoServerNextToAnother
  <1>1. IInv => NoServerNextToAnother
    BY DEF IInv, LocksHeld, HoldingPc, ListeningPc, NoServerNextToAnother
  <1>2. QED
    BY <1>1, Inductive, PTL

\* An Inspect that reports a running server met the server that holds
\* home.lock, whose record is still on disk.
THEOREM InspectConfirms == Spec => ConfirmsTheHolder
  <1>1. ASSUME IInv, [Next]_vars, NEW c \in Client,
               step[c] = "probe", step'[c] = "decide", seen'[c].running
        PROVE  LET s == seen[c].record
               IN  spc[s] = "serving" /\ homeLock = s /\ record = s
    <2>1. Probe(c)
      BY <1>1, ProbingStep
    <2>2. Answers(seen[c].record, seen[c].secret)
      <3>1. PICK inTime \in BOOLEAN :
              seen' = [seen EXCEPT ![c] = [seen[c] EXCEPT !.running =
                          inTime /\ Answers(seen[c].record, seen[c].secret)]]
        BY <2>1 DEF Probe, Looks
      <3>2. seen \in [Client -> Sight] /\ seen[c] \in Sight
        BY <1>1 DEF IInv, TypeOK
      <3>3. seen'[c] = [seen[c] EXCEPT !.running =
                           inTime /\ Answers(seen[c].record, seen[c].secret)]
        BY <3>1, <3>2
      <3>4. seen'[c].running = (inTime /\ Answers(seen[c].record, seen[c].secret))
        BY <3>2, <3>3 DEF Sight
      <3>5. QED
        BY <3>4, <1>1
    <2>3. seen[c].record \in Server /\ Published(seen[c].record)
      BY <1>1 DEF IInv, Knowledge
    <2>4. spc[seen[c].record] = "serving"
      BY <2>2, <2>3 DEF Answers, ListeningPc, Published
    <2>5. \A s \in Server : spc[s] = "serving" => homeLock = s /\ record = s
      BY <1>1 DEF IInv, LocksHeld, HoldingPc, FilesBelongToHolder
    <2>6. QED
      BY <2>3, <2>4, <2>5
  <1>2. IInv /\ [Next]_vars =>
          [\A c \in Client :
             step[c] = "probe" /\ step'[c] = "decide" /\ seen'[c].running
             => LET s == seen[c].record IN
                spc[s] = "serving" /\ homeLock = s /\ record = s]_vars
    BY <1>1
  <1>3. QED
    BY <1>2, Inductive, PTL DEF Spec, ConfirmsTheHolder

\* A stop that succeeds has outlived the process it found, which holds neither
\* home.lock nor a port.
THEOREM StopSucceeds == Spec => StopMeansGone
  <1>1. ASSUME IInv, [Next]_vars, NEW c \in Client,
               op[c] = "stop", step'[c] = "stopped"
        PROVE  LET s == seen[c].record IN
               /\ ~Alive(s)
               /\ homeLock # s
               /\ \A p \in Port : bound[p] # s
    <2>1. seen[c].record \in Server /\ ~Alive(seen[c].record)
      BY <1>1, StoppedStep
    <2>2. \A s \in Server : ~Alive(s) => homeLock # s
      BY <1>1 DEF IInv, Alive, LocksHeld, HoldingPc
    <2>3. \A s \in Server, p \in Port : ~Alive(s) => bound[p] # s
      BY <1>1 DEF IInv, Alive, Listeners, ListeningPc
    <2>4. QED
      BY <2>1, <2>2, <2>3
  <1>2. IInv /\ [Next]_vars =>
          [\A c \in Client :
             op[c] = "stop" /\ step'[c] = "stopped"
             => LET s == seen[c].record IN
                /\ ~Alive(s)
                /\ homeLock # s
                /\ \A p \in Port : bound[p] # s]_vars
    BY <1>1
  <1>3. QED
    BY <1>2, Inductive, PTL DEF Spec, StopMeansGone
\* Stop signals the process it found recorded and no other, whoever has been
\* given its pid since.
THEOREM SignalsTheRecorded == Spec => SignalsOnlyTheRecorded
  <1>1. ASSUME IInv, [Next]_vars, NEW c \in Client, NEW s \in Server,
               step[c] = "terminate", step'[c] # "terminate", spc'[s] # spc[s]
        PROVE  s = seen[c].record
    <2>1. Terminate(c) \/ CrashClient(c)
      BY <1>1, TerminatingStep
    <2>2. ~CrashClient(c)
      BY <1>1 DEF CrashClient, serverVars
    <2>3. \/ spc' = spc
          \/ spc' = [spc EXCEPT ![seen[c].record] = "exited"]
          \/ spc' = [spc EXCEPT ![seen[c].record] = "draining"]
      BY <2>1, <2>2 DEF Terminate, Dies, BeginsDraining, serverVars
    <2>4. spc \in [Server -> ServerPc]
      BY <1>1 DEF IInv, TypeOK
    <2>5. QED
      BY <1>1, <2>3, <2>4
  <1>2. IInv /\ [Next]_vars =>
          [\A c \in Client, s \in Server :
             step[c] = "terminate" /\ step'[c] # "terminate" /\ spc'[s] # spc[s]
             => s = seen[c].record]_vars
    BY <1>1
  <1>3. QED
    BY <1>2, Inductive, PTL DEF Spec, SignalsOnlyTheRecorded

\* A start that fails after it spawned a server returns when that server's
\* process is gone.
THEOREM FailedStartsCleanUp == Spec => FailedStartLeavesNoServer
  <1>1. ASSUME IInv, [Next]_vars, NEW c \in Client,
               op[c] = "await", step'[c] = "failed"
        PROVE  spc'[child[c]] = "exited"
    <2>1. child[c] \in Server /\ spc[child[c]] # "unborn"
      BY <1>1 DEF IInv, Knowledge
    <2>2. CASE ChildExited(c)
      BY <1>1, <2>1, <2>2 DEF ChildExited, Alive, serverVars, IInv, TypeOK
    <2>3. CASE GiveUp(c)
      BY <1>1, <2>1, <2>3 DEF GiveUp, Dies, IInv, TypeOK
    <2>4. QED
      BY <1>1, <2>2, <2>3, FailedAwaitStep
  <1>2. IInv /\ [Next]_vars =>
          [\A c \in Client :
             op[c] = "await" /\ step'[c] = "failed"
             => spc'[child[c]] = "exited"]_vars
    BY <1>1
  <1>3. QED
    BY <1>2, Inductive, PTL DEF Spec, FailedStartLeavesNoServer

-----------------------------------------------------------------------------
(* Lifecycle implements HomeOwner.  A step changes who owns the home, who is *)
(* announced and who writes it in one of HomeOwner's ways, and what a        *)
(* command believes only by a probe or by forgetting.                        *)

\* One of HomeOwner's steps of the owner, or none.
OwnerStep ==
    \/ \E h \in Client \cup Server : Home!Take(h)
    \/ \E c \in Client : Home!TakeAndWrite(c)
    \/ Home!Announce
    \/ Home!Withdraw
    \/ Home!BeginWrite
    \/ Home!EndWrite
    \/ Home!Leave
    \/ Home!Forget

ForgetStep == \E commands \in SUBSET Client : Home!Forgets(commands)

\* A command that does not probe learns of no other server.
SeenKept(c) ==
    \/ seen' = seen
    \/ \E x \in Sight :
          /\ seen' = [seen EXCEPT ![c] = x]
          /\ \/ ~x.running
             \/ x.running = seen[c].running /\ x.record = seen[c].record

WritingCommands == {c \in Client : step[c] = "write"}

\* A command moves without beginning or ending a write.
Moves(c) ==
    /\ step[c] # "write"
    /\ \E to \in Step \ {"write"} : step' = [step EXCEPT ![c] = to]

LEMMA StepsTogether ==
  ASSUME OwnerStep, ForgetStep
  PROVE  Home!Next
  BY DEF OwnerStep, ForgetStep, Home!Next

LEMMA Forgetting ==
  ASSUME TypeOK, NEW c \in Client, SeenKept(c)
  PROVE  ForgetStep
  <1>1. CASE seen' = seen
    <2>1. Home!Forgets({})
      BY <1>1 DEF Home!Forgets, Believes
    <2>2. QED
      BY <2>1 DEF ForgetStep
  <1>2. ASSUME NEW x \in Sight, seen' = [seen EXCEPT ![c] = x], ~x.running
        PROVE  ForgetStep
    <2>1. Home!Forgets({c})
      BY <1>2 DEF Home!Forgets, Believes, TypeOK
    <2>2. QED
      BY <2>1 DEF ForgetStep
  <1>3. ASSUME NEW x \in Sight, seen' = [seen EXCEPT ![c] = x],
               x.running = seen[c].running, x.record = seen[c].record
        PROVE  ForgetStep
    <2>1. Home!Forgets({})
      BY <1>3 DEF Home!Forgets, Believes, TypeOK
    <2>2. QED
      BY <2>1 DEF ForgetStep
  <1>4. QED
    BY <1>1, <1>2, <1>3 DEF SeenKept

-----------------------------------------------------------------------------
(* The owner's steps *)

LEMMA Quiet ==
  ASSUME homeLock' = homeLock, record' = record, Writers' = Writers
  PROVE  OwnerStep
  BY DEF OwnerStep, Home!Forget, Announced

LEMMA Withdrawing ==
  ASSUME homeLock' = homeLock, record' = None, Writers' = Writers
  PROVE  OwnerStep
  BY ConstantsAssumption DEF OwnerStep, Home!Withdraw, Announced

LEMMA Leaving ==
  ASSUME TypeOK', SingleWriter', homeLock # None, homeLock' = None
  PROVE  OwnerStep
  <1>1. None \notin Client \cup Server
    BY ConstantsAssumption
  <1>2. Writers' \subseteq Client \cup Server
    BY DEF Writers, TypeOK
  <1>3. Writers' = {}
    BY <1>1, <1>2 DEF SingleWriter
  <1>4. Announced' = None
    BY <1>1 DEF Announced
  <1>5. QED
    BY <1>3, <1>4 DEF OwnerStep, Home!Leave

LEMMA Taking ==
  ASSUME TypeOK, NEW h \in Client \cup Server, homeLock = None, homeLock' = h,
         record # h, record' = record, Writers' = Writers
  PROVE  OwnerStep
  <1>1. None \notin Server
    BY ConstantsAssumption
  <1>2. Announced = None /\ Announced' = None
    BY <1>1 DEF Announced
  <1>3. Home!Take(h)
    BY <1>2 DEF Home!Take
  <1>4. QED
    BY <1>3 DEF OwnerStep

\* A process that dies leaves the home, or did not own it.
LEMMA Dying ==
  ASSUME ~SlowHandlers, IInv, TypeOK', SingleWriter', NEW s \in Server, Dies(s),
         record' = record, WritingCommands' = WritingCommands
  PROVE  OwnerStep
  <1>1. s # None
    BY ConstantsAssumption
  <1>2. CASE homeLock = s
    BY <1>1, <1>2, Leaving DEF Dies
  <1>3. CASE homeLock # s
    <2>1. s \notin writing
      BY <1>3 DEF IInv, RequestsRunInServer, LocksHeld, HoldingPc
    <2>2. writing' = writing
      BY <2>1 DEF Dies
    <2>3. QED
      BY <1>3, <2>2, Quiet DEF Dies, Writers, WritingCommands
  <1>4. QED
    BY <1>2, <1>3

LEMMA ServerImplements ==
  ASSUME ~SlowHandlers, IInv, IInv', SingleWriter, SingleWriter',
         NEW s \in Server,
         LaunchForeground(s) \/ ServerProgress(s) \/ FinishRequest(s)
         \/ Interrupt(s) \/ CrashServer(s)
  PROVE  OwnerStep
  <1> USE DEF clientVars, fileVars, ServerGoes
  <1>a. TypeOK /\ TypeOK' /\ None \notin Client \cup Server
    BY ConstantsAssumption DEF IInv
  <1>1. CASE LaunchForeground(s) \/ WriteSecret(s) \/ Listen(s) \/ Interrupt(s)
             \/ Drained(s)
    BY <1>1, Quiet
    DEF LaunchForeground, WriteSecret, Listen, Interrupt, Drained, Writers
  <1>2. CASE TakeHome(s)
    <2>1. CASE UNCHANGED homeLock
      BY <1>2, <2>1, Quiet DEF TakeHome, Writers
    <2>2. CASE homeLock = None /\ homeLock' = s
      <3>1. homeLock' = s /\ record' = record /\ Writers' = Writers
        BY <1>2, <2>2 DEF TakeHome, Writers
      <3>2. record # s
        BY <1>2 DEF TakeHome, IInv, RecordFollows, Published
      <3>3. QED
        BY <1>a, <2>2, <3>1, <3>2, Taking
    <2>3. QED
      BY <1>2, <2>1, <2>2 DEF TakeHome
  <1>3. CASE ClearFiles(s) \/ RemoveOwnFiles(s)
    BY <1>3, Withdrawing DEF ClearFiles, RemoveOwnFiles, Writers
  <1>4. CASE Publish(s)
    <2>1. homeLock = s /\ homeLock' = s /\ record = None /\ Writers' = Writers
      BY <1>4 DEF Publish, IInv, LocksHeld, HoldingPc, RecordFollows, Writers
    <2>2. CASE record' = s
      <3>1. Announced = None /\ Announced' = s
        BY <1>a, <2>1, <2>2 DEF Announced
      <3>2. Home!Announce
        BY <2>1, <3>1 DEF Home!Announce
      <3>3. QED
        BY <3>2 DEF OwnerStep
    <2>3. CASE record' = record
      BY <2>1, <2>3, Quiet
    <2>4. QED
      BY <1>4, <2>2, <2>3 DEF Publish
  <1>5. CASE UnlockHome(s)
    <2>1. homeLock = s /\ homeLock' = None
      BY <1>5 DEF UnlockHome, IInv, LocksHeld, HoldingPc
    <2>2. QED
      BY <1>a, <2>1, Leaving
  <1>6. CASE Leave(s) \/ CrashServer(s)
    BY <1>6, <1>a, Dying DEF Leave, CrashServer, WritingCommands
  <1>7. CASE FinishRequest(s)
    <2>1. homeLock = s /\ s \in writing
      BY <1>7 DEF FinishRequest, SingleWriter, Writers
    <2>2. Writers' \subseteq Writers
      BY <1>7 DEF FinishRequest, Writers
    <2>3. s \notin Writers'
      BY <1>7, ConstantsAssumption DEF FinishRequest, Writers
    <2>4. Writers' = {}
      BY <2>1, <2>2, <2>3 DEF SingleWriter
    <2>5. UNCHANGED <<homeLock, Announced>>
      BY <1>7 DEF FinishRequest, Announced
    <2>6. QED
      BY <2>4, <2>5 DEF OwnerStep, Home!EndWrite
  <1>8. QED
    BY <1>1, <1>2, <1>3, <1>4, <1>5, <1>6, <1>7 DEF ServerProgress

-----------------------------------------------------------------------------
(* The commands' steps *)

LEMMA Moving ==
  ASSUME TypeOK, NEW c \in Client, Moves(c)
  PROVE  WritingCommands' = WritingCommands
  BY DEF TypeOK, Moves, WritingCommands

LEMMA MovingQuietly ==
  ASSUME TypeOK, NEW c \in Client, Moves(c), homeLock' = homeLock,
         record' = record, writing' = writing
  PROVE  OwnerStep
  BY Moving, Quiet DEF Writers, WritingCommands

\* Every step of a command that neither writes nor is about to.
LEMMA ClientMoves ==
  ASSUME IInv, NEW c \in Client,
         \/ Begin(c) \/ Inspects(c) \/ Starts(c) \/ Stops(c)
         \/ DecideWrite(c) \/ PutConfig(c) \/ WriteTakesStart(c)
  PROVE  Moves(c)
  <1> USE DEF Moves, Goes, Looks, Turns, Ends, Step, Outcome
  <1>a. Control /\ op[c] \in Op
    BY DEF IInv, TypeOK
  <1>1. CASE Begin(c)
    BY <1>1, <1>a DEF Begin, Control
  <1>2. CASE Inspects(c)
    BY <1>2 DEF Inspects, ReadRecord, ReadSecret, Probe
  <1>3. CASE LockStart(c) \/ FindRunning(c) \/ CheckPort(c) \/ Spawn(c)
             \/ SpawnFails(c)
    BY <1>3 DEF LockStart, FindRunning, CheckPort, Spawn, SpawnFails
  <1>4. CASE Tick(c) \/ ChildExited(c) \/ GiveUp(c)
    BY <1>4, <1>a DEF Tick, ChildExited, GiveUp, Control, InspectStep
  <1>5. CASE DecideStop(c) \/ RequestShutdown(c) \/ Identify(c) \/ Terminate(c)
             \/ WaitGone(c)
    BY <1>5 DEF DecideStop, RequestShutdown, Identify, Terminate, WaitGone
  <1>6. CASE ClearTakesStart(c) \/ ClearTakesHome(c) \/ ClearRemoves(c)
             \/ ClearUnlocks(c)
    BY <1>6 DEF ClearTakesStart, ClearTakesHome, ClearRemoves, ClearUnlocks,
                StopOutcome
  <1>7. CASE DecideWrite(c) \/ PutConfig(c) \/ WriteTakesStart(c)
    BY <1>7 DEF DecideWrite, PutConfig, WriteTakesStart
  <1>8. QED
    BY <1>1, <1>2, <1>3, <1>4, <1>5, <1>6, <1>7 DEF Starts, Stops

\* What each of these steps does to the home.
LEMMA StartImplements ==
  ASSUME ~SlowHandlers, IInv, IInv', SingleWriter', NEW c \in Client, Starts(c)
  PROVE  OwnerStep
  <1> USE DEF serverVars, fileVars, KeepLocks, DropLocks
  <1>a. TypeOK /\ TypeOK' /\ Moves(c)
    BY ClientMoves DEF IInv
  <1>b. op[c] \in {"start", "busyStart", "await"} => homeLock # c
    BY DEF IInv, Control, LocksHeld, InspectStep
  <1>c. step[c] \in {"port", "spawn"} => homeLock # c
    BY DEF IInv, LocksHeld
  <1>1. CASE GiveUp(c)
    <2>1. child[c] \in Server /\ Dies(child[c]) /\ record' = record
      BY <1>1 DEF GiveUp, IInv, Knowledge
    <2>2. QED
      BY <1>a, <2>1, Dying, Moving
  <1>2. CASE LockStart(c) \/ FindRunning(c) \/ CheckPort(c) \/ Spawn(c)
             \/ SpawnFails(c) \/ Tick(c) \/ ChildExited(c)
    <2>1. homeLock' = homeLock /\ record' = record /\ writing' = writing
      BY <1>2, <1>b, <1>c
      DEF LockStart, FindRunning, CheckPort, Spawn, SpawnFails, Tick,
          ChildExited
    <2>2. QED
      BY <1>a, <2>1, MovingQuietly
  <1>3. QED
    BY <1>1, <1>2 DEF Starts

LEMMA StopImplements ==
  ASSUME ~SlowHandlers, IInv, IInv', SingleWriter', NEW c \in Client, Stops(c)
  PROVE  OwnerStep
  <1> USE DEF serverVars, fileVars
  <1>a. TypeOK /\ TypeOK' /\ Moves(c) /\ c # None
    BY ClientMoves, ConstantsAssumption DEF IInv
  <1>1. CASE Terminate(c)
    <2>1. seen[c].record \in Server /\ record' = record
      BY <1>1 DEF Terminate, IInv, Knowledge
    <2>2. CASE Dies(seen[c].record)
      BY <1>a, <2>1, <2>2, Dying, Moving
    <2>3. CASE homeLock' = homeLock /\ writing' = writing
      BY <1>a, <2>1, <2>3, MovingQuietly
    <2>4. QED
      BY <1>1, <2>2, <2>3 DEF Terminate
  <1>2. CASE DecideStop(c) \/ RequestShutdown(c) \/ Identify(c) \/ WaitGone(c)
             \/ ClearTakesStart(c)
    BY <1>2, <1>a, MovingQuietly
    DEF DecideStop, RequestShutdown, Identify, WaitGone, ClearTakesStart
  <1>3. CASE ClearTakesHome(c)
    <2>1. CASE UNCHANGED homeLock
      BY <1>3, <1>a, <2>1, MovingQuietly DEF ClearTakesHome
    <2>2. CASE homeLock = None /\ homeLock' = c
      <3>1. homeLock' = c /\ record' = record /\ writing' = writing
        BY <1>3, <2>2 DEF ClearTakesHome
      <3>2. Writers' = Writers
        BY <1>a, <3>1, Moving DEF Writers, WritingCommands
      <3>3. record # c
        BY <1>a, ConstantsAssumption DEF TypeOK
      <3>4. QED
        BY <1>a, <2>2, <3>1, <3>2, <3>3, Taking
    <2>3. QED
      BY <1>3, <2>1, <2>2 DEF ClearTakesHome
  <1>4. CASE ClearRemoves(c)
    <2>1. Writers' = Writers
      BY <1>4, <1>a, Moving DEF ClearRemoves, Writers, WritingCommands
    <2>2. QED
      BY <1>4, <2>1, Withdrawing DEF ClearRemoves
  <1>5. CASE ClearUnlocks(c)
    <2>1. homeLock = c /\ homeLock' = None
      BY <1>5 DEF ClearUnlocks, DropLocks, IInv, LocksHeld
    <2>2. QED
      BY <1>a, <2>1, Leaving
  <1>6. QED
    BY <1>1, <1>2, <1>3, <1>4, <1>5 DEF Stops

LEMMA WriteImplements ==
  ASSUME ~SlowHandlers, IInv, IInv', SingleWriter, SingleWriter',
         NEW c \in Client, Writes(c)
  PROVE  OwnerStep
  <1> USE DEF serverVars, fileVars
  <1>a. TypeOK /\ TypeOK' /\ c # None
    BY ConstantsAssumption DEF IInv
  <1>1. CASE DecideWrite(c) \/ WriteTakesStart(c)
    BY <1>1, <1>a, ClientMoves, MovingQuietly DEF DecideWrite, WriteTakesStart
  <1>2. CASE PutConfig(c)
    <2>a. Moves(c)
      BY <1>2, ClientMoves
    <2>1. CASE writing' = writing
      BY <1>2, <1>a, <2>a, <2>1, MovingQuietly DEF PutConfig
    <2>2. ASSUME Answers(seen[c].record, seen[c].secret),
                 writing' = writing \cup {seen[c].record}
          PROVE  OwnerStep
      <3>1. homeLock' = homeLock /\ record' = record
        BY <1>2 DEF PutConfig
      <3>2. seen[c].record \in Server /\ Published(seen[c].record)
        BY <1>2 DEF PutConfig, IInv, Knowledge
      <3>3. spc[seen[c].record] = "serving"
        BY <2>2, <3>2 DEF Answers, ListeningPc, Published
      <3>4. homeLock = seen[c].record
        BY <3>2, <3>3 DEF IInv, LocksHeld, HoldingPc
      <3>5. seen[c].record \in Writers'
        BY <2>2 DEF Writers
      <3>6. Writers' = {homeLock}
        BY <3>1, <3>4, <3>5 DEF SingleWriter
      <3>7. homeLock # None
        BY <3>2, <3>4, ConstantsAssumption
      <3>8. Announced' = Announced
        BY <3>1 DEF Announced
      <3>9. QED
        BY <3>1, <3>6, <3>7, <3>8 DEF OwnerStep, Home!BeginWrite
    <2>3. QED
      BY <1>2, <2>1, <2>2 DEF PutConfig
  <1>3. CASE WriteTakesHome(c)
    <2>1. CASE UNCHANGED homeLock
      <3>1. Moves(c)
        BY <1>3, <1>a, <2>1
        DEF WriteTakesHome, Moves, Goes, Turns, Ends, Step, Outcome
      <3>2. QED
        BY <1>3, <1>a, <2>1, <3>1, MovingQuietly DEF WriteTakesHome
    <2>2. CASE homeLock = None /\ homeLock' = c /\ Goes(c, "write")
      <3>1. homeLock' = c /\ record' = record
        BY <1>3, <2>2 DEF WriteTakesHome
      <3>2. c \in Writers'
        BY <1>3, <2>2 DEF WriteTakesHome, Goes, Writers, IInv, TypeOK
      <3>3. Writers' = {c}
        BY <3>1, <3>2 DEF SingleWriter
      <3>4. c \notin Server /\ None \notin Server
        BY ConstantsAssumption
      <3>5. Announced = None /\ Announced' = None
        BY <2>2, <3>1, <3>4 DEF Announced
      <3>6. Home!TakeAndWrite(c)
        BY <2>2, <3>1, <3>3, <3>5 DEF Home!TakeAndWrite
      <3>7. QED
        BY <3>6 DEF OwnerStep
    <2>3. QED
      BY <1>3, <2>1, <2>2 DEF WriteTakesHome
  <1>4. CASE WriteEnds(c)
    <2>1. homeLock = c /\ homeLock' = None
      BY <1>4 DEF WriteEnds, DropLocks, IInv, LocksHeld
    <2>2. QED
      BY <1>a, <2>1, Leaving
  <1>5. QED
    BY <1>1, <1>2, <1>3, <1>4 DEF Writes

LEMMA CrashImplements ==
  ASSUME IInv, IInv', SingleWriter', NEW c \in Client, CrashClient(c)
  PROVE  OwnerStep
  <1>a. TypeOK /\ TypeOK' /\ c # None
    BY ConstantsAssumption DEF IInv
  <1>1. CASE homeLock = c
    BY <1>1, <1>a, Leaving DEF CrashClient, DropLocks
  <1>2. CASE homeLock # c
    <2>1. step[c] # "write"
      BY <1>2 DEF IInv, LocksHeld
    <2>2. Moves(c)
      BY <2>1 DEF CrashClient, Moves, Ends, Step, Outcome
    <2>3. QED
      BY <1>2, <1>a, <2>2, MovingQuietly
      DEF CrashClient, DropLocks, serverVars, fileVars
  <1>3. QED
    BY <1>1, <1>2

-----------------------------------------------------------------------------
(* What commands believe *)

LEMMA SeenStep ==
  ASSUME IInv, NEW c \in Client,
         \/ Begin(c) \/ ReadRecord(c) \/ ReadSecret(c) \/ Starts(c) \/ Stops(c)
         \/ Writes(c) \/ CrashClient(c)
  PROVE  SeenKept(c)
  <1>a. seen[c] \in Sight /\ record \in Server \cup {None, Corrupt}
        /\ secret \in Server \cup {None}
    BY DEF IInv, TypeOK
  <1>b. ASSUME NEW o, Ends(c, o)
        PROVE  SeenKept(c)
    <2>1. NoSight \in Sight /\ ~NoSight.running
      BY DEF NoSight, Sight
    <2>2. QED
      BY <1>b, <2>1 DEF Ends, SeenKept
  <1>c. ASSUME NEW to, Goes(c, to)
        PROVE  SeenKept(c)
    BY <1>c DEF Goes, SeenKept
  <1>d. ASSUME NEW o, NEW to, Turns(c, o, to)
        PROVE  SeenKept(c)
    BY <1>d DEF Turns, SeenKept
  <1>e. ASSUME NEW x \in Sight, NEW to, Looks(c, x, to),
               ~x.running \/ (x.running = seen[c].running
                              /\ x.record = seen[c].record)
        PROVE  SeenKept(c)
    BY <1>e DEF Looks, SeenKept
  <1>1. CASE Begin(c)
    BY <1>1, <1>d DEF Begin, SeenKept
  <1>2. CASE ReadRecord(c)
    <2>1. /\ [NoSight EXCEPT !.record = record] \in Sight
          /\ ~[NoSight EXCEPT !.record = record].running
      BY <1>a DEF NoSight, Sight
    <2>2. QED
      BY <1>2, <1>e, <2>1 DEF ReadRecord
  <1>3. CASE ReadSecret(c)
    <2>1. /\ [seen[c] EXCEPT !.secret = secret] \in Sight
          /\ [seen[c] EXCEPT !.secret = secret].running = seen[c].running
          /\ [seen[c] EXCEPT !.secret = secret].record = seen[c].record
      BY <1>a DEF Sight
    <2>2. QED
      BY <1>3, <1>e, <2>1 DEF ReadSecret
  <1>4. CASE Starts(c)
    BY <1>4, <1>b, <1>c, <1>d
    DEF Starts, LockStart, FindRunning, CheckPort, Spawn, SpawnFails, Tick,
        ChildExited, GiveUp, SeenKept
  <1>5. CASE Identify(c)
    <2>1. CASE Goes(c, "terminate")
      BY <2>1, <1>c
    <2>2. ASSUME NEW m \in BOOLEAN,
                 Looks(c, [seen[c] EXCEPT !.mismatch = m], "clearStart")
          PROVE  SeenKept(c)
      <3>1. /\ [seen[c] EXCEPT !.mismatch = m] \in Sight
            /\ [seen[c] EXCEPT !.mismatch = m].running = seen[c].running
            /\ [seen[c] EXCEPT !.mismatch = m].record = seen[c].record
        BY <1>a DEF Sight
      <3>2. QED
        BY <2>2, <3>1, <1>e
    <2>3. QED
      BY <1>5, <1>b, <2>1, <2>2 DEF Identify, NoProcess
  <1>6. CASE Terminate(c)
    <2>1. /\ [seen[c] EXCEPT !.forced = TRUE] \in Sight
          /\ [seen[c] EXCEPT !.forced = TRUE].running = seen[c].running
          /\ [seen[c] EXCEPT !.forced = TRUE].record = seen[c].record
      BY <1>a DEF Sight
    <2>2. QED
      BY <1>6, <2>1, <1>b, <1>e DEF Terminate
  <1>7. CASE DecideStop(c) \/ RequestShutdown(c) \/ WaitGone(c)
             \/ ClearTakesStart(c) \/ ClearTakesHome(c) \/ ClearRemoves(c)
             \/ ClearUnlocks(c)
    BY <1>7, <1>b, <1>c
    DEF DecideStop, RequestShutdown, WaitGone, ClearTakesStart, ClearTakesHome,
        ClearRemoves, ClearUnlocks
  <1>8. CASE Writes(c)
    BY <1>8, <1>b, <1>c, <1>d
    DEF Writes, DecideWrite, PutConfig, WriteTakesStart, WriteTakesHome,
        WriteEnds
  <1>9. CASE CrashClient(c)
    BY <1>9, <1>b DEF CrashClient
  <1>10. QED
    BY <1>1, <1>2, <1>3, <1>4, <1>5, <1>6, <1>7, <1>8, <1>9 DEF Stops

\* A probe learns of the announced server or forgets what it knew.
LEMMA ProbeImplements ==
  ASSUME IInv, NEW c \in Client, Probe(c)
  PROVE  Home!Learn(c) \/ (OwnerStep /\ ForgetStep)
  <1> USE DEF serverVars, fileVars
  <1>a. TypeOK /\ Moves(c)
    BY ClientMoves DEF IInv, Inspects
  <1>b. UNCHANGED <<homeLock, record, writing>>
    BY DEF Probe
  <1>1. PICK r \in BOOLEAN :
          /\ r => Answers(seen[c].record, seen[c].secret)
          /\ seen' = [seen EXCEPT ![c] = [seen[c] EXCEPT !.running = r]]
    BY DEF Probe, Looks, Answers
  <1>2. seen[c] \in Sight /\ seen[c].record \in Server
        /\ Published(seen[c].record)
    BY DEF Probe, IInv, TypeOK, Knowledge
  <1>3. CASE ~r
    <2>1. [seen[c] EXCEPT !.running = r] \in Sight
          /\ [seen[c] EXCEPT !.running = r].running = r
      BY <1>2 DEF Sight
    <2>2. SeenKept(c)
      BY <1>1, <1>3, <2>1 DEF SeenKept
    <2>3. QED
      BY <1>a, <1>b, <2>2, Forgetting, MovingQuietly
  <1>4. CASE r
    <2>1. spc[seen[c].record] = "serving"
      BY <1>1, <1>2, <1>4 DEF Answers, ListeningPc, Published
    <2>2. homeLock = seen[c].record /\ record = seen[c].record
      BY <1>2, <2>1 DEF IInv, LocksHeld, HoldingPc, FilesBelongToHolder
    <2>3. Announced = seen[c].record /\ Announced # None
      BY <1>2, <2>2, ConstantsAssumption DEF Announced
    <2>4. UNCHANGED <<homeLock, Announced, Writers>>
      BY <1>a, <1>b, Moving DEF Announced, Writers, WritingCommands
    <2>5. \A d \in Client : d # c => seen'[d] = seen[d]
      BY <1>1, <1>a DEF TypeOK
    <2>6. seen'[c].running /\ seen'[c].record = seen[c].record
      BY <1>1, <1>2, <1>4, <1>a DEF TypeOK, Sight
    <2>7. Believes' = [Believes EXCEPT ![c] = Announced]
      BY <2>3, <2>5, <2>6 DEF Believes
    <2>8. QED
      BY <2>3, <2>4, <2>7 DEF Home!Learn
  <1>5. QED
    BY <1>3, <1>4

-----------------------------------------------------------------------------
(* The refinement *)

LEMMA InitImplements == Init => Home!Init
  BY DEF Init, Home!Init, Announced, Believes, Writers, NoSight

LEMMA StepImplements ==
  ASSUME ~SlowHandlers, IInv, [Next]_vars
  PROVE  [Home!Next]_(Home!vars)
  <1>a. IInv' /\ SingleWriter /\ SingleWriter' /\ TypeOK
    <2>1. IInv'
      BY IInvNext
    <2>2. SingleWriter
      BY WriterHolds
    <2>3. IInv' => SingleWriter'
      BY WriterHolds, PTL
    <2>4. QED
      BY <2>1, <2>2, <2>3 DEF IInv
  <1>1. ASSUME NEW s \in Server,
               LaunchForeground(s) \/ ServerProgress(s) \/ FinishRequest(s)
               \/ Interrupt(s) \/ CrashServer(s)
        PROVE  Home!Next
    <2>1. seen' = seen
      BY <1>1 DEF LaunchForeground, ServerProgress, FinishRequest, Interrupt,
                  CrashServer, TakeHome, ClearFiles, WriteSecret, Listen,
                  Publish, Drained, RemoveOwnFiles, UnlockHome, Leave,
                  clientVars
    <2>2. Home!Forgets({})
      BY <2>1 DEF Home!Forgets, Believes
    <2>3. ForgetStep
      BY <2>2 DEF ForgetStep
    <2>4. QED
      BY <1>1, <1>a, <2>3, ServerImplements, StepsTogether
  <1>2. ASSUME NEW c \in Client,
               Begin(c) \/ Inspects(c) \/ Starts(c) \/ Stops(c) \/ Writes(c)
               \/ CrashClient(c)
        PROVE  Home!Next
    <2>1. CASE Probe(c)
      <3>1. Home!Learn(c) \/ (OwnerStep /\ ForgetStep)
        BY <2>1, ProbeImplements
      <3>2. QED
        BY <3>1, StepsTogether DEF Home!Next
    <2>2. CASE Begin(c) \/ ReadRecord(c) \/ ReadSecret(c)
      <3>1. Moves(c)
        BY <2>2, ClientMoves DEF Inspects
      <3>2. UNCHANGED <<homeLock, record, writing>>
        BY <2>2 DEF Begin, ReadRecord, ReadSecret, serverVars, fileVars
      <3>3. OwnerStep /\ ForgetStep
        BY <1>a, <2>2, <3>1, <3>2, MovingQuietly, SeenStep, Forgetting
      <3>4. QED
        BY <3>3, StepsTogether
    <2>3. CASE Starts(c) \/ Stops(c) \/ Writes(c) \/ CrashClient(c)
      <3>1. OwnerStep
        BY <1>a, <2>3, StartImplements, StopImplements, WriteImplements,
           CrashImplements
      <3>2. ForgetStep
        BY <1>a, <2>3, SeenStep, Forgetting
      <3>3. QED
        BY <3>1, <3>2, StepsTogether
    <2>4. QED
      BY <1>2, <2>1, <2>2, <2>3 DEF Inspects
  <1>3. CASE \/ \E p \in Pid : OtherProcess(p)
             \/ \E p \in Port : OtherListener(p)
             \/ UNCHANGED vars
    <2>1. UNCHANGED <<homeLock, record, writing, step, seen>>
      BY <1>3 DEF OtherProcess, OtherListener, vars, serverVars, fileVars,
                  clientVars
    <2>2. UNCHANGED <<homeLock, Announced, Writers, Believes>>
      BY <2>1 DEF Announced, Writers, Believes
    <2>3. QED
      BY <2>2 DEF Home!vars
  <1>4. QED
    BY <1>1, <1>2, <1>3 DEF Next

\* As long as every request ends within the shutdown deadline, the runtime
\* directory implements the single-owner home: one owner, which alone writes
\* the home and alone is announced, and commands that believe only in a server
\* that they met as the announced owner.
THEOREM ImplementsTheHome == ASSUME ~SlowHandlers PROVE Spec => ImplementsHomeOwner
  <1>1. IInv /\ [Next]_vars => [Home!Next]_(Home!vars)
    BY StepImplements
  <1>2. QED
    BY <1>1, InitImplements, Inductive, PTL
    DEF Spec, ImplementsHomeOwner, Home!Spec
=============================================================================
