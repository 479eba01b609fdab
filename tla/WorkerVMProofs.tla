---------------------------- MODULE WorkerVMProofs ----------------------------
(***************************************************************************)
(* Proofs about WorkerVM, for any tasks and any idle time longer than a    *)
(* container takes to start and docker is silent for.                      *)
(***************************************************************************)
EXTENDS WorkerVM, TLAPS

LEMMA InitKeeps == Init => VMInv
  <1> SUFFICES ASSUME Init PROVE VMInv
    OBVIOUS
  <1>1. /\ 0 \in 0 .. MaxStart /\ 0 \in 0 .. MaxBlind /\ 0 \in 0 .. 2
        /\ ran \in [Task -> 0 .. 2] /\ \A t \in Task : ran[t] = 0
    BY WorkerAssumption DEF Init
  <1>2. TypeOK  BY <1>1 DEF Init, TypeOK
  <1>3. UnsentIsFresh /\ MarkedIfRun /\ StartsFresh /\ RunsAtMostOnce
    BY <1>1, WorkerAssumption
       DEF Init, UnsentIsFresh, MarkedIfRun, StartsFresh, RunsAtMostOnce
  <1>4. /\ ConsumedOrStarting /\ ConsumedMeansRun /\ StopperWaits /\ IdleWaits
        /\ TimerFirst /\ TaskIsWatched
    BY DEF Init, ConsumedOrStarting, ConsumedMeansRun, StopperWaits, IdleWaits, Starting,
           TimerFirst, TaskIsWatched
  <1>5. QED  BY <1>2, <1>3, <1>4 DEF VMInv

-----------------------------------------------------------------------------
(* Types.                                                                  *)
LEMMA TypeStep ==
    ASSUME TypeOK, StopperWaits, IdleWaits, [Next]_vars
    PROVE  TypeOK'
  <1> USE DEF TypeOK, external, history, scriptVars, dockerVars, timerVars, stopperVars
  <1>0. 0 \in 0 .. MaxStart /\ 0 \in 0 .. MaxBlind /\ 0 \in 0 .. Idle /\ Idle \in Nat
        /\ MaxStart \in Nat /\ MaxBlind \in Nat
    BY WorkerAssumption
  <1>1. ASSUME NEW t \in Task, Dispatch(t)  PROVE TypeOK'  BY <1>1 DEF Dispatch
  <1>2. CASE Boot  BY <1>0, <1>2 DEF Boot, Cleared, InRun
  <1>3. CASE Cut
    <2>1. script \in {"run", "unmark"} => task \in Task  OBVIOUS
    <2>2. lost' \subseteq Task  BY <1>3, <2>1 DEF Cut
    <2>3. QED  BY <1>0, <1>3, <2>2 DEF Cut, Cleared, InRun
  <1>4. CASE PowerOff  BY <1>0, <1>4 DEF PowerOff, Cleared, InRun
  <1>5. CASE EnableTimer  BY <1>5 DEF EnableTimer, At, EnabledNow
  <1>6. CASE StartStopper  BY <1>6 DEF StartStopper, At
  <1>7. CASE ReadTask  BY <1>7 DEF ReadTask, At
  <1>8. CASE Mark  BY <1>8 DEF Mark, At, Marked
  <1>9. CASE DockerRun
    <2>1. task \in Task /\ power = "on"  BY <1>9 DEF DockerRun, At
    <2>2. ran' \in [Task -> 0 .. 2]  BY <1>9, <2>1 DEF DockerRun
    <2>3. ~died  BY <1>9 DEF DockerRun, At, StopperWaits
    <2>4. script' \in {"ended", "unmark"} /\ (script' = "unmark" => task' # None)
      BY <1>9, <2>1 DEF DockerRun, At
    <2>5. UNCHANGED <<power, external, taskDone, lost, task, spent, died, dockerVars, timerVars,
                     stopperVars>>
      BY <1>9 DEF DockerRun
    <2>6. container' \in BOOLEAN  BY <1>9 DEF DockerRun
    <2>7. QED  BY <2>1, <2>2, <2>3, <2>4, <2>5, <2>6
  <1>10. CASE Unmark  BY <1>10 DEF Unmark, At, RemoveMark
  <1>11. CASE Subscribe  BY <1>11 DEF Subscribe, SinceBoot
  <1>12. CASE ReadEvent  BY <1>12 DEF ReadEvent
  <1>13. CASE LookAgain  BY <1>13 DEF LookAgain
  <1>14. CASE StreamEnds
    <2>1. stopper' \in {"off", "subscribe", "read", "grace", "halt"} /\ pipe' \subseteq {"die", "end"}
      BY <1>14 DEF StreamEnds
    <2>2. power = "on"  BY <1>14 DEF StreamEnds
    <2>3. UNCHANGED <<power, external, taskDone, history, scriptVars, container, died,
                     dockerVars, timerVars>>
      BY <1>14 DEF StreamEnds
    <2>4. QED  BY <2>1, <2>2, <2>3
  <1>15. CASE ContainerDies
    <2>1. container' = FALSE /\ died' = TRUE  BY <1>15 DEF ContainerDies
    <2>2. pipe' \subseteq {"die", "end"}  BY <1>15 DEF ContainerDies
    <2>3. power = "on"  BY <1>15 DEF ContainerDies
    <2>4. UNCHANGED <<power, external, taskDone, history, scriptVars, docker, timerVars, stopper>>
      BY <1>15 DEF ContainerDies
    <2>5. recorded' \in BOOLEAN /\ (recorded' => docker' /\ died')
      <3>1. recorded' = docker /\ docker' = docker  BY <1>15 DEF ContainerDies
      <3>2. QED  BY <2>1, <3>1, Zenon
    <2>6. container' \in BOOLEAN /\ died' \in BOOLEAN /\ ~(container' /\ died') /\ docker' \in BOOLEAN
      BY <2>1, <2>4
    <2>7. power' = "on"  BY <2>3, <2>4
    <2>8. QED  BY <2>2, <2>4, <2>5, <2>6, <2>7
  <1>20. CASE DockerStops
    <2>1. docker' = FALSE /\ recorded' = FALSE /\ power = "on"  BY <1>20 DEF DockerStops
    <2>2. pipe' \subseteq {"die", "end"}  BY <1>20 DEF DockerStops
    <2>3. UNCHANGED <<power, external, taskDone, history, scriptVars, container, died, timerVars,
                     stopper>>
      BY <1>20 DEF DockerStops
    <2>4. container' \in BOOLEAN /\ died' \in BOOLEAN /\ ~(container' /\ died')
      BY <2>3
    <2>5. /\ docker' \in BOOLEAN /\ recorded' \in BOOLEAN /\ (recorded' => docker' /\ died')
          /\ power' = "on"
      BY <2>1, <2>3
    <2>6. QED  BY <2>2, <2>3, <2>4, <2>5
  <1>21. CASE DockerStarts  BY <1>21 DEF DockerStarts
  <1>22. CASE WatcherRestarts  BY <1>22 DEF WatcherRestarts
  <1>16. CASE IdleCheck
    <2>1. PICK running \in (IF docker THEN {container} ELSE {})
                          \cup (IF container => blind < MaxBlind THEN {FALSE} ELSE {}) :
            /\ since' = IF ClockRestarts(running) THEN 0 ELSE since
            /\ timer' \in {"halt", "wait"}
            /\ blind' = IF container /\ ~running THEN blind + 1 ELSE 0
      BY <1>16 DEF IdleCheck
    <2>2. blind' \in 0 .. MaxBlind
      <3>1. CASE container /\ ~running
        <4>1. blind < MaxBlind  BY <2>1, <3>1, Zenon
        <4>2. QED  BY <1>0, <2>1, <3>1, <4>1
      <3>2. CASE ~(container /\ ~running)  BY <1>0, <2>1, <3>2
      <3>3. QED  BY <3>1, <3>2
    <2>3. since' \in 0 .. Idle \cup {None}  BY <1>0, <2>1
    <2>4. power = "on"  BY <1>16 DEF IdleCheck
    <2>5. QED  BY <1>16, <2>1, <2>2, <2>3, <2>4 DEF IdleCheck
  <1>17. CASE Tick
    <2>1. spent' \in 0 .. MaxStart  BY <1>0, <1>17 DEF Tick
    <2>2. since' \in 0 .. Idle \cup {None}
      <3>1. since \in 0 .. Idle  BY <1>17 DEF Tick, IdleWaits
      <3>2. QED  BY <1>0, <1>17, <3>1 DEF Tick
    <2>3. power = "on"  BY <1>17 DEF Tick
    <2>4. QED  BY <1>17, <2>1, <2>2, <2>3 DEF Tick
  <1>18. CASE UNCHANGED vars  BY <1>18 DEF vars
  <1>19. QED
    BY <1>1, <1>2, <1>3, <1>4, <1>5, <1>6, <1>7, <1>8, <1>9, <1>10, <1>11, <1>12, <1>13,
       <1>14, <1>15, <1>16, <1>17, <1>18, <1>20, <1>21, <1>22 DEF Next, Script, Stopper, Docker

-----------------------------------------------------------------------------
(* Tasks.                                                                  *)
LEMMA TasksStep ==
    ASSUME TypeOK, UnsentIsFresh, MarkedIfRun, StartsFresh, RunsAtMostOnce, [Next]_vars
    PROVE  UnsentIsFresh' /\ MarkedIfRun' /\ StartsFresh' /\ RunsAtMostOnce'
  <1> DEFINE Goal == UnsentIsFresh' /\ MarkedIfRun' /\ StartsFresh' /\ RunsAtMostOnce'
  <1> USE DEF UnsentIsFresh, MarkedIfRun, StartsFresh, RunsAtMostOnce
  <1>0. /\ None \notin Task /\ ran \in [Task -> 0 .. 2] /\ unsent \subseteq Task
        /\ {metadata, task, taskDone} \subseteq Task \cup {None}
        /\ script \in {"mark", "run", "unmark"} => task \in Task
    BY WorkerAssumption DEF TypeOK
  <1>1. ASSUME NEW t \in Task, Dispatch(t)  PROVE Goal
    <2>1. /\ t \in unsent /\ metadata' = t /\ unsent' = unsent \ {t}
          /\ UNCHANGED <<taskDone, ran, script, task>>
      BY <1>1 DEF Dispatch, history, scriptVars
    <2>2. t # taskDone /\ ran[t] = 0  BY <2>1
    <2>3. QED  BY <1>0, <2>1, <2>2
  <1>2. CASE Boot \/ Cut \/ PowerOff
    <2>1. /\ script' \in {"none", "setup"} /\ task' = None
          /\ UNCHANGED <<external, taskDone, ran>>
      BY <1>2 DEF Boot, Cut, PowerOff, Cleared, history
    <2>2. QED  BY <1>0, <2>1 DEF external
  <1>3. CASE EnableTimer \/ StartStopper
    <2>1. script' \in {"watch", "read", "ended"} /\ UNCHANGED <<external, taskDone, ran, task>>
      BY <1>3 DEF EnableTimer, StartStopper, history
    <2>2. QED  BY <1>0, <2>1 DEF external
  <1>4. CASE ReadTask
    <2>1. \/ script' = "ended" /\ task' = task
          \/ /\ script' = "mark" /\ task' = metadata
             /\ metadata # None /\ metadata # taskDone
      BY <1>4 DEF ReadTask
    <2>2. UNCHANGED <<external, taskDone, ran>>  BY <1>4 DEF ReadTask, history
    <2>3. QED  BY <1>0, <2>1, <2>2 DEF external
  <1>5. CASE Mark
    <2>1. /\ script = "mark" /\ UNCHANGED <<external, ran, task>>
          /\ \/ script' = "run" /\ taskDone' = task
             \/ script' = "ended" /\ taskDone' \in {None, taskDone}
      BY <1>5 DEF Mark, At, Marked, history
    <2>2. ran[task] = 0 /\ metadata # None /\ taskDone \notin {task, metadata} /\ task \in Task
      BY <1>0, <2>1
    <2>3. ran[metadata] = 0  BY <1>0, <2>2
    <2>4. QED  BY <1>0, <2>1, <2>2, <2>3 DEF external
  <1>6. CASE DockerRun
    <2>1. script = "run" /\ UNCHANGED <<external, taskDone, task>>  BY <1>6 DEF DockerRun, At
    <2>2. taskDone = task /\ ran[task] = 0 /\ task \in Task  BY <1>0, <2>1
    <2>3. CASE script' = "unmark" /\ ran' = ran  BY <1>0, <2>1, <2>2, <2>3 DEF external
    <2>4. CASE script' = "ended" /\ ran' = [ran EXCEPT ![task] = IF @ < 2 THEN @ + 1 ELSE @]
      <3>1. ran'[task] = 1 /\ \A t \in Task \ {task} : ran'[t] = ran[t]  BY <1>0, <2>2, <2>4
      <3>2. task \notin unsent  BY <1>0
      <3>3. UnsentIsFresh'  BY <1>0, <2>1, <3>1, <3>2 DEF external
      <3>4. MarkedIfRun'
        <4>1. CASE metadata = task  BY <2>1, <2>2, <4>1 DEF external
        <4>2. CASE metadata # task  BY <1>0, <2>1, <3>1, <4>2 DEF external
        <4>3. QED  BY <4>1, <4>2
      <3>5. StartsFresh'  BY <2>4
      <3>6. RunsAtMostOnce'  BY <1>0, <3>1
      <3>7. QED  BY <3>3, <3>4, <3>5, <3>6
    <2>5. QED  BY <1>6, <2>3, <2>4 DEF DockerRun
  <1>7. CASE Unmark
    <2>1. /\ script = "unmark" /\ script' = "halt" /\ taskDone' = None
          /\ UNCHANGED <<external, ran, task>>
      BY <1>7 DEF Unmark, At, RemoveMark, history
    <2>2. ran[task] = 0 /\ taskDone = task /\ task \in Task  BY <1>0, <2>1
    <2>3. metadata # None => ran[metadata] = 0  BY <1>0, <2>2
    <2>4. QED  BY <1>0, <2>1, <2>2, <2>3 DEF external
  <1>8. ASSUME UNCHANGED <<external, taskDone, ran, script, task>>  PROVE Goal
    BY <1>0, <1>8 DEF external
  <1>9. CASE Stopper \/ Docker \/ IdleCheck \/ Tick
    <2>1. UNCHANGED <<external, taskDone, ran, script, task>>
      BY <1>9 DEF Stopper, Subscribe, ReadEvent, LookAgain, StreamEnds, Docker, DockerStops,
                  DockerStarts, WatcherRestarts, ContainerDies, IdleCheck, Tick, history, scriptVars
    <2>2. QED  BY <1>8, <2>1
  <1>10. CASE UNCHANGED vars  BY <1>8, <1>10 DEF vars, history, scriptVars
  <1>11. QED
    BY <1>1, <1>2, <1>3, <1>4, <1>5, <1>6, <1>7, <1>9, <1>10 DEF Next, Script

-----------------------------------------------------------------------------
(* Watchers.                                                               *)
LEMMA StopperStep ==
    ASSUME TypeOK, StopperWaits, [Next]_vars
    PROVE  StopperWaits'
  <1> USE DEF StopperWaits, scriptVars, stopperVars
  <1>1. ASSUME NEW t \in Task, Dispatch(t)  PROVE StopperWaits'  BY <1>1 DEF Dispatch
  <1>2. CASE Boot \/ Cut \/ PowerOff  BY <1>2 DEF Boot, Cut, PowerOff, Cleared
  <1>3. CASE EnableTimer \/ StartStopper \/ ReadTask \/ Mark \/ Unmark
    <2>1. script # "ended" /\ UNCHANGED <<container, died, pipe>>
          /\ (UNCHANGED stopper \/ stopper' = "subscribe")
      BY <1>3 DEF EnableTimer, StartStopper, ReadTask, Mark, Unmark, At
    <2>2. QED  BY <2>1
  <1>4. CASE DockerRun  BY <1>4 DEF DockerRun, At
  <1>5. CASE Subscribe  BY <1>5 DEF Subscribe, SinceBoot, TypeOK
  <1>6. CASE ReadEvent  BY <1>6 DEF ReadEvent
  <1>7. CASE LookAgain  BY <1>7 DEF LookAgain
  <1>8. CASE StreamEnds  BY <1>8 DEF StreamEnds
  <1>9. CASE ContainerDies  BY <1>9 DEF ContainerDies
  <1>13. CASE DockerStops \/ DockerStarts \/ WatcherRestarts
    BY <1>13 DEF DockerStops, DockerStarts, WatcherRestarts
  <1>10. CASE IdleCheck \/ Tick
    <2>1. UNCHANGED <<script, container, died, stopper, pipe>>
      BY <1>10 DEF IdleCheck, Tick
    <2>2. QED  BY <2>1
  <1>11. CASE UNCHANGED vars  BY <1>11 DEF vars
  <1>12. QED
    BY <1>1, <1>2, <1>3, <1>4, <1>5, <1>6, <1>7, <1>8, <1>9, <1>10, <1>11, <1>13
       DEF Next, Script, Stopper, Docker

(* The idle clock's age is bounded while a container starts or runs, below *)
(* what the idle check asks of it: the assumption on Idle is used here.    *)
LEMMA IdleStep ==
    ASSUME TypeOK, StopperWaits, IdleWaits, [Next]_vars
    PROVE  IdleWaits'
  <1> USE DEF IdleWaits, scriptVars, timerVars
  <1>0. /\ Idle \in Nat /\ MaxStart \in Nat /\ MaxBlind \in Nat /\ MaxStart + MaxBlind < Idle
        /\ None \notin Nat /\ spent \in 0 .. MaxStart /\ blind \in 0 .. MaxBlind
        /\ since \in 0 .. Idle \cup {None} /\ container \in BOOLEAN
        /\ timer \in {"off", "due", "wait", "halt"}
    BY WorkerAssumption DEF TypeOK
  <1>a. MaxStart \in Nat /\ None \notin Nat  BY WorkerAssumption
  <1>b. \A b \in Nat, x \in 0 .. 1 : /\ MaxStart + b = MaxStart + b + 0
                                    /\ 0 <= MaxStart + b + x
    BY <1>a
  <1>1. ASSUME NEW t \in Task, Dispatch(t)  PROVE IdleWaits'
    BY <1>1 DEF Dispatch, Starting
  <1>2. CASE Boot \/ Cut \/ PowerOff
    BY <1>2 DEF Boot, Cut, PowerOff, Cleared, InRun, Starting
  <1>3. CASE EnableTimer
    BY <1>3 DEF EnableTimer, At, EnabledNow, Starting, StopperWaits
  <1>4. CASE StartStopper  BY <1>4 DEF StartStopper, At, Starting, StopperWaits
  <1>5. CASE ReadTask
    <2>1. /\ script = "read" /\ script' \in {"mark", "ended"} /\ ~container
          /\ UNCHANGED <<timer, since, spent, container>>
      BY <1>5 DEF ReadTask, At, StopperWaits
    <2>2. QED  BY <2>1 DEF Starting
  <1>6. CASE Mark  BY <1>6 DEF Mark, At, Starting, StopperWaits
  <1>7. CASE DockerRun
    <2>1. /\ script = "run" /\ script' \in {"ended", "unmark"} /\ Starting
          /\ UNCHANGED <<timer, since, spent, blind>>
      BY <1>7 DEF DockerRun, At, Starting
    <2>2. timer # "halt" /\ (since # None => since <= MaxStart)  BY <1>0, <2>1
    <2>3. QED  BY <1>0, <2>1, <2>2 DEF Starting
  <1>8. CASE Unmark  BY <1>8 DEF Unmark, At, Starting, StopperWaits
  <1>9. CASE Stopper \/ DockerStops \/ DockerStarts \/ WatcherRestarts
    BY <1>9 DEF Stopper, Subscribe, ReadEvent, LookAgain, StreamEnds, DockerStops, DockerStarts,
                WatcherRestarts, Starting
  <1>10. CASE ContainerDies  BY <1>10 DEF ContainerDies, Starting
  <1>11. CASE IdleCheck
    <2>1. PICK running \in (IF docker THEN {container} ELSE {})
                          \cup (IF container => blind < MaxBlind THEN {FALSE} ELSE {}) :
            /\ since' = IF ClockRestarts(running) THEN 0 ELSE since
            /\ timer' = IF ~ClockRestarts(running) /\ since >= Idle THEN "halt" ELSE "wait"
            /\ blind' = IF container /\ ~running THEN blind + 1 ELSE 0
      BY <1>11 DEF IdleCheck
    <2>2. timer = "due" /\ UNCHANGED <<script, spent, container>>
      BY <1>11 DEF IdleCheck
    <2>a. script # "setup" /\ script' # "setup"  BY <2>2
    <2>b. Starting' <=> Starting  BY <2>2 DEF Starting
    <2>3. CASE ClockRestarts(running)
      <3>1. since' = 0 /\ timer' = "wait"  BY <2>1, <2>3
      <3>2. blind' \in Nat  BY <1>0, <2>1
      <3>3. since' <= spent'  BY <1>0, <2>2, <3>1
      <3>4. since' # None  BY <1>a, <3>1
      <3>5. since' <= MaxStart + blind' + (IF timer' = "due" THEN 1 ELSE 0)
        BY <1>b, <3>1, <3>2
      <3>6. QED  BY <2>a, <3>1, <3>3, <3>4, <3>5
    <2>4. CASE ~ClockRestarts(running)
      <3>1. ~running /\ since \in 0 .. Idle /\ since' = since
        BY <1>0, <2>1, <2>4 DEF ClockRestarts
      <3>2. CASE Starting
        <4>1. since <= MaxStart /\ ~container /\ ~(since >= Idle)
          BY <1>0, <3>1, <3>2 DEF Starting, StopperWaits
        <4>2. timer' = "wait"  BY <2>1, <4>1
        <4>3. since' <= spent'  BY <1>0, <2>2, <3>1, <3>2
        <4>4. since' # None /\ ~container'  BY <1>0, <2>2, <3>1, <4>1
        <4>5. QED  BY <2>a, <4>2, <4>3, <4>4
      <3>3. CASE container
        <4>1. blind < MaxBlind  BY <2>1, <3>1, <3>3, Zenon
        <4>2. since <= MaxStart + blind + 1 /\ blind' = blind + 1
          BY <1>0, <2>1, <2>2, <3>1, <3>3
        <4>3. ~(since >= Idle) /\ since <= MaxStart + blind'  BY <1>0, <3>1, <4>1, <4>2
        <4>4. timer' = "wait" /\ ~Starting  BY <2>1, <3>3, <4>3 DEF Starting, StopperWaits
        <4>5. since' # None  BY <1>0, <3>1
        <4>6. since' <= MaxStart + blind' + (IF timer' = "due" THEN 1 ELSE 0)
          <5>1. MaxStart \in Nat /\ blind' \in Nat  BY <1>0, <4>2
          <5>2. since' <= MaxStart + blind'  BY <3>1, <4>3
          <5>3. QED  BY <1>b, <4>4, <5>1, <5>2
        <4>7. QED  BY <2>a, <2>b, <4>4, <4>5, <4>6
      <3>4. CASE ~Starting /\ ~container
        BY <1>0, <2>1, <2>2, <3>1, <3>4 DEF Starting
      <3>5. QED  BY <3>2, <3>3, <3>4
    <2>5. QED  BY <2>3, <2>4
  <1>12. CASE Tick
    <2>1. /\ timer = "wait" /\ timer' = "due" /\ since \in 0 .. Idle
          /\ since' \in {since, since + 1} /\ UNCHANGED <<script, container, blind>>
          /\ spent' = IF Starting THEN spent + 1 ELSE 0
      BY <1>0, <1>12 DEF Tick
    <2>2. CASE Starting
      <3>1. since' <= spent' /\ ~container
        BY <1>0, <2>1, <2>2 DEF Starting, StopperWaits
      <3>2. QED  BY <1>0, <2>1, <2>2, <3>1 DEF Starting
    <2>3. CASE ~Starting
      <3>1. container => since' <= MaxStart + blind + 1  BY <1>0, <2>1
      <3>2. QED  BY <1>0, <2>1, <2>3, <3>1 DEF Starting
    <2>4. QED  BY <2>2, <2>3
  <1>13. CASE UNCHANGED vars  BY <1>13 DEF vars, Starting
  <1>14. QED
    BY <1>1, <1>2, <1>3, <1>4, <1>5, <1>6, <1>7, <1>8, <1>9, <1>10, <1>11, <1>12, <1>13
       DEF Next, Script, Docker

(* Whoever shuts the VM down does not do so under a task.                  *)
LEMMA HaltSparesTask ==
    ASSUME TypeOK, StopperWaits, IdleWaits, PowerOff
    PROVE  ~container /\ script \notin {"run", "unmark"}
  <1>1. CASE script = "halt"  BY <1>1 DEF StopperWaits
  <1>2. CASE timer = "halt"  BY <1>2 DEF IdleWaits, Starting
  <1>3. CASE stopper = "halt"  BY <1>3 DEF StopperWaits, TypeOK
  <1>4. QED  BY <1>1, <1>2, <1>3 DEF PowerOff

-----------------------------------------------------------------------------
(* What a mark on the disk stands for.                                     *)
LEMMA ConsumedStep ==
    ASSUME TypeOK, StartsFresh, StopperWaits, IdleWaits, ConsumedOrStarting, [Next]_vars
    PROVE  ConsumedOrStarting'
  <1> USE DEF ConsumedOrStarting, history
  <1>0. /\ ran \in [Task -> 0 .. 2] /\ taskDone \in Task \cup {None}
        /\ script \in {"mark", "run", "unmark"} => task \in Task
    BY DEF TypeOK
  <1>1. CASE Boot \/ EnableTimer \/ StartStopper \/ ReadTask
    <2>1. script \notin {"run", "unmark"} /\ UNCHANGED <<ran, lost, taskDone>>
      BY <1>1 DEF Boot, EnableTimer, StartStopper, ReadTask, At, TypeOK
    <2>2. QED  BY <2>1
  <1>2. CASE Cut
    <2>1. UNCHANGED <<ran, taskDone>> /\ lost' = IF script \in {"run", "unmark"}
                                                 THEN lost \cup {task} ELSE lost
      BY <1>2 DEF Cut
    <2>2. QED  BY <2>1
  <1>3. CASE PowerOff
    <2>1. script \notin {"run", "unmark"}  BY <1>3, HaltSparesTask
    <2>2. QED  BY <1>3, <2>1 DEF PowerOff
  <1>4. CASE Mark
    <2>1. /\ script = "mark" /\ UNCHANGED <<ran, lost, task>>
          /\ \/ script' = "run" /\ taskDone' = task
             \/ script' = "ended" /\ taskDone' \in {None, taskDone}
      BY <1>4 DEF Mark, At, Marked
    <2>2. QED  BY <2>1
  <1>5. CASE DockerRun
    <2>1. script = "run" /\ UNCHANGED <<taskDone, task, lost>>  BY <1>5 DEF DockerRun, At
    <2>2. taskDone = task /\ task \in Task /\ ran[task] = 0  BY <1>0, <2>1 DEF StartsFresh
    <2>3. CASE script' = "unmark"  BY <2>1, <2>2, <2>3
    <2>4. CASE ran' = [ran EXCEPT ![task] = IF @ < 2 THEN @ + 1 ELSE @]
      <3>1. ran'[task] = 1  BY <1>0, <2>2, <2>4
      <3>2. QED  BY <2>1, <2>2, <3>1
    <2>5. QED  BY <1>5, <2>3, <2>4 DEF DockerRun
  <1>6. CASE Unmark  BY <1>6 DEF Unmark, RemoveMark
  <1>7. ASSUME UNCHANGED <<ran, lost, taskDone, script, task>>  PROVE ConsumedOrStarting'
    BY <1>7
  <1>8. ASSUME NEW t \in Task, Dispatch(t)  PROVE ConsumedOrStarting'
    BY <1>7, <1>8 DEF Dispatch, scriptVars
  <1>9. CASE Stopper \/ Docker \/ IdleCheck \/ Tick
    <2>1. UNCHANGED <<ran, lost, taskDone, script, task>>
      BY <1>9 DEF Stopper, Subscribe, ReadEvent, LookAgain, StreamEnds, Docker, DockerStops,
                  DockerStarts, WatcherRestarts, ContainerDies, IdleCheck, Tick, scriptVars
    <2>2. QED  BY <1>7, <2>1
  <1>10. CASE UNCHANGED vars  BY <1>7, <1>10 DEF vars, scriptVars
  <1>11. QED
    BY <1>1, <1>2, <1>3, <1>4, <1>5, <1>6, <1>8, <1>9, <1>10 DEF Next, Script

(* set -e: what the script does of the task, it does with the timer on.    *)
LEMMA WatchedStep ==
    ASSUME TypeOK, TimerFirst, TaskIsWatched, [Next]_vars
    PROVE  TimerFirst' /\ TaskIsWatched'
  <1> USE DEF TimerFirst, TaskIsWatched, scriptVars, timerVars
  <1>1. CASE Boot \/ Cut \/ PowerOff  BY <1>1 DEF Boot, Cut, PowerOff, Cleared
  <1>2. CASE EnableTimer  BY <1>2 DEF EnableTimer, At, EnabledNow
  <1>3. CASE Script
    <2>1. script \in {"watch", "read", "mark", "run", "unmark"} /\ UNCHANGED timer
      BY <1>3 DEF Script, StartStopper, ReadTask, Mark, DockerRun, Unmark, At
    <2>2. QED  BY <2>1
  <1>4. ASSUME UNCHANGED <<power, script, task, container, died>>, timer # "off" <=> timer' # "off"
        PROVE  TimerFirst' /\ TaskIsWatched'
    BY <1>4
  <1>5. ASSUME NEW t \in Task, Dispatch(t)  PROVE TimerFirst' /\ TaskIsWatched'
    BY <1>4, <1>5 DEF Dispatch
  <1>6. CASE Stopper \/ DockerStops \/ DockerStarts \/ WatcherRestarts
    BY <1>4, <1>6 DEF Stopper, Subscribe, ReadEvent, LookAgain, StreamEnds, DockerStops,
                      DockerStarts, WatcherRestarts
  <1>7. CASE ContainerDies  BY <1>7 DEF ContainerDies, TypeOK
  <1>8. CASE IdleCheck \/ Tick  BY <1>4, <1>8 DEF IdleCheck, Tick
  <1>9. CASE UNCHANGED vars  BY <1>4, <1>9 DEF vars
  <1>10. QED
    BY <1>1, <1>2, <1>3, <1>5, <1>6, <1>7, <1>8, <1>9 DEF Next, Docker

-----------------------------------------------------------------------------
LEMMA VMInvStep == VMInv /\ [Next]_vars => VMInv'
  <1> SUFFICES ASSUME VMInv, [Next]_vars PROVE VMInv'
    OBVIOUS
  <1>1. TypeOK'  BY TypeStep DEF VMInv
  <1>2. UnsentIsFresh' /\ MarkedIfRun' /\ StartsFresh' /\ RunsAtMostOnce'
    BY TasksStep DEF VMInv
  <1>3. StopperWaits' /\ IdleWaits'  BY StopperStep, IdleStep DEF VMInv
  <1>4. ConsumedOrStarting'  BY ConsumedStep DEF VMInv
  <1>5. ConsumedMeansRun'
    BY <1>1, <1>4 DEF TypeOK, ConsumedOrStarting, ConsumedMeansRun
  <1>6. TimerFirst' /\ TaskIsWatched'  BY WatchedStep DEF VMInv
  <1>7. QED  BY <1>1, <1>2, <1>3, <1>4, <1>5, <1>6 DEF VMInv

(* The inductive invariant: what ran is marked or gone from the metadata,  *)
(* and both watchers agree with the container they watch.                  *)
THEOREM VMInvAlways == Spec => []VMInv
  BY InitKeeps, VMInvStep, PTL DEF Spec

(* However often the VM is cut off, reset or started again, whatever fails *)
(* to be written, no task is run twice.                                    *)
THEOREM RunsAtMostOnceAlways == Spec => []RunsAtMostOnce
  <1>1. VMInv => RunsAtMostOnce  BY DEF VMInv
  <1>2. QED  BY <1>1, VMInvAlways, PTL

(* A VM that is off has run what it marked as consumed, unless the power   *)
(* was cut while it was starting it.                                       *)
THEOREM ConsumedMeansRunAlways == Spec => []ConsumedMeansRun
  <1>1. VMInv => ConsumedMeansRun  BY DEF VMInv
  <1>2. QED  BY <1>1, VMInvAlways, PTL

(* A VM whose timer is off, because the script ended or hangs before it,   *)
(* has left its task alone.                                                *)
THEOREM TaskIsWatchedAlways == Spec => []TaskIsWatched
  <1>1. VMInv => TaskIsWatched  BY DEF VMInv
  <1>2. QED  BY <1>1, VMInvAlways, PTL

(* Neither watcher, nor the script, turns the VM off under a task.         *)
THEOREM PowerOffSparesTaskAlways == Spec => PowerOffSparesTask
  <1>1. VMInv /\ [Next]_vars => [power = "on" /\ power' = "off" => ~container /\ script # "run"]_vars
    <2> SUFFICES ASSUME VMInv, [Next]_vars, power = "on", power' = "off"
                 PROVE  ~container /\ script # "run"
      OBVIOUS
    <2>1. PowerOff
      BY DEF Next, vars, Dispatch, Boot, Cut, Script, EnableTimer, StartStopper, ReadTask, Mark,
             DockerRun, Unmark, Stopper, Subscribe, ReadEvent, LookAgain, StreamEnds, Docker,
             DockerStops, DockerStarts, WatcherRestarts, ContainerDies, IdleCheck, Tick
    <2>2. QED  BY <2>1, HaltSparesTask DEF VMInv
  <1>2. QED  BY <1>1, VMInvAlways, PTL DEF Spec, PowerOffSparesTask
=============================================================================
