------------------------------- MODULE WorkerVM -------------------------------
(***************************************************************************)
(* A worker VM (deploy/gcp/worker-startup.sh): on every boot its startup   *)
(* script sets up two watchers, reads the task that was put in the VM's    *)
(* metadata and runs it in a container, once for each task id.  The VM     *)
(* powers itself off: worker-stop.service when the container has died,     *)
(* worker-idle.timer when no container has run for a while, the script     *)
(* when the container could not be started.  Power may be cut at any step  *)
(* (a Spot VM is preempted, somebody resets it), and anybody may start the *)
(* VM.  The disk survives; /run, /etc and the containers do not.           *)
(* dockerd may stop and start again: the container lives on (live-restore),*)
(* but the events dockerd keeps in memory are gone, and systemd restarts   *)
(* worker-stop.service, which requires it.                                 *)
(*                                                                         *)
(* A tick is the timer's minute.  Whoever puts the task there is external: *)
(* it gives every task an id of its own, and may be too late for a boot.   *)
(***************************************************************************)
EXTENDS Integers

CONSTANTS
    Task,       \* the task ids
    None,
    Idle,       \* idle-minutes
    MaxStart,   \* bound on the ticks from the timer's start to the container's
    MaxBlind    \* bound on the checks in a row in which docker does not answer

ASSUME WorkerAssumption ==
    /\ None \notin Task /\ None \notin Nat
    /\ Idle \in Nat /\ MaxStart \in Nat /\ MaxBlind \in Nat
    /\ MaxStart + MaxBlind < Idle

VARIABLES
    power,      \* "on", "off" (by itself) or "cut"
    metadata,   \* worker-task in the metadata
    unsent,     \* tasks not put there so far
    taskDone,   \* the id in /var/lib/cad/task-done
    ran,        \* how often the container of a task has been started, to 2
    lost,       \* tasks whose start was cut short
    script,     \* the startup script: its next step
    task,       \* the task it has read
    spent,      \* ticks it has spent since it enabled the timer
    container,  \* whether a worker container is running
    died,       \* whether one has died since the boot
    docker,     \* whether dockerd is up
    recorded,   \* whether it knows of that death
    timer,      \* worker-idle.timer: "off", "due", "wait", or its script about to "halt"
    since,      \* age of /run/worker-idle-since
    blind,      \* checks in a row in which docker did not answer
    stopper,    \* worker-stop.service: "off", "subscribe", "read", "grace", "halt"
    pipe        \* what it has not read of its stream: a "die" event, the "end"

external == <<metadata, unsent>>
history == <<ran, lost>>
scriptVars == <<script, task, spent>>
timerVars == <<timer, since, blind>>
dockerVars == <<docker, recorded>>
stopperVars == <<stopper, pipe>>
vars == <<power, external, taskDone, history, scriptVars, container, died,
          dockerVars, timerVars, stopperVars>>

(* What a boot starts from, and all that is left when the power is gone.   *)
(* Mutant: the idle clock is kept where it survives.                       *)
OnDisk(age) == age
InRun(age) == None
Cleared ==
    /\ task' = None /\ spent' = 0 /\ container' = FALSE /\ died' = FALSE
    /\ timer' = "off" /\ since' = InRun(since) /\ blind' = 0
    /\ docker' = TRUE /\ recorded' = FALSE
    /\ stopper' = "off" /\ pipe' = {}

Init ==
    /\ power = "off" /\ metadata = None /\ unsent = Task
    /\ taskDone = None /\ ran = [t \in Task |-> 0] /\ lost = {}
    /\ script = "none" /\ task = None /\ spent = 0
    /\ container = FALSE /\ died = FALSE
    /\ timer = "off" /\ since = None /\ blind = 0
    /\ docker = TRUE /\ recorded = FALSE
    /\ stopper = "off" /\ pipe = {}

-----------------------------------------------------------------------------
(* Outside: the task is put in the metadata, the VM is started, the power  *)
(* is cut.                                                                 *)
Dispatch(t) ==
    /\ t \in unsent
    /\ metadata' = t /\ unsent' = unsent \ {t}
    /\ UNCHANGED <<power, taskDone, history, scriptVars, container, died, dockerVars, timerVars,
                   stopperVars>>

Boot ==
    /\ power # "on"
    /\ power' = "on" /\ script' = "setup"
    /\ Cleared
    /\ UNCHANGED <<external, taskDone, history>>

Cut ==
    /\ power = "on"
    /\ power' = "cut" /\ script' = "none"
    /\ lost' = IF script \in {"run", "unmark"} THEN lost \cup {task} ELSE lost
    /\ Cleared
    /\ UNCHANGED <<external, taskDone, ran>>

(* shutdown -h now, by whoever has decided on it.                          *)
PowerOff ==
    /\ power = "on" /\ "halt" \in {script, timer, stopper}
    /\ power' = "off" /\ script' = "none"
    /\ Cleared
    /\ UNCHANGED <<external, taskDone, history>>

-----------------------------------------------------------------------------
(* The startup script, under set -e.  Pulling an image and fetching secrets*)
(* may fail without consequence; a directory or a unit that cannot be made *)
(* ends it before any watcher is on, and docker, asked without a deadline, *)
(* may keep it from getting there.                                         *)
At(step) == power = "on" /\ script = step

(* Mutant: enabled for the next boot, not started.                         *)
EnabledOnly == "off"
EnabledNow == "due"
(* Mutant: the script goes on when the timer cannot be enabled.            *)
EnableOrNot ==
    /\ At("setup")
    /\ script' = "watch" /\ timer' \in {EnabledNow, timer}
    /\ UNCHANGED <<power, external, taskDone, history, task, spent, container, died, dockerVars,
                   since, blind, stopperVars>>
EnableTimer ==
    /\ At("setup")
    /\ \/ script' = "watch" /\ timer' = EnabledNow
       \/ script' = "ended" /\ UNCHANGED timer
    /\ UNCHANGED <<power, external, taskDone, history, task, spent, container, died, dockerVars,
                   since, blind, stopperVars>>

(* docker.service may fail to start, and then so does the watcher and the  *)
(* script ends here.                                                       *)
StartStopper ==
    /\ At("watch")
    /\ \/ script' = "read" /\ stopper' = "subscribe"
       \/ script' = "ended" /\ UNCHANGED stopper
    /\ UNCHANGED <<power, external, taskDone, history, task, spent, container, died, dockerVars,
                   timerVars, pipe>>

(* No answer from the metadata server is no task.                          *)
ReadTask ==
    /\ At("read")
    /\ \E t \in {metadata, None} :
         IF t \in {None, taskDone} THEN script' = "ended" /\ UNCHANGED task
                                   ELSE script' = "mark" /\ task' = t
    /\ UNCHANGED <<power, external, taskDone, history, spent, container, died, dockerVars,
                   timerVars, stopperVars>>

(* A full disk ends the script, with the file emptied or as it was.        *)
(* Mutant: the mark is not kept.                                           *)
NotMarked(t) == taskDone
Marked(t) == t
Mark ==
    /\ At("mark")
    /\ \/ script' = "run" /\ taskDone' = Marked(task)
       \/ script' = "ended" /\ taskDone' \in {None, taskDone}
    /\ UNCHANGED <<power, external, history, task, spent, container, died, dockerVars,
                   timerVars, stopperVars>>

DockerRun ==
    /\ At("run")
    /\ \/ /\ docker
          /\ script' = "ended" /\ container' = TRUE
          /\ ran' = [ran EXCEPT ![task] = IF @ < 2 THEN @ + 1 ELSE @]
       \/ script' = "unmark" /\ UNCHANGED <<container, ran>>
    /\ UNCHANGED <<power, external, taskDone, lost, task, spent, died, dockerVars, timerVars,
                   stopperVars>>

(* rm -f task-done, and shutdown.                                          *)
(* Mutant: a task that could not be started stays consumed.                *)
KeepMark == taskDone
RemoveMark == None
Unmark ==
    /\ At("unmark")
    /\ script' = "halt" /\ taskDone' = RemoveMark
    /\ UNCHANGED <<power, external, history, task, spent, container, died, dockerVars,
                   timerVars, stopperVars>>

-----------------------------------------------------------------------------
(* The task ends.  A dockerd that is down does not notice.                 *)
Follows == docker /\ stopper \in {"read", "grace"} /\ "end" \notin pipe
ContainerDies ==
    /\ container
    /\ container' = FALSE /\ died' = TRUE /\ recorded' = docker
    /\ pipe' = IF Follows THEN pipe \cup {"die"} ELSE pipe
    /\ UNCHANGED <<power, external, taskDone, history, scriptVars, docker, timerVars, stopper>>

(* worker-stop.sh.  docker events replays what dockerd remembers since the *)
(* boot.                                                                   *)
(* Mutant: it tells only what happens from now on.                         *)
FromNow == FALSE
SinceBoot == recorded
Subscribe ==
    /\ stopper = "subscribe" /\ docker
    /\ stopper' = "read" /\ pipe' = IF SinceBoot THEN {"die"} ELSE {}
    /\ UNCHANGED <<power, external, taskDone, history, scriptVars, container, died, dockerVars,
                   timerVars>>

ReadEvent ==
    /\ stopper = "read" /\ "die" \in pipe
    /\ stopper' = "grace" /\ pipe' = pipe \ {"die"}
    /\ UNCHANGED <<power, external, taskDone, history, scriptVars, container, died, dockerVars,
                   timerVars>>

(* The grace is over: whether any container runs decides.  Nothing runs as *)
(* far as a dockerd that is down can tell.                                 *)
LookAgain ==
    /\ stopper = "grace"
    /\ stopper' = IF container /\ docker THEN "read" ELSE "halt"
    /\ UNCHANGED <<power, external, taskDone, history, scriptVars, container, died, dockerVars,
                   timerVars, pipe>>

(* The stream is read to its end; Restart=always starts the service again. *)
StreamEnds ==
    /\ stopper = "read" /\ pipe = {"end"}
    /\ stopper' = "subscribe" /\ pipe' = {}
    /\ UNCHANGED <<power, external, taskDone, history, scriptVars, container, died, dockerVars,
                   timerVars>>

(* dockerd stops, and starts again.  Because of Requires=docker.service,   *)
(* systemd may restart the watcher with it, wherever that is: in its       *)
(* grace, with an event unread, or having just decided.  If dockerd cannot *)
(* be started, the watcher is not either, and nothing starts it later.     *)
DockerStops ==
    /\ power = "on" /\ docker
    /\ docker' = FALSE /\ recorded' = FALSE
    /\ pipe' = IF stopper \in {"read", "grace"} THEN pipe \cup {"end"} ELSE pipe
    /\ UNCHANGED <<power, external, taskDone, history, scriptVars, container, died, timerVars,
                   stopper>>
DockerStarts ==
    /\ ~docker /\ docker' = TRUE
    /\ UNCHANGED <<power, external, taskDone, history, scriptVars, container, died, recorded,
                   timerVars, stopperVars>>
WatcherRestarts ==
    /\ ~docker /\ stopper # "off"
    /\ stopper' \in {"subscribe", "off"} /\ pipe' = {}
    /\ UNCHANGED <<power, external, taskDone, history, scriptVars, container, died, dockerVars,
                   timerVars>>

-----------------------------------------------------------------------------
(* worker-idle.sh, every tick.  A docker that does not answer runs nothing *)
(* as far as the check can tell.                                           *)
(* Mutant: only the first check starts the clock.                          *)
ClockOnce(running) == since = None
ClockRestarts(running) == running \/ since = None
IdleCheck ==
    /\ timer = "due"
    /\ \E running \in (IF docker THEN {container} ELSE {})
                        \cup (IF container => blind < MaxBlind THEN {FALSE} ELSE {}) :
         /\ since' = IF ClockRestarts(running) THEN 0 ELSE since
         /\ timer' = IF ~ClockRestarts(running) /\ since >= Idle THEN "halt" ELSE "wait"
         /\ blind' = IF container /\ ~running THEN blind + 1 ELSE 0
    /\ UNCHANGED <<power, external, taskDone, history, scriptVars, container, died, dockerVars,
                   stopperVars>>

(* The script gets to its end, or its container to run, within MaxStart.   *)
Starting == script \in {"watch", "read", "mark", "run", "unmark"}
Tick ==
    /\ timer = "wait"
    /\ Starting => spent < MaxStart
    /\ spent' = IF Starting THEN spent + 1 ELSE 0
    /\ timer' = "due" /\ since' = IF since < Idle THEN since + 1 ELSE since
    /\ UNCHANGED <<power, external, taskDone, history, script, task, container, died, dockerVars,
                   blind, stopperVars>>

Script == StartStopper \/ ReadTask \/ Mark \/ DockerRun \/ Unmark
Stopper == Subscribe \/ ReadEvent \/ LookAgain \/ StreamEnds
Docker == DockerStops \/ DockerStarts \/ WatcherRestarts \/ ContainerDies
Next ==
    \/ \E t \in Task : Dispatch(t)
    \/ Boot \/ Cut \/ PowerOff
    \/ EnableTimer \/ Script \/ Stopper \/ Docker
    \/ IdleCheck \/ Tick
Spec == Init /\ [][Next]_vars

(* The script goes on once the timer is on, shutdown shuts down, and a task*)
(* ends: nothing on the VM ends it, so that is assumed of it.  dockerd may *)
(* stay down for ever.                                                     *)
FairSpec == Spec /\ WF_vars(Script) /\ WF_vars(ContainerDies) /\ WF_vars(PowerOff)

-----------------------------------------------------------------------------
(* The types, and that nothing of a boot outlives it.                      *)
TypeOK ==
    /\ power \in {"on", "off", "cut"}
    /\ metadata \in Task \cup {None} /\ unsent \subseteq Task
    /\ taskDone \in Task \cup {None}
    /\ ran \in [Task -> 0 .. 2] /\ lost \subseteq Task
    /\ script \in {"none", "setup", "watch", "read", "mark", "run", "unmark", "halt", "ended"}
    /\ task \in Task \cup {None} /\ spent \in 0 .. MaxStart
    /\ container \in BOOLEAN /\ died \in BOOLEAN /\ ~(container /\ died)
    /\ timer \in {"off", "due", "wait", "halt"} /\ since \in 0 .. Idle \cup {None}
    /\ blind \in 0 .. MaxBlind
    /\ docker \in BOOLEAN /\ recorded \in BOOLEAN /\ (recorded => docker /\ died)
    /\ stopper \in {"off", "subscribe", "read", "grace", "halt"} /\ pipe \subseteq {"die", "end"}
    /\ script \in {"mark", "run", "unmark"} => task # None
    /\ power # "on" => /\ script = "none" /\ ~container /\ ~died
                       /\ timer = "off" /\ since = None /\ stopper = "off" /\ docker

(* The inductive invariant.  Of tasks: an id not given out yet was never   *)
(* run; the one in the metadata is marked once it has run, and so the      *)
(* script never reaches docker run with one that has.                      *)
UnsentIsFresh == \A t \in unsent : t \notin {metadata, task, taskDone} /\ ran[t] = 0
MarkedIfRun == metadata # None /\ ran[metadata] > 0 => taskDone = metadata
StartsFresh ==
    /\ script = "mark" =>
           metadata # None /\ taskDone \notin {task, metadata} /\ ran[task] = 0
    /\ script \in {"run", "unmark"} => taskDone = task /\ ran[task] = 0
ConsumedOrStarting ==
    taskDone # None =>
        \/ ran[taskDone] > 0 \/ taskDone \in lost
        \/ script \in {"run", "unmark"} /\ task = taskDone

(* Of the watchers: the stop watcher decides on a shutdown only when the   *)
(* task has died, and the idle clock, restarted by every check that finds  *)
(* a container, is too young while one is starting or running.             *)
StopperWaits ==
    /\ container \/ died => script = "ended"
    /\ "die" \in pipe \/ stopper \in {"grace", "halt"} => died
IdleWaits ==
    /\ script = "setup" => timer = "off" /\ since = None /\ spent = 0
    /\ timer \in {"wait", "halt"} => since # None
    /\ Starting => timer # "halt" /\ (since # None => since <= spent)
    /\ container =>
           /\ timer # "halt"
           /\ since # None => since <= MaxStart + blind + (IF timer = "due" THEN 1 ELSE 0)

(* And of set -e: the script goes on only with the timer on.               *)
TimerFirst == script \in {"watch", "read", "mark", "run", "unmark"} => timer # "off"

(* A task is run once: however often the VM is preempted, reset or started *)
(* again with its id still in the metadata.                                *)
RunsAtMostOnce == \A t \in Task : ran[t] <= 1

(* A VM that is off has run every task it marked as consumed, except one   *)
(* whose start was cut short by the power: neither watcher turns the VM    *)
(* off while a task is on its way, and one that could not be started is    *)
(* there to be tried on the next boot.                                     *)
ConsumedMeansRun ==
    power # "on" /\ taskDone # None /\ taskDone \notin lost => ran[taskDone] > 0

(* A VM that nobody will turn off, as its script ended or hangs before the *)
(* timer was on, has not touched its task: it has not read it, so it has   *)
(* neither marked nor run it, and the next boot does.                      *)
TaskIsWatched == power = "on" /\ timer = "off" => task = None /\ ~container /\ ~died

(* All of it is inductive together.                                       *)
VMInv ==
    /\ TypeOK
    /\ UnsentIsFresh /\ MarkedIfRun /\ StartsFresh /\ RunsAtMostOnce
    /\ ConsumedOrStarting /\ ConsumedMeansRun
    /\ StopperWaits /\ IdleWaits /\ TimerFirst /\ TaskIsWatched

(* The VM does not turn itself off under a task, be it running or about to *)
(* start, even when docker does not answer a check.                        *)
PowerOffSparesTask ==
    [][power = "on" /\ power' = "off" => ~container /\ script # "run"]_vars

(* The VM turns itself off after its task without the idle timer's help,   *)
(* when its watcher was up, dockerd saw the task end and remembers it: "a  *)
(* worker that died before the stream subscribed is not missed"            *)
(* (worker-startup.sh:55).  A dockerd that restarts forgets and may take   *)
(* the watcher with it; then it is the timer's turn.                       *)
StopsWithTask ==
    WF_vars(Stopper) => (recorded /\ stopper # "off" ~> ~recorded \/ power # "on")

(* The safety net: once the script has got as far as enabling the timer,   *)
(* the VM does not stay on for ever, with or without a task, whatever      *)
(* fails from then on, and without the other watcher's or dockerd's help.  *)
SafetyNet == WF_vars(IdleCheck) /\ WF_vars(Tick) => (script = "watch" ~> power # "on")
=============================================================================
