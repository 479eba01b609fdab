# A verification project for codingagentenv

TLA+ models of the parts of this repository that keep state, act concurrently or make
decisions: the metadata daemon `cad` (`src/apps/cad`), the placement CLI `orchd`
(`src/apps/orchd`) that reads it, the worker VMs that run tasks (`src/deploy/gcp`), and the
checklist skill `cl` (`src/skills/cl`). TLC checks each on a small instance; TLAPS proves the
main results for every value of the constants. Paths below are relative to the repository's
root; `src/` is its tree.

    cd tla
    tlc -workers 2 -config Hub.cfg MCHub.tla       # any pair of MC module and cfg below
    tlapm HubProofs.tla                            # any module named ...Proofs

## 1. The system

`cad` is one process per machine. Collectors (usage, capacity, workers, policy) publish
values on topics of a *hub*; clients read a topic with GET or follow all of them on an SSE
change feed; reviewers' quotas are POSTed. `cad` also is the CLI that edits the policy file
the daemon reads. `orchd place` is a short-lived process: it asks cad whether it is ready,
gets the usage and the capacity, and decides which agent runs a task on which computer.
`orchd dispatch` executes what place decided. The rest of the repository is deployment
(shell scripts and systemd units on VMs), Claude Code skills and small tools.

| component | state | operations | interacts with | hard because |
|---|---|---|---|---|
| hub, change feed (`events.go`, `server.go`) | revision, current events, replay ring, subscriber channels | publish, subscribe, unsubscribe, the stream handler, reconnect | collectors and POST handlers publish; clients come and go | lost connections, slow clients, a ring that rolls over, restarts |
| usage topic, snapshot, readiness (`events.go`, `snapshot.go`) | last collection, `readySrc`, the snapshot file | start a collection, publish, save, mark ready, load at start | the hub; `/healthz?ready`; orchd | crashes between the steps, failed saves, an expiring file |
| reviewer quotas (`events.go`, `quota.go`) | map of quotas, the quota topic | POST, setQuota, scan and reset | the hub | two writers, a lock released between look and write, time |
| policy file (`policy.go`, `cli.go`) | the file, the policy served with the mtime it was read at | add, rm, save, rename; currentPolicy | processes through the file system | concurrent processes, stat and read in two steps, bad files |
| workers topic (`workers.go`) | cached workers and failure counts per provider | poll, mark failure, evict, publish | policy, provider scripts | a poll takes seconds while the policy and the scripts change |
| place (`place.go`, `policy.go`) | none: loops over rules and agents | place, usableUsage, runner | usage and capacity of cad | many filters, three windows, a sentinel time, first match |
| a place call (`main.go`) | tries, what was fetched | cadReady, cadGet, place | cad, which may die between two requests | three requests that are not one |
| capacity (`capacity.go`) | none | slots, applyCgroup | policy's gate; place reads the slots | rounding, limits, a cgroup inside a host |
| usage collectors (`usage.go`, `codex_usage.go`, `opencode_usage.go`) | one goroutine per agent, the last good interval, stores on disk | start, run a CLI or a request with a deadline, fall back, wait for all, publish | external CLIs, other sessions of the account, the policy | commands that hang, answers after the deadline, files nobody refreshes |
| worker VM (`deploy/gcp/worker-startup.sh`) | consumed task id on disk, idle clock in `/run`, units, a container | boot, mark and run the task, watch for its end, watch for idleness, power off | docker, metadata server, whoever starts the VM | reboots and power cuts at any step, two watchers, power-off races |
| cad VM (`deploy/gcp/startup.sh`) | state of two systemd units | update, sleep loop | systemd, docker | mutual exclusion by looking |
| cl (`skills/cl`) | a JSON file: log, count of entries synced, store and its comment | every command loads, edits, saves; `sync`, `synced` | GitHub through `gh`; Jira by hand | no lock, a save in two steps, calls that fail halfway or after their effect |
| changegraph (`skills/changegraph/waves.py`), graphlocal (`tools/graphlocal`), statusbar (`mods/statusbar`), tokens (`agent/tokens`) | none; lock and socket; atoms; none | see the plan | files; a browser | cycles, successors |
| HTTP routing, CLI output, `bin/codingenv`, hooks, datadoc, secrets | none or files | | | sequential glue, not modelled |

`PROJECT.json` lists every component with its status, and under "hazards" what can go wrong
where, with the properties that would catch it, or why none does yet.

What makes each component correct, in words:

* **Feed.** A client that reconnects with the id it reached never ends up without a current
  value it asked for, never sees an older value of a topic after a newer one, and catches up
  once connections hold.
* **Usage.** Ready means there is usage; usage of an earlier daemon is marked stale; no older
  collection overwrites a newer one on disk, in any run of the daemon.
* **Quotas.** The topic shows what the daemon holds; last hits are kept; expired quotas go
  back to ok, and only those.
* **Policy file.** The daemon gets to serve the file as last left, without a restart, and only
  documents that parse; add and rm change what they were told and nothing else.
* **Workers.** Unknown means three failures in a row; what is served settles on the truth.
* **place.** The first rule and agent that can run the task win; `defer_until` is exact; "no
  rule fits" is final.
* **A place call.** It ends, and does not place without usage once the probe said ready.
* **Usage collectors.** Whatever hangs, usage is published again and again; numbers served as
  current are of bounded age.
* **Capacity.** The slots are how many tasks fit, and one more does not.
* **Worker VM.** A task runs once at most; one that counts as consumed has run, or its start
  was cut short; the VM does not power off on a running task; a task starts only with the idle
  watcher on, and from then on the VM does power off when its work is done: at once through the
  stop watcher when dockerd has seen the task end and remembers it, otherwise through the idle
  watcher alone.
* **cl.** An entry that counts as synced was posted; undisturbed, nothing is lost or posted
  twice.

## 2. Modules

| module | models | composes |
|---|---|---|
| `Feed` | what the change feed promises, with no ring, channel or daemon | abstract |
| `Hub` | `events.go` publish/snapshot/subscribe/unsubscribe, `server.go` serveEvents, its clients, restarts | implements `Feed` |
| `HubInv`, `HubProofs` | Hub's inductive invariant; theorems | extend `Hub` |
| `Readiness` | `events.go` run/collectOne for usage, `snapshot.go`, `serveReady`, crashes | |
| `PlaceCall` | `orchd/main.go` placeCmd's three requests | extends `Readiness` |
| `Quota`, `QuotaProofs` | `setQuota`, `postQuota`, `quota.go`; theorems | |
| `Place` | `orchd/place.go`, `Policy.runner` | |
| `PolicyFile`, `PolicyFileProofs` | `cad/policy.go` currentPolicy, `cad/cli.go` add/rm/savePolicy/writeAtomic; theorems | |
| `Workers`, `WorkersProofs` | `cad/workers.go`; theorems | |
| `UsageCollectors`, `UsageCollectorsProofs` | `cad/usage.go`, `codex_usage.go`, `opencode_usage.go`: what happens inside `Readiness`' collections; theorems | |
| `Capacity` | `cad/capacity.go` slots and applyCgroup | |
| `PlaceSlots` | placeCmd handing place the slots cad collected | `Place` and `Capacity` |
| `PlaceProofs` | theorems about place, its slots, the place call and the readiness of the cad it asks | extends `PlaceCall` and `PlaceSlots` |
| `WorkerVM`, `WorkerVMProofs` | `deploy/gcp/worker-startup.sh` and the two units it writes; theorems | |
| `ClSync`, `ClSyncProofs` | `skills/cl` cl.ts, store.ts; theorems | |
| `MC...` | the instances TLC checks | extend the above |

### How the models correspond to the code

**Hub.** `h.mu` is held by publish, subscribe and unsubscribe from beginning to end, so each
is one action (`Refresh`, `Announce`, `Connect`, `Return`). publish has two outcomes: a value
with the change key of the current one replaces the data GET serves and nothing else, any
other gets a revision, goes to the ring and to every channel with room; a channel without
room is closed and forgotten, and its handler first drains what it holds (`EndOfStream`).
Payloads are model values with a key each: two payloads of one key stand for values that
differ only in what `changeKey` or `collectedAt` leave out. A send and the client's receipt
are one action; what a connection loses in flight is lost here before it is sent, which
leaves a client in the same state. A client remembers `lastID` and what it has `seen`.
The wall clock at a start is any number; `ClockAhead` says that it is past every revision
given out before, which is what `events.go:64` relies on.

**Readiness.** A collection is a number; `born` separates those of the present daemon from
earlier ones. collectOne's publish, save and mark are three actions of a goroutine, `run`'s
`busy` flag is a variable, a crash may come between any two. The snapshot changes in one step
(temporary file, then rename); a save that fails leaves it. `MayBeLost` allows a snapshot that is
too old, cannot be read or does not parse, which are all the same to a boot.

**PlaceCall** adds the client: where it is, its tries, what usage it got. Each request is one
action against the daemon's state at that moment, and may fail whether cad is up or not: no
connection, a timeout, an answer of another kind. Only the probe's connection errors are tried
again.

**Quota.** A thread inside `setQuota` holds `qmu` from the write of the map to the end of
publish (`Set`, `Publish`); the loop's `Scan` and its `Reset`s are apart, as in the code.

**Place.** Each iteration of the two loops is a step: a rule or an agent is dropped, picked or
found over a window. A rule's agent pattern is the set it matches. The properties compare the
result with a second definition written from what the result is for (`Serves`: would rule j
run agent k at time t), not from the loops.

**PolicyFile.** `currentPolicy` is three steps, its system calls: stat, stat again and
compare, read. `add` and `rm` are load, (stat,) merge with the file as it is then, write the
temporary file, rename. The mtime is that of the temporary file, so a rename may take the
file's mtime *back*. An editor truncates and fills in place, and may leave what does not parse.

**Workers.** One poll asks the allowed providers one after the other; the policy, the scripts
and the workers change at any step. Failures are counted up to the threshold only, which is
all the code compares them with. Collections between two polls publish what is published.

**UsageCollectors** is the detail below the collections of `Readiness`: one collection starts
a goroutine per agent and ends with the last of them. A tick is longer than scheduling and
than the grace of a killed command (`WaitDelay`), and passes only when everything left to do
is waiting for a command, so `since`, the age of the collection, is also what the deadlines
are counted from. Numbers are an age; the entry of *one* agent, `watched`, chosen at the
start, is followed, as entries do not influence each other. The goroutine of `codexExchange`
is `exchange` while its collector waits, and is not followed afterwards: nobody receives from its
channel any more, which has room for its one result, and its server has been killed. A policy without
`collect.usage.every` is the one that says `Default`. Left out: the environment variable
`CAD_USAGE_EVERY`, which fixes the interval for the life of the daemon, and what the numbers
are: utilisations, resets, the parsing of each format.

**Capacity** is arithmetic: memory in MB and a fraction of it for the cgroup's bytes, cpus in
tenths. `Fitting`, the code's three quotients, stands beside `Room`, which says for how many
tasks there is room without a division, and `Exact` relates the two. `PlaceSlots` composes it
with `Place`: the slots of a call are those `Collected` computes from a machine.

**WorkerVM.** `power` is on, off by the VM's own shutdown, or cut. The disk keeps the mark of
the consumed task; a boot finds `/run` and the units
gone and no container running. Each command of
the script that can fail, or after which a power cut makes a difference, is a step of its own;
so are the steps of the idle check and of the stop watcher (subscribe to the events, look at
what runs, wait, power off), because the container may end between any two. A tick is the timer's
minute. `docker` says whether dockerd is up, `recorded` whether it remembers the container's
death: its events are in memory, so a restart forgets them, and a container that live-restore kept
alive and that ends while dockerd is down is never noticed. `pipe` is what the watcher has not read
of its stream. As worker-stop.service requires docker.service, a restart of dockerd may restart the
watcher in any of its states, or leave it off (`WatcherRestarts`).
`EnableTimer` is the script up to line 110, where the idle timer is turned on: it fails if any of
its commands does (`set -e`), and it may never come, as docker is asked without a deadline; so it
has no fairness. The exit status of `docker run -d` is taken to tell whether the container started,
and the mark is on the disk once it is written: nothing flushes it (line 123), and a power cut
within the file system's write-back could take it back.
External: whoever writes the task into the metadata, which gives each task an id of its own;
the container, which ends when it likes. Left out: what the image pull and the secrets are, whose
failures the script ignores.

**ClSync.** Loading and editing are one step, saving is two (writeFileSync truncates, then
writes), every call of `gh` is one, and it works, fails, or fails after it took effect. What
was printed for Jira and posted by hand is `paper`, until `synced` says so. Of a
checklist the model keeps log, count and store: items and decisions do not influence them.

## 3. What TLC checks

| run | instance | states | shows |
|---|---|---|---|
| `hub` | 3 topics, 3 payloads of 2 keys, one client that wants 2 of the topics, ring of 2, channel of 1, revisions up to 7 | 147,559 | `TypeOK`, `NothingSkipped`, `FeedInv` (the proof's invariant), `ViewNeverGoesBack`, `ImplementsFeed`, `EventuallyCurrent` |
| `place` | 4 rule lists over 2 agents of 2 services, all combinations of their usage, 2 classes, 0 or 1 slot, both `staleUsage`; and 150 machines around the limits of memory, cpus, gate and cgroup | 78,849 | `FirstUsableWins`, `DeferIsExact`, `UnprocessableIsFinal`, `SlotsExact` against the references |
| `readiness` | 2 goroutines, 3 starts, collections up to 3 while not marked, failing saves, a snapshot that expires or cannot be read | 2,274 | `ReadinessInv` (inductive), `ReadyHasUsage`, `StaleIffInherited`, `SnapshotNeverGoesBack`, `EventuallyCollected` |
| `placecall` | 4 starts of cad, 3 retries; any request may fail, but saves succeed and the snapshot stays good | 17,116 | `CallInv` (inductive), `NotPlacedBlind`, `CallEnds` |
| `placecall_blind` | the same, saves may fail | violation | see findings |
| `quota` | 2 handlers, the loop, 2 reviewers, 3 posts, 3 ticks | 64,865 | `QuotaInv` (inductive), `PublishedIsCurrent`, `HitIsKept`, `ExpiredGoesBack` |
| `quota_race` | the same with 2 posts | violation | see findings |
| `policyfile` | 2 CLIs, 2 agents, an editor, 3 writes | 524,856 | `PolicyFileInv` (inductive; only parsed documents are served), `EditIsServed`, `UndisturbedEdit` |
| `workers` | 2 providers, 4 policies (one lists a provider twice), 2 edits | 181,072 | `TypeOK`, `UnknownIffFailing`, `ServedSettles` |
| `usagecollectors` | an agent of each service, intervals of 1 and 2 ticks and an invalid one, deadlines of 1 and 2 | 48,060 | `UsageInv` (inductive), `ServedAgeBounded`, `PublishedAgainAndAgain` |
| `workervm` | 2 tasks, 3 idle minutes, 1 minute to start a container, 1 check in a row without an answer of docker; boots, power cuts and restarts of dockerd without bound | 10,640 | `VMInv` (inductive), `RunsAtMostOnce`, `ConsumedMeansRun`, `TaskIsWatched`, `PowerOffSparesTask`, `StopsWithTask`, `SafetyNet` |
| `clsync` | 2 commands at a time (symmetric), one GitHub and one Jira issue, 3 entries | 477,004 | `SyncedWasPosted`, `UndisturbedSync` |

Why the bounds are enough. In `hub` three more revisions than ring and channel hold are
reached, and a restart on top: the ring rolls over under a client, its channel overflows, its
snapshot is cut short, and a stale id meets a new daemon. One client suffices because
clients do not interact: each has its own channel, and publish treats them alike; the proofs
are for any number. `readiness` needs two goroutines to overlap, and three starts so that a
daemon that began from a snapshot leaves one. `quota` needs two posts around a reset.
`policyfile` needs a writer that overtakes another, and a third write between the reader's
steps. In `workers` a provider can fail three times across an eviction and return.
In `usagecollectors` the deadline can be below, at and above the interval, and the interval
be edited in both directions under a collection; the four intervals of
`ServedAgeBounded` are tight: with one tick less it is violated. `workervm` needs two
tasks for an old mark to meet a new task. `clsync` needs two commands that write over each other, and a third entry after an
entry that was posted and one that was not.
`MaxRev`, `MaxGen`, `MaxStarts`, `MaxNow`, `MaxPosts`, `MaxWrites`, `MaxEdits` and
`MaxEntries` only stop the counters.
`MaxStart` and `MaxBlind` are assumptions about the world: a container starts within so many
minutes of the timer, docker misses no more checks in a row. `WorkerAssumption` wants their
sum below `Idle`, and with `Idle` one less `PowerOffSparesTask` is violated: then the
idle watcher may power off on a task that has only just begun.
`CHECK_DEADLOCK FALSE` stands where the system stops: a finished call of place, a
quota model whose clock has run out, a daemon past its last start, a checklist whose entries
are used up and whose file a killed command left torn.

Each property is shown to depend on the code by a mutant of it (`PROJECT.json`, "mutants"):
a definition with a plausible bug, kept beside the original under a comment "Mutant: ...".

### Fairness

| assumed | because |
|---|---|
| `Hub`: a client connects again, handlers send and return | an EventSource reconnects by itself; goroutines are scheduled. Nobody is obliged to publish, and `EventuallyCurrent` assumes that connections stop being lost |
| `Readiness`: goroutines go on, a due collector is started, the supervisor boots cad | every command of a collection has a timeout; `run` ticks every 250 ms; systemd, swarm or the user restarts it. Liveness is claimed only if it stops crashing |
| `PlaceCall`: the call goes on | every request has a 5 s timeout |
| `Quota`: publish ends; the loop gets the mutex again and again (strong) | Go's mutex hands over to a waiter that starves. Posting and the clock are free to stop |
| `PolicyFile`: currentPolicy is called again and again | the policy collector runs every 2 s. No CLI has to end |
| `Workers`: the collector goes on | it runs every 2 s and a script that hangs is killed after 5 s + 2 s |
| `UsageCollectors`: a due collection starts, goroutines go on, time passes | `run` ticks every 250 ms; deadlines are timers of the runtime. No command has to answer or to end |
| `WorkerVM`: the startup script, once the timer is on, and a shutdown go on, a container ends | systemd runs them; that a task ends is assumed. The script need not get as far as the timer, and dockerd may stay down for ever. The fairness of a watcher is the premise of each liveness property: `StopsWithTask` needs the stop watcher alone, `SafetyNet` the idle timer alone |

### Findings

1. `placecall_blind`. `orchd/main.go:131` wants a cad without usage tried again "instead of
   placing blind". Only the probe looks. If cad restarts after the probe and its snapshot
   could not be saved, GET /v1/usage is 404, `cadGet` takes that for empty usage, and an
   agent of unknown usage is placed. With a snapshot that can be saved and is young enough
   it cannot happen (`placecall`): the daemon marks itself ready only after the save.
2. `quota_race`. `quota.go:5` says that reviewers are flipped to ok once their resetAt has
   passed; a POST between the loop's unlock and its setQuota is flipped though it is
   exhausted until later. The comment at `quota.go:16` knows of the window.

Two assumptions matter and can be tried. With `ClockAhead = FALSE` in `Hub.cfg`, the clock
having gone back across a restart, TLC finds `ImplementsFeed` violated, and `NothingSkipped`
when that is the only property. With `FineClock = FALSE` in `PolicyFile.cfg`, two writes of one mtime, it
finds `EditIsServed` violated (and `UndisturbedEdit`, which takes the mtime for the file's
identity). Both are listed as hazards.

Comments out of date, without a run, as nothing that moves is involved:

* `orchd/place.go:46` ("main maps them to exit 0/3/4") and `deploy/gcp/startup.sh:126`;
  `placeCmd` exits 0 on all three outcomes.
* `deploy/gcp/worker-startup.sh:6` and `:112`, `deploy/gcp/README.md:130` and `:133` and
  `deploy/worker-run.sh:3` have `orchd dispatch` (`apps/orchd/vm.go`) put a task into the VM's
  metadata. There is no `vm.go`, and dispatch refuses a runner without `cmd`, as
  `apps/orchd/README.md:34` says. Whoever does it is external to `WorkerVM`.

Limits of the worker VM, from `WorkerVM`'s steps:

* The safety net is on from line 110 of `worker-startup.sh`, not from the boot as its header
  (lines 14-16) may be read. A directory or a unit that cannot be made ends the script before
  that, and a docker that hangs (lines 41-43) keeps it from getting there: neither watcher is on, and
  the VM stays on until somebody stops it. `SafetyNet` therefore speaks of a script that has passed
  line 110, and `TaskIsWatched` says what holds before it: no task has been read, so none is lost.
* The comment at lines 54-55 counts on `Restart=always` and `--since` for a stream that ends when
  dockerd restarts. The restart also empties dockerd's memory of events, and may take the watcher
  with it; if the task ended before or during it, the VM stays on until the idle timer's
  `idle-minutes`. `StopsWithTask` therefore asks that dockerd still remembers the death.

Two limits of `cl` that no document promises to be otherwise. `SyncedWasPosted` excludes
overlapping commands *together with* entries marked by hand: `synced <next>` is believed, and
what it was printed for may have been overwritten meanwhile. And a sync whose post of the managed
comment fails after its effect does not know the comment's id: the next one posts a second,
which is why `UndisturbedSync` assumes that a call which fails has had no effect.

## 4. What is proved

All proofs hold for every value of the constants under the named ASSUMEs of the modules.

**Hub** (`HubProofs`). `TypeCorrect` needs nothing more. The other five theorems assume
`ClockAhead`; without it they are false. They rest on `FeedInv` (`HubInv`), the inductive
invariant, because none of the properties is inductive alone:

* `NothingSkipped` is about the id a client would come back with. A replay is right only if
  the ring is gap-free, ends at the present revision (`RingWindow`) and holds every current
  value that is young enough (`CurOnRing`).
* While a stream is open, a value the client lacks must be on its way (`OpenCovered`,
  `OutCovered`), in order (`StreamOrdered`), or a later event would raise the id above it.
  A channel that publish closed is no longer covered for new values, but is for the ids of what it
  holds: that is why there are two.
* `ViewNeverGoesBack` is not obvious: a snapshot cut short leaves a client with an id *below*
  what it saw of other topics. It holds because such a client's ring has rolled past them, or
  it would not have been sent a snapshot (`SeenRolled`, `OutRolled`), and the ring never
  comes back.

`HubImplementsFeed` maps `rev`, the revisions of `cur`, those of `seen`, and `lastID` to
`Feed`'s four variables: `Announce` is Feed's Announce, `Restart` its Renew, a receipt of a
wanted event its Show, everything else stutters.

**Place** (`PlaceProofs`). The invariant says of the pairs passed so far that none serves
now, and that `deferUntil` is the least of the moments at which they would. From it follow
`FirstUsableWinsAlways`, `DeferIsExactAlways` and `UnprocessableIsFinalAlways`, for every
policy, usage and request that satisfies `WellFormed`.

The slots come from `PlaceSlots`: `SlotsExactAlways` says, for every machine and gate, that they
are the tasks there is room for and no fewer. The argument turns the code's three quotients
into products (`WholeFits`, `CpusHoldQuota`). It found a case the reference had to leave out:
in a cgroup, free memory below zero is set to zero *before* the reserve is taken off, so with a
negative reserve, which `loadPolicy` does not refuse, there would be slots without room.

**Quota** (`QuotaProofs`). `PublishedIsCurrent` is not inductive: it needs that a list on its
way to publish is still the map's (`ListIsNewest`), which holds because `qmu` is kept until after
publish, by one thread at a time. `HitIsKept` needs that no hit lies in the future (`HitsArePast`), or
a later POST would write an earlier one.

**Readiness** and **PlaceCall** (`PlaceProofs`, too). `ReadinessInv` adds to the properties that
one collection at most is in flight, begun by this daemon and newer than anything saved, and that
what it has published stays published until it marks the daemon ready (`OneInFlight`). From it
follow `ReadyHasUsage`, `StaleIffInherited` and, as a property of steps, `SnapshotNeverGoesBack`.
`CallKeepsDaemon` says that a place call only reads: every behaviour of `PlaceCall` is one of
`Readiness`, so all of that holds beside a call too. `NotPlacedBlindAlways` assumes what the run
assumes, `~SaveMayFail /\ ~MayBeLost`; without the first it is false (finding 1). Then a snapshot
remains from the moment a probe succeeds (`SnapshotRemains`), in every later daemon.

**Workers** (`WorkersProofs`). A provider is unknown exactly when its failures reached the
threshold, for any threshold; with `TypeOK` that is inductive, as it also speaks of the list a poll
is still building.

**PolicyFile** (`PolicyFileProofs`). That only parsed documents are served or written back is part of
`TypeOK` and needs no clock. `UndisturbedEdit` takes the mtime for the file's identity and is proved,
as it is true, only of a `FineClock`: then the mtime of a temporary file is no other file's, and
nobody has loaded it yet (`StampIsNew`), although a rename may take the file's mtime back; so while
the file has the mtime a process loaded, that process holds that file with its one edit, and
after the merge its other key too (`CopyIsFileEdited`).

**UsageCollectors** (`UsageCollectorsProofs`). `ServedAgeBounded` is a sum, and `AgesAddUp` its
terms: two intervals when a file was read, plus the age of the collection; plus, once published,
the wait for the next, and that one's age. Each term is bounded because time passes only
while some collector is short of its deadline, which is never past the interval
(`WaitingIsInTime`), or while the next collection is not due.

**WorkerVM** (`WorkerVMProofs`). `RunsAtMostOnce` needs that the script reaches `docker run` only
with a task that is marked and has not run (`StartsFresh`), and that what ran is still marked while
its id is in the metadata (`MarkedIfRun`). `PowerOffSparesTask` rests on the two watchers'
invariants: the stop watcher decides only once its task has died (`StopperWaits`), which a restart of
dockerd does not change; the idle clock
is younger than `MaxStart` plus the checks docker missed (`IdleWaits`), and `WorkerAssumption`
puts their sum below `Idle`. `TaskIsWatched` needs that no later step of the script is reached
without the timer (`TimerFirst`).

**ClSync** (`ClSyncProofs`), for any processes, issues and entries. `SyncedWasPosted` is about the
file, but what it will say is in the copies commands hold and on `paper`: `PostedInv` says that
each of these would mark only posted entries (`CopiesWerePosted`, `PaperWasPosted`), unless
entries were marked by hand while commands overlapped. `UndisturbedSync` needs that the
single command's copy continues the file (`UndisturbedCopy`, `UndisturbedFile`). The run lists the
two properties; their invariants, `PostedInv` and `UndisturbedInv`, hold on the same instance when
named in `ClSync.cfg`.

`StreamOrdered`, `PostedInv`, `Place`'s `PlaceInv` and `TypeOK`, and `CallKeepsDaemon` are proved
and have no place of their own among the runs.

The constants' assumptions the proofs use, besides sizes and that `None`, `Torn`, `NoLimit` and
`Nil` are no values of what they stand beside: agents are of one service, there is a longest
interval (`UsageAssumption`), the slots of a call are those of its machine (`SlotsAssumption`), and
the sum above. TLC evaluates all of them.

**Only model-checked**: the nine liveness properties. Liveness under fairness and ENABLED are out
of the prover's reach. So is what a recursive definition computes for every input, but no module
here has a RECURSIVE operator.

## 5. Not modelled

* Formatting, parsing of flags, HTTP routing, authorisation: no property is about them.
* What the usage numbers are, and where capacity's are read from (`/proc`, `sysctl`,
  `vm_stat`): parsing, without a state. The load average decides nothing.
* `GET /v1/<topic>`: a read of `cur` under the lock.
* A read of the policy file that fails for another reason than its absence, leftover
  temporary files, quotas across restarts: listed as hazards with a note.
* The computers of the policy file: they take the path of the agents, with another key.
* Keys of the policy file that cad does not know, when nested in an object it does: `maps.Copy`
  (`cli.go:137`) writes that object as cad knows it, and they are lost. The model's other key is one
  of the top level, which survives.
* The format of `defer_until`: `place` returns a time, `main.go:173` prints it in whole seconds, so
  one that has a fraction is printed up to a second early.
* A value that does not marshal, on which publish returns without publishing (`events.go:81-85`):
  usage always marshals.
* Which store an entry of `cl` was posted to: `posted` is one set, whatever the issue.
* orchd's modes and dispatch: a lookup, and an exec that replaces the process.
* The cad VM's update and sleep units, graphlocal, changegraph's waves, the statusbar and
  `agent/tokens`: each is apart from the system above, and comes after the proofs in the plan.
* `worker-run.sh`, secrets, the installer, hooks and datadoc: sequential glue.

## 6. Plan

In order of what is worth most:

1. `UpdateSleep` and `GraphLocal`: exclusion by looking at each other's state.
2. `Waves` and the aggregation of `agent/tokens`, as operators against reference definitions.
