----------------------------- MODULE Readiness ------------------------------
(***************************************************************************)
(* The usage topic of the metadata daemon (apps/cad): the collector that   *)
(* run starts and never twice at once (events.go), what a collection       *)
(* publishes, the snapshot on disk that outlives a crash (snapshot.go) and *)
(* what /healthz?ready says (server.go).  A collection is known by its     *)
(* number, 0 for none; its values are in module Place.  The snapshot is    *)
(* written to a temporary file and renamed, so on disk it changes in one   *)
(* step; a crash before the rename leaves the file as it was.              *)
(***************************************************************************)
EXTENDS Integers

CONSTANTS
    Goroutine,      \* that run may start to collect usage
    MaxAge,         \* snapshotMaxAge, in ticks of the clock
    SaveMayFail,    \* TRUE: the state directory may be full or not writable
    MayBeLost,      \* TRUE: the snapshot may get older than MaxAge, or unreadable
    MaxGen,         \* bound: no collection beyond it once one is published
    MaxStarts       \* bound on the daemon's starts

ASSUME ReadinessAssumption ==
    /\ MaxAge \in Nat /\ MaxGen \in Nat /\ MaxStarts \in Nat
    /\ SaveMayFail \in BOOLEAN /\ MayBeLost \in BOOLEAN

VARIABLES
    up,             \* the daemon answers
    starts,         \* how often it has started
    usage,          \* the published value: its collection, and whether marked stale
    readySrc,       \* "no" (nil), "snapshot" or "collected"
    busy,           \* run's flag for the usage collector
    pc, got,        \* per goroutine: where collectOne is, and its collection
    last,           \* the number of the last collection begun
    born,           \* last, when the daemon started
    file, age       \* the snapshot's collection, and the ticks since its mtime

daemonVars == <<up, starts, usage, readySrc, busy, pc, got, last, born, file, age>>

NoUsage == [gen |-> 0, stale |-> FALSE]

Init ==
    /\ up = FALSE /\ starts = 0
    /\ usage = NoUsage /\ readySrc = "no" /\ busy = FALSE
    /\ pc = [g \in Goroutine |-> "idle"] /\ got = [g \in Goroutine |-> 0]
    /\ last = 0 /\ born = 0
    /\ file = 0 /\ age = 0

-----------------------------------------------------------------------------
(* main: newHub, then loadSnapshot, and only then it listens.  A snapshot  *)
(* that is too old, cannot be read or does not parse counts as none.       *)
(* Mutant: the numbers of the snapshot are served as if just collected.    *)
LoadedFresh(gen) == [gen |-> gen, stale |-> FALSE]
Loaded(gen) == [gen |-> gen, stale |-> TRUE]

(* Mutant: any snapshot file makes the daemon ready, even one too old.     *)
BootReady ==
    /\ ~up /\ starts < MaxStarts
    /\ up' = TRUE /\ starts' = starts + 1 /\ born' = last
    /\ usage' = IF file # 0 /\ age <= MaxAge THEN Loaded(file) ELSE NoUsage
    /\ readySrc' = IF file # 0 THEN "snapshot" ELSE "no"
    /\ UNCHANGED <<busy, pc, got, last, file, age>>
Boot ==
    /\ ~up /\ starts < MaxStarts
    /\ up' = TRUE /\ starts' = starts + 1 /\ born' = last
    /\ \/ /\ file # 0 /\ age <= MaxAge
          /\ usage' = Loaded(file) /\ readySrc' = "snapshot"
       \/ /\ file = 0 \/ age > MaxAge \/ MayBeLost
          /\ usage' = NoUsage /\ readySrc' = "no"
    /\ UNCHANGED <<busy, pc, got, last, file, age>>

(* run starts the collector when due, unless its last run is in flight.    *)
(* Mutant: whenever it is due.                                             *)
CollectAnyway(g) ==
    /\ up /\ pc[g] = "idle"
    /\ last < MaxGen \/ readySrc # "collected"
    /\ busy' = TRUE /\ last' = last + 1
    /\ got' = [got EXCEPT ![g] = last + 1]
    /\ pc' = [pc EXCEPT ![g] = "publish"]
    /\ UNCHANGED <<up, starts, usage, readySrc, born, file, age>>
(* Mutant: a daemon that is ready already does not collect.                *)
CollectUnready(g) ==
    /\ up /\ pc[g] = "idle" /\ ~busy /\ readySrc = "no"
    /\ busy' = TRUE /\ last' = last + 1
    /\ got' = [got EXCEPT ![g] = last + 1]
    /\ pc' = [pc EXCEPT ![g] = "publish"]
    /\ UNCHANGED <<up, starts, usage, readySrc, born, file, age>>
Collect(g) ==
    /\ up /\ pc[g] = "idle" /\ ~busy
    /\ last < MaxGen \/ readySrc # "collected"
    /\ busy' = TRUE /\ last' = last + 1
    /\ got' = [got EXCEPT ![g] = last + 1]
    /\ pc' = [pc EXCEPT ![g] = "publish"]
    /\ UNCHANGED <<up, starts, usage, readySrc, born, file, age>>

(* Usage always marshals, so a collection is published.                    *)
Publish(g) ==
    /\ pc[g] = "publish"
    /\ usage' = [gen |-> got[g], stale |-> FALSE]
    /\ pc' = [pc EXCEPT ![g] = "save"]
    /\ UNCHANGED <<up, starts, readySrc, busy, got, last, born, file, age>>

(* usageCollected: a snapshot that cannot be saved is logged, and the      *)
(* daemon is ready all the same.                                           *)
(* Mutant: the first collection makes the daemon ready before it is saved. *)
SaveAfterReady(g) ==
    /\ pc[g] = "save"
    /\ IF readySrc # "collected"
       THEN readySrc' = "collected" /\ UNCHANGED <<pc, file, age>>
       ELSE file' = got[g] /\ age' = 0 /\ pc' = [pc EXCEPT ![g] = "mark"] /\ UNCHANGED readySrc
    /\ UNCHANGED <<up, starts, usage, busy, got, last, born>>
Save(g) ==
    /\ pc[g] = "save"
    /\ \/ file' = got[g] /\ age' = 0
       \/ SaveMayFail /\ UNCHANGED <<file, age>>
    /\ pc' = [pc EXCEPT ![g] = "mark"]
    /\ UNCHANGED <<up, starts, usage, readySrc, busy, got, last, born>>

Mark(g) ==
    /\ pc[g] = "mark"
    /\ readySrc' = "collected" /\ busy' = FALSE
    /\ pc' = [pc EXCEPT ![g] = "idle"]
    /\ UNCHANGED <<up, starts, usage, got, last, born, file, age>>

(* The clock moves on; a snapshot gets older until it is saved again.      *)
Tick ==
    /\ MayBeLost /\ file # 0 /\ age <= MaxAge
    /\ age' = age + 1
    /\ UNCHANGED <<up, starts, usage, readySrc, busy, pc, got, last, born, file>>

(* The daemon dies, wherever its goroutines are.                           *)
Crash ==
    /\ up /\ starts < MaxStarts
    /\ up' = FALSE
    /\ usage' = NoUsage /\ readySrc' = "no" /\ busy' = FALSE
    /\ pc' = [g \in Goroutine |-> "idle"] /\ got' = [g \in Goroutine |-> 0]
    /\ UNCHANGED <<starts, last, born, file, age>>

Run(g) == Collect(g) \/ Publish(g) \/ Save(g) \/ Mark(g)
Next == Boot \/ Tick \/ Crash \/ \E g \in Goroutine : Run(g)
Spec == Init /\ [][Next]_daemonVars

(* The supervisor restarts the daemon; goroutines run, and a due collector *)
(* is started.  Every collection ends: each command it runs has a timeout. *)
Fairness ==
    /\ WF_daemonVars(Boot)
    /\ \A g \in Goroutine : WF_daemonVars(Publish(g) \/ Save(g) \/ Mark(g))
    /\ WF_daemonVars(\E g \in Goroutine : Collect(g))
FairSpec == Spec /\ Fairness

-----------------------------------------------------------------------------
ReadinessTypeOK ==
    /\ up \in BOOLEAN /\ busy \in BOOLEAN /\ starts \in 0 .. MaxStarts
    /\ usage \in [gen : 0 .. last, stale : BOOLEAN]
    /\ readySrc \in {"no", "snapshot", "collected"}
    /\ pc \in [Goroutine -> {"idle", "publish", "save", "mark"}]
    /\ got \in [Goroutine -> 0 .. last]
    /\ last \in Nat /\ born \in 0 .. last
    /\ file \in 0 .. last /\ age \in 0 .. MaxAge + 1
    /\ \A g \in Goroutine : pc[g] # "idle" => busy

(* Ready means there is usage to serve; and once ready on account of a     *)
(* collection, it is of this daemon's own and not stale.                   *)
ReadyHasUsage ==
    /\ readySrc # "no" => up /\ usage.gen # 0
    /\ readySrc = "collected" => usage.gen > born /\ ~usage.stale

(* What is served is marked stale exactly when another daemon's run        *)
(* collected it, so a policy that blocks stale usage never trusts it.      *)
StaleIffInherited == usage.gen # 0 => (usage.stale <=> usage.gen <= born)

(* The inductive invariant: a daemon that is down holds nothing; run's     *)
(* flag keeps collections apart, so the one in flight is the last begun    *)
(* and this daemon's own; once published it stays published until marked.  *)
DownIsEmpty == ~up => usage = NoUsage /\ readySrc = "no" /\ ~busy
OneInFlight ==
    \A g \in Goroutine : pc[g] # "idle" =>
        /\ got[g] = last /\ last > born
        /\ \A h \in Goroutine : pc[h] # "idle" => h = g
        /\ pc[g] \in {"save", "mark"} => usage = [gen |-> last, stale |-> FALSE]
ReadinessInv == ReadinessTypeOK /\ DownIsEmpty /\ OneInFlight /\ ReadyHasUsage /\ StaleIffInherited

(* No collection, in this or an earlier run of the daemon, is overwritten  *)
(* on disk by an older one, and no crash takes the snapshot away.          *)
SnapshotNeverGoesBack == [][file' >= file]_daemonVars

(* The daemon gets to serve its own collection whatever the snapshot, once *)
(* it stops crashing.                                                      *)
EventuallyCollected == <>[][~Crash]_daemonVars => <>[](readySrc = "collected")
=============================================================================
