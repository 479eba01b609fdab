----------------------------- MODULE PlaceCall ------------------------------
(***************************************************************************)
(* One run of orchd place (apps/orchd/main.go, placeCmd) against a cad     *)
(* that may crash between any two of its three requests: the readiness     *)
(* probe with its retries, GET /v1/usage and GET /v1/capacity.  What the   *)
(* answer then is, is module Place's; here it is what place went by.       *)
(* The value of /v1/capacity is left out: only its failure ends the call.  *)
(***************************************************************************)
EXTENDS Readiness

CONSTANTS Retries       \* 3 in the code

ASSUME PlaceCallAssumption == Retries \in Nat

VARIABLES
    at,         \* "probe", "usage", "capacity", then "done"
    tries,      \* connection errors of the probe so far
    went,       \* the usage the call got: "none" yet, "unknown", "stale" or "known"
    exit        \* "running", then "placed", "deferred" or "failed"

callVars == <<at, tries, went, exit>>
allVars == <<daemonVars, callVars>>

CallInit ==
    /\ Init
    /\ at = "probe" /\ tries = 0 /\ went = "none" /\ exit = "running"

End(how) == at' = "done" /\ exit' = how

-----------------------------------------------------------------------------
(* Mutant: one more try than the backoff has waits for.                    *)
ProbeOnceMore ==
    /\ at = "probe"
    /\ \/ tries <= Retries /\ tries' = tries + 1 /\ UNCHANGED <<at, exit>>
       \/ End("failed") /\ UNCHANGED tries
    /\ UNCHANGED <<daemonVars, went>>
(* cadReady: no answer, from a cad that is up or not, is tried again while *)
(* there are tries left; any status but 200 and 503 ends the call.         *)
(* Mutant: without counting the tries.                                     *)
ProbeFailsForever ==
    /\ at = "probe" /\ tries < Retries
    /\ UNCHANGED <<daemonVars, at, tries, went, exit>>
ProbeFails ==
    /\ at = "probe"
    /\ \/ tries < Retries /\ tries' = tries + 1 /\ UNCHANGED <<at, exit>>
       \/ End("failed") /\ UNCHANGED tries
    /\ UNCHANGED <<daemonVars, went>>

(* Mutant: any answer of the probe will do.                                *)
ProbeAnyAnswer ==
    /\ at = "probe" /\ up
    /\ at' = "usage"
    /\ UNCHANGED <<daemonVars, tries, went, exit>>
(* 503 defers.                                                             *)
Probe ==
    /\ at = "probe" /\ up
    /\ IF readySrc = "no" THEN End("deferred") ELSE at' = "usage" /\ UNCHANGED exit
    /\ UNCHANGED <<daemonVars, tries, went>>

(* cadGet: 404 leaves the value empty, and place takes it for unknown.     *)
GetUsage ==
    /\ at = "usage" /\ up
    /\ at' = "capacity"
    /\ went' = IF usage.gen = 0 THEN "unknown" ELSE IF usage.stale THEN "stale" ELSE "known"
    /\ UNCHANGED <<daemonVars, tries, exit>>

GetCapacity ==
    /\ at = "capacity" /\ up
    /\ End("placed")
    /\ UNCHANGED <<daemonVars, tries, went>>

(* Unreachable, too slow, any other status, or not to be decoded.          *)
GetFails ==
    /\ at \in {"usage", "capacity"}
    /\ End("failed")
    /\ UNCHANGED <<daemonVars, tries, went>>

Call == ProbeFails \/ Probe \/ GetUsage \/ GetCapacity \/ GetFails
CallNext == (Next /\ UNCHANGED callVars) \/ Call
CallSpec == CallInit /\ [][CallNext]_allVars

(* Every request has a timeout, so the call goes on.                       *)
CallFairSpec == CallSpec /\ WF_allVars(Call)

-----------------------------------------------------------------------------
CallTypeOK ==
    /\ ReadinessTypeOK
    /\ at \in {"probe", "usage", "capacity", "done"}
    /\ tries \in 0 .. Retries
    /\ went \in {"none", "unknown", "stale", "known"}
    /\ exit \in {"running", "placed", "deferred", "failed"}
    /\ at = "done" <=> exit # "running"

(* A call that the probe let through was never answered blind, although    *)
(* cad may have died and come back between the probe and the answer: "cad  *)
(* restarted and has no usage yet: try again shortly instead of placing    *)
(* blind" (main.go:131).                                                   *)
NotPlacedBlind == exit = "placed" => went \in {"stale", "known"}

(* Why, as long as snapshots can be saved and are young enough: a daemon   *)
(* that says it is ready has a snapshot on disk, each later one starts     *)
(* from it or from a newer one, and serves usage from then on.             *)
SnapshotRemains ==
    /\ age = 0
    /\ readySrc # "no" => file # 0
    /\ up /\ file # 0 => usage.gen # 0
    /\ \A g \in Goroutine : pc[g] = "mark" => file # 0
    /\ at \in {"usage", "capacity"} => file # 0
    /\ at = "capacity" => went \in {"stale", "known"}
CallInv ==
    /\ CallTypeOK /\ ReadinessInv
    /\ ~SaveMayFail /\ ~MayBeLost => SnapshotRemains /\ NotPlacedBlind

(* The call ends, whatever cad does.                                       *)
CallEnds == <>(at = "done")
=============================================================================
