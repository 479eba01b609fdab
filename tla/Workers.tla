------------------------------- MODULE Workers ------------------------------
(***************************************************************************)
(* The workers topic of the metadata daemon (apps/cad/workers.go): one     *)
(* collector at a time asks every allowed provider's list script in turn,  *)
(* while the policy is edited, scripts break and workers come and go.      *)
(* A provider's workers are one value, the state its script prints for     *)
(* them (with no workers there is nothing to call unknown); the merge of   *)
(* all providers into one sorted list is left out, and so are              *)
(* the collections between two polls, which publish what is published.     *)
(***************************************************************************)
EXTENDS Integers, Sequences

CONSTANTS
    Provider,
    Policies,       \* lists of allowed providers, as the policy may hold them
    Fleet,          \* what a script may print, "unknown" apart
    None,           \* the provider has no entry
    Threshold,      \* workerFailThreshold
    MaxEdits        \* bound on the edits of the policy

ASSUME WorkersAssumption ==
    /\ Policies \subseteq Seq(Provider)
    /\ "unknown" \notin Fleet /\ None \notin Fleet /\ None # "unknown"
    /\ Threshold \in Nat \ {0} /\ MaxEdits \in Nat

VARIABLES
    policy, edits,  \* currentPolicy().Providers.Allowed, and its edits so far
    fleet, broken,  \* per provider, what its script would print; those whose script fails
    byProvider,     \* workerStore.byProvider
    fails,          \* workerStore.fails
    toPoll,         \* what pollWorkers has yet to ask
    at,             \* where the collector is
    served          \* the workers topic

envVars == <<policy, edits, fleet, broken>>
storeVars == <<byProvider, fails>>
vars == <<envVars, storeVars, toPoll, at, served>>

NoEntries == [p \in Provider |-> None]
Allowed(ps) == {ps[i] : i \in DOMAIN ps}

Init ==
    /\ policy \in Policies /\ edits = 0
    /\ fleet \in [Provider -> Fleet] /\ broken \in SUBSET Provider
    /\ byProvider = NoEntries /\ fails = [p \in Provider |-> 0]
    /\ toPoll = << >> /\ at = "idle"
    /\ served = NoEntries

-----------------------------------------------------------------------------
(* pollWorkers: the policy is read once, and providers it no longer allows *)
(* are evicted before any is asked.                                        *)
(* Mutant: none is evicted.                                                *)
KeepAll(p) == FALSE
Evicted(p) == byProvider[p] # None /\ p \notin Allowed(policy)

Begin ==
    /\ at = "idle"
    /\ toPoll' = policy /\ at' = "poll"
    /\ byProvider' = [p \in Provider |-> IF Evicted(p) THEN None ELSE byProvider[p]]
    /\ fails' = [p \in Provider |-> IF Evicted(p) THEN 0 ELSE fails[p]]
    /\ UNCHANGED <<envVars, served>>

Polling == at = "poll" /\ toPoll # << >>

(* Mutant: an answer does not end the run of failures.                     *)
ListedAgain ==
    /\ Polling /\ Head(toPoll) \notin broken
    /\ byProvider' = [byProvider EXCEPT ![Head(toPoll)] = fleet[Head(toPoll)]]
    /\ toPoll' = Tail(toPoll)
    /\ UNCHANGED <<envVars, fails, at, served>>
Listed ==
    /\ Polling /\ Head(toPoll) \notin broken
    /\ fails' = [fails EXCEPT ![Head(toPoll)] = 0]
    /\ byProvider' = [byProvider EXCEPT ![Head(toPoll)] = fleet[Head(toPoll)]]
    /\ toPoll' = Tail(toPoll)
    /\ UNCHANGED <<envVars, at, served>>

(* markFailure: no script, an error, the timeout, output that is no list.  *)
(* Failures are counted up to the threshold, which is all that is asked.   *)
FailedToList ==
    /\ Polling /\ Head(toPoll) \in broken
    /\ fails' = [fails EXCEPT ![Head(toPoll)] = IF @ < Threshold THEN @ + 1 ELSE @]
    /\ byProvider' = [byProvider EXCEPT ![Head(toPoll)] =
                         IF @ # None /\ fails'[Head(toPoll)] = Threshold THEN "unknown" ELSE @]
    /\ toPoll' = Tail(toPoll)
    /\ UNCHANGED <<envVars, at, served>>

(* currentWorkers, and the publication of what it returns.                 *)
(* Mutant: without waiting for the providers yet to be asked.              *)
PublishEarly ==
    /\ at = "poll"
    /\ served' = byProvider
    /\ at' = "idle"
    /\ UNCHANGED <<envVars, storeVars, toPoll>>
Publish ==
    /\ at = "poll" /\ toPoll = << >>
    /\ served' = byProvider
    /\ at' = "idle"
    /\ UNCHANGED <<envVars, storeVars, toPoll>>

-----------------------------------------------------------------------------
(* The policy is edited, workers start and end, scripts break and recover. *)
EditPolicy ==
    /\ edits < MaxEdits /\ edits' = edits + 1
    /\ policy' \in Policies
    /\ UNCHANGED <<fleet, broken, storeVars, toPoll, at, served>>

Fleets ==
    /\ \E p \in Provider, s \in Fleet : fleet' = [fleet EXCEPT ![p] = s]
    /\ UNCHANGED <<policy, edits, broken, storeVars, toPoll, at, served>>

Break ==
    /\ \E p \in Provider : broken' = (broken \cup {p}) \ (broken \cap {p})
    /\ UNCHANGED <<policy, edits, fleet, storeVars, toPoll, at, served>>

Restart ==
    /\ byProvider' = NoEntries /\ fails' = [p \in Provider |-> 0]
    /\ toPoll' = << >> /\ at' = "idle" /\ served' = NoEntries
    /\ UNCHANGED envVars

Collector == Begin \/ Listed \/ FailedToList \/ Publish
Next == Collector \/ EditPolicy \/ Fleets \/ Break \/ Restart
Spec == Init /\ [][Next]_vars

(* The hub starts the collector again and again, and a script that hangs   *)
(* is killed.                                                              *)
FairSpec == Spec /\ WF_vars(Collector)

-----------------------------------------------------------------------------
TypeOK ==
    /\ policy \in Policies /\ edits \in 0 .. MaxEdits
    /\ fleet \in [Provider -> Fleet] /\ broken \subseteq Provider
    /\ byProvider \in [Provider -> Fleet \cup {"unknown", None}]
    /\ served \in [Provider -> Fleet \cup {"unknown", None}]
    /\ fails \in [Provider -> 0 .. Threshold]
    /\ at \in {"idle", "poll"} /\ toPoll \in Seq(Provider)
    /\ at = "idle" => toPoll = << >> /\ served = byProvider

(* Workers are unknown exactly while their provider has failed often       *)
(* enough in a row: neither the answer that follows, nor an eviction and a *)
(* return, leaves a provider half way.                                     *)
UnknownIffFailing ==
    \A p \in Provider :
        byProvider[p] # None => (byProvider[p] = "unknown" <=> fails[p] >= Threshold)

(* Once the policy, the scripts and the workers stay as they are, what is  *)
(* served is right: nothing of a provider removed while it was polled, the *)
(* list of one that answers, and no list as if current of one that fails.  *)
Right(p) ==
    CASE p \notin Allowed(policy) -> served[p] = None
      [] p \in Allowed(policy) \ broken -> served[p] = fleet[p]
      [] p \in Allowed(policy) \cap broken -> served[p] \in {None, "unknown"}
ServedSettles == <>[][Collector]_vars => <>[](\A p \in Provider : Right(p))
=============================================================================
