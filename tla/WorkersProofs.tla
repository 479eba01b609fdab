---------------------------- MODULE WorkersProofs -----------------------------
(***************************************************************************)
(* Proofs about Workers, for any providers, policies, fleets, threshold    *)
(* and number of edits.                                                    *)
(***************************************************************************)
EXTENDS Workers, SequenceTheorems, TLAPS

(* The invariant is inductive as it stands: what a provider's failures say *)
(* of its entry they say after every answer, failure, eviction and start.  *)
WorkersInv == TypeOK /\ UnknownIffFailing

(* The provider to ask next, and those after it.                           *)
LEMMA NextToPoll ==
    ASSUME TypeOK, Polling
    PROVE  /\ Head(toPoll) \in Provider /\ Tail(toPoll) \in Seq(Provider)
           /\ at = "poll"
  BY HeadTailProperties DEF TypeOK, Polling

LEMMA WorkersInvInit == Init => WorkersInv
  <1> SUFFICES ASSUME Init PROVE WorkersInv
    OBVIOUS
  <1>1. << >> \in Seq(Provider)  BY EmptySeq
  <1>2. /\ NoEntries \in [Provider -> Fleet \cup {"unknown", None}]
        /\ \A p \in Provider : NoEntries[p] = None
    BY DEF NoEntries
  <1>3. 0 \in 0 .. Threshold /\ 0 \in 0 .. MaxEdits  BY WorkersAssumption
  <1>4. TypeOK  BY <1>1, <1>2, <1>3 DEF Init, TypeOK
  <1>5. QED  BY <1>2, <1>4 DEF Init, WorkersInv, UnknownIffFailing

LEMMA BeginKeeps == WorkersInv /\ Begin => WorkersInv'
  <1> SUFFICES ASSUME WorkersInv, Begin PROVE WorkersInv'
    OBVIOUS
  <1>1. policy \in Seq(Provider)  BY WorkersAssumption DEF WorkersInv, TypeOK
  <1>2. /\ byProvider' \in [Provider -> Fleet \cup {"unknown", None}]
        /\ fails' \in [Provider -> 0 .. Threshold]
        /\ \A p \in Provider : byProvider'[p] # None =>
               byProvider'[p] = byProvider[p] /\ fails'[p] = fails[p]
    BY WorkersAssumption DEF Begin, WorkersInv, TypeOK
  <1>3. TypeOK'  BY <1>1, <1>2 DEF Begin, envVars, WorkersInv, TypeOK
  <1>4. UnknownIffFailing'  BY <1>2 DEF WorkersInv, UnknownIffFailing
  <1>5. QED  BY <1>3, <1>4 DEF WorkersInv

LEMMA ListedKeeps == WorkersInv /\ Listed => WorkersInv'
  <1> SUFFICES ASSUME WorkersInv, Listed PROVE WorkersInv'
    OBVIOUS
  <1> DEFINE p == Head(toPoll)
  <1>1. p \in Provider /\ Tail(toPoll) \in Seq(Provider) /\ at = "poll"
    BY NextToPoll DEF Listed, WorkersInv
  <1>2. /\ byProvider' = [byProvider EXCEPT ![p] = fleet[p]]
        /\ fails' = [fails EXCEPT ![p] = 0] /\ toPoll' = Tail(toPoll)
        /\ UNCHANGED <<envVars, at, served>>
    BY DEF Listed
  <1> HIDE DEF p
  <1>3. fleet[p] \in Fleet /\ 0 \in 0 .. Threshold /\ ~(0 >= Threshold)
    BY <1>1, WorkersAssumption DEF WorkersInv, TypeOK
  <1>4. TypeOK'  BY <1>1, <1>2, <1>3 DEF envVars, WorkersInv, TypeOK
  <1>5. UnknownIffFailing'
    <2> SUFFICES ASSUME NEW q \in Provider, byProvider'[q] # None
                 PROVE  byProvider'[q] = "unknown" <=> fails'[q] >= Threshold
      BY DEF UnknownIffFailing
    <2>1. CASE q = p
      <3>1. byProvider'[q] = fleet[p] /\ fails'[q] = 0
        BY <1>1, <1>2, <2>1 DEF WorkersInv, TypeOK
      <3>2. QED  BY <1>3, <3>1, WorkersAssumption
    <2>2. CASE q # p  BY <1>2, <2>2 DEF WorkersInv, TypeOK, UnknownIffFailing
    <2>3. QED  BY <2>1, <2>2
  <1>6. QED  BY <1>4, <1>5 DEF WorkersInv

LEMMA FailedKeeps == WorkersInv /\ FailedToList => WorkersInv'
  <1> SUFFICES ASSUME WorkersInv, FailedToList PROVE WorkersInv'
    OBVIOUS
  <1> DEFINE p == Head(toPoll)
             f == IF fails[p] < Threshold THEN fails[p] + 1 ELSE fails[p]
             b == IF byProvider[p] # None /\ f = Threshold THEN "unknown" ELSE byProvider[p]
  <1>1. p \in Provider /\ Tail(toPoll) \in Seq(Provider) /\ at = "poll"
    BY NextToPoll DEF FailedToList, WorkersInv
  <1>2. /\ fails' = [fails EXCEPT ![p] = f] /\ toPoll' = Tail(toPoll)
        /\ UNCHANGED <<envVars, at, served>>
    BY DEF FailedToList
  <1>3. fails[p] \in 0 .. Threshold /\ byProvider[p] \in Fleet \cup {"unknown", None}
    BY <1>1 DEF WorkersInv, TypeOK
  <1>4. f \in 0 .. Threshold  BY <1>3, WorkersAssumption
  <1>5. fails'[p] = f  BY <1>1, <1>2 DEF WorkersInv, TypeOK
  <1>6. byProvider' = [byProvider EXCEPT ![p] = b]
    BY <1>5 DEF FailedToList
  <1>7. b \in Fleet \cup {"unknown", None}  BY <1>3
  <1>8. b # None => (b = "unknown" <=> f >= Threshold)
    <2>1. byProvider[p] # None => (byProvider[p] = "unknown" <=> fails[p] >= Threshold)
      BY <1>1 DEF WorkersInv, UnknownIffFailing
    <2>2. QED  BY <1>3, <2>1, WorkersAssumption
  <1> HIDE DEF p, f, b
  <1>9. TypeOK'  BY <1>1, <1>2, <1>4, <1>6, <1>7 DEF envVars, WorkersInv, TypeOK
  <1>10. UnknownIffFailing'
    <2> SUFFICES ASSUME NEW q \in Provider, byProvider'[q] # None
                 PROVE  byProvider'[q] = "unknown" <=> fails'[q] >= Threshold
      BY DEF UnknownIffFailing
    <2>1. CASE q = p  BY <1>1, <1>5, <1>6, <1>8, <2>1 DEF WorkersInv, TypeOK
    <2>2. CASE q # p  BY <1>2, <1>6, <2>2 DEF WorkersInv, TypeOK, UnknownIffFailing
    <2>3. QED  BY <2>1, <2>2
  <1>11. QED  BY <1>9, <1>10 DEF WorkersInv

LEMMA WorkersInvStep == WorkersInv /\ [Next]_vars => WorkersInv'
  <1> SUFFICES ASSUME WorkersInv, [Next]_vars PROVE WorkersInv'
    OBVIOUS
  <1>1. CASE Publish
    BY <1>1 DEF Publish, envVars, storeVars, WorkersInv, TypeOK, UnknownIffFailing
  <1>2. CASE EditPolicy
    <2>1. edits' \in 0 .. MaxEdits
      BY <1>2, WorkersAssumption DEF EditPolicy, WorkersInv, TypeOK
    <2>2. QED  BY <1>2, <2>1 DEF EditPolicy, storeVars, WorkersInv, TypeOK, UnknownIffFailing
  <1>3. CASE Fleets
    BY <1>3 DEF Fleets, storeVars, WorkersInv, TypeOK, UnknownIffFailing
  <1>4. CASE Break
    BY <1>4 DEF Break, storeVars, WorkersInv, TypeOK, UnknownIffFailing
  <1>5. CASE Restart
    <2>1. << >> \in Seq(Provider) /\ 0 \in 0 .. Threshold  BY EmptySeq, WorkersAssumption
    <2>2. /\ NoEntries \in [Provider -> Fleet \cup {"unknown", None}]
          /\ \A p \in Provider : NoEntries[p] = None
      BY DEF NoEntries
    <2>3. TypeOK'  BY <1>5, <2>1, <2>2 DEF Restart, envVars, WorkersInv, TypeOK
    <2>4. QED  BY <1>5, <2>2, <2>3 DEF Restart, WorkersInv, UnknownIffFailing
  <1>6. CASE UNCHANGED vars
    BY <1>6 DEF vars, envVars, storeVars, WorkersInv, TypeOK, UnknownIffFailing
  <1>7. QED
    BY <1>1, <1>2, <1>3, <1>4, <1>5, <1>6, BeginKeeps, ListedKeeps, FailedKeeps
       DEF Next, Collector

LEMMA WorkersInvAlways == Spec => []WorkersInv
  BY WorkersInvInit, WorkersInvStep, PTL DEF Spec

(* The state of the collector is well typed, and between two polls what it *)
(* serves is what it holds.                                                *)
THEOREM WorkersTypeCorrect == Spec => []TypeOK
  <1>1. WorkersInv => TypeOK  BY DEF WorkersInv
  <1>2. QED  BY <1>1, WorkersInvAlways, PTL

(* Unknown means the threshold's failures in a row, for every threshold.   *)
THEOREM UnknownIffFailingAlways == Spec => []UnknownIffFailing
  <1>1. WorkersInv => UnknownIffFailing  BY DEF WorkersInv
  <1>2. QED  BY <1>1, WorkersInvAlways, PTL
=============================================================================
