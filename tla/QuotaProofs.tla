----------------------------- MODULE QuotaProofs ------------------------------
(***************************************************************************)
(* Proofs about Quota, for any reviewers, request handlers, clock and      *)
(* number of requests.                                                     *)
(***************************************************************************)
EXTENDS Quota, TLAPS

(* What a thread writes is a quota, never older than the one it replaces.  *)
LEMMA HitType ==
    ASSUME QuotaInv, NEW r \in Reviewer, NEW state \in State
    PROVE  Hit(r, state) \in Nat /\ Hit(r, state) <= now /\ OldHit(r) <= Hit(r, state)
  <1>1. now \in Nat  BY DEF QuotaInv, TypeOK
  <1>2. CASE quotas[r] = None  BY <1>1, <1>2 DEF Hit, OldHit
  <1>3. CASE quotas[r] # None
    <2>1. quotas[r] \in Record  BY <1>3 DEF QuotaInv, TypeOK, Quotas
    <2>2. quotas[r].lastHit \in Nat /\ quotas[r].lastHit <= now
      BY <1>3, <2>1 DEF QuotaInv, HitsArePast, Record
    <2>3. QED  BY <1>1, <1>3, <2>2 DEF Hit, OldHit
  <1>4. QED  BY <1>2, <1>3

(* setQuota up to publish.                                                 *)
LEMMA SetKeeps ==
    ASSUME QuotaInv, NEW t \in Thread, NEW r \in Reviewer, NEW state \in State,
           NEW at \in Nat, Set(t, r, state, at),
           posts' \in 0 .. MaxPosts, due' \subseteq Reviewer
    PROVE  /\ QuotaInv'
           /\ \A s \in Reviewer : OldHit(s) <= OldHit(s)'
  <1> DEFINE new == [state |-> state, resetAt |-> at, lastHit |-> Hit(r, state)]
  <1>1. new \in Record /\ new.lastHit <= now /\ OldHit(r) <= new.lastHit
    BY HitType DEF Record
  <1>2. new # None  BY <1>1, QuotaAssumption
  <1>3. quotas' = [quotas EXCEPT ![r] = new] /\ qmu' = t /\ now' = now /\ published' = published
        /\ list' = [list EXCEPT ![t] = quotas']
    BY DEF Set
  <1> HIDE DEF new
  <1>4. quotas \in Quotas /\ quotas' \in Quotas /\ quotas' # None
        /\ quotas'[r] = new /\ \A s \in Reviewer \ {r} : quotas'[s] = quotas[s]
    BY <1>1, <1>3, QuotaAssumption DEF QuotaInv, TypeOK, Quotas
  <1>5. /\ list' \in [Thread -> Quotas \cup {None}]
        /\ list'[t] = quotas'
        /\ \A u \in Thread \ {t} : list'[u] = None
    <2>1. list \in [Thread -> Quotas \cup {None}] /\ \A u \in Thread : list[u] = None
      BY QuotaAssumption DEF QuotaInv, TypeOK, Set
    <2>2. QED  BY <1>3, <1>4, <2>1
  <1>6. TypeOK'
    <2>1. \A u \in Thread : list'[u] # None <=> qmu' = u  BY <1>3, <1>4, <1>5
    <2>2. QED  BY <1>3, <1>4, <1>5, <2>1 DEF QuotaInv, TypeOK
  <1>7. ListIsNewest' /\ PublishedIsCurrent'
    BY <1>4, <1>5 DEF ListIsNewest, PublishedIsCurrent
  <1>8. HitsArePast'  BY <1>1, <1>3, <1>4 DEF QuotaInv, HitsArePast
  <1>9. ASSUME NEW s \in Reviewer  PROVE OldHit(s) <= OldHit(s)'
    <2>1. CASE s = r  BY <1>1, <1>2, <1>4, <2>1 DEF OldHit
    <2>2. CASE s # r
      <3>1. OldHit(s)' = OldHit(s)  BY <1>4, <2>2 DEF OldHit
      <3>2. OldHit(s) \in Nat
        <4>1. CASE quotas[s] = None  BY <4>1 DEF OldHit
        <4>2. CASE quotas[s] # None  BY <1>4, <4>2 DEF OldHit, Quotas, Record
        <4>3. QED  BY <4>1, <4>2
      <3>3. QED  BY <3>1, <3>2
    <2>3. QED  BY <2>1, <2>2
  <1>10. QED  BY <1>6, <1>7, <1>8, <1>9 DEF QuotaInv

LEMMA QuotaInvInit == Init => QuotaInv
  <1> SUFFICES ASSUME Init PROVE QuotaInv
    OBVIOUS
  <1>1. Unset \in Quotas /\ \A r \in Reviewer : Unset[r] = None  BY DEF Unset, Quotas
  <1>2. \A t \in Thread : list[t] = None /\ qmu # t  BY QuotaAssumption DEF Init
  <1>3. TypeOK  BY <1>1, <1>2, QuotaAssumption DEF Init, TypeOK
  <1>4. QED
    BY <1>1, <1>2, <1>3 DEF Init, QuotaInv, ListIsNewest, PublishedIsCurrent, HitsArePast

(* Every step keeps the invariant, and every step but a restart the hits.  *)
LEMMA QuotaInvStep ==
    ASSUME QuotaInv, [Next]_vars
    PROVE  QuotaInv' /\ (~Restart => \A r \in Reviewer : OldHit(r) <= OldHit(r)')
  <1>0. ASSUME quotas' = quotas  PROVE \A r \in Reviewer : OldHit(r) <= OldHit(r)'
    <2> TAKE r \in Reviewer
    <2>1. OldHit(r)' = OldHit(r)  BY <1>0 DEF OldHit
    <2>2. CASE quotas[r] = None  BY <2>1, <2>2 DEF OldHit
    <2>3. CASE quotas[r] # None
      BY <2>1, <2>3 DEF OldHit, QuotaInv, TypeOK, Quotas, Record
    <2>4. QED  BY <2>2, <2>3
  <1>1. ASSUME NEW t \in Poster, NEW r \in Reviewer, NEW s \in State, NEW at \in 0 .. MaxNow,
               Post(t, r, s, at)
        PROVE  QuotaInv' /\ \A u \in Reviewer : OldHit(u) <= OldHit(u)'
    <2>1. t \in Thread /\ at \in Nat /\ Set(t, r, s, at)  BY <1>1 DEF Post, Thread
    <2>2. posts' \in 0 .. MaxPosts /\ due' \subseteq Reviewer
      BY <1>1, QuotaAssumption DEF Post, QuotaInv, TypeOK
    <2>3. QED  BY <2>1, <2>2, SetKeeps
  <1>2. ASSUME NEW t \in Thread, Publish(t)  PROVE QuotaInv'
    <2>1. qmu = t /\ list[t] = quotas /\ \A u \in Thread \ {t} : list[u] = None
      BY <1>2 DEF Publish, QuotaInv, TypeOK, ListIsNewest
    <2>2. list' \in [Thread -> Quotas \cup {None}] /\ \A u \in Thread : list'[u] = None
      BY <1>2, <2>1 DEF Publish, QuotaInv, TypeOK
    <2>3. qmu' = None /\ quotas' = quotas /\ published' = quotas  BY <1>2, <2>1 DEF Publish
    <2>4. TypeOK'
      <3>1. \A u \in Thread : list'[u] # None <=> qmu' = u
        BY <2>2, <2>3, QuotaAssumption
      <3>2. QED  BY <1>2, <2>2, <2>3, <3>1 DEF Publish, QuotaInv, TypeOK
    <2>5. QED
      BY <1>2, <2>2, <2>3, <2>4
         DEF Publish, QuotaInv, ListIsNewest, PublishedIsCurrent, HitsArePast
  <1>3. ASSUME Scan  PROVE QuotaInv'
    BY <1>3 DEF Scan, ExpiredNow, QuotaInv, TypeOK, ListIsNewest, PublishedIsCurrent, HitsArePast
  <1>4. ASSUME NEW r \in Reviewer, Reset(r)
        PROVE  QuotaInv' /\ \A u \in Reviewer : OldHit(u) <= OldHit(u)'
    <2>1. Loop \in Thread /\ "ok" \in State /\ 0 \in Nat /\ Set(Loop, r, "ok", 0)
      BY <1>4 DEF Reset, Thread, State
    <2>2. posts' \in 0 .. MaxPosts /\ due' \subseteq Reviewer
      BY <1>4 DEF Reset, QuotaInv, TypeOK
    <2>3. QED  BY <2>1, <2>2, SetKeeps
  <1>5. ASSUME Tick  PROVE QuotaInv'
    <2>1. now' \in 1 .. MaxNow /\ now <= now' /\ now \in Nat /\ now' \in Nat
      BY <1>5, QuotaAssumption DEF Tick, QuotaInv, TypeOK
    <2>2. TypeOK' /\ ListIsNewest' /\ PublishedIsCurrent'
      BY <1>5, <2>1 DEF Tick, QuotaInv, TypeOK, ListIsNewest, PublishedIsCurrent
    <2>3. HitsArePast'
      <3>1. \A r \in Reviewer : quotas[r] # None => quotas[r].lastHit \in Nat
        BY DEF QuotaInv, TypeOK, Quotas, Record
      <3>2. QED  BY <1>5, <2>1, <3>1 DEF Tick, QuotaInv, HitsArePast
    <2>4. QED  BY <2>2, <2>3 DEF QuotaInv
  <1>6. ASSUME Restart  PROVE QuotaInv'
    <2>1. Unset \in Quotas /\ \A r \in Reviewer : Unset[r] = None  BY DEF Unset, Quotas
    <2>2. list' \in [Thread -> Quotas \cup {None}] /\ \A u \in Thread : list'[u] = None
      BY <1>6 DEF Restart
    <2>3. TypeOK'
      BY <1>6, <2>1, <2>2, QuotaAssumption DEF Restart, QuotaInv, TypeOK
    <2>4. QED
      BY <1>6, <2>1, <2>2, <2>3
         DEF Restart, QuotaInv, ListIsNewest, PublishedIsCurrent, HitsArePast
  <1>7. CASE UNCHANGED vars
    BY <1>0, <1>7 DEF vars, QuotaInv, TypeOK, ListIsNewest, PublishedIsCurrent, HitsArePast
  <1>8. QED
    BY <1>0, <1>1, <1>2, <1>3, <1>4, <1>5, <1>6, <1>7 DEF Next, Publish, Scan, Tick

(* The invariant holds always, and so does what it implies: quotas are     *)
(* well typed and held by one thread at a time, and the topic shows what   *)
(* the daemon holds whenever nobody is inside setQuota.                    *)
THEOREM QuotaInvAlways == Spec => []QuotaInv
  BY QuotaInvInit, QuotaInvStep, PTL DEF Spec

(* Of two setQuota at once the list with both is published last.           *)
THEOREM PublishedIsCurrentAlways == Spec => []PublishedIsCurrent
  <1>1. QuotaInv => PublishedIsCurrent  BY DEF QuotaInv
  <1>2. QED  BY <1>1, QuotaInvAlways, PTL

(* A POST and the reset loop, in whatever order they get the mutex, never  *)
(* set a reviewer's last hit back.                                         *)
THEOREM HitIsKeptAlways == Spec => HitIsKept
  <1>1. QuotaInv /\ [Next]_vars => [~Restart => \A r \in Reviewer : OldHit(r) <= OldHit(r)']_vars
    BY QuotaInvStep
  <1>2. QED  BY <1>1, QuotaInvAlways, PTL DEF Spec, HitIsKept
=============================================================================
