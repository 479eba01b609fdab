------------------------------- MODULE Quota --------------------------------
(***************************************************************************)
(* Reviewer quotas in the metadata daemon (apps/cad): setQuota under       *)
(* h.qmu (events.go), called by the POST handlers (server.go) and by the   *)
(* loop that resets expired quotas (quota.go), which looks for them under  *)
(* the lock but releases it before it sets them one by one.  A thread      *)
(* inside setQuota holds qmu from the write of the map to the end of       *)
(* publish.  Times are ticks, 0 a nil time.                                *)
(***************************************************************************)
EXTENDS Integers

CONSTANTS
    Reviewer,
    Poster,         \* request handlers
    Loop,           \* runQuotaResets
    None,           \* qmu is free; a reviewer has no quota
    MaxNow,         \* bound on the clock
    MaxPosts        \* bound on the requests

Thread == Poster \cup {Loop}
State == {"ok", "exhausted"}
Record == [state : State, resetAt : Nat, lastHit : Nat]
Quotas == [Reviewer -> Record \cup {None}]

ASSUME QuotaAssumption ==
    /\ Loop \notin Poster
    /\ None \notin Thread /\ None \notin Record /\ None \notin Quotas
    /\ MaxNow \in Nat \ {0} /\ MaxPosts \in Nat

VARIABLES
    now,            \* the clock
    posts,          \* requests so far
    quotas,         \* h.quotas
    qmu,            \* the thread that holds it, or None
    list,           \* per thread, the list setQuota is about to publish
    published,      \* the value of the quota topic
    due             \* what the loop has yet to reset

vars == <<now, posts, quotas, qmu, list, published, due>>

Unset == [r \in Reviewer |-> None]

Init ==
    /\ now = 1 /\ posts = 0
    /\ quotas = Unset /\ published = Unset
    /\ qmu = None /\ list = [t \in Thread |-> None]
    /\ due = {}

-----------------------------------------------------------------------------
(* A hit is remembered: exhausted stamps it, ok carries the last one over. *)
OldHit(r) == IF quotas[r] = None THEN 0 ELSE quotas[r].lastHit
(* Mutant: ok forgets the last hit.                                        *)
NoHit(r, state) == IF state = "exhausted" THEN now ELSE 0
Hit(r, state) == IF state = "exhausted" THEN now ELSE OldHit(r)

(* setQuota up to publish, in thread t.                                    *)
(* Mutant: the lock is released before the list is published.              *)
SetUnlocked(t, r, state, resetAt) ==
    /\ qmu = None /\ list[t] = None
    /\ quotas' = [quotas EXCEPT ![r] = [state |-> state, resetAt |-> resetAt, lastHit |-> Hit(r, state)]]
    /\ list' = [list EXCEPT ![t] = quotas']
    /\ UNCHANGED <<now, qmu, published>>
Set(t, r, state, resetAt) ==
    /\ qmu = None /\ list[t] = None
    /\ qmu' = t
    /\ quotas' = [quotas EXCEPT ![r] = [state |-> state, resetAt |-> resetAt, lastHit |-> Hit(r, state)]]
    /\ list' = [list EXCEPT ![t] = quotas']
    /\ UNCHANGED <<now, published>>

Publish(t) ==
    /\ list[t] # None
    /\ published' = list[t]
    /\ list' = [list EXCEPT ![t] = None]
    /\ qmu' = None
    /\ UNCHANGED <<now, posts, quotas, due>>

Post(t, r, state, resetAt) ==
    /\ posts < MaxPosts
    /\ Set(t, r, state, resetAt)
    /\ posts' = posts + 1
    /\ UNCHANGED due

Exhausted(r) == quotas[r] # None /\ quotas[r].state = "exhausted" /\ quotas[r].resetAt # 0
Expired(r) == Exhausted(r) /\ quotas[r].resetAt <= now

(* Mutant: a reset due this very moment is left for later.                 *)
ExpiredBefore == {r \in Reviewer : Exhausted(r) /\ quotas[r].resetAt < now}
ExpiredNow == {r \in Reviewer : Expired(r)}

Scan ==
    /\ qmu = None /\ list[Loop] = None /\ due = {}
    /\ due' = ExpiredNow /\ due' # {}
    /\ UNCHANGED <<now, posts, quotas, qmu, list, published>>

Reset(r) ==
    /\ r \in due
    /\ Set(Loop, r, "ok", 0)
    /\ due' = due \ {r}
    /\ UNCHANGED posts

Tick ==
    /\ now < MaxNow
    /\ now' = now + 1
    /\ UNCHANGED <<posts, quotas, qmu, list, published, due>>

(* The daemon restarts: quotas are in memory only.                         *)
Restart ==
    /\ posts < MaxPosts /\ quotas # Unset
    /\ quotas' = Unset /\ published' = Unset
    /\ qmu' = None /\ list' = [t \in Thread |-> None] /\ due' = {}
    /\ UNCHANGED <<now, posts>>

Next ==
    \/ \E t \in Poster, r \in Reviewer, s \in State, at \in 0 .. MaxNow : Post(t, r, s, at)
    \/ \E t \in Thread : Publish(t)
    \/ Scan
    \/ \E r \in Reviewer : Reset(r)
    \/ Tick
    \/ Restart

Spec == Init /\ [][Next]_vars

(* Threads run and the mutex is handed on; the clock ticks only if it      *)
(* likes, and nobody has to post.                                          *)
Fairness ==
    /\ \A t \in Thread : WF_vars(Publish(t))
    /\ SF_vars(Scan)
    /\ SF_vars(\E r \in Reviewer : Reset(r))
FairSpec == Spec /\ Fairness

-----------------------------------------------------------------------------
TypeOK ==
    /\ now \in 1 .. MaxNow /\ posts \in 0 .. MaxPosts
    /\ quotas \in Quotas /\ published \in Quotas
    /\ qmu \in Thread \cup {None} /\ list \in [Thread -> Quotas \cup {None}]
    /\ \A t \in Thread : list[t] # None <=> qmu = t
    /\ due \subseteq Reviewer

(* What clients are shown is what the daemon holds, as soon as nobody is   *)
(* setting a quota: of two concurrent writes, the list published last is   *)
(* the one with both.                                                      *)
PublishedIsCurrent == (\A t \in Thread : list[t] = None) => published = quotas

(* The inductive invariant: the list a thread is about to publish is of    *)
(* the present quotas, as it holds qmu, and no hit lies in the future.     *)
ListIsNewest == \A t \in Thread : list[t] # None => list[t] = quotas
HitsArePast == \A r \in Reviewer : quotas[r] # None => quotas[r].lastHit <= now
QuotaInv == TypeOK /\ ListIsNewest /\ PublishedIsCurrent /\ HitsArePast

(* The last hit of a reviewer is never lost or set back while the daemon   *)
(* lives, whichever of a POST and the reset loop writes last.              *)
HitIsKept ==
    [][~Restart => \A r \in Reviewer : OldHit(r) <= OldHit(r)']_vars

(* An exhausted reviewer whose time has come does not stay so.             *)
ExpiredGoesBack == \A r \in Reviewer : Expired(r) ~> ~Expired(r)

(* "flips exhausted reviewers back to ok once their resetAt has passed"    *)
(* (quota.go:5): no reviewer the loop flips was exhausted for longer.      *)
OnlyExpiredIsReset ==
    [][\A r \in Reviewer : Reset(r) /\ quotas[r].state = "exhausted" => Expired(r)]_vars
=============================================================================
