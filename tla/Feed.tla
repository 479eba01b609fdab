-------------------------------- MODULE Feed --------------------------------
(***************************************************************************)
(* What GET /v1/events promises (apps/cad/README.md, "change feed"), with  *)
(* no ring, channel, connection or daemon in sight.  A topic's value is    *)
(* known by the revision that announced it.  A client remembers the last   *)
(* revision it was shown of each topic (view) and of all topics (mark, the *)
(* Last-Event-ID it comes back with).  The promise is about mark: nothing  *)
(* the client wants that is current and not newer than mark is news to it. *)
(***************************************************************************)
EXTENDS Integers

CONSTANTS Topic, Client, Want

VARIABLES top,      \* the newest revision ever given out
          latest,   \* per topic, the revision of its value; 0 = no value
          view,     \* per client and topic, the revision last shown; 0 = none
          mark      \* per client, the revision of the last event shown

feedVars == <<top, latest, view, mark>>

Wanted(c) == IF Want[c] = {} THEN Topic ELSE Want[c]

(* The client has the current value of every wanted topic up to its mark.  *)
KeepsPromise(c) ==
    \A t \in Wanted(c) : 0 < latest[t] /\ latest[t] <= mark[c] => view[c][t] = latest[t]

Init ==
    /\ top \in Nat
    /\ latest \in [Topic -> 0 .. top]
    /\ view = [c \in Client |-> [t \in Topic |-> 0]]
    /\ mark = [c \in Client |-> 0]

(* A topic changes: its new revision is newer than any before it.          *)
Announce(t) ==
    /\ top' > top
    /\ latest' = [latest EXCEPT ![t] = top']
    /\ UNCHANGED <<view, mark>>

(* The daemon starts again: whatever has a value has a new revision.       *)
Renew ==
    /\ top' > top
    /\ latest' \in [Topic -> {0} \cup (top + 1) .. top']
    /\ UNCHANGED <<view, mark>>

(* A client is shown an event of a wanted topic: never one older than what *)
(* it saw of that topic, and never one that makes its mark a false promise.*)
Show(c, t) ==
    /\ t \in Wanted(c)
    /\ mark' = [mark EXCEPT ![c] = view'[c][t]]
    /\ view[c][t] <= mark'[c] /\ mark'[c] <= latest[t]
    /\ view' = [view EXCEPT ![c][t] = mark'[c]]
    /\ KeepsPromise(c)'
    /\ UNCHANGED <<top, latest>>

Next ==
    \/ \E t \in Topic : Announce(t)
    \/ Renew
    \/ \E c \in Client, t \in Topic : Show(c, t)

Spec == Init /\ [][Next]_feedVars
=============================================================================
