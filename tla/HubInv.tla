------------------------------- MODULE HubInv -------------------------------
(***************************************************************************)
(* The inductive invariant of Hub: why the feed's safety properties hold.  *)
(* The ring is the last revisions without a gap and agrees with the        *)
(* current values; every open stream either has sent or has queued each    *)
(* current value; and a client that once saw more than its Last-Event-ID   *)
(* says will not be replayed the ring, for the ring has moved past it.     *)
(***************************************************************************)
EXTENDS Hub

(* The ring's revisions are consecutive and end at rev.                    *)
RingWindow ==
    /\ Len(ring) \in 1 .. RingSize
    /\ \A i \in 1 .. Len(ring) : ring[i].rev = rev - Len(ring) + i

(* e announced a value of its topic: the current one or an earlier one.    *)
Known(e) ==
    /\ 0 < e.rev /\ e.rev <= cur[e.topic].rev
    /\ e.rev = cur[e.topic].rev => KeyOf[e.data] = KeyOf[cur[e.topic].data]

CurOnRing ==
    /\ \A t \in Topic : cur[t].rev <= rev
    /\ \A t, u \in Topic : Published(t) /\ cur[t].rev = cur[u].rev => t = u
    /\ \A e \in Elems(ring) : Known(e)
    /\ \A t \in Topic : cur[t].rev >= ring[1].rev =>
         \E e \in Elems(ring) : e.topic = t /\ e.rev = cur[t].rev

OutKnown == \A c \in Client : \A e \in Elems(Out(c)) : Known(e)
IdleEmpty == \A c \in Client \ conn : first[c] = << >> /\ chan[c] = << >>

(* A topic's current value has reached the client, or is on its way.       *)
Holds(c, t) ==
    t \in Wanted(c) => /\ seen[c][t].rev = cur[t].rev
                       /\ KeyOf[seen[c][t].data] = KeyOf[cur[t].data]
Queued(c, t) == \E e \in Elems(Out(c)) : e.topic = t /\ e.rev = cur[t].rev
OpenCovered ==
    \A c \in subs : \A t \in Topic : Published(t) => Holds(c, t) \/ Queued(c, t)
OutCovered ==
    \A c \in Client : \A e \in Elems(Out(c)) : \A t \in Topic :
        Published(t) /\ cur[t].rev <= e.rev => Holds(c, t) \/ Queued(c, t)

SeenBehind ==
    \A c \in Client : /\ lastID[c] <= rev
                      /\ \A t \in Topic : /\ seen[c][t].rev <= rev
                                          /\ Published(t) => seen[c][t].rev <= cur[t].rev
OutAhead == \A c \in Client : \A e \in Elems(Out(c)) : seen[c][e.topic].rev <= e.rev

(* What a client saw beyond id is out of the ring's reach.                 *)
Rolled(c, id) == \A t \in Topic : seen[c][t].rev <= id \/ seen[c][t].rev < ring[1].rev
SeenRolled == \A c \in Client : Rolled(c, lastID[c])
OutRolled == \A c \in Client : \A e \in Elems(Out(c)) : Rolled(c, e.rev)

FeedInv ==
    /\ TypeOK
    /\ RingWindow /\ CurOnRing
    /\ IdleEmpty /\ OutKnown /\ StreamOrdered
    /\ OpenCovered /\ OutCovered /\ NothingSkipped
    /\ SeenBehind /\ OutAhead
    /\ SeenRolled /\ OutRolled
=============================================================================
