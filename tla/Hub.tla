-------------------------------- MODULE Hub ---------------------------------
(***************************************************************************)
(* The metadata daemon's hub (apps/cad/events.go) and the change feed it   *)
(* serves (apps/cad/server.go, serveEvents): the current value of every    *)
(* topic, the replay ring, one buffered channel per open stream, and the   *)
(* clients that come back with the Last-Event-ID they reached.             *)
(*                                                                         *)
(* h.mu makes publish, subscribe and unsubscribe atomic, so each is one    *)
(* action.  A send of the handler and the client's receipt are one action: *)
(* what a connection loses in flight it loses here before it is sent.      *)
(* h.keys[t] is the key of h.cur[t].Data at all times (publish assigns     *)
(* them together and refreshes Data only by one of the same key), so it is *)
(* read off cur.                                                           *)
(***************************************************************************)
EXTENDS Integers, Sequences, FiniteSets

CONSTANTS
    Topic, Workers, Quota,  \* topics; the two newHub publishes
    Client,                 \* event-stream clients
    Want,                   \* ?topics= of each client; {} asks for all
    Payload, KeyOf,         \* topic values, and the change key of each
    Empty,                  \* the empty list newHub publishes
    RingSize, ChanCap,      \* 256 and 64 in the code
    FirstStart,             \* UnixMilli when the first daemon starts
    ClockAhead,             \* TRUE: UnixMilli at a start is past every rev given out
    MaxRev                  \* bound: the last revision the model gives out

Event == [topic : Topic, rev : Nat, data : Payload]

ASSUME HubAssumption ==
    /\ IsFiniteSet(Topic)
    /\ Workers \in Topic /\ Quota \in Topic /\ Workers # Quota
    /\ Want \in [Client -> SUBSET Topic]
    /\ Empty \in Payload /\ KeyOf = [d \in Payload |-> KeyOf[d]]
    /\ RingSize \in Nat /\ RingSize >= 2
    /\ ChanCap \in Nat /\ ChanCap >= 1
    /\ FirstStart \in Nat \ {0}
    /\ ClockAhead \in BOOLEAN
    /\ MaxRev \in Nat

VARIABLES
    rev,      \* h.rev
    cur,      \* h.cur: per topic, the rev (0 = absent) and the data
    ring,     \* h.ring
    subs,     \* clients whose channel is in h.subs
    chan,     \* per client, its channel's buffer
    first,    \* per client, what subscribe told the handler to send first
    conn,     \* clients with an open stream
    lastID,   \* per client, the id it would reconnect with; 0 = none
    seen      \* per client and topic, the last value it received

hubVars == <<rev, cur, ring>>
streamVars == <<subs, chan, first, conn>>
clientVars == <<lastID, seen>>
vars == <<rev, cur, ring, subs, chan, first, conn, lastID, seen>>

Nothing == [rev |-> 0, data |-> Empty]
Published(t) == cur[t].rev # 0
Wanted(c) == IF Want[c] = {} THEN Topic ELSE Want[c]
Elems(s) == {s[i] : i \in DOMAIN s}
IncreasingRevs(s) == \A i, j \in DOMAIN s : i < j => s[i].rev < s[j].rev

-----------------------------------------------------------------------------
(* The daemon's start: newHub.  rev is the wall clock in milliseconds.     *)

StartCur(start) ==
    [t \in Topic |-> CASE t = Workers -> [rev |-> start + 1, data |-> Empty]
                       [] t = Quota   -> [rev |-> start + 2, data |-> Empty]
                       [] OTHER       -> Nothing]
StartRing(start) ==
    << [topic |-> Workers, rev |-> start + 1, data |-> Empty],
       [topic |-> Quota,   rev |-> start + 2, data |-> Empty] >>

Init ==
    /\ rev = FirstStart + 2
    /\ cur = StartCur(FirstStart)
    /\ ring = StartRing(FirstStart)
    /\ subs = {} /\ conn = {}
    /\ chan = [c \in Client |-> << >>]
    /\ first = [c \in Client |-> << >>]
    /\ lastID = [c \in Client |-> 0]
    /\ seen = [c \in Client |-> [t \in Topic |-> Nothing]]

-----------------------------------------------------------------------------
(* publish(t, d).  A value with the key of the current one only refreshes  *)
(* what GET serves; any other is a new revision, kept in the ring and sent *)
(* to every channel with room.  A channel without room is closed: what it  *)
(* holds can still be read, and then its handler returns.                  *)

(* Mutant: every value of a published topic counts as a mere refresh.      *)
AlwaysSameKey(t, d) == Published(t)
SameKey(t, d) == Published(t) /\ KeyOf[cur[t].data] = KeyOf[d]
Trim(r) == IF Len(r) > RingSize THEN Tail(r) ELSE r
HasRoom(c) == Len(chan[c]) < ChanCap

Refresh(t, d) ==
    /\ SameKey(t, d)
    /\ cur' = [cur EXCEPT ![t].data = d]
    /\ UNCHANGED <<rev, ring, streamVars, clientVars>>

(* Mutant: an event a full channel cannot take is dropped, not the channel.*)
FanOutLossy(e) ==
    /\ chan' = [c \in Client |-> IF c \in subs /\ HasRoom(c) THEN Append(chan[c], e)
                                                             ELSE chan[c]]
    /\ subs' = subs
FanOut(e) ==
    /\ chan' = [c \in Client |-> IF c \in subs /\ HasRoom(c) THEN Append(chan[c], e)
                                                             ELSE chan[c]]
    /\ subs' = {c \in subs : HasRoom(c)}

Announce(t, d) ==
    /\ rev < MaxRev
    /\ ~SameKey(t, d)
    /\ rev' = rev + 1
    /\ cur' = [cur EXCEPT ![t] = [rev |-> rev + 1, data |-> d]]
    /\ LET e == [topic |-> t, rev |-> rev + 1, data |-> d]
       IN /\ ring' = Trim(Append(ring, e))
          /\ FanOut(e)
    /\ UNCHANGED <<first, conn, clientVars>>

Publish(t, d) == Refresh(t, d) \/ Announce(t, d)

-----------------------------------------------------------------------------
(* subscribe(lastID).  The ring is replayed when it still holds everything *)
(* after lastID; otherwise the client gets the current value of all topics.*)
(* Both lists are in rev order: the ring as it is, the values by sort.     *)

CurEvents == {[topic |-> t, rev |-> cur[t].rev, data |-> cur[t].data] : t \in {u \in Topic : Published(u)}}
(* Mutant: the ring may lack the one event after id.                       *)
CoversOneShort(id) == id # 0 /\ id <= rev /\ ring # << >> /\ ring[1].rev <= id + 2
Covers(id) == id # 0 /\ id <= rev /\ ring # << >> /\ ring[1].rev <= id + 1
(* Mutant: the replay starts from the ring's beginning.                    *)
FirstEventsWhole(id) == IF Covers(id) THEN Elems(ring) ELSE CurEvents
FirstEvents(id) == IF Covers(id) THEN {e \in Elems(ring) : e.rev > id} ELSE CurEvents
Listings(E) == {s \in [1 .. Cardinality(E) -> E] : Elems(s) = E /\ IncreasingRevs(s)}

Connect(c) ==
    /\ c \notin conn
    /\ conn' = conn \cup {c}
    /\ subs' = subs \cup {c}
    /\ chan' = [chan EXCEPT ![c] = << >>]
    /\ \E s \in Listings(FirstEvents(lastID[c])) : first' = [first EXCEPT ![c] = s]
    /\ UNCHANGED <<hubVars, clientVars>>

(* send(e): a topic the client did not ask for is dropped here.            *)
Receive(c, e) ==
    IF e.topic \in Wanted(c)
    THEN /\ lastID' = [lastID EXCEPT ![c] = e.rev]
         /\ seen' = [seen EXCEPT ![c][e.topic] = [rev |-> e.rev, data |-> e.data]]
    ELSE UNCHANGED clientVars

SendFirst(c) ==
    /\ c \in conn /\ first[c] # << >>
    /\ Receive(c, Head(first[c]))
    /\ first' = [first EXCEPT ![c] = Tail(@)]
    /\ UNCHANGED <<hubVars, subs, chan, conn>>

SendNext(c) ==
    /\ c \in conn /\ first[c] = << >> /\ chan[c] # << >>
    /\ Receive(c, Head(chan[c]))
    /\ chan' = [chan EXCEPT ![c] = Tail(@)]
    /\ UNCHANGED <<hubVars, subs, first, conn>>

(* Mutant: the handler returns without unsubscribing.                      *)
ReturnSubscribed(c) ==
    /\ conn' = conn \ {c}
    /\ chan' = [chan EXCEPT ![c] = << >>]
    /\ first' = [first EXCEPT ![c] = << >>]
    /\ UNCHANGED <<hubVars, subs, clientVars>>

(* The handler returns, and unsubscribes what publish has not yet.         *)
Return(c) ==
    /\ conn' = conn \ {c}
    /\ subs' = subs \ {c}
    /\ chan' = [chan EXCEPT ![c] = << >>]
    /\ first' = [first EXCEPT ![c] = << >>]
    /\ UNCHANGED <<hubVars, clientVars>>

(* Mutant: the handler waits on a channel that publish has closed.         *)
WaitForever(c) == c \in conn \ subs /\ FALSE /\ Return(c)

(* The channel was closed and is drained.                                  *)
EndOfStream(c) == c \in conn \ subs /\ first[c] = << >> /\ chan[c] = << >> /\ Return(c)

(* The request's context is done: the client went, or the network did.     *)
Lose(c) == c \in conn /\ Return(c)

(* The daemon dies and starts again: every stream breaks, the clients keep *)
(* what they have.                                                         *)
Restart ==
    /\ \E start \in 1 .. (MaxRev - 2) :
         /\ ClockAhead => start >= rev
         /\ rev' = start + 2
         /\ cur' = StartCur(start)
         /\ ring' = StartRing(start)
    /\ subs' = {} /\ conn' = {}
    /\ chan' = [c \in Client |-> << >>]
    /\ first' = [c \in Client |-> << >>]
    /\ UNCHANGED clientVars

Next ==
    \/ \E t \in Topic, d \in Payload : Refresh(t, d) \/ Announce(t, d)
    \/ \E c \in Client : \/ Connect(c) \/ SendFirst(c) \/ SendNext(c)
                         \/ EndOfStream(c) \/ Lose(c)
    \/ Restart

Spec == Init /\ [][Next]_vars

(* Handlers run, and a client reconnects for as long as it lives; nothing  *)
(* obliges anyone to publish, to hang up or to crash.                      *)
Fairness ==
    \A c \in Client : /\ WF_vars(Connect(c))
                      /\ WF_vars(SendFirst(c) \/ SendNext(c))
                      /\ WF_vars(EndOfStream(c))
FairSpec == Spec /\ Fairness

-----------------------------------------------------------------------------
TypeOK ==
    /\ rev \in Nat
    /\ cur \in [Topic -> [rev : Nat, data : Payload]]
    /\ ring \in Seq(Event)
    /\ subs \in SUBSET conn /\ conn \in SUBSET Client
    /\ chan \in [Client -> Seq(Event)]
    /\ \A c \in Client : Len(chan[c]) <= ChanCap
    /\ first \in [Client -> Seq(Event)]
    /\ lastID \in [Client -> Nat]
    /\ seen \in [Client -> [Topic -> [rev : Nat, data : Payload]]]

Out(c) == first[c] \o chan[c]

(* A stream's ids only go up: what the handler has yet to send of the      *)
(* snapshot or replay, then what publish queued meanwhile, is in rev order *)
(* (snapshot's comment, "so SSE ids never go backwards").                  *)
StreamOrdered == \A c \in Client : IncreasingRevs(Out(c))

(* Whatever a client missed (a lost connection in the middle of a snapshot,*)
(* a channel closed on it, a ring that rolled over, a restarted daemon), it*)
(* holds the current value of every topic it wants whose revision is not   *)
(* above the id it would reconnect with, so no replay can skip one.        *)
HasUpTo(c, t, id) ==
    Published(t) /\ cur[t].rev <= id =>
        seen[c][t].rev = cur[t].rev /\ KeyOf[seen[c][t].data] = KeyOf[cur[t].data]
NothingSkipped == \A c \in Client : \A t \in Wanted(c) : HasUpTo(c, t, lastID[c])

(* No reconnect shows a client an older value of a topic than one it had   *)
(* seen, although its Last-Event-ID may go back (a snapshot cut short).    *)
ViewNeverGoesBack ==
    [][\A c \in Client, t \in Topic : seen'[c][t].rev >= seen[c][t].rev]_seen

(* The feed keeps its promise: subscribe and publish implement Feed.       *)
FeedView == INSTANCE Feed WITH
    top <- rev, latest <- [t \in Topic |-> cur[t].rev],
    view <- [c \in Client |-> [t \in Topic |-> seen[c][t].rev]], mark <- lastID
ImplementsFeed == FeedView!Spec

(* Once connections stop being lost, every client gets to the current      *)
(* value of every topic it wants, slow-client disconnects notwithstanding. *)
Synced(c) == \A t \in Wanted(c) : HasUpTo(c, t, rev)
EventuallyCurrent ==
    <>[][~ \E c \in Client : Lose(c)]_vars => \A c \in Client : <>[]Synced(c)
=============================================================================
