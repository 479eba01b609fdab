----------------------------- MODULE HubProofs ------------------------------
(***************************************************************************)
(* Proofs about Hub, for every set of topics and clients, every ring and   *)
(* channel size and every bound: FeedInv is inductive as long as a         *)
(* restarted daemon's clock is past the revisions already given out.       *)
(***************************************************************************)
EXTENDS HubInv, SequenceTheorems, FiniteSetTheorems, TLAPS

(* The elements of a sequence, of one extended, of two joined, and of one  *)
(* without its head.                                                       *)
LEMMA ElemsDef ==
    ASSUME NEW S, NEW s \in Seq(S)
    PROVE  /\ \A x : x \in Elems(s) <=> \E i \in 1 .. Len(s) : x = s[i]
           /\ Elems(s) \subseteq S
  <1>1. DOMAIN s = 1 .. Len(s) /\ \A i \in 1 .. Len(s) : s[i] \in S
    BY LenProperties, ElementOfSeq
  <1>2. QED  BY <1>1 DEF Elems

LEMMA ElemsAppend ==
    ASSUME NEW S, NEW s \in Seq(S), NEW e \in S
    PROVE  Elems(Append(s, e)) = Elems(s) \cup {e}
  <1> DEFINE a == Append(s, e)
  <1>1. a \in Seq(S) /\ Len(a) = Len(s) + 1 /\ Len(s) \in Nat
        /\ (\A i \in 1 .. Len(s) : a[i] = s[i]) /\ a[Len(s) + 1] = e
    BY AppendProperties, LenProperties
  <1> HIDE DEF a
  <1>2. \A x : (\E i \in 1 .. Len(a) : x = a[i]) <=> (x = e \/ \E i \in 1 .. Len(s) : x = s[i])
    BY <1>1
  <1>3. \A x : x \in Elems(a) <=> x \in Elems(s) \/ x = e
    BY <1>1, <1>2, ElemsDef
  <1>4. QED  BY <1>3 DEF a

LEMMA ElemsConcat ==
    ASSUME NEW S, NEW s \in Seq(S), NEW t \in Seq(S)
    PROVE  Elems(s \o t) = Elems(s) \cup Elems(t)
  <1> DEFINE a == s \o t
  <1>1. a \in Seq(S) /\ Len(a) = Len(s) + Len(t) /\ Len(s) \in Nat /\ Len(t) \in Nat
    BY ConcatProperties, LenProperties
  <1>2. \A i \in 1 .. Len(a) : a[i] = IF i <= Len(s) THEN s[i] ELSE t[i - Len(s)]
    BY ConcatProperties
  <1> HIDE DEF a
  <1>3. \A x : (\E i \in 1 .. Len(a) : x = a[i])
                 <=> ((\E i \in 1 .. Len(s) : x = s[i]) \/ (\E i \in 1 .. Len(t) : x = t[i]))
    <2> TAKE x
    <2>1. ASSUME NEW i \in 1 .. Len(a), x = a[i]
          PROVE  (\E k \in 1 .. Len(s) : x = s[k]) \/ (\E k \in 1 .. Len(t) : x = t[k])
      <3>1. CASE i <= Len(s)  BY <1>1, <1>2, <2>1, <3>1
      <3>2. CASE ~(i <= Len(s))
        <4>1. i - Len(s) \in 1 .. Len(t)  BY <1>1, <3>2
        <4>2. QED  BY <1>1, <1>2, <2>1, <3>2, <4>1
      <3>3. QED  BY <3>1, <3>2
    <2>2. ASSUME NEW i \in 1 .. Len(s), x = s[i]  PROVE \E k \in 1 .. Len(a) : x = a[k]
      <3>1. i \in 1 .. Len(a) /\ i <= Len(s)  BY <1>1
      <3>2. QED  BY <1>2, <2>2, <3>1
    <2>3. ASSUME NEW i \in 1 .. Len(t), x = t[i]  PROVE \E k \in 1 .. Len(a) : x = a[k]
      <3>1. Len(s) + i \in 1 .. Len(a) /\ ~(Len(s) + i <= Len(s)) /\ (Len(s) + i) - Len(s) = i
        BY <1>1
      <3>2. QED  BY <1>2, <2>3, <3>1
    <2>4. QED  BY <2>1, <2>2, <2>3
  <1>4. \A x : x \in Elems(a) <=> x \in Elems(s) \/ x \in Elems(t)
    <2>1. \A x : x \in Elems(a) <=> \E i \in 1 .. Len(a) : x = a[i]  BY <1>1, ElemsDef
    <2>2. \A x : x \in Elems(s) <=> \E i \in 1 .. Len(s) : x = s[i]  BY ElemsDef
    <2>3. \A x : x \in Elems(t) <=> \E i \in 1 .. Len(t) : x = t[i]  BY ElemsDef
    <2>4. QED  BY <1>3, <2>1, <2>2, <2>3
  <1>5. QED  BY <1>4 DEF a

LEMMA ElemsTail ==
    ASSUME NEW S, NEW s \in Seq(S), s # << >>
    PROVE  /\ Elems(s) = {Head(s)} \cup Elems(Tail(s))
           /\ Head(s) \in S /\ Tail(s) \in Seq(S)
  <1> DEFINE a == Tail(s)
  <1>1. a \in Seq(S) /\ Len(a) = Len(s) - 1 /\ Len(s) \in Nat \ {0} /\ Head(s) = s[1]
        /\ Head(s) \in S /\ \A i \in 1 .. Len(a) : a[i] = s[i + 1]
    BY HeadTailProperties, LenProperties, EmptySeq
  <1> HIDE DEF a
  <1>2. \A x : (\E i \in 1 .. Len(s) : x = s[i]) <=> (x = s[1] \/ \E i \in 1 .. Len(a) : x = a[i])
    <2> TAKE x
    <2>1. ASSUME NEW i \in 1 .. Len(s), x = s[i], i # 1  PROVE \E k \in 1 .. Len(a) : x = a[k]
      <3>1. i - 1 \in 1 .. Len(a) /\ (i - 1) + 1 = i  BY <1>1, <2>1
      <3>2. QED  BY <1>1, <2>1, <3>1
    <2>2. ASSUME NEW i \in 1 .. Len(a), x = a[i]  PROVE \E k \in 1 .. Len(s) : x = s[k]
      <3>1. i + 1 \in 1 .. Len(s)  BY <1>1
      <3>2. QED  BY <1>1, <2>2, <3>1
    <2>3. 1 \in 1 .. Len(s)  BY <1>1
    <2>4. QED  BY <2>1, <2>2, <2>3
  <1>3. \A x : x \in Elems(s) <=> x = Head(s) \/ x \in Elems(a)
    <2>1. \A x : x \in Elems(a) <=> \E i \in 1 .. Len(a) : x = a[i]  BY <1>1, ElemsDef
    <2>2. \A x : x \in Elems(s) <=> \E i \in 1 .. Len(s) : x = s[i]  BY ElemsDef
    <2>3. QED  BY <1>1, <1>2, <2>1, <2>2
  <1>4. QED  BY <1>1, <1>3 DEF a

(* Appending a newer event keeps a stream in rev order; so does sending its*)
(* head, which is older than everything behind it.                         *)
LEMMA IncreasingAppend ==
    ASSUME NEW s \in Seq(Event), NEW e \in Event, IncreasingRevs(s),
           \A f \in Elems(s) : f.rev < e.rev
    PROVE  IncreasingRevs(Append(s, e))
  <1> DEFINE a == Append(s, e)
  <1>1. a \in Seq(Event) /\ Len(a) = Len(s) + 1 /\ Len(s) \in Nat
        /\ (\A i \in 1 .. Len(s) : a[i] = s[i]) /\ a[Len(s) + 1] = e
    BY AppendProperties, LenProperties
  <1>2. DOMAIN a = 1 .. Len(a) /\ DOMAIN s = 1 .. Len(s)
    BY <1>1, LenProperties
  <1>3. \A i \in 1 .. Len(s) : s[i].rev < e.rev
    BY ElemsDef
  <1> HIDE DEF a
  <1>4. QED  BY <1>1, <1>2, <1>3 DEF a, IncreasingRevs

LEMMA IncreasingTail ==
    ASSUME NEW s \in Seq(Event), s # << >>, IncreasingRevs(s)
    PROVE  /\ IncreasingRevs(Tail(s))
           /\ \A f \in Elems(Tail(s)) : Head(s).rev < f.rev
  <1> DEFINE a == Tail(s)
  <1>1. a \in Seq(Event) /\ Len(a) = Len(s) - 1 /\ Len(s) \in Nat \ {0} /\ Head(s) = s[1]
        /\ \A i \in 1 .. Len(a) : a[i] = s[i + 1]
    BY HeadTailProperties, LenProperties, EmptySeq
  <1>2. DOMAIN a = 1 .. Len(a) /\ DOMAIN s = 1 .. Len(s)
    BY <1>1, LenProperties
  <1> HIDE DEF a
  <1>3. \A i \in 1 .. Len(a) : i + 1 \in 1 .. Len(s) /\ 1 < i + 1 /\ 1 \in 1 .. Len(s)
    BY <1>1
  <1>4. \A i \in 1 .. Len(a) : s[1].rev < a[i].rev
    BY <1>1, <1>2, <1>3 DEF IncreasingRevs
  <1>5. \A i, j \in 1 .. Len(a) : i < j => a[i].rev < a[j].rev
    <2> SUFFICES ASSUME NEW i \in 1 .. Len(a), NEW j \in 1 .. Len(a), i < j
                 PROVE  a[i].rev < a[j].rev
      OBVIOUS
    <2>1. i + 1 \in 1 .. Len(s) /\ j + 1 \in 1 .. Len(s) /\ i + 1 < j + 1  BY <1>1
    <2>2. QED  BY <1>1, <1>2, <2>1 DEF IncreasingRevs
  <1>6. \A f \in Elems(a) : s[1].rev < f.rev
    BY <1>1, <1>4, ElemsDef
  <1>7. IncreasingRevs(a)
    BY <1>2, <1>5 DEF IncreasingRevs
  <1>8. QED  BY <1>1, <1>6, <1>7 DEF a

-----------------------------------------------------------------------------
(* Any finite set of events that Listings orders is a sequence of events,  *)
(* and what a subscriber is sent first is such a set.                      *)
LEMMA ListingType ==
    ASSUME NEW E \in SUBSET Event, IsFiniteSet(E), NEW s \in Listings(E)
    PROVE  s \in Seq(Event) /\ Elems(s) = E /\ IncreasingRevs(s)
  <1>1. Cardinality(E) \in Nat /\ s \in [1 .. Cardinality(E) -> E]
    BY FS_CardinalityType DEF Listings
  <1>2. s \in Seq(E)  BY <1>1, IsASeq
  <1>3. QED  BY <1>2, SeqMonotonic DEF Listings

LEMMA FirstEventsFinite ==
    ASSUME TypeOK, NEW id
    PROVE  IsFiniteSet(FirstEvents(id)) /\ FirstEvents(id) \subseteq Event
  <1>1. CASE Covers(id)
    <2>1. DOMAIN ring = 1 .. Len(ring) /\ Len(ring) \in Nat /\ IsFiniteSet(1 .. Len(ring))
      BY LenProperties, FS_Interval DEF TypeOK
    <2>2. [i \in 1 .. Len(ring) |-> ring[i]] \in Surjection(1 .. Len(ring), Elems(ring))
      BY <2>1 DEF Surjection, Elems
    <2>3. IsFiniteSet(Elems(ring))  BY <2>1, <2>2, FS_Surjection
    <2>4. Elems(ring) \subseteq Event  BY ElemsDef DEF TypeOK
    <2>5. QED  BY <1>1, <2>3, <2>4, FS_Subset DEF FirstEvents
  <1>2. CASE ~Covers(id)
    <2> DEFINE P == {u \in Topic : Published(u)}
               f == [t \in P |-> [topic |-> t, rev |-> cur[t].rev, data |-> cur[t].data]]
    <2>1. IsFiniteSet(P)  BY HubAssumption, FS_Subset
    <2>2. f \in Surjection(P, CurEvents)  BY DEF Surjection, CurEvents
    <2>3. IsFiniteSet(CurEvents)  BY <2>1, <2>2, FS_Surjection
    <2>4. CurEvents \subseteq Event  BY DEF CurEvents, Event, TypeOK
    <2>5. QED  BY <1>2, <2>3, <2>4 DEF FirstEvents
  <1>3. QED  BY <1>1, <1>2

(* The daemon starts in a well-typed state.                                *)
LEMMA StartType ==
    ASSUME NEW start \in Nat
    PROVE  /\ StartCur(start) \in [Topic -> [rev : Nat, data : Payload]]
           /\ StartRing(start) \in Seq(Event)
  BY HubAssumption DEF StartCur, StartRing, Nothing, Event

(* Every step keeps the types.                                             *)
LEMMA TypeInductive == TypeOK /\ [Next]_vars => TypeOK'
  <1> SUFFICES ASSUME TypeOK, [Next]_vars PROVE TypeOK'
    OBVIOUS
  <1> USE HubAssumption
  <1>1. ASSUME NEW t \in Topic, NEW d \in Payload, Refresh(t, d)  PROVE TypeOK'
    BY <1>1 DEF TypeOK, Refresh, streamVars, clientVars
  <1>2. ASSUME NEW t \in Topic, NEW d \in Payload, Announce(t, d)  PROVE TypeOK'
    <2> DEFINE e == [topic |-> t, rev |-> rev + 1, data |-> d]
    <2>1. e \in Event  BY DEF Event, TypeOK
    <2>2. rev' \in Nat /\ cur' \in [Topic -> [rev : Nat, data : Payload]]
      BY <1>2 DEF Announce, TypeOK
    <2>3. ring' \in Seq(Event)
      <3>1. ring \in Seq(Event)  BY DEF TypeOK
      <3>2. Append(ring, e) \in Seq(Event) /\ Append(ring, e) # << >>
        BY <2>1, <3>1, AppendProperties
      <3>3. QED  BY <1>2, <3>2, HeadTailProperties DEF Announce, Trim
    <2>4. chan' \in [Client -> Seq(Event)] /\ \A c \in Client : Len(chan'[c]) <= ChanCap
      <3>1. \A c \in Client : Append(chan[c], e) \in Seq(Event)
                              /\ Len(Append(chan[c], e)) = Len(chan[c]) + 1
        BY <2>1, AppendProperties DEF TypeOK
      <3>2. \A c \in Client : Len(chan[c]) \in Nat  BY LenProperties DEF TypeOK
      <3>3. chan' = [c \in Client |-> IF c \in subs /\ HasRoom(c)
                                                    THEN Append(chan[c], e) ELSE chan[c]]
        BY <1>2 DEF Announce, FanOut
      <3>4. ASSUME NEW c \in Client
            PROVE  chan'[c] \in Seq(Event) /\ Len(chan'[c]) <= ChanCap
        <4>1. CASE c \in subs /\ HasRoom(c)  BY <3>1, <3>2, <3>3, <4>1 DEF HasRoom
        <4>2. CASE ~(c \in subs /\ HasRoom(c))  BY <3>3, <4>2 DEF TypeOK
        <4>3. QED  BY <4>1, <4>2
      <3>5. QED  BY <3>3, <3>4
    <2>5. QED  BY <1>2, <2>2, <2>3, <2>4 DEF Announce, FanOut, TypeOK, clientVars
  <1>3. ASSUME NEW c \in Client, Connect(c)  PROVE TypeOK'
    <2>1. PICK s \in Listings(FirstEvents(lastID[c])) : first' = [first EXCEPT ![c] = s]
      BY <1>3 DEF Connect
    <2>2. s \in Seq(Event)  BY <2>1, FirstEventsFinite, ListingType
    <2>3. Len(<< >>) = 0 /\ << >> \in Seq(Event)  BY EmptySeq
    <2>4. first' \in [Client -> Seq(Event)]  BY <2>1, <2>2 DEF TypeOK
    <2>5. chan' = [chan EXCEPT ![c] = << >>]  BY <1>3 DEF Connect
    <2>6. chan' \in [Client -> Seq(Event)] /\ \A x \in Client : Len(chan'[x]) <= ChanCap
      <3>1. ASSUME NEW x \in Client  PROVE chan'[x] \in Seq(Event) /\ Len(chan'[x]) <= ChanCap
        <4>1. CASE x = c  BY <2>3, <2>5, <4>1 DEF TypeOK
        <4>2. CASE x # c  BY <2>5, <4>2 DEF TypeOK
        <4>3. QED  BY <4>1, <4>2
      <3>2. chan' \in [Client -> Seq(Event)]  BY <2>3, <2>5 DEF TypeOK
      <3>3. QED  BY <3>1, <3>2
    <2>7. subs' \in SUBSET conn' /\ conn' \in SUBSET Client  BY <1>3 DEF Connect, TypeOK
    <2>8. QED  BY <1>3, <2>4, <2>6, <2>7 DEF Connect, TypeOK, hubVars, clientVars
  <1>4. ASSUME NEW c \in Client, NEW e \in Event, Receive(c, e)
        PROVE  /\ lastID' \in [Client -> Nat]
               /\ seen' \in [Client -> [Topic -> [rev : Nat, data : Payload]]]
    <2>1. e.rev \in Nat /\ e.topic \in Topic /\ e.data \in Payload  BY DEF Event
    <2>2. CASE e.topic \in Wanted(c)
      <3>1. lastID' \in [Client -> Nat]  BY <1>4, <2>1, <2>2 DEF Receive, TypeOK
      <3>2. seen[c] \in [Topic -> [rev : Nat, data : Payload]]  BY DEF TypeOK
      <3>3. [seen[c] EXCEPT ![e.topic] = [rev |-> e.rev, data |-> e.data]]
              \in [Topic -> [rev : Nat, data : Payload]]
        BY <2>1, <3>2
      <3>4. seen' = [seen EXCEPT ![c] = [seen[c] EXCEPT ![e.topic] = [rev |-> e.rev, data |-> e.data]]]
        BY <1>4, <2>2 DEF Receive
      <3>5. QED  BY <3>1, <3>3, <3>4 DEF TypeOK
    <2>3. CASE e.topic \notin Wanted(c)  BY <1>4, <2>3 DEF Receive, TypeOK, clientVars
    <2>4. QED  BY <2>2, <2>3
  <1>5. ASSUME NEW c \in Client, SendFirst(c)  PROVE TypeOK'
    <2>1. Head(first[c]) \in Event /\ Tail(first[c]) \in Seq(Event)
      BY <1>5, HeadTailProperties DEF SendFirst, TypeOK
    <2>2. QED  BY <1>4, <1>5, <2>1 DEF SendFirst, TypeOK, hubVars
  <1>6. ASSUME NEW c \in Client, SendNext(c)  PROVE TypeOK'
    <2>1. Head(chan[c]) \in Event /\ Tail(chan[c]) \in Seq(Event)
          /\ Len(Tail(chan[c])) = Len(chan[c]) - 1 /\ Len(chan[c]) \in Nat
      BY <1>6, HeadTailProperties, LenProperties DEF SendNext, TypeOK
    <2>2. chan' = [chan EXCEPT ![c] = Tail(chan[c])] /\ chan \in [Client -> Seq(Event)]
          /\ \A k \in Client : Len(chan[k]) <= ChanCap
      BY <1>6 DEF SendNext, TypeOK
    <2>3. chan' \in [Client -> Seq(Event)]  BY <2>1, <2>2
    <2>4. \A k \in Client : Len(chan'[k]) <= ChanCap
      <3>1. Len(Tail(chan[c])) <= ChanCap  BY <2>1, <2>2, HubAssumption
      <3>2. QED  BY <2>2, <3>1
    <2>5. QED  BY <1>4, <1>6, <2>1, <2>3, <2>4 DEF SendNext, TypeOK, hubVars
  <1>7. ASSUME NEW c \in Client, Return(c)  PROVE TypeOK'
    <2>1. Len(<< >>) = 0 /\ << >> \in Seq(Event)  BY EmptySeq
    <2>2. chan' \in [Client -> Seq(Event)] /\ first' \in [Client -> Seq(Event)]
      BY <1>7, <2>1 DEF Return, TypeOK
    <2>3. \A k \in Client : Len(chan'[k]) <= ChanCap
      BY <1>7, <2>1 DEF Return, TypeOK
    <2>4. QED  BY <1>7, <2>2, <2>3 DEF Return, TypeOK, hubVars, clientVars
  <1>8. ASSUME Restart  PROVE TypeOK'
    <2>1. Len(<< >>) = 0 /\ << >> \in Seq(Event)  BY EmptySeq
    <2>2. PICK start \in 1 .. (MaxRev - 2) :
            rev' = start + 2 /\ cur' = StartCur(start) /\ ring' = StartRing(start)
      BY <1>8 DEF Restart
    <2>3. start \in Nat /\ rev' \in Nat  BY <2>2
    <2>4. cur' \in [Topic -> [rev : Nat, data : Payload]] /\ ring' \in Seq(Event)
      BY <2>2, <2>3, StartType
    <2>5. chan' \in [Client -> Seq(Event)] /\ first' \in [Client -> Seq(Event)]
          /\ \A k \in Client : Len(chan'[k]) <= ChanCap
      BY <1>8, <2>1 DEF Restart
    <2>6. QED  BY <1>8, <2>3, <2>4, <2>5 DEF Restart, TypeOK, clientVars
  <1>9. CASE UNCHANGED vars
    BY <1>9 DEF TypeOK, vars
  <1>10. QED
    BY <1>1, <1>2, <1>3, <1>5, <1>6, <1>7, <1>8, <1>9 DEF Next, EndOfStream, Lose

LEMMA InitType == Init => TypeOK
  <1>1. Len(<< >>) = 0 /\ << >> \in Seq(Event)  BY EmptySeq
  <1>2. FirstStart \in Nat /\ FirstStart + 2 \in Nat  BY HubAssumption
  <1>3. Nothing \in [rev : Nat, data : Payload]  BY HubAssumption DEF Nothing
  <1>4. SUFFICES ASSUME Init PROVE TypeOK
    OBVIOUS
  <1>5. rev \in Nat /\ cur \in [Topic -> [rev : Nat, data : Payload]] /\ ring \in Seq(Event)
    BY <1>2, <1>4, StartType DEF Init
  <1>6. chan \in [Client -> Seq(Event)] /\ first \in [Client -> Seq(Event)]
        /\ \A c \in Client : Len(chan[c]) <= ChanCap
    BY <1>1, <1>4, HubAssumption DEF Init
  <1>7. lastID \in [Client -> Nat] /\ seen \in [Client -> [Topic -> [rev : Nat, data : Payload]]]
    BY <1>3, <1>4 DEF Init
  <1>8. QED  BY <1>4, <1>5, <1>6, <1>7 DEF Init, TypeOK

(* The hub's state is well typed and no channel holds more than its buffer.*)
THEOREM TypeCorrect == Spec => []TypeOK
  BY InitType, TypeInductive, PTL DEF Spec

-----------------------------------------------------------------------------
(* What each step does to the events still to be sent on each stream.      *)

LEMMA OutType ==
    ASSUME TypeOK, NEW c \in Client
    PROVE  Out(c) \in Seq(Event) /\ \A e \in Elems(Out(c)) : e \in Event
  <1>1. first[c] \in Seq(Event) /\ chan[c] \in Seq(Event)  BY DEF TypeOK
  <1>2. Out(c) \in Seq(Event)  BY <1>1, ConcatProperties DEF Out
  <1>3. QED  BY <1>2, ElemsDef

LEMMA AppendBehind ==
    ASSUME NEW s \in Seq(Event), NEW t \in Seq(Event), NEW e \in Event
    PROVE  s \o Append(t, e) = Append(s \o t, e)
  <1>1. << e >> \in Seq(Event)  OBVIOUS
  <1>2. Append(t, e) = t \o << e >>  BY AppendIsConcat
  <1>3. s \o t \in Seq(Event)  BY ConcatProperties
  <1>4. Append(s \o t, e) = (s \o t) \o << e >>  BY <1>3, AppendIsConcat
  <1>5. (s \o t) \o << e >> = s \o (t \o << e >>)  BY <1>1, ConcatAssociative
  <1>6. QED  BY <1>2, <1>4, <1>5

LEMMA TailBefore ==
    ASSUME NEW s \in Seq(Event), NEW t \in Seq(Event), s # << >>
    PROVE  s \o t # << >> /\ Head(s \o t) = Head(s) /\ Tail(s \o t) = Tail(s) \o t
  <1> DEFINE a == s \o t
             b == Tail(s) \o t
  <1>1. Len(s) \in Nat \ {0} /\ Len(t) \in Nat /\ Head(s) = s[1]
    BY EmptySeq, LenProperties
  <1>2. a \in Seq(Event) /\ Len(a) = Len(s) + Len(t)
        /\ \A i \in 1 .. Len(a) : a[i] = IF i <= Len(s) THEN s[i] ELSE t[i - Len(s)]
    BY <1>1, ConcatProperties
  <1>3. Tail(s) \in Seq(Event) /\ Len(Tail(s)) = Len(s) - 1
        /\ \A i \in 1 .. Len(Tail(s)) : Tail(s)[i] = s[i + 1]
    BY HeadTailProperties
  <1>4. b \in Seq(Event) /\ Len(b) = (Len(s) - 1) + Len(t)
        /\ \A i \in 1 .. Len(b) : b[i] = IF i <= Len(s) - 1 THEN Tail(s)[i]
                                         ELSE t[i - (Len(s) - 1)]
    BY <1>1, <1>3, ConcatProperties
  <1> HIDE DEF a, b
  <1>5. a # << >> /\ Head(a) = Head(s)
    <2>1. Len(a) \in Nat \ {0} /\ 1 \in 1 .. Len(a)  BY <1>1, <1>2
    <2>2. a # << >> /\ Head(a) = a[1]  BY <1>2, <2>1, EmptySeq
    <2>3. QED  BY <1>1, <1>2, <2>1, <2>2
  <1>6. Tail(a) \in Seq(Event) /\ Len(Tail(a)) = Len(a) - 1
        /\ \A i \in 1 .. Len(Tail(a)) : Tail(a)[i] = a[i + 1]
    BY <1>2, <1>5, HeadTailProperties
  <1>7. ASSUME NEW i \in 1 .. Len(b)  PROVE Tail(a)[i] = b[i]
    <2>1. Tail(a)[i] = a[i + 1] /\ i + 1 \in 1 .. Len(a)  BY <1>1, <1>2, <1>4, <1>6
    <2>2. CASE i <= Len(s) - 1
      <3>1. i \in 1 .. Len(Tail(s)) /\ i + 1 <= Len(s)  BY <1>1, <1>3, <2>2
      <3>2. QED  BY <1>2, <1>3, <1>4, <2>1, <2>2, <3>1
    <2>3. CASE ~(i <= Len(s) - 1)
      <3>1. ~(i + 1 <= Len(s)) /\ (i + 1) - Len(s) = i - (Len(s) - 1)  BY <1>1, <2>3, <1>4
      <3>2. QED  BY <1>2, <1>4, <2>1, <2>3, <3>1
    <2>4. QED  BY <2>2, <2>3
  <1>8. Tail(a) = b
    <2>1. Len(Tail(a)) = Len(b)  BY <1>1, <1>2, <1>4, <1>6
    <2>2. QED  BY <1>4, <1>6, <1>7, <2>1, SeqEqual
  <1>9. QED  BY <1>5, <1>8 DEF a, b

LEMMA OutOfSend ==
    ASSUME TypeOK, NEW c \in Client, SendFirst(c) \/ SendNext(c)
    PROVE  /\ Out(c) # << >> /\ c \in conn
           /\ Receive(c, Head(Out(c)))
           /\ Out(c)' = Tail(Out(c))
           /\ \A k \in Client \ {c} : Out(k)' = Out(k)
           /\ UNCHANGED <<hubVars, subs, conn>>
           /\ \A k \in Client \ {c} : first'[k] = first[k] /\ chan'[k] = chan[k]
  <1>1. first[c] \in Seq(Event) /\ chan[c] \in Seq(Event)
        /\ first \in [Client -> Seq(Event)] /\ chan \in [Client -> Seq(Event)]
    BY DEF TypeOK
  <1>2. CASE SendFirst(c)
    <2>1. Head(Out(c)) = Head(first[c]) /\ Tail(Out(c)) = Tail(first[c]) \o chan[c]
          /\ Out(c) # << >>
      BY <1>1, <1>2, TailBefore DEF SendFirst, Out
    <2>2. QED  BY <1>1, <1>2, <2>1 DEF SendFirst, Out
  <1>3. CASE SendNext(c)
    <2>1. Out(c) = chan[c] /\ << >> \o Tail(chan[c]) = Tail(chan[c])
      BY <1>1, <1>3, ConcatEmptySeq, HeadTailProperties DEF SendNext, Out
    <2>2. QED  BY <1>1, <1>3, <2>1 DEF SendNext, Out
  <1>4. QED  BY <1>2, <1>3

LEMMA OutOfAnnounce ==
    ASSUME TypeOK, NEW t \in Topic, NEW d \in Payload, Announce(t, d), NEW k \in Client,
           NEW e, e = [topic |-> t, rev |-> rev + 1, data |-> d]
    PROVE  /\ e \in Event
           /\ k \in subs' => k \in subs /\ Out(k)' = Append(Out(k), e)
           /\ k \notin subs' => Out(k)' = Out(k)
           /\ first'[k] = first[k] /\ (k \notin subs => chan'[k] = chan[k])
  <1>1. first[k] \in Seq(Event) /\ chan[k] \in Seq(Event)  BY DEF TypeOK
  <1>2. e \in Event  BY DEF Event, TypeOK
  <1>3. first[k] \o Append(chan[k], e) = Append(Out(k), e)
    BY <1>1, <1>2, AppendBehind DEF Out
  <1>4. QED  BY <1>2, <1>3 DEF Announce, FanOut, Out

LEMMA OutOfConnect ==
    ASSUME TypeOK, NEW c \in Client, Connect(c)
    PROVE  /\ Out(c)' \in Seq(Event)
           /\ Elems(Out(c)') = FirstEvents(lastID[c]) /\ IncreasingRevs(Out(c)')
           /\ \A k \in Client \ {c} : Out(k)' = Out(k)
           /\ \A k \in Client \ {c} : first'[k] = first[k] /\ chan'[k] = chan[k]
  <1>1. PICK s \in Listings(FirstEvents(lastID[c])) : first' = [first EXCEPT ![c] = s]
    BY DEF Connect
  <1>2. s \in Seq(Event) /\ Elems(s) = FirstEvents(lastID[c]) /\ IncreasingRevs(s)
    BY <1>1, FirstEventsFinite, ListingType
  <1>3. s \o << >> = s  BY <1>2, ConcatEmptySeq
  <1>4. Out(c)' = s  BY <1>1, <1>3 DEF Connect, Out, TypeOK
  <1>5. QED  BY <1>1, <1>2, <1>4 DEF Connect, Out, TypeOK

LEMMA OutOfReturn ==
    ASSUME TypeOK, NEW c \in Client, Return(c)
    PROVE  /\ Out(c)' = << >> /\ first'[c] = << >> /\ chan'[c] = << >>
           /\ \A k \in Client \ {c} : Out(k)' = Out(k)
           /\ \A k \in Client \ {c} : first'[k] = first[k] /\ chan'[k] = chan[k]
  BY DEF Return, Out, TypeOK

-----------------------------------------------------------------------------
(* What the client has after the handler sent it e.                        *)
LEMMA Received ==
    ASSUME TypeOK, NEW c \in Client, NEW e \in Event, Receive(c, e)
    PROVE  /\ \A k \in Client \ {c} : lastID'[k] = lastID[k] /\ seen'[k] = seen[k]
           /\ e.topic \in Wanted(c) =>
                /\ lastID'[c] = e.rev
                /\ seen'[c][e.topic].rev = e.rev /\ seen'[c][e.topic].data = e.data
           /\ e.topic \notin Wanted(c) => lastID'[c] = lastID[c] /\ seen'[c] = seen[c]
           /\ \A t \in Topic \ {e.topic} : seen'[c][t] = seen[c][t]
  <1>1. e.topic \in Topic  BY DEF Event
  <1>2. seen \in [Client -> [Topic -> [rev : Nat, data : Payload]]] /\ lastID \in [Client -> Nat]
    BY DEF TypeOK
  <1>3. QED  BY <1>1, <1>2 DEF Receive, clientVars

(* Sending an event: what is left of the stream is newer than it.          *)
LEMMA SendKeeps ==
    ASSUME FeedInv, NEW c \in Client, SendFirst(c) \/ SendNext(c)
    PROVE  FeedInv'
  <1> DEFINE h == Head(Out(c))
  <1> USE DEF FeedInv
  <1>1. Out(c) \in Seq(Event) /\ Out(c) # << >> /\ c \in conn /\ Out(c)' = Tail(Out(c))
        /\ (\A k \in Client \ {c} : Out(k)' = Out(k)) /\ UNCHANGED <<rev, cur, ring, subs, conn>>
        /\ (\A k \in Client \ {c} : first'[k] = first[k] /\ chan'[k] = chan[k])
    BY OutOfSend, OutType DEF hubVars
  <1>2. h \in Event /\ h \in Elems(Out(c)) /\ Elems(Out(c)) = {h} \cup Elems(Out(c)')
    BY <1>1, ElemsTail
  <1>3. IncreasingRevs(Out(c)') /\ \A f \in Elems(Out(c)') : h.rev < f.rev
    BY <1>1, IncreasingTail DEF StreamOrdered
  <1>4. \A f \in Elems(Out(c)') : f \in Event /\ f.rev \in Nat /\ f.topic \in Topic
    BY <1>2, OutType DEF Event
  <1>5. h.rev \in Nat /\ h.topic \in Topic  BY <1>2 DEF Event
  <1>6. /\ \A k \in Client \ {c} : lastID'[k] = lastID[k] /\ seen'[k] = seen[k]
        /\ h.topic \in Wanted(c) =>
             /\ lastID'[c] = h.rev
             /\ seen'[c][h.topic].rev = h.rev /\ seen'[c][h.topic].data = h.data
        /\ h.topic \notin Wanted(c) => lastID'[c] = lastID[c] /\ seen'[c] = seen[c]
        /\ \A t \in Topic \ {h.topic} : seen'[c][t] = seen[c][t]
    BY <1>2, OutOfSend, Received
  <1>7. Known(h)  BY <1>2 DEF OutKnown
  <1>8. /\ \A k \in Client, t \in Topic : seen[k][t].rev \in Nat
        /\ \A t \in Topic : cur[t].rev \in Nat
    BY DEF TypeOK
  <1> HIDE DEF h
  <1>9. TypeOK'  BY TypeInductive DEF Next
  <1>10. RingWindow' /\ CurOnRing'
    BY <1>1 DEF RingWindow, CurOnRing, Known, Published
  <1>11. IdleEmpty'  BY <1>1 DEF IdleEmpty
  <1>12. OutKnown'
    <2> SUFFICES ASSUME NEW k \in Client, NEW f \in Elems(Out(k)')  PROVE Known(f)'
      BY DEF OutKnown
    <2>1. f \in Elems(Out(k))  BY <1>1, <1>2
    <2>2. Known(f)  BY <2>1 DEF OutKnown
    <2>3. QED  BY <1>1, <2>2 DEF Known
  <1>13. StreamOrdered'  BY <1>1, <1>3 DEF StreamOrdered
  <1>14. \A t \in Topic : Published(t) /\ (Holds(c, t) \/ Queued(c, t)) => Holds(c, t)' \/ Queued(c, t)'
    <2> SUFFICES ASSUME NEW t \in Topic, Published(t), Holds(c, t) \/ Queued(c, t), ~ Queued(c, t)'
                 PROVE  Holds(c, t)'
      OBVIOUS
    <2>1. seen[c][h.topic].rev <= h.rev  BY <1>2 DEF OutAhead
    <2>2. CASE t # h.topic
      BY <1>1, <1>2, <1>6, <2>2 DEF Holds, Queued, Wanted
    <2>3. CASE t = h.topic /\ t \in Wanted(c)
      <3>1. h.rev = cur[t].rev
        BY <1>1, <1>2, <1>5, <1>7, <1>8, <2>1, <2>3 DEF Holds, Queued, Known, Wanted
      <3>2. QED  BY <1>1, <1>6, <1>7, <2>3, <3>1 DEF Holds, Known, Wanted
    <2>4. CASE t \notin Wanted(c)  BY <2>4 DEF Holds, Wanted
    <2>5. QED  BY <2>2, <2>3, <2>4
  <1>15. \A k \in Client \ {c}, t \in Topic : (Holds(k, t) => Holds(k, t)') /\ (Queued(k, t) => Queued(k, t)')
    BY <1>1, <1>6 DEF Holds, Queued, Wanted
  <1>16. OpenCovered'  BY <1>1, <1>14, <1>15 DEF OpenCovered, Published, TypeOK
  <1>17. OutCovered'
    <2> SUFFICES ASSUME NEW k \in Client, NEW f \in Elems(Out(k)'), NEW t \in Topic,
                        Published(t)', cur'[t].rev <= f.rev
                 PROVE  Holds(k, t)' \/ Queued(k, t)'
      BY DEF OutCovered
    <2>1. f \in Elems(Out(k)) /\ Published(t) /\ cur[t].rev <= f.rev  BY <1>1, <1>2 DEF Published
    <2>2. QED  BY <1>14, <1>15, <2>1 DEF OutCovered
  <1>18. NothingSkipped'
    <2> SUFFICES ASSUME NEW k \in Client, NEW t \in Wanted(k), Published(t), cur[t].rev <= lastID'[k]
                 PROVE  seen'[k][t].rev = cur[t].rev /\ KeyOf[seen'[k][t].data] = KeyOf[cur[t].data]
      BY <1>1 DEF NothingSkipped, HasUpTo, Published, Wanted
    <2>1. t \in Topic  BY HubAssumption DEF Wanted
    <2>2. CASE k = c /\ h.topic \in Wanted(c)
      <3>1. cur[t].rev <= h.rev  BY <1>6, <2>2
      <3>2. Holds(c, t)' \/ Queued(c, t)'  BY <1>2, <1>14, <2>1, <3>1 DEF OutCovered
      <3>3. ~ Queued(c, t)'
        <4>1. ASSUME NEW f \in Elems(Out(c)'), f.rev = cur[t].rev  PROVE FALSE
          BY <1>3, <1>4, <1>5, <1>8, <2>1, <3>1, <4>1
        <4>2. QED  BY <1>1, <4>1 DEF Queued
      <3>4. QED  BY <1>1, <2>2, <3>2, <3>3 DEF Holds, Wanted
    <2>3. CASE ~ (k = c /\ h.topic \in Wanted(c))
      <3>1. lastID'[k] = lastID[k] /\ seen'[k] = seen[k]  BY <1>6, <2>3
      <3>2. QED  BY <3>1 DEF NothingSkipped, HasUpTo
    <2>4. QED  BY <2>2, <2>3
  <1>19. SeenBehind'
    <2>1. h.rev <= cur[h.topic].rev /\ cur[h.topic].rev <= rev
      BY <1>5, <1>7 DEF Known, CurOnRing
    <2>2. h.rev <= rev  BY <1>5, <1>8, <2>1 DEF TypeOK
    <2>3. ASSUME NEW k \in Client  PROVE lastID'[k] <= rev
      BY <1>6, <2>2 DEF SeenBehind
    <2>4. ASSUME NEW k \in Client, NEW t \in Topic
          PROVE  seen'[k][t].rev <= rev /\ (Published(t) => seen'[k][t].rev <= cur[t].rev)
      BY <1>6, <2>1, <2>2 DEF SeenBehind
    <2>5. QED  BY <1>1, <2>3, <2>4 DEF SeenBehind, Published
  <1>20. OutAhead'
    <2> SUFFICES ASSUME NEW k \in Client, NEW f \in Elems(Out(k)')
                 PROVE  seen'[k][f.topic].rev <= f.rev
      BY DEF OutAhead
    <2>1. f \in Elems(Out(k)) /\ seen[k][f.topic].rev <= f.rev  BY <1>1, <1>2 DEF OutAhead
    <2>2. CASE k = c  BY <1>3, <1>4, <1>5, <1>6, <2>1, <2>2
    <2>3. CASE k # c  BY <1>6, <2>1, <2>3
    <2>4. QED  BY <2>2, <2>3
  <1>21. SeenRolled'
    <2> SUFFICES ASSUME NEW k \in Client, NEW t \in Topic
                 PROVE  seen'[k][t].rev <= lastID'[k] \/ seen'[k][t].rev < ring[1].rev
      BY <1>1 DEF SeenRolled, Rolled
    <2>1. seen[k][t].rev <= lastID[k] \/ seen[k][t].rev < ring[1].rev  BY DEF SeenRolled, Rolled
    <2>2. seen[c][t].rev <= h.rev \/ seen[c][t].rev < ring[1].rev  BY <1>2 DEF OutRolled, Rolled
    <2>3. QED  BY <1>5, <1>6, <2>1, <2>2
  <1>22. OutRolled'
    <2> SUFFICES ASSUME NEW k \in Client, NEW f \in Elems(Out(k)'), NEW t \in Topic
                 PROVE  seen'[k][t].rev <= f.rev \/ seen'[k][t].rev < ring[1].rev
      BY <1>1 DEF OutRolled, Rolled
    <2>1. f \in Elems(Out(k)) /\ (seen[k][t].rev <= f.rev \/ seen[k][t].rev < ring[1].rev)
      BY <1>1, <1>2 DEF OutRolled, Rolled
    <2>2. CASE k = c  BY <1>3, <1>4, <1>5, <1>6, <2>1, <2>2
    <2>3. CASE k # c  BY <1>6, <2>1, <2>3
    <2>4. QED  BY <2>2, <2>3
  <1>23. QED
    BY <1>9, <1>10, <1>11, <1>12, <1>13, <1>16, <1>17, <1>18, <1>19, <1>20, <1>21, <1>22

(* The ring after an append: it lost at most its oldest event.             *)
LEMMA RingOfAnnounce ==
    ASSUME FeedInv, NEW t \in Topic, NEW d \in Payload, Announce(t, d),
           NEW e, e = [topic |-> t, rev |-> rev + 1, data |-> d]
    PROVE  /\ RingWindow'
           /\ Elems(ring') \subseteq Elems(ring) \cup {e} /\ e \in Elems(ring')
           /\ ring[1].rev <= ring'[1].rev
           /\ \A f \in Elems(ring) : f.rev >= ring'[1].rev => f \in Elems(ring')
           /\ ring[1].rev \in Nat /\ ring'[1].rev \in Nat
           /\ \A f \in Elems(ring) : f.rev \in Nat /\ f.rev <= rev /\ ring[1].rev <= f.rev
  <1> DEFINE a == Append(ring, e)
  <1>1. e \in Event /\ ring \in Seq(Event) /\ rev \in Nat /\ Len(ring) \in Nat
        /\ RingSize \in Nat /\ RingSize >= 2
    BY HubAssumption, LenProperties DEF FeedInv, TypeOK, Event
  <1>2. 1 <= Len(ring) /\ Len(ring) <= RingSize
        /\ \A i \in 1 .. Len(ring) : ring[i].rev = rev - Len(ring) + i
    BY <1>1 DEF FeedInv, RingWindow
  <1>3. a \in Seq(Event) /\ a # << >> /\ Len(a) = Len(ring) + 1
        /\ (\A i \in 1 .. Len(ring) : a[i] = ring[i]) /\ a[Len(ring) + 1] = e
    BY <1>1, AppendProperties
  <1>4. \A f \in Elems(ring) : f.rev \in Nat /\ f.rev <= rev /\ ring[1].rev <= f.rev
    <2> SUFFICES ASSUME NEW f \in Elems(ring)
                 PROVE  f.rev \in Nat /\ f.rev <= rev /\ ring[1].rev <= f.rev
      OBVIOUS
    <2>1. PICK i \in 1 .. Len(ring) : f = ring[i]  BY <1>1, ElemsDef
    <2>2. f \in Event  BY <1>1, <2>1, ElemsDef
    <2>3. 1 \in 1 .. Len(ring)  BY <1>1, <1>2
    <2>4. QED  BY <1>1, <1>2, <2>1, <2>2, <2>3 DEF Event
  <1>5. ring[1] \in Event /\ 1 \in 1 .. Len(ring)  BY <1>1, <1>2, ElementOfSeq
  <1>6. Elems(a) = Elems(ring) \cup {e}  BY <1>1, ElemsAppend
  <1>7. ring' = Trim(a) /\ rev' = rev + 1  BY DEF Announce
  <1>8. e.rev = rev + 1  OBVIOUS
  <1> HIDE DEF a
  <1>9. \A i \in 1 .. Len(a) : a[i].rev = rev + 1 - Len(a) + i
    <2> SUFFICES ASSUME NEW i \in 1 .. Len(a)  PROVE a[i].rev = rev + 1 - Len(a) + i
      OBVIOUS
    <2>1. CASE i = Len(ring) + 1  BY <1>1, <1>3, <1>8, <2>1
    <2>2. CASE i # Len(ring) + 1
      <3>1. i \in 1 .. Len(ring)  BY <1>1, <1>3, <2>2
      <3>2. QED  BY <1>1, <1>2, <1>3, <3>1
    <2>3. QED  BY <2>1, <2>2
  <1>10. CASE Len(a) > RingSize
    <2> DEFINE b == Tail(a)
    <2>1. ring' = b  BY <1>7, <1>10 DEF Trim
    <2>2. b \in Seq(Event) /\ Len(b) = Len(a) - 1 /\ \A i \in 1 .. Len(b) : b[i] = a[i + 1]
      BY <1>3, HeadTailProperties
    <2>3. Elems(a) = {Head(a)} \cup Elems(b)  BY <1>3, ElemsTail
    <2>4. Head(a) = ring[1]  BY <1>1, <1>2, <1>3, HeadTailAppend
    <2> HIDE DEF b
    <2>5. \A i \in 1 .. Len(b) : b[i].rev = rev + 1 - Len(b) + i
      <3> SUFFICES ASSUME NEW i \in 1 .. Len(b)  PROVE b[i].rev = rev + 1 - Len(b) + i
        OBVIOUS
      <3>1. b[i] = a[i + 1] /\ i + 1 \in 1 .. Len(a) /\ Len(a) = Len(b) + 1
        BY <1>1, <1>3, <2>2
      <3>2. a[i + 1].rev = rev + 1 - Len(a) + (i + 1)  BY <1>9, <3>1
      <3>3. i \in Nat /\ Len(a) \in Nat /\ Len(b) \in Nat  BY <1>1, <1>3, <2>2
      <3>4. QED  BY <1>1, <3>1, <3>2, <3>3
    <2>6. Len(b) = Len(ring) /\ 1 \in 1 .. Len(b)  BY <1>1, <1>2, <1>3, <2>2
    <2>7. b[1].rev = ring[1].rev + 1  BY <1>1, <1>2, <1>5, <2>5, <2>6
    <2>8. e \in Elems(b)
      <3>1. b[Len(b)] = e /\ Len(b) \in 1 .. Len(b)  BY <1>1, <1>2, <1>3, <2>2, <2>6
      <3>2. QED  BY <2>2, <3>1, ElemsDef
    <2>9. \A f \in Elems(ring) : f.rev >= b[1].rev => f \in Elems(b)
      BY <1>4, <1>5, <1>6, <2>3, <2>4, <2>7 DEF Event
    <2>10. Len(ring') \in 1 .. RingSize /\ \A i \in 1 .. Len(ring') : ring'[i].rev = rev' - Len(ring') + i
      BY <1>1, <1>2, <1>7, <2>1, <2>5, <2>6
    <2>11. RingWindow'  BY <2>10 DEF RingWindow
    <2>12. QED  BY <1>4, <1>5, <1>6, <2>1, <2>3, <2>7, <2>8, <2>9, <2>11 DEF Event
  <1>11. CASE ~(Len(a) > RingSize)
    <2>1. ring' = a  BY <1>7, <1>11 DEF Trim
    <2>2. Len(ring') \in 1 .. RingSize /\ \A i \in 1 .. Len(ring') : ring'[i].rev = rev' - Len(ring') + i
      BY <1>1, <1>3, <1>7, <1>11, <1>9, <2>1
    <2>3. RingWindow'  BY <2>2 DEF RingWindow
    <2>4. a[1] = ring[1]  BY <1>3, <1>5
    <2>5. QED  BY <1>4, <1>5, <1>6, <2>1, <2>3, <2>4 DEF Event
  <1>12. QED  BY <1>10, <1>11

(* A new revision is newer than everything known, queued or seen.          *)
LEMMA AnnounceKeeps ==
    ASSUME FeedInv, NEW t \in Topic, NEW d \in Payload, Announce(t, d)
    PROVE  FeedInv'
  <1>1. PICK e : e = [topic |-> t, rev |-> rev + 1, data |-> d]
    OBVIOUS
  <1> USE DEF FeedInv
  <1>2. e \in Event /\ \A k \in Client : /\ k \in subs' => k \in subs /\ Out(k)' = Append(Out(k), e)
                                         /\ k \notin subs' => Out(k)' = Out(k)
                                         /\ first'[k] = first[k] /\ (k \notin subs => chan'[k] = chan[k])
    <2>1. e \in Event  BY <1>1 DEF TypeOK, Event
    <2>2. QED  BY <1>1, <2>1, OutOfAnnounce
  <1>3. e.rev = rev + 1 /\ e.topic = t /\ e.data = d  BY <1>1
  <1>4. rev' = rev + 1 /\ rev \in Nat /\ cur'[t].rev = rev + 1 /\ cur'[t].data = d
        /\ (\A u \in Topic \ {t} : cur'[u] = cur[u]) /\ UNCHANGED <<conn, lastID, seen>>
    BY DEF Announce, TypeOK, clientVars
  <1>5. /\ RingWindow'
        /\ Elems(ring') \subseteq Elems(ring) \cup {e} /\ e \in Elems(ring')
        /\ ring[1].rev <= ring'[1].rev
        /\ \A f \in Elems(ring) : f.rev >= ring'[1].rev => f \in Elems(ring')
        /\ ring[1].rev \in Nat /\ ring'[1].rev \in Nat
    BY <1>1, RingOfAnnounce
  <1>6. \A k \in Client : Out(k) \in Seq(Event) /\ \A f \in Elems(Out(k)) : f \in Event
    BY OutType
  <1>7. \A k \in Client : /\ k \in subs' => Elems(Out(k)') = Elems(Out(k)) \cup {e}
                          /\ k \notin subs' => Elems(Out(k)') = Elems(Out(k))
    <2> SUFFICES ASSUME NEW k \in Client
                 PROVE  /\ k \in subs' => Elems(Out(k)') = Elems(Out(k)) \cup {e}
                        /\ k \notin subs' => Elems(Out(k)') = Elems(Out(k))
      OBVIOUS
    <2>1. Elems(Append(Out(k), e)) = Elems(Out(k)) \cup {e}  BY <1>2, <1>6, ElemsAppend
    <2>2. QED  BY <1>2, <2>1
  <1>8. /\ \A u \in Topic : cur[u].rev \in Nat /\ cur[u].rev <= rev
        /\ \A k \in Client, u \in Topic : seen[k][u].rev \in Nat /\ seen[k][u].rev <= rev
        /\ \A k \in Client : lastID[k] \in Nat /\ lastID[k] <= rev
    BY DEF TypeOK, CurOnRing, SeenBehind
  <1>9. ASSUME NEW f \in Event, Known(f)  PROVE Known(f)' /\ f.rev <= rev
    BY <1>4, <1>8, <1>9 DEF Known, Event
  <1>10. Known(e)'  BY <1>3, <1>4 DEF Known
  <1>11. \A k \in Client : \A f \in Elems(Out(k)) : f \in Event /\ f.rev \in Nat /\ f.rev <= rev
    BY <1>6, <1>9 DEF OutKnown, Event
  <1>12. TypeOK'  BY TypeInductive DEF Next
  <1>13. CurOnRing'
    <2>1. \A u \in Topic : cur'[u].rev <= rev'  BY <1>4, <1>8
    <2>2. \A u, w \in Topic : Published(u)' /\ cur'[u].rev = cur'[w].rev => u = w
      BY <1>4, <1>8 DEF CurOnRing, Published
    <2>3. \A f \in Elems(ring') : Known(f)'
      <3>1. \A f \in Elems(ring) : f \in Event /\ Known(f)  BY ElemsDef DEF TypeOK, CurOnRing
      <3>2. QED  BY <1>5, <1>9, <1>10, <3>1
    <2>4. ASSUME NEW u \in Topic, cur'[u].rev >= ring'[1].rev
          PROVE  \E f \in Elems(ring') : f.topic = u /\ f.rev = cur'[u].rev
      <3>1. CASE u = t  BY <1>3, <1>4, <1>5, <3>1
      <3>2. CASE u # t
        <4>1. cur[u].rev >= ring[1].rev /\ cur'[u] = cur[u]  BY <1>4, <1>5, <1>8, <2>4, <3>2
        <4>2. PICK f \in Elems(ring) : f.topic = u /\ f.rev = cur[u].rev  BY <4>1 DEF CurOnRing
        <4>3. QED  BY <1>5, <2>4, <4>1, <4>2
      <3>3. QED  BY <3>1, <3>2
    <2>5. QED  BY <2>1, <2>2, <2>3, <2>4 DEF CurOnRing
  <1>14. IdleEmpty'  BY <1>2, <1>4 DEF IdleEmpty, TypeOK
  <1>15. OutKnown'
    <2>1. \A k \in Client : \A f \in Elems(Out(k)) : Known(f)'  BY <1>6, <1>9 DEF OutKnown
    <2>2. QED  BY <1>7, <1>10, <2>1 DEF OutKnown
  <1>16. StreamOrdered'
    <2>1. \A k \in Client : IncreasingRevs(Append(Out(k), e))
      BY <1>2, <1>3, <1>4, <1>6, <1>11, IncreasingAppend DEF StreamOrdered
    <2>2. QED  BY <1>2, <2>1 DEF StreamOrdered
  <1>17. ASSUME NEW k \in Client, NEW u \in Topic \ {t}, Holds(k, u) \/ Queued(k, u)
         PROVE  Holds(k, u)' \/ Queued(k, u)'
    BY <1>4, <1>7, <1>17 DEF Holds, Queued, Wanted
  <1>18. ASSUME NEW k \in Client, k \in subs'  PROVE Queued(k, t)'
    BY <1>3, <1>4, <1>7, <1>18 DEF Queued
  <1>19. OpenCovered'
    <2> SUFFICES ASSUME NEW k \in subs', NEW u \in Topic, Published(u)'
                 PROVE  Holds(k, u)' \/ Queued(k, u)'
      BY DEF OpenCovered
    <2>1. k \in Client /\ k \in subs  BY <1>2, <1>12 DEF TypeOK
    <2>2. CASE u = t  BY <1>18, <2>1, <2>2
    <2>3. CASE u # t
      <3>1. Published(u)  BY <1>4, <2>3 DEF Published
      <3>2. QED  BY <1>17, <2>1, <2>3, <3>1 DEF OpenCovered
    <2>4. QED  BY <2>2, <2>3
  <1>20. OutCovered'
    <2> SUFFICES ASSUME NEW k \in Client, NEW f \in Elems(Out(k)'), NEW u \in Topic,
                        Published(u)', cur'[u].rev <= f.rev
                 PROVE  Holds(k, u)' \/ Queued(k, u)'
      BY DEF OutCovered
    <2>1. CASE k \in subs'  BY <1>19, <2>1 DEF OpenCovered
    <2>2. CASE k \notin subs'
      <3>1. f \in Elems(Out(k)) /\ f.rev \in Nat /\ f.rev <= rev  BY <1>7, <1>11, <2>2
      <3>2. u # t  BY <1>4, <3>1
      <3>3. Published(u) /\ cur[u].rev <= f.rev  BY <1>4, <3>2 DEF Published
      <3>4. QED  BY <1>17, <3>1, <3>2, <3>3 DEF OutCovered
    <2>3. QED  BY <2>1, <2>2
  <1>21. NothingSkipped'
    <2> SUFFICES ASSUME NEW k \in Client, NEW u \in Wanted(k), Published(u)', cur'[u].rev <= lastID[k]
                 PROVE  seen[k][u].rev = cur'[u].rev /\ KeyOf[seen[k][u].data] = KeyOf[cur'[u].data]
      BY <1>4 DEF NothingSkipped, HasUpTo, Wanted
    <2>1. u # t  BY <1>4, <1>8
    <2>2. u \in Topic  BY HubAssumption DEF Wanted
    <2>3. QED  BY <1>4, <2>1, <2>2 DEF NothingSkipped, HasUpTo, Published
  <1>22. SeenBehind'
    <2>1. ASSUME NEW k \in Client, NEW u \in Topic
          PROVE  /\ lastID'[k] <= rev' /\ seen'[k][u].rev <= rev'
                 /\ Published(u)' => seen'[k][u].rev <= cur'[u].rev
      BY <1>4, <1>8 DEF SeenBehind, Published
    <2>2. QED  BY <1>4, <1>8, <2>1 DEF SeenBehind
  <1>23. OutAhead'
    <2> SUFFICES ASSUME NEW k \in Client, NEW f \in Elems(Out(k)')
                 PROVE  seen[k][f.topic].rev <= f.rev
      BY <1>4 DEF OutAhead
    <2>1. CASE f \in Elems(Out(k))  BY <2>1 DEF OutAhead
    <2>2. CASE f = e  BY <1>3, <1>4, <1>8, <2>2
    <2>3. QED  BY <1>7, <2>1, <2>2
  <1>24. ASSUME NEW k \in Client, NEW id \in Nat, Rolled(k, id)  PROVE Rolled(k, id)'
    BY <1>4, <1>5, <1>8, <1>24 DEF Rolled
  <1>25. SeenRolled'  BY <1>4, <1>8, <1>24 DEF SeenRolled
  <1>26. OutRolled'
    <2>1. ASSUME NEW k \in Client, NEW f \in Elems(Out(k))  PROVE Rolled(k, f.rev)'
      BY <1>11, <1>24 DEF OutRolled
    <2>2. ASSUME NEW k \in Client  PROVE Rolled(k, e.rev)'
      BY <1>3, <1>4, <1>8 DEF Rolled
    <2>3. QED  BY <1>7, <2>1, <2>2 DEF OutRolled
  <1>27. QED
    BY <1>5, <1>12, <1>13, <1>14, <1>15, <1>16, <1>19, <1>20, <1>21, <1>22, <1>23, <1>25, <1>26

(* A refresh changes no revision and no key.                               *)
LEMMA RefreshKeeps ==
    ASSUME FeedInv, NEW t \in Topic, NEW d \in Payload, Refresh(t, d)
    PROVE  FeedInv'
  <1> USE DEF FeedInv
  <1>1. /\ UNCHANGED <<rev, ring, subs, chan, first, conn, lastID, seen>>
        /\ cur' = [cur EXCEPT ![t].data = d] /\ Published(t) /\ KeyOf[cur[t].data] = KeyOf[d]
    BY DEF Refresh, SameKey, streamVars, clientVars
  <1>2. \A u \in Topic : cur'[u].rev = cur[u].rev /\ KeyOf[cur'[u].data] = KeyOf[cur[u].data]
    BY <1>1 DEF TypeOK
  <1>3. \A k \in Client : Out(k)' = Out(k)  BY <1>1 DEF Out
  <1>4. TypeOK'  BY TypeInductive DEF Next
  <1>5. RingWindow' /\ IdleEmpty' /\ StreamOrdered'
    BY <1>1, <1>3 DEF RingWindow, IdleEmpty, StreamOrdered
  <1>6. \A f \in Event : Known(f) => Known(f)'  BY <1>2 DEF Known, Event
  <1>7. CurOnRing'
    <2>1. \A f \in Elems(ring) : f \in Event  BY ElemsDef DEF TypeOK
    <2>2. \A f \in Elems(ring') : Known(f)'  BY <1>1, <1>6, <2>1 DEF CurOnRing
    <2>3. QED  BY <1>1, <1>2, <2>2 DEF CurOnRing, Published
  <1>8. OutKnown'
    <2>1. \A k \in Client : \A f \in Elems(Out(k)) : f \in Event  BY OutType
    <2>2. QED  BY <1>3, <1>6, <2>1 DEF OutKnown
  <1>9. \A k \in Client, u \in Topic : /\ Holds(k, u) => Holds(k, u)'
                                       /\ Queued(k, u) => Queued(k, u)'
                                       /\ Published(u)' => Published(u)
    BY <1>1, <1>2, <1>3 DEF Holds, Queued, Published, Wanted
  <1>10. OpenCovered'  BY <1>1, <1>9 DEF OpenCovered, TypeOK
  <1>11. OutCovered'  BY <1>2, <1>3, <1>9 DEF OutCovered
  <1>12. NothingSkipped'
    <2>1. \A k \in Client : \A u \in Wanted(k) : u \in Topic  BY HubAssumption DEF Wanted
    <2>2. QED  BY <1>1, <1>2, <2>1 DEF NothingSkipped, HasUpTo, Published, Wanted
  <1>13. SeenBehind'  BY <1>1, <1>2 DEF SeenBehind, Published
  <1>14. OutAhead' /\ SeenRolled' /\ OutRolled'
    BY <1>1, <1>3 DEF OutAhead, SeenRolled, OutRolled, Rolled
  <1>15. QED
    BY <1>4, <1>5, <1>7, <1>8, <1>10, <1>11, <1>12, <1>13, <1>14

(* A subscriber gets what it lacks: by the ring if its id is on it and     *)
(* nothing it saw is beyond, by the current values otherwise.              *)
LEMMA ConnectKeeps ==
    ASSUME FeedInv, NEW c \in Client, Connect(c)
    PROVE  FeedInv'
  <1> DEFINE id == lastID[c]
  <1> USE DEF FeedInv
  <1>1. UNCHANGED <<rev, cur, ring, lastID, seen>> /\ conn' = conn \cup {c} /\ subs' = subs \cup {c}
    BY DEF Connect, hubVars, clientVars
  <1>2. /\ Elems(Out(c)') = FirstEvents(id) /\ IncreasingRevs(Out(c)')
        /\ \A k \in Client \ {c} : Out(k)' = Out(k) /\ first'[k] = first[k] /\ chan'[k] = chan[k]
    BY OutOfConnect
  <1>3. TypeOK'  BY TypeInductive DEF Next
  <1>4. RingWindow' /\ CurOnRing'  BY <1>1 DEF RingWindow, CurOnRing, Known, Published
  <1>5. IdleEmpty'  BY <1>1, <1>2 DEF IdleEmpty
  <1>6. StreamOrdered'  BY <1>2 DEF StreamOrdered
  <1>7. /\ \A t \in Topic : cur[t].rev \in Nat
        /\ \A t \in Topic : seen[c][t].rev \in Nat
        /\ id \in Nat /\ id <= rev /\ rev \in Nat
    BY DEF TypeOK, SeenBehind
  <1>8. /\ \A f \in Elems(ring) : f \in Event /\ f.rev \in Nat /\ ring[1].rev <= f.rev
        /\ ring[1].rev \in Nat /\ ring # << >>
    <2>1. Len(ring) \in Nat /\ Len(ring) >= 1 /\ ring \in Seq(Event)
          /\ \A i \in 1 .. Len(ring) : ring[i].rev = rev - Len(ring) + i
      BY HubAssumption DEF RingWindow, TypeOK
    <2>2. 1 \in 1 .. Len(ring) /\ ring[1] \in Event /\ ring # << >>
      BY <2>1, ElementOfSeq, EmptySeq
    <2>3. ASSUME NEW f \in Elems(ring)  PROVE f \in Event /\ f.rev \in Nat /\ ring[1].rev <= f.rev
      <3>1. PICK i \in 1 .. Len(ring) : f = ring[i]  BY <2>1, ElemsDef
      <3>2. f \in Event  BY <2>1, <3>1, ElementOfSeq
      <3>3. QED  BY <1>7, <2>1, <2>2, <3>1, <3>2 DEF Event
    <2>4. QED  BY <2>2, <2>3 DEF Event
  <1>9. \A f \in FirstEvents(id) : f.rev \in Nat /\ f.topic \in Topic
    BY FirstEventsFinite DEF Event
  <1>10. \A t \in Topic : seen[c][t].rev <= id \/ seen[c][t].rev < ring[1].rev
    BY DEF SeenRolled, Rolled
  <1> HIDE DEF id
  <1>11. /\ \A f \in FirstEvents(id) : Known(f)
         /\ \A t \in Topic : Published(t) => \/ t \in Wanted(c) => /\ seen[c][t].rev = cur[t].rev
                                                                  /\ KeyOf[seen[c][t].data] = KeyOf[cur[t].data]
                                             \/ \E f \in FirstEvents(id) : f.topic = t /\ f.rev = cur[t].rev
         /\ \A f \in FirstEvents(id) : seen[c][f.topic].rev <= f.rev
         /\ \A f \in FirstEvents(id) : \A t \in Topic : seen[c][t].rev <= f.rev \/ seen[c][t].rev < ring[1].rev
    <2>1. CASE Covers(id)
      <3>1. FirstEvents(id) = {f \in Elems(ring) : f.rev > id}  BY <2>1 DEF FirstEvents
      <3>2. ring[1].rev <= id + 1  BY <2>1 DEF Covers
      <3>3. \A f \in FirstEvents(id) : Known(f)  BY <3>1 DEF CurOnRing
      <3>4. ASSUME NEW t \in Topic, Published(t)
            PROVE  \/ t \in Wanted(c) => /\ seen[c][t].rev = cur[t].rev
                                         /\ KeyOf[seen[c][t].data] = KeyOf[cur[t].data]
                   \/ \E f \in FirstEvents(id) : f.topic = t /\ f.rev = cur[t].rev
        <4>1. CASE cur[t].rev <= id
          BY <3>4, <4>1 DEF NothingSkipped, HasUpTo, id
        <4>2. CASE ~(cur[t].rev <= id)
          <5>1. cur[t].rev >= ring[1].rev /\ cur[t].rev > id  BY <1>7, <1>8, <3>2, <4>2
          <5>2. PICK f \in Elems(ring) : f.topic = t /\ f.rev = cur[t].rev  BY <5>1 DEF CurOnRing
          <5>3. QED  BY <3>1, <5>1, <5>2
        <4>3. QED  BY <4>1, <4>2
      <3>5. \A f \in FirstEvents(id) : id < f.rev /\ ring[1].rev <= f.rev  BY <1>8, <3>1
      <3>6. \A f \in FirstEvents(id) : \A t \in Topic : seen[c][t].rev <= f.rev
        BY <1>7, <1>8, <1>9, <1>10, <3>5
      <3>7. QED  BY <1>9, <3>3, <3>4, <3>6
    <2>2. CASE ~ Covers(id)
      <3>1. FirstEvents(id) = CurEvents  BY <2>2 DEF FirstEvents
      <3>2. \A f \in CurEvents : /\ f.topic \in Topic /\ Published(f.topic)
                                 /\ f.rev = cur[f.topic].rev /\ f.data = cur[f.topic].data
        BY DEF CurEvents
      <3>3. \A f \in CurEvents : Known(f)  BY <1>7, <3>2 DEF Known, Published
      <3>4. ASSUME NEW t \in Topic, Published(t)
            PROVE  \E f \in CurEvents : f.topic = t /\ f.rev = cur[t].rev
        <4>1. PICK f : f = [topic |-> t, rev |-> cur[t].rev, data |-> cur[t].data]  OBVIOUS
        <4>2. f.topic = t /\ f.rev = cur[t].rev  BY <4>1
        <4>3. f \in CurEvents  BY ONLY <3>4, <4>1 DEF CurEvents
        <4>4. QED  BY <4>2, <4>3
      <3>5. \A f \in CurEvents : seen[c][f.topic].rev <= f.rev  BY <3>2 DEF SeenBehind
      <3>6. \A t \in Topic : seen[c][t].rev = 0 \/ seen[c][t].rev < ring[1].rev
        <4>1. id = 0 \/ ring[1].rev > id + 1  BY <1>7, <1>8, <2>2 DEF Covers
        <4> SUFFICES ASSUME NEW t \in Topic
                     PROVE  seen[c][t].rev = 0 \/ seen[c][t].rev < ring[1].rev
          OBVIOUS
        <4>2. seen[c][t].rev \in Nat /\ id \in Nat /\ ring[1].rev \in Nat  BY <1>7, <1>8
        <4>3. seen[c][t].rev <= id \/ seen[c][t].rev < ring[1].rev  BY <1>10
        <4>4. QED  BY ONLY <4>1, <4>2, <4>3
      <3>7. \A f \in CurEvents : \A t \in Topic : seen[c][t].rev <= f.rev \/ seen[c][t].rev < ring[1].rev
        BY <1>9, <3>1, <3>6
      <3>8. QED  BY <3>1, <3>3, <3>4, <3>5, <3>7
    <2>3. QED  BY <2>1, <2>2
  <1>12. OutKnown'
    <2>1. \A k \in Client : \A f \in Elems(Out(k)') : Known(f)  BY <1>2, <1>11 DEF OutKnown
    <2>2. QED  BY <1>1, <2>1 DEF OutKnown, Known
  <1>13. \A t \in Topic : Published(t)' => Holds(c, t)' \/ Queued(c, t)'
    BY <1>1, <1>2, <1>11 DEF Holds, Queued, Published, Wanted
  <1>14. \A k \in Client \ {c}, t \in Topic : /\ Holds(k, t) => Holds(k, t)'
                                              /\ Queued(k, t) => Queued(k, t)'
    BY <1>1, <1>2 DEF Holds, Queued, Wanted
  <1>15. OpenCovered'
    BY <1>1, <1>13, <1>14 DEF OpenCovered, Published, TypeOK
  <1>16. OutCovered'  BY <1>1, <1>2, <1>13, <1>14 DEF OutCovered, Published
  <1>17. NothingSkipped'
    BY <1>1 DEF NothingSkipped, HasUpTo, Published, Wanted
  <1>18. SeenBehind' /\ SeenRolled'
    BY <1>1 DEF SeenBehind, SeenRolled, Rolled, Published
  <1>19. OutAhead'
    <2>1. \A k \in Client : \A f \in Elems(Out(k)') : seen[k][f.topic].rev <= f.rev
      BY <1>2, <1>11 DEF OutAhead
    <2>2. QED  BY <1>1, <2>1 DEF OutAhead
  <1>20. OutRolled'
    <2>1. \A k \in Client : \A f \in Elems(Out(k)') : Rolled(k, f.rev)
      BY <1>2, <1>11 DEF OutRolled, Rolled
    <2>2. QED  BY <1>1, <2>1 DEF OutRolled, Rolled
  <1>21. QED
    BY <1>3, <1>4, <1>5, <1>6, <1>12, <1>15, <1>16, <1>17, <1>18, <1>19, <1>20

(* A handler that returns leaves nothing behind.                           *)
LEMMA ReturnKeeps ==
    ASSUME FeedInv, NEW c \in Client, Return(c)
    PROVE  FeedInv'
  <1> USE DEF FeedInv
  <1>1. /\ Out(c)' = << >> /\ first'[c] = << >> /\ chan'[c] = << >>
        /\ \A k \in Client \ {c} : Out(k)' = Out(k) /\ first'[k] = first[k] /\ chan'[k] = chan[k]
    BY OutOfReturn
  <1>2. UNCHANGED <<rev, cur, ring, lastID, seen>> /\ conn' = conn \ {c} /\ subs' = subs \ {c}
    BY DEF Return, hubVars, clientVars
  <1>3. Elems(<< >>) = {} /\ IncreasingRevs(<< >>)  BY DEF Elems, IncreasingRevs
  <1>4. \A k \in Client : Elems(Out(k)') \subseteq Elems(Out(k)) /\ IncreasingRevs(Out(k)')
    BY <1>1, <1>3 DEF StreamOrdered
  <1>5. TypeOK'
    <2>1. Len(<< >>) = 0 /\ << >> \in Seq(Event)  BY EmptySeq
    <2>2. chan' \in [Client -> Seq(Event)] /\ first' \in [Client -> Seq(Event)]
      BY <2>1 DEF Return, TypeOK
    <2>3. \A k \in Client : Len(chan'[k]) <= ChanCap
      BY <2>1, HubAssumption DEF Return, TypeOK
    <2>4. QED  BY <1>2, <2>2, <2>3 DEF TypeOK
  <1>6. RingWindow' /\ CurOnRing' /\ IdleEmpty' /\ StreamOrdered' /\ NothingSkipped' /\ SeenBehind' /\ SeenRolled'
    <2>1. RingWindow' /\ CurOnRing'  BY <1>2 DEF RingWindow, CurOnRing, Known, Published
    <2>2. IdleEmpty'  BY <1>1, <1>2 DEF IdleEmpty
    <2>3. StreamOrdered'  BY <1>4 DEF StreamOrdered
    <2>4. NothingSkipped'  BY <1>2 DEF NothingSkipped, HasUpTo, Published, Wanted
    <2>5. SeenBehind' /\ SeenRolled'  BY <1>2 DEF SeenBehind, SeenRolled, Rolled, Published
    <2>6. QED  BY <2>1, <2>2, <2>3, <2>4, <2>5
  <1>7. OutKnown' /\ OutAhead' /\ OutRolled'
    <2>1. \A k \in Client : \A f \in Elems(Out(k)') : Known(f) /\ seen[k][f.topic].rev <= f.rev /\ Rolled(k, f.rev)
      BY <1>4 DEF OutKnown, OutAhead, OutRolled
    <2>2. OutKnown'  BY <1>2, <2>1 DEF OutKnown, Known
    <2>3. OutAhead'  BY <1>2, <2>1 DEF OutAhead
    <2>4. OutRolled'  BY <1>2, <2>1 DEF OutRolled, Rolled
    <2>5. QED  BY <2>2, <2>3, <2>4
  <1>8. \A k \in Client \ {c}, t \in Topic : /\ Holds(k, t) => Holds(k, t)'
                                             /\ Queued(k, t) => Queued(k, t)'
    BY <1>1, <1>2 DEF Holds, Queued, Wanted
  <1>9. OpenCovered'  BY <1>2, <1>8 DEF OpenCovered, Published, TypeOK
  <1>10. OutCovered'  BY <1>1, <1>2, <1>3, <1>8 DEF OutCovered, Published
  <1>11. QED  BY <1>5, <1>6, <1>7, <1>9, <1>10

(* A daemon just started, whose clock is past whatever clients remember.   *)
Started(start) ==
    /\ rev = start + 2 /\ cur = StartCur(start) /\ ring = StartRing(start)
    /\ TypeOK /\ subs = {} /\ conn = {}
    /\ first = [c \in Client |-> << >>] /\ chan = [c \in Client |-> << >>]
    /\ \A c \in Client : /\ lastID[c] <= start
                          /\ \A t \in Topic : seen[c][t].rev <= start
JustStarted == \E start \in Nat \ {0} : Started(start)

LEMMA StartKeeps == JustStarted => FeedInv
  <1> SUFFICES ASSUME NEW start \in Nat \ {0}, Started(start) PROVE FeedInv
    BY DEF JustStarted
  <1> USE HubAssumption DEF Started
  <1>1. \A c \in Client : Out(c) = << >> /\ Elems(Out(c)) = {}
    BY ConcatEmptySeq DEF Out, Elems
  <1>2. /\ Len(ring) = 2 /\ DOMAIN ring = 1 .. 2
        /\ ring[1] = [topic |-> Workers, rev |-> start + 1, data |-> Empty]
        /\ ring[2] = [topic |-> Quota, rev |-> start + 2, data |-> Empty]
    BY DEF StartRing
  <1>3. cur \in [Topic -> [rev : Nat, data : Payload]]
        /\ cur[Workers] = [rev |-> start + 1, data |-> Empty]
        /\ cur[Quota] = [rev |-> start + 2, data |-> Empty]
        /\ \A t \in Topic \ {Workers, Quota} : cur[t] = [rev |-> 0, data |-> Empty]
    BY DEF StartCur, Nothing, TypeOK
  <1>4. RingWindow
    <2>1. \A i \in 1 .. 2 : i = 1 \/ i = 2  OBVIOUS
    <2>2. QED  BY <1>2, <2>1 DEF RingWindow
  <1>5. Elems(ring) = {ring[1], ring[2]}
    <2>1. 1 .. 2 = {1, 2}  OBVIOUS
    <2>2. QED  BY <1>2, <2>1 DEF Elems
  <1>6. CurOnRing
    <2>1. \A t \in Topic : cur[t].rev <= rev  BY <1>3
    <2>2. \A t, u \in Topic : Published(t) /\ cur[t].rev = cur[u].rev => t = u
      BY <1>3 DEF Published
    <2>3. \A e \in Elems(ring) : Known(e)  BY <1>2, <1>3, <1>5 DEF Known
    <2>4. \A t \in Topic : cur[t].rev >= ring[1].rev =>
            \E e \in Elems(ring) : e.topic = t /\ e.rev = cur[t].rev
      BY <1>2, <1>3, <1>5
    <2>5. QED  BY <2>1, <2>2, <2>3, <2>4 DEF CurOnRing
  <1>7. IdleEmpty  BY DEF IdleEmpty
  <1>8. OutKnown /\ OutAhead /\ OutRolled /\ OpenCovered /\ OutCovered
    BY <1>1 DEF OutKnown, OutAhead, OutRolled, OpenCovered, OutCovered
  <1>9. StreamOrdered  BY <1>1 DEF StreamOrdered, IncreasingRevs
  <1>10. ASSUME NEW t \in Topic, Published(t)  PROVE cur[t].rev > start
    <2>1. t = Workers \/ t = Quota  BY <1>3, <1>10 DEF Published
    <2>2. CASE t = Workers  BY <1>3, <2>2
    <2>3. CASE t = Quota  BY <1>3, <2>3
    <2>4. QED  BY <2>1, <2>2, <2>3
  <1>11. \A c \in Client, t \in Topic : lastID[c] \in Nat /\ seen[c][t].rev \in Nat /\ cur[t].rev \in Nat
    BY DEF TypeOK
  <1>12. NothingSkipped
    <2>1. \A c \in Client : \A t \in Wanted(c) : t \in Topic  BY DEF Wanted
    <2>2. QED  BY <1>10, <1>11, <2>1 DEF NothingSkipped, HasUpTo
  <1>13. SeenBehind  BY <1>10, <1>11 DEF SeenBehind
  <1>14. SeenRolled  BY <1>2, <1>11 DEF SeenRolled, Rolled
  <1>15. QED
    BY <1>4, <1>6, <1>7, <1>8, <1>9, <1>12, <1>13, <1>14 DEF FeedInv

LEMMA StartKeepsNext == JustStarted' => FeedInv'
  BY StartKeeps, PTL

LEMMA InitFeed == Init => FeedInv
  <1> SUFFICES ASSUME Init PROVE FeedInv
    OBVIOUS
  <1>1. TypeOK  BY InitType
  <1>2. FirstStart \in Nat \ {0}  BY HubAssumption
  <1>3. \A c \in Client : lastID[c] <= FirstStart /\ \A t \in Topic : seen[c][t].rev <= FirstStart
    BY <1>2 DEF Init, Nothing
  <1>4. Started(FirstStart)  BY <1>1, <1>3 DEF Init, Started
  <1>5. QED  BY <1>2, <1>4, StartKeeps DEF JustStarted

(* The clients keep what they have across a restart; with the clock ahead  *)
(* it is all behind the new daemon's first revision.                       *)
LEMMA RestartKeeps ==
    ASSUME ClockAhead, FeedInv, Restart
    PROVE  FeedInv'
  <1>1. TypeOK /\ SeenBehind  BY DEF FeedInv
  <1>2. TypeOK'  BY <1>1, TypeInductive DEF Next
  <1>3. PICK start \in 1 .. (MaxRev - 2) :
          /\ start >= rev /\ rev' = start + 2
          /\ cur' = StartCur(start) /\ ring' = StartRing(start)
    BY DEF Restart
  <1>4. start \in Nat \ {0}  BY HubAssumption
  <1>5. \A c \in Client : /\ lastID'[c] <= start
                          /\ \A t \in Topic : seen'[c][t].rev <= start
    <2>1. lastID' = lastID /\ seen' = seen  BY DEF Restart, clientVars
    <2>2. \A c \in Client : lastID[c] <= start /\ \A t \in Topic : seen[c][t].rev <= start
      <3>1. rev \in Nat /\ \A c \in Client : lastID[c] \in Nat /\ \A t \in Topic : seen[c][t].rev \in Nat
        BY <1>1 DEF TypeOK
      <3>2. QED  BY <1>1, <1>3, <1>4, <3>1 DEF SeenBehind
    <2>3. QED  BY <2>1, <2>2
  <1>6. Started(start)'  BY <1>2, <1>3, <1>5 DEF Restart, Started
  <1>7. QED  BY <1>4, <1>6, StartKeepsNext DEF JustStarted

LEMMA FeedInductive == ClockAhead /\ FeedInv /\ [Next]_vars => FeedInv'
  <1> SUFFICES ASSUME ClockAhead, FeedInv, [Next]_vars PROVE FeedInv'
    OBVIOUS
  <1>1. ASSUME NEW t \in Topic, NEW d \in Payload, Refresh(t, d)  PROVE FeedInv'
    BY <1>1, RefreshKeeps
  <1>2. ASSUME NEW t \in Topic, NEW d \in Payload, Announce(t, d)  PROVE FeedInv'
    BY <1>2, AnnounceKeeps
  <1>3. ASSUME NEW c \in Client, Connect(c)  PROVE FeedInv'
    BY <1>3, ConnectKeeps
  <1>4. ASSUME NEW c \in Client, SendFirst(c) \/ SendNext(c)  PROVE FeedInv'
    BY <1>4, SendKeeps
  <1>5. ASSUME NEW c \in Client, EndOfStream(c) \/ Lose(c)  PROVE FeedInv'
    <2>1. Return(c)  BY <1>5 DEF EndOfStream, Lose
    <2>2. QED  BY <2>1, ReturnKeeps
  <1>6. ASSUME Restart  PROVE FeedInv'
    BY <1>6, RestartKeeps
  <1>7. ASSUME UNCHANGED vars  PROVE FeedInv'
    <2> USE <1>7 DEF vars
    <2>1. TypeOK'  BY DEF FeedInv, TypeOK
    <2>2. RingWindow' /\ CurOnRing'  BY DEF FeedInv, RingWindow, CurOnRing, Known, Published
    <2>3. IdleEmpty' /\ OutKnown' /\ StreamOrdered'
      BY DEF FeedInv, IdleEmpty, OutKnown, Known, Out, StreamOrdered
    <2>4. OpenCovered' /\ OutCovered'
      BY DEF FeedInv, OpenCovered, OutCovered, Holds, Queued, Published, Wanted, Out
    <2>5. NothingSkipped'  BY DEF FeedInv, NothingSkipped, HasUpTo, Published, Wanted
    <2>6. SeenBehind' /\ OutAhead'  BY DEF FeedInv, SeenBehind, OutAhead, Published, Out
    <2>7. SeenRolled' /\ OutRolled'  BY DEF FeedInv, SeenRolled, OutRolled, Rolled, Out
    <2>8. QED
      BY <2>1, <2>2, <2>3, <2>4, <2>5, <2>6, <2>7 DEF FeedInv
  <1>8. QED
    BY <1>1, <1>2, <1>3, <1>4, <1>5, <1>6, <1>7 DEF Next

(***************************************************************************)
(* The feed's safety, for any clients, topics, ring and buffer sizes, on a *)
(* daemon whose wall clock does not step back across a restart.            *)
(***************************************************************************)
(* The inductive invariant holds: the ring and the values agree, and every *)
(* open stream has sent or queued each current value.                      *)
THEOREM FeedInvAlways == ClockAhead => (Spec => []FeedInv)
  <1> SUFFICES ASSUME ClockAhead PROVE Spec => []FeedInv
    OBVIOUS
  <1>1. Init => FeedInv  BY InitFeed
  <1>2. FeedInv /\ [Next]_vars => FeedInv'  BY FeedInductive
  <1>3. QED  BY <1>1, <1>2, PTL DEF Spec

(* A client never comes back with a Last-Event-ID below which it lacks a   *)
(* current value: the replay of subscribe skips nothing.                   *)
THEOREM NothingSkippedAlways == ClockAhead => (Spec => []NothingSkipped)
  <1>1. FeedInv => NothingSkipped  BY DEF FeedInv
  <1>2. QED  BY <1>1, FeedInvAlways, PTL

(* The ids on a stream never go backwards.                                 *)
THEOREM StreamOrderedAlways == ClockAhead => (Spec => []StreamOrdered)
  <1>1. FeedInv => StreamOrdered  BY DEF FeedInv
  <1>2. QED  BY <1>1, FeedInvAlways, PTL

-----------------------------------------------------------------------------
(* A client's view of a topic, and what a step does to it.                 *)
LEMMA SendSteps ==
    ASSUME FeedInv, NEW c \in Client, SendFirst(c) \/ SendNext(c)
    PROVE  /\ UNCHANGED <<rev, cur>>
           /\ \/ UNCHANGED <<lastID, seen>>
              \/ \E e \in Event :
                   /\ e.topic \in Wanted(c)
                   /\ lastID' = [lastID EXCEPT ![c] = e.rev]
                   /\ seen' = [seen EXCEPT ![c][e.topic] = [rev |-> e.rev, data |-> e.data]]
                   /\ seen[c][e.topic].rev <= e.rev /\ e.rev <= cur[e.topic].rev
  <1>1. TypeOK  BY DEF FeedInv
  <1>2. Out(c) # << >> /\ Receive(c, Head(Out(c))) /\ UNCHANGED <<rev, cur>>
    BY <1>1, OutOfSend DEF hubVars
  <1>3. PICK e : e = Head(Out(c))  OBVIOUS
  <1>4. Out(c) \in Seq(Event)  BY <1>1, OutType
  <1>5. e \in Event /\ e \in Elems(Out(c))
    <2>1. e = Out(c)[1] /\ 1 \in 1 .. Len(Out(c))  BY <1>2, <1>3, <1>4, HeadTailProperties, EmptySeq
    <2>2. QED  BY <1>4, <2>1, ElemsDef
  <1>6. seen[c][e.topic].rev <= e.rev /\ e.rev <= cur[e.topic].rev
    BY <1>5 DEF FeedInv, OutAhead, OutKnown, Known
  <1>7. Receive(c, e)  BY <1>2, <1>3
  <1>8. QED  BY <1>2, <1>5, <1>6, <1>7 DEF Receive, clientVars

LEMMA OthersKeepView ==
    ASSUME NEW c \in Client, Connect(c) \/ EndOfStream(c) \/ Lose(c)
    PROVE  UNCHANGED <<rev, cur, lastID, seen>>
  BY DEF Connect, EndOfStream, Lose, Return, hubVars, clientVars

(* No reconnect, replay or restart shows a client an older value of a      *)
(* topic than one it had seen.                                             *)
THEOREM ViewGoesForward == ClockAhead => (Spec => ViewNeverGoesBack)
  <1> SUFFICES ASSUME ClockAhead PROVE Spec => ViewNeverGoesBack
    OBVIOUS
  <1> DEFINE Forward == \A c \in Client, t \in Topic : seen'[c][t].rev >= seen[c][t].rev
  <1>1. FeedInv /\ [Next]_vars => [Forward]_seen
    <2> SUFFICES ASSUME FeedInv, [Next]_vars, seen' # seen PROVE Forward
      OBVIOUS
    <2>1. TypeOK  BY DEF FeedInv
    <2>2. PICK c \in Client : SendFirst(c) \/ SendNext(c)
      BY OthersKeepView DEF Next, vars, Refresh, Announce, Restart, clientVars
    <2>3. PICK e \in Event :
            /\ seen' = [seen EXCEPT ![c][e.topic] = [rev |-> e.rev, data |-> e.data]]
            /\ seen[c][e.topic].rev <= e.rev
      BY <2>2, SendSteps
    <2>4. ASSUME NEW k \in Client, NEW t \in Topic  PROVE seen'[k][t].rev >= seen[k][t].rev
      <3>1. e.topic \in Topic /\ e.rev \in Nat /\ seen[k][t].rev \in Nat
            /\ seen \in [Client -> [Topic -> [rev : Nat, data : Payload]]]
        BY <2>1 DEF TypeOK, Event
      <3>2. CASE k = c /\ t = e.topic  BY <2>3, <3>1, <3>2
      <3>3. CASE ~(k = c /\ t = e.topic)
        <4>1. seen'[k][t] = seen[k][t]  BY <2>3, <3>1, <3>3
        <4>2. QED  BY <3>1, <4>1
      <3>4. QED  BY <3>2, <3>3
    <2>5. QED  BY <2>4
  <1>2. QED  BY <1>1, FeedInvAlways, PTL DEF Spec, ViewNeverGoesBack

(* The hub and its streams implement the feed's promise.                   *)
LEMMA InitShowsFeed == Init => FeedView!Init
  <1> SUFFICES ASSUME Init PROVE FeedView!Init
    OBVIOUS
  <1>1. FirstStart \in Nat  BY HubAssumption
  <1>2. \A t \in Topic : cur[t].rev \in 0 .. rev  BY <1>1 DEF Init, StartCur, Nothing
  <1>3. QED  BY <1>1, <1>2 DEF Init, Nothing, FeedView!Init

LEMMA StepShowsFeed ==
    ASSUME ClockAhead, FeedInv, FeedInv', [Next]_vars
    PROVE  [FeedView!Next]_(FeedView!feedVars)
  <1>1. TypeOK /\ TypeOK'  BY DEF FeedInv
  <1>2. ASSUME UNCHANGED <<rev, cur, lastID, seen>>  PROVE UNCHANGED FeedView!feedVars
    BY <1>2 DEF FeedView!feedVars
  <1>3. ASSUME NEW t \in Topic, NEW d \in Payload, Refresh(t, d)  PROVE UNCHANGED FeedView!feedVars
    <2>1. UNCHANGED <<rev, lastID, seen>> /\ cur' = [cur EXCEPT ![t].data = d]
      BY <1>3 DEF Refresh, clientVars
    <2>2. \A u \in Topic : cur'[u].rev = cur[u].rev  BY <1>1, <2>1 DEF TypeOK
    <2>3. QED  BY <2>1, <2>2 DEF FeedView!feedVars
  <1>4. ASSUME NEW t \in Topic, NEW d \in Payload, Announce(t, d)  PROVE FeedView!Announce(t)
    <2>1. UNCHANGED <<lastID, seen>> /\ rev' = rev + 1 /\ rev \in Nat
          /\ cur' = [cur EXCEPT ![t] = [rev |-> rev + 1, data |-> d]]
      BY <1>1, <1>4 DEF Announce, clientVars, TypeOK
    <2>2. [u \in Topic |-> cur'[u].rev] = [[u \in Topic |-> cur[u].rev] EXCEPT ![t] = rev']
      BY <1>1, <2>1 DEF TypeOK
    <2>3. QED  BY <2>1, <2>2 DEF FeedView!Announce
  <1>5. ASSUME NEW c \in Client, SendFirst(c) \/ SendNext(c)
        PROVE  [FeedView!Next]_(FeedView!feedVars)
    <2>1. UNCHANGED <<rev, cur>>  BY <1>5, SendSteps DEF FeedInv
    <2>2. CASE UNCHANGED <<lastID, seen>>  BY <1>2, <2>1, <2>2
    <2>3. CASE \E e \in Event :
                 /\ e.topic \in Wanted(c)
                 /\ lastID' = [lastID EXCEPT ![c] = e.rev]
                 /\ seen' = [seen EXCEPT ![c][e.topic] = [rev |-> e.rev, data |-> e.data]]
                 /\ seen[c][e.topic].rev <= e.rev /\ e.rev <= cur[e.topic].rev
      <3>1. PICK e \in Event :
              /\ e.topic \in Wanted(c)
              /\ lastID' = [lastID EXCEPT ![c] = e.rev]
              /\ seen' = [seen EXCEPT ![c][e.topic] = [rev |-> e.rev, data |-> e.data]]
              /\ seen[c][e.topic].rev <= e.rev /\ e.rev <= cur[e.topic].rev
        BY <2>3
      <3>2. e.topic \in Topic /\ e.rev \in Nat
            /\ seen \in [Client -> [Topic -> [rev : Nat, data : Payload]]]
        BY <1>1 DEF TypeOK, Event
      <3>3. seen'[c][e.topic].rev = e.rev  BY <3>1, <3>2
      <3>4. [k \in Client |-> [t \in Topic |-> seen'[k][t].rev]]
              = [[k \in Client |-> [t \in Topic |-> seen[k][t].rev]] EXCEPT ![c][e.topic] = e.rev]
        BY <3>1, <3>2
      <3>5. lastID'[c] = e.rev  BY <1>1, <3>1 DEF TypeOK
      <3>6. FeedView!KeepsPromise(c)'
        <4>1. \A t \in Wanted(c) : HasUpTo(c, t, lastID[c])'
          BY DEF FeedInv, NothingSkipped, Wanted
        <4>2. \A t \in Wanted(c) : t \in Topic  BY HubAssumption DEF Wanted
        <4>3. QED  BY <4>1, <4>2 DEF HasUpTo, Published, FeedView!KeepsPromise, FeedView!Wanted, Wanted
      <3>7. FeedView!Show(c, e.topic)
        BY <2>1, <3>1, <3>2, <3>3, <3>4, <3>5, <3>6 DEF FeedView!Show, FeedView!Wanted, Wanted
      <3>8. QED  BY <3>2, <3>7 DEF FeedView!Next
    <2>4. QED  BY <1>5, <2>2, <2>3, SendSteps
  <1>6. ASSUME Restart  PROVE FeedView!Renew
    <2>1. PICK start \in 1 .. (MaxRev - 2) :
            start >= rev /\ rev' = start + 2 /\ cur' = StartCur(start)
      BY <1>6 DEF Restart
    <2>2. start \in Nat /\ rev \in Nat  BY <1>1, HubAssumption DEF TypeOK
    <2>3. \A t \in Topic : cur'[t].rev \in {0} \cup (rev + 1) .. rev'
      BY <2>1, <2>2 DEF StartCur, Nothing
    <2>4. QED  BY <1>6, <2>1, <2>2, <2>3 DEF FeedView!Renew, Restart, clientVars
  <1>7. CASE UNCHANGED vars  BY <1>2, <1>7 DEF vars
  <1>8. CASE Next
    BY <1>2, <1>3, <1>4, <1>5, <1>6, <1>8, OthersKeepView DEF Next, FeedView!Next
  <1>9. QED  BY <1>7, <1>8

(* The hub does what the feed promises: with the ring, the channels, lost  *)
(* connections and restarts left out, its steps are Feed's or nothing.     *)
THEOREM HubImplementsFeed == ClockAhead => (Spec => ImplementsFeed)
  <1> SUFFICES ASSUME ClockAhead PROVE Spec => ImplementsFeed
    OBVIOUS
  <1>1. Init => FeedView!Init  BY InitShowsFeed
  <1>2. FeedInv /\ FeedInv' /\ [Next]_vars => [FeedView!Next]_(FeedView!feedVars)
    BY StepShowsFeed
  <1>3. QED  BY <1>1, <1>2, FeedInvAlways, PTL DEF Spec, ImplementsFeed, FeedView!Spec
=============================================================================
