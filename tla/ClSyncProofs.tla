----------------------------- MODULE ClSyncProofs -----------------------------
(***************************************************************************)
(* What ClSync guarantees for every number of processes, issues and        *)
(* entries: PostedInv and, of runs whose commands do not overlap and are   *)
(* not killed, UndisturbedInv are inductive.                               *)
(***************************************************************************)
EXTENDS ClSync, SequenceTheorems, TLAPS

(* A checklist's fields, and the copies commands make of it.               *)
LEMMA Fields ==
    ASSUME NEW c \in Checklist
    PROVE  /\ c.log \in Seq(Nat) /\ c.synced \in Nat /\ Len(c.log) \in Nat
           /\ c.synced <= Len(c.log) /\ c.store \in Store \cup {None} /\ c # None /\ c # Torn
           /\ \A i \in 1 .. Len(c.log) : c.log[i] \in Nat
  BY ClAssumption DEF Checklist

LEMMA Appended ==
    ASSUME NEW c \in Checklist, NEW e \in Nat
    PROVE  LET d == [c EXCEPT !.log = Append(@, e)] IN
             /\ d \in Checklist /\ d.synced = c.synced /\ d.store = c.store
             /\ d.log = Append(c.log, e) /\ Len(d.log) = Len(c.log) + 1
             /\ \A i \in 1 .. Len(c.log) : d.log[i] = c.log[i]
  <1>1. /\ Append(c.log, e) \in Seq(Nat) /\ Len(Append(c.log, e)) = Len(c.log) + 1
        /\ \A i \in 1 .. Len(c.log) : Append(c.log, e)[i] = c.log[i]
    BY Fields, AppendProperties
  <1>2. /\ c.synced \in Nat /\ Len(c.log) \in Nat
        /\ c.synced <= Len(c.log)
    BY Fields
  <1>3. c.synced <= Len(Append(c.log, e))  BY <1>1, <1>2
  <1>4. QED  BY <1>1, <1>3 DEF Checklist

LEMMA Pendings ==
    ASSUME NEW c \in Checklist
    PROVE  /\ Pending(c) \in Seq(Nat) /\ Len(Pending(c)) = Len(c.log) - c.synced
           /\ \A i \in 1 .. Len(Pending(c)) : Pending(c)[i] = c.log[c.synced + i]
  <1> DEFINE m == c.synced + 1  n == Len(c.log)  rest == SubSeq(c.log, m, n)
  <1>1. c.log \in Seq(Nat) /\ c.synced \in Nat /\ n \in Nat /\ c.synced <= n
    BY Fields
  <1>2. m \in Int /\ n \in Int /\ \A i \in m .. n : c.log[i] \in Nat  BY <1>1
  <1> HIDE DEF m, n
  <1>3. /\ rest \in Seq(Nat) /\ Len(rest) = IF m <= n THEN n - m + 1 ELSE 0
        /\ \A i \in 1 .. n - m + 1 : rest[i] = c.log[m + i - 1]
    BY <1>2, SubSeqProperties
  <1>4. Pending(c) = rest  BY DEF Pending, m, n
  <1> HIDE DEF rest
  <1>5. Len(rest) = n - c.synced  BY <1>1, <1>3 DEF m, n
  <1>6. \A i \in 1 .. Len(rest) : rest[i] = c.log[c.synced + i]
    <2>1. \A i \in 1 .. Len(rest) : m + i - 1 = c.synced + i /\ i \in 1 .. n - m + 1
      BY <1>1, <1>5 DEF m
    <2>2. FALSE \in BOOLEAN  OBVIOUS
    <2>3. QED  BY <1>3, <2>1, <2>2, Zenon
  <1>7. QED  BY <1>3, <1>4, <1>5, <1>6 DEF n

(* A checklist of which n entries are marked by hand, under a comment.     *)
HandMarked(c, n, u) == [c EXCEPT !.synced = n, !.store.comment = u]
LEMMA MarkedByHand ==
    ASSUME NEW c \in Checklist, c.store \in Store, NEW u \in Url,
           NEW n \in Nat, n <= Len(c.log)
    PROVE  /\ HandMarked(c, n, u) \in Checklist
           /\ HandMarked(c, n, u).log = c.log /\ HandMarked(c, n, u).synced = n
           /\ HandMarked(c, n, u).store.comment = u
  <1> DEFINE st == [c.store EXCEPT !.comment = u]  d == HandMarked(c, n, u)
  <1>1. c \in [log : Seq(Nat), synced : Nat, store : Store \cup {None}]
    BY DEF Checklist
  <1>2. d = [c EXCEPT !.synced = n, !.store = st]  BY <1>1 DEF HandMarked
  <1>3. st \in Store /\ st.comment = u  BY DEF Store
  <1> HIDE DEF d, st
  <1>4. d \in [log : Seq(Nat), synced : Nat, store : Store \cup {None}]
        /\ d.log = c.log /\ d.synced = n /\ d.store = st
    BY <1>1, <1>2, <1>3
  <1>5. d \in Checklist  BY <1>4 DEF Checklist
  <1>6. QED  BY <1>3, <1>4, <1>5 DEF d

(* What a person posts of what was printed: the next n entries.            *)
LEMMA PrintedEntries ==
    ASSUME NEW c \in Checklist, NEW n \in 0 .. Len(Pending(c))
    PROVE  Range(SubSeq(Pending(c), 1, n)) = {c.log[c.synced + i] : i \in 1 .. n}
  <1>1. /\ Pending(c) \in Seq(Nat) /\ Len(Pending(c)) \in Nat
        /\ \A i \in 1 .. Len(Pending(c)) : Pending(c)[i] = c.log[c.synced + i]
    BY Pendings
  <1> DEFINE s == SubSeq(Pending(c), 1, n)
  <1>2. /\ s \in Seq(Nat) /\ Len(s) = IF 1 <= n THEN n - 1 + 1 ELSE 0
        /\ \A i \in 1 .. n - 1 + 1 : s[i] = Pending(c)[1 + i - 1]
    <2>1. n \in Nat /\ 1 \in 1 .. Len(Pending(c)) + 1  BY <1>1
    <2>2. QED  BY <1>1, <2>1, SubSeqProperties
  <1>3. DOMAIN s = 1 .. n /\ \A i \in 1 .. n : s[i] = c.log[c.synced + i]
    BY <1>1, <1>2
  <1> HIDE DEF s
  <1>4. Range(s) = {c.log[c.synced + i] : i \in 1 .. n}  BY <1>3 DEF Range
  <1>5. QED  BY <1>4 DEF s

-----------------------------------------------------------------------------
LEMMA OverlapsOn ==
    ASSUME NEW p \in Proc, NEW c, NEW step, Begins(p, c, step), ~overlapped'
    PROVE  ~overlapped
  BY DEF Begins

LEMMA BooleanOverlap ==
    ASSUME TypeOK, NEW p \in Proc, NEW c, NEW step, Begins(p, c, step)
    PROVE  overlapped \in BOOLEAN /\ overlapped' \in BOOLEAN
  <1>1. overlapped' = \/ overlapped \/ \E q \in Proc \ {p} : pc[q] # "idle"
                      \/ step = "managed" /\ paper # None
    BY DEF Begins
  <1>2. overlapped \in BOOLEAN  BY DEF TypeOK
  <1>3. QED  BY <1>1, <1>2, Zenon

(* The parts of a command, each on its own.  A command begins with a copy  *)
(* of which as much is posted as it counts, and as was printed.            *)
LEMMA BeginStep ==
    ASSUME PostedInv, NEW p \in Proc, NEW c \in Checklist, NEW step \in {"managed", "truncate"},
           Begins(p, c, step), step = "managed" => c.store # None /\ c.store.url \in Github,
           UNCHANGED <<posted, failed>>, entries' \in Nat, paper' \in {paper, None},
           managed' \subseteq Github, byHand' \in BOOLEAN, byHand => byHand',
           ~(overlapped' /\ byHand') => FirstPosted(c, c.synced),
           ~overlapped' /\ paper' # None => FirstPosted(c, paper.next)
    PROVE  PostedInv'
  <1> USE DEF PostedInv
  <1>1. /\ pc[p] = "idle" /\ at' = at /\ file' = file /\ broken' = broken
        /\ pc' = [pc EXCEPT ![p] = step] /\ cl' = [cl EXCEPT ![p] = c]
    BY DEF Begins
  <1>2. /\ pc'[p] = step /\ cl'[p] = c /\ at[p] = 0
        /\ \A q \in Proc \ {p} : pc'[q] = pc[q] /\ cl'[q] = cl[q]
    BY <1>1 DEF TypeOK
  <1>3. overlapped' \in BOOLEAN /\ (overlapped => overlapped')
        /\ (~overlapped' => \A q \in Proc \ {p} : pc[q] = "idle")
    <2>1. overlapped' \in BOOLEAN  BY BooleanOverlap
    <2>2. QED  BY <2>1, Zenon DEF Begins
  <1>4. TypeOK'
    <2>1. cl' \in [Proc -> Checklist \cup {None}]
          /\ pc' \in [Proc -> {"idle", "managed", "post", "truncate", "write"}]
      BY <1>1 DEF TypeOK
    <2>2. \A q \in Proc : /\ pc'[q] = "idle" <=> cl'[q] = None
                          /\ pc'[q] # "post" => at[q] = 0
                          /\ pc'[q] \in {"managed", "post"} =>
                               cl'[q].store # None /\ cl'[q].store.url \in Github
      BY <1>2, Fields DEF TypeOK
    <2>3. {byHand', overlapped', failed', broken'} \subseteq BOOLEAN
      BY <1>1, <1>3 DEF TypeOK
    <2>4. QED  BY <1>1, <2>1, <2>2, <2>3 DEF TypeOK
  <1>5. OneAtATime'  BY <1>2, <1>3 DEF OneAtATime
  <1>6. SyncedWasPosted'  BY <1>1, <1>3 DEF SyncedWasPosted, Loadable, FirstPosted
  <1>7. CopiesWerePosted'
    <2> SUFFICES ASSUME ~(overlapped' /\ byHand'), NEW q \in Proc, pc'[q] # "idle"
                 PROVE  FirstPosted(cl[q], cl[q].synced + at[q])'
      BY <1>1 DEF CopiesWerePosted
    <2>1. CASE q = p
      <3>1. c.synced + at[p] = c.synced  BY <1>2, Fields
      <3>2. QED  BY <1>1, <1>2, <2>1, <3>1 DEF FirstPosted
    <2>2. CASE q # p
      <3>1. ~(overlapped /\ byHand)  BY <1>3
      <3>2. FirstPosted(cl[q], cl[q].synced + at[q])  BY <1>2, <2>2, <3>1 DEF CopiesWerePosted
      <3>3. QED  BY <1>1, <1>2, <2>2, <3>2 DEF FirstPosted
    <2>3. QED  BY <2>1, <2>2
  <1>8. PaperWasPosted'
    <2> SUFFICES ASSUME ~overlapped', paper' # None PROVE PaperWasPosted'
      BY DEF PaperWasPosted
    <2>1. ~overlapped /\ paper' = paper  BY <1>3
    <2>2. Loadable => FirstPosted(file, paper.next)  BY <2>1 DEF PaperWasPosted
    <2>3. \A q \in Proc \ {p} : pc'[q] = "idle"  BY <1>2, <1>3
    <2>4. FirstPosted(c, paper.next)  OBVIOUS
    <2>5. QED  BY <1>1, <1>2, <2>1, <2>2, <2>3, <2>4 DEF PaperWasPosted, Loadable, FirstPosted
  <1>9. QED  BY <1>4, <1>5, <1>6, <1>7, <1>8

(* A command goes on with a copy that has the same log, of which it knows  *)
(* n more entries to be posted than it counts.                             *)
LEMMA WorkStep ==
    ASSUME PostedInv, NEW p \in Proc, pc[p] # "idle", NEW c \in Checklist, c.log = cl[p].log,
           NEW n \in Nat, NEW step \in {"post", "truncate"},
           step # "post" => n = 0, step = "post" => c.store # None /\ c.store.url \in Github,
           pc' = [pc EXCEPT ![p] = step], cl' = [cl EXCEPT ![p] = c], at' = [at EXCEPT ![p] = n],
           posted \subseteq posted', posted' \subseteq Nat, managed' \subseteq Github,
           {failed', broken'} \subseteq BOOLEAN,
           UNCHANGED <<file, paper, entries, byHand, overlapped>>,
           ~(overlapped /\ byHand) => FirstPosted(c, c.synced + n)'
    PROVE  PostedInv'
  <1> USE DEF PostedInv
  <1>1. /\ pc'[p] = step /\ cl'[p] = c /\ at'[p] = n
        /\ \A q \in Proc \ {p} : pc'[q] = pc[q] /\ cl'[q] = cl[q] /\ at'[q] = at[q]
    BY DEF TypeOK
  <1>2. TypeOK'
    <2>1. cl' \in [Proc -> Checklist \cup {None}] /\ at' \in [Proc -> Nat]
          /\ pc' \in [Proc -> {"idle", "managed", "post", "truncate", "write"}]
      BY DEF TypeOK
    <2>2. \A q \in Proc : /\ pc'[q] = "idle" <=> cl'[q] = None
                          /\ pc'[q] # "post" => at'[q] = 0
                          /\ pc'[q] \in {"managed", "post"} =>
                               cl'[q].store # None /\ cl'[q].store.url \in Github
      BY <1>1, Fields DEF TypeOK
    <2>3. {byHand', overlapped', failed', broken'} \subseteq BOOLEAN  BY DEF TypeOK
    <2>4. QED  BY <2>1, <2>2, <2>3 DEF TypeOK
  <1>3. OneAtATime'  BY <1>1 DEF OneAtATime
  <1>4. SyncedWasPosted'  BY DEF SyncedWasPosted, Loadable, FirstPosted
  <1>5. CopiesWerePosted'
    <2> SUFFICES ASSUME ~(overlapped /\ byHand), NEW q \in Proc, pc'[q] # "idle"
                 PROVE  FirstPosted(cl[q], cl[q].synced + at[q])'
      BY DEF CopiesWerePosted
    <2>1. CASE q = p  BY <1>1, <2>1 DEF FirstPosted
    <2>2. CASE q # p
      <3>1. FirstPosted(cl[q], cl[q].synced + at[q])  BY <1>1, <2>2 DEF CopiesWerePosted
      <3>2. QED  BY <1>1, <2>2, <3>1 DEF FirstPosted
    <2>3. QED  BY <2>1, <2>2
  <1>6. PaperWasPosted'
    <2> SUFFICES ASSUME ~overlapped, paper # None PROVE PaperWasPosted'
      BY DEF PaperWasPosted
    <2>1. Loadable => FirstPosted(file, paper.next)  BY DEF PaperWasPosted
    <2>2. FirstPosted(cl[p], paper.next)  BY DEF PaperWasPosted
    <2>3. \A q \in Proc \ {p} : pc'[q] # "idle" => FirstPosted(cl[q], paper.next)
      BY <1>1 DEF PaperWasPosted
    <2>4. Loadable' => FirstPosted(file, paper.next)'  BY <2>1 DEF Loadable, FirstPosted
    <2>5. FirstPosted(cl[p], paper.next)'  BY <1>1, <2>2 DEF FirstPosted
    <2>6. \A q \in Proc \ {p} : pc'[q] # "idle" => FirstPosted(cl[q], paper.next)'
      BY <1>1, <2>3 DEF FirstPosted
    <2>7. QED  BY <2>4, <2>5, <2>6 DEF PaperWasPosted
  <1>7. QED  BY <1>2, <1>3, <1>4, <1>5, <1>6

-----------------------------------------------------------------------------
(* The commands that begin.                                                *)
LEMMA Grown ==
    ASSUME NEW c \in Checklist, NEW e \in Nat, NEW n \in Nat, FirstPosted(c, n)
    PROVE  FirstPosted([c EXCEPT !.log = Append(@, e)], n)
  <1>1. Len(c.log) \in Nat  BY Fields
  <1>2. \A i \in 1 .. n : i \in 1 .. Len(c.log)  BY <1>1 DEF FirstPosted
  <1>3. QED  BY <1>1, <1>2, Appended DEF FirstPosted

LEMMA LoadedIsChecklist ==
    ASSUME TypeOK, Loadable
    PROVE  file \in Checklist /\ (file.store # None => file.store \in Store)
  <1>1. file \in Checklist  BY DEF TypeOK, Loadable
  <1>2. QED  BY <1>1, Fields

LEMMA Stored ==
    ASSUME NEW u \in Url
    PROVE  ParseStore(u) \in Store /\ ParseStore(u) # None
  <1>1. ParseStore(u) \in Store  BY DEF ParseStore, Store
  <1>2. QED  BY <1>1, ClAssumption

LEMMA WritesStep ==
    ASSUME PostedInv, NEW p \in Proc, NEW c \in Checklist, Writes(p, c), managed' \subseteq Github,
           ~(overlapped /\ byHand) => FirstPosted(c, c.synced),
           ~overlapped /\ paper # None => FirstPosted(c, paper.next)
    PROVE  PostedInv'
  <1> DEFINE d == [c EXCEPT !.log = Append(@, entries + 1)]
  <1>1. TypeOK /\ entries + 1 \in Nat  BY DEF PostedInv, TypeOK
  <1>2. d \in Checklist /\ d.synced = c.synced /\ c.synced \in Nat  BY <1>1, Appended, Fields
  <1>3. /\ Begins(p, d, "truncate") /\ entries' = entries + 1
        /\ UNCHANGED <<paper, posted, byHand, failed>>
    BY DEF Writes
  <1>4. ~overlapped' => ~overlapped  BY <1>3, OverlapsOn
  <1>5. ~(overlapped /\ byHand) => FirstPosted(d, d.synced)  BY <1>1, <1>2, Grown
  <1>6. ~overlapped /\ paper # None => FirstPosted(d, paper.next)
    <2>1. paper # None => paper.next \in Nat  BY <1>1 DEF TypeOK, Printed
    <2>2. QED  BY <1>1, <2>1, Grown
  <1>7. byHand' \in BOOLEAN /\ (byHand => byHand')  BY <1>1, <1>3 DEF TypeOK
  <1>8. overlapped \in BOOLEAN /\ overlapped' \in BOOLEAN  BY <1>1, <1>3, BooleanOverlap
  <1>9. ~(overlapped' /\ byHand') => FirstPosted(d, d.synced)
    BY <1>3, <1>5, <1>8, <1>4
  <1>10. ~overlapped' /\ paper' # None => FirstPosted(d, paper.next)  BY <1>3, <1>4, <1>6
  <1> HIDE DEF d
  <1>11. QED  BY <1>1, <1>2, <1>3, <1>7, <1>9, <1>10, BeginStep

LEMMA NewStep ==
    ASSUME PostedInv, NEW p \in Proc, New(p)  PROVE PostedInv'
  <1>1. PICK s \in {None} \cup {ParseStore(u) : u \in Url} :
          Writes(p, [log |-> << >>, synced |-> 0, store |-> s])
    BY DEF New
  <1> DEFINE c == [log |-> << >>, synced |-> 0, store |-> s]
  <1>2. c \in Checklist /\ FirstPosted(c, c.synced)
    BY Stored DEF Checklist, FirstPosted
  <1>3. managed' \subseteq Github  BY DEF New
  <1>4. paper = None  BY DEF New, PostedInv, TypeOK
  <1>5. QED  BY <1>1, <1>2, <1>3, <1>4, WritesStep

LEMMA EditStep ==
    ASSUME PostedInv, NEW p \in Proc, Edit(p)  PROVE PostedInv'
  <1>1. Loadable /\ Writes(p, file) /\ managed' = managed  BY DEF Edit
  <1>2. file \in Checklist  BY <1>1, LoadedIsChecklist DEF PostedInv
  <1>3. managed' \subseteq Github  BY <1>1 DEF PostedInv, TypeOK
  <1>4. ~(overlapped /\ byHand) => FirstPosted(file, file.synced)
    BY <1>1 DEF PostedInv, SyncedWasPosted
  <1>5. ~overlapped /\ paper # None => FirstPosted(file, paper.next)
    BY <1>1 DEF PostedInv, PaperWasPosted
  <1>6. QED  BY <1>1, <1>2, <1>3, <1>4, <1>5, WritesStep

LEMMA SetStoreStep ==
    ASSUME PostedInv, NEW p \in Proc, NEW u \in Url, SetStore(p, u)  PROVE PostedInv'
  <1> DEFINE c == [file EXCEPT !.store = ParseStore(u)]
  <1>1. Loadable /\ Writes(p, c) /\ managed' = managed \ {u}  BY DEF SetStore
  <1>2. file \in Checklist  BY <1>1, LoadedIsChecklist DEF PostedInv
  <1>3. c \in Checklist /\ c.log = file.log /\ c.synced = file.synced
    BY <1>2, Stored DEF Checklist
  <1>4. managed' \subseteq Github  BY <1>1 DEF PostedInv, TypeOK
  <1> HIDE DEF c
  <1>5. ~(overlapped /\ byHand) => FirstPosted(c, c.synced)
    BY <1>1, <1>3 DEF PostedInv, SyncedWasPosted, FirstPosted
  <1>6. ~overlapped /\ paper # None => FirstPosted(c, paper.next)
    BY <1>1, <1>3 DEF PostedInv, PaperWasPosted, FirstPosted
  <1>7. QED  BY <1>1, <1>3, <1>4, <1>5, <1>6, WritesStep

LEMMA SyncGithubStep ==
    ASSUME PostedInv, NEW p \in Proc, SyncGithub(p)  PROVE PostedInv'
  <1>1. /\ Loadable /\ file.store # None /\ file.store.url \in Github
        /\ Begins(p, file, "managed")
        /\ UNCHANGED <<paper, entries, posted, managed, byHand, failed>>
    BY DEF SyncGithub, issueVars
  <1>2. TypeOK /\ file \in Checklist  BY <1>1, LoadedIsChecklist DEF PostedInv
  <1>3. ~overlapped' => ~overlapped  BY <1>1, OverlapsOn
  <1>4. ~(overlapped' /\ byHand') => FirstPosted(file, file.synced)
    BY <1>1, <1>3, <1>2, BooleanOverlap DEF PostedInv, SyncedWasPosted
  <1>5. ~overlapped' /\ paper' # None => FirstPosted(file, paper.next)
    BY <1>1, <1>3 DEF PostedInv, PaperWasPosted
  <1>6. entries' \in Nat /\ managed' \subseteq Github /\ byHand' \in BOOLEAN
    BY <1>1, <1>2 DEF TypeOK
  <1>7. QED  BY <1>1, <1>2, <1>4, <1>5, <1>6, BeginStep

LEMMA SyncedStep ==
    ASSUME PostedInv, NEW p \in Proc, Synced(p)  PROVE PostedInv'
  <1> DEFINE c == HandMarked(file, paper.next, paper.url)
  <1>1. /\ Loadable /\ file.store # None /\ paper # None /\ Begins(p, c, "truncate")
        /\ paper.next <= Len(file.log) /\ paper' = None /\ byHand' = TRUE
        /\ UNCHANGED <<entries, posted, managed, failed>>
    BY DEF Synced, HandMarked, issueVars
  <1>2. /\ TypeOK /\ file \in Checklist /\ file.store \in Store
    BY <1>1, LoadedIsChecklist DEF PostedInv
  <1>3. paper.next \in Nat /\ paper.url \in Url  BY <1>1, <1>2 DEF TypeOK, Printed
  <1>4. c \in Checklist /\ c.log = file.log /\ c.synced = paper.next
    BY <1>1, <1>2, <1>3, MarkedByHand
  <1> HIDE DEF c
  <1>5. ~overlapped' => FirstPosted(c, c.synced)
    <2>1. ~overlapped' => ~overlapped  BY <1>1, OverlapsOn
    <2>2. QED  BY <1>1, <1>4, <2>1 DEF PostedInv, PaperWasPosted, FirstPosted
  <1>6. entries' \in Nat /\ managed' \subseteq Github  BY <1>1, <1>2 DEF TypeOK
  <1>7. QED  BY <1>1, <1>4, <1>5, <1>6, BeginStep

LEMMA Offsets ==
    ASSUME NEW s \in Nat, NEW n \in Nat, NEW l \in Nat, s + n <= l
    PROVE  /\ \A i \in 1 .. n : s + i \in 1 .. l
           /\ \A i \in 1 .. s + n : i <= s \/ (i - s \in 1 .. n /\ s + (i - s) = i)
  OBVIOUS

LEMMA NextIndex ==
    ASSUME NEW s \in Nat, NEW n \in Nat, NEW i \in 1 .. s + n + 1
    PROVE  i \in 1 .. s + n \/ i = s + n + 1
  OBVIOUS

LEMMA NextOffset ==
    ASSUME NEW s \in Nat, NEW n \in Nat, NEW l \in Nat, n < l - s
    PROVE  n + 1 \in 1 .. l - s /\ s + (n + 1) = s + n + 1 /\ s + n + 1 \in 1 .. l
  OBVIOUS

(* sync to Jira: what is printed and posted follows what counts as pushed. *)
LEMMA PrintedPosted ==
    ASSUME NEW c \in Checklist, NEW n \in 0 .. Len(Pending(c)), posted \subseteq Nat,
           posted' = posted \cup Range(SubSeq(Pending(c), 1, n))
    PROVE  /\ posted \subseteq posted' /\ posted' \subseteq Nat
           /\ FirstPosted(c, c.synced) => FirstPosted(c, c.synced + n)'
  <1>1. /\ c.log \in Seq(Nat) /\ c.synced \in Nat /\ Len(c.log) \in Nat /\ n \in Nat
        /\ c.synced + n <= Len(c.log)
    BY Fields, Pendings
  <1>2. posted' = posted \cup {c.log[c.synced + i] : i \in 1 .. n}  BY PrintedEntries
  <1>3. ASSUME FirstPosted(c, c.synced), NEW i \in 1 .. c.synced + n
        PROVE  c.log[i] \in posted'
    <2>1. CASE i <= c.synced  BY <1>1, <1>2, <1>3, <2>1 DEF FirstPosted
    <2>2. CASE ~(i <= c.synced)
      <3>1. i - c.synced \in 1 .. n /\ c.synced + (i - c.synced) = i
        BY <1>1, <2>2, Offsets
      <3>2. QED  BY <1>2, <3>1
    <2>3. QED  BY <2>1, <2>2
  <1>4. \A i \in 1 .. n : c.log[c.synced + i] \in Nat
    <2>1. \A i \in 1 .. n : c.synced + i \in 1 .. Len(c.log)  BY <1>1, Offsets
    <2>2. \A i \in 1 .. Len(c.log) : c.log[i] \in Nat  BY <1>1
    <2>3. QED  BY <2>1, <2>2
  <1>5. QED  BY <1>1, <1>2, <1>3, <1>4 DEF FirstPosted

LEMMA SyncJiraStep ==
    ASSUME PostedInv, NEW p \in Proc, SyncJira(p)  PROVE PostedInv'
  <1>1. PICK n \in 0 .. Len(Pending(file)) :
          /\ posted' = posted \cup Range(SubSeq(Pending(file), 1, n))
          /\ \/ /\ n = Len(Pending(file)) /\ failed' = failed
                /\ paper' = [url |-> file.store.url, next |-> Len(file.log)]
             \/ paper' = None /\ failed' = TRUE
    BY DEF SyncJira
  <1>2. /\ Loadable /\ file.store # None /\ Begins(p, None, "idle")
        /\ UNCHANGED <<file, at, broken, entries, managed, byHand>>
    BY DEF SyncJira, Begins
  <1>3. TypeOK /\ file \in Checklist /\ file.store.url \in Url
    BY <1>2, LoadedIsChecklist DEF PostedInv, Store
  <1>4. pc' = pc /\ cl' = cl /\ pc[p] = "idle"
    <2>1. pc[p] = "idle" /\ cl[p] = None
      BY <1>2, <1>3 DEF Begins, TypeOK
    <2>2. QED  BY <1>2, <1>3, <2>1 DEF Begins, TypeOK
  <1>5. overlapped' \in BOOLEAN /\ (~overlapped' => ~overlapped)
    BY <1>2, <1>3, BooleanOverlap, OverlapsOn
  <1>6. ~overlapped' => \A q \in Proc : pc'[q] = "idle"
    <2>1. ~overlapped' => \A q \in Proc \ {p} : pc[q] = "idle"  BY <1>2 DEF Begins
    <2>2. QED  BY <1>4, <2>1
  <1>7. /\ posted \subseteq posted' /\ posted' \subseteq Nat
        /\ FirstPosted(file, file.synced) => FirstPosted(file, file.synced + n)'
    <2>1. ASSUME NEW c \in Checklist, c = file
          PROVE  /\ posted \subseteq posted' /\ posted' \subseteq Nat
                 /\ FirstPosted(c, c.synced) => FirstPosted(c, c.synced + n)'
      BY <1>1, <1>3, <2>1, PrintedPosted DEF TypeOK
    <2>2. QED  BY <1>2, <1>3, <2>1
  <1>8. TypeOK'
    <2>1. paper' \in Printed \cup {None} /\ file # None
      BY <1>1, <1>2, <1>3, Fields DEF Printed, Loadable
    <2>2. failed' \in BOOLEAN  BY <1>1, <1>3 DEF TypeOK
    <2>3. QED  BY <1>2, <1>3, <1>4, <1>5, <1>7, <2>1, <2>2 DEF TypeOK
  <1>9. OneAtATime'  BY <1>6 DEF OneAtATime
  <1>10. SyncedWasPosted'
    BY <1>2, <1>3, <1>5, <1>7 DEF PostedInv, SyncedWasPosted, Loadable, FirstPosted
  <1>11. CopiesWerePosted'
    BY <1>2, <1>3, <1>4, <1>5, <1>7 DEF PostedInv, CopiesWerePosted, FirstPosted
  <1>12. PaperWasPosted'
    <2> SUFFICES ASSUME ~overlapped', paper' # None PROVE FirstPosted(file, paper.next)'
      BY <1>6 DEF PaperWasPosted
    <2>1. n = Len(Pending(file)) /\ paper'.next = Len(file.log)  BY <1>1
    <2>2. file.synced + n = Len(file.log)  BY <1>3, <2>1, Fields, Pendings
    <2>3. FirstPosted(file, file.synced)  BY <1>2, <1>5 DEF PostedInv, SyncedWasPosted
    <2>4. QED  BY <1>2, <1>7, <2>1, <2>2, <2>3 DEF FirstPosted
  <1>13. QED  BY <1>8, <1>9, <1>10, <1>11, <1>12 DEF PostedInv

-----------------------------------------------------------------------------
(* A sync to GitHub.                                                       *)
LEMMA Working ==
    ASSUME PostedInv, NEW p \in Proc, pc[p] # "idle"
    PROVE  /\ cl[p] \in Checklist /\ at[p] \in Nat
           /\ pc[p] \in {"managed", "post"} =>
                  cl[p].store \in Store /\ cl[p].store # None /\ cl[p].store.url \in Github
           /\ pc[p] # "post" => at[p] = 0
           /\ ~(overlapped /\ byHand) => FirstPosted(cl[p], cl[p].synced + at[p])
  <1>1. cl[p] \in Checklist  BY DEF PostedInv, TypeOK
  <1>2. QED  BY <1>1, Fields DEF PostedInv, TypeOK, CopiesWerePosted

(* A call that fails leaves what was posted so far.                        *)
LEMMA FailsStep ==
    ASSUME PostedInv, NEW p \in Proc, pc[p] \in {"managed", "post"},
           Fails(p, TRUE) \/ Fails(p, FALSE), posted \subseteq posted', posted' \subseteq Nat,
           managed' \subseteq Github, UNCHANGED <<file, paper, entries, byHand, overlapped>>
    PROVE  PostedInv'
  <1>1. /\ cl[p] \in Checklist /\ at[p] \in Nat
        /\ ~(overlapped /\ byHand) => FirstPosted(cl[p], cl[p].synced + at[p])
    BY Working
  <1> SUFFICES ASSUME NEW c \in Checklist, c = cl[p]  PROVE PostedInv'
    BY <1>1
  <1>2. /\ pc' = [pc EXCEPT ![p] = "truncate"] /\ cl' = [cl EXCEPT ![p] = c]
        /\ at' = [at EXCEPT ![p] = 0] /\ failed' = TRUE
        /\ broken' = (broken \/ TRUE) \/ broken' = (broken \/ FALSE)
    BY DEF Fails, SaveToo, AsFar, PostedInv, TypeOK
  <1>3. {failed', broken'} \subseteq BOOLEAN
    <2>1. broken \in BOOLEAN  BY DEF PostedInv, TypeOK
    <2>2. broken' \in BOOLEAN  BY <1>2, <2>1
    <2>3. QED  BY <1>2, <2>2
  <1>4. ~(overlapped /\ byHand) => FirstPosted(c, c.synced + 0)'
    <2>1. /\ c.synced \in Nat /\ Len(c.log) \in Nat /\ c.synced <= Len(c.log)
          /\ c.synced + 0 = c.synced
      BY Fields
    <2>2. \A i \in 1 .. c.synced : i \in 1 .. c.synced + at[p]  BY <1>1, <2>1
    <2>3. ASSUME FirstPosted(c, c.synced + at[p])  PROVE FirstPosted(c, c.synced)'
      BY <2>1, <2>2, <2>3 DEF FirstPosted
    <2>4. QED  BY <1>1, <2>1, <2>3 DEF FirstPosted
  <1>5. pc[p] # "idle"  OBVIOUS
  <1>6. QED  BY <1>2, <1>3, <1>4, <1>5, WorkStep

LEMMA PatchManagedStep ==
    ASSUME PostedInv, NEW p \in Proc, PatchManaged(p)  PROVE PostedInv'
  <1>1. /\ pc[p] = "managed" /\ UNCHANGED <<file, paper, entries, posted, managed, byHand, overlapped>>
        /\ Works(p, cl[p], 0, "post") \/ Fails(p, FALSE)
    BY DEF PatchManaged, issueVars
  <1>2. posted' \subseteq Nat /\ managed' \subseteq Github  BY <1>1 DEF PostedInv, TypeOK
  <1>3. CASE Fails(p, FALSE)  BY <1>1, <1>2, <1>3, FailsStep
  <1>4. CASE Works(p, cl[p], 0, "post")
    <2>1. /\ cl[p] \in Checklist /\ cl[p].store # None /\ cl[p].store.url \in Github /\ at[p] = 0
          /\ ~(overlapped /\ byHand) => FirstPosted(cl[p], cl[p].synced + at[p])
      BY <1>1, Working
    <2> SUFFICES ASSUME NEW c \in Checklist, c = cl[p]  PROVE PostedInv'
      BY <2>1
    <2>2. /\ pc' = [pc EXCEPT ![p] = "post"] /\ cl' = [cl EXCEPT ![p] = c]
          /\ at' = [at EXCEPT ![p] = 0] /\ UNCHANGED <<failed, broken>>
      BY <1>4 DEF Works
    <2>3. {failed', broken'} \subseteq BOOLEAN  BY <2>2 DEF PostedInv, TypeOK
    <2>4. ~(overlapped /\ byHand) => FirstPosted(c, c.synced + 0)'
      BY <1>1, <2>1 DEF FirstPosted
    <2>5. pc[p] # "idle" /\ c.log = cl[p].log /\ c.store # None /\ c.store.url \in Github
      BY <1>1, <2>1
    <2>6. QED  BY <1>1, <1>2, <2>2, <2>3, <2>4, <2>5, WorkStep
  <1>5. QED  BY <1>1, <1>3, <1>4

LEMMA Commented ==
    ASSUME NEW c \in Checklist, c.store \in Store, NEW u \in Url
    PROVE  LET d == [c EXCEPT !.store.comment = u] IN
             /\ d \in Checklist /\ d.log = c.log /\ d.synced = c.synced
             /\ d.store \in Store /\ d.store # None
             /\ d.store.url = c.store.url /\ d.store.comment = u
  <1> DEFINE st == [c.store EXCEPT !.comment = u]  d == [c EXCEPT !.store.comment = u]
  <1>1. c \in [log : Seq(Nat), synced : Nat, store : Store \cup {None}]  BY DEF Checklist
  <1>2. d = [c EXCEPT !.store = st]  BY <1>1
  <1>3. st \in Store /\ st.url = c.store.url /\ st.comment = u  BY DEF Store
  <1> HIDE DEF st, d
  <1>4. /\ d \in [log : Seq(Nat), synced : Nat, store : Store \cup {None}]
        /\ d.log = c.log /\ d.synced = c.synced /\ d.store = st
    BY <1>1, <1>2, <1>3
  <1>5. d \in Checklist  BY <1>4, Fields DEF Checklist
  <1>6. st # None  BY <1>3, ClAssumption
  <1>7. QED  BY <1>3, <1>4, <1>5, <1>6 DEF d

LEMMA PostManagedStep ==
    ASSUME PostedInv, NEW p \in Proc, PostManaged(p)  PROVE PostedInv'
  <1> DEFINE u == cl[p].store.url  d == [cl[p] EXCEPT !.store.comment = u]
  <1>1. /\ pc[p] = "managed" /\ pc[p] # "idle"
        /\ UNCHANGED <<file, paper, entries, posted, byHand, overlapped>>
        /\ managed' \in {managed, managed \cup {u}}
        /\ Works(p, d, 0, "post") \/ Fails(p, TRUE) \/ Fails(p, FALSE)
    BY DEF PostManaged
  <1>2. /\ cl[p] \in Checklist /\ cl[p].store \in Store /\ u \in Github /\ at[p] = 0
        /\ ~(overlapped /\ byHand) => FirstPosted(cl[p], cl[p].synced + at[p])
    BY <1>1, Working
  <1>4. posted' \subseteq Nat /\ managed' \subseteq Github
    BY <1>1, <1>2 DEF PostedInv, TypeOK
  <1>5. CASE Fails(p, TRUE) \/ Fails(p, FALSE)  BY <1>1, <1>4, <1>5, FailsStep
  <1>6. CASE Works(p, d, 0, "post")
    <2>1. /\ d \in Checklist /\ d.log = cl[p].log /\ d.synced = cl[p].synced
          /\ d.store # None /\ d.store.url = u
      BY <1>2, Commented DEF Url
    <2> SUFFICES ASSUME NEW c \in Checklist, c = d  PROVE PostedInv'
      BY <2>1
    <2>2. /\ pc' = [pc EXCEPT ![p] = "post"] /\ cl' = [cl EXCEPT ![p] = c]
          /\ at' = [at EXCEPT ![p] = 0] /\ UNCHANGED <<failed, broken>>
      BY <1>6 DEF Works
    <2>3. {failed', broken'} \subseteq BOOLEAN  BY <2>2 DEF PostedInv, TypeOK
    <2> HIDE DEF d
    <2>4. ~(overlapped /\ byHand) => FirstPosted(c, c.synced + 0)'
      BY <1>1, <1>2, <2>1 DEF FirstPosted
    <2>5. c.log = cl[p].log /\ c.store # None /\ c.store.url \in Github  BY <1>2, <2>1
    <2>6. QED  BY <1>1, <1>4, <2>2, <2>3, <2>4, <2>5, WorkStep
  <1>7. QED  BY <1>1, <1>5, <1>6

LEMMA PostEntryStep ==
    ASSUME PostedInv, NEW p \in Proc, PostEntry(p)  PROVE PostedInv'
  <1>1. /\ pc[p] = "post" /\ pc[p] # "idle" /\ at[p] < Len(Pending(cl[p]))
        /\ UNCHANGED <<file, paper, entries, managed, byHand, overlapped>>
        /\ \/ Works(p, cl[p], at[p] + 1, "post") /\ posted' = posted \cup {NextEntry(p)}
           \/ (Fails(p, TRUE) \/ Fails(p, FALSE)) /\ posted' \in {posted, posted \cup {NextEntry(p)}}
    BY DEF PostEntry
  <1>2. /\ cl[p] \in Checklist /\ cl[p].store # None /\ cl[p].store.url \in Github
        /\ at[p] \in Nat
        /\ ~(overlapped /\ byHand) => FirstPosted(cl[p], cl[p].synced + at[p])
    BY <1>1, Working
  <1> SUFFICES ASSUME NEW c \in Checklist, c = cl[p], NEW n \in Nat, n = at[p]  PROVE PostedInv'
    BY <1>2
  <1>3. /\ c.log \in Seq(Nat) /\ c.synced \in Nat /\ Len(c.log) \in Nat
        /\ c.synced + n + 1 \in 1 .. Len(c.log) /\ NextEntry(p) = c.log[c.synced + n + 1]
    <2>1. /\ c.log \in Seq(Nat) /\ c.synced \in Nat /\ Len(c.log) \in Nat
          /\ Len(Pending(c)) = Len(c.log) - c.synced
          /\ \A i \in 1 .. Len(Pending(c)) : Pending(c)[i] = c.log[c.synced + i]
      BY Fields, Pendings
    <2>2. n < Len(c.log) - c.synced  BY <1>1, <2>1
    <2>3. /\ n + 1 \in 1 .. Len(c.log) - c.synced /\ c.synced + (n + 1) = c.synced + n + 1
          /\ c.synced + n + 1 \in 1 .. Len(c.log)
      BY <2>1, <2>2, NextOffset
    <2>4. QED  BY <2>1, <2>3 DEF NextEntry
  <1>4. NextEntry(p) \in Nat
    <2>1. \A i \in 1 .. Len(c.log) : c.log[i] \in Nat  BY Fields
    <2>2. QED  BY <1>3, <2>1, Zenon
  <1>5. posted \subseteq posted' /\ posted' \subseteq Nat /\ managed' \subseteq Github
    BY <1>1, <1>4 DEF PostedInv, TypeOK
  <1>6. CASE Fails(p, TRUE) \/ Fails(p, FALSE)  BY <1>1, <1>5, <1>6, FailsStep
  <1>7. CASE Works(p, c, n + 1, "post") /\ posted' = posted \cup {NextEntry(p)}
    <2>1. /\ pc' = [pc EXCEPT ![p] = "post"] /\ cl' = [cl EXCEPT ![p] = c]
          /\ at' = [at EXCEPT ![p] = n + 1] /\ UNCHANGED <<failed, broken>>
      BY <1>7 DEF Works
    <2>2. {failed', broken'} \subseteq BOOLEAN  BY <2>1 DEF PostedInv, TypeOK
    <2>3. ASSUME FirstPosted(c, c.synced + n)  PROVE FirstPosted(c, c.synced + (n + 1))'
      <3>1. c.synced + (n + 1) = c.synced + n + 1  BY <1>3
      <3>2. \A i \in 1 .. c.synced + n + 1 : i \in 1 .. c.synced + n \/ i = c.synced + n + 1
        BY <1>3, NextIndex
      <3>3. \A i \in 1 .. c.synced + n + 1 : c.log[i] \in posted'
        BY <1>3, <1>7, <2>3, <3>2 DEF FirstPosted
      <3>4. c.synced + n + 1 <= Len(c.log)  BY <1>3
      <3>5. QED  BY <3>1, <3>3, <3>4 DEF FirstPosted
    <2>4. ~(overlapped /\ byHand) => FirstPosted(c, c.synced + (n + 1))'  BY <1>2, <2>3
    <2>5. c.log = cl[p].log /\ c.store # None /\ c.store.url \in Github /\ n + 1 \in Nat
      BY <1>2
    <2>6. QED  BY <1>1, <1>5, <2>1, <2>2, <2>4, <2>5, WorkStep
  <1>8. QED  BY <1>1, <1>6, <1>7

LEMMA AllPostedStep ==
    ASSUME PostedInv, NEW p \in Proc, AllPosted(p)  PROVE PostedInv'
  <1>1. /\ pc[p] = "post" /\ pc[p] # "idle" /\ at[p] = Len(Pending(cl[p]))
        /\ Works(p, [cl[p] EXCEPT !.synced = Len(cl[p].log)], 0, "truncate")
        /\ UNCHANGED <<file, paper, entries, posted, managed, byHand, overlapped>>
    BY DEF AllPosted, AllMarked, issueVars
  <1>2. /\ cl[p] \in Checklist
        /\ ~(overlapped /\ byHand) => FirstPosted(cl[p], cl[p].synced + at[p])
    BY <1>1, Working
  <1> SUFFICES ASSUME NEW c \in Checklist, c = cl[p]  PROVE PostedInv'
    BY <1>2
  <1> DEFINE d == [c EXCEPT !.synced = Len(c.log)]
  <1>3. c.synced + at[p] = Len(c.log) /\ Len(c.log) \in Nat  BY <1>1, Fields, Pendings
  <1>4. d \in Checklist /\ d.log = c.log /\ d.synced = Len(c.log)  BY <1>3 DEF Checklist
  <1>5. /\ pc' = [pc EXCEPT ![p] = "truncate"] /\ cl' = [cl EXCEPT ![p] = d]
        /\ at' = [at EXCEPT ![p] = 0] /\ UNCHANGED <<failed, broken>>
    BY <1>1 DEF Works
  <1> HIDE DEF d
  <1>6. {failed', broken'} \subseteq BOOLEAN /\ posted' \subseteq Nat /\ managed' \subseteq Github
    BY <1>1, <1>5 DEF PostedInv, TypeOK
  <1>7. ~(overlapped /\ byHand) => FirstPosted(d, d.synced + 0)'
    <2>1. d.synced + 0 = c.synced + at[p]  BY <1>3, <1>4
    <2>2. QED  BY <1>1, <1>2, <1>4, <2>1 DEF FirstPosted
  <1>8. d.log = cl[p].log /\ posted \subseteq posted'  BY <1>1, <1>4
  <1>9. QED  BY <1>1, <1>4, <1>5, <1>6, <1>7, <1>8, WorkStep

-----------------------------------------------------------------------------
(* The writing of the file, and a command that is killed.                  *)
LEMMA TruncateStep ==
    ASSUME PostedInv, NEW p \in Proc, Truncate(p)  PROVE PostedInv'
  <1>1. /\ pc[p] = "truncate" /\ file' = Torn /\ pc' = [pc EXCEPT ![p] = "write"]
        /\ UNCHANGED <<cl, at, paper, entries, posted, managed, byHand, overlapped, failed, broken>>
    BY DEF Truncate, issueVars, faultVars
  <1>2. pc' \in [Proc -> {"idle", "managed", "post", "truncate", "write"}]
        /\ pc'[p] = "write" /\ \A q \in Proc \ {p} : pc'[q] = pc[q]
    BY <1>1 DEF PostedInv, TypeOK
  <1>3. \A q \in Proc : pc'[q] = "idle" <=> pc[q] = "idle"  BY <1>1, <1>2
  <1>4. TypeOK'
    <2>1. \A q \in Proc : /\ pc'[q] = "idle" <=> cl[q] = None
                          /\ pc'[q] # "post" => at[q] = 0
                          /\ pc'[q] \in {"managed", "post"} =>
                               cl[q].store # None /\ cl[q].store.url \in Github
      BY <1>1, <1>2 DEF PostedInv, TypeOK
    <2>2. QED  BY <1>1, <1>2, <2>1, ClAssumption DEF PostedInv, TypeOK
  <1>5. OneAtATime'  BY <1>1, <1>3 DEF PostedInv, OneAtATime
  <1>6. ~Loadable'  BY <1>1 DEF Loadable
  <1>7. CopiesWerePosted'
    BY <1>1, <1>3 DEF PostedInv, CopiesWerePosted, FirstPosted
  <1>8. PaperWasPosted'
    BY <1>1, <1>3, <1>6 DEF PostedInv, PaperWasPosted, FirstPosted
  <1>9. QED  BY <1>4, <1>5, <1>6, <1>7, <1>8 DEF PostedInv, SyncedWasPosted

LEMMA EndsKeep ==
    ASSUME PostedInv, NEW p \in Proc, pc[p] # "idle", Ends(p), broken' \in BOOLEAN,
           file' \in {file, cl[p], Torn}, file' = None => file = None,
           UNCHANGED <<paper, entries, posted, managed, byHand, overlapped, failed>>
    PROVE  PostedInv'
  <1>1. /\ pc'[p] = "idle" /\ cl'[p] = None /\ at'[p] = 0
        /\ \A q \in Proc \ {p} : pc'[q] = pc[q] /\ cl'[q] = cl[q] /\ at'[q] = at[q]
    BY DEF PostedInv, TypeOK, Ends
  <1>2. cl[p] \in Checklist /\ cl[p].synced \in Nat /\ at[p] \in Nat
    BY Working, Fields
  <1>3. TypeOK'
    <2>1. /\ cl' \in [Proc -> Checklist \cup {None}] /\ at' \in [Proc -> Nat]
          /\ pc' \in [Proc -> {"idle", "managed", "post", "truncate", "write"}]
      BY DEF PostedInv, TypeOK, Ends
    <2>2. \A q \in Proc : /\ pc'[q] = "idle" <=> cl'[q] = None
                          /\ pc'[q] # "post" => at'[q] = 0
                          /\ pc'[q] \in {"managed", "post"} =>
                               cl'[q].store # None /\ cl'[q].store.url \in Github
      BY <1>1 DEF PostedInv, TypeOK
    <2>3. file' \in Checklist \cup {None, Torn}  BY <1>2 DEF PostedInv, TypeOK
    <2>4. QED  BY <2>1, <2>2, <2>3 DEF PostedInv, TypeOK
  <1>4. OneAtATime'  BY <1>1 DEF PostedInv, OneAtATime
  <1>5. SyncedWasPosted'
    <2> SUFFICES ASSUME ~(overlapped /\ byHand), Loadable' PROVE FirstPosted(file, file.synced)'
      BY DEF SyncedWasPosted
    <2>1. CASE file' = file
      BY <2>1 DEF PostedInv, SyncedWasPosted, Loadable, FirstPosted
    <2>2. CASE file' = cl[p]
      <3>1. FirstPosted(cl[p], cl[p].synced + at[p])  BY DEF PostedInv, CopiesWerePosted
      <3>2. cl[p].synced <= Len(cl[p].log)  BY <1>2, Fields
      <3>3. \A i \in 1 .. cl[p].synced : i \in 1 .. cl[p].synced + at[p]  BY <1>2
      <3>4. QED  BY <2>2, <3>1, <3>2, <3>3 DEF FirstPosted
    <2>3. CASE file' = Torn  BY <2>3 DEF Loadable
    <2>4. QED  BY <2>1, <2>2, <2>3
  <1>6. CopiesWerePosted'
    BY <1>1 DEF PostedInv, CopiesWerePosted, FirstPosted
  <1>7. PaperWasPosted'
    <2> SUFFICES ASSUME ~overlapped, paper # None PROVE PaperWasPosted'
      BY DEF PaperWasPosted
    <2>1. /\ Loadable => FirstPosted(file, paper.next)
          /\ \A q \in Proc : pc[q] # "idle" => FirstPosted(cl[q], paper.next)
      BY DEF PostedInv, PaperWasPosted
    <2>2. Loadable' => FirstPosted(file, paper.next)'  BY <2>1 DEF Loadable, FirstPosted
    <2>3. \A q \in Proc : pc'[q] # "idle" => FirstPosted(cl[q], paper.next)'
      BY <1>1, <2>1 DEF FirstPosted
    <2>4. QED  BY <2>2, <2>3 DEF PaperWasPosted
  <1>8. QED  BY <1>3, <1>4, <1>5, <1>6, <1>7 DEF PostedInv

LEMMA WriteStep ==
    ASSUME PostedInv, NEW p \in Proc, Write(p)  PROVE PostedInv'
  <1>1. pc[p] = "write" /\ pc[p] # "idle" /\ file' \in {cl[p], Torn} /\ Ends(p)
        /\ UNCHANGED <<paper, entries, posted, managed, byHand, overlapped, failed, broken>>
    BY DEF Write, issueVars, faultVars
  <1>2. file' # None  BY <1>1, Working, Fields, ClAssumption
  <1>3. broken' \in BOOLEAN  BY <1>1 DEF PostedInv, TypeOK
  <1>4. QED  BY <1>1, <1>2, <1>3, EndsKeep

LEMMA KillStep ==
    ASSUME PostedInv, NEW p \in Proc, Kill(p)  PROVE PostedInv'
  <1>1. pc[p] # "idle" /\ broken' = TRUE /\ Ends(p)
        /\ UNCHANGED <<file, paper, entries, posted, managed, byHand, overlapped, failed>>
    BY DEF Kill, issueVars
  <1>2. QED  BY <1>1, EndsKeep

LEMMA PostedInvInit == Init => PostedInv
  <1> SUFFICES ASSUME Init PROVE PostedInv
    OBVIOUS
  <1> USE DEF Init
  <1>1. TypeOK  BY DEF TypeOK
  <1>2. OneAtATime /\ SyncedWasPosted /\ CopiesWerePosted /\ PaperWasPosted
    BY DEF OneAtATime, SyncedWasPosted, Loadable, CopiesWerePosted, PaperWasPosted
  <1>3. QED  BY <1>1, <1>2 DEF PostedInv

LEMMA PostedInvStep == PostedInv /\ [Next]_vars => PostedInv'
  <1> SUFFICES ASSUME PostedInv, [Next]_vars PROVE PostedInv'
    OBVIOUS
  <1>1. CASE Next
    <2>1. PICK p \in Proc :
            \/ New(p) \/ Edit(p) \/ (\E u \in Url : SetStore(p, u))
            \/ SyncGithub(p) \/ SyncJira(p) \/ Synced(p)
            \/ PatchManaged(p) \/ PostManaged(p) \/ PostEntry(p) \/ AllPosted(p)
            \/ Truncate(p) \/ Write(p) \/ Kill(p)
      BY <1>1 DEF Next
    <2>2. QED
      BY <2>1, NewStep, EditStep, SetStoreStep, SyncGithubStep, SyncJiraStep, SyncedStep,
         PatchManagedStep, PostManagedStep, PostEntryStep, AllPostedStep, TruncateStep,
         WriteStep, KillStep
  <1>2. CASE UNCHANGED vars
    BY <1>2 DEF vars, procVars, issueVars, faultVars, PostedInv, TypeOK, OneAtATime,
                SyncedWasPosted, CopiesWerePosted, PaperWasPosted, Loadable, FirstPosted
  <1>3. QED  BY <1>1, <1>2

(* The inductive invariant of the first property.                          *)
THEOREM PostedInvAlways == Spec => []PostedInv
  BY PostedInvInit, PostedInvStep, PTL DEF Spec

(* What counts as pushed has been pushed: a call that fails, a command     *)
(* that is killed or overtaken loses edits, but never marks an entry as    *)
(* synced that no issue has, unless commands overlap and somebody marks    *)
(* entries by hand as well.                                                *)
THEOREM SyncedWasPostedAlways == Spec => []SyncedWasPosted
  <1>1. PostedInv => SyncedWasPosted  BY DEF PostedInv
  <1>2. QED  BY <1>1, PostedInvAlways, PTL

-----------------------------------------------------------------------------
(* Commands that do not overlap and are not killed.                        *)
Goes == UndisturbedFile' /\ \A q \in Proc : UndisturbedCopy(q)'

LEMMA LogIs ==
    ASSUME NEW c \in Checklist, NEW n \in Nat, c.log = [e \in 1 .. n |-> e]
    PROVE  Len(c.log) = n /\ \A i \in 1 .. n : c.log[i] = i
  <1>1. c.log \in Seq(Nat) /\ Len(c.log) \in Nat  BY Fields
  <1>2. DOMAIN c.log = 1 .. n  OBVIOUS
  <1>3. Len(c.log) = n  BY <1>1, <1>2
  <1>4. QED  BY <1>3

LEMMA LogGrows ==
    ASSUME NEW c \in Checklist, NEW n \in Nat, c.log = [e \in 1 .. n |-> e]
    PROVE  Append(c.log, n + 1) = [e \in 1 .. n + 1 |-> e]
  <1> DEFINE a == Append(c.log, n + 1)
  <1>1. Len(c.log) = n /\ c.log \in Seq(Nat) /\ \A i \in 1 .. n : c.log[i] = i
    BY LogIs, Fields
  <1>2. /\ a \in Seq(Nat) /\ Len(a) = n + 1
        /\ \A i \in 1 .. n : a[i] = i
        /\ a[n + 1] = n + 1
    BY <1>1, AppendProperties
  <1> HIDE DEF a
  <1>3. DOMAIN a = 1 .. n + 1 /\ \A i \in 1 .. n + 1 : a[i] = i  BY <1>2
  <1>4. a = [e \in 1 .. n + 1 |-> e]  BY <1>2, <1>3
  <1>5. QED  BY <1>4 DEF a

(* When a command begins undisturbed, no other is at work.                 *)
LEMMA BeginsAlone ==
    ASSUME PostedInv, UndisturbedInv, NEW p \in Proc, NEW c, NEW step, Begins(p, c, step),
           ~overlapped', ~broken'
    PROVE  /\ ~overlapped /\ ~broken /\ \A q \in Proc : pc[q] = "idle"
           /\ UndisturbedFile /\ file # Torn
           /\ step = "managed" => paper = None
  <1>1. /\ ~overlapped /\ ~broken /\ \A q \in Proc : pc[q] = "idle"
        /\ step = "managed" => paper = None
    BY DEF Begins
  <1>2. UndisturbedFile  BY <1>1 DEF UndisturbedInv
  <1>3. QED  BY <1>1, <1>2 DEF UndisturbedFile

LEMMA BeginsUndisturbed ==
    ASSUME PostedInv, UndisturbedInv, NEW p \in Proc, NEW c \in Checklist,
           NEW step \in {"managed", "truncate"}, Begins(p, c, step), ~overlapped', ~broken',
           paper' \in {paper, None}, Undisturbed(c, c.synced)'
    PROVE  Goes
  <1>1. /\ \A q \in Proc : pc[q] = "idle"
        /\ file # Torn
        /\ step = "managed" => paper' = None
    BY BeginsAlone
  <1>2. /\ pc' = [pc EXCEPT ![p] = step] /\ cl' = [cl EXCEPT ![p] = c] /\ at' = at /\ file' = file
    BY DEF Begins
  <1>3. /\ pc'[p] = step /\ cl'[p] = c /\ at'[p] = 0
        /\ \A q \in Proc \ {p} : pc'[q] = "idle"
    BY <1>1, <1>2 DEF PostedInv, TypeOK
  <1>4. UndisturbedFile'  BY <1>3 DEF UndisturbedFile
  <1>5. Undisturbed(cl[p], cl[p].synced + at[p])'
    <2>1. c.synced + 0 = c.synced  BY Fields
    <2>2. QED  BY <1>3, <2>1 DEF Undisturbed
  <1>6. UndisturbedCopy(p)'
    <2>1. pc'[p] \in {"managed", "post"} => paper' = None  BY <1>1, <1>3
    <2>2. file' # Torn /\ pc'[p] # "write"  BY <1>1, <1>2, <1>3
    <2>3. QED  BY <1>5, <2>1, <2>2 DEF UndisturbedCopy
  <1>7. \A q \in Proc \ {p} : UndisturbedCopy(q)'  BY <1>3 DEF UndisturbedCopy
  <1>8. QED  BY <1>4, <1>6, <1>7 DEF Goes

LEMMA WritesUndisturbed ==
    ASSUME PostedInv, UndisturbedInv, NEW p \in Proc, NEW c \in Checklist, Writes(p, c),
           ~overlapped', ~broken', c.log = [e \in 1 .. entries |-> e],
           c.store # None /\ c.store.comment = None => c.store.url \notin managed',
           ~failed => posted \subseteq 1 .. IF paper = None THEN c.synced ELSE paper.next
    PROVE  Goes
  <1>1. entries \in Nat  BY DEF PostedInv, TypeOK
  <1>2. /\ [c EXCEPT !.log = Append(@, entries + 1)] \in Checklist
        /\ Begins(p, [c EXCEPT !.log = Append(@, entries + 1)], "truncate")
        /\ entries' = entries + 1 /\ UNCHANGED <<paper, posted, byHand, failed>>
    BY <1>1, Appended DEF Writes
  <1> SUFFICES ASSUME NEW d \in Checklist, d = [c EXCEPT !.log = Append(@, entries + 1)]
               PROVE  Goes
    BY <1>2
  <1>3. /\ d.synced = c.synced /\ d.store = c.store
        /\ d.log = [e \in 1 .. entries + 1 |-> e]
    BY <1>1, Appended, LogGrows
  <1>4. Undisturbed(d, d.synced)'
    <2>1. d.log = [e \in 1 .. entries' |-> e]  BY <1>2, <1>3
    <2>2. d.store # None /\ d.store.comment = None => d.store.url \notin managed'  BY <1>3
    <2>3. ~failed' => posted' \subseteq 1 .. IF paper' = None THEN d.synced ELSE paper'.next
      BY <1>2, <1>3
    <2>4. QED  BY <2>1, <2>2, <2>3 DEF Undisturbed
  <1>5. paper' \in {paper, None}  BY <1>2
  <1>6. QED  BY <1>2, <1>3, <1>4, <1>5, BeginsUndisturbed

LEMMA NewUndisturbed ==
    ASSUME PostedInv, UndisturbedInv, NEW p \in Proc, New(p), ~overlapped', ~broken'
    PROVE  Goes
  <1>1. PICK s \in {None} \cup {ParseStore(u) : u \in Url} :
          Writes(p, [log |-> << >>, synced |-> 0, store |-> s])
    BY DEF New
  <1> DEFINE c == [log |-> << >>, synced |-> 0, store |-> s]
  <1>2. c \in Checklist  BY Stored DEF Checklist
  <1>3. file = None /\ managed' = {}  BY DEF New
  <1>4. entries = 0 /\ posted = {} /\ paper = None
    <2>1. UndisturbedFile /\ \A q \in Proc : pc[q] = "idle"  BY <1>1, BeginsAlone DEF Writes
    <2>2. QED  BY <1>3, <2>1 DEF UndisturbedFile
  <1>5. c.log = [e \in 1 .. entries |-> e]  BY <1>4
  <1> HIDE DEF c
  <1>6. QED  BY <1>1, <1>2, <1>3, <1>4, <1>5, WritesUndisturbed DEF c

(* The file a command loads undisturbed.                                   *)
LEMMA LoadsUndisturbed ==
    ASSUME PostedInv, UndisturbedInv, NEW p \in Proc, NEW c, NEW step, Begins(p, c, step),
           ~overlapped', ~broken', Loadable
    PROVE  file \in Checklist /\ Undisturbed(file, file.synced)
  <1>1. UndisturbedFile /\ \A q \in Proc : pc[q] = "idle"  BY BeginsAlone
  <1>2. QED  BY <1>1, LoadedIsChecklist DEF UndisturbedFile, Loadable, PostedInv

LEMMA EditUndisturbed ==
    ASSUME PostedInv, UndisturbedInv, NEW p \in Proc, Edit(p), ~overlapped', ~broken'
    PROVE  Goes
  <1>1. Loadable /\ Writes(p, file) /\ managed' = managed  BY DEF Edit
  <1>2. file \in Checklist /\ Undisturbed(file, file.synced)
    BY <1>1, LoadsUndisturbed DEF Writes
  <1>3. QED  BY <1>1, <1>2, WritesUndisturbed DEF Undisturbed

LEMMA SetStoreUndisturbed ==
    ASSUME PostedInv, UndisturbedInv, NEW p \in Proc, NEW u \in Url, SetStore(p, u),
           ~overlapped', ~broken'
    PROVE  Goes
  <1> DEFINE c == [file EXCEPT !.store = ParseStore(u)]
  <1>1. Loadable /\ Writes(p, c) /\ managed' = managed \ {u}  BY DEF SetStore
  <1>2. file \in Checklist /\ Undisturbed(file, file.synced)
    BY <1>1, LoadsUndisturbed DEF Writes
  <1>3. /\ c \in Checklist /\ c.log = file.log /\ c.synced = file.synced
        /\ c.store.url = u
    BY <1>2, Stored DEF Checklist, ParseStore
  <1> HIDE DEF c
  <1>4. QED  BY <1>1, <1>2, <1>3, WritesUndisturbed DEF Undisturbed

LEMMA SyncGithubUndisturbed ==
    ASSUME PostedInv, UndisturbedInv, NEW p \in Proc, SyncGithub(p), ~overlapped', ~broken'
    PROVE  Goes
  <1>1. Loadable /\ Begins(p, file, "managed")
        /\ UNCHANGED <<paper, entries, posted, managed, byHand, failed>>
    BY DEF SyncGithub, issueVars
  <1>2. file \in Checklist /\ Undisturbed(file, file.synced)  BY <1>1, LoadsUndisturbed
  <1> SUFFICES ASSUME NEW c \in Checklist, c = file  PROVE Goes
    BY <1>2
  <1>3. Undisturbed(c, c.synced)'  BY <1>1, <1>2 DEF Undisturbed
  <1>4. QED  BY <1>1, <1>3, BeginsUndisturbed

LEMMA SyncedUndisturbed ==
    ASSUME PostedInv, UndisturbedInv, NEW p \in Proc, Synced(p), ~overlapped', ~broken'
    PROVE  Goes
  <1> DEFINE d == HandMarked(file, paper.next, paper.url)
  <1>1. /\ Loadable /\ file.store # None /\ paper # None /\ Begins(p, d, "truncate")
        /\ paper.next <= Len(file.log) /\ paper' = None
        /\ UNCHANGED <<entries, posted, managed, failed>>
    BY DEF Synced, HandMarked, issueVars
  <1>2. file \in Checklist /\ Undisturbed(file, file.synced) /\ file.store \in Store
    BY <1>1, LoadsUndisturbed, Fields
  <1>3. paper.next \in Nat /\ paper.url \in Url  BY <1>1 DEF PostedInv, TypeOK, Printed
  <1>4. /\ d \in Checklist /\ d.log = file.log /\ d.synced = paper.next
        /\ d.store.comment = paper.url
    BY <1>1, <1>2, <1>3, MarkedByHand
  <1> HIDE DEF d
  <1> SUFFICES ASSUME NEW c \in Checklist, c = d  PROVE Goes
    BY <1>4
  <1>5. Undisturbed(c, c.synced)'
    <2>1. c.log = [e \in 1 .. entries' |-> e]  BY <1>1, <1>2, <1>4 DEF Undisturbed
    <2>2. c.store.comment # None  BY <1>3, <1>4, ClAssumption
    <2>3. ~failed' => posted' \subseteq 1 .. IF paper' = None THEN c.synced ELSE paper'.next
      BY <1>1, <1>2, <1>4 DEF Undisturbed
    <2>4. QED  BY <2>1, <2>2, <2>3 DEF Undisturbed
  <1>6. QED  BY <1>1, <1>5, BeginsUndisturbed

LEMMA SyncJiraUndisturbed ==
    ASSUME PostedInv, UndisturbedInv, NEW p \in Proc, SyncJira(p), ~overlapped', ~broken'
    PROVE  Goes
  <1>1. PICK n \in 0 .. Len(Pending(file)) :
          /\ posted' = posted \cup Range(SubSeq(Pending(file), 1, n))
          /\ \/ /\ n = Len(Pending(file)) /\ failed' = failed
                /\ paper' = [url |-> file.store.url, next |-> Len(file.log)]
             \/ paper' = None /\ failed' = TRUE
    BY DEF SyncJira
  <1>2. /\ Loadable /\ file.store # None /\ paper = None /\ Begins(p, None, "idle")
        /\ UNCHANGED <<file, entries, managed>>
    BY DEF SyncJira, Begins
  <1>3. /\ file \in Checklist /\ Undisturbed(file, file.synced)
        /\ \A q \in Proc : pc[q] = "idle"
    BY <1>2, LoadsUndisturbed, BeginsAlone
  <1>4. \A q \in Proc : pc'[q] = "idle"  BY <1>2, <1>3 DEF Begins, PostedInv, TypeOK
  <1> SUFFICES ASSUME NEW c \in Checklist, c = file  PROVE Goes
    BY <1>3
  <1>5. /\ entries \in Nat /\ Len(c.log) = entries /\ c.synced \in Nat /\ c.synced <= entries
        /\ \A i \in 1 .. entries : c.log[i] = i
    <2>1. entries \in Nat  BY DEF PostedInv, TypeOK
    <2>2. QED  BY <1>3, <2>1, LogIs, Fields DEF Undisturbed
  <1>6. ~failed' => posted' \subseteq 1 .. entries
    <2> SUFFICES ASSUME ~failed' PROVE posted' \subseteq 1 .. entries
      OBVIOUS
    <2>1. ~failed /\ n = Len(Pending(c))  BY <1>1
    <2>2. posted \subseteq 1 .. c.synced  BY <1>2, <1>3, <2>1 DEF Undisturbed
    <2>3. n = entries - c.synced  BY <1>5, <2>1, Pendings
    <2>4. posted' = posted \cup {c.log[c.synced + i] : i \in 1 .. n}
      BY <1>1, PrintedEntries
    <2>5. \A i \in 1 .. n : c.log[c.synced + i] \in 1 .. entries
      <3>1. ASSUME NEW i \in 1 .. n  PROVE c.synced + i \in 1 .. entries  BY <1>5, <2>3
      <3>2. QED  BY <1>5, <3>1
    <2>6. 1 .. c.synced \subseteq 1 .. entries  BY <1>5
    <2>7. QED  BY <2>2, <2>4, <2>5, <2>6
  <1>7. ~failed' => paper' # None /\ paper'.next = entries
    <2>1. file.store.url \in Url  BY <1>2, LoadedIsChecklist DEF PostedInv, Store
    <2>2. ~failed' => paper' = [url |-> file.store.url, next |-> entries]  BY <1>1, <1>5
    <2>3. [url |-> file.store.url, next |-> entries] \in Printed
      BY <1>5, <2>1 DEF Printed
    <2>4. QED  BY <2>2, <2>3, ClAssumption
  <1>8. Undisturbed(c, c.synced)'
    <2>1. c.log = [e \in 1 .. entries' |-> e]
          /\ (c.store # None /\ c.store.comment = None => c.store.url \notin managed')
      BY <1>2, <1>3 DEF Undisturbed
    <2>2. ~failed' => posted' \subseteq 1 .. IF paper' = None THEN c.synced ELSE paper'.next
      BY <1>6, <1>7
    <2>3. QED  BY <2>1, <2>2 DEF Undisturbed
  <1>9. UndisturbedFile'
    <2>1. file' = c /\ file' # Torn /\ file' # None  BY <1>2 DEF Loadable
    <2>2. QED  BY <1>8, <2>1 DEF UndisturbedFile, Undisturbed
  <1>10. \A q \in Proc : UndisturbedCopy(q)'  BY <1>4 DEF UndisturbedCopy
  <1>11. QED  BY <1>9, <1>10 DEF Goes

-----------------------------------------------------------------------------
(* A sync to GitHub, undisturbed.                                          *)
LEMMA WorksAlone ==
    ASSUME PostedInv, UndisturbedInv, NEW p \in Proc, pc[p] # "idle", ~overlapped, ~broken
    PROVE  /\ cl[p] \in Checklist /\ at[p] \in Nat
           /\ Undisturbed(cl[p], cl[p].synced + at[p])
           /\ UndisturbedCopy(p) /\ \A q \in Proc \ {p} : pc[q] = "idle"
           /\ pc[p] # "post" => at[p] = 0
           /\ pc[p] \in {"managed", "post"} => paper = None /\ file # Torn
  <1>1. UndisturbedCopy(p)  BY DEF UndisturbedInv
  <1>2. \A q \in Proc \ {p} : pc[q] = "idle"  BY DEF PostedInv, OneAtATime
  <1>3. QED  BY <1>1, <1>2, Working DEF UndisturbedCopy

LEMMA GoesOn ==
    ASSUME PostedInv, UndisturbedInv, NEW p \in Proc, pc[p] \in {"managed", "post"},
           ~overlapped, ~broken, NEW c \in Checklist, NEW n \in Nat,
           NEW step \in {"post", "truncate"},
           pc' = [pc EXCEPT ![p] = step], cl' = [cl EXCEPT ![p] = c], at' = [at EXCEPT ![p] = n],
           UNCHANGED <<file, paper>>, Undisturbed(c, c.synced + n)'
    PROVE  Goes
  <1>1. paper = None /\ file # Torn /\ \A q \in Proc \ {p} : pc[q] = "idle"  BY WorksAlone
  <1>2. /\ pc'[p] = step /\ cl'[p] = c /\ at'[p] = n
        /\ \A q \in Proc \ {p} : pc'[q] = "idle"
    BY <1>1 DEF PostedInv, TypeOK
  <1>3. UndisturbedFile'  BY <1>2 DEF UndisturbedFile
  <1>4. Undisturbed(cl[p], cl[p].synced + at[p])'  BY <1>2 DEF Undisturbed
  <1>5. UndisturbedCopy(p)'
    <2>1. file' # Torn /\ pc'[p] # "write" /\ paper' = None  BY <1>1, <1>2
    <2>2. QED  BY <1>4, <2>1 DEF UndisturbedCopy
  <1>6. \A q \in Proc \ {p} : UndisturbedCopy(q)'  BY <1>2 DEF UndisturbedCopy
  <1>7. QED  BY <1>3, <1>5, <1>6 DEF Goes

(* A call that fails: from then on nothing is said of what is posted.      *)
LEMMA FailsUndisturbed ==
    ASSUME PostedInv, UndisturbedInv, NEW p \in Proc, pc[p] \in {"managed", "post"},
           ~overlapped, ~broken', Fails(p, TRUE) \/ (Fails(p, FALSE) /\ managed' = managed),
           UNCHANGED <<file, paper, entries>>
    PROVE  Goes
  <1>1. /\ pc' = [pc EXCEPT ![p] = "truncate"] /\ cl' = [cl EXCEPT ![p] = cl[p]]
        /\ at' = [at EXCEPT ![p] = 0] /\ failed' = TRUE /\ managed' = managed /\ ~broken
    BY DEF Fails, SaveToo, AsFar, PostedInv, TypeOK
  <1>2. cl[p] \in Checklist /\ Undisturbed(cl[p], cl[p].synced + at[p])
    BY <1>1, WorksAlone
  <1> SUFFICES ASSUME NEW c \in Checklist, c = cl[p]  PROVE Goes
    BY <1>2
  <1>3. Undisturbed(c, c.synced + 0)'  BY <1>1, <1>2 DEF Undisturbed
  <1>4. QED  BY <1>1, <1>3, GoesOn

LEMMA PatchManagedUndisturbed ==
    ASSUME PostedInv, UndisturbedInv, NEW p \in Proc, PatchManaged(p), ~overlapped', ~broken'
    PROVE  Goes
  <1>1. /\ pc[p] = "managed" /\ ~overlapped
        /\ UNCHANGED <<file, paper, entries, posted, managed>>
        /\ Works(p, cl[p], 0, "post") \/ Fails(p, FALSE)
    BY DEF PatchManaged, issueVars
  <1>2. CASE Fails(p, FALSE)  BY <1>1, <1>2, FailsUndisturbed
  <1>3. CASE Works(p, cl[p], 0, "post")
    <2>1. /\ pc' = [pc EXCEPT ![p] = "post"] /\ cl' = [cl EXCEPT ![p] = cl[p]]
          /\ at' = [at EXCEPT ![p] = 0] /\ UNCHANGED <<failed, broken>>
      BY <1>3 DEF Works
    <2>2. cl[p] \in Checklist /\ Undisturbed(cl[p], cl[p].synced + at[p]) /\ at[p] = 0
      BY <1>1, <2>1, WorksAlone
    <2> SUFFICES ASSUME NEW c \in Checklist, c = cl[p]  PROVE Goes
      BY <2>2
    <2>3. Undisturbed(c, c.synced + 0)'  BY <1>1, <2>1, <2>2 DEF Undisturbed
    <2>4. QED  BY <1>1, <2>1, <2>3, GoesOn
  <1>4. QED  BY <1>1, <1>2, <1>3

LEMMA PostManagedUndisturbed ==
    ASSUME PostedInv, UndisturbedInv, NEW p \in Proc, PostManaged(p), ~overlapped', ~broken'
    PROVE  Goes
  <1> DEFINE u == cl[p].store.url  d == [cl[p] EXCEPT !.store.comment = u]
  <1>1. /\ pc[p] = "managed" /\ ~overlapped /\ UNCHANGED <<file, paper, entries, posted>>
        /\ \/ Works(p, d, 0, "post")
           \/ Fails(p, TRUE)
           \/ Fails(p, FALSE) /\ managed' = managed
    BY DEF PostManaged
  <1>2. CASE Fails(p, TRUE) \/ (Fails(p, FALSE) /\ managed' = managed)
    BY <1>1, <1>2, FailsUndisturbed
  <1>3. CASE Works(p, d, 0, "post")
    <2>1. /\ pc' = [pc EXCEPT ![p] = "post"] /\ cl' = [cl EXCEPT ![p] = d]
          /\ at' = [at EXCEPT ![p] = 0] /\ UNCHANGED <<failed, broken>>
      BY <1>3 DEF Works
    <2>2. /\ cl[p] \in Checklist /\ Undisturbed(cl[p], cl[p].synced + at[p]) /\ at[p] = 0
          /\ cl[p].store \in Store /\ u \in Github
      BY <1>1, <2>1, WorksAlone, Working
    <2>3. /\ d \in Checklist /\ d.log = cl[p].log /\ d.synced = cl[p].synced
          /\ d.store.comment = u /\ u # None
      BY <2>2, Commented, ClAssumption DEF Url
    <2> HIDE DEF d
    <2> SUFFICES ASSUME NEW c \in Checklist, c = d  PROVE Goes
      BY <2>3
    <2>4. Undisturbed(c, c.synced + 0)'
      <3>1. c.log = [e \in 1 .. entries' |-> e]  BY <1>1, <2>2, <2>3 DEF Undisturbed
      <3>2. ~failed' => posted' \subseteq 1 .. IF paper' = None THEN c.synced + 0 ELSE paper'.next
        BY <1>1, <2>1, <2>2, <2>3 DEF Undisturbed
      <3>3. c.store.comment # None  BY <2>3
      <3>4. QED  BY <3>1, <3>2, <3>3 DEF Undisturbed
    <2>5. QED  BY <1>1, <2>1, <2>4, GoesOn
  <1>4. QED  BY <1>1, <1>2, <1>3

(* The entry that is posted next, of a log that holds all that was written.*)
LEMMA NextOfAll ==
    ASSUME PostedInv, NEW p \in Proc, cl[p] \in Checklist, at[p] \in Nat,
           at[p] < Len(Pending(cl[p])), cl[p].log = [e \in 1 .. entries |-> e]
    PROVE  NextEntry(p) = cl[p].synced + at[p] + 1 /\ cl[p].synced \in Nat
  <1> SUFFICES ASSUME NEW c \in Checklist, c = cl[p], NEW n \in Nat, n = at[p],
                      NEW l \in Nat, l = entries
               PROVE  NextEntry(p) = c.synced + n + 1 /\ c.synced \in Nat
    BY DEF PostedInv, TypeOK
  <1>1. /\ Len(c.log) = l /\ \A i \in 1 .. l : c.log[i] = i
        /\ c.synced \in Nat /\ Len(Pending(c)) = l - c.synced
        /\ \A i \in 1 .. Len(Pending(c)) : Pending(c)[i] = c.log[c.synced + i]
    BY LogIs, Fields, Pendings
  <1>2. c.synced \in Nat /\ n < l - c.synced  BY <1>1
  <1>3. /\ n + 1 \in 1 .. l - c.synced /\ c.synced + (n + 1) = c.synced + n + 1
        /\ c.synced + n + 1 \in 1 .. l
    BY <1>2, NextOffset, Zenon
  <1>4. QED  BY <1>1, <1>3 DEF NextEntry

LEMMA PostEntryUndisturbed ==
    ASSUME PostedInv, UndisturbedInv, NEW p \in Proc, PostEntry(p), ~overlapped', ~broken'
    PROVE  Goes
  <1>1. /\ pc[p] = "post" /\ at[p] < Len(Pending(cl[p])) /\ ~overlapped
        /\ UNCHANGED <<file, paper, entries, managed>>
        /\ \/ Works(p, cl[p], at[p] + 1, "post") /\ posted' = posted \cup {NextEntry(p)}
           \/ Fails(p, TRUE) \/ Fails(p, FALSE)
    BY DEF PostEntry
  <1>2. CASE Fails(p, TRUE) \/ Fails(p, FALSE)  BY <1>1, <1>2, FailsUndisturbed
  <1>3. CASE Works(p, cl[p], at[p] + 1, "post") /\ posted' = posted \cup {NextEntry(p)}
    <2>1. /\ pc' = [pc EXCEPT ![p] = "post"] /\ cl' = [cl EXCEPT ![p] = cl[p]]
          /\ at' = [at EXCEPT ![p] = at[p] + 1] /\ UNCHANGED <<failed, broken>>
      BY <1>3 DEF Works
    <2>2. /\ cl[p] \in Checklist /\ Undisturbed(cl[p], cl[p].synced + at[p]) /\ at[p] \in Nat
          /\ paper = None
      BY <1>1, <2>1, WorksAlone
    <2> SUFFICES ASSUME NEW c \in Checklist, c = cl[p], NEW n \in Nat, n = at[p]  PROVE Goes
      BY <2>2
    <2>3. NextEntry(p) = c.synced + n + 1 /\ c.synced \in Nat
      BY <1>1, <2>2, NextOfAll DEF Undisturbed
    <2>4. Undisturbed(c, c.synced + (n + 1))'
      <3>1. c.synced + (n + 1) = c.synced + n + 1
            /\ 1 .. c.synced + n + 1 = 1 .. c.synced + n \cup {c.synced + n + 1}
        BY <2>3
      <3>2. ~failed => posted \subseteq 1 .. c.synced + n  BY <2>2 DEF Undisturbed
      <3>3. ~failed' => posted' \subseteq 1 .. c.synced + (n + 1)
        BY <1>3, <2>1, <2>3, <3>1, <3>2
      <3>4. c.log = [e \in 1 .. entries' |-> e]
            /\ (c.store # None /\ c.store.comment = None => c.store.url \notin managed')
        BY <1>1, <2>2 DEF Undisturbed
      <3>5. paper' = None  BY <1>1, <2>2
      <3>6. QED  BY <3>3, <3>4, <3>5 DEF Undisturbed
    <2>5. n + 1 \in Nat  OBVIOUS
    <2>6. QED  BY <1>1, <2>1, <2>4, <2>5, GoesOn
  <1>4. QED  BY <1>1, <1>2, <1>3

LEMMA AllPostedUndisturbed ==
    ASSUME PostedInv, UndisturbedInv, NEW p \in Proc, AllPosted(p), ~overlapped', ~broken'
    PROVE  Goes
  <1>1. /\ pc[p] = "post" /\ at[p] = Len(Pending(cl[p])) /\ ~overlapped
        /\ UNCHANGED <<file, paper, entries, posted, managed>>
        /\ Works(p, [cl[p] EXCEPT !.synced = Len(cl[p].log)], 0, "truncate")
    BY DEF AllPosted, AllMarked, issueVars
  <1>2. /\ pc' = [pc EXCEPT ![p] = "truncate"] /\ at' = [at EXCEPT ![p] = 0]
        /\ cl' = [cl EXCEPT ![p] = [cl[p] EXCEPT !.synced = Len(cl[p].log)]]
        /\ UNCHANGED <<failed, broken>>
    BY <1>1 DEF Works
  <1>3. cl[p] \in Checklist /\ Undisturbed(cl[p], cl[p].synced + at[p])
    BY <1>1, <1>2, WorksAlone
  <1>4. cl[p].synced + at[p] = Len(cl[p].log) /\ Len(cl[p].log) \in Nat
    BY <1>1, <1>3, Fields, Pendings
  <1> DEFINE d == [cl[p] EXCEPT !.synced = Len(cl[p].log)]
  <1>5. /\ d \in Checklist /\ d.log = cl[p].log /\ d.synced = Len(cl[p].log)
        /\ d.store = cl[p].store
    BY <1>3, <1>4 DEF Checklist
  <1>6. cl' = [cl EXCEPT ![p] = d]  BY <1>2
  <1> HIDE DEF d
  <1> SUFFICES ASSUME NEW c \in Checklist, c = d  PROVE Goes
    BY <1>5
  <1>7. c.synced + 0 = cl[p].synced + at[p]  BY <1>4, <1>5
  <1>8. Undisturbed(c, c.synced + 0)'  BY <1>1, <1>2, <1>3, <1>5, <1>7 DEF Undisturbed
  <1>9. QED  BY <1>1, <1>2, <1>6, <1>8, GoesOn

LEMMA TruncateUndisturbed ==
    ASSUME PostedInv, UndisturbedInv, NEW p \in Proc, Truncate(p), ~overlapped', ~broken'
    PROVE  Goes
  <1>1. /\ pc[p] = "truncate" /\ file' = Torn /\ pc' = [pc EXCEPT ![p] = "write"]
        /\ UNCHANGED <<cl, at, paper, entries, posted, managed, failed>>
        /\ ~overlapped /\ ~broken
    BY DEF Truncate, issueVars, faultVars
  <1>2. Undisturbed(cl[p], cl[p].synced + at[p]) /\ \A q \in Proc \ {p} : pc[q] = "idle"
    BY <1>1, WorksAlone
  <1>3. pc'[p] = "write" /\ \A q \in Proc \ {p} : pc'[q] = "idle"
    BY <1>1, <1>2 DEF PostedInv, TypeOK
  <1>4. Undisturbed(cl[p], cl[p].synced + at[p])'  BY <1>1, <1>2 DEF Undisturbed
  <1>5. QED  BY <1>1, <1>3, <1>4 DEF Goes, UndisturbedFile, UndisturbedCopy

LEMMA WriteUndisturbed ==
    ASSUME PostedInv, UndisturbedInv, NEW p \in Proc, Write(p), ~overlapped', ~broken'
    PROVE  Goes
  <1>1. /\ pc[p] = "write" /\ Ends(p) /\ ~overlapped /\ ~broken
        /\ file' \in IF file = Torn THEN {cl[p]} ELSE {cl[p], Torn}
        /\ UNCHANGED <<paper, entries, posted, managed, failed>>
    BY DEF Write, issueVars, faultVars
  <1>2. /\ cl[p] \in Checklist /\ UndisturbedCopy(p) /\ \A q \in Proc \ {p} : pc[q] = "idle"
        /\ Undisturbed(cl[p], cl[p].synced + at[p]) /\ at[p] = 0
    BY <1>1, WorksAlone
  <1>3. file' = cl[p]  BY <1>1, <1>2 DEF UndisturbedCopy
  <1>4. \A q \in Proc : pc'[q] = "idle"  BY <1>1, <1>2 DEF Ends, PostedInv, TypeOK
  <1> SUFFICES ASSUME NEW c \in Checklist, c = cl[p]  PROVE Goes
    BY <1>2
  <1>5. c.synced + at[p] = c.synced  BY <1>2, Fields
  <1>6. Undisturbed(c, c.synced)'  BY <1>1, <1>2, <1>5 DEF Undisturbed
  <1>7. UndisturbedFile'
    <2>1. file' = c /\ file' # Torn /\ file' # None  BY <1>3, Fields
    <2>2. QED  BY <1>6, <2>1 DEF UndisturbedFile, Undisturbed
  <1>8. QED  BY <1>4, <1>7 DEF Goes, UndisturbedCopy

-----------------------------------------------------------------------------
LEMMA UndisturbedInvInit == Init => UndisturbedInv
  <1> SUFFICES ASSUME Init PROVE UndisturbedInv
    OBVIOUS
  <1>1. \A p \in Proc : UndisturbedCopy(p)  BY DEF Init, UndisturbedCopy
  <1>2. UndisturbedFile  BY ClAssumption DEF Init, UndisturbedFile
  <1>3. QED  BY <1>1, <1>2 DEF UndisturbedInv

LEMMA UndisturbedInvStep == PostedInv /\ UndisturbedInv /\ [Next]_vars => UndisturbedInv'
  <1> SUFFICES ASSUME PostedInv, UndisturbedInv, [Next]_vars, ~overlapped', ~broken'
               PROVE  Goes
    BY DEF Goes, UndisturbedInv
  <1>1. CASE Next
    <2>1. PICK p \in Proc :
            \/ New(p) \/ Edit(p) \/ (\E u \in Url : SetStore(p, u))
            \/ SyncGithub(p) \/ SyncJira(p) \/ Synced(p)
            \/ PatchManaged(p) \/ PostManaged(p) \/ PostEntry(p) \/ AllPosted(p)
            \/ Truncate(p) \/ Write(p) \/ Kill(p)
      BY <1>1 DEF Next
    <2>2. ~Kill(p)  BY DEF Kill
    <2>3. QED
      BY <2>1, <2>2, NewUndisturbed, EditUndisturbed, SetStoreUndisturbed,
         SyncGithubUndisturbed, SyncJiraUndisturbed, SyncedUndisturbed,
         PatchManagedUndisturbed, PostManagedUndisturbed, PostEntryUndisturbed,
         AllPostedUndisturbed, TruncateUndisturbed, WriteUndisturbed
  <1>2. CASE UNCHANGED vars
    <2>1. UndisturbedFile /\ \A q \in Proc : UndisturbedCopy(q)
      BY <1>2 DEF UndisturbedInv, vars, faultVars
    <2>2. QED
      BY <1>2, <2>1 DEF Goes, vars, procVars, issueVars, faultVars, UndisturbedFile,
                        UndisturbedCopy, Undisturbed
  <1>3. QED  BY <1>1, <1>2

LEMMA UndisturbedInvAlways == Spec => []UndisturbedInv
  BY PostedInvAlways, UndisturbedInvInit, UndisturbedInvStep, PTL DEF Spec

(* Only a post that works gets on to the next entry.                       *)
LEMMA OnlyPostsGetOn ==
    ASSUME PostedInv, NEW p \in Proc, Next, at'[p] = at[p] + 1
    PROVE  pc[p] = "post" /\ at[p] < Len(Pending(cl[p]))
  <1>1. at \in [Proc -> Nat]  BY DEF PostedInv, TypeOK
  <1>2. at'[p] # at[p] /\ at'[p] # 0  BY <1>1
  <1>3. PICK q \in Proc :
          \/ New(q) \/ Edit(q) \/ (\E u \in Url : SetStore(q, u))
          \/ SyncGithub(q) \/ SyncJira(q) \/ Synced(q)
          \/ PatchManaged(q) \/ PostManaged(q) \/ PostEntry(q) \/ AllPosted(q)
          \/ Truncate(q) \/ Write(q) \/ Kill(q)
    BY DEF Next
  <1>4. CASE New(q) \/ Edit(q) \/ (\E u \in Url : SetStore(q, u)) \/ SyncGithub(q)
             \/ SyncJira(q) \/ Synced(q) \/ Truncate(q)
    <2>1. at' = at
      BY <1>4 DEF New, Edit, SetStore, SyncGithub, SyncJira, Synced, Truncate, Writes, Begins
    <2>2. QED  BY <1>2, <2>1
  <1>5. CASE PatchManaged(q) \/ PostManaged(q) \/ AllPosted(q) \/ Write(q) \/ Kill(q)
    <2>1. at' = [at EXCEPT ![q] = 0]
      BY <1>5 DEF PatchManaged, PostManaged, AllPosted, Write, Kill, Works, Fails, Ends
    <2>2. QED  BY <1>1, <1>2, <2>1
  <1>6. CASE PostEntry(q)
    <2>1. /\ pc[q] = "post" /\ at[q] < Len(Pending(cl[q]))
          /\ at' = [at EXCEPT ![q] = at[q] + 1] \/ at' = [at EXCEPT ![q] = 0]
      BY <1>6 DEF PostEntry, Works, Fails
    <2>2. q = p  BY <1>1, <1>2, <2>1
    <2>3. QED  BY <2>1, <2>2
  <1>7. QED  BY <1>3, <1>4, <1>5, <1>6

(* One command at a time, none killed, every failed call without effect:   *)
(* no managed comment is posted twice, no entry either before a call has   *)
(* failed, and the file holds all that was written.                        *)
THEOREM UndisturbedSyncAlways == Spec => UndisturbedSync
  <1> DEFINE Kept ==
        ~overlapped' /\ ~broken' =>
           /\ \A p \in Proc : ~SecondManaged(p) /\ (~failed => ~PostedAgain(p))
           /\ AllKept'
  <1>1. PostedInv /\ UndisturbedInv /\ UndisturbedInv' /\ [Next]_vars => [Kept]_vars
    <2> SUFFICES ASSUME PostedInv, UndisturbedInv, UndisturbedInv', Next,
                        ~overlapped', ~broken'
                 PROVE  /\ \A p \in Proc : ~SecondManaged(p) /\ (~failed => ~PostedAgain(p))
                        /\ AllKept'
      OBVIOUS
    <2>1. ~overlapped /\ ~broken
      <3>1. PICK p \in Proc :
              \/ New(p) \/ Edit(p) \/ (\E u \in Url : SetStore(p, u))
              \/ SyncGithub(p) \/ SyncJira(p) \/ Synced(p)
              \/ PatchManaged(p) \/ PostManaged(p) \/ PostEntry(p) \/ AllPosted(p)
              \/ Truncate(p) \/ Write(p) \/ Kill(p)
        BY DEF Next
      <3>2. CASE New(p) \/ Edit(p) \/ (\E u \in Url : SetStore(p, u)) \/ SyncGithub(p)
                 \/ SyncJira(p) \/ Synced(p)
        <4>1. CASE New(p) \/ Edit(p)  BY <4>1, BeginsAlone DEF New, Edit, Writes
        <4>2. CASE \E u \in Url : SetStore(p, u)  BY <4>2 DEF SetStore, Writes, Begins
        <4>3. CASE SyncGithub(p)  BY <4>3 DEF SyncGithub, Begins
        <4>4. CASE SyncJira(p)  BY <4>4 DEF SyncJira, Begins
        <4>5. CASE Synced(p)  BY <4>5 DEF Synced, Begins
        <4>6. QED  BY <3>2, <4>1, <4>2, <4>3, <4>4, <4>5
      <3>3. CASE PatchManaged(p) \/ PostManaged(p) \/ PostEntry(p) \/ AllPosted(p)
        <4>1. ~overlapped  BY <3>3 DEF PatchManaged, PostManaged, PostEntry, AllPosted
        <4>2. broken' = broken \/ Fails(p, TRUE) \/ Fails(p, FALSE)
          BY <3>3 DEF PatchManaged, PostManaged, PostEntry, AllPosted, Works
        <4>3. ~broken  BY <4>2 DEF Fails
        <4>4. QED  BY <4>1, <4>3
      <3>4. CASE Truncate(p) \/ Write(p) \/ Kill(p)
        <4>1. overlapped' = overlapped /\ (broken' = broken \/ broken' = TRUE)
          BY <3>4 DEF Truncate, Write, Kill, faultVars
        <4>2. QED  BY <4>1
      <3>5. QED  BY <3>1, <3>2, <3>3, <3>4
    <2>2. ASSUME NEW p \in Proc, SecondManaged(p)  PROVE FALSE
      <3>1. pc[p] = "managed"  BY <2>2 DEF SecondManaged
      <3>2. Undisturbed(cl[p], cl[p].synced + at[p]) /\ cl[p].store # None
        BY <2>1, <3>1, WorksAlone, Working
      <3>3. QED  BY <2>2, <3>2 DEF SecondManaged, Undisturbed
    <2>3. ASSUME NEW p \in Proc, ~failed, PostedAgain(p)  PROVE FALSE
      <3>1. pc[p] = "post" /\ at[p] < Len(Pending(cl[p]))
        BY <2>3, OnlyPostsGetOn DEF PostedAgain
      <3>2. /\ cl[p] \in Checklist /\ at[p] \in Nat
            /\ Undisturbed(cl[p], cl[p].synced + at[p]) /\ paper = None
        BY <2>1, <3>1, WorksAlone
      <3>3. NextEntry(p) = cl[p].synced + at[p] + 1 /\ cl[p].synced \in Nat
        BY <3>1, <3>2, NextOfAll DEF Undisturbed
      <3>4. posted \subseteq 1 .. cl[p].synced + at[p]  BY <2>3, <3>2 DEF Undisturbed
      <3>5. NextEntry(p) \notin 1 .. cl[p].synced + at[p]  BY <3>2, <3>3
      <3>6. QED  BY <2>3, <3>4, <3>5 DEF PostedAgain
    <2>4. AllKept'
      <3>1. UndisturbedFile'  BY DEF UndisturbedInv
      <3>2. QED  BY <3>1 DEF UndisturbedFile, Undisturbed, AllKept
    <2>5. QED  BY <2>2, <2>3, <2>4
  <1>2. QED
    BY <1>1, PostedInvAlways, UndisturbedInvAlways, PTL DEF Spec, UndisturbedSync
=============================================================================
