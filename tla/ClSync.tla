-------------------------------- MODULE ClSync --------------------------------
(***************************************************************************)
(* A checklist and its sync (skills/cl: cl.ts, store.ts, model.ts).  Every *)
(* command is a process that loads the JSON file, edits its copy and       *)
(* writes it back, without a lock.  sync pushes the log entries not pushed *)
(* so far to a GitHub issue, one comment each, after the one comment it    *)
(* manages; a call may fail, and may fail after it took effect.  For a     *)
(* Jira issue it only prints them: a person posts them by hand and says so *)
(* with synced.  Processes may overlap and may be killed at any step.      *)
(*                                                                         *)
(* Of a checklist the model keeps its log, entries being numbered as they  *)
(* are written, the count synced and the store; items and decisions do not *)
(* matter to any of these.                                                 *)
(***************************************************************************)
EXTENDS Integers, Sequences, Functions

CONSTANTS
    Proc,           \* commands at work at a time
    Github, Jira,   \* issue URLs
    None,
    Torn,           \* a file whose writer has truncated it, or one mixed of two
    MaxEntries      \* bound on the entries written

Url == Github \cup Jira
Store == [url : Url, comment : Url \cup {None}]
Checklist == {c \in [log : Seq(Nat), synced : Nat, store : Store \cup {None}] :
                 c.synced <= Len(c.log)}
Printed == [url : Url, next : Nat]

ASSUME ClAssumption ==
    /\ MaxEntries \in Nat /\ Github \cap Jira = {}
    /\ None # Torn /\ None \notin Url \cup Store \cup Checklist \cup Printed
    /\ Torn \notin Checklist

VARIABLES
    file,           \* <scratchpad>/cl/<name>.json
    pc, cl,         \* per process: its next step, its copy of the checklist
    at,             \* per process: how many entries its sync has pushed
    paper,          \* what was printed for Jira and posted, until it is marked synced
    entries,        \* entries written so far
    posted,         \* those pushed to some issue
    managed,        \* GitHub issues with a managed comment since they became the store
    byHand,         \* entries have been marked by hand
    overlapped,     \* two commands have been at work at once, or two syncs under way
    failed, broken  \* a call failed; a command was killed or a call failed after its effect

procVars == <<pc, cl, at>>
issueVars == <<posted, managed>>
faultVars == <<overlapped, failed, broken>>
vars == <<file, procVars, paper, entries, issueVars, byHand, faultVars>>

Pending(c) == SubSeq(c.log, c.synced + 1, Len(c.log))

Init ==
    /\ file = None /\ paper = None
    /\ pc = [p \in Proc |-> "idle"] /\ cl = [p \in Proc |-> None] /\ at = [p \in Proc |-> 0]
    /\ entries = 0 /\ posted = {} /\ managed = {}
    /\ byHand = FALSE /\ overlapped = FALSE /\ failed = FALSE /\ broken = FALSE

-----------------------------------------------------------------------------
(* A command begins: it loads the file and edits its copy at once.  One    *)
(* that finds no checklist in the file, or bad arguments, just ends.       *)
Begins(p, c, step) ==
    /\ pc[p] = "idle"
    /\ pc' = [pc EXCEPT ![p] = step] /\ cl' = [cl EXCEPT ![p] = c]
    /\ overlapped' = \/ overlapped \/ \E q \in Proc \ {p} : pc[q] # "idle"
                     \/ step = "managed" /\ paper # None
    /\ UNCHANGED <<file, at, broken>>

Loadable == file \notin {None, Torn}

(* parseStore: a store without a comment, also of the URL it had before.   *)
ParseStore(u) == [url |-> u, comment |-> None]

(* record: the log gets an entry.                                          *)
Writes(p, c) ==
    /\ entries < MaxEntries
    /\ entries' = entries + 1
    /\ Begins(p, [c EXCEPT !.log = Append(@, entries + 1)], "truncate")
    /\ UNCHANGED <<paper, posted, byHand, failed>>

New(p) ==
    /\ file = None
    /\ \E s \in {None} \cup {ParseStore(u) : u \in Url} :
         Writes(p, [log |-> << >>, synced |-> 0, store |-> s])
    /\ managed' = {}

(* add, spec, impl, link, decide, checkpoint.                              *)
Edit(p) ==
    /\ Loadable
    /\ Writes(p, file)
    /\ UNCHANGED managed

SetStore(p, u) ==
    /\ Loadable
    /\ Writes(p, [file EXCEPT !.store = ParseStore(u)])
    /\ managed' = managed \ {u}

(* sync to GitHub goes on to its calls.                                    *)
SyncGithub(p) ==
    /\ Loadable /\ file.store # None /\ file.store.url \in Github
    /\ Begins(p, file, "managed")
    /\ UNCHANGED <<paper, entries, issueVars, byHand, failed>>

(* sync to Jira prints; a person posts what was printed, in order, and     *)
(* leaves it if that fails.                                                *)
SyncJira(p) ==
    /\ Loadable /\ file.store # None /\ file.store.url \in Jira
    /\ paper = None
    /\ Begins(p, None, "idle")
    /\ \E n \in 0 .. Len(Pending(file)) :
         /\ posted' = posted \cup Range(SubSeq(Pending(file), 1, n))
         /\ \/ /\ n = Len(Pending(file))
               /\ paper' = [url |-> file.store.url, next |-> Len(file.log)]
               /\ UNCHANGED failed
            \/ paper' = None /\ failed' = TRUE
    /\ UNCHANGED <<entries, managed, byHand>>

(* synced <next> <comment>, after all of it was posted.                    *)
Synced(p) ==
    /\ paper # None
    /\ Loadable /\ paper.next <= Len(file.log) /\ file.store # None
    /\ Begins(p, [file EXCEPT !.synced = paper.next, !.store.comment = paper.url], "truncate")
    /\ paper' = None /\ byHand' = TRUE
    /\ UNCHANGED <<entries, issueVars, failed>>

-----------------------------------------------------------------------------
(* syncGithub.  What it does when a call fails: the finally block saves.   *)
(* Mutant: only a sync that succeeds saves.                                *)
EndOnly == "idle"
SaveToo == "truncate"
(* Mutant: the count is moved before the posts.                            *)
AllMarked(c) == [c EXCEPT !.synced = Len(c.log)]
AsFar(c) == c

(* A call of gh: it works, or fails before or after it took effect.        *)
Fails(p, effect) ==
    /\ pc' = [pc EXCEPT ![p] = SaveToo] /\ cl' = [cl EXCEPT ![p] = AsFar(@)]
    /\ at' = [at EXCEPT ![p] = 0]
    /\ failed' = TRUE /\ broken' = (broken \/ effect)
Works(p, c, n, step) ==
    /\ pc' = [pc EXCEPT ![p] = step]
    /\ cl' = [cl EXCEPT ![p] = c] /\ at' = [at EXCEPT ![p] = n]
    /\ UNCHANGED <<failed, broken>>

(* The managed comment is edited if there is one, and posted otherwise.    *)
PatchManaged(p) ==
    /\ pc[p] = "managed" /\ cl[p].store.comment # None
    /\ \/ cl[p].store.comment = cl[p].store.url /\ Works(p, cl[p], 0, "post")
       \/ Fails(p, FALSE)
    /\ UNCHANGED <<file, paper, entries, issueVars, byHand, overlapped>>

PostManaged(p) ==
    /\ pc[p] = "managed" /\ cl[p].store.comment = None
    /\ LET u == cl[p].store.url IN
         \/ Works(p, [cl[p] EXCEPT !.store.comment = u], 0, "post") /\ managed' = managed \cup {u}
         \/ Fails(p, TRUE) /\ managed' = managed \cup {u}
         \/ Fails(p, FALSE) /\ UNCHANGED managed
    /\ UNCHANGED <<file, paper, entries, posted, byHand, overlapped>>

(* One comment per pending entry; the count moves when all are posted.     *)
NextEntry(p) == Pending(cl[p])[at[p] + 1]
PostEntry(p) ==
    /\ pc[p] = "post" /\ at[p] < Len(Pending(cl[p]))
    /\ \/ Works(p, cl[p], at[p] + 1, "post") /\ posted' = posted \cup {NextEntry(p)}
       \/ Fails(p, TRUE) /\ posted' = posted \cup {NextEntry(p)}
       \/ Fails(p, FALSE) /\ UNCHANGED posted
    /\ UNCHANGED <<file, paper, entries, managed, byHand, overlapped>>
AllPosted(p) ==
    /\ pc[p] = "post" /\ at[p] = Len(Pending(cl[p]))
    /\ Works(p, AllMarked(cl[p]), 0, "truncate")
    /\ UNCHANGED <<file, paper, entries, issueVars, byHand, overlapped>>

-----------------------------------------------------------------------------
(* save: writeFileSync truncates, then writes.                             *)
Ends(p) ==
    /\ pc' = [pc EXCEPT ![p] = "idle"] /\ cl' = [cl EXCEPT ![p] = None]
    /\ at' = [at EXCEPT ![p] = 0]
Truncate(p) ==
    /\ pc[p] = "truncate"
    /\ file' = Torn /\ pc' = [pc EXCEPT ![p] = "write"]
    /\ UNCHANGED <<cl, at, paper, entries, issueVars, byHand, faultVars>>
Write(p) ==
    /\ pc[p] = "write"
    /\ file' \in IF file = Torn THEN {cl[p]} ELSE {cl[p], Torn}
    /\ Ends(p)
    /\ UNCHANGED <<paper, entries, issueVars, byHand, faultVars>>

Kill(p) ==
    /\ pc[p] # "idle"
    /\ broken' = TRUE
    /\ Ends(p)
    /\ UNCHANGED <<file, paper, entries, issueVars, byHand, overlapped, failed>>

Next ==
    \E p \in Proc :
        \/ New(p) \/ Edit(p) \/ (\E u \in Url : SetStore(p, u))
        \/ SyncGithub(p) \/ SyncJira(p) \/ Synced(p)
        \/ PatchManaged(p) \/ PostManaged(p) \/ PostEntry(p) \/ AllPosted(p)
        \/ Truncate(p) \/ Write(p) \/ Kill(p)
Spec == Init /\ [][Next]_vars

-----------------------------------------------------------------------------
(* An entry that counts as pushed has been pushed, to the store the        *)
(* checklist had then: whichever call fails, whichever command is killed,  *)
(* and even when commands overlap and write over each other's edits, as    *)
(* long as no entries are marked by hand as well.                          *)
FirstPosted(c, n) == n <= Len(c.log) /\ \A i \in 1 .. n : c.log[i] \in posted
SyncedWasPosted ==
    Loadable /\ ~(overlapped /\ byHand) => FirstPosted(file, file.synced)

(* One command at a time, none killed, every failed call without effect:   *)
(* the file holds all that was written, a GitHub issue gets one managed    *)
(* comment each time it becomes the store, and an entry is pushed again    *)
(* only after a call has failed.                                           *)
SecondManaged(p) ==
    /\ pc[p] = "managed" /\ pc'[p] = "post"
    /\ cl[p].store.comment = None /\ cl[p].store.url \in managed
PostedAgain(p) == at'[p] = at[p] + 1 /\ NextEntry(p) \in posted
AllKept ==
    (\A p \in Proc : pc[p] = "idle") /\ file # None =>
        file # Torn /\ file.log = [e \in 1 .. entries |-> e]
UndisturbedSync ==
    [][~overlapped' /\ ~broken' =>
           /\ \A p \in Proc : ~SecondManaged(p) /\ (~failed => ~PostedAgain(p))
           /\ AllKept']_vars

-----------------------------------------------------------------------------
(* What is inductive.  The types.                                          *)
TypeOK ==
    /\ file \in Checklist \cup {None, Torn} /\ paper \in Printed \cup {None}
    /\ pc \in [Proc -> {"idle", "managed", "post", "truncate", "write"}]
    /\ cl \in [Proc -> Checklist \cup {None}] /\ at \in [Proc -> Nat]
    /\ entries \in Nat /\ posted \subseteq Nat /\ managed \subseteq Github
    /\ {byHand, overlapped, failed, broken} \subseteq BOOLEAN
    /\ file = None => paper = None
    /\ \A p \in Proc :
         /\ pc[p] = "idle" <=> cl[p] = None
         /\ pc[p] # "post" => at[p] = 0
         /\ pc[p] \in {"managed", "post"} =>
                cl[p].store # None /\ cl[p].store.url \in Github

(* What a sync that is under way has posted it knows of, in its own copy   *)
(* and in the one it goes by for Jira: the latter only until commands      *)
(* overlap, when the log it was printed from may be lost.                  *)
OneAtATime ==
    ~overlapped => \A p, q \in Proc : pc[p] # "idle" /\ pc[q] # "idle" => p = q
CopiesWerePosted ==
    ~(overlapped /\ byHand) =>
        \A p \in Proc : pc[p] # "idle" => FirstPosted(cl[p], cl[p].synced + at[p])
PaperWasPosted ==
    ~overlapped /\ paper # None =>
        /\ Loadable => FirstPosted(file, paper.next)
        /\ \A p \in Proc : pc[p] # "idle" => FirstPosted(cl[p], paper.next)

PostedInv ==
    TypeOK /\ OneAtATime /\ SyncedWasPosted /\ CopiesWerePosted /\ PaperWasPosted

(* Undisturbed, the checklist is in the one copy at work, or else in the   *)
(* file; its log is all that was written, and n entries of it are posted.  *)
Undisturbed(c, n) ==
    /\ c.log = [e \in 1 .. entries |-> e]
    /\ c.store # None /\ c.store.comment = None => c.store.url \notin managed
    /\ ~failed => posted \subseteq 1 .. IF paper = None THEN n ELSE paper.next
UndisturbedFile ==
    (\A p \in Proc : pc[p] = "idle") =>
        /\ file # Torn
        /\ file = None => entries = 0 /\ posted = {} /\ paper = None
        /\ file # None => Undisturbed(file, file.synced)
UndisturbedCopy(p) ==
    pc[p] # "idle" =>
        /\ Undisturbed(cl[p], cl[p].synced + at[p])
        /\ pc[p] \in {"managed", "post"} => paper = None
        /\ file = Torn <=> pc[p] = "write"
UndisturbedInv ==
    ~overlapped /\ ~broken => UndisturbedFile /\ \A p \in Proc : UndisturbedCopy(p)
=============================================================================
