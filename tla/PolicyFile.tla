----------------------------- MODULE PolicyFile -----------------------------
(***************************************************************************)
(* The policy file of the metadata daemon (apps/cad): cad add and cad rm,  *)
(* each a process that loads, edits, merges and renames (cli.go), somebody *)
(* editing the file in place or removing it, and the daemon re-reading it  *)
(* when its mtime changes (policy.go), one caller at a time under polMu.   *)
(* A document is the agents it lists and the one other key cad does not    *)
(* model; ok says whether it parses.  An mtime is a tick of the file       *)
(* system's clock, which may stamp two writes alike.                       *)
(***************************************************************************)
EXTENDS Integers

CONSTANTS
    Cli,            \* cad processes that edit the file
    Agent,
    None,           \* no file, no document
    Named,          \* TRUE: CAD_CONFIG or CAD_POLICY names the file
    FineClock,      \* TRUE: no two writes get the same mtime
    MaxWrites       \* bound on the writes, and so on the other key's values

Document == [agents : SUBSET Agent, other : 0 .. MaxWrites, ok : BOOLEAN]
Builtin == [agents |-> {}, other |-> 0, ok |-> TRUE]

ASSUME PolicyFileAssumption ==
    /\ Named \in BOOLEAN /\ FineClock \in BOOLEAN /\ MaxWrites \in Nat
    /\ None \notin Document

VARIABLES
    file, mtime,            \* the file's document, or None, and its mtime
    clock, writes,          \* the newest mtime given out, the writes so far
    pol, polPath, polMod,   \* the policy served; whether a file was read, its mtime
    at,                     \* where currentPolicy is
    pc,                     \* per Cli, where it is
    mine,                   \* per Cli, the document it is about to write
    from,                   \* per Cli, the mtime of what it loaded (0 = no file)
    stamp,                  \* per Cli, the mtime of its temporary file
    editor                  \* the document open in an editor, or None

fileVars == <<file, mtime, clock, writes>>
daemonVars == <<pol, polPath, polMod, at>>
cliVars == <<pc, mine, from, stamp>>
vars == <<fileVars, daemonVars, cliVars, editor>>

Init ==
    /\ file \in {None, Builtin} /\ mtime = (IF file = None THEN 0 ELSE 1)
    /\ clock = 1 /\ writes = 0
    /\ pol = Builtin /\ polPath = FALSE /\ polMod = 0 /\ at = "idle"
    /\ pc = [c \in Cli |-> "idle"] /\ mine = [c \in Cli |-> None]
    /\ from = [c \in Cli |-> 0] /\ stamp = [c \in Cli |-> 0]
    /\ editor = None

(* A write gets the clock's time, which has moved on or has not.           *)
Stamped(m) ==
    /\ writes < MaxWrites /\ writes' = writes + 1
    /\ m = clock + 1 \/ (~FineClock /\ m = clock)
    /\ clock' = m

-----------------------------------------------------------------------------
(* currentPolicy, system call by system call.                              *)

(* No file and nothing names one: the built-in policy.                     *)
Stat ==
    /\ at = "idle"
    /\ IF file = None /\ ~Named
       THEN pol' = Builtin /\ polPath' = FALSE /\ UNCHANGED at
       ELSE at' = "compare" /\ UNCHANGED <<pol, polPath>>
    /\ UNCHANGED <<fileVars, cliVars, editor, polMod>>

(* Mutant: a file no newer than the one read counts as unchanged.          *)
NotNewer == file = None \/ (polPath /\ mtime <= polMod)
Unchanged == file = None \/ (polPath /\ mtime = polMod)

Compare ==
    /\ at = "compare"
    /\ IF Unchanged
       THEN at' = "idle" /\ UNCHANGED <<polPath, polMod>>
       ELSE at' = "read" /\ polPath' = TRUE /\ polMod' = mtime
    /\ UNCHANGED <<fileVars, cliVars, editor, pol>>

(* Mutant: whatever could be decoded is served.                            *)
ReadAnyway ==
    /\ at = "read" /\ at' = "idle"
    /\ pol' = IF file # None THEN file ELSE pol
    /\ UNCHANGED <<fileVars, cliVars, editor, polPath, polMod>>
Read ==
    /\ at = "read" /\ at' = "idle"
    /\ pol' = IF file # None /\ file.ok THEN file ELSE pol
    /\ UNCHANGED <<fileVars, cliVars, editor, polPath, polMod>>

Restart ==
    /\ pol' = Builtin /\ polPath' = FALSE /\ polMod' = 0 /\ at' = "idle"
    /\ UNCHANGED <<fileVars, cliVars, editor>>

-----------------------------------------------------------------------------
(* cad add agent a, cad rm agent a.  Loads that fail, and agents already   *)
(* there or not there, end the process with nothing changed.               *)

Loaded == IF file = None THEN Builtin ELSE file

Load(c, agents, next) ==
    /\ pc[c] = "idle" /\ writes < MaxWrites /\ Loaded.ok
    /\ mine' = [mine EXCEPT ![c] = [Loaded EXCEPT !.agents = agents]]
    /\ from' = [from EXCEPT ![c] = IF file = None THEN 0 ELSE mtime]
    /\ pc' = [pc EXCEPT ![c] = next]
    /\ UNCHANGED <<fileVars, daemonVars, stamp, editor>>

Add(c, a) == a \notin Loaded.agents /\ Load(c, Loaded.agents \cup {a}, "merge")
Rm(c, a) == a \in Loaded.agents /\ Load(c, Loaded.agents \ {a}, "stat")

(* rm wants the file to be there still.                                    *)
StatFile(c) ==
    /\ pc[c] = "stat" /\ file # None
    /\ pc' = [pc EXCEPT ![c] = "merge"]
    /\ UNCHANGED <<fileVars, daemonVars, mine, from, stamp, editor>>

(* savePolicy: keys cad does not model are taken from the file as it is    *)
(* now, if it parses.                                                      *)
(* Mutant: they are left out.                                              *)
MergeNothing(c) ==
    /\ pc[c] = "merge"
    /\ mine' = [mine EXCEPT ![c].other = 0]
    /\ pc' = [pc EXCEPT ![c] = "write"]
    /\ UNCHANGED <<fileVars, daemonVars, from, stamp, editor>>
Merge(c) ==
    /\ pc[c] = "merge"
    /\ mine' = [mine EXCEPT ![c].other = IF file # None /\ file.ok THEN file.other ELSE 0]
    /\ pc' = [pc EXCEPT ![c] = "write"]
    /\ UNCHANGED <<fileVars, daemonVars, from, stamp, editor>>

(* writeAtomic: the temporary file, whose mtime the rename keeps.          *)
WriteTemp(c) ==
    /\ pc[c] = "write"
    /\ \E m \in {clock, clock + 1} : Stamped(m) /\ stamp' = [stamp EXCEPT ![c] = m]
    /\ pc' = [pc EXCEPT ![c] = "rename"]
    /\ UNCHANGED <<file, mtime, daemonVars, mine, from, editor>>

Done(c) ==
    /\ pc' = [pc EXCEPT ![c] = "idle"]
    /\ mine' = [mine EXCEPT ![c] = None]
    /\ from' = [from EXCEPT ![c] = 0] /\ stamp' = [stamp EXCEPT ![c] = 0]

(* An editor that was writing the old file goes on writing to that.        *)
Rename(c) ==
    /\ pc[c] = "rename"
    /\ file' = mine[c] /\ mtime' = stamp[c]
    /\ editor' = IF file # None /\ ~file.ok THEN None ELSE editor
    /\ Done(c)
    /\ UNCHANGED <<clock, writes, daemonVars>>

(* A step failed, or the process was killed.                               *)
Fail(c) ==
    /\ pc[c] # "idle"
    /\ Done(c)
    /\ UNCHANGED <<fileVars, daemonVars, editor>>

-----------------------------------------------------------------------------
(* Somebody edits the other key in place, or removes the file.             *)

Open ==
    /\ editor = None /\ file # None /\ writes < MaxWrites
    /\ editor' = file
    /\ UNCHANGED <<fileVars, daemonVars, cliVars>>

Truncate ==
    /\ editor # None /\ file # None
    /\ file' = [file EXCEPT !.ok = FALSE]
    /\ \E m \in {clock, clock + 1} : Stamped(m) /\ mtime' = m
    /\ UNCHANGED <<daemonVars, cliVars, editor>>

Fill ==
    /\ editor # None /\ file # None /\ ~file.ok
    /\ \E m \in {clock, clock + 1} : Stamped(m) /\ mtime' = m
    /\ \E ok \in BOOLEAN : file' = [editor EXCEPT !.other = writes', !.ok = ok]
    /\ editor' = None
    /\ UNCHANGED <<daemonVars, cliVars>>

Remove ==
    /\ file # None /\ editor = None
    /\ file' = None /\ mtime' = 0
    /\ UNCHANGED <<clock, writes, daemonVars, cliVars, editor>>

Reader == Stat \/ Compare \/ Read
Next ==
    \/ Reader \/ Restart
    \/ \E c \in Cli, a \in Agent : Add(c, a) \/ Rm(c, a)
    \/ \E c \in Cli : StatFile(c) \/ Merge(c) \/ WriteTemp(c) \/ Rename(c) \/ Fail(c)
    \/ Open \/ Truncate \/ Fill \/ Remove

Spec == Init /\ [][Next]_vars

(* The collectors call currentPolicy every few seconds.                    *)
FairSpec == Spec /\ WF_vars(Reader)

-----------------------------------------------------------------------------
(* Besides types: a document that does not parse is never served.          *)
TypeOK ==
    /\ file \in Document \cup {None} /\ editor \in Document \cup {None}
    /\ clock \in 1 .. MaxWrites + 1 /\ writes \in 0 .. MaxWrites
    /\ mtime \in 0 .. clock /\ (mtime = 0 <=> file = None)
    /\ pol \in Document /\ pol.ok
    /\ polPath \in BOOLEAN /\ polMod \in 0 .. clock
    /\ at \in {"idle", "compare", "read"}
    /\ pc \in [Cli -> {"idle", "stat", "merge", "write", "rename"}]
    /\ mine \in [Cli -> Document \cup {None}]
    /\ \A c \in Cli : IF pc[c] = "idle" THEN mine[c] = None
                                        ELSE mine[c] # None /\ mine[c].ok
    /\ from \in [Cli -> 0 .. clock] /\ stamp \in [Cli -> 0 .. clock]

(* The inductive invariant.  An mtime given to a temporary file is nobody  *)
(* else's yet, when the clock tells writes apart.  So a process whose file *)
(* still has the mtime it was loaded with is about to write that file with *)
(* its one edit.                                                           *)
StampIsNew ==
    \A c \in Cli : pc[c] = "rename" =>
        /\ stamp[c] # mtime
        /\ \A d \in Cli : from[d] # stamp[c] /\ (d # c => stamp[d] # stamp[c])
EditOf(agents, old) ==
    agents # old /\ \E a \in Agent : agents \in {old \cup {a}, old \ {a}}
CopyIsFileEdited ==
    \A c \in Cli : pc[c] # "idle" /\ file # None /\ mtime = from[c] =>
        /\ file.ok /\ EditOf(mine[c].agents, file.agents)
        /\ pc[c] \in {"write", "rename"} => mine[c].other = file.other
PolicyFileInv ==
    /\ TypeOK /\ clock <= writes + 1
    /\ \A c \in Cli : stamp[c] # 0 <=> pc[c] = "rename"
    /\ FineClock => StampIsNew /\ CopyIsFileEdited

(* A running daemon gets to serve the file as it was last left: a rename,  *)
(* an edit in place, its removal, in whatever order with its own two looks *)
(* at the file ("re-reading the file when its mtime changes", policy.go:69;*)
(* README.md:29).  A file that does not parse leaves an earlier policy.    *)
Served ==
    CASE file = None -> Named \/ pol = Builtin
      [] file # None -> file.ok => pol = file
EditIsServed ==
    <>[][Reader]_vars => <>[]Served

(* cad add and rm do what they were asked and nothing else to a file that  *)
(* nobody else replaced meanwhile ("keys cad does not model survive",      *)
(* cli.go:131).  Two at once lose one of the edits.                        *)
UndisturbedEdit ==
    [][\A c \in Cli :
         Rename(c) /\ file # None /\ mtime = from[c] =>
             file'.other = file.other /\ EditOf(file'.agents, file.agents)]_vars
=============================================================================
