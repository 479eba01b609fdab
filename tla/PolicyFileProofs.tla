-------------------------- MODULE PolicyFileProofs --------------------------
(***************************************************************************)
(* Proofs about PolicyFile, for any number of cad processes and agents and *)
(* any bound on the writes: what the daemon serves and what cad add and rm *)
(* write back.                                                             *)
(***************************************************************************)
EXTENDS PolicyFile, TLAPS

LEMMA BuiltinIsDocument == Builtin \in Document /\ Builtin.ok
  BY PolicyFileAssumption DEF Builtin, Document

LEMMA DocumentParts ==
    ASSUME NEW d \in Document
    PROVE  /\ d.agents \in SUBSET Agent /\ d.other \in 0 .. MaxWrites /\ d.ok \in BOOLEAN
           /\ \A g \in SUBSET Agent : /\ [d EXCEPT !.agents = g] \in Document
                                      /\ [d EXCEPT !.agents = g].agents = g
                                      /\ [d EXCEPT !.agents = g].other = d.other
                                      /\ [d EXCEPT !.agents = g].ok = d.ok
           /\ \A n \in 0 .. MaxWrites : /\ [d EXCEPT !.other = n] \in Document
                                        /\ [d EXCEPT !.other = n].agents = d.agents
                                        /\ [d EXCEPT !.other = n].other = n
                                        /\ [d EXCEPT !.other = n].ok = d.ok
           /\ \A b \in BOOLEAN : [d EXCEPT !.ok = b] \in Document
           /\ \A n \in 0 .. MaxWrites, b \in BOOLEAN :
                [d EXCEPT !.other = n, !.ok = b] \in Document
  BY DEF Document

LEMMA EditsAreEdits ==
    ASSUME NEW a \in Agent, NEW old \in SUBSET Agent
    PROVE  /\ a \notin old => EditOf(old \cup {a}, old)
           /\ a \in old => EditOf(old \ {a}, old)
  BY DEF EditOf

(* What a write does to the clock.                                         *)
LEMMA StampedNext ==
    ASSUME PolicyFileInv, NEW m \in {clock, clock + 1}, Stamped(m)
    PROVE  /\ m \in Nat /\ m > 0 /\ clock' = m /\ writes' = writes + 1
           /\ clock' \in 1 .. MaxWrites + 1 /\ writes' \in 0 .. MaxWrites
           /\ clock' <= writes' + 1 /\ clock <= clock'
           /\ FineClock => m = clock + 1
  <1>1. /\ clock \in 1 .. MaxWrites + 1 /\ writes \in 0 .. MaxWrites
        /\ clock <= writes + 1 /\ MaxWrites \in Nat
    BY PolicyFileAssumption DEF PolicyFileInv, TypeOK
  <1>2. writes < MaxWrites /\ writes' = writes + 1 /\ clock' = m
        /\ (m = clock + 1 \/ (~FineClock /\ m = clock))
    BY DEF Stamped
  <1>3. QED  BY <1>1, <1>2

LEMMA PolicyFileInit == Init => PolicyFileInv
  <1> SUFFICES ASSUME Init PROVE PolicyFileInv
    OBVIOUS
  <1>1. file \in Document \cup {None} /\ (mtime = 0 <=> file = None) /\ mtime \in 0 .. clock
    BY BuiltinIsDocument, PolicyFileAssumption DEF Init
  <1>2. \A c \in Cli : pc[c] = "idle" /\ mine[c] = None /\ stamp[c] = 0 /\ from[c] = 0
    BY DEF Init
  <1>3. TypeOK
    <2>1. /\ editor \in Document \cup {None} /\ at = "idle" /\ polPath = FALSE
          /\ pol \in Document /\ pol.ok
      BY BuiltinIsDocument DEF Init
    <2>2. clock \in 1 .. MaxWrites + 1 /\ writes \in 0 .. MaxWrites /\ polMod \in 0 .. clock
      BY PolicyFileAssumption DEF Init
    <2>3. /\ pc \in [Cli -> {"idle", "stat", "merge", "write", "rename"}]
          /\ mine \in [Cli -> Document \cup {None}]
      BY DEF Init
    <2>4. from \in [Cli -> 0 .. clock] /\ stamp \in [Cli -> 0 .. clock]
      BY DEF Init
    <2>5. QED  BY <1>1, <1>2, <2>1, <2>2, <2>3, <2>4 DEF TypeOK
  <1>4. QED
    BY <1>2, <1>3 DEF Init, PolicyFileInv, StampIsNew, CopyIsFileEdited

-----------------------------------------------------------------------------
(* The daemon reads; nobody removes what a process is about to write.      *)
LEMMA DaemonKeeps == PolicyFileInv /\ (Reader \/ Restart) => PolicyFileInv'
  <1> SUFFICES ASSUME PolicyFileInv, Reader \/ Restart PROVE PolicyFileInv'
    OBVIOUS
  <1>1. TypeOK  BY DEF PolicyFileInv
  <1>2. UNCHANGED <<file, mtime, clock, writes, pc, mine, from, stamp, editor>>
    BY DEF Reader, Restart, Stat, Compare, Read, fileVars, cliVars
  <1>3. /\ pol' \in Document /\ pol'.ok /\ polPath' \in BOOLEAN
        /\ polMod' \in 0 .. clock /\ at' \in {"idle", "compare", "read"}
    <2>1. /\ pol \in Document /\ pol.ok /\ polPath \in BOOLEAN /\ polMod \in 0 .. clock
          /\ mtime \in 0 .. clock /\ at \in {"idle", "compare", "read"}
          /\ file \in Document \cup {None} /\ 0 \in 0 .. clock
      BY <1>1 DEF TypeOK
    <2>2. CASE Stat  BY <2>1, <2>2, BuiltinIsDocument DEF Stat
    <2>3. CASE Compare  BY <2>1, <2>3 DEF Compare
    <2>4. CASE Read
      <3>1. pol' = IF file # None /\ file.ok THEN file ELSE pol  BY <2>4 DEF Read
      <3>2. pol' \in Document /\ pol'.ok  BY <2>1, <3>1
      <3>3. QED  BY <2>1, <2>4, <3>2 DEF Read
    <2>5. CASE Restart  BY <2>1, <2>5, BuiltinIsDocument DEF Restart
    <2>6. QED  BY <2>2, <2>3, <2>4, <2>5 DEF Reader
  <1>4. TypeOK'  BY <1>1, <1>2, <1>3 DEF TypeOK
  <1>5. QED
    BY <1>2, <1>4 DEF PolicyFileInv, StampIsNew, CopyIsFileEdited

(* The state of the processes, function by function.                       *)
LEMMA CliTypes ==
    ASSUME PolicyFileInv
    PROVE  /\ pc \in [Cli -> {"idle", "stat", "merge", "write", "rename"}]
           /\ mine \in [Cli -> Document \cup {None}]
           /\ from \in [Cli -> 0 .. clock] /\ stamp \in [Cli -> 0 .. clock]
           /\ \A c \in Cli : /\ from[c] \in Nat /\ from[c] <= clock
                             /\ stamp[c] \in Nat /\ stamp[c] <= clock
                             /\ stamp[c] # 0 <=> pc[c] = "rename"
                             /\ pc[c] = "idle" => mine[c] = None
                             /\ pc[c] # "idle" => mine[c] \in Document /\ mine[c].ok
           /\ file \in Document \cup {None} /\ mtime \in Nat /\ mtime <= clock
           /\ mtime = 0 <=> file = None
           /\ clock \in Nat /\ clock > 0
  BY PolicyFileAssumption DEF PolicyFileInv, TypeOK

(* A process of cad add or rm goes on with a document of its own; the file *)
(* and what the others do stay as they are.                                *)
LEMMA CopyKeeps ==
    ASSUME PolicyFileInv, NEW c \in Cli,
           UNCHANGED <<file, mtime, pol, polPath, polMod, at, editor>>,
           NEW step \in {"idle", "stat", "merge", "write", "rename"}, pc' = [pc EXCEPT ![c] = step],
           NEW copy \in Document \cup {None}, mine' = [mine EXCEPT ![c] = copy],
           NEW base \in 0 .. clock, from' = [from EXCEPT ![c] = base],
           NEW m \in 0 .. clock', stamp' = [stamp EXCEPT ![c] = m],
           clock' \in 1 .. MaxWrites + 1, writes' \in 0 .. MaxWrites,
           clock' <= writes' + 1, clock <= clock',
           IF step = "idle" THEN copy = None ELSE copy # None /\ copy.ok,
           m # 0 <=> step = "rename",
           FineClock => /\ step = "rename" => m > clock
                        /\ base \in {0, mtime, from[c]}
                        /\ step # "idle" /\ file # None /\ mtime = base =>
                             /\ file.ok /\ EditOf(copy.agents, file.agents)
                             /\ step \in {"write", "rename"} => copy.other = file.other
    PROVE  PolicyFileInv'
  <1>1. TypeOK  BY DEF PolicyFileInv
  <1>2. /\ pc'[c] = step /\ mine'[c] = copy /\ from'[c] = base /\ stamp'[c] = m
        /\ \A d \in Cli \ {c} :
             pc'[d] = pc[d] /\ mine'[d] = mine[d] /\ from'[d] = from[d] /\ stamp'[d] = stamp[d]
    BY CliTypes
  <1>3. /\ pc' \in [Cli -> {"idle", "stat", "merge", "write", "rename"}]
        /\ mine' \in [Cli -> Document \cup {None}]
    BY CliTypes
  <1>4. from' \in [Cli -> 0 .. clock']
    <2>1. from \in [Cli -> 0 .. clock'] /\ base \in 0 .. clock'
      BY CliTypes, PolicyFileAssumption
    <2>2. QED  BY <2>1
  <1>5. stamp' \in [Cli -> 0 .. clock']
    <2>1. stamp \in [Cli -> 0 .. clock']  BY CliTypes, PolicyFileAssumption
    <2>2. QED  BY <2>1
  <1>6. mtime' \in 0 .. clock' /\ polMod' \in 0 .. clock'
    BY <1>1, CliTypes, PolicyFileAssumption DEF TypeOK
  <1>7. \A d \in Cli : IF pc'[d] = "idle" THEN mine'[d] = None
                                          ELSE mine'[d] # None /\ mine'[d].ok
    BY <1>1, <1>2 DEF TypeOK
  <1>8. TypeOK'  BY <1>1, <1>3, <1>4, <1>5, <1>6, <1>7 DEF TypeOK
  <1>9. \A d \in Cli : stamp'[d] # 0 <=> pc'[d] = "rename"
    BY <1>2, CliTypes
  <1>10. ASSUME FineClock PROVE StampIsNew'
    <2> SUFFICES ASSUME NEW d \in Cli, pc'[d] = "rename"
                 PROVE  /\ stamp'[d] # mtime'
                        /\ \A e \in Cli : from'[e] # stamp'[d] /\ (e # d => stamp'[e] # stamp'[d])
      BY DEF StampIsNew
    <2>1. CASE d = c
      <3>1. stamp'[d] = m /\ m \in Nat /\ m > clock
        BY <1>2, <1>10, <2>1, PolicyFileAssumption
      <3>2. mtime' <= clock /\ \A e \in Cli : from'[e] <= clock /\ (e # d => stamp'[e] <= clock)
        BY <1>2, <2>1, CliTypes
      <3>3. mtime' \in Nat /\ \A e \in Cli : from'[e] \in Nat /\ stamp'[e] \in Nat
        BY <1>2, <3>1, CliTypes
      <3>4. QED  BY <3>1, <3>2, <3>3, CliTypes
    <2>2. CASE d # c
      <3>1. stamp'[d] = stamp[d] /\ pc[d] = "rename" /\ stamp[d] # 0
        BY <1>2, <2>2, CliTypes
      <3>2. /\ stamp[d] # mtime
            /\ \A e \in Cli : from[e] # stamp[d] /\ (e # d => stamp[e] # stamp[d])
        BY <1>10, <3>1 DEF PolicyFileInv, StampIsNew
      <3>3. base # stamp[d]  BY <1>10, <3>1, <3>2
      <3>4. m # stamp[d]
        <4>1. CASE step = "rename"  BY <1>10, <4>1, CliTypes
        <4>2. CASE step # "rename"  BY <3>1, <4>2
        <4>3. QED  BY <4>1, <4>2
      <3>5. \A e \in Cli : from'[e] # stamp[d] /\ (e # d => stamp'[e] # stamp[d])
        BY <1>2, <3>2, <3>3, <3>4
      <3>6. QED  BY <3>1, <3>2, <3>5
    <2>3. QED  BY <2>1, <2>2
  <1>11. ASSUME FineClock PROVE CopyIsFileEdited'
    <2> SUFFICES ASSUME NEW d \in Cli, pc'[d] # "idle", file' # None, mtime' = from'[d]
                 PROVE  /\ file'.ok /\ EditOf(mine'[d].agents, file'.agents)
                        /\ pc'[d] \in {"write", "rename"} => mine'[d].other = file'.other
      BY DEF CopyIsFileEdited, EditOf
    <2>1. CASE d = c  BY <1>2, <1>11, <2>1
    <2>2. CASE d # c  BY <1>2, <1>11, <2>2 DEF PolicyFileInv, CopyIsFileEdited
    <2>3. QED  BY <2>1, <2>2
  <1>12. QED  BY <1>8, <1>9, <1>10, <1>11 DEF PolicyFileInv

LEMMA LoadKeeps ==
    ASSUME PolicyFileInv, NEW c \in Cli, NEW g \in SUBSET Agent, NEW next \in {"merge", "stat"},
           Load(c, g, next), EditOf(g, Loaded.agents)
    PROVE  PolicyFileInv'
  <1>1. TypeOK  BY DEF PolicyFileInv
  <1>2. /\ UNCHANGED <<file, mtime, clock, writes, pol, polPath, polMod, at, stamp, editor>>
        /\ pc[c] = "idle" /\ Loaded.ok
        /\ mine' = [mine EXCEPT ![c] = [Loaded EXCEPT !.agents = g]]
        /\ from' = [from EXCEPT ![c] = IF file = None THEN 0 ELSE mtime]
        /\ pc' = [pc EXCEPT ![c] = next]
    BY DEF Load, fileVars, daemonVars
  <1>3. Loaded \in Document  BY <1>1, BuiltinIsDocument DEF Loaded, TypeOK
  <1>4. PICK copy \in Document : /\ copy = [Loaded EXCEPT !.agents = g]
                                 /\ copy.agents = g /\ copy.ok = Loaded.ok
    BY <1>3, DocumentParts
  <1>5. PICK base \in 0 .. clock : base = IF file = None THEN 0 ELSE mtime
    BY <1>1, CliTypes DEF TypeOK
  <1>6. copy # None /\ copy.ok  BY <1>2, <1>4, PolicyFileAssumption
  <1>7. stamp' = [stamp EXCEPT ![c] = 0] /\ 0 \in 0 .. clock'
    BY <1>2, CliTypes
  <1>8. base \in {0, mtime, from[c]}  BY <1>5
  <1>9. file # None => file.ok /\ EditOf(copy.agents, file.agents)
    BY <1>2, <1>4 DEF Loaded
  <1>10. clock' \in 1 .. MaxWrites + 1 /\ writes' \in 0 .. MaxWrites /\ clock' <= writes' + 1
         /\ clock <= clock'
    BY <1>1, <1>2, CliTypes DEF PolicyFileInv, TypeOK
  <1>11. /\ mine' = [mine EXCEPT ![c] = copy] /\ from' = [from EXCEPT ![c] = base]
         /\ UNCHANGED <<file, mtime, pol, polPath, polMod, at, editor>>
         /\ pc' = [pc EXCEPT ![c] = next]
    BY <1>2, <1>4, <1>5
  <1>12. next # "idle" /\ next \notin {"write", "rename"}
         /\ next \in {"idle", "stat", "merge", "write", "rename"}
    OBVIOUS
  <1>13. QED
    BY <1>6, <1>7, <1>8, <1>9, <1>10, <1>11, <1>12, CopyKeeps

LEMMA StatKeeps ==
    ASSUME PolicyFileInv, NEW c \in Cli, StatFile(c)
    PROVE  PolicyFileInv'
  <1>1. TypeOK  BY DEF PolicyFileInv
  <1>2. /\ UNCHANGED <<file, mtime, clock, writes, pol, polPath, polMod, at, editor>>
        /\ pc[c] = "stat" /\ pc' = [pc EXCEPT ![c] = "merge"]
        /\ mine' = mine /\ from' = from /\ stamp' = stamp
    BY DEF StatFile, fileVars, daemonVars
  <1>3. PICK copy \in Document : copy = mine[c] /\ copy # None /\ copy.ok
    BY <1>2, CliTypes, PolicyFileAssumption
  <1>4. PICK base \in 0 .. clock : base = from[c]  BY CliTypes
  <1>5. /\ mine' = [mine EXCEPT ![c] = copy] /\ from' = [from EXCEPT ![c] = base]
        /\ stamp' = [stamp EXCEPT ![c] = 0] /\ 0 \in 0 .. clock'
    BY <1>2, <1>3, <1>4, CliTypes
  <1>6. FineClock /\ file # None /\ mtime = base =>
          file.ok /\ EditOf(copy.agents, file.agents)
    BY <1>2, <1>3, <1>4 DEF PolicyFileInv, CopyIsFileEdited
  <1>7. clock' \in 1 .. MaxWrites + 1 /\ writes' \in 0 .. MaxWrites /\ clock' <= writes' + 1
        /\ clock <= clock'
    BY <1>1, <1>2, CliTypes DEF PolicyFileInv, TypeOK
  <1>8. QED  BY <1>2, <1>3, <1>4, <1>5, <1>6, <1>7, CopyKeeps

(* The other key is the file's, so the copy has it too.                    *)
LEMMA MergeKeeps ==
    ASSUME PolicyFileInv, NEW c \in Cli, Merge(c)
    PROVE  PolicyFileInv'
  <1>1. TypeOK  BY DEF PolicyFileInv
  <1>2. /\ UNCHANGED <<file, mtime, clock, writes, pol, polPath, polMod, at, editor>>
        /\ pc[c] = "merge" /\ pc' = [pc EXCEPT ![c] = "write"]
        /\ mine' = [mine EXCEPT ![c].other = IF file # None /\ file.ok THEN file.other ELSE 0]
        /\ from' = from /\ stamp' = stamp
    BY DEF Merge, fileVars, daemonVars
  <1>3. PICK other \in 0 .. MaxWrites : other = IF file # None /\ file.ok THEN file.other ELSE 0
    <2>1. 0 \in 0 .. MaxWrites  BY PolicyFileAssumption
    <2>2. file # None => file.other \in 0 .. MaxWrites  BY CliTypes, DocumentParts
    <2>3. QED  BY <2>1, <2>2
  <1>4. PICK old \in Document : old = mine[c] /\ old.ok  BY <1>2, CliTypes
  <1>5. PICK copy \in Document : /\ copy = [old EXCEPT !.other = other]
                                 /\ copy.agents = old.agents
                                 /\ copy.other = other /\ copy.ok = old.ok
    BY DocumentParts
  <1>6. /\ mine' = [mine EXCEPT ![c] = copy]
        /\ UNCHANGED <<file, mtime, pol, polPath, polMod, at, editor>>
        /\ pc' = [pc EXCEPT ![c] = "write"]
    BY <1>2, <1>3, <1>4, <1>5
  <1>7. PICK base \in 0 .. clock : base = from[c]  BY CliTypes
  <1>8. /\ from' = [from EXCEPT ![c] = base]
        /\ stamp' = [stamp EXCEPT ![c] = 0] /\ 0 \in 0 .. clock'
    BY <1>2, <1>7, CliTypes
  <1>9. FineClock /\ file # None /\ mtime = base =>
          file.ok /\ EditOf(copy.agents, file.agents) /\ copy.other = file.other
    BY <1>2, <1>3, <1>4, <1>5, <1>7 DEF PolicyFileInv, CopyIsFileEdited
  <1>10. copy # None /\ copy.ok  BY <1>4, <1>5, PolicyFileAssumption
  <1>11. clock' \in 1 .. MaxWrites + 1 /\ writes' \in 0 .. MaxWrites /\ clock' <= writes' + 1
         /\ clock <= clock'
    BY <1>1, <1>2, CliTypes DEF PolicyFileInv, TypeOK
  <1>12. QED
    BY <1>6, <1>7, <1>8, <1>9, <1>10, <1>11, CopyKeeps

LEMMA WriteKeeps ==
    ASSUME PolicyFileInv, NEW c \in Cli, WriteTemp(c)
    PROVE  PolicyFileInv'
  <1>1. PICK m \in {clock, clock + 1} : Stamped(m) /\ stamp' = [stamp EXCEPT ![c] = m]
    BY DEF WriteTemp
  <1>2. /\ UNCHANGED <<file, mtime, pol, polPath, polMod, at, editor>>
        /\ pc[c] = "write" /\ pc' = [pc EXCEPT ![c] = "rename"]
        /\ mine' = mine /\ from' = from
    BY DEF WriteTemp, daemonVars
  <1>3. PICK copy \in Document : copy = mine[c] /\ copy # None /\ copy.ok
    BY <1>2, CliTypes, PolicyFileAssumption
  <1>4. PICK base \in 0 .. clock : base = from[c]  BY CliTypes
  <1>5. mine' = [mine EXCEPT ![c] = copy] /\ from' = [from EXCEPT ![c] = base]
    BY <1>2, <1>3, <1>4, CliTypes
  <1>6. FineClock /\ file # None /\ mtime = base =>
          file.ok /\ EditOf(copy.agents, file.agents) /\ copy.other = file.other
    BY <1>2, <1>3, <1>4 DEF PolicyFileInv, CopyIsFileEdited
  <1>7. /\ m \in Nat /\ m > 0 /\ clock' = m /\ (FineClock => m = clock + 1)
        /\ clock' \in 1 .. MaxWrites + 1 /\ writes' \in 0 .. MaxWrites
        /\ clock' <= writes' + 1 /\ clock <= clock'
    BY <1>1, StampedNext
  <1>8. m \in 0 .. clock' /\ (FineClock => m > clock) /\ m # 0
    BY <1>7, CliTypes
  <1>9. QED  BY <1>1, <1>2, <1>3, <1>4, <1>5, <1>6, <1>7, <1>8, CopyKeeps

LEMMA FailKeeps ==
    ASSUME PolicyFileInv, NEW c \in Cli, Fail(c)
    PROVE  PolicyFileInv'
  <1>1. TypeOK  BY DEF PolicyFileInv
  <1>2. /\ UNCHANGED <<file, mtime, clock, writes, pol, polPath, polMod, at, editor>>
        /\ pc' = [pc EXCEPT ![c] = "idle"] /\ mine' = [mine EXCEPT ![c] = None]
        /\ from' = [from EXCEPT ![c] = 0] /\ stamp' = [stamp EXCEPT ![c] = 0]
    BY DEF Fail, Done, fileVars, daemonVars
  <1>3. 0 \in 0 .. clock /\ 0 \in 0 .. clock'  BY <1>2, CliTypes
  <1>4. clock' \in 1 .. MaxWrites + 1 /\ writes' \in 0 .. MaxWrites /\ clock' <= writes' + 1
        /\ clock <= clock'
    BY <1>1, <1>2, CliTypes DEF PolicyFileInv, TypeOK
  <1>5. QED  BY <1>2, <1>3, <1>4, CopyKeeps

-----------------------------------------------------------------------------
(* The file changes: it gets an mtime nobody has loaded, or disappears.    *)
LEMMA RenameKeeps ==
    ASSUME PolicyFileInv, NEW c \in Cli, Rename(c)
    PROVE  PolicyFileInv'
  <1>1. TypeOK  BY DEF PolicyFileInv
  <1>2. /\ UNCHANGED <<clock, writes, pol, polPath, polMod, at>>
        /\ pc[c] = "rename" /\ file' = mine[c] /\ mtime' = stamp[c]
        /\ editor' = IF file # None /\ ~file.ok THEN None ELSE editor
        /\ pc' = [pc EXCEPT ![c] = "idle"] /\ mine' = [mine EXCEPT ![c] = None]
        /\ from' = [from EXCEPT ![c] = 0] /\ stamp' = [stamp EXCEPT ![c] = 0]
    BY DEF Rename, Done, daemonVars
  <1>3. /\ pc'[c] = "idle" /\ mine'[c] = None /\ from'[c] = 0 /\ stamp'[c] = 0
        /\ \A d \in Cli \ {c} :
             pc'[d] = pc[d] /\ mine'[d] = mine[d] /\ from'[d] = from[d] /\ stamp'[d] = stamp[d]
    BY <1>2, CliTypes
  <1>4. /\ pc' \in [Cli -> {"idle", "stat", "merge", "write", "rename"}]
        /\ mine' \in [Cli -> Document \cup {None}]
        /\ from' \in [Cli -> 0 .. clock'] /\ stamp' \in [Cli -> 0 .. clock']
    <2>1. 0 \in 0 .. clock  BY CliTypes
    <2>2. QED  BY <1>2, <2>1, CliTypes
  <1>5. file' \in Document /\ file' # None /\ mtime' # 0 /\ mtime' \in 0 .. clock'
    BY <1>2, CliTypes, PolicyFileAssumption
  <1>6. \A d \in Cli : IF pc'[d] = "idle" THEN mine'[d] = None
                                          ELSE mine'[d] # None /\ mine'[d].ok
    BY <1>1, <1>3 DEF TypeOK
  <1>7. editor' \in Document \cup {None}  BY <1>1, <1>2 DEF TypeOK
  <1>8. TypeOK'
    BY <1>1, <1>2, <1>4, <1>5, <1>6, <1>7 DEF TypeOK
  <1>9. \A d \in Cli : stamp'[d] # 0 <=> pc'[d] = "rename"  BY <1>3, CliTypes
  <1>10. ASSUME FineClock PROVE StampIsNew' /\ CopyIsFileEdited'
    <2>1. \A d \in Cli : /\ from[d] # stamp[c]
                         /\ pc[d] = "rename" /\ d # c => stamp[d] # stamp[c]
      BY <1>2, <1>10 DEF PolicyFileInv, StampIsNew
    <2>2. StampIsNew'
      <3> SUFFICES ASSUME NEW d \in Cli, pc'[d] = "rename"
                   PROVE  /\ stamp'[d] # mtime'
                          /\ \A e \in Cli : from'[e] # stamp'[d] /\ (e # d => stamp'[e] # stamp'[d])
        BY DEF StampIsNew
      <3>1. d # c /\ pc[d] = "rename" /\ stamp'[d] = stamp[d] /\ stamp[d] # 0
        BY <1>3, CliTypes
      <3>2. \A e \in Cli : from[e] # stamp[d] /\ (e # d => stamp[e] # stamp[d])
        BY <1>10, <3>1 DEF PolicyFileInv, StampIsNew
      <3>3. QED  BY <1>2, <1>3, <2>1, <3>1, <3>2
    <2>3. CopyIsFileEdited'
      <3>1. \A d \in Cli : pc'[d] # "idle" => d # c /\ mtime' # from'[d]
        BY <1>2, <1>3, <2>1
      <3>2. QED  BY <3>1 DEF CopyIsFileEdited
    <2>4. QED  BY <2>2, <2>3
  <1>11. clock' <= writes' + 1  BY <1>2 DEF PolicyFileInv
  <1>12. QED  BY <1>8, <1>9, <1>10, <1>11 DEF PolicyFileInv

LEMMA EditorKeeps ==
    ASSUME PolicyFileInv, Open \/ Truncate \/ Fill \/ Remove
    PROVE  PolicyFileInv'
  <1>1. TypeOK  BY DEF PolicyFileInv
  <1>2. UNCHANGED <<pol, polPath, polMod, at, pc, mine, from, stamp>>
    BY DEF Open, Truncate, Fill, Remove, daemonVars, cliVars
  <1>3. CASE Open
    <2>1. UNCHANGED <<file, mtime, clock, writes>> /\ editor' \in Document \cup {None}
      BY <1>1, <1>3 DEF Open, fileVars, TypeOK
    <2>2. TypeOK'  BY <1>1, <1>2, <2>1 DEF TypeOK
    <2>3. QED  BY <1>2, <2>1, <2>2 DEF PolicyFileInv, StampIsNew, CopyIsFileEdited
  <1>4. CASE Remove
    <2>1. /\ file' = None /\ mtime' = 0 /\ UNCHANGED <<clock, writes, editor>>
      BY <1>4 DEF Remove
    <2>2. 0 \in 0 .. clock'  BY <2>1, CliTypes
    <2>3. TypeOK'  BY <1>1, <1>2, <2>1, <2>2 DEF TypeOK
    <2>4. ASSUME FineClock PROVE StampIsNew' /\ CopyIsFileEdited'
      <3>1. \A c \in Cli : pc[c] = "rename" => stamp[c] # 0  BY CliTypes
      <3>2. QED
        BY <1>2, <2>1, <2>4, <3>1 DEF PolicyFileInv, StampIsNew, CopyIsFileEdited
    <2>5. QED  BY <1>2, <2>1, <2>3, <2>4 DEF PolicyFileInv
  <1>5. CASE Truncate \/ Fill
    <2>1. PICK m \in {clock, clock + 1} : Stamped(m) /\ mtime' = m
      BY <1>5 DEF Truncate, Fill
    <2>2. /\ m \in Nat /\ m > 0 /\ clock' = m /\ (FineClock => m = clock + 1)
          /\ clock' \in 1 .. MaxWrites + 1 /\ writes' \in 0 .. MaxWrites
          /\ clock' <= writes' + 1 /\ clock <= clock'
      BY <2>1, StampedNext
    <2>3. file' \in Document /\ editor' \in Document \cup {None}
      <3>1. CASE Truncate
        <4>1. file \in Document /\ file' = [file EXCEPT !.ok = FALSE] /\ editor' = editor
          BY <1>1, <3>1 DEF Truncate, TypeOK
        <4>2. file' \in Document  BY <4>1, DocumentParts
        <4>3. QED  BY <1>1, <4>1, <4>2 DEF TypeOK
      <3>2. CASE Fill
        <4>1. PICK ok \in BOOLEAN : file' = [editor EXCEPT !.other = writes', !.ok = ok]
          BY <3>2 DEF Fill
        <4>2. editor \in Document /\ editor' = None
          BY <1>1, <3>2 DEF Fill, TypeOK
        <4>3. file' \in Document  BY <2>2, <4>1, <4>2, DocumentParts
        <4>4. QED  BY <4>2, <4>3
      <3>3. QED  BY <1>5, <3>1, <3>2
    <2>4. TypeOK'
      <3>1. /\ from' \in [Cli -> 0 .. clock'] /\ stamp' \in [Cli -> 0 .. clock']
            /\ polMod' \in 0 .. clock' /\ mtime' \in 0 .. clock' /\ mtime' # 0
        BY <1>1, <1>2, <2>1, <2>2, CliTypes DEF TypeOK
      <3>2. file' # None  BY <2>3, PolicyFileAssumption
      <3>3. QED  BY <1>1, <1>2, <2>2, <2>3, <3>1, <3>2 DEF TypeOK
    <2>5. ASSUME FineClock PROVE StampIsNew' /\ CopyIsFileEdited'
      <3>1. mtime' > clock  BY <2>1, <2>2, <2>5, CliTypes
      <3>2. \A c \in Cli : from[c] # mtime' /\ stamp[c] # mtime'
        BY <2>1, <2>2, <3>1, CliTypes
      <3>3. QED
        BY <1>2, <2>5, <3>2 DEF PolicyFileInv, StampIsNew, CopyIsFileEdited
    <2>6. QED  BY <1>2, <2>2, <2>4, <2>5 DEF PolicyFileInv
  <1>6. QED  BY <1>3, <1>4, <1>5

LEMMA PolicyFileStep == PolicyFileInv /\ [Next]_vars => PolicyFileInv'
  <1> SUFFICES ASSUME PolicyFileInv, [Next]_vars PROVE PolicyFileInv'
    OBVIOUS
  <1>1. CASE UNCHANGED vars
    BY <1>1 DEF vars, fileVars, daemonVars, cliVars, PolicyFileInv, TypeOK, StampIsNew,
                CopyIsFileEdited
  <1>2. ASSUME NEW c \in Cli, NEW a \in Agent, Add(c, a) \/ Rm(c, a) PROVE PolicyFileInv'
    <2>1. Loaded.agents \in SUBSET Agent
      BY CliTypes, BuiltinIsDocument, DocumentParts DEF Loaded
    <2>2. CASE Add(c, a)
      <3>1. EditOf(Loaded.agents \cup {a}, Loaded.agents)
        BY <2>1, <2>2, EditsAreEdits DEF Add
      <3>2. QED  BY <2>1, <2>2, <3>1, LoadKeeps DEF Add
    <2>3. CASE Rm(c, a)
      <3>1. EditOf(Loaded.agents \ {a}, Loaded.agents)
        BY <2>1, <2>3, EditsAreEdits DEF Rm
      <3>2. QED  BY <2>1, <2>3, <3>1, LoadKeeps DEF Rm
    <2>4. QED  BY <1>2, <2>2, <2>3
  <1>3. QED
    BY <1>1, <1>2, DaemonKeeps, StatKeeps, MergeKeeps, WriteKeeps, RenameKeeps, FailKeeps,
       EditorKeeps DEF Next

(* The inductive invariant: only documents that parse are served or about  *)
(* to be written, and a clock that tells writes apart gives each its own   *)
(* mtime.                                                                  *)
THEOREM PolicyFileInvAlways == Spec => []PolicyFileInv
  BY PolicyFileInit, PolicyFileStep, PTL DEF Spec

(* As long as no two writes get the same mtime, cad add and rm change a    *)
(* file nobody else replaced meanwhile by their one agent and nothing else.*)
THEOREM UndisturbedEditAlways == FineClock => (Spec => UndisturbedEdit)
  <1> SUFFICES ASSUME FineClock PROVE Spec => UndisturbedEdit
    OBVIOUS
  <1> DEFINE Edited ==
        \A c \in Cli : Rename(c) /\ file # None /\ mtime = from[c] =>
                         file'.other = file.other /\ EditOf(file'.agents, file.agents)
  <1>1. PolicyFileInv => Edited
    BY DEF PolicyFileInv, CopyIsFileEdited, Rename
  <1>2. PolicyFileInv /\ [Next]_vars => [Edited]_vars
    BY <1>1
  <1>3. QED  BY <1>2, PolicyFileInvAlways, PTL DEF Spec, UndisturbedEdit
=============================================================================
