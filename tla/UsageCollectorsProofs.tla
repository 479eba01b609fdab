------------------------ MODULE UsageCollectorsProofs -------------------------
(***************************************************************************)
(* Proofs about UsageCollectors, for any agents of the three services, any *)
(* intervals and any deadlines: numbers served as current are never older  *)
(* than four of the longest interval.                                      *)
(***************************************************************************)
EXTENDS UsageCollectors, TLAPS

Entry == [mark : {"fresh", "stale", "error", "absent"}, age : 0 .. AgeCap]

LEMMA LongestInterval ==
    /\ MaxEvery \in Intervals /\ MaxEvery \in Nat /\ MaxEvery > 0
    /\ \A i \in Intervals : i \in Nat /\ 0 < i /\ i <= MaxEvery
  <1>1. PICK n \in Intervals : \A i \in Intervals : n >= i  BY UsageAssumption
  <1>2. MaxEvery \in Intervals /\ \A i \in Intervals : MaxEvery >= i
    BY <1>1 DEF MaxEvery, Max
  <1>3. QED  BY <1>2, UsageAssumption

LEMMA LesserOfTwo ==
    ASSUME NEW x \in Nat, NEW y \in Nat
    PROVE  Min({x, y}) \in {x, y} /\ Min({x, y}) <= x /\ Min({x, y}) <= y
  <1>1. \E u \in {x, y} : \A z \in {x, y} : u <= z
    <2>1. CASE x <= y  BY <2>1
    <2>2. CASE y <= x  BY <2>2
    <2>3. QED  BY <2>1, <2>2
  <1>2. Min({x, y}) \in {x, y} /\ \A z \in {x, y} : Min({x, y}) <= z
    BY <1>1 DEF Min
  <1>3. QED  BY <1>2

(* What the bounds are, and entries made of them.                          *)
LEMMA Bounds ==
    /\ OldAge \in Nat /\ OldAge = 2 * MaxEvery + 1
    /\ AgeCap \in Nat /\ AgeCap = 4 * MaxEvery + 1
  BY LongestInterval DEF OldAge, AgeCap

LEMMA Entries ==
    /\ Stale \in Entry /\ Error \in Entry /\ Absent \in Entry
    /\ Stale.mark # "fresh" /\ Error.mark # "fresh" /\ Absent.mark # "fresh"
    /\ \A age \in 0 .. AgeCap : Fresh(age) \in Entry /\ Fresh(age).age = age
  BY Bounds DEF Entry, Stale, Error, Absent, Fresh

(* A tick makes an entry one tick older, unless its age is capped.         *)
LEMMA OlderByOne ==
    ASSUME NEW e \in Entry
    PROVE  /\ Older(e) \in Entry
           /\ Older(e).mark = e.mark
           /\ e.mark = "fresh" => Older(e).age <= e.age + 1
  <1>1. e.mark \in {"fresh", "stale", "error", "absent"} /\ e.age \in 0 .. AgeCap
    BY DEF Entry
  <1>2. CASE e.mark = "fresh" /\ e.age < AgeCap
    <2>1. e.age + 1 \in 0 .. AgeCap  BY <1>1, <1>2, Bounds
    <2>2. Older(e) = Fresh(e.age + 1)  BY <1>2 DEF Older
    <2>3. QED  BY <1>1, <1>2, <2>1, <2>2, Entries DEF Fresh
  <1>3. CASE ~(e.mark = "fresh" /\ e.age < AgeCap)
    <2>1. Older(e) = e  BY <1>3 DEF Older
    <2>2. QED  BY <1>1, <2>1
  <1>4. QED  BY <1>2, <1>3

LEMMA FileAges ==
    ASSUME NEW age \in 0 .. OldAge \cup {None}
    PROVE  FileOlder(age) \in 0 .. OldAge \cup {None}
  BY Bounds DEF FileOlder

(* What is read of a file is at most two intervals old, or not current.    *)
LEMMA ReadIsYoung ==
    ASSUME TypeOK, busy, NEW age \in 0 .. OldAge \cup {None}, NEW failed \in BOOLEAN
    PROVE  /\ FromCache(age, failed) \in Entry
           /\ FromCache(age, failed).mark = "fresh" => FromCache(age, failed).age <= 2 * every
  <1>1. every \in Nat  BY LongestInterval DEF TypeOK
  <1>2. CASE failed \/ ~Readable(age)
    BY <1>2, Entries DEF FromCache
  <1>3. CASE ~failed /\ Readable(age) /\ age > 2 * every
    BY <1>3, Entries DEF FromCache
  <1>4. CASE ~failed /\ Readable(age) /\ ~(age > 2 * every)
    <2>1. age \in 0 .. OldAge  BY <1>4 DEF Readable
    <2>2. age \in 0 .. AgeCap /\ age <= 2 * every  BY <1>1, <1>4, <2>1, Bounds, LongestInterval
    <2>3. FromCache(age, failed) = Fresh(age)  BY <1>4 DEF FromCache
    <2>4. QED  BY <2>2, <2>3, Entries
  <1>5. QED  BY <1>2, <1>3, <1>4

-----------------------------------------------------------------------------
(* usageEvery is an interval, whatever the policy says.                    *)
LEMMA EveryIsInterval ==
    ASSUME TypeOK
    PROVE  /\ UsageEvery \in Intervals /\ Noted \in Intervals \cup {0}
           /\ UsageEvery \in Nat /\ 0 < UsageEvery /\ UsageEvery <= MaxEvery
  <1>1. setting \in Intervals \cup {Bad} /\ lastEvery \in Intervals \cup {0} /\ Default \in Intervals
    BY UsageAssumption DEF TypeOK
  <1>2. UsageEvery \in Intervals
    <2>1. CASE setting # Bad  BY <1>1, <2>1 DEF UsageEvery
    <2>2. CASE setting = Bad /\ lastEvery # 0  BY <1>1, <2>2 DEF UsageEvery
    <2>3. CASE setting = Bad /\ lastEvery = 0  BY <1>1, <2>3 DEF UsageEvery
    <2>4. QED  BY <2>1, <2>2, <2>3
  <1>3. Noted \in Intervals \cup {0}  BY <1>1 DEF Noted
  <1>4. QED  BY <1>2, <1>3, LongestInterval

(* A collector still waiting has not reached its collection's interval.    *)
LEMMA WaitingIsInTime ==
    ASSUME TypeOK, busy, NEW a \in Agent, Waits(a)
    PROVE  since < every
  <1>1. since \in Nat /\ every \in Nat  BY LongestInterval DEF TypeOK
  <1>2. Timeout(a) \in Nat  BY UsageAssumption DEF Timeout, Agent
  <1>3. PICK d \in Nat : d = Min({Timeout(a), every}) /\ d <= every
    BY <1>1, <1>2, LesserOfTwo
  <1>4. ~(since >= d)  BY <1>3 DEF Waits, Expired
  <1>5. QED  BY <1>1, <1>3, <1>4

LEMMA UsageInit == Init => UsageInv
  <1> SUFFICES ASSUME Init PROVE UsageInv
    OBVIOUS
  <1>1. \A a \in Agent : pc[a] = "idle"  BY DEF Init
  <1>2. Codex \subseteq Agent  BY DEF Agent
  <1>3. cache \in 0 .. OldAge \cup {None}  BY Bounds DEF Init
  <1>4. since \in 0 .. MaxEvery  BY LongestInterval DEF Init
  <1>5. TypeOK
    BY <1>1, <1>2, <1>3, <1>4, Entries DEF Init, TypeOK, Entry, Runs
  <1>6. QED  BY <1>5, Entries DEF Init, UsageInv, AgesAddUp, ServedAgeBounded

-----------------------------------------------------------------------------
(* One lemma per kind of step.                                             *)
LEMMA StartKeeps == UsageInv /\ Start => UsageInv'
  <1> SUFFICES ASSUME UsageInv, Start PROVE UsageInv'
    OBVIOUS
  <1>1. TypeOK /\ AgesAddUp  BY DEF UsageInv
  <1>2. ~busy /\ since >= UsageEvery  BY DEF Start, Due
  <1>3. since \in Nat /\ since <= MaxEvery  BY <1>1, LongestInterval DEF TypeOK
  <1>4. every' = UsageEvery /\ since' = 0 /\ busy' = TRUE  BY DEF Start
  <1>5. \A a \in Agent : pc'[a] = "run"  BY DEF Start
  <1>6. Codex \subseteq Agent /\ \A a \in Codex : exchange'[a] = "asks"  BY DEF Start, Agent
  <1>7. TypeOK'
    <2>1. every' \in Intervals \cup {0} /\ every' # 0 /\ lastEvery' \in Intervals \cup {0}
      BY <1>1, <1>4, EveryIsInterval DEF Start
    <2>2. since' \in 0 .. MaxEvery  BY <1>4, LongestInterval
    <2>3. pc' \in [Agent -> {"idle", "run", "done"}]
          /\ exchange' \in [Codex -> {"none", "asks", "windows", "error"}]
      BY DEF Start
    <2>4. QED  BY <1>1, <1>4, <1>5, <1>6, <2>1, <2>2, <2>3 DEF Start, TypeOK, Runs
  <1>8. out' = Absent /\ served' = served  BY <1>1, <1>2 DEF Start, AgesAddUp
  <1>9. served.mark = "fresh" => served.age <= 3 * MaxEvery
    <2>1. served.age \in Nat  BY <1>1, Bounds DEF TypeOK
    <2>2. QED  BY <1>1, <1>2, <1>3, <2>1, LongestInterval DEF AgesAddUp
  <1>10. AgesAddUp'
    BY <1>1, <1>4, <1>8, <1>9, Entries, EveryIsInterval, LongestInterval DEF AgesAddUp
  <1>11. ServedAgeBounded'  BY <1>8 DEF UsageInv, ServedAgeBounded
  <1>12. QED  BY <1>7, <1>10, <1>11 DEF UsageInv

(* The collector of an agent is done, with an entry that is not too old.   *)
LEMMA ReportKeeps ==
    ASSUME UsageInv, NEW a \in Agent, NEW e \in Entry, Reports(a, e),
           e.mark = "fresh" => e.age <= 2 * every,
           UNCHANGED <<policyVars, runVars, served>>,
           cache' \in 0 .. OldAge \cup {None},
           exchange' = IF a \in Codex THEN [exchange EXCEPT ![a] = "none"] ELSE exchange
    PROVE  UsageInv'
  <1>1. TypeOK /\ AgesAddUp  BY DEF UsageInv
  <1>2. pc[a] = "run" /\ busy  BY <1>1 DEF Reports, Runs, TypeOK
  <1>3. every \in Nat /\ since \in Nat  BY <1>1, LongestInterval DEF TypeOK
  <1>4. /\ UNCHANGED <<setting, lastEvery, watched, busy, since, every, served>>
        /\ pc' = [pc EXCEPT ![a] = "done"]
        /\ out' = IF a = watched THEN e ELSE out
    BY DEF Reports, policyVars, runVars
  <1>5. /\ pc \in [Agent -> {"idle", "run", "done"}]
        /\ exchange \in [Codex -> {"none", "asks", "windows", "error"}]
        /\ out \in Entry
    BY <1>1 DEF TypeOK, Entry
  <1>6. /\ pc' \in [Agent -> {"idle", "run", "done"}] /\ pc'[a] = "done"
        /\ \A b \in Agent : b # a => pc'[b] = pc[b]
    BY <1>4, <1>5
  <1>7. /\ exchange' \in [Codex -> {"none", "asks", "windows", "error"}]
        /\ \A b \in Codex : exchange'[b] = IF b = a THEN "none" ELSE exchange[b]
    BY <1>5
  <1>8. \A b \in Agent : busy' <=> pc'[b] # "idle"
    BY <1>1, <1>2, <1>4, <1>6 DEF TypeOK
  <1>9. \A b \in Codex : exchange'[b] # "none" <=> pc'[b] = "run"
    BY <1>1, <1>6, <1>7 DEF TypeOK, Runs, Agent
  <1>10. out' \in Entry  BY <1>4, <1>5
  <1>11. TypeOK'
    BY <1>1, <1>4, <1>6, <1>7, <1>8, <1>9, <1>10 DEF TypeOK, Runs, Entry
  <1>12. out'.mark = "fresh" => out'.age <= 2 * every + since
    <2>1. CASE a = watched
      <3>1. e.age \in Nat  BY Bounds DEF Entry
      <3>2. QED  BY <1>3, <1>4, <2>1, <3>1
    <2>2. CASE a # watched  BY <1>1, <1>4, <2>2 DEF AgesAddUp
    <2>3. QED  BY <2>1, <2>2
  <1>13. AgesAddUp'  BY <1>1, <1>2, <1>4, <1>12 DEF AgesAddUp
  <1>14. ServedAgeBounded'  BY <1>4 DEF UsageInv, ServedAgeBounded
  <1>15. QED  BY <1>11, <1>13, <1>14 DEF UsageInv

LEMMA ClaudeKeeps ==
    ASSUME UsageInv, NEW a \in Agent, ClaudeExits(a) \/ ClaudeKilled(a)
    PROVE  UsageInv'
  <1>1. TypeOK  BY DEF UsageInv
  <1>2. a \in Claude /\ a \notin Codex /\ busy
    BY <1>1, UsageAssumption DEF ClaudeExits, ClaudeKilled, Reports, Runs, TypeOK
  <1>3. UNCHANGED <<policyVars, runVars, served>> /\ exchange' = exchange
    BY DEF ClaudeExits, ClaudeKilled
  <1>4. cache \in 0 .. OldAge \cup {None} /\ 0 \in 0 .. OldAge
    BY <1>1, Bounds DEF TypeOK
  <1>5. CASE ClaudeExits(a)
    <2>1. PICK age \in {cache} \cup (IF a = watched THEN {0} ELSE {}), failed \in BOOLEAN :
            cache' = age /\ Reports(a, FromCache(age, failed))
      BY <1>5 DEF ClaudeExits
    <2>2. age \in 0 .. OldAge \cup {None}  BY <1>4, <2>1
    <2>3. /\ FromCache(age, failed) \in Entry
          /\ FromCache(age, failed).mark = "fresh" => FromCache(age, failed).age <= 2 * every
      BY <1>1, <1>2, <2>2, ReadIsYoung
    <2>4. QED  BY <1>2, <1>3, <1>4, <2>1, <2>2, <2>3, ReportKeeps
  <1>6. CASE ClaudeKilled(a)
    <2>1. Reports(a, FromCache(cache, TRUE)) /\ cache' = cache  BY <1>6 DEF ClaudeKilled
    <2>2. /\ FromCache(cache, TRUE) \in Entry
          /\ FromCache(cache, TRUE).mark = "fresh" => FromCache(cache, TRUE).age <= 2 * every
      BY <1>1, <1>2, <1>4, ReadIsYoung
    <2>3. QED  BY <1>2, <1>3, <1>4, <2>1, <2>2, ReportKeeps
  <1>7. QED  BY <1>5, <1>6

(* An answer that is just in, or none that counts as current.              *)
LEMMA NewOrNotFresh ==
    ASSUME TypeOK, NEW e \in {Fresh(0), Stale, Error}
    PROVE  e \in Entry /\ (e.mark = "fresh" => e.age <= 2 * every)
  <1>1. every \in Nat /\ 0 \in 0 .. AgeCap  BY Bounds, LongestInterval DEF TypeOK
  <1>2. QED  BY <1>1, Entries

LEMMA CodexKeeps ==
    ASSUME UsageInv, NEW a \in Agent, TakeResult(a) \/ GiveUp(a)
    PROVE  UsageInv'
  <1>1. TypeOK  BY DEF UsageInv
  <1>2. /\ a \in Codex /\ UNCHANGED <<policyVars, runVars, cache, served>>
        /\ exchange' = [exchange EXCEPT ![a] = "none"]
    BY DEF TakeResult, GiveUp
  <1>3. cache' \in 0 .. OldAge \cup {None}  BY <1>1, <1>2 DEF TypeOK
  <1>4. PICK e \in {Fresh(0), Stale, Error} : Reports(a, e)
    BY DEF TakeResult, GiveUp, Rollout
  <1>5. e \in Entry /\ (e.mark = "fresh" => e.age <= 2 * every)  BY <1>1, NewOrNotFresh
  <1>6. QED  BY <1>2, <1>3, <1>4, <1>5, ReportKeeps

LEMMA OpencodeKeeps ==
    ASSUME UsageInv, NEW a \in Agent, Responds(a) \/ RequestTimesOut(a)
    PROVE  UsageInv'
  <1>1. TypeOK  BY DEF UsageInv
  <1>2. /\ a \notin Codex /\ UNCHANGED <<policyVars, runVars, cache, served>>
        /\ exchange' = exchange
    BY UsageAssumption DEF Responds, RequestTimesOut
  <1>3. cache' \in 0 .. OldAge \cup {None}
    BY <1>1, <1>2 DEF TypeOK
  <1>4. PICK e \in {Fresh(0), Stale, Error} : Reports(a, e)
    BY DEF Responds, RequestTimesOut
  <1>5. e \in Entry /\ (e.mark = "fresh" => e.age <= 2 * every)  BY <1>1, NewOrNotFresh
  <1>6. QED  BY <1>2, <1>3, <1>4, <1>5, ReportKeeps

-----------------------------------------------------------------------------
(* The steps that collect nothing.                                         *)
LEMMA ExchangeKeeps ==
    ASSUME UsageInv, NEW a \in Codex, ServerAnswers(a)
    PROVE  UsageInv'
  <1>1. TypeOK /\ AgesAddUp /\ ServedAgeBounded  BY DEF UsageInv
  <1>2. /\ UNCHANGED <<policyVars, runVars, pc, cache, out, served>>
        /\ UNCHANGED <<setting, lastEvery, watched, busy, since, every>>
    BY DEF ServerAnswers, policyVars, runVars
  <1>3. /\ exchange' \in [Codex -> {"none", "asks", "windows", "error"}]
        /\ \A b \in Codex : exchange'[b] # "none" <=> exchange[b] # "none"
    <2>1. exchange \in [Codex -> {"none", "asks", "windows", "error"}]
      BY <1>1 DEF TypeOK
    <2>2. QED  BY <2>1 DEF ServerAnswers
  <1>4. TypeOK'  BY <1>1, <1>2, <1>3 DEF TypeOK, Runs
  <1>5. QED  BY <1>1, <1>2, <1>4 DEF UsageInv, AgesAddUp, ServedAgeBounded

LEMMA EnvironmentKeeps ==
    ASSUME UsageInv, OtherClaude \/ EditPolicy \/ UNCHANGED vars
    PROVE  UsageInv'
  <1>1. TypeOK /\ AgesAddUp /\ ServedAgeBounded  BY DEF UsageInv
  <1>2. UNCHANGED <<lastEvery, watched, busy, since, every, pc, exchange, out, served>>
    BY DEF OtherClaude, EditPolicy, vars, policyVars, runVars
  <1>3. setting' \in Intervals \cup {Bad} /\ cache' \in 0 .. OldAge \cup {None}
    BY <1>1, Bounds DEF OtherClaude, EditPolicy, vars, policyVars, TypeOK
  <1>4. TypeOK'  BY <1>1, <1>2, <1>3 DEF TypeOK, Runs
  <1>5. QED  BY <1>1, <1>2, <1>4 DEF UsageInv, AgesAddUp, ServedAgeBounded

(* What was collected is served: at most two intervals old when the        *)
(* collection began.                                                       *)
LEMMA PublishKeeps == UsageInv /\ Publish => UsageInv'
  <1> SUFFICES ASSUME UsageInv, Publish PROVE UsageInv'
    OBVIOUS
  <1>1. TypeOK /\ AgesAddUp  BY DEF UsageInv
  <1>2. busy /\ AllDone  BY DEF Publish
  <1>3. /\ served' = out /\ out' = Absent /\ busy' = FALSE /\ every' = 0
        /\ \A a \in Agent : pc'[a] = "idle"
        /\ pc' \in [Agent -> {"idle", "run", "done"}]
        /\ UNCHANGED <<setting, lastEvery, watched, since, exchange, cache>>
    BY DEF Publish, policyVars
  <1>4. every \in Nat /\ every <= MaxEvery /\ since \in Nat /\ since <= MaxEvery
    BY <1>1, LongestInterval DEF TypeOK
  <1>5. \A a \in Codex : exchange[a] = "none" /\ pc'[a] # "run"
    BY <1>1, <1>2, <1>3 DEF AllDone, TypeOK, Runs, Agent
  <1>6. TypeOK'
    <2>1. busy' \in BOOLEAN /\ every' \in Intervals \cup {0} /\ (busy' <=> every' # 0)
      BY <1>3
    <2>2. \A a \in Agent : busy' <=> pc'[a] # "idle"  BY <1>3
    <2>3. \A a \in Codex : exchange'[a] # "none" <=> Runs(a)'  BY <1>3, <1>5 DEF Runs
    <2>4. out' \in Entry /\ served' \in Entry  BY <1>1, <1>3, Entries DEF TypeOK, Entry
    <2>5. /\ watched' \in Agent /\ since' \in 0 .. MaxEvery
          /\ setting' \in Intervals \cup {Bad} /\ lastEvery' \in Intervals \cup {0}
          /\ exchange' \in [Codex -> {"none", "asks", "windows", "error"}]
          /\ cache' \in 0 .. OldAge \cup {None}
      BY <1>1, <1>3 DEF TypeOK
    <2>6. QED  BY <1>3, <2>1, <2>2, <2>3, <2>4, <2>5 DEF TypeOK, Entry
  <1>7. out.mark = "fresh" => out.age <= 2 * MaxEvery + since
    <2>1. out.age \in Nat  BY <1>1, Bounds DEF TypeOK
    <2>2. QED  BY <1>1, <1>4, <2>1, LongestInterval DEF AgesAddUp
  <1>8. AgesAddUp'  BY <1>3, <1>7, Entries DEF AgesAddUp
  <1>9. ServedAgeBounded'
    <2>1. out.age \in Nat  BY <1>1, Bounds DEF TypeOK
    <2>2. QED  BY <1>3, <1>4, <1>7, <2>1, LongestInterval DEF ServedAgeBounded
  <1>10. QED  BY <1>6, <1>8, <1>9 DEF UsageInv

(* A tick passes within the interval of the collection under way, or until *)
(* the next is due.                                                        *)
LEMMA TickKeeps == UsageInv /\ Tick => UsageInv'
  <1> SUFFICES ASSUME UsageInv, Tick PROVE UsageInv'
    OBVIOUS
  <1>1. TypeOK /\ AgesAddUp  BY DEF UsageInv
  <1>2. /\ UNCHANGED <<setting, watched, busy, every, pc, exchange>>
        /\ since' = Min({since + 1, MaxEvery}) /\ lastEvery' = Noted
        /\ cache' = FileOlder(cache) /\ out' = Older(out) /\ served' = Older(served)
    BY DEF Tick
  <1>3. every \in Nat /\ every <= MaxEvery /\ since \in Nat /\ MaxEvery \in Nat
    BY <1>1, LongestInterval DEF TypeOK
  <1>4. since < MaxEvery /\ (busy => since < every)
    <2>1. CASE busy
      <3>1. PICK a \in Agent : Waits(a)  BY <2>1 DEF Tick
      <3>2. since < every  BY <1>1, <2>1, <3>1, WaitingIsInTime
      <3>3. QED  BY <1>3, <3>2
    <2>2. CASE ~busy
      <3>1. ~(since >= UsageEvery)  BY <2>2 DEF Tick, Due
      <3>2. QED  BY <1>1, <1>3, <2>2, <3>1, EveryIsInterval
    <2>3. QED  BY <2>1, <2>2
  <1>5. since' = since + 1
    <2>1. since + 1 \in Nat /\ since + 1 <= MaxEvery  BY <1>3, <1>4
    <2>2. PICK n \in {since + 1, MaxEvery} : since' = n /\ n <= since + 1 /\ n <= MaxEvery
      BY <1>2, <1>3, <2>1, LesserOfTwo
    <2>3. QED  BY <1>3, <2>1, <2>2
  <1>6. out \in Entry /\ served \in Entry  BY <1>1 DEF TypeOK, Entry
  <1>7. out' \in Entry /\ served' \in Entry  BY <1>2, <1>6, OlderByOne
  <1>8. TypeOK'
    <2>1. cache' \in 0 .. OldAge \cup {None}  BY <1>1, <1>2, FileAges DEF TypeOK
    <2>2. lastEvery' \in Intervals \cup {0}  BY <1>1, <1>2, EveryIsInterval
    <2>3. since' \in 0 .. MaxEvery  BY <1>3, <1>4, <1>5
    <2>4. QED  BY <1>1, <1>2, <1>7, <2>1, <2>2, <2>3 DEF TypeOK, Runs, Entry
  <1>9. out'.mark = "fresh" => out'.age <= 2 * every + since'
    <2>1. out.mark = "fresh" => out.age <= 2 * every + since  BY <1>1 DEF AgesAddUp
    <2>2. out'.mark = out.mark /\ (out.mark = "fresh" => out'.age <= out.age + 1)
      BY <1>2, <1>6, OlderByOne
    <2>3. out.age \in Nat /\ out'.age \in Nat  BY <1>6, <1>7, Bounds DEF Entry
    <2>4. QED  BY <1>3, <1>5, <2>1, <2>2, <2>3
  <1>10. /\ served'.mark = "fresh" =>
              served'.age <= (IF busy THEN 3 * MaxEvery ELSE 2 * MaxEvery) + since'
         /\ ServedAgeBounded'
    <2>1. served.mark = "fresh" =>
            served.age <= (IF busy THEN 3 * MaxEvery ELSE 2 * MaxEvery) + since
      BY <1>1 DEF AgesAddUp
    <2>2. served'.mark = served.mark /\ (served.mark = "fresh" => served'.age <= served.age + 1)
      BY <1>2, <1>6, OlderByOne
    <2>3. served.age \in Nat /\ served'.age \in Nat  BY <1>6, <1>7, Bounds DEF Entry
    <2>4. served'.mark = "fresh" =>
            served'.age <= (IF busy THEN 3 * MaxEvery ELSE 2 * MaxEvery) + since'
      BY <1>3, <1>5, <2>1, <2>2, <2>3
    <2>5. since' <= MaxEvery  BY <1>3, <1>4, <1>5
    <2>6. served'.mark = "fresh" => served'.age <= 4 * MaxEvery
      BY <1>3, <1>5, <2>3, <2>4, <2>5
    <2>7. MaxEvery' = MaxEvery  BY DEF MaxEvery
    <2>8. QED  BY <2>4, <2>6, <2>7 DEF ServedAgeBounded
  <1>11. IF busy' THEN since' <= every' ELSE out' = Absent
    <2>1. CASE busy  BY <1>2, <1>3, <1>4, <1>5, <2>1
    <2>2. CASE ~busy
      <3>1. out = Absent  BY <1>1, <2>2 DEF AgesAddUp
      <3>2. Older(out) = out  BY <3>1, Entries DEF Older
      <3>3. QED  BY <1>2, <2>2, <3>1, <3>2
    <2>3. QED  BY <2>1, <2>2
  <1>12. AgesAddUp'  BY <1>2, <1>9, <1>10, <1>11 DEF AgesAddUp
  <1>13. QED  BY <1>8, <1>10, <1>12 DEF UsageInv

LEMMA UsageStep == UsageInv /\ [Next]_vars => UsageInv'
  <1> SUFFICES ASSUME UsageInv, [Next]_vars PROVE UsageInv'
    OBVIOUS
  <1>1. ASSUME NEW a \in Agent, Steps(a) \/ Commands(a) PROVE UsageInv'
    <2>1. CASE ServerAnswers(a)
      <3>1. a \in Codex  BY <2>1 DEF ServerAnswers
      <3>2. QED  BY <2>1, <3>1, ExchangeKeeps
    <2>2. CASE ~ServerAnswers(a)
      BY <1>1, <2>2, ClaudeKeeps, CodexKeeps, OpencodeKeeps DEF Steps, Commands
    <2>3. QED  BY <2>1, <2>2
  <1>2. QED
    BY <1>1, StartKeeps, PublishKeeps, TickKeeps, ExchangeKeeps, EnvironmentKeeps DEF Next

(* The inductive invariant: a collector or an exchange under way belongs   *)
(* to a collection under way, and no age has more than it can have.        *)
THEOREM UsageInvAlways == Spec => []UsageInv
  BY UsageInit, UsageStep, PTL DEF Spec

(* Whatever hangs, fails or answers late, and however the interval is      *)
(* edited, numbers served as current are at most four intervals old.       *)
THEOREM ServedAgeBoundedAlways == Spec => []ServedAgeBounded
  <1>1. UsageInv => ServedAgeBounded  BY DEF UsageInv
  <1>2. QED  BY <1>1, UsageInvAlways, PTL
=============================================================================
