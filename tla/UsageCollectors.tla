--------------------------- MODULE UsageCollectors ----------------------------
(***************************************************************************)
(* How the metadata daemon collects usage (apps/cad/usage.go,              *)
(* codex_usage.go, opencode_usage.go): the detail below Collect of module  *)
(* Readiness.  One collection asks every agent at once; a claude agent     *)
(* runs a command and reads the file it refreshes, a codex agent talks to  *)
(* a server through a goroutine and falls back to the last session's file, *)
(* an opencode agent makes a request.  Each has a deadline.                *)
(*                                                                         *)
(* Time is in ticks, longer than scheduling and than the grace a killed    *)
(* command gets; only what waits for a command takes any.  Numbers are     *)
(* known by their age, which is all that "stale" is about.  The numbers of *)
(* one agent are followed, any of them: they decide nothing for another,   *)
(* nor when anything happens.                                              *)
(***************************************************************************)
EXTENDS Integers, FiniteSetsExt

CONSTANTS
    Claude, Codex, Opencode,    \* the policy's agents, by service
    Intervals,                  \* valid values of collect.usage.every, in ticks
    Bad,                        \* a value of it that is no interval
    Default,                    \* the interval of a policy without one
    UsageTimeout, CodexTimeout, OpencodeTimeout,
    None                        \* no such file, or one that does not parse

Agent == Claude \cup Codex \cup Opencode
MaxEvery == Max(Intervals)

(* An interval is a time.Duration, so there is a longest; an agent is of   *)
(* one service.                                                            *)
ASSUME UsageAssumption ==
    /\ Intervals \subseteq Nat \ {0} /\ Default \in Intervals /\ Bad \notin Nat
    /\ \E n \in Intervals : \A i \in Intervals : n >= i
    /\ Claude \cap Codex = {} /\ Claude \cap Opencode = {} /\ Codex \cap Opencode = {}
    /\ UsageTimeout \in Nat /\ CodexTimeout \in Nat /\ OpencodeTimeout \in Nat
    /\ None \notin Nat

VARIABLES
    setting, lastEvery, \* the policy's collect.usage.every; lastUsageEvery, 0 for none yet
    busy, since, every, \* run's flag, ticks since its last start, the interval collectUsage got
    pc,                 \* per agent: where its collector is
    exchange,           \* per codex agent: codexExchange at work, or its result in the channel
    watched,            \* the agent whose numbers are followed
    cache,              \* age of the numbers in its .claude.json
    out, served         \* its entry in the map being collected, in the usage topic

policyVars == <<setting, lastEvery, watched>>
runVars == <<busy, since, every>>
vars == <<policyVars, runVars, pc, exchange, cache, out, served>>

(* What is published of an agent.  An entry that is in error or stale may  *)
(* hold numbers too; nobody takes them for current, so no age is kept.     *)
Fresh(age) == [mark |-> "fresh", age |-> age]
Stale == [mark |-> "stale", age |-> 0]
Error == [mark |-> "error", age |-> 0]
Absent == [mark |-> "absent", age |-> 0]

(* Ages are capped where nothing tells them apart any more.                *)
OldAge == 2 * MaxEvery + 1
AgeCap == 4 * MaxEvery + 1
Older(e) == IF e.mark = "fresh" /\ e.age < AgeCap THEN Fresh(e.age + 1) ELSE e
FileOlder(age) == IF age \in {None, OldAge} THEN age ELSE age + 1

Init ==
    /\ watched \in Agent
    /\ setting \in Intervals \cup {Bad} /\ lastEvery = 0
    /\ busy = FALSE /\ since = MaxEvery /\ every = 0
    /\ pc = [a \in Agent |-> "idle"]
    /\ exchange = [a \in Codex |-> "none"]
    /\ cache \in IF watched \in Claude THEN {0, None} ELSE {None}
    /\ out = Absent /\ served = Absent

-----------------------------------------------------------------------------
(* usageEvery: an invalid value of the policy keeps the last good one.     *)
UsageEvery == CASE setting # Bad -> setting
                [] setting = Bad /\ lastEvery # 0 -> lastEvery
                [] OTHER -> Default
Noted == IF setting # Bad THEN setting ELSE lastEvery

Due == ~busy /\ since >= UsageEvery

(* run starts the collector, and collectUsage a goroutine per agent, with  *)
(* the policy's interval of that moment.  A command that cannot even start *)
(* is one that ends at once.                                               *)
Start ==
    /\ Due
    /\ busy' = TRUE /\ since' = 0
    /\ lastEvery' = Noted /\ every' = UsageEvery
    /\ pc' = [a \in Agent |-> "run"]
    /\ exchange' = [a \in Codex |-> "asks"]
    /\ UNCHANGED <<setting, watched, cache, out, served>>

Timeout(a) == CASE a \in Claude -> UsageTimeout
                [] a \in Codex -> CodexTimeout
                [] a \in Opencode -> OpencodeTimeout

(* Mutant: nothing ends an agent's turn but its command.                   *)
NoDeadline(a) == FALSE
Expired(a) == since >= Min({Timeout(a), every})

Runs(a) == pc[a] = "run"
Reports(a, e) ==
    /\ Runs(a)
    /\ out' = IF a = watched THEN e ELSE out
    /\ pc' = [pc EXCEPT ![a] = "done"]

-----------------------------------------------------------------------------
(* usageFor reads the file whatever became of the command, but a command   *)
(* that failed is an error even so.                                        *)
Readable(age) == age # None
(* Mutant: numbers of a file nobody refreshes pass for current.            *)
AnyAge(age, failed) == IF failed \/ ~Readable(age) THEN Error ELSE Fresh(age)
FromCache(age, failed) ==
    CASE failed \/ ~Readable(age) -> Error
      [] ~failed /\ Readable(age) /\ age > 2 * every -> Stale
      [] OTHER -> Fresh(age)

(* The command ends, having refreshed the file or not, or is killed at its *)
(* deadline.                                                               *)
ClaudeExits(a) ==
    /\ a \in Claude
    /\ \E age \in {cache} \cup (IF a = watched THEN {0} ELSE {}), failed \in BOOLEAN :
         cache' = age /\ Reports(a, FromCache(age, failed))
    /\ UNCHANGED <<policyVars, runVars, exchange, served>>
ClaudeKilled(a) ==
    /\ a \in Claude /\ Expired(a)
    /\ Reports(a, FromCache(cache, TRUE))
    /\ UNCHANGED <<policyVars, runVars, exchange, cache, served>>

-----------------------------------------------------------------------------
(* codexExchange: the server answers both requests; or it fails, exits or  *)
(* answers nonsense.  The channel has room for the one result.             *)
ServerAnswers(a) ==
    /\ a \in Codex /\ exchange[a] = "asks"
    /\ \E result \in {"windows", "error"} : exchange' = [exchange EXCEPT ![a] = result]
    /\ UNCHANGED <<policyVars, runVars, pc, cache, out, served>>

(* codexUsageFor falls back to the newest rollout, if it has any numbers:  *)
(* those of a session, however long ago.                                   *)
Rollout == {Stale, Error}

(* codexRateLimits: the result or the deadline, whichever select finds.  A *)
(* goroutine given up on is not followed: it shares nothing but a channel  *)
(* that nobody receives from any more, and its server is killed.           *)
TakeResult(a) ==
    /\ a \in Codex /\ exchange[a] \in {"windows", "error"}
    /\ \E e \in IF exchange[a] = "windows" THEN {Fresh(0)} ELSE Rollout : Reports(a, e)
    /\ exchange' = [exchange EXCEPT ![a] = "none"]
    /\ UNCHANGED <<policyVars, runVars, cache, served>>
GiveUp(a) ==
    /\ a \in Codex /\ Expired(a)
    /\ \E e \in Rollout : Reports(a, e)
    /\ exchange' = [exchange EXCEPT ![a] = "none"]
    /\ UNCHANGED <<policyVars, runVars, cache, served>>

-----------------------------------------------------------------------------
(* opencode: one request under the deadline; without a key, none.          *)
Responds(a) ==
    /\ a \in Opencode
    /\ \E e \in {Fresh(0), Error} : Reports(a, e)
    /\ UNCHANGED <<policyVars, runVars, exchange, cache, served>>
RequestTimesOut(a) ==
    /\ a \in Opencode /\ Expired(a)
    /\ Reports(a, Error)
    /\ UNCHANGED <<policyVars, runVars, exchange, cache, served>>

(* wg.Wait: the collection ends with its last agent, and is published.     *)
(* Mutant: without waiting for the others.                                 *)
SomeDone == \E a \in Agent : pc[a] = "done"
AllDone == \A a \in Agent : pc[a] = "done"
Publish ==
    /\ busy /\ AllDone
    /\ served' = out /\ out' = Absent
    /\ busy' = FALSE /\ every' = 0
    /\ pc' = [a \in Agent |-> "idle"]
    /\ UNCHANGED <<policyVars, since, exchange, cache>>

-----------------------------------------------------------------------------
(* Other sessions of an account write its file; the policy is edited.      *)
OtherClaude ==
    /\ watched \in Claude
    /\ cache' \in {0, None}
    /\ UNCHANGED <<policyVars, runVars, pc, exchange, out, served>>
EditPolicy ==
    /\ setting' \in Intervals \cup {Bad}
    /\ UNCHANGED <<lastEvery, watched, runVars, pc, exchange, cache, out, served>>

(* A tick passes when all that is left to do is to wait for a command.     *)
Waits(a) == ~Expired(a) /\ (a \in Codex => exchange[a] = "asks")
Tick ==
    /\ ~Due /\ \A a \in Agent : Runs(a) => Waits(a)
    /\ busy => \E a \in Agent : Runs(a)
    /\ since' = Min({since + 1, MaxEvery})
    /\ lastEvery' = Noted
    /\ cache' = FileOlder(cache) /\ out' = Older(out) /\ served' = Older(served)
    /\ UNCHANGED <<setting, watched, busy, every, pc, exchange>>

(* What the daemon does by itself, and what is up to the commands.         *)
Steps(a) == ClaudeKilled(a) \/ TakeResult(a) \/ GiveUp(a) \/ RequestTimesOut(a)
Commands(a) == ClaudeExits(a) \/ ServerAnswers(a) \/ Responds(a)
Next ==
    \/ Start \/ Publish \/ Tick \/ EditPolicy \/ OtherClaude
    \/ \E a \in Agent : Steps(a) \/ Commands(a)
Spec == Init /\ [][Next]_vars

(* Goroutines run and time passes; no command has to answer or to end.     *)
Fairness ==
    /\ WF_vars(Start) /\ WF_vars(Publish) /\ WF_vars(Tick)
    /\ \A a \in Agent : WF_vars(Steps(a))
FairSpec == Spec /\ Fairness

-----------------------------------------------------------------------------
(* The types, and that a collector or an exchange under way belongs to a   *)
(* collection under way.                                                   *)
TypeOK ==
    /\ watched \in Agent
    /\ setting \in Intervals \cup {Bad} /\ lastEvery \in Intervals \cup {0}
    /\ busy \in BOOLEAN /\ since \in 0 .. MaxEvery
    /\ every \in Intervals \cup {0} /\ (busy <=> every # 0)
    /\ pc \in [Agent -> {"idle", "run", "done"}]
    /\ \A a \in Agent : busy <=> pc[a] # "idle"
    /\ exchange \in [Codex -> {"none", "asks", "windows", "error"}]
    /\ cache \in 0 .. OldAge \cup {None}
    /\ {out, served} \subseteq
           [mark : {"fresh", "stale", "error", "absent"}, age : 0 .. AgeCap]
    /\ \A a \in Codex : exchange[a] # "none" <=> Runs(a)

(* Numbers served as current are current: whatever command hangs, fails or *)
(* answers whatever other sessions write and however the policy's    *)
(* interval is edited, they are never more than four intervals old.  Two   *)
(* is what a value may have missed when it is read; two more pass until    *)
(* the next collection is due and, at its own deadline, published.         *)
ServedAgeBounded == served.mark = "fresh" => served.age <= 4 * MaxEvery

(* The inductive invariant, which is that sum: what is collected has aged  *)
(* since the collection began, no longer than its interval; what is served *)
(* since it was published, or since that collection was due.               *)
AgesAddUp ==
    /\ IF busy THEN since <= every ELSE out = Absent
    /\ out.mark = "fresh" => out.age <= 2 * every + since
    /\ served.mark = "fresh" =>
           served.age <= (IF busy THEN 3 * MaxEvery ELSE 2 * MaxEvery) + since
UsageInv == TypeOK /\ AgesAddUp /\ ServedAgeBounded

(* Once the policy is left alone, usage is collected and published again   *)
(* and again, although every command may hang for ever and the policy may  *)
(* hold no valid interval.                                                 *)
PublishedAgainAndAgain == <>[][~EditPolicy]_vars => []<><<Publish>>_vars
=============================================================================
