------------------------------- MODULE Place --------------------------------
(***************************************************************************)
(* orchd place (apps/orchd/place.go): which agent, on which computer, runs *)
(* a task of a class.  place is pure; its two loops, over the rules and    *)
(* over the agents in name order, are a state machine of one step per      *)
(* iteration, on an input fixed at the start.  Times are natural numbers,  *)
(* 0 Go's zero time.  A rule's pattern is the set of agents it matches, or *)
(* Self; an error, a missing entry and a nil window are model values or    *)
(* absent keys.  The reasons of a refusal are left out.                    *)
(***************************************************************************)
EXTENDS Integers, Sequences

CONSTANTS
    AgentName,      \* "<service>/<account>"
    Rules,          \* [agent : pattern, computer, class : set of classes, {} = any]
    Inputs,         \* the policies, usages and requests place is called with
    Time,           \* the moments the properties speak of
    Self,           \* the pattern "self"
    Local,          \* the computer "local"
    Nil             \* no such window

Window == [used : Nat, resets : Nat, limited : BOOLEAN]
WindowName == {"5h", "7d", "monthly"}

(* What place relies on of its input: loadPolicy's checks and Go's types.  *)
WellFormed(i) ==
    /\ i.rules \in Seq(Rules) /\ i.agents \in Seq(AgentName)
    /\ i.block \in BOOLEAN /\ i.slots \in Nat
    /\ i.limit \in Int /\ i.est \in Nat
    /\ i.now \in Nat
    /\ \A a \in DOMAIN i.usage :
         /\ i.usage[a].error \in BOOLEAN /\ i.usage[a].stale \in BOOLEAN
         /\ i.usage[a].windows \in [WindowName -> Window \cup {Nil}]

ASSUME PlaceAssumption ==
    /\ \A i \in Inputs : WellFormed(i)
    /\ Time \subseteq Nat
    /\ Nil \notin Window

VARIABLES
    in,             \* the call's policy, usage and request
    rule, pos,      \* the rule and the agent the loops are at; pos 0: not in the inner loop
    deferUntil,     \* 0: zero
    status,         \* "running", then 200, 409 or 422 as a string
    picked          \* the rule and the agent's position, once status is "200"

vars == <<in, rule, pos, deferUntil, status, picked>>

-----------------------------------------------------------------------------
(* usableUsage at now: agents with an error are as if cad had not listed   *)
(* them, and a window whose reset has passed counts as unused.             *)
Known(a) == a \in DOMAIN in.usage /\ ~in.usage[a].error
(* Mutant: a passed reset empties a window but keeps its rate-limit mark.  *)
CurrentLimited(w, now) ==
    IF w # Nil /\ w.resets <= now
    THEN [used |-> 0, resets |-> w.resets, limited |-> w.limited] ELSE w
Current(w, now) ==
    IF w # Nil /\ w.resets <= now
    THEN [used |-> 0, resets |-> w.resets, limited |-> FALSE] ELSE w

(* runners["<service>@<computer>"] first, then runners["<service>"]; each  *)
(* runner is its mode.                                                     *)
HasRunner(a, c) == <<in.service[a], c>> \in DOMAIN in.runners \/ <<in.service[a]>> \in DOMAIN in.runners
Runner(a, c) ==
    IF <<in.service[a], c>> \in DOMAIN in.runners THEN in.runners[<<in.service[a], c>>]
                                                  ELSE in.runners[<<in.service[a]>>]

Over(w) == w # Nil /\ (w.limited \/ w.used + in.est > in.limit)
(* Mutant: the earliest reset of the exceeded windows instead of the last. *)
EarlierReset(w, free) == IF Over(w) /\ (free = 0 \/ w.resets < free) THEN w.resets ELSE free
LaterReset(w, free) == IF Over(w) /\ w.resets > free THEN w.resets ELSE free
Use(a, name) == Current(in.usage[a].windows[name], in.now)
AnyOver(a) == \E name \in WindowName : Over(Use(a, name))
Free(a) == LaterReset(Use(a, "monthly"), LaterReset(Use(a, "7d"), LaterReset(Use(a, "5h"), 0)))

-----------------------------------------------------------------------------
PlaceInit ==
    /\ in \in Inputs
    /\ rule = 1 /\ pos = 0 /\ deferUntil = 0
    /\ status = "running" /\ picked = <<0, 0>>

Rule == in.rules[rule]
Agent == in.agents[pos]
InRules == status = "running" /\ pos = 0 /\ rule <= Len(in.rules)
InAgents == status = "running" /\ pos \in 1 .. Len(in.agents)

RuleDropped ==
    \/ Rule.class # {} /\ in.class \notin Rule.class
    \/ Rule.computer \in in.exclude
    \/ Rule.computer \notin in.computers /\ Rule.computer # Local
    \/ Rule.computer = Local /\ in.slots < 1
    \/ Rule.agent = Self /\ in.self \notin {in.agents[n] : n \in DOMAIN in.agents}
AgentDropped ==
    \/ Agent \notin (IF Rule.agent = Self THEN {in.self} ELSE Rule.agent)
    \/ ~HasRunner(Agent, Rule.computer)
    \/ Runner(Agent, Rule.computer) = "subagent" /\ Agent # in.self
    \/ Known(Agent) /\ in.usage[Agent].stale /\ in.block

SkipRule ==
    /\ InRules /\ RuleDropped
    /\ rule' = rule + 1
    /\ UNCHANGED <<in, pos, deferUntil, status, picked>>

EnterRule ==
    /\ InRules /\ ~RuleDropped
    /\ pos' = 1
    /\ UNCHANGED <<in, rule, deferUntil, status, picked>>

SkipAgent ==
    /\ InAgents /\ AgentDropped
    /\ pos' = pos + 1
    /\ UNCHANGED <<in, rule, deferUntil, status, picked>>

(* A stale or unknown usage is placed, and so is one with room.            *)
Pick ==
    /\ InAgents /\ ~AgentDropped
    /\ Known(Agent) /\ ~in.usage[Agent].stale => ~AnyOver(Agent)
    /\ status' = "200" /\ picked' = <<rule, pos>>
    /\ UNCHANGED <<in, rule, pos, deferUntil>>

SoonerDefer(free) == IF deferUntil = 0 \/ free < deferUntil THEN free ELSE deferUntil

Block ==
    /\ InAgents /\ ~AgentDropped
    /\ Known(Agent) /\ ~in.usage[Agent].stale /\ AnyOver(Agent)
    /\ deferUntil' = SoonerDefer(Free(Agent))
    /\ pos' = pos + 1
    /\ UNCHANGED <<in, rule, status, picked>>

(* Mutant: each rule starts over with no time to wait for.                 *)
NextRuleForgets ==
    /\ status = "running" /\ pos > Len(in.agents)
    /\ rule' = rule + 1 /\ pos' = 0 /\ deferUntil' = 0
    /\ UNCHANGED <<in, status, picked>>
NextRule ==
    /\ status = "running" /\ pos > Len(in.agents)
    /\ rule' = rule + 1 /\ pos' = 0
    /\ UNCHANGED <<in, deferUntil, status, picked>>

Refuse ==
    /\ status = "running" /\ pos = 0 /\ rule > Len(in.rules)
    /\ status' = IF deferUntil # 0 THEN "409" ELSE "422"
    /\ UNCHANGED <<in, rule, pos, deferUntil, picked>>

PlaceNext == SkipRule \/ EnterRule \/ SkipAgent \/ Pick \/ Block \/ NextRule \/ Refuse
PlaceSpec == PlaceInit /\ [][PlaceNext]_vars

-----------------------------------------------------------------------------
TypeOK ==
    /\ rule \in 1 .. Len(in.rules) + 1 /\ pos \in 0 .. Len(in.agents) + 1
    /\ pos > 0 => rule <= Len(in.rules)
    /\ deferUntil \in Nat
    /\ status \in {"running", "200", "409", "422"}
    /\ status = "200" => picked = <<rule, pos>> /\ pos \in 1 .. Len(in.agents)
    /\ status \in {"409", "422"} => rule = Len(in.rules) + 1 /\ pos = 0

(* The reference: rule j would run agent number k on its computer if asked *)
(* at time t, going by the usage collected at now.                         *)
HasRoom(w, t) ==
    \/ w = Nil
    \/ w.resets <= t /\ in.est <= in.limit
    \/ w.resets > t /\ ~w.limited /\ w.used + in.est <= in.limit
Fits(a, t) ==
    a \in DOMAIN in.usage /\ ~in.usage[a].error =>
        IF in.usage[a].stale THEN ~in.block
                             ELSE \A name \in WindowName : HasRoom(in.usage[a].windows[name], t)
Applies(r) ==
    /\ r.class = {} \/ in.class \in r.class
    /\ r.computer \notin in.exclude
    /\ IF r.computer = Local THEN in.slots >= 1 ELSE r.computer \in in.computers
Launches(r, a) ==
    /\ IF r.agent = Self THEN a = in.self ELSE a \in r.agent
    /\ HasRunner(a, r.computer)
    /\ Runner(a, r.computer) = "subagent" => a = in.self
Serves(j, k, t) ==
    /\ Applies(in.rules[j]) /\ Launches(in.rules[j], in.agents[k])
    /\ Fits(in.agents[k], t)
Pairs == (1 .. Len(in.rules)) \X (1 .. Len(in.agents))
Precedes(p, q) == p[1] < q[1] \/ (p[1] = q[1] /\ p[2] < q[2])

(* place takes the first agent, in rule and then in name order, that can   *)
(* run the task now; and it refuses only when there is none.               *)
FirstUsableWins ==
    /\ status = "200" =>
         /\ Serves(picked[1], picked[2], in.now)
         /\ \A p \in Pairs : Precedes(p, picked) => ~Serves(p[1], p[2], in.now)
    /\ status \in {"409", "422"} => \A p \in Pairs : ~Serves(p[1], p[2], in.now)

(* defer_until is the first moment at which the same request would be      *)
(* placed, the usage collected meanwhile being what it was: retrying       *)
(* earlier is in vain and retrying then is not.  (A task larger than the   *)
(* whole limit never fits; HasRoom says so, and no wait can be exact.)     *)
DeferIsExact ==
    status = "409" /\ in.est <= in.limit =>
        /\ deferUntil > in.now
        /\ \E p \in Pairs : Serves(p[1], p[2], deferUntil)
        /\ \A t \in Time : in.now <= t /\ t < deferUntil =>
             \A p \in Pairs : ~Serves(p[1], p[2], t)

(* 422 is final: no window's reset would let the request be placed.        *)
UnprocessableIsFinal ==
    status = "422" =>
        \A t \in Time : in.now <= t => \A p \in Pairs : ~Serves(p[1], p[2], t)
=============================================================================
