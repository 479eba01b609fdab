------------------------------ MODULE MCPlace -------------------------------
(* TLC's inputs for Place: two agents of two services, two or no rules for *)
(* each kind of computer, every combination of what an agent's usage can   *)
(* be around now = 2, and the slots cad would give a local computer, with  *)
(* the numbers it takes them from.                                         *)
EXTENDS PlaceSlots, TLC

Win(used, resets, limited) == [used |-> used, resets |-> resets, limited |-> limited]
Report(five, seven) ==
    [error |-> FALSE, stale |-> FALSE,
     windows |-> [n \in WindowName |-> CASE n = "5h" -> five [] n = "7d" -> seven [] OTHER -> Nil]]

Windows == {Nil, Win(80, 3, FALSE), Win(81, 3, FALSE), Win(90, 4, FALSE), Win(10, 5, TRUE),
            Win(99, 2, TRUE), Win(0, 0, FALSE)}
Reports ==
    {Report(f, s) : f \in Windows, s \in {Nil, Win(81, 5, FALSE)}}
        \cup {[Report(Nil, Nil) EXCEPT !.error = TRUE],
              [Report(Win(90, 4, FALSE), Nil) EXCEPT !.stale = TRUE]}
Usages == UNION {[S -> Reports] : S \in SUBSET {"claude/1", "codex/1"}}

AnyAgent == {"claude/1", "codex/1"}
R(agent, computer, class) == [agent |-> agent, computer |-> computer, class |-> class]
RuleLists ==
    {<<R(Self, Local, {}), R(AnyAgent, "vm", {"medium"})>>,
     <<R({"codex/1"}, "vm", {}), R(AnyAgent, Local, {})>>,
     <<R(AnyAgent, "cloud", {})>>, << >>}

MCRules == UNION {{rs[n] : n \in DOMAIN rs} : rs \in RuleLists}

TaskGate(cpus, maxSlots) == [memory |-> 3, cpus |-> cpus, reserve |-> 2, maxSlots |-> maxSlots]
Host(free, cpus, gate) ==
    [free |-> free, cpus |-> cpus, memoryMax |-> NoLimit, memoryCurrent |-> 0,
     quota |-> NoLimit, period |-> 2, override |-> NoLimit, gate |-> gate]
Room1 == Host(5, 1, TaskGate(10, NoLimit))
NoRoom == Host(4, 1, TaskGate(10, NoLimit))
Machines ==
    {Host(f, c, TaskGate(t, n)) : f \in {0, 1, 7, 8, 9}, c \in {1, 2}, t \in {0, 5, 10, 15},
                                  n \in {NoLimit, -1, 1}}
        \cup {[Host(9, 2, TaskGate(10, NoLimit)) EXCEPT !.memoryMax = x, !.memoryCurrent = c] :
                 x \in {0, 9, 10, 15, 16, 40}, c \in {0, 1, 10}}
        \cup {[Host(20, 3, TaskGate(10, NoLimit)) EXCEPT !.quota = q] : q \in 0 .. 7}
        \cup {[Room1 EXCEPT !.override = n] : n \in {-1, 0, 3}}
        \cup {[Host(9, 2, TaskGate(5, NoLimit)) EXCEPT !.gate.reserve = -3]}

Call(rs, e, b, m, x, u) ==
    [rules |-> rs, agents |-> <<"claude/1", "codex/1">>, computers |-> {"vm"},
     service |-> [a \in AnyAgent |-> IF a = "claude/1" THEN "claude" ELSE "codex"],
     runners |-> (<<"claude">> :> "subagent" @@ <<"claude", "vm">> :> "vm" @@ <<"codex">> :> "process"),
     limit |-> 85, est |-> e, block |-> b, now |-> 2,
     class |-> "medium", self |-> "claude/1", exclude |-> x, usage |-> u,
     slots |-> Collected(m), machine |-> m]
MCInputs ==
    {Call(rs, e, b, m, x, u) : rs \in RuleLists, e \in {5, 90}, b \in BOOLEAN,
                               m \in {Room1, NoRoom}, x \in {{}, {"vm"}}, u \in Usages}
        \cup {Call(rs, 5, FALSE, m, {}, << >>) : rs \in RuleLists, m \in Machines}
MCTime == 0 .. 6
=============================================================================
