---------------------------- MODULE PlaceProofs -----------------------------
(***************************************************************************)
(* Proofs about Place, for every policy, usage and request: the first      *)
(* usable agent wins, and a refusal says exactly how long to wait.  And    *)
(* about the slots it goes by (Capacity), for every computer and gate.     *)
(* Then about the call that asks for the place (PlaceCall) and the         *)
(* readiness of the cad it asks (Readiness), for any number of goroutines, *)
(* starts and collections, any age a snapshot may have, and saves that may *)
(* fail or not.                                                            *)
(***************************************************************************)
EXTENDS PlaceCall, PlaceSlots, TLAPS

(* The loops have ruled p out for now; if a reset will change that, the    *)
(* time to wait is set, and not past it.                                   *)
RuledOut(p) ==
    /\ ~Serves(p[1], p[2], in.now)
    /\ \A t \in Nat : in.now <= t /\ Serves(p[1], p[2], t) =>
         deferUntil # 0 /\ deferUntil <= t

PlaceInv ==
    /\ TypeOK /\ in \in Inputs
    /\ pos > 0 => ~RuleDropped
    /\ \A p \in Pairs : Precedes(p, <<rule, pos>>) => RuledOut(p)
    /\ deferUntil # 0 /\ in.est <= in.limit =>
         deferUntil > in.now /\ \E p \in Pairs : Serves(p[1], p[2], deferUntil)
    /\ status = "200" => Serves(picked[1], picked[2], in.now)
    /\ status = "409" => deferUntil # 0
    /\ status = "422" => deferUntil = 0

LEMMA InputType ==
    ASSUME NEW i \in Inputs
    PROVE  /\ Len(i.rules) \in Nat /\ Len(i.agents) \in Nat
           /\ DOMAIN i.agents = 1 .. Len(i.agents)
           /\ i.slots \in Nat /\ i.limit \in Int /\ i.est \in Nat /\ i.now \in Nat
           /\ \A a \in DOMAIN i.usage : \A n \in WindowName :
                i.usage[a].windows[n] \in Window \cup {Nil}
  <1>1. WellFormed(i)  BY PlaceAssumption
  <1>2. QED  BY <1>1 DEF WellFormed

(* The rules' and the agents' filters agree with what a rule is for.       *)
LEMMA DroppedRule ==
    ASSUME in \in Inputs, rule \in 1 .. Len(in.rules), RuleDropped,
           NEW k \in 1 .. Len(in.agents), NEW t
    PROVE  ~Serves(rule, k, t)
  <1>1. in.slots \in Nat /\ in.agents[k] \in {in.agents[n] : n \in DOMAIN in.agents}
    BY InputType
  <1>2. QED  BY <1>1 DEF RuleDropped, Rule, Serves, Applies, Launches

LEMMA KeptRule ==
    ASSUME in \in Inputs, ~RuleDropped
    PROVE  Applies(Rule)
  <1>1. in.slots \in Nat  BY InputType
  <1>2. QED  BY <1>1 DEF RuleDropped, Rule, Applies

LEMMA DroppedAgent ==
    ASSUME in \in Inputs, AgentDropped, NEW t
    PROVE  ~Serves(rule, pos, t)
  BY DEF AgentDropped, Agent, Rule, Serves, Launches, Fits, Known

LEMMA KeptAgent ==
    ASSUME in \in Inputs, ~AgentDropped
    PROVE  Launches(Rule, Agent) /\ (Known(Agent) /\ in.usage[Agent].stale => ~in.block)
  BY DEF AgentDropped, Agent, Launches

(* What a window of usableUsage says of the window as collected.           *)
LEMMA WindowRoom ==
    ASSUME NEW i \in Inputs, in = i, NEW w \in Window \cup {Nil}
    PROVE  /\ ~Over(Current(w, in.now)) <=> HasRoom(w, in.now)
           /\ Over(Current(w, in.now)) =>
                /\ w # Nil /\ w.resets \in Nat /\ Current(w, in.now).resets = w.resets
                /\ \A t \in Nat : in.now <= t /\ HasRoom(w, t) => w.resets > in.now /\ w.resets <= t
                /\ \A t \in Nat : in.est <= in.limit => /\ w.resets > in.now
                                                        /\ w.resets <= t => HasRoom(w, t)
           /\ \A t \in Nat : in.now <= t /\ ~Over(Current(w, in.now)) => HasRoom(w, t)
  <1>1. in.est \in Nat /\ in.limit \in Int /\ in.now \in Nat  BY InputType
  <1>2. CASE w = Nil  BY <1>2 DEF Over, Current, HasRoom
  <1>3. CASE w \in Window /\ w # Nil
    <2>1. w.used \in Nat /\ w.resets \in Nat /\ w.limited \in BOOLEAN  BY <1>3 DEF Window
    <2>2. CASE w.resets <= in.now
      <3>1. Current(w, in.now) = [used |-> 0, resets |-> w.resets, limited |-> FALSE]
        BY <1>3, <2>2 DEF Current
      <3>2. Current(w, in.now) # Nil
        <4>1. Current(w, in.now) \in Window  BY <2>1, <3>1 DEF Window
        <4>2. QED  BY <4>1, PlaceAssumption
      <3>3. Over(Current(w, in.now)) <=> in.est > in.limit  BY <1>1, <3>1, <3>2 DEF Over
      <3>4. \A t \in Nat : in.now <= t => (HasRoom(w, t) <=> in.est <= in.limit)
        BY <1>1, <1>3, <2>1, <2>2 DEF HasRoom
      <3>5. HasRoom(w, in.now) <=> in.est <= in.limit  BY <1>1, <3>4
      <3>6. Current(w, in.now).resets = w.resets  BY <3>1
      <3>7. in.est > in.limit <=> ~(in.est <= in.limit)  BY <1>1
      <3>8. QED  BY <1>3, <2>1, <3>3, <3>4, <3>5, <3>6, <3>7
    <2>3. CASE ~(w.resets <= in.now)
      <3>1. Current(w, in.now) = w  BY <2>3 DEF Current
      <3>2. Over(Current(w, in.now)) <=> w.limited \/ w.used + in.est > in.limit
        BY <1>3, <3>1 DEF Over
      <3>3. QED  BY <1>1, <1>3, <2>1, <2>3, <3>1, <3>2 DEF HasRoom
    <2>4. QED  BY <2>2, <2>3
  <1>4. QED  BY <1>2, <1>3

(* The latest reset among the exceeded windows.                            *)
LEMMA FreeIsLatest ==
    ASSUME in \in Inputs, NEW a \in DOMAIN in.usage
    PROVE  /\ Free(a) \in Nat
           /\ \A n \in WindowName : Over(Use(a, n)) => Use(a, n).resets <= Free(a)
           /\ Free(a) = 0 \/ \E n \in WindowName : Over(Use(a, n)) /\ Free(a) = Use(a, n).resets
  <1>1. PICK x, y, z : x = Use(a, "5h") /\ y = Use(a, "7d") /\ z = Use(a, "monthly")
    OBVIOUS
  <1>2. \A n \in WindowName : Over(Use(a, n)) => Use(a, n).resets \in Nat
    <2> SUFFICES ASSUME NEW n \in WindowName, Over(Use(a, n)) PROVE Use(a, n).resets \in Nat
      OBVIOUS
    <2>1. in.usage[a].windows[n] \in Window \cup {Nil}  BY InputType
    <2>2. QED  BY <2>1, WindowRoom DEF Use
  <1>3. /\ Over(x) => x.resets \in Nat
        /\ Over(y) => y.resets \in Nat
        /\ Over(z) => z.resets \in Nat
    BY <1>1, <1>2 DEF WindowName
  <1>4. PICK f : f = LaterReset(x, 0)  OBVIOUS
  <1>5. f \in Nat /\ (Over(x) => x.resets <= f) /\ (f = 0 \/ (Over(x) /\ f = x.resets))
    BY <1>3, <1>4 DEF LaterReset
  <1>6. PICK g : g = LaterReset(y, f)  OBVIOUS
  <1>7. g \in Nat /\ f <= g /\ (Over(y) => y.resets <= g) /\ (g = f \/ (Over(y) /\ g = y.resets))
    BY <1>3, <1>5, <1>6 DEF LaterReset
  <1>8. PICK h : h = LaterReset(z, g)  OBVIOUS
  <1>9. h \in Nat /\ g <= h /\ (Over(z) => z.resets <= h) /\ (h = g \/ (Over(z) /\ h = z.resets))
    BY <1>3, <1>7, <1>8 DEF LaterReset
  <1>10. Free(a) = h  BY <1>1, <1>4, <1>6, <1>8 DEF Free
  <1>11. (Over(x) => x.resets <= h) /\ (Over(y) => y.resets <= h)
    BY <1>3, <1>5, <1>7, <1>9
  <1>12. \/ h = 0 \/ (Over(x) /\ h = x.resets) \/ (Over(y) /\ h = y.resets) \/ (Over(z) /\ h = z.resets)
    BY <1>5, <1>7, <1>9
  <1>13. QED  BY <1>1, <1>9, <1>10, <1>11, <1>12 DEF WindowName
-----------------------------------------------------------------------------
(* An agent over a window does not fit before all its exceeded windows     *)
(* have reset, and fits then.                                              *)
LEMMA BlockedFits ==
    ASSUME in \in Inputs, NEW a, Known(a), ~in.usage[a].stale, AnyOver(a)
    PROVE  /\ ~Fits(a, in.now)
           /\ \A t \in Nat : in.now <= t /\ Fits(a, t) => Free(a) # 0 /\ Free(a) <= t
           /\ in.est <= in.limit => Free(a) > in.now /\ Fits(a, Free(a))
  <1>1. a \in DOMAIN in.usage /\ ~in.usage[a].error  BY DEF Known
  <1>2. in.now \in Nat  BY InputType
  <1>3. PICK n \in WindowName : Over(Use(a, n))  BY DEF AnyOver
  <1>4. Free(a) \in Nat /\ Use(a, n).resets <= Free(a)
    BY <1>1, <1>3, FreeIsLatest
  <1>5. \A m \in WindowName : in.usage[a].windows[m] \in Window \cup {Nil}  BY <1>1, InputType
  <1>6. /\ in.usage[a].windows[n].resets \in Nat
        /\ Use(a, n).resets = in.usage[a].windows[n].resets
        /\ \A t \in Nat : in.now <= t /\ HasRoom(in.usage[a].windows[n], t) =>
             in.usage[a].windows[n].resets > in.now
        /\ in.est <= in.limit => in.usage[a].windows[n].resets > in.now
        /\ ~HasRoom(in.usage[a].windows[n], in.now)
    BY <1>2, <1>3, <1>5, WindowRoom DEF Use
  <1>7. \A t : Fits(a, t) => \A m \in WindowName : HasRoom(in.usage[a].windows[m], t)
    BY <1>1 DEF Fits
  <1>8. ~Fits(a, in.now)  BY <1>6, <1>7
  <1>9. ASSUME NEW t \in Nat, in.now <= t, Fits(a, t)  PROVE Free(a) # 0 /\ Free(a) <= t
    <2>1. Free(a) > 0  BY <1>2, <1>4, <1>6, <1>7, <1>9
    <2>2. PICK m \in WindowName : Over(Use(a, m)) /\ Free(a) = Use(a, m).resets
      BY <1>1, <2>1, FreeIsLatest
    <2>3. HasRoom(in.usage[a].windows[m], t)  BY <1>7, <1>9
    <2>4. Use(a, m).resets <= t
      <3>1. Over(Current(in.usage[a].windows[m], in.now))  BY <2>2 DEF Use
      <3>2. Use(a, m).resets = in.usage[a].windows[m].resets /\ in.usage[a].windows[m].resets <= t
        BY <1>5, <1>9, <2>3, <3>1, WindowRoom DEF Use
      <3>3. QED  BY <3>2
    <2>5. QED  BY <2>1, <2>2, <2>4
  <1>10. ASSUME in.est <= in.limit  PROVE Free(a) > in.now /\ Fits(a, Free(a))
    <2>1. Free(a) > in.now  BY <1>2, <1>4, <1>6, <1>10
    <2>2. ASSUME NEW m \in WindowName  PROVE HasRoom(in.usage[a].windows[m], Free(a))
      <3>1. CASE Over(Use(a, m))
        <4>1. Over(Current(in.usage[a].windows[m], in.now))  BY <3>1 DEF Use
        <4>2. in.usage[a].windows[m].resets <= Free(a)
          <5>1. Use(a, m).resets <= Free(a)  BY <1>1, <3>1, FreeIsLatest
          <5>2. Use(a, m).resets = in.usage[a].windows[m].resets
            BY <1>5, <4>1, WindowRoom DEF Use
          <5>3. QED  BY <5>1, <5>2
        <4>3. QED  BY <1>4, <1>5, <1>10, <4>1, <4>2, WindowRoom
      <3>2. CASE ~Over(Use(a, m))
        <4>1. ~Over(Current(in.usage[a].windows[m], in.now))  BY <3>2 DEF Use
        <4>2. in.now <= Free(a)  BY <1>2, <1>4, <2>1
        <4>3. QED  BY <1>4, <1>5, <4>1, <4>2, WindowRoom
      <3>3. QED  BY <3>1, <3>2
    <2>3. QED  BY <1>1, <2>1, <2>2 DEF Fits
  <1>11. QED  BY <1>8, <1>9, <1>10

LEMMA UnblockedFits ==
    ASSUME in \in Inputs, NEW a, Known(a) /\ in.usage[a].stale => ~in.block,
           Known(a) /\ ~in.usage[a].stale => ~AnyOver(a)
    PROVE  Fits(a, in.now)
  <1>1. CASE ~Known(a)  BY <1>1 DEF Known, Fits
  <1>2. CASE Known(a) /\ in.usage[a].stale  BY <1>2 DEF Known, Fits
  <1>3. CASE Known(a) /\ ~in.usage[a].stale
    <2>1. a \in DOMAIN in.usage  BY <1>3 DEF Known
    <2>2. ASSUME NEW m \in WindowName  PROVE HasRoom(in.usage[a].windows[m], in.now)
      <3>1. in.usage[a].windows[m] \in Window \cup {Nil}  BY <2>1, InputType
      <3>2. ~Over(Current(in.usage[a].windows[m], in.now))  BY <1>3 DEF AnyOver, Use
      <3>3. QED  BY <3>1, <3>2, WindowRoom
    <2>3. QED  BY <1>3, <2>2 DEF Fits
  <1>4. QED  BY <1>1, <1>2, <1>3

-----------------------------------------------------------------------------
(* Each iteration keeps PlaceInv.                                          *)
LEMMA Positions ==
    ASSUME PlaceInv
    PROVE  /\ in \in Inputs /\ in.now \in Nat /\ in.est \in Nat /\ in.limit \in Int
           /\ Len(in.rules) \in Nat /\ Len(in.agents) \in Nat
           /\ rule \in Nat /\ pos \in Nat /\ deferUntil \in Nat
           /\ \A p \in Pairs : /\ p = <<p[1], p[2]>>
                               /\ p[1] \in 1 .. Len(in.rules) /\ p[2] \in 1 .. Len(in.agents)
  <1>1. in \in Inputs  BY DEF PlaceInv
  <1>2. Len(in.rules) \in Nat /\ Len(in.agents) \in Nat
        /\ in.now \in Nat /\ in.est \in Nat /\ in.limit \in Int
    BY <1>1, InputType
  <1>3. rule \in Nat /\ pos \in Nat /\ deferUntil \in Nat  BY <1>2 DEF PlaceInv, TypeOK
  <1>4. QED  BY <1>1, <1>2, <1>3 DEF Pairs

(* A step that leaves the input and the time to wait alone keeps PlaceInv  *)
(* if it rules out what it goes past.                                      *)
LEMMA Frame ==
    ASSUME PlaceInv, in' = in, deferUntil' = deferUntil, TypeOK', (pos > 0 => ~RuleDropped)',
           \A p \in Pairs : Precedes(p, <<rule', pos'>>) => RuledOut(p),
           status' = "200" => Serves(picked'[1], picked'[2], in.now),
           status' = "409" => deferUntil # 0, status' = "422" => deferUntil = 0
    PROVE  PlaceInv'
  <1>0. \A j, k, t : Serves(j, k, t)' <=> Serves(j, k, t)
    <2>1. \A r : Applies(r)' <=> Applies(r)  BY DEF Applies
    <2>2. \A r, a : Launches(r, a)' <=> Launches(r, a)  BY DEF Launches, HasRunner, Runner
    <2>3. \A a, t : Fits(a, t)' <=> Fits(a, t)  BY DEF Fits, HasRoom
    <2>4. QED  BY <2>1, <2>2, <2>3 DEF Serves
  <1>1. \A p : RuledOut(p)' <=> RuledOut(p)  BY <1>0 DEF RuledOut
  <1>2. Pairs' = Pairs  BY DEF Pairs
  <1>3. (\A p \in Pairs : Precedes(p, <<rule, pos>>) => RuledOut(p))'
    BY <1>1, <1>2 DEF Precedes
  <1>4. (deferUntil # 0 /\ in.est <= in.limit =>
           deferUntil > in.now /\ \E p \in Pairs : Serves(p[1], p[2], deferUntil))'
    BY <1>0, <1>2 DEF PlaceInv
  <1>5. (status = "200" => Serves(picked[1], picked[2], in.now))'
    BY <1>0
  <1>6. in' \in Inputs  BY DEF PlaceInv
  <1>7. QED  BY <1>3, <1>4, <1>5, <1>6 DEF PlaceInv

LEMMA SkipRuleKeeps ==
    ASSUME PlaceInv, SkipRule
    PROVE  PlaceInv'
  <1>1. /\ rule \in 1 .. Len(in.rules) /\ pos = 0 /\ RuleDropped /\ status = "running"
        /\ rule' = rule + 1 /\ UNCHANGED <<in, pos, deferUntil, status, picked>>
    BY Positions DEF SkipRule, InRules, PlaceInv, TypeOK
  <1>2. TypeOK'  BY <1>1, Positions DEF PlaceInv, TypeOK
  <1>4. ASSUME NEW p \in Pairs, Precedes(p, <<rule + 1, 0>>)  PROVE RuledOut(p)
    <2>1. CASE p[1] = rule
      <3>1. \A t : ~Serves(p[1], p[2], t)  BY <1>1, <2>1, Positions, DroppedRule
      <3>2. QED  BY <3>1 DEF RuledOut
    <2>2. CASE p[1] # rule
      <3>1. Precedes(p, <<rule, pos>>)  BY <1>1, <1>4, <2>2, Positions DEF Precedes
      <3>2. QED  BY <3>1 DEF PlaceInv
    <2>3. QED  BY <2>1, <2>2
  <1>5. (pos > 0 => ~RuleDropped)'  BY <1>1
  <1>6. QED  BY <1>1, <1>2, <1>4, <1>5, Frame

LEMMA EnterRuleKeeps ==
    ASSUME PlaceInv, EnterRule
    PROVE  PlaceInv'
  <1>1. /\ pos = 0 /\ ~RuleDropped /\ status = "running" /\ rule <= Len(in.rules)
        /\ pos' = 1 /\ UNCHANGED <<in, rule, deferUntil, status, picked>>
    BY DEF EnterRule, InRules
  <1>2. TypeOK'  BY <1>1, Positions DEF PlaceInv, TypeOK
  <1>4. ASSUME NEW p \in Pairs, Precedes(p, <<rule, 1>>)  PROVE RuledOut(p)
    <2>1. Precedes(p, <<rule, pos>>)  BY <1>1, <1>4, Positions DEF Precedes
    <2>2. QED  BY <2>1 DEF PlaceInv
  <1>5. ~RuleDropped'  BY <1>1 DEF RuleDropped, Rule
  <1>6. QED  BY <1>1, <1>2, <1>4, <1>5, Frame

(* Going past one agent that is ruled out keeps what the loops know.       *)
LEMMA PassAgent ==
    ASSUME PlaceInv, NEW p \in Pairs, Precedes(p, <<rule, pos + 1>>)
    PROVE  Precedes(p, <<rule, pos>>) \/ p = <<rule, pos>>
  BY Positions DEF Precedes

LEMMA SkipAgentKeeps ==
    ASSUME PlaceInv, SkipAgent
    PROVE  PlaceInv'
  <1>1. /\ pos \in 1 .. Len(in.agents) /\ AgentDropped /\ status = "running"
        /\ pos' = pos + 1 /\ UNCHANGED <<in, rule, deferUntil, status, picked>>
    BY DEF SkipAgent, InAgents
  <1>2. TypeOK'  BY <1>1, Positions DEF PlaceInv, TypeOK
  <1>4. RuledOut(<<rule, pos>>)  BY <1>1, Positions, DroppedAgent DEF RuledOut
  <1>5. \A p \in Pairs : Precedes(p, <<rule, pos + 1>>) => RuledOut(p)
    BY <1>4, PassAgent DEF PlaceInv
  <1>6. ~RuleDropped'  BY <1>1, Positions DEF PlaceInv, RuleDropped, Rule
  <1>7. QED  BY <1>1, <1>2, <1>5, <1>6, Frame

LEMMA PickKeeps ==
    ASSUME PlaceInv, Pick
    PROVE  PlaceInv'
  <1>1. /\ pos \in 1 .. Len(in.agents) /\ ~AgentDropped /\ status = "running"
        /\ Known(Agent) /\ ~in.usage[Agent].stale => ~AnyOver(Agent)
        /\ status' = "200" /\ picked' = <<rule, pos>>
        /\ UNCHANGED <<in, rule, pos, deferUntil>>
    BY DEF Pick, InAgents
  <1>2. TypeOK'  BY <1>1, Positions DEF PlaceInv, TypeOK
  <1>4. Serves(rule, pos, in.now)
    <2>1. in \in Inputs /\ ~RuleDropped  BY <1>1, Positions DEF PlaceInv
    <2>2. Applies(Rule)  BY <2>1, KeptRule
    <2>3. Launches(Rule, Agent) /\ (Known(Agent) /\ in.usage[Agent].stale => ~in.block)
      BY <1>1, <2>1, KeptAgent
    <2>4. Fits(Agent, in.now)  BY <1>1, <2>1, <2>3, UnblockedFits
    <2>5. QED  BY <2>2, <2>3, <2>4 DEF Serves, Rule, Agent
  <1>5. Serves(picked'[1], picked'[2], in.now)  BY <1>1, <1>4
  <1>6. (pos > 0 => ~RuleDropped)'  BY <1>1 DEF PlaceInv, RuleDropped, Rule
  <1>7. \A p \in Pairs : Precedes(p, <<rule', pos'>>) => RuledOut(p)  BY <1>1 DEF PlaceInv
  <1>8. QED  BY <1>1, <1>2, <1>5, <1>6, <1>7, Frame

(* What does not fit now but will is held back by a window, and the task   *)
(* is smaller than the limit.                                              *)
LEMMA LaterOnly ==
    ASSUME in \in Inputs, NEW j, NEW k, NEW t \in Nat, Serves(j, k, t), ~Serves(j, k, in.now)
    PROVE  in.est <= in.limit
  <1>1. PICK a : a = in.agents[k]  OBVIOUS
  <1>2. Fits(a, t) /\ ~Fits(a, in.now)  BY <1>1 DEF Serves
  <1>3. PICK n \in WindowName : /\ a \in DOMAIN in.usage
                                /\ HasRoom(in.usage[a].windows[n], t)
                                /\ ~HasRoom(in.usage[a].windows[n], in.now)
    BY <1>2 DEF Fits
  <1>4. PICK w : w = in.usage[a].windows[n]  OBVIOUS
  <1>5. w \in Window \cup {Nil} /\ in.est \in Nat /\ in.limit \in Int  BY <1>3, <1>4, InputType
  <1>6. w # Nil /\ HasRoom(w, t)  BY <1>3, <1>4 DEF HasRoom
  <1>7. w.used \in Nat  BY <1>5, <1>6 DEF Window
  <1>8. QED  BY <1>5, <1>6, <1>7 DEF HasRoom

LEMMA BlockKeeps ==
    ASSUME PlaceInv, Block
    PROVE  PlaceInv'
  <1>1. /\ pos \in 1 .. Len(in.agents) /\ ~AgentDropped /\ status = "running"
        /\ Known(Agent) /\ ~in.usage[Agent].stale /\ AnyOver(Agent)
        /\ deferUntil' = SoonerDefer(Free(Agent)) /\ pos' = pos + 1
        /\ UNCHANGED <<in, rule, status, picked>>
    BY DEF Block, InAgents
  <1>2. in \in Inputs /\ ~RuleDropped  BY <1>1, Positions DEF PlaceInv
  <1>3. Free(Agent) \in Nat  BY <1>1, <1>2, FreeIsLatest DEF Known
  <1>4. /\ deferUntil' \in Nat
        /\ deferUntil # 0 => deferUntil' <= deferUntil
        /\ Free(Agent) # 0 => deferUntil' # 0 \/ deferUntil # 0
        /\ deferUntil' = deferUntil \/ deferUntil' = Free(Agent)
        /\ deferUntil = 0 => deferUntil' = Free(Agent)
        /\ deferUntil' <= Free(Agent)
    BY <1>1, <1>3, Positions DEF SoonerDefer
  <1>5. TypeOK'  BY <1>1, <1>4, Positions DEF PlaceInv, TypeOK
  <1>6. /\ ~Serves(rule, pos, in.now)
        /\ \A t \in Nat : in.now <= t /\ Serves(rule, pos, t) => Free(Agent) # 0 /\ Free(Agent) <= t
        /\ in.est <= in.limit => Free(Agent) > in.now /\ Serves(rule, pos, Free(Agent))
    <2>1. Applies(Rule) /\ Launches(Rule, Agent)  BY <1>1, <1>2, KeptRule, KeptAgent
    <2>2. \A t : Serves(rule, pos, t) <=> Fits(Agent, t)  BY <2>1 DEF Serves, Rule, Agent
    <2>3. QED  BY <1>1, <1>2, <2>2, BlockedFits
  <1>7. Pairs' = Pairs /\ <<rule, pos>> \in Pairs
    BY <1>1, Positions DEF Pairs, PlaceInv, TypeOK
  <1>8. \A j, k : \A t \in Nat : Serves(j, k, t)' <=> Serves(j, k, t)
    BY <1>1 DEF Serves, Applies, Launches, Fits, HasRoom, HasRunner, Runner
  <1>9. in'.now = in.now /\ in'.est = in.est /\ in'.limit = in.limit /\ in.now \in Nat
        /\ deferUntil \in Nat
    BY <1>1, Positions
  <1>10. \A p : ~Serves(p[1], p[2], in.now)' <=> ~Serves(p[1], p[2], in.now)
    BY <1>1 DEF Serves, Applies, Launches, Fits, HasRoom, HasRunner, Runner
  <1>11. ASSUME NEW p \in Pairs, Precedes(p, <<rule, pos + 1>>)  PROVE RuledOut(p)'
    <2>1. CASE p = <<rule, pos>>
      <3>1. p[1] = rule /\ p[2] = pos  BY <2>1
      <3>2. ~Serves(p[1], p[2], in.now)  BY <1>6, <3>1
      <3>3. ASSUME NEW t \in Nat, in.now <= t, Serves(p[1], p[2], t)
            PROVE  deferUntil' # 0 /\ deferUntil' <= t
        <4>1. Free(Agent) # 0 /\ Free(Agent) <= t  BY <1>6, <3>1, <3>3
        <4>2. QED  BY <1>3, <1>4, <1>9, <4>1
      <3>4. QED  BY <1>8, <1>9, <1>10, <3>2, <3>3 DEF RuledOut
    <2>2. CASE p # <<rule, pos>>
      <3>1. RuledOut(p)  BY <1>11, <2>2, PassAgent DEF PlaceInv
      <3>2. ASSUME NEW t \in Nat, in.now <= t, Serves(p[1], p[2], t)
            PROVE  deferUntil' # 0 /\ deferUntil' <= t
        <4>1. deferUntil # 0 /\ deferUntil <= t  BY <3>1, <3>2 DEF RuledOut
        <4>2. deferUntil' <= deferUntil  BY <1>4, <4>1
        <4>3. deferUntil' # 0
          <5>1. CASE deferUntil' = deferUntil  BY <4>1, <5>1
          <5>2. CASE deferUntil' = Free(Agent)
            <6>1. in.est <= in.limit  BY <1>2, <3>1, <3>2, LaterOnly DEF RuledOut
            <6>2. QED  BY <1>3, <1>6, <1>9, <5>2, <6>1
          <5>3. QED  BY <1>4, <5>1, <5>2
        <4>4. QED  BY <1>4, <1>9, <4>1, <4>2, <4>3
      <3>3. QED  BY <1>8, <1>9, <1>10, <3>1, <3>2 DEF RuledOut
    <2>3. QED  BY <2>1, <2>2
  <1>12. (\A p \in Pairs : Precedes(p, <<rule, pos>>) => RuledOut(p))'
    BY <1>1, <1>7, <1>11 DEF Precedes
  <1>13. (deferUntil # 0 /\ in.est <= in.limit =>
            deferUntil > in.now /\ \E p \in Pairs : Serves(p[1], p[2], deferUntil))'
    <2> SUFFICES ASSUME in.est <= in.limit, deferUntil' # 0
                 PROVE  /\ deferUntil' > in.now
                        /\ \E p \in Pairs : Serves(p[1], p[2], deferUntil)'
      BY <1>7, <1>9
    <2>1. \E p \in Pairs : Serves(p[1], p[2], deferUntil') /\ deferUntil' > in.now
      <3>1. CASE deferUntil' = Free(Agent)  BY <1>6, <1>7, <3>1
      <3>2. CASE deferUntil' = deferUntil  BY <3>2 DEF PlaceInv
      <3>3. QED  BY <1>4, <3>1, <3>2
    <2>2. \A p : Serves(p[1], p[2], deferUntil') => Serves(p[1], p[2], deferUntil)'
      BY <1>4, <1>8
    <2>3. QED  BY <2>1, <2>2
  <1>14. (pos > 0 => ~RuleDropped)'  BY <1>1, <1>2 DEF RuleDropped, Rule
  <1>15. QED  BY <1>1, <1>2, <1>5, <1>12, <1>13, <1>14 DEF PlaceInv

LEMMA NextRuleKeeps ==
    ASSUME PlaceInv, NextRule
    PROVE  PlaceInv'
  <1>1. /\ status = "running" /\ pos > Len(in.agents)
        /\ rule' = rule + 1 /\ pos' = 0 /\ UNCHANGED <<in, deferUntil, status, picked>>
    BY DEF NextRule
  <1>2. TypeOK'  BY <1>1, Positions DEF PlaceInv, TypeOK
  <1>3. ASSUME NEW p \in Pairs, Precedes(p, <<rule', pos'>>)  PROVE RuledOut(p)
    <2>1. Precedes(p, <<rule, pos>>)  BY <1>1, <1>3, Positions DEF Precedes
    <2>2. QED  BY <2>1 DEF PlaceInv
  <1>4. (pos > 0 => ~RuleDropped)'  BY <1>1
  <1>5. QED  BY <1>1, <1>2, <1>3, <1>4, Frame

LEMMA RefuseKeeps ==
    ASSUME PlaceInv, Refuse
    PROVE  PlaceInv'
  <1>1. /\ status = "running" /\ pos = 0 /\ rule > Len(in.rules)
        /\ status' = IF deferUntil # 0 THEN "409" ELSE "422"
        /\ UNCHANGED <<in, rule, pos, deferUntil, picked>>
    BY DEF Refuse
  <1>2. TypeOK'  BY <1>1, Positions DEF PlaceInv, TypeOK
  <1>3. \A p \in Pairs : Precedes(p, <<rule', pos'>>) => RuledOut(p)  BY <1>1 DEF PlaceInv
  <1>4. (pos > 0 => ~RuleDropped)'  BY <1>1
  <1>5. QED  BY <1>1, <1>2, <1>3, <1>4, Frame

LEMMA PlaceInductive == PlaceInv /\ [PlaceNext]_vars => PlaceInv'
  <1> SUFFICES ASSUME PlaceInv, [PlaceNext]_vars PROVE PlaceInv'
    OBVIOUS
  <1>1. CASE SkipRule  BY <1>1, SkipRuleKeeps
  <1>2. CASE EnterRule  BY <1>2, EnterRuleKeeps
  <1>3. CASE SkipAgent  BY <1>3, SkipAgentKeeps
  <1>4. CASE Pick  BY <1>4, PickKeeps
  <1>5. CASE Block  BY <1>5, BlockKeeps
  <1>6. CASE NextRule  BY <1>6, NextRuleKeeps
  <1>7. CASE Refuse  BY <1>7, RefuseKeeps
  <1>8. CASE UNCHANGED vars
    <2>1. /\ in' = in /\ deferUntil' = deferUntil /\ rule' = rule /\ pos' = pos
          /\ status' = status /\ picked' = picked
      BY <1>8 DEF vars
    <2>2. TypeOK'  BY <2>1 DEF PlaceInv, TypeOK
    <2>3. (pos > 0 => ~RuleDropped)'  BY <2>1 DEF PlaceInv, RuleDropped, Rule
    <2>4. QED  BY <2>1, <2>2, <2>3, Frame DEF PlaceInv
  <1>9. QED  BY <1>1, <1>2, <1>3, <1>4, <1>5, <1>6, <1>7, <1>8 DEF PlaceNext

LEMMA InitPlace == PlaceInit => PlaceInv
  <1> SUFFICES ASSUME PlaceInit PROVE PlaceInv
    OBVIOUS
  <1>1. Len(in.rules) \in Nat /\ Len(in.agents) \in Nat  BY InputType DEF PlaceInit
  <1>2. TypeOK  BY <1>1 DEF PlaceInit, TypeOK
  <1>3. \A p \in Pairs : ~Precedes(p, <<rule, pos>>)
    <2>1. \A p \in Pairs : p[1] \in 1 .. Len(in.rules) /\ p[2] \in 1 .. Len(in.agents)
      BY DEF Pairs
    <2>2. QED  BY <1>1, <2>1 DEF PlaceInit, Precedes
  <1>4. QED  BY <1>2, <1>3 DEF PlaceInit, PlaceInv

(* The loops' invariant, the positions' types included.                    *)
THEOREM PlaceInvAlways == PlaceSpec => []PlaceInv
  BY InitPlace, PlaceInductive, PTL DEF PlaceSpec

(* The loops stay within the rules and the agents, and end where a result  *)
(* says: at the picked pair, or past the last rule.                        *)
THEOREM PlaceTypeCorrect == PlaceSpec => []TypeOK
  <1>1. PlaceInv => TypeOK  BY DEF PlaceInv
  <1>2. QED  BY <1>1, PlaceInvAlways, PTL

(* When the loops are through, every pair of a rule and an agent is ruled  *)
(* out.                                                                    *)
LEMMA RefusedAll ==
    ASSUME PlaceInv, status \in {"409", "422"}, NEW p \in Pairs
    PROVE  RuledOut(p)
  <1>1. rule = Len(in.rules) + 1 /\ pos = 0  BY DEF PlaceInv, TypeOK
  <1>2. Precedes(p, <<rule, pos>>)  BY <1>1, Positions DEF Precedes
  <1>3. QED  BY <1>2 DEF PlaceInv

(* The answer is the first agent, in rule and name order, that can run the *)
(* task, and there is none when place refuses.                             *)
THEOREM FirstUsableWinsAlways == PlaceSpec => []FirstUsableWins
  <1>1. PlaceInv => FirstUsableWins
    <2> SUFFICES ASSUME PlaceInv PROVE FirstUsableWins
      OBVIOUS
    <2>1. ASSUME status = "200"
          PROVE  /\ Serves(picked[1], picked[2], in.now)
                 /\ \A p \in Pairs : Precedes(p, picked) => ~Serves(p[1], p[2], in.now)
      <3>1. picked = <<rule, pos>>  BY <2>1 DEF PlaceInv, TypeOK
      <3>2. QED  BY <2>1, <3>1 DEF PlaceInv, RuledOut
    <2>2. ASSUME status \in {"409", "422"}
          PROVE  \A p \in Pairs : ~Serves(p[1], p[2], in.now)
      BY <2>2, RefusedAll DEF RuledOut
    <2>3. QED  BY <2>1, <2>2 DEF FirstUsableWins
  <1>2. QED  BY <1>1, PlaceInvAlways, PTL

(* defer_until is the first moment the same request would be placed.       *)
THEOREM DeferIsExactAlways == PlaceSpec => []DeferIsExact
  <1>1. PlaceInv => DeferIsExact
    <2> SUFFICES ASSUME PlaceInv, status = "409", in.est <= in.limit
                 PROVE  /\ deferUntil > in.now
                        /\ \E p \in Pairs : Serves(p[1], p[2], deferUntil)
                        /\ \A t \in Time : in.now <= t /\ t < deferUntil =>
                             \A p \in Pairs : ~Serves(p[1], p[2], t)
      BY DEF DeferIsExact
    <2>1. deferUntil # 0 /\ deferUntil \in Nat  BY Positions DEF PlaceInv
    <2>2. ASSUME NEW t \in Time, in.now <= t, t < deferUntil, NEW p \in Pairs
          PROVE  ~Serves(p[1], p[2], t)
      <3>1. t \in Nat  BY PlaceAssumption
      <3>2. RuledOut(p)  BY RefusedAll
      <3>3. QED  BY <2>1, <2>2, <3>1, <3>2 DEF RuledOut
    <2>3. QED  BY <2>1, <2>2 DEF PlaceInv
  <1>2. QED  BY <1>1, PlaceInvAlways, PTL

(* No wait would make a request that got 422 be placed.                    *)
THEOREM UnprocessableIsFinalAlways == PlaceSpec => []UnprocessableIsFinal
  <1>1. PlaceInv => UnprocessableIsFinal
    <2> SUFFICES ASSUME PlaceInv, status = "422", NEW t \in Time, in.now <= t, NEW p \in Pairs
                 PROVE  ~Serves(p[1], p[2], t)
      BY DEF UnprocessableIsFinal
    <2>1. deferUntil = 0 /\ t \in Nat  BY PlaceAssumption DEF PlaceInv
    <2>2. RuledOut(p)  BY RefusedAll
    <2>3. QED  BY <2>1, <2>2 DEF RuledOut
  <1>2. QED  BY <1>1, PlaceInvAlways, PTL

-----------------------------------------------------------------------------
(* The slots.  How often b goes into a, by multiplication.                 *)
LEMMA WholeIsQuotient ==
    ASSUME NEW a \in Int, NEW b \in Int, b > 0
    PROVE  Whole(a, b) \in Int /\ b * Whole(a, b) <= a /\ a < b * Whole(a, b) + b
  <1>1. /\ a \div b \in Int /\ a % b \in 0 .. b - 1
        /\ a = b * (a \div b) + (a % b)
    OBVIOUS
  <1>2. QED  BY <1>1 DEF Whole

LEMMA WholeFits ==
    ASSUME NEW a \in Int, NEW b \in Int, b > 0, NEW n \in Int
    PROVE  n * b <= a <=> n <= Whole(a, b)
  <1> SUFFICES ASSUME NEW w \in Int, w = Whole(a, b), b * w <= a, a < b * w + b
               PROVE  n * b <= a <=> n <= w
    BY WholeIsQuotient
  <1>1. CASE n <= w
    <2>1. 0 <= (w - n) * b  BY <1>1
    <2>2. (w - n) * b = b * w - n * b  OBVIOUS
    <2>3. QED  BY <1>1, <2>1, <2>2
  <1>2. CASE w < n
    <2>1. 0 <= (n - w - 1) * b  BY <1>2
    <2>2. (n - w - 1) * b = n * b - b * w - b  OBVIOUS
    <2>3. QED  BY <1>2, <2>1, <2>2
  <1>3. QED  BY <1>1, <1>2

(* A cpu begun is a cpu: the least number of cpus that holds the quota.    *)
LEMMA CpusHoldQuota ==
    ASSUME NEW q \in Int, NEW p \in Int, p > 0, NEW c \in Int
    PROVE  /\ -Whole(-q, p) \in Int
           /\ c * p >= q <=> c >= -Whole(-q, p)
  <1>1. Whole(-q, p) \in Int  BY WholeIsQuotient
  <1>2. (-c) * p <= -q <=> -c <= Whole(-q, p)  BY WholeFits
  <1>3. (-c) * p = -(c * p) /\ c * p \in Int  OBVIOUS
  <1>4. QED  BY <1>1, <1>2, <1>3

LEMMA FreeFits ==
    ASSUME NEW m \in Machine, NEW need \in Int, need > 0 \/ m.memoryMax = NoLimit
    PROVE  /\ FreeMB(m) \in Int
           /\ need <= FreeMB(m) <=>
                /\ need <= m.free
                /\ m.memoryMax # NoLimit => Units * need + m.memoryCurrent <= m.memoryMax
  <1>1. m.free \in Nat /\ m.memoryCurrent \in Nat /\ m.memoryMax \in Nat \cup {NoLimit}
    BY DEF Machine
  <1>2. CASE m.memoryMax = NoLimit  BY <1>1, <1>2 DEF FreeMB
  <1>3. CASE m.memoryMax # NoLimit
    <2>1. m.memoryMax \in Nat /\ need > 0  BY <1>1, <1>3
    <2>2. PICK room \in Int : room = m.memoryMax - m.memoryCurrent  BY <1>1, <2>1
    <2>3. PICK w \in Int : w = Whole(room, Units)  BY WholeIsQuotient DEF Units
    <2>4. need * Units <= room <=> need <= w  BY <2>3, WholeFits DEF Units
    <2>5. w # NoLimit  BY CapacityAssumption
    <2>6. FreeMB(m) = IF Least(m.free, w) < 0 THEN 0 ELSE Least(m.free, w)
      BY <1>3, <2>2, <2>3 DEF FreeMB
    <2>7. Least(m.free, w) \in Int /\ (need <= Least(m.free, w) <=> need <= m.free /\ need <= w)
      BY <1>1, <2>5 DEF Least
    <2>8. need <= m.free /\ need <= w <=> need <= FreeMB(m)
      BY <1>1, <2>1, <2>5, <2>6, <2>7 DEF Least
    <2>9. QED  BY <1>1, <1>3, <2>1, <2>2, <2>4, <2>6, <2>7, <2>8 DEF Units
  <1>4. QED  BY <1>2, <1>3

LEMMA CpusFit ==
    ASSUME NEW m \in Machine, NEW use \in Int
    PROVE  /\ Cpus(m) \in Int
           /\ use <= 10 * Cpus(m) <=>
                /\ use <= 10 * m.cpus
                /\ \A c \in 0 .. m.cpus :
                     m.quota # NoLimit /\ c * m.period >= m.quota => use <= 10 * c
  <1>1. m.cpus \in Nat /\ m.period \in Int /\ m.period > 0 /\ m.quota \in Nat \cup {NoLimit}
    BY DEF Machine
  <1>2. CASE m.quota = NoLimit  BY <1>1, <1>2 DEF Cpus
  <1>3. CASE m.quota # NoLimit
    <2>1. m.quota \in Nat  BY <1>1, <1>3
    <2>2. PICK k \in Int : k = -Whole(-m.quota, m.period)  BY <1>1, <2>1, CpusHoldQuota
    <2>3. \A c \in Int : c * m.period >= m.quota <=> c >= k
      BY <1>1, <2>1, <2>2, CpusHoldQuota
    <2>4. k # NoLimit  BY CapacityAssumption
    <2>5. Cpus(m) = IF k < m.cpus THEN k ELSE m.cpus
      BY <1>1, <1>3, <2>2, <2>4 DEF Cpus, Least
    <2>6. k >= 0
      <3>1. (-1) * m.period < m.quota  BY <1>1, <2>1
      <3>2. ~(-1 >= k)  BY <1>1, <2>1, <2>3, <3>1
      <3>3. QED  BY <3>2
    <2>7. (\A c \in 0 .. m.cpus :
             m.quota # NoLimit /\ c * m.period >= m.quota => use <= 10 * c)
          <=> \A c \in 0 .. m.cpus : c >= k => use <= 10 * c
      BY <1>1, <1>3, <2>3
    <2>8. (use <= 10 * Cpus(m)) <=>
            /\ use <= 10 * m.cpus
            /\ \A c \in 0 .. m.cpus : c >= k => use <= 10 * c
      BY <1>1, <2>5, <2>6
    <2>9. QED  BY <1>1, <2>5, <2>7, <2>8
  <1>4. QED  BY <1>2, <1>3

LEMMA RoomIsFitting ==
    ASSUME NEW m \in Machine, m.gate.memory > 0, m.gate.cpus > 0,
           m.gate.reserve >= 0 \/ m.memoryMax = NoLimit,
           NEW n \in Nat, n > 0
    PROVE  /\ Fitting(FreeMB(m), Cpus(m), m.gate) \in Int
           /\ Room(n, m) <=> n <= Fitting(FreeMB(m), Cpus(m), m.gate)
  <1> DEFINE g == m.gate
             need == n * g.memory + g.reserve
             use == n * g.cpus
  <1>1. g.memory \in Int /\ g.cpus \in Int /\ g.reserve \in Int /\ g.maxSlots \in Int \cup {NoLimit}
    BY DEF Machine, Gate
  <1>2. n * g.memory > 0  BY <1>1
  <1>3. need \in Int /\ use \in Int /\ (need > 0 \/ m.memoryMax = NoLimit)
    BY <1>1, <1>2
  <1>4. PICK f \in Int : f = FreeMB(m)  BY <1>3, FreeFits
  <1>5. PICK c \in Int : c = Cpus(m)  BY <1>3, CpusFit
  <1>6. PICK a \in Int : a = Whole(f - g.reserve, g.memory)
    <2>1. f - g.reserve \in Int  BY <1>1
    <2>2. Whole(f - g.reserve, g.memory) \in Int  BY <1>1, <2>1, WholeIsQuotient
    <2>3. QED  BY <2>2
  <1>7. PICK b \in Int : b = Whole(10 * c, g.cpus)
    <2>1. 10 * c \in Int  OBVIOUS
    <2>2. Whole(10 * c, g.cpus) \in Int  BY <1>1, <2>1, WholeIsQuotient
    <2>3. QED  BY <2>2
  <1>8. need <= f <=> n <= a
    <2>1. n * g.memory <= f - g.reserve <=> n <= a  BY <1>1, <1>6, WholeFits
    <2>2. n * g.memory \in Int  BY <1>1
    <2>3. QED  BY <1>1, <2>1, <2>2
  <1>9. use <= 10 * c <=> n <= b
    BY <1>1, <1>7, WholeFits
  <1>10. a # NoLimit /\ b # NoLimit  BY CapacityAssumption
  <1>11. Fitting(FreeMB(m), Cpus(m), g) = Least(Least(a, b), g.maxSlots)
    BY <1>4, <1>5, <1>6, <1>7 DEF Fitting
  <1>12. /\ Least(Least(a, b), g.maxSlots) \in Int
         /\ n <= Least(Least(a, b), g.maxSlots) <=>
              n <= a /\ n <= b /\ (g.maxSlots # NoLimit => n <= g.maxSlots)
    BY <1>1, <1>10 DEF Least
  <1>13. Room(n, m) <=>
           need <= f /\ use <= 10 * c /\ (g.maxSlots # NoLimit => n <= g.maxSlots)
    <2>1. need <= f <=>
            /\ need <= m.free
            /\ m.memoryMax # NoLimit => Units * need + m.memoryCurrent <= m.memoryMax
      BY <1>3, <1>4, FreeFits
    <2>2. use <= 10 * c <=>
            /\ use <= 10 * m.cpus
            /\ \A k \in 0 .. m.cpus :
                 m.quota # NoLimit /\ k * m.period >= m.quota => use <= 10 * k
      BY <1>3, <1>5, CpusFit
    <2>3. QED  BY <2>1, <2>2 DEF Room
  <1>14. QED  BY <1>8, <1>9, <1>11, <1>12, <1>13

(* What collectCapacity computes is exact.                                 *)
LEMMA CollectedIsExact ==
    ASSUME NEW m \in Machine, m.gate.reserve >= 0 \/ m.memoryMax = NoLimit
    PROVE  Exact(Collected(m), m)
  <1> DEFINE slots == Collected(m)
             fit == Fitting(FreeMB(m), Cpus(m), m.gate)
  <1>1. m.override \in Int \cup {NoLimit} /\ m.gate.memory \in Int /\ m.gate.cpus \in Int
    BY DEF Machine, Gate
  <1>2. CASE m.override # NoLimit
    <2>1. m.override \in Int  BY <1>1, <1>2
    <2>2. QED  BY <1>2, <2>1 DEF Collected, Slots, Exact
  <1>3. CASE m.override = NoLimit /\ (m.gate.memory <= 0 \/ m.gate.cpus <= 0)
    BY <1>3 DEF Collected, Slots, Exact
  <1>4. CASE m.override = NoLimit /\ m.gate.memory > 0 /\ m.gate.cpus > 0
    <2>1. \A n \in Nat : n > 0 => fit \in Int /\ (Room(n, m) <=> n <= fit)
      BY <1>4, RoomIsFitting
    <2>2. fit \in Int  BY <2>1
    <2>3. ~(m.gate.memory <= 0 \/ m.gate.cpus <= 0)  BY <1>1, <1>4
    <2>4. slots = IF fit < 0 THEN 0 ELSE fit
      BY <1>4, <2>3 DEF Collected, Slots
    <2>5. slots \in Nat /\ (slots > 0 => slots = fit) /\ slots + 1 > fit
      BY <2>2, <2>4
    <2>6. slots > 0 => Room(slots, m)  BY <2>1, <2>2, <2>5
    <2>7. ~Room(slots + 1, m)  BY <2>1, <2>2, <2>5
    <2>8. QED  BY <1>4, <2>3, <2>5, <2>6, <2>7 DEF Exact
  <1>5. QED  BY <1>1, <1>2, <1>3, <1>4

(* The slots of every computer, in or out of a cgroup, whatever the gate,  *)
(* are the tasks it has room for, and one more has none.                   *)
THEOREM SlotsExactAlways == PlaceSpec => []SlotsExact
  <1>1. PlaceInv => SlotsExact
    <2> SUFFICES ASSUME in \in Inputs,
                        in.machine.gate.reserve >= 0 \/ in.machine.memoryMax = NoLimit
                 PROVE  Exact(in.slots, in.machine)
      BY DEF PlaceInv, SlotsExact
    <2>1. in.machine \in Machine /\ in.slots = Collected(in.machine)  BY SlotsAssumption
    <2>2. QED  BY <2>1, CollectedIsExact
  <1>2. QED  BY <1>1, PlaceInvAlways, PTL

(***************************************************************************)
(* The call that asks for the place, and the readiness of the cad it asks. *)
(***************************************************************************)

LEMMA ReadinessInvInit == Init => ReadinessInv
  <1> SUFFICES ASSUME Init PROVE ReadinessInv
    OBVIOUS
  <1>1. usage \in [gen : 0 .. last, stale : BOOLEAN] /\ usage.gen = 0
    <2>1. last = 0 /\ usage = [gen |-> 0, stale |-> FALSE]  BY DEF Init, NoUsage
    <2>2. 0 \in 0 .. last  BY <2>1
    <2>3. [gen |-> 0, stale |-> FALSE] \in [gen : 0 .. last, stale : BOOLEAN]  BY <2>2
    <2>4. QED  BY <2>1, <2>3
  <1>2. ReadinessTypeOK
    <2>1. 0 \in 0 .. MaxStarts /\ 0 \in 0 .. MaxAge + 1 /\ 0 \in 0 .. 0 /\ 0 \in Nat
      BY ReadinessAssumption
    <2>2. got \in [Goroutine -> 0 .. last] /\ born \in 0 .. last /\ file \in 0 .. last
      BY <2>1 DEF Init
    <2>3. pc \in [Goroutine -> {"idle", "publish", "save", "mark"}]
          /\ \A g \in Goroutine : pc[g] = "idle"
      BY DEF Init
    <2>4. QED  BY <1>1, <2>1, <2>2, <2>3 DEF Init, ReadinessTypeOK
  <1>3. QED
    BY <1>1, <1>2
       DEF Init, ReadinessInv, DownIsEmpty, OneInFlight, ReadyHasUsage, StaleIffInherited

(* What a goroutine in the middle of collectOne knows.                     *)
LEMMA InFlight ==
    ASSUME ReadinessInv, NEW g \in Goroutine, pc[g] # "idle"
    PROVE  /\ up /\ busy /\ got[g] = last /\ last > born
           /\ last \in Nat /\ born \in Nat
           /\ \A h \in Goroutine \ {g} : pc[h] = "idle"
  BY DEF ReadinessInv, ReadinessTypeOK, DownIsEmpty, OneInFlight

LEMMA BootKeeps == ReadinessInv /\ Boot => ReadinessInv'
  <1> SUFFICES ASSUME ReadinessInv, Boot PROVE ReadinessInv'
    OBVIOUS
  <1>1. \A g \in Goroutine : pc[g] = "idle"
    BY DEF Boot, ReadinessInv, ReadinessTypeOK, DownIsEmpty
  <1>2. file \in Nat /\ last \in Nat /\ file \in 0 .. last
        /\ up' = TRUE /\ born' = last /\ UNCHANGED <<busy, pc, got, last, file, age>>
        /\ starts' \in 0 .. MaxStarts
    BY ReadinessAssumption DEF Boot, ReadinessInv, ReadinessTypeOK
  <1>3. \/ usage' = [gen |-> file, stale |-> TRUE] /\ file # 0 /\ readySrc' = "snapshot"
        \/ usage' = [gen |-> 0, stale |-> FALSE] /\ readySrc' = "no"
    BY DEF Boot, Loaded, NoUsage
  <1>4. ReadinessTypeOK'
    <2>0. 0 \in 0 .. last  BY <1>2
    <2>1. \A f \in 0 .. last, s \in BOOLEAN :
            [gen |-> f, stale |-> s] \in [gen : 0 .. last, stale : BOOLEAN]
      OBVIOUS
    <2>2. usage' \in [gen : 0 .. last, stale : BOOLEAN]  BY <1>2, <1>3, <2>0, <2>1
    <2>3. readySrc' \in {"no", "snapshot", "collected"}  BY <1>3
    <2>4. QED  BY <1>1, <1>2, <2>2, <2>3 DEF ReadinessInv, ReadinessTypeOK
  <1>5. QED
    BY <1>1, <1>2, <1>3, <1>4
       DEF ReadinessInv, DownIsEmpty, OneInFlight, ReadyHasUsage, StaleIffInherited

LEMMA CollectKeeps == ASSUME ReadinessInv, NEW g \in Goroutine, Collect(g)
                      PROVE  ReadinessInv'
  <1>1. \A h \in Goroutine : pc[h] = "idle"  BY DEF Collect, ReadinessInv, ReadinessTypeOK
  <1>2. /\ last \in Nat /\ born \in 0 .. last /\ file \in 0 .. last
        /\ usage \in [gen : 0 .. last, stale : BOOLEAN]
        /\ pc \in [Goroutine -> {"idle", "publish", "save", "mark"}]
        /\ got \in [Goroutine -> 0 .. last]
    BY DEF ReadinessInv, ReadinessTypeOK
  <1>3. /\ last' = last + 1 /\ busy' = TRUE
        /\ got' = [got EXCEPT ![g] = last + 1] /\ pc' = [pc EXCEPT ![g] = "publish"]
        /\ UNCHANGED <<up, starts, usage, readySrc, born, file, age>>
    BY DEF Collect
  <1>4. pc'[g] = "publish" /\ got'[g] = last' /\ \A h \in Goroutine \ {g} : pc'[h] = "idle"
    BY <1>1, <1>2, <1>3
  <1>5. ReadinessTypeOK'
    <2>1. got' \in [Goroutine -> 0 .. last'] /\ usage' \in [gen : 0 .. last', stale : BOOLEAN]
      BY <1>2, <1>3
    <2>2. QED  BY <1>2, <1>3, <2>1 DEF ReadinessInv, ReadinessTypeOK
  <1>6. DownIsEmpty' /\ OneInFlight'
    BY <1>2, <1>3, <1>4 DEF Collect, ReadinessInv, DownIsEmpty, OneInFlight
  <1>7. QED
    BY <1>3, <1>5, <1>6 DEF ReadinessInv, ReadyHasUsage, StaleIffInherited

LEMMA PublishKeeps == ASSUME ReadinessInv, NEW g \in Goroutine, Publish(g)
                      PROVE  ReadinessInv'
  <1>1. up /\ busy /\ got[g] = last /\ last > born /\ last \in Nat /\ born \in Nat
        /\ \A h \in Goroutine \ {g} : pc[h] = "idle"
    BY InFlight DEF Publish
  <1>2. /\ usage' = [gen |-> last, stale |-> FALSE] /\ pc' = [pc EXCEPT ![g] = "save"]
        /\ UNCHANGED <<up, starts, readySrc, busy, got, last, born, file, age>>
    BY <1>1 DEF Publish
  <1>3. pc \in [Goroutine -> {"idle", "publish", "save", "mark"}]
    BY DEF ReadinessInv, ReadinessTypeOK
  <1>4. pc'[g] = "save" /\ \A h \in Goroutine \ {g} : pc'[h] = "idle"  BY <1>1, <1>2, <1>3
  <1>5. ReadinessTypeOK'  BY <1>1, <1>2, <1>3, <1>4 DEF ReadinessInv, ReadinessTypeOK
  <1>6. QED
    BY <1>1, <1>2, <1>4, <1>5
       DEF ReadinessInv, DownIsEmpty, OneInFlight, ReadyHasUsage, StaleIffInherited

LEMMA SaveKeeps == ASSUME ReadinessInv, NEW g \in Goroutine, Save(g)
                   PROVE  ReadinessInv' /\ file' >= file
  <1>1. up /\ busy /\ got[g] = last /\ last > born /\ last \in Nat /\ born \in Nat
        /\ \A h \in Goroutine \ {g} : pc[h] = "idle"
    BY InFlight DEF Save
  <1>2. /\ pc' = [pc EXCEPT ![g] = "mark"]
        /\ UNCHANGED <<up, starts, usage, readySrc, busy, got, last, born>>
    BY DEF Save
  <1>3. /\ pc \in [Goroutine -> {"idle", "publish", "save", "mark"}]
        /\ file \in 0 .. last /\ age \in 0 .. MaxAge + 1
    BY DEF ReadinessInv, ReadinessTypeOK
  <1>4. file' \in 0 .. last /\ file' >= file /\ age' \in 0 .. MaxAge + 1
    BY <1>1, <1>3, ReadinessAssumption DEF Save
  <1>5. pc'[g] = "mark" /\ pc[g] = "save" /\ \A h \in Goroutine \ {g} : pc'[h] = "idle"
    BY <1>1, <1>2, <1>3 DEF Save
  <1>6. ReadinessTypeOK'
    BY <1>1, <1>2, <1>3, <1>4, <1>5 DEF ReadinessInv, ReadinessTypeOK
  <1>7. OneInFlight'  BY <1>1, <1>2, <1>5 DEF ReadinessInv, OneInFlight
  <1>8. QED
    BY <1>2, <1>4, <1>6, <1>7 DEF ReadinessInv, DownIsEmpty, ReadyHasUsage, StaleIffInherited

LEMMA MarkKeeps == ASSUME ReadinessInv, NEW g \in Goroutine, Mark(g)
                   PROVE  ReadinessInv'
  <1>1. up /\ got[g] = last /\ last > born /\ last \in Nat /\ born \in Nat
        /\ \A h \in Goroutine \ {g} : pc[h] = "idle"
    BY InFlight DEF Mark
  <1>2. usage = [gen |-> last, stale |-> FALSE]
    BY DEF Mark, ReadinessInv, OneInFlight
  <1>3. /\ pc' = [pc EXCEPT ![g] = "idle"] /\ readySrc' = "collected" /\ busy' = FALSE
        /\ UNCHANGED <<up, starts, usage, got, last, born, file, age>>
    BY DEF Mark
  <1>4. \A h \in Goroutine : pc'[h] = "idle"
    BY <1>1, <1>3 DEF ReadinessInv, ReadinessTypeOK
  <1>5. ReadinessTypeOK'  BY <1>3, <1>4 DEF ReadinessInv, ReadinessTypeOK
  <1>6. QED
    BY <1>1, <1>2, <1>3, <1>4, <1>5
       DEF ReadinessInv, DownIsEmpty, OneInFlight, ReadyHasUsage, StaleIffInherited

LEMMA TickKeeps == ReadinessInv /\ Tick => ReadinessInv'
  <1> SUFFICES ASSUME ReadinessInv, Tick PROVE ReadinessInv'
    OBVIOUS
  <1>1. age' \in 0 .. MaxAge + 1
    BY ReadinessAssumption DEF Tick, ReadinessInv, ReadinessTypeOK
  <1>2. QED
    BY <1>1 DEF Tick, ReadinessInv, ReadinessTypeOK, DownIsEmpty, OneInFlight, ReadyHasUsage,
                StaleIffInherited

LEMMA CrashKeeps == ReadinessInv /\ Crash => ReadinessInv'
  <1> SUFFICES ASSUME ReadinessInv, Crash PROVE ReadinessInv'
    OBVIOUS
  <1>1. last \in Nat /\ UNCHANGED <<starts, last, born, file, age>> /\ up' = FALSE
        /\ readySrc' = "no" /\ busy' = FALSE
    BY DEF Crash, ReadinessInv, ReadinessTypeOK
  <1>2. usage' \in [gen : 0 .. last, stale : BOOLEAN] /\ usage'.gen = 0 /\ usage' = NoUsage
    BY <1>1 DEF Crash, NoUsage
  <1>3. /\ pc' \in [Goroutine -> {"idle", "publish", "save", "mark"}]
        /\ got' \in [Goroutine -> 0 .. last]
        /\ \A g \in Goroutine : pc'[g] = "idle"
    BY <1>1 DEF Crash
  <1>4. ReadinessTypeOK'
    BY <1>1, <1>2, <1>3 DEF ReadinessInv, ReadinessTypeOK
  <1>5. DownIsEmpty' /\ OneInFlight' /\ ReadyHasUsage' /\ StaleIffInherited'
    BY <1>1, <1>2, <1>3 DEF DownIsEmpty, NoUsage, OneInFlight, ReadyHasUsage, StaleIffInherited
  <1>6. QED  BY <1>4, <1>5 DEF ReadinessInv

LEMMA ReadinessInvStep ==
    ASSUME ReadinessInv, [Next]_daemonVars
    PROVE  ReadinessInv' /\ (UNCHANGED daemonVars \/ file' >= file)
  <1>1. file >= file  BY DEF ReadinessInv, ReadinessTypeOK
  <1>2. CASE UNCHANGED daemonVars
    BY <1>2 DEF daemonVars, ReadinessInv, ReadinessTypeOK, DownIsEmpty, OneInFlight,
                ReadyHasUsage, StaleIffInherited
  <1>3. CASE Boot  BY <1>1, <1>3, BootKeeps DEF Boot
  <1>4. CASE Tick  BY <1>1, <1>4, TickKeeps DEF Tick
  <1>5. CASE Crash  BY <1>1, <1>5, CrashKeeps DEF Crash
  <1>6. ASSUME NEW g \in Goroutine, Run(g)  PROVE ReadinessInv' /\ file' >= file
    <2>1. CASE Collect(g)  BY <1>1, <2>1, CollectKeeps DEF Collect
    <2>2. CASE Publish(g)  BY <1>1, <2>2, PublishKeeps DEF Publish
    <2>3. CASE Save(g)  BY <2>3, SaveKeeps
    <2>4. CASE Mark(g)  BY <1>1, <2>4, MarkKeeps DEF Mark
    <2>5. QED  BY <1>6, <2>1, <2>2, <2>3, <2>4 DEF Run
  <1>7. QED  BY <1>2, <1>3, <1>4, <1>5, <1>6 DEF Next

(* The inductive invariant: run's flag keeps collections apart, and what is*)
(* in flight is newer than anything served or saved.                       *)
THEOREM ReadinessInvAlways == Spec => []ReadinessInv
  BY ReadinessInvInit, ReadinessInvStep, PTL DEF Spec

(* Whatever crashes, ready means that there is usage, of a collection that *)
(* the daemon says is its own when it is; and stale means inherited.       *)
THEOREM ReadyHasUsageAlways == Spec => []ReadyHasUsage
  <1>1. ReadinessInv => ReadyHasUsage  BY DEF ReadinessInv
  <1>2. QED  BY <1>1, ReadinessInvAlways, PTL

(* Stale is what an earlier daemon collected, and nothing else.            *)
THEOREM StaleIffInheritedAlways == Spec => []StaleIffInherited
  <1>1. ReadinessInv => StaleIffInherited  BY DEF ReadinessInv
  <1>2. QED  BY <1>1, ReadinessInvAlways, PTL

(* The snapshot only ever gets newer, whichever run of the daemon saves it.*)
THEOREM SnapshotGoesForward == Spec => SnapshotNeverGoesBack
  <1>1. ReadinessInv /\ [Next]_daemonVars => [file' >= file]_daemonVars
    BY ReadinessInvStep
  <1>2. QED  BY <1>1, ReadinessInvAlways, PTL DEF Spec, SnapshotNeverGoesBack

-----------------------------------------------------------------------------
(* A call only reads: with one under way the daemon does what it does      *)
(* without.                                                                *)
LEMMA CallOnlyReads ==
    /\ Call => UNCHANGED daemonVars
    /\ [CallNext]_allVars => [Next]_daemonVars
  <1>1. Call => UNCHANGED daemonVars
    BY DEF Call, ProbeFails, Probe, GetUsage, GetCapacity, GetFails, End
  <1>2. QED  BY <1>1 DEF CallNext, allVars

(* orchd only reads: cad beside a place call behaves as cad does.          *)
THEOREM CallKeepsDaemon == CallSpec => Spec
  <1>1. CallInit => Init  BY DEF CallInit
  <1>2. QED  BY <1>1, CallOnlyReads, PTL DEF CallSpec, Spec

LEMMA CallTypeStep ==
    ASSUME CallTypeOK, ReadinessInv, [CallNext]_allVars
    PROVE  CallTypeOK' /\ ReadinessInv'
  <1>1. ReadinessInv'  BY CallOnlyReads, ReadinessInvStep
  <1>2. ReadinessTypeOK'  BY <1>1 DEF ReadinessInv
  <1>3. CASE UNCHANGED callVars  BY <1>1, <1>2, <1>3 DEF callVars, CallTypeOK
  <1>4. CASE Call
    <2>1. tries \in Nat /\ tries \in 0 .. Retries /\ Retries \in Nat
      BY PlaceCallAssumption DEF CallTypeOK
    <2>2. CASE ProbeFails  BY <1>1, <1>2, <2>1, <2>2 DEF ProbeFails, End, CallTypeOK
    <2>3. CASE Probe  BY <1>1, <1>2, <2>1, <2>3 DEF Probe, End, CallTypeOK
    <2>4. CASE GetUsage  BY <1>1, <1>2, <2>1, <2>4 DEF GetUsage, CallTypeOK
    <2>5. CASE GetCapacity  BY <1>1, <1>2, <2>1, <2>5 DEF GetCapacity, End, CallTypeOK
    <2>6. CASE GetFails  BY <1>1, <1>2, <2>1, <2>6 DEF GetFails, End, CallTypeOK
    <2>7. QED  BY <1>4, <2>2, <2>3, <2>4, <2>5, <2>6 DEF Call
  <1>5. QED  BY <1>1, <1>3, <1>4 DEF CallNext, allVars, callVars

(* The daemon's steps keep the snapshot, and with it the usage to serve.   *)
LEMMA SnapshotRemainsNext ==
    ASSUME ~SaveMayFail, ~MayBeLost, ReadinessInv, SnapshotRemains, Next, UNCHANGED callVars
    PROVE  SnapshotRemains'
  <1>1. age = 0 /\ at' = at /\ went' = went  BY DEF SnapshotRemains, callVars
  <1>2. CASE Boot
    <2>1. age <= MaxAge  BY <1>1, ReadinessAssumption
    <2>2. IF file # 0 THEN usage'.gen = file /\ readySrc' = "snapshot" ELSE readySrc' = "no"
      BY <1>2, <1>1, <2>1, ReadinessAssumption DEF Boot, Loaded
    <2>3. QED  BY <1>1, <1>2, <2>2 DEF Boot, SnapshotRemains
  <1>3. CASE Tick  BY <1>3 DEF Tick
  <1>4. CASE Crash  BY <1>1, <1>4 DEF Crash, SnapshotRemains
  <1>5. ASSUME NEW g \in Goroutine, Run(g)  PROVE SnapshotRemains'
    <2>1. pc \in [Goroutine -> {"idle", "publish", "save", "mark"}]
          /\ last \in Nat /\ born \in Nat
      BY DEF ReadinessInv, ReadinessTypeOK
    <2>2. CASE Collect(g)  BY <1>1, <2>1, <2>2 DEF Collect, SnapshotRemains
    <2>3. CASE Publish(g)
      <3>1. usage'.gen = last /\ last # 0  BY <2>1, <2>3, InFlight DEF Publish
      <3>2. QED  BY <1>1, <2>1, <2>3, <3>1 DEF Publish, SnapshotRemains
    <2>4. CASE Save(g)
      <3>1. file' = last /\ last # 0 /\ age' = 0 /\ usage' = usage
        BY <2>1, <2>4, InFlight DEF Save
      <3>2. usage.gen = last  BY <2>4 DEF Save, ReadinessInv, OneInFlight
      <3>3. QED  BY <1>1, <2>1, <2>4, <3>1, <3>2 DEF Save, SnapshotRemains
    <2>5. CASE Mark(g)  BY <1>1, <2>1, <2>5 DEF Mark, SnapshotRemains
    <2>6. QED  BY <1>5, <2>2, <2>3, <2>4, <2>5 DEF Run
  <1>6. QED  BY <1>2, <1>3, <1>4, <1>5 DEF Next

LEMMA SnapshotRemainsStep ==
    ASSUME ~SaveMayFail, ~MayBeLost, CallTypeOK, ReadinessInv, SnapshotRemains, NotPlacedBlind,
           [CallNext]_allVars
    PROVE  SnapshotRemains' /\ NotPlacedBlind'
  <1>1. CASE Next /\ UNCHANGED callVars
    <2>1. NotPlacedBlind'  BY <1>1 DEF callVars, NotPlacedBlind
    <2>2. QED  BY <1>1, <2>1, SnapshotRemainsNext
  <1>2. CASE Call
    <2>1. UNCHANGED <<up, usage, readySrc, pc, file, age>>
      BY <1>2, CallOnlyReads DEF daemonVars
    <2>2. at = "done" <=> exit # "running"  BY DEF CallTypeOK
    <2>3. CASE ProbeFails
      BY <2>1, <2>2, <2>3 DEF ProbeFails, End, SnapshotRemains, NotPlacedBlind
    <2>4. CASE Probe  BY <2>1, <2>2, <2>4 DEF Probe, End, SnapshotRemains, NotPlacedBlind
    <2>5. CASE GetUsage
      <3>1. went' \in {"stale", "known"} /\ file # 0  BY <2>5 DEF GetUsage, SnapshotRemains
      <3>2. QED  BY <2>1, <2>2, <2>5, <3>1 DEF GetUsage, SnapshotRemains, NotPlacedBlind
    <2>6. CASE GetCapacity
      BY <2>1, <2>6 DEF GetCapacity, End, SnapshotRemains, NotPlacedBlind
    <2>7. CASE GetFails  BY <2>1, <2>7 DEF GetFails, End, SnapshotRemains, NotPlacedBlind
    <2>8. QED  BY <1>2, <2>3, <2>4, <2>5, <2>6, <2>7 DEF Call
  <1>3. CASE UNCHANGED allVars
    BY <1>3 DEF allVars, daemonVars, callVars, SnapshotRemains, NotPlacedBlind
  <1>4. QED  BY <1>1, <1>2, <1>3 DEF CallNext

LEMMA CallInvInit == CallInit => CallInv
  <1> SUFFICES ASSUME CallInit PROVE CallInv
    OBVIOUS
  <1>1. Init /\ ReadinessInv  BY ReadinessInvInit DEF CallInit
  <1>2. CallTypeOK
    BY <1>1, PlaceCallAssumption DEF CallInit, CallTypeOK, ReadinessInv
  <1>3. SnapshotRemains /\ NotPlacedBlind
    BY <1>1 DEF CallInit, Init, NoUsage, SnapshotRemains, NotPlacedBlind
  <1>4. QED  BY <1>1, <1>2, <1>3 DEF CallInv

LEMMA CallInvStep == CallInv /\ [CallNext]_allVars => CallInv'
  BY CallTypeStep, SnapshotRemainsStep DEF CallInv

(* The inductive invariant of a place call beside a daemon that may crash: *)
(* its tries are bounded, and what it was told stays true enough.          *)
THEOREM CallInvAlways == CallSpec => []CallInv
  BY CallInvInit, CallInvStep, PTL DEF CallSpec

(* With snapshots that can be saved and do not expire, a call that the     *)
(* probe let through is not placed without usage, crash where cad may.     *)
THEOREM NotPlacedBlindAlways ==
    ~SaveMayFail /\ ~MayBeLost => (CallSpec => []NotPlacedBlind)
  <1> SUFFICES ASSUME ~SaveMayFail, ~MayBeLost PROVE CallSpec => []NotPlacedBlind
    OBVIOUS
  <1>1. CallInv => NotPlacedBlind  BY DEF CallInv
  <1>2. QED  BY <1>1, CallInvAlways, PTL
=============================================================================
