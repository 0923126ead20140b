---------------------------- MODULE BridgeProofs -----------------------------
(***************************************************************************)
(* SetupBridge with any number of callers, with failing commands and with  *)
(* clients that go away.                                                   *)
(***************************************************************************)
EXTENDS Bridge, TLAPS

(* The call that made the link, whatever became of it. *)
Elected(p) == pc[p] \in Configuring \/ next[p] > 1

ElectedInv ==
  /\ \A p \in Callers : Elected(p) => link
  /\ \A p, q \in Callers : Elected(p) /\ Elected(q) => p = q

(* "ip link add" elects, and what the elected call does no one undoes. *)
WorkInv ==
  \A p \in Callers :
    /\ pc[p] \in {"idle", "show", "add", "addr", "up"} => next[p] = 1
    /\ pc[p] = "up" => addr
    /\ pc[p] = "rules" => addr /\ up
    /\ \A i \in 1..4 :
         \/ pc[p] = "rules" /\ 2 * i < next[p]
         \/ pc[p] = "ok" /\ next[p] = 8
         => rules[Rules[i]] >= 1

(* Between its delete and its append a rule is absent, unless the context  *)
(* has ended and the append will fail.                                     *)
OnceInv ==
  "busy" \notin Faults =>
    /\ RulesOnce
    /\ \A p \in Callers : pc[p] = "rules" /\ ~Deletes(p) /\ ~ctxDone[p] => rules[Rule(p)] = 0

(* Until the elected call appends a rule, no one has. *)
CopiesInv ==
  /\ ~link => \A r \in RuleNames : rules[r] <= 1
  /\ \A p \in Callers : pc[p] \in Configuring =>
       \A i \in 1..4 : next[p] <= 2 * i => rules[Rules[i]] <= 1

BridgeInv == TypeOK /\ ElectedInv /\ WorkInv /\ OnceInv /\ CopiesInv

-----------------------------------------------------------------------------

LEMMA RulesShape ==
  /\ Len(Rules) = 4 /\ DOMAIN Rules = 1..4
  /\ Rules[1] = "nat" /\ Rules[2] = "out" /\ Rules[3] = "back" /\ Rules[4] = "drop"
  /\ RuleNames = {"nat", "out", "back", "drop"}
<1>1. /\ Len(Rules) = 4 /\ DOMAIN Rules = 1..4
      /\ Rules[1] = "nat" /\ Rules[2] = "out" /\ Rules[3] = "back" /\ Rules[4] = "drop"
  BY DEF Rules
<1>2. 1..4 = {1, 2, 3, 4}
  OBVIOUS
<1> QED BY <1>1, <1>2 DEF RuleNames

(* Which rule a call is at, and whether it deletes or appends it. *)
LEMMA RuleAt ==
  ASSUME NEW p, next[p] \in 1..8
  PROVE  \E i \in 1..4 : /\ Rule(p) = Rules[i]
                         /\ \/ Deletes(p) /\ next[p] = 2 * i - 1
                            \/ ~Deletes(p) /\ next[p] = 2 * i
<1>1. ASSUME next[p] % 2 = 1
      PROVE  /\ (next[p] + 1) \div 2 \in 1..4
             /\ next[p] = 2 * ((next[p] + 1) \div 2) - 1
  BY <1>1
<1>2. ASSUME next[p] % 2 # 1
      PROVE  /\ (next[p] + 1) \div 2 \in 1..4
             /\ next[p] = 2 * ((next[p] + 1) \div 2)
  BY <1>2
<1> QED BY <1>1, <1>2 DEF Rule, Deletes

LEMMA BridgeInit == Init => BridgeInv
<1> USE RulesShape
<1>1. Init => TypeOK
  <2> SUFFICES ASSUME Init PROVE TypeOK
    OBVIOUS
  <2>1. rules \in [RuleNames -> 0..2]
    BY DEF Init
  <2>2. next \in [Callers -> 1 .. 2 * Len(Rules)]
    BY DEF Init
  <2> QED BY <2>1, <2>2 DEF Init, TypeOK
<1>2. Init => ElectedInv /\ WorkInv
  BY DEF Init, ElectedInv, Elected, Configuring, WorkInv
<1>3. Init => OnceInv
  BY DEF Init, OnceInv, RulesOnce
<1>4. Init => CopiesInv
  BY DEF Init, CopiesInv, Configuring
<1> QED BY <1>1, <1>2, <1>3, <1>4 DEF BridgeInv

(* The steps before the rules: the tables stay as they are. *)
LEMMA LinkSteps ==
  ASSUME BridgeInv, NEW p \in Callers,
         Call(p) \/ Show(p) \/ AddLink(p) \/ AddAddress(p) \/ SetUp(p) \/ Disconnect(p)
  PROVE  BridgeInv'
<1> USE RulesShape DEF BridgeInv, Goto, Runs, Fails, CutShort
<1>1. TypeOK'
  BY DEF TypeOK, Configuring, Call, Show, AddLink, AddAddress, SetUp, Disconnect
<1>2. ElectedInv'
  BY DEF ElectedInv, Elected, Configuring, TypeOK, Call, Show, AddLink, AddAddress, SetUp, Disconnect
<1>3. /\ rules' = rules /\ next' = next
      /\ \A q \in Callers : q # p => pc'[q] = pc[q] /\ ctxDone'[q] = ctxDone[q]
      /\ ctxDone[p] => ctxDone'[p]
      /\ addr => addr'
      /\ up => up'
  BY DEF TypeOK, Call, Show, AddLink, AddAddress, SetUp, Disconnect
<1>4. /\ pc'[p] \in {"rules", "ok"} =>
           pc[p] = pc'[p] \/ pc[p] \in {"idle", "show", "add", "addr", "up"}
      /\ pc'[p] \in {"show", "add", "addr", "up"} =>
           pc[p] \in {"idle", "show", "add", "addr", "up"}
      /\ pc'[p] # "idle" \/ pc[p] = "idle"
      /\ pc'[p] = "up" => addr' \/ pc[p] = "up"
      /\ pc'[p] = "rules" => pc[p] = "rules" \/ (pc[p] = "up" /\ up')
  BY DEF TypeOK, Call, Show, AddLink, AddAddress, SetUp, Disconnect
<1>5. WorkInv'
  BY <1>3, <1>4 DEF WorkInv
<1>6. OnceInv'
  <2>1. \A q \in Callers : Rule(q)' = Rule(q) /\ (Deletes(q)' <=> Deletes(q))
    BY <1>3 DEF Rule, Deletes
  <2>2. pc'[p] = "rules" => pc[p] = "rules" \/ Deletes(p)
    BY <1>4 DEF WorkInv, Deletes
  <2> QED BY <1>3, <2>1, <2>2 DEF OnceInv, RulesOnce
<1>7. CopiesInv'
  <2>1. link => link'
    BY DEF TypeOK, Call, Show, AddLink, AddAddress, SetUp, Disconnect
  <2>2. \/ pc'[p] \in Configuring => pc[p] \in Configuring
        \/ ~link
    BY DEF Configuring, TypeOK, Call, Show, AddLink, AddAddress, SetUp, Disconnect
  <2>3. \A i \in 1..4 : Rules[i] \in RuleNames
    OBVIOUS
  <2> QED BY <1>3, <2>1, <2>2, <2>3 DEF CopiesInv
<1> QED BY <1>1, <1>2, <1>5, <1>6, <1>7

(* The elected call deletes and appends: rules that others appended do not *)
(* exist, and what was appended before is another rule.                    *)
LEMMA RuleSteps ==
  ASSUME BridgeInv, NEW p \in Callers, DeleteRule(p) \/ AppendRule(p)
  PROVE  BridgeInv'
<1> USE RulesShape DEF BridgeInv, Goto, Runs, Fails, CutShort
<1>0. next[p] \in 1..8
  BY DEF TypeOK
<1>1. PICK i \in 1..4 : /\ Rule(p) = Rules[i]
                        /\ \/ Deletes(p) /\ next[p] = 2 * i - 1
                           \/ ~Deletes(p) /\ next[p] = 2 * i
  BY <1>0, RuleAt
<1>2. \A q \in Callers : q # p => /\ pc[q] \notin Configuring /\ next[q] = 1
                                  /\ pc'[q] = pc[q] /\ next'[q] = next[q]
  BY DEF DeleteRule, AppendRule, ElectedInv, Elected, Configuring, TypeOK
<1>3. Rules[i] \in RuleNames /\ \A j \in 1..4 : j # i => Rules[j] # Rules[i]
  OBVIOUS
<1>4. CASE DeleteRule(p)
  <2>1. /\ Deletes(p) /\ next[p] = 2 * i - 1 /\ next'[p] = 2 * i /\ pc' = pc /\ pc[p] = "rules"
        /\ UNCHANGED <<link, addr, up, ctxDone>>
    BY <1>1, <1>4 DEF DeleteRule, TypeOK
  <2>2. \/ rules[Rules[i]] > 0 /\ rules' = [rules EXCEPT ![Rules[i]] = @ - 1]
        \/ rules' = rules /\ (ctxDone[p] \/ "busy" \in Faults \/ rules[Rules[i]] = 0)
    BY <1>1, <1>4 DEF DeleteRule
  <2>3. TypeOK'
    <3>1. rules' \in [RuleNames -> 0..2]
      BY <1>3, <2>2 DEF TypeOK
    <3>2. next' \in [Callers -> 1..8]
      BY <1>1, <1>4, <2>1 DEF DeleteRule, TypeOK
    <3> QED BY <2>1, <3>1, <3>2 DEF TypeOK
  <2>4. ElectedInv'
    BY <1>2, <2>1 DEF ElectedInv, Elected, Configuring
  <2>5. WorkInv'
    BY <1>2, <1>3, <2>1, <2>2 DEF WorkInv, TypeOK
  <2>6. OnceInv'
    <3> SUFFICES ASSUME "busy" \notin Faults PROVE OnceInv'
      BY DEF OnceInv
    <3>1. RulesOnce'
      BY <1>3, <2>2 DEF OnceInv, RulesOnce, TypeOK
    <3>2. Rule(p)' = Rules[i]
      BY <2>1 DEF Rule
    <3>3. ~ctxDone[p] => rules'[Rules[i]] = 0
      BY <1>3, <2>2 DEF OnceInv, RulesOnce, TypeOK
    <3> QED BY <1>2, <2>1, <3>1, <3>2, <3>3 DEF OnceInv, Configuring
  <2>7. CopiesInv'
    <3>1. link
      BY <2>1 DEF ElectedInv, Elected, Configuring
    <3>2. \A r \in RuleNames : rules'[r] <= rules[r]
      BY <1>3, <2>2 DEF TypeOK
    <3>3. \A j \in 1..4 : 2 * i <= 2 * j =>
            Rules[j] \in RuleNames /\ rules[Rules[j]] \in 0..1 /\ rules'[Rules[j]] \in 0..2
      BY <2>1, <2>3 DEF CopiesInv, Configuring, TypeOK
    <3>4. \A j \in 1..4 : next'[p] <= 2 * j => rules'[Rules[j]] <= 1
      BY <2>1, <3>2, <3>3
    <3> QED BY <1>2, <2>1, <3>1, <3>4 DEF CopiesInv
  <2> QED BY <2>3, <2>4, <2>5, <2>6, <2>7
<1>5. CASE AppendRule(p)
  <2>1. /\ ~Deletes(p) /\ next[p] = 2 * i /\ pc[p] = "rules" /\ UNCHANGED <<link, addr, up>>
        /\ Last(p) <=> i = 4
    BY <1>1, <1>5 DEF AppendRule, Last
  <2>2. \/ rules' = [rules EXCEPT ![Rules[i]] = @ + 1] /\ ~ctxDone[p]
        \/ rules' = rules /\ pc'[p] = "error" /\ next' = next
    BY <1>1, <1>5 DEF AppendRule, TypeOK
  <2>3. /\ pc'[p] \in {"rules", "ok", "error"}
        /\ pc'[p] = "rules" => i # 4 /\ next'[p] = 2 * i + 1
        /\ pc'[p] = "ok" => i = 4 /\ next'[p] = 8
        /\ pc'[p] # "error" => rules' = [rules EXCEPT ![Rules[i]] = @ + 1]
        /\ next'[p] \in {2 * i, 2 * i + 1} /\ next'[p] \in 1..8
    BY <1>1, <1>5, <2>1 DEF AppendRule, TypeOK
  <2>4. TypeOK'
    <3>1. rules' \in [RuleNames -> 0..2]
      <4>1. rules[Rules[i]] \in 0..1
        BY <1>3, <2>1 DEF TypeOK, CopiesInv, Configuring
      <4> QED BY <1>3, <2>2, <4>1 DEF TypeOK
    <3>2. next' \in [Callers -> 1..8]
      BY <1>5, <2>1, <2>3 DEF AppendRule, TypeOK
    <3>3. pc' \in [Callers -> {"idle", "show", "add", "ok", "error"} \cup Configuring]
      BY <1>5 DEF AppendRule, TypeOK, Configuring
    <3>4. ctxDone' \in [Callers -> BOOLEAN]
      BY <1>5 DEF AppendRule, TypeOK
    <3> QED BY <2>1, <3>1, <3>2, <3>3, <3>4 DEF TypeOK
  <2>5. ElectedInv'
    BY <1>2, <2>1 DEF ElectedInv, Elected, Configuring
  <2>6. \A r \in RuleNames : rules'[r] >= rules[r]
    BY <1>3, <2>2 DEF TypeOK
  <2>7. pc'[p] # "error" => rules'[Rules[i]] >= 1
    BY <1>3, <2>3 DEF TypeOK
  <2>8. \A j \in 1..4 : 2 * j < next[p] => rules[Rules[j]] >= 1
    BY <2>1 DEF WorkInv
  <2>9. \A j \in 1..4 : pc'[p] # "error" /\ j <= i => rules'[Rules[j]] >= 1
    <3> SUFFICES ASSUME NEW j \in 1..4, pc'[p] # "error", j < i PROVE rules'[Rules[j]] >= 1
      BY <2>7
    <3>1. rules[Rules[j]] >= 1 /\ Rules[j] \in RuleNames
      BY <2>1, <2>8
    <3> QED BY <2>6, <3>1, <2>4 DEF TypeOK
  <2>10. WorkInv'
    <3>1. ASSUME NEW q \in Callers, q # p, NEW j \in 1..4, pc'[q] = "ok" \/ pc'[q] = "rules"
          PROVE  ~(pc'[q] = "rules" /\ 2 * j < next'[q]) /\ ~(pc'[q] = "ok" /\ next'[q] = 8)
      BY <1>2, <3>1 DEF Configuring
    <3> QED BY <1>2, <2>1, <2>3, <2>9, <3>1 DEF WorkInv
  <2>11. OnceInv'
    <3> SUFFICES ASSUME "busy" \notin Faults PROVE OnceInv'
      BY DEF OnceInv
    <3>1. RulesOnce'
      BY <1>1, <1>3, <2>1, <2>2 DEF OnceInv, RulesOnce, TypeOK
    <3>2. pc'[p] = "rules" => Deletes(p)'
      BY <2>3 DEF Deletes
    <3> QED BY <1>2, <3>1, <3>2 DEF OnceInv, Configuring
  <2>12. CopiesInv'
    <3>1. link
      BY <2>1 DEF ElectedInv, Elected, Configuring
    <3>2. \A j \in 1..4 : pc'[p] \in Configuring /\ next'[p] <= 2 * j => rules'[Rules[j]] <= 1
      <4> SUFFICES ASSUME NEW j \in 1..4, pc'[p] \in Configuring, next'[p] <= 2 * j
                   PROVE  rules'[Rules[j]] <= 1
        OBVIOUS
      <4>1. j # i /\ next[p] <= 2 * j
        BY <2>1, <2>3 DEF Configuring
      <4>2. rules[Rules[j]] <= 1
        BY <2>1, <4>1 DEF CopiesInv, Configuring
      <4> QED BY <1>3, <2>2, <4>1, <4>2 DEF TypeOK
    <3> QED BY <1>2, <2>1, <3>1, <3>2 DEF CopiesInv
  <2> QED BY <2>4, <2>5, <2>10, <2>11, <2>12
<1> QED BY <1>4, <1>5

LEMMA BridgeAlways == Spec => []BridgeInv
<1>1. BridgeInv /\ UNCHANGED vars => BridgeInv'
  BY DEF BridgeInv, TypeOK, ElectedInv, Elected, WorkInv, OnceInv, CopiesInv,
         RulesOnce, Rule, Deletes, vars
<1>2. BridgeInv /\ [Next]_vars => BridgeInv'
  BY <1>1, LinkSteps, RuleSteps DEF Next, Setup, AtRest
<1> QED BY BridgeInit, <1>2, PTL DEF Spec

-----------------------------------------------------------------------------

(* The state of the bridge and of the calls always has its type: no rule   *)
(* is in the tables more than twice, even if "iptables -D" fails.          *)
THEOREM BridgeTypeCorrect == Spec => []TypeOK
<1>1. BridgeInv => TypeOK
  BY DEF BridgeInv
<1> QED BY <1>1, BridgeAlways, PTL

(* Of any number of concurrent calls one configures the bridge.            *)
THEOREM OneIsElected == Spec => []OneConfigures
<1>1. BridgeInv => OneConfigures
  BY DEF BridgeInv, ElectedInv, Elected, OneConfigures
<1> QED BY <1>1, BridgeAlways, PTL

(* Its work stays: once it has returned, every rule is in the tables.      *)
THEOREM ElectedWorkKept == Spec => []WorkKept
<1>1. BridgeInv => WorkKept
  <2> SUFFICES ASSUME BridgeInv, NEW p \in Callers
               PROVE  /\ pc[p] = "rules" => link /\ addr /\ up
                      /\ \A i \in DOMAIN Rules :
                           \/ pc[p] = "rules" /\ 2 * i < next[p]
                           \/ pc[p] = "ok" /\ next[p] = 2 * Len(Rules)
                           => rules[Rules[i]] >= 1
    BY DEF WorkKept
  <2>1. pc[p] = "rules" => link /\ addr /\ up
    BY DEF BridgeInv, ElectedInv, Elected, Configuring, WorkInv
  <2>2. DOMAIN Rules = 1..4 /\ 2 * Len(Rules) = 8
    BY RulesShape
  <2> QED BY <2>1, <2>2 DEF BridgeInv, WorkInv
<1> QED BY <1>1, BridgeAlways, PTL

(* No rule is in the tables twice as long as "iptables -D" deletes what    *)
(* there is.                                                               *)
THEOREM NoRuleTwice == ASSUME "busy" \notin Faults PROVE Spec => []RulesOnce
<1>1. BridgeInv => RulesOnce
  BY DEF BridgeInv, OnceInv
<1> QED BY <1>1, BridgeAlways, PTL

=============================================================================
