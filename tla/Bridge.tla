------------------------------- MODULE Bridge --------------------------------
(***************************************************************************)
(* linuxNetworkManager.SetupBridge, called by every POST: a sequence of ip *)
(* and iptables commands under the request's context, without a lock. A    *)
(* call that finds the link returns at once, whoever made it.              *)
(***************************************************************************)
EXTENDS Integers, Sequences

CONSTANTS
  Callers,  \* POST handlers
  Faults    \* what may go wrong: see FaultKinds

(* command     ip or iptables -A fails without having any effect            *)
(* busy        iptables -D fails although the rule is there                 *)
(* disconnect  the client of the POST goes away                             *)
FaultKinds == {"command", "busy", "disconnect"}

ASSUME BridgeAssumption == Faults \subseteq FaultKinds

(* The iptables rules in the order they are injected: masquerading, guest  *)
(* to world, answers to a guest, and the DROP between guests.              *)
Rules == <<"nat", "out", "back", "drop">>
RuleNames == {Rules[i] : i \in DOMAIN Rules}

VARIABLES
  link,     \* the bridge device exists
  addr,     \* it has the gateway address
  up,       \* it is up
  rules,    \* rules[r]: how often r is in the tables
  pc,       \* where each call is
  next,     \* the rule command it runs next: 2i-1 deletes Rules[i], 2i appends it
  ctxDone   \* its request's context is cancelled

vars == <<link, addr, up, rules, pc, next, ctxDone>>

(* Rules outlive a bridge that was deleted by hand. *)
Init ==
  /\ link = FALSE /\ addr = FALSE /\ up = FALSE
  /\ rules \in [RuleNames -> 0..1]
  /\ pc = [p \in Callers |-> "idle"] /\ next = [p \in Callers |-> 1]
  /\ ctxDone = [p \in Callers |-> FALSE]

Goto(p, from, to) == pc[p] = from /\ pc' = [pc EXCEPT ![p] = to]

(* A command ends the call when it fails, which it does without effect, or *)
(* after its effect when the context is cancelled as it runs.              *)
Fails(p, from) ==
  /\ ctxDone[p] \/ "command" \in Faults
  /\ Goto(p, from, "error") /\ UNCHANGED ctxDone
CutShort(p, from) ==
  /\ "disconnect" \in Faults /\ ~ctxDone[p]
  /\ Goto(p, from, "error") /\ ctxDone' = [ctxDone EXCEPT ![p] = TRUE]
Runs(p, from, to) ==
  \/ ~ctxDone[p] /\ Goto(p, from, to) /\ UNCHANGED ctxDone
  \/ CutShort(p, from)

Call(p) == /\ Goto(p, "idle", "show")
           /\ UNCHANGED <<link, addr, up, rules, next, ctxDone>>

(* "ip link show": any failure of it counts as "there is no bridge". *)
Show(p) ==
  /\ \/ link /\ ~ctxDone[p] /\ Goto(p, "show", "ok")
     \/ /\ ~link \/ ctxDone[p] \/ "command" \in Faults
        /\ Goto(p, "show", "add")
  /\ UNCHANGED <<link, addr, up, rules, next, ctxDone>>

(* Mutant: a link that exists already is as good as one just made. *)
AddLinkTolerant(p) ==
  /\ \/ link' = TRUE /\ Runs(p, "add", "addr")
     \/ Fails(p, "add") /\ UNCHANGED link
  /\ UNCHANGED <<addr, up, rules, next>>

(* "ip link add" fails when the link exists. *)
AddLink(p) ==
  /\ \/ ~link /\ link' = TRUE /\ Runs(p, "add", "addr")
     \/ link /\ Goto(p, "add", "error") /\ UNCHANGED <<link, ctxDone>>
     \/ Fails(p, "add") /\ UNCHANGED link
  /\ UNCHANGED <<addr, up, rules, next>>

AddAddress(p) ==
  /\ \/ addr' = TRUE /\ Runs(p, "addr", "up")
     \/ Fails(p, "addr") /\ UNCHANGED addr
  /\ UNCHANGED <<link, up, rules, next>>

SetUp(p) ==
  /\ \/ up' = TRUE /\ Runs(p, "up", "rules")
     \/ Fails(p, "up") /\ UNCHANGED up
  /\ UNCHANGED <<link, addr, rules, next>>

Rule(p) == Rules[(next[p] + 1) \div 2]
Deletes(p) == next[p] % 2 = 1
Last(p) == next[p] = 2 * Len(Rules)

(* Mutant: rules are appended without deleting what is left over. *)
DeleteRuleNever(p) ==
  /\ pc[p] = "rules" /\ Deletes(p)
  /\ next' = [next EXCEPT ![p] = @ + 1]
  /\ UNCHANGED <<link, addr, up, rules, pc, ctxDone>>

(* "iptables -D" takes one copy away if there is one; its error is ignored. *)
DeleteRule(p) ==
  /\ pc[p] = "rules" /\ Deletes(p)
  /\ next' = [next EXCEPT ![p] = @ + 1]
  /\ \/ /\ ~ctxDone[p] /\ rules[Rule(p)] > 0
        /\ rules' = [rules EXCEPT ![Rule(p)] = @ - 1]
     \/ /\ ctxDone[p] \/ "busy" \in Faults \/ rules[Rule(p)] = 0
        /\ UNCHANGED rules
  /\ UNCHANGED <<link, addr, up, pc, ctxDone>>

(* "iptables -A"; after the last rule the call returns nil. *)
AppendRule(p) ==
  /\ pc[p] = "rules" /\ ~Deletes(p)
  /\ \/ /\ rules' = [rules EXCEPT ![Rule(p)] = @ + 1]
        /\ Runs(p, "rules", IF Last(p) THEN "ok" ELSE "rules")
        /\ next' = [next EXCEPT ![p] = IF Last(p) THEN @ ELSE @ + 1]
     \/ Fails(p, "rules") /\ UNCHANGED <<rules, next>>
  /\ UNCHANGED <<link, addr, up>>

Disconnect(p) ==
  /\ "disconnect" \in Faults /\ ~ctxDone[p] /\ pc[p] \notin {"idle", "ok", "error"}
  /\ ctxDone' = [ctxDone EXCEPT ![p] = TRUE]
  /\ UNCHANGED <<link, addr, up, rules, pc, next>>

Setup(p) == \/ Show(p) \/ AddLink(p) \/ AddAddress(p) \/ SetUp(p)
            \/ DeleteRule(p) \/ AppendRule(p)

AtRest == (\A p \in Callers : pc[p] \in {"idle", "ok", "error"}) /\ UNCHANGED vars

Next == (\E p \in Callers : Call(p) \/ Setup(p) \/ Disconnect(p)) \/ AtRest

Spec == Init /\ [][Next]_vars

(***************************************************************************)
(* Properties                                                              *)
(***************************************************************************)
Configuring == {"addr", "up", "rules"}

(* A rule is in the tables twice at most, whatever fails and however many  *)
(* call: the copy of an earlier bridge, and that of the one call that      *)
(* appends.                                                                *)
TypeOK ==
  /\ link \in BOOLEAN /\ addr \in BOOLEAN /\ up \in BOOLEAN
  /\ rules \in [RuleNames -> 0..2]
  /\ pc \in [Callers -> {"idle", "show", "add", "ok", "error"} \cup Configuring]
  /\ next \in [Callers -> 1 .. 2 * Len(Rules)]
  /\ ctxDone \in [Callers -> BOOLEAN]

(* "ip link add" elects one call to configure the bridge, however many     *)
(* found it missing; were there two, one's delete-then-append could        *)
(* interleave with the other's and leave a rule twice.                     *)
OneConfigures ==
  \A p, q \in Callers : pc[p] \in Configuring /\ pc[q] \in Configuring => p = q

(* No rule is in the tables twice unless a delete failed, with rules left  *)
(* over from an earlier bridge and with callers that are cut short.        *)
RulesOnce == \A r \in RuleNames : rules[r] <= 1

(* The call that is configuring loses none of its work to the others: all  *)
(* it has appended so far is there, and once it has returned every rule is. *)
WorkKept ==
  \A p \in Callers :
    /\ pc[p] = "rules" => link /\ addr /\ up
    /\ \A i \in DOMAIN Rules :
         \/ pc[p] = "rules" /\ 2 * i < next[p]
         \/ pc[p] = "ok" /\ next[p] = 2 * Len(Rules)
         => rules[Rules[i]] >= 1

(* "Two tenants on the same physical host cannot communicate with each     *)
(* other at the network layer" (architecture-and-security.md:129): when    *)
(* two launches go on to attach their guests, the DROP rule is there.      *)
GuestsIsolated ==
  \A p, q \in Callers : p # q /\ pc[p] = "ok" /\ pc[q] = "ok" => rules["drop"] >= 1

=============================================================================
