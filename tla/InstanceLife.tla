----------------------------- MODULE InstanceLife -----------------------------
(***************************************************************************)
(* What the daemon promises of an instance, whichever driver runs it and   *)
(* however many requests work on it at once: the HypervisorDriver contract *)
(* that server.go relies on. FirecrackerDaemon and QemuDriver implement    *)
(* it; each defines what an instance's life, power and disk are there.     *)
(*                                                                         *)
(*   a guest is started once, on a disk that was made for it before;       *)
(*   a disk is destroyed only when its guest is stopped, and then the      *)
(*   destruction of a registered instance's disk is recorded, once;        *)
(*   an instance is registered once, after its guest was started, and goes *)
(*   only when that is stopped; a launch that fails leaves no guest.       *)
(***************************************************************************)
EXTENDS Naturals

CONSTANT Ids

VARIABLES
  life,    \* what the server knows of it
  power,   \* its guest: not started, running, exited or killed for certain
  disk,    \* its overlay exists
  audits   \* destructions recorded

lifeVars == <<life, power, disk, audits>>

Init ==
  /\ life = [n \in Ids |-> "unasked"]
  /\ power = [n \in Ids |-> "off"]
  /\ disk = [n \in Ids |-> FALSE]
  /\ audits = [n \in Ids |-> 0]

Becomes(n, from, to) == life[n] = from /\ life' = [life EXCEPT ![n] = to]

Accept(n) == Becomes(n, "unasked", "launching") /\ UNCHANGED <<power, disk, audits>>

MakeDisk(n) ==
  /\ life[n] = "launching" /\ power[n] = "off" /\ ~disk[n]
  /\ disk' = [disk EXCEPT ![n] = TRUE]
  /\ UNCHANGED <<life, power, audits>>

PowerOn(n) ==
  /\ life[n] = "launching" /\ power[n] = "off" /\ disk[n]
  /\ power' = [power EXCEPT ![n] = "on"]
  /\ UNCHANGED <<life, disk, audits>>

(* The guest may stop at any time, whether it was asked to or not. *)
PowerOff(n) ==
  /\ power[n] = "on" /\ power' = [power EXCEPT ![n] = "dead"]
  /\ UNCHANGED <<life, disk, audits>>

Register(n) ==
  /\ Becomes(n, "launching", "registered") /\ power[n] # "off" /\ disk[n]
  /\ UNCHANGED <<power, disk, audits>>

(* A failing launch may leave its disk, but not its guest. *)
Fail(n) ==
  /\ Becomes(n, "launching", "failed") /\ power[n] # "on"
  /\ \E left \in BOOLEAN : disk' = [disk EXCEPT ![n] = left]
  /\ UNCHANGED <<power, audits>>

DestroyDisk(n) ==
  /\ disk[n] /\ power[n] # "on" /\ disk' = [disk EXCEPT ![n] = FALSE]
  /\ UNCHANGED <<life, power, audits>>

Record(n) ==
  /\ life[n] \in {"registered", "gone"} /\ ~disk[n] /\ audits[n] = 0
  /\ audits' = [audits EXCEPT ![n] = 1]
  /\ UNCHANGED <<life, power, disk>>

Drop(n) ==
  /\ Becomes(n, "registered", "gone") /\ power[n] = "dead"
  /\ UNCHANGED <<power, disk, audits>>

Next ==
  \E n \in Ids :
    \/ Accept(n) \/ MakeDisk(n) \/ PowerOn(n) \/ PowerOff(n) \/ Register(n)
    \/ Fail(n) \/ DestroyDisk(n) \/ Record(n) \/ Drop(n)

Spec == Init /\ [][Next]_lifeVars

=============================================================================
