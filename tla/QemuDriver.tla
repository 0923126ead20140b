----------------------------- MODULE QemuDriver ------------------------------
(***************************************************************************)
(* One instance of the QEMU driver, from its POST to its destruction:      *)
(* QemuDriver.LaunchVM, the Stop closure it returns, and the parts of the  *)
(* handlers around them. The processes, the waiter and SliceInstance.Stop  *)
(* are those of KraftSlice.                                                *)
(*                                                                         *)
(* The closure never returns an error, so that a DELETE and the callback   *)
(* of StopAll do the same: both are stoppers here. No lock is held, and    *)
(* any number of them may run the closure at a time.                       *)
(***************************************************************************)
EXTENDS KraftSlice

CONSTANT Environments  \* sets of faults; in each behaviour one of them may happen

(* disconnect  the client of the POST goes away before it is answered        *)
(* start       kraft cannot be started                                       *)
(* crash       kraft exits on its own and leaves QEMU behind                 *)
(* io          the overlay cannot be written or removed, or ShredFile fails  *)
FaultKinds == {"disconnect", "start", "crash", "io"}

ASSUME QemuAssumption == Environments \subseteq SUBSET FaultKinds

VARIABLES
  faults,   \* what may go wrong in this behaviour
  post,     \* where the POST is
  vms,      \* the handle is in Server.vms
  overlay,  \* the file dvr-overlay-inst-n.ext4
  residue,  \* it was unlinked with the tenant's secrets in its blocks
  spc,      \* where a stopper is
  audits    \* destruction audits registered

slice    == vars
disk     == <<overlay, residue>>
qemuVars == <<slice, faults, post, vms, disk, spc, audits>>

(* "stop" is SliceInstance.Stop, in which pc says where the stopper is. *)
Shredding == {"zero", "unlink", "audit"}
StopperPcs == {"idle", "stop", "forget", "done"} \cup Shredding
Answered == {"done", "failed"}

QemuInit ==
  /\ Init
  /\ faults \in Environments
  /\ post = "idle" /\ vms = FALSE
  /\ overlay = "none" /\ residue = FALSE
  /\ spc = [s \in Stoppers |-> "idle"] /\ audits = 0

(***************************************************************************)
(* The POST: LaunchVM, then vms.Store                                      *)
(***************************************************************************)
PostGoto(from, to) == post = from /\ post' = to

(* The POST arrives: handleCreateInstance, up to LaunchVM. *)
HandleCreate ==
  /\ PostGoto("idle", "write")
  /\ UNCHANGED <<slice, faults, vms, disk, spc, audits>>

(* os.WriteFile. If it fails, part of the secrets may be in the file, which *)
(* stays.                                                                  *)
WriteOverlay ==
  /\ \/ PostGoto("write", "launch") /\ overlay' = "secret"
     \/ PostGoto("write", "failed") /\ "io" \in faults /\ overlay' \in {"none", "secret"}
  /\ UNCHANGED <<slice, faults, vms, residue, spc, audits>>

Launch ==
  /\ PostGoto("launch", "store") /\ LaunchSlice
  /\ UNCHANGED <<faults, vms, disk, spc, audits>>

(* Mutant: the overlay is left behind. *)
LaunchFailsUndone ==
  /\ PostGoto("launch", "failed") /\ (ctxDone \/ "start" \in faults)
  /\ UNCHANGED <<slice, faults, vms, disk, spc, audits>>

(* cmd.Start fails, as it does under a cancelled context; then os.Remove,  *)
(* whose error is dropped.                                                 *)
LaunchFails ==
  /\ PostGoto("launch", "failed") /\ (ctxDone \/ "start" \in faults)
  /\ \/ overlay' = "none" /\ residue' = (overlay = "secret")
     \/ "io" \in faults /\ UNCHANGED disk
  /\ UNCHANGED <<slice, faults, vms, spc, audits>>

Store ==
  /\ PostGoto("store", "done") /\ vms' = TRUE
  /\ UNCHANGED <<slice, faults, disk, spc, audits>>

PostStep == WriteOverlay \/ Launch \/ LaunchFails \/ Store

(* net/http cancels r.Context(), from which processCtx is derived, when the *)
(* handler has returned or the client is gone.                             *)
RequestEnds ==
  /\ post \in Answered \/ (post # "idle" /\ "disconnect" \in faults)
  /\ ContextEnds
  /\ UNCHANGED <<faults, post, vms, disk, spc, audits>>

(***************************************************************************)
(* The processes and the waiter                                            *)
(***************************************************************************)
KraftExits == LeaderExits /\ (qemu = "gone" \/ asked \/ "crash" \in faults)

Processes ==
  /\ \/ Fork \/ QemuExits \/ KraftExits \/ ContextKills \/ Reap \/ CloseExited
  /\ UNCHANGED <<faults, post, vms, disk, spc, audits>>

(***************************************************************************)
(* DELETE, and the callback of StopAll                                     *)
(***************************************************************************)
Move(s, from, to) == spc[s] = from /\ spc' = [spc EXCEPT ![s] = to]

(* vms.Load or Range finds the handle; without it a DELETE answers 404. *)
Load(s) ==
  /\ vms /\ Move(s, "idle", "stop")
  /\ UNCHANGED <<slice, faults, post, vms, disk, audits>>

StopSlice(s) ==
  /\ spc[s] = "stop" /\ (Interrupt(s) \/ StopStep(s))
  /\ UNCHANGED <<faults, post, vms, disk, spc, audits>>

(* Mutant: the audit is registered although ShredFile has failed. *)
ShredFailsAudited(s, from) == "io" \in faults /\ Move(s, from, "audit")

(* A failing ShredFile is printed, and no audit registered. *)
ShredFails(s, from) == "io" \in faults /\ Move(s, from, "forget")

(* Mutant: the disk is shredded although Stop is still waiting. *)
ShredOpenEarly(s) ==
  /\ pc[s] # "idle"
  /\ \/ Move(s, "stop", "zero") /\ overlay # "none"
     \/ Move(s, "stop", "forget") /\ overlay = "none"
  /\ UNCHANGED <<slice, faults, post, vms, disk, audits>>

(* instance.Stop has returned nil; ShredFile opens the overlay. *)
ShredOpen(s) ==
  /\ pc[s] = "returned"
  /\ \/ Move(s, "stop", "zero") /\ overlay # "none"
     \/ Move(s, "stop", "forget") /\ overlay = "none"
     \/ ShredFails(s, "stop")
  /\ UNCHANGED <<slice, faults, post, vms, disk, audits>>

(* The zero writes go to the open file, whether it is still linked or not. *)
ShredZero(s) ==
  /\ \/ /\ Move(s, "zero", "unlink")
        /\ overlay' = IF overlay = "none" THEN "none" ELSE "zero"
     \/ ShredFails(s, "zero") /\ UNCHANGED overlay
  /\ UNCHANGED <<slice, faults, post, vms, residue, audits>>

(* Mutant: the error of os.Remove is ignored. *)
ShredUnlinkUnchecked(s) ==
  /\ Move(s, "unlink", "audit") /\ overlay' = "none"
  /\ UNCHANGED <<slice, faults, post, vms, residue, audits>>

(* os.Remove is by name: it fails for the second of two stoppers. *)
ShredUnlink(s) ==
  /\ \/ /\ Move(s, "unlink", "audit") /\ overlay # "none"
        /\ overlay' = "none" /\ residue' = (residue \/ overlay = "secret")
     \/ Move(s, "unlink", "forget") /\ overlay = "none" /\ UNCHANGED disk
     \/ ShredFails(s, "unlink") /\ UNCHANGED disk
  /\ UNCHANGED <<slice, faults, post, vms, audits>>

RegisterAudit(s) ==
  /\ Move(s, "audit", "forget") /\ audits' = audits + 1
  /\ UNCHANGED <<slice, faults, post, vms, disk>>

(* vms.Delete; the DELETE answers 204. *)
Forget(s) ==
  /\ Move(s, "forget", "done") /\ vms' = FALSE
  /\ UNCHANGED <<slice, faults, post, disk, audits>>

StopperStep(s) ==
  \/ StopSlice(s) \/ ShredOpen(s) \/ ShredZero(s)
  \/ ShredUnlink(s) \/ RegisterAudit(s) \/ Forget(s)

(* No request is being served: nothing need happen. *)
NoneAtWork ==
  /\ post \in Answered \cup {"idle"} /\ \A s \in Stoppers : spc[s] \in {"idle", "done"}
  /\ UNCHANGED qemuVars

QemuNext ==
  \/ HandleCreate \/ PostStep \/ RequestEnds \/ Processes \/ NoneAtWork
  \/ \E s \in Stoppers : Load(s) \/ StopperStep(s)

QemuSpec == QemuInit /\ [][QemuNext]_qemuVars

(* Goroutines run on and timers fire; that a process obeys SIGINT, or that *)
(* a guest shuts down, is not assumed.                                     *)
QemuFairSpec ==
  /\ QemuSpec
  /\ WF_qemuVars(PostStep)
  /\ WF_qemuVars(post \in Answered /\ RequestEnds)
  /\ WF_qemuVars(ContextKills /\ Processes)
  /\ WF_qemuVars(Reap /\ Processes)
  /\ WF_qemuVars(CloseExited /\ Processes)
  /\ \A s \in Stoppers : WF_qemuVars(StopperStep(s))

(***************************************************************************)
(* Properties                                                              *)
(***************************************************************************)
QemuTypeOK ==
  /\ TypeOK
  /\ faults \in Environments
  /\ post \in {"idle", "write", "launch", "store"} \cup Answered
  /\ vms \in BOOLEAN
  /\ overlay \in {"none", "secret", "zero"} /\ residue \in BOOLEAN
  /\ spc \in [Stoppers -> StopperPcs]
  /\ audits \in 0..1

(* The overlay is zeroed or unlinked, the audit registered and the handle  *)
(* dropped only when kraft and QEMU are gone, although the context kills   *)
(* kraft alone and another stopper may be shredding already.               *)
WithdrawnIsGone ==
  post = "done" /\ (overlay # "secret" \/ audits > 0 \/ ~vms) =>
    leader = "reaped" /\ qemu # "running" /\ waiter = "done"

(* Overlapping stoppers register one audit for an overlay that is          *)
(* destroyed, and none for one that is not, whatever fails.                *)
DestroyedOnce ==
  /\ audits <= 1
  /\ post = "done" =>
       (overlay = "none" <=> audits = 1 \/ \E s \in Stoppers : spc[s] = "audit")
  /\ ~vms /\ post = "done" /\ "io" \notin faults => overlay = "none"

(* If the disk works, a failed launch leaves no file and no process, and   *)
(* secrets go back to the disk's free blocks in no other way than by it:   *)
(* its overlay is removed and not shredded.                                *)
NothingLeft ==
  "io" \notin faults =>
    /\ post = "failed" => overlay = "none" /\ leader = "none" /\ qemu = "none"
    /\ residue => post = "failed"

(* A QEMU instance as InstanceLife sees it: its guest is kraft and QEMU. *)
LifeOf ==
  CASE vms -> "registered"
    [] ~vms /\ post = "idle" -> "unasked"
    [] ~vms /\ post = "failed" -> "failed"
    [] ~vms /\ post = "done" -> "gone"
    [] OTHER -> "launching"

PowerOf ==
  CASE leader = "none" -> "off"
    [] leader \in {"zombie", "reaped"} /\ qemu # "running" -> "dead"
    [] OTHER -> "on"

Life == INSTANCE InstanceLife WITH
  Ids <- {1},
  life <- [n \in {1} |-> LifeOf], power <- [n \in {1} |-> PowerOf],
  disk <- [n \in {1} |-> overlay # "none"], audits <- [n \in {1} |-> audits]

(* A QEMU instance lives as InstanceLife says, like a Firecracker one,     *)
(* although nothing here tells two DELETEs apart: of any number that run   *)
(* the closure at once, one destroys the disk and records it, and none     *)
(* does before kraft and QEMU are both gone.                               *)
ImplementsLife == Life!Spec

(* A DELETE is answered once QEMU is gone, whoever killed kraft and        *)
(* whatever the other stoppers do; with GroupStopReturns, a DELETE that    *)
(* found the process group is always answered.                             *)
AnsweredOnceGone ==
  \A s \in Stoppers : spc[s] = "stop" /\ qemu = "gone" ~> spc[s] = "done"

=============================================================================
