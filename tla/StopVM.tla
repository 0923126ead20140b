------------------------------- MODULE StopVM --------------------------------
(***************************************************************************)
(* DELETE /v1/instances/{id} and StopAll: handleDeleteInstance, the Stop   *)
(* closure of FirecrackerDriver.LaunchVM and, inside it, ShredFile and     *)
(* ReleaseTAP. The closure takes no lock: any number of stoppers may run   *)
(* it for one instance at a time. A DELETE of an id that is not in vms is  *)
(* answered 404 and changes nothing.                                       *)
(***************************************************************************)
EXTENDS DaemonState

Move(s, from, to) == spc[s] = from /\ spc' = [spc EXCEPT ![s] = to]
Step(s, from, to) == Move(s, from, to) /\ UNCHANGED <<tgt, sweep, due, visited>>
Rest(s, from) ==
  /\ Move(s, from, "idle") /\ tgt' = [tgt EXCEPT ![s] = NoTarget]
  /\ UNCHANGED <<sweep, due, visited>>

(* vms.Load, or the callback of vms.Range: the stopper holds the handle. *)
Take(s, n) ==
  /\ n \in vms
  /\ Move(s, "idle", "term") /\ tgt' = [tgt EXCEPT ![s] = n]
  /\ UNCHANGED <<server, posts, host, sweep, due, log>>

HandleDelete(s, n) == s \in Deleters /\ Take(s, n) /\ UNCHANGED visited

(* Range calls the callback for no key more than once, for every key that  *)
(* was there when it began unless it has been deleted since, and perhaps   *)
(* for keys stored since.                                                  *)
StopAll ==
  /\ sweep = "idle" /\ sweep' = "on" /\ due' = vms /\ visited' = {}
  /\ UNCHANGED <<server, posts, host, spc, tgt, log>>

RangeVisits(n) ==
  /\ sweep = "on" /\ n \notin visited
  /\ Take(Sweeper, n) /\ visited' = visited \cup {n}

RangeEnds ==
  /\ sweep = "on" /\ spc[Sweeper] = "idle" /\ due \cap vms \subseteq visited
  /\ sweep' = "done"
  /\ UNCHANGED <<server, posts, host, spc, tgt, due, visited, log>>

(***************************************************************************)
(* The Stop closure. orchestrator.Stop never returns an error.             *)
(***************************************************************************)
StopTerm(s) ==
  /\ Step(s, "term", "wait") /\ Terminate(tgt[s])
  /\ UNCHANGED <<server, posts, taps, overlay, residue, vmm, sock, log>>

StopWait(s) ==
  /\ Step(s, "wait", "open") /\ StopReturns(tgt[s])
  /\ UNCHANGED <<server, posts, taps, overlay, residue, vmm, log>>

(* A failing ShredFile is printed, and the closure goes on without audit. *)
ShredFails(s, from) == "shred" \in faults /\ Step(s, from, "release")

(* Mutant: the closure does not shred. *)
ShredOpenSkipped(s) ==
  /\ Step(s, "open", "release")
  /\ UNCHANGED <<server, posts, host, log>>

ShredOpen(s) ==
  /\ \/ Step(s, "open", "zero") /\ overlay[tgt[s]] # "none"
     \/ Step(s, "open", "release") /\ overlay[tgt[s]] = "none"
     \/ ShredFails(s, "open")
  /\ UNCHANGED <<server, posts, host, log>>

(* Mutant: nothing is written. *)
ShredZeroSkipped(s) ==
  /\ Step(s, "zero", "unlink")
  /\ UNCHANGED <<server, posts, host, log>>

(* The zero writes go to the open file, whether it is still linked or not. *)
ShredZero(s) ==
  /\ \/ /\ Step(s, "zero", "unlink")
        /\ IF overlay[tgt[s]] = "none"
           THEN residue' = residue \ {tgt[s]} /\ UNCHANGED overlay
           ELSE overlay' = [overlay EXCEPT ![tgt[s]] = "zero"] /\ UNCHANGED residue
     \/ ShredFails(s, "zero") /\ UNCHANGED <<overlay, residue>>
  /\ UNCHANGED <<server, posts, taps, process, log>>

(* Mutant: the error of os.Remove is ignored. *)
ShredUnlinkUnchecked(s) ==
  /\ Step(s, "unlink", "audit")
  /\ overlay' = [overlay EXCEPT ![tgt[s]] = "none"]
  /\ UNCHANGED <<server, posts, taps, residue, process, log>>

(* Sync, sample, close and os.Remove, which is by name: when two stoppers  *)
(* shred one overlay it fails for the second.                              *)
ShredUnlink(s) ==
  /\ \/ /\ Step(s, "unlink", "audit") /\ overlay[tgt[s]] # "none"
        /\ overlay' = [overlay EXCEPT ![tgt[s]] = "none"]
        /\ residue' = IF overlay[tgt[s]] = "tenant" THEN residue \cup {tgt[s]} ELSE residue
     \/ /\ Step(s, "unlink", "release") /\ overlay[tgt[s]] = "none"
        /\ UNCHANGED <<overlay, residue>>
     \/ ShredFails(s, "unlink") /\ UNCHANGED <<overlay, residue>>
  /\ UNCHANGED <<server, posts, taps, process, log>>

RegisterAudit(s) ==
  /\ Step(s, "audit", "release")
  /\ audits' = [audits EXCEPT ![tgt[s]] = @ + 1]
  /\ UNCHANGED <<server, posts, host, faults, deletes>>

(* Mutants: the error is swallowed; the command is tried again and again;  *)
(* StopAll keeps a handle whose Stop returned an error.                    *)
ReleaseTAPUnchecked(s) ==
  /\ Step(s, "release", "forget")
  /\ LinkDeleted(tgt[s]) \/ LinkNotDeleted(tgt[s])
  /\ UNCHANGED <<server, posts, overlay, residue, process, log>>

ReleaseTAPRetried(s) ==
  /\ Step(s, "release", "forget") /\ LinkDeleted(tgt[s])
  /\ UNCHANGED <<server, posts, overlay, residue, process, log>>

ReleaseTAPKept(s) ==
  /\ \/ Step(s, "release", "forget") /\ LinkDeleted(tgt[s])
     \/ Rest(s, "release") /\ LinkNotDeleted(tgt[s])
  /\ UNCHANGED <<server, posts, overlay, residue, process, log>>

(* ReleaseTAP under a context of its own. Its error is the closure's: the  *)
(* DELETE answers 500 and keeps the entry, StopAll prints it and forgets.  *)
ReleaseTAP(s) ==
  /\ \/ Step(s, "release", "forget") /\ LinkDeleted(tgt[s])
     \/ Step(s, "release", "forget") /\ s = Sweeper /\ LinkNotDeleted(tgt[s])
     \/ Rest(s, "release") /\ s \in Deleters /\ LinkNotDeleted(tgt[s])
  /\ UNCHANGED <<server, posts, overlay, residue, process, log>>

(* Mutant: vms.Delete is missing. *)
ForgetNothing(s) ==
  /\ Rest(s, "forget")
  /\ deletes' = [deletes EXCEPT ![tgt[s]] = @ + 1]
  /\ UNCHANGED <<server, posts, host, faults, audits>>

(* vms.Delete, and the 204 of a DELETE. *)
Forget(s) ==
  /\ Rest(s, "forget")
  /\ vms' = vms \ {tgt[s]}
  /\ IF s = Sweeper THEN UNCHANGED deletes
                    ELSE deletes' = [deletes EXCEPT ![tgt[s]] = @ + 1]
  /\ UNCHANGED <<vmSeq, posts, host, faults, audits>>

StopStep(s) ==
  \/ StopTerm(s) \/ StopWait(s) \/ ShredOpen(s) \/ ShredZero(s)
  \/ ShredUnlink(s) \/ RegisterAudit(s) \/ ReleaseTAP(s) \/ Forget(s)

=============================================================================
