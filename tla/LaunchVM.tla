------------------------------ MODULE LaunchVM -------------------------------
(***************************************************************************)
(* POST /v1/instances: handleCreateInstance and FirecrackerDriver.LaunchVM, *)
(* one action per command, system call or API request that the goroutine   *)
(* waits for. Every command of LaunchVM but copyFile and the Stop of the   *)
(* undo path runs under r.Context(), and does nothing once it is cancelled. *)
(***************************************************************************)
EXTENDS DaemonState

Goto(n, from, to) == lpc[n] = from /\ lpc' = [lpc EXCEPT ![n] = to]

(* A command run under ctx fails: ctx is cancelled, or for its own reasons. *)
CommandFails(n, fault) == ctxDone[n] \/ fault \in faults

(* The client goes away while a command runs: the command has taken effect, *)
(* but what the handler sees is the error of the cancelled context.         *)
CutShort(n) ==
  "disconnect" \in faults /\ ~ctxDone[n] /\ ctxDone' = [ctxDone EXCEPT ![n] = TRUE]

(* Mutant: the sequence number is advanced twice. *)
HandleCreateTwice(n) ==
  /\ n = vmSeq + 1
  /\ vmSeq' = n + 1
  /\ Goto(n, "idle", "bridge")
  /\ UNCHANGED <<vms, ctxDone, host, stops, log>>

(* vmSeq is advanced under the mutex. *)
HandleCreate(n) ==
  /\ n = vmSeq + 1
  /\ vmSeq' = n
  /\ Goto(n, "idle", "bridge")
  /\ UNCHANGED <<vms, ctxDone, host, stops, log>>

(* What SetupBridge does to the host is the subject of module Bridge. *)
SetupBridge(n) ==
  /\ \/ ~ctxDone[n] /\ Goto(n, "bridge", "tap")
     \/ CommandFails(n, "host") /\ Goto(n, "bridge", "failed")
  /\ UNCHANGED <<server, ctxDone, host, stops, log>>

(* Mutant: a device that is there already is taken over. *)
CreateTAPTolerant(n) ==
  /\ \/ /\ ~ctxDone[n] /\ taps' = taps \cup {TapName(n)}
        /\ Goto(n, "tap", "attach")
     \/ CommandFails(n, "host") /\ Goto(n, "tap", "failed") /\ UNCHANGED taps
  /\ UNCHANGED <<server, ctxDone, overlay, residue, process, stops, log>>

(* AllocateTAP, "ip tuntap add": refused when a device has that name. *)
CreateTAP(n) ==
  /\ \/ /\ ~ctxDone[n] /\ TapName(n) \notin taps
        /\ taps' = taps \cup {TapName(n)}
        /\ \/ Goto(n, "tap", "attach") /\ UNCHANGED ctxDone
           \/ Goto(n, "tap", "failed") /\ CutShort(n)
     \/ /\ CommandFails(n, "host") \/ TapName(n) \in taps
        /\ Goto(n, "tap", "failed") /\ UNCHANGED <<taps, ctxDone>>
  /\ UNCHANGED <<server, overlay, residue, process, stops, log>>

(* AllocateTAP, "ip link set": joins the bridge and comes up. *)
AttachTAP(n) ==
  /\ \/ ~ctxDone[n] /\ TapName(n) \in taps /\ Goto(n, "attach", "copy")
     \/ /\ CommandFails(n, "host") \/ TapName(n) \notin taps
        /\ Goto(n, "attach", "undo.tap")
  /\ UNCHANGED <<server, ctxDone, host, stops, log>>

(* copyFile: its source may be missing, or the copy may stop midway.       *)
(* os.Create truncates a file that is there; its blocks are not zeroed.    *)
CopyImage(n) ==
  /\ \/ overlay' = [overlay EXCEPT ![n] = "base"] /\ Goto(n, "copy", "spawn")
     \/ /\ "copy" \in faults
        /\ \E left \in {overlay[n], "partial"} : overlay' = [overlay EXCEPT ![n] = left]
        /\ Goto(n, "copy", "undo.tap")
  /\ residue' = IF overlay[n] = "tenant" /\ overlay'[n] # "tenant"
                THEN residue \cup {n} ELSE residue
  /\ UNCHANGED <<server, ctxDone, taps, process, stops, log>>

(* StartProcess up to cmd.Start. *)
StartProcess(n) ==
  /\ sock' = sock \ {n}
  /\ \/ /\ ~ctxDone[n]
        /\ vmm' = [vmm EXCEPT ![n] = "new"] /\ Goto(n, "spawn", "socket")
     \/ /\ CommandFails(n, "host")
        /\ UNCHANGED vmm /\ Goto(n, "spawn", "undo.remove")
  /\ UNCHANGED <<server, ctxDone, taps, overlay, residue, sig, stops, log>>

(* Mutant: the poll has no limit. *)
AwaitSocketForever(n) ==
  /\ n \in sock /\ Goto(n, "socket", "config")
  /\ UNCHANGED <<server, ctxDone, host, stops, log>>

(* StartProcess, the poll: the socket file is there, or it is not after    *)
(* twenty looks. The loop watches neither the process nor the context.     *)
AwaitSocket(n) ==
  /\ \/ n \in sock /\ Goto(n, "socket", "config")
     \/ /\ n \notin sock /\ (vmm[n] \notin Alive \/ "slow" \in faults)
        /\ Goto(n, "socket", "undo.stop")
  /\ UNCHANGED <<server, ctxDone, host, stops, log>>

(* A PUT to the VMM fails: cancelled, nobody answers, or the answer is bad. *)
PutFails(n) == vmm[n] \notin Alive \/ CommandFails(n, "api")

(* Mutant: the error path forgets to stop the VMM. *)
ConfigureUnstopped(n) ==
  /\ \/ ~ctxDone[n] /\ vmm[n] = "api" /\ Goto(n, "config", "boot")
     \/ PutFails(n) /\ Goto(n, "config", "undo.remove")
  /\ UNCHANGED <<server, ctxDone, host, stops, log>>

(* Configure and ConfigureNetwork: four PUTs, of which the first that      *)
(* fails ends the launch. The VMM opens the TAP device it is given.        *)
Configure(n) ==
  /\ \/ /\ ~ctxDone[n] /\ vmm[n] = "api" /\ TapName(n) \in taps
        /\ Goto(n, "config", "boot")
     \/ /\ PutFails(n) \/ TapName(n) \notin taps
        /\ Goto(n, "config", "undo.stop")
  /\ UNCHANGED <<server, ctxDone, host, stops, log>>

(* StartVM: the guest boots, and the handler learns of it or does not. *)
StartVM(n) ==
  /\ \/ /\ ~ctxDone[n] /\ vmm[n] = "api"
        /\ vmm' = [vmm EXCEPT ![n] = "guest"]
        /\ \/ Goto(n, "boot", "store") /\ UNCHANGED ctxDone
           \/ Goto(n, "boot", "undo.stop") /\ CutShort(n)
           \/ "api" \in faults /\ Goto(n, "boot", "undo.stop") /\ UNCHANGED ctxDone
     \/ PutFails(n) /\ Goto(n, "boot", "undo.stop") /\ UNCHANGED <<vmm, ctxDone>>
  /\ UNCHANGED <<server, taps, overlay, residue, sig, sock, stops, log>>

(***************************************************************************)
(* The error paths: Stop, os.Remove(overlay), ReleaseTAP(ctx), answer 500  *)
(***************************************************************************)
UndoTerm(n) ==
  /\ Goto(n, "undo.stop", "undo.wait") /\ Terminate(n)
  /\ UNCHANGED <<server, ctxDone, taps, overlay, residue, vmm, sock, stops, log>>

UndoStop(n) ==
  /\ Goto(n, "undo.wait", "undo.remove") /\ StopReturns(n)
  /\ UNCHANGED <<server, ctxDone, taps, overlay, residue, vmm, stops, log>>

(* The error of os.Remove is dropped. *)
UndoOverlay(n) ==
  /\ Goto(n, "undo.remove", "undo.tap")
  /\ \/ /\ overlay' = [overlay EXCEPT ![n] = "none"]
        /\ residue' = IF overlay[n] = "tenant" THEN residue \cup {n} ELSE residue
     \/ "shred" \in faults /\ UNCHANGED <<overlay, residue>>
  /\ UNCHANGED <<server, ctxDone, taps, process, stops, log>>

UndoTAP(n) ==
  /\ Goto(n, "undo.tap", "failed")
  /\ \/ ~ctxDone[n] /\ LinkDeleted(n)
     \/ LinkNotDeleted(n)
     \/ ctxDone[n] /\ UNCHANGED taps
  /\ UNCHANGED <<server, ctxDone, overlay, residue, process, stops, log>>

(***************************************************************************)
(* The success path: vms.Store, then the 201                               *)
(***************************************************************************)
Store(n) ==
  /\ Goto(n, "store", "reply") /\ vms' = vms \cup {n}
  /\ UNCHANGED <<vmSeq, ctxDone, host, stops, log>>

Reply(n) ==
  /\ Goto(n, "reply", "done")
  /\ UNCHANGED <<server, ctxDone, host, stops, log>>

LaunchStep(n) ==
  \/ SetupBridge(n) \/ CreateTAP(n) \/ AttachTAP(n) \/ CopyImage(n)
  \/ StartProcess(n) \/ AwaitSocket(n) \/ Configure(n) \/ StartVM(n)
  \/ UndoTerm(n) \/ UndoStop(n) \/ UndoOverlay(n) \/ UndoTAP(n)
  \/ Store(n) \/ Reply(n)

=============================================================================
