----------------------------- MODULE DaemonState -----------------------------
(***************************************************************************)
(* The state the drover-runner daemon shares between its request handlers, *)
(* and the part of the host it drives: the TAP devices, the overlay disks  *)
(* and the Firecracker processes, one of each per instance.                *)
(*                                                                         *)
(* An instance is known by the number n of its id "inst-n"; handleCreate-  *)
(* Instance hands each number out once, so n also names the goroutine that *)
(* serves the POST. DELETE goroutines and the shutdown's StopAll are       *)
(* "stoppers": each runs the Stop closure that LaunchVM returned.          *)
(***************************************************************************)
EXTENDS TapNaming

CONSTANTS
  MaxSeq,     \* bound on vmSeq: how many POSTs the daemon accepts
  Deleters,   \* goroutines that serve DELETE requests, each used again and again
  Sweeper,    \* the goroutine that runs StopAll
  Environments \* sets of faults; in each behaviour one of them may happen

Ids == 1..MaxSeq
Stoppers == Deleters \cup {Sweeper}
TapNames == {TapName(n) : n \in Ids}

(* disconnect  the client of a POST goes away before it is answered          *)
(* host        ip or the firecracker binary fails without having any effect  *)
(* copy        the base image cannot be copied, or the disk fills up midway  *)
(* api         the VMM answers a PUT with an error, or its answer is lost    *)
(* slow        the VMM is not ready within 2 s, or not gone 1 s after SIGTERM*)
(* exit        the VMM stops on its own                                      *)
(* shred       opening, writing, syncing or removing the overlay fails       *)
(* unlink      "ip link delete" fails although the device exists             *)
FaultKinds ==
  {"disconnect", "host", "copy", "api", "slow", "exit", "shred", "unlink"}

NoTarget == 0

ASSUME DaemonAssumption ==
  /\ MaxSeq \in Nat
  /\ Sweeper \notin Deleters
  /\ Environments \subseteq SUBSET FaultKinds

VARIABLES
  faults,   \* what the environment may do wrong
  vmSeq,    \* Server.vmSeq
  vms,      \* keys of Server.vms
  lpc,      \* where the POST of instance n is
  ctxDone,  \* r.Context() of the POST of instance n is cancelled
  taps,     \* TAP devices that exist on the host
  overlay,  \* the file dvr-fc-overlay-inst-n.ext4
  residue,  \* instances whose unlinked overlay still holds tenant bytes
  vmm,      \* the firecracker process of instance n
  sig,      \* strongest signal sent to it
  sock,     \* instances whose API socket file exists
  spc,      \* where a stopper is
  tgt,      \* the instance whose Stop closure it runs
  sweep,    \* StopAll: not called, ranging, returned
  due,      \* the keys Range must visit: those present when StopAll began
  visited,  \* the keys Range has visited
  audits,   \* destruction audits registered for instance n
  deletes   \* DELETEs of instance n that were answered 204

server  == <<vmSeq, vms>>
posts   == <<lpc, ctxDone>>
process == <<vmm, sig, sock>>
host    == <<taps, overlay, residue, process>>
stops   == <<spc, tgt, sweep, due, visited>>
log     == <<faults, audits, deletes>>
vars    == <<server, posts, host, stops, log>>

Undoing   == {"undo.stop", "undo.wait", "undo.remove", "undo.tap"}
Launching == {"bridge", "tap", "attach", "copy", "spawn", "socket",
              "config", "boot"} \cup Undoing
Launched  == {"store", "reply", "done"}
Returned  == {"done", "failed"}
LaunchPcs == {"idle", "failed"} \cup Launching \cup Launched
StopPcs   == {"idle", "term", "wait", "open", "zero", "unlink", "audit",
              "release", "forget"}

(* A process that runs; "guest" has booted the tenant's image. *)
Alive == {"new", "api", "guest"}

Init ==
  /\ faults \in Environments
  /\ vmSeq = 0 /\ vms = {}
  /\ lpc = [n \in Ids |-> "idle"] /\ ctxDone = [n \in Ids |-> FALSE]
  /\ taps = {} /\ residue = {} /\ sock = {}
  /\ overlay = [n \in Ids |-> "none"]
  /\ vmm = [n \in Ids |-> "none"] /\ sig = [n \in Ids |-> "none"]
  /\ spc = [s \in Stoppers |-> "idle"] /\ tgt = [s \in Stoppers |-> NoTarget]
  /\ sweep = "idle" /\ due = {} /\ visited = {}
  /\ audits = [n \in Ids |-> 0] /\ deletes = [n \in Ids |-> 0]

(***************************************************************************)
(* orchestrator.Stop, run by a failing launch and by every stopper         *)
(***************************************************************************)

(* Process.Signal(SIGTERM); signalling a process that is gone does nothing. *)
Terminate(n) ==
  sig' = [sig EXCEPT ![n] = IF vmm[n] \in Alive /\ @ = "none" THEN "TERM" ELSE @]

(* Mutant: the timeout is not followed by a kill. *)
StopReturnsUnkilled(n) ==
  /\ vmm[n] \notin Alive \/ "slow" \in faults
  /\ sock' = sock \ {n} /\ UNCHANGED sig

(* The select: Wait has reaped the process, or one second has passed and   *)
(* Stop sends SIGKILL and returns at once. Both remove the socket file.    *)
StopReturns(n) ==
  /\ \/ vmm[n] \notin Alive /\ UNCHANGED sig
     \/ "slow" \in faults /\ vmm[n] \in Alive /\ sig' = [sig EXCEPT ![n] = "KILL"]
  /\ sock' = sock \ {n}

(***************************************************************************)
(* deleteLink: "ip link delete" removes the device, or fails because there *)
(* is none of that name or for a reason of its own                         *)
(***************************************************************************)
LinkDeleted(n)   == TapName(n) \in taps /\ taps' = taps \ {TapName(n)}
LinkNotDeleted(n) == (TapName(n) \notin taps \/ "unlink" \in faults) /\ UNCHANGED taps

(***************************************************************************)
(* The environment                                                         *)
(***************************************************************************)

(* net/http cancels r.Context() once the handler has returned. *)
HandlerReturned(n) ==
  /\ lpc[n] \in Returned /\ ~ctxDone[n]
  /\ ctxDone' = [ctxDone EXCEPT ![n] = TRUE]
  /\ UNCHANGED <<server, lpc, host, stops, log>>

(* ... and, earlier, when the client closes the connection. *)
ClientDisconnects(n) ==
  /\ "disconnect" \in faults
  /\ lpc[n] \notin Returned \cup {"idle"} /\ ~ctxDone[n]
  /\ ctxDone' = [ctxDone EXCEPT ![n] = TRUE]
  /\ UNCHANGED <<server, lpc, host, stops, log>>

(* The watcher goroutine of exec.CommandContext kills the VMM when the     *)
(* context it was started with is cancelled.                               *)
ContextKills(n) ==
  /\ ctxDone[n] /\ vmm[n] \in Alive /\ sig[n] # "KILL"
  /\ sig' = [sig EXCEPT ![n] = "KILL"]
  /\ UNCHANGED <<server, posts, taps, overlay, residue, vmm, sock, stops, log>>

(* A process can still finish what it is doing until it is gone. *)
VmmListens(n) ==
  /\ vmm[n] = "new"
  /\ vmm' = [vmm EXCEPT ![n] = "api"] /\ sock' = sock \cup {n}
  /\ UNCHANGED <<server, posts, taps, overlay, residue, sig, stops, log>>

VmmExits(n) ==
  /\ vmm[n] \in Alive
  /\ vmm' = [vmm EXCEPT ![n] = "gone"]
  /\ UNCHANGED <<server, posts, taps, overlay, residue, sig, sock, stops, log>>

VmmKilled(n)  == sig[n] # "none" /\ VmmExits(n)
VmmCrashes(n) == "exit" \in faults /\ sig[n] = "none" /\ VmmExits(n)

(* The guest writes tenant data to its disk. The VMM keeps the file open,  *)
(* so that after an unlink the bytes land in blocks no one will zero.      *)
GuestWrites(n) ==
  /\ vmm[n] = "guest"
  /\ IF overlay[n] = "none"
     THEN residue' = residue \cup {n} /\ UNCHANGED overlay
     ELSE overlay' = [overlay EXCEPT ![n] = "tenant"] /\ UNCHANGED residue
  /\ UNCHANGED <<server, posts, taps, process, stops, log>>

=============================================================================
