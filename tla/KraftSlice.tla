----------------------------- MODULE KraftSlice ------------------------------
(***************************************************************************)
(* kraft.LaunchSlice and SliceInstance: "kraft run" as the leader of a     *)
(* process group of its own, the QEMU it starts as the other member, the   *)
(* goroutine that waits for the leader, and the callers of Stop.           *)
(*                                                                         *)
(* stdout and stderr are not files, so exec connects them by a pipe that   *)
(* both processes hold, and cmd.Wait returns only when the leader has been *)
(* reaped and every holder of the pipe is gone.                            *)
(***************************************************************************)
EXTENDS Naturals

CONSTANT Stoppers  \* goroutines that call Stop: DELETE handlers, StopAll

VARIABLES
  leader,   \* kraft: not started, running, exited but not reaped, reaped
  qemu,     \* its child: not started, running, gone
  asked,    \* kraft has received SIGINT
  ctxDone,  \* processCtx is cancelled
  waiter,   \* the goroutine of LaunchSlice: in Process.Wait, at the pipes, done
  exited,   \* the channel of that name is closed
  pc,       \* where each Stop is
  group     \* Getpgid has told Stop p the process group

vars == <<leader, qemu, asked, ctxDone, waiter, exited, pc, group>>

Init ==
  /\ leader = "none" /\ qemu = "none" /\ asked = FALSE
  /\ ctxDone = FALSE /\ waiter = "none" /\ exited = FALSE
  /\ pc = [p \in Stoppers |-> "idle"] /\ group = [p \in Stoppers |-> FALSE]

(* LaunchSlice starts the leader in a new group, and the waiter. *)
LaunchSlice ==
  /\ leader = "none" /\ ~ctxDone
  /\ leader' = "running" /\ waiter' = "process"
  /\ UNCHANGED <<qemu, asked, ctxDone, exited, pc, group>>

(***************************************************************************)
(* The processes. Nothing makes them obey SIGINT within three seconds.     *)
(***************************************************************************)

(* "kraft run" starts QEMU. *)
Fork ==
  /\ leader = "running" /\ qemu = "none" /\ qemu' = "running"
  /\ UNCHANGED <<leader, asked, ctxDone, waiter, exited, pc, group>>

(* The guest shuts down, or QEMU obeys SIGINT. *)
QemuExits ==
  /\ qemu = "running" /\ qemu' = "gone"
  /\ UNCHANGED <<leader, asked, ctxDone, waiter, exited, pc, group>>

(* kraft exits: QEMU has, it obeys SIGINT not looking after QEMU, or it     *)
(* crashes.                                                                *)
LeaderExits ==
  /\ leader = "running" /\ leader' = "zombie"
  /\ UNCHANGED <<qemu, asked, ctxDone, waiter, exited, pc, group>>

(* The context LaunchSlice was given is cancelled. *)
ContextEnds ==
  /\ ~ctxDone /\ ctxDone' = TRUE
  /\ UNCHANGED <<leader, qemu, asked, waiter, exited, pc, group>>

(* exec's watcher sends SIGKILL when the context ends, to the leader alone. *)
ContextKills ==
  /\ ctxDone /\ leader = "running" /\ leader' = "zombie"
  /\ UNCHANGED <<qemu, asked, ctxDone, waiter, exited, pc, group>>

(***************************************************************************)
(* The waiter: cmd.Wait, then cancel, waitErr and close(exited)            *)
(***************************************************************************)
Reap ==
  /\ waiter = "process" /\ leader = "zombie"
  /\ leader' = "reaped" /\ waiter' = "pipes"
  /\ UNCHANGED <<qemu, asked, ctxDone, exited, pc, group>>

(* Mutants: the pipes are not waited for; the channel is closed only after *)
(* an exit that is not due to the context.                                 *)
CloseExitedEarly ==
  /\ waiter = "pipes"
  /\ waiter' = "done" /\ ctxDone' = TRUE /\ exited' = TRUE
  /\ UNCHANGED <<leader, qemu, asked, pc, group>>

CloseExitedUncancelled ==
  /\ waiter = "pipes" /\ qemu # "running"
  /\ waiter' = "done" /\ ctxDone' = TRUE /\ exited' = ~ctxDone
  /\ UNCHANGED <<leader, qemu, asked, pc, group>>

CloseExited ==
  /\ waiter = "pipes" /\ qemu # "running"
  /\ waiter' = "done" /\ ctxDone' = TRUE /\ exited' = TRUE
  /\ UNCHANGED <<leader, qemu, asked, pc, group>>

(***************************************************************************)
(* Stop                                                                    *)
(***************************************************************************)
Goto(p, from, to) == pc[p] = from /\ pc' = [pc EXCEPT ![p] = to]

(* Getpgid knows a zombie still, but a reaped process no more. SIGINT goes *)
(* to the group then, and otherwise to a leader that no longer exists.     *)
Interrupt(p) ==
  /\ leader # "none" /\ Goto(p, "idle", "select")
  /\ group' = [group EXCEPT ![p] = leader # "reaped"]
  /\ asked' = (asked \/ leader = "running")
  /\ UNCHANGED <<leader, qemu, ctxDone, waiter, exited>>

(* The select finds exited closed before its three seconds are over. *)
Graceful(p) ==
  /\ exited /\ Goto(p, "select", "returned")
  /\ UNCHANGED <<leader, qemu, asked, ctxDone, waiter, exited, group>>

(* Mutant: the fallback kills the leader alone. *)
ForceKillLeader(p) ==
  /\ ~exited /\ Goto(p, "select", "drain")
  /\ leader' = IF leader = "running" THEN "zombie" ELSE leader
  /\ UNCHANGED <<qemu, asked, ctxDone, waiter, exited, group>>

(* They are over: SIGKILL to the group if it is known, else to the leader. *)
ForceKill(p) ==
  /\ ~exited /\ Goto(p, "select", "drain")
  /\ leader' = IF leader = "running" THEN "zombie" ELSE leader
  /\ qemu' = IF group[p] /\ qemu = "running" THEN "gone" ELSE qemu
  /\ UNCHANGED <<asked, ctxDone, waiter, exited, group>>

(* <-exited, with no second timeout. *)
Drain(p) ==
  /\ exited /\ Goto(p, "drain", "returned")
  /\ UNCHANGED <<leader, qemu, asked, ctxDone, waiter, exited, group>>

StopStep(p) == Graceful(p) \/ ForceKill(p) \/ Drain(p)

(* No Stop is under way: nothing need happen. *)
AtRest == (\A p \in Stoppers : pc[p] \in {"idle", "returned"}) /\ UNCHANGED vars

Next ==
  \/ LaunchSlice \/ Fork \/ QemuExits \/ LeaderExits \/ ContextEnds \/ ContextKills
  \/ Reap \/ CloseExited \/ AtRest
  \/ \E p \in Stoppers : Interrupt(p) \/ StopStep(p)

Spec == Init /\ [][Next]_vars

(***************************************************************************)
(* Properties                                                              *)
(***************************************************************************)
TypeOK ==
  /\ leader \in {"none", "running", "zombie", "reaped"}
  /\ qemu \in {"none", "running", "gone"}
  /\ asked \in BOOLEAN /\ ctxDone \in BOOLEAN /\ exited \in BOOLEAN
  /\ waiter \in {"none", "process", "pipes", "done"}
  /\ pc \in [Stoppers -> {"idle", "select", "drain", "returned"}]
  /\ group \in [Stoppers -> BOOLEAN]

(* When Stop returns, kraft and the QEMU it started are both gone, also    *)
(* when kraft died first, and the waiter has let go of the process: the    *)
(* overlay the driver shreds next is nobody's disk any more.               *)
StoppedIsGone ==
  \A p \in Stoppers : pc[p] = "returned" =>
    leader = "reaped" /\ qemu # "running" /\ waiter = "done"

(* A Stop that finds the group returns, whatever the processes make of     *)
(* SIGINT, whatever becomes of the leader meanwhile, and with other Stops  *)
(* that come too late to find it.                                          *)
GroupStopReturns ==
  \A p \in Stoppers : pc[p] = "select" /\ group[p] ~> pc[p] = "returned"

(* "Stop gracefully signals the unikernel process group to terminate,      *)
(* falling back to a hard kill if it does not exit within a timeout"       *)
(* (launcher.go:106): every Stop returns.                                  *)
StopReturns == \A p \in Stoppers : pc[p] = "select" ~> pc[p] = "returned"

=============================================================================
