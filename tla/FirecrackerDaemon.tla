-------------------------- MODULE FirecrackerDaemon --------------------------
(***************************************************************************)
(* The daemon in firecracker mode: POST handlers, DELETE handlers and the  *)
(* shutdown's StopAll, interleaved with each other, with the VMMs and with *)
(* clients that go away.                                                   *)
(***************************************************************************)
EXTENDS LaunchVM, StopVM

(* No handler is active; the daemon waits for requests. *)
AwaitRequest ==
  /\ \A n \in Ids : lpc[n] \in Returned \cup {"idle"}
  /\ \A s \in Stoppers : spc[s] = "idle"
  /\ sweep # "on"
  /\ UNCHANGED vars

Next ==
  \/ \E n \in Ids : HandleCreate(n) \/ LaunchStep(n)
  \/ \E s \in Stoppers, n \in Ids : HandleDelete(s, n)
  \/ \E s \in Stoppers : StopStep(s)
  \/ StopAll \/ RangeEnds
  \/ \E n \in Ids : RangeVisits(n)
  \/ \E n \in Ids : \/ HandlerReturned(n) \/ ClientDisconnects(n) \/ ContextKills(n)
                    \/ VmmListens(n) \/ VmmKilled(n) \/ VmmCrashes(n)
                    \/ GuestWrites(n)
  \/ AwaitRequest

Spec == Init /\ [][Next]_vars

(***************************************************************************)
(* Fairness: the Go scheduler runs every goroutine that is not blocked, so *)
(* each handler, net/http's cancellation and exec's watcher get their turn; *)
(* a started VMM opens its API socket, a signalled one goes away. That a   *)
(* client asks for anything is not assumed.                                *)
(***************************************************************************)
SweeperStep == RangeEnds \/ (\E n \in Ids : RangeVisits(n)) \/ StopStep(Sweeper)

HandlersRun ==
  /\ \A n \in Ids : WF_vars(LaunchStep(n)) /\ WF_vars(HandlerReturned(n))
  /\ \A s \in Deleters : WF_vars(StopStep(s))
  /\ WF_vars(SweeperStep)

ProcessesRun == \A n \in Ids : WF_vars(VmmListens(n)) /\ WF_vars(VmmKilled(n))

Fairness == HandlersRun /\ ProcessesRun /\ \A n \in Ids : WF_vars(ContextKills(n))

FairSpec == Spec /\ Fairness

(***************************************************************************)
(* Invariants                                                              *)
(***************************************************************************)
TypeOK ==
  /\ faults \in Environments
  /\ vmSeq \in 0..MaxSeq /\ vms \subseteq Ids
  /\ lpc \in [Ids -> LaunchPcs] /\ ctxDone \in [Ids -> BOOLEAN]
  /\ taps \subseteq TapNames
  /\ overlay \in [Ids -> {"none", "partial", "base", "tenant", "zero"}]
  /\ residue \subseteq Ids /\ sock \subseteq Ids
  /\ vmm \in [Ids -> {"none", "gone"} \cup Alive]
  /\ sig \in [Ids -> {"none", "TERM", "KILL"}]
  /\ spc \in [Stoppers -> StopPcs] /\ tgt \in [Stoppers -> Ids \cup {NoTarget}]
  /\ sweep \in {"idle", "on", "done"} /\ due \subseteq Ids /\ visited \subseteq Ids
  /\ audits \in [Ids -> Nat] /\ deletes \in [Ids -> Nat]

At(s, n, pc) == tgt[s] = n /\ spc[s] = pc
Ended(n)   == vmm[n] \notin Alive
Stopped(n) == Ended(n) \/ sig[n] = "KILL"

(* A handle the server still lists can be stopped with success: its TAP    *)
(* device exists, or a stopper that deleted it is about to drop the handle. *)
(* Were it otherwise, "ip link delete" would fail in every later Stop, and *)
(* every DELETE of the instance would answer 500 for good.                 *)
NeverWedged ==
  \A n \in vms : TapName(n) \in taps \/ \E s \in Stoppers : At(s, n, "forget")

(* Concurrent stoppers of one instance register one destruction audit at   *)
(* most, and exactly one once its overlay is destroyed.                    *)
DestructionAudited ==
  \A n \in Ids :
    /\ audits[n] <= 1
    /\ lpc[n] \in Launched =>
         (overlay[n] = "none" <=> audits[n] = 1 \/ \E s \in Stoppers : At(s, n, "audit"))

(* A DELETE answers 204 once per instance, and then the handle and the TAP *)
(* device are gone for good and the VMM has exited or was sent SIGKILL,    *)
(* however many stoppers were at work.                                     *)
OneSuccessfulDelete ==
  \A n \in Ids :
    /\ deletes[n] <= 1
    /\ deletes[n] = 1 => n \notin vms /\ TapName(n) \notin taps /\ Stopped(n)

(* "If any stage errors, the preceding allocations are explicitly          *)
(* released" (architecture-and-security.md:230): a POST answered 500       *)
(* leaves nothing of its instance on the host.                             *)
FailedLaunchReleased ==
  \A n \in Ids : lpc[n] = "failed" =>
    /\ overlay[n] = "none" /\ TapName(n) \notin taps
    /\ n \notin sock /\ n \notin vms /\ Ended(n)

(* That holds while clients wait for their answer, images can be copied,   *)
(* VMMs are ready and gone in time, and overlays and devices that should   *)
(* be removed can be.                                                      *)
FailedLaunchReleasedIfAttended ==
  faults \cap {"disconnect", "copy", "slow", "shred", "unlink"} = {} => FailedLaunchReleased

(* The disk blocks of an overlay go back to the host zeroed, on whichever  *)
(* path the overlay is removed and whatever fails on it, unless a guest    *)
(* boots without its launch learning of it or outlives the 1 s of Stop.    *)
NoResidue ==
  faults \cap {"disconnect", "api", "slow"} = {} => residue = {}

(* When StopAll returns, what was registered when it was called is out of  *)
(* the registry and stopped, DELETEs and POSTs notwithstanding, and off    *)
(* the network too if "ip link delete" works.                              *)
StopAllTearsDown ==
  sweep = "done" => \A n \in due :
    /\ n \notin vms /\ Stopped(n)
    /\ "unlink" \notin faults => TapName(n) \notin taps

(***************************************************************************)
(* Action properties                                                       *)
(***************************************************************************)

(* No running guest has its disk zeroed or unlinked or its TAP device      *)
(* deleted under it: the VMM has exited or was sent SIGKILL first.         *)
WithdrawnFromStopped ==
  [][\A n \in Ids :
       \/ overlay'[n] # overlay[n] /\ overlay'[n] \in {"zero", "none"}
       \/ TapName(n) \in taps \ taps'
       => Stopped(n)]_vars

(***************************************************************************)
(* Refinement                                                              *)
(***************************************************************************)

(* A Firecracker instance as InstanceLife sees it: its guest is a VMM that *)
(* has not been sent SIGKILL.                                              *)
LifeOf(n) ==
  CASE n \in vms -> "registered"
    [] n \notin vms /\ lpc[n] = "idle" -> "unasked"
    [] n \notin vms /\ lpc[n] = "failed" -> "failed"
    [] n \notin vms /\ lpc[n] \in {"reply", "done"} -> "gone"
    [] OTHER -> "launching"

PowerOf(n) ==
  CASE vmm[n] = "none" -> "off"
    [] vmm[n] # "none" /\ Stopped(n) -> "dead"
    [] OTHER -> "on"

Life == INSTANCE InstanceLife WITH
  life <- [n \in Ids |-> LifeOf(n)],
  power <- [n \in Ids |-> PowerOf(n)],
  disk <- [n \in Ids |-> overlay[n] # "none"]

(* However its requests interleave and whatever fails, an instance lives   *)
(* as InstanceLife says: no launch answers 500 and leaves a guest, no      *)
(* registered instance loses its disk before its guest, none goes from the *)
(* registry before its guest, and none comes back.                         *)
ImplementsLife == Life!Spec

(***************************************************************************)
(* Liveness                                                                *)
(***************************************************************************)

(* Every POST is answered, unless the daemon dies first. *)
PostAnswered == \A n \in Ids : lpc[n] = "bridge" ~> lpc[n] \in Returned \cup {"idle"}

(* Every DELETE is answered, whatever other stoppers do to the instance. *)
DeleteAnswered == \A s \in Deleters : spc[s] # "idle" ~> spc[s] = "idle"

(* StopAll returns, with DELETEs and new POSTs under way, or dies with the *)
(* daemon.                                                                 *)
StopAllReturns == sweep = "on" ~> sweep # "on"

(***************************************************************************)
(* What the documentation says and the code does not do                    *)
(***************************************************************************)

(* "201 Created: Instance created and running" (rest-api.md:230): a        *)
(* registered instance no one is stopping has a guest that is not being    *)
(* killed.                                                                 *)
RegisteredIsRunning ==
  \A n \in vms : (\A s \in Stoppers : tgt[s] # n) => vmm[n] = "guest" /\ sig[n] # "KILL"

(* "The instance was successfully terminated and sanitized" of a 204       *)
(* (rest-api.md:197).                                                      *)
DeletedIsSanitized == \A n \in Ids : deletes[n] > 0 => overlay[n] = "none" /\ n \notin residue

=============================================================================
