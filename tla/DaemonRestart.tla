---------------------------- MODULE DaemonRestart -----------------------------
(***************************************************************************)
(* The daemon dies at any moment and is started again. Its memory is gone: *)
(* the registry, the requests, vmSeq, which counts from zero. The host is  *)
(* as it was: devices, overlays, sockets, and the VMMs, which lead process *)
(* groups of their own and of which any number may survive. Nothing in the *)
(* code looks for leftovers; ids, and so names, are used again.            *)
(***************************************************************************)
EXTENDS FirecrackerDaemon

CONSTANT MaxLives  \* bound on how often the daemon is started

ASSUME RestartAssumption == MaxLives \in Nat \ {0}

VARIABLES
  lives,  \* how often it was started
  orphan  \* instances whose running VMM was started by an earlier daemon

restartVars == <<vars, lives, orphan>>

RestartInit == Init /\ lives = 1 /\ orphan = {}

(* A VMM that was sent SIGKILL is gone before the daemon is back.          *)
Crash ==
  /\ lives < MaxLives /\ lives' = lives + 1
  /\ \E left \in SUBSET {n \in Ids : vmm[n] \in Alive /\ sig[n] # "KILL"} :
       /\ orphan' = left
       /\ vmm' = [n \in Ids |-> IF n \in left THEN vmm[n] ELSE "none"]
       /\ sig' = [n \in Ids |-> IF n \in left THEN sig[n] ELSE "none"]
  /\ vmSeq' = 0 /\ vms' = {}
  /\ lpc' = [n \in Ids |-> "idle"] /\ ctxDone' = [n \in Ids |-> FALSE]
  /\ spc' = [s \in Stoppers |-> "idle"] /\ tgt' = [s \in Stoppers |-> NoTarget]
  /\ sweep' = "idle" /\ due' = {} /\ visited' = {}
  /\ audits' = [n \in Ids |-> 0] /\ deletes' = [n \in Ids |-> 0]
  /\ UNCHANGED <<faults, taps, overlay, residue, sock>>

(* The daemon has no handle to an orphan, so no context of a new request   *)
(* is watched for it.                                                      *)
Runs ==
  /\ Next
  /\ \A n \in orphan : sig'[n] = sig[n]
  /\ orphan' = {n \in orphan : vmm'[n] \in Alive}
  /\ UNCHANGED lives

RestartSpec == RestartInit /\ [][Crash \/ Runs]_restartVars

(* That it dies is not assumed. *)
RestartFairSpec ==
  /\ RestartSpec /\ HandlersRun /\ ProcessesRun
  /\ \A n \in Ids : WF_vars(n \notin orphan /\ ContextKills(n))

(***************************************************************************)
(* Properties                                                              *)
(***************************************************************************)

(* The guest of a dead daemon is never a second tenant's: while it runs,   *)
(* no launch under its id takes its device, truncates its disk or starts a *)
(* VMM beside it, and no request of its id finds a handle. What shields it *)
(* is its device, which a launch creates first and a Stop deletes last.    *)
OrphansUndisturbed ==
  [][\A n \in orphan :
       /\ n \notin vms /\ TapName(n) \in taps
       /\ vmm'[n] \in Alive =>
            /\ TapName(n) \in taps'
            /\ overlay'[n] \in {overlay[n], "tenant"}
            /\ vmm'[n] = "new" => vmm[n] = "new"]_restartVars

(* Wherever the daemon dies, no later one gives blocks with tenant data    *)
(* back to the host, and a 204 means what the documentation says of it: a  *)
(* disk that was not shredded is shielded like a VMM. An overlay whose     *)
(* shredding failed is not: its device is released, and the next daemon's  *)
(* instance of the same id truncates it.                                   *)
NoResidueAfterRestart ==
  faults \cap {"disconnect", "api", "slow", "shred"} = {} => residue = {} /\ DeletedIsSanitized

(* What handlers promise of an instance, each later daemon promises too,   *)
(* whatever it finds on its host: a handle it lists can be stopped, an id  *)
(* is deleted and its destruction audited once, and StopAll tears down all *)
(* that this daemon launched.                                              *)
SoundOverLeftovers ==
  NeverWedged /\ OneSuccessfulDelete /\ DestructionAudited /\ StopAllTearsDown

=============================================================================
