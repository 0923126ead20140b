-------------------------- MODULE QemuDriverProofs ---------------------------
(***************************************************************************)
(* An instance of the QEMU driver, for any number of stoppers and every    *)
(* set of faults. What is shown first, of a slice that is stopped by       *)
(* anyone at any time, holds of the slice of an instance too, since the    *)
(* driver only restricts it.                                               *)
(***************************************************************************)
EXTENDS QemuDriver, TLAPS

(***************************************************************************)
(* The slice alone                                                         *)
(***************************************************************************)

(* The channel is closed by a waiter that reaped the leader and saw every  *)
(* holder of the pipes gone; a reaped leader starts no QEMU.               *)
WaiterInv ==
  /\ leader = "none" <=> waiter = "none"
  /\ waiter = "process" => leader \in {"running", "zombie"}
  /\ waiter \in {"pipes", "done"} => leader = "reaped"
  /\ exited = (waiter = "done")
  /\ waiter = "done" => qemu # "running"

(* Stop returns through the channel only. *)
ReturnInv == \A p \in Stoppers : pc[p] = "returned" => exited

SliceInv == TypeOK /\ WaiterInv /\ ReturnInv

LEMMA SliceInit == Init => SliceInv
  BY DEF Init, SliceInv, TypeOK, WaiterInv, ReturnInv

LEMMA SliceStep == SliceInv /\ [Next]_vars => SliceInv'
<1> SUFFICES ASSUME SliceInv, [Next]_vars PROVE SliceInv'
  OBVIOUS
<1> USE DEF SliceInv, TypeOK, WaiterInv, ReturnInv, Goto
<1>1. CASE LaunchSlice
  <2>1. leader = "none" /\ leader' = "running" /\ waiter' = "process"
        /\ UNCHANGED <<qemu, asked, ctxDone, exited, pc, group>>
    BY <1>1 DEF LaunchSlice
  <2>2. ~exited
    BY <2>1
  <2> QED BY <2>1, <2>2
<1>2. CASE Fork \/ QemuExits
  BY <1>2 DEF Fork, QemuExits
<1>10. CASE LeaderExits
  BY <1>10 DEF LeaderExits
<1>3. CASE ContextEnds \/ ContextKills
  BY <1>3 DEF ContextEnds, ContextKills
<1>4. CASE Reap
  BY <1>4 DEF Reap
<1>5. CASE CloseExited
  BY <1>5 DEF CloseExited
<1>6. ASSUME NEW p \in Stoppers, Interrupt(p) PROVE SliceInv'
  BY <1>6 DEF Interrupt
<1>7. ASSUME NEW p \in Stoppers, Graceful(p) \/ Drain(p) PROVE SliceInv'
  BY <1>7 DEF Graceful, Drain
<1>8. ASSUME NEW p \in Stoppers, ForceKill(p) PROVE SliceInv'
  BY <1>8 DEF ForceKill
<1>9. CASE UNCHANGED vars
  BY <1>9 DEF vars
<1> QED
  BY <1>1, <1>2, <1>3, <1>4, <1>5, <1>6, <1>7, <1>8, <1>9, <1>10 DEF Next, AtRest, StopStep

LEMMA SliceAlways == Spec => []SliceInv
  BY SliceInit, SliceStep, PTL DEF Spec

(* The state of a slice and of its Stops always has its type. *)
THEOREM SliceTypeCorrect == Spec => []TypeOK
<1>1. SliceInv => TypeOK
  BY DEF SliceInv
<1> QED BY <1>1, SliceAlways, PTL

(* A Stop that has returned leaves neither kraft nor QEMU, whoever killed  *)
(* the leader and however many Stops were at work.                         *)
THEOREM StopLeavesNothing == Spec => []StoppedIsGone
<1>1. SliceInv => StoppedIsGone
  BY DEF SliceInv, WaiterInv, ReturnInv, StoppedIsGone
<1> QED BY <1>1, SliceAlways, PTL

(***************************************************************************)
(* The driver implements the slice.                                        *)
(***************************************************************************)
LEMMA StepIsSliceStep == QemuNext \/ UNCHANGED qemuVars => [Next]_vars
<1> SUFFICES ASSUME QemuNext \/ UNCHANGED qemuVars PROVE Next \/ UNCHANGED vars
  OBVIOUS
<1>1. CASE UNCHANGED qemuVars \/ NoneAtWork
  BY <1>1 DEF NoneAtWork, qemuVars, slice
<1>2. CASE HandleCreate \/ PostStep
  BY <1>2 DEF HandleCreate, PostStep, WriteOverlay, Launch, LaunchFails, Store, slice, Next
<1>3. CASE RequestEnds \/ Processes
  BY <1>3 DEF RequestEnds, Processes, KraftExits, Next
<1>4. ASSUME NEW s \in Stoppers, Load(s) PROVE Next \/ UNCHANGED vars
  BY <1>4 DEF Load, slice
<1>5. ASSUME NEW s \in Stoppers, StopperStep(s) PROVE Next \/ UNCHANGED vars
  BY <1>5 DEF StopperStep, StopSlice, ShredOpen, ShredZero, ShredUnlink, RegisterAudit, Forget,
              slice, Next
<1> QED BY <1>1, <1>2, <1>3, <1>4, <1>5 DEF QemuNext

(* The instance's slice behaves as KraftSlice says: what holds of a slice  *)
(* stopped by anyone at any time holds of one the REST handlers stop.      *)
THEOREM DriverImplementsSlice == QemuSpec => Spec
<1>1. QemuInit => Init
  BY DEF QemuInit
<1>2. [QemuNext]_qemuVars => [Next]_vars
  BY StepIsSliceStep
<1> QED BY <1>1, <1>2, PTL DEF QemuSpec, Spec

(***************************************************************************)
(* The inductive invariant                                                 *)
(***************************************************************************)
Typed ==
  /\ faults \in Environments
  /\ post \in {"idle", "write", "launch", "store"} \cup Answered
  /\ vms \in BOOLEAN
  /\ overlay \in {"none", "secret", "zero"} /\ residue \in BOOLEAN
  /\ spc \in [Stoppers -> StopperPcs]
  /\ audits \in Nat

(* Until vms.Store nobody but the POST knows the instance, and until it    *)
(* has launched there is no process.                                       *)
PostInv ==
  /\ post # "done" => ~vms /\ audits = 0 /\ \A s \in Stoppers : spc[s] = "idle"
  /\ post \in {"idle", "write", "launch", "failed"} => leader = "none" /\ qemu = "none"
  /\ post \in {"store", "done"} => leader # "none"
  /\ post \in {"launch", "store"} => overlay = "secret" /\ ~residue
  /\ post \in {"idle", "write"} => overlay = "none" /\ ~residue

(* Whoever shreds, registers or forgets has come out of Stop. *)
StopInv ==
  \A s \in Stoppers : spc[s] \notin {"idle", "stop"} => pc[s] = "returned"

Withdrawn == overlay # "secret" \/ audits > 0 \/ ~vms

(* What is withdrawn was withdrawn by one who has come out of Stop. *)
WithdrawnInv == post = "done" /\ Withdrawn => \E s \in Stoppers : pc[s] = "returned"

(* A stopper that unlinks does so once the overlay is zero. *)
ZeroInv ==
  /\ \A s \in Stoppers : spc[s] = "unlink" => overlay # "secret"
  /\ post = "done" => ~residue

(* A stopper on its way to the audit has unlinked the overlay, so there is *)
(* one such stopper at most, and no record yet.                            *)
AuditInv ==
  /\ audits <= 1
  /\ \A s, t \in Stoppers : spc[s] = "audit" /\ spc[t] = "audit" => s = t
  /\ \A s \in Stoppers : spc[s] = "audit" => audits = 0 /\ overlay = "none"
  /\ post = "done" =>
       (overlay = "none" <=> audits = 1 \/ \E s \in Stoppers : spc[s] = "audit")

(* If ShredFile does not fail, who has come past it finds the overlay gone. *)
GoneInv ==
  "io" \notin faults =>
    /\ \A s \in Stoppers : spc[s] \in {"audit", "forget", "done"} => overlay = "none"
    /\ ~vms /\ post = "done" => overlay = "none"
    /\ post = "failed" => overlay = "none"

QemuInv ==
  SliceInv /\ Typed /\ PostInv /\ StopInv /\ WithdrawnInv /\ ZeroInv /\ AuditInv /\ GoneInv

LEMMA QemuInitInv == QemuInit => QemuInv
<1> SUFFICES ASSUME QemuInit PROVE QemuInv
  OBVIOUS
<1>1. SliceInv
  BY SliceInit DEF QemuInit
<1>2. /\ post = "idle" /\ ~vms /\ ~residue /\ overlay = "none" /\ audits = 0
      /\ leader = "none" /\ qemu = "none"
      /\ \A t \in Stoppers : spc[t] = "idle"
  BY DEF QemuInit, Init
<1>3. Typed
  BY DEF QemuInit, Typed, StopperPcs, Answered
<1>4. PostInv /\ StopInv /\ WithdrawnInv /\ ZeroInv /\ AuditInv /\ GoneInv
  BY <1>2 DEF PostInv, StopInv, WithdrawnInv, ZeroInv, AuditInv, GoneInv
<1> QED BY <1>1, <1>3, <1>4 DEF QemuInv

(* The steps of the POST: no stopper is there yet. *)
LEMMA PostKeeps == QemuInv /\ (HandleCreate \/ PostStep) => QemuInv'
<1> SUFFICES ASSUME QemuInv, HandleCreate \/ PostStep PROVE QemuInv'
  OBVIOUS
<1>1. SliceInv'
  BY SliceStep, StepIsSliceStep DEF QemuInv, QemuNext
<1>2. post # "done" /\ UNCHANGED <<faults, spc, audits, pc>>
  BY DEF HandleCreate, PostStep, WriteOverlay, Launch, LaunchFails, Store, LaunchSlice, PostGoto, slice, vars
<1>3. ~vms /\ audits = 0 /\ \A s \in Stoppers : spc[s] = "idle"
  BY <1>2 DEF QemuInv, PostInv
<1>4. Typed'
  BY <1>2 DEF HandleCreate, PostStep, WriteOverlay, Launch, LaunchFails, Store, PostGoto, disk, QemuInv, Typed,
              Answered
<1>9. PostInv'
  <2>1. post \in {"idle", "write", "launch"} => leader = "none" /\ qemu = "none"
    BY DEF QemuInv, PostInv
  <2>6. CASE HandleCreate
    BY <1>2, <1>3, <2>1, <2>6 DEF HandleCreate, PostGoto, slice, vars, disk, QemuInv, PostInv
  <2>2. CASE WriteOverlay
    BY <1>2, <1>3, <2>1, <2>2 DEF WriteOverlay, PostGoto, slice, vars, QemuInv, PostInv
  <2>3. CASE Launch
    BY <1>2, <1>3, <2>3 DEF Launch, LaunchSlice, PostGoto, disk, QemuInv, PostInv
  <2>4. CASE LaunchFails
    BY <1>2, <1>3, <2>1, <2>4 DEF LaunchFails, PostGoto, slice, vars, PostInv
  <2>5. CASE Store
    BY <2>5 DEF Store, PostGoto, slice, vars, disk, QemuInv, PostInv
  <2> QED BY <2>2, <2>3, <2>4, <2>5, <2>6 DEF PostStep
<1>5. StopInv' /\ AuditInv'
  <2>1. post' = "done" => overlay' # "none"
    BY DEF HandleCreate, PostStep, WriteOverlay, Launch, LaunchFails, Store, PostGoto, disk, QemuInv, PostInv
  <2> QED BY <1>2, <1>3, <2>1 DEF StopInv, AuditInv
<1>6. post' = "done" => vms' /\ overlay' = "secret" /\ ~residue'
  BY DEF HandleCreate, PostStep, WriteOverlay, Launch, LaunchFails, Store, PostGoto, disk, QemuInv, PostInv
<1>7. WithdrawnInv' /\ ZeroInv'
  BY <1>2, <1>3, <1>6 DEF WithdrawnInv, Withdrawn, ZeroInv
<1>8. GoneInv'
  <2>1. post' = "failed" /\ "io" \notin faults => overlay' = "none"
    BY DEF HandleCreate, PostStep, WriteOverlay, Launch, LaunchFails, Store, PostGoto
  <2> QED BY <1>2, <1>3, <1>6, <2>1 DEF GoneInv
<1> QED BY <1>1, <1>4, <1>5, <1>7, <1>8, <1>9 DEF QemuInv

(* Steps that leave all but the slice alone, and in it let no stopper go   *)
(* back and start nothing before the launch.                               *)
LEMMA SliceFrame ==
  ASSUME QemuInv, SliceInv',
         UNCHANGED <<faults, post, vms, disk, spc, audits>>,
         \A s \in Stoppers : pc[s] = "returned" => pc'[s] = "returned",
         post \in {"idle", "write", "launch", "failed"} => UNCHANGED <<leader, qemu>>,
         leader # "none" => leader' # "none"
  PROVE  QemuInv'
<1> USE DEF QemuInv, disk
<1>1. Typed' /\ PostInv'
  BY DEF Typed, PostInv
<1>2. StopInv' /\ WithdrawnInv'
  BY DEF StopInv, WithdrawnInv, Withdrawn
<1>3. ZeroInv' /\ AuditInv' /\ GoneInv'
  BY DEF ZeroInv, AuditInv, GoneInv
<1> QED BY <1>1, <1>2, <1>3

LEMMA ProcessesKeep == QemuInv /\ (RequestEnds \/ Processes) => QemuInv'
<1> SUFFICES ASSUME QemuInv, RequestEnds \/ Processes PROVE QemuInv'
  OBVIOUS
<1>1. SliceInv'
  BY SliceStep, StepIsSliceStep DEF QemuInv, QemuNext
<1>2. UNCHANGED <<faults, post, vms, disk, spc, audits, pc>>
  BY DEF RequestEnds, Processes, ContextEnds, Fork, QemuExits, KraftExits, LeaderExits,
         ContextKills, Reap, CloseExited, vars, disk
<1>3. leader = "none" /\ qemu = "none" => UNCHANGED <<leader, qemu>>
  BY DEF RequestEnds, Processes, ContextEnds, Fork, QemuExits, KraftExits, LeaderExits,
         ContextKills, Reap, CloseExited
<1>4. post \in {"idle", "write", "launch", "failed"} => UNCHANGED <<leader, qemu>>
  BY <1>3 DEF QemuInv, PostInv
<1>5. leader # "none" => leader' # "none"
  BY DEF RequestEnds, Processes, ContextEnds, Fork, QemuExits, KraftExits, LeaderExits,
         ContextKills, Reap, CloseExited
<1> QED BY <1>1, <1>2, <1>4, <1>5, SliceFrame

LEMMA StopSliceKeeps == ASSUME NEW s \in Stoppers, QemuInv, StopSlice(s) PROVE QemuInv'
<1>1. SliceInv'
  BY SliceStep, StepIsSliceStep DEF QemuInv, QemuNext, StopperStep
<1>2. spc[s] = "stop" /\ UNCHANGED <<faults, post, vms, disk, spc, audits>>
  BY DEF StopSlice
<1>3. post = "done"
  BY <1>2 DEF QemuInv, PostInv
<1>4. ASSUME NEW t \in Stoppers, pc[t] = "returned" PROVE pc'[t] = "returned"
  BY <1>4 DEF StopSlice, Interrupt, StopStep, Graceful, ForceKill, Drain, Goto, QemuInv,
              SliceInv, TypeOK
<1>5. leader # "none" => leader' # "none"
  BY DEF StopSlice, Interrupt, StopStep, Graceful, ForceKill, Drain
<1> QED BY <1>1, <1>2, <1>3, <1>4, <1>5, SliceFrame

(***************************************************************************)
(* The steps of a stopper that leave the slice and the POST alone          *)
(***************************************************************************)

(* What they keep: only Load enters Stop, only who has returned goes on.   *)
LEMMA StopperFrame ==
  ASSUME NEW s \in Stoppers, NEW c \in StopperPcs, QemuInv, SliceInv',
         UNCHANGED <<slice, faults, post>>,
         post = "done",
         spc' = [spc EXCEPT ![s] = c],
         c # "stop" => pc[s] = "returned",
         vms' \in BOOLEAN, audits' \in Nat, UNCHANGED residue,
         overlay' \in {"none", "secret", "zero"},
         c = "stop" => UNCHANGED <<vms, disk, audits>>
  PROVE  Typed' /\ PostInv' /\ StopInv' /\ WithdrawnInv'
<1> USE DEF QemuInv
<1>1. Typed'
  BY DEF Typed
<1>2. PostInv'
  BY DEF PostInv, slice, vars
<1>3. UNCHANGED pc
  BY DEF slice, vars
<1>4. StopInv'
  BY <1>3 DEF StopInv, Typed
<1>5. WithdrawnInv'
  <2>1. CASE c = "stop"
    BY <1>3, <2>1 DEF WithdrawnInv, Withdrawn, disk
  <2>2. CASE c # "stop"
    BY <1>3, <2>2 DEF WithdrawnInv
  <2> QED BY <2>1, <2>2
<1> QED BY <1>1, <1>2, <1>4, <1>5

LEMMA LoadKeeps == ASSUME NEW s \in Stoppers, QemuInv, Load(s) PROVE QemuInv'
<1>1. SliceInv'
  BY SliceStep, StepIsSliceStep DEF QemuInv, QemuNext
<1>2. /\ spc[s] = "idle" /\ spc' = [spc EXCEPT ![s] = "stop"]
      /\ UNCHANGED <<slice, faults, post, vms, disk, audits>>
  BY DEF Load, Move
<1>3. post = "done"
  BY DEF Load, QemuInv, PostInv
<1>4. Typed' /\ PostInv' /\ StopInv' /\ WithdrawnInv'
  BY <1>1, <1>2, <1>3, StopperFrame DEF StopperPcs, disk, QemuInv, Typed
<1>5. \A t \in Stoppers : spc'[t] = IF t = s THEN "stop" ELSE spc[t]
  BY <1>2 DEF QemuInv, Typed
<1>6. ZeroInv' /\ AuditInv' /\ GoneInv'
  BY <1>2, <1>5 DEF QemuInv, ZeroInv, AuditInv, GoneInv, disk
<1> QED BY <1>1, <1>4, <1>6 DEF QemuInv

(* Beyond Stop: the stopper has returned, so the instance was stored.      *)
Beyond(s) == ShredOpen(s) \/ ShredZero(s) \/ ShredUnlink(s) \/ RegisterAudit(s) \/ Forget(s)

LEMMA BeyondFrame ==
  ASSUME NEW s \in Stoppers, QemuInv, Beyond(s)
  PROVE  /\ SliceInv' /\ Typed' /\ PostInv' /\ StopInv' /\ WithdrawnInv'
         /\ post = "done" /\ UNCHANGED <<faults, post>>
         /\ \A t \in Stoppers : t # s => spc'[t] = spc[t]
<1>1. SliceInv'
  BY SliceStep, StepIsSliceStep DEF QemuInv, QemuNext, StopperStep, Beyond
<1>2. UNCHANGED <<slice, faults, post>>
  BY DEF Beyond, ShredOpen, ShredZero, ShredUnlink, RegisterAudit, Forget
<1>3. spc[s] # "idle" /\ pc[s] = "returned"
  <2>1. CASE ShredOpen(s)
    BY <2>1 DEF ShredOpen, ShredFails, Move
  <2>2. CASE ShredZero(s) \/ ShredUnlink(s) \/ RegisterAudit(s) \/ Forget(s)
    BY <2>2 DEF ShredZero, ShredUnlink, RegisterAudit, Forget, ShredFails, Move, QemuInv, StopInv
  <2> QED BY <2>1, <2>2 DEF Beyond
<1>4. post = "done"
  BY <1>3 DEF QemuInv, PostInv
<1>5. PICK c \in StopperPcs \ {"stop"} : spc' = [spc EXCEPT ![s] = c]
  BY DEF Beyond, ShredOpen, ShredZero, ShredUnlink, RegisterAudit, Forget, ShredFails, Move,
         StopperPcs, Shredding
<1>6. /\ vms' \in BOOLEAN /\ overlay' \in {"none", "secret", "zero"}
  BY DEF Beyond, ShredOpen, ShredZero, ShredUnlink, RegisterAudit, Forget, disk, QemuInv, Typed
<1>7. audits' \in Nat
  BY DEF Beyond, ShredOpen, ShredZero, ShredUnlink, RegisterAudit, Forget, QemuInv, Typed
<1>8. UNCHANGED residue
  <2>1. CASE ShredUnlink(s)
    <3>1. spc[s] = "unlink"
      BY <2>1 DEF ShredUnlink, ShredFails, Move
    <3>2. overlay # "secret"
      BY <3>1 DEF QemuInv, ZeroInv
    <3>3. residue \in BOOLEAN
      BY DEF QemuInv, Typed
    <3>4. residue' = (residue \/ overlay = "secret") \/ residue' = residue
      BY <2>1 DEF ShredUnlink, disk
    <3> QED BY <3>2, <3>3, <3>4
  <2>2. CASE ~ShredUnlink(s)
    BY <2>2 DEF Beyond, ShredOpen, ShredZero, RegisterAudit, Forget, disk
  <2> QED BY <2>1, <2>2
<1>9. Typed' /\ PostInv' /\ StopInv' /\ WithdrawnInv'
  BY <1>1, <1>2, <1>3, <1>4, <1>5, <1>6, <1>7, <1>8, StopperFrame
<1>10. \A t \in Stoppers : t # s => spc'[t] = spc[t]
  BY <1>5 DEF QemuInv, Typed
<1> QED BY <1>1, <1>2, <1>4, <1>9, <1>10

LEMMA BeyondKeeps == ASSUME NEW s \in Stoppers, QemuInv, Beyond(s) PROVE QemuInv'
<1>1. /\ SliceInv' /\ Typed' /\ PostInv' /\ StopInv' /\ WithdrawnInv'
      /\ post = "done" /\ UNCHANGED <<faults, post>>
      /\ \A t \in Stoppers : t # s => spc'[t] = spc[t]
  BY BeyondFrame
<1>2. spc \in [Stoppers -> StopperPcs] /\ audits \in Nat
  BY DEF QemuInv, Typed
<1>3. ZeroInv /\ AuditInv /\ GoneInv
  BY DEF QemuInv
<1>4. ASSUME NEW from, NEW to, Move(s, from, to) PROVE spc[s] = from /\ spc'[s] = to
  BY <1>2, <1>4 DEF Move
<1>5. CASE ShredOpen(s)
  <2>1. /\ spc[s] = "stop" /\ UNCHANGED <<vms, overlay, residue, audits>>
        /\ \/ spc'[s] = "zero"
           \/ spc'[s] = "forget" /\ (overlay = "none" \/ "io" \in faults)
    BY <1>4, <1>5 DEF ShredOpen, ShredFails, disk
  <2>2. ZeroInv' /\ AuditInv'
    BY <1>1, <1>3, <2>1 DEF ZeroInv, AuditInv
  <2>3. GoneInv'
    BY <1>1, <1>3, <2>1 DEF GoneInv
  <2> QED BY <1>1, <2>2, <2>3 DEF QemuInv
<1>6. CASE ShredZero(s)
  <2>1. /\ spc[s] = "zero" /\ UNCHANGED <<vms, residue, audits>>
        /\ \/ spc'[s] = "unlink" /\ overlay' = IF overlay = "none" THEN "none" ELSE "zero"
           \/ spc'[s] = "forget" /\ "io" \in faults /\ overlay' = overlay
    BY <1>4, <1>6 DEF ShredZero, ShredFails
  <2>2. ZeroInv' /\ AuditInv'
    BY <1>1, <1>3, <2>1 DEF ZeroInv, AuditInv
  <2>3. GoneInv'
    BY <1>1, <1>3, <2>1 DEF GoneInv
  <2> QED BY <1>1, <2>2, <2>3 DEF QemuInv
<1>7. CASE ShredUnlink(s)
  <2>1. /\ spc[s] = "unlink" /\ UNCHANGED <<vms, audits>>
        /\ \/ spc'[s] = "audit" /\ overlay # "none" /\ overlay' = "none"
           \/ spc'[s] = "forget" /\ overlay' = overlay /\ (overlay = "none" \/ "io" \in faults)
    BY <1>4, <1>7 DEF ShredUnlink, ShredFails, disk
  <2>2. ~residue'
    BY <1>1, <1>3, <1>7, <2>1 DEF ShredUnlink, ZeroInv, disk
  <2>3. ZeroInv'
    BY <1>1, <1>3, <2>1, <2>2 DEF ZeroInv
  <2>4. overlay # "none" => audits = 0 /\ \A t \in Stoppers : spc[t] # "audit"
    BY <1>1, <1>2, <1>3 DEF AuditInv
  <2>5. AuditInv'
    BY <1>1, <1>3, <2>1, <2>4 DEF AuditInv
  <2>6. GoneInv'
    BY <1>1, <1>3, <2>1 DEF GoneInv
  <2> QED BY <1>1, <2>3, <2>5, <2>6 DEF QemuInv
<1>8. CASE RegisterAudit(s)
  <2>1. /\ spc[s] = "audit" /\ spc'[s] = "forget" /\ audits' = audits + 1
        /\ UNCHANGED <<vms, overlay, residue>>
    BY <1>4, <1>8 DEF RegisterAudit, disk
  <2>2. ZeroInv' /\ GoneInv'
    BY <1>1, <1>3, <2>1 DEF ZeroInv, GoneInv
  <2>3. audits' = 1 /\ overlay' = "none" /\ \A t \in Stoppers : spc'[t] # "audit"
    BY <1>1, <1>3, <2>1 DEF AuditInv
  <2>4. AuditInv'
    BY <2>3 DEF AuditInv
  <2> QED BY <1>1, <2>2, <2>4 DEF QemuInv
<1>9. CASE Forget(s)
  <2>1. spc[s] = "forget" /\ spc'[s] = "done" /\ UNCHANGED <<overlay, residue, audits>>
    BY <1>4, <1>9 DEF Forget, disk
  <2>2. ZeroInv' /\ AuditInv'
    BY <1>1, <1>3, <2>1 DEF ZeroInv, AuditInv
  <2>3. GoneInv'
    BY <1>1, <1>3, <2>1 DEF GoneInv
  <2> QED BY <1>1, <2>2, <2>3 DEF QemuInv
<1> QED BY <1>5, <1>6, <1>7, <1>8, <1>9 DEF Beyond

LEMMA QemuStep == QemuInv /\ [QemuNext]_qemuVars => QemuInv'
<1> SUFFICES ASSUME QemuInv, [QemuNext]_qemuVars PROVE QemuInv'
  OBVIOUS
<1>1. CASE UNCHANGED qemuVars \/ NoneAtWork
  <2>1. UNCHANGED qemuVars
    BY <1>1 DEF NoneAtWork
  <2>2. SliceInv'
    BY <2>1, SliceStep, StepIsSliceStep DEF QemuInv
  <2> QED BY <2>1, <2>2, SliceFrame DEF qemuVars, slice, vars
<1>2. CASE HandleCreate \/ PostStep \/ RequestEnds \/ Processes
  BY <1>2, PostKeeps, ProcessesKeep
<1>3. ASSUME NEW s \in Stoppers, Load(s) \/ StopperStep(s) PROVE QemuInv'
  BY <1>3, LoadKeeps, StopSliceKeeps, BeyondKeeps DEF StopperStep, Beyond
<1> QED BY <1>1, <1>2, <1>3 DEF QemuNext

LEMMA QemuAlways == QemuSpec => []QemuInv
  BY QemuInitInv, QemuStep, PTL DEF QemuSpec

(***************************************************************************)
(* The theorems                                                            *)
(***************************************************************************)

(* The state of the driver and of its slice always has its type: whatever  *)
(* fails, no second audit is registered.                                   *)
THEOREM QemuTypeCorrect == QemuSpec => []QemuTypeOK
<1>1. QemuInv => QemuTypeOK
  <2>1. QemuInv => audits \in 0..1
    BY DEF QemuInv, Typed, AuditInv
  <2> QED BY <2>1 DEF QemuInv, SliceInv, Typed, QemuTypeOK
<1> QED BY <1>1, QemuAlways, PTL

(* Nothing of an instance is withdrawn, zeroed, recorded or forgotten      *)
(* before kraft and QEMU are gone, with any number of stoppers.            *)
THEOREM WithdrawnFromGone == QemuSpec => []WithdrawnIsGone
<1>1. QemuInv => WithdrawnIsGone
  <2> SUFFICES ASSUME QemuInv, post = "done", Withdrawn
      PROVE leader = "reaped" /\ qemu # "running" /\ waiter = "done"
    BY DEF WithdrawnIsGone, Withdrawn
  <2>1. PICK p \in Stoppers : pc[p] = "returned"
    BY DEF QemuInv, WithdrawnInv
  <2> QED BY <2>1 DEF QemuInv, SliceInv, ReturnInv, WaiterInv
<1> QED BY <1>1, QemuAlways, PTL

(* Any number of overlapping DELETEs and StopAll register one audit of an  *)
(* overlay that is destroyed and none of one that is not, and forget no    *)
(* instance whose overlay is there still, if ShredFile does not fail.      *)
THEOREM DestructionRecordedOnce == QemuSpec => []DestroyedOnce
<1>1. QemuInv => DestroyedOnce
  BY DEF QemuInv, AuditInv, GoneInv, DestroyedOnce
<1> QED BY <1>1, QemuAlways, PTL

(* If the disk works, a failed launch leaves no file and no process, and   *)
(* it alone gives secrets back to the disk.                                *)
THEOREM OnlyFailedLaunchLeaks == QemuSpec => []NothingLeft
<1>1. QemuInv => NothingLeft
  BY DEF QemuInv, Typed, PostInv, ZeroInv, GoneInv, NothingLeft, Answered
<1> QED BY <1>1, QemuAlways, PTL

(***************************************************************************)
(* The driver implements InstanceLife.                                     *)
(***************************************************************************)

(* What a step has to keep to be none of the abstract instance's.          *)
LEMMA LifeStutters ==
  ASSUME UNCHANGED <<LifeOf, PowerOf, audits>>, (overlay' = "none") = (overlay = "none")
  PROVE  UNCHANGED Life!lifeVars
  BY DEF Life!lifeVars

LEMMA PostImplements ==
  ASSUME QemuInv, HandleCreate \/ PostStep
  PROVE  Life!Next
<1> USE DEF LifeOf, PowerOf, PostGoto, slice, vars, disk
<1>1. ~vms /\ (post \in {"idle", "write", "launch"} => leader = "none" /\ qemu = "none")
  BY DEF QemuInv, PostInv, HandleCreate, PostStep, WriteOverlay, Launch, LaunchFails, Store
<1>2. CASE HandleCreate
  <2>1. Life!Accept(1)
    BY <1>1, <1>2 DEF HandleCreate, Life!Accept, Life!Becomes
  <2> QED BY <2>1 DEF Life!Next
<1>3. CASE WriteOverlay
  <2>1. overlay = "none"
    BY <1>3 DEF WriteOverlay, QemuInv, PostInv
  <2>2. CASE post' = "launch"
    <3>1. Life!MakeDisk(1)
      BY <1>1, <1>3, <2>1, <2>2 DEF WriteOverlay, Life!MakeDisk
    <3> QED BY <3>1 DEF Life!Next
  <2>3. CASE post' = "failed"
    <3>1. Life!Fail(1)
      BY <1>1, <1>3, <2>3 DEF WriteOverlay, Life!Fail, Life!Becomes
    <3> QED BY <3>1 DEF Life!Next
  <2> QED BY <1>3, <2>2, <2>3 DEF WriteOverlay
<1>4. CASE Launch
  <2>1. overlay = "secret"
    BY <1>4 DEF Launch, QemuInv, PostInv
  <2>2. Life!PowerOn(1)
    BY <1>1, <1>4, <2>1 DEF Launch, LaunchSlice, Life!PowerOn
  <2> QED BY <2>2 DEF Life!Next
<1>5. CASE LaunchFails
  <2>1. Life!Fail(1)
    BY <1>1, <1>5 DEF LaunchFails, Life!Fail, Life!Becomes
  <2> QED BY <2>1 DEF Life!Next
<1>6. CASE Store
  <2>1. overlay = "secret" /\ leader # "none"
    BY <1>6 DEF Store, QemuInv, PostInv
  <2>2. Life!Register(1)
    BY <1>1, <1>6, <2>1 DEF Store, Life!Register, Life!Becomes
  <2> QED BY <2>2 DEF Life!Next
<1> QED BY <1>2, <1>3, <1>4, <1>5, <1>6 DEF PostStep

(* Steps of the slice: its processes are stopped for good, or nothing is.  *)
LEMMA SliceImplements ==
  ASSUME QemuInv, QemuInv', UNCHANGED <<post, vms, disk, audits>>,
         \/ UNCHANGED <<leader, qemu>>
         \/ leader # "none" /\ leader' # "none" /\ (PowerOf = "dead" => PowerOf' = "dead")
  PROVE  Life!Next \/ UNCHANGED Life!lifeVars
<1>1. LifeOf' = LifeOf /\ (overlay' = "none") = (overlay = "none")
  BY DEF LifeOf, disk
<1>2. CASE PowerOf' = PowerOf
  BY <1>1, <1>2, LifeStutters
<1>3. CASE PowerOf' # PowerOf
  <2>1. PowerOf = "on" /\ PowerOf' = "dead"
    BY <1>3 DEF PowerOf
  <2>2. Life!PowerOff(1)
    BY <1>1, <2>1 DEF Life!PowerOff
  <2> QED BY <2>2 DEF Life!Next
<1> QED BY <1>2, <1>3

LEMMA RunImplements ==
  ASSUME QemuInv, QemuInv', RequestEnds \/ Processes \/ \E s \in Stoppers : StopSlice(s)
  PROVE  Life!Next \/ UNCHANGED Life!lifeVars
<1>1. UNCHANGED <<post, vms, disk, audits>>
  BY DEF RequestEnds, Processes, StopSlice
<1>2. SliceInv
  BY DEF QemuInv
<1>3. CASE RequestEnds \/ Processes
  <2> DEFINE Kept == \/ UNCHANGED <<leader, qemu>>
                     \/ /\ leader # "none" /\ leader' # "none"
                        /\ PowerOf = "dead" => PowerOf' = "dead"
  <2>1. Kept
    <3>2. leader = "none" => qemu = "none"
      BY DEF QemuInv, PostInv, Typed, Answered
    <3>3. CASE RequestEnds
      BY <3>3 DEF RequestEnds, ContextEnds
    <3>4. CASE Fork
      BY <3>4 DEF Fork, PowerOf
    <3>5. CASE QemuExits
      BY <3>2, <3>5 DEF QemuExits, PowerOf
    <3>6. CASE KraftExits \/ ContextKills
      BY <3>6 DEF KraftExits, LeaderExits, ContextKills, PowerOf
    <3>7. CASE Reap
      BY <3>7 DEF Reap, PowerOf
    <3>8. CASE CloseExited
      BY <3>8 DEF CloseExited
    <3> QED BY <1>3, <3>3, <3>4, <3>5, <3>6, <3>7, <3>8 DEF Processes
  <2> QED BY <1>1, <2>1, SliceImplements
<1>4. ASSUME NEW s \in Stoppers, StopSlice(s) PROVE Life!Next \/ UNCHANGED Life!lifeVars
  <2>1. leader # "none"
    <3>1. post = "done"
      BY <1>4 DEF StopSlice, QemuInv, PostInv
    <3> QED BY <3>1 DEF QemuInv, PostInv
  <2>2. leader' # "none" /\ (PowerOf = "dead" => PowerOf' = "dead")
    BY <1>4, <2>1 DEF StopSlice, Interrupt, StopStep, Graceful, ForceKill, Drain, PowerOf
  <2> QED BY <1>1, <2>1, <2>2, SliceImplements
<1> QED BY <1>3, <1>4

(* What stoppers do beyond Stop, they do to a guest that is stopped.       *)
LEMMA StopperImplements ==
  ASSUME NEW s \in Stoppers, QemuInv, QemuInv', Load(s) \/ Beyond(s)
  PROVE  Life!Next \/ UNCHANGED Life!lifeVars
<1>1. CASE Load(s)
  BY <1>1, LifeStutters DEF Load, slice, vars, disk, LifeOf, PowerOf
<1>2. ASSUME Beyond(s) PROVE Life!Next \/ UNCHANGED Life!lifeVars
  <2>1. post = "done" /\ post' = "done" /\ PowerOf' = PowerOf
    BY <1>2, BeyondFrame DEF Beyond, ShredOpen, ShredZero, ShredUnlink, RegisterAudit, Forget,
       slice, vars, PowerOf
  <2>2. spc[s] # "stop" => PowerOf = "dead"
    <3> SUFFICES ASSUME spc[s] # "stop" PROVE PowerOf = "dead"
      OBVIOUS
    <3>1. pc[s] = "returned"
      BY <1>2 DEF Beyond, ShredOpen, ShredZero, ShredUnlink, RegisterAudit, Forget, ShredFails,
                  Move, QemuInv, StopInv
    <3>2. leader = "reaped" /\ qemu # "running"
      BY <3>1 DEF QemuInv, SliceInv, ReturnInv, WaiterInv
    <3> QED BY <3>2 DEF PowerOf
  <2>3. CASE ShredOpen(s) \/ ShredZero(s)
    BY <2>1, <2>3, LifeStutters DEF ShredOpen, ShredZero, disk, LifeOf
  <2>4. CASE ShredUnlink(s)
    <3>1. spc[s] = "unlink" /\ UNCHANGED <<vms, audits>>
      BY <2>4 DEF ShredUnlink, ShredFails, Move
    <3>2. CASE overlay # "none" /\ overlay' = "none"
      <4>1. Life!DestroyDisk(1)
        BY <2>1, <2>2, <3>1, <3>2 DEF Life!DestroyDisk, LifeOf
      <4> QED BY <4>1 DEF Life!Next
    <3>3. CASE overlay' = overlay
      BY <2>1, <3>1, <3>3, LifeStutters DEF LifeOf
    <3> QED BY <2>4, <3>2, <3>3 DEF ShredUnlink, disk
  <2>5. CASE RegisterAudit(s)
    <3>1. spc[s] = "audit" /\ UNCHANGED <<vms, overlay>> /\ audits' = audits + 1
      BY <2>5 DEF RegisterAudit, Move, disk
    <3>2. audits = 0 /\ overlay = "none"
      BY <3>1 DEF QemuInv, AuditInv
    <3>4. LifeOf' = LifeOf /\ LifeOf \in {"registered", "gone"}
      BY <2>1, <3>1 DEF LifeOf, QemuInv, Typed
    <3>5. audits' = 1
      BY <3>1, <3>2
    <3>6. (overlay' # "none") = (overlay # "none")
      BY <3>1
    <3>3. Life!Record(1)
      BY <2>1, <3>2, <3>4, <3>5, <3>6 DEF Life!Record
    <3> QED BY <3>3 DEF Life!Next
  <2>6. CASE Forget(s)
    <3>1. spc[s] = "forget" /\ UNCHANGED <<overlay, audits>> /\ vms' = FALSE
      BY <2>6 DEF Forget, Move, disk
    <3>2. CASE vms
      <4>1. Life!Drop(1)
        BY <2>1, <2>2, <3>1, <3>2 DEF Life!Drop, Life!Becomes, LifeOf
      <4> QED BY <4>1 DEF Life!Next
    <3>3. CASE ~vms
      BY <2>1, <3>1, <3>3, LifeStutters DEF LifeOf
    <3> QED BY <3>2, <3>3
  <2> QED BY <1>2, <2>3, <2>4, <2>5, <2>6 DEF Beyond
<1> QED BY <1>1, <1>2

(* A QEMU instance, with any number of stoppers and under every fault,     *)
(* lives as the driver contract of InstanceLife says.                      *)
THEOREM QemuImplementsLife == QemuSpec => ImplementsLife
<1>1. QemuInit => Life!Init
  BY DEF QemuInit, Init, Life!Init, LifeOf, PowerOf
<1>2. QemuInv /\ QemuInv' /\ [QemuNext]_qemuVars => [Life!Next]_(Life!lifeVars)
  <2> SUFFICES ASSUME QemuInv, QemuInv', QemuNext \/ UNCHANGED qemuVars
      PROVE  Life!Next \/ UNCHANGED Life!lifeVars
    OBVIOUS
  <2>1. CASE UNCHANGED qemuVars \/ NoneAtWork
    BY <2>1, LifeStutters DEF NoneAtWork, qemuVars, slice, vars, disk, LifeOf, PowerOf
  <2>2. CASE HandleCreate \/ PostStep
    BY <2>2, PostImplements
  <2>3. CASE RequestEnds \/ Processes
    BY <2>3, RunImplements
  <2>4. ASSUME NEW s \in Stoppers, Load(s) \/ StopperStep(s)
        PROVE  Life!Next \/ UNCHANGED Life!lifeVars
    BY <2>4, RunImplements, StopperImplements DEF StopperStep, Beyond
  <2> QED BY <2>1, <2>2, <2>3, <2>4 DEF QemuNext
<1> QED BY <1>1, <1>2, QemuAlways, PTL DEF QemuSpec, Life!Spec, ImplementsLife

=============================================================================
