----------------------- MODULE FirecrackerDaemonProofs -----------------------
(***************************************************************************)
(* The daemon with any number of instances and of concurrent DELETEs, and  *)
(* with every fault the model has.                                         *)
(***************************************************************************)
EXTENDS FirecrackerDaemon, TLAPS

(* A stopper has an instance in hand exactly while it is not idle. *)
TargetOK == \A s \in Stoppers : spc[s] = "idle" <=> tgt[s] = NoTarget

Typed == TypeOK /\ TargetOK

-----------------------------------------------------------------------------

LEMMA IdsAreNumbers == Ids \subseteq Nat /\ NoTarget \notin Ids
  BY DaemonAssumption DEF Ids, NoTarget

LEMMA TypedInit == Init => Typed
  BY DaemonAssumption
     DEF Init, Typed, TypeOK, TargetOK, LaunchPcs, StopPcs, Alive, NoTarget

(* Steps of a launch keep every variable in its type. *)
LEMMA TypedLaunch ==
  ASSUME Typed, NEW n \in Ids, HandleCreate(n) \/ LaunchStep(n)
  PROVE  Typed'
<1> USE DEF Typed, TypeOK, TargetOK, Goto, server, posts, process, host, stops, log,
            LaunchPcs, Launching, Undoing, Launched, Alive
<1>1. CASE HandleCreate(n)
  BY <1>1, DaemonAssumption DEF HandleCreate, Ids
<1>2. CASE SetupBridge(n)
  BY <1>2 DEF SetupBridge
<1>3. CASE CreateTAP(n)
  <2>1. taps' \subseteq TapNames
    <3>1. TapName(n) \in TapNames
      BY DEF TapNames
    <3>2. taps' = taps \/ taps' = taps \cup {TapName(n)}
      BY <1>3 DEF CreateTAP
    <3> QED BY <3>1, <3>2
  <2> QED BY <1>3, <2>1 DEF CreateTAP, CutShort
<1>4. CASE AttachTAP(n)
  BY <1>4 DEF AttachTAP
<1>5. CASE CopyImage(n)
  BY <1>5 DEF CopyImage
<1>6. CASE StartProcess(n)
  BY <1>6 DEF StartProcess
<1>7. CASE AwaitSocket(n)
  BY <1>7 DEF AwaitSocket
<1>8. CASE Configure(n)
  BY <1>8 DEF Configure
<1>9. CASE StartVM(n)
  BY <1>9 DEF StartVM, CutShort
<1>10. CASE UndoTerm(n)
  BY <1>10 DEF UndoTerm, Terminate
<1>11. CASE UndoStop(n)
  BY <1>11 DEF UndoStop, StopReturns
<1>12. CASE UndoOverlay(n)
  BY <1>12 DEF UndoOverlay
<1>13. CASE UndoTAP(n)
  BY <1>13 DEF UndoTAP, LinkDeleted, LinkNotDeleted
<1>14. CASE Store(n) \/ Reply(n)
  BY <1>14 DEF Store, Reply
<1> QED
  BY <1>1, <1>2, <1>3, <1>4, <1>5, <1>6, <1>7, <1>8, <1>9, <1>10, <1>11, <1>12, <1>13, <1>14
     DEF LaunchStep

(* ... and so do the steps of a stopper, whose target is an instance. *)
LEMMA TypedStop ==
  ASSUME Typed, NEW s \in Stoppers, StopStep(s)
  PROVE  Typed'
<1> USE DEF Typed, TypeOK, TargetOK, Step, Rest, Move,
            server, posts, process, host, stops, log, StopPcs
<1>0. spc[s] # "idle" => tgt[s] \in Ids
  OBVIOUS
<1>1. CASE StopTerm(s)
  BY <1>1 DEF StopTerm, Terminate
<1>2. CASE StopWait(s)
  BY <1>2 DEF StopWait, StopReturns
<1>3. CASE ShredOpen(s)
  BY <1>3 DEF ShredOpen, ShredFails
<1>4. CASE ShredZero(s)
  BY <1>4 DEF ShredZero, ShredFails
<1>5. CASE ShredUnlink(s)
  BY <1>0, <1>5 DEF ShredUnlink, ShredFails
<1>6. CASE RegisterAudit(s)
  BY <1>0, <1>6 DEF RegisterAudit
<1>7. CASE ReleaseTAP(s)
  BY <1>7 DEF ReleaseTAP, LinkDeleted, LinkNotDeleted
<1>8. CASE Forget(s)
  BY <1>0, <1>8 DEF Forget
<1> QED
  BY <1>1, <1>2, <1>3, <1>4, <1>5, <1>6, <1>7, <1>8 DEF StopStep

(* ... and those that begin or end a DELETE or a StopAll, and the          *)
(* environment's.                                                          *)
LEMMA TypedRest ==
  ASSUME Typed, [Next]_vars,
         ~ \E n \in Ids : HandleCreate(n) \/ LaunchStep(n),
         ~ \E s \in Stoppers : StopStep(s)
  PROVE  Typed'
<1> USE DEF Typed, TypeOK, TargetOK, server, posts, process, host, stops, log
<1>1. ASSUME NEW s \in Stoppers, NEW n \in Ids, Take(s, n), visited' \subseteq Ids PROVE Typed'
  BY <1>1, IdsAreNumbers DEF Take, Move, StopPcs
<1>2. ASSUME NEW s \in Stoppers, NEW n \in Ids, HandleDelete(s, n) PROVE Typed'
  BY <1>1, <1>2 DEF HandleDelete
<1>3. ASSUME NEW n \in Ids, RangeVisits(n) PROVE Typed'
  BY <1>1, <1>3 DEF RangeVisits, Stoppers
<1>4. CASE StopAll \/ RangeEnds
  BY <1>4 DEF StopAll, RangeEnds
<1>5. ASSUME NEW n \in Ids,
             \/ HandlerReturned(n) \/ ClientDisconnects(n) \/ ContextKills(n)
      PROVE  Typed'
  BY <1>5 DEF HandlerReturned, ClientDisconnects, ContextKills
<1>6. ASSUME NEW n \in Ids, VmmListens(n) \/ VmmKilled(n) \/ VmmCrashes(n) \/ GuestWrites(n)
      PROVE  Typed'
  BY <1>6 DEF VmmListens, VmmKilled, VmmCrashes, VmmExits, GuestWrites, Alive
<1>7. CASE UNCHANGED vars
  BY <1>7 DEF vars
<1> QED
  BY <1>2, <1>3, <1>4, <1>5, <1>6, <1>7 DEF Next, AwaitRequest

LEMMA TypedStep == Typed /\ [Next]_vars => Typed'
  BY TypedLaunch, TypedStop, TypedRest

(* The state of the daemon and its host always has its type. *)
THEOREM TypeCorrect == Spec => []TypeOK
<1>1. Spec => []Typed
  BY TypedInit, TypedStep, PTL DEF Spec
<1>2. Typed => TypeOK
  BY DEF Typed
<1> QED BY <1>1, <1>2, PTL

-----------------------------------------------------------------------------
(***************************************************************************)
(* The inductive invariant                                                 *)
(***************************************************************************)

(* AllocateTAP truncates no name: true of the first 9999 ids.              *)
NamesFit == MaxSeq < Base ^ Room

LEMMA NamesDistinct ==
  ASSUME NamesFit, NEW m \in Ids, NEW n \in Ids, TapName(m) = TapName(n)
  PROVE  m = n
BY NamingAssumption, DaemonAssumption DEF NamesFit, TapName, Ids

(* Launches that own their TAP device, and those that have none yet. *)
Holding  == {"attach", "copy", "spawn", "socket", "config", "boot", "store"} \cup Undoing
Unnamed  == {"idle", "bridge", "tap"}
Unspawned == Unnamed \cup {"attach", "copy", "spawn"}
Imaged   == {"spawn", "socket", "config", "boot", "store"}
Stored   == {"reply", "done"}
Withdrawing == {"open", "zero", "unlink", "audit", "release", "forget"}

(* Before vms.Store nobody but its launch knows the instance. *)
PrivateInv ==
  \A n \in Ids : lpc[n] \notin Stored =>
    /\ n \notin vms /\ audits[n] = 0 /\ deletes[n] = 0
    /\ \A s \in Stoppers : tgt[s] # n

(* Whoever withdraws an instance's resources has stopped its VMM, and a    *)
(* launch that has come past its device has none of an earlier daemon's.   *)
VmmInv ==
  /\ \A n \in Ids : lpc[n] \in Unspawned \ Unnamed => Ended(n)
  /\ \A n \in Ids : lpc[n] \in {"undo.remove", "undo.tap"} => Stopped(n)
  /\ \A s \in Stoppers : spc[s] \in Withdrawing => Stopped(tgt[s])

(* What an earlier daemon left running has its device.                     *)
Shielded == \A n \in Ids : lpc[n] \in Unnamed => Ended(n) \/ TapName(n) \in taps

(* A launch in progress owns its TAP device; a registered instance has it  *)
(* or a stopper that deleted it; a VMM that was not stopped has it.        *)
TapInv ==
  /\ Shielded
  /\ \A n \in Ids : ~Stopped(n) => TapName(n) \in taps
  /\ \A n \in Ids : lpc[n] \in Holding => TapName(n) \in taps
  /\ NeverWedged

(* A DELETE that is about to answer 204 has deleted the device, which only *)
(* one can.                                                                *)
DeleteInv ==
  /\ \A s \in Deleters : spc[s] = "forget" =>
       TapName(tgt[s]) \notin taps /\ deletes[tgt[s]] = 0
  /\ \A s, u \in Deleters :
       spc[s] = "forget" /\ spc[u] = "forget" /\ tgt[s] = tgt[u] => s = u
  /\ OneSuccessfulDelete

(* The overlay is there from the copy on until a stopper unlinks it, and   *)
(* only that stopper goes on to register an audit.                         *)
AuditInv ==
  /\ \A n \in Ids : lpc[n] \in Imaged => overlay[n] # "none"
  /\ \A n \in Ids : audits[n] = 1 => overlay[n] = "none"
  /\ \A s \in Stoppers : spc[s] = "audit" => overlay[tgt[s]] = "none" /\ audits[tgt[s]] = 0
  /\ \A s, u \in Stoppers :
       spc[s] = "audit" /\ spc[u] = "audit" /\ tgt[s] = tgt[u] => s = u
  /\ DestructionAudited

-----------------------------------------------------------------------------

(* A step of a launch concerns its own instance alone ...                  *)
LEMMA LaunchFrame ==
  ASSUME Typed, NEW n \in Ids, HandleCreate(n) \/ LaunchStep(n)
  PROVE  /\ UNCHANGED <<spc, tgt, sweep, due, visited, faults, audits, deletes>>
         /\ \A m \in Ids : m # n =>
              /\ lpc'[m] = lpc[m] /\ overlay'[m] = overlay[m]
              /\ vmm'[m] = vmm[m] /\ sig'[m] = sig[m]
         /\ \/ vms' = vms
            \/ vms' = vms \cup {n} /\ lpc[n] = "store" /\ lpc'[n] = "reply" /\ taps' = taps
         /\ \A x : x # TapName(n) => (x \in taps' <=> x \in taps)
<1> USE DEF Typed, TypeOK, Goto, server, posts, process, host, stops, log
<1>1. CASE HandleCreate(n)
  BY <1>1 DEF HandleCreate
<1>2. CASE SetupBridge(n) \/ CreateTAP(n) \/ AttachTAP(n)
  BY <1>2 DEF SetupBridge, CreateTAP, AttachTAP
<1>3. CASE CopyImage(n) \/ StartProcess(n) \/ AwaitSocket(n) \/ Configure(n) \/ StartVM(n)
  BY <1>3 DEF CopyImage, StartProcess, AwaitSocket, Configure, StartVM
<1>4. CASE UndoTerm(n) \/ UndoStop(n) \/ UndoOverlay(n)
  BY <1>4 DEF UndoTerm, UndoStop, UndoOverlay, Terminate, StopReturns
<1>5. CASE UndoTAP(n)
  BY <1>5 DEF UndoTAP, LinkDeleted, LinkNotDeleted
<1>6. CASE Store(n) \/ Reply(n)
  BY <1>6 DEF Store, Reply
<1> QED BY <1>1, <1>2, <1>3, <1>4, <1>5, <1>6 DEF LaunchStep

(* ... a step of a stopper its target ...                                  *)
LEMMA StopFrame ==
  ASSUME Typed, NEW s \in Stoppers, StopStep(s)
  PROVE  /\ UNCHANGED <<lpc, vmm, sweep, due, visited, faults>>
         /\ spc[s] # "idle" /\ tgt[s] \in Ids
         /\ tgt'[s] = tgt[s] \/ (tgt'[s] = NoTarget /\ spc'[s] = "idle")
         /\ \A u \in Stoppers : u # s => spc'[u] = spc[u] /\ tgt'[u] = tgt[u]
         /\ \A m \in Ids : m # tgt[s] =>
              /\ overlay'[m] = overlay[m] /\ sig'[m] = sig[m]
              /\ audits'[m] = audits[m] /\ deletes'[m] = deletes[m]
         /\ \A m : m # tgt[s] => (m \in vms' <=> m \in vms)
         /\ vms' \subseteq vms /\ taps' \subseteq taps
         /\ \A x : x # TapName(tgt[s]) => (x \in taps' <=> x \in taps)
<1> USE DEF Typed, TypeOK, TargetOK, Step, Rest, Move,
            server, posts, process, host, stops, log
<1>1. CASE StopTerm(s) \/ StopWait(s)
  BY <1>1 DEF StopTerm, StopWait, Terminate, StopReturns
<1>2. CASE ShredOpen(s) \/ ShredZero(s)
  BY <1>2 DEF ShredOpen, ShredZero, ShredFails
<1>3. CASE ShredUnlink(s) \/ RegisterAudit(s)
  BY <1>3 DEF ShredUnlink, ShredFails, RegisterAudit
<1>4. CASE ReleaseTAP(s)
  BY <1>4 DEF ReleaseTAP, LinkDeleted, LinkNotDeleted
<1>5. CASE Forget(s)
  BY <1>5 DEF Forget
<1> QED BY <1>1, <1>2, <1>3, <1>4, <1>5 DEF StopStep

(* ... and the other steps touch neither the devices nor the records. A    *)
(* stopper that starts takes an instance from the registry.                *)
OtherStep ==
  /\ [Next]_vars
  /\ ~ \E n \in Ids : HandleCreate(n) \/ LaunchStep(n)
  /\ ~ \E s \in Stoppers : StopStep(s)

LEMMA OtherFrame ==
  ASSUME Typed, OtherStep
  PROVE  /\ UNCHANGED <<vms, lpc, taps, audits, deletes>>
         /\ \A s \in Stoppers :
              \/ spc'[s] = spc[s] /\ tgt'[s] = tgt[s]
              \/ spc[s] = "idle" /\ spc'[s] = "term" /\ tgt'[s] \in vms
         /\ \A m \in Ids :
              /\ overlay'[m] = "none" <=> overlay[m] = "none"
              /\ vmm'[m] = "none" <=> vmm[m] = "none"
              /\ vmm[m] \notin Alive => vmm'[m] \notin Alive
              /\ sig'[m] = sig[m] \/ sig'[m] = "KILL"
<1> USE DEF Typed, TypeOK, server, posts, process, host, stops, log, Alive
<1>1. ASSUME NEW s \in Stoppers, NEW n \in Ids, Take(s, n)
      PROVE  /\ UNCHANGED <<vms, lpc, taps, audits, deletes, overlay, vmm, sig>>
             /\ \A u \in Stoppers :
                  \/ spc'[u] = spc[u] /\ tgt'[u] = tgt[u]
                  \/ spc[u] = "idle" /\ spc'[u] = "term" /\ tgt'[u] \in vms
  BY <1>1 DEF Take, Move
<1>2. ASSUME NEW s \in Stoppers, NEW n \in Ids, HandleDelete(s, n) PROVE Take(s, n)
  BY <1>2 DEF HandleDelete
<1>3. ASSUME NEW n \in Ids, RangeVisits(n) PROVE Take(Sweeper, n) /\ Sweeper \in Stoppers
  BY <1>3 DEF RangeVisits, Stoppers
<1>4. CASE StopAll \/ RangeEnds
  BY <1>4 DEF StopAll, RangeEnds
<1>5. ASSUME NEW n \in Ids,
             \/ HandlerReturned(n) \/ ClientDisconnects(n) \/ ContextKills(n)
      PROVE  /\ UNCHANGED <<vms, lpc, taps, audits, deletes, spc, tgt, overlay, vmm>>
             /\ \A m \in Ids : sig'[m] = sig[m] \/ sig'[m] = "KILL"
  BY <1>5 DEF HandlerReturned, ClientDisconnects, ContextKills
<1>6. ASSUME NEW n \in Ids, VmmListens(n) \/ VmmKilled(n) \/ VmmCrashes(n)
      PROVE  /\ UNCHANGED <<vms, lpc, taps, audits, deletes, spc, tgt, overlay, sig>>
             /\ \A m \in Ids : /\ vmm'[m] = "none" <=> vmm[m] = "none"
                               /\ vmm[m] \notin Alive => vmm'[m] \notin Alive
  BY <1>6 DEF VmmListens, VmmKilled, VmmCrashes, VmmExits
<1>7. ASSUME NEW n \in Ids, GuestWrites(n)
      PROVE  /\ UNCHANGED <<vms, lpc, taps, audits, deletes, spc, tgt, vmm, sig>>
             /\ \A m \in Ids : overlay'[m] = "none" <=> overlay[m] = "none"
  BY <1>7 DEF GuestWrites
<1>8. CASE UNCHANGED vars
  BY <1>8 DEF vars
<1>9. \/ \E n \in Ids, s \in Stoppers : Take(s, n)
      \/ StopAll \/ RangeEnds \/ UNCHANGED vars
      \/ \E n \in Ids : \/ HandlerReturned(n) \/ ClientDisconnects(n) \/ ContextKills(n)
                        \/ VmmListens(n) \/ VmmKilled(n) \/ VmmCrashes(n)
                        \/ GuestWrites(n)
  BY <1>2, <1>3 DEF OtherStep, Next, AwaitRequest
<1> QED BY <1>1, <1>4, <1>5, <1>6, <1>7, <1>8, <1>9

-----------------------------------------------------------------------------

(* The parts that hold whatever the devices are called, and all.           *)
CoreInv == Typed /\ PrivateInv /\ VmmInv /\ AuditInv

Inv == Typed /\ PrivateInv /\ VmmInv /\ TapInv /\ DeleteInv /\ AuditInv

LEMMA InvInit == Init => Inv
<1> SUFFICES ASSUME Init PROVE Inv
  OBVIOUS
<1>1. Typed
  BY TypedInit
<1>2. PrivateInv /\ VmmInv
  BY IdsAreNumbers DEF Init, PrivateInv, VmmInv, Withdrawing, Ended, Alive
<1>3. TapInv
  BY DEF Init, TapInv, Shielded, NeverWedged, Holding, Undoing, Stopped, Ended, Alive
<1>4. DeleteInv /\ AuditInv
  BY DEF Init, DeleteInv, AuditInv, OneSuccessfulDelete, DestructionAudited, Imaged, Stoppers,
         Launched
<1> QED BY <1>1, <1>2, <1>3, <1>4 DEF Inv

(* The environment's steps and those that begin or end a DELETE or a       *)
(* StopAll.                                                                *)
LEMMA CoreOther ==
  ASSUME CoreInv, OtherStep
  PROVE  CoreInv'
<1>0. Typed
  BY DEF CoreInv
<1>1. Typed'
  BY <1>0, TypedRest DEF OtherStep
<1> USE <1>0, OtherFrame
<1>2. PrivateInv'
  BY DEF CoreInv, PrivateInv
<1>3. \A n \in Ids : Stopped(n) => Stopped(n)'
  BY DEF Stopped, Ended
<1>4. VmmInv'
  <2>1. \A s \in Stoppers : spc'[s] \in Withdrawing => spc'[s] = spc[s] /\ tgt'[s] = tgt[s]
    BY DEF Withdrawing
  <2>2. \A s \in Stoppers : spc[s] \in Withdrawing => tgt[s] \in Ids
    BY DEF Typed, TypeOK, TargetOK, Withdrawing
  <2> QED BY <1>3, <2>1, <2>2 DEF CoreInv, VmmInv, Ended
<1>5. AuditInv'
  <2>1. \A s \in Stoppers : spc'[s] = "audit" => spc[s] = "audit" /\ tgt'[s] = tgt[s]
    OBVIOUS
  <2>2. \A n \in Ids, s \in Stoppers : At(s, n, "audit")' <=> At(s, n, "audit")
    BY DEF At, CoreInv, PrivateInv
  <2>3. DestructionAudited'
    BY <2>2 DEF CoreInv, AuditInv, DestructionAudited
  <2>4. \A s \in Stoppers : spc[s] = "audit" => tgt[s] \in Ids
    BY DEF Typed, TypeOK, TargetOK
  <2> QED BY <2>1, <2>3, <2>4 DEF CoreInv, AuditInv
<1> QED BY <1>1, <1>2, <1>4, <1>5 DEF CoreInv

LEMMA InvOther ==
  ASSUME Inv, OtherStep
  PROVE  Inv'
<1>0. Typed
  BY DEF Inv
<1>1. CoreInv'
  BY CoreOther DEF Inv, CoreInv
<1> USE <1>0, OtherFrame
<1>3. \A n \in Ids : Stopped(n) => Stopped(n)'
  BY DEF Stopped, Ended
<1>5. TapInv'
  <2>1. NeverWedged'
    BY DEF Inv, TapInv, NeverWedged, At
  <2> QED BY <1>3, <2>1 DEF Inv, TapInv, Shielded, Ended
<1>6. DeleteInv'
  <2>1. \A s \in Stoppers : spc'[s] = "forget" => spc[s] = "forget" /\ tgt'[s] = tgt[s]
    OBVIOUS
  <2>2. Deleters \subseteq Stoppers
    BY DEF Stoppers
  <2>3. OneSuccessfulDelete'
    BY <1>3 DEF Inv, DeleteInv, OneSuccessfulDelete
  <2> QED BY <2>1, <2>2, <2>3 DEF Inv, DeleteInv
<1> QED BY <1>1, <1>5, <1>6 DEF Inv, CoreInv

(* Stopped is for good, but for a launch that starts its VMM.              *)
LEMMA StoppedStays ==
  ASSUME Typed, NEW s \in Stoppers, StopStep(s), NEW n \in Ids, Stopped(n)
  PROVE  Stopped(n)'
<1> USE DEF Typed, TypeOK, Step, Rest, Move, process, host, stops, Stopped, Ended
<1>1. CASE StopTerm(s)
  BY <1>1 DEF StopTerm, Terminate
<1>2. CASE StopWait(s)
  BY <1>2 DEF StopWait, StopReturns
<1>3. CASE ShredOpen(s) \/ ShredZero(s) \/ ShredUnlink(s) \/ RegisterAudit(s)
  BY <1>3 DEF ShredOpen, ShredZero, ShredUnlink, RegisterAudit
<1>4. CASE ReleaseTAP(s) \/ Forget(s)
  BY <1>4 DEF ReleaseTAP, Forget
<1> QED BY <1>1, <1>2, <1>3, <1>4 DEF StopStep

(* The steps of a stopper. *)
LEMMA CoreStop ==
  ASSUME CoreInv, NEW s \in Stoppers, StopStep(s)
  PROVE  CoreInv'
<1>0. Typed /\ PrivateInv /\ VmmInv /\ AuditInv
  BY DEF CoreInv
<1>1. Typed'
  BY <1>0, TypedStop
<1> USE <1>0, StopFrame
<1>2. PICK t \in Ids : t = tgt[s] /\ lpc[t] \in Stored
  BY DEF PrivateInv
<1>3. PrivateInv'
  <2>1. NoTarget \notin Ids
    BY IdsAreNumbers
  <2> QED BY <1>2, <2>1 DEF PrivateInv
<1>4. VmmInv'
  <2>1. spc'[s] \in Withdrawing => tgt'[s] = t
    BY <1>2 DEF Withdrawing
  <2>2. CASE StopWait(s)
    <3>1. Stopped(t)'
      BY <1>2, <2>2 DEF StopWait, StopReturns, Stopped, Ended, Typed, TypeOK
    <3> QED BY <1>2, <2>1, <3>1, StoppedStays
            DEF VmmInv, Stored, Unspawned, Unnamed, Withdrawing, Ended, Typed, TypeOK, TargetOK
  <2>3. CASE ~StopWait(s)
    <3>1. spc'[s] \in Withdrawing => spc[s] \in Withdrawing
      BY <2>3 DEF StopStep, StopTerm, ShredOpen, ShredZero, ShredUnlink, ShredFails, RegisterAudit,
                  ReleaseTAP, Forget, Step, Rest, Move, Withdrawing, Typed, TypeOK
    <3> QED BY <1>2, <2>1, <3>1, StoppedStays
            DEF VmmInv, Withdrawing, Ended, Typed, TypeOK, TargetOK
  <2> QED BY <2>2, <2>3
<1>5. AuditInv'
  <2>1. CASE ShredUnlink(s)
    <3>1. audits' = audits /\ spc[s] = "unlink"
      BY <2>1 DEF ShredUnlink, ShredFails, Step, Move, log
    <3>2. \/ /\ overlay[t] # "none" /\ overlay'[t] = "none"
             /\ spc'[s] = "audit" /\ tgt'[s] = t
          \/ overlay' = overlay /\ spc'[s] = "release"
      BY <1>2, <2>1 DEF ShredUnlink, ShredFails, Step, Move, Typed, TypeOK
    <3>3. CASE overlay' = overlay /\ spc'[s] = "release"
      BY <3>1, <3>3 DEF AuditInv, DestructionAudited, At
    <3>4. CASE /\ overlay[t] # "none" /\ overlay'[t] = "none"
               /\ spc'[s] = "audit" /\ tgt'[s] = t
      <4>1. audits[t] = 0 /\ \A u \in Stoppers : ~At(u, t, "audit")
        <5>1. audits[t] \in Nat /\ audits[t] <= 1 /\ audits[t] # 1
          BY <1>2, <3>4 DEF AuditInv, DestructionAudited, Typed, TypeOK
        <5>2. \A u \in Stoppers : ~At(u, t, "audit")
          BY <1>2, <3>4 DEF AuditInv, At
        <5> QED BY <5>1, <5>2
      <4>2. \A u \in Stoppers : u # s => (spc'[u] = "audit" => tgt'[u] # t)
        BY <4>1 DEF At
      <4>3. \A n \in Ids : overlay'[n] # "none" => overlay[n] # "none"
        BY <1>2, <3>4
      <4>4. \A n \in Ids : lpc[n] \in Imaged => overlay'[n] # "none"
        BY <1>2 DEF AuditInv, Imaged, Stored
      <4>5. DestructionAudited'
        <5> SUFFICES ASSUME NEW n \in Ids
                     PROVE  /\ audits'[n] <= 1
                            /\ lpc'[n] \in Launched =>
                                 (overlay'[n] = "none" <=>
                                  audits'[n] = 1 \/ \E u \in Stoppers : At(u, n, "audit")')
          BY DEF DestructionAudited
        <5>1. CASE n = t
          BY <3>1, <3>4, <5>1 DEF AuditInv, DestructionAudited, At
        <5>2. CASE n # t
          BY <1>2, <3>1, <3>4, <5>2 DEF AuditInv, DestructionAudited, At
        <5> QED BY <5>1, <5>2
      <4>6. \A u \in Stoppers : spc'[u] = "audit" =>
              overlay'[tgt'[u]] = "none" /\ audits'[tgt'[u]] = 0
        <5> SUFFICES ASSUME NEW u \in Stoppers, u # s, spc'[u] = "audit"
                     PROVE  overlay'[tgt'[u]] = "none" /\ audits'[tgt'[u]] = 0
          BY <3>1, <3>4, <4>1
        <5>1. tgt[u] \in Ids /\ tgt'[u] = tgt[u] /\ spc[u] = "audit"
          BY DEF Typed, TypeOK, TargetOK
        <5> QED BY <3>1, <4>3, <5>1 DEF AuditInv
      <4>7. \A n \in Ids : audits'[n] = 1 => overlay'[n] = "none"
        BY <3>1, <4>3 DEF AuditInv
      <4> QED BY <3>4, <4>2, <4>4, <4>5, <4>6, <4>7 DEF AuditInv
    <3> QED BY <3>2, <3>3, <3>4
  <2>2. CASE RegisterAudit(s)
    <3>1. overlay' = overlay /\ spc[s] = "audit" /\ spc'[s] = "release" /\ tgt' = tgt
      BY <2>2 DEF RegisterAudit, Step, Move, host, Typed, TypeOK
    <3>2. audits[t] = 0 /\ overlay[t] = "none"
      BY <1>2, <3>1 DEF AuditInv
    <3>3. audits'[t] = 1
      BY <1>2, <2>2, <3>2 DEF RegisterAudit, Typed, TypeOK
    <3>4. \A u \in Stoppers : u # s /\ spc[u] = "audit" => tgt[u] # t
      BY <1>2, <3>1 DEF AuditInv
    <3>5. DestructionAudited'
      <4> SUFFICES ASSUME NEW n \in Ids
                   PROVE  /\ audits'[n] <= 1
                          /\ lpc'[n] \in Launched =>
                               (overlay'[n] = "none" <=>
                                audits'[n] = 1 \/ \E u \in Stoppers : At(u, n, "audit")')
        BY DEF DestructionAudited
      <4>1. CASE n = t
        BY <3>1, <3>2, <3>3, <4>1
      <4>2. CASE n # t
        BY <1>2, <3>1, <4>2 DEF AuditInv, DestructionAudited, At
      <4> QED BY <4>1, <4>2
    <3>6. \A u \in Stoppers : spc'[u] = "audit" =>
            overlay'[tgt'[u]] = "none" /\ audits'[tgt'[u]] = 0
      <4> SUFFICES ASSUME NEW u \in Stoppers, u # s, spc'[u] = "audit"
                   PROVE  overlay'[tgt'[u]] = "none" /\ audits'[tgt'[u]] = 0
        BY <3>1
      <4>1. tgt[u] \in Ids /\ tgt[u] # t
        BY <3>4 DEF Typed, TypeOK, TargetOK
      <4> QED BY <1>2, <3>1, <4>1 DEF AuditInv
    <3>7. \A n \in Ids : audits'[n] = 1 => overlay'[n] = "none"
      BY <1>2, <3>1, <3>2 DEF AuditInv
    <3> QED BY <3>1, <3>5, <3>6, <3>7 DEF AuditInv
  <2>3. CASE ~ShredUnlink(s) /\ ~RegisterAudit(s)
    <3>1. audits' = audits /\ spc[s] # "audit" /\ spc'[s] # "audit"
      BY <2>3 DEF StopStep, StopTerm, StopWait, ShredOpen, ShredZero, ReleaseTAP, Forget,
                  ShredFails, Step, Rest, Move, log, Typed, TypeOK
    <3>2. \A n \in Ids : overlay'[n] = "none" <=> overlay[n] = "none"
      BY <2>3 DEF StopStep, StopTerm, StopWait, ShredOpen, ShredZero, ReleaseTAP, Forget, host,
                  Typed, TypeOK
    <3>3. \A u \in Stoppers : spc'[u] = "audit" =>
            spc[u] = "audit" /\ tgt'[u] = tgt[u] /\ tgt[u] \in Ids
      BY <3>1 DEF Typed, TypeOK, TargetOK
    <3>4. \A u \in Stoppers, n \in Ids : At(u, n, "audit")' <=> At(u, n, "audit")
      BY <3>1 DEF At
    <3>5. DestructionAudited'
      BY <3>1, <3>2, <3>4 DEF AuditInv, DestructionAudited
    <3> QED BY <3>1, <3>2, <3>3, <3>5 DEF AuditInv
  <2> QED BY <2>1, <2>2, <2>3
<1> QED BY <1>1, <1>3, <1>4, <1>5 DEF CoreInv

LEMMA InvStop ==
  ASSUME NamesFit, Inv, NEW s \in Stoppers, StopStep(s)
  PROVE  Inv'
<1>0. Typed /\ PrivateInv /\ VmmInv /\ TapInv /\ DeleteInv /\ AuditInv
  BY DEF Inv
<1>1. CoreInv'
  BY <1>0, CoreStop DEF CoreInv
<1> USE <1>0, StopFrame
<1>2. PICK t \in Ids : t = tgt[s] /\ lpc[t] \in Stored
  BY DEF PrivateInv
<1>5. TapInv'
  <2>1. \A n \in Ids : n # t => (TapName(n) \in taps' <=> TapName(n) \in taps)
    BY <1>2, NamesDistinct
  <2>2. \A n \in Ids : lpc[n] \in Unnamed \cup Holding => n # t
    BY <1>2 DEF Stored, Unnamed, Holding, Undoing
  <2>3. NeverWedged'
    <3>1. CASE ReleaseTAP(s)
      <4>1. taps' = taps \/ (spc'[s] = "forget" /\ tgt'[s] = t)
        BY <1>2, <3>1 DEF ReleaseTAP, LinkDeleted, LinkNotDeleted, Step, Move, Typed, TypeOK
      <4>2. spc[s] = "release"
        BY <3>1 DEF ReleaseTAP, Step, Rest, Move
      <4>3. vms' \subseteq Ids
        BY DEF Typed, TypeOK
      <4>4. ASSUME NEW n \in vms' PROVE TapName(n) \in taps' \/ \E u \in Stoppers : At(u, n, "forget")'
        <5>1. TapName(n) \in taps \/ \E u \in Stoppers : At(u, n, "forget")
          BY DEF TapInv, NeverWedged
        <5>2. CASE \E u \in Stoppers : At(u, n, "forget")
          BY <4>2, <5>2 DEF At
        <5>3. CASE TapName(n) \in taps /\ n = t
          BY <4>1, <5>3 DEF At
        <5>4. CASE TapName(n) \in taps /\ n # t
          BY <2>1, <4>3, <5>4
        <5> QED BY <5>1, <5>2, <5>3, <5>4
      <4> QED BY <4>4 DEF NeverWedged
    <3>2. CASE Forget(s)
      <4>1. vms' = vms \ {t} /\ taps' = taps
        BY <1>2, <3>2 DEF Forget, host
      <4> QED BY <1>2, <4>1 DEF TapInv, NeverWedged, At
    <3>3. CASE ~ReleaseTAP(s) /\ ~Forget(s)
      <4>1. vms' = vms /\ taps' = taps /\ spc[s] # "forget"
        BY <3>3 DEF StopStep, StopTerm, StopWait, ShredOpen, ShredZero, ShredUnlink, RegisterAudit,
                    ShredFails, Step, Move, server, host
      <4> QED BY <1>2, <4>1 DEF TapInv, NeverWedged, At
    <3> QED BY <3>1, <3>2, <3>3
  <2>4. ASSUME NEW n \in Ids, ~Stopped(n)' PROVE TapName(n) \in taps'
    <3>1. TapName(n) \in taps /\ ~Stopped(n)
      BY <2>4, StoppedStays DEF TapInv
    <3>2. CASE n = t
      <4>1. spc[s] \notin Withdrawing
        BY <1>2, <3>1, <3>2 DEF VmmInv
      <4>2. taps' = taps
        BY <4>1 DEF StopStep, StopTerm, StopWait, ShredOpen, ShredZero, ShredUnlink, RegisterAudit,
                    ReleaseTAP, Forget, ShredFails, Step, Rest, Move, host, Withdrawing
      <4> QED BY <3>1, <4>2
    <3>3. CASE n # t
      BY <2>1, <3>1, <3>3
    <3> QED BY <3>2, <3>3
  <2> QED BY <2>1, <2>2, <2>3, <2>4 DEF TapInv, Shielded, Ended
<1>t. \A n \in Ids : n # t => (TapName(n) \in taps' <=> TapName(n) \in taps)
  BY <1>2, NamesDistinct
<1>d. Deleters \subseteq Stoppers /\ Sweeper \notin Deleters
  BY DaemonAssumption DEF Stoppers
<1>6. DeleteInv'
  <2>1. CASE ReleaseTAP(s)
    <3>1. deletes' = deletes /\ vms' = vms
      BY <2>1 DEF ReleaseTAP, server, log
    <3>2. spc[s] = "release"
      BY <2>1 DEF ReleaseTAP, Step, Rest, Move
    <3>3. s \in Deleters /\ spc'[s] = "forget" =>
            TapName(t) \in taps /\ TapName(t) \notin taps' /\ tgt'[s] = t
      BY <1>2, <1>d, <2>1
         DEF ReleaseTAP, LinkDeleted, LinkNotDeleted, Step, Rest, Move, Typed, TypeOK
    <3>4. OneSuccessfulDelete'
      BY <3>1, StoppedStays DEF DeleteInv, OneSuccessfulDelete
    <3>5. ASSUME NEW u \in Deleters, spc'[u] = "forget"
          PROVE  TapName(tgt'[u]) \notin taps' /\ deletes'[tgt'[u]] = 0
      <4>1. CASE u = s
        BY <1>2, <3>1, <3>3, <3>5, <4>1 DEF DeleteInv, OneSuccessfulDelete, Typed, TypeOK
      <4>2. CASE u # s
        BY <1>d, <3>1, <3>5, <4>2 DEF DeleteInv
      <4> QED BY <4>1, <4>2
    <3>6. ASSUME NEW u \in Deleters, NEW w \in Deleters, u # w,
                 spc'[u] = "forget", spc'[w] = "forget", tgt'[u] = tgt'[w]
          PROVE  FALSE
      <4>1. CASE u # s /\ w # s
        BY <1>d, <3>6, <4>1 DEF DeleteInv
      <4>2. CASE u = s \/ w = s
        BY <1>2, <1>d, <3>3, <3>6, <4>2 DEF DeleteInv
      <4> QED BY <4>1, <4>2
    <3> QED BY <3>4, <3>5, <3>6 DEF DeleteInv
  <2>2. CASE Forget(s)
    <3>1. /\ spc[s] = "forget" /\ spc'[s] = "idle"
          /\ vms' = vms \ {t} /\ taps' = taps
          /\ IF s = Sweeper THEN deletes' = deletes
                            ELSE deletes' = [deletes EXCEPT ![t] = @ + 1]
      BY <1>2, <2>2 DEF Forget, Rest, Move, host, Typed, TypeOK
    <3>2. s # Sweeper => s \in Deleters
      BY DEF Stoppers
    <3>3. OneSuccessfulDelete'
      <4> SUFFICES ASSUME NEW n \in Ids
                   PROVE  /\ deletes'[n] <= 1
                          /\ deletes'[n] = 1 => /\ n \notin vms' /\ TapName(n) \notin taps'
                                               /\ Stopped(n)'
        BY DEF OneSuccessfulDelete
      <4>1. CASE n # t \/ s = Sweeper
        BY <1>2, <3>1, <4>1, StoppedStays DEF DeleteInv, OneSuccessfulDelete
      <4>2. CASE n = t /\ s # Sweeper
        <5>1. Stopped(t)
          BY <1>2, <3>1 DEF VmmInv, Withdrawing
        <5>2. deletes[t] = 0 /\ TapName(t) \notin taps
          BY <1>2, <3>1, <3>2, <4>2 DEF DeleteInv
        <5>3. deletes'[t] = 1
          BY <3>1, <4>2, <5>2 DEF Typed, TypeOK
        <5> QED BY <3>1, <4>2, <5>1, <5>2, <5>3, StoppedStays
      <4> QED BY <4>1, <4>2
    <3>4. ASSUME NEW u \in Deleters, spc'[u] = "forget"
          PROVE  TapName(tgt'[u]) \notin taps' /\ deletes'[tgt'[u]] = 0
      <4>1. u # s /\ spc[u] = "forget" /\ tgt'[u] = tgt[u] /\ tgt[u] \in Ids
        BY <1>d, <3>1, <3>4 DEF Typed, TypeOK, TargetOK
      <4>2. tgt[u] = t => s = Sweeper
        BY <1>2, <3>1, <3>2, <4>1 DEF DeleteInv
      <4> QED BY <1>2, <3>1, <4>1, <4>2 DEF DeleteInv
    <3> QED BY <1>d, <3>1, <3>3, <3>4 DEF DeleteInv
  <2>3. CASE ~ReleaseTAP(s) /\ ~Forget(s)
    <3>1. deletes' = deletes /\ vms' = vms /\ taps' = taps /\ spc'[s] # "forget"
      BY <2>3 DEF StopStep, StopTerm, StopWait, ShredOpen, ShredZero, ShredUnlink, RegisterAudit,
                  ShredFails, Step, Move, server, host, log, Typed, TypeOK
    <3> QED BY <1>d, <3>1, StoppedStays DEF DeleteInv, OneSuccessfulDelete
  <2> QED BY <2>1, <2>2, <2>3
<1> QED BY <1>1, <1>5, <1>6 DEF Inv, CoreInv

(* What a launch does to its own instance: where it owns the device, when  *)
(* it has a process and an overlay. Of a registered one it changes nothing.*)
LEMMA LaunchOwn ==
  ASSUME Typed, NEW n \in Ids, HandleCreate(n) \/ LaunchStep(n)
  PROVE  /\ lpc[n] \in Stored => UNCHANGED <<vms, taps, overlay, vmm, sig>> /\ lpc'[n] \in Stored
         /\ lpc'[n] \in Unnamed => lpc[n] \in Unnamed /\ taps' = taps
         /\ lpc'[n] \in Holding =>
              \/ TapName(n) \in taps'
              \/ lpc[n] \in Holding /\ taps' = taps
         /\ lpc'[n] \in Unspawned => lpc[n] \in Unspawned /\ vmm' = vmm
         /\ lpc[n] \in Unnamed /\ lpc'[n] \in Unspawned \ Unnamed => TapName(n) \notin taps
         /\ ~Stopped(n)' => ~Stopped(n) \/ lpc[n] = "spawn"
         /\ TapName(n) \in taps \ taps' => lpc[n] = "undo.tap" /\ UNCHANGED <<vmm, sig>>
         /\ lpc'[n] \in {"undo.remove", "undo.tap"} =>
              \/ lpc[n] \in (Unspawned \ Unnamed) \cup {"undo.remove", "undo.tap"}
                 /\ vmm' = vmm /\ sig' = sig
              \/ Stopped(n)'
         /\ lpc'[n] \in Imaged =>
              \/ lpc[n] = "copy" /\ overlay'[n] # "none"
              \/ lpc[n] \in Imaged /\ overlay' = overlay
         /\ lpc'[n] \in Launched => \/ lpc[n] = "boot" /\ lpc'[n] = "store"
                                       /\ UNCHANGED <<vms, overlay>>
                                    \/ lpc[n] = "store" /\ lpc'[n] = "reply"
                                       /\ vms' = vms \cup {n} /\ UNCHANGED <<taps, overlay>>
                                    \/ lpc[n] \in Stored
<1> USE DEF Typed, TypeOK, Goto, server, posts, process, host, stops, log, LaunchPcs, Launching,
            Launched, Undoing, Stored, Unnamed, Holding, Unspawned, Imaged
<1> USE DEF Stopped, Ended
<1>1. CASE HandleCreate(n) \/ SetupBridge(n)
  BY <1>1 DEF HandleCreate, SetupBridge
<1>2. CASE CreateTAP(n)
  BY <1>2 DEF CreateTAP
<1>3. CASE AttachTAP(n)
  BY <1>3 DEF AttachTAP
<1>4. CASE CopyImage(n)
  BY <1>4 DEF CopyImage
<1>5. CASE StartProcess(n)
  BY <1>5 DEF StartProcess
<1>6. CASE AwaitSocket(n) \/ Configure(n)
  BY <1>6 DEF AwaitSocket, Configure
<1>7. CASE StartVM(n)
  BY <1>7 DEF StartVM, Alive
<1>8. CASE UndoTerm(n)
  BY <1>8 DEF UndoTerm, Terminate
<1>9. CASE UndoStop(n)
  BY <1>9 DEF UndoStop, StopReturns
<1>10. CASE UndoOverlay(n)
  BY <1>10 DEF UndoOverlay
<1>11. CASE UndoTAP(n)
  BY <1>11 DEF UndoTAP, LinkDeleted, LinkNotDeleted
<1>12. CASE Store(n) \/ Reply(n)
  BY <1>12 DEF Store, Reply
<1> QED
  BY <1>1, <1>2, <1>3, <1>4, <1>5, <1>6, <1>7, <1>8, <1>9, <1>10, <1>11, <1>12 DEF LaunchStep

LEMMA CoreLaunch ==
  ASSUME CoreInv, Shielded, NEW n \in Ids, HandleCreate(n) \/ LaunchStep(n)
  PROVE  CoreInv'
<1>0. Typed /\ PrivateInv /\ VmmInv /\ AuditInv
  BY DEF CoreInv
<1>1. Typed'
  BY <1>0, TypedLaunch
<1> USE <1>0, LaunchFrame, LaunchOwn
<1>2. PrivateInv'
  <2>1. lpc'[n] \notin Stored => lpc[n] \notin Stored /\ vms' = vms
    BY DEF Stored
  <2> QED BY <2>1 DEF PrivateInv
<1>3. \A m \in Ids : m # n => (Stopped(m)' <=> Stopped(m))
  BY DEF Stopped, Ended
<1>4. \A s \in Stoppers : spc[s] # "idle" => tgt[s] \in Ids /\ lpc[tgt[s]] \in Stored
  BY DEF Typed, TypeOK, TargetOK, PrivateInv
<1>5. lpc[n] \notin Stored =>
        n \notin vms /\ audits[n] = 0 /\ deletes[n] = 0 /\ \A s \in Stoppers : tgt[s] # n
  BY DEF PrivateInv
<1>6. lpc[n] \in Stored => UNCHANGED <<vms, taps, overlay, vmm, sig>>
  OBVIOUS
<1>7. lpc[n] \in Stored => (Stopped(n)' <=> Stopped(n))
  BY <1>6 DEF Stopped, Ended
<1>8. VmmInv'
  <2>1. \A m \in Ids : lpc'[m] \in Unspawned \ Unnamed => Ended(m)'
    BY DEF VmmInv, Shielded, Ended
  <2>2. lpc'[n] \in {"undo.remove", "undo.tap"} => Stopped(n)'
    BY DEF VmmInv, Shielded, Stopped, Ended, Alive
  <2>3. \A m \in Ids : lpc'[m] \in {"undo.remove", "undo.tap"} => Stopped(m)'
    BY <1>3, <2>2 DEF VmmInv
  <2>4. ASSUME NEW s \in Stoppers, spc'[s] \in Withdrawing PROVE Stopped(tgt[s])'
    <3>1. spc[s] \in Withdrawing /\ tgt'[s] = tgt[s] /\ tgt[s] \in Ids
          /\ lpc[tgt[s]] \in Stored /\ Stopped(tgt[s])
      BY <1>4, <2>4 DEF VmmInv, Withdrawing
    <3>2. Stopped(tgt[s]) => vmm'[tgt[s]] \notin Alive \/ sig'[tgt[s]] = "KILL"
      BY <1>6, <3>1 DEF Stopped, Ended
    <3> QED BY <3>1, <3>2 DEF Stopped, Ended
  <2> QED BY <2>1, <2>3, <2>4 DEF VmmInv
<1>9. AuditInv'
  <2>1. \A m \in Ids : m # n \/ lpc[n] \in Stored => overlay'[m] = overlay[m]
    BY <1>6
  <2>2. \A m \in Ids : lpc'[m] \in Imaged => overlay'[m] # "none"
    BY DEF AuditInv
  <2>3. \A m \in Ids : audits'[m] = 1 => overlay'[m] = "none"
    BY <1>5, <2>1 DEF AuditInv
  <2>4. \A s \in Stoppers :
          spc'[s] = "audit" => overlay'[tgt'[s]] = "none" /\ audits'[tgt'[s]] = 0
    BY <1>4, <2>1 DEF AuditInv
  <2>5. DestructionAudited'
    <3> SUFFICES ASSUME NEW m \in Ids
                 PROVE  /\ audits'[m] <= 1
                        /\ lpc'[m] \in Launched =>
                             (overlay'[m] = "none" <=>
                              audits'[m] = 1 \/ \E s \in Stoppers : At(s, m, "audit")')
      BY DEF DestructionAudited
    <3>1. audits'[m] <= 1
      BY DEF AuditInv, DestructionAudited
    <3>2. CASE m # n
      BY <2>1, <3>1, <3>2 DEF AuditInv, DestructionAudited, At
    <3>3. CASE m = n /\ lpc[n] \in Stored
      BY <2>1, <3>1, <3>3 DEF AuditInv, DestructionAudited, At, Stored, Launched
    <3>4. CASE m = n /\ lpc[n] \notin Stored
      <4>1. lpc'[n] \in Launched => overlay'[n] # "none"
        BY <3>4 DEF AuditInv, Imaged
      <4> QED BY <1>5, <3>1, <3>4, <4>1 DEF At
    <3> QED BY <3>2, <3>3, <3>4
  <2> QED BY <2>2, <2>3, <2>4, <2>5 DEF AuditInv
<1> QED BY <1>1, <1>2, <1>8, <1>9 DEF CoreInv

LEMMA InvLaunch ==
  ASSUME NamesFit, Inv, NEW n \in Ids, HandleCreate(n) \/ LaunchStep(n)
  PROVE  Inv'
<1>0. Typed /\ PrivateInv /\ VmmInv /\ TapInv /\ DeleteInv /\ AuditInv
  BY DEF Inv
<1>1. CoreInv' /\ Typed'
  BY <1>0, CoreLaunch DEF CoreInv, TapInv
<1> USE <1>0, LaunchFrame, LaunchOwn
<1>3. \A m \in Ids : m # n => /\ TapName(m) \in taps' <=> TapName(m) \in taps
                              /\ Stopped(m)' <=> Stopped(m)
  BY NamesDistinct DEF Stopped, Ended
<1>4. \A s \in Stoppers : spc[s] # "idle" => tgt[s] \in Ids /\ lpc[tgt[s]] \in Stored
  BY DEF Typed, TypeOK, TargetOK, PrivateInv
<1>5. lpc[n] \notin Stored =>
        n \notin vms /\ audits[n] = 0 /\ deletes[n] = 0 /\ \A s \in Stoppers : tgt[s] # n
  BY DEF PrivateInv
<1>6. lpc[n] \in Stored => UNCHANGED <<vms, taps, overlay, vmm, sig>>
  OBVIOUS
<1>7. lpc[n] \in Stored => (Stopped(n)' <=> Stopped(n))
  BY <1>6 DEF Stopped, Ended
<1>9. TapInv'
  <2>1. \A m \in Ids : lpc'[m] \in Unnamed => Ended(m)' \/ TapName(m) \in taps'
    BY <1>3 DEF TapInv, Shielded, Unspawned, Ended
  <2>5. \A m \in Ids : ~Stopped(m)' => TapName(m) \in taps'
    <3>1. ASSUME ~Stopped(n)' PROVE TapName(n) \in taps'
      BY <3>1 DEF TapInv, VmmInv, Holding, Stopped, Ended
    <3> QED BY <1>3, <3>1 DEF TapInv
  <2>2. \A m \in Ids : lpc'[m] \in Holding => TapName(m) \in taps'
    BY <1>3 DEF TapInv
  <2>3. vms' \subseteq Ids
    BY <1>1 DEF Typed, TypeOK
  <2>4. ASSUME NEW m \in vms'
        PROVE  TapName(m) \in taps' \/ \E s \in Stoppers : At(s, m, "forget")'
    <3>1. CASE m \in vms
      BY <1>3, <1>5, <1>6, <2>3, <3>1 DEF TapInv, NeverWedged, At
    <3>2. CASE m \notin vms
      <4>1. m = n /\ lpc[n] = "store" /\ lpc[n] \notin Stored
        BY <3>2 DEF Stored
      <4>2. TapName(n) \in taps
        BY <4>1 DEF TapInv, Holding
      <4> QED BY <2>4, <3>2, <4>1, <4>2
    <3> QED BY <3>1, <3>2
  <2> QED BY <2>1, <2>2, <2>4, <2>5 DEF TapInv, Shielded, NeverWedged
<1>10. DeleteInv'
  <2>1. \A m \in Ids : m # n \/ lpc[n] \in Stored =>
          /\ TapName(m) \in taps' <=> TapName(m) \in taps
          /\ Stopped(m)' <=> Stopped(m)
          /\ m \in vms' <=> m \in vms
    BY <1>3, <1>6, <1>7
  <2>2. Deleters \subseteq Stoppers
    BY DEF Stoppers
  <2>3. OneSuccessfulDelete'
    BY <1>5, <2>1 DEF DeleteInv, OneSuccessfulDelete
  <2>4. ASSUME NEW s \in Deleters, spc'[s] = "forget"
        PROVE  TapName(tgt'[s]) \notin taps' /\ deletes'[tgt'[s]] = 0
    BY <1>4, <2>1, <2>2, <2>4 DEF DeleteInv
  <2> QED BY <2>2, <2>3, <2>4 DEF DeleteInv
<1> QED BY <1>1, <1>9, <1>10 DEF Inv, CoreInv

LEMMA InvStep == ASSUME NamesFit PROVE Inv /\ [Next]_vars => Inv'
  BY InvLaunch, InvStop, InvOther DEF OtherStep

LEMMA InvAlways == ASSUME NamesFit PROVE Spec => []Inv
  BY InvInit, InvStep, PTL DEF Spec

(* Of a daemon that was not started over another's leftovers, however many *)
(* instances it has: what a launch has not started yet does not run.       *)
Unstarted == \A n \in Ids : lpc[n] \in Unspawned => vmm[n] = "none"

LEMMA CoreAlways == Spec => [](CoreInv /\ Unstarted)
<1>1. Init => CoreInv /\ Unstarted
  BY InvInit DEF Init, Inv, CoreInv, Unstarted
<1>2. CoreInv /\ Unstarted => Shielded
  BY DEF Unstarted, Shielded, Unspawned, Ended, Alive
<1>3. ASSUME CoreInv, Unstarted, NEW n \in Ids, HandleCreate(n) \/ LaunchStep(n) PROVE Unstarted'
  BY <1>3, LaunchFrame, LaunchOwn DEF Unstarted, CoreInv
<1>4. ASSUME CoreInv, Unstarted, NEW s \in Stoppers, StopStep(s) PROVE Unstarted'
  BY <1>4, StopFrame DEF Unstarted, CoreInv
<1>5. ASSUME CoreInv, Unstarted, OtherStep PROVE Unstarted'
  BY <1>5, OtherFrame DEF Unstarted, CoreInv
<1>6. CoreInv /\ Unstarted /\ [Next]_vars => (CoreInv /\ Unstarted)'
  BY <1>2, <1>3, <1>4, <1>5, CoreLaunch, CoreStop, CoreOther DEF OtherStep
<1> QED BY <1>1, <1>6, PTL DEF Spec

(* ... and what it has not made yet is not there.                          *)
FreshInv ==
  \A n \in Ids : /\ lpc[n] \in Unspawned => vmm[n] = "none"
                 /\ lpc[n] \in Unnamed => TapName(n) \notin taps

LEMMA FreshAlways == ASSUME NamesFit PROVE Spec => [](Inv /\ FreshInv)
<1>1. Init => FreshInv
  BY DEF Init, FreshInv
<1>2. ASSUME Inv, FreshInv, NEW n \in Ids, HandleCreate(n) \/ LaunchStep(n) PROVE FreshInv'
  <2>1. Typed
    BY <1>2 DEF Inv
  <2>2. \A m \in Ids : m # n => (TapName(m) \in taps' <=> TapName(m) \in taps)
    BY <1>2, <2>1, LaunchFrame, NamesDistinct
  <2> QED BY <1>2, <2>1, <2>2, LaunchFrame, LaunchOwn DEF FreshInv
<1>3. ASSUME Inv, FreshInv, NEW s \in Stoppers, StopStep(s) PROVE FreshInv'
  BY <1>3, StopFrame DEF FreshInv, Inv
<1>4. ASSUME Inv, FreshInv, OtherStep PROVE FreshInv'
  BY <1>4, OtherFrame DEF FreshInv, Inv
<1>5. Inv /\ FreshInv /\ [Next]_vars => FreshInv'
  BY <1>2, <1>3, <1>4 DEF OtherStep
<1> QED BY <1>1, <1>5, InvAlways, PTL DEF Spec

(* StopAll's callback is at work on n. *)
AtSweeper(n) == tgt[Sweeper] = n /\ spc[Sweeper] # "idle"

(* An instance that is no longer registered is torn down, one that Range   *)
(* has visited is not registered once its callback is done, and the keys   *)
(* that Range must visit are no longer registered when it ends: a handle   *)
(* that was dropped is never stored again.                                 *)
ShutInv ==
  /\ \A s \in Stoppers : spc[s] = "forget" /\ "unlink" \notin faults => TapName(tgt[s]) \notin taps
  /\ \A n \in Ids : lpc[n] \in Stored /\ n \notin vms =>
       Stopped(n) /\ ("unlink" \notin faults => TapName(n) \notin taps)
  /\ \A n \in due : n \in Ids /\ lpc[n] \in Stored
  /\ \A n \in visited : n \in Ids /\ lpc[n] \in Stored /\ (n \in vms => AtSweeper(n))
  /\ sweep = "done" => due \cap vms = {}

LEMMA ShutLaunch ==
  ASSUME NamesFit, Inv, ShutInv, NEW n \in Ids, HandleCreate(n) \/ LaunchStep(n)
  PROVE  ShutInv'
<1>0. Typed /\ PrivateInv
  BY DEF Inv
<1> USE <1>0, LaunchFrame, LaunchOwn DEF ShutInv
<1>1. \A m \in Ids : m # n \/ lpc[n] \in Stored =>
        /\ TapName(m) \in taps' <=> TapName(m) \in taps
        /\ Stopped(m)' <=> Stopped(m)
        /\ m \in vms' <=> m \in vms
  BY NamesDistinct DEF Stopped, Ended
<1>2. \A s \in Stoppers : spc[s] # "idle" => tgt[s] \in Ids /\ lpc[tgt[s]] \in Stored
  BY DEF Typed, TypeOK, TargetOK, PrivateInv
<1>3. lpc[n] \notin Stored /\ lpc'[n] \in Stored => n \in vms'
  BY DEF Stored, Launched
<1>4. ASSUME NEW s \in Stoppers, spc'[s] = "forget", "unlink" \notin faults'
      PROVE  TapName(tgt'[s]) \notin taps'
  BY <1>1, <1>2, <1>4
<1>5. ASSUME NEW m \in Ids, lpc'[m] \in Stored, m \notin vms'
      PROVE  Stopped(m)' /\ ("unlink" \notin faults' => TapName(m) \notin taps')
  <2>1. lpc[m] \in Stored /\ m \notin vms
    BY <1>1, <1>3, <1>5
  <2> QED BY <1>1, <2>1
<1>6. ASSUME NEW m \in due' PROVE m \in Ids /\ lpc'[m] \in Stored
  BY <1>6
<1>7. sweep' = "done" => due' \cap vms' = {}
  BY DEF Stored
<1>8. ASSUME NEW m \in visited' PROVE m \in Ids /\ lpc'[m] \in Stored /\ (m \in vms' => AtSweeper(m)')
  BY <1>1, <1>8 DEF AtSweeper
<1> QED BY <1>4, <1>5, <1>6, <1>7, <1>8

LEMMA ShutStop ==
  ASSUME NamesFit, Inv, ShutInv, NEW s \in Stoppers, StopStep(s)
  PROVE  ShutInv'
<1>0. Typed /\ PrivateInv /\ VmmInv /\ DeleteInv
  BY DEF Inv
<1> USE <1>0, StopFrame DEF ShutInv
<1>1. PICK t \in Ids : t = tgt[s] /\ lpc[t] \in Stored
  BY DEF PrivateInv
<1>2. \A m \in Ids : Stopped(m) => Stopped(m)'
  BY StoppedStays
<1>3. spc'[s] = "forget" /\ "unlink" \notin faults => TapName(t) \notin taps'
  BY <1>1 DEF StopStep, StopTerm, StopWait, ShredOpen, ShredZero, ShredUnlink, ShredFails,
         RegisterAudit, ReleaseTAP, Forget, LinkDeleted, LinkNotDeleted, Step, Rest, Move,
         Typed, TypeOK
<1>4. ASSUME NEW u \in Stoppers, spc'[u] = "forget", "unlink" \notin faults'
      PROVE  TapName(tgt'[u]) \notin taps'
  BY <1>1, <1>3, <1>4
<1>5. t \notin vms' => t \notin vms \/ spc[s] = "forget"
  BY <1>1 DEF StopStep, StopTerm, StopWait, ShredOpen, ShredZero, ShredUnlink, ShredFails,
         RegisterAudit, ReleaseTAP, Forget, Step, Rest, Move, server
<1>6. ASSUME NEW m \in Ids, lpc'[m] \in Stored, m \notin vms'
      PROVE  Stopped(m)' /\ ("unlink" \notin faults' => TapName(m) \notin taps')
  <2>1. CASE m \notin vms
    BY <1>2, <1>6, <2>1
  <2>2. CASE m \in vms
    <3>1. m = t /\ spc[s] = "forget"
      BY <1>1, <1>5, <1>6, <2>2
    <3>2. Stopped(t)
      BY <1>1, <3>1 DEF VmmInv, Withdrawing
    <3>3. "unlink" \notin faults => TapName(t) \notin taps
      BY <1>1, <3>1
    <3> QED BY <1>2, <3>1, <3>2, <3>3
  <2> QED BY <2>1, <2>2
<1>7. ASSUME NEW m \in due' PROVE m \in Ids /\ lpc'[m] \in Stored
  BY <1>7
<1>8. s = Sweeper /\ spc'[s] = "idle" => t \notin vms'
  BY <1>1, DaemonAssumption
     DEF StopStep, StopTerm, StopWait, ShredOpen, ShredZero, ShredUnlink, ShredFails,
         RegisterAudit, ReleaseTAP, Forget, Step, Rest, Move, Typed, TypeOK
<1>9. ASSUME NEW m \in visited' PROVE m \in Ids /\ lpc'[m] \in Stored /\ (m \in vms' => AtSweeper(m)')
  <2>1. m \in Ids /\ lpc[m] \in Stored /\ (m \in vms' => AtSweeper(m))
    BY <1>9
  <2>2. CASE s = Sweeper
    BY <1>1, <1>8, <2>1, <2>2 DEF AtSweeper
  <2>3. CASE s # Sweeper
    BY <2>1, <2>3 DEF AtSweeper, Stoppers
  <2> QED BY <2>2, <2>3
<1> QED BY <1>4, <1>6, <1>7, <1>9

LEMMA ShutOther ==
  ASSUME Inv, ShutInv, OtherStep
  PROVE  ShutInv'
<1>0. Typed /\ PrivateInv
  BY DEF Inv
<1> USE <1>0, OtherFrame DEF ShutInv
<1>1. faults' = faults
  BY DEF OtherStep, Next, AwaitRequest, vars, HandleDelete, RangeVisits, Take, StopAll, RangeEnds,
         HandlerReturned, ClientDisconnects, ContextKills, VmmListens, VmmKilled, VmmCrashes,
         VmmExits, GuestWrites, log
<1>2. /\ \/ due' = due /\ (sweep' = "done" => sweep = "done" \/ due \cap vms = {})
         \/ due' = vms /\ sweep' = "on"
      /\ \A m \in visited' : m \in Ids /\ lpc[m] \in Stored /\ (m \in vms => AtSweeper(m)')
  <2>1. vms \subseteq Ids /\ \A n \in vms : lpc[n] \in Stored
    BY DEF Typed, TypeOK, PrivateInv
  <2>2. CASE StopAll
    BY <2>2 DEF StopAll
  <2>3. CASE RangeEnds
    <3>1. due \cap vms = {} /\ UNCHANGED <<due, visited, spc, tgt>>
      BY <2>3 DEF RangeEnds, AtSweeper
    <3> QED BY <3>1 DEF AtSweeper
  <2>4. ASSUME NEW n \in Ids, RangeVisits(n)
        PROVE  /\ UNCHANGED <<due, sweep>>
               /\ \A m \in visited' : m \in Ids /\ lpc[m] \in Stored /\ (m \in vms => AtSweeper(m)')
    <3>1. /\ visited' = visited \cup {n} /\ spc[Sweeper] = "idle" /\ n \in vms
          /\ spc'[Sweeper] = "term" /\ tgt'[Sweeper] = n
      BY <2>4 DEF RangeVisits, Take, Move, Typed, TypeOK, Stoppers
    <3>2. UNCHANGED <<due, sweep>>
      BY <2>4 DEF RangeVisits, Take
    <3> QED BY <2>1, <3>1, <3>2 DEF AtSweeper
  <2>5. ASSUME NEW s \in Stoppers, NEW n \in Ids, HandleDelete(s, n)
        PROVE  UNCHANGED <<due, sweep, visited>> /\ spc'[Sweeper] = spc[Sweeper] /\ tgt'[Sweeper] = tgt[Sweeper]
    BY <2>5, DaemonAssumption DEF HandleDelete, Take, Move, Typed, TypeOK, Stoppers
  <2>6. CASE UNCHANGED <<due, sweep, visited, spc, tgt>>
    BY <2>6 DEF AtSweeper
  <2>7. \/ StopAll \/ RangeEnds \/ (\E n \in Ids : RangeVisits(n))
        \/ (\E s \in Stoppers, n \in Ids : HandleDelete(s, n))
        \/ UNCHANGED <<due, sweep, visited, spc, tgt>>
    BY DEF OtherStep, Next, AwaitRequest, vars, HandlerReturned, ClientDisconnects, ContextKills,
           VmmListens, VmmKilled, VmmCrashes, VmmExits, GuestWrites, stops
  <2>8. CASE \E s \in Stoppers, n \in Ids : HandleDelete(s, n)
    BY <2>5, <2>8 DEF AtSweeper
  <2> QED BY <2>2, <2>3, <2>4, <2>6, <2>7, <2>8
<1>3. \A n \in Ids : Stopped(n) => Stopped(n)'
  BY DEF Stopped, Ended
<1>4. \A s \in Stoppers : spc'[s] = "forget" => spc[s] = "forget" /\ tgt'[s] = tgt[s]
  OBVIOUS
<1>5. vms \subseteq Ids /\ \A n \in vms : lpc[n] \in Stored
  BY DEF Typed, TypeOK, PrivateInv
<1>6. \A m \in visited' : m \in Ids /\ lpc'[m] \in Stored /\ (m \in vms' => AtSweeper(m)')
  BY <1>2
<1> QED BY <1>1, <1>2, <1>3, <1>4, <1>5, <1>6

LEMMA ShutAlways == ASSUME NamesFit PROVE Spec => [](Inv /\ ShutInv)
<1>1. Init => ShutInv
  BY DEF Init, ShutInv, Stored
<1>2. Inv /\ ShutInv /\ [Next]_vars => ShutInv'
  BY ShutLaunch, ShutStop, ShutOther DEF OtherStep
<1> QED BY <1>1, <1>2, InvAlways, PTL DEF Spec

(* Whose disk's contents, disk or device a step takes away is stopped.     *)
LEMMA WithdrawnStep ==
  ASSUME NamesFit, Inv, [Next]_vars, NEW n \in Ids,
         \/ overlay'[n] # overlay[n] /\ overlay'[n] \in {"zero", "none"}
         \/ TapName(n) \in taps \ taps'
  PROVE  Stopped(n)
<1>0. Typed /\ PrivateInv /\ VmmInv
  BY DEF Inv
<1>1. ASSUME NEW m \in Ids, HandleCreate(m) \/ LaunchStep(m) PROVE Stopped(n)
  <2>1. m = n
    BY <1>0, <1>1, LaunchFrame, NamesDistinct
  <2>2. lpc[n] \in {"undo.remove", "undo.tap"} \/ lpc[n] = "copy"
    BY <1>0, <1>1, <2>1
       DEF LaunchStep, HandleCreate, SetupBridge, CreateTAP, AttachTAP, CopyImage, StartProcess,
           AwaitSocket, Configure, StartVM, UndoTerm, UndoStop, UndoOverlay, UndoTAP, Store, Reply,
           Goto, host, Typed, TypeOK
  <2> QED BY <1>0, <2>2 DEF VmmInv, Unspawned, Unnamed, Stopped
<1>2. ASSUME NEW s \in Stoppers, StopStep(s) PROVE Stopped(n)
  <2>1. tgt[s] = n
    BY <1>0, <1>2, StopFrame, NamesDistinct
  <2>2. spc[s] \in Withdrawing
    BY <1>0, <1>2
       DEF StopStep, StopTerm, StopWait, ShredOpen, ShredZero, ShredUnlink, ShredFails,
           RegisterAudit, ReleaseTAP, Forget, Step, Rest, Move, host, Withdrawing
  <2> QED BY <1>0, <2>1, <2>2 DEF VmmInv
<1>3. CASE OtherStep
  <2>1. taps' = taps /\ (overlay'[n] = "none" <=> overlay[n] = "none")
    BY <1>0, <1>3, OtherFrame
  <2>2. overlay'[n] = overlay[n] \/ overlay'[n] = "tenant"
    BY <1>0, <1>3
       DEF OtherStep, Next, AwaitRequest, vars, HandleDelete, RangeVisits, Take, StopAll, RangeEnds,
           HandlerReturned, ClientDisconnects, ContextKills, VmmListens, VmmKilled, VmmCrashes,
           VmmExits, GuestWrites, host, process, Typed, TypeOK
  <2> QED BY <2>1, <2>2
<1> QED BY <1>1, <1>2, <1>3 DEF OtherStep

-----------------------------------------------------------------------------
(***************************************************************************)
(* Theorems                                                                *)
(***************************************************************************)

(* However many stoppers work on an instance, its handle can be stopped    *)
(* with success as long as it is listed: no interleaving of DELETEs and    *)
(* StopAll leaves an instance that every later DELETE answers 500.         *)
THEOREM HandlesStoppable == ASSUME NamesFit PROVE Spec => []NeverWedged
<1>1. Inv => NeverWedged
  BY DEF Inv, TapInv
<1> QED BY <1>1, InvAlways, PTL

(* Of any number of concurrent DELETEs of an instance one answers 204, and *)
(* then handle and device are gone for good and the VMM is stopped.        *)
THEOREM DeletedOnce == ASSUME NamesFit PROVE Spec => []OneSuccessfulDelete
<1>1. Inv => OneSuccessfulDelete
  BY DEF Inv, DeleteInv
<1> QED BY <1>1, InvAlways, PTL

(* One audit per destroyed overlay, and none for one that is still there.  *)
THEOREM AuditedOnce == Spec => []DestructionAudited
<1>1. CoreInv => DestructionAudited
  BY DEF CoreInv, AuditInv
<1> QED BY <1>1, CoreAlways, PTL

(* No step of a launch, a DELETE or StopAll takes the disk's contents, the *)
(* disk or the device from a VMM that has not exited or been sent SIGKILL. *)
THEOREM NothingWithdrawnFromRunning == ASSUME NamesFit PROVE Spec => WithdrawnFromStopped
<1>1. Inv /\ [Next]_vars =>
        [\A n \in Ids :
           \/ overlay'[n] # overlay[n] /\ overlay'[n] \in {"zero", "none"}
           \/ TapName(n) \in taps \ taps'
           => Stopped(n)]_vars
  BY WithdrawnStep
<1> QED BY <1>1, InvAlways, PTL DEF Spec, WithdrawnFromStopped

(* When StopAll returns, all it found registered is torn down, with POSTs  *)
(* and DELETEs of any number running beside it.                            *)
THEOREM ShutdownTearsDown == ASSUME NamesFit PROVE Spec => []StopAllTearsDown
<1>1. Inv /\ ShutInv => StopAllTearsDown
  BY DEF Inv, ShutInv, StopAllTearsDown
<1> QED BY <1>1, ShutAlways, PTL

=============================================================================
