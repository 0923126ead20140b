------------------------ MODULE FirecrackerLifeProofs ------------------------
(***************************************************************************)
(* FirecrackerDaemon implements InstanceLife, with any number of instances *)
(* and of concurrent DELETEs, and with every fault the model has.          *)
(***************************************************************************)
EXTENDS FirecrackerDaemonProofs

(* Launches that have started a VMM. *)
Spawned == {"socket", "config", "boot", "undo.stop", "undo.wait"} \cup Launched
Diskless == Unnamed \cup {"attach", "copy"}

(* A VMM is not signalled before it is started, an overlay not made before *)
(* the copy, and nothing stored that was not started.                      *)
SpawnInv ==
  \A n \in Ids :
    /\ vmm[n] = "none" => sig[n] = "none"
    /\ lpc[n] \in Diskless => overlay[n] = "none"
    /\ lpc[n] \in Spawned => vmm[n] # "none"

LEMMA SpawnLaunch ==
  ASSUME Typed, SpawnInv, NEW n \in Ids, HandleCreate(n) \/ LaunchStep(n)
  PROVE  SpawnInv'
<1> USE DEF Typed, TypeOK, Goto, server, posts, process, host, stops, log
<1>1. \A m \in Ids : m # n => lpc'[m] = lpc[m] /\ overlay'[m] = overlay[m]
                              /\ vmm'[m] = vmm[m] /\ sig'[m] = sig[m]
  BY LaunchFrame
<1>2. /\ vmm[n] = "none" => sig[n] = "none"
      /\ lpc[n] \in Diskless => overlay[n] = "none"
      /\ lpc[n] \in Spawned => vmm[n] # "none"
  BY DEF SpawnInv
<1> DEFINE Own == /\ vmm'[n] = "none" => sig'[n] = "none"
                  /\ lpc'[n] \in Diskless => overlay'[n] = "none"
                  /\ lpc'[n] \in Spawned => vmm'[n] # "none"
<1>3. Own
  <2> USE <1>2 DEF Diskless, Spawned, Unnamed, Launched
  <2>1. CASE HandleCreate(n) \/ SetupBridge(n) \/ CreateTAP(n) \/ AttachTAP(n)
    BY <2>1 DEF HandleCreate, SetupBridge, CreateTAP, AttachTAP
  <2>2. CASE CopyImage(n)
    BY <2>2 DEF CopyImage
  <2>3. CASE StartProcess(n)
    BY <2>3 DEF StartProcess
  <2>4. CASE AwaitSocket(n) \/ Configure(n)
    BY <2>4 DEF AwaitSocket, Configure
  <2>5. CASE StartVM(n)
    BY <2>5 DEF StartVM
  <2>6. CASE UndoTerm(n)
    BY <2>6 DEF UndoTerm, Terminate, Alive
  <2>7. CASE UndoStop(n)
    BY <2>7 DEF UndoStop, StopReturns, Alive
  <2>8. CASE UndoOverlay(n) \/ UndoTAP(n)
    BY <2>8 DEF UndoOverlay, UndoTAP
  <2>9. CASE Store(n) \/ Reply(n)
    BY <2>9 DEF Store, Reply
  <2> QED BY <2>1, <2>2, <2>3, <2>4, <2>5, <2>6, <2>7, <2>8, <2>9 DEF LaunchStep
<1> QED BY <1>1, <1>3 DEF SpawnInv

LEMMA SpawnStop ==
  ASSUME Inv, SpawnInv, NEW s \in Stoppers, StopStep(s)
  PROVE  SpawnInv'
<1>0. Typed /\ PrivateInv
  BY DEF Inv
<1> USE <1>0, StopFrame
<1>1. PICK t \in Ids : t = tgt[s] /\ lpc[t] \in Stored
  BY DEF PrivateInv
<1>2. vmm[t] # "none" /\ lpc[t] \notin Diskless
  BY <1>1 DEF SpawnInv, Spawned, Stored, Launched, Diskless, Unnamed
<1> QED BY <1>1, <1>2 DEF SpawnInv

LEMMA SpawnOther ==
  ASSUME Inv, SpawnInv, OtherStep
  PROVE  SpawnInv'
<1>0. Typed
  BY DEF Inv
<1>1. \A m \in Ids : vmm[m] = "none" => sig'[m] = sig[m]
  <2> USE <1>0 DEF Typed, TypeOK, process, host
  <2>1. ASSUME NEW n \in Ids, ContextKills(n) PROVE \A m \in Ids : vmm[m] = "none" => sig'[m] = sig[m]
    BY <2>1 DEF ContextKills, Alive
  <2>2. (\A n \in Ids : ~ContextKills(n)) => sig' = sig
    BY DEF OtherStep, Next, AwaitRequest, vars, HandleDelete, RangeVisits, Take, StopAll,
           RangeEnds, HandlerReturned, ClientDisconnects, VmmListens, VmmKilled, VmmCrashes,
           VmmExits, GuestWrites
  <2> QED BY <2>1, <2>2
<1> QED BY <1>0, <1>1, OtherFrame DEF SpawnInv

LEMMA SpawnAlways == ASSUME NamesFit PROVE Spec => [](Inv /\ SpawnInv)
<1>1. Init => SpawnInv
  BY DEF Init, SpawnInv, Spawned, Launched
<1>2. Inv /\ SpawnInv /\ [Next]_vars => SpawnInv'
  BY SpawnLaunch, SpawnStop, SpawnOther DEF OtherStep, Inv
<1> QED BY <1>1, <1>2, InvAlways, PTL DEF Spec

-----------------------------------------------------------------------------

(* What a step does to the abstract instance n, if anything: the actions   *)
(* of InstanceLife as relations of n's own state.                          *)
Same(n) ==
  /\ LifeOf(n)' = LifeOf(n) /\ PowerOf(n)' = PowerOf(n)
  /\ (overlay'[n] = "none") = (overlay[n] = "none") /\ audits'[n] = audits[n]

(* A step that is the same to every instance is none of the abstract one.  *)
LEMMA AllSame ==
  ASSUME Typed, Typed', \A n \in Ids : Same(n)
  PROVE  UNCHANGED Life!lifeVars
<1>1. audits' = audits
  BY DEF Typed, TypeOK, Same
<1>2. [n \in Ids |-> LifeOf(n)]' = [n \in Ids |-> LifeOf(n)]
  BY DEF Same
<1>3. [n \in Ids |-> PowerOf(n)]' = [n \in Ids |-> PowerOf(n)]
  BY DEF Same
<1>4. [n \in Ids |-> overlay[n] # "none"]' = [n \in Ids |-> overlay[n] # "none"]
  BY DEF Same
<1> QED BY <1>1, <1>2, <1>3, <1>4 DEF Life!lifeVars

(* A change of life alone, of power alone, of the disk alone. *)
LEMMA OneLife ==
  ASSUME Typed, Typed', NEW k \in Ids, NEW x, LifeOf(k)' = x,
         \A n \in Ids : n # k => Same(n),
         PowerOf(k)' = PowerOf(k), audits'[k] = audits[k],
         (overlay'[k] = "none") = (overlay[k] = "none")
  PROVE  /\ [n \in Ids |-> LifeOf(n)]' = [[n \in Ids |-> LifeOf(n)] EXCEPT ![k] = x]
         /\ [n \in Ids |-> PowerOf(n)]' = [n \in Ids |-> PowerOf(n)]
         /\ [n \in Ids |-> overlay[n] # "none"]' = [n \in Ids |-> overlay[n] # "none"]
         /\ audits' = audits
<1>1. audits' = audits
  BY DEF Typed, TypeOK, Same
<1>2. [n \in Ids |-> LifeOf(n)]' = [[n \in Ids |-> LifeOf(n)] EXCEPT ![k] = x]
  BY DEF Same
<1>3. [n \in Ids |-> PowerOf(n)]' = [n \in Ids |-> PowerOf(n)]
  BY DEF Same
<1>4. [n \in Ids |-> overlay[n] # "none"]' = [n \in Ids |-> overlay[n] # "none"]
  BY DEF Same
<1> QED BY <1>1, <1>2, <1>3, <1>4

LEMMA OnePower ==
  ASSUME Typed, Typed', NEW k \in Ids, NEW x, PowerOf(k)' = x,
         \A n \in Ids : n # k => Same(n),
         LifeOf(k)' = LifeOf(k), audits'[k] = audits[k],
         (overlay'[k] = "none") = (overlay[k] = "none")
  PROVE  /\ [n \in Ids |-> PowerOf(n)]' = [[n \in Ids |-> PowerOf(n)] EXCEPT ![k] = x]
         /\ [n \in Ids |-> LifeOf(n)]' = [n \in Ids |-> LifeOf(n)]
         /\ [n \in Ids |-> overlay[n] # "none"]' = [n \in Ids |-> overlay[n] # "none"]
         /\ audits' = audits
<1>1. audits' = audits
  BY DEF Typed, TypeOK, Same
<1>2. [n \in Ids |-> PowerOf(n)]' = [[n \in Ids |-> PowerOf(n)] EXCEPT ![k] = x]
  BY DEF Same
<1>3. [n \in Ids |-> LifeOf(n)]' = [n \in Ids |-> LifeOf(n)]
  BY DEF Same
<1>4. [n \in Ids |-> overlay[n] # "none"]' = [n \in Ids |-> overlay[n] # "none"]
  BY DEF Same
<1> QED BY <1>1, <1>2, <1>3, <1>4

LEMMA OneDisk ==
  ASSUME Typed, Typed', NEW k \in Ids, NEW x \in BOOLEAN, (overlay'[k] # "none") = x,
         \A n \in Ids : n # k => Same(n),
         LifeOf(k)' = LifeOf(k), PowerOf(k)' = PowerOf(k), audits'[k] = audits[k]
  PROVE  /\ [n \in Ids |-> overlay[n] # "none"]' =
               [[n \in Ids |-> overlay[n] # "none"] EXCEPT ![k] = x]
         /\ [n \in Ids |-> LifeOf(n)]' = [n \in Ids |-> LifeOf(n)]
         /\ [n \in Ids |-> PowerOf(n)]' = [n \in Ids |-> PowerOf(n)]
         /\ audits' = audits
<1>1. audits' = audits
  BY DEF Typed, TypeOK, Same
<1>2. [n \in Ids |-> overlay[n] # "none"]' = [[n \in Ids |-> overlay[n] # "none"] EXCEPT ![k] = x]
  BY DEF Same
<1>3. [n \in Ids |-> LifeOf(n)]' = [n \in Ids |-> LifeOf(n)]
  BY DEF Same
<1>4. [n \in Ids |-> PowerOf(n)]' = [n \in Ids |-> PowerOf(n)]
  BY DEF Same
<1> QED BY <1>1, <1>2, <1>3, <1>4

-----------------------------------------------------------------------------

(* A step of a launch is nothing to the other instances. *)
LEMMA LaunchSame ==
  ASSUME Typed, NEW k \in Ids, HandleCreate(k) \/ LaunchStep(k), NEW n \in Ids, n # k
  PROVE  Same(n)
BY LaunchFrame DEF Same, LifeOf, PowerOf, Stopped, Ended

LEMMA LaunchLife ==
  ASSUME Inv, FreshInv, SpawnInv, Typed', NEW k \in Ids, HandleCreate(k) \/ LaunchStep(k)
  PROVE  Life!Next \/ UNCHANGED Life!lifeVars
<1>0. Typed /\ PrivateInv /\ VmmInv /\ AuditInv
  BY DEF Inv
<1> USE <1>0 DEF Goto, server, posts, process, host, stops, log
<1>1. \A n \in Ids : n # k => Same(n)
  BY LaunchSame
<1>2. lpc[k] \notin Stored => k \notin vms
  BY DEF PrivateInv
<1>3. CASE Same(k)
  BY <1>1, <1>3, AllSame
<1>4. CASE HandleCreate(k)
  <2>1. LifeOf(k) = "unasked" /\ LifeOf(k)' = "launching"
    BY <1>2, <1>4 DEF HandleCreate, LifeOf, Stored, Typed, TypeOK
  <2>2. UNCHANGED <<overlay, vmm, sig, audits>>
    BY <1>4 DEF HandleCreate
  <2>3. PowerOf(k)' = PowerOf(k)
    BY <2>2 DEF PowerOf, Stopped, Ended
  <2>4. Life!Accept(k)
    BY <1>1, <2>1, <2>2, <2>3, OneLife DEF Life!Accept, Life!Becomes
  <2> QED BY <2>4 DEF Life!Next
<1>5. CASE SetupBridge(k) \/ CreateTAP(k) \/ AttachTAP(k) \/ UndoTAP(k)
  <2>1. UNCHANGED <<overlay, vmm, sig, audits, vms>>
    BY <1>5 DEF SetupBridge, CreateTAP, AttachTAP, UndoTAP
  <2>2. PowerOf(k)' = PowerOf(k)
    BY <2>1 DEF PowerOf, Stopped, Ended
  <2>3. k \notin vms /\ LifeOf(k) = "launching"
    BY <1>2, <1>5 DEF SetupBridge, CreateTAP, AttachTAP, UndoTAP, LifeOf, Stored
  <2>4. LifeOf(k)' \in {"launching", "failed"}
    BY <1>5, <2>1, <2>3 DEF SetupBridge, CreateTAP, AttachTAP, UndoTAP, LifeOf, Typed, TypeOK
  <2>5. PowerOf(k) # "on"
    BY <1>5 DEF SetupBridge, CreateTAP, AttachTAP, UndoTAP, PowerOf, VmmInv, FreshInv, Unspawned, Unnamed
  <2>6. CASE LifeOf(k)' = "launching"
    BY <1>3, <2>1, <2>2, <2>3, <2>6 DEF Same
  <2>7. CASE LifeOf(k)' = "failed"
    <3>1. Life!Becomes(k, "launching", "failed")
      BY <1>1, <2>1, <2>2, <2>3, <2>7, OneLife DEF Life!Becomes
    <3>2. UNCHANGED <<[n \in Ids |-> PowerOf(n)], [n \in Ids |-> overlay[n] # "none"], audits>>
      BY <1>1, <2>1, <2>2, <2>3, <2>7, OneLife
    <3>3. [n \in Ids |-> overlay[n] # "none"]' =
            [[n \in Ids |-> overlay[n] # "none"] EXCEPT ![k] = overlay[k] # "none"]
      BY <3>2
    <3>4. Life!Fail(k)
      BY <2>5, <3>1, <3>2, <3>3 DEF Life!Fail
    <3> QED BY <3>4 DEF Life!Next
  <2> QED BY <2>4, <2>6, <2>7
<1>6. CASE CopyImage(k)
  <2>1. /\ LifeOf(k)' = LifeOf(k) /\ LifeOf(k) = "launching"
        /\ PowerOf(k)' = PowerOf(k) /\ PowerOf(k) = "off" /\ audits' = audits
    BY <1>2, <1>6 DEF CopyImage, LifeOf, PowerOf, Stopped, Ended, Stored, FreshInv, Unspawned,
                      Typed, TypeOK
  <2>2. overlay[k] = "none"
    BY <1>6 DEF CopyImage, SpawnInv, Diskless
  <2>3. CASE overlay'[k] = "none"
    BY <1>3, <2>1, <2>2, <2>3 DEF Same
  <2>4. CASE overlay'[k] # "none"
    <3>1. Life!MakeDisk(k)
      BY <1>1, <2>1, <2>2, <2>4, OneDisk DEF Life!MakeDisk
    <3> QED BY <3>1 DEF Life!Next
  <2> QED BY <2>3, <2>4
<1>7. CASE StartProcess(k)
  <2>1. LifeOf(k)' = LifeOf(k) /\ LifeOf(k) = "launching" /\ UNCHANGED <<overlay, sig, audits>>
    BY <1>2, <1>7 DEF StartProcess, LifeOf, Stored, Typed, TypeOK
  <2>2. vmm[k] = "none" /\ sig[k] = "none" /\ overlay[k] # "none"
    BY <1>7 DEF StartProcess, FreshInv, SpawnInv, Unspawned, AuditInv, Imaged
  <2>3. CASE vmm' = vmm
    BY <1>3, <2>1, <2>3 DEF Same, PowerOf, Stopped, Ended
  <2>4. CASE vmm' # vmm
    <3>1. vmm'[k] = "new"
      BY <1>7, <2>4 DEF StartProcess, Typed, TypeOK
    <3>2. PowerOf(k) = "off" /\ PowerOf(k)' = "on"
      BY <2>1, <2>2, <3>1 DEF PowerOf, Stopped, Ended, Alive
    <3>3. Life!PowerOn(k)
      BY <1>1, <2>1, <2>2, <3>2, OnePower DEF Life!PowerOn
    <3> QED BY <3>3 DEF Life!Next
  <2> QED BY <2>3, <2>4
<1>8. CASE AwaitSocket(k) \/ Configure(k) \/ StartVM(k) \/ UndoTerm(k) \/ Reply(k)
  <2>1. UNCHANGED <<overlay, audits, vms>>
    BY <1>8 DEF AwaitSocket, Configure, StartVM, UndoTerm, Reply
  <2>2. LifeOf(k)' = LifeOf(k)
    BY <1>2, <1>8 DEF AwaitSocket, Configure, StartVM, UndoTerm, Reply, LifeOf, Stored, Typed, TypeOK
  <2>3. CASE AwaitSocket(k) \/ Configure(k) \/ Reply(k)
    BY <1>3, <2>1, <2>2, <2>3 DEF AwaitSocket, Configure, Reply, Same, PowerOf, Stopped, Ended
  <2>4. CASE StartVM(k)
    BY <1>3, <2>1, <2>2, <2>4
       DEF StartVM, Same, PowerOf, Stopped, Ended, Alive, Typed, TypeOK
  <2>5. CASE UndoTerm(k)
    BY <1>3, <2>1, <2>2, <2>5
       DEF UndoTerm, Terminate, Same, PowerOf, Stopped, Ended, Typed, TypeOK
  <2> QED BY <1>8, <2>3, <2>4, <2>5
<1>9. CASE UndoStop(k)
  <2>1. LifeOf(k)' = LifeOf(k) /\ UNCHANGED <<overlay, vmm, audits>> /\ vmm[k] # "none"
    BY <1>2, <1>9 DEF UndoStop, LifeOf, Stored, SpawnInv, Spawned, Typed, TypeOK
  <2>2. PowerOf(k) \in {"on", "dead"} /\ PowerOf(k)' = "dead"
    BY <1>9, <2>1 DEF UndoStop, StopReturns, PowerOf, Stopped, Ended, Typed, TypeOK
  <2>3. CASE PowerOf(k) = "dead"
    BY <1>3, <2>1, <2>2, <2>3 DEF Same
  <2>4. CASE PowerOf(k) = "on"
    <3>1. Life!PowerOff(k)
      BY <1>1, <2>1, <2>2, <2>4, OnePower DEF Life!PowerOff
    <3> QED BY <3>1 DEF Life!Next
  <2> QED BY <2>2, <2>3, <2>4
<1>10. CASE UndoOverlay(k)
  <2>1. /\ LifeOf(k)' = LifeOf(k) /\ UNCHANGED <<vmm, sig, audits>>
        /\ overlay'[k] \in {"none", overlay[k]}
    BY <1>2, <1>10 DEF UndoOverlay, LifeOf, Stored, Typed, TypeOK
  <2>2. PowerOf(k)' = PowerOf(k) /\ PowerOf(k) # "on"
    BY <1>10, <2>1 DEF UndoOverlay, PowerOf, Stopped, Ended, VmmInv
  <2>3. CASE overlay'[k] = overlay[k]
    BY <1>3, <2>1, <2>2, <2>3 DEF Same
  <2>4. CASE overlay'[k] # overlay[k]
    <3>1. Life!DestroyDisk(k)
      BY <1>1, <2>1, <2>2, <2>4, OneDisk DEF Life!DestroyDisk
    <3> QED BY <3>1 DEF Life!Next
  <2> QED BY <2>3, <2>4
<1>11. CASE Store(k)
  <2>1. LifeOf(k) = "launching" /\ LifeOf(k)' = "registered" /\ UNCHANGED <<overlay, vmm, sig, audits>>
    BY <1>2, <1>11 DEF Store, LifeOf, Stored, Typed, TypeOK
  <2>2. overlay[k] # "none" /\ vmm[k] # "none"
    BY <1>11 DEF Store, AuditInv, Imaged, SpawnInv, Spawned, Launched
  <2>3. PowerOf(k)' = PowerOf(k) /\ PowerOf(k) # "off"
    BY <2>1, <2>2 DEF PowerOf, Stopped, Ended
  <2>4. Life!Register(k)
    BY <1>1, <2>1, <2>2, <2>3, OneLife DEF Life!Register, Life!Becomes
  <2> QED BY <2>4 DEF Life!Next
<1> QED BY <1>4, <1>5, <1>6, <1>7, <1>8, <1>9, <1>10, <1>11 DEF LaunchStep

(* Of a stopper's steps the abstract instance sees the SIGKILL, the        *)
(* unlinking, the record and the dropping of the handle.                   *)
LEMMA StopLife ==
  ASSUME Inv, SpawnInv, Typed', NEW s \in Stoppers, StopStep(s)
  PROVE  Life!Next \/ UNCHANGED Life!lifeVars
<1>0. Typed /\ PrivateInv /\ VmmInv /\ AuditInv
  BY DEF Inv
<1> USE <1>0
<1>1. PICK k \in Ids : k = tgt[s] /\ lpc[k] \in Stored
  BY StopFrame DEF PrivateInv
<1>2. \A n \in Ids : n # k => Same(n)
  BY <1>1, StopFrame DEF Same, LifeOf, PowerOf, Stopped, Ended
<1>3. CASE Same(k)
  BY <1>2, <1>3, AllSame
<1>4. lpc' = lpc /\ vmm' = vmm /\ vmm[k] # "none" /\ LifeOf(k) \in {"registered", "gone"}
  BY <1>1, StopFrame DEF SpawnInv, Spawned, Launched, Stored, LifeOf
<1>5. spc[s] \in Withdrawing => PowerOf(k) = "dead"
  BY <1>1, <1>4 DEF VmmInv, PowerOf
<1> USE DEF Step, Rest, Move, server, posts, process, host, stops, log
<1>6. CASE StopTerm(s)
  BY <1>1, <1>3, <1>6 DEF StopTerm, Terminate, Same, LifeOf, PowerOf, Stopped, Ended, Typed, TypeOK
<1>7. CASE StopWait(s)
  <2>1. LifeOf(k)' = LifeOf(k) /\ UNCHANGED <<overlay, audits>>
    BY <1>7 DEF StopWait, LifeOf
  <2>2. PowerOf(k) \in {"on", "dead"} /\ PowerOf(k)' = "dead"
    BY <1>1, <1>4, <1>7 DEF StopWait, StopReturns, PowerOf, Stopped, Ended, Typed, TypeOK
  <2>3. CASE PowerOf(k) = "dead"
    BY <1>3, <2>1, <2>2, <2>3 DEF Same
  <2>4. CASE PowerOf(k) = "on"
    <3>1. Life!PowerOff(k)
      BY <1>2, <2>1, <2>2, <2>4, OnePower DEF Life!PowerOff
    <3> QED BY <3>1 DEF Life!Next
  <2> QED BY <2>2, <2>3, <2>4
<1>8. CASE ShredOpen(s) \/ ShredZero(s) \/ ReleaseTAP(s)
  <2>1. UNCHANGED <<vms, lpc, vmm, sig, audits>> /\ (overlay'[k] = "none") = (overlay[k] = "none")
    BY <1>1, <1>8 DEF ShredOpen, ShredZero, ShredFails, ReleaseTAP, Typed, TypeOK
  <2> QED BY <1>3, <2>1 DEF Same, LifeOf, PowerOf, Stopped, Ended
<1>9. CASE ShredUnlink(s)
  <2>1. UNCHANGED <<vms, lpc, vmm, sig, audits>> /\ spc[s] \in Withdrawing
    BY <1>9 DEF ShredUnlink, ShredFails, Withdrawing
  <2>2. LifeOf(k)' = LifeOf(k) /\ PowerOf(k)' = PowerOf(k) /\ PowerOf(k) # "on"
    BY <1>5, <2>1 DEF LifeOf, PowerOf, Stopped, Ended
  <2>3. CASE overlay' = overlay
    BY <1>3, <2>1, <2>2, <2>3 DEF Same
  <2>4. CASE overlay' # overlay
    <3>1. overlay[k] # "none" /\ overlay'[k] = "none"
      BY <1>1, <1>9, <2>4 DEF ShredUnlink, ShredFails, Typed, TypeOK
    <3>2. Life!DestroyDisk(k)
      BY <1>2, <2>1, <2>2, <3>1, OneDisk DEF Life!DestroyDisk
    <3> QED BY <3>2 DEF Life!Next
  <2> QED BY <2>3, <2>4
<1>10. CASE RegisterAudit(s)
  <2>1. UNCHANGED <<vms, lpc, overlay, vmm, sig>> /\ spc[s] = "audit"
    BY <1>10 DEF RegisterAudit
  <2>2. audits[k] = 0 /\ overlay[k] = "none"
    BY <1>1, <2>1 DEF AuditInv
  <2>3. audits' = [audits EXCEPT ![k] = 1]
    BY <1>1, <1>10, <2>2 DEF RegisterAudit, Typed, TypeOK
  <2>4. UNCHANGED <<[n \in Ids |-> LifeOf(n)], [n \in Ids |-> PowerOf(n)],
                    [n \in Ids |-> overlay[n] # "none"]>>
    BY <2>1 DEF LifeOf, PowerOf, Stopped, Ended
  <2>5. Life!Record(k)
    BY <1>4, <2>2, <2>3, <2>4 DEF Life!Record
  <2> QED BY <2>5 DEF Life!Next
<1>11. CASE Forget(s)
  <2>1. UNCHANGED <<lpc, overlay, vmm, sig, audits>> /\ vms' = vms \ {k} /\ spc[s] \in Withdrawing
    BY <1>1, <1>11 DEF Forget, Withdrawing
  <2>2. PowerOf(k)' = PowerOf(k) /\ PowerOf(k) = "dead"
    BY <1>5, <2>1 DEF PowerOf, Stopped, Ended
  <2>3. LifeOf(k)' = "gone"
    BY <1>1, <2>1 DEF LifeOf, Stored
  <2>4. CASE LifeOf(k) = "gone"
    BY <1>3, <2>1, <2>2, <2>3, <2>4 DEF Same
  <2>5. CASE LifeOf(k) = "registered"
    <3>1. Life!Drop(k)
      BY <1>2, <2>1, <2>2, <2>3, <2>5, OneLife DEF Life!Drop, Life!Becomes
    <3> QED BY <3>1 DEF Life!Next
  <2> QED BY <1>4, <2>4, <2>5
<1> QED BY <1>6, <1>7, <1>8, <1>9, <1>10, <1>11 DEF StopStep

(* A VMM ends, by itself or by the SIGKILL of a cancelled context; nothing *)
(* else of these steps shows.                                              *)
LEMMA OtherLife ==
  ASSUME Inv, SpawnInv, Typed', OtherStep
  PROVE  Life!Next \/ UNCHANGED Life!lifeVars
<1>0. Typed
  BY DEF Inv
<1>1. /\ UNCHANGED <<vms, lpc, audits>>
      /\ \A n \in Ids : (overlay'[n] = "none") = (overlay[n] = "none")
      /\ \A n \in Ids : LifeOf(n)' = LifeOf(n)
  BY <1>0, OtherFrame DEF LifeOf
<1>2. CASE \A n \in Ids : PowerOf(n)' = PowerOf(n)
  BY <1>0, <1>1, <1>2, AllSame DEF Same
<1>3. ASSUME NEW k \in Ids, PowerOf(k)' # PowerOf(k)
      PROVE  Life!Next
  <2>1. PowerOf(k) = "on" /\ PowerOf(k)' = "dead"
    BY <1>0, <1>3, OtherFrame DEF PowerOf, Stopped, Ended, Alive
  <2>2. \A n \in Ids : n # k => vmm'[n] = vmm[n] /\ sig'[n] = sig[n]
    <3> USE <1>0 DEF Typed, TypeOK, process, host
    <3>1. ASSUME NEW m \in Ids, ContextKills(m) PROVE m = k
      BY <1>3, <3>1 DEF ContextKills, PowerOf, Stopped, Ended
    <3>2. ASSUME NEW m \in Ids, VmmListens(m) \/ VmmKilled(m) \/ VmmCrashes(m) PROVE m = k
      BY <1>3, <3>2 DEF VmmListens, VmmKilled, VmmCrashes, VmmExits, PowerOf, Stopped, Ended
    <3>3. ASSUME NEW m \in Ids, \/ ContextKills(m) \/ VmmListens(m) \/ VmmKilled(m) \/ VmmCrashes(m)
          PROVE  \A n \in Ids : n # m => vmm'[n] = vmm[n] /\ sig'[n] = sig[n]
      BY <3>3 DEF ContextKills, VmmListens, VmmKilled, VmmCrashes, VmmExits
    <3>4. (\A m \in Ids : ~(ContextKills(m) \/ VmmListens(m) \/ VmmKilled(m) \/ VmmCrashes(m)))
            => UNCHANGED <<vmm, sig>>
      BY DEF OtherStep, Next, AwaitRequest, vars, HandleDelete, RangeVisits, Take, StopAll,
             RangeEnds, HandlerReturned, ClientDisconnects, GuestWrites
    <3> QED BY <3>1, <3>2, <3>3, <3>4
  <2>3. \A n \in Ids : n # k => Same(n)
    BY <1>1, <2>2 DEF Same, PowerOf, Stopped, Ended
  <2>4. Life!PowerOff(k)
    BY <1>0, <1>1, <2>1, <2>3, OnePower DEF Life!PowerOff
  <2> QED BY <2>4 DEF Life!Next
<1> QED BY <1>2, <1>3

(* With any number of POSTs, DELETEs and a StopAll interleaved, and under  *)
(* every fault, a Firecracker instance lives as the driver contract says.  *)
THEOREM FirecrackerImplementsLife == ASSUME NamesFit PROVE Spec => ImplementsLife
<1>1. Init => Life!Init
  <2> SUFFICES ASSUME Init PROVE Life!Init
    OBVIOUS
  <2>1. \A n \in Ids : LifeOf(n) = "unasked" /\ PowerOf(n) = "off"
    BY DEF Init, LifeOf, PowerOf
  <2> QED BY <2>1 DEF Init, Life!Init
<1>2. Inv /\ FreshInv /\ SpawnInv /\ Inv' /\ [Next]_vars => [Life!Next]_(Life!lifeVars)
  <2> SUFFICES ASSUME Inv, FreshInv, SpawnInv, Inv', [Next]_vars
      PROVE  Life!Next \/ UNCHANGED Life!lifeVars
    OBVIOUS
  <2>1. Typed'
    BY DEF Inv
  <2> QED BY <2>1, LaunchLife, StopLife, OtherLife DEF OtherStep
<1> QED BY <1>1, <1>2, FreshAlways, SpawnAlways, PTL DEF Spec, Life!Spec, ImplementsLife

=============================================================================
