--------------------------- MODULE LeftoversProofs ---------------------------
(***************************************************************************)
(* What the daemon leaves on its host: of a launch that failed, of a disk  *)
(* that was destroyed, and, when it dies, to the next daemon.              *)
(***************************************************************************)
EXTENDS DaemonRestart, FirecrackerDaemonProofs

Quiet    == faults \cap {"disconnect", "api", "slow"} = {}
Attended == faults \cap {"disconnect", "copy", "slow", "shred", "unlink"} = {}

(* Before its device and after it a launch has nothing of its own.         *)
Bare == Unnamed \cup {"failed"}

(* A guest's instance, or a disk's that a guest wrote to.                  *)
Tenanted(n) == vmm[n] = "guest" \/ overlay[n] = "tenant"

(* Only a launch that succeeds boots its guest, so that an overlay is      *)
(* written to from then on; and Stop waits for the VMM to be gone, so that *)
(* nothing is written after the zeroes.                                    *)
CleanInv ==
  Quiet =>
    /\ residue = {}
    /\ \A n \in Ids :
         /\ vmm[n] = "guest" => overlay[n] # "none"
         /\ Tenanted(n) => lpc[n] \in Launched \cup Bare
    /\ \A s \in Stoppers :
         /\ spc[s] \in Withdrawing => Ended(tgt[s])
         /\ spc[s] = "unlink" => overlay[tgt[s]] \in {"zero", "none"}

(* A launch finds no tenant's disk or VMM that it could come past the      *)
(* device of: there are none but those of launched instances, or they have *)
(* their devices.                                                          *)
Covered == \A n \in Ids : Tenanted(n) => lpc[n] \in Launched \/ TapName(n) \in taps

Fresh == Quiet => \A n \in Ids : Tenanted(n) => lpc[n] \in Launched

(* Where a launch has a VMM, or had one that has not been stopped.         *)
Running == {"socket", "config", "boot", "undo.stop", "undo.wait"} \cup Launched

(* The error paths undo what was done, in the opposite order, under a      *)
(* context that is not cancelled.                                          *)
UndoneInv ==
  Attended =>
    \A n \in Ids :
      /\ ctxDone[n] => lpc[n] \in Returned
      /\ lpc[n] = "failed" => TapName(n) \notin taps
      /\ overlay[n] # "none" => lpc[n] \in {"spawn", "undo.remove"} \cup Running
      /\ vmm[n] \in Alive \/ n \in sock => lpc[n] \in Running

-----------------------------------------------------------------------------
LEMMA FaultsKept == ASSUME [Next]_vars PROVE faults' = faults
BY DEF Next, HandleCreate, LaunchStep, SetupBridge, CreateTAP, AttachTAP, CopyImage, StartProcess,
       AwaitSocket, Configure, StartVM, UndoTerm, UndoStop, UndoOverlay, UndoTAP, Store, Reply,
       StopStep, StopTerm, StopWait, ShredOpen, ShredZero, ShredUnlink, RegisterAudit, ReleaseTAP,
       Forget, HandleDelete, RangeVisits, Take, StopAll, RangeEnds, HandlerReturned,
       ClientDisconnects, ContextKills, VmmListens, VmmKilled, VmmCrashes, VmmExits, GuestWrites,
       AwaitRequest, vars, log

(* Of the host, too, a launch changes what is its own. *)
LEMMA LaunchHostFrame ==
  ASSUME Typed, NEW n \in Ids, HandleCreate(n) \/ LaunchStep(n)
  PROVE  \A m \in Ids : m # n => ctxDone'[m] = ctxDone[m] /\ (m \in sock' <=> m \in sock)
<1> USE DEF Typed, TypeOK, server, posts, process, host, stops, log
<1>1. CASE HandleCreate(n) \/ SetupBridge(n) \/ CreateTAP(n) \/ AttachTAP(n)
  BY <1>1 DEF HandleCreate, SetupBridge, CreateTAP, AttachTAP, CutShort
<1>2. CASE CopyImage(n) \/ StartProcess(n) \/ AwaitSocket(n) \/ Configure(n) \/ StartVM(n)
  BY <1>2 DEF CopyImage, StartProcess, AwaitSocket, Configure, StartVM, CutShort
<1>3. CASE UndoTerm(n) \/ UndoStop(n) \/ UndoOverlay(n) \/ UndoTAP(n)
  BY <1>3 DEF UndoTerm, UndoStop, UndoOverlay, StopReturns, UndoTAP
<1>4. CASE Store(n) \/ Reply(n)
  BY <1>4 DEF Store, Reply
<1> QED BY <1>1, <1>2, <1>3, <1>4 DEF LaunchStep

(* A stopper's instance is one that no launch is at work on but to answer. *)
LEMMA TargetIdle ==
  ASSUME CoreInv, NEW n \in Ids, HandleCreate(n) \/ LaunchStep(n),
         NEW s \in Stoppers, spc[s] # "idle"
  PROVE  tgt[s] \in Ids /\ vmm'[tgt[s]] = vmm[tgt[s]] /\ overlay'[tgt[s]] = overlay[tgt[s]]
<1>1. Typed /\ PrivateInv
  BY DEF CoreInv
<1>2. tgt[s] \in Ids /\ lpc[tgt[s]] \in Stored
  BY <1>1 DEF Typed, TypeOK, TargetOK, PrivateInv
<1>3. CASE tgt[s] # n
  BY <1>1, <1>2, <1>3, LaunchFrame
<1>4. CASE tgt[s] = n
  <2>1. Reply(n)
    BY <1>2, <1>4 DEF Stored, HandleCreate, LaunchStep, SetupBridge, CreateTAP, AttachTAP, CopyImage,
       StartProcess, AwaitSocket, Configure, StartVM, UndoTerm, UndoStop, UndoOverlay, UndoTAP, Store,
       Goto
  <2> QED BY <1>2, <2>1 DEF Reply, host, process
<1> QED BY <1>3, <1>4

-----------------------------------------------------------------------------
(***************************************************************************)
(* No residue                                                              *)
(***************************************************************************)
LEMMA CleanOwn ==
  ASSUME CoreInv, CleanInv, Covered, Quiet, NEW n \in Ids, HandleCreate(n) \/ LaunchStep(n)
  PROVE  /\ residue' = residue
         /\ vmm'[n] = "guest" => overlay'[n] # "none"
         /\ Tenanted(n)' => \/ lpc'[n] \in Launched
                            \/ /\ Tenanted(n) /\ lpc[n] \notin Launched
                               /\ lpc'[n] \in Bare /\ taps' = taps
<1> USE DEF Typed, TypeOK, Goto, server, posts, process, host, stops, log, Launched, Tenanted, Bare,
            Unnamed
<1>0. Typed /\ VmmInv /\ AuditInv /\ "disconnect" \notin faults /\ "api" \notin faults
  BY DEF CoreInv, Quiet
<1>1. CASE HandleCreate(n) \/ SetupBridge(n)
  BY <1>0, <1>1 DEF HandleCreate, SetupBridge, CutShort, CleanInv
<1>2. CASE CreateTAP(n) \/ AttachTAP(n)
  BY <1>0, <1>2 DEF CreateTAP, AttachTAP, CutShort, CleanInv, Covered
<1>3. CASE CopyImage(n)
  BY <1>0, <1>3 DEF CopyImage, CleanInv, VmmInv, Unspawned
<1>4. CASE StartProcess(n)
  BY <1>0, <1>4 DEF StartProcess, CleanInv
<1>5. CASE AwaitSocket(n) \/ Configure(n)
  BY <1>0, <1>5 DEF AwaitSocket, Configure, CleanInv
<1>6. CASE StartVM(n)
  <2>1. lpc[n] = "boot" /\ overlay[n] # "none" /\ overlay' = overlay /\ residue' = residue
    BY <1>0, <1>6 DEF StartVM, AuditInv, Imaged
  <2>2. lpc' = [lpc EXCEPT ![n] = "store"] \/ vmm' = vmm
    BY <1>0, <1>6 DEF StartVM, CutShort
  <2> QED BY <1>0, <2>1, <2>2 DEF CleanInv
<1>7. CASE UndoTerm(n) \/ UndoStop(n)
  BY <1>0, <1>7 DEF UndoTerm, UndoStop, CleanInv
<1>8. CASE UndoOverlay(n)
  BY <1>0, <1>8 DEF UndoOverlay, CleanInv
<1>9. CASE UndoTAP(n) \/ Store(n) \/ Reply(n)
  BY <1>0, <1>9 DEF UndoTAP, Store, Reply, CleanInv
<1> QED BY <1>1, <1>2, <1>3, <1>4, <1>5, <1>6, <1>7, <1>8, <1>9 DEF LaunchStep

LEMMA CleanLaunch ==
  ASSUME CoreInv, CleanInv, Covered, Quiet, NEW n \in Ids, HandleCreate(n) \/ LaunchStep(n)
  PROVE  CleanInv'
<1>0. Typed
  BY DEF CoreInv
<1>1. \A m \in Ids : /\ vmm'[m] = "guest" => overlay'[m] # "none"
                     /\ Tenanted(m)' => lpc'[m] \in Launched \cup Bare
  BY <1>0, LaunchFrame, CleanOwn DEF CleanInv, Tenanted
<1>2. \A s \in Stoppers : /\ spc'[s] \in Withdrawing => Ended(tgt[s])'
                          /\ spc'[s] = "unlink" => overlay'[tgt'[s]] \in {"zero", "none"}
  <2>1. spc' = spc /\ tgt' = tgt
    BY <1>0, LaunchFrame
  <2> QED BY <2>1, TargetIdle DEF CleanInv, Withdrawing, Ended
<1> QED BY <1>1, <1>2, CleanOwn DEF CleanInv

LEMMA CleanStop ==
  ASSUME CoreInv, CleanInv, Quiet, NEW s \in Stoppers, StopStep(s)
  PROVE  CleanInv'
<1>0. Typed /\ PrivateInv /\ "slow" \notin faults
  BY DEF CoreInv, Quiet
<1> USE <1>0 DEF Typed, TypeOK, TargetOK, Step, Rest, Move, server, posts, process, host, stops, log
<1>1. PICK t \in Ids : t = tgt[s] /\ lpc[t] \in Launched
  BY StopFrame DEF PrivateInv, Stored, Launched
<1>2. lpc' = lpc /\ vmm' = vmm /\ \A u \in Stoppers : u # s => spc'[u] = spc[u] /\ tgt'[u] = tgt[u]
  BY StopFrame
<1>3. spc'[s] \in Withdrawing => tgt'[s] = t /\ Ended(t)
  <2>1. CASE StopWait(s)
    BY <1>1, <2>1 DEF StopWait, StopReturns, Ended
  <2>2. CASE ~StopWait(s)
    <3>1. spc'[s] \in Withdrawing => spc[s] \in Withdrawing
      BY <2>2 DEF StopStep, StopTerm, ShredOpen, ShredZero, ShredUnlink, ShredFails, RegisterAudit,
                  ReleaseTAP, Forget, Withdrawing
    <3> QED BY <1>1, <3>1, StopFrame DEF CleanInv, Withdrawing
  <2> QED BY <2>1, <2>2
<1>4. /\ residue' = {}
      /\ \/ overlay' = overlay /\ spc'[s] # "unlink"
         \/ /\ spc[s] \in {"zero", "unlink"} /\ (spc'[s] = "unlink" => spc[s] = "zero")
            /\ overlay'[t] \in {"zero", "none"}
            /\ \A m \in Ids : m # t => overlay'[m] = overlay[m]
            /\ overlay'[t] = "none" => overlay[t] = "none" \/ spc[s] = "unlink"
  <2>1. CASE ShredZero(s)
    <3>1. CASE ShredFails(s, "zero") /\ UNCHANGED <<overlay, residue>>
      BY <3>1 DEF ShredFails, CleanInv
    <3>2. CASE Step(s, "zero", "unlink")
      <4>1. spc[s] = "zero" /\ spc'[s] = "unlink" /\ residue' = {}
        BY <2>1, <3>2 DEF ShredZero, ShredFails, CleanInv
      <4>2. CASE overlay[t] = "none"
        BY <1>1, <2>1, <4>1, <4>2 DEF ShredZero, ShredFails
      <4>3. CASE overlay[t] # "none"
        BY <1>1, <2>1, <4>1, <4>3 DEF ShredZero, ShredFails
      <4> QED BY <4>1, <4>2, <4>3
    <3> QED BY <2>1, <3>1, <3>2 DEF ShredZero
  <2>2. CASE ShredUnlink(s)
    <3>1. spc[s] = "unlink" /\ overlay[t] \in {"zero", "none"}
      BY <1>1, <2>2 DEF ShredUnlink, ShredFails, CleanInv
    <3> QED BY <1>1, <2>2, <3>1 DEF ShredUnlink, ShredFails, CleanInv
  <2>3. CASE ~ShredZero(s) /\ ~ShredUnlink(s)
    BY <2>3 DEF StopStep, StopTerm, StopWait, ShredOpen, ShredFails, RegisterAudit, ReleaseTAP, Forget,
                CleanInv
  <2> QED BY <2>1, <2>2, <2>3
<1>5. spc[s] \in {"zero", "unlink"} => Ended(t)
  BY <1>1 DEF CleanInv, Withdrawing
<1>6. \A m \in Ids :
        /\ vmm'[m] = "guest" => overlay'[m] # "none"
        /\ Tenanted(m)' => lpc'[m] \in Launched \cup Bare
  BY <1>1, <1>2, <1>4, <1>5 DEF CleanInv, Tenanted, Ended, Alive
<1>7. ASSUME NEW u \in Stoppers
      PROVE  /\ spc'[u] \in Withdrawing => Ended(tgt[u])'
             /\ spc'[u] = "unlink" => overlay'[tgt'[u]] \in {"zero", "none"}
  <2>1. CASE u = s
    BY <1>2, <1>3, <1>4, <2>1 DEF Ended, Withdrawing
  <2>2. CASE u # s
    <3>1. spc[u] = "unlink" => tgt[u] \in Ids
      OBVIOUS
    <3> QED BY <1>2, <1>4, <2>2, <3>1 DEF CleanInv, Ended
  <2> QED BY <2>1, <2>2
<1> QED BY <1>4, <1>6, <1>7 DEF CleanInv

(* Of the other steps, only a guest that runs writes to a disk.            *)
LEMMA OtherTenants ==
  ASSUME Typed, OtherStep
  PROVE  /\ residue' = residue \/ \E m \in Ids : vmm[m] = "guest" /\ overlay[m] = "none"
         /\ \A m \in Ids : /\ vmm'[m] = "guest" => vmm[m] = "guest"
                           /\ overlay'[m] = overlay[m] \/ (overlay'[m] = "tenant" /\ vmm[m] = "guest")
<1> USE DEF Typed, TypeOK, server, posts, process, host, stops, log
<1>1. ASSUME NEW n \in Ids, GuestWrites(n)
      PROVE  /\ residue' = residue \/ (vmm[n] = "guest" /\ overlay[n] = "none")
             /\ vmm' = vmm
             /\ \A m \in Ids : overlay'[m] = overlay[m] \/ (overlay'[m] = "tenant" /\ vmm[m] = "guest")
  BY <1>1 DEF GuestWrites
<1>2. ASSUME NEW n \in Ids, VmmListens(n) \/ VmmKilled(n) \/ VmmCrashes(n)
      PROVE  residue' = residue /\ overlay' = overlay /\ \A m \in Ids : vmm'[m] = "guest" => vmm[m] = "guest"
  BY <1>2 DEF VmmListens, VmmKilled, VmmCrashes, VmmExits
<1>3. CASE ~ \E n \in Ids : GuestWrites(n) \/ VmmListens(n) \/ VmmKilled(n) \/ VmmCrashes(n)
  BY <1>3 DEF OtherStep, Next, AwaitRequest, vars, HandleDelete, RangeVisits, Take, StopAll, RangeEnds,
              HandlerReturned, ClientDisconnects, ContextKills
<1> QED BY <1>1, <1>2, <1>3

LEMMA CleanOther ==
  ASSUME CoreInv, CleanInv, Quiet, OtherStep
  PROVE  CleanInv'
<1>0. Typed /\ PrivateInv
  BY DEF CoreInv
<1>1. /\ lpc' = lpc /\ taps' = taps
      /\ \A s \in Stoppers : spc'[s] \in Withdrawing => spc'[s] = spc[s] /\ tgt'[s] = tgt[s]
      /\ \A m \in Ids : /\ overlay'[m] = "none" <=> overlay[m] = "none"
                        /\ vmm[m] \notin Alive => vmm'[m] \notin Alive
  BY <1>0, OtherFrame DEF Withdrawing
<1>2. /\ residue' = residue
      /\ \A m \in Ids : /\ vmm'[m] = "guest" => vmm[m] = "guest"
                        /\ overlay'[m] = overlay[m] \/ (overlay'[m] = "tenant" /\ vmm[m] = "guest")
  BY <1>0, OtherTenants DEF CleanInv
<1>3. ASSUME NEW s \in Stoppers
      PROVE  /\ spc'[s] \in Withdrawing => Ended(tgt[s])'
             /\ spc'[s] = "unlink" => overlay'[tgt'[s]] \in {"zero", "none"}
  <2>1. spc'[s] \in Withdrawing => tgt[s] \in Ids /\ Ended(tgt[s])
    BY <1>0, <1>1 DEF CleanInv, Typed, TypeOK, TargetOK, Withdrawing
  <2> QED BY <1>1, <1>2, <2>1 DEF CleanInv, Ended, Withdrawing, Alive
<1> QED BY <1>1, <1>2, <1>3 DEF CleanInv, Tenanted

LEMMA CleanStep ==
  ASSUME CoreInv, CleanInv, Covered, [Next]_vars
  PROVE  CleanInv'
<1>1. CASE Quiet
  BY <1>1, CleanLaunch, CleanStop, CleanOther DEF OtherStep
<1>2. CASE ~Quiet
  BY <1>2, FaultsKept DEF CleanInv, Quiet
<1> QED BY <1>1, <1>2

LEMMA CleanAlways == Spec => [](CoreInv /\ CleanInv)
<1>1. Init => CleanInv /\ Fresh
  BY DEF Init, CleanInv, Fresh, Tenanted, Withdrawing
<1>2. ASSUME CoreInv, CleanInv, Fresh, Quiet, [Next]_vars PROVE Fresh'
  <2>0. Typed /\ PrivateInv /\ Covered
    BY <1>2 DEF CoreInv, Fresh, Covered
  <2>1. ASSUME NEW n \in Ids, HandleCreate(n) \/ LaunchStep(n) PROVE Fresh'
    <3>1. Tenanted(n)' => lpc'[n] \in Launched
      BY <1>2, <2>0, <2>1, CleanOwn DEF Fresh
    <3> QED BY <1>2, <2>0, <2>1, <3>1, LaunchFrame DEF Fresh, Tenanted
  <2>2. ASSUME NEW s \in Stoppers, StopStep(s) PROVE Fresh'
    <3>1. lpc' = lpc /\ vmm' = vmm /\ \A m \in Ids : m # tgt[s] => overlay'[m] = overlay[m]
      BY <2>0, <2>2, StopFrame
    <3>2. tgt[s] \in Ids => lpc[tgt[s]] \in Launched
      BY <2>0, <2>2 DEF PrivateInv, Stored, Launched
    <3> QED BY <1>2, <3>1, <3>2 DEF Fresh, Tenanted
  <2>3. CASE OtherStep
    <3>1. lpc' = lpc
      BY <2>0, <2>3, OtherFrame
    <3> QED BY <1>2, <2>0, <2>3, <3>1, OtherTenants DEF Fresh, Tenanted
  <2> QED BY <1>2, <2>1, <2>2, <2>3 DEF OtherStep
<1>3. CoreInv /\ CleanInv /\ Fresh /\ [Next]_vars => (CleanInv /\ Fresh)'
  <2>1. CASE Quiet
    BY <1>2, <2>1, CleanStep DEF Fresh, Covered
  <2>2. CASE ~Quiet
    BY <2>2, FaultsKept DEF CleanInv, Fresh, Quiet
  <2> QED BY <2>1, <2>2
<1> QED BY <1>1, <1>3, CoreAlways, PTL DEF Spec

-----------------------------------------------------------------------------
(***************************************************************************)
(* Nothing of a failed launch                                              *)
(***************************************************************************)
LEMMA UndoneLaunch ==
  ASSUME NamesFit, Inv, FreshInv, UndoneInv, Attended, NEW n \in Ids, HandleCreate(n) \/ LaunchStep(n)
  PROVE  UndoneInv'
<1>0. /\ Typed /\ VmmInv /\ TapInv /\ AuditInv
      /\ faults \cap {"disconnect", "copy", "slow", "shred", "unlink"} = {}
  BY DEF Inv, Attended
<1>1. ctxDone' = ctxDone /\ lpc[n] \notin Returned
  BY <1>0 DEF HandleCreate, LaunchStep, SetupBridge, CreateTAP, AttachTAP, CopyImage,
     StartProcess, AwaitSocket, Configure, StartVM, UndoTerm, UndoStop, UndoOverlay, UndoTAP, Store,
     Reply, Goto, CutShort, Returned
<1>2. ~ctxDone[n]
  BY <1>1 DEF UndoneInv
<1>3. /\ lpc'[n] = "failed" => TapName(n) \notin taps'
      /\ overlay'[n] # "none" => lpc'[n] \in {"spawn", "undo.remove"} \cup Running
      /\ vmm'[n] \in Alive \/ n \in sock' => lpc'[n] \in Running
  <2> USE <1>0, <1>2 DEF Typed, TypeOK, Goto, CutShort, server, posts, process, host, stops, log,
              Launched, Running, Undoing
  <2>1. CASE HandleCreate(n) \/ SetupBridge(n)
    BY <2>1 DEF HandleCreate, SetupBridge, UndoneInv, FreshInv, Unnamed
  <2>2. CASE CreateTAP(n)
    BY <2>2 DEF CreateTAP, UndoneInv, FreshInv, Unnamed
  <2>3. CASE AttachTAP(n)
    BY <2>3 DEF AttachTAP, UndoneInv
  <2>4. CASE CopyImage(n)
    BY <2>4 DEF CopyImage, UndoneInv
  <2>5. CASE StartProcess(n)
    BY <2>5 DEF StartProcess, UndoneInv, VmmInv, Unspawned, Alive
  <2>6. CASE AwaitSocket(n) \/ Configure(n)
    BY <2>6 DEF AwaitSocket, Configure, UndoneInv
  <2>7. CASE StartVM(n)
    BY <2>7 DEF StartVM, UndoneInv
  <2>8. CASE UndoTerm(n)
    BY <2>8 DEF UndoTerm, UndoneInv
  <2>9. CASE UndoStop(n)
    BY <2>9 DEF UndoStop, StopReturns, UndoneInv
  <2>10. CASE UndoOverlay(n)
    BY <2>10 DEF UndoOverlay, UndoneInv
  <2>11. CASE UndoTAP(n)
    BY <2>11 DEF UndoTAP, LinkDeleted, LinkNotDeleted, UndoneInv
  <2>12. CASE Store(n) \/ Reply(n)
    BY <2>12 DEF Store, Reply, UndoneInv
  <2> QED BY <2>1, <2>2, <2>3, <2>4, <2>5, <2>6, <2>7, <2>8, <2>9, <2>10, <2>11, <2>12 DEF LaunchStep
<1>4. ASSUME NEW m \in Ids, m # n
      PROVE  /\ ctxDone'[m] => lpc'[m] \in Returned
             /\ lpc'[m] = "failed" => TapName(m) \notin taps'
             /\ overlay'[m] # "none" => lpc'[m] \in {"spawn", "undo.remove"} \cup Running
             /\ vmm'[m] \in Alive \/ m \in sock' => lpc'[m] \in Running
  <2>1. TapName(m) # TapName(n)
    BY <1>4, NamesDistinct
  <2> QED BY <1>0, <1>4, <2>1, LaunchFrame, LaunchHostFrame DEF UndoneInv
<1> QED BY <1>1, <1>2, <1>3, <1>4 DEF UndoneInv

(* A stopper takes away, and its instance is one whose launch succeeded.   *)
LEMMA UndoneStop ==
  ASSUME Inv, UndoneInv, Attended, NEW s \in Stoppers, StopStep(s)
  PROVE  UndoneInv'
<1>0. Typed /\ PrivateInv
  BY DEF Inv
<1>1. PICK t \in Ids : t = tgt[s] /\ lpc[t] \in Stored
  BY <1>0, StopFrame DEF PrivateInv
<1>2. lpc' = lpc /\ vmm' = vmm /\ taps' \subseteq taps
      /\ \A m \in Ids : m # t => overlay'[m] = overlay[m]
  BY <1>0, <1>1, StopFrame
<1>3. ctxDone' = ctxDone /\ sock' \subseteq sock
  BY DEF StopStep, StopTerm, StopWait, StopReturns, ShredOpen, ShredZero, ShredUnlink, RegisterAudit,
         ReleaseTAP, Forget, posts, host, process
<1> QED BY <1>1, <1>2, <1>3 DEF UndoneInv, Stored, Running, Launched

LEMMA UndoneOther ==
  ASSUME Inv, UndoneInv, Attended, OtherStep
  PROVE  UndoneInv'
<1>0. Typed /\ "disconnect" \notin faults
  BY DEF Inv, Attended
<1>1. /\ lpc' = lpc /\ taps' = taps
      /\ \A m \in Ids : /\ overlay'[m] = "none" <=> overlay[m] = "none"
                        /\ vmm[m] \notin Alive => vmm'[m] \notin Alive
  BY <1>0, OtherFrame
<1>2. /\ \A m \in Ids : ctxDone'[m] => ctxDone[m] \/ lpc[m] \in Returned
      /\ \A m \in sock' : m \in sock \/ vmm[m] \in Alive
  <2> USE <1>0 DEF Typed, TypeOK, server, posts, process, host, stops, log
  <2>1. ASSUME NEW n \in Ids, VmmListens(n)
        PROVE  ctxDone' = ctxDone /\ \A m \in sock' : m \in sock \/ vmm[m] \in Alive
    BY <2>1 DEF VmmListens, Alive
  <2>2. ASSUME NEW n \in Ids, HandlerReturned(n)
        PROVE  sock' = sock /\ \A m \in Ids : ctxDone'[m] => ctxDone[m] \/ lpc[m] \in Returned
    BY <2>2 DEF HandlerReturned
  <2>3. CASE ~ \E n \in Ids : VmmListens(n) \/ HandlerReturned(n)
    BY <2>3 DEF OtherStep, Next, AwaitRequest, vars, HandleDelete, RangeVisits, Take, StopAll, RangeEnds,
                ClientDisconnects, ContextKills, VmmKilled, VmmCrashes, VmmExits, GuestWrites
  <2> QED BY <2>1, <2>2, <2>3
<1>3. ASSUME NEW m \in Ids
      PROVE  /\ ctxDone'[m] => lpc'[m] \in Returned
             /\ lpc'[m] = "failed" => TapName(m) \notin taps'
             /\ overlay'[m] # "none" => lpc'[m] \in {"spawn", "undo.remove"} \cup Running
             /\ vmm'[m] \in Alive \/ m \in sock' => lpc'[m] \in Running
  <2>1. vmm'[m] \in Alive \/ m \in sock' => vmm[m] \in Alive \/ m \in sock
    BY <1>1, <1>2 DEF Alive
  <2>2. /\ lpc'[m] = lpc[m] /\ taps' = taps
        /\ overlay'[m] # "none" => overlay[m] # "none"
        /\ ctxDone'[m] => ctxDone[m] \/ lpc[m] \in Returned
    BY <1>1, <1>2
  <2> QED BY <2>1, <2>2 DEF UndoneInv
<1> QED BY <1>3 DEF UndoneInv

LEMMA UndoneAlways == ASSUME NamesFit PROVE Spec => [](Inv /\ UndoneInv)
<1>1. Init => UndoneInv
  BY DEF Init, UndoneInv, Alive
<1>2. Inv /\ FreshInv /\ UndoneInv /\ [Next]_vars => UndoneInv'
  <2>1. CASE Attended
    BY <2>1, UndoneLaunch, UndoneStop, UndoneOther DEF OtherStep
  <2>2. CASE ~Attended
    BY <2>2, FaultsKept DEF UndoneInv, Attended
  <2> QED BY <2>1, <2>2
<1> QED BY <1>1, <1>2, FreshAlways, PTL DEF Spec

-----------------------------------------------------------------------------
(* Whatever else fails, on whichever path an overlay is removed, its       *)
(* blocks hold no tenant data, if VMMs answer and go in time and clients   *)
(* wait: ShredFile, and the os.Remove of LaunchVM's error paths.           *)
THEOREM NothingResidual == Spec => []NoResidue
<1>1. CleanInv => NoResidue
  BY DEF CleanInv, NoResidue, Quiet
<1> QED BY <1>1, CleanAlways, PTL

(* The error paths of LaunchVM leave neither overlay nor device, socket,   *)
(* handle or process, if clients wait, images can be copied, VMMs are in   *)
(* time and overlays and devices can be removed, whatever else fails.      *)
THEOREM FailedLaunchUndone == ASSUME NamesFit PROVE Spec => []FailedLaunchReleasedIfAttended
<1>1. Inv /\ UndoneInv => FailedLaunchReleasedIfAttended
  <2> SUFFICES ASSUME Inv, UndoneInv, Attended, NEW n \in Ids, lpc[n] = "failed"
               PROVE  /\ overlay[n] = "none" /\ TapName(n) \notin taps
                      /\ n \notin sock /\ n \notin vms /\ Ended(n)
    BY DEF FailedLaunchReleasedIfAttended, FailedLaunchReleased, Attended
  <2>1. n \notin vms
    BY DEF Inv, PrivateInv, Stored
  <2> QED BY <2>1 DEF UndoneInv, Running, Launched, Ended
<1> QED BY <1>1, UndoneAlways, PTL

-----------------------------------------------------------------------------
(***************************************************************************)
(* The next daemon                                                         *)
(***************************************************************************)

(* No launch comes past the device of an orphan, so that none has stored a *)
(* handle to it.                                                           *)
OrphanInv ==
  \A n \in orphan :
    n \in Ids /\ lpc[n] \in Unnamed \cup {"failed"} /\ vmm[n] \in Alive /\ sig[n] # "KILL"

(* While shreds succeed, the device of a disk with tenant data outlives    *)
(* the data, and who comes to release it has removed the disk.             *)
Sealed == faults \cap {"disconnect", "api", "slow", "shred"} = {}

KeptInv ==
  /\ \A n \in Ids : vmm[n] = "guest" \/ overlay[n] = "tenant" => TapName(n) \in taps
  /\ \A s \in Stoppers : spc[s] \in {"audit", "release", "forget"} => overlay[tgt[s]] = "none"
  /\ \A n \in Ids : deletes[n] > 0 => overlay[n] = "none"

RestartInv == Inv /\ ShutInv /\ OrphanInv /\ (Sealed => CleanInv /\ KeptInv)

LEMMA KeptLaunch ==
  ASSUME NamesFit, Inv, CleanInv, KeptInv, Sealed, NEW n \in Ids, HandleCreate(n) \/ LaunchStep(n)
  PROVE  KeptInv'
<1>0. Typed /\ Quiet /\ CoreInv /\ Covered
  BY DEF Inv, CoreInv, Sealed, Quiet, KeptInv, Covered, Tenanted
<1>1. \A m \in Ids : m # n => (TapName(m) \in taps' <=> TapName(m) \in taps)
  BY <1>0, LaunchFrame, NamesDistinct
<1>2. ASSUME vmm'[n] = "guest" \/ overlay'[n] = "tenant" PROVE TapName(n) \in taps'
  <2>1. CASE lpc'[n] \in Launched
    <3>1. lpc[n] \in Stored \/ lpc[n] \in {"boot", "store"}
      BY <1>0, <2>1, LaunchOwn
    <3>2. CASE lpc[n] \in Stored
      BY <1>0, <1>2, <3>2, LaunchOwn DEF KeptInv
    <3>3. CASE lpc[n] = "boot" /\ lpc'[n] = "store"
      <4>1. Inv'
        BY InvLaunch
      <4> QED BY <3>3, <4>1 DEF Inv, TapInv, Holding
    <3>4. CASE lpc[n] = "store" /\ taps' = taps
      BY <3>4 DEF Inv, TapInv, Holding
    <3> QED BY <1>0, <2>1, <3>1, <3>2, <3>3, <3>4, LaunchOwn
  <2>2. CASE lpc'[n] \notin Launched
    BY <1>0, <1>2, <2>2, CleanOwn DEF KeptInv, Tenanted
  <2> QED BY <2>1, <2>2
<1>3. \A m \in Ids : vmm'[m] = "guest" \/ overlay'[m] = "tenant" => TapName(m) \in taps'
  BY <1>0, <1>1, <1>2, LaunchFrame DEF KeptInv
<1>4. \A s \in Stoppers : spc'[s] \in {"audit", "release", "forget"} => overlay'[tgt'[s]] = "none"
  <2>1. spc' = spc /\ tgt' = tgt
    BY <1>0, LaunchFrame
  <2> QED BY <1>0, <2>1, TargetIdle DEF KeptInv
<1>5. \A m \in Ids : deletes'[m] > 0 => overlay'[m] = "none"
  <2>1. deletes' = deletes /\ \A m \in Ids : m # n => overlay'[m] = overlay[m]
    BY <1>0, LaunchFrame
  <2>2. deletes[n] > 0 => lpc[n] \in Stored
    BY DEF Inv, PrivateInv
  <2>3. lpc[n] \in Stored => overlay'[n] = overlay[n]
    BY <1>0, LaunchOwn
  <2> QED BY <2>1, <2>2, <2>3 DEF KeptInv
<1> QED BY <1>3, <1>4, <1>5 DEF KeptInv

LEMMA KeptStop ==
  ASSUME NamesFit, Inv, CleanInv, KeptInv, Sealed, NEW s \in Stoppers, StopStep(s)
  PROVE  KeptInv'
<1>0. Typed /\ AuditInv /\ Quiet /\ "shred" \notin faults
  BY DEF Inv, Sealed, Quiet
<1> USE <1>0 DEF Typed, TypeOK, TargetOK, Step, Rest, Move, server, posts, process, host, stops, log
<1>1. PICK t \in Ids : t = tgt[s]
  BY StopFrame
<1>2. /\ vmm' = vmm /\ \A u \in Stoppers : u # s => spc'[u] = spc[u] /\ tgt'[u] = tgt[u]
      /\ \A m \in Ids : m # t => overlay'[m] = overlay[m]
      /\ \A m \in Ids : m # t => (TapName(m) \in taps' <=> TapName(m) \in taps)
  BY <1>1, StopFrame, NamesDistinct
<1>3. /\ overlay[t] = "none" => overlay'[t] = "none"
      /\ overlay'[t] = "tenant" => overlay[t] = "tenant"
      /\ TapName(t) \in taps \ taps' => spc[s] = "release" /\ overlay' = overlay
      /\ spc'[s] \in {"audit", "release", "forget"} => overlay'[t] = "none" /\ tgt'[s] = t
  <2>1. CASE StopTerm(s) \/ StopWait(s)
    BY <1>1, <2>1 DEF StopTerm, StopWait
  <2>2. CASE ShredOpen(s)
    BY <1>1, <2>2 DEF ShredOpen, ShredFails
  <2>3. CASE ShredZero(s)
    BY <1>1, <2>3 DEF ShredZero, ShredFails
  <2>4. CASE ShredUnlink(s)
    BY <1>1, <2>4 DEF ShredUnlink, ShredFails
  <2>5. CASE RegisterAudit(s)
    BY <1>1, <2>5 DEF RegisterAudit, AuditInv
  <2>6. CASE ReleaseTAP(s)
    BY <1>1, <2>6 DEF ReleaseTAP, LinkDeleted, LinkNotDeleted, KeptInv
  <2>7. CASE Forget(s)
    BY <1>1, <2>7 DEF Forget
  <2> QED BY <2>1, <2>2, <2>3, <2>4, <2>5, <2>6, <2>7 DEF StopStep
<1>4. spc[s] = "release" => vmm[t] # "guest" /\ overlay[t] = "none"
  BY <1>1 DEF CleanInv, KeptInv, Withdrawing, Ended, Alive
<1>5. \A m \in Ids : vmm'[m] = "guest" \/ overlay'[m] = "tenant" => TapName(m) \in taps'
  BY <1>1, <1>2, <1>3, <1>4 DEF KeptInv
<1>6. ASSUME NEW u \in Stoppers, spc'[u] \in {"audit", "release", "forget"}
      PROVE  overlay'[tgt'[u]] = "none"
  <2>1. CASE u = s
    BY <1>3, <1>6, <2>1
  <2>2. CASE u # s
    <3>1. tgt[u] \in Ids /\ overlay[tgt[u]] = "none" /\ tgt'[u] = tgt[u]
      BY <1>2, <1>6, <2>2 DEF KeptInv
    <3> QED BY <1>2, <1>3, <3>1
  <2> QED BY <2>1, <2>2
<1>7. ASSUME NEW m \in Ids, deletes'[m] > 0 PROVE overlay'[m] = "none"
  <2>1. deletes[m] > 0 \/ (m = t /\ spc[s] = "forget")
    <3>1. CASE Forget(s)
      BY <1>1, <1>7, <3>1 DEF Forget
    <3>2. CASE ~Forget(s)
      <4>1. deletes' = deletes
        BY <3>2 DEF StopStep, StopTerm, StopWait, ShredOpen, ShredZero, ShredUnlink, ShredFails,
                    RegisterAudit, ReleaseTAP
      <4> QED BY <1>7, <4>1
    <3> QED BY <3>1, <3>2
  <2>2. overlay[m] = "none"
    BY <1>1, <2>1 DEF KeptInv
  <2> QED BY <1>2, <1>3, <2>2
<1> QED BY <1>5, <1>6, <1>7 DEF KeptInv

LEMMA KeptOther ==
  ASSUME Inv, CleanInv, KeptInv, Sealed, OtherStep
  PROVE  KeptInv'
<1>0. Typed
  BY DEF Inv
<1>1. /\ taps' = taps
      /\ \A s \in Stoppers : spc'[s] \in {"audit", "release", "forget"} =>
           spc[s] = spc'[s] /\ tgt'[s] = tgt[s] /\ tgt[s] \in Ids
      /\ \A m \in Ids : overlay'[m] = "none" <=> overlay[m] = "none"
  BY <1>0, OtherFrame DEF Typed, TypeOK, TargetOK
<1>2. \A m \in Ids : vmm'[m] = "guest" \/ overlay'[m] = "tenant" => TapName(m) \in taps'
  BY <1>0, <1>1, OtherTenants DEF KeptInv
<1>3. deletes' = deletes
  BY <1>0, OtherFrame
<1> QED BY <1>1, <1>2, <1>3 DEF KeptInv

(* What a step does to an orphan: it goes on, or ends.                     *)
LEMMA OrphanFrame ==
  ASSUME NamesFit, Inv, OrphanInv, Next, NEW n \in orphan
  PROVE  /\ n \notin vms /\ TapName(n) \in taps /\ TapName(n) \in taps'
         /\ lpc'[n] \in Unnamed \cup {"failed"}
         /\ overlay'[n] \in {overlay[n], "tenant"}
         /\ vmm'[n] = "new" => vmm[n] = "new"
<1>0. Typed /\ PrivateInv /\ TapInv
  BY DEF Inv
<1>1. /\ n \in Ids /\ lpc[n] \in Unnamed \cup {"failed"} /\ n \notin vms
      /\ TapName(n) \in taps /\ \A s \in Stoppers : tgt[s] # n
  BY <1>0 DEF OrphanInv, PrivateInv, TapInv, Stopped, Ended, Stored, Unnamed
<1>2. ASSUME NEW k \in Ids, HandleCreate(k) \/ LaunchStep(k)
      PROVE  /\ TapName(n) \in taps' /\ lpc'[n] \in Unnamed \cup {"failed"}
             /\ overlay'[n] = overlay[n] /\ vmm'[n] = vmm[n]
  <2>1. CASE k # n
    BY <1>0, <1>1, <1>2, <2>1, LaunchFrame, NamesDistinct
  <2>2. CASE k = n
    BY <1>0, <1>1, <1>2, <2>2
       DEF LaunchStep, HandleCreate, SetupBridge, CreateTAP, AttachTAP, CopyImage, StartProcess,
           AwaitSocket, Configure, StartVM, UndoTerm, UndoStop, UndoOverlay, UndoTAP, Store, Reply,
           Goto, host, process, Typed, TypeOK, Unnamed
  <2> QED BY <2>1, <2>2
<1>3. ASSUME NEW s \in Stoppers, StopStep(s)
      PROVE  /\ TapName(n) \in taps' /\ lpc' = lpc /\ overlay'[n] = overlay[n] /\ vmm' = vmm
  BY <1>0, <1>1, <1>3, StopFrame, NamesDistinct
<1>4. CASE OtherStep
  <2>1. taps' = taps /\ lpc' = lpc
    BY <1>0, <1>4, OtherFrame
  <2>2. overlay'[n] \in {overlay[n], "tenant"} /\ (vmm'[n] = "new" => vmm[n] = "new")
    BY <1>0, <1>1, <1>4
       DEF OtherStep, Next, AwaitRequest, vars, HandleDelete, RangeVisits, Take, StopAll, RangeEnds,
           HandlerReturned, ClientDisconnects, ContextKills, VmmListens, VmmKilled, VmmCrashes,
           VmmExits, GuestWrites, host, process, Typed, TypeOK
  <2> QED BY <1>1, <2>1, <2>2
<1> QED BY <1>1, <1>2, <1>3, <1>4 DEF OtherStep

LEMMA RestartRuns ==
  ASSUME NamesFit, RestartInv, Runs
  PROVE  RestartInv'
<1>1. Inv' /\ ShutInv'
  BY InvStep, ShutLaunch, ShutStop, ShutOther DEF RestartInv, Runs, OtherStep
<1>2. OrphanInv'
  BY OrphanFrame DEF RestartInv, OrphanInv, Runs
<1>3. Sealed' => CleanInv' /\ KeptInv'
  <2> SUFFICES ASSUME Sealed PROVE CleanInv' /\ KeptInv'
    BY FaultsKept DEF Runs, Sealed
  <2>1. CoreInv /\ Covered /\ CleanInv /\ KeptInv
    BY DEF RestartInv, Inv, CoreInv, KeptInv, Covered, Tenanted
  <2>2. CleanInv'
    BY <2>1, CleanStep DEF Runs
  <2> QED BY <2>1, <2>2, KeptLaunch, KeptStop, KeptOther DEF RestartInv, Runs, OtherStep
<1> QED BY <1>1, <1>2, <1>3 DEF RestartInv

(* The daemon forgets, the host does not. A VMM that survives was not      *)
(* stopped, so that its device is there.                                   *)
LEMMA RestartCrash ==
  ASSUME NamesFit, RestartInv, Crash
  PROVE  RestartInv'
<1>0. Typed /\ TapInv
  BY DEF RestartInv, Inv
<1> USE <1>0 DEF Typed, TypeOK, Crash
<1>1. Typed'
  BY DaemonAssumption DEF TargetOK, LaunchPcs, StopPcs
<1>2. PrivateInv' /\ DeleteInv' /\ AuditInv'
  BY IdsAreNumbers DEF PrivateInv, DeleteInv, AuditInv, OneSuccessfulDelete, DestructionAudited,
     Imaged, Launched, Stoppers
<1>3. \A n \in Ids : /\ ~Ended(n)' => /\ n \in orphan' /\ vmm'[n] = vmm[n] /\ sig'[n] = sig[n]
                                      /\ ~Stopped(n) /\ TapName(n) \in taps'
                     /\ n \in orphan' => vmm[n] \in Alive /\ sig[n] # "KILL" /\ vmm'[n] = vmm[n]
                                         /\ sig'[n] = sig[n]
  BY DEF TapInv, Stopped, Ended, Alive
<1>4. VmmInv' /\ TapInv'
  BY <1>3 DEF VmmInv, TapInv, Shielded, NeverWedged, Stopped, Unspawned, Unnamed, Holding, Undoing,
              Withdrawing
<1>5. ShutInv'
  BY DEF ShutInv, Stored
<1>6. OrphanInv'
  BY <1>3 DEF OrphanInv, Unnamed
<1>7. ASSUME Sealed PROVE CleanInv' /\ KeptInv'
  <2>1. Quiet /\ CleanInv /\ KeptInv
    BY <1>7 DEF RestartInv, Sealed, Quiet
  <2>2. \A n \in Ids : /\ vmm'[n] = "guest" => vmm[n] = "guest"
                       /\ overlay'[n] = overlay[n] /\ lpc'[n] \in Unnamed
    BY <1>3 DEF Ended, Alive, Unnamed
  <2>3. KeptInv'
    BY <2>1, <2>2 DEF KeptInv
  <2>4. residue' = {}
    BY <2>1 DEF CleanInv
  <2> QED BY <2>1, <2>2, <2>3, <2>4 DEF CleanInv, KeptInv, Bare, Tenanted, Withdrawing
<1>8. Sealed' => Sealed
  BY DEF Sealed
<1> QED BY <1>1, <1>2, <1>4, <1>5, <1>6, <1>7, <1>8 DEF RestartInv, Inv

LEMMA RestartAlways == ASSUME NamesFit PROVE RestartSpec => []RestartInv
<1>1. RestartInit => RestartInv
  <2> SUFFICES ASSUME RestartInit PROVE RestartInv
    OBVIOUS
  <2>1. Inv
    BY InvInit DEF RestartInit
  <2> QED BY <2>1 DEF RestartInit, Init, RestartInv, ShutInv, OrphanInv, CleanInv, KeptInv, Tenanted,
                      Stored, Withdrawing
<1>2. RestartInv /\ [Crash \/ Runs]_restartVars => RestartInv'
  <2>1. ASSUME RestartInv, UNCHANGED restartVars PROVE RestartInv'
    <3>1. UNCHANGED vars /\ UNCHANGED orphan
      BY <2>1 DEF restartVars
    <3> USE <3>1 DEF vars, server, posts, host, process, stops, log
    <3>2. Inv'
      BY <2>1, InvStep DEF RestartInv
    <3>3. ShutInv' /\ OrphanInv'
      BY <2>1 DEF RestartInv, ShutInv, AtSweeper, OrphanInv, Stopped, Ended
    <3>4. Sealed' => CleanInv' /\ KeptInv'
      BY <2>1 DEF RestartInv, Sealed, CleanInv, KeptInv, Quiet, Tenanted, Ended
    <3> QED BY <3>2, <3>3, <3>4 DEF RestartInv
  <2> QED BY <2>1, RestartRuns, RestartCrash
<1> QED BY <1>1, <1>2, PTL DEF RestartSpec

-----------------------------------------------------------------------------
(* While the VMM of a dead daemon runs, no launch under its id comes past  *)
(* its device, so that its disk and its process are its own, and no        *)
(* request of its id reaches it.                                           *)
THEOREM OrphansShielded == ASSUME NamesFit PROVE RestartSpec => OrphansUndisturbed
<1>1. ASSUME RestartInv, [Crash \/ Runs]_restartVars, restartVars' # restartVars, NEW n \in orphan
      PROVE  /\ n \notin vms /\ TapName(n) \in taps
             /\ vmm'[n] \in Alive =>
                  /\ TapName(n) \in taps'
                  /\ overlay'[n] \in {overlay[n], "tenant"}
                  /\ vmm'[n] = "new" => vmm[n] = "new"
  <2>1. CASE Runs
    BY <1>1, <2>1, OrphanFrame DEF RestartInv, Runs
  <2>2. CASE Crash
    <3>1. n \in Ids /\ n \notin vms /\ TapName(n) \in taps
      BY <1>1 DEF RestartInv, OrphanInv, Inv, PrivateInv, TapInv, Stopped, Ended, Stored, Unnamed
    <3>2. taps' = taps /\ overlay' = overlay /\ vmm'[n] \in {vmm[n], "none"}
      BY <2>2, <3>1 DEF Crash
    <3> QED BY <3>1, <3>2
  <2> QED BY <1>1, <2>1, <2>2
<1>2. RestartInv /\ [Crash \/ Runs]_restartVars =>
        [\A n \in orphan :
           /\ n \notin vms /\ TapName(n) \in taps
           /\ vmm'[n] \in Alive =>
                /\ TapName(n) \in taps'
                /\ overlay'[n] \in {overlay[n], "tenant"}
                /\ vmm'[n] = "new" => vmm[n] = "new"]_restartVars
  BY <1>1
<1> QED BY <1>2, RestartAlways, PTL DEF RestartSpec, OrphansUndisturbed

(* Wherever the daemon dies and however often, none of its lives gives     *)
(* blocks with tenant data back to the host, if VMMs answer and go in time *)
(* and shreds succeed, and an instance whose DELETE was answered 204 is    *)
(* sanitized.                                                              *)
THEOREM NoDataFreed == ASSUME NamesFit PROVE RestartSpec => []NoResidueAfterRestart
<1>1. RestartInv => NoResidueAfterRestart
  BY DEF RestartInv, Sealed, CleanInv, KeptInv, Quiet, NoResidueAfterRestart, DeletedIsSanitized
<1> QED BY <1>1, RestartAlways, PTL

(* A daemon that starts over the leftovers of others keeps what its        *)
(* handlers promise: NeverWedged, OneSuccessfulDelete, DestructionAudited  *)
(* and StopAllTearsDown hold in every life ...                             *)
THEOREM SoundInEveryLife == ASSUME NamesFit PROVE RestartSpec => []SoundOverLeftovers
<1>1. RestartInv => SoundOverLeftovers
  <2> SUFFICES ASSUME RestartInv PROVE SoundOverLeftovers
    OBVIOUS
  <2>1. NeverWedged /\ OneSuccessfulDelete /\ DestructionAudited
    BY DEF RestartInv, Inv, TapInv, DeleteInv, AuditInv
  <2>2. StopAllTearsDown
    BY DEF RestartInv, ShutInv, StopAllTearsDown
  <2> QED BY <2>1, <2>2 DEF SoundOverLeftovers
<1> QED BY <1>1, RestartAlways, PTL

(* ... and no running guest has its disk or its device taken from it, by   *)
(* the daemon that started it or by a later one.                           *)
THEOREM NothingWithdrawnInAnyLife == ASSUME NamesFit PROVE RestartSpec => WithdrawnFromStopped
<1>1. RestartInv /\ [Crash \/ Runs]_restartVars =>
        [\A n \in Ids :
           \/ overlay'[n] # overlay[n] /\ overlay'[n] \in {"zero", "none"}
           \/ TapName(n) \in taps \ taps'
           => Stopped(n)]_vars
  <2> SUFFICES ASSUME RestartInv, Crash \/ Runs, vars' # vars, NEW n \in Ids,
                      \/ overlay'[n] # overlay[n] /\ overlay'[n] \in {"zero", "none"}
                      \/ TapName(n) \in taps \ taps'
               PROVE  Stopped(n)
    BY DEF restartVars, vars
  <2>1. CASE Runs
    BY <2>1, WithdrawnStep DEF RestartInv, Runs
  <2>2. CASE Crash
    BY <2>2 DEF Crash
  <2> QED BY <2>1, <2>2
<1> QED BY <1>1, RestartAlways, PTL DEF RestartSpec, WithdrawnFromStopped

=============================================================================
