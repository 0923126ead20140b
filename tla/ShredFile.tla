------------------------------ MODULE ShredFile ------------------------------
(***************************************************************************)
(* storage.ShredFile: overwrite a file with zeroes block by block, sync,   *)
(* read a sample back, unlink. Several calls may shred one path at a time  *)
(* (two DELETEs of an instance), each with a descriptor of its own, while  *)
(* the kernel writes pages back to the disk whenever it likes and a        *)
(* process that still has the file open may write to it.                   *)
(***************************************************************************)
EXTENDS Integers

CONSTANTS
  MaxSize,    \* bound on the size of the file
  BlockSize,  \* 65536: bytes per Write
  SampleSize, \* 1024: bytes read back
  Shredders,  \* calls of ShredFile on the path
  Environments \* sets of faults; in each behaviour one of them may happen

(* io      an operation on the file fails, the unlink included *)
(* cancel  the caller's context is cancelled                   *)
(* writer  a process that was not stopped writes to the file   *)
FaultKinds == {"io", "cancel", "writer"}

ASSUME ShredAssumption ==
  /\ MaxSize \in Nat
  /\ BlockSize \in Nat \ {0}
  /\ SampleSize \in Nat \ {0}
  /\ Environments \subseteq SUBSET FaultKinds

Offsets == 0..MaxSize-1
Bytes == {"tenant", "zero"}

VARIABLES
  faults,   \* what may go wrong in this behaviour
  size,     \* the size of the file, which nobody changes
  cache,    \* cache[i]: what a reader sees at offset i
  disk,     \* disk[i]: what the storage holds at offset i
  linked,   \* the path names the file
  ctxDone,  \* the context of call p is cancelled
  pc,       \* where call p is
  written,  \* bytesWritten
  clean     \* the sample of call p, on which its hash is taken, reads all zero

vars == <<faults, size, cache, disk, linked, ctxDone, pc, written, clean>>

File == 0..size-1
Pcs == {"open", "write", "sync", "sample", "unlink", "ok", "error"}

Init ==
  /\ faults \in Environments
  /\ size \in 0..MaxSize
  /\ cache \in [Offsets -> Bytes] /\ disk = cache
  /\ linked = TRUE
  /\ ctxDone = [p \in Shredders |-> FALSE]
  /\ pc = [p \in Shredders |-> "open"]
  /\ written = [p \in Shredders |-> 0]
  /\ clean = [p \in Shredders |-> FALSE]

Goto(p, from, to) == pc[p] = from /\ pc' = [pc EXCEPT ![p] = to]

Sample == {i \in File : i < SampleSize}

(* An operation fails without effect, and the call returns its error. *)
Fails(p, from) == "io" \in faults /\ Goto(p, from, "error")

(* OpenFile and Stat: the path must still name the file. *)
Open(p) ==
  /\ Goto(p, "open", IF linked THEN "write" ELSE "error") \/ Fails(p, "open")
  /\ UNCHANGED <<faults, size, cache, disk, linked, ctxDone, written, clean>>

(* What one Write covers: up to a block, never past the size Stat reported. *)
Block(p) == {i \in File : written[p] <= i /\ i < written[p] + BlockSize}

(* Mutants: the last block is counted whole; the count is not advanced.    *)
AdvanceFull(p) == written[p] + BlockSize
AdvanceNot(p) == written[p]

Advance(p) ==
  IF size - written[p] > BlockSize THEN written[p] + BlockSize ELSE size

(* One turn of the loop: look at the context, then Write. A Write that     *)
(* fails may have covered part of its block.                               *)
WriteZeroes(p) ==
  /\ pc[p] = "write" /\ written[p] < size
  /\ \/ /\ ~ctxDone[p]
        /\ cache' = [i \in Offsets |-> IF i \in Block(p) THEN "zero" ELSE cache[i]]
        /\ written' = [written EXCEPT ![p] = Advance(p)]
        /\ UNCHANGED pc
     \/ /\ ~ctxDone[p] /\ "io" \in faults
        /\ \E k \in Block(p) : cache' =
             [i \in Offsets |-> IF i \in Block(p) /\ i < k THEN "zero" ELSE cache[i]]
        /\ Goto(p, "write", "error") /\ UNCHANGED written
     \/ ctxDone[p] /\ Goto(p, "write", "error") /\ UNCHANGED <<cache, written>>
  /\ UNCHANGED <<faults, size, disk, linked, ctxDone, clean>>

LoopEnds(p) ==
  /\ written[p] >= size /\ Goto(p, "write", "sync")
  /\ UNCHANGED <<faults, size, cache, disk, linked, ctxDone, written, clean>>

(* Mutant: nothing is flushed. *)
SyncSkipped(p) ==
  /\ Goto(p, "sync", "sample")
  /\ UNCHANGED <<faults, size, cache, disk, linked, ctxDone, written, clean>>

(* file.Sync: everything in the cache reaches the disk, or an error returns. *)
Sync(p) ==
  /\ \/ Goto(p, "sync", "sample") /\ disk' = cache
     \/ Fails(p, "sync") /\ UNCHANGED disk
  /\ UNCHANGED <<faults, size, cache, linked, ctxDone, written, clean>>

(* Seek, ReadFull and the hash, which is put into the record and compared  *)
(* with nothing.                                                           *)
ReadSample(p) ==
  /\ \/ /\ Goto(p, "sample", "unlink")
        /\ clean' = [clean EXCEPT ![p] = \A i \in Sample : cache[i] = "zero"]
     \/ Fails(p, "sample") /\ UNCHANGED clean
  /\ UNCHANGED <<faults, size, cache, disk, linked, ctxDone, written>>

(* Mutant: the error is ignored. *)
UnlinkUnchecked(p) ==
  /\ Goto(p, "unlink", "ok")
  /\ linked' = FALSE
  /\ UNCHANGED <<faults, size, cache, disk, ctxDone, written, clean>>

(* os.Remove, by name; the first call to reach it wins. *)
Unlink(p) ==
  /\ \/ Goto(p, "unlink", IF linked THEN "ok" ELSE "error") /\ linked' = FALSE
     \/ Fails(p, "unlink") /\ UNCHANGED linked
  /\ UNCHANGED <<faults, size, cache, disk, ctxDone, written, clean>>

(***************************************************************************)
(* The environment                                                         *)
(***************************************************************************)
Cancel(p) ==
  /\ "cancel" \in faults /\ ~ctxDone[p] /\ pc[p] \notin {"ok", "error"}
  /\ ctxDone' = [ctxDone EXCEPT ![p] = TRUE]
  /\ UNCHANGED <<faults, size, cache, disk, linked, pc, written, clean>>

(* The kernel writes one dirty page back; a page is one offset here. *)
WriteBack ==
  /\ \E i \in File : disk[i] # cache[i] /\ disk' = [disk EXCEPT ![i] = cache[i]]
  /\ UNCHANGED <<faults, size, cache, linked, ctxDone, pc, written, clean>>

TenantWrites ==
  /\ "writer" \in faults
  /\ \E i \in File : cache[i] # "tenant" /\ cache' = [cache EXCEPT ![i] = "tenant"]
  /\ UNCHANGED <<faults, size, disk, linked, ctxDone, pc, written, clean>>

Call(p) == \/ Open(p) \/ WriteZeroes(p) \/ LoopEnds(p)
           \/ Sync(p) \/ ReadSample(p) \/ Unlink(p)

(* All calls have returned. *)
Returned == (\A p \in Shredders : pc[p] \in {"ok", "error"}) /\ UNCHANGED vars

Next ==
  \/ \E p \in Shredders : Call(p) \/ Cancel(p)
  \/ WriteBack \/ TenantWrites \/ Returned

Spec == Init /\ [][Next]_vars

(* The goroutine of each call runs on; the file system answers. *)
FairSpec == Spec /\ \A p \in Shredders : WF_vars(Call(p))

(***************************************************************************)
(* Properties                                                              *)
(***************************************************************************)
TypeOK ==
  /\ faults \in Environments
  /\ size \in 0..MaxSize
  /\ cache \in [Offsets -> Bytes] /\ disk \in [Offsets -> Bytes]
  /\ linked \in BOOLEAN
  /\ ctxDone \in [Shredders -> BOOLEAN]
  /\ pc \in [Shredders -> Pcs]
  /\ written \in [Shredders -> 0..MaxSize]
  /\ clean \in [Shredders -> BOOLEAN]

(* The name goes only when the storage itself holds zeroes from the first  *)
(* byte to the last, whatever the size, wherever calls were cancelled or   *)
(* failed, and however the kernel delays its writes, provided no one else  *)
(* writes to the file.                                                     *)
ZeroedBeforeUnlink ==
  "writer" \notin faults /\ ~linked => \A i \in File : disk[i] = "zero"

(* One call at most reports success, and one does if the file is gone: a   *)
(* destruction is neither recorded twice nor left out. The hash it records *)
(* is that of zeroes, provided no one else writes to the file.             *)
OneRecord ==
  /\ \A p, q \in Shredders : pc[p] = "ok" /\ pc[q] = "ok" => p = q
  /\ ~linked <=> \E p \in Shredders : pc[p] = "ok"
  /\ "writer" \notin faults => \A p \in Shredders : pc[p] = "ok" => clean[p]

(* Every call returns. *)
ShredReturns == \A p \in Shredders : pc[p] = "write" ~> pc[p] \in {"ok", "error"}

=============================================================================
