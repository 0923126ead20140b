--------------------------- MODULE ShredFileProofs ---------------------------
(***************************************************************************)
(* ShredFile for files of any size, blocks of any length and any number of *)
(* concurrent calls: whoever unlinks the file, the storage holds zeroes.   *)
(***************************************************************************)
EXTENDS ShredFile, TLAPS

NoWriter == "writer" \notin faults

Finished == {"sync", "sample", "unlink", "ok"}
Synced   == {"sample", "unlink", "ok"}

(* What a call has written stays zero: the only writes are zeroes. *)
PrefixZeroed ==
  \A p \in Shredders, i \in File :
    i < written[p] \/ pc[p] \in Finished => cache[i] = "zero"

(* What was synced stays zero on the disk: write-back copies zeroes. *)
DiskZeroed ==
  \A p \in Shredders : pc[p] \in Synced => \A i \in File : disk[i] = "zero"

(* Unlinking and success are one step, which only one call can take. *)
OneUnlinks ==
  /\ \A p, q \in Shredders : pc[p] = "ok" /\ pc[q] = "ok" => p = q
  /\ ~linked <=> \E p \in Shredders : pc[p] = "ok"

SampleClean == \A p \in Shredders : pc[p] \in {"unlink", "ok"} => clean[p]

ShredInv == TypeOK /\ PrefixZeroed /\ DiskZeroed /\ OneUnlinks /\ SampleClean

-----------------------------------------------------------------------------

(* The state of a ShredFile call always has its type: offsets never run    *)
(* past the size, whatever the block length.                               *)
THEOREM ShredTypeCorrect == Spec => []TypeOK
<1>1. Init => TypeOK
  BY ShredAssumption DEF Init, TypeOK, Pcs, Bytes
<1>2. TypeOK /\ [Next]_vars => TypeOK'
  <2> SUFFICES ASSUME TypeOK, [Next]_vars PROVE TypeOK'
    OBVIOUS
  <2> USE ShredAssumption DEF TypeOK, Pcs, Bytes, Goto, Fails
  <2>1. ASSUME NEW p \in Shredders, Open(p) PROVE TypeOK'
    BY <2>1 DEF Open
  <2>2. ASSUME NEW p \in Shredders, WriteZeroes(p) PROVE TypeOK'
    <3>1. Advance(p) \in 0..MaxSize
      BY <2>2 DEF WriteZeroes, Advance
    <3>2. cache' \in [Offsets -> Bytes]
      BY <2>2 DEF WriteZeroes
    <3>3. written' \in [Shredders -> 0..MaxSize]
      BY <2>2, <3>1 DEF WriteZeroes
    <3> QED BY <2>2, <3>2, <3>3 DEF WriteZeroes
  <2>3. ASSUME NEW p \in Shredders, LoopEnds(p) PROVE TypeOK'
    BY <2>3 DEF LoopEnds
  <2>4. ASSUME NEW p \in Shredders, Sync(p) PROVE TypeOK'
    BY <2>4 DEF Sync
  <2>5. ASSUME NEW p \in Shredders, ReadSample(p) PROVE TypeOK'
    BY <2>5 DEF ReadSample
  <2>6. ASSUME NEW p \in Shredders, Unlink(p) PROVE TypeOK'
    BY <2>6 DEF Unlink
  <2>7. ASSUME NEW p \in Shredders, Cancel(p) PROVE TypeOK'
    BY <2>7 DEF Cancel
  <2>8. CASE WriteBack
    BY <2>8 DEF WriteBack, File, Offsets
  <2>9. CASE TenantWrites
    BY <2>9 DEF TenantWrites, File, Offsets
  <2>10. CASE UNCHANGED vars
    BY <2>10 DEF vars
  <2> QED
    BY <2>1, <2>2, <2>3, <2>4, <2>5, <2>6, <2>7, <2>8, <2>9, <2>10
       DEF Next, Call, Returned
<1> QED BY <1>1, <1>2, PTL DEF Spec

LEMMA NoWriterStays == [Next]_vars => (NoWriter' <=> NoWriter)
BY DEF Next, vars, NoWriter, Call, Open, WriteZeroes, LoopEnds, Sync, ReadSample, Unlink,
       Cancel, WriteBack, TenantWrites, Returned

(* Only an Unlink that finds the name takes a call to "ok", and it takes   *)
(* the name away: that needs nothing of the file's contents.               *)
LEMMA OneUnlinksInvariant == Spec => []OneUnlinks
<1>1. Init => OneUnlinks
  BY DEF Init, OneUnlinks
<1>2. TypeOK /\ OneUnlinks /\ [Next]_vars => OneUnlinks'
  <2> SUFFICES ASSUME TypeOK, OneUnlinks, [Next]_vars PROVE OneUnlinks'
    OBVIOUS
  <2> USE DEF TypeOK, OneUnlinks, Goto, Fails
  <2>1. ASSUME NEW p \in Shredders, Unlink(p) PROVE OneUnlinks'
    BY <2>1 DEF Unlink
  <2>2. ASSUME NEW p \in Shredders, WriteZeroes(p) PROVE OneUnlinks'
    BY <2>2 DEF WriteZeroes
  <2>3. ASSUME NEW p \in Shredders,
               \/ Open(p) \/ LoopEnds(p) \/ Sync(p) \/ ReadSample(p) \/ Cancel(p)
        PROVE  OneUnlinks'
    BY <2>3 DEF Open, LoopEnds, Sync, ReadSample, Cancel
  <2>4. CASE WriteBack \/ TenantWrites \/ UNCHANGED vars
    BY <2>4 DEF WriteBack, TenantWrites, vars
  <2> QED BY <2>1, <2>2, <2>3, <2>4 DEF Next, Call, Returned
<1> QED BY <1>1, <1>2, ShredTypeCorrect, PTL DEF Spec

(* As long as no one else writes to the file, the invariant that ties what *)
(* a call has written and synced to what the cache and the disk hold is    *)
(* kept by every step of every call, of the kernel and of the context.     *)
LEMMA ShredInvariant == Spec => [](NoWriter => ShredInv)
<1>1. Init => ShredInv
  <2> SUFFICES ASSUME Init PROVE ShredInv
    OBVIOUS
  <2>1. TypeOK
    BY ShredAssumption DEF Init, TypeOK, Pcs, Bytes
  <2>2. PrefixZeroed
    BY ShredAssumption DEF Init, PrefixZeroed, Finished, File
  <2>3. DiskZeroed /\ OneUnlinks /\ SampleClean
    BY DEF Init, DiskZeroed, Synced, OneUnlinks, SampleClean
  <2> QED BY <2>1, <2>2, <2>3 DEF ShredInv
<1>2. TypeOK' /\ NoWriter /\ ShredInv /\ [Next]_vars => ShredInv'
  <2> SUFFICES ASSUME TypeOK', NoWriter, ShredInv, [Next]_vars PROVE ShredInv'
    OBVIOUS
  <2>t. TypeOK /\ PrefixZeroed /\ DiskZeroed /\ OneUnlinks /\ SampleClean
    BY DEF ShredInv
  <2>z. TypeOK /\ TypeOK' => File \subseteq Offsets /\ size \in Nat
    BY ShredAssumption DEF TypeOK, File, Offsets
  <2> USE <2>t, <2>z
  <2>1. ASSUME NEW p \in Shredders, Open(p) PROVE ShredInv'
    <3>1. pc[p] = "open" /\ pc' = [pc EXCEPT ![p] = pc'[p]] /\ pc'[p] \in {"write", "error"}
      BY <2>1 DEF Open, Goto, Fails, TypeOK
    <3>2. UNCHANGED <<size, cache, disk, linked, ctxDone, written, clean>>
      BY <2>1 DEF Open
    <3>3. PrefixZeroed'
      BY <3>1, <3>2 DEF PrefixZeroed, Finished, File, TypeOK
    <3>4. DiskZeroed' /\ OneUnlinks' /\ SampleClean'
      BY <3>1, <3>2 DEF DiskZeroed, Synced, OneUnlinks, SampleClean, File, TypeOK
    <3> QED BY <3>3, <3>4 DEF ShredInv
  <2>2. ASSUME NEW p \in Shredders, WriteZeroes(p) PROVE ShredInv'
    <3>1. \A i \in Offsets : cache[i] = "zero" => cache'[i] = "zero"
      BY <2>2 DEF WriteZeroes, TypeOK
    <3>2. pc[p] = "write" /\ pc'[p] \in {"write", "error"}
          /\ (\A q \in Shredders \ {p} : pc'[q] = pc[q] /\ written'[q] = written[q])
      BY <2>2 DEF WriteZeroes, Goto, TypeOK
    <3>3. UNCHANGED <<size, disk, linked, clean>>
      BY <2>2 DEF WriteZeroes
    <3>4. \A i \in File : i < written'[p] => cache'[i] = "zero"
      <4> SUFFICES ASSUME NEW i \in File, i < written'[p] PROVE cache'[i] = "zero"
        OBVIOUS
      <4>1. CASE i < written[p]
        BY <4>1, <3>1 DEF PrefixZeroed
      <4>2. CASE written[p] <= i
        <5>1. written' = [written EXCEPT ![p] = Advance(p)] /\ i \in Block(p)
              /\ cache' = [j \in Offsets |-> IF j \in Block(p) THEN "zero" ELSE cache[j]]
          BY <2>2, <4>2, ShredAssumption DEF WriteZeroes, Advance, Block, TypeOK, File
        <5> QED BY <5>1
      <4> QED BY <4>1, <4>2 DEF File, TypeOK
    <3>5. PrefixZeroed'
      <4> SUFFICES ASSUME NEW q \in Shredders, NEW i \in File,
                          i < written'[q] \/ pc'[q] \in Finished
                   PROVE  cache'[i] = "zero"
        BY <3>3 DEF PrefixZeroed, File
      <4>1. CASE q = p
        BY <4>1, <3>2, <3>4 DEF Finished
      <4>2. CASE q # p
        BY <4>2, <3>1, <3>2 DEF PrefixZeroed
      <4> QED BY <4>1, <4>2
    <3>6. DiskZeroed'
      BY <3>2, <3>3 DEF DiskZeroed, Synced, File
    <3>7. OneUnlinks' /\ SampleClean'
      BY <3>2, <3>3 DEF OneUnlinks, SampleClean
    <3> QED BY <3>5, <3>6, <3>7 DEF ShredInv
  <2>3. ASSUME NEW p \in Shredders, LoopEnds(p) PROVE ShredInv'
    <3>1. pc[p] = "write" /\ written[p] >= size /\ pc' = [pc EXCEPT ![p] = "sync"]
      BY <2>3 DEF LoopEnds, Goto
    <3>2. UNCHANGED <<size, cache, disk, linked, ctxDone, written, clean>>
      BY <2>3 DEF LoopEnds
    <3>3. \A i \in File : i < written[p]
      BY <3>1 DEF File, TypeOK
    <3>4. PrefixZeroed'
      BY <3>1, <3>2, <3>3 DEF PrefixZeroed, Finished, File, TypeOK
    <3>5. DiskZeroed' /\ OneUnlinks' /\ SampleClean'
      BY <3>1, <3>2 DEF DiskZeroed, Synced, OneUnlinks, SampleClean, File, TypeOK
    <3> QED BY <3>4, <3>5 DEF ShredInv
  <2>4. ASSUME NEW p \in Shredders, Sync(p) PROVE ShredInv'
    <3>1. pc[p] = "sync" /\ pc'[p] \in {"sample", "error"}
          /\ (\A q \in Shredders \ {p} : pc'[q] = pc[q])
      BY <2>4 DEF Sync, Goto, Fails, TypeOK
    <3>2. UNCHANGED <<size, cache, linked, ctxDone, written, clean>>
          /\ (disk' = disk \/ disk' = cache)
      BY <2>4 DEF Sync
    <3>3. \A i \in File : cache[i] = "zero"
      BY <3>1 DEF PrefixZeroed, Finished
    <3>4. pc'[p] = "sample" => disk' = cache
      BY <2>4 DEF Sync, Goto, Fails, TypeOK
    <3>5. PrefixZeroed'
      BY <3>1, <3>2, <3>3 DEF PrefixZeroed, Finished, File
    <3>6. DiskZeroed'
      BY <3>1, <3>2, <3>3, <3>4 DEF DiskZeroed, Synced, File
    <3>7. OneUnlinks' /\ SampleClean'
      BY <3>1, <3>2 DEF OneUnlinks, SampleClean
    <3> QED BY <3>5, <3>6, <3>7 DEF ShredInv
  <2>5. ASSUME NEW p \in Shredders, ReadSample(p) PROVE ShredInv'
    <3>1. pc[p] = "sample" /\ pc' = [pc EXCEPT ![p] = pc'[p]] /\ pc'[p] \in {"unlink", "error"}
      BY <2>5 DEF ReadSample, Goto, Fails, TypeOK
    <3>2. UNCHANGED <<size, cache, disk, linked, ctxDone, written>>
          /\ \/ clean' = [clean EXCEPT ![p] = \A i \in Sample : cache[i] = "zero"]
             \/ clean' = clean /\ pc'[p] = "error"
      BY <2>5 DEF ReadSample, Goto, Fails, TypeOK
    <3>3. \A i \in Sample : cache[i] = "zero"
      BY <3>1 DEF PrefixZeroed, Finished, Sample
    <3>4. PrefixZeroed'
      BY <3>1, <3>2 DEF PrefixZeroed, Finished, File, TypeOK
    <3>5. DiskZeroed' /\ OneUnlinks'
      BY <3>1, <3>2 DEF DiskZeroed, Synced, OneUnlinks, File, TypeOK
    <3>6. SampleClean'
      BY <3>1, <3>2, <3>3 DEF SampleClean, TypeOK
    <3> QED BY <3>4, <3>5, <3>6 DEF ShredInv
  <2>6. ASSUME NEW p \in Shredders, Unlink(p) PROVE ShredInv'
    <3>1. /\ pc[p] = "unlink"
          /\ \/ pc' = [pc EXCEPT ![p] = IF linked THEN "ok" ELSE "error"] /\ linked' = FALSE
             \/ pc' = [pc EXCEPT ![p] = "error"] /\ linked' = linked
      BY <2>6 DEF Unlink, Goto, Fails
    <3>2. UNCHANGED <<size, cache, disk, ctxDone, written, clean>>
      BY <2>6 DEF Unlink
    <3>3. PrefixZeroed'
      BY <3>1, <3>2 DEF PrefixZeroed, Finished, File, TypeOK
    <3>4. DiskZeroed' /\ SampleClean'
      BY <3>1, <3>2 DEF DiskZeroed, Synced, SampleClean, File, TypeOK
    <3>5. OneUnlinks'
      BY <3>1 DEF OneUnlinks, TypeOK
    <3> QED BY <3>3, <3>4, <3>5 DEF ShredInv
  <2>7. ASSUME NEW p \in Shredders, Cancel(p) PROVE ShredInv'
    BY <2>7 DEF Cancel, ShredInv, PrefixZeroed, DiskZeroed, OneUnlinks, SampleClean, File
  <2>8. CASE WriteBack
    <3>1. UNCHANGED <<size, cache, linked, ctxDone, pc, written, clean>>
      BY <2>8 DEF WriteBack
    <3>2. \A i \in File : disk'[i] = disk[i] \/ disk'[i] = cache[i]
      BY <2>8 DEF WriteBack, TypeOK
    <3>3. DiskZeroed'
      <4> SUFFICES ASSUME NEW p \in Shredders, pc[p] \in Synced, NEW i \in File
                   PROVE  disk'[i] = "zero"
        BY <3>1 DEF DiskZeroed, File
      <4> QED BY <3>2 DEF DiskZeroed, PrefixZeroed, Synced, Finished
    <3>4. PrefixZeroed' /\ OneUnlinks' /\ SampleClean'
      BY <3>1 DEF PrefixZeroed, OneUnlinks, SampleClean, File
    <3> QED BY <3>3, <3>4 DEF ShredInv
  <2>9. CASE UNCHANGED vars
    BY <2>9 DEF vars, ShredInv, PrefixZeroed, DiskZeroed, OneUnlinks, SampleClean, File
  <2> QED
    BY <2>1, <2>2, <2>3, <2>4, <2>5, <2>6, <2>7, <2>8, <2>9
       DEF Next, Call, Returned, TenantWrites, NoWriter
<1> QED BY <1>1, <1>2, NoWriterStays, ShredTypeCorrect, PTL DEF Spec

(* A file nobody else writes to is unlinked only when the storage holds    *)
(* zeroes over its whole length, whatever was cancelled, failed, delayed   *)
(* or done twice.                                                          *)
THEOREM UnlinkedIsZeroed == Spec => []ZeroedBeforeUnlink
<1>1. (NoWriter => ShredInv) => ZeroedBeforeUnlink
  BY DEF NoWriter, ShredInv, OneUnlinks, DiskZeroed, Synced, ZeroedBeforeUnlink
<1> QED BY <1>1, ShredInvariant, PTL

(* Of all the calls on a path one at most succeeds, exactly one if the     *)
(* file is gone, and its hash is that of zeroes.                           *)
THEOREM OneCallSucceeds == Spec => []OneRecord
<1>1. OneUnlinks /\ (NoWriter => ShredInv) => OneRecord
  BY DEF NoWriter, ShredInv, OneUnlinks, SampleClean, OneRecord
<1> QED BY <1>1, OneUnlinksInvariant, ShredInvariant, PTL

=============================================================================
