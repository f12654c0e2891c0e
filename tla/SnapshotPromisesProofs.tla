------------------------ MODULE SnapshotPromisesProofs ------------------------
(* Proofs about SnapshotStorage, second part: a Save that returned success    *)
(* stays readable, a Delete leaves nothing of the key and of the payload, and *)
(* a Save that runs is not taken for a dead one.                              *)
EXTENDS SnapshotStorageProofs
USE DEF At

(* The steps of a Save that write. *)
LEMMA WritingPromises ==
  ASSUME IInv, Calls, Promises, NEW w \in Writers,
         \/ PutDEK(w) \/ writeDEK(w) \/ innerSave(w) \/ writeState(w) \/ upload(w)
         \/ writeDigest(w)
  PROVE  Calls' /\ Promises'
  <1>0. /\ Types /\ NoMarkers /\ th[w] \in Threads /\ Call(th[w]) /\ Placed(th[w])
        /\ Live(th[w]) /\ kind' = kind /\ now' = now /\ now \in Nat
        /\ "dek" \in Names /\ "pay" \in Names /\ "sha" \in Names
        /\ {"pay", "sha"} \in SUBSET Names
    BY CallOf, Zenon
    DEF PutDEK, writeDEK, innerSave, writeState, upload, writeDigest, same, Names,
       Types
  <1>a. Frame
    <2>1. odd => odd'
      BY Zenon DEF PutDEK, writeDEK, innerSave, writeState, upload, writeDigest, same
    <2> QED BY <2>1, Zenon
        DEF PutDEK, writeDEK, innerSave, writeState, upload, writeDigest, same,
       Frame
  <1> USE <1>0, <1>a
  <1>1. /\ th[w].op = "save" /\ ~PastDigest(th[w]) /\ w \in Busy /\ th[w].tok # None
        /\ th[w].pc \in {"putDEK", "writeDEK", "inner", "write", "upload", "digest"}
    BY Zenon DEF Call, InSave, InDelete, Removal, PastDigest, Busy, PutDEK, writeDEK, innerSave,
       writeState, upload, writeDigest
  <1>2. Alone(w) => SaveDone(th[w])
    BY <1>1, Zenon DEF Promises
  <1>3. obj' = obj => Objs(w) /\ Dims /\ There("sha")' = There("sha") /\ \A k \in Names : Same(k)
    BY StillObjs, Zenon DEF Same, There
  <1>4. ASSUME obj' = obj, uploads' = uploads, Return(w) PROVE Calls' /\ Promises'
    BY <1>1, <1>3, <1>4, StillUps, SaveReturns, Zenon DEF Return
  <1>5. ASSUME Objs(w), Dims, Ups(w), There("sha")' => There("sha"), Goto(w, "cleanup")
        PROVE  Calls' /\ Promises'
    <2>1. Goes(w, "cleanup")
      BY <1>5, GotoGoes, Zenon DEF Pcs
    <2>2. InSave(th[w])' /\ Placed(th[w])' /\ PastDigest(th[w])'
      BY <2>1, Zenon DEF Goes, InSave, Placed, LocalOnly, BucketOnly, PastDigest
    <2> QED BY <1>1, <1>5, <2>1, <2>2, SaveGoes, Zenon
  <1>6. Unlink({"pay", "sha"}) => Objs(w) /\ Dims /\ (There("sha")' => There("sha"))
    BY UnlinkObjs, Zenon DEF There
  <1>7. PICK t : t = th[w].tok /\ t # None
    BY <1>1, Zenon
  <1>8. ASSUME NEW k \in Names, NEW d \in {"whole", "partial"}, Put(k, Entry(th[w].tok, d))
        PROVE  /\ Objs(w) /\ Top(k)'.data = d /\ Top(k)'.tok = t /\ Top(k)'.at = now
               /\ \A j \in Names \ {k} : Same(j)
    BY <1>7, <1>8, PutObjs, Zenon
  <1>9. CASE PutDEK(w) \/ writeDEK(w)
    <2>0. Ups(w) /\ th[w].pc \in {"putDEK", "writeDEK"}
      BY <1>9, StillUps, Zenon DEF PutDEK, writeDEK
    <2>1. CASE obj' = obj /\ Return(w)
      BY <1>4, <1>9, <2>1, Zenon DEF PutDEK, writeDEK
    <2>2. CASE obj' = obj /\ ~Local /\ Goto(w, "writeDEK")
      <3>1. Goes(w, "writeDEK")
        BY <2>2, GotoGoes, Zenon DEF Pcs
      <3>2. InSave(th[w])' /\ Placed(th[w])'
        BY <2>2, <3>1, Zenon DEF Goes, InSave, Placed, LocalOnly, BucketOnly, Local
      <3> QED BY <1>1, <1>3, <2>0, <2>2, <3>1, <3>2, SaveGoes, Zenon
    <2>3. CASE Put("dek", Entry(th[w].tok, "whole")) /\ Goto(w, "inner")
      <3>1. /\ Objs(w) /\ Top("dek")'.data = "whole" /\ Top("dek")'.tok = t
            /\ Top("dek")'.at = now /\ Same("pay") /\ Same("sha")
        BY <1>8, <2>3, Zenon DEF Names
      <3>2. Goes(w, "inner")
        BY <2>3, GotoGoes, Zenon DEF Pcs
      <3>3. Call(th[w])' /\ Placed(th[w])'
        BY <1>1, <3>2, Zenon DEF Goes, Call, InSave, Placed, LocalOnly, BucketOnly
      <3>4. Token("pay") # t
        BY <1>1, <1>7, <2>0, Zenon DEF Live
      <3>5. Live(th[w])'
        BY <1>7, <3>1, <3>2, <3>4, SMTT(30) DEF Live, Goes, Token, Same
      <3>6. Alone(w) => SaveDone(th[w])'
        BY <1>2, <1>7, <2>0, <3>1, <3>2, Zenon DEF SaveDone, Goes, Holds, Same, There, Frame
      <3> QED BY <1>1, <2>0, <3>1, <3>2, <3>3, <3>5, <3>6, StepGoes, Zenon
    <2>4. CASE Put("dek", Entry(th[w].tok, "whole")) /\ Return(w)
      <3>1. Objs(w) /\ Same("sha")
        BY <1>8, <2>4, Zenon DEF Names
      <3> QED BY <1>1, <2>0, <2>4, <3>1, SaveReturns, Zenon DEF Return, Same, There
    <2> QED BY <1>9, <2>1, <2>2, <2>3, <2>4, Zenon DEF PutDEK, writeDEK
  <1>10. CASE innerSave(w)
    <2>0. th[w].pc = "inner"
      BY <1>10, Zenon DEF innerSave
    <2>1. CASE UNCHANGED store /\ Goto(w, "cleanup")
      BY <1>3, <1>5, <2>1, StillUps, Zenon DEF store
    <2>2. CASE /\ Local /\ Put("pay", Entry(th[w].tok, "partial")) /\ uploads' = uploads
               /\ th' = [th EXCEPT ![w].pc = "write", ![w].until = now + Limit]
      <3>1. /\ Objs(w) /\ Top("pay")'.tok = t /\ Top("pay")'.at = now
            /\ Same("dek") /\ Same("sha")
        BY <1>8, <2>2, Zenon DEF Names
      <3>2. Goes(w, "write") /\ th'[w].until = now + Stale
        BY <2>2, LimitGoes, Zenon
      <3>3. Call(th[w])' /\ Placed(th[w])'
        BY <1>1, <2>2, <3>2, Zenon DEF Goes, Call, InSave, Placed, LocalOnly, BucketOnly, Local
      <3>4. Token("dek") = t => Top("dek").at >= now
        BY <1>1, <1>7, <2>0, Zenon DEF Live, PastDigest
      <3>5. Top("dek").at \in Nat
        BY TopType, Zenon DEF Objects
      <3>6. Live(th[w])'
        BY <1>7, <3>1, <3>2, <3>4, <3>5, StorageAssumption, SMTT(30) DEF Live, Goes, Token, Same
      <3>7. Alone(w) => SaveDone(th[w])'
        BY <1>2, <1>7, <2>0, <3>1, <3>2, Zenon DEF SaveDone, Goes, Holds, Same, There, Frame
      <3> QED BY <1>1, <2>0, <2>2, <3>1, <3>2, <3>3, <3>6, <3>7, StepGoes, StillUps, Zenon
    <2>3. CASE /\ ~Local /\ obj' = obj
               /\ uploads' = uploads \cup {[tok |-> th[w].tok, at |-> now]}
               /\ th' = [th EXCEPT ![w].pc = "upload", ![w].until = now + Limit]
      <3>1. Goes(w, "upload") /\ th'[w].until = now + Stale
        BY <2>3, LimitGoes, Zenon
      <3>2. Call(th[w])' /\ Placed(th[w])'
        BY <1>1, <2>3, <3>1, Zenon DEF Goes, Call, InSave, Placed, LocalOnly, BucketOnly, Local
      <3>3. Ups(w)
        BY <2>3 DEF Ups, Calls, Threads
      <3>4. \A k \in {"dek", "pay"} : Token(k) = t => Top(k).at >= now /\ Top(k).at \in Nat
        BY <1>1, <1>7, <2>0, TopType, Zenon DEF Live, PastDigest, Objects
      <3>5. \E u \in uploads' : u.tok = t /\ u.at + Stale >= now + Stale
        <4> DEFINE u == [tok |-> t, at |-> now]
        <4>1. u \in uploads' /\ u.tok = t /\ u.at = now
          BY <1>7, <2>3, Zenon
        <4> QED BY <4>1, StorageAssumption
      <3>6. Live(th[w])'
        <4>1. \A k \in {"dek", "pay"} : Token(k)' = t => Top(k)'.at + Stale >= now + Stale
          BY <1>3, <2>3, <3>4, StorageAssumption DEF Token, Same
        <4> QED BY <1>7, <3>1, <3>5, <4>1, StorageAssumption DEF Live, Goes
      <3>7. Alone(w) => SaveDone(th[w])'
        BY <1>2, <1>3, <1>7, <2>0, <2>3, <3>1, Zenon
        DEF SaveDone, Goes, Holds, Same, There, Frame
      <3> QED BY <1>1, <1>3, <2>0, <2>3, <3>1, <3>2, <3>3, <3>6, <3>7, StepGoes, Zenon
    <2> QED BY <1>10, <2>1, <2>2, <2>3, Zenon DEF innerSave, store
  <1>11. CASE writeState(w) \/ upload(w)
    <2>0. th[w].pc \in {"write", "upload"}
      BY <1>11, Zenon DEF writeState, upload
    <2>1. Ups(w)
      <3>1. CASE uploads' = uploads BY <3>1, StillUps, Zenon
      <3>2. CASE uploads' = uploads \ {u \in uploads : u.tok = th[w].tok}
        BY <3>2, Zenon DEF Ups, Calls
      <3> QED BY <1>11, <3>1, <3>2, Zenon DEF writeState, upload
    <2>2. CASE Put("pay", Entry(th[w].tok, "whole")) /\ Goto(w, "digest")
      <3>1. /\ Objs(w) /\ Top("pay")'.data = "whole" /\ Top("pay")'.tok = t
            /\ Same("dek") /\ Same("sha")
        BY <1>8, <2>2, Zenon DEF Names
      <3>2. Goes(w, "digest")
        BY <2>2, GotoGoes, Zenon DEF Pcs
      <3>3. Call(th[w])' /\ Placed(th[w])' /\ Live(th[w])'
        BY <1>1, <3>2, Zenon DEF Goes, Call, InSave, Placed, LocalOnly, BucketOnly, Live
      <3>4. Alone(w) => SaveDone(th[w])'
        BY <1>2, <1>7, <2>0, <3>1, <3>2, Zenon
        DEF SaveDone, Goes, Holds, Same, There, Frame
      <3> QED BY <1>1, <2>0, <2>1, <3>1, <3>2, <3>3, <3>4, StepGoes, Zenon
    <2>3. CASE (Unlink({"pay", "sha"}) \/ obj' = obj) /\ Goto(w, "cleanup")
      BY <1>3, <1>5, <1>6, <2>1, <2>3, Zenon
    <2> QED BY <1>11, <2>2, <2>3, Zenon DEF writeState, upload
  <1>12. CASE writeDigest(w)
    <2>0. th[w].pc = "digest" /\ Ups(w)
      BY <1>12, StillUps, Zenon DEF writeDigest
    <2>1. ASSUME Put("sha", Entry(th[w].tok, "whole"))
          PROVE  /\ Objs(w) /\ Top("sha")'.data = "whole" /\ Top("sha")'.tok = t
                 /\ Same("dek") /\ Same("pay")
      BY <1>8, <2>1, Zenon DEF Names
    <2>2. CASE Put("sha", Entry(th[w].tok, "whole")) /\ Goto(w, "saved")
      <3>1. Goes(w, "saved")
        BY <2>2, GotoGoes, Zenon DEF Pcs
      <3>2. Call(th[w])' /\ Placed(th[w])' /\ Live(th[w])'
        BY <1>1, <3>1, Zenon
        DEF Goes, Call, InSave, Placed, LocalOnly, BucketOnly, Live, PastDigest
      <3>3. Alone(w) => SaveDone(th[w])'
        BY <1>2, <1>7, <2>0, <2>1, <2>2, <3>1, Zenon DEF SaveDone, Goes, Holds, Same
      <3> QED BY <1>1, <2>0, <2>1, <2>2, <3>1, <3>2, <3>3, StepGoes, Zenon
    <2>3. CASE Unlink({"pay", "sha"}) /\ Goto(w, "cleanup")
      BY <1>5, <1>6, <2>0, <2>3, Zenon
    <2>4. CASE /\ ~Local /\ DeleteAll(w, "pay", "cleanup")
               /\ obj' = obj \/ (Put("sha", Entry(th[w].tok, "whole")) /\ odd')
      <3>1. Goes(w, "delete") /\ th'[w].then = "cleanup"
        BY <2>4, DeleteGoes, Zenon DEF Pcs
      <3>2. InSave(th[w])' /\ Placed(th[w])' /\ PastDigest(th[w])'
        BY <2>4, <3>1, Zenon
        DEF Goes, InSave, Placed, LocalOnly, BucketOnly, Local, PastDigest
      <3>3. CASE obj' = obj
        BY <1>1, <1>3, <2>0, <3>1, <3>2, <3>3, SaveGoes, Zenon
      <3>4. CASE Put("sha", Entry(th[w].tok, "whole")) /\ odd'
        <4>1. Call(th[w])' /\ Live(th[w])'
          BY <1>1, <3>1, <3>2, Zenon DEF Goes, Call, Live
        <4>2. SaveDone(th[w])'
          BY <3>1, <3>4, Zenon DEF SaveDone, Goes
        <4> QED BY <1>1, <2>0, <2>1, <3>1, <3>2, <3>4, <4>1, <4>2, StepGoes, Zenon
      <3> QED BY <2>4, <3>3, <3>4, Zenon
    <2> QED BY <1>12, <2>2, <2>3, <2>4, Zenon DEF writeDigest
  <1> QED BY <1>9, <1>10, <1>11, <1>12, Zenon

(* The steps that end a Save. *)
LEMMA EndingPromises ==
  ASSUME IInv, Calls, Promises, NEW w \in Writers, saved(w) \/ cleanup(w) \/ cleanedUp(w)
  PROVE  Calls' /\ Promises'
  <1>0. /\ Types /\ NoMarkers /\ Call(th[w]) /\ Placed(th[w]) /\ "dek" \in Names
        /\ kind' = kind /\ obj' = obj /\ Ups(w)
    BY CallOf, StillUps, Zenon DEF saved, cleanup, cleanedUp, same, store, Names
  <1>1. /\ th[w].op = "save" /\ w \in Busy /\ th[w].tok # None
        /\ th[w].pc \in {"saved", "cleanup", "idleNow"}
    BY <1>0, Zenon DEF Call, InSave, InDelete, Removal, Busy, saved, cleanup, cleanedUp
  <1>2. Objs(w) /\ Dims /\ There("sha")' = There("sha") /\ Content' = Content
    BY <1>0, StillObjs, Zenon DEF Same, There, Names
  <1>3. CASE saved(w)
    <2>0. /\ th[w].pc = "saved" /\ th' = [th EXCEPT ![w] = Idle]
          /\ UNCHANGED <<kind, now, saves, erased, odd>>
          /\ acked' = IF th[w].alone THEN th[w].tok ELSE acked
      BY <1>3, Zenon DEF saved, Return
    <2>1. Alone(w) => Content = th[w].tok
      <3>1. Alone(w) => Holds("dek", th[w].tok) /\ Holds("pay", th[w].tok) /\ Holds("sha", th[w].tok)
        BY <1>1, <2>0, Zenon DEF Promises, SaveDone
      <3> QED BY <3>1, ContentIs DEF ContentOf, Whole, Holds, Marker
    <2>2. acked = None /\ ~erased
      BY <1>1, <2>0, Zenon DEF Promises
    <2>3. acked' # None => /\ Content' = acked'
                           /\ \A v \in Writers \ {w} : th[v].pc \in {"idle", "complete"}
      BY <1>1, <1>2, <2>0, <2>1, <2>2, Zenon DEF Alone, Calls, Busy
    <2>4. Alone(w) => Sound'
      BY <1>1, <1>2, <2>1, Zenon DEF Sound
    <2> QED BY <1>0, <1>1, <1>2, <2>0, <2>2, <2>3, <2>4, StepReturns, Zenon
  <1>4. CASE cleanup(w) \/ cleanedUp(w)
    <2>0. Frame /\ th[w].pc \in {"cleanup", "idleNow"} /\ PastDigest(th[w])
      BY <1>4 DEF cleanup, cleanedUp, same, Frame, PastDigest
    <2>1. CASE Return(w)
      BY <1>0, <1>1, <1>2, <2>0, <2>1, SaveReturns, Zenon DEF Return
    <2>2. CASE Local /\ th' = [th EXCEPT ![w].pc = "shred", ![w].then = "idle"]
      <3>1. Goes(w, "shred") /\ th'[w].then = "idle"
        BY <1>0, <2>2, ShredGoes, Zenon DEF Pcs
      <3>2. InSave(th[w])' /\ Placed(th[w])' /\ PastDigest(th[w])'
        BY <1>0, <2>2, <3>1, Zenon
        DEF Goes, InSave, Placed, LocalOnly, BucketOnly, Local, PastDigest
      <3> QED BY <1>0, <1>1, <1>2, <2>0, <3>1, <3>2, SaveGoes, Zenon
    <2>3. CASE ~Local /\ DeleteAll(w, "dek", "idleNow")
      <3>1. Goes(w, "delete") /\ th'[w].then = "idleNow"
        BY <1>0, <2>3, DeleteGoes, Zenon DEF Pcs
      <3>2. InSave(th[w])' /\ Placed(th[w])' /\ PastDigest(th[w])'
        BY <1>0, <2>3, <3>1, Zenon
        DEF Goes, InSave, Placed, LocalOnly, BucketOnly, Local, PastDigest
      <3> QED BY <1>0, <1>1, <1>2, <2>0, <3>1, <3>2, SaveGoes, Zenon
    <2> QED BY <1>4, <2>1, <2>2, <2>3, Zenon DEF cleanup, cleanedUp
  <1> QED BY <1>3, <1>4, Zenon

(* The steps of a Delete. *)
LEMMA DeletePromises ==
  ASSUME IInv, Calls, Promises, NEW w \in Writers,
         \/ destroyDEK(w) \/ innerDelete(w) \/ deleteRest(w) \/ overwriteState(w)
         \/ unlinkState(w) \/ unlinkDigest(w) \/ removeDir(w) \/ deleted(w)
  PROVE  Calls' /\ Promises'
  <1>0. /\ Types /\ NoMarkers /\ Call(th[w]) /\ Placed(th[w])
        /\ kind' = kind /\ Ups(w)
        /\ "dek" \in Names /\ "pay" \in Names /\ "sha" \in Names
    BY CallOf, StillUps, Zenon
    DEF destroyDEK, innerDelete, deleteRest, overwriteState, unlinkState,
       unlinkDigest, removeDir, deleted, same, quiet, store, Names
  <1> USE <1>0
  <1>1. /\ th[w].op = "delete" /\ w \in Busy
        /\ th[w].pc \in {"destroy", "inner-delete", "delete-sha", "delete-dek", "zero",
                         "unlink", "unlink-sha", "rmdir", "deleted"}
    BY Zenon DEF Call, InSave, InDelete, Removal, Busy, destroyDEK, innerDelete, deleteRest,
       overwriteState, unlinkState, unlinkDigest, removeDir, deleted
  <1>2. obj' = obj => /\ Objs(w) /\ \A k \in Names : Clear(k)' = Clear(k)
                      /\ \A k \in Names : There(k)' = There(k)
    BY StillObjs, Zenon DEF Same, There
  <1>3. Local /\ ~There("dek") => Clear("dek")
    BY DEF NoMarkers, Clear
  <1>4. Local /\ ~There("pay") => Clear("pay")
    BY DEF NoMarkers, Clear
  (* A step to another point, and the start of a removal. *)
  <1>5. ASSUME Frame, Objs(w), \A k \in {"dek", "pay"} : Clear(k) => Clear(k)',
               NEW p \in {"inner-delete", "zero", "unlink", "unlink-sha", "rmdir", "deleted"},
               Goto(w, p), p \in LocalOnly => Local,
               (p = "deleted" \/ Local) /\ DeleteDone(th[w]) => Clear("dek")',
               p \in {"unlink-sha", "rmdir", "deleted"} /\ DeleteDone(th[w]) => Clear("pay")',
               ~odd /\ DeleteDone(th[w]) =>
                 /\ p = "inner-delete" /\ There("sha")' => There("pay")'
                 /\ p = "zero" => There("pay")'
                 /\ p \in {"rmdir", "deleted"} => ~There("sha")'
        PROVE  Calls' /\ Promises'
    <2>1. Goes(w, p)
      BY <1>5, GotoGoes, Zenon DEF Pcs
    <2>2. InDelete(th[w])' /\ Placed(th[w])'
      BY <1>5, <2>1, Zenon DEF Goes, InDelete, Placed, LocalOnly, BucketOnly, Local
    <2>3. DeleteDone(th[w]) => DeleteDone(th[w])'
      BY <1>5, <2>1, Zenon DEF Goes, DeleteDone, Removal, Frame, Local
    <2> QED BY <1>1, <1>5, <2>1, <2>2, <2>3, DeleteStepGoes, Zenon
  <1>6. ASSUME Frame, obj' = obj, ~Local, NEW k \in Names,
               NEW n \in {"inner-delete", "delete-sha", "delete-dek", "deleted"},
               DeleteAll(w, k, n),
               \/ n = "inner-delete" /\ k = "dek" /\ th[w].pc = "destroy"
               \/ n = "delete-sha" /\ k = "pay" /\ th[w].pc = "inner-delete"
               \/ n = "delete-dek" /\ k = "sha" /\ th[w].pc = "delete-sha"
               \/ n = "deleted" /\ k = "dek" /\ th[w].pc = "delete-dek"
        PROVE  Calls' /\ Promises'
    <2>1. Goes(w, "delete") /\ th'[w].then = n /\ th'[w].key = k
      BY <1>6, DeleteGoes, SMTT(30) DEF Pcs
    <2>2. InDelete(th[w])' /\ Placed(th[w])'
      BY <1>6, <2>1, Zenon DEF Goes, InDelete, Placed, LocalOnly, BucketOnly, Local
    <2>3. DeleteDone(th[w]) => DeleteDone(th[w])'
      BY <1>2, <1>6, <2>1, Zenon DEF Goes, DeleteDone, Removal, Frame, Local
    <2> QED BY <1>1, <1>2, <1>6, <2>1, <2>2, <2>3, DeleteStepGoes, Zenon
  <1>7. CASE destroyDEK(w)
    <2>0. obj' = obj /\ th[w].pc = "destroy" /\ Frame
      <3>1. odd => odd'
        BY <1>7, Zenon DEF destroyDEK
      <3> QED BY <1>7, <3>1, Zenon DEF destroyDEK, store, Frame
    <2>1. CASE ~There("dek") /\ Goto(w, "inner-delete")
      BY <1>2, <1>3, <1>5, <2>0, <2>1, Zenon DEF DeleteDone, LocalOnly, Removal
    <2>2. CASE Local /\ th' = [th EXCEPT ![w].pc = "shred", ![w].then = "inner-delete"]
      <3>1. Goes(w, "shred") /\ th'[w].then = "inner-delete"
        BY <2>2, ShredGoes, Zenon DEF Pcs
      <3>2. InDelete(th[w])' /\ Placed(th[w])'
        BY <2>2, <3>1, Zenon DEF Goes, InDelete, Placed, LocalOnly, BucketOnly, Local
      <3>3. DeleteDone(th[w]) => DeleteDone(th[w])'
        BY <1>2, <2>0, <3>1, Zenon DEF Goes, DeleteDone, Removal, Frame
      <3> QED BY <1>1, <1>2, <2>0, <3>1, <3>2, <3>3, DeleteStepGoes, Zenon
    <2>3. CASE ~Local /\ DeleteAll(w, "dek", "inner-delete")
      BY <1>6, <2>0, <2>3, Zenon
    <2>4. CASE Return(w) /\ odd'
      BY <1>1, <1>2, <2>0, <2>4, DeleteReturns, Zenon DEF Return
    <2> QED BY <1>7, <2>1, <2>2, <2>3, <2>4, Zenon DEF destroyDEK
  <1>8. CASE innerDelete(w)
    <2>0. obj' = obj /\ th[w].pc = "inner-delete" /\ Frame
      BY <1>8, Zenon DEF innerDelete, quiet, same, store, Frame
    <2>1. CASE Local /\ There("pay") /\ Goto(w, "zero")
      BY <1>2, <1>5, <2>0, <2>1, Zenon DEF DeleteDone
    <2>2. CASE Local /\ ~There("pay") /\ Goto(w, "deleted")
      BY <1>2, <1>4, <1>5, <2>0, <2>2, Zenon DEF DeleteDone, Removal
    <2>3. CASE ~Local /\ DeleteAll(w, "pay", "delete-sha")
      BY <1>6, <2>0, <2>3, Zenon
    <2> QED BY <1>8, <2>1, <2>2, <2>3, Zenon DEF innerDelete
  <1>9. CASE deleteRest(w)
    <2>1. obj' = obj /\ Frame
      BY <1>9, Zenon DEF deleteRest, quiet, same, store, Frame
    <2>2. ~Local
      BY <1>9, Zenon DEF deleteRest, Placed, BucketOnly
    <2> QED BY <1>6, <1>9, <2>1, <2>2, Zenon DEF deleteRest
  <1>10. CASE overwriteState(w)
    <2>0. Zero("pay") /\ th[w].pc = "zero" /\ Frame /\ Local
      BY <1>10, Zenon DEF overwriteState, same, Frame, Placed, LocalOnly
    <2>1. /\ Objs(w) /\ Same("dek") /\ Same("sha") /\ There("pay")' = There("pay")
          /\ \A k \in {"dek", "pay"} : Clear(k) => Clear(k)'
      BY <2>0, ZeroObjs, Zenon DEF Names, Same
    <2>2. CASE Goto(w, "unlink")
      BY <1>5, <2>0, <2>1, <2>2, Zenon DEF DeleteDone
    <2>3. CASE ~There("pay") /\ th' = [th EXCEPT ![w] = Idle]
      <3>1. odd' \/ (DeleteDone(th[w]) => ~There("sha")')
        BY <2>0, <2>3, Zenon DEF DeleteDone, Frame
      <3> QED BY <1>1, <2>0, <2>1, <2>3, <3>1, DeleteReturns, Zenon
    <2> QED BY <1>10, <2>2, <2>3, Zenon DEF overwriteState
  <1>11. CASE unlinkState(w)
    <2>0. Unlink({"pay"}) /\ th[w].pc = "unlink" /\ Frame /\ Local /\ Goto(w, "unlink-sha")
      BY <1>11, Zenon DEF unlinkState, same, Frame, Placed, LocalOnly
    <2>1. Objs(w) /\ Same("dek") /\ Same("sha") /\ Clear("pay")'
      BY <2>0, UnlinkObjs, Zenon DEF Names
    <2> QED BY <1>5, <2>0, <2>1, Zenon DEF DeleteDone, Same
  <1>12. CASE unlinkDigest(w)
    <2>0. Unlink({"sha"}) /\ th[w].pc = "unlink-sha" /\ Frame /\ Local /\ Goto(w, "rmdir")
      BY <1>12, Zenon DEF unlinkDigest, same, Frame, Placed, LocalOnly
    <2>1. Objs(w) /\ Same("dek") /\ Same("pay") /\ ~There("sha")'
      BY <2>0, UnlinkObjs, SMTT(30) DEF Names, There
    <2> QED BY <1>5, <2>0, <2>1, Zenon DEF DeleteDone, Same
  <1>13. CASE removeDir(w)
    <2>0. obj' = obj /\ th[w].pc = "rmdir" /\ Frame /\ Local /\ Goto(w, "deleted")
      BY <1>13, Zenon DEF removeDir, same, Frame, Placed, LocalOnly
    <2> QED BY <1>2, <1>5, <2>0, Zenon DEF DeleteDone
  <1>14. CASE deleted(w)
    <2>0. /\ obj' = obj /\ th[w].pc = "deleted" /\ th' = [th EXCEPT ![w] = Idle]
          /\ UNCHANGED <<kind, now, saves, acked, odd>> /\ (erased' => erased \/ th[w].alone)
      BY <1>14, Zenon DEF deleted, store
    <2>1. Alone(w) => DeleteDone(th[w]) /\ \A v \in Writers \ {w} : th[v].op # "save"
      BY <1>1, Zenon DEF Promises, Calls, Call, InSave, Removal, Busy
    <2>2. acked = None
      BY <2>0, Zenon DEF Promises
    <2>3. erased' => /\ Clear("dek")' /\ Clear("pay")'
                     /\ \A v \in Writers \ {w} : th[v].op # "save"
      <3>1. CASE erased BY <1>2, <2>0, <3>1, Zenon DEF Promises
      <3>2. CASE th[w].alone
        BY <1>1, <1>2, <2>0, <2>1, <3>2, Zenon DEF DeleteDone, Alone, Removal
      <3> QED BY <2>0, <3>1, <3>2, Zenon
    <2>4. ~odd' /\ Alone(w) => Sound'
      BY <1>2, <2>0, <2>1, Zenon DEF DeleteDone, Removal, Sound
    <2> QED BY <1>1, <1>2, <2>0, <2>2, <2>3, <2>4, StepReturns, Zenon
  <1> QED BY <1>7, <1>8, <1>9, <1>10, <1>11, <1>12, <1>13, <1>14, Zenon

(* What a digest with a snapshot implies. *)
LEMMA SoundThere ==
  ASSUME Types, Sound
  PROVE  There("sha") => There("pay")
  BY ContentIs, StorageAssumption, Zenon DEF Sound, ContentOf, Whole, There, Marker

(* A call that begins: the others are alone no longer. *)
LEMMA BeginningPromises ==
  ASSUME IInv, Calls, Promises, NEW w \in Writers, Save(w) \/ Delete(w)
  PROVE  Calls' /\ Promises'
  <1>1. PICK r \in Threads :
          /\ Begin(w, r)
          /\ \/ r = Asked /\ Save(w)
             \/ r = AskedDelete /\ Delete(w)
    BY AskedFields, Zenon DEF IInv, Save, Delete, Asked, AskedDelete
  <1>2. \/ /\ Save(w) /\ r.tok = saves + 1 /\ r.pc = "complete" /\ r.op = "save"
           /\ saves' = saves + 1 /\ erased' = FALSE /\ acked' = acked
        \/ /\ Delete(w) /\ r.tok = None /\ r.pc = "destroy" /\ r.op = "delete"
           /\ saves' = saves /\ acked' = None /\ erased' = erased
    BY <1>1, AskedFields, Zenon DEF IInv, Save, Delete
  <1>3. /\ th[w]'.tok = r.tok /\ th[w]'.pc = r.pc /\ th[w]'.op = r.op
        /\ th[w]'.alone = (Busy = {})
        /\ \A v \in Writers \ {w} :
             /\ th[v]'.tok = th[v].tok /\ th[v]'.pc = th[v].pc /\ th[v]'.op = th[v].op
             /\ th[v]'.then = th[v].then /\ th[v]'.until = th[v].until
             /\ th[v]'.key = th[v].key /\ th[v]'.alone = FALSE
    BY <1>1, BeginFields, Zenon DEF IInv
  <1>4. obj' = obj /\ uploads' = uploads /\ kind' = kind /\ now' = now
    BY Zenon DEF Save, Delete, store
  <1>5. odd' <=> (odd \/ Busy # {})
    BY <1>1, Zenon DEF Begin
  <1>6. /\ NoMarkers' /\ Content' = Content
        /\ \A k \in Names : Top(k)' = Top(k) /\ Clear(k)' = Clear(k)
    BY <1>4, StillObjs, Zenon DEF Promises, Objs, Same
  <1>7. Busy' = Busy \cup {w} /\ w \notin Busy
    <2>1. th[w].pc = "idle"
      BY Zenon DEF Save, Delete
    <2>2. r.pc # "idle"
      BY <1>2, Zenon
    <2> QED BY <1>3, <2>1, <2>2, Zenon DEF Busy
  <1>8. \A v \in Writers : Alone(v)' => v = w /\ Busy = {}
    BY <1>3, Zenon DEF Alone
  <1>9. ~odd' => Sound'
    BY <1>5, <1>6, Zenon DEF Promises, Sound, There, Names
  <1>10. Calls'
    <2>1. \A k \in Names : Token(k)' \in 1..saves \cup {None}
      BY <1>6, Zenon DEF Calls, Token
    <2>2. \A k \in Names : Token(k)' \in 1..saves' \cup {None}
      BY <1>2, <2>1 DEF IInv, Types
    <2>3. Call(th[w])' /\ Placed(th[w])' /\ Live(th[w])'
      <3>1. Call(th[w])' /\ Placed(th[w])'
        BY <1>2, <1>3, StorageAssumption DEF Call, InSave, InDelete, Placed, LocalOnly,
           BucketOnly, IInv, Types
      <3>2. \A k \in Names : r.tok # None => Token(k)' # r.tok
        BY <1>2, <2>1, StorageAssumption DEF IInv, Types
      <3> QED BY <1>2, <1>3, <3>1, <3>2, Zenon DEF Live, Names
    <2>4. ASSUME NEW v \in Writers \ {w} PROVE Call(th[v])' /\ Placed(th[v])' /\ Live(th[v])'
      <3>1. Call(th[v]) /\ Placed(th[v]) /\ Live(th[v])
        BY Zenon DEF Calls
      <3>2. Call(th[v])'
        BY <1>3, <3>1, Zenon DEF Call, InSave, InDelete
      <3>3. Placed(th[v])'
        BY <1>3, <1>4, <3>1, Zenon DEF Placed, Local
      <3>4. PastDigest(th[v])' = PastDigest(th[v])
        BY <1>3, Zenon DEF PastDigest
      <3> QED BY <1>3, <1>4, <1>6, <3>1, <3>2, <3>3, <3>4, Zenon DEF Live, Token, Names
    <2>5. \A v \in Writers : Alone(v)' => \A u \in Writers \ {v} : u \notin Busy'
      BY <1>7, <1>8, Zenon
    <2>6. ~odd' => \A v \in Busy' : th[v]'.alone
      BY <1>3, <1>5, <1>7, Zenon
    <2>7. uploads' \subseteq [tok : Nat \cup {None}, at : Nat]
      BY <1>4, Zenon DEF Calls
    <2> QED BY <2>2, <2>3, <2>4, <2>5, <2>6, <2>7, Zenon DEF Calls
  <1>11. ASSUME Alone(w)'
         PROVE  /\ th[w]'.op = "save" => SaveDone(th[w])'
                /\ th[w]'.op = "delete" => DeleteDone(th[w])'
    <2>1. CASE r.op = "save"
      BY <1>2, <1>3, <1>9, <2>1, Zenon DEF SaveDone
    <2>2. CASE r.op = "delete"
      <3>1. ~odd' => (There("sha")' => There("pay")')
        <4>1. ~odd' => Sound
          BY <1>5, Zenon DEF Promises
        <4> QED BY <1>6, <4>1, SoundThere, Zenon DEF IInv, There, Names
      <3>2. th[w]'.pc = "destroy"
        BY <1>2, <1>3, <2>2, Zenon
      <3> QED BY <1>3, <2>2, <3>1, <3>2, Zenon DEF DeleteDone, Removal
    <2> QED BY <1>2, <2>1, <2>2, Zenon
  <1>12. acked' # None => /\ Content' = acked'
                          /\ \A v \in Writers : th[v]'.pc \in {"idle", "complete"}
    BY <1>2, <1>3, <1>6, Zenon DEF Promises
  <1>13. erased' => Clear("dek")' /\ Clear("pay")' /\ \A v \in Writers : th[v]'.op # "save"
    BY <1>2, <1>3, <1>6, Zenon DEF Promises, Names
  <1> QED BY <1>6, <1>7, <1>8, <1>10, <1>11, <1>12, <1>13, Zenon DEF Promises

(* Steps that change neither an object nor a call. *)
LEMMA StillPromises ==
  ASSUME IInv, Calls, Promises, UNCHANGED <<kind, obj, th, saves, acked, erased, odd>>,
         \A v \in Writers : Live(th[v])', uploads' \subseteq uploads
  PROVE  Calls' /\ Promises'
  <1>1. /\ NoMarkers' /\ Content' = Content
        /\ \A k \in Names : Top(k)' = Top(k) /\ Clear(k)' = Clear(k)
    BY StillObjs, Zenon DEF Promises, Objs, Same
  <1>2. Busy' = Busy /\ \A v \in Writers : Alone(v)' = Alone(v)
    BY Zenon DEF Busy, Alone
  <1>3. \A v \in Writers : Call(th[v])' /\ Placed(th[v])'
    BY DEF Calls, Call, InSave, InDelete, Placed, Local
  <1>4. Calls'
    BY <1>1, <1>2, <1>3, Zenon DEF Calls, Token
  <1>5. Sound' = Sound
    BY <1>1, Zenon DEF Sound, There, Names
  <1>6. \A v \in Writers : (SaveDone(th[v]) => SaveDone(th[v])')
    BY <1>1, <1>5, Zenon DEF SaveDone, Holds, There, Names
  <1>7. \A v \in Writers : (DeleteDone(th[v]) => DeleteDone(th[v])')
    BY <1>1, ZenonT(30) DEF DeleteDone, Clear, There, Names, Local
  <1> QED BY <1>1, <1>2, <1>4, <1>5, <1>6, <1>7, Zenon DEF Promises, Names

(* The sweep of an agent that starts, and the clock. *)
LEMMA ClockPromises ==
  ASSUME IInv, Calls, Promises, AbortStaleMultipartUploads \/ Tick
  PROVE  Calls' /\ Promises'
  <1>1. UNCHANGED <<kind, obj, th, saves, acked, erased>> /\ uploads' \subseteq uploads
    BY Zenon DEF AbortStaleMultipartUploads, Tick, same, store
  <1>2. odd' = odd
    BY Zenon DEF AbortStaleMultipartUploads, Tick, same
  <1>3. \A k \in Names : Top(k)' = Top(k)
    BY <1>1, Zenon DEF Top
  <1>4. ASSUME NEW v \in Writers PROVE Live(th[v])'
    <2>1. /\ Live(th[v]) /\ Call(th[v]) /\ th[v].until \in Nat
          /\ now \in Nat /\ Stale \in Nat /\ uploads \subseteq [tok : Nat \cup {None}, at : Nat]
      BY StorageAssumption, Zenon DEF Calls, IInv, Types, Threads
    <2>2. PastDigest(th[v])' = PastDigest(th[v]) /\ th'[v] = th[v]
      BY <1>1, Zenon DEF PastDigest
    <2>3. CASE AbortStaleMultipartUploads
      <3>1. now' = now /\ uploads' = uploads \ Stalled
        BY <2>3, Zenon DEF AbortStaleMultipartUploads, same
      <3>2. ASSUME th[v].pc = "upload"
            PROVE  \E u \in uploads' : u.tok = th[v].tok /\ u.at + Stale >= th[v].until
        <4>1. PICK u \in uploads : u.tok = th[v].tok /\ u.at + Stale >= th[v].until
          BY <2>1, <3>2, Zenon DEF Live
        <4>2. now <= th[v].until
          BY <2>1, <3>2, Zenon DEF Live
        <4>3. u.at \in Nat
          BY <2>1, Zenon
        <4>4. ~(u.at < now - Stale)
          BY <2>1, <4>1, <4>2, <4>3
        <4> QED BY <3>1, <4>1, <4>4, Zenon DEF Stalled
      <3> QED BY <1>3, <2>1, <2>2, <3>1, <3>2, Zenon DEF Live, Token, Names
    <2>4. CASE Tick
      <3>1. now' = now + 1 /\ uploads' = uploads
        BY <2>4, Zenon DEF Tick, store
      <3>2. CASE th[v].pc = "idle"
        <4>1. th[v].tok = None
          BY <2>1, <3>2, Zenon DEF Call, InSave, InDelete
        <4> QED BY <2>2, <3>2, <4>1, Zenon DEF Live
      <3>3. CASE th[v].pc \in {"write", "upload"} /\ now < th[v].until
        <4>1. now' <= th[v].until
          BY <2>1, <3>1, <3>3
        <4> QED BY <1>3, <2>1, <2>2, <3>1, <3>3, <4>1, Zenon DEF Live, Token, Names, PastDigest
      <3> QED BY <2>1, <2>4, <3>2, <3>3 DEF Tick, Busy, Late
    <2> QED BY <2>3, <2>4, Zenon
  <1> QED BY <1>1, <1>2, <1>4, StillPromises, Zenon

(* A crash ends the calls of a process where they are. *)
LEMMA CrashPromises ==
  ASSUME IInv, Calls, Promises, NEW p, Crash(p)
  PROVE  Calls' /\ Promises'
  <1> DEFINE dead == {w \in Busy : Process(w) = p}
  <1>1. /\ UNCHANGED <<kind, now, saves, acked, erased, uploads>>
        /\ dead # {}
        /\ th' = [w \in Writers |-> IF w \in dead THEN Idle ELSE th[w]]
    BY Zenon DEF Crash
  <1>2. /\ Idle.pc = "idle" /\ Idle.tok = None /\ Idle.op = "none"
        /\ dead \subseteq Busy /\ Busy \subseteq Writers
    BY Zenon DEF Idle, Busy
  <1>3. \/ obj' = obj /\ (odd' <=> (odd \/ \E w \in dead : th[w].op = "delete"))
        \/ /\ odd'
           /\ \E w \in dead : th[w].pc = "digest" /\ Put("sha", Entry(th[w].tok, "partial"))
    BY Zenon DEF Crash
  <1> HIDE DEF dead
  <1>4. /\ \A v \in dead : v \in Writers /\ th'[v] = Idle
        /\ \A v \in Writers \ dead : th'[v] = th[v]
    BY <1>1, <1>2, Zenon
  <1>5. Busy' = Busy \ dead
    BY <1>2, <1>4, Zenon DEF Busy
  <1>6. \A v \in Writers : ~Alone(v)'
    BY <1>1, <1>2, <1>4, <1>5, ZenonT(30) DEF Alone, Calls
  <1>7. /\ NoMarkers' /\ \A k \in {"dek", "pay"} : Same(k)
        /\ Token("sha")' \in 1..saves \cup {None}
    <2>1. CASE obj' = obj
      BY <1>1, <2>1, StillObjs, Zenon DEF Promises, Objs, Same, Names, Token, Calls
    <2>2. CASE \E w \in dead : Put("sha", Entry(th[w].tok, "partial"))
      <3>1. PICK w \in dead : Put("sha", Entry(th[w].tok, "partial"))
        BY <2>2, Zenon
      <3>2. w \in Writers /\ "sha" \in Names
        BY <1>4, Zenon DEF Names
      <3>3. /\ Objs(w) /\ \A j \in Names \ {"sha"} : Same(j)
            /\ Token("sha")' = th[w].tok
        BY <1>1, <3>1, <3>2, PutObjs, Zenon DEF IInv, Promises, Token
      <3> QED BY <3>2, <3>3, Zenon DEF Objs, Names, IInv, Fresh
    <2> QED BY <1>3, <2>1, <2>2, Zenon
  <1>8. ~odd' => ~odd /\ obj' = obj /\ \A w \in dead : th[w].op # "delete"
    BY <1>3, Zenon
  <1>9. Calls'
    <2>1. \A k \in Names : Token(k)' \in 1..saves' \cup {None}
      BY <1>1, <1>7, Zenon DEF Calls, Same, Token, Names
    <2>2. ASSUME NEW v \in dead PROVE Call(th[v])' /\ Placed(th[v])' /\ Live(th[v])'
      BY <1>2, <1>4, Zenon DEF Call, Placed, LocalOnly, BucketOnly, Live
    <2>3. ASSUME NEW v \in Writers \ dead
          PROVE  Call(th[v])' /\ Placed(th[v])' /\ Live(th[v])'
      <3>1. Call(th[v]) /\ Placed(th[v]) /\ Live(th[v])
        BY Zenon DEF Calls
      <3>2. Call(th[v])' /\ Placed(th[v])'
        BY <1>1, <1>4, <3>1, Zenon DEF Call, InSave, InDelete, Placed, Local
      <3>3. PastDigest(th[v])' = PastDigest(th[v])
        BY <1>4, Zenon DEF PastDigest
      <3> QED BY <1>1, <1>4, <1>7, <3>1, <3>2, <3>3, Zenon DEF Live, Token, Same
    <2>4. ~odd' => \A v \in Busy' : th'[v].alone
      BY <1>2, <1>4, <1>5, <1>8, Zenon DEF Calls
    <2> QED BY <1>1, <1>6, <2>1, <2>2, <2>3, <2>4, Zenon DEF Calls
  <1>10. ~odd' /\ Busy' = {} => Sound'
    <2> SUFFICES ASSUME ~odd' PROVE Sound'
      BY Zenon
    <2>1. PICK w \in dead : w \in Writers /\ w \in Busy
      BY <1>1, <1>2, Zenon
    <2>2. Alone(w) /\ ~odd /\ th[w].op # "delete" /\ obj' = obj
      BY <1>8, <2>1, Zenon DEF Calls, Alone
    <2>3. th[w].op = "save" /\ th[w].tok # None
      BY <2>1, <2>2, Zenon DEF Calls, Call, Busy
    <2>4. SaveDone(th[w])
      BY <2>1, <2>2, <2>3, Zenon DEF Promises
    <2>5. th[w].pc = "saved" => Content # None
      <3>1. th[w].pc = "saved" => \A k \in Names : Holds(k, th[w].tok) /\ There(k)
        BY <2>3, <2>4 DEF SaveDone, Holds, There, Marker, Names
      <3> QED BY <2>3, <3>1, ContentIs, Zenon DEF Holds, There, ContentOf, Whole, Names
    <2>6. Sound
      BY <2>2, <2>4, <2>5, Zenon DEF SaveDone, Sound
    <2> QED BY <1>1, <2>2, <2>6, StillObjs, Zenon DEF Promises, Sound, Same, There, Names
  <1>11. CASE obj' = obj
    <2>1. Content' = Content
      BY <1>1, <1>11, StillObjs, Zenon DEF Promises
    <2>2. acked' # None => /\ Content' = acked'
                           /\ \A v \in Writers : th'[v].pc \in {"idle", "complete"}
      BY <1>1, <1>2, <1>4, <2>1, Zenon DEF Promises
    <2>3. erased' => Clear("dek")' /\ Clear("pay")' /\ \A v \in Writers : th'[v].op # "save"
      BY <1>1, <1>2, <1>4, <1>7, Zenon DEF Promises, Same
    <2> QED BY <1>6, <1>7, <1>9, <1>10, <2>2, <2>3, Zenon DEF Promises
  <1>12. CASE \E w \in dead : th[w].pc = "digest"
    <2>1. PICK w \in dead : w \in Writers /\ th[w].pc = "digest"
      BY <1>4, <1>12, Zenon
    <2>2. th[w].op = "save"
      BY <2>1, Zenon DEF Calls, Call, InDelete
    <2>3. acked' = None /\ ~erased'
      BY <1>1, <2>1, <2>2, Zenon DEF Promises
    <2> QED BY <1>6, <1>7, <1>9, <1>10, <2>3, Zenon DEF Promises
  <1> QED BY <1>3, <1>11, <1>12, Zenon

(* Every step keeps what the calls have done. *)
LEMMA NextPromises ==
  ASSUME IInv, Calls, Promises, Next
  PROVE  Calls' /\ Promises'
  <1>1. ASSUME NEW w \in Writers, Step(w) PROVE Calls' /\ Promises'
    BY <1>1, BeginningPromises, ClearingPromises, RemovalPromises, WritingPromises,
       EndingPromises, DeletePromises, Zenon DEF Step
  <1> QED BY <1>1, ClockPromises, CrashPromises, Zenon DEF Next, Act

(* So does a step that changes nothing. *)
LEMMA StutterPromises ==
  ASSUME IInv, Calls, Promises, UNCHANGED vars
  PROVE  Calls' /\ Promises'
  <1>1. UNCHANGED <<kind, now, obj, uploads, th, saves, acked, erased>>
    BY Zenon DEF vars, store
  <1>2. odd' = odd
    BY Zenon DEF vars
  <1>3. \A k \in Names : Top(k)' = Top(k)
    BY <1>1, Zenon DEF Top
  <1>4. \A v \in Writers : Live(th[v])'
    BY <1>1, <1>3 DEF Calls, Live, Token, Names, PastDigest
  <1> QED BY <1>1, <1>2, <1>4, StillPromises, Zenon

(* The store begins with no call under way and nothing in it. *)
LEMMA InitPromises ==
  ASSUME Init
  PROVE  Calls /\ Promises
  <1>1. /\ Idle.pc = "idle" /\ Idle.tok = None /\ Idle.op = "none"
        /\ \A w \in Writers : th[w] = Idle
    BY Zenon DEF Idle, Init
  <1>2. \A k \in Names : Top(k) = Marker /\ Token(k) = None /\ Clear(k) /\ obj[k] = <<>>
    BY DEF Init, Top, Token, Clear, Marker
  <1>3. Busy = {}
    BY <1>1, Zenon DEF Busy
  <1>4. Calls
    BY <1>1, <1>2, <1>3, Zenon DEF Calls, Call, Placed, LocalOnly, BucketOnly, Live, Alone, Init
  <1> QED BY <1>1, <1>2, <1>3, <1>4, Zenon
      DEF Promises, NoMarkers, Alone, Sound, There, Names, Init

(* The invariant of the calls under way. *)
LEMMA PromisesKept == Spec => [](IInv /\ Calls /\ Promises)
  <1>1. Init => IInv /\ Calls /\ Promises
    BY InitKeeps, InitPromises, Zenon
  <1>2. IInv /\ Calls /\ Promises /\ [Next]_vars => (IInv /\ Calls /\ Promises)'
    BY NextKeeps, StutterKeeps, NextPromises, StutterPromises, Zenon
  <1> QED BY <1>1, <1>2, PTL DEF Spec

(* A Save that returned success, and that no other call overlapped, stays  *)
(* readable until a Delete begins; and a digest that makes Save refuse the *)
(* id stands for a snapshot that can be read, unless calls overlapped or a *)
(* Delete or the write of a digest stopped half way: for every number of   *)
(* callers, saves, ticks, errors and crashes.                              *)
THEOREM AckedSafe == Spec => []AckedReadable
  <1>1. Promises => AckedReadable
    BY Zenon DEF Promises, AckedReadable, Sound
  <1> QED BY <1>1, PromisesKept, PTL

(* After a Delete that was reported as a success, and that no other call   *)
(* overlapped, no version of the sealed key or of the payload is left.     *)
THEOREM ErasedSafe == Spec => []ErasedIsGone
  <1>1. Promises => ErasedIsGone
    BY Zenon DEF Promises, ErasedIsGone, Clear
  <1> QED BY <1>1, PromisesKept, PTL

(* The upload of a Save that runs is never aborted by the sweep of another *)
(* agent, and what it has written is never taken for the remains of a dead *)
(* one.                                                                    *)
THEOREM LiveSavesSafe == Spec => []LiveSaveKept
  <1>1. IInv /\ Calls => LiveSaveKept
    <2> SUFFICES ASSUME IInv, Calls PROVE LiveSaveKept
      BY Zenon
    <2>1. \A w \in Writers : th[w].pc = "upload" => \E u \in uploads : u.tok = th[w].tok
      BY Zenon DEF Calls, Live
    <2>2. ASSUME NEW w \in Writers, NEW k \in {"dek", "pay"}, th[w].pc \in {"write", "upload"},
                 ~Late(w), Token(k) = th[w].tok
          PROVE  ~Old(Top(k).at)
      <3>1. th[w].tok # None /\ Live(th[w])
        BY <2>2, Zenon DEF Calls, Call, InSave, InDelete, Removal
      <3>2. Top(k).at + Stale >= th[w].until
        BY <2>2, <3>1, Zenon DEF Live, PastDigest
      <3>3. now \in Nat /\ th[w].until \in Nat /\ Top(k).at \in Nat /\ Stale \in Nat
        BY TopType, StorageAssumption, Zenon DEF IInv, Types, Threads, Objects, Names
      <3>4. now < th[w].until
        BY <2>2, <3>3 DEF Late
      <3> QED BY <3>2, <3>3, <3>4 DEF Old
    <2> QED BY <2>1, <2>2, Zenon DEF LiveSaveKept
  <1> QED BY <1>1, PromisesKept, PTL
===============================================================================
