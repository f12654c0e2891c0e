--------------------------- MODULE SnapshotStorage ---------------------------
(* The encrypted store of machine snapshots: EncryptedBackend in front of  *)
(* the local disk of a node or of an object store, for one snapshot id.    *)
(* Node agents save, delete and read the id, crash between two calls, and  *)
(* sweep up what a dead save left.  A save is named by a token, which      *)
(* stands for the data key it made and for the ciphertext under that key.  *)
EXTENDS Integers, FiniteSets, Sequences

CONSTANTS
  Writers,    \* the calls a caller can have under way
  Kinds,      \* the stores: "local", "bucket" and "versioned" (a bucket)
  Stale,      \* partialStaleAfter, in ticks
  MaxSaves, MaxTime, MaxFaults, None

ASSUME StorageAssumption ==
  /\ Stale \in Nat \ {0} /\ MaxSaves \in Nat /\ MaxTime \in Nat /\ MaxFaults \in Nat
  /\ None \notin Nat
  /\ Kinds \subseteq {"local", "bucket", "versioned"}

VARIABLES
  kind,     \* the store behind the wrapper
  now, faults,
  obj,      \* the versions of the sealed key, the payload and the digest
  dir,      \* when the directory of the id was made, or None (local disk)
  uploads,  \* multipart uploads in progress (object store)
  claims,   \* the processes with a Save of the id under way
  th,       \* the call each writer is in
  saves,    \* the tokens handed out
  acked,    \* the save last reported as a success and not deleted since
  erased,   \* a Delete was reported as a success and nothing was saved since
  odd,      \* two calls overlapped, or a Delete or a digest stopped half way
  gone      \* the saves that could be read once and cannot be now

store == <<obj, dir, uploads>>
vars == <<kind, now, faults, store, claims, th, saves, acked, erased, odd, gone>>

Local == kind = "local"
Names == {"dek", "pay", "sha"}

(* The agent of a node has one process; the bucket is shared by the agents *)
(* of all nodes.                                                           *)
Process(w) == IF Local THEN "agent" ELSE w

------------------------------------------------------------------------------
(* Objects.  A delete marker hides the versions under it. *)

Marker == [tok |-> None, data |-> "marker", at |-> 0]
Entry(t, d) == [tok |-> t, data |-> d, at |-> now]

Top(k) == IF obj[k] = <<>> THEN Marker ELSE obj[k][Len(obj[k])]
There(k) == Top(k) # Marker
Token(k) == Top(k).tok

Put(k, e) ==
  obj' = [obj EXCEPT ![k] = IF kind = "versioned" THEN Append(@, e) ELSE <<e>>]
Unlink(ks) == obj' = [k \in Names |-> IF k \in ks THEN <<>> ELSE obj[k]]
SetData(k, d) == obj' = [obj EXCEPT ![k] = [i \in DOMAIN @ |-> [@[i] EXCEPT !.data = d]]]
Zero(k) == SetData(k, "zeros")

(* S3 DeleteObject without a version. *)
DeleteObject(k) ==
  obj' = [obj EXCEPT ![k] = IF kind = "versioned" THEN Append(@, Marker) ELSE <<>>]

DeleteSome_MarkersFirst(k) ==
  \/ UNCHANGED obj
  \/ obj' = [obj EXCEPT ![k] = SelectSeq(@, LAMBDA e : e # Marker)]

(* An error ends the removal of the versions early.  They go before the    *)
(* markers, so no version comes back up.                                   *)
DeleteSome(k) ==
  \/ UNCHANGED obj
  \/ obj' = [obj EXCEPT ![k] = IF kind = "versioned" THEN <<Marker>> ELSE <<>>]

(* The sealed key is there and opens under the KEK. *)
OpenDEK == There("dek") /\ Top("dek").data = "whole"

(* The digest is the one of the payload. *)
verified == Token("sha") = Token("pay") /\ Top("sha").data = "whole"

openLocal ==
  IF ~There("sha") \/ ~There("pay") THEN "ErrNotFound"
  ELSE IF verified THEN "ok" ELSE "ErrCorrupted"

openBucket ==
  IF ~There("pay") THEN "ErrNotFound"
  ELSE IF There("sha") /\ verified THEN "ok" ELSE "ErrCorrupted"

(* Every chunk of the ciphertext up to the final one opens under the key. *)
decrypts == Top("pay").data = "whole" /\ Token("dek") = Token("pay")

(* EncryptedBackend.Open. *)
Open ==
  IF ~There("dek") THEN "ErrNotFound"
  ELSE LET inner == IF Local THEN openLocal ELSE openBucket
       IN  IF inner # "ok" THEN inner
           ELSE IF OpenDEK /\ decrypts THEN "ok" ELSE "ErrCorrupted"

Content == IF Open = "ok" THEN Token("pay") ELSE None

------------------------------------------------------------------------------
(* The calls. *)

Idle == [pc |-> "idle", op |-> "none", tok |-> None, until |-> 0, key |-> "dek",
         then |-> "idle", alone |-> TRUE]

At(w, p) == th[w].pc = p
Goto(w, p) == th' = [th EXCEPT ![w].pc = p]
Busy == {w \in Writers : th[w].pc # "idle"}

(* A call that begins is alone unless another is under way, which then is  *)
(* alone no longer.                                                        *)
Begin(w, r) ==
  /\ th' = [v \in Writers |->
           IF v = w THEN [r EXCEPT !.alone = Busy = {}] ELSE [th[v] EXCEPT !.alone = FALSE]]
  /\ odd' = (odd \/ Busy # {})

same == UNCHANGED <<kind, now, saves, acked, erased, odd>>
quiet == same /\ UNCHANGED <<store, faults, claims>>

(* An error of the disk or of the object store ends the call or the step. *)
Fault == faults > 0 /\ faults' = faults - 1

Release(w) == claims' = IF th[w].op = "save" THEN claims \ {Process(w)} ELSE claims
Return(w) == th' = [th EXCEPT ![w] = Idle] /\ Release(w)

Old(at) == now - at >= Stale

(* deleteObjectAllVersions: a plain delete, then every version. *)
DeleteAll(w, k, next) ==
  th' = [th EXCEPT ![w].pc = "delete", ![w].key = k, ![w].then = next]

(* The cleanup of a payload without its digest goes on after an error; the *)
(* other callers return it.                                                *)
Broken(w) ==
  /\ Fault
  /\ IF th[w].then = "cleanup" THEN Goto(w, "cleanup") /\ UNCHANGED claims
     ELSE Return(w)
  /\ odd' = (odd \/ th[w].op = "delete")
  /\ UNCHANGED <<kind, now, saves, acked, erased>>

deleteObject_Plain(w) ==
  /\ At(w, "delete")
  /\ DeleteObject(th[w].key) /\ Goto(w, th[w].then) /\ same
  /\ UNCHANGED <<faults, claims, dir, uploads>>

deleteObject(w) ==
  /\ At(w, "delete")
  /\ \/ DeleteObject(th[w].key) /\ Goto(w, "versions") /\ same /\ UNCHANGED <<faults, claims>>
     \/ Broken(w) /\ (UNCHANGED obj \/ DeleteObject(th[w].key))
  /\ UNCHANGED <<dir, uploads>>

deleteVersions(w) ==
  /\ At(w, "versions")
  /\ \/ Unlink({th[w].key}) /\ Goto(w, th[w].then) /\ same /\ UNCHANGED <<faults, claims>>
     \/ Broken(w) /\ DeleteSome(th[w].key)
  /\ UNCHANGED <<dir, uploads>>

------------------------------------------------------------------------------
(* Save. *)

(* The key is made and sealed in memory; a Save of the id in the same      *)
(* process is refused.                                                     *)
Save(w) ==
  /\ At(w, "idle") /\ saves < MaxSaves /\ Process(w) \notin claims
  /\ claims' = claims \cup {Process(w)}
  /\ saves' = saves + 1 /\ erased' = FALSE
  /\ Begin(w, [Idle EXCEPT !.pc = "complete", !.op = "save", !.tok = saves + 1])
  /\ UNCHANGED <<kind, now, faults, store, acked>>

RemovePartial_NoSidecar(w) ==
  /\ At(w, "complete") /\ Goto(w, "partial")
  /\ same /\ UNCHANGED <<store, faults, claims>>

(* RemovePartial of either store: a digest means a complete snapshot. *)
RemovePartial(w) ==
  /\ At(w, "complete")
  /\ IF There("sha") THEN Return(w) ELSE Goto(w, "partial") /\ UNCHANGED claims
  /\ same /\ UNCHANGED <<store, faults>>

(* The remains of a dead save go, a payload that may be in flight stays. *)
partialAge(w) ==
  /\ At(w, "partial")
  /\ LET found == IF Local THEN dir # None ELSE There("pay")
         at == IF There("pay") THEN Top("pay").at ELSE dir
     IN IF ~found THEN Goto(w, "dekAge") /\ UNCHANGED claims
        ELSE IF ~Old(at) THEN Return(w)
        ELSE /\ UNCHANGED claims
             /\ IF ~Local THEN DeleteAll(w, "pay", "dekAge")
                ELSE Goto(w, IF There("pay") THEN "overwrite" ELSE "removeAll")
  /\ same /\ UNCHANGED <<store, faults>>

overwritePartial(w) ==
  /\ At(w, "overwrite") /\ Zero("pay") /\ Goto(w, "removeAll")
  /\ same /\ UNCHANGED <<faults, dir, uploads, claims>>

removeAll(w) ==
  /\ At(w, "removeAll") /\ Unlink({"pay", "sha"}) /\ dir' = None
  /\ Goto(w, "dekAge")
  /\ same /\ UNCHANGED <<faults, uploads, claims>>

(* removePartial: the sealed key of a dead save goes too. *)
removePartial(w) ==
  /\ At(w, "dekAge")
  /\ IF ~There("dek") THEN Goto(w, "putDEK") /\ UNCHANGED claims
     ELSE IF ~Old(Top("dek").at) THEN Return(w)
     ELSE /\ UNCHANGED claims
          /\ IF Local THEN th' = [th EXCEPT ![w].pc = "shred", ![w].then = "putDEK"]
             ELSE DeleteAll(w, "dek", "putDEK")
  /\ same /\ UNCHANGED <<store, faults>>

(* Shred of a sealed key: zeros first, then the unlink. *)
shred(w) ==
  /\ At(w, "shred") /\ Zero("dek") /\ Goto(w, "unlinkDEK")
  /\ same /\ UNCHANGED <<faults, dir, uploads, claims>>

unlinkDEK(w) ==
  /\ At(w, "unlinkDEK") /\ Unlink({"dek"})
  /\ IF th[w].then = "idle" THEN Return(w)
     ELSE Goto(w, th[w].then) /\ UNCHANGED claims
  /\ same /\ UNCHANGED <<faults, dir, uploads>>

(* Put of either key store.  The file is created exclusively; the object   *)
(* is looked up and then written.                                          *)
PutDEK(w) ==
  /\ At(w, "putDEK")
  /\ \/ There("dek") /\ Return(w) /\ UNCHANGED <<obj, faults>>
     \/ /\ ~There("dek") /\ Local /\ Put("dek", Entry(th[w].tok, "whole"))
        /\ Goto(w, "inner") /\ UNCHANGED <<claims, faults>>
     \/ ~There("dek") /\ ~Local /\ Goto(w, "writeDEK") /\ UNCHANGED <<obj, claims, faults>>
     \/ Fault /\ Return(w) /\ UNCHANGED obj
  /\ same /\ UNCHANGED <<dir, uploads>>

(* A put that fails may have been carried out. *)
writeDEK(w) ==
  /\ At(w, "writeDEK")
  /\ \/ Put("dek", Entry(th[w].tok, "whole")) /\ Goto(w, "inner") /\ UNCHANGED <<claims, faults>>
     \/ Fault /\ Return(w) /\ (UNCHANGED obj \/ Put("dek", Entry(th[w].tok, "whole")))
  /\ same /\ UNCHANGED <<dir, uploads>>

(* The context of the inner Save ends after partialStaleAfter. *)
Limit == Stale

(* The inner Save runs no longer than Limit from here.  A full disk or an  *)
(* existing directory or object refuses it.                                *)
innerSave(w) ==
  /\ At(w, "inner")
  /\ \/ /\ IF Local THEN dir # None ELSE There("pay")
        /\ Goto(w, "cleanup") /\ UNCHANGED <<store, faults>>
     \/ Fault /\ Goto(w, "cleanup") /\ UNCHANGED store
     \/ /\ Local /\ dir = None /\ dir' = now
        /\ Put("pay", Entry(th[w].tok, "partial"))
        /\ th' = [th EXCEPT ![w].pc = "write", ![w].until = now + Limit]
        /\ UNCHANGED <<uploads, faults>>
     \/ /\ ~Local /\ ~There("pay")
        /\ uploads' = uploads \cup {[tok |-> th[w].tok, at |-> now]}
        /\ th' = [th EXCEPT ![w].pc = "upload", ![w].until = now + Limit]
        /\ UNCHANGED <<obj, dir, faults>>
  /\ same /\ UNCHANGED claims

Late(w) == now >= th[w].until

(* The copy to state.bin ends, or its source, the disk or the time limit   *)
(* ends it and the directory goes.                                         *)
writeState(w) ==
  /\ At(w, "write")
  /\ \/ /\ ~Late(w) /\ Put("pay", Entry(th[w].tok, "whole"))
        /\ Goto(w, "digest") /\ UNCHANGED <<dir, faults>>
     \/ /\ (Late(w) /\ UNCHANGED faults) \/ Fault
        /\ Unlink({"pay", "sha"}) /\ dir' = None /\ Goto(w, "cleanup")
  /\ same /\ UNCHANGED <<uploads, claims>>

upload(w) ==
  LET mine == {u \in uploads : u.tok = th[w].tok} IN
  /\ At(w, "upload")
  /\ uploads' = uploads \ mine
  /\ \/ /\ ~Late(w) /\ mine # {} /\ Put("pay", Entry(th[w].tok, "whole"))
        /\ Goto(w, "digest") /\ UNCHANGED faults
     \/ /\ ((Late(w) \/ mine = {}) /\ UNCHANGED faults) \/ Fault
        /\ Goto(w, "cleanup") /\ UNCHANGED obj
  /\ same /\ UNCHANGED <<dir, claims>>

(* The digest completes the snapshot.  Without it the payload goes: on the *)
(* local disk the whole directory, in the bucket every version of it.      *)
writeDigest(w) ==
  /\ At(w, "digest")
  /\ \/ /\ Put("sha", Entry(th[w].tok, "whole")) /\ Goto(w, "saved")
        /\ UNCHANGED <<dir, faults, odd>>
     \/ /\ Local /\ (Fault \/ (dir = None /\ UNCHANGED faults))
        /\ Unlink({"pay", "sha"}) /\ dir' = None
        /\ Goto(w, "cleanup") /\ UNCHANGED odd
     \/ /\ ~Local /\ (Fault \/ (Late(w) /\ UNCHANGED faults))
        /\ \/ UNCHANGED <<obj, odd>>
           \/ Put("sha", Entry(th[w].tok, "whole")) /\ odd' = TRUE
        /\ DeleteAll(w, "pay", "cleanup") /\ UNCHANGED dir
  /\ UNCHANGED <<kind, now, saves, acked, erased, uploads, claims>>

saved(w) ==
  /\ At(w, "saved")
  /\ acked' = IF th[w].alone THEN th[w].tok ELSE acked
  /\ Return(w)
  /\ UNCHANGED <<kind, now, faults, store, saves, erased, odd>>

(* A failed inner Save takes its sealed key along; that may fail too. *)
cleanup(w) ==
  /\ At(w, "cleanup")
  /\ \/ ~There("dek") /\ Return(w) /\ UNCHANGED faults
     \/ Fault /\ Return(w)
     \/ /\ There("dek") /\ UNCHANGED <<claims, faults>>
        /\ IF Local THEN th' = [th EXCEPT ![w].pc = "shred", ![w].then = "idle"]
           ELSE DeleteAll(w, "dek", "idleNow")
  /\ same /\ UNCHANGED store

cleanedUp(w) == At(w, "idleNow") /\ Return(w) /\ same /\ UNCHANGED <<store, faults>>

------------------------------------------------------------------------------
(* Delete: the sealed key first, then the ciphertext. *)

Delete(w) ==
  /\ At(w, "idle")
  /\ Begin(w, [Idle EXCEPT !.pc = "destroy", !.op = "delete"])
  /\ acked' = None
  /\ UNCHANGED <<kind, now, faults, store, claims, saves, erased>>

destroyDEK(w) ==
  /\ At(w, "destroy")
  /\ \/ ~There("dek") /\ Goto(w, "inner-delete") /\ UNCHANGED <<claims, faults, odd>>
     \/ There("dek") /\ Local /\ UNCHANGED <<claims, faults, odd>>
        /\ th' = [th EXCEPT ![w].pc = "shred", ![w].then = "inner-delete"]
     \/ There("dek") /\ ~Local /\ DeleteAll(w, "dek", "inner-delete")
        /\ UNCHANGED <<claims, faults, odd>>
     \/ Fault /\ Return(w) /\ odd' = TRUE
  /\ UNCHANGED <<kind, now, saves, acked, erased, store>>

(* A payload that is not there is reported as ErrNotFound, which callers   *)
(* take for a success: the local disk then leaves what else it finds, the  *)
(* bucket deletes all three objects in any case.                           *)
innerDelete(w) ==
  /\ At(w, "inner-delete")
  /\ IF Local THEN Goto(w, IF There("pay") THEN "zero" ELSE "deleted")
     ELSE DeleteAll(w, "pay", "delete-sha")
  /\ quiet

deleteRest(w) ==
  /\ \/ At(w, "delete-sha") /\ DeleteAll(w, "sha", "delete-dek")
     \/ At(w, "delete-dek") /\ DeleteAll(w, "dek", "deleted")
  /\ quiet

overwriteState(w) ==
  /\ At(w, "zero") /\ Zero("pay")
  /\ IF There("pay") THEN Goto(w, "unlink") ELSE th' = [th EXCEPT ![w] = Idle]
  /\ same /\ UNCHANGED <<faults, dir, uploads, claims>>

unlinkState(w) ==
  /\ At(w, "unlink") /\ Unlink({"pay"}) /\ Goto(w, "unlink-sha")
  /\ same /\ UNCHANGED <<faults, dir, uploads, claims>>

unlinkDigest(w) ==
  /\ At(w, "unlink-sha") /\ Unlink({"sha"}) /\ Goto(w, "rmdir")
  /\ same /\ UNCHANGED <<faults, dir, uploads, claims>>

removeDir(w) ==
  /\ At(w, "rmdir") /\ dir' = None /\ Goto(w, "deleted")
  /\ same /\ UNCHANGED <<faults, obj, uploads, claims>>

deleted(w) ==
  /\ At(w, "deleted")
  /\ erased' = (erased \/ th[w].alone)
  /\ th' = [th EXCEPT ![w] = Idle]
  /\ UNCHANGED <<kind, now, faults, store, claims, saves, acked, odd>>

------------------------------------------------------------------------------
(* The agents and the clock. *)

(* A crash ends every call of the process.  A digest file being written    *)
(* may be left empty.  On start the agent of an object store aborts the    *)
(* uploads begun more than Stale ago.                                      *)
Crash(p) ==
  LET dead == {w \in Busy : Process(w) = p} IN
  /\ dead # {} /\ Fault
  /\ th' = [w \in Writers |-> IF w \in dead THEN Idle ELSE th[w]]
  /\ claims' = claims \ {p}
  /\ \/ /\ odd' = (odd \/ \E w \in dead : th[w].op = "delete")
        /\ UNCHANGED obj
     \/ /\ Local /\ \E w \in dead : At(w, "digest") /\ Put("sha", Entry(th[w].tok, "partial"))
        /\ odd' = TRUE
  /\ UNCHANGED <<kind, now, saves, acked, erased, dir, uploads>>

Stalled_OffByOne == {u \in uploads : u.at <= now - Stale}

Stalled == {u \in uploads : u.at < now - Stale}

AbortStaleMultipartUploads ==
  /\ ~Local /\ Stalled # {}
  /\ uploads' = uploads \ Stalled
  /\ same /\ UNCHANGED <<obj, dir, faults, claims, th>>

(* The calls that wait for the source of the snapshot are the slow ones;   *)
(* the context of the inner Save ends them at the limit.                   *)
Tick ==
  /\ now < MaxTime
  /\ \A w \in Busy : th[w].pc \in {"write", "upload"} /\ ~Late(w)
  /\ now' = now + 1
  /\ UNCHANGED <<kind, faults, store, claims, th, saves, acked, erased, odd>>

Init ==
  /\ kind \in Kinds
  /\ now = 0 /\ faults = MaxFaults
  /\ obj = [k \in Names |-> <<>>] /\ dir = None /\ uploads = {}
  /\ claims = {} /\ th = [w \in Writers |-> Idle] /\ saves = 0
  /\ acked = None /\ erased = TRUE /\ odd = FALSE /\ gone = {}

Step(w) ==
  \/ Save(w) \/ RemovePartial(w) \/ partialAge(w) \/ overwritePartial(w)
  \/ removeAll(w) \/ removePartial(w) \/ shred(w) \/ unlinkDEK(w) \/ PutDEK(w)
  \/ writeDEK(w) \/ innerSave(w) \/ writeState(w) \/ upload(w) \/ writeDigest(w)
  \/ saved(w) \/ cleanup(w) \/ cleanedUp(w)
  \/ Delete(w) \/ destroyDEK(w) \/ innerDelete(w) \/ deleteRest(w)
  \/ overwriteState(w) \/ unlinkState(w) \/ unlinkDigest(w) \/ removeDir(w) \/ deleted(w)
  \/ deleteObject(w) \/ deleteVersions(w)

Act ==
  \/ \E w \in Writers : Step(w)
  \/ \E p \in Writers \cup {"agent"} : Crash(p)
  \/ AbortStaleMultipartUploads
  \/ Tick

Lost == IF Content # None /\ Content' # Content THEN {Content} ELSE {}

Next == Act /\ gone' = gone \cup Lost

Spec == Init /\ [][Next]_vars

------------------------------------------------------------------------------
(* The store over the disk or the bucket, with crashes, errors and callers *)
(* that overlap, keeps what SnapshotStore promises: EncryptedBackend.Open  *)
(* gives a whole snapshot or none, and one that was lost or deleted never  *)
(* comes back, not even when the removal of its versions stops half way.   *)
Store == INSTANCE SnapshotStore WITH content <- Content, Tokens <- 1..MaxSaves
Implements == Store!Spec

(* A Save that returned success, and that no other call overlapped, stays  *)
(* readable until a Delete begins, whatever later Saves of the id do; and  *)
(* a digest that makes Save refuse the id stands for a snapshot that can   *)
(* be read, unless calls overlapped or a Delete or the write of a digest   *)
(* stopped half way.                                                       *)
AckedReadable ==
  /\ acked # None => Content = acked
  /\ Busy = {} /\ There("sha") /\ ~odd => Content # None

(* After a Delete that returned success or ErrNotFound, and that no other  *)
(* call overlapped, no version of the sealed key and none of the payload   *)
(* is left, also after earlier Saves and Deletes that stopped half way.    *)
ErasedIsGone ==
  erased => \A k \in {"dek", "pay"} : \A i \in DOMAIN obj[k] : obj[k][i] = Marker

(* Age alone tells a dead Save from one that runs.  The sweep of an agent  *)
(* that starts never aborts the upload of a Save that runs on another      *)
(* node, and removePartial never takes the sealed key or the payload of a  *)
(* Save that is still writing for the remains of a dead one.               *)
LiveSaveKept ==
  /\ \A w \in Writers : At(w, "upload") => \E u \in uploads : u.tok = th[w].tok
  /\ \A w \in Writers, k \in {"dek", "pay"} :
       th[w].pc \in {"write", "upload"} /\ ~Late(w) /\ There(k) /\ Token(k) = th[w].tok
         => ~Old(Top(k).at)
=============================================================================
