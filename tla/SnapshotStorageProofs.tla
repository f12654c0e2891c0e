------------------------ MODULE SnapshotStorageProofs ------------------------
(* Theorems about SnapshotStorage, for every set of callers and every      *)
(* number of saves, ticks and faults.                                      *)
EXTENDS SnapshotStorage, TLAPS

Objects == [tok : Nat \cup {None}, data : {"marker", "whole", "partial", "zeros"}, at : Nat]

Pcs == {"idle", "idleNow", "complete", "partial", "overwrite", "removeAll", "dekAge",
        "shred", "unlinkDEK", "putDEK", "writeDEK", "inner", "write", "upload", "digest",
        "saved", "cleanup", "destroy", "inner-delete", "delete-sha", "delete-dek", "zero",
        "unlink", "unlink-sha", "rmdir", "deleted", "delete", "versions"}

Threads == [pc : Pcs, op : {"none", "save", "delete"}, tok : Nat \cup {None}, until : Nat,
            key : Names, then : Pcs, alone : BOOLEAN]

Types ==
  /\ now \in Nat /\ saves \in Nat /\ saves <= MaxSaves
  /\ obj \in [Names -> Seq(Objects)]
  /\ th \in [Writers -> Threads]

------------------------------------------------------------------------------
(* What is on top of an object after each kind of write. *)

(* An element of a sequence is one of its set. *)
LEMMA ElementIn ==
  ASSUME NEW S, NEW s \in Seq(S), NEW i \in 1..Len(s)
  PROVE  s[i] \in S
  OBVIOUS

(* The empty sequence has no length. *)
LEMMA EmptyIs ==
  ASSUME NEW S, NEW s \in Seq(S)
  PROVE  (s = <<>>) <=> (Len(s) = 0)
  OBVIOUS

(* What an append makes of a sequence. *)
LEMMA AppendIs ==
  ASSUME NEW S, NEW s \in Seq(S), NEW e \in S
  PROVE  /\ Append(s, e) \in Seq(S) /\ Append(s, e) # <<>>
         /\ Len(Append(s, e)) = Len(s) + 1
         /\ \A i \in 1..Len(s) : Append(s, e)[i] = s[i]
         /\ Append(s, e)[Len(Append(s, e))] = e
  OBVIOUS

(* A put brings its entry to the top and leaves the other objects alone. *)
LEMMA PutTop ==
  ASSUME obj \in [Names -> Seq(Objects)], NEW k \in Names, NEW e \in Objects, Put(k, e)
  PROVE  /\ obj' \in [Names -> Seq(Objects)]
         /\ Top(k)' = e
         /\ \A j \in Names \ {k} : Top(j)' = Top(j)
  <1>1. /\ Append(obj[k], e) \in Seq(Objects) /\ Append(obj[k], e) # <<>>
        /\ Append(obj[k], e)[Len(Append(obj[k], e))] = e
    BY AppendIs
  <1>2. <<e>> \in Seq(Objects) /\ <<e>> # <<>> /\ <<e>>[Len(<<e>>)] = e
    OBVIOUS
  <1> QED BY <1>1, <1>2, Zenon DEF Put, Top

(* An unlink leaves nothing of the objects it names. *)
LEMMA UnlinkTop ==
  ASSUME obj \in [Names -> Seq(Objects)], NEW ks, Unlink(ks)
  PROVE  /\ obj' \in [Names -> Seq(Objects)]
         /\ \A j \in Names : Top(j)' = IF j \in ks THEN Marker ELSE Top(j)
  BY DEF Unlink, Top

(* Zeros take the data of an object and keep its token. *)
LEMMA ZeroTop ==
  ASSUME obj \in [Names -> Seq(Objects)], NEW k \in Names, Zero(k)
  PROVE  /\ obj' \in [Names -> Seq(Objects)]
         /\ \/ Top(k)' = Top(k) /\ Top(k) = Marker
            \/ Top(k)' = [Top(k) EXCEPT !.data = "zeros"]
         /\ \A j \in Names \ {k} : Top(j)' = Top(j)
  <1> DEFINE s == obj[k]
             z == [i \in DOMAIN s |-> [s[i] EXCEPT !.data = "zeros"]]
  <1>1. s \in Seq(Objects)
    BY Zenon
  <1>2. \A i \in DOMAIN s : [s[i] EXCEPT !.data = "zeros"] \in Objects
    <2>1. \A i \in DOMAIN s : s[i] \in Objects
      BY <1>1, ElementIn
    <2>2. \A e \in Objects : [e EXCEPT !.data = "zeros"] \in Objects
      BY Zenon DEF Objects
    <2> HIDE DEF s
    <2> QED BY <2>1, <2>2, Zenon
  <1>3. z \in Seq(Objects) /\ Len(z) = Len(s)
    <2>1. DOMAIN s = 1..Len(s) /\ Len(s) \in Nat
      BY <1>1
    <2>2. z \in [1..Len(s) -> Objects]
      BY <1>2, <2>1, Zenon
    <2> QED BY <2>1, <2>2
  <1>4. obj' = [obj EXCEPT ![k] = z]
    BY Zenon DEF Zero, SetData
  <1>5. CASE s = <<>>
    <2>1. z = <<>>
      BY <1>3, <1>5, EmptyIs, Zenon
    <2> QED BY <2>1, <1>1, <1>3, <1>4, <1>5, Zenon DEF Top
  <1>6. CASE s # <<>>
    <2>1. z # <<>> /\ Len(s) \in DOMAIN s
      <3>1. Len(s) \in Nat /\ Len(s) # 0
        BY <1>1, <1>6, EmptyIs
      <3>2. DOMAIN s = 1..Len(s)
        BY <1>1
      <3> QED BY <1>3, <3>1, <3>2, EmptyIs
    <2>2. z[Len(z)] = [s[Len(s)] EXCEPT !.data = "zeros"]
      BY <2>1, <1>3, Zenon
    <2>3. Top(k) = s[Len(s)] /\ Top(k)' = z[Len(z)]
      BY <2>1, <1>4, <1>6, Zenon DEF Top
    <2>4. \A j \in Names \ {k} : Top(j)' = Top(j)
      BY <1>4, Zenon DEF Top
    <2> QED BY <2>2, <2>3, <2>4, <1>3, <1>4, Zenon
  <1> QED BY <1>5, <1>6, Zenon

(* A delete without a version, and a removal of the versions that stops    *)
(* half way, leave the object as it was or hide it.                        *)
LEMMA HideTop ==
  ASSUME obj \in [Names -> Seq(Objects)], NEW k \in Names,
         DeleteObject(k) \/ DeleteSome(k)
  PROVE  /\ obj' \in [Names -> Seq(Objects)]
         /\ Top(k)' \in {Top(k), Marker}
         /\ \A j \in Names \ {k} : Top(j)' = Top(j)
  <1>1. Marker \in Objects
    BY Zenon DEF Marker, Objects
  <1>2. CASE DeleteObject(k)
    <2>1. /\ Append(obj[k], Marker) \in Seq(Objects) /\ Append(obj[k], Marker) # <<>>
          /\ Append(obj[k], Marker)[Len(Append(obj[k], Marker))] = Marker
      BY <1>1, AppendIs
    <2> QED BY <1>2, <2>1 DEF DeleteObject, Top
  <1>3. CASE DeleteSome(k)
    <2>1. <<Marker>> \in Seq(Objects) /\ <<Marker>>[Len(<<Marker>>)] = Marker
      BY <1>1
    <2>2. \/ obj' = obj \/ obj' = [obj EXCEPT ![k] = <<Marker>>]
          \/ obj' = [obj EXCEPT ![k] = <<>>]
      BY <1>3, Zenon DEF DeleteSome
    <2>3. CASE obj' = obj BY <2>3, Zenon DEF Top
    <2>4. CASE obj' = [obj EXCEPT ![k] = <<Marker>>] BY <2>1, <2>4, Zenon DEF Top
    <2>5. CASE obj' = [obj EXCEPT ![k] = <<>>] BY <2>5 DEF Top
    <2> QED BY <2>2, <2>3, <2>4, <2>5, Zenon
  <1> QED BY <1>2, <1>3, Zenon

------------------------------------------------------------------------------
(* What an Open gives, from what is on top of the three objects. *)

Whole(d, p, s) ==
  /\ d # Marker /\ p # Marker /\ s # Marker
  /\ d.data = "whole" /\ p.data = "whole" /\ s.data = "whole"
  /\ d.tok = p.tok /\ s.tok = p.tok

ContentOf(d, p, s) == IF Whole(d, p, s) THEN p.tok ELSE None

(* Both stores answer an Open alike: with the save whose sealed key,       *)
(* payload and digest are all on top, and with an error otherwise.         *)
LEMMA ContentIs ==
  /\ Content = ContentOf(Top("dek"), Top("pay"), Top("sha"))
  /\ Content' = ContentOf(Top("dek")', Top("pay")', Top("sha")')
  <1>1. Content = ContentOf(Top("dek"), Top("pay"), Top("sha"))
    BY Zenon DEF Content, ContentOf, Whole, Open, openLocal, openBucket, OpenDEK, decrypts,
           verified, There, Token
  <1>2. Content' = ContentOf(Top("dek")', Top("pay")', Top("sha")')
    BY Zenon DEF Content, ContentOf, Whole, Open, openLocal, openBucket, OpenDEK, decrypts,
           verified, There, Token
  <1> QED BY <1>1, <1>2, Zenon

------------------------------------------------------------------------------
(* The inductive invariant.  A call is past its digest when it can write   *)
(* nothing any more.  No two calls have one token, and a token that was    *)
(* readable, or that the digest on top has, belongs to no call that is     *)
(* still to write: so what a put can bring into view is always new.        *)

PastDigest(r) ==
  \/ r.pc \in {"idle", "saved", "cleanup", "idleNow"}
  \/ /\ r.pc \in {"delete", "versions", "shred", "unlinkDEK"}
     /\ r.then \in {"idle", "cleanup", "idleNow"}

Spent(t) == t \in gone \/ t = Token("sha")

Fresh ==
  /\ gone \subseteq 1..saves /\ Token("sha") \in 1..saves \cup {None}
  /\ \A w \in Writers :
       /\ th[w].tok \in 1..saves \cup {None}
       /\ th[w].tok # None /\ Spent(th[w].tok) => PastDigest(th[w])
       /\ \A v \in Writers \ {w} : th[w].tok # None => th[v].tok # th[w].tok

IInv == Types /\ Fresh

(* The calls go on without a new token, and none returns to its writes. *)
Onward ==
  \A w \in Writers :
    /\ th[w]'.tok \in {th[w].tok, None}
    /\ PastDigest(th[w]) /\ th[w]'.tok # None => PastDigest(th[w]')

(* Nothing comes into view: each object stays, is hidden or loses its data. *)
Fades ==
  \A k \in Names :
    \/ Top(k)' = Top(k) \/ Top(k)' = Marker
    \/ k # "sha" /\ Top(k)'.data = "zeros"

(* One object gets an entry of a call that is not past its digest. *)
Puts(w, k) ==
  /\ th[w].tok # None => ~PastDigest(th[w])
  /\ Top(k)'.tok = th[w].tok
  /\ \A j \in Names \ {k} : Top(j)' = Top(j)

(* What an Open gives stays, is lost, or comes into view for the first time. *)
Allowed ==
  \/ Content' \in {Content, None}
  \/ Content = None /\ Content' \in (1..MaxSaves) \ gone

Outcome == Fresh' /\ Allowed

Books == saves' = saves /\ gone' = gone \cup Lost

(* A snapshot that can be read is the one of the digest. *)
LEMMA ReadableIsSpent ==
  ASSUME IInv
  PROVE  /\ Content \in 1..saves \cup {None}
         /\ Content # None => Content = Token("sha")
  BY ContentIs, Zenon DEF IInv, Fresh, ContentOf, Whole, Token

(* A step without a put keeps the invariant and brings nothing into view. *)
LEMMA FadesKeep ==
  ASSUME IInv, Onward, Fades, Books
  PROVE  Outcome
  <1>1. Token("sha")' \in {Token("sha"), None}
    BY DEF Fades, Token, Names, Marker
  <1>2. Content' \in {Content, None}
    <2>1. \A k \in Names : Top(k)' = Top(k) \/ Top(k)' = Marker \/ Top(k)'.data = "zeros"
      BY Zenon DEF Fades
    <2>2. Whole(Top("dek")', Top("pay")', Top("sha")') =>
            \A k \in Names : Top(k)' = Top(k)
      BY <2>1, Zenon DEF Whole, Names
    <2> QED BY <2>2, ContentIs, Zenon DEF ContentOf, Names
  <1>3. gone' = gone \cup IF Content # None /\ Content' # Content THEN {Content} ELSE {}
    BY Zenon DEF Books, Lost
  <1>4. Fresh'
    BY <1>1, <1>3, ReadableIsSpent, Zenon DEF Books, IInv, Fresh, Spent, Onward
  <1> QED BY <1>2, <1>4, Zenon DEF Outcome, Allowed

(* A put of a sealed key or a payload brings nothing into view: the digest *)
(* of that save is still to come.                                          *)
LEMMA PutsKeep ==
  ASSUME IInv, Onward, Books, NEW w \in Writers, NEW k \in {"dek", "pay"}, Puts(w, k)
  PROVE  Outcome
  <1>1. Token("sha")' = Token("sha")
    BY Zenon DEF Puts, Token, Names
  <1>2. Content' = None
    <2>1. SUFFICES ASSUME Content' # None PROVE FALSE
      BY Zenon
    <2>2. Content' = Token("sha") /\ Content' = th[w].tok
      BY <2>1, ContentIs, Zenon DEF ContentOf, Whole, Puts, Names, Token
    <2> QED BY <2>1, <2>2, Zenon DEF IInv, Fresh, Spent, Puts
  <1>3. gone' = gone \cup IF Content # None THEN {Content} ELSE {}
    BY <1>2, Zenon DEF Books, Lost
  <1>4. Fresh'
    BY <1>1, <1>3, ReadableIsSpent, Zenon DEF Books, IInv, Fresh, Spent, Onward
  <1> QED BY <1>2, <1>4, Zenon DEF Outcome, Allowed

(* A put of a digest brings at most a save into view that never was.       *)
LEMMA DigestKeeps ==
  ASSUME IInv, Onward, Books, NEW w \in Writers, Puts(w, "sha"),
         th[w]'.tok # None => PastDigest(th[w]')
  PROVE  Outcome
  <1>1. Token("sha")' = th[w].tok
    BY Zenon DEF Puts, Token, Names
  <1>2. th[w].tok \in 1..saves \cup {None} /\ (th[w].tok # None => th[w].tok \notin gone)
    BY Zenon DEF Puts, IInv, Fresh, Spent
  <1>3. Content' \in {None, th[w].tok}
    BY <1>1, ContentIs, Zenon DEF ContentOf, Whole, Token
  <1>4. Content' # None => Content = None
    <2>1. SUFFICES ASSUME Content' # None, Content # None PROVE FALSE
      BY Zenon
    <2>2. Content = Token("pay") /\ Content' = Token("pay")
      BY <2>1, ContentIs, Zenon DEF ContentOf, Whole, Puts, Names, Token
    <2>3. Content = Token("sha") /\ Content = th[w].tok
      BY <2>1, <2>2, <1>3, ReadableIsSpent, Zenon
    <2> QED BY <2>1, <2>3, Zenon DEF IInv, Fresh, Spent, Puts
  <1>5. gone' = gone \cup IF Content # None THEN {Content} ELSE {}
    BY <1>4, Zenon DEF Books, Lost
  <1>6. Fresh'
    <2>1. gone' \subseteq 1..saves' /\ Token("sha")' \in 1..saves' \cup {None}
      BY <1>1, <1>2, <1>5, ReadableIsSpent, Zenon DEF Books, IInv, Fresh
    <2>2. ASSUME NEW v \in Writers
          PROVE  /\ th[v]'.tok \in 1..saves' \cup {None}
                 /\ \A u \in Writers \ {v} : th[v]'.tok # None => th[u]'.tok # th[v]'.tok
      BY Zenon DEF Books, IInv, Fresh, Onward
    <2>3. ASSUME NEW v \in Writers, th[v]'.tok # None,
                 th[v]'.tok \in gone' \/ th[v]'.tok = Token("sha")'
          PROVE  PastDigest(th[v]')
      <3>1. CASE v = w BY <3>1, <2>3, Zenon
      <3>2. CASE v # w
        <4>1. th[v]'.tok = th[v].tok /\ th[v].tok # th[w].tok
          BY <3>2, <2>3, Zenon DEF IInv, Fresh, Onward
        <4>2. Spent(th[v].tok)
          BY <4>1, <2>3, <1>1, <1>5, ReadableIsSpent, Zenon DEF Spent
        <4> QED BY <4>1, <4>2, <2>3, Zenon DEF IInv, Fresh, Onward
      <3> QED BY <3>1, <3>2, Zenon
    <2> QED BY <2>1, <2>2, <2>3, Zenon DEF Fresh, Spent
  <1>7. Content' # None => Content' \in (1..MaxSaves) \ gone
    BY <1>2, <1>3, StorageAssumption DEF IInv, Types
  <1> QED BY <1>4, <1>6, <1>7, Zenon DEF Outcome, Allowed

(* Of the other calls, a call that begins changes only who is alone. *)
LEMMA BeginFields ==
  ASSUME Types, NEW w \in Writers, NEW r \in Threads, Begin(w, r)
  PROVE  /\ th' \in [Writers -> Threads]
         /\ th[w]'.tok = r.tok /\ th[w]'.pc = r.pc /\ th[w]'.op = r.op
         /\ th[w]'.alone = (Busy = {})
         /\ \A v \in Writers \ {w} :
              /\ th[v]'.tok = th[v].tok /\ th[v]'.pc = th[v].pc /\ th[v]'.op = th[v].op
              /\ th[v]'.then = th[v].then /\ th[v]'.until = th[v].until
              /\ th[v]'.key = th[v].key /\ th[v]'.alone = FALSE
  <1>1. \A x \in Threads, b \in BOOLEAN :
          LET y == [x EXCEPT !.alone = b]
          IN  /\ y \in Threads /\ y.tok = x.tok /\ y.pc = x.pc /\ y.op = x.op
              /\ y.then = x.then /\ y.until = x.until /\ y.key = x.key /\ y.alone = b
    BY Zenon DEF Threads
  <1>2. \A v \in Writers : th[v] \in Threads
    BY Zenon DEF Types
  <1>3. (Busy = {}) \in BOOLEAN
    BY Zenon
  <1>4. th' = [v \in Writers |->
                IF v = w THEN [r EXCEPT !.alone = Busy = {}] ELSE [th[v] EXCEPT !.alone = FALSE]]
    BY Zenon DEF Begin
  <1>5. th' \in [Writers -> Threads]
    BY <1>1, <1>2, <1>3, <1>4, Zenon
  <1>6. th[w]' = [r EXCEPT !.alone = Busy = {}]
    BY <1>4, Zenon
  <1>7. \A v \in Writers \ {w} : th[v]' = [th[v] EXCEPT !.alone = FALSE]
    BY <1>4, Zenon
  <1>8. th[w]'.tok = r.tok /\ th[w]'.pc = r.pc /\ th[w]'.op = r.op
        /\ th[w]'.alone = (Busy = {})
    BY <1>1, <1>3, <1>6, ZenonT(30)
  <1>9. ASSUME NEW v \in Writers \ {w}
        PROVE  /\ th[v]'.tok = th[v].tok /\ th[v]'.pc = th[v].pc /\ th[v]'.op = th[v].op
               /\ th[v]'.then = th[v].then /\ th[v]'.until = th[v].until
               /\ th[v]'.key = th[v].key /\ th[v]'.alone = FALSE
    <2>1. th[v] \in Threads /\ FALSE \in BOOLEAN
      BY <1>2, Zenon
    <2>2. th[v]' = [th[v] EXCEPT !.alone = FALSE]
      BY <1>7, Zenon
    <2> QED BY <1>1, <2>1, <2>2
  <1> QED BY <1>5, <1>8, <1>9, Zenon

Asked == [Idle EXCEPT !.pc = "complete", !.op = "save", !.tok = saves + 1]
AskedDelete == [Idle EXCEPT !.pc = "destroy", !.op = "delete"]

(* The records a Save and a Delete begin with. *)
LEMMA AskedFields ==
  ASSUME Types
  PROVE  /\ Asked \in Threads /\ Asked.tok = saves + 1 /\ Asked.pc = "complete"
         /\ Asked.op = "save"
         /\ AskedDelete \in Threads /\ AskedDelete.tok = None
         /\ AskedDelete.pc = "destroy" /\ AskedDelete.op = "delete"
  <1>1. saves + 1 \in Nat
    BY DEF Types
  <1>2. "complete" \in Pcs /\ "destroy" \in Pcs /\ Idle \in Threads /\ Idle.tok = None
    BY Zenon DEF Pcs, Idle, Threads, Names
  <1> QED BY <1>1, <1>2, Zenon DEF Asked, AskedDelete, Threads

(* A Save gets a token that no call has and that never was readable. *)
LEMMA SaveKeeps ==
  ASSUME IInv, NEW w \in Writers, Save(w), gone' = gone \cup Lost, Types'
  PROVE  Outcome
  <1>1. /\ saves' = saves + 1 /\ obj' = obj
        /\ th[w]'.tok = saves + 1
        /\ \A v \in Writers \ {w} : th[v]'.tok = th[v].tok /\ th[v]'.pc = th[v].pc
                                   /\ th[v]'.then = th[v].then
    <2>1. Begin(w, Asked) /\ saves' = saves + 1 /\ obj' = obj
      BY Zenon DEF Save, Asked, store
    <2> QED BY <2>1, BeginFields, AskedFields, Zenon DEF IInv
  <1>2. Content' = Content /\ Token("sha")' = Token("sha")
    BY <1>1, ContentIs, Zenon DEF Top, Token
  <1>3. gone' = gone
    BY <1>2, Zenon DEF Lost
  <1>4. saves + 1 \notin gone /\ saves + 1 # Token("sha") /\ saves + 1 # None
        /\ \A v \in Writers : th[v].tok # saves + 1
    BY StorageAssumption DEF IInv, Types, Fresh
  <1>5. /\ gone' \subseteq 1..saves' /\ Token("sha")' \in 1..saves' \cup {None}
        /\ \A v \in Writers : th[v]'.tok \in 1..saves' \cup {None}
    <2>1. 1..saves \subseteq 1..saves' /\ saves + 1 \in 1..saves'
      BY <1>1 DEF IInv, Types
    <2> QED BY <2>1, <1>1, <1>2, <1>3, Zenon DEF IInv, Fresh
  <1>6. \A v \in Writers, u \in Writers : u # v /\ th[v]'.tok # None => th[u]'.tok # th[v]'.tok
    BY <1>1, <1>4 DEF IInv, Fresh
  <1>7. \A v \in Writers :
          th[v]'.tok # None /\ (th[v]'.tok \in gone' \/ th[v]'.tok = Token("sha")')
            => PastDigest(th[v]')
    BY <1>1, <1>2, <1>3, <1>4, Zenon DEF IInv, Fresh, Spent, PastDigest
  <1>8. Fresh'
    BY <1>5, <1>6, <1>7, Zenon DEF Fresh, Spent
  <1> QED BY <1>2, <1>8, Zenon DEF Outcome, Allowed

------------------------------------------------------------------------------
(* How a call moves on. *)

Ends == {"idle", "saved", "cleanup", "idleNow"}

Moved == Onward /\ th' \in [Writers -> Threads]

(* One call gets another record. *)
LEMMA Moves ==
  ASSUME Types, NEW w \in Writers, NEW r \in Threads, th' = [th EXCEPT ![w] = r],
         r.tok \in {th[w].tok, None},
         PastDigest(th[w]) /\ r.tok # None => PastDigest(r)
  PROVE  Moved
  BY Zenon DEF Types, Onward, Moved

(* A step to the next point of a call keeps its token. *)
LEMMA GotoMoves ==
  ASSUME Types, NEW w \in Writers, NEW p \in Pcs, Goto(w, p),
         \/ ~PastDigest(th[w]) \/ p \in Ends
         \/ p \in {"versions", "unlinkDEK"} /\ th[w].pc \in {"delete", "shred"}
  PROVE  Moved
  <1> DEFINE r == [th[w] EXCEPT !.pc = p]
  <1>1. th[w] \in Threads
    BY Zenon DEF Types
  <1>2. /\ r \in Threads /\ r.tok = th[w].tok
        /\ PastDigest(th[w]) => PastDigest(r)
    BY <1>1, Zenon DEF Threads, PastDigest, Ends
  <1>3. th' = [th EXCEPT ![w] = r]
    BY Zenon DEF Goto
  <1> QED BY <1>2, <1>3, Moves, Zenon

(* The end of a call leaves the others where they are. *)
LEMMA ReturnMoves ==
  ASSUME Types, NEW w \in Writers, th' = [th EXCEPT ![w] = Idle]
  PROVE  Moved
  <1>1. Idle \in Threads /\ Idle.tok = None
    BY Zenon DEF Idle, Threads, Pcs, Names
  <1> QED BY <1>1, Moves, Zenon

(* The start of a removal of all versions keeps a call on its side of the  *)
(* digest.                                                                 *)
LEMMA DeleteMoves ==
  ASSUME Types, NEW w \in Writers, NEW k \in Names, NEW n \in Pcs, DeleteAll(w, k, n),
         ~PastDigest(th[w]) \/ n \in Ends \ {"saved"}
  PROVE  Moved
  <1> DEFINE r == [th[w] EXCEPT !.pc = "delete", !.key = k, !.then = n]
  <1>1. th[w] \in Threads
    BY Zenon DEF Types
  <1>2. /\ r \in Threads /\ r.tok = th[w].tok
        /\ PastDigest(th[w]) => PastDigest(r)
    <2>1. "delete" \in Pcs
      BY Zenon DEF Pcs
    <2>2. r \in Threads
      BY <1>1, <2>1, Zenon DEF Threads
    <2>3. r.tok = th[w].tok /\ r.pc = "delete" /\ r.then = n
      BY <1>1, Zenon DEF Threads
    <2> HIDE DEF r
    <2> QED BY <2>2, <2>3, Zenon DEF PastDigest, Ends
  <1>3. th' = [th EXCEPT ![w] = r]
    BY <1>1, Zenon DEF DeleteAll, Types, Threads
  <1> QED BY <1>2, <1>3, Moves, Zenon

(* So does the start of a shredding of the sealed key, *)
LEMMA ShredMoves ==
  ASSUME Types, NEW w \in Writers, NEW n \in Pcs,
         th' = [th EXCEPT ![w].pc = "shred", ![w].then = n],
         ~PastDigest(th[w]) \/ n \in Ends \ {"saved"}
  PROVE  Moved
  <1> DEFINE r == [th[w] EXCEPT !.pc = "shred", !.then = n]
  <1>1. th[w] \in Threads
    BY Zenon DEF Types
  <1>2. /\ r \in Threads /\ r.tok = th[w].tok
        /\ PastDigest(th[w]) => PastDigest(r)
    <2>1. "shred" \in Pcs
      BY Zenon DEF Pcs
    <2>2. r \in Threads
      BY <1>1, <2>1, Zenon DEF Threads
    <2>3. r.tok = th[w].tok /\ r.pc = "shred" /\ r.then = n
      BY <1>1, Zenon DEF Threads
    <2> HIDE DEF r
    <2> QED BY <2>2, <2>3, Zenon DEF PastDigest, Ends
  <1>3. th' = [th EXCEPT ![w] = r]
    BY <1>1, Zenon DEF Types, Threads
  <1> QED BY <1>2, <1>3, Moves, Zenon

(* and the start of the inner Save with its time limit. *)
LEMMA LimitMoves ==
  ASSUME Types, NEW w \in Writers, NEW p \in {"write", "upload"},
         th' = [th EXCEPT ![w].pc = p, ![w].until = now + Limit],
         ~PastDigest(th[w])
  PROVE  Moved
  <1> DEFINE r == [th[w] EXCEPT !.pc = p, !.until = now + Limit]
  <1>1. th[w] \in Threads /\ now + Limit \in Nat
    BY StorageAssumption DEF Types, Limit
  <1>2. r \in Threads /\ r.tok = th[w].tok
    BY <1>1, Zenon DEF Threads, Pcs
  <1>3. th' = [th EXCEPT ![w] = r]
    BY <1>1, Zenon DEF Types, Threads
  <1> QED BY <1>2, <1>3, Moves, Zenon

Faded == Fades /\ obj' \in [Names -> Seq(Objects)]
Timeless == now' = now /\ saves' = saves /\ gone' = gone \cup Lost

(* Objects that stay as they are bring nothing into view, *)
LEMMA StillFades == ASSUME Types, obj' = obj PROVE Faded
  BY Zenon DEF Types, Faded, Fades, Top

(* nor does an unlink, *)
LEMMA UnlinkFades == ASSUME Types, NEW ks, Unlink(ks) PROVE Faded
  BY UnlinkTop, Zenon DEF Types, Faded, Fades

(* nor do zeros, *)
LEMMA ZeroFades == ASSUME Types, NEW k \in {"dek", "pay"}, Zero(k) PROVE Faded
  <1>1. Top(k) \in Objects \/ Top(k) = Marker
    <2>1. obj[k] \in Seq(Objects)
      BY Zenon DEF Types, Names
    <2> QED BY <2>1, EmptyIs, ElementIn DEF Top
  <1>2. k \in Names /\ k # "sha"
    BY Zenon DEF Names
  <1>3. [Top(k) EXCEPT !.data = "zeros"].data = "zeros"
    BY <1>1, Zenon DEF Objects, Marker
  <1> QED BY <1>2, <1>3, ZeroTop, Zenon DEF Types, Faded, Fades

(* nor does a delete marker. *)
LEMMA HideFades ==
  ASSUME Types, NEW k \in Names, DeleteObject(k) \/ DeleteSome(k) \/ UNCHANGED obj
  PROVE  Faded
  <1>1. CASE UNCHANGED obj BY <1>1, StillFades, Zenon
  <1>2. CASE DeleteObject(k) \/ DeleteSome(k)
    BY <1>2, HideTop, Zenon DEF Types, Faded, Fades
  <1> QED BY <1>1, <1>2, Zenon

(* A step that writes nothing new. *)
LEMMA QuietKeeps ==
  ASSUME IInv, Moved, Faded, Timeless
  PROVE  Types' /\ Outcome
  BY FadesKeep, Zenon DEF IInv, Types, Moved, Faded, Timeless, Books

(* A step that writes an entry of the call of w. *)
LEMMA PutKeeps ==
  ASSUME IInv, Moved, Timeless, NEW w \in Writers, NEW k \in Names,
         NEW d \in {"whole", "partial"}, Put(k, Entry(th[w].tok, d)), ~PastDigest(th[w]),
         k = "sha" /\ th[w]'.tok # None => PastDigest(th[w]')
  PROVE  Types' /\ Outcome
  <1> DEFINE e == Entry(th[w].tok, d)
  <1>1. e \in Objects /\ e.tok = th[w].tok
    BY Zenon DEF IInv, Types, Threads, Objects, Entry
  <1>2. obj' \in [Names -> Seq(Objects)] /\ Puts(w, k)
    BY <1>1, PutTop, Zenon DEF IInv, Types, Puts
  <1>3. Types' /\ Onward /\ Books
    BY <1>2, Zenon DEF IInv, Types, Moved, Timeless, Books
  <1>4. CASE k = "sha" BY <1>2, <1>3, <1>4, DigestKeeps, Zenon
  <1>5. CASE k # "sha" BY <1>2, <1>3, <1>5, PutsKeep, Zenon DEF Names
  <1> QED BY <1>3, <1>4, <1>5, Zenon

------------------------------------------------------------------------------
(* The steps of a call. *)

USE DEF At

(* The steps that clear what a dead save left. *)
LEMMA ClearingKeeps ==
  ASSUME IInv, NEW w \in Writers, gone' = gone \cup Lost,
         \/ RemovePartial(w) \/ partialAge(w) \/ overwritePartial(w) \/ removeAll(w)
         \/ removePartial(w) \/ shred(w) \/ unlinkDEK(w) \/ deleteObject(w)
         \/ deleteVersions(w)
  PROVE  Types' /\ Outcome
  <1>0. Types /\ th[w] \in Threads /\ th[w].then \in Pcs /\ th[w].key \in Names
    BY Zenon DEF IInv, Types, Threads
  <1> USE <1>0
  <1>1. CASE RemovePartial(w)
    <2>1. Moved
      <3>1. CASE Return(w) BY <3>1, ReturnMoves, Zenon DEF Return
      <3>2. CASE Goto(w, "partial")
        BY <3>2, <1>1, GotoMoves, Zenon DEF RemovePartial, PastDigest, Pcs
      <3> QED BY <1>1, <3>1, <3>2, Zenon DEF RemovePartial
    <2> QED BY <1>1, <2>1, StillFades, QuietKeeps, Zenon
        DEF RemovePartial, same, store, Timeless
  <1>2. CASE partialAge(w)
    <2>1. Moved
      <3>1. CASE Return(w) BY <3>1, ReturnMoves, Zenon DEF Return
      <3>2. ASSUME NEW p \in {"dekAge", "overwrite", "removeAll"}, Goto(w, p) PROVE Moved
        BY <3>2, <1>2, GotoMoves, Zenon DEF partialAge, PastDigest, Pcs
      <3>3. CASE DeleteAll(w, "pay", "dekAge")
        BY <3>3, <1>2, DeleteMoves, Zenon DEF partialAge, PastDigest, Pcs, Names
      <3> QED BY <1>2, <3>1, <3>2, <3>3, Zenon DEF partialAge
    <2> QED BY <1>2, <2>1, StillFades, QuietKeeps, Zenon DEF partialAge, same, store, Timeless
  <1>3. CASE overwritePartial(w)
    <2>1. Moved
      BY <1>3, GotoMoves, Zenon DEF overwritePartial, PastDigest, Pcs
    <2> QED BY <1>3, <2>1, ZeroFades, QuietKeeps, Zenon DEF overwritePartial, same, Timeless
  <1>4. CASE removeAll(w)
    <2>1. Moved
      BY <1>4, GotoMoves, Zenon DEF removeAll, PastDigest, Pcs
    <2> QED BY <1>4, <2>1, UnlinkFades, QuietKeeps, Zenon DEF removeAll, same, Timeless
  <1>5. CASE removePartial(w)
    <2>1. Moved
      <3>1. CASE Return(w) BY <3>1, ReturnMoves, Zenon DEF Return
      <3>2. CASE Goto(w, "putDEK") BY <3>2, <1>5, GotoMoves, Zenon DEF removePartial, PastDigest, Pcs
      <3>3. CASE th' = [th EXCEPT ![w].pc = "shred", ![w].then = "putDEK"]
        BY <3>3, <1>5, ShredMoves, Zenon DEF removePartial, PastDigest, Pcs
      <3>4. CASE DeleteAll(w, "dek", "putDEK")
        BY <3>4, <1>5, DeleteMoves, Zenon DEF removePartial, PastDigest, Pcs, Names
      <3> QED BY <1>5, <3>1, <3>2, <3>3, <3>4, Zenon DEF removePartial
    <2> QED BY <1>5, <2>1, StillFades, QuietKeeps, Zenon
        DEF removePartial, same, store, Timeless
  <1>6. CASE shred(w)
    <2>1. Moved
      BY <1>6, GotoMoves, Zenon DEF shred, Pcs
    <2> QED BY <1>6, <2>1, ZeroFades, QuietKeeps, Zenon DEF shred, same, Timeless
  <1>7. CASE unlinkDEK(w)
    <2>1. Moved
      <3>1. CASE th[w].then = "idle" BY <1>7, <3>1, ReturnMoves, Zenon DEF unlinkDEK, Return
      <3>2. CASE th[w].then # "idle"
        BY <1>7, <3>2, GotoMoves, Zenon DEF unlinkDEK, PastDigest, Ends
      <3> QED BY <3>1, <3>2, Zenon
    <2> QED BY <1>7, <2>1, UnlinkFades, QuietKeeps, Zenon DEF unlinkDEK, same, Timeless
  <1>8. CASE deleteObject(w)
    <2>1. Moved
      <3>1. CASE Goto(w, "versions") BY <1>8, <3>1, GotoMoves, Zenon DEF deleteObject, Pcs
      <3>2. CASE Broken(w)
        BY <1>8, <3>2, GotoMoves, ReturnMoves, Zenon DEF Broken, Return, Pcs, Ends
      <3> QED BY <1>8, <3>1, <3>2, Zenon DEF deleteObject
    <2>2. Faded
      BY <1>8, HideFades, Zenon DEF deleteObject
    <2> QED BY <1>8, <2>1, <2>2, QuietKeeps, Zenon DEF deleteObject, Broken, same, Timeless
  <1>9. CASE deleteVersions(w)
    <2>1. Moved
      <3>1. CASE Goto(w, th[w].then) BY <1>9, <3>1, GotoMoves, Zenon DEF deleteVersions, PastDigest, Ends
      <3>2. CASE Broken(w)
        BY <1>9, <3>2, GotoMoves, ReturnMoves, Zenon DEF Broken, Return, Pcs, Ends
      <3> QED BY <1>9, <3>1, <3>2, Zenon DEF deleteVersions
    <2>2. Faded
      BY <1>9, HideFades, UnlinkFades, Zenon DEF deleteVersions
    <2> QED BY <1>9, <2>1, <2>2, QuietKeeps, Zenon DEF deleteVersions, Broken, same, Timeless
  <1> QED BY <1>1, <1>2, <1>3, <1>4, <1>5, <1>6, <1>7, <1>8, <1>9, Zenon

(* The steps that write a snapshot. *)
LEMMA WritingKeeps ==
  ASSUME IInv, NEW w \in Writers, gone' = gone \cup Lost,
         \/ PutDEK(w) \/ writeDEK(w) \/ innerSave(w) \/ writeState(w) \/ upload(w)
         \/ writeDigest(w)
  PROVE  Types' /\ Outcome
  <1>0. /\ Types /\ ~PastDigest(th[w]) /\ Timeless
        /\ "dek" \in Names /\ "pay" \in Names /\ "sha" \in Names
    BY Zenon DEF IInv, PastDigest, Timeless, PutDEK, writeDEK, innerSave, writeState, upload,
           writeDigest, same, Names
  <1> USE <1>0
  <1>a. ASSUME Return(w) \/ \E p \in Pcs : Goto(w, p) PROVE Moved
    BY <1>a, ReturnMoves, GotoMoves, Zenon DEF Return
  <1>1. CASE PutDEK(w)
    <2>1. CASE UNCHANGED obj
      <3>1. Moved
        BY <1>1, <2>1, <1>a, Zenon DEF PutDEK, Pcs
      <3> QED BY <2>1, <3>1, StillFades, QuietKeeps, Zenon
    <2>2. CASE Put("dek", Entry(th[w].tok, "whole")) /\ Goto(w, "inner")
      <3>1. Moved
        BY <2>2, <1>a, Zenon DEF Pcs
      <3> QED BY <2>2, <3>1, PutKeeps, Zenon
    <2> QED BY <1>1, <2>1, <2>2, Zenon DEF PutDEK
  <1>2. CASE writeDEK(w)
    <2>1. Moved
      BY <1>2, <1>a, Zenon DEF writeDEK, Pcs
    <2>2. CASE UNCHANGED obj BY <2>1, <2>2, StillFades, QuietKeeps, Zenon
    <2>3. CASE Put("dek", Entry(th[w].tok, "whole")) BY <2>1, <2>3, PutKeeps, Zenon
    <2> QED BY <1>2, <2>2, <2>3, Zenon DEF writeDEK
  <1>3. CASE innerSave(w)
    <2>1. CASE UNCHANGED obj /\ Goto(w, "cleanup")
      <3>1. Moved
        BY <2>1, <1>a, Zenon DEF Pcs
      <3> QED BY <2>1, <3>1, StillFades, QuietKeeps, Zenon
    <2>2. CASE /\ Put("pay", Entry(th[w].tok, "partial"))
               /\ th' = [th EXCEPT ![w].pc = "write", ![w].until = now + Limit]
      <3>1. Moved
        BY <2>2, LimitMoves, Zenon
      <3> QED BY <2>2, <3>1, PutKeeps, Zenon
    <2>3. CASE /\ UNCHANGED obj
               /\ th' = [th EXCEPT ![w].pc = "upload", ![w].until = now + Limit]
      <3>1. Moved
        BY <2>3, LimitMoves, Zenon
      <3> QED BY <2>3, <3>1, StillFades, QuietKeeps, Zenon
    <2> QED BY <1>3, <2>1, <2>2, <2>3, Zenon DEF innerSave, store
  <1>4. CASE writeState(w)
    <2>1. Moved
      BY <1>4, <1>a, Zenon DEF writeState, Pcs
    <2>2. CASE Put("pay", Entry(th[w].tok, "whole")) BY <2>1, <2>2, PutKeeps, Zenon
    <2>3. CASE Unlink({"pay", "sha"}) BY <2>1, <2>3, UnlinkFades, QuietKeeps, Zenon
    <2> QED BY <1>4, <2>2, <2>3, Zenon DEF writeState
  <1>5. CASE upload(w)
    <2>1. Moved
      BY <1>5, <1>a, Zenon DEF upload, Pcs
    <2>2. CASE Put("pay", Entry(th[w].tok, "whole")) BY <2>1, <2>2, PutKeeps, Zenon
    <2>3. CASE UNCHANGED obj BY <2>1, <2>3, StillFades, QuietKeeps, Zenon
    <2> QED BY <1>5, <2>2, <2>3, Zenon DEF upload
  <1>6. CASE writeDigest(w)
    <2>1. CASE Put("sha", Entry(th[w].tok, "whole")) /\ Goto(w, "saved")
      <3>1. Moved
        BY <2>1, <1>a, Zenon DEF Pcs
      <3>2. PastDigest(th[w]')
        BY <2>1, Zenon DEF Goto, PastDigest, Types, Threads
      <3> QED BY <2>1, <3>1, <3>2, PutKeeps, Zenon
    <2>2. CASE Unlink({"pay", "sha"}) /\ Goto(w, "cleanup")
      <3>1. Moved
        BY <2>2, <1>a, Zenon DEF Pcs
      <3> QED BY <2>2, <3>1, UnlinkFades, QuietKeeps, Zenon
    <2>3. CASE /\ DeleteAll(w, "pay", "cleanup")
               /\ UNCHANGED obj \/ Put("sha", Entry(th[w].tok, "whole"))
      <3>1. Moved
        BY <2>3, DeleteMoves, Zenon DEF Pcs
      <3>2. PastDigest(th[w]')
        BY <2>3, Zenon DEF DeleteAll, PastDigest, Types, Threads
      <3>3. CASE UNCHANGED obj BY <3>1, <3>3, StillFades, QuietKeeps, Zenon
      <3>4. CASE Put("sha", Entry(th[w].tok, "whole")) BY <3>1, <3>2, <3>4, PutKeeps, Zenon
      <3> QED BY <2>3, <3>3, <3>4, Zenon
    <2> QED BY <1>6, <2>1, <2>2, <2>3, Zenon DEF writeDigest
  <1> QED BY <1>1, <1>2, <1>3, <1>4, <1>5, <1>6, Zenon

(* The steps that end a save, and those of a Delete. *)
LEMMA EndingKeeps ==
  ASSUME IInv, NEW w \in Writers, gone' = gone \cup Lost,
         \/ saved(w) \/ cleanup(w) \/ cleanedUp(w) \/ destroyDEK(w) \/ innerDelete(w)
         \/ deleteRest(w) \/ overwriteState(w) \/ unlinkState(w) \/ unlinkDigest(w)
         \/ removeDir(w) \/ deleted(w)
  PROVE  Types' /\ Outcome
  <1>0. /\ Types /\ Timeless
        /\ "dek" \in Names /\ "pay" \in Names /\ "sha" \in Names
    BY Zenon DEF IInv, Timeless, saved, cleanup, cleanedUp, destroyDEK, innerDelete, deleteRest,
           overwriteState, unlinkState, unlinkDigest, removeDir, deleted, same, quiet, Names
  <1> USE <1>0
  <1>1. CASE saved(w) \/ cleanedUp(w) \/ deleted(w)
    BY <1>1, ReturnMoves, StillFades, QuietKeeps, Zenon
    DEF saved, cleanedUp, deleted, Return, store
  <1>2. CASE cleanup(w)
    <2>1. Moved
      <3>1. CASE Return(w) BY <3>1, ReturnMoves, Zenon DEF Return
      <3>2. CASE th' = [th EXCEPT ![w].pc = "shred", ![w].then = "idle"]
        BY <3>2, ShredMoves, Zenon DEF Pcs, Ends
      <3>3. CASE DeleteAll(w, "dek", "idleNow") BY <3>3, DeleteMoves, Zenon DEF Pcs, Ends
      <3> QED BY <1>2, <3>1, <3>2, <3>3, Zenon DEF cleanup
    <2> QED BY <1>2, <2>1, StillFades, QuietKeeps, Zenon DEF cleanup, store
  <1>3. CASE destroyDEK(w)
    <2>0. ~PastDigest(th[w])
      BY <1>3, Zenon DEF destroyDEK, PastDigest
    <2>1. Moved
      <3>1. CASE Return(w) BY <3>1, ReturnMoves, Zenon DEF Return
      <3>2. CASE Goto(w, "inner-delete") BY <3>2, <2>0, GotoMoves, Zenon DEF Pcs
      <3>3. CASE th' = [th EXCEPT ![w].pc = "shred", ![w].then = "inner-delete"]
        BY <3>3, <2>0, ShredMoves, Zenon DEF Pcs
      <3>4. CASE DeleteAll(w, "dek", "inner-delete") BY <3>4, <2>0, DeleteMoves, Zenon DEF Pcs
      <3> QED BY <1>3, <3>1, <3>2, <3>3, <3>4, Zenon DEF destroyDEK
    <2> QED BY <1>3, <2>1, StillFades, QuietKeeps, Zenon DEF destroyDEK, store
  <1>4. CASE innerDelete(w)
    <2>0. ~PastDigest(th[w])
      BY <1>4, Zenon DEF innerDelete, PastDigest
    <2>1. Moved
      <3>1. ASSUME NEW p \in {"zero", "deleted"}, Goto(w, p) PROVE Moved
        BY <3>1, <2>0, GotoMoves, Zenon DEF Pcs
      <3>2. CASE DeleteAll(w, "pay", "delete-sha") BY <3>2, <2>0, DeleteMoves, Zenon DEF Pcs
      <3> QED BY <1>4, <3>1, <3>2, Zenon DEF innerDelete
    <2> QED BY <1>4, <2>1, StillFades, QuietKeeps, Zenon DEF innerDelete, quiet, store
  <1>5. CASE deleteRest(w)
    <2>0. ~PastDigest(th[w])
      BY <1>5, Zenon DEF deleteRest, PastDigest
    <2>1. Moved
      BY <1>5, <2>0, DeleteMoves, Zenon DEF deleteRest, Pcs
    <2> QED BY <1>5, <2>1, StillFades, QuietKeeps, Zenon DEF deleteRest, quiet, store
  <1>6. CASE overwriteState(w)
    <2>0. ~PastDigest(th[w])
      BY <1>6, Zenon DEF overwriteState, PastDigest
    <2>1. Moved
      BY <1>6, <2>0, GotoMoves, ReturnMoves, Zenon DEF overwriteState, Pcs
    <2> QED BY <1>6, <2>1, ZeroFades, QuietKeeps, Zenon DEF overwriteState
  <1>7. CASE unlinkState(w) \/ unlinkDigest(w)
    <2>0. ~PastDigest(th[w])
      BY <1>7, Zenon DEF unlinkState, unlinkDigest, PastDigest
    <2>1. Moved
      BY <1>7, <2>0, GotoMoves, Zenon DEF unlinkState, unlinkDigest, Pcs
    <2> QED BY <1>7, <2>1, UnlinkFades, QuietKeeps, Zenon DEF unlinkState, unlinkDigest
  <1>8. CASE removeDir(w)
    <2>0. ~PastDigest(th[w])
      BY <1>8, Zenon DEF removeDir, PastDigest
    <2>1. Moved
      BY <1>8, <2>0, GotoMoves, Zenon DEF removeDir, Pcs
    <2> QED BY <1>8, <2>1, StillFades, QuietKeeps, Zenon DEF removeDir
  <1> QED BY <1>1, <1>2, <1>3, <1>4, <1>5, <1>6, <1>7, <1>8, Zenon

(* A new call. *)
LEMMA BeginningKeeps ==
  ASSUME IInv, NEW w \in Writers, gone' = gone \cup Lost, Save(w) \/ Delete(w)
  PROVE  Types' /\ Outcome
  <1>0. Types /\ saves + 1 \in Nat /\ (Save(w) => saves + 1 <= MaxSaves)
    BY StorageAssumption DEF IInv, Types, Save
  <1>3. CASE Save(w)
    <2>1. Types'
      <3>1. Begin(w, Asked) /\ saves' = saves + 1 /\ obj' = obj /\ now' = now
        BY <1>3, Zenon DEF Save, Asked, store
      <3> QED BY <1>0, <1>3, <3>1, BeginFields, AskedFields, Zenon DEF Types
    <2> QED BY <1>3, <2>1, SaveKeeps, Zenon
  <1>4. CASE Delete(w)
    <2>1. Begin(w, AskedDelete)
      BY <1>4, Zenon DEF Delete, AskedDelete
    <2>2. /\ th' \in [Writers -> Threads] /\ th[w]'.tok = None
          /\ \A v \in Writers \ {w} : th[v]'.tok = th[v].tok /\ th[v]'.pc = th[v].pc
                                     /\ th[v]'.then = th[v].then
      BY <1>0, <2>1, BeginFields, AskedFields, Zenon
    <2>3. Moved
      BY <2>2, Zenon DEF Moved, Onward, PastDigest
    <2> QED BY <1>0, <1>4, <2>3, StillFades, QuietKeeps, Zenon DEF Delete, store, Timeless
  <1> QED BY <1>3, <1>4, Zenon

(* A crash, the sweep and the clock. *)
LEMMA OutsideKeeps ==
  ASSUME IInv, gone' = gone \cup Lost,
         \/ \E p \in Writers \cup {"agent"} : Crash(p)
         \/ AbortStaleMultipartUploads \/ Tick
  PROVE  Types' /\ Outcome
  <1>0. Types
    BY Zenon DEF IInv
  <1>1. ASSUME NEW p \in Writers \cup {"agent"}, Crash(p) PROVE Types' /\ Outcome
    <2>1. th' \in [Writers -> Threads]
      <3>1. Idle \in Threads
        BY Zenon DEF Idle, Threads, Pcs, Names
      <3> QED BY <1>0, <1>1, <3>1, Zenon DEF Crash, Types
    <2>2. \A v \in Writers : th[v]' \in {th[v], Idle}
      BY <1>1, Zenon DEF Crash
    <2>3. Moved /\ Timeless
      BY <1>1, <2>1, <2>2, Zenon DEF Crash, Moved, Timeless, Onward, Idle
    <2>4. CASE UNCHANGED obj BY <1>0, <2>3, <2>4, StillFades, QuietKeeps, Zenon
    <2>5. ASSUME NEW w \in Writers, At(w, "digest"), w \in Busy, Process(w) = p,
                 Put("sha", Entry(th[w].tok, "partial"))
          PROVE  Types' /\ Outcome
      <3>1. ~PastDigest(th[w])
        BY <2>5, Zenon DEF PastDigest
      <3>2. th[w]'.tok = None
        BY <1>1, <2>5, Zenon DEF Crash, Idle
      <3>3. "sha" \in Names
        BY Zenon DEF Names
      <3> QED BY <2>3, <2>5, <3>1, <3>2, <3>3, PutKeeps, Zenon
    <2>6. \/ UNCHANGED obj
          \/ \E w \in Writers : /\ At(w, "digest") /\ w \in Busy /\ Process(w) = p
                               /\ Put("sha", Entry(th[w].tok, "partial"))
      BY <1>1, Zenon DEF Crash, Busy
    <2> QED BY <2>4, <2>5, <2>6, Zenon
  <1>2. CASE AbortStaleMultipartUploads
    <2>1. th' = th /\ Timeless /\ obj' = obj
      BY <1>2, Zenon DEF AbortStaleMultipartUploads, same, Timeless
    <2>2. Moved
      BY <1>0, <2>1, Zenon DEF Moved, Onward, Types
    <2> QED BY <1>0, <2>1, <2>2, StillFades, QuietKeeps, Zenon
  <1>3. CASE Tick
    <2>1. th' = th /\ obj' = obj /\ saves' = saves /\ now' \in Nat
      BY <1>0, <1>3 DEF Tick, store, Types
    <2>2. Onward /\ Fades /\ Books
      BY <2>1, Zenon DEF Onward, Fades, Top, Books
    <2> QED BY <1>0, <2>1, <2>2, FadesKeep, Zenon DEF Types
  <1> QED BY <1>1, <1>2, <1>3, Zenon

(* Every step keeps the invariant, and what an Open gives changes as the   *)
(* promise allows.                                                         *)
LEMMA NextKeeps ==
  ASSUME IInv, Next
  PROVE  IInv' /\ Allowed
  <1>1. gone' = gone \cup Lost
    BY Zenon DEF Next
  <1>2. ASSUME NEW w \in Writers, Step(w) PROVE Types' /\ Outcome
    BY <1>1, <1>2, ClearingKeeps, WritingKeeps, EndingKeeps, BeginningKeeps, Zenon DEF Step
  <1>3. Types' /\ Outcome
    BY <1>1, <1>2, OutsideKeeps, Zenon DEF Next, Act
  <1> QED BY <1>3, Zenon DEF IInv, Outcome

(* So does a step that changes nothing. *)
LEMMA StutterKeeps ==
  ASSUME IInv, UNCHANGED vars
  PROVE  IInv' /\ Content' = Content /\ gone' = gone
  <1>1. UNCHANGED <<now, saves, obj, th, gone>>
    BY Zenon DEF vars, store
  <1>2. \A k \in Names : Top(k)' = Top(k)
    BY <1>1, Zenon DEF Top
  <1>3. Content' = Content /\ Token("sha")' = Token("sha")
    BY <1>2, ContentIs, Zenon DEF Names, Token
  <1> QED BY <1>1, <1>3, Zenon DEF IInv, Types, Fresh, Spent

(* The store begins empty. *)
LEMMA InitKeeps == Init => IInv
  <1> SUFFICES ASSUME Init PROVE IInv
    BY Zenon
  <1>1. Idle \in Threads /\ Idle.tok = None
    BY Zenon DEF Idle, Threads, Pcs, Names
  <1>2. Types
    BY <1>1, StorageAssumption DEF Init, Types
  <1>3. Token("sha") = None
    BY Zenon DEF Init, Token, Top, Marker, Names
  <1>4. Fresh
    BY <1>1, <1>3, StorageAssumption, Zenon DEF Init, Fresh, Spent
  <1> QED BY <1>2, <1>4, Zenon DEF IInv

(* The store over a disk or a bucket implements what SnapshotStore promises *)
(* of an id, for every set of callers and every number of saves, crashes   *)
(* and errors: EncryptedBackend.Open gives a whole snapshot or none, and a *)
(* snapshot that was lost or deleted never comes back.                     *)
THEOREM StorageImplements == Spec => Implements
  <1>1. Init => Store!Init
    <2>1. Init => Content = None
      BY ContentIs, Zenon DEF Init, ContentOf, Whole, Top, Names
    <2> QED BY <2>1, Zenon DEF Store!Init, Init
  <1>2. IInv /\ [Next]_vars => IInv' /\ [Store!Next]_<<Content, gone>>
    <2> SUFFICES ASSUME IInv, [Next]_vars PROVE IInv' /\ [Store!Next]_<<Content, gone>>
      BY Zenon
    <2>1. CASE Next
      <3>1. IInv' /\ Allowed
        BY <2>1, NextKeeps, Zenon
      <3>2. gone' = gone \cup IF Content # None /\ Content' # Content THEN {Content} ELSE {}
        BY <2>1, Zenon DEF Next, Lost
      <3>3. [Store!Next]_<<Content, gone>>
        BY <3>1, <3>2, Zenon DEF Allowed, Store!Next, Store!Commit, Store!Lose
      <3> QED BY <3>1, <3>3, Zenon
    <2>2. CASE UNCHANGED vars
      BY <2>2, StutterKeeps, Zenon
    <2> QED BY <2>1, <2>2, Zenon
  <1> QED BY <1>1, <1>2, InitKeeps, PTL DEF Spec, Implements, Store!Spec
HIDE DEF At


------------------------------------------------------------------------------
(* What calls that overlap, crash and stop half way leave of the promises  *)
(* of Save and Delete.                                                     *)

Clear(k) == \A i \in DOMAIN obj[k] : obj[k][i] = Marker
Holds(k, t) == Top(k).data = "whole" /\ Top(k).tok = t
Sound == There("sha") => Content # None

LocalOnly == {"overwrite", "removeAll", "shred", "unlinkDEK", "write", "zero", "unlink",
              "unlink-sha", "rmdir"}
BucketOnly == {"delete", "versions", "delete-sha", "delete-dek", "writeDEK", "upload",
               "idleNow"}
Removal == {"delete", "versions", "shred", "unlinkDEK"}

(* The points of a Save, and those of a Delete with the object it removes. *)
InSave(r) ==
  \/ r.pc \in {"complete", "partial", "overwrite", "removeAll", "dekAge", "putDEK",
               "writeDEK", "inner", "write", "upload", "digest", "saved", "cleanup",
               "idleNow"}
  \/ r.pc \in {"shred", "unlinkDEK"} /\ r.then \in {"putDEK", "idle"}
  \/ r.pc \in {"delete", "versions"} /\ r.then \in {"dekAge", "putDEK", "cleanup", "idleNow"}

InDelete(r) ==
  \/ r.pc \in {"destroy", "inner-delete", "delete-sha", "delete-dek", "zero", "unlink",
               "unlink-sha", "rmdir", "deleted"}
  \/ r.pc \in {"shred", "unlinkDEK"} /\ r.then = "inner-delete"
  \/ /\ r.pc \in {"delete", "versions"}
     /\ \/ r.then = "inner-delete" /\ r.key = "dek"
        \/ r.then = "delete-sha" /\ r.key = "pay"
        \/ r.then = "delete-dek" /\ r.key = "sha"
        \/ r.then = "deleted" /\ r.key = "dek"

Call(r) ==
  \/ r.pc = "idle" /\ r.op = "none" /\ r.tok = None
  \/ InSave(r) /\ r.op = "save" /\ r.tok # None
  \/ InDelete(r) /\ r.op = "delete" /\ r.tok = None

Placed(r) == (r.pc \in LocalOnly => Local) /\ (r.pc \in BucketOnly => ~Local)

(* A disk has no delete markers. *)
NoMarkers == Local => \A k \in Names : There(k) \/ obj[k] = <<>>

(* What a Save that no call overlapped has written, *)
SaveDone(r) ==
  /\ r.pc \in {"inner", "write", "upload", "digest", "saved"} => Holds("dek", r.tok)
  /\ r.pc \in {"digest", "saved"} => Holds("pay", r.tok)
  /\ r.pc = "saved" => Holds("sha", r.tok)
  /\ ~odd => IF r.pc = "complete" THEN Sound ELSE r.pc = "saved" \/ ~There("sha")

(* and what such a Delete has removed. *)
DeleteDone(r) ==
  LET then == IF r.pc \in Removal THEN r.then ELSE r.pc IN
  /\ r.pc = "deleted" \/ (Local /\ r.pc \notin {"destroy", "shred", "unlinkDEK"})
       => Clear("dek")
  /\ r.pc \in {"unlink-sha", "rmdir", "delete-sha"} \/ then \in {"delete-dek", "deleted"}
       => Clear("pay")
  /\ ~odd =>
       /\ then \in {"destroy", "inner-delete"} /\ There("sha") => There("pay")
       /\ r.pc = "zero" => There("pay")
       /\ r.pc \in {"rmdir", "delete-dek"} \/ then = "deleted" => ~There("sha")

Alone(w) == w \in Busy /\ th[w].alone

(* A Save that runs is younger than what would be taken for dead. *)
Live(r) ==
  /\ r.pc \in {"write", "upload"} => now <= r.until
  /\ r.pc = "upload" => \E u \in uploads : u.tok = r.tok /\ u.at + Stale >= r.until
  /\ \A k \in {"dek", "pay"} : r.tok # None /\ Token(k) = r.tok =>
       \/ r.pc = "inner" /\ Top(k).at >= now
       \/ r.pc \in {"write", "upload"} /\ Top(k).at + Stale >= r.until
       \/ r.pc = "digest" \/ PastDigest(r)

Calls ==
  /\ \A k \in Names : Token(k) \in 1..saves \cup {None}
  /\ \A w \in Writers : Call(th[w]) /\ Placed(th[w]) /\ Live(th[w])
  /\ \A w \in Writers : Alone(w) => \A v \in Writers \ {w} : v \notin Busy
  /\ ~odd => \A w \in Busy : th[w].alone
  /\ uploads \subseteq [tok : Nat \cup {None}, at : Nat]

Promises ==
  /\ NoMarkers
  /\ \A w \in Writers : Alone(w) =>
       (th[w].op = "save" => SaveDone(th[w])) /\ (th[w].op = "delete" => DeleteDone(th[w]))
  /\ acked # None => Content = acked /\ \A w \in Writers : th[w].pc \in {"idle", "complete"}
  /\ erased => Clear("dek") /\ Clear("pay") /\ \A w \in Writers : th[w].op # "save"
  /\ ~odd /\ Busy = {} => Sound

(* The objects keep their versions apart, and every entry that comes up is *)
(* one of the call of w.                                                   *)
Objs(w) ==
  /\ NoMarkers'
  /\ \A k \in Names :
       \/ Token(k)' = None \/ Token(k)' = th[w].tok
       \/ Token(k)' = Token(k) /\ Top(k)'.at = Top(k).at

(* No new entry comes up. *)
Dims == \A k \in Names : Token(k)' \in {Token(k), None}

(* Object k is as it was. *)
Same(k) == Top(k)' = Top(k) /\ Clear(k)' = Clear(k)

(* Objects that stay as they are. *)
LEMMA StillObjs ==
  ASSUME NoMarkers, obj' = obj, kind' = kind
  PROVE  /\ Dims /\ \A w : Objs(w)
         /\ \A k \in Names : Same(k)
         /\ Content' = Content
  <1>1. \A k \in Names : Same(k)
    BY Zenon DEF Same, Top, Clear
  <1>2. NoMarkers'
    BY <1>1, Zenon DEF NoMarkers, Local, There, Same
  <1>3. Content' = Content
    BY <1>1, ContentIs, Zenon DEF Same, Names
  <1> QED BY <1>1, <1>2, <1>3, Zenon DEF Objs, Dims, Same, Token

(* A put of a call. *)
LEMMA PutObjs ==
  ASSUME Types, NoMarkers, kind' = kind, NEW w \in Writers, NEW k \in Names,
         NEW d \in {"whole", "partial"}, Put(k, Entry(th[w].tok, d))
  PROVE  /\ Objs(w)
         /\ \A j \in Names \ {k} : Same(j)
         /\ Top(k)'.data = d /\ Top(k)'.tok = th[w].tok /\ Top(k)'.at = now
  <1> DEFINE e == Entry(th[w].tok, d)
  <1>1. e \in Objects /\ e.tok = th[w].tok /\ e.data = d /\ e.at = now /\ e # Marker
    BY Zenon DEF Types, Threads, Objects, Entry, Marker
  <1> HIDE DEF e
  <1>2. Put(k, e)
    BY Zenon DEF e
  <1>3. Top(k)' = e /\ \A j \in Names \ {k} : Same(j)
    BY <1>1, <1>2, PutTop, Zenon DEF Types, Put, Same, Clear
  <1>4. \A j \in Names \ {k} : obj'[j] = obj[j]
    BY <1>2, Zenon DEF Put, Types
  <1>5. NoMarkers'
    BY <1>1, <1>3, <1>4, Zenon DEF NoMarkers, Local, There, Same
  <1> QED BY <1>1, <1>3, <1>5, Zenon DEF Objs, Same, Token

(* An unlink. *)
LEMMA UnlinkObjs ==
  ASSUME Types, NoMarkers, kind' = kind, NEW ks \in SUBSET Names, Unlink(ks)
  PROVE  /\ Dims /\ \A w : Objs(w)
         /\ \A j \in Names \ ks : Same(j)
         /\ \A j \in ks : Top(j)' = Marker /\ Clear(j)'
  <1>1. \A j \in Names : obj'[j] = IF j \in ks THEN <<>> ELSE obj[j]
    BY Zenon DEF Unlink
  <1>2. \A j \in Names \ ks : Same(j)
    BY <1>1, Zenon DEF Same, Top, Clear
  <1>3. \A j \in ks : Top(j)' = Marker /\ Clear(j)'
    BY <1>1 DEF Top, Clear
  <1>4. NoMarkers'
    BY <1>1, <1>2, Zenon DEF NoMarkers, Local, There, Same
  <1> QED BY <1>2, <1>3, <1>4 DEF Objs, Dims, Same, Token, Marker

(* What is on top of an object is an entry or the marker. *)
LEMMA TopType ==
  ASSUME Types, NEW k \in Names
  PROVE  Top(k) \in Objects
  <1>1. obj[k] \in Seq(Objects)
    BY Zenon DEF Types
  <1>2. Marker \in Objects
    BY Zenon DEF Marker, Objects
  <1> QED BY <1>1, <1>2, EmptyIs, ElementIn DEF Top

(* Zeros in a file. *)
LEMMA ZeroObjs ==
  ASSUME Types, NoMarkers, Local, kind' = kind, NEW k \in Names, Zero(k)
  PROVE  /\ Dims /\ \A w : Objs(w)
         /\ \A j \in Names \ {k} : Same(j)
         /\ There(k)' = There(k)
         /\ Clear(k) => Clear(k)'
  <1> DEFINE s == obj[k]
             z == [i \in DOMAIN s |-> [s[i] EXCEPT !.data = "zeros"]]
  <1>1. s \in Seq(Objects) /\ obj'[k] = z /\ \A j \in Names \ {k} : obj'[j] = obj[j]
    BY Zenon DEF Zero, SetData, Types
  <1>2. \A j \in Names \ {k} : Same(j)
    BY <1>1, Zenon DEF Same, Top, Clear
  <1>3. CASE s = <<>>
    <2>1. z = <<>>
      BY <1>3
    <2>2. Same(k) /\ Clear(k)' /\ obj'[k] = <<>>
      BY <1>1, <1>3, <2>1 DEF Same, Top, Clear
    <2>3. NoMarkers'
      BY <1>1, <1>2, <2>2, Zenon DEF NoMarkers, Local, There, Same
    <2> QED BY <1>2, <2>2, <2>3, Zenon DEF Objs, Dims, Same, Token, There
  <1>4. CASE s # <<>>
    <2>1. There(k)
      BY <1>4, Zenon DEF NoMarkers
    <2>2. Len(s) \in Nat /\ Len(s) # 0 /\ DOMAIN s = 1..Len(s)
      BY <1>1, <1>4, EmptyIs
    <2>3. s[Len(s)] \in Objects /\ s[1] \in Objects /\ Len(s) \in DOMAIN s /\ 1 \in DOMAIN s
      BY <1>1, <2>2, ElementIn
    <2>4. Len(z) = Len(s) /\ z # <<>>
      <3>1. DOMAIN z = 1..Len(s)
        BY <2>2, Zenon
      <3>2. Len(z) = Len(s)
        BY <2>2, <3>1
      <3> HIDE DEF z
      <3> QED BY <2>2, <3>1, <3>2, Zenon
    <2>5. /\ z[Len(z)] = [s[Len(s)] EXCEPT !.data = "zeros"]
          /\ z[1] = [s[1] EXCEPT !.data = "zeros"]
      BY <2>3, <2>4, Zenon
    <2>6. \A e \in Objects : /\ [e EXCEPT !.data = "zeros"].data = "zeros"
                             /\ [e EXCEPT !.data = "zeros"].tok = e.tok
                             /\ [e EXCEPT !.data = "zeros"].at = e.at
      BY Zenon DEF Objects
    <2> HIDE DEF z
    <2>7. z[Len(z)].data = "zeros" /\ z[1].data = "zeros"
          /\ z[Len(z)].tok = s[Len(s)].tok /\ z[Len(z)].at = s[Len(s)].at
      BY <2>3, <2>5, <2>6, Zenon
    <2>8. Top(k)' = z[Len(z)] /\ Top(k) = s[Len(s)]
      BY <1>1, <1>4, <2>4, Zenon DEF Top
    <2>9. There(k)'
      BY <2>7, <2>8 DEF There, Marker
    <2>10. NoMarkers'
      BY <1>1, <1>2, <2>9, Zenon DEF NoMarkers, Local, There, Same
    <2>11. ~Clear(k)
      BY <2>1, <2>3, <2>8, Zenon DEF There, Clear
    <2> QED BY <1>2, <2>1, <2>7, <2>8, <2>9, <2>10, <2>11, Zenon DEF Objs, Dims, Same, Token
  <1> QED BY <1>3, <1>4, Zenon

(* A delete marker, and a removal of versions that stops half way. *)
LEMMA HideObjs ==
  ASSUME Types, ~Local, kind' = kind, NEW k \in Names,
         DeleteObject(k) \/ DeleteSome(k) \/ UNCHANGED obj
  PROVE  /\ Dims /\ \A w : Objs(w)
         /\ \A j \in Names \ {k} : Same(j)
         /\ Top(k)' \in {Top(k), Marker}
         /\ Clear(k) => Clear(k)'
  <1>1. NoMarkers'
    BY Zenon DEF NoMarkers, Local
  <1>2. CASE UNCHANGED obj
    BY <1>1, <1>2, StillObjs, Zenon DEF Objs, Dims, Same, Token, Top, Clear
  <1>3. CASE DeleteObject(k) \/ DeleteSome(k)
    <2>1. \A j \in Names \ {k} : obj'[j] = obj[j]
      BY <1>3, Zenon DEF DeleteObject, DeleteSome, Types
    <2>2. \A j \in Names \ {k} : Same(j)
      BY <2>1, Zenon DEF Same, Top, Clear
    <2>3. \/ obj'[k] = obj[k] \/ obj'[k] = <<>> \/ obj'[k] = <<Marker>>
          \/ obj'[k] = Append(obj[k], Marker)
      BY <1>3, Zenon DEF DeleteObject, DeleteSome, Types
    <2>4. ASSUME Clear(k) PROVE Clear(k)'
      <3>1. CASE obj'[k] = obj[k] \/ obj'[k] = <<>>
        BY <2>4, <3>1 DEF Clear
      <3>2. CASE obj'[k] = <<Marker>>
        BY <3>2 DEF Clear
      <3>3. CASE obj'[k] = Append(obj[k], Marker)
        <4>1. obj[k] \in Seq(Objects) /\ Marker \in Objects
          BY Zenon DEF Types, Marker, Objects
        <4>2. /\ DOMAIN obj[k] = 1..Len(obj[k]) /\ Len(obj[k]) \in Nat
              /\ DOMAIN Append(obj[k], Marker) = 1..(Len(obj[k]) + 1)
              /\ \A i \in 1..Len(obj[k]) : Append(obj[k], Marker)[i] = obj[k][i]
              /\ Append(obj[k], Marker)[Len(obj[k]) + 1] = Marker
          BY <4>1
        <4> QED BY <2>4, <3>3, <4>2 DEF Clear
      <3> QED BY <2>3, <3>1, <3>2, <3>3, Zenon
    <2>5. Top(k)' \in {Top(k), Marker}
      BY <1>3, HideTop, Zenon DEF Types
    <2>6. Dims /\ \A w : Objs(w)
      BY <1>1, <2>2, <2>5 DEF Objs, Dims, Same, Token, Marker
    <2> QED BY <2>2, <2>4, <2>5, <2>6, Zenon
  <1> QED BY <1>2, <1>3, Zenon

------------------------------------------------------------------------------
(* A step of one call. *)

(* The call of w goes on to p. *)
Goes(w, p) ==
  /\ th' \in [Writers -> Threads] /\ \A v \in Writers \ {w} : th'[v] = th[v]
  /\ th'[w].pc = p /\ th'[w].op = th[w].op /\ th'[w].tok = th[w].tok
  /\ th'[w].alone = th[w].alone

(* Nobody's upload is dropped but one of w. *)
Ups(w) ==
  /\ uploads' \subseteq [tok : Nat \cup {None}, at : Nat]
  /\ \A u \in uploads : u.tok # th[w].tok => u \in uploads'

Frame == UNCHANGED <<kind, now, saves, acked, erased>> /\ (odd => odd')

LEMMA GotoGoes ==
  ASSUME Types, NEW w \in Writers, NEW p \in Pcs, Goto(w, p)
  PROVE  /\ Goes(w, p) /\ th'[w].then = th[w].then /\ th'[w].key = th[w].key
         /\ th'[w].until = th[w].until
  <1> DEFINE r == [th[w] EXCEPT !.pc = p]
  <1>1. th[w] \in Threads
    BY Zenon DEF Types
  <1>2. /\ r \in Threads /\ r.pc = p /\ r.op = th[w].op /\ r.tok = th[w].tok
        /\ r.alone = th[w].alone /\ r.then = th[w].then /\ r.key = th[w].key
        /\ r.until = th[w].until
    BY <1>1, Zenon DEF Threads
  <1>3. th' = [th EXCEPT ![w] = r]
    BY Zenon DEF Goto
  <1> HIDE DEF r
  <1> QED BY <1>2, <1>3, Zenon DEF Goes, Types

LEMMA DeleteGoes ==
  ASSUME Types, NEW w \in Writers, NEW k \in Names, NEW n \in Pcs, DeleteAll(w, k, n)
  PROVE  Goes(w, "delete") /\ th'[w].then = n /\ th'[w].key = k
  <1> DEFINE r == [th[w] EXCEPT !.pc = "delete", !.key = k, !.then = n]
  <1>1. th[w] \in Threads /\ "delete" \in Pcs
    BY Zenon DEF Types, Pcs
  <1>2. r \in Threads
    BY <1>1, Zenon DEF Threads
  <1>3. /\ r.pc = "delete" /\ r.op = th[w].op /\ r.tok = th[w].tok
        /\ r.alone = th[w].alone /\ r.then = n /\ r.key = k
    BY <1>1, Zenon DEF Threads
  <1>4. th' = [th EXCEPT ![w] = r]
    BY <1>1, Zenon DEF DeleteAll, Types, Threads
  <1> HIDE DEF r
  <1> QED BY <1>2, <1>3, <1>4, Zenon DEF Goes, Types

LEMMA ShredGoes ==
  ASSUME Types, NEW w \in Writers, NEW n \in Pcs,
         th' = [th EXCEPT ![w].pc = "shred", ![w].then = n]
  PROVE  Goes(w, "shred") /\ th'[w].then = n
  <1> DEFINE r == [th[w] EXCEPT !.pc = "shred", !.then = n]
  <1>1. th[w] \in Threads /\ "shred" \in Pcs
    BY Zenon DEF Types, Pcs
  <1>2. r \in Threads
    BY <1>1, Zenon DEF Threads
  <1>3. /\ r.pc = "shred" /\ r.op = th[w].op /\ r.tok = th[w].tok
        /\ r.alone = th[w].alone /\ r.then = n
    BY <1>1, Zenon DEF Threads
  <1>4. th' = [th EXCEPT ![w] = r]
    BY <1>1, Zenon DEF Types, Threads
  <1> HIDE DEF r
  <1> QED BY <1>2, <1>3, <1>4, Zenon DEF Goes, Types

LEMMA LimitGoes ==
  ASSUME Types, NEW w \in Writers, NEW p \in {"write", "upload"},
         th' = [th EXCEPT ![w].pc = p, ![w].until = now + Limit]
  PROVE  Goes(w, p) /\ th'[w].until = now + Stale
  <1> DEFINE r == [th[w] EXCEPT !.pc = p, !.until = now + Limit]
  <1>1. th[w] \in Threads /\ now + Limit \in Nat
    BY StorageAssumption DEF Types, Limit
  <1>2. r \in Threads
    BY <1>1, Zenon DEF Threads, Pcs
  <1>3. /\ r.pc = p /\ r.op = th[w].op /\ r.tok = th[w].tok
        /\ r.alone = th[w].alone /\ r.until = now + Stale
    BY <1>1, Zenon DEF Threads, Limit
  <1>4. th' = [th EXCEPT ![w] = r]
    BY <1>1, Zenon DEF Types, Threads
  <1> HIDE DEF r
  <1> QED BY <1>2, <1>3, <1>4, ZenonT(30) DEF Goes, Types

(* The calls of the others are as live as they were. *)
LEMMA OthersLive ==
  ASSUME IInv, Calls, NEW w \in Writers, Objs(w), Ups(w), now' = now, kind' = kind,
         NEW v \in Writers \ {w}, th'[v] = th[v]
  PROVE  Call(th[v])' /\ Placed(th[v])' /\ Live(th[v])'
  <1>1. Call(th[v])' /\ Placed(th[v])'
    BY DEF Calls, Call, InSave, InDelete, Placed, Local
  <1>2. th[v].tok # None => th[v].tok # th[w].tok
    BY Zenon DEF IInv, Fresh
  <1>3. th[v].pc = "upload" => th[v].tok # None
    BY Zenon DEF Calls, Call, InSave, InDelete, Removal
  <1>4. ASSUME NEW k \in {"dek", "pay"}, th[v].tok # None, Token(k)' = th[v].tok
        PROVE  Token(k) = th[v].tok /\ Top(k)'.at = Top(k).at
    BY <1>2, <1>4, Zenon DEF Objs, Names
  <1>5. PastDigest(th[v]) => PastDigest(th[v])'
    BY Zenon DEF PastDigest
  <1>6. th[v].pc = "upload" => \E u \in uploads' : u.tok = th[v].tok /\ u.at + Stale >= th[v].until
    BY <1>2, <1>3, Zenon DEF Ups, Calls, Live
  <1>7. Live(th[v])
    BY Zenon DEF Calls
  <1> QED BY <1>1, <1>4, <1>5, <1>6, <1>7, Zenon DEF Live

(* A step of a call that goes on. *)
LEMMA StepGoes ==
  ASSUME IInv, Calls, Promises, NEW w \in Writers, NEW p, p \notin {"idle", "complete"},
         Goes(w, p), Objs(w), Ups(w), Frame, w \in Busy,
         th[w].pc = "complete" => acked = None,
         th[w].op = "delete" => \A k \in {"dek", "pay"} : Clear(k) => Clear(k)',
         Call(th[w])', Placed(th[w])', Live(th[w])',
         Alone(w) /\ th[w].op = "save" => SaveDone(th[w])',
         Alone(w) /\ th[w].op = "delete" => DeleteDone(th[w])'
  PROVE  Calls' /\ Promises'
  <1> USE DEF Frame
  <1>1. \A v \in Writers : Call(th[v])' /\ Placed(th[v])' /\ Live(th[v])'
    BY OthersLive, Zenon DEF Goes
  <1>2. /\ \A v \in Writers : th'[v].op = th[v].op /\ th'[v].alone = th[v].alone
        /\ Busy' = Busy
    BY Zenon DEF Goes, Busy
  <1>3. \A v \in Writers : Alone(v)' = Alone(v)
    BY <1>2, Zenon DEF Alone
  <1>4. Calls'
    <2>1. \A k \in Names : Token(k)' \in 1..saves' \cup {None}
      BY Zenon DEF Objs, Calls, IInv, Fresh
    <2>2. /\ \A v \in Writers : Alone(v)' => \A u \in Writers \ {v} : u \notin Busy'
          /\ ~odd' => \A v \in Busy' : th'[v].alone
      BY <1>2, <1>3, Zenon DEF Calls, Busy
    <2> QED BY <1>1, <2>1, <2>2, Zenon DEF Calls, Ups
  <1>5. ASSUME NEW v \in Writers, Alone(v)'
        PROVE  /\ th'[v].op = "save" => SaveDone(th[v])'
               /\ th'[v].op = "delete" => DeleteDone(th[v])'
    <2>1. v = w
      BY <1>3, <1>5, Zenon DEF Calls
    <2> QED BY <1>2, <1>3, <1>5, <2>1, Zenon
  <1>6. acked = None
    BY Zenon DEF Promises, Busy
  <1>7. erased => th[w].op = "delete"
    BY Zenon DEF Promises, Calls, Call, Busy
  <1>8. ~odd' /\ Busy' = {} => Sound'
    BY <1>2, Zenon
  <1> QED BY <1>2, <1>4, <1>5, <1>6, <1>7, <1>8, Zenon DEF Promises, Objs

(* A step that ends a call. *)
LEMMA StepReturns ==
  ASSUME IInv, Calls, Promises, NEW w \in Writers, th' = [th EXCEPT ![w] = Idle],
         Objs(w), Ups(w), UNCHANGED <<kind, now, saves>>, odd => odd', w \in Busy,
         acked' # None => /\ Content' = acked'
                          /\ \A v \in Writers \ {w} : th[v].pc \in {"idle", "complete"},
         erased' => /\ Clear("dek")' /\ Clear("pay")'
                    /\ \A v \in Writers \ {w} : th[v].op # "save",
         ~odd' /\ Alone(w) => Sound'
  PROVE  Calls' /\ Promises'
  <1>1. /\ Idle.pc = "idle" /\ Idle.tok = None /\ Idle.op = "none"
        /\ th'[w] = Idle /\ \A v \in Writers \ {w} : th'[v] = th[v]
    BY Zenon DEF Idle, IInv, Types
  <1>2. Call(th[w])' /\ Placed(th[w])' /\ Live(th[w])'
    BY <1>1, Zenon DEF Call, Placed, LocalOnly, BucketOnly, Live
  <1>3. \A v \in Writers : Call(th[v])' /\ Placed(th[v])' /\ Live(th[v])'
    BY <1>1, <1>2, OthersLive, Zenon
  <1>4. Busy' = Busy \ {w}
    BY <1>1, Zenon DEF Busy
  <1>5. \A v \in Writers : Alone(v)' => Alone(v) /\ v # w
    BY <1>1, <1>4, Zenon DEF Alone, Busy
  <1>6. \A v \in Writers : ~Alone(v)'
    BY <1>5, Zenon DEF Calls
  <1>7. Calls'
    <2>1. \A k \in Names : Token(k)' \in 1..saves' \cup {None}
      BY Zenon DEF Objs, Calls, IInv, Fresh
    <2>2. ~odd' => \A v \in Busy' : th'[v].alone
      BY <1>1, <1>4, Zenon DEF Calls, Busy
    <2> QED BY <1>3, <1>6, <2>1, <2>2, Zenon DEF Calls, Ups
  <1>8. ~odd' /\ Busy' = {} => Sound'
    BY Zenon DEF Calls, Alone
  <1> QED BY <1>1, <1>6, <1>7, <1>8, Zenon DEF Promises, Objs

(* A step of a Save that writes nothing and does not go on to write. *)
LEMMA SaveGoes ==
  ASSUME IInv, Calls, Promises, NEW w \in Writers, th[w].op = "save", Frame,
         NEW p, p \notin {"idle", "complete", "inner", "write", "upload", "digest", "saved"},
         Goes(w, p), InSave(th[w])', Placed(th[w])', Objs(w), Ups(w), Dims,
         There("sha")' => There("sha"),
         th[w].pc = "complete" => ~There("sha"), th[w].pc # "saved",
         \/ PastDigest(th[w])'
         \/ ~PastDigest(th[w]) /\ th[w].pc \notin {"inner", "write", "upload", "digest"}
  PROVE  Calls' /\ Promises'
  <1>1. Call(th[w]) /\ Live(th[w]) /\ w \in Busy /\ th[w].tok # None
    BY Zenon DEF Calls, Call, InSave, Removal, Busy
  <1>2. Call(th[w])'
    BY <1>1, Zenon DEF Goes, Call
  <1>3. Live(th[w])'
    <2>1. ASSUME NEW k \in {"dek", "pay"}, Token(k)' = th[w].tok
          PROVE  PastDigest(th[w])'
      BY <1>1, <2>1, Zenon DEF Dims, Live, Names
    <2> QED BY <2>1, Zenon DEF Live, Goes
  <1>4. th[w].pc = "complete" => acked = None
    <2>1. ~There("sha") => Content = None
      BY ContentIs, Zenon DEF ContentOf, Whole, There
    <2> QED BY <2>1, Zenon DEF Promises
  <1>5. Alone(w) => SaveDone(th[w])'
    <2> SUFFICES ASSUME Alone(w) PROVE SaveDone(th[w])'
      BY Zenon
    <2>1. ~odd => ~There("sha")
      BY Zenon DEF Promises, SaveDone
    <2> QED BY <2>1, Zenon DEF SaveDone, Goes, Frame
  <1> QED BY <1>1, <1>2, <1>3, <1>4, <1>5, StepGoes, Zenon

(* The end of a Save that has not written its digest. *)
LEMMA SaveReturns ==
  ASSUME IInv, Calls, Promises, NEW w \in Writers, th[w].op = "save", Frame,
         th' = [th EXCEPT ![w] = Idle], Objs(w), Ups(w),
         There("sha")' => There("sha"), th[w].pc # "saved",
         th[w].pc = "complete" => Content' = Content
  PROVE  Calls' /\ Promises'
  <1>1. Call(th[w]) /\ w \in Busy
    BY Zenon DEF Calls, Call, InSave, Removal, Busy
  <1>2. acked # None => th[w].pc = "complete"
    BY <1>1, Zenon DEF Promises, Busy
  <1>3. ~erased
    BY Zenon DEF Promises
  <1>4. ~odd' /\ Alone(w) => Sound'
    BY Zenon DEF Promises, SaveDone, Sound, Frame
  <1>5. acked' # None => /\ Content' = acked'
                         /\ \A v \in Writers \ {w} : th[v].pc \in {"idle", "complete"}
    BY <1>2, Zenon DEF Promises, Frame
  <1> QED BY <1>1, <1>3, <1>4, <1>5, StepReturns, Zenon DEF Frame

(* A step of a Delete, *)
LEMMA DeleteStepGoes ==
  ASSUME IInv, Calls, Promises, NEW w \in Writers, th[w].op = "delete", Frame,
         NEW p, p \notin {"idle", "complete", "write", "upload"},
         Goes(w, p), InDelete(th[w])', Placed(th[w])', Objs(w), Ups(w),
         \A k \in {"dek", "pay"} : Clear(k) => Clear(k)',
         DeleteDone(th[w]) => DeleteDone(th[w])'
  PROVE  Calls' /\ Promises'
  <1>1. Call(th[w]) /\ w \in Busy /\ th[w].tok = None /\ th[w].pc # "complete"
    BY Zenon DEF Calls, Call, InDelete, Busy
  <1>2. Call(th[w])'
    BY <1>1, Zenon DEF Goes, Call
  <1>3. Live(th[w])'
    BY <1>1, Zenon DEF Live, Goes
  <1>4. Alone(w) => DeleteDone(th[w])'
    BY Zenon DEF Promises
  <1> QED BY <1>1, <1>2, <1>3, <1>4, StepGoes, Zenon

(* and the end of one. *)
LEMMA DeleteReturns ==
  ASSUME IInv, Calls, Promises, NEW w \in Writers, th[w].op = "delete", Frame,
         th' = [th EXCEPT ![w] = Idle], Objs(w), Ups(w),
         \A k \in {"dek", "pay"} : Clear(k) => Clear(k)',
         odd' \/ (DeleteDone(th[w]) => ~There("sha")')
  PROVE  Calls' /\ Promises'
  <1>1. Call(th[w]) /\ w \in Busy /\ th[w].pc # "complete"
    BY Zenon DEF Calls, Call, InDelete, Busy
  <1>2. acked = None
    BY <1>1, Zenon DEF Promises, Busy
  <1>3. erased => /\ Clear("dek")' /\ Clear("pay")'
                  /\ \A v \in Writers \ {w} : th[v].op # "save"
    BY Zenon DEF Promises
  <1>4. ~odd' /\ Alone(w) => Sound'
    BY Zenon DEF Promises, Sound
  <1> QED BY <1>1, <1>2, <1>3, <1>4, StepReturns, Zenon DEF Frame

USE DEF At

(* The call of w is under way, with its record. *)
LEMMA CallOf ==
  ASSUME IInv, Calls, Promises, NEW w \in Writers
  PROVE  /\ Types /\ NoMarkers /\ th[w] \in Threads /\ th[w].then \in Pcs
         /\ th[w].key \in Names /\ Call(th[w]) /\ Placed(th[w]) /\ Live(th[w])
  BY Zenon DEF IInv, Types, Threads, Calls, Promises

(* A step that leaves the uploads alone. *)
LEMMA StillUps ==
  ASSUME Calls, uploads' = uploads, NEW w
  PROVE  Ups(w)
  BY Zenon DEF Calls, Ups

(* The steps of a Save that clear what a dead save left. *)
LEMMA ClearingPromises ==
  ASSUME IInv, Calls, Promises, NEW w \in Writers,
         \/ RemovePartial(w) \/ partialAge(w) \/ overwritePartial(w) \/ removeAll(w)
         \/ removePartial(w)
  PROVE  Calls' /\ Promises'
  <1>0. /\ Types /\ NoMarkers /\ th[w] \in Threads /\ Call(th[w]) /\ Placed(th[w])
        /\ Frame /\ Ups(w) /\ kind' = kind
        /\ "dek" \in Names /\ "pay" \in Names /\ "sha" \in Names
    BY CallOf, StillUps DEF RemovePartial, partialAge, overwritePartial, removeAll,
       removePartial, same, store, Frame, Names
  <1> USE <1>0
  <1>1. th[w].op = "save" /\ ~PastDigest(th[w])
    BY Zenon DEF Call, InSave, InDelete, Removal, PastDigest, RemovePartial, partialAge,
       overwritePartial, removeAll, removePartial
  <1>2. CASE obj' = obj
    <2>1. Objs(w) /\ Dims /\ Same("sha") /\ Content' = Content
      BY <1>2, StillObjs, Zenon
    <2>2. There("sha")' = There("sha")
      BY <2>1, Zenon DEF Same, There
    <2>3. CASE Return(w)
      BY <1>1, <2>1, <2>2, <2>3, SaveReturns, Zenon DEF Return, RemovePartial, partialAge,
         overwritePartial, removeAll, removePartial
    <2>4. ASSUME NEW p \in {"partial", "dekAge", "overwrite", "removeAll", "putDEK"},
                 Goto(w, p), th[w].pc = "complete" => ~There("sha"),
                 th[w].pc \in {"complete", "partial", "dekAge"},
                 p \in {"overwrite", "removeAll"} => Local
          PROVE  Calls' /\ Promises'
      <3>1. Goes(w, p)
        BY <2>4, GotoGoes, Zenon DEF Pcs
      <3>2. InSave(th[w])' /\ Placed(th[w])'
        BY <2>4, <3>1, Zenon DEF Goes, InSave, Placed, LocalOnly, BucketOnly, Local
      <3> QED BY <1>1, <2>1, <2>2, <2>4, <3>1, <3>2, SaveGoes, Zenon
    <2>5. ASSUME NEW k \in {"pay", "dek"}, NEW n \in {"dekAge", "putDEK"},
                 DeleteAll(w, k, n), ~Local, th[w].pc \in {"partial", "dekAge"}
          PROVE  Calls' /\ Promises'
      <3>1. Goes(w, "delete") /\ th'[w].then = n
        BY <2>5, DeleteGoes, SMTT(30) DEF Pcs
      <3>2. InSave(th[w])' /\ Placed(th[w])'
        BY <2>5, <3>1, Zenon DEF Goes, InSave, Removal, Placed, LocalOnly, BucketOnly, Local
      <3> QED BY <1>1, <2>1, <2>2, <2>5, <3>1, <3>2, SaveGoes, Zenon
    <2>6. CASE th' = [th EXCEPT ![w].pc = "shred", ![w].then = "putDEK"] /\ Local
               /\ th[w].pc = "dekAge"
      <3>1. Goes(w, "shred") /\ th'[w].then = "putDEK"
        BY <2>6, ShredGoes, Zenon DEF Pcs
      <3>2. InSave(th[w])' /\ Placed(th[w])'
        BY <2>6, <3>1, Zenon DEF Goes, InSave, Removal, Placed, LocalOnly, BucketOnly, Local
      <3> QED BY <1>1, <2>1, <2>2, <2>6, <3>1, <3>2, SaveGoes, Zenon
    <2>7. CASE RemovePartial(w)
      BY <2>3, <2>4, <2>7, Zenon DEF RemovePartial
    <2>8. CASE partialAge(w)
      BY <2>3, <2>4, <2>5, <2>8, Zenon DEF partialAge
    <2>9. CASE removePartial(w)
      BY <2>3, <2>4, <2>5, <2>6, <2>9, Zenon DEF removePartial
    <2>10. CASE overwritePartial(w) \/ removeAll(w)
      <3>1. PICK p \in {"removeAll", "dekAge"} : Goto(w, p) /\ (p = "removeAll" => Local)
        BY <2>10, Zenon DEF overwritePartial, removeAll, Placed, LocalOnly
      <3>2. Goes(w, p)
        BY <3>1, GotoGoes, Zenon DEF Pcs
      <3>3. InSave(th[w])' /\ Placed(th[w])'
        BY <3>1, <3>2, Zenon DEF Goes, InSave, Placed, LocalOnly, BucketOnly, Local
      <3>4. th[w].pc \in {"overwrite", "removeAll"}
        BY <2>10, Zenon DEF overwritePartial, removeAll
      <3> QED BY <1>1, <2>1, <2>2, <3>2, <3>3, <3>4, SaveGoes, Zenon
    <2> QED BY <2>7, <2>8, <2>9, <2>10, Zenon
  <1>3. CASE overwritePartial(w) \/ removeAll(w)
    <2>1. Local /\ th[w].pc \in {"overwrite", "removeAll"}
      BY <1>3, Zenon DEF overwritePartial, removeAll, Placed, LocalOnly
    <2>2. Objs(w) /\ Dims /\ (There("sha")' => There("sha"))
      <3>1. CASE Zero("pay")
        BY <2>1, <3>1, ZeroObjs, Zenon DEF Same, There, Names
      <3>2. CASE Unlink({"pay", "sha"})
        <4>1. {"pay", "sha"} \in SUBSET Names
          BY Zenon DEF Names
        <4> QED BY <3>2, <4>1, UnlinkObjs, Zenon DEF There
      <3> QED BY <1>3, <3>1, <3>2, Zenon DEF overwritePartial, removeAll
    <2>3. PICK p \in {"removeAll", "dekAge"} : Goto(w, p)
      BY <1>3, Zenon DEF overwritePartial, removeAll
    <2>4. Goes(w, p)
      BY <2>3, GotoGoes, Zenon DEF Pcs
    <2>5. InSave(th[w])' /\ Placed(th[w])'
      BY <2>1, <2>4, Zenon DEF Goes, InSave, Placed, LocalOnly, BucketOnly, Local
    <2> QED BY <1>1, <2>1, <2>2, <2>4, <2>5, SaveGoes, Zenon
  <1>4. RemovePartial(w) \/ partialAge(w) \/ removePartial(w) => obj' = obj
    BY Zenon DEF RemovePartial, partialAge, removePartial, store
  <1> QED BY <1>2, <1>3, <1>4, Zenon

(* The removal of an object, for a Save as for a Delete: the objects only lose *)
(* what they hold. *)
LEMMA RemovalObjs ==
  ASSUME IInv, Calls, Promises, NEW w \in Writers,
         shred(w) \/ unlinkDEK(w) \/ deleteObject(w) \/ deleteVersions(w)
  PROVE  /\ Types /\ NoMarkers /\ th[w] \in Threads /\ th[w].then \in Pcs
         /\ th[w].key \in Names /\ Call(th[w]) /\ Placed(th[w])
         /\ Frame /\ Ups(w) /\ kind' = kind
         /\ "dek" \in Names /\ "pay" \in Names /\ "sha" \in Names
         /\ th[w].pc \in Removal /\ th[w].op \in {"save", "delete"}
         /\ Objs(w) /\ Dims /\ \A k \in Names : There(k)' => There(k)
         /\ \A k \in Names : Clear(k) => Clear(k)'
  <1>0. /\ Types /\ NoMarkers /\ th[w] \in Threads /\ th[w].then \in Pcs
        /\ th[w].key \in Names /\ Call(th[w]) /\ Placed(th[w])
        /\ Frame /\ Ups(w) /\ kind' = kind
        /\ "dek" \in Names /\ "pay" \in Names /\ "sha" \in Names
    <2>1. odd => odd'
      BY Zenon DEF shred, unlinkDEK, deleteObject, deleteVersions, Broken, same
    <2>2. UNCHANGED <<kind, now, saves, acked, erased, uploads>>
      BY Zenon DEF shred, unlinkDEK, deleteObject, deleteVersions, Broken, same
    <2> QED BY <2>1, <2>2, CallOf, StillUps, Zenon DEF Frame, Names
  <1> USE <1>0
  <1> DEFINE r == th[w]
  <1>1. r.pc \in Removal /\ r.op \in {"save", "delete"}
    BY Zenon DEF shred, unlinkDEK, deleteObject, deleteVersions, Removal, Call
  <1>2. /\ Objs(w) /\ Dims /\ \A k \in Names : There(k)' => There(k)
        /\ \A k \in Names : Clear(k) => Clear(k)'
    <2>1. CASE shred(w)
      <3>1. Local
        BY <2>1, Zenon DEF shred, Placed, LocalOnly
      <3> QED BY <2>1, <3>1, ZeroObjs, Zenon DEF shred, Same, There
    <2>2. CASE Unlink({"dek"}) \/ Unlink({r.key})
      BY <2>2, UnlinkObjs, Zenon DEF Same, There
    <2>3. CASE deleteObject(w) \/ deleteVersions(w)
      <3>1. ~Local
        BY <2>3, Zenon DEF deleteObject, deleteVersions, Placed, BucketOnly
      <3>2. \/ Unlink({r.key})
            \/ DeleteObject(r.key) \/ DeleteSome(r.key) \/ UNCHANGED obj
        BY <2>3, Zenon DEF deleteObject, deleteVersions
      <3> QED BY <2>2, <3>1, <3>2, HideObjs, Zenon DEF Same, There
    <2> QED BY <2>1, <2>2, <2>3, Zenon DEF unlinkDEK
  <1> QED BY <1>1, <1>2, Zenon

(* A Save that removes what an earlier one left. *)
LEMMA SaveRemoves ==
  ASSUME IInv, Calls, Promises, NEW w \in Writers, th[w].op = "save",
         shred(w) \/ unlinkDEK(w) \/ deleteObject(w) \/ deleteVersions(w)
  PROVE  Calls' /\ Promises'
  <1>0. /\ Types /\ NoMarkers /\ th[w] \in Threads /\ th[w].then \in Pcs
        /\ th[w].key \in Names /\ Call(th[w]) /\ Placed(th[w])
        /\ Frame /\ Ups(w) /\ kind' = kind
        /\ "dek" \in Names /\ "pay" \in Names /\ "sha" \in Names
    BY RemovalObjs, Zenon
  <1> USE <1>0
  <1> DEFINE r == th[w]
  <1>1. r.pc \in Removal
    BY RemovalObjs, Zenon
  <1>2. /\ Objs(w) /\ Dims /\ \A k \in Names : There(k)' => There(k)
        /\ \A k \in Names : Clear(k) => Clear(k)'
    BY RemovalObjs, Zenon
  <1>4. /\ r.then \in {"dekAge", "putDEK", "cleanup", "idle", "idleNow"}
        /\ r.pc \in {"shred", "unlinkDEK"} => r.then \in {"putDEK", "idle"}
        /\ r.pc \in {"delete", "versions"} => r.then # "idle"
    BY <1>1, Zenon DEF Call, InSave, Removal
  <1>5. CASE th' = [th EXCEPT ![w] = Idle]
    BY <1>1, <1>2, <1>5, SaveReturns, Zenon DEF Removal
  <1>6. ASSUME NEW p \in {"unlinkDEK", "versions", "dekAge", "putDEK", "cleanup", "idleNow"},
               Goto(w, p), p \notin {"unlinkDEK", "versions"} => p = r.then \/ p = "cleanup",
               p = "unlinkDEK" => r.pc = "shred", p = "versions" => r.pc = "delete",
               p = "idleNow" => ~Local
        PROVE  Calls' /\ Promises'
    <2>1. Goes(w, p) /\ th'[w].then = r.then
      BY <1>6, GotoGoes, Zenon DEF Pcs
    <2>2. InSave(th[w])' /\ Placed(th[w])'
      BY <1>1, <1>4, <1>6, <2>1, Zenon
      DEF Goes, InSave, Removal, Placed, LocalOnly, BucketOnly, Local
    <2>3. PastDigest(th[w])' \/ ~PastDigest(th[w])
      BY <1>1, <1>4, <1>6, <2>1, Zenon DEF Goes, PastDigest, Removal
    <2> QED BY <1>1, <1>2, <1>6, <2>1, <2>2, <2>3, SaveGoes, Zenon DEF Removal
  <1>7. CASE shred(w) BY <1>6, <1>7, Zenon DEF shred
  <1>8. CASE unlinkDEK(w)
    <2>1. r.then # "idleNow"
      BY <1>4, <1>8, Zenon DEF unlinkDEK
    <2> QED BY <1>4, <1>5, <1>6, <1>8, <2>1, Zenon DEF unlinkDEK, Return
  <1>9. CASE deleteObject(w)
    BY <1>5, <1>6, <1>9, Zenon DEF deleteObject, Broken, Return
  <1>10. CASE deleteVersions(w)
    <2>1. ~Local
      BY <1>10, Zenon DEF deleteVersions, Placed, BucketOnly
    <2> QED BY <1>4, <1>5, <1>6, <1>10, <2>1, Zenon DEF deleteVersions, Broken, Return
  <1> QED BY <1>7, <1>8, <1>9, <1>10, Zenon

(* A Delete that removes an object. *)
LEMMA DeleteRemoves ==
  ASSUME IInv, Calls, Promises, NEW w \in Writers, th[w].op = "delete",
         shred(w) \/ unlinkDEK(w) \/ deleteObject(w) \/ deleteVersions(w)
  PROVE  Calls' /\ Promises'
  <1>0. /\ Types /\ NoMarkers /\ th[w] \in Threads /\ th[w].then \in Pcs
        /\ th[w].key \in Names /\ Call(th[w]) /\ Placed(th[w])
        /\ Frame /\ Ups(w) /\ kind' = kind
        /\ "dek" \in Names /\ "pay" \in Names /\ "sha" \in Names
    BY RemovalObjs, Zenon
  <1> USE <1>0
  <1> DEFINE r == th[w]
  <1>1. r.pc \in Removal
    BY RemovalObjs, Zenon
  <1>2. /\ Objs(w) /\ Dims /\ \A k \in Names : There(k)' => There(k)
        /\ \A k \in Names : Clear(k) => Clear(k)'
    BY RemovalObjs, Zenon
  <1>3. InDelete(r)
    BY Zenon DEF Call
  <1>4. CASE shred(w)
    <2>1. Goes(w, "unlinkDEK") /\ th'[w].then = r.then /\ Local /\ r.then = "inner-delete"
      BY <1>3, <1>4, GotoGoes, Zenon DEF shred, Pcs, InDelete, Placed, LocalOnly
    <2>2. Same("pay") /\ Same("sha")
      BY <1>4, <2>1, ZeroObjs, Zenon DEF shred, Names
    <2>3. InDelete(th[w])' /\ Placed(th[w])'
      BY <2>1, Zenon DEF Goes, InDelete, Placed, LocalOnly, BucketOnly, Local
    <2>4. DeleteDone(th[w]) => DeleteDone(th[w])'
      BY <1>4, <2>1, <2>2, Zenon DEF shred, Goes, DeleteDone, Removal, Same, There, Frame
    <2> QED BY <1>2, <2>1, <2>3, <2>4, DeleteStepGoes, Zenon
  <1>5. CASE unlinkDEK(w)
    <2>1. Goes(w, "inner-delete") /\ r.then = "inner-delete"
      BY <1>3, <1>5, GotoGoes, Zenon DEF unlinkDEK, Pcs, InDelete
    <2>2. Same("pay") /\ Same("sha") /\ Clear("dek")'
      BY <1>5, UnlinkObjs, Zenon DEF unlinkDEK, Names
    <2>3. InDelete(th[w])' /\ Placed(th[w])'
      BY <2>1, Zenon DEF Goes, InDelete, Placed, LocalOnly, BucketOnly, Local
    <2>4. DeleteDone(th[w]) => DeleteDone(th[w])'
      BY <1>5, <2>1, <2>2, Zenon DEF unlinkDEK, Goes, DeleteDone, Removal, Same, There, Frame
    <2> QED BY <1>2, <2>1, <2>3, <2>4, DeleteStepGoes, Zenon
  <1>6. CASE Broken(w) /\ r.pc \in {"delete", "versions"}
    <2>1. th' = [th EXCEPT ![w] = Idle]
      BY <1>3, <1>6, Zenon DEF Broken, Return, InDelete
    <2>2. odd'
      BY <1>6, Zenon DEF Broken
    <2> QED BY <1>2, <2>1, <2>2, DeleteReturns, Zenon
  <1>7. CASE deleteObject(w) /\ ~Broken(w)
    <2>1. Goes(w, "versions") /\ th'[w].then = r.then /\ th'[w].key = r.key /\ ~Local
      BY <1>7, GotoGoes, Zenon DEF deleteObject, Pcs, Placed, BucketOnly
    <2>2. \A k \in Names \ {r.key} : Same(k)
      BY <1>7, <2>1, HideObjs, Zenon DEF deleteObject
    <2>3. InDelete(th[w])' /\ Placed(th[w])'
      BY <1>3, <1>7, <2>1, Zenon
      DEF deleteObject, Goes, InDelete, Placed, LocalOnly, BucketOnly, Local
    <2>4. DeleteDone(th[w]) => DeleteDone(th[w])'
      <3>1. r.then = "inner-delete" => Same("pay") /\ Same("sha")
        BY <1>3, <1>7, <2>2, Zenon DEF deleteObject, InDelete, Names
      <3>2. r.pc = "delete" /\ th'[w].pc = "versions" /\ (odd => odd') /\ ~Local'
        BY <1>7, <2>1, Zenon DEF deleteObject, Goes, Frame, Local
      <3>3. Clear("pay") => Clear("pay")'
        BY <1>2, Zenon
      <3>4. There("sha")' => There("sha")
        BY <1>2, Zenon
      <3>5. r.then \in {"inner-delete", "delete-sha", "delete-dek", "deleted"}
        BY <1>3, <3>2, Zenon DEF InDelete
      <3>6. CASE r.then = "inner-delete"
        <4>1. There("pay")' = There("pay")
          BY <3>1, <3>6, Zenon DEF Same, There
        <4> QED BY <2>1, <3>2, <3>4, <3>6, <4>1, Zenon DEF DeleteDone, Removal
      <3>7. CASE r.then # "inner-delete"
        BY <2>1, <3>2, <3>3, <3>4, <3>5, <3>7, Zenon DEF DeleteDone, Removal
      <3> QED BY <3>6, <3>7, Zenon
    <2> QED BY <1>2, <2>1, <2>3, <2>4, DeleteStepGoes, Zenon
  <1>8. CASE deleteVersions(w) /\ ~Broken(w)
    <2>1. Goes(w, r.then) /\ ~Local
      BY <1>8, GotoGoes, Zenon DEF deleteVersions, Placed, BucketOnly
    <2>0. PICK key \in Names : key = r.key
      BY Zenon
    <2>2. Top(key)' = Marker /\ Clear(key)' /\ \A k \in Names \ {key} : Same(k)
      BY <1>8, <2>0, UnlinkObjs, Zenon DEF deleteVersions
    <2>3. \/ r.then = "inner-delete" /\ key = "dek"
          \/ r.then = "delete-sha" /\ key = "pay"
          \/ r.then = "delete-dek" /\ key = "sha"
          \/ r.then = "deleted" /\ key = "dek"
      BY <1>3, <1>8, <2>0, Zenon DEF deleteVersions, InDelete
    <2>4. InDelete(th[w])' /\ Placed(th[w])'
      BY <2>1, <2>3, Zenon DEF Goes, InDelete, Placed, LocalOnly, BucketOnly, Local
    <2>5. DeleteDone(th[w]) => DeleteDone(th[w])'
      <3>1. r.then = "inner-delete" => Same("pay") /\ Same("sha")
        BY <2>2, <2>3, Zenon DEF Names
      <3>2. r.then = "delete-sha" => Clear("pay")'
        BY <2>2, <2>3, Zenon
      <3>3. r.then = "delete-dek" => ~There("sha")'
        BY <2>2, <2>3, Zenon DEF There
      <3>4. r.then = "deleted" => Clear("dek")'
        BY <2>2, <2>3, Zenon
      <3> QED BY <1>2, <1>8, <2>1, <2>3, <3>1, <3>2, <3>3, <3>4, Zenon
          DEF deleteVersions, Goes,
                 DeleteDone, Removal, Same, There, Frame, Local
    <2> QED BY <1>2, <2>1, <2>3, <2>4, <2>5, DeleteStepGoes, Zenon
  <1> QED BY <1>4, <1>5, <1>6, <1>7, <1>8, Zenon DEF deleteObject, deleteVersions

(* The removal of an object. *)
LEMMA RemovalPromises ==
  ASSUME IInv, Calls, Promises, NEW w \in Writers,
         shred(w) \/ unlinkDEK(w) \/ deleteObject(w) \/ deleteVersions(w)
  PROVE  Calls' /\ Promises'
  BY RemovalObjs, SaveRemoves, DeleteRemoves, Zenon
==============================================================================
