----------------------------- MODULE StoredForm ------------------------------
(* The stored form of a launcher snapshot: the sparse files and the frame of  *)
(* nodeagent/grpcserver/launcher_frame.go, the sealed chunks around it        *)
(* (snapshot/atrest) and the windows of the secret scan (snapshot/secretscan). *)
(* A machine is captured again and again, in full or as a diff on an earlier  *)
(* capture; the properties ask of every capture what a restore makes of it.   *)
(* A number stands for each field of the frame and for each page of a file.   *)
EXTENDS Naturals, Sequences, SequencesExt

CONSTANTS Size,           \* pages of the guest memory, numbered from 0
          Values,         \* what a page can hold; 0 is a page of zeros
          MaxCaptures,    \* bound on captures
          MaxWrites,      \* bound on guest writes
          MaxParentChain, \* maxParentChain
          ChunkSize,      \* chunkSize of the sealed stream
          Width,          \* offsets and sizes are numbers below Width
          ScanChunk,      \* maxLineBytes of the scan
          WindowOverlap   \* windowOverlap of the scan

VARIABLES
  memory,    \* the guest memory
  everWritten,   \* pages that the machine ever wrote: the others are holes
  dirtied,   \* pages written since the last capture
  written,   \* guest writes so far
  seekData,  \* the file system of the node can tell holes from data
  captures   \* what was captured: the frame, and the memory it was taken of

sfVars == <<memory, everWritten, dirtied, written, seekData, captures>>

Pages == 0 .. Size - 1
Magic == 9
ImageDisk == 8
Hole == 99
Failed == [ok |-> FALSE, disk |-> 0, memory |-> <<>>, state |-> 0, layer |-> <<>>]

sfInit ==
  /\ memory = [p \in Pages |-> 0]
  /\ everWritten = {} /\ dirtied = {} /\ written = 0
  /\ seekData \in BOOLEAN
  /\ captures = <<>>

-----------------------------------------------------------------------------
(* Sparse files. A file is a function from its pages to values or Hole.       *)
ends(f, n, off) == {p \in off + 1 .. n : p = n \/ f[p] = Hole}
starts(f, n, off) == {p \in off .. n - 1 : f[p] # Hole}
least(s) == CHOOSE x \in s : \A y \in s : x <= y

(* The runs of data of a file of n pages, from SEEK_DATA and SEEK_HOLE; the   *)
(* whole file where the file system has neither.                              *)
dataExtents(f, n, seeks) ==
  LET at[off \in 0 .. n] ==
        IF starts(f, n, off) = {} THEN <<>>
        ELSE LET s == least(starts(f, n, off))
                 e == least(ends(f, n, s)) IN
             <<[off |-> s, n |-> e - s]>> \o at[e]
  IN IF seeks THEN at[0] ELSE <<[off |-> 0, n |-> n]>>

(* A hole reads as zeros.                                                     *)
page(f, p) == IF f[p] = Hole THEN 0 ELSE f[p]

(* The copy of the writable layer holds the extents, and holes between them.  *)
copySparse(f, n) ==
  LET exts == dataExtents(f, n, seekData) IN
  [p \in 0 .. n - 1 |->
    IF \E i \in 1 .. Len(exts) : p \in exts[i].off .. exts[i].off + exts[i].n - 1
      THEN page(f, p) ELSE Hole]

frameFile(f, n) ==
  LET exts == dataExtents(f, n, seekData)
      body(e) == <<e.off, e.n>> \o [i \in 1 .. e.n |-> page(f, e.off + i - 1)]
  IN <<n, Len(exts)>> \o FlattenSeq([i \in 1 .. Len(exts) |-> body(exts[i])])

(* The frame names the parent (0 for a full snapshot) and the image disk, and *)
(* holds the state, the memory and the writable layer, which is always whole. *)
makeLauncherFramedReader(parent, state, mem, layer) ==
  <<Magic, parent, ImageDisk, state>> \o frameFile(mem, Size) \o frameFile(layer, 1)

-----------------------------------------------------------------------------
(* The sealed stream: chunks under a nonce of a counter and a final flag.     *)

chunkNonce(counter, final) == [counter |-> counter, final |-> final]

Encrypt(plain) ==
  LET n == (Len(plain) + ChunkSize - 1) \div ChunkSize
      last(k) == IF k * ChunkSize < Len(plain) THEN k * ChunkSize ELSE Len(plain)
  IN [k \in 1 .. n |-> [nonce |-> chunkNonce(k - 1, k = n),
                        body |-> SubSeq(plain, (k - 1) * ChunkSize + 1, last(k))]]

(* nextChunk opens a chunk under the nonce of its place; the last chunk there *)
(* is must be the final one. The plaintext ends where a chunk does not open.  *)
Decrypt(chunks) ==
  LET opens(k) == chunks[k].nonce = chunkNonce(k - 1, k = Len(chunks))
      good == {k \in 0 .. Len(chunks) : \A j \in 1 .. k : opens(j)}
      upTo == CHOOSE k \in good : \A j \in good : j <= k
  IN FlattenSeq([k \in 1 .. upTo |-> chunks[k].body])

(* What can be wrong with a stored stream: its end is missing, two chunks     *)
(* changed places, one is there twice or one in the middle is not there.      *)
Damaged(chunks) ==
  LET n == Len(chunks) IN
  {SubSeq(chunks, 1, k) : k \in 0 .. n - 1}
    \cup ({[chunks EXCEPT ![i] = chunks[j], ![j] = chunks[i]] : i, j \in 1 .. n} \ {chunks})
    \cup {Append(chunks, chunks[i]) : i \in 1 .. n}
    \cup {RemoveAt(chunks, i) : i \in 1 .. n}

-----------------------------------------------------------------------------
(* Unpacking.                                                                 *)

(* The extent is outside of the file; the sum of both wraps around at Width.  *)
outside(off, n, size) == (off + n) % Width > size \/ (off + n) % Width < off

(* Mutant: the memory of a diff starts from an empty file as well.            *)
startFile_Empty(old, fresh, n) == [p \in 0 .. n - 1 |-> 0]

startFile(old, fresh, n) == [p \in 0 .. n - 1 |-> IF fresh \/ p \notin DOMAIN old THEN 0 ELSE old[p]]

(* writeExtents reads from position pos a size, a count and the extents.      *)
writeExtents(s, pos, old, fresh) ==
  LET n == s[pos]
      one(acc, i) ==
        LET off == s[acc.pos]
            len == s[acc.pos + 1]
            next == acc.pos + 2 + len IN
        IF ~acc.ok THEN acc
        ELSE IF acc.pos + 1 > Len(s) THEN [acc EXCEPT !.ok = FALSE]
        ELSE IF outside(off, len, n) THEN [acc EXCEPT !.ok = FALSE]
        ELSE IF next - 1 > Len(s) THEN [acc EXCEPT !.ok = FALSE]
        ELSE [ok |-> TRUE, pos |-> next,
              file |-> [p \in DOMAIN acc.file |->
                         IF p \in off .. off + len - 1 THEN s[acc.pos + 2 + p - off] ELSE acc.file[p]]]
  IN IF pos + 1 > Len(s) THEN [ok |-> FALSE, pos |-> pos, file |-> <<>>]
     ELSE FoldLeft(one, [ok |-> TRUE, pos |-> pos + 2, file |-> startFile(old, fresh, n)],
                   [i \in 1 .. s[pos + 1] |-> i])

(* writeLauncherFrame: the parent first, then the state, the memory on the    *)
(* memory of the parent and the writable layer.                               *)
unpackOn(s, parent) ==
  LET mem == writeExtents(s, 5, parent.memory, s[2] = 0)
      layer == writeExtents(s, mem.pos, <<>>, TRUE) IN
  IF Len(s) < 4 THEN Failed
  ELSE IF s[1] # Magic \/ (s[2] # 0 /\ (~parent.ok \/ parent.disk # s[3])) THEN Failed
  ELSE IF ~mem.ok THEN Failed
  ELSE IF ~layer.ok THEN Failed
  ELSE [ok |-> TRUE, disk |-> s[3], memory |-> mem.file, state |-> s[4],
        layer |-> layer.file]

depth[i \in 0 .. MaxCaptures] == IF i = 0 THEN 0
                                 ELSE IF captures[i].parent = 0 THEN 0
                                 ELSE 1 + depth[captures[i].parent]

(* The restore of a capture from its own stream, with sound parents.          *)
unpacked[i \in 0 .. MaxCaptures] ==
  IF i = 0 THEN Failed
  ELSE unpackOn(Decrypt(Encrypt(captures[i].frame)), unpacked[captures[i].parent])

writeLauncherFrame(i, chunks) ==
  IF depth[i] > MaxParentChain THEN Failed
  ELSE unpackOn(Decrypt(chunks), unpacked[captures[i].parent])

-----------------------------------------------------------------------------
(* The windows of the scan over n units of data.                              *)

carried(end) == IF end > WindowOverlap THEN WindowOverlap ELSE end

(* Scan: one window per read of ScanChunk, with the end of the one before it. *)
Scan(n) ==
  {[from |-> k * ScanChunk - carried(k * ScanChunk),
    to |-> IF (k + 1) * ScanChunk < n THEN (k + 1) * ScanChunk ELSE n] :
     k \in {j \in 0 .. n \div ScanChunk : j * ScanChunk < n}}

(* scanSparseFiles puts the extents of a file one behind the other.           *)
scanned(f) ==
  FoldLeft(LAMBDA acc, e : acc + e.n, 0, dataExtents(f, Size, seekData))

-----------------------------------------------------------------------------
WritePage(p, v) ==
  /\ written < MaxWrites
  /\ written' = written + 1
  /\ memory[p] # v
  /\ memory' = [memory EXCEPT ![p] = v]
  /\ everWritten' = everWritten \cup {p}
  /\ dirtied' = dirtied \cup {p}
  /\ UNCHANGED <<seekData, captures>>

(* Firecracker writes the pages that were ever written, or for a diff those   *)
(* dirtied since the last capture, and starts the tracking anew.              *)
Capture(parent) ==
  LET file == [p \in Pages |->
                IF p \in (IF parent = 0 THEN everWritten ELSE dirtied) THEN memory[p] ELSE Hole]
      n == Len(captures) + 1 IN
  /\ n <= MaxCaptures
  /\ captures' = Append(captures,
       [parent |-> parent, file |-> file, memory |-> memory, sound |-> parent \in {0, n - 1},
        frame |-> makeLauncherFramedReader(parent, n, file, copySparse([p \in {0} |-> n], 1))])
  /\ dirtied' = {}
  /\ UNCHANGED <<memory, everWritten, written, seekData>>

sfNext ==
  \/ \E p \in Pages, v \in Values : WritePage(p, v)
  \/ \E parent \in 0 .. Len(captures) : Capture(parent)

sfSpec == sfInit /\ [][sfNext]_sfVars

-----------------------------------------------------------------------------
(* The latest capture: the ones before it were asked when they were made.     *)
Captured == {Len(captures)} \ {0}

(* Every parent in the chain below a capture was the capture just before.     *)
soundChain[i \in 0 .. MaxCaptures] ==
  IF i = 0 THEN TRUE ELSE captures[i].sound /\ soundChain[captures[i].parent]

(* What was captured is what a restore loads: the extents of a full snapshot, *)
(* and those of a diff put on the memory of its parents, give the memory and  *)
(* the writable layer of the moment of the capture. It needs a chain without  *)
(* gaps, of at most maxParentChain parents, and for a diff a file system that *)
(* tells holes from data.                                                     *)
RestoredIsCaptured ==
  \A i \in Captured :
    (/\ soundChain[i] /\ depth[i] <= MaxParentChain
     /\ seekData \/ captures[i].parent = 0) =>
      LET r == writeLauncherFrame(i, Encrypt(captures[i].frame)) IN
      /\ r.ok /\ r.memory = captures[i].memory
      /\ r.state = i /\ r.layer = [p \in {0} |-> i]

(* A stored stream whose end is missing, or with chunks that changed places,  *)
(* are there twice or are not there, never unpacks (the comment of            *)
(* NewDecryptingReader), though the frame itself holds no checksum.           *)
DamageRefused ==
  \A i \in Captured : \A d \in Damaged(Encrypt(captures[i].frame)) :
    ~writeLauncherFrame(i, d).ok

(* An extent that writeExtents takes lies inside of the file, though the sum  *)
(* of its offset and its length may wrap around.                              *)
ExtentInside ==
  \A off, n, size \in 0 .. Width - 1 : ~outside(off, n, size) => off + n <= size

(* Whatever lies in the data of a captured file and is no longer than the     *)
(* overlap of the windows is seen whole in one of them (the comment of        *)
(* windowOverlap), wherever the reads of the scan cut the stream.             *)
SeenWhole ==
  \A i \in Captured :
    LET n == scanned(captures[i].file) IN
    \A a \in 0 .. n - 1, l \in 1 .. WindowOverlap :
      a + l <= n => \E w \in Scan(n) : w.from <= a /\ a + l <= w.to
=============================================================================
