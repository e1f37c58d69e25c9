------------------------------ MODULE FileData ------------------------------
(***************************************************************************)
(* File content: balloc, bfree, bmap, itrunc, readi and writei of           *)
(* kernel/fs.c, the chunked loop of filewrite() and fileread() in           *)
(* kernel/file.c, on an image made by iappend() of mkfs/mkfs.c.             *)
(*                                                                          *)
(* fs is the disk as the buffer cache has it: the bitmap, the inodes' block *)
(* addresses and sizes, the blocks, and the set of blocks log_write() was   *)
(* called for in the current transaction.  An indirect block holds block    *)
(* numbers where a data block holds bytes.  The inode's sleep-lock makes    *)
(* each readi(), writei() and itrunc() one step; handles interleave between *)
(* the chunks of their writes.  content is the reference: what the write()s *)
(* that returned say each file contains.                                    *)
(***************************************************************************)
EXTENDS Integers, Sequences, FiniteSets, SequencesExt

CONSTANTS
  BSIZE, NDIRECT, NINDIRECT, MAXOPBLOCKS,
  NMeta,          \* mkfs: boot, super, log, inode and bitmap blocks
  FSSIZE,         \* blocks of the disk
  Files, Handles,
  Source,         \* the files mkfs copies into the image
  WriteSizes,     \* lengths of write() calls
  MaxOps

VARIABLES
  fs, content,
  handle,         \* struct file and filewrite()'s loop: [f, off, n, i, id]
  ops

vars == <<fs, content, handle, ops>>

MAXFILE == NDIRECT + NINDIRECT
DiskBlocks == 0 .. FSSIZE - 1
Zero == [i \in 0 .. BSIZE - 1 |-> 0]
InodeBlock(f) == -1
BitmapBlock(b) == -2            \* FSSIZE <= BPB: there is one bitmap block
MinOf(S) == CHOOSE x \in S : \A y \in S : x <= y
-----------------------------------------------------------------------------
(* Blocks and block addresses.  An operator returns [fs, addr].            *)
Balloc(s) ==
  LET free == DiskBlocks \ s.used
      b == MinOf(free)
  IN IF free = {} THEN [fs |-> s, addr |-> 0]
     ELSE [fs |-> [s EXCEPT !.used = @ \cup {b}, !.data[b] = Zero,
                            !.logged = @ \cup {BitmapBlock(b), b}],
           addr |-> b]

Bfree(s, blocks) ==
  [s EXCEPT !.used = @ \ blocks, !.logged = @ \cup {BitmapBlock(b) : b \in blocks}]

(* The address in slot n of the inode, allocated if there is none.         *)
Slot(s, f, n) ==
  IF s.addrs[f][n] # 0 THEN [fs |-> s, addr |-> s.addrs[f][n]]
  ELSE LET r == Balloc(s)
       IN IF r.addr = 0 THEN r
          ELSE [r EXCEPT !.fs.addrs[f][n] = r.addr]

Bmap(s, f, bn) ==
  IF bn < NDIRECT THEN Slot(s, f, bn)
  ELSE LET ind == Slot(s, f, NDIRECT)
           b == ind.addr
           k == bn - NDIRECT
       IN IF b = 0 THEN ind
          ELSE IF ind.fs.data[b][k] # 0 THEN [fs |-> ind.fs, addr |-> ind.fs.data[b][k]]
          ELSE LET r == Balloc(ind.fs)
               IN IF r.addr = 0 THEN r
                  ELSE [r EXCEPT !.fs.data[b][k] = r.addr, !.fs.logged = @ \cup {b}]

(* Every block an inode refers to, in order; 0 for none.                   *)
Mapped(s, f) ==
  LET ind == s.addrs[f][NDIRECT]
  IN [bn \in 0 .. MAXFILE - 1 |->
        IF bn < NDIRECT THEN s.addrs[f][bn]
        ELSE IF ind = 0 THEN 0 ELSE s.data[ind][bn - NDIRECT]]

Mut_Itrunc(s, f) ==
  LET blocks == {Mapped(s, f)[bn] : bn \in 0 .. MAXFILE - 1} \ {0}
      freed == Bfree(s, blocks)
  IN [freed EXCEPT !.addrs[f] = [n \in 0 .. NDIRECT |-> 0], !.size[f] = 0,
                   !.logged = @ \cup {InodeBlock(f)}]
Itrunc(s, f) ==
  LET blocks == ({Mapped(s, f)[bn] : bn \in 0 .. MAXFILE - 1}
                 \cup {s.addrs[f][NDIRECT]}) \ {0}
      freed == Bfree(s, blocks)
  IN [freed EXCEPT !.addrs[f] = [n \in 0 .. NDIRECT |-> 0], !.size[f] = 0,
                   !.logged = @ \cup {InodeBlock(f)}]
-----------------------------------------------------------------------------
(* The loops of readi(), writei() and iappend() visit these pieces of      *)
(* blocks: m bytes at position at of block bn.                             *)
Pieces(off, n) ==
  IF n = 0 THEN <<>>
  ELSE LET first == off \div BSIZE
           last == (off + n - 1) \div BSIZE
       IN [j \in 1 .. last - first + 1 |->
             LET bn == first + j - 1
                 from == IF j = 1 THEN off ELSE bn * BSIZE
                 to == IF bn = last THEN off + n ELSE (bn + 1) * BSIZE
             IN [bn |-> bn, at |-> from % BSIZE, m |-> to - from]]

(* Copy m bytes of src, from its byte number k on, into a block.           *)
Copied(block, at, m, src, k) ==
  [i \in 0 .. BSIZE - 1 |-> IF at <= i /\ i < at + m THEN src[k + i - at + 1] ELSE block[i]]

(* writei(): stop when a block cannot be had, or when piece number bad     *)
(* cannot be read from user space, after part of its bytes.  Returns the   *)
(* new fs and tot, -1 if the request is refused.                           *)
Writei(s, f, off, src, bad, part) ==
  LET n == Len(src)
      piece(acc, x) ==
        IF acc.stop THEN acc
        ELSE LET r == Bmap(acc.fs, f, x.bn)
             IN IF r.addr = 0 THEN [acc EXCEPT !.stop = TRUE, !.fs = r.fs]
                ELSE IF acc.j = bad
                THEN [acc EXCEPT !.stop = TRUE, !.fs = [r.fs EXCEPT !.data[r.addr] =
                                     Copied(@, x.at, IF part < x.m THEN part ELSE x.m - 1,
                                            src, acc.tot)]]
                ELSE [acc EXCEPT !.j = @ + 1, !.tot = @ + x.m,
                        !.fs = [r.fs EXCEPT !.data[r.addr] = Copied(@, x.at, x.m, src, acc.tot),
                                            !.logged = @ \cup {r.addr}]]
      end == FoldLeft(piece, [fs |-> s, tot |-> 0, stop |-> FALSE, j |-> 1], Pieces(off, n))
  IN IF off > s.size[f] \/ off + n > MAXFILE * BSIZE THEN [fs |-> s, tot |-> -1]
     ELSE [tot |-> end.tot,
           fs |-> [end.fs EXCEPT !.size[f] = IF off + end.tot > @ THEN off + end.tot ELSE @,
                                 !.logged = @ \cup {InodeBlock(f)}]]

(* readi(): the bytes it copies out; every block below size is mapped.     *)
Readi(s, f, off, n) ==
  IF off > s.size[f] THEN <<>>
  ELSE LET m == IF off + n > s.size[f] THEN s.size[f] - off ELSE n
       IN [i \in 1 .. m |-> LET x == off + i - 1
                            IN s.data[Mapped(s, f)[x \div BSIZE]][x % BSIZE]]
-----------------------------------------------------------------------------
(* mkfs: iappend() hands out blocks in order, and balloc() there marks the *)
(* blocks below freeblock as used.                                         *)
MkfsSlot(s, f, n) ==
  IF s.addrs[f][n] # 0 THEN s
  ELSE [s EXCEPT !.addrs[f][n] = s.freeblock, !.freeblock = @ + 1]

MkfsIndirect(s, f, k) ==
  LET t == MkfsSlot(s, f, NDIRECT)
      b == t.addrs[f][NDIRECT]
  IN IF t.data[b][k] # 0 THEN t
     ELSE [t EXCEPT !.data[b][k] = t.freeblock, !.freeblock = @ + 1]

Iappend(s, f, src) ==
  LET piece(acc, x) ==
        LET t == IF x.bn < NDIRECT THEN MkfsSlot(acc.fs, f, x.bn)
                 ELSE MkfsIndirect(acc.fs, f, x.bn - NDIRECT)
            b == Mapped(t, f)[x.bn]
        IN [fs |-> [t EXCEPT !.data[b] = Copied(@, x.at, x.m, src, acc.tot)],
            tot |-> acc.tot + x.m]
      end == FoldLeft(piece, [fs |-> s, tot |-> 0], Pieces(s.size[f], Len(src)))
  IN [end.fs EXCEPT !.size[f] = @ + Len(src)]

MkfsBlank == [used |-> {}, logged |-> {}, freeblock |-> NMeta,
              addrs |-> [f \in Files |-> [n \in 0 .. NDIRECT |-> 0]],
              size |-> [f \in Files |-> 0], data |-> [b \in DiskBlocks |-> Zero]]
MkfsBalloc(freeblock) == 0 .. freeblock - 1

Mkfs ==
  LET copy(s, f) == FoldLeft(LAMBDA t, chunk : Iappend(t, f, chunk), s, Source[f])
      full == FoldLeft(copy, MkfsBlank, SetToSeq(Files))
  IN [used |-> MkfsBalloc(full.freeblock), logged |-> {}, addrs |-> full.addrs,
      size |-> full.size, data |-> full.data]
-----------------------------------------------------------------------------
Init ==
  /\ fs = Mkfs
  /\ content = [f \in Files |-> FlattenSeq(Source[f])]
  /\ handle \in [Handles -> {[f |-> f, off |-> 0, n |-> 0, i |-> 0, id |-> 0] : f \in Files}]
  /\ ops = 0

Reset(s) == [s EXCEPT !.logged = {}]

(* Start a write() of n bytes; byte k of it is worth 10 * id + k.          *)
Write(h) == \E n \in WriteSizes :
  /\ handle[h].n = 0 /\ ops < MaxOps
  /\ ops' = ops + 1
  /\ handle' = [handle EXCEPT ![h].n = n, ![h].i = 0, ![h].id = ops + 1]
  /\ UNCHANGED <<fs, content>>

(* The reference semantics of r bytes written at off.                      *)
Overwritten(c, off, src, r) ==
  [x \in 1 .. (IF off + r > Len(c) THEN off + r ELSE Len(c)) |->
     IF off < x /\ x <= off + r THEN src[x - off] ELSE c[x]]

MaxChunk == ((MAXOPBLOCKS - 1 - 1 - 2) \div 2) * BSIZE

(* One turn of filewrite()'s loop, a transaction.  A chunk that comes back *)
(* short ends the call.  The bytes of a piece that could not be read in    *)
(* full may or may not show up below the file's size.                      *)
ChunkSize(d) == IF d.n - d.i > MaxChunk THEN MaxChunk ELSE d.n - d.i
ChunkBytes(d) == [k \in 1 .. ChunkSize(d) |-> 10 * d.id + d.i + k]
Chunk(h) == \E bad \in 0 .. 2, part \in 0 .. 1 :
  LET d == handle[h]
  IN /\ d.n > 0
     /\ \E w \in {Writei(Reset(fs), d.f, d.off, ChunkBytes(d), bad, part)} :
          LET r == IF w.tot > 0 THEN w.tot ELSE 0
              seen == IF r = 0 THEN content[d.f]
                      ELSE Overwritten(content[d.f], d.off, ChunkBytes(d), r)
          IN /\ fs' = w.fs
             /\ content' = [content EXCEPT ![d.f] =
                  IF bad > 0 /\ d.off + r < Len(seen)
                  THEN [seen EXCEPT ![d.off + r + 1] = Readi(w.fs, d.f, d.off + r, 1)[1]]
                  ELSE seen]
             /\ handle' = [handle EXCEPT ![h] =
                  IF r # ChunkSize(d) \/ d.i + r = d.n
                  THEN [d EXCEPT !.off = @ + r, !.n = 0, !.i = 0, !.id = 0]
                  ELSE [d EXCEPT !.off = @ + r, !.i = @ + r]]
     /\ UNCHANGED ops

(* fileread() moves the offset.                                            *)
Read(h) == \E n \in WriteSizes :
  LET d == handle[h]  r == Len(Readi(fs, d.f, d.off, n))
  IN /\ d.n = 0 /\ ops < MaxOps
     /\ ops' = ops + 1
     /\ handle' = [handle EXCEPT ![h].off = @ + r]
     /\ UNCHANGED <<fs, content>>

(* open() of the file, with O_TRUNC: a new offset, and no content.         *)
OpenTrunc(h) == LET f == handle[h].f IN
  /\ handle[h].n = 0 /\ ops < MaxOps
  /\ ops' = ops + 1
  /\ fs' = Itrunc(Reset(fs), f)
  /\ content' = [content EXCEPT ![f] = <<>>]
  /\ handle' = [handle EXCEPT ![h].off = 0]

(* Nothing is left to do.                                                  *)
Done == ops = MaxOps /\ (\A h \in Handles : handle[h].n = 0) /\ UNCHANGED vars

Next == Done \/ \E h \in Handles : Write(h) \/ Chunk(h) \/ Read(h) \/ OpenTrunc(h)

Spec == Init /\ [][Next]_vars
-----------------------------------------------------------------------------
(* What readi() finds through the direct and indirect blocks is what the   *)
(* completed writes and mkfs put there, whatever the order of writes,      *)
(* truncations and failures for lack of blocks or of user memory.          *)
ReadsBack ==
  \A f \in Files : /\ fs.size[f] = Len(content[f])
                   /\ Readi(fs, f, 0, Len(content[f])) = content[f]

(* The bitmap is exact: the used blocks are the metadata and the blocks    *)
(* the inodes refer to, and no block is referred to twice.  So bfree()     *)
(* never panics and nothing leaks when a write runs out of blocks halfway. *)
BitmapExact ==
  LET slot(f, n) == IF n = MAXFILE THEN fs.addrs[f][NDIRECT] ELSE Mapped(fs, f)[n]
      refs == {<<f, n, slot(f, n)>> : f \in Files, n \in 0 .. MAXFILE}
      live == {x \in refs : x[3] # 0}
  IN /\ fs.used = (0 .. NMeta - 1) \cup {x[3] : x \in live}
     /\ \A x, y \in live : x[3] = y[3] => x = y

(* "write a few blocks at a time to avoid exceeding the maximum log        *)
(* transaction size": no chunk of filewrite() logs more than MAXOPBLOCKS   *)
(* blocks.                                                                 *)
ChunkFitsLog == Cardinality(fs.logged) <= MAXOPBLOCKS

(* writei(), readi() and itrunc() together: files hold what was written to *)
(* them, the bitmap is exact, and no chunk of a write is too big for the   *)
(* log.                                                                    *)
FilesHoldData == ReadsBack /\ BitmapExact /\ ChunkFitsLog
=============================================================================
