------------------------------- MODULE Ext2 --------------------------------
(***************************************************************************)
(* The ext2 read path of an open regular file (Ext2FileDescriptor in      *)
(* ext2.cpp) over the page cache (SimplePageCache::get_page) and the       *)
(* block device: operators over a cache value, used by FileSystem, whose  *)
(* read and seek actions run them for every open ext2 descriptor.         *)
(*                                                                         *)
(* A block is a sequence: a data block holds bytes, an indirect block     *)
(* holds block ids.  The image is built from a reference layout: file     *)
(* block i lives at disk block DataBase + i, and i_block, the single-     *)
(* indirect block and the double-indirect tree point there the way ext2   *)
(* lays them out; byte k of data block b is the pair <<b, k>>, so a read  *)
(* of the wrong block or offset is visible.  Sizes are scaled: NDIR is    *)
(* the 12 direct pointers, PTRS the 256 ids the code takes an indirect    *)
(* block to hold, BS the bytes of a block.                                *)
(***************************************************************************)
EXTENDS Naturals, Sequences, SequencesExt

CONSTANTS
    NDIR,           \* direct pointers in i_block (12)
    PTRS,           \* block ids per indirect block as get_block_id assumes (256)
    BS,             \* bytes per block
    FileSize,       \* inode->size, in bytes
    Ext2Name        \* the one regular file in the image's root directory

NONE == <<>>
NBlocks == (FileSize + BS - 1) \div BS
IND == 1                        \* i_block[NDIR]: the single-indirect block
DIND == 2                       \* i_block[NDIR + 1]: the double-indirect block
L2(j) == 3 + j                  \* the j-th block the double-indirect block names
DataBase == 3 + PTRS            \* file block i lives at DataBase + i
RefBlock(i) == DataBase + i
Blocks == 1 .. DataBase + NBlocks

(* The reference layout of the file on disk. *)
i_block == [k \in 0 .. NDIR + 1 |->
              IF k < NDIR THEN RefBlock(k) ELSE IF k = NDIR THEN IND ELSE DIND]
Disk == [b \in Blocks |->
           IF b = IND THEN [e \in 1 .. PTRS |-> RefBlock(NDIR + e - 1)]
           ELSE IF b = DIND THEN [e \in 1 .. PTRS |-> L2(e - 1)]
           ELSE IF b < DataBase
           THEN [e \in 1 .. PTRS |-> RefBlock(NDIR + PTRS + (b - 3) * PTRS + e - 1)]
           ELSE [e \in 1 .. BS |-> <<b, e - 1>>]]

(* The file's bytes as ext2 defines them. *)
FileByte(o) == Disk[RefBlock(o \div BS)][(o % BS) + 1]

(* SimplePageCache::get_page: the cached page, or the block read from the *)
(* device and inserted.  No eviction: the erase is a TODO.  Returns the   *)
(* page and the cache after the call.                                      *)
get_page(c, b) ==
    IF c[b] # NONE THEN [page |-> c[b], cache |-> c]
    ELSE [page |-> Disk[b], cache |-> [c EXCEPT ![b] = Disk[b]]]

(* Entry e (from 0) of an indirect block; the code reads a uint32 at      *)
(* e * 4 bytes into the page.                                              *)
Entry(page, e) == page[e + 1]

(* Bug variant: the single-indirect range starts one block late. *)
get_block_id_late(c, idx) ==
    IF idx <= NDIR THEN [id |-> i_block[idx], cache |-> c]
    ELSE LET p == get_page(c, i_block[NDIR]) IN
         [id |-> Entry(p.page, idx - NDIR), cache |-> p.cache]

(* Ext2FileDescriptor::get_block_id: direct, single-indirect through the  *)
(* page cache, double-indirect through two pages; 0 past that.            *)
get_block_id(c, idx) ==
    CASE idx < NDIR ->
            [id |-> i_block[idx], cache |-> c]
      [] idx < NDIR + PTRS ->
            LET p == get_page(c, i_block[NDIR]) IN
            [id |-> Entry(p.page, idx - NDIR), cache |-> p.cache]
      [] idx < NDIR + PTRS + PTRS * PTRS ->
            LET p1 == get_page(c, i_block[NDIR + 1])
                first == Entry(p1.page, (idx - NDIR - PTRS) % (PTRS * PTRS))
                p2 == get_page(p1.cache, first)
            IN [id |-> Entry(p2.page, (idx - NDIR - PTRS) % PTRS), cache |-> p2.cache]
      [] OTHER -> [id |-> 0, cache |-> c]

(* Bug variant: the slice is copied from the start of the page, data_offset *)
(* left out of the memcpy source.                                          *)
CopyChunkFromPageStart(pos, todo, c) ==
    LET r   == get_block_id(c, pos \div BS)
        pg  == get_page(r.cache, r.id)
        n   == Min({BS - (pos % BS), todo})
    IN [n |-> n, cache |-> pg.cache, bytes |-> SubSeq(pg.page, 1, n)]

(* One iteration of the loop of Ext2FileDescriptor::read: resolve the     *)
(* block holding pos, get its page and copy min(block_size - data_offset, *)
(* bytes_to_read) bytes from data_offset on.                               *)
CopyChunk(pos, todo, c) ==
    LET r   == get_block_id(c, pos \div BS)
        pg  == get_page(r.cache, r.id)
        off == pos % BS
        n   == Min({BS - off, todo})
    IN [n |-> n, cache |-> pg.cache, bytes |-> SubSeq(pg.page, off + 1, off + n)]

(* The loop: chunks until bytes_to_read is 0; returns the position, the   *)
(* cache and the bytes copied.                                             *)
RECURSIVE ReadLoop(_, _, _, _)
ReadLoop(pos, todo, c, out) ==
    IF todo = 0 THEN [pos |-> pos, cache |-> c, out |-> out]
    ELSE LET k == CopyChunk(pos, todo, c)
         IN ReadLoop(pos + k.n, todo - k.n, k.cache, out \o k.bytes)

-----------------------------------------------------------------------------
(***************************************************************************)
(* The root directory and Ext2FileDescriptor::iterate.  Directory          *)
(* entries are laid out in real bytes, since the listing's positions are   *)
(* byte offsets and the record lengths decide where a buffer fills: a     *)
(* block of DirBS bytes holds ".", ".." and Ext2Name, each entry's        *)
(* rec_len its 8-byte header plus the name rounded up to 4, the last one *)
(* reaching to the end of the block.  i_block[0] names the directory     *)
(* block and every other slot is 0; block 0 starts with the zero boot     *)
(* area, so an entry read there has rec_len 0.  Reads of the device do   *)
(* not fail.                                                               *)
(***************************************************************************)
DirBS == 4096                   \* super_block->block_size()
DIRENT_SIZE == 12               \* sizeof(dirent), padded
ROOT_INO == 2
RootDirBlock == DataBase + NBlocks + 1
(* The root inode's i_blocks: ext2 counts 512-byte sectors. *)
I_BLOCKS == DirBS \div 512
dir_i_block(i) == IF i = 0 THEN RootDirBlock ELSE 0

RootDir == << [inode |-> ROOT_INO, name_len |-> 1],
              [inode |-> ROOT_INO, name_len |-> 2],
              [inode |-> ROOT_INO + 10, name_len |-> Len(Ext2Name)] >>

EntrySpan(k) == ((8 + RootDir[k].name_len + 3) \div 4) * 4
EntryOff(k) == FoldLeft(LAMBDA a, j : a + EntrySpan(j), 0, [j \in 1 .. k - 1 |-> j])
rec_len(k) == IF k = Len(RootDir) THEN DirBS - EntryOff(k) ELSE EntrySpan(k)

(* The directory block as the device returns it: the entry starting at    *)
(* each byte offset that starts one, with its index in RootDir.           *)
DirBlockEntries ==
    [off \in {EntryOff(k) : k \in DOMAIN RootDir} |->
        LET k == CHOOSE k \in DOMAIN RootDir : EntryOff(k) = off
        IN [k |-> k, inode |-> RootDir[k].inode, rec_len |-> rec_len(k),
            name_len |-> RootDir[k].name_len]]

(* The Ext2DirEntry at byte off of block blk. *)
NoEntry == [k |-> 0, inode |-> 0, rec_len |-> 0, name_len |-> 0]
EntryAt(blk, off) ==
    IF blk = RootDirBlock /\ off \in DOMAIN DirBlockEntries THEN DirBlockEntries[off] ELSE NoEntry

(* The dirent record iterate writes: header, name and NUL, rounded to 4. *)
OutRecLen(e) == ((DIRENT_SIZE + e.name_len + 1 + 3) \div 4) * 4

(* Bug variant: on a full buffer the entry is stepped over as if written. *)
RECURSIVE EntryLoopSkipFull(_, _, _, _, _, _)
EntryLoopSkipFull(blk, off, cp, bw, out, size) ==
    LET e == EntryAt(blk, off)
        w == e.inode # 0 /\ bw + OutRecLen(e) <= size
        bw2 == IF w THEN bw + OutRecLen(e) ELSE bw
        out2 == IF w THEN Append(out, e.k) ELSE out
    IN IF off >= DirBS THEN [pos |-> cp, n |-> bw, recs |-> out]
       ELSE IF bw2 + DIRENT_SIZE > size
            THEN [pos |-> cp + e.rec_len, n |-> bw2, recs |-> out2]
            ELSE EntryLoopSkipFull(blk, off + e.rec_len, cp + e.rec_len, bw2, out2, size)

(* The while loop over the entries of one block: a live entry whose      *)
(* record does not fit ends it without moving current_pos; otherwise the *)
(* record is written, current_pos and the entry pointer move on by        *)
(* rec_len, and the loop ends once another dirent header would not fit.   *)
RECURSIVE EntryLoop(_, _, _, _, _, _)
EntryLoop(blk, off, cp, bw, out, size) ==
    LET e == EntryAt(blk, off)
        bw2 == IF e.inode # 0 THEN bw + OutRecLen(e) ELSE bw
        out2 == IF e.inode # 0 THEN Append(out, e.k) ELSE out
    IN CASE off >= DirBS -> [pos |-> cp, n |-> bw, recs |-> out]
         [] e.inode # 0 /\ bw + OutRecLen(e) > size -> [pos |-> cp, n |-> bw, recs |-> out]
         [] bw2 + DIRENT_SIZE > size -> [pos |-> cp + e.rec_len, n |-> bw2, recs |-> out2]
         [] OTHER -> EntryLoop(blk, off + e.rec_len, cp + e.rec_len, bw2, out2, size)

(* The for loop over i_block from pos's block while i < i_blocks and the  *)
(* buffer is not full; the first block from pos's offset, later ones from *)
(* 0; an entry with rec_len 0 at the start ends the walk.                 *)
RECURSIVE BlockLoop(_, _, _, _, _, _)
BlockLoop(i, boff, cp, bw, out, size) ==
    LET blk == dir_i_block(i)
        r == EntryLoop(blk, boff, cp, bw, out, size)
    IN IF ~(i < I_BLOCKS /\ bw < size) \/ EntryAt(blk, boff).rec_len = 0
       THEN [pos |-> cp, n |-> bw, recs |-> out]
       ELSE BlockLoop(i + 1, 0, r.pos, r.n, r.recs, size)

(* Ext2FileDescriptor::iterate on the root directory: the new *pos, the  *)
(* bytes written (the return value) and the entries written, in order.   *)
ext2_iterate(pos, size) == BlockLoop(pos \div DirBS, pos % DirBS, pos, 0, <<>>, size)

(* The live entries of the root directory in block order. *)
LiveEntries == SelectSeq([k \in DOMAIN RootDir |-> k], LAMBDA k : RootDir[k].inode # 0)

-----------------------------------------------------------------------------
(***************************************************************************)
(* Properties                                                              *)
(***************************************************************************)

(* spec.md 4.K block-index resolution, checked for every block of the     *)
(* file: get_block_id, reading indirect blocks through the page cache     *)
(* whatever it holds, names the disk block the layout puts there.         *)
BlockIdsMatchLayout(cache) ==
    \A i \in 0 .. NBlocks - 1 : get_block_id(cache, i).id = RefBlock(i)

(* spec.md 4.K read and scenario 3: read() returns exactly the file's     *)
(* bytes from the position it started at, as many as asked and left in   *)
(* the file, wherever the read starts inside a block and however many     *)
(* blocks it crosses; a seek back and a second read return them again.   *)
ReadMatchesFile(rd) ==
    /\ Len(rd.bytes) = Min({rd.len, FileSize - rd.from})
    /\ \A k \in 1 .. Len(rd.bytes) :
          rd.bytes[k] = FileByte(rd.from + k - 1)

=============================================================================
