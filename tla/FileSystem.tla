----------------------------- MODULE FileSystem -----------------------------
(***************************************************************************)
(* The file system calls of one task: the VFS mount table and path         *)
(* dispatch (vfs.cpp), the task's fd table (Context in process.cpp), the   *)
(* in-memory root file system loaded from the initramfs (memfs.cpp), the   *)
(* console device, and the ext2 file system mounted at /mnt, whose read    *)
(* path is the Ext2 module.                                                *)
(*                                                                         *)
(* A path is a sequence of characters; the characters are one-letter      *)
(* names and "/", so "/mnt" is written "/m", and the byte-level prefix     *)
(* test of find_fs and the component split of find_inode and strtok work  *)
(* on them as in the code.  A MemFS node keeps its name, type, size and    *)
(* its place in the tree; file bytes are left out (MemFS reads copy what   *)
(* is there, the count is what matters).  Every system call is one step:   *)
(* the kernel runs it to completion on the task's CPU.                     *)
(***************************************************************************)
EXTENDS Naturals, Sequences, SequencesExt

CONSTANTS
    Archive,            \* the initramfs: sequence of [name, type, size] in stream order
    Mounts,             \* register_fs calls of kernel_main, in order: [path, fs]
    Ext2Name,           \* the one regular file in the ext2 image's root directory
    MAX_PROCESS_FDS,    \* size of Context::fd_table
    OpenPaths,          \* paths passed to open
    CallFds,            \* fd numbers passed to read, write, seek, close and getdents
    DirPaths,           \* paths passed to mkdir, unlink and rmdir
    ChdirPaths,         \* paths passed to chdir
    WriteLens,          \* sizes passed to write on MemFS files
    SeekOffsets,        \* offsets passed to seek
    DentsCaps,          \* getdents buffer sizes, in bytes
    MaxOpens,           \* bound on successful open calls
    MaxInodes,          \* bound on MemFS inodes
    MaxSize,            \* bound on a MemFS file's size
    NDIR, PTRS, BS, FileSize, ReadLens   \* the ext2 file, as in Ext2

NULL == 0
PTR == -1                   \* a kernel pointer read back as an int (negative)
ROOT == 1                   \* MemFS::root, the first inode created

VARIABLES
    inodes,         \* MemFS inodes by creation order: [name, type, size, parent, children, live]
    descs,          \* FileDescriptor objects by creation order: [kind, ino, offset, live]
    fd_table,       \* Context::fd_table of the task: fd -> index in descs, NULL if empty
    next_fd,        \* Context::next_fd
    overrun,        \* a descriptor pointer was stored outside the Context
    e2cache,        \* the ext2 page cache (Ext2's cache)
    listing,        \* the getdents loop in progress: [fd, dir, pos, seen, clean, done]
    cwd             \* Context::cwd of the task (VFSManager's copy is the same string)

(* The ext2 read path, over this module's copy of the page cache. *)
E2 == INSTANCE Ext2

vars == <<inodes, descs, fd_table, next_fd, overrun, e2cache, listing, cwd>>

-----------------------------------------------------------------------------
(* Paths. *)

(* The components of a path: runs of non-'/' characters, empty ones       *)
(* skipped, as find_inode's loop and strtok(path, "/") split it.           *)
RECURSIVE Comps(_, _)
Comps(p, cur) ==
    IF p = <<>> THEN IF cur = <<>> THEN <<>> ELSE <<cur>>
    ELSE IF Head(p) = "/"
         THEN IF cur = <<>> THEN Comps(Tail(p), <<>>) ELSE <<cur>> \o Comps(Tail(p), <<>>)
         ELSE Comps(Tail(p), Append(cur, Head(p)))
Components(p) == Comps(p, <<>>)

(* find_fs: the used mount whose path is a byte prefix of the path        *)
(* (strncmp over the mount path's length), the longest one, the first     *)
(* registered among equals; the rest of the path after it.                *)
find_fs(p) ==
    LET ms == {i \in 1 .. Len(Mounts) : IsPrefix(Mounts[i].path, p)}
        best == {i \in ms : \A j \in ms : Len(Mounts[j].path) < Len(Mounts[i].path)
                                           \/ (Len(Mounts[j].path) = Len(Mounts[i].path) /\ i <= j)}
    IN IF ms = {} THEN [fs |-> "none", rest |-> <<>>]
       ELSE LET i == CHOOSE k \in best : TRUE
            IN [fs |-> Mounts[i].fs, rest |-> SubSeq(p, Len(Mounts[i].path) + 1, Len(p))]

(* find_fs reads only the mount table, which is fixed after boot: the     *)
(* mount and rest of every path the task passes, computed once.           *)
Routed == [p \in OpenPaths \cup DirPaths \cup ChdirPaths |-> find_fs(p)]

-----------------------------------------------------------------------------
(* MemFS. *)

(* MemFS::create_inode followed by the load_initramfs loop: every entry   *)
(* becomes a node pushed on the front of root's children, whatever '/'   *)
(* its name holds; a regular file keeps its size.                        *)
LoadedInodes ==
    LET n == Len(Archive)
        node(k) == [name |-> Archive[k].name, type |-> Archive[k].type,
                    size |-> IF Archive[k].type = "REG" THEN Archive[k].size ELSE 0,
                    parent |-> ROOT, children |-> <<>>, live |-> TRUE]
    IN <<[name |-> <<>>, type |-> "DIR", size |-> 0, parent |-> NULL,
          children |-> [k \in 1 .. n |-> ROOT + n + 1 - k], live |-> TRUE]>>
       \o [k \in 1 .. n |-> node(k)]

(* The child of directory d named c: first match along the sibling list. *)
RECURSIVE FirstNamed(_, _, _)
FirstNamed(ins, ks, c) ==
    IF ks = <<>> THEN NULL
    ELSE IF ins[Head(ks)].name = c THEN Head(ks) ELSE FirstNamed(ins, Tail(ks), c)
ChildNamed(ins, d, c) == FirstNamed(ins, ins[d].children, c)

(* MemFS::find_inode: from root, one child lookup per component; an      *)
(* empty path is root.                                                     *)
RECURSIVE FindFrom(_, _, _)
FindFrom(ins, i, cs) ==
    IF cs = <<>> THEN i
    ELSE LET c == ChildNamed(ins, i, Head(cs))
         IN IF c = NULL THEN NULL ELSE FindFrom(ins, c, Tail(cs))
find_inode(ins, p) == FindFrom(ins, ROOT, Components(p))

(* Take inode x off its parent's children list and free it. *)
Detach(ins, x) ==
    LET p == ins[x].parent IN
    [ins EXCEPT ![p].children = Remove(@, x), ![x].live = FALSE]

(* MemFS::mkdir(path): the parent is what precedes the last '/', which    *)
(* must be a directory; the name after it must be non-empty and not in    *)
(* use there.  The new directory goes on the front of the parent's list.  *)
(* Returns the new inodes, or the same ones when mkdir returns -1.         *)
memfs_mkdir(ins, rest) ==
    LET slashes == {k \in 1 .. Len(rest) : rest[k] = "/"}
        ls == IF slashes = {} THEN 0 ELSE Max(slashes)
        parent == find_inode(ins, SubSeq(rest, 1, ls - 1))
        name == SubSeq(rest, ls + 1, Len(rest))
        new == Len(ins) + 1
    IN IF \/ slashes = {}
          \/ parent = NULL
          \/ ins[parent].type # "DIR"
          \/ name = <<>>
          \/ ChildNamed(ins, parent, name) # NULL
       THEN ins
       ELSE [i \in 1 .. new |->
               IF i = new
               THEN [name |-> name, type |-> "DIR", size |-> 0, parent |-> parent,
                     children |-> <<>>, live |-> TRUE]
               ELSE IF i = parent THEN [ins[i] EXCEPT !.children = <<new>> \o @]
               ELSE ins[i]]

(* Bug variant: unlink without the check that the node is a regular    *)
(* file.                                                                   *)
memfs_unlink_anytype(ins, rest) ==
    LET f == find_inode(ins, rest) IN
    IF rest = <<>> \/ f = NULL \/ ins[f].parent = NULL THEN ins
    ELSE Detach(ins, f)

(* MemFS::unlink(path): a regular file is taken off its parent's list    *)
(* and freed (free_inode).                                                 *)
memfs_unlink(ins, rest) ==
    LET f == find_inode(ins, rest) IN
    IF rest = <<>> \/ f = NULL THEN ins
    ELSE IF ins[f].type # "REG" \/ ins[f].parent = NULL THEN ins
    ELSE Detach(ins, f)

(* MemFS::rmdir(path): an empty directory other than root is taken off   *)
(* its parent's list and freed.                                            *)
memfs_rmdir(ins, rest) ==
    LET d == find_inode(ins, rest) IN
    IF rest \in {<<>>, <<"/">>} \/ d = NULL THEN ins
    ELSE IF ins[d].type # "DIR" \/ ins[d].children # <<>> \/ ins[d].parent = NULL THEN ins
    ELSE Detach(ins, d)

-----------------------------------------------------------------------------
(* File descriptors and the system calls. *)

(* The open methods of the three file systems, each returning a new      *)
(* descriptor object (new), the shared console object, or NULL.            *)
CONSOLE == 1
NoDesc == [new |-> FALSE, d |-> NULL]
NewDesc(kind, ino) == [new |-> TRUE, d |-> [kind |-> kind, ino |-> ino, offset |-> 0, live |-> TRUE]]

(* MemFS::open: find_inode, then a new MemFSFileDescriptor at offset 0.   *)
memfs_open(rest) ==
    LET i == find_inode(inodes, rest) IN
    IF i = NULL THEN NoDesc ELSE NewDesc("memfs", i)

(* Ext2FileSystem::open: strtok's components looked up one directory at  *)
(* a time from the root inode; a component under a regular file or not   *)
(* found gives NULL.  The image's root holds the one file Ext2Name; no    *)
(* component at all opens the root directory itself.                      *)
ext2_open(rest) ==
    LET cs == Components(rest) IN
    CASE cs = <<Ext2Name>> -> NewDesc("ext2", 0)
      [] cs = <<>>         -> NewDesc("ext2dir", 0)
      [] OTHER             -> NoDesc

(* ConsoleFS::open: the one g_console_device, whatever the path. *)
console_open == [new |-> FALSE, d |-> CONSOLE]

(* VFSManager::open: find_fs, NULL when no mount matches, else the file   *)
(* system's open on the rest of the path.                                  *)
FsOpen(p) ==
    LET r == Routed[p] IN
    CASE r.fs = "memfs"   -> memfs_open(r.rest)
      [] r.fs = "ext2"    -> ext2_open(r.rest)
      [] r.fs = "console" -> console_open
      [] OTHER            -> NoDesc

(* Context::allocate_fd: next_fd, post-incremented, never checked against *)
(* the table size nor reused after close.                                  *)
allocate_fd == next_fd

(* sys_open: VFSManager::open, then fd_table[allocate_fd()] = fd.  The    *)
(* store at index MAX_PROCESS_FDS lands on next_fd, the field after the   *)
(* table, which then holds the pointer; from there on every store is      *)
(* outside the Context.                                                   *)
OpenedDesc(path) ==
    LET o == FsOpen(path) IN IF o.new THEN Len(descs) + 1 ELSE o.d

Open(path) ==
    LET o == FsOpen(path)
        d == OpenedDesc(path)
        fd == allocate_fd
    IN
    /\ d # NULL
    /\ next_fd # PTR => next_fd < 3 + MaxOpens
    /\ descs' = IF o.new THEN Append(descs, o.d) ELSE descs
    /\ fd_table' = IF fd \in 0 .. MAX_PROCESS_FDS - 1 THEN [fd_table EXCEPT ![fd] = d] ELSE fd_table
    /\ next_fd' = IF fd = PTR \/ fd = MAX_PROCESS_FDS THEN PTR ELSE fd + 1
    /\ overrun' = (overrun \/ fd = PTR)
    /\ UNCHANGED <<inodes, e2cache, listing, cwd>>

(* An fd that sys_read and the others accept: below 256 and not empty. *)
Valid(fd) == fd_table[fd] # NULL
Desc(fd) == descs[fd_table[fd]]

(* Bug variant: a MemFS read advances by the size asked, not the bytes   *)
(* left in the file.                                                      *)
memfs_read_noclamp(dsc, len) == dsc.offset + len

(* MemFSFileDescriptor::read: 0 at or past the end, else min(size,      *)
(* inode->size - offset) bytes; returns the new offset.                   *)
memfs_read(dsc, len) ==
    LET sz == inodes[dsc.ino].size IN
    IF dsc.offset >= sz THEN dsc.offset ELSE dsc.offset + Min({len, sz - dsc.offset})

(* Ext2FileDescriptor::read: min(size, inode->size - m_position) bytes   *)
(* through Ext2's loop over the shared page cache.                        *)
ext2_read(dsc, len) ==
    E2!ReadLoop(dsc.offset, Min({len, FileSize - dsc.offset}), e2cache, <<>>)

(* sys_read: -1 for an empty slot, else the descriptor's read.  A MemFS   *)
(* descriptor reads its inode, freed or not.  Console reads wait for the  *)
(* keyboard and are left out.                                              *)
Read(fd, len) ==
    LET dsc == Desc(fd)
        r   == ext2_read(dsc, len)
    IN
    /\ Valid(fd)
    /\ \/ /\ dsc.kind = "memfs"
          /\ descs' = [descs EXCEPT ![fd_table[fd]].offset = memfs_read(dsc, len)]
          /\ UNCHANGED e2cache
       \/ /\ dsc.kind = "ext2"
          /\ descs' = [descs EXCEPT ![fd_table[fd]].offset = r.pos]
          /\ e2cache' = r.cache
    /\ UNCHANGED <<inodes, fd_table, next_fd, overrun, listing, cwd>>

(* MemFSFileDescriptor::write: the bytes go at offset (the buffer grows  *)
(* as needed), offset advances, size becomes the larger of the two.  No   *)
(* type check: a directory's size grows too.                              *)
memfs_write(dsc, len) ==
    [offset |-> dsc.offset + len, size |-> Max({inodes[dsc.ino].size, dsc.offset + len})]

(* sys_write: -1 for an empty slot, else the descriptor's write.          *)
(* ConsoleDevice::write prints and keeps no state.  Ext2 writes are not   *)
(* modelled.                                                               *)
Write(fd, len) ==
    LET dsc == Desc(fd)
        w   == memfs_write(dsc, len)
    IN
    /\ Valid(fd)
    /\ \/ /\ dsc.kind = "memfs"
          /\ w.offset <= MaxSize
          /\ descs' = [descs EXCEPT ![fd_table[fd]].offset = w.offset]
          /\ inodes' = [inodes EXCEPT ![dsc.ino].size = w.size]
       \/ /\ dsc.kind = "console"
          /\ UNCHANGED <<descs, inodes>>
    /\ UNCHANGED <<fd_table, next_fd, overrun, e2cache, listing, cwd>>

(* The seek methods' test of the new offset: MemFS against the inode's   *)
(* current size, ext2 against inode->size; ConsoleDevice::seek is -1.     *)
memfs_seek_ok(dsc, off) == off <= inodes[dsc.ino].size
ext2_seek_ok(off) == off <= FileSize
SeekOk(dsc, off) ==
    CASE dsc.kind = "memfs" -> memfs_seek_ok(dsc, off)
      [] dsc.kind = "ext2"  -> ext2_seek_ok(off)
      [] OTHER              -> FALSE

(* sys_seek: -1 for an empty slot, else the descriptor's seek, which      *)
(* moves the offset only when its test passes.                            *)
Seek(fd, off) ==
    LET dsc == Desc(fd) IN
    /\ Valid(fd)
    /\ dsc.kind \in {"memfs", "ext2", "console"}
    /\ descs' = IF SeekOk(dsc, off) THEN [descs EXCEPT ![fd_table[fd]].offset = off] ELSE descs
    /\ UNCHANGED <<inodes, fd_table, next_fd, overrun, e2cache, listing, cwd>>

(* Bug variant: the slot is left holding the closed descriptor. *)
CloseKeepSlot(fd) ==
    /\ Valid(fd)
    /\ descs' = IF Desc(fd).kind = "memfs"
                THEN [descs EXCEPT ![fd_table[fd]].live = FALSE] ELSE descs
    /\ UNCHANGED <<inodes, fd_table, next_fd, overrun, e2cache, listing, cwd>>

(* sys_close: the descriptor's close, then the slot emptied.  A MemFS     *)
(* descriptor deletes itself; ext2's close returns 0 and keeps the       *)
(* object; the console's close does nothing.  The fd number is not given *)
(* back: allocate_fd never reuses it.                                     *)
Close(fd) ==
    /\ Valid(fd)
    /\ descs' = IF Desc(fd).kind = "memfs"
                THEN [descs EXCEPT ![fd_table[fd]].live = FALSE] ELSE descs
    /\ fd_table' = [fd_table EXCEPT ![fd] = NULL]
    /\ UNCHANGED <<inodes, next_fd, overrun, e2cache, listing, cwd>>

(* The directory a path-based call changes, for the listing's record. *)
Touches(ins, ins2) == {i \in DOMAIN ins : i \notin DOMAIN ins2 \/ ins[i].children # ins2[i].children}

(* VFSManager::mkdir, unlink and rmdir: find_fs, then the MemFS method on *)
(* the rest of the path; the console refuses all three.  DirPaths lie on  *)
(* these two file systems (ext2's versions write the disk image).         *)
PathOp(op, path) ==
    LET r == Routed[path]
        ins2 == CASE r.fs = "memfs" /\ op = "mkdir"  -> memfs_mkdir(inodes, r.rest)
                  [] r.fs = "memfs" /\ op = "unlink" -> memfs_unlink(inodes, r.rest)
                  [] r.fs = "memfs" /\ op = "rmdir"  -> memfs_rmdir(inodes, r.rest)
                  [] OTHER -> inodes
    IN
    /\ r.fs \in {"memfs", "console"}
    /\ Len(ins2) <= MaxInodes
    /\ inodes' = ins2
    /\ listing' = [listing EXCEPT !.clean = @ /\ listing.dir \notin Touches(inodes, ins2)]
    /\ UNCHANGED <<descs, fd_table, next_fd, overrun, e2cache, cwd>>
Mkdir(path) == PathOp("mkdir", path)
Unlink(path) == PathOp("unlink", path)
Rmdir(path) == PathOp("rmdir", path)

(* Bug variant: iterate stores one past the last record written in pos. *)
iterate_past_last(kids, pos, cap) ==
    LET skip == Min({pos, Len(kids)})
        n    == Min({cap, Len(kids) - skip})
    IN [recs |-> SubSeq(kids, skip + 1, skip + n), pos |-> skip + n + 1]

(* MemFSFileDescriptor::iterate over a directory's children: skip pos of *)
(* them, write records while a whole dirent fits in the buffer (cap      *)
(* records), store the count reached in pos.                              *)
iterate(kids, pos, cap) ==
    LET skip == Min({pos, Len(kids)})
        n    == Min({cap, Len(kids) - skip})
    IN [recs |-> SubSeq(kids, skip + 1, skip + n), pos |-> skip + n]

(* The ls loop: getdents(fd, buf, size, &pos) until it returns 0, pos     *)
(* starting at 0.  sys_getdents is -1 for an empty slot and calls the     *)
(* descriptor's iterate: MemFS writes size / sizeof(dirent) records of a  *)
(* directory, ext2 walks the root directory's blocks, and both are -1 for *)
(* a regular file, as the console is for anything.  A call on another fd, *)
(* or after the loop ended, starts a new listing; the listing of the ext2 *)
(* root has dir NULL.                                                      *)
Getdents(fd, size) ==
    LET dsc   == Desc(fd)
        same  == listing.fd = fd /\ ~listing.done
        start == IF same THEN listing.pos ELSE 0
        it    == IF dsc.kind = "ext2dir"
                 THEN E2!ext2_iterate(start, size)
                 ELSE iterate(inodes[dsc.ino].children, start, size \div E2!DIRENT_SIZE)
    IN
    /\ Valid(fd)
    /\ \/ dsc.kind = "memfs" /\ inodes[dsc.ino].type = "DIR"
       \/ dsc.kind = "ext2dir"
    /\ listing' = [fd |-> fd, dir |-> IF dsc.kind = "ext2dir" THEN NULL ELSE dsc.ino,
                   pos |-> it.pos,
                   seen |-> (IF same THEN listing.seen ELSE <<>>) \o it.recs,
                   clean |-> same => listing.clean, done |-> it.recs = <<>>]
    /\ UNCHANGED <<inodes, descs, fd_table, next_fd, overrun, e2cache, cwd>>

-----------------------------------------------------------------------------
-----------------------------------------------------------------------------
(* stat and chdir. *)

(* The type each file system's stat reports for the rest of a path, or    *)
(* "none" when it returns -1.  MemFS::stat: find_inode and the node's     *)
(* type.  Ext2FileSystem::stat: open, then the mode of the opened inode.  *)
(* ConsoleFileSystem::stat: FT_CHR whatever the path.                     *)
(* Bug variant: MemFS stat reports every node it finds as a directory.   *)
memfs_stat_no_type(rest) ==
    LET i == find_inode(inodes, rest) IN IF i = NULL THEN "none" ELSE "DIR"

memfs_stat(rest) ==
    LET i == find_inode(inodes, rest) IN IF i = NULL THEN "none" ELSE inodes[i].type

ext2_stat(rest) ==
    LET o == ext2_open(rest) IN
    IF ~o.new THEN "none" ELSE IF o.d.kind = "ext2dir" THEN "DIR" ELSE "REG"

console_stat == "CHR"

(* VFSManager::stat: find_fs, -1 when no mount matches, else the file     *)
(* system's stat on the rest of the path.                                  *)
FsStat(p) ==
    LET r == Routed[p] IN
    CASE r.fs = "memfs"   -> memfs_stat(r.rest)
      [] r.fs = "ext2"    -> ext2_stat(r.rest)
      [] r.fs = "console" -> console_stat
      [] OTHER            -> "none"

(* VFSManager::chdir: find_fs and stat the rest; only a directory is      *)
(* accepted, and then the whole path (not the rest) is copied into cwd.   *)
(* Paths here are far below the 255 bytes strncpy keeps.                  *)
Chdir(p) ==
    /\ cwd' = IF FsStat(p) = "DIR" THEN p ELSE cwd
    /\ UNCHANGED <<inodes, descs, fd_table, next_fd, overrun, e2cache, listing>>

(* The task after boot: MemFS loaded from the initramfs, the mounts       *)
(* registered, fds 0 to 2 copied from the kernel context, all the         *)
(* console device; nothing cached by ext2 yet, no listing made.          *)
FDs == 0 .. MAX_PROCESS_FDS - 1

Init ==
    /\ inodes = LoadedInodes
    /\ descs = <<[kind |-> "console", ino |-> 0, offset |-> 0, live |-> TRUE]>>
    /\ fd_table = [f \in FDs |-> IF f < 3 THEN CONSOLE ELSE NULL]
    /\ next_fd = 3
    /\ overrun = FALSE
    /\ e2cache = [b \in E2!Blocks |-> E2!NONE]
    /\ listing = [fd |-> NULL, dir |-> ROOT, pos |-> 0, seen |-> <<>>, clean |-> FALSE, done |-> TRUE]
    /\ cwd = <<"/">>

(* One system call of the task.  Once a store has gone outside the       *)
(* Context the kernel's memory is corrupt and nothing more is modelled.   *)
Next ==
    /\ ~overrun
    /\ \/ \E p \in OpenPaths : Open(p)
       \/ \E fd \in CallFds, len \in ReadLens : Read(fd, len)
       \/ \E fd \in CallFds, len \in WriteLens : Write(fd, len)
       \/ \E fd \in CallFds, off \in SeekOffsets : Seek(fd, off)
       \/ \E fd \in CallFds : Close(fd)
       \/ \E p \in DirPaths : Mkdir(p) \/ Unlink(p) \/ Rmdir(p)
       \/ \E fd \in CallFds, cap \in DentsCaps : Getdents(fd, cap)
       \/ \E p \in ChdirPaths : Chdir(p)

Spec == Init /\ [][Next]_vars

-----------------------------------------------------------------------------
(***************************************************************************)
(* Properties                                                              *)
(***************************************************************************)

Kinds == {"console", "memfs", "ext2", "ext2dir"}

TypeOK ==
    /\ \A i \in DOMAIN inodes : inodes[i].type \in {"DIR", "REG"} /\ inodes[i].size \in 0 .. MaxSize
    /\ \A d \in DOMAIN descs :
          /\ descs[d].kind \in Kinds /\ descs[d].live \in BOOLEAN
          /\ descs[d].offset \in 0 .. (IF descs[d].kind = "memfs" THEN MaxSize ELSE FileSize)
    /\ fd_table \in [FDs -> 0 .. Len(descs)]
    /\ next_fd \in {PTR} \cup 3 .. MAX_PROCESS_FDS
    /\ listing.pos \in (0 .. MaxInodes) \cup (0 .. E2!DirBS)
    /\ cwd \in ChdirPaths \cup {<<"/">>}

(* MemFS tree (mkdir, unlink, rmdir, load_initramfs): every live node but *)
(* root sits exactly once on its live parent directory's list, every      *)
(* listed child is live and names that directory its parent, and no two   *)
(* children of a directory share a name, so find_inode reaches each node. *)
TreeWellFormed ==
    \A i \in DOMAIN inodes :
       /\ inodes[i].live /\ i # ROOT =>
             /\ inodes[inodes[i].parent].live
             /\ inodes[inodes[i].parent].type = "DIR"
             /\ Len(SelectSeq(inodes[inodes[i].parent].children, LAMBDA x : x = i)) = 1
       /\ inodes[i].live =>
             \A k, m \in 1 .. Len(inodes[i].children) :
                /\ inodes[inodes[i].children[k]].live
                /\ inodes[inodes[i].children[k]].parent = i
                /\ k # m => inodes[inodes[i].children[k]].name # inodes[inodes[i].children[m]].name

(* sys_close and the descriptors' close: a slot the syscalls accept      *)
(* (non-null) always holds a descriptor object that has not deleted       *)
(* itself, whatever opens and closes came before.                         *)
FdTableConsistent ==
    \A fd \in FDs : Valid(fd) => descs[fd_table[fd]].live

(* Ext2 get_block_id over the page cache as the task's reads have filled  *)
(* it, through any number of descriptors of the file: every block of the  *)
(* file resolves to the block the layout puts there.                      *)
GetBlockIdMatchesLayout == E2!BlockIdsMatchLayout(e2cache)

(* spec.md 4.K and scenario 3: an ext2 read returns exactly the file's    *)
(* bytes from the descriptor's position, whichever descriptor and however *)
(* the other descriptors' reads have filled the shared page cache.        *)
ReadReturnsFileContents ==
    [][\A fd \in CallFds, len \in ReadLens :
          Read(fd, len) /\ Desc(fd).kind = "ext2" =>
             E2!ReadMatchesFile([from |-> Desc(fd).offset, len |-> len,
                                 bytes |-> ext2_read(Desc(fd), len).out])]_vars

(* spec.md scenario 4, getdents pagination as ls drives it: when the      *)
(* loop ends (getdents returned 0) and the directory was not changed      *)
(* meanwhile, the names returned are all its children, each once.          *)
ListingComplete ==
    listing.done /\ listing.clean /\ listing.dir # NULL =>
        listing.seen = inodes[listing.dir].children

(* spec.md scenario 4 on the ext2 mount: when ls's loop over /mnt ends,   *)
(* it has returned every live entry of the root directory once, in block  *)
(* order, whatever the buffer size: a call that stops on a full buffer    *)
(* resumes at the byte offset of the entry it could not write, and the   *)
(* walk past the directory's one block (i_blocks counts sectors) adds     *)
(* nothing.                                                                *)
Ext2ListingComplete ==
    listing.done /\ listing.dir = NULL /\ listing.fd # NULL =>
        listing.seen = E2!LiveEntries

(* spec.md 6, open: the fd open returns is a slot of the fd table that    *)
(* read, write and close accept, and it holds the descriptor just opened. *)
OpenedFdUsable ==
    [][\A p \in OpenPaths :
          Open(p) => allocate_fd \in FDs /\ fd_table'[allocate_fd] = OpenedDesc(p)]_vars

(* The directories of the name space, computed from the tree upwards     *)
(* rather than by lookup: the mount point of a file system whose root is  *)
(* a directory, or the MemFS mount point followed by the names from the   *)
(* root down to a live MemFS directory that no other mount covers.  The   *)
(* ext2 image's only directory is its root.                               *)
RECURSIVE NamesTo(_)
NamesTo(x) == IF x = ROOT THEN <<>> ELSE NamesTo(inodes[x].parent) \o <<inodes[x].name>>

MountComps(fs) == {Components(Mounts[i].path) : i \in {j \in 1 .. Len(Mounts) : Mounts[j].fs = fs}}

IsDirPath(p) ==
    LET cs == Components(p) IN
    \/ cs \in MountComps("memfs") \cup MountComps("ext2")
    \/ \E x \in DOMAIN inodes, m \in MountComps("memfs") :
          /\ inodes[x].live /\ inodes[x].type = "DIR"
          /\ cs = m \o NamesTo(x)
          /\ \A k \in MountComps("ext2") \cup MountComps("console") :
                ~IsPrefix(k, cs) \/ Len(k) <= Len(m)

(* spec.md 4.I and 8 (chdir then getcwd): chdir accepts a path exactly    *)
(* when it names a directory, whatever mkdir and rmdir have done: find_fs *)
(* must route it to the right file system with the right rest, and that  *)
(* file system's stat must find it and call it a directory (MemFS from    *)
(* its tree, ext2 through open and the inode mode, the console never).    *)
ChdirAcceptsExactlyDirectories ==
    \A p \in ChdirPaths : FsStat(p) = "DIR" <=> IsDirPath(p)

(* MemFS descriptors keep a raw inode pointer: every open MemFS           *)
(* descriptor's inode has not been freed by unlink or rmdir.              *)
DescriptorInodesLive ==
    \A fd \in FDs : Valid(fd) /\ Desc(fd).kind = "memfs" => inodes[Desc(fd).ino].live

=============================================================================
