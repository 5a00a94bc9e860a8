------------------------------- MODULE NeoFs -------------------------------
\* A NeoFS v2 volume (fs/neofs): copy-on-write directories, the free list, the
\* snapshot table and the superblock, with crashes and remounts. A directory is
\* one B-tree leaf here (BTree has the tree itself), a file one data block or
\* inline. File data goes through the page cache, which writes it later;
\* everything else goes to the device at once.
\*
\* An operation runs under the VFS lock: it writes its blocks, then the
\* superblock, so a crash finds it before or after the latter.
EXTENDS Integers, Sequences, FiniteSets, TLC

CONSTANTS Files, Dir, \* names: files, and the one subdirectory of the root
          Handles,    \* open files
          NumBlocks,
          MAX_SNAPSHOTS,
          MaxWrites,  \* bound on the writes
          MaxOps,     \* bound on the operations
          MaxMounts,  \* bound on the remounts
          FsLoads     \* sets of operations; one is chosen for a behaviour

VARIABLES mem,    \* the mounted volume: NeoDosFsV2
          blocks, \* the device's blocks
          sb,     \* the superblock on the device
          pages,  \* dirty data pages of the page cache
          saving, \* the superblock save_sb is about to write, or Idle
          handles, \* the open files: their cached inodes
          used,   \* operations, writes and mounts so far
          fsLoad

fsVars == <<mem, blocks, sb, pages, saving, handles, used, fsLoad>>

Idle == [root |-> 0, flist |-> 0, snap |-> 0, idle |-> TRUE]
NoHandle == [dir |-> "none"]
AllBlocks == 2 .. NumBlocks - 1
Max0(S) == IF S = {} THEN 0 ELSE CHOOSE x \in S : \A y \in S : y <= x

\* Directory entries: ext is the data block, or the root of the subdirectory.
FileEntry(b, v) == [kind |-> "file", ext |-> b, val |-> v]
DirEntry(b) == [kind |-> "dir", ext |-> b, val |-> 0]
Leaf(e) == [type |-> "leaf", entries |-> e]
EmptyLeaf == Leaf(<< >>)
DataBlock(v) == [type |-> "data", val |-> v]
TableBlock(t) == [type |-> "snapshots", table |-> t]
ListBlock(F) == [type |-> "freelist", free |-> F]
Blank == [type |-> "blank"]

-----------------------------------------------------------------------------
\* Blocks. S is the state an operation works on: m (the mounted volume), b (the
\* blocks), p (the dirty pages), and lba, the block the last call returned.

RunLength(F, b) == CHOOSE n \in 1 .. NumBlocks : b .. b + n - 1 \subseteq F /\ b + n \notin F

\* FreeList::alloc(1): the start of the first of the shortest regions.
alloc(F) ==
    LET starts == {b \in F : b - 1 \notin F}
    IN IF F = {} THEN 0
       ELSE CHOOSE b \in starts : \A c \in starts \ {b} :
                RunLength(F, b) < RunLength(F, c) \/ (RunLength(F, b) = RunLength(F, c) /\ b < c)

Drop(f, b) == [x \in DOMAIN f \ {b} |-> f[x]]

\* Mutant: the page of a block that was a file's stays dirty.
WriteNodeKeepsPage(S, e) ==
    IF S.m.free = {} THEN [S EXCEPT !.lba = 0]
    ELSE [S EXCEPT !.lba = alloc(S.m.free), !.m.free = @ \ {alloc(S.m.free)},
                   !.b[alloc(S.m.free)] = Leaf(e)]

\* A new node; 0 when the volume is full. Its cached page is dropped.
write_node(S, e) ==
    IF S.m.free = {} THEN [S EXCEPT !.lba = 0]
    ELSE [S EXCEPT !.lba = alloc(S.m.free), !.m.free = @ \ {alloc(S.m.free)},
                   !.b[alloc(S.m.free)] = Leaf(e), !.p = Drop(@, alloc(S.m.free))]

Readable(B, r) == r # 0 /\ B[r].type = "leaf"
EntriesOf(B, r) == IF Readable(B, r) THEN B[r].entries ELSE << >>

\* BTree::insert_tracked; the node it replaces becomes garbage.
insert_tracked(S, r, name, e) ==
    IF r = 0 THEN write_node(S, name :> e)
    ELSE write_node([S EXCEPT !.m.garbage = @ \cup {r}], (name :> e) @@ EntriesOf(S.b, r))

\* BTree::delete_tracked; no node is written for an empty directory.
delete_tracked(S, r, name) ==
    LET G == [S EXCEPT !.m.garbage = @ \cup {r}]
        rest == Drop(EntriesOf(S.b, r), name)
    IN IF DOMAIN rest = {} THEN [G EXCEPT !.lba = 0] ELSE write_node(G, rest)

SetRoot(S, r) == [S EXCEPT !.m.root = r, !.m.top = r]

\* A directory's new root goes into its parent's entry, up to the superblock.
propagate_dir_root(S, d, r) ==
    IF d = "root" THEN SetRoot(S, r)
    ELSE LET T == insert_tracked(S, S.m.top, Dir, DirEntry(r)) IN SetRoot(T, T.lba)

\* The root of directory d as a lookup from the cached root inode finds it.
RootOf(d) ==
    IF d = "root" THEN mem.top
    ELSE IF Dir \in DOMAIN EntriesOf(blocks, mem.top) THEN blocks[mem.top].entries[Dir].ext ELSE 0

EntriesIn(d) == EntriesOf(blocks, RootOf(d))

-----------------------------------------------------------------------------
\* save_sb.

\* The snapshot table is rewritten in its block; an empty one has none.
save_snapshot_table(S) ==
    LET at == IF S.m.snapLba # 0 THEN S.m.snapLba ELSE alloc(S.m.free)
    IN IF ~S.m.snapDirty THEN S
       ELSE IF S.m.snaps = << >>
       THEN [S EXCEPT !.m.free = @ \cup ({S.m.snapLba} \ {0}), !.m.snapLba = 0, !.m.snapDirty = FALSE]
       ELSE IF at = 0 THEN [S EXCEPT !.m.snapDirty = FALSE]
       ELSE [S EXCEPT !.m.free = @ \ {at}, !.b[at] = TableBlock(S.m.snaps), !.p = Drop(@, at),
                      !.m.snapLba = at, !.m.snapDirty = FALSE]

\* Mutant: replaced blocks are freed although a snapshot may hold them.
ReclaimAlways(S) == [S EXCEPT !.m.free = @ \cup (S.m.garbage \cap AllBlocks), !.m.garbage = {}]

reclaim_cow_garbage(S) ==
    IF S.m.snaps # << >> THEN S
    ELSE [S EXCEPT !.m.free = @ \cup (S.m.garbage \cap AllBlocks), !.m.garbage = {}]

\* The persisted list is only good until the first change.
save_freelist(S) == [S EXCEPT !.m.free = @ \cup S.m.chain, !.m.chain = {}]

\* Everything save_sb does before it writes the superblock.
save_sb(S) ==
    LET T == save_freelist(reclaim_cow_garbage(save_snapshot_table(S)))
    IN /\ mem' = T.m
       /\ blocks' = T.b
       /\ pages' = T.p
       /\ saving' = [root |-> T.m.root, flist |-> 0, snap |-> T.m.snapLba, idle |-> FALSE]
       /\ UNCHANGED <<sb, fsLoad>>

\* The superblock sector.
WriteSuperblock ==
    /\ ~saving.idle
    /\ sb' = saving
    /\ saving' = Idle
    /\ UNCHANGED <<mem, blocks, pages, handles, used, fsLoad>>

-----------------------------------------------------------------------------
\* Operations.

Now == [m |-> mem, b |-> blocks, p |-> pages, lba |-> 0]

\* The environment of the loads without "full" and "stale": room for the blocks an
\* operation can need, and after a restore, which the cached root inode does not
\* see, nothing before the next mount.
Roomy == "full" \in fsLoad \/ Cardinality(mem.free) >= 3

Begin(op) ==
    /\ saving.idle
    /\ op \in fsLoad
    /\ used.ops < MaxOps
    /\ Roomy
    /\ "stale" \in fsLoad \/ mem.root = mem.top

Count(n) == used' = [used EXCEPT !.ops = @ + 1, !.writes = @ + n]

Dirs == {"root"} \cup {d \in {Dir} : Dir \in DOMAIN EntriesIn("root")}

\* A directory keeps an entry, so that delete_tracked writes a node for it.
KeepsOne(d) == "empty" \in fsLoad \/ Cardinality(DOMAIN EntriesIn(d)) > 1

create(h, d, f) ==
    LET S == insert_tracked(Now, RootOf(d), f, FileEntry(0, 0))
    IN /\ Begin("create")
       /\ save_sb(propagate_dir_root(S, d, S.lba))
       /\ handles' = [handles EXCEPT ![h] = [dir |-> d, name |-> f, root |-> S.lba, entry |-> FileEntry(0, 0)]]
       /\ Count(0)

mkdir ==
    LET N == write_node(Now, << >>)
        S == insert_tracked(N, mem.top, Dir, DirEntry(N.lba))
    IN /\ Begin("mkdir")
       /\ N.lba # 0
       /\ save_sb(propagate_dir_root(S, "root", S.lba))
       /\ Count(0)
       /\ UNCHANGED handles

\* lookup: the inode a handle keeps has the directory's root of this moment.
lookup(h, d, f) ==
    /\ saving.idle /\ "open" \in fsLoad
    /\ f \in DOMAIN EntriesIn(d)
    /\ handles' = [handles EXCEPT ![h] = [dir |-> d, name |-> f, root |-> RootOf(d), entry |-> EntriesIn(d)[f]]]
    /\ UNCHANGED <<mem, blocks, sb, pages, saving, used, fsLoad>>

\* file_write: inline when it fits, else one new data block in the page cache.
file_write(S, big, v) ==
    LET at == alloc(S.m.free)
    IN IF ~big THEN [S EXCEPT !.lba = 0]
       ELSE [S EXCEPT !.lba = at, !.m.free = @ \ {at}, !.p = (at :> v) @@ @]

\* What lookup would cache now.
Fresh(i) ==
    /\ i.dir \in Dirs /\ i.root = RootOf(i.dir)
    /\ i.name \in DOMAIN EntriesIn(i.dir) /\ i.entry = EntriesIn(i.dir)[i.name]

\* A write through handle h; the tree it changes is the one its inode was cached
\* with. A file never shrinks. Only the load "stale" lets the directory change first.
write(h, big) ==
    LET i == handles[h]
        v == used.writes + 1
        S == file_write(Now, big, v)
        e == FileEntry(S.lba, IF big THEN 0 ELSE v)
        G == [S EXCEPT !.m.garbage = @ \cup ({i.entry.ext} \ {0})]
        T == insert_tracked(G, i.root, i.name, e)
    IN /\ Begin("write")
       /\ used.writes < MaxWrites
       /\ i # NoHandle
       /\ i.entry.ext # 0 => big
       /\ big => mem.free # {}
       /\ "stale" \in fsLoad \/ Fresh(i)
       /\ save_sb(propagate_dir_root(T, i.dir, T.lba))
       /\ handles' = [handles EXCEPT ![h].root = T.lba, ![h].entry = e]
       /\ Count(1)

remove_file(d, f) ==
    LET G == [Now EXCEPT !.m.garbage = @ \cup ({EntriesIn(d)[f].ext} \ {0})]
        S == delete_tracked(G, RootOf(d), f)
    IN /\ Begin("remove")
       /\ f \in DOMAIN EntriesIn(d)
       /\ KeepsOne(d)
       /\ save_sb(IF S.lba = 0 THEN S ELSE propagate_dir_root(S, d, S.lba))
       /\ Count(0)
       /\ UNCHANGED handles

\* An empty directory goes; its node is not reclaimed before the next mount.
remove_dir ==
    LET S == delete_tracked(Now, mem.top, Dir)
    IN /\ Begin("rmdir")
       /\ Dir \in DOMAIN EntriesIn("root")
       /\ DOMAIN EntriesIn(Dir) = {}
       /\ KeepsOne("root")
       /\ save_sb(IF S.lba = 0 THEN S ELSE propagate_dir_root(S, "root", S.lba))
       /\ Count(0)
       /\ UNCHANGED handles

\* Delete the old name, insert the new one.
rename(d, f, g) ==
    LET S == delete_tracked(Now, RootOf(d), f)
        T == insert_tracked(S, IF S.lba = 0 THEN RootOf(d) ELSE S.lba, g, EntriesIn(d)[f])
    IN /\ Begin("rename")
       /\ f \in DOMAIN EntriesIn(d)
       /\ f # g
       /\ KeepsOne(d)
       /\ save_sb(propagate_dir_root(T, d, T.lba))
       /\ Count(0)
       /\ UNCHANGED handles

\* SnapshotTable::create: the oldest goes when the table is full.
snapshot_create ==
    LET kept == IF Len(mem.snaps) >= MAX_SNAPSHOTS THEN Tail(mem.snaps) ELSE mem.snaps
    IN /\ Begin("snapshot")
       /\ save_sb([Now EXCEPT !.m.snaps = Append(kept, [root |-> mem.root, id |-> mem.next]),
                              !.m.next = @ + 1, !.m.snapDirty = TRUE])
       /\ Count(0)
       /\ UNCHANGED handles

snapshot_delete(i) ==
    /\ Begin("snapshot")
    /\ i \in DOMAIN mem.snaps
    /\ save_sb([Now EXCEPT !.m.snaps = SubSeq(@, 1, i - 1) \o SubSeq(@, i + 1, Len(@)),
                           !.m.snapDirty = TRUE])
    /\ Count(0)
    /\ UNCHANGED handles

snapshot_purge ==
    /\ Begin("snapshot")
    /\ save_sb([Now EXCEPT !.m.snaps = << >>, !.m.snapDirty = TRUE])
    /\ Count(0)
    /\ UNCHANGED handles

\* The superblock gets the snapshot's root; the cached root inode keeps its own.
snapshot_restore(i) ==
    /\ Begin("restore")
    /\ i \in DOMAIN mem.snaps
    /\ save_sb([Now EXCEPT !.m.root = mem.snaps[i].root])
    /\ Count(0)
    /\ UNCHANGED handles

\* The page cache writes a page back (PageCache).
FlushPage(b) ==
    /\ blocks' = [blocks EXCEPT ![b] = DataBlock(pages[b])]
    /\ pages' = Drop(pages, b)
    /\ UNCHANGED <<mem, sb, saving, handles, used, fsLoad>>

-----------------------------------------------------------------------------
\* Mounting.

Extents(B, r) == {EntriesOf(B, r)[f].ext : f \in DOMAIN EntriesOf(B, r)} \ {0}
SubDirs(B, r) == {EntriesOf(B, r)[f].ext : f \in {g \in DOMAIN EntriesOf(B, r) : B[r].entries[g].kind = "dir"}}

\* The blocks of the tree at r: collect_directory_blocks.
Reach(B, r) == {r} \cup Extents(B, r) \cup UNION {Extents(B, d) : d \in SubDirs(B, r)}

\* recover_freelist: what neither the tree, a snapshot's nor the table uses.
recover_freelist(B, s, table) ==
    AllBlocks \ (Reach(B, s.root) \cup {s.snap}
                 \cup UNION {Reach(B, table[i].root) : i \in DOMAIN table})

TableAt(B, lba) == IF lba # 0 /\ B[lba].type = "snapshots" THEN B[lba].table ELSE << >>

\* NeoDosFsV2::new; the next id is one more than the largest in the table.
Mounted(B, s) ==
    LET t == TableAt(B, s.snap)
        listed == s.flist # 0 /\ B[s.flist].type = "freelist"
    IN [root |-> s.root, top |-> s.root,
        snaps |-> t, next |-> Max0({t[i].id + 1 : i \in DOMAIN t}), snapLba |-> s.snap,
        snapDirty |-> FALSE, garbage |-> {},
        chain |-> IF listed THEN {s.flist} ELSE {},
        free |-> IF listed THEN B[s.flist].free ELSE recover_freelist(B, s, t)]

\* Power fails and the volume is mounted again: memory and dirty pages are gone.
CrashAndMount ==
    /\ "crash" \in fsLoad
    /\ used.mounts < MaxMounts
    /\ mem' = Mounted(blocks, sb)
    /\ pages' = << >>
    /\ saving' = Idle
    /\ handles' = [h \in Handles |-> NoHandle]
    /\ used' = [used EXCEPT !.mounts = @ + 1]
    /\ UNCHANGED <<blocks, sb, fsLoad>>

\* The volume mkfs_ne2 makes: an empty root in block 1, the free list in block 2.
Init ==
    /\ blocks = [b \in 0 .. NumBlocks - 1 |->
                    IF b = 1 THEN EmptyLeaf ELSE IF b = 2 THEN ListBlock(3 .. NumBlocks - 1) ELSE Blank]
    /\ sb = [root |-> 1, flist |-> 2, snap |-> 0, idle |-> FALSE]
    /\ mem = Mounted(blocks, sb)
    /\ pages = << >>
    /\ saving = Idle
    /\ handles = [h \in Handles |-> NoHandle]
    /\ used = [ops |-> 0, writes |-> 0, mounts |-> 0]
    /\ fsLoad \in FsLoads

Next ==
    \/ \E d \in {"root", Dir}, f \in Files :
          /\ d \in Dirs
          /\ \/ \E h \in Handles : create(h, d, f) \/ lookup(h, d, f)
             \/ remove_file(d, f)
             \/ \E g \in Files : rename(d, f, g)
    \/ \E h \in Handles, big \in BOOLEAN : write(h, big)
    \/ mkdir
    \/ remove_dir
    \/ snapshot_create
    \/ \E i \in 1 .. MAX_SNAPSHOTS : snapshot_delete(i) \/ snapshot_restore(i)
    \/ snapshot_purge
    \/ WriteSuperblock
    \/ \E b \in DOMAIN pages : FlushPage(b)
    \/ CrashAndMount

Spec == Init /\ [][Next]_fsVars

-----------------------------------------------------------------------------
\* The volume a reader sees under root r of the device.

Content(e) ==
    IF e.kind = "dir" THEN -2
    ELSE IF e.ext = 0 THEN e.val
    ELSE IF e.ext \in DOMAIN pages THEN pages[e.ext]
    ELSE IF blocks[e.ext].type = "data" THEN blocks[e.ext].val ELSE -3

InLeaf(r, f) == IF f \in DOMAIN EntriesOf(blocks, r) THEN Content(blocks[r].entries[f]) ELSE -1

SubOf(r) == IF InLeaf(r, Dir) = -2 THEN blocks[r].entries[Dir].ext ELSE 0

View(r) ==
    [p \in {<<"root", f>> : f \in Files \cup {Dir}} \cup {<<Dir, f>> : f \in Files} |->
        IF p[1] = "root" THEN InLeaf(r, p[2]) ELSE InLeaf(SubOf(r), p[2])]

DiskTable == TableAt(blocks, sb.snap)
DiskSnaps == [i \in DOMAIN DiskTable |-> View(DiskTable[i].root)]
Seen == {View(sb.root)} \cup {DiskSnaps[i] : i \in DOMAIN DiskSnaps}
Soft == {v \in {pages[b] : b \in DOMAIN pages} : \E w \in Seen : \E p \in DOMAIN w : w[p] = v}

Abs == INSTANCE AbsFs WITH ns <- View(sb.root), snaps <- DiskSnaps, soft <- Soft

\* What the device holds changes by whole operations: a crash anywhere in an
\* operation leaves the volume and every snapshot as before or after it, except
\* for file content the page cache had not written.
ImplementsAbsFs == Abs!AbsSpec
AbsStep == [Abs!AbsNext]_<<View(sb.root), DiskSnaps, Soft>>

LiveRoots == {mem.root, sb.root} \cup {DiskTable[i].root : i \in DOMAIN DiskTable}

\* No block that the tree, a snapshot, the table or the superblock on the device
\* leads to is free, so no operation overwrites what a reader or a mount needs:
\* copy-on-write garbage is reclaimed no earlier than its last reader is gone.
NoLiveBlockFree ==
    saving.idle =>
        mem.free \cap (UNION {Reach(blocks, r) : r \in LiveRoots} \cup {sb.snap}) = {}

\* "Commit the new root + freelist + snapshot table so the write survives a crash
\* or remount" (write): the volume holds what each open handle last wrote, when
\* the handles are of different files and nothing but writes through them happens.
WritesReadBack ==
    saving.idle =>
        \A h \in Handles :
            \/ handles[h] = NoHandle
            \/ \E g \in Handles \ {h} : handles[g] # NoHandle /\ handles[g].name = handles[h].name
            \/ View(sb.root)[<<handles[h].dir, handles[h].name>>] = Content(handles[h].entry)
=============================================================================
