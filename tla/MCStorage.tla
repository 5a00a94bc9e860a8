----------------------------- MODULE MCStorage -----------------------------
(***************************************************************************)
(* The storage stack on small instances: the page cache, NeoFS over a      *)
(* device that crashes, and the B+tree of its directories.  A behaviour    *)
(* exercises the component named by focus; the others stay in their        *)
(* initial states.                                                         *)
(***************************************************************************)
EXTENDS BTree, TLC

CONSTANT Components

VARIABLES focus,
          cache, disk, NEED_CACHE_FLUSH, budget, direct, latest, clock, faults, dropped, missed,
          mem, blocks, sb, pages, saving, handles, used, fsLoad

\* Pages 1 and 3 of device 1 share their home, and device 2 has a page 1 too.
Pages == {<<1, 1>>, <<1, 3>>, <<2, 1>>}
SectorPages == {<<2, 1>>}
PageHome == [k \in Pages |-> k[2] % 2]

PC == INSTANCE PageCache WITH
        Keys <- Pages, Raw <- SectorPages, CACHE_SIZE <- 2, Home <- PageHome,
        MAX_FLUSHES_PER_CALL <- 1, MaxWrites <- 2, MaxFaults <- 1

FileNames == {"f", "g"}
OpenFiles == {1}
Workloads == { {"create", "open", "write", "remove", "rename", "crash"},
               {"create", "open", "write", "snapshot", "restore", "crash"},
               {"create", "open", "write", "mkdir", "rmdir", "remove", "crash"} }

F == INSTANCE NeoFs WITH
       Files <- FileNames, Dir <- "d", Handles <- OpenFiles, NumBlocks <- 9, MAX_SNAPSHOTS <- 2,
       MaxWrites <- 2, MaxOps <- 4, MaxMounts <- 1,
       FsLoads <- Workloads

pageVars == <<cache, disk, NEED_CACHE_FLUSH, budget, direct, latest, clock, faults, dropped, missed>>
fsVars == <<mem, blocks, sb, pages, saving, handles, used, fsLoad>>
vars == <<focus, pageVars, fsVars, treeVars>>

Init ==
    /\ focus \in Components
    /\ PC!Init /\ TreeInit
    /\ F!Init /\ (focus # "neofs" => "remove" \in fsLoad /\ "rename" \in fsLoad)

Next ==
    /\ UNCHANGED focus
    /\ \/ focus = "pages" /\ PC!Next /\ UNCHANGED <<fsVars, treeVars>>
       \/ focus = "neofs" /\ F!Next /\ UNCHANGED <<pageVars, treeVars>>
       \/ focus = "btree" /\ TreeNext /\ UNCHANGED <<pageVars, fsVars>>

Spec == Init /\ [][Next]_vars
-----------------------------------------------------------------------------
\* The page cache's list, table, slots and dirty count agree, and as long as
\* insert has found room for a page a reader gets its last accepted write,
\* unless that was given up: neither an eviction, a write-back racing the
\* accesses, nor a block write under a dirty cached page brings an older
\* content back.
Coherent == focus = "pages" => PC!BookkeepingSound /\ PC!Coherent

\* No block that the tree, a snapshot, the table or the superblock on the device
\* leads to is free, so no operation overwrites what a reader or a mount needs.
NoLiveBlockFree == focus = "neofs" => F!NoLiveBlockFree

\* What the device holds changes by whole operations: a crash anywhere in an
\* operation leaves the volume and every snapshot as before or after it, except
\* for file content the page cache had not written.
ImplementsAbsFs == F!Abs!AbsInit /\ [][focus = "neofs" => F!AbsStep]_vars
=============================================================================
