------------------------------ MODULE PageCache ------------------------------
\* The global page cache (buffer/page_cache) over the block devices, as the I/O
\* stack (fs/vfs/io.rs), NeoFS and the write-back of infra/globals.rs use it:
\* an array of page slots, an open-addressing table that finds the slot of a
\* page, an LRU list, and dirty sectors written back later.
\*
\* Every operation runs under PAGE_CACHE, then BLOCK_DEVICES, so it is one step;
\* flush_cache_if_needed takes both locks once per page, and a direct write of
\* IoStack::write_sectors takes first one and then the other, so these are several.
\* A page is <<device, page number>>; its content is the number of the last
\* write that reached it. Every mount is made with cache level L1, so pages get
\* dirty only as a whole, through get_page_mut.
EXTENDS Integers, Sequences, FiniteSets

CONSTANTS Keys,       \* the pages in use
          Raw,        \* the ones written by sectors (superblock, FAT), never through get_page_mut
          CACHE_SIZE, \* slots, and entries of the hash table
          Home,       \* fnv_hash(page) % CACHE_SIZE
          MAX_FLUSHES_PER_CALL,
          MaxWrites,  \* bound on the number of writes and failing device calls
          MaxFaults   \* bound on the number of failing device calls

VARIABLES cache,   \* slots, table, LRU list (most recent first), dirty_count
          disk,    \* the devices' pages
          NEED_CACHE_FLUSH,
          budget,  \* pages the running flush_cache_if_needed may still write, 0 when none runs
          direct,  \* the page a direct write has put on the device and not yet evicted
          latest,  \* the last write accepted for each page
          clock,   \* writes so far
          faults,  \* device calls that failed
          dropped, \* pages the last accepted write of which was given up
          missed   \* pages that were loaded and insert left out of the table

vars == <<cache, disk, NEED_CACHE_FLUSH, budget, direct, latest, clock, faults, dropped, missed>>

Slots == 0 .. CACHE_SIZE - 1
NoSlot == CACHE_SIZE
NoPage == <<0, 0>>
Torn == -1
EMPTY_SLOT == [valid |-> FALSE, dirty |-> FALSE, key |-> NoPage, data |-> 0]
HT_EMPTY == [key |-> NoPage, slot |-> NoSlot]
HT_TOMBSTONE == [key |-> NoPage, slot |-> NoSlot + 1]
Dirty(C) == {i \in Slots : C.slots[i].dirty}
Dev(k) == k[1]
Least(S) == CHOOSE i \in S : \A j \in S : i <= j
Greatest(S) == CHOOSE i \in S : \A j \in S : j <= i

-----------------------------------------------------------------------------
\* The hash table.

Probe(k, i) == (Home[k] + i) % CACHE_SIZE

\* The probes that meet the key or an empty entry.
Stops(C, k) ==
    {i \in Slots : C.entries[Probe(k, i)].key = k \/ C.entries[Probe(k, i)] = HT_EMPTY}

\* The entry of the page: the first such probe, when it meets the key.
Entry(C, k) ==
    {Probe(k, i) : i \in {j \in Stops(C, k) : j = Least(Stops(C, k))
                                              /\ C.entries[Probe(k, j)].key = k}}

get(C, k) ==
    IF Entry(C, k) = {} THEN NoSlot ELSE C.entries[CHOOSE p \in Entry(C, k) : TRUE].slot

\* The tombstones met before the empty entry, which are used first.
Tombs(C, k) ==
    {i \in 0 .. Least(Stops(C, k)) - 1 : C.entries[Probe(k, i)] = HT_TOMBSTONE}

\* Nothing is inserted, and no caller looks, when no probe is empty.
insert(C, k, id) ==
    IF Stops(C, k) = {} THEN C
    ELSE [C EXCEPT !.entries[IF Entry(C, k) # {} THEN CHOOSE p \in Entry(C, k) : TRUE
                             ELSE Probe(k, Least(Tombs(C, k) \cup {Least(Stops(C, k))}))]
                      = [key |-> k, slot |-> id]]

remove(C, k) ==
    [C EXCEPT !.entries = [p \in Slots |-> IF p \in Entry(C, k) THEN HT_TOMBSTONE ELSE @[p]]]

-----------------------------------------------------------------------------
\* Slots.

unlink_lru(C, id) == [C EXCEPT !.lru = SelectSeq(@, LAMBDA i : i # id)]

move_to_head(C, id) == [C EXCEPT !.lru = <<id>> \o SelectSeq(@, LAMBDA i : i # id)]

\* Mutant: the counter keeps counting a page that left the cache dirty.
DiscardUncounted(C, id) ==
    [remove(unlink_lru(C, id), C.slots[id].key) EXCEPT !.slots[id] = EMPTY_SLOT]

\* A page leaves the list, the table and its slot.
Discard(C, id) ==
    [remove(unlink_lru(C, id), C.slots[id].key) EXCEPT
        !.slots[id] = EMPTY_SLOT,
        !.dirty_count = IF C.slots[id].dirty THEN @ - 1 ELSE @]

\* What a device leaves of a page it is given: a failing one may have taken some
\* of its sectors, which is neither the old nor the new content.
Put(D, k, v, ok) == [D EXCEPT ![k] = IF ok THEN v ELSE Torn]

\* evict_lru's choice: a free slot, the least recent clean one, or the tail.
Victim(C) ==
    LET free == {i \in Slots : ~C.slots[i].valid}
        clean == {n \in DOMAIN C.lru : ~C.slots[C.lru[n]].dirty}
    IN IF free # {} THEN Least(free)
       ELSE IF clean # {} THEN C.lru[Greatest(clean)]
       ELSE C.lru[Len(C.lru)]

\* Whether making room for a page of device d writes the victim: a dirty page of
\* another device is dropped instead.
WritesVictim(C, d) == LET v == C.slots[Victim(C)] IN v.dirty /\ Dev(v.key) = d

\* evict_lru; whether the write of the victim succeeds is not noticed.
evict_lru(C, D, d, ok) ==
    LET v == C.slots[Victim(C)]
    IN [c |-> IF v.valid THEN Discard(C, Victim(C)) ELSE C,
        d |-> IF WritesVictim(C, d) THEN Put(D, v.key, v.data, ok) ELSE D,
        lost |-> IF v.dirty /\ ~(WritesVictim(C, d) /\ ok) THEN {v.key} ELSE {}]

populate_slot(C, D, id, k) ==
    move_to_head(insert([C EXCEPT !.slots[id] = [valid |-> TRUE, dirty |-> FALSE,
                                                 key |-> k, data |-> D[k]]], k, id), id)

\* The common part of load_page, get_or_load_slot, read_page and get_page_mut.
\* An entry always leads to a slot that holds the page (BookkeepingSound), so
\* their other branch, evict_slot, is never taken. readable: the device answers.
get_or_load_slot(k, ok, readable) ==
    LET hit == get(cache, k)
        e == evict_lru(cache, disk, Dev(k), ok)
    IN IF hit # NoSlot
       THEN [ok |-> TRUE, id |-> hit, c |-> move_to_head(cache, hit), d |-> disk, lost |-> {}]
       ELSE [ok |-> readable, id |-> Victim(cache), d |-> e.d, lost |-> e.lost,
             c |-> IF readable THEN populate_slot(e.c, e.d, Victim(cache), k) ELSE e.c]

\* Mutant: a page that is written is not marked dirty.
MarkNothing(C, id, v) == [C EXCEPT !.slots[id].data = v]

\* get_page_mut's last lines, and what its caller then does to the page.
MarkDirty(C, id, v) ==
    [C EXCEPT !.slots[id].dirty = TRUE, !.slots[id].data = v,
              !.dirty_count = IF C.slots[id].dirty THEN @ ELSE @ + 1]

\* invalidate_range of one page: whatever slots hold that page number, of any device.
invalidate_range(C, k) ==
    LET hold == {i \in Slots : C.slots[i].valid /\ C.slots[i].key[2] = k[2]}
        upTo[n \in 0 .. CACHE_SIZE] ==
            IF n = 0 THEN C
            ELSE IF n - 1 \in hold THEN Discard(upTo[n - 1], n - 1) ELSE upTo[n - 1]
    IN upTo[CACHE_SIZE]

DroppedBy(C, k) == {C.slots[i].key : i \in {j \in Dirty(C) : C.slots[j].key[2] = k[2]}}

-----------------------------------------------------------------------------
\* Accesses.

\* Pages that are in a slot the table does not lead to.
Unindexed(C) == {C.slots[i].key : i \in {j \in Slots : C.slots[j].valid /\ get(C, C.slots[j].key) # j}}

\* A device call fails at most MaxFaults times.
Faulty(failed) ==
    /\ failed => faults < MaxFaults /\ clock + faults < MaxWrites
    /\ faults' = IF failed THEN faults + 1 ELSE faults

Init ==
    /\ cache = [slots |-> [i \in Slots |-> EMPTY_SLOT], entries |-> [i \in Slots |-> HT_EMPTY],
                lru |-> << >>, dirty_count |-> 0]
    /\ disk = [k \in Keys |-> 0]
    /\ NEED_CACHE_FLUSH = FALSE
    /\ budget = 0
    /\ direct = NoPage
    /\ latest = disk
    /\ clock = 0
    /\ faults = 0
    /\ dropped = {}
    /\ missed = {}

\* IoStack::read_sectors and file_read: bring the page in.
ReadPage(k, ok, readable) ==
    LET r == get_or_load_slot(k, ok, readable)
    IN /\ Faulty(~readable \/ ~ok)
       /\ cache' = r.c
       /\ disk' = r.d
       /\ dropped' = dropped \cup r.lost
       /\ missed' = missed \cup ({k} \cap Unindexed(r.c))
       /\ UNCHANGED <<NEED_CACHE_FLUSH, budget, direct, latest, clock>>

\* file_write of a page; it fails when the page cannot be loaded.
WritePage(k, ok, readable) ==
    LET r == get_or_load_slot(k, ok, readable)
    IN /\ k \notin Raw
       /\ clock + faults < MaxWrites
       /\ Faulty(~readable \/ ~ok)
       /\ cache' = IF r.ok THEN MarkDirty(r.c, r.id, clock + 1) ELSE r.c
       /\ disk' = r.d
       /\ dropped' = (dropped \cup r.lost) \ (IF r.ok THEN {k} ELSE {})
       /\ latest' = IF r.ok THEN [latest EXCEPT ![k] = clock + 1] ELSE latest
       /\ clock' = clock + 1
       /\ missed' = missed \cup ({k} \cap Unindexed(r.c))
       /\ UNCHANGED <<NEED_CACHE_FLUSH, budget, direct>>

\* write_node and write_block_raw: a block goes to the device and its cached
\* copies, dirty ones included, go in the same step. A failed write leaves them.
WriteBlock(k, ok) ==
    /\ k \notin Raw
    /\ clock + faults < MaxWrites
    /\ Faulty(~ok)
    /\ disk' = Put(disk, k, clock + 1, ok)
    /\ clock' = clock + 1
    /\ IF ok
       THEN /\ cache' = invalidate_range(cache, k)
            /\ dropped' = (dropped \cup DroppedBy(cache, k)) \ {k}
            /\ latest' = [latest EXCEPT ![k] = clock + 1]
       ELSE /\ dropped' = dropped \cup {k}
            /\ UNCHANGED <<cache, latest>>
    /\ UNCHANGED <<NEED_CACHE_FLUSH, budget, direct, missed>>

\* IoStack::write_sectors: the device first, the cache under its own lock later,
\* also when the device refused.
WriteSector(k, ok) ==
    /\ k \in Raw /\ direct = NoPage
    /\ clock + faults < MaxWrites
    /\ Faulty(~ok)
    /\ disk' = IF ok THEN Put(disk, k, clock + 1, ok) ELSE disk
    /\ latest' = IF ok THEN [latest EXCEPT ![k] = clock + 1] ELSE latest
    /\ clock' = clock + 1
    /\ direct' = k
    /\ UNCHANGED <<cache, NEED_CACHE_FLUSH, budget, dropped, missed>>

WriteSectorEvicts ==
    /\ direct # NoPage
    /\ cache' = invalidate_range(cache, direct)
    /\ dropped' = dropped \cup DroppedBy(cache, direct)
    /\ direct' = NoPage
    /\ UNCHANGED <<disk, NEED_CACHE_FLUSH, budget, latest, clock, faults, missed>>

-----------------------------------------------------------------------------
\* Write-back.

\* The periodic request of the boot processor's timer interrupt.
TimerTick ==
    /\ ~NEED_CACHE_FLUSH
    /\ NEED_CACHE_FLUSH' = TRUE
    /\ UNCHANGED <<cache, disk, budget, direct, latest, clock, faults, dropped, missed>>

\* flush_cache_if_needed, on the way out of a system call.
BeginFlush ==
    /\ NEED_CACHE_FLUSH /\ budget = 0
    /\ NEED_CACHE_FLUSH' = FALSE
    /\ budget' = MAX_FLUSHES_PER_CALL
    /\ UNCHANGED <<cache, disk, direct, latest, clock, faults, dropped, missed>>

\* The first dirty slot of the first device that has one.
NextDirty(C) ==
    CHOOSE i \in Dirty(C) : \A j \in Dirty(C) :
        \/ Dev(C.slots[i].key) < Dev(C.slots[j].key)
        \/ Dev(C.slots[i].key) = Dev(C.slots[j].key) /\ i <= j

\* The bookkeeping of a page flush_batch has written.
Cleaned(C, id) == [C EXCEPT !.slots[id].dirty = FALSE, !.dirty_count = @ - 1]

\* One turn of the loop: flush_batch of one page. The loop ends when nothing was
\* written (nothing is dirty, or the devices refuse), or with its budget, and
\* then the flag is set again if pages are still dirty.
FlushPage(ok) ==
    LET id == NextDirty(cache)
        v == cache.slots[id]
    IN /\ budget > 0
       /\ Dirty(cache) = {} => ok
       /\ Faulty(~ok)
       /\ disk' = IF Dirty(cache) = {} THEN disk ELSE Put(disk, v.key, v.data, ok)
       /\ IF Dirty(cache) # {} /\ ok
          THEN /\ cache' = Cleaned(cache, id)
               /\ budget' = budget - 1
               /\ NEED_CACHE_FLUSH' = (NEED_CACHE_FLUSH \/ (budget = 1 /\ cache'.dirty_count > 0))
          ELSE /\ budget' = 0
               /\ UNCHANGED <<cache, NEED_CACHE_FLUSH>>
       /\ UNCHANGED <<direct, latest, clock, dropped, missed>>

-----------------------------------------------------------------------------
Next ==
    \/ \E k \in Keys, ok \in BOOLEAN, readable \in BOOLEAN :
           /\ ~ok => get(cache, k) = NoSlot /\ WritesVictim(cache, Dev(k))
           /\ ~readable => get(cache, k) = NoSlot
           /\ ReadPage(k, ok, readable) \/ WritePage(k, ok, readable)
    \/ \E k \in Keys, ok \in BOOLEAN : WriteBlock(k, ok) \/ WriteSector(k, ok)
    \/ WriteSectorEvicts
    \/ TimerTick
    \/ BeginFlush
    \/ \E ok \in BOOLEAN : FlushPage(ok)

\* The timer keeps firing, threads keep leaving system calls, and a flush goes on
\* to its end.
Fairness == WF_vars(TimerTick) /\ WF_vars(BeginFlush) /\ WF_vars(\E ok \in BOOLEAN : FlushPage(ok))

Spec == Init /\ [][Next]_vars /\ Fairness

-----------------------------------------------------------------------------
\* The list holds each valid slot once, an entry of the table leads to a valid
\* slot that holds its page, and dirty_count is the number of dirty slots: what
\* evict_lru, move_to_head and the validity test after hash.get rely on.
BookkeepingSound ==
    /\ {cache.lru[n] : n \in DOMAIN cache.lru} = {i \in Slots : cache.slots[i].valid}
    /\ Len(cache.lru) = Cardinality({i \in Slots : cache.slots[i].valid})
    /\ \A p \in Slots : LET e == cache.entries[p]
                       IN e.key # NoPage => cache.slots[e.slot].valid /\ cache.slots[e.slot].key = e.key
    /\ cache.dirty_count = Cardinality(Dirty(cache))

\* The page a reader gets.
Visible(k) == IF get(cache, k) # NoSlot THEN cache.slots[get(cache, k)].data ELSE disk[k]

\* As long as insert has found room for a page, it sits in one slot at most and a
\* reader gets its last accepted write, unless that was given up: neither an
\* eviction, a write-back racing the accesses, nor a block write under a dirty
\* cached page brings an older content back.
Coherent ==
    /\ \A i, j \in Slots :
          cache.slots[i].valid /\ cache.slots[i].key \notin missed
          /\ cache.slots[j].key = cache.slots[i].key => i = j
    /\ \A k \in Keys \ (dropped \cup missed \cup {direct}) : Visible(k) = latest[k]

\* A page written through the cache is on its device in the end, or was given up:
\* the timer's request and the re-armed budget reach every dirty page.
DirtyReachesDisk ==
    \A k \in Keys : disk[k] # latest[k] ~> (disk[k] = latest[k] \/ k \in dropped \cup missed)

\* A reader gets the last accepted write of a page, however long the cache has
\* been in use. Refuted: once every entry of the table has been used, insert
\* fails even where a tombstone is free, so a page lives in slots no lookup
\* finds, and an older copy is read back or written over a newer one.
AlwaysCoherent == \A k \in Keys \ (dropped \cup {direct}) : Visible(k) = latest[k]
=============================================================================
