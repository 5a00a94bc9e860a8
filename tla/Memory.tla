------------------------------- MODULE Memory -------------------------------
(***************************************************************************)
(* Physical and process memory: the buddy allocator of frames              *)
(* (memory/buddy.rs), the per-CPU slab caches on top of it                 *)
(* (memory/slab.rs, arch/x64/cpu_local.rs), and the process heaps: slots,   *)
(* brk, demand paging, process exit and the TLB shootdown between CPUs      *)
(* (arch/x64/paging.rs, arch/x64/ipi.rs, syscall/handlers.rs).              *)
(*                                                                          *)
(* `load' picks what a behaviour exercises: "buddy" allocates and frees     *)
(* blocks of any order, "slab" allocates and frees objects on two CPUs,     *)
(* "heap" runs processes on two CPUs over one page table.  Addresses are    *)
(* page numbers; a break counts half pages, so that an unaligned one        *)
(* exists.  Frame v is the one the identity map of the boot page tables     *)
(* gives virtual page v.                                                    *)
(***************************************************************************)
EXTENDS Integers, FiniteSets, Sequences, SequencesExt

CONSTANTS Workloads,      \* the loads of this model
          Frames,         \* number of physical frames
          MAX_ORDER,      \* the largest block holds 2^MAX_ORDER frames
          MAX_FREE_SLOTS, \* free blocks remembered per order
          PerPage,        \* objects in a slab page
          BATCH_SIZE,     \* objects moved at once, and room of a CPU's cache
          MaxOwned,       \* objects the callers hold at most
          Cpus, Procs,    \* CPUs and process identifiers
          SlotPages,      \* pages of a heap slot
          MAX_HEAP_SLOTS, \* heap slots
          HeapFrames,     \* frames free for heap pages; none is an identity frame
          MaxOps          \* operations of a behaviour

VARIABLES load,
          bud,   \* the buddy allocator: slots of every order, free_pages
          held,  \* blocks <<first frame, order>> handed out
          slab,  \* pages, the CPUs' caches and the owned objects
          pt,    \* page table: virtual page -> its entry
          tlb,   \* what each CPU has cached: set of <<page, frame>>
          proc,  \* processes: heap slot and break
          cpu,   \* what each CPU is in the middle of
          shoot, \* TLB_SHOOTDOWN, and the CPUs its interrupt is pending on
          hist   \* ops so far, and what happened that the code does not guard

vars == <<load, bud, held, slab, pt, tlb, proc, cpu, shoot, hist>>

Unused == -1      \* an entry cleared by set_unused
Orders == 0..MAX_ORDER
Noted(flags) == [hist EXCEPT !.ops = @ + 1, !.flags = @ \union flags]
More == hist.ops < (IF load = "heap" THEN MaxOps ELSE 2 * MaxOps)

-----------------------------------------------------------------------------
(* The buddy allocator *)

buddy_of(frame, order) ==
    IF (frame \div 2^order) % 2 = 0 THEN frame + 2^order ELSE frame - 2^order

\* A full list drops the block: nobody can allocate it again.
push_slot(b, order, frame) ==
    IF Len(b.slots[order]) < MAX_FREE_SLOTS
    THEN [b EXCEPT !.slots[order] = Append(@, frame)]
    ELSE [b EXCEPT !.dropped = @ \union (frame..(frame + 2^order - 1))]

pop_slot(b, order) == [b EXCEPT !.slots[order] = Front(@)]

KeepsBuddy(b, order, i) == b

remove_slot_at(b, order, i) ==
    [b EXCEPT !.slots[order] = Front(ReplaceAt(@, i, Last(@)))]

\* The largest aligned block that starts a run of n frames at `first'.
RunOrder(first, n) == Max({o \in Orders : first % 2^o = 0 /\ 2^o <= n})

\* The split of a run into aligned blocks, in order.
free_add_run(b, first, n) ==
    LET step(r, i) ==
          IF r.n = 0 THEN r
          ELSE LET o == RunOrder(r.at, r.n)
               IN  [b |-> push_slot(r.b, o, r.at), at |-> r.at + 2^o, n |-> r.n - 2^o]
    IN  FoldLeft(step, [b |-> b, at |-> first, n |-> n], [i \in 1..Frames |-> i]).b

CanAlloc(b, order) == \E o \in order..MAX_ORDER : b.slots[o] # <<>>

\* Result: the block's first frame and the allocator afterwards.
alloc_frames(b, order) ==
    LET o     == Min({x \in order..MAX_ORDER : b.slots[x] # <<>>})
        frame == Last(b.slots[o])
        rest  == free_add_run(pop_slot(b, o), frame + 2^order, 2^o - 2^order)
    IN  [frame |-> frame, b |-> [rest EXCEPT !.free = @ - 2^order]]

free_frames(b, frame, order) ==
    LET Idx(x, f, o) == {i \in DOMAIN x.slots[o] : x.slots[o][i] = f}
        step(r, i) ==
          LET mate == buddy_of(r.f, r.o)
          IN  IF r.done \/ r.o >= MAX_ORDER \/ Idx(r.b, mate, r.o) = {}
              THEN [r EXCEPT !.done = TRUE]
              ELSE [b |-> remove_slot_at(r.b, r.o, Min(Idx(r.b, mate, r.o))),
                    f |-> Min({r.f, mate}), o |-> r.o + 1, done |-> FALSE]
        m == FoldLeft(step, [b |-> b, f |-> frame, o |-> order, done |-> FALSE],
                      [i \in 1..MAX_ORDER |-> i])
    IN  [push_slot(m.b, m.o, m.f) EXCEPT !.free = @ + 2^order]

\* The runs of usable frames, lowest first.
Runs(usable) ==
    SetToSortSeq({r \in usable \X usable :
                    /\ r[1] <= r[2] /\ (r[1]..r[2]) \subseteq usable
                    /\ r[1] - 1 \notin usable /\ r[2] + 1 \notin usable},
                 LAMBDA x, y : x[1] < y[1])

EmptyBuddy == [slots |-> [o \in Orders |-> <<>>], free |-> 0, dropped |-> {},
               marked |-> {}, total |-> 0]

\* memory::init has cut the regions; `usable' is what is left of them.
init_from_regions(usable) ==
    FoldLeft(LAMBDA b, r : free_add_run(b, r[1], r[2] - r[1] + 1),
             [EmptyBuddy EXCEPT !.free = Cardinality(usable),
                                !.total = Cardinality(usable)],
             Runs(usable))

\* Only the bitmap and the count change: the frames stay in the free lists.
mark_used_region(b, first, last, usable) ==
    LET new == {f \in first..(Min({last, b.total}) - 1) : f \in usable}
    IN  [b EXCEPT !.marked = @ \union new, !.free = @ - Cardinality(new)]

AllocBlock ==
    /\ load = "buddy" /\ More
    /\ \E o \in Orders :
         /\ CanAlloc(bud, o)
         /\ \E r \in {alloc_frames(bud, o)} :
              /\ bud' = r.b
              /\ held' = held \union {<<r.frame, o>>}
    /\ hist' = Noted({})
    /\ UNCHANGED <<load, slab, pt, tlb, proc, cpu, shoot>>

FreeBlock ==
    /\ load = "buddy" /\ More
    /\ \E k \in held :
         /\ \E b \in {free_frames(bud, k[1], k[2])} : bud' = b
         /\ held' = held \ {k}
    /\ hist' = Noted({})
    /\ UNCHANGED <<load, slab, pt, tlb, proc, cpu, shoot>>

-----------------------------------------------------------------------------
(* Slab caches: one size class.  An object is <<page frame, slot>>. *)

SlabPageInit(f) == [frame |-> f, free |-> [i \in 1..PerPage |-> i - 1]]

\* SlabCache::alloc: the first page of the list with a free slot, or a new
\* page at its head.  Result: objects taken so far and the pages.
TakeObject(s) ==
    LET ok == {i \in DOMAIN s.pages : s.pages[i].free # <<>>}
        i  == Min(ok)
    IN  IF ok # {}
        THEN [s EXCEPT !.got = Append(@, <<s.pages[i].frame, Head(s.pages[i].free)>>),
                       !.pages[i].free = Tail(@)]
        ELSE IF CanAlloc(s.b, 0)
        THEN LET r == alloc_frames(s.b, 0)
                 p == SlabPageInit(r.frame)
             IN  [s EXCEPT !.b = r.b, !.got = Append(@, <<r.frame, Head(p.free)>>),
                           !.pages = <<[p EXCEPT !.free = Tail(@)]>> \o @]
        ELSE s

\* SlabCache::free: a slot that is already in the page's list is left alone.
GiveObject(pages, o) ==
    [i \in DOMAIN pages |->
        IF pages[i].frame = o[1] /\ o[2] \notin Range(pages[i].free)
        THEN [pages[i] EXCEPT !.free = <<o[2]>> \o @]
        ELSE pages[i]]

refill_batch(b, pages) ==
    FoldLeft(LAMBDA s, i : TakeObject(s), [b |-> b, pages |-> pages, got |-> <<>>],
             [i \in 1..BATCH_SIZE |-> i])

KeepsLast(c) == [slab EXCEPT !.pages = FoldLeft(GiveObject, @, Reverse(slab.hot[c])),
                             !.hot[c] = SubSeq(@, 1, 1)]

drain_to_global(c) == [slab EXCEPT !.pages = FoldLeft(GiveObject, @, Reverse(slab.hot[c])),
                                   !.hot[c] = <<>>]

\* A CPU works on the shared lists while it holds the lock of `inner'.
Flux(c) == \E d \in Cpus \ {c} : slab.st[d] \in {"refill", "drain"}
InnerFree == \A d \in Cpus : slab.st[d] \notin {"refill", "drain"}

AllocHot(c) ==
    /\ load = "slab" /\ More /\ slab.st[c] = "idle" /\ Cardinality(slab.owned) < MaxOwned
    /\ slab.hot[c] # <<>>
    /\ slab' = [slab EXCEPT !.owned = @ \union {Last(slab.hot[c])}, !.hot[c] = Front(@)]
    /\ hist' = Noted({})
    /\ UNCHANGED <<load, bud, held, pt, tlb, proc, cpu, shoot>>

\* The cache is empty: alloc_inner takes the lock of the shared lists.
RefillLock(c) ==
    /\ load = "slab" /\ More /\ slab.st[c] = "idle" /\ Cardinality(slab.owned) < MaxOwned
    /\ slab.hot[c] = <<>> /\ InnerFree
    /\ slab' = [slab EXCEPT !.st[c] = "refill"]
    /\ hist' = Noted({})
    /\ UNCHANGED <<load, bud, held, pt, tlb, proc, cpu, shoot>>

\* refill_from_global; without a single object the fallback heap serves.
refill_from_global(c) ==
    /\ slab.st[c] = "refill"
    /\ \E s \in {refill_batch(bud, slab.pages)} :
         /\ bud' = s.b
         /\ slab' = [slab EXCEPT !.pages = s.pages, !.st[c] = "idle",
                        !.hot[c] = IF s.got = <<>> THEN @ ELSE Front(s.got),
                        !.owned = IF s.got = <<>> THEN @ ELSE @ \union {Last(s.got)}]
    /\ UNCHANGED <<load, held, pt, tlb, proc, cpu, shoot, hist>>

\* audit_free walks the page's free list without the lock.  While another
\* CPU is changing the lists, the walk may read anything and refuse a free
\* that is right; the object is then never used again.
AuditOutcomes(c) == {"ok"} \union (IF Flux(c) THEN {"bad"} ELSE {})

FreeObject(c) ==
    /\ load = "slab" /\ More /\ slab.st[c] = "idle"
    /\ \E o \in slab.owned, audit \in AuditOutcomes(c) :
         slab' = IF audit = "bad"
                 THEN [slab EXCEPT !.owned = @ \ {o}, !.lost = @ \union {o}]
                 ELSE IF Len(slab.hot[c]) < BATCH_SIZE
                 THEN [slab EXCEPT !.owned = @ \ {o}, !.hot[c] = Append(@, o)]
                 ELSE [slab EXCEPT !.owned = @ \ {o}, !.st[c] = "full", !.obj[c] = <<o>>]
    /\ hist' = Noted({})
    /\ UNCHANGED <<load, bud, held, pt, tlb, proc, cpu, shoot>>

DrainLock(c) ==
    /\ slab.st[c] = "full" /\ InnerFree
    /\ slab' = [slab EXCEPT !.st[c] = "drain"]
    /\ UNCHANGED <<load, bud, held, pt, tlb, proc, cpu, shoot, hist>>

Drain(c) ==
    /\ slab.st[c] = "drain"
    /\ \E s \in {drain_to_global(c)} :
         slab' = [s EXCEPT !.hot[c] = @ \o slab.obj[c], !.obj[c] = <<>>, !.st[c] = "idle"]
    /\ UNCHANGED <<load, bud, held, pt, tlb, proc, cpu, shoot, hist>>

-----------------------------------------------------------------------------
(* Process heaps *)

VPages == 0..(MAX_HEAP_SLOTS * SlotPages - 1)
Base(slot) == slot * SlotPages
SlotOf(v) == v \div SlotPages
NoSlot == -1
Idle == [st |-> "idle", p |-> 0, cur |-> 0, new |-> 0, v |-> 0, f |-> 0]

\* Pages a CPU has unmapped and whose shootdown is still going on.
InProgress == UNION {shoot.wait[c] : c \in Cpus}

AnySlot == 0..(MAX_HEAP_SLOTS - 1)

\* claim_first_free: the compare-exchange makes the claim atomic.
FreeSlots == {i \in 0..(MAX_HEAP_SLOTS - 1) : \A p \in Procs : proc[p].slot # i}

claim_first_free == IF FreeSlots = {} THEN NoSlot ELSE Min(FreeSlots)

\* spawn_usermode: the slot is claimed first; a process without one still
\* starts.  Without memory for the stack or the tables it is given back.
Spawn(c, p) ==
    /\ load = "heap" /\ More /\ cpu[c].st = "idle"
    /\ p = Min({q \in Procs : proc[q].st = "none"} \union {Max(Procs)}) /\ proc[p].st = "none"
    /\ proc' = [proc EXCEPT ![p] = [st |-> "starting", slot |-> claim_first_free, brk |-> 0]]
    /\ hist' = Noted({})
    /\ UNCHANGED <<load, bud, held, slab, pt, tlb, cpu, shoot>>

add_ring3_process_with_stack(p) ==
    /\ proc[p].st = "starting"
    /\ proc' \in {[proc EXCEPT ![p].st = "live"],
                  [proc EXCEPT ![p] = [st |-> "none", slot |-> NoSlot, brk |-> 0]]}
    /\ UNCHANGED <<load, bud, held, slab, pt, tlb, cpu, shoot, hist>>

\* map_page: the entry is overwritten; only this CPU's TLB is flushed.
map_page(c, v, f) ==
    /\ pt' = [pt EXCEPT ![v] = f]
    /\ tlb' = [tlb EXCEPT ![c] = {e \in @ : e[1] # v} \union {<<v, f>>}]

\* A user access: through the table, or a page fault.
Touch(c, p, v) ==
    /\ load = "heap" /\ More /\ cpu[c].st = "idle" /\ proc[p].st = "live"
    /\ proc[p].slot # NoSlot /\ SlotOf(v) = proc[p].slot
    /\ IF \E e \in tlb[c] : e[1] = v
       THEN FALSE
       ELSE IF pt[v] # Unused
       THEN tlb' = [tlb EXCEPT ![c] = @ \union {<<v, pt[v]>>}] /\ cpu' = cpu
       ELSE cpu' = [cpu EXCEPT ![c] = [Idle EXCEPT !.st = "fault", !.p = p, !.v = v]] /\ tlb' = tlb
    /\ hist' = Noted({})
    /\ UNCHANGED <<load, bud, held, slab, pt, proc, shoot>>

\* The mapping replaces one that another CPU may still have cached.
Remapped(c, v) ==
    IF \E d \in Cpus \ {c} : \E e \in tlb[d] : e[1] = v THEN {"remap"} ELSE {}
\* The frame of a page that another thread has mapped since: nobody frees it.
Replaced(v) == IF pt[v] \in {Unused, v} THEN {} ELSE {pt[v]}

\* The handler neither looks at the break nor at the entry it replaces.
handle_heap_page_fault(c) ==
    /\ cpu[c].st = "fault"
    /\ IF CanAlloc(bud, 0)
       THEN \E r \in {alloc_frames(bud, 0)} :
              /\ bud' = r.b
              /\ map_page(c, cpu[c].v, r.frame)
              /\ hist' = [hist EXCEPT !.flags = @ \union Remapped(c, cpu[c].v),
                                    !.leaked = @ \union Replaced(cpu[c].v)]
       ELSE UNCHANGED <<bud, pt, tlb, hist>>     \* the thread is terminated
    /\ cpu' = [cpu EXCEPT ![c] = Idle]
    /\ UNCHANGED <<load, held, slab, proc, shoot>>

\* handler_brk reads the break under the scheduler lock and sets it at the end.
BrkEnter(c, p, new) ==
    /\ load = "heap" /\ More /\ cpu[c].st = "idle" /\ proc[p].st = "live"
    /\ proc[p].slot # NoSlot /\ new \in 0..(2 * SlotPages) /\ new # proc[p].brk
    /\ cpu' = [cpu EXCEPT ![c] =
                 [Idle EXCEPT !.p = p, !.cur = proc[p].brk, !.new = new,
                    !.st = IF new > proc[p].brk THEN "grow" ELSE "shrink",
                    !.v = Base(proc[p].slot) + (Min({new, proc[p].brk}) + 1) \div 2]]
    /\ hist' = Noted({})
    /\ UNCHANGED <<load, bud, held, slab, pt, tlb, proc, shoot>>

EndPage(c) ==
    Base(proc[cpu[c].p].slot) + (IF cpu[c].st = "grow" THEN cpu[c].new ELSE cpu[c].cur) \div 2

\* A page of the growth: heap_alloc_page, which maps over what is there.
GrowPage(c) ==
    /\ cpu[c].st = "grow" /\ cpu[c].v < EndPage(c) /\ CanAlloc(bud, 0)
    /\ \E r \in {alloc_frames(bud, 0)} :
         /\ bud' = r.b
         /\ map_page(c, cpu[c].v, r.frame)
    /\ cpu' = [cpu EXCEPT ![c].v = @ + 1]
    /\ hist' = [hist EXCEPT !.flags = @ \union Remapped(c, cpu[c].v),
                         !.leaked = @ \union Replaced(cpu[c].v)]
    /\ UNCHANGED <<load, held, slab, proc, shoot>>

\* The new part is zeroed by the kernel, which a page that is not mapped
\* stops with a panic: the fault handler serves user accesses only.
Zeroed(c) ==
    {Base(proc[cpu[c].p].slot) + h \div 2 : h \in cpu[c].cur..(cpu[c].new - 1)}

GrowEnd(c) ==
    /\ cpu[c].st = "grow" /\ cpu[c].v >= EndPage(c)
    /\ \A v \in Zeroed(c) : pt[v] # Unused
    /\ proc' = [proc EXCEPT ![cpu[c].p].brk = cpu[c].new]
    /\ tlb' = [tlb EXCEPT ![c] = @ \union {<<v, pt[v]>> : v \in {w \in Zeroed(c) : \A e \in tlb[c] : e[1] # w}}]
    /\ cpu' = [cpu EXCEPT ![c] = Idle]
    /\ hist' = IF \E v \in Zeroed(c) : pt[v] = v THEN [hist EXCEPT !.flags = @ \union {"identity"}] ELSE hist
    /\ UNCHANGED <<load, bud, held, slab, pt, shoot>>

GrowPanics(c) ==
    /\ cpu[c].st = "grow" /\ cpu[c].v >= EndPage(c)
    /\ \E v \in Zeroed(c) : pt[v] = Unused
    /\ hist' = [hist EXCEPT !.flags = @ \union {"panic"}, !.ops = MaxOps]
    /\ cpu' = [d \in Cpus |-> [Idle EXCEPT !.st = "halted"]]
    /\ shoot' = [shoot EXCEPT !.ipi = {}, !.wait = [d \in Cpus |-> {}]]
    /\ UNCHANGED <<load, bud, held, slab, pt, tlb, proc>>

\* Every page of a range whose frame is not its identity frame.
Demand(first, end) == {v \in first..(end - 1) : pt[v] \notin {Unused, v}}

FreeAll(b, vs) ==
    FoldLeft(LAMBDA x, v : free_frames(x, pt[v], 0), b, SetToSortSeq(vs, LAMBDA v, w : v < w))

\* tlb_shootdown: one payload for the whole system, set without a lock; the
\* CPU's own TLB is flushed.  A CPU still waiting loses its payload.
tlb_shootdown(c, vs) ==
    /\ shoot' = [pages |-> vs, acks |-> 0, ipi |-> shoot.ipi \union (Cpus \ {c}),
                 wait |-> [shoot.wait EXCEPT ![c] = vs]]
    /\ tlb' = [tlb EXCEPT ![c] = {e \in @ : e[1] \notin vs}]

Overlap(c) == IF \E d \in Cpus \ {c} : shoot.wait[d] # {} THEN {"overlap"} ELSE {}

\* heap_free_range: the frames are freed, then one shootdown for all.
heap_free_range(c, first, end, after) ==
    LET vs == Demand(first, end)
    IN  /\ bud' = FreeAll(bud, vs)
        /\ pt' = [v \in VPages |-> IF v \in vs THEN Unused ELSE pt[v]]
        /\ IF vs = {}
           THEN UNCHANGED <<shoot, tlb>> /\ hist' = Noted({})
           ELSE tlb_shootdown(c, vs) /\ hist' = Noted(Overlap(c))
        /\ cpu' = [cpu EXCEPT ![c].st = after]

\* No frame is left: the pages of this call are freed again.
GrowFails(c) ==
    /\ cpu[c].st = "grow" /\ cpu[c].v < EndPage(c) /\ ~CanAlloc(bud, 0)
    /\ \A d \in Cpus : cpu[d].st \notin {"freeing", "undo"}
    /\ heap_free_range(c, Base(proc[cpu[c].p].slot) + (cpu[c].cur + 1) \div 2, cpu[c].v, "undo")
    /\ UNCHANGED <<load, held, slab, proc>>

\* The wait for the acknowledgements is over, or has been given up.
Waited(c) == shoot.wait[c] = {} \/ shoot.acks >= Cardinality(Cpus) - 1

FreesAtOnce(c) == cpu[c].st = "freeing"

Acknowledged(c) == cpu[c].st = "freeing" /\ Waited(c)

EndWait(c) == shoot' = [shoot EXCEPT !.wait[c] = {}]

GrowUndone(c) ==
    /\ cpu[c].st = "undo" /\ Waited(c) /\ EndWait(c)
    /\ proc' = [proc EXCEPT ![cpu[c].p].brk = cpu[c].cur]
    /\ cpu' = [cpu EXCEPT ![c] = Idle]
    /\ UNCHANGED <<load, bud, held, slab, pt, tlb, hist>>

\* heap_free_page, first half: the entry is read and cleared, the other CPUs
\* are told.  USER_MEMORY_LOCK is held from here to the end of the shrink.
ShrinkPage(c) ==
    /\ cpu[c].st = "shrink" /\ cpu[c].v < EndPage(c)
    /\ \A d \in Cpus : cpu[d].st \notin {"freeing", "undo"}
    /\ pt' = [pt EXCEPT ![cpu[c].v] = Unused]
    /\ tlb_shootdown(c, {cpu[c].v})
    /\ cpu' = [cpu EXCEPT ![c].st = "freeing", ![c].f = pt[cpu[c].v]]
    /\ hist' = [hist EXCEPT !.flags = @ \union Overlap(c) \union
                  (IF pt[cpu[c].v] \in {Unused, cpu[c].v} THEN {"stray"} ELSE {})]
    /\ UNCHANGED <<load, bud, held, slab, proc>>

\* Second half: the frame is freed; an entry that was never allocated gives
\* its identity frame, a cleared one frame 0.
heap_free_page(c) ==
    /\ Acknowledged(c) /\ EndWait(c)
    /\ bud' = free_frames(bud, IF cpu[c].f = Unused THEN 0 ELSE cpu[c].f, 0)
    /\ cpu' = [cpu EXCEPT ![c].st = "shrink", ![c].v = @ + 1]
    /\ UNCHANGED <<load, held, slab, pt, tlb, proc, hist>>

ShrinkEnd(c) ==
    /\ cpu[c].st = "shrink" /\ cpu[c].v >= EndPage(c)
    /\ proc' = [proc EXCEPT ![cpu[c].p].brk = cpu[c].new]
    /\ cpu' = [cpu EXCEPT ![c] = Idle]
    /\ UNCHANGED <<load, bud, held, slab, pt, tlb, shoot, hist>>

\* The last thread of a process ends: nobody else runs in it.
Exit(c, p) ==
    /\ load = "heap" /\ More /\ cpu[c].st = "idle" /\ proc[p].st = "live"
    /\ \A d \in Cpus : cpu[d].st = "idle" \/ cpu[d].p # p
    /\ IF proc[p].slot = NoSlot
       THEN /\ proc' = [proc EXCEPT ![p].st = "none"]
            /\ hist' = Noted({})
            /\ UNCHANGED <<bud, pt, tlb, cpu, shoot>>
       ELSE /\ heap_free_range(c, Base(proc[p].slot), Base(proc[p].slot + 1), "exit")
            /\ proc' = [proc EXCEPT ![p].st = "ending"]
    /\ UNCHANGED <<load, held, slab>>

free_heap_slot(c) ==
    /\ cpu[c].st = "exit" /\ Waited(c) /\ EndWait(c)
    /\ \E p \in Procs : /\ proc[p].st = "ending"
                        /\ proc' = [proc EXCEPT ![p] = [st |-> "none", slot |-> NoSlot, brk |-> 0]]
    /\ cpu' = [cpu EXCEPT ![c] = Idle]
    /\ UNCHANGED <<load, bud, held, slab, pt, tlb, hist>>

ipi_tlb_shootdown_handler_impl(c) ==
    /\ c \in shoot.ipi
    /\ tlb' = [tlb EXCEPT ![c] = {e \in @ : e[1] \notin shoot.pages}]
    /\ shoot' = [shoot EXCEPT !.ipi = @ \ {c}, !.acks = @ + 1]
    /\ UNCHANGED <<load, bud, held, slab, pt, proc, cpu, hist>>

\* MAX_ATTEMPTS polls without the acknowledgements: every caller goes on.
ShootdownTimeout(c) ==
    /\ shoot.wait[c] # {} /\ shoot.acks < Cardinality(Cpus) - 1
    /\ shoot' = [shoot EXCEPT !.wait[c] = {}]
    /\ hist' = [hist EXCEPT !.flags = @ \union {"timeout"}]
    /\ UNCHANGED <<load, bud, held, slab, pt, tlb, proc, cpu>>

-----------------------------------------------------------------------------
Init ==
    /\ load \in Workloads
    /\ \E usable \in IF load = "heap" THEN {HeapFrames}
                     ELSE {0..(Frames - 1), (0..(Frames - 1)) \ {3}} :
       \E kept \in IF load = "buddy" THEN {0, 2} ELSE {0} :
         bud = mark_used_region(init_from_regions(usable), 0, kept, usable)
    /\ held = {}
    /\ slab = [pages |-> <<>>, hot |-> [c \in Cpus |-> <<>>], owned |-> {}, lost |-> {},
               st |-> [c \in Cpus |-> "idle"], obj |-> [c \in Cpus |-> <<>>]]
    /\ pt = [v \in VPages |-> v]
    /\ tlb = [c \in Cpus |-> {}]
    /\ proc = [p \in Procs |-> [st |-> "none", slot |-> NoSlot, brk |-> 0]]
    /\ cpu = [c \in Cpus |-> Idle]
    /\ shoot = [pages |-> {}, acks |-> 0, ipi |-> {}, wait |-> [c \in Cpus |-> {}]]
    /\ hist = [ops |-> 0, flags |-> {}, leaked |-> {}]

Next ==
    \/ AllocBlock \/ FreeBlock
    \/ \E p \in Procs : add_ring3_process_with_stack(p)
    \/ \E c \in Cpus :
         \/ AllocHot(c) \/ RefillLock(c) \/ refill_from_global(c)
         \/ FreeObject(c) \/ DrainLock(c) \/ Drain(c)
         \/ \E p \in Procs : \/ Spawn(c, p) \/ Exit(c, p)
                             \/ \E v \in VPages : Touch(c, p, v)
                             \/ \E n \in 0..(2 * SlotPages) : BrkEnter(c, p, n)
         \/ handle_heap_page_fault(c) \/ GrowPage(c) \/ GrowEnd(c) \/ GrowPanics(c)
         \/ GrowFails(c) \/ GrowUndone(c) \/ ShrinkPage(c) \/ heap_free_page(c)
         \/ ShrinkEnd(c) \/ free_heap_slot(c)
         \/ ipi_tlb_shootdown_handler_impl(c) \/ ShootdownTimeout(c)

Spec == Init /\ [][Next]_vars

-----------------------------------------------------------------------------
Block(k) == k[1]..(k[1] + 2^k[2] - 1)
FreeBlocks == UNION {{<<bud.slots[o][i], o>> : i \in DOMAIN bud.slots[o]} : o \in Orders}
FreeListLen == FoldLeft(LAMBDA n, o : n + Len(bud.slots[o]), 0, [i \in 1..(MAX_ORDER + 1) |-> i - 1])
FreeFrames == UNION {Block(k) : k \in FreeBlocks}

\* The blocks in the free lists and those handed out are aligned, disjoint,
\* and with the dropped ones make up all frames the boot map offers;
\* free_pages counts the free ones less those reserve_range took away.
BlocksSound ==
    /\ \A k \in FreeBlocks \union held : k[1] % 2^k[2] = 0
    /\ FreeListLen = Cardinality(FreeBlocks) /\ FreeBlocks \intersect held = {}
    /\ \A j, k \in FreeBlocks \union held : j # k => Block(j) \intersect Block(k) = {}
    /\ Cardinality(FreeFrames) + Cardinality(UNION {Block(k) : k \in held})
         + Cardinality(bud.dropped) = bud.total
    /\ bud.free + Cardinality(bud.marked) = Cardinality(FreeFrames) + Cardinality(bud.dropped)

\* Every slab object is in one place: with its owner, in one CPU's cache, in
\* its page's free list once, or lost to an audit that raced another CPU.
SlabObjects == UNION {{<<slab.pages[i].frame, s>> : s \in 0..(PerPage - 1)} : i \in DOMAIN slab.pages}
SlabPlaces(o) ==
    Cardinality({<<c, i>> \in Cpus \X (1..BATCH_SIZE) : i <= Len(slab.hot[c]) /\ slab.hot[c][i] = o})
  + Cardinality({i \in DOMAIN slab.pages : slab.pages[i].frame = o[1] /\ o[2] \in Range(slab.pages[i].free)})
  + Cardinality({c \in Cpus : slab.obj[c] = <<o>>})
  + (IF o \in slab.owned THEN 1 ELSE 0) + (IF o \in slab.lost THEN 1 ELSE 0)
SlabSound == /\ \A o \in SlabObjects : SlabPlaces(o) = 1
             /\ \A i \in DOMAIN slab.pages : slab.pages[i].frame \notin FreeFrames

\* A frame of a heap page is mapped once and in no free list, and two
\* processes never have the same slot.  Stated up to a panic, and up to
\* the first shrink over a page that was never allocated ("stray"), which frees
\* a frame it does not own.
InFlight == {cpu[c].f : c \in {d \in Cpus : cpu[d].st = "freeing"}}
HeapsSound ==
    /\ {"stray", "panic"} \intersect hist.flags = {} =>
         /\ \A v \in VPages : pt[v] \notin {Unused, v} =>
              /\ pt[v] \notin FreeFrames /\ pt[v] \notin InFlight
              /\ \A w \in VPages \ {v} : pt[w] = pt[v] => w = pt[w]
         /\ InFlight \intersect FreeFrames = {}
         /\ FreeListLen = Cardinality(FreeBlocks)
         /\ Cardinality(FreeFrames) + Cardinality({v \in VPages : pt[v] \notin {Unused, v}})
              + Cardinality(InFlight) + Cardinality(hist.leaked) = bud.total
    /\ \A p, q \in Procs : (p # q /\ proc[p].slot # NoSlot) => proc[p].slot # proc[q].slot

\* No CPU keeps a translation the page table no longer has, once the call that
\* removed it has returned.  Stated up to the first timeout, the first two
\* shootdowns at once, and the first page mapped over by two CPUs.
TlbsClean ==
    {"timeout", "overlap", "remap", "panic"} \intersect hist.flags = {} =>
      \A c \in Cpus : \A e \in tlb[c] : pt[e[1]] = e[2] \/ e[1] \in InProgress

\* Frames, slab objects, heap pages and translations belong to one holder at
\* a time, whatever the order of allocations, frees, faults and exits on the
\* CPUs (buddy.rs, slab.rs, paging.rs).
FramesOwnedOnce ==
    /\ load = "buddy" => BlocksSound
    /\ load = "slab" => SlabSound
    /\ load = "heap" => HeapsSound /\ TlbsClean
=============================================================================
