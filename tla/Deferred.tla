------------------------------ MODULE Deferred ------------------------------
(***************************************************************************)
(* Deferred work: the per-CPU DPC queue (dpc/mod.rs), the work queue        *)
(* (infra/work_queue.rs) and the event bus (eventbus/mod.rs), which are the *)
(* same lock-free ring, the IRP pool (irp/mod.rs) and the APC queues        *)
(* (apc/mod.rs).                                                            *)
(*                                                                          *)
(* A ring operation is two steps, the loads and the stores, because the     *)
(* rings have no lock; what runs under the scheduler lock, under the pool   *)
(* lock or on one CPU with interrupts off is one step.                      *)
(***************************************************************************)
EXTENDS Integers, Sequences, FiniteSets

CONSTANTS CAPACITY,         \* slots of a ring
          DPC_QUEUE_SIZE, MAX_USER_APC, IRP_POOL_SIZE,
          MaxItems,         \* items the interrupt handlers produce
          MaxIrps,          \* IRPs allocated
          DeferLoads        \* workloads: subsets of {"rings", "ap", "irp"}

\* A ring keeps one slot free, so it needs two to hold anything.
DeferAssumption ==
    CAPACITY \in Nat \ {0, 1} /\ IRP_POOL_SIZE \in Nat \ {0} /\ MaxItems \in Nat /\ MaxIrps \in Nat

VARIABLES ring, held, accepted, taken, produced,
          pool, next_irp, dpcq, uq, kq, thr, ran, dropped, deferLoad

deferVars == <<ring, held, accepted, taken, produced,
               pool, next_irp, dpcq, uq, kq, thr, ran, dropped, deferLoad>>
ringVars == <<ring, held, accepted, taken, produced>>
irpVars == <<pool, next_irp, dpcq, uq, kq, thr, ran, dropped>>

None == -1
Rings == {"high", "bus"}
BSP == 0
AP == 1
\* The contexts that use a ring: the interrupt handlers of the BSP, the drain
\* loop of the BSP and that of an application processor.
Contexts == {"irq", "bsp", "ap"}
Idle == [op |-> "idle", r |-> "high", h |-> 0, t |-> 0, item |-> 0]

-----------------------------------------------------------------------------
(* The rings.                                                               *)

\* Mutant: the entry is written and the new tail is computed, but a full ring
\* is not refused.
PushUnchecked(ctx, r, item) ==
    /\ held' = [held EXCEPT ![ctx] = [op |-> "push", r |-> r, h |-> ring[r].head,
                                      t |-> ring[r].tail, item |-> item]]
    /\ accepted' = [accepted EXCEPT ![r] = Append(@, item)]

\* push: the loads and the full test; a full ring refuses the item.
push(ctx, r, item) ==
    LET q == ring[r] IN
    IF (q.tail + 1) % CAPACITY = q.head
    THEN UNCHANGED <<held, accepted>>
    ELSE /\ held' = [held EXCEPT ![ctx] = [op |-> "push", r |-> r, h |-> q.head,
                                           t |-> q.tail, item |-> item]]
         /\ accepted' = [accepted EXCEPT ![r] = Append(@, item)]

\* push, the stores: the entry, then the tail.
PushStore(ctx) ==
    /\ held[ctx].op = "push"
    /\ ring' = [ring EXCEPT ![held[ctx].r] =
            [@ EXCEPT !.slots[held[ctx].t] = held[ctx].item,
                      !.tail = (held[ctx].t + 1) % CAPACITY]]
    /\ held' = [held EXCEPT ![ctx] = Idle]
    /\ UNCHANGED <<accepted, taken, produced>>

\* pop: the loads and the copy of the entry.
pop(ctx, r) ==
    LET q == ring[r] IN
    /\ held[ctx].op = "idle"
    /\ q.head # q.tail
    /\ held' = [held EXCEPT ![ctx] = [op |-> "pop", r |-> r, h |-> q.head,
                                      t |-> q.tail, item |-> q.slots[q.head]]]
    /\ UNCHANGED <<ring, accepted, taken, produced>>

\* pop, the store of the head; the caller then runs the entry (process_high)
\* or hands it to the handlers (dispatch_one_event).
PopStore(ctx) ==
    /\ held[ctx].op = "pop"
    /\ ring' = [ring EXCEPT ![held[ctx].r].head = (held[ctx].h + 1) % CAPACITY]
    /\ taken' = [taken EXCEPT ![held[ctx].r] = Append(@, held[ctx].item)]
    /\ held' = [held EXCEPT ![ctx] = Idle]
    /\ UNCHANGED <<accepted, produced>>

\* The keyboard handler of the BSP pushes the deferred work of Ctrl+C and the
\* timer handler its tick event.
Interrupt(r) ==
    /\ held["irq"].op = "idle"
    /\ produced < MaxItems
    /\ produced' = produced + 1
    /\ push("irq", r, produced + 1)
    /\ UNCHANGED <<ring, taken>>

\* idle_task drains on the BSP only; process_high runs with interrupts off,
\* dispatch_pending does not.
idle_task(r) ==
    /\ r = "high" => held["irq"].op = "idle"
    /\ pop("bsp", r)

\* The syscall return path drains on whatever CPU the thread runs.
clear_need_resched(r) == "ap" \in deferLoad /\ pop("ap", r)

MayStore(ctx) == ctx = "irq" => ~(held["bsp"].op = "pop" /\ held["bsp"].r = "high")

-----------------------------------------------------------------------------
(* IRPs, DPCs and APCs.                                                     *)

Slot(id) == id % IRP_POOL_SIZE
Live(id) == pool[Slot(id)].in_use /\ pool[Slot(id)].id = id
FreeSlot == [in_use |-> FALSE, id |-> 0, st |-> "Pending", cb |-> FALSE]

\* The pool's free clears the slot of the id, whoever holds it.
Freed(p, id) == [p EXCEPT ![Slot(id)].in_use = FALSE]

\* An id is taken even when its slot is still in use.
irp_alloc ==
    /\ next_irp <= MaxIrps
    /\ next_irp' = next_irp + 1
    /\ pool' = IF pool[Slot(next_irp)].in_use THEN pool
               ELSE [pool EXCEPT ![Slot(next_irp)] =
                       [in_use |-> TRUE, id |-> next_irp, st |-> "Pending", cb |-> TRUE]]
    /\ UNCHANGED <<dpcq, uq, kq, thr, ran, dropped>>

Queued(id) == \E i \in 1..Len(dpcq) : dpcq[i] = id

\* The device finishes an IRP: its interrupt handler queues a DPC, which a
\* full queue refuses.
irp_queue_apc_dpc_completion(id) ==
    /\ Live(id) /\ pool[Slot(id)].st = "Pending" /\ ~Queued(id)
    /\ Len(dpcq) < DPC_QUEUE_SIZE
    /\ dpcq' = Append(dpcq, id)
    /\ UNCHANGED <<pool, next_irp, uq, kq, thr, ran, dropped>>

\* queue_user_apc for one thread: refused when the queue is full, and a thread
\* blocked in an alertable wait is made ready. An entry is the IRP whose
\* callback it carries, or 0 for the shutdown notice.
queue_user_apc(s, e) ==
    IF Len(s.uq) >= MAX_USER_APC
    THEN [s EXCEPT !.dropped = IF e = 0 THEN @ ELSE @ \cup {e}]
    ELSE [s EXCEPT !.uq = Append(@, e),
                   !.thr = CASE @ = "blocked" -> "ready"
                             [] @ = "blocking" -> "readied"
                             [] OTHER -> @]

\* irp_complete_with_apc on the entry at the front: the callback leaves the IRP
\* for the APC, then the IRP is freed.
irp_complete_with_apc(s, id) ==
    LET slot == s.pool[Slot(id)]
        live == slot.in_use /\ slot.id = id
        done == IF live THEN [slot EXCEPT !.st = "Completed", !.cb = FALSE] ELSE slot
        q == queue_user_apc(s, IF live THEN id ELSE 0)
    IN [q EXCEPT !.pool = Freed([@ EXCEPT ![Slot(id)] = done], id)]

\* The entries of q, one after the other.
Completed(s, q) ==
    LET after[n \in 0..Len(q)] ==
            IF n = 0 THEN s ELSE irp_complete_with_apc(after[n - 1], q[n])
    IN  after[Len(q)]

\* dpc_dispatch_pending drains the queue at DISPATCH level in one go.
dpc_dispatch_pending ==
    LET t == Completed([pool |-> pool, uq |-> uq, thr |-> thr, dropped |-> dropped], dpcq)
    IN /\ dpcq # <<>>
       /\ dpcq' = <<>>
       /\ pool' = t.pool /\ uq' = t.uq /\ thr' = t.thr /\ dropped' = t.dropped
       /\ UNCHANGED <<next_irp, kq, ran>>

\* irp_complete by a driver that finished synchronously: the callback goes to
\* the high-priority work queue; a full queue is drained first.
irp_complete(id) ==
    LET q == ring["high"]
        full == (q.tail + 1) % CAPACITY = q.head
        queued == [i \in 1..((q.tail - q.head) % CAPACITY) |->
                        q.slots[(q.head + i - 1) % CAPACITY]]
    IN /\ Live(id) /\ pool[Slot(id)].st = "Pending" /\ ~Queued(id)
       /\ \A ctx \in Contexts : held[ctx].op = "idle"
       /\ pool' = [pool EXCEPT ![Slot(id)].st = "Completed", ![Slot(id)].cb = FALSE]
       /\ ring' = [ring EXCEPT !["high"] =
               [slots |-> [@.slots EXCEPT ![q.tail] = -id],
                head |-> IF full THEN q.tail ELSE q.head,
                tail |-> (q.tail + 1) % CAPACITY]]
       /\ taken' = [taken EXCEPT !["high"] = IF full THEN @ \o queued ELSE @]
       /\ accepted' = [accepted EXCEPT !["high"] = Append(@, -id)]
       /\ UNCHANGED <<held, produced, next_irp, dpcq, uq, kq, thr, ran, dropped>>

\* Mutant: the slot is freed as soon as a completion is queued.
FreesEarly(id) ==
    /\ Live(id)
    /\ pool' = Freed(pool, id)
    /\ UNCHANGED <<next_irp, dpcq, uq, kq, thr, ran, dropped>>

\* The owner frees an IRP once it polled a final status.
irp_free(id) ==
    /\ Live(id) /\ pool[Slot(id)].st = "Completed"
    /\ pool' = Freed(pool, id)
    /\ UNCHANGED <<next_irp, dpcq, uq, kq, thr, ran, dropped>>

\* Running the user APC at the front of the queue calls the IRP's callback.
dispatch_one_user_apc ==
    /\ uq' = Tail(uq)
    /\ ran' = IF Head(uq) = 0 THEN ran ELSE Append(ran, Head(uq))

\* A kernel APC is queued to the thread, or the service manager's shutdown
\* notice; the notices are bounded by the room in the queues.
queue_kernel_apc ==
    /\ kq = 0 /\ kq' = 1
    /\ UNCHANGED <<pool, next_irp, dpcq, uq, thr, ran, dropped>>
request_process_shutdown_notification ==
    LET t == queue_user_apc([uq |-> uq, thr |-> thr, dropped |-> dropped], 0) IN
    /\ \A i \in 1..Len(uq) : uq[i] # 0
    /\ uq' = t.uq /\ thr' = t.thr
    /\ UNCHANGED <<pool, next_irp, dpcq, kq, ran, dropped>>

\* The return of a system call: the kernel APCs, then one user APC.
apc_dispatch_on_syscall_return ==
    /\ thr \in {"user", "ready"} /\ (kq > 0 \/ uq # <<>>)
    /\ kq' = 0 /\ thr' = "user"
    /\ IF uq # <<>> THEN dispatch_one_user_apc ELSE UNCHANGED <<uq, ran>>
    /\ UNCHANGED <<pool, next_irp, dpcq, dropped>>

\* wait_alertable: an APC that waits is run at once.
handler_wait_alertable ==
    /\ thr = "user"
    /\ IF uq # <<>> THEN dispatch_one_user_apc /\ UNCHANGED thr
                    ELSE thr' = "checked" /\ UNCHANGED <<uq, ran>>
    /\ UNCHANGED <<pool, next_irp, dpcq, kq, dropped>>
block_current_alertable ==
    /\ thr = "checked" /\ thr' = "blocking"
    /\ UNCHANGED <<pool, next_irp, dpcq, uq, kq, ran, dropped>>
\* The second look at the queue, then the switch at the end of the system call
\* that takes a thread still marked Blocked off the CPU.
RecheckAndSwitch ==
    /\ thr \in {"blocking", "readied"}
    /\ IF uq # <<>> THEN dispatch_one_user_apc ELSE UNCHANGED <<uq, ran>>
    /\ thr' = IF thr = "blocking" THEN "blocked" ELSE "user"
    /\ UNCHANGED <<pool, next_irp, dpcq, kq, dropped>>

DeferInit ==
    /\ deferLoad \in DeferLoads
    /\ ring = [r \in Rings |-> [head |-> 0, tail |-> 0,
                                slots |-> [i \in 0..CAPACITY - 1 |-> 0]]]
    /\ held = [ctx \in Contexts |-> Idle]
    /\ accepted = [r \in Rings |-> <<>>] /\ taken = [r \in Rings |-> <<>>]
    /\ produced = 0
    /\ pool = [i \in 0..IRP_POOL_SIZE - 1 |-> FreeSlot] /\ next_irp = 1
    /\ dpcq = <<>> /\ uq = <<>> /\ kq = 0 /\ thr = "user" /\ ran = <<>> /\ dropped = {}

RingStep ==
    \/ \E r \in Rings : "rings" \in deferLoad /\ Interrupt(r)
    \/ \E r \in Rings : idle_task(r) \/ clear_need_resched(r)
    \/ \E ctx \in Contexts : MayStore(ctx) /\ (PushStore(ctx) \/ PopStore(ctx))

IrpStep ==
    \/ irp_alloc
    \/ \E id \in 1..MaxIrps : irp_queue_apc_dpc_completion(id) \/ irp_free(id)
    \/ dpc_dispatch_pending
    \/ queue_kernel_apc \/ request_process_shutdown_notification
    \/ apc_dispatch_on_syscall_return
    \/ handler_wait_alertable \/ block_current_alertable \/ RecheckAndSwitch

DeferNext ==
    /\ UNCHANGED deferLoad
    /\ \/ RingStep /\ UNCHANGED irpVars
       \/ "irp" \in deferLoad /\ IrpStep /\ UNCHANGED ringVars
       \/ "irp" \in deferLoad /\ \E id \in 1..MaxIrps : irp_complete(id)

DeferSpec == DeferInit /\ [][DeferNext]_deferVars

-----------------------------------------------------------------------------
IsPrefix(s, t) == Len(s) <= Len(t) /\ \A i \in 1..Len(s) : s[i] = t[i]
Fifo == \A r \in Rings : IsPrefix(taken[r], accepted[r])

\* Every item a ring accepted is taken from it once and in order, however the
\* interrupt handlers interleave with the drain loop of idle_task, as long as
\* that is the only one.
RingsFifo == "ap" \notin deferLoad => Fifo

\* The same with the drain that clear_need_resched does on every CPU: nothing
\* keeps the shared rings to one driver.
OneDriver == Fifo

\* Where the callback of IRP id is, once it has left the IRP.
Places(id) ==
    {<<"apc", i>> : i \in {j \in 1..Len(uq) : uq[j] = id}}
      \cup {<<"ran", i>> : i \in {j \in 1..Len(ran) : ran[j] = id}}
      \cup {<<"work", i>> : i \in {j \in 1..Len(accepted["high"]) : accepted["high"][j] = -id}}
      \cup {<<"dropped", i>> : i \in dropped \cap {id}}

\* The callback of an IRP is in one place at a time, whatever path completes
\* it: still in its pool slot, in the thread's APC queue, in the work queue,
\* already run, or dropped by a full APC queue. And a DPC that waits always
\* finds its own IRP in the slot, although ids share slots.
CallbackOnce ==
    /\ \A id \in 1..next_irp - 1 : IF Live(id) /\ pool[Slot(id)].cb THEN Places(id) = {}
                                   ELSE \A x, y \in Places(id) : x = y
    /\ \A i \in 1..Len(dpcq) : Live(dpcq[i]) /\ pool[Slot(dpcq[i])].cb
    /\ \A id \in 1..next_irp - 1 : Live(id) /\ pool[Slot(id)].st = "Completed" =>
            ~pool[Slot(id)].cb

\* An alertable wait ends once an APC ran for it: the thread is not left
\* blocked behind the APC that should have ended its wait.
AlertableWaitEnds == thr = "blocked" => uq = <<>>
=============================================================================
