------------------------------- MODULE Pipes -------------------------------
(***************************************************************************)
(* Anonymous pipes of the NeoDOS kernel: the slots of PIPE_MANAGER, the    *)
(* Object Manager objects that stand for them, the handles of the          *)
(* processes, and the readers that block.                                  *)
(*                                                                         *)
(* Each lock (pipes, kobj_ids, OB_TABLE, SCHEDULER) is taken and released  *)
(* several times in one system call, so a call is a sequence of steps, one *)
(* per locked section; `call' holds the local variables of each thread.    *)
(* User threads are not preempted in Ring 0, so at most NCpus threads are  *)
(* inside a call.  The bytes of a pipe are abstracted to their number      *)
(* (PipeRing has the ring buffer).                                         *)
(***************************************************************************)
EXTENDS HandleTableOps, FiniteSets

CONSTANTS
    Threads,
    Procs,
    ProcOf,       \* the process of each thread
    Started,      \* the processes that run at first; the others are spawned
    MAX_PIPES,
    Capacity,     \* PIPE_BUF_SIZE - 1, the bytes a pipe holds
    FreeSlots,    \* closed entries a new table has, left by files opened and closed
    MaxObjects,   \* bound on the object ids handed out
    NCpus,
    Redirected,   \* the descriptors that dup2 and spawn redirect
    Loads         \* the sets of system calls the threads may make

Slots == 0..MAX_PIPES - 1
ObIds == 1..MaxObjects
NoObject == HANDLE_CLOSED     \* also None in kobj_ids
Fds == 0..MaxHandles - 1
AllCalls == {"create", "read", "write", "wait", "close", "dup2", "spawn", "exit"}

PipesAssumption ==
    /\ MaxHandlesAssumption
    /\ MAX_PIPES \in Nat \ {0}
    /\ Capacity \in Nat \ {0}
    /\ FreeSlots \in Nat /\ FreeSlots + 3 <= MaxHandles
    /\ MaxObjects \in Nat
    /\ NCpus \in Nat \ {0}
    /\ \A t \in Threads : ProcOf[t] \in Procs
    /\ Started \subseteq Procs
    /\ Redirected \subseteq 0..MaxHandles - 1
    /\ \A l \in Loads : l \subseteq AllCalls

VARIABLES
    pipe,     \* PIPE_MANAGER.pipes
    kobj,     \* PIPE_MANAGER.kobj_ids
    obj,      \* OB_TABLE: [live, refs, pipe, ops]
    next_id,  \* the next object id
    ht,       \* the handle table of each process
    call,     \* what each thread does: [pc, i, o, fd, kid, src, then]
    load      \* the member of Loads this behaviour has

vars == <<pipe, kobj, obj, next_id, ht, call, load>>

-----------------------------------------------------------------------------
reset == [in_use |-> FALSE, used |-> 0, write_closed |-> FALSE, read_closed |-> FALSE,
          read_refs |-> 0, write_refs |-> 0]

\* obj_type() finds the object only while it is in the table.
is_pipe_read(h) == h.object_id \in ObIds /\ obj[h.object_id].live /\ h.offset = 0
is_pipe_write(h) == h.object_id \in ObIds /\ obj[h.object_id].live /\ h.offset = 1

InUser == [pc |-> "user", i |-> 0, o |-> NoObject, fd |-> 0, kid |-> NoObject,
           src |-> closed, then |-> "user"]

InKernel == {t \in Threads : call[t].pc \notin {"user", "blocked", "unborn", "done"}}

\* A thread of a process that was spawned issues a call of kind k.
Enters(t, k) == k \in load /\ call[t].pc = "user" /\ Cardinality(InKernel) < NCpus

Goto(t, pc) == call' = [call EXCEPT ![t].pc = pc]

Returns(t) == call' = [call EXCEPT ![t] = InUser]

NewObject(i, refs, ops) == [live |-> TRUE, refs |-> refs, pipe |-> i, ops |-> ops]

\* Mutant: the kobj stays registered.
DestroyedNothing(O, id) == O

\* take_for_destroy refuses an object that is referenced elsewhere.
Destroyed(O, id) ==
    IF id # NoObject /\ O[id].live /\ O[id].refs <= 1 THEN [O EXCEPT ![id].live = FALSE] ELSE O

-----------------------------------------------------------------------------
\* ObCreate(Pipe)

FirstFree == CHOOSE i \in Slots : ~pipe[i].in_use /\ \A j \in 0..i - 1 : pipe[j].in_use

\* PipeManager::alloc takes the first slot that is not in use.
alloc(t) ==
    /\ Enters(t, "create")
    /\ next_id + 1 \in ObIds
    /\ \E i \in Slots : ~pipe[i].in_use
    /\ pipe' = [pipe EXCEPT ![FirstFree] = [reset EXCEPT !.in_use = TRUE]]
    /\ call' = [call EXCEPT ![t] = [InUser EXCEPT !.pc = "kobj", !.i = FirstFree]]
    /\ UNCHANGED <<kobj, obj, next_id, ht>>

create_kobj(t) ==
    /\ call[t].pc = "kobj"
    /\ next_id \in ObIds
    /\ obj' = [obj EXCEPT ![next_id] = NewObject(call[t].i, 1, FALSE)]
    /\ kobj' = [kobj EXCEPT ![call[t].i] = next_id]
    /\ next_id' = next_id + 1
    /\ Goto(t, "object")
    /\ UNCHANGED <<pipe, ht>>

\* ob_create_object_path; the object is given up if its name is taken.
ob_create_object_path(t) ==
    /\ call[t].pc = "object"
    /\ next_id \in ObIds
    /\ next_id' = next_id + 1
    /\ obj' = [obj EXCEPT ![next_id] = NewObject(call[t].i, 1, TRUE)]
    /\ \E taken \in BOOLEAN :
          call' = [call EXCEPT ![t].o = next_id, ![t].pc = IF taken THEN "ob_close" ELSE "handles"]
    /\ UNCHANGED <<pipe, kobj, ht>>

\* The handles of both ends and their references, the creator's own dropped.
install_handles(t) ==
    LET p == ProcOf[t]
        c == call[t]
        End(end) == [object_id |-> c.o, offset |-> end]
        two == alloc_two_handles(ht[p], End(0), End(1))
    IN  /\ c.pc = "handles"
        /\ IF ~two.ok
           THEN Goto(t, "ob_close") /\ UNCHANGED <<pipe, obj, ht>>
           ELSE /\ ht' = [ht EXCEPT ![p] = two.table]
                /\ pipe' = [pipe EXCEPT ![c.i].read_refs = @ + 1, ![c.i].write_refs = @ + 1]
                /\ obj' = [obj EXCEPT ![c.o].refs = @ + 1]
                /\ Returns(t)
        /\ UNCHANGED <<kobj, next_id>>

-----------------------------------------------------------------------------
\* read, write and ObWait

\* read() takes some of the bytes, ends at end-of-file, or goes on to block.
read(t, fd) ==
    LET h == get(ht[ProcOf[t]], fd)
        i == obj[h.object_id].pipe
    IN  /\ Enters(t, "read")
        /\ is_pipe_read(h)
        /\ \/ \E n \in 0..pipe[i].used :
                 /\ pipe[i].used > 0
                 /\ pipe' = [pipe EXCEPT ![i].used = @ - n]
                 /\ call' = [call EXCEPT ![t].pc = "wake", ![t].i = i]
           \/ /\ pipe[i].used = 0 /\ ~pipe[i].write_closed
              /\ call' = [call EXCEPT ![t].pc = "block", ![t].i = i]
              /\ UNCHANGED pipe
        /\ UNCHANGED <<kobj, obj, next_id, ht>>

Room(i) == Capacity - pipe[i].used

write(t, fd) ==
    LET h == get(ht[ProcOf[t]], fd)
        i == obj[h.object_id].pipe
    IN  /\ Enters(t, "write")
        /\ is_pipe_write(h)
        /\ ~pipe[i].read_closed
        /\ Room(i) > 0
        /\ \E n \in 0..Room(i) : pipe' = [pipe EXCEPT ![i].used = @ + n]
        /\ call' = [call EXCEPT ![t].pc = "wake", ![t].i = i]
        /\ UNCHANGED <<kobj, obj, next_id, ht>>

\* Either end can be waited for; pipe_peek_read_ready decides.
handler_ob_wait(t, fd) ==
    LET h == get(ht[ProcOf[t]], fd)
        i == obj[h.object_id].pipe
    IN  /\ Enters(t, "wait")
        /\ is_pipe_read(h) \/ is_pipe_write(h)
        /\ pipe[i].used = 0 /\ ~pipe[i].write_closed
        /\ call' = [call EXCEPT ![t].pc = "block", ![t].i = i]
        /\ UNCHANGED <<pipe, kobj, obj, next_id, ht>>

\* Mutant: the writer returns without the wake.
WakeForgotten(t) ==
    /\ call[t].pc = "wake"
    /\ Returns(t)
    /\ UNCHANGED <<pipe, kobj, obj, next_id, ht>>

\* kwait_wake(PipeRead): the woken threads return to Ring 3 and retry.
wake_pipe_readers(t) ==
    /\ call[t].pc = "wake"
    /\ call' = [u \in Threads |->
                  IF u = t \/ (call[u].pc = "blocked" /\ call[u].i = call[t].i)
                  THEN InUser ELSE call[u]]
    /\ UNCHANGED <<pipe, kobj, obj, next_id, ht>>

block_current_for_pipe(t) ==
    /\ call[t].pc = "block"
    /\ Goto(t, "blocked")
    /\ UNCHANGED <<pipe, kobj, obj, next_id, ht>>

-----------------------------------------------------------------------------
\* close, dup2, spawn and exit

\* dec_read_ref and dec_write_ref.
dec_ref(P, i, end) ==
    IF end = 0 THEN [P EXCEPT ![i].read_refs = IF @ > 0 THEN @ - 1 ELSE 0, ![i].read_closed = TRUE]
               ELSE [P EXCEPT ![i].write_refs = IF @ > 0 THEN @ - 1 ELSE 0, ![i].write_closed = TRUE]

inc_ref(P, i, end) ==
    IF end = 0 THEN [P EXCEPT ![i].read_refs = @ + 1] ELSE [P EXCEPT ![i].write_refs = @ + 1]

IsPipe(h) == is_pipe_read(h) \/ is_pipe_write(h)
PipeOf(h) == obj[h.object_id].pipe

\* Drops the reference of entry h, then goes through maybe_free_pipe to c.then.
DropsEnd(t, h, c) ==
    IF IsPipe(h)
    THEN /\ pipe' = dec_ref(pipe, PipeOf(h), h.offset)
         /\ call' = [call EXCEPT ![t] = [c EXCEPT !.pc = "kid", !.i = PipeOf(h)]]
    ELSE /\ call' = [call EXCEPT ![t] = [c EXCEPT !.pc = c.then]]
         /\ UNCHANGED pipe

handler_close(t, fd) ==
    LET h == get(ht[ProcOf[t]], fd)
    IN  /\ Enters(t, "close")
        /\ has_ob_object(h)
        /\ DropsEnd(t, h, [InUser EXCEPT !.fd = fd, !.o = h.object_id, !.then = "ob_close"])
        /\ UNCHANGED <<kobj, obj, next_id, ht>>

handler_dup2(t, old, new) ==
    LET src == get(ht[ProcOf[t]], old)
    IN  /\ Enters(t, "dup2")
        /\ is_open(src)
        /\ DropsEnd(t, get(ht[ProcOf[t]], new), [InUser EXCEPT !.fd = new, !.src = src, !.then = "dup"])
        /\ UNCHANGED <<kobj, obj, next_id, ht>>

\* The source's end is counted once more and its entry copied.
install_copy(t) ==
    LET c == call[t]
    IN  /\ c.pc = "dup"
        /\ pipe' = IF IsPipe(c.src) THEN inc_ref(pipe, PipeOf(c.src), c.src.offset) ELSE pipe
        /\ ht' = [ht EXCEPT ![ProcOf[t]] = set(@, c.fd, c.src)]
        /\ Returns(t)
        /\ UNCHANGED <<kobj, obj, next_id>>

\* maybe_free_pipe reads the kobj id before it takes the pipes lock.
get_kobj_id(t) ==
    /\ call[t].pc = "kid"
    /\ call' = [call EXCEPT ![t].kid = kobj[call[t].i], ![t].pc = "maybe"]
    /\ UNCHANGED <<pipe, kobj, obj, next_id, ht>>

BothEndsGone(i) == pipe[i].read_refs = 0 /\ pipe[i].write_refs = 0

maybe_free_pipe(t) ==
    LET i == call[t].i
        should_free == BothEndsGone(i)
    IN  /\ call[t].pc = "maybe"
        /\ pipe' = IF should_free THEN [pipe EXCEPT ![i].in_use = FALSE] ELSE pipe
        /\ Goto(t, IF should_free /\ call[t].kid # NoObject THEN "unkobj" ELSE call[t].then)
        /\ UNCHANGED <<kobj, obj, next_id, ht>>

destroy_kobj(t) ==
    /\ call[t].pc = "unkobj"
    /\ obj' = Destroyed(obj, call[t].kid)
    /\ kobj' = [kobj EXCEPT ![call[t].i] = NoObject]
    /\ Goto(t, call[t].then)
    /\ UNCHANGED <<pipe, next_id, ht>>

\* After ob_close_object, a close resets its entry; a failed create returns.
AfterClose(t) == IF call[t].then = "ob_close" THEN "set" ELSE "fail"

StillReferenced(o) == obj[o].refs > 1

ob_close_object(t) ==
    LET o == call[t].o
    IN  /\ call[t].pc = "ob_close"
        /\ IF ~obj[o].live
           THEN Goto(t, AfterClose(t)) /\ UNCHANGED obj
           ELSE /\ obj' = [obj EXCEPT ![o].refs = @ - 1, ![o].live = StillReferenced(o)]
                /\ call' = [call EXCEPT ![t].i = obj[o].pipe,
                              ![t].pc = IF StillReferenced(o) THEN AfterClose(t) ELSE "free_kobj"]
        /\ UNCHANGED <<pipe, kobj, next_id, ht>>

\* PipeObOps::on_destroy: free_pipe unregisters the kobj, then resets the slot.
free_kobj(t) ==
    LET i == call[t].i
    IN  /\ call[t].pc = "free_kobj"
        /\ obj' = Destroyed(obj, kobj[i])
        /\ kobj' = [kobj EXCEPT ![i] = NoObject]
        /\ Goto(t, "free_slot")
        /\ UNCHANGED <<pipe, next_id, ht>>

free_slot(t) ==
    /\ call[t].pc = "free_slot"
    /\ pipe' = [pipe EXCEPT ![call[t].i] = reset]
    /\ Goto(t, AfterClose(t))
    /\ UNCHANGED <<kobj, obj, next_id, ht>>

\* set_current_handle(fd, closed), or the error return of a failed create.
finish_call(t) ==
    /\ call[t].pc \in {"set", "fail"}
    /\ ht' = IF call[t].pc = "set" THEN [ht EXCEPT ![ProcOf[t]] = set(@, call[t].fd, closed)] ELSE ht
    /\ Returns(t)
    /\ UNCHANGED <<pipe, kobj, obj, next_id>>

NewTable == with_defaults \o [k \in 1..FreeSlots |-> closed]

\* Mutant: the parent's entry is moved to the child.
SpawnMovesEntry(t, q, fd, std) ==
    LET h == get(ht[ProcOf[t]], fd)
        child == {u \in Threads : ProcOf[u] = q}
    IN  /\ Enters(t, "spawn")
        /\ \A u \in child : call[u].pc = "unborn"
        /\ has_ob_object(h)
        /\ ht' = [ht EXCEPT ![q] = set(NewTable, std, h), ![ProcOf[t]] = set(@, fd, closed)]
        /\ call' = [u \in Threads |-> IF u \in child THEN InUser ELSE call[u]]
        /\ UNCHANGED <<pipe, kobj, obj, next_id>>

\* ObCreate(Process) with one stream redirected: copy_handle_entry_for_child
\* copies the parent's entry as it is.
spawn(t, q, fd, std) ==
    LET h == get(ht[ProcOf[t]], fd)
        child == {u \in Threads : ProcOf[u] = q}
    IN  /\ Enters(t, "spawn")
        /\ \A u \in child : call[u].pc = "unborn"
        /\ has_ob_object(h)
        /\ ht' = [ht EXCEPT ![q] = set(NewTable, std, h)]
        /\ call' = [u \in Threads |-> IF u \in child THEN InUser ELSE call[u]]
        /\ UNCHANGED <<pipe, kobj, obj, next_id>>

\* handler_exit: the last thread of a process releases its handles.
handler_exit(t) ==
    LET others == {u \in Threads \ {t} : ProcOf[u] = ProcOf[t]}
    IN  /\ Enters(t, "exit")
        /\ Goto(t, IF \A u \in others : call[u].pc = "done" THEN "exit" ELSE "done")
        /\ UNCHANGED <<pipe, kobj, obj, next_id, ht>>

\* terminate_current drops the references of one pipe end after the other;
\* entries of other kinds are closed on the way.
release_handles(t) ==
    LET p == ProcOf[t]
        ends == {fd \in 0..Len(ht[p]) - 1 : IsPipe(get(ht[p], fd))}
        fd == CHOOSE x \in ends : \A y \in ends : x <= y
    IN  /\ call[t].pc = "exit"
        /\ IF ends = {}
           THEN /\ ht' = [ht EXCEPT ![p] = [k \in DOMAIN @ |-> closed]]
                /\ Goto(t, "done")
                /\ UNCHANGED pipe
           ELSE /\ ht' = [ht EXCEPT ![p] = set(@, fd, closed)]
                /\ DropsEnd(t, get(ht[p], fd), [InUser EXCEPT !.then = "exit"])
        /\ UNCHANGED <<kobj, obj, next_id>>

-----------------------------------------------------------------------------
Init ==
    /\ pipe = [i \in Slots |-> reset]
    /\ kobj = [i \in Slots |-> NoObject]
    /\ obj = [o \in ObIds |-> [live |-> FALSE, refs |-> 0, pipe |-> 0, ops |-> FALSE]]
    /\ next_id = 1
    /\ ht = [p \in Procs |-> NewTable]
    /\ call = [t \in Threads |->
                 IF ProcOf[t] \in Started THEN InUser ELSE [InUser EXCEPT !.pc = "unborn"]]
    /\ load \in Loads

Create(t) == alloc(t) \/ create_kobj(t) \/ ob_create_object_path(t) \/ install_handles(t)

Transfer(t) ==
    \/ \E fd \in Fds : read(t, fd) \/ write(t, fd) \/ handler_ob_wait(t, fd)
    \/ wake_pipe_readers(t)
    \/ block_current_for_pipe(t)

Close(t) ==
    \/ \E fd \in Fds : handler_close(t, fd)
    \/ get_kobj_id(t) \/ maybe_free_pipe(t) \/ destroy_kobj(t)
    \/ ob_close_object(t) \/ free_kobj(t) \/ free_slot(t) \/ finish_call(t)

Duplicate(t) ==
    \/ \E old \in Fds, new \in Redirected : handler_dup2(t, old, new)
    \/ install_copy(t)

Lifetime(t) ==
    \/ \E q \in Procs, fd \in Fds, std \in Redirected \cap 0..2 : spawn(t, q, fd, std)
    \/ handler_exit(t)
    \/ release_handles(t)

Next ==
    /\ \E t \in Threads : Create(t) \/ Transfer(t) \/ Close(t) \/ Duplicate(t) \/ Lifetime(t)
    /\ UNCHANGED load

Spec == Init /\ [][Next]_vars

-----------------------------------------------------------------------------
\* A pipe never holds more bytes than its buffer, references are never negative,
\* and no more calls are in progress than there are CPUs.
TypeOK ==
    /\ \A i \in Slots : /\ pipe[i].in_use \in BOOLEAN /\ pipe[i].used \in 0..Capacity
                        /\ pipe[i].read_refs \in Nat /\ pipe[i].write_refs \in Nat
    /\ kobj \in [Slots -> ObIds \cup {NoObject}]
    /\ obj \in [ObIds -> [live : BOOLEAN, refs : Nat, pipe : Slots, ops : BOOLEAN]]
    /\ next_id \in 1..MaxObjects + 1
    /\ \A p \in Procs : Len(ht[p]) <= MaxHandles
    /\ Cardinality(InKernel) <= NCpus

\* A thread of p is in the middle of replacing the entry of fd.
Changing(p, fd) ==
    \E t \in InKernel : ProcOf[t] = p /\ call[t].fd = fd /\ call[t].then \in {"ob_close", "dup"}

Settled(p) == {fd \in 0..Len(ht[p]) - 1 : has_ob_object(get(ht[p], fd)) /\ ~Changing(p, fd)}

\* Every descriptor of this load has references of its own.  The entry that a
\* child inherits has none, and after a dup2 a close of either descriptor drops
\* the object that both name.
Counted == "spawn" \notin load /\ ~({"dup2", "close"} \subseteq load)

\* A pipe lives as long as a descriptor of it: the object an open handle names
\* is in the table and its slot is in use, whatever the other threads close.
HandlesAreLive ==
    \A p \in Procs : \A fd \in Settled(p) :
        LET o == get(ht[p], fd).object_id IN obj[o].live /\ pipe[obj[o].pipe].in_use

\* The same where every descriptor has its own references: no interleaving of
\* closes, failed creations and exits frees a pipe under an open descriptor.
OpenHandlesAreLive == Counted => HandlesAreLive

Ends(i, end) ==
    {<<p, fd>> \in Procs \X Fds :
        fd \in Settled(p) /\ LET h == get(ht[p], fd)
                            IN IsPipe(h) /\ PipeOf(h) = i /\ h.offset = end}

\* read_refs and write_refs count the descriptors of each end across all tables:
\* add_read_ref, drop_read_ref and their twins are called once per descriptor.
RefsCountHandles ==
    Counted =>
        \A i \in Slots : pipe[i].in_use =>
            /\ pipe[i].read_refs = Cardinality(Ends(i, 0))
            /\ pipe[i].write_refs = Cardinality(Ends(i, 1))

\* wake_pipe_readers leaves no reader behind: while a thread is blocked on a
\* pipe that has bytes, another one is about to wake it.
NoReaderForgotten ==
    \A u \in Threads :
        (call[u].pc = "blocked" /\ pipe[call[u].i].used > 0) =>
            \E t \in Threads : call[t].pc = "wake" /\ call[t].i = call[u].i

\* Between calls the slots in use are those with a descriptor, each has its
\* kobj, and no other kobj is left in the object table (free_pipe, the error
\* paths of ObCreate and the release of handles at exit agree).
SlotsReclaimed ==
    Counted /\ InKernel = {} =>
        /\ \A i \in Slots : /\ pipe[i].in_use <=> Ends(i, 0) \cup Ends(i, 1) # {}
                            /\ pipe[i].in_use <=> kobj[i] # NoObject
        /\ \A o \in ObIds : obj[o].live /\ ~obj[o].ops => \E i \in Slots : kobj[i] = o

\* handler_close releases the pipe object with its last descriptor: between
\* calls every named pipe object has one.  An exit closes the ends of a pipe and
\* not its object, so loads with exits are left out.
ObjectsReclaimed ==
    Counted /\ "exit" \notin load /\ InKernel = {} =>
        \A o \in ObIds : obj[o].live /\ obj[o].ops =>
            \E p \in Procs : \E fd \in Settled(p) : get(ht[p], fd).object_id = o

\* An open descriptor of a running process changes only by a close or dup2 of
\* that descriptor, or when the process exits: alloc_two_handles reuses closed descriptors above the
\* standard streams, and no thread replaces an entry of another process.
OpenEntriesKept ==
    [][\A p \in Procs : \A fd \in 0..Len(ht[p]) - 1 :
         is_open(get(ht[p], fd)) /\ get(ht'[p], fd) # get(ht[p], fd) =>
            \E t \in Threads :
                /\ ProcOf[t] = p
                /\ call[t].pc \in {"exit", "unborn"} \/ (call[t].pc \in {"set", "dup"} /\ call[t].fd = fd)]_vars

=============================================================================
