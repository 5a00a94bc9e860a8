------------------------------- MODULE MCIpc -------------------------------
(***************************************************************************)
(* The per-CPU run queue, the pipe ring, and the pipe system calls over    *)
(* object and handle tables, on small instances.  A behaviour exercises    *)
(* the component named by focus; the others stay in their initial states.  *)
(***************************************************************************)
EXTENDS RunQueue, PipeRing, TLC

CONSTANTS Components, t1, t2, t3, p1, p2,
          MAX_PIPES, Capacity, FreeSlots, MaxHandles, MaxObjects, PipeLoads

VARIABLES focus,
          pipe, kobj, obj, next_id, ht, call, load

\* A process with two threads, and its child.
P == INSTANCE Pipes WITH
          Threads <- {t1, t2, t3}, Procs <- {p1, p2},
          ProcOf <- [t \in {t1, t2, t3} |-> IF t = t3 THEN p2 ELSE p1],
          Started <- {p1}, NCpus <- 1, Redirected <- {0}, Loads <- PipeLoads

ASSUME RingAssumption /\ P!PipesAssumption

\* The threads of the parent are interchangeable.
Twins == Permutations({t1, t2})

pipeVars == <<pipe, kobj, obj, next_id, ht, call, load>>
suiteVars == <<focus, vars, ringVars, pipeVars>>

SuiteInit ==
    /\ focus \in Components
    /\ Init /\ RingInit /\ P!Init
    /\ focus # "pipes" => load = CHOOSE l \in PipeLoads : TRUE

SuiteNext ==
    /\ UNCHANGED focus
    /\ \/ focus = "runqueue" /\ Next /\ UNCHANGED <<ringVars, pipeVars>>
       \/ focus = "ring" /\ RingNext /\ UNCHANGED <<vars, pipeVars>>
       \/ focus = "pipes" /\ P!Next /\ UNCHANGED <<vars, ringVars>>

SuiteSpec == SuiteInit /\ [][SuiteNext]_suiteVars
-----------------------------------------------------------------------------
\* No interleaving of closes, failed creations and exits frees a pipe under an
\* open descriptor; read_refs and write_refs count the descriptors of each end
\* across all tables; between calls, pipe slots, kernel objects and pipe
\* objects exist exactly for the open descriptors; and wake_pipe_readers leaves no
\* reader behind: while a thread is blocked on a pipe that has bytes, another one
\* is about to wake it.
PipesSound ==
    focus = "pipes" => /\ P!OpenHandlesAreLive /\ P!RefsCountHandles
                       /\ P!SlotsReclaimed /\ P!ObjectsReclaimed
                       /\ P!NoReaderForgotten

\* An open descriptor of a running process changes only by a close or dup2 of
\* that descriptor, or when the process exits.
OpenEntriesKept == P!OpenEntriesKept

\* An open descriptor leads to a live pipe also after dup2 has made a second
\* descriptor of one.
HandlesAreLive == P!HandlesAreLive
=============================================================================
