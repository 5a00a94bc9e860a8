------------------------------- MODULE AbsFs -------------------------------
\* What a NeoFS volume promises: files and directories change one operation at a
\* time, a crash loses no completed operation, and a snapshot keeps the volume as
\* it was. Only file content the page cache has not written yet may be lost.
EXTENDS Integers, Sequences

CONSTANTS Files, Dir, MaxWrites

VARIABLES ns,    \* the content of every path: a write's number, or one of the below
          snaps, \* the volumes the snapshots hold, oldest first
          soft   \* the writes whose content is not on the device

absVars == <<ns, snaps, soft>>

None == -1 \* no such path
IsDir == -2
Lost == -3 \* content that never reached the device

\* A path is <<directory, name>>; Dir is the one subdirectory of the root.
Paths == {<<"root", f>> : f \in Files \cup {Dir}} \cup {<<Dir, f>> : f \in Files}
IsFile(p) == ns[p] \in 0 .. MaxWrites \cup {Lost}
Holds(d) == d = "root" \/ ns[<<"root", Dir>>] = IsDir

Create(p) == Holds(p[1]) /\ p[2] # Dir /\ ns' = [ns EXCEPT ![p] = 0] /\ UNCHANGED snaps /\ soft' \subseteq soft

Write(p) ==
    /\ IsFile(p)
    /\ \E v \in 1 .. MaxWrites : ns' = [ns EXCEPT ![p] = v] /\ soft' \subseteq soft \cup {v}
    /\ UNCHANGED snaps

Remove(p) == IsFile(p) /\ ns' = [ns EXCEPT ![p] = None] /\ UNCHANGED snaps /\ soft' \subseteq soft

Rename(p, f) ==
    /\ IsFile(p)
    /\ ns' = [ns EXCEPT ![p] = None, ![<<p[1], f>>] = ns[p]]
    /\ UNCHANGED snaps /\ soft' \subseteq soft

\* A directory made where one is starts empty.
Mkdir ==
    /\ ns' = [p \in Paths |-> IF p = <<"root", Dir>> THEN IsDir ELSE IF p[1] = Dir THEN None ELSE ns[p]]
    /\ UNCHANGED snaps /\ soft' \subseteq soft

Rmdir ==
    /\ \A f \in Files : ns[<<Dir, f>>] = None
    /\ ns' = [ns EXCEPT ![<<"root", Dir>>] = None]
    /\ UNCHANGED snaps /\ soft' \subseteq soft

\* The oldest snapshot goes when the table is full.
SnapshotCreate ==
    /\ \/ snaps' = Append(snaps, ns)
       \/ snaps # << >> /\ snaps' = Append(Tail(snaps), ns)
    /\ UNCHANGED ns /\ soft' \subseteq soft

SnapshotDelete ==
    /\ \E i \in DOMAIN snaps :
          snaps' = SubSeq(snaps, 1, i - 1) \o SubSeq(snaps, i + 1, Len(snaps))
    /\ UNCHANGED ns /\ soft' \subseteq soft

SnapshotPurge == snaps' = << >> /\ UNCHANGED ns /\ soft' \subseteq soft

SnapshotRestore == \E i \in DOMAIN snaps : ns' = snaps[i] /\ UNCHANGED snaps /\ soft' \subseteq soft

Flush == soft' \subseteq soft /\ UNCHANGED <<ns, snaps>>

\* What a volume may look like when the writes in soft are lost.
Damaged(old, new) == \A p \in Paths : new[p] = old[p] \/ old[p] \in soft

Crash ==
    /\ Damaged(ns, ns')
    /\ DOMAIN ns' = Paths
    /\ Len(snaps') = Len(snaps)
    /\ \A i \in DOMAIN snaps : Damaged(snaps[i], snaps'[i])
    /\ soft' = {}

AbsNext ==
    \/ \E p \in Paths : Create(p) \/ Write(p) \/ Remove(p) \/ \E f \in Files : Rename(p, f)
    \/ Mkdir \/ Rmdir \/ SnapshotCreate \/ SnapshotDelete \/ SnapshotPurge \/ SnapshotRestore
    \/ Flush \/ Crash

AbsInit ==
    /\ ns = [p \in Paths |-> None]
    /\ snaps = << >>
    /\ soft = {}

AbsSpec == AbsInit /\ [][AbsNext]_absVars
=============================================================================
