------------------------------ MODULE Registry ------------------------------
(***************************************************************************)
(* The configuration manager (cm/, syscall/cm.rs): hives are vectors of     *)
(* cells linked into trees of keys and lists of values; the manager keeps   *)
(* the mounted hives in a vector, and a key handle holds a native id, which *)
(* is the hive's index in that vector and the index of a cell.  A flush     *)
(* takes a copy of the hive under the lock, writes the file without it, and *)
(* marks the hive clean under the lock again.                               *)
(*                                                                          *)
(* tree is the reference: what the calls made so far say the first hive     *)
(* holds, as a function from key paths to the values of the key.            *)
(***************************************************************************)
EXTENDS Integers, Sequences, FiniteSets, SequencesExt

CONSTANTS KeyNames, Data, Paths,       \* Paths: mount paths of further hives
          MAX_CELLS, MaxCells, MAX_HIVES, KeyHandles, Flushers, MaxCmOps, CmLoads

VARIABLES hives, files, keys, flush, loading, tree, cmOps, cmLoad,
          strayed,    \* a call went through a handle whose key was gone
          raced,      \* a hive was changed while a flush held a copy
          moved       \* the indices of the mounted hives were disturbed

cmVars == <<hives, files, keys, flush, loading, tree, cmOps, cmLoad, strayed, raced, moved>>

NULL_CELL == -1
SystemPath == "System"
NoFile == <<>>
Closed == [hive |-> 0, cell |-> -1, path |-> <<>>, mount |-> "", open |-> FALSE]
NoFlush == [todo |-> <<>>, busy |-> FALSE]

KeyCell(name, parent, sibling) ==
    [kind |-> "Key", name |-> name, parent |-> parent, subkeys |-> NULL_CELL,
     next |-> sibling, values |-> NULL_CELL, data |-> 0]
ValueCell(data, next) ==
    [kind |-> "Value", name |-> "v", parent |-> NULL_CELL, subkeys |-> NULL_CELL,
     next |-> next, values |-> NULL_CELL, data |-> data]
None == [ValueCell(0, NULL_CELL) EXCEPT !.kind = "None"]

NewHive == [cells |-> [i \in 1..MAX_CELLS |-> IF i = 1 THEN KeyCell("", NULL_CELL, NULL_CELL) ELSE None],
            hint |-> 1, count |-> 1, dirty |-> FALSE]

-----------------------------------------------------------------------------
(* The cells of a hive.                                                     *)

slot(h, i) == IF i \in 0..(Len(h.cells) - 1) THEN h.cells[i + 1] ELSE None
Kind(h, i) == slot(h, i).kind

\* Mutant: the search starts at the hint and takes that slot without looking.
AllocAtHint(h, cell) ==
    LET i == h.hint % Len(h.cells)
    IN [hive |-> [h EXCEPT !.cells[i + 1] = cell, !.count = @ + 1, !.dirty = TRUE,
                           !.hint = (i + 1) % Len(h.cells)], cell |-> i]

\* The first free slot from the hint on, round the vector, or a new one at its end.
alloc_cell(h, cell) ==
    LET n == Len(h.cells)
        free == {k \in 0..(n - 1) : h.cells[((h.hint + k) % n) + 1].kind = "None"}
        i == (h.hint + CHOOSE k \in free : \A j \in free : k <= j) % n
    IN IF free # {}
       THEN [hive |-> [h EXCEPT !.cells[i + 1] = cell, !.count = @ + 1, !.dirty = TRUE,
                                !.hint = (i + 1) % n], cell |-> i]
       ELSE [hive |-> [h EXCEPT !.cells = Append(@, cell), !.count = @ + 1, !.dirty = TRUE,
                                !.hint = n + 1], cell |-> n]

\* The cells of a list, as far as they are of the kind the list is made of.
Walk(h, head, kind) ==
    LET f[n \in 0..Len(h.cells)] ==
            IF n = 0 THEN <<>>
            ELSE LET at == IF f[n - 1] = <<>> THEN head ELSE slot(h, Last(f[n - 1])).next
                 IN IF Len(f[n - 1]) = n - 1 /\ Kind(h, at) = kind THEN Append(f[n - 1], at) ELSE f[n - 1]
    IN f[Len(h.cells)]

Subkeys(h, k) == IF Kind(h, k) = "Key" THEN Walk(h, slot(h, k).subkeys, "Key") ELSE <<>>
Values(h, k) == IF Kind(h, k) = "Key" THEN Walk(h, slot(h, k).values, "Value") ELSE <<>>

find_key(h, k, name) == {c \in Range(Subkeys(h, k)) : slot(h, c).name = name}

create_key(h, parent, name) ==
    LET a == alloc_cell(h, KeyCell(name, parent, slot(h, parent).subkeys))
    IN IF Kind(h, parent) # "Key" \/ find_key(h, parent, name) # {} THEN h
       ELSE [a.hive EXCEPT !.cells[parent + 1].subkeys = a.cell]

\* The key, the keys below it and their values.
Below(h, k) ==
    LET f[n \in 0..Len(h.cells)] ==
            IF n = 0 THEN {k} ELSE f[n - 1] \cup UNION {Range(Subkeys(h, c)) : c \in f[n - 1]}
    IN f[Len(h.cells)]
Doomed(h, k) == Below(h, k) \cup UNION {Range(Values(h, c)) : c \in Below(h, k)}

\* The link that leads to a cell leads past it.
Unlinked(h, k) ==
    LET p == slot(h, k).parent
        list == Subkeys(h, p)
        at == CHOOSE i \in 1..Len(list) : list[i] = k
    IN CASE p = NULL_CELL \/ Kind(h, p) # "Key" \/ k \notin Range(list) -> h
         [] p # NULL_CELL /\ slot(h, p).subkeys = k ->
              [h EXCEPT !.cells[p + 1].subkeys = slot(h, k).next, !.dirty = TRUE]
         [] OTHER -> [h EXCEPT !.cells[list[at - 1] + 1].next = slot(h, k).next, !.dirty = TRUE]

free_cells(h, dead) ==
    [h EXCEPT !.cells = [i \in 1..Len(h.cells) |-> IF i - 1 \in dead THEN None ELSE h.cells[i]],
              !.count = @ - Cardinality(dead), !.dirty = TRUE]

delete_key(h, k) ==
    CASE k = 0 \/ Kind(h, k) = "None" -> h
      [] k # 0 /\ Kind(h, k) = "Value" -> free_cells(h, {k})
      [] OTHER -> free_cells(Unlinked(h, k), Doomed(h, k))

set_value(h, k, d) ==
    LET vs == Values(h, k)
        a == alloc_cell(h, ValueCell(d, IF Kind(h, k) = "Key" THEN slot(h, k).values ELSE NULL_CELL))
    IN CASE vs # <<>> -> [h EXCEPT !.cells[vs[1] + 1].data = d, !.dirty = TRUE]
         [] vs = <<>> /\ Kind(h, k) = "Key" -> [a.hive EXCEPT !.cells[k + 1].values = a.cell]
         [] OTHER -> a.hive

delete_value(h, k) ==
    LET vs == Values(h, k)
    IN IF vs = <<>> THEN h
       ELSE free_cells([h EXCEPT !.cells[k + 1].values = slot(h, vs[1]).next], {vs[1]})

\* The file holds the used cells; one with a cell past MAX_CELLS is refused.
serialize(h) == h.cells
Loadable(f) == f # NoFile /\ \A i \in 1..Len(f) : i > MAX_CELLS => f[i].kind = "None"
deserialize(f) ==
    IF ~Loadable(f) THEN NewHive
    ELSE [cells |-> [i \in 1..MAX_CELLS |-> f[i]], hint |-> 1, dirty |-> FALSE,
          count |-> Cardinality({i \in 1..MAX_CELLS : f[i].kind # "None"})]

-----------------------------------------------------------------------------
(* What a hive says: the paths of its keys, with the value of each.         *)

ValueOf(h, k) == IF Values(h, k) = <<>> THEN 0 ELSE slot(h, Values(h, k)[1]).data

Reached(h) ==
    LET f[n \in 0..3] ==
            IF n = 0 THEN {<<<<>>, 0>>}
            ELSE f[n - 1] \cup UNION {{<<Append(e[1], slot(h, c).name), c>> : c \in Range(Subkeys(h, e[2]))}
                                        : e \in f[n - 1]}
    IN f[3]

View(h) == LET at == Reached(h)
           IN [p \in {e[1] : e \in at} |-> ValueOf(h, (CHOOSE e \in at : e[1] = p)[2])]

Empty == [p \in {<<>>} |-> 0]
With(t, p, d) == [q \in DOMAIN t \cup {p} |-> IF q = p THEN d ELSE t[q]]
Without(t, p) == [q \in {q \in DOMAIN t : ~IsPrefix(p, q)} |-> t[q]]

-----------------------------------------------------------------------------
(* The calls.                                                               *)

Begin(load) == load \in cmLoad /\ cmOps < MaxCmOps /\ cmOps' = cmOps + 1

\* The handle's key is gone, or its cell is another key's by now.
Stray(k) == /\ keys[k].mount = SystemPath
            /\ <<keys[k].path, keys[k].cell>> \notin Reached(hives[1].hive)

\* A change through a handle: the hive at the handle's index, if there is one.
Change(k, h, t) ==
    /\ keys[k].open
    /\ IF keys[k].hive < Len(hives)
       THEN /\ hives' = [hives EXCEPT ![keys[k].hive + 1].hive = h]
            /\ tree' = IF keys[k].mount = SystemPath THEN t ELSE tree
            /\ strayed' = (strayed \/ Stray(k))
            /\ raced' = (raced \/ \E f \in Flushers : flush[f].busy)
       ELSE UNCHANGED <<hives, tree, strayed, raced>>
    /\ UNCHANGED <<files, flush, loading, cmLoad, moved>>

HiveOf(k) == hives[keys[k].hive + 1].hive

\* A handle for a key below the mount, by the native id the mount was given.
handler_cm_open_key(k, m, name) ==
    /\ Begin("keys") /\ ~keys[k].open /\ \A j \in KeyHandles : j < k => keys[j].open
    /\ \E hm \in Range(hives) :
         /\ hm.path = m /\ hm.native < Len(hives)
         /\ \E c \in find_key(hives[hm.native + 1].hive, 0, name) :
              keys' = [keys EXCEPT ![k] = [hive |-> hm.native, cell |-> c, path |-> <<name>>,
                                           mount |-> m, open |-> TRUE]]
    /\ UNCHANGED <<hives, files, flush, loading, tree, cmLoad, strayed, raced, moved>>

\* RegistryCreateKey below an open key, or below the root of the system hive.
cm_create_key(k, name) ==
    /\ Begin("keys") /\ keys' = keys
    /\ Len(keys[k].path) < 2
    /\ keys[k].hive < Len(hives) => Len(HiveOf(k).cells) < MaxCells
    /\ Change(k, create_key(HiveOf(k), keys[k].cell, name),
              IF Append(keys[k].path, name) \in DOMAIN tree \/ Stray(k) THEN tree
              ELSE With(tree, Append(keys[k].path, name), 0))

CreateAtRoot(m, name) ==
    /\ Begin("keys")
    /\ \E i \in 1..Len(hives) :
         /\ hives[i].path = m /\ Len(hives[i].hive.cells) < MaxCells
         /\ hives' = [hives EXCEPT ![i].hive = create_key(@, 0, name)]
    /\ tree' = IF m # SystemPath \/ <<name>> \in DOMAIN tree THEN tree ELSE With(tree, <<name>>, 0)
    /\ raced' = (raced \/ \E f \in Flushers : flush[f].busy)
    /\ UNCHANGED <<files, keys, flush, loading, cmLoad, strayed, moved>>

\* The key itself; the handle's object goes with it, other handles stay.
cm_delete_key(k) ==
    /\ Begin("keys")
    /\ keys' = [keys EXCEPT ![k] = Closed]
    /\ Change(k, delete_key(HiveOf(k), keys[k].cell), Without(tree, keys[k].path))

cm_set_value(k, d) ==
    /\ Begin("values") /\ keys' = keys
    /\ keys[k].hive < Len(hives) => Len(HiveOf(k).cells) < MaxCells
    /\ Change(k, set_value(HiveOf(k), keys[k].cell, d),
              IF Stray(k) THEN tree ELSE With(tree, keys[k].path, d))

cm_delete_value(k) ==
    /\ Begin("values") /\ keys' = keys
    /\ Change(k, delete_value(HiveOf(k), keys[k].cell),
              IF Stray(k) THEN tree ELSE With(tree, keys[k].path, 0))

-----------------------------------------------------------------------------
(* Flush: copies under the lock, the file without it, clean under it again. *)

Copies(s) == [i \in 1..Len(s) |-> [at |-> i - 1, name |-> s[i].path, hive |-> s[i].hive]]

\* cm_flush_key takes one hive by its index; cm_flush_all_hives numbers the
\* dirty ones among themselves.
cm_flush_key(f, i) ==
    /\ Begin("flush") /\ ~flush[f].busy
    /\ i \in 1..Len(hives) /\ hives[i].hive.dirty
    /\ flush' = [flush EXCEPT ![f] = [todo |-> <<Copies(hives)[i]>>, busy |-> TRUE]]
    /\ UNCHANGED <<hives, files, keys, loading, tree, cmLoad, strayed, raced, moved>>

cm_flush_all_hives(f) ==
    /\ Begin("flush") /\ ~flush[f].busy
    /\ LET dirty == SelectSeq(hives, LAMBDA hm : hm.hive.dirty)
       IN dirty # <<>> /\ flush' = [flush EXCEPT ![f] = [todo |-> Copies(dirty), busy |-> TRUE]]
    /\ UNCHANGED <<hives, files, keys, loading, tree, cmLoad, strayed, raced, moved>>

\* Mutant: the hive is marked clean whether or not the write succeeded.
CleanAnyway(f, ok) ==
    /\ flush[f].busy
    /\ LET c == Head(flush[f].todo)
       IN /\ files' = IF ok THEN [files EXCEPT ![c.name] = serialize(c.hive)] ELSE files
          /\ hives' = IF c.at < Len(hives) THEN [hives EXCEPT ![c.at + 1].hive.dirty = FALSE] ELSE hives
    /\ flush' = [flush EXCEPT ![f].todo = Tail(@), ![f].busy = Len(flush[f].todo) > 1]
    /\ UNCHANGED <<keys, loading, tree, cmOps, cmLoad, strayed, raced, moved>>

\* One copy goes to its file; if that worked, the hive at the copy's index is
\* marked clean.
flush_hive_to_vfs(f, ok) ==
    /\ flush[f].busy
    /\ LET c == Head(flush[f].todo)
       IN /\ files' = IF ok THEN [files EXCEPT ![c.name] = serialize(c.hive)] ELSE files
          /\ hives' = IF ok /\ c.at < Len(hives)
                      THEN [hives EXCEPT ![c.at + 1].hive.dirty = FALSE] ELSE hives
    /\ flush' = [flush EXCEPT ![f].todo = Tail(@), ![f].busy = Len(flush[f].todo) > 1]
    /\ UNCHANGED <<keys, loading, tree, cmOps, cmLoad, strayed, raced, moved>>

-----------------------------------------------------------------------------
(* Mounting.                                                                *)

\* The path is free, the file read, the index the hive will have computed.
cm_load_hive(m) ==
    /\ Begin("mount") /\ \A hm \in Range(hives) : hm.path # m
    /\ loading[m] = -1
    /\ loading' = [loading EXCEPT ![m] = Len(hives)]
    /\ UNCHANGED <<hives, files, keys, flush, tree, cmLoad, strayed, raced, moved>>

mount(m) ==
    /\ loading[m] # -1
    /\ hives' = IF Len(hives) >= MAX_HIVES THEN hives
                ELSE Append(hives, [path |-> m, native |-> loading[m], hive |-> deserialize(files[m])])
    /\ loading' = [loading EXCEPT ![m] = -1]
    /\ moved' = (moved \/ loading[m] # Len(hives))
    /\ UNCHANGED <<files, keys, flush, tree, cmOps, cmLoad, strayed, raced>>

\* A dirty hive is written first; a failed write keeps it mounted.  The hives
\* behind it move down by one.
cm_unload_hive(m) ==
    /\ Begin("mount")
    /\ \E i \in 1..Len(hives) :
         /\ hives[i].path = m
         /\ hives' = RemoveAt(hives, i)
         /\ files' = IF hives[i].hive.dirty THEN [files EXCEPT ![m] = serialize(hives[i].hive)] ELSE files
    /\ moved' = TRUE
    /\ UNCHANGED <<keys, flush, loading, tree, cmLoad, strayed, raced>>

\* The machine stops at any point; the next boot mounts the system hive.
Reboot ==
    /\ Begin("crash")
    /\ hives' = <<[path |-> SystemPath, native |-> 0, hive |-> deserialize(files[SystemPath])]>>
    /\ tree' = View(deserialize(files[SystemPath]))
    /\ keys' = [k \in KeyHandles |-> Closed]
    /\ flush' = [f \in Flushers |-> NoFlush]
    /\ loading' = [m \in Paths |-> -1]
    /\ strayed' = FALSE /\ raced' = FALSE /\ moved' = FALSE
    /\ UNCHANGED <<files, cmLoad>>

CmInit ==
    /\ cmLoad \in CmLoads
    /\ hives = <<[path |-> SystemPath, native |-> 0, hive |-> NewHive]>>
    /\ files = [m \in Paths \cup {SystemPath} |-> NoFile]
    /\ keys = [k \in KeyHandles |-> Closed]
    /\ flush = [f \in Flushers |-> NoFlush]
    /\ loading = [m \in Paths |-> -1]
    /\ tree = Empty /\ cmOps = 0
    /\ strayed = FALSE /\ raced = FALSE /\ moved = FALSE

CmNext ==
    \/ \E k \in KeyHandles, n \in KeyNames :
         \/ cm_create_key(k, n)
         \/ \E m \in Paths \cup {SystemPath} : handler_cm_open_key(k, m, n)
    \/ \E k \in KeyHandles : cm_delete_key(k) \/ cm_delete_value(k) \/ \E d \in Data : cm_set_value(k, d)
    \/ \E m \in Paths \cup {SystemPath}, n \in KeyNames : CreateAtRoot(m, n)
    \/ \E f \in Flushers : \/ cm_flush_all_hives(f)
                           \/ \E i \in 1..MAX_HIVES : cm_flush_key(f, i)
                           \/ \E ok \in BOOLEAN : flush_hive_to_vfs(f, ok)
    \/ \E m \in Paths : cm_load_hive(m) \/ mount(m) \/ cm_unload_hive(m)
    \/ Reboot

CmSpec == CmInit /\ [][CmNext]_cmVars

-----------------------------------------------------------------------------
\* The linked cells are exactly the tree of keys and values the calls made: no
\* create, delete or reuse of a cell loses, duplicates or resurrects a key, and
\* the hive counts its used cells (until a call goes through a stale handle).
HiveIsTree ==
    ~strayed => /\ View(hives[1].hive) = tree
                /\ hives[1].hive.count = Cardinality({i \in 1..Len(hives[1].hive.cells) :
                                                        hives[1].hive.cells[i].kind # "None"})

\* A hive that claims to be clean is in its file, whatever flushes failed and
\* also after a reboot, for a file that can be read back at all
\* (until a hive is changed while a flush holds a copy of it).
CleanIsOnDisk ==
    \A i \in 1..Len(hives) :
        (~raced /\ ~moved /\ ~hives[i].hive.dirty /\ Loadable(files[hives[i].path])) =>
            View(hives[i].hive) = View([NewHive EXCEPT !.cells = files[hives[i].path]])

\* A key opened by its path is a key of the hive mounted there, with any
\* interleaving of loads and unloads.
PathAlwaysOpensItsHive ==
    \A k \in KeyHandles : (keys[k].open /\ keys[k].hive < Len(hives)) =>
        hives[keys[k].hive + 1].path = keys[k].mount

\* What flush_key reports as saved is saved: a hive that is not dirty is in its
\* file, also when other callers change it during the flush.
CleanIsAlwaysOnDisk ==
    \A i \in 1..Len(hives) :
        (~hives[i].hive.dirty /\ Loadable(files[hives[i].path])) =>
            View(hives[i].hive) = View([NewHive EXCEPT !.cells = files[hives[i].path]])
=============================================================================
