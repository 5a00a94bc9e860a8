------------------------------- MODULE BTree -------------------------------
\* The copy-on-write B-tree of NeoFS (fs/neofs/btree): insertion with node
\* splits, deletion with borrowing and merging, and the blocks each operation
\* replaces, which its caller frees. A node holds at most CAPACITY entries and is
\* underfull below half of that; the code measures bytes, and directory entries
\* differ little in size (133 to 180 bytes of 4096).
EXTENDS Integers, Sequences, FiniteSets, SequencesExt

CONSTANTS TreeKeys, \* keys: numbers above 0, which stands for the empty key
          TreeVals,
          CAPACITY,
          Filled,   \* the keys 1 .. Filled are there at first
          MaxBlock  \* the blocks are 1 .. MaxBlock

VARIABLES tree,  \* root_lba (0: no tree) and the allocated blocks
          model  \* the map the tree stands for

treeVars == <<tree, model>>

Blocks == 1 .. MaxBlock
Leaf == "leaf"
Internal == "internal"
Node(t, es) == [type |-> t, entries |-> es]
E(k, v) == [key |-> k, value |-> v]
node_fits(n) == Len(n.entries) <= CAPACITY
node_underfull(n) == 2 * Len(n.entries) < CAPACITY
split_index(n) == (Len(n.entries) + 1) \div 2

\* S is the state of an operation: b (block to node), garbage, and the results of
\* the last call: lba, and for a split the median key and the right half.
write_node(S, n) ==
    LET lba == CHOOSE x \in Blocks : x \notin DOMAIN S.b /\ \A y \in 1 .. x - 1 : y \in DOMAIN S.b
    IN [S EXCEPT !.b = [x \in DOMAIN S.b \cup {lba} |-> IF x = lba THEN n ELSE S.b[x]], !.lba = lba]

Trash(S, lbas) == [S EXCEPT !.garbage = @ \cup lbas]

\* find_pos: the number of smaller keys, in a node whose keys ascend.
Smaller(n, k) == Cardinality({i \in DOMAIN n.entries : n.entries[i].key < k})
HasKey(n, k) == \E i \in DOMAIN n.entries : n.entries[i].key = k

\* The entry of the child for key k.
child_index(n, k) ==
    IF HasKey(n, k) THEN Smaller(n, k) + 1 ELSE IF Smaller(n, k) = 0 THEN 1 ELSE Smaller(n, k)

Put(n, k, v) ==
    LET p == Smaller(n, k) + 1
    IN Node(n.type, IF HasKey(n, k) THEN [n.entries EXCEPT ![p].value = v]
                    ELSE InsertAt(n.entries, p, E(k, v)))

Delete(n, k) == IF HasKey(n, k) THEN Node(n.type, RemoveAt(n.entries, Smaller(n, k) + 1)) ELSE n

\* split_node and split_internal: the first key of a right inner node is empty.
Split(S, n) ==
    LET mid == split_index(n)
        rest == SubSeq(n.entries, mid + 1, Len(n.entries))
        L == write_node(S, Node(n.type, SubSeq(n.entries, 1, mid)))
        R == write_node(L, Node(n.type, IF n.type = Leaf THEN rest ELSE [rest EXCEPT ![1].key = 0]))
    IN [R EXCEPT !.split = TRUE, !.median = rest[1].key, !.lba = L.lba, !.right = R.lba]

WriteOrSplit(S, n) == IF node_fits(n) THEN write_node([S EXCEPT !.split = FALSE], n) ELSE Split(S, n)

RECURSIVE ins(_, _, _, _)
ins(S, lba, k, v) ==
    LET n == S.b[lba]
        i == child_index(n, k)
        C == ins(Trash(S, {lba}), n.entries[i].value, k, v)
        linked == [n.entries EXCEPT ![i].value = C.lba]
    IN IF n.type = Leaf THEN WriteOrSplit(Trash(S, {lba}), Put(n, k, v))
       ELSE WriteOrSplit(C, Node(Internal, IF C.split THEN InsertAt(linked, i + 1, E(C.median, C.right))
                                           ELSE linked))

insert_tracked(S, root, k, v) ==
    LET C == ins(S, root, k, v)
    IN IF root = 0 THEN write_node(S, Node(Leaf, <<E(k, v)>>))
       ELSE IF ~C.split THEN C
       ELSE write_node(C, Node(Internal, <<E(0, C.lba), E(C.median, C.right)>>))

-----------------------------------------------------------------------------
\* Rebalancing: P is the entries of the parent, i the underfull child's place. A
\* result is [s, p]: the state and the parent's entries.

\* Both nodes are rewritten: the one at i as a, the one after it as b.
Rewrite(S, P, i, a, b) ==
    LET L == write_node(Trash(S, {P[i].value, P[i + 1].value}), a)
        R == write_node(L, b)
    IN [s |-> R, p |-> [P EXCEPT ![i].value = L.lba, ![i + 1].value = R.lba]]

\* Mutant: a leaf's separator stays after the loan.
BorrowLeftKeepsSep(S, P, i) ==
    LET left == S.b[P[i - 1].value]
        child == S.b[P[i].value]
        loan == Last(left.entries)
    IN Rewrite(S, P, i - 1, Node(left.type, Front(left.entries)), Node(child.type, <<loan>> \o child.entries))

\* The last entry of the left sibling becomes the first of the child. In an inner
\* node it takes the separator as its key, and the child's first keeps its own.
borrow_left(S, P, i) ==
    LET left == S.b[P[i - 1].value]
        child == S.b[P[i].value]
        loan == Last(left.entries)
        first == IF child.type = Leaf THEN loan ELSE E(P[i].key, loan.value)
    IN Rewrite(S, [P EXCEPT ![i].key = loan.key], i - 1,
               Node(left.type, Front(left.entries)), Node(child.type, <<first>> \o child.entries))

\* The first entry of the right sibling becomes the last of the child; the
\* separator is the sibling's next key in a leaf, the moved key in an inner node.
borrow_right(S, P, i) ==
    LET child == S.b[P[i].value]
        right == S.b[P[i + 1].value]
        loan == Head(right.entries)
        last == IF child.type = Leaf THEN loan ELSE E(P[i + 1].key, loan.value)
        sep == IF child.type = Leaf THEN right.entries[2].key ELSE loan.key
    IN Rewrite(S, [P EXCEPT ![i + 1].key = sep], i,
               Node(child.type, Append(child.entries, last)), Node(right.type, Tail(right.entries)))

merge_nodes(left, right, sep) ==
    Node(left.type, left.entries \o
                    IF left.type = Leaf THEN right.entries ELSE [right.entries EXCEPT ![1].key = sep])

\* merge_into_left and merge_into_right: the nodes at i and i + 1 become one. Two
\* that do not fit stay, although both are garbage by then.
Merge(S, P, i) ==
    LET G == Trash(S, {P[i].value, P[i + 1].value})
        merged == merge_nodes(S.b[P[i].value], S.b[P[i + 1].value], P[i + 1].key)
        W == write_node(G, merged)
    IN IF ~node_fits(merged) THEN [s |-> G, p |-> P]
       ELSE [s |-> W, p |-> RemoveAt([P EXCEPT ![i].value = W.lba], i + 1)]

try_borrow_or_merge(S, P, i) ==
    IF ~node_underfull(S.b[P[i].value]) THEN [s |-> S, p |-> P]
    ELSE IF i > 1 /\ ~node_underfull(S.b[P[i - 1].value]) THEN borrow_left(S, P, i)
    ELSE IF i < Len(P) /\ ~node_underfull(S.b[P[i + 1].value]) THEN borrow_right(S, P, i)
    ELSE IF i > 1 THEN Merge(S, P, i - 1)
    ELSE IF i < Len(P) THEN Merge(S, P, i)
    ELSE [s |-> S, p |-> P]


\* del: lba 0 when nothing is left of the subtree.
RECURSIVE del(_, _, _)
del(S, lba, k) ==
    LET n == S.b[lba]
        rest == Delete(n, k)
        i == child_index(n, k)
        C == del(Trash(S, {lba}), n.entries[i].value, k)
        B == IF C.lba = 0 THEN [s |-> C, p |-> RemoveAt(n.entries, i)]
             ELSE try_borrow_or_merge(C, [n.entries EXCEPT ![i].value = C.lba], i)
    IN IF n.type = Leaf
       THEN IF rest.entries = << >> THEN [Trash(S, {lba}) EXCEPT !.lba = 0]
            ELSE write_node(Trash(S, {lba}), rest)
       ELSE IF B.p = << >> THEN [B.s EXCEPT !.lba = 0]
       ELSE write_node(B.s, Node(Internal, B.p))

\* A root with one child is replaced by the child.
delete_tracked(S, root, k) ==
    LET D == del(S, root, k)
        n == D.b[D.lba]
    IN IF root = 0 THEN [S EXCEPT !.lba = 0]
       ELSE IF D.lba # 0 /\ n.type = Internal /\ Len(n.entries) = 1
       THEN [Trash(D, {D.lba}) EXCEPT !.lba = n.entries[1].value]
       ELSE D

-----------------------------------------------------------------------------
RECURSIVE lookup(_, _, _)
lookup(b, lba, k) ==
    IF b[lba].type = Internal THEN lookup(b, b[lba].entries[child_index(b[lba], k)].value, k)
    ELSE IF HasKey(b[lba], k) THEN b[lba].entries[Smaller(b[lba], k) + 1].value ELSE 0

RECURSIVE walk_lbas(_, _)
walk_lbas(b, lba) ==
    {lba} \cup IF lba \notin DOMAIN b \/ b[lba].type = Leaf THEN {}
               ELSE UNION {walk_lbas(b, b[lba].entries[i].value) : i \in DOMAIN b[lba].entries}

Begin(b) == [b |-> b, garbage |-> {}, lba |-> 0, split |-> FALSE, median |-> 0, right |-> 0]

\* The caller commits the new root and frees the garbage.
Committed(S) == [root |-> S.lba, b |-> [x \in DOMAIN S.b \ S.garbage |-> S.b[x]]]

InsertKey(k, v) ==
    /\ tree' = Committed(insert_tracked(Begin(tree.b), tree.root, k, v))
    /\ model' = [model EXCEPT ![k] = v]

DeleteKey(k) ==
    /\ tree' = Committed(delete_tracked(Begin(tree.b), tree.root, k))
    /\ model' = [model EXCEPT ![k] = 0]

\* The tree after insertions of 1, 2, ..., n.
RECURSIVE Ascending(_)
Ascending(n) ==
    IF n = 0 THEN [root |-> 0, b |-> << >>]
    ELSE LET t == Ascending(n - 1)
         IN Committed(insert_tracked(Begin(t.b), t.root, n, CHOOSE v \in TreeVals : TRUE))

TreeInit ==
    /\ tree = Ascending(Filled)
    /\ model = [k \in TreeKeys |-> IF k <= Filled THEN CHOOSE v \in TreeVals : TRUE ELSE 0]

TreeNext == \E k \in TreeKeys : DeleteKey(k) \/ \E v \in TreeVals : InsertKey(k, v)

TreeSpec == TreeInit /\ [][TreeNext]_treeVars

-----------------------------------------------------------------------------
\* Every lookup finds what the last insertion of its key left, and the blocks in
\* use are exactly the nodes of the tree: no operation frees a node the new tree
\* still has, nor forgets one it replaced.
TreeIsMap ==
    /\ DOMAIN tree.b = walk_lbas(tree.b, tree.root) \ {0}
    /\ \A k \in TreeKeys : IF tree.root = 0 THEN model[k] = 0 ELSE lookup(tree.b, tree.root, k) = model[k]

\* "entries[i].key = separador; entries[i].value = child que maneja claves >=
\* entries[i].key" (child_index): the keys of an inner node ascend.
InternalSorted ==
    \A x \in DOMAIN tree.b : \A i \in 2 .. Len(tree.b[x].entries) :
        tree.b[x].entries[i - 1].key < tree.b[x].entries[i].key
=============================================================================
