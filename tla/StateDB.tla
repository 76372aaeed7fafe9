------------------------------ MODULE StateDB ------------------------------
(***************************************************************************)
(* The state DB the executor calls through pStateDB (get and set on a      *)
(* sparse Merkle tree), abstracted to what the executor can observe: a     *)
(* tree is a function from the keys it holds to nonzero values, a key      *)
(* that is not held reads 0, and setting a key to 0 removes it.  A root    *)
(* names a tree by content: the DB is a function from roots to trees, the *)
(* empty tree has root 0, and set returns the root already given to the    *)
(* resulting tree, or the next fresh root.                                 *)
(***************************************************************************)
EXTENDS Naturals, FiniteSets

EmptyKV == [k \in {} |-> 0]

\* get(root, key): the value of k in tree m, 0 when the tree lacks it
KVGet(m, k) == IF k \in DOMAIN m THEN m[k] ELSE 0

\* set(root, key, value): the tree with k bound to v; a zero value deletes k
KVSet(m, k, v) ==
  LET keys == (DOMAIN m \ {k}) \cup (IF v = 0 THEN {} ELSE {k})
  IN  [x \in keys |-> IF x = k THEN v ELSE m[x]]

\* The root of tree m in db: the existing one, else the next fresh root
RootOf(db, m) ==
  IF \E r \in DOMAIN db : db[r] = m
  THEN CHOOSE r \in DOMAIN db : db[r] = m
  ELSE Cardinality(DOMAIN db)

\* The DB after a set stores the resulting tree under its root
DBWith(db, m) == [r \in DOMAIN db \cup {RootOf(db, m)} |-> IF r \in DOMAIN db THEN db[r] ELSE m]

EmptyDB == [r \in {0} |-> EmptyKV]
=============================================================================
