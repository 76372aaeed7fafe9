------------------------------ MODULE KVStore ------------------------------
(***************************************************************************)
(* What the storage instructions promise the ROM: one key-value store,     *)
(* empty at the start of the batch, that a storage write updates at one    *)
(* key and nothing else changes while the batch runs.  The batch ends by  *)
(* letting go of the store: finalizeExecution zeroes the state root, and   *)
(* root 0 names the empty tree.  The executor's state root SR, read in     *)
(* the state DB, is shown to implement it (MC_GenMainExec!StoreRefinement).*)
(***************************************************************************)
EXTENDS StateDB

CONSTANTS Keys, Values

VARIABLES store, open

Init == store = EmptyKV /\ open = TRUE

\* A storage write binds one key to one value
Write(k, v) == open /\ store' = KVSet(store, k, v) /\ UNCHANGED open

\* The batch is over; no write follows
Close == open /\ ~open' /\ store' = EmptyKV

Next == (\E k \in Keys, v \in Values : Write(k, v)) \/ Close

Spec == Init /\ [][Next]_<<store, open>>
=============================================================================
