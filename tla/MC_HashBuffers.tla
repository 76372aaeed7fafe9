---------------------------- MODULE MC_HashBuffers ----------------------------
EXTENDS HashBuffers

\* A program the store holds before the batch starts
StoredPrograms == {<<1>>}
=============================================================================
