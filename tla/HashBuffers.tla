----------------------------- MODULE HashBuffers -----------------------------
(***************************************************************************)
(* The hash buffers of the generated Main Executor: ctx.hashK (Keccak) and *)
(* ctx.hashP (Poseidon linear hash), maps from an address to a HashValue  *)
(* {data, reads, lenCalled, digestCalled, digest}, and the instructions    *)
(* that use them (main_generator.cpp): hashK/hashK1 and hashP/hashP1 with  *)
(* their free input, hashKLen/hashPLen, hashKDigest/hashPDigest with their *)
(* free input and counters, and the padding inputs the full variant builds *)
(* from the buffers at the end.  The ROM is abstracted to any sequence of  *)
(* these instructions on a few addresses.                                  *)
(*                                                                         *)
(* Data abstraction: a byte has BW bits; a hash is injective, so the       *)
(* digest of data d is the pair <<kind, d>>; the digest of a HashValue     *)
(* that nobody computed is the mpz zero, ZeroDigest.  The program store   *)
(* (Database getProgram/setProgram) is a set of byte strings.             *)
(***************************************************************************)
EXTENDS Integers, Sequences, SequencesExt, FiniteSets, TLC

CONSTANTS
  Kinds,        \* the buffer maps modelled: a subset of {"K", "P"}
  NAddrs,       \* number of buffer addresses the ROM uses (0..NAddrs-1)
  BW,           \* bits per byte (8 in the code)
  MaxSize,      \* largest size of one hashK/hashP (32 in the code)
  MaxData,      \* bound on a buffer's length
  KBlock,       \* bytes per Keccak-f (136 in the code)
  PBlock,       \* bytes per Poseidon linear-hash block (56 in the code)
  DBPrograms    \* byte strings the program store holds at the start

ByteVals == 0 .. 2^BW - 1
Addrs == 0 .. NAddrs - 1
ASSUME Kinds \subseteq {"K", "P"} /\ NAddrs >= 1 /\ MaxSize >= 1 /\ MaxData >= MaxSize

Running == "RUNNING"
Exited  == "exitProcess"

\* the error a buffer check of each kind returns
ErrOf(k) == IF k = "K" THEN "ZKR_SM_MAIN_HASHK" ELSE "ZKR_SM_MAIN_HASHP"

ZeroDigest == <<"zero">>
Hash(k, d) == <<k, d>>

Absent == [absent |-> TRUE]

\* HashValue emptyHashValue
EmptyBuf == [data |-> <<>>, reads |-> <<>>, lenCalled |-> FALSE,
             digestCalled |-> FALSE, digest |-> ZeroDigest]

\* an entry of ctx.hashK or ctx.hashP, created empty when missing
\* (a map not modelled is empty)
Entry(bufs, k, a) ==
  IF k \notin DOMAIN bufs \/ bufs[k][a] = Absent THEN EmptyBuf ELSE bufs[k][a]

\* s = (s << 8) + data[pos+j], over the bytes read
BytesToNum(bytes) == FoldLeft(LAMBDA s, b : s * 2^BW + b, 0, bytes)

\* Bug variants of the byte loop: a byte already there is overwritten
\* instead of compared; a gap before pos is filled instead of rejected
RECURSIVE WriteBytesOverwrite(_, _, _, _, _)
WriteBytesOverwrite(data, pos, size, a, j) ==
  IF j = size THEN [ok |-> TRUE, data |-> data]
  ELSE LET bm == (a \div 2^(BW * (size - j - 1))) % 2^BW
       IN  CASE Len(data) = pos + j -> WriteBytesOverwrite(Append(data, bm), pos, size, a, j + 1)
             [] Len(data) < pos + j -> [ok |-> FALSE, data |-> data]
             [] OTHER -> WriteBytesOverwrite([data EXCEPT ![pos + j + 1] = bm], pos, size, a, j + 1)

RECURSIVE WriteBytesNoGapCheck(_, _, _, _, _)
WriteBytesNoGapCheck(data, pos, size, a, j) ==
  IF j = size THEN [ok |-> TRUE, data |-> data]
  ELSE LET bm == (a \div 2^(BW * (size - j - 1))) % 2^BW
       IN  CASE Len(data) <= pos + j -> WriteBytesNoGapCheck(Append(data, bm), pos, size, a, j + 1)
             [] data[pos + j + 1] # bm -> [ok |-> FALSE, data |-> data]
             [] OTHER -> WriteBytesNoGapCheck(data, pos, size, a, j + 1)


(***************************************************************************)
(* The byte loop of hashK/hashP: byte j of a (most significant first) is   *)
(* appended when the buffer ends at pos+j, must equal the byte there when *)
(* it is longer, and is an error when the buffer ends before pos+j.       *)
(***************************************************************************)
RECURSIVE WriteBytes(_, _, _, _, _)
WriteBytes(data, pos, size, a, j) ==
  IF j = size THEN [ok |-> TRUE, data |-> data]
  ELSE LET bm == (a \div 2^(BW * (size - j - 1))) % 2^BW
       IN  CASE Len(data) = pos + j -> WriteBytes(Append(data, bm), pos, size, a, j + 1)
             [] Len(data) < pos + j -> [ok |-> FALSE, data |-> data]
             [] data[pos + j + 1] # bm -> [ok |-> FALSE, data |-> data]
             [] OTHER -> WriteBytes(data, pos, size, a, j + 1)

\* incCounter = ceil((data.size() + 1) / block)
IncCounter(len, block) == (len + 1 + block - 1) \div block

(***************************************************************************)
(* Padding inputs (full variant, after checkFinalState).  reads are        *)
(* rebuilt by walking the buffer: a recorded read at p gives a chunk of   *)
(* that size, any other byte a chunk of 1.                                *)
(***************************************************************************)
RECURSIVE Chunks(_, _, _)
Chunks(reads, len, p) ==
  IF p >= len THEN <<>>
  ELSE IF p \in DOMAIN reads /\ reads[p] # 0
       THEN <<reads[p]>> \o Chunks(reads, len, p + reads[p])
       ELSE <<1>> \o Chunks(reads, len, p + 1)

\* the p the walk ends at, checked against data.size()
ChunksEnd(reads, len) == FoldLeft(LAMBDA s, c : s + c, 0, Chunks(reads, len, 0))

(***************************************************************************)
(* for (i=0; i<ctx.hashK.size(); i++) ... ctx.hashK[i]: operator[] inserts *)
(* an empty entry for every missing i, which grows size(), so the loop    *)
(* visits every index up to the largest address.  The PaddingPG loop      *)
(* takes digestCalled and lenCalled from ctx.hashK[i].                    *)
(***************************************************************************)
PadEntry(data, reads, flagsFrom) ==
  [data |-> data, reads |-> Chunks(reads, Len(data), 0),
   ok |-> ChunksEnd(reads, Len(data)) = Len(data),
   lenCalled |-> flagsFrom.lenCalled, digestCalled |-> flagsFrom.digestCalled]

RECURSIVE PadLoop(_, _, _, _)
PadLoop(bufs, k, i, present) ==
  IF i >= Cardinality(present) THEN <<>>
  ELSE LET src   == Entry(bufs, k, i)
           flags == Entry(bufs, "K", i)
       IN  <<PadEntry(src.data, src.reads, flags)>>
             \o PadLoop(bufs, k, i + 1, present \cup {i})

Present(bufs, k) == {a \in Addrs : k \in DOMAIN bufs /\ bufs[k][a] # Absent}

PaddingInputs(bufs, k) == PadLoop(bufs, k, 0, Present(bufs, k))

-----------------------------------------------------------------------------
VARIABLES
  buf,          \* buf[k][a]: ctx.hashK / ctx.hashP
  db,           \* programs in the program store
  cnt,          \* cntKeccakF, cntPaddingPG, cntPoseidonG
  result,       \* proverRequest.result, or exitProcess
  padKK,        \* required.PaddingKK
  padPG         \* required.PaddingPG

vars == <<buf, db, cnt, result, padKK, padPG>>

Init ==
  /\ buf = [k \in Kinds |-> [a \in Addrs |-> Absent]]
  /\ db = DBPrograms
  /\ cnt = [keccakF |-> 0, paddingPG |-> 0, poseidonG |-> 0]
  /\ result = Running
  /\ padKK = <<>>
  /\ padPG = <<>>

Fail(code) == /\ result' = code /\ UNCHANGED <<buf, db, cnt, padKK, padPG>>

\* Bug variant: the "size > 32" exit is missing
HashWriteNoSizeCheck(k, a, size, pos, fromFree, v) ==
  LET b0  == Entry(buf, k, a)
      op  == IF fromFree THEN BytesToNum(SubSeq(b0.data, pos + 1, pos + size)) ELSE v
      wr  == WriteBytes(b0.data, pos, size, op, 0)
  IN  /\ result = Running
      /\ CASE pos < 0 -> Fail(Exited)
           [] fromFree /\ pos + size > Len(b0.data) -> Fail(ErrOf(k))
           [] ~wr.ok -> Fail(ErrOf(k))
           [] op \div 2^(BW * size) # 0 -> Fail(Exited)
           [] pos \in DOMAIN b0.reads /\ b0.reads[pos] # size -> Fail(ErrOf(k))
           [] OTHER ->
                /\ buf' = [buf EXCEPT ![k][a] =
                             [b0 EXCEPT !.data = wr.data,
                                        !.reads = (pos :> size) @@ b0.reads]]
                /\ UNCHANGED <<db, cnt, result, padKK, padPG>>

(***************************************************************************)
(* hashK / hashK1 (and hashP / hashP1): size from D0 (1 for hashK1), pos   *)
(* from HASHPOS, the value op either from the free input, which reads the  *)
(* bytes at pos, or from registers (v).  The free input and the           *)
(* instruction each create the entry when it is missing.                  *)
(***************************************************************************)
HashWrite(k, a, size, pos, fromFree, v) ==
  LET b0  == Entry(buf, k, a)
      op  == IF fromFree THEN BytesToNum(SubSeq(b0.data, pos + 1, pos + size)) ELSE v
      wr  == WriteBytes(b0.data, pos, size, op, 0)
  IN  /\ result = Running
      /\ CASE size > MaxSize -> Fail(Exited)
           [] pos < 0 -> Fail(Exited)
           [] fromFree /\ pos + size > Len(b0.data) -> Fail(ErrOf(k))
           [] ~wr.ok -> Fail(ErrOf(k))
           [] op \div 2^(BW * size) # 0 -> Fail(Exited)
           [] pos \in DOMAIN b0.reads /\ b0.reads[pos] # size -> Fail(ErrOf(k))
           [] OTHER ->
                /\ buf' = [buf EXCEPT ![k][a] =
                             [b0 EXCEPT !.data = wr.data,
                                        !.reads = (pos :> size) @@ b0.reads]]
                /\ UNCHANGED <<db, cnt, result, padKK, padPG>>

\* The hashK / hashK1 instruction on ctx.hashK
HashKWrite(a, size, pos, fromFree, v) == HashWrite("K", a, size, pos, fromFree, v)

\* The hashP / hashP1 instruction on ctx.hashP (same checks, HASHP error)
HashPWrite(a, size, pos, fromFree, v) == HashWrite("P", a, size, pos, fromFree, v)

(***************************************************************************)
(* hashKLen: lm = op.  A missing entry is created, with the Keccak of no  *)
(* bytes as digest, only when lm = 0.  A second Len exits; lm must be the *)
(* buffer's length; the digest is computed unless Digest already ran.     *)
(***************************************************************************)
HashKLen(a, lm) ==
  LET missing == buf["K"][a] = Absent
      b0 == IF missing THEN [EmptyBuf EXCEPT !.digest = Hash("K", <<>>)]
            ELSE buf["K"][a]
  IN  /\ result = Running
      /\ CASE missing /\ lm # 0 -> Fail("ZKR_SM_MAIN_HASHK")
           [] b0.lenCalled -> Fail(Exited)
           [] lm # Len(b0.data) -> Fail("ZKR_SM_MAIN_HASHK")
           [] OTHER ->
                /\ buf' = [buf EXCEPT !["K"][a] =
                             [b0 EXCEPT !.lenCalled = TRUE,
                                        !.digest = IF b0.digestCalled THEN @
                                                   ELSE Hash("K", b0.data)]]
                /\ UNCHANGED <<db, cnt, result, padKK, padPG>>

(***************************************************************************)
(* hashPLen: as hashKLen (the missing-entry error is the HASHK code and   *)
(* the empty digest is a Keccak), then, unless Digest already ran, an     *)
(* empty buffer is an error, the digest is the linear hash of the bytes   *)
(* and the bytes are stored with setProgram, which may fail (dbOk).       *)
(***************************************************************************)
HashPLen(a, lm, dbOk) ==
  LET missing == buf["P"][a] = Absent
      b0 == IF missing THEN [EmptyBuf EXCEPT !.digest = Hash("K", <<>>)]
            ELSE buf["P"][a]
  IN  /\ result = Running
      /\ CASE missing /\ lm # 0 -> Fail("ZKR_SM_MAIN_HASHK")
           [] b0.lenCalled -> Fail(Exited)
           [] lm # Len(b0.data) -> Fail("ZKR_SM_MAIN_HASHP")
           [] ~b0.digestCalled /\ b0.data = <<>> -> Fail("ZKR_SM_MAIN_HASHP")
           [] ~b0.digestCalled /\ ~dbOk -> Fail("ZKR_DB_ERROR")
           [] OTHER ->
                /\ buf' = [buf EXCEPT !["P"][a] =
                             [b0 EXCEPT !.lenCalled = TRUE,
                                        !.digest = IF b0.digestCalled THEN @
                                                   ELSE Hash("P", b0.data)]]
                /\ db' = IF b0.digestCalled THEN db ELSE db \cup {b0.data}
                /\ UNCHANGED <<cnt, result, padKK, padPG>>

(***************************************************************************)
(* hashKDigest: the free input needs the entry and lenCalled and returns  *)
(* the digest; the instruction needs the entry, compares op with the      *)
(* digest, exits on a second Digest, and adds ceil((len+1)/136) Keccak-f. *)
(***************************************************************************)
HashKDigest(a, fromFree, dg) ==
  LET b0 == buf["K"][a]
      op == IF fromFree THEN b0.digest ELSE dg
  IN  /\ result = Running
      /\ CASE b0 = Absent -> Fail("ZKR_SM_MAIN_HASHK")
           [] fromFree /\ ~b0.lenCalled -> Fail("ZKR_SM_MAIN_HASHK")
           [] op # b0.digest -> Fail("ZKR_SM_MAIN_HASHK")
           [] b0.digestCalled -> Fail(Exited)
           [] OTHER ->
                /\ buf' = [buf EXCEPT !["K"][a].digestCalled = TRUE]
                /\ cnt' = [cnt EXCEPT !.keccakF = @ + IncCounter(Len(b0.data), KBlock)]
                /\ UNCHANGED <<db, result, padKK, padPG>>

(***************************************************************************)
(* hashPDigest: the free input as for hashK; the instruction loads a      *)
(* missing entry from the program store by its digest (getProgram), exits *)
(* on a second Digest, counts ceil((len+1)/56) PaddingPG and PoseidonG,   *)
(* and only then compares op with the digest.                            *)
(***************************************************************************)
HashPDigest(a, fromFree, dg) ==
  LET b0    == buf["P"][a]
      op    == IF fromFree THEN b0.digest ELSE dg
      found == {d \in db : Hash("P", d) = op}
      b1    == IF b0 = Absent
               THEN [EmptyBuf EXCEPT !.data = CHOOSE d \in found : TRUE, !.digest = op]
               ELSE b0
      inc   == IncCounter(Len(b1.data), PBlock)
  IN  /\ result = Running
      /\ CASE fromFree /\ b0 = Absent -> Fail("ZKR_SM_MAIN_HASHP")
           [] fromFree /\ ~b0.lenCalled -> Fail("ZKR_SM_MAIN_HASHP")
           [] b0 = Absent /\ found = {} -> Fail("ZKR_DB_KEY_NOT_FOUND")
           [] b1.digestCalled -> Fail(Exited)
           [] op # b1.digest -> Fail("ZKR_SM_MAIN_HASHP")
           [] OTHER ->
                /\ buf' = [buf EXCEPT !["P"][a] = [b1 EXCEPT !.digestCalled = TRUE]]
                /\ cnt' = [cnt EXCEPT !.paddingPG = @ + inc, !.poseidonG = @ + inc]
                /\ UNCHANGED <<db, result, padKK, padPG>>

(***************************************************************************)
(* End of the full variant: build the PaddingKK and PaddingPG inputs; a   *)
(* walk that does not end at data.size() is an error.                    *)
(***************************************************************************)
Finalize ==
  /\ LET kk == PaddingInputs(buf, "K")
      pg == PaddingInputs(buf, "P")
      bad(s) == \E j \in DOMAIN s : ~s[j].ok
     IN  /\ result = Running
         /\ padKK' = kk
         /\ padPG' = pg
         /\ result' = CASE bad(kk) -> "ZKR_SM_MAIN_HASHK"
                        [] bad(pg) -> "ZKR_SM_MAIN_HASHP"
                        [] OTHER -> "ZKR_SUCCESS"
         /\ UNCHANGED <<buf, db, cnt>>

Stopped == result # Running /\ UNCHANGED vars

\* Inputs: sizes up to one past MaxSize, HASHPOS from -1, lengths within the
\* bound MaxData; an op from registers is any value of MaxSize bytes or the
\* first value wider than that (an op from the free input ignores v)
Sizes == 0 .. MaxSize + 1
Poss  == -1 .. MaxData
OpVals == 0 .. 2^(BW * MaxSize)
OpChoices(fromFree) == IF fromFree THEN {0} ELSE OpVals
Digests(k, a) ==
  {ZeroDigest} \cup {Hash(k, d) : d \in db \cup
                       (IF buf[k][a] = Absent THEN {} ELSE {buf[k][a].data})}

Next ==
  \/ "K" \in Kinds /\ \E a \in Addrs, size \in Sizes, pos \in Poss,
                         fromFree \in BOOLEAN : \E v \in OpChoices(fromFree) :
        pos + size <= MaxData /\ HashKWrite(a, size, pos, fromFree, v)
  \/ "P" \in Kinds /\ \E a \in Addrs, size \in Sizes, pos \in Poss,
                         fromFree \in BOOLEAN : \E v \in OpChoices(fromFree) :
        pos + size <= MaxData /\ HashPWrite(a, size, pos, fromFree, v)
  \/ "K" \in Kinds /\ \E a \in Addrs, lm \in 0 .. MaxData :
        HashKLen(a, lm)
  \/ "P" \in Kinds /\ \E a \in Addrs, lm \in 0 .. MaxData, dbOk \in BOOLEAN :
        HashPLen(a, lm, dbOk)
  \/ "K" \in Kinds /\ \E a \in Addrs, fromFree \in BOOLEAN : \E dg \in Digests("K", a) :
        HashKDigest(a, fromFree, dg)
  \/ "P" \in Kinds /\ \E a \in Addrs, fromFree \in BOOLEAN : \E dg \in Digests("P", a) :
        HashPDigest(a, fromFree, dg)
  \/ Finalize
  \/ Stopped

Spec == Init /\ [][Next]_vars
-----------------------------------------------------------------------------

TypeOK ==
  /\ \A k \in Kinds, a \in Addrs :
       buf[k][a] = Absent
       \/ /\ buf[k][a].data \in Seq(ByteVals) /\ Len(buf[k][a].data) <= MaxData
          /\ \A p \in DOMAIN buf[k][a].reads :
               p \in 0 .. MaxData /\ buf[k][a].reads[p] \in 0 .. MaxSize
  /\ db \subseteq Seq(ByteVals)
  /\ cnt \in [{"keccakF", "paddingPG", "poseidonG"} -> Nat]

(***************************************************************************)
(* Spec 8, hash-buffer determinism: a byte once in a buffer never changes  *)
(* and a buffer only grows; a hashK/hashP of the same bytes at the same    *)
(* offset leaves it as it is, one of different bytes is rejected.          *)
(***************************************************************************)
BytesNeverRewritten ==
  [][\A k \in Kinds, a \in Addrs :
       buf[k][a] # Absent => IsPrefix(buf[k][a].data, buf'[k][a].data)]_vars

(***************************************************************************)
(* Every read of one or more bytes the hashK/hashP instructions record    *)
(* lies inside the buffer: the bytes pos .. pos+size-1 exist.  The padding *)
(* walk relies on it.  (A read of size 0 writes nothing and may be        *)
(* recorded at any pos.)                                                   *)
(***************************************************************************)
ReadsWithinData ==
  \A k \in Kinds, a \in Addrs :
    buf[k][a] # Absent =>
      \A pos \in DOMAIN buf[k][a].reads :
        buf[k][a].reads[pos] > 0 => pos + buf[k][a].reads[pos] <= Len(buf[k][a].data)

(***************************************************************************)
(* A buffer whose Digest instruction passed holds the hash of its bytes as *)
(* digest, the value the Keccak and padding circuits will compute.         *)
(***************************************************************************)
DigestIsHashOfData ==
  \A k \in Kinds, a \in Addrs :
    buf[k][a] # Absent /\ buf[k][a].digestCalled =>
      buf[k][a].digest = Hash(k, buf[k][a].data)

(***************************************************************************)
(* The padding inputs are one per buffer the execution used, in address    *)
(* order, each with its own bytes, reads and lenCalled/digestCalled flags. *)
(***************************************************************************)
OwnPadding(k) ==
  LET as == SetToSortSeq(Present(buf, k), <)
  IN  [j \in DOMAIN as |-> PadEntry(buf[k][as[j]].data, buf[k][as[j]].reads, buf[k][as[j]])]

PaddingInputsMatchBuffers ==
  result = "ZKR_SUCCESS" => padKK = OwnPadding("K") /\ padPG = OwnPadding("P")
====
