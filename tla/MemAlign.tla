------------------------------ MODULE MemAlign ------------------------------
(***************************************************************************)
(* The memAlign formulas of the Main Executor: reading a word that starts *)
(* at byte offset of the two-word window m0|m1 (memAlignRD, and the free  *)
(* input of a memAlignRD line), writing a word there (memAlignWR: the new *)
(* m0, m1 are w0, w1), and writing one byte into m0 (memAlignWR8: w0).     *)
(* The code works on 256-bit mpz scalars with 8-bit bytes; every operator *)
(* here takes the word length in bytes K (32) and the byte width BB (8)   *)
(* as arguments, so that 256 reads K*BB, 31 reads K-1, 0xFF reads 2^BB-1. *)
(* Shifts are multiplications and divisions by powers of two; & and | are *)
(* those of Bitwise.                                                      *)
(***************************************************************************)
EXTENDS Integers, Bitwise
LOCAL INSTANCE Sequences
LOCAL INSTANCE SequencesExt

WordBits(K, BB) == K * BB
Mask(K, BB)     == 2^WordBits(K, BB) - 1           \* Mask256
ByteMax(BB)     == 2^BB - 1                        \* 0xFF

\* byteMaskOn256: a 2*256-bit mask, all ones but the top byte of the low word
ByteMaskOn(K, BB) == (2^(2 * WordBits(K, BB)) - 1) - ByteMax(BB) * 2^(WordBits(K, BB) - BB)

(***************************************************************************)
(* memAlignRD: leftV = (m0 << offset*8) & Mask256, rightV = (m1 >> (256 - *)
(* offset*8)) & (Mask256 >> (256 - offset*8)), V = leftV | rightV.         *)
(***************************************************************************)
MemAlignRDValue(K, BB, m0, m1, off) ==
  LET wb     == WordBits(K, BB)
      leftV  == (m0 * 2^(off * BB)) & Mask(K, BB)
      rightV == (m1 \div 2^(wb - off * BB)) & (Mask(K, BB) \div 2^(wb - off * BB))
  IN  leftV | rightV

(***************************************************************************)
(* memAlignWR: _W0 = (m0 & (TwoTo256 - (One << (256-offset*8)))) |        *)
(* (v >> offset*8) and _W1 = (m1 & (Mask256 >> offset*8)) | ((v << (256 - *)
(* offset*8)) & Mask256).                                                  *)
(***************************************************************************)
MemAlignW0(K, BB, m0, v, off) ==
  LET wb == WordBits(K, BB)
  IN  (m0 & (2^wb - 2^(wb - off * BB))) | (v \div 2^(off * BB))

MemAlignW1(K, BB, m1, v, off) ==
  LET wb == WordBits(K, BB)
  IN  (m1 & (Mask(K, BB) \div 2^(off * BB))) | ((v * 2^(wb - off * BB)) & Mask(K, BB))

(***************************************************************************)
(* memAlignWR8 in the interpreter: "v & 0xFF << (31-offset)*8" parses as   *)
(* v & (0xFF << (31-offset)*8), a byte of v left in place.  The int shift *)
(* is defined for offsets 28..31 only (count < 32); the operator gives the *)
(* value of those.                                                         *)
(***************************************************************************)
InterpWR8W0(K, BB, m0, v, off) ==
  (m0 & (ByteMaskOn(K, BB) \div 2^(off * BB)))
    | (IF off = K THEN 0 ELSE v & (ByteMax(BB) * 2^((K - 1 - off) * BB)))

(***************************************************************************)
(* memAlignWR8 in the generated code: _W0 = (m0 & (byteMaskOn256 >>       *)
(* (offset*8))) | ((v & 0xFF) << ((31-offset)*8)).  offset is a uint64_t,  *)
(* so at offset 32 the shift count wraps to 2^64-8: mpz shifts a zero by  *)
(* it to zero, and any other value past GMP's size limit, which aborts.    *)
(***************************************************************************)
MemAlignWR8Aborts(K, BB, v, off) == off = K /\ (v & ByteMax(BB)) # 0

MemAlignWR8W0(K, BB, m0, v, off) ==
  (m0 & (ByteMaskOn(K, BB) \div 2^(off * BB)))
    | (IF off = K THEN 0 ELSE (v & ByteMax(BB)) * 2^((K - 1 - off) * BB))

-----------------------------------------------------------------------------
(***************************************************************************)
(* The reference: a word is K bytes, most significant first; memory is the *)
(* 2K bytes of m0 followed by m1.                                          *)
(***************************************************************************)
BytesOf(K, BB, x) == [j \in 1 .. K |-> (x \div 2^((K - j) * BB)) % 2^BB]

ValueOf(BB, s) == FoldLeft(LAMBDA acc, b : acc * 2^BB + b, 0, s)

Window(K, BB, m0, m1) == BytesOf(K, BB, m0) \o BytesOf(K, BB, m1)

\* The K bytes that start offset bytes into the window
RefRead(K, BB, m0, m1, off) == ValueOf(BB, SubSeq(Window(K, BB, m0, m1), off + 1, off + K))

\* The window with the K bytes of v written offset bytes into it
RefWrite(K, BB, m0, m1, v, off) ==
  LET s == Window(K, BB, m0, m1)
      t == [j \in 1 .. 2 * K |-> IF j - off \in 1 .. K THEN BytesOf(K, BB, v)[j - off] ELSE s[j]]
  IN  <<ValueOf(BB, SubSeq(t, 1, K)), ValueOf(BB, SubSeq(t, K + 1, 2 * K))>>

\* m0 with its byte at offset replaced by the low byte of v
RefWrite8(K, BB, m0, v, off) ==
  ValueOf(BB, [BytesOf(K, BB, m0) EXCEPT ![off + 1] = v % 2^BB])
=============================================================================
