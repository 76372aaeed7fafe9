----------------------------- MODULE GenMainStep -----------------------------
(***************************************************************************)
(* The Main Executor as emitted by the code generator                      *)
(* (src/src/main_generator/main_generator.cpp, generate()).  The generator *)
(* unrolls the ROM into one labelled block per line; every block runs the  *)
(* same pipeline: selectors -> free input -> instruction checks -> setters *)
(* -> counters -> RCX -> jumps -> end-of-step -> goto.  It is emitted      *)
(* twice: a fast variant (bFastMode, one evaluation slot, carry kept in    *)
(* pols.carry[0] across steps) and a full variant (one trace row per step, *)
(* nexti = (i+1) % N).                                                     *)
(*                                                                         *)
(* Data abstraction: a field element is an integer mod P; a register that  *)
(* holds 8 limbs is abstracted to its limb 0, and fea2scalar of it is that *)
(* value read as a natural; 256-bit scalar arithmetic becomes W-bit        *)
(* arithmetic (Limb = 2^W).  The S33 convention of JMPN keeps its three    *)
(* ranges: 0..LastPos positive, FirstNeg..P-1 negative, the rest invalid.  *)
(* A ROM line is a record of the flags the generator reads; the lines of   *)
(* the program are chosen lazily the first time control reaches them, so  *)
(* one model covers every small ROM built from the instructions Instrs.    *)
(***************************************************************************)
EXTENDS Integers, FiniteSets, TLC, Bitwise, StateDB, MemAlign

CONSTANTS
  P,            \* field modulus (Goldilocks in the code)
  W,            \* scalar width in bits (256 in the code)
  N,            \* mainExecutor.N, number of evaluations
  NNoCounters,  \* mainExecutor.N_NoCounters
  NProg,        \* number of program lines before finalizeExecution
  Instrs,       \* the ROM lines a program line may hold
  FreeVals,     \* values a command (freeInTag) may return
  MaxArith,     \* mainExecutor.MAX_CNT_ARITH
  MaxBinary,    \* mainExecutor.MAX_CNT_BINARY
  MaxMemAlign,  \* mainExecutor.MAX_CNT_MEM_ALIGN
  ASAP,         \* CHECK_MAX_CNT_ASAP is defined (DEBUG builds)
  NoCounters,   \* proverRequest.input.bNoCounters
  ProcessBatch  \* proverRequest.type == prt_processBatch

Limb     == 2^W
LastPos  == Limb - 1            \* FrLast32Positive
FirstNeg == P - Limb            \* FrFirst32Negative
ASSUME P > 2 * Limb /\ N >= 4 /\ NNoCounters >= 4 /\ NProg >= 1

(***************************************************************************)
(* The ROM.  Lines 0..NProg-1 are the program; the last three lines are    *)
(* the epilogue every zkEVM ROM ends with: finalizeExecution zeroes the    *)
(* registers, finalWait loops on a negative ${beforeLast()} until the step *)
(* before last, and the last line jumps back to line 0 so that the row     *)
(* after the last one (row 0) holds the initial state again.               *)
(***************************************************************************)
Fin      == NProg
FinWait  == NProg + 1
Restart  == NProg + 2
Lines    == 0 .. Restart
ProgLines == 0 .. NProg - 1
Nop == [inA |-> 0, inB |-> 0, inC |-> 0, inD |-> 0, inRCX |-> 0, inRR |-> 0,
        inFREE |-> 0, CONST |-> 0, freeBeforeLast |-> FALSE,
        assert |-> FALSE, arith |-> FALSE, bin |-> FALSE, binOpcode |-> 0,
        setA |-> FALSE, setB |-> FALSE, setC |-> FALSE, setD |-> FALSE,
        setRCX |-> FALSE, setRR |-> FALSE, repeat |-> FALSE,
        jmp |-> "none", jmpAddr |-> 0, useElseAddr |-> FALSE, elseAddr |-> 0,
        inSR |-> 0, setSR |-> FALSE, sRD |-> FALSE, sWR |-> FALSE,
        mOp |-> FALSE, mWR |-> FALSE, offset |-> 0, indRR |-> FALSE,
        isStack |-> FALSE, isMem |-> FALSE, setSP |-> FALSE, incStack |-> 0,
        memAlignRD |-> FALSE, memAlignWR |-> FALSE, memAlignWR8 |-> FALSE,
        inE |-> 0, inSP |-> 0, inCTX |-> 0, setE |-> FALSE, setCTX |-> FALSE,
        ind |-> FALSE, useCTX |-> FALSE]

\* A program line control has not reached yet
NoLine == [Nop EXCEPT !.jmp = "unchosen"]

Epilogue ==
  (Fin     :> [Nop EXCEPT !.setA = TRUE, !.setB = TRUE, !.setC = TRUE, !.setD = TRUE,
                          !.setE = TRUE, !.setSR = TRUE, !.setSP = TRUE,
                          !.setCTX = TRUE])
  @@ (FinWait :> [Nop EXCEPT !.inFREE = 1, !.freeBeforeLast = TRUE,
                             !.jmp = "JMPN", !.jmpAddr = FinWait])
  @@ (Restart :> [Nop EXCEPT !.jmp = "JMP", !.jmpAddr = 0])

InitRom == [l \in Lines |-> IF l \in ProgLines THEN NoLine ELSE Epilogue[l]]

(***************************************************************************)
(* Result codes (proverRequest.result) and the process exit.               *)
(***************************************************************************)
Running  == "RUNNING"
Success  == "ZKR_SUCCESS"
Exited   == "exitProcess"
Crashed  == "goto through labels[] out of range"
OOCArith == "ZKR_SM_MAIN_OOC_ARITH"
OOCBin   == "ZKR_SM_MAIN_OOC_BINARY"
OOCMemAlign == "ZKR_SM_MAIN_OOC_MEM_ALIGN"
OOC      == {OOCArith, OOCBin, OOCMemAlign}
StorageErr == "ZKR_SM_MAIN_STORAGE"
DBErr    == "pStateDB->get/set result"   \* the state DB's own error code
AddrErr  == "ZKR_SM_MAIN_ADDRESS"
MemErr   == "ZKR_SM_MAIN_MEMORY"
AlignErr == "ZKR_SM_MAIN_MEMALIGN"
Aborted  == "abort() in GMP"
Results  == {Running, Success, Exited, Crashed, "ZKR_SM_MAIN_ARITH",
             "ZKR_SM_MAIN_BINARY", StorageErr, DBErr, AddrErr, MemErr,
             AlignErr, Aborted} \cup OOC

\* N_Max: the bNoCounters run is shorter
NMax == IF NoCounters THEN NNoCounters ELSE N

(***************************************************************************)
(* The executor state the generated function keeps: the registers (limb 0 *)
(* of the current evaluation), the counters, the carry slot, the step i,   *)
(* ctx.lastStep, and the result.  trPC is the zkPC the full variant writes *)
(* into the next trace row (pols.zkPC[nexti]).  SR is the state root, db   *)
(* the state DB behind pStateDB, swStep and swRoot the ctx.lastSWrite      *)
(* cache (step and newRoot); initState zeroes SR and the cache.  mem is    *)
(* ctx.mem (address -> limb 0 of the stored value), empty at the start;   *)
(* SP the stack pointer, CTX the context, E the register that ind lines    *)
(* index with and memAlignWR reads w1 from.                                *)
(***************************************************************************)
InitExec ==
  [zkPC |-> 0, i |-> 0, A |-> 0, B |-> 0, C |-> 0, D |-> 0, E |-> 0, RCX |-> 0,
   RR |-> 0, SP |-> 0, CTX |-> 0, mem |-> EmptyKV,
   SR |-> 0, db |-> EmptyDB, swStep |-> 0, swRoot |-> 0,
   carry |-> 0, cntArith |-> 0, cntBinary |-> 0, cntMemAlign |-> 0,
   lastStep |-> 0, trPC |-> 0,
   repArith |-> 0, repBinary |-> 0, repMemAlign |-> 0, repSteps |-> 0,
   exitWhy |-> IF NoCounters /\ ~ProcessBatch THEN "bNoCounters" ELSE "none",
   result |-> IF NoCounters /\ ~ProcessBatch THEN Exited ELSE Running]

\* selector8 (A..E, SR), selector1 (CTX, SP, RCX, RR) and selectorConst: op0
\* summed from the in* weights of the registers and CONST
SelectorSum(ex, ins) ==
  ins.inA * ex.A + ins.inB * ex.B + ins.inC * ex.C + ins.inD * ex.D
  + ins.inE * ex.E + ins.inSR * ex.SR + ins.inCTX * ex.CTX + ins.inSP * ex.SP
  + ins.inRCX * ex.RCX + ins.inRR * ex.RR + ins.CONST

\* The selectors in the order the block emits them, then "op = op + inFREE*fi"
Op(ex, ins, fi) == (SelectorSum(ex, ins) + ins.inFREE * fi) % P

\* The expected result c of a binary opcode on the scalars a, b
SignedOf(x) == IF x >= Limb \div 2 THEN x - Limb ELSE x
BinExpected(opc, a, b) ==
  CASE opc = 0 -> (a + b) % Limb
    [] opc = 1 -> (a - b) % Limb
    [] opc = 2 -> IF a < b THEN 1 ELSE 0
    [] opc = 3 -> IF SignedOf(a) < SignedOf(b) THEN 1 ELSE 0
    [] opc = 4 -> IF a = b THEN 1 ELSE 0
    [] opc = 5 -> a & b
    [] opc = 6 -> a | b
    [] opc = 7 -> a ^^ b

\* The carry the ADD..EQ opcodes store in pols.carry
BinCarry(opc, a, b) ==
  CASE opc = 0 -> IF (a + b) \div Limb > 0 THEN 1 ELSE 0
    [] opc = 1 -> IF a < b THEN 1 ELSE 0
    [] opc = 2 -> IF a < b THEN 1 ELSE 0
    [] opc = 3 -> IF SignedOf(a) < SignedOf(b) THEN 1 ELSE 0
    [] opc = 4 -> IF a = b THEN 1 ELSE 0
    [] OTHER   -> 0

\* Bug variant: the fast variant writes the carry of ADD and SUB only
CarryAfterBinFastAddSubOnly(fast, ex, ins, op) ==
  LET carryIn == IF fast THEN ex.carry ELSE 0
  IN  IF ~ins.bin THEN carryIn
      ELSE IF ins.binOpcode <= (IF fast THEN 1 ELSE 4)
           THEN BinCarry(ins.binOpcode, ex.A, ex.B)
      ELSE IF ins.binOpcode = 5 /\ ~fast /\ op # 0 THEN 1
      ELSE carryIn

(***************************************************************************)
(* The carry after the binary instruction.  Fast mode keeps one slot,      *)
(* pols.carry[0], which AND/OR/XOR never write; full mode writes row i,    *)
(* which starts at zero, and AND sets it when c != 0.                      *)
(***************************************************************************)
CarryAfterBin(fast, ex, ins, op) ==
  LET carryIn == IF fast THEN ex.carry ELSE 0
  IN  IF ~ins.bin THEN carryIn
      ELSE IF ins.binOpcode <= 4 THEN BinCarry(ins.binOpcode, ex.A, ex.B)
      ELSE IF ins.binOpcode = 5 /\ ~fast /\ op # 0 THEN 1
      ELSE carryIn

(***************************************************************************)
(* Storage.  The key is poseidon(C, poseidon-capacity(A, B)): an injective *)
(* hash, abstracted to the triple it absorbs.  SWrite is the block that    *)
(* computes a write: ctx.lastSWrite.reset(), the key, pStateDB->set(SR,    *)
(* key, D) and ctx.lastSWrite.step = i; the caller has checked that SR is *)
(* a root the DB holds (otherwise set fails and the function returns).     *)
(***************************************************************************)
SKey(ex) == <<ex.C, ex.A, ex.B>>

SWrite(ex) ==
  LET m == KVSet(ex.db[ex.SR], SKey(ex), ex.D)
  IN  [ex EXCEPT !.db = DBWith(ex.db, m), !.swStep = ex.i,
                 !.swRoot = RootOf(ex.db, m)]

\* Bug variant: lastSWrite is reused whenever it is set, whatever the step
SWCacheHitAnyStep(ex) == ex.swStep # 0

\* The sWR instruction reuses lastSWrite unless "(step == 0) || (step != i)"
SWCacheHit(ex) == ex.swStep # 0 /\ ex.swStep = ex.i

\* Bug variant: the new root is not compared with op
SWriteOkUnchecked(ex, op) == TRUE

\* "Check that the new root hash equals op0": lastSWrite.newRoot against op
SWriteOk(ex, op) == ex.swRoot = op

(***************************************************************************)
(* Memory.  A line that uses an address (mOp, mWR, the hash and jump       *)
(* instructions) loads addrRel from E when ind and from RR when indRR      *)
(* (fr.toS32, read with the S33 ranges of JMPN), adds the ROM's offset     *)
(* after the range checks, or takes the offset alone; useCTX then adds     *)
(* CTX*CTX_OFFSET, isStack STACK_OFFSET + SP and isMem MEM_OFFSET.         *)
(* RegionSize stands for 0x10000 (STACK_OFFSET is one region, MEM_OFFSET   *)
(* two, CTX_OFFSET four); it exceeds every relative address the modelled  *)
(* ROMs form.  A negative addrRel with no offset would wrap through uint64_t;   *)
(* no modelled line indexes without an offset.                             *)
(***************************************************************************)
RegionSize  == 4 * Limb
StackOffset == RegionSize
MemOffset   == 2 * RegionSize
CtxOffset   == 4 * RegionSize

CondJumps == {"JMPN", "JMPC", "JMPZ"}

S32(x) == IF x >= FirstNeg THEN x - P ELSE x

AddressUsed(ins) == ins.mOp \/ ins.mWR \/ ins.jmp \in CondJumps \cup {"JMP", "call"}

\* A line with both ind and indRR is refused when the code is generated
Indexed(ins) == ins.ind \/ ins.indRR

AddrRel(ex, ins) ==
  CASE ins.ind   -> S32(ex.E)
    [] ins.indRR -> S32(ex.RR)
    [] OTHER     -> 0

\* With addrRel and an offset: "addrRel >= 0x20000" (0x10000 for isMem) on
\* a positive offset, with addrRel cast to uint64_t, and "addrRel < 0" on a
\* negative one
AddrOutOfRange(ex, ins) ==
  LET rel == AddrRel(ex, ins)
  IN  /\ AddressUsed(ins) /\ Indexed(ins) /\ ins.offset # 0
      /\ IF ins.offset > 0
         THEN \/ rel < 0 \/ rel + ins.offset >= 2 * RegionSize
              \/ ins.isMem /\ rel + ins.offset >= RegionSize
         ELSE -ins.offset > rel

\* Bug variant: a stack address without SP, as the interpreter's isStack
MemAddrNoSP(ex, ins) ==
  AddrRel(ex, ins) + ins.offset
  + (IF ins.useCTX THEN ex.CTX * CtxOffset ELSE 0)
  + (IF ins.isStack THEN StackOffset ELSE 0)
  + (IF ins.isMem THEN MemOffset ELSE 0)

MemAddr(ex, ins) ==
  AddrRel(ex, ins) + ins.offset
  + (IF ins.useCTX THEN ex.CTX * CtxOffset ELSE 0)
  + (IF ins.isStack THEN StackOffset + ex.SP ELSE 0)
  + (IF ins.isMem THEN MemOffset ELSE 0)

\* mOp without mWR: a stored value must equal op, an address never written
\* must have op = 0
MemReadOk(ex, ins, op) == ~ins.mOp \/ ins.mWR \/ KVGet(ex.mem, MemAddr(ex, ins)) = op

\* mOp with mWR: ctx.mem[addr] = op
MemStore(ex, ins, op) ==
  IF ins.mOp /\ ins.mWR THEN (MemAddr(ex, ins) :> op) @@ ex.mem ELSE ex.mem

\* setCTX: CTX = op; otherwise CTX is kept
NextCTX(ex, ins, op) == IF ins.setCTX THEN op ELSE ex.CTX

\* setSP: SP = op; otherwise SP = SP + fr.fromS32(incStack)
NextSP(ex, ins, op) ==
  IF ins.setSP THEN op
  ELSE IF ins.incStack # 0 THEN (ex.SP + ins.incStack) % P
  ELSE ex.SP

(***************************************************************************)
(* memAlign on m0 = A, m1 = B, offset = C and v = op (w0 = D, w1 = E).  The *)
(* step's W-bit scalars are words of W one-bit bytes.  An offset above 32  *)
(* (C read as a natural) is ZKR_SM_MAIN_MEMALIGN, in the free input of a  *)
(* memAlignRD line and in the instruction.                                 *)
(***************************************************************************)
AlignK  == W
AlignBB == 1

IsMemAlign(ins) == ins.memAlignRD \/ ins.memAlignWR \/ ins.memAlignWR8

AlignOffsetBad(ex) == ex.C > AlignK

MemAlignOk(ex, ins, op) ==
  CASE ins.memAlignWR  -> /\ ex.D = MemAlignW0(AlignK, AlignBB, ex.A, op, ex.C)
                          /\ ex.E = MemAlignW1(AlignK, AlignBB, ex.B, op, ex.C)
    [] ins.memAlignWR8 -> ex.D = MemAlignWR8W0(AlignK, AlignBB, ex.A, op, ex.C)
    [] OTHER           -> op = MemAlignRDValue(AlignK, AlignBB, ex.A, ex.B, ex.C)

\* Bug variant: beforeLast turns to 0 one step late
FreeInLateBeforeLast(fast, ex, ins, cmd) ==
  LET pStep == IF fast THEN 0 ELSE ex.i
  IN  IF ins.bin THEN BinExpected(ins.binOpcode, ex.A, ex.B)
      ELSE IF ins.freeBeforeLast THEN (IF pStep >= N - 1 THEN 0 ELSE P - 1)
      ELSE cmd

(***************************************************************************)
(* Free input fi.  A binary line takes the opcode's result computed from A *)
(* and B ("Binary free in"); the finalWait line takes ${beforeLast()},     *)
(* which is -1 while *ctx.pStep < ctx.N-2 (ctx.N is mainExecutor.N, not   *)
(* N_Max, and in the fast variant ctx.pStep points at a constant 0); a     *)
(* memory read takes ctx.mem[addr] (0 if absent); a storage read takes     *)
(* get(SR, key); a storage write takes the new root of set(SR, key, D); a  *)
(* memAlignRD line takes the aligned read of A|B at offset C; any other    *)
(* line takes what its command returns.                                    *)
(***************************************************************************)
FreeIn(fast, ex, ins, cmd) ==
  LET pStep == IF fast THEN 0 ELSE ex.i
  IN  IF ins.bin THEN BinExpected(ins.binOpcode, ex.A, ex.B)
      ELSE IF ins.freeBeforeLast THEN (IF pStep >= N - 2 THEN 0 ELSE P - 1)
      ELSE IF ins.mOp /\ ~ins.mWR THEN KVGet(ex.mem, MemAddr(ex, ins))
      ELSE IF ins.sRD THEN KVGet(ex.db[ex.SR], SKey(ex))
      ELSE IF ins.sWR /\ ins.inFREE # 0 THEN SWrite(ex).swRoot
      ELSE IF ins.memAlignRD THEN MemAlignRDValue(AlignK, AlignBB, ex.A, ex.B, ex.C)
      ELSE cmd

\* If assert, A must equal op (all eight limbs), else exitProcess
AssertOk(ex, ins, op) == ~ins.assert \/ ex.A = op

\* setter8: a register with its set flag takes op, the others keep their value
SetRegs(ex, ins, op) ==
  [ex EXCEPT !.A = IF ins.setA THEN op ELSE @, !.B = IF ins.setB THEN op ELSE @,
             !.C = IF ins.setC THEN op ELSE @, !.D = IF ins.setD THEN op ELSE @,
             !.E = IF ins.setE THEN op ELSE @, !.SR = IF ins.setSR THEN op ELSE @]

\* MainExecutor::checkFinalState: the registers, SR, CTX, SP and zkPC of row 0
\* are zero
FinalStateOK(ns) == {ns.A, ns.B, ns.C, ns.D, ns.E, ns.SR, ns.CTX, ns.SP, ns.trPC} = {0}

\* Bug variant: the ceiling compared with >= (off by one)
OverCeilingAtCeiling(cnt, max) == cnt >= max

\* A counter above its ceiling (CHECK_MAX_CNT_ASAP and _AT_THE_END)
OverCeiling(cnt, max) == cnt > max

(***************************************************************************)
(* The end label: the counters are copied into proverRequest.counters      *)
(* (rep*, with steps = ctx.lastStep), CHECK_MAX_CNT_AT_THE_END compares    *)
(* them with the ceilings (fast: OOC result, full: exitProcess), and the   *)
(* full variant runs checkFinalState on row 0, which the last step wrote.  *)
(***************************************************************************)
EndExec(fast, ns) ==
  LET oocA == OverCeiling(ns.cntArith, MaxArith)
      oocB == OverCeiling(ns.cntBinary, MaxBinary)
      oocM == OverCeiling(ns.cntMemAlign, MaxMemAlign)
      res  == CASE oocA -> IF fast THEN OOCArith ELSE Exited
                [] oocB -> IF fast THEN OOCBin ELSE Exited
                [] oocM -> IF fast THEN OOCMemAlign ELSE Exited
                [] ~fast /\ ~FinalStateOK(ns) -> Exited
                [] OTHER -> Success
      why  == IF res # Exited THEN "none"
              ELSE IF oocA \/ oocB \/ oocM THEN "ooc" ELSE "checkFinalState"
  IN  [ns EXCEPT !.repArith = ns.cntArith, !.repBinary = ns.cntBinary,
                 !.repMemAlign = ns.cntMemAlign,
                 !.repSteps = ns.lastStep, !.result = res, !.exitWhy = why]

\* Bug variant: call stores the call line itself in RR
NewRRCallNoIncrement(ex, ins, op) ==
  IF ins.setRR THEN op
  ELSE IF ins.jmp = "call" THEN ex.zkPC ELSE ex.RR

\* setRR: RR = op; otherwise call: RR = zkPC + 1; otherwise RR is kept
NewRR(ex, ins, op) ==
  IF ins.setRR THEN op
  ELSE IF ins.jmp = "call" THEN ex.zkPC + 1 ELSE ex.RR

\* setRCX: RCX = op; otherwise repeat decrements a nonzero RCX
NextRCX(ex, ins, op) ==
  IF ins.setRCX THEN op
  ELSE IF ins.repeat /\ ex.RCX # 0 THEN (ex.RCX - 1) % P
  ELSE ex.RCX

\* Bug variant: the trace row ignores repeat and always advances
TracePCNoRepeat(ex, ins, bJump, currentRCX) ==
  LET elseTo == IF ins.useElseAddr THEN ins.elseAddr ELSE ex.zkPC + 1
  IN  CASE ins.jmp \in CondJumps -> IF bJump THEN ins.jmpAddr ELSE elseTo
        [] ins.jmp \in {"JMP", "call"} -> ins.jmpAddr
        [] ins.jmp = "return" -> ex.RR
        [] OTHER -> ex.zkPC + 1

(***************************************************************************)
(* pols.zkPC[nexti], written by the full variant only: the jump target,    *)
(* else elseAddr or zkPC+1; a call's target; the RR of row i on return;    *)
(* the same line while a repeat's currentRCX is nonzero.                   *)
(***************************************************************************)
TracePC(ex, ins, bJump, currentRCX) ==
  LET elseTo == IF ins.useElseAddr THEN ins.elseAddr ELSE ex.zkPC + 1
  IN  CASE ins.jmp \in CondJumps -> IF bJump THEN ins.jmpAddr ELSE elseTo
        [] ins.jmp \in {"JMP", "call"} -> ins.jmpAddr
        [] ins.jmp = "return" -> ex.RR
        [] ins.repeat -> IF currentRCX # 0 THEN ex.zkPC ELSE ex.zkPC + 1
        [] OTHER -> ex.zkPC + 1

\* Bug variant: repeat's goto tests RCX after the decrement
GotoDecrementedRCX(ex, ins, bJump, currentRCX, RR1) ==
  CASE ins.jmp = "JMP" -> ins.jmpAddr
    [] ins.jmp \in CondJumps /\ bJump -> ins.jmpAddr
    [] ins.jmp \in CondJumps /\ ins.useElseAddr -> ins.elseAddr
    [] ins.repeat /\ (currentRCX - 1) % P # 0 -> ex.zkPC
    [] ins.jmp = "call" -> ins.jmpAddr
    [] ins.jmp = "return" -> RR1
    [] OTHER -> ex.zkPC + 1

(***************************************************************************)
(* The gotos emitted after i++, in the order the generator emits them;     *)
(* return reads pols.RR[i] with i already incremented, i.e. the RR this    *)
(* line wrote.                                                             *)
(***************************************************************************)
Goto(ex, ins, bJump, currentRCX, RR1) ==
  CASE ins.jmp = "JMP" -> ins.jmpAddr
    [] ins.jmp \in CondJumps /\ bJump -> ins.jmpAddr
    [] ins.jmp \in CondJumps /\ ins.useElseAddr -> ins.elseAddr
    [] ins.repeat /\ currentRCX # 0 -> ex.zkPC
    [] ins.jmp = "call" -> ins.jmpAddr
    [] ins.jmp = "return" -> RR1
    [] OTHER -> ex.zkPC + 1

\* Bug variant: i stays put (as the comment on its declaration suggests for the fast variant)
NextIStuck(ex) == ex.i

\* i++: the step counter advances in both variants
NextI(ex) == ex.i + 1

\* Bug variant: the end test compares i with N_Max
IsLastStepOffByOne(ex) == ex.i = NMax

\* if (i==N_Max_minus_one) goto end
IsLastStep(ex) == ex.i = NMax - 1

(***************************************************************************)
(* One ROM line, the whole labelled block the generator emits for it.     *)
(***************************************************************************)
Exec(fast, ex, ins, cmd) ==
  LET fi      == FreeIn(fast, ex, ins, cmd)
      op      == Op(ex, ins, fi)
      assertOk == AssertOk(ex, ins, op)
      \* get and set fail on a root the state DB does not hold
      dbFails == (ins.sRD \/ ins.sWR) /\ ex.SR \notin DOMAIN ex.db
      \* the sWR free input computes the write; the instruction recomputes
      \* it unless lastSWrite holds this step's write
      exF     == IF ins.sWR /\ ins.inFREE # 0 THEN SWrite(ex) ELSE ex
      exW     == IF ins.sWR /\ ~SWCacheHit(exF) THEN SWrite(exF) ELSE exF
      addrErr == AddrOutOfRange(ex, ins)
      memOk   == MemReadOk(ex, ins, op)
      \* memAlignRD's free input checks the offset before op exists
      alignFreeErr == ins.inFREE # 0 /\ ins.memAlignRD /\ AlignOffsetBad(ex)
      alignAbort == /\ ins.memAlignWR8 /\ ~AlignOffsetBad(ex)
                    /\ MemAlignWR8Aborts(AlignK, AlignBB, op, ex.C)
      alignOk == ~IsMemAlign(ins) \/ (~AlignOffsetBad(ex) /\ MemAlignOk(ex, ins, op))
      srdOk   == ~ins.sRD \/ KVGet(ex.db[ex.SR], SKey(ex)) = op
      swrOk   == ~ins.sWR \/ SWriteOk(exW, op)
      arithOk == ~ins.arith \/ ex.A * ex.B + ex.C = ex.D * Limb + op
      binOk   == ~ins.bin \/ op = BinExpected(ins.binOpcode, ex.A, ex.B)
      carry   == CarryAfterBin(fast, ex, ins, op)
      RR1     == NewRR(ex, ins, op)
      count   == ~NoCounters
      cntA    == IF ins.arith /\ count THEN ex.cntArith + 1 ELSE ex.cntArith
      \* binary work is counted for bin and for sWR (hashPDigest is not modelled)
      binWork == ins.bin \/ ins.sWR
      cntB    == IF binWork /\ count THEN ex.cntBinary + 1 ELSE ex.cntBinary
      oocA    == ASAP /\ ins.arith /\ count /\ OverCeiling(cntA, MaxArith)
      cntM    == IF IsMemAlign(ins) /\ count THEN ex.cntMemAlign + 1 ELSE ex.cntMemAlign
      oocB    == ASAP /\ binWork /\ count /\ OverCeiling(cntB, MaxBinary)
      oocM    == ASAP /\ IsMemAlign(ins) /\ count /\ OverCeiling(cntM, MaxMemAlign)
      currentRCX == ex.RCX
      jmpnNeg == op >= FirstNeg
      jmpnPos == op <= LastPos
      bJump   == CASE ins.jmp = "JMPN" -> jmpnNeg
                   [] ins.jmp = "JMPC" -> carry # 0
                   [] ins.jmp = "JMPZ" -> op = 0
                   [] OTHER -> FALSE
      \* fast mode clears pols.carry[0] when JMPC jumps
      carry1  == IF fast /\ ins.jmp = "JMPC" /\ bJump THEN 0 ELSE carry
      goto    == Goto(ex, ins, bJump, currentRCX, RR1)
      ns      == [SetRegs(exW, ins, op) EXCEPT
                    !.RR = RR1, !.RCX = NextRCX(ex, ins, op),
                    !.carry = IF fast THEN carry1 ELSE 0,
                    !.cntArith = cntA, !.cntBinary = cntB, !.cntMemAlign = cntM,
                    !.mem = MemStore(ex, ins, op), !.SP = NextSP(ex, ins, op),
                    !.CTX = NextCTX(ex, ins, op),
                    !.trPC = IF fast THEN 0 ELSE TracePC(ex, ins, bJump, currentRCX)]
      exit(why) == [ex EXCEPT !.result = Exited, !.exitWhy = why]
  IN  CASE addrErr   -> [ex EXCEPT !.result = AddrErr]
        [] dbFails /\ ins.inFREE # 0 -> [ex EXCEPT !.result = DBErr]
        [] alignFreeErr -> [ex EXCEPT !.result = AlignErr]
        [] ~assertOk -> exit("assert")
        [] ~memOk    -> [ex EXCEPT !.result = MemErr]
        [] dbFails   -> [ex EXCEPT !.result = DBErr]
        [] ~srdOk \/ ~swrOk -> [ex EXCEPT !.result = StorageErr]
        [] ~arithOk  -> [ex EXCEPT !.result = "ZKR_SM_MAIN_ARITH"]
        [] ~binOk    -> [ex EXCEPT !.result = "ZKR_SM_MAIN_BINARY"]
        [] alignAbort -> [ex EXCEPT !.result = Aborted]
        [] ~alignOk  -> [ex EXCEPT !.result = AlignErr]
        [] oocA      -> IF fast THEN [ex EXCEPT !.result = OOCArith] ELSE exit("ooc")
        [] oocB      -> IF fast THEN [ex EXCEPT !.result = OOCBin] ELSE exit("ooc")
        [] oocM      -> IF fast THEN [ex EXCEPT !.result = OOCMemAlign] ELSE exit("ooc")
        [] ins.jmp = "JMPN" /\ ~jmpnNeg /\ ~jmpnPos -> exit("JMPN S33")
        [] fast /\ ex.zkPC = Fin -> EndExec(fast, [ns EXCEPT !.lastStep = ex.i])
        [] IsLastStep(ex) -> EndExec(fast, ns)
        [] goto \notin Lines -> [ex EXCEPT !.result = Crashed]
        [] OTHER -> [ns EXCEPT !.i = NextI(ex), !.zkPC = goto]

\* The ROM line at zkPC: fixed once chosen
LineChoices(rom, pc) == IF rom[pc] = NoLine THEN Instrs ELSE {rom[pc]}

=============================================================================
