------------------------------- MODULE DualMode -------------------------------
(***************************************************************************)
(* The two generated variants run on the same input: the fast function    *)
(* (main_exec_generated_fast) and the full one (main_exec_generated).      *)
(* They share the ROM and, step for step, the value each command returns. *)
(* While both run they take their steps together (both increment i once   *)
(* per step); once the fast one has returned, the full one goes on alone.  The full   *)
(* variant keeps running after the fast one returns at finalizeExecution. *)
(***************************************************************************)
EXTENDS GenMainStep

VARIABLES rom, fex, sex     \* the ROM, the fast executor, the full executor
VARIABLE lmem               \* history: the memory cells the ROM has written
vars == <<rom, fex, sex, lmem>>

IsRunning(e) == e.result = Running

Init ==
  /\ rom = InitRom
  /\ fex = InitExec
  /\ sex = InitExec
  /\ lmem = EmptyKV

(***************************************************************************)
(* The memory as the ROM means it: a cell is a context (CTX for a useCTX  *)
(* line; context 0 holds the global variables), a region (a variable, the *)
(* stack, the EVM memory) and an index (SP for the stack, E when ind, RR   *)
(* when indRR, plus the offset).  Each mOp write the fast variant accepts  *)
(* binds the cell of its line to op; a zero value is a cell never written. *)
(***************************************************************************)
Region(ins) == IF ins.isMem THEN "mem" ELSE IF ins.isStack THEN "stack" ELSE "var"

CellOf(e, ins) ==
  <<IF ins.useCTX THEN e.CTX ELSE 0, Region(ins),
    (IF ins.isStack THEN e.SP ELSE 0) + (IF ins.ind THEN S32(e.E) ELSE 0)
    + (IF ins.indRR THEN S32(e.RR) ELSE 0) + ins.offset>>

TrackMem(ins, cmd) ==
  lmem' = IF ins.mOp /\ ins.mWR /\ fex'.result = Running
          THEN KVSet(lmem, CellOf(fex, ins), Op(fex, ins, FreeIn(TRUE, fex, ins, cmd)))
          ELSE lmem

\* Both variants run the block of their current line on the same command value
BothStep ==
  /\ IsRunning(fex) /\ IsRunning(sex)
  /\ \E insF \in LineChoices(rom, fex.zkPC) :
       LET rom1 == [rom EXCEPT ![fex.zkPC] = insF]
       IN  \E insS \in LineChoices(rom1, sex.zkPC), cmd \in FreeVals :
             /\ rom' = [rom1 EXCEPT ![sex.zkPC] = insS]
             /\ fex' = Exec(TRUE, fex, insF, cmd)
             /\ sex' = Exec(FALSE, sex, insS, cmd)
             /\ TrackMem(insF, cmd)

\* The fast variant has returned; the full one goes on
FullAlone ==
  /\ ~IsRunning(fex) /\ IsRunning(sex)
  /\ \E ins \in LineChoices(rom, sex.zkPC), cmd \in FreeVals :
       /\ rom' = [rom EXCEPT ![sex.zkPC] = ins]
       /\ sex' = Exec(FALSE, sex, ins, cmd)
       /\ UNCHANGED <<fex, lmem>>

BothEnded == ~IsRunning(fex) /\ ~IsRunning(sex)

Done == BothEnded /\ UNCHANGED vars

\* While the two agree the full variant never returns first: it stops on the
\* same checks at the same step, or later (finalWait, checkFinalState); a
\* state where it has returned and the fast one runs already violates
\* LockstepAgree, so no action continues the fast variant alone.
Next == BothStep \/ FullAlone \/ Done

Spec == Init /\ [][Next]_vars

-----------------------------------------------------------------------------
TypeOK ==
  /\ rom \in [Lines -> Instrs \cup {NoLine} \cup {Epilogue[l] : l \in Lines \ ProgLines}]
  /\ \A e \in {fex, sex} :
       /\ e.zkPC \in Lines /\ e.i \in 0 .. NMax - 1 /\ e.result \in Results
       /\ {e.A, e.B, e.C, e.D, e.E, e.RCX} \subseteq 0 .. P - 1
  /\ DOMAIN lmem \subseteq (0 .. P - 1) \X {"var", "stack", "mem"} \X Int
  /\ {fex.CTX, fex.SP, sex.CTX, sex.SP} \subseteq 0 .. P - 1

(***************************************************************************)
(* While both variants run they are in the same state: same line, same    *)
(* registers, same counters.  The fast variant keeps the carry of the     *)
(* last binary line in pols.carry[0] across steps, the full one writes a  *)
(* fresh pols.carry[i] each step; JMPC must still branch the same way.    *)
(***************************************************************************)
LockstepAgree ==
  IsRunning(fex) /\ IsRunning(sex) =>
    /\ fex.zkPC = sex.zkPC /\ fex.RR = sex.RR /\ fex.RCX = sex.RCX
    /\ <<fex.A, fex.B, fex.C, fex.D>> = <<sex.A, sex.B, sex.C, sex.D>>
    /\ fex.cntArith = sex.cntArith /\ fex.cntBinary = sex.cntBinary
    /\ fex.E = sex.E /\ fex.CTX = sex.CTX /\ fex.SP = sex.SP /\ fex.mem = sex.mem /\ fex.cntMemAlign = sex.cntMemAlign

(***************************************************************************)
(* Spec 4.5 and 8: the two variants give the same result (which check     *)
(* failed, or success) and report the same counters.                      *)
(***************************************************************************)
SameOutcome ==
  BothEnded =>
    /\ fex.result = sex.result
    /\ fex.repArith = sex.repArith /\ fex.repBinary = sex.repBinary
    /\ fex.repMemAlign = sex.repMemAlign

(***************************************************************************)
(* The same, for a run in which the ROM keeps within its step budget: the  *)
(* fast variant either stops on a check or reaches finalizeExecution early *)
(* enough (by step N_Max-3) for the full one to run finalWait and the      *)
(* last line before N_Max, as the zkEVM ROM's own step counter ensures.    *)
(***************************************************************************)
WithinBudget == fex.result # Success \/ fex.repSteps \in 1 .. NMax - 3

SameOutcomeWithinBudget == WithinBudget => SameOutcome

(***************************************************************************)
(* Both variants report the same number of steps (counters.steps).         *)
(***************************************************************************)
StepsAgree ==
  BothEnded /\ fex.result = Success /\ sex.result = Success =>
    fex.repSteps = sex.repSteps

(***************************************************************************)
(* The address arithmetic of mOp (MemAddr: addrRel, offset, the context, *)
(* SP, the region offsets) keeps the ROM's memory cells apart: while the  *)
(* fast variant runs, ctx.mem at the address of each cell holds the last  *)
(* value written to that cell, and every nonzero word of ctx.mem belongs  *)
(* to a cell.  A stack write that ignored SP, or two regions or contexts  *)
(* that overlap, make a later write to one cell show through another.     *)
(***************************************************************************)
CellAddr(c) ==
  c[1] * CtxOffset + c[3]
  + (CASE c[2] = "stack" -> StackOffset [] c[2] = "mem" -> MemOffset [] OTHER -> 0)

MemoryMatchesCells ==
  IsRunning(fex) =>
    /\ \A c \in DOMAIN lmem : lmem[c] = KVGet(fex.mem, CellAddr(c))
    /\ \A a \in DOMAIN fex.mem :
         fex.mem[a] # 0 => \E c \in DOMAIN lmem : CellAddr(c) = a
=============================================================================
