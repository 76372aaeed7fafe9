--------------------------- MODULE MainExecInterp ---------------------------
(***************************************************************************)
(* The interpreted Main Executor, MainExecutor::execute                    *)
(* (src/src/sm/main/main_executor.cpp): one loop over step = 0..N-1 that   *)
(* reads ROM line zkPC = pols.zkPC[i] and runs selectors -> free input ->  *)
(* instructions -> setters -> jumps on evaluation i (0 in fast mode, step  *)
(* otherwise), writing the next evaluation nexti.  It knows the jumps      *)
(* JMPN, JMPC and JMP only (no RCX, repeat, call, return or elseAddr),    *)
(* keeps no counter ceilings, and ends every failed check with exit(-1).   *)
(*                                                                         *)
(* The data abstraction is the one of GenMainStep (limb 0 of a register,   *)
(* W-bit scalars, the state DB as content-addressed trees), whose ROM      *)
(* lines, results and storage key it reuses.  The state it is a record     *)
(* with the fields GenMainStep names the same way: i is the evaluation the *)
(* step reads, swStep and swRoot are ctx.lastSWrite.step and .newRoot.     *)
(***************************************************************************)
EXTENDS GenMainStep

CONSTANT FastMode

VARIABLES rom, it
itVars == <<rom, it>>

Done == "execute() returned"

\* The ROM lines the interpreter's RomLine can express, less its memory
\* lines (mOp, memAlign, incStack), which this module does not model: the
\* interpreter's addressing differs from the generated code's (README, 4).
\* Its E, CTX and SP are not kept: no line here reads them, so setE, setCTX
\* and setSP (finalizeExecution) change nothing the model observes.
ItSupported(ins) ==
  /\ ins.jmp \in {"none", "JMPN", "JMPC", "JMP"}
  /\ ~ins.repeat /\ ~ins.setRCX /\ ins.inRCX = 0 /\ ~ins.useElseAddr
  /\ ~ins.mOp /\ ~IsMemAlign(ins) /\ ins.incStack = 0
  /\ ins.inE = 0 /\ ins.inCTX = 0 /\ ins.inSP = 0

(***************************************************************************)
(* initState zeroes row 0 (registers, SR, zkPC); the Context starts with   *)
(* an empty lastSWrite; i is 0 in both modes at step 0.                    *)
(***************************************************************************)
ItInit ==
  /\ rom = InitRom
  /\ it = [zkPC |-> 0, step |-> 0, i |-> 0, A |-> 0, B |-> 0, C |-> 0, D |-> 0,
           SR |-> 0, RR |-> 0, carry |-> 0, db |-> EmptyDB,
           swStep |-> 0, swRoot |-> 0, result |-> Running]

\* The selectors (inA..inD, inSR, inRR, CONST), then "op = op + inFREE*fi"
ItOp(st, ins, fi) ==
  (ins.inA * st.A + ins.inB * st.B + ins.inC * st.C + ins.inD * st.D
   + ins.inSR * st.SR + ins.inRR * st.RR + ins.CONST + ins.inFREE * fi) % P

\* The setters: setA..setD and setSR write op into evaluation nexti, setRR
\* writes fe2n(op0); every other register is copied from evaluation i
ItSetters(st, ins, op) ==
  [st EXCEPT !.A = IF ins.setA THEN op ELSE @, !.B = IF ins.setB THEN op ELSE @,
             !.C = IF ins.setC THEN op ELSE @, !.D = IF ins.setD THEN op ELSE @,
             !.SR = IF ins.setSR THEN op ELSE @, !.RR = IF ins.setRR THEN op ELSE @]

\* arithEq0: "(A*B) + C != (D<<256) + op" exits
ItArithOk(st, op) == st.A * st.B + st.C = st.D * Limb + op

\* Fast mode reuses evaluation 0 for every step
EvalIndex(step) == IF FastMode THEN 0 ELSE step

(***************************************************************************)
(* smt.set(SR, key, D) with key = poseidon(C, poseidon-capacity(A, B)),    *)
(* after ctx.lastSWrite.reset(): lastSWrite takes the new root and the     *)
(* evaluation i.                                                           *)
(***************************************************************************)
ItSWrite(st) ==
  LET m == KVSet(st.db[st.SR], SKey(st), st.D)
  IN  [st EXCEPT !.db = DBWith(st.db, m), !.swStep = st.i,
                 !.swRoot = RootOf(st.db, m)]

\* The sWR instruction keeps lastSWrite unless "(step == 0) || (step != i)"
ItSWCacheHit(st) == st.swStep # 0 /\ st.swStep = st.i

(***************************************************************************)
(* Free input, computed only when inFREE != 0: a binary line takes the    *)
(* opcode's result from A and B, sRD takes smt.get(SR, key), sWR takes     *)
(* the new root of smt.set(SR, key, D) and fills ctx.lastSWrite, and a     *)
(* line with a freeInTag command takes evalCommand's value: ${beforeLast()}*)
(* reads *ctx.pStep = i against ctx.N, any other command a value of        *)
(* FreeVals.                                                               *)
(***************************************************************************)
ItFreeIn(st, ins, cmd) ==
  CASE ins.inFREE = 0          -> 0
    [] ins.bin                 -> BinExpected(ins.binOpcode, st.A, st.B)
    [] ins.sRD                 -> KVGet(st.db[st.SR], SKey(st))
    [] ins.sWR                 -> ItSWrite(st).swRoot
    [] ins.freeBeforeLast      -> IF st.i >= N - 2 THEN 0 ELSE P - 1
    [] OTHER                   -> cmd

\* pols.carry[i] after the binary instruction: ADD..EQ write it, AND, OR
\* and XOR leave it as the evaluation holds it
ItCarry(st, ins) ==
  IF ins.bin /\ ins.binOpcode <= 4 THEN BinCarry(ins.binOpcode, st.A, st.B)
  ELSE st.carry

(***************************************************************************)
(* The jumps: JMPN on fe2n(op0) < 0 (fe2n, not in this repository, reads  *)
(* the S33 ranges of the generated code), JMPC on pols.carry[i], JMP, and  *)
(* zkPC + 1 otherwise.                                                     *)
(***************************************************************************)
ItNextPC(st, ins, op, carry) ==
  CASE ins.jmp = "JMPN" -> IF op >= FirstNeg THEN ins.jmpAddr ELSE st.zkPC + 1
    [] ins.jmp = "JMPC" -> IF carry # 0 THEN ins.jmpAddr ELSE st.zkPC + 1
    [] ins.jmp = "JMP"  -> ins.jmpAddr
    [] OTHER            -> st.zkPC + 1

\* checkFinalState: row 0, which the last pass wrote, holds zero registers,
\* SR and zkPC
ItFinalStateOK(ns, pc) == {ns.A, ns.B, ns.C, ns.D, ns.SR, pc} = {0}

(***************************************************************************)
(* One pass of the loop body on ROM line zkPC.  Every failed check calls   *)
(* exit(-1): the process ends and nothing after it is observable.  The     *)
(* last pass also runs the code after the loop: checkFinalState on row 0   *)
(* in full mode (the registers and the zkPC the last pass wrote), nothing  *)
(* in fast mode.                                                           *)
(***************************************************************************)
Interp(ins, cmd) ==
  LET st   == it
      \* smt.get and smt.set fail on a root the state DB does not hold
      dbFails == (ins.sRD \/ ins.sWR) /\ st.SR \notin DOMAIN st.db
      fi   == ItFreeIn(st, ins, cmd)
      op   == ItOp(st, ins, fi)
      \* the sWR free input fills lastSWrite; the instruction redoes the
      \* write unless "(step == 0) || (step != i)" says it holds this one
      stF  == IF ins.sWR /\ ins.inFREE # 0 THEN ItSWrite(st) ELSE st
      stW  == IF ins.sWR /\ ~ItSWCacheHit(stF) THEN ItSWrite(stF) ELSE stF
      ok   == /\ ~ins.assert \/ st.A = op
              /\ ~ins.sRD \/ KVGet(st.db[st.SR], SKey(st)) = op
              /\ ~ins.sWR \/ stW.swRoot = op
              /\ ~ins.arith \/ ItArithOk(st, op)
              /\ ~ins.bin \/ op = BinExpected(ins.binOpcode, st.A, st.B)
              /\ ins.jmp = "JMPN" => op >= FirstNeg \/ op <= LastPos
      carry == ItCarry(st, ins)
      pc   == ItNextPC(st, ins, op, carry)
      ns   == [ItSetters(stW, ins, op) EXCEPT !.carry = IF FastMode THEN carry ELSE 0]
      last == st.step = N - 1
  IN  /\ it.result = Running
      /\ ItSupported(ins)
      /\ rom' = [rom EXCEPT ![st.zkPC] = ins]
      /\ it' = IF dbFails \/ ~ok THEN [st EXCEPT !.result = Exited]
               ELSE IF last /\ ~FastMode /\ ~ItFinalStateOK(ns, pc)
               THEN [st EXCEPT !.result = Exited]
               ELSE IF last THEN [ns EXCEPT !.result = Done]
               ELSE [ns EXCEPT !.zkPC = pc, !.step = st.step + 1,
                               !.i = EvalIndex(st.step + 1)]

\* The ROM line the interpreter runs is the one at zkPC
ItStep == \E ins \in LineChoices(rom, it.zkPC), cmd \in FreeVals : Interp(ins, cmd)

\* execute() has returned or the process has exited
ItStopped == it.result # Running /\ UNCHANGED itVars

ItNext == ItStep \/ ItStopped

ItSpec == ItInit /\ [][ItNext]_itVars

=============================================================================
