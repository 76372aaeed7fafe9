----------------------------- MODULE MC_DualMode -----------------------------
(***************************************************************************)
(* ROM families for the two variants run side by side.                     *)
(***************************************************************************)
EXTENDS DualMode

Targets == ProgLines \cup {Fin}

(***************************************************************************)
(* Arithmetic and binary lines whose results go to registers, comparisons  *)
(* that branch with JMPC on their carry, register loads and a loop back.   *)
(***************************************************************************)
CounterInstrs ==
     {[Nop EXCEPT !.arith = TRUE, !.inFREE = 1, !.setC = TRUE]}
  \cup {[Nop EXCEPT !.CONST = c, !.setB = TRUE] : c \in {1, 3}}
  \cup {[Nop EXCEPT !.bin = TRUE, !.binOpcode = o, !.inFREE = 1, !.setA = TRUE]
          : o \in {0, 1, 3, 5}}
  \cup {[Nop EXCEPT !.bin = TRUE, !.binOpcode = o, !.inFREE = 1, !.jmp = "JMPC",
                    !.jmpAddr = a] : o \in {2, 4}, a \in {0, Fin}}
  \cup {[Nop EXCEPT !.jmp = "JMP", !.jmpAddr = 0]}

(***************************************************************************)
(* An ADD whose carry is set, then an AND that branches with JMPC.        *)
(***************************************************************************)
CarryInstrs ==
     {[Nop EXCEPT !.CONST = c, !.setA = TRUE] : c \in {1, 3}}
  \cup {[Nop EXCEPT !.CONST = c, !.setB = TRUE] : c \in {1, 3}}
  \cup {[Nop EXCEPT !.bin = TRUE, !.binOpcode = 0, !.inFREE = 1, !.setA = TRUE]}
  \cup {[Nop EXCEPT !.bin = TRUE, !.binOpcode = o, !.inFREE = 1, !.jmp = "JMPC",
                    !.jmpAddr = Fin] : o \in {5, 6, 7}}

(***************************************************************************)
(* Memory lines: "$ :MSTORE(SP++)" and "$ => A :MLOAD(SP-1)" in context   *)
(* CTX, "$ :MSTORE(v)" (global), "$ :MSTORE(CTX:v)", "$ => A :MLOAD(v)",  *)
(* "$ :MSTORE(MEM:RR+1)" and "MEM:RR-1" (out of range while RR is 0),      *)
(* "$ :MSTORE(MEM:E+1)" in context CTX, "$ => CTX" and "$ => E", and the    *)
(* memAlign lines on A, B, C, D and E (C from the ARITH line, D from       *)
(* "$ => D").                                                              *)
(***************************************************************************)
MemInstrs ==
     {[Nop EXCEPT !.mOp = TRUE, !.mWR = TRUE, !.inFREE = 1, !.isStack = TRUE,
                  !.useCTX = TRUE, !.incStack = 1]}
  \cup {[Nop EXCEPT !.mOp = TRUE, !.inFREE = 1, !.isStack = TRUE, !.useCTX = TRUE,
                    !.offset = -1, !.setA = TRUE]}
  \cup {[Nop EXCEPT !.mOp = TRUE, !.mWR = TRUE, !.inFREE = 1, !.offset = o] : o \in {0, 1}}
  \cup {[Nop EXCEPT !.mOp = TRUE, !.mWR = TRUE, !.inFREE = 1, !.useCTX = TRUE, !.offset = 1]}
  \cup {[Nop EXCEPT !.mOp = TRUE, !.inFREE = 1, !.offset = 1, !.setA = TRUE]}
  \cup {[Nop EXCEPT !.mOp = TRUE, !.mWR = TRUE, !.inFREE = 1, !.indRR = TRUE,
                    !.isMem = TRUE, !.offset = o] : o \in {1, -1}}
  \cup {[Nop EXCEPT !.mOp = TRUE, !.mWR = TRUE, !.inFREE = 1, !.ind = TRUE,
                    !.isMem = TRUE, !.useCTX = TRUE, !.offset = 1]}
  \cup {[Nop EXCEPT !.inFREE = 1, !.setCTX = TRUE], [Nop EXCEPT !.inFREE = 1, !.setE = TRUE]}
  \cup {[Nop EXCEPT !.memAlignRD = TRUE, !.inFREE = 1, !.setA = TRUE]}
  \cup {[Nop EXCEPT !.memAlignWR = TRUE, !.inB = 1],
        [Nop EXCEPT !.memAlignWR8 = TRUE, !.inB = 1],
        [Nop EXCEPT !.inFREE = 1, !.setD = TRUE]}

CounterMemInstrs == CounterInstrs \cup MemInstrs

(***************************************************************************)
(* The memAlign formulas of the generated code (MemAlignRDValue, W0, W1,   *)
(* WR8 W0) agree with reading and writing the bytes of the window m0|m1:   *)
(* for every m0, m1, v and offset 0..K (the offsets the code accepts), at  *)
(* two scales of K bytes of BB bits.  At offset K a WR8 whose byte is not  *)
(* zero aborts; one that does not leaves m0 as the reference writes it.    *)
(* The fact involves no state; it is checked in the initial state.         *)
(***************************************************************************)
AlignScales == {<<2, 2>>, <<3, 1>>}

MemAlignMatchesBytes ==
  fex = InitExec =>
  \A sc \in AlignScales :
    LET K == sc[1]  BB == sc[2]  Word == 0 .. 2^(K * BB) - 1
    IN  \A m0, m1, v \in Word, off \in 0 .. K :
          /\ MemAlignRDValue(K, BB, m0, m1, off) = RefRead(K, BB, m0, m1, off)
          /\ <<MemAlignW0(K, BB, m0, v, off), MemAlignW1(K, BB, m1, v, off)>>
               = RefWrite(K, BB, m0, m1, v, off)
          /\ ~MemAlignWR8Aborts(K, BB, v, off)
             => MemAlignWR8W0(K, BB, m0, v, off) = RefWrite8(K, BB, m0, v, off)
=============================================================================
