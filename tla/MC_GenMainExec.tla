--------------------------- MODULE MC_GenMainExec ---------------------------
(***************************************************************************)
(* Model-checking instances of GenMainExec.  Each family is a set of ROM   *)
(* lines written the way the zkEVM ROM writes them; a program line takes   *)
(* one of them the first time control reaches it.                          *)
(***************************************************************************)
EXTENDS GenMainExec

Targets == ProgLines \cup {Fin}

(***************************************************************************)
(* Control flow: RCX loops, call/return through RR, conditional jumps on   *)
(* RCX, and plain jumps.  No line both sets RR and returns.                *)
(***************************************************************************)
ControlInstrs ==
     {[Nop EXCEPT !.CONST = c, !.setRCX = TRUE] : c \in {1, 2}}
  \cup {[Nop EXCEPT !.repeat = TRUE]}
  \cup {[Nop EXCEPT !.jmp = "call", !.jmpAddr = a] : a \in Targets}
  \cup {[Nop EXCEPT !.jmp = "return"]}
  \cup {[Nop EXCEPT !.CONST = Fin, !.setRR = TRUE]}
  \cup {[Nop EXCEPT !.inRCX = 1, !.jmp = "JMPZ", !.jmpAddr = a] : a \in Targets}
  \cup {[Nop EXCEPT !.inRCX = 1, !.CONST = -1, !.jmp = "JMPN", !.jmpAddr = a]
          : a \in Targets}
  \cup {[Nop EXCEPT !.jmp = "JMP", !.jmpAddr = a] : a \in Targets}

(***************************************************************************)
(* The same with a line that sets RR and returns in one step.              *)
(***************************************************************************)
ControlSetRRReturnInstrs ==
  ControlInstrs \cup {[Nop EXCEPT !.CONST = Fin, !.setRR = TRUE, !.jmp = "return"]}

(***************************************************************************)
(* Counters: ARITH lines checked against a command's value, binary lines   *)
(* whose result goes to A (some with JMPC on their carry), register loads, *)
(* and a jump back to loop.                                                *)
(***************************************************************************)
CounterInstrs ==
     {[Nop EXCEPT !.arith = TRUE, !.inFREE = 1, !.setC = TRUE]}
  \cup {[Nop EXCEPT !.CONST = c, !.setB = TRUE] : c \in {1, 3}}
  \cup {[Nop EXCEPT !.bin = TRUE, !.binOpcode = o, !.inFREE = 1, !.setA = TRUE]
          : o \in {0, 1, 3, 5}}
  \cup {[Nop EXCEPT !.bin = TRUE, !.binOpcode = o, !.inFREE = 1, !.jmp = "JMPC",
                    !.jmpAddr = a] : o \in {2, 4}, a \in {0, Fin}}
  \cup {[Nop EXCEPT !.jmp = "JMP", !.jmpAddr = 0]}
(***************************************************************************)
(* Both families: loops, calls and jumps around counting lines.            *)
(***************************************************************************)
FastInstrs == ControlInstrs \cup CounterInstrs

(***************************************************************************)
(* Storage, the way the ROM's SLOAD/SSTORE use it: A selects the key, D    *)
(* holds the value, a write takes its new root from the free input (or    *)
(* from a constant, which the instruction then checks) into SR, a read    *)
(* takes the value from the free input (or checks a constant).  ADD and     *)
(* ARITH lines put their free input into D, the value register.            *)
(***************************************************************************)
StorageKeys == {<<0, a, 0>> : a \in {0, 1}}
StorageInstrs ==
     {[Nop EXCEPT !.CONST = a, !.setA = TRUE] : a \in {0, 1}}
  \cup {[Nop EXCEPT !.CONST = d, !.setD = TRUE] : d \in {0, 1, 2}}
  \cup {[Nop EXCEPT !.sWR = TRUE, !.inFREE = 1, !.setSR = TRUE]}
  \cup {[Nop EXCEPT !.sWR = TRUE, !.CONST = r, !.setSR = TRUE] : r \in {0, 1, 2}}
  \cup {[Nop EXCEPT !.sRD = TRUE, !.inFREE = 1, !.setD = TRUE]}
  \cup {[Nop EXCEPT !.sRD = TRUE, !.CONST = v] : v \in {0, 1}}
  \cup {[Nop EXCEPT !.jmp = "JMP", !.jmpAddr = 0]}
  \cup {[Nop EXCEPT !.bin = TRUE, !.binOpcode = o, !.inFREE = 1, !.setD = TRUE]
          : o \in {0}}
  \cup {[Nop EXCEPT !.arith = TRUE, !.inFREE = 1, !.setD = TRUE]}

KV == INSTANCE KVStore WITH store <- StoreOf, open <- ~Finalized,
                            Keys <- StorageKeys, Values <- Vals

(***************************************************************************)
(* Storage refinement: seen through the state root SR, the state DB        *)
(* behaves as one key-value store that each accepted sWR updates at the    *)
(* key poseidon(C, A, B) with the value D; the lastSWrite cache the sWR   *)
(* instruction reuses never commits a root other than set(SR, key, D).    *)
(***************************************************************************)
StoreRefinement == KV!Spec

(***************************************************************************)
(* The interpreter's view of the generated executor.  The fast variant     *)
(* returns as soon as it has run finalizeExecution; the interpreter goes   *)
(* on to finalWait and loops there until step N-1, so a fast run that      *)
(* ended at finalizeExecution before the last step is the interpreter      *)
(* still running, one step later, on finalWait.  The interpreter has no    *)
(* counter ceilings (an out-of-counters end is its plain return), exits    *)
(* the process where the generated code returns an error, and in fast     *)
(* mode works on evaluation 0, so its lastSWrite.step is 0.                *)
(***************************************************************************)
FinEarly == FastMode /\ ex.result \in {Success} \cup OOC /\ ex.zkPC = Fin /\ ex.i < N - 1

ItState ==
  [zkPC |-> IF FinEarly THEN FinWait ELSE ex.zkPC,
   step |-> IF FinEarly THEN ex.i + 1 ELSE ex.i,
   i |-> IF FastMode THEN 0 ELSE ex.i,
   A |-> ex.A, B |-> ex.B, C |-> ex.C, D |-> ex.D, SR |-> ex.SR, RR |-> ex.RR,
   carry |-> ex.carry, db |-> ex.db,
   swStep |-> IF FastMode THEN 0 ELSE ex.swStep, swRoot |-> ex.swRoot,
   result |-> CASE ex.result = Running \/ FinEarly -> Running
                [] ex.result \in {Success} \cup OOC -> "execute() returned"
                [] OTHER -> Exited]

IT == INSTANCE MainExecInterp WITH it <- ItState

(***************************************************************************)
(* Generated against interpreted executor: every step of the generated     *)
(* function is a step of MainExecutor::execute on the same ROM line (same  *)
(* registers, state root, state DB and lastSWrite root after it), and     *)
(* every error return of the generated code is a check the interpreter     *)
(* fails too; the lastSWrite reuse, which the two decide on different      *)
(* step values in fast mode, never makes them part.                        *)
(***************************************************************************)
InterpRefinement == IT!ItSpec
=============================================================================
