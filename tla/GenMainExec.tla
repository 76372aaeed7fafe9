----------------------------- MODULE GenMainExec -----------------------------
(***************************************************************************)
(* One generated executor function (main_exec_generated_fast or           *)
(* main_exec_generated) running one request; FastMode selects the         *)
(* variant.  Each step runs the labelled block of ROM line zkPC (Exec of  *)
(* GenMainStep).                                                          *)
(***************************************************************************)
EXTENDS GenMainStep

(***************************************************************************)
(* One generated executor (FastMode selects the variant) running one       *)
(* request.  loop and done are history: the repeat line being looped on    *)
(* (line, RCX on entry, executions so far) and the last loop that fell     *)
(* through; lastCall is the call line whose zkPC+1 RR holds, or -1 once RR *)
(* was set by setRR.                                                       *)
(***************************************************************************)
CONSTANT FastMode

VARIABLES rom, ex, loop, done, lastCall, kv
vars == <<rom, ex, loop, done, lastCall, kv>>

NoLoop == [line |-> -1, entry |-> 0, runs |-> 0, rcx |-> 0]

Init ==
  /\ rom = InitRom
  /\ ex = InitExec
  /\ loop = NoLoop
  /\ done = NoLoop
  /\ lastCall = -1
  /\ kv = EmptyKV

\* History kept for the repeat and call/return properties: a repeat line
\* is left when the next zkPC is another line
TrackLoop(ins, nex) ==
  LET l    == ex.zkPC
      cont == loop.line = l
      runs == IF cont THEN loop.runs + 1 ELSE 1
      ent  == IF cont THEN loop.entry ELSE ex.RCX
  IN  IF ins.repeat /\ ~ins.setRCX /\ nex.result = Running
      THEN IF nex.zkPC # l
           THEN /\ loop' = NoLoop
                /\ done' = [line |-> l, entry |-> ent, runs |-> runs, rcx |-> nex.RCX]
           ELSE /\ loop' = [line |-> l, entry |-> ent, runs |-> runs, rcx |-> nex.RCX]
                /\ UNCHANGED done
      ELSE /\ loop' = NoLoop
           /\ UNCHANGED done

TrackCall(ins) ==
  lastCall' = IF ins.setRR THEN -1
              ELSE IF ins.jmp = "call" THEN ex.zkPC ELSE lastCall

\* History: the store the ROM has written, one accepted sWR that moves SR
\* at a time, with the meaning the spec gives sWR (set key(C,A,B) to D)
TrackStore(ins, nex) ==
  kv' = IF ins.sWR /\ ins.setSR /\ nex.result = Running
        THEN KVSet(kv, SKey(ex), ex.D) ELSE kv

\* The generated code runs the block of ROM line zkPC
Step ==
  /\ ex.result = Running
  /\ \E ins \in LineChoices(rom, ex.zkPC), cmd \in FreeVals :
       /\ rom' = [rom EXCEPT ![ex.zkPC] = ins]
       /\ ex' = Exec(FastMode, ex, ins, cmd)
       /\ TrackLoop(ins, ex')
       /\ TrackCall(ins)
       /\ TrackStore(ins, ex')

\* execute() has returned (or the process has exited): nothing moves
Terminated ==
  /\ ex.result # Running
  /\ UNCHANGED vars

Next == Step \/ Terminated

Spec == Init /\ [][Next]_vars

\* execute() is one sequential loop that nothing preempts: once it is
\* running, its next step is taken
FairSpec == Spec /\ WF_vars(Step)

-----------------------------------------------------------------------------
Vals == 0 .. P - 1

TypeOK ==
  /\ rom \in [Lines -> Instrs \cup {NoLine} \cup {Epilogue[l] : l \in Lines \ ProgLines}]
  /\ ex.zkPC \in Lines /\ ex.i \in 0 .. NMax - 1 /\ ex.result \in Results
  /\ {ex.A, ex.B, ex.C, ex.D, ex.RCX} \subseteq Vals
  /\ ex.carry \in {0, 1} /\ ex.trPC \in Nat
  /\ {ex.cntArith, ex.cntBinary, ex.repArith, ex.repBinary, ex.repSteps} \subseteq 0 .. N
  /\ lastCall \in {-1} \cup Lines
  /\ ex.SR \in Vals /\ DOMAIN ex.db \subseteq Vals /\ ex.swRoot \in Vals
  /\ ex.swStep \in 0 .. NMax - 1

\* The store the ROM sees: the tree the state root names
StoreOf == IF ex.SR \in DOMAIN ex.db THEN ex.db[ex.SR] ELSE EmptyKV

\* finalizeExecution has run: control is past it, or the function ended on it
Finalized == ex.zkPC \in {FinWait, Restart} \/ (ex.zkPC = Fin /\ ex.result # Running)

(***************************************************************************)
(* Storage: while the batch runs, the tree the state root SR names in the  *)
(* state DB is the store the accepted storage writes built, key by key,   *)
(* from the empty one.  The sWR instruction reuses ctx.lastSWrite when it  *)
(* holds this step's write; a reuse across steps would commit a root that  *)
(* is not set(SR, key, D) and the two would part.                          *)
(***************************************************************************)
StoreMatchesWrites == ex.result = Running /\ ~Finalized => StoreOf = kv

(***************************************************************************)
(* repeat: a line entered with RCX = r runs r+1 times in a row and leaves  *)
(* RCX = 0 when control moves on (the generated goto tests currentRCX,    *)
(* the value before the decrement the RCX block makes).                   *)
(***************************************************************************)
RepeatRunsRCXPlusOne ==
  done.line # -1 => done.runs = done.entry + 1 /\ done.rcx = 0

(***************************************************************************)
(* return: when RR holds the address a call wrote (no setRR since), the    *)
(* goto after a return lands on the line after that call.                  *)
(***************************************************************************)
ReturnGoesBackAfterCall ==
  [][ /\ ex.result = Running /\ ex'.result = Running
      /\ rom'[ex.zkPC].jmp = "return" /\ lastCall # -1
      => ex'.zkPC = lastCall + 1 ]_vars

(***************************************************************************)
(* Counters: a request that ends with an out-of-counters result reports    *)
(* (proverRequest.counters) a counter above its ceiling, and one that ends *)
(* with success reports counters within the ceilings (spec: ceiling 2 and  *)
(* three arith lines give OOC with the counter reported as 3).             *)
(***************************************************************************)
OOCReportedPastCeiling ==
  /\ ex.result = OOCArith => ex.repArith > MaxArith
  /\ ex.result = OOCBin => ex.repBinary > MaxBinary
  /\ ex.result = Success => ex.repArith <= MaxArith /\ ex.repBinary <= MaxBinary

(***************************************************************************)
(* Every request ends: whatever the ROM loops on, the step counter i       *)
(* reaches N_Max - 1 and the function returns with a result.               *)
(***************************************************************************)
Termination == <>(ex.result # Running)

(***************************************************************************)
(* Full mode: the zkPC written into the next trace row is the line the     *)
(* generated code actually jumps to, so the committed trace follows the    *)
(* execution.                                                              *)
(***************************************************************************)
TraceAgreesWithControl == ~FastMode /\ ex.result = Running => ex.trPC = ex.zkPC

(***************************************************************************)
(* An out-of-counters condition aborts the batch with an OOC result; it    *)
(* never takes the process down (spec 4.3 and 7).                          *)
(***************************************************************************)
OOCNeverExitsProcess == ex.exitWhy # "ooc"

=============================================================================
