# TLA+ models of the zkEVM prover's Main Executor

This directory holds TLA+ models of the generated Main Executor, which is
emitted by `src/src/main_generator/main_generator.cpp`. It also holds the TLC
configurations that check the models. A model is written from the generator's
output: for each ROM line the generator emits one C++ labelled block. The
models describe what those blocks do at run time.

## 1. Inventory of the system

| Part | Source | State | Operations |
|---|---|---|---|
| Generated executor, one step | `main_generator.cpp` `generate()`, 402-3817 | registers A-E, RR, RCX, zkPC, step `i`, `pols.carry`, counters `cnt*`, `ctx.lastStep` | per ROM line: selectors → free input → assert/ARITH/binary/hash/storage checks → setters → counters → RCX → trace zkPC → end of step → goto |
| Generated executor, setup and end | 350-401, 3819-3976 | `N_Max`, `ctx.N`, `ctx.pStep`, `proverRequest.counters/result` | bNoCounters check, counters copy, `CHECK_MAX_CNT_AT_THE_END`, `checkFinalState`, padding inputs |
| Fast and full variants | the same generator, `bFastMode` | fast: one evaluation slot (`[0]`), `pStep` = &zero; full: one trace row per step, `nexti` | both run the same request |
| Hash buffers | 1133-1310 (free input), 2047-2548 (instructions), 3906-3968 (padding) | `ctx.hashK`, `ctx.hashP`: address → {data, reads, lenCalled, digestCalled, digest} | hashK/hashK1, hashKLen, hashKDigest, hashP/hashP1, hashPLen (setProgram), hashPDigest (getProgram) |
| Storage | 907-1130 (free input), 1807-2045 (instructions) | SR, `ctx.lastSWrite` (step, newRoot), the state DB behind `pStateDB` | sRD (get), sWR (set), setSR/inSR |
| Memory and memAlign | 703-860, 1705-1806, 3000-3115 | `ctx.mem` | mOp read/write, memAlignRD/WR |
| Interpreter | `src/src/sm/main/main_executor.cpp` `execute()` 40-2790, `initState` 2855-2912 | the same registers, read from evaluation `i` (0 in fast mode) and written to `nexti`; `ctx.lastSWrite` | the same pipeline, interpreted; jumps JMPN/JMPC/JMP only; no counter ceilings; every failed check is `exit(-1)`; the loop always runs N steps |
| Final checks | `main_executor.cpp` `checkFinalState` 2914-2979 | row 0 | registers and zkPC must be 0 |
| Headers | `database.hpp`, `hashdb64/*.hpp`, `padding_sha256bit_executor.hpp` | declarations only | — |

**How the parts interact.** The prover calls one of the two generated
functions for a request. Inside a step, the instructions use the hash buffers,
the state DB (storage) and the memory. At the end label, the counters are
copied into `proverRequest.counters`. The full variant then builds the padding
inputs that the secondary state machines consume.

**Hard behaviours and correctness properties.** Spec §8 lists what must
hold:

- fast and full give identical counters and outcomes;
- `repeat` with RCX = 3 runs 4 times and leaves RCX = 0;
- OOC at ceiling 2 with 3 ARITH lines reports 3;
- hash buffers are deterministic.

Several things make this code hard to get right:

- the fast variant keeps state (`pols.carry[0]`) across steps in a single slot;
- the gotos run *after* `i++`;
- `beforeLast` reads `*ctx.pStep`, which is a constant 0 in the fast variant;
- the two variants handle OOC differently;
- hash buffers are filled byte by byte from many instructions, in any order the ROM picks.

PROJECT.json lists every hazard at its source line.

## 2. Modules and how they correspond to the code

- **GenMainStep**: pure operators for one step of the generated code. Its constants are the field (P), the scalar width (W), N, N_NoCounters, the ceilings, ASAP and bNoCounters.
  - `Exec(fast, ex, ins, cmd)` is the whole labelled block. Its CASE arms follow the block's early returns, in the order the code takes them:
    - an address out of range (`ZKR_SM_MAIN_ADDRESS`);
    - a DB failure in the free input, a memAlign offset above 32 in the free input;
    - assert exit;
    - a memory read that disagrees with `ctx.mem` (`ZKR_SM_MAIN_MEMORY`);
    - storage, ARITH and binary mismatch;
    - the GMP abort of memAlignWR8 at offset 32, and a memAlign mismatch (`ZKR_SM_MAIN_MEMALIGN`);
    - ASAP OOC;
    - JMPN S33 exit;
    - the fast variant's finalizeExecution;
    - `i == N_Max_minus_one`;
    - a goto outside the label table;
    - otherwise, the next line.
  - `SelectorSum` (selector8/selector1/selectorConst), `Op`, `FreeIn`, `AssertOk`, `CarryAfterBin`, `SetRegs` (setter8), `NewRR`, `NextRCX`, `TracePC`, `Goto`, `IsLastStep`, `OverCeiling` (the arith, binary and memAlign counters; bin and sWR lines count as binary work, hashPDigest is not modelled), `EndExec` and `FinalStateOK` (`MainExecutor::checkFinalState`) each translate one stage of the block.
  - **Data abstraction.**
    - A register is its limb 0, as an integer mod P.
    - Scalars are W bits wide.
    - The ROM is lazy: a program line is chosen from `Instrs` the first time control reaches it. The three lines after it are the ROM's fixed epilogue (finalizeExecution, finalWait, jump to 0).
- **GenMainExec**: one variant (the constant `FastMode`) running one request.
  - `Step` runs `Exec` on line zkPC. `Terminated` stutters once the function has returned.
  - `loop`, `done` and `lastCall` are history variables that the repeat and return properties use. `kv` is the store the accepted writes built: each accepted sWR that moves SR sets key(C,A,B) to D, with the meaning the spec gives sWR.
  - `FairSpec` adds weak fairness of `Step`.
  - `MC_GenMainExec` maps the state root onto `KVStore` (`store` ← the tree SR names, `open` ← finalizeExecution has not run) and checks `KV!Spec` as a property.
- **DualMode**: both variants on one ROM, with the same command results.
  - `BothStep` steps both variants together.
  - `FullAlone` lets the full variant continue after the fast one has returned (at finalizeExecution). No action lets the fast variant continue alone: while the two agree, the full variant never returns first.
  - `Done` stutters once both have returned.
- **StateDB**: the state DB, abstracted to what the executor observes.
  - A tree is a function from the keys it holds to nonzero values. A missing key reads 0, and setting 0 removes the key (`KVGet`, `KVSet`).
  - A root names a tree by content: the DB maps roots to trees, the empty tree has root 0, and `set` returns the root already given to the resulting tree or the next fresh one (`RootOf`, `DBWith`).
  - get or set on a root the DB does not hold fails; the generated code then returns the DB's result.
- **Storage in GenMainStep**:
  - `SKey` is the key `poseidon(C, poseidon-capacity(A, B))`, abstracted to the injective triple ⟨C, A, B⟩.
  - `SWrite` is the block that computes a write (free input 1019-1127, and the instruction's recompute 1925-2000): `lastSWrite.reset()`, the key, `set(SR, key, D)`, `lastSWrite.step = i`.
  - `SWCacheHit` is the instruction's reuse test: the negation of `(step == 0) || (step != i)`.
  - `SWriteOk` is the comparison of `lastSWrite.newRoot` with op.
  - In `Exec`, a DB failure in the free input comes before the assert, and one in the instruction after it; the value/new-root mismatch gives `ZKR_SM_MAIN_STORAGE`. SR is set by `setSR`, read by `inSR`, and zeroed by finalizeExecution; `checkFinalState` requires it to be 0.
- **Memory in GenMainStep** (main_generator.cpp 703-835, 1706-1800, 3000-3100, 3155-3168, 3257-3285):
  - `AddrRel` is `fr.toS32(E)` for ind lines and `fr.toS32(RR)` for indRR lines. `AddrOutOfRange` is the range check, made only when a line has both an index and an offset. `MemAddr` adds the offset, then `CTX*CTX_OFFSET` for useCTX, `STACK_OFFSET + SP` for isStack and `MEM_OFFSET` for isMem.
  - `RegionSize` = 16 stands for 0x10000: STACK_OFFSET is one region, MEM_OFFSET two and CTX_OFFSET four.
  - The selectors read E, CTX and SP; setE, setCTX (`NextCTX`) and setSP write them; finalizeExecution zeroes them and `checkFinalState` requires CTX and SP to be 0.
  - `ctx.mem` is the field `mem`, a function from address to value.
    - `MemStore` is the write of an mOp line with mWR.
    - `MemReadOk` is the read check: a stored word must equal op, and an address never written must have op = 0.
    - The free input of a read is the stored word.
  - `NextSP` is setSP or `SP + incStack`.
  - memAlign works on m0 = A, m1 = B, offset = C and v = op, with w0 = D and w1 = E.
    - The formulas are the operators of **MemAlign**, taken at K = W bytes of one bit each.
    - An offset above K is `ZKR_SM_MAIN_MEMALIGN`. `cntMemAlign` is counted and checked against `MaxMemAlign` like the other counters.
- **MemAlign**: the memAlign formulas of the generated code, for words of K bytes of BB bits (256 = K·BB):
  - `MemAlignRDValue` (leftV | rightV), `MemAlignW0`, `MemAlignW1` and `MemAlignWR8W0`;
  - `MemAlignWR8Aborts`: the uint64 shift count at offset 32;
  - the interpreter's `InterpWR8W0`.
  - The reference definitions `RefRead`, `RefWrite` and `RefWrite8` read and write bytes of the window m0|m1 as sequences.
- **DualMode** also keeps the history variable `lmem`: the ROM's memory as cells (context, region, index).
  - Each mOp write that the fast variant accepts binds its cell to op.
  - The context is CTX for a useCTX line. Context 0 holds the global variables, which share the addresses of context 0's variables in the code's layout.
  - The index is SP for the stack, plus E for ind or RR for indRR, plus the offset.
- **KVStore**: the abstract specification of storage. One key-value store, empty at the start; `Write(k, v)` changes one key; `Close` is the end of the batch, where SR is zeroed.
- **HashBuffers**: `ctx.hashK`/`ctx.hashP` as a function from kind and address to a buffer record (or `Absent`).
  - One action per instruction: `HashKWrite` and `HashPWrite` (hashK and hashP, through the shared `HashWrite`, with their free input or an op from registers), `HashKLen`, `HashPLen`, `HashKDigest`, `HashPDigest`.
  - `Finalize` is the full variant's end: the padding loops.
  - The byte loop is `WriteBytes`. The padding walk is `Chunks`.
  - A digest is the injective pair ⟨kind, data⟩. The program store is a set of byte strings.
- **MainExecInterp**: the interpreter, `MainExecutor::execute`, on the data abstraction of GenMainStep (whose ROM lines and storage key it reuses). Its state `it` is a record with the same field names as the generated executor's.
  - `Interp(ins, cmd)` is one pass of the loop body: `ItOp` (selectors 148-372), `ItFreeIn` (free input, 472-658, with `ItSWrite` for the sWR free input 660-785), the assert, sRD and sWR checks (1344-1602, with the reuse test `ItSWCacheHit` at 1466), `ItArithOk` (arithEq0), the binary check and `ItCarry` (2067-2310), `ItSetters` (2433-2639) and `ItNextPC` (2640-2708).
  - Any failed check ends the process (`exit(-1)`), so the state is left as it was and only `result` changes. The last pass (step N-1) also runs the code after the loop: `ItFinalStateOK` (`checkFinalState`) in full mode.
  - `EvalIndex` is `i`: 0 in fast mode, the step otherwise. In fast mode `ctx.lastSWrite.step` is therefore always 0, and the sWR instruction always redoes the write.
  - `ItSupported` excludes the lines the interpreter's ROM format cannot hold: RCX, repeat, call, return, JMPZ and elseAddr. It also excludes its memory and memAlign lines, whose addressing differs from the generated code's (§4).
  - `MC_GenMainExec` maps the generated executor onto it (`ItState`, `IT == INSTANCE MainExecInterp WITH it <- ItState`) and checks `IT!ItSpec` as `InterpRefinement`. In the mapping:
    - a fast run that returned at finalizeExecution before step N-1 is the interpreter one step later, still running, on finalWait;
    - an out-of-counters end is the interpreter's plain return, since the interpreter has no ceilings;
    - every error return of the generated code is the interpreter's exit.
- **MC_*** modules define the instruction families a ROM line may take.

## 3. Runs

| run | expect | what it shows |
|---|---|---|
| gen_fast | pass | Fast variant, every 3-line ROM of loops, calls, jumps, ARITH and binary lines (49k states). Checks that `repeat` runs RCX+1 times and leaves RCX = 0, that `return` lands after its call, and that OOC reports a counter past its ceiling while success stays within the ceilings. Under `FairSpec`, checks that every request ends (`Termination`). |
| gen_control_full | pass | Full variant, every 4-line control-flow ROM (291k states). Checks that the committed `pols.zkPC[nexti]` is the line executed next. |
| gen_storage | pass | Fast variant, every 5-line ROM of key and value loads, sWR (new root from the free input or a constant the instruction checks), sRD, ADD and ARITH lines (438k states). Checks that the tree SR names is always the store the accepted writes built (`StoreMatchesWrites`): the `lastSWrite` reuse never commits a stale root. Also checks that SR refines one key-value store (`StoreRefinement`), and that the generated executor refines the interpreter (`InterpRefinement`): every step is an interpreter step with the same registers, root and DB, although the two decide the `lastSWrite` reuse on different values of `i`. An sWR line counts as binary work (`cntBinary`, as in the code), so ROMs with three sWR lines end with `ZKR_SM_MAIN_OOC_BINARY`, and the three properties hold on those ends too. |
| gen_setrr_return | violation | A setRR+return line breaks the trace/control agreement (finding). |
| gen_ooc_asap_fast | violation | ASAP OOC in the fast variant reports counter 0 (finding). |
| gen_ooc_full | violation | Full-variant OOC calls exitProcess (finding). |
| dual_counters | pass | Fast and full variants agree on every 3-line ROM of arithmetic, binary, JMPC, memory and memAlign lines (227k states). The memory lines are the stack with SP++ in context CTX, global and context variables, MEM:RR±1, MEM:E+1, and the lines that set CTX and E. They agree at every step (including E, CTX, SP, `ctx.mem` and cntMemAlign), and on the outcome and counters when the ROM finishes within the step budget. `MemoryMatchesCells` checks that `ctx.mem` at each cell's address holds the last value written to that cell: the address arithmetic never makes two cells alias. `MemAlignMatchesBytes` checks the four memAlign formulas against the byte-level reference for every m0, m1, v and offset, at scales K·BB = 2·2 and 3·1. |
| dual_carry | violation | A stale fast carry after AND/OR/XOR makes JMPC diverge (finding). |
| dual_steps | violation | The full variant reports counters.steps = 0 (finding). |
| hash_buffers | pass | Any sequence of Keccak and Poseidon instructions on one address, with setProgram and getProgram (160k states), never rewrites a byte with another value, keeps every recorded read inside the data, and a passed Digest holds the hash of the bytes. |
| hash_digest_before_len | violation | hashKDigest from registers before hashKLen accepts the zero digest (finding). |
| hash_padding_by_index | violation | The padding loops run i over 0..size()-1 with `operator[]`. Each absent address it reads is inserted, which grows size(), so every address up to the largest is visited and an empty padding input is emitted for each unused one. PG also takes hashK's flags (finding). |

**Bounds.**

- The field and scalar values:
  - P = 11 and W = 2 keep all three S33 ranges of JMPN non-empty: positive 0..3, negative 7..10, invalid between.
  - AND/OR/XOR and the ADD carry still differ on 2-bit values.
- The step budget and ROM size:
  - N = 10 lets a loop, a call and the epilogue all happen inside the step budget.
  - 3–4 program lines cover a call and return, a loop with its RCX set-up, and jumps in both directions.
- The ceilings:
  - MaxArith = 1 and MaxBinary = 2 make OOC reachable. In gen_storage, MaxBinary = 2 is passed by three sWR lines, since sWR counts as binary work.
  - The dual runs use ceilings of 10, which are never reached. A full-variant OOC is already a finding of gen_ooc_full.
- The hash buffers:
  - BW = 1 and blocks of 2 and 3 bytes make the padding walk and incCounter non-trivial with 2 bytes of data.
  - Sizes range over 0..MaxSize+1, so the size > 32 exit happens too. An op from registers takes every value of MaxSize bytes and the first wider one.
- Storage:
  - Two keys (A ∈ {0, 1}) and values 0..2 give nine trees, so roots stay below P.
  - Five program lines are the fewest in which a store holds two keys and a later write commits a root that differs from it in both. That is the case a root accepted without its check produces.
  - A write whose op is a constant makes the instruction compare it with `lastSWrite`, at steps where the free input did not fill it.
  - The ADD and ARITH lines put their result into D, so they feed the value of later writes without moving the key. They exercise the interpreter's binary and arithmetic paths in the refinement. JMPC lines are left out of this run (see §4).

- Memory:
  - The free input takes values 0 and 1, so a later write to a cell can differ from an earlier one. With `$ :MSTORE(SP++)` looping through JMP, the stack cells 0, 1, 2 are written in turn, and an address without SP would collapse them.
  - `MEM:RR-1` with RR = 0 hits the negative range check.
  - CTX takes 0 and 1, so a context variable, a stack word or an E-indexed memory word is written in two contexts, and context 0 shares its variables with the globals.
  - memAlign's C is the free input of the ARITH line, so offsets above K occur too.
  - Words of W = 2 bits hold K = 2 one-bit bytes, which is enough for the step.
  - `MemAlignMatchesBytes` checks the formulas separately at two byte widths, so that a byte is more than one bit. It is a fact about constants, checked in the initial state.

**Fairness.** `FairSpec` assumes weak fairness of `Step` only. The executor
is one sequential function: nothing preempts it, and a running step is
always enabled. `Termination` then checks that the loop ends: `i` grows by one
per step up to N_Max − 1. The declaration of `i` says it stays 0 in the fast
variant; if it did, a looping ROM would never end. Every other property is a
safety property and is checked under `Spec`.

## 4. Findings

Seven disagreements between the code and spec §8 or the code's own checks.
PROJECT.json lists each with its run and source line.

One more disagreement is recorded as a hazard, not as a run: the two
executors disagree on the carry that JMPC reads (main_executor.cpp:2677).

- In fast mode, the generated code clears `pols.carry[0]` when JMPC jumps, and the interpreter keeps it.
- In full mode, the generated AND sets the carry when its result is nonzero, and the interpreter's AND leaves it 0.

A JMPC that does not sit on its own ADD..EQ line therefore branches
differently in the two executors. `InterpRefinement` is checked on ROMs
without JMPC lines for this reason.

The interpreter's memory lines disagree with the generated code. These are
recorded as hazards, and none of them is in a run:

- **memAlignWR8** (main_executor.cpp:2375) computes `v & 0xFF << (31-offset)*8`.
  - C++ parses this as `v & (0xFF << ...)`, which keeps a byte of v in place instead of moving v's low byte.
  - The int shift is undefined for offsets below 28.
  - `InterpWR8W0` is this formula. With it in place of the generated one, `MemAlignMatchesBytes` fails.
- **isStack** (main_executor.cpp:430) adds STACK_OFFSET but not SP.
  - Its offsets are 0x20000/0x30000, against 0x10000/0x20000 in the generated code.
  - Its range check is 0x10000 for every line (line 392).
  - It exits on a negative incStack (line 2606).

The generated code has two edges of its own:

- memAlignWR8 at offset 32 passes the `offset > 32` check. `(31-offset)*8` then wraps in `uint64_t`, and GMP aborts on any nonzero byte. The step models this as the result `Aborted`.
- A stack address may reach 0x1FFFF past STACK_OFFSET, into the MEM region, and with a large SP into the next context (line 749).
- An indexed address without an offset is not range-checked (line 772).
- A pop at SP = 0 makes SP the field element p-1, a far address (line 3164).
- None of these three is reached in the instances: E, RR and SP stay small there.

## 5. Not modelled yet, and the plan

The most important behaviour came first: control flow, counters and the
agreement of the two variants, then the hash buffers. The later sittings
follow this order:

1. **Storage, what is left.** The poseidon counter (`cntPoseidonG += proofHashCounter + 2`) needs the tree depth, which the content-addressed abstraction drops. The full variant's `required.Storage` list is not modelled.
2. **Memory, what is left.**
   - The hash instructions' addresses.
   - The interpreter's memory lines. A violation run for its WR8 and SP divergences needs a run slot.
3. **Keccak/Poseidon counters in the step.** Compose `HashBuffers` with `GenMainExec`, so that `cntKeccakF`/`cntPoseidonG` take part in OOC and in the fast/full agreement.
4. **The interpreter, what is left.** `MainExecInterp` covers the instructions the two executors share, and the fast variant is checked against it. Still to do:
   - the full variant against the interpreter, on a ROM family without RCX and call/return;
   - a run that shows the JMPC carry disagreement;
   - the interpreter's memory, memAlign and hash instructions (these come with items 2 and 3);
   - `CONSTL`, which overwrites the selectors instead of adding to them.
5. **Left out.**
   - arithEq1/arithEq2: 256-bit elliptic-curve arithmetic, beyond TLC's reach.
   - `assertOutputs`.
   - Logging and the gRPC test client.

The number of runs is limited, so new questions will be merged into existing
configurations where the bounds allow it.
