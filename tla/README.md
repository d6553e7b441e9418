# TLA+ models of the DFG speculation-failure linking code

This directory holds TLA+ models of the code in `src/` that links a failing
speculation check of the DFG JIT to the code that continues the work. It also
holds the TLC configurations that check the models, and a model of the
thread registry of `src/wtf` that the EAWebKit port relies on at shutdown. The models are checked
with TLC. `PROJECT.json` lists the components, the runs, the mutants, the
source lines each definition models, the findings and the hazards.

## The system

`src/dfg/DFGJITCompiler.cpp` compiles a function twice.

- The **speculative** path is fast code that assumes types. For example, it
  may keep a node as a raw int32 in a GPR or as a double in an FPR.
- Every assumption is guarded by a **speculation check**.
- When a check fails, the code must continue with the same values in another
  tier. There are two back ends for this, chosen at build time with
  `ENABLE(DFG_OSR_EXIT)`.

**Register shuffle** (`#else` branch, lines 472-1180). The non-speculative path
is compiled beside the speculative one. Each check has an `EntryLocation`, which
has its own register allocation. The function
`jumpFromSpeculativeToNonSpeculative` (848-1144) emits, for one check/entry
pair, the code that does the following, in this order:

1. Undo a pre-check mutation. A `SpeculationRecovery` either subtracts a
   speculative add or xors a boolean.
2. Find scratch registers. These are the registers free on both sides: the last
   such GPR, and the first and last such FPR.
3. **Part 1.** Spill to its slot every value the entry expects in memory,
   boxing it. Link every check register to the entry register of its node.
   Borrow the tag mask register if no GPR is free.
4. **Part 2.** Walk the permutation graph.
   - Chains are walked from tail to head (`handleNonCyclingPermutation`).
   - Then cycles are handled (`handleCyclingPermutation`). A cycle of length 1
     is converted in place, a cycle of length 2 is swapped, and a longer one is
     saved to scratch, rotated and restored.
   - The moves convert between formats through `GeneralizedRegister::moveTo`,
     `swapWith` and `convert`.
5. **Part 3.** Fill the entry registers whose value is only in memory. FPRs are
   filled through `regT0`, then GPRs are filled.
6. Restore the tag mask register and jump.

`linkSpeculationChecks` calls this function for every check, in order. Several
checks may share one entry.

**OSR exit** (104-471). `exitSpeculativeWithOSR` writes every live value to its
home slot in the register file. It uses a scratch buffer for "poisoned" slots
and for displaced values. It then jumps into the baseline code.

**WTF support** (`src/wtf`).

- `ThreadingPthreads.cpp` has the thread registry. It consists of `threadMap`,
  its mutex, an identifier counter, and a `gNoWorkerThreadsRunning` flag that
  `waitForAllThreadsCompletion` spins on. The file also has the mutex, rwlock
  and condition wrappers.
- `PageBlock.cpp` caches the page size.

## Modules

| Module | Models |
|---|---|
| `DFGValues` | What a register or slot holds, and what each emitted instruction does to it. |
| `DFGSpecToNonSpec` | `jumpFromSpeculativeToNonSpeculative` and the classes it uses. |
| `MCDFGSpecToNonSpec` | The TLC instance: the input filters of the runs and node symmetry. |
| `DFGOSRExit` | `exitSpeculativeWithOSR`, the code one OSR exit emits, run as it executes. |
| `MCDFGOSRExit` | The TLC instance: the exit filters of the OSR runs. |
| `WTFThreading` | The thread registry of `ThreadingPthreads.cpp`, the shutdown wait built on it, and `pageSize()` of `PageBlock.cpp`, with Main and the workers as interleaved threads. |

### DFGValues

A **content** is a pair: the node whose value it carries, and an encoding. The
encodings are:

- `raw`: an int32.
- `boxI`, `boxD`, `ptr`: JSValues holding an int32, a double, or anything else.
- `fp`: a double in an FPR.
- `bitsD`: the bits of a double not yet biased.
- `sum` and `xbool`: the results of a speculative add and of a boolean check.
- `tagMask`.
- `garbage`.

Bits are abstracted to the encoding. An instruction is modelled by what it does
to an encoding (`orPtr tagTypeNumber`, `zeroExtend32ToPtr`, `boxDouble`,
`unboxDouble`, ...). Applied to an encoding it was not written for, it yields
`garbage`.

A node's runtime value has a **kind**, which decides what
`branchConvertDoubleToInt32` does and which JSValue the node is boxed as:

- `Int`: an int32, or an integral double in an FPR.
- `Dbl`: a double that is not integral.
- `Other`: anything else.

`NeedDataFormatConversion` is `needDataFormatConversion` of
`DFGJITCodeGenerator.h`, which is not under `src/`. It is modelled from that
header's contract and is marked `spec_modelled`, as are the MacroAssembler
primitives that are not spelled out in `src/`.

### DFGSpecToNonSpec

**Constants.**

- `NumGPRs` and `NumFPRs` are the register file.
- The `*Choices` constants are the kinds, GPR formats, `isSpilled` flags and
  recovery types the inputs may use.
- `InputFilter` restricts the inputs further, per run.

**Inputs.** `check`, `entry`, `kind` and `recovery` are chosen in `Init` and
never change.

- Each descriptor gives every register a node, a format and a spilled flag. No
  node is in two registers of one side.
- `Convertible` excludes Int32↔Double pairs. Spec 4.1 lists no such conversion,
  and `moveTo` boxes an FPR into a GPR whatever the GPR's format.
- The machine state at the failure is `regs` and `stack`. Check registers hold
  their node in their format, except that a recovery's destination holds `sum`
  or `xbool`. Every node the check does not hold unspilled in a register is in
  its slot as a JSValue.

**Compiler state.** `pc` is the part being emitted, and `idx` is its loop
index. `cur` and `cyc` hold the walk state. `sr` holds the ShuffledRegister
arrays. Then there are `scratchGPR`, `scratchFPR1`, `scratchFPR2` and
`needToRestoreTagMaskRegister`.

**Actions.** The emitted code is straight-line, so every action both updates
the compiler state and applies the instructions it emits to `regs` and `stack`.

| Action | Code |
|---|---|
| `PerformRecovery` | 878-905 |
| `FindScratchRegisters` | 918-944 |
| `SpillGPR`, `SpillFPR` | 970-1011 and 1018-1054: one loop iteration each |
| `BorrowTagMaskRegister` | 1013-1016 |
| `StartChain`, `ChainMove`, `ChainHead` | 1078-1085 and 684-708 |
| `StartCycle`, `CycleMove`, `CycleRestore` | 711-773 and 1087-1094 |
| `FillFPR`, `FillGPR` | 1106-1137 with `fillNumericToDouble`, `fillInt32ToInteger` and `fillToJS` |
| `SkipIteration`, `EndLoop` | the `continue`s and exits of the six loops |
| `RestoreAndJump` | 1139-1143 |

A walk step is one action, so a chain of length n takes n steps. `Finished`
stutters once the jump has been emitted.

Constant nodes (the `isConstant` branches of the fills) are not modelled. Every
node has a register-file slot.

### DFGOSRExit

The exit's recoveries are the input. Each variable has one `ValueRecovery`
technique, chosen in `Init`: `AlreadyInRegisterFile`, `InGPR`,
`UnboxedInt32InGPR`, `InFPR`, `DisplacedInRegisterFile` (from another
variable's slot) or `Constant` (undefined or another value). The input also
holds a `SpeculationRecovery` and `m_lastSetOperand`. `WellFormedExit` keeps
only exits in which no two variables claim the same register or slot, and
no displaced value claims its own slot or the slot of a variable already in
the register file. The initial registers and slots hold what each recovery
says.

- **State.** `slot` is the register file, `gpr` and `fpr` the machine
  registers, `scratch` the OSR scratch buffer. `scratchIndex`,
  `displacementIndex` and `alreadyBoxed` are the code's locals. `header`
  records the execute counter and code block stores.
- **Steps.** `pc` walks the numbered steps of the function (`Steps`). A step
  whose code is not emitted (`Emitted`: the `haveFPRs`, `haveConstants`,
  `numberOfPoisonedVirtualRegisters` tests and the displacement branch) is
  skipped. Each loop is one action per recovery index: the step's own action
  when it acts on that recovery, `SkipRecovery` when the loop `continue`s.
  `EndLoop` moves on, setting the indices the code resets between loops
  (`Enter`).
- **Step 3** (classification) computes nothing at run time. It is the set of
  definitions `Poisoned`, `NumPoisoned`, `NumDisplaced`, `Have*` and
  `ScratchBufferSize`.
- A recovery index is the variable it recovers. Arguments (negative
  operands) are not modelled: they are never poisoned and are stored like
  variables. The binary search of the jump target is not modelled.

### WTFThreading

`threads.cfg` gives its constants directly: `Main` and the `Workers` are model
values, `NoThread` is the null `pthread_t`, and `SystemPageSize` stands for what
`systemPageSize()` returns.

- **State.** `threadMap` (identifier to handle; a handle is the thread itself),
  `identifierCount`, `gNoWorkerThreadsRunning`, each thread's
  `ThreadIdentifierData` (`tid`), and the identifier `createThread` returned
  for each worker (`known`). `st` is each worker's life: `none`, `blocked` on
  its creation mutex, `init`, `running`, `leaving` (it has cleared its entry
  and is still returning from the thread-specific destructor), `terminated`,
  or `failed` (`pthread_create` failed). `mainPc` is where Main is; `joined`
  and `detached` are the workers passed to `waitForThreadCompletion` and
  `detachThread`. `s_pageSize`, `psPc` and `pageResult` are `pageSize()`.
- **Atomicity.** Each function that takes `threadMapMutex` is one step. The
  map is only touched under the mutex. The only state read outside it is the
  flag, and each critical section writes the flag once.
- **Actions.**

  | Action | Code |
  |---|---|
  | `CurrentThread` | 265-275, Main registering itself |
  | `CreateThread`, `CreateThreadFails` | 186-192 |
  | `EstablishCreated` | 194 with `establishIdentifierForPthreadHandle` (145-162) |
  | `InitializeCurrentThread` | 197-214 |
  | `ThreadExit`, `ThreadTerminate` | `clearPthreadHandleForIdentifier` (171-184), from the thread-specific destructor, then the unlock and return |
  | `WaitForThreadCompletion`, `JoinReturns` | 216-228 |
  | `DetachThread` | 231-240 |
  | `WaitForAllThreadsCompletion`, `WaitAllReturns` | 244-250: one action per round of the polling loop |
  | `PageSize` (`PageSizeTest`, `PageSizeWrite`, `PageSizeReturn`) | `PageBlock.cpp` 111-117 |

- **Assumed of the callers** (code outside `src/`):
  - Main calls `currentThread()` before it creates a thread. The comment at
    lines 80-81 relies on this, and `initializeMainThread` does it.
  - A new thread does nothing until its creator has registered it.
    `createThread` in `Threading.cpp` holds the thread's creation mutex
    around `createThreadInternal`, and the entry point takes that mutex first.
  - Every worker body eventually returns.

## Properties

- **`NoLiveValueLost`** (spec 5 and 8.2). At every point of the emitted code,
  every node that is live at the check or at the entry is still held by some
  register or by its slot. It is violated the moment a move, swap, scratch use
  or fill overwrites the last copy of a value.
- **`EntryStateReached`** (spec 8.1). At the jump, three things hold:
  - every entry register holds its node in the entry's format;
  - every node the entry expects in memory is in its slot as a JSValue;
  - the tag mask register holds `TagMask`.
- **`ScratchRegistersUnshuffled`** (spec 8.3, and the debug assertions at
  lines 1041, 1056-1073, 1087 and 1096). The two scratch FPRs are never the
  same register. The scratch registers come from three places: the pre-scan
  (918-944), Part 1's GPR loop (995) and Part 1's FPR loop (1036-1041). When
  Part 2 starts, these choices together give a scratch GPR. No scratch
  register is a source or a destination of the shuffle, except a borrowed
  tag mask register. A second scratch FPR exists only beside a first.
  Release builds compile these assertions out, so only a model checks them
  over all inputs.
- **`Termination`**. The function always reaches the jump. Every walk over the
  `previous` links ends.
- **`TypeOK`**. The variables have their types. This includes that only FPRs
  (or `InvalidFPRReg`) are ever recorded as scratch FPRs.

For `DFGOSRExit`:

- **`NoValueLost`** (spec 8.2). While the exit runs, every non-constant
  variable's value is in some slot, register or scratch entry. A store to a
  home slot that still holds the only copy of a displaced value violates it.
- **`FrameCanonical`** (spec 8.6, OSR stability). At the jump, every slot
  holds its own variable as a JSValue, or `jsUndefined()` for an undefined
  constant. `cachedResultRegister` holds the last set operand's slot.
- **`ScratchInBounds`**. `scratchIndex` never passes the size the buffer was
  allocated with at line 223. Steps 5, 7, 8 and 9 read and write
  `scratchBuffer + scratchIndex++` in sequence, so this bounds every access.
- **`TypeOK`**. This includes that `displacementIndex` stays within the GPRs.

For `WTFThreading`:

- **`NoWorkerRunningAtUnload`** (checked as a violation). This is the intent
  of the comment at lines 75-78. When `waitForAllThreadsCompletion` returns
  and the library is unloaded, every worker has exited. A worker that has
  cleared its entry but not yet unlocked the map mutex and returned (state
  `leaving`) is still running library code.
- **`WaitReturnsAfterExit`**. `waitForThreadCompletion` returns only once its
  worker has cleared its entry. Either `pthread_join` saw it end, or the handle
  was already gone.
- **`WorkerIdentifierAgreed`**. A worker that has initialised itself holds
  the identifier `createThreadInternal` returned to its creator, never 0. Its
  own lookup by `pthread_self()` (line 209) comes after its registration
  (line 195). The ordering comes from the creation handshake in `createThread`
  (Threading.cpp, not in this tree). The model has the worker stay `blocked`
  until its creator has registered it. If the worker may start earlier, the
  mutant shows it looks itself up, gets 0 and disagrees with its creator.
- **`WaitForAllThreadsCompletionReturns`** (liveness). Once shutdown is in
  `waitForAllThreadsCompletion`, it returns.
- **`TypeOK`**. This includes that Main is creating or joining exactly when it
  has a worker as its target.

## Runs

Passing runs:

| Run | Bounds | Shows |
|---|---|---|
| `gpr_shuffle` | 3 GPRs, 0 FPRs, 3 nodes; kinds Int/Other; both GPR formats; no recovery or the boolean one; entry-spilled flags | GPR chains and cycles of length 1-3, with conversions, recoveries and the tag-mask borrow, are correct (about 30 s) |
| `fpr_shuffle` | 2 GPRs, 1 FPR, 3 nodes, every kind, check-spilled flags, all recoveries | moves, swaps and long cycles mixing GPRs and FPRs, and fills through regT0 (0.9M states) |
| `fpr_scratch` | 2 GPRs, 2 FPRs, 3 nodes of kinds Int/Dbl, with one FPR free on both sides; no symmetry | the scratch choice (`ScratchRegistersUnshuffled`), the int32 narrowing through a scratch FPR, FPR-FPR swaps and cycles; `Termination` under weak fairness (0.9M states, about 75 s) |
| `threads` | Main, 2 workers; page size 4096 | joins and detaches against worker exits, failed creation, the identifier handshake, and the shutdown wait returning under fairness; 10,545 states |
| `osr_exit` | 4 variables, 2 GPRs, 1 FPR, every recovery technique and speculation recovery, last set operand 0 or none | OSR exit over both displacement paths (2 displaced values use the GPRs, 3 use the scratch buffer), with poisoned GPR and FPR variables (1.1M states, about 45 s) |

`gpr_shuffle` also carries the entry registers marked spilled. There is no
longer a separate run for them: Part 1's spills are the same for GPRs and
FPRs, apart from the box, and `fpr_shuffle` exercises `SpillFPR` on spilled
check registers.

**Why the bounds are enough.**

- Three registers and three nodes give every permutation shape the code
  distinguishes:
  - chains of length 1-3;
  - cycles of length 1, 2 and 3, where 3 is the first length that uses the
    rotation loop with a save and a restore;
  - a chain next to a cycle.
- Adding a register only lengthens walks that already loop.
- The kinds cover every encoding a move can meet.

For `osr_exit`:

- Two GPRs make both displacement paths reachable with four variables. Two
  displaced values hit the boundary case `numberOfDisplaced ==
  numberOfRegisters`.
- Four variables allow two poisoned variables together with the two
  displaced values that poison them.
- Which variable is the last set operand matters only through the slot it
  reads, so variable 0 and "none" are enough.

For `threads`, two workers are the fewest with which one worker's exit can
happen while another is still registered. That is the case that separates
`size() <= 1` from an off-by-one. Each worker is created at most once.
Three workers give 790,097 states and no new interleaving of the map's
critical sections.

**Symmetry.** `NodeSymmetry` permutes nodes. This is sound because the code
iterates over registers and never orders nodes. It is not used in
`fpr_scratch`, which checks the liveness property `Termination`. `DFGOSRExit` has no symmetry: the code walks variables in index order, and the order matters.

**Fairness.** For `DFGSpecToNonSpec` it is `WF_vars(Next)`. The function runs to completion on the compiler
thread with nothing to wait on, so some step is always enabled until the jump
has been emitted.

`WTFThreading` has weak fairness on each worker's steps, on Main's
`pageSize()` call, and on the returns of what Main waits for
(`EstablishCreated`, `JoinReturns` and each polling round). Main's own
choices (create, join, detach, start the shutdown) are not fair: the
application may never make them. The workers' fairness is the assumption
that their bodies return.

**Input filters.** Each passing run's `InputFilter` removes only the inputs on
which one of the findings below shows. Each of those inputs has a violation run
of its own, except those of `SpilledEntryHeldByCheck`. That divergence is
intended by the code's comment and is described under "Not modelled". The
filters are in `MCDFGSpecToNonSpec.tla`.

- `NoBoxedIntIntoFPR`
- `NoLongCycleFromGPRIntoFPR`
- `NoFPRFillOverRegT0`
- `SpilledEntryHeldByCheck`
- `NoSpilledIntegerPair`
- `NoPoisonedFPRBeforeGPR`, for `osr_exit` (in `MCDFGOSRExit.tla`).
- A free FPR, for `fpr_scratch`. `fpr_shuffle` has a single FPR, so a chain
  walk can never free a second one.

Violation runs (findings). Each shows a disagreement between the code and
`spec.md`, or between the code and its own comments:

| Run | Property | Source | What TLC shows |
|---|---|---|---|
| `scratch_fpr_clobber` | NoLiveValueLost | 690 | The chain walk records the FPR it just wrote as scratch. The next FPR→GPR move of the walk uses it as the temporary of `branchConvertDoubleToInt32`, and the placed double is lost. This takes 2 nodes and a single chain f1→g0→f0. |
| `unbox_boxed_int` | EntryStateReached | 576 | A boxed int32 moved from a GPR to an FPR is `unboxDouble`d. Spec 4.1 says to branch on the tag. |
| `cycle_gpr_into_fpr` | EntryStateReached | 754 | The save of a 3-cycle g0→f0 zero-extends a boxed double (JS→Double counts as "needs conversion"). |
| `regt0_fill_clobber` | EntryStateReached | 1116 | An FPR fill uses regT0 as its temporary after the shuffle has placed an entry value in regT0. |
| `spilled_integer_entry` | EntryStateReached | 1009 | Part 1 boxes an Integer check register in place. The Integer entry register then receives it boxed. |
| `osr_poison_order` | FrameCanonical | 357 | OSR exit stores poisoned GPR variables to the scratch buffer first (250) and poisoned FPR variables after them (282). Step 9 drains in variable order. With `v0` in an FPR and `v1` in a GPR, both poisoned, slot 0 receives `v1` and slot 1 receives `v0`. |
| `unload_before_worker_exit` | NoWorkerRunningAtUnload | ThreadingPthreads.cpp 182 | A worker clears its entry, and the flag is set inside `clearPthreadHandleForIdentifier`. The shutdown wait sees the flag and returns while the worker has still to unlock `threadMapMutex` (184) and return through library code. The trace takes 8 steps with one worker. |

**Mutants.** Every property of every passing run has a mutant in
`PROJECT.json`. A mutant is an operator defined just before the one it
replaces, written as a plausible slip in that code. Examples are a missing
zero-extension, a swap that does not save the GPR, a chain-end test without
`!hasFrom`, and a fill that does not test the tag. TLC finds the property
violated under the run's own configuration.

## Not modelled

What the threading model leaves open:

- **`pageSize()` race.** The lazy initialisation of `s_pageSize` is
  modelled as it races, but no property is stated. Every racing writer
  stores the same value, so no interleaving changes what a call returns.
- **Joins that never happen.** A worker that ends before
  `waitForThreadCompletion` or `detachThread` has no handle left. It is never
  joined or detached, so its pthread is not reclaimed.
- **Identifier wrap-around.** The 32-bit counter wraps only after 2^32
  registrations, which is out of TLC's reach.
- **Main starting unregistered.** If the main thread creates a worker before
  it calls `currentThread()`, the flag's count is off by one (lines 80-81).
  The model assumes, as the comment does, that Main registers first.
- **Spilled entry registers nothing fills** (line 1121). Part 3 skips an
  entry register marked spilled even when the check holds the node only in
  memory. So no code loads it, against spec 4.3. The comment at lines
  1103-1104 states the skip as intended. The passing runs exclude these
  inputs (`SpilledEntryHeldByCheck`). The divergence is recorded here and
  has no violation run of its own.

Left out for good:

- `linkSpeculationChecks` (1146-1180). It pairs each check with the entry
  of its node by walking both vectors. Both node maps are cleared at the
  start of every shuffle (line 910), so the pairs are independent.
  `DFGSpecToNonSpec` takes any one pair as its input. The pairing loop is a
  pure function of the two vectors and keeps no state between shuffles.
  Checking it would take a constant formula, not a property of any behaviour,
  so it is left out.
- `Mutex`, `ReadWriteLock` and `ThreadCondition` (lines 277-424). Each
  method is a single call to the POSIX primitive. Only the `MutexLocker`
  around `threadMap` uses them here, and its critical sections are the
  registry's atomic actions. No code in this tree waits on a
  `ThreadCondition`. So the recursive mutex handed to `pthread_cond_wait`
  (line 285 and line 390) has no caller whose nesting could be checked.
  A model would be a model of pthreads with invented clients.
- compile/link glue (1183-1415). It is straight-line calls into the
  assembler. Its one piece of state is a hazard the model does not reach.
  When speculative compilation fails, `compileBody` rewinds the code and
  clears four record vectors (1240-1245). `link()` then turns the surviving
  records into the CodeBlock's tables. The records are filled by
  `SpeculativeJIT` and `NonSpeculativeJIT`, which are not in this tree, so a
  model would have to invent them;
- debug assertions and sampling counters;
- `initializeThreading` and `yield`: one-time setup of statics and a call
  into the platform;
- `systemPageSize()`: per-OS queries, represented by the constant
  `SystemPageSize`.
