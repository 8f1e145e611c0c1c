# door86 in TLA+

door86 is an emulator that runs a DOS program: a CPU (`cpu/x86`), the parts of
DOS and of the BIOS the program calls (`dos`, `bios`), and a debugger server
that stops the CPU between instructions (`debugger`). This directory holds TLA+
modules that model it, TLC configurations that check them and theorems that
TLAPS proves. Paths in this file and in the modules are those under `src/`;
line numbers refer to the commit the modules were written from.

    tlc -config MCLoader.cfg MCLoader        # a run
    tlapm Dos_proof.tla                      # the proofs of a module

`PROJECT.json` lists the components, the runs with their properties, a mutant
for each property, the source lines behind each definition, the disagreements
found, the hazards and the theorems.

## 1. The system

| component | state | operations | what can go wrong |
|---|---|---|---|
| memory manager, `dos/dos.cpp` 110-189 | `blocks_`, `fit_` | `allocate`, `free`, `strategy` | blocks overlap, get lost or out of order after many calls |
| DOS, `dos/dos.cpp` 31-108, 191-350 | `psp_`, CPU registers | `initialize_process`, INT 20h, INT 21h | grants that are not the program's own, leaks, failures that nobody sees, sizes that wrap around |
| CPU loop, `cpu/x86/cpu.cpp` 1274-1417 | `core`, `memory`, `int_handlers_`, `running_` | `run`, `execute`, `call_interrupt`, `push`, `pop` | the stack and what returns from it; instructions that slip past the debugger |
| instructions, `cpu/x86/cpu.cpp` 1-1272, `rmm.h`, `regs.h` | registers, flags, memory | one per opcode | flags that a later jump or ADC misreads, widths |
| repeat prefixes and loops, `cpu/x86/cpu.cpp` 740-900, 1061-1090, 1338-1386 | `cx`, `si`, `di`, ZF, DF | REP, REPNE, string instructions, LOOP | one item too many or too few, the ends of a segment, a flag that ends a repetition by chance |
| decoder, `cpu/x86/decoder.cpp`, `rmm.cpp` | none | `decode`, `effective_address`, `seg_index` | one wrong length, and everything behind it is decoded from the middle of an instruction |
| debugger backend, `debugger/debugger.cpp`, `blocking_queue.h` | `cmds_`, `state_`, `debugger_attached`, handlers 1 and 3 | `attach`, `detach`, `add`, `state`, `int1`, `int3` | races between the CPU thread and connections, a thread that blocks, commands that are lost, a stale state |
| GDB and line debuggers, `gdb_debugger.cpp`, `lame_debugger.cpp` | a socket, the line being read, the tries of a reply | `Run`, `request`, `response` and the packets | a stop reported too early, never, or for another session; packets damaged, repeated, or taken for an acknowledgement |
| main program, `door86/door86.cpp` | all of the above | start, run, exit | threads that outlive `main()` |
| EXE loader and PSP, `dos/exe.cpp`, `psp.cpp` | the image and the PSP in memory, the first registers | `is_exe`, `read_exe_header`, `load_image`, `initialize` | counts that disagree so that the image leaves its block, words linked to another place than they lie at, a step that fails after others |
| BIOS, ports, disassembler | none | output | nothing to check |

How they interact. `main()` builds CPU, BIOS, DOS and backend, calls
`initialize_process()`, starts a detached listener thread and enters
`cpu.run()`. An INT instruction goes through `call_interrupt()`: to the handler
the vector table names if the program has changed the vector, else to the
callback in `int_handlers_`, which runs on the CPU thread. Each debugger
connection is a detached thread that calls `attach()` and `detach()` on the
shared backend, pushes commands into its queue and reads its state; `execute()`
raises INT 1 before each instruction while `debugger_attached` is set, and the
handler, `int1()`, waits for commands. The flag is atomic and the state has a
mutex; `int_handlers_` and `blocking_queue::empty()` are used without a lock.
Nothing is persisted, so there is no recovery to model.

## 2. The modules

| module | models | extends |
|---|---|---|
| `SegmentAllocator` | what a memory manager promises its callers (abstract) | |
| `DosMemoryManager` | `DosMemoryManager` | |
| `Dos` | start of a program, its memory services, its end | `DosMemoryManager` |
| `Loader` | `initialize_process()` step by step: file, image, relocations, PSP, registers | `Dos` |
| `Debugger` | CPU thread and connections | |
| `GdbRemote` | one connection of gdb: packets and acknowledgements in both directions | |
| `Interrupts` | stack, calls, interrupts | |
| `Rmm` | the operators of `rmm.h`, the flags, the conditions of jumps | |
| `Alu` | the instructions that compute, move and set flags | `Rmm` |
| `Decoder` | the table of opcodes, `decode()`, where operands lie | |
| `Execution` | `run()` and `execute()`: instructions that follow each other, repeat and loop | `Decoder` |
| `*_proof` | theorems about the module of that name | it, TLAPS |
| `MC*` | the values TLC uses | the module of that name |

A definition commented as *wrong* is a variant with a plausible bug, used to
see that a property would notice it; no specification uses one.

**DosMemoryManager.** `blocks` is the vector, a sequence of records, `fit` the
strategy. The loops of `allocate()` and `free()` are the predicates `Picks` and
`Frees`: block *i* is the one the loop stops at. What becomes of the vector is
`AllocateAt` and `FreeAt`, the value returned `SegmentAt`. `Allocate`, `Free`
and `Strategy` are the calls, each atomic as only the CPU thread makes them.
`owner` and `prog_name` are left out; only the unused `write_mcb()` reads them.

**Dos.** `phase` is where `main()` is, `psp` the segment of `psp_`. A program
is any sequence of 48h, 49h, 58h, 67h and terminating calls. `held` and `own`
are history: what the program was granted and what `initialize_process()` took.
`InitializeProcess` has a disjunct for each way out of the function. `answer`
is the carry flag as a service sets it and `cf` the flag as the program sees
it; `call_interrupt()` puts the old flags back, so no service changes `cf`.
Functions 30h, 35h, 4Ah and those for characters change nothing modelled here.

**Loader.** What `Dos` takes for one step, statement by statement: `at` is
where `initialize_process()` is, `memory` what has been written so far, byte by
byte, `regs` the registers a program starts with. A file is a record of its
header, its table of relocations and the bytes behind the header, and
`ProgramOf` says what of it `Dos` knows. Each turn of the loop over the table is
a step (`Relocate`), since a later word may overlap an earlier one. `pspSeg` and
`eseg` are the local variables; as in the code the PSP is written where `ds`
points. The refinement hides what has been taken as long as the function runs:
nothing else looks at the blocks before it returns.

**Debugger.** One action per access to what threads share: the test of the
flag, the lookup of the handler, the loop, `empty()`, the block under the
mutex, `pop()`, and statement by statement `attach()` and `detach()`. `cpu` and
`client[c]` are program counters. A thread that merely sleeps or polls takes no
step. `Answer` reads the state, `Reply` sends `S05`, and between the two
anything may happen; `HandleStop` is the packet `?`, which is answered `S05`
whatever the state. `ran`, `sent`, `continued` and `settled`, the connections on
their way to send the `S05` of a stop they found, are there for the properties
and the bounds. Left out are the packets that touch none of this state, programs
that hook INT 1 or INT 3 and what connections do after `cpu.run()` has returned.

**Interrupts.** `mem` is the stack segment word by word, `ivt` the vector
table; `frames` is history, what the program knows to be on its stack. `mem`
holds `Junk` where no word is saved: a word below `sp` may be overwritten by
any interrupt, and a model that read one would break a type. The program is
disciplined: it pops and returns from what it pushed and called last. IRET is
there as what it does, nothing (`decoder.cpp` 241 marks it as not implemented);
a handler can return by RETF and leave the flags to a POPF. `Vectors` are the
interrupts a program uses and `LastVector` is FFh, whose entry the loop of
`dos.cpp` 198 leaves at 0000:0000. Odd stack pointers, SS and the other segment
registers are left out: a run with them would have too many states.

**Rmm** and **Alu.** An operator of `Rmm` returns the value and the flags it
leaves, for operands of `m` values, so that bytes and words are one definition;
`bigT` has `m * m` values. `ByteSize` is a constant: 256 in the code, 4 in the
run. `&` of C++ is a constant too, `BitAnd`, of which the proofs use only that
it is no larger than its operands and that their `|` fits; `|` and `^` are
defined from it. `Alu` has the registers with their halves (`regs`), the flags
and one action per family of opcodes. What an instruction means in the
processor's terms is recorded in `means`, a history variable, and the
properties compare it with what a jump or an ADC would see. It says "none", and
nothing is claimed, after instructions that set flags otherwise than the
processor does: ADC and SBB (the carry of the first of two operations is lost),
INC and DEC (which change CF), NEG, MUL and IMUL, CMP r/m8, r8 (operands the
other way round) and shifts by other than 1. Of OF nothing is claimed but after
logic: `rmm.h` 33-34 itself calls it broken. Where an operand lies in memory,
the segment registers, IF and TF are left out.

**GdbRemote.** The thread that serves a connection, statement by statement as
far as it reads or writes the socket: `at` says where in `Run()`, `request()`,
`response()` or `wait_ack_or_nak()` it is. At the other end is a gdb that
repeats a request whose acknowledgement is late, refuses a damaged reply, gives
up on a late one, and may leave at any time; it is written from the protocol
the server speaks, one request under way at a time. `up` holds what the server
can tell apart when it reads: a `+` or `-` within a request's text is a piece of
its own, because `wait_ack_or_nak()` takes it for an acknowledgement. `line` is
what `request()` has put together and `Checksum` its sum as the code takes it,
over all of it: after a bad checksum the next packet is appended, `$` and all,
and the sum of the whole may fit that packet's digits, as `text$text` does for a
text whose sum is DCh. Such a line is accepted (`joined`) and carried out as
the packet it begins with (`TakenFor`), but for the two that are compared with
the whole line (`Whole`). An empty line is acknowledged and ends `Run()`. The
digits on the wire stand as the request they were made for; digits damaged on
the way, `?`, are taken to fit no line, as they do 255 times in 256. The
contents of replies are left out; whether the program is found stopped after a
step is left open, since `Debugger` says when it is. `sound`, `handled` and
`joined` are history.

**Decoder** and **Execution.** The table of opcodes is the set of opcodes for
each mask, `decode()` the function `Decode` of the bytes at `ip`. The second
half of `Decoder` is the encoding of the processor, written by its bits and not
by rows, to compare with; a byte of 6Ah and 83h counts with its sign there.
`Operand` and `Constant` are what the code works with: MUL and IMUL have no
operand in memory, as they multiply by the displacement, and neither have the
forms of FEh and FFh without a case. `Execution` runs programs: straight pieces
of code at `ip` = 1, with `starts` the places their author meant instructions to
begin at. It fetches, moves `ip`, and carries out; string instructions and loops
as they are, every other instruction as anything it may leave in registers and
memory (`Other`), as `Alu` and `Interrupts` are about those. A pass of REP is a
step. One segment of `W` bytes stands for DS and ES, with the byte above it that
a word at offset FFFFh reaches. What leaves a program (returns, INT, calls
through memory, a register that `regs.h` calls fatal) ends it. `before` and
`first` are history.

## 3. The runs

| run | checks | instance |
|---|---|---|
| `memory_manager` | `TypeOK`, `Tiling`, `ImplementsAllocator`, `AddressOrderedFit`, `FragmentationIsPermanent` | an arena of a few paragraphs with a slack of 1, every size |
| `loader` | `ProgramIsReady`, `WritesInItsBlock`, `ImplementsDos`, `HandlesSound`, `Accounting`, `StaleFreeRefused` | the constants of the code, 5 blocks; two .COM and 14 .EXE files: no relocation, several, overlapping, aliased, with carries; an entry in front of the image; files that fail at each step; then 2 sizes, one within slack of the other, and every held, stray or stale segment |
| `debugger` | `DebuggerTypeOK`, `AttachedHasSession`, `PopNeverBlocks`, `WaitsForDebugger`, `StopReplyIsTrue` | two sessions in any overlap, -W, two commands |
| `debugger_sessions` | `SessionIsHooked`, `StepBudget`, `CommandsAreCarriedOut`, `StepComesToAStop`, `ResumesWithoutDebugger` | three sessions one after the other, three commands, fairness |
| `gdb_remote` | `HandledWasSent`, `AnswersTheRequest`, `RequestIsAnswered`, `SessionEnds` | two requests of seven kinds with the sums of their bytes, two timeouts, one damaged packet, two refused replies, three tries, fairness |
| `interrupts` | `InterruptsTypeOK`, `StackHoldsFrames`, `ReturnsRestore`, `UnhookedIsTransparent` | a segment of 12 words entered in the middle, so that `sp` wraps; up to three frames |
| `alu` | `UnsignedJumps`, `JumpsAfterLogic`, `TakesUpTheCarry` | bytes of 2 bits, words of 4, ax and dx with their halves, shifts by 0, 1 and 3 |
| `execution` | `ExecTypeOK`, `InStep`, `OperandsAsEncoded`, `ScanStopsAtTheFirst`, `BlockIsMoved`, `LoopRunsItsCourse` | a segment of 8 bytes; every opcode with every mod and rm, alone and after each prefix; string instructions from all registers |
| `all_of_memory` | `GrantIsLargeEnough`, violated | `Dos` with BX = FFFFh |
| `large_image` | `ImageFits`, violated | `Dos` with a file of 65700 bytes |
| `overlap` | `SessionIsHooked`, violated | two sessions that overlap |
| `lea` | `DisplacementIsSigned`, violated | as `execution` |

The types of `Dos`, `Alu` and `GdbRemote` are not among the runs' properties;
the theorems `DosIsTyped`, `AluIsTyped` and `GdbIsTyped` are about them.

Why the bounds are enough. The memory manager treats all sizes alike but for
their order and the slack, and an arena with room for four or five blocks
already has every neighbourhood of a split. In `loader` a .COM program leaves
room for the grants to meet at both ends of the arena, and with 5 blocks, two of
them taken by the start, a block is granted, freed and granted again in part. In
`debugger` two sessions give every interleaving of `attach()` and `detach()`; a
third only repeats one of them. `debugger_sessions` has three so that one may
inherit what two have left. A file of `loader` is a few bytes long, as what is
done to a word depends on its neighbours alone; its numbers are those of the
code, so that the words, the entry point and the sizes wrap where they do there.
In `interrupts` three frames are an interrupt in a call or in another interrupt,
with something pushed in between; a PUSHA crosses the end of the segment. In
`gdb_remote` one packet has a `+` in its text, one a `-`, one is not answered,
one is empty, one reads and one goes on, these two with texts (`m799f,4`,
`vCont;c:1cf`) whose sum is DCh, and one, `vMustReplyEmpty`, is compared with
the whole line: there is no eighth way to treat a request, whatever is left over
from the first is met by the second, and lines of two packets are accepted. A
third try of a reply is refused, or the socket gone, as the tenth would be. In
`execution` the decoder sees each row and each form of an operand; what it does
never depends on more than one instruction. Eight bytes leave room for two
blocks apart, for blocks that meet the end of the segment, and for a scan to
find its item in every place or nowhere. In `alu` bytes of two bits have every
combination of carry, borrow and sign, words of four every one of halves; the
state space is all contents of two registers with all flags that can come with
them. What the runs show on these instances the theorems of section 5 show for
all values, where there is one.

Fairness. `CommandsAreCarriedOut`, `StepComesToAStop` and
`ResumesWithoutDebugger` assume weak fairness of the CPU thread and of each
connection's own steps (`Proceed`). The code justifies it: each is a thread of
the operating system, and it waits only in sleeps of bounded length, for a
mutex that is held for a few statements, or in `pop()`, which `PopNeverBlocks`
excludes. What users do (connect, send, close) is under no fairness. `Execute`
includes instructions that wait for the keyboard; the assumption is that the
user types. `RequestIsAnswered` and `SessionEnds` assume weak fairness of the
serving thread, whose only waits are `recv()`, `select()` with a timeout and
sleeps, and of gdb reading what arrives (`GdbReads`). Nothing makes gdb repeat,
give up, or leave.

Deadlock is switched off where the program ends and nothing is left to do.

## 4. What the code does against what it says

Four runs end in a counterexample; `PROJECT.json` quotes the lines.

* `all_of_memory`: 48h with BX = FFFFh succeeds with a block that is too small.
* `overlap`: the first of two sessions to leave disconnects the other.
* `lea`: an eight bit displacement loses its sign, where the repository's own
  assembler test expects it to have one.
* `large_image`: `memory_needed()` (`exe.h` 42-43) is a sum of bytes in 16 bits,
  taken for paragraphs. For most files it is sixteen times too much; a file of
  65700 bytes is given 421 paragraphs where it needs 4091.

The passing runs leave out exactly what these are about: programs that ask for
FFFFh paragraphs and files whose size wraps (`loader`), sessions that overlap
(`SessionIsHooked`, `StepBudget`), signed displacements (`OperandsAsEncoded`).

Some properties name exceptions of their own.

* `StopReplyIsTrue`: a stop that is found with no command under way is still
  there when `S05` has been sent. Not so `S05` when the command is still in the
  queue as the state is read, which tells of the stop before it; `S05` while
  another connection sends a command; `S05` after a session has ended, since
  `detach()` leaves the state alone; and the answer to `?`, which is always
  `S05` ("Sorta BS response", `gdb_debugger.cpp` 342).
* `HandledWasSent`: a packet read with a bad checksum stays in the line, and
  with the packets behind it may have a sum that fits (section 2). The line is
  then carried out as the first of them, though it was refused. `gdb_remote`
  reaches such lines; without the exception, a damaged `vCont;c:1cf` followed by
  another request runs the program. `RequestIsAnswered` excepts a damaged
  packet altogether: what is sent again after it has an answer only by chance.
* `OperandsAsEncoded`: constants the code takes out of the displacement, those
  of MUL and IMUL included, which never look at their operand (`cpu.cpp`
  1137-1186); bytes of 6Ah and 83h above 7Fh, taken as they are (`cpu.cpp` 417,
  573-631) though `rmm.h` 132-133 extends the sign of a byte; and the far
  pointers, rows without a case and displacements named above and below.
* `LoopRunsItsCourse`: LOOP looks at `cx` before it counts it (`cpu.cpp` 1065),
  which makes one pass more than the processor. No document or test of the
  repository says how many there are to be; the property admits both counts and
  no other, and the end that ZF makes at its exact place.
* `WritesInItsBlock` is about files that end with their image: of a file with
  data behind it, as overlays are, `load_image()` copies everything, past the
  block that was taken (`exe.cpp` 130).

Also met, and in the models as the code has it: IRET is marked as not
implemented (`decoder.cpp` 241) and skipped, so that a handler of the program
does not return; `EXIT_FAILURE`, which `initialize_process()` returns on
failure, is true, so the CPU runs with nothing loaded (`dos.cpp` 45, 53, 61,
84); an .EXE that cannot be opened when its image is read runs without one
(`dos.cpp` 64); 25h takes the vector from AH and changes that of INT 25h
(`dos.cpp` 261); AND, OR, XOR and TEST clear all flags (`regs.h` 272); 38h
compares the other way round (`cpu.cpp` 328); the carry flag a service sets is
overwritten by the one saved before it (`cpu.cpp` 1296-1302), and no program
sees it.

Of the decoder and the instructions: MUL, MOV r/m, imm, the shifts C0h and C1h
and RETF imm take the displacement of the operand for their operand or count
(`cpu.cpp` 922, 937, 967, 1139); far pointers are read at a displacement of two
bytes and nowhere else; TEST r/m, imm has a constant that F6h and F7h do not
decode (`decoder.cpp` 284); MOV to or from a segment register 6 or 7 ends the
program (`regs.h` 142-169); only one prefix is taken (`decoder.cpp` 369). LEA
of a register ends the program (`rmm.cpp` 39). REP with cx = 0 runs 65536
times, REP MOVS and STOS stop after one item if ZF happens to be set, CMPS
compares words and never moves (`cpu.cpp` 810), LOOP runs once more than it
should. A .COM program that returns meets INT 2Ah, not 20h (`psp.cpp` 8).

Of gdb's connection: a request that arrives while a reply waits for its
acknowledgement is swallowed without one (`gdb_debugger.cpp` 49-53), and a `+`
or `-` in its text is taken for the acknowledgement; a checksum of which only
one digit has arrived ends the session, and the two digits are made a string
without a terminator (`gdb_debugger.cpp` 124-126). An empty packet, which is
acknowledged, ends the session too (`gdb_debugger.cpp` 189-193).

`debugger_attached` has no initializer (`cpu.h` 108). The constant
`FlagAtStart` says what it may hold at the start; the runs and
`SessionsBackTheFlag` assume it starts false, and `AttachedHasSession` fails at
once if it may not. The last vector is not set up (`dos.cpp` 198), so the runs
of `Interrupts` leave it out of `Vectors`.

## 5. The proofs

Checked by TLAPS for every value of the constants that satisfies the ASSUMEs of
the modules.

* `BlocksTileTheArena` (`Tiling`). `TypeOK /\ Tiling` is inductive: `Tiled`
  states both that neighbours meet and that any two blocks are in order. The two
  are equivalent, but deriving the second takes an induction over the sequence,
  which is why it is carried along. `RelabelPreserves` covers marking a block,
  `SplitPreserves` splitting one; `SplitAtElements` says what `InsertAt` of the
  community modules returns.
* `ManagerIsAllocator` (`ImplementsAllocator`), assuming that nobody asks for 0
  paragraphs. The refinement maps the vector to the set of its used runs; a step
  of the manager grants, releases, or stutters. A request for 0 paragraphs does
  break it: it may split off an empty used block.
* `GrantsAreSound` (`HandlesSound`, `Accounting`), assuming that no request
  wraps to 0. The invariant says for each used block that it is of the program
  or of `initialize_process()`, for each holding that there is one such block.
* `SessionsBackTheFlag` (`AttachedHasSession`, `PopNeverBlocks`,
  `WaitsForDebugger`) and `StopRepliesAreTrue` (`StopReplyIsTrue`), for any
  finite number of connections in any overlap. The invariant `DebuggerInv` adds
  where the CPU thread may be for each state, for example that the command it
  took is there, and that before a first session ends "stopped" holds only
  inside `int1()`. `Holding` says that of the command taken; `SettledInv` adds
  for the second that, while a stop found is on its way to gdb, no command is
  queued or taken and the thread is where it looks for one.
* `OpenSessionIsHooked` (`SessionIsHooked`) and `StepsAreBudgeted`
  (`StepBudget`), assuming that sessions do not overlap. `SessionInv` says how
  far `attach()` or `detach()` of the one busy session has come; `BudgetInv`
  counts the instruction that may be under way as the session attaches.
* `JumpsDecide` (`UnsignedJumps`, `JumpsAfterLogic`) and `CarriesAreTakenUp`
  (`TakesUpTheCarry`), for bytes of any even size. The invariant `FlagsMeant`
  says of CF, ZF, SF and OF what `means` tells of them; neither property is
  inductive alone, as `FlipCarry` needs CF where the jumps need ZF. The lemmas
  `AddSound`, `SubSound`, `AdcSound`, `SbbSound`, `ShiftSound` and `RotateSound`
  are the arithmetic, `OperandsTyped` that a half and the rest of a register
  make a register. `LogicDecides` and `AluIsTyped` follow from the same
  invariant.
* `NothingMerges` (`FragmentationIsPermanent`), `SearchIsByAddress`
  (`AddressOrderedFit`) and `VectorIsTyped` (`TypeOK`) of the memory manager.
  The first two are action properties under `TypeOK /\ Tiling`: a call replaces
  a block by itself or by two parts of it, so what no block spans no block of
  the next state spans.
* `StaleFreesAreRefused` (`StaleFreeRefused`), `AccountsBalance` (`Accounting`)
  and `DosIsTyped`, from the invariant of `GrantsAreSound`: where a used block
  starts is known from what is held, so a segment that is not held has no block
  that `free()` could find.
* `ProgramsFit` (`ImageFits`), assuming `FilesAreSmall`: the sums of
  `memory_needed()` do not wrap and a .COM file fits what every .COM program
  gets. It is the complement of the run `large_image`: what that file needs to
  go wrong is that its sum wraps. The invariant keeps the
  run at `psp` as large as was asked for until the program frees it.
* `LoaderImplementsDos` (`ImplementsDos`), for every set of files and every
  arena. `LoadInv` says for each place in `initialize_process()` what has been
  taken of what there was at the start, so that the last step of each way
  through it is a disjunct of `InitializeProcess`; all others stutter.
* `LoaderIsAllocator` and `LoaderKeepsAccounts` (`Accounting`, with
  `HandlesSound`, `Tiling` and the types), assuming that no request wraps. The
  first is a second refinement: `Loader`, with every file that fails half way and
  all calls of the program after it, implements the `SegmentAllocator` that the
  manager implements for arbitrary callers; the runs lent are those of
  `initialize_process()` and of the program together. The second says that the
  accounts balance at each step of the load, not only where `ImplementsDos`
  looks at them.
* `LoadStaysInItsBlock` (`WritesInItsBlock`) and `ProgramsStartReady`
  (`ProgramIsReady`), assuming that no request wraps and `FilesAreSmall`.
  `LentInv` has the accounts of `Dos` hold at every step of the load, `BlockInv`
  says that the block of the program is lent and large enough from the moment it
  is taken, whence no address wraps (`NothingWraps`), and `WriteInv` that
  nothing is written but PSP and image. `ContentInv` says what is there: after
  *d* turns of the loop the first *d* words of the table are moved and all
  others are those of the file (`Linked`), which a relocation keeps as the words
  lie apart (`RelocationLinks`) and the PSP as it lies below (`LinkedStays`).
  `EntryMoves` is the arithmetic of the first instruction: `cs` wraps by whole
  turns of the address space.
* `DebuggerIsTyped`, `NobodyBlocksInPop` (`PopNeverBlocks`) and
  `FirstSessionIsAwaited` (`WaitsForDebugger`), from `DebuggerInv`.
* `InterruptsAreTyped`, `StackIsHeld` (`StackHoldsFrames`),
  `WhatReturnsRestores` (`ReturnsRestore`) and `UnhookedComeBack`
  (`UnhookedIsTransparent`), for a segment of any even size. `IntInv` adds to
  the types that the frames are `Stacked`, each where the one before it ends,
  that each word of a frame is `Held` in memory, that `sp` is the address of
  their depth, and that they fit the segment. Addresses are taken modulo the
  size of the segment; `Remainders` has the lemmas on `%` that keep words apart
  where they wrap. `UnhookedComeBack` assumes that the last vector is not among
  those used.
* `GdbIsTyped` and `HandledOnlyWhatWasSent` (`HandledWasSent`), whatever the
  sums of the texts. `Wired` says that what is on its way to the server is made
  of whole packets and single acknowledgements. `Counted` adds to what was
  handled what the server has in hand and what is still coming: a packet is in
  one of these places, until a line of several packets is accepted. `AcceptIs`
  and `TakenForIs` say what a line accepted otherwise is, and for which request
  it is taken.
* `KeepsInStepWithGdb` (`AnswersTheRequest`), as long as no line of several
  packets is accepted: `gdb_remote` checks it of those too, with the texts of
  that run. `StepInv` adds to the types and to
  `Wired` what one late answer can leave behind. `Normal`, before gdb repeats
  anything: the request is still to come, or it has come and all that is under
  way belongs to it. `Copied`, after one repetition: both packets are of the
  request gdb is at, and a sign in the copy that the server may still take for
  an acknowledgement has no packet behind it. `Turns` says whose turn it is as
  long as nothing was late; without it a repetition could meet more than the
  places `Copied` speaks of. `InStepWithoutRepeats` needs `Normal` alone:
  replies that gdb gave up arrive before the acknowledgement of the next
  request.
* `NeitherSideWaits` and `EachStepBringsTheReplyCloser`, the core of
  `RequestIsAnswered`, for any number of tries, requests and refused replies. A
  request is `Pending` while that property promises it a reply; then the server
  or gdb has something to do, and each step lowers `ToGo`, which counts the
  tries left, what is under way and how far the server is. `Flowing` is the
  invariant: an undamaged request arrives whole, piece by piece (`Arriving`),
  the server does not give up before it has met an acknowledgement, and a reply
  was sent at most once more than gdb has refused it (`Tries`). What is left to
  TLC is that a side that can move does.
* `SessionComesToAnEnd`, the core of `SessionEnds`: `ToRest` weighs what there is
  to read more than all tries of `response()`, and these by their places, so that
  each step of the serving thread lowers it, on a live socket or a dead one. That
  a line of several packets begins with a request is left to TLC.
* `DebuggersAreServed` and `StoppedProgramsGoOn`, the cores of
  `CommandsAreCarriedOut`, `StepComesToAStop` and `ResumesWithoutDebugger`, for
  any number of connections in any overlap. While the flag is up, handler 1 is in
  place and the CPU thread owes a command or a stop, `ToServe` goes down with
  each of its steps and with no step of a connection up. That the handler is in
  place as long as a session is open is `OpenSessionIsHooked`, and that the
  thread never blocks on the way `NobodyBlocksInPop`.
* `KeepsInStep` (`InStep`), `OperandsAreEncoded` (`OperandsAsEncoded`),
  `ExecTypes` (`ExecTypeOK`): the decoder against the encoding of the processor,
  for every program. `ModrmRows`, `DispBits` and `ImmRows` compare each row of
  the table and each form of an operand; the invariant `ExecIInv` says that what
  is carried out is what was decoded at a place where an instruction begins.
* `ScansStop` (`ScanStopsAtTheFirst`), `BlocksAreMoved` (`BlockIsMoved`) and
  `LoopsRunTheirCourse` (`LoopRunsItsCourse`), for a segment of any size and data,
  each by an invariant that counts passes (`ScanIInv`, `MoveIInv`, `LoopIInv`):
  *k* passes made, `cx` that much less, the pointers that many items further
  modulo the size, and what they have passed as it should be. Items are apart
  modulo the size (`ModApart`, `ModSpread`), so that a pass disturbs none that
  is done.

Only model-checked: the liveness properties `CommandsAreCarriedOut`,
`StepComesToAStop`, `ResumesWithoutDebugger`, `RequestIsAnswered` and
`SessionEnds`, as fairness and ENABLED are out of the prover's reach. Of each a
theorem above proves that its steps do not run in a circle, and of those of
gdb's connection also that somebody has a step to make. What `Ones` counts is
not needed by the proofs: no theorem is about the parity flag.

## 6. The plan

What is left, in this order:

1. `GdbRemote` composed with `Debugger`, so that a stop reply that is never
   sent and commands left behind by an earlier session can be stated of the
   conversation.
2. `Interrupts` with segment registers on the stack and with the stop of the
   debugger between decoding and execution, for programs that hook INT 1.
3. `Interrupts` and `Alu` in the place of `Other` in `Execution`, so that a
   program is decoded and carried out in one specification.

## 7. Not modelled

The character functions of DOS and INT 10h, the disassembler and logging only
write output, and the ports are empty functions. The replies of gdb that carry
registers and memory are left out with their contents, the line debugger but for
the commands it sends, far pointers with segments, IF and TF. `find()`, the
response queue, `write_mcb()` and `PSP::set_commandline()` are declared or
defined but never used. `Loader` leaves out files that change while they are
read and tables that name words outside the image: what such a word is depends
on what else lies in memory. What the detached threads do once `main()` has
returned is undefined, and the models end there. Sockets, the command line and
the libraries are outside the repository.
