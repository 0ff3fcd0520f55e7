# Rainbow-OS in TLA+

Specifications of the parts of Rainbow-OS where interrupts, failures and long
sequences of calls meet shared state: the keyboard driver, the FAT12 file
system, its persistence on a hard disk, the debugger, the ring-3 runtime with
its system calls, the text editor and the BASIC interpreter. TLC checks each on
a small instance, and TLAPS proves most of the safety properties for every size.
Definitions keep the C names where TLA+ allows it; `PROJECT.json` maps every
one to its lines.

## Inventory of the system

Rainbow-OS is a single-tasking 32-bit kernel with one ring-3 program at a time.
There are no threads: what runs concurrently with the kernel is interrupt
handlers (keyboard, timer), the devices, and the person at the keyboard.

| Component | State | Operations | Hard behaviour | What makes it correct |
|---|---|---|---|---|
| Keyboard (`kernel/drivers/keyboard.c`) | ring, modifiers, E0 prefix, held-key tables | IRQ1 handler, getchar, wait_any, has_key, flush, init | handler interleaves with the readers; `sti; hlt` | ring is a queue; no lost wake-up; tables follow the keys |
| Timer, IDT, PIC | tick counter, handler table, masks | handlers, EOI | the tick is what ends a stale `hlt` | every waiter is woken |
| FAT12 (`kernel/fs/fat12.c`) | volume in memory: table, directory, clusters | read, write, delete, list | packed entries, early returns half way, names that coincide | files never share clusters; a call touches its own file only |
| Storage (`kernel/fs/diskfs.c`, `drivers/ata.c`, `fs/ramdisk.c`) | partition, volume buffer, `disk_available` | boot, sync, write/delete + sync | power cut or error at any sector | untouched files survive; a complete sync is complete |
| Debugger (`kernel/debug/debugger.c`) | breakpoint table, patched bytes, `at_bp`, `pending_reinsert`, TF | #BP, #DB, commands b d c s q | three parties change the same few variables | program sees nothing; every breakpoint re-armed |
| Ring-3 runtime (`cc/runtime.c`, `usermode.asm`, `gdt.c`, `paging.c`) | saved kernel stack, exit flags | enter, exit, 24 system calls, faults | faults in handlers, unhandled exceptions | a program can only end or go on; arguments checked before use |
| C compiler (`kernel/cc`) | macro, symbol, label and fixup tables, code buffer | preprocess, parse, emit, link | tables at their limits | every jump and reference patched, or an error |
| Editor (`apps/editor`) | gap buffer, undo ring, modes | edit, move, undo, redo, operators | ring wraps in the middle of a group | undo then redo is the identity |
| BASIC (`apps/basic`) | line store, variables, FOR and GOSUB stacks | edit lines, run, break | positions kept across lines | store sorted; control goes where the program says |
| PMM, shell, consoles, boot, games, libraries | see `PROJECT.json` | | mostly sequential or pure I/O | |

Interactions: the shell, the debugger, BASIC and the system calls read the
keyboard; the shell, the compiler and `SYS_WRITEFILE` call diskfs, which calls
fat12 and then ata; the debugger and the runtime load programs with fat12 and
share `prog_fault`/`return_to_kernel`.

`PROJECT.json` lists the hazards, each at its line, with the properties that
cover it. Hazards seen and covered by no property:

- `keyboard.c:113`: the release of either shift key clears `shift_held`;
  `keyboard.c:178`: `keyboard_wait_any` leaves the key in the ring. Both are
  visible at once, and nothing says what should happen instead.
- `diskfs.c:113`: after an interrupted write the next boot looks at the BPB only;
  `diskfs.c:116`: formatting writes the BPB first. There is no repair to check;
  the properties of `DiskFs` stop at the first boot from a torn partition.
- `ata.c:140`: a command after a timeout goes to a busy drive.
- `runtime.c:294`: loading a program at 0x200000 may write over the end of the
  volume in memory, which lies there too (see Usermode), and a later sync writes that
  to the disk. Where it lies depends on the build; the other modules take the kernel's
  memory as untouched by programs.
- `codegen.c:66`: a full fixup table drops the fixup and keeps the jump;
  `preproc.c:28`: a full macro table ignores a redefinition too.
- `vga.c:64`: the shadow of character cells is stale after graphics.
- `cc.c:130`: `cc -r` and `debug` start a program with the argument of the run
  before, since only the shell's `run` calls `prog_set_arg`.

## Modules

| Module | Role |
|---|---|
| `KeyQueue` | abstract: a bounded queue that drops new keys when full |
| `Keyboard` | keyboard.c with its interrupt handler, readers and the device |
| `KeyboardProofs` | theorems about `Keyboard` |
| `FatTable` | the BPB's derived values and the packed table |
| `FileStore` | abstract: independent named files |
| `Fat12` | fat12.c over `FatTable` |
| `Loops` | a loop with a known number of turns, as an operator |
| `NatLemmas` | least elements, induction over sets of naturals, division, loops: facts the proofs share |
| `Fat12Proofs` | theorems about the table, chains, directory and files of `Fat12`, and that it implements `FileStore` |
| `FatOverlap` | table and root directory as one array, on the real geometry |
| `DiskFs` | diskfs.c, ata.c and ramdisk.c over `Fat12` |
| `DiskFsProofs` | theorems about `DiskFs` |
| `Debugger` | debugger.c with the CPU and the person at the prompt |
| `DebuggerProofs` | theorems about `Debugger` |
| `Usermode` | runtime.c and usermode.asm with the exceptions, interrupts and pages they meet |
| `UsermodeProofs` | theorems about `Usermode` |
| `EditBuffer` | buffer.c: gap buffer and undo ring, as operators |
| `TextHistory` | abstract: a line of texts along which undo and redo move |
| `Editor` | editor.c and the cursor of view.c over `EditBuffer` |
| `EditorProofs` | theorems about `EditBuffer` and `Editor` |
| `BasicText` | tokenizer.c and the conversions of numbers |
| `BasicProgram` | program.c: the line store |
| `BasicExpr` | expr.c and vars.c: values, functions, precedence |
| `Basic` | exec.c and basic.c over these: statements, RUN, the prompt, files |
| `BasicProofs` | theorems about the store and the interpreter |
| `MC*` | instances for TLC |

### Keyboard

The ring, the modifiers, the prefix flag and the held-key tables are the C
statics. `keyboard_irq_handler` is one action, because interrupt gates keep
interrupts off; it takes one byte from `wire`, the controller's queue. The
readers take one step per load or store: `keyboard_getchar` is
`GetcharCheck`, `GetcharHalt`, `GetcharRead`, `GetcharAdvance`, so that a key
can arrive between any two, and `hlt` is a state that only an interrupt leaves.
`keyboard_init` unmasks IRQ1 and drains the controller while interrupts are on.
The ASCII tables are constants. History: `drained` (init threw a byte away),
`polled` (has_key answered yes and nothing was read since), `got`.

Assumed of the environment: the device queues bytes in order; a key that is
down may repeat. The controller's own queue limit is `MaxWire`.

### FatTable, Fat12, FileStore

`fat` is an array of bytes and two entries share one, as in the code.
`fat12_free_chain` and the allocating loop take one step per iteration, so the
invariants are stated for the middle of a call too. A directory entry keeps the
class of its first name byte, the name, the first cluster and the size.
Blocks stand for cluster-sized pieces of a file, so a size counts blocks; a
partly filled last cluster is not told apart from a full one. `name_to_83` is
a constant function that may map different spellings to one name. It lets the
byte 0xE5 through, and `fat12.c:296` copies the name into the entry as it is, so an
entry for a name that begins with it is one that every scan takes for deleted:
`Hidden` is the set of those names, and `WriteHidden` the end of such a write, which
returns 0, leaves no file, and leaves the clusters allocated. The early
returns (`DiskFull`, `DirectoryFull`) leave what they leave in the code: the
old chain freed, the new one allocated.

`owner` is history: which file a cluster was last allocated to. It lets
`ChainsApart` speak about chains without walking them.

`FileStore` is what callers may rely on, and it says what the code really
gives: a failed overwrite may leave a stretch of the new content in place of
the old file, and a write under a name of `Hidden` returns 0 and stores nothing.
The refinement maps each name to what `fat12_read_file` returns.

### DiskFs

Boot (`PowerOn`, `ata_init`, `ReadPartition` or `RamdiskFallback`), calls
(`Call`, `Step`), and `write_partition` as one `WriteChunk` per ATA command.
`PowerCut` and `WriteError` in a chunk leave any subset of its sectors written.
ata.c sees ERR only in front of a sector, and a timeout: behind a command's last
sector and behind FLUSH CACHE it waits for BSY and looks at nothing else
(`ata.c:166-171`). `UnreportedError` is that: the command returns 0, any of its
sectors may be missing, and `write_partition` goes on with the next chunk.
`OnDisk` is what the next boot would read. History: `synced` (contents when the
partition was last really written whole), `dirty` (names changed since), `torn`,
`damaged`, and `lost` (the running or the last `write_partition` has missed an
error). A sector the drive still caches when the flush returns counts as lost at
that command if it is lost in the end.

The ramdisk has a geometry of its own in the code; here it uses the disk's,
which changes how many files fit and nothing of the control. Sample files with
no content would get a cluster number without a cluster; there are none, and
`DefaultsAssumption` says so, that their names differ and that they fit.

### Debugger

A program is a set of instruction addresses with their kinds and successors;
a byte is the instruction's own or `int3`. The trap handlers run inside the CPU
step that raises them and end in the mode `repl`; the commands b, d, c, s and
q are actions. `int 0x80` with TF set raises no #DB: the gate clears TF and
`iret` restores it for the next instruction. Breakpoints are set at instruction
starts, as the manual advises. A breakpoint inside an instruction, and
a program that changes its own code, are left out. Commands that only show
something change nothing and are not actions.

### Usermode

`mode` says where the machine is: in the shell, in ring 3, asleep in a call
(`getchar`, `yield`), in the file write of a call, or stopped by `cli; hlt`.
`intf` is EFLAGS.IF. The program is arbitrary code: in ring 3 it may make any
call with any arguments, touch any address, execute a privileged or an
undefined instruction. What it may put into its own memory before a call is
unlimited, so the window's contents are not state; where a string ends and what
an argument is are chosen at the call. `kread` and `kwritten` collect the cells
outside the window that the kernel touched for it, after every check of
`user_range_ok` and `user_str_ok` with 32-bit wrap-around (`AddrMod`).

The window is not only the program's. The kernel is linked from 0x100000 on
(`linker.ld:6`), its .bss holds the 1 MB volume (`diskfs.c:9`) and the 256 KB ramdisk
(`ramdisk.c:30`), and so it runs on into 0x200000-0x300000, which `paging.c:70-74`
marks USER as a whole, although `paging.c:66-69`, `paging.h:10-12` and
`docs/ring3-plan.md:92` say that the kernel stays out of reach. `Exposed` is the set
of the kernel variables that lie there (which ones depends on the build; the run
takes all): `saved_kernel_esp`, `prog_arg`, and "other" for what the shell and the
debugger keep. `Store` is a store of the program into one of them; loading a
program (`prog_load`) stores over any set of them, since it copies the file, an exit stub
and a stack there. After that `return_to_kernel` may go anywhere (`mode = "wild"`), `prog_arg` may have any
length of `StoredLengths` or no end, and `UsesDamaged` says that the kernel may go
astray whenever it uses one of the others; `RunsWild` is ring 0 running what the
program has chosen. `overwritten` is history. `WritesConfined` holds all the same,
since `user_range_ok` and the length of a copy do not depend on those variables;
`ReadsConfined`, `NeverHalts` and `InterruptsServed` say what holds until then.

`prog_fault` and `sys_exit` go back to `enter_user`'s caller and set IF.
`SYS_WRITEFILE` is two steps, since interrupts are off in between; `SYS_GETCHAR`
and `SYS_YIELD` sleep with interrupts on; every other call is one step.
A timer pulse is held by the PIC (`irq0`) until IF is set.

Abstractions: a cell is a byte of a string or a dword of an argument block; the
calls that draw only read; the readers' loop in the keyboard driver is one step
here and in full in `Keyboard`; one argument of a format may be a string; text
behind a lone `%` is walked to its end and not interpreted. That some byte between the top
of the window and the end of the mapped 32 MB is zero (`KernelNul`) is an
assumption. A call that writes into the window for the program at one of the
exposed variables counts as a store of the program right behind the call.

### EditBuffer, TextHistory, Editor

`EditBuffer` keeps the two ends of the gap buffer and the ring with its three
counters; undo and redo replay entry by entry, as the loops do. `Chars` is what a
text may hold; the operators tell newline, space, tab and NUL from the rest. `Editor` has one
action per kind of key in each mode, counts, pending operators, `g` and `r`
prefixes, charwise and linewise selections, yank and paste, and the command
line; every action ends in the `sync_cursor` its handler calls. Saving may fail
and then leaves the file as it was, gone or `Damaged`. Keys with two names are
one key; the command line is reduced to the command it spells; messages and
drawing are left out.

`TextHistory` is what a user expects of `u` and `Ctrl-r`. The refinement maps
the ring to the texts at its boundaries, found by replaying it both ways.

What the code does that a user of vi would not expect, and the model does too:
`cc` removes the newline (against the comment at `editor.c:291`); in `3gg` the
first `g` clears the count; `u` behind a `Ctrl-r` pushes a boundary and so drops
what could still be redone (`buffer.c:32`); `V` behind the last newline
selects line 0; `dg` and another key leave the operator pending; a digit behind
`r` counts; a file larger than the buffer is cut when read; a
name is cut to 12 characters; a failed `:w` of an unmodified text may damage the
file and `:q` still leaves without a question.

### BasicText, BasicProgram, BasicExpr, Basic

A line is typed as lexemes, tokenized, stored, and detokenized by SAVE. A lexeme
is a keyword, a number or a character, and as wide as its characters (`Size`,
`Spell`), so that a text has a `Width` and the buffers their limits: `DETOK_MAX`
(159) for what `detokenize` writes, `LINE_MAX` (158) for what LOAD reads of a line,
`SAVE_MAX` and `LOAD_MAX` for the file. A line may be typed up to 159 characters
long (`basic.c:55`) and is listed longer than it was typed, because a keyword comes
back in full and a literal too large with a minus. `detokenize` then stops at the
end of its buffer (`FrontOf`), and LOAD reads a front of the line and takes what is
left for another line (`BackOf`, `AsLine`), as `basic.c:238` does.
Numbers lie in `-IntHalf .. IntHalf - 1` and wrap; line numbers wrap at 65536;
the store is the sequence of its lines with their sizes. The evaluator is the
recursive descent of expr.c as a function of its calls (`Evaluator`), with its
two kinds of failure: an error, and a state of which nothing can be said, which ends
in `lost`: a processor fault (`INT_MIN / -1`), a `MID$` whose count overflows, and a
concatenation past the end of the pool. `expr.c:399` computes the length of a
concatenation in a byte and takes room for that, and copies both strings in full:
`Joined` cuts the value off where the copy stays in the pool, and is lost where
it does not. A descent nests at most
`7 * Len(tokens) + 8` calls, since every seventh call takes a token; loops run
as often as their input is long.
One action per statement and per turn of the loops in `exec_line_at` and
`cmd_run`; the Ctrl-C poll is part of every statement.

Abstractions: letters have one case; `RND` and `PEEK`
return any of `Draws`; `CHR$` knows a small alphabet; POKE has no effect on the
interpreter; printing and LIST are left out. A number has at most ten digits.
Where a line is cut, `<=`, `>=` and `<>` are not cut in the middle by
`detokenize`, the letters around a cut spell no new keyword, a cut within a string
has no keywords behind it, and the number of a line with its spaces is no wider
than `line_buf`. The four bytes behind a number's token are there, and whoever
lands on one reads the token or the character with its code (`Codes`); only
bytes 254 and 255 of a number start no number and no string there. The value is
kept with the token as well.

What the code does and the model too: a false IF looks for ELSE byte by byte, so
it takes one of a number with a byte 143, as in `IF 0 THEN A=143`, and goes on
inside the number (`exec.c:316`, against its comment "Skip to ELSE or end of
line"); `IF x THEN s ELSE t` with a true x ends in
SYNTAX ERROR at ELSE (`exec.c:497`); the variables A0 to A9 cannot be written
(`tokenizer.c:131` against `vars.h:11`); RETURN restores the position of the
calling line, but the loop goes on with the returning line's tokens
(`exec.c:361`, `:511`; the comment at `:362` says otherwise); GOSUB pushes
before it looks for the line; FOR assigns before it tests its stack;
a line that does not fit takes the old one of its number with it; the least number
has no absolute value and is printed, and saved, as a bare `-` (`tokenizer.c:193`,
`expr.c:84`; BASIC is built with -O0, `CMakeLists.txt:92-94`); a literal too
large comes back from SAVE as a minus and a number, and LOAD of such lines, which
are longer, may find no room for one in `prog_buf` and drops it without a message
(`LoadRestoresSaved` leaves those lines out); a concatenation's length
wraps at 256; a line that is listed with more than 158 characters comes back in two
pieces, the second under whatever number it begins with; Ctrl-C at INPUT only empties the answer; keys typed ahead are
swallowed, one per statement.

## Runs

| Run | Instance | States | Shows |
|---|---|---|---|
| `keyboard` | ring of 3, keys A, Ctrl, Up; 2 bytes in the controller, 4 presses and releases | 128,671 | `RefinesQueue`, `WaitersWake`, `PollNeverBlocks`, `HeldKeysExact` |
| `fat12` | 4 clusters, 2 directory entries, 5 spellings of 4 names, one of them beginning with 0xE5, contents of 0, 2 and 3 blocks; no bound on the number of calls | 79,224 | `ChainsApart`, `FreeIffZero`, `NoLeak`, `DirectorySound`, `NoStrayWrites`, `RefinesFileStore` |
| `fat_overlap` | the geometry of `format_volume` | — | finding: `DirectoryUntouched` fails |
| `diskfs` | 7 sectors in chunks of 4, contents of 1 and 3 blocks, 4 calls, 2 faults | 790,524 | `CrashSparesOthers`, `SyncIsComplete`, `CleanBootSound` |
| `diskfs_ack` | the same | — | finding: `AckedIsOnDisk` fails |
| `debugger` | a loop of 4 instructions with a syscall, 3 breakpoints, 4 edits | 33,603 | `Transparent`, `KeepsGoing`, `StrayOnlyFromParked`, `LostOnlyBehindSyscall` |
| `debugger_stray` | the same | — | finding: `NoStrayInt3` fails |
| `debugger_lost` | the same | — | finding: `BreakpointsRearmed` fails |
| `editor` | 5 characters, ring of 6 entries, 2 rows, 3 files, 4 keys besides u, Ctrl-r and Escape | about 272,000 | `RefinesHistory`, `LogMatchesText`, `UnmodifiedMeansSaved`, `CursorShown`, `LinesOutsideSelectionStay` |
| `basic` | 8 programs on the disk, 8 numbered and 13 immediate lines, 166 expressions, numbers of one byte, stacks of 2, 3 lines typed | 57,998 | `StoreSorted`, `EntriesReturnable`, `ExpressionValue`, `EntryTouchesOneLine`, `LoadRestoresSaved`, `BreakHeard` |
| `basic_goto` | the same | — | finding: `OnlyNextResumesMidLine` fails |
| `usermode` | 14 addresses, 11 mapped, a window of 5 with every kernel variable in it; no bound on the number of calls | 9,240 (24 million transitions) | `WritesConfined`, `ReadsConfined`, `NeverHalts`, `InterruptsServed` |

Why the bounds are enough to see the interesting cases. Keyboard: with a ring
of three, two keys fill it and a third is dropped, indices wrap, and four
keys wrap it again; Ctrl and Up exercise modifiers and the prefix.
Fat12: four clusters make even and odd entries that share bytes; two files of
two blocks fill the volume, and a third block then fails in the middle of an
overwrite; four names overflow two entries, and `sigma`, which begins with 0xE5, takes
a free slot for as long as its write lasts and never becomes a file.
`hello` and `ls` are interchangeable (symmetry); `README` has a second spelling.
DiskFs: a chunk boundary falls between directory and data, and two
faults allow a cut during the write that follows an error, reported or not. Debugger: the loop
passes every address again, and three breakpoints leave one address without;
a fourth is refused.

Editor: the first keys already load a file of two lines or one that is cut; an
operator with a count and a motion takes four keys; deletions and pastes push an
entry per character and a boundary, so the ring fills and wraps within the
bound; u and Ctrl-r are not counted. Basic: the programs nest loops,
fill both stacks, loop for ever with and without FOR, call and return, read
and branch; a false IF has a number with the code of ELSE in it; three lines typed are enough to edit a program, run it and edit or
save it again; the store takes one long line and not two. One line is listed with
more characters than both `DETOK_MAX` (52) and `LINE_MAX` (51): it is cut by both,
and what is behind the cut is read as line 27. SAVE stops within the programs
(`SAVE_MAX` 24 of `LOAD_MAX` 84). Lengths of strings wrap at 8 and the pool has 18
bytes: one concatenation wraps within the pool, and one is copied past it. The
expressions are all trees of two binary operators, in brackets only where
precedence asks for them, with the value of the tree as the reference.
Usermode: every address and every length occurs in every call, so ranges end
exactly at the window's ends, reach over them, and wrap around; a stored
`prog_arg` may reach over the end of its buffer.

Deadlock checking is off for `diskfs`, `editor` and `basic`, because the bounds
on calls, faults and keys end them (the editor also ends by `:q`), and for
`fat_overlap`, where the volume fills up.

### Fairness

- Keyboard: strong fairness of the two interrupt handlers and weak fairness of
  the running reader's steps. The PIT ticks at 100 Hz and IRQ0 is never masked
  after `timer_init`; a request that comes while interrupts are off stays
  pending in the PIC and is taken when they are on again, so being enabled
  again and again is enough. Nothing is assumed of the person typing.
- Debugger: weak fairness of the program's instructions and of resuming (c or
  s). That the person resumes is an assumption about them: without it a stopped
  program stays stopped, as it should.
- Usermode: weak fairness of the kernel's own steps (a file write ends; a
  `getchar` with a key returns) and strong fairness of the timer handler: the
  CPU takes a held interrupt when IF is set. Nothing is assumed of the program, nor
  of ring 0 once it runs what the program has chosen: `InterruptsServed` ends there.
- Basic: weak fairness of the interpreter, since nothing but INPUT makes it
  wait. `BreakHeard` is the liveness property that needs it.
- Fat12, DiskFs and Editor are checked for safety only.

### Findings

1. `fat_overlap`: three FAT sectors hold 1024 entries, the formatted volume has
   2040 clusters; entry 1024 and above lie in the root directory
   (`diskfs.c:46`). The theorems of `Fat12Proofs` assume `FatFits`, which is
   exactly what this volume lacks. Disks made by `scripts/mkfs-fat12.sh` carry
   the geometry mtools chose.
2. `diskfs_ack`: the result of the sync is dropped (`diskfs.c:134`, `:141`).
3. `debugger_stray`: deleting the breakpoint one stands on (`debugger.c:67`).
4. `debugger_lost`: breakpoints on `int 0x80` and right behind it
   (`debugger.c:192`).
5. `basic_goto`: a jump starts its target line at the position where the jumping
   statement ended (`basic.c:157`).

For 3 and 4 the passing run shows that these are the only ways:
`StrayOnlyFromParked` and `LostOnlyBehindSyscall`.

Not a run, seen while reading: `docs/persistence-plan.md:192` says a fresh
format "populates defaults"; `diskfs_init` formats an empty volume. The window that
is to keep programs away from the kernel contains part of the kernel (see
Usermode). `diskfs_ack` is not the only way to lose a write: where ata.c misses the
error, nobody could know (`UnreportedError`), and `AckedIsOnDisk` leaves that out.

## Theorems

Checked by TLAPS for every value of the constants. `PROJECT.json` lists each with
the property it states, so the run shows on an instance what the theorem says in
general.

**KeyboardProofs** (assuming a ring of at least two slots, scancode tables
of the right type, and no key whose make code is 0x60): `TypeCorrect`,
`PollSafe`, `RingIsQueue`, `HeldKeysAreExact`.
`RingIsQueue` maps the ring to the sequence from tail to head. Its invariant
ties the reader's copy `c` to the head of that sequence between the read and
the advance: the handler may push in between, but it never writes the slot at
`kbd_tail`, because one slot stays free. `PollSafe` needs that only the reader
removes keys. `HeldKeysAreExact` is inductive only when it speaks about the bytes
on their way, since the tables lag behind the keyboard: `WireInv` says that
handling the waiting bytes one by one ends in the keys that are down now, with
the states in between as the witness. A make code of 0x60 would be
released by the byte 0xE0, which the driver takes for the prefix; no PC
keyboard has that key (`KeysAssumption`).

**Fat12Proofs** (assuming `BpbAssumption`, `NamesAssumption`,
`ContentsAssumption` and `FatFits`): `WriteSetsOneEntry` is arithmetic on the
packed table: entries 2k and 2k+1 share a byte and each write keeps the other's
nibble. `FatTypeCorrect`, `ZeroMeansFree`, `NoCrossLinks` and `OthersUntouched`
follow from one inductive invariant

    FatInv == FatTypeOK /\ FreeIffZero /\ ChainsApart /\ CallInv /\ BuildInv /\ FreeInv

None of the middle three is inductive alone. `CallInv` says what the locals of a
running call may be, `BuildInv` that the chain under construction stays in
clusters marked New and ends in `prev_cluster`, `FreeInv` that the chain being
freed stays in clusters marked Dying and that the cursor is the next of them.
With them, allocating takes a free cluster (entry zero, hence owned by nobody),
freeing stays inside the old chain, and a disk-full return leaves the old
entry's first cluster in the partial chain, since no free cluster was left.

`DirectoryStaysSound`, `NothingLeaks` and `FilesAreIndependent`, the refinement
of `FileStore`, follow in the same module. They hold with names of `Hidden`: the
invariant `HiddenUnseen` says that no entry in use has such a name, so a write under one never
finds a file to replace, and what it leaves behind is lost and nobody's
(`NothingLeaks` speaks of the time before). The directory needs that the slot a call found when it began is still the one its
name is found in when it ends (`FoundAtStart`), although a call takes many
steps. What a chain yields is a walk of unknown length; the proofs replace it by
a witness:

    FilesInv == \A i \in Slots : dir[i].st = "used" /\ op.existing_idx # i
                                => \E c : LiesIn(i, c)

says that the clusters of every file the running call is not about are some
function `c` on `1 .. size` that the table links in order, that rises, and that
as long as no write has failed, lists all the clusters `i` owns; `LayIn` and `BuiltIn` say the same of the
chain being freed, as far as it is, and of the one being built. Allocation takes
the least free cluster, so a chain rises, cannot return to itself, and is
no longer than the volume: no loop of fat12.c ends by its iteration limit. It is
also why a failed overwrite keeps `FilesInv`: a write fails only when no cluster
is left, so everything the old file had, from its first cluster on, is in the new
chain, and what is then read of it is a stretch of the new content, as `FileStore`
allows. `ContentsAssumption` also says that `NoFile`, the
value that stands for "no such file", is no content.

**DiskFsProofs** (also assuming `DiskAssumption`, that a cluster is a sector and
there is one FAT, as `format_volume` sets them, and `DefaultsAssumption`):
- `DiskTypeCorrect` cannot lean on `FatInv`, since a torn partition may hold
  anything; the locals of a call have weaker types there (`MemTypes`).
- `SyncWritesAll`: during a sync that has lost no sector unnoticed, the sectors
  before `lba` are those of memory (`SyncInv`), and the sectors of table, directory and data make up the
  partition (`SectorsCover`), for every geometry and chunk size.
- `BootsFindSoundVolumes`: loading a volume must give `FatInv` again, whose
  history variable `owner` is not on the disk. `SoundVolume(v)` says that some
  owners make the chains of `v` sound; `LoadSound` that those found by walking
  the chains do. The invariant `BootInv` keeps it for the partition and,
  as `FatInv`, for memory, also after failed calls have leaked clusters.
- `CrashesSpareOthers`: the partition after a cut is any mixture of old and new
  sectors, and an entry of the table may lie half in one sector and half in the
  next. The invariant `CrashInv` says that partition and memory agree on
  the files outside `Touched`: same slots, same entries, same clusters and
  data, and no end mark before them. An entry that is the same in both is
  the same in every mixture of their bytes (`MixedEntry`), so the walk from an
  agreeing slot is the same (`SameWalk`, `AgreeReads`), a torn write keeps the
  agreement (`OverwrittenAgrees`), and no step of a call disturbs it for any
  name but its own (`StepAgrees`).

**DebuggerProofs** (assuming a program whose instructions' successors are
instructions or its end, and a table of at least one breakpoint): `DebuggerTypes`,
`StrayOnlyBehindDelete`, `RearmedOrOvertaken`, `DebuggingIsTransparent`. The
invariant

    DbgInv == DbgTypeOK /\ BpInv /\ ParkInv /\ Accounted /\ RearmInv

says when the two variables that remember a breakpoint can be trusted: `at_bp`
names an active one at `eip` only while the program is stopped,
`pending_reinsert` an active one only while it runs. Both carve out what the
findings show: `parked_deleted` and `overtaken` are raised by exactly those steps.

**UsermodeProofs** (assuming `LayoutAssumption`: the window lies inside the mapped
memory, which lies inside the address space, and a zero byte follows the window;
which kernel variables lie in the window is left open; and `SizesAssumption`):
`UsermodeTypes`, `WritesStayInWindow`, `ReadsStayInWindow`, `CallsNeverHalt`, and
`UnexposedNeverHalts`: with no kernel variable in the window, as a linker script that
kept .bss below 0x200000 or above 0x300000 would have it, nothing a program does
stops the machine. The arithmetic is in `RangeConfined`:
when `addr + len` does not wrap and ends in the window, every shorter stretch
from `addr` lies in it; the other lemmas reduce each call to that. The invariant

    IInv == UmTypeOK /\ CallsSafe

needs both halves: the type of `prog_arg` bounds what `SYS_GETARG` writes, and
that the machine is not halted is what makes IF follow from the mode. The
proof treats the numeric and the Boolean variables apart (`Numbers`, `Flags`),
because no backend does both.

**EditorProofs** (assuming `EditBufferAssumption` and `EditorAssumption`: sizes of
at least one, and keys, files and the four special characters within `Chars`):
`EditorTypeCorrect`, `RingReplays`, `CursorIsShown`, `QuittingLosesNothing`,
`SelectionSparesOtherLines`. The invariant

    EditorInv == /\ b \in Ready /\ Shown /\ PrefixOK /\ YankOK
                 /\ sel_anchor \in Nat /\ FilesOK /\ UnmodifiedMeansSaved

is carried by one lemma per handler, all of one form (`Effect`): the key leaves a
sound buffer and a cursor on the screen, and either marks the text modified or
leaves it as it was. Under them lie the facts that make the handlers' loops end
where they should:
- the start of line n is found by counting newlines, exists for every n up to the
  last line and rises with n, so a range from one line to a later one runs forward;
- every motion ends within the text, so the two ends of a deletion are ordered
  and its loop deletes just what lies between them;
- a `Ready` buffer is `Replayable`: some function `f` gives the text at each entry of
  its ring, `f[0]` the text now, `f[i]` the text before the `i` newest entries,
  `f[-i]` the one after the next `i` to redo, and each entry undoes `f[i - 1]` to
  `f[i]` (`IsLog`). A change shifts `f` by one and drops the oldest text once the ring is
  full, and every text to be redone (`ChangeKeepsLog`); one entry undone or redone
  shifts it the other way (`BackKeepsLog`, `ForthKeepsLog`). `LogMatchesText`
  walks from the current text instead, so that every key starts its walks anew,
  and it says nothing while a replay is half done, when `Replays` buffers carry `f`
  through the loop. That `f` gives the walks their texts is `FittingWalk`;
- `J` on the last line, `r` at the end, `dd` of an empty text: the handlers that may
  find nothing to do leave the text alone or mark it modified.
- `n` turns of the deleting loop take just the `n` characters behind the cursor
  (`DeleteManyExact`), so deleting a range cuts it out of the text and nothing else
  (`DeleteRangeExact`). A selection that ends behind the text is clipped, which
  moves its last line by one when the text ends with a newline; `LastLineEnd` shows
  that both lines have the same end.

`PrefixOK` says that an operator waits only in normal mode, with a count of at
least one, and that nothing waits while text or a command is typed.

**BasicProofs** (assuming the constants' types, that what SAVE writes fits into
the buffer of LOAD, that LOAD reads no more of a line than `detokenize` writes, that
an answer fits into a string, and that a typed line has a character that ends a
name behind each keyword): `TypeCorrect`,
`StoreStaysSorted`, `EntriesTouchOneLine`, `EntriesStayReturnable`,
`SavedComesBack`, for typed lines, files and programs of any contents; the codes of bytes may be any that
make no token of 254 and 255, and the zero behind a line names no variable.
`StoreSorted` is preserved by whatever is inserted; the theorem about a full
store needs in addition that deleting a line keeps the order of the others.
`BasicTypeOK` rests on the evaluator, and so on a fact about every call of its
descent: `EvaluatorIn` shows, by induction over the bound on nested calls, that
a call with the state `x` ends in `Results(end, x)`, the states whose values fit
their words, whose string pool is within its size, that are still failed if `x`
was (a failed `x` may hold what does not fit), and that have not gone past the
end `end` of the line if `x` had not. The invariant

    TypeIn == StoreIn /\ DataIn /\ FlowIn /\ KeysIn /\ LineIn1

says beside the types where the control may be: while a program runs, its
current line and the lines on both stacks are in store, which holds because the
store changes at the prompt only and a jump looks its line up first.

`EntriesStayReturnable` is about positions: RETURN and NEXT go back to a place on
a stack without looking at it. On top of `TypeIn` it needs

    PlaceIn == Lined /\ Placed /\ (OnLine /\ ~drifted => Followed(st))

that the tokens being executed are those of a line in store (`Lined`), that a
statement starts within them and not behind a jump (`Placed`), and that every
entry of both stacks is behind its GOSUB or FOR (`Followed`). None of it would
follow if a statement or the evaluator could leave the line behind: `Fits` says
that no number and no string of a line reaches over its end, wherever one looks
at it, and `Results(end, x)` that a call of the evaluator which starts within
the line ends there. That what is typed, saved and loaded gives such lines goes
by their items (`Toks`: a number with its bytes, a string with its characters, or
one token), each of which `tokenize` writes and `detokenize` takes as a whole. A
false IF may stop inside a number, and stays within the line all the same.

`SavedComesBack` is the property `LoadRestoresSaved`, of the programs that are
`Short`: each line as it is listed, with its number, fits into `line_buf`. Nothing is claimed of
the others, which come back cut. Its core is `RoundTrip`: of a line that `tokenize`
made and that has no negative literals, `tokenize` makes the same line of its whole
text (`Unlexed`). Both loops are
followed side by side, item by item: `Mirror` says of the tokens so far that
`detokenize` turns them into a text, whatever follows, and that `tokenize` turns
that text into them again. A REM takes the rest of a line, so nothing follows
it; a string has its closing quote in the text whether it was typed or not. On top of it come the limits: SAVE stops behind
`SAVE_MAX` characters (`SavedFront`), which with one line more fit into
`load_buf`, so LOAD cuts no line that is short (`LineComesBack`) and rebuilds the program
from its front (`FrontGrown`: the lines come in order, and a front fits into
`prog_buf` when the whole does). The invariant

    StoreMade == StoreIn /\ prog \in Made /\ FilesKept

says that every line in store came out of `tokenize` under a number that fits 16
bits, and that a file that was saved holds what SAVE writes of its program.

### Only model-checked

- Liveness (`WaitersWake`, `KeepsGoing`, `InterruptsServed`, `BreakHeard`) is out
  of the prover's reach.
- `RefinesHistory` speaks about the groups of changes that undo and redo move
  along: how many turns of their loops reach a boundary, and which texts
  remain, is left to the run, while `RingReplays` proves that every turn fits.
- `ExpressionValue` compares the descent of the evaluator with values given
  beside the expressions: an induction over data.

## Plan

In this order; modules marked * are done.

1. `Keyboard`*, `KeyQueue`*, `KeyboardProofs`*
2. `FatTable`*, `Fat12`*, `FileStore`*, `Fat12Proofs`*, `FatOverlap`*
3. `DiskFs`* on top of `Fat12`; `Debugger`*
4. `EditBuffer`*, `TextHistory`*, `Editor`*
5. `BasicText`*, `BasicProgram`*, `BasicExpr`*, `Basic`*
6. `Usermode`*, `UsermodeProofs`*
7. `FileStoreProofs`*, `DiskFsProofs`*, `DebuggerProofs`*, `HeldKeysAreExact`*
   of the keyboard; `EditorProofs`*, `BasicProofs`*
8. `Codegen`: labels and fixups against a reference linker, tables at their
   limits; `Preproc`: macros and includes.

## Not modelled

Boot loader, GDT, serial, VGA and SVGA (register programming and pixels), the
disassembler (display), the games, the application library, the build scripts,
the physical memory manager (nothing calls its allocator), the shell's command
line, and the compiler: a sequential translation whose correctness needs a
semantics of C and of the processor. The reasons are in `PROJECT.json`.
