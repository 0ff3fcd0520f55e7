------------------------------ MODULE Usermode ------------------------------
(***************************************************************************)
(* kernel/cc/runtime.c with kernel/usermode.asm, and what it needs of      *)
(* idt.c, paging.c and timer.c: starting a ring-3 program, its system      *)
(* calls, the ways it ends, and the two interrupts that go on meanwhile.   *)
(*                                                                         *)
(* The program is arbitrary code. It can put anything into its own window  *)
(* before a call, so the window's contents are not state: what the kernel  *)
(* reads there (arguments, where a string ends) is chosen at the call. A   *)
(* cell stands for a byte of a string and for a dword of an argument       *)
(* block. Kept are the cells outside the window that a call touched.       *)
(*                                                                         *)
(* The window does not keep the program away from the whole kernel: the    *)
(* kernel starts at 0x100000 and its .bss, with the ramdisk and the 1 MB   *)
(* volume in front of runtime.c's variables, runs on into the window.      *)
(* Loading a program stores over those variables that lie where it goes,   *)
(* and what the program stores there (itself, or through a call) is an     *)
(* action.                                                                 *)
(***************************************************************************)
EXTENDS Integers

CONSTANTS
  AddrMod,            \* a uint32_t is 0 .. AddrMod - 1
  USER_REGION_BASE, USER_REGION_TOP,
  MappedTop,          \* the identity map's size
  KernelNul,          \* zero bytes outside the window
  Exposed,            \* the kernel variables that lie in the window, see Variables
  PROG_ARG_AT,        \* &prog_arg
  SVGA_SIZE,          \* SVGA_WIDTH * SVGA_HEIGHT
  FONT_SIZE,          \* the 4096 bytes of the ROM font
  PROG_ARG_SIZE,      \* sizeof(prog_arg)
  KBD_KEYS,           \* keys the keyboard ring holds
  ArgLengths,         \* lengths of the arguments typed behind run
  StoredLengths,      \* bound: lengths a program makes of prog_arg by storing there
  FileSizes,          \* sizes of the files a program reads
  TicksMod,           \* the width of ticks
  MaxConversions      \* bound: arguments a format takes

Addr == 0 .. AddrMod - 1
Window == USER_REGION_BASE .. USER_REGION_TOP - 1
NoNul == -1

\* What a store of the program can change: "other" is what the shell and the
\* debugger keep. (Of prog_exited and prog_exit_code, which lie there too, only
\* a log line reads one.)
Variables == {"saved_kernel_esp", "prog_arg", "other"}

ASSUME LayoutAssumption ==
  /\ {AddrMod, USER_REGION_BASE, USER_REGION_TOP, MappedTop} \subseteq Nat
  /\ 0 < USER_REGION_BASE /\ USER_REGION_BASE < USER_REGION_TOP
  /\ USER_REGION_TOP < MappedTop /\ MappedTop < AddrMod /\ 5 < AddrMod
  /\ KernelNul \subseteq (0 .. MappedTop - 1) \ Window
  /\ \E p \in KernelNul : p >= USER_REGION_TOP
  /\ Exposed \subseteq Variables /\ PROG_ARG_AT \in Addr
ASSUME SizesAssumption ==
  /\ {SVGA_SIZE, FONT_SIZE} \subseteq Addr \ {0}
  /\ {PROG_ARG_SIZE, KBD_KEYS, TicksMod} \subseteq Nat \ {0}
  /\ ArgLengths \subseteq Nat /\ StoredLengths \subseteq Nat /\ FileSizes \subseteq Nat
  /\ MaxConversions \in Nat

VARIABLES
  mode,            \* "shell"; "user": ring 3; "getchar", "yield": asleep in that
                   \* call; "writing": in diskfs_write_file; "halted": cli; hlt;
                   \* "wild": ring 0 runs what the program has chosen
  intf,            \* EFLAGS.IF
  stuck,           \* the program is at an instruction that faults for ever
  prog_exited, prog_exit_code,
  prog_arg,        \* its length
  damaged,         \* variables that hold what a program has stored there
  kbd,             \* keys in the ring
  irq0,            \* the PIC holds a timer interrupt
  ticks,
  kread, kwritten, \* cells outside the window that calls have read, written
  \* History.
  lone_percent,    \* a format has ended in a single %
  overwritten      \* loading a program, or the program, has stored into a kernel variable

progVars == <<prog_exited, prog_exit_code>>
irqVars == <<irq0, ticks>>
kernelCells == <<kread, kwritten>>
damageVars == <<damaged, overwritten>>
vars == <<mode, intf, stuck, progVars, prog_arg, kbd, irqVars, kernelCells, lone_percent, damageVars>>

-----------------------------------------------------------------------------
(* Memory. The window is the only memory with the USER bit.                *)

PageUser(addr) == addr \in Window
PagePresent(addr) == addr < MappedTop

\* What [addr, addr + len) is to memset, memcpy and their like.
Cells(addr, len) == {(addr + i) % AddrMod : i \in 0 .. len - 1}

\* Mutant: addr + len may wrap around.
user_range_ok_wraps(addr, len) ==
  LET end == (addr + len) % AddrMod
  IN  len = 0 \/ (addr >= USER_REGION_BASE /\ end <= USER_REGION_TOP)

user_range_ok(addr, len) ==
  LET end == (addr + len) % AddrMod
  IN  \/ len = 0
      \/ end >= addr /\ addr >= USER_REGION_BASE /\ end <= USER_REGION_TOP

\* Mutant: a string is checked at its first byte.
user_str_ok_first(addr, nul) == addr \in Window

\* nul is where the first zero byte at or behind addr is, inside the window.
user_str_ok(addr, nul) == addr \in Window /\ nul # NoNul

\* Where that can be.
Terminators(addr) == {NoNul} \cup {p \in Window : p >= addr}

-----------------------------------------------------------------------------
(* Starting and ending a program.                                          *)

Init ==
  /\ mode = "shell" /\ intf = TRUE /\ stuck = FALSE
  /\ prog_exited = FALSE /\ prog_exit_code = 0 /\ prog_arg = 0
  /\ kbd = 0 /\ irq0 = FALSE /\ ticks = 0
  /\ kread = {} /\ kwritten = {} /\ lone_percent = FALSE
  /\ damaged = {} /\ overwritten = FALSE

\* What is damaged once the variables in V have been stored over.
Damaged(V) == damaged \cup (V \cap {"saved_kernel_esp", "other"})

\* prog_load copies the program, an exit stub and a stack into the window, over
\* the kernel variables that are there: those in V, a prog_arg of length arg among
\* them perhaps.
prog_load(V, arg) ==
  /\ overwritten' = (overwritten \/ V # {})
  /\ prog_arg' \in IF "prog_arg" \in V THEN StoredLengths ELSE {arg}

\* The stack is saved, after prog_load; iret to ring 3, with IF set.
enter_user(V) ==
  /\ damaged' = Damaged(V) \ {"saved_kernel_esp"}
  /\ mode' = "user" /\ intf' = TRUE /\ stuck' = FALSE

\* prog_load finds no such file.
FileNotFound ==
  /\ mode = "shell"
  /\ UNCHANGED <<mode, intf, stuck, progVars, kbd, irqVars, kernelCells, lone_percent, damageVars>>

prog_exec(V, arg) ==
  /\ mode = "shell"
  /\ prog_load(V, arg)
  /\ prog_exited' = FALSE /\ prog_exit_code' = 0
  /\ enter_user(V)
  /\ UNCHANGED <<kbd, irqVars, kernelCells, lone_percent>>

\* Mutant: no room is left for the terminator.
prog_set_arg_full(len) == IF len <= PROG_ARG_SIZE THEN len ELSE PROG_ARG_SIZE

\* The length that is kept of an argument.
prog_set_arg(len) == IF len < PROG_ARG_SIZE THEN len ELSE PROG_ARG_SIZE - 1

\* The run command gives the argument; cc -r leaves the one before.
Run ==
  \E len \in ArgLengths :
    \/ FileNotFound /\ prog_arg' = prog_set_arg(len)
    \/ \E V \in SUBSET Exposed : prog_exec(V, prog_set_arg(len))
CompileAndRun == \E V \in SUBSET Exposed : prog_exec(V, prog_arg)

\* The stack of enter_user's caller is restored, from wherever the handler was,
\* and IF, which the gate had cleared, is set; from a saved_kernel_esp that the
\* program has stored, registers and return address may be anything.
return_to_kernel ==
  /\ \/ mode' = "shell"
     \/ "saved_kernel_esp" \in damaged /\ mode' = "wild"
  /\ intf' = TRUE /\ stuck' = FALSE

Ended(code) ==
  /\ prog_exit_code' = code /\ prog_exited' = TRUE
  /\ return_to_kernel
  /\ UNCHANGED <<prog_arg, kbd, irqVars>>

prog_fault == Ended(-1)

NothingTouched == UNCHANGED <<kernelCells, lone_percent, damageVars>>

-----------------------------------------------------------------------------
(* Exceptions of the program: isr_handler finds a handler for #GP and #PF. *)
(* Any other one is logged, and iret goes back to the same instruction.    *)

Running == mode = "user" /\ ~stuck

\* A fault with a ring-3 cs: the program touched a page that is not its own.
page_fault_handler ==
  /\ Running
  /\ \E addr \in Addr : ~PageUser(addr)
  /\ prog_fault /\ NothingTouched

\* It tried a privileged instruction.
gpf_handler == Running /\ prog_fault /\ NothingTouched

\* Division by zero, an invalid opcode and the like.
Unhandled ==
  /\ Running /\ stuck' = TRUE
  /\ UNCHANGED <<mode, intf, progVars, prog_arg, kbd, irqVars>> /\ NothingTouched

-----------------------------------------------------------------------------
(* The kernel's variables in the window.                                   *)

\* The program stores into one, and paging lets it. What a call writes for the
\* program into the window is such a store right behind the call.
Store(v) ==
  /\ Running
  /\ overwritten' = TRUE
  /\ damaged' = Damaged({v})
  /\ prog_arg' \in IF v = "prog_arg" THEN StoredLengths ELSE {prog_arg}
  /\ UNCHANGED <<mode, intf, stuck, progVars, kbd, irqVars, kernelCells, lone_percent>>

\* The kernel uses one of the others.
UsesDamaged ==
  /\ "other" \in damaged /\ mode # "halted"
  /\ mode' = "wild" /\ intf' = TRUE /\ stuck' = FALSE
  /\ UNCHANGED <<progVars, prog_arg, kbd, irqVars>> /\ NothingTouched

\* Ring 0 is no longer the kernel's: it may turn interrupts off, or stop.
RunsWild ==
  /\ mode = "wild" /\ intf' \in BOOLEAN
  /\ UNCHANGED <<mode, stuck, progVars, prog_arg, kbd, irqVars>> /\ NothingTouched

-----------------------------------------------------------------------------
(* System calls.                                                           *)

\* Dwords each call reads from the argument block.
sys_argc ==
  [PUTCHAR |-> 1, GETCHAR |-> 0, PUTS |-> 1, EXIT |-> 1, PEEK |-> 1, POKE |-> 2,
   MEMSET |-> 3, PRINTF |-> 1, TICKS |-> 0, KEYDOWN |-> 1, KEYDOWN_EXT |-> 1,
   BLIT |-> 1, GETFONT |-> 1, YIELD |-> 0, CLEAR |-> 0, KBFLUSH |-> 0, PUTAT |-> 5,
   SETCUR |-> 2, DIMS |-> 0, READFILE |-> 3, WRITEFILE |-> 3, GETARG |-> 2,
   SETCOLOR |-> 2, HASKEY |-> 0]

\* int 0x80 from ring 3, with an argument block that passes the test.
Int80(eax) == Running /\ \E ebx \in Addr : user_range_ok(ebx, sys_argc[eax])

BadNumber == Running /\ prog_fault /\ NothingTouched

BadArgs ==
  /\ Running
  /\ \E eax \in DOMAIN sys_argc, ebx \in Addr : ~user_range_ok(ebx, sys_argc[eax])
  /\ prog_fault /\ NothingTouched

\* The kernel touches these cells for the program and goes on to the mode
\* given. A page that is not there is a fault with the kernel's cs: cli; hlt.
Access(read, written, then) ==
  /\ kread' = kread \cup (read \ Window)
  /\ kwritten' = kwritten \cup (written \ Window)
  /\ mode' = IF \A addr \in read \cup written : PagePresent(addr) THEN then ELSE "halted"
  /\ intf' = (mode' \notin {"writing", "halted"})
  /\ UNCHANGED <<stuck, progVars, prog_arg, kbd, irqVars, damageVars>>

Reads(cells) == Access(cells, {}, "user") /\ UNCHANGED lone_percent
Writes(cells) == Access({}, cells, "user") /\ UNCHANGED lone_percent

\* check_ptr and check_str: the program is killed, or the call goes on.
Checked(ok, Call) == IF ok THEN Call ELSE prog_fault /\ NothingTouched

\* From addr to its zero byte: the one in the window, or the kernel's next.
StringCells(addr, nul) ==
  IF nul # NoNul THEN addr .. nul
  ELSE {p \in Addr : p >= addr /\ \A q \in KernelNul : q >= USER_REGION_TOP => p <= q}

\* The calls that show or return something and use no pointer.
SimpleCalls ==
  {"PUTCHAR", "TICKS", "KEYDOWN", "KEYDOWN_EXT", "CLEAR", "PUTAT", "SETCUR", "DIMS",
   "SETCOLOR", "HASKEY"}

Simple(eax, ebx) ==
  Running /\ user_range_ok(ebx, sys_argc[eax]) /\ Reads(Cells(ebx, sys_argc[eax]))

sys_exit ==
  /\ Int80("EXIT")
  /\ \E code \in 0 .. 1 : Ended(code)
  /\ NothingTouched

keyboard_flush ==
  /\ Int80("KBFLUSH")
  /\ kbd' = 0
  /\ UNCHANGED <<mode, intf, stuck, progVars, prog_arg, irqVars>> /\ NothingTouched

sys_peek(addr) ==
  Int80("PEEK") /\ Checked(user_range_ok(addr, 1), Reads(Cells(addr, 1)))

sys_poke(addr) ==
  Int80("POKE") /\ Checked(user_range_ok(addr, 1), Writes(Cells(addr, 1)))

sys_memset_wrap(dst, n) ==
  Int80("MEMSET") /\ Checked(user_range_ok(dst, n), Writes(Cells(dst, n)))

sys_blit(buf) ==
  Int80("BLIT") /\ Checked(user_range_ok(buf, SVGA_SIZE), Reads(Cells(buf, SVGA_SIZE)))

sys_getfont(dst) ==
  Int80("GETFONT") /\ Checked(user_range_ok(dst, FONT_SIZE), Writes(Cells(dst, FONT_SIZE)))

sys_puts(s, nul) ==
  Int80("PUTS") /\ Checked(user_str_ok(s, nul), Reads(StringCells(s, nul)))

\* The file has size bytes, or is not there.
sys_readfile(name, nul) ==
  /\ Int80("READFILE")
  /\ Checked(user_str_ok(name, nul), \E buf \in Addr, n \in Addr :
       Checked(user_range_ok(buf, n), \E size \in FileSizes \cup {0} :
         /\ Access(StringCells(name, nul), Cells(buf, IF size < n THEN size ELSE n), "user")
         /\ UNCHANGED lone_percent))

\* diskfs_write_file runs to its end with interrupts off.
sys_writefile(name, nul) ==
  /\ Int80("WRITEFILE")
  /\ Checked(user_str_ok(name, nul), \E buf \in Addr, n \in Addr :
       Checked(user_range_ok(buf, n),
         /\ Access(StringCells(name, nul) \cup Cells(buf, n), {}, "writing")
         /\ UNCHANGED lone_percent))

WriteEnds ==
  /\ mode = "writing" /\ mode' = "user" /\ intf' = TRUE
  /\ UNCHANGED <<stuck, progVars, prog_arg, kbd, irqVars>> /\ NothingTouched

\* prog_arg is read up to its zero byte, or where the buffer is full; stored over
\* by a program it may have none.
ArgBehind(m) ==
  {(PROG_ARG_AT + i) % AddrMod : i \in PROG_ARG_SIZE .. (IF prog_arg < m - 1 THEN prog_arg ELSE m - 2)}

\* Mutant: the terminator goes behind a buffer that the argument fills.
sys_getarg_behind(d, m) ==
  /\ Int80("GETARG")
  /\ Checked(user_range_ok(d, m),
       /\ Access(ArgBehind(m), IF m = 0 THEN {} ELSE Cells(d, 1 + (IF prog_arg < m THEN prog_arg ELSE m)), "user")
       /\ UNCHANGED lone_percent)

\* At most m - 1 bytes of the argument, and a zero byte.
sys_getarg(d, m) ==
  /\ Int80("GETARG")
  /\ Checked(user_range_ok(d, m),
       /\ Access(ArgBehind(m), Cells(d, IF prog_arg < m THEN prog_arg + 1 ELSE m), "user")
       /\ UNCHANGED lone_percent)

\* Everything printf reads when its checks succeed. A single % at the end makes
\* fmt step over the terminator: the walk goes on to the next one.
PrintfReads(ebx, fmt, nul, args, s, snul, lone) ==
  \E next \in IF lone THEN Terminators(nul + 1) ELSE {NoNul} :
    /\ Access(Cells(ebx, args + 1) \cup StringCells(fmt, nul)
              \cup (IF s = 0 THEN {} ELSE StringCells(s, snul))
              \cup (IF lone THEN StringCells(nul + 1, next) ELSE {}), {}, "user")
    /\ lone_percent' = (lone_percent \/ lone)

\* One argument may be a string s (0: there is none, or a null pointer).
PrintfString(ebx, fmt, nul, args, lone) ==
  \E s \in IF args = 0 THEN {0} ELSE Addr : \E snul \in Terminators(s) :
    Checked(s = 0 \/ user_str_ok(s, snul), PrintfReads(ebx, fmt, nul, args, s, snul, lone))

\* The format ends at nul and takes args arguments; next_arg checks each.
do_printf(ebx, fmt, nul) ==
  /\ Running /\ user_range_ok(ebx, sys_argc.PRINTF)
  /\ Checked(user_str_ok(fmt, nul), \E args \in 0 .. MaxConversions, lone \in BOOLEAN :
       /\ nul # NoNul => 2 * args + (IF lone THEN 1 ELSE 0) <= nul - fmt
       /\ Checked(\A i \in 1 .. args : user_range_ok((ebx + i) % AddrMod, 1),
                  PrintfString(ebx, fmt, nul, args, lone)))

-----------------------------------------------------------------------------
(* The calls that sleep, and what wakes them.                              *)

sys_getchar ==
  /\ Int80("GETCHAR")
  /\ IF kbd > 0 THEN kbd' = kbd - 1 /\ UNCHANGED mode
                ELSE mode' = "getchar" /\ UNCHANGED kbd
  /\ UNCHANGED <<intf, stuck, progVars, prog_arg, irqVars>> /\ NothingTouched

GetcharReturns ==
  /\ mode = "getchar" /\ kbd > 0
  /\ kbd' = kbd - 1 /\ mode' = "user"
  /\ UNCHANGED <<intf, stuck, progVars, prog_arg, irqVars>> /\ NothingTouched

\* Mutant: hlt with interrupts off.
sys_yield_no_sti ==
  /\ Int80("YIELD")
  /\ mode' = "yield" /\ intf' = FALSE
  /\ UNCHANGED <<stuck, progVars, prog_arg, kbd, irqVars>> /\ NothingTouched

\* sti; hlt
sys_yield ==
  /\ Int80("YIELD")
  /\ mode' = "yield" /\ intf' = TRUE
  /\ UNCHANGED <<stuck, progVars, prog_arg, kbd, irqVars>> /\ NothingTouched

\* The interval timer (external): a pulse while one is held is lost.
Pulse ==
  /\ ~irq0 /\ irq0' = TRUE
  /\ UNCHANGED <<mode, intf, stuck, progVars, prog_arg, kbd, ticks>> /\ NothingTouched

\* An interrupt ends the hlt of sys_yield.
Woken == mode' = IF mode = "yield" THEN "user" ELSE mode

timer_handler ==
  /\ irq0 /\ intf
  /\ irq0' = FALSE /\ ticks' = (ticks + 1) % TicksMod
  /\ Woken
  /\ UNCHANGED <<intf, stuck, progVars, prog_arg, kbd>> /\ NothingTouched

\* IRQ1 with a key; a full ring drops it.
keyboard_irq_handler ==
  /\ intf
  /\ kbd' = IF kbd < KBD_KEYS THEN kbd + 1 ELSE kbd
  /\ Woken
  /\ UNCHANGED <<intf, stuck, progVars, prog_arg, irqVars>> /\ NothingTouched

\* The shell reads its command.
ShellReads ==
  /\ mode = "shell" /\ kbd > 0 /\ kbd' = kbd - 1
  /\ UNCHANGED <<mode, intf, stuck, progVars, prog_arg, irqVars>> /\ NothingTouched

-----------------------------------------------------------------------------

PointerCalls ==
  \E addr \in Addr :
    \/ sys_peek(addr) \/ sys_poke(addr) \/ sys_blit(addr) \/ sys_getfont(addr)
    \/ \E n \in Addr : sys_memset_wrap(addr, n) \/ sys_getarg(addr, n)

StringCalls ==
  \E s \in Addr : \E nul \in Terminators(s) :
    \/ sys_puts(s, nul) \/ sys_readfile(s, nul) \/ sys_writefile(s, nul)
    \/ \E ebx \in Addr : do_printf(ebx, s, nul)

syscall_handler ==
  \/ BadNumber \/ BadArgs
  \/ \E eax \in SimpleCalls, ebx \in Addr : Simple(eax, ebx)
  \/ PointerCalls \/ StringCalls
  \/ sys_exit \/ keyboard_flush \/ sys_getchar \/ sys_yield

Stores == \E v \in Exposed : Store(v)
Program == page_fault_handler \/ gpf_handler \/ Unhandled \/ syscall_handler \/ Stores
Damage == UsesDamaged \/ RunsWild
Kernel == WriteEnds \/ GetcharReturns
Interrupt == timer_handler \/ keyboard_irq_handler

Next == Run \/ CompileAndRun \/ ShellReads \/ Program \/ Kernel \/ Interrupt \/ Pulse \/ Damage

(* The kernel's own code goes on, and the CPU takes a held interrupt as    *)
(* soon as IF is set. Nothing is assumed of the program and the user.      *)
Spec == Init /\ [][Next]_vars /\ WF_vars(Kernel) /\ SF_vars(timer_handler)

-----------------------------------------------------------------------------
(* Properties.                                                             *)

\* Types; as long as the kernel's own code runs, interrupts are on except in a
\* file write, and a program that has exited is not in ring 3 or asleep in a call.
UmTypeOK ==
  /\ mode \in {"shell", "user", "getchar", "yield", "writing", "halted", "wild"}
  /\ intf \in BOOLEAN /\ (mode # "wild" => (intf <=> mode \notin {"writing", "halted"}))
  /\ stuck \in BOOLEAN /\ (stuck => mode = "user")
  /\ prog_exited \in BOOLEAN /\ prog_exit_code \in -1 .. 1 /\ prog_arg \in Nat
  /\ ~overwritten => /\ prog_exited => mode = "shell"
                     /\ prog_arg < PROG_ARG_SIZE
                     /\ damaged = {}
  /\ kbd \in 0 .. KBD_KEYS /\ irq0 \in BOOLEAN /\ ticks \in 0 .. TicksMod - 1
  /\ kread \subseteq Addr \ Window /\ kwritten \subseteq Addr \ Window
  /\ damaged \subseteq {"saved_kernel_esp", "other"}
  /\ lone_percent \in BOOLEAN /\ overwritten \in BOOLEAN

\* "every pointer a ring-3 program passes must be confined to the user window"
\* (runtime.c): whatever the arguments, also with prog_arg stored over, no call
\* writes outside the window.
WritesConfined == kwritten = {}

\* No call reads outside it either, but for a format that ends in a single %;
\* as long as no kernel variable has been stored over (prog_arg may then have no
\* end).
ReadsConfined == lone_percent \/ overwritten \/ kread = {}

\* A program cannot stop the machine by what it asks for: as long as neither it
\* nor its loading has stored over a kernel variable, no call of it, however wrong
\* its arguments, touches a page that is not there, and every end of it is back in
\* the shell.
NeverHalts == overwritten \/ mode \notin {"halted", "wild"}

\* A timer interrupt that the PIC holds is served: no call, no end of a program
\* and no fault, also one that repeats for ever, leaves interrupts off, unless
\* ring 0 has come to run what the program has chosen.
InterruptsServed == irq0 ~> (~irq0 \/ mode = "wild")
=============================================================================
