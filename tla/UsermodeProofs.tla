--------------------------- MODULE UsermodeProofs ---------------------------
(***************************************************************************)
(* For every layout of the address space, whatever a ring-3 program asks   *)
(* for and whatever it stores into the kernel variables in its window: no  *)
(* system call writes outside the window. As long as neither it nor its    *)
(* loading has stored over one of them, no call reads outside it either    *)
(* (but for a format that ends in a single %), and none stops the machine. *)
(***************************************************************************)
EXTENDS Usermode, TLAPS

\* What addr + len is in 32 bits, when neither is too large.
LEMMA WrapOnce ==
  ASSUME NEW x \in Nat, x < 2 * AddrMod
  PROVE  x % AddrMod = IF x < AddrMod THEN x ELSE x - AddrMod
<1>1. AddrMod \in Nat /\ AddrMod > 0
  BY LayoutAssumption
<1>2. CASE x < AddrMod
  BY <1>1, <1>2, SMTT(30)
<1>3. CASE x >= AddrMod
  <2> DEFINE r == x - AddrMod
  <2>1. r \in Nat /\ r < AddrMod /\ x = AddrMod * 1 + r
    BY <1>1, <1>3, SMTT(30)
  <2> HIDE DEF r
  <2>2. (AddrMod * 1 + r) % AddrMod = r
    BY <1>1, <2>1, SMTT(30)
  <2> QED BY <1>1, <1>3, <2>1, <2>2 DEF r
<1> QED BY <1>1, <1>2, <1>3

\* What user_range_ok lets through lies in the window, and so does every
\* shorter piece of it.
LEMMA RangeConfined ==
  ASSUME NEW addr \in Addr, NEW len \in Addr, user_range_ok(addr, len),
         NEW n \in Nat, n <= len
  PROVE  Cells(addr, n) \subseteq Window
<1> SUFFICES ASSUME NEW i \in 0 .. n - 1 PROVE (addr + i) % AddrMod \in Window
  BY DEF Cells
<1>1. /\ AddrMod \in Nat /\ USER_REGION_BASE \in Nat /\ USER_REGION_TOP \in Nat
      /\ USER_REGION_TOP < AddrMod
  BY LayoutAssumption
<1>2. /\ addr \in Nat /\ len \in Nat /\ addr < AddrMod /\ len < AddrMod
      /\ i \in Nat /\ i < n /\ i < len /\ len # 0
  BY <1>1 DEF Addr
<1> DEFINE end == (addr + len) % AddrMod
<1>3. end = IF addr + len < AddrMod THEN addr + len ELSE addr + len - AddrMod
  BY <1>1, <1>2, WrapOnce
<1>4. end >= addr /\ addr >= USER_REGION_BASE /\ end <= USER_REGION_TOP
  BY <1>2 DEF user_range_ok
<1> HIDE DEF end
<1>5. addr + len <= USER_REGION_TOP
  BY <1>1, <1>2, <1>3, <1>4
<1>6. (addr + i) % AddrMod = addr + i
  <2>1. addr + i \in Nat /\ addr + i < AddrMod
    BY <1>1, <1>2, <1>5
  <2> QED BY <1>1, <2>1, WrapOnce
<1> QED BY <1>1, <1>2, <1>4, <1>5, <1>6 DEF Window

\* The argument blocks of the calls.
LEMMA BlockConfined ==
  ASSUME NEW ebx \in Addr, NEW k \in 0 .. 5, user_range_ok(ebx, k)
  PROVE  Cells(ebx, k) \subseteq Window
<1>1. k \in Addr /\ k \in Nat
  BY LayoutAssumption DEF Addr
<1> QED BY <1>1, RangeConfined

\* The block of a printf call: the format, and each argument as next_arg
\* checks it.
LEMMA ArgsConfined ==
  ASSUME NEW ebx \in Addr, NEW args \in Nat, user_range_ok(ebx, 1),
         \A i \in 1 .. args : user_range_ok((ebx + i) % AddrMod, 1)
  PROVE  Cells(ebx, args + 1) \subseteq Window
<1>1. AddrMod \in Nat /\ AddrMod > 1 /\ ebx \in Nat /\ ebx < AddrMod
  BY LayoutAssumption DEF Addr
<1>2. ASSUME NEW addr \in Addr, user_range_ok(addr, 1) PROVE addr \in Window
  <2>1. 1 \in Addr
    BY <1>1 DEF Addr
  <2>2. Cells(addr, 1) \subseteq Window
    BY <1>2, <2>1, RangeConfined
  <2>3. (addr + 0) % AddrMod \in Cells(addr, 1)
    BY DEF Cells
  <2>4. addr \in Nat /\ addr < AddrMod
    BY <1>1 DEF Addr
  <2>5. (addr + 0) % AddrMod = addr
    BY <1>1, <2>4, WrapOnce
  <2> QED BY <2>2, <2>3, <2>5
<1> SUFFICES ASSUME NEW i \in 0 .. args PROVE (ebx + i) % AddrMod \in Window
  BY DEF Cells
<1>3. CASE i = 0
  <2>1. (ebx + i) % AddrMod = ebx
    BY <1>1, <1>3, WrapOnce
  <2> QED BY <1>2, <2>1
<1>4. CASE i # 0
  <2>1. ebx + i \in Nat /\ i \in 1 .. args
    BY <1>1, <1>4
  <2>2. (ebx + i) % AddrMod \in Addr
    BY <1>1, <2>1, SMTT(30) DEF Addr
  <2> QED BY <1>2, <2>1, <2>2
<1> QED BY <1>3, <1>4

\* The strings user_str_ok lets through lie in the window.
LEMMA StringConfined ==
  ASSUME NEW addr \in Addr, NEW nul \in Terminators(addr), user_str_ok(addr, nul)
  PROVE  StringCells(addr, nul) \subseteq Window
BY LayoutAssumption DEF Addr, Terminators, user_str_ok, StringCells, Window, NoNul

\* The window is mapped.
LEMMA WindowPresent == \A addr \in Window : addr \in Addr /\ PagePresent(addr)
BY LayoutAssumption DEF Window, PagePresent, Addr

\* The walk behind a single % ends before the mapped memory does.
LEMMA WalkPresent ==
  ASSUME NEW nul \in Window, NEW next \in Terminators(nul + 1)
  PROVE  \A addr \in StringCells(nul + 1, next) : addr \in Addr /\ PagePresent(addr)
BY LayoutAssumption
   DEF Terminators, StringCells, Window, PagePresent, Addr, NoNul

\* The inductive invariant. The types need the rest of it (an access that fails
\* would halt), and it needs them: prog_arg's type bounds what SYS_GETARG writes,
\* and its size, which holds until a program stores there, what it reads.
CallsSafe == WritesConfined /\ ReadsConfined /\ NeverHalts
StoresExposed == overwritten => Exposed # {}
IInv == UmTypeOK /\ CallsSafe /\ StoresExposed

\* Its two halves: the counters and codes, and everything else.
Numbers ==
  /\ prog_exit_code \in -1 .. 1 /\ prog_arg \in Nat
  /\ ~overwritten => prog_arg < PROG_ARG_SIZE
  /\ kbd \in 0 .. KBD_KEYS /\ ticks \in 0 .. TicksMod - 1
Flags ==
  /\ mode \in {"shell", "user", "getchar", "yield", "writing", "halted", "wild"}
  /\ overwritten \/ mode \notin {"halted", "wild"}
  /\ overwritten => Exposed # {}
  /\ intf \in BOOLEAN /\ (mode # "wild" => (intf <=> mode \notin {"writing", "halted"}))
  /\ stuck \in BOOLEAN /\ (stuck => mode = "user")
  /\ prog_exited \in BOOLEAN
  /\ ~overwritten => (prog_exited => mode = "shell") /\ damaged = {}
  /\ irq0 \in BOOLEAN /\ lone_percent \in BOOLEAN /\ overwritten \in BOOLEAN
  /\ damaged \subseteq {"saved_kernel_esp", "other"}
  /\ kread \subseteq Addr \ Window /\ kwritten = {}
  /\ lone_percent \/ overwritten \/ kread = {}

LEMMA Halves == IInv <=> Numbers /\ Flags
BY DEF IInv, UmTypeOK, CallsSafe, WritesConfined, ReadsConfined, NeverHalts, StoresExposed, Numbers, Flags

LEMMA HalvesNext == IInv' <=> Numbers' /\ Flags'
BY DEF IInv, UmTypeOK, CallsSafe, WritesConfined, ReadsConfined, NeverHalts, StoresExposed, Numbers, Flags

\* A program ends, by its own call or killed.
LEMMA EndKeepsIInv ==
  ASSUME NEW code \in -1 .. 1, IInv, Ended(code), NothingTouched
  PROVE  IInv'
<1>1. Numbers'
  BY Halves DEF Numbers, Ended, irqVars, NothingTouched, damageVars
<1>2. Flags'
  <2>1. CASE mode' = "shell"
    BY Halves, <2>1
       DEF Flags, Ended, return_to_kernel, NothingTouched, kernelCells, irqVars, damageVars
  <2>2. CASE "saved_kernel_esp" \in damaged /\ mode' = "wild"
    BY Halves, <2>2
       DEF Flags, Ended, return_to_kernel, NothingTouched, kernelCells, irqVars, damageVars
  <2> QED BY <2>1, <2>2 DEF Ended, return_to_kernel
<1> QED BY <1>1, <1>2, HalvesNext

LEMMA FaultKeepsIInv == IInv /\ prog_fault /\ NothingTouched => IInv'
<1>1. -1 \in -1 .. 1
  OBVIOUS
<1> QED BY <1>1, EndKeepsIInv DEF prog_fault

\* A call that touches what it may: cells of the window, or others as ReadsConfined
\* lets it, and pages that are there unless a program has stored over prog_arg.
LEMMA AccessKeepsIInv ==
  ASSUME NEW read, NEW written, NEW then \in {"user", "writing"}, IInv, Running,
         written \subseteq Window, read \subseteq Addr,
         overwritten \/ \A addr \in read : PagePresent(addr),
         lone_percent' \in BOOLEAN, lone_percent => lone_percent',
         lone_percent' \/ overwritten \/ read \subseteq Window,
         Access(read, written, then)
  PROVE  IInv'
<1>1. overwritten' = overwritten /\ damaged' = damaged
  BY DEF Access, damageVars
<1>2. mode' \in {then, "halted"} /\ (overwritten \/ mode' = then)
  BY WindowPresent DEF Access
<1>3. kwritten' = {}
  BY DEF Access, IInv, CallsSafe, WritesConfined
<1>4. kread' \subseteq Addr \ Window /\ (lone_percent' \/ overwritten \/ kread' = {})
  BY DEF Access, IInv, UmTypeOK, CallsSafe, ReadsConfined
<1>5. intf' \in BOOLEAN /\ (intf' <=> mode' \notin {"writing", "halted"})
  BY DEF Access
<1>6. stuck' = FALSE /\ prog_exited' = prog_exited /\ irq0' = irq0
  BY DEF Access, Running, IInv, UmTypeOK, progVars, irqVars
<1>7. Flags'
  <2>1. Flags /\ mode = "user"
    BY Halves DEF Running
  <2>2. ~overwritten => ~prog_exited' /\ damaged' = {}
    BY <1>1, <1>6, <2>1 DEF Flags
  <2>3. mode' \in {"user", "writing", "halted"} /\ (overwritten \/ mode' # "halted")
    BY <1>2
  <2>4. /\ overwritten \in BOOLEAN /\ (overwritten => Exposed # {})
        /\ damaged \subseteq {"saved_kernel_esp", "other"}
        /\ prog_exited \in BOOLEAN /\ irq0 \in BOOLEAN
    BY <2>1 DEF Flags
  <2>5. /\ mode' \in {"shell", "user", "getchar", "yield", "writing", "halted", "wild"}
        /\ overwritten' \/ mode' \notin {"halted", "wild"}
        /\ stuck' \in BOOLEAN /\ (stuck' => mode' = "user")
    BY <1>1, <1>6, <2>3
  <2>6. intf' \in BOOLEAN /\ (mode' # "wild" => (intf' <=> mode' \notin {"writing", "halted"}))
    BY <1>5
  <2>7. /\ overwritten' \in BOOLEAN /\ (overwritten' => Exposed # {})
        /\ damaged' \subseteq {"saved_kernel_esp", "other"}
        /\ ~overwritten' => (prog_exited' => mode' = "shell") /\ damaged' = {}
        /\ prog_exited' \in BOOLEAN /\ irq0' \in BOOLEAN
    BY <1>1, <1>6, <2>2, <2>4
  <2>8. /\ kread' \subseteq Addr \ Window /\ kwritten' = {} /\ lone_percent' \in BOOLEAN
        /\ lone_percent' \/ overwritten' \/ kread' = {}
    BY <1>1, <1>3, <1>4
  <2> QED BY <2>5, <2>6, <2>7, <2>8 DEF Flags
<1>8. Numbers'
  BY Halves, <1>1 DEF Access, Numbers, progVars, irqVars
<1> QED BY <1>7, <1>8, HalvesNext

LEMMA ReadsKeepsIInv ==
  ASSUME NEW cells, IInv, Running, cells \subseteq Window, Reads(cells)
  PROVE  IInv'
<1>1. cells \subseteq Addr /\ \A addr \in cells : PagePresent(addr)
  BY WindowPresent
<1>2. lone_percent' = lone_percent /\ lone_percent \in BOOLEAN /\ Access(cells, {}, "user")
  BY DEF Reads, IInv, UmTypeOK
<1> QED BY <1>1, <1>2, AccessKeepsIInv

LEMMA WritesKeepsIInv ==
  ASSUME NEW cells, IInv, Running, cells \subseteq Window, Writes(cells)
  PROVE  IInv'
<1>1. lone_percent' = lone_percent /\ lone_percent \in BOOLEAN /\ Access({}, cells, "user")
  BY DEF Writes, IInv, UmTypeOK
<1> QED BY <1>1, AccessKeepsIInv

\* prog_arg has an end inside its array as long as no program has stored there.
LEMMA ArgEnds ==
  ASSUME NEW m \in Addr, IInv
  PROVE  ArgBehind(m) \subseteq Addr /\ (overwritten \/ ArgBehind(m) = {})
<1>1. prog_arg \in Nat /\ (~overwritten => prog_arg < PROG_ARG_SIZE) /\ m \in Nat
  BY LayoutAssumption DEF IInv, UmTypeOK, Addr
<1>2. AddrMod \in Nat /\ AddrMod > 0 /\ PROG_ARG_AT \in Nat /\ PROG_ARG_SIZE \in Nat
  BY LayoutAssumption, SizesAssumption DEF Addr
<1> DEFINE last == IF prog_arg < m - 1 THEN prog_arg ELSE m - 2
<1>3. \A i \in PROG_ARG_SIZE .. last : (PROG_ARG_AT + i) % AddrMod \in Addr
  BY <1>1, <1>2, SMTT(30) DEF Addr
<1>4. last \in Int /\ (overwritten \/ last < PROG_ARG_SIZE)
  BY <1>1, <1>2
<1> HIDE DEF last
<1>5. overwritten \/ PROG_ARG_SIZE .. last = {}
  BY <1>2, <1>4
<1>6. ArgBehind(m) = {(PROG_ARG_AT + i) % AddrMod : i \in PROG_ARG_SIZE .. last}
  BY DEF ArgBehind, last
<1> QED BY <1>3, <1>5, <1>6

LEMMA PointerCallsKeepIInv == IInv /\ PointerCalls => IInv'
<1> SUFFICES ASSUME IInv, PointerCalls PROVE IInv'
  OBVIOUS
<1>1. PICK addr \in Addr :
        \/ sys_peek(addr) \/ sys_poke(addr) \/ sys_blit(addr) \/ sys_getfont(addr)
        \/ \E n \in Addr : sys_memset_wrap(addr, n) \/ sys_getarg(addr, n)
  BY DEF PointerCalls
<1>2. \A len \in Addr : user_range_ok(addr, len) => Cells(addr, len) \subseteq Window
  BY RangeConfined DEF Addr
<1>3. 1 \in Addr /\ SVGA_SIZE \in Addr /\ FONT_SIZE \in Addr
  BY LayoutAssumption, SizesAssumption DEF Addr
<1>4. CASE sys_peek(addr)
  BY <1>2, <1>3, <1>4, ReadsKeepsIInv, FaultKeepsIInv DEF sys_peek, Checked, Int80
<1>5. CASE sys_poke(addr)
  BY <1>2, <1>3, <1>5, WritesKeepsIInv, FaultKeepsIInv DEF sys_poke, Checked, Int80
<1>6. CASE sys_blit(addr)
  BY <1>2, <1>3, <1>6, ReadsKeepsIInv, FaultKeepsIInv DEF sys_blit, Checked, Int80
<1>7. CASE sys_getfont(addr)
  BY <1>2, <1>3, <1>7, WritesKeepsIInv, FaultKeepsIInv DEF sys_getfont, Checked, Int80
<1>8. ASSUME NEW n \in Addr, sys_memset_wrap(addr, n) PROVE IInv'
  BY <1>2, <1>8, WritesKeepsIInv, FaultKeepsIInv DEF sys_memset_wrap, Checked, Int80
<1>9. ASSUME NEW n \in Addr, sys_getarg(addr, n) PROVE IInv'
  <2> DEFINE count == IF prog_arg < n THEN prog_arg + 1 ELSE n
             cells == Cells(addr, count)
             behind == ArgBehind(n)
  <2>1. CASE ~user_range_ok(addr, n)
    BY <1>9, <2>1, FaultKeepsIInv DEF sys_getarg, Checked, Int80
  <2>2. CASE user_range_ok(addr, n)
    <3>1. count \in Nat /\ count <= n
      BY LayoutAssumption DEF IInv, UmTypeOK, Addr
    <3>2. cells \subseteq Window
      BY <2>2, <3>1, RangeConfined
    <3>3. behind \subseteq Addr /\ (overwritten \/ behind = {})
      BY ArgEnds
    <3>4. /\ Running /\ Access(behind, cells, "user")
          /\ lone_percent' = lone_percent /\ lone_percent \in BOOLEAN
      BY <1>9, <2>2 DEF sys_getarg, Checked, Int80, IInv, UmTypeOK
    <3> HIDE DEF cells, behind
    <3> QED BY <3>2, <3>3, <3>4, AccessKeepsIInv
  <2> QED BY <2>1, <2>2
<1> QED BY <1>1, <1>4, <1>5, <1>6, <1>7, <1>8, <1>9

\* next_arg finds all the arguments in the window.
NextArgsOk(ebx, args) == \A i \in 1 .. args : user_range_ok((ebx + i) % AddrMod, 1)

LEMMA PrintfReadsKeepsIInv ==
  ASSUME NEW ebx \in Addr, NEW fmt \in Addr, NEW nul \in Terminators(fmt),
         NEW args \in Nat, NEW s \in Addr, NEW snul \in Terminators(s), NEW lone \in BOOLEAN,
         IInv, Running, user_range_ok(ebx, 1), user_str_ok(fmt, nul), s = 0 \/ user_str_ok(s, snul),
         NextArgsOk(ebx, args), PrintfReads(ebx, fmt, nul, args, s, snul, lone)
  PROVE  IInv'
<1> DEFINE text == Cells(ebx, args + 1) \cup StringCells(fmt, nul)
                     \cup (IF s = 0 THEN {} ELSE StringCells(s, snul))
           walk(next) == IF lone THEN StringCells(nul + 1, next) ELSE {}
<1>1. PICK next \in (IF lone THEN Terminators(nul + 1) ELSE {NoNul}) :
        Access(text \cup walk(next), {}, "user") /\ lone_percent' = (lone_percent \/ lone)
  BY DEF PrintfReads
<1>2. StringCells(fmt, nul) \subseteq Window /\ nul \in Window
  BY StringConfined DEF user_str_ok, Terminators
<1>3. s # 0 => StringCells(s, snul) \subseteq Window
  BY StringConfined
<1>4. text \subseteq Window
  BY <1>2, <1>3, ArgsConfined DEF NextArgsOk
<1>5. \A addr \in walk(next) : addr \in Addr /\ PagePresent(addr)
  BY <1>2, WalkPresent
<1>6. /\ lone_percent' \in BOOLEAN /\ (lone_percent => lone_percent')
      /\ lone_percent' \/ walk(next) = {}
  BY <1>1 DEF IInv, UmTypeOK
<1> HIDE DEF text, walk
<1>7. text \cup walk(next) \subseteq Addr /\ \A addr \in text \cup walk(next) : PagePresent(addr)
  BY <1>4, <1>5, WindowPresent
<1>8. lone_percent' \/ text \cup walk(next) \subseteq Window
  BY <1>4, <1>6
<1> QED BY <1>1, <1>6, <1>7, <1>8, AccessKeepsIInv

LEMMA PrintfKeepsIInv ==
  ASSUME NEW ebx \in Addr, NEW fmt \in Addr, NEW nul \in Terminators(fmt), IInv,
         do_printf(ebx, fmt, nul)
  PROVE  IInv'
<1>1. CASE ~user_str_ok(fmt, nul)
  BY <1>1, FaultKeepsIInv DEF do_printf, Checked
<1>2. CASE user_str_ok(fmt, nul)
  <2>1. PICK args \in 0 .. MaxConversions, lone \in BOOLEAN :
          Checked(NextArgsOk(ebx, args), PrintfString(ebx, fmt, nul, args, lone))
    BY <1>2 DEF do_printf, Checked, NextArgsOk
  <2>2. CASE ~NextArgsOk(ebx, args)
    BY <2>1, <2>2, FaultKeepsIInv DEF Checked
  <2>3. CASE NextArgsOk(ebx, args)
    <3>1. PICK s \in (IF args = 0 THEN {0} ELSE Addr) : \E snul \in Terminators(s) :
            Checked(s = 0 \/ user_str_ok(s, snul),
                    PrintfReads(ebx, fmt, nul, args, s, snul, lone))
      BY <2>1, <2>3 DEF Checked, PrintfString
    <3>2. PICK snul \in Terminators(s) :
            Checked(s = 0 \/ user_str_ok(s, snul),
                    PrintfReads(ebx, fmt, nul, args, s, snul, lone))
      BY <3>1
    <3>3. CASE ~(s = 0 \/ user_str_ok(s, snul))
      BY <3>2, <3>3, FaultKeepsIInv DEF Checked
    <3>4. CASE s = 0 \/ user_str_ok(s, snul)
      <4>1. s \in Addr /\ args \in Nat
        BY LayoutAssumption DEF Addr
      <4>2. PrintfReads(ebx, fmt, nul, args, s, snul, lone)
        BY <3>2, <3>4 DEF Checked
      <4>3. Running /\ user_range_ok(ebx, 1)
        BY DEF do_printf, sys_argc
      <4> QED BY <1>2, <2>3, <3>4, <4>1, <4>2, <4>3, PrintfReadsKeepsIInv
    <3> QED BY <3>3, <3>4
  <2> QED BY <2>2, <2>3
<1> QED BY <1>1, <1>2

LEMMA StringCallsKeepIInv == IInv /\ StringCalls => IInv'
<1> SUFFICES ASSUME IInv, NEW s \in Addr, NEW nul \in Terminators(s),
                    \/ sys_puts(s, nul) \/ sys_readfile(s, nul) \/ sys_writefile(s, nul)
                    \/ \E ebx \in Addr : do_printf(ebx, s, nul)
             PROVE  IInv'
  BY DEF StringCalls
<1>1. user_str_ok(s, nul) => StringCells(s, nul) \subseteq Window
  BY StringConfined
<1>2. CASE sys_puts(s, nul)
  BY <1>1, <1>2, ReadsKeepsIInv, FaultKeepsIInv DEF sys_puts, Checked, Int80
<1>3. CASE sys_readfile(s, nul)
  <2>1. CASE ~user_str_ok(s, nul)
    BY <1>3, <2>1, FaultKeepsIInv DEF sys_readfile, Checked, Int80
  <2>2. CASE user_str_ok(s, nul)
    <3>1. PICK buf \in Addr, n \in Addr :
            Checked(user_range_ok(buf, n), \E size \in FileSizes \cup {0} :
              /\ Access(StringCells(s, nul), Cells(buf, IF size < n THEN size ELSE n), "user")
              /\ UNCHANGED lone_percent)
      BY <1>3, <2>2 DEF sys_readfile, Checked, Int80
    <3>2. CASE ~user_range_ok(buf, n)
      BY <3>1, <3>2, FaultKeepsIInv DEF Checked
    <3>3. CASE user_range_ok(buf, n)
      <4>1. PICK size \in FileSizes \cup {0} :
              /\ Access(StringCells(s, nul), Cells(buf, IF size < n THEN size ELSE n), "user")
              /\ UNCHANGED lone_percent
        BY <3>1, <3>3 DEF Checked
      <4> DEFINE count == IF size < n THEN size ELSE n
      <4>2. count \in Nat /\ count <= n
        BY SizesAssumption, LayoutAssumption DEF Addr
      <4> HIDE DEF count
      <4>3. Cells(buf, count) \subseteq Window
        BY <3>3, <4>2, RangeConfined
      <4>4. /\ StringCells(s, nul) \subseteq Addr /\ Running
            /\ \A addr \in StringCells(s, nul) : PagePresent(addr)
        BY <1>1, <1>3, <2>2, WindowPresent DEF sys_readfile, Int80
      <4>5. Access(StringCells(s, nul), Cells(buf, count), "user") /\ lone_percent' = lone_percent
        BY <4>1 DEF count
      <4> QED BY <1>1, <2>2, <4>3, <4>4, <4>5, AccessKeepsIInv DEF IInv, UmTypeOK
    <3> QED BY <3>2, <3>3
  <2> QED BY <2>1, <2>2
<1>4. CASE sys_writefile(s, nul)
  <2>1. CASE ~user_str_ok(s, nul)
    BY <1>4, <2>1, FaultKeepsIInv DEF sys_writefile, Checked, Int80
  <2>2. CASE user_str_ok(s, nul)
    <3>1. PICK buf \in Addr, n \in Addr :
            Checked(user_range_ok(buf, n),
              /\ Access(StringCells(s, nul) \cup Cells(buf, n), {}, "writing")
              /\ UNCHANGED lone_percent)
      BY <1>4, <2>2 DEF sys_writefile, Checked, Int80
    <3>2. CASE ~user_range_ok(buf, n)
      BY <3>1, <3>2, FaultKeepsIInv DEF Checked
    <3>3. CASE user_range_ok(buf, n)
      <4> DEFINE read == StringCells(s, nul) \cup Cells(buf, n)
      <4>1. read \subseteq Window
        BY <1>1, <2>2, <3>3, RangeConfined DEF Addr
      <4>2. Access(read, {}, "writing") /\ lone_percent' = lone_percent
        BY <3>1, <3>3 DEF Checked
      <4> HIDE DEF read
      <4>3. Running /\ read \subseteq Addr /\ \A addr \in read : PagePresent(addr)
        BY <1>4, <4>1, WindowPresent DEF sys_writefile, Int80
      <4> QED BY <4>1, <4>2, <4>3, AccessKeepsIInv DEF IInv, UmTypeOK
    <3> QED BY <3>2, <3>3
  <2> QED BY <2>1, <2>2
<1>5. ASSUME NEW ebx \in Addr, do_printf(ebx, s, nul) PROVE IInv'
  BY <1>5, PrintfKeepsIInv
<1> QED BY <1>2, <1>3, <1>4, <1>5

\* Loading and starting a program.
LEMMA StartKeepsNumbers ==
  ASSUME Numbers, NEW V \in SUBSET Exposed, NEW arg \in Nat,
         ~overwritten => arg < PROG_ARG_SIZE, prog_exec(V, arg)
  PROVE  Numbers'
<1>1. prog_arg' \in Nat /\ (~overwritten' => prog_arg' < PROG_ARG_SIZE)
  BY SizesAssumption DEF prog_exec, prog_load
<1> QED BY <1>1 DEF prog_exec, kernelCells, irqVars, Numbers

LEMMA StartKeepsFlags ==
  ASSUME Flags, NEW V \in SUBSET Exposed, NEW arg, prog_exec(V, arg)
  PROVE  Flags'
<1>1. /\ mode' = "user" /\ intf' = TRUE /\ stuck' = FALSE /\ prog_exited' = FALSE
      /\ overwritten' = (overwritten \/ V # {})
      /\ damaged' = Damaged(V) \ {"saved_kernel_esp"}
      /\ UNCHANGED <<irq0, lone_percent, kread, kwritten>>
  BY DEF prog_exec, prog_load, enter_user, irqVars, kernelCells
<1>2. /\ damaged' \subseteq {"saved_kernel_esp", "other"}
      /\ V = {} /\ damaged = {} => damaged' = {}
  BY <1>1 DEF Damaged, Flags
<1> QED BY <1>1, <1>2 DEF Flags

LEMMA NextKeepsIInv == IInv /\ [Next]_vars => IInv'
<1> SUFFICES ASSUME IInv, [Next]_vars PROVE IInv'
  OBVIOUS
<1> USE DEF NothingTouched, damageVars, kernelCells, irqVars, progVars, Running, Int80
<1>0. Numbers /\ Flags
  BY Halves
<1>1. CASE Run \/ CompileAndRun
  <2>1. Numbers'
    <3>1. CASE Run
      <4>1. PICK len \in ArgLengths :
              \/ FileNotFound /\ prog_arg' = prog_set_arg(len)
              \/ \E V \in SUBSET Exposed : prog_exec(V, prog_set_arg(len))
        BY <3>1 DEF Run
      <4>2. prog_set_arg(len) \in Nat /\ prog_set_arg(len) < PROG_ARG_SIZE
        BY SizesAssumption DEF prog_set_arg
      <4>3. CASE FileNotFound /\ prog_arg' = prog_set_arg(len)
        BY <1>0, <4>2, <4>3 DEF FileNotFound, Numbers
      <4> QED BY <1>0, <4>1, <4>2, <4>3, StartKeepsNumbers
    <3>2. CASE CompileAndRun
      <4>1. PICK V \in SUBSET Exposed : prog_exec(V, prog_arg)
        BY <3>2 DEF CompileAndRun
      <4> QED BY <1>0, <4>1, StartKeepsNumbers DEF Numbers
    <3> QED BY <1>1, <3>1, <3>2
  <2>2. Flags'
    <3>1. ASSUME NEW V \in SUBSET Exposed, NEW arg, prog_exec(V, arg) PROVE Flags'
      BY <1>0, <3>1, StartKeepsFlags
    <3>2. CASE FileNotFound
      BY <1>0, <3>2 DEF FileNotFound, Flags
    <3> QED BY <1>1, <3>1, <3>2 DEF Run, CompileAndRun
  <2> QED BY <2>1, <2>2, HalvesNext
<1>2. CASE ShellReads \/ keyboard_flush \/ sys_getchar \/ GetcharReturns
  <2>1. Numbers'
    BY <1>0, <1>2, SizesAssumption
       DEF ShellReads, keyboard_flush, sys_getchar, GetcharReturns, Numbers
  <2>2. Flags'
    <3>1. CASE ShellReads
      BY <1>0, <3>1 DEF ShellReads, Flags
    <3>2. CASE keyboard_flush
      BY <1>0, <3>2 DEF keyboard_flush, Flags
    <3>3. CASE sys_getchar
      BY <1>0, <3>3 DEF sys_getchar, Flags
    <3>4. CASE GetcharReturns
      BY <1>0, <3>4 DEF GetcharReturns, Flags
    <3> QED BY <1>2, <3>1, <3>2, <3>3, <3>4
  <2> QED BY <2>1, <2>2, HalvesNext
<1>3. CASE Unhandled \/ sys_yield \/ WriteEnds \/ Pulse
  <2>1. Numbers'
    BY <1>0, <1>3 DEF Unhandled, sys_yield, WriteEnds, Pulse, Numbers
  <2>2. Flags'
    <3>1. CASE Unhandled
      BY <1>0, <3>1 DEF Unhandled, Flags
    <3>2. CASE sys_yield
      BY <1>0, <3>2 DEF sys_yield, Flags
    <3>3. CASE WriteEnds
      BY <1>0, <3>3 DEF WriteEnds, Flags
    <3>4. CASE Pulse
      BY <1>0, <3>4 DEF Pulse, Flags
    <3> QED BY <1>3, <3>1, <3>2, <3>3, <3>4
  <2> QED BY <2>1, <2>2, HalvesNext
<1>4. CASE page_fault_handler \/ gpf_handler \/ BadNumber \/ BadArgs
  BY <1>4, FaultKeepsIInv DEF page_fault_handler, gpf_handler, BadNumber, BadArgs
<1>5. CASE sys_exit
  <2>1. PICK code \in 0 .. 1 : Ended(code)
    BY <1>5 DEF sys_exit
  <2> QED BY <1>5, <2>1, EndKeepsIInv DEF sys_exit
<1>6. CASE \E eax \in SimpleCalls, ebx \in Addr : Simple(eax, ebx)
  <2>1. PICK eax \in SimpleCalls, ebx \in Addr : Simple(eax, ebx)
    BY <1>6
  <2>2. sys_argc[eax] \in 0 .. 5
    BY DEF SimpleCalls, sys_argc
  <2>3. Cells(ebx, sys_argc[eax]) \subseteq Window
    BY <2>1, <2>2, BlockConfined DEF Simple
  <2>4. Running /\ Reads(Cells(ebx, sys_argc[eax]))
    BY <2>1 DEF Simple
  <2> QED BY <2>3, <2>4, ReadsKeepsIInv
<1>7. CASE PointerCalls
  BY <1>7, PointerCallsKeepIInv
<1>8. CASE StringCalls
  BY <1>8, StringCallsKeepIInv
<1>9. CASE Interrupt
  <2>1. Numbers'
    <3>1. CASE timer_handler
      BY <1>0, <3>1, SizesAssumption, SMTT(30) DEF timer_handler, Numbers
    <3>2. CASE keyboard_irq_handler
      BY <1>0, <3>2, SizesAssumption DEF keyboard_irq_handler, Numbers
    <3> QED BY <1>9, <3>1, <3>2 DEF Interrupt
  <2>2. Flags'
    <3>1. CASE timer_handler
      BY <1>0, <3>1 DEF timer_handler, Woken, Flags
    <3>2. CASE keyboard_irq_handler
      BY <1>0, <3>2 DEF keyboard_irq_handler, Woken, Flags
    <3> QED BY <1>9, <3>1, <3>2 DEF Interrupt
  <2> QED BY <2>1, <2>2, HalvesNext
<1>10. CASE Stores
  <2>1. PICK v \in Exposed : Store(v)
    BY <1>10 DEF Stores
  <2>2. Numbers'
    BY <1>0, <2>1, SizesAssumption DEF Store, Numbers
  <2>3. Flags'
    BY <1>0, <2>1 DEF Store, Damaged, Flags
  <2> QED BY <2>2, <2>3, HalvesNext
<1>11. CASE Damage
  <2>1. Numbers'
    BY <1>0, <1>11 DEF Damage, UsesDamaged, RunsWild, Numbers
  <2>2. Flags'
    <3>1. CASE UsesDamaged
      BY <1>0, <3>1 DEF UsesDamaged, Flags
    <3>2. CASE RunsWild
      BY <1>0, <3>2 DEF RunsWild, Flags
    <3> QED BY <1>11, <3>1, <3>2 DEF Damage
  <2> QED BY <2>1, <2>2, HalvesNext
<1>12. CASE UNCHANGED vars
  BY <1>0, <1>12, HalvesNext DEF vars, Numbers, Flags
<1> QED BY <1>1, <1>2, <1>3, <1>4, <1>5, <1>6, <1>7, <1>8, <1>9, <1>10, <1>11, <1>12
        DEF Next, Program, syscall_handler, Kernel

LEMMA InitIInv == Init => IInv
<1>1. Init => Numbers
  BY SizesAssumption DEF Init, Numbers
<1>2. Init => Flags
  BY DEF Init, Flags
<1> QED BY <1>1, <1>2, Halves

LEMMA AlwaysIInv == Spec => []IInv
BY InitIInv, NextKeepsIInv, PTL DEF Spec

\* The variables keep their types; as long as the kernel's own code runs,
\* interrupts are off only while a file is written, and a program that has ended
\* is not running.
THEOREM UsermodeTypes == Spec => []UmTypeOK
<1>1. IInv => UmTypeOK
  BY DEF IInv
<1> QED BY <1>1, AlwaysIInv, PTL

\* Whatever a program asks for and stores, in whatever order, and however the
\* address space is laid out: the calls of runtime.c write only into the window.
THEOREM WritesStayInWindow == Spec => []WritesConfined
<1>1. IInv => WritesConfined
  BY DEF IInv, CallsSafe
<1> QED BY <1>1, AlwaysIInv, PTL

\* The calls also read only there, as long as no format of do_printf has ended
\* in a single % and no kernel variable has been stored over.
THEOREM ReadsStayInWindow == Spec => []ReadsConfined
<1>1. IInv => ReadsConfined
  BY DEF IInv, CallsSafe
<1> QED BY <1>1, AlwaysIInv, PTL

\* As long as neither a program nor its loading has stored over a kernel variable
\* in the window, no call makes the kernel fault in its own code, where page_fault_handler and
\* gpf_handler would stop the machine (also the walk behind a single % ends at a
\* zero byte before it leaves the mapped memory), and every exit and every kill
\* returns to the shell. It promises nothing behind such a store, and in the
\* kernel's layout Exposed is not empty.
THEOREM CallsNeverHalt == Spec => []NeverHalts
<1>1. IInv => NeverHalts
  BY DEF IInv, CallsSafe
<1> QED BY <1>1, AlwaysIInv, PTL

\* With no kernel variable in the window, a program can store over none: then
\* nothing it does stops the machine.
THEOREM UnexposedNeverHalts == Spec => [](Exposed = {} => mode \notin {"halted", "wild"})
<1>1. IInv => (Exposed = {} => mode \notin {"halted", "wild"})
  BY DEF IInv, StoresExposed, CallsSafe, NeverHalts
<1> QED BY <1>1, AlwaysIInv, PTL
=============================================================================
