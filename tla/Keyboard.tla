------------------------------ MODULE Keyboard ------------------------------
(***************************************************************************)
(* kernel/drivers/keyboard.c: the IRQ1 handler that turns PS/2 scancodes   *)
(* into key codes, the ring it shares with the code that reads keys, and   *)
(* the sti;hlt waiting loops. Three actors interleave: the user at the     *)
(* physical keyboard, the interrupts (IRQ1, and IRQ0 of timer.c, which can *)
(* end a hlt), and the one thread of kernel code that reads keys.          *)
(*                                                                         *)
(* All interrupts use interrupt gates, so a handler runs to completion     *)
(* with interrupts off: each IRQ is one action. The reader is broken into  *)
(* the steps between which an interrupt can be taken.                      *)
(***************************************************************************)
EXTENDS Integers, Sequences

CONSTANTS
  KBD_BUF_SIZE,          \* slots of kbd_ring
  scancode_ascii,        \* the layout tables: make code -> ASCII, 0 for none
  scancode_ascii_shift,
  PlainKeys,             \* make codes of the one-byte keys that get pressed
  ExtKeys,               \* make codes of the E0-prefixed keys
  MaxWire,               \* bound: bytes waiting in the keyboard controller
  MaxTyped               \* bound: how often the user presses or releases a key

Byte == 0 .. 255
MakeCode == 0 .. 127
\* What kbd_push can be given: ASCII, or KEY_UP .. KEY_DELETE.
Codes == 1 .. 136

ASSUME RingAssumption == KBD_BUF_SIZE \in Nat /\ KBD_BUF_SIZE >= 2

ASSUME LayoutAssumption ==
  /\ scancode_ascii \in [MakeCode -> 0 .. 127]
  /\ scancode_ascii_shift \in [MakeCode -> 0 .. 127]

\* No key of scancode set 1 has make code 0x60: its break code would be the
\* prefix 0xE0.
ASSUME KeysAssumption ==
  /\ PlainKeys \subseteq MakeCode \ {96}
  /\ ExtKeys \subseteq MakeCode \ {96}
  /\ MaxWire \in Nat /\ MaxTyped \in Nat

VARIABLES
  \* The physical keyboard and its controller (external).
  held, xheld,        \* one-byte / E0 keys that are physically down
  wire,               \* bytes not yet read from port 0x60
  typed,              \* presses and releases so far
  \* keyboard.c's statics.
  kbd_ring, kbd_head, kbd_tail,
  shift_held, ctrl_held, extended,
  key_pressed,
  key_down, ext_down, \* codes whose array element is non-zero
  \* The CPU.
  irq1_masked,        \* IRQ1's bit in the PIC mask
  intf,               \* EFLAGS.IF
  pc,                 \* where the reading thread is
  c,                  \* keyboard_getchar's local, 0 outside the call
  got,                \* what keyboard_getchar returned last, 0 after a flush
  polled,             \* keyboard_has_key said yes and no key was read since
  \* History.
  drained             \* keyboard_init threw a byte away

deviceVars == <<held, xheld, wire, typed>>
ringVars   == <<kbd_ring, kbd_head, kbd_tail>>
modVars    == <<shift_held, ctrl_held, extended>>
downVars   == <<key_down, ext_down>>
readerVars == <<c, got, polled>>
cpuVars    == <<irq1_masked, intf, pc>>
vars == <<deviceVars, ringVars, modVars, key_pressed, downVars, cpuVars,
          readerVars, drained>>

GetcharStates == {"gc_check", "gc_sti", "gc_hlt", "gc_read", "gc_adv"}
WaitStates    == {"wa_check", "wa_sti", "wa_hlt"}
InitStates    == {"in_unmask", "in_check", "in_read"}
PcStates      == {"idle"} \cup GetcharStates \cup WaitStates \cup InitStates

-----------------------------------------------------------------------------
(* The user and the controller (external: PS/2 hardware).                  *)

\* A key goes down, or repeats while it is down.
KeyPress ==
  \/ \E k \in PlainKeys :
       /\ Len(wire) < MaxWire
       /\ wire' = Append(wire, k)
       /\ held' = held \cup {k}
       /\ UNCHANGED xheld
  \/ \E k \in ExtKeys :
       /\ Len(wire) + 1 < MaxWire
       /\ wire' = wire \o <<224, k>>
       /\ xheld' = xheld \cup {k}
       /\ UNCHANGED held

KeyRelease ==
  \/ \E k \in held :
       /\ Len(wire) < MaxWire
       /\ wire' = Append(wire, k + 128)
       /\ held' = held \ {k}
       /\ UNCHANGED xheld
  \/ \E k \in xheld :
       /\ Len(wire) + 1 < MaxWire
       /\ wire' = wire \o <<224, k + 128>>
       /\ xheld' = xheld \ {k}
       /\ UNCHANGED held

User ==
  /\ typed < MaxTyped
  /\ typed' = typed + 1
  /\ KeyPress \/ KeyRelease
  /\ UNCHANGED <<ringVars, modVars, key_pressed, downVars, cpuVars, readerVars, drained>>

-----------------------------------------------------------------------------
(* The interrupt side.                                                     *)

\* Mutant: the index is not wrapped.
NextSlot_unwrapped(i) == i + 1

NextSlot(i) == (i + 1) % KBD_BUF_SIZE

\* Mutant: no test for a full ring.
kbd_push_unchecked(key) ==
  /\ kbd_ring' = [kbd_ring EXCEPT ![kbd_head] = key]
  /\ kbd_head' = NextSlot(kbd_head)

kbd_push(key) ==
  IF NextSlot(kbd_head) # kbd_tail
  THEN /\ kbd_ring' = [kbd_ring EXCEPT ![kbd_head] = key]
       /\ kbd_head' = NextSlot(kbd_head)
  ELSE UNCHANGED <<kbd_ring, kbd_head>>

\* A key code reaches the readers.
Deliver(key) ==
  /\ key_pressed' = TRUE
  /\ kbd_push(key)

NoDelivery == UNCHANGED <<key_pressed, kbd_ring, kbd_head>>

\* The E0 keys with a code of their own, in the order of KEY_UP .. KEY_DELETE
\* (128 .. 136): up, down, left, right, home, end, page up, page down, delete.
NavKeys == <<72, 80, 75, 77, 71, 79, 73, 81, 83>>

ExtKeyCode(sc) ==
  IF \E i \in 1 .. 9 : NavKeys[i] = sc
  THEN 127 + (CHOOSE i \in 1 .. 9 : NavKeys[i] = sc)
  ELSE 0

ShiftCodes == {42, 54}
CtrlCode == 29

\* The key code of a make code under the current modifiers; 0 for none.
Translate(sc) ==
  LET a == IF shift_held THEN scancode_ascii_shift[sc] ELSE scancode_ascii[sc]
  IN  IF ctrl_held /\ a \in (65 .. 90) \cup (97 .. 122) THEN a % 32 ELSE a

\* The byte that follows an E0 prefix.
ExtendedByte(sc) ==
  /\ extended' = FALSE
  /\ ext_down' = IF sc >= 128 THEN ext_down \ {sc - 128} ELSE ext_down \cup {sc}
  /\ IF sc < 128 /\ ExtKeyCode(sc) # 0 THEN Deliver(ExtKeyCode(sc)) ELSE NoDelivery
  /\ UNCHANGED <<shift_held, ctrl_held, key_down>>

ReleaseByte(sc) ==
  /\ key_down' = key_down \ {sc - 128}
  /\ shift_held' = (shift_held /\ sc - 128 \notin ShiftCodes)
  /\ ctrl_held' = (ctrl_held /\ sc - 128 # CtrlCode)
  /\ NoDelivery
  /\ UNCHANGED <<extended, ext_down>>

PressByte(sc) ==
  /\ key_down' = key_down \cup {sc}
  /\ shift_held' = (shift_held \/ sc \in ShiftCodes)
  /\ ctrl_held' = (ctrl_held \/ sc = CtrlCode)
  /\ IF sc \notin ShiftCodes \cup {CtrlCode} /\ Translate(sc) # 0
     THEN Deliver(Translate(sc))
     ELSE NoDelivery
  /\ UNCHANGED <<extended, ext_down>>

\* Mutant: a release after E0 returns before the prefix flag is cleared.
HandleByte_sticky_prefix(sc) ==
  \/ /\ sc = 224
     /\ extended' = TRUE
     /\ NoDelivery
     /\ UNCHANGED <<shift_held, ctrl_held, downVars>>
  \/ /\ sc # 224 /\ extended /\ sc >= 128
     /\ ext_down' = ext_down \ {sc - 128}
     /\ NoDelivery
     /\ UNCHANGED <<modVars, key_down>>
  \/ sc # 224 /\ extended /\ sc < 128 /\ ExtendedByte(sc)
  \/ sc # 224 /\ ~extended /\ sc >= 128 /\ ReleaseByte(sc)
  \/ sc # 224 /\ ~extended /\ sc < 128 /\ PressByte(sc)

HandleByte(sc) ==
  \/ /\ sc = 224
     /\ extended' = TRUE
     /\ NoDelivery
     /\ UNCHANGED <<shift_held, ctrl_held, downVars>>
  \/ sc # 224 /\ extended /\ ExtendedByte(sc)
  \/ sc # 224 /\ ~extended /\ sc >= 128 /\ ReleaseByte(sc)
  \/ sc # 224 /\ ~extended /\ sc < 128 /\ PressByte(sc)

\* An interrupt ends a hlt: the loop around it tests its condition again.
Wake ==
  pc' = IF pc = "gc_hlt" THEN "gc_check"
        ELSE IF pc = "wa_hlt" THEN "wa_check" ELSE pc

keyboard_irq_handler ==
  /\ intf /\ ~irq1_masked
  /\ wire # << >>
  /\ wire' = Tail(wire)
  /\ HandleByte(Head(wire))
  /\ Wake
  /\ UNCHANGED <<held, xheld, typed, kbd_tail, irq1_masked, intf, readerVars, drained>>

\* Mutant: IRQ0 is left masked.
timer_handler_masked ==
  /\ FALSE
  /\ UNCHANGED vars

\* The tick counter itself is read by nothing here: what matters is the wake-up.
timer_handler ==
  /\ intf
  /\ pc \in {"gc_hlt", "wa_hlt"}
  /\ Wake
  /\ UNCHANGED <<deviceVars, ringVars, modVars, key_pressed, downVars,
                 irq1_masked, intf, readerVars, drained>>

-----------------------------------------------------------------------------
(* keyboard_init, called with interrupts already on (timer_init's sti).    *)

Init ==
  /\ held = {} /\ xheld = {} /\ wire = << >> /\ typed = 0
  /\ kbd_ring = [i \in 0 .. KBD_BUF_SIZE - 1 |-> 0]
  /\ kbd_head = 0 /\ kbd_tail = 0
  /\ shift_held = FALSE /\ ctrl_held = FALSE /\ extended = FALSE
  /\ key_pressed = FALSE
  /\ key_down = {} /\ ext_down = {}
  /\ irq1_masked = TRUE /\ intf = TRUE /\ pc = "in_unmask"
  /\ c = 0 /\ got = 0 /\ polled = FALSE
  /\ drained = FALSE

InitUnmask ==
  /\ pc = "in_unmask"
  /\ irq1_masked' = FALSE
  /\ pc' = "in_check"
  /\ UNCHANGED <<deviceVars, ringVars, modVars, key_pressed, downVars, intf,
                 readerVars, drained>>

\* while (inb(KBD_STATUS_PORT) & 0x01)
InitCheck ==
  /\ pc = "in_check"
  /\ pc' = IF wire = << >> THEN "idle" ELSE "in_read"
  /\ UNCHANGED <<deviceVars, ringVars, modVars, key_pressed, downVars,
                 irq1_masked, intf, readerVars, drained>>

\* inb(KBD_DATA_PORT): IRQ1 may have read the byte first.
InitRead ==
  /\ pc = "in_read"
  /\ pc' = "in_check"
  /\ wire' = IF wire = << >> THEN wire ELSE Tail(wire)
  /\ drained' = (drained \/ wire # << >>)
  /\ UNCHANGED <<held, xheld, typed, ringVars, modVars, key_pressed, downVars,
                 irq1_masked, intf, readerVars>>

keyboard_init == InitUnmask \/ InitCheck \/ InitRead

-----------------------------------------------------------------------------
(* keyboard_getchar: called by the shell with interrupts on, and by        *)
(* SYS_GETCHAR and the debugger behind an interrupt gate, so with          *)
(* interrupts off until the first sti.                                     *)

GetcharCall ==
  /\ pc = "idle"
  /\ pc' = "gc_check"
  /\ intf' \in BOOLEAN
  /\ UNCHANGED <<deviceVars, ringVars, modVars, key_pressed, downVars,
                 irq1_masked, readerVars, drained>>

\* while (kbd_head == kbd_tail)
GetcharCheck ==
  /\ pc = "gc_check"
  /\ pc' = IF kbd_head = kbd_tail THEN "gc_sti" ELSE "gc_read"
  /\ UNCHANGED <<deviceVars, ringVars, modVars, key_pressed, downVars,
                 irq1_masked, intf, readerVars, drained>>

\* sti; hlt: sti takes effect after hlt has begun, so the pair is one step.
\* With interrupts on already, an IRQ may still come between test and hlt.
GetcharHalt ==
  /\ pc = "gc_sti"
  /\ pc' = "gc_hlt"
  /\ intf' = TRUE
  /\ UNCHANGED <<deviceVars, ringVars, modVars, key_pressed, downVars,
                 irq1_masked, readerVars, drained>>

GetcharRead ==
  /\ pc = "gc_read"
  /\ c' = kbd_ring[kbd_tail]
  /\ pc' = "gc_adv"
  /\ UNCHANGED <<deviceVars, ringVars, modVars, key_pressed, downVars,
                 irq1_masked, intf, got, polled, drained>>

\* Advance and return; the caller runs with interrupts on again.
GetcharAdvance ==
  /\ pc = "gc_adv"
  /\ kbd_tail' = NextSlot(kbd_tail)
  /\ got' = c
  /\ c' = 0
  /\ polled' = FALSE
  /\ pc' = "idle"
  /\ intf' = TRUE
  /\ UNCHANGED <<deviceVars, kbd_ring, kbd_head, modVars, key_pressed,
                 downVars, irq1_masked, drained>>

keyboard_getchar ==
  \/ GetcharCall \/ GetcharCheck \/ GetcharHalt \/ GetcharRead \/ GetcharAdvance

(* keyboard_wait_any, called by the shell. Its EOI finds no IRQ in service *)
(* (isr_handler sends each one itself), so it does nothing.                *)

WaitCall ==
  /\ pc = "idle"
  /\ key_pressed' = FALSE
  /\ pc' = "wa_check"
  /\ UNCHANGED <<deviceVars, ringVars, modVars, downVars, irq1_masked, intf,
                 readerVars, drained>>

WaitCheck ==
  /\ pc = "wa_check"
  /\ pc' = IF key_pressed THEN "idle" ELSE "wa_sti"
  /\ UNCHANGED <<deviceVars, ringVars, modVars, key_pressed, downVars,
                 irq1_masked, intf, readerVars, drained>>

WaitHalt ==
  /\ pc = "wa_sti"
  /\ pc' = "wa_hlt"
  /\ intf' = TRUE
  /\ UNCHANGED <<deviceVars, ringVars, modVars, key_pressed, downVars,
                 irq1_masked, readerVars, drained>>

keyboard_wait_any == WaitCall \/ WaitCheck \/ WaitHalt

\* SYS_KBFLUSH, behind the syscall gate: interrupts are off.
keyboard_flush ==
  /\ pc = "idle"
  /\ kbd_tail' = kbd_head
  /\ got' = 0
  /\ polled' = FALSE
  /\ UNCHANGED <<deviceVars, kbd_ring, kbd_head, modVars, key_pressed,
                 downVars, cpuVars, c, drained>>

\* A reader polls, as BASIC does before each statement, and remembers a yes.
keyboard_has_key ==
  /\ pc = "idle"
  /\ polled' = (kbd_head # kbd_tail)
  /\ UNCHANGED <<deviceVars, ringVars, modVars, key_pressed, downVars,
                 cpuVars, c, got, drained>>

-----------------------------------------------------------------------------
Next ==
  \/ User
  \/ keyboard_irq_handler
  \/ timer_handler
  \/ keyboard_init
  \/ keyboard_getchar
  \/ keyboard_wait_any
  \/ keyboard_flush
  \/ keyboard_has_key

(* The CPU executes its next instruction, and takes a pending interrupt    *)
(* whenever interrupts are on. Nobody has to type or to call the driver.   *)
Fairness ==
  /\ SF_vars(keyboard_irq_handler)
  /\ SF_vars(timer_handler)
  /\ WF_vars(keyboard_init)
  /\ WF_vars(GetcharCheck \/ GetcharHalt \/ GetcharRead \/ GetcharAdvance)
  /\ WF_vars(WaitCheck \/ WaitHalt)

Spec == Init /\ [][Next]_vars /\ Fairness

-----------------------------------------------------------------------------
(* Properties.                                                             *)

\* How many keys wait in a ring with indices h and t, and which, oldest first.
PendingOf(h, t) == IF h >= t THEN h - t ELSE h + KBD_BUF_SIZE - t
Contents(ring, h, t) ==
  [i \in 1 .. PendingOf(h, t) |-> ring[(t + (i - 1)) % KBD_BUF_SIZE]]
Waiting == Contents(kbd_ring, kbd_head, kbd_tail)

Queue == INSTANCE KeyQueue
           WITH Capacity <- KBD_BUF_SIZE - 1, NoKey <- 0, q <- Waiting

\* Every variable has the type its C declaration and its uses give it.
TypeOK ==
  /\ held \in SUBSET PlainKeys /\ xheld \in SUBSET ExtKeys
  /\ wire \in Seq(Byte) /\ typed \in Nat
  /\ kbd_ring \in [0 .. KBD_BUF_SIZE - 1 -> Codes \cup {0}]
  /\ kbd_head \in 0 .. KBD_BUF_SIZE - 1 /\ kbd_tail \in 0 .. KBD_BUF_SIZE - 1
  /\ shift_held \in BOOLEAN /\ ctrl_held \in BOOLEAN /\ extended \in BOOLEAN
  /\ key_pressed \in BOOLEAN
  /\ key_down \in SUBSET MakeCode /\ ext_down \in SUBSET MakeCode
  /\ irq1_masked \in BOOLEAN /\ intf \in BOOLEAN /\ pc \in PcStates
  /\ c \in Codes \cup {0} /\ got \in Codes \cup {0} /\ polled \in BOOLEAN
  /\ drained \in BOOLEAN

\* The ring with its reader and its interrupt handler implements the bounded
\* lossy queue: keys are returned in order, once each, and a key that arrives
\* between keyboard_getchar's read and its advance of kbd_tail changes nothing
\* of what is returned.
RefinesQueue == Queue!Spec

\* After keyboard_has_key said yes, keyboard_getchar returns without waiting:
\* BASIC's break test (exec.c) reads the key it polled and never stops the
\* running program, whatever interrupts come in between.
PollNeverBlocks ==
  polled => /\ kbd_head # kbd_tail
            /\ pc \notin {"gc_sti", "gc_hlt"}

\* Once every byte has been handled, the held-key arrays that games read are
\* exactly the keys that are physically down, E0 keys apart from the one-byte
\* keys with the same code. keyboard_init may break this by discarding bytes.
HeldKeysExact ==
  (wire = << >> /\ ~drained) => key_down = held /\ ext_down = xheld

\* A keyboard_getchar call with a key in the ring returns, and so does a
\* keyboard_wait_any call that a key has answered, although the key may have
\* arrived after the test and before the hlt.
WaitersWake ==
  /\ (pc \in GetcharStates /\ kbd_head # kbd_tail) ~> (pc = "idle")
  /\ (pc \in WaitStates /\ key_pressed) ~> (pc = "idle")
=============================================================================
