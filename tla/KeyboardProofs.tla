--------------------------- MODULE KeyboardProofs ---------------------------
(***************************************************************************)
(* Theorems about Keyboard for every ring size, layout and set of keys:    *)
(* the type invariant, the invariant of the ring that the reader and the   *)
(* interrupt handler share, the refinement of the bounded lossy queue, and *)
(* the held-key arrays that games read.                                    *)
(***************************************************************************)
EXTENDS Keyboard, SequenceTheorems, TLAPS

-----------------------------------------------------------------------------
(* Operators.                                                              *)

\* The successor of a slot is a slot: the next one, or slot 0 after the last.
LEMMA NextSlotIsSlot ==
  ASSUME NEW i \in 0 .. KBD_BUF_SIZE - 1
  PROVE  /\ NextSlot(i) \in 0 .. KBD_BUF_SIZE - 1
         /\ NextSlot(i) = IF i = KBD_BUF_SIZE - 1 THEN 0 ELSE i + 1
<1>1. KBD_BUF_SIZE \in Nat /\ KBD_BUF_SIZE >= 2 /\ i \in Nat /\ i + 1 <= KBD_BUF_SIZE
  BY RingAssumption
<1>2. CASE i + 1 < KBD_BUF_SIZE
  BY <1>1, <1>2, SMTT(30) DEF NextSlot
<1>3. CASE i + 1 = KBD_BUF_SIZE
  BY <1>1, <1>3, SMTT(30) DEF NextSlot
<1> QED BY <1>1, <1>2, <1>3

\* The layout and the modifiers never produce a code kbd_push should not get.
LEMMA TranslateType ==
  ASSUME NEW sc \in MakeCode, Translate(sc) # 0
  PROVE  Translate(sc) \in Codes
<1> DEFINE a == IF shift_held THEN scancode_ascii_shift[sc] ELSE scancode_ascii[sc]
<1>1. a \in 0 .. 127
  BY LayoutAssumption DEF MakeCode
<1>2. a \in (65 .. 90) \cup (97 .. 122) => a % 32 \in 1 .. 26
  BY <1>1
<1>3. Translate(sc) = IF ctrl_held /\ a \in (65 .. 90) \cup (97 .. 122) THEN a % 32 ELSE a
  BY DEF Translate
<1> HIDE DEF a
<1> QED BY <1>1, <1>2, <1>3 DEF Codes

LEMMA ExtKeyCodeType ==
  ASSUME NEW sc \in MakeCode, ExtKeyCode(sc) # 0
  PROVE  ExtKeyCode(sc) \in Codes
BY DEF ExtKeyCode, Codes, MakeCode

\* Whatever byte arrives, the handler keeps the types of what it writes, and
\* gives the ring one key code or nothing.
LEMMA HandleByteEffect ==
  ASSUME TypeOK, NEW sc \in Byte, HandleByte(sc)
  PROVE  /\ shift_held' \in BOOLEAN /\ ctrl_held' \in BOOLEAN /\ extended' \in BOOLEAN
         /\ key_down' \in SUBSET MakeCode /\ ext_down' \in SUBSET MakeCode
         /\ NoDelivery \/ \E key \in Codes : Deliver(key)
<1> USE DEF TypeOK, Byte, MakeCode
<1>1. CASE /\ sc = 224 /\ extended' = TRUE /\ NoDelivery
           /\ UNCHANGED <<shift_held, ctrl_held, downVars>>
  BY <1>1 DEF downVars
<1>2. CASE extended /\ ExtendedByte(sc)
  <2>1. sc < 128 => sc \in MakeCode
    OBVIOUS
  <2>2. /\ shift_held' \in BOOLEAN /\ ctrl_held' \in BOOLEAN /\ extended' \in BOOLEAN
        /\ key_down' \in SUBSET MakeCode
    BY <1>2 DEF ExtendedByte
  <2>3. ext_down' \in SUBSET MakeCode
    BY <1>2 DEF ExtendedByte
  <2>4. NoDelivery \/ \E key \in Codes : Deliver(key)
    BY <1>2, <2>1, ExtKeyCodeType DEF ExtendedByte
  <2> QED BY <2>2, <2>3, <2>4
<1>3. CASE sc >= 128 /\ ReleaseByte(sc)
  BY <1>3 DEF ReleaseByte
<1>4. CASE sc < 128 /\ PressByte(sc)
  <2>1. sc \in MakeCode
    BY <1>4
  <2>2. /\ shift_held' \in BOOLEAN /\ ctrl_held' \in BOOLEAN /\ extended' \in BOOLEAN
        /\ key_down' \in SUBSET MakeCode /\ ext_down' \in SUBSET MakeCode
    BY <1>4, <2>1 DEF PressByte
  <2>3. NoDelivery \/ \E key \in Codes : Deliver(key)
    BY <1>4, <2>1, TranslateType DEF PressByte
  <2> QED BY <2>2, <2>3
<1> QED BY <1>1, <1>2, <1>3, <1>4 DEF HandleByte

-----------------------------------------------------------------------------
(* The type invariant.                                                     *)

LEMMA InitTypeOK == Init => TypeOK
<1> SUFFICES ASSUME Init PROVE TypeOK
  OBVIOUS
<1>1. wire \in Seq(Byte) /\ typed \in Nat
  BY DEF Init
<1>2. /\ kbd_ring \in [0 .. KBD_BUF_SIZE - 1 -> Codes \cup {0}]
      /\ kbd_head \in 0 .. KBD_BUF_SIZE - 1 /\ kbd_tail \in 0 .. KBD_BUF_SIZE - 1
  BY RingAssumption DEF Init
<1>3. pc \in PcStates
  BY DEF Init, PcStates, InitStates
<1> QED BY <1>1, <1>2, <1>3 DEF Init, TypeOK

LEMMA PushType ==
  ASSUME TypeOK, NoDelivery \/ \E key \in Codes : Deliver(key)
  PROVE  /\ kbd_ring' \in [0 .. KBD_BUF_SIZE - 1 -> Codes \cup {0}]
         /\ kbd_head' \in 0 .. KBD_BUF_SIZE - 1
         /\ key_pressed' \in BOOLEAN
BY NextSlotIsSlot DEF TypeOK, NoDelivery, Deliver, kbd_push

LEMMA NextTypeOK == TypeOK /\ [Next]_vars => TypeOK'
<1> SUFFICES ASSUME TypeOK, [Next]_vars PROVE TypeOK'
  OBVIOUS
<1> USE DEF TypeOK, deviceVars, ringVars, modVars, downVars, readerVars, cpuVars
<1>1. CASE User
  <2>1. /\ \A k \in PlainKeys : k \in Byte /\ k + 128 \in Byte
        /\ \A k \in ExtKeys : k \in Byte /\ k + 128 \in Byte
        /\ 224 \in Byte
    BY KeysAssumption DEF Byte, MakeCode
  <2> DEFINE DeviceTypes == /\ wire' \in Seq(Byte)
                            /\ held' \in SUBSET PlainKeys
                            /\ xheld' \in SUBSET ExtKeys
  <2>2. ASSUME KeyPress PROVE DeviceTypes
    <3>1. ASSUME NEW k \in PlainKeys, wire' = Append(wire, k),
                 held' = held \cup {k}, UNCHANGED xheld
          PROVE  DeviceTypes
      BY <2>1, <3>1
    <3>2. ASSUME NEW k \in ExtKeys, wire' = wire \o <<224, k>>,
                 xheld' = xheld \cup {k}, UNCHANGED held
          PROVE  DeviceTypes
      <4>1. <<224, k>> \in Seq(Byte)
        BY <2>1
      <4> QED BY <3>2, <4>1
    <3> QED BY <2>2, <3>1, <3>2 DEF KeyPress
  <2>3. ASSUME KeyRelease PROVE DeviceTypes
    <3>1. ASSUME NEW k \in held, wire' = Append(wire, k + 128),
                 held' = held \ {k}, UNCHANGED xheld
          PROVE  DeviceTypes
      BY <2>1, <3>1
    <3>2. ASSUME NEW k \in xheld, wire' = wire \o <<224, k + 128>>,
                 xheld' = xheld \ {k}, UNCHANGED held
          PROVE  DeviceTypes
      <4>1. <<224, k + 128>> \in Seq(Byte)
        BY <2>1
      <4> QED BY <3>2, <4>1
    <3> QED BY <2>3, <3>1, <3>2 DEF KeyRelease
  <2>4. DeviceTypes /\ typed' \in Nat
    BY <1>1, <2>2, <2>3 DEF User
  <2> HIDE DEF DeviceTypes
  <2>5. UNCHANGED <<ringVars, modVars, key_pressed, downVars, cpuVars, readerVars, drained>>
    BY <1>1 DEF User
  <2> QED BY <2>4, <2>5 DEF DeviceTypes
<1>2. CASE keyboard_irq_handler
  <2>1. Head(wire) \in Byte /\ wire' \in Seq(Byte)
    BY <1>2 DEF keyboard_irq_handler
  <2>2. /\ shift_held' \in BOOLEAN /\ ctrl_held' \in BOOLEAN /\ extended' \in BOOLEAN
        /\ key_down' \in SUBSET MakeCode /\ ext_down' \in SUBSET MakeCode
        /\ NoDelivery \/ \E key \in Codes : Deliver(key)
    BY <1>2, <2>1, HandleByteEffect DEF keyboard_irq_handler
  <2>3. pc' \in PcStates
    BY <1>2 DEF keyboard_irq_handler, Wake, PcStates, GetcharStates, WaitStates, InitStates
  <2> QED BY <1>2, <2>1, <2>2, <2>3, PushType DEF keyboard_irq_handler
<1>3. CASE timer_handler
  BY <1>3 DEF timer_handler, Wake, PcStates, GetcharStates, WaitStates, InitStates
<1>4. CASE keyboard_init
  <2>1. wire' \in Seq(Byte)
    <3>1. wire # << >> => Tail(wire) \in Seq(Byte)
      OBVIOUS
    <3> QED BY <1>4, <3>1 DEF keyboard_init, InitUnmask, InitCheck, InitRead
  <2> QED BY <1>4, <2>1 DEF keyboard_init, InitUnmask, InitCheck, InitRead,
                            PcStates, InitStates
<1>5. CASE keyboard_getchar
  <2>1. CASE GetcharCall
    BY <2>1 DEF GetcharCall, PcStates, GetcharStates
  <2>2. CASE GetcharCheck
    BY <2>2 DEF GetcharCheck, PcStates, GetcharStates
  <2>3. CASE GetcharHalt
    BY <2>3 DEF GetcharHalt, PcStates, GetcharStates
  <2>4. CASE GetcharRead
    BY <2>4 DEF GetcharRead, PcStates, GetcharStates
  <2>5. CASE GetcharAdvance
    BY <2>5, NextSlotIsSlot DEF GetcharAdvance, PcStates, GetcharStates
  <2> QED BY <1>5, <2>1, <2>2, <2>3, <2>4, <2>5 DEF keyboard_getchar
<1>6. CASE keyboard_wait_any
  BY <1>6 DEF keyboard_wait_any, WaitCall, WaitCheck, WaitHalt, PcStates, WaitStates
<1>7. CASE keyboard_flush
  BY <1>7 DEF keyboard_flush
<1>8. CASE keyboard_has_key
  BY <1>8 DEF keyboard_has_key
<1>9. CASE UNCHANGED vars
  BY <1>9 DEF vars
<1> QED BY <1>1, <1>2, <1>3, <1>4, <1>5, <1>6, <1>7, <1>8, <1>9 DEF Next

\* The driver's variables keep their types: in particular both ring indices
\* stay inside the ring, whatever is typed and whenever it arrives.
THEOREM TypeCorrect == Spec => []TypeOK
BY InitTypeOK, NextTypeOK, PTL DEF Spec

-----------------------------------------------------------------------------
(* The ring between its two users.                                         *)

\* Between its test and its advance, keyboard_getchar owns the slot at
\* kbd_tail: the ring is not empty and the handler does not write that slot.
RingInv ==
  /\ pc \in {"gc_read", "gc_adv"} => kbd_head # kbd_tail
  /\ pc = "gc_adv" => c = kbd_ring[kbd_tail]
  /\ PollNeverBlocks

\* A push never makes the ring look empty, and leaves the oldest key alone.
LEMMA PushKeepsOldest ==
  ASSUME TypeOK, NoDelivery \/ \E key \in Codes : Deliver(key), kbd_tail' = kbd_tail
  PROVE  /\ kbd_head # kbd_tail => kbd_head' # kbd_tail'
         /\ kbd_head # kbd_tail => kbd_ring'[kbd_tail] = kbd_ring[kbd_tail]
BY NextSlotIsSlot DEF TypeOK, NoDelivery, Deliver, kbd_push

LEMMA NextRingInv == TypeOK /\ RingInv /\ [Next]_vars => RingInv'
<1> SUFFICES ASSUME TypeOK, RingInv, [Next]_vars PROVE RingInv'
  OBVIOUS
<1> USE DEF RingInv, PollNeverBlocks, deviceVars, ringVars, readerVars, cpuVars
<1>1. CASE User
  BY <1>1 DEF User
<1>2. CASE keyboard_irq_handler
  <2>1. NoDelivery \/ \E key \in Codes : Deliver(key)
    <3>1. Head(wire) \in Byte
      BY <1>2 DEF keyboard_irq_handler, TypeOK
    <3> QED BY <1>2, <3>1, HandleByteEffect DEF keyboard_irq_handler
  <2>2. kbd_tail' = kbd_tail /\ c' = c /\ polled' = polled
    BY <1>2 DEF keyboard_irq_handler
  <2>3. pc' \in {"gc_read", "gc_adv", "gc_sti", "gc_hlt"} => pc' = pc
    BY <1>2 DEF keyboard_irq_handler, Wake
  <2>4. pc = "gc_adv" => pc' = pc
    BY <1>2 DEF keyboard_irq_handler, Wake
  <2> QED BY <2>1, <2>2, <2>3, <2>4, PushKeepsOldest
<1>3. CASE timer_handler
  BY <1>3 DEF timer_handler, Wake
<1>4. CASE keyboard_init
  BY <1>4 DEF keyboard_init, InitUnmask, InitCheck, InitRead
<1>5. CASE keyboard_getchar
  BY <1>5 DEF keyboard_getchar, GetcharCall, GetcharCheck, GetcharHalt,
              GetcharRead, GetcharAdvance
<1>6. CASE keyboard_wait_any
  BY <1>6 DEF keyboard_wait_any, WaitCall, WaitCheck, WaitHalt
<1>7. CASE keyboard_flush
  BY <1>7 DEF keyboard_flush
<1>8. CASE keyboard_has_key
  BY <1>8 DEF keyboard_has_key
<1>9. CASE UNCHANGED vars
  BY <1>9 DEF vars
<1> QED BY <1>1, <1>2, <1>3, <1>4, <1>5, <1>6, <1>7, <1>8, <1>9 DEF Next

LEMMA RingInvariant == Spec => [](TypeOK /\ RingInv)
<1>1. Init => RingInv
  BY DEF Init, RingInv, PollNeverBlocks
<1> QED BY <1>1, TypeCorrect, NextRingInv, PTL DEF Spec

\* A poll that answered yes is still right when the key is read: no interrupt
\* makes keyboard_getchar wait after keyboard_has_key said there is a key.
THEOREM PollSafe == Spec => []PollNeverBlocks
<1>1. RingInv => PollNeverBlocks
  BY DEF RingInv
<1> QED BY <1>1, RingInvariant, PTL

-----------------------------------------------------------------------------
(* The ring implements the bounded lossy queue.                            *)

\* The i-th slot after slot t, for less than one turn of the ring.
LEMMA SlotAfter ==
  ASSUME NEW t \in 0 .. KBD_BUF_SIZE - 1, NEW i \in 0 .. KBD_BUF_SIZE - 1
  PROVE  (t + i) % KBD_BUF_SIZE =
           IF t + i < KBD_BUF_SIZE THEN t + i ELSE t + i - KBD_BUF_SIZE
<1>1. /\ KBD_BUF_SIZE \in Nat /\ KBD_BUF_SIZE >= 2 /\ t \in Nat /\ i \in Nat
      /\ t < KBD_BUF_SIZE /\ i < KBD_BUF_SIZE
  BY RingAssumption
<1>2. CASE t + i < KBD_BUF_SIZE
  BY <1>1, <1>2, SMTT(30)
<1>3. CASE t + i >= KBD_BUF_SIZE
  <2>1. PICK r \in Nat : r = t + i - KBD_BUF_SIZE /\ r < KBD_BUF_SIZE
    BY <1>1, <1>3
  <2>2. t + i = KBD_BUF_SIZE * 1 + r
    BY <1>1, <2>1
  <2>3. (KBD_BUF_SIZE * 1 + r) % KBD_BUF_SIZE = r
    BY <1>1, <2>1, SMTT(30)
  <2> QED BY <1>1, <1>3, <2>1, <2>2, <2>3
<1> QED BY <1>1, <1>2, <1>3

Slots == 0 .. KBD_BUF_SIZE - 1
Rings == [Slots -> Codes \cup {0}]

\* The slot of the i-th waiting key.
SlotAt(t, i) == IF t + (i - 1) < KBD_BUF_SIZE THEN t + (i - 1)
                ELSE t + (i - 1) - KBD_BUF_SIZE

\* A ring's contents are a sequence of key codes, read slot by slot from t.
LEMMA ContentsIsSeq ==
  ASSUME NEW r \in Rings, NEW h \in Slots, NEW t \in Slots
  PROVE  /\ PendingOf(h, t) \in Slots
         /\ Contents(r, h, t) \in Seq(Codes \cup {0})
         /\ Len(Contents(r, h, t)) = PendingOf(h, t)
         /\ \A i \in 1 .. PendingOf(h, t) : Contents(r, h, t)[i] = r[SlotAt(t, i)]
<1> USE DEF Slots, Rings
<1>1. KBD_BUF_SIZE \in Nat /\ KBD_BUF_SIZE >= 2
  BY RingAssumption
<1>2. PendingOf(h, t) \in Slots
  BY <1>1 DEF PendingOf
<1>3. \A i \in 1 .. PendingOf(h, t) :
        SlotAt(t, i) \in Slots /\ Contents(r, h, t)[i] = r[SlotAt(t, i)]
  <2> SUFFICES ASSUME NEW i \in 1 .. PendingOf(h, t)
               PROVE  SlotAt(t, i) \in Slots /\ Contents(r, h, t)[i] = r[SlotAt(t, i)]
    OBVIOUS
  <2>1. i - 1 \in Slots
    BY <1>1, <1>2
  <2>2. Contents(r, h, t)[i] = r[(t + (i - 1)) % KBD_BUF_SIZE]
    BY DEF Contents
  <2>3. SlotAt(t, i) = (t + (i - 1)) % KBD_BUF_SIZE
    BY <2>1, SlotAfter DEF SlotAt
  <2>4. SlotAt(t, i) \in Slots
    BY <1>1, <2>1 DEF SlotAt
  <2> QED BY <2>2, <2>3, <2>4
<1>4. Contents(r, h, t) \in [1 .. PendingOf(h, t) -> Codes \cup {0}]
  BY <1>3 DEF Contents
<1>5. Contents(r, h, t) \in Seq(Codes \cup {0})
  BY <1>1, <1>2, <1>4, SeqDef
<1>6. Len(Contents(r, h, t)) = PendingOf(h, t)
  BY <1>1, <1>2, <1>4, <1>5, LenProperties
<1> QED BY <1>2, <1>3, <1>5, <1>6

\* kbd_push appends when a slot is free; it is full when one slot is left.
LEMMA ContentsPush ==
  ASSUME NEW r \in Rings, NEW h \in Slots, NEW t \in Slots, NEW key \in Codes
  PROVE  /\ NextSlot(h) = t => Len(Contents(r, h, t)) = KBD_BUF_SIZE - 1
         /\ NextSlot(h) # t =>
              /\ Len(Contents(r, h, t)) < KBD_BUF_SIZE - 1
              /\ Contents([r EXCEPT ![h] = key], NextSlot(h), t)
                   = Append(Contents(r, h, t), key)
<1> DEFINE r2 == [r EXCEPT ![h] = key]
           h2 == NextSlot(h)
           p  == PendingOf(h, t)
           S  == Codes \cup {0}
<1>1. /\ KBD_BUF_SIZE \in Nat /\ KBD_BUF_SIZE >= 2
      /\ h \in Nat /\ t \in Nat /\ h < KBD_BUF_SIZE /\ t < KBD_BUF_SIZE
  BY RingAssumption DEF Slots
<1>2. h2 \in Slots /\ h2 = IF h = KBD_BUF_SIZE - 1 THEN 0 ELSE h + 1
  BY NextSlotIsSlot DEF Slots
<1>3. Len(Contents(r, h, t)) = p
  BY ContentsIsSeq
<1>4. h2 = t => p = KBD_BUF_SIZE - 1
  BY <1>1, <1>2 DEF PendingOf
<1>5. ASSUME h2 # t
      PROVE  /\ p < KBD_BUF_SIZE - 1
             /\ Contents(r2, h2, t) = Append(Contents(r, h, t), key)
  <2>1. p \in Nat /\ p < KBD_BUF_SIZE - 1 /\ PendingOf(h2, t) = p + 1
    BY <1>1, <1>2, <1>5 DEF PendingOf
  <2>2. r2 \in Rings
    BY DEF Rings, Slots
  <2>3. /\ Contents(r2, h2, t) \in Seq(S)
        /\ Len(Contents(r2, h2, t)) = p + 1
        /\ \A i \in 1 .. p + 1 : Contents(r2, h2, t)[i] = r2[SlotAt(t, i)]
    <3>1. /\ Contents(r2, h2, t) \in Seq(S)
          /\ Len(Contents(r2, h2, t)) = PendingOf(h2, t)
          /\ \A i \in 1 .. PendingOf(h2, t) :
               Contents(r2, h2, t)[i] = r2[SlotAt(t, i)]
      <4> HIDE DEF r2, h2
      <4> QED BY <1>2, <2>2, ContentsIsSeq
    <3> HIDE DEF r2, h2, p
    <3> QED BY <2>1, <3>1
  <2>4. /\ Contents(r, h, t) \in Seq(S)
        /\ \A i \in 1 .. p : Contents(r, h, t)[i] = r[SlotAt(t, i)]
    BY ContentsIsSeq
  <2>5. SlotAt(t, p + 1) = h
    BY <1>1, <2>1 DEF SlotAt, PendingOf
  <2>6. \A i \in 1 .. p : SlotAt(t, i) # h /\ SlotAt(t, i) \in Slots
    BY <1>1, <2>1 DEF SlotAt, PendingOf, Slots
  <2>7. \A i \in 1 .. p : r2[SlotAt(t, i)] = r[SlotAt(t, i)]
    BY <2>6 DEF Rings
  <2>8. r2[h] = key
    BY DEF Rings
  <2> DEFINE A == Append(Contents(r, h, t), key)
  <2>9. /\ A \in Seq(S) /\ Len(A) = p + 1
        /\ \A i \in 1 .. p : A[i] = Contents(r, h, t)[i]
        /\ A[p + 1] = key
    <3> HIDE DEF p
    <3> QED BY <1>3, <2>1, <2>4
  <2>10. \A i \in 1 .. p + 1 : Contents(r2, h2, t)[i] = A[i]
    <3> HIDE DEF r2, h2, p, A
    <3>1. Contents(r2, h2, t)[p + 1] = A[p + 1]
      BY <2>1, <2>3, <2>5, <2>8, <2>9
    <3>2. \A i \in 1 .. p : Contents(r2, h2, t)[i] = A[i]
      BY <2>1, <2>3, <2>4, <2>7, <2>9
    <3> QED BY <2>1, <3>1, <3>2
  <2> HIDE DEF A
  <2>11. Contents(r2, h2, t) = A
    BY <2>1, <2>3, <2>9, <2>10, SeqEqual
  <2> QED BY <2>1, <2>11 DEF A
<1> QED BY <1>3, <1>4, <1>5

\* keyboard_getchar's advance removes the oldest key, the one it has read.
LEMMA ContentsPop ==
  ASSUME NEW r \in Rings, NEW h \in Slots, NEW t \in Slots, h # t
  PROVE  /\ Contents(r, h, t) # << >>
         /\ Head(Contents(r, h, t)) = r[t]
         /\ Contents(r, h, NextSlot(t)) = Tail(Contents(r, h, t))
<1> DEFINE t2 == NextSlot(t)
           p  == PendingOf(h, t)
           S  == Codes \cup {0}
           q  == Contents(r, h, t)
<1>1. /\ KBD_BUF_SIZE \in Nat /\ KBD_BUF_SIZE >= 2
      /\ h \in Nat /\ t \in Nat /\ h < KBD_BUF_SIZE /\ t < KBD_BUF_SIZE
  BY RingAssumption DEF Slots
<1>2. t2 \in Slots /\ t2 = IF t = KBD_BUF_SIZE - 1 THEN 0 ELSE t + 1
  BY NextSlotIsSlot DEF Slots
<1>3. p \in Nat /\ p >= 1 /\ PendingOf(h, t2) = p - 1
  BY <1>1, <1>2 DEF PendingOf
<1>4. /\ q \in Seq(S) /\ Len(q) = p
      /\ \A i \in 1 .. p : q[i] = r[SlotAt(t, i)]
  BY ContentsIsSeq
<1>5. /\ Contents(r, h, t2) \in Seq(S)
      /\ Len(Contents(r, h, t2)) = p - 1
      /\ \A i \in 1 .. p - 1 : Contents(r, h, t2)[i] = r[SlotAt(t2, i)]
  BY <1>2, <1>3, ContentsIsSeq
<1>6. SlotAt(t, 1) = t
  BY <1>1 DEF SlotAt
<1>7. \A i \in 1 .. p - 1 : SlotAt(t2, i) = SlotAt(t, i + 1)
  <2>1. p < KBD_BUF_SIZE
    BY <1>1 DEF PendingOf
  <2> HIDE DEF t2, p
  <2> SUFFICES ASSUME NEW i \in 1 .. p - 1
               PROVE  SlotAt(t2, i) = SlotAt(t, i + 1)
    OBVIOUS
  <2>2. i \in Nat /\ i < KBD_BUF_SIZE
    BY <1>1, <1>3, <2>1
  <2>3. CASE t = KBD_BUF_SIZE - 1
    BY <1>1, <1>2, <2>2, <2>3 DEF SlotAt
  <2>4. CASE t # KBD_BUF_SIZE - 1
    BY <1>1, <1>2, <2>2, <2>4 DEF SlotAt
  <2> QED BY <2>3, <2>4
<1> HIDE DEF p, q, S
<1>8. q # << >> /\ Head(q) = q[1]
  BY <1>3, <1>4
<1>9. Tail(q) \in Seq(S) /\ Len(Tail(q)) = p - 1
      /\ \A i \in 1 .. p - 1 : Tail(q)[i] = q[i + 1]
  BY <1>3, <1>4, <1>8, HeadTailProperties
<1>10. \A i \in 1 .. p - 1 : Contents(r, h, t2)[i] = Tail(q)[i]
  BY <1>3, <1>4, <1>5, <1>7, <1>9
<1>11. Contents(r, h, t2) = Tail(q)
  BY <1>3, <1>5, <1>9, <1>10, SeqEqual
<1> QED BY <1>3, <1>4, <1>6, <1>8, <1>11 DEF q

LEMMA ContentsNone ==
  ASSUME NEW r, NEW t \in Slots
  PROVE  Contents(r, t, t) = << >>
BY RingAssumption DEF Contents, PendingOf, Slots

\* A push is a Put of the abstract queue.
LEMMA DeliverIsPut ==
  ASSUME TypeOK, NEW key \in Codes, Deliver(key), kbd_tail' = kbd_tail, got' = got
  PROVE  Queue!Put(key)
<1>1. kbd_ring \in Rings /\ kbd_head \in Slots /\ kbd_tail \in Slots
  BY DEF TypeOK, Rings, Slots
<1>2. CASE NextSlot(kbd_head) # kbd_tail
  <2>1. /\ kbd_ring' = [kbd_ring EXCEPT ![kbd_head] = key]
        /\ kbd_head' = NextSlot(kbd_head)
    BY <1>2 DEF Deliver, kbd_push
  <2>2. Waiting' = Contents([kbd_ring EXCEPT ![kbd_head] = key],
                            NextSlot(kbd_head), kbd_tail)
    BY <2>1 DEF Waiting
  <2>3. Waiting' = Append(Waiting, key)
    BY <1>1, <1>2, <2>2, ContentsPush DEF Waiting
  <2>4. Len(Waiting) < KBD_BUF_SIZE - 1
    BY <1>1, <1>2, ContentsPush DEF Waiting
  <2> QED BY <2>3, <2>4 DEF Queue!Put
<1>3. CASE NextSlot(kbd_head) = kbd_tail
  <2>1. Waiting' = Waiting
    BY <1>3 DEF Waiting, Deliver, kbd_push
  <2>2. Len(Waiting) = KBD_BUF_SIZE - 1
    BY <1>1, <1>3, ContentsPush DEF Waiting
  <2>3. ~(Len(Waiting) < KBD_BUF_SIZE - 1)
    BY <2>2, RingAssumption
  <2> QED BY <2>1, <2>3 DEF Queue!Put
<1> QED BY <1>2, <1>3

\* Every step of the driver is a step of the queue or changes nothing of it.
LEMMA NextRefinesQueue ==
  TypeOK /\ RingInv /\ [Next]_vars => [Queue!Next]_<<Waiting, got>>
<1> SUFFICES ASSUME TypeOK, RingInv, [Next]_vars
             PROVE  [Queue!Next]_<<Waiting, got>>
  OBVIOUS
<1> DEFINE Idle == UNCHANGED <<kbd_ring, kbd_head, kbd_tail, got>>
<1>0. Idle => [Queue!Next]_<<Waiting, got>>
  BY DEF Waiting
<1>r. kbd_ring \in Rings /\ kbd_head \in Slots /\ kbd_tail \in Slots
  BY DEF TypeOK, Rings, Slots
<1> USE DEF ringVars, readerVars
<1>1. CASE User
  <2>1. Idle
    BY <1>1 DEF User
  <2> QED BY <1>0, <2>1
<1>2. CASE keyboard_irq_handler
  <2>1. NoDelivery \/ \E key \in Codes : Deliver(key)
    <3>1. Head(wire) \in Byte
      BY <1>2 DEF keyboard_irq_handler, TypeOK
    <3> QED BY <1>2, <3>1, HandleByteEffect DEF keyboard_irq_handler
  <2>2. kbd_tail' = kbd_tail /\ got' = got
    BY <1>2 DEF keyboard_irq_handler
  <2>3. CASE NoDelivery
    <3>1. Idle
      BY <2>2, <2>3 DEF NoDelivery
    <3> QED BY <1>0, <3>1
  <2>4. CASE \E key \in Codes : Deliver(key)
    BY <2>2, <2>4, DeliverIsPut DEF Queue!Next
  <2> QED BY <2>1, <2>3, <2>4
<1>3. CASE timer_handler
  <2>1. Idle
    BY <1>3 DEF timer_handler
  <2> QED BY <1>0, <2>1
<1>4. CASE keyboard_init
  <2>1. Idle
    BY <1>4 DEF keyboard_init, InitUnmask, InitCheck, InitRead
  <2> QED BY <1>0, <2>1
<1>5. CASE keyboard_getchar
  <2>1. CASE GetcharAdvance
    <3>1. kbd_head # kbd_tail /\ c = kbd_ring[kbd_tail]
      BY <2>1 DEF GetcharAdvance, RingInv
    <3>2. /\ Waiting # << >> /\ Head(Waiting) = kbd_ring[kbd_tail]
          /\ Contents(kbd_ring, kbd_head, NextSlot(kbd_tail)) = Tail(Waiting)
      BY <1>r, <3>1, ContentsPop DEF Waiting
    <3>3. Waiting' = Contents(kbd_ring, kbd_head, NextSlot(kbd_tail)) /\ got' = c
      BY <2>1 DEF GetcharAdvance, Waiting
    <3> QED BY <3>1, <3>2, <3>3 DEF Queue!Next, Queue!Get
  <2>2. CASE GetcharCall \/ GetcharCheck \/ GetcharHalt \/ GetcharRead
    <3>1. Idle
      BY <2>2 DEF GetcharCall, GetcharCheck, GetcharHalt, GetcharRead
    <3> QED BY <1>0, <3>1
  <2> QED BY <1>5, <2>1, <2>2 DEF keyboard_getchar
<1>6. CASE keyboard_wait_any
  <2>1. Idle
    BY <1>6 DEF keyboard_wait_any, WaitCall, WaitCheck, WaitHalt
  <2> QED BY <1>0, <2>1
<1>7. CASE keyboard_flush
  <2>1. Waiting' = << >> /\ got' = 0
    BY <1>7, <1>r, ContentsNone DEF keyboard_flush, Waiting
  <2> QED BY <2>1 DEF Queue!Next, Queue!Clear
<1>8. CASE keyboard_has_key
  <2>1. Idle
    BY <1>8 DEF keyboard_has_key
  <2> QED BY <1>0, <2>1
<1>9. CASE UNCHANGED vars
  <2>1. Idle
    BY <1>9 DEF vars
  <2> QED BY <1>0, <2>1
<1> QED BY <1>1, <1>2, <1>3, <1>4, <1>5, <1>6, <1>7, <1>8, <1>9 DEF Next

\* The interrupt handler and its reader, sharing an unlocked ring, give the
\* readers a bounded queue that loses keys only when it is full.
THEOREM RingIsQueue == Spec => RefinesQueue
<1>1. Init => Queue!Init
  <2> SUFFICES ASSUME Init PROVE Waiting = << >> /\ got = 0
    BY DEF Queue!Init
  <2>1. 0 \in Slots
    BY RingAssumption DEF Slots
  <2> QED BY <2>1, ContentsNone DEF Init, Waiting
<1>2. TypeOK /\ RingInv /\ [Next]_vars => [Queue!Next]_<<Waiting, got>>
  BY NextRefinesQueue
<1> QED BY <1>1, <1>2, RingInvariant, PTL DEF Spec, RefinesQueue, Queue!Spec

-----------------------------------------------------------------------------
(* The held-key arrays. Bytes wait in the controller between the key that  *)
(* sends them and the interrupt that reads them, so the arrays lag behind  *)
(* the keyboard: what is invariant is where they end up once the waiting   *)
(* bytes are handled.                                                      *)

DownStates == [ext : BOOLEAN, plain : SUBSET MakeCode, e0 : SUBSET MakeCode]

\* What keyboard_irq_handler does to the prefix flag and the two arrays.
Handled(s, sc) ==
  IF sc = 224 THEN [ext |-> TRUE, plain |-> s.plain, e0 |-> s.e0]
  ELSE IF s.ext
  THEN [ext |-> FALSE, plain |-> s.plain,
        e0 |-> IF sc >= 128 THEN s.e0 \ {sc - 128} ELSE s.e0 \cup {sc}]
  ELSE [ext |-> FALSE, e0 |-> s.e0,
        plain |-> IF sc >= 128 THEN s.plain \ {sc - 128} ELSE s.plain \cup {sc}]

Now == [ext |-> extended, plain |-> key_down, e0 |-> ext_down]
Physical == [ext |-> FALSE, plain |-> held, e0 |-> xheld]

\* run is what the arrays will be after each of the bytes in w.
LeadsTo(run, first, w, last) ==
  /\ run \in [0 .. Len(w) -> DownStates]
  /\ run[0] = first /\ run[Len(w)] = last
  /\ \A i \in 1 .. Len(w) : run[i] = Handled(run[i - 1], w[i])

WireInv == drained \/ \E run : LeadsTo(run, Now, wire, Physical)

LEMMA HandledType ==
  ASSUME NEW s \in DownStates, NEW sc \in Byte
  PROVE  Handled(s, sc) \in DownStates
<1> DEFINE Changed(S) == IF sc >= 128 THEN S \ {sc - 128} ELSE S \cup {sc}
<1>1. ~(sc >= 128) => sc \in MakeCode
  BY DEF Byte, MakeCode
<1>2. s.plain \in SUBSET MakeCode /\ s.e0 \in SUBSET MakeCode
  BY DEF DownStates
<1>3. Changed(s.plain) \in SUBSET MakeCode /\ Changed(s.e0) \in SUBSET MakeCode
  BY <1>1, <1>2
<1>4. Handled(s, sc) =
        IF sc = 224 THEN [ext |-> TRUE, plain |-> s.plain, e0 |-> s.e0]
        ELSE IF s.ext THEN [ext |-> FALSE, plain |-> s.plain, e0 |-> Changed(s.e0)]
        ELSE [ext |-> FALSE, e0 |-> s.e0, plain |-> Changed(s.plain)]
  BY DEF Handled
<1> HIDE DEF Changed
<1> QED BY <1>2, <1>3, <1>4 DEF DownStates

\* The handler does what Handled says.
LEMMA HandleByteIsHandled ==
  ASSUME TypeOK, NEW sc \in Byte, HandleByte(sc)
  PROVE  Now' = Handled(Now, sc)
<1>1. CASE sc = 224
  BY <1>1 DEF HandleByte, Handled, Now, downVars
<1>2. CASE sc # 224 /\ extended
  BY <1>2 DEF HandleByte, ExtendedByte, Handled, Now, TypeOK
<1>3. CASE sc # 224 /\ ~extended
  <2>0. extended = FALSE
    BY <1>3 DEF TypeOK
  <2>1. CASE sc >= 128
    <3>1. ~(sc < 128)
      BY <2>1 DEF Byte
    <3>2. extended' = FALSE /\ ext_down' = ext_down /\ key_down' = key_down \ {sc - 128}
      BY <1>3, <2>0, <3>1 DEF HandleByte, ReleaseByte
    <3> QED BY <1>3, <2>1, <3>2 DEF Handled, Now
  <2>2. CASE ~(sc >= 128)
    <3>1. extended' = FALSE /\ ext_down' = ext_down /\ key_down' = key_down \cup {sc}
      BY <1>3, <2>0, <2>2 DEF HandleByte, PressByte
    <3> QED BY <1>3, <2>2, <3>1 DEF Handled, Now
  <2> QED BY <2>1, <2>2
<1> QED BY <1>1, <1>2, <1>3

\* One more byte at the end of the wire.
LEMMA RunLonger ==
  ASSUME NEW w \in Seq(Byte), NEW sc \in Byte, NEW run, NEW first, NEW last,
         LeadsTo(run, first, w, last)
  PROVE  \E more : LeadsTo(more, first, Append(w, sc), Handled(last, sc))
<1> DEFINE n == Len(w)
           more == [i \in 0 .. n + 1 |-> IF i = n + 1 THEN Handled(last, sc) ELSE run[i]]
<1>1. n \in Nat /\ run \in [0 .. n -> DownStates]
      /\ run[0] = first /\ run[n] = last
      /\ \A i \in 1 .. n : run[i] = Handled(run[i - 1], w[i])
  BY DEF LeadsTo
<1>2. /\ Len(Append(w, sc)) = n + 1 /\ Append(w, sc)[n + 1] = sc
      /\ \A i \in 1 .. n : Append(w, sc)[i] = w[i]
  OBVIOUS
<1>3. Handled(last, sc) \in DownStates
  <2>1. last \in DownStates
    BY <1>1
  <2> QED BY <2>1, HandledType
<1> HIDE DEF n
<1>4. more \in [0 .. n + 1 -> DownStates]
  BY <1>1, <1>3
<1>5. more[0] = first /\ more[n + 1] = Handled(last, sc)
      /\ \A i \in 0 .. n : more[i] = run[i]
  BY <1>1
<1> HIDE DEF more
<1>6. ASSUME NEW i \in 1 .. n + 1
      PROVE  more[i] = Handled(more[i - 1], Append(w, sc)[i])
  <2>1. CASE i = n + 1
    <3>1. i - 1 = n /\ n \in 0 .. n
      BY <1>1, <2>1
    <3> QED BY <1>1, <1>2, <1>5, <2>1, <3>1
  <2>2. CASE i # n + 1
    <3>1. i \in 1 .. n /\ i \in 0 .. n /\ i - 1 \in 0 .. n
      BY <1>1, <2>2
    <3> QED BY <1>1, <1>2, <1>5, <3>1
  <2> QED BY <2>1, <2>2
<1>7. LeadsTo(more, first, Append(w, sc), Handled(last, sc))
  BY <1>2, <1>4, <1>5, <1>6 DEF LeadsTo
<1> QED BY <1>7

\* The interrupt takes the first byte.
LEMMA RunShorter ==
  ASSUME NEW w \in Seq(Byte), w # << >>, NEW run, NEW first, NEW last,
         LeadsTo(run, first, w, last)
  PROVE  \E rest : LeadsTo(rest, Handled(first, Head(w)), Tail(w), last)
<1> DEFINE n == Len(w)
           rest == [i \in 0 .. n - 1 |-> run[i + 1]]
<1>1. n \in Nat /\ n >= 1 /\ run \in [0 .. n -> DownStates]
      /\ run[0] = first /\ run[n] = last
      /\ \A i \in 1 .. n : run[i] = Handled(run[i - 1], w[i])
  BY DEF LeadsTo
<1>2. /\ Len(Tail(w)) = n - 1 /\ Head(w) = w[1]
      /\ \A i \in 1 .. n - 1 : Tail(w)[i] = w[i + 1]
  BY HeadTailProperties
<1> HIDE DEF n
<1>3. rest \in [0 .. n - 1 -> DownStates]
  BY <1>1
<1>4. rest[0] = Handled(first, Head(w)) /\ rest[n - 1] = last
  BY <1>1, <1>2
<1>5. ASSUME NEW i \in 1 .. n - 1
      PROVE  rest[i] = Handled(rest[i - 1], Tail(w)[i])
  <2>1. i + 1 \in 1 .. n /\ (i + 1) - 1 = i /\ i - 1 \in 0 .. n - 1 /\ (i - 1) + 1 = i
        /\ i \in 0 .. n - 1
    BY <1>1
  <2>2. rest[i] = run[i + 1] /\ rest[i - 1] = run[i]
    BY <2>1
  <2>3. run[i + 1] = Handled(run[i], w[i + 1])
    BY <1>1, <2>1
  <2> QED BY <1>2, <2>2, <2>3
<1> HIDE DEF rest
<1>6. LeadsTo(rest, Handled(first, Head(w)), Tail(w), last)
  BY <1>2, <1>3, <1>4, <1>5 DEF LeadsTo
<1> QED BY <1>6

\* A key's bytes, handled last, leave the arrays as the key is then.
LEMMA UserKeepsWire ==
  ASSUME TypeOK, WireInv, User
  PROVE  WireInv'
<1> SUFFICES ASSUME ~drained PROVE \E run : LeadsTo(run, Now, wire', Physical')
  BY DEF User, WireInv, Now, modVars, downVars
<1>1. PICK run : LeadsTo(run, Now, wire, Physical)
  BY DEF WireInv
<1>2. wire \in Seq(Byte) /\ held \subseteq PlainKeys /\ xheld \subseteq ExtKeys
  BY DEF TypeOK
<1>3. \A k \in PlainKeys \cup ExtKeys :
        k \in Byte /\ k + 128 \in Byte /\ k # 224 /\ k + 128 # 224
        /\ ~(k >= 128) /\ k + 128 >= 128 /\ (k + 128) - 128 = k
  BY KeysAssumption DEF Byte, MakeCode
<1>4. ASSUME NEW sc \in Byte, wire' = Append(wire, sc), Physical' = Handled(Physical, sc)
      PROVE  \E more : LeadsTo(more, Now, wire', Physical')
  BY <1>1, <1>2, <1>4, RunLonger
<1>5. ASSUME NEW sc \in Byte, wire' = wire \o <<224, sc>>,
             Physical' = Handled(Handled(Physical, 224), sc)
      PROVE  \E more : LeadsTo(more, Now, wire', Physical')
  <2>1. 224 \in Byte /\ Append(wire, 224) \in Seq(Byte)
    BY <1>2 DEF Byte
  <2> DEFINE w1 == Append(wire, 224)
             mid == Handled(Physical, 224)
  <2>2. PICK one : LeadsTo(one, Now, w1, mid)
    BY <1>1, <1>2, <2>1, RunLonger
  <2>3. wire' = Append(Append(wire, 224), sc)
    BY <1>2, <1>5, <2>1
  <2>4. \E two : LeadsTo(two, Now, Append(w1, sc), Handled(mid, sc))
    <3>1. w1 \in Seq(Byte) /\ sc \in Byte
      BY <1>5, <2>1
    <3> HIDE DEF w1, mid
    <3> QED BY <2>2, <3>1, RunLonger
  <2> QED BY <1>5, <2>3, <2>4
<1>6. ASSUME NEW k \in PlainKeys, wire' = Append(wire, k), held' = held \cup {k},
             UNCHANGED xheld
      PROVE  \E more : LeadsTo(more, Now, wire', Physical')
  <2>1. Physical' = Handled(Physical, k)
    BY <1>3, <1>6 DEF Handled, Physical
  <2> QED BY <1>3, <1>4, <1>6, <2>1
<1>7. ASSUME NEW k \in ExtKeys, wire' = wire \o <<224, k>>, xheld' = xheld \cup {k},
             UNCHANGED held
      PROVE  \E more : LeadsTo(more, Now, wire', Physical')
  <2>1. Physical' = Handled(Handled(Physical, 224), k)
    BY <1>3, <1>7 DEF Handled, Physical
  <2> QED BY <1>3, <1>5, <1>7, <2>1
<1>8. ASSUME NEW k \in held, wire' = Append(wire, k + 128), held' = held \ {k},
             UNCHANGED xheld
      PROVE  \E more : LeadsTo(more, Now, wire', Physical')
  <2>1. k \in PlainKeys
    BY <1>2
  <2>2. k + 128 # 224 /\ k + 128 >= 128 /\ (k + 128) - 128 = k
    BY <1>3, <2>1
  <2>3. Physical' = Handled(Physical, k + 128)
    BY <1>8, <2>2 DEF Handled, Physical
  <2> QED BY <1>3, <1>4, <1>8, <2>1, <2>3
<1>9. ASSUME NEW k \in xheld, wire' = wire \o <<224, k + 128>>, xheld' = xheld \ {k},
             UNCHANGED held
      PROVE  \E more : LeadsTo(more, Now, wire', Physical')
  <2>1. k \in ExtKeys
    BY <1>2
  <2>2. Physical' = Handled(Handled(Physical, 224), k + 128)
    BY <1>3, <1>9, <2>1 DEF Handled, Physical
  <2> QED BY <1>3, <1>5, <1>9, <2>1, <2>2
<1>10. KeyPress \/ KeyRelease
  BY DEF User
<1> QED BY <1>6, <1>7, <1>8, <1>9, <1>10 DEF KeyPress, KeyRelease

LEMMA NextWireInv == TypeOK /\ WireInv /\ [Next]_vars => WireInv'
<1> SUFFICES ASSUME TypeOK, WireInv, [Next]_vars PROVE WireInv'
  OBVIOUS
<1> DEFINE Same == UNCHANGED <<held, xheld, wire, extended, key_down, ext_down, drained>>
<1>0. ASSUME Same PROVE WireInv'
  <2>1. Now' = Now /\ Physical' = Physical
    BY <1>0 DEF Now, Physical
  <2> QED BY <1>0, <2>1 DEF WireInv
<1> USE DEF deviceVars, modVars, downVars
<1>1. CASE User
  BY <1>1, UserKeepsWire
<1>2. CASE keyboard_irq_handler
  <2>1. /\ wire # << >> /\ wire' = Tail(wire) /\ Head(wire) \in Byte /\ wire \in Seq(Byte)
        /\ drained' = drained /\ Physical' = Physical
    BY <1>2 DEF keyboard_irq_handler, TypeOK, Physical
  <2>2. Now' = Handled(Now, Head(wire))
    BY <1>2, <2>1, HandleByteIsHandled DEF keyboard_irq_handler
  <2>3. ASSUME ~drained PROVE \E rest : LeadsTo(rest, Now', wire', Physical')
    <3>1. PICK run : LeadsTo(run, Now, wire, Physical)
      BY <2>3 DEF WireInv
    <3> QED BY <2>1, <2>2, <3>1, RunShorter
  <2> QED BY <2>1, <2>3 DEF WireInv
<1>3. CASE timer_handler
  BY <1>0, <1>3 DEF timer_handler
<1>4. CASE keyboard_init
  <2>1. CASE InitRead
    <3>1. CASE wire = << >>
      BY <1>0, <2>1, <3>1 DEF InitRead, TypeOK
    <3>2. CASE wire # << >>
      BY <2>1, <3>2 DEF InitRead, WireInv
    <3> QED BY <3>1, <3>2
  <2>2. CASE InitUnmask \/ InitCheck
    BY <1>0, <2>2 DEF InitUnmask, InitCheck
  <2> QED BY <1>4, <2>1, <2>2 DEF keyboard_init
<1>5. CASE keyboard_getchar
  BY <1>0, <1>5 DEF keyboard_getchar, GetcharCall, GetcharCheck, GetcharHalt,
                    GetcharRead, GetcharAdvance
<1>6. CASE keyboard_wait_any
  BY <1>0, <1>6 DEF keyboard_wait_any, WaitCall, WaitCheck, WaitHalt
<1>7. CASE keyboard_flush
  BY <1>0, <1>7 DEF keyboard_flush
<1>8. CASE keyboard_has_key
  BY <1>0, <1>8 DEF keyboard_has_key
<1>9. CASE UNCHANGED vars
  BY <1>0, <1>9 DEF vars
<1> QED BY <1>1, <1>2, <1>3, <1>4, <1>5, <1>6, <1>7, <1>8, <1>9 DEF Next

\* Once the controller is empty the arrays are the keys that are down: no
\* interleaving of typing and interrupts loses a press, a release or a prefix.
THEOREM HeldKeysAreExact == Spec => []HeldKeysExact
<1>1. Init => WireInv
  <2> SUFFICES ASSUME Init PROVE LeadsTo([i \in 0 .. 0 |-> Now], Now, wire, Physical)
    BY DEF WireInv
  <2>1. Len(wire) = 0 /\ Now = Physical /\ Now \in DownStates
    BY DEF Init, Now, Physical, DownStates
  <2> QED BY <2>1 DEF LeadsTo
<1>2. ASSUME WireInv PROVE HeldKeysExact
  <2> SUFFICES ASSUME wire = << >>, ~drained PROVE key_down = held /\ ext_down = xheld
    BY DEF HeldKeysExact
  <2>1. PICK run : LeadsTo(run, Now, wire, Physical)
    BY <1>2 DEF WireInv
  <2>2. Len(wire) = 0
    OBVIOUS
  <2>3. Now = Physical
    BY <2>1, <2>2 DEF LeadsTo
  <2> QED BY <2>3 DEF Now, Physical
<1> QED BY <1>1, <1>2, TypeCorrect, NextWireInv, PTL DEF Spec
=============================================================================
