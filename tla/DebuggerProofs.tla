--------------------------- MODULE DebuggerProofs ---------------------------
(***************************************************************************)
(* For every program, every table size and every sequence of commands: a   *)
(* 0xCC without a breakpoint comes only from deleting the breakpoint the   *)
(* program stands on, a breakpoint is left unarmed only behind a system    *)
(* call, and otherwise the program cannot tell that it is being debugged.  *)
(***************************************************************************)
EXTENDS Debugger, NatLemmas, TLAPS

(* The inductive invariant. What the debugger knows about the breakpoint   *)
(* the program stands on is in two variables that outlive it: at_bp is     *)
(* right only while the program is stopped, pending_reinsert only while it *)
(* runs.                                                                   *)
BpInv ==
  \A i \in Index : bps[i].active =>
    /\ mode # "shell"
    /\ bps[i].addr \in Addrs
    /\ ~parked_deleted => bps[i].orig = "instr"

ParkInv ==
  ~parked_deleted =>
    /\ (mode = "user" /\ pending_reinsert # -1) => bps[pending_reinsert].active
    /\ mode = "repl" =>
         IF at_bp = -1 THEN pending_reinsert = -1
         ELSE bps[at_bp].active /\ bps[at_bp].addr = eip

Accounted ==
  parked_deleted \/
    \A a \in Addrs : mem[a] = "int3" => \E i \in Index : bps[i].active /\ bps[i].addr = a

Armed(i) ==
  \/ mem[bps[i].addr] = "int3"
  \/ mode = "user" /\ pending_reinsert = i /\ TF
  \/ mode = "repl" /\ at_bp = i

RearmInv == overtaken \/ \A i \in Index : bps[i].active => Armed(i)

DbgInv == DbgTypeOK /\ BpInv /\ ParkInv /\ Accounted /\ RearmInv

-----------------------------------------------------------------------------
(* Searching the table.                                                    *)

LEMMA IndexNat == Index \subseteq Nat /\ 0 \in Index /\ -1 \notin Index
BY TableAssumption DEF Index

LEMMA LeastIn ==
  ASSUME NEW S, S \subseteq Index, S # {}
  PROVE  Least(S) \in S
<1>1. \E i \in S : \A j \in S : i <= j
  BY IndexNat, HasLeast
<1> QED BY <1>1 DEF Least

LEMMA FindBp ==
  ASSUME NEW addr
  PROVE  \/ find_bp(addr) = -1 /\ \A i \in Index : ~(bps[i].active /\ bps[i].addr = addr)
         \/ /\ find_bp(addr) \in Index /\ find_bp(addr) # -1
            /\ bps[find_bp(addr)].active /\ bps[find_bp(addr)].addr = addr
<1> DEFINE found == {i \in Index : bps[i].active /\ bps[i].addr = addr}
<1>1. find_bp(addr) = IF found = {} THEN -1 ELSE Least(found)
  BY DEF find_bp
<1>2. CASE found = {}
  BY <1>1, <1>2
<1>3. CASE found # {}
  <2>1. Least(found) \in found
    <3>1. found \subseteq Index
      OBVIOUS
    <3> HIDE DEF found
    <3> QED BY <1>3, <3>1, LeastIn
  <2> QED BY <1>1, <1>3, <2>1, IndexNat
<1> QED BY <1>2, <1>3

\* The searches find a breakpoint exactly when there is one, and it is that one.
LEMMA FindsIt ==
  ASSUME DbgTypeOK, NEW i \in Index, bps[i].active
  PROVE  find_bp(bps[i].addr) = i
BY FindBp DEF DbgTypeOK

-----------------------------------------------------------------------------
LEMMA InitInv == Init => DbgInv
<1> SUFFICES ASSUME Init PROVE DbgInv
  OBVIOUS
<1> USE DEF Init
<1>1. \A i \in Index : ~bps[i].active
  OBVIOUS
<1>2. DbgTypeOK
  BY ProgramAssumption DEF DbgTypeOK
<1>3. Accounted
  BY DEF Accounted
<1> QED BY <1>1, <1>2, <1>3 DEF DbgInv, BpInv, ParkInv, RearmInv

LEMMA RunInv ==
  ASSUME DbgInv, debugger_run
  PROVE  DbgInv'
<1> USE DEF DbgInv, DbgTypeOK, debugger_run
<1>1. DbgTypeOK'
  <2>1. mem' \in [Addrs -> {"instr", "int3"}]
    OBVIOUS
  <2>2. bps' \in [Index -> [addr : Addrs \cup {0}, orig : {"instr", "int3"},
                          active : BOOLEAN]]
    <3>1. ASSUME NEW i \in Index
          PROVE  [bps[i] EXCEPT !.active = FALSE] \in
                   [addr : Addrs \cup {0}, orig : {"instr", "int3"}, active : BOOLEAN]
      BY DEF DbgTypeOK
    <3> QED BY <3>1, ProgramAssumption
  <2>3. /\ dbg_active' = (mode' # "shell") /\ want_step' \in BOOLEAN /\ TF' \in BOOLEAN
        /\ pending_reinsert' \in Index \cup {-1} /\ at_bp' \in Index \cup {-1}
        /\ mode' \in {"shell", "user", "repl"} /\ eip' \in Nat
    BY ProgramAssumption
  <2>4. \A i \in Index : bps'[i].active => i = 0
    OBVIOUS
  <2> QED BY <2>1, <2>2, <2>3, <2>4
<1>2. \A i \in Index : bps'[i].active =>
        i = 0 /\ bps'[i].addr = CG_LOAD_ADDR /\ bps'[i].orig = "instr"
  OBVIOUS
<1>3. bps'[0].active /\ bps'[0].addr = CG_LOAD_ADDR
  BY IndexNat
<1>4. BpInv'
  BY <1>2, ProgramAssumption DEF BpInv
<1>5. ParkInv'
  BY DEF ParkInv
<1>6. Accounted'
  BY <1>3, IndexNat DEF Accounted
<1>7. RearmInv'
  BY <1>2, ProgramAssumption DEF RearmInv, Armed
<1> QED BY <1>1, <1>4, <1>5, <1>6, <1>7

LEMMA FinishInv ==
  ASSUME DbgInv, Finish
  PROVE  DbgInv'
<1> USE DEF DbgInv, Finish, clear_all_bps
<1>1. \A i \in Index : bps'[i].active = FALSE
  BY DEF DbgTypeOK
<1>2. DbgTypeOK'
  <2>1. mem' \in [Addrs -> {"instr", "int3"}]
    BY FindBp DEF DbgTypeOK
  <2>2. bps' \in [Index -> [addr : Addrs \cup {0}, orig : {"instr", "int3"},
                          active : BOOLEAN]]
    <3>1. ASSUME NEW i \in Index
          PROVE  [bps[i] EXCEPT !.active = FALSE] \in
                   [addr : Addrs \cup {0}, orig : {"instr", "int3"}, active : BOOLEAN]
      BY DEF DbgTypeOK
    <3> QED BY <3>1
  <2> QED BY <1>1, <2>1, <2>2 DEF DbgTypeOK, stepVars, history
<1>3. ASSUME ~parked_deleted', NEW a \in Addrs
      PROVE  mem'[a] # "int3"
  <2>1. ~parked_deleted
    BY <1>3 DEF history
  <2>2. CASE find_bp(a) = -1
    <3>1. mem[a] # "int3"
      BY <2>1, <2>2, FindBp, IndexNat DEF Accounted
    <3> QED BY <2>2, <3>1
  <2>3. CASE find_bp(a) # -1
    <3>1. bps[find_bp(a)].orig = "instr"
      BY <2>1, <2>3, FindBp DEF BpInv
    <3> QED BY <2>3, <3>1
  <2> QED BY <2>2, <2>3
<1>4. Accounted'
  BY <1>3 DEF Accounted
<1>5. BpInv' /\ ParkInv' /\ RearmInv'
  BY <1>1 DEF BpInv, ParkInv, RearmInv
<1> QED BY <1>2, <1>4, <1>5

\* The #BP handler lifts the breakpoint, and is the only thing that changes.
LEMMA BpHandlerInv ==
  ASSUME DbgInv, Int3
  PROVE  DbgInv'
<1> USE DEF DbgInv, Int3, dbg_bp_handler
<1> DEFINE idx == find_bp(eip)
<1>1. \/ idx = -1 /\ \A i \in Index : ~(bps[i].active /\ bps[i].addr = eip)
      \/ idx \in Index /\ idx # -1 /\ bps[idx].active /\ bps[idx].addr = eip
  BY FindBp
<1>2. eip \in Addrs /\ mem[eip] = "int3"
  BY DEF ByteAt
<1>3. ~parked_deleted => idx # -1
  BY <1>1, <1>2 DEF Accounted
<1> HIDE DEF idx
<1>4. /\ at_bp' = idx /\ eip' = IF idx = -1 THEN eip + 1 ELSE eip
      /\ mem' = IF idx = -1 THEN mem ELSE [mem EXCEPT ![eip] = bps[idx].orig]
      /\ overtaken' = (overtaken \/ pending_reinsert \notin {-1, idx})
      /\ mode = "user" /\ mode' = "repl"
      /\ UNCHANGED <<bps, dbg_active, edits, pending_reinsert, want_step, TF, parked_deleted>>
  BY DEF idx, sessionVars
<1> HIDE DEF Int3, dbg_bp_handler
<1>5. DbgTypeOK'
  <2>1. mem' \in [Addrs -> {"instr", "int3"}]
    BY <1>1, <1>4 DEF DbgTypeOK
  <2> QED BY <1>1, <1>4, <2>1 DEF DbgTypeOK
<1>6. BpInv'
  BY <1>4 DEF BpInv
<1>7. ParkInv'
  BY <1>1, <1>3, <1>4, IndexNat DEF ParkInv
<1>8. Accounted'
  BY <1>1, <1>2, <1>3, <1>4 DEF Accounted, BpInv, DbgTypeOK
<1>9. RearmInv'
  <2>1. ASSUME ~overtaken', NEW i \in Index, bps[i].active
        PROVE  mem'[bps[i].addr] = "int3" \/ idx = i
    <3>1. mem[bps[i].addr] = "int3" \/ pending_reinsert = i
      BY <1>4, <2>1 DEF RearmInv, Armed
    <3>2. pending_reinsert = -1 \/ pending_reinsert = idx
      BY <1>4, <2>1
    <3>3. CASE pending_reinsert = i
      BY <3>2, <3>3, IndexNat
    <3>4. CASE mem[bps[i].addr] = "int3" /\ idx # i
      <4>1. bps[i].addr \in Addrs
        BY <2>1 DEF BpInv
      <4>2. idx # -1 => bps[i].addr # eip
        BY <1>1, <2>1, <3>4 DEF DbgTypeOK
      <4> QED BY <1>4, <3>4, <4>1, <4>2 DEF DbgTypeOK
    <3> QED BY <3>1, <3>3, <3>4
  <2> QED BY <1>4, <2>1 DEF RearmInv, Armed
<1> QED BY <1>5, <1>6, <1>7, <1>8, <1>9

\* The #DB handler arms the pending breakpoint again: it is still in the table
\* unless the program was standing on it when it was deleted.
LEMMA StepHandlerInv ==
  ASSUME DbgInv, mode = "user", dbg_step_handler, eip' \in Nat, TF
  PROVE  DbgInv'
<1> USE DEF DbgInv
<1> DEFINE p == pending_reinsert
<1>1. /\ mem' = IF p = -1 THEN mem ELSE [mem EXCEPT ![bps[p].addr] = "int3"]
      /\ pending_reinsert' = -1
      /\ \/ mode' = "repl" /\ at_bp' = -1
         \/ mode' = "user" /\ at_bp' = at_bp
      /\ UNCHANGED <<bps, dbg_active, edits, want_step, parked_deleted, overtaken>>
  BY DEF dbg_step_handler, sessionVars, history
<1> TF' \in BOOLEAN
  BY DEF dbg_step_handler, DbgTypeOK
<1>2. mem' \in [Addrs -> {"instr", "int3"}]
  BY <1>1 DEF DbgTypeOK
<1>3. DbgTypeOK'
  BY <1>1, <1>2, IndexNat DEF DbgTypeOK
<1>4. BpInv'
  BY <1>1 DEF BpInv
<1>5. ParkInv'
  BY <1>1 DEF ParkInv
<1>6. Accounted'
  <2>1. ASSUME ~parked_deleted, NEW a \in Addrs, mem'[a] = "int3"
        PROVE  \E i \in Index : bps[i].active /\ bps[i].addr = a
    <3>1. CASE mem[a] = "int3"
      BY <2>1, <3>1 DEF Accounted
    <3>2. CASE mem[a] # "int3"
      <4>1. p # -1 /\ bps[p].addr = a
        BY <1>1, <2>1, <3>2 DEF DbgTypeOK
      <4>2. p \in Index /\ bps[p].active
        BY <2>1, <4>1 DEF ParkInv, DbgTypeOK
      <4> QED BY <4>1, <4>2
    <3> QED BY <3>1, <3>2
  <2> QED BY <1>1, <2>1 DEF Accounted
<1>7. RearmInv'
  <2>1. ASSUME ~overtaken, NEW i \in Index, bps[i].active
        PROVE  mem'[bps[i].addr] = "int3"
    <3>1. mem[bps[i].addr] = "int3" \/ p = i
      BY <2>1 DEF RearmInv, Armed
    <3>2. bps[i].addr \in Addrs
      BY <2>1 DEF BpInv
    <3> QED BY <1>1, <3>1, <3>2, IndexNat DEF DbgTypeOK
  <2> QED BY <1>1, <2>1 DEF RearmInv, Armed
<1> QED BY <1>3, <1>4, <1>5, <1>6, <1>7

LEMMA SuccNat == \A a : SuccAt(a) \subseteq Addrs /\ SuccAt(a) \subseteq Nat
BY ProgramAssumption DEF SuccAt

\* A step of the program outside the handlers.
LEMMA RunningInv ==
  ASSUME DbgInv, mode = "user", eip' \in Nat,
         UNCHANGED <<mem, bps, sessionVars, stepVars, TF, mode, history>>
  PROVE  DbgInv'
BY DEF DbgInv, DbgTypeOK, BpInv, ParkInv, Accounted, RearmInv, Armed,
       sessionVars, stepVars, history

LEMMA ProgramInv ==
  ASSUME DbgInv, Program
  PROVE  DbgInv'
<1>1. CASE Int3
  BY <1>1, BpHandlerInv
<1>2. CASE Instruction
  <2>1. mode = "user" /\ eip' \in Nat
    BY <1>2, SuccNat DEF Instruction
  <2>2. CASE TF
    BY <1>2, <2>1, <2>2, StepHandlerInv DEF Instruction
  <2>3. CASE ~TF
    BY <1>2, <2>1, <2>3, RunningInv DEF Instruction
  <2> QED BY <2>2, <2>3
<1>3. CASE Syscall
  <2>1. mode = "user" /\ eip' \in Nat
    BY <1>3, SuccNat DEF Syscall
  <2> QED BY <1>3, <2>1, RunningInv DEF Syscall
<1>4. CASE Exit
  BY <1>4, FinishInv DEF Exit
<1> QED BY <1>1, <1>2, <1>3, <1>4 DEF Program

-----------------------------------------------------------------------------
(* Commands.                                                               *)

LEMMA SetInv ==
  ASSUME DbgInv, NEW addr \in Addrs, set_bp(addr)
  PROVE  DbgInv'
<1> USE DEF DbgInv
<1> DEFINE free == {i \in Index : ~bps[i].active}
           s == Least(free)
           new == [addr |-> addr, orig |-> mem[addr], active |-> TRUE]
<1>1. s \in Index /\ ~bps[s].active
  <2>1. free # {} /\ free \subseteq Index
    BY DEF set_bp
  <2>2. s \in free
    <3> HIDE DEF free
    <3> QED BY <2>1, LeastIn
  <2> QED BY <2>2
<1>2. \A i \in Index : ~(bps[i].active /\ bps[i].addr = addr)
  BY FindBp, IndexNat DEF set_bp
<1>3. /\ bps' = [bps EXCEPT ![s] = new] /\ mem' = [mem EXCEPT ![addr] = "int3"]
      /\ mode = "repl"
      /\ UNCHANGED <<dbg_active, pending_reinsert, want_step, at_bp, eip, TF, mode,
                     parked_deleted, overtaken>>
  BY DEF set_bp, Edit, stepVars, cpuVars, history
<1> HIDE DEF s
<1>4. /\ bps'[s] = new
      /\ \A i \in Index : i # s => bps'[i] = bps[i]
  BY <1>1, <1>3 DEF DbgTypeOK
<1>5. mem[addr] \in {"instr", "int3"} /\ mem'[addr] = "int3"
      /\ \A a \in Addrs : a # addr => mem'[a] = mem[a]
  BY <1>3 DEF DbgTypeOK
<1>6. DbgTypeOK'
  <2>1. mem' \in [Addrs -> {"instr", "int3"}]
    BY <1>3 DEF DbgTypeOK
  <2>2. bps' \in [Index -> [addr : Addrs \cup {0}, orig : {"instr", "int3"},
                          active : BOOLEAN]]
    BY <1>3, <1>5 DEF DbgTypeOK
  <2>3. \A i, j \in Index : bps'[i].active /\ bps'[j].active /\ bps'[i].addr = bps'[j].addr
          => i = j
    BY <1>2, <1>4 DEF DbgTypeOK
  <2> QED BY <1>3, <2>1, <2>2, <2>3 DEF DbgTypeOK
<1>7. BpInv'
  <2>1. ~parked_deleted => mem[addr] = "instr"
    BY <1>2, <1>5 DEF Accounted
  <2> QED BY <1>3, <1>4, <2>1 DEF BpInv
<1>8. ParkInv'
  <2>1. ASSUME ~parked_deleted, at_bp # -1
        PROVE  bps'[at_bp].active /\ bps'[at_bp].addr = eip
    <3>1. at_bp \in Index /\ bps[at_bp].active /\ bps[at_bp].addr = eip
      BY <1>3, <2>1 DEF ParkInv, DbgTypeOK
    <3> QED BY <1>1, <1>4, <3>1
  <2>2. ~parked_deleted /\ at_bp = -1 => pending_reinsert = -1
    BY <1>3 DEF ParkInv
  <2> QED BY <1>3, <2>1, <2>2 DEF ParkInv
<1>9. Accounted'
  <2>1. ASSUME ~parked_deleted, NEW a \in Addrs, mem'[a] = "int3"
        PROVE  \E i \in Index : bps'[i].active /\ bps'[i].addr = a
    <3>1. CASE a = addr
      BY <1>1, <1>4, <3>1
    <3>2. CASE a # addr
      <4>1. PICK i \in Index : bps[i].active /\ bps[i].addr = a
        BY <1>5, <2>1, <3>2 DEF Accounted
      <4> QED BY <1>1, <1>4, <4>1
    <3> QED BY <3>1, <3>2
  <2> QED BY <1>3, <2>1 DEF Accounted
<1>10. RearmInv'
  <2>1. ASSUME ~overtaken, NEW i \in Index, bps'[i].active
        PROVE  mem'[bps'[i].addr] = "int3" \/ at_bp = i
    <3>1. CASE i = s
      BY <1>4, <1>5, <3>1
    <3>2. CASE i # s
      <4>1. bps[i].active /\ bps[i].addr \in Addrs /\ bps'[i] = bps[i]
        BY <1>4, <2>1, <3>2 DEF BpInv
      <4>2. mem[bps[i].addr] = "int3" \/ at_bp = i
        BY <1>3, <2>1, <4>1 DEF RearmInv, Armed
      <4> QED BY <1>5, <4>1, <4>2
    <3> QED BY <3>1, <3>2
  <2> QED BY <1>3, <2>1 DEF RearmInv, Armed
<1> QED BY <1>6, <1>7, <1>8, <1>9, <1>10

LEMMA DelInv ==
  ASSUME DbgInv, NEW addr \in Addrs, del_bp(addr)
  PROVE  DbgInv'
<1> USE DEF DbgInv
<1> DEFINE d == find_bp(addr)
<1>1. d \in Index /\ bps[d].active /\ bps[d].addr = addr
  BY FindBp, IndexNat DEF del_bp
<1>2. /\ bps' = [bps EXCEPT ![d].active = FALSE] /\ mem' = [mem EXCEPT ![addr] = bps[d].orig]
      /\ mode = "repl"
      /\ parked_deleted' = (parked_deleted \/ d = at_bp)
      /\ UNCHANGED <<dbg_active, pending_reinsert, want_step, at_bp, eip, TF, mode,
                     overtaken>>
  BY DEF del_bp, Edit, stepVars, cpuVars
<1> HIDE DEF d
<1>3. /\ bps'[d].active = FALSE
      /\ \A i \in Index : i # d => bps'[i] = bps[i]
  BY <1>1, <1>2 DEF DbgTypeOK
<1>4. mem'[addr] = bps[d].orig /\ \A a \in Addrs : a # addr => mem'[a] = mem[a]
  BY <1>2 DEF DbgTypeOK
<1>5. DbgTypeOK'
  <2>1. mem' \in [Addrs -> {"instr", "int3"}]
    BY <1>1, <1>2 DEF DbgTypeOK
  <2>2. bps' \in [Index -> [addr : Addrs \cup {0}, orig : {"instr", "int3"},
                          active : BOOLEAN]]
    BY <1>1, <1>2 DEF DbgTypeOK
  <2>3. \A i, j \in Index : bps'[i].active /\ bps'[j].active /\ bps'[i].addr = bps'[j].addr
          => i = j
    BY <1>3 DEF DbgTypeOK
  <2> QED BY <1>2, <2>1, <2>2, <2>3 DEF DbgTypeOK
<1>6. BpInv'
  BY <1>2, <1>3 DEF BpInv
<1>7. ParkInv'
  <2>1. ASSUME ~parked_deleted', at_bp # -1
        PROVE  bps'[at_bp].active /\ bps'[at_bp].addr = eip
    <3>1. at_bp \in Index /\ bps[at_bp].active /\ bps[at_bp].addr = eip /\ at_bp # d
      BY <1>2, <2>1 DEF ParkInv, DbgTypeOK
    <3> QED BY <1>3, <3>1
  <2>2. ~parked_deleted' /\ at_bp = -1 => pending_reinsert = -1
    BY <1>2 DEF ParkInv
  <2> QED BY <1>2, <2>1, <2>2 DEF ParkInv
<1>8. Accounted'
  <2>1. ASSUME ~parked_deleted', NEW a \in Addrs, mem'[a] = "int3"
        PROVE  \E i \in Index : bps'[i].active /\ bps'[i].addr = a
    <3>1. a # addr
      BY <1>1, <1>2, <1>4, <2>1 DEF BpInv
    <3>2. PICK i \in Index : bps[i].active /\ bps[i].addr = a
      BY <1>2, <1>4, <2>1, <3>1 DEF Accounted
    <3> QED BY <1>1, <1>3, <3>1, <3>2
  <2> QED BY <2>1 DEF Accounted
<1>9. RearmInv'
  <2>1. ASSUME ~overtaken, NEW i \in Index, bps'[i].active
        PROVE  mem'[bps'[i].addr] = "int3" \/ at_bp = i
    <3>1. i # d /\ bps'[i] = bps[i] /\ bps[i].active /\ bps[i].addr \in Addrs
      BY <1>3, <2>1 DEF BpInv
    <3>2. bps[i].addr # addr
      BY <1>1, <3>1 DEF DbgTypeOK
    <3>3. mem[bps[i].addr] = "int3" \/ at_bp = i
      BY <1>2, <2>1, <3>1 DEF RearmInv, Armed
    <3> QED BY <1>4, <3>1, <3>2, <3>3
  <2> QED BY <1>2, <2>1 DEF RearmInv, Armed
<1> QED BY <1>5, <1>6, <1>7, <1>8, <1>9

\* Resuming: at_bp, if any, becomes the breakpoint to arm again.
LEMMA ResumeInv ==
  ASSUME DbgInv, Continue \/ Step
  PROVE  DbgInv'
<1> USE DEF DbgInv
<1>1. /\ mode = "repl" /\ mode' = "user"
      /\ at_bp # -1 => pending_reinsert' = at_bp /\ TF'
      /\ at_bp = -1 => pending_reinsert' = pending_reinsert
      /\ TF' \in BOOLEAN /\ want_step' \in BOOLEAN
      /\ UNCHANGED <<mem, bps, dbg_active, at_bp, eip, parked_deleted, overtaken>>
  <2>1. CASE Continue
    BY <2>1 DEF Continue, sessionVars, history, DbgTypeOK
  <2>2. CASE Step
    BY <2>2 DEF Step, sessionVars, history
  <2> QED BY <2>1, <2>2
<1>2. DbgTypeOK'
  BY <1>1, IndexNat DEF DbgTypeOK
<1>3. BpInv' /\ Accounted'
  BY <1>1 DEF BpInv, Accounted
<1>4. ParkInv'
  BY <1>1, IndexNat DEF ParkInv, DbgTypeOK
<1>5. RearmInv'
  BY <1>1, IndexNat DEF RearmInv, Armed
<1> QED BY <1>2, <1>3, <1>4, <1>5

-----------------------------------------------------------------------------
(* Theorems.                                                               *)

LEMMA NextInv == DbgInv /\ [Next]_vars => DbgInv'
<1> SUFFICES ASSUME DbgInv, [Next]_vars PROVE DbgInv'
  OBVIOUS
<1>1. CASE debugger_run
  BY <1>1, RunInv
<1>2. CASE Program
  BY <1>2, ProgramInv
<1>3. ASSUME NEW addr \in Addrs, set_bp(addr) \/ del_bp(addr) PROVE DbgInv'
  BY <1>3, SetInv, DelInv
<1>4. CASE Continue \/ Step
  BY <1>4, ResumeInv
<1>5. CASE Quit
  BY <1>5, FinishInv DEF Quit
<1>6. CASE UNCHANGED vars
  BY <1>6 DEF vars, sessionVars, stepVars, cpuVars, history, DbgInv, DbgTypeOK, BpInv,
              ParkInv, Accounted, RearmInv, Armed
<1> QED BY <1>1, <1>2, <1>3, <1>4, <1>5, <1>6 DEF Next, dbg_repl

LEMMA Invariance == Spec => []DbgInv
<1> QED BY InitInv, NextInv, PTL DEF Spec

\* The variables keep their types and no address is in the table twice.
THEOREM DebuggerTypes == Spec => []DbgTypeOK
<1>1. DbgInv => DbgTypeOK
  BY DEF DbgInv
<1> QED BY <1>1, Invariance, PTL

\* del_bp of the breakpoint the program is parked on is the only way to get a
\* 0xCC nobody accounts for.
THEOREM StrayOnlyBehindDelete == Spec => []StrayOnlyFromParked
<1>1. ASSUME DbgInv PROVE StrayOnlyFromParked
  <2>1. ASSUME ~parked_deleted, NEW a \in Addrs, mem[a] = "int3"
        PROVE  find_bp(a) # -1 /\ bps[find_bp(a)].orig = "instr"
    <3>1. find_bp(a) \in Index /\ find_bp(a) # -1 /\ bps[find_bp(a)].active
      BY <1>1, <2>1, FindBp DEF DbgInv, Accounted
    <3> QED BY <1>1, <2>1, <3>1 DEF DbgInv, BpInv
  <2> QED BY <2>1 DEF StrayOnlyFromParked, NoStrayInt3
<1> QED BY <1>1, Invariance, PTL

\* A breakpoint stays unarmed only when another was hit behind a system call,
\* before the #DB that dbg_step_handler waits for.
THEOREM RearmedOrOvertaken == Spec => []LostOnlyBehindSyscall
<1>1. DbgInv => LostOnlyBehindSyscall
  BY DEF DbgInv, RearmInv, Armed, LostOnlyBehindSyscall, BreakpointsRearmed
<1> QED BY <1>1, Invariance, PTL

\* The program moves along its own control flow, whatever the debugger does.
THEOREM DebuggingIsTransparent == Spec => Transparent
<1>1. ASSUME DbgInv, Next, mode = "user", ~parked_deleted, eip' # eip
      PROVE  eip' \in SuccAt(eip)
  <2>1. ~Int3
    <3> SUFFICES ASSUME Int3 PROVE FALSE
      OBVIOUS
    <3>1. eip \in Addrs /\ mem[eip] = "int3"
      BY DEF Int3, ByteAt
    <3>2. find_bp(eip) # -1
      BY <1>1, <3>1, FindBp DEF DbgInv, Accounted
    <3> QED BY <1>1, <3>2 DEF Int3, dbg_bp_handler
  <2>2. ~Exit
    BY <1>1 DEF Exit, Finish
  <2>3. ~debugger_run /\ ~dbg_repl
    BY <1>1 DEF debugger_run, dbg_repl, set_bp, del_bp, Edit, Continue, Step, Quit
  <2> QED BY <1>1, <2>1, <2>2, <2>3 DEF Next, Program, Instruction, Syscall
<1>2. DbgInv /\ [Next]_vars =>
        [(mode = "user" /\ ~parked_deleted /\ eip' # eip) => eip' \in SuccAt(eip)]_vars
  BY <1>1
<1> QED BY <1>2, Invariance, PTL DEF Spec, Transparent
=============================================================================
