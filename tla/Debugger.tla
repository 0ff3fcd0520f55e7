------------------------------ MODULE Debugger ------------------------------
(***************************************************************************)
(* kernel/debug/debugger.c: breakpoints, stepping and resuming a ring-3    *)
(* program from inside the #BP and #DB handlers. Three parties act on the  *)
(* same few variables: the CPU running the program, the two trap handlers, *)
(* and the person at the (dbg) prompt.                                     *)
(*                                                                         *)
(* The program is a set of instruction addresses with their successors. A  *)
(* breakpoint replaces an instruction's first byte, so a byte is "instr"   *)
(* or "int3". Commands that only show something are left out.              *)
(***************************************************************************)
EXTENDS Integers

CONSTANTS
  Addrs,         \* where the program's instructions start (docs: "use u")
  CG_LOAD_ADDR,  \* the first of them
  Kind,          \* address -> "plain", "syscall" (int 0x80) or "exit"
  Succ,          \* address -> the addresses control may go to next
  MAX_BP,        \* breakpoints the table holds
  MaxEdits       \* bound: b and d commands over all sessions

ASSUME ProgramAssumption ==
  /\ Addrs \subseteq Nat \ {0} /\ CG_LOAD_ADDR \in Addrs
  /\ Kind \in [Addrs -> {"plain", "syscall", "exit"}]
  /\ Succ \in [Addrs -> SUBSET Addrs]
ASSUME TableAssumption == MAX_BP \in Nat \ {0} /\ MaxEdits \in Nat

VARIABLES
  mem,               \* address -> byte
  bps,               \* the breakpoint table
  dbg_active, pending_reinsert, want_step, at_bp,
  eip, TF,           \* of the program
  mode,              \* "shell", "user" (the program runs) or "repl" (it is stopped)
  edits,
  \* History of the session.
  parked_deleted,    \* a breakpoint was deleted while the program stood on it
  overtaken          \* a breakpoint was hit before the last one was re-armed

sessionVars == <<dbg_active, edits>>
cpuVars == <<eip, TF, mode>>
stepVars == <<pending_reinsert, want_step, at_bp>>
history == <<parked_deleted, overtaken>>
vars == <<mem, bps, sessionVars, stepVars, cpuVars, history>>

Index == 0 .. MAX_BP - 1
Least(S) == CHOOSE i \in S : \A j \in S : i <= j

find_bp(addr) ==
  LET found == {i \in Index : bps[i].active /\ bps[i].addr = addr}
  IN  IF found = {} THEN -1 ELSE Least(found)

-----------------------------------------------------------------------------
(* debugger_run.                                                           *)

Init ==
  /\ mem = [a \in Addrs |-> "instr"]
  /\ bps = [i \in Index |-> [addr |-> 0, orig |-> "instr", active |-> FALSE]]
  /\ dbg_active = FALSE /\ edits = 0
  /\ pending_reinsert = -1 /\ want_step = FALSE /\ at_bp = -1
  /\ eip = CG_LOAD_ADDR /\ TF = FALSE /\ mode = "shell"
  /\ parked_deleted = FALSE /\ overtaken = FALSE

\* prog_load copies the program, and the entry breakpoint goes into slot 0 of
\* a cleared table.
debugger_run ==
  /\ mode = "shell"
  /\ mem' = [a \in Addrs |-> IF a = CG_LOAD_ADDR THEN "int3" ELSE "instr"]
  /\ bps' = [i \in Index |->
               IF i = 0 THEN [addr |-> CG_LOAD_ADDR, orig |-> "instr", active |-> TRUE]
               ELSE [bps[i] EXCEPT !.active = FALSE]]
  /\ pending_reinsert' = -1 /\ want_step' = FALSE /\ at_bp' = -1
  /\ dbg_active' = TRUE
  /\ eip' = CG_LOAD_ADDR /\ TF' = FALSE /\ mode' = "user"
  /\ parked_deleted' = FALSE /\ overtaken' = FALSE
  /\ UNCHANGED edits

clear_all_bps ==
  /\ mem' = [a \in Addrs |-> IF find_bp(a) # -1 THEN bps[find_bp(a)].orig ELSE mem[a]]
  /\ bps' = [i \in Index |-> [bps[i] EXCEPT !.active = FALSE]]

\* return_to_kernel, and the rest of debugger_run.
Finish ==
  /\ mode' = "shell"
  /\ dbg_active' = FALSE
  /\ clear_all_bps
  /\ UNCHANGED <<edits, stepVars, eip, TF, history>>

-----------------------------------------------------------------------------
(* The trap handlers.                                                      *)

\* Mutant: the program counter is left behind the 0xCC.
dbg_bp_handler_no_rewind ==
  LET idx == find_bp(eip)
  IN  /\ at_bp' = idx
      /\ eip' = eip + 1
      /\ mem' = IF idx = -1 THEN mem ELSE [mem EXCEPT ![eip] = bps[idx].orig]
      /\ overtaken' = (overtaken \/ pending_reinsert \notin {-1, idx})
      /\ mode' = "repl"
      /\ UNCHANGED <<bps, sessionVars, pending_reinsert, want_step, TF, parked_deleted>>

\* Mutant: the original byte is not put back.
dbg_bp_handler_armed ==
  LET idx == find_bp(eip)
  IN  /\ at_bp' = idx
      /\ eip' = IF idx = -1 THEN eip + 1 ELSE eip
      /\ overtaken' = (overtaken \/ pending_reinsert \notin {-1, idx})
      /\ mode' = "repl"
      /\ UNCHANGED <<mem, bps, sessionVars, pending_reinsert, want_step, TF, parked_deleted>>

\* int3 at eip. A breakpoint of ours is lifted and the program counter set
\* back; otherwise the program goes on behind the 0xCC.
dbg_bp_handler ==
  LET idx == find_bp(eip)
  IN  /\ at_bp' = idx
      /\ eip' = IF idx = -1 THEN eip + 1 ELSE eip
      /\ mem' = IF idx = -1 THEN mem ELSE [mem EXCEPT ![eip] = bps[idx].orig]
      /\ overtaken' = (overtaken \/ pending_reinsert \notin {-1, idx})
      /\ mode' = "repl"
      /\ UNCHANGED <<bps, sessionVars, pending_reinsert, want_step, TF, parked_deleted>>

\* Mutant: a breakpoint is re-armed only when the step was asked for.
dbg_step_handler_rearm_on_step ==
  /\ mem' = IF pending_reinsert = -1 \/ ~want_step THEN mem
            ELSE [mem EXCEPT ![bps[pending_reinsert].addr] = "int3"]
  /\ pending_reinsert' = -1
  /\ IF want_step THEN at_bp' = -1 /\ mode' = "repl" /\ UNCHANGED TF
                  ELSE TF' = FALSE /\ UNCHANGED <<at_bp, mode>>
  /\ UNCHANGED <<bps, sessionVars, want_step, history>>

\* #DB after an instruction that ran with TF set.
dbg_step_handler ==
  /\ mem' = IF pending_reinsert = -1 THEN mem
            ELSE [mem EXCEPT ![bps[pending_reinsert].addr] = "int3"]
  /\ pending_reinsert' = -1
  /\ IF want_step THEN at_bp' = -1 /\ mode' = "repl" /\ UNCHANGED TF
                  ELSE TF' = FALSE /\ UNCHANGED <<at_bp, mode>>
  /\ UNCHANGED <<bps, sessionVars, want_step, history>>

-----------------------------------------------------------------------------
(* The CPU (external). Between two instructions' starts it decodes         *)
(* whatever the bytes happen to be: it may go anywhere.                    *)

ByteAt(a) == IF a \in Addrs THEN mem[a] ELSE "instr"
KindAt(a) == IF a \in Addrs THEN Kind[a] ELSE "plain"
SuccAt(a) == IF a \in Addrs THEN Succ[a] ELSE Addrs

Int3 ==
  /\ mode = "user" /\ ByteAt(eip) = "int3"
  /\ dbg_bp_handler

Instruction ==
  /\ mode = "user" /\ ByteAt(eip) = "instr" /\ KindAt(eip) = "plain"
  /\ eip' \in SuccAt(eip)
  /\ IF TF THEN dbg_step_handler
     ELSE UNCHANGED <<mem, bps, sessionVars, stepVars, TF, mode, history>>

\* int 0x80: the gate clears TF before #DB can be raised, and iret restores
\* it for the instruction behind the syscall.
Syscall ==
  /\ mode = "user" /\ ByteAt(eip) = "instr" /\ KindAt(eip) = "syscall"
  /\ eip' \in SuccAt(eip)
  /\ UNCHANGED <<mem, bps, sessionVars, stepVars, TF, mode, history>>

\* SYS_EXIT; or the program faults and is killed.
Exit ==
  /\ mode = "user" /\ ByteAt(eip) = "instr"
  /\ KindAt(eip) = "exit" \/ eip \notin Addrs
  /\ Finish

-----------------------------------------------------------------------------
(* Commands.                                                               *)

Edit == mode = "repl" /\ edits < MaxEdits /\ edits' = edits + 1

\* Mutant: an address may be set twice.
set_bp_again(addr) ==
  LET free == {i \in Index : ~bps[i].active}
  IN  /\ Edit
      /\ free # {}
      /\ bps' = [bps EXCEPT ![Least(free)] =
                   [addr |-> addr, orig |-> mem[addr], active |-> TRUE]]
      /\ mem' = [mem EXCEPT ![addr] = "int3"]
      /\ UNCHANGED <<dbg_active, stepVars, cpuVars, history>>

\* Refused, changing nothing, when the breakpoint exists or the table is full.
set_bp(addr) ==
  LET free == {i \in Index : ~bps[i].active}
  IN  /\ Edit
      /\ find_bp(addr) = -1 /\ free # {}
      /\ bps' = [bps EXCEPT ![Least(free)] =
                   [addr |-> addr, orig |-> mem[addr], active |-> TRUE]]
      /\ mem' = [mem EXCEPT ![addr] = "int3"]
      /\ UNCHANGED <<dbg_active, stepVars, cpuVars, history>>

\* Mutant: the byte is not restored.
del_bp_no_restore(addr) ==
  LET i == find_bp(addr)
  IN  /\ Edit
      /\ i # -1
      /\ bps' = [bps EXCEPT ![i].active = FALSE]
      /\ parked_deleted' = (parked_deleted \/ i = at_bp)
      /\ UNCHANGED <<mem, dbg_active, stepVars, cpuVars, overtaken>>

del_bp(addr) ==
  LET i == find_bp(addr)
  IN  /\ Edit
      /\ i # -1
      /\ mem' = [mem EXCEPT ![addr] = bps[i].orig]
      /\ bps' = [bps EXCEPT ![i].active = FALSE]
      /\ parked_deleted' = (parked_deleted \/ i = at_bp)
      /\ UNCHANGED <<dbg_active, stepVars, cpuVars, overtaken>>

\* The c command: off a breakpoint with a hidden step, or straight on.
Continue ==
  /\ mode = "repl" /\ mode' = "user"
  /\ IF at_bp # -1
     THEN TF' = TRUE /\ pending_reinsert' = at_bp /\ want_step' = FALSE
     ELSE TF' = FALSE /\ UNCHANGED <<pending_reinsert, want_step>>
  /\ UNCHANGED <<mem, bps, sessionVars, at_bp, eip, history>>

\* The s command.
Step ==
  /\ mode = "repl" /\ mode' = "user"
  /\ TF' = TRUE /\ want_step' = TRUE
  /\ pending_reinsert' = IF at_bp # -1 THEN at_bp ELSE pending_reinsert
  /\ UNCHANGED <<mem, bps, sessionVars, at_bp, eip, history>>

\* The q command.
Quit ==
  /\ mode = "repl"
  /\ Finish

dbg_repl ==
  \/ \E addr \in Addrs : set_bp(addr) \/ del_bp(addr)
  \/ Continue \/ Step \/ Quit

Program == Int3 \/ Instruction \/ Syscall \/ Exit

Next == debugger_run \/ Program \/ dbg_repl

(* The program runs whenever it is not stopped, and the person at the      *)
(* prompt resumes it sooner or later.                                      *)
Spec == Init /\ [][Next]_vars /\ WF_vars(Program) /\ WF_vars(Continue \/ Step)

-----------------------------------------------------------------------------
(* Properties.                                                             *)

\* The variables have their types, and no address is in the table twice.
DbgTypeOK ==
  /\ mem \in [Addrs -> {"instr", "int3"}]
  /\ bps \in [Index -> [addr : Addrs \cup {0}, orig : {"instr", "int3"},
                        active : BOOLEAN]]
  /\ \A i, j \in Index : bps[i].active /\ bps[j].active /\ bps[i].addr = bps[j].addr
       => i = j
  /\ dbg_active = (mode # "shell") /\ want_step \in BOOLEAN /\ TF \in BOOLEAN
  /\ pending_reinsert \in Index \cup {-1} /\ at_bp \in Index \cup {-1}
  /\ mode \in {"shell", "user", "repl"} /\ eip \in Nat

\* "d ADDR: Delete the breakpoint at ADDR" (docs/debugger.md): a 0xCC in the
\* program is there for a breakpoint that is in the table, which remembers
\* the byte it replaced.
NoStrayInt3 ==
  \A a \in Addrs : mem[a] = "int3" =>
    find_bp(a) # -1 /\ bps[find_bp(a)].orig = "instr"

\* "re-armed when you continue" (docs/debugger.md): while the program runs,
\* every breakpoint in the table is armed, or the next #DB will arm it.
BreakpointsRearmed ==
  mode = "user" =>
    \A i \in Index : bps[i].active =>
      mem[bps[i].addr] = "int3" \/ (pending_reinsert = i /\ TF)

\* Deleting the breakpoint the program stands on is the only way to get a
\* 0xCC that no breakpoint accounts for, so after any other session the
\* program's bytes are its own again.
StrayOnlyFromParked == parked_deleted \/ NoStrayInt3

\* Only a breakpoint hit right behind a syscall that had one too makes the
\* debugger forget to re-arm: no other order of commands, steps and hits does.
LostOnlyBehindSyscall == overtaken \/ BreakpointsRearmed

\* Breakpoints, steps and stops do not show in the program: it moves along
\* its own control flow, one instruction at a time, none skipped or repeated.
Transparent ==
  [][(mode = "user" /\ ~parked_deleted /\ eip' # eip) => eip' \in SuccAt(eip)]_vars

\* Whatever was set, deleted or stepped onto before, resuming gets the
\* program off the address where it stands, although stepping onto a
\* breakpoint stops twice there. (A breakpoint set on a stray 0xCC would not.)
KeepsGoing ==
  \A a \in Addrs :
    (mode # "shell" /\ eip = a) ~> (mode = "shell" \/ eip # a \/ parked_deleted)
=============================================================================
