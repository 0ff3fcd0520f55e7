------------------------------ MODULE KeyQueue ------------------------------
(***************************************************************************)
(* What the keyboard driver promises to its readers (shell, debugger,      *)
(* SYS_GETCHAR): key codes come out in the order in which they were        *)
(* accepted, each at most once, and a key that finds Capacity keys waiting *)
(* is dropped and disturbs nothing.                                        *)
(***************************************************************************)
EXTENDS Integers, Sequences

CONSTANTS
  Codes,     \* the key codes a reader can be handed
  Capacity,  \* how many keys can wait
  NoKey      \* got's value before a key is delivered and after Clear

VARIABLES
  q,    \* the keys waiting, oldest first
  got   \* what the last reader call handed out

Init ==
  /\ q = << >>
  /\ got = NoKey

Put(k) ==
  /\ q' = IF Len(q) < Capacity THEN Append(q, k) ELSE q
  /\ UNCHANGED got

Get ==
  /\ q # << >>
  /\ got' = Head(q)
  /\ q' = Tail(q)

\* A reader discards what is waiting.
Clear ==
  /\ q' = << >>
  /\ got' = NoKey

Next ==
  \/ \E k \in Codes : Put(k)
  \/ Get
  \/ Clear

Spec == Init /\ [][Next]_<<q, got>>
=============================================================================
