---------------------------- MODULE TextHistory ----------------------------
(***************************************************************************)
(* What undo and redo promise the user of the editor: a line of texts, one *)
(* per completed command, along which u and Ctrl-r move. A command adds    *)
(* the text before it to the past and drops the future; an insertion       *)
(* counts as one command however many keys it has. A history that is full  *)
(* drops its oldest part, and what it then keeps as its oldest text may be *)
(* torn: a text from the middle of a command.                              *)
(***************************************************************************)
EXTENDS Integers, Sequences

VARIABLES
  h,        \* the text, the texts before earlier commands (past, oldest first)
            \* and those redo leads to (future, next first)
  started,  \* an insertion is under way and has changed the text
  full      \* the memory of the history is used up

Init ==
  /\ h.past = << >> /\ h.future = << >>
  /\ started = FALSE /\ full = FALSE

\* q is line p, or what is left of it when the memory is full.
KeptOf(q, p) ==
  \/ q = p
  \/ /\ full \/ full'
     /\ q # << >> /\ Len(q) <= Len(p)
     /\ Tail(q) = SubSeq(p, Len(p) - Len(q) + 2, Len(p))

\* A command changes the text (Change); undo and redo stay on the line, and a
\* command that changes nothing may drop what could be redone (Travel).
Next ==
  \E old \in {h}, new \in {h'} :
    LET present == Append(old.past, old.text)
        line == new.past \o <<new.text>> \o new.future
        Change == new.future = << >> /\ KeptOf(new.past, IF started THEN old.past ELSE present)
        Travel == ~started' /\ (KeptOf(line, present \o old.future) \/ KeptOf(line, present))
    IN Change \/ Travel

Spec == Init /\ [][Next]_<<h, started, full>>
=============================================================================
