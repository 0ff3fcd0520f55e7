----------------------------- MODULE FileStore -----------------------------
(***************************************************************************)
(* What the file system promises its callers (shell, compiler, editor,     *)
(* SYS_READFILE and SYS_WRITEFILE): files with distinct names that do not  *)
(* disturb one another. A write either stores the content, or returns -1;  *)
(* then it creates nothing, and a file that existed before may be left     *)
(* with a stretch of the new content, never with another file's. There are *)
(* names under which nothing is ever stored though the write returns 0.    *)
(***************************************************************************)
EXTENDS Integers, Sequences

CONSTANTS
  Names,     \* file names, in the 11-byte form
  Hidden,    \* those under which nothing is found again
  Contents,  \* what can be written: sequences of blocks
  NoFile     \* what reading a missing file gives

VARIABLES
  store,     \* name -> content
  result     \* the last call's return value

Init ==
  /\ store = [n \in Names |-> NoFile]
  /\ result = 0

Write(n, blocks) ==
  /\ result' = 0
  /\ store' = IF n \in Hidden THEN store ELSE [store EXCEPT ![n] = blocks]

Stretch(blocks) ==
  {SubSeq(blocks, i, j) : i \in 1 .. Len(blocks) + 1, j \in 0 .. Len(blocks)}

FailWrite(n, blocks) ==
  /\ result' = -1
  /\ \/ UNCHANGED store
     \/ /\ store[n] # NoFile
        /\ \E part \in Stretch(blocks) :
             /\ Len(part) <= Len(store[n])
             /\ store' = [store EXCEPT ![n] = part]

Delete(n) ==
  IF store[n] # NoFile
  THEN result' = 0 /\ store' = [store EXCEPT ![n] = NoFile]
  ELSE result' = -1 /\ UNCHANGED store

Next ==
  \E n \in Names :
    \/ \E blocks \in Contents : Write(n, blocks) \/ FailWrite(n, blocks)
    \/ Delete(n)

Spec == Init /\ [][Next]_<<store, result>>
=============================================================================
