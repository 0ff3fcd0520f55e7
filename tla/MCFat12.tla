------------------------------ MODULE MCFat12 ------------------------------
(* Fat12 on a volume of four clusters and two directory entries, with two   *)
(* spellings of one name, a name that begins with 0xE5 (sigma) and contents *)
(* of 0, 2 and 3 blocks: a failing write can overwrite a file of two blocks *)
(* when the other holds two.                                               *)
EXTENDS Fat12, TLC

CONSTANTS README, readme, hello, ls, sigma, a, b

MCFileNames == {README, readme, hello, ls, sigma}
MCNames83 == {README, hello, ls, sigma}
MCNameTo83 == [n \in MCFileNames |-> IF n = readme THEN README ELSE n]
Renamings == Permutations({hello, ls})
MCContents == {<< >>, <<b, a>>, <<a, b, a>>}
=============================================================================
