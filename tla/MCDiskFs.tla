------------------------------ MODULE MCDiskFs ------------------------------
(* DiskFs on a partition of seven sectors (BPB, FAT, two directory entries *)
(* in a sector each, three clusters), written in chunks of four.           *)
EXTENDS DiskFs

CONSTANTS notes, game, a, b

MCNameTo83 == [n \in {notes, game} |-> n]
MCContents == {<<a>>, <<a, b, b>>}
MCDefaults == <<<<game, <<b, a>>>>>>
=============================================================================
