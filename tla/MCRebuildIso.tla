---------------------------- MODULE MCRebuildIso ----------------------------
(***************************************************************************)
(* Small discs for RebuildIso.  A block is 4 bytes and a uint32_t counts   *)
(* to 16, so that block 5 lies beyond the wrap (address 20, computed as    *)
(* 4) and blocks 1 to 3 below it; block 2 follows block 1 directly when    *)
(* the file at block 1 has 4 bytes and after a gap when it has 2.          *)
(***************************************************************************)
EXTENDS RebuildIso

Rec(n, b, l) == [name |-> n, block |-> b, off |-> 0, len |-> l]

(* All the tables of at most 3 files at these blocks, with these lengths.  *)
Tables(blocks, lens) ==
    {<<>>}
    \cup {<<Rec(1, b, l)>> : b \in blocks, l \in lens}
    \cup {<<Rec(1, b, l), Rec(2, c, m)>> :
            b \in blocks, l \in lens, c \in blocks, m \in lens}

ThreeFiles ==
    {<<Rec(1, 3, 4), Rec(2, 1, 4), Rec(3, 2, l)>> : l \in {0, 2, 4}}
    \cup {<<Rec(1, 1, 0), Rec(2, 1, 4), Rec(3, 5, 2)>>}

(* Blocks that the comparison does not order: half the word apart, where   *)
(* each is less than the other, and three of them in a cycle.              *)
Unordered ==
    {<<Rec(1, 1, 4), Rec(2, 9, 2)>>,
     <<Rec(1, 1, 4), Rec(2, 6, 2), Rec(3, 11, 2)>>}

Disc(recs) == [hdr |-> 4, ftr |-> 2, recs |-> recs]

AllDiscs == {Disc(t) : t \in Tables({1, 2, 5}, {0, 2, 4})
                              \cup ThreeFiles \cup Unordered}

(* Two files that do not overlap, the second beyond the wrap.              *)
WrapDiscs == {Disc(<<Rec(1, 1, 4), Rec(2, b, 2)>>) : b \in {2, 3, 5}}

(* An empty file that shares its block with the file that follows it.      *)
SharedBlockDiscs == {Disc(<<Rec(1, 1, l), Rec(2, 2, 0), Rec(3, 2, 4)>>) :
                        l \in {2, 4}}
=============================================================================
