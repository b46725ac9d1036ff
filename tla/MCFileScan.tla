----------------------------- MODULE MCFileScan -----------------------------
(***************************************************************************)
(* Headers for FileScan, laid out as a disc is mastered: blocks of 8       *)
(* units, records of 3 to 5 with a fixed part of 2, none across a block    *)
(* boundary, so that a block ends exactly full, with room for a fixed part *)
(* (zeros are read) or with less (the record would straddle).  Block 0     *)
(* stands for the descriptors.  The root directory is followed by one      *)
(* other, which lists less.                                                *)
(***************************************************************************)
EXTENDS FileScan, SequencesExt

Record(n, d, m, rl, el) ==
    [name |-> n, isDir |-> d, more |-> m, rlen |-> rl, elen |-> el]

(* Offset of each entry of a directory that starts at a block boundary.    *)
Offsets(entries) ==
    LET at[i \in DOMAIN entries] ==
            IF i = 1 THEN 0
            ELSE LET q == at[i - 1] + entries[i - 1].rlen IN
                 IF (q % BlockSize) + entries[i].rlen > BlockSize
                 THEN NextBlock(q) ELSE q
    IN  at

Blocks(entries) ==
    LET n == Len(entries)
        e == Offsets(entries)[n] + entries[n].rlen
    IN  (e + BlockSize - 1) \div BlockSize

(* Entries of a directory of the given files, named from base on, with its *)
(* own record and its parent's in front.                                   *)
Entries(kinds, base) ==
    LET self == Record(0, TRUE, FALSE, 3, 0) IN
    <<self, self>> \o [i \in DOMAIN kinds |->
        Record(base + i, kinds[i].isDir, kinds[i].more, kinds[i].rlen,
               kinds[i].elen)]

Place(entries, block) ==
    LET offs == Offsets(entries)
        sized == [entries EXCEPT ![1].elen = Blocks(entries) * BlockSize]
    IN  [p \in {block * BlockSize + offs[i] : i \in DOMAIN entries} |->
            sized[CHOOSE i \in DOMAIN entries :
                     block * BlockSize + offs[i] = p]]

(* Where the records of the files of a directory are.                      *)
Files(entries, block) ==
    LET offs == Offsets(entries)
        isFile(i) == ~entries[i].isDir
    IN  [k \in DOMAIN SelectSeq([i \in DOMAIN entries |-> i], isFile) |->
            block * BlockSize
                + offs[SelectSeq([i \in DOMAIN entries |-> i], isFile)[k]]]

(* A disc of two directories; cut shortens the header file.                *)
Disc(root, sub, cut) ==
    LET e1 == Entries(root, 0)
        e2 == Entries(sub, 10)
        b2 == 1 + Blocks(e1)
        end == (b2 + Blocks(e2)) * BlockSize
        a1 == Place(e1, 1)
        a2 == Place(e2, b2)
    IN  [len |-> end - cut,
         at |-> [p \in DOMAIN a1 \cup DOMAIN a2 |->
                    IF p \in DOMAIN a1 THEN a1[p] ELSE a2[p]],
         dirs |-> <<1, b2>>,
         files |-> Files(e1, 1) \o Files(e2, b2)]

Kind(d, m, rl, el) == [isDir |-> d, more |-> m, rlen |-> rl, elen |-> el]
File3 == Kind(FALSE, FALSE, 3, 1)
File4 == Kind(FALSE, FALSE, 4, 1)
File5 == Kind(FALSE, FALSE, 5, 1)
Sub3  == Kind(TRUE, FALSE, 3, 8)

Roots == SeqOf({File3, File4, Sub3}, 3) \cup {<<File5, File3>>, <<File4, File4, File4>>}
Subs  == SeqOf({File3, File4}, 2)

PlainDiscs == {Disc(r, s, 0) : r \in Roots, s \in Subs}

(* The header is cut within the second directory or before it; a negative  *)
(* cut leaves blocks of zeros behind the directories.                      *)
CutDiscs == {Disc(r, <<File3>>, c) : r \in {<<>>, <<File3, File4>>}, c \in {5, 13, 17}}

(* A file in two or three extents, the others far longer than the header,  *)
(* as extents of nearly 4 GiB are; or, with lengths no disc should have,   *)
(* out of step with the blocks or of a single block, so that the scan      *)
(* comes back into the directory, or reads the zeros behind the last one   *)
(* from the start of a block on.                                           *)
More(el) == Kind(FALSE, TRUE, 4, el)
MultiDiscs == {Disc(<<More(64), File4>> \o t, <<File3>>, 0) : t \in SeqOf({File3}, 1)}
OddDiscs ==
    {Disc(r, s, 0) : r \in {<<More(71), File4>>,
                            <<More(8), File4, File4>>,
                            <<More(8), File4, More(8), File4>>,
                            <<File4, More(12), File4>>},
                     s \in {<<>>, <<File3>>}}
    \cup {Disc(<<File3>>, <<More(8), File4>>, 0),
          Disc(<<More(24), File3>>, <<File3>>, -16)}

(* The header has a second directory with zeros where its record should be.*)
ZeroDisc ==
    [Disc(<<File3>>, <<>>, 0) EXCEPT !.dirs = <<1, 0>>]

(* The second directory has a spare block of zeros at its end.             *)
SpareDisc ==
    LET d == Disc(<<File3>>, <<File4>>, -BlockSize)
    IN  [d EXCEPT !.at[d.dirs[2] * BlockSize].elen = @ + BlockSize]

MasteredDiscs ==
    PlainDiscs \cup CutDiscs \cup MultiDiscs \cup OddDiscs \cup {ZeroDisc, SpareDisc}

(* The extents are looked for in the middle of a record, which passes for  *)
(* the record g, and the scan goes on wherever that leads.                 *)
Garbage == {Record(20, d, m, rl, el) : d, m \in BOOLEAN, rl \in {2, 4, 7}, el \in {0, 9}}
TornDiscs ==
    {[Disc(<<More(5), File4, More(8)>>, s, 0) EXCEPT !.at = @ @@ [p \in {21} |-> g]] :
        g \in Garbage, s \in {<<>>, <<File3, File4>>}}

AllDiscs == MasteredDiscs \cup TornDiscs

(* No other header is excepted from the properties by its layout.          *)
ASSUME AllMastered == \A d \in MasteredDiscs : Mastered(d)
=============================================================================
