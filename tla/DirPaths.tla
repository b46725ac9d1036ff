------------------------------ MODULE DirPaths ------------------------------
(***************************************************************************)
(* init_traverse, build_dir_list, sort_dir_list and build_path             *)
(* (src/src/iso.c:105-209, 299-447, 629-690): the volume descriptor says   *)
(* where the path table of the header is; the directories are read from    *)
(* it, each with a pointer to its parent, and sorted; then the path of one *)
(* file after the other is built by following the pointers up to the root, *)
(* which is its own parent.                                                *)
(*                                                                         *)
(* A directory is known by its position in the path table.  Identifiers    *)
(* are the bytes on the disc, names and paths the bytes the code makes of  *)
(* them with the conversion of module Utf16.                               *)
(***************************************************************************)
EXTENDS Integers, Sequences, Functions, Utf16

CONSTANTS DescEnd,     \* end of the volume descriptor in the header
          RecHdr,      \* sizeof(ecma119_path_table_record_t), 8
          ByteMod,     \* 2^8: record_length, len_di and len_fi are uint8_t
          MaxFolders,  \* MAX_FOLDERS
          BufSize,     \* buffer_size of build_path, MAX_PATH_LEN
          Discs        \* path tables and files, see PathAssumption

(* A record of the path table, and a file: its directory and identifier.   *)
PathRecord == [block: Nat, parent: Nat \ {0}, id: Seq(Byte)]
File == [dir: Nat \ {0}, id: Seq(Byte)]

(* What lies behind a buffer, up to the first word that is 0, and what the *)
(* conversion makes of an identifier.                                      *)
Tails == {<<0, 0>>, <<65, 0, 0, 0>>}
Name(id, tail) == Converted(Memory(id, tail))

(* The lengths the code keeps of a converted name of n bytes; that of a    *)
(* file is taken without its ";1" (iso.c:198, 287, 598).                   *)
DirNameLen(n) == n % ByteMod
FileNameLen(n) == (n - 2) % ByteMod

ASSUME PathAssumption ==
    /\ RecHdr \in Nat \ {0} /\ RecHdr % 2 = 0
    /\ ByteMod \in Nat \ {0} /\ DescEnd \in Nat
    /\ MaxFolders \in Nat /\ BufSize \in Nat
    /\ \A d \in Discs :
          /\ d.recs \in Seq(PathRecord) /\ d.files \in Seq(File)
          /\ d.block \in Nat /\ d.loc \in Nat        \* of the descriptor
          /\ d.at \in [1 .. (Len(d.recs) + 1) -> Nat]  \* offset of each record
          /\ d.at[1] = d.loc * d.block    \* ECMA-119, 9.4.6: padded if odd
          /\ \A i \in DOMAIN d.recs :
                LET n == Len(d.recs[i].id)
                IN  d.at[i + 1] = d.at[i] + RecHdr + n + (n % 2)
          /\ d.end \in Nat                             \* end of the header
          /\ \A i \in DOMAIN d.recs : RecHdr + Len(d.recs[i].id) + 1 < ByteMod
          /\ \A i \in DOMAIN d.files :
                /\ d.files[i].dir \in DOMAIN d.recs
                /\ \A tail \in Tails :
                      LET n == Len(Name(d.files[i].id, tail))
                      IN  n >= 2 /\ FileNameLen(n) < BufSize

VARIABLES disc,
          off,       \* cur_offset of build_dir_list
          dirs,      \* the directory records, in the order they were read
          table,     \* dir_table_t: indices into dirs
          files,     \* the names of the files, as build_file_list has them
          wild,      \* identifiers whose conversion left its buffers
          fi,        \* the file whose path is built
          list,      \* path_list of build_path, its head first
          pathLen,   \* path_len
          path,      \* the buffer, when the path is complete
          pc, ret,
          badFree,   \* a directory was freed twice
          stale      \* a directory was read after it was freed

vars == <<disc, off, dirs, table, files, wild, fi, list, pathLen, path, pc, ret,
          badFree, stale>>

NoPadding(n) == (RecHdr + n) % ByteMod                             \* mutant
RecordLength(n) == LET l == (RecHdr + n) % ByteMod IN l + (l % 2)

(* The record at an offset, if one starts there: 0 if not.                 *)
RecordAt(o) ==
    IF \E i \in DOMAIN disc.recs : disc.at[i] = o
    THEN CHOOSE i \in DOMAIN disc.recs : disc.at[i] = o ELSE 0

(* A parent entered in the table when its pointer is read, or nothing yet. *)
LaterToo(i, p) == p                                               \* mutant
BeforeItself(i, p) == IF p < i THEN p ELSE 0                      \* mutant
ParentIn(i, p) == IF p <= i THEN p ELSE 0

Fail(e) == ret' = e /\ pc' = "done"

Init ==
    /\ disc \in Discs
    /\ off = 0
    /\ dirs = <<>> /\ table = <<>> /\ files = <<>> /\ wild = {}
    /\ fi = 1 /\ list = <<>> /\ pathLen = 0 /\ path = <<>>
    /\ pc = "open" /\ ret = "EXIT_OK"
    /\ badFree = FALSE /\ stale = FALSE

(* init_traverse: header and footer are opened and the descriptor is read  *)
(* from its fixed place.                                                   *)
DescFits == disc.end >= DescEnd
TableStart == disc.loc * disc.block

Open ==
    /\ pc = "open"
    /\ \/ \E e \in {"F_OPEN_ERROR", "ALLOC_ERROR", "F_SEEK_ERROR"} :
             Fail(e) /\ UNCHANGED off
       \/ ~DescFits /\ Fail("F_READ_ERROR") /\ UNCHANGED off
       \/ /\ DescFits
          /\ off' = TableStart
          /\ pc' = "read" /\ UNCHANGED ret
    /\ UNCHANGED <<disc, dirs, table, files, wild, fi, list, pathLen, path,
                   badFree, stale>>

DirName(id, tail) ==
    SubSeq(Name(id, tail), 1, DirNameLen(Len(Name(id, tail))))

(* Those of the identifiers that are converted outside of their buffers.   *)
WildIn(ids, tail) == {id \in ids : ~InBounds(id, tail)}

(* The loop of build_dir_list.  The table is not tested for being full:    *)
(* the process then writes past it.                                        *)
Reading == pc = "read" /\ off < disc.at[Len(disc.recs) + 1]

ReadDir ==
    /\ Reading /\ RecordAt(off) # 0
    /\ LET i == RecordAt(off)
           r == disc.recs[i]
           n == Len(table) + 1
       IN \/ /\ n <= MaxFolders /\ off + RecHdr + Len(r.id) <= disc.end
             /\ \E tail \in Tails :
                   /\ dirs' = Append(dirs,
                         [block |-> r.block, name |-> DirName(r.id, tail),
                          parent |-> ParentIn(n, r.parent), live |-> TRUE])
                   /\ wild' = wild \cup WildIn({r.id}, tail)
             /\ table' = Append(table, n)
             /\ off' = off + RecordLength(Len(r.id))
             /\ UNCHANGED <<pc, ret>>
          \/ /\ n > MaxFolders
             /\ pc' = "aborted" /\ UNCHANGED <<off, dirs, table, wild, ret>>
          \/ /\ off + RecHdr + Len(r.id) > disc.end
             /\ Fail("F_READ_ERROR") /\ UNCHANGED <<off, dirs, table, wild>>
          \/ /\ \E e \in {"ALLOC_ERROR", "F_SEEK_ERROR"} : Fail(e)
             /\ UNCHANGED <<off, dirs, table, wild>>
    /\ UNCHANGED <<disc, files, fi, list, pathLen, path, badFree, stale>>

(* The table is cut to its length and sorted.  A realloc that fails leaves *)
(* a null pointer, through which the records are to be freed; for an empty *)
(* table it always gives one.                                              *)
SortedTables ==
    {t \in {[i \in DOMAIN table |-> table[p[i]]] :
                p \in Bijection(DOMAIN table, DOMAIN table)} :
        \A j, k \in DOMAIN table : j < k => dirs[t[j]].block <= dirs[t[k]].block}

SortDirs ==
    /\ pc = "read" /\ ~Reading
    /\ \/ table # <<>> /\ table' \in SortedTables /\ pc' = "list" /\ UNCHANGED ret
       \/ table # <<>> /\ pc' = "aborted" /\ UNCHANGED <<table, ret>>
       \/ table = <<>> /\ Fail("ALLOC_ERROR") /\ UNCHANGED table
    /\ UNCHANGED <<disc, off, dirs, files, wild, fi, list, pathLen, path, badFree,
                   stale>>

(* build_file_list, as far as names go (module FileScan has the rest): the *)
(* names of all files are converted and lose their ";1"; those of the      *)
(* entries "." and ".." of each directory, one byte 0 and one byte 1, are  *)
(* converted too before the records are dropped.                           *)
Dots == {<<0>>, <<1>>}

FileName(id, tail) ==
    SubSeq(Name(id, tail), 1, FileNameLen(Len(Name(id, tail))))

ListFiles ==
    /\ pc = "list"
    /\ \/ \E tail \in Tails :
             /\ files' = [i \in DOMAIN disc.files |->
                            [dir |-> disc.files[i].dir,
                             name |-> FileName(disc.files[i].id, tail)]]
             /\ wild' = wild \cup
                   WildIn(Dots \cup {disc.files[i].id : i \in DOMAIN disc.files},
                          tail)
             /\ pc' = "file" /\ UNCHANGED ret
       \/ /\ \E e \in {"ALLOC_ERROR", "F_SEEK_ERROR", "F_READ_ERROR"} : Fail(e)
          /\ UNCHANGED <<files, wild>>
    /\ UNCHANGED <<disc, off, dirs, table, fi, list, pathLen, path, badFree,
                   stale>>

(* build_path starts with the directory of the file.                       *)
StartPath ==
    /\ pc = "file" /\ fi \in DOMAIN files
    /\ LET f == files[fi] IN
       \/ /\ list' = <<f.dir>>
          /\ pathLen' = Len(f.name) + 1
          /\ pc' = "climb" /\ UNCHANGED ret
       \/ Fail("ALLOC_ERROR") /\ UNCHANGED <<list, pathLen>>
    /\ UNCHANGED <<disc, off, dirs, table, files, wild, fi, path, badFree, stale>>

(* exit_linked frees the links and the directories they point at, which    *)
(* still stand in the table; no caller goes on after that.                 *)
GoesOn(e) == ret' = e /\ pc' = "built"                            \* mutant
PathFails(e) == Fail(e)

FreeLinked(e) ==
    /\ dirs' = [i \in DOMAIN dirs |->
                   IF \E k \in DOMAIN list : list[k] = i
                   THEN [dirs[i] EXCEPT !.live = FALSE] ELSE dirs[i]]
    /\ badFree' = (\E j, k \in DOMAIN list : j # k /\ list[j] = list[k])
    /\ PathFails(e)

Cur == dirs[list[1]]
ByIndex(i) == table[dirs[i].parent]                               \* mutant
Up(i) == dirs[i].parent

TooLongLater(n) == n > BufSize + 1                                \* mutant
TooLong(n) == n > BufSize

(* One iteration of the loop that collects the directories.  The pointer   *)
(* of a directory whose parent follows it in the path table is whatever    *)
(* malloc left there: null, or memory that is not a directory.             *)
AtRoot == list[1] = Up(list[1])

Climb ==
    /\ pc = "climb" /\ ~AtRoot
    /\ LET n == pathLen + Len(Cur.name) + 1
           up == Up(list[1]) IN
       \/ TooLong(n) /\ FreeLinked("PATH_BUFFER_ERROR") /\ UNCHANGED list
       \/ /\ ~TooLong(n) /\ up # 0
          /\ list' = <<up>> \o list
          /\ UNCHANGED <<dirs, badFree, pc, ret>>
       \/ /\ ~TooLong(n) /\ up # 0
          /\ FreeLinked("ALLOC_ERROR") /\ UNCHANGED list
       \/ /\ ~TooLong(n) /\ up = 0
          /\ FreeLinked("RECORD_ECMA_ERROR") /\ UNCHANGED list
       \/ /\ ~TooLong(n) /\ up = 0
          /\ pc' = "aborted" /\ UNCHANGED <<dirs, badFree, list, ret>>
    /\ pathLen' = pathLen + Len(Cur.name) + 1
    /\ stale' = (stale \/ ~Cur.live)
    /\ UNCHANGED <<disc, off, table, files, wild, fi, path>>

(* The directories are copied from the root down, each with a '/', and the *)
(* file after them.  The links are freed, the directories are not.         *)
Slash == <<47>>
Joined(names) ==
    LET Down[k \in 0 .. Len(names)] ==
            IF k = 0 THEN <<>> ELSE Down[k - 1] \o names[k] \o Slash
    IN  Down[Len(names)]

Names == [k \in DOMAIN list |-> dirs[list[k]].name]

WritePath ==
    /\ pc = "climb" /\ AtRoot
    /\ path' = Joined(Names) \o files[fi].name
    /\ pc' = "built"
    /\ stale' = (stale \/ \E k \in DOMAIN list : ~dirs[list[k]].live)
    /\ UNCHANGED <<disc, off, dirs, table, files, wild, fi, list, pathLen, ret,
                   badFree>>

(* The caller goes on to the next file of its table.                       *)
SameIndex == fi                                                   \* mutant
NextIndex == fi + 1

NextFile ==
    /\ \/ pc = "built" /\ fi' = NextIndex /\ pc' = "file"
       \/ pc = "file" /\ fi \notin DOMAIN files /\ pc' = "done"
          /\ UNCHANGED fi
    /\ UNCHANGED <<disc, off, dirs, table, files, wild, list, pathLen, path, ret,
                   badFree, stale>>

Terminated == pc \in {"done", "aborted"} /\ UNCHANGED vars

Next ==
    \/ Open \/ ReadDir \/ SortDirs \/ ListFiles \/ StartPath \/ Climb
    \/ WritePath \/ NextFile \/ Terminated

Spec == Init /\ [][Next]_vars

(* Sequential functions that are called run.                               *)
FairSpec == Spec /\ WF_vars(Next)

-----------------------------------------------------------------------------
Dir == [block: Nat, name: Seq(Byte), parent: Nat, live: BOOLEAN]

TypeOK ==
    /\ disc \in Discs
    /\ off \in Nat /\ pathLen \in Nat /\ path \in Seq(Byte)
    /\ dirs \in Seq(Dir) /\ table \in Seq(DOMAIN dirs)
    /\ files \in Seq([dir: Nat, name: Seq(Byte)])
    /\ Len(dirs) <= MaxFolders
    /\ \A i \in DOMAIN dirs : dirs[i].parent <= i
    /\ list \in Seq(DOMAIN dirs) /\ fi \in Nat \ {0}
    /\ pc \in {"climb", "built"} => list # <<>> /\ fi \in DOMAIN files
    /\ pc \in {"open", "read", "list", "file", "climb", "built", "done", "aborted"}
    /\ ret \in {"EXIT_OK", "ALLOC_ERROR", "F_OPEN_ERROR", "F_SEEK_ERROR",
                "F_READ_ERROR", "PATH_BUFFER_ERROR", "RECORD_ECMA_ERROR"}
    /\ badFree \in BOOLEAN /\ stale \in BOOLEAN

(* The path table is read record by record, to its end: the padding of a   *)
(* record of odd length is skipped, and no record is read twice or torn.   *)
TableIsComplete ==
    /\ Reading => RecordAt(off) = Len(dirs) + 1
    /\ pc \in {"list", "file", "climb", "built"} => Len(dirs) = Len(disc.recs)

(* The path of a file on the disc, from the standards: the names of its    *)
(* directories from the root down, and its own without the ";1", in UTF-8. *)
DirPath ==
    LET P[i \in DOMAIN disc.recs] ==
            (IF disc.recs[i].parent < i THEN P[disc.recs[i].parent] ELSE <<>>)
            \o Utf8(disc.recs[i].id) \o Slash
    IN  P

DiscPath(f) ==
    LET name == Utf8(f.id)
    IN  DirPath[f.dir] \o SubSeq(name, 1, Len(name) - 2)

(* Names the conversion is right for: UTF-16 without characters beyond the *)
(* 16-bit ones, and of a length that fits the code's 8 bits.               *)
Faithful(id, extra) ==
    IsUtf16(id) /\ ~HasPair(id) /\ Len(Utf8(id)) - extra < ByteMod

(* A path that is built is that of the disc: the parents are found by      *)
(* pointers that were set before the table was sorted, every byte of every *)
(* name is converted as UTF-8 has it, nothing is cut but the ";1".         *)
PathIsOfDisc ==
    (/\ pc = "built" /\ Faithful(disc.files[fi].id, 2)
     /\ \A k \in DOMAIN list : Faithful(disc.recs[list[k]].id, 0))
    => path = DiscPath(disc.files[fi])

(* The two buffers of a conversion are large enough for every identifier   *)
(* that is UTF-16; the one that is not, the byte 1 of each "..", is read   *)
(* past the end of its buffer.                                             *)
NamesStayInBounds ==
    \A id \in wild : Len(id) % 2 = 1 /\ id[Len(id)] # 0

(* The test of the length (iso.c:376) does not count the root and its '/': *)
(* a path that passes it overruns the buffer by that one byte at most, and *)
(* only when the test is met exactly.                                      *)
OverrunsByTheSlash ==
    pc = "built" /\ dirs[list[1]].name = <<>> =>
        /\ Len(path) + 1 <= BufSize + 1
        /\ Len(path) + 1 > BufSize => pathLen = BufSize

ParentsFirst ==
    \A i \in DOMAIN disc.recs :
       disc.recs[i].parent < i \/ (i = 1 /\ disc.recs[i].parent = i)

(* A pointer only leads to an earlier record, or to the record itself, so  *)
(* a path that is refused frees each of its directories once, on any disc; *)
(* and no directory is read after it was freed.                            *)
FreedOnceAndLast == ~badFree /\ ~stale

(* With the order that ECMA-119 asks for, parents first, the process never *)
(* dies while a path is built, but only for a table that is too long or    *)
(* cannot be cut to size.                                                  *)
DiesOnlyInTable ==
    (pc = "aborted" /\ ParentsFirst) =>
        /\ list = <<>>
        /\ Len(dirs) = MaxFolders \/ ~(off < disc.at[Len(disc.recs) + 1])

(* Every path is built or refused, and the last file is reached.           *)
PathsEnd == <>(pc \in {"done", "aborted"})
=============================================================================
