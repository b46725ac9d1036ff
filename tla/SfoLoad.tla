------------------------------ MODULE SfoLoad -------------------------------
(***************************************************************************)
(* load_sfo and calc_mgz_meta (src/src/sfo.c:19-158): PARAM.SFO is read    *)
(* header, index, key table, then the data of each entry; four entries are *)
(* copied into the fields of an sfo_t that nobody initialised, and the     *)
(* signature of the disc is made of the fields.                            *)
(*                                                                         *)
(* A byte is <<v, k>>, byte k of the value v; Junk is memory that nobody   *)
(* wrote.  CRC32 is taken as injective: the signature is what it sums.     *)
(***************************************************************************)
EXTENDS Integers, Sequences

CONSTANT Files  \* [entries: Seq([key, val, len]), whole: Nat]: the sections
                \* that are whole (header, index, keys, data of each entry)

ASSUME SfoAssumption ==
    /\ Files \subseteq [entries: Seq([key: STRING, val: STRING, len: Nat]),
                        whole: Nat]
    /\ \A f \in Files : \A i, j \in DOMAIN f.entries :
          f.entries[i].key = f.entries[j].key => i = j

VARIABLES file, entry,  \* the file; the index of the loop, from 1
          sfo,          \* sfo_t
          sig,          \* mgz_sig
          spc, sret

sfoVars == <<file, entry, sfo, sig, spc, sret>>

Junk == <<"junk", 0>>
Nul == <<"nul", 0>>

Unset == [title_id |-> [k \in 0 .. 9 |-> Junk], sys_ver |-> [k \in 0 .. 4 |-> Junk],
          disc_ver |-> [k \in 0 .. 5 |-> Junk], app_ver |-> [k \in 0 .. 5 |-> Junk]]

(* cur_data: malloc'ed, as long as the entry says.                         *)
Data(e, k) == IF k < e.len THEN <<e.val, k>> ELSE Junk

(* memcpy of n bytes from cur_data + from; the rest of the field stays.    *)
Copied(field, e, from, n) ==
    [k \in DOMAIN field |-> IF k < n THEN Data(e, from + k) ELSE field[k]]
EndedAt(field, n) == [field EXCEPT ![n] = Nul]

(* Versions of the system are kept without their leading zero.             *)
WholeVersion == 0                                                 \* mutant
SysFrom == 1

(* The chain of strcmp.  APP_VER ends the wrong string (sfo.c:135).        *)
Taken(e) ==
    CASE e.key = "TITLE_ID" ->
            [sfo EXCEPT !.title_id = EndedAt(Copied(@, e, 0, 9), 9)]
      [] e.key = "PS3_SYSTEM_VER" ->
            [sfo EXCEPT !.sys_ver = EndedAt(Copied(@, e, SysFrom, 4), 4)]
      [] e.key = "VERSION" ->
            [sfo EXCEPT !.disc_ver = EndedAt(Copied(@, e, 0, 5), 5)]
      [] e.key = "APP_VER" ->
            [sfo EXCEPT !.app_ver = Copied(@, e, 0, 5),
                        !.title_id = EndedAt(@, 5)]
      [] OTHER -> sfo

(* calc_mgz_meta.                                                          *)
First(field, n) == [k \in 0 .. (n - 1) |-> field[k]]
Summed(s) == <<First(s.title_id, 9), First(s.sys_ver, 4), First(s.disc_ver, 5),
               First(s.app_ver, 5)>>

-----------------------------------------------------------------------------
SfoInit ==
    /\ file \in Files
    /\ entry = 1
    /\ sfo = Unset /\ sig = <<>>
    /\ spc = "header" /\ sret = "EXIT_OK"

SfoReturn(e) == sret' = e /\ spc' = "done" /\ UNCHANGED <<entry, sfo>>

(* Sections one to three are read in a row, each into memory of its own.   *)
Section(here, n, errors, next) ==
    /\ spc = here
    /\ \/ \E e \in errors : SfoReturn(e)
       \/ file.whole < n /\ SfoReturn("F_READ_ERROR")
       \/ file.whole >= n /\ spc' = next /\ UNCHANGED <<entry, sfo, sret>>
    /\ UNCHANGED <<file, sig>>

ReadHeader == Section("header", 1, {"F_OPEN_ERROR"}, "index")
ReadIndex == Section("index", 2, {"ALLOC_ERROR"}, "keys")
ReadKeys == Section("keys", 3, {"ALLOC_ERROR"}, "entries")

(* One iteration of the loop over the index.                               *)
ReadEntry ==
    /\ spc = "entries" /\ entry \in DOMAIN file.entries
    /\ \/ \E e \in {"ALLOC_ERROR", "F_SEEK_ERROR"} : SfoReturn(e)
       \/ file.whole < 3 + entry /\ SfoReturn("F_READ_ERROR")
       \/ /\ file.whole >= 3 + entry
          /\ sfo' = Taken(file.entries[entry])
          /\ entry' = entry + 1
          /\ UNCHANGED <<spc, sret>>
    /\ UNCHANGED <<file, sig>>

Sign ==
    /\ spc = "entries" /\ entry \notin DOMAIN file.entries
    /\ sig' = Summed(sfo)
    /\ SfoReturn("EXIT_OK")
    /\ UNCHANGED file

SfoNext == ReadHeader \/ ReadIndex \/ ReadKeys \/ ReadEntry \/ Sign

-----------------------------------------------------------------------------
SfoLoaded == spc = "done" /\ sret = "EXIT_OK"

Field(n) == [0 .. n -> {<<e.val, k>> : e \in UNION {{f.entries[i] :
                              i \in DOMAIN f.entries} : f \in Files}, k \in 0 .. 9}
                       \cup {Junk, Nul}]

SfoTypeOK ==
    /\ file \in Files /\ entry \in 1 .. (Len(file.entries) + 1)
    /\ sfo \in [title_id: Field(9), sys_ver: Field(4), disc_ver: Field(5),
                app_ver: Field(5)]
    /\ spc \in {"header", "index", "keys", "entries", "done"}
    /\ sret \in {"EXIT_OK", "ALLOC_ERROR", "F_OPEN_ERROR", "F_READ_ERROR",
                 "F_SEEK_ERROR"}
    /\ sig # <<>> <=> SfoLoaded

(* What the file says of a key: n bytes of its value from `from' on.       *)
Has(f, key, len) == \E i \in DOMAIN f.entries :
                       f.entries[i].key = key /\ f.entries[i].len >= len
Place(f, key) == CHOOSE i \in DOMAIN f.entries : f.entries[i].key = key
Says(f, key, from, n) ==
    [k \in 0 .. (n - 1) |-> <<f.entries[Place(f, key)].val, from + k>>]

(* A file the signature can be made from: the four keys, long enough, and  *)
(* TITLE_ID behind APP_VER, as in the sorted files of the discs.           *)
Sound(f) ==
    /\ Has(f, "TITLE_ID", 9) /\ Has(f, "PS3_SYSTEM_VER", 5)
    /\ Has(f, "VERSION", 5) /\ Has(f, "APP_VER", 5)
    /\ Place(f, "APP_VER") < Place(f, "TITLE_ID")

TrueSig(f) == <<Says(f, "TITLE_ID", 0, 9), Says(f, "PS3_SYSTEM_VER", 1, 4),
                Says(f, "VERSION", 0, 5), Says(f, "APP_VER", 0, 5)>>
=============================================================================
