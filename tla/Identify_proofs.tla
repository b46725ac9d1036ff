--------------------------- MODULE Identify_proofs ---------------------------
(***************************************************************************)
(* Proofs about Identify, for every PARAM.SFO and every answer of the      *)
(* archive: the signature is that of the disc for the files that can give  *)
(* it and for no other, and what is fetched is what the answer names, in   *)
(* whatever pieces it arrives.                                             *)
(***************************************************************************)
EXTENDS Identify, FiniteSetTheorems, WellFoundedInduction, TLAPS

-----------------------------------------------------------------------------
(* What the loop over the entries of f made of a field before entry n.     *)
Done(f, n, key, i) ==
    f.entries[i].key = key /\ i < n
NotYet(f, n, key) == \A i \in DOMAIN f.entries : ~Done(f, n, key, i)

(* `len' bytes of an entry's data, from `from' on; or nothing yet.         *)
FieldRead(f, n, field, key, from, len) ==
    /\ \A i \in DOMAIN f.entries : Done(f, n, key, i) =>
                 \A k \in 0 .. (len - 1) : field[k] = Data(f.entries[i], from + k)
    /\ NotYet(f, n, key) => \A k \in 0 .. (len - 1) : field[k] = Junk

(* APP_VER ends the title too: whichever comes later has its way.          *)
TitleCut(f, n) ==
    \E a \in DOMAIN f.entries :
       /\ Done(f, n, "APP_VER", a)
       /\ \A t \in DOMAIN f.entries : Done(f, n, "TITLE_ID", t) => t < a

TitleRead(f, n, title) ==
    /\ TitleCut(f, n) => title[5] = Nul
    /\ \A k \in 0 .. 8 : k # 5 \/ ~TitleCut(f, n) =>
          /\ \A t \in DOMAIN f.entries :
                Done(f, n, "TITLE_ID", t) => title[k] = Data(f.entries[t], k)
          /\ NotYet(f, n, "TITLE_ID") => title[k] = Junk

FieldsRead ==
    /\ FieldRead(file, entry, sfo.sys_ver, "PS3_SYSTEM_VER", SysFrom, 4)
    /\ FieldRead(file, entry, sfo.disc_ver, "VERSION", 0, 5)
    /\ FieldRead(file, entry, sfo.app_ver, "APP_VER", 0, 5)
    /\ TitleRead(file, entry, sfo.title_id)
    /\ NotYet(file, entry, "PS3_SYSTEM_VER") \/ sfo.sys_ver[4] = Nul
    /\ spc \in {"header", "index", "keys"} => entry = 1
    /\ SfoLoaded => sig = Summed(sfo) /\ entry \notin DOMAIN file.entries

(* What of the answer has arrived, and what is made of it.                 *)
Received ==
    /\ body \in Replies \cup {<<>>}
    /\ \A k \in 0 .. (sent - 1) : mem[k] = body[k + 1]
    /\ sent = 0 => mem[0] \in {Garbage, Zero}

IsNamed == body \in Answers(sig) /\ HasLine(body)

Stages ==
    /\ pc \in {"sfo", "ird"} => npc = "idle" /\ sent = 0
    /\ pc = "ird" => ~opt.given
    /\ pc \in {"fetchIrd", "fetchPup"} /\ npc = "aborted" => Len(body) >= BufSize
    /\ pc = "killed" => Len(body) >= BufSize
    /\ pc = "fetchIrd" =>
          /\ ~opt.given /\ dst = "ird" /\ npc # "idle"
          /\ npc \in {"answer", "get"} => body \in Answers(sig)
          /\ npc = "get" /\ address \in Served =>
                IsNamed /\ address = <<"ird", FirstLine(body)>>
          /\ npc = "done" /\ nret = "EXIT_OK" =>
                IsNamed /\ disk["ird"] = <<"ird", FirstLine(body)>>
    /\ pc \in {"pup", "fetchPup", "load"} /\ ~opt.given =>
          IsNamed /\ disk["ird"] = <<"ird", FirstLine(body)>>
    /\ pc = "pup" => npc = "idle"
    /\ pc = "fetchPup" =>
          /\ dst = "pup" /\ npc \in {"get", "done"}
          /\ npc = "get" => address = <<"pup", PrintOf(sfo.sys_ver)>>
          /\ npc = "done" /\ nret = "EXIT_OK" =>
                disk["pup"] = <<"pup", PrintOf(sfo.sys_ver)>>
    /\ pc = "load" /\ opt.getPup => disk["pup"] = <<"pup", PrintOf(sfo.sys_ver)>>

NamedAfter ==
    /\ DOMAIN disk = {"ird", "pup"}
    /\ outName # <<>> => SfoLoaded /\ outName = NameOf(sfo.title_id)

Inv == TypeOK /\ FieldsRead /\ Received /\ Stages /\ NamedAfter

-----------------------------------------------------------------------------
(* The bytes a field may have, and one copied from an entry.               *)
Entries == UNION {{f.entries[i] : i \in DOMAIN f.entries} : f \in Files}
Bytes == {<<e.val, k>> : e \in Entries, k \in 0 .. 9} \cup {Junk, Nul}

LEMMA FieldIs == \A n \in Nat : Field(n) = [0 .. n -> Bytes]
BY DEF Field, Bytes, Entries

LEMMA FileType ==
    ASSUME file \in Files
    PROVE  /\ file.entries \in Seq([key: STRING, val: STRING, len: Nat])
           /\ \A i \in DOMAIN file.entries :
                 file.entries[i] \in Entries /\ file.entries[i].len \in Nat
           /\ \A i, j \in DOMAIN file.entries :
                 file.entries[i].key = file.entries[j].key => i = j
<1>. DEFINE R == [key: STRING, val: STRING, len: Nat]
<1>1. file.entries \in Seq(R)
  BY SfoAssumption
<1>2. \A i \in DOMAIN file.entries : file.entries[i] \in Entries
  BY DEF Entries
<1>3. ASSUME NEW i \in DOMAIN file.entries PROVE file.entries[i].len \in Nat
  <2>1. file.entries[i] \in R
    <3>. HIDE DEF R
    <3>. QED BY <1>1
  <2>. QED BY <2>1
<1>4. \A i, j \in DOMAIN file.entries :
         file.entries[i].key = file.entries[j].key => i = j
  BY SfoAssumption
<1>. QED BY <1>1, <1>2, <1>3, <1>4

LEMMA DataType ==
    ASSUME file \in Files, NEW i \in DOMAIN file.entries, NEW k \in 0 .. 9
    PROVE  Data(file.entries[i], k) \in Bytes
BY FileType DEF Data, Bytes

(* After an entry was taken, each field is as the loop has left it.        *)
LEMMA TakeStep ==
    ASSUME SfoTypeOK, FieldsRead, entry \in DOMAIN file.entries,
           spc = "entries", sfo' = Taken(file.entries[entry]), entry' = entry + 1,
           UNCHANGED <<file, sig, spc, sret>>
    PROVE  SfoTypeOK' /\ FieldsRead'
<1>. DEFINE e == file.entries[entry]
<1>1. file \in Files /\ entry \in Nat \ {0}
  BY FileType DEF SfoTypeOK
<1>2. /\ sfo \in [title_id: [0 .. 9 -> Bytes], sys_ver: [0 .. 4 -> Bytes],
                  disc_ver: [0 .. 5 -> Bytes], app_ver: [0 .. 5 -> Bytes]]
  BY FieldIs DEF SfoTypeOK
<1>3. /\ sfo.title_id \in [0 .. 9 -> Bytes] /\ sfo.sys_ver \in [0 .. 4 -> Bytes]
      /\ sfo.disc_ver \in [0 .. 5 -> Bytes] /\ sfo.app_ver \in [0 .. 5 -> Bytes]
  BY <1>2
<1>4. PICK K : K = e.key
  OBVIOUS
<1>5. \A i \in DOMAIN file.entries : i \in Nat
  BY <1>1, FileType
<1>6. /\ NotYet(file, entry, K) /\ ~NotYet(file, entry + 1, K)
      /\ \A i \in DOMAIN file.entries : Done(file, entry + 1, K, i) <=> i = entry
  <2>1. \A i \in DOMAIN file.entries : file.entries[i].key = K => i = entry
    BY <1>1, <1>4, FileType
  <2>2. entry \in DOMAIN file.entries /\ file.entries[entry].key = K
    BY <1>4
  <2>3. \A i \in DOMAIN file.entries : Done(file, entry + 1, K, i) <=> i = entry
    BY <1>1, <2>1, <2>2 DEF Done
  <2>4. NotYet(file, entry, K)
    BY <1>1, <2>1 DEF NotYet, Done
  <2>. QED BY <2>2, <2>3, <2>4 DEF NotYet
<1>7. ASSUME NEW key, key # K
      PROVE  /\ \A i \in DOMAIN file.entries :
                   Done(file, entry + 1, key, i) <=> Done(file, entry, key, i)
             /\ NotYet(file, entry + 1, key) <=> NotYet(file, entry, key)
  BY <1>1, <1>4, <1>5, <1>7 DEF NotYet, Done
<1>8. e \in Entries /\ \A k \in 0 .. 9 : Data(e, k) \in Bytes
  BY <1>1, FileType, DataType
<1>9. /\ K = "PS3_SYSTEM_VER" => FieldRead(file, entry + 1, sfo'.sys_ver, "PS3_SYSTEM_VER", SysFrom, 4)
                                 /\ sfo'.sys_ver \in [0 .. 4 -> Bytes]
                                 /\ sfo'.sys_ver[4] = Nul
                                 /\ sfo' = [sfo EXCEPT !.sys_ver = sfo'.sys_ver]
      /\ K # "PS3_SYSTEM_VER" => sfo'.sys_ver = sfo.sys_ver
  <2>1. CASE K = "PS3_SYSTEM_VER"
    <3>. DEFINE f == Copied(sfo.sys_ver, e, 1, 4)
    <3>1. sfo' = [sfo EXCEPT !.sys_ver = EndedAt(f, 4)]
      BY <1>4, <2>1 DEF Taken, SysFrom
    <3>2. sfo'.sys_ver = EndedAt(f, 4)
      BY <1>2, <3>1
    <3>3. f \in [0 .. 4 -> Bytes] /\ \A k \in 0 .. 3 : f[k] = Data(e, 1 + k)
      BY <1>3, <1>8 DEF Copied
    <3>. HIDE DEF f
    <3>4. sfo'.sys_ver \in [0 .. 4 -> Bytes] /\ sfo'.sys_ver[4] = Nul
          /\ \A k \in 0 .. 3 : sfo'.sys_ver[k] = Data(e, 1 + k)
      BY <3>2, <3>3 DEF EndedAt, Bytes
    <3>5. FieldRead(file, entry + 1, sfo'.sys_ver, "PS3_SYSTEM_VER", SysFrom, 4)
      BY <1>6, <2>1, <3>4 DEF FieldRead, SysFrom
    <3>. QED BY <3>1, <3>2, <2>1, <3>4, <3>5
  <2>2. CASE K # "PS3_SYSTEM_VER"
    BY <1>2, <1>4, <2>2 DEF Taken
  <2>. QED BY <2>1, <2>2
<1>10. /\ K = "VERSION" => FieldRead(file, entry + 1, sfo'.disc_ver, "VERSION", 0, 5)
                           /\ sfo'.disc_ver \in [0 .. 5 -> Bytes]
                           /\ sfo' = [sfo EXCEPT !.disc_ver = sfo'.disc_ver]
       /\ K # "VERSION" => sfo'.disc_ver = sfo.disc_ver
  <2>1. CASE K = "VERSION"
    <3>. DEFINE f == Copied(sfo.disc_ver, e, 0, 5)
    <3>1. sfo' = [sfo EXCEPT !.disc_ver = EndedAt(f, 5)]
      BY <1>4, <2>1 DEF Taken
    <3>2. sfo'.disc_ver = EndedAt(f, 5)
      BY <1>2, <3>1
    <3>3. f \in [0 .. 5 -> Bytes] /\ \A k \in 0 .. 4 : f[k] = Data(e, 0 + k)
      BY <1>3, <1>8 DEF Copied
    <3>. HIDE DEF f
    <3>4. sfo'.disc_ver \in [0 .. 5 -> Bytes]
          /\ \A k \in 0 .. 4 : sfo'.disc_ver[k] = Data(e, 0 + k)
      BY <3>2, <3>3 DEF EndedAt, Bytes
    <3>5. FieldRead(file, entry + 1, sfo'.disc_ver, "VERSION", 0, 5)
      BY <1>6, <2>1, <3>4 DEF FieldRead
    <3>. QED BY <3>1, <3>2, <2>1, <3>4, <3>5
  <2>2. CASE K # "VERSION"
    BY <1>2, <1>4, <2>2 DEF Taken
  <2>. QED BY <2>1, <2>2
<1>11. /\ K = "APP_VER" => FieldRead(file, entry + 1, sfo'.app_ver, "APP_VER", 0, 5)
                           /\ sfo'.app_ver \in [0 .. 5 -> Bytes]
                           /\ sfo'.title_id = EndedAt(sfo.title_id, 5)
                           /\ sfo' = [sfo EXCEPT !.app_ver = sfo'.app_ver,
                                                 !.title_id = sfo'.title_id]
       /\ K # "APP_VER" => sfo'.app_ver = sfo.app_ver
  <2>1. CASE K = "APP_VER"
    <3>. DEFINE f == Copied(sfo.app_ver, e, 0, 5)
    <3>1. sfo' = [sfo EXCEPT !.app_ver = f, !.title_id = EndedAt(sfo.title_id, 5)]
      BY <1>4, <2>1 DEF Taken
    <3>2. sfo'.app_ver = f /\ sfo'.title_id = EndedAt(sfo.title_id, 5)
      BY <1>2, <3>1
    <3>3. f \in [0 .. 5 -> Bytes] /\ \A k \in 0 .. 4 : f[k] = Data(e, 0 + k)
      BY <1>3, <1>8 DEF Copied
    <3>. HIDE DEF f
    <3>5. FieldRead(file, entry + 1, sfo'.app_ver, "APP_VER", 0, 5)
      BY <1>6, <2>1, <3>2, <3>3 DEF FieldRead
    <3>. QED BY <3>1, <3>2, <2>1, <3>3, <3>5
  <2>2. CASE K # "APP_VER"
    BY <1>2, <1>4, <2>2 DEF Taken
  <2>. QED BY <2>1, <2>2
<1>12. /\ K = "TITLE_ID" => /\ sfo'.title_id \in [0 .. 9 -> Bytes]
                            /\ \A k \in 0 .. 8 : sfo'.title_id[k] = Data(e, k)
                            /\ sfo' = [sfo EXCEPT !.title_id = sfo'.title_id]
       /\ K \notin {"TITLE_ID", "APP_VER"} => sfo'.title_id = sfo.title_id
  <2>1. CASE K = "TITLE_ID"
    <3>. DEFINE f == Copied(sfo.title_id, e, 0, 9)
    <3>1. sfo' = [sfo EXCEPT !.title_id = EndedAt(f, 9)]
      BY <1>4, <2>1 DEF Taken
    <3>2. sfo'.title_id = EndedAt(f, 9)
      BY <1>2, <3>1
    <3>3. f \in [0 .. 9 -> Bytes] /\ \A k \in 0 .. 8 : f[k] = Data(e, 0 + k)
      BY <1>3, <1>8 DEF Copied
    <3>. HIDE DEF f
    <3>. QED BY <3>1, <3>2, <2>1, <3>3 DEF EndedAt, Bytes
  <2>2. CASE K \notin {"TITLE_ID", "APP_VER"}
    BY <1>2, <1>4, <2>2 DEF Taken
  <2>. QED BY <2>1, <2>2
<1>13. K \notin {"TITLE_ID", "PS3_SYSTEM_VER", "VERSION", "APP_VER"} => sfo' = sfo
  BY <1>4 DEF Taken
<1>14. sfo'.title_id \in [0 .. 9 -> Bytes]
  <2>1. EndedAt(sfo.title_id, 5) \in [0 .. 9 -> Bytes]
    BY <1>3 DEF EndedAt, Bytes
  <2>. QED BY <1>3, <1>11, <1>12, <2>1
<1>15. sfo' \in [title_id: [0 .. 9 -> Bytes], sys_ver: [0 .. 4 -> Bytes],
                 disc_ver: [0 .. 5 -> Bytes], app_ver: [0 .. 5 -> Bytes]]
  <2>1. CASE K = "TITLE_ID"
    BY <1>2, <1>12, <1>14, <2>1
  <2>2. CASE K = "PS3_SYSTEM_VER"
    BY <1>2, <1>9, <2>2
  <2>3. CASE K = "VERSION"
    BY <1>2, <1>10, <2>3
  <2>4. CASE K = "APP_VER"
    BY <1>2, <1>11, <1>14, <2>4
  <2>. QED BY <1>2, <1>13, <2>1, <2>2, <2>3, <2>4
<1>16. SfoTypeOK'
  <2>1. entry' \in 1 .. (Len(file.entries) + 1)
    BY <1>1, FileType
  <2>. QED BY <1>1, <1>15, <2>1, FieldIs DEF SfoTypeOK, SfoLoaded
<1>17. FieldRead(file, entry + 1, sfo'.sys_ver, "PS3_SYSTEM_VER", SysFrom, 4)
  <2>1. CASE K # "PS3_SYSTEM_VER"
    BY <1>7, <1>9, <2>1 DEF FieldsRead, FieldRead, SysFrom
  <2>. QED BY <1>9, <2>1
<1>18. FieldRead(file, entry + 1, sfo'.disc_ver, "VERSION", 0, 5)
  <2>1. CASE K # "VERSION"
    BY <1>7, <1>10, <2>1 DEF FieldsRead, FieldRead
  <2>. QED BY <1>10, <2>1
<1>19. FieldRead(file, entry + 1, sfo'.app_ver, "APP_VER", 0, 5)
  <2>1. CASE K # "APP_VER"
    BY <1>7, <1>11, <2>1 DEF FieldsRead, FieldRead
  <2>. QED BY <1>11, <2>1
<1>20. TitleRead(file, entry + 1, sfo'.title_id)
  <2>0. TitleRead(file, entry, sfo.title_id)
    BY DEF FieldsRead
  <2>1. CASE K = "TITLE_ID"
    <3>1. ~TitleCut(file, entry + 1)
      BY <1>1, <1>5, <1>6, <2>1 DEF TitleCut, Done
    <3>. QED BY <1>6, <1>12, <2>1, <3>1 DEF TitleRead
  <2>2. CASE K = "APP_VER"
    <3>1. /\ sfo'.title_id[5] = Nul
          /\ \A k \in 0 .. 8 : k # 5 => sfo'.title_id[k] = sfo.title_id[k]
      BY <1>3, <1>11, <2>2 DEF EndedAt
    <3>2. TitleCut(file, entry + 1)
      <4>1. \A t \in DOMAIN file.entries : Done(file, entry + 1, "TITLE_ID", t) => t < entry
        BY <1>7, <2>2 DEF Done
      <4>. QED BY <1>6, <2>2, <4>1 DEF TitleCut
    <3>3. /\ \A i \in DOMAIN file.entries :
                Done(file, entry + 1, "TITLE_ID", i) <=> Done(file, entry, "TITLE_ID", i)
          /\ NotYet(file, entry + 1, "TITLE_ID") <=> NotYet(file, entry, "TITLE_ID")
      BY <1>7, <2>2
    <3>. QED BY <2>0, <3>1, <3>2, <3>3 DEF TitleRead
  <2>3. CASE K \notin {"TITLE_ID", "APP_VER"}
    <3>1. \A key \in {"TITLE_ID", "APP_VER"} :
             /\ \A i \in DOMAIN file.entries :
                   Done(file, entry + 1, key, i) <=> Done(file, entry, key, i)
             /\ NotYet(file, entry + 1, key) <=> NotYet(file, entry, key)
      BY <1>7, <2>3
    <3>2. TitleCut(file, entry + 1) <=> TitleCut(file, entry)
      BY <3>1 DEF TitleCut
    <3>. QED BY <1>12, <2>0, <2>3, <3>1, <3>2 DEF TitleRead
  <2>. QED BY <2>1, <2>2, <2>3
<1>21. NotYet(file, entry + 1, "PS3_SYSTEM_VER") \/ sfo'.sys_ver[4] = Nul
  <2>1. CASE K # "PS3_SYSTEM_VER"
    BY <1>7, <1>9, <2>1 DEF FieldsRead
  <2>. QED BY <1>9, <2>1
<1>. QED BY <1>16, <1>17, <1>18, <1>19, <1>20, <1>21 DEF FieldsRead, SfoLoaded

LEMMA SfoStart == SfoInit => SfoTypeOK /\ FieldsRead
<1>. SUFFICES ASSUME SfoInit PROVE SfoTypeOK /\ FieldsRead
  OBVIOUS
<1>1. file \in Files /\ entry = 1 /\ sfo = Unset /\ spc = "header" /\ sig = <<>>
      /\ sret = "EXIT_OK"
  BY DEF SfoInit
<1>2. Unset \in [title_id: [0 .. 9 -> Bytes], sys_ver: [0 .. 4 -> Bytes],
                 disc_ver: [0 .. 5 -> Bytes], app_ver: [0 .. 5 -> Bytes]]
  BY DEF Unset, Bytes
<1>3. SfoTypeOK
  <2>1. entry \in 1 .. (Len(file.entries) + 1)
    BY <1>1, FileType
  <2>. QED BY <1>1, <1>2, <2>1, FieldIs DEF SfoTypeOK, SfoLoaded
<1>4. ASSUME NEW key
      PROVE  /\ \A i \in DOMAIN file.entries : ~Done(file, entry, key, i)
             /\ NotYet(file, entry, key)
  <2>1. \A i \in DOMAIN file.entries : i \in Nat /\ i >= 1
    BY <1>1, FileType
  <2>. QED BY <1>1, <2>1 DEF Done, NotYet
<1>5. /\ \A k \in 0 .. 9 : sfo.title_id[k] = Junk
      /\ \A k \in 0 .. 4 : sfo.sys_ver[k] = Junk
      /\ \A k \in 0 .. 5 : sfo.disc_ver[k] = Junk /\ sfo.app_ver[k] = Junk
  BY <1>1 DEF Unset
<1>6. FieldRead(file, entry, sfo.sys_ver, "PS3_SYSTEM_VER", SysFrom, 4)
  BY <1>4, <1>5 DEF FieldRead
<1>7. FieldRead(file, entry, sfo.disc_ver, "VERSION", 0, 5)
  BY <1>4, <1>5 DEF FieldRead
<1>8. FieldRead(file, entry, sfo.app_ver, "APP_VER", 0, 5)
  BY <1>4, <1>5 DEF FieldRead
<1>9. TitleRead(file, entry, sfo.title_id)
  BY <1>4, <1>5 DEF TitleRead, TitleCut
<1>. QED BY <1>1, <1>3, <1>4, <1>6, <1>7, <1>8, <1>9 DEF FieldsRead, SfoLoaded

LEMMA SfoStep ==
    ASSUME SfoTypeOK, FieldsRead, SfoNext
    PROVE  SfoTypeOK' /\ FieldsRead' /\ file' = file /\ ~SfoLoaded
<1>1. CASE /\ spc \in {"header", "index", "keys", "entries"}
           /\ \E e \in {"ALLOC_ERROR", "F_OPEN_ERROR", "F_READ_ERROR",
                         "F_SEEK_ERROR"} : SfoReturn(e)
           /\ UNCHANGED <<file, sig>>
  BY <1>1 DEF SfoReturn, SfoTypeOK, FieldsRead, SfoLoaded
<1>2. CASE /\ spc \in {"header", "index", "keys"}
           /\ spc' \in {"index", "keys", "entries"}
           /\ UNCHANGED <<file, sig, entry, sfo, sret>>
  BY <1>2 DEF SfoTypeOK, FieldsRead, SfoLoaded
<1>3. CASE ReadHeader
  BY <1>1, <1>2, <1>3 DEF ReadHeader, Section
<1>4. CASE ReadIndex
  BY <1>1, <1>2, <1>4 DEF ReadIndex, Section
<1>5. CASE ReadKeys
  BY <1>1, <1>2, <1>5 DEF ReadKeys, Section
<1>6. CASE ReadEntry
  <2>1. CASE /\ sfo' = Taken(file.entries[entry]) /\ entry' = entry + 1
             /\ UNCHANGED <<spc, sret>>
    BY <1>6, <2>1, TakeStep DEF ReadEntry, SfoLoaded
  <2>. QED BY <1>1, <1>6, <2>1 DEF ReadEntry
<1>7. CASE Sign
  <2>1. Summed(sfo) # <<>>
    BY DEF Summed
  <2>. QED BY <1>7, <2>1 DEF Sign, SfoReturn, SfoTypeOK, FieldsRead, SfoLoaded
<1>. QED BY <1>3, <1>4, <1>5, <1>6, <1>7 DEF SfoNext

-----------------------------------------------------------------------------
(* Once all entries were taken.                                            *)
LEMMA AllDone ==
    ASSUME SfoTypeOK, FieldsRead, SfoLoaded
    PROVE  /\ file \in Files /\ sig = Summed(sfo)
           /\ \A i \in DOMAIN file.entries : i \in Nat /\ i < entry
<1>1. file \in Files /\ sig = Summed(sfo) /\ entry \notin DOMAIN file.entries
      /\ entry \in 1 .. (Len(file.entries) + 1)
  BY DEF SfoTypeOK, FieldsRead
<1>2. file.entries \in Seq([key: STRING, val: STRING, len: Nat])
  BY <1>1, FileType
<1>3. Len(file.entries) \in Nat /\ DOMAIN file.entries = 1 .. Len(file.entries)
  BY <1>2
<1>. QED BY <1>1, <1>3

LEMMA PlaceIs ==
    ASSUME SfoTypeOK, FieldsRead, SfoLoaded,
           NEW key, NEW i \in DOMAIN file.entries, file.entries[i].key = key
    PROVE  Place(file, key) = i /\ Done(file, entry, key, i)
           /\ ~NotYet(file, entry, key)
<1>1. \A j \in DOMAIN file.entries : file.entries[j].key = key => j = i
  BY AllDone, FileType
<1>2. Done(file, entry, key, i)
  BY AllDone DEF Done
<1>. QED BY <1>1, <1>2 DEF Place, NotYet

(* The bytes of an entry are the disc's as far as it reaches.              *)
LEMMA SaysData ==
    ASSUME SfoTypeOK, FieldsRead, SfoLoaded,
           NEW key, NEW len \in Nat, Has(file, key, len),
           NEW from \in Nat, NEW n \in Nat, from + n <= len
    PROVE  /\ Place(file, key) \in DOMAIN file.entries
           /\ file.entries[Place(file, key)].key = key
           /\ \A k \in 0 .. (n - 1) :
                 Says(file, key, from, n)[k] = Data(file.entries[Place(file, key)], from + k)
<1>1. PICK i \in DOMAIN file.entries :
         file.entries[i].key = key /\ file.entries[i].len >= len
  BY DEF Has
<1>2. Place(file, key) = i
  BY <1>1, PlaceIs
<1>3. file.entries[i].len \in Nat
  BY AllDone, FileType
<1>4. ASSUME NEW k \in 0 .. (n - 1)
      PROVE  Says(file, key, from, n)[k] = Data(file.entries[i], from + k)
  <2>1. from + k < file.entries[i].len
    BY <1>1, <1>3
  <2>. QED BY <1>2, <2>1 DEF Says, Data
<1>. QED BY <1>1, <1>2, <1>4

LEMMA SoundSig ==
    ASSUME SfoTypeOK, FieldsRead, SfoLoaded, Sound(file)
    PROVE  /\ sig = TrueSig(file)
           /\ NameOf(sfo.title_id) = NameOf(Says(file, "TITLE_ID", 0, 9))
           /\ PrintOf(sfo.sys_ver) = Says(file, "PS3_SYSTEM_VER", 1, 4)
<1>. DEFINE title == Says(file, "TITLE_ID", 0, 9)
            sys   == Says(file, "PS3_SYSTEM_VER", 1, 4)
            disc  == Says(file, "VERSION", 0, 5)
            app   == Says(file, "APP_VER", 0, 5)
<1>1. \A k \in 0 .. 3 : sfo.sys_ver[k] = sys[k]
  <2>. DEFINE p == Place(file, "PS3_SYSTEM_VER")
  <2>1. /\ p \in DOMAIN file.entries /\ file.entries[p].key = "PS3_SYSTEM_VER"
        /\ \A k \in 0 .. (4 - 1) : sys[k] = Data(file.entries[p], 1 + k)
    BY SaysData DEF Sound
  <2>2. Done(file, entry, "PS3_SYSTEM_VER", p)
    BY <2>1, PlaceIs
  <2>. HIDE DEF p, sys
  <2>. QED BY <2>1, <2>2 DEF FieldsRead, FieldRead, SysFrom
<1>2. \A k \in 0 .. 4 : sfo.disc_ver[k] = disc[k]
  <2>. DEFINE p == Place(file, "VERSION")
  <2>1. /\ p \in DOMAIN file.entries /\ file.entries[p].key = "VERSION"
        /\ \A k \in 0 .. (5 - 1) : disc[k] = Data(file.entries[p], 0 + k)
    BY SaysData DEF Sound
  <2>2. Done(file, entry, "VERSION", p)
    BY <2>1, PlaceIs
  <2>. HIDE DEF p, disc
  <2>. QED BY <2>1, <2>2 DEF FieldsRead, FieldRead
<1>3. \A k \in 0 .. 4 : sfo.app_ver[k] = app[k]
  <2>. DEFINE p == Place(file, "APP_VER")
  <2>1. /\ p \in DOMAIN file.entries /\ file.entries[p].key = "APP_VER"
        /\ \A k \in 0 .. (5 - 1) : app[k] = Data(file.entries[p], 0 + k)
    BY SaysData DEF Sound
  <2>2. Done(file, entry, "APP_VER", p)
    BY <2>1, PlaceIs
  <2>. HIDE DEF p, app
  <2>. QED BY <2>1, <2>2 DEF FieldsRead, FieldRead
<1>4. \A k \in 0 .. 8 : sfo.title_id[k] = title[k]
  <2>. DEFINE p == Place(file, "TITLE_ID")
  <2>1. /\ p \in DOMAIN file.entries /\ file.entries[p].key = "TITLE_ID"
        /\ \A k \in 0 .. (9 - 1) : title[k] = Data(file.entries[p], 0 + k)
    BY SaysData DEF Sound
  <2>2. Done(file, entry, "TITLE_ID", p) /\ p \in Nat
    BY <2>1, PlaceIs, AllDone
  <2>3. ~TitleCut(file, entry)
    <3>. SUFFICES ASSUME NEW a \in DOMAIN file.entries, Done(file, entry, "APP_VER", a),
                         p < a
                  PROVE  FALSE
      BY <2>1, <2>2 DEF TitleCut
    <3>1. Place(file, "APP_VER") = a /\ a \in Nat
      BY PlaceIs, AllDone DEF Done
    <3>. QED BY <2>2, <3>1 DEF Sound
  <2>. HIDE DEF p, title
  <2>. QED BY <2>1, <2>2, <2>3 DEF FieldsRead, TitleRead
<1>5. /\ First(sfo.title_id, 9) = title /\ First(sfo.sys_ver, 4) = sys
      /\ First(sfo.disc_ver, 5) = disc /\ First(sfo.app_ver, 5) = app
  BY <1>1, <1>2, <1>3, <1>4 DEF First, Says
<1>6. sig = TrueSig(file)
  BY <1>5, AllDone DEF Summed, TrueSig
<1>7. NameOf(sfo.title_id) = NameOf(title)
  <2>. HIDE DEF title
  <2>. QED BY <1>4 DEF NameOf
<1>8. PrintOf(sfo.sys_ver) = sys
  <2>1. sfo.sys_ver \in [0 .. 4 -> Bytes]
    BY FieldIs DEF SfoTypeOK
  <2>2. sfo.sys_ver[4] = Nul
    <3>1. ~NotYet(file, entry, "PS3_SYSTEM_VER")
      <4>1. PICK i \in DOMAIN file.entries : file.entries[i].key = "PS3_SYSTEM_VER"
        BY DEF Sound, Has
      <4>. QED BY <4>1, PlaceIs
    <3>. QED BY <3>1 DEF FieldsRead
  <2>3. \A k \in 0 .. 3 : sfo.sys_ver[k] # Nul
    BY <1>1 DEF Says, Nul
  <2>4. Text(sfo.sys_ver) = 0 .. 3
    BY <2>1, <2>2, <2>3 DEF Text
  <2>. QED BY <1>1, <2>4 DEF PrintOf, Says
<1>. QED BY <1>6, <1>7, <1>8

(* A key that is missing, or too short, leaves a byte nobody wrote.        *)
LEMMA ShortKey ==
    ASSUME SfoTypeOK, FieldsRead, SfoLoaded,
           NEW key, NEW from \in Nat, NEW n \in Nat \ {0}, NEW len, len = from + n,
           ~Has(file, key, len)
    PROVE  \/ NotYet(file, entry, key)
           \/ \E i \in DOMAIN file.entries :
                 /\ Done(file, entry, key, i)
                 /\ Data(file.entries[i], from + (n - 1)) = Junk
<1>1. CASE \E i \in DOMAIN file.entries : file.entries[i].key = key
  <2>1. PICK i \in DOMAIN file.entries : file.entries[i].key = key
    BY <1>1
  <2>2. file.entries[i].len \in Nat /\ ~(file.entries[i].len >= len)
    BY <2>1, AllDone, FileType DEF Has
  <2>3. ~(from + (n - 1) < file.entries[i].len)
    BY <2>2
  <2>. QED BY <2>1, <2>3, PlaceIs DEF Data
<1>2. CASE ~\E i \in DOMAIN file.entries : file.entries[i].key = key
  BY <1>2 DEF NotYet, Done
<1>. QED BY <1>1, <1>2

LEMMA UnsoundSig ==
    ASSUME SfoTypeOK, FieldsRead, SfoLoaded, ~Sound(file)
    PROVE  \E i \in 1 .. 4 : \E k \in DOMAIN sig[i] : sig[i][k] \in {Junk, Nul}
<1>0. /\ sig = Summed(sfo)
      /\ FieldRead(file, entry, sfo.sys_ver, "PS3_SYSTEM_VER", SysFrom, 4)
      /\ FieldRead(file, entry, sfo.disc_ver, "VERSION", 0, 5)
      /\ FieldRead(file, entry, sfo.app_ver, "APP_VER", 0, 5)
      /\ TitleRead(file, entry, sfo.title_id)
  BY DEF FieldsRead
<1>1. /\ \A k \in 0 .. 8 : k \in DOMAIN sig[1] /\ sig[1][k] = sfo.title_id[k]
      /\ \A k \in 0 .. 3 : k \in DOMAIN sig[2] /\ sig[2][k] = sfo.sys_ver[k]
      /\ \A k \in 0 .. 4 : k \in DOMAIN sig[3] /\ sig[3][k] = sfo.disc_ver[k]
      /\ \A k \in 0 .. 4 : k \in DOMAIN sig[4] /\ sig[4][k] = sfo.app_ver[k]
  BY <1>0 DEF Summed, First
<1>2. CASE ~Has(file, "TITLE_ID", 9)
  <2>1. \/ NotYet(file, entry, "TITLE_ID")
        \/ \E i \in DOMAIN file.entries :
              /\ Done(file, entry, "TITLE_ID", i)
              /\ Data(file.entries[i], 0 + (9 - 1)) = Junk
    BY <1>2, ShortKey
  <2>2. sfo.title_id[8] = Junk
    BY <1>0, <2>1 DEF TitleRead
  <2>. QED BY <1>1, <2>2
<1>3. CASE ~Has(file, "PS3_SYSTEM_VER", 5)
  <2>1. \/ NotYet(file, entry, "PS3_SYSTEM_VER")
        \/ \E i \in DOMAIN file.entries :
              /\ Done(file, entry, "PS3_SYSTEM_VER", i)
              /\ Data(file.entries[i], 1 + (4 - 1)) = Junk
    BY <1>3, ShortKey
  <2>2. sfo.sys_ver[3] = Junk
    BY <1>0, <2>1 DEF FieldRead, SysFrom
  <2>. QED BY <1>1, <2>2
<1>4. CASE ~Has(file, "VERSION", 5)
  <2>1. \/ NotYet(file, entry, "VERSION")
        \/ \E i \in DOMAIN file.entries :
              /\ Done(file, entry, "VERSION", i)
              /\ Data(file.entries[i], 0 + (5 - 1)) = Junk
    BY <1>4, ShortKey
  <2>2. sfo.disc_ver[4] = Junk
    BY <1>0, <2>1 DEF FieldRead
  <2>. QED BY <1>1, <2>2
<1>5. CASE ~Has(file, "APP_VER", 5)
  <2>1. \/ NotYet(file, entry, "APP_VER")
        \/ \E i \in DOMAIN file.entries :
              /\ Done(file, entry, "APP_VER", i)
              /\ Data(file.entries[i], 0 + (5 - 1)) = Junk
    BY <1>5, ShortKey
  <2>2. sfo.app_ver[4] = Junk
    BY <1>0, <2>1 DEF FieldRead
  <2>. QED BY <1>1, <2>2
<1>6. CASE /\ Has(file, "TITLE_ID", 9) /\ Has(file, "APP_VER", 5)
           /\ ~(Place(file, "APP_VER") < Place(file, "TITLE_ID"))
  <2>1. PICK t \in DOMAIN file.entries : file.entries[t].key = "TITLE_ID"
    BY <1>6 DEF Has
  <2>2. PICK a \in DOMAIN file.entries : file.entries[a].key = "APP_VER"
    BY <1>6 DEF Has
  <2>3. Place(file, "TITLE_ID") = t /\ Place(file, "APP_VER") = a
        /\ Done(file, entry, "APP_VER", a) /\ t \in Nat /\ a \in Nat
    BY <2>1, <2>2, PlaceIs, AllDone
  <2>4. t < a
    BY <1>6, <2>1, <2>2, <2>3
  <2>5. \A i \in DOMAIN file.entries : Done(file, entry, "TITLE_ID", i) => i = t
    BY <2>3, PlaceIs DEF Done
  <2>6. TitleCut(file, entry)
    BY <2>3, <2>4, <2>5 DEF TitleCut
  <2>7. sfo.title_id[5] = Nul
    BY <1>0, <2>6 DEF TitleRead
  <2>. QED BY <1>1, <2>7
<1>. QED BY <1>2, <1>3, <1>4, <1>5, <1>6 DEF Sound

-----------------------------------------------------------------------------
(* Minima and maxima.                                                      *)
LEMMA LeastElement ==
    ASSUME NEW T \in SUBSET Nat, T # {}
    PROVE  \E n \in T : \A m \in T : n <= m
<1>. DEFINE Below == {0 .. (n - 1) : n \in T}
<1>1. Below \in SUBSET FiniteSubsetsOf(Nat) /\ Below # {}
  <2>1. ASSUME NEW n \in T PROVE 0 .. (n - 1) \in FiniteSubsetsOf(Nat)
    <3>1. IsFiniteSet(0 .. (n - 1))
      BY FS_Interval
    <3>. QED BY <3>1 DEF FiniteSubsetsOf
  <2>. QED BY <2>1
<1>2. PICK b \in Below : \A c \in Below : <<c, b>> \notin StrictSubsetOrdering(Nat)
  <2>. HIDE DEF Below
  <2>. QED BY <1>1, WFMin, FS_StrictSubsetOrderingWellFounded
<1>3. PICK n \in T : b = 0 .. (n - 1)
  BY <1>2
<1>4. ASSUME NEW m \in T, m < n PROVE FALSE
  <2>1. 0 .. (m - 1) \in Below /\ 0 .. (m - 1) \in SUBSET Nat /\ b \in SUBSET Nat
    BY <1>3
  <2>2. 0 .. (m - 1) \subseteq b
    BY <1>3, <1>4
  <2>3. m \in b /\ m \notin 0 .. (m - 1)
    BY <1>3, <1>4
  <2>. QED BY <1>2, <2>1, <2>2, <2>3 DEF StrictSubsetOrdering
<1>. QED BY <1>4

LEMMA MinIs ==
    ASSUME NEW S \in SUBSET Int, NEW m \in S, \A y \in S : m <= y
    PROVE  Min(S) = m
<1>. DEFINE P(x) == x \in S /\ \A y \in S : x <= y
<1>1. P(m)
  OBVIOUS
<1>2. \A x : P(x) => x = m
  OBVIOUS
<1>3. Min(S) = CHOOSE x : P(x)
  BY DEF Min
<1>. QED BY <1>1, <1>2, <1>3

LEMMA MaxIs ==
    ASSUME NEW S \in SUBSET Int, NEW m \in S, \A y \in S : y <= m
    PROVE  Max(S) = m
<1>. DEFINE P(x) == x \in S /\ \A y \in S : x >= y
<1>1. P(m)
  OBVIOUS
<1>2. \A x : P(x) => x = m
  OBVIOUS
<1>3. Max(S) = CHOOSE x : P(x)
  BY DEF Max
<1>. QED BY <1>1, <1>2, <1>3

(* strtok finds the first line of an answer that has arrived.              *)
LEMMA LineRead ==
    ASSUME NetTypeOK, Received, sent = Len(body), mem[0] # Garbage
    PROVE  \/ HasLine(body) /\ Line(mem) = FirstLine(body)
           \/ Line(mem) = NoName
<1>1. /\ body \in Seq(STRING) /\ sent \in Nat
      /\ \A k \in DOMAIN body : body[k] # Zero
  <2>1. body \in Replies \/ body = <<>>
    BY DEF Received
  <2>2. CASE body \in Replies
    BY <2>2, NetAssumption DEF NetTypeOK
  <2>3. CASE body = <<>>
    BY <2>3 DEF NetTypeOK
  <2>. QED BY <2>1, <2>2, <2>3
<1>2. DOMAIN body = 1 .. sent
  BY <1>1
<1>3. BufSize \in Nat \ {0} /\ DOMAIN mem = 0 .. (BufSize - 1)
  BY NetAssumption DEF NetTypeOK
<1>4. sent \in DOMAIN mem /\ mem[sent] = Zero
  BY <1>1, <1>3 DEF NetTypeOK, Received
<1>5. \A k \in 0 .. (sent - 1) : k \in DOMAIN mem /\ mem[k] = body[k + 1]
  BY <1>1, <1>3, <1>4 DEF Received
<1>. DEFINE F == {k \in DOMAIN mem : mem[k] # NL}
<1>6. PICK f \in F : \A k \in F : f <= k
  <2>1. F \in SUBSET Nat /\ F # {}
    BY <1>3, <1>4 DEF Zero, NL
  <2>. HIDE DEF F
  <2>. QED BY <2>1, LeastElement
<1>7. Min(F) = f
  <2>1. F \in SUBSET Int
    BY <1>3
  <2>. HIDE DEF F
  <2>. QED BY <1>6, <2>1, MinIs
<1>. DEFINE T == {k \in DOMAIN mem : k >= f /\ mem[k] \in {NL, Zero}}
<1>8. f \in 0 .. sent /\ mem[f] # NL
  BY <1>3, <1>4, <1>6 DEF Zero, NL
<1>9. PICK t \in T : \A k \in T : t <= k
  <2>1. T \in SUBSET Nat /\ T # {}
    BY <1>1, <1>3, <1>4, <1>8
  <2>. HIDE DEF T
  <2>. QED BY <2>1, LeastElement
<1>10. Min(T) = t
  <2>1. T \in SUBSET Int
    BY <1>3
  <2>. HIDE DEF T
  <2>. QED BY <1>9, <2>1, MinIs
<1>11. t \in f .. sent /\ mem[t] \in {NL, Zero}
       /\ \A k \in f .. (t - 1) : mem[k] \notin {NL, Zero}
  <2>1. t \in f .. sent /\ mem[t] \in {NL, Zero}
    BY <1>1, <1>3, <1>4, <1>8, <1>9
  <2>2. ASSUME NEW k \in f .. (t - 1) PROVE mem[k] \notin {NL, Zero}
    <3>1. k \in DOMAIN mem /\ k >= f /\ ~(t <= k)
      BY <1>1, <1>3, <1>4, <1>8, <2>1
    <3>. QED BY <1>9, <3>1
  <2>. QED BY <2>1, <2>2
<1>12. Line(mem) = IF mem[f] = Zero THEN NoName
                   ELSE [k \in 1 .. (t - f) |-> mem[f + k - 1]]
  BY <1>7, <1>10 DEF Line
<1>. HIDE DEF F, T
<1>13. CASE mem[f] # Zero
  <2>1. f \in 0 .. (sent - 1) /\ t \in (f + 1) .. sent
    BY <1>1, <1>4, <1>8, <1>11, <1>13
  <2>2. HasLine(body)
    <3>1. f + 1 \in DOMAIN body /\ body[f + 1] # NL
      BY <1>2, <1>5, <1>8, <2>1
    <3>. QED BY <3>1 DEF HasLine
  <2>. DEFINE G == {k \in DOMAIN body : body[k] # NL}
  <2>3. Min(G) = f + 1
    <3>1. G \in SUBSET Int /\ f + 1 \in G
      BY <1>2, <1>5, <1>8, <2>1
    <3>2. ASSUME NEW k \in G PROVE f + 1 <= k
      <4>1. PICK l \in 0 .. (sent - 1) : l = k - 1
        BY <1>1, <1>2
      <4>2. body[l + 1] # NL /\ l \in DOMAIN mem /\ mem[l] = body[l + 1]
        BY <1>2, <1>5, <4>1
      <4>3. f <= l
        BY <1>6, <4>2 DEF F
      <4>. QED BY <1>1, <1>2, <1>8, <4>1, <4>3
    <3>. HIDE DEF G
    <3>. QED BY <3>1, <3>2, MinIs
  <2>. DEFINE H == {k \in (f + 1) .. Len(body) : \A j \in (f + 1) .. k : body[j] # NL}
  <2>4. Max(H) = t
    <3>1. H \in SUBSET Int
      BY <1>1
    <3>2. t \in H
      <4>1. ASSUME NEW j \in (f + 1) .. t PROVE body[j] # NL
        <5>1. PICK l \in f .. (t - 1) : l = j - 1
          BY <2>1
        <5>2. mem[l] # NL /\ l \in 0 .. (sent - 1)
          BY <1>1, <1>11, <2>1, <5>1
        <5>3. mem[l] = body[l + 1] /\ l + 1 = j
          BY <1>5, <2>1, <5>1, <5>2
        <5>. QED BY <5>2, <5>3
      <4>. QED BY <2>1, <4>1
    <3>3. ASSUME NEW k \in H PROVE k <= t
      <4>. SUFFICES ASSUME t < k PROVE FALSE
        BY <1>1, <2>1
      <4>1. t + 1 \in (f + 1) .. k /\ t \in 0 .. (sent - 1)
        BY <1>1, <2>1
      <4>2. body[t + 1] # NL
        BY <4>1
      <4>3. body[t + 1] = mem[t] /\ t + 1 \in DOMAIN body
        BY <1>2, <1>5, <4>1
      <4>. QED BY <1>1, <1>11, <4>2, <4>3
    <3>. HIDE DEF H
    <3>. QED BY <3>1, <3>2, <3>3, MaxIs
  <2>5. FirstLine(body) = SubSeq(body, f + 1, t)
    BY <2>3, <2>4 DEF FirstLine
  <2>6. SubSeq(body, f + 1, t) = [k \in 1 .. (t - f) |-> body[f + k]]
    BY <1>1, <2>1
  <2>7. \A k \in 1 .. (t - f) : mem[f + k - 1] = body[f + k]
    <3>. TAKE k \in 1 .. (t - f)
    <3>1. PICK l \in 0 .. (sent - 1) : l = f + k - 1
      BY <1>1, <2>1
    <3>2. mem[l] = body[l + 1] /\ l + 1 = f + k
      BY <1>5, <2>1, <3>1
    <3>. QED BY <3>1, <3>2
  <2>. QED BY <1>12, <1>13, <2>2, <2>5, <2>6, <2>7
<1>. QED BY <1>12, <1>13

-----------------------------------------------------------------------------
LEMMA BodyType ==
    ASSUME NetTypeOK, Received
    PROVE  /\ body \in Seq(STRING) /\ Len(body) \in Nat /\ sent \in 0 .. Len(body)
           /\ BufSize \in Nat \ {0} /\ DOMAIN mem = 0 .. (BufSize - 1) /\ size = sent
<1>1. body \in Replies \/ body = <<>>
  BY DEF Received
<1>2. body \in Seq(STRING)
  <2>1. CASE body \in Replies
    BY <2>1, NetAssumption
  <2>2. CASE body = <<>>
    BY <2>2
  <2>. QED BY <1>1, <2>1, <2>2
<1>. QED BY <1>2, NetAssumption DEF NetTypeOK

(* n characters more: they are the next of the answer.                     *)
LEMMA DeliverStep ==
    ASSUME NetTypeOK, Received, npc = "answer", NEW n \in 0 .. (Len(body) - sent),
           Fits(n),
           mem' = [k \in DOMAIN mem |->
                      IF AppendsAt <= k /\ k < AppendsAt + n
                      THEN body[sent + 1 + k - AppendsAt]
                      ELSE IF k = AppendsAt + n THEN Zero ELSE mem[k]],
           size' = size + n, sent' = sent + n, UNCHANGED <<body, npc, nret>>
    PROVE  NetTypeOK' /\ Received'
<1>0. /\ Len(body) \in Nat /\ sent \in 0 .. Len(body) /\ size = sent
      /\ BufSize \in Nat \ {0} /\ DOMAIN mem = 0 .. (BufSize - 1)
  BY BodyType
<1>1. sent' \in 0 .. Len(body) /\ size' = sent' /\ sent' < BufSize
  BY <1>0 DEF Fits
<1>2. DOMAIN mem' = 0 .. (BufSize - 1) /\ mem'[sent'] = Zero
  BY <1>0, <1>1 DEF AppendsAt
<1>3. ASSUME NEW k \in 0 .. (sent' - 1) PROVE mem'[k] = body[k + 1]
  <2>0. k \in DOMAIN mem
    BY <1>0, <1>1
  <2>1. CASE k < sent
    <3>1. mem'[k] = mem[k] /\ k \in 0 .. (sent - 1)
      BY <1>0, <2>0, <2>1 DEF AppendsAt
    <3>. QED BY <3>1 DEF Received
  <2>2. CASE sent <= k
    <3>1. mem'[k] = body[sent + 1 + k - sent]
      BY <1>0, <1>1, <2>0, <2>2 DEF AppendsAt
    <3>2. sent + 1 + k - sent = k + 1
      BY <1>0
    <3>. QED BY <3>1, <3>2
  <2>. QED BY <1>0, <1>1, <2>1, <2>2
<1>4. NetTypeOK'
  BY <1>0, <1>1, <1>2 DEF NetTypeOK
<1>. QED BY <1>2, <1>3, <1>4 DEF Received

LEMMA NetStep ==
    ASSUME NetTypeOK, Received, NetNext
    PROVE  /\ NetTypeOK' /\ Received'
           /\ npc' = "aborted" => Len(body) >= BufSize
<1>0. npc \in {"answer", "get"}
  BY DEF NetNext, Deliver, AnswerFails, TakeName, Get
<1>1. CASE Deliver
  <2>1. PICK n \in 0 .. (Len(body) - sent) :
          \/ /\ Fits(n)
             /\ mem' = [k \in DOMAIN mem |->
                           IF AppendsAt <= k /\ k < AppendsAt + n
                           THEN body[sent + 1 + k - AppendsAt]
                           ELSE IF k = AppendsAt + n THEN Zero ELSE mem[k]]
             /\ size' = size + n
             /\ sent' = sent + n
             /\ UNCHANGED npc
          \/ /\ ~Fits(n)
             /\ npc' = "aborted" /\ UNCHANGED <<mem, size, sent>>
    BY <1>1 DEF Deliver
  <2>2. CASE Fits(n)
    BY <1>1, <2>1, <2>2, DeliverStep DEF Deliver
  <2>3. CASE ~Fits(n)
    <3>1. Len(body) >= BufSize
      BY <2>3, BodyType DEF Fits
    <3>. QED BY <1>1, <2>1, <2>3, <3>1 DEF Deliver, NetTypeOK, Received
  <2>. QED BY <2>2, <2>3
<1>2. CASE AnswerFails
  BY <1>2 DEF AnswerFails, NetReturn, NetTypeOK, Received
<1>3. CASE TakeName
  BY <1>3 DEF TakeName, NetTypeOK, Received
<1>4. CASE Get
  BY <1>4 DEF Get, NetReturn, NetTypeOK, Received
<1>. QED BY <1>1, <1>2, <1>3, <1>4 DEF NetNext

LEMMA SameSfo ==
    ASSUME SfoTypeOK, FieldsRead, UNCHANGED sfoVars
    PROVE  SfoTypeOK' /\ FieldsRead' /\ (SfoLoaded' <=> SfoLoaded)
BY DEF sfoVars, SfoTypeOK, FieldsRead, SfoLoaded

LEMMA SameNet ==
    ASSUME NetTypeOK, Received, UNCHANGED netVars
    PROVE  NetTypeOK' /\ Received'
BY DEF netVars, NetTypeOK, Received

-----------------------------------------------------------------------------
OwnTypeOK ==
    /\ opt \in Options
    /\ pc \in {"sfo", "ird", "fetchIrd", "pup", "fetchPup", "load", "failed",
               "killed"}
    /\ pc \notin {"sfo", "failed"} => SfoLoaded
    /\ outName # <<>> => ~opt.named
    /\ ret # "EXIT_OK" <=> pc = "failed"

LEMMA TypeParts == /\ TypeOK <=> SfoTypeOK /\ NetTypeOK /\ OwnTypeOK
                   /\ TypeOK' <=> SfoTypeOK' /\ NetTypeOK' /\ OwnTypeOK'
<1>1. TypeOK <=> SfoTypeOK /\ NetTypeOK /\ OwnTypeOK
  BY DEF TypeOK, OwnTypeOK
<1>2. TypeOK' <=> SfoTypeOK' /\ NetTypeOK' /\ OwnTypeOK'
  BY DEF TypeOK, OwnTypeOK
<1>. QED BY <1>1, <1>2

LEMMA InvInit == Init => Inv
<1>. SUFFICES ASSUME Init PROVE Inv
  OBVIOUS
<1>1. SfoTypeOK /\ FieldsRead
  BY SfoStart DEF Init
<1>2. NetTypeOK /\ Received
  <2>1. body = <<>> /\ Len(<<>>) = 0 /\ sent = 0 /\ size = 0 /\ npc = "idle"
        /\ nret = "EXIT_OK" /\ mem = [k \in 0 .. (BufSize - 1) |-> Garbage]
    BY DEF Init, NetInit
  <2>2. BufSize \in Nat \ {0}
    BY NetAssumption
  <2>3. mem[0] = Garbage
    BY <2>1, <2>2
  <2>. QED BY <2>1, <2>3 DEF NetTypeOK, Received
<1>3. Stages /\ NamedAfter
  BY DEF Init, NetInit, Stages, NamedAfter
<1>4. TypeOK
  BY <1>1, <1>2 DEF Init, TypeOK
<1>. QED BY <1>1, <1>2, <1>3, <1>4 DEF Inv

LEMMA InvStep == Inv /\ [Next]_vars => Inv'
<1>. SUFFICES ASSUME Inv, [Next]_vars PROVE Inv'
  OBVIOUS
<1>0. /\ SfoTypeOK /\ NetTypeOK /\ FieldsRead /\ Received /\ Stages /\ NamedAfter
      /\ OwnTypeOK
  BY TypeParts DEF Inv
<1>a. SfoTypeOK' /\ FieldsRead' /\ NetTypeOK' /\ Received' /\ OwnTypeOK' /\ Stages' /\ NamedAfter'
      => Inv'
  BY TypeParts DEF Inv
<1>1. CASE LoadSfo
  <2>1. SfoTypeOK' /\ FieldsRead' /\ ~SfoLoaded
    BY <1>0, <1>1, SfoStep DEF LoadSfo
  <2>2. NetTypeOK' /\ Received'
    BY <1>0, <1>1, SameNet DEF LoadSfo
  <2>3. OwnTypeOK'
    BY <1>0, <1>1 DEF OwnTypeOK, LoadSfo, ownVars
  <2>4. Stages' /\ NamedAfter'
    BY <1>0, <1>1, <2>1 DEF LoadSfo, netVars, ownVars, OwnTypeOK, Stages, NamedAfter
  <2>. QED BY <1>a, <2>1, <2>2, <2>3, <2>4
<1>2. CASE TakeSfo
  <2>1. SfoTypeOK' /\ FieldsRead' /\ (SfoLoaded' <=> SfoLoaded)
    BY <1>0, <1>2, SameSfo DEF TakeSfo
  <2>2. NetTypeOK' /\ Received'
    BY <1>0, <1>2, SameNet DEF TakeSfo
  <2>3. CASE Exit(sret) /\ sret # "EXIT_OK"
    BY <1>0, <1>2, <1>a, <2>1, <2>2, <2>3
       DEF TakeSfo, Exit, netVars, sfoVars, OwnTypeOK, Stages,
           NamedAfter
  <2>4. CASE Exit("ALLOC_ERROR")
    BY <1>0, <1>2, <1>a, <2>1, <2>2, <2>4
       DEF TakeSfo, Exit, netVars, sfoVars, OwnTypeOK, Stages,
           NamedAfter
  <2>5. CASE /\ sret = "EXIT_OK"
             /\ outName' = IF opt.named THEN outName ELSE NameOf(sfo.title_id)
             /\ pc' = IF opt.given THEN AfterIrd ELSE "ird"
             /\ UNCHANGED <<opt, ret>>
    <3>1. SfoLoaded /\ SfoLoaded'
      BY <1>2, <2>1, <2>5 DEF TakeSfo, SfoLoaded
    <3>2. OwnTypeOK'
      BY <1>0, <1>2, <2>5, <3>1 DEF OwnTypeOK, TakeSfo, AfterIrd
    <3>3. Stages'
      BY <1>0, <1>2, <2>5 DEF TakeSfo, AfterIrd, netVars, sfoVars, OwnTypeOK, Stages,
                        Options
    <3>4. NamedAfter'
      BY <1>0, <1>2, <2>5, <3>1 DEF TakeSfo, netVars, sfoVars, NamedAfter
    <3>. QED BY <1>a, <2>1, <2>2, <3>2, <3>3, <3>4
  <2>. QED BY <1>2, <2>3, <2>4, <2>5 DEF TakeSfo
<1>3. CASE DownloadIrd
  <2>1. SfoTypeOK' /\ FieldsRead' /\ (SfoLoaded' <=> SfoLoaded)
    BY <1>0, <1>3, SameSfo DEF DownloadIrd
  <2>2. CASE Exit("ALLOC_ERROR") /\ UNCHANGED netVars
    <3>1. NetTypeOK' /\ Received'
      BY <1>0, <2>2, SameNet
    <3>. QED BY <1>0, <1>3, <1>a, <2>1, <2>2, <3>1
             DEF DownloadIrd, Exit, netVars, sfoVars, OwnTypeOK, Stages,
           NamedAfter
  <2>3. CASE AskName(sig) /\ Go("fetchIrd")
    <3>0. sent = 0 /\ npc = "idle" /\ ~opt.given
      BY <1>0, <1>3 DEF DownloadIrd, OwnTypeOK, Stages
    <3>1. NetTypeOK' /\ Received'
      <4>1. sent' = 0 /\ (body' = body \/ body' \in Replies)
        BY <2>3, <3>0 DEF AskName
      <4>2. body' \in Seq(STRING) /\ Len(body') \in Nat
        BY <1>0, <4>1, BodyType, NetAssumption
      <4>3. body' \in Replies \cup {<<>>}
        BY <1>0, <4>1 DEF Received
      <4>. QED BY <1>0, <2>3, <3>0, <4>1, <4>2, <4>3
               DEF AskName, NetReturn, NetTypeOK, Received
    <3>2. OwnTypeOK'
      BY <1>0, <1>3, <2>1, <2>3 DEF OwnTypeOK, DownloadIrd, Go
    <3>3. Stages'
      BY <1>0, <1>3, <2>3, <3>0
         DEF DownloadIrd, Go, AskName, NetReturn, sfoVars, Stages
    <3>4. NamedAfter'
      BY <1>0, <1>3, <2>1, <2>3 DEF DownloadIrd, Go, AskName, sfoVars, NamedAfter
    <3>. QED BY <1>a, <2>1, <3>1, <3>2, <3>3, <3>4
  <2>. QED BY <1>3, <2>2, <2>3 DEF DownloadIrd
<1>4. CASE DownloadPup
  <2>1. SfoTypeOK' /\ FieldsRead' /\ (SfoLoaded' <=> SfoLoaded)
    BY <1>0, <1>4, SameSfo DEF DownloadPup
  <2>2. CASE Exit("ALLOC_ERROR") /\ UNCHANGED netVars
    <3>1. NetTypeOK' /\ Received'
      BY <1>0, <2>2, SameNet
    <3>. QED BY <1>0, <1>4, <1>a, <2>1, <2>2, <3>1
             DEF DownloadPup, Exit, netVars, sfoVars, OwnTypeOK, Stages,
           NamedAfter
  <2>3. CASE AskPup(PrintOf(sfo.sys_ver)) /\ Go("fetchPup")
    <3>1. NetTypeOK' /\ Received'
      BY <1>0, <2>3 DEF AskPup, NetReturn, NetTypeOK, Received
    <3>2. OwnTypeOK'
      BY <1>0, <1>4, <2>1, <2>3 DEF OwnTypeOK, DownloadPup, Go
    <3>3. Stages'
      BY <1>0, <1>4, <2>3
         DEF DownloadPup, Go, AskPup, NetReturn, sfoVars, Stages, IsNamed
    <3>4. NamedAfter'
      BY <1>0, <1>4, <2>1, <2>3 DEF DownloadPup, Go, AskPup, sfoVars, NamedAfter
    <3>. QED BY <1>a, <2>1, <3>1, <3>2, <3>3, <3>4
  <2>. QED BY <1>4, <2>2, <2>3 DEF DownloadPup
<1>5. CASE Fetch
  <2>1. SfoTypeOK' /\ FieldsRead' /\ (SfoLoaded' <=> SfoLoaded)
    BY <1>0, <1>5, SameSfo DEF Fetch
  <2>2. /\ NetTypeOK' /\ Received'
        /\ npc' = "aborted" => Len(body) >= BufSize
    BY <1>0, <1>5, NetStep DEF Fetch
  <2>3. OwnTypeOK'
    BY <1>0, <1>5, <2>1 DEF Fetch, ownVars, OwnTypeOK
  <2>4. NamedAfter'
    BY <1>0, <1>5, <2>1 DEF Fetch, NetNext, Deliver, AnswerFails, TakeName, Get,
                            ownVars, sfoVars, NamedAfter
  <2>5. Stages'
    <3>1. CASE Deliver
      BY <1>0, <1>5, <2>2, <3>1
         DEF Fetch, Deliver, ownVars, sfoVars, Stages, IsNamed
    <3>2. CASE AnswerFails
      BY <1>0, <1>5, <3>2
         DEF Fetch, AnswerFails, NetReturn, ownVars, sfoVars, Stages, IsNamed
    <3>3. CASE TakeName
      <4>1. pc = "fetchIrd" /\ npc = "answer" /\ sent = Len(body)
        BY <1>0, <1>5, <3>3 DEF Fetch, TakeName, Stages
      <4>2. address' \in Served =>
               HasLine(body) /\ address' = <<"ird", FirstLine(body)>>
        <5>1. PICK name \in IF mem[0] = Garbage THEN {NoName, <<Garbage>>} ELSE {Line(mem)} :
                 address' = <<"ird", name>>
          BY <3>3 DEF TakeName
        <5>2. CASE name \in {NoName, <<Garbage>>}
          BY <5>1, <5>2, NetAssumption
        <5>3. CASE mem[0] # Garbage /\ name = Line(mem)
          <6>1. \/ HasLine(body) /\ Line(mem) = FirstLine(body)
                \/ Line(mem) = NoName
            BY <1>0, <4>1, <5>3, LineRead
          <6>. QED BY <5>1, <5>2, <5>3, <6>1
        <5>. QED BY <5>1, <5>2, <5>3
      <4>. QED BY <1>0, <1>5, <3>3, <4>1, <4>2
               DEF Fetch, TakeName, ownVars, sfoVars, Stages, IsNamed
    <3>4. CASE Get
      <4>1. CASE nret' # "EXIT_OK" /\ npc' = "done" /\ disk'["ird"] = disk["ird"]
        BY <1>0, <1>5, <3>4, <4>1
           DEF Fetch, Get, ownVars, sfoVars, Stages, IsNamed
      <4>2. CASE nret' # "EXIT_OK" /\ npc' = "done" /\ pc = "fetchIrd"
        BY <1>0, <1>5, <3>4, <4>2
           DEF Fetch, Get, ownVars, sfoVars, Stages, IsNamed
      <4>3. CASE /\ address \in Served /\ disk' = [disk EXCEPT ![dst] = address]
                 /\ NetReturn("EXIT_OK")
        <5>1. CASE pc = "fetchIrd"
          <6>1. disk'["ird"] = address
            BY <1>0, <4>3, <5>1 DEF Stages, NamedAfter
          <6>. QED BY <1>0, <1>5, <3>4, <4>3, <5>1, <6>1
             DEF Fetch, Get, NetReturn, ownVars, sfoVars, Stages, IsNamed
        <5>2. CASE pc = "fetchPup"
          <6>1. disk'["pup"] = address /\ disk'["ird"] = disk["ird"]
            BY <1>0, <4>3, <5>2 DEF Stages, NamedAfter
          <6>. QED BY <1>0, <1>5, <3>4, <4>3, <5>2, <6>1
             DEF Fetch, Get, NetReturn, ownVars, sfoVars, Stages, IsNamed
        <5>. QED BY <1>5, <5>1, <5>2 DEF Fetch
      <4>4. pc = "fetchPup" => dst = "pup"
        BY <1>0 DEF Stages
      <4>. QED BY <1>0, <1>5, <3>4, <4>1, <4>2, <4>3, <4>4
               DEF Fetch, Get, NetReturn, NamedAfter
    <3>. QED BY <1>5, <3>1, <3>2, <3>3, <3>4 DEF Fetch, NetNext
  <2>. QED BY <1>a, <2>1, <2>2, <2>3, <2>4, <2>5
<1>6. CASE Fetched
  <2>1. SfoTypeOK' /\ FieldsRead' /\ (SfoLoaded' <=> SfoLoaded)
    BY <1>0, <1>6, SameSfo DEF Fetched
  <2>2. NetTypeOK' /\ Received'
    BY <1>0, <1>6, SameNet DEF Fetched, NetReset, NetTypeOK, Received
  <2>3. CASE /\ npc = "done" /\ NetReset
             /\ nret # "EXIT_OK" /\ Exit(nret)
    BY <1>0, <1>6, <1>a, <2>1, <2>2, <2>3
       DEF Fetched, NetReset, Exit, sfoVars, OwnTypeOK, Stages, NamedAfter
  <2>4. CASE /\ npc = "done" /\ NetReset /\ nret = "EXIT_OK"
             /\ Go(IF pc = "fetchIrd" THEN AfterIrd ELSE "load")
    <3>1. OwnTypeOK'
      BY <1>0, <1>6, <2>1, <2>4 DEF Fetched, Go, AfterIrd, OwnTypeOK
    <3>2. NamedAfter'
      BY <1>0, <1>6, <2>1, <2>4 DEF Fetched, NetReset, Go, sfoVars, NamedAfter
    <3>3. Stages'
      BY <1>0, <1>6, <2>4
         DEF Fetched, NetReset, Go, AfterIrd, sfoVars, Stages, IsNamed
    <3>. QED BY <1>a, <2>1, <2>2, <3>1, <3>2, <3>3
  <2>5. CASE npc = "aborted" /\ Go("killed") /\ UNCHANGED netVars
    BY <1>0, <1>6, <1>a, <2>1, <2>2, <2>5
       DEF Fetched, netVars, Go, sfoVars, OwnTypeOK, Stages, NamedAfter
  <2>. QED BY <1>6, <2>3, <2>4, <2>5 DEF Fetched
<1>7. CASE UNCHANGED vars
  <2>1. SfoTypeOK' /\ FieldsRead' /\ (SfoLoaded' <=> SfoLoaded)
        /\ NetTypeOK' /\ Received'
    BY <1>0, <1>7, SameSfo, SameNet DEF vars
  <2>. QED BY <1>0, <1>7, <1>a, <2>1
           DEF vars, sfoVars, netVars, ownVars, OwnTypeOK, Stages, NamedAfter, IsNamed
<1>. QED BY <1>1, <1>2, <1>3, <1>4, <1>5, <1>6, <1>7 DEF Next, Terminated

-----------------------------------------------------------------------------
LEMMA InvCorrect == Spec => []Inv
BY InvInit, InvStep, PTL DEF Spec

(* The types of the whole front end, for every PARAM.SFO and every answer. *)
THEOREM IdentifyTypeCorrect == Spec => []TypeOK
<1>1. Inv => TypeOK
  BY DEF Inv
<1>. QED BY <1>1, InvCorrect, PTL

(* The signature is the disc's exactly for the files it can be made from,  *)
(* and the image is named after the disc (sfo.c:96-158, main.c:134-140).   *)
THEOREM SignatureExactCorrect == Spec => []SignatureExact
<1>1. Inv => SignatureExact
  <2>. SUFFICES ASSUME Inv, SfoLoaded
                PROVE  /\ IF Sound(file) THEN sig = TrueSig(file)
                          ELSE \E i \in 1 .. 4 : \E k \in DOMAIN sig[i] :
                                  sig[i][k] \in {Junk, Nul}
                       /\ Sound(file) /\ outName # <<>> =>
                             outName = NameOf(Says(file, "TITLE_ID", 0, 9))
    BY DEF SignatureExact
  <2>0. SfoTypeOK /\ FieldsRead /\ NamedAfter
    BY TypeParts DEF Inv
  <2>1. CASE Sound(file)
    BY <2>0, <2>1, SoundSig DEF NamedAfter
  <2>2. CASE ~Sound(file)
    BY <2>0, <2>2, UnsoundSig
  <2>. QED BY <2>1, <2>2
<1>. QED BY <1>1, InvCorrect, PTL

(* In whatever pieces an answer arrives, the file that is fetched is the   *)
(* one its first line names, and the PUP that of the disc's version        *)
(* (net.c:26-33, 159-165).                                                 *)
THEOREM FetchesWhatWasNamedCorrect == Spec => []FetchesWhatWasNamed
<1>1. Inv => FetchesWhatWasNamed
  <2>. SUFFICES ASSUME Inv, Sound(file)
                PROVE  /\ pc \in {"pup", "fetchPup", "load"} /\ ~opt.given =>
                             /\ body \in Answers(TrueSig(file)) /\ HasLine(body)
                             /\ disk["ird"] = <<"ird", FirstLine(body)>>
                       /\ pc = "load" /\ opt.getPup =>
                             disk["pup"] = <<"pup", Says(file, "PS3_SYSTEM_VER", 1, 4)>>
                       /\ pc = "killed" => Len(body) >= BufSize
    BY DEF FetchesWhatWasNamed
  <2>0. SfoTypeOK /\ FieldsRead /\ OwnTypeOK /\ Stages
    BY TypeParts DEF Inv
  <2>1. CASE SfoLoaded
    <3>1. sig = TrueSig(file) /\ PrintOf(sfo.sys_ver) = Says(file, "PS3_SYSTEM_VER", 1, 4)
      BY <2>0, <2>1, SoundSig
    <3>. QED BY <2>0, <3>1 DEF Stages, IsNamed
  <2>2. CASE ~SfoLoaded
    BY <2>0, <2>2 DEF OwnTypeOK
  <2>. QED BY <2>1, <2>2
<1>. QED BY <1>1, InvCorrect, PTL
=============================================================================
