------------------------------- MODULE Utf16 --------------------------------
(***************************************************************************)
(* Identifiers of the disc as the program reads them: big-endian UTF-16    *)
(* into a buffer of words (iso.c:166-192, 253-278) and from there into     *)
(* UTF-8 (utf16_to_utf8, util.c:19-45).  Bytes are 0 .. 255 and the words  *)
(* have their 16 bits; the machine is little-endian.                       *)
(*                                                                         *)
(* The second half is the reference: what UTF-8 says.                      *)
(***************************************************************************)
EXTENDS Integers, Sequences

Byte == 0 .. 255

(* n bits of x from bit lo on: the shifts and masks of the code.           *)
Bits(x, lo, n) == (x \div 2^lo) % 2^n

(* SWAP16 is computed as an int, so the upper byte of the word stays above *)
(* bit 16, where every use of it is masked.                                *)
Swap(x) == (x \div 256) + 256 * x

(* The buffer of len + 2 bytes: the terminator is the word len / 2, set    *)
(* before the identifier is read over it.  An identifier of odd length     *)
(* leaves half of it; what follows, `tail', was not written by anyone.     *)
Memory(id, tail) == id \o <<0>> \o (IF Len(id) % 2 = 0 THEN <<0>> ELSE tail)

Unit(m, k) == Swap(m[2 * k + 1] + 256 * m[2 * k + 2])

IsPair(u, v) == Bits(u, 10, 6) = 54 /\ Bits(v, 10, 6) = 55

(* One character of one word.                                              *)
Char(u) ==
    IF Bits(u, 7, 9) = 0 THEN <<Bits(u, 0, 8)>>
    ELSE IF Bits(u, 11, 5) = 0 THEN <<192 + Bits(u, 6, 5), 128 + Bits(u, 0, 6)>>
    ELSE <<224 + Bits(u, 12, 4), 128 + Bits(u, 6, 6), 128 + Bits(u, 0, 6)>>

(* One character of two words.  The third byte takes its bits from the     *)
(* wrong places of both words (util.c:36), the first has two bits too few. *)
Pair(u, v) ==
    <<240 + Bits(u + 64, 8, 2), 128 + Bits(Bits(u, 2, 16) + 16, 0, 6),
      128 + 16 * Bits(u, 8, 2) + 4 * Bits(v, 0, 2), 128 + Bits(v, 0, 6)>>

(* The character that starts at word k: its bytes, and its words.          *)
PairAhead(m, k) == IsPair(Unit(m, k), Unit(m, k + 1))
Written(m, k) ==
    IF PairAhead(m, k) THEN Pair(Unit(m, k), Unit(m, k + 1)) ELSE Char(Unit(m, k))
After(m, k) == IF PairAhead(m, k) THEN k + 2 ELSE k + 1

(* The loop, up to the first word that is 0: the bytes it writes, and the  *)
(* words it has read.                                                      *)
LastWord(m) == (Len(m) \div 2) - 1

Converted(m) ==
    LET From[k \in 0 .. LastWord(m)] ==
            IF Unit(m, k) = 0 THEN <<>> ELSE Written(m, k) \o From[After(m, k)]
    IN  From[0]

WordsRead(m) ==
    LET From[k \in 0 .. LastWord(m)] ==
            IF Unit(m, k) = 0 THEN k + 1 ELSE From[After(m, k)]
    IN  From[0]

(* The two buffers, in bytes.                                              *)
WordSize(len) == len + 2
SameSize(len) == len + 1                                          \* mutant
Utf8Size(len) == 2 * len + 1

InBounds(id, tail) ==
    LET m == Memory(id, tail) IN
    /\ 2 * WordsRead(m) <= WordSize(Len(id))
    /\ Len(Converted(m)) + 1 <= Utf8Size(Len(id))

-----------------------------------------------------------------------------
(* The reference.                                                          *)
Trail(c, k) == 128 + ((c \div 64^k) % 64)

Utf8Char(c) ==
    IF c < 128 THEN <<c>>
    ELSE IF c < 2048 THEN <<192 + (c \div 64), Trail(c, 0)>>
    ELSE IF c < 65536 THEN <<224 + (c \div 64^2), Trail(c, 1), Trail(c, 0)>>
    ELSE <<240 + (c \div 64^3), Trail(c, 2), Trail(c, 1), Trail(c, 0)>>

(* The big-endian words of an identifier, from 0 on.                       *)
Words(id) == Len(id) \div 2
WordAt(id, k) == 256 * id[2 * k + 1] + id[2 * k + 2]
High(w) == 55296 <= w /\ w < 56320
Low(w) == 56320 <= w /\ w < 57344
PairAt(id, k) ==
    k + 1 < Words(id) /\ High(WordAt(id, k)) /\ Low(WordAt(id, k + 1))

(* The character that starts at word k, and where the next one does.       *)
CodeAt(id, k) ==
    IF PairAt(id, k)
    THEN 65536 + 1024 * (WordAt(id, k) - 55296) + (WordAt(id, k + 1) - 56320)
    ELSE WordAt(id, k)
NextAt(id, k) == IF PairAt(id, k) THEN k + 2 ELSE k + 1

Utf8(id) ==
    LET From[k \in 0 .. Words(id)] ==
            IF k = Words(id) THEN <<>>
            ELSE Utf8Char(CodeAt(id, k)) \o From[NextAt(id, k)]
    IN  From[0]

(* UTF-16 without a character 0, or the one byte 0 of the root; and without *)
(* characters of two words.                                                *)
IsUtf16(id) ==
    /\ Len(id) % 2 = 1 => id[Len(id)] = 0
    /\ \A k \in 0 .. (Words(id) - 1) : WordAt(id, k) # 0
HasPair(id) == \E k \in 0 .. (Words(id) - 1) : PairAt(id, k)
=============================================================================
