---------------------------- MODULE ImageContract ----------------------------
(***************************************************************************)
(* What rebuild_iso (src/src/ird.c:603-744) promises: the output only ever *)
(* grows, and every byte it gets is the disc's byte at that address, so    *)
(* that a run which fails or is killed leaves a beginning of the image;    *)
(* EXIT_OK comes with the last byte of it.  What header.bin and footer.bin *)
(* do not deliver is missing from that image without a word: zeros stand   *)
(* for the header up to the first file, and the footer is short.           *)
(* Two kinds of disc are out of the code's reach: one that is not well     *)
(* laid may get some bytes of memory just before the assert of ird.c:666   *)
(* kills the process, and one with a gap as wide as the 32-bit arithmetic, *)
(* or blocks too far apart to be compared, is promised nothing.            *)
(***************************************************************************)
EXTENDS Integers, FiniteSetsExt

CONSTANTS BlockSize, UMod, StdioBuf, Discs   \* see RebuildIso

VARIABLES disc,  \* the disc
          bins,  \* what header.bin and footer.bin deliver of it
          out,   \* the bytes written: from 0 .. n-1 to cells
          st,    \* "writing", "doomed" (the assert will fail), "killed",
                 \* "ok" or "failed"
          kept   \* bytes on the device after the exit, -1 before

vars == <<disc, bins, out, st, kept>>

-----------------------------------------------------------------------------
(* The image of a disc d, from a header and a footer of the lengths in b.  *)
Recs(d) == {d.recs[i] : i \in DOMAIN d.recs}
Addr(r) == r.block * BlockSize
End(r) == Addr(r) + r.len
Tail(d, b) == Max({b.hdr} \cup {End(r) : r \in Recs(d)})
ImageSize(d, b) == Tail(d, b) + b.ftr

InBody(r, a) == Addr(r) <= a /\ a < End(r)

(* c is a byte that belongs at address a.                                  *)
IsByteOf(d, b, a, c) ==
    \/ a < b.hdr /\ c = <<"header", 0, a>>
    \/ /\ a >= b.hdr
       /\ \E r \in Recs(d) :
             InBody(r, a) /\ c = <<"body", r.name, r.off + (a - Addr(r))>>
    \/ /\ a >= b.hdr
       /\ c[1] = "zero" /\ \A r \in Recs(d) : ~InBody(r, a)
       /\ \E r \in Recs(d) : a < Addr(r)             \* a gap before a file
    \/ a >= Tail(d, b) /\ c = <<"footer", 0, a - Tail(d, b)>>

(* No gap in front of a file is as wide as the 32-bit arithmetic.          *)
Near(d, b) ==
    \A r \in Recs(d) :
       \/ Addr(r) - b.hdr < UMod
       \/ \E s \in Recs(d) : s.block < r.block /\ Addr(r) - End(s) < UMod

(* The difference of two blocks fits an int.                               *)
Comparable(d) == \A r, s \in Recs(d) : 2 * (r.block - s.block) < UMod

(* Files behind the header, below the wrap, apart from each other.         *)
WellLaid(d) ==
    /\ \A r \in Recs(d) : d.hdr <= Addr(r) /\ Addr(r) < UMod
    /\ \A i, j \in DOMAIN d.recs :
          i # j => \/ End(d.recs[i]) <= Addr(d.recs[j])
                   \/ End(d.recs[j]) <= Addr(d.recs[i])
    /\ \A i, j \in DOMAIN d.recs :
          i # j => d.recs[i].block # d.recs[j].block

-----------------------------------------------------------------------------
Init ==
    /\ disc \in Discs
    /\ bins \in [hdr: 0 .. disc.hdr, ftr: 0 .. disc.ftr]
    /\ out = [a \in {} |-> 0]
    /\ st = "writing"
    /\ kept = -1

(* The output grows, and what is added belongs where it goes.              *)
Grows ==
    /\ DOMAIN out \subseteq DOMAIN out'
    /\ \A a \in DOMAIN out : out'[a] = out[a]

BytesBelong ==
    \A a \in DOMAIN out' \ DOMAIN out : IsByteOf(disc, bins, a, out'[a])

Complete == DOMAIN out' = 0 .. (ImageSize(disc, bins) - 1)

Write ==
    /\ st = "writing" /\ Grows /\ BytesBelong
    /\ UNCHANGED <<disc, bins, st, kept>>

Succeed ==
    /\ st = "writing" /\ Grows /\ BytesBelong /\ Complete
    /\ st' = "ok"
    /\ UNCHANGED <<disc, bins, kept>>

Fail ==
    /\ st = "writing" /\ Grows /\ BytesBelong
    /\ st' \in {"failed", "killed"}
    /\ UNCHANGED <<disc, bins, kept>>

(* The device is full within a gap, or the disc is not well laid.          *)
Doom ==
    /\ st = "writing"
    /\ Grows /\ (WellLaid(disc) => BytesBelong)
    /\ st' = "doomed"
    /\ UNCHANGED <<disc, bins, kept>>

Abort ==
    /\ st = "doomed" /\ st' = "killed"
    /\ UNCHANGED <<disc, bins, out, kept>>

(* exit() flushes the stream, unseen: after EXIT_OK no more than the stdio *)
(* buffer can be missing from the file.                                    *)
Exit ==
    /\ st \in {"ok", "failed"} /\ kept = -1
    /\ kept' \in {n \in Nat : n = 0 \/ n - 1 \in DOMAIN out}
    /\ st = "ok" => ImageSize(disc, bins) - kept' <= StdioBuf
    /\ UNCHANGED <<disc, bins, out, st>>

TooFar ==
    ~(Near(disc, bins) /\ Comparable(disc)) /\ UNCHANGED <<disc, bins>>

Next == Write \/ Succeed \/ Fail \/ Doom \/ Abort \/ Exit \/ TooFar

Spec == Init /\ [][Next]_vars
=============================================================================
