# Verification of the PS3 rebuilder

TLA+ modules, TLC configurations and TLAPS proofs about the program in `src/`:
it takes a rip of a PS3 disc (a folder of files) and an IRD (a gzip file with
the disc's header, footer and the MD5 sums of its files), checks the rip and
puts the ISO image together. All modules are read against the C code; every
definition that models code is listed in `PROJECT.json` with the lines it
stands for.

## The system

| part | code | state | operations |
| --- | --- | --- | --- |
| main and downloads | `src/main.c`, `src/src/net.c` | options, scratch files in `/tmp/ird_rebuild/<signature>`, the PUP in the rip | the stages in order: SFO, IRD download, PUP download (`-p`), load, verify, rebuild |
| IRD loading | `src/src/ird.c:22-327` | one gzip stream, five allocations, the files `header.bin` and `footer.bin` | nine sections read in sequence, two of them unpacked |
| copy loops | `src/src/util.c:113-291` | counts and a 4096-byte buffer | `write_file_to_file`, `decompress_to_path`, `zero_out_file` |
| path table and paths | `src/src/iso.c:40-209`, `299-447`, `629-690`, `src/src/util.c:19-45` | volume descriptor, table of directories with parent pointers, names in UTF-8 | `init_traverse`, `build_dir_list`, `sort_dir_list`, `build_path`, `utf16_to_utf8` |
| directory scan | `src/src/iso.c:211-298`, `450-627`, `692-735` | table of file records, offsets | `build_file_list`, `build_single_dir`, `handle_extent_record` |
| verification | `src/src/ird.c:329-601`, `calc_checksum` | hash and state of each record | attach hashes, stat and MD5 of each file, report |
| image rebuild | `src/src/ird.c:603-744` | output stream, path buffers | header, then for each file a gap, an assert and the body, then the footer |
| SFO reader | `src/src/sfo.c` | four strings that nobody initialised, the signature | `load_sfo` |
| error texts, cwalk | `fault.c`, `cwalk.c` | none | string functions |

The program is single-threaded. The parts call each other in the order above and
talk through return codes, pointers and files: `load_ird` leaves `header.bin`
and `footer.bin`, which verification and rebuild each open and scan again.
Concurrency comes from outside: another run of the program with the same scratch
directory, rip or output, and whoever changes the rip while it is verified and
copied. What is hard here is failure and size: error exits that free what others
still hold, results of library calls that are not looked at (`gzread`, `fclose`,
`fwrite` of zeros, `fread` of the header), 32-bit arithmetic on a 25 GB disc,
records at the end of a block, tables that are exactly full, an unstable sort,
names whose size changes when they are converted, an answer that arrives in
pieces.

What makes each part correct:

* *main*: success of a run means an image made of its own disc, whatever
  earlier runs left; a difference in the rip is reported before it is copied.
* *SFO reader and downloads*: the signature is that of the disc, and the file
  that is loaded is the one the archive names for it.
* *IRD loading*: a loaded IRD was read whole, and nothing in it is made up; a
  failed load leaves nothing allocated and frees nothing twice.
* *copy loops*: EXIT_OK means the bytes asked for, or all that could be read of
  them; they end.
* *paths*: a path is the chain of directories of the disc in UTF-8, and fits
  its buffer; so do the names it is made of.
* *directory scan*: the table holds the files of the disc, never overflows, and
  every entry is freed once.
* *verification*: "no issues" exactly for an intact rip.
* *rebuild*: success means that every byte of every file is in its place, and
  of the header and footer what could be read of them; failure leaves a
  beginning of that.

## Modules

| module | models | extended by |
| --- | --- | --- |
| `ImageContract` | what a rebuild promises | |
| `RebuildIso` | `rebuild_iso` and `zero_out_file`; implements `ImageContract` | `MCRebuildIso`, `RebuildIso_proofs` |
| `CopyContract` | what a copy promises, in one step | |
| `CopyLoop` | the two copy loops; implements `CopyContract` | `MCCopyLoop`, `CopyLoop_proofs` |
| `FileScan` | `build_file_list` and below | `MCFileScan`, `FileScan_proofs` |
| `Utf16` | `utf16_to_utf8` and its buffers, beside UTF-8 itself | `DirPaths` |
| `DirPaths` | `init_traverse`, `build_dir_list`, sorting, names, `build_path` | `MCDirPaths`, `DirPaths_proofs` |
| `IrdLoad` | `load_ird` and its two section readers | `MCIrdLoad`, `IrdLoad_proofs` |
| `VerifyFiles` | `print_verification` | `MCVerifyFiles`, `VerifyFiles_proofs` |
| `SfoLoad` | `load_sfo`, `calc_mgz_meta` | `Identify` |
| `NetFetch` | `download_ird`, `download_pup` and below | `Identify` |
| `Identify` | the first half of `main`: composes the two | `MCIdentify`, `Identify_proofs` |
| `Pipeline` | `main`, `url_to_file`, several runs | `MCPipeline`, `Pipeline_proofs` |

Each module has the control state of its functions in `pc` (one action per
stretch of code between two points where something can fail, or where another
process can come in), the error code in `ret`, and the C variables under their
own names. An operator with the comment `\* mutant` is a wrong version of the
definition after it; it is used by no specification, only listed under
`mutants` in `PROJECT.json`: each property fails in its run when the definition
is replaced by the mutant.

How the modules rest on each other:

* `RebuildIso` takes the file table as an input. `FileScan` says what tables
  there are: the files of the disc by `ScanIsExact`, and of a file with several
  extents the first only (iso.c:618 adds none of the others to the count).
* `RebuildIso`'s copies of header, bodies and footer are single steps because
  `CopyLoop` implements `CopyContract` (`KeepsContract`), on files and on gzip
  streams, sound or not. What the rebuild does to the output, all its steps
  together, is `ImageContract` (`KeepsImageContract`).
* `RebuildIso` and `VerifyFiles` find a file by its record; that the path they
  build for it is the file's is `PathIsOfDisc` of `DirPaths`, whose names are
  those `Utf16` makes.
* `IrdLoad` treats a bounded unpacking of a failing stream as "reports success
  with junk, the stream stays failed" and an unbounded one as "exact, or short
  of a tail on a full device, or an error": these are `JunkLeavesStreamFailed`
  and `UnboundedLosesOnlyTail`.
* `Pipeline` lets `load_ird` succeed only if the IRD was whole, with a header
  and footer that are whole unless a device is full (`LoadedHasNoJunk`), and
  treats verification and copying of the PUP as
  `VerifyFiles` and `RebuildIso` have them. That a signature stands for a disc,
  and that what is downloaded belongs to it, is `SignatureExact` and
  `FetchesWhatWasNamed` of `Identify`.

### RebuildIso

The output stream is the function `iso` from the positions written so far to
cells that say where the byte came from; `pos` is `ftell`. `fwrite` is accepted
while device and stdio buffer have room, and may be short only when the device
is full. `Place` is the 32-bit product of ird.c:661, `Addr` the true one.
`zero_out_file` with a negative size (its `fwrite` is asked for about 2^64
bytes) faults or writes some memory; a bad `free` kills the process or does
not. `SortFiles` chooses any order that `qsort` may leave: any at all if the
differences of the 32-bit block numbers are no order (`IsOrder`). The stream is
never closed, so `ProcessExit` writes what is buffered.

A read that fails is not an error to `write_file_to_file`: `fread` gives a
short count, which counts as the end (util.c:182-192). For a body the caller
compares the length (ird.c:713); for header.bin and footer.bin it does not
(ird.c:652, 728). `bins` is what these two deliver, any beginning of what they
should hold, whether the rest was lost when they were unpacked, or is lost now.
The gap behind a short header is zeroed, the assert holds, and the run reports
success. So what success is worth is stated of the image made from what was
delivered (`ImageOfBins`): every file and every gap is where the disc has it,
and the bytes of the header and footer that are there are the right ones; that
they are all there is not promised, because the code does not see to it.

`ImageContract` knows only the disc, what header.bin and footer.bin deliver, the
output and how the run stands: the output grows by bytes that belong where they
go; EXIT_OK comes with the last of them; the process that exits may lose no more
than the stdio buffer. It is weaker in two places where the code is: a disc that
is not well laid may get some memory into its image in the one step before the
assert of ird.c:666 kills the process, and a disc with a gap as wide as the
32-bit arithmetic, or blocks that the comparison cannot order, is promised
nothing. The refinement mapping of `RebuildIso` reads the output off `iso`, and
how the run stands off `pc` and `ret`; a run is "doomed" from the step after
which the assert cannot but fail.

### CopyLoop

Counts only: `good` bytes of the source in order, then `junk`. A failing
`gzread` returns -1, which the code keeps in a `size_t`: the test `< 0` never
fires and the buffer is written as if it were full. `Truncate` is another
process that shortens a file of the rip. `decompress_to_path` closes its output
and does not look at the result: `Close` cuts the file to what the device takes
and leaves `ret` alone, so EXIT_OK may come with a tail missing. The other loop
leaves its stream open to the caller. `CopyContract` has the outcomes of a copy
in one step each: all that was asked for or all there was; with a gzip stream
that fails within what was asked for, junk up to that size; or an error; in each
case, of a file that was unpacked, the beginning that the device took.

### FileScan

A header is a function from the offsets where a read finds a record to these
records; elsewhere there are zeros. On a mastered disc without multi-extent
files the offsets are those where records start: `NeverTorn` shows that the scan
decodes the middle of none. With such a file it may (iso.c:480), and then a part
of a name or of a date passes for a record: `at` may hold entries that overlap,
and `TornDiscs` of the run have records of many kinds there. After
`RECORD_FIT_ERROR` in `handle_extent_record` the `do ... while` tests the flags
of a record that was never filled: the model goes either way. Directories are
assumed to have their own block in their first record (iso.c:563), the files of
a disc to have one record per extent. The entries that `handle_extent_record`
makes for further extents are in the table but are not counted (iso.c:618): the
next file overwrites them. The scan itself is modelled for headers of any
content; what is said of the files it finds is said of a disc that is
`Mastered`: its records are packed as ECMA-119 6.8.1.1 asks (no gap before a
record of a block, none across a block boundary), its directories fill whole
blocks, and `files` lists the offsets of their file records. All headers of the
runs are (`AllMastered`), except those in which garbage is read.

### DirPaths and Utf16

A directory is its position in the path table. `Open` reads the descriptor,
whose two fields place the table. `ParentIn` is the lookup of iso.c:665: an
earlier record or the record itself, otherwise unset memory (0), through which
`build_path` gets a null pointer or dies. `FreeLinked` marks the directories
that `exit_linked` frees although the table still holds them. Two cases are left
out. A directory beyond `MaxFolders` is written past the table (iso.c:664 has no
test): `ReadDir` ends the process there, and what a process would do that lives
on with overwritten memory is not modelled. And the length of a path table
record, 8 bits in iso.c:67, does not wrap: `PathAssumption` has `RecHdr +
Len(id) + 1 < ByteMod`, so identifiers of at most 246 bytes (Joliet allows 128).

Identifiers are bytes as they lie on the disc; `Name` is what the conversion
makes of them, in memory whose end nobody wrote (`Tails`), and `wild` collects
the identifiers for which it reads or writes outside its two buffers. The
lengths of names are kept in 8 bits (`DirNameLen`, `FileNameLen`; `ByteMod` is
small in the run, so that names wrap). `Utf16` translates `utf16_to_utf8` shift
by shift, and then defines UTF-8 from code points; `PathIsOfDisc` compares the
path that was built with the path of the disc in the second. Two kinds of name
are excepted, and are wrong in the code: characters beyond the 16-bit ones
(util.c:34-35 puts the bits of the pair in the wrong places), and names of more
than 255 bytes. `NamesStayInBounds` finds the one identifier that is always
read out of bounds: the single byte 1 of every "..", whose terminator lies
under it (iso.c:262).

### IrdLoad

Lengths are counted in units. The stream delivers `avail` units and then ends
or, if `bad`, fails for ever. `Frees` is the ladder of exit labels. `ReadSize`
is the product of ird.c:51 in an int: negative, it fails the allocation;
wrapped, it reads a part of the hashes, and the load succeeds. Within an image
of the IRD lies a gzip stream of its own, `ird.inner`: whole, cut off, or bad.
`gzread` has no error for a stream that was cut off, so unpacking such an image
succeeds with a part, as it does on a device that is `full` at the `fclose` of
the image or of the .binu file it is unpacked from (`Yields`). Only damage that
`gzread` finds, and a full device that `fwrite` finds, fails the load.

### VerifyFiles

An MD5 sum is a value. `Change` is anyone who changes a file of the rip,
removes it or puts it there, at any time of the verification and so also between
the `stat` and the sum of a file, at most `MaxChanges` times; `past` has what
each path was so far. `VerdictExact` is about every file, those that change too:
one that nobody touched is named exactly if it differs; one that changed passes
only if it had the size of the record at some time and the sum of it at some
time, and is named only if it differed at some time.

### SfoLoad, NetFetch and Identify

`SfoLoad` and `NetFetch` each have the control state of their functions
(`spc`, `npc`); `Identify` is main around them and owns `pc` and `ret`. A byte
of PARAM.SFO is the value it comes from and its place in it, so that a byte
that was never written (`Junk`: a field of `sfo_t`, or the end of a `malloc`ed
entry that is too short) can be told from one of the disc. CRC32 is taken as
injective: `sig` is what it sums. In `NetFetch` the archive answers with any
sequence of `Answers`, libcurl calls back with any piece of it (`Deliver`), and
`strtok` takes a line of what then lies in the buffer (`Line`); the reference is
the first line of the answer itself (`FirstLine`). `snprintf` of net.c:159 cuts
a URL that is longer than its buffer, and only a negative result is tested; the
names of the model fit. Memory that was never written
may hold any name, but none the archive has, and an answer has no terminator
within it (`NetAssumption`); the keys of a PARAM.SFO are different from each
other (`SfoAssumption`).

### Pipeline

A run (`p \in Runs`) goes through the stages of `main`; `Stop` is a stage that
fails or a process that is killed, anywhere. A file has a content ("part" is any
of a wrong length) and the run that opened it last; `Close` leaves a file whole
unless a device is full or another run opened it meanwhile. `sound` says that no
device is full and no read of one fails: otherwise a file may lose its tail when
it is closed, and header.bin and footer.bin may be copied in part (`Copied`),
all of it unseen. `met` remembers the
runs that overlapped one with the same signature, rip or output. The archive is
assumed to deliver the IRD of the disc, or to fail.

## Runs

| run | configuration | states | what it shows |
| --- | --- | --- | --- |
| `rebuild` | blocks of 4 bytes, 4-bit addresses, up to 3 files | 232 582 | success means the image of what header.bin and footer.bin deliver, and failure a beginning of it; the assert only stops full devices on well laid discs; bad frees only after a path error; `ImageContract` is kept |
| `rebuild_4gib` | second file beyond the wrap | violated | the assert of ird.c:666 fails on a valid disc |
| `rebuild_shared_block` | an empty file in the block of the next | violated | the same, through the unstable sort |
| `copy` | buffer of 2, sources of up to 5, sound or failing | 7 537 | what EXIT_OK is worth, that the loops end, and that they keep `CopyContract` |
| `scan` | blocks of 8, records of 3 to 5, two directories | 39 497 | table, frees, end, and exactness of the scan, also with a directory that ends in a block of zeros; no bad access and an end even where garbage is read as records |
| `scan_multi_extent` | one file in two extents | violated | README.md:7 does not hold |
| `load` | sections of 0 to 2 units, hashes that wrap, streams cut anywhere, images whole, cut off or bad, a device that loses tails | 1 114 720 | read whole or nothing, and nothing made up |
| `verify` | two names, two sums, two lengths, two changes | 1 275 546 | exact verdicts, also while the rip changes; sectors agree |
| `paths` | up to 5 directories, room for 4, buffer of 6, names of 1 to 18 bytes | 13 884 | paths are those of the disc; names fit their buffers; what a refused path frees |
| `identify` | 18 PARAM.SFO files, answers of 0 to 5 characters, buffer of 5 | 30 304 | the signature and what is fetched for it are those of the disc |
| `pipeline` | two runs, sharing all, one thing or nothing, sound or not | 7 176 342 | an undisturbed run that succeeds made a good image |
| `pipeline_given` | an IRD file with `-r` | violated | no IRD can be supplied |

Bounds. Every constant that stands for a size is small but keeps the relations
the code depends on: a block of 4 with addresses modulo 16 has files below, at
and beyond the wrap; a buffer of 2 and sources of 0 to 5 have full, short and
empty last iterations; blocks of 8 with records of 3 to 5 and a fixed part of 2
end exactly full, with padding that holds a fixed part and with less; a table
limit of 0 to 6 is below, at and above the number of files; devices are full
within the header, within a body or never. `JunkMax` bounds the memory written
by the out-of-range `fwrite`; the cells are all alike, and one is enough to be
misplaced. `Unbounded` (100) exceeds every device, as INT64_MAX does. `MaxAvail`
exceeds the longest IRD. `IntMod` is 16 for a `HashSize` of 2, so that 2, 5 and
9 hashes have a size that fits, is negative and wraps. Names of one to four
bytes per character, of 7 letters, and of 18 bytes are below and above `ByteMod`
16; identifiers are read with memory behind them that ends at once or goes on.
Two changes of a rip are enough to make one file of `verify` differ between its
two looks and be as it was, or to change both files. An answer of 4 characters
is the longest that a buffer of 5 holds, and it is cut in every possible way.
Two runs are enough for `Pipeline`: a property is about one run, and the other
one is killed, overlaps or comes before or after it. The proofs below have no
bounds.

Deadlock is checked in every run; a program that ended stutters in an action of
its own, `Terminated`.

Fairness. `FairSpec` of `CopyLoop`, `FileScan` and `DirPaths` is weak fairness
of the function's own steps: a sequential function that was called goes on
running. In `CopyLoop` the process that truncates the source gets none, and in
`FileScan` a failing `malloc` gets none: it could end any scan, and a scan that
comes back to the same state over and over would count as one that ends.
`RebuildIso`, `IrdLoad`, `VerifyFiles`, `Identify` and `Pipeline` state no
liveness: their loops run over tables and sections of fixed length. A download
has no timeout, so nothing can be said of the end of a run that waits for one.

## Disagreements with the documentation

1. Files at or beyond 4 GiB (run `rebuild_4gib`): the assert of ird.c:666 fails.
2. An empty file in the block of the next file (run `rebuild_shared_block`): the
   same assert.
3. Multi-extent files (run `scan_multi_extent`): README.md:7 promises them,
   iso.c:480 looks for the next record at the wrong place, and iso.c:618 does
   not count the entries of further extents.
4. `-r` (run `pipeline_given`): main.c:89 promises an IRD file, main.c:53 wants
   a directory.

Others, where the code contradicts no text, are in the properties that say
exactly what holds: version 7 IRDs never load (`IntactLoads`), the path buffer
can be overrun by one byte (`OverrunsByTheSlash`), a full `/tmp` cuts the header
unseen (`UnboundedLosesOnlyTail`, the condition `sound` of `AloneIsWhole`), a
read of header.bin or footer.bin that fails leaves zeros in the image or no
footer behind it (`ImageOfBins`), a full output device loses at most the stdio
buffer (action `Exit` of `ImageContract`), a PARAM.SFO without one of its
entries is accepted (`SignatureExact`), a hash table of 2 GiB is read in part
(`LoadedHasNoJunk`), names with surrogate pairs are mangled (`PathIsOfDisc`),
every ".." is read past its buffer (`NamesStayInBounds`).

## Proofs

The proof modules hold for every value of the constants that the assumptions
named in the modules allow; TLC evaluates the assumptions in each run. What they
ask for:

* `SizesAssumption`, `DiscsAssumption` (`RebuildIso`): a block of at least 4
  bytes (the code has 2048), lengths that fit the `uint32_t` of the record. Both
  are needed: with a block of 2 and a word of 2 bits the contract is broken.
* `CopyAssumption`: types, and INT64_MAX beyond what a device takes;
  `IrdAssumption`: types, an even size of a hash and an even modulus;
  `VerifyAssumption`: types, and an IRD with a hash for each file;
  `PipelineAssumption`: types.
* `ScanAssumption`: types, and a fixed part of a record that fits a block.
* `PathAssumption` (`DirPaths`): types, the layout of a path table (ECMA-119
  9.4: a record follows the one before it, behind a byte of padding if its
  name is odd), and file names that have their ";1" and without it are shorter
  than the path buffer (255 bytes against MAX_PATH_LEN).
* `SfoAssumption`, `NetAssumption` (`Identify`): as said above.

In each module the invariant `Inv` is inductive, and TLC has checked it in the
module's run.

* `RebuildIso_proofs`: `TypeCorrect`, `BadFreeCorrect`, `SuccessCorrect`,
  `AbortsCorrect`, `ImageContractCorrect`. `TypeOK` is inductive. `Control` adds
  what holds at each label (loop counter, path buffers, bytes accepted).
  `SuccessImage` is not inductive: `ImageInv` says for every label where the
  stream stands and that what is written so far is what there is of the header,
  the bodies of the first `index - 1` files and zeros. The heart is that a
  product modulo 2^32 that equals `ftell()` did not wrap if the gap is less than
  2^32 (`NoWrap`). `AbortsOnlyWhenFull` needs that the sorted table is in the
  order of the disc (`SortedIsLaid`), from which `LayingInv` follows the stream
  position. The refinement of `ImageContract` needs the same of a disc whose
  gaps are near the file before them in whatever order `qsort` leaves the table
  (`NearInv`), and that a successful run stands at the end of the image. Then
  each step writes only bytes that are their own (`GapIsFree`, `BodyBelongs`,
  `TailIs`) or is the step that dooms the run.
* `CopyLoop_proofs`: `CopyTypeCorrect`, `UnboundedCorrect`, `JunkCorrect`, and
  `ContractCorrect`, the refinement of `CopyContract`. The invariant counts the
  bytes in the output and in the buffer, and says that junk means a gzip stream
  at its error and that the size was lowered only at the end of the source.
  `Given` bounds what the stream of an unpacking was given, of which the close
  keeps what the device took. The contract is kept for every source and device:
  a gzip stream that fails, a file that shrinks and a lost tail included.
* `FileScan_proofs`: `ScanTypeCorrect`, `WithinTableCorrect`,
  `FreesOnceCorrect`, for headers of any content, damaged ones included:
  `Filled` says which entries are filled and which are leads. `ScanIsExactCorrect`, `NeverTornCorrect`, `IntactScansCorrect`, for
  mastered discs without multi-extent files. Their invariant `Exact`: the scan
  stands between records (`Between`), and the files that it has counted are
  those that it has passed, in this directory or in one before it (`Followed`).
  The heart is `SkipsNothing`: where nothing can be read no record starts in
  the rest of the block, because the first one to start there would have none
  before it. With a multi-extent file the scan goes on at an offset computed
  from a length (iso.c:480), and no layout keeps that from hitting the middle
  of a record.
* `IrdLoad_proofs`: `LoadTypeCorrect`, `LoadedHasNoJunkCorrect`,
  `AllOrNothingCorrect`, `BadFreeOnlyOnTitleCorrect`, `IntactLoadsCorrect`. The
  invariant gives the pointers and the stream position for each section; the
  only other case is a stream that is spent just after a compressed section,
  which the next checked read finds out (`Spent`); until then each image is what
  its stream and the device make of it (`Genuine`). That `pos = Total` unless
  the product wrapped is lemma `Wraps`. For an intact IRD (`IntactInv`) no
  section asks for more than the stream has (`WithinTotal`: a product that wraps
  is never more than the true one).
* `VerifyFiles_proofs`: `VerifyTypeCorrect`, `SectorsAgreeCorrect`,
  `VerdictExactCorrect`. That two sorted tables with the same sectors agree
  position by position is a pigeonhole argument: a permutation takes some place
  up to `i` to `i` or beyond (`SomeForward`), and some place from `i` on back to
  `i` or before (`SomeBack`), so neither table is ahead at `i`. `Judged` says
  what the states of the files before `index` are worth by what each has been so
  far (`Earned`, `Off`), and `Failed` that only a file that was there and is
  gone ends the verification.
* `DirPaths_proofs`: `TableIsCompleteCorrect`, `FreedOnceAndLastCorrect`,
  `DiesOnlyInTableCorrect`. `TableRead` holds the offset at the place of the
  next record (`Layout`, `RecordFound`); `LinksClimb` says that the list of a
  path climbs, each link an earlier directory than the next, so that none is
  freed twice. On top of that invariant, `NamesInv` gives `PathTypeCorrect`,
  `NamesStayInBoundsCorrect`, `OverrunsByTheSlashCorrect` and
  `PathIsOfDiscCorrect`: each name is what was made of its identifier
  (`NamesRead`), and the length that is tested counts every name below the
  first link and the file (`PathClimbs`). Three lemmas about `Utf16` carry them.
  `StaysInBounds`: the words read and the bytes written are bounded by the
  place of a word 0, which is behind an identifier of even length or one that
  ends with 0, and nowhere certain otherwise. `ConvertsUtf16`: without pairs,
  the masks and shifts of each 16-bit word (`Masks`, `CharIs`) give the UTF-8
  of its character. `JoinedHead`: a directory in front adds its name and one
  slash. That the path is the disc's then follows link by link from the file up
  to the root (`JoinedIsOfDisc`).
* `Pipeline_proofs`: `PipelineTypeCorrect`, `AloneIsWholeCorrect`,
  `NoSilentMismatchCorrect`, for any number of runs. `Lonely` and `OpenedApart`:
  a run that shares a file with another that is under way, or whose image
  another opened last, has met it; `Apart`: a run that met nobody was the last
  to open each of its files, and finds in them what it left.
* `Identify_proofs`: `IdentifyTypeCorrect`, `SignatureExactCorrect`,
  `FetchesWhatWasNamedCorrect`. `FieldsRead` says for each of the four strings
  that it holds the entry of the disc or has a byte nobody wrote, by whether the
  loop has come to its key; `Received` that the buffer holds what the callbacks
  delivered of one answer; `Stages` what is on the disk once a stage is over.

Induction: facts about the layout of a table of any length (`Grows`) are proved
in `DirPaths_proofs` from the well-foundedness of the natural numbers, used as
the existence of a least element of a set (`LeastElement`, `Induct`). What a
recursive definition computes (the bytes of a name, the words the conversion
reads, the path) takes two steps: there is a function with its equation
(`Forward`, `Backward`, `Joins`), so the one that the definition chooses has it
too (`Conversion`, `JoinedIs`, `DirPathIs`); then the equation is used by
induction over that function's arguments.

Only model-checked:

* liveness (`Returns`, `ScanEnds`, `PathsEnd`), which the prover cannot do;
* that names with characters of two words are wrong in the code: the proof of
  `PathIsOfDisc` excepts them as the property does.

## Not modelled

* Joining and normalizing of paths (cwalk is vendored), and the names with
  which files of the rip are opened: a file is found by its path or is not.
* `bin_to_ird`: copies fields that no other code reads.
* `print_iso_list`: called by nothing.
* `print_sfo`, `calc_checksum`'s arithmetic, the table of error texts, the
  texts of the report.
* Memory that is leaked, streams that are not closed (other than the output),
  printing.
* The servers: they answer anything to a question about no disc, and a file is
  delivered whole, short (in `Pipeline`), or not at all.

## Plan

Done: each part of a run has its module, main is around them in two views
(one run in detail up to the downloads, several runs that share files), copying
and rebuilding have their contracts; proofs of every invariant and refinement
that the passing runs check.

Next: a contract for `IrdLoad` (what a loaded IRD is, in one step) and the
refinement to it; `Identify` and `Pipeline` composed, so that a download that is
cut shows in the runs of `Pipeline`.
