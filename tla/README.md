# ulbscripts in TLA+

Models of the programs in this repository, their model checks and their proofs.

The repository holds two things: `src/fail0verflow`, C tools that build, sign,
encrypt, decrypt, verify and unpack SELF, PKG and other SCE files, and
`src/moz667`, shell scripts for everyday administration. The tools are sequential
programs that trust what they read: few of them check a bound or a return value.
What makes them right is arithmetic on offsets, the order in which one buffer is
hashed, signed and encrypted in place, buffers that are the same under two names,
and the agreement of two tools that never run together: what `makeself` or `pkg`
writes, `unself`, `unpkg` and `sceverify` have to read. That is what the models
are about. Only the shell scripts meet another process.

## 1. Inventory

| Part | State it keeps | Operations | What makes it right |
|---|---|---|---|
| `makeself.c` | offsets of nine parts of the header, `phdr_map`, the image `self` | `build_*_hdr`, `compress_elf` or `fill_phdr_map`, `build_hdr`, `write_elf`, `calculate_hashes`, `sign_hdr`, encryption, `fwrite` | no part overwrites another; the signature covers what it should; the image fits its buffer; the file has each segment where the header says |
| `unself.c` | `self_sections`, `elf_offset`, `self_offset`, the output | `read_header`, `read_sections`, `self_decrypt`, `write_elf`, `check_elf` | the ELF file that comes out is the one that went in, with headers that can be read; where the offsets fit 32 bits and there are no more than 127 compressed sections, the walk ends and stays inside its arrays |
| `tools.c`, SCE part | the file in memory | `sce_encrypt_header/_data`, `sce_decrypt_header/_data`, `aes128ctr` | decryption undoes encryption, the counter goes on correctly, nothing stays in clear |
| `tools.c`, key store | `struct key`, `struct keylist`, a directory of files | `key_get`, `keys_get`, `key_get_simple` | a key that signs is found again by those who verify |
| `sceverify.c` | the key that opened the file, `did_fail` | decryption, `verify_signature`, `verify_hashes` | a good file passes, damage is seen, and seen where it is |
| `pkg.c`, `unpkg.c` | info, keys and content of a package; the files on the disk | as `makeself`, with fixed sections; unpacking of the content | as above; a package that is cut off is not taken for a whole one |
| `cospkg.c`, `cosunpkg.c` | the table of files | reading of a directory, packing, unpacking | files lie apart and come back under their names |
| `bn.c` | digits of numbers | `bn_add`, `bn_sub`, Montgomery arithmetic | results are those of arithmetic modulo N, with any two of the buffers the same |
| `ec.c` | the curve, the keys, points | `ecdsa_sign`, `ecdsa_verify` | what is signed verifies; verification is the equation of ECDSA |
| `sha1.c` | block, index, two words of bit count | `SHA1Input`, `SHA1PadMessage`, `SHA1Result` | no octet lost or doubled, the padding is the standard one |
| `puppack.c`, `pupunpack.c` | tables of segments and of hashes | packing, checking, unpacking | as `cospkg`; what `pupunpack` says of a file is so |
| `norunpack.c` | position in nested tables, working directory | `do_toc` and its recursion | each path restores the directory; the tree is the one in the dump |
| `ungpkg.c` | the package, the counter | two decryptions, unpacking | each octet meets its octet of the stream, files land where they should |
| `readself.c` | | printing | |
| `aes.c` | | the AES cipher | third-party code, taken as ideal |
| `temerge-sinoshuke.sh` | the mounts on `/var/tmp/portage` | check, `mount`, `emerge`, `umount` | one tmpfs, and each run unmounts its own |
| `dos2unix.sh`, `unix2dos.sh`, `iso2utf.sh`, `*-pattern.sh` | a file and a temporary one beside it | `ls`, `awk` or `iconv`, `mv` | the file is never lost nor half converted |
| other scripts | | external commands | |

How the parts meet:

- `makeself` and `pkg` take a key from the store by type and suffix, fill the header,
  put the hmac of every section into the metadata (`sha1_hmac`), sign the header
  (`ecdsa_sign`, which stands on `bn.c`), encrypt the data section by section and
  at last the header, in one buffer that each step changes for the next.
- `sceverify`, `unself` and `unpkg` load all keys of the type, take the first that
  opens the header, and undo the steps in the opposite order. `unself` then rebuilds
  the ELF file from the section headers, which name only what is compressed.
- `puppack` and `pupunpack` take one key with `key_get_simple`; `cospkg`, `pkg`, `puppack`
  and their counterparts meet at the file system, where `pkg` truncates its output before it
  has looked for its inputs.
- The tools share nothing but files. Within a tool the parts share buffers: the
  metadata holds entries, hashes, keys and the signature; `bn.c` is called with the
  destination as one of the operands; `ec.c` converts `R` and `S` in the file.

What is hard in this code, line by line, is the list `hazards` in `PROJECT.json`:
arithmetic on offsets from the file, in 32 bits where the headers have 64; fixed
arrays and buffers without checks; in-place steps whose order matters; return values
that nobody looks at; the order of `readdir()`; the working directory that is
changed and has to be changed back; outputs that are opened before the inputs; in
`temerge-sinoshuke.sh` the time between the look at the mounts and the mount; in the
converters the temporary file that two runs share.

## 2. The modules

All definitions are translated from the source; `map` in `PROJECT.json` names the
lines of each. A definition whose name begins with `Bad` is not part of a model: it
is a variant of the definition after it with a plausible mistake (a wrong rounding, a
swapped order, a dropped test). Put in the place of the right one it breaks a
property, which shows that the property depends on the code. `mutants` lists the
pairs.

| Module | Code | State and actions |
|---|---|---|
| `RoundUp` | `round_up` of `tools.h` | operator |
| `SelfLayout` | `makeself.c` `main` 549-557, `build_hdr`, `calculate_hashes`, `sign_hdr` | `Layout` computes the offsets, `BuildHdr` is one `memcpy`, `CalculateHash` one section; `written` is the set of pieces written so far. `call` is the call of `main` that comes next, `step` the loop index, `header` the ELF header; names differ from those of `Makeself` so that one module can extend both |
| `ElfFile` | `parse_elf` | the fields of an ELF file, and what is assumed of them |
| `Makeself` | `compress_elf`, `fill_phdr_map`, `write_elf`, `main` 571-592 | `MapPlain` and `MapCompressed` place a segment (zlib may return any smaller size), `WriteSegment`, `WriteRest`, `WriteFile`; a copy outside of the buffer goes to the state `undefined` |
| `SelfBytes` | | the bytes that `Makeself` and `Unself` share: of the ELF file, of a stream, zero, junk |
| `Unself` | `read_header`, `read_sections`, `write_elf`, `decompress`, `check_elf` | `ReadHeader` per section header, `Sort` for `qsort` (any order of equal keys), `Compressed`, `Gap` and `Rest` are turns of the walk, `WritePlain`/`WriteUnpacked` of the output; then the check of the ELF header and, where it is not there, new headers and names. What the headers hold are 64 bit fields, so any number; running positions are assigned modulo `W`, and compared with the fields as they are. `Overrun` is a write behind `s[]` or `self_sections[]`, of `MAX_SECTIONS` elements |
| `SelfRoundTrip` | both tools | extends `Makeself` and `Unself`, whose variables and actions have names of their own (`upc`, `ui`, `UNext`); `Open` gives the file of one to the other |
| `SceCrypto` | the four `sce_*` functions, `aes128ctr`, `aes256cbc` | operators; a cell is a value and the set of key stream bytes that lie on it, so that xoring twice is the identity and anything else is not. A key is a cipher key and an iv: which key of a list opens a header is a matter of the cipher key alone, as `sce_decrypt_header` looks only at octets that the iv does not reach; with another iv the key of the metadata, and all that it decrypts, is garbage |
| `SceFile` | the producers' hash, sign, encrypt; `sceverify`; the readers | one action for each section and step; `Damage` changes one cell of the stored file, any one, or of a block that is not used to its end (the signature has 42 octets of 48, a hash 20 of 32) only the rest. A number that is damaged, or decrypted with the wrong key, is wild: a reader that follows it may meet any section, length or verdict, spoil any part of the file (`Wilds`), or leave it (`Stray`, to the state "lost") |
| `KeyStore` | `key_get`, `keys_get`, `key_read`, `get_keys`, `get_key`, the types in the header | `Sign`; `ReadDir(x)` for each directory entry in any order; `DecryptHeader` (with the first key that has the cipher key, whatever its iv; with another iv the state is "garbled"), `Verify` |
| `BnLoop` | `bn_add_1`, `bn_sub_1` | named buffers, one action for each digit, any two buffers the same |
| `BigNum` | the rest of `bn.c` | functions on digits |
| `BnRegisters` | the calls `ec.c` makes | two registers and a modulus, an action for each call |
| `FieldArith` | abstract | the same calls as arithmetic modulo N |
| `Bn` | | joins the two levels: the digit loops, or the calls on whole numbers |
| `Ecdsa` | `ec.c` | points as operators, `GenerateR`, `GenerateS`, `CheckToMon`, `CheckW`, `CheckCompare` as actions on the buffers `R` and `S`, which a file fills with any octets |
| `Sha1` | `sha1.c`, streaming and padding | `SHA1Reset` is the initial state, then `SHA1Input`, then `InputOctet` for each octet; `PadFirst`, `PadLength`; a block stands for its compression |
| `CosPkg` | `cospkg.c`, `cosunpkg.c` | a turn of `readdir` is one of five actions; the header, then one file after the other into the image; unpacking. Without any file `build_hdr` reads `files[-1]`: that ends the tool (`EmptyDirectory`) or gives some size that nobody uses |
| `FileSystem` | `mkdir`, `fopen`, `memcpy_to_file`, `mmap_file` as the tools use them | operators on a set of directories and a function from paths to files |
| `Pup` | `puppack.c`, `pupunpack.c` | a turn of each loop is an action: `FindFile` for a name of the table, `PlaceFile`, `BuildEntry` and `WriteData` for a file, `UnpackSection` for a section; `Damage` of one word between the tools. `sha1_hmac` takes a 32 bit length where both tools have 64: `Hashed` is what it sees. `HashOffFile` and the last branch of `UnpackSection` read behind what is mapped; what `fwrite` could not write is not noticed |
| `Pkg` | `pkg.c`, `unpkg.c` at the file system | the output is truncated, then the key and the inputs are read; `pkg` may be stopped at each step, or the disk be full; then the steps of `unpkg` |
| `NorUnpack` | `norunpack.c` | an action for each branch of `do_toc`; its recursion is a stack of callers |
| `Ungpkg` | `ungpkg.c` | one octet of `decrypt_debug_pkg` at a time, the retail decryption at once (with `W` octets or more `aes128ctr`, which counts with 32 bits, never ends: `RetailRunsOff`), one entry at a time |
| `Archives` | | extends `CosPkg` with instances of the four modules above; one pair of tools runs at a time |
| `Converters` | the five converter scripts | several runs: `List`, `Redirect`, `Read`, `WriteWhole` or `WritePart`, `Move`, and `Kill` at any time; `todo` is what is left of the output of `ls`, a pattern and a name for each line |
| `TmpfsEmerge` | `temerge-sinoshuke.sh` | each run's `Check`, `Mount`, `Compile`, `Unmount` |

`MC...` modules and their `.cfg` give the constants small values. `MCTools` has the two services of
`tools.c`, `KeyStore` and `Sha1`, one at a time. `SelfProofs`
(for `SelfLayout`, `Makeself`, `Unself` and `SelfRoundTrip`), `SceFileProofs`, `ToolsProofs` (for the
two services of `tools.c`, `KeyStore` and `Sha1`, whose names differ so that one module can extend both),
`BnProofs`, `ConvertersProofs`, `PupProofs` (for `Pup`) and `ArchivesProofs`, which extends it (for `CosPkg`,
`Pkg`, `NorUnpack`, `Ungpkg` and `Archives`) hold the theorems, `Lemmas` what several of them need about remainders, `round_up` and
sequences.

Abstractions that all of them share. Contents are names: byte b of the ELF file, a
hash of exactly these cells, a signature by this key. So cryptography is ideal, and a
property that holds says that the program composes it properly. A copy that would
leave a buffer ends the run in a state of its own; what C would do then is not
modelled. Files do not change while one of the C tools runs; the scripts meet each other.

## 3. The runs

| Run | Bounds | Shows |
|---|---|---|
| `self_layout` | 0, 1, 2 and 7 program headers, ELF headers and entries of usual and of odd sizes | no piece of the header overwrites another (`PiecesApart`), hashes leave entries, keys and ivs alone (`HashesSpareTheKeys`), the signature is behind what it signs (`SignatureBehindSigned`) |
| `unself_walk` | all tables of up to two sections on a small grid, three on a coarser one; words of 8 values and offsets and sizes beyond them; arrays with room for two compressed sections | at most two pieces for a compressed section and one more where the offsets fit a word, and then neither array is left unless there are too many (`PiecesBounded`); neither hole nor overlap unless two pieces are compressed (`PiecesFollow`); each compressed segment once if the headers are well placed (`EachSegmentOnce`); the walk ends where it can (`Terminates`) |
| `self_round_trip` | ELF files of five bytes and both classes, up to three segments, overlapping, unaligned and empty, every size zlib could return | `SegmentsApart`; `BufferSuffices`, with `-c` for a tidy file; `AllStored`; the ELF file comes back, whole (`PlainRoundTrip`) or its segments (`SegmentsRecovered`); the headers that `check_elf` makes can be read (`RepairedReadable`) |
| `sce_file` | pkg-like and self-like files, plain, encrypted, overlapping, unaligned, empty sections; six key lists, one with the key under another iv; one damaged cell, any of header or data, or the unused end of a block; wild numbers lead nowhere, into the counts, or over the slots, the signature and the data | decryption restores the file (`Restored`), no byte of key stream is used for two bytes (`KeyStreamUsedOnce`), what is encrypted is nowhere in clear (`NothingInClear`), a good file verifies (`VerdictOnGoodFile`), damage in what is signed or hashed is noticed (`DamageNoticed`) and stays with the sections it is in (`DamageStaysLocal`) |
| `sce_file_unaligned` | as `sce_file` | finding, see below |
| `bn` | loops: three buffers of three binary digits, any aliasing; calls: numbers of two digits of two bits, all odd moduli | the digits done and the carry are the sum (`SumSoFar`); a loop that returns has done what the operator of `BigNum` does (`LoopsAreBigNum`); any sequence of calls implements `FieldArith` (`ImplementsField`). The inverse table of `inv256` is checked whole |
| `ecdsa` | two curves over 13 elements, of order 11 and 17; every hash and random number; signatures of R and S on both sides of N, zero, and all digits set; keys on both sides of N | multiples of points are right, the zero included (`MultiplesRight`); `ecdsa_verify` is the equation of ECDSA for the numbers that it leaves in R and S, and those are the ones it got if they are below N (`CheckIsEquation`); what is signed verifies (`SignatureVerifies`) |
| `tools` | keys: two suffixes, one with all files, each file of the other missing, cut off, whole or, key and iv, that of the first; stray files; all types. Hash: blocks of 4 octets, length of 2, words that wrap after 2 and 10 octets, chunks of up to 3 | what is signed is verified, in every order of the directory (`SignedIsVerified`); `key_get` and `keys_get` agree (`ListAgrees`). No octet is lost or doubled (`NothingLost`), the count is right until it overflows (`LengthCounts`), `PaddingIsStandard`, a digest is final (`DigestStays`) |
| `archives` | `cospkg`: directories of up to three entries of eight kinds, none at all, an array of two. `puppack`: up to three files of up to two words, and some of `W` = 31 words and more, the number that the length of a hash wraps at; damage to each word, to the high half of each number and to the padding of each hash, no key, no directory. `pkg`: complete, short and missing inputs, a full disk, a stop at each step, an older or foreign package, each kind of target. `norunpack`: three levels of tables with files before, between and behind them. `ungpkg`: up to three entries in each order, nested directories, both kinds, blocks that end inside and at the end, packages above and below `W` octets | files lie apart and `get_files` does not leave its array (`Intact`), everything comes back (`Unpacked`); `PupRestored`, `PupVerdicts`; `PackageWhole`; `NorAsTree`; `GpkgRestored` |
| `converters` | one or two runs, patterns that match one, both or all files, one twice, the temporary file of a run that was killed | every file is there, whole, at any time (`AlwaysWhole`), and converted as often as it is listed when all have ended (`ConvertedAsListed`) |
| `cospkg_names` | as `archives` | finding, see below |
| `tmpfs_emerge` | two runs of the script | finding, see below |

The bounds keep what makes the cases different: an alignment of two still has aligned
and unaligned offsets, a block of two still has a counter that crosses blocks and
sections; a word of eight values still wraps; two curves have coordinates above
and below the order; two entries of a table can be in both orders, overlap, touch
and be apart; three levels of tables have a table that is left for one that is not the
outermost; one damaged word can be any of a package. Where a property is proved as well,
the proof has no bounds.

Where the properties have conditions, the code does not do more:

- `BufferSuffices` with `-c`: aligned segments that do not overlap, before the section
  header table (`Tidy`). For others the aligned copies may need more than
  `header_size + elf_size` bytes and `write_elf` leaves the buffer; with no program header at
  all `phdr_map[-1]` is read. Both are states of the model.
- `PiecesBounded`, `Terminates`: `filesize` and the offsets of the compressed sections are below 2^32
  (`Narrow`) and at most 127 sections are compressed (`Enough`). The code has no such test: with a larger
  offset the comparison in line 133 is never true and `read_sections` appends pieces of no size for ever,
  with a larger `filesize` the 32 bit position never reaches it, and more compressed sections
  need more than the 255 elements of `self_sections[]`. All three end in "overrun".
- `SegmentsRecovered`: there are enough elements for the pieces (`Enough`), and the loadable segments ascend in the file and do not overlap. With
  `-c` a segment that zlib cannot shrink is not in the list `unself` works from: it comes back
  only where it continues its neighbour (`Continues`), and else at another place or not at
  all. Where the ELF header does not come back, `check_elf` writes one and the program
  headers to the start of the file, over whatever segment is there (`Kept`).
- `RepairedReadable`: the file is at least as long as the program headers that
  `check_elf` puts into it (`HeadersEnd`); else they meet the section headers.
- `AllStored`: with `-c` the file ends in bytes behind the buffer (junk in the model), as
  `compressed_size` has the header in it already. Nobody reads them.
- `VerdictOnGoodFile`: a reader may find another key first that opens the file. One with another public key
  or another iv makes the signature `FAIL` on a good file. With another iv the header is garbage, so nothing
  is said of the hashes then, and `sceverify` may leave the file; `KeyStreamUsedOnce`, `Restored` and
  `DamageStaysLocal` speak of a key with the right iv (`RightKey`). Sections beyond `filesize` are reported
  as unknown, not as wrong. The sections lie inside of the data and are below 4 GiB, as `sha1_hmac` and
  `aes128ctr` count with 32 bits (`FilesAssumption`).
- `DamageNoticed`: not of the padding of the header, of the octets behind the 42 of the signature, nor of
  data in no section that is checked. It says that damage does not *pass*: a reader that follows a wild number
  may as well leave the file, which is the state "lost" and no verdict.
- `SignedIsVerified`: not for a suffix with a hyphen, which `key_get` takes as it is while
  `keys_get` keeps only what is behind the last hyphen, and not when another suffix has
  the same key (`Twin`), with the same iv, another or none: the directory then decides which one opens the
  header, whose public key is used, and whether the metadata comes out right.
- `CheckIsEquation` has no condition, but the equation it states is that of the code: nothing tests that R and S are
  below N or different from 0. Where S is 0 its inverse is 0 and the sum is the zero of the curve, whose x
  coordinate counts as 0, so that R = S = 0 is accepted for every hash; and numbers from N on are
  what `bn_to_mon` makes of them.
- `SignatureVerifies`: the random number and S are not 0, and the x coordinate that becomes R is below N.
  `ecdsa_sign` does not draw again otherwise.
- `Intact` says of `get_files` that it does not leave the array. `build_hdr` does, for a directory without files,
  by reading `files[-1]`.
- `LengthCounts`: until both words overflow, at 2^64 bits.
- `PupVerdicts`: with the key, and not of what no hash covers (`Unhashed`): the padding at the end of the header,
  and of a file of 4 GiB or more what is behind its length modulo 2^32. A damaged high half of a length
  does not change the verdict on that file, but the one on the header. A part that `fwrite` does not write goes unnoticed.
- `PackageWhole` speaks of `unpkg` runs that end without an error. A package that `pkg` was stopped
  in is empty or cut off and refused; what it replaced is gone.
- `GpkgRestored`: a retail package of 4 GiB or more is never unpacked, as the decryption runs off what is mapped. A file whose directory comes later in the package ends the tool, which does not
  look at what `fopen` returns, and a directory whose parent comes later is not made (`ordered`).
  The files of a run that ends are right in either case.
- `AlwaysWhole`, `ConvertedAsListed`: not for a file that two runs are at at the same time, nor
  one of which `awk` failed (`trouble`): `mv` replaces the file all the same, by nothing or a
  part of it. Two runs are at a file also when one converts what is the other's temporary
  file, or has given the file that the other writes another name (`At`). Nor do they speak of a file
  that has the name of another's temporary one (`Safe`). So two runs at one file and a failed `awk`, which are
  hazards of these scripts, are in the model but not caught by a property. `iso2utf.sh` given a
  path makes a temporary name in a directory that is not there; its names here are those of one directory.

Fairness. The tools are sequential programs that nothing blocks: a step that can be taken
is taken, so `Unself`, `Makeself` and `SelfRoundTrip` have weak fairness of the next-state
relation. Only `Terminates` needs it: that the walk of `read_sections` ends where the offsets fit 32 bits is not obvious, as
a header may set its position back. Nothing is promised of a script that
may be killed. Deadlock is checked where the model goes on for ever (`bn`) and is not
an error where the program ends.

## 4. Findings

- `cospkg_names`: `cospkg.c:53` refuses a name only when it is longer than 0x20, and
  `cospkg.c:62` copies 0x19 characters. A name in between comes back cut, and two of
  them can become one file.
- `sce_file_unaligned`: `sceverify.c:221-223` prints that "the hash will always fail for unaligned non-LOAD phdrs".
  A section that is not encrypted has its hash taken over the octets where its entry says they are, by
  `makeself` as by `sceverify`, wherever they begin: it is right. (`VerdictOnGoodFile` says so of all sections.)
- `tmpfs_emerge`: `temerge-sinoshuke.sh` looks at the mounts and then mounts. Two runs that look
  before either has mounted both go on; two tmpfs are stacked, although
  the script says "tmpfs already mounted!" to a second run.

## 5. Proofs

TLAPS proves the following for all values of the constants; TLC checks the same
formulas on small ones first, where a run has them.

**`SelfProofs`**, the header — for every ELF header of at most 255 program headers and any
`e_ehsize` and `e_phentsize`: `PiecesStayApart`, `HeaderAlwaysFits`, `HashesSpareKeys`,
`SignatureCoversHeader`, `VersionIsNext`. The invariant `LayoutInv` adds to the types that
the offsets are those of `LayoutOf`, and that each piece in `written` is one of the
eight copies, the hash of a section, or half of the signature; without it nothing is known of a
piece that was written earlier. The lemmas then order the offsets (from
`round_up(x, n) >= x` and that it is a multiple of n) and place each hash inside the metadata.
`HeaderFits` has no run of its own.

Part one of it, `makeself` — for every ELF file whose tables lie inside of it, every
alignment and header size, and whatever zlib returns: `SegmentsStayApart`, `AllAreStored`,
`BufferAlwaysSuffices`. `SegmentsApart` is not inductive, as nothing ties the next segment to
the last: `Placed` adds that `offset` is aligned and behind all segments placed. Nor is
`AllStored`, which speaks of the file only: `Copied` says which segments are in the buffer after
each copy, so that a copy has to spare those before it, and `Mapped` that all of them end before
the section header table. For the buffer the sizes of the segments in the SELF file have to be
bounded by the ELF file's, a sum over the segments. It is carried by the steps of the program
itself: with every segment `offset` grows by no more than the number of addresses that the
segment and its padding cover in the ELF file (`Covered`, `CoveredGrows`), all of which lie in
front of the section header table and none of which was covered before, so that the
cardinality of a set takes the place of the sum.

Part two, `unself` — for every width of words, size of the arrays and file, with any 64 bit fields: `PiecesAreBounded`,
`PiecesAlwaysFollow`, `EverySegmentOnce`. `WalkInv` adds `Bound`, how many pieces there are while the
walk is at section i where the offsets fit a word (two more with each turn are allowed, the last one included), and `Joined`,
that `elf_offset` is where the last piece ends; `PiecesFollow` alone is not inductive, because
nothing ties the next piece to the last. For `EachSegmentOnce`, `OnceInv` adds that `s` lists each
compressed section once (`Listed`), in ascending order after `qsort`, and, where the headers are
well placed, that all pieces lie in front of `elf_offset` and the segments still to come behind
it (`PiecesPlaced`). So no word wraps, no array is left, the walk cannot end too early, and a second piece of a segment
would overlap the first.

Part three, one behind the other — `PlainComesBack`, `SegmentsComeBack`, `RepairedIsReadable`, for
all of this at once. `RoundInv` joins the invariants of both tools through the file between them:
from `makeself` it takes what the header says of each segment and that the segment is there
(`PackInv`), from which the headers `unself` reads are in order, so that `OnceInv` says something.
`Continued` follows the segments that are not compressed and so not in the list: each is still to
come behind one that is, is where the walk is now, or has come in a piece that goes on to its end.
`PiecesHeld` says that a piece, once written, is not written over by those after it, and the last
step, from `check_elf`, that the tables it makes spare what the properties name.

**`SceFileProofs`** — for every list of sections, plain or encrypted, apart or overlapping, every
list of keys in every order, with any iv, every size of a block, any one damaged cell of header or data, and whatever
is read where a wild number leads: `NoKeyStreamTwice`,
`WrittenIsEncrypted`, `ReadersRestore`, `GoodFilePasses`, `DamageFound`, `DamageIsLocal`. `IInv`
gives every cell of the buffer at every step: its value (`Header`, `Data`) and the set of
key stream bytes that lie on it (`Streams`): while sections are encrypted those of the
sections done so far, while they are decrypted those of the sections still to do. As the set
grows and shrinks by symmetric difference, that no two sections share a byte of key stream is what the
whole rests on. `Verdicts` says of each section that was looked at what was said of it. Then each
property is about a single state. `OpensIff` says which keys of the list open a file: those with
the cipher key of the signer, whatever their iv, if the four blocks with the key of the metadata are undamaged. So a reader
with the right iv that goes on has the header as it was signed, but for the damaged cell. Where a number
is damaged, or the iv is another, the reader is astray (`Astray`): then it is enough that each cell of the header
is what is stored there or unknown, and with another iv unknown (`SeenOrLost`, `AllLost`), so that no
length of what is signed makes the signature `OK` (`Wandering`): each of those numbers is among what is signed.

**`ArchivesProofs`** — `cospkg` and `cosunpkg`, for every directory, every order of its entries, every
array and alignment: `TypeCorrect`, `FilesStayIntact`, `AllIsUnpacked`, `ArchivesIntact`,
`ArchivesUnpacked`. `Intact` speaks of the finished package; `IInv` adds how many entries there
are, that their offsets ascend behind the header (`Ordered`), that the header and table are stored
once they are written, and that each file is, as long as later ones are written behind it.
`OutInv` goes on with the reader: `AllTaken` says that after `readdir` every regular file of the
directory is in the array, `Tabled` and `Described` that the table has its place, and `Out` that each
entry unpacked is the file it was.

`pkg` and `unpkg`, for every size of the infos and of a page, every alignment and content:
`PackagesAreWhole`. `PkgFile` is what can be said of a package wherever the writing was
stopped: what is there is right, and if something is missing it is of a compressed content,
so that `inflate` notices; `MayBe` adds the empty file that is there before the inputs are read. That
the old package in the file was one is an assumption about the jobs (`PkgAssumption`).

`ungpkg`, for every block size, width of words, every package and every file system: `GpkgIsRestored`. `UInv` says which octets are
decrypted and that the counter is the number of the block of the octet before (`Decrypted`,
`CounterIsBlock`), and of every file whether it is the one that was there before or the last entry
with its path (`FilesSoFar`). In a package in order no entry can meet a missing directory
(`ParentIsThere`), which is why it does not crash, but for a retail package of 4 GiB or more.

`norunpack`, for every dump and every file system: `NorIsAsTree`. The heart of `NInv` is `Stack`: of
the tables that `do_toc` is in at once, the first m names of the working directory are where
the m-th unpacks to, the entries before the one it is at are there with all that is in
them (`EntryThere`), and that one is the table it has called itself for. So a return finds its
caller's directory by leaving one name off, and what it leaves is there to every depth: a table of which all
entries are there is there with every table that has a longer path (`WalkedIsThere`), which
needs no induction, as the path itself names the entry to go through. `OnlyTree` says that nothing
else was changed.

`puppack` and `pupunpack`, for every table of names, set of files, width of words and place of the damage: `PupIsRestored`,
`PupVerdictsHold`. `PInv`, in `PupProofs`, goes with the loops. `FoundSoFar` says that the list holds the
files that exist of the names looked at, none twice; `Placed` that they lie behind the header
without gap or overlap, which is stated of each pair of files, as offsets by recursion could not be used;
`HeaderSoFar` that the entries of the first files are in both tables. There `BuildEntry` needs that
the padding of a hash reaches into the next entry but not into one that is done. `WrittenSoFar` says
it of the file, and that no word before the data but the hashes is one. `PackageIs` splits by the place of the
damage: there is none, or it is in what the hash of the header covers or in that hash, which then
differs whatever number of sections is read from it (`HeaderWrong`), or it is in the padding or the data
and the header is whole (`HeaderThere`). In the first and third case the tables can be read, so that each section is found, is inside
of what is mapped and is written where it belongs (`UnpackedSoFar`). In the second the first verdict
is `FAIL`, and nothing else has to be known (`Unpacking`).

`ArchInv` joins the tools: one runs, and the others are where they started.

**`BnProofs`** — for every radix, length, set of buffers and aliasing: `UnreadStaysIntact`,
`SumHolds` and `LoopsImplementBigNum`. The first two properties are inductive together with the
types: that the next digit is added rightly needs that it is still unread, and that the
sum grows needs the weight w. Both loops share a lemma for a turn. `UnreadIntact` has no run
of its own. For the third, `RippleInv` compares the buffer with the recursive function that
`BigNum` adds with (`Rippled`) at each turn, from the right. That the function exists is shown by
taking the least column that it does not reach (`Least` of a set of numbers), which takes the place
of the induction theorems.

**`ToolsProofs`** — the keys, for every store, every set of curves and every order of the directory:
`SignedIsAlwaysVerified`, `ListAlwaysAgrees`. A key that is good for signing is in the list or
its file is still to be read (`GoodAreRead`), and each entry of the list is what one turn of
`keys_get` has made (`AllAreRead`). `EntryIsKey` is the core of it: such a key does not take
anything from the turn before, though `bfr` is kept. Conversely, an entry that opens the
header was read whole, so that it is the key itself or belongs to another suffix in the store.

The hash, for every size of block and words: `ContextTypeCorrect`, `NothingIsLost`,
`LengthIsCounted`, `DigestIsFinal`, `PaddingIsAsStandard`. The invariants relate the blocks
processed, the filled part of the block and the rest of the input to the whole message, and the
index to the octets counted. For the padding they add that only whole blocks are processed, that
a block goes before the one with the length only if the mark and the length did not fit into
one, and that the zeros are as many as are missing to whole blocks.

**`ConvertersProofs`** — for every directory, any number of runs and patterns, every run killed or
not, and wherever `awk` fails: `FilesAreAlwaysWhole`, `AllIsConvertedAsListed`. Neither is inductive, as
neither says what is in a temporary file. `IInv` adds how far each run has got with its file
(`InProgress`: the temporary file has its name and is empty, then has all of the converted file),
that of two runs at one name it is known (`Apart`), that what a run writes has the name of a temporary
file (`OpenIsTemp`), and where each name comes from (`NamesKnown`). `FilesWhole` makes the number
of conversions exact: it is that of the entries of all lists that the runs have behind them, a cardinality
that each `mv` raises by one. `OnceMore` says that k + 1 conversions are one of what k have made; it
compares two recursive functions at the least place where they would differ. That awk writes to
a file under another run's hands, or reads what is not there, are steps that the proof has to go through like the others.

**`Lemmas`** — the arithmetic of remainders, since words wrap and offsets are aligned; what
`round_up` returns; appending and joining sequences.

From which assumptions: the `ASSUME`s of the modules, which give the constants their types
and the limits of the formats; each is evaluated in a run. Those that say more:

- `ElfsAssumption`, `SizeAssumption`: the tables of an ELF file lie inside of it, no file is empty,
  and the SELF file is below 4 GiB, as its 32 bit offsets need it. `Unself.SizesAssumption`: a
  section header is not empty and not longer than the stride from one to the next.
- `MaxAssumption`, `WAssumption`: arrays have elements and words values.
- `FilesAssumption`, `KeysAssumption`: the sections lie inside of the data, and are smaller than 4 GiB; keys have a
  cipher key, an iv and a public key.
- `EntriesAssumption`: a name has a rest if it is longer than what is kept of it, and `.` and `..` are
  not among the files.
- `PkgAssumption`, `GpkgAssumption`: what the tools are given is what the record of the job
  says. The old package of `pkg` has these parts; each cell of the package of `ungpkg` is encrypted with its own
  octet of the stream, the entries are those of the tree, and `ordered` means what it says.
- `ConvertersAssumption`: `ls` has each name once, no file is its own temporary one, a run has finitely
  many patterns, and what they match has a temporary name.
- `PupAssumption`: the names and numbers of the table are different, `PAGE` is a natural number, the header is shorter than 4 GiB, files
  lie in directories, and neither the package nor a name of the table is one. The
  words of the files are numbers or others, and not hashes that the key has made.
- `NorAssumption`: the dump of `norunpack` was made of a tree. Its tables have a directory each,
  and two files of one path are the same.

Nothing else is assumed.

Only model-checked:

- `Terminates`, as liveness is out of the prover's reach.
- `ImplementsField` and the three properties of `Ecdsa`: numbers are sums over digits by
  recursion, the inverse modulo N is a power, and that a curve is a group is a
  theorem of mathematics that would have to come first.
- the findings, which are counterexamples.

## 6. Not modelled

- `aes.c` is third-party code. `readself.c` prints what `unself.c` reads, and keeps no state.
- The compression function of SHA-1, the readers of ELF fields and the contents of headers that
  nobody reads are data. The curves' table and the choice of the directory of keys are
  parameters; `Pup` has `key_get_simple` as a key that is there or not.
- ELF files with more than `MAX_PHDR` program headers write behind `phdr[]` and `phdr_map[]`;
  the code does not check it, and the models assume it does not happen.
- `temerge-sinoshuke.sh` unmounts although its `mount` may have failed. Both outcomes are in the
  model; no text promises anything of that case, so no property is about it.
- The backup and administration scripts are one external command each, or a pipe of them. The
  wireless scripts are menus around radio programs that are not in the repository.

## 7. Plan

Done: all of the C tools but `readself` and the cipher, and the scripts that keep state;
proofs about the layout, `makeself`, `unself` and their round trip, the SCE file, the key store, `cospkg`,
`pkg`, `puppack` and `pupunpack`, `ungpkg`, `norunpack`, the digit loops, SHA-1 and the converters.

Left, theorems:

1. `BnRegisters`: that the calls without an inverse implement `FieldArith`, with the value of a number
   compared at the least digit where two differ, as the digit loops are now.
2. `Ecdsa`: `CheckIsEquation` from `ImplementsField`; then `SignatureVerifies`, with the laws of the
   group of a curve as assumptions on its parameters that TLC evaluates.
