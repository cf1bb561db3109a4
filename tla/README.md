# A verification development of fies

fies packs files, directories and volumes into a stream (a *fiestream*) in
which shared extents are sent once, and makes files of it again. This directory
holds TLA+ models of its core, configurations that check them with TLC, and
theorems about them that TLAPS checks. Paths below are relative to the
repository (`lib/emap.c`), line numbers are those of the modelled commit.

## The system

| component | state | operations | hard behaviour |
|---|---|---|---|
| extent map, `lib/emap.c` | per device a sorted list of owned physical extents | `FiesEMap_add`: answers a request piece by piece through two callbacks | overlapping requests, insertion into the list being walked, failing callbacks |
| writer, `lib/fies_writer.c` | devices and their maps, next file id, the position in the current file | `writeFile`, `readRefFile`, `snapshots` | merging, clipping, holes, sharing within and between files, a put that fails |
| reader's buffer, `lib/fies_reader.c` 81-180 | 128K of bytes, `at`, `filled` | `bufferAtLeast`, `bufferSome`, `shiftBuffer`, `eat` | short reads, moving, capping, unsigned arithmetic |
| reader, `lib/fies_reader.c` | state, files announced, current extent and `extent_at`, error and end | `FiesReader_iterate` | resumption after `-EAGAIN`, partial writes, malformed or cut streams |
| `fies -x`, `-t`, `src/fies_extract.c` | file handles | the reader's callbacks | cloning at block boundaries, exclusion |
| `fies -c`, `src/fies.c`, `src/fies_create.c` | devices and inodes seen, open directories | walks directories, calls the writer | hard links, file systems, descriptors, lists |
| `fies-restore` | one output, the name of the last file | the reader's callbacks, commands that make snapshots | failing commands, streams that stop |
| `fies-dmthin`, `libfies-dmthin` | reserved metadata snapshots, pools opened | maps volumes by b-trees, calls the writer | signals, cleaning up, other users of a pool, range mapping |
| `fies-rbd` | images asked for, the last file of each, position in librbd's differences | `next_extents` from callbacks | parents of other sizes, full buffers, snapshots passed over |
| `fies-zvol` | volumes done, the iteration of snapshots, the readonly property | `next_extents` from block pointers | reverting the property, blocks that are used again |
| `lib/linux_file.c` | - | FIEMAP extents for the writer | flags of extents |
| `lib/vector.c`, `lib/map.c`, string functions | - | containers, parsing | growth |

They interact by calls within one process: a program gives files to the writer;
the writer asks each file's `next_extents` for its extents, gives shared ones to
the map, which calls back into the writer, and puts packets through the
program's `writev`. On the other side a program calls `FiesReader_iterate` until
it returns 0 or an error; the reader reads through the program's `read` and
calls back for every file, piece of meta data and extent. The two sides share
nothing but the stream. There are no threads; what makes the code hard is
resumption anywhere, failures anywhere, and long series of legal calls.

What makes each component correct: the map - lists sorted and disjoint, every
byte sent to exactly one owner and copied from it ever after; the writer - the
rules of the protocol (`include/fies.h`), extents that tile the file, copies
that refer back; the buffer - handlers see the next bytes of the stream; the
reader - the effect is that of the packets in order, whatever interrupts it;
`fies-restore` - a snapshot holds what the volume held; `fies -c` - all that was
asked for is archived, and links are links; `fies -x` - the tree is what the
stream says and nothing else is touched; the programs for volumes - a receiver
has what the volume had, all that was asked for is sent, and what was reserved
or set is given back.

## Modules

| module | models | its state and the code's |
|---|---|---|
| `Extents` | vocabulary: devices, files, places, positions | |
| `ExtentOwner` | what the map promises (abstract) | `owner` of each byte, the rest of the request, what the reader of the pieces holds |
| `EMap` | `lib/emap.c` | `devices`: the lists, 0-based like the code's vectors; `ex`: the parameters of `FiesEMap_add`; `a`, `b`: the search's indices; one action per branch |
| `Packets` | the packets, `include/fies.h` | |
| `FiesWriter` | `lib/fies_writer.c` | `files`: what the program adds; `at`, `next`, `last`: `at`, `i` and `count` of `writeFileDo`; `stream`: what was put |
| `ReaderBuffer` | the input buffer, byte by byte | `buffer` (data, filled, at), `request`: what the running handler asks for; `fed`, `eaten` count the stream |
| `FiesReader` | `FiesReader_iterate` and its handlers | named as in the code; `data`, `done`: what the callbacks hold and have finished |
| `Stream` | a transfer | `FiesWriter`, and `FiesReader` instantiated on its stream |
| `Restore` | `src/fies-restore/fies_restore.c` | the globals `snap_*`; `taken`: the snapshots made |
| `Archive` | paths, exclusion and what a stream means; shared by the next three | |
| `Create` | `src/fies_create.c`, `lib/linux_file.c` (extents) and the part of `src/fies.c` that adds files | `cur`, `frames`, `fds`: the recursion of `do_create_add`; `links`, `devices`: the inodes and devices seen; `stream`: the items written |
| `Extract` | `src/fies_extract.c`, and the part of `src/fies.c` that reads | `tree`, `nodes`: names and inodes; `handles`: the file handles; `at`, `ext`: item and extent reached; `listed` |
| `Cli` | `fies -c` followed by `fies -x` or `-t` | `Create`, and `Extract` on its stream |
| `ThinMap` | `libfies-dmthin`: searching and mapping, as functions | |
| `DMThin` | `src/fies-dmthin`, with the pools and their other users | `table`, `release`: the open pools and `self->release`; `held`: what is reserved, and by whom; `got`: a receiver |
| `RBD` | `src/fies-rbd/fies_rbd.c` | `images`: `gPools`; `i`, `desired_count`, `previous_snapshot`, `lastend`, `exs` as in the code; `sent`: the files of a receiver |
| `ZvolMap` | the mapping of block pointers, `fies_zvol.c` 288-488, as functions | |
| `Zvol` | the rest of `src/fies-zvol/fies_zvol.c`, with the pools | `zvols_done`, `iter`, `was_ro` as in the code; `readonly`: the property; `live`: what the volumes map |
| `MC*` | instances for TLC | |
| `*_proofs` | theorems | |

How they compose: `EMap` implements `ExtentOwner` under the mapping that gives
each byte the owner its extent names (property `ImplementsExtentOwner`).
`FiesWriter` uses only `ExtentOwner`, so that it is checked against the promise
and not against one list. `Stream` is `FiesWriter` and `FiesReader` on one
sequence of packets. `FiesReader` takes packets apart where `ReaderBuffer` has
shown that its handlers get their bytes: "the header is there", "the body is
there" and "some of the data is there" are what `ReaderBuffer` grants.
`Restore` takes the reader as one packet per step.
`Cli` runs `Create` and then `Extract` on its stream. `Create`, `DMThin`, `RBD`
and `Zvol` use of the writer only what `FiesWriter` and `ExtentOwner` show of it:
shared bytes are sent once and copied ever after, adjacent extents are merged,
gaps are holes.

Definitions with the comment "Slip" are not part of any specification: they are
plausible bugs of the definition after them, and each property is checked to
fail if one of them takes its place.

### Abstractions

A byte is named by where it was read: a place on a device, `Zero`, or, in a
receiver's reference file, by file and position. So equal bytes at two places
are different bytes, which only makes the properties stronger. In `DMThin` and
`Zvol` a byte is what was written to a block at some time, since blocks are used
again there; in `RBD` it is named by the version that has written it. Names, mode bits,
times and the values of meta data are left out, as is the contents of the header.
Numbers are naturals except where the code's arithmetic wraps and that is seen: in
`ReaderBuffer` the subtractions wrap at `Word` like those of `size_t`, and in
`FiesReader` the sum of an extent's offset and length. The physical bytes of a device do not change
during a run but in `DMThin` and `Zvol`.

Deliberate choices:

- `FiesWriter`: `next_extents` returns any number of the extents that are not
  mapped yet, in order and, as all in-tree callbacks do, without overlaps.
  A put may fail at any step, after which the program stops; the exception is
  the trailing hole, whose error the code loses (`LoseTrailingHole`).
- `ReaderBuffer`: the requests of the handlers are any lengths in any order, the
  rest of an extent may be taken by a send callback at any time and by as much as it
  likes, also by nothing. What a `memcpy` of overlapping ranges does is undefined:
  `Copied` has the results of copying from either end, `MemcpyOrders` says which of
  them the C library has. Once the read callback was asked for more than there is room
  for, nothing is defined: `err = "overrun"` ends the behaviour.
- `FiesReader`: whether the read callback and the callbacks that may be tried
  again have something is chosen at every step (`Again`), as is how much of an
  extent's data is there and is written. Each new file may get a handle or not.
  An iterate that resumes at the header of an extent starts it twice
  (1010-1017); since the buffer never holds more than was asked for, the second
  start finds nothing and throws: `err = "botched"`.
  A send callback may say that it is not supported, for which the data are buffered.
- `closed` is "cut" if the last packet is incomplete. A packet cut in its header
  or in its body is either case.
- `Stream`: the reader begins when the writer has stopped. A pipe adds only
  waiting, which `FiesReader` has anyway.
- `Restore`: a command may succeed, fail, or be ended by a signal before or after it
  has done what it is for; the last counts as a success (`killed`). Only the command
  for snapshots has this: what the ones for opening, closing, creating and resizing
  do is not in the model, and one of those that is killed counts as done, too.
  Streams are block by block; a block that an earlier state has is
  copied from the first one. No block occurs twice in one state: neither thin
  volumes nor rbd images share within themselves, and `snap_clone` refuses it.
- `Create` puts an item with all of its extents in one step (`SendFile`): what
  may happen between its packets is `FiesWriter`'s. The tree does not change
  while it is walked; with `opts.eio` a directory may end before all of it was read, as
  it does when readdir fails (`unread`). Patterns are names or paths without wildcards.
- `Extract` takes an item extent by extent. FICLONERANGE clones whole blocks
  only, as file systems do, and may not be supported at all; a copy or a clone
  from a file that was excluded is the NULL of `fies_reader.c:599` (the state
  "crashed"). Setting a file's time may fail with no more than a warning
  (`opts.times`). The items of a stream are `Create`'s or, to have clones that begin
  and end anywhere, those of other programs.
- `DMThin`: the metadata are what they were when they were reserved; others
  write to, discard and share blocks meanwhile, and reserve and release metadata.
  A message to the device mapper and the flag for it are two steps, so that a
  signal may come between them (`late`), for which nothing is promised. A volume may
  be smaller than what is mapped in it; its extents behind the end are an error of the
  writer (`FileFails`).
- `RBD`: images do not change. What is read behind the list of snapshots
  (`--from` without `--to`) is not defined: the state "undefined". The program ends
  in "success" or "failure" as its exit status says, which is the wrong way round
  (`Status`).
- `Zvol`: the program has the trees as they were when the first volume or snapshot of
  their pool was owned (`opened`), for libzpool reads the pool by itself; the data are
  those the kernel has now (`live`). What is read through a block pointer that was
  freed meanwhile may be anything that can be read, or an error (`FileFails`).
  Messages and the exhaustion of memory in `zvol_addsnap` are left out.
  The trees have holes where nothing is mapped. Volumes given are only
  written to with `--set-ro`, while they are not read-only. A file ends at the
  last block that was ever written, which is what `doi_max_offset` is; the rest
  of the volume is not in the stream.

## Runs

Every run is exhaustive for its constants.

| run | question | bounds |
|---|---|---|
| `emap` | sorted lists, contents, refinement and termination of `FiesEMap_add` | one device of 3 bytes, 2 files of 3 bytes, any series of requests that asks for each file's byte once, any callback failing |
| `reader_buffer` | do handlers see their bytes, are reads in bounds, does it end | capacity 6, stream of 9 bytes; fields of 1 to 7 bytes, extents of 1, 5 and 8, lists of 1, 4 and 7 with entries of 1 and 4 (`EntrySizes`, of which `EntryHeader` = 1 is not the name); every cut of the reads, the writes and what is sent; `memcpy` in ascending order |
| `reader_buffer_file_end` | expected violation: `getFileEnd`'s stale pointer | same |
| `writer` | protocol, tiling, sharing, copies | plans of up to 3 files of 3 bytes, 4 bytes on each of 2 devices |
| `reader` | resumption, meta data first, sizes, termination | 3 beginnings followed by any 2 of 23 packets, 2 long streams; whole or cut; with and without `send`; numbers below `Word` = 5 |
| `stream` | is a finished file its source | 2 files of 3 bytes, stopped and cut anywhere; numbers below `Word` = 4 |
| `restore` | are snapshots right and complete | all histories of 1 to 3 states of 2 blocks, 2 data values and holes; commands that fail or are killed anywhere |
| `cli` | is all archived, do links and bytes mean the tree, is it extracted, are other files spared, what is listed | a tree of 9 names and 8 inodes on 2 file systems, files of up to 5 bytes in blocks of 3; 26 ways to call it, some with errors of readdir and futimens; 4 trees to extract to; 5 foreign streams with every clone mode |
| `dmthin` | are volumes mapped and sent right, are metadata held, released and others spared | 3 volumes of 3 blocks in 1 or 2 pools of 4 blocks, 5 cases with trees of up to 3 levels, in one of them volumes made smaller; 2 extents per call, signals and failures anywhere |
| `rbd` | are files right, are diffs and copies from the same snapshot, is all sent, does it end | all images of 4 blocks and a snapshot; images of 2 to 4 versions with all combinations of options; 2 extents per call |
| `rbd_grown` | expected violation: copies from behind the end of a smaller parent | same |
| `zvol` | are files right, is exactly what was asked for sent, is the property reverted | volumes of up to 6 blocks and 2 snapshots, trees of 1 to 4 levels, 1 or 2 pools, all combinations of options; 2 writes by others; 2 extents per call |

What the properties say, run by run:

- `emap`: the owners' lists stay sorted and disjoint (`ListsSorted`); who owns
  bytes in a list has them (`OwnersHoldTheirBytes`); what was delivered is what was
  asked for (`ContentAsAsked`) and all of it (`AllDelivered`); the lists implement a
  map of bytes to owners (`ImplementsExtentOwner`); every call returns (`CallReturns`).
- `reader_buffer`: reads stay within the buffer but for requests capped while more
  than half of it is filled (`ReadsFit`), handlers see the bytes of their place in the
  stream (`HandlersSeeTheirBytes`), the end is reported at the end only, but for
  requests capped while half of the buffer is filled (`EofOnlyAtEnd`), and all ends but
  for the two endless loops below (`ComesToAnEnd`). `reader_buffer_file_end`:
  the size a file end packet carries is the one that is read (`FileEndSeesItsBytes`).
- `writer`: a file is ended after everything of it (`WholeFiles`), its extents cover
  it without overlap (`ExtentsTile`), bytes of a device are sent once (`SentOnce`), a
  copy refers to what was sent before (`CopiesReferBack`).
- `reader`: a file's meta data precede its data (`MetaBeforeData`), nothing is written
  behind the size of a file that has no extent whose end wraps (`WritesWithinSize`), what is delivered is what the stream says
  however it is cut (`DataIsReplay`), and a reader that is fed ends (`ReaderEnds`).
- `stream`: a file that ended at the receiver is the source's (`FinishedFilesAreRight`),
  the reader refuses nothing the writer makes, but an extent it has begun twice
  (`WrittenIsUnderstood`), and nothing the writer sent is left out
  (`NothingIsForgotten`).
- `restore`: each snapshot holds what the volume held (`SnapshotsAreRight`), for every
  state that was sent (`NoneIsLeftOut`) and whose command was not killed.
- `cli`: what was asked for is in the archive, but what is left of a directory that
  could not be read to its end (`ArchiveIsComplete`), its links and
  bytes mean the tree (`StreamMeansTree`), what is extracted is what the stream means
  (`ExtractedIsStream`), other files are left alone (`OthersSurvive`), and the list
  shows what the stream has (`ListIsStream`).
- `dmthin`: a volume's extents are its mappings (`MapsWhatIsMapped`), so that it arrives
  as it is (`VolumesAreRight`), while its metadata are reserved (`MetadataAreHeld`);
  none are left so (`NoneLeftReserved`), nor are others' released (`OthersKeepTheirs`).
- `rbd`: files are right (`FilesAreRight`), a diff is copied over the snapshot it was
  made from (`SourceIsDiffBase`), all that was asked for is sent (`AskedIsSent`), and the
  program ends (`RunEnds`). `rbd_grown`: a copy fits its source (`CopiesFitTheirSource`).
- `zvol`: files are right if they were not written to after their pool was opened
  (`ContentsAreRight`), what was asked for is sent, once, and `--from` is a reference
  unless `--to` is empty (`AskedIsSentOnce`), and the property readonly is as it was
  (`ReadOnlyIsReverted`).

Why the bounds are enough: an extent of three bytes can be overlapped at its
beginning, its middle, its end and across two neighbours, which are all the cases
`FiesEMap_add`'s loop distinguishes; a third extent only repeats one of them.
Capacity 6 lets what is buffered be less, equal and more than half of the
buffer when it is moved and when a request is capped, since extents are written in
parts and fields of 4 leave half of one behind; and requests be smaller, equal and
larger than it. Three bytes per file
give a hole before, between and after extents; two extents merge or do not, and
a third one is a second batch. The reader's handlers depend on the packets
before the current one only through `files` and `newfile`, and two packets after
a beginning reach every combination of these with every packet. Three states of
a volume are the fewest in which a copy's source has been written over.
Files of 5 bytes in blocks of 3 have copies that begin and end within a block and
at its borders. Room for two extents per call makes every mapping begin again in
the middle of a file. Two writes are the fewest that free a block and use it
again. Trees of three levels have nodes above nodes above leaves, where a search
may lead to the neighbour at each level.

`CHECK_DEADLOCK FALSE`: every one of these programs ends; in `emap` because
everything was asked for.

### Fairness

`EMap`: the search and the loop are sequential code, so that they go on (weak
fairness of `Find` and `Add`). `FiesWriter`: the same for the steps within a
call; nothing makes a program begin another one. `ReaderBuffer`: a read callback
that returns `-EAGAIN` has something, the end or an error eventually (strong
fairness of those outcomes), and handlers are sequential code. `FiesReader`: the
program iterates until it is told to stop, as the loops in `src/fies.c:873` and
`src/fies-restore/fies_restore.c:702` do, and what has nothing for it has
something eventually (weak fairness of `Iterate`). That is more than
those loops give: they stop at the first `-EAGAIN`. `RBD`: a sequential program
that runs until it exits (weak fairness of `Next`). The other programs' models
have safety properties only.

### What the expected violations show

1. `lib/fies_reader.c:352`: `getFileEnd` computes its pointer before
   `bufferAtLeast` may move the buffer, and reads the moved bytes' old place.
2. `src/fies-rbd/fies_rbd.c:408`: if an image has grown, what is copied from its
   older snapshot goes up to the end of the new image instead of the snapshot.

### Known disagreements without a run

These formulas state what a document, a message or a comment promises, or
(`OthersSurvive`) what the code takes care of everywhere else, and do not hold. Each
can be seen by making it the only INVARIANT (PROPERTY for `EveryStreamEnds`) of the
configuration named, whose bounds have the case. The properties of the runs are
stated for all executions but these.

| formula | configuration | what happens |
|---|---|---|
| `ReaderBuffer!NothingOverruns` | `MCReaderBuffer` | `lib/fies_reader.c:148`: a capped request subtracts the buffered bytes twice; with more than half of the buffer filled the number wraps, and the read callback is asked for nearly 2^64 bytes. With exactly half of it filled it is 0, which reads as the end of the stream (excepted by `EofOnlyAtEnd`). "By design we should never have to exceed the buffer" (139), "let's just cap it with our buffer size" (143) |
| `ReaderBuffer!HandlersSeeTheirBytes` with `MemcpyOrders = {"up", "down"}` | `MCReaderBuffer` | `lib/fies_reader.c:115`: `memcpy` between overlapping ranges, when more is buffered than was eaten; wrong bytes unless it copies from the front |
| `FiesWriter!EndedFilesAreCovered` | `MCFiesWriter` | `lib/fies_writer.c:1013`: the error of the trailing hole is overwritten |
| `FiesReader!ExceedingIsRefused` | `MCFiesReader` | `lib/fies_reader.c:691`: the offset and length of an extent are added in 64 bits; one whose end wraps is not refused ("extent exceeds file size", 692) and written behind the file's size |
| `FiesReader!EveryStreamEnds` | `MCFiesReader` | `lib/fies_reader.c:673`: a send callback that returns 0 at the end of the input is called for ever (`SendsNothing` of `ReaderBuffer`) |
| `Restore!SuccessHasMadeThemAll` | `MCRestore` | `src/fies-restore/fies_restore.c:241`: `WEXITSTATUS` alone is 0 of a command that a signal has ended: success without the snapshot, against `doc/fies-restore.rst.in:23-25` |
| `Restore!NamedSnapshotsAreWhole` | `MCRestore` | `src/fies-restore/fies_restore.c:711`: a snapshot is made of a half written output, with success if the stream merely ended |
| `Create!DirectoriesAreComplete` | `MCCli` | `src/fies_create.c:249`: `DIR_read` (51-63) gives NULL for the end and for an error: success without what is left of the directory |
| `Create!ReferencesHaveNoContents` | `MCCli` | `src/fies_create.c:175`: `--ref-file` only checks the type; the file is written like any other (223), with its contents, against `doc/fies.options:194-196` |
| `Create!OneFileSystemIsComplete` with `Cases <- MCOneFileSystem` | `MCCli` | `src/fies_create.c:201`: with `--one-file-system` nothing below a directory given is archived, since it is compared with device 0 |
| `Cli!NothingExcludedIsListed` | `MCCli` | `src/fies_extract.c:990`: `fies -t` does not ask whether a hard link is excluded, against `doc/fies.options:52-54`; `fies -x` does (316) |
| `Cli!OthersSurvive` with `Cases <- MCDoubled` | `MCCli` | `src/fies_extract.c:405`: `do_mknod` unlinks the whole path below the directory it has opened; where a directory has one of the same name in it, a file that is not in the stream is removed, and the one in the device's place is not |
| `DMThin!NoneIsPastTheEnd` | `MCDMThin` | `lib/fies_writer.c:751`, 771: a thin volume made smaller has extents behind its end, which "should never happen" (750). The hole before one is refused, so that such a volume cannot be archived; in a reference, for which no hole is put, the length wraps, is negative as a result and ends the run, too |
| `DMThin!SignalsCleanUp` | `MCDMThin` | `src/fies-dmthin/dmthin_meta.c:148`: a signal between the message and its flag leaves metadata reserved without a message |
| `RBD!StatusTellsOfErrors` | `MCRBD` | `src/fies-rbd/fies_rbd.c:885`: `rc == 0 ? 1 : 0`: the exit status is 0 after an error and 1 otherwise |
| `Zvol!ContentsStayRight` | `MCZvol` | `src/fies-zvol/fies_zvol.c:781`: the block pointers are those of the pool as it was opened; with `--set-ro` a volume is read-only during its turn only. What was written to it before is sent as a hole if there was one, or copied from a file sent before that shares the old block; or it is sent and taken for the old block by a file sent later that shares that one. `doc/fies-zvol.options:45-47` recommends the option for this |
| `Zvol!FromIsReference` | `MCZvol` | `src/fies-zvol/fies_zvol.c:831`: `--to ""` clears `--from`, so that the snapshot `--from` names is sent in full, against `doc/fies-zvol.options:66-67` |
| `Zvol!CompressedIsRight` | `MCZvol` | `src/fies-zvol/fies_zvol.c:363`: the physical extents of compressed blocks overlap, so that wrong bytes are taken for shared ones |

Other places where the code does what a reader of it would not expect, which the
models have and the properties allow:

- `lib/fies_reader.c:803-810`: an entry of a snapshot list that is longer than what is
  left of the list is waited for, with what follows the list in the buffer, for ever
  if no more comes (`WaitsForEntry`).
- `lib/fies_reader.c:1010-1017`: an extent whose header comes in two parts is begun
  twice and refused, although nothing is wrong with the stream (`err = "botched"`).
- `src/fies_extract.c:819-822`: that a file's time could not be set is a warning and
  no error. What is extracted then has another time (`restored`).
- `src/fies-zvol/fies_zvol.c:719-731`: with `--from a`, a snapshot `vol@a` that is
  given itself, before its volume, is done already when the iteration comes to it,
  and sent in full. `AskedIsSentOnce` takes it as asked for.
- `src/fies-zvol/fies_zvol.c:710-716`: the iteration of libzfs goes on after a snapshot
  that has failed; the volume then ends in an error all the same (`ErrorIsKept`).

## Proofs

TLC shows the above for the constants of the runs; these theorems hold for all
devices, files, sizes and requests.

`EMap_proofs`, assuming only `SizeAssumption` and `NothingAssumption`: `IInv`
(types, `ListsSorted`, `IndexInv`) is inductive. `ListsSorted` alone is not:
that an insertion keeps the order needs to know that the request lies between
the extents around the index, which is what `IndexInv` says, and that in turn
needs what the binary search has excluded on each side. One lemma per action;
the insertions rest on `InsertAtIsInsertion` and `InsertKeepsOrder`. Theorems
`TypeCorrect`, `ListsStaySorted`, `IndexStaysRight`.

Of the contents, it adds `CInv`: owners hold their bytes, contents are as
asked, and what is not delivered yet is the rest of the current request. A piece
that is copied is right because its owner holds it; a piece that is sent makes
an owner that does. Theorems `OwnersAlwaysHoldTheirBytes`,
`ContentAlwaysAsAsked`, `AllIsDelivered`.

`ReaderBuffer_proofs`, for all capacities and all lengths of fields, extents, lists and
entries, also those that do not fit. The one hypothesis is `MemcpyAscends`: where its
ranges overlap, `memcpy` copies from the front. `IInv`: the buffer is a window of the
stream (`WindowOf`), and an overrun or a false end only comes of a request that was
capped with bytes in the buffer. What is asked for is the crux: a request that is not
capped fits as it is (`Need` does not wrap); a capped one is `Capacity - 2 * Have`
modulo `Word`, which is too little as long as less than half is filled, nothing at
half, and wraps beyond. Theorems `BufferInvariant`, `ReadsAlwaysFit`,
`HandlersAlwaysSeeTheirBytes`, `EndAndRefusalAreRight`.

`DMThin_proofs` has three parts. The one about the bookkeeping assumes only
`CasesAssumption`: the invariant `Reservations` ties three things that are changed
one after the other: what the pool has
reserved (`held`), the flag of its `ThinMeta` (`release`) and the table through
which everything is cleaned up at exit. That a pool is released at exit needs all
of them: what is reserved has its flag but for one step, what has its flag is in
the table, and the table is emptied before the exit. Theorems
`MetadataStayReserved`, `ExitReleases` and, from the same invariant, the action
property `OthersAreSpared`.

The second part is about the mapping of blocks, for all sizes of volumes, blocks and
nodes and both layouts of the trees. It assumes `BlockSizeAssumption`,
`BoundsAssumption` (there is room for an extent) and `SizesAssumption` (the nodes of
all trees have numbers). Each function of the library is a recursive one here, which
first has to be shown to exist: `RecursionExists` does, for steps that go down a
measure (the distance of the bounds of `btree_node_search`, the depth of a node, the
entries that are left). Then:
1. The loop of `btree_node_search` keeps the key between its bounds (`RoundKeeps`), so
   that it ends at the key or at its neighbours (`SearchFinds`); `fdmt_search` then finds
   the value of a key in a leaf or below a node (`LookupFinds`), and the root of a
   volume's tree by it.
2. The keys of an inner node are those its leaves begin with, or lower ones that are
   still above the leaf before (`EntriesAscend`, `InnerIsNode`): with that the first
   index of a leaf that is searched from is the first entry that is wanted, although
   the key searched may lie in a hole or before all of them.
3. What is collected from the leaves are runs (`IsRuns`): blocks that follow each other
   on both sides, each run as long as it can be, together all entries so far, or as
   many as there is room for. `LeafExtents` keeps this from leaf to leaf.
4. The first run may begin before the position asked for; `CutTo` makes it begin there
   (`CutStands`), and no byte is lost or added (`ExtentBytes`, `NoByteIsLeftOut`).

`MapIsRight` puts these together for what `ThinMeta_map` gives. `Mappings`, inductive with
`Reservations`, says that it is only asked in states in which they hold. Theorems
`MappingsHold` and `MapsAreComplete`.

The third part is about what a receiver has. `VolumesAreRight` speaks of finished
volumes only; `Contents` is inductive with the invariants of the other parts:
- What the others write never changes a byte of a volume given (`BytesStay`): they
  write in place only to blocks nobody shares, and otherwise to blocks nobody uses.
- The metadata that are reserved or read have the mappings of the volumes given
  (`HeldAgree`, `Agreed`), although they are older than the pool's; in the raw mode
  nobody reserves or releases, so that whether they are stale never changes
  (`StaleStays`).
- The pools have different devices of the writer (`Devices`), so that places are
  equal only for bytes that are (`SamePlace`). An owner is a byte that has been sent
  and is right (`Owners`), so a copy from it is.
- Of the current volume everything up to `at` is right (`Current`), and the extents
  to be sent are all that is mapped from there to the last of them (`Batch`): what is
  before the next one is a hole. That the rest of the file is one when the library
  finds no more is `MapIsRight` again (`RestIsHole`).
Theorems `ContentsHold` and `VolumesAreAlwaysRight`.

`EMap_proofs` also has the refinement `MapImplementsOwnership` (the property
`ImplementsExtentOwner`): `FiesEMap_add` with its binary search, its overlapping
extents and its loop over them implements `ExtentOwner`, which only says who owns
a byte. `OwnerOf` is defined with CHOOSE; that the list is sorted makes its choice
the only one (`OwnersNamed`), and an insertion gives the current file the bytes of
the inserted piece and changes no other owner. With that each of the map's steps is
Ask, Send, Copy or GiveUp, or a stutter.

`FiesReader_proofs`, assuming `StreamsAssumption` (the packets are well formed; what
they say may be anything, and files may be named that do not exist):
- `Control` ties the reader's state to the current packet: an extent is only worked
  at if the packet is one of that kind, its check has passed and some of it is left.
  Theorem `ReaderTypeCorrect`.
- `DataInv` adds `NoHandleNoData`, which is what makes `MetaBeforeData` and
  `WritesWithinSize` inductive: a file whose callback gave no handle is never written
  to. Theorems `MetaAlwaysBeforeData` and `WritesAreWithinSize`. The check of an
  extent is modulo `Word`; it is the check that is meant for all whose end is a
  number, and the theorem says nothing of files that had another one.
- `ReplayInv`: what the files hold is what a replay of the packets before the current
  one gives, and of the current one exactly the first `extent_at` bytes. `Replay` is a
  recursive function over the packets; what the proof needs of it (it has its types,
  and knows the files the reader knows) is shown by the least packet at which it
  would fail. Theorem `DataIsAlwaysReplay`, for all points at which the input may
  end or say "again" and all parts in which a callback takes the data.

`Stream_proofs`, up to `CopiesAlwaysReferBack` about the writer alone, assuming
`PlansAssumption` and `NobodyAssumption`, in four layers, each inductive with the ones
before it:
1. `Order` (types, the state of the call, ids grow, files end one after the other):
   theorem `FilesAreAlwaysWhole`.
2. `Laid`, with `Tiling`: the extents before `next` end before `at` and the ones from
   `next` on begin behind it, unless the file's end was reached; in the middle of a
   shared extent the rest of the request to the extent map is the end of the extent;
   what was put covers the file up to `at`. Theorem `ExtentsAlwaysTile`.
3. `Sending`: `SentOnce` is not inductive since it speaks of the stream only. What was
   sent is owned in the extent map or was in an unshared extent that is done
   (`DataIsKnown`), what is owned was in a shared extent, and the two never have a
   place in common (`OwnPlaces`). Theorem `DataIsAlwaysSentOnce`.
4. `Copying`: the owner of a byte has it in the stream (`OwnersHaveBytes`), since its
   file is a reference or an extent with it was put when it became the owner. Merged
   extents need `CopiesOfEarlier` to refer to one piece. Theorem
   `CopiesAlwaysReferBack`.

`PlansAssumption` is what a program owes the writer: extents come in order, do not
overlap and begin before the end of the file (FIEMAP, thin metadata and librbd give
them so); places that are not marked as shared belong to one extent alone, which is
what FIEMAP_EXTENT_SHARED means and why the writer does not ask the map about the
others (`lib/fies_writer.c:778-782`); copies a program asks for itself
(`fies-rbd`) are of whole files added before, and go on in the source where they
go on in the copy. `fies-rbd` without the defect of `rbd_grown` is such a program.
That ids fit `File` and positions their 64 bits bounds the model as it bounds the
program.

The rest of `Stream_proofs` is about a whole transfer, from what the two of its parts keep.
Its invariant `Right` has three parts:
- `WriterIsRight` adds two layers to those of the writer. `Meaning`: every
  extent that was put gives the bytes its file is wanted to have there, `Wanted`, and a
  place is owned by a file that wants the same byte of it, so that a copy from the
  owner is right although the extent map compares places only. Of `Wanted`, a recursive
  function, it needs that it is what its definition says, shown by the least number of
  files for which there is no such function. `Protocol`: meta data follow a header and
  nothing else does, every file a packet names was announced before.
- `ReaderIsRight`: the reader is at a packet that its state is for, the files it knows
  are those announced up to there, it waits for meta data exactly when they come next,
  and has finished what has ended. That no packet is refused, but an extent that was begun
  twice, is then a matter of `Protocol` and of the sizes announced, which fit `Word`. Theorems `WrittenIsAlwaysUnderstood` and
  `NothingIsEverForgotten`.
- `Holds`: a byte that an extent up to the current one covers, the current one up to
  `extent_at`, is the one that is wanted, or that of a reference file which is the same
  (`Fits`); all others are zero. A copy is right since it refers to what is there
  already (`CopiesReferBack`): a byte of a reference file, one written before, or one
  behind the extents of a file that has ended, which nothing maps (`BehindIsZero`, by
  `ExtentsTile`). Theorem `FinishedFilesAreAlwaysRight`, for all points at which the
  stream may end, and although the trailing hole may be lost.

It assumes `TransfersAssumption` besides: places that files share are either written
or allocated only, for all of them (`SharedAlike`; the extent map is not told, so
that `FiesWriter_sendExtent_forAvail` would copy the data of the one to the other),
sizes fit 64 bits, and no meta data that a file has are `FIES_META_END`.

`Zvol_proofs`: `Reverting`, from `CasesAssumption`, strengthens `ReadOnlyIsReverted` by
what makes it inductive: whenever the property of a volume is not what it was, that
volume is being read, it was not read-only, and `was_ro` says so. Theorem
`AllAreReverted`. `Asking`, from `NamesAssumption` (the snapshots of a volume have
different names, and no name is that of the volume itself or of an option not
given), says how far main has come: where the iteration over the snapshots is
relative to `--from` and `--to` (`Iterates`), that what was given so far is marked
as done (`GivenIsDone`), and that what is marked as done was sent to its end, is
being worked at or is the volume whose snapshots come first (`DoneIsFinished`), unless
an error is known. `zvols_done` is both the guard against sending twice and, with
these, the reason that nothing is forgotten. What was asked for is what the
documents make of the options (`From`, `Asked`); that the program's `opt_from` is the
same, unless `--to` is empty, is `FromStaysMeant`. Theorems `AskingIsKept`,
`AllAskedIsSentOnce`. The proof showed that a snapshot which `--from` names and which
is given itself is not a reference; the property states this.

The rest of `Zvol_proofs` is about the bytes. It begins with the pure part, for every
shape of the trees: the binary search finds the last block pointer at or before the
position (`SearchBlockFinds`), `ZVOL_mapBP` adds its block or says that there is no
room (`MapBPReaches`), a level maps what is below its pointers if the level below
does (`LevelAbove`, `LevelsAreRight`), and so `ZVOL_nextExtents` finds what is mapped
from a position on, in order, as far as there is room (`NextExtentsAre`,
`IsMapped`). The recursions of `ZvolMap` are functions, of which a proof only knows
what they are if it is shown that there is such a function: `RecursionExists` does
this for a recursion that goes down, `IterationExists` for one over numbers.
`Holding`, which with `Asking` is inductive, then says that
- in the pool as it is and in each as it was opened what has a place has it for
  itself, whatever was written (`World`, `IsState`, `PlacesAreApart`); and what was
  opened stays as it was (`OpenedStays`);
- every file has the tree that the program has for it, and of every file that ended,
  and of the current one up to `at`, the receiver has what that tree means
  (`FilesAreRight`, `RightUpto`), provided that it and the files it may have been
  copied from had those trees in the kernel, too, when it was their turn (`Trusted`);
- who owns a physical byte has it at the place it says, and has sent it
  (`OwnersAreRight`), so that a copy from the owner is right (`SamePlace`): both trees
  are of one state of the pool, in which the block there is one block only, as
  nothing that is compressed was sent;
- the batch is what is mapped from `at` on (`ReadingIsRight`);
- what is being read is not written to (`CurrentStays`): a volume was made read-only
  before it is owned, and snapshots do not change.
What is written to a volume after its turn does no harm: owners are of places in the
trees of the opened pool, which do not change.
Theorem `FilesAreAlwaysRight`. It assumes `ZvolMapAssumption` and
`VolumesAssumption`: the trees have room for the blocks of a volume, a block with a
place has at least one copy, and two blocks of a pool have no byte in common. In a
pool with deduplication two block pointers of different age may have one place: these
are not among the volumes of the model. The proof showed that the premise of
`ContentsAreRight` about compression has to be about the blocks that were sent and
not about those the pool has now: a volume may be overwritten after its compressed
blocks were sent. `MCZvol` has this case now (`Shrinking`).

`RBD_proofs`, assuming `CasesAssumption` (images have versions with different
names) and `BufSizeAssumption`: two invariants. `Chain` ties the two places in
which the order of an image's files is kept, `previous_snapshot` of `add_image` and
`last_file_id` of the image: while the image is worked at, the latter is an ended
file of the former's version, older than the one to be sent, and its size is
`lastsize`. Theorem `SourceIsAlwaysDiffBase`. `Contents` is about the bytes: what was
sent of the current file is right, the batch goes on there without a gap, every
extent of it means what the image has (`Goes`), and while there is room in it, it
goes as far as librbd's iteration (`iterated = lastend`). A copy is right because
the parent is (`ParentIsRight`, from `Chain`) and the diff was taken from it
(`GapIsRight`). Theorem `FilesAreAlwaysRight`. It is about images that have not
grown, as the property is; the run `rbd_grown` shows why.

`Sends` is about what was asked for, and needs the names of an image's versions to be
different and no snapshot to have the name of the image itself: what the volumes
given ask for is in the table until `add_image` takes it (`TableIsRight`); of the
current image everything asked for was sent, is the current file, or is to come
between `i` and `desired_count` (`LoopSends`); of the images done all was sent
(`DoneAreSent`). Theorems `SendingGoesOn` and `AskedIsAlwaysSent`.

`Restore_proofs`, assuming `HistoriesAssumption` (only types: a history is at least
one state, with a size and any blocks, and a state's number names a file): `Restoring` says
where the program is in the stream (`AtHeader`, `InReference`, `InFile`), that the
output holds the blocks of the current state as far as it was read and those of the
state before it behind, and that the snapshots taken so far are those that were
asked for, of states that were whole by then. The recursion over the states is
dealt with as elsewhere, by the least state at which it would fail. Theorems
`SnapshotsAreAlwaysRight`, `NoneIsEverLeftOut`, `RestoreTypeCorrect`.

Only model-checked: liveness (`CallReturns`, `ComesToAnEnd`, `ReaderEnds`,
`RunEnds`), which is out of the prover's reach; and `Create`, `Extract` and `Cli` (`ArchiveIsComplete`,
`StreamMeansTree`, `ExtractedIsStream`, `OthersSurvive`, `ListIsStream`). None of these is
beyond the provers in principle, since the recursions over the trees of `ThinMap` and
`ZvolMap` were not: it has not been done.

## Not modelled

Listed with reasons in `PROJECT.json`. Of the modelled files: closing of the
writer's devices (no program does it) and the copying of an extent's bytes, the
header's flags, the sizes of packets against their fields, entries of snapshot
lists, the contents of meta data and the callbacks that set them (`do_set_meta*`
of `src/fies_extract.c`); parsing of options, names and their transformations
everywhere; the superblock and the checksums of thin pools; the libraries of rbd
and zfs and the commands of `fies-restore` but for what they answer; memory
exhaustion. The containers (`lib/vector.c`, `lib/map.c`) and the regular
expressions are plain sequential code on memory and strings: what they do is
taken for granted as sequences, functions and matches.

## Plan

Done: the core (map, writer, buffer, reader, transfer), all programs that make
and read streams, their composition for `fies`. What is left, in this order:

1. Proofs: `OthersSurvive` of `Extract`; then `Create`, `Cli`.
2. Meta data: their callbacks in `src/fies_extract.c`, and errors of them that
   are lost in the reader.
3. The entries of snapshot lists in the reader, and who uses them.
