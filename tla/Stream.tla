-------------------------------- MODULE Stream -------------------------------
(***************************************************************************)
(* A whole transfer: what FiesWriter puts is stored or piped, maybe not to *)
(* its end, and FiesReader makes files of it again, as fies -c, -x and     *)
(* fies-restore do.  Reading only depends on what is there already, so     *)
(* that a reader may just as well begin when the writer has stopped.       *)
(* The reader holds its own copies of the reference files, with the same   *)
(* bytes as the writer's.                                                  *)
(***************************************************************************)
EXTENDS FiesWriter

CONSTANT Word  \* one more than the largest 64 bit number

VARIABLES closed, send, pos, state, newfile, opened, extent_at, rc, twice, err, eof, data, done

reader_vars == <<pos, state, newfile, opened, extent_at, rc, twice, err, eof, data, done>>

Reader == INSTANCE FiesReader WITH files <- opened, Streams <- {}

\* A place that files share has data for all of them or, not written yet, for none.
SharedAlike(plan) ==
    \A i, j \in DOMAIN plan : plan[i].mode # "HARD" /\ plan[j].mode # "HARD" =>
      \A k \in DOMAIN plan[i].extents, m \in DOMAIN plan[j].extents :
        LET e == plan[i].extents[k]  f == plan[j].extents[m] IN
        e.shared /\ e.flags # "COPY" /\ f.shared /\ f.flags # "COPY" /\ Places(e) \cap Places(f) # {}
          => e.flags = f.flags

\* What the plans of a transfer are besides: sizes and positions of files are in
\* Log (64 bits), and no meta data are of the kind that ends them.
IsTransfer(plan) ==
    /\ SharedAlike(plan)
    /\ \A i \in DOMAIN plan : plan[i].mode # "HARD" =>
         /\ plan[i].size <= LogSize
         /\ plan[i].metas \in Seq({plan[i].metas[m] : m \in DOMAIN plan[i].metas} \ {"END"})

ASSUME TransfersAssumption ==
    /\ Nothing \notin File
    /\ Word \in Nat /\ LogSize < Word
    /\ \A plan \in Plans : IsTransfer(plan)

TransferInit == Init /\ closed = "open" /\ send = FALSE /\ Reader!Start

Write ==
    /\ closed = "open"
    /\ Next
    /\ UNCHANGED <<closed, send, reader_vars>>

\* The writer's program has come to its end, or has stopped at an error; the
\* last packet may not have made it.
Close ==
    /\ closed = "open" /\ stream # <<>>
    /\ pc = "failed" \/ (pc = "idle" /\ calls = Len(files))
    /\ closed' \in {"whole", "cut"}
    /\ UNCHANGED <<vars, send, reader_vars>>

Read ==
    /\ closed # "open"
    /\ Reader!ReaderNext
    /\ UNCHANGED vars

TransferNext == Write \/ Close \/ Read

TransferSpec == TransferInit /\ [][TransferNext]_<<vars, closed, send, reader_vars>>
------------------------------------------------------------------------------
\* Whether position l of a file is in extent e, and that extent of the plan's file k.
Has(e, l) == l \in e.logical .. e.logical + e.length - 1

IsMapped(k, l) == files[k].mode # "HARD" /\ \E i \in DOMAIN files[k].extents : Has(files[k].extents[i], l)

ExtentAt(k, l) == files[k].extents[CHOOSE i \in DOMAIN files[k].extents : Has(files[k].extents[i], l)]

\* The byte there: what the extent maps.
Wanted[k \in DOMAIN files] ==
    [l \in Log |->
       IF ~ IsMapped(k, l) THEN Zero
       ELSE LET e == ExtentAt(k, l)  n == l - e.logical IN
            CASE e.flags = "DATA" -> [device |-> e.device, physical |-> e.physical + n]
              [] e.flags = "COPY" -> Wanted[e.source][e.source_offset + n]
              [] OTHER -> Zero]

\* The byte the receiver has, with those of its reference files named alike.
Meant(byte) ==
    IF byte \in Holder
    THEN Wanted[CHOOSE k \in DOMAIN ids : ids[k] = byte.file /\ files[k].mode # "HARD"][byte.logical]
    ELSE byte

AllWanted == \A f \in DOMAIN opened : opened[f].handle

\* Every file the receiver is told to be finished has all of its source's
\* bytes and no others, whatever was shared, merged, cut, sent as a hole or
\* lost in the writer and in however many parts it was written, and also if
\* the stream ends early.
FinishedFilesAreRight ==
    AllWanted =>
      \A k \in DOMAIN ids : files[k].mode = "REG" /\ ids[k] \in done =>
        \A l \in 0 .. files[k].size - 1 : Meant(data[ids[k]][l]) = Wanted[k][l]

\* The reader finds nothing wrong in what the writer puts: both understand the
\* protocol alike.  All it refuses is an extent that it has started twice
\* (fies_reader.c:1010-1017), having waited for its header.
WrittenIsUnderstood ==
    /\ err # "stream"
    /\ err = "botched" => pos > 0 /\ stream[pos].type = "EXTENT"

\* A program that was told the end of a stream nothing is missing of has all
\* files finished.
NothingIsForgotten ==
    eof /\ closed = "whole" /\ pc = "idle" =>
      \A k \in DOMAIN ids : files[k].mode # "HARD" => ids[k] \in done
==============================================================================
