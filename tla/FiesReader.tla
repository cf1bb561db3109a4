----------------------------- MODULE FiesReader ------------------------------
(***************************************************************************)
(* lib/fies_reader.c above its input buffer (which is ReaderBuffer): how   *)
(* FiesReader_iterate takes the packets of a stream and what it makes its  *)
(* callbacks do.                                                           *)
(*                                                                         *)
(* One action is one handler; an iterate is one or two of them.  Wherever  *)
(* the input or a callback has nothing to give now, the iterate returns    *)
(* -EAGAIN in the state it is in, and the next one goes on there.  Files   *)
(* are what the callbacks hold: a byte of a file is the place it came      *)
(* from, Zero, or, in a reference file, the byte of the reader's own copy  *)
(* (a Holder); the handle of a file that a callback does not want is NULL. *)
(***************************************************************************)
EXTENDS Packets

CONSTANT Word  \* one more than the largest 64 bit number
ASSUME WordAssumption == Word \in Nat /\ LogSize < Word

VARIABLES stream,    \* the packets that are there to be read
          closed,    \* whether more may come: "open", "whole" or, if the last
                     \* packet is incomplete, "cut"
          pos,       \* packets whose header was read
          state,     \* self->state
          newfile,   \* the file whose meta data are read, or Nothing
          files,     \* the files announced: size and whether there is a handle
          extent_at, \* bytes of the current extent that are done
          send,      \* whether the program has a send callback, see sendExtent
          rc,        \* what the last iterate has returned, or "in" it
          twice,     \* the extent was started by an iterate that starts it again
          err, eof,  \* self->errc and self->eof
          data, done \* what the callbacks hold, and the files they have finished

input_vars == <<stream, closed, send>>
vars == <<input_vars, pos, state, newfile, files, extent_at, rc, twice, err, eof, data, done>>

Byte  == Place \cup Holder \cup {Zero, Nothing}
Entry == [size : Nat, handle : BOOLEAN]

Start ==
    /\ pos = 0 /\ state = "Header"
    /\ newfile = Nothing
    /\ files = [f \in {} |-> Nothing]
    /\ extent_at = 0
    /\ rc = "more" /\ twice = FALSE
    /\ err = "none" /\ eof = FALSE
    /\ data = [f \in File |-> [l \in Log |-> Nothing]]
    /\ done = {}

pkt     == stream[pos]
Running == err = "none" /\ ~ eof
Known(f) == f \in DOMAIN files

\* The whole packet is in the stream, not only its header.
BodyThere == closed # "cut" \/ pos < Len(stream)

\* A handler of the current packet is entered.
In(s) == Running /\ state = s
Get(s) == In(s) /\ BodyThere

\* The handler throws: every later iterate returns the same error.
Throw(why) ==
    /\ err' = why
    /\ UNCHANGED <<input_vars, pos, state, newfile, files, extent_at, rc, twice, eof, data, done>>

\* An iterate that has to wait for the header of an extent starts the extent
\* twice when it resumes (1010-1017).
StartsTwice == twice \/ (state = "Extent_Get" /\ rc # "in")

\* The iterate returns r in state s.  If it has returned 0 from the first start
\* of an extent, the second one has no bytes to start from: it throws.
Return(s, r) ==
    /\ state' = s
    /\ err' = IF StartsTwice /\ r = "more" THEN "botched" ELSE err
    /\ rc' = r /\ twice' = FALSE
    /\ UNCHANGED <<input_vars, pos, eof>>
------------------------------------------------------------------------------
\* The read callback, or a callback that may be tried again, has nothing now.
Again ==
    /\ Running /\ state # "Extent_PunchHole"
    /\ rc' = "again" /\ twice' = FALSE
    /\ UNCHANGED <<input_vars, pos, state, newfile, files, extent_at, err, eof, data, done>>

\* The read callback or a callback of the handler fails.
Fails == Running /\ Throw("callback")

\* The data of the current extent go from the input to the file directly.
Sends == send /\ files[pkt.file].handle

\* The read callback returns 0: at the end of the stream, wherever that is.
InputEnds ==
    /\ Running
    /\ \/ /\ state \in {"Header", "Begin"}
          /\ \/ closed = "whole" /\ pos = Len(stream)
             \/ closed = "cut" /\ pos + 1 = Len(stream)
       \/ /\ state \notin {"Header", "Begin", "Extent_ZeroOut", "Extent_PunchHole"}
          /\ ~ BodyThere
    /\ eof' = TRUE
    /\ UNCHANGED <<input_vars, pos, state, newfile, files, extent_at, rc, twice, err, data, done>>

ReadsEnd == InputEnds /\ ~ (state = "Extent_Read" /\ Sends)

doReadHeader ==
    /\ In("Header") /\ pos < Len(stream)
    /\ IF stream[1].type = "HEADER"
       THEN /\ pos' = 1 /\ state' = "Begin"
            /\ rc' = "more"
            /\ UNCHANGED <<input_vars, newfile, files, extent_at, twice, err, eof, data, done>>
       ELSE Throw("stream")

\* Slip: meta data that are missing are not noticed.
Dispatches(t) ==
    CASE t = "FILE" -> "NewFile_Get"
      [] t = "FILE_META" -> "FileMeta_Get"
      [] t = "FILE_END" -> "FileEnd"
      [] t = "EXTENT" -> "Extent_Get"
      [] t = "SNAPSHOT_LIST" -> "SnapshotList"
      [] OTHER -> "Botched"

\* The state for a packet of type t: meta data are expected exactly when a new
\* file is.
NextState(t) ==
    IF (newfile # Nothing) # (t = "FILE_META") THEN "Botched"
    ELSE CASE t = "FILE" -> "NewFile_Get"
           [] t = "FILE_META" -> "FileMeta_Get"
           [] t = "FILE_END" -> "FileEnd"
           [] t = "EXTENT" -> "Extent_Get"
           [] t = "SNAPSHOT_LIST" -> "SnapshotList"
           [] OTHER -> "Botched"

readPacket ==
    /\ In("Begin") /\ pos < Len(stream)
    /\ pos' = pos + 1
    /\ rc' = "in"
    /\ LET t == stream[pos + 1].type IN
         /\ state' = IF t = "END" /\ newfile = Nothing THEN "Botched" ELSE NextState(t)
         /\ eof' = (t = "END" /\ newfile = Nothing)
         /\ err' = IF state' = "Botched" /\ ~ eof' THEN "stream" ELSE err
    /\ UNCHANGED <<input_vars, newfile, files, extent_at, twice, data, done>>
------------------------------------------------------------------------------
\* What is in a file of n bytes that was just created, or referred to.
Fresh(f, mode, n) ==
    [l \in Log |-> IF l >= n THEN Nothing
                   ELSE IF mode = "REF" THEN [file |-> f, logical |-> l] ELSE Zero]

\* FiesReader_newFileCreate: the callback creates the file, or gives no handle.
newFileCreate ==
    /\ Get("NewFile_Get")
    /\ LET f == pkt.file  mode == pkt.mode IN
       IF Known(f) # (mode = "HARD") THEN Throw("stream")
       ELSE IF mode = "HARD"
       THEN IF files[f].handle
            THEN /\ Return("Begin", "more")
                 /\ UNCHANGED <<newfile, files, extent_at, data, done>>
            ELSE Throw("callback")
       ELSE \E handle \in BOOLEAN :
              /\ files' = [g \in DOMAIN files \cup {f} |->
                             IF g = f THEN [size |-> pkt.size, handle |-> handle] ELSE files[g]]
              /\ newfile' = IF mode = "REF" THEN newfile ELSE f
              /\ data' = IF handle THEN [data EXCEPT ![f] = Fresh(f, mode, pkt.size)] ELSE data
              /\ Return("Begin", "more")
              /\ UNCHANGED <<extent_at, done>>

\* FiesReader_handleFileMeta.  A callback's error is returned, but neither kept
\* nor is the callback tried again.
handleFileMeta ==
    /\ Get("FileMeta_Get")
    /\ IF pkt.file # newfile THEN Throw("stream")
       ELSE /\ newfile' = IF pkt.meta = "END" THEN Nothing ELSE newfile
            /\ \E r \in {"more", "again", "error"} : Return("Begin", r)
            /\ UNCHANGED <<files, extent_at, data, done>>

\* Slip: the file is not looked for.
getAnyFileEnd ==
    /\ Get("FileEnd")
    /\ done' = done \cup {pkt.file}
    /\ Return("Begin", "more")
    /\ UNCHANGED <<newfile, files, extent_at, data>>

\* FiesReader_getFileEnd.
getFileEnd ==
    /\ Get("FileEnd")
    /\ IF ~ Known(pkt.file) THEN Throw("stream")
       ELSE /\ done' = done \cup {pkt.file}
            /\ Return("Begin", "more")
            /\ UNCHANGED <<newfile, files, extent_at, data>>

\* FiesReader_getSnapshotList, _readSnapshotList and _applySnapshotList, with
\* errors as above.
getSnapshotList ==
    /\ Get("SnapshotList")
    /\ IF ~ Known(pkt.file) THEN Throw("stream")
       ELSE /\ \E r \in {"more", "again", "error"} : Return("Begin", r)
            /\ UNCHANGED <<newfile, files, extent_at, data, done>>
------------------------------------------------------------------------------
handle    == files[pkt.file].handle
remaining == pkt.length - extent_at
offset    == pkt.offset + extent_at

\* The data after n bytes from l on were set in the current extent's file.
Set(l, n, byte(_)) ==
    data' = IF handle THEN [data EXCEPT ![pkt.file] = Overwrite(@, l, n, byte)] ELSE data

\* Slip: an extent that does not fit into its file is taken.
AnyExtentOK == Known(pkt.file) /\ pkt.flags \in {"DATA", "ZERO", "HOLE", "COPY"}

\* Line 691 adds two 64 bit numbers.
ExtentOK ==
    /\ Known(pkt.file)
    /\ (pkt.offset + pkt.length) % Word <= files[pkt.file].size
    /\ pkt.flags \in {"DATA", "ZERO", "HOLE", "COPY"}

\* fies_extent is there, if not all of the packet.
ExtentThere == BodyThere \/ pkt.flags = "COPY" \/ (pkt.flags = "DATA" /\ pkt.length > 0)

\* FiesReader_startExtent.
startExtent ==
    /\ In("Extent_Get") /\ ExtentThere
    /\ IF ~ ExtentOK THEN Throw("stream")
       ELSE /\ extent_at' = 0
            /\ ~ (pkt.flags = "DATA" /\ pkt.length = 0)
            /\ state' = CASE pkt.flags = "ZERO" -> "Extent_ZeroOut"
                          [] pkt.flags = "HOLE" -> "Extent_PunchHole"
                          [] pkt.flags = "COPY" -> "Extent_GetCopyInfo"
                          [] OTHER -> "Extent_Read"
            /\ twice' = StartsTwice
            /\ rc' = "in"
            /\ UNCHANGED <<input_vars, pos, newfile, files, err, eof, data, done>>

\* FiesReader_startExtent with an extent of no data.
skipExtent ==
    /\ Get("Extent_Get") /\ ExtentOK
    /\ pkt.flags = "DATA" /\ pkt.length = 0
    /\ extent_at' = 0
    /\ Return("Begin", "more")
    /\ UNCHANGED <<newfile, files, data, done>>

\* No file has a byte at the last position there is (off_t has none), so that a
\* callback that may take parts of an extent takes nothing from there on.
Takes(n) == handle => offset + n < Word

\* n bytes of the extent were written, and the iterate returns r if any are left.
Wrote(n, r) ==
    IF n = remaining
    THEN Return("Begin", "more") /\ UNCHANGED extent_at
    ELSE extent_at' = extent_at + n /\ Return(state, r)

\* FiesReader_readExtent through the buffer: some of the data is there, and some
\* of that is written.
BufferedData ==
    \E n \in 1 .. remaining, r \in {"more", "again"} :
      /\ BodyThere \/ n < remaining
      /\ Takes(n)
      /\ Set(offset, n, LAMBDA k : pkt.data[extent_at + k])
      /\ Wrote(n, r)
      /\ UNCHANGED <<newfile, files, done>>

readExtent == In("Extent_Read") /\ ~ Sends /\ BufferedData

\* The send callback has answered -ENOTSUP: the data goes through the buffer.
sendNotSupported == In("Extent_Read") /\ Sends /\ (BufferedData \/ InputEnds)

\* Slip: the rest of the data is written where the extent begins.
sendExtentAtItsStart ==
    /\ In("Extent_Read") /\ Sends
    /\ \E n \in (IF BodyThere THEN 1 .. remaining ELSE 0 .. remaining - 1) :
         /\ Takes(n)
         /\ Set(pkt.offset, n, LAMBDA k : pkt.data[extent_at + k])
         /\ Wrote(n, "more")
    /\ UNCHANGED <<newfile, files, done>>

\* FiesReader_readExtent with a send callback.  At the end of the input it sends
\* nothing, which is not noticed.
sendExtent ==
    /\ In("Extent_Read") /\ Sends
    /\ \E n \in (IF BodyThere THEN 1 .. remaining ELSE 0 .. remaining - 1) :
         /\ Takes(n)
         /\ Set(offset, n, LAMBDA k : pkt.data[extent_at + k])
         /\ Wrote(n, "more")
    /\ UNCHANGED <<newfile, files, done>>

\* Slip: what is left to be zeroed out is started over with each part.
zeroExtentAgain ==
    /\ In("Extent_ZeroOut")
    /\ \E n \in (IF remaining = 0 THEN {0} ELSE 1 .. remaining) :
         /\ Takes(n)
         /\ Set(offset, n, LAMBDA k : Zero)
         /\ UNCHANGED extent_at
         /\ Return(IF n = remaining THEN "Begin" ELSE state, "more")
    /\ UNCHANGED <<newfile, files, done>>

\* FiesReader_zeroExtent.
zeroExtent ==
    /\ In("Extent_ZeroOut")
    /\ \E n \in (IF remaining = 0 THEN {0} ELSE 1 .. remaining) :
         /\ Takes(n)
         /\ Set(offset, n, LAMBDA k : Zero)
         /\ Wrote(n, "more")
    /\ UNCHANGED <<newfile, files, done>>

\* A callback that can take nothing fails.
PastLastPosition ==
    /\ In("Extent_Read") \/ In("Extent_ZeroOut")
    /\ remaining > 0 /\ ~ Takes(1)
    /\ Throw("callback")

\* FiesReader_punchHole.
punchHole ==
    /\ In("Extent_PunchHole")
    /\ Set(pkt.offset, pkt.length, LAMBDA k : Zero)
    /\ Return("Begin", "more")
    /\ UNCHANGED <<newfile, files, extent_at, done>>

\* FiesReader_getExtentCopyInfo: the clone callback copies what the source
\* holds, which is nothing if it was not wanted.
getExtentCopyInfo ==
    /\ Get("Extent_GetCopyInfo")
    /\ IF ~ Known(pkt.source) THEN Throw("stream")
       ELSE /\ Set(pkt.offset, pkt.length,
                   LAMBDA k : IF pkt.source_offset + k \in Log
                              THEN data[pkt.source][pkt.source_offset + k] ELSE Nothing)
            /\ Return("Begin", "more")
            /\ UNCHANGED <<newfile, files, extent_at, done>>
------------------------------------------------------------------------------
Handle ==
    \/ newFileCreate \/ handleFileMeta \/ getFileEnd \/ getSnapshotList
    \/ startExtent \/ skipExtent \/ readExtent \/ sendExtent \/ zeroExtent \/ PastLastPosition
    \/ punchHole \/ getExtentCopyInfo

Iterate == ReadsEnd \/ doReadHeader \/ readPacket \/ Handle

ReaderNext == Iterate \/ Again \/ Fails \/ sendNotSupported

CONSTANT Streams  \* the streams it may be given

\* What a packet's type says its body is made of, whatever the values are.
IsPacket(p) ==
    /\ p.type \in {"FILE", "FILE_META", "FILE_END", "SNAPSHOT_LIST", "EXTENT"} => p.file \in File
    /\ p.type = "FILE" => p.size \in 0 .. Word - 1
    /\ p.type = "EXTENT" =>
         /\ p.offset \in 0 .. Word - 1 /\ p.length \in 0 .. Word - 1
         /\ p.flags = "DATA" => p.data \in [0 .. p.length - 1 -> Place]
         /\ p.flags = "COPY" => p.source \in File /\ p.source_offset \in 0 .. Word - 1

IsStream(s) ==
    /\ Len(s) \in Nat /\ DOMAIN s = 1 .. Len(s)
    /\ \A i \in DOMAIN s : IsPacket(s[i])

ASSUME StreamsAssumption == \A s \in Streams : IsStream(s)

Init ==
    /\ stream \in Streams
    /\ closed \in {"whole", "cut"}
    /\ send \in BOOLEAN
    /\ Start

Spec == Init /\ [][ReaderNext]_vars

\* The program iterates until it is told the end or an error, and what has
\* nothing for it now has something later.
FairSpec == Spec /\ WF_vars(Iterate)
------------------------------------------------------------------------------
Ended == eof \/ err # "none"

\* The types of the variables.
TypeOK ==
    /\ pos \in 0 .. Len(stream)
    /\ state \in {"Header", "Begin", "NewFile_Get", "FileMeta_Get", "FileEnd", "Botched",
                  "Extent_Get", "Extent_GetCopyInfo", "Extent_Read", "Extent_ZeroOut",
                  "Extent_PunchHole", "SnapshotList"}
    /\ newfile \in File \cup {Nothing}
    /\ DOMAIN files \subseteq File /\ \A f \in DOMAIN files : files[f] \in Entry
    /\ extent_at \in Nat
    /\ rc \in {"more", "again", "error", "in"}
    /\ twice \in BOOLEAN /\ eof \in BOOLEAN
    /\ err \in {"none", "stream", "callback", "botched"}
    /\ data \in [File -> [Log -> Byte]]
    /\ done \subseteq DOMAIN files

\* Until the meta data of a file have ended, nothing is written to it, nor is
\* it finished: a receiver need not link it before that (fies.h:898-902).
MetaBeforeData ==
    newfile # Nothing =>
      /\ newfile \notin done
      /\ files[newfile].handle => data[newfile] = Fresh(newfile, "REG", files[newfile].size)

WithinSize(f) == \A l \in Log : l >= files[f].size => data[f][l] = Nothing

\* An extent whose end is no 64 bit number.
Wraps(p) == p.type = "EXTENT" /\ p.offset + p.length >= Word

\* Nothing is written behind the announced size of a file, wherever an extent
\* begins and however it is given in parts, unless the end of one that was read
\* for the file wraps.
WritesWithinSize ==
    \A f \in DOMAIN files :
      (\A i \in 1 .. pos : Wraps(stream[i]) => stream[i].file # f) => WithinSize(f)

\* An "extent exceeds file size" (lib/fies_reader.c:691-692) is refused, so that
\* nothing at all is written there.  One whose end wraps is not.
ExceedingIsRefused == \A f \in DOMAIN files : WithinSize(f)

\* What the files hold in d after the first n bytes of packet p, a whole extent
\* unless it is one of data or of zeroes.
Applied(d, p, n) ==
    LET f == p.file IN
    CASE p.type = "FILE" /\ p.mode # "HARD" /\ files[f].handle ->
           [d EXCEPT ![f] = Fresh(f, p.mode, p.size)]
      [] p.type = "EXTENT" /\ files[f].handle ->
           [d EXCEPT ![f] =
              CASE p.flags = "DATA" -> Overwrite(@, p.offset, n, LAMBDA k : p.data[k])
                [] p.flags = "COPY" ->
                     Overwrite(@, p.offset, n,
                               LAMBDA k : IF p.source_offset + k \in Log
                                          THEN d[p.source][p.source_offset + k] ELSE Nothing)
                [] OTHER -> Overwrite(@, p.offset, n, LAMBDA k : Zero)]
      [] OTHER -> d

Size(p) == IF p.type = "EXTENT" THEN p.length ELSE 0

\* What the files hold after the first i packets.
Replay[i \in 0 .. Len(stream)] ==
    CASE i = 0 -> [f \in File |-> [l \in Log |-> Nothing]]
      [] i = 1 -> Replay[0]
      [] OTHER -> Applied(Replay[i - 1], stream[i], Size(stream[i]))

\* Wherever the reader was interrupted and however its callbacks took the data
\* in parts, no byte was skipped, applied twice or in another place: the files
\* hold what the packets up to here say, the current one up to extent_at.
DataIsReplay ==
    data = CASE pos = 0 \/ state = "Begin" -> Replay[pos]
             [] state \in {"Extent_Read", "Extent_ZeroOut"} ->
                  Applied(Replay[pos - 1], pkt, extent_at)
             [] OTHER -> Replay[pos - 1]

\* The reader comes to the end of the stream or to an error in it, if the stream
\* is complete or its data are read through the buffer.
ReaderEnds == (closed = "whole" \/ ~ send) ~> Ended

\* "Iterate through the fiestream" (fies.h:218) until there is nothing left of it.
\* lib/fies_reader.c:661-673 takes a send callback that has sent nothing for
\* progress, so that a program that reads a stream cut in the data of an extent
\* with fies_extract.c's do_send (sendfile) iterates without end.
EveryStreamEnds == <>Ended
==============================================================================
