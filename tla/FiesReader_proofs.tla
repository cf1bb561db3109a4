-------------------------- MODULE FiesReader_proofs --------------------------
(***************************************************************************)
(* What a reader of a fiestream makes its callbacks hold, for every stream *)
(* of packets, wherever it is interrupted and however its callbacks take   *)
(* the data in parts.                                                      *)
(***************************************************************************)
EXTENDS FiesReader, WellFoundedInduction, NaturalsInduction, TLAPS

ExtentStates == {"Extent_Get", "Extent_GetCopyInfo", "Extent_Read", "Extent_ZeroOut",
                 "Extent_PunchHole"}
Handlers == {"NewFile_Get", "FileMeta_Get", "FileEnd", "SnapshotList"} \cup ExtentStates

\* What the variables are, and what stays as it was at the start.
ReaderType ==
    /\ TypeOK
    /\ IsStream(stream)
    /\ send \in BOOLEAN
    /\ newfile # Nothing => newfile \in DOMAIN files

\* The current packet is one for the state the reader is in.
PacketFits ==
    /\ state = "Header" => pos = 0
    /\ state # "Header" => pos > 0
    /\ state \in Handlers => pos > 1
    /\ state = "NewFile_Get" => pkt.type = "FILE"
    /\ state = "FileMeta_Get" => pkt.type = "FILE_META"
    /\ state = "FileEnd" => pkt.type = "FILE_END"
    /\ state = "SnapshotList" => pkt.type = "SNAPSHOT_LIST"
    /\ state \in ExtentStates => pkt.type = "EXTENT"

\* An extent that is being taken fits into its file, and some of it is left.
ExtentFits ==
    /\ state \in ExtentStates \ {"Extent_Get"} => ExtentOK
    /\ state = "Extent_GetCopyInfo" => pkt.flags = "COPY"
    /\ state = "Extent_PunchHole" => pkt.flags = "HOLE"
    /\ state = "Extent_ZeroOut" => pkt.flags = "ZERO" /\ extent_at <= pkt.length
    /\ state = "Extent_Read" => pkt.flags = "DATA" /\ extent_at < pkt.length

\* Meta data are read exactly while there is a file they belong to.
MetaFits ==
    state \in Handlers => ((newfile # Nothing) <=> (state = "FileMeta_Get"))

\* Nothing is written to a file nobody wants.
NoHandleNoData ==
    \A f \in File : (f \in DOMAIN files /\ files[f].handle) \/ data[f] = [l \in Log |-> Nothing]

Control   == ReaderType /\ PacketFits /\ ExtentFits /\ MetaFits
------------------------------------------------------------------------------
\* A sum that does not wrap is itself.
LEMMA NoWrap == ASSUME NEW n \in Nat, n < Word PROVE n % Word = n
BY WordAssumption

\* A step that leaves the reader where it is, or only notes an error or the end.
LEMMA StandsStill ==
    ASSUME Control,
           UNCHANGED <<input_vars, pos, state, newfile, files, extent_at, data, done>>,
           err' \in {"none", "stream", "callback", "botched"}, eof' \in BOOLEAN,
           rc' \in {"more", "again", "error", "in"}, twice' \in BOOLEAN
    PROVE  Control'
<1>1. ReaderType'
  BY DEF Control, ReaderType, TypeOK, input_vars
<1>2. pkt' = pkt
  BY DEF pkt, input_vars
<1>3. PacketFits'
  BY <1>2 DEF Control, PacketFits
<1>4. ExtentFits'
  BY <1>2 DEF Control, ExtentFits, ExtentOK, Known
<1>5. MetaFits'
  BY DEF Control, MetaFits
<1> QED
  BY <1>1, <1>3, <1>4, <1>5 DEF Control

LEMMA ThrowControl == ASSUME Control, NEW why \in {"stream", "callback"}, Throw(why) PROVE Control'
<1>1. UNCHANGED <<input_vars, pos, state, newfile, files, extent_at, data, done>> /\ err' = why
      /\ UNCHANGED <<rc, twice, eof>>
  BY DEF Throw
<1> QED
  BY <1>1, StandsStill DEF Control, ReaderType, TypeOK

\* A handler returns to the beginning of an iterate.
LEMMA ReturnsToBegin ==
    ASSUME Control, NEW r \in {"more", "again", "error"}, Return("Begin", r),
           state \in Handlers, DOMAIN files' \subseteq File, \A f \in DOMAIN files' : files'[f] \in Entry,
           newfile' # Nothing => newfile' \in DOMAIN files',
           extent_at' \in Nat, data' \in [File -> [Log -> Byte]], done' \subseteq DOMAIN files'
    PROVE  Control'
<1>1. UNCHANGED <<stream, closed, send, pos, eof>> /\ state' = "Begin" /\ rc' = r /\ twice' = FALSE
      /\ err' \in {err, "botched"}
  BY DEF Return, input_vars
<1>2. ReaderType'
  BY <1>1 DEF Control, ReaderType, TypeOK
<1>3. PacketFits'
  BY <1>1 DEF Control, PacketFits, Handlers, ExtentStates
<1>4. ExtentFits' /\ MetaFits'
  BY <1>1 DEF ExtentFits, MetaFits, Handlers, ExtentStates
<1> QED
  BY <1>2, <1>3, <1>4 DEF Control

\* What the reader knows of the current packet while it handles it.
LEMMA CurrentPacket ==
    ASSUME Control, state \in Handlers
    PROVE  /\ pos \in 2 .. Len(stream) /\ Len(stream) \in Nat
           /\ IsPacket(pkt) /\ pkt.file \in File
           /\ state \in ExtentStates => pkt.offset \in Nat /\ pkt.length \in Nat
           /\ state \in ExtentStates /\ pkt.flags = "DATA" => pkt.data \in [0 .. pkt.length - 1 -> Place]
           /\ state \in ExtentStates /\ pkt.flags = "COPY" =>
                pkt.source \in File /\ pkt.source_offset \in Nat
           /\ state = "NewFile_Get" => pkt.size \in Nat
<1>1. pos \in 2 .. Len(stream) /\ Len(stream) \in Nat
  BY DEF Control, ReaderType, TypeOK, IsStream, PacketFits
<1>2. IsPacket(pkt)
  BY <1>1 DEF Control, ReaderType, IsStream, pkt
<1>3. pkt.type \in {"FILE", "FILE_META", "FILE_END", "SNAPSHOT_LIST", "EXTENT"}
  BY DEF Control, PacketFits, Handlers
<1>4. pkt.file \in File
  BY <1>2, <1>3 DEF IsPacket
<1>0. 0 .. Word - 1 \subseteq Nat
  BY WordAssumption
<1>5. state \in ExtentStates => pkt.type = "EXTENT"
  BY DEF Control, PacketFits
<1>6. state = "NewFile_Get" => pkt.type = "FILE"
  BY DEF Control, PacketFits
<1> QED
  BY <1>0, <1>1, <1>2, <1>4, <1>5, <1>6 DEF IsPacket

\* The bytes a callback is given are bytes.
LEMMA SetType ==
    ASSUME NEW old, NEW new, NEW f \in File, NEW l \in Nat, NEW n \in Nat, NEW b,
           old \in [File -> [Log -> Byte]],
           \A x \in Log : x \in l .. l + n - 1 => b[x] \in Byte,
           new = [old EXCEPT ![f] = [x \in DOMAIN @ |-> IF x \in l .. l + n - 1 THEN b[x] ELSE @[x]]]
    PROVE  new \in [File -> [Log -> Byte]]
OBVIOUS

LEMMA HeaderControl == ASSUME Control, doReadHeader PROVE Control'
<1>1. CASE stream[1].type = "HEADER"
  <2>1. /\ state = "Header" /\ pos < Len(stream)
        /\ pos' = 1 /\ state' = "Begin" /\ rc' = "more"
        /\ UNCHANGED <<stream, closed, send, newfile, files, extent_at, twice, err, eof, data, done>>
    BY <1>1 DEF doReadHeader, In, input_vars
  <2>2. ReaderType'
    BY <2>1 DEF Control, ReaderType, TypeOK, IsStream
  <2>3. PacketFits' /\ ExtentFits' /\ MetaFits'
    BY <2>1 DEF PacketFits, ExtentFits, MetaFits, Handlers, ExtentStates
  <2> QED
    BY <2>2, <2>3 DEF Control
<1>2. CASE stream[1].type # "HEADER"
  BY <1>2, ThrowControl DEF doReadHeader
<1> QED
  BY <1>1, <1>2

LEMMA PacketControl == ASSUME Control, readPacket PROVE Control'
<1> DEFINE t == stream[pos + 1].type
<1>1. /\ state = "Begin" /\ pos < Len(stream) /\ pos' = pos + 1 /\ rc' = "in"
      /\ UNCHANGED <<stream, closed, send, newfile, files, extent_at, twice, data, done>>
      /\ state' = "Botched" \/ state' = NextState(t)
      /\ eof' \in BOOLEAN /\ err' \in {"stream", err}
  BY DEF readPacket, In, input_vars
<1>2. pos \in Nat /\ Len(stream) \in Nat /\ pos > 0 /\ pkt' = stream[pos + 1]
  BY <1>1 DEF Control, ReaderType, TypeOK, IsStream, PacketFits, pkt
<1>3. state' \in {"Botched", "NewFile_Get", "FileMeta_Get", "FileEnd", "SnapshotList", "Extent_Get"}
  BY <1>1 DEF NextState
<1>4. ReaderType'
  BY <1>1, <1>2, <1>3 DEF Control, ReaderType, TypeOK
<1>5. PacketFits'
  BY <1>1, <1>2, <1>3 DEF PacketFits, NextState, Handlers, ExtentStates
<1>6. ExtentFits'
  BY <1>3 DEF ExtentFits, ExtentStates
<1>7. MetaFits'
  BY <1>1, <1>3 DEF MetaFits, NextState, Handlers, ExtentStates
<1> QED
  BY <1>4, <1>5, <1>6, <1>7 DEF Control

LEMMA NewFileControl == ASSUME Control, newFileCreate PROVE Control'
<1> DEFINE f == pkt.file
<1>0. state = "NewFile_Get" /\ f \in File /\ pkt.size \in Nat /\ state \in Handlers
  BY CurrentPacket DEF newFileCreate, Get, In, Handlers
<1>1. CASE Known(f) # (pkt.mode = "HARD")
  BY <1>1, ThrowControl DEF newFileCreate
<1>2. CASE ~ (Known(f) # (pkt.mode = "HARD")) /\ pkt.mode = "HARD" /\ files[f].handle
  <2>1. Return("Begin", "more") /\ UNCHANGED <<newfile, files, extent_at, data, done>>
    BY <1>2 DEF newFileCreate
  <2> QED
    BY <2>1, <1>0, ReturnsToBegin DEF Control, ReaderType, TypeOK
<1>3. CASE ~ (Known(f) # (pkt.mode = "HARD")) /\ pkt.mode = "HARD" /\ ~ files[f].handle
  BY <1>3, ThrowControl DEF newFileCreate
<1>4. CASE ~ (Known(f) # (pkt.mode = "HARD")) /\ pkt.mode # "HARD"
  <2>1. PICK h \in BOOLEAN :
          /\ files' = [g \in DOMAIN files \cup {f} |->
                         IF g = f THEN [size |-> pkt.size, handle |-> h] ELSE files[g]]
          /\ newfile' = IF pkt.mode = "REF" THEN newfile ELSE f
          /\ data' = IF h THEN [data EXCEPT ![f] = Fresh(f, pkt.mode, pkt.size)] ELSE data
          /\ Return("Begin", "more")
          /\ UNCHANGED <<extent_at, done>>
    BY <1>4 DEF newFileCreate
  <2>2. Fresh(f, pkt.mode, pkt.size) \in [Log -> Byte]
    BY <1>0 DEF Fresh, Byte, Holder
  <2>3. data' \in [File -> [Log -> Byte]]
    BY <2>1, <2>2, <1>0 DEF Control, ReaderType, TypeOK
  <2>4. DOMAIN files' = DOMAIN files \cup {f} /\ \A g \in DOMAIN files' : files'[g] \in Entry
    BY <2>1, <1>0 DEF Control, ReaderType, TypeOK, Entry
  <2>5. DOMAIN files \subseteq File /\ done \subseteq DOMAIN files /\ extent_at \in Nat
        /\ (newfile # Nothing => newfile \in DOMAIN files)
    BY DEF Control, ReaderType, TypeOK
  <2> HIDE DEF f
  <2>6. DOMAIN files' \subseteq File /\ done' \subseteq DOMAIN files' /\ extent_at' \in Nat
        /\ (newfile' # Nothing => newfile' \in DOMAIN files')
    BY <2>1, <2>4, <2>5, <1>0
  <2> QED
    BY <2>1, <2>3, <2>4, <2>6, <1>0, ReturnsToBegin
<1> QED
  BY <1>1, <1>2, <1>3, <1>4

LEMMA MetaControl == ASSUME Control, handleFileMeta PROVE Control'
<1>0. state = "FileMeta_Get" /\ state \in Handlers
  BY DEF handleFileMeta, Get, In, Handlers
<1>1. CASE pkt.file # newfile
  BY <1>1, ThrowControl DEF handleFileMeta
<1>2. CASE pkt.file = newfile
  <2>1. PICK r \in {"more", "again", "error"} :
          /\ Return("Begin", r) /\ newfile' = IF pkt.meta = "END" THEN Nothing ELSE newfile
          /\ UNCHANGED <<files, extent_at, data, done>>
    BY <1>2 DEF handleFileMeta
  <2> QED
    BY <2>1, <1>0, ReturnsToBegin DEF Control, ReaderType, TypeOK
<1> QED
  BY <1>1, <1>2

LEMMA FileEndControl == ASSUME Control, getFileEnd PROVE Control'
<1>0. state = "FileEnd" /\ state \in Handlers
  BY DEF getFileEnd, Get, In, Handlers
<1>1. CASE ~ Known(pkt.file)
  BY <1>1, ThrowControl DEF getFileEnd
<1>2. CASE Known(pkt.file)
  <2>1. Return("Begin", "more") /\ done' = done \cup {pkt.file}
        /\ UNCHANGED <<newfile, files, extent_at, data>>
    BY <1>2 DEF getFileEnd
  <2>2. done' \subseteq DOMAIN files'
    BY <2>1, <1>2 DEF Known, Control, ReaderType, TypeOK
  <2> QED
    BY <2>1, <2>2, <1>0, ReturnsToBegin DEF Control, ReaderType, TypeOK
<1> QED
  BY <1>1, <1>2

LEMMA SnapshotControl == ASSUME Control, getSnapshotList PROVE Control'
<1>0. state = "SnapshotList" /\ state \in Handlers
  BY DEF getSnapshotList, Get, In, Handlers
<1>1. CASE ~ Known(pkt.file)
  BY <1>1, ThrowControl DEF getSnapshotList
<1>2. CASE Known(pkt.file)
  <2>1. PICK r \in {"more", "again", "error"} :
          Return("Begin", r) /\ UNCHANGED <<newfile, files, extent_at, data, done>>
    BY <1>2 DEF getSnapshotList
  <2> QED
    BY <2>1, <1>0, ReturnsToBegin DEF Control, ReaderType, TypeOK
<1> QED
  BY <1>1, <1>2
------------------------------------------------------------------------------
\* The bytes that packet p puts at each position of its file, given what the
\* files hold.
BytesOf(p, d) ==
    [x \in Nat |->
       IF p.flags = "DATA" THEN p.data[x - p.offset]
       ELSE IF p.flags = "COPY"
       THEN IF p.source_offset + (x - p.offset) \in Log
            THEN d[p.source][p.source_offset + (x - p.offset)] ELSE Nothing
       ELSE Zero]

\* The files after the n bytes of packet p from l on were put, if p's is wanted.
Written(d, p, l, n, wanted) ==
    IF wanted
    THEN [d EXCEPT ![p.file] =
            [x \in DOMAIN @ |-> IF x \in l .. l + n - 1 THEN BytesOf(p, d)[x] ELSE @[x]]]
    ELSE d

Puts(l, n) == data' = Written(data, pkt, l, n, handle)

\* The handlers of extents that write: which part of the extent, and whether
\* there is more of it.
Part(n) ==
    /\ Puts(pkt.offset + extent_at, n)
    /\ n \in Nat /\ n <= remaining
    /\ \/ n = remaining /\ Return("Begin", "more") /\ UNCHANGED extent_at
       \/ /\ n # remaining /\ extent_at' = extent_at + n
          /\ \E r \in {"more", "again"} : Return(state, r)

Whole == Puts(pkt.offset, pkt.length) /\ Return("Begin", "more") /\ UNCHANGED extent_at

LEMMA WroteIsPart ==
    ASSUME Control, NEW n \in Nat, n <= remaining, NEW r \in {"more", "again"},
           Puts(pkt.offset + extent_at, n), Wrote(n, r)
    PROVE  Part(n)
BY DEF Wrote, Part

LEMMA PositionsInPart ==
    ASSUME NEW o \in Nat, NEW a \in Nat, NEW n \in Nat, NEW x \in Log, x \in (o + a) .. (o + a) + n - 1
    PROVE  x \in Nat /\ a + (x - (o + a)) = x - o
BY SizeAssumption DEF Log

LEMMA ReadIsPart ==
    ASSUME Control, state = "Extent_Read", BufferedData \/ sendExtent PROVE \E n \in Nat : Part(n)
<1>0. state \in ExtentStates /\ state \in Handlers
  BY DEF ExtentStates, Handlers
<1>1. pkt.flags = "DATA" /\ pkt.offset \in Nat /\ pkt.length \in Nat /\ extent_at \in Nat
      /\ extent_at < pkt.length /\ data \in [File -> [Log -> Byte]] /\ pkt.file \in File
  BY <1>0, CurrentPacket DEF Control, ReaderType, TypeOK, ExtentFits
<1>2. PICK n \in 0 .. remaining, r \in {"more", "again"} :
        Set(offset, n, LAMBDA k : pkt.data[extent_at + k]) /\ Wrote(n, r)
  <2>1. CASE BufferedData
    <3>1. PICK n \in 1 .. remaining, r \in {"more", "again"} :
            Set(offset, n, LAMBDA k : pkt.data[extent_at + k]) /\ Wrote(n, r)
      BY <2>1 DEF BufferedData
    <3>2. n \in 0 .. remaining
      BY <3>1, <1>1 DEF remaining
    <3> QED
      BY <3>1, <3>2
  <2>2. CASE sendExtent
    <3>1. PICK n \in (IF BodyThere THEN 1 .. remaining ELSE 0 .. remaining - 1) :
            Set(offset, n, LAMBDA k : pkt.data[extent_at + k]) /\ Wrote(n, "more")
      BY <2>2 DEF sendExtent
    <3>2. n \in 0 .. remaining
      BY <3>1, <1>1 DEF remaining
    <3> QED
      BY <3>1, <3>2
  <2> QED
    BY <2>1, <2>2
<1>3. n \in Nat /\ n <= remaining
  BY <1>1 DEF remaining
<1>4. Puts(pkt.offset + extent_at, n)
  <2>1. data' = IF handle
                THEN [data EXCEPT ![pkt.file] =
                        [x \in DOMAIN @ |->
                           IF x \in (pkt.offset + extent_at) .. (pkt.offset + extent_at) + n - 1
                           THEN pkt.data[extent_at + (x - (pkt.offset + extent_at))] ELSE @[x]]]
                ELSE data
    BY <1>2 DEF Set, Overwrite, offset
  <2>2. \A x \in Log : x \in (pkt.offset + extent_at) .. (pkt.offset + extent_at) + n - 1 =>
          pkt.data[extent_at + (x - (pkt.offset + extent_at))] = BytesOf(pkt, data)[x]
    BY <1>1, <1>3, PositionsInPart DEF BytesOf
  <2>3. DOMAIN data[pkt.file] = Log
    BY <1>1
  <2> QED
    BY <2>1, <2>2, <2>3 DEF Puts, Written
<1> QED
  BY <1>0, <1>2, <1>3, <1>4, WroteIsPart

LEMMA ZeroIsPart ==
    ASSUME Control, zeroExtent PROVE \E n \in Nat : Part(n)
<1>0. state = "Extent_ZeroOut" /\ state \in ExtentStates /\ state \in Handlers
  BY DEF zeroExtent, In, ExtentStates, Handlers
<1>1. pkt.flags = "ZERO" /\ pkt.offset \in Nat /\ pkt.length \in Nat /\ extent_at \in Nat
      /\ extent_at <= pkt.length /\ data \in [File -> [Log -> Byte]] /\ pkt.file \in File
  BY <1>0, CurrentPacket DEF Control, ReaderType, TypeOK, ExtentFits
<1>2. PICK n \in 0 .. remaining : Set(offset, n, LAMBDA k : Zero) /\ Wrote(n, "more")
  BY <1>1 DEF zeroExtent, remaining
<1>3. n \in Nat /\ n <= remaining
  BY <1>1 DEF remaining
<1>4. Puts(pkt.offset + extent_at, n)
  <2>1. data' = IF handle
                THEN [data EXCEPT ![pkt.file] =
                        [x \in DOMAIN @ |->
                           IF x \in (pkt.offset + extent_at) .. (pkt.offset + extent_at) + n - 1
                           THEN Zero ELSE @[x]]]
                ELSE data
    BY <1>2 DEF Set, Overwrite, offset
  <2>2. \A x \in Log : BytesOf(pkt, data)[x] = Zero
    BY <1>1, SizeAssumption DEF BytesOf, Log
  <2>3. DOMAIN data[pkt.file] = Log
    BY <1>1
  <2> QED
    BY <2>1, <2>2, <2>3 DEF Puts, Written
<1> QED
  BY <1>0, <1>2, <1>3, <1>4, WroteIsPart

LEMMA HoleIsWhole == ASSUME Control, punchHole PROVE Whole
<1>0. state = "Extent_PunchHole" /\ state \in ExtentStates /\ state \in Handlers
  BY DEF punchHole, In, ExtentStates, Handlers
<1>1. pkt.flags = "HOLE" /\ data \in [File -> [Log -> Byte]] /\ pkt.file \in File
  BY <1>0, CurrentPacket DEF Control, ReaderType, TypeOK, ExtentFits
<1>2. \A x \in Log : BytesOf(pkt, data)[x] = Zero
  BY <1>1, SizeAssumption DEF BytesOf, Log
<1>3. DOMAIN data[pkt.file] = Log
  BY <1>1
<1>4. data' = IF handle
              THEN [data EXCEPT ![pkt.file] =
                      [x \in DOMAIN @ |-> IF x \in pkt.offset .. pkt.offset + pkt.length - 1
                                          THEN Zero ELSE @[x]]]
              ELSE data
  BY DEF punchHole, Set, Overwrite
<1>5. Return("Begin", "more") /\ UNCHANGED extent_at
  BY DEF punchHole
<1> QED
  BY <1>2, <1>3, <1>4, <1>5 DEF Whole, Puts, Written

LEMMA CopyIsWhole == ASSUME Control, getExtentCopyInfo, Known(pkt.source) PROVE Whole
<1>0. state = "Extent_GetCopyInfo" /\ state \in ExtentStates /\ state \in Handlers
  BY DEF getExtentCopyInfo, Get, In, ExtentStates, Handlers
<1>1. pkt.flags = "COPY" /\ data \in [File -> [Log -> Byte]] /\ pkt.file \in File
  BY <1>0, CurrentPacket DEF Control, ReaderType, TypeOK, ExtentFits
<1>2. \A x \in Log : BytesOf(pkt, data)[x] =
        IF pkt.source_offset + (x - pkt.offset) \in Log
        THEN data[pkt.source][pkt.source_offset + (x - pkt.offset)] ELSE Nothing
  BY <1>1, SizeAssumption DEF BytesOf, Log
<1>3. DOMAIN data[pkt.file] = Log
  BY <1>1
<1>4. data' = IF handle
              THEN [data EXCEPT ![pkt.file] =
                      [x \in DOMAIN @ |-> IF x \in pkt.offset .. pkt.offset + pkt.length - 1
                                          THEN IF pkt.source_offset + (x - pkt.offset) \in Log
                                               THEN data[pkt.source][pkt.source_offset + (x - pkt.offset)]
                                               ELSE Nothing
                                          ELSE @[x]]]
              ELSE data
  BY DEF getExtentCopyInfo, Set, Overwrite
<1>5. Return("Begin", "more") /\ UNCHANGED extent_at
  BY DEF getExtentCopyInfo
<1> QED
  BY <1>2, <1>3, <1>4, <1>5 DEF Whole, Puts, Written
------------------------------------------------------------------------------
\* Whatever is put is a byte.
LEMMA PutsType ==
    ASSUME Control, state \in ExtentStates, NEW l \in Nat, NEW n \in Nat, Puts(l, n),
           l >= pkt.offset, l + n <= pkt.offset + pkt.length
    PROVE  data' \in [File -> [Log -> Byte]]
<1>0. state \in Handlers
  BY DEF Handlers
<1>1. /\ pkt.offset \in Nat /\ pkt.length \in Nat /\ pkt.file \in File
      /\ pkt.flags = "DATA" => pkt.data \in [0 .. pkt.length - 1 -> Place]
      /\ pkt.flags = "COPY" => pkt.source \in File /\ pkt.source_offset \in Nat
      /\ data \in [File -> [Log -> Byte]]
  BY <1>0, CurrentPacket DEF Control, ReaderType, TypeOK
<1> DEFINE b == BytesOf(pkt, data)
<1>2. \A x \in Log : x \in l .. l + n - 1 => b[x] \in Byte
  <2> SUFFICES ASSUME NEW x \in Log, x \in l .. l + n - 1 PROVE b[x] \in Byte
    OBVIOUS
  <2>1. x \in Nat /\ x - pkt.offset \in 0 .. pkt.length - 1
    BY <1>1, SizeAssumption DEF Log
  <2>2. CASE pkt.flags = "DATA"
    <3>1. b[x] = pkt.data[x - pkt.offset]
      BY <2>1, <2>2 DEF BytesOf
    <3> QED
      BY <3>1, <2>1, <2>2, <1>1 DEF Byte
  <2>3. CASE pkt.flags = "COPY"
    BY <2>1, <2>3, <1>1 DEF BytesOf, Byte
  <2>4. CASE pkt.flags \notin {"DATA", "COPY"}
    BY <2>1, <2>4 DEF BytesOf, Byte
  <2> QED
    BY <2>2, <2>3, <2>4
<1>3. data' = IF handle
              THEN [data EXCEPT ![pkt.file] = [x \in DOMAIN @ |-> IF x \in l .. l + n - 1 THEN b[x] ELSE @[x]]]
              ELSE data
  BY DEF Puts, Written
<1> HIDE DEF b
<1>4. CASE handle
  BY <1>1, <1>2, <1>3, <1>4, SetType
<1>5. CASE ~ handle
  BY <1>1, <1>3, <1>5
<1> QED
  BY <1>4, <1>5

LEMMA PartControl ==
    ASSUME Control, state \in {"Extent_Read", "Extent_ZeroOut"}, NEW n \in Nat, Part(n),
           UNCHANGED <<newfile, files, done>>
    PROVE  Control'
<1>0. state \in ExtentStates /\ state \in Handlers
  BY DEF ExtentStates, Handlers
<1>1. /\ pkt.offset \in Nat /\ pkt.length \in Nat /\ extent_at \in Nat /\ extent_at <= pkt.length
      /\ n <= remaining /\ remaining = pkt.length - extent_at
  BY <1>0, CurrentPacket DEF Control, ReaderType, TypeOK, ExtentFits, Part, remaining
<1>2. data' \in [File -> [Log -> Byte]]
  <2>1. Puts(pkt.offset + extent_at, n)
    BY DEF Part
  <2>2. pkt.offset + extent_at \in Nat /\ pkt.offset + extent_at >= pkt.offset
        /\ (pkt.offset + extent_at) + n <= pkt.offset + pkt.length
    BY <1>1
  <2> QED
    BY <2>1, <2>2, <1>0, PutsType
<1>3. CASE n = remaining
  BY <1>0, <1>1, <1>2, <1>3, ReturnsToBegin DEF Part, Control, ReaderType, TypeOK
<1>4. CASE n # remaining
  <2>1. PICK r \in {"more", "again"} : Return(state, r) /\ extent_at' = extent_at + n
    BY <1>4 DEF Part
  <2>2. UNCHANGED <<stream, closed, send, pos, state, eof, newfile, files, done>>
        /\ rc' = r /\ twice' = FALSE /\ err' \in {err, "botched"}
    BY <2>1 DEF Return, input_vars
  <2>3. extent_at' \in Nat /\ extent_at' < pkt.length
    BY <1>1, <1>4, <2>1
  <2>4. ReaderType'
    BY <1>2, <2>2, <2>3 DEF Control, ReaderType, TypeOK
  <2>5. pkt' = pkt
    BY <2>2 DEF pkt
  <2>6. PacketFits' /\ MetaFits'
    BY <2>2, <2>5 DEF Control, PacketFits, MetaFits
  <2>7. ExtentFits'
    BY <1>1, <2>2, <2>3, <2>5 DEF Control, ExtentFits, ExtentOK, Known
  <2> QED
    BY <2>4, <2>6, <2>7 DEF Control
<1> QED
  BY <1>3, <1>4

LEMMA WholeControl ==
    ASSUME Control, state \in ExtentStates, Whole, UNCHANGED <<newfile, files, done>>
    PROVE  Control'
<1>0. state \in Handlers
  BY DEF ExtentStates, Handlers
<1>1. pkt.offset \in Nat /\ pkt.length \in Nat
  BY <1>0, CurrentPacket
<1>2. data' \in [File -> [Log -> Byte]]
  BY <1>1, PutsType DEF Whole
<1> QED
  BY <1>0, <1>2, ReturnsToBegin DEF Whole, Control, ReaderType, TypeOK

LEMMA StartControl == ASSUME Control, startExtent PROVE Control'
<1>0. state = "Extent_Get" /\ state \in Handlers
  BY DEF startExtent, In, Handlers, ExtentStates
<1>1. CASE ~ ExtentOK
  BY <1>1, ThrowControl DEF startExtent
<1>2. CASE ExtentOK
  <2>1. /\ extent_at' = 0 /\ ~ (pkt.flags = "DATA" /\ pkt.length = 0)
        /\ state' = CASE pkt.flags = "ZERO" -> "Extent_ZeroOut"
                      [] pkt.flags = "HOLE" -> "Extent_PunchHole"
                      [] pkt.flags = "COPY" -> "Extent_GetCopyInfo"
                      [] OTHER -> "Extent_Read"
        /\ twice' = StartsTwice /\ rc' = "in"
        /\ UNCHANGED <<stream, closed, send, pos, newfile, files, err, eof, data, done>>
    BY <1>2 DEF startExtent, input_vars
  <2>2. state' \in ExtentStates /\ state' # "Extent_Get"
    BY <2>1 DEF ExtentStates
  <2>3. pkt' = pkt /\ pkt.type = "EXTENT" /\ pos \in Nat /\ pos > 1 /\ pkt.length \in Nat
    BY <2>1, <1>0, CurrentPacket DEF pkt, Control, PacketFits, ExtentStates
  <2>4. pkt.flags \in {"DATA", "ZERO", "HOLE", "COPY"} /\ ExtentOK'
    BY <1>2, <2>1, <2>3 DEF ExtentOK, Known
  <2>5. ReaderType'
    BY <2>1, <2>2 DEF Control, ReaderType, TypeOK, ExtentStates, StartsTwice
  <2>6. PacketFits'
    BY <2>1, <2>2, <2>3 DEF PacketFits, ExtentStates, Handlers
  <2>7. ExtentFits'
    BY <2>1, <2>2, <2>3, <2>4 DEF ExtentFits
  <2>8. MetaFits'
    BY <2>1, <2>2, <1>0 DEF Control, MetaFits, ExtentStates
  <2> QED
    BY <2>5, <2>6, <2>7, <2>8 DEF Control
<1> QED
  BY <1>1, <1>2

LEMMA SkipControl == ASSUME Control, skipExtent PROVE Control'
BY ReturnsToBegin DEF skipExtent, Get, In, Handlers, ExtentStates, Control, ReaderType, TypeOK

\* Each step leaves the reader with a packet for its state.
LEMMA NextControl == ASSUME Control, [ReaderNext]_vars PROVE Control'
<1>1. CASE InputEnds
  BY <1>1, StandsStill DEF InputEnds, Control, ReaderType, TypeOK
<1>2. CASE doReadHeader
  BY <1>2, HeaderControl
<1>3. CASE readPacket
  BY <1>3, PacketControl
<1>4. CASE newFileCreate \/ handleFileMeta \/ getFileEnd \/ getSnapshotList
  BY <1>4, NewFileControl, MetaControl, FileEndControl, SnapshotControl
<1>5. CASE startExtent \/ skipExtent
  BY <1>5, StartControl, SkipControl
<1>6. CASE In("Extent_Read") /\ (BufferedData \/ sendExtent)
  <2>1. state = "Extent_Read" /\ UNCHANGED <<newfile, files, done>>
    BY <1>6 DEF BufferedData, sendExtent, In
  <2> QED
    BY <1>6, <2>1, ReadIsPart, PartControl
<1>7. CASE zeroExtent
  <2>1. state = "Extent_ZeroOut" /\ UNCHANGED <<newfile, files, done>>
    BY <1>7 DEF zeroExtent, In
  <2> QED
    BY <1>7, <2>1, ZeroIsPart, PartControl
<1>8. CASE punchHole
  BY <1>8, HoleIsWhole, WholeControl DEF punchHole, In, ExtentStates
<1>9. CASE getExtentCopyInfo
  <2>1. CASE Known(pkt.source)
    <3>1. state \in ExtentStates /\ UNCHANGED <<newfile, files, done>>
      BY <1>9, <2>1 DEF getExtentCopyInfo, Get, In, ExtentStates
    <3> QED
      BY <1>9, <2>1, <3>1, CopyIsWhole, WholeControl
  <2>2. CASE ~ Known(pkt.source)
    BY <1>9, <2>2, ThrowControl DEF getExtentCopyInfo
  <2> QED
    BY <2>1, <2>2
<1>10. CASE Again
  BY <1>10, StandsStill DEF Again, Control, ReaderType, TypeOK
<1>11. CASE Fails
  BY <1>11, ThrowControl DEF Fails
<1>12. CASE UNCHANGED vars
  BY <1>12, StandsStill DEF vars, Control, ReaderType, TypeOK
<1>13. CASE PastLastPosition
  BY <1>13, ThrowControl DEF PastLastPosition
<1> QED
  BY <1>1, <1>2, <1>3, <1>4, <1>5, <1>6, <1>7, <1>8, <1>9, <1>10, <1>11, <1>12, <1>13
     DEF ReaderNext, Iterate, Handle, ReadsEnd, readExtent, sendExtent, sendNotSupported

LEMMA InitControl == Init => Control
<1> SUFFICES ASSUME Init PROVE Control
  OBVIOUS
<1>1. IsStream(stream) /\ Start /\ send \in BOOLEAN
  BY StreamsAssumption DEF Init
<1>2. ReaderType
  <2>1. DOMAIN files = {} /\ done = {}
    BY <1>1 DEF Start
  <2>2. data \in [File -> [Log -> Byte]]
    BY <1>1 DEF Start, Byte
  <2>3. pos \in 0 .. Len(stream)
    BY <1>1 DEF Start, IsStream
  <2> QED
    BY <1>1, <2>1, <2>2, <2>3 DEF Start, ReaderType, TypeOK
<1>3. PacketFits /\ ExtentFits /\ MetaFits
  BY <1>1 DEF Start, PacketFits, ExtentFits, MetaFits, Handlers, ExtentStates
<1> QED
  BY <1>2, <1>3 DEF Control

\* The types of the reader's variables, for every stream.
THEOREM ReaderTypeCorrect == Spec => []TypeOK
<1>1. Control /\ [ReaderNext]_vars => Control'
  BY NextControl
<1>2. Control => TypeOK
  BY DEF Control, ReaderType
<1> QED
  BY <1>1, <1>2, InitControl, PTL DEF Spec
------------------------------------------------------------------------------
DataInv == NoHandleNoData /\ MetaBeforeData /\ WritesWithinSize

LEMMA SameDataInv ==
    ASSUME Control, DataInv, UNCHANGED <<stream, files, data>>, pos' \in {pos, pos + 1},
           newfile' \in {newfile, Nothing}, newfile' # Nothing => UNCHANGED done
    PROVE  DataInv'
<1>0. 1 .. pos \subseteq 1 .. pos'
  BY DEF Control, ReaderType, TypeOK
<1>1. NoHandleNoData' /\ WritesWithinSize'
  BY <1>0 DEF DataInv, NoHandleNoData, WritesWithinSize, WithinSize, Wraps
<1>2. MetaBeforeData'
  BY DEF DataInv, MetaBeforeData
<1> QED
  BY <1>1, <1>2 DEF DataInv

LEMMA PutsDataInv ==
    ASSUME Control, DataInv, state \in ExtentStates \ {"Extent_Get"}, NEW l \in Nat, NEW n \in Nat,
           Puts(l, n), l + n <= pkt.offset + pkt.length,
           UNCHANGED <<stream, pos, newfile, files, done>>
    PROVE  DataInv'
<1>0. state \in Handlers /\ newfile = Nothing
  BY DEF Handlers, ExtentStates, Control, MetaFits
<1>1. /\ pkt.file \in DOMAIN files /\ ExtentOK /\ pos \in 1 .. pos
      /\ pkt.offset \in Nat /\ pkt.length \in Nat /\ pkt.file \in File
      /\ files[pkt.file].size \in Nat /\ data \in [File -> [Log -> Byte]] /\ DOMAIN files \subseteq File
  BY <1>0, CurrentPacket DEF Control, ReaderType, TypeOK, ExtentFits, ExtentOK, Known, Entry, ExtentStates
<1>2. MetaBeforeData'
  BY <1>0 DEF MetaBeforeData
<1>3. CASE ~ handle
  <2>1. data' = data
    BY <1>3 DEF Puts, Written
  <2> QED
    BY <1>2, <2>1 DEF DataInv, NoHandleNoData, WritesWithinSize, WithinSize, Wraps
<1>4. CASE handle
  <2>1. /\ \A f \in File : f # pkt.file => data'[f] = data[f]
        /\ \A x \in Log : ~ (x \in l .. l + n - 1) => data'[pkt.file][x] = data[pkt.file][x]
    BY <1>1, <1>4 DEF Puts, Written
  <2>2. NoHandleNoData'
    BY <1>1, <1>4, <2>1 DEF DataInv, NoHandleNoData, handle
  <2>3. WritesWithinSize'
    <3> SUFFICES ASSUME NEW f \in DOMAIN files, \A i \in 1 .. pos : Wraps(stream[i]) => stream[i].file # f,
                        NEW x \in Log, x >= files[f].size
                 PROVE  data'[f][x] = Nothing
      BY DEF WritesWithinSize, WithinSize, Wraps
    <3>1. data[f][x] = Nothing
      BY DEF DataInv, WritesWithinSize, WithinSize
    <3>2. CASE f # pkt.file
      BY <1>1, <2>1, <3>1, <3>2
    <3>3. CASE f = pkt.file
      <4>1. pkt.offset + pkt.length \in Nat /\ pkt.offset + pkt.length < Word
        <5>1. ~ Wraps(pkt)
          BY <1>1, <3>3 DEF pkt
        <5>2. pkt.type = "EXTENT"
          BY DEF Control, PacketFits
        <5> QED
          BY <1>1, <5>1, <5>2, WordAssumption DEF Wraps
      <4>2. pkt.offset + pkt.length <= files[pkt.file].size
        <5>1. (pkt.offset + pkt.length) % Word = pkt.offset + pkt.length
          BY <4>1, NoWrap
        <5> QED
          BY <1>1, <5>1 DEF ExtentOK
      <4>3. x \in Nat /\ ~ (x \in l .. l + n - 1)
        BY <1>1, <3>3, <4>2, SizeAssumption DEF Log
      <4> QED
        BY <2>1, <3>1, <3>3, <4>3
    <3> QED
      BY <3>2, <3>3
  <2> QED
    BY <1>2, <2>2, <2>3 DEF DataInv
<1> QED
  BY <1>3, <1>4

LEMMA ThrowDataInv == ASSUME Control, DataInv, NEW why, Throw(why) PROVE DataInv'
BY SameDataInv DEF Throw, input_vars

LEMMA NewFileDataInv == ASSUME Control, DataInv, newFileCreate PROVE DataInv'
<1> DEFINE f == pkt.file
<1>0. state = "NewFile_Get" /\ f \in File /\ pkt.size \in Nat /\ state \in Handlers
  BY CurrentPacket DEF newFileCreate, Get, In, Handlers
<1>1. CASE Known(f) # (pkt.mode = "HARD")
  BY <1>1, ThrowDataInv DEF newFileCreate
<1>2. CASE ~ (Known(f) # (pkt.mode = "HARD")) /\ pkt.mode = "HARD"
  BY <1>2, ThrowDataInv, SameDataInv DEF newFileCreate, Return, input_vars
<1>3. CASE ~ (Known(f) # (pkt.mode = "HARD")) /\ pkt.mode # "HARD"
  <2>1. PICK h \in BOOLEAN :
          /\ files' = [g \in DOMAIN files \cup {f} |->
                         IF g = f THEN [size |-> pkt.size, handle |-> h] ELSE files[g]]
          /\ newfile' = IF pkt.mode = "REF" THEN newfile ELSE f
          /\ data' = IF h THEN [data EXCEPT ![f] = Fresh(f, pkt.mode, pkt.size)] ELSE data
          /\ UNCHANGED <<stream, pos, done>>
    BY <1>3 DEF newFileCreate, Return, input_vars
  <2>2. newfile = Nothing /\ f \notin DOMAIN files /\ done \subseteq DOMAIN files
        /\ DOMAIN files \subseteq File /\ data \in [File -> [Log -> Byte]]
    BY <1>0, <1>3 DEF Control, MetaFits, Known, ReaderType, TypeOK
  <2>3. data[f] = [l \in Log |-> Nothing]
    BY <1>0, <2>2 DEF DataInv, NoHandleNoData
  <2>4. /\ DOMAIN files' = DOMAIN files \cup {f}
        /\ files'[f].size = pkt.size /\ files'[f].handle = h
        /\ \A g \in DOMAIN files : files'[g] = files[g]
        /\ \A g \in File : g # f => data'[g] = data[g]
        /\ data'[f] = IF h THEN Fresh(f, pkt.mode, pkt.size) ELSE data[f]
    BY <1>0, <2>1, <2>2
  <2>5. \A l \in Log : l >= pkt.size => data'[f][l] = Nothing
    BY <2>3, <2>4 DEF Fresh
  <2>6. MetaBeforeData'
    <3>1. CASE pkt.mode = "REF"
      BY <2>1, <2>2, <3>1 DEF MetaBeforeData
    <3>2. CASE pkt.mode # "REF"
      <4>1. newfile' = f /\ f \notin done'
        BY <2>1, <2>2, <3>2
      <4>2. Fresh(f, pkt.mode, pkt.size) = Fresh(f, "REG", pkt.size)
        BY <3>2 DEF Fresh
      <4> HIDE DEF f
      <4> QED
        BY <4>1, <4>2, <2>4 DEF MetaBeforeData
    <3> QED
      BY <3>1, <3>2
  <2> HIDE DEF f
  <2>7. NoHandleNoData'
    BY <2>2, <2>3, <2>4 DEF DataInv, NoHandleNoData
  <2>8. WritesWithinSize'
    <3> SUFFICES ASSUME NEW g \in DOMAIN files', NEW l \in Log, l >= files'[g].size,
                        \A i \in 1 .. pos : Wraps(stream[i]) => stream[i].file # g
                 PROVE  data'[g][l] = Nothing
      BY <2>1 DEF WritesWithinSize, WithinSize, Wraps
    <3>1. CASE g = f
      BY <2>4, <2>5, <3>1
    <3>2. CASE g # f
      BY <2>2, <2>4, <3>2 DEF DataInv, WritesWithinSize, WithinSize
    <3> QED
      BY <3>1, <3>2
  <2> QED
    BY <2>6, <2>7, <2>8 DEF DataInv
<1> QED
  BY <1>1, <1>2, <1>3

LEMMA NextDataInv == ASSUME Control, DataInv, [ReaderNext]_vars PROVE DataInv'
<1>1. CASE InputEnds \/ doReadHeader \/ readPacket \/ Again \/ Fails \/ PastLastPosition \/ UNCHANGED vars
  <2>1. CASE InputEnds \/ Again \/ UNCHANGED vars
    BY <2>1, SameDataInv DEF InputEnds, Again, vars, input_vars
  <2>2. CASE Fails \/ PastLastPosition
    BY <2>2, ThrowDataInv DEF Fails, PastLastPosition
  <2>3. CASE readPacket
    BY <2>3, SameDataInv DEF readPacket, input_vars
  <2>4. CASE doReadHeader
    <3>1. CASE stream[1].type = "HEADER"
      <4>1. pos = 0 /\ pos' = pos + 1 /\ UNCHANGED <<stream, newfile, files, data, done>>
        BY <2>4, <3>1 DEF doReadHeader, In, Control, PacketFits, input_vars
      <4> QED
        BY <4>1, SameDataInv
    <3>2. CASE stream[1].type # "HEADER"
      BY <2>4, <3>2, ThrowDataInv DEF doReadHeader
    <3> QED
      BY <3>1, <3>2
  <2> QED
    BY <1>1, <2>1, <2>2, <2>3, <2>4
<1>2. CASE newFileCreate
  BY <1>2, NewFileDataInv
<1>3. CASE handleFileMeta \/ getSnapshotList
  BY <1>3, SameDataInv, ThrowDataInv DEF handleFileMeta, getSnapshotList, Return, input_vars
<1>4. CASE getFileEnd
  <2>1. newfile = Nothing
    BY <1>4 DEF getFileEnd, Get, In, Control, MetaFits, Handlers
  <2> QED
    BY <1>4, <2>1, SameDataInv, ThrowDataInv DEF getFileEnd, Return, input_vars
<1>5. CASE startExtent \/ skipExtent
  BY <1>5, SameDataInv, ThrowDataInv DEF startExtent, skipExtent, Return, input_vars
<1>6. ASSUME state \in {"Extent_Read", "Extent_ZeroOut"}, NEW n \in Nat, Part(n),
             UNCHANGED <<newfile, files, done>>
      PROVE  DataInv'
  <2>1. pkt.offset \in Nat /\ pkt.length \in Nat /\ extent_at \in Nat /\ extent_at <= pkt.length
        /\ state \in ExtentStates \ {"Extent_Get"}
    BY <1>6, CurrentPacket DEF Handlers, ExtentStates, Control, ReaderType, TypeOK, ExtentFits
  <2>2. Puts(pkt.offset + extent_at, n) /\ n <= pkt.length - extent_at
    BY <1>6 DEF Part, remaining
  <2>3. pkt.offset + extent_at \in Nat /\ (pkt.offset + extent_at) + n <= pkt.offset + pkt.length
    BY <2>1, <2>2
  <2>4. UNCHANGED <<stream, pos>>
    BY <1>6 DEF Part, Return, input_vars
  <2> QED
    BY <1>6, <2>1, <2>2, <2>3, <2>4, PutsDataInv
<1>7. ASSUME state \in {"Extent_PunchHole", "Extent_GetCopyInfo"}, Whole,
             UNCHANGED <<newfile, files, done>>
      PROVE  DataInv'
  <2>1. pkt.offset \in Nat /\ pkt.length \in Nat /\ state \in ExtentStates \ {"Extent_Get"}
    BY <1>7, CurrentPacket DEF Handlers, ExtentStates
  <2>2. UNCHANGED <<stream, pos>>
    BY <1>7 DEF Whole, Return, input_vars
  <2> QED
    BY <1>7, <2>1, <2>2, PutsDataInv DEF Whole
<1>8. CASE In("Extent_Read") /\ (BufferedData \/ sendExtent)
  <2>1. state = "Extent_Read" /\ UNCHANGED <<newfile, files, done>>
    BY <1>8 DEF BufferedData, sendExtent, In
  <2> QED
    BY <1>8, <2>1, ReadIsPart, <1>6
<1>9. CASE zeroExtent
  <2>1. state = "Extent_ZeroOut" /\ UNCHANGED <<newfile, files, done>>
    BY <1>9 DEF zeroExtent, In
  <2> QED
    BY <1>9, <2>1, ZeroIsPart, <1>6
<1>10. CASE punchHole
  BY <1>10, HoleIsWhole, <1>7 DEF punchHole, In
<1>11. CASE getExtentCopyInfo
  <2>1. CASE Known(pkt.source)
    <3>1. state = "Extent_GetCopyInfo" /\ UNCHANGED <<newfile, files, done>>
      BY <1>11, <2>1 DEF getExtentCopyInfo, Get, In
    <3> QED
      BY <1>11, <2>1, <3>1, CopyIsWhole, <1>7
  <2>2. CASE ~ Known(pkt.source)
    BY <1>11, <2>2, ThrowDataInv DEF getExtentCopyInfo
  <2> QED
    BY <2>1, <2>2
<1> QED
  BY <1>1, <1>2, <1>3, <1>4, <1>5, <1>8, <1>9, <1>10, <1>11
     DEF ReaderNext, Iterate, Handle, ReadsEnd, readExtent, sendExtent, sendNotSupported

LEMMA InitDataInv == Init => DataInv
BY DEF Init, Start, DataInv, NoHandleNoData, MetaBeforeData, WritesWithinSize

LEMMA ReaderInvariant == Spec => [](Control /\ DataInv)
<1>1. Init => Control /\ DataInv
  BY InitControl, InitDataInv
<1>2. Control /\ DataInv /\ [ReaderNext]_vars => (Control /\ DataInv)'
  BY NextControl, NextDataInv
<1> QED
  BY <1>1, <1>2, PTL DEF Spec

\* A file whose meta data have not ended is as it was created, and is not
\* finished, whatever packets come and whichever of them the reader refuses:
\* the state machine (fies_reader.c:861-942) lets
\* nothing but meta data come in between.
THEOREM MetaAlwaysBeforeData == Spec => []MetaBeforeData
<1>1. Control /\ DataInv => MetaBeforeData
  BY DEF DataInv
<1> QED
  BY <1>1, ReaderInvariant, PTL

\* No byte is written behind the announced size of a file, for every stream and
\* all parts its extents may be written in, as long as none was read for the file
\* whose end wraps: the check of FiesReader_startExtent (fies_reader.c:690-691)
\* keeps out every other extent that exceeds its file, and the offsets of the
\* handlers behind it stay within.
THEOREM WritesAreWithinSize == Spec => []WritesWithinSize
<1>1. Control /\ DataInv => WritesWithinSize
  BY DEF DataInv
<1> QED
  BY <1>1, ReaderInvariant, PTL
------------------------------------------------------------------------------
LEMMA LeastOf ==
    ASSUME NEW T, T \subseteq Nat, T # {}
    PROVE  \E x \in T : \A y \in T : x <= y
<1>1. PICK x \in T : \A y \in T : ~ (<<y, x>> \in OpToRel(<, Nat))
  BY NatLessThanWellFounded, WFMin
<1>2. \A y \in T : ~ (y < x)
  BY <1>1 DEF OpToRel
<1> QED
  BY <1>2

\* The definition of Replay up to packet n, as a formula about a function.
Replays(h, n) ==
    h = [i \in 0 .. n |->
           CASE i = 0 -> [f \in File |-> [l \in Log |-> Nothing]]
             [] i = 1 -> h[0]
             [] OTHER -> Applied(h[i - 1], stream[i], Size(stream[i]))]

\* Such a function exists, by the least number of packets there is none for.
LEMMA ReplayExists == ASSUME NEW n \in Nat PROVE \E h : Replays(h, n)
<1> DEFINE T == {m \in Nat : ~ \E h : Replays(h, m)}
<1> SUFFICES ASSUME T # {} PROVE FALSE
  OBVIOUS
<1>1. PICK m \in T : \A y \in T : m <= y
  BY LeastOf
<1>2. m \in Nat /\ (~ \E h : Replays(h, m)) /\ \A y \in Nat : y < m => \E h : Replays(h, y)
  BY <1>1
<1> HIDE DEF T
<1> DEFINE Empty == [f \in File |-> [l \in Log |-> Nothing]]
<1>3. CASE m = 0
  <2>1. Replays([i \in 0 .. 0 |-> Empty], 0)
    <3> DEFINE h == [i \in 0 .. 0 |-> Empty]
    <3>1. \A i \in 0 .. 0 : i = 0
      OBVIOUS
    <3>2. h = [i \in 0 .. 0 |-> CASE i = 0 -> Empty [] i = 1 -> h[0]
                                  [] OTHER -> Applied(h[i - 1], stream[i], Size(stream[i]))]
      BY <3>1, Zenon
    <3> QED
      BY <3>2 DEF Replays
  <2> QED
    BY <1>2, <1>3, <2>1
<1>4. CASE m > 0
  <2>1. m - 1 \in Nat /\ m - 1 < m /\ 0 .. m - 1 \subseteq 0 .. m /\ m \notin 0 .. m - 1
    BY <1>2, <1>4
  <2>2. PICK g : Replays(g, m - 1)
    BY <1>2, <2>1
  <2> DEFINE last == IF m = 1 THEN g[0] ELSE Applied(g[m - 1], stream[m], Size(stream[m]))
             h == [i \in 0 .. m |-> IF i = m THEN last ELSE g[i]]
             Step(k, i) == CASE i = 0 -> Empty [] i = 1 -> k[0]
                             [] OTHER -> Applied(k[i - 1], stream[i], Size(stream[i]))
  <2>3. g = [i \in 0 .. m - 1 |-> Step(g, i)]
    BY <2>2 DEF Replays
  <2>4. \A i \in 0 .. m - 1 : g[i] = Step(g, i) /\ h[i] = g[i]
    <3> HIDE DEF Step, last
    <3> QED
      BY <2>1, <2>3
  <2>5. h[m] = last
    BY <1>2
  <2>6. last = Step(h, m)
    <3>1. CASE m = 1
      <4>1. 0 \in 0 .. m - 1 /\ m # 0
        BY <3>1
      <4>2. h[0] = g[0]
        BY <2>4, <4>1
      <4> HIDE DEF h
      <4> QED
        BY <3>1, <4>1, <4>2, Zenon
    <3>2. CASE m # 1
      <4>1. m - 1 \in 0 .. m - 1 /\ m # 0
        BY <1>2, <1>4
      <4>2. h[m - 1] = g[m - 1]
        BY <2>4, <4>1
      <4> HIDE DEF h
      <4> QED
        BY <3>2, <4>1, <4>2, Zenon
    <3> QED
      BY <3>1, <3>2
  <2>7. \A i \in 0 .. m - 1 : Step(g, i) = Step(h, i)
    <3> SUFFICES ASSUME NEW i \in 0 .. m - 1 PROVE Step(g, i) = Step(h, i)
      OBVIOUS
    <3>1. 0 \in 0 .. m - 1
      BY <2>1
    <3>2. h[0] = g[0]
      BY <3>1, <2>4
    <3>3. CASE i = 0
      <4>1. i # 1
        BY <3>3
      <4> HIDE DEF h
      <4> QED
        BY <3>3, <4>1, Zenon
    <3>5. CASE i = 1
      <4>1. i # 0
        BY <3>5
      <4> HIDE DEF h
      <4> QED
        BY <3>2, <3>5, <4>1, Zenon
    <3>4. CASE i # 0 /\ i # 1
      <4>1. i - 1 \in 0 .. m - 1
        BY <3>4, <2>1
      <4>2. h[i - 1] = g[i - 1]
        BY <4>1, <2>4
      <4> HIDE DEF h
      <4> QED
        BY <3>4, <4>2, Zenon
    <3> QED
      BY <3>3, <3>4, <3>5
  <2>8. \A i \in 0 .. m : h[i] = Step(h, i)
    <3> HIDE DEF h, Step, last
    <3>1. \A i \in 0 .. m : i = m \/ i \in 0 .. m - 1
      BY <1>2
    <3> QED
      BY <2>4, <2>5, <2>6, <2>7, <3>1
  <2>9. h = [i \in 0 .. m |-> Step(h, i)]
    <3>1. h = [i \in 0 .. m |-> h[i]]
      OBVIOUS
    <3> HIDE DEF h, Step
    <3> QED
      BY <2>8, <3>1
  <2>10. Replays(h, m)
    BY <2>9 DEF Replays
  <2> QED
    BY <1>2, <2>10
<1> QED
  BY <1>2, <1>3, <1>4

\* What the files hold after n bytes of packet p, given what they hold before.
AppliedTo(d, p, n, wanted) ==
    IF p.type = "FILE" /\ p.mode # "HARD" /\ wanted
    THEN [d EXCEPT ![p.file] = Fresh(p.file, p.mode, p.size)]
    ELSE IF p.type = "EXTENT" /\ wanted
    THEN [d EXCEPT ![p.file] =
            [x \in DOMAIN @ |-> IF x \in p.offset .. p.offset + n - 1 THEN BytesOf(p, d)[x] ELSE @[x]]]
    ELSE d

LEMMA AppliedIs ==
    ASSUME NEW d \in [File -> [Log -> Byte]], NEW p, IsPacket(p), NEW n \in Nat
    PROVE  Applied(d, p, n) = AppliedTo(d, p, n, files[p.file].handle)
<1> DEFINE wanted == files[p.file].handle
<1>1. CASE p.type = "FILE" /\ p.mode # "HARD" /\ wanted
  BY <1>1, Zenon DEF Applied, AppliedTo
<1>2. CASE p.type = "EXTENT" /\ wanted
  <2>1. p.offset \in Nat /\ p.file \in File /\ p.type # "FILE"
    BY <1>2 DEF IsPacket
  <2> DEFINE new(b) == [d EXCEPT ![p.file] =
                          [x \in DOMAIN @ |-> IF x \in p.offset .. p.offset + n - 1 THEN b[x] ELSE @[x]]]
             place(k) == CASE p.flags = "DATA" -> p.data[k]
                           [] p.flags = "COPY" -> IF p.source_offset + k \in Log
                                                  THEN d[p.source][p.source_offset + k] ELSE Nothing
                           [] OTHER -> Zero
  <2>2. AppliedTo(d, p, n, wanted) = new(BytesOf(p, d))
    BY <1>2, <2>1, Zenon DEF AppliedTo
  <2>3. \A x \in Log : BytesOf(p, d)[x] = place(x - p.offset)
    BY SizeAssumption DEF Log, BytesOf
  <2>4. DOMAIN d[p.file] = Log
    BY <2>1
  <2>5. Applied(d, p, n) = [d EXCEPT ![p.file] =
          [x \in DOMAIN @ |-> IF x \in p.offset .. p.offset + n - 1 THEN place(x - p.offset) ELSE @[x]]]
    <3>1. CASE p.flags = "DATA"
      BY <1>2, <2>1, <3>1, Zenon DEF Applied, Overwrite
    <3>2. CASE p.flags = "COPY"
      BY <1>2, <2>1, <3>2, Zenon DEF Applied, Overwrite
    <3>3. CASE p.flags \notin {"DATA", "COPY"}
      BY <1>2, <2>1, <3>3, Zenon DEF Applied, Overwrite
    <3> QED
      BY <3>1, <3>2, <3>3
  <2> DEFINE e == d[p.file]
             i == p.offset
             old == [x \in Log |-> IF x \in i .. i + n - 1 THEN place(x - i) ELSE e[x]]
             b == BytesOf(p, d)
             bytes == [x \in Log |-> IF x \in i .. i + n - 1 THEN b[x] ELSE e[x]]
  <2>6. Applied(d, p, n) = [d EXCEPT ![p.file] = old]
    BY <2>1, <2>4, <2>5
  <2>7. AppliedTo(d, p, n, wanted) = [d EXCEPT ![p.file] = bytes]
    BY <2>1, <2>2, <2>4
  <2>8. old = bytes
    <3> HIDE DEF place, b, i, e
    <3>1. \A x \in Log : b[x] = place(x - i)
      BY <2>3 DEF b, i
    <3> QED
      BY <3>1
  <2> HIDE DEF old, bytes
  <2> QED
    BY <2>6, <2>7, <2>8
<1>3. CASE ~ (p.type = "FILE" /\ p.mode # "HARD" /\ wanted) /\ ~ (p.type = "EXTENT" /\ wanted)
  BY <1>3, Zenon DEF Applied, AppliedTo
<1> QED
  BY <1>1, <1>2, <1>3

\* The definition of Replay, packet by packet.
LEMMA ReplayIs ==
    ASSUME IsStream(stream)
    PROVE  /\ Replay[0] = [f \in File |-> [l \in Log |-> Nothing]]
           /\ 1 <= Len(stream) => Replay[1] = Replay[0]
           /\ \A i \in 2 .. Len(stream) : Replay[i] = Applied(Replay[i - 1], stream[i], Size(stream[i]))
<1>1. Len(stream) \in Nat
  BY DEF IsStream
<1>2. Replays(Replay, Len(stream))
  BY <1>1, ReplayExists DEF Replay, Replays
<1> DEFINE Empty == [f \in File |-> [l \in Log |-> Nothing]]
           R == Replay
           Step(k, i) == CASE i = 0 -> Empty [] i = 1 -> k[0]
                           [] OTHER -> Applied(k[i - 1], stream[i], Size(stream[i]))
<1>3. R = [i \in 0 .. Len(stream) |-> Step(R, i)]
  BY <1>2 DEF Replays
<1>4. \A i \in 0 .. Len(stream) : R[i] = Step(R, i)
  <2> HIDE DEF R, Step
  <2> QED
    BY <1>3
<1>5. R[0] = Empty
  <2>1. R[0] = Step(R, 0) /\ 0 # 1
    BY <1>1, <1>4
  <2> HIDE DEF R
  <2> QED
    BY <2>1, Zenon
<1>6. 1 <= Len(stream) => R[1] = R[0]
  <2> SUFFICES ASSUME 1 <= Len(stream) PROVE R[1] = R[0]
    OBVIOUS
  <2>1. R[1] = Step(R, 1) /\ 1 # 0
    BY <1>1, <1>4
  <2> HIDE DEF R
  <2> QED
    BY <2>1, Zenon
<1>7. \A i \in 2 .. Len(stream) : R[i] = Applied(R[i - 1], stream[i], Size(stream[i]))
  <2> SUFFICES ASSUME NEW i \in 2 .. Len(stream)
               PROVE  R[i] = Applied(R[i - 1], stream[i], Size(stream[i]))
    OBVIOUS
  <2>1. i # 0 /\ i # 1 /\ i \in 0 .. Len(stream)
    BY <1>1
  <2>2. R[i] = Step(R, i)
    BY <2>1, <1>4
  <2> HIDE DEF R
  <2> QED
    BY <2>1, <2>2, Zenon
<1> QED
  BY <1>5, <1>6, <1>7

LEMMA AppliedType ==
    ASSUME NEW d \in [File -> [Log -> Byte]], NEW p, IsPacket(p), NEW n \in Nat, NEW w,
           p.type = "EXTENT" => n <= p.length
    PROVE  AppliedTo(d, p, n, w) \in [File -> [Log -> Byte]]
<1>1. CASE p.type = "FILE" /\ p.mode # "HARD" /\ w
  <2>1. p.file \in File /\ p.size \in Nat
    BY <1>1 DEF IsPacket
  <2>2. Fresh(p.file, p.mode, p.size) \in [Log -> Byte]
    BY <2>1 DEF Fresh, Byte, Holder
  <2> QED
    BY <1>1, <2>1, <2>2 DEF AppliedTo
<1>2. CASE p.type = "EXTENT" /\ w
  <2>1. p.type # "FILE" /\ p.offset \in Nat /\ p.length \in Nat /\ p.file \in File
        /\ (p.flags = "DATA" => p.data \in [0 .. p.length - 1 -> Place])
        /\ (p.flags = "COPY" => p.source \in File /\ p.source_offset \in Nat)
    BY <1>2 DEF IsPacket
  <2> DEFINE b == BytesOf(p, d)
             new == [d EXCEPT ![p.file] =
                       [x \in DOMAIN @ |-> IF x \in p.offset .. p.offset + n - 1 THEN b[x] ELSE @[x]]]
  <2>2. AppliedTo(d, p, n, w) = new
    BY <1>2, <2>1, Zenon DEF AppliedTo
  <2>3. \A x \in Log : x \in p.offset .. p.offset + n - 1 => b[x] \in Byte
    <3> SUFFICES ASSUME NEW x \in Log, x \in p.offset .. p.offset + n - 1 PROVE b[x] \in Byte
      OBVIOUS
    <3>1. x \in Nat /\ x - p.offset \in 0 .. p.length - 1
      BY <1>2, <2>1, SizeAssumption DEF Log
    <3>2. CASE p.flags = "DATA"
      <4>1. b[x] = p.data[x - p.offset]
        BY <3>1, <3>2 DEF BytesOf
      <4> QED
        BY <4>1, <3>1, <3>2, <2>1 DEF Byte
    <3>3. CASE p.flags = "COPY"
      BY <3>1, <3>3, <2>1 DEF BytesOf, Byte
    <3>4. CASE p.flags \notin {"DATA", "COPY"}
      BY <3>1, <3>4 DEF BytesOf, Byte
    <3> QED
      BY <3>2, <3>3, <3>4
  <2> HIDE DEF b
  <2>4. new \in [File -> [Log -> Byte]]
    BY <2>1, <2>3, SetType
  <2> QED
    BY <2>2, <2>4
<1>3. CASE ~ (p.type = "FILE" /\ p.mode # "HARD" /\ w) /\ ~ (p.type = "EXTENT" /\ w)
  BY <1>3, Zenon DEF AppliedTo
<1> QED
  BY <1>1, <1>2, <1>3

\* Replay is what the files hold, packet by packet, by the least packet from
\* which it is not.
LEMMA ReplayType ==
    ASSUME IsStream(stream)
    PROVE  /\ \A i \in 0 .. Len(stream) : Replay[i] \in [File -> [Log -> Byte]]
           /\ \A i \in 2 .. Len(stream) :
                Replay[i] = AppliedTo(Replay[i - 1], stream[i], Size(stream[i]),
                                      files[stream[i].file].handle)
<1> DEFINE R == Replay
           T == {i \in 0 .. Len(stream) : R[i] \notin [File -> [Log -> Byte]]}
<1>1. /\ R[0] = [f \in File |-> [l \in Log |-> Nothing]]
      /\ 1 <= Len(stream) => R[1] = R[0]
      /\ \A i \in 2 .. Len(stream) : R[i] = Applied(R[i - 1], stream[i], Size(stream[i]))
  BY ReplayIs
<1>2. /\ Len(stream) \in Nat
      /\ \A i \in 1 .. Len(stream) : IsPacket(stream[i]) /\ Size(stream[i]) \in Nat
                                     /\ (stream[i].type = "EXTENT" => Size(stream[i]) <= stream[i].length)
  BY DEF IsStream, IsPacket, Size
<1> HIDE DEF R
<1>3. R[0] \in [File -> [Log -> Byte]]
  BY <1>1 DEF Byte
<1>4. ASSUME NEW i \in 2 .. Len(stream), R[i - 1] \in [File -> [Log -> Byte]]
      PROVE  /\ R[i] = AppliedTo(R[i - 1], stream[i], Size(stream[i]), files[stream[i].file].handle)
             /\ R[i] \in [File -> [Log -> Byte]]
  <2>1. i \in 1 .. Len(stream)
    BY <1>2
  <2>2. IsPacket(stream[i]) /\ Size(stream[i]) \in Nat
        /\ (stream[i].type = "EXTENT" => Size(stream[i]) <= stream[i].length)
    BY <2>1, <1>2
  <2>3. R[i] = Applied(R[i - 1], stream[i], Size(stream[i]))
    BY <1>1
  <2> QED
    BY <1>4, <2>2, <2>3, AppliedIs, AppliedType
<1>5. T = {}
  <2> SUFFICES ASSUME T # {} PROVE FALSE
    OBVIOUS
  <2>1. T \subseteq Nat
    BY <1>2
  <2>2. PICK m \in T : \A y \in T : m <= y
    BY <2>1, LeastOf
  <2>3. m \in 0 .. Len(stream) /\ m \in Nat /\ R[m] \notin [File -> [Log -> Byte]]
    BY <2>1, <2>2
  <2>4. CASE m = 0
    BY <1>3, <2>3, <2>4
  <2>5. CASE m = 1
    BY <1>1, <1>2, <1>3, <2>3, <2>5
  <2>6. CASE m > 1
    <3>1. m - 1 \in 0 .. Len(stream) /\ ~ (m <= m - 1) /\ m \in 2 .. Len(stream)
      BY <1>2, <2>3, <2>6
    <3>2. R[m - 1] \in [File -> [Log -> Byte]]
      BY <2>2, <3>1
    <3> QED
      BY <1>4, <2>3, <3>1, <3>2
  <2> QED
    BY <2>3, <2>4, <2>5, <2>6
<1>6. \A i \in 0 .. Len(stream) : R[i] \in [File -> [Log -> Byte]]
  BY <1>5
<1>7. \A i \in 2 .. Len(stream) :
        R[i] = AppliedTo(R[i - 1], stream[i], Size(stream[i]), files[stream[i].file].handle)
  <2> SUFFICES ASSUME NEW i \in 2 .. Len(stream)
               PROVE  R[i] = AppliedTo(R[i - 1], stream[i], Size(stream[i]), files[stream[i].file].handle)
    OBVIOUS
  <2>1. i - 1 \in 0 .. Len(stream)
    BY <1>2
  <2> QED
    BY <1>4, <1>6, <2>1
<1> QED
  BY <1>6, <1>7 DEF R

ReplayGoes ==
    IsStream(stream) =>
      /\ Replay[0] = [f \in File |-> [l \in Log |-> Nothing]]
      /\ 1 <= Len(stream) => Replay[1] = Replay[0]
      /\ \A i \in 0 .. Len(stream) : Replay[i] \in [File -> [Log -> Byte]]
      /\ \A i \in 2 .. Len(stream) :
           Replay[i] = AppliedTo(Replay[i - 1], stream[i], Size(stream[i]), files[stream[i].file].handle)

LEMMA ReplaySteps == ReplayGoes
BY ReplayIs, ReplayType DEF ReplayGoes

\* Files that come later change nothing of what the packets before them say.
LEMMA ReplayAgrees ==
    ASSUME IsStream(stream), UNCHANGED stream, NEW m \in 0 .. Len(stream),
           \A i \in 2 .. m : stream[i].type \in {"FILE", "EXTENT"} =>
              files'[stream[i].file].handle = files[stream[i].file].handle
    PROVE  \A i \in 0 .. m : Replay'[i] = Replay[i]
<1> DEFINE R == Replay
           S == Replay'
           T == {i \in 0 .. m : S[i] # R[i]}
<1>1. /\ R[0] = [f \in File |-> [l \in Log |-> Nothing]]
      /\ 1 <= Len(stream) => R[1] = R[0]
      /\ \A i \in 2 .. Len(stream) :
           R[i] = AppliedTo(R[i - 1], stream[i], Size(stream[i]), files[stream[i].file].handle)
  BY ReplaySteps DEF ReplayGoes
<1>2. ReplayGoes'
  BY ReplaySteps, PTL
<1>3. IsStream(stream')
  OBVIOUS
<1>4. /\ S[0] = [f \in File |-> [l \in Log |-> Nothing]]
      /\ 1 <= Len(stream) => S[1] = S[0]
      /\ \A i \in 2 .. Len(stream) :
           S[i] = AppliedTo(S[i - 1], stream[i], Size(stream[i]), files'[stream[i].file].handle)
  BY <1>2, <1>3 DEF ReplayGoes
<1> HIDE DEF R, S
<1>5. Len(stream) \in Nat
  BY DEF IsStream
<1>6. T = {}
  <2> SUFFICES ASSUME T # {} PROVE FALSE
    OBVIOUS
  <2>1. PICK k \in T : \A y \in T : k <= y
    <3>1. T \subseteq Nat
      BY <1>5
    <3> QED
      BY <3>1, LeastOf
  <2>2. k \in 0 .. m /\ k \in Nat /\ S[k] # R[k]
    BY <1>5, <2>1
  <2>3. CASE k <= 1
    BY <1>1, <1>4, <1>5, <2>2, <2>3
  <2>4. CASE k > 1
    <3>1. k - 1 \in 0 .. m /\ ~ (k <= k - 1) /\ k \in 2 .. m /\ k \in 2 .. Len(stream)
      BY <1>5, <2>2, <2>4
    <3>2. S[k - 1] = R[k - 1]
      BY <2>1, <3>1
    <3>3. R[k] = AppliedTo(R[k - 1], stream[k], Size(stream[k]), files[stream[k].file].handle)
      BY <1>1, <3>1
    <3>4. S[k] = AppliedTo(R[k - 1], stream[k], Size(stream[k]), files'[stream[k].file].handle)
      BY <1>4, <3>1, <3>2
    <3>5. CASE stream[k].type \in {"FILE", "EXTENT"}
      BY <3>1, <3>3, <3>4, <3>5, <2>2
    <3>6. CASE stream[k].type \notin {"FILE", "EXTENT"}
      BY <3>3, <3>4, <3>6, <2>2 DEF AppliedTo
    <3> QED
      BY <3>5, <3>6
  <2> QED
    BY <2>2, <2>3, <2>4
<1> QED
  BY <1>6 DEF R, S
------------------------------------------------------------------------------
\* The files of the packets that were handled are announced.
KnownBefore ==
    \A i \in 2 .. pos : (i < pos \/ state = "Begin") /\ stream[i].type \in {"FILE", "EXTENT"} =>
      stream[i].file \in DOMAIN files

\* DataIsReplay, with what an extent's bytes are of Replay's packets.
DataAt ==
    /\ pos = 0 \/ state = "Begin" => data = Replay[pos]
    /\ pos > 0 /\ state \notin {"Begin", "Extent_Read", "Extent_ZeroOut"} => data = Replay[pos - 1]
    /\ state \in {"Extent_Read", "Extent_ZeroOut"} =>
         data = AppliedTo(Replay[pos - 1], pkt, extent_at, handle)

ReplayInv == KnownBefore /\ DataAt

\* Nothing of an extent and then some is the same as some of it.
LEMMA AppliedNothing ==
    ASSUME NEW d \in [File -> [Log -> Byte]], NEW p, IsPacket(p), p.type = "EXTENT", NEW w
    PROVE  AppliedTo(d, p, 0, w) = d
<1>1. p.file \in File /\ p.offset \in Nat /\ p.type # "FILE"
  BY DEF IsPacket
<1> DEFINE b == BytesOf(p, d)
<1>2. w => AppliedTo(d, p, 0, w) =
        [d EXCEPT ![p.file] = [x \in DOMAIN @ |-> IF x \in p.offset .. p.offset + 0 - 1 THEN b[x] ELSE @[x]]]
  BY <1>1, Zenon DEF AppliedTo
<1>3. ~ w => AppliedTo(d, p, 0, w) = d
  BY <1>1, Zenon DEF AppliedTo
<1>4. \A x \in Log : x \notin p.offset .. p.offset + 0 - 1
  BY <1>1, SizeAssumption DEF Log
<1> HIDE DEF b
<1> QED
  BY <1>1, <1>2, <1>3, <1>4

LEMMA AppliedInParts ==
    ASSUME NEW d \in [File -> [Log -> Byte]], NEW e \in [File -> [Log -> Byte]], NEW p, IsPacket(p),
           p.type = "EXTENT", p.flags \in {"DATA", "ZERO"}, NEW a \in Nat, NEW n \in Nat, NEW w,
           e = AppliedTo(d, p, a, w)
    PROVE  AppliedTo(d, p, a + n, w) = Written(e, p, p.offset + a, n, w)
<1>1. p.file \in File /\ p.offset \in Nat /\ p.type # "FILE"
  BY DEF IsPacket
<1>2. BytesOf(p, d) = BytesOf(p, e)
  BY DEF BytesOf
<1> DEFINE b == BytesOf(p, e)
           i == p.offset
<1>3. CASE ~ w
  BY <1>1, <1>3, Zenon DEF AppliedTo, Written
<1>4. CASE w
  <2>1. e = [d EXCEPT ![p.file] = [x \in DOMAIN @ |-> IF x \in i .. i + a - 1 THEN b[x] ELSE @[x]]]
    BY <1>1, <1>2, <1>4, Zenon DEF AppliedTo
  <2>2. AppliedTo(d, p, a + n, w) =
          [d EXCEPT ![p.file] = [x \in DOMAIN @ |-> IF x \in i .. i + (a + n) - 1 THEN b[x] ELSE @[x]]]
    BY <1>1, <1>2, <1>4, Zenon DEF AppliedTo
  <2>3. \A x \in Log : x \in i .. i + (a + n) - 1 <=>
          x \in i .. i + a - 1 \/ x \in (i + a) .. (i + a) + n - 1
    BY <1>1, SizeAssumption DEF Log
  <2> HIDE DEF b, i
  <2> DEFINE f == p.file
             r == [e EXCEPT ![f] = [x \in DOMAIN @ |-> IF x \in (i + a) .. (i + a) + n - 1
                                                       THEN b[x] ELSE @[x]]]
             l == [d EXCEPT ![f] = [x \in DOMAIN @ |-> IF x \in i .. i + (a + n) - 1 THEN b[x] ELSE @[x]]]
  <2>4. r = l
    <3>1. DOMAIN r = File /\ DOMAIN l = File
      OBVIOUS
    <3>2. \A g \in File : g # f => r[g] = l[g]
      BY <1>1, <2>1
    <3>3. r[f] = l[f]
      <4>1. r[f] = [x \in Log |-> IF x \in (i + a) .. (i + a) + n - 1 THEN b[x] ELSE e[f][x]]
        BY <1>1
      <4>2. l[f] = [x \in Log |-> IF x \in i .. i + (a + n) - 1 THEN b[x] ELSE d[f][x]]
        BY <1>1
      <4>3. \A x \in Log : e[f][x] = IF x \in i .. i + a - 1 THEN b[x] ELSE d[f][x]
        BY <1>1, <2>1
      <4> HIDE DEF f, r, l
      <4> QED
        BY <2>3, <4>1, <4>2, <4>3
    <3>4. r = [g \in File |-> r[g]] /\ l = [g \in File |-> l[g]]
      BY <3>1
    <3> HIDE DEF r, l
    <3> QED
      BY <3>2, <3>3, <3>4
  <2>5. Written(e, p, i + a, n, w) = r
    BY <1>4, Zenon DEF Written, b
  <2> QED
    BY <2>2, <2>4, <2>5 DEF b, i
<1> QED
  BY <1>3, <1>4

\* A step that leaves the reader where it is.
LEMMA StillReplay ==
    ASSUME Control, ReplayInv, UNCHANGED <<stream, pos, state, files, extent_at, data>>
    PROVE  ReplayInv'
<1>1. IsStream(stream) /\ Len(stream) \in Nat /\ pos \in 0 .. Len(stream)
  BY DEF Control, ReaderType, TypeOK, IsStream
<1>2. \A i \in 0 .. Len(stream) : Replay'[i] = Replay[i]
  BY <1>1, ReplayAgrees
<1>3. pos > 0 => pos - 1 \in 0 .. Len(stream)
  BY <1>1
<1>4. state \in {"Extent_Read", "Extent_ZeroOut"} => pos > 0
  BY DEF Control, PacketFits
<1>5. pkt' = pkt /\ handle' = handle
  BY DEF pkt, handle
<1>6. DataAt'
  BY <1>1, <1>2, <1>3, <1>4, <1>5 DEF ReplayInv, DataAt
<1>7. KnownBefore'
  BY DEF ReplayInv, KnownBefore
<1> QED
  BY <1>6, <1>7 DEF ReplayInv

\* A handler is done with its packet, whose bytes are in the files now.
LEMMA DoneReplay ==
    ASSUME Control, ReplayInv, state \in Handlers, UNCHANGED <<stream, pos, files>>,
           state' = "Begin", pkt.type \in {"FILE", "EXTENT"} => pkt.file \in DOMAIN files,
           data' = AppliedTo(Replay[pos - 1], pkt, Size(pkt), handle)
    PROVE  ReplayInv'
<1>1. IsStream(stream) /\ Len(stream) \in Nat /\ pos \in 2 .. Len(stream)
  BY CurrentPacket DEF Control, ReaderType
<1>2. Replay[pos] = AppliedTo(Replay[pos - 1], stream[pos], Size(stream[pos]), files[stream[pos].file].handle)
  BY <1>1, ReplaySteps DEF ReplayGoes
<1>3. \A i \in 0 .. Len(stream) : Replay'[i] = Replay[i]
  BY <1>1, ReplayAgrees
<1>4. pos \in 0 .. Len(stream) /\ pos' = pos
  BY <1>1
<1>5. data' = Replay'[pos']
  BY <1>2, <1>3, <1>4 DEF pkt, handle
<1>6. DataAt'
  BY <1>5 DEF DataAt
<1>7. KnownBefore'
  <2> SUFFICES ASSUME NEW i \in 2 .. pos, stream[i].type \in {"FILE", "EXTENT"}
               PROVE  stream[i].file \in DOMAIN files
    BY DEF KnownBefore
  <2>1. CASE i < pos
    BY <2>1 DEF ReplayInv, KnownBefore
  <2>2. CASE ~ (i < pos)
    <3>1. i = pos
      BY <1>1, <2>2
    <3> QED
      BY <3>1 DEF pkt
  <2> QED
    BY <2>1, <2>2
<1> QED
  BY <1>6, <1>7 DEF ReplayInv

\* So is a packet without bytes.
LEMMA NoBytesReplay ==
    ASSUME Control, ReplayInv, UNCHANGED <<stream, pos, files, data>>, state' = "Begin",
           \/ state \in {"FileMeta_Get", "FileEnd", "SnapshotList"}
           \/ state = "NewFile_Get" /\ pkt.mode = "HARD" /\ pkt.file \in DOMAIN files
           \/ state = "Extent_Get" /\ ExtentOK /\ pkt.length = 0
    PROVE  ReplayInv'
<1>0. state \in Handlers /\ pos > 0
  BY DEF Handlers, ExtentStates, Control, PacketFits
<1>1. data = Replay[pos - 1]
  BY <1>0 DEF ReplayInv, DataAt
<1>2. data \in [File -> [Log -> Byte]] /\ IsPacket(pkt)
  BY <1>0, CurrentPacket DEF Control, ReaderType, TypeOK
<1>3. pkt.type \in {"FILE", "EXTENT"} => pkt.file \in DOMAIN files
  BY DEF Control, PacketFits, ExtentOK, Known
<1>4. AppliedTo(data, pkt, Size(pkt), handle) = data
  <2>1. CASE state = "Extent_Get"
    <3>1. pkt.type = "EXTENT" /\ pkt.length = 0
      BY <2>1 DEF Control, PacketFits, ExtentStates
    <3>2. Size(pkt) = 0
      BY <3>1 DEF Size
    <3> QED
      BY <1>2, <3>1, <3>2, AppliedNothing
  <2>2. CASE state # "Extent_Get"
    <3>1. pkt.type # "EXTENT" /\ (pkt.type = "FILE" => pkt.mode = "HARD")
      BY <2>2 DEF Control, PacketFits
    <3> QED
      BY <3>1, Zenon DEF AppliedTo
  <2> QED
    BY <2>1, <2>2
<1> QED
  BY <1>0, <1>1, <1>3, <1>4, DoneReplay

LEMMA HeaderReplay == ASSUME Control, ReplayInv, doReadHeader, stream[1].type = "HEADER" PROVE ReplayInv'
<1>1. /\ state = "Header" /\ pos = 0 /\ pos < Len(stream) /\ pos' = 1 /\ state' = "Begin"
      /\ UNCHANGED <<stream, files, data>>
  BY DEF doReadHeader, In, Control, PacketFits, input_vars
<1>2. IsStream(stream) /\ Len(stream) \in Nat /\ data = Replay[0]
  BY <1>1 DEF Control, ReaderType, IsStream, ReplayInv, DataAt
<1>3. Replay[1] = Replay[0]
  BY <1>1, <1>2, ReplaySteps DEF ReplayGoes
<1>4. \A i \in 0 .. Len(stream) : Replay'[i] = Replay[i]
  BY <1>1, <1>2, ReplayAgrees
<1>5. data' = Replay'[pos']
  BY <1>1, <1>2, <1>3, <1>4
<1> QED
  BY <1>1, <1>5 DEF ReplayInv, KnownBefore, DataAt

LEMMA PacketReplay == ASSUME Control, ReplayInv, readPacket PROVE ReplayInv'
<1>1. /\ state = "Begin" /\ pos < Len(stream) /\ pos' = pos + 1
      /\ UNCHANGED <<stream, files, data>>
      /\ state' \in {"Botched", "NewFile_Get", "FileMeta_Get", "FileEnd", "SnapshotList", "Extent_Get"}
  BY DEF readPacket, In, NextState, input_vars
<1>2. IsStream(stream) /\ Len(stream) \in Nat /\ pos \in 0 .. Len(stream) /\ data = Replay[pos]
  BY <1>1 DEF Control, ReaderType, TypeOK, IsStream, ReplayInv, DataAt
<1>3. \A i \in 0 .. Len(stream) : Replay'[i] = Replay[i]
  BY <1>1, <1>2, ReplayAgrees
<1>4. data' = Replay'[pos' - 1] /\ pos' # 0
  BY <1>1, <1>2, <1>3
<1>5. DataAt'
  BY <1>1, <1>4 DEF DataAt
<1>6. KnownBefore'
  BY <1>1, <1>2 DEF ReplayInv, KnownBefore
<1> QED
  BY <1>5, <1>6 DEF ReplayInv

LEMMA NewFileReplay ==
    ASSUME Control, ReplayInv, newFileCreate PROVE ReplayInv'
<1> DEFINE f == pkt.file
<1>0. /\ state = "NewFile_Get" /\ f \in File /\ state \in Handlers /\ pkt.type = "FILE"
      /\ IsStream(stream) /\ Len(stream) \in Nat /\ pos \in 2 .. Len(stream)
  BY CurrentPacket DEF newFileCreate, Get, In, Handlers, Control, PacketFits, ReaderType
<1>1. CASE \E why : Throw(why)
  BY <1>1, StillReplay DEF Throw, input_vars
<1>2. CASE ~ (Known(f) # (pkt.mode = "HARD")) /\ pkt.mode = "HARD" /\ files[f].handle
  <2>1. Return("Begin", "more") /\ UNCHANGED <<files, data>> /\ f \in DOMAIN files
    BY <1>2 DEF newFileCreate, Known
  <2> QED
    BY <2>1, <1>0, <1>2, NoBytesReplay DEF Return, input_vars
<1>3. CASE ~ (Known(f) # (pkt.mode = "HARD")) /\ pkt.mode # "HARD"
  <2>1. PICK h \in BOOLEAN :
          /\ files' = [g \in DOMAIN files \cup {f} |->
                         IF g = f THEN [size |-> pkt.size, handle |-> h] ELSE files[g]]
          /\ data' = IF h THEN [data EXCEPT ![f] = Fresh(f, pkt.mode, pkt.size)] ELSE data
          /\ Return("Begin", "more")
    BY <1>3 DEF newFileCreate
  <2>2. UNCHANGED <<stream, pos>> /\ state' = "Begin" /\ f \notin DOMAIN files /\ pkt' = pkt
    BY <2>1, <1>3 DEF Return, input_vars, Known, pkt
  <2>3. /\ DOMAIN files' = DOMAIN files \cup {f} /\ files'[f].handle = h
        /\ \A g \in DOMAIN files : files'[g] = files[g]
    BY <2>1, <2>2
  <2>4. pos - 1 \in 0 .. Len(stream) /\ pos \in 0 .. Len(stream) /\ pos > 0 /\ \A i \in 2 .. pos - 1 : i \in 2 .. pos /\ i < pos
    BY <1>0
  <2>5. \A i \in 2 .. pos - 1 : stream[i].type \in {"FILE", "EXTENT"} =>
          files'[stream[i].file].handle = files[stream[i].file].handle
    BY <2>3, <2>4 DEF ReplayInv, KnownBefore
  <2>6. Replay'[pos - 1] = Replay[pos - 1]
    <3>1. \A i \in 0 .. pos - 1 : Replay'[i] = Replay[i]
      BY <1>0, <2>2, <2>4, <2>5, ReplayAgrees
    <3> QED
      BY <1>0, <3>1
  <2>7. data = Replay[pos - 1]
    BY <1>0, <2>4 DEF ReplayInv, DataAt
  <2>8. Replay'[pos] = AppliedTo(Replay'[pos - 1], stream[pos], Size(stream[pos]), files'[stream[pos].file].handle)
    <3>1. ReplayGoes'
      BY ReplaySteps, PTL
    <3>2. stream' = stream /\ IsStream(stream')
      BY <1>0, <2>2
    <3> QED
      BY <1>0, <3>1, <3>2 DEF ReplayGoes
  <2>9. Replay'[pos] = AppliedTo(data, pkt, Size(pkt), h)
    BY <2>3, <2>6, <2>7, <2>8 DEF pkt
  <2>10. AppliedTo(data, pkt, Size(pkt), h) = data'
    <3>1. CASE h
      BY <1>0, <1>3, <2>1, <3>1, Zenon DEF AppliedTo
    <3>2. CASE ~ h
      BY <1>0, <2>1, <3>2 DEF AppliedTo
    <3> QED
      BY <3>1, <3>2
  <2>11. DataAt'
    BY <2>2, <2>9, <2>10 DEF DataAt
  <2>12. KnownBefore'
    <3> SUFFICES ASSUME NEW i \in 2 .. pos, stream[i].type \in {"FILE", "EXTENT"}
                 PROVE  stream[i].file \in DOMAIN files'
      BY <2>2 DEF KnownBefore
    <3>1. CASE i < pos
      BY <2>3, <3>1 DEF ReplayInv, KnownBefore
    <3>2. CASE ~ (i < pos)
      <4>1. i = pos
        BY <1>0, <3>2
      <4> QED
        BY <2>3, <4>1 DEF pkt
    <3> QED
      BY <3>1, <3>2
  <2> QED
    BY <2>11, <2>12 DEF ReplayInv
<1> QED
  BY <1>1, <1>2, <1>3 DEF newFileCreate

\* What the current packet and Replay are while an extent is taken.
LEMMA ExtentReplay ==
    ASSUME Control, ReplayInv, state \in ExtentStates \ {"Extent_Get"}
    PROVE  /\ state \in Handlers /\ IsPacket(pkt) /\ pkt.type = "EXTENT" /\ pkt.length \in Nat
           /\ pkt.offset \in Nat /\ pkt.file \in DOMAIN files
           /\ Replay[pos - 1] \in [File -> [Log -> Byte]] /\ data \in [File -> [Log -> Byte]]
           /\ data = IF state \in {"Extent_Read", "Extent_ZeroOut"}
                     THEN AppliedTo(Replay[pos - 1], pkt, extent_at, handle) ELSE Replay[pos - 1]
<1>1. state \in Handlers
  BY DEF Handlers
<1>2. IsStream(stream) /\ Len(stream) \in Nat /\ pos \in 2 .. Len(stream) /\ IsPacket(pkt)
  BY <1>1, CurrentPacket DEF Control, ReaderType
<1>3. pkt.type = "EXTENT" /\ ExtentOK
  BY DEF Control, PacketFits, ExtentFits
<1>4. pkt.length \in Nat /\ pkt.offset \in Nat /\ pkt.file \in DOMAIN files
  BY <1>2, <1>3 DEF IsPacket, ExtentOK, Known
<1>5. Replay[pos - 1] \in [File -> [Log -> Byte]]
  <2>1. pos - 1 \in 0 .. Len(stream)
    BY <1>2
  <2> QED
    BY <1>2, <2>1, ReplaySteps DEF ReplayGoes
<1>6. data = IF state \in {"Extent_Read", "Extent_ZeroOut"}
             THEN AppliedTo(Replay[pos - 1], pkt, extent_at, handle) ELSE Replay[pos - 1]
  BY <1>2 DEF ReplayInv, DataAt, ExtentStates
<1> QED
  BY <1>1, <1>2, <1>3, <1>4, <1>5, <1>6 DEF Control, ReaderType, TypeOK

LEMMA StartReplay == ASSUME Control, ReplayInv, startExtent, ExtentOK PROVE ReplayInv'
<1>0. /\ state = "Extent_Get" /\ state \in Handlers /\ pkt.type = "EXTENT"
      /\ IsStream(stream) /\ Len(stream) \in Nat /\ pos \in 2 .. Len(stream) /\ IsPacket(pkt)
  BY CurrentPacket DEF startExtent, In, Handlers, ExtentStates, Control, PacketFits, ReaderType
<1>1. /\ extent_at' = 0 /\ UNCHANGED <<stream, pos, files, data>>
      /\ state' \in {"Extent_ZeroOut", "Extent_PunchHole", "Extent_GetCopyInfo", "Extent_Read"}
  BY DEF startExtent, input_vars
<1>2. \A i \in 0 .. Len(stream) : Replay'[i] = Replay[i]
  BY <1>0, <1>1, ReplayAgrees
<1>3. Replay'[pos - 1] = Replay[pos - 1] /\ pos > 0
  BY <1>0, <1>2
<1>4. data = Replay[pos - 1] /\ data \in [File -> [Log -> Byte]]
  BY <1>0, <1>3 DEF ReplayInv, DataAt, Control, ReaderType, TypeOK
<1>5. pkt' = pkt /\ handle' = handle
  BY <1>1 DEF pkt, handle
<1>6. AppliedTo(data, pkt, 0, handle) = data
  BY <1>0, <1>4, AppliedNothing
<1>7. DataAt'
  BY <1>0, <1>1, <1>3, <1>4, <1>5, <1>6 DEF DataAt
<1>8. KnownBefore'
  BY <1>0, <1>1 DEF ReplayInv, KnownBefore
<1> QED
  BY <1>7, <1>8 DEF ReplayInv

LEMMA PartReplay ==
    ASSUME Control, ReplayInv, state \in {"Extent_Read", "Extent_ZeroOut"}, NEW n \in Nat, Part(n),
           UNCHANGED files
    PROVE  ReplayInv'
<1> DEFINE d == Replay[pos - 1]
<1>0. state \in ExtentStates \ {"Extent_Get"}
  BY DEF ExtentStates
<1>1. /\ state \in Handlers /\ IsPacket(pkt) /\ pkt.type = "EXTENT" /\ pkt.length \in Nat
      /\ pkt.offset \in Nat /\ pkt.file \in DOMAIN files
      /\ d \in [File -> [Log -> Byte]] /\ data \in [File -> [Log -> Byte]]
      /\ data = AppliedTo(d, pkt, extent_at, handle)
  BY <1>0, ExtentReplay
<1>2. extent_at \in Nat /\ pkt.flags \in {"DATA", "ZERO"}
  BY DEF Control, ReaderType, TypeOK, ExtentFits
<1>3. data' = AppliedTo(d, pkt, extent_at + n, handle)
  <2>1. AppliedTo(d, pkt, extent_at + n, handle) =
          Written(data, pkt, pkt.offset + extent_at, n, handle)
    <3> HIDE DEF d
    <3> QED
      BY <1>1, <1>2, AppliedInParts
  <2> QED
    BY <2>1 DEF Part, Puts
<1>4. CASE n = remaining
  <2>1. extent_at + n = Size(pkt)
    BY <1>1, <1>2, <1>4 DEF remaining, Size
  <2>2. UNCHANGED <<stream, pos>> /\ state' = "Begin"
    BY <1>4 DEF Part, Return, input_vars
  <2> QED
    BY <1>1, <1>3, <2>1, <2>2, DoneReplay
<1>5. CASE n # remaining
  <2>1. UNCHANGED <<stream, pos, state>> /\ extent_at' = extent_at + n
    BY <1>5 DEF Part, Return, input_vars
  <2>2. IsStream(stream) /\ Len(stream) \in Nat /\ pos \in 2 .. Len(stream)
    BY <1>1, CurrentPacket DEF Control, ReaderType
  <2>3. \A i \in 0 .. Len(stream) : Replay'[i] = Replay[i]
    BY <2>1, <2>2, ReplayAgrees
  <2>4. Replay'[pos - 1] = Replay[pos - 1] /\ pos # 0
    BY <2>2, <2>3
  <2>5. pkt' = pkt /\ handle' = handle
    BY <2>1 DEF pkt, handle
  <2>6. DataAt'
    BY <1>3, <2>1, <2>4, <2>5 DEF DataAt
  <2>7. KnownBefore'
    BY <2>1 DEF ReplayInv, KnownBefore
  <2> QED
    BY <2>6, <2>7 DEF ReplayInv
<1> QED
  BY <1>4, <1>5

LEMMA WholeReplay ==
    ASSUME Control, ReplayInv, state \in {"Extent_PunchHole", "Extent_GetCopyInfo"}, Whole,
           UNCHANGED files
    PROVE  ReplayInv'
<1>0. state \in ExtentStates \ {"Extent_Get"}
  BY DEF ExtentStates
<1>1. /\ state \in Handlers /\ pkt.type = "EXTENT" /\ pkt.file \in DOMAIN files
      /\ data = Replay[pos - 1]
  BY <1>0, ExtentReplay
<1>2. AppliedTo(data, pkt, Size(pkt), handle) = data'
  <2>1. CASE handle
    BY <1>1, <2>1, Zenon DEF Whole, Puts, Written, AppliedTo, Size
  <2>2. CASE ~ handle
    BY <1>1, <2>2, Zenon DEF Whole, Puts, Written, AppliedTo
  <2> QED
    BY <2>1, <2>2
<1>3. UNCHANGED <<stream, pos>> /\ state' = "Begin"
  BY DEF Whole, Return, input_vars
<1> QED
  BY <1>1, <1>2, <1>3, DoneReplay

LEMMA ThrowReplay == ASSUME Control, ReplayInv, NEW why, Throw(why) PROVE ReplayInv'
BY StillReplay DEF Throw, input_vars

LEMMA NextReplay == ASSUME Control, ReplayInv, [ReaderNext]_vars PROVE ReplayInv'
<1>1. CASE InputEnds \/ Again \/ Fails \/ PastLastPosition \/ UNCHANGED vars
  BY <1>1, StillReplay DEF InputEnds, Again, Fails, PastLastPosition, Throw, vars, input_vars
<1>2. CASE doReadHeader
  BY <1>2, HeaderReplay, ThrowReplay DEF doReadHeader
<1>3. CASE readPacket
  BY <1>3, PacketReplay
<1>4. CASE newFileCreate
  BY <1>4, NewFileReplay
<1>5. CASE handleFileMeta
  <2>1. CASE pkt.file # newfile
    BY <1>5, <2>1, ThrowReplay DEF handleFileMeta
  <2>2. CASE pkt.file = newfile
    BY <1>5, <2>2, NoBytesReplay DEF handleFileMeta, Get, In, Return, input_vars
  <2> QED
    BY <2>1, <2>2
<1>6. CASE getFileEnd
  <2>1. CASE ~ Known(pkt.file)
    BY <1>6, <2>1, ThrowReplay DEF getFileEnd
  <2>2. CASE Known(pkt.file)
    BY <1>6, <2>2, NoBytesReplay DEF getFileEnd, Get, In, Return, input_vars
  <2> QED
    BY <2>1, <2>2
<1>7. CASE getSnapshotList
  <2>1. CASE ~ Known(pkt.file)
    BY <1>7, <2>1, ThrowReplay DEF getSnapshotList
  <2>2. CASE Known(pkt.file)
    BY <1>7, <2>2, NoBytesReplay DEF getSnapshotList, Get, In, Return, input_vars
  <2> QED
    BY <2>1, <2>2
<1>8. CASE startExtent
  <2>1. CASE ~ ExtentOK
    BY <1>8, <2>1, ThrowReplay DEF startExtent
  <2>2. CASE ExtentOK
    BY <1>8, <2>2, StartReplay
  <2> QED
    BY <2>1, <2>2
<1>9. CASE skipExtent
  BY <1>9, NoBytesReplay DEF skipExtent, Get, In, Return, input_vars
<1>10. CASE In("Extent_Read") /\ (BufferedData \/ sendExtent)
  <2>1. state = "Extent_Read" /\ UNCHANGED files
    BY <1>10 DEF BufferedData, sendExtent, In
  <2> QED
    BY <1>10, <2>1, ReadIsPart, PartReplay
<1>11. CASE zeroExtent
  <2>1. state = "Extent_ZeroOut" /\ UNCHANGED files
    BY <1>11 DEF zeroExtent, In
  <2> QED
    BY <1>11, <2>1, ZeroIsPart, PartReplay
<1>12. CASE punchHole
  BY <1>12, HoleIsWhole, WholeReplay DEF punchHole, In
<1>13. CASE getExtentCopyInfo
  <2>1. CASE Known(pkt.source)
    <3>1. state = "Extent_GetCopyInfo" /\ UNCHANGED files
      BY <1>13, <2>1 DEF getExtentCopyInfo, Get, In
    <3> QED
      BY <1>13, <2>1, <3>1, CopyIsWhole, WholeReplay
  <2>2. CASE ~ Known(pkt.source)
    BY <1>13, <2>2, ThrowReplay DEF getExtentCopyInfo
  <2> QED
    BY <2>1, <2>2
<1> QED
  BY <1>1, <1>2, <1>3, <1>4, <1>5, <1>6, <1>7, <1>8, <1>9, <1>10, <1>11, <1>12, <1>13
     DEF ReaderNext, Iterate, Handle, ReadsEnd, readExtent, sendExtent, sendNotSupported

LEMMA InitReplay == Init => ReplayInv
<1> SUFFICES ASSUME Init PROVE ReplayInv
  OBVIOUS
<1>1. IsStream(stream) /\ Start
  BY StreamsAssumption DEF Init
<1>2. Replay[0] = [f \in File |-> [l \in Log |-> Nothing]]
  BY <1>1, ReplaySteps DEF ReplayGoes
<1> QED
  BY <1>1, <1>2 DEF Start, ReplayInv, KnownBefore, DataAt

LEMMA DataAtIsReplay == Control /\ ReplayInv => DataIsReplay
<1> SUFFICES ASSUME Control, ReplayInv PROVE DataIsReplay
  OBVIOUS
<1>1. pos \in Nat
  BY DEF Control, ReaderType, TypeOK
<1>2. CASE pos = 0 \/ state = "Begin"
  <2>1. data = Replay[pos] /\ state \notin {"Extent_Read", "Extent_ZeroOut"}
    BY <1>2 DEF ReplayInv, DataAt, Control, PacketFits
  <2> QED
    BY <1>2, <2>1, Zenon DEF DataIsReplay
<1>3. CASE state \in {"Extent_Read", "Extent_ZeroOut"}
  <2>1. state \in ExtentStates \ {"Extent_Get"}
    BY <1>3 DEF ExtentStates
  <2>2. /\ pos # 0 /\ state # "Begin" /\ Replay[pos - 1] \in [File -> [Log -> Byte]] /\ IsPacket(pkt)
        /\ extent_at \in Nat /\ data = AppliedTo(Replay[pos - 1], pkt, extent_at, handle)
    BY <1>3, <2>1, ExtentReplay DEF Control, PacketFits, ReaderType, TypeOK
  <2>3. data = Applied(Replay[pos - 1], pkt, extent_at)
    BY <2>2, AppliedIs DEF handle
  <2> QED
    BY <1>3, <2>2, <2>3, Zenon DEF DataIsReplay
<1>4. CASE pos # 0 /\ state \notin {"Begin", "Extent_Read", "Extent_ZeroOut"}
  <2>1. data = Replay[pos - 1]
    BY <1>1, <1>4 DEF ReplayInv, DataAt
  <2> QED
    BY <1>4, <2>1, Zenon DEF DataIsReplay
<1> QED
  BY <1>2, <1>3, <1>4

\* Wherever the reader was interrupted and however its callbacks took the data
\* in parts, no byte was skipped, applied twice or put in another place: for
\* every stream, what the files hold is what its packets say up to there
\* (extent_at and offset in fies_reader.c:611-673 and the states behind them).
THEOREM DataIsAlwaysReplay == Spec => []DataIsReplay
<1>1. Init => Control /\ ReplayInv
  BY InitControl, InitReplay
<1>2. Control /\ ReplayInv /\ [ReaderNext]_vars => (Control /\ ReplayInv)'
  BY NextControl, NextReplay
<1> QED
  BY <1>1, <1>2, DataAtIsReplay, PTL DEF Spec
==============================================================================
