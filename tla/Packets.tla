------------------------------- MODULE Packets -------------------------------
(***************************************************************************)
(* The packets of a fiestream (include/fies.h), as the writer puts them    *)
(* and the reader takes them.  Names are left out, positions and lengths   *)
(* are numbers, and the bytes of an extent are named by where they were    *)
(* read: a place on a device, or Zero.                                     *)
(***************************************************************************)
EXTENDS Extents, Sequences

CONSTANT Zero  \* a byte of a hole or of an allocated but unwritten extent
ASSUME ZeroAssumption == Zero \notin Place \cup Holder \cup {Nothing}

Header               == [type |-> "HEADER"]
FilePacket(f, m, n)  == [type |-> "FILE", file |-> f, mode |-> m, size |-> n]
MetaPacket(f, kind)  == [type |-> "FILE_META", file |-> f, meta |-> kind]
EndPacket(f)         == [type |-> "FILE_END", file |-> f]
SnapshotPacket(f)    == [type |-> "SNAPSHOT_LIST", file |-> f]

\* An extent without data: "HOLE" or "ZERO" (allocated, but reading as zeroes).
EmptyPacket(f, flags, off, n) ==
    [type |-> "EXTENT", file |-> f, flags |-> flags, offset |-> off, length |-> n]

\* data[k] is the byte k of the extent.
DataPacket(f, off, n, data) ==
    [type |-> "EXTENT", file |-> f, flags |-> "DATA", offset |-> off, length |-> n,
     data |-> data]

\* The bytes from off on are those of file g from m on.
CopyPacket(f, off, n, g, m) ==
    [type |-> "EXTENT", file |-> f, flags |-> "COPY", offset |-> off, length |-> n,
     source |-> g, source_offset |-> m]

HasExtents(mode) == mode = "REG"  \* FIES_M_HAS_EXTENTS
==============================================================================
