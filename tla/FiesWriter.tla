----------------------------- MODULE FiesWriter ------------------------------
(***************************************************************************)
(* lib/fies_writer.c: the calls that turn files into the packets of a      *)
(* stream (FiesWriter_writeFile, _readRefFile and _snapshots).             *)
(*                                                                         *)
(* "files" is what the program adds, in this order: a file's mode, size,   *)
(* meta data and extents, as its next_extents callback maps them.  One     *)
(* action puts one packet, or does what the code does between two of them. *)
(* Shared extents go through FiesEMap_add, of which only its promise is    *)
(* used: ExtentOwner, which EMap implements.  Putting a packet may fail at *)
(* any time; the calling programs then stop, and so does the stream.       *)
(***************************************************************************)
EXTENDS Packets, FiniteSets

CONSTANT Plans  \* the sequences of files a program may add

\* An extent as a next_extents callback describes it; "source" and
\* "source_offset" matter to "COPY" extents: the earlier file of the plan and
\* the position in it that the program says the bytes are at.
Extent(flags, shared, d, p, l, n, source, source_offset) ==
    [flags |-> flags, shared |-> shared, device |-> d, physical |-> p, logical |-> l,
     length |-> n, source |-> source, source_offset |-> source_offset]

FileExtent ==
    [flags : {"DATA", "ZERO", "COPY"}, shared : BOOLEAN, device : Device, physical : Nat,
     logical : Nat, length : Nat \ {0}, source : Nat, source_offset : Nat]

\* The extents of a file as its callback maps them (fies.h:811-822): in order
\* and apart from each other, none of them empty or behind the end of the file.
AreExtents(f) ==
    /\ f.size \in Nat /\ f.extents \in Seq(FileExtent)
    /\ \A k \in 1 .. Len(f.extents) :
         LET e == f.extents[k] IN
         /\ e.logical < f.size
         /\ k < Len(f.extents) => e.logical + e.length <= f.extents[k + 1].logical

Places(e) == {[device |-> e.device, physical |-> e.physical + k] : k \in 0 .. e.length - 1}

\* What an extent that is not marked as shared has on its device is its own.
OwnPlaces(plan) ==
    \A i, j \in DOMAIN plan : plan[i].mode # "HARD" /\ plan[j].mode # "HARD" =>
      \A k \in DOMAIN plan[i].extents, m \in DOMAIN plan[j].extents :
        LET e == plan[i].extents[k]  f == plan[j].extents[m] IN
        <<i, k>> # <<j, m>> /\ e.flags = "DATA" /\ ~ e.shared /\ (f.flags = "DATA" \/ f.shared)
          => Places(e) \cap Places(f) = {}

\* A program only has bytes copied from a file that it has added before and that
\* has them, and goes on in that file where it goes on in the new one.
CopiesOfEarlier(plan, i) ==
    \A k \in DOMAIN plan[i].extents :
      LET e == plan[i].extents[k]  f == plan[i].extents[k + 1] IN
      e.flags = "COPY" =>
        /\ e.source \in 1 .. i - 1 /\ plan[e.source].mode \in {"REG", "REF"}
        /\ e.source_offset + e.length <= plan[e.source].size
        /\ /\ k < Len(plan[i].extents) /\ f.flags = "COPY"
           /\ f.logical = e.logical + e.length /\ f.physical = e.physical + e.length
           => f.source = e.source /\ f.source_offset = e.source_offset + e.length

IsPlan(plan) ==
    /\ Len(plan) \in Nat /\ DOMAIN plan = 1 .. Len(plan) /\ 0 .. Len(plan) - 1 \subseteq File
    /\ OwnPlaces(plan)
    /\ \A i \in DOMAIN plan :
         IF plan[i].mode = "HARD"
         THEN plan[i].of \in 1 .. i - 1 /\ plan[plan[i].of].mode # "HARD"
         ELSE AreExtents(plan[i]) /\ CopiesOfEarlier(plan, i)

ASSUME PlansAssumption == \A plan \in Plans : IsPlan(plan)

VARIABLES files,    \* what the program adds, a sequence of Plans
          calls,    \* how many of them have been begun
          ids,      \* the id each of these has got
          next_fileid,
          pc,       \* where the current call is
          metas,    \* meta data of the current file still to be sent
          at,       \* how far the current file is sent
          last,     \* the last extent of the batch next_extents has given
          next,     \* and the next one of it to be sent
          owner, ex, content, want,  \* the extent map's, see ExtentOwner
          stream    \* the packets put so far

map_vars == <<owner, ex, content, want>>
vars == <<files, calls, ids, next_fileid, pc, metas, at, last, next, map_vars, stream>>

\* The extent map of the files' devices, as its promise.
EMap == INSTANCE ExtentOwner WITH todo <- ex

Init ==
    /\ files \in Plans
    /\ calls = 0 /\ ids = <<>> /\ next_fileid = 0
    /\ pc = "new"
    /\ metas = <<>> /\ at = 0 /\ last = 0 /\ next = 1
    /\ owner   = [d \in Device |-> [p \in Phys |-> Nothing]]
    /\ content = [f \in File |-> [l \in Log |-> Nothing]]
    /\ want    = [f \in File |-> [l \in Log |-> Nothing]]
    /\ ex = [length |-> 0]
    /\ stream = <<>>

file     == files[calls]
fileid   == ids[calls]
extents  == file.extents
ref_file == file.mode = "REF"

Put(packet) == stream' = Append(stream, packet)
PutUnlessRef(packet) == IF ref_file THEN UNCHANGED stream ELSE Put(packet)
------------------------------------------------------------------------------
\* FiesWriter_newFull.
WriteHeader ==
    /\ pc = "new"
    /\ Put(Header)
    /\ pc' = "idle"
    /\ UNCHANGED <<files, calls, ids, next_fileid, metas, at, last, next, map_vars>>

\* A further name of a file: only its header is put, with the old id.
WriteHardlink ==
    /\ pc = "idle" /\ calls < Len(files)
    /\ LET f == files[calls + 1] IN
         /\ f.mode = "HARD"
         /\ Put(FilePacket(ids[f.of], "HARD", f.size))
         /\ ids' = Append(ids, ids[f.of])
    /\ calls' = calls + 1
    /\ UNCHANGED <<files, next_fileid, pc, metas, at, last, next, map_vars>>

\* Slip: the id is not taken up.
BeginWithSameId ==
    /\ pc = "idle" /\ calls < Len(files)
    /\ LET f == files[calls + 1] IN
         /\ f.mode # "HARD"
         /\ Put(FilePacket(next_fileid, f.mode, f.size))
         /\ metas' = f.metas
         /\ pc' = IF f.mode = "REF" THEN "extents" ELSE "meta"
    /\ ids' = Append(ids, next_fileid)
    /\ calls' = calls + 1
    /\ at' = 0 /\ last' = 0 /\ next' = 1
    /\ UNCHANGED <<files, next_fileid, map_vars>>

\* Slip: a file without meta data gets no META_END.
BeginWithoutMetaEnd ==
    /\ pc = "idle" /\ calls < Len(files)
    /\ LET f == files[calls + 1] IN
         /\ f.mode # "HARD"
         /\ Put(FilePacket(next_fileid, f.mode, f.size))
         /\ metas' = f.metas
         /\ pc' = IF f.metas = <<>> THEN "extents" ELSE "meta"
    /\ ids' = Append(ids, next_fileid)
    /\ next_fileid' = next_fileid + 1
    /\ calls' = calls + 1
    /\ at' = 0 /\ last' = 0 /\ next' = 1
    /\ UNCHANGED <<files, map_vars>>

\* Any other file is registered and announced; a reference file has no meta
\* data.
Begin ==
    /\ pc = "idle" /\ calls < Len(files)
    /\ LET f == files[calls + 1] IN
         /\ f.mode # "HARD"
         /\ Put(FilePacket(next_fileid, f.mode, f.size))
         /\ metas' = f.metas
         /\ pc' = IF f.mode = "REF" THEN "extents" ELSE "meta"
    /\ ids' = Append(ids, next_fileid)
    /\ next_fileid' = next_fileid + 1
    /\ calls' = calls + 1
    /\ at' = 0 /\ last' = 0 /\ next' = 1
    /\ UNCHANGED <<files, map_vars>>

SendMeta ==
    /\ pc = "meta" /\ metas # <<>>
    /\ Put(MetaPacket(fileid, Head(metas)))
    /\ metas' = Tail(metas)
    /\ UNCHANGED <<files, calls, ids, next_fileid, pc, at, last, next, map_vars>>

SendMetaEnd ==
    /\ pc = "meta" /\ metas = <<>>
    /\ Put(MetaPacket(fileid, "END"))
    /\ pc' = IF HasExtents(file.mode) THEN "extents" ELSE "end"
    /\ UNCHANGED <<files, calls, ids, next_fileid, metas, at, last, next, map_vars>>
------------------------------------------------------------------------------
\* The extents that are not mapped yet: those that end behind "at".
Unmapped == {i \in DOMAIN extents : extents[i].logical + extents[i].length > at}

BatchDone == next > last

\* next_extents gives some of the next extents.
NextExtents ==
    /\ pc = "extents" /\ BatchDone /\ at # file.size
    /\ \E n \in Unmapped :
         /\ last' = n
         /\ next' = CHOOSE i \in Unmapped : \A j \in Unmapped : i <= j
    /\ UNCHANGED <<files, calls, ids, next_fileid, pc, metas, at, map_vars, stream>>

\* Slip: the physical positions are not compared.
MergesLogically(e, f) ==
    /\ f.flags = e.flags /\ f.shared = e.shared /\ f.device = e.device
    /\ f.logical = e.logical + e.length

\* Whether merge_extents takes extent f for the continuation of e.
Merges(e, f) ==
    /\ f.flags = e.flags /\ f.shared = e.shared /\ f.device = e.device
    /\ f.physical = e.physical + e.length
    /\ f.logical = e.logical + e.length

\* The last extent of the batch that is merged with the next one.
MergedUpTo ==
    CHOOSE j \in next .. last :
      /\ \A i \in next .. j - 1 : Merges(extents[i], extents[i + 1])
      /\ j < last => ~ Merges(extents[j], extents[j + 1])

\* Slip: the merged extent is not cut at the end of the file.
CurrentNotCut ==
    LET e == extents[next]  l == extents[MergedUpTo] IN
    [e EXCEPT !.length = l.logical + l.length - e.logical]

\* The next extent as it is sent: merged, and cut at the end of the file.
Current ==
    LET e == extents[next]
        l == extents[MergedUpTo]
        end == l.logical + l.length
    IN  [e EXCEPT !.length = (IF end > file.size THEN file.size ELSE end) - e.logical]

\* Slip: holes are sent from the file's beginning.
SendHoleFromStart ==
    /\ pc = "extents" /\ ~ BatchDone /\ ~ ref_file
    /\ Current.logical > at
    /\ Put(EmptyPacket(fileid, "HOLE", 0, Current.logical))
    /\ at' = Current.logical
    /\ UNCHANGED <<files, calls, ids, next_fileid, pc, metas, last, next, map_vars>>

\* The hole before the next extent.
SendHole ==
    /\ pc = "extents" /\ ~ BatchDone /\ ~ ref_file
    /\ Current.logical > at
    /\ Put(EmptyPacket(fileid, "HOLE", at, Current.logical - at))
    /\ at' = Current.logical
    /\ UNCHANGED <<files, calls, ids, next_fileid, pc, metas, last, next, map_vars>>

AtExtent == pc = "extents" /\ ~ BatchDone /\ (ref_file \/ Current.logical <= at)

\* The extent is done: the batch goes on behind it.
Advance ==
    /\ at' = (IF ref_file THEN Current.logical ELSE at) + Current.length
    /\ next' = MergedUpTo + 1

\* FiesWriter_sendExtent_forNew's packet for the n bytes from l and p on.
NewPacket(e, l, p, n) ==
    IF e.flags = "DATA"
    THEN DataPacket(fileid, l, n, [k \in 0 .. n - 1 |-> [device |-> e.device, physical |-> p + k]])
    ELSE EmptyPacket(fileid, e.flags, l, n)

\* An extent the program says to copy.
SendExplicitCopy ==
    /\ AtExtent /\ Current.flags = "COPY"
    /\ PutUnlessRef(CopyPacket(fileid, Current.logical, Current.length,
                               ids[Current.source], Current.source_offset))
    /\ Advance
    /\ UNCHANGED <<files, calls, ids, next_fileid, pc, metas, last, map_vars>>

SendUnshared ==
    /\ AtExtent /\ Current.flags # "COPY" /\ ~ Current.shared
    /\ PutUnlessRef(NewPacket(Current, Current.logical, Current.physical, Current.length))
    /\ Advance
    /\ UNCHANGED <<files, calls, ids, next_fileid, pc, metas, last, map_vars>>

\* Entering FiesEMap_add with a shared extent.
AskMap ==
    /\ AtExtent /\ Current.flags # "COPY" /\ Current.shared
    /\ EMap!Ask(Current.device, Current.physical, Current.logical, Current.length, fileid)
    /\ pc' = "shared"
    /\ UNCHANGED <<files, calls, ids, next_fileid, metas, at, last, next, stream>>

\* The map calls FiesWriter_sendExtent_forNew for the next n bytes,
SendNewShared(n) ==
    /\ pc = "shared"
    /\ EMap!Send(n)
    /\ PutUnlessRef(NewPacket(Current, ex.logical, ex.physical, n))
    /\ UNCHANGED <<files, calls, ids, next_fileid, pc, metas, at, last, next>>

\* Slip: what the map says is available is sent again.
SendAvailAgain(n) ==
    /\ pc = "shared"
    /\ \E g \in File, m \in Log : EMap!Copy(n, g, m)
    /\ PutUnlessRef(NewPacket(Current, ex.logical, ex.physical, n))
    /\ UNCHANGED <<files, calls, ids, next_fileid, pc, metas, at, last, next>>

\* Slip: the current file is named as the source.
SendAvailFromCurrent(n) ==
    /\ pc = "shared"
    /\ \E g \in File, m \in Log :
         /\ EMap!Copy(n, g, m)
         /\ PutUnlessRef(CopyPacket(fileid, ex.logical, n, fileid, m))
    /\ UNCHANGED <<files, calls, ids, next_fileid, pc, metas, at, last, next>>

\* or FiesWriter_sendExtent_forAvail with their owner.
SendAvailShared(n) ==
    /\ pc = "shared"
    /\ \E g \in File, m \in Log :
         /\ EMap!Copy(n, g, m)
         /\ PutUnlessRef(CopyPacket(fileid, ex.logical, n, g, m))
    /\ UNCHANGED <<files, calls, ids, next_fileid, pc, metas, at, last, next>>

SharedDone ==
    /\ pc = "shared" /\ ex.length = 0
    /\ Advance
    /\ pc' = "extents"
    /\ UNCHANGED <<files, calls, ids, next_fileid, metas, last, map_vars, stream>>
------------------------------------------------------------------------------
NoMoreExtents == pc = "extents" /\ BatchDone /\ (at = file.size \/ Unmapped = {})

\* What is left of the file is a hole.
SendTrailingHole ==
    /\ NoMoreExtents /\ ~ ref_file /\ at < file.size
    /\ Put(EmptyPacket(fileid, "HOLE", at, file.size - at))
    /\ pc' = "end"
    /\ UNCHANGED <<files, calls, ids, next_fileid, metas, at, last, next, map_vars>>

\* Slip: the call returns without an end of the file.
LoseTrailingHoleAndEnd ==
    /\ NoMoreExtents /\ ~ ref_file /\ at < file.size
    /\ pc' = "idle"
    /\ UNCHANGED <<files, calls, ids, next_fileid, metas, at, last, next, map_vars, stream>>

\* Its put fails, but FiesWriter_sendFileEnd overwrites the error.
LoseTrailingHole ==
    /\ NoMoreExtents /\ ~ ref_file /\ at < file.size
    /\ pc' = "end"
    /\ UNCHANGED <<files, calls, ids, next_fileid, metas, at, last, next, map_vars, stream>>

SendFileEnd ==
    /\ pc = "end" \/ (NoMoreExtents /\ (ref_file \/ at = file.size))
    /\ Put(EndPacket(fileid))
    /\ pc' = "idle"
    /\ UNCHANGED <<files, calls, ids, next_fileid, metas, at, last, next, map_vars>>

\* The last file is followed by a list of snapshots.
SendSnapshots ==
    /\ pc = "idle" /\ calls > 0
    /\ stream[Len(stream)].type = "FILE_END"
    /\ file.mode \in {"REG", "REF"}
    /\ Put(SnapshotPacket(fileid))
    /\ UNCHANGED <<files, calls, ids, next_fileid, pc, metas, at, last, next, map_vars>>

\* A packet cannot be written, or a callback of the file fails.
Fail ==
    /\ pc # "failed"
    /\ ~ (pc = "idle" /\ calls = Len(files))
    /\ pc' = "failed"
    /\ UNCHANGED <<files, calls, ids, next_fileid, metas, at, last, next, map_vars, stream>>
------------------------------------------------------------------------------
SendShared == \E n \in 1 .. ex.length : SendNewShared(n) \/ SendAvailShared(n)

Step ==
    \/ WriteHeader \/ SendMeta \/ SendMetaEnd
    \/ NextExtents \/ SendHole \/ SendExplicitCopy \/ SendUnshared
    \/ AskMap \/ SendShared \/ SharedDone
    \/ SendTrailingHole \/ LoseTrailingHole \/ SendFileEnd

Next == Step \/ WriteHardlink \/ Begin \/ SendSnapshots \/ Fail

Spec == Init /\ [][Next]_vars

\* A call is sequential code that runs until it returns.
FairSpec == Spec /\ WF_vars(Step)
------------------------------------------------------------------------------
\* The types of the variables.
TypeOK ==
    /\ calls \in 0 .. Len(files) /\ Len(ids) = calls
    /\ next_fileid \in Nat /\ \A i \in DOMAIN ids : ids[i] \in 0 .. next_fileid - 1
    /\ pc \in {"new", "idle", "meta", "extents", "shared", "end", "failed"}
    /\ at \in Nat /\ last \in Nat /\ next \in Nat
    /\ owner \in [Device -> [Phys -> Holder \cup {Nothing}]]

Is(i, type) == stream[i].type = type
Ends(i, f)  == Is(i, "FILE_END") /\ stream[i].file = f
IsData(i)   == Is(i, "EXTENT") /\ stream[i].flags = "DATA"

\* Whether packet i begins the meta data of its file, or goes on with them.
MetaOpen(i) ==
    \/ Is(i, "FILE") /\ stream[i].mode \notin {"REF", "HARD"}
    \/ Is(i, "FILE_META") /\ stream[i].meta # "END"

\* The meta data of a file follow its header at once, and nothing else is
\* among them (fies.h:874-877, and what lib/fies_reader.c:885-893 insists on).
MetaFollowsFile ==
    \A i \in 1 .. Len(stream) - 1 :
      MetaOpen(i) <=> Is(i + 1, "FILE_META") /\ stream[i + 1].file = stream[i].file

\* Each file is finished before another one starts (FIES_F_WHOLE_FILES,
\* fies.h:510-511): an extent or the end of a file belongs to the file begun last,
\* which has not ended yet, and ids are never used again.
WholeFiles ==
    \A i \in DOMAIN stream :
      LET f == stream[i].file
          begun == {j \in 1 .. i - 1 : Is(j, "FILE") /\ stream[j].mode # "HARD"}
      IN  /\ Is(i, "EXTENT") \/ Is(i, "FILE_END") =>
               /\ \E j \in begun : stream[j].file = f /\ \A k \in begun : k <= j
               /\ \A j \in 1 .. i - 1 : Is(j, "FILE_END") => stream[j].file # f
          /\ Is(i, "FILE") =>
               IF stream[i].mode = "HARD" THEN \E j \in begun : stream[j].file = f
               ELSE \A j \in begun : stream[j].file # f /\ \E k \in 1 .. i : Ends(k, stream[j].file)

\* Where the last extent of file f before packet i ends.
SentBefore(f, i) ==
    LET sent == {j \in 1 .. i - 1 : Is(j, "EXTENT") /\ stream[j].file = f}
        j    == CHOOSE j \in sent : \A k \in sent : k <= j
    IN  IF sent = {} THEN 0 ELSE stream[j].offset + stream[j].length

SentUpTo(f) == SentBefore(f, Len(stream) + 1)

\* The extents of a file cover it without gap or overlap and in order, whatever
\* was merged, cut, shared, copied or a hole, and when its end is put none of
\* what the file has is missing.
ExtentsTile ==
    \A i \in DOMAIN ids : files[i].mode = "REG" =>
      /\ \A k \in DOMAIN stream : Is(k, "EXTENT") /\ stream[k].file = ids[i] =>
           stream[k].offset = SentBefore(ids[i], k)
      /\ SentUpTo(ids[i]) <= files[i].size
      /\ (\E j \in DOMAIN stream : Ends(j, ids[i])) =>
           \A k \in DOMAIN files[i].extents :
             LET x == files[i].extents[k] IN
             SentUpTo(ids[i]) >= files[i].size \/ SentUpTo(ids[i]) >= x.logical + x.length

\* "A file's data is finished" (fies.h:884) when its FILE_END is put, which
\* lib/fies_writer.c:1007-1013 puts although the trailing hole may be missing.
EndedFilesAreCovered ==
    \A i \in DOMAIN ids :
      files[i].mode = "REG" /\ (\E j \in DOMAIN stream : Ends(j, ids[i])) =>
        SentUpTo(ids[i]) = files[i].size

DataPlaces(i) == {stream[i].data[k] : k \in DOMAIN stream[i].data}

\* "Every physical extent is written only once" (Protocol.txt:16): no byte of
\* a device is in two extents with data, nor in one at all if a reference
\* file before it has it in a shared extent.
SentOnce ==
    \A i \in DOMAIN stream : IsData(i) =>
      /\ Cardinality(DataPlaces(i)) = stream[i].length
      /\ \A j \in 1 .. i - 1 :
           /\ IsData(j) => DataPlaces(i) \cap DataPlaces(j) = {}
           /\ Is(j, "FILE") /\ stream[j].mode = "REF" =>
                \A p \in DataPlaces(i), l \in Log : content[stream[j].file][l] # p

\* Whether byte x of file g is there when packet i comes: of a reference file,
\* sent in an extent, or behind the extents of a file that has ended.
IsThere(g, x, i) ==
    \E j \in 1 .. i - 1 : stream[j].type # "HEADER" /\ stream[j].file = g /\
      CASE Is(j, "FILE")     -> stream[j].mode = "REF" /\ x < stream[j].size
        [] Is(j, "EXTENT")   -> x \in stream[j].offset .. stream[j].offset + stream[j].length - 1
        [] Is(j, "FILE_END") -> x >= SentUpTo(g)
        [] OTHER             -> FALSE

\* A copy refers to bytes that are there when its packet comes; the reader
\* (lib/fies_reader.c:593-597) only looks for the file.
CopiesReferBack ==
    \A i \in DOMAIN stream : Is(i, "EXTENT") /\ stream[i].flags = "COPY" =>
      \A k \in 0 .. stream[i].length - 1 :
        IsThere(stream[i].source, stream[i].source_offset + k, i)

\* Every call returns or fails.  In particular nothing is ever asked of the
\* extent map that its users must not ask (ExtentOwner!Ask): it would block.
CallReturns == pc \notin {"idle", "failed"} ~> pc \in {"idle", "failed"}
==============================================================================
