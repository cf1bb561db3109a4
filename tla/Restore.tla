------------------------------- MODULE Restore -------------------------------
(***************************************************************************)
(* src/fies-restore/fies_restore.c: a stream whose files are the states of *)
(* one volume is written onto one output, and between two files a command  *)
(* makes a snapshot of what the output holds by then.                      *)
(*                                                                         *)
(* "history" is what the volume held; the stream is what FiesWriter puts   *)
(* for it, block by block: of a block that an earlier state has the first  *)
(* such state is the source of a copy.  Reading is FiesReader's: one       *)
(* action is a callback of this program, given a packet.                   *)
(***************************************************************************)
EXTENDS Packets, FiniteSets

CONSTANT Histories  \* sequences of [size, blocks], what the volume held

ASSUME HistoriesAssumption ==
    /\ Nothing \notin File \cup {0, 1}
    /\ \A h \in Histories :
         /\ h \in Seq([size : 0 .. LogSize, blocks : [Log -> Place \cup {Zero}]]) \ {<<>>}
         /\ DOMAIN h \subseteq File

VARIABLES history,
          reference, \* whether the stream is incremental to the first state
          output,    \* what the output holds
          zeroes,    \* whether discarded blocks of it read as zeroes
          final,     \* opt_final_snapshot
          excluded,  \* the states no snapshot is made of
          pos,       \* packets read
          lastname, cur_done, size, \* snap_lastname, snap_cur_done, snap_size
          handle,    \* of each file announced; 0 is NULL
          cur,       \* snap_cur_handle
          rc,        \* of FiesReader_iterate: "more", "end" or "error"
          taken,     \* the snapshots made: the name given and the blocks
          killed,    \* states the snapshot command of which a signal has ended
          exit       \* main's return value, Nothing while it runs

options == <<history, reference, zeroes, final, excluded>>
vars == <<options, output, pos, lastname, cur_done, size, handle, cur, rc, taken, killed, exit>>

States == DOMAIN history

\* The states that have block b of state k, and where, the first one first.
Sources(k, l) ==
    {h \in Holder : /\ h.file \in 1 .. k - 1 /\ h.logical < history[h.file].size
                    /\ history[h.file].blocks[h.logical] = history[k].blocks[l]}

BlockPacket(k, l) ==
    LET b == history[k].blocks[l]  from == Sources(k, l) IN
    IF b = Zero THEN EmptyPacket(k, "HOLE", l, 1)
    ELSE IF from = {} THEN DataPacket(k, l, 1, [i \in {0} |-> b])
    ELSE LET h == CHOOSE h \in from : \A g \in from : h.file <= g.file
         IN  CopyPacket(k, l, 1, h.file, h.logical)

FilePackets(k) ==
    IF reference /\ k = 1
    THEN <<FilePacket(k, "REF", history[k].size), EndPacket(k)>>
    ELSE <<FilePacket(k, "REG", history[k].size)>>
           \o [l \in 1 .. history[k].size |-> BlockPacket(k, l - 1)]
           \o <<EndPacket(k)>>

UpTo[k \in 0 .. Len(history)] ==
    IF k = 0 THEN <<Header>> ELSE UpTo[k - 1] \o FilePackets(k)

stream == UpTo[Len(history)]

Init ==
    /\ history \in Histories
    /\ reference \in BOOLEAN /\ zeroes \in BOOLEAN /\ final \in BOOLEAN
    /\ excluded \in {{}, {2}}
    /\ output = [l \in Log |-> IF reference THEN history[1].blocks[l] ELSE Nothing]
    /\ pos = 1
    /\ lastname = Nothing /\ cur_done = FALSE /\ size = 0
    /\ handle = [f \in {} |-> 0] /\ cur = 0
    /\ rc = "more"
    /\ taken = <<>> /\ killed = {}
    /\ exit = Nothing
------------------------------------------------------------------------------
pkt == stream[pos + 1]

Callback(type) == rc = "more" /\ pos < Len(stream) /\ pkt.type = type /\ pos' = pos + 1
Extent(flags)  == Callback("EXTENT") /\ pkt.flags = flags

\* A callback fails, which FiesReader throws, or the input is at its end, or is
\* broken.
Error == rc' = "error"

Snapshot == [name |-> lastname, blocks |-> output]

\* Whether snap_take_snapshot has a snapshot to make, and the snapshots there
\* are when its command has made it; a command may also fail, with the snapshot
\* made or not.
TakesOne(isfinal) == lastname # Nothing /\ lastname \notin excluded /\ (isfinal => final)
Taken(isfinal)    == IF TakesOne(isfinal) THEN Append(taken, Snapshot) ELSE taken

\* snap_take_snapshot returns 0.  snap_run_command looks at WEXITSTATUS only,
\* which is 0, too, of a command that a signal has ended, early or late.
Take(isfinal) ==
    \/ taken' = Taken(isfinal) /\ UNCHANGED killed
    \/ /\ TakesOne(isfinal)
       /\ taken' \in {taken, Taken(isfinal)}
       /\ killed' = killed \cup {lastname}

\* snap_create for the second file and on: what is there becomes a snapshot.
CreateNext ==
    /\ lastname # Nothing
    /\ cur_done /\ pkt.size = size
    /\ Take(FALSE)
    /\ UNCHANGED size

\* snap_create for the first file.
CreateFirst ==
    /\ lastname = Nothing
    /\ size' = pkt.size
    /\ UNCHANGED <<taken, killed>>

\* snap_create.
Create ==
    /\ Callback("FILE") /\ pkt.mode = "REG"
    /\ CreateNext \/ CreateFirst
    /\ cur_done' = FALSE
    /\ lastname' = pkt.file
    /\ cur' = cur + 1
    /\ handle' = [f \in DOMAIN handle \cup {pkt.file} |->
                    IF f = pkt.file THEN cur + 1 ELSE handle[f]]
    /\ UNCHANGED <<options, output, rc, exit>>

\* snap_create refuses the file, or one of its commands fails before or after
\* the snapshot was made.
CreateFails ==
    /\ Callback("FILE") /\ pkt.mode = "REG"
    /\ Error
    /\ \/ UNCHANGED <<taken, killed, size>>
       \/ CreateNext \/ CreateFirst
    /\ UNCHANGED <<options, output, lastname, cur_done, handle, cur, exit>>

\* Slip: a file that is only referred to counts as one that was written.
ReferenceWithHandle ==
    /\ Callback("FILE") /\ pkt.mode = "REF"
    /\ handle' = [f \in DOMAIN handle \cup {pkt.file} |->
                    IF f = pkt.file THEN cur + 1 ELSE handle[f]]
    /\ UNCHANGED <<options, output, lastname, cur_done, size, cur, rc, taken, killed, exit>>

\* snap_reference: the file has no handle.
Reference ==
    /\ Callback("FILE") /\ pkt.mode = "REF"
    /\ handle' = [f \in DOMAIN handle \cup {pkt.file} |-> IF f = pkt.file THEN 0 ELSE handle[f]]
    /\ UNCHANGED <<options, output, lastname, cur_done, size, cur, rc, taken, killed, exit>>

Unchanged == UNCHANGED <<options, lastname, size, handle, cur, taken, killed, exit>>

\* The block of the current packet becomes b, or the callback fails.
Becomes(b) ==
    /\ \/ output' = [output EXCEPT ![pkt.offset] = b] /\ UNCHANGED rc
       \/ Error /\ UNCHANGED output
    /\ UNCHANGED cur_done /\ Unchanged

\* snap_pwrite.
Write ==
    /\ Extent("DATA") /\ handle[pkt.file] # 0
    /\ IF handle[pkt.file] # cur THEN Error /\ UNCHANGED <<output, cur_done>> /\ Unchanged
       ELSE Becomes(pkt.data[0])

\* Slip: a hole that cannot be punched is left out.
PunchNothing ==
    /\ Extent("HOLE") /\ handle[pkt.file] # 0
    /\ Becomes(output[pkt.offset])

\* snap_punch_hole, which discards the block if it is not in a regular file.
PunchHole ==
    /\ Extent("HOLE") /\ handle[pkt.file] # 0
    /\ Becomes(Zero) \/ (~ zeroes /\ Becomes(output[pkt.offset]))

\* snap_clone: the output has the bytes already.
Clone ==
    /\ Extent("COPY") /\ handle[pkt.file] # 0
    /\ IF handle[pkt.file] # cur \/ handle[pkt.source] >= cur THEN Error ELSE UNCHANGED rc
    /\ UNCHANGED <<output, cur_done>> /\ Unchanged

\* snap_file_done, called for files with a handle.
FileDone ==
    /\ Callback("FILE_END")
    /\ cur_done' = (cur_done \/ handle[pkt.file] # 0)
    /\ UNCHANGED <<output, rc>> /\ Unchanged

\* FiesReader_iterate returns 0 or an error: the stream is at its end, is not
\* there any further, or cannot be read.
ReaderStops ==
    /\ rc = "more"
    /\ rc' \in {"end", "error"}
    /\ UNCHANGED <<options, output, pos, lastname, cur_done, size, handle, cur, taken, killed, exit>>

\* Slip: nothing is made of the last file.
LeaveLast ==
    /\ rc # "more" /\ exit = Nothing
    /\ exit' = (IF rc = "end" THEN 0 ELSE 1)
    /\ UNCHANGED <<options, output, pos, lastname, cur_done, size, handle, cur, rc, taken, killed>>

\* main after its loop, whatever has ended it: the last file becomes a snapshot,
\* too.  A command may fail.
TakeFinal ==
    /\ rc # "more" /\ exit = Nothing
    /\ \/ Take(TRUE) /\ exit' = (IF rc = "end" THEN 0 ELSE 1)
       \/ (Take(TRUE) \/ UNCHANGED <<taken, killed>>) /\ exit' = 1
    /\ UNCHANGED <<options, output, pos, lastname, cur_done, size, handle, cur, rc>>

Next ==
    \/ Create \/ CreateFails \/ Reference \/ Write \/ PunchHole \/ Clone \/ FileDone
    \/ ReaderStops \/ TakeFinal

Spec == Init /\ [][Next]_vars
------------------------------------------------------------------------------
\* The types of the variables.
TypeOK ==
    /\ output \in [Log -> Place \cup {Zero, Nothing}]
    /\ pos \in 1 .. Len(stream)
    /\ lastname \in States \cup {Nothing} /\ cur_done \in BOOLEAN
    /\ killed \subseteq States
    /\ cur \in Nat /\ DOMAIN handle \subseteq States
    /\ \A f \in DOMAIN handle : handle[f] \in 0 .. cur
    /\ rc \in {"more", "end", "error"} /\ exit \in {Nothing, 0, 1}

\* A block that stays the same in the stream stays the same in the volume: it is
\* where it was, and was never something else in between.  snap_clone relies on it.
Linear ==
    \A k \in States : \A l \in 0 .. history[k].size - 1 : history[k].blocks[l] # Zero =>
      \A h \in Sources(k, l) :
        /\ h.logical = l
        /\ \A i \in h.file .. k : history[i].blocks[l] = history[k].blocks[l]

IsRight(snapshot) ==
    \A l \in 0 .. history[snapshot.name].size - 1 :
      snapshot.blocks[l] = history[snapshot.name].blocks[l]

\* Of a volume without rollbacks every snapshot that is made holds what the
\* volume did under that name, though all of them are made of one output and
\* copies write nothing; but the last one does only if the file came to its
\* end.  Discarding blocks must zero them.
SnapshotsAreRight ==
    Linear /\ zeroes =>
      \A i \in DOMAIN taken :
        IsRight(taken[i]) \/ (i = Len(taken) /\ ~ cur_done)

\* "%s contains the snapshot's name (which is the name of the file in the
\* stream which has just been written)", doc/fies-restore.options:41-42: a snapshot has
\* what the volume did.  But main (702-711) also makes one when the stream ends
\* or breaks in the middle of the file, and returns 0 if it ends.
NamedSnapshotsAreWhole ==
    Linear /\ zeroes => \A i \in DOMAIN taken : IsRight(taken[i])

\* The states a snapshot is to be made of.
Asked(k) == k \notin excluded /\ ~ (reference /\ k = 1) /\ (final \/ k # Len(history))

\* When fies-restore returns success and has had the whole stream, each file that
\* is not excluded nor only referred to has become exactly one snapshot, in
\* their order, and the last one as --final-snapshot says, unless a signal has
\* ended the command for it.
NoneIsLeftOut ==
    exit = 0 /\ pos = Len(stream) =>
      /\ {taken[i].name : i \in DOMAIN taken} \cup killed = {k \in States : Asked(k)}
      /\ \A i, j \in DOMAIN taken : i < j => taken[i].name < taken[j].name

\* "between each file a snapshot command is executed to turn the current state
\* into a snapshot", doc/fies-restore.rst.in:23-25: a success has made them all.
\* But a command that a signal has ended counts as one that succeeded (241).
SuccessHasMadeThemAll ==
    exit = 0 /\ pos = Len(stream) =>
      {k \in States : Asked(k)} \subseteq {taken[i].name : i \in DOMAIN taken}
==============================================================================
