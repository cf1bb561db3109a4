--------------------------------- MODULE RBD ---------------------------------
(***************************************************************************)
(* fies-rbd: images of rbd pools and their snapshots into a stream.        *)
(*                                                                         *)
(* Each snapshot is sent as what differs from the one of its image that    *)
(* was sent before (rbd_diff_iterate), the rest as copies of that file.    *)
(* The images are not written to meanwhile (doc/fies-rbd.rst.in:24-25).    *)
(* A block, here the unit of positions, is an object of the pool: its      *)
(* content is named by the version of the image that has written it last.  *)
(* Of the writer what it does to a batch of extents is modelled, see       *)
(* FiesWriter.                                                             *)
(***************************************************************************)
EXTENDS Integers, FiniteSets, SequencesExt

CONSTANTS BufSize,          \* the extents one call of next_extents may give (writer: 8192)
          Self,             \* the name of an image's last state
          Missing,          \* a snapshot's name that no image has
          Empty,            \* an empty name
          None, Zero,
          Unknown,          \* the content of a block nobody has sent
          Cases             \* the images, and how the program is called

ASSUME BufSizeAssumption == BufSize \in Nat \ {0}

\* The volumes given are of images there are, whose versions have different names;
\* that of the last state is no snapshot's.
ASSUME CasesAssumption ==
    /\ None \notin Nat
    /\ \A c \in Cases :
         /\ Len(c.args) \in Nat /\ DOMAIN c.args = 1 .. Len(c.args)
         /\ \A a \in 1 .. Len(c.args) : c.args[a].image \in DOMAIN c.image
         /\ \A m \in DOMAIN c.image :
              /\ Len(c.image[m]) \in Nat \ {0}
              /\ \A k \in 1 .. Len(c.image[m]) :
                   /\ c.image[m][k].size \in Nat /\ c.image[m][k].name # None
                   /\ k < Len(c.image[m]) => c.image[m][k].name # Self
              /\ \A k, l \in 1 .. Len(c.image[m]) :
                   c.image[m][k].name = c.image[m][l].name => k = l

\* An image is the sequence of its versions: its snapshots, the oldest first,
\* and its last state.  A call is what is given: options and volumes.
VARIABLES image, opt_snapshots, opt_from, opt_to, args

given == <<image, opt_snapshots, opt_from, opt_to, args>>

VARIABLES
    pc,
    added,    \* how many volumes given main has gone through
    images,   \* the Images of gPools, by their names
    todo,     \* those that add_image has still to be called for
    cur,      \* the one it is called for
    i, desired_count, previous_snapshot,
    iterated, \* how far rbd_diff_iterate has come
    lastend,  \* and where the extents it gave end
    at, exs,  \* how far the current file was sent, and the extents to be sent
    sent,     \* the files sent; those of a receiver
    retval,   \* gStatus.retval, or the rc of cephrbd_add
    skipped   \* the images whose snapshots could not be listed

loop_vars == <<cur, i, desired_count, previous_snapshot>>
iter_vars == <<iterated, lastend>>
vars == <<given, pc, added, images, todo, loop_vars, iter_vars, at, exs, sent, retval, skipped>>

SnapCount(m)  == Len(image[m]) - 1
Version(m, k) == image[m][k]
Index(m, snap) == CHOOSE k \in 1 .. Len(image[m]) : Version(m, k).name = snap
Exists(m, snap) == \E k \in 1 .. SnapCount(m) : Version(m, k).name = snap
------------------------------------------------------------------------------
Image_new(include_self) ==
    [include_self |-> include_self, snapshots |-> {}, last_file_id |-> None, lastsize |-> 0]

\* A second mention of an image always includes its last state: the test is
\* "if (self)", not "if (is_self)".
Pool_addImage(m, is_self) ==
    IF m \in DOMAIN images THEN [images EXCEPT ![m].include_self = TRUE]
    ELSE [x \in DOMAIN images \cup {m} |-> IF x = m THEN Image_new(is_self) ELSE images[x]]

Image_addSnapshot(table, m, snap) == [table EXCEPT ![m].snapshots = @ \cup {snap}]

\* main's options.  An empty --to takes --from away, and not --to.
CheckOptions ==
    /\ pc = "main"
    /\ opt_from' = IF Empty \in {opt_from, opt_to} THEN None ELSE opt_from
    /\ pc' = IF (opt_from' # None \/ opt_to # None) /\ (~ opt_snapshots \/ Len(args) # 1)
             THEN "usage" ELSE "args"
    /\ UNCHANGED <<image, opt_snapshots, opt_to, args, added, images, todo, loop_vars, at, exs,
                   sent, retval, skipped, iter_vars>>

\* cephrbd_add for the next volume.  One that is refused (a snapshot together
\* with --from or --to) gives a positive error, and is passed over.
cephrbd_add ==
    /\ pc = "args" /\ added < Len(args)
    /\ LET a == args[added + 1]
           table == Pool_addImage(a.image, a.snap = Self /\ opt_to = None)
       IN  images' = CASE a.snap # Self /\ {opt_from, opt_to} # {None} -> images
                       [] a.snap # Self /\ {opt_from, opt_to} = {None} ->
                            Image_addSnapshot(table, a.image, a.snap)
                       [] OTHER -> table
    /\ added' = added + 1
    /\ UNCHANGED <<given, pc, todo, loop_vars, at, exs, sent, retval, skipped, iter_vars>>

\* What the status of the process says when main returns with result r: the
\* wrong thing, "return rc == 0 ? 1 : 0".
Exited    == {"success", "failure"}
Status(r) == IF r = "none" THEN "failure" ELSE "success"

\* There is no such pool, or no memory.
AddFails ==
    /\ pc = "args" /\ added < Len(args)
    /\ retval' = "error" /\ pc' = Status(retval')
    /\ UNCHANGED <<given, added, images, todo, loop_vars, at, exs, sent, skipped, iter_vars>>

AllAdded ==
    /\ pc = "args" /\ added = Len(args)
    /\ todo' = DOMAIN images
    /\ pc' = "images"
    /\ UNCHANGED <<given, added, images, loop_vars, at, exs, sent, retval, skipped, iter_vars>>
------------------------------------------------------------------------------
\* add_image, in the order of the hash tables.  The snapshots from start_index on
\* and up to desired_count are sent.
StartIndex(m) ==
    IF opt_from # None /\ Exists(m, opt_from) THEN Index(m, opt_from) ELSE 1

\* Slip: the last one is left out.
DesiredButOne(m) ==
    LET wanted == IF opt_from # None \/ opt_to # None THEN {opt_to} ELSE images[m].snapshots
    IN  IF opt_from = None /\ opt_to = None /\ opt_snapshots THEN SnapCount(m)
        ELSE Max({1} \cup {Index(m, s) : s \in {x \in wanted : Exists(m, x)}})

\* One more than the index of the last snapshot wanted; 1 if there is none.
\* With --from alone there is none.
DesiredCount(m) ==
    LET wanted == IF opt_from # None \/ opt_to # None THEN {opt_to} ELSE images[m].snapshots
    IN  IF opt_from = None /\ opt_to = None /\ opt_snapshots THEN SnapCount(m) + 1
        ELSE Max({1} \cup {Index(m, s) + 1 : s \in {x \in wanted : Exists(m, x)}})

add_image ==
    /\ pc = "images" /\ retval = "none"
    /\ \E m \in todo :
         /\ todo' = todo \ {m}
         /\ cur' = m
         /\ i' = StartIndex(m)
         /\ desired_count' = DesiredCount(m)
    /\ previous_snapshot' = None
    /\ pc' = "snapshots"
    /\ UNCHANGED <<given, added, images, at, exs, sent, retval, skipped, iter_vars>>

\* rbd_open or rbd_get_size fails.
OpenFails ==
    /\ pc = "images" /\ retval = "none"
    /\ \E m \in todo : todo' = todo \ {m}
    /\ retval' = "error"
    /\ UNCHANGED <<given, pc, added, images, loop_vars, at, exs, sent, skipped, iter_vars>>

\* rbd_snap_list fails: nothing of the image is sent, and no error is noted.
ListFails ==
    /\ pc = "images" /\ retval = "none"
    /\ \E m \in todo : todo' = todo \ {m} /\ skipped' = skipped \cup {m}
    /\ UNCHANGED <<given, pc, added, images, loop_vars, at, exs, sent, retval, iter_vars>>

AtSnapshot == pc = "snapshots" /\ i # desired_count

\* Nothing ends the loop if it begins behind its end: it reads what is behind
\* the list.
ReadPastList ==
    /\ AtSnapshot /\ i > SnapCount(cur)
    /\ pc' = "undefined"
    /\ UNCHANGED <<given, added, images, todo, loop_vars, at, exs, sent, retval, skipped,
                   iter_vars>>

NotAskedFor == ~ opt_snapshots /\ Version(cur, i).name \notin images[cur].snapshots

\* Slip: the next diff starts from the snapshot although it is not sent.
PassOverAsPrevious ==
    /\ AtSnapshot /\ i <= SnapCount(cur) /\ NotAskedFor
    /\ i' = i + 1
    /\ previous_snapshot' = Version(cur, i).name
    /\ UNCHANGED <<given, pc, added, images, todo, cur, desired_count, at, exs, sent, retval,
                   skipped, iter_vars>>

PassOver ==
    /\ AtSnapshot /\ i <= SnapCount(cur) /\ NotAskedFor
    /\ i' = i + 1
    /\ UNCHANGED <<given, pc, added, images, todo, cur, desired_count, previous_snapshot, at,
                   exs, sent, retval, skipped, iter_vars>>

NewFile(k, ref) ==
    [image |-> cur, version |-> k, ref |-> ref, ended |-> FALSE,
     got |-> [b \in 0 .. Version(cur, k).size - 1 |->
                IF ref THEN Version(cur, k).blocks[b] ELSE Unknown]]

\* do_cephrbd_add: rbd_snap_set, and the file's header.  The first file of an
\* incremental stream is a reference, which the receiver has.
BeginSnapshot ==
    /\ AtSnapshot /\ i <= SnapCount(cur) /\ ~ NotAskedFor
    /\ images' = IF opt_snapshots THEN images
                 ELSE [images EXCEPT ![cur].snapshots = @ \ {Version(cur, i).name}]
    /\ sent' = Append(sent, NewFile(i, opt_from # None /\ previous_snapshot = None))
    /\ at' = 0 /\ exs' = <<>>
    /\ pc' = "extents"
    /\ UNCHANGED <<given, added, todo, loop_vars, retval, skipped, iter_vars>>

SnapshotsDone == pc = "snapshots" /\ i = desired_count

\* The last state follows its snapshots.
BeginSelf ==
    /\ SnapshotsDone /\ images[cur].include_self /\ opt_to = None
    /\ sent' = Append(sent, NewFile(Len(image[cur]), FALSE))
    /\ at' = 0 /\ exs' = <<>>
    /\ pc' = "extents"
    /\ UNCHANGED <<given, added, images, todo, loop_vars, retval, skipped, iter_vars>>

\* What was asked for and not taken from the table is reported.
report_missing ==
    /\ pc = "report" \/ (SnapshotsDone /\ ~ (images[cur].include_self /\ opt_to = None))
    /\ retval' = IF images[cur].snapshots = {} THEN retval ELSE "error"
    /\ pc' = "images"
    /\ UNCHANGED <<given, added, images, todo, loop_vars, at, exs, sent, skipped, iter_vars>>

\* rbd_snap_set or FiesFile_new fails.
BeginFails ==
    /\ \/ AtSnapshot /\ i <= SnapCount(cur) /\ ~ NotAskedFor
       \/ SnapshotsDone /\ images[cur].include_self /\ opt_to = None
    /\ retval' = "error" /\ pc' = "images"
    /\ UNCHANGED <<given, added, images, todo, loop_vars, at, exs, sent, skipped, iter_vars>>
------------------------------------------------------------------------------
\* The current file.
file     == Last(sent)
filesize == Version(cur, file.version).size
parent   == images[cur].last_file_id
lastsize == images[cur].lastsize

\* rbd_diff_iterate: the blocks still to be given that differ from those
\* of the previous snapshot; those that have data, if there is none.
Differs(b) ==
    LET new == Version(cur, file.version).blocks[b]
        old == Version(cur, Index(cur, previous_snapshot))
    IN  IF previous_snapshot = None \/ b >= old.size THEN new # Zero
        ELSE new # old.blocks[b]

Differing == {b \in iterated .. filesize - 1 : Differs(b)}

Kind(b) == IF Version(cur, file.version).blocks[b] # Zero THEN "DATA" ELSE "HOLE"

\* An extent; a "COPY" is of the same place in the parent.
Ex(flags, l, n) == [flags |-> flags, logical |-> l, length |-> n]
End(e) == e.logical + e.length

\* The extents for what rbd_diff_iterate has left out between lastend and off.
\* If the parent is smaller, the copy goes up to the end of the file, not of
\* the parent, and the length of the hole behind it is less than zero (it wraps).
Gap(off) ==
    CASE lastend = off -> <<>>
      [] lastend # off /\ (parent = None \/ lastend >= lastsize) ->
           <<Ex("HOLE", lastend, off - lastend)>>
      [] lastend # off /\ parent # None /\ lastend < lastsize /\ lastsize >= filesize ->
           <<Ex("COPY", lastend, off - lastend)>>
      [] OTHER ->
           <<Ex("COPY", lastend, filesize - lastend), Ex("HOLE", filesize, off - filesize)>>

\* Slip: a gap does not keep extents from being merged.
ContinuesAnyway(b) == exs # <<>> /\ Last(exs).flags = Kind(b)

\* Whether block b is merged with the extent before it.
Continues(b) == exs # <<>> /\ lastend = b /\ Last(exs).flags = Kind(b)

\* Slip: each call begins at the beginning of the file.
FromTheBeginning ==
    /\ pc = "extents" /\ exs = <<>> /\ at # filesize
    /\ iterated' = 0 /\ lastend' = 0
    /\ pc' = "mapping"
    /\ UNCHANGED <<given, added, images, todo, loop_vars, at, exs, sent, retval, skipped>>

\* RBDFile_nextExtents goes on where the last batch has ended.
RBDFile_nextExtents ==
    /\ pc = "extents" /\ exs = <<>> /\ at # filesize
    /\ iterated' = at /\ lastend' = at
    /\ pc' = "mapping"
    /\ UNCHANGED <<given, added, images, todo, loop_vars, at, exs, sent, retval, skipped>>

\* rbd_diff_iterate calls RBDFile_extent_cb for the next block: it and the gap
\* before it are put into the batch as far as there is room.  Once there is none,
\* the iteration is cancelled.
RBDFile_extent_cb ==
    /\ pc = "mapping" /\ Differing # {}
    /\ LET b    == Min(Differing)
           new  == Gap(b) \o <<Ex(Kind(b), b, 1)>>
           room == BufSize - Len(exs)
           fit  == SubSeq(new, 1, Min({room, Len(new)}))
       IN  IF Continues(b)
           THEN /\ exs' = [exs EXCEPT ![Len(exs)].length = @ + 1]
                /\ iterated' = b + 1 /\ lastend' = b + 1
           ELSE /\ exs' = exs \o fit
                /\ iterated' = IF fit = new THEN b + 1 ELSE filesize
                /\ lastend' = IF fit = <<>> THEN lastend ELSE End(Last(fit))
    /\ UNCHANGED <<given, pc, added, images, todo, loop_vars, at, sent, retval, skipped>>

\* What is left behind the last extent, if there is room, is a copy or a hole.
FillToEnd ==
    /\ pc = "mapping" /\ Differing = {}
    /\ exs' = IF Len(exs) = BufSize \/ lastend = filesize THEN exs
              ELSE Append(exs, Ex(IF parent = None THEN "HOLE" ELSE "COPY", lastend,
                                  filesize - lastend))
    /\ pc' = "extents"
    /\ UNCHANGED <<given, added, images, todo, loop_vars, iterated, lastend, at, sent, retval,
                   skipped>>

\* What a receiver gets for block b of extent e.
Received(e, b) ==
    CASE e.flags = "HOLE" -> Zero
      [] e.flags = "DATA" -> Version(cur, file.version).blocks[b]
      [] e.flags = "COPY" -> IF b < lastsize THEN sent[parent].got[b] ELSE Unknown

SendExtent ==
    /\ pc = "extents" /\ exs # <<>>
    /\ LET e == Head(exs)
           end == Min({End(e), filesize})
       IN  /\ sent' = IF file.ref THEN sent
                      ELSE [sent EXCEPT ![Len(sent)].got =
                              [b \in DOMAIN @ |-> IF b \in e.logical .. end - 1 THEN Received(e, b)
                                                  ELSE @[b]]]
           /\ at' = end
    /\ exs' = Tail(exs)
    /\ UNCHANGED <<given, pc, added, images, todo, loop_vars, retval, skipped, iter_vars>>

\* The file is the next one's parent, whether it could be sent or not.
IsParent == images' = [images EXCEPT ![cur].last_file_id = Len(sent), ![cur].lastsize = filesize]

\* FILE_END, and the list of snapshots behind a reference.
EndFile ==
    /\ pc = "extents" /\ exs = <<>> /\ at = filesize
    /\ sent' = [sent EXCEPT ![Len(sent)].ended = TRUE]
    /\ IsParent
    /\ IF file.version = Len(image[cur])
       THEN pc' = "report" /\ UNCHANGED <<i, previous_snapshot>>
       ELSE pc' = "snapshots" /\ i' = i + 1 /\ previous_snapshot' = Version(cur, i).name
    /\ UNCHANGED <<given, added, todo, cur, desired_count, at, exs, retval, skipped,
                   iter_vars>>

\* A read of the image or a write to the stream fails.
FileFails ==
    /\ pc = "extents"
    /\ IsParent
    /\ retval' = "error" /\ pc' = "images"
    /\ UNCHANGED <<given, added, todo, loop_vars, at, exs, sent, skipped, iter_vars>>

Exit ==
    /\ pc = "images" /\ (todo = {} \/ retval # "none")
    /\ pc' = Status(retval)
    /\ UNCHANGED <<given, added, images, todo, loop_vars, at, exs, sent, retval, skipped,
                   iter_vars>>
------------------------------------------------------------------------------
Init ==
    /\ \E c \in Cases :
         /\ image = c.image /\ args = c.args
         /\ opt_snapshots = c.snapshots /\ opt_from = c.from /\ opt_to = c.to
    /\ pc = "main"
    /\ added = 0 /\ images = <<>> /\ todo = {}
    /\ cur = None /\ i = 1 /\ desired_count = 1 /\ previous_snapshot = None
    /\ iterated = 0 /\ lastend = 0
    /\ at = 0 /\ exs = <<>> /\ sent = <<>>
    /\ retval = "none" /\ skipped = {}

Next ==
    \/ CheckOptions \/ cephrbd_add \/ AddFails \/ AllAdded
    \/ add_image \/ OpenFails \/ ListFails
    \/ ReadPastList \/ PassOver \/ BeginSnapshot \/ BeginSelf \/ report_missing \/ BeginFails
    \/ RBDFile_nextExtents \/ RBDFile_extent_cb \/ FillToEnd
    \/ SendExtent \/ EndFile \/ FileFails
    \/ Exit

Spec == Init /\ [][Next]_vars

\* A sequential program, which runs until it exits.
FairSpec == Spec /\ WF_vars(Next)
------------------------------------------------------------------------------
\* No version of the image is larger than an older one.
NeverGrown(m) ==
    \A k, l \in 1 .. Len(image[m]) : k < l => Version(m, k).size >= Version(m, l).size

\* A file that was sent is, for a receiver, the version of the image it was made
\* from, although only what differs from the file before it was sent, in batches
\* that end anywhere: if the image has never grown (see CopiesFitTheirSource).
FilesAreRight ==
    \A f \in DOMAIN sent :
      LET m == sent[f].image IN
      sent[f].ended /\ NeverGrown(m) =>
        \A b \in DOMAIN sent[f].got : sent[f].got[b] = Version(m, sent[f].version).blocks[b]

\* What a file's diff is taken from is what its gaps are copied from: the
\* previous_snapshot of add_image is the last_file_id of do_cephrbd_add.
SourceIsDiffBase ==
    pc = "extents" =>
      IF parent = None THEN previous_snapshot = None
      ELSE /\ previous_snapshot # None
           /\ sent[parent].image = cur /\ sent[parent].ended
           /\ sent[parent].version = Index(cur, previous_snapshot)

\* The versions of image m that are asked for: the snapshots named or, by default,
\* all (doc/fies-rbd.options), those between --from and --to, and the last state.
Asked(m) ==
    LET named == {args[a].snap : a \in {x \in DOMAIN args : args[x].image = m}}
        snaps == 1 .. SnapCount(m)
        range == IF Exists(m, opt_to) THEN StartIndex(m) .. Index(m, opt_to) ELSE {}
        wanted == IF opt_snapshots THEN snaps ELSE {k \in snaps : Version(m, k).name \in named}
    IN  (IF opt_from = None /\ opt_to = None THEN wanted ELSE range)
        \cup (IF Self \in named /\ opt_to = None THEN {Len(image[m])} ELSE {})

\* If nothing was reported, all that was asked of the images has been sent,
\* except of those whose snapshots could not be listed.
AskedIsSent ==
    pc \in Exited /\ retval = "none" =>
      \A m \in DOMAIN images \ skipped : \A k \in 1 .. Len(image[m]) :
        k \in Asked(m) =>
          \E f \in DOMAIN sent : sent[f].image = m /\ sent[f].version = k /\ sent[f].ended

\* "If we have no parent (or the parent was too small) we punch holes"
\* (fies_rbd.c:397-398, and 406 "But the parent might not fit"): what is copied
\* is in the file it is copied from.
CopiesFitTheirSource ==
    \A k \in DOMAIN exs : exs[k].flags = "COPY" => End(exs[k]) <= lastsize

\* "usage(stderr, EXIT_FAILURE)" (fies_rbd.c:828), as every other program here: who
\* runs it can tell by the status whether there was an error.
StatusTellsOfErrors == pc = "success" => retval = "none"

\* The program ends, or does what is not defined (see ReadPastList): no file is
\* mapped for ever, however few extents fit into a batch.
RunEnds == <>(pc \in Exited \cup {"usage", "undefined"})
==============================================================================
