--------------------------------- MODULE Zvol ---------------------------------
(***************************************************************************)
(* fies-zvol: zvols and their snapshots into a stream.                     *)
(*                                                                         *)
(* The volumes given should not be written to (doc/fies-zvol.rst.in:24);   *)
(* with --set-ro the program sees to that itself, for each one while it is *)
(* read.  Others may be written to all the time, by which blocks that      *)
(* nothing refers to any more are used again.                              *)
(*                                                                         *)
(* The kernel has the volumes as they are.  The program reads the block    *)
(* pointers by itself, with libzpool, from a pool as it was when it was    *)
(* first opened (kernel_init, dmu_objset_own), and the data through        *)
(* /dev/zvol, from the kernel.                                             *)
(*                                                                         *)
(* A byte is named by its block pointer and where in the block it is.  A   *)
(* file ends at the last block that was ever written (doi_max_offset); the *)
(* names of volumes and their transformations are left out.  Of the writer *)
(* only its promise is used, see ExtentOwner.                              *)
(***************************************************************************)
EXTENDS ZvolMap, Functions, FiniteSets

CONSTANTS Self,       \* the last state of a volume, beside its snapshots
          Missing,    \* a snapshot's name that no volume has
          Empty,      \* an empty name
          None, Zero,
          Offsets,    \* bound: where the blocks of a vdev may be
          MaxWrites,  \* bound: how often others write
          Cases       \* the volumes, and how the program is called

ASSUME CasesAssumption ==
    \A c \in Cases : \A v \in DOMAIN c.volume : c.volume[v].readonly \in BOOLEAN

\* What is given are volumes and snapshots; a volume's snapshots have different names,
\* and none an empty one.
ASSUME NamesAssumption ==
    /\ Self # None
    /\ \A c \in Cases :
         /\ c.opts.from # Self
         /\ None \notin [k : Nat, from : {None, c.opts.from, c.opts.to},
                          to : {None, c.opts.to}, last : BOOLEAN]
         /\ Len(c.opts.args) \in Nat
         /\ \A a \in 1 .. Len(c.opts.args) :
              LET name == c.opts.args[a] IN
              name.vol \in DOMAIN c.volume /\ name = [vol |-> name.vol, snap |-> name.snap]
         /\ DOMAIN c.opts.args = 1 .. Len(c.opts.args)
         /\ \A v \in DOMAIN c.volume :
              LET snaps == c.volume[v].snaps IN
              /\ Len(snaps) \in Nat /\ DOMAIN snaps = 1 .. Len(snaps)
              /\ \A k \in 1 .. Len(snaps) : snaps[k] \notin {Self, None, Empty}
              /\ \A k, l \in 1 .. Len(snaps) : snaps[k] = snaps[l] => k = l

\* A pointer to a block that is not a hole.
Pointer == [dvas : Seq([vdev : Nat, offset : Nat]), plain : BOOLEAN, asize : Nat, birth : Nat]

\* Two blocks have no byte of a vdev in common.
Apart(bp, bq) ==
    \A i \in DOMAIN bp.dvas, j \in DOMAIN bq.dvas :
      bp.dvas[i].vdev = bq.dvas[j].vdev =>
        \/ bp.dvas[i].offset + bp.asize <= bq.dvas[j].offset
        \/ bq.dvas[j].offset + bq.asize <= bp.dvas[i].offset

BlocksOf(shape) == shape.nblkptr * Span[shape.nlevels - 1]

\* The blocks of a volume's states are those its trees have room for; they are older
\* than what others will write, and what has a place has it for itself.
ASSUME VolumesAssumption ==
    /\ Hole \notin Pointer \cup {"indirect"}
    /\ Offsets \subseteq Nat
    /\ \A c \in Cases : \A v \in DOMAIN c.volume :
         LET shape == c.volume[v] IN
         /\ shape.nlevels \in 1 .. MaxLevels + 1 /\ shape.nblkptr \in Nat \ {0}
         /\ BlocksOf(shape) <= MaxBlocks
         /\ DOMAIN shape.maps = 1 .. Len(shape.snaps) + 1
         /\ Last(shape.maps) = shape.maps[Len(shape.snaps) + 1]
         /\ \A k \in DOMAIN shape.maps :
              /\ \E n \in 0 .. BlocksOf(shape) : shape.maps[k] \in [0 .. n - 1 -> Pointer \cup {Hole}]
              /\ \A b \in DOMAIN shape.maps[k] :
                   LET bp == shape.maps[k][b] IN
                   bp # Hole /\ bp.plain => bp.dvas # <<>> /\ bp.asize > 0 /\ bp.birth = 0
    /\ \A c \in Cases : \A v, w \in DOMAIN c.volume :
         c.volume[v].pool = c.volume[w].pool =>
           \A k \in DOMAIN c.volume[v].maps, l \in DOMAIN c.volume[w].maps :
             \A bp \in Range(c.volume[v].maps[k]) \ {Hole}, bq \in Range(c.volume[w].maps[l]) \ {Hole} :
               bp.plain /\ bq.plain /\ bp # bq => Apart(bp, bq)

\* A volume has a pool, snapshots, the blocks of each of them and at last of itself,
\* its readonly property and the shape of its trees.
VARIABLES volume, opts, live, readonly, writes

world == <<volume, opts, live, readonly, writes>>

VARIABLES
    pc, retval,
    opt_from,
    opened,   \* libzpool: for each pool that is open the volumes as they were then
    added,    \* how many volumes given main has gone through
    zvols_done,
    cur,      \* what zvol_add is called for: a volume, and a snapshot or Self
    iter,     \* the snapshot_iteration, and the snapshots it has come to
    as_ref, was_ro,
    uniq,     \* self->uniq
    at, exs,  \* how far the current file was sent, and the extents to be sent
    owner,    \* where each physical byte was sent, see ExtentOwner
    sent,     \* the files; those of a receiver
    left      \* the volumes whose property could not be reverted

add_vars  == <<added, zvols_done, cur, iter, as_ref>>
send_vars == <<uniq, at, exs, owner, sent>>
vars == <<world, pc, retval, opt_from, opened, add_vars, was_ro, send_vars, left>>

Snaps(v)   == volume[v].snaps
IsVol      == cur.snap = Self
Exists(v, snap) == snap \in Range(Snaps(v))
Index(v, snap)  == CHOOSE k \in DOMAIN Snaps(v) : Snaps(v)[k] = snap

\* The blocks of a volume or of a snapshot, as the kernel has them.
Blocks(name) == IF name.snap = Self THEN live[name.vol]
                ELSE volume[name.vol].maps[Index(name.vol, name.snap)]

\* The same as the program has them: a snapshot does not change.
Seen(name) == IF name.snap = Self THEN opened[volume[name.vol].pool][name.vol]
              ELSE Blocks(name)

\* What is read through /dev/zvol.
Content(map) ==
    [l \in 0 .. Cardinality(DOMAIN map) * BlockSize - 1 |->
       LET bp == map[l \div BlockSize] IN IF bp = Hole THEN Zero ELSE <<bp, l % BlockSize>>]

\* The tree of block pointers: an indirect block with nothing below it is a hole.
DNode(name) ==
    LET map == Seen(name)
        shape == volume[name.vol]
        Below(l, n) == {b \in DOMAIN map \cap (n * Span[l] .. (n + 1) * Span[l] - 1) : map[b] # Hole}
    IN  [nlevels |-> shape.nlevels, nblkptr |-> shape.nblkptr,
         bps |-> [l \in 0 .. shape.nlevels - 1 |-> [n \in Numbers(l) |->
                    CASE Below(l, n) = {} -> Hole
                      [] Below(l, n) # {} /\ l = 0 -> map[n]
                      [] OTHER -> "indirect"]]]
------------------------------------------------------------------------------
\* The others: a block of a volume that may be written to gets a place nobody uses.
Pointers(p) ==
    LET Of(v) == Range(live[v]) \cup UNION {Range(volume[v].maps[k]) : k \in DOMAIN Snaps(v)}
    IN  (UNION {Of(v) : v \in {x \in DOMAIN volume : volume[x].pool = p}}) \ {Hole}

Used(p) == UNION {{d.offset .. d.offset + bp.asize - 1 : d \in {x \in Range(bp.dvas) : x.vdev = 0}} :
                    bp \in Pointers(p)}

OtherWrites ==
    /\ pc \notin {"usage", "exited"} /\ writes < MaxWrites
    /\ \E v \in DOMAIN volume, o \in Offsets :
         /\ ~ readonly[v]
         /\ opts.set_ro \/ \A a \in DOMAIN opts.args : opts.args[a].vol # v
         /\ \A used \in Used(volume[v].pool) : used \cap (o .. o + BlockSize - 1) = {}
         /\ \E b \in DOMAIN live[v] :
              live' = [live EXCEPT ![v][b] = [dvas |-> <<[vdev |-> 0, offset |-> o]>>, plain |-> TRUE,
                                              asize |-> BlockSize, birth |-> writes + 1]]
    /\ writes' = writes + 1
    /\ UNCHANGED <<volume, opts, readonly, pc, retval, opt_from, opened, add_vars, was_ro, send_vars, left>>
------------------------------------------------------------------------------
\* main.  An empty --to clears --from.
CheckOptions ==
    /\ pc = "options"
    /\ opt_from' = IF opts.from = Empty \/ opts.to = Empty THEN None ELSE opts.from
    /\ pc' = IF {opt_from', opts.to} # {None} /\ (~ opts.snapshots \/ Len(opts.args) # 1)
             THEN "usage" ELSE "args"
    /\ UNCHANGED <<world, retval, opened, add_vars, was_ro, send_vars, left>>

Iteration(k, from, to, last) == [k |-> k, from |-> from, to |-> to, last |-> last]

\* zvol_add for a volume given.  One that was done is passed over.
zvol_add ==
    /\ pc = "args" /\ added < Len(opts.args)
    /\ LET name == opts.args[added + 1] IN
         /\ zvols_done' = zvols_done \cup {name}
         /\ IF name \in zvols_done THEN UNCHANGED <<cur, iter, pc>>
            ELSE /\ name.snap = Self \/ Exists(name.vol, name.snap)
                 /\ cur' = name
                 /\ IF opts.snapshots /\ name.snap = Self
                    THEN iter' = Iteration(1, opt_from, opts.to, FALSE) /\ pc' = "snapshots"
                    ELSE iter' = None /\ pc' = "property"
    /\ added' = added + 1
    /\ as_ref' = FALSE
    /\ UNCHANGED <<world, retval, opt_from, opened, was_ro, send_vars, left>>

\* It cannot be opened, or its snapshots cannot be listed, which is done before the first.
AddFails ==
    /\ \/ pc = "args" /\ added < Len(opts.args)
       \/ pc = "snapshots" /\ iter.k = 1
    /\ pc' = "exited" /\ retval' = "error"
    /\ UNCHANGED <<world, opt_from, opened, add_vars, was_ro, send_vars, left>>

AllAdded ==
    /\ pc = "args" /\ added = Len(opts.args)
    /\ pc' = "exited"
    /\ UNCHANGED <<world, retval, opt_from, opened, add_vars, was_ro, send_vars, left>>

SnapshotNow == Snaps(cur.vol)[iter.k]
HasSnapshot == pc = "snapshots" /\ ~ iter.last /\ iter.k <= Len(Snaps(cur.vol))

\* zvol_addsnap: what is before --from.
PassSnapshot ==
    /\ HasSnapshot /\ iter.from \notin {None, SnapshotNow}
    /\ iter' = [iter EXCEPT !.k = @ + 1]
    /\ UNCHANGED <<world, pc, retval, opt_from, opened, added, zvols_done, cur, as_ref, was_ro, send_vars, left>>

\* Slip: --from still holds after its snapshot.
FromStays(snap) ==
    IF iter.to = snap THEN Iteration(iter.k + 1, iter.to, None, TRUE)
    ELSE Iteration(iter.k + 1, iter.from, iter.to, FALSE)

\* The iteration after a snapshot that is not passed over.
NextIteration(snap) ==
    IF iter.to = snap THEN Iteration(iter.k + 1, iter.to, None, TRUE)
    ELSE Iteration(iter.k + 1, None, iter.to, FALSE)

\* zvol_addsnap: zvol_add for a snapshot, which --from makes a reference.
zvol_addsnap ==
    /\ HasSnapshot /\ iter.from \in {None, SnapshotNow}
    /\ iter' = NextIteration(SnapshotNow)
    /\ as_ref' = (iter.from = SnapshotNow)
    /\ LET name == [vol |-> cur.vol, snap |-> SnapshotNow] IN
         /\ zvols_done' = zvols_done \cup {name}
         /\ IF name \in zvols_done THEN UNCHANGED <<cur, pc>>
            ELSE cur' = name /\ pc' = "property"
    /\ UNCHANGED <<world, retval, opt_from, opened, added, was_ro, send_vars, left>>

\* zvol_add after the iteration: it has gone on after what failed, but then is an error.
ErrorIsKept ==
    /\ pc = "snapshots" /\ retval # "none"
    /\ iter.last \/ iter.k > Len(Snaps(cur.vol))
    /\ pc' = "exited"
    /\ UNCHANGED <<world, retval, opt_from, opened, add_vars, was_ro, send_vars, left>>

\* After the last snapshot asked for the volume itself is not added (ITER_END).
IterationEnds ==
    /\ pc = "snapshots" /\ iter.last /\ retval = "none"
    /\ pc' = "args" /\ iter' = None
    /\ UNCHANGED <<world, retval, opt_from, opened, added, zvols_done, cur, as_ref, was_ro, send_vars, left>>

SnapshotsDone ==
    /\ pc = "snapshots" /\ ~ iter.last /\ iter.k > Len(Snaps(cur.vol)) /\ retval = "none"
    /\ cur' = [cur EXCEPT !.snap = Self]
    /\ iter' = None /\ as_ref' = FALSE
    /\ pc' = "property"
    /\ UNCHANGED <<world, retval, opt_from, opened, added, zvols_done, was_ro, send_vars, left>>
------------------------------------------------------------------------------
\* set_zvol_ro, or get_zvol_ro and the refusal of a writable volume.
CheckProperty ==
    /\ pc = "property"
    /\ IF IsVol /\ (opts.set_ro \/ ~ opts.rw)
       THEN /\ was_ro' = readonly[cur.vol]
            /\ readonly' = [readonly EXCEPT ![cur.vol] = @ \/ opts.set_ro]
            /\ IF readonly'[cur.vol] THEN pc' = "own" /\ UNCHANGED retval
               ELSE pc' = "close" /\ retval' = "error"
       ELSE pc' = "own" /\ UNCHANGED <<was_ro, readonly, retval>>
    /\ UNCHANGED <<volume, opts, live, writes, opt_from, opened, add_vars, send_vars, left>>

PropertyFails ==
    /\ pc = "property" /\ IsVol /\ (opts.set_ro \/ ~ opts.rw)
    /\ pc' = "close" /\ retval' = "error"
    /\ UNCHANGED <<world, opt_from, opened, add_vars, was_ro, send_vars, left>>

\* A pool stays open, as it is when the first volume or snapshot of it is owned.
Opening ==
    LET pool == volume[cur.vol].pool IN
    [p \in DOMAIN opened \cup {pool} |-> IF p \in DOMAIN opened THEN opened[p] ELSE live]

dmu_objset_own ==
    /\ pc = "own"
    /\ opened' = Opening
    /\ pc' = "file"
    /\ UNCHANGED <<world, retval, opt_from, add_vars, was_ro, send_vars, left>>

\* Slip: what has failed before it was read is not reverted.
CloseAtOnce ==
    /\ pc = "own"
    /\ pc' = "close" /\ retval' = "error"
    /\ UNCHANGED <<world, opt_from, opened, add_vars, was_ro, send_vars, left>>

OwnFails ==
    /\ pc = "own"
    /\ opened' \in {opened, Opening}
    /\ pc' = "revert" /\ retval' = "error"
    /\ UNCHANGED <<world, opt_from, add_vars, was_ro, send_vars, left>>

\* do_zvol_add finds the object of the zvol, and ZVOL_open makes a file of it.
ZVOL_open ==
    /\ pc = "file"
    /\ uniq' = 0 /\ at' = 0 /\ exs' = <<>>
    /\ sent' = Append(sent, [name |-> cur, ref |-> as_ref, map |-> Blocks(cur), tree |-> Seen(cur),
                             ended |-> FALSE,
                             got |-> IF as_ref THEN Content(Seen(cur))
                                     ELSE [l \in DOMAIN Content(Seen(cur)) |-> None]])
    /\ pc' = "extents"
    /\ UNCHANGED <<world, retval, opt_from, opened, add_vars, was_ro, owner, left>>

Size == Cardinality(DOMAIN Last(sent).got)

NextExtents ==
    /\ pc = "extents" /\ exs = <<>> /\ at < Size
    /\ LET map == ZVOL_nextExtents(DNode(cur), at, uniq) IN
         /\ map.out # <<>>
         /\ exs' = map.out
         /\ uniq' = map.uniq
    /\ UNCHANGED <<world, pc, retval, opt_from, opened, add_vars, was_ro, at, owner, sent, left>>

\* What is before the next extent is a hole; of the extent itself each byte is sent
\* or, if it is shared and was seen, copied from its owner (FiesWriter_sendExtent).
SendExtent ==
    /\ pc = "extents" /\ exs # <<>>
    /\ LET e   == Head(exs)
           f   == Len(sent)
           l2  == e.logical .. e.logical + e.length - 1
           place(l) == <<volume[cur.vol].pool, e.device, e.physical + l - e.logical>>
           known == {l \in l2 : e.shared /\ place(l) \in DOMAIN owner}
           new == {place(l) : l \in {k \in l2 \ known : e.shared}}
           Received(l) ==
             CASE l \in at .. e.logical - 1 -> Zero
               [] l \in known   -> sent[owner[place(l)].file].got[owner[place(l)].logical]
               [] l \in l2 \ known -> Content(Blocks(cur))[l]
               [] OTHER -> Last(sent).got[l]
       IN  /\ owner' = [x \in DOMAIN owner \cup new |->
                          IF x \in new THEN [file |-> f, logical |-> e.logical + x[3] - e.physical]
                          ELSE owner[x]]
           /\ sent' = IF as_ref THEN sent
                      ELSE [sent EXCEPT ![f].got = [l \in DOMAIN @ |-> Received(l)]]
           /\ at' = e.logical + e.length
    /\ exs' = Tail(exs)
    /\ UNCHANGED <<world, pc, retval, opt_from, opened, add_vars, was_ro, uniq, left>>

\* The rest is a hole.
EndFile ==
    /\ pc = "extents" /\ exs = <<>>
    /\ at = Size \/ ZVOL_nextExtents(DNode(cur), at, uniq).out = <<>>
    /\ sent' = [sent EXCEPT ![Len(sent)].ended = TRUE,
                            ![Len(sent)].got = [l \in DOMAIN @ |-> IF as_ref \/ l < at THEN @[l] ELSE Zero]]
    /\ pc' = "revert"
    /\ UNCHANGED <<world, retval, opt_from, opened, add_vars, was_ro, uniq, at, exs, owner, left>>

\* No object of a zvol is found, its device cannot be opened, a block not be read (also
\* one of block pointers that is used for something else meanwhile), or the stream not
\* be written.
FileFails ==
    /\ pc \in {"file", "extents"}
    /\ pc' = "revert" /\ retval' = "error"
    /\ UNCHANGED <<world, opt_from, opened, add_vars, was_ro, send_vars, left>>

HasToRevert == opts.set_ro /\ IsVol /\ ~ was_ro

Revert ==
    /\ pc = "revert"
    /\ readonly' = IF HasToRevert THEN [readonly EXCEPT ![cur.vol] = FALSE] ELSE readonly
    /\ pc' = "close"
    /\ UNCHANGED <<volume, opts, live, writes, retval, opt_from, opened, add_vars, was_ro, send_vars, left>>

\* A message says so.
RevertFails ==
    /\ pc = "revert" /\ HasToRevert
    /\ left' = left \cup {cur.vol}
    /\ pc' = "close"
    /\ UNCHANGED <<world, retval, opt_from, opened, add_vars, was_ro, send_vars>>

\* zvol_add returns: to the iteration of snapshots, which goes on if it has failed, or
\* to main, which does not.
Close ==
    /\ pc = "close"
    /\ pc' = CASE iter # None -> "snapshots"
               [] iter = None /\ retval = "none" -> "args"
               [] OTHER -> "exited"
    /\ UNCHANGED <<world, retval, opt_from, opened, add_vars, was_ro, send_vars, left>>
------------------------------------------------------------------------------
Init ==
    /\ \E c \in Cases :
         /\ volume = c.volume /\ opts = c.opts
         /\ live = [v \in DOMAIN volume |-> Last(volume[v].maps)]
         /\ readonly = [v \in DOMAIN volume |-> volume[v].readonly]
    /\ writes = 0
    /\ pc = "options" /\ retval = "none" /\ opt_from = None /\ opened = <<>>
    /\ added = 0 /\ zvols_done = {} /\ cur = None /\ iter = None
    /\ as_ref = FALSE /\ was_ro = FALSE
    /\ uniq = 0 /\ at = 0 /\ exs = <<>> /\ owner = <<>> /\ sent = <<>>
    /\ left = {}

Next ==
    \/ CheckOptions \/ zvol_add \/ AddFails \/ AllAdded
    \/ PassSnapshot \/ zvol_addsnap \/ ErrorIsKept \/ IterationEnds \/ SnapshotsDone
    \/ CheckProperty \/ PropertyFails \/ dmu_objset_own \/ OwnFails
    \/ ZVOL_open \/ NextExtents \/ SendExtent \/ EndFile \/ FileFails
    \/ Revert \/ RevertFails \/ Close
    \/ OtherWrites

Spec == Init /\ [][Next]_vars
------------------------------------------------------------------------------
\* No block of the first f files took less room in the pool than it has bytes.
Uncompressed(f) ==
    \A g \in 1 .. f : \A bp \in Range(sent[g].map) \ {Hole} : bp.plain => bp.asize = BlockSize

\* The blocks of what was sent were those that the program had for it, and all of it
\* was written.
AsRead(f) == sent[f].tree = sent[f].map /\ sent[f].ended

\* What a receiver has of a volume or snapshot that was finished, through all copies,
\* is what was in it, although volumes of the pool are written to all the time, what
\* was sent before among them: unless it, or one before it, was written to after its
\* pool was opened and before it was sent (see ContentsStayRight), or one before it was
\* broken off, or blocks of what was sent were compressed (see CompressedIsRight).
ContentsAreRight ==
    \A f \in DOMAIN sent :
      Uncompressed(f) /\ (\A g \in 1 .. f : AsRead(g)) => sent[f].got = Content(sent[f].map)

\* "it is recommended to put them in read-only mode for the duration of the process.
\* This can be automated with this option" (doc/fies-zvol.options:45-47): with the
\* option, what is sent is right whatever is written to a volume before it is its turn.
ContentsStayRight ==
    \A f \in DOMAIN sent :
      Uncompressed(f) /\ (\A g \in 1 .. f : sent[g].ended) => sent[f].got = Content(sent[f].map)

\* "This allows archiving or converting ZFS zvols and their snapshots"
\* (doc/fies-zvol.rst.in:22): also if blocks are compressed, whose physical extents
\* ZVOL_mapBP makes as long as their logical ones.
CompressedIsRight ==
    \A f \in DOMAIN sent :
      sent[f].ended /\ writes = 0 => sent[f].got = Content(sent[f].map)

\* The snapshots asked for: by default all, otherwise those from --from to --to.
From == IF opts.from = Empty THEN None ELSE opts.from

FirstAsked(v) == CASE From = None -> 1
                   [] From # None /\ Exists(v, From) -> Index(v, From)
                   [] OTHER -> Len(Snaps(v)) + 1
Ends(v)       == Exists(v, opts.to) /\ Index(v, opts.to) >= FirstAsked(v)
LastAsked(v)  == IF Ends(v) THEN Index(v, opts.to) ELSE Len(Snaps(v))

Snapshot(v, k) == [vol |-> v, snap |-> Snaps(v)[k]]

\* What is to be sent for a volume or snapshot given: after these the volume itself
\* if --to is none of them.
Asked(name) ==
    IF name.snap # Self \/ ~ opts.snapshots THEN {name}
    ELSE {Snapshot(name.vol, k) : k \in FirstAsked(name.vol) .. LastAsked(name.vol)}
         \cup (IF Ends(name.vol) THEN {} ELSE {name})

AllAsked == UNION {Asked(a) : a \in Range(opts.args)}

\* An empty --to, which should name no last snapshot, takes --from away.
FromIsLost == opts.to = Empty /\ From # None

\* Nothing is sent that was not asked for, and nothing twice; the snapshot of --from is
\* the only reference, unless it is what was given; and when the program ends well all
\* is there, whichever of the volumes and snapshots are given twice or in whatever order
\* and whatever fails: but with an empty --to (see FromIsReference).
AskedIsSentOnce ==
    /\ \A f \in DOMAIN sent :
         /\ sent[f].name \in AllAsked \/ FromIsLost
         /\ sent[f].ref <=> sent[f].name.snap = From /\ sent[f].name \notin Range(opts.args)
                             /\ ~ FromIsLost
         /\ \A g \in 1 .. f - 1 : sent[g].name # sent[f].name
    /\ pc = "exited" /\ retval = "none" =>
         \A name \in AllAsked : \E f \in DOMAIN sent : sent[f].name = name /\ sent[f].ended

\* "This snapshot will be considered a reference snapshot. Its contents will not be
\* written to the output stream" (doc/fies-zvol.options:66-67).
FromIsReference ==
    \A f \in DOMAIN sent :
      sent[f].name.snap = From /\ sent[f].name \notin Range(opts.args) => sent[f].ref

\* "After the volume has been read its read-write status will be reverted to its
\* original state" (doc/fies-zvol.options:48-49): whatever fails, and wherever the
\* program is killed, no volume is read-only that was not but the one being read,
\* unless it was said so.
ReadOnlyIsReverted ==
    \A v \in DOMAIN volume :
      readonly[v] # volume[v].readonly =>
        v \in left \/ (v = cur.vol /\ pc \in {"own", "file", "extents", "revert"})
==============================================================================
