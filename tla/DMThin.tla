------------------------------- MODULE DMThin --------------------------------
(***************************************************************************)
(* fies-dmthin: volumes of thin pools, one after the other, into a stream, *)
(* while other programs use the pools.                                     *)
(*                                                                         *)
(* The metadata of a pool can only be read while a snapshot of them is     *)
(* reserved, which one program at a time may do.  The data are read from   *)
(* the volumes as they are: those given must not be written to (doc/       *)
(* fies-dmthin.rst.in:26), but volumes they share blocks with may be.      *)
(* The raw mode, for a pool that is not active, reserves nothing.          *)
(*                                                                         *)
(* A byte of a block is named by the block, what was written to it last    *)
(* and where in it it is.  Of the writer only its promise is used: shared  *)
(* extents that were sent are copied from their owner (see ExtentOwner),   *)
(* and what lies between two extents is a hole.                            *)
(***************************************************************************)
EXTENDS ThinMap, Functions, FiniteSets

CONSTANTS Volumes,  \* bound: the volumes of all pools are 1 .. Volumes
          Blocks,   \* bound: blocks of a volume
          Phys,     \* the blocks of a pool's data device
          Pool,     \* the pools
          Nothing, Zero

Vol == 1 .. Volumes

VARIABLES
    \* the pools
    pool,      \* the pool of each volume
    size,      \* the size of each volume
    shape,     \* how the trees are laid out, see NodeAt
    maps,      \* the block each block of a volume is mapped to
    disk,      \* what was written last to each block of each pool
    held,      \* who has reserved each pool's metadata, and what they were
    \* the program
    args,      \* the volumes given
    raw, opt_incremental,
    pc, after, \* where it is, and where it goes on after ThinMeta_release
    i,         \* volumes begun
    cur,       \* the pool of the current one
    table,     \* the pools it has opened, with the writer's device for each
    release,   \* self->release of each pool's ThinMeta
    dmthin,    \* the mappings FiesDMThin_new has found
    ref,       \* whether the current volume is the reference
    at, exs,   \* how far it was sent, and the extents to be sent
    \* the stream and the receiver
    owner,     \* where each physical byte was sent, see ExtentOwner
    got,       \* what a receiver has of each volume given
    ended,     \* the volumes whose FILE_END was sent
    \* what happened
    warned,    \* "You must run the following command to clean up"
    late       \* a signal has interrupted the program between a message and
               \* its flag, or while it cleans up

pool_vars == <<pool, size, shape, maps, disk>>
arg_vars  == <<args, raw>>
send_vars == <<ref, at, exs, owner, got, ended>>
vars == <<pool_vars, held, arg_vars, opt_incremental, pc, after, i, cur, table, release, dmthin,
          send_vars, warned, late>>

Block == 0 .. Blocks - 1

\* The nodes a tree may have.
NodesPerTree == Blocks + Volumes + 1

ASSUME SizesAssumption ==
    /\ Volumes \in Nat /\ Blocks \in Nat /\ MaxNode = (Volumes + 1) * NodesPerTree - 1
    /\ Phys \subseteq Nat /\ Nothing \notin Phys

Mapping == [Block -> Phys \cup {Nothing}]

Nobody == [by |-> "nobody"]
------------------------------------------------------------------------------
\* The metadata of the mappings in m.  Tree 0 has the devices, tree v the blocks
\* of volume v.  A leaf has up to shape.room entries; the keys of an internal
\* node are those its leaves begin with or, after a discard, the lowest
\* possible ones.
\* The entries of the first n blocks of a volume whose mapping is f.
MappedOf(f) ==
    LET first[n \in 0 .. Blocks] ==
          IF n = 0 THEN <<>>
          ELSE IF f[n - 1] = Nothing THEN first[n - 1]
          ELSE Append(first[n - 1], <<n - 1, f[n - 1] * TimeSize + 1>>)
    IN  first[Blocks]

TreeEntries(m, t) ==
    IF t = 0 THEN [v \in Vol |-> <<v, v * NodesPerTree>>] ELSE MappedOf(m[t])

NodeAt(entries, base, n) ==
    LET leaves == (Len(entries) + shape.room - 1) \div shape.room
        cut(k) == IF k * shape.room < Len(entries) THEN k * shape.room ELSE Len(entries)
        leaf(lo, hi) == [internal |-> FALSE, keys |-> [j \in 1 .. hi - lo |-> entries[lo + j][1]],
                         values |-> [j \in 1 .. hi - lo |-> entries[lo + j][2]]]
        lowest(k) == IF ~ shape.low THEN entries[cut(k - 1) + 1][1]
                     ELSE IF k = 1 THEN 0 ELSE entries[cut(k - 1)][1] + 1
    IN  IF n > 0 THEN leaf(cut(n - 1), cut(n))
        ELSE IF leaves <= 1 THEN leaf(0, Len(entries))
        ELSE [internal |-> TRUE, keys |-> [k \in 1 .. leaves |-> lowest(k)],
              values |-> [k \in 1 .. leaves |-> base + k]]

Metadata(m) ==
    [b \in 0 .. MaxNode |->
       LET t == b \div NodesPerTree IN
       NodeAt(TreeEntries(m, t), t * NodesPerTree, b % NodesPerTree)]

\* ThinMeta_map from position l of volume v on, to the end: the length it asks
\* for, 2^64 - 1, is more than any number of a node.
ThinMeta_map(v, l) ==
    FiesDMThin_mapExtents(Metadata(dmthin), 0, v, l, (MaxNode + 1) * BlockSize)

\* Byte l of volume v, as the device mapper has it, or as the data device has it
\* where the metadata of "dmthin" say.
ByteAt(v, p, l) ==
    IF p = Nothing THEN Zero
    ELSE [pool |-> pool[v], block |-> p, written |-> disk[pool[v]][p], offset |-> l % BlockSize]

LiveByte(v, l) == ByteAt(v, maps[v][l \div BlockSize], l)
------------------------------------------------------------------------------
\* The other programs.
Given(v) == v \in Range(args)

Users(p, b) == {x \in Vol \X Block : pool[x[1]] = p /\ maps[x[1]][x[2]] = b}

\* A pool that is not active is not used.  Bound: nothing happens any more when
\* the program has gone.
OthersRun == ~ raw /\ pc \notin {"exited", "killed"}

\* A volume that was not given is written to: in place unless its block is
\* shared or not there yet.
OtherWrites ==
    /\ OthersRun
    /\ \E w \in {x \in Vol : ~ Given(x)}, b \in Block :
         LET p == pool[w]
             old == maps[w][b]
             inplace == old # Nothing /\ Users(p, old) = {<<w, b>>}
         IN  b * BlockSize < size[w] /\  \E new \in IF inplace THEN {old} ELSE {x \in Phys : Users(p, x) = {}} :
               /\ maps' = [maps EXCEPT ![w][b] = new]
               /\ disk' = [disk EXCEPT ![p][new] = "other"]
    /\ UNCHANGED <<pool, size, shape, held, arg_vars, opt_incremental, pc, after, i, cur, table,
                   release, dmthin, send_vars, warned, late>>

OtherDiscards ==
    /\ OthersRun
    /\ \E w \in {x \in Vol : ~ Given(x)}, b \in Block :
         /\ maps[w][b] # Nothing
         /\ maps' = [maps EXCEPT ![w][b] = Nothing]
    /\ UNCHANGED <<pool, size, shape, disk, held, arg_vars, opt_incremental, pc, after, i, cur,
                   table, release, dmthin, send_vars, warned, late>>

\* Bound: they reserve the metadata of one pool at a time.
OtherReserves ==
    /\ OthersRun
    /\ \A p \in Pool : held[p].by # "other"
    /\ \E p \in Pool :
         /\ held[p] = Nobody
         /\ held' = [held EXCEPT ![p] = [by |-> "other", maps |-> maps]]
    /\ UNCHANGED <<pool_vars, arg_vars, opt_incremental, pc, after, i, cur, table, release, dmthin,
                   send_vars, warned, late>>

OtherReleases ==
    /\ OthersRun
    /\ \E p \in Pool :
         /\ held[p].by = "other"
         /\ held' = [held EXCEPT ![p] = Nobody]
    /\ UNCHANGED <<pool_vars, arg_vars, opt_incremental, pc, after, i, cur, table, release, dmthin,
                   send_vars, warned, late>>

Others == OtherWrites \/ OtherDiscards \/ OtherReserves \/ OtherReleases
------------------------------------------------------------------------------
\* The program.
v == args[i]

\* The ThinMeta of a pool, which has one device of the writer.
\* Slip: there is one device for all pools.
AddToOneDevice(p) == IF p \in DOMAIN table THEN table ELSE [q \in DOMAIN table \cup {p} |-> 1]

\* ThinMetaTable_addPool.
ThinMetaTable_addPool(p) ==
    IF p \in DOMAIN table THEN table
    ELSE [q \in DOMAIN table \cup {p} |->
            IF q = p THEN Cardinality(DOMAIN table) + 1 ELSE table[q]]

\* main goes on with the next volume, or to "out".
Goto(where) ==
    IF where = "destroy" THEN pc' = "release" /\ after' = "cleanup"
    ELSE pc' = where /\ UNCHANGED after

\* ThinMeta_release is called, on the way to where; a volume of the raw mode
\* has nothing to release.
ReleaseThen(where) ==
    IF raw THEN Goto(where) ELSE pc' = "release" /\ after' = where

\* ThinMeta_loadRoot for the metadata device of the raw mode.
LoadRaw ==
    /\ pc = "loadraw"
    /\ table' = ThinMetaTable_addPool(pool[args[1]])
    /\ cur' = pool[args[1]]
    /\ \/ /\ dmthin' = IF held[cur'] = Nobody THEN maps ELSE held[cur'].maps
          /\ pc' = "volume"
       \/ pc' = "cleanup" /\ UNCHANGED dmthin
    /\ UNCHANGED <<pool_vars, held, arg_vars, opt_incremental, after, i, release, send_vars,
                   warned, late>>

\* DMThinVolume_open up to ThinMeta_loadRoot, or OpenThinVolume.
OpenVolume ==
    /\ pc = "volume" /\ i < Len(args)
    /\ i' = i + 1
    /\ table' = ThinMetaTable_addPool(pool[args[i + 1]])
    /\ cur' = pool[args[i + 1]]
    /\ pc' = IF raw THEN "file" ELSE "reserve"
    /\ UNCHANGED <<pool_vars, held, arg_vars, opt_incremental, after, release, dmthin, send_vars,
                   warned, late>>

\* It fails before or after the pool was added.
OpenFails ==
    /\ pc = "volume" /\ i < Len(args)
    /\ table' \in {table, ThinMetaTable_addPool(pool[args[i + 1]])}
    /\ pc' = "cleanup"
    /\ UNCHANGED <<pool_vars, held, arg_vars, opt_incremental, after, i, cur, release, dmthin,
                   send_vars, warned, late>>

AllDone ==
    /\ pc = "volume" /\ i = Len(args)
    /\ pc' = "cleanup"
    /\ UNCHANGED <<pool_vars, held, arg_vars, opt_incremental, after, i, cur, table, release,
                   dmthin, send_vars, warned, late>>
------------------------------------------------------------------------------
\* ThinMeta_loadRoot.  The message of reserving, and then its flag.
ReserveMessage ==
    /\ pc = "reserve" /\ ~ release[cur]
    /\ held[cur] = Nobody
    /\ held' = [held EXCEPT ![cur] = [by |-> "me", maps |-> maps]]
    /\ pc' = "reserved"
    /\ UNCHANGED <<pool_vars, arg_vars, opt_incremental, after, i, cur, table, release, dmthin,
                   send_vars, warned, late>>

\* Slip: the volume is read although nothing was reserved.
GoesOnUnreserved ==
    /\ pc = "reserve"
    /\ pc' = "load"
    /\ UNCHANGED <<pool_vars, held, arg_vars, opt_incremental, after, i, cur, table, release,
                   dmthin, send_vars, warned, late>>

\* The message fails, or the last snapshot could not be released (EBUSY).
\* DMTV_destroy then releases what the ThinMeta says is reserved.
ReserveFails ==
    /\ pc = "reserve"
    /\ ReleaseThen("cleanup")
    /\ UNCHANGED <<pool_vars, held, arg_vars, opt_incremental, i, cur, table, release, dmthin,
                   send_vars, warned, late>>

NoteReserved ==
    /\ pc = "reserved"
    /\ release' = [release EXCEPT ![cur] = TRUE]
    /\ pc' = "load"
    /\ UNCHANGED <<pool_vars, held, arg_vars, opt_incremental, after, i, cur, table, dmthin,
                   send_vars, warned, late>>

\* FiesDMThin_new: the metadata are those of the snapshot, if there is one.
FiesDMThin_new ==
    /\ pc = "load"
    /\ dmthin' = IF held[cur] = Nobody THEN maps ELSE held[cur].maps
    /\ pc' = "file"
    /\ UNCHANGED <<pool_vars, held, arg_vars, opt_incremental, after, i, cur, table, release,
                   send_vars, warned, late>>

\* ThinMeta_loadRoot releases, and so does DMTV_destroy if that has failed.
LoadFails ==
    /\ pc = "load"
    /\ ReleaseThen("destroy")
    /\ UNCHANGED <<pool_vars, held, arg_vars, opt_incremental, i, cur, table, release, dmthin,
                   send_vars, warned, late>>
------------------------------------------------------------------------------
\* The end of DMThinVolume_open, and handleAndCloseFile up to the file's header.
\* The receiver has its own copy of a reference.
BeginFile ==
    /\ pc = "file"
    /\ ref' = opt_incremental /\ opt_incremental' = FALSE
    /\ at' = 0 /\ exs' = <<>>
    /\ got' = Append(got, [l \in 0 .. size[v] - 1 |-> IF ref' THEN LiveByte(v, l) ELSE Nothing])
    /\ pc' = "extents"
    /\ UNCHANGED <<pool_vars, held, arg_vars, after, i, cur, table, release, dmthin, owner, ended,
                   warned, late>>

MapExtents ==
    /\ pc = "extents" /\ exs = <<>> /\ at # size[v]
    /\ LET map == ThinMeta_map(v, at) IN
         /\ map.error = "none" /\ map.extents # <<>>
         /\ exs' = map.extents
    /\ UNCHANGED <<pool_vars, held, arg_vars, opt_incremental, pc, after, i, cur, table, release,
                   dmthin, ref, at, owner, got, ended, warned, late>>

Smaller(x, y) == IF x < y THEN x ELSE y

\* The bytes of the volume, read at their logical position or, in the raw mode,
\* at the physical position p.
Read(l, p) == IF raw THEN ByteAt(v, p \div BlockSize, l) ELSE LiveByte(v, l)

\* What is before the next extent is a hole; of the extent itself each byte is
\* sent, or copied from its owner (FiesWriter_sendExtent).  A volume that was
\* made smaller has extents that begin behind its end: the hole before such a
\* one is refused ("hole tracked past EOF"), and where there is none, in a
\* reference, the length of the rest wraps, and is negative as the result that
\* is looked at: both are an error (FileFails).
SendExtent ==
    /\ pc = "extents" /\ exs # <<>>
    /\ Head(exs).logical <= size[v]
    /\ LET e     == Head(exs)
           end   == Smaller(e.logical + e.length, size[v])
           place(l) == <<table[cur], e.physical + l - e.logical>>
           own(l) == [volume |-> i, logical |-> l]
           new   == {l \in e.logical .. end - 1 : place(l) \notin DOMAIN owner}
       IN  /\ owner' = [x \in DOMAIN owner \cup {place(l) : l \in new} |->
                          IF x \in DOMAIN owner THEN owner[x]
                          ELSE own(CHOOSE l \in new : place(l) = x)]
           /\ got' = IF ref THEN got
                     ELSE [got EXCEPT ![i] = [l \in DOMAIN @ |->
                            IF l \in at .. e.logical - 1 THEN Zero
                            ELSE IF l \in new THEN Read(l, place(l)[2])
                            ELSE IF l \in e.logical .. end - 1
                            THEN got[owner[place(l)].volume][owner[place(l)].logical]
                            ELSE @[l]]]
           /\ at' = end
    /\ exs' = Tail(exs)
    /\ UNCHANGED <<pool_vars, held, arg_vars, opt_incremental, pc, after, i, cur, table, release,
                   dmthin, ref, ended, warned, late>>

\* The rest is a hole; FILE_END, and the list of snapshots with the first file.
EndFile ==
    /\ pc = "extents" /\ exs = <<>>
    /\ at = size[v] \/ ThinMeta_map(v, at) = [error |-> "none", extents |-> <<>>]
    /\ got' = IF ref THEN got
              ELSE [got EXCEPT ![i] = [l \in DOMAIN @ |-> IF l >= at THEN Zero ELSE @[l]]]
    /\ ended' = ended \cup {i}
    /\ \E where \in IF i = 1 THEN {"volume", "cleanup"} ELSE {"volume"} : ReleaseThen(where)
    /\ UNCHANGED <<pool_vars, held, arg_vars, opt_incremental, i, cur, table, release, dmthin,
                   ref, at, exs, owner, warned, late>>

\* FiesFile_new, a callback or a write to the stream fails, or the writer refuses
\* an extent that begins behind the end.
FileFails ==
    /\ pc \in {"file", "extents"}
    /\ ReleaseThen("cleanup")
    /\ UNCHANGED <<pool_vars, held, arg_vars, opt_incremental, i, cur, table, release, dmthin,
                   send_vars, warned, late>>
------------------------------------------------------------------------------
\* ThinMeta_release: its message, which may fail, and then its flag.
NothingToRelease ==
    /\ pc = "release" /\ ~ release[cur]
    /\ Goto(after)
    /\ UNCHANGED <<pool_vars, held, arg_vars, opt_incremental, i, cur, table, release, dmthin,
                   send_vars, warned, late>>

\* Slip: whatever is reserved is released.
ReleaseAnything ==
    /\ pc = "release"
    /\ held[cur] # Nobody
    /\ held' = [held EXCEPT ![cur] = Nobody]
    /\ pc' = "released"
    /\ UNCHANGED <<pool_vars, arg_vars, opt_incremental, after, i, cur, table, release, dmthin,
                   send_vars, warned, late>>

ReleaseMessage ==
    /\ pc = "release" /\ release[cur]
    /\ held[cur] # Nobody
    /\ held' = [held EXCEPT ![cur] = Nobody]
    /\ pc' = "released"
    /\ UNCHANGED <<pool_vars, arg_vars, opt_incremental, after, i, cur, table, release, dmthin,
                   send_vars, warned, late>>

ReleaseFails ==
    /\ pc = "release" /\ release[cur]
    /\ warned' = TRUE
    /\ Goto(after)
    /\ UNCHANGED <<pool_vars, held, arg_vars, opt_incremental, i, cur, table, release, dmthin,
                   send_vars, late>>

NoteReleased ==
    /\ pc = "released"
    /\ release' = [release EXCEPT ![cur] = FALSE]
    /\ Goto(after)
    /\ UNCHANGED <<pool_vars, held, arg_vars, opt_incremental, i, cur, table, dmthin, send_vars,
                   warned, late>>

\* cleanupDevices, or the end of main: ThinMeta_delete of what is in the table.
Cleaning == pc = "cleaning" \/ (pc \in {"release", "released"} /\ after = "cleaning")

CleanUp ==
    /\ pc \in {"cleanup", "cleaning"} /\ DOMAIN table # {}
    /\ \E p \in DOMAIN table :
         /\ table' = [q \in DOMAIN table \ {p} |-> table[q]]
         /\ cur' = p
    /\ pc' = "release" /\ after' = "cleaning"
    /\ UNCHANGED <<pool_vars, held, arg_vars, opt_incremental, i, release, dmthin, send_vars,
                   warned, late>>

Exit ==
    /\ pc \in {"cleanup", "cleaning"} /\ DOMAIN table = {}
    /\ pc' = "exited"
    /\ UNCHANGED <<pool_vars, held, arg_vars, opt_incremental, after, i, cur, table, release,
                   dmthin, send_vars, warned, late>>

Gone == pc \in {"exited", "killed"}

\* Slip: the program is left without cleaning up.
ExitOnSignal ==
    /\ ~ Gone /\ ~ Cleaning
    /\ late' = (late \/ pc \in {"reserved", "released"})
    /\ pc' = "exited"
    /\ UNCHANGED <<pool_vars, held, arg_vars, opt_incremental, after, i, cur, table, release,
                   dmthin, send_vars, warned>>

\* SIGINT, SIGTERM or SIGQUIT.
HandleSignal ==
    /\ ~ Gone /\ ~ Cleaning
    /\ late' = (late \/ pc \in {"reserved", "released"})
    /\ pc' = "cleaning"
    /\ UNCHANGED <<pool_vars, held, arg_vars, opt_incremental, after, i, cur, table, release,
                   dmthin, send_vars, warned>>

\* Any other signal; or one of those while the table is being destroyed, which
\* the handler then destroys again.
Kill ==
    /\ ~ Gone
    /\ pc' = "killed"
    /\ UNCHANGED <<pool_vars, held, arg_vars, opt_incremental, after, i, cur, table, release,
                   dmthin, send_vars, warned, late>>
------------------------------------------------------------------------------
Program ==
    \/ LoadRaw \/ OpenVolume \/ OpenFails \/ AllDone
    \/ ReserveMessage \/ ReserveFails \/ NoteReserved \/ FiesDMThin_new \/ LoadFails
    \/ BeginFile \/ MapExtents \/ SendExtent \/ EndFile \/ FileFails
    \/ NothingToRelease \/ ReleaseMessage \/ ReleaseFails \/ NoteReleased \/ CleanUp \/ Exit

Next == Program \/ HandleSignal \/ Kill \/ Others

CONSTANT Cases  \* the pools and volumes there may be, how their trees are laid
                \* out, and the volumes the program is given

ASSUME CasesAssumption ==
    \A c \in Cases :
      /\ c.pool \in [Vol -> Pool] /\ c.args \in Seq(Vol) \ {<<>>}
      /\ c.maps \in [Vol -> Mapping] /\ c.size \in [Vol -> 0 .. Blocks * BlockSize]
      /\ c.shape.room \in Nat \ {0} /\ c.shape.low \in BOOLEAN

Init ==
    /\ \E c \in Cases :
         /\ pool = c.pool /\ size = c.size /\ maps = c.maps
         /\ shape = c.shape /\ args = c.args
    /\ disk = [p \in Pool |-> [b \in Phys |-> "first"]]
    /\ \/ held = [p \in Pool |-> Nobody]
       \/ \E c \in Cases :
            held = [p \in Pool |-> IF p = pool[1] THEN [by |-> "gone", maps |-> c.maps] ELSE Nobody]
    /\ raw \in BOOLEAN /\ opt_incremental \in BOOLEAN
    /\ raw => \A k \in DOMAIN args : pool[args[k]] = pool[args[1]]
    /\ pc = IF raw THEN "loadraw" ELSE "volume"
    /\ after = "volume"
    /\ i = 0
    /\ cur = pool[args[1]]
    /\ table = [p \in {} |-> 0]
    /\ release = [p \in Pool |-> FALSE]
    /\ dmthin = maps
    /\ ref = FALSE
    /\ at = 0 /\ exs = <<>>
    /\ owner = [x \in {} |-> 0]
    /\ got = <<>> /\ ended = {}
    /\ warned = FALSE /\ late = FALSE

Spec == Init /\ [][Next]_vars

\* The program's own code runs; nothing else has to.
FairSpec == Spec /\ WF_vars(Program)
------------------------------------------------------------------------------
\* The types of the variables that say what is reserved, and where the program is.
TypeOK ==
    /\ pool \in [Vol -> Pool] /\ args \in Seq(Vol) /\ args # <<>> /\ i \in 0 .. Len(args)
    /\ pc \in {"loadraw", "volume", "reserve", "reserved", "load", "file", "extents", "release",
               "released", "cleanup", "cleaning", "exited", "killed"}
    /\ after \in {"volume", "destroy", "cleanup", "cleaning"}
    /\ cur \in Pool
    /\ DOMAIN table \subseteq Pool
    /\ release \in [Pool -> BOOLEAN]
    /\ warned \in BOOLEAN /\ late \in BOOLEAN /\ raw \in BOOLEAN

\* Wherever the writer asks from, the extents it is given are the mapped bytes
\* from there on, in order and up to where there was no more room for them,
\* whatever the trees look like.
MapsWhatIsMapped ==
    pc = "extents" =>
      \A l \in 0 .. size[v] - 1 :
        LET map == ThinMeta_map(v, l)
            exts == map.extents
            end == IF Len(exts) = ExtentRoom THEN Last(exts).logical + Last(exts).length
                   ELSE Blocks * BlockSize
            mapped == {x \in l .. end - 1 : dmthin[v][x \div BlockSize] # Nothing}
        IN  /\ map.error = "none"
            /\ mapped = UNION {exts[k].logical .. exts[k].logical + exts[k].length - 1 :
                                 k \in DOMAIN exts}
            /\ \A k \in DOMAIN exts : \A x \in 0 .. exts[k].length - 1 :
                 LET y == exts[k].logical + x IN
                 exts[k].physical + x = dmthin[v][y \div BlockSize] * BlockSize + (y % BlockSize)
            /\ \A k \in 1 .. Len(exts) - 1 :
                 exts[k].logical + exts[k].length <= exts[k + 1].logical

\* No pool is read raw with the metadata a program has left reserved in it.
Stale == raw /\ held[cur] # Nobody /\ held[cur].maps # maps

\* What a receiver has of a volume that was finished is what is in the volume,
\* although the others of its pool are written to, and whichever of them it
\* shares blocks with: no copy refers to a block that has become another's.
VolumesAreRight ==
    ~ Stale =>
      \A k \in ended : \A l \in 0 .. size[args[k]] - 1 : got[k][l] = LiveByte(args[k], l)

\* The metadata are only read while this program has them reserved.
MetadataAreHeld ==
    pc \in {"load", "file", "extents"} /\ ~ raw => held[cur].by = "me"

\* When the program ends, also by a signal it handles, it leaves no metadata
\* reserved, unless it says so or was interrupted where it does not know.
NoneLeftReserved ==
    pc = "exited" /\ ~ warned /\ ~ late => \A p \in Pool : held[p].by # "me"

\* What another program has reserved is not released by this one, with the same
\* exception.
OthersKeepTheirs ==
    [][\A p \in Pool : held[p].by \in {"other", "gone"} /\ ~ late =>
         held'[p] = held[p] \/ OtherReleases]_vars

\* "After a terminating signal atexit() should still be called and then we can
\* use this to cleanup after reserved metadata snapshots"
\* (src/fies-dmthin/fies_dmthin.c:646-647).
SignalsCleanUp ==
    Gone /\ ~ warned => \A p \in Pool : held[p].by # "me"

\* No extent begins behind the end of its volume: "sanity check - this should
\* never happen" (src/lib/fies_writer.c:750).
NoneIsPastTheEnd == pc = "extents" /\ exs # <<>> => Head(exs).logical <= size[v]
==============================================================================
