------------------------------- MODULE Extract -------------------------------
(***************************************************************************)
(* fies -x and fies -t: the callbacks FiesReader calls for the items of a  *)
(* stream (src/fies_extract.c).  A call of FiesReader that takes several   *)
(* packets of one item, and those of a stream it refuses, are its own.     *)
(*                                                                         *)
(* The tree that is written is a function from paths to its directories    *)
(* and to its other files' nodes; a node has as many names as lead to it.  *)
(* Names are not transformed, owners and extended attributes left out.     *)
(***************************************************************************)
EXTENDS Archive, TLC

CONSTANTS BlockSize, Directory, NoHandle

VARIABLES opts, stream  \* see Create

VARIABLES
    tree,     \* Directory, or the node each path leads to
    nodes,    \* all nodes there ever were: their types, bytes, targets and times
    handles,  \* what the callbacks made of each file id so far
    xpc,
    at,       \* the item to take, or being taken
    ext,      \* its next extent
    listed,   \* the paths that were shown
    xrc

extract_vars == <<tree, nodes, handles, xpc, at, ext, listed, xrc>>

Node(type, bytes, target) ==
    [type |-> type, bytes |-> bytes, target |-> target, restored |-> "no"]

FileHandle(node) ==
    [path |-> stream[at].path, node |-> node, type |-> stream[at].kind,
     target |-> stream[at].target]

ExtractInit ==
    /\ tree = opts.tree /\ nodes = opts.nodes
    /\ handles = <<>> /\ xpc = "wait" /\ at = 1 /\ ext = 1 /\ listed = <<>> /\ xrc = "ok"

Item     == stream[at]
Excluded == opt_is_path_excluded(Heads(Item.path), opts.xinclude, opts.xexclude, FALSE)

\* An item is begun.
Take(kind) == xpc = "item" /\ at \in DOMAIN stream /\ Item.kind = kind

\* Its file gets handle h, and its packets follow.
Keep(h) == handles' = handles @@ (Item.id :> h) /\ xpc' = "extents" /\ UNCHANGED <<at, xrc>>

\* There is nothing more of it.
Pass == xpc' = "item" /\ at' = at + 1 /\ UNCHANGED xrc

\* A callback's error ends the program; FiesReader_delete closes all files.
Fail == xpc' = "closing" /\ xrc' = "failed" /\ UNCHANGED <<handles, at>>

Begin ==
    /\ xpc = "wait"
    /\ xpc' = "item"
    /\ UNCHANGED <<tree, nodes, handles, at, ext, listed, xrc>>
------------------------------------------------------------------------------
\* unlink (of no directory), make_dir_tree, and open with O_CREAT | O_EXCL, mkdir,
\* link, symlink or mknod, all of which need a directory and no file of that name.
Unlinked(p) ==
    IF p \in DOMAIN tree /\ tree[p] # Directory THEN Restrict(tree, DOMAIN tree \ {p}) ELSE tree

Parents(p) == Heads(p) \ {p}

make_dir_tree(t, p) ==
    IF \A q \in Parents(p) \cap DOMAIN t : t[q] = Directory
    THEN t @@ [q \in Parents(p) |-> Directory]
    ELSE t

IsFree(t, p) == p \notin DOMAIN t /\ \A q \in Parents(p) : q \in DOMAIN t /\ t[q] = Directory

Zeros(n) == [l \in 0 .. n - 1 |-> Zero]

\* Slip: a file that is there is opened and emptied.
PutInto(node) ==
    LET t == make_dir_tree(tree, Item.path)
        k == IF Item.path \in DOMAIN t THEN t[Item.path] ELSE Len(nodes) + 1
    IN  IF k # Directory /\ \A q \in Parents(Item.path) : t[q] = Directory
        THEN /\ tree' = t @@ (Item.path :> k)
             /\ nodes' = IF k \in DOMAIN nodes THEN [nodes EXCEPT ![k] = node] ELSE Append(nodes, node)
             /\ Keep(FileHandle(k))
        ELSE tree' = t /\ Fail /\ UNCHANGED nodes

\* A new file in the place of what had its name, if that was no directory.
Put(node) ==
    LET t == make_dir_tree(Unlinked(Item.path), Item.path) IN
    IF IsFree(t, Item.path)
    THEN /\ tree' = t @@ (Item.path :> Len(nodes) + 1)
         /\ nodes' = Append(nodes, node)
         /\ Keep(FileHandle(Len(nodes) + 1))
    ELSE tree' = t /\ Fail /\ UNCHANGED nodes

\* What is excluded gets no handle.
PassExcluded ==
    /\ \/ Take("REG") \/ Take("DIR") \/ Take("LNK") \/ Take("NOD")
    /\ opts.mode = "x" /\ Excluded
    /\ Keep(NoHandle) /\ ext' = 1
    /\ UNCHANGED <<tree, nodes, listed>>

do_create ==
    /\ Take("REG") /\ opts.mode = "x" /\ ~ Excluded
    /\ Put(Node("REG", Zeros(Item.size), None)) /\ ext' = 1
    /\ UNCHANGED listed

\* The link is made when the file is closed; a file nobody may open holds its place.
do_symlink ==
    /\ Take("LNK") /\ opts.mode = "x" /\ ~ Excluded
    /\ Put(Node("HOLD", <<>>, None)) /\ ext' = 1
    /\ UNCHANGED listed

\* The directories above it are not made first.
do_mkdir ==
    /\ Take("DIR") /\ opts.mode = "x" /\ ~ Excluded
    /\ LET t == Unlinked(Item.path)
           old == Item.path \in DOMAIN t
       IN  IF old \/ IsFree(t, Item.path)
           THEN tree' = t @@ (Item.path :> Directory) /\ Keep(FileHandle(0))
           ELSE tree' = t /\ Fail
    /\ ext' = 1
    /\ UNCHANGED <<nodes, listed>>

\* unlinkat takes the whole path, in the directory that has been opened.
do_mknod ==
    /\ Take("NOD") /\ opts.mode = "x" /\ ~ Excluded
    /\ LET p == Item.path
           old == Front(p) \o p
           made == make_dir_tree(Unlinked(old), p)
       IN  IF IsFree(made, p) /\ old \notin DOMAIN made
           THEN /\ tree' = made @@ (p :> Len(nodes) + 1)
                /\ nodes' = Append(nodes, Node("NOD", <<>>, None))
                /\ Keep(FileHandle(Len(nodes) + 1))
           ELSE tree' = made /\ Fail /\ UNCHANGED nodes
    /\ ext' = 1
    /\ UNCHANGED listed

\* A file that is there already; it may be excluded, and have another size.
do_reference ==
    /\ Take("REF") /\ opts.mode = "x"
    /\ IF Item.path \in DOMAIN tree
       THEN /\ handles' = handles @@ (Item.id :> FileHandle(tree[Item.path]))
            /\ Pass
       ELSE Fail
    /\ UNCHANGED <<tree, nodes, ext, listed>>

HasHandle(f) == f \in DOMAIN handles /\ handles[f] # NoHandle

\* The new name is unlinked before the file it is to lead to is looked up.
do_hardlink ==
    /\ Take("HARD") /\ opts.mode = "x"
    /\ CASE ~ HasHandle(Item.id) -> Fail /\ UNCHANGED tree
         [] HasHandle(Item.id) /\ Excluded -> Pass /\ UNCHANGED tree
         [] OTHER ->
              LET t == make_dir_tree(Unlinked(Item.path), Item.path)
                  src == handles[Item.id].path
              IN  IF IsFree(t, Item.path) /\ src \in DOMAIN t /\ t[src] # Directory
                  THEN tree' = t @@ (Item.path :> t[src]) /\ Pass
                  ELSE tree' = t /\ Fail
    /\ UNCHANGED <<nodes, handles, ext, listed>>
------------------------------------------------------------------------------
Extent == Item.extents[ext]
Next_extent ==
    xpc = "extents" /\ ext <= Len(Item.extents)

Handle == handles[Item.id]

\* pwrite, do_send, make_zero and do_punch_hole.
WriteExtent ==
    /\ Next_extent /\ Extent.flags # "COPY"
    /\ LET value(b) == IF b.flags = "DATA" THEN b.byte ELSE Zero IN
       nodes' =
         IF opts.mode = "t" \/ Handle = NoHandle THEN nodes
         ELSE [nodes EXCEPT ![Handle.node].bytes =
                 [l \in DOMAIN Extent.bytes |-> value(Extent.bytes[l])] @@ @]
    /\ ext' = ext + 1
    /\ UNCHANGED <<tree, handles, xpc, at, listed, xrc>>

Size(bytes) == Cardinality(DOMAIN bytes)
Up(n)   == ((n + BlockSize - 1) \div BlockSize) * BlockSize
Down(n) == (n \div BlockSize) * BlockSize

Copied(db, d, sb, s, n) == [l \in d .. d + n - 1 |-> sb[s + l - d]] @@ db

\* sendfile stops at the end of the source.
do_full_copy(db, d, sb, s, n) ==
    LET got == Min({n, Max({0, Size(sb) - s})}) IN
    [ok |-> got = n, bytes |-> Copied(db, d, sb, s, got)]

\* FICLONERANGE, of whole blocks but for the end of both files.
Clones(db, d, sb, s, n) ==
    /\ opts.clones
    /\ s % BlockSize = 0 /\ d % BlockSize = 0
    /\ s + n <= Size(sb)
    /\ n % BlockSize = 0 \/ (s + n = Size(sb) /\ d + n >= Size(db))

\* What is between blocks is copied, if it is to be cloned at all.  An extent that
\* ends before the next block loses its length there: it wraps around.
ClonedByBlocks(db, d, sb, s, n) ==
    LET first == Up(s) - s
        head  == do_full_copy(db, d, sb, s, first)
        len   == Down(n - first)
        mid   == Copied(head.bytes, d + first, sb, s + first, len)
    IN  IF ~ head.ok \/ n < first THEN [ok |-> FALSE, bytes |-> head.bytes]
        ELSE IF len = 0 \/ ~ Clones(head.bytes, d + first, sb, s + first, len)
        THEN do_full_copy(head.bytes, d + first, sb, s + first, n - first)
        ELSE do_full_copy(mid, d + first + len, sb, s + first + len, n - first - len)

\* Slip: the ways to the next blocks are taken to be the same.
CloneUnshifted(db, d, sb, s, n) ==
    IF opts.clone = "NEVER" \/ ~ opts.clones THEN do_full_copy(db, d, sb, s, n)
    ELSE IF Clones(db, d, sb, s, n) THEN [ok |-> TRUE, bytes |-> Copied(db, d, sb, s, n)]
    ELSE ClonedByBlocks(db, Up(d) - (Up(s) - s), sb, s, n)

do_clone(db, d, sb, s, n) ==
    CASE opts.clone = "NEVER" -> do_full_copy(db, d, sb, s, n)
      [] opts.clone # "NEVER" /\ Clones(db, d, sb, s, n) ->
           [ok |-> TRUE, bytes |-> Copied(db, d, sb, s, n)]
      [] opts.clone = "FORCE" /\ ~ Clones(db, d, sb, s, n) -> [ok |-> FALSE, bytes |-> db]
      [] OTHER ->
           IF ~ opts.clones \/ Up(s) - s # Up(d) - d
           THEN do_full_copy(db, d, sb, s, n)
           ELSE ClonedByBlocks(db, d, sb, s, n)

BytesOf(h) == IF h.node \in DOMAIN nodes THEN nodes[h.node].bytes ELSE <<>>

\* FiesReader_clone.  If it is the source that has no handle, do_clone reads
\* through a null pointer.
CopyExtent ==
    /\ Next_extent /\ Extent.flags = "COPY"
    /\ LET from == Extent.bytes[Extent.offset]
           result == do_clone(BytesOf(Handle), Extent.offset,
                              BytesOf(handles[from.file]), from.offset, Extent.length)
       IN  CASE from.file \notin DOMAIN handles -> Fail /\ UNCHANGED <<nodes, ext>>
             [] from.file \in DOMAIN handles /\ (opts.mode = "t" \/ Handle = NoHandle) ->
                  ext' = ext + 1 /\ UNCHANGED <<nodes, handles, xpc, at, xrc>>
             [] HasHandle(from.file) /\ opts.mode = "x" /\ Handle # NoHandle ->
                  /\ nodes' = [nodes EXCEPT ![Handle.node].bytes = result.bytes]
                  /\ IF result.ok THEN ext' = ext + 1 /\ UNCHANGED <<handles, xpc, at, xrc>>
                     ELSE Fail /\ UNCHANGED ext
             [] OTHER -> xpc' = "crashed" /\ UNCHANGED <<nodes, handles, at, ext, xrc>>
    /\ UNCHANGED <<tree, listed>>

\* do_file_done: the time of the file, which was set aside until now, is restored, or
\* a warning says that it is not; not that of a directory, which is not held open.
FileDone ==
    /\ xpc = "extents" /\ ext > Len(Item.extents)
    /\ IF opts.mode = "x" /\ Handle # NoHandle /\ Item.kind \in {"REG", "NOD"}
       THEN \E done \in opts.times :
              nodes' = [nodes EXCEPT ![Handle.node].restored = done]
       ELSE UNCHANGED nodes
    /\ Pass
    /\ UNCHANGED <<tree, handles, ext, listed>>

\* An error of any call, or of the stream.
ExtractFails ==
    /\ xpc \in {"item", "extents"}
    /\ Fail
    /\ UNCHANGED <<tree, nodes, ext, listed>>
------------------------------------------------------------------------------
\* fies -t: list_create and the others, list_meta_end, list_hardlink.
\* Slip: a reference, which no meta data follow, is not shown.
ListedByMeta(show) ==
    listed' = IF show /\ Item.kind # "REF" THEN Append(listed, Item.path) ELSE listed

Listed(show) == listed' = IF show THEN Append(listed, Item.path) ELSE listed

ListItem ==
    /\ xpc = "item" /\ at \in DOMAIN stream /\ opts.mode = "t" /\ Item.kind # "HARD"
    /\ Listed(~ Excluded)
    /\ LET h == IF Excluded THEN NoHandle ELSE FileHandle(0) IN
       IF Item.kind = "REF" THEN handles' = handles @@ (Item.id :> h) /\ Pass
       ELSE Keep(h)
    /\ ext' = 1
    /\ UNCHANGED <<tree, nodes>>

\* It is not asked whether the link is excluded.
list_hardlink ==
    /\ Take("HARD") /\ opts.mode = "t"
    /\ Listed(HasHandle(Item.id))
    /\ IF HasHandle(Item.id) THEN Pass ELSE Fail
    /\ UNCHANGED <<tree, nodes, handles, ext>>
------------------------------------------------------------------------------
EndOfStream ==
    /\ xpc = "item" /\ at > Len(stream)
    /\ xpc' = "closing"
    /\ UNCHANGED <<tree, nodes, handles, at, ext, listed, xrc>>

\* FiesReader_delete closes the files in the order of their ids, and FileHandle_delete
\* makes the symbolic links.
CloseFile ==
    /\ xpc = "closing" /\ handles # <<>>
    /\ LET f == Min(DOMAIN handles)
           h == handles[f]
           t == Unlinked(h.path)
           link == opts.mode = "x" /\ h # NoHandle /\ h.type = "LNK" /\ IsFree(t, h.path)
       IN  /\ handles' = Restrict(handles, DOMAIN handles \ {f})
           /\ tree' = IF link THEN t @@ (h.path :> Len(nodes) + 1) ELSE tree
           /\ nodes' = IF link THEN Append(nodes, Node("LNK", <<>>, h.target)) ELSE nodes
    /\ UNCHANGED <<xpc, at, ext, listed, xrc>>

Exit ==
    /\ xpc = "closing" /\ handles = <<>>
    /\ xpc' = "done"
    /\ UNCHANGED <<tree, nodes, handles, at, ext, listed, xrc>>

ExtractNext ==
    \/ Begin
    \/ PassExcluded \/ do_create \/ do_symlink \/ do_mkdir \/ do_mknod
    \/ do_reference \/ do_hardlink
    \/ WriteExtent \/ CopyExtent \/ FileDone \/ ExtractFails
    \/ ListItem \/ list_hardlink
    \/ EndOfStream \/ CloseFile \/ Exit
=============================================================================
