-------------------------------- MODULE Create -------------------------------
(***************************************************************************)
(* fies -c: the files given, and what is in the directories among them,    *)
(* into a stream (src/fies_create.c, and fies_cli_create of src/fies.c).   *)
(*                                                                         *)
(* A path is a sequence of names; the inodes of the tree that is read are  *)
(* known by their device and number, and their bytes by where on a device  *)
(* they are.  A call of FiesWriter_writeFile puts one item: the packets it *)
(* puts, and what becomes of a call that fails halfway, are FiesWriter's.  *)
(* Symbolic links are not followed, and names are not transformed.         *)
(***************************************************************************)
EXTENDS Archive

CONSTANT Blank  \* an empty line of a list of files

\* The tree, and how the program is called.
VARIABLES
    names,    \* the inode each path leads to
    inodes,   \* their types, sizes and extents
    opts      \* the options, see Cli!Cases

tree_vars == <<names, inodes, opts>>

VARIABLES
    refs, list, args,  \* --ref-file, --files-from and the arguments still to be added
    cpc,
    cur,       \* the file do_create_add is called for
    frames,    \* the directories being read, the innermost one last
    unread,    \* the entries of directories that could not be read
    fds,       \* the files that are open
    devices,   \* the devices the writer knows
    links,     \* file_links: the ids of the inodes that were sent
    owner,     \* where each shared byte of a device was sent, see ExtentOwner
    stream,    \* the items put so far
    next_fileid

walk_vars == <<refs, list, args, cur, frames, unread, fds>>
sent_vars == <<devices, links, owner, stream, next_fileid>>
create_vars == <<tree_vars, walk_vars, cpc, sent_vars>>

Inode(path) == inodes[names[path]]
Entries(path) ==
    {Last(p) : p \in {q \in DOMAIN names : Len(q) = Len(path) + 1 /\ Front(q) = path}}

TopDevice == "none"  \* dev_t 0
------------------------------------------------------------------------------
\* The parameters of do_create_add.
Add(path, recursion, dev, as_ref) ==
    [path |-> path, recursion |-> recursion, dev |-> dev, as_ref |-> as_ref]

TakeRef ==
    /\ cpc = "next" /\ frames = <<>> /\ refs # <<>>
    /\ cur' = Add(Head(refs), FALSE, TopDevice, TRUE)
    /\ refs' = Tail(refs)
    /\ cpc' = "add"
    /\ UNCHANGED <<tree_vars, list, args, frames, unread, fds, sent_vars>>

\* create_add_from_list.  An empty line is taken for an empty path, which cannot
\* be opened.
TakeLine ==
    /\ cpc = "next" /\ frames = <<>> /\ refs = <<>> /\ list # <<>>
    /\ IF Head(list) = Blank THEN cpc' = "failed" /\ UNCHANGED cur
       ELSE cpc' = "add" /\ cur' = Add(Head(list), FALSE, TopDevice, FALSE)
    /\ list' = Tail(list)
    /\ UNCHANGED <<tree_vars, refs, args, frames, unread, fds, sent_vars>>

TakeArg ==
    /\ cpc = "next" /\ frames = <<>> /\ refs = <<>> /\ list = <<>> /\ args # <<>>
    /\ cur' = Add(Head(args), FALSE, TopDevice, FALSE)
    /\ args' = Tail(args)
    /\ cpc' = "add"
    /\ UNCHANGED <<tree_vars, refs, list, frames, unread, fds, sent_vars>>

\* readdir, in any order.
TakeEntry ==
    /\ cpc = "next" /\ frames # <<>>
    /\ \E name \in Last(frames).left :
         /\ cur' = Add(Append(Last(frames).path, name), TRUE, Last(frames).dev, FALSE)
         /\ frames' = [frames EXCEPT ![Len(frames)].left = @ \ {name}]
    /\ cpc' = "add"
    /\ UNCHANGED <<tree_vars, refs, list, args, unread, fds, sent_vars>>

\* closedir.  DIR_read gives NULL at the end of the directory and after an error,
\* which is taken for the end.
LeaveDirectory ==
    /\ cpc = "next" /\ frames # <<>>
    /\ Last(frames).left = {} \/ opts.eio
    /\ unread' = unread \cup {Append(Last(frames).path, name) : name \in Last(frames).left}
    /\ frames' = Front(frames)
    /\ fds' = fds - 1
    /\ UNCHANGED <<tree_vars, refs, list, args, cpc, cur, sent_vars>>

AllCreated ==
    /\ cpc = "next" /\ frames = <<>> /\ refs = <<>> /\ list = <<>> /\ args = <<>>
    /\ cpc' = "done"
    /\ UNCHANGED <<tree_vars, walk_vars, sent_vars>>

Add_vars == <<tree_vars, refs, list, args, cur, frames, unread>>
------------------------------------------------------------------------------
\* do_create_add.  A file given by its name makes the writer know its device; a
\* file found in a directory has to be on a known one.
Device(path) == names[path][1]
KnowsDevice  == ~ cur.recursion \/ Device(cur.path) \in devices
DevicesNow   == devices \cup {Device(cur.path)}

IsLink == Inode(cur.path).type = "LNK"  \* no descriptor is kept of it

CanOpen ==
    /\ cpc = "add"
    /\ cur.path \in DOMAIN names
    /\ fds < opts.max_fds \/ IsLink
    /\ KnowsDevice

\* Any error of do_create_add ends the program.
CreateFails ==
    /\ cpc = "add" \/ (cpc = "next" /\ frames # <<>>)
    /\ cpc' = "failed"
    /\ UNCHANGED <<tree_vars, walk_vars, sent_vars>>

\* Slip: what is found in a directory has to be included by itself.
ExcludedUnlessNamed == opt_is_path_excluded(Tails(cur.path), opts.include, opts.exclude, FALSE)

Excluded ==
    opt_is_path_excluded(Tails(cur.path), opts.include, opts.exclude, cur.recursion)

PassExcluded ==
    /\ CanOpen /\ Excluded
    /\ devices' = DevicesNow
    /\ cpc' = "next"
    /\ UNCHANGED <<Add_vars, fds, links, owner, stream, next_fileid>>

\* The device to compare with is 0, no file's, below whatever is given, and would
\* be set only after a file on the same one was found.
OtherDevice ==
    opts.noxdev /\ cur.recursion /\ ~ IsLink /\ Device(cur.path) # cur.dev

PassOtherDevice ==
    /\ CanOpen /\ ~ Excluded /\ OtherDevice
    /\ cpc' = "next"
    /\ UNCHANGED <<Add_vars, fds, sent_vars>>

Wanted ==
    /\ CanOpen /\ ~ Excluded /\ ~ OtherDevice
    /\ cur.as_ref => Inode(cur.path).type = "REG"

\* Slip: inodes are told apart by their numbers alone.
KnownByNumber(key) == {k \in DOMAIN links : k[2] = key[2]}

\* get_existing_file.
Known(key) == {k \in DOMAIN links : k = key}

Existing == IF opts.hardlinks /\ ~ IsLink THEN Known(names[cur.path]) ELSE {}

\* The descriptor is duplicated for a directory, which is read next, and for any
\* other file too, where nobody closes it.  If there is none left, the assertion
\* before fdopendir fails.
Descend ==
    LET dup == ~ IsLink /\ fds + 1 < opts.max_fds
        dir == opts.recurse /\ Inode(cur.path).type = "DIR"
    IN  /\ fds' = IF dup THEN fds + 1 ELSE fds
        /\ frames' = IF dir /\ dup
                     THEN Append(frames, [path |-> cur.path, left |-> Entries(cur.path),
                                          dev |-> cur.dev])
                     ELSE frames
        /\ cpc' = IF dir /\ ~ dup THEN "aborted" ELSE "next"

\* A further name of an inode that was sent.
SendHardlink ==
    /\ Wanted
    /\ \E key \in Existing :
         stream' = Append(stream, [kind |-> "HARD", path |-> cur.path, id |-> links[key]])
    /\ Descend
    /\ devices' = DevicesNow
    /\ UNCHANGED <<tree_vars, refs, list, args, cur, unread, links, owner, next_fileid>>

\* FiesWriter_FIEMAP_to_Extent, of the flags FIEMAP gives for a byte.
Mappable(fe) ==
    /\ {"MERGED", "UNKNOWN"} \cap fe = {}
    /\ "NOT_ALIGNED" \in fe => "INLINE" \in fe
IsZero(fe)   == "UNWRITTEN" \in fe
IsShared(fe) == "SHARED" \in fe /\ "INLINE" \notin fe

\* The bytes of the current file that are mapped, where they are, and those that
\* FiesEMap_add is asked for.
Map      == Inode(cur.path).map
Mapped   == {l \in DOMAIN Map : Map[l].physical # Zero}
Place(l) == <<Device(cur.path), Map[l].physical>>
Shared   == {l \in Mapped : IsShared(Map[l].fe)}
FirstAt(p) == Min({l \in Shared : Place(l) = p})

\* What is sent for byte l: a shared byte that was sent before is copied.
Source(l) ==
    LET own == Place(l) \in DOMAIN owner  first == FirstAt(Place(l)) IN
    CASE l \notin Mapped -> [flags |-> "HOLE"]
      [] l \in Shared /\ own ->
           [flags |-> "COPY", file |-> owner[Place(l)].file, offset |-> owner[Place(l)].offset]
      [] l \in Shared /\ ~ own /\ first # l ->
           [flags |-> "COPY", file |-> next_fileid, offset |-> first]
      [] OTHER -> IF IsZero(Map[l].fe) THEN [flags |-> "ZERO"]
                  ELSE [flags |-> "DATA", byte |-> Place(l)]

\* Whether byte l is in one extent with the one before it.
Continues(l) ==
    LET a == Source(l - 1)  b == Source(l) IN
    /\ a.flags = b.flags
    /\ a.flags = "COPY" => a.file = b.file /\ b.offset = a.offset + 1

\* The extents of the current file.
SentExtents ==
    LET starts == {l \in DOMAIN Map : l = 0 \/ ~ Continues(l)}
        end(l) == Min({Cardinality(DOMAIN Map)} \cup {k \in starts : k > l})
        start(k) == CHOOSE l \in starts : Cardinality({m \in starts : m <= l}) = k
    IN  [k \in 1 .. Cardinality(starts) |->
           [offset |-> start(k), length |-> end(start(k)) - start(k),
            flags |-> Source(start(k)).flags,
            bytes |-> [l \in start(k) .. end(start(k)) - 1 |-> Source(l)]]]

\* Its shared bytes have an owner now.
OwnerNow ==
    [p \in DOMAIN owner \cup {Place(l) : l \in Shared} |->
       IF p \in DOMAIN owner THEN owner[p] ELSE [file |-> next_fileid, offset |-> FirstAt(p)]]

\* A file that is not known yet, and FIEMAP's extents of which can be sent, is
\* written and then registered.  Of a reference only the type is looked at, then it
\* is written like any other file.
SendFile ==
    /\ Wanted /\ Existing = {}
    /\ \A l \in Mapped : Mappable(Map[l].fe)
    /\ stream' = Append(stream, [kind |-> Inode(cur.path).type, path |-> cur.path,
                                id |-> next_fileid, target |-> Inode(cur.path).target,
                                size |-> Cardinality(DOMAIN Map), extents |-> SentExtents])
    /\ owner' = OwnerNow
    /\ next_fileid' = next_fileid + 1
    /\ devices' = DevicesNow
    /\ links' = IF opts.hardlinks /\ ~ IsLink
                THEN [k \in DOMAIN links \cup {names[cur.path]} |->
                        IF k \in DOMAIN links THEN links[k] ELSE next_fileid]
                ELSE links
    /\ Descend
    /\ UNCHANGED <<tree_vars, refs, list, args, cur, unread>>
------------------------------------------------------------------------------
CreateInit ==
    /\ refs = opts.refs /\ list = opts.list /\ args = opts.args
    /\ cpc = "next"
    /\ cur = Add(<<>>, FALSE, TopDevice, FALSE)
    /\ frames = <<>> /\ unread = {} /\ fds = 0
    /\ devices = {} /\ links = <<>> /\ owner = <<>>
    /\ stream = opts.stream /\ next_fileid = Len(opts.stream)

CreateNext ==
    \/ TakeRef \/ TakeLine \/ TakeArg \/ TakeEntry \/ LeaveDirectory \/ AllCreated
    \/ CreateFails \/ PassExcluded \/ PassOtherDevice \/ SendHardlink \/ SendFile
------------------------------------------------------------------------------
Given == Range(opts.refs) \cup Range(opts.list) \cup Range(opts.args)

\* The paths in the tree at or below g that nothing keeps from the archive: neither
\* an option for them or a directory on the way nor, with --one-file-system, the
\* border of a file system.
Below(g, include, exclude, noxdev) ==
    {p \in DOMAIN names :
       /\ g \in Heads(p) /\ (opts.recurse \/ p = g)
       /\ \A k \in Len(g) .. Len(p) :
            LET q == SubSeq(p, 1, k) IN
            /\ ~ opt_is_path_excluded(Tails(q), include, exclude, k > Len(g))
            /\ noxdev => names[q][1] = names[g][1]}

IsSent(p) == \E k \in DOMAIN stream : stream[k].path = p

\* When the program has ended without an error, all that it was given is in the
\* stream, whatever was given twice, linked, listed or excluded around it; but for
\* what was left in a directory that could not be read to its end.
ArchiveIsComplete ==
    cpc = "done" /\ ~ opts.noxdev =>
      \A g \in Given : \A p \in Below(g, opts.include, opts.exclude, FALSE) :
        IsSent(p) \/ \E k \in Len(g) + 1 .. Len(p) : SubSeq(p, 1, k) \in unread

\* "Recurse into directories" (doc/fies.options:16): an archive that was made without
\* an error has what is in them.  But an error of readdir ends a directory (249).
DirectoriesAreComplete ==
    cpc = "done" /\ ~ opts.noxdev =>
      \A g \in Given : \A p \in Below(g, opts.include, opts.exclude, FALSE) : IsSent(p)

\* "Do not cross file system borders while recursing into directories"
\* (doc/fies.options:94-96): it does recurse within them.
OneFileSystemIsComplete ==
    cpc = "done" =>
      \A g \in Given : \A p \in Below(g, opts.include, opts.exclude, opts.noxdev) : IsSent(p)

\* "The archive will contain an entry for the specified file ... but will not contain
\* its contents" (doc/fies.options:194-196, of --ref-file).  But it does.
ReferencesHaveNoContents ==
    \A k \in DOMAIN stream \ DOMAIN opts.stream :
      /\ stream[k].path \in Range(opts.refs) \ (Range(opts.list) \cup Range(opts.args))
      /\ stream[k].kind = "REG"
      => \A x \in Range(stream[k].extents) : x.flags # "DATA"

\* What the stream says of a file, through all copies and hard links, is what the
\* tree has: the bytes, and which names are of one inode.  A file given as a
\* reference is one of them, see ReferencesHaveNoContents.
StreamMeansTree ==
    \A k \in DOMAIN stream \ DOMAIN opts.stream :
      LET item == stream[k] IN
      IF item.kind = "HARD"
      THEN \E j \in 1 .. k - 1 :
             stream[j].id = item.id /\ names[stream[j].path] = names[item.path]
      ELSE /\ \A j \in 1 .. k - 1 : opts.hardlinks /\ item.kind # "LNK" =>
                names[stream[j].path] # names[item.path]
           /\ \A l \in 0 .. item.size - 1 :
                LET m == Inode(item.path).map[l] IN
                Meaning(stream)[<<item.id, l>>] =
                  IF m.physical = Zero \/ IsZero(m.fe) THEN Zero
                  ELSE <<names[item.path][1], m.physical>>
=============================================================================
