--------------------------------- MODULE Cli ---------------------------------
(***************************************************************************)
(* The command line: an archive is made by fies -c and, when that has      *)
(* ended well, extracted or listed by a second call.  The stream itself is *)
(* neither changed nor cut on the way, see Stream for that.                *)
(***************************************************************************)
EXTENDS Create

CONSTANTS BlockSize, Directory, NoHandle,
          Cases  \* trees, and calls of the program

ASSUME CliAssumption == BlockSize \in Nat \ {0}

VARIABLES tree, nodes, handles, xpc, at, ext, listed, xrc

target_vars == <<tree, nodes, handles, xpc, at, ext, listed, xrc>>

Extraction == INSTANCE Extract

\* A case has the tree to read (names, inodes) and the one to write to (tree, nodes),
\* the options and arguments of the first call (include, exclude, noxdev, hardlinks,
\* recurse, refs, list, args) and how many files it may open, and the mode of the
\* second, its own (xinclude, xexclude, clone), and whether the file system clones;
\* whether directories may be unreadable (eio), and what may become of times (times).
\* The stream may begin with the items of another program.
CliInit ==
    /\ opts \in Cases
    /\ names = opts.names /\ inodes = opts.inodes
    /\ CreateInit
    /\ Extraction!ExtractInit

Creating == CreateNext /\ UNCHANGED target_vars

Extracting == cpc = "done" /\ Extraction!ExtractNext /\ UNCHANGED create_vars

CliNext == Creating \/ Extracting

CliSpec == CliInit /\ [][CliNext]_<<create_vars, target_vars>>
------------------------------------------------------------------------------
ExcludedPath(p) == opt_is_path_excluded(Heads(p), opts.xinclude, opts.xexclude, FALSE)
ExcludedNow(item) == ExcludedPath(item.path)

\* The items that decide what is at their paths in the end.
Decisive ==
    {k \in DOMAIN stream :
       /\ stream[k].kind # "REF" /\ ~ ExcludedNow(stream[k])
       /\ \A j \in k + 1 .. Len(stream) :
            stream[j].path = stream[k].path => ExcludedNow(stream[j])}

Extracted(k) ==
    LET item == stream[k]
        is == tree[item.path]
    IN  /\ item.path \in DOMAIN tree
        /\ CASE item.kind = "DIR"  -> is = Directory
             [] item.kind = "LNK"  -> is # Directory /\ nodes[is].type = "LNK"
                                        /\ nodes[is].target = item.target
             [] item.kind = "NOD"  -> is # Directory /\ nodes[is].type = "NOD"
             [] item.kind = "REG"  ->
                  /\ is # Directory /\ nodes[is].type = "REG" /\ nodes[is].restored # "no"
                  /\ DOMAIN nodes[is].bytes = 0 .. item.size - 1
                  /\ \A l \in 0 .. item.size - 1 :
                       nodes[is].bytes[l] = Meaning(stream)[<<item.id, l>>]
             [] item.kind = "HARD" -> is = tree[Definition(stream, item.id).path]

\* An extraction that says it ended well has made the files the stream describes,
\* whatever was in their places: their bytes, however they were cloned or copied,
\* the links among them and their times, unless a warning has said that those could
\* not be set (do_create, do_clone, FileHandle_delete, do_file_done).
ExtractedIsStream ==
    xpc = "done" /\ xrc = "ok" /\ opts.mode = "x" => \A k \in Decisive : Extracted(k)

\* Other files of the tree that is written to are left alone at every moment, also
\* if they are further names of a file that is replaced (do_create's unlink and
\* O_EXCL, do_hardlink).
OthersSurvive ==
    \A p \in DOMAIN opts.tree \ {stream[k].path : k \in DOMAIN stream} :
      /\ p \in DOMAIN tree /\ tree[p] = opts.tree[p]
      /\ tree[p] # Directory => nodes[tree[p]] = opts.nodes[tree[p]]

\* fies -t changes nothing and shows all that the stream has and is not excluded,
\* once and in its order; besides that at most hard links, see below.
ListIsStream ==
    opts.mode = "t" =>
      /\ tree = opts.tree /\ nodes = opts.nodes
      /\ \A p \in Range(listed) : ExcludedPath(p) =>
           \E k \in DOMAIN stream : stream[k].path = p /\ stream[k].kind = "HARD"
      /\ xpc = "done" /\ xrc = "ok" =>
           SelectSeq(listed, LAMBDA p : ~ ExcludedPath(p)) =
             LET shown == SelectSeq(stream, LAMBDA item : ~ ExcludedNow(item))
             IN  [k \in DOMAIN shown |-> shown[k].path]

\* "files matching any of the patterns will be excluded" (doc/fies.options:52-54).
\* But fies -t does not ask for hard links (list_hardlink).
NothingExcludedIsListed == \A p \in Range(listed) : ~ ExcludedPath(p)
=============================================================================
