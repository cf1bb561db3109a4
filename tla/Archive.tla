------------------------------- MODULE Archive -------------------------------
(***************************************************************************)
(* The items of a stream as fies -c puts them and fies -x takes them, and  *)
(* the options that choose among them.  An item has a kind, a path (a      *)
(* sequence of names), the id of its file and, if it is a regular file,    *)
(* extents; each gives what is put for every byte from its offset on.      *)
(***************************************************************************)
EXTENDS Integers, SequencesExt, Functions

CONSTANTS
    Zero,  \* a byte of a hole
    None   \* the target of what is no symbolic link

\* FileMatch_matches, of a path without wildcards, for its tails (create) or its
\* heads (extract); and opt_is_path_excluded.
Tails(path) == {SubSeq(path, k, Len(path)) : k \in DOMAIN path}
Heads(path) == {SubSeq(path, 1, k) : k \in DOMAIN path}

opt_is_path_excluded(parts, include, exclude, skipincludes) ==
    \/ ~ skipincludes /\ include # {} /\ parts \cap include = {}
    \/ parts \cap exclude # {}
------------------------------------------------------------------------------
\* The item that gives file id f its contents.
Definition(items, f) ==
    items[CHOOSE k \in DOMAIN items : items[k].id = f /\ items[k].kind # "HARD"]

ExtentOf(item, l) ==
    item.extents[CHOOSE k \in DOMAIN item.extents : l \in DOMAIN item.extents[k].bytes]

\* What a stream means: the byte at an offset of a file, which a reference file has
\* already, and an extent gives or copies.
Meaning(items) ==
    LET Files == {k \in DOMAIN items : items[k].kind # "HARD"}
        Positions == {<<items[k].id, l>> : k \in Files, l \in 0 .. Max({items[j].size : j \in Files})}
        meant[x \in Positions] ==
          LET item == Definition(items, x[1]) IN
          IF item.kind = "REF" THEN item.bytes[x[2]]
          ELSE LET b == ExtentOf(item, x[2]).bytes[x[2]] IN
               CASE b.flags = "DATA" -> b.byte
                 [] b.flags = "COPY" -> meant[<<b.file, b.offset>>]
                 [] OTHER -> Zero
    IN  meant
=============================================================================
