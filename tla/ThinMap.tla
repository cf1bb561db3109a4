------------------------------- MODULE ThinMap -------------------------------
(***************************************************************************)
(* libfies-dmthin: how the physical blocks of a thin volume are found in   *)
(* the btrees of its pool's metadata.                                      *)
(*                                                                         *)
(* The metadata are a function from block numbers to nodes.  A value of a  *)
(* mapping tree holds a block number above 24 bits of time; a value of an  *)
(* internal node, or of the tree of devices, is the number of a node.      *)
(* Arrays begin at 0 in the code and at 1 here: index i is keys[i + 1].    *)
(* The checksums and the endianness of the blocks are left out.            *)
(***************************************************************************)
EXTENDS Integers, Sequences, SequencesExt

CONSTANTS BlockSize,  \* data_block_size
          MaxNode,    \* bound: the highest block number of the metadata
          ExtentRoom  \* bound: the extents the caller has room for

ASSUME BlockSizeAssumption == BlockSize \in Nat \ {0}
ASSUME BoundsAssumption == MaxNode \in Nat /\ ExtentRoom \in Nat \ {0}

TimeSize == 2 ^ 24

Entries(node) == Len(node.keys)

\* btree_node_search: the index of the key, or else of its neighbour above
\* (hi) or below, which may be outside of the node.
btree_node_search(node, key, hi) ==
    LET loop[ab \in (-1 .. Entries(node)) \X (0 .. Entries(node))] ==
          LET a == ab[1]
              b == ab[2]
              i == a + (b - a) \div 2
              k == node.keys[i + 1]
          IN  IF b - a <= 1 THEN IF hi THEN b ELSE a
              ELSE IF key < k THEN loop[<<a, i>>]
              ELSE IF key > k THEN loop[<<i, b>>]
              ELSE i
    IN  loop[<<-1, Entries(node)>>]

\* fdmt_search from the node at "block" on: the value of the key or, if it has
\* none, "ERANGE" or "ENOENT".
fdmt_search(meta, block, key) ==
    LET search[b \in 0 .. MaxNode] ==
          LET node  == meta[b]
              index == btree_node_search(node, key, FALSE)
          IN  IF index < 0 THEN [error |-> "ERANGE"]
              ELSE IF node.internal THEN search[node.values[index + 1]]
              ELSE IF node.keys[index + 1] # key THEN [error |-> "ENOENT"]
              ELSE [error |-> "none", value |-> node.values[index + 1]]
    IN  search[block]

Mapped == [physical : Int, logical : Int, length : Int]  \* the extents returned

MapExtent(physaddr, logaddr) ==
    [physical |-> physaddr, logical |-> logaddr, length |-> BlockSize]

\* "Can we concatenate the extent?"
Continues(out, physaddr, logaddr) ==
    /\ out # <<>>
    /\ Last(out).physical + Last(out).length = physaddr
    /\ Last(out).logical + Last(out).length = logaddr

\* The entries of a leaf from index "from" on, behind the extents in "out",
\* until there is no room for another one.
LeafExtents(leaf, from, out) ==
    LET go[io \in (0 .. Entries(leaf)) \X Seq(Mapped)] ==
          LET i == io[1]
              o == io[2]
              logaddr  == leaf.keys[i + 1] * BlockSize
              physaddr == (leaf.values[i + 1] \div TimeSize) * BlockSize
          IN  IF i = Entries(leaf) THEN o
              ELSE IF Continues(o, physaddr, logaddr)
                THEN go[<<i + 1, [o EXCEPT ![Len(o)].length = @ + BlockSize]>>]
              ELSE IF Len(o) < ExtentRoom
                THEN go[<<i + 1, Append(o, MapExtent(physaddr, logaddr))>>]
              ELSE o
    IN  go[<<from, out>>]

\* Slip: in an internal node, too, the search is for the key above.
FirstIndexAbove(node, begin) ==
    LET lfrom == btree_node_search(node, begin, TRUE) IN IF lfrom < 0 THEN 0 ELSE lfrom

\* Where the keys from "begin" on may begin in a node.
FirstIndex(node, begin) ==
    LET lfrom == btree_node_search(node, begin, ~ node.internal)
    IN  IF lfrom < 0 THEN 0 ELSE lfrom

\* fdmt_mapAddressRange: the extents of the tree at "pos" from the block "begin"
\* on.  "end" is compared with the number of a node, and with nothing else.
fdmt_mapAddressRange(meta, pos, begin, end) ==
    LET range[pio \in (0 .. MaxNode) \X (0 .. MaxNode) \X Seq(Mapped)] ==
          LET p == pio[1]
              i == pio[2]
              o == pio[3]
              node == meta[p]
              child == node.values[i + 1]
          IN  IF i >= Entries(node) THEN o
              ELSE IF ~ node.internal THEN LeafExtents(node, i, o)
              ELSE IF Len(o) # ExtentRoom /\ child < end
                THEN range[<<p, i + 1, range[<<child, FirstIndex(meta[child], begin), o>>]>>]
              ELSE o
    IN  range[<<pos, FirstIndex(meta[pos], begin), <<>>>>]

\* The first extent begins where it is asked for, not at its block.
CutTo(logical_start, out) ==
    IF out # <<>> /\ out[1].logical < logical_start
    THEN LET shift == logical_start - out[1].logical IN
         [out EXCEPT ![1] = [physical |-> @.physical + shift, logical |-> @.logical + shift,
                             length |-> IF @.length <= shift THEN 0 ELSE @.length - shift]]
    ELSE out

\* FiesDMThin_mapExtents for a device from logical_start on, for "length" bytes.
FiesDMThin_mapExtents(meta, root, device, logical_start, length) ==
    LET at == fdmt_search(meta, root, device)
        begin == logical_start \div BlockSize
    IN  IF at.error # "none" THEN at
        ELSE [error |-> "none",
              extents |-> CutTo(logical_start,
                                fdmt_mapAddressRange(meta, at.value, begin,
                                                     begin + length \div BlockSize))]
==============================================================================
