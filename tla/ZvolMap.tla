------------------------------- MODULE ZvolMap -------------------------------
(***************************************************************************)
(* fies-zvol: the extents of a zvol from the tree of its block pointers.   *)
(*                                                                         *)
(* A dnode has nblkptr trees of nlevels levels.  A block pointer is found  *)
(* by its level and its number in it (zbookmark_phys_t); it is Hole, or    *)
(* has the positions of its copies (dvas), each a vdev and an offset.      *)
(* Blocks of level 0 are the volume's; a gang or embedded one has no place *)
(* of its own (plain = FALSE).                                             *)
(***************************************************************************)
EXTENDS Integers, Sequences, SequencesExt

CONSTANTS BlockSize,  \* BP_GET_LSIZE of level 0, which is dn_datablkszsec sectors
          Fanout,     \* block pointers of an indirect block
          MaxLevels,  \* bound: levels of a dnode
          MaxBlocks,  \* bound: blocks of a volume
          ExtentRoom, \* bound: the extents the caller has room for
          Hole

ASSUME ZvolMapAssumption ==
    /\ {BlockSize, Fanout, ExtentRoom} \subseteq Nat \ {0}
    /\ {MaxLevels, MaxBlocks} \subseteq Nat

\* The device number -1 of blocks that are nowhere.
NoVdev == -1

Mapped == [device : Int, physical : Nat, logical : Nat, length : Nat, shared : BOOLEAN]

\* What ZVOL_mapLevel hands through: the extents, self->uniq, and ENOBUFS.
Progress == [out : Seq(Mapped), uniq : Nat, full : BOOLEAN]

\* The blocks of the volume below a block pointer of a level.
Span[level \in 0 .. MaxLevels] == IF level = 0 THEN 1 ELSE Fanout * Span[level - 1]

\* The numbers of a level's block pointers.
Numbers(level) == {k \in 0 .. MaxBlocks : (k + 1) * Span[level] <= MaxBlocks}

blkid2offset(level, blkid) == blkid * Span[level] * BlockSize

\* The binary search among n block pointers whose offsets are offs[0] ..: the last
\* one at or before "start".
SearchBlock(offs, n, start) ==
    LET loop[ab \in (0 .. n) \X (0 .. n)] ==
          LET a == ab[1]
              b == ab[2]
              i == (a + b) \div 2
          IN  IF b - a <= 1 THEN a
              ELSE IF start > offs[i] THEN loop[<<i, b>>]
              ELSE IF start < offs[i] THEN loop[<<a, i>>]
              ELSE i
    IN  loop[<<0, n>>]

\* The copy on the lowest vdev, the first of these.
LowestDVA(bp) ==
    LET low == CHOOSE i \in DOMAIN bp.dvas :
                 \A j \in DOMAIN bp.dvas :
                   \/ bp.dvas[i].vdev < bp.dvas[j].vdev
                   \/ bp.dvas[i].vdev = bp.dvas[j].vdev /\ i <= j
    IN  bp.dvas[low]

\* Slip: the vdev is not compared.
ContinuesAnywhere(out, vdev, pos, logical) ==
    /\ out # <<>>
    /\ Last(out).physical + Last(out).length = pos
    /\ Last(out).logical + Last(out).length = logical

\* The block can be appended to the last extent.
Continues(out, vdev, pos, logical) ==
    /\ out # <<>>
    /\ Last(out).device = vdev
    /\ Last(out).physical + Last(out).length = pos
    /\ Last(out).logical + Last(out).length = logical

\* A block of level 0.  What has no place gets the next of self->uniq, also if
\* there is no room for it.
ZVOL_mapBP(bp, blkid, st) ==
    LET logical == blkid2offset(0, blkid)
        vdev == IF bp.plain THEN LowestDVA(bp).vdev ELSE NoVdev
        pos  == IF bp.plain THEN LowestDVA(bp).offset ELSE st.uniq
        next == [st EXCEPT !.uniq = IF bp.plain THEN @ ELSE @ + BlockSize]
    IN  CASE Continues(st.out, vdev, pos, logical) ->
               [next EXCEPT !.out[Len(st.out)].length = @ + BlockSize]
          [] ~ Continues(st.out, vdev, pos, logical) /\ Len(st.out) = ExtentRoom ->
               [next EXCEPT !.full = TRUE]
          [] OTHER ->
               [next EXCEPT !.out = Append(@, [device |-> vdev, physical |-> pos, logical |-> logical,
                                               length |-> BlockSize, shared |-> bp.plain])]

\* Where the search for "start" leads among the n pointers from number "first" on.
Begin(level, first, n, start) ==
    first + SearchBlock([i \in 0 .. n - 1 |-> blkid2offset(level, first + i)], n, start)

\* The block pointers from number "from" on and below "to", one after the other.
EachOf(visit, from, to, progress) ==
    LET upto[j \in from .. to] ==
          IF j = from THEN progress ELSE visit[<<j - 1, upto[j - 1]>>]
    IN  upto[to]

\* ZVOL_mapLevel for each level, as a function of a block pointer's number: what is
\* below it, from "start" on, as long as there is room.
ZVOL_mapLevel(bps, start) ==
    LET map[l \in 0 .. MaxLevels] ==
          [ks \in Numbers(l) \X Progress |->
             LET k == ks[1]
                 st == ks[2]
                 first == k * Fanout
                 from == IF start = 0 THEN first ELSE Begin(l - 1, first, Fanout, start)
             IN  IF bps[l][k] = Hole \/ st.full THEN st
                 ELSE IF l = 0 THEN ZVOL_mapBP(bps[l][k], k, st)
                 ELSE EachOf(map[l - 1], from, first + Fanout, st)]
    IN  map

\* ZVOL_nextExtents: the extents from "start" on, and self->uniq after it.
ZVOL_nextExtents(dn, start, uniq) ==
    LET top == dn.nlevels - 1 IN
    EachOf(ZVOL_mapLevel(dn.bps, start)[top], Begin(top, 0, dn.nblkptr, start), dn.nblkptr,
           [out |-> <<>>, uniq |-> uniq, full |-> FALSE])
==============================================================================
