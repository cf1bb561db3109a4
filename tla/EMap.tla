-------------------------------- MODULE EMap ---------------------------------
(***************************************************************************)
(* lib/emap.c: the map of the physical extents the stream already holds.   *)
(* A device has a sequence of extents, kept sorted and disjoint, each      *)
(* naming the file and the logical position that own its bytes.            *)
(* FiesEMap_add splits a request at the extents it meets: for_new is       *)
(* called for every gap, which is then inserted, for_avail for every       *)
(* overlap, and any callback may fail.                                     *)
(*                                                                         *)
(* One action is one iteration of the binary search or one callback of     *)
(* the main loop with the list update after it.  "content" and "want" are  *)
(* history: what a reader of the callbacks' packets holds, and what the    *)
(* requests asked for (see ExtentOwner).  Sequences count from 1, so the   *)
(* C index i is the element i + 1.                                         *)
(***************************************************************************)
EXTENDS Extents, Sequences, SequencesExt

FiesEMapExtent == [physical : Nat, logical : Nat, length : Nat, file : File]

VARIABLES devices,  \* the extent list of each device
          pc,       \* "idle", or where FiesEMap_add is: "find" or "add"
          dev, ex,  \* the device and what is left of the request
          a, b,     \* ExtentList_find's bounds; a is then the loop's index
          content, want

vars == <<devices, pc, dev, ex, a, b, content, want>>

End(e) == e.physical + e.length

\* Slip: the logical position stays behind.
ShiftKeepsLogical(e, by) == [e EXCEPT !.physical = @ + by, !.length = @ - by]

FiesEMapExtent_shift(e, by) ==
    [physical |-> e.physical + by, logical |-> e.logical + by,
     length |-> e.length - by, file |-> e.file]

list == devices[dev]
it   == list[a + 1]

Init ==
    /\ devices = [d \in Device |-> <<>>]
    /\ pc = "idle"
    /\ dev \in Device
    /\ \E f \in File : ex = [physical |-> 0, logical |-> 0, length |-> 0, file |-> f]
    /\ a = 0 /\ b = 0
    /\ content = [f \in File |-> [l \in Log |-> Nothing]]
    /\ want    = [f \in File |-> [l \in Log |-> Nothing]]
------------------------------------------------------------------------------
\* Entering FiesEMap_add with a non-empty request.  The writer asks for every
\* logical byte of a file at most once.
AddBegin(d, e) ==
    /\ pc = "idle"
    /\ e.length > 0 /\ End(e) <= PhysSize /\ e.logical + e.length <= LogSize
    /\ \A x \in e.logical .. e.logical + e.length - 1 : want[e.file][x] = Nothing
    /\ pc' = "find"
    /\ dev' = d /\ ex' = e
    /\ a' = 0 /\ b' = Len(devices[d])
    /\ want' = [want EXCEPT ![e.file] =
                  Overwrite(@, e.logical, e.length,
                            LAMBDA k : [device |-> d, physical |-> e.physical + k])]
    /\ UNCHANGED <<devices, content>>

\* The middle element of the binary search.
mid  == (a + b) \div 2
elem == list[mid + 1]

FindLeft ==
    /\ pc = "find" /\ a # b
    /\ ex.physical < elem.physical
    /\ b' = mid
    /\ UNCHANGED <<devices, pc, dev, ex, a, content, want>>

\* Slip: the bound is set to the probed element, not behind it.
FindRightInCircles ==
    /\ pc = "find" /\ a # b
    /\ ex.physical >= End(elem)
    /\ a' = mid
    /\ UNCHANGED <<devices, pc, dev, ex, b, content, want>>

FindRight ==
    /\ pc = "find" /\ a # b
    /\ ex.physical >= End(elem)
    /\ a' = mid + 1
    /\ UNCHANGED <<devices, pc, dev, ex, b, content, want>>

FindHit ==
    /\ pc = "find" /\ a # b
    /\ elem.physical <= ex.physical /\ ex.physical < End(elem)
    /\ pc' = "add" /\ a' = mid /\ b' = mid
    /\ UNCHANGED <<devices, dev, ex, content, want>>

FindEnd ==
    /\ pc = "find" /\ a = b
    /\ pc' = "add"
    /\ UNCHANGED <<devices, dev, ex, a, b, content, want>>
------------------------------------------------------------------------------
\* for_new succeeded for the first n bytes: the reader gets the physical bytes
\* and the list gets an extent for them at the index.
SentAndInserted(n) ==
    /\ content' = [content EXCEPT ![ex.file] =
                     Overwrite(@, ex.logical, n,
                               LAMBDA k : [device |-> dev, physical |-> ex.physical + k])]
    /\ devices' = [devices EXCEPT ![dev] = InsertAt(@, a + 1, [ex EXCEPT !.length = n])]
    /\ UNCHANGED <<dev, want>>

\* Slip: the offset of the request into the owner's extent is forgotten.
CopiedFromOwnersStart(n) ==
    /\ content' = [content EXCEPT ![ex.file] =
                      Overwrite(@, ex.logical, n, LAMBDA k : content[it.file][it.logical + k])]
    /\ UNCHANGED <<devices, dev, want>>

\* for_avail succeeded for the first n bytes: the reader copies them from
\* where the current extent's owner has them.
CopiedFromOwner(n) ==
    /\ LET copy_logical == it.logical + (ex.physical - it.physical) IN
         content' = [content EXCEPT ![ex.file] =
                       Overwrite(@, ex.logical, n,
                                 LAMBDA k : content[it.file][copy_logical + k])]
    /\ UNCHANGED <<devices, dev, want>>

\* FiesEMap_add returns after the last n bytes; its locals are gone.
Return(n) ==
    /\ pc' = "idle"
    /\ ex' = FiesEMapExtent_shift(ex, n)
    /\ a' = 0 /\ b' = 0

\* Slip: the index is not advanced.
ContinueAtSameIndex(n) ==
    /\ ex' = FiesEMapExtent_shift(ex, n)
    /\ UNCHANGED <<pc, a, b>>

\* The loop goes on behind the first n bytes, at the next extent.
Continue(n) ==
    /\ ex' = FiesEMapExtent_shift(ex, n)
    /\ a' = a + 1 /\ b' = a + 1
    /\ UNCHANGED pc

\* Behind the last extent: the rest is new.
NewAtEnd ==
    /\ pc = "add" /\ a = Len(list)
    /\ SentAndInserted(ex.length)
    /\ Return(ex.length)

\* The nearest extent does not overlap: the rest is new.
NewBefore ==
    /\ pc = "add" /\ a < Len(list)
    /\ End(ex) <= it.physical
    /\ SentAndInserted(ex.length)
    /\ Return(ex.length)

\* Slip: the extent for the gap gets the length of the whole request.
NewFrontTooLong ==
    /\ pc = "add" /\ a < Len(list)
    /\ ex.physical < it.physical /\ it.physical < End(ex)
    /\ SentAndInserted(ex.length)
    /\ Continue(it.physical - ex.physical)

\* Slip: the request is taken to be done after the gap.
NewFrontReturns ==
    /\ pc = "add" /\ a < Len(list)
    /\ ex.physical < it.physical /\ it.physical < End(ex)
    /\ SentAndInserted(it.physical - ex.physical)
    /\ Return(it.physical - ex.physical)

\* The request begins in the gap before the extent.
NewFront ==
    /\ pc = "add" /\ a < Len(list)
    /\ ex.physical < it.physical /\ it.physical < End(ex)
    /\ SentAndInserted(it.physical - ex.physical)
    /\ Continue(it.physical - ex.physical)

\* Slip: the extent's length is taken for the rest's.
CopyRestOfExtent ==
    /\ pc = "add" /\ a < Len(list)
    /\ it.physical <= ex.physical /\ End(ex) <= End(it)
    /\ CopiedFromOwner(ex.length)
    /\ Return(it.length)

\* The extent covers the rest of the request.
CopyRest ==
    /\ pc = "add" /\ a < Len(list)
    /\ it.physical <= ex.physical /\ End(ex) <= End(it)
    /\ CopiedFromOwner(ex.length)
    /\ Return(ex.length)

\* The extent covers a first part of the request.
CopyPart ==
    /\ pc = "add" /\ a < Len(list)
    /\ it.physical <= ex.physical /\ End(it) < End(ex)
    /\ CopiedFromOwner(End(it) - ex.physical)
    /\ Continue(End(it) - ex.physical)

\* Slip: the extent is inserted before the callback has succeeded.
InsertedAlthoughFailed ==
    /\ pc = "add" /\ a = Len(list)
    /\ pc' = "idle"
    /\ devices' = [devices EXCEPT ![dev] = Append(@, ex)]
    /\ ex' = [ex EXCEPT !.length = 0]
    /\ want' = [want EXCEPT ![ex.file] =
                  Overwrite(@, ex.logical, ex.length, LAMBDA k : Nothing)]
    /\ a' = 0 /\ b' = 0
    /\ UNCHANGED <<dev, content>>

\* The callback of this iteration fails: FiesEMap_add returns its error, the
\* extents inserted so far stay and nothing is inserted for the failed piece.
CallbackFails ==
    /\ pc = "add"
    /\ pc' = "idle"
    /\ ex' = [ex EXCEPT !.length = 0]
    /\ want' = [want EXCEPT ![ex.file] =
                  Overwrite(@, ex.logical, ex.length, LAMBDA k : Nothing)]
    /\ a' = 0 /\ b' = 0
    /\ UNCHANGED <<devices, dev, content>>
------------------------------------------------------------------------------
Find == FindLeft \/ FindRight \/ FindHit \/ FindEnd
Add  == NewAtEnd \/ NewBefore \/ NewFront \/ CopyRest \/ CopyPart

Next ==
    \/ \E d \in Device, p \in Phys, l \in Log, n \in 1 .. PhysSize, f \in File :
          AddBegin(d, [physical |-> p, logical |-> l, length |-> n, file |-> f])
    \/ Find
    \/ Add
    \/ CallbackFails

Spec == Init /\ [][Next]_vars

\* FiesEMap_add is sequential code that runs until it returns.
FairSpec == Spec /\ WF_vars(Find) /\ WF_vars(Add)
------------------------------------------------------------------------------
\* The types of the variables.
TypeOK ==
    /\ devices \in [Device -> Seq(FiesEMapExtent)]
    /\ pc \in {"idle", "find", "add"}
    /\ dev \in Device
    /\ ex \in FiesEMapExtent
    /\ a \in Nat /\ b \in Nat
    /\ content \in [File -> [Log -> Place \cup {Nothing}]]
    /\ want \in [File -> [Log -> Place \cup {Nothing}]]

\* The extents of a device (lib/emap.c:104-191 inserts into them at an index
\* that it computes once and then only increments) stay non-empty, sorted and
\* disjoint, which is what the binary search and the loop rely on.
ListsSorted ==
    \A d \in Device :
      /\ \A i \in DOMAIN devices[d] :
           /\ devices[d][i].length > 0
           /\ End(devices[d][i]) <= PhysSize
           /\ devices[d][i].logical + devices[d][i].length <= LogSize
      /\ \A i, j \in DOMAIN devices[d] :
           i < j => End(devices[d][i]) <= devices[d][j].physical

\* Where the loop stands: everything before the index ends at or before the
\* request, and (once the search is over) the extent at the index ends behind
\* its beginning.  This is what keeps the unsigned subtractions of
\* lib/emap.c:145-184 from wrapping and FiesEMapExtent_shift's assertion true.
IndexInv ==
    /\ End(ex) <= PhysSize /\ ex.logical + ex.length <= LogSize
    /\ pc = "idle" <=> ex.length = 0
    /\ pc # "idle" =>
      /\ a <= b /\ b <= Len(list)
      /\ \A i \in 1 .. a : End(list[i]) <= ex.physical
      /\ pc = "find" => \A i \in b + 1 .. Len(list) : ex.physical < list[i].physical
      /\ pc = "add"  => /\ a = b
                        /\ a < Len(list) => ex.physical < End(it)

\* The owner of every byte of every extent is a byte of a file the reader
\* holds, and holds with exactly that physical byte in it: a copy instruction
\* made from the map never refers to something that was not sent.
OwnersHoldTheirBytes ==
    \A d \in Device : \A i \in DOMAIN devices[d] :
      LET e == devices[d][i] IN
      \A k \in 0 .. e.length - 1 :
        content[e.file][e.logical + k] = [device |-> d, physical |-> e.physical + k]

\* The reader never holds anything in a file but what was asked for, however
\* the requests of different files overlapped and whichever callback failed.
ContentAsAsked ==
    \A f \in File, l \in Log :
      content[f][l] # Nothing => content[f][l] = want[f][l]

\* When FiesEMap_add has returned, all that was asked for and not given up by
\* a failed callback is there: the pieces leave no gap.
AllDelivered == pc = "idle" => content = want

\* The map as an ownership of bytes.
OwnerOf(d, p) ==
    IF \E i \in DOMAIN devices[d] : p \in devices[d][i].physical .. End(devices[d][i]) - 1
    THEN LET e == CHOOSE e \in ToSet(devices[d]) : p \in e.physical .. End(e) - 1
         IN [file |-> e.file, logical |-> e.logical + (p - e.physical)]
    ELSE Nothing

Owner == INSTANCE ExtentOwner WITH
    owner <- [d \in Device |-> [p \in Phys |-> OwnerOf(d, p)]],
    todo  <- [device |-> dev, physical |-> ex.physical, logical |-> ex.logical,
              length |-> ex.length, file |-> ex.file]

\* FiesEMap_add implements the byte ownership of ExtentOwner: it sends only
\* bytes nobody owns (Protocol.txt:16, "Every physical extent is written
\* only once"), copies only from the owner, and takes ownership from nobody.
ImplementsExtentOwner == Owner!Spec

\* Every call returns: neither the search nor the loop can run in circles.
CallReturns == pc # "idle" ~> pc = "idle"
==============================================================================
