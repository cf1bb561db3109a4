----------------------------- MODULE Stream_proofs ----------------------------
(***************************************************************************)
(* What a transfer makes of the files, for every plan of them, all parts   *)
(* that they are sent and taken in and all ends of the stream.             *)
(*                                                                         *)
(* What the writer keeps of its own comes first: Order, Laid, Sending and  *)
(* Copying, each inductive with the ones before it.                        *)
(*                                                                         *)
(* WriterIsRight is what is known of the packets that are put: what each   *)
(* gives, and how they follow each other.  ReaderIsRight is where the      *)
(* reader is in them, and Holds what it has made of them.                  *)
(***************************************************************************)
EXTENDS Stream, WellFoundedInduction, NaturalsInduction, SequenceTheorems,
        FiniteSetTheorems, TLAPS

InCall       == pc \in {"meta", "extents", "shared", "end"}
IsNew(i)     == files[i].mode # "HARD"
Announces(j) == Is(j, "FILE") /\ stream[j].mode # "HARD"
End(e)       == e.logical + e.length

\* What the variables are.
WriterType ==
    /\ IsPlan(files) /\ calls \in 0 .. Len(files)
    /\ ids \in Seq(Nat) /\ Len(ids) = calls /\ next_fileid \in 0 .. calls
    /\ pc \in {"new", "idle", "meta", "extents", "shared", "end", "failed"}
    /\ at \in Nat /\ last \in Nat /\ next \in Nat \ {0}
    /\ stream \in Seq({stream[i] : i \in DOMAIN stream})

\* The call that is running, and where it is in the file's extents.
CallFits ==
    InCall =>
      /\ calls > 0 /\ IsNew(calls) /\ fileid = next_fileid - 1
      /\ pc = "meta" => ~ ref_file /\ at = 0 /\ last = 0 /\ next = 1
      /\ pc \in {"extents", "shared"} => file.mode \in {"REG", "REF"} /\ next <= last + 1 /\ last <= Len(extents)
      /\ pc = "shared" => next <= last

\* Ids are given in the order of the files, and hard links have that of another.
IdsGrow ==
    /\ \A i \in 1 .. calls : ids[i] < next_fileid
    /\ \A i, j \in 1 .. calls : i < j /\ IsNew(i) /\ IsNew(j) => ids[i] < ids[j]
    /\ \A i \in 1 .. calls : ~ IsNew(i) => ids[i] = ids[files[i].of]

\* The packets of a stream are those of the files that were begun.
Announced ==
    /\ \A i \in 1 .. calls : IsNew(i) =>
         \E j \in DOMAIN stream : stream[j] = FilePacket(ids[i], files[i].mode, files[i].size)
    /\ \A j \in DOMAIN stream : Announces(j) =>
         \E i \in 1 .. calls : IsNew(i) /\ stream[j] = FilePacket(ids[i], files[i].mode, files[i].size)
    /\ \A j, k \in DOMAIN stream : j < k /\ Announces(j) /\ Announces(k) => stream[j].file < stream[k].file
    /\ \A j \in DOMAIN stream : Is(j, "EXTENT") \/ Is(j, "FILE_END") =>
         \E i \in 1 .. calls : IsNew(i) /\ stream[j].file = ids[i]

\* Files are ended one after the other.
Ended ==
    /\ \A i \in 1 .. calls : IsNew(i) /\ (i < calls \/ pc = "idle") =>
         \E j \in DOMAIN stream : Ends(j, ids[i])
    /\ InCall => \A j \in DOMAIN stream : ~ Ends(j, fileid)
    /\ pc = "new" => calls = 0

Order == WriterType /\ CallFits /\ IdsGrow /\ Announced /\ Ended /\ WholeFiles

\* The extents before the next one are done, and those from it on are not begun.
Mapped ==
    pc \in {"extents", "shared"} =>
      /\ at <= file.size
      /\ \A k \in DOMAIN extents :
           IF k < next THEN End(extents[k]) <= at \/ at = file.size ELSE at <= extents[k].logical

\* What is left of the request to the extent map is the end of the extent.
SharedFits ==
    pc = "shared" =>
      /\ DOMAIN ex = {"device", "physical", "logical", "length", "file"}
      /\ Current.shared /\ Current.flags # "COPY" /\ (~ ref_file => at = Current.logical)
      /\ ex.length \in 0 .. Current.length /\ ex.file = fileid /\ ex.device = Current.device
      /\ ex.logical = Current.logical + (Current.length - ex.length)
      /\ ex.physical = Current.physical + (Current.length - ex.length)
      /\ ex.physical + ex.length <= PhysSize /\ ex.logical + ex.length <= LogSize

\* The extents that were put end where the call is, and before them nothing is
\* left out.
Covers(j, f, x) == Is(j, "EXTENT") /\ stream[j].file = f /\ x \in stream[j].offset .. stream[j].offset + stream[j].length - 1

AllCovered ==
    \A f \in Nat :
      /\ SentUpTo(f) \in Nat
      /\ \A x \in Nat : x < SentUpTo(f) => \E j \in DOMAIN stream : Covers(j, f, x)

Position == IF pc = "shared" THEN ex.logical ELSE at

CurrentTiled ==
    InCall /\ file.mode = "REG" =>
      IF pc = "end"
      THEN /\ SentUpTo(fileid) <= file.size
           /\ \A k \in DOMAIN extents : SentUpTo(fileid) >= file.size \/ SentUpTo(fileid) >= End(extents[k])
      ELSE SentUpTo(fileid) = Position

Tiled == AllCovered /\ CurrentTiled /\ ExtentsTile

Tiling == Mapped /\ SharedFits /\ Tiled

\* A byte of a device that somebody owns.
IsOwned(q) == q \in Place /\ owner[q.device][q.physical] # Nothing

OwnerType ==
    /\ owner \in [Device -> [Phys -> Holder \cup {Nothing}]]
    /\ content \in [File -> [Log -> Place \cup {Nothing}]]

\* The receiver's content of shared extents is owned by somebody.
ContentIsOwned == \A f \in File, l \in Log : content[f][l] # Nothing => IsOwned(content[f][l])

\* Bytes are owned because they were in a shared extent.
OwnedIsShared ==
    \A q \in Place : IsOwned(q) =>
      \E i \in 1 .. calls : IsNew(i) /\ \E k \in DOMAIN files[i].extents :
        files[i].extents[k].shared /\ q \in Places(files[i].extents[k])

\* Extent k of the file i is done, and had the byte for itself.
IsBefore(i, k) == i < calls \/ (i = calls /\ k < next)

SentAlone(q) ==
    \E i \in 1 .. calls : IsNew(i) /\ \E k \in DOMAIN files[i].extents :
      /\ IsBefore(i, k)
      /\ files[i].extents[k].flags = "DATA" /\ ~ files[i].extents[k].shared
      /\ q \in Places(files[i].extents[k])

\* What was sent is owned now or was in an extent of its own.
DataIsKnown == \A j \in DOMAIN stream : IsData(j) => \A q \in DataPlaces(j) : IsOwned(q) \/ SentAlone(q)

\* Reference files have no extents in the stream.
NoneOfRef == InCall /\ ref_file => \A j \in DOMAIN stream : Is(j, "EXTENT") => stream[j].file # fileid

Sending == OwnerType /\ ContentIsOwned /\ OwnedIsShared /\ DataIsKnown /\ NoneOfRef /\ SentOnce

\* The receiver has every byte that is owned.
HasByte(g, x) ==
    \E j \in DOMAIN stream :
      \/ Is(j, "FILE") /\ stream[j].file = g /\ stream[j].mode = "REF" /\ x < stream[j].size
      \/ Covers(j, g, x)

OwnersHaveBytes ==
    \A q \in Place : IsOwned(q) =>
      HasByte(owner[q.device][q.physical].file, owner[q.device][q.physical].logical)

Copying == OwnersHaveBytes /\ CopiesReferBack
------------------------------------------------------------------------------
LEMMA LeastOf ==
    ASSUME NEW T, T \subseteq Nat, T # {}
    PROVE  \E x \in T : \A y \in T : x <= y
<1>1. PICK x \in T : \A y \in T : ~ (<<y, x>> \in OpToRel(<, Nat))
  BY NatLessThanWellFounded, WFMin
<1>2. \A y \in T : ~ (y < x)
  BY <1>1 DEF OpToRel
<1> QED
  BY <1>2

\* What a plan says of the current file.
LEMMA CurrentFile ==
    ASSUME WriterType, calls > 0, IsNew(calls)
    PROVE  /\ calls \in DOMAIN files /\ AreExtents(file) /\ CopiesOfEarlier(files, calls)
           /\ extents \in Seq(FileExtent) /\ DOMAIN extents = 1 .. Len(extents) /\ Len(extents) \in Nat
           /\ \A k \in DOMAIN extents : extents[k] \in FileExtent
           /\ calls \in Nat /\ file.size \in Nat
<1>1. calls \in DOMAIN files /\ calls \in Nat
  BY DEF WriterType, IsPlan
<1>2. AreExtents(file) /\ CopiesOfEarlier(files, calls)
  BY <1>1 DEF WriterType, IsPlan, IsNew, file
<1> QED
  BY <1>1, <1>2, ElementOfSeq, LenProperties DEF AreExtents, extents

LEMMA ExtentFields ==
    ASSUME NEW e \in FileExtent
    PROVE  /\ e.flags \in {"DATA", "ZERO", "COPY"} /\ e.shared \in BOOLEAN /\ e.device \in Device
           /\ e.physical \in Nat /\ e.logical \in Nat /\ e.length \in Nat /\ e.length > 0
           /\ e.source \in Nat /\ e.source_offset \in Nat
           /\ End(e) \in Nat /\ e.logical < End(e) /\ End(e) = e.logical + e.length
<1>1. /\ e.flags \in {"DATA", "ZERO", "COPY"} /\ e.shared \in BOOLEAN /\ e.device \in Device
      /\ e.physical \in Nat /\ e.logical \in Nat /\ e.length \in Nat \ {0}
      /\ e.source \in Nat /\ e.source_offset \in Nat
  BY DEF FileExtent
<1> QED
  BY <1>1 DEF End

\* Extents are in order, not only neighbours.
LEMMA Ordered ==
    ASSUME NEW f, AreExtents(f), NEW k \in DOMAIN f.extents, NEW m \in DOMAIN f.extents, k < m
    PROVE  End(f.extents[k]) <= f.extents[m].logical
<1> DEFINE es == f.extents
<1>1. /\ DOMAIN es = 1 .. Len(es) /\ Len(es) \in Nat
      /\ \A i \in DOMAIN es : es[i] \in FileExtent
      /\ \A i \in 1 .. Len(es) - 1 : End(es[i]) <= es[i + 1].logical
  <2>1. es \in Seq(FileExtent)
    BY DEF AreExtents
  <2>2. DOMAIN es = 1 .. Len(es) /\ Len(es) \in Nat /\ \A i \in DOMAIN es : es[i] \in FileExtent
    BY <2>1, ElementOfSeq, LenProperties
  <2>3. ASSUME NEW i \in 1 .. Len(es) - 1 PROVE End(es[i]) <= es[i + 1].logical
    <3>1. i \in 1 .. Len(es) /\ i < Len(es)
      BY <2>2
    <3> QED
      BY <3>1 DEF AreExtents, End
  <2> QED
    BY <2>2, <2>3
<1> DEFINE T == {i \in k + 1 .. Len(es) : ~ (End(es[k]) <= es[i].logical)}
<1> SUFFICES ASSUME T # {} PROVE FALSE
  BY <1>1
<1>2. PICK i \in T : \A j \in T : i <= j
  <2> T \subseteq Nat
    BY <1>1
  <2> QED
    BY LeastOf
<1>3. i # k + 1
  BY <1>1, <1>2
<1>4. i - 1 \in k + 1 .. Len(es) /\ ~ (i - 1 \in T)
  BY <1>1, <1>2, <1>3
<1>5. End(es[k]) <= es[i - 1].logical /\ End(es[i - 1]) <= es[i].logical
  BY <1>1, <1>4
<1>6. /\ es[k] \in FileExtent /\ es[i - 1] \in FileExtent /\ es[i] \in FileExtent
  BY <1>1, <1>4
<1>7. ~ (End(es[k]) <= es[i].logical)
  BY <1>2
<1> DEFINE a == es[k]
           b == es[i - 1]
           c == es[i]
<1>8. a \in FileExtent /\ b \in FileExtent /\ c \in FileExtent
  BY <1>6
<1>9. End(a) <= b.logical /\ End(b) <= c.logical /\ ~ (End(a) <= c.logical)
  BY <1>5, <1>7
<1> HIDE DEF a, b, c
<1>10. End(a) \in Nat /\ c.logical \in Nat /\ b.logical \in Nat /\ End(b) \in Nat /\ b.logical < End(b)
  BY <1>8, ExtentFields
<1> QED
  BY <1>9, <1>10

\* Where the merging of extents stops.
LEMMA MergedStops ==
    ASSUME next \in Nat, last \in Nat, next <= last
    PROVE  /\ MergedUpTo \in next .. last
           /\ \A i \in next .. MergedUpTo - 1 : Merges(extents[i], extents[i + 1])
<1> DEFINE Stops(j) ==
      /\ \A i \in next .. j - 1 : Merges(extents[i], extents[i + 1])
      /\ j < last => ~ Merges(extents[j], extents[j + 1])
<1> DEFINE T == {j \in next .. last : j < last => ~ Merges(extents[j], extents[j + 1])}
<1>1. PICK j \in T : \A i \in T : j <= i
  <2> last \in T /\ T \subseteq Nat
    OBVIOUS
  <2> HIDE DEF T
  <2> QED
    BY LeastOf
<1>2. ASSUME NEW i \in next .. j - 1 PROVE Merges(extents[i], extents[i + 1])
  BY <1>1
<1>3. j \in next .. last /\ Stops(j)
  BY <1>1, <1>2
<1>4. MergedUpTo = CHOOSE i \in next .. last : Stops(i)
  BY DEF MergedUpTo
<1> HIDE DEF Stops
<1>5. MergedUpTo \in next .. last /\ Stops(MergedUpTo)
  BY <1>3, <1>4
<1> QED
  BY <1>5 DEF Stops

\* What was merged is a run of bytes, of the device as of the file.
Continues(e, f) ==
    /\ f.flags = e.flags /\ f.shared = e.shared /\ f.device = e.device
    /\ f.logical >= e.logical
    /\ f.physical = e.physical + (f.logical - e.logical)
    /\ e.flags = "COPY" =>
         /\ f.source = e.source
         /\ f.source_offset = e.source_offset + (f.logical - e.logical)

LEMMA MergesContinue ==
    ASSUME NEW a \in FileExtent, NEW b \in FileExtent, NEW c \in FileExtent,
           Continues(a, b), Merges(b, c),
           b.flags = "COPY" => c.source = b.source /\ c.source_offset = b.source_offset + b.length
    PROVE  Continues(a, c)
<1>1. /\ a.logical \in Nat /\ b.logical \in Nat /\ c.logical \in Nat /\ b.length \in Nat
      /\ a.physical \in Nat /\ b.physical \in Nat /\ c.physical \in Nat
      /\ a.source_offset \in Nat /\ b.source_offset \in Nat /\ c.source_offset \in Nat
  BY DEF FileExtent
<1>2. /\ c.flags = b.flags /\ c.shared = b.shared /\ c.device = b.device
      /\ c.logical = b.logical + b.length /\ c.physical = b.physical + b.length
  BY DEF Merges
<1>3. /\ b.flags = a.flags /\ b.shared = a.shared /\ b.device = a.device
      /\ b.logical >= a.logical /\ b.physical = a.physical + (b.logical - a.logical)
  BY DEF Continues
<1>4. c.logical >= a.logical /\ c.physical = a.physical + (c.logical - a.logical)
  BY <1>1, <1>2, <1>3
<1>5. ASSUME a.flags = "COPY"
      PROVE  c.source = a.source /\ c.source_offset = a.source_offset + (c.logical - a.logical)
  <2>1. b.source = a.source /\ b.source_offset = a.source_offset + (b.logical - a.logical)
    BY <1>5 DEF Continues
  <2>2. c.source = b.source /\ c.source_offset = b.source_offset + b.length
    BY <1>3, <1>5
  <2> QED
    BY <1>1, <1>2, <1>3, <2>1, <2>2
<1> QED
  BY <1>2, <1>3, <1>4, <1>5 DEF Continues

LEMMA MergedRun ==
    ASSUME WriterType, calls > 0, IsNew(calls), next <= last, last <= Len(extents)
    PROVE  \A k \in next .. MergedUpTo : Continues(extents[next], extents[k])
<1> DEFINE T == {i \in next .. MergedUpTo : ~ Continues(extents[next], extents[i])}
<1> SUFFICES ASSUME T # {} PROVE FALSE
  OBVIOUS
<1>1. next \in Nat \ {0} /\ last \in Nat
  BY DEF WriterType
<1>2. /\ MergedUpTo \in next .. last
      /\ \A i \in next .. MergedUpTo - 1 : Merges(extents[i], extents[i + 1])
  BY <1>1, MergedStops
<1>3. PICK i \in T : \A j \in T : i <= j
  <2> T \subseteq Nat
    BY <1>1, <1>2
  <2> QED
    BY LeastOf
<1>4. /\ \A k \in DOMAIN extents : extents[k] \in FileExtent
      /\ next .. MergedUpTo \subseteq DOMAIN extents
      /\ CopiesOfEarlier(files, calls)
  BY <1>1, <1>2, CurrentFile
<1>5. extents[next] \in FileExtent /\ extents[i] \in FileExtent /\ i \in next .. MergedUpTo
  BY <1>1, <1>2, <1>3, <1>4
<1>6. CASE i = next
  <2> Continues(extents[next], extents[next])
    BY <1>5, <1>6 DEF Continues, FileExtent
  <2> QED
    BY <1>3, <1>6
<1>7. CASE i # next
  <2>1. i - 1 \in next .. MergedUpTo - 1 /\ i - 1 \in DOMAIN extents /\ (i - 1) + 1 = i
    BY <1>1, <1>2, <1>4, <1>5, <1>7
  <2> DEFINE a == extents[next]
             b == extents[i - 1]
             c == extents[i]
  <2>2. Continues(a, b)
    <3> i - 1 \in next .. MergedUpTo /\ ~ (i - 1 \in T)
      BY <1>1, <1>2, <1>3, <2>1
    <3> QED
      OBVIOUS
  <2>3. Merges(b, c)
    BY <1>2, <2>1
  <2>4. b \in FileExtent
    BY <1>4, <2>1
  <2>5. b.flags = "COPY" => c.source = b.source /\ c.source_offset = b.source_offset + b.length
    <3>1. extents = files[calls].extents /\ i - 1 < Len(extents)
      BY <1>1, <1>2, <2>1 DEF extents, file
    <3> QED
      BY <1>4, <2>1, <2>3, <3>1 DEF CopiesOfEarlier, Merges
  <2>6. Continues(a, c)
    <3> HIDE DEF a, b, c
    <3> a \in FileExtent /\ c \in FileExtent
      BY <1>5 DEF a, c
    <3> QED
      BY <2>2, <2>3, <2>4, <2>5, MergesContinue
  <2> QED
    BY <1>3, <2>6
<1> QED
  BY <1>6, <1>7
------------------------------------------------------------------------------
\* What SendHole, SendUnshared and the others send from: a next extent there is.
HasNext == calls > 0 /\ IsNew(calls) /\ next <= last /\ last <= Len(extents)

WithLength(e, n) == [e EXCEPT !.length = n]

LEMMA LengthChanged ==
    ASSUME NEW e \in FileExtent, NEW n \in Nat \ {0}
    PROVE  LET c == WithLength(e, n) IN
           /\ c \in FileExtent /\ c.length = n
           /\ c.flags = e.flags /\ c.shared = e.shared /\ c.device = e.device
           /\ c.physical = e.physical /\ c.logical = e.logical
           /\ c.source = e.source /\ c.source_offset = e.source_offset
  BY DEF WithLength, FileExtent

LEMMA CurrentIs ==
    ASSUME WriterType, HasNext
    PROVE  LET e == extents[next]  l == extents[MergedUpTo] IN
           /\ MergedUpTo \in next .. last
           /\ next \in DOMAIN extents /\ MergedUpTo \in DOMAIN extents
           /\ e \in FileExtent /\ l \in FileExtent /\ Current \in FileExtent
           /\ Current.flags = e.flags /\ Current.shared = e.shared /\ Current.device = e.device
           /\ Current.physical = e.physical /\ Current.logical = e.logical
           /\ Current.source = e.source /\ Current.source_offset = e.source_offset
           /\ End(Current) = (IF End(l) > file.size THEN file.size ELSE End(l))
           /\ End(Current) <= file.size /\ Current.logical < file.size
<1> DEFINE e == extents[next]
           l == extents[MergedUpTo]
           n == (IF End(l) > file.size THEN file.size ELSE End(l)) - e.logical
<1>1. next \in Nat \ {0} /\ last \in Nat
  BY DEF WriterType
<1>2. /\ \A k \in DOMAIN extents : extents[k] \in FileExtent
      /\ DOMAIN extents = 1 .. Len(extents) /\ Len(extents) \in Nat
      /\ AreExtents(file) /\ file.size \in Nat
  BY CurrentFile DEF HasNext
<1>3. MergedUpTo \in next .. last /\ next \in DOMAIN extents /\ MergedUpTo \in DOMAIN extents
  BY <1>1, <1>2, MergedStops DEF HasNext
<1>4. e \in FileExtent /\ l \in FileExtent
  BY <1>2, <1>3
<1>5. e.logical < file.size
  BY <1>2, <1>3 DEF AreExtents, extents
<1>6. e.logical < End(l)
  <2>1. CASE MergedUpTo = next
    BY <1>4, <2>1, ExtentFields
  <2>2. CASE MergedUpTo # next
    <3>1. next < MergedUpTo
      BY <1>1, <1>3, <2>2
    <3>2. End(e) <= l.logical
      BY <1>2, <1>3, <3>1, Ordered DEF extents
    <3> HIDE DEF e, l
    <3>3. /\ End(e) \in Nat /\ e.logical \in Nat /\ l.logical \in Nat /\ End(l) \in Nat
          /\ e.logical < End(e) /\ l.logical < End(l)
      BY <1>4, ExtentFields
    <3> QED
      BY <3>2, <3>3
  <2> QED
    BY <2>1, <2>2
<1>7. n \in Nat \ {0}
  <2> HIDE DEF e, l
  <2>1. e.logical \in Nat /\ End(l) \in Nat
    BY <1>4, ExtentFields
  <2> QED
    BY <1>2, <1>5, <1>6, <2>1
<1>8. Current = WithLength(e, n)
  BY DEF Current, WithLength, End
<1> HIDE DEF n
<1>9. /\ Current \in FileExtent /\ Current.length = n
      /\ Current.flags = e.flags /\ Current.shared = e.shared /\ Current.device = e.device
      /\ Current.physical = e.physical /\ Current.logical = e.logical
      /\ Current.source = e.source /\ Current.source_offset = e.source_offset
  BY <1>4, <1>7, <1>8, LengthChanged
<1>10. End(Current) = (IF End(l) > file.size THEN file.size ELSE End(l)) /\ End(Current) <= file.size
  <2> HIDE DEF e, l
  <2>1. e.logical \in Nat /\ End(l) \in Nat
    BY <1>4, ExtentFields
  <2>2. End(Current) = e.logical + n
    BY <1>9 DEF End
  <2> QED
    BY <1>2, <2>1, <2>2 DEF n
<1> QED
  BY <1>3, <1>4, <1>5, <1>9, <1>10

\* Each byte of the next extent is one of the extents it was merged from.
IsByteOf(x, e) ==
    LET y == Current.logical + x - e.logical IN
    /\ y \in 0 .. e.length - 1
    /\ e.flags = Current.flags /\ e.shared = Current.shared /\ e.device = Current.device
    /\ Current.physical + x = e.physical + y
    /\ Current.flags = "COPY" => e.source = Current.source /\ Current.source_offset + x = e.source_offset + y

LEMMA BytesOfCurrent ==
    ASSUME WriterType, HasNext, NEW x \in 0 .. Current.length - 1
    PROVE  \E k \in next .. MergedUpTo : k \in DOMAIN extents /\ IsByteOf(x, extents[k])
<1>1. /\ MergedUpTo \in next .. last /\ next \in Nat \ {0} /\ last \in Nat
      /\ next .. MergedUpTo \subseteq DOMAIN extents
      /\ \A k \in DOMAIN extents : extents[k] \in FileExtent
  BY CurrentIs, CurrentFile DEF WriterType, HasNext
<1>2. /\ Current \in FileExtent
      /\ Current.flags = extents[next].flags /\ Current.shared = extents[next].shared
      /\ Current.device = extents[next].device
      /\ Current.physical = extents[next].physical /\ Current.logical = extents[next].logical
      /\ Current.source = extents[next].source /\ Current.source_offset = extents[next].source_offset
      /\ End(Current) = (IF End(extents[MergedUpTo]) > file.size THEN file.size ELSE End(extents[MergedUpTo]))
      /\ file.size \in Nat
  BY CurrentIs, CurrentFile DEF HasNext
<1> DEFINE l == extents[MergedUpTo]
           p == Current.logical + x
<1>3. p \in Nat /\ p < End(l) /\ Current.logical <= p
  <2>1. l \in FileExtent
    BY <1>1
  <2>2. End(l) \in Nat /\ Current.logical \in Nat /\ Current.length \in Nat
    BY <1>2, <2>1, ExtentFields
  <2>3. End(Current) = Current.logical + Current.length
    BY DEF End
  <2> QED
    BY <1>2, <2>2, <2>3
<1> DEFINE T == {k \in next .. MergedUpTo : p < End(extents[k])}
<1>4. PICK k \in T : \A j \in T : k <= j
  <2> MergedUpTo \in T /\ T \subseteq Nat
    BY <1>1, <1>3
  <2> HIDE DEF T
  <2> QED
    BY LeastOf
<1> DEFINE e == extents[k]
<1>5. k \in next .. MergedUpTo /\ p < End(e) /\ e \in FileExtent /\ k \in DOMAIN extents
  BY <1>1, <1>4
<1>6. e.logical <= p
  <2>1. CASE k = next
    BY <1>2, <1>3, <2>1
  <2>2. CASE k # next
    <3>1. k - 1 \in next .. MergedUpTo - 1 /\ (k - 1) + 1 = k /\ k - 1 \in next .. MergedUpTo
      BY <1>1, <1>5, <2>2
    <3>2. ~ (k - 1 \in T)
      BY <1>1, <1>4, <3>1
    <3>3. ~ (p < End(extents[k - 1]))
      BY <3>1, <3>2
    <3>4. Merges(extents[k - 1], e)
      BY <1>1, <3>1, MergedStops DEF HasNext
    <3>5. e.logical = End(extents[k - 1])
      BY <3>4 DEF Merges, End
    <3>6. extents[k - 1] \in FileExtent
      BY <1>1, <3>1
    <3>7. End(extents[k - 1]) \in Nat
      BY <3>6, ExtentFields
    <3> QED
      BY <1>3, <3>3, <3>5, <3>7
  <2> QED
    BY <2>1, <2>2
<1>7. Continues(extents[next], e)
  BY <1>5, MergedRun DEF HasNext
<1>8. IsByteOf(x, e)
  <2> DEFINE a == extents[next]
  <2>1. a \in FileExtent
    BY <1>1
  <2> HIDE DEF e, a, p
  <2>2. /\ e.logical \in Nat /\ e.physical \in Nat /\ e.length \in Nat /\ e.source_offset \in Nat
        /\ End(e) = e.logical + e.length
        /\ a.logical \in Nat /\ a.physical \in Nat /\ a.source_offset \in Nat
    BY <1>5, <2>1, ExtentFields
  <2>3. /\ Current.flags = a.flags /\ Current.shared = a.shared /\ Current.device = a.device
        /\ Current.physical = a.physical /\ Current.logical = a.logical
        /\ Current.source = a.source /\ Current.source_offset = a.source_offset
    BY <1>2 DEF a
  <2>4. /\ e.flags = a.flags /\ e.shared = a.shared /\ e.device = a.device
        /\ e.logical >= a.logical /\ e.physical = a.physical + (e.logical - a.logical)
        /\ a.flags = "COPY" => e.source = a.source /\ e.source_offset = a.source_offset + (e.logical - a.logical)
    BY <1>7 DEF Continues, a
  <2>5. p = a.logical + x
    BY <2>3 DEF p
  <2> DEFINE y == a.logical + x - e.logical
  <2>6. y \in 0 .. e.length - 1
    BY <1>3, <1>5, <1>6, <2>2, <2>5
  <2>7. a.physical + x = e.physical + y
    BY <2>2, <2>4
  <2>8. a.flags = "COPY" => e.source = a.source /\ a.source_offset + x = e.source_offset + y
    BY <2>2, <2>4
  <2> QED
    BY <2>3, <2>4, <2>6, <2>7, <2>8 DEF IsByteOf
<1> QED
  BY <1>5, <1>8
------------------------------------------------------------------------------
\* The stream with one more packet.
LEMMA PutAppends ==
    ASSUME WriterType, NEW p, Put(p)
    PROVE  /\ stream' \in Seq({stream'[i] : i \in DOMAIN stream'})
           /\ Len(stream) \in Nat /\ DOMAIN stream = 1 .. Len(stream)
           /\ Len(stream') = Len(stream) + 1 /\ DOMAIN stream' = 1 .. Len(stream) + 1
           /\ \A i \in DOMAIN stream : stream'[i] = stream[i]
           /\ stream'[Len(stream) + 1] = p
<1> DEFINE S == {stream[i] : i \in DOMAIN stream} \cup {p}
<1>1. stream \in Seq(S)
  BY SeqMonotonic DEF WriterType
<1>2. p \in S
  OBVIOUS
<1> HIDE DEF S
<1>3. /\ stream' \in Seq(S) /\ Len(stream') = Len(stream) + 1
      /\ \A i \in 1 .. Len(stream) : stream'[i] = stream[i]
      /\ stream'[Len(stream) + 1] = p
  BY <1>1, <1>2, AppendProperties DEF Put
<1>4. /\ Len(stream) \in Nat /\ DOMAIN stream = 1 .. Len(stream)
      /\ DOMAIN stream' = 1 .. Len(stream')
  BY <1>1, <1>3, LenProperties
<1>5. stream' \in Seq({stream'[i] : i \in DOMAIN stream'})
  <2> DEFINE s == stream'
  <2>1. DOMAIN s = 1 .. Len(s) /\ Len(s) \in Nat /\ s \in [1 .. Len(s) -> S]
    BY <1>3, LenProperties
  <2>2. s \in [1 .. Len(s) -> {s[i] : i \in DOMAIN s}]
    BY <2>1
  <2> HIDE DEF s
  <2>3. s \in Seq({s[i] : i \in DOMAIN s})
    BY <2>1, <2>2, SeqDef
  <2> QED
    BY <2>3 DEF s
<1> QED
  BY <1>3, <1>4, <1>5

\* What an action that is within a call may do to the stream and the call.
Silent ==
    /\ UNCHANGED stream
    /\ InCall' => InCall
    /\ pc' \in {"new", "idle"} => pc' = pc
PutsOther(p) ==
    /\ Put(p) /\ p.type \in {"HEADER", "FILE_META", "SNAPSHOT_LIST"}
    /\ InCall' => InCall
    /\ pc' = "idle" => pc \in {"new", "idle"}
    /\ pc' # "new"
PutsExtent(p) == Put(p) /\ p.type = "EXTENT" /\ p.file = fileid /\ InCall /\ InCall'
PutsEnd       == Put(EndPacket(fileid)) /\ InCall /\ pc' = "idle"

GoesOn ==
    /\ UNCHANGED <<files, calls, ids, next_fileid>>
    /\ \/ Silent
       \/ \E p : PutsOther(p) \/ PutsExtent(p)
       \/ PutsEnd

\* What an extent is put for.
PutsOne == SendHole \/ SendExplicitCopy \/ SendUnshared \/ SendShared \/ SendTrailingHole

LEMMA NewPacketIs ==
    ASSUME NEW e, NEW l, NEW p, NEW n
    PROVE  /\ NewPacket(e, l, p, n).type = "EXTENT" /\ NewPacket(e, l, p, n).file = fileid
           /\ NewPacket(e, l, p, n).offset = l /\ NewPacket(e, l, p, n).length = n
           /\ NewPacket(e, l, p, n).flags = e.flags
<1>1. CASE e.flags = "DATA"
  BY <1>1 DEF NewPacket, DataPacket
<1>2. CASE e.flags # "DATA"
  BY <1>2 DEF NewPacket, EmptyPacket
<1> QED
  BY <1>1, <1>2

\* The extent that is put, if any is: of a reference file there is none.
LEMMA ExtentsPut ==
    ASSUME InCall, PutsOne
    PROVE  /\ UNCHANGED <<files, calls, ids, next_fileid>> /\ InCall'
           /\ UNCHANGED stream \/ \E p : PutsExtent(p)
<1>1. CASE SendHole
  <2> DEFINE p == EmptyPacket(fileid, "HOLE", at, Current.logical - at)
  <2>1. p.type = "EXTENT" /\ p.file = fileid
    BY DEF EmptyPacket
  <2> HIDE DEF p
  <2> QED
    BY <1>1, <2>1 DEF SendHole, PutsExtent, InCall, p
<1>2. CASE SendExplicitCopy
  <2> DEFINE p == CopyPacket(fileid, Current.logical, Current.length,
                             ids[Current.source], Current.source_offset)
  <2>1. p.type = "EXTENT" /\ p.file = fileid
    BY DEF CopyPacket
  <2> HIDE DEF p
  <2>2. pc' = pc /\ UNCHANGED <<files, calls, ids, next_fileid>> /\ PutUnlessRef(p)
    BY <1>2 DEF SendExplicitCopy, p
  <2> QED
    BY <2>1, <2>2 DEF PutUnlessRef, PutsExtent, InCall
<1>3. CASE SendUnshared
  <2> DEFINE p == NewPacket(Current, Current.logical, Current.physical, Current.length)
  <2>1. p.type = "EXTENT" /\ p.file = fileid
    BY NewPacketIs
  <2> HIDE DEF p
  <2>2. pc' = pc /\ UNCHANGED <<files, calls, ids, next_fileid>> /\ PutUnlessRef(p)
    BY <1>3 DEF SendUnshared, p
  <2> QED
    BY <2>1, <2>2 DEF PutUnlessRef, PutsExtent, InCall
<1>4. CASE SendShared
  <2>1. ASSUME NEW n, SendNewShared(n)
        PROVE  \E p : /\ pc' = pc /\ UNCHANGED <<files, calls, ids, next_fileid>>
                      /\ PutUnlessRef(p) /\ p.type = "EXTENT" /\ p.file = fileid
    <3> DEFINE p == NewPacket(Current, ex.logical, ex.physical, n)
    <3>1. p.type = "EXTENT" /\ p.file = fileid
      BY NewPacketIs
    <3> HIDE DEF p
    <3> QED
      BY <2>1, <3>1 DEF SendNewShared, p
  <2>2. ASSUME NEW n, SendAvailShared(n)
        PROVE  \E p : /\ pc' = pc /\ UNCHANGED <<files, calls, ids, next_fileid>>
                      /\ PutUnlessRef(p) /\ p.type = "EXTENT" /\ p.file = fileid
    <3>1. PICK g \in File, m \in Log : PutUnlessRef(CopyPacket(fileid, ex.logical, n, g, m))
      BY <2>2 DEF SendAvailShared
    <3> DEFINE p == CopyPacket(fileid, ex.logical, n, g, m)
    <3>2. p.type = "EXTENT" /\ p.file = fileid
      BY DEF CopyPacket
    <3> HIDE DEF p
    <3> QED
      BY <2>2, <3>1, <3>2 DEF SendAvailShared, p
  <2>3. PICK p : /\ pc' = pc /\ UNCHANGED <<files, calls, ids, next_fileid>>
                 /\ PutUnlessRef(p) /\ p.type = "EXTENT" /\ p.file = fileid
    BY <1>4, <2>1, <2>2 DEF SendShared
  <2> QED
    BY <2>3 DEF PutUnlessRef, PutsExtent, InCall
<1>5. CASE SendTrailingHole
  <2> DEFINE p == EmptyPacket(fileid, "HOLE", at, file.size - at)
  <2>1. p.type = "EXTENT" /\ p.file = fileid
    BY DEF EmptyPacket
  <2> HIDE DEF p
  <2> QED
    BY <1>5, <2>1 DEF SendTrailingHole, PutsExtent, InCall, p
<1> QED
  BY <1>1, <1>2, <1>3, <1>4, <1>5 DEF PutsOne

LEMMA StepsOfCall ==
    ASSUME WriterType, [Next]_vars
    PROVE  GoesOn \/ Begin \/ WriteHardlink
<1>1. CASE WriteHeader
  <2>1. PutsOther(Header)
    BY <1>1 DEF WriteHeader, PutsOther, Header, InCall
  <2> QED
    BY <1>1, <2>1 DEF WriteHeader, GoesOn
<1>2. CASE SendMeta
  <2>1. PutsOther(MetaPacket(fileid, Head(metas)))
    BY <1>2 DEF SendMeta, PutsOther, MetaPacket, InCall
  <2> QED
    BY <1>2, <2>1 DEF SendMeta, GoesOn
<1>3. CASE SendMetaEnd
  <2>1. PutsOther(MetaPacket(fileid, "END"))
    BY <1>3 DEF SendMetaEnd, PutsOther, MetaPacket, InCall
  <2> QED
    BY <1>3, <2>1 DEF SendMetaEnd, GoesOn
<1>4. CASE NextExtents
  BY <1>4 DEF NextExtents, GoesOn, Silent, InCall
<1>5. CASE PutsOne
  <2>1. InCall /\ pc' # "idle" /\ pc' # "new"
    <3>1. CASE SendShared
      BY <3>1 DEF SendShared, SendNewShared, SendAvailShared, InCall
    <3>2. CASE ~ SendShared
      BY <1>5, <3>2 DEF PutsOne, SendHole, SendExplicitCopy, SendUnshared, SendTrailingHole,
                        AtExtent, NoMoreExtents, InCall
    <3> QED
      BY <3>1, <3>2
  <2> QED
    BY <1>5, <2>1, ExtentsPut DEF GoesOn, Silent
<1>6. CASE AskMap
  BY <1>6 DEF AskMap, AtExtent, GoesOn, Silent, InCall
<1>7. CASE SharedDone
  BY <1>7 DEF SharedDone, GoesOn, Silent, InCall
<1>8. CASE LoseTrailingHole
  BY <1>8 DEF LoseTrailingHole, NoMoreExtents, GoesOn, Silent, InCall
<1>9. CASE SendFileEnd
  BY <1>9 DEF SendFileEnd, NoMoreExtents, GoesOn, PutsEnd, InCall
<1>10. CASE SendSnapshots
  <2>1. PutsOther(SnapshotPacket(fileid))
    BY <1>10 DEF SendSnapshots, PutsOther, SnapshotPacket, InCall
  <2> QED
    BY <1>10, <2>1 DEF SendSnapshots, GoesOn
<1>11. CASE Fail
  BY <1>11 DEF Fail, GoesOn, Silent, InCall
<1>12. CASE UNCHANGED vars
  BY <1>12 DEF vars, GoesOn, Silent, InCall
<1> QED
  BY <1>1, <1>2, <1>3, <1>4, <1>5, <1>6, <1>7, <1>8, <1>9, <1>10, <1>11, <1>12
     DEF Next, Step, PutsOne
------------------------------------------------------------------------------
\* The next extent that is not mapped is the first one that is not.
LEMMA BatchBegins ==
    ASSUME WriterType, calls > 0, IsNew(calls), NextExtents
    PROVE  /\ last' \in DOMAIN extents /\ last' \in Unmapped
           /\ next' \in DOMAIN extents /\ next' \in Unmapped /\ next' <= last'
           /\ \A k \in Unmapped : next' <= k
<1>1. DOMAIN extents = 1 .. Len(extents) /\ Len(extents) \in Nat
  BY CurrentFile
<1>2. Unmapped \subseteq DOMAIN extents /\ Unmapped \subseteq Nat
  BY <1>1 DEF Unmapped
<1>3. PICK n \in Unmapped : last' = n /\ next' = CHOOSE i \in Unmapped : \A j \in Unmapped : i <= j
  BY DEF NextExtents
<1>4. \E i \in Unmapped : \A j \in Unmapped : i <= j
  BY <1>2, <1>3, LeastOf
<1>5. next' \in Unmapped /\ \A j \in Unmapped : next' <= j
  BY <1>3, <1>4
<1> QED
  BY <1>2, <1>3, <1>5

LEMMA Advances ==
    ASSUME WriterType, HasNext, Advance
    PROVE  /\ at' \in Nat /\ at' = (IF ref_file THEN Current.logical ELSE at) + Current.length
           /\ next' = MergedUpTo + 1 /\ next' \in Nat \ {0} /\ next' <= last + 1 /\ next < next'
<1>1. /\ MergedUpTo \in next .. last /\ Current \in FileExtent
      /\ at \in Nat /\ next \in Nat \ {0} /\ last \in Nat
  BY CurrentIs DEF WriterType
<1>2. Current.logical \in Nat /\ Current.length \in Nat
  BY <1>1, ExtentFields
<1> QED
  BY <1>1, <1>2 DEF Advance

LEMMA NextAtHand ==
    ASSUME WriterType, CallFits, pc = "shared" \/ (pc = "extents" /\ ~ BatchDone)
    PROVE  HasNext
  BY DEF WriterType, CallFits, InCall, HasNext, BatchDone

LEMMA PutType ==
    ASSUME WriterType, stream' = stream \/ \E p : Put(p)
    PROVE  stream' \in Seq({stream'[i] : i \in DOMAIN stream'})
  BY PutAppends DEF WriterType

LEMMA IdsAppended ==
    ASSUME ids \in Seq(Nat), NEW x \in Nat, ids' = Append(ids, x)
    PROVE  /\ ids' \in Seq(Nat) /\ Len(ids') = Len(ids) + 1 /\ Len(ids) \in Nat
           /\ \A i \in 1 .. Len(ids) : ids'[i] = ids[i] /\ ids[i] \in Nat
           /\ ids'[Len(ids) + 1] = x
  BY AppendProperties, ElementOfSeq, LenProperties

Control == WriterType /\ CallFits

LEMMA BeginControl == ASSUME Control, Begin PROVE Control'
<1> DEFINE f == files[calls + 1]
<1>1. /\ calls < Len(files) /\ IsNew(calls + 1) /\ f.mode # "HARD"
      /\ Put(FilePacket(next_fileid, f.mode, f.size))
      /\ pc' = (IF f.mode = "REF" THEN "extents" ELSE "meta")
      /\ ids' = Append(ids, next_fileid) /\ next_fileid' = next_fileid + 1 /\ calls' = calls + 1
      /\ at' = 0 /\ last' = 0 /\ next' = 1 /\ files' = files
  BY DEF Begin, IsNew
<1>2. IsPlan(files) /\ calls \in 0 .. Len(files) /\ next_fileid \in 0 .. calls /\ ids \in Seq(Nat) /\ Len(ids) = calls
  BY DEF Control, WriterType
<1>3. Len(files) \in Nat /\ calls \in Nat /\ calls + 1 \in DOMAIN files /\ next_fileid \in Nat
  BY <1>1, <1>2 DEF IsPlan
<1>4. stream' \in Seq({stream'[i] : i \in DOMAIN stream'})
  BY <1>1, PutType DEF Control
<1>5. ids' \in Seq(Nat) /\ Len(ids') = calls + 1 /\ ids'[calls + 1] = next_fileid
  BY <1>1, <1>2, <1>3, IdsAppended
<1>6. WriterType'
  BY <1>1, <1>2, <1>3, <1>4, <1>5 DEF WriterType
<1>7. CallFits'
  <2>1. (fileid = next_fileid - 1)'
    BY <1>1, <1>3, <1>5 DEF fileid
  <2>2. file' = f /\ IsNew(calls)'
    BY <1>1 DEF file, IsNew
  <2>3. Len(extents') \in Nat
    <3>1. AreExtents(f)
      BY <1>1, <1>2, <1>3 DEF IsPlan
    <3> QED
      BY <2>2, <3>1, LenProperties DEF AreExtents, extents
  <2>4. (pc' = "meta" => ~ ref_file') /\ (pc' = "extents" => f.mode = "REF") /\ pc' # "shared"
    BY <1>1, <2>2 DEF ref_file
  <2> QED
    BY <1>1, <1>3, <2>1, <2>2, <2>3, <2>4 DEF CallFits
<1> QED
  BY <1>6, <1>7 DEF Control

LEMMA HardlinkControl == ASSUME Control, WriteHardlink PROVE Control'
<1> DEFINE f == files[calls + 1]
<1>1. /\ calls < Len(files) /\ ~ IsNew(calls + 1) /\ f.mode = "HARD" /\ pc = "idle" /\ pc' = pc
      /\ Put(FilePacket(ids[f.of], "HARD", f.size))
      /\ ids' = Append(ids, ids[f.of]) /\ calls' = calls + 1
      /\ UNCHANGED <<files, next_fileid, metas, at, last, next>>
  BY DEF WriteHardlink, IsNew
<1>2. /\ IsPlan(files) /\ calls \in 0 .. Len(files) /\ next_fileid \in 0 .. calls /\ ids \in Seq(Nat) /\ Len(ids) = calls
      /\ at \in Nat /\ last \in Nat /\ next \in Nat \ {0}
  BY DEF Control, WriterType
<1>3. Len(files) \in Nat /\ calls \in Nat /\ calls + 1 \in DOMAIN files /\ next_fileid \in 0 .. calls + 1
  BY <1>1, <1>2 DEF IsPlan
<1>4. f.of \in 1 .. calls
  BY <1>1, <1>2, <1>3 DEF IsPlan
<1>5. stream' \in Seq({stream'[i] : i \in DOMAIN stream'})
  BY <1>1, PutType DEF Control
<1>6. ids[f.of] \in Nat
  BY <1>2, <1>4, ElementOfSeq
<1>7. ids' \in Seq(Nat) /\ Len(ids') = calls + 1
  BY <1>1, <1>2, <1>6, IdsAppended
<1>8. WriterType'
  BY <1>1, <1>2, <1>3, <1>5, <1>7 DEF WriterType
<1> QED
  BY <1>1, <1>8 DEF Control, CallFits, InCall

LEMMA NextControl == ASSUME Control, [Next]_vars PROVE Control'
<1> USE DEF Control
<1>1. ASSUME GoesOn, pc' \in {"new", "idle", "meta", "extents", "shared", "end", "failed"},
             at' \in Nat, last' \in Nat, next' \in Nat \ {0}
      PROVE  WriterType'
  <2>1. stream' \in Seq({stream'[i] : i \in DOMAIN stream'})
    BY <1>1, PutType DEF GoesOn, Silent, PutsOther, PutsExtent, PutsEnd
  <2> QED
    BY <1>1, <2>1 DEF WriterType, GoesOn
<1>2. /\ at \in Nat /\ last \in Nat /\ next \in Nat \ {0}
      /\ pc \in {"new", "idle", "meta", "extents", "shared", "end", "failed"}
  BY DEF WriterType
<1>3. ASSUME GoesOn, UNCHANGED <<pc, at, last, next>> PROVE Control'
  <2>1. CallFits'
    BY <1>3 DEF GoesOn, CallFits, InCall, IsNew, fileid, file, extents, ref_file
  <2> QED
    BY <1>1, <1>2, <1>3, <2>1
<1>4. ASSUME GoesOn, UNCHANGED <<at, last, next>>, pc' \in {"idle", "end", "failed"}, pc' = "end" => InCall
      PROVE  Control'
  <2>1. CallFits'
    BY <1>4 DEF GoesOn, CallFits, InCall, IsNew, fileid, file, extents, ref_file
  <2> QED
    BY <1>1, <1>2, <1>4, <2>1
<1>5. CASE GoesOn
  <2>1. CASE WriteHeader
    BY <1>4, <1>5, <2>1 DEF WriteHeader
  <2>2. CASE SendMeta \/ SendSnapshots
    BY <1>3, <1>5, <2>2 DEF SendMeta, SendSnapshots
  <2>3. CASE SendMetaEnd
    <3>1. CASE HasExtents(file.mode)
      <4>1. pc = "meta" /\ pc' = "extents" /\ UNCHANGED <<at, last, next>>
        BY <2>3, <3>1 DEF SendMetaEnd
      <4>2. Len(extents) \in Nat /\ last = 0 /\ next = 1
        BY <4>1, CurrentFile DEF CallFits, InCall
      <4>3. CallFits'
        BY <1>5, <3>1, <4>1, <4>2 DEF GoesOn, CallFits, InCall, IsNew, fileid, file, extents, HasExtents
      <4> QED
        BY <1>1, <1>2, <1>5, <4>1, <4>3
    <3>2. CASE ~ HasExtents(file.mode)
      BY <1>4, <1>5, <2>3, <3>2 DEF SendMetaEnd, InCall
    <3> QED
      BY <3>1, <3>2
  <2>4. CASE NextExtents
    <3>1. calls > 0 /\ IsNew(calls) /\ pc = "extents" /\ pc' = pc /\ at' = at
      BY <2>4 DEF NextExtents, CallFits, InCall
    <3>2. DOMAIN extents = 1 .. Len(extents) /\ Len(extents) \in Nat
      BY <3>1, CurrentFile
    <3>3. last' \in DOMAIN extents /\ next' \in DOMAIN extents /\ next' <= last'
      BY <2>4, <3>1, BatchBegins
    <3>4. last' \in Nat /\ next' \in Nat \ {0} /\ last' <= Len(extents) /\ next' <= last' + 1
      BY <3>2, <3>3
    <3>5. CallFits'
      BY <1>5, <3>1, <3>4 DEF GoesOn, CallFits, InCall, IsNew, fileid, file, extents, ref_file
    <3> QED
      BY <1>1, <1>2, <1>5, <3>1, <3>4, <3>5
  <2>5. CASE SendHole
    <3>1. HasNext /\ pc = "extents" /\ pc' = pc /\ UNCHANGED <<last, next>> /\ at' = Current.logical
      BY <2>5, NextAtHand DEF SendHole
    <3>2. at' \in Nat
      BY <3>1, CurrentIs, ExtentFields
    <3>3. CallFits'
      BY <1>5, <3>1 DEF GoesOn, CallFits, InCall, IsNew, fileid, file, extents, ref_file
    <3> QED
      BY <1>1, <1>2, <1>5, <3>1, <3>2, <3>3
  <2>6. CASE SendExplicitCopy \/ SendUnshared \/ SharedDone
    <3>1. HasNext /\ pc \in {"extents", "shared"} /\ pc' = "extents" /\ last' = last /\ Advance
      BY <2>6, NextAtHand DEF SendExplicitCopy, SendUnshared, SharedDone, AtExtent
    <3>2. at' \in Nat /\ next' \in Nat \ {0} /\ next' <= last + 1
      BY <3>1, Advances
    <3>3. CallFits'
      BY <1>5, <3>1, <3>2 DEF GoesOn, CallFits, InCall, IsNew, fileid, file, extents, ref_file
    <3> QED
      BY <1>1, <1>2, <1>5, <3>1, <3>2, <3>3
  <2>7. CASE AskMap
    <3>1. pc = "extents" /\ pc' = "shared" /\ UNCHANGED <<at, last, next>> /\ next <= last
      BY <1>2, <2>7 DEF AskMap, AtExtent, BatchDone
    <3>2. CallFits'
      BY <1>5, <3>1 DEF GoesOn, CallFits, InCall, IsNew, fileid, file, extents, ref_file
    <3> QED
      BY <1>1, <1>2, <1>5, <3>1, <3>2
  <2>8. CASE SendShared
    BY <1>3, <1>5, <2>8 DEF SendShared, SendNewShared, SendAvailShared
  <2>9. CASE SendTrailingHole \/ LoseTrailingHole
    BY <1>4, <1>5, <2>9 DEF SendTrailingHole, LoseTrailingHole, NoMoreExtents, InCall
  <2>10. CASE SendFileEnd
    BY <1>4, <1>5, <2>10 DEF SendFileEnd
  <2>11. CASE Fail
    BY <1>4, <1>5, <2>11 DEF Fail
  <2>12. CASE UNCHANGED vars
    BY <1>3, <1>5, <2>12 DEF vars
  <2>13. CASE Begin \/ WriteHardlink
    BY <2>13, BeginControl, HardlinkControl
  <2> QED
    BY <2>1, <2>2, <2>3, <2>4, <2>5, <2>6, <2>7, <2>8, <2>9, <2>10, <2>11, <2>12, <2>13 DEF Next, Step
<1> QED
  BY <1>5, StepsOfCall, BeginControl, HardlinkControl

LEMMA InitControl == Init => Control
<1> SUFFICES ASSUME Init PROVE Control
  OBVIOUS
<1>1. IsPlan(files)
  BY PlansAssumption DEF Init
<1>2. Len(files) \in Nat
  BY <1>1 DEF IsPlan
<1>3. ids = <<>> /\ ids \in Seq(Nat) /\ Len(ids) = 0 /\ stream \in Seq({stream[i] : i \in DOMAIN stream})
  BY EmptySeq DEF Init
<1> QED
  BY <1>1, <1>2, <1>3 DEF Init, Control, WriterType, CallFits, InCall
------------------------------------------------------------------------------
\* The packets that are there stay, and only one may be added.
LEMMA OneMore ==
    ASSUME Control, NEW p, Put(p), NEW n, n = Len(stream) + 1
    PROVE  /\ n \in Nat \ {0} /\ DOMAIN stream = 1 .. n - 1 /\ DOMAIN stream' = 1 .. n
           /\ \A i \in 1 .. n - 1 : stream'[i] = stream[i]
           /\ stream'[n] = p
           /\ \A i \in 1 .. n - 1 : /\ Announces(i)' <=> Announces(i)
                                    /\ \A type : Is(i, type)' <=> Is(i, type)
                                    /\ \A f : Ends(i, f)' <=> Ends(i, f)
           /\ Announces(n)' <=> p.type = "FILE" /\ p.mode # "HARD"
           /\ \A type : Is(n, type)' <=> p.type = type
           /\ \A f : Ends(n, f)' <=> p.type = "FILE_END" /\ p.file = f
<1>1. /\ Len(stream) \in Nat /\ DOMAIN stream = 1 .. Len(stream)
      /\ DOMAIN stream' = 1 .. Len(stream) + 1
      /\ \A i \in DOMAIN stream : stream'[i] = stream[i]
      /\ stream'[Len(stream) + 1] = p
  BY PutAppends DEF Control
<1>2. /\ n \in Nat \ {0} /\ DOMAIN stream = 1 .. n - 1 /\ DOMAIN stream' = 1 .. n
      /\ \A i \in 1 .. n - 1 : stream'[i] = stream[i]
      /\ stream'[n] = p
  BY <1>1
<1>3. \A i \in 1 .. n - 1 : /\ Announces(i)' <=> Announces(i)
                            /\ \A type : Is(i, type)' <=> Is(i, type)
                            /\ \A f : Ends(i, f)' <=> Ends(i, f)
  BY <1>2 DEF Announces, Is, Ends
<1>4. /\ Announces(n)' <=> p.type = "FILE" /\ p.mode # "HARD"
      /\ \A type : Is(n, type)' <=> p.type = type
      /\ \A f : Ends(n, f)' <=> p.type = "FILE_END" /\ p.file = f
  BY <1>2 DEF Announces, Is, Ends
<1> QED
  BY <1>2, <1>3, <1>4

\* What the files that were begun are.
LEMMA PlanOfCalls ==
    ASSUME Control
    PROVE  /\ calls \in Nat /\ next_fileid \in Nat
           /\ \A i \in 1 .. calls : /\ i \in DOMAIN files /\ ids[i] \in Nat
                                    /\ ~ IsNew(i) => files[i].of \in 1 .. i - 1 /\ IsNew(files[i].of)
                                    /\ IsNew(i) => AreExtents(files[i]) /\ CopiesOfEarlier(files, i)
           /\ InCall => fileid = ids[calls] /\ calls \in 1 .. calls /\ IsNew(calls) /\ fileid = next_fileid - 1
<1>1. IsPlan(files) /\ calls \in 0 .. Len(files) /\ ids \in Seq(Nat) /\ Len(ids) = calls /\ next_fileid \in 0 .. calls
  BY DEF Control, WriterType
<1>2. Len(files) \in Nat /\ DOMAIN files = 1 .. Len(files) /\ calls \in Nat /\ next_fileid \in Nat
  BY <1>1 DEF IsPlan
<1>3. ASSUME NEW i \in 1 .. calls PROVE ids[i] \in Nat /\ i \in DOMAIN files
  BY <1>1, <1>2, ElementOfSeq
<1>4. ASSUME NEW i \in 1 .. calls
      PROVE  /\ ~ IsNew(i) => files[i].of \in 1 .. i - 1 /\ IsNew(files[i].of)
             /\ IsNew(i) => AreExtents(files[i]) /\ CopiesOfEarlier(files, i)
  BY <1>1, <1>3 DEF IsPlan, IsNew
<1>5. InCall => fileid = ids[calls] /\ calls \in 1 .. calls /\ IsNew(calls) /\ fileid = next_fileid - 1
  BY <1>2 DEF Control, CallFits, fileid
<1> QED
  BY <1>2, <1>3, <1>4, <1>5

\* The order of the packets up to packet i.
WholeAt(i) ==
    /\ Is(i, "EXTENT") \/ Is(i, "FILE_END") =>
         /\ \E j \in 1 .. i - 1 : /\ Announces(j) /\ stream[j].file = stream[i].file
                                  /\ \A k \in 1 .. i - 1 : Announces(k) => k <= j
         /\ \A j \in 1 .. i - 1 : Is(j, "FILE_END") => stream[j].file # stream[i].file
    /\ Is(i, "FILE") =>
         IF stream[i].mode = "HARD" THEN \E j \in 1 .. i - 1 : Announces(j) /\ stream[j].file = stream[i].file
         ELSE \A j \in 1 .. i - 1 : Announces(j) =>
                stream[j].file # stream[i].file /\ \E k \in 1 .. i : Ends(k, stream[j].file)

AllWhole == \A i \in DOMAIN stream : WholeAt(i)

LEMMA WholeIsWholeAt == WholeFiles <=> AllWhole
<1>1. ASSUME NEW i \in DOMAIN stream
      PROVE  LET f == stream[i].file
                 begun == {j \in 1 .. i - 1 : Is(j, "FILE") /\ stream[j].mode # "HARD"}
             IN  /\ Is(i, "EXTENT") \/ Is(i, "FILE_END") =>
                      /\ \E j \in begun : stream[j].file = f /\ \A k \in begun : k <= j
                      /\ \A j \in 1 .. i - 1 : Is(j, "FILE_END") => stream[j].file # f
                 /\ Is(i, "FILE") =>
                      IF stream[i].mode = "HARD" THEN \E j \in begun : stream[j].file = f
                      ELSE \A j \in begun : stream[j].file # f /\ \E k \in 1 .. i : Ends(k, stream[j].file)
             <=> WholeAt(i)
  BY DEF WholeAt, Announces
<1> QED
  BY <1>1 DEF WholeFiles, AllWhole

LEMMA WholeStays ==
    ASSUME Control, WholeFiles, NEW p, Put(p), NEW n, n = Len(stream) + 1, WholeAt(n)'
    PROVE  WholeFiles'
<1>1. /\ n \in Nat \ {0} /\ DOMAIN stream = 1 .. n - 1 /\ DOMAIN stream' = 1 .. n
      /\ \A i \in 1 .. n - 1 : stream'[i] = stream[i]
      /\ \A i \in 1 .. n - 1 : /\ Announces(i)' <=> Announces(i)
                               /\ \A type : Is(i, type)' <=> Is(i, type)
                               /\ \A f : Ends(i, f)' <=> Ends(i, f)
  BY OneMore
<1>3. ASSUME NEW i \in 1 .. n - 1 PROVE WholeAt(i)'
  <2>1. WholeAt(i)
    BY <1>1, WholeIsWholeAt DEF AllWhole
  <2>2. \A j \in 1 .. i : j \in 1 .. n - 1
    BY <1>1
  <2>3. i \in 1 .. i
    BY <1>1
  <2>4. \A j \in 1 .. i - 1 : j \in 1 .. i
    BY <1>1
  <2> QED
    BY <1>1, <2>1, <2>2, <2>3, <2>4 DEF WholeAt
<1>4. \A i \in DOMAIN stream' : i \in 1 .. n - 1 \/ i = n
  BY <1>1
<1>5. AllWhole'
  BY <1>3, <1>4 DEF AllWhole
<1> QED
  BY <1>5, WholeIsWholeAt, PTL
------------------------------------------------------------------------------
LEMMA BeginOrder == ASSUME Order, Begin PROVE Order'
<1> DEFINE f == files[calls + 1]
           p == FilePacket(next_fileid, f.mode, f.size)
<1>1. /\ IsNew(calls + 1) /\ f.mode # "HARD" /\ Put(p) /\ pc = "idle" /\ pc' \in {"extents", "meta"}
      /\ ids' = Append(ids, next_fileid) /\ next_fileid' = next_fileid + 1 /\ calls' = calls + 1 /\ files' = files
  BY DEF Begin, IsNew
<1>2. Control /\ Control'
  BY NextControl DEF Order, Control, Next
<1>3. PICK n : n = Len(stream) + 1
  OBVIOUS
<1>4. /\ p.type = "FILE" /\ p.mode = f.mode /\ p.file = next_fileid
      /\ p = FilePacket(next_fileid, f.mode, f.size)
  BY DEF FilePacket
<1> HIDE DEF p
<1>5. /\ n \in Nat \ {0} /\ DOMAIN stream = 1 .. n - 1 /\ DOMAIN stream' = 1 .. n
      /\ \A i \in 1 .. n - 1 : stream'[i] = stream[i]
      /\ stream'[n] = p
      /\ \A i \in 1 .. n - 1 : /\ Announces(i)' <=> Announces(i)
                               /\ \A type : Is(i, type)' <=> Is(i, type)
                               /\ \A g : Ends(i, g)' <=> Ends(i, g)
      /\ Announces(n)' /\ Is(n, "FILE")' /\ ~ Is(n, "EXTENT")' /\ ~ Is(n, "FILE_END")' /\ \A g : ~ Ends(n, g)'
  BY <1>1, <1>2, <1>3, <1>4, OneMore
<1>6. /\ \A i \in 1 .. calls : ids'[i] = ids[i] /\ ids[i] \in Nat
      /\ ids'[calls + 1] = next_fileid
  BY <1>1, <1>2, IdsAppended, PlanOfCalls DEF Control, WriterType
<1>7. /\ calls \in Nat /\ next_fileid \in Nat
      /\ \A i \in 1 .. calls : /\ ids[i] < next_fileid
                               /\ ~ IsNew(i) => files[i].of \in 1 .. i - 1 /\ files[i].of \in 1 .. calls
      /\ \A i \in 1 .. calls + 1 : i \in 1 .. calls \/ i = calls + 1
      /\ \A i : IsNew(i)' <=> IsNew(i)
  <2>1. calls \in Nat /\ next_fileid \in Nat
    BY <1>1, <1>2, PlanOfCalls DEF Order
  <2>2. ASSUME NEW i \in 1 .. calls, ~ IsNew(i) PROVE files[i].of \in 1 .. i - 1 /\ files[i].of \in 1 .. calls
    <3>1. files[i].of \in 1 .. i - 1
      BY <1>1, <1>2, <2>2, PlanOfCalls DEF Order
    <3> QED
      BY <2>1, <3>1
  <2>3. \A i \in 1 .. calls : ids[i] < next_fileid
    BY DEF Order, IdsGrow
  <2>4. \A i : IsNew(i)' <=> IsNew(i)
    BY <1>1, <1>2 DEF IsNew
  <2>5. \A i \in 1 .. calls + 1 : i \in 1 .. calls \/ i = calls + 1
    BY <2>1
  <2> QED
    BY <2>1, <2>2, <2>3, <2>4, <2>5
<1>8. IdsGrow'
  <2>1. \A i \in 1 .. calls + 1 : ids'[i] < next_fileid + 1
    BY <1>6, <1>7
  <2>2. \A i, j \in 1 .. calls + 1 : i < j /\ IsNew(i) /\ IsNew(j) => ids'[i] < ids'[j]
    <3> SUFFICES ASSUME NEW i \in 1 .. calls + 1, NEW j \in 1 .. calls + 1, i < j, IsNew(i), IsNew(j)
                 PROVE  ids'[i] < ids'[j]
      OBVIOUS
    <3>1. i \in 1 .. calls
      BY <1>7
    <3> QED
      BY <1>6, <1>7, <3>1 DEF Order, IdsGrow
  <2>3. \A i \in 1 .. calls + 1 : ~ IsNew(i) => ids'[i] = ids'[files[i].of]
    BY <1>1, <1>6, <1>7 DEF Order, IdsGrow
  <2> QED
    BY <1>1, <1>7, <2>1, <2>2, <2>3 DEF IdsGrow
<1>9. Announced'
  <2>1. \A i \in 1 .. calls + 1 : IsNew(i) =>
          \E j \in 1 .. n : stream'[j] = FilePacket(ids'[i], files[i].mode, files[i].size)
    <3> SUFFICES ASSUME NEW i \in 1 .. calls + 1, IsNew(i)
                 PROVE  \E j \in 1 .. n : stream'[j] = FilePacket(ids'[i], files[i].mode, files[i].size)
      OBVIOUS
    <3>1. CASE i \in 1 .. calls
      <4>1. PICK j \in 1 .. n - 1 : stream[j] = FilePacket(ids[i], files[i].mode, files[i].size)
        BY <1>5, <3>1 DEF Order, Announced
      <4> QED
        BY <1>5, <1>6, <3>1, <4>1
    <3>2. CASE i = calls + 1
      BY <1>4, <1>5, <1>6, <3>2
    <3> QED
      BY <1>7, <3>1, <3>2
  <2>2. \A j \in 1 .. n : Announces(j)' =>
          \E i \in 1 .. calls + 1 : IsNew(i) /\ stream'[j] = FilePacket(ids'[i], files[i].mode, files[i].size)
    <3> SUFFICES ASSUME NEW j \in 1 .. n, Announces(j)'
                 PROVE  \E i \in 1 .. calls + 1 : IsNew(i) /\ stream'[j] = FilePacket(ids'[i], files[i].mode, files[i].size)
      OBVIOUS
    <3>1. CASE j = n
      <4> calls + 1 \in 1 .. calls + 1
        BY <1>7
      <4> QED
        BY <1>1, <1>4, <1>5, <1>6, <3>1
    <3>2. CASE j # n
      <4>1. j \in 1 .. n - 1
        BY <1>5, <3>2
      <4>2. PICK i \in 1 .. calls : IsNew(i) /\ stream[j] = FilePacket(ids[i], files[i].mode, files[i].size)
        BY <1>5, <4>1 DEF Order, Announced
      <4>3. i \in 1 .. calls + 1
        BY <1>7
      <4> QED
        BY <1>5, <1>6, <4>1, <4>2, <4>3
    <3> QED
      BY <3>1, <3>2
  <2>3. \A j \in 1 .. n - 1 : Announces(j) => stream[j].file < next_fileid /\ stream[j].file \in Nat
    <3> SUFFICES ASSUME NEW j \in 1 .. n - 1, Announces(j)
                 PROVE  stream[j].file < next_fileid /\ stream[j].file \in Nat
      OBVIOUS
    <3>1. PICK i \in 1 .. calls : stream[j] = FilePacket(ids[i], files[i].mode, files[i].size)
      BY <1>5 DEF Order, Announced
    <3>2. stream[j].file = ids[i]
      BY <3>1 DEF FilePacket
    <3> QED
      BY <1>6, <1>7, <3>2
  <2>4. \A j, k \in 1 .. n : j < k /\ Announces(j)' /\ Announces(k)' => stream'[j].file < stream'[k].file
    <3> SUFFICES ASSUME NEW j \in 1 .. n, NEW k \in 1 .. n, j < k, Announces(j)', Announces(k)'
                 PROVE  stream'[j].file < stream'[k].file
      OBVIOUS
    <3>1. j \in 1 .. n - 1 /\ (k \in 1 .. n - 1 \/ k = n)
      BY <1>5
    <3> QED
      BY <1>4, <1>5, <2>3, <3>1 DEF Order, Announced
  <2>5. \A j \in 1 .. n : Is(j, "EXTENT")' \/ Is(j, "FILE_END")' =>
          \E i \in 1 .. calls + 1 : IsNew(i) /\ stream'[j].file = ids'[i]
    <3> SUFFICES ASSUME NEW j \in 1 .. n, Is(j, "EXTENT")' \/ Is(j, "FILE_END")'
                 PROVE  \E i \in 1 .. calls + 1 : IsNew(i) /\ stream'[j].file = ids'[i]
      OBVIOUS
    <3>1. j \in 1 .. n - 1
      BY <1>5
    <3>2. PICK i \in 1 .. calls : IsNew(i) /\ stream[j].file = ids[i]
      BY <1>5, <3>1 DEF Order, Announced
    <3>3. i \in 1 .. calls + 1
      BY <1>7
    <3> QED
      BY <1>5, <1>6, <3>1, <3>2, <3>3
  <2> QED
    BY <1>1, <1>5, <1>7, <2>1, <2>2, <2>4, <2>5 DEF Announced
<1>10. \A j \in 1 .. n - 1 : Is(j, "FILE_END") => stream[j].file # next_fileid
  <2> SUFFICES ASSUME NEW j \in 1 .. n - 1, Is(j, "FILE_END") PROVE stream[j].file # next_fileid
    OBVIOUS
  <2>1. PICK i \in 1 .. calls : stream[j].file = ids[i]
    BY <1>5 DEF Order, Announced
  <2> QED
    BY <1>6, <1>7, <2>1
<1>11. Ended'
  <2>1. \A i \in 1 .. calls : IsNew(i) => \E j \in 1 .. n : Ends(j, ids[i])'
    <3> SUFFICES ASSUME NEW i \in 1 .. calls, IsNew(i) PROVE \E j \in 1 .. n : Ends(j, ids[i])'
      OBVIOUS
    <3>1. PICK j \in 1 .. n - 1 : Ends(j, ids[i])
      BY <1>1, <1>5 DEF Order, Ended
    <3> QED
      BY <1>5, <1>6, <3>1 DEF Ends, Is
  <2>2. fileid' = next_fileid
    BY <1>1, <1>6 DEF fileid
  <2>3. \A j \in 1 .. n : ~ Ends(j, fileid)'
    <3> SUFFICES ASSUME NEW j \in 1 .. n PROVE ~ Ends(j, fileid)'
      OBVIOUS
    <3>1. CASE j = n
      BY <1>5, <3>1 DEF Ends, Is
    <3>2. CASE j # n
      <4>1. j \in 1 .. n - 1
        BY <1>5, <3>2
      <4> QED
        BY <1>5, <1>10, <2>2, <4>1 DEF Ends, Is
    <3> QED
      BY <3>1, <3>2
  <2>4. pc' # "idle" /\ pc' # "new" /\ DOMAIN stream' = 1 .. n
    BY <1>1, <1>5
  <2>5. \A i \in 1 .. calls' : IsNew(i)' /\ i < calls' => \E j \in DOMAIN stream' : Ends(j, ids[i])'
    <3> SUFFICES ASSUME NEW i \in 1 .. calls', IsNew(i)', i < calls'
                 PROVE  \E j \in DOMAIN stream' : Ends(j, ids[i])'
      OBVIOUS
    <3>1. i \in 1 .. calls /\ IsNew(i)
      BY <1>1, <1>7
    <3> QED
      BY <2>1, <2>4, <3>1
  <2> QED
    BY <2>3, <2>4, <2>5 DEF Ended
<1>12. WholeFiles'
  <2>1. ASSUME NEW j \in 1 .. n - 1, Announces(j)
        PROVE  stream[j].file # next_fileid /\ \E k \in 1 .. n - 1 : Ends(k, stream[j].file)
    <3>1. PICK i \in 1 .. calls : IsNew(i) /\ stream[j] = FilePacket(ids[i], files[i].mode, files[i].size)
      BY <1>5, <2>1 DEF Order, Announced
    <3>2. stream[j].file = ids[i]
      BY <3>1 DEF FilePacket
    <3>3. PICK k \in 1 .. n - 1 : Ends(k, ids[i])
      BY <1>1, <1>5, <3>1 DEF Order, Ended
    <3> QED
      BY <1>6, <1>7, <3>2, <3>3
  <2>2. ASSUME NEW j \in 1 .. n - 1, Announces(j)'
        PROVE  stream'[j].file # stream'[n].file /\ \E k \in 1 .. n : Ends(k, stream[j].file)'
    <3>1. Announces(j)
      BY <1>5, <2>2
    <3>2. stream[j].file # next_fileid
      BY <2>1, <3>1
    <3>3. PICK k \in 1 .. n - 1 : Ends(k, stream[j].file)
      BY <2>1, <3>1
    <3>4. Ends(k, stream'[j].file) /\ stream'[k] = stream[k] /\ stream'[j] = stream[j]
      BY <1>5, <3>3
    <3> QED
      BY <1>4, <1>5, <3>2, <3>4 DEF Ends, Is
  <2>3. WholeAt(n)'
    BY <1>1, <1>4, <1>5, <2>2 DEF WholeAt
  <2> QED
    BY <1>1, <1>2, <1>3, <2>3, WholeStays DEF Order
<1> QED
  BY <1>2, <1>8, <1>9, <1>11, <1>12 DEF Order, Control

LEMMA HardlinkOrder == ASSUME Order, WriteHardlink PROVE Order'
<1> DEFINE f == files[calls + 1]
           p == FilePacket(ids[f.of], "HARD", f.size)
<1>1. /\ calls < Len(files) /\ ~ IsNew(calls + 1) /\ f.mode = "HARD" /\ Put(p) /\ pc = "idle" /\ pc' = "idle"
      /\ ids' = Append(ids, ids[f.of]) /\ next_fileid' = next_fileid /\ calls' = calls + 1 /\ files' = files
  BY DEF WriteHardlink, IsNew
<1>2. Control /\ Control'
  BY NextControl DEF Order, Control, Next
<1>3. PICK n : n = Len(stream) + 1
  OBVIOUS
<1>4. p.type = "FILE" /\ p.mode = "HARD" /\ p.file = ids[f.of]
  BY DEF FilePacket
<1> HIDE DEF p
<1>5. /\ n \in Nat \ {0} /\ DOMAIN stream = 1 .. n - 1 /\ DOMAIN stream' = 1 .. n
      /\ \A i \in 1 .. n - 1 : stream'[i] = stream[i]
      /\ stream'[n] = p
      /\ \A i \in 1 .. n - 1 : /\ Announces(i)' <=> Announces(i)
                               /\ \A type : Is(i, type)' <=> Is(i, type)
                               /\ \A g : Ends(i, g)' <=> Ends(i, g)
      /\ ~ Announces(n)' /\ Is(n, "FILE")' /\ ~ Is(n, "EXTENT")' /\ ~ Is(n, "FILE_END")'
      /\ \A i \in 1 .. n : i \in 1 .. n - 1 \/ i = n
      /\ \A i \in 1 .. n - 1 : i \in 1 .. n
  BY <1>1, <1>2, <1>3, <1>4, OneMore
<1>6. /\ IsPlan(files) /\ DOMAIN files = 1 .. Len(files) /\ Len(files) \in Nat
      /\ calls \in Nat /\ next_fileid \in Nat /\ Len(ids) = calls /\ ids \in Seq(Nat)
  BY <1>2, PlanOfCalls DEF Control, WriterType, IsPlan
<1>7. f.of \in 1 .. calls /\ IsNew(f.of)
  <2> calls + 1 \in DOMAIN files
    BY <1>1, <1>6
  <2> QED
    BY <1>1, <1>6 DEF IsPlan, IsNew
<1>8. ids[f.of] \in Nat
  BY <1>2, <1>7, PlanOfCalls
<1>9. /\ \A i \in 1 .. calls : ids'[i] = ids[i] /\ ids[i] \in Nat
      /\ ids'[calls + 1] = ids[f.of]
  BY <1>1, <1>6, <1>8, IdsAppended
<1>10. /\ \A i \in 1 .. calls + 1 : i \in 1 .. calls \/ i = calls + 1
       /\ \A i : IsNew(i)' <=> IsNew(i)
       /\ \A i \in 1 .. calls : /\ ids[i] < next_fileid
                                /\ ~ IsNew(i) => files[i].of \in 1 .. i - 1 /\ files[i].of \in 1 .. calls
  BY <1>1, <1>2, <1>6, PlanOfCalls DEF Order, IdsGrow, IsNew
<1>11. IdsGrow'
  <2>1. \A i \in 1 .. calls + 1 : ids'[i] < next_fileid
    BY <1>7, <1>9, <1>10
  <2>2. \A i, j \in 1 .. calls + 1 : i < j /\ IsNew(i) /\ IsNew(j) => ids'[i] < ids'[j]
    BY <1>1, <1>9, <1>10 DEF Order, IdsGrow
  <2>3. \A i \in 1 .. calls + 1 : ~ IsNew(i) => ids'[i] = ids'[files[i].of]
    <3> SUFFICES ASSUME NEW i \in 1 .. calls + 1, ~ IsNew(i) PROVE ids'[i] = ids'[files[i].of]
      OBVIOUS
    <3>1. CASE i = calls + 1
      BY <1>7, <1>9, <3>1
    <3>2. CASE i # calls + 1
      BY <1>9, <1>10, <3>2 DEF Order, IdsGrow
    <3> QED
      BY <3>1, <3>2
  <2> QED
    BY <1>1, <1>10, <2>1, <2>2, <2>3 DEF IdsGrow
<1>12. \A i \in 1 .. calls' : IsNew(i)' => i \in 1 .. calls /\ IsNew(i)
  BY <1>1, <1>10
<1>13. \A i \in 1 .. calls : i \in 1 .. calls'
  BY <1>1, <1>6
<1>14. Announced'
  <2>1. \A i \in 1 .. calls' : IsNew(i)' =>
          \E j \in DOMAIN stream' : stream'[j] = FilePacket(ids'[i], files'[i].mode, files'[i].size)
    <3> SUFFICES ASSUME NEW i \in 1 .. calls, IsNew(i)
                 PROVE  \E j \in 1 .. n : stream'[j] = FilePacket(ids'[i], files[i].mode, files[i].size)
      BY <1>1, <1>5, <1>12
    <3>1. PICK j \in 1 .. n - 1 : stream[j] = FilePacket(ids[i], files[i].mode, files[i].size)
      BY <1>5 DEF Order, Announced
    <3> QED
      BY <1>5, <1>9, <3>1
  <2>2. \A j \in DOMAIN stream' : Announces(j)' =>
          \E i \in 1 .. calls' : IsNew(i)' /\ stream'[j] = FilePacket(ids'[i], files'[i].mode, files'[i].size)
    <3> SUFFICES ASSUME NEW j \in 1 .. n - 1, Announces(j)
                 PROVE  \E i \in 1 .. calls' : IsNew(i) /\ stream'[j] = FilePacket(ids'[i], files[i].mode, files[i].size)
      BY <1>1, <1>5, <1>10
    <3>1. PICK i \in 1 .. calls : IsNew(i) /\ stream[j] = FilePacket(ids[i], files[i].mode, files[i].size)
      BY <1>5 DEF Order, Announced
    <3> QED
      BY <1>5, <1>9, <1>13, <3>1
  <2>3. \A j, k \in DOMAIN stream' : j < k /\ Announces(j)' /\ Announces(k)' => stream'[j].file < stream'[k].file
    <3> SUFFICES ASSUME NEW j \in 1 .. n - 1, NEW k \in 1 .. n - 1, j < k, Announces(j), Announces(k)
                 PROVE  stream'[j].file < stream'[k].file
      BY <1>5
    <3> QED
      BY <1>5 DEF Order, Announced
  <2>4. \A j \in DOMAIN stream' : Is(j, "EXTENT")' \/ Is(j, "FILE_END")' =>
          \E i \in 1 .. calls' : IsNew(i)' /\ stream'[j].file = ids'[i]
    <3> SUFFICES ASSUME NEW j \in 1 .. n - 1, Is(j, "EXTENT") \/ Is(j, "FILE_END")
                 PROVE  \E i \in 1 .. calls' : IsNew(i) /\ stream'[j].file = ids'[i]
      BY <1>5, <1>10
    <3>1. PICK i \in 1 .. calls : IsNew(i) /\ stream[j].file = ids[i]
      BY <1>5 DEF Order, Announced
    <3> QED
      BY <1>5, <1>9, <1>13, <3>1
  <2> QED
    BY <2>1, <2>2, <2>3, <2>4 DEF Announced
<1>15. Ended'
  <2>1. \A i \in 1 .. calls' : IsNew(i)' => \E j \in DOMAIN stream' : Ends(j, ids[i])'
    <3> SUFFICES ASSUME NEW i \in 1 .. calls, IsNew(i) PROVE \E j \in 1 .. n : Ends(j, ids[i])'
      BY <1>5, <1>12
    <3>1. PICK j \in 1 .. n - 1 : Ends(j, ids[i])
      BY <1>1, <1>5 DEF Order, Ended
    <3> QED
      BY <1>5, <1>9, <3>1 DEF Ends, Is
  <2> QED
    BY <1>1, <2>1 DEF Ended, InCall
<1>16. WholeFiles'
  <2>1. PICK j \in 1 .. n - 1 : stream[j] = FilePacket(ids[f.of], files[f.of].mode, files[f.of].size)
    BY <1>5, <1>7 DEF Order, Announced
  <2>2. Announces(j) /\ stream[j].file = ids[f.of]
    BY <1>7, <2>1 DEF Announces, Is, FilePacket, IsNew
  <2>3. WholeAt(n)'
    BY <1>4, <1>5, <2>2 DEF WholeAt
  <2> QED
    BY <1>1, <1>2, <1>3, <2>3, WholeStays DEF Order
<1> QED
  BY <1>2, <1>11, <1>14, <1>15, <1>16 DEF Order, Control

\* The packet that announced the current file is the last one that announces a file.
LEMMA CurrentAnnounced ==
    ASSUME Order, InCall
    PROVE  \E j \in DOMAIN stream :
             /\ stream[j] = FilePacket(fileid, file.mode, file.size)
             /\ Announces(j) /\ stream[j].file = fileid
             /\ \A k \in DOMAIN stream : Announces(k) => k <= j
<1>1. /\ fileid = ids[calls] /\ calls \in 1 .. calls /\ IsNew(calls) /\ fileid = next_fileid - 1
      /\ calls \in Nat /\ next_fileid \in Nat /\ \A i \in 1 .. calls : ids[i] \in Nat
  BY PlanOfCalls DEF Order, Control
<1>2. PICK j \in DOMAIN stream : stream[j] = FilePacket(fileid, file.mode, file.size)
  BY <1>1 DEF Order, Announced, file
<1>3. Announces(j) /\ stream[j].file = fileid
  BY <1>1, <1>2 DEF Announces, Is, FilePacket, IsNew, file
<1>4. ASSUME NEW k \in DOMAIN stream, Announces(k) PROVE k <= j
  <2>1. PICK i \in 1 .. calls : IsNew(i) /\ stream[k] = FilePacket(ids[i], files[i].mode, files[i].size)
    BY <1>4 DEF Order, Announced
  <2>2. stream[k].file = ids[i]
    BY <2>1 DEF FilePacket
  <2>3. ids[i] < next_fileid
    BY DEF Order, IdsGrow
  <2>4. ~ (fileid < stream[k].file)
    BY <1>1, <2>2, <2>3
  <2>5. ~ (j < k)
    BY <1>3, <1>4, <2>4 DEF Order, Announced
  <2>6. DOMAIN stream \subseteq Nat
    BY LenProperties DEF Order, WriterType
  <2> QED
    BY <2>5, <2>6
<1> QED
  BY <1>2, <1>3, <1>4

LEMMA PutOrder ==
    ASSUME Order, UNCHANGED <<files, calls, ids, next_fileid>>, Control', NEW p, Put(p),
           p.type # "FILE",
           p.type \in {"EXTENT", "FILE_END"} => InCall /\ p.file = fileid,
           p.type # "FILE_END" => (InCall' => InCall),
           p.type = "FILE_END" => ~ InCall',
           pc' # "new", pc' = "idle" => p.type = "FILE_END" \/ pc \in {"new", "idle"}
    PROVE  Order'
<1>1. PICK n : n = Len(stream) + 1
  OBVIOUS
<1>2. /\ n \in Nat \ {0} /\ DOMAIN stream = 1 .. n - 1 /\ DOMAIN stream' = 1 .. n
      /\ \A i \in 1 .. n - 1 : stream'[i] = stream[i]
      /\ stream'[n] = p
      /\ \A i \in 1 .. n - 1 : /\ Announces(i)' <=> Announces(i)
                               /\ \A type : Is(i, type)' <=> Is(i, type)
                               /\ \A g : Ends(i, g)' <=> Ends(i, g)
      /\ ~ Announces(n)' /\ \A type : Is(n, type)' <=> p.type = type
      /\ \A g : Ends(n, g)' <=> p.type = "FILE_END" /\ p.file = g
      /\ \A i \in 1 .. n : i \in 1 .. n - 1 \/ i = n
      /\ \A i \in 1 .. n - 1 : i \in 1 .. n
  BY <1>1, OneMore DEF Order, Control
<1>3. \A i : IsNew(i)' <=> IsNew(i)
  BY DEF IsNew
<1>4. /\ InCall => fileid = ids[calls] /\ calls \in 1 .. calls /\ IsNew(calls)
      /\ fileid' = fileid
  BY PlanOfCalls DEF Order, Control, fileid
<1>5. IdsGrow'
  BY <1>3 DEF Order, IdsGrow
<1>6. Announced'
  <2>1. \A i \in 1 .. calls : IsNew(i)' =>
          \E j \in DOMAIN stream' : stream'[j] = FilePacket(ids[i], files[i].mode, files[i].size)
    <3> SUFFICES ASSUME NEW i \in 1 .. calls, IsNew(i)
                 PROVE  \E j \in 1 .. n : stream'[j] = FilePacket(ids[i], files[i].mode, files[i].size)
      BY <1>2, <1>3
    <3>1. PICK j \in 1 .. n - 1 : stream[j] = FilePacket(ids[i], files[i].mode, files[i].size)
      BY <1>2 DEF Order, Announced
    <3> QED
      BY <1>2, <3>1
  <2>2. \A j \in DOMAIN stream' : Announces(j)' =>
          \E i \in 1 .. calls : IsNew(i)' /\ stream'[j] = FilePacket(ids[i], files[i].mode, files[i].size)
    <3> SUFFICES ASSUME NEW j \in 1 .. n - 1, Announces(j)
                 PROVE  \E i \in 1 .. calls : IsNew(i) /\ stream'[j] = FilePacket(ids[i], files[i].mode, files[i].size)
      BY <1>2, <1>3
    <3> QED
      BY <1>2 DEF Order, Announced
  <2>3. \A j, k \in DOMAIN stream' : j < k /\ Announces(j)' /\ Announces(k)' => stream'[j].file < stream'[k].file
    <3> SUFFICES ASSUME NEW j \in 1 .. n - 1, NEW k \in 1 .. n - 1, j < k, Announces(j), Announces(k)
                 PROVE  stream'[j].file < stream'[k].file
      BY <1>2
    <3> QED
      BY <1>2 DEF Order, Announced
  <2>4. \A j \in DOMAIN stream' : Is(j, "EXTENT")' \/ Is(j, "FILE_END")' =>
          \E i \in 1 .. calls : IsNew(i)' /\ stream'[j].file = ids[i]
    <3> SUFFICES ASSUME NEW j \in 1 .. n, Is(j, "EXTENT")' \/ Is(j, "FILE_END")'
                 PROVE  \E i \in 1 .. calls : IsNew(i) /\ stream'[j].file = ids[i]
      BY <1>2, <1>3
    <3>1. CASE j = n
      BY <1>2, <1>4, <3>1
    <3>2. CASE j \in 1 .. n - 1
      BY <1>2, <3>2 DEF Order, Announced
    <3> QED
      BY <1>2, <3>1, <3>2
  <2> QED
    BY <2>1, <2>2, <2>3, <2>4 DEF Announced
<1>7. Ended'
  <2>1. ASSUME NEW i \in 1 .. calls, IsNew(i), i < calls \/ pc' = "idle"
        PROVE  \E j \in DOMAIN stream' : Ends(j, ids[i])'
    <3>1. CASE \E j \in DOMAIN stream : Ends(j, ids[i])
      BY <1>2, <3>1 DEF Ends, Is
    <3>2. CASE ~ \E j \in DOMAIN stream : Ends(j, ids[i])
      <4>1. ~ (i < calls) /\ pc # "idle" /\ pc # "new" /\ pc' = "idle"
        BY <2>1, <3>2, PlanOfCalls DEF Order, Ended
      <4>2. i = calls /\ p.type = "FILE_END"
        BY <4>1, PlanOfCalls DEF Order, Control
      <4> QED
        BY <1>2, <1>4, <4>2 DEF Ends, Is
    <3> QED
      BY <3>1, <3>2
  <2>2. ASSUME InCall', NEW j \in DOMAIN stream' PROVE ~ Ends(j, fileid)'
    <3>1. InCall /\ p.type # "FILE_END"
      BY <2>2
    <3>2. \A k \in 1 .. n - 1 : ~ Ends(k, fileid)
      BY <1>2, <3>1 DEF Order, Ended
    <3> QED
      BY <1>2, <1>4, <3>1, <3>2 DEF Ends, Is
  <2> QED
    BY <1>3, <2>1, <2>2 DEF Ended
<1>8. WholeFiles'
  <2>1. WholeAt(n)'
    <3>1. CASE p.type \in {"EXTENT", "FILE_END"}
      <4>1. InCall /\ p.file = fileid
        BY <3>1
      <4>2. PICK j \in 1 .. n - 1 : /\ Announces(j) /\ stream[j].file = fileid
                                    /\ \A k \in 1 .. n - 1 : Announces(k) => k <= j
        BY <1>2, <4>1, CurrentAnnounced
      <4>3. \A k \in 1 .. n - 1 : Is(k, "FILE_END") => stream[k].file # fileid
        BY <1>2, <4>1 DEF Order, Ended, Ends
      <4> QED
        BY <1>2, <4>1, <4>2, <4>3 DEF WholeAt
    <3>2. CASE p.type \notin {"EXTENT", "FILE_END"}
      BY <1>2, <3>2 DEF WholeAt
    <3> QED
      BY <3>1, <3>2
  <2> QED
    BY <1>1, <2>1, WholeStays DEF Order, Control
<1> QED
  BY <1>5, <1>6, <1>7, <1>8 DEF Order, Control

LEMMA NextOrder == ASSUME Order, [Next]_vars PROVE Order'
<1>1. Control'
  BY NextControl DEF Order, Control
<1>2. CASE GoesOn /\ Silent
  <2>1. UNCHANGED <<files, calls, ids, next_fileid, stream>>
    BY <1>2 DEF GoesOn, Silent
  <2>2. \A i : IsNew(i)' <=> IsNew(i)
    BY <2>1 DEF IsNew
  <2>3. \A i : Announces(i)' <=> Announces(i)
    BY <2>1 DEF Announces, Is
  <2>4. IdsGrow' /\ Announced'
    BY <2>1, <2>2, <2>3 DEF Order, IdsGrow, Announced, Is
  <2>5. Ended'
    BY <1>2, <2>1, <2>2 DEF Order, Ended, Ends, Is, Silent, fileid
  <2>6. WholeFiles'
    BY <2>1 DEF Order, WholeFiles, Is, Ends
  <2> QED
    BY <1>1, <2>4, <2>5, <2>6 DEF Order, Control
<1>3. ASSUME GoesOn, NEW p, PutsOther(p) \/ PutsExtent(p) PROVE Order'
  BY <1>1, <1>3, PutOrder DEF GoesOn, PutsOther, PutsExtent, InCall
<1>4. CASE GoesOn /\ PutsEnd
  <2> DEFINE p == EndPacket(fileid)
  <2>1. p.type = "FILE_END" /\ p.file = fileid
    BY DEF EndPacket
  <2> HIDE DEF p
  <2>2. Put(p) /\ InCall /\ pc' = "idle" /\ ~ InCall' /\ UNCHANGED <<files, calls, ids, next_fileid>>
    BY <1>4 DEF GoesOn, PutsEnd, InCall, p
  <2> QED
    BY <1>1, <2>1, <2>2, PutOrder
<1> QED
  BY <1>2, <1>3, <1>4, StepsOfCall, BeginOrder, HardlinkOrder DEF GoesOn, Order

LEMMA InitOrder == Init => Order
<1> SUFFICES ASSUME Init PROVE Order
  OBVIOUS
<1>1. Control
  BY InitControl
<1>2. DOMAIN stream = {} /\ calls = 0 /\ pc = "new" /\ 1 .. calls = {}
  BY DEF Init
<1> QED
  BY <1>1, <1>2 DEF Order, Control, IdsGrow, Announced, Ended, InCall, WholeFiles

\* Whatever is added, each file is finished before another one starts, and only
\* the one begun last gets extents: FIES_F_WHOLE_FILES, over all calls of
\* lib/fies_writer.c.
THEOREM FilesAreAlwaysWhole == Spec => []WholeFiles
<1>1. Init => Order
  BY InitOrder
<1>2. Order /\ [Next]_vars => Order'
  BY NextOrder
<1>3. Order => WholeFiles
  BY DEF Order
<1> QED
  BY <1>1, <1>2, <1>3, PTL DEF Spec
------------------------------------------------------------------------------
\* The next extent goes on where the call is, unless it leaves a hole there.
LEMMA AtIsLogical ==
    ASSUME Control, Mapped, AtExtent
    PROVE  HasNext /\ pc = "extents" /\ at <= Current.logical /\ (~ ref_file => at = Current.logical)
<1>1. HasNext /\ pc = "extents" /\ (ref_file \/ Current.logical <= at) /\ at \in Nat /\ next \in Nat
  BY NextAtHand DEF AtExtent, Control, WriterType
<1>2. Current.logical = extents[next].logical /\ next \in DOMAIN extents /\ Current \in FileExtent
  BY <1>1, CurrentIs DEF Control
<1>3. at <= Current.logical
  BY <1>1, <1>2 DEF Mapped
<1> QED
  BY <1>1, <1>2, <1>3, ExtentFields

LEMMA AdvanceMapped ==
    ASSUME Control, HasNext, Advance, ~ ref_file => at = Current.logical, UNCHANGED <<files, calls>>
    PROVE  Mapped' /\ at' = End(Current) /\ at' <= file.size
<1> DEFINE l == extents[MergedUpTo]
<1>1. /\ MergedUpTo \in next .. last /\ MergedUpTo \in DOMAIN extents /\ l \in FileExtent
      /\ Current \in FileExtent /\ End(Current) <= file.size
      /\ End(Current) = (IF End(l) > file.size THEN file.size ELSE End(l))
      /\ next \in Nat /\ last \in Nat
  BY CurrentIs DEF Control, WriterType
<1>2. /\ \A k \in DOMAIN extents : extents[k] \in FileExtent
      /\ DOMAIN extents = 1 .. Len(extents) /\ Len(extents) \in Nat
      /\ AreExtents(file) /\ file.size \in Nat
  BY CurrentFile DEF HasNext, Control
<1>3. at' = End(Current) /\ next' = MergedUpTo + 1
  <2>1. at' = (IF ref_file THEN Current.logical ELSE at) + Current.length
    BY DEF Advance
  <2>2. at' = Current.logical + Current.length
    BY <2>1
  <2> QED
    BY <2>2 DEF Advance, End
<1>4. file' = file /\ extents' = extents
  BY DEF file, extents
<1>5. ASSUME NEW k \in DOMAIN extents, k < next' PROVE End(extents[k]) <= at' \/ at' = file.size
  <2>1. CASE k = MergedUpTo
    <3> End(l) \in Nat
      BY <1>1, ExtentFields
    <3> QED
      BY <1>1, <1>2, <1>3, <2>1
  <2>2. CASE k # MergedUpTo
    <3>1. k < MergedUpTo
      BY <1>1, <1>2, <1>3, <1>5, <2>2
    <3>2. End(extents[k]) <= l.logical
      BY <1>1, <1>2, <3>1, Ordered DEF extents
    <3>3. extents[k] \in FileExtent
      BY <1>2
    <3> HIDE DEF l
    <3>4. End(extents[k]) \in Nat /\ End(l) \in Nat /\ l.logical \in Nat /\ l.logical < End(l)
      BY <1>1, <3>3, ExtentFields
    <3> QED
      BY <1>1, <1>2, <1>3, <3>2, <3>4
  <2> QED
    BY <2>1, <2>2
<1>6. ASSUME NEW k \in DOMAIN extents, ~ (k < next') PROVE at' <= extents[k].logical
  <2>1. MergedUpTo < k
    BY <1>1, <1>2, <1>3, <1>6
  <2>2. End(l) <= extents[k].logical
    BY <1>1, <1>2, <2>1, Ordered DEF extents
  <2>3. extents[k] \in FileExtent
    BY <1>2
  <2> HIDE DEF l
  <2>4. End(l) \in Nat /\ extents[k].logical \in Nat
    BY <1>1, <2>3, ExtentFields
  <2> QED
    BY <1>1, <1>2, <1>3, <2>2, <2>4
<1> QED
  BY <1>1, <1>3, <1>4, <1>5, <1>6 DEF Mapped

\* A file's extents are not begun when it is.
LEMMA NothingMapped ==
    ASSUME WriterType, calls > 0, IsNew(calls), at = 0, next = 1
    PROVE  at <= file.size /\ \A k \in DOMAIN extents : ~ (k < next) /\ at <= extents[k].logical
<1>1. file.size \in Nat /\ \A k \in DOMAIN extents : extents[k] \in FileExtent /\ k >= 1 /\ k \in Nat
  BY CurrentFile
<1>2. ASSUME NEW k \in DOMAIN extents PROVE extents[k].logical \in Nat
  BY <1>1, ExtentFields
<1> QED
  BY <1>1, <1>2

LEMMA BeginMapped == ASSUME Control, Begin PROVE Mapped'
<1>1. Control'
  BY NextControl DEF Next
<1>2. (calls > 0 /\ IsNew(calls) /\ at = 0 /\ next = 1)'
  BY DEF Begin, IsNew, Control, WriterType, IsPlan
<1>3. (at <= file.size /\ \A k \in DOMAIN extents : ~ (k < next) /\ at <= extents[k].logical)'
  BY <1>1, <1>2, NothingMapped, PTL DEF Control
<1> QED
  BY <1>3 DEF Mapped

LEMMA NextMapped == ASSUME Control, Mapped, SharedFits, [Next]_vars PROVE Mapped'
<1>1. ASSUME UNCHANGED <<files, calls, at, next>>, pc' \in {"extents", "shared"} => pc \in {"extents", "shared"}
      PROVE  Mapped'
  BY <1>1 DEF Mapped, file, extents
<1>2. CASE NextExtents
  <2>1. /\ calls > 0 /\ IsNew(calls) /\ pc = "extents" /\ at' = at
        /\ file' = file /\ extents' = extents /\ at \in Nat
    BY <1>2 DEF NextExtents, Control, CallFits, InCall, WriterType, file, extents
  <2>2. next' \in DOMAIN extents /\ next' \in Unmapped /\ \A k \in Unmapped : next' <= k
    BY <1>2, <2>1, BatchBegins DEF Control
  <2>3. /\ \A k \in DOMAIN extents : extents[k] \in FileExtent
        /\ DOMAIN extents = 1 .. Len(extents) /\ Len(extents) \in Nat
        /\ AreExtents(file) /\ file.size \in Nat
    BY <2>1, CurrentFile DEF Control
  <2>4. \A k \in DOMAIN extents : /\ k \in Nat /\ End(extents[k]) \in Nat /\ extents[k].logical \in Nat
                                  /\ k \in Unmapped <=> End(extents[k]) > at
    BY <2>3, ExtentFields DEF Unmapped, End
  <2>5. next \in Nat /\ at # file.size /\ at <= file.size
    BY <1>2, <2>1 DEF NextExtents, Mapped, Control, WriterType
  <2>6. ASSUME NEW k \in DOMAIN extents, k < next' PROVE End(extents[k]) <= at
    BY <2>1, <2>2, <2>4, <2>6
  <2>7. ~ (next' < next)
    BY <2>1, <2>2, <2>4, <2>5 DEF Mapped
  <2>8. ASSUME NEW k \in DOMAIN extents, ~ (k < next') PROVE at <= extents[k].logical
    BY <2>1, <2>2, <2>4, <2>5, <2>7, <2>8 DEF Mapped
  <2> QED
    BY <2>1, <2>5, <2>6, <2>8 DEF Mapped
<1>3. CASE SendHole
  <2>1. HasNext /\ pc = "extents" /\ UNCHANGED <<files, calls, last, next>> /\ at' = Current.logical /\ Current.logical > at
    BY <1>3, NextAtHand DEF SendHole, Control
  <2>2. /\ next \in DOMAIN extents /\ Current.logical = extents[next].logical /\ Current.logical < file.size
    BY <2>1, CurrentIs DEF Control
  <2>3. /\ \A k \in DOMAIN extents : extents[k] \in FileExtent
        /\ DOMAIN extents = 1 .. Len(extents) /\ Len(extents) \in Nat
        /\ AreExtents(file) /\ file.size \in Nat
    BY <2>1, CurrentFile DEF Control, HasNext
  <2>4. \A k \in DOMAIN extents : k \in Nat /\ End(extents[k]) \in Nat /\ extents[k].logical \in Nat
    BY <2>3, ExtentFields
  <2>5. file' = file /\ extents' = extents /\ at \in Nat /\ next \in Nat /\ at <= file.size
    BY <2>1 DEF file, extents, Control, WriterType, Mapped
  <2>6. ASSUME NEW k \in DOMAIN extents, k < next PROVE End(extents[k]) <= at'
    BY <2>1, <2>2, <2>3, <2>4, <2>5, <2>6 DEF Mapped
  <2>7. ASSUME NEW k \in DOMAIN extents, ~ (k < next) PROVE at' <= extents[k].logical
    <3>1. CASE k = next
      BY <2>1, <2>2, <2>4, <3>1
    <3>2. CASE k # next
      <4>1. End(extents[next]) <= extents[k].logical
        <5> next < k
          BY <2>4, <2>5, <2>7, <3>2
        <5> QED
          BY <2>2, <2>3, Ordered DEF extents
      <4>2. extents[next].logical < End(extents[next])
        BY <2>2, <2>3, ExtentFields
      <4> QED
        BY <2>1, <2>2, <2>4, <4>1, <4>2
    <3> QED
      BY <3>1, <3>2
  <2>8. at' <= file.size
    BY <2>1, <2>2, <2>3, <2>4
  <2> QED
    BY <2>1, <2>5, <2>6, <2>7, <2>8 DEF Mapped
<1>4. CASE SendExplicitCopy \/ SendUnshared
  <2> AtExtent /\ Advance /\ UNCHANGED <<files, calls>>
    BY <1>4 DEF SendExplicitCopy, SendUnshared
  <2> QED
    BY AtIsLogical, AdvanceMapped
<1>5. CASE SharedDone
  <2>1. HasNext /\ Advance /\ UNCHANGED <<files, calls>>
    BY <1>5, NextAtHand DEF SharedDone, Control
  <2>2. ~ ref_file => at = Current.logical
    BY <1>5 DEF SharedDone, SharedFits
  <2> QED
    BY <2>1, <2>2, AdvanceMapped
<1>6. CASE SendMetaEnd
  <2>1. UNCHANGED <<files, calls, at, next>> /\ calls > 0 /\ IsNew(calls) /\ at = 0 /\ next = 1
    BY <1>6 DEF SendMetaEnd, Control, CallFits, InCall
  <2>2. at <= file.size /\ \A k \in DOMAIN extents : ~ (k < next) /\ at <= extents[k].logical
    BY <2>1, NothingMapped DEF Control
  <2> QED
    BY <2>1, <2>2 DEF Mapped, file, extents
<1>7. CASE Begin
  BY <1>7, BeginMapped
<1>8. CASE WriteHardlink
  BY <1>8 DEF WriteHardlink, Mapped
<1>9. CASE WriteHeader \/ SendMeta
  BY <1>1, <1>9 DEF WriteHeader, SendMeta
<1>10. CASE AskMap
  BY <1>1, <1>10 DEF AskMap, AtExtent
<1>11. CASE SendShared
  BY <1>1, <1>11 DEF SendShared, SendNewShared, SendAvailShared
<1>12. CASE SendTrailingHole \/ LoseTrailingHole \/ SendFileEnd \/ SendSnapshots \/ Fail
  BY <1>1, <1>12 DEF SendTrailingHole, LoseTrailingHole, SendFileEnd, SendSnapshots, Fail
<1>13. CASE UNCHANGED vars
  BY <1>1, <1>13 DEF vars
<1> QED
  BY <1>2, <1>3, <1>4, <1>5, <1>6, <1>7, <1>8, <1>9, <1>10, <1>11, <1>12, <1>13 DEF Next, Step

LEMMA CurrentStays ==
    ASSUME UNCHANGED <<files, calls, last, next>>
    PROVE  /\ Current' = Current /\ MergedUpTo' = MergedUpTo
           /\ file' = file /\ extents' = extents /\ ref_file' = ref_file
<1>1. file' = file /\ extents' = extents /\ ref_file' = ref_file
  BY DEF file, extents, ref_file
<1>2. MergedUpTo' = MergedUpTo
  BY <1>1 DEF MergedUpTo
<1> QED
  BY <1>1, <1>2 DEF Current

\* What is left of a request after a piece of n bytes.
LEMMA ShiftedIs ==
    ASSUME DOMAIN ex = {"device", "physical", "logical", "length", "file"}, NEW n
    PROVE  LET r == EMap!Shifted(ex, n) IN
           /\ DOMAIN r = {"device", "physical", "logical", "length", "file"}
           /\ r.device = ex.device /\ r.file = ex.file /\ r.length = ex.length - n
           /\ r.logical = ex.logical + n /\ r.physical = ex.physical + n
  BY DEF EMap!Shifted

\* The pieces of a request.
LEMMA PieceOf ==
    ASSUME NEW n, SendNewShared(n) \/ SendAvailShared(n)
    PROVE  /\ pc = "shared" /\ ex' = EMap!Shifted(ex, n)
           /\ UNCHANGED <<files, calls, ids, next_fileid, pc, metas, at, last, next>>
  BY DEF SendNewShared, SendAvailShared, EMap!Send, EMap!Copy

LEMMA NextShared == ASSUME Control, Mapped, SharedFits, [Next]_vars PROVE SharedFits'
<1>1. CASE pc' # "shared"
  BY <1>1 DEF SharedFits
<1>2. CASE AskMap
  <2>1. HasNext /\ pc = "extents" /\ (~ ref_file => at = Current.logical)
    BY <1>2, AtIsLogical DEF AskMap
  <2>2. /\ Current.shared /\ Current.flags # "COPY" /\ pc' = "shared"
        /\ UNCHANGED <<files, calls, ids, at, last, next>>
        /\ ex' = [device |-> Current.device, physical |-> Current.physical, logical |-> Current.logical,
                  length |-> Current.length, file |-> fileid]
        /\ Current.physical + Current.length <= PhysSize /\ Current.logical + Current.length <= LogSize
    BY <1>2 DEF AskMap, EMap!Ask
  <2>3. Current' = Current /\ fileid' = fileid /\ ref_file' = ref_file
    BY <2>2, CurrentStays DEF fileid
  <2>4. Current.length \in Nat /\ Current.logical \in Nat /\ Current.physical \in Nat
    BY <2>1, CurrentIs, ExtentFields DEF Control
  <2>5. /\ DOMAIN ex' = {"device", "physical", "logical", "length", "file"}
        /\ ex'.device = Current.device /\ ex'.physical = Current.physical /\ ex'.logical = Current.logical
        /\ ex'.length = Current.length /\ ex'.file = fileid
    BY <2>2
  <2> HIDE <2>2
  <2>6. ex'.length \in 0 .. Current.length
    BY <2>4, <2>5
  <2>7. /\ ex'.logical = Current.logical + (Current.length - ex'.length)
        /\ ex'.physical = Current.physical + (Current.length - ex'.length)
    BY <2>4, <2>5
  <2>8. ex'.physical + ex'.length <= PhysSize /\ ex'.logical + ex'.length <= LogSize
    BY <2>2, <2>5
  <2>9. Current.shared /\ Current.flags # "COPY" /\ at' = at
    BY <2>2
  <2> QED
    BY <2>1, <2>3, <2>5, <2>6, <2>7, <2>8, <2>9 DEF SharedFits
<1>3. CASE SendShared
  <2>1. PICK n \in 1 .. ex.length : SendNewShared(n) \/ SendAvailShared(n)
    BY <1>3 DEF SendShared
  <2>2. /\ pc = "shared" /\ ex' = EMap!Shifted(ex, n)
        /\ UNCHANGED <<files, calls, ids, next_fileid, pc, metas, at, last, next>>
    BY <2>1, PieceOf
  <2>3. Current' = Current /\ fileid' = fileid /\ ref_file' = ref_file
    BY <2>2, CurrentStays DEF fileid
  <2>4. Current.length \in Nat /\ Current.logical \in Nat /\ Current.physical \in Nat
    BY <2>2, NextAtHand, CurrentIs, ExtentFields DEF Control
  <2>5. /\ DOMAIN ex = {"device", "physical", "logical", "length", "file"}
        /\ Current.shared /\ Current.flags # "COPY" /\ (~ ref_file => at = Current.logical)
        /\ ex.length \in 0 .. Current.length /\ ex.file = fileid /\ ex.device = Current.device
        /\ ex.logical = Current.logical + (Current.length - ex.length)
        /\ ex.physical = Current.physical + (Current.length - ex.length)
        /\ ex.physical + ex.length <= PhysSize /\ ex.logical + ex.length <= LogSize
    BY <2>2 DEF SharedFits
  <2>6. /\ DOMAIN ex' = {"device", "physical", "logical", "length", "file"}
        /\ ex'.device = ex.device /\ ex'.file = ex.file /\ ex'.length = ex.length - n
        /\ ex'.logical = ex.logical + n /\ ex'.physical = ex.physical + n
    BY <2>2, <2>5, ShiftedIs
  <2>7. /\ ex'.length \in 0 .. Current.length
        /\ ex'.logical = Current.logical + (Current.length - ex'.length)
        /\ ex'.physical = Current.physical + (Current.length - ex'.length)
        /\ ex'.physical + ex'.length <= PhysSize /\ ex'.logical + ex'.length <= LogSize
    BY <2>4, <2>5, <2>6, SizeAssumption
  <2> QED
    BY <2>2, <2>3, <2>5, <2>6, <2>7 DEF SharedFits
<1>4. CASE UNCHANGED vars
  <2>1. Current' = Current /\ ref_file' = ref_file /\ fileid' = fileid
    BY <1>4, CurrentStays DEF vars, fileid
  <2> QED
    BY <1>4, <2>1 DEF vars, map_vars, SharedFits
<1>5. CASE pc' = "shared" /\ ~ AskMap /\ ~ SendShared /\ ~ UNCHANGED vars
  BY <1>5 DEF Next, Step, WriteHeader, WriteHardlink, Begin, SendMeta, SendMetaEnd, NextExtents, SendHole,
              SendExplicitCopy, SendUnshared, AtExtent, SharedDone, NoMoreExtents, SendTrailingHole,
              LoseTrailingHole, SendFileEnd, SendSnapshots, Fail
<1> QED
  BY <1>1, <1>2, <1>3, <1>4, <1>5
------------------------------------------------------------------------------
LEMMA LargestOf ==
    ASSUME NEW m \in Nat, NEW T, T \subseteq 1 .. m, T # {}
    PROVE  \E x \in T : \A y \in T : y <= x
<1> DEFINE U == {m - x : x \in T}
<1>1. U \subseteq Nat /\ U # {}
  <2>1. ASSUME NEW x \in T PROVE m - x \in Nat
    <3> x \in 1 .. m
      OBVIOUS
    <3> QED
      OBVIOUS
  <2> QED
    BY <2>1
<1>2. PICK u \in U : \A v \in U : u <= v
  <2> HIDE DEF U
  <2> QED
    BY <1>1, LeastOf
<1>3. PICK x \in T : u = m - x
  BY <1>2
<1>4. ASSUME NEW y \in T PROVE y <= x
  <2>1. m - x <= m - y
    BY <1>2, <1>3
  <2>2. x \in 1 .. m /\ y \in 1 .. m
    OBVIOUS
  <2> QED
    BY <2>1, <2>2
<1> QED
  BY <1>4

\* The extents of file f before packet i.
SentOf(f, i) == {j \in 1 .. i - 1 : Is(j, "EXTENT") /\ stream[j].file = f}

SentBeforeGoes ==
    \A f, i :
      /\ SentOf(f, i) = {} => SentBefore(f, i) = 0
      /\ \A j \in SentOf(f, i) :
           i \in Nat /\ (\A k \in SentOf(f, i) : k <= j)
             => SentBefore(f, i) = stream[j].offset + stream[j].length

LEMMA SentBeforeIs == SentBeforeGoes
<1> SUFFICES ASSUME NEW f, NEW i
             PROVE  /\ SentOf(f, i) = {} => SentBefore(f, i) = 0
                    /\ \A j \in SentOf(f, i) :
                         i \in Nat /\ (\A k \in SentOf(f, i) : k <= j)
                           => SentBefore(f, i) = stream[j].offset + stream[j].length
  BY DEF SentBeforeGoes
<1> DEFINE j0 == CHOOSE j \in SentOf(f, i) : \A k \in SentOf(f, i) : k <= j
<1>1. SentBefore(f, i) = IF SentOf(f, i) = {} THEN 0 ELSE stream[j0].offset + stream[j0].length
  BY DEF SentBefore, SentOf
<1>2. ASSUME NEW j \in SentOf(f, i), i \in Nat, \A k \in SentOf(f, i) : k <= j
      PROVE  j0 = j
  <2>1. j0 \in SentOf(f, i) /\ \A k \in SentOf(f, i) : k <= j0
    BY <1>2
  <2>2. j0 \in Nat /\ j \in Nat
    BY <1>2, <2>1 DEF SentOf
  <2> QED
    BY <1>2, <2>1, <2>2
<1> HIDE DEF j0
<1> QED
  BY <1>1, <1>2

\* The last extent of a file changes with the one that is put for it.
LEMMA SentMore ==
    ASSUME Control, NEW p, Put(p), NEW f
    PROVE  /\ SentUpTo(f)' = IF p.type = "EXTENT" /\ p.file = f THEN p.offset + p.length ELSE SentUpTo(f)
           /\ \A k \in DOMAIN stream : SentBefore(f, k)' = SentBefore(f, k)
           /\ \A k : k = Len(stream) + 1 => SentBefore(f, k)' = SentUpTo(f)
<1>1. PICK n : n = Len(stream) + 1
  OBVIOUS
<1>2. /\ n \in Nat \ {0} /\ DOMAIN stream = 1 .. n - 1 /\ DOMAIN stream' = 1 .. n
      /\ \A i \in 1 .. n - 1 : stream'[i] = stream[i]
      /\ stream'[n] = p
      /\ \A i \in 1 .. n - 1 : Is(i, "EXTENT")' <=> Is(i, "EXTENT")
      /\ Is(n, "EXTENT")' <=> p.type = "EXTENT"
      /\ Len(stream') + 1 = n + 1
  <2>1. Len(stream') = Len(stream) + 1
    BY PutAppends DEF Control
  <2>2. /\ n \in Nat \ {0} /\ DOMAIN stream = 1 .. n - 1 /\ DOMAIN stream' = 1 .. n
        /\ \A i \in 1 .. n - 1 : stream'[i] = stream[i]
        /\ stream'[n] = p
        /\ \A i \in 1 .. n - 1 : \A type : Is(i, type)' <=> Is(i, type)
        /\ \A type : Is(n, type)' <=> p.type = type
    BY <1>1, OneMore
  <2> QED
    BY <1>1, <2>1, <2>2
<1>3. SentBeforeGoes /\ SentBeforeGoes'
  BY SentBeforeIs, PTL
<1>4. ASSUME NEW k \in 1 .. n PROVE SentOf(f, k)' = SentOf(f, k)
  BY <1>2, <1>4 DEF SentOf
<1>5. ASSUME NEW k \in 1 .. n, NEW m \in Nat, SentOf(f, m)' = SentOf(f, k)
      PROVE  SentBefore(f, m)' = SentBefore(f, k)
  <2>1. CASE SentOf(f, k) = {}
    BY <1>3, <1>5, <2>1 DEF SentBeforeGoes
  <2>2. CASE SentOf(f, k) # {}
    <3>1. SentOf(f, k) \subseteq 1 .. n - 1 /\ n - 1 \in Nat
      BY <1>2 DEF SentOf
    <3>2. PICK j \in SentOf(f, k) : \A i \in SentOf(f, k) : i <= j
      BY <2>2, <3>1, LargestOf
    <3>3. SentBefore(f, k) = stream[j].offset + stream[j].length
      BY <1>2, <1>3, <3>2 DEF SentBeforeGoes
    <3>4. SentBefore(f, m)' = stream'[j].offset + stream'[j].length
      BY <1>3, <1>5, <3>2 DEF SentBeforeGoes
    <3> QED
      BY <1>2, <3>1, <3>3, <3>4
  <2> QED
    BY <2>1, <2>2
<1>6. \A k \in 1 .. n : SentBefore(f, k)' = SentBefore(f, k)
  BY <1>2, <1>4, <1>5
<1>7. SentUpTo(f) = SentBefore(f, n) /\ SentUpTo(f)' = SentBefore(f, n + 1)'
  BY <1>1, <1>2 DEF SentUpTo
<1>8. CASE p.type = "EXTENT" /\ p.file = f
  <2>1. n \in SentOf(f, n + 1)' /\ \A k \in SentOf(f, n + 1)' : k <= n
    BY <1>2, <1>8 DEF SentOf
  <2>2. SentBefore(f, n + 1)' = stream'[n].offset + stream'[n].length
    BY <1>2, <1>3, <2>1 DEF SentBeforeGoes
  <2> QED
    BY <1>2, <1>6, <1>7, <1>8, <2>2
<1>9. CASE ~ (p.type = "EXTENT" /\ p.file = f)
  <2>1. SentOf(f, n + 1)' = SentOf(f, n)
    BY <1>2, <1>9 DEF SentOf
  <2>2. SentBefore(f, n + 1)' = SentBefore(f, n)
    BY <1>2, <1>5, <2>1
  <2> QED
    BY <1>1, <1>2, <1>6, <1>7, <1>9, <2>2
<1> QED
  BY <1>1, <1>2, <1>6, <1>7, <1>8, <1>9

LEMMA SentStays == ASSUME UNCHANGED stream PROVE \A f, k : SentBefore(f, k)' = SentBefore(f, k) /\ SentUpTo(f)' = SentUpTo(f)
  BY DEF SentBefore, SentUpTo, Is

\* The files of which something was sent.
LEMMA NoneOfNew == ASSUME Order PROVE SentUpTo(next_fileid) = 0
<1>1. SentOf(next_fileid, Len(stream) + 1) = {}
  <2> SUFFICES ASSUME NEW j \in SentOf(next_fileid, Len(stream) + 1) PROVE FALSE
    OBVIOUS
  <2>1. j \in 1 .. (Len(stream) + 1) - 1 /\ Is(j, "EXTENT") /\ stream[j].file = next_fileid
    BY DEF SentOf
  <2>2. Len(stream) \in Nat /\ DOMAIN stream = 1 .. Len(stream)
    BY LenProperties DEF Order, WriterType
  <2>3. PICK i \in 1 .. calls : stream[j].file = ids[i]
    BY <2>1, <2>2 DEF Order, Announced
  <2>4. ids[i] < next_fileid /\ ids[i] \in Nat /\ next_fileid \in Nat
    BY PlanOfCalls DEF Order, IdsGrow, Control
  <2> QED
    BY <2>1, <2>3, <2>4
<1> QED
  BY <1>1, SentBeforeIs DEF SentBeforeGoes, SentUpTo
------------------------------------------------------------------------------
\* An extent is put where the call is, and the call goes on behind it; for a
\* reference file none is put.
PutsNext(p) ==
    /\ PutsExtent(p) /\ file.mode = "REG" /\ pc # "end"
    /\ p.offset = Position /\ p.offset \in Nat /\ p.length \in Nat
    /\ p.offset + p.length <= file.size
    /\ IF pc' = "end" THEN p.offset + p.length = file.size
       ELSE p.offset + p.length = Position'

LEMMA ExtentPut ==
    ASSUME Control, Mapped, SharedFits, InCall, PutsOne
    PROVE  \/ ref_file /\ UNCHANGED <<stream, files, calls, ids, next_fileid>>
           \/ ~ ref_file /\ UNCHANGED <<files, calls, ids, next_fileid>> /\ \E p : PutsNext(p)
<1>1. at \in Nat /\ (pc \in {"extents", "shared"} => at <= file.size /\ file.size \in Nat /\ file.mode \in {"REG", "REF"})
  BY CurrentFile DEF Control, WriterType, CallFits, Mapped, InCall
<1>2. ASSUME HasNext
      PROVE  /\ Current.logical \in Nat /\ Current.length \in Nat /\ Current.physical \in Nat
             /\ End(Current) = Current.logical + Current.length
             /\ End(Current) <= file.size /\ Current.logical < file.size
  BY <1>2, CurrentIs, ExtentFields DEF Control
<1>3. CASE SendHole
  <2> DEFINE p == EmptyPacket(fileid, "HOLE", at, Current.logical - at)
  <2>1. p.type = "EXTENT" /\ p.file = fileid /\ p.offset = at /\ p.length = Current.logical - at
    BY DEF EmptyPacket
  <2> HIDE DEF p
  <2>2. /\ Put(p) /\ ~ ref_file /\ pc = "extents" /\ pc' = pc /\ at' = Current.logical /\ Current.logical > at
        /\ UNCHANGED <<files, calls, ids, next_fileid>> /\ ~ BatchDone
    BY <1>3 DEF SendHole, p
  <2>3. HasNext
    BY <2>2, NextAtHand DEF Control
  <2>4. PutsExtent(p) /\ file.mode = "REG" /\ Position = at /\ Position' = at'
    BY <1>1, <2>1, <2>2 DEF PutsExtent, InCall, ref_file, Position
  <2>5. p.offset \in Nat /\ p.length \in Nat /\ p.offset + p.length = Current.logical
    BY <1>1, <1>2, <2>1, <2>2, <2>3
  <2> QED
    BY <1>1, <1>2, <2>1, <2>2, <2>3, <2>4, <2>5 DEF PutsNext
<1>4. ASSUME NEW p, AtExtent, Advance, PutUnlessRef(p), pc' = pc, UNCHANGED <<files, calls, ids, next_fileid>>,
             p.type = "EXTENT", p.file = fileid, p.offset = Current.logical, p.length = Current.length
      PROVE  \/ ref_file /\ UNCHANGED <<stream, files, calls, ids, next_fileid>>
             \/ ~ ref_file /\ UNCHANGED <<files, calls, ids, next_fileid>> /\ PutsNext(p)
  <2>1. CASE ref_file
    BY <1>4, <2>1 DEF PutUnlessRef
  <2>2. CASE ~ ref_file
    <3>1. HasNext /\ pc = "extents" /\ at = Current.logical /\ Put(p)
      BY <1>4, <2>2, AtIsLogical DEF PutUnlessRef
    <3>2. at' = End(Current)
      BY <1>4, <3>1, AdvanceMapped
    <3>3. PutsExtent(p) /\ file.mode = "REG" /\ Position = at /\ Position' = at'
      BY <1>1, <1>4, <2>2, <3>1 DEF PutsExtent, InCall, ref_file, Position
    <3> QED
      BY <1>2, <1>4, <2>2, <3>1, <3>2, <3>3 DEF PutsNext
  <2> QED
    BY <2>1, <2>2
<1>5. CASE SendExplicitCopy
  <2> DEFINE p == CopyPacket(fileid, Current.logical, Current.length,
                             ids[Current.source], Current.source_offset)
  <2>1. p.type = "EXTENT" /\ p.file = fileid /\ p.offset = Current.logical /\ p.length = Current.length
    BY DEF CopyPacket
  <2> HIDE DEF p
  <2>2. AtExtent /\ Advance /\ PutUnlessRef(p) /\ pc' = pc /\ UNCHANGED <<files, calls, ids, next_fileid>>
    BY <1>5 DEF SendExplicitCopy, p
  <2> QED
    BY <1>4, <2>1, <2>2
<1>6. CASE SendUnshared
  <2> DEFINE p == NewPacket(Current, Current.logical, Current.physical, Current.length)
  <2>1. p.type = "EXTENT" /\ p.file = fileid /\ p.offset = Current.logical /\ p.length = Current.length
    BY NewPacketIs
  <2> HIDE DEF p
  <2>2. AtExtent /\ Advance /\ PutUnlessRef(p) /\ pc' = pc /\ UNCHANGED <<files, calls, ids, next_fileid>>
    BY <1>6 DEF SendUnshared, p
  <2> QED
    BY <1>4, <2>1, <2>2
<1>7. CASE SendShared
  <2>1. PICK n \in 1 .. ex.length : SendNewShared(n) \/ SendAvailShared(n)
    BY <1>7 DEF SendShared
  <2>2. /\ pc = "shared" /\ ex' = EMap!Shifted(ex, n)
        /\ UNCHANGED <<files, calls, ids, next_fileid, pc, metas, at, last, next>>
    BY <2>1, PieceOf
  <2>3. \E p : PutUnlessRef(p) /\ p.type = "EXTENT" /\ p.file = fileid /\ p.offset = ex.logical /\ p.length = n
    <3>1. CASE SendNewShared(n)
      <4> DEFINE p == NewPacket(Current, ex.logical, ex.physical, n)
      <4>1. p.type = "EXTENT" /\ p.file = fileid /\ p.offset = ex.logical /\ p.length = n
        BY NewPacketIs
      <4> HIDE DEF p
      <4> QED
        BY <3>1, <4>1 DEF SendNewShared, p
    <3>2. CASE SendAvailShared(n)
      <4>1. PICK g \in File, m \in Log : PutUnlessRef(CopyPacket(fileid, ex.logical, n, g, m))
        BY <3>2 DEF SendAvailShared
      <4> DEFINE p == CopyPacket(fileid, ex.logical, n, g, m)
      <4>2. p.type = "EXTENT" /\ p.file = fileid /\ p.offset = ex.logical /\ p.length = n
        BY DEF CopyPacket
      <4> HIDE DEF p
      <4> QED
        BY <4>1, <4>2 DEF p
    <3> QED
      BY <2>1, <3>1, <3>2
  <2>4. PICK p : PutUnlessRef(p) /\ p.type = "EXTENT" /\ p.file = fileid /\ p.offset = ex.logical /\ p.length = n
    BY <2>3
  <2>5. CASE ref_file
    BY <2>2, <2>4, <2>5 DEF PutUnlessRef
  <2>6. CASE ~ ref_file
    <3>1. HasNext
      BY <2>2, NextAtHand DEF Control
    <3>2. /\ DOMAIN ex = {"device", "physical", "logical", "length", "file"}
          /\ ex.length \in 0 .. Current.length /\ ex.logical = Current.logical + (Current.length - ex.length)
      BY <2>2 DEF SharedFits
    <3>3. ex'.logical = ex.logical + n
      BY <2>2, <3>2, ShiftedIs
    <3>4. ex.logical \in Nat /\ ex.logical + n <= file.size
      BY <1>1, <1>2, <2>2, <3>1, <3>2
    <3>5. PutsExtent(p) /\ file.mode = "REG" /\ Position = ex.logical /\ Position' = ex'.logical /\ pc' # "end"
      BY <1>1, <2>2, <2>4, <2>6 DEF PutsExtent, PutUnlessRef, InCall, ref_file, Position
    <3>6. PutsNext(p)
      BY <2>2, <2>4, <3>3, <3>4, <3>5 DEF PutsNext
    <3> QED
      BY <2>2, <2>6, <3>6
  <2> QED
    BY <2>5, <2>6
<1>8. CASE SendTrailingHole
  <2> DEFINE p == EmptyPacket(fileid, "HOLE", at, file.size - at)
  <2>1. p.type = "EXTENT" /\ p.file = fileid /\ p.offset = at /\ p.length = file.size - at
    BY DEF EmptyPacket
  <2> HIDE DEF p
  <2>2. /\ Put(p) /\ ~ ref_file /\ pc = "extents" /\ pc' = "end" /\ at < file.size
        /\ UNCHANGED <<files, calls, ids, next_fileid>>
    BY <1>8 DEF SendTrailingHole, NoMoreExtents, p
  <2>3. PutsExtent(p) /\ file.mode = "REG" /\ Position = at
    BY <1>1, <2>1, <2>2 DEF PutsExtent, InCall, ref_file, Position
  <2>4. p.offset \in Nat /\ p.length \in Nat /\ p.offset + p.length = file.size
    BY <1>1, <2>1, <2>2
  <2> QED
    BY <1>1, <2>1, <2>2, <2>3, <2>4 DEF PutsNext
<1> QED
  BY <1>3, <1>5, <1>6, <1>7, <1>8 DEF PutsOne

\* Whose id the current one is.
LEMMA OnlyCurrent ==
    ASSUME Order, InCall, NEW i \in 1 .. calls, IsNew(i), ids[i] = fileid
    PROVE  i = calls
<1>1. fileid = ids[calls] /\ calls \in 1 .. calls /\ IsNew(calls) /\ calls \in Nat /\ ids[calls] \in Nat
  BY PlanOfCalls DEF Order, Control
<1>2. ~ (i < calls)
  BY <1>1 DEF Order, IdsGrow
<1> QED
  BY <1>1, <1>2

\* What ExtentsTile says of file i.
TilesAt(i) ==
    /\ \A k \in DOMAIN stream : Is(k, "EXTENT") /\ stream[k].file = ids[i] =>
         stream[k].offset = SentBefore(ids[i], k)
    /\ SentUpTo(ids[i]) <= files[i].size
    /\ (\E j \in DOMAIN stream : Ends(j, ids[i])) =>
         \A k \in DOMAIN files[i].extents :
           SentUpTo(ids[i]) >= files[i].size \/ SentUpTo(ids[i]) >= End(files[i].extents[k])

AllTile == \A i \in DOMAIN ids : files[i].mode = "REG" => TilesAt(i)

LEMMA ExtentsTileIs == ExtentsTile <=> AllTile
  BY DEF ExtentsTile, AllTile, TilesAt, End

LEMMA AllTileIs == ExtentsTile' <=> AllTile'
  BY ExtentsTileIs, PTL

LEMMA PutTiles ==
    ASSUME Order, Tiled, NEW p, PutsNext(p), UNCHANGED <<files, calls, ids, next_fileid>>
    PROVE  Tiled'
<1>1. PICK n : n = Len(stream) + 1
  OBVIOUS
<1>2. /\ Put(p) /\ p.type = "EXTENT" /\ p.file = fileid /\ InCall /\ InCall' /\ file.mode = "REG" /\ pc # "end"
      /\ p.offset = Position /\ p.offset \in Nat /\ p.length \in Nat /\ p.offset + p.length <= file.size
      /\ pc' = "end" => p.offset + p.length = file.size
      /\ pc' # "end" => p.offset + p.length = Position'
  BY DEF PutsNext, PutsExtent
<1>3. /\ n \in Nat \ {0} /\ DOMAIN stream = 1 .. n - 1 /\ DOMAIN stream' = 1 .. n
      /\ \A i \in 1 .. n - 1 : stream'[i] = stream[i]
      /\ stream'[n] = p
      /\ \A i \in 1 .. n - 1 : \A type : Is(i, type)' <=> Is(i, type)
      /\ Is(n, "EXTENT")' /\ ~ Is(n, "FILE_END")'
  BY <1>1, <1>2, OneMore DEF Order, Control
<1>4. /\ fileid = ids[calls] /\ calls \in 1 .. calls /\ DOMAIN ids = 1 .. calls /\ file = files[calls] /\ IsNew(calls)
      /\ ids[calls] \in Nat /\ fileid' = fileid /\ file' = file /\ extents' = extents /\ file.size \in Nat
  BY <1>2, PlanOfCalls, CurrentFile, LenProperties DEF Order, Control, WriterType, fileid, file, extents
<1>5. \A f : /\ SentUpTo(f)' = IF f = fileid THEN p.offset + p.length ELSE SentUpTo(f)
             /\ \A k \in 1 .. n - 1 : SentBefore(f, k)' = SentBefore(f, k)
             /\ SentBefore(f, n)' = SentUpTo(f)
  <2> SUFFICES ASSUME NEW f
               PROVE  /\ SentUpTo(f)' = IF f = fileid THEN p.offset + p.length ELSE SentUpTo(f)
                      /\ \A k \in 1 .. n - 1 : SentBefore(f, k)' = SentBefore(f, k)
                      /\ SentBefore(f, n)' = SentUpTo(f)
    OBVIOUS
  <2>1. Control
    BY DEF Order, Control
  <2>2. /\ SentUpTo(f)' = IF p.type = "EXTENT" /\ p.file = f THEN p.offset + p.length ELSE SentUpTo(f)
        /\ \A k \in DOMAIN stream : SentBefore(f, k)' = SentBefore(f, k)
        /\ \A k : k = Len(stream) + 1 => SentBefore(f, k)' = SentUpTo(f)
    BY <1>2, <2>1, SentMore
  <2> QED
    BY <1>1, <1>2, <1>3, <2>2
<1>6. SentUpTo(fileid) = p.offset
  BY <1>2 DEF Tiled, CurrentTiled
<1>7. AllCovered'
  <2>0. \A f \in Nat : SentUpTo(f)' \in Nat
    BY <1>2, <1>5 DEF Tiled, AllCovered
  <2> SUFFICES ASSUME NEW f \in Nat, NEW x \in Nat, x < SentUpTo(f)'
               PROVE  \E j \in 1 .. n : Covers(j, f, x)'
    BY <1>3, <2>0 DEF AllCovered
  <2>1. CASE x < SentUpTo(f)
    <3>1. PICK j \in 1 .. n - 1 : Covers(j, f, x)
      BY <1>3, <2>1 DEF Tiled, AllCovered
    <3> QED
      BY <1>3, <3>1 DEF Covers
  <2>2. CASE ~ (x < SentUpTo(f))
    <3>1. f = fileid
      BY <1>5, <2>2
    <3>2. x \in p.offset .. p.offset + p.length - 1
      BY <1>2, <1>5, <1>6, <2>2, <3>1
    <3>3. Covers(n, f, x)'
      BY <1>2, <1>3, <3>1, <3>2 DEF Covers
    <3> QED
      BY <1>3, <3>3
  <2> QED
    BY <2>1, <2>2
<1>8. CurrentTiled'
  <2>1. SentUpTo(fileid)' = p.offset + p.length
    BY <1>4, <1>5
  <2> QED
    BY <1>2, <1>4, <2>1 DEF CurrentTiled
<1>9. AllTile'
  <2> SUFFICES ASSUME NEW i \in 1 .. calls, files[i].mode = "REG" PROVE TilesAt(i)'
    BY <1>4 DEF AllTile
  <2>1. TilesAt(i)
    BY <1>4, ExtentsTileIs DEF Tiled, AllTile
  <2>2. SentUpTo(ids[i])' = IF ids[i] = fileid THEN p.offset + p.length ELSE SentUpTo(ids[i])
    BY <1>5
  <2>3. ASSUME NEW k \in 1 .. n, Is(k, "EXTENT")', stream'[k].file = ids[i]
        PROVE  stream'[k].offset = SentBefore(ids[i], k)'
    <3>1. CASE k = n
      BY <1>2, <1>3, <1>5, <1>6, <2>3, <3>1
    <3>2. CASE k # n
      <4>1. k \in 1 .. n - 1
        BY <1>3, <3>2
      <4> QED
        BY <1>3, <1>5, <2>1, <2>3, <4>1 DEF TilesAt
    <3> QED
      BY <3>1, <3>2
  <2>4. CASE ids[i] = fileid
    <3>1. i = calls
      BY <1>2, <2>4, OnlyCurrent DEF IsNew
    <3>2. \A j \in 1 .. n : ~ Ends(j, ids[i])'
      <4>1. \A j \in 1 .. n - 1 : ~ Ends(j, fileid)
        BY <1>2, <1>3 DEF Order, Ended
      <4> QED
        BY <1>3, <2>4, <4>1 DEF Ends, Is
    <3> QED
      BY <1>2, <1>3, <1>4, <2>2, <2>3, <2>4, <3>1, <3>2 DEF TilesAt
  <2>5. CASE ids[i] # fileid
    <3>1. SentUpTo(ids[i])' = SentUpTo(ids[i])
      BY <2>2, <2>5
    <3>2. (\E j \in 1 .. n : Ends(j, ids[i])') => \E j \in 1 .. n - 1 : Ends(j, ids[i])
      BY <1>3 DEF Ends, Is
    <3> QED
      BY <1>3, <2>1, <2>3, <3>1, <3>2 DEF TilesAt
  <2> QED
    BY <2>4, <2>5
<1> QED
  BY <1>7, <1>8, <1>9, AllTileIs DEF Tiled
------------------------------------------------------------------------------
\* A step that puts no extent changes nothing of this.
PutsNoExtent == UNCHANGED stream \/ \E p : Put(p) /\ p.type # "EXTENT"

LEMMA StaysSent ==
    ASSUME Control, PutsNoExtent
    PROVE  /\ \A f : SentUpTo(f)' = SentUpTo(f)
           /\ DOMAIN stream \subseteq DOMAIN stream'
           /\ \A k \in DOMAIN stream : stream'[k] = stream[k]
           /\ \A k \in DOMAIN stream' : Is(k, "EXTENT")' =>
                k \in DOMAIN stream /\ Is(k, "EXTENT") /\ stream'[k] = stream[k] /\ \A f : SentBefore(f, k)' = SentBefore(f, k)
<1>1. CASE UNCHANGED stream
  BY <1>1, SentStays DEF Is
<1>2. CASE \E p : Put(p) /\ p.type # "EXTENT"
  <2>1. PICK p : Put(p) /\ p.type # "EXTENT"
    BY <1>2
  <2>2. PICK n : n = Len(stream) + 1
    OBVIOUS
  <2>3. /\ n \in Nat \ {0} /\ DOMAIN stream = 1 .. n - 1 /\ DOMAIN stream' = 1 .. n
        /\ \A i \in 1 .. n - 1 : stream'[i] = stream[i]
        /\ \A i \in 1 .. n - 1 : \A type : Is(i, type)' <=> Is(i, type)
        /\ ~ Is(n, "EXTENT")'
    <3>1. /\ n \in Nat \ {0} /\ DOMAIN stream = 1 .. n - 1 /\ DOMAIN stream' = 1 .. n
          /\ \A i \in 1 .. n - 1 : stream'[i] = stream[i]
          /\ stream'[n] = p
      BY <2>1, <2>2, OneMore
    <3> QED
      BY <2>1, <3>1 DEF Is
  <2>4. \A f : /\ SentUpTo(f)' = SentUpTo(f)
               /\ \A k \in 1 .. n - 1 : SentBefore(f, k)' = SentBefore(f, k)
    BY <2>1, <2>3, SentMore
  <2> QED
    BY <2>3, <2>4
<1> QED
  BY <1>1, <1>2 DEF PutsNoExtent

LEMMA StaysCovered == ASSUME Control, AllCovered, PutsNoExtent PROVE AllCovered'
<1> SUFFICES ASSUME NEW f \in Nat, NEW x \in Nat, x < SentUpTo(f)'
             PROVE  \E j \in DOMAIN stream' : Covers(j, f, x)'
  BY StaysSent DEF AllCovered
<1>1. PICK j \in DOMAIN stream : Covers(j, f, x)
  BY StaysSent DEF AllCovered
<1>2. j \in DOMAIN stream' /\ stream'[j] = stream[j]
  BY StaysSent
<1> QED
  BY <1>1, <1>2 DEF Covers, Is

\* All of a file's extents are sent.
AllSent(i) ==
    \A k \in DOMAIN files[i].extents :
      SentUpTo(ids[i]) >= files[i].size \/ SentUpTo(ids[i]) >= End(files[i].extents[k])

LEMMA StaysTiledAt ==
    ASSUME Control, PutsNoExtent, NEW i \in 1 .. calls, TilesAt(i), files' = files, ids'[i] = ids[i],
           (\E k \in DOMAIN stream' : Ends(k, ids[i])') /\ ~ (\E k \in DOMAIN stream : Ends(k, ids[i])) => AllSent(i)
    PROVE  TilesAt(i)'
<1>1. SentUpTo(ids[i])' = SentUpTo(ids[i])
  BY StaysSent
<1>2. ASSUME NEW k \in DOMAIN stream', Is(k, "EXTENT")', stream'[k].file = ids[i]
      PROVE  stream'[k].offset = SentBefore(ids[i], k)'
  <2>1. /\ k \in DOMAIN stream /\ Is(k, "EXTENT") /\ stream'[k] = stream[k]
        /\ \A f : SentBefore(f, k)' = SentBefore(f, k)
    BY <1>2, StaysSent
  <2> QED
    BY <1>2, <2>1 DEF TilesAt
<1>3. (\E k \in DOMAIN stream' : Ends(k, ids[i])') => AllSent(i)
  BY DEF TilesAt, AllSent
<1> QED
  BY <1>1, <1>2, <1>3 DEF TilesAt, AllSent

\* A step within a call that puts no extent, other than ending the file.
LEMMA QuietTiles ==
    ASSUME Order, Tiled, UNCHANGED <<files, calls, ids>>, PutsNoExtent,
           UNCHANGED stream \/ \E p : Put(p) /\ p.type # "FILE_END",
           InCall' => InCall /\ (file.mode = "REG" => pc' # "end" /\ pc # "end" /\ Position' = Position)
    PROVE  Tiled'
<1>1. DOMAIN ids = 1 .. calls
  BY LenProperties DEF Order, WriterType
<1>2. \A i \in 1 .. calls : (\E k \in DOMAIN stream' : Ends(k, ids[i])') => \E k \in DOMAIN stream : Ends(k, ids[i])
  <2>1. CASE UNCHANGED stream
    BY <2>1 DEF Ends, Is
  <2>2. ASSUME NEW p, Put(p), p.type # "FILE_END"
        PROVE  \A i \in 1 .. calls : (\E k \in DOMAIN stream' : Ends(k, ids[i])') => \E k \in DOMAIN stream : Ends(k, ids[i])
    <3>1. PICK n : n = Len(stream) + 1
      OBVIOUS
    <3>2. /\ DOMAIN stream = 1 .. n - 1 /\ DOMAIN stream' = 1 .. n /\ n \in Nat
          /\ \A k \in 1 .. n - 1 : stream'[k] = stream[k]
          /\ stream'[n] = p
      BY <2>2, <3>1, OneMore DEF Order, Control
    <3> QED
      BY <2>2, <3>2 DEF Ends, Is
  <2> QED
    BY <2>1, <2>2
<1>3. AllTile'
  <2> SUFFICES ASSUME NEW i \in 1 .. calls, files[i].mode = "REG" PROVE TilesAt(i)'
    BY <1>1 DEF AllTile
  <2>1. TilesAt(i)
    BY <1>1, ExtentsTileIs DEF Tiled, AllTile
  <2> QED
    BY <1>2, <2>1, StaysTiledAt DEF Order, Control
<1>4. CurrentTiled'
  <2>1. fileid' = fileid /\ file' = file
    BY DEF fileid, file
  <2>2. SentUpTo(fileid)' = SentUpTo(fileid)
    BY <2>1, StaysSent DEF Order, Control
  <2> QED
    BY <2>1, <2>2 DEF Tiled, CurrentTiled
<1> QED
  BY <1>3, <1>4, AllTileIs, StaysCovered DEF Tiled, Order, Control

LEMMA EndTiles ==
    ASSUME Order, Tiled, Mapped, SendFileEnd
    PROVE  Tiled'
<1> DEFINE p == EndPacket(fileid)
<1>1. p.type = "FILE_END" /\ p.file = fileid
  BY DEF EndPacket
<1> HIDE DEF p
<1>2. Put(p) /\ UNCHANGED <<files, calls, ids>> /\ ~ InCall' /\ InCall
  BY DEF SendFileEnd, NoMoreExtents, InCall, p
<1>3. PutsNoExtent /\ DOMAIN ids = 1 .. calls
  BY <1>1, <1>2, LenProperties DEF PutsNoExtent, Order, WriterType
<1>4. fileid = ids[calls] /\ file = files[calls] /\ calls \in 1 .. calls /\ file.size \in Nat
  BY <1>2, PlanOfCalls, CurrentFile DEF Order, Control, file
<1>5. ASSUME file.mode = "REG" PROVE AllSent(calls)
  <2>1. CASE pc = "end"
    BY <1>2, <1>4, <1>5, <2>1 DEF Tiled, CurrentTiled, AllSent, extents
  <2>2. CASE pc # "end"
    <3>1. pc = "extents" /\ at = file.size
      BY <1>5, <2>2 DEF SendFileEnd, NoMoreExtents, ref_file
    <3>2. SentUpTo(fileid) = file.size
      BY <1>2, <1>5, <3>1 DEF Tiled, CurrentTiled, Position
    <3> QED
      BY <1>4, <3>2 DEF AllSent
  <2> QED
    BY <2>1, <2>2
<1>6. AllTile'
  <2> SUFFICES ASSUME NEW i \in 1 .. calls, files[i].mode = "REG" PROVE TilesAt(i)'
    BY <1>2, <1>3 DEF AllTile
  <2>1. TilesAt(i)
    BY <1>3, ExtentsTileIs DEF Tiled, AllTile
  <2>2. CASE ids[i] = fileid
    <3>1. i = calls
      BY <1>2, <2>2, OnlyCurrent DEF IsNew
    <3> QED
      BY <1>2, <1>3, <1>4, <1>5, <2>1, <3>1, StaysTiledAt DEF Order, Control
  <2>3. CASE ids[i] # fileid
    <3>1. PICK n : n = Len(stream) + 1
      OBVIOUS
    <3>2. /\ DOMAIN stream = 1 .. n - 1 /\ DOMAIN stream' = 1 .. n /\ n \in Nat
          /\ \A k \in 1 .. n - 1 : stream'[k] = stream[k]
          /\ stream'[n] = p
      BY <1>2, <3>1, OneMore DEF Order, Control
    <3>3. (\E k \in DOMAIN stream' : Ends(k, ids[i])') => \E k \in DOMAIN stream : Ends(k, ids[i])
      BY <1>1, <1>2, <2>3, <3>2 DEF Ends, Is
    <3> QED
      BY <1>2, <1>3, <2>1, <3>3, StaysTiledAt DEF Order, Control
  <2> QED
    BY <2>2, <2>3
<1>7. CurrentTiled'
  BY <1>2 DEF CurrentTiled
<1> QED
  BY <1>3, <1>6, <1>7, AllTileIs, StaysCovered DEF Tiled, Order, Control

LEMMA LoseTiles ==
    ASSUME Order, Tiled, Mapped, LoseTrailingHole
    PROVE  Tiled'
<1>1. /\ UNCHANGED <<files, calls, ids, stream>> /\ pc = "extents" /\ pc' = "end" /\ InCall
      /\ at = file.size \/ Unmapped = {}
  BY DEF LoseTrailingHole, NoMoreExtents, InCall
<1>2. DOMAIN ids = 1 .. calls /\ PutsNoExtent /\ at \in Nat
  BY <1>1, LenProperties DEF Order, WriterType, PutsNoExtent
<1>3. AllTile'
  <2> SUFFICES ASSUME NEW i \in 1 .. calls, files[i].mode = "REG" PROVE TilesAt(i)'
    BY <1>1, <1>2 DEF AllTile
  <2>1. TilesAt(i)
    BY <1>2, ExtentsTileIs DEF Tiled, AllTile
  <2>2. \A k : Ends(k, ids[i])' <=> Ends(k, ids[i])
    BY <1>1 DEF Ends, Is
  <2> QED
    BY <1>1, <1>2, <2>1, <2>2, StaysTiledAt DEF Order, Control
<1>4. CurrentTiled'
  <2> SUFFICES ASSUME file.mode = "REG"
               PROVE  /\ SentUpTo(fileid) <= file.size
                      /\ \A k \in DOMAIN extents : SentUpTo(fileid) >= file.size \/ SentUpTo(fileid) >= End(extents[k])
    <3>1. fileid' = fileid /\ file' = file /\ extents' = extents
      BY <1>1 DEF fileid, file, extents
    <3>2. SentUpTo(fileid)' = SentUpTo(fileid)
      BY <1>1, <3>1, SentStays
    <3> QED
      BY <1>1, <3>1, <3>2 DEF CurrentTiled
  <2>1. SentUpTo(fileid) = at
    BY <1>1 DEF Tiled, CurrentTiled, Position
  <2>2. at <= file.size /\ file.size \in Nat /\ \A k \in DOMAIN extents : extents[k] \in FileExtent
    BY <1>1, CurrentFile DEF Mapped, Order, CallFits
  <2>3. ASSUME NEW k \in DOMAIN extents PROVE at >= file.size \/ at >= End(extents[k])
    <3> End(extents[k]) \in Nat
      BY <2>2, ExtentFields
    <3> QED
      BY <1>1, <1>2, <2>2 DEF Unmapped, End
  <2> QED
    BY <2>1, <2>2, <2>3
<1> QED
  BY <1>2, <1>3, <1>4, AllTileIs, StaysCovered DEF Tiled, Order, Control

\* A file that is added, or another name of one.
LEMMA AddedTiles ==
    ASSUME Order, Tiled, Begin \/ WriteHardlink
    PROVE  Tiled'
<1>1. /\ files' = files /\ calls' = calls + 1 /\ calls \in Nat /\ Order'
      /\ \E p : Put(p) /\ p.type = "FILE"
  <2>1. \E p : Put(p) /\ p.type = "FILE"
    BY DEF Begin, WriteHardlink, FilePacket
  <2>2. files' = files /\ calls' = calls + 1
    BY DEF Begin, WriteHardlink
  <2>3. calls \in Nat
    BY PlanOfCalls DEF Order, Control
  <2> QED
    BY <2>1, <2>2, <2>3, BeginOrder, HardlinkOrder
<1>2. PutsNoExtent
  BY <1>1 DEF PutsNoExtent
<1>3. \A i \in 1 .. calls : ids'[i] = ids[i]
  <2> \E x \in Nat : ids' = Append(ids, x)
    <3>1. CASE Begin
      BY <3>1, PlanOfCalls DEF Begin, Order, Control
    <3>2. CASE WriteHardlink
      <4>1. /\ calls < Len(files) /\ files[calls + 1].mode = "HARD"
            /\ ids' = Append(ids, ids[files[calls + 1].of])
        BY <3>2 DEF WriteHardlink
      <4>2. calls + 1 \in DOMAIN files /\ calls \in Nat
        BY <1>1, <4>1 DEF Order, WriterType, IsPlan
      <4>3. files[calls + 1].of \in 1 .. calls
        BY <4>1, <4>2 DEF Order, WriterType, IsPlan
      <4> QED
        BY <4>1, <4>3, PlanOfCalls DEF Order, Control
    <3> QED
      BY <3>1, <3>2
  <2> QED
    BY IdsAppended DEF Order, WriterType
<1>4. /\ \A f : SentUpTo(f)' = SentUpTo(f)
      /\ DOMAIN ids' = 1 .. calls + 1 /\ \A i \in 1 .. calls + 1 : i \in 1 .. calls \/ i = calls + 1
      /\ DOMAIN ids = 1 .. calls
  BY <1>1, <1>2, StaysSent, LenProperties DEF Order, Control, WriterType
<1>5. ASSUME NEW i \in 1 .. calls, files[i].mode = "REG" PROVE TilesAt(i)'
  <2>1. TilesAt(i)
    BY <1>4, <1>5, ExtentsTileIs DEF Tiled, AllTile
  <2>2. PICK p : Put(p) /\ p.type = "FILE"
    BY <1>1
  <2>3. PICK n : n = Len(stream) + 1
    OBVIOUS
  <2>4. /\ DOMAIN stream = 1 .. n - 1 /\ DOMAIN stream' = 1 .. n /\ n \in Nat
        /\ \A k \in 1 .. n - 1 : stream'[k] = stream[k]
        /\ stream'[n] = p
    BY <2>2, <2>3, OneMore DEF Order, Control
  <2>5. (\E k \in DOMAIN stream' : Ends(k, ids[i])') => \E k \in DOMAIN stream : Ends(k, ids[i])
    BY <1>3, <2>2, <2>4 DEF Ends, Is
  <2> QED
    BY <1>1, <1>2, <1>3, <2>1, <2>5, StaysTiledAt DEF Order, Control
<1>6. CASE WriteHardlink
  <2>1. files[calls + 1].mode # "REG" /\ ~ InCall'
    BY <1>6 DEF WriteHardlink, InCall
  <2>2. AllTile'
    BY <1>1, <1>4, <1>5, <2>1 DEF AllTile
  <2> QED
    BY <1>2, <2>1, <2>2, AllTileIs, StaysCovered DEF Tiled, CurrentTiled, Order, Control
<1>7. CASE Begin
  <2>1. /\ IsNew(calls + 1) /\ next_fileid' = next_fileid + 1 /\ at' = 0 /\ pc' \in {"meta", "extents"} /\ InCall'
    BY <1>7 DEF Begin, IsNew, InCall
  <2>2. ids'[calls + 1] = next_fileid
    BY <1>7, PlanOfCalls, IdsAppended DEF Begin, Order, Control, WriterType
  <2>3. PICK g, c : g = next_fileid /\ c = calls + 1
    OBVIOUS
  <2>4. /\ fileid' = g /\ file' = files[c] /\ c \in Nat /\ ids'[c] = g /\ calls' = c
    BY <1>1, <2>2, <2>3 DEF fileid, file
  <2>5. SentUpTo(g)' = 0
    BY <1>4, <2>3, NoneOfNew
  <2>6. files[c].size \in Nat
    <3>1. c \in 1 .. calls' /\ IsNew(c)'
      BY <1>1, <2>1, <2>3, <2>4 DEF IsNew
    <3>2. IsPlan(files) /\ c \in DOMAIN files
      <4>1. IsPlan(files) /\ calls \in 0 .. Len(files) /\ calls < Len(files)
        BY <1>1, <1>7 DEF Begin, Order, WriterType
      <4>2. Len(files) \in Nat /\ DOMAIN files = 1 .. Len(files)
        BY <4>1 DEF IsPlan
      <4> QED
        BY <2>3, <4>1, <4>2
    <3> QED
      BY <2>1, <2>3, <3>2 DEF IsPlan, AreExtents, IsNew
  <2>7. TilesAt(c)'
    <3>1. ASSUME NEW k \in DOMAIN stream', Is(k, "EXTENT")' PROVE stream'[k].file # g
      <4>1. k \in DOMAIN stream /\ Is(k, "EXTENT") /\ stream'[k] = stream[k]
        BY <1>2, <3>1, StaysSent DEF Order, Control
      <4>2. PICK i \in 1 .. calls : stream[k].file = ids[i]
        BY <4>1 DEF Order, Announced
      <4>3. ids[i] < next_fileid /\ ids[i] \in Nat /\ next_fileid \in Nat
        BY PlanOfCalls DEF Order, IdsGrow, Control
      <4> QED
        BY <2>3, <4>1, <4>2, <4>3
    <3>2. \A j \in DOMAIN stream' : ~ Ends(j, g)'
      <4>1. \A j \in DOMAIN stream' : ~ Ends(j, fileid)'
        BY <1>1, <2>1 DEF Order, Ended
      <4> QED
        BY <2>4, <4>1 DEF Ends, Is
    <3> QED
      BY <1>1, <2>4, <2>5, <2>6, <3>1, <3>2 DEF TilesAt
  <2>8. AllTile'
    <3> SUFFICES ASSUME NEW i \in 1 .. calls + 1, files[i].mode = "REG" PROVE TilesAt(i)'
      BY <1>1, <1>4 DEF AllTile
    <3> QED
      BY <1>4, <1>5, <2>3, <2>7
  <2>9. CurrentTiled'
    BY <2>1, <2>4, <2>5 DEF CurrentTiled, Position
  <2> QED
    BY <1>2, <2>8, <2>9, AllTileIs, StaysCovered DEF Tiled, Order, Control
<1> QED
  BY <1>6, <1>7
------------------------------------------------------------------------------
Laid == Order /\ Tiling

LEMMA NextLaid == ASSUME Laid, [Next]_vars PROVE Laid'
<1>1. Order /\ Mapped /\ SharedFits /\ Tiled /\ Control
  BY DEF Laid, Tiling, Order, Control
<1>2. Order'
  BY <1>1, NextOrder
<1>3. Mapped' /\ SharedFits'
  BY <1>1, NextMapped, NextShared
<1> SUFFICES Tiled'
  BY <1>2, <1>3 DEF Laid, Tiling
<1>4. CASE PutsOne
  <2>1. InCall
    <3>1. CASE SendShared
      BY <3>1 DEF SendShared, SendNewShared, SendAvailShared, InCall
    <3>2. CASE ~ SendShared
      BY <1>4, <3>2 DEF PutsOne, SendHole, SendExplicitCopy, SendUnshared, SendTrailingHole,
                        AtExtent, NoMoreExtents, InCall
    <3> QED
      BY <3>1, <3>2
  <2>2. CASE UNCHANGED <<files, calls, ids, next_fileid>> /\ \E p : PutsNext(p)
    BY <1>1, <2>2, PutTiles
  <2>3. CASE ref_file /\ UNCHANGED <<stream, files, calls, ids, next_fileid>>
    <3>1. InCall' /\ PutsNoExtent /\ file.mode # "REG"
      BY <1>4, <2>1, <2>3, ExtentsPut DEF PutsNoExtent, ref_file
    <3> QED
      BY <1>1, <2>1, <2>3, <3>1, QuietTiles
  <2> QED
    BY <1>1, <1>4, <2>1, <2>2, <2>3, ExtentPut
<1>5. ASSUME UNCHANGED <<files, calls, ids>>, NEW p, Put(p) \/ UNCHANGED stream, p.type \notin {"EXTENT", "FILE_END"},
             InCall' => InCall /\ (file.mode = "REG" => pc' # "end" /\ pc # "end" /\ Position' = Position)
      PROVE  Tiled'
  <2>1. PutsNoExtent /\ (UNCHANGED stream \/ \E q : Put(q) /\ q.type # "FILE_END")
    BY <1>5 DEF PutsNoExtent
  <2> QED
    BY <1>1, <1>5, <2>1, QuietTiles
<1>6. CASE WriteHeader
  <2> Header.type = "HEADER"
    BY DEF Header
  <2> QED
    BY <1>5, <1>6 DEF WriteHeader, InCall
<1>7. CASE SendMeta
  <2>1. MetaPacket(fileid, Head(metas)).type = "FILE_META"
    BY DEF MetaPacket
  <2> HIDE DEF MetaPacket
  <2> QED
    BY <1>5, <1>7, <2>1 DEF SendMeta, InCall, Position
<1>8. CASE SendMetaEnd
  <2>1. MetaPacket(fileid, "END").type = "FILE_META"
    BY DEF MetaPacket
  <2> QED
    BY <1>5, <1>8, <2>1 DEF SendMetaEnd, InCall, Position, HasExtents
<1>9. CASE SendSnapshots
  <2>1. SnapshotPacket(fileid).type = "SNAPSHOT_LIST"
    BY DEF SnapshotPacket
  <2> QED
    BY <1>5, <1>9, <2>1 DEF SendSnapshots, InCall
<1>10. Header.type \notin {"EXTENT", "FILE_END"}
  BY DEF Header
<1>11. CASE NextExtents \/ Fail \/ UNCHANGED vars
  <2>1. UNCHANGED <<files, calls, ids, stream>>
    BY <1>11 DEF NextExtents, Fail, vars
  <2>2. CASE NextExtents \/ Fail
    BY <1>5, <1>10, <2>1, <2>2 DEF NextExtents, Fail, InCall, Position
  <2>3. CASE UNCHANGED vars
    <3>1. AllCovered' /\ ExtentsTile'
      <4>1. UNCHANGED <<files, ids, stream>>
        BY <2>3 DEF vars
      <4>2. AllCovered'
        BY <1>1, <4>1, StaysCovered DEF Tiled, PutsNoExtent
      <4>3. ExtentsTile'
        BY <1>1, <4>1, SentStays DEF Tiled, ExtentsTile, Is, Ends
      <4> QED
        BY <4>2, <4>3
    <3>2. CurrentTiled'
      <4>1. UNCHANGED <<files, calls, ids, pc, at, ex, stream>>
        BY <2>3 DEF vars, map_vars
      <4>2. file' = file /\ fileid' = fileid /\ extents' = extents /\ Position' = Position /\ (InCall' <=> InCall)
        BY <4>1 DEF file, fileid, extents, Position, InCall
      <4>3. SentUpTo(fileid)' = SentUpTo(fileid)
        BY <4>1, <4>2, SentStays
      <4> QED
        BY <1>1, <4>1, <4>2, <4>3 DEF Tiled, CurrentTiled
    <3> QED
      BY <3>1, <3>2 DEF Tiled
  <2> QED
    BY <1>11, <2>2, <2>3
<1>12. CASE AskMap
  <2>1. HasNext /\ pc = "extents" /\ (~ ref_file => at = Current.logical)
    BY <1>1, <1>12, AtIsLogical DEF AskMap
  <2>2. UNCHANGED <<files, calls, ids, stream>> /\ pc' = "shared" /\ ex'.logical = Current.logical
    BY <1>12 DEF AskMap, EMap!Ask
  <2> QED
    BY <1>5, <1>10, <2>1, <2>2 DEF InCall, Position, ref_file
<1>13. CASE SharedDone
  <2>1. /\ UNCHANGED <<files, calls, ids, stream>> /\ pc = "shared" /\ pc' = "extents" /\ Advance
        /\ ex.length = 0
    BY <1>13 DEF SharedDone
  <2>2. HasNext
    BY <1>1, <2>1, NextAtHand DEF Control
  <2>3. /\ ex.logical = Current.logical + (Current.length - ex.length)
        /\ ~ ref_file => at = Current.logical
    BY <1>1, <2>1 DEF SharedFits
  <2>4. at' = End(Current)
    BY <1>1, <2>1, <2>2, <2>3, AdvanceMapped
  <2>5. Current.logical \in Nat /\ Current.length \in Nat
    BY <1>1, <2>2, CurrentIs, ExtentFields DEF Control
  <2>6. Position' = Position
    BY <2>1, <2>3, <2>4, <2>5 DEF Position, End
  <2> QED
    BY <1>5, <1>10, <2>1, <2>6 DEF InCall
<1> QED
  BY <1>1, <1>4, <1>6, <1>7, <1>8, <1>9, <1>11, <1>12, <1>13, LoseTiles, EndTiles, AddedTiles
     DEF Next, Step, PutsOne

LEMMA InitLaid == Init => Laid
<1> SUFFICES ASSUME Init PROVE Laid
  OBVIOUS
<1>1. Order /\ pc = "new" /\ DOMAIN ids = {} /\ stream = <<>> /\ Len(stream) = 0
  BY InitOrder DEF Init
<1>2. \A f : SentUpTo(f) = 0
  <2>1. \A f : SentOf(f, Len(stream) + 1) = {}
    BY <1>1 DEF SentOf
  <2> QED
    BY <2>1, SentBeforeIs DEF SentBeforeGoes, SentUpTo
<1> QED
  BY <1>1, <1>2 DEF Laid, Tiling, Mapped, SharedFits, Tiled, AllCovered, CurrentTiled, InCall, ExtentsTile

LEMMA AlwaysLaid == Spec => []Laid
<1>1. Init => Laid
  BY InitLaid
<1>2. Laid /\ [Next]_vars => Laid'
  BY NextLaid
<1> QED
  BY <1>1, <1>2, PTL DEF Spec

\* However a file's extents lie, are merged, cut at the end of the file and
\* shared with other files, and in whatever parts the extent map takes them,
\* what FiesWriter_writeFile puts covers the file in order, without gap and
\* without overlap, and nothing that the file has is missing at its end.
THEOREM ExtentsAlwaysTile == Spec => []ExtentsTile
<1>1. Laid => ExtentsTile
  BY DEF Laid, Tiling, Tiled
<1> QED
  BY <1>1, AlwaysLaid, PTL
------------------------------------------------------------------------------
\* Within a file its extents are taken one after the other.
LEMMA NextGrows ==
    ASSUME Control, Mapped, [Next]_vars
    PROVE  files' = files /\ ((calls' = calls /\ next <= next') \/ calls' = calls + 1)
<1>1. next \in Nat
  BY DEF Control, WriterType
<1>2. CASE NextExtents
  <2>1. /\ calls > 0 /\ IsNew(calls) /\ pc = "extents" /\ UNCHANGED <<files, calls>> /\ at \in Nat /\ at # file.size
    BY <1>2 DEF NextExtents, Control, CallFits, InCall, WriterType
  <2>2. next' \in DOMAIN extents /\ next' \in Unmapped
    BY <1>2, <2>1, BatchBegins DEF Control
  <2>3. /\ \A k \in DOMAIN extents : extents[k] \in FileExtent
        /\ DOMAIN extents = 1 .. Len(extents) /\ Len(extents) \in Nat
    BY <2>1, CurrentFile DEF Control
  <2>4. End(extents[next']) \in Nat
    BY <2>2, <2>3, ExtentFields
  <2>5. End(extents[next']) > at
    BY <2>2 DEF Unmapped, End
  <2>6. ~ (next' < next)
    BY <2>1, <2>2, <2>4, <2>5 DEF Mapped
  <2> QED
    BY <1>1, <2>1, <2>2, <2>3, <2>6
<1>3. CASE SendExplicitCopy \/ SendUnshared \/ SharedDone
  <2>1. HasNext /\ Advance /\ UNCHANGED <<files, calls>>
    BY <1>3, NextAtHand DEF SendExplicitCopy, SendUnshared, SharedDone, AtExtent, Control
  <2>2. next < next' /\ next' \in Nat
    BY <2>1, Advances DEF Control
  <2> QED
    BY <1>1, <2>1, <2>2
<1>4. CASE Begin \/ WriteHardlink
  BY <1>4 DEF Begin, WriteHardlink
<1>5. ASSUME UNCHANGED <<files, calls, next>> PROVE files' = files /\ calls' = calls /\ next <= next'
  BY <1>1, <1>5
<1>6. CASE WriteHeader \/ SendMeta \/ SendMetaEnd \/ SendHole \/ AskMap
  BY <1>5, <1>6 DEF WriteHeader, SendMeta, SendMetaEnd, SendHole, AskMap
<1>7. CASE SendShared
  BY <1>5, <1>7 DEF SendShared, SendNewShared, SendAvailShared
<1>8. CASE SendTrailingHole \/ LoseTrailingHole \/ SendFileEnd \/ SendSnapshots \/ Fail
  BY <1>5, <1>8 DEF SendTrailingHole, LoseTrailingHole, SendFileEnd, SendSnapshots, Fail
<1>9. CASE UNCHANGED vars
  BY <1>5, <1>9 DEF vars
<1> QED
  BY <1>2, <1>3, <1>4, <1>6, <1>7, <1>8, <1>9 DEF Next, Step

\* What was sent alone stays so.
LEMMA StaysAlone ==
    ASSUME Control, Mapped, [Next]_vars, NEW q, SentAlone(q)
    PROVE  SentAlone(q)'
<1>1. /\ files' = files /\ ((calls' = calls /\ next <= next') \/ calls' = calls + 1)
      /\ calls \in Nat /\ next \in Nat /\ next' \in Nat
  BY NextGrows, NextControl, PlanOfCalls DEF Control, WriterType
<1>2. PICK i \in 1 .. calls : IsNew(i) /\ \E k \in DOMAIN files[i].extents :
        /\ IsBefore(i, k)
        /\ files[i].extents[k].flags = "DATA" /\ ~ files[i].extents[k].shared
        /\ q \in Places(files[i].extents[k])
  BY DEF SentAlone
<1>3. PICK k \in DOMAIN files[i].extents :
        /\ IsBefore(i, k)
        /\ files[i].extents[k].flags = "DATA" /\ ~ files[i].extents[k].shared
        /\ q \in Places(files[i].extents[k])
  BY <1>2
<1>4. k \in Nat
  <2>1. AreExtents(files[i])
    BY <1>2, PlanOfCalls
  <2> QED
    BY <2>1, LenProperties DEF AreExtents
<1>5. i \in 1 .. calls' /\ IsNew(i)' /\ IsBefore(i, k)'
  BY <1>1, <1>2, <1>3, <1>4 DEF IsBefore, IsNew
<1> QED
  BY <1>1, <1>3, <1>5 DEF SentAlone

\* The current file's id is one of the map's.
LEMMA IdsAreFiles ==
    ASSUME Order
    PROVE  /\ \A i \in 1 .. calls : ids[i] \in File
           /\ InCall => fileid \in File /\ fileid \in Nat
<1>1. /\ IsPlan(files) /\ calls \in 0 .. Len(files) /\ next_fileid \in 0 .. calls /\ Len(files) \in Nat
      /\ \A i \in 1 .. calls : ids[i] \in Nat /\ ids[i] < next_fileid
      /\ InCall => fileid = ids[calls] /\ calls \in 1 .. calls
  BY PlanOfCalls DEF Order, WriterType, IsPlan, Control, IdsGrow
<1>2. \A i \in 1 .. calls : ids[i] \in 0 .. Len(files) - 1
  BY <1>1
<1> QED
  BY <1>1, <1>2 DEF IsPlan

\* A piece of a shared extent that is sent: nobody has owned it, and now the
\* current file does.
LEMMA PieceIsOwned ==
    ASSUME Laid, OwnerType, NEW n \in 1 .. ex.length, SendNewShared(n)
    PROVE  /\ InCall /\ fileid \in File /\ ex.device \in Device
           /\ \A x \in ex.physical .. ex.physical + n - 1 : x \in Phys /\ owner[ex.device][x] = Nothing
           /\ owner' \in [Device -> [Phys -> Holder \cup {Nothing}]]
           /\ \A d \in Device, x \in Phys :
                owner'[d][x] = IF d = ex.device /\ x \in ex.physical .. ex.physical + n - 1
                               THEN [file |-> fileid, logical |-> ex.logical + (x - ex.physical)]
                               ELSE owner[d][x]
           /\ content' \in [File -> [Log -> Place \cup {Nothing}]]
           /\ \A f \in File, l \in Log :
                content'[f][l] = IF f = fileid /\ l \in ex.logical .. ex.logical + n - 1
                                 THEN [device |-> ex.device, physical |-> ex.physical + (l - ex.logical)]
                                 ELSE content[f][l]
<1>1. pc = "shared" /\ EMap!Send(n)
  BY DEF SendNewShared
<1>2. HasNext /\ InCall /\ fileid \in File
  BY <1>1, NextAtHand, IdsAreFiles DEF Laid, Order, InCall
<1>3. /\ Current.device \in Device /\ Current.length \in Nat /\ Current.logical \in Nat /\ Current.physical \in Nat
  BY <1>2, CurrentIs, ExtentFields DEF Laid, Order
<1>4. /\ ex.length \in 0 .. Current.length /\ ex.file = fileid /\ ex.device \in Device
      /\ ex.logical \in Nat /\ ex.physical \in Nat
      /\ ex.physical + ex.length <= PhysSize /\ ex.logical + ex.length <= LogSize
  BY <1>1, <1>3 DEF Laid, Tiling, SharedFits
<1>5. /\ \A x \in ex.physical .. ex.physical + n - 1 : x \in Phys
      /\ \A x \in ex.logical .. ex.logical + n - 1 : x \in Log
  BY <1>3, <1>4, SizeAssumption DEF Phys, Log
<1>6. \A x \in ex.physical .. ex.physical + n - 1 : owner[ex.device][x] = Nothing
  BY <1>1 DEF EMap!Send
<1>7. /\ owner' = [owner EXCEPT ![ex.device] =
                     [x \in DOMAIN owner[ex.device] |->
                        IF x \in ex.physical .. ex.physical + n - 1
                        THEN [file |-> fileid, logical |-> ex.logical + (x - ex.physical)]
                        ELSE owner[ex.device][x]]]
      /\ content' = [content EXCEPT ![fileid] =
                       [l \in DOMAIN content[fileid] |->
                          IF l \in ex.logical .. ex.logical + n - 1
                          THEN [device |-> ex.device, physical |-> ex.physical + (l - ex.logical)]
                          ELSE content[fileid][l]]]
  BY <1>1, <1>4 DEF EMap!Send, EMap!Overwrite
<1>8. \A x \in ex.physical .. ex.physical + n - 1 :
        [file |-> fileid, logical |-> ex.logical + (x - ex.physical)] \in Holder
  <2> SUFFICES ASSUME NEW x \in ex.physical .. ex.physical + n - 1
               PROVE  ex.logical + (x - ex.physical) \in Log
    BY <1>2 DEF Holder
  <2>1. ex.logical + (x - ex.physical) \in ex.logical .. ex.logical + n - 1
    BY <1>3, <1>4
  <2> QED
    BY <1>5, <2>1
<1>9. \A l \in ex.logical .. ex.logical + n - 1 :
        [device |-> ex.device, physical |-> ex.physical + (l - ex.logical)] \in Place
  <2> SUFFICES ASSUME NEW l \in ex.logical .. ex.logical + n - 1
               PROVE  ex.physical + (l - ex.logical) \in Phys
    BY <1>4 DEF Place
  <2>1. ex.physical + (l - ex.logical) \in ex.physical .. ex.physical + n - 1
    BY <1>3, <1>4
  <2> QED
    BY <1>5, <2>1
<1>10. /\ owner' \in [Device -> [Phys -> Holder \cup {Nothing}]]
       /\ \A d \in Device, x \in Phys :
            owner'[d][x] = IF d = ex.device /\ x \in ex.physical .. ex.physical + n - 1
                           THEN [file |-> fileid, logical |-> ex.logical + (x - ex.physical)]
                           ELSE owner[d][x]
  BY <1>4, <1>7, <1>8 DEF OwnerType
<1>11. /\ content' \in [File -> [Log -> Place \cup {Nothing}]]
       /\ \A f \in File, l \in Log :
            content'[f][l] = IF f = fileid /\ l \in ex.logical .. ex.logical + n - 1
                             THEN [device |-> ex.device, physical |-> ex.physical + (l - ex.logical)]
                             ELSE content[f][l]
  BY <1>2, <1>7, <1>9 DEF OwnerType
<1> QED
  BY <1>2, <1>4, <1>5, <1>6, <1>10, <1>11

\* A piece that is copied: from where its owner says.
LEMMA PieceIsCopied ==
    ASSUME Laid, OwnerType, NEW n \in 1 .. ex.length, SendAvailShared(n)
    PROVE  \E g \in File, m \in Log :
           /\ PutUnlessRef(CopyPacket(fileid, ex.logical, n, g, m))
           /\ InCall /\ fileid \in File /\ ex.device \in Device /\ owner' = owner
           /\ \A k \in 0 .. n - 1 : /\ ex.physical + k \in Phys /\ m + k \in Log
                                    /\ owner[ex.device][ex.physical + k] = [file |-> g, logical |-> m + k]
           /\ content' \in [File -> [Log -> Place \cup {Nothing}]]
           /\ \A f \in File, l \in Log :
                content'[f][l] = IF f = fileid /\ l \in ex.logical .. ex.logical + n - 1
                                 THEN content[g][m + (l - ex.logical)]
                                 ELSE content[f][l]
<1>1. PICK g \in File, m \in Log :
        pc = "shared" /\ EMap!Copy(n, g, m) /\ PutUnlessRef(CopyPacket(fileid, ex.logical, n, g, m))
  BY DEF SendAvailShared
<1>2. HasNext /\ InCall /\ fileid \in File
  BY <1>1, NextAtHand, IdsAreFiles DEF Laid, Order, InCall
<1>3. /\ Current.device \in Device /\ Current.length \in Nat /\ Current.logical \in Nat /\ Current.physical \in Nat
  BY <1>2, CurrentIs, ExtentFields DEF Laid, Order
<1>4. /\ ex.length \in 0 .. Current.length /\ ex.file = fileid /\ ex.device \in Device
      /\ ex.logical \in Nat /\ ex.physical \in Nat
      /\ ex.physical + ex.length <= PhysSize /\ ex.logical + ex.length <= LogSize
  BY <1>1, <1>3 DEF Laid, Tiling, SharedFits
<1>5. /\ owner' = owner
      /\ content' = [content EXCEPT ![fileid] =
                       [l \in DOMAIN content[fileid] |->
                          IF l \in ex.logical .. ex.logical + n - 1
                          THEN content[g][m + (l - ex.logical)]
                          ELSE content[fileid][l]]]
  BY <1>1, <1>4 DEF EMap!Copy, EMap!Overwrite
<1>6. ASSUME NEW k \in 0 .. n - 1
      PROVE  /\ ex.physical + k \in Phys /\ m + k \in Log
             /\ owner[ex.device][ex.physical + k] = [file |-> g, logical |-> m + k]
  <2>1. ex.physical + k \in Phys
    BY <1>3, <1>4, SizeAssumption DEF Phys
  <2>2. owner[ex.device][ex.physical + k] = [file |-> g, logical |-> m + k]
    BY <1>1 DEF EMap!Copy
  <2>3. m + k \in Nat
    BY SizeAssumption DEF Log
  <2>4. [file |-> g, logical |-> m + k] # Nothing
    BY <2>3, NobodyAssumption
  <2>5. [file |-> g, logical |-> m + k] \in Holder
    BY <1>4, <2>1, <2>2, <2>4 DEF OwnerType
  <2>6. [file |-> g, logical |-> m + k].logical \in Log
    BY <2>5 DEF Holder
  <2> QED
    BY <2>1, <2>2, <2>6
<1>7. \A l \in ex.logical .. ex.logical + n - 1 : m + (l - ex.logical) \in Log
  <2> SUFFICES ASSUME NEW l \in ex.logical .. ex.logical + n - 1 PROVE m + (l - ex.logical) \in Log
    OBVIOUS
  <2> l - ex.logical \in 0 .. n - 1
    BY <1>3, <1>4
  <2> QED
    BY <1>6
<1>8. /\ content' \in [File -> [Log -> Place \cup {Nothing}]]
      /\ \A f \in File, l \in Log :
           content'[f][l] = IF f = fileid /\ l \in ex.logical .. ex.logical + n - 1
                            THEN content[g][m + (l - ex.logical)]
                            ELSE content[f][l]
  BY <1>2, <1>5, <1>7 DEF OwnerType
<1> QED
  BY <1>1, <1>2, <1>4, <1>5, <1>6, <1>8
------------------------------------------------------------------------------
\* The actions that put an extent, send data, or change what is owned.
LEMMA NoExtentPut == ASSUME [Next]_vars, ~ PutsOne PROVE PutsNoExtent
<1>1. CASE WriteHeader
  <2> Header.type # "EXTENT"
    BY DEF Header
  <2> QED
    BY <1>1 DEF WriteHeader, PutsNoExtent
<1>2. CASE WriteHardlink \/ Begin
  <2> \A f, m, n : FilePacket(f, m, n).type # "EXTENT"
    BY DEF FilePacket
  <2> QED
    BY <1>2 DEF WriteHardlink, Begin, PutsNoExtent
<1>3. CASE SendMeta \/ SendMetaEnd
  <2> \A f, kind : MetaPacket(f, kind).type # "EXTENT"
    BY DEF MetaPacket
  <2> QED
    BY <1>3 DEF SendMeta, SendMetaEnd, PutsNoExtent
<1>4. CASE SendFileEnd
  <2> \A f : EndPacket(f).type # "EXTENT"
    BY DEF EndPacket
  <2> QED
    BY <1>4 DEF SendFileEnd, PutsNoExtent
<1>5. CASE SendSnapshots
  <2> \A f : SnapshotPacket(f).type # "EXTENT"
    BY DEF SnapshotPacket
  <2> QED
    BY <1>5 DEF SendSnapshots, PutsNoExtent
<1>6. CASE NextExtents \/ AskMap \/ SharedDone \/ LoseTrailingHole \/ Fail \/ UNCHANGED vars
  BY <1>6 DEF NextExtents, AskMap, SharedDone, LoseTrailingHole, Fail, vars, PutsNoExtent
<1> QED
  BY <1>1, <1>2, <1>3, <1>4, <1>5, <1>6 DEF Next, Step, PutsOne

PutsNoData == UNCHANGED stream \/ \E p : Put(p) /\ ~ (p.type = "EXTENT" /\ p.flags = "DATA")

LEMMA NoDataPut == ASSUME [Next]_vars, ~ SendUnshared, ~ SendShared PROVE PutsNoData
<1>1. CASE ~ PutsOne
  BY <1>1, NoExtentPut DEF PutsNoExtent, PutsNoData
<1>2. CASE SendHole \/ SendTrailingHole
  <2> \A f, o, n : EmptyPacket(f, "HOLE", o, n).flags # "DATA"
    BY DEF EmptyPacket
  <2> QED
    BY <1>2 DEF SendHole, SendTrailingHole, PutsNoData
<1>3. CASE SendExplicitCopy
  <2> \A f, o, n, g, m : CopyPacket(f, o, n, g, m).flags # "DATA"
    BY DEF CopyPacket
  <2> QED
    BY <1>3 DEF SendExplicitCopy, PutUnlessRef, PutsNoData
<1> QED
  BY <1>1, <1>2, <1>3 DEF PutsOne

LEMMA OwnersStay == ASSUME [Next]_vars, ~ SendShared PROVE owner' = owner /\ content' = content
<1>1. CASE AskMap
  BY <1>1 DEF AskMap, EMap!Ask
<1>2. CASE ~ AskMap
  <2> UNCHANGED map_vars
    BY <1>2 DEF Next, Step, WriteHeader, WriteHardlink, Begin, SendMeta, SendMetaEnd, NextExtents, SendHole,
              SendExplicitCopy, SendUnshared, SharedDone, SendTrailingHole,
              LoseTrailingHole, SendFileEnd, SendSnapshots, Fail, vars
  <2> QED
    BY DEF map_vars
<1> QED
  BY <1>1, <1>2

LEMMA NextNoneOfRef == ASSUME Laid, NoneOfRef, [Next]_vars PROVE NoneOfRef'
<1>1. Order /\ Control /\ Mapped /\ SharedFits
  BY DEF Laid, Tiling, Order, Control
<1> SUFFICES ASSUME InCall', ref_file', NEW j \in DOMAIN stream', Is(j, "EXTENT")'
             PROVE  stream'[j].file # fileid'
  BY DEF NoneOfRef
<1>2. CASE Begin
  <2>1. PutsNoExtent
    BY <1>2, NoExtentPut DEF PutsOne, Begin, SendHole, SendExplicitCopy, SendUnshared, SendShared,
          SendNewShared, SendAvailShared, SendTrailingHole, AtExtent, NoMoreExtents
  <2>2. j \in DOMAIN stream /\ Is(j, "EXTENT") /\ stream'[j] = stream[j]
    BY <1>1, <2>1, StaysSent
  <2>3. PICK i \in 1 .. calls : stream[j].file = ids[i]
    BY <1>1, <2>2 DEF Order, Announced
  <2>4. ids[i] < next_fileid /\ ids[i] \in Nat /\ next_fileid \in Nat /\ calls \in Nat /\ Len(ids) = calls /\ ids \in Seq(Nat)
    BY <1>1, PlanOfCalls DEF Order, IdsGrow, Control, WriterType
  <2>5. fileid' = next_fileid
    BY <1>2, <2>4, IdsAppended DEF Begin, fileid
  <2> QED
    BY <2>2, <2>3, <2>4, <2>5
<1>3. CASE WriteHardlink
  BY <1>3 DEF WriteHardlink, InCall
<1>4. CASE GoesOn
  <2>1. InCall /\ UNCHANGED <<files, calls, ids>>
    BY <1>4 DEF GoesOn, Silent, PutsOther, PutsExtent, PutsEnd, InCall
  <2>2. fileid' = fileid /\ ref_file
    BY <2>1 DEF fileid, ref_file, file
  <2>3. PutsNoExtent
    <3>1. CASE PutsOne
      BY <1>1, <2>1, <2>2, <3>1, ExtentPut DEF PutsNoExtent
    <3> QED
      BY <3>1, NoExtentPut
  <2>4. j \in DOMAIN stream /\ Is(j, "EXTENT") /\ stream'[j] = stream[j]
    BY <1>1, <2>3, StaysSent
  <2> QED
    BY <2>1, <2>2, <2>4 DEF NoneOfRef
<1> QED
  BY <1>1, <1>2, <1>3, <1>4, StepsOfCall DEF Control
------------------------------------------------------------------------------
\* The n bytes of a device from x on.
PlacesAt(d, x, n) == {[device |-> d, physical |-> x + k] : k \in 0 .. n - 1}

LEMMA PlacesAreMany ==
    ASSUME NEW d, NEW x \in Nat, NEW n \in Nat
    PROVE  Cardinality(PlacesAt(d, x, n)) = n
<1> DEFINE T == PlacesAt(d, x, n)
           g == [k \in 0 .. n - 1 |-> [device |-> d, physical |-> x + k]]
<1>1. g \in [0 .. n - 1 -> T]
  BY DEF PlacesAt
<1>2. \A t \in T : \E k \in 0 .. n - 1 : g[k] = t
  BY DEF PlacesAt
<1>3. ASSUME NEW a \in 0 .. n - 1, NEW b \in 0 .. n - 1, g[a] = g[b] PROVE a = b
  <2>1. g[a].physical = x + a /\ g[b].physical = x + b
    OBVIOUS
  <2> HIDE DEF g
  <2> QED
    BY <1>3, <2>1
<1> HIDE DEF g, T
<1>4. g \in Bijection(0 .. n - 1, T)
  BY <1>1, <1>2, <1>3 DEF Bijection, Injection, Surjection, IsInjective
<1>5. IsFiniteSet(0 .. n - 1) /\ Cardinality(0 .. n - 1) = n
  BY FS_Interval
<1>6. Cardinality(T) = n
  BY <1>4, <1>5, FS_Bijection DEF ExistsBijection
<1> QED
  BY <1>6 DEF T

\* The bytes of a packet with data.
BytesOf(p) == {p.data[k] : k \in DOMAIN p.data}

LEMMA DataPacketIs ==
    ASSUME NEW e, e.flags = "DATA", NEW l, NEW x, NEW n
    PROVE  BytesOf(NewPacket(e, l, x, n)) = PlacesAt(e.device, x, n)
<1> DEFINE g == [k \in 0 .. n - 1 |-> [device |-> e.device, physical |-> x + k]]
<1>1. NewPacket(e, l, x, n).data = g
  BY DEF NewPacket, DataPacket
<1> QED
  BY <1>1 DEF BytesOf, PlacesAt

\* What SentOnce says of packet i.
OnceAt(i) ==
    IsData(i) =>
      /\ Cardinality(DataPlaces(i)) = stream[i].length
      /\ \A j \in 1 .. i - 1 :
           /\ IsData(j) => DataPlaces(i) \cap DataPlaces(j) = {}
           /\ Is(j, "FILE") /\ stream[j].mode = "REF" =>
                \A p \in DataPlaces(i), l \in Log : content[stream[j].file][l] # p

\* A reference file that is before data is not the current one.
LEMMA RefIsBefore ==
    ASSUME Order, NoneOfRef, InCall, NEW i \in DOMAIN stream, Is(i, "EXTENT"),
           NEW j \in 1 .. i - 1, Is(j, "FILE"), stream[j].mode = "REF"
    PROVE  stream[j].file # fileid
<1> SUFFICES ASSUME stream[j].file = fileid PROVE FALSE
  OBVIOUS
<1>1. DOMAIN stream = 1 .. Len(stream) /\ Len(stream) \in Nat
  BY LenProperties DEF Order, WriterType
<1>2. j \in DOMAIN stream /\ j \in Nat /\ i \in Nat /\ j < i /\ Announces(j)
  BY <1>1 DEF Announces
<1>3. PICK f \in 1 .. calls : IsNew(f) /\ stream[j] = FilePacket(ids[f], files[f].mode, files[f].size)
  BY <1>2 DEF Order, Announced
<1>4. ids[f] = fileid /\ files[f].mode = "REF"
  BY <1>3 DEF FilePacket
<1>5. ref_file
  BY <1>3, <1>4, OnlyCurrent DEF ref_file, file
<1>6. PICK k \in DOMAIN stream : Announces(k) /\ stream[k].file = fileid /\ \A m \in DOMAIN stream : Announces(m) => m <= k
  BY CurrentAnnounced
<1>7. j = k
  <2>1. j <= k /\ k \in Nat
    BY <1>1, <1>2, <1>6
  <2>2. ~ (j < k)
    <3>1. fileid \in Nat
      BY IdsAreFiles
    <3> QED
      BY <1>2, <1>6, <3>1 DEF Order, Announced
  <2> QED
    BY <1>2, <2>1, <2>2
<1>8. PICK m \in 1 .. i - 1 : Announces(m) /\ stream[m].file = stream[i].file /\ \A h \in 1 .. i - 1 : Announces(h) => h <= m
  BY WholeIsWholeAt DEF Order, AllWhole, WholeAt
<1>9. m \in DOMAIN stream /\ m \in Nat
  BY <1>1, <1>2
<1>10. m = j
  BY <1>2, <1>6, <1>7, <1>8, <1>9
<1> QED
  BY <1>5, <1>8, <1>10 DEF NoneOfRef

\* The files of packets are the map's.
LEMMA AnnouncedIsFile ==
    ASSUME Order, NEW j \in DOMAIN stream, Announces(j)
    PROVE  stream[j].file \in File
<1>1. PICK f \in 1 .. calls : IsNew(f) /\ stream[j] = FilePacket(ids[f], files[f].mode, files[f].size)
  BY DEF Order, Announced
<1> QED
  BY <1>1, IdsAreFiles DEF FilePacket

\* A file's content may only change while it is the current one.
ContentStays ==
    \/ content' = content
    \/ InCall /\ \A f \in File \ {fileid} : \A l \in Log : content'[f][l] = content[f][l]

LEMMA OldOnce ==
    ASSUME Order, NoneOfRef, SentOnce, ContentStays,
           \A i \in DOMAIN stream : stream'[i] = stream[i]
    PROVE  \A i \in DOMAIN stream : OnceAt(i)'
<1> SUFFICES ASSUME NEW i \in DOMAIN stream, IsData(i)' PROVE OnceAt(i)'
  BY DEF OnceAt
<1>1. DOMAIN stream = 1 .. Len(stream) /\ Len(stream) \in Nat
  BY LenProperties DEF Order, WriterType
<1>2. \A j \in 1 .. i - 1 : j \in DOMAIN stream
  BY <1>1
<1>3. \A j \in DOMAIN stream : /\ \A type : Is(j, type)' <=> Is(j, type)
                               /\ IsData(j)' <=> IsData(j)
                               /\ DataPlaces(j)' = DataPlaces(j)
  BY DEF Is, IsData, DataPlaces
<1>4. OnceAt(i) /\ IsData(i)
  BY <1>3 DEF SentOnce, OnceAt
<1>5. ASSUME NEW j \in 1 .. i - 1, Is(j, "FILE"), stream[j].mode = "REF", NEW p \in DataPlaces(i), NEW l \in Log
      PROVE  content'[stream[j].file][l] # p
  <2>1. content[stream[j].file][l] # p
    BY <1>4, <1>5 DEF OnceAt
  <2>2. CASE content' = content
    BY <2>1, <2>2
  <2>3. CASE InCall /\ \A f \in File \ {fileid} : \A x \in Log : content'[f][x] = content[f][x]
    <3>1. stream[j].file # fileid
      BY <1>4, <1>5, <2>3, RefIsBefore DEF IsData
    <3>2. stream[j].file \in File
      BY <1>2, <1>5, AnnouncedIsFile DEF Announces
    <3> QED
      BY <2>1, <2>3, <3>1, <3>2
  <2> QED
    BY <2>2, <2>3 DEF ContentStays
<1> QED
  BY <1>2, <1>3, <1>4, <1>5 DEF OnceAt

LEMMA SentOnceIs == SentOnce <=> \A i \in DOMAIN stream : OnceAt(i)
  BY DEF SentOnce, OnceAt

AllOnce == \A i \in DOMAIN stream : OnceAt(i)

LEMMA KeepOnce ==
    ASSUME Order, NoneOfRef, SentOnce, ContentStays, PutsNoData
    PROVE  SentOnce'
<1>1. AllOnce'
  <2>1. CASE UNCHANGED stream
    BY <2>1, OldOnce DEF AllOnce
  <2>2. CASE \E p : Put(p) /\ ~ (p.type = "EXTENT" /\ p.flags = "DATA")
    <3>1. PICK p : Put(p) /\ ~ (p.type = "EXTENT" /\ p.flags = "DATA")
      BY <2>2
    <3>2. PICK n : n = Len(stream) + 1
      OBVIOUS
    <3>3. /\ DOMAIN stream = 1 .. n - 1 /\ DOMAIN stream' = 1 .. n /\ n \in Nat \ {0}
          /\ \A i \in 1 .. n - 1 : stream'[i] = stream[i]
          /\ stream'[n] = p
      BY <3>1, <3>2, OneMore DEF Order, Control
    <3>4. \A i \in DOMAIN stream : OnceAt(i)'
      BY <3>3, OldOnce
    <3>5. ~ IsData(n)'
      BY <3>1, <3>3 DEF IsData, Is
    <3>6. \A i \in 1 .. n : i \in DOMAIN stream \/ i = n
      BY <3>3
    <3> QED
      BY <3>3, <3>4, <3>5, <3>6 DEF AllOnce, OnceAt
  <2> QED
    BY <2>1, <2>2 DEF PutsNoData
<1> QED
  BY <1>1, SentOnceIs, PTL DEF AllOnce

\* One more packet with data.
LEMMA MoreOnce ==
    ASSUME Order, NoneOfRef, SentOnce, ContentStays, InCall, ~ ref_file,
           NEW p, Put(p), p.type = "EXTENT", p.flags = "DATA",
           Cardinality(BytesOf(p)) = p.length,
           \A j \in DOMAIN stream : IsData(j) => BytesOf(p) \cap DataPlaces(j) = {},
           \A q \in BytesOf(p), f \in File, l \in Log : f # fileid => content'[f][l] # q
    PROVE  SentOnce'
<1>1. PICK n : n = Len(stream) + 1
  OBVIOUS
<1>2. /\ DOMAIN stream = 1 .. n - 1 /\ DOMAIN stream' = 1 .. n /\ n \in Nat \ {0}
      /\ \A i \in 1 .. n - 1 : stream'[i] = stream[i]
      /\ stream'[n] = p
  BY <1>1, OneMore DEF Order, Control
<1>3. \A i \in DOMAIN stream : OnceAt(i)'
  BY <1>2, OldOnce
<1>4. DataPlaces(n)' = BytesOf(p)
  BY <1>2 DEF DataPlaces, BytesOf
<1>5. \A j \in 1 .. n - 1 : IsData(j)' => BytesOf(p) \cap DataPlaces(j)' = {}
  BY <1>2 DEF IsData, Is, DataPlaces
<1>6. ASSUME NEW j \in 1 .. n - 1, Is(j, "FILE")', stream'[j].mode = "REF", NEW q \in BytesOf(p), NEW l \in Log
      PROVE  content'[stream'[j].file][l] # q
  <2>1. stream'[j] = stream[j] /\ j \in DOMAIN stream /\ Announces(j) /\ stream[j].mode = "REF"
    BY <1>2, <1>6 DEF Announces, Is
  <2>2. stream[j].file \in File
    BY <2>1, AnnouncedIsFile
  <2>3. PICK f \in 1 .. calls : IsNew(f) /\ stream[j] = FilePacket(ids[f], files[f].mode, files[f].size)
    BY <2>1 DEF Order, Announced
  <2>4. stream[j].file = ids[f] /\ files[f].mode = "REF"
    BY <2>1, <2>3 DEF FilePacket
  <2>5. stream[j].file # fileid
    BY <2>3, <2>4, OnlyCurrent DEF ref_file, file
  <2> QED
    BY <2>1, <2>2, <2>5
<1>7. OnceAt(n)'
  BY <1>2, <1>4, <1>5, <1>6 DEF OnceAt
<1>8. \A i \in 1 .. n : i \in DOMAIN stream \/ i = n
  BY <1>2
<1>9. AllOnce'
  BY <1>2, <1>3, <1>7, <1>8 DEF AllOnce
<1> QED
  BY <1>9, SentOnceIs, PTL DEF AllOnce
------------------------------------------------------------------------------
\* Each byte that Current has is a place of one of the extents it was merged from.
LEMMA ByteIsPlace ==
    ASSUME WriterType, HasNext, NEW x \in 0 .. Current.length - 1
    PROVE  \E k \in DOMAIN extents :
             /\ k \in next .. MergedUpTo
             /\ extents[k].flags = Current.flags /\ extents[k].shared = Current.shared
             /\ [device |-> Current.device, physical |-> Current.physical + x] \in Places(extents[k])
<1>1. PICK k \in next .. MergedUpTo : k \in DOMAIN extents /\ IsByteOf(x, extents[k])
  BY BytesOfCurrent
<1>2. PICK y : y = Current.logical + x - extents[k].logical
  OBVIOUS
<1>3. /\ y \in 0 .. extents[k].length - 1
      /\ extents[k].flags = Current.flags /\ extents[k].shared = Current.shared /\ extents[k].device = Current.device
      /\ Current.physical + x = extents[k].physical + y
  BY <1>1, <1>2 DEF IsByteOf
<1>4. [device |-> Current.device, physical |-> Current.physical + x] \in Places(extents[k])
  BY <1>3 DEF Places
<1> QED
  BY <1>1, <1>3, <1>4

\* An extent that is not shared has its bytes for itself.
LEMMA AloneIsAlone ==
    ASSUME Order,
           NEW i \in 1 .. calls, NEW k \in DOMAIN files[i].extents, IsNew(i),
           NEW j \in 1 .. calls, NEW m \in DOMAIN files[j].extents, IsNew(j),
           i # j \/ k # m \/ files[j].extents[m].shared # files[i].extents[k].shared,
           files[i].extents[k].flags = "DATA", ~ files[i].extents[k].shared,
           files[j].extents[m].flags = "DATA" \/ files[j].extents[m].shared,
           NEW q \in Places(files[i].extents[k])
    PROVE  q \notin Places(files[j].extents[m])
<1>1. i \in DOMAIN files /\ j \in DOMAIN files /\ OwnPlaces(files)
  BY PlanOfCalls DEF Order, Control, WriterType, IsPlan
<1>2. <<i, k>> # <<j, m>>
  OBVIOUS
<1>3. Places(files[i].extents[k]) \cap Places(files[j].extents[m]) = {}
  BY <1>1, <1>2 DEF OwnPlaces, IsNew
<1> QED
  BY <1>3

LEMMA KnownStays ==
    ASSUME Laid, DataIsKnown, [Next]_vars,
           \A q : IsOwned(q) => IsOwned(q)',
           PutsNoData \/ \E p : Put(p) /\ \A q \in BytesOf(p) : IsOwned(q)' \/ SentAlone(q)'
    PROVE  DataIsKnown'
<1>1. Order /\ Control /\ Mapped
  BY DEF Laid, Tiling, Order, Control
<1>2. \A q : IsOwned(q) \/ SentAlone(q) => IsOwned(q)' \/ SentAlone(q)'
  BY <1>1, StaysAlone
<1>3. ASSUME NEW j \in DOMAIN stream, stream'[j] = stream[j], IsData(j)', NEW q \in DataPlaces(j)'
      PROVE  IsOwned(q)' \/ SentAlone(q)'
  <2>1. IsData(j) /\ q \in DataPlaces(j)
    BY <1>3 DEF IsData, Is, DataPlaces
  <2> QED
    BY <1>2, <2>1 DEF DataIsKnown
<1>4. CASE UNCHANGED stream
  BY <1>3, <1>4 DEF DataIsKnown
<1>5. ASSUME NEW p, Put(p), NEW j \in DOMAIN stream',
             ~ (p.type = "EXTENT" /\ p.flags = "DATA") \/ \A q \in BytesOf(p) : IsOwned(q)' \/ SentAlone(q)',
             IsData(j)', NEW q \in DataPlaces(j)'
      PROVE  IsOwned(q)' \/ SentAlone(q)'
  <2>1. PICK n : n = Len(stream) + 1
    OBVIOUS
  <2>2. /\ DOMAIN stream = 1 .. n - 1 /\ DOMAIN stream' = 1 .. n /\ n \in Nat \ {0}
        /\ \A i \in 1 .. n - 1 : stream'[i] = stream[i]
        /\ stream'[n] = p
    BY <1>1, <1>5, <2>1, OneMore
  <2>3. CASE j \in DOMAIN stream
    BY <1>3, <1>5, <2>2, <2>3
  <2>4. CASE j \notin DOMAIN stream
    <3>1. j = n
      BY <2>2, <2>4
    <3>2. DataPlaces(j)' = BytesOf(p) /\ p.type = "EXTENT" /\ p.flags = "DATA"
      BY <1>5, <2>2, <3>1 DEF IsData, Is, DataPlaces, BytesOf
    <3> QED
      BY <1>5, <3>2
  <2> QED
    BY <2>3, <2>4
<1>6. CASE \E p : Put(p) /\ (~ (p.type = "EXTENT" /\ p.flags = "DATA") \/ \A q \in BytesOf(p) : IsOwned(q)' \/ SentAlone(q)')
  BY <1>5, <1>6 DEF DataIsKnown
<1> QED
  BY <1>4, <1>6 DEF PutsNoData

LEMMA QuietSending ==
    ASSUME Laid, Sending, [Next]_vars, owner' = owner, OwnerType', ContentIsOwned', ContentStays, PutsNoData
    PROVE  Sending'
<1>1. Order /\ Control /\ Mapped
  BY DEF Laid, Tiling, Order, Control
<1>2. \A q : IsOwned(q)' <=> IsOwned(q)
  BY DEF IsOwned
<1>3. DataIsKnown'
  BY <1>2, KnownStays DEF Sending
<1>4. NoneOfRef'
  BY NextNoneOfRef DEF Sending
<1>5. SentOnce'
  BY <1>1, KeepOnce DEF Sending
<1>6. OwnedIsShared'
  <2> SUFFICES ASSUME NEW q \in Place, IsOwned(q)
               PROVE  \E i \in 1 .. calls' : IsNew(i)' /\ \E k \in DOMAIN files'[i].extents :
                        files'[i].extents[k].shared /\ q \in Places(files'[i].extents[k])
    BY <1>2 DEF OwnedIsShared
  <2>1. PICK i \in 1 .. calls : IsNew(i) /\ \E k \in DOMAIN files[i].extents :
          files[i].extents[k].shared /\ q \in Places(files[i].extents[k])
    BY DEF Sending, OwnedIsShared
  <2>2. files' = files /\ (calls' = calls \/ calls' = calls + 1) /\ calls \in Nat
    BY <1>1, NextGrows, PlanOfCalls
  <2>3. i \in 1 .. calls' /\ IsNew(i)'
    BY <2>1, <2>2 DEF IsNew
  <2> QED
    BY <2>1, <2>2, <2>3
<1> QED
  BY <1>3, <1>4, <1>5, <1>6 DEF Sending

\* What nobody owns and no extent had for itself was not sent yet.
LEMMA NewIsApart ==
    ASSUME Sending, NEW T, \A q \in T : ~ IsOwned(q) /\ ~ SentAlone(q)
    PROVE  \A j \in DOMAIN stream : IsData(j) => T \cap DataPlaces(j) = {}
  BY DEF Sending, DataIsKnown

LEMMA AloneSending == ASSUME Laid, Sending, SendUnshared PROVE Sending'
<1>1. Order /\ Control /\ Mapped /\ WriterType /\ CallFits
  BY DEF Laid, Tiling, Order, Control
<1>2. [Next]_vars
  BY DEF Next, Step
<1>3. owner' = owner /\ content' = content /\ UNCHANGED <<files, calls, ids>> /\ AtExtent /\ Advance /\ ~ Current.shared
  BY DEF SendUnshared, map_vars
<1>4. OwnerType' /\ ContentIsOwned' /\ ContentStays
  BY <1>3 DEF Sending, OwnerType, ContentIsOwned, IsOwned, ContentStays
<1> DEFINE p == NewPacket(Current, Current.logical, Current.physical, Current.length)
<1>5. PutUnlessRef(p)
  BY DEF SendUnshared
<1>6. CASE ref_file \/ Current.flags # "DATA"
  <2>1. PutsNoData
    BY <1>5, <1>6, NewPacketIs DEF PutUnlessRef, PutsNoData
  <2> QED
    BY <1>2, <1>3, <1>4, <2>1, QuietSending
<1>7. CASE ~ ref_file /\ Current.flags = "DATA"
  <2>1. HasNext /\ InCall
    BY <1>1, <1>3, NextAtHand DEF AtExtent, InCall
  <2>2. /\ Current.length \in Nat /\ Current.physical \in Nat /\ Current.device \in Device
        /\ calls \in 1 .. calls /\ IsNew(calls) /\ extents = files[calls].extents
        /\ MergedUpTo \in Nat /\ next \in Nat /\ next' = MergedUpTo + 1
    BY <1>1, <1>3, <2>1, CurrentIs, ExtentFields, PlanOfCalls DEF extents, file, WriterType, Advance
  <2>3. BytesOf(p) = PlacesAt(Current.device, Current.physical, Current.length)
    BY <1>7, DataPacketIs
  <2>4. p.type = "EXTENT" /\ p.flags = "DATA" /\ p.length = Current.length
    BY <1>7, NewPacketIs
  <2>5. Put(p)
    BY <1>5, <1>7 DEF PutUnlessRef
  <2> HIDE DEF p
  <2>6. ASSUME NEW q \in BytesOf(p)
        PROVE  \E k \in DOMAIN files[calls].extents :
                 /\ k \in next .. MergedUpTo /\ q \in Places(files[calls].extents[k])
                 /\ files[calls].extents[k].flags = "DATA" /\ ~ files[calls].extents[k].shared
    <3>1. PICK x \in 0 .. Current.length - 1 : q = [device |-> Current.device, physical |-> Current.physical + x]
      BY <2>3 DEF PlacesAt
    <3> QED
      BY <1>1, <1>3, <1>7, <2>1, <2>2, <3>1, ByteIsPlace
  <2>7. ASSUME NEW q \in BytesOf(p) PROVE ~ IsOwned(q) /\ ~ SentAlone(q) /\ SentAlone(q)' /\ q # Nothing
    <3>1. PICK k \in DOMAIN files[calls].extents :
            /\ k \in next .. MergedUpTo /\ q \in Places(files[calls].extents[k])
            /\ files[calls].extents[k].flags = "DATA" /\ ~ files[calls].extents[k].shared
      BY <2>6
    <3>2. ~ IsOwned(q)
      <4> SUFFICES ASSUME IsOwned(q) PROVE FALSE
        OBVIOUS
      <4>1. PICK i \in 1 .. calls : IsNew(i) /\ \E m \in DOMAIN files[i].extents :
              files[i].extents[m].shared /\ q \in Places(files[i].extents[m])
        BY DEF Sending, OwnedIsShared, IsOwned
      <4>2. PICK m \in DOMAIN files[i].extents : files[i].extents[m].shared /\ q \in Places(files[i].extents[m])
        BY <4>1
      <4> QED
        BY <1>1, <2>2, <3>1, <4>1, <4>2, AloneIsAlone
    <3>3. ~ SentAlone(q)
      <4> SUFFICES ASSUME SentAlone(q) PROVE FALSE
        OBVIOUS
      <4>1. PICK i \in 1 .. calls : IsNew(i) /\ \E m \in DOMAIN files[i].extents :
              /\ IsBefore(i, m) /\ files[i].extents[m].flags = "DATA" /\ ~ files[i].extents[m].shared
              /\ q \in Places(files[i].extents[m])
        BY DEF SentAlone
      <4>2. PICK m \in DOMAIN files[i].extents :
              /\ IsBefore(i, m) /\ files[i].extents[m].flags = "DATA" /\ ~ files[i].extents[m].shared
              /\ q \in Places(files[i].extents[m])
        BY <4>1
      <4>3. i # calls \/ m # k
        BY <2>2, <3>1, <4>2 DEF IsBefore
      <4> QED
        BY <1>1, <2>2, <3>1, <4>1, <4>2, <4>3, AloneIsAlone
    <3>4. SentAlone(q)'
      <4>1. IsBefore(calls, k)'
        BY <1>3, <2>2, <3>1 DEF IsBefore
      <4>2. calls' = calls /\ files' = files /\ IsNew(calls)'
        BY <1>3, <2>2 DEF IsNew
      <4> QED
        BY <2>2, <3>1, <4>1, <4>2 DEF SentAlone
    <3>5. q \in [device : Device, physical : Nat]
      BY <2>2, <2>3 DEF PlacesAt
    <3> QED
      BY <3>2, <3>3, <3>4, <3>5, NobodyAssumption
  <2>8. SentOnce'
    <3>1. Cardinality(BytesOf(p)) = p.length
      BY <2>2, <2>3, <2>4, PlacesAreMany
    <3>2. \A j \in DOMAIN stream : IsData(j) => BytesOf(p) \cap DataPlaces(j) = {}
      BY <2>7, NewIsApart
    <3>3. \A q \in BytesOf(p), f \in File, l \in Log : content'[f][l] # q
      BY <1>3, <2>7 DEF Sending, ContentIsOwned
    <3> QED
      BY <1>1, <1>4, <1>7, <2>1, <2>4, <2>5, <3>1, <3>2, <3>3, MoreOnce DEF Sending
  <2>9. DataIsKnown'
    <3>1. \A q : IsOwned(q) => IsOwned(q)'
      BY <1>3 DEF IsOwned
    <3> QED
      BY <1>2, <2>5, <2>7, <3>1, KnownStays DEF Sending
  <2>10. OwnedIsShared'
    BY <1>3 DEF Sending, OwnedIsShared, IsOwned, IsNew
  <2>11. NoneOfRef'
    BY <1>2, NextNoneOfRef DEF Sending
  <2> QED
    BY <1>4, <2>8, <2>9, <2>10, <2>11 DEF Sending
<1> QED
  BY <1>6, <1>7
------------------------------------------------------------------------------
LEMMA NewSharedSending == ASSUME Laid, Sending, NEW n \in 1 .. ex.length, SendNewShared(n) PROVE Sending'
<1>1. Order /\ Control /\ Mapped /\ WriterType /\ CallFits /\ OwnerType
  BY DEF Laid, Tiling, Order, Control, Sending
<1>2. [Next]_vars
  BY DEF Next, Step, SendShared
<1>3. /\ InCall /\ fileid \in File /\ ex.device \in Device
      /\ \A x \in ex.physical .. ex.physical + n - 1 : x \in Phys /\ owner[ex.device][x] = Nothing
      /\ owner' \in [Device -> [Phys -> Holder \cup {Nothing}]]
      /\ \A d \in Device, x \in Phys :
           owner'[d][x] = IF d = ex.device /\ x \in ex.physical .. ex.physical + n - 1
                          THEN [file |-> fileid, logical |-> ex.logical + (x - ex.physical)]
                          ELSE owner[d][x]
      /\ content' \in [File -> [Log -> Place \cup {Nothing}]]
      /\ \A f \in File, l \in Log :
           content'[f][l] = IF f = fileid /\ l \in ex.logical .. ex.logical + n - 1
                            THEN [device |-> ex.device, physical |-> ex.physical + (l - ex.logical)]
                            ELSE content[f][l]
  BY <1>1, PieceIsOwned
<1>4. HasNext /\ pc = "shared" /\ UNCHANGED <<files, calls, ids, next>>
  BY <1>1, NextAtHand DEF SendNewShared
<1>5. /\ Current.length \in Nat /\ Current.physical \in Nat /\ Current.logical \in Nat
      /\ calls \in 1 .. calls /\ IsNew(calls) /\ extents = files[calls].extents
  BY <1>1, <1>3, <1>4, CurrentIs, ExtentFields, PlanOfCalls DEF extents, file
<1>6. /\ Current.shared /\ ex.device = Current.device /\ ex.length \in 0 .. Current.length
      /\ ex.logical = Current.logical + (Current.length - ex.length)
      /\ ex.physical = Current.physical + (Current.length - ex.length)
  BY <1>4 DEF Laid, Tiling, SharedFits
<1>7. ex.logical \in Nat /\ ex.physical \in Nat
  BY <1>5, <1>6
<1> DEFINE IsPiece(q) == q.device = ex.device /\ q.physical \in ex.physical .. ex.physical + n - 1
<1>8. ASSUME NEW q \in Place PROVE IsOwned(q)' <=> IsOwned(q) \/ IsPiece(q)
  <2>1. q.device \in Device /\ q.physical \in Phys
    BY DEF Place
  <2>2. ASSUME IsPiece(q) PROVE [file |-> fileid, logical |-> ex.logical + (q.physical - ex.physical)] # Nothing
    <3>1. ex.logical + (q.physical - ex.physical) \in Nat
      BY <1>7, <2>2
    <3> QED
      BY <1>3, <3>1, NobodyAssumption
  <2>3. CASE IsPiece(q)
    BY <1>3, <2>1, <2>2, <2>3 DEF IsOwned
  <2>4. CASE ~ IsPiece(q)
    <3> owner'[q.device][q.physical] = owner[q.device][q.physical]
      BY <1>3, <2>1, <2>4
    <3> QED
      BY <2>4 DEF IsOwned
  <2> QED
    BY <2>3, <2>4
<1>9. ASSUME NEW q, IsOwned(q) PROVE IsOwned(q)'
  BY <1>8, <1>9 DEF IsOwned
<1>10. ASSUME NEW q \in Place, IsPiece(q)
       PROVE  /\ ~ IsOwned(q)
              /\ \E k \in DOMAIN files[calls].extents :
                   files[calls].extents[k].shared /\ q \in Places(files[calls].extents[k])
  <2>1. ~ IsOwned(q)
    BY <1>3, <1>10 DEF IsOwned
  <2> DEFINE x == q.physical - Current.physical
  <2>2. x \in 0 .. Current.length - 1 /\ Current.physical + x = q.physical
    BY <1>5, <1>6, <1>10
  <2>3. q = [device |-> Current.device, physical |-> q.physical]
    BY <1>6, <1>10 DEF Place
  <2> HIDE DEF x
  <2>4. PICK k \in DOMAIN extents :
          /\ extents[k].shared = Current.shared
          /\ [device |-> Current.device, physical |-> Current.physical + x] \in Places(extents[k])
    BY <1>1, <1>4, <2>2, ByteIsPlace
  <2> QED
    BY <1>5, <1>6, <2>1, <2>2, <2>3, <2>4
<1>11. OwnerType'
  BY <1>3 DEF OwnerType
<1>12. ContentIsOwned'
  <2> SUFFICES ASSUME NEW f \in File, NEW l \in Log, NEW q, content'[f][l] = q, q # Nothing PROVE IsOwned(q)'
    BY DEF ContentIsOwned, IsOwned
  <2>1. CASE f = fileid /\ l \in ex.logical .. ex.logical + n - 1
    <3>1. q = [device |-> ex.device, physical |-> ex.physical + (l - ex.logical)]
      BY <1>3, <2>1
    <3>2. q \in Place
      BY <1>3
    <3>3. q.device = ex.device /\ q.physical = ex.physical + (l - ex.logical)
      BY <3>1
    <3>4. IsPiece(q)
      BY <1>7, <2>1, <3>3
    <3> QED
      BY <1>8, <3>2, <3>4
  <2>2. CASE ~ (f = fileid /\ l \in ex.logical .. ex.logical + n - 1)
    <3>1. content[f][l] = q
      BY <1>3, <2>2
    <3>2. IsOwned(q)
      BY <3>1 DEF Sending, ContentIsOwned, IsOwned
    <3> QED
      BY <1>9, <3>2
  <2> QED
    BY <2>1, <2>2
<1>13. OwnedIsShared'
  <2> SUFFICES ASSUME NEW q \in Place, IsOwned(q)'
               PROVE  \E i \in 1 .. calls : IsNew(i) /\ \E k \in DOMAIN files[i].extents :
                        files[i].extents[k].shared /\ q \in Places(files[i].extents[k])
    BY <1>4 DEF OwnedIsShared, IsNew
  <2>1. CASE IsOwned(q)
    BY <2>1 DEF Sending, OwnedIsShared
  <2>2. CASE IsPiece(q)
    BY <1>5, <1>10, <2>2
  <2> QED
    BY <1>8, <2>1, <2>2
<1>14. NoneOfRef'
  BY <1>2, NextNoneOfRef DEF Sending
<1>15. ContentStays
  BY <1>3 DEF ContentStays
<1> DEFINE p == NewPacket(Current, ex.logical, ex.physical, n)
<1>16. PutUnlessRef(p)
  BY DEF SendNewShared
<1>17. CASE ref_file \/ Current.flags # "DATA"
  <2>1. PutsNoData
    BY <1>16, <1>17, NewPacketIs DEF PutUnlessRef, PutsNoData
  <2>2. SentOnce'
    BY <1>1, <1>15, <2>1, KeepOnce DEF Sending
  <2>3. DataIsKnown'
    BY <1>2, <1>9, <2>1, KnownStays DEF Sending
  <2> QED
    BY <1>11, <1>12, <1>13, <1>14, <2>2, <2>3 DEF Sending
<1>18. CASE ~ ref_file /\ Current.flags = "DATA"
  <2>1. BytesOf(p) = PlacesAt(ex.device, ex.physical, n)
    BY <1>6, <1>18, DataPacketIs
  <2>2. p.type = "EXTENT" /\ p.flags = "DATA" /\ p.length = n
    BY <1>18, NewPacketIs
  <2>3. Put(p)
    BY <1>16, <1>18 DEF PutUnlessRef
  <2> HIDE DEF p
  <2>4. ASSUME NEW q \in BytesOf(p) PROVE q \in Place /\ IsPiece(q)
    <3>1. PICK x \in 0 .. n - 1 : q = [device |-> ex.device, physical |-> ex.physical + x]
      BY <2>1 DEF PlacesAt
    <3>2. ex.physical + x \in ex.physical .. ex.physical + n - 1
      BY <1>7
    <3> QED
      BY <1>3, <3>1, <3>2 DEF Place
  <2>5. ASSUME NEW q \in BytesOf(p) PROVE ~ IsOwned(q) /\ ~ SentAlone(q) /\ IsOwned(q)' /\ q # Nothing
    <3>1. q \in Place /\ IsPiece(q) /\ ~ IsOwned(q) /\ IsOwned(q)'
      BY <1>8, <1>10, <2>4
    <3>2. PICK k \in DOMAIN files[calls].extents :
            files[calls].extents[k].shared /\ q \in Places(files[calls].extents[k])
      BY <1>10, <3>1
    <3>3. ~ SentAlone(q)
      <4> SUFFICES ASSUME SentAlone(q) PROVE FALSE
        OBVIOUS
      <4>1. PICK i \in 1 .. calls : IsNew(i) /\ \E m \in DOMAIN files[i].extents :
              /\ files[i].extents[m].flags = "DATA" /\ ~ files[i].extents[m].shared
              /\ q \in Places(files[i].extents[m])
        BY DEF SentAlone
      <4>2. PICK m \in DOMAIN files[i].extents :
              /\ files[i].extents[m].flags = "DATA" /\ ~ files[i].extents[m].shared
              /\ q \in Places(files[i].extents[m])
        BY <4>1
      <4> QED
        BY <1>1, <1>5, <3>2, <4>1, <4>2, AloneIsAlone
    <3> QED
      BY <3>1, <3>3, NothingAssumption
  <2>6. SentOnce'
    <3>1. Cardinality(BytesOf(p)) = p.length
      BY <1>7, <2>1, <2>2, PlacesAreMany
    <3>2. \A j \in DOMAIN stream : IsData(j) => BytesOf(p) \cap DataPlaces(j) = {}
      BY <2>5, NewIsApart
    <3>3. ASSUME NEW q \in BytesOf(p), NEW f \in File, NEW l \in Log, f # fileid PROVE content'[f][l] # q
      <4>1. content'[f][l] = content[f][l]
        BY <1>3, <3>3
      <4>2. content[f][l] # Nothing => IsOwned(content[f][l])
        BY DEF Sending, ContentIsOwned
      <4> QED
        BY <2>5, <4>1, <4>2
    <3> QED
      BY <1>1, <1>3, <1>15, <1>18, <2>2, <2>3, <3>1, <3>2, <3>3, MoreOnce DEF Sending
  <2>7. DataIsKnown'
    BY <1>2, <1>9, <2>3, <2>5, KnownStays DEF Sending
  <2> QED
    BY <1>11, <1>12, <1>13, <1>14, <2>6, <2>7 DEF Sending
<1> QED
  BY <1>17, <1>18

LEMMA CopySending == ASSUME Laid, Sending, NEW n \in 1 .. ex.length, SendAvailShared(n) PROVE Sending'
<1>1. OwnerType
  BY DEF Sending
<1>2. [Next]_vars
  BY DEF Next, Step, SendShared
<1>3. PICK g \in File, m \in Log :
        /\ PutUnlessRef(CopyPacket(fileid, ex.logical, n, g, m))
        /\ InCall /\ fileid \in File /\ ex.device \in Device /\ owner' = owner
        /\ \A k \in 0 .. n - 1 : ex.physical + k \in Phys /\ m + k \in Log
        /\ content' \in [File -> [Log -> Place \cup {Nothing}]]
        /\ \A f \in File, l \in Log :
             content'[f][l] = IF f = fileid /\ l \in ex.logical .. ex.logical + n - 1
                              THEN content[g][m + (l - ex.logical)]
                              ELSE content[f][l]
  BY <1>1, PieceIsCopied
<1>4. HasNext
  BY NextAtHand DEF Laid, Order, SendAvailShared
<1>5. Current.length \in Nat /\ Current.logical \in Nat
  BY <1>4, CurrentIs, ExtentFields DEF Laid, Order
<1>6. ex.logical \in Nat
  BY <1>5 DEF Laid, Tiling, SharedFits, SendAvailShared
<1>7. ContentIsOwned'
  <2> SUFFICES ASSUME NEW f \in File, NEW l \in Log, content'[f][l] # Nothing PROVE IsOwned(content'[f][l])
    BY <1>3 DEF ContentIsOwned, IsOwned
  <2>1. CASE f = fileid /\ l \in ex.logical .. ex.logical + n - 1
    <3>1. l - ex.logical \in 0 .. n - 1
      BY <1>6, <2>1
    <3>2. content'[f][l] = content[g][m + (l - ex.logical)] /\ m + (l - ex.logical) \in Log
      BY <1>3, <2>1, <3>1
    <3> QED
      BY <3>2 DEF Sending, ContentIsOwned
  <2>2. CASE ~ (f = fileid /\ l \in ex.logical .. ex.logical + n - 1)
    BY <1>3, <2>2 DEF Sending, ContentIsOwned
  <2> QED
    BY <2>1, <2>2
<1>8. OwnerType' /\ ContentStays
  BY <1>1, <1>3 DEF OwnerType, ContentStays
<1>9. PutsNoData
  <2> CopyPacket(fileid, ex.logical, n, g, m).flags # "DATA"
    BY DEF CopyPacket
  <2> QED
    BY <1>3 DEF PutUnlessRef, PutsNoData
<1> QED
  BY <1>2, <1>3, <1>7, <1>8, <1>9, QuietSending

LEMMA NextSending == ASSUME Laid, Sending, [Next]_vars PROVE Sending'
<1>1. CASE SendUnshared
  BY <1>1, AloneSending
<1>2. CASE SendShared
  BY <1>2, NewSharedSending, CopySending DEF SendShared
<1>3. CASE ~ SendUnshared /\ ~ SendShared
  <2>1. owner' = owner /\ content' = content /\ PutsNoData
    BY <1>3, OwnersStay, NoDataPut
  <2>2. OwnerType' /\ ContentIsOwned' /\ ContentStays
    BY <2>1 DEF Sending, OwnerType, ContentIsOwned, IsOwned, ContentStays
  <2> QED
    BY <2>1, <2>2, QuietSending
<1> QED
  BY <1>1, <1>2, <1>3

LEMMA InitSending == Init => Sending
<1> SUFFICES ASSUME Init PROVE Sending
  OBVIOUS
<1>1. /\ OwnerType /\ \A q : ~ IsOwned(q)
      /\ \A f \in File, l \in Log : content[f][l] = Nothing
  BY DEF Init, OwnerType, IsOwned, Place
<1>2. DOMAIN stream = {} /\ ~ InCall
  BY DEF Init, InCall
<1> QED
  BY <1>1, <1>2 DEF Sending, ContentIsOwned, OwnedIsShared, DataIsKnown, NoneOfRef, SentOnce

LEMMA AlwaysSending == Spec => [](Laid /\ Sending)
<1>1. Init => Laid /\ Sending
  BY InitLaid, InitSending
<1>2. Laid /\ Sending /\ [Next]_vars => (Laid /\ Sending)'
  BY NextLaid, NextSending
<1> QED
  BY <1>1, <1>2, PTL DEF Spec

\* However files share what they have, "Every physical extent is written only
\* once" (Protocol.txt:16): no byte of a device is in two extents with data, nor in
\* one at all if a reference file before it had it in a shared extent.
THEOREM DataIsAlwaysSentOnce == Spec => []SentOnce
<1>1. Sending => SentOnce
  BY DEF Sending
<1> QED
  BY <1>1, AlwaysSending, PTL
------------------------------------------------------------------------------
\* How a packet gives the reader byte x of file g.
ThereBy(j, g, x) ==
    \/ Is(j, "FILE") /\ stream[j].file = g /\ stream[j].mode = "REF" /\ x < stream[j].size
    \/ Covers(j, g, x)
    \/ Ends(j, g) /\ x >= SentUpTo(g)

ThereIsThere == \A g, x, i : IsThere(g, x, i) <=> \E j \in 1 .. i - 1 : ThereBy(j, g, x)

LEMMA ThereIs == ThereIsThere
<1> SUFFICES ASSUME NEW g, NEW x, NEW j
             PROVE  /\ stream[j].type # "HEADER" /\ stream[j].file = g
                    /\ CASE Is(j, "FILE")     -> stream[j].mode = "REF" /\ x < stream[j].size
                         [] Is(j, "EXTENT")   -> x \in stream[j].offset .. stream[j].offset + stream[j].length - 1
                         [] Is(j, "FILE_END") -> x >= SentUpTo(g)
                         [] OTHER             -> FALSE
                    <=> ThereBy(j, g, x)
  BY DEF IsThere, ThereIsThere
<1> DEFINE C == CASE Is(j, "FILE")     -> stream[j].mode = "REF" /\ x < stream[j].size
                  [] Is(j, "EXTENT")   -> x \in stream[j].offset .. stream[j].offset + stream[j].length - 1
                  [] Is(j, "FILE_END") -> x >= SentUpTo(g)
                  [] OTHER             -> FALSE
<1>1. CASE Is(j, "FILE")
  <2>1. ~ Is(j, "EXTENT") /\ ~ Is(j, "FILE_END") /\ stream[j].type # "HEADER"
    BY <1>1 DEF Is
  <2>2. C <=> stream[j].mode = "REF" /\ x < stream[j].size
    BY <1>1, <2>1
  <2> HIDE DEF C
  <2>3. stream[j].type # "HEADER" /\ stream[j].file = g /\ C <=> ThereBy(j, g, x)
    BY <1>1, <2>1, <2>2 DEF ThereBy, Covers, Ends
  <2> QED
    BY <2>3 DEF C
<1>2. CASE Is(j, "EXTENT")
  <2>1. ~ Is(j, "FILE") /\ ~ Is(j, "FILE_END") /\ stream[j].type # "HEADER"
    BY <1>2 DEF Is
  <2>2. C <=> x \in stream[j].offset .. stream[j].offset + stream[j].length - 1
    BY <1>2, <2>1
  <2> HIDE DEF C
  <2>3. stream[j].type # "HEADER" /\ stream[j].file = g /\ C <=> ThereBy(j, g, x)
    BY <1>2, <2>1, <2>2 DEF ThereBy, Covers, Ends
  <2> QED
    BY <2>3 DEF C
<1>3. CASE Is(j, "FILE_END")
  <2>1. ~ Is(j, "FILE") /\ ~ Is(j, "EXTENT") /\ stream[j].type # "HEADER"
    BY <1>3 DEF Is
  <2>2. C <=> x >= SentUpTo(g)
    BY <1>3, <2>1
  <2> HIDE DEF C
  <2>3. stream[j].type # "HEADER" /\ stream[j].file = g /\ C <=> ThereBy(j, g, x)
    BY <1>3, <2>1, <2>2 DEF ThereBy, Covers, Ends
  <2> QED
    BY <2>3 DEF C
<1>4. CASE ~ Is(j, "FILE") /\ ~ Is(j, "EXTENT") /\ ~ Is(j, "FILE_END")
  <2>1. C <=> FALSE
    BY <1>4
  <2> HIDE DEF C
  <2>2. stream[j].type # "HEADER" /\ stream[j].file = g /\ C <=> ThereBy(j, g, x)
    BY <1>4, <2>1 DEF ThereBy, Covers, Ends
  <2> QED
    BY <2>2 DEF C
<1> QED
  BY <1>1, <1>2, <1>3, <1>4

LEMMA ThereIsNext == ThereIsThere'
  BY ThereIs, PTL

\* What the reader has stays: nothing more comes of a file that has ended.
LEMMA ThereStays ==
    ASSUME Order, NEW p, Put(p), p.type = "EXTENT" => InCall /\ p.file = fileid,
           NEW j \in DOMAIN stream, NEW g, NEW x, ThereBy(j, g, x)
    PROVE  ThereBy(j, g, x)'
<1>1. PICK n : n = Len(stream) + 1
  OBVIOUS
<1>2. /\ DOMAIN stream = 1 .. n - 1 /\ n \in Nat \ {0}
      /\ \A i \in 1 .. n - 1 : stream'[i] = stream[i]
  BY <1>1, OneMore DEF Order, Control
<1>3. stream'[j] = stream[j]
  BY <1>2
<1>4. CASE Ends(j, g) /\ x >= SentUpTo(g)
  <2>1. Ends(j, g)'
    BY <1>3, <1>4 DEF Ends, Is
  <2>2. p.type = "EXTENT" => g # p.file
    BY <1>4 DEF Order, Ended
  <2>3. SentUpTo(g)' = SentUpTo(g)
    <3>1. CASE p.type = "EXTENT"
      BY <2>2, <3>1, <1>1, SentMore DEF Order, Control
    <3>2. CASE p.type # "EXTENT"
      BY <3>2, StaysSent DEF Order, Control, PutsNoExtent
    <3> QED
      BY <3>1, <3>2
  <2> QED
    BY <1>4, <2>1, <2>3 DEF ThereBy
<1>5. CASE ~ (Ends(j, g) /\ x >= SentUpTo(g))
  BY <1>3, <1>5 DEF ThereBy, Covers, Is
<1> QED
  BY <1>4, <1>5

\* Whether the reader has byte x of file g now.
There(g, x) == \E j \in DOMAIN stream : ThereBy(j, g, x)

LEMMA PutRefersBack ==
    ASSUME Order, CopiesReferBack, NEW p, Put(p), p.type = "EXTENT" => InCall /\ p.file = fileid,
           p.type = "EXTENT" /\ p.flags = "COPY" =>
             \A k \in 0 .. p.length - 1 : There(p.source, p.source_offset + k)
    PROVE  CopiesReferBack'
<1>1. PICK n : n = Len(stream) + 1
  OBVIOUS
<1>2. /\ DOMAIN stream = 1 .. n - 1 /\ DOMAIN stream' = 1 .. n /\ n \in Nat \ {0}
      /\ \A i \in 1 .. n - 1 : stream'[i] = stream[i]
      /\ stream'[n] = p
  BY <1>1, OneMore DEF Order, Control
<1> SUFFICES ASSUME NEW i \in 1 .. n, Is(i, "EXTENT")', stream'[i].flags = "COPY",
                    NEW k \in 0 .. stream'[i].length - 1,
                    NEW g, g = stream'[i].source, NEW x, x = stream'[i].source_offset + k
             PROVE  IsThere(g, x, i)'
  BY <1>2 DEF CopiesReferBack
<1>3. \E j \in 1 .. i - 1 : ThereBy(j, g, x)
  <2>1. CASE i = n
    BY <1>2, <2>1 DEF There, Is
  <2>2. CASE i # n
    <3>1. i \in DOMAIN stream /\ stream'[i] = stream[i]
      BY <1>2, <2>2
    <3>2. IsThere(g, x, i)
      BY <3>1 DEF CopiesReferBack, Is
    <3> QED
      BY <3>2, ThereIs DEF ThereIsThere
  <2> QED
    BY <2>1, <2>2
<1>4. PICK j \in 1 .. i - 1 : ThereBy(j, g, x)
  BY <1>3
<1>5. j \in DOMAIN stream
  BY <1>2
<1>6. ThereBy(j, g, x)'
  BY <1>4, <1>5, ThereStays
<1> QED
  BY <1>6, ThereIsNext DEF ThereIsThere
------------------------------------------------------------------------------
\* What has a byte is there, and stays.
LEMMA HasIsThere == ASSUME NEW g, NEW x, HasByte(g, x) PROVE There(g, x)
  BY DEF HasByte, There, ThereBy

LEMMA HasByteStays ==
    ASSUME Order, UNCHANGED stream \/ \E p : Put(p), NEW g, NEW x, HasByte(g, x)
    PROVE  HasByte(g, x)'
<1>1. \A j \in DOMAIN stream : j \in DOMAIN stream' /\ stream'[j] = stream[j]
  <2>1. ASSUME NEW p, Put(p) PROVE \A j \in DOMAIN stream : j \in DOMAIN stream' /\ stream'[j] = stream[j]
    <3>1. /\ Len(stream) \in Nat /\ DOMAIN stream = 1 .. Len(stream) /\ DOMAIN stream' = 1 .. Len(stream) + 1
          /\ \A j \in DOMAIN stream : stream'[j] = stream[j]
      BY <2>1, PutAppends DEF Order
    <3> QED
      BY <3>1
  <2> QED
    BY <2>1
<1>2. PICK j \in DOMAIN stream :
        \/ Is(j, "FILE") /\ stream[j].file = g /\ stream[j].mode = "REF" /\ x < stream[j].size
        \/ Covers(j, g, x)
  BY DEF HasByte
<1> QED
  BY <1>1, <1>2 DEF HasByte, Covers, Is

\* A copy of what somebody owns refers to the owner's bytes.
LEMMA OwnedIsThere ==
    ASSUME Copying, NEW q \in Place, NEW g \in File, NEW x \in Nat,
           owner[q.device][q.physical] = [file |-> g, logical |-> x]
    PROVE  There(g, x)
<1>1. IsOwned(q)
  BY NobodyAssumption DEF IsOwned
<1>2. HasByte(g, x)
  BY <1>1 DEF Copying, OwnersHaveBytes
<1> QED
  BY <1>2, HasIsThere

\* A copy that the program asks for refers to a file that was finished before.
LEMMA EarlierIsThere ==
    ASSUME Laid, InCall, HasNext, Current.flags = "COPY", NEW k \in 0 .. Current.length - 1
    PROVE  There(ids[Current.source], Current.source_offset + k)
<1>1. Order /\ Control /\ WriterType /\ AllCovered
  BY DEF Laid, Tiling, Tiled, Order, Control
<1>2. PICK m \in DOMAIN extents : IsByteOf(k, extents[m])
  BY <1>1, BytesOfCurrent
<1> DEFINE e == extents[m]
           y == Current.logical + k - e.logical
           s == Current.source
           x == Current.source_offset + k
<1>3. y \in 0 .. e.length - 1 /\ e.flags = "COPY" /\ e.source = s /\ x = e.source_offset + y
  BY <1>2 DEF IsByteOf
<1>4. e \in FileExtent /\ CopiesOfEarlier(files, calls) /\ extents = files[calls].extents /\ calls \in Nat
  BY <1>1, CurrentFile DEF HasNext, extents, file
<1>5. e.source_offset \in Nat /\ e.length \in Nat
  BY <1>4, ExtentFields
<1>6. s \in 1 .. calls - 1 /\ files[s].mode \in {"REG", "REF"} /\ e.source_offset + e.length <= files[s].size
  BY <1>3, <1>4 DEF CopiesOfEarlier
<1>7. s \in 1 .. calls /\ IsNew(s) /\ s < calls /\ ids[s] \in Nat /\ files[s].size \in Nat
  <2>1. s \in 1 .. calls /\ s < calls /\ IsNew(s)
    BY <1>4, <1>6 DEF IsNew
  <2> HIDE DEF s
  <2> QED
    BY <1>1, <2>1, PlanOfCalls DEF AreExtents
<1>8. x \in Nat /\ x < files[s].size
  <2> HIDE DEF x, y, e, s
  <2> QED
    BY <1>3, <1>5, <1>6, <1>7
<1> HIDE DEF s, x
<1>9. CASE files[s].mode = "REF"
  <2>1. PICK j \in DOMAIN stream : stream[j] = FilePacket(ids[s], "REF", files[s].size)
    BY <1>1, <1>7, <1>9 DEF Order, Announced
  <2>2. Is(j, "FILE") /\ stream[j].file = ids[s] /\ stream[j].mode = "REF" /\ x < stream[j].size
    BY <1>8, <2>1 DEF Is, FilePacket
  <2> QED
    BY <2>2 DEF There, ThereBy, s, x
<1>10. CASE files[s].mode = "REG"
  <2>1. PICK j \in DOMAIN stream : Ends(j, ids[s])
    BY <1>1, <1>7 DEF Order, Ended
  <2>2. CASE x < SentUpTo(ids[s])
    <3>1. \E h \in DOMAIN stream : Covers(h, ids[s], x)
      BY <1>1, <1>7, <1>8, <2>2 DEF AllCovered
    <3> QED
      BY <3>1 DEF There, ThereBy, s, x
  <2>3. CASE ~ (x < SentUpTo(ids[s]))
    <3>1. SentUpTo(ids[s]) \in Nat
      BY <1>1, <1>7 DEF AllCovered
    <3>2. x >= SentUpTo(ids[s])
      BY <1>8, <2>3, <3>1
    <3> QED
      BY <2>1, <3>2 DEF There, ThereBy, s, x
  <2> QED
    BY <2>2, <2>3
<1> QED
  BY <1>6, <1>9, <1>10 DEF s

\* What a copy that is put refers to.
RefersBack(p) == p.flags = "COPY" => \A k \in 0 .. p.length - 1 : There(p.source, p.source_offset + k)

LEMMA CopyPut ==
    ASSUME Laid, Sending, Copying, InCall, PutsOne
    PROVE  UNCHANGED stream \/ \E p : Put(p) /\ p.file = fileid /\ RefersBack(p)
<1>1. Order /\ Control /\ WriterType /\ CallFits /\ OwnerType
  BY DEF Laid, Order, Control, Sending
<1>2. CASE SendHole \/ SendTrailingHole
  <2> \A o, n : LET p == EmptyPacket(fileid, "HOLE", o, n) IN p.flags # "COPY" /\ p.file = fileid
    BY DEF EmptyPacket
  <2> HIDE DEF EmptyPacket
  <2> QED
    BY <1>2 DEF SendHole, SendTrailingHole, RefersBack
<1>3. CASE SendExplicitCopy
  <2> DEFINE p == CopyPacket(fileid, Current.logical, Current.length, ids[Current.source], Current.source_offset)
  <2>1. /\ p.file = fileid /\ p.length = Current.length
        /\ p.source = ids[Current.source] /\ p.source_offset = Current.source_offset
    BY DEF CopyPacket
  <2> HIDE DEF p
  <2>2. AtExtent /\ Current.flags = "COPY" /\ PutUnlessRef(p)
    BY <1>3 DEF SendExplicitCopy, p
  <2>3. HasNext
    BY <1>1, <2>2, NextAtHand DEF AtExtent
  <2>4. RefersBack(p)
    BY <2>1, <2>2, <2>3, EarlierIsThere DEF RefersBack
  <2> QED
    BY <2>1, <2>2, <2>4 DEF PutUnlessRef
<1>4. CASE SendUnshared
  <2> DEFINE p == NewPacket(Current, Current.logical, Current.physical, Current.length)
  <2>1. p.file = fileid /\ p.flags # "COPY"
    BY <1>4, NewPacketIs DEF SendUnshared
  <2>2. PutUnlessRef(p)
    BY <1>4 DEF SendUnshared
  <2> HIDE DEF p
  <2> QED
    BY <2>1, <2>2 DEF PutUnlessRef, RefersBack
<1>5. ASSUME NEW n \in 1 .. ex.length, SendNewShared(n)
      PROVE  UNCHANGED stream \/ \E p : Put(p) /\ p.file = fileid /\ RefersBack(p)
  <2> DEFINE p == NewPacket(Current, ex.logical, ex.physical, n)
  <2>1. p.file = fileid /\ p.flags # "COPY"
    BY <1>5, NewPacketIs DEF SendNewShared, Laid, Tiling, SharedFits
  <2>2. PutUnlessRef(p)
    BY <1>5 DEF SendNewShared
  <2> HIDE DEF p
  <2> QED
    BY <2>1, <2>2 DEF PutUnlessRef, RefersBack
<1>6. ASSUME NEW n \in 1 .. ex.length, SendAvailShared(n)
      PROVE  UNCHANGED stream \/ \E p : Put(p) /\ p.file = fileid /\ RefersBack(p)
  <2>1. PICK g \in File, m \in Log :
          /\ PutUnlessRef(CopyPacket(fileid, ex.logical, n, g, m)) /\ ex.device \in Device
          /\ \A k \in 0 .. n - 1 : /\ ex.physical + k \in Phys /\ m + k \in Log
                                   /\ owner[ex.device][ex.physical + k] = [file |-> g, logical |-> m + k]
    BY <1>1, <1>6, PieceIsCopied
  <2> DEFINE p == CopyPacket(fileid, ex.logical, n, g, m)
  <2>2. p.file = fileid /\ p.length = n /\ p.source = g /\ p.source_offset = m
    BY DEF CopyPacket
  <2> HIDE DEF p
  <2>3. ASSUME NEW k \in 0 .. n - 1 PROVE There(g, m + k)
    <3>1. PICK q : q = [device |-> ex.device, physical |-> ex.physical + k]
      OBVIOUS
    <3>2. q \in Place /\ q.device = ex.device /\ q.physical = ex.physical + k
      BY <2>1, <3>1 DEF Place
    <3>3. m + k \in Nat
      BY <2>1, SizeAssumption DEF Log
    <3> QED
      BY <2>1, <3>2, <3>3, OwnedIsThere
  <2>4. RefersBack(p)
    BY <2>2, <2>3 DEF RefersBack
  <2> QED
    BY <2>1, <2>2, <2>4 DEF PutUnlessRef, p
<1> QED
  BY <1>2, <1>3, <1>4, <1>5, <1>6 DEF PutsOne, SendShared

\* The new owner of a piece has it: it is sent, or in a file that is referred to.
LEMMA NewOwnersHaveBytes ==
    ASSUME Laid, Sending, OwnersHaveBytes, NEW n \in 1 .. ex.length, SendNewShared(n)
    PROVE  OwnersHaveBytes'
<1>1. Order /\ Control /\ WriterType /\ CallFits /\ OwnerType
  BY DEF Laid, Order, Control, Sending
<1>2. /\ InCall /\ fileid \in File /\ ex.device \in Device
      /\ \A d \in Device, x \in Phys :
           owner'[d][x] = IF d = ex.device /\ x \in ex.physical .. ex.physical + n - 1
                          THEN [file |-> fileid, logical |-> ex.logical + (x - ex.physical)]
                          ELSE owner[d][x]
  BY <1>1, PieceIsOwned
<1>3. HasNext /\ pc = "shared" /\ PutUnlessRef(NewPacket(Current, ex.logical, ex.physical, n))
  BY <1>1, NextAtHand DEF SendNewShared
<1>4. /\ Current.length \in Nat /\ Current.physical \in Nat /\ Current.logical \in Nat
      /\ End(Current) = Current.logical + Current.length /\ End(Current) <= file.size /\ file.size \in Nat
  BY <1>1, <1>3, CurrentIs, CurrentFile, ExtentFields DEF HasNext
<1>5. /\ ex.length \in 0 .. Current.length
      /\ ex.logical = Current.logical + (Current.length - ex.length)
      /\ ex.physical = Current.physical + (Current.length - ex.length)
  BY <1>3 DEF Laid, Tiling, SharedFits
<1>6. ASSUME NEW x \in ex.logical .. ex.logical + n - 1 PROVE HasByte(fileid, x)'
  <2>1. x \in Nat /\ x < file.size
    BY <1>4, <1>5
  <2>2. CASE ref_file
    <3>1. PICK j \in DOMAIN stream : stream[j] = FilePacket(fileid, file.mode, file.size)
      BY <1>1, <1>2, CurrentAnnounced
    <3>2. stream' = stream /\ fileid' = fileid
      BY <1>3, <2>2 DEF PutUnlessRef, SendNewShared, fileid
    <3>3. stream'[j].type = "FILE" /\ stream'[j].file = fileid /\ stream'[j].mode = "REF" /\ stream'[j].size = file.size
      BY <2>2, <3>1, <3>2 DEF FilePacket, ref_file
    <3> QED
      BY <2>1, <3>2, <3>3 DEF HasByte, Is
  <2>3. CASE ~ ref_file
    <3> DEFINE p == NewPacket(Current, ex.logical, ex.physical, n)
    <3>1. p.type = "EXTENT" /\ p.file = fileid /\ p.offset = ex.logical /\ p.length = n
      BY NewPacketIs
    <3>2. Put(p) /\ fileid' = fileid
      BY <1>3, <2>3 DEF PutUnlessRef, SendNewShared, fileid
    <3> HIDE DEF p
    <3>3. PICK h : h = Len(stream) + 1
      OBVIOUS
    <3>4. h \in DOMAIN stream' /\ stream'[h] = p
      BY <1>1, <3>2, <3>3, OneMore
    <3>5. Covers(h, fileid, x)'
      BY <3>1, <3>2, <3>4 DEF Covers, Is
    <3> QED
      BY <3>4, <3>5 DEF HasByte
  <2> QED
    BY <2>2, <2>3
<1>7. fileid' = fileid /\ (UNCHANGED stream \/ \E p : Put(p))
  BY <1>3 DEF PutUnlessRef, SendNewShared, fileid
<1> SUFFICES ASSUME NEW q \in Place, IsOwned(q)', NEW g, g = owner'[q.device][q.physical].file,
                    NEW x, x = owner'[q.device][q.physical].logical
             PROVE  HasByte(g, x)'
  BY DEF OwnersHaveBytes
<1>8. q.device \in Device /\ q.physical \in Phys
  BY DEF Place
<1>9. CASE q.device = ex.device /\ q.physical \in ex.physical .. ex.physical + n - 1
  <2>1. owner'[q.device][q.physical] = [file |-> fileid, logical |-> ex.logical + (q.physical - ex.physical)]
    BY <1>2, <1>8, <1>9
  <2>2. g = fileid /\ x = ex.logical + (q.physical - ex.physical)
    BY <2>1
  <2>3. x \in ex.logical .. ex.logical + n - 1
    BY <1>4, <1>5, <1>9, <2>2
  <2> QED
    BY <1>6, <1>7, <2>2, <2>3
<1>10. CASE ~ (q.device = ex.device /\ q.physical \in ex.physical .. ex.physical + n - 1)
  <2>1. owner'[q.device][q.physical] = owner[q.device][q.physical]
    BY <1>2, <1>8, <1>10
  <2>2. HasByte(g, x)
    BY <2>1 DEF OwnersHaveBytes, IsOwned
  <2> QED
    BY <1>1, <1>7, <2>2, HasByteStays
<1> QED
  BY <1>9, <1>10

LEMMA NextCopying == ASSUME Laid, Sending, Copying, [Next]_vars PROVE Copying'
<1>1. Order /\ Control
  BY DEF Laid, Order, Control
<1>2. PutsOne => InCall
  <2>1. CASE SendShared
    BY <2>1 DEF SendShared, SendNewShared, SendAvailShared, InCall
  <2>2. CASE ~ SendShared
    BY <2>2 DEF PutsOne, SendHole, SendExplicitCopy, SendUnshared, SendTrailingHole,
                AtExtent, NoMoreExtents, InCall
  <2> QED
    BY <2>1, <2>2
<1>3. UNCHANGED stream \/ \E p : /\ Put(p)
                                 /\ p.type = "EXTENT" => InCall /\ p.file = fileid /\ RefersBack(p)
  <2>1. CASE PutsOne
    BY <1>2, <2>1, CopyPut
  <2>2. CASE ~ PutsOne
    BY <2>2, NoExtentPut DEF PutsNoExtent
  <2> QED
    BY <2>1, <2>2
<1>4. CopiesReferBack'
  <2>1. CASE UNCHANGED stream
    <3>1. \A g, x, j : ThereBy(j, g, x)' <=> ThereBy(j, g, x)
      BY <2>1, SentStays DEF ThereBy, Covers, Ends, Is
    <3>2. \A g, x, i : IsThere(g, x, i)' <=> IsThere(g, x, i)
      BY <3>1, ThereIs, ThereIsNext DEF ThereIsThere
    <3> QED
      BY <2>1, <3>2 DEF Copying, CopiesReferBack, Is
  <2>2. CASE \E p : Put(p) /\ (p.type = "EXTENT" => InCall /\ p.file = fileid /\ RefersBack(p))
    BY <1>1, <2>2, PutRefersBack DEF Copying, RefersBack
  <2> QED
    BY <1>3, <2>1, <2>2
<1>5. OwnersHaveBytes'
  <2>1. ASSUME owner' = owner PROVE OwnersHaveBytes'
    <3>1. UNCHANGED stream \/ \E p : Put(p)
      BY <1>3
    <3> SUFFICES ASSUME NEW q \in Place, IsOwned(q), NEW g, g = owner[q.device][q.physical].file,
                        NEW x, x = owner[q.device][q.physical].logical
                 PROVE  HasByte(g, x)'
      BY <2>1 DEF OwnersHaveBytes, IsOwned
    <3>2. HasByte(g, x)
      BY DEF Copying, OwnersHaveBytes
    <3> QED
      BY <1>1, <3>1, <3>2, HasByteStays
  <2>2. ASSUME NEW n \in 1 .. ex.length, SendNewShared(n) PROVE OwnersHaveBytes'
    BY <2>2, NewOwnersHaveBytes DEF Copying
  <2>3. ASSUME NEW n \in 1 .. ex.length, SendAvailShared(n) PROVE owner' = owner
    BY <2>3 DEF SendAvailShared, EMap!Copy
  <2> QED
    BY <2>1, <2>2, <2>3, OwnersStay DEF SendShared
<1> QED
  BY <1>4, <1>5 DEF Copying

LEMMA InitCopying == Init => Copying
<1> SUFFICES ASSUME Init PROVE Copying
  OBVIOUS
<1>1. \A q : ~ IsOwned(q)
  BY DEF Init, IsOwned, Place
<1>2. DOMAIN stream = {}
  BY DEF Init
<1> QED
  BY <1>1, <1>2 DEF Copying, OwnersHaveBytes, CopiesReferBack

\* A copy that FiesWriter_writeFile puts, one the program asked for or one that
\* the extent map made of a shared extent, refers to bytes that the stream has
\* given before it: of a reference file, in an extent, or behind the extents of
\* a file that has ended.
THEOREM CopiesAlwaysReferBack == Spec => []CopiesReferBack
<1>1. Init => Copying
  BY InitCopying
<1>2. Laid /\ Sending /\ Copying /\ [Next]_vars => Copying'
  BY NextCopying
<1>3. Copying => CopiesReferBack
  BY DEF Copying
<1> QED
  BY <1>1, <1>2, <1>3, AlwaysSending, PTL DEF Spec
------------------------------------------------------------------------------
------------------------------------------------------------------------------
\* The byte l of the plan's file k, given what is wanted of the files before.
WantedOf(h, k, l) ==
    IF ~ IsMapped(k, l) THEN Zero
    ELSE LET e == ExtentAt(k, l)  n == l - e.logical IN
         CASE e.flags = "DATA" -> [device |-> e.device, physical |-> e.physical + n]
           [] e.flags = "COPY" -> h[e.source][e.source_offset + n]
           [] OTHER -> Zero

\* And the byte n of extent e.
WantedByte(h, e, n) ==
    CASE e.flags = "DATA" -> [device |-> e.device, physical |-> e.physical + n]
      [] e.flags = "COPY" -> h[e.source][e.source_offset + n]
      [] OTHER -> Zero

\* The extent that ExtentAt takes.
Chosen(k, l) == CHOOSE i \in DOMAIN files[k].extents : Has(files[k].extents[i], l)

\* The same by that extent.
LEMMA WantedOfIs ==
    ASSUME NEW h, NEW k, NEW l
    PROVE  WantedOf(h, k, l) =
             IF ~ IsMapped(k, l) THEN Zero
             ELSE WantedByte(h, files[k].extents[Chosen(k, l)], l - files[k].extents[Chosen(k, l)].logical)
BY Zenon DEF WantedOf, WantedByte, ExtentAt, Chosen

\* The definition of Wanted for the files in T, as a formula about a function.
Wants(h, T) == h = [k \in T |-> [l \in Log |-> WantedOf(h, k, l)]]

\* A file is only copied from earlier ones.
LEMMA WantedBefore ==
    ASSUME IsPlan(files), NEW k \in DOMAIN files, NEW g, NEW h, \A s \in 1 .. k - 1 : g[s] = h[s]
    PROVE  \A l \in Log : WantedOf(g, k, l) = WantedOf(h, k, l)
<1> SUFFICES ASSUME NEW l \in Log PROVE WantedOf(g, k, l) = WantedOf(h, k, l)
  OBVIOUS
<1>1. CASE IsMapped(k, l)
  <2> DEFINE i == Chosen(k, l)
             e == files[k].extents[i]
             n == l - e.logical
  <2>1. i \in DOMAIN files[k].extents
    BY <1>1 DEF Chosen, IsMapped
  <2>2. e.flags = "COPY" => e.source \in 1 .. k - 1
    BY <1>1, <2>1 DEF IsPlan, CopiesOfEarlier, IsMapped
  <2> HIDE DEF i, e, n
  <2>3. WantedByte(g, e, n) = WantedByte(h, e, n)
    <3>1. CASE e.flags = "DATA"
      BY <3>1, Zenon DEF WantedByte
    <3>2. CASE e.flags = "COPY"
      <4>1. g[e.source] = h[e.source] /\ e.flags # "DATA"
        BY <2>2, <3>2
      <4> QED
        BY <3>2, <4>1, Zenon DEF WantedByte
    <3>3. CASE e.flags # "DATA" /\ e.flags # "COPY"
      BY <3>3, Zenon DEF WantedByte
    <3> QED
      BY <3>1, <3>2, <3>3
  <2> QED
    BY <1>1, <2>3, WantedOfIs DEF i, e, n
<1>2. CASE ~ IsMapped(k, l)
  BY <1>2, WantedOfIs
<1> QED
  BY <1>1, <1>2

\* Such a function exists, by the least number of files there is none for.
LEMMA WantedExists ==
    ASSUME IsPlan(files)
    PROVE  \E h : Wants(h, DOMAIN files)
<1>1. Len(files) \in Nat /\ DOMAIN files = 1 .. Len(files)
  BY DEF IsPlan
<1> DEFINE T == {m \in 0 .. Len(files) : ~ \E h : Wants(h, 1 .. m)}
<1> SUFFICES ASSUME T # {} PROVE FALSE
  BY <1>1
<1>2. PICK m \in T : \A y \in T : m <= y
  <2>1. T \subseteq Nat
    BY <1>1
  <2> QED
    BY <2>1, LeastOf
<1>3. /\ m \in 0 .. Len(files) /\ m \in Nat /\ ~ \E h : Wants(h, 1 .. m)
      /\ \A y \in 0 .. Len(files) : y < m => \E h : Wants(h, 1 .. y)
  BY <1>1, <1>2
<1> HIDE DEF T
<1>4. CASE m = 0
  <2> DEFINE h == [k \in 1 .. 0 |-> Zero]
  <2>1. \A k \in 1 .. 0 : FALSE
    OBVIOUS
  <2>2. h = [k \in 1 .. 0 |-> [l \in Log |-> WantedOf(h, k, l)]]
    BY <2>1
  <2>3. Wants(h, 1 .. 0)
    BY <2>2 DEF Wants
  <2> QED
    BY <1>3, <1>4, <2>3
<1>5. CASE m > 0
  <2>1. m - 1 \in 0 .. Len(files) /\ m - 1 < m /\ m \in DOMAIN files /\ m \notin 1 .. m - 1
    BY <1>1, <1>3, <1>5
  <2>2. PICK g : Wants(g, 1 .. m - 1)
    BY <1>3, <2>1
  <2> DEFINE last_ == [l \in Log |-> WantedOf(g, m, l)]
             h == [k \in 1 .. m |-> IF k = m THEN last_ ELSE g[k]]
  <2>3. \A k \in 1 .. m - 1 : g[k] = [l \in Log |-> WantedOf(g, k, l)]
    BY <2>2 DEF Wants
  <2>4. h[m] = last_ /\ \A k \in 1 .. m - 1 : h[k] = g[k]
    BY <1>3, <1>5, <2>1
  <2> HIDE DEF h
  <2>5. \A k \in 1 .. m : \A l \in Log : WantedOf(g, k, l) = WantedOf(h, k, l)
    <3> SUFFICES ASSUME NEW k \in 1 .. m PROVE \A l \in Log : WantedOf(g, k, l) = WantedOf(h, k, l)
      OBVIOUS
    <3>1. k \in DOMAIN files /\ \A s \in 1 .. k - 1 : g[s] = h[s]
      BY <1>1, <1>3, <2>4
    <3> QED
      BY <3>1, WantedBefore
  <2>6. \A k \in 1 .. m : h[k] = [l \in Log |-> WantedOf(h, k, l)]
    <3> SUFFICES ASSUME NEW k \in 1 .. m PROVE h[k] = [l \in Log |-> WantedOf(h, k, l)]
      OBVIOUS
    <3>1. h[k] = [l \in Log |-> WantedOf(g, k, l)]
      BY <1>3, <2>3, <2>4
    <3> QED
      BY <2>5, <3>1
  <2>7. h = [k \in 1 .. m |-> h[k]]
    BY DEF h
  <2>8. Wants(h, 1 .. m)
    BY <2>6, <2>7 DEF Wants
  <2> QED
    BY <1>3, <2>8
<1> QED
  BY <1>3, <1>4, <1>5

\* What is wanted of a file: the byte that the extent there maps, or zeroes.
WantedGoes ==
    IsPlan(files) =>
      \A k \in DOMAIN files : IsNew(k) =>
        \A l \in Log :
          /\ \A i \in DOMAIN files[k].extents : Has(files[k].extents[i], l) =>
               Wanted[k][l] = WantedByte(Wanted, files[k].extents[i], l - files[k].extents[i].logical)
          /\ (\A i \in DOMAIN files[k].extents : ~ Has(files[k].extents[i], l)) => Wanted[k][l] = Zero

\* So that Wanted is what its definition says.
LEMMA WantedIs == WantedGoes
<1> SUFFICES ASSUME IsPlan(files), NEW k \in DOMAIN files, IsNew(k), NEW l \in Log
             PROVE  /\ \A i \in DOMAIN files[k].extents : Has(files[k].extents[i], l) =>
                         Wanted[k][l] = WantedByte(Wanted, files[k].extents[i], l - files[k].extents[i].logical)
                    /\ (\A i \in DOMAIN files[k].extents : ~ Has(files[k].extents[i], l)) => Wanted[k][l] = Zero
  BY DEF WantedGoes
<1>1. Wants(Wanted, DOMAIN files)
  BY WantedExists DEF Wanted, Wants, WantedOf
<1>2. Wanted[k][l] = WantedOf(Wanted, k, l)
  <2> DEFINE W == Wanted
  <2>1. W = [x \in DOMAIN files |-> [y \in Log |-> WantedOf(W, x, y)]]
    BY <1>1 DEF Wants
  <2> HIDE DEF W
  <2>2. W[k][l] = WantedOf(W, k, l)
    BY <2>1
  <2> QED
    BY <2>2 DEF W
<1>3. AreExtents(files[k])
  BY DEF IsPlan, IsNew
<1>4. ASSUME NEW i \in DOMAIN files[k].extents, Has(files[k].extents[i], l)
      PROVE  Wanted[k][l] = WantedByte(Wanted, files[k].extents[i], l - files[k].extents[i].logical)
  <2> DEFINE j == Chosen(k, l)
  <2>1. IsMapped(k, l)
    BY <1>4 DEF IsMapped, IsNew
  <2>2. j \in DOMAIN files[k].extents /\ Has(files[k].extents[j], l)
    BY <2>1 DEF Chosen, IsMapped
  <2>3. j = i
    <3> HIDE DEF j
    <3>1. i \in Nat /\ j \in Nat
      BY <1>3, <1>4, <2>2 DEF AreExtents
    <3>2. /\ files[k].extents[i] \in FileExtent /\ files[k].extents[j] \in FileExtent
      BY <1>3, <1>4, <2>2 DEF AreExtents
    <3>3. /\ files[k].extents[i].logical <= l /\ l < End(files[k].extents[i])
          /\ files[k].extents[j].logical <= l /\ l < End(files[k].extents[j])
          /\ End(files[k].extents[i]) \in Nat /\ End(files[k].extents[j]) \in Nat
          /\ files[k].extents[i].logical \in Nat /\ files[k].extents[j].logical \in Nat /\ l \in Nat
      BY <1>4, <2>2, <3>2, ExtentFields, SizeAssumption DEF Has, Log
    <3>4. ~ (i < j) /\ ~ (j < i)
      BY <1>3, <1>4, <2>2, <3>3, Ordered
    <3> QED
      BY <3>1, <3>4
  <2> QED
    BY <1>2, <2>1, <2>3, WantedOfIs
<1>5. (\A i \in DOMAIN files[k].extents : ~ Has(files[k].extents[i], l)) => Wanted[k][l] = Zero
  BY <1>2, WantedOfIs DEF IsMapped
<1> QED
  BY <1>4, <1>5

------------------------------------------------------------------------------
\* What is wanted only depends on the plan.
LEMMA WantedStays == ASSUME files' = files PROVE Wanted' = Wanted
  BY DEF Wanted, IsMapped, ExtentAt, Log

\* Byte y of the plan's file s is the same as byte x of file i.
SameByte(s, y, i, x) == files[s].mode \in {"REG", "REF"} /\ y < files[s].size /\ Wanted[s][y] = Wanted[i][x]

\* The bytes packet p gives, or refers to, are those of the plan's file i there.
GivesBytes(p, i) ==
    /\ p.flags \in {"DATA", "ZERO", "HOLE", "COPY"}
    /\ p.flags = "DATA" =>
         \A n \in 0 .. p.length - 1 : p.data[n] = Wanted[i][p.offset + n] /\ p.data[n] \notin Holder
    /\ p.flags \in {"ZERO", "HOLE"} => \A n \in 0 .. p.length - 1 : Wanted[i][p.offset + n] = Zero
    /\ p.flags = "COPY" =>
         /\ p.source_offset \in Nat /\ p.length > 0
         /\ \A n \in 0 .. p.length - 1 : \E s \in 1 .. calls :
              p.source = ids[s] /\ SameByte(s, p.source_offset + n, i, p.offset + n)

\* Packet p gives bytes of the plan's file i, within its size.
Gives(p, i) ==
    /\ p.file = ids[i] /\ files[i].mode = "REG"
    /\ p.offset \in Nat /\ p.length \in Nat /\ p.offset + p.length <= files[i].size
    /\ GivesBytes(p, i)

\* Whatever an extent gives was read from its file.
AllGiven == \A j \in DOMAIN stream : Is(j, "EXTENT") => \E i \in 1 .. calls : Gives(stream[j], i)

\* The owner of a place has it by byte n of a shared extent k of file i.
OwnsBy(q, i, k, n) ==
    LET e == files[i].extents[k] IN
    /\ files[i].mode \in {"REG", "REF"} /\ e.shared /\ e.flags # "COPY"
    /\ n < e.length /\ e.logical + n < files[i].size
    /\ q = [device |-> e.device, physical |-> e.physical + n]
    /\ owner[q.device][q.physical] = [file |-> ids[i], logical |-> e.logical + n]

\* What the extent map says to own a byte is a file that has been sent, at that
\* byte.
OwnersAreFirst ==
    \A q \in Place : IsOwned(q) =>
      \E i \in 1 .. calls : \E k \in DOMAIN files[i].extents, n \in Nat : OwnsBy(q, i, k, n)

\* What the packets mean.
Meaning == IsTransfer(files) /\ AllGiven /\ OwnersAreFirst

\* The bytes of a file that a program maps, one by one.
LEMMA WantedFits ==
    ASSUME WriterType, IsTransfer(files), NEW i \in 1 .. calls, IsNew(i), NEW x \in Nat, x < files[i].size
    PROVE  i \in DOMAIN files /\ x \in Log
<1>1. i \in DOMAIN files /\ calls \in Nat
  BY DEF WriterType, IsPlan
<1>2. files[i].size <= LogSize /\ files[i].size \in Nat
  BY <1>1 DEF IsTransfer, IsNew, WriterType, IsPlan, AreExtents
<1> QED
  BY <1>1, <1>2, SizeAssumption DEF Log

\* The bytes of the extent that is sent next, whatever it was merged of.
LEMMA WantedOfCurrent ==
    ASSUME WriterType, IsTransfer(files), HasNext, NEW x \in 0 .. Current.length - 1, NEW w, w = Wanted[calls][Current.logical + x]
    PROVE  /\ Current.flags = "DATA" => w = [device |-> Current.device, physical |-> Current.physical + x]
           /\ Current.flags = "COPY" => w = Wanted[Current.source][Current.source_offset + x]
           /\ Current.flags = "ZERO" => w = Zero
<1>1. PICK k \in DOMAIN extents : IsByteOf(x, extents[k])
  BY BytesOfCurrent
<1> DEFINE e == extents[k]
           l == Current.logical + x
           y == Current.logical + x - e.logical
<1>2. /\ y \in 0 .. e.length - 1
      /\ e.flags = Current.flags /\ e.device = Current.device
      /\ Current.physical + x = e.physical + y
      /\ Current.flags = "COPY" => e.source = Current.source /\ Current.source_offset + x = e.source_offset + y
  BY <1>1 DEF IsByteOf
<1>3. /\ Current.logical \in Nat /\ Current.length \in Nat /\ End(Current) = Current.logical + Current.length
      /\ End(Current) <= file.size /\ file.size \in Nat
  BY CurrentIs, CurrentFile, ExtentFields DEF HasNext
<1>4. e \in FileExtent /\ e.logical \in Nat /\ e.length \in Nat
  BY CurrentFile, ExtentFields DEF HasNext
<1>5. calls \in 1 .. calls /\ calls \in DOMAIN files /\ l \in Nat /\ l < files[calls].size /\ IsNew(calls) /\ extents = files[calls].extents
  BY <1>3, CurrentFile DEF HasNext, file, extents
<1>6. l \in Log
  BY <1>5, WantedFits
<1>7. Has(e, l)
  <2> HIDE DEF e
  <2> QED
    BY <1>2, <1>3, <1>4 DEF Has
<1>8. w = WantedByte(Wanted, e, y)
  <2> HIDE DEF l
  <2>1. Wanted[calls][l] = WantedByte(Wanted, files[calls].extents[k], l - files[calls].extents[k].logical)
    BY <1>5, <1>6, <1>7, WantedIs DEF WantedGoes, WriterType
  <2>2. e = files[calls].extents[k] /\ y = l - e.logical /\ w = Wanted[calls][l]
    BY <1>3, <1>4, <1>5 DEF l
  <2> HIDE DEF e, y
  <2> QED
    BY <2>1, <2>2
<1> HIDE DEF e, y
<1>9. CASE Current.flags = "DATA"
  <2> WantedByte(Wanted, e, y) = [device |-> e.device, physical |-> e.physical + y]
    BY <1>2, <1>9, Zenon DEF WantedByte
  <2> QED
    BY <1>2, <1>8, <1>9
<1>10. CASE Current.flags = "COPY"
  <2> WantedByte(Wanted, e, y) = Wanted[e.source][e.source_offset + y]
    BY <1>2, <1>10, Zenon DEF WantedByte
  <2> QED
    BY <1>2, <1>8, <1>10
<1>11. CASE Current.flags = "ZERO"
  <2> WantedByte(Wanted, e, y) = Zero
    BY <1>2, <1>11, Zenon DEF WantedByte
  <2> QED
    BY <1>2, <1>8, <1>11
<1> QED
  BY <1>9, <1>10, <1>11

\* What no extent maps reads as zeroes.
LEMMA UnmappedIsZero ==
    ASSUME WriterType, IsTransfer(files), NEW i \in 1 .. calls, IsNew(i), NEW x \in Nat, x < files[i].size,
           \A k \in DOMAIN files[i].extents : End(files[i].extents[k]) <= x \/ x < files[i].extents[k].logical
    PROVE  Wanted[i][x] = Zero
<1>1. i \in DOMAIN files /\ x \in Log
  BY WantedFits
<1>2. AreExtents(files[i])
  BY <1>1 DEF IsNew, WriterType, IsPlan
<1>3. ASSUME NEW k \in DOMAIN files[i].extents PROVE ~ Has(files[i].extents[k], x)
  <2> DEFINE e == files[i].extents[k]
  <2>1. e \in FileExtent
    BY <1>2, ElementOfSeq, LenProperties DEF AreExtents
  <2>2. e.logical \in Nat /\ e.length \in Nat /\ End(e) = e.logical + e.length
    BY <2>1, ExtentFields
  <2>3. End(e) <= x \/ x < e.logical
    OBVIOUS
  <2> HIDE DEF e
  <2>4. ~ Has(e, x)
    BY <2>2, <2>3 DEF Has
  <2> QED
    BY <2>4 DEF e
<1> QED
  BY <1>1, <1>3, WantedIs DEF WantedGoes, WriterType

\* A hole is where the callback has mapped nothing.
LEMMA HoleIsZero ==
    ASSUME WriterType, IsTransfer(files), CallFits, Mapped, ~ ref_file,
           SendHole \/ SendTrailingHole, NEW x \in Nat, at <= x,
           x < (IF SendHole THEN Current.logical ELSE file.size)
    PROVE  Wanted[calls][x] = Zero
<1>1. pc = "extents" /\ InCall /\ calls > 0 /\ IsNew(calls) /\ at \in Nat /\ calls \in 1 .. calls
  BY DEF SendHole, SendTrailingHole, NoMoreExtents, InCall, CallFits, WriterType
<1>2. /\ extents = files[calls].extents /\ file = files[calls] /\ file.size \in Nat
      /\ DOMAIN extents = 1 .. Len(extents) /\ \A k \in DOMAIN extents : extents[k] \in FileExtent
      /\ AreExtents(file)
  BY <1>1, CurrentFile DEF extents, file
<1>3. CASE SendHole
  <2>1. HasNext /\ next \in Nat
    BY <1>1, <1>3, NextAtHand DEF SendHole, WriterType
  <2>2. Current.logical = extents[next].logical /\ next \in DOMAIN extents /\ Current.logical < file.size /\ Current.logical \in Nat
    BY <2>1, CurrentIs, CurrentFile, ExtentFields DEF HasNext
  <2>3. x < files[calls].size
    BY <1>2, <1>3, <2>2
  <2>4. ASSUME NEW k \in DOMAIN extents PROVE End(extents[k]) <= x \/ x < extents[k].logical
    <3>1. CASE k < next
      <4>1. End(extents[k]) <= at /\ End(extents[k]) \in Nat
        <5>1. at # file.size
          BY <1>1, <1>2, <1>3, <2>2
        <5>2. End(extents[k]) \in Nat
          BY <1>2, <2>4, ExtentFields
        <5> QED
          BY <1>1, <2>4, <3>1, <5>1, <5>2 DEF Mapped
      <4> QED
        BY <1>1, <4>1
    <3>2. CASE k = next
      BY <1>3, <2>2, <3>2
    <3>3. CASE next < k
      <4>1. End(extents[next]) <= extents[k].logical
        BY <1>2, <2>2, <2>4, <3>3, Ordered DEF extents
      <4>2. /\ extents[next].logical < End(extents[next]) /\ End(extents[next]) \in Nat
            /\ extents[next].logical \in Nat /\ extents[k].logical \in Nat
        BY <1>2, <2>2, <2>4, ExtentFields
      <4> QED
        BY <1>3, <2>2, <4>1, <4>2
    <3> QED
      BY <1>2, <2>1, <3>1, <3>2, <3>3
  <2> QED
    BY <1>1, <1>2, <2>3, <2>4, UnmappedIsZero
<1>4. CASE ~ SendHole
  <2>1. SendTrailingHole /\ at < file.size /\ Unmapped = {} /\ x < files[calls].size
    BY <1>1, <1>2, <1>4 DEF SendTrailingHole, NoMoreExtents
  <2>2. ASSUME NEW k \in DOMAIN extents PROVE End(extents[k]) <= x
    <3>1. End(extents[k]) \in Nat /\ End(extents[k]) = extents[k].logical + extents[k].length
      BY <1>2, <2>2, ExtentFields
    <3>2. ~ (End(extents[k]) > at)
      BY <2>1, <2>2, <3>1 DEF Unmapped
    <3> QED
      BY <1>1, <3>1, <3>2
  <2> QED
    BY <1>1, <1>2, <2>1, <2>2, UnmappedIsZero
<1> QED
  BY <1>3, <1>4

------------------------------------------------------------------------------
\* The bytes of a device are not those of a reference file.
LEMMA PlaceIsNoHolder == ASSUME NEW d, NEW x PROVE [device |-> d, physical |-> x] \notin Holder
<1> SUFFICES ASSUME [device |-> d, physical |-> x] \in Holder PROVE FALSE
  OBVIOUS
<1>1. DOMAIN [device |-> d, physical |-> x] = {"device", "physical"}
  OBVIOUS
<1>2. DOMAIN [device |-> d, physical |-> x] = {"file", "logical"}
  BY DEF Holder
<1> QED
  BY <1>1, <1>2

\* A packet of the n bytes of the current extent from its byte o on.
LEMMA NewPacketGives ==
    ASSUME WriterType, IsTransfer(files), HasNext, Current.flags # "COPY",
           NEW o \in Nat, NEW n \in Nat, o + n <= Current.length,
           NEW l, l = Current.logical + o, NEW x, x = Current.physical + o,
           NEW p, p = NewPacket(Current, l, x, n)
    PROVE  GivesBytes(p, calls)
<1>1. /\ Current \in FileExtent
      /\ Current.logical \in Nat /\ Current.length \in Nat /\ Current.physical \in Nat /\ Current.flags \in {"DATA", "ZERO"}
  BY CurrentIs, ExtentFields
<1>2. p.offset = l /\ p.length = n /\ p.flags = Current.flags
  BY NewPacketIs
<1>3. ASSUME NEW k \in 0 .. n - 1
      PROVE  /\ Current.flags = "DATA" => Wanted[calls][l + k] = [device |-> Current.device, physical |-> x + k]
             /\ Current.flags = "ZERO" => Wanted[calls][l + k] = Zero
  <2>1. PICK y : y = o + k
    OBVIOUS
  <2>2. y \in 0 .. Current.length - 1 /\ l + k = Current.logical + y /\ x + k = Current.physical + y
    BY <1>1, <2>1
  <2>3. PICK w : w = Wanted[calls][Current.logical + y]
    OBVIOUS
  <2> QED
    BY <2>2, <2>3, WantedOfCurrent
<1>4. CASE Current.flags = "DATA"
  <2>1. \A k \in 0 .. n - 1 : p.data[k] = [device |-> Current.device, physical |-> x + k]
    BY <1>4 DEF NewPacket, DataPacket
  <2>2. \A k \in 0 .. p.length - 1 : p.data[k] = Wanted[calls][p.offset + k] /\ p.data[k] \notin Holder
    <3> SUFFICES ASSUME NEW k \in 0 .. n - 1 PROVE p.data[k] = Wanted[calls][l + k] /\ p.data[k] \notin Holder
      BY <1>2
    <3>1. p.data[k] = [device |-> Current.device, physical |-> x + k]
      BY <2>1
    <3>2. p.data[k] \notin Holder
      BY <3>1, PlaceIsNoHolder
    <3> QED
      BY <1>3, <1>4, <3>1, <3>2
  <2> QED
    BY <1>2, <1>4, <2>2 DEF GivesBytes
<1>5. CASE Current.flags = "ZERO"
  BY <1>2, <1>3, <1>5 DEF GivesBytes
<1> QED
  BY <1>1, <1>4, <1>5

\* A hole gives what is wanted, where nothing is mapped.
LEMMA HoleGives ==
    ASSUME WriterType, IsTransfer(files), CallFits, Mapped, ~ ref_file, SendHole \/ SendTrailingHole,
           NEW p, p = EmptyPacket(fileid, "HOLE", at, (IF SendHole THEN Current.logical ELSE file.size) - at)
    PROVE  GivesBytes(p, calls)
<1> DEFINE end == IF SendHole THEN Current.logical ELSE file.size
<1>1. p.flags = "HOLE" /\ p.offset = at /\ p.length = end - at
  BY DEF EmptyPacket
<1>2. at \in Nat /\ end \in Nat
  <2>1. pc = "extents" /\ InCall /\ calls > 0 /\ IsNew(calls) /\ at \in Nat
    BY DEF SendHole, SendTrailingHole, NoMoreExtents, InCall, CallFits, WriterType
  <2>2. file.size \in Nat
    BY <2>1, CurrentFile
  <2>3. SendHole => Current.logical \in Nat
    <3>1. SendHole => HasNext
      BY <2>1, NextAtHand DEF SendHole
    <3> QED
      BY <3>1, CurrentIs, ExtentFields
  <2> QED
    BY <2>1, <2>2, <2>3
<1>3. ASSUME NEW n \in 0 .. p.length - 1 PROVE Wanted[calls][p.offset + n] = Zero
  <2>1. PICK x : x = at + n
    OBVIOUS
  <2>2. x \in Nat /\ at <= x /\ x < end
    <3> HIDE DEF end
    <3> QED
      BY <1>1, <1>2, <2>1
  <2> QED
    BY <1>1, <2>1, <2>2, HoleIsZero
<1> QED
  BY <1>1, <1>3 DEF GivesBytes

\* A copy the program asks for: the bytes are wanted to be the source's.
LEMMA AskedCopyGives ==
    ASSUME WriterType, IsTransfer(files), HasNext, Current.flags = "COPY",
           NEW p, p = CopyPacket(fileid, Current.logical, Current.length, ids[Current.source], Current.source_offset)
    PROVE  GivesBytes(p, calls)
<1>1. /\ p.flags = "COPY" /\ p.offset = Current.logical /\ p.length = Current.length
      /\ p.source = ids[Current.source] /\ p.source_offset = Current.source_offset
  BY DEF CopyPacket
<1>2. /\ Current.logical \in Nat /\ Current.length \in Nat /\ Current.source_offset \in Nat /\ Current.length > 0
  BY CurrentIs, ExtentFields
<1>3. ASSUME NEW n \in 0 .. Current.length - 1
      PROVE  /\ Current.source \in 1 .. calls
             /\ SameByte(Current.source, Current.source_offset + n, calls, Current.logical + n)
  <2>1. PICK m \in DOMAIN extents : IsByteOf(n, extents[m])
    BY BytesOfCurrent
  <2> DEFINE e == extents[m]
             y == Current.logical + n - e.logical
             s == Current.source
             x == Current.source_offset + n
  <2>2. y \in 0 .. e.length - 1 /\ e.flags = "COPY" /\ e.source = s /\ x = e.source_offset + y
    BY <2>1 DEF IsByteOf
  <2>3. e \in FileExtent /\ CopiesOfEarlier(files, calls) /\ extents = files[calls].extents /\ calls \in Nat
    BY CurrentFile DEF HasNext, extents, file
  <2>4. e.source_offset \in Nat /\ e.length \in Nat
    BY <2>3, ExtentFields
  <2>5. s \in 1 .. calls - 1 /\ files[s].mode \in {"REG", "REF"} /\ e.source_offset + e.length <= files[s].size
    BY <2>2, <2>3 DEF CopiesOfEarlier
  <2>6. files[s].size \in Nat
    <3>1. s \in 1 .. Len(files) /\ IsNew(s)
      BY <2>3, <2>5 DEF IsNew, WriterType, IsPlan
    <3> HIDE DEF s
    <3> QED
      BY <3>1 DEF WriterType, IsPlan, IsNew, AreExtents
  <2>7. x < files[s].size
    <3> HIDE DEF x, y, e, s
    <3> QED
      BY <2>2, <2>4, <2>5, <2>6
  <2>8. Wanted[calls][Current.logical + n] = Wanted[s][x]
    <3>1. PICK w : w = Wanted[calls][Current.logical + n]
      OBVIOUS
    <3> QED
      BY <3>1, WantedOfCurrent
  <2>9. s \in 1 .. calls
    BY <2>3, <2>5
  <2> QED
    BY <2>5, <2>7, <2>8, <2>9 DEF SameByte
<1>4. \A n \in 0 .. Current.length - 1 : \E s \in 1 .. calls :
        p.source = ids[s] /\ SameByte(s, Current.source_offset + n, calls, Current.logical + n)
  BY <1>1, <1>3
<1> QED
  BY <1>1, <1>2, <1>4 DEF GivesBytes

\* Files that share a place want the same byte there.
LEMMA SharedSame ==
    ASSUME WriterType, IsTransfer(files), HasNext, Current.shared, Current.flags # "COPY", Current.device \in Device,
           NEW x \in 0 .. Current.length - 1, NEW q \in Place,
           q = [device |-> Current.device, physical |-> Current.physical + x],
           NEW i \in 1 .. calls, NEW m \in DOMAIN files[i].extents, NEW n \in Nat, OwnsBy(q, i, m, n)
    PROVE  SameByte(i, files[i].extents[m].logical + n, calls, Current.logical + x)
<1> DEFINE f == files[i].extents[m]
<1>1. IsNew(i) /\ i \in DOMAIN files /\ calls \in DOMAIN files /\ IsNew(calls) /\ calls \in 1 .. calls /\ extents = files[calls].extents
  BY DEF OwnsBy, IsNew, HasNext, WriterType, IsPlan, extents, file
<1>2. f \in FileExtent /\ AreExtents(files[i])
  BY <1>1, ElementOfSeq, LenProperties DEF WriterType, IsPlan, IsNew, AreExtents
<1>3. /\ f.shared /\ f.flags # "COPY" /\ n < f.length /\ f.logical + n < files[i].size
      /\ files[i].mode \in {"REG", "REF"}
      /\ q = [device |-> f.device, physical |-> f.physical + n]
      /\ f.logical \in Nat /\ f.length \in Nat /\ f.physical \in Nat /\ f.flags \in {"DATA", "ZERO", "COPY"}
  BY <1>2, ExtentFields DEF OwnsBy
<1>4. PICK k \in DOMAIN extents : IsByteOf(x, extents[k])
  BY BytesOfCurrent
<1> DEFINE e == extents[k]
           y == Current.logical + x - e.logical
<1>5. /\ y \in 0 .. e.length - 1 /\ e.flags = Current.flags /\ e.shared = Current.shared /\ e.device = Current.device
      /\ Current.physical + x = e.physical + y
  BY <1>4 DEF IsByteOf
<1>6. q = [device |-> e.device, physical |-> e.physical + y]
  BY <1>5
<1> HIDE DEF y
<1>7. q \in Places(e)
  BY <1>5, <1>6 DEF Places
<1>8. q \in Places(f)
  BY <1>3 DEF Places
<1>9. e.flags = f.flags
  <2>1. e.shared /\ e.flags # "COPY"
    BY <1>5
  <2>2. k \in DOMAIN files[calls].extents /\ e = files[calls].extents[k]
    BY <1>1
  <2>3. Places(e) \cap Places(f) # {}
    BY <1>7, <1>8
  <2>4. SharedAlike(files)
    BY DEF IsTransfer
  <2>5. files[calls].mode # "HARD" /\ files[i].mode # "HARD"
    BY <1>1 DEF IsNew
  <2>6. \A a \in DOMAIN files[calls].extents, b \in DOMAIN files[i].extents :
          LET g == files[calls].extents[a]  h == files[i].extents[b] IN
          g.shared /\ g.flags # "COPY" /\ h.shared /\ h.flags # "COPY" /\ Places(g) \cap Places(h) # {}
            => g.flags = h.flags
    BY <1>1, <2>4, <2>5 DEF SharedAlike
  <2>7. files[calls].extents[k].flags = files[i].extents[m].flags
    BY <1>3, <2>1, <2>2, <2>3, <2>6
  <2> QED
    BY <2>2, <2>7
<1> HIDE DEF e, f
<1>10. PICK l : l = f.logical + n
  OBVIOUS
<1>11. PICK w : w = Wanted[calls][Current.logical + x]
  OBVIOUS
<1>12. l \in Nat /\ l < files[i].size /\ Has(f, l) /\ l - f.logical = n
  BY <1>3, <1>10 DEF Has
<1>13. Wanted[i][l] = WantedByte(Wanted, f, n)
  BY <1>1, <1>12, WantedFits, WantedIs DEF WantedGoes, WriterType, f
<1>14. CASE f.flags = "DATA"
  <2>1. WantedByte(Wanted, f, n) = [device |-> f.device, physical |-> f.physical + n]
    BY <1>14, Zenon DEF WantedByte
  <2>2. w = [device |-> Current.device, physical |-> Current.physical + x]
    BY <1>5, <1>9, <1>11, <1>14, WantedOfCurrent
  <2> QED
    BY <1>3, <1>10, <1>11, <1>12, <1>13, <2>1, <2>2 DEF SameByte, f
<1>15. CASE f.flags = "ZERO"
  <2>1. WantedByte(Wanted, f, n) = Zero
    BY <1>15, Zenon DEF WantedByte
  <2>2. w = Zero
    BY <1>5, <1>9, <1>11, <1>15, WantedOfCurrent
  <2> QED
    BY <1>3, <1>10, <1>11, <1>12, <1>13, <2>1, <2>2 DEF SameByte, f
<1> QED
  BY <1>3, <1>14, <1>15

------------------------------------------------------------------------------
\* A copy that the extent map makes of the n bytes that come next: its owners'
\* bytes are the same.
LEMMA PieceGives ==
    ASSUME Laid, OwnerType, Meaning, NEW n \in 1 .. ex.length, NEW g \in File, NEW m \in Log, pc = "shared",
           ex.device \in Device,
           \A k \in 0 .. n - 1 : /\ ex.physical + k \in Phys /\ m + k \in Log
                                 /\ owner[ex.device][ex.physical + k] = [file |-> g, logical |-> m + k],
           NEW p, p = CopyPacket(fileid, ex.logical, n, g, m)
    PROVE  GivesBytes(p, calls)
<1>1. Order /\ Control /\ WriterType /\ CallFits /\ IsTransfer(files) /\ OwnersAreFirst
  BY DEF Laid, Order, Control, Meaning
<1>2. HasNext
  BY <1>1, NextAtHand
<1>3. /\ p.flags = "COPY" /\ p.offset = ex.logical /\ p.length = n /\ p.source = g /\ p.source_offset = m
  BY DEF CopyPacket
<1>4. /\ Current.logical \in Nat /\ Current.length \in Nat /\ Current.physical \in Nat
  BY <1>1, <1>2, CurrentIs, ExtentFields
<1>5. /\ Current.shared /\ Current.flags # "COPY" /\ ex.device = Current.device
      /\ ex.length \in 0 .. Current.length
      /\ ex.logical = Current.logical + (Current.length - ex.length)
      /\ ex.physical = Current.physical + (Current.length - ex.length)
  BY DEF Laid, Tiling, SharedFits
<1>6. ASSUME NEW k \in 0 .. n - 1
      PROVE  \E s \in 1 .. calls : g = ids[s] /\ SameByte(s, m + k, calls, ex.logical + k)
  <2>1. PICK x : x = (Current.length - ex.length) + k
    OBVIOUS
  <2>2. x \in 0 .. Current.length - 1 /\ ex.logical + k = Current.logical + x /\ ex.physical + k = Current.physical + x
    BY <1>4, <1>5, <2>1
  <2>3. PICK q : q = [device |-> ex.device, physical |-> ex.physical + k]
    OBVIOUS
  <2>4. q \in Place /\ q.device = ex.device /\ q.physical = ex.physical + k
    BY <2>3 DEF Place
  <2>5. owner[q.device][q.physical] = [file |-> g, logical |-> m + k] /\ m + k \in Nat
    BY <2>4, SizeAssumption DEF Log
  <2>6. IsOwned(q)
    BY <2>4, <2>5, NobodyAssumption DEF IsOwned
  <2>7. PICK i \in 1 .. calls : \E h \in DOMAIN files[i].extents, y \in Nat : OwnsBy(q, i, h, y)
    BY <1>1, <2>4, <2>6 DEF OwnersAreFirst
  <2>8. PICK h \in DOMAIN files[i].extents, y \in Nat : OwnsBy(q, i, h, y)
    BY <2>7
  <2>9. SameByte(i, files[i].extents[h].logical + y, calls, Current.logical + x)
    BY <1>1, <1>2, <1>5, <2>2, <2>3, <2>4, <2>8, SharedSame
  <2>10. g = ids[i] /\ m + k = files[i].extents[h].logical + y
    <3>1. [file |-> g, logical |-> m + k] = [file |-> ids[i], logical |-> files[i].extents[h].logical + y]
      BY <2>5, <2>8 DEF OwnsBy
    <3> QED
      BY <3>1
  <2> QED
    BY <2>2, <2>9, <2>10
<1>7. m \in Nat
  BY SizeAssumption DEF Log
<1> QED
  BY <1>3, <1>6, <1>7 DEF GivesBytes

\* A step puts one packet.
LEMMA PutIs == ASSUME WriterType, NEW p, Put(p), NEW q, Put(q) PROVE p = q
<1>1. stream'[Len(stream) + 1] = p
  BY PutAppends
<1>2. stream'[Len(stream) + 1] = q
  BY PutAppends
<1> QED
  BY <1>1, <1>2

\* Every extent that is put gives bytes of the current file.
LEMMA PutGivesBytes ==
    ASSUME Laid, Sending, Meaning, InCall, PutsOne, ~ ref_file
    PROVE  \E p : Put(p) /\ GivesBytes(p, calls)
<1>1. Order /\ Control /\ WriterType /\ CallFits /\ OwnerType /\ Mapped /\ IsTransfer(files)
  BY DEF Laid, Order, Control, Sending, Tiling, Meaning
<1>2. CASE SendHole \/ SendTrailingHole
  <2> DEFINE p == EmptyPacket(fileid, "HOLE", at, (IF SendHole THEN Current.logical ELSE file.size) - at)
  <2>1. GivesBytes(p, calls)
    BY <1>1, <1>2, HoleGives
  <2>2. Put(p)
    BY <1>2 DEF SendHole, SendTrailingHole
  <2> QED
    BY <2>1, <2>2
<1>3. CASE SendExplicitCopy
  <2> DEFINE p == CopyPacket(fileid, Current.logical, Current.length, ids[Current.source], Current.source_offset)
  <2>1. AtExtent /\ Current.flags = "COPY" /\ Put(p)
    BY <1>3 DEF SendExplicitCopy, PutUnlessRef
  <2>2. HasNext
    BY <1>1, <2>1, NextAtHand DEF AtExtent
  <2>3. GivesBytes(p, calls)
    BY <1>1, <2>1, <2>2, AskedCopyGives
  <2> QED
    BY <2>1, <2>3
<1>4. CASE SendUnshared
  <2> DEFINE p == NewPacket(Current, Current.logical, Current.physical, Current.length)
  <2>1. AtExtent /\ Current.flags # "COPY" /\ Put(p)
    BY <1>4 DEF SendUnshared, PutUnlessRef
  <2>2. HasNext
    BY <1>1, <2>1, NextAtHand DEF AtExtent
  <2>3. Current.length \in Nat /\ Current.logical \in Nat /\ Current.physical \in Nat
    BY <1>1, <2>2, CurrentIs, ExtentFields
  <2>4. 0 + Current.length <= Current.length /\ Current.logical = Current.logical + 0 /\ Current.physical = Current.physical + 0
    BY <2>3
  <2>5. GivesBytes(p, calls)
    BY <1>1, <2>1, <2>2, <2>3, <2>4, NewPacketGives
  <2> QED
    BY <2>1, <2>5
<1>5. ASSUME NEW n \in 1 .. ex.length, SendNewShared(n) PROVE \E p : Put(p) /\ GivesBytes(p, calls)
  <2> DEFINE p == NewPacket(Current, ex.logical, ex.physical, n)
             o == Current.length - ex.length
  <2>1. pc = "shared" /\ Put(p)
    BY <1>5 DEF SendNewShared, PutUnlessRef
  <2>2. HasNext
    BY <1>1, <2>1, NextAtHand
  <2>3. Current.length \in Nat /\ Current.logical \in Nat /\ Current.physical \in Nat
    BY <1>1, <2>2, CurrentIs, ExtentFields
  <2>4. Current.flags # "COPY" /\ ex.length \in 0 .. Current.length /\ ex.logical = Current.logical + o /\ ex.physical = Current.physical + o
    BY <2>1 DEF Laid, Tiling, SharedFits
  <2>5. o \in Nat /\ n \in Nat /\ o + n <= Current.length
    BY <2>3, <2>4
  <2>6. GivesBytes(p, calls)
    BY <1>1, <2>2, <2>4, <2>5, NewPacketGives
  <2> QED
    BY <2>1, <2>6
<1>6. ASSUME NEW n \in 1 .. ex.length, SendAvailShared(n) PROVE \E p : Put(p) /\ GivesBytes(p, calls)
  <2>1. PICK g \in File, m \in Log :
          /\ PutUnlessRef(CopyPacket(fileid, ex.logical, n, g, m)) /\ ex.device \in Device
          /\ \A k \in 0 .. n - 1 : /\ ex.physical + k \in Phys /\ m + k \in Log
                                   /\ owner[ex.device][ex.physical + k] = [file |-> g, logical |-> m + k]
    BY <1>1, <1>6, PieceIsCopied
  <2> DEFINE p == CopyPacket(fileid, ex.logical, n, g, m)
  <2>2. pc = "shared" /\ Put(p)
    BY <1>6, <2>1 DEF SendAvailShared, PutUnlessRef
  <2>3. GivesBytes(p, calls)
    BY <1>1, <2>1, <2>2, PieceGives
  <2> QED
    BY <2>2, <2>3
<1> QED
  BY <1>2, <1>3, <1>4, <1>5, <1>6 DEF PutsOne, SendShared

\* A packet that is put gives bytes of the file of its call.
LEMMA PutGives ==
    ASSUME Laid, Sending, Meaning, InCall, PutsOne
    PROVE  /\ UNCHANGED <<files, calls, ids, next_fileid>> /\ calls \in 1 .. calls
           /\ UNCHANGED stream \/ \E p : Put(p) /\ p.type = "EXTENT" /\ Gives(p, calls)
<1>1. Order /\ Control /\ WriterType /\ Mapped /\ SharedFits
  BY DEF Laid, Order, Control, Tiling
<1>2. calls \in 1 .. calls /\ fileid = ids[calls] /\ file.size \in Nat /\ file = files[calls]
  BY <1>1, PlanOfCalls, CurrentFile DEF file
<1>3. CASE ref_file
  BY <1>1, <1>2, <1>3, ExtentPut
<1>4. CASE ~ ref_file
  <2>1. PICK q : PutsNext(q)
    BY <1>1, <1>4, ExtentPut
  <2>2. PICK p : Put(p) /\ GivesBytes(p, calls)
    BY <1>4, PutGivesBytes
  <2>3. Put(q) /\ q.type = "EXTENT" /\ q.file = fileid /\ file.mode = "REG"
        /\ q.offset \in Nat /\ q.length \in Nat /\ q.offset + q.length <= file.size
    BY <2>1 DEF PutsNext, PutsExtent
  <2>4. p = q
    BY <1>1, <2>2, <2>3, PutIs
  <2>5. Gives(q, calls)
    BY <1>2, <2>2, <2>3, <2>4 DEF Gives
  <2> QED
    BY <1>1, <1>2, <1>4, <2>3, <2>5, ExtentPut
<1> QED
  BY <1>3, <1>4

------------------------------------------------------------------------------
\* What the packets give and who owns what stays true when the program goes on.
Continue ==
    /\ files' = files /\ calls \in Nat /\ calls' \in Nat /\ calls <= calls'
    /\ \A i \in 1 .. calls : ids'[i] = ids[i]

\* Every step of the writer goes on with the plan.
LEMMA NextContinues == ASSUME Control, [Next]_vars PROVE Continue
<1>1. Control' /\ calls \in Nat /\ ids \in Seq(Nat) /\ Len(ids) = calls /\ next_fileid \in Nat
  BY NextControl, PlanOfCalls DEF Control, WriterType
<1>2. calls' \in Nat
  <2>1. IsPlan(files)' /\ (calls \in 0 .. Len(files))'
    BY <1>1 DEF Control, WriterType
  <2>2. Len(files') \in Nat
    BY <2>1 DEF IsPlan
  <2> QED
    BY <2>1, <2>2
<1>3. CASE GoesOn
  BY <1>1, <1>2, <1>3 DEF GoesOn, Continue
<1>4. CASE Begin
  <2>1. files' = files /\ calls' = calls + 1 /\ ids' = Append(ids, next_fileid)
    BY <1>4 DEF Begin
  <2> QED
    BY <1>1, <1>2, <2>1, IdsAppended DEF Continue
<1>5. CASE WriteHardlink
  <2>1. files' = files /\ calls' = calls + 1 /\ ids' = Append(ids, ids[files[calls + 1].of])
    BY <1>5 DEF WriteHardlink
  <2>2. ids' \in Seq(Nat) /\ Len(ids') = calls'
    BY <1>1 DEF Control, WriterType
  <2>3. \A i \in 1 .. Len(ids) : ids'[i] = ids[i]
    BY <1>1, <2>1 
  <2> QED
    BY <1>1, <1>2, <2>1, <2>3 DEF Continue
<1> QED
  BY <1>3, <1>4, <1>5, StepsOfCall DEF Control

\* A packet goes on giving what it gives,
LEMMA GivesStays ==
    ASSUME Continue, NEW p, NEW i \in 1 .. calls, Gives(p, i)
    PROVE  i \in 1 .. calls' /\ Gives(p, i)'
<1>1. i \in 1 .. calls' /\ Wanted' = Wanted /\ ids'[i] = ids[i] /\ 1 .. calls \subseteq 1 .. calls'
  BY WantedStays DEF Continue
<1>2. p.flags = "COPY" => \A n \in 0 .. p.length - 1 : \E s \in 1 .. calls' :
        p.source = ids'[s] /\ SameByte(s, p.source_offset + n, i, p.offset + n)'
  <2> SUFFICES ASSUME p.flags = "COPY", NEW n \in 0 .. p.length - 1
               PROVE  \E s \in 1 .. calls' : p.source = ids'[s] /\ SameByte(s, p.source_offset + n, i, p.offset + n)'
    OBVIOUS
  <2>1. PICK s \in 1 .. calls : p.source = ids[s] /\ SameByte(s, p.source_offset + n, i, p.offset + n)
    BY DEF Gives, GivesBytes
  <2>2. s \in 1 .. calls' /\ p.source = ids'[s]
    BY <1>1, <2>1 DEF Continue
  <2>3. SameByte(s, p.source_offset + n, i, p.offset + n)'
    BY <1>1, <2>1 DEF SameByte, Continue
  <2> QED
    BY <2>2, <2>3
<1> QED
  BY <1>1, <1>2 DEF Gives, GivesBytes, Continue

\* and so do all of them.
LEMMA GivenStay ==
    ASSUME Order, Continue, AllGiven,
           \/ PutsNoExtent
           \/ \E p : Put(p) /\ \E i \in 1 .. calls : Gives(p, i)
    PROVE  AllGiven'
<1> SUFFICES ASSUME NEW j \in DOMAIN stream', Is(j, "EXTENT")'
             PROVE  \E i \in 1 .. calls' : Gives(stream[j], i)'
  BY DEF AllGiven
<1>1. ASSUME NEW p, Put(p), p.type # "EXTENT" \/ \E i \in 1 .. calls : Gives(p, i)
      PROVE  \E i \in 1 .. calls : Gives(stream'[j], i)
  <2>1. PICK n : n = Len(stream) + 1
    OBVIOUS
  <2>2. /\ DOMAIN stream = 1 .. n - 1 /\ DOMAIN stream' = 1 .. n /\ n \in Nat \ {0}
        /\ \A i \in 1 .. n - 1 : stream'[i] = stream[i]
        /\ stream'[n] = p
    BY <1>1, <2>1, OneMore DEF Order, Control
  <2>3. CASE j = n
    BY <1>1, <2>2, <2>3 DEF Is
  <2>4. CASE j # n
    <3>1. j \in DOMAIN stream /\ stream'[j] = stream[j]
      BY <2>2, <2>4
    <3> QED
      BY <3>1 DEF AllGiven, Is
  <2> QED
    BY <2>3, <2>4
<1>2. ASSUME UNCHANGED stream PROVE \E i \in 1 .. calls : Gives(stream'[j], i)
  BY <1>2 DEF AllGiven, Is
<1>3. PICK i \in 1 .. calls : Gives(stream'[j], i)
  BY <1>1, <1>2 DEF PutsNoExtent
<1>4. PICK p : p = stream'[j]
  OBVIOUS
<1>5. i \in 1 .. calls' /\ Gives(p, i)'
  BY <1>3, <1>4, GivesStays
<1>6. Gives(stream[j], i)'
  BY <1>4, <1>5 DEF Gives, GivesBytes
<1> QED
  BY <1>5, <1>6

\* Owners stay, and the piece that was sent last is owned by its extent.
LEMMA OwnsStays ==
    ASSUME Continue, NEW q \in Place, NEW i \in 1 .. calls, NEW k \in DOMAIN files[i].extents, NEW n \in Nat,
           OwnsBy(q, i, k, n), owner'[q.device][q.physical] = owner[q.device][q.physical]
    PROVE  i \in 1 .. calls' /\ k \in DOMAIN files'[i].extents /\ OwnsBy(q, i, k, n)'
<1>1. i \in 1 .. calls' /\ files' = files /\ ids'[i] = ids[i]
  BY DEF Continue
<1> QED
  BY <1>1 DEF OwnsBy

\* The bytes of a piece that was put are owned by its file from then on.
LEMMA PieceOwns ==
    ASSUME Laid, Sending, NEW n \in 1 .. ex.length, SendNewShared(n), NEW q \in Place,
           q.device = ex.device, q.physical \in ex.physical .. ex.physical + n - 1
    PROVE  \E k \in DOMAIN extents, y \in Nat : OwnsBy(q, calls, k, y)'
<1>1. Order /\ Control /\ WriterType /\ CallFits /\ OwnerType
  BY DEF Laid, Order, Control, Sending
<1>2. \A d \in Device, x \in Phys :
        owner'[d][x] = IF d = ex.device /\ x \in ex.physical .. ex.physical + n - 1
                       THEN [file |-> fileid, logical |-> ex.logical + (x - ex.physical)]
                       ELSE owner[d][x]
  BY <1>1, PieceIsOwned
<1>3. HasNext /\ pc = "shared" /\ file.mode \in {"REG", "REF"} /\ UNCHANGED <<files, calls, ids>>
  BY <1>1, NextAtHand DEF SendNewShared, CallFits, InCall
<1>4. /\ Current.length \in Nat /\ Current.physical \in Nat /\ Current.logical \in Nat
      /\ End(Current) = Current.logical + Current.length /\ End(Current) <= file.size /\ file.size \in Nat
      /\ extents = files[calls].extents /\ file = files[calls]
  BY <1>1, <1>3, CurrentIs, CurrentFile, ExtentFields DEF HasNext, extents, file
<1>5. /\ ex.length \in 0 .. Current.length /\ Current.shared /\ Current.flags # "COPY"
      /\ ex.logical = Current.logical + (Current.length - ex.length)
      /\ ex.physical = Current.physical + (Current.length - ex.length)
      /\ ex.device = Current.device
  BY <1>3 DEF Laid, Tiling, SharedFits
<1>6. PICK o : o = (Current.length - ex.length) + (q.physical - ex.physical)
  OBVIOUS
<1>7. /\ o \in 0 .. Current.length - 1 /\ q.physical = Current.physical + o
      /\ ex.logical + (q.physical - ex.physical) = Current.logical + o
  BY <1>4, <1>5, <1>6
<1>8. PICK k \in DOMAIN extents : IsByteOf(o, extents[k])
  BY <1>1, <1>3, <1>7, BytesOfCurrent
<1>9. PICK y : y = Current.logical + o - extents[k].logical
  OBVIOUS
<1> DEFINE e == extents[k]
<1>10. /\ y \in 0 .. e.length - 1 /\ e.flags = Current.flags /\ e.shared = Current.shared /\ e.device = Current.device
       /\ Current.physical + o = e.physical + y
  BY <1>8, <1>9 DEF IsByteOf
<1>11. e.logical \in Nat /\ e.length \in Nat
  BY <1>1, <1>3, CurrentFile, ExtentFields DEF HasNext
<1>12. q.device \in Device /\ q.physical \in Phys /\ q = [device |-> q.device, physical |-> q.physical]
  BY DEF Place
<1>13. owner'[q.device][q.physical] = [file |-> ids[calls], logical |-> Current.logical + o]
  BY <1>2, <1>7, <1>12 DEF fileid
<1>14. y \in Nat /\ y < e.length /\ e.logical + y = Current.logical + o /\ e.logical + y < file.size
  <2> HIDE DEF e
  <2>1. e.logical = extents[k].logical
    BY DEF e
  <2> QED
    BY <1>4, <1>7, <1>9, <1>10, <1>11, <2>1
<1>15. OwnsBy(q, calls, k, y)'
  <2>1. q = [device |-> e.device, physical |-> e.physical + y]
    BY <1>5, <1>7, <1>10, <1>12
  <2> QED
    BY <1>3, <1>4, <1>5, <1>10, <1>13, <1>14, <2>1 DEF OwnsBy
<1> QED
  BY <1>14, <1>15

\* Every step of the writer leaves the owners' bytes to those that have them.
LEMMA NextOwners == ASSUME Laid, Sending, OwnersAreFirst, Continue, [Next]_vars PROVE OwnersAreFirst'
<1>1. OwnerType
  BY DEF Sending
<1> SUFFICES ASSUME NEW q \in Place, IsOwned(q)'
             PROVE  \E i \in 1 .. calls' : \E k \in DOMAIN files'[i].extents, n \in Nat : OwnsBy(q, i, k, n)'
  BY DEF OwnersAreFirst
<1>2. q.device \in Device /\ q.physical \in Phys
  BY DEF Place
<1>3. CASE owner'[q.device][q.physical] = owner[q.device][q.physical]
  <2>1. IsOwned(q)
    BY <1>3 DEF IsOwned
  <2>2. PICK i \in 1 .. calls : \E k \in DOMAIN files[i].extents, n \in Nat : OwnsBy(q, i, k, n)
    BY <2>1 DEF OwnersAreFirst
  <2>3. PICK k \in DOMAIN files[i].extents, n \in Nat : OwnsBy(q, i, k, n)
    BY <2>2
  <2> QED
    BY <1>3, <2>3, OwnsStays
<1>4. CASE owner'[q.device][q.physical] # owner[q.device][q.physical]
  <2>1. PICK n \in 1 .. ex.length : SendNewShared(n)
    BY <1>4, OwnersStay DEF SendShared, SendAvailShared, EMap!Copy
  <2>2. \A d \in Device, x \in Phys :
          owner'[d][x] = IF d = ex.device /\ x \in ex.physical .. ex.physical + n - 1
                         THEN [file |-> fileid, logical |-> ex.logical + (x - ex.physical)]
                         ELSE owner[d][x]
    BY <1>1, <2>1, PieceIsOwned
  <2>3. q.device = ex.device /\ q.physical \in ex.physical .. ex.physical + n - 1
    BY <1>2, <1>4, <2>2
  <2>4. PICK k \in DOMAIN extents, y \in Nat : OwnsBy(q, calls, k, y)'
    BY <2>1, <2>3, PieceOwns
  <2>5. calls \in 1 .. calls' /\ calls' = calls /\ files'[calls].extents = extents
    <3>1. HasNext /\ calls \in Nat
      BY <2>1, NextAtHand, PlanOfCalls DEF SendNewShared, Laid, Order, Control
    <3> QED
      BY <2>1, <3>1 DEF SendNewShared, HasNext, extents, file
  <2> QED
    BY <2>4, <2>5
<1> QED
  BY <1>3, <1>4

\* Every step of the writer keeps what the packets mean.
LEMMA NextMeaning == ASSUME Laid, Sending, Meaning, [Next]_vars PROVE Meaning'
<1>1. Order /\ Control /\ AllGiven /\ OwnersAreFirst /\ IsTransfer(files)
  BY DEF Laid, Order, Control, Meaning
<1>2. Continue
  BY <1>1, NextContinues
<1>3. IsTransfer(files)'
  BY <1>1, <1>2 DEF Continue
<1>4. AllGiven'
  <2>1. CASE PutsOne
    <3>1. InCall
      <4>1. CASE SendShared
        BY <4>1 DEF SendShared, SendNewShared, SendAvailShared, InCall
      <4>2. CASE ~ SendShared
        BY <2>1, <4>2 DEF PutsOne, SendHole, SendExplicitCopy, SendUnshared, SendTrailingHole,
                          AtExtent, NoMoreExtents, InCall
      <4> QED
        BY <4>1, <4>2
    <3>2. /\ calls \in 1 .. calls
          /\ UNCHANGED stream \/ \E p : Put(p) /\ p.type = "EXTENT" /\ Gives(p, calls)
      BY <2>1, <3>1, PutGives
    <3> QED
      BY <1>1, <1>2, <3>2, GivenStay DEF PutsNoExtent
  <2>2. CASE ~ PutsOne
    BY <1>1, <1>2, <2>2, GivenStay, NoExtentPut
  <2> QED
    BY <2>1, <2>2
<1>5. OwnersAreFirst'
  BY <1>1, <1>2, NextOwners
<1> QED
  BY <1>3, <1>4, <1>5 DEF Meaning

\* Without packets there is nothing to mean.
LEMMA InitMeaning == Init => Meaning
<1> SUFFICES ASSUME Init PROVE Meaning
  OBVIOUS
<1>1. IsTransfer(files)
  BY TransfersAssumption DEF Init
<1>2. \A q \in Place : ~ IsOwned(q)
  BY DEF Init, IsOwned, Place
<1>3. DOMAIN stream = {}
  BY DEF Init
<1> QED
  BY <1>1, <1>2, <1>3 DEF Meaning, AllGiven, OwnersAreFirst

------------------------------------------------------------------------------
\* The file with id f was announced before packet i.
AnnouncedBefore(f, i) == \E j \in 1 .. i - 1 : Announces(j) /\ stream[j].file = f

\* Packet i has a type that is known, and snapshots are those of a known file.
KnownAt(i) ==
    /\ i = 1 <=> stream[i].type = "HEADER"
    /\ stream[i].type \in {"HEADER", "FILE", "FILE_META", "FILE_END", "EXTENT", "SNAPSHOT_LIST"}
    /\ Is(i, "SNAPSHOT_LIST") => AnnouncedBefore(stream[i].file, i)

\* Meta data follow a packet that begins them or goes on with them, at once.
Opens(p) ==
    \/ p.type = "FILE" /\ p.mode \notin {"REF", "HARD"}
    \/ p.type = "FILE_META" /\ p.meta # "END"

\* What is put after packet i.
FollowsAt(i) ==
    /\ Opens(stream[i]) <=> Is(i + 1, "FILE_META")
    /\ Is(i + 1, "FILE_META") => stream[i + 1].file = stream[i].file

\* Meta data go on with those of the current file.
MetaLeft ==
    /\ stream[Len(stream)].file = fileid
    /\ \E S : metas \in Seq(S) /\ "END" \notin S

\* How packets follow each other, up to the next one.
Protocol ==
    /\ pc = "new" => stream = <<>>
    /\ pc \notin {"new", "failed"} => stream # <<>>
    /\ \A i \in DOMAIN stream : KnownAt(i)
    /\ \A i \in 1 .. Len(stream) - 1 : FollowsAt(i)
    /\ stream # <<>> /\ pc # "failed" => (Opens(stream[Len(stream)]) <=> pc = "meta")
    /\ pc = "meta" => MetaLeft

\* This is stronger than MetaFollowsFile.
LEMMA ProtocolFollows == ASSUME WriterType, Protocol PROVE MetaFollowsFile
  BY DEF Protocol, FollowsAt, MetaFollowsFile, MetaOpen, Opens, Is

\* Putting a packet goes on with meta data if some are left, and only then.
LEMMA PutFollows ==
    ASSUME Control, Protocol, NEW p, Put(p), pc \notin {"new", "failed"},
           p.type \in {"FILE", "FILE_META", "FILE_END", "EXTENT", "SNAPSHOT_LIST"},
           p.type = "SNAPSHOT_LIST" => \E j \in DOMAIN stream : Announces(j) /\ stream[j].file = p.file,
           pc = "meta" <=> p.type = "FILE_META", p.type = "FILE_META" => p.file = fileid,
           pc' # "new", Opens(p) <=> pc' = "meta",
           pc' = "meta" => p.file = fileid' /\ \E S : metas' \in Seq(S) /\ "END" \notin S
    PROVE  Protocol'
<1>1. PICK n : n = Len(stream) + 1
  OBVIOUS
<1>2. /\ n \in Nat \ {0} /\ DOMAIN stream = 1 .. n - 1 /\ DOMAIN stream' = 1 .. n /\ Len(stream) = n - 1
      /\ \A i \in 1 .. n - 1 : stream'[i] = stream[i]
      /\ stream'[n] = p
      /\ \A i \in 1 .. n - 1 : /\ Announces(i)' <=> Announces(i)
                               /\ \A type : Is(i, type)' <=> Is(i, type)
      /\ \A type : Is(n, type)' <=> p.type = type
  <2>1. Len(stream) \in Nat
    BY PutAppends DEF Control
  <2> QED
    BY <1>1, <2>1, OneMore
<1>3. n > 1 /\ stream' # <<>>
  <2>1. stream # <<>> /\ stream \in Seq({stream[i] : i \in DOMAIN stream})
    BY DEF Protocol, Control, WriterType
  <2>2. Len(stream) # 0
    BY <2>1, EmptySeq
  <2>3. stream' # <<>>
    BY <1>2
  <2> QED
    BY <1>1, <1>2, <2>2, <2>3
<1>4. Len(stream') = n
  BY <1>1, PutAppends DEF Control
<1>5. ASSUME NEW i \in 1 .. n PROVE KnownAt(i)'
  <2>1. CASE i = n
    <3>1. p.type = "SNAPSHOT_LIST" => \E j \in 1 .. i - 1 : Announces(j)' /\ stream'[j].file = p.file
      BY <1>2, <2>1
    <3> QED
      BY <1>2, <1>3, <2>1, <3>1 DEF KnownAt, AnnouncedBefore
  <2>2. CASE i # n
    <3>1. i \in 1 .. n - 1 /\ i \in DOMAIN stream /\ stream'[i] = stream[i]
      BY <1>2, <2>2
    <3>2. KnownAt(i)
      BY <3>1 DEF Protocol
    <3>3. ASSUME AnnouncedBefore(stream[i].file, i) PROVE AnnouncedBefore(stream[i].file, i)'
      <4>1. PICK j \in 1 .. i - 1 : Announces(j) /\ stream[j].file = stream[i].file
        BY <3>3 DEF AnnouncedBefore
      <4>2. j \in 1 .. n - 1
        BY <1>2, <3>1
      <4> QED
        BY <1>2, <3>1, <4>1, <4>2 DEF AnnouncedBefore
    <3> QED
      BY <3>1, <3>2, <3>3 DEF KnownAt, Is
  <2> QED
    BY <2>1, <2>2
<1>6. Opens(stream[n - 1]) <=> pc = "meta"
  BY <1>2, <1>3 DEF Protocol
<1>7. pc = "meta" => stream[n - 1].file = fileid
  BY <1>2 DEF Protocol, MetaLeft
<1>8. ASSUME NEW i \in 1 .. n - 1 PROVE FollowsAt(i)'
  <2>1. CASE i = n - 1
    <3>1. i + 1 = n /\ stream'[i] = stream[n - 1]
      BY <1>2, <2>1
    <3> QED
      BY <1>2, <1>6, <1>7, <3>1 DEF FollowsAt, Opens
  <2>2. CASE i # n - 1
    <3>1. i \in 1 .. Len(stream) - 1 /\ i \in 1 .. n - 1 /\ i + 1 \in 1 .. n - 1
      BY <1>2, <2>2
    <3>2. FollowsAt(i)
      BY <3>1 DEF Protocol
    <3> QED
      BY <1>2, <3>1, <3>2 DEF FollowsAt, Opens
  <2> QED
    BY <2>1, <2>2
<1>9. /\ Opens(stream'[Len(stream')]) <=> pc' = "meta"
      /\ pc' = "meta" => MetaLeft'
  BY <1>2, <1>4 DEF MetaLeft
<1>10. (Opens(stream[Len(stream)]) <=> pc = "meta")'
  BY <1>9 DEF Opens
<1> QED
  BY <1>2, <1>3, <1>4, <1>5, <1>8, <1>9, <1>10 DEF Protocol

\* A step that puts nothing.
LEMMA QuietFollows ==
    ASSUME Protocol, UNCHANGED stream, pc' = "failed" \/ (pc \notin {"new", "meta", "failed"} /\ pc' \notin {"meta", "new"})
    PROVE  Protocol'
<1>1. \A i : (KnownAt(i)' <=> KnownAt(i)) /\ (FollowsAt(i)' <=> FollowsAt(i))
  BY DEF KnownAt, AnnouncedBefore, Announces, FollowsAt, Is, Opens
<1>2. Opens(stream[Len(stream)])' <=> Opens(stream[Len(stream)])
  BY DEF Opens
<1> QED
  BY <1>1, <1>2 DEF Protocol

\* The file that was begun last is announced.
LEMMA BeganAnnounced ==
    ASSUME Order, calls > 0, IsNew(calls)
    PROVE  \E j \in DOMAIN stream : Announces(j) /\ stream[j].file = fileid
<1>1. calls \in 1 .. calls
  BY PlanOfCalls DEF Order, Control
<1>2. PICK j \in DOMAIN stream : stream[j] = FilePacket(ids[calls], files[calls].mode, files[calls].size)
  BY <1>1 DEF Order, Announced
<1> QED
  BY <1>2 DEF Announces, Is, FilePacket, IsNew, fileid

\* A file begins with its announcement.
LEMMA BeginProtocol == ASSUME Order, Protocol, IsTransfer(files), Begin PROVE Protocol'
<1>1. Control /\ Control'
  BY BeginControl DEF Order, Control
<1> DEFINE f == files[calls + 1]
           p == FilePacket(next_fileid, f.mode, f.size)
<1>2. /\ pc = "idle" /\ f.mode # "HARD" /\ Put(p) /\ metas' = f.metas /\ files' = files
      /\ pc' = IF f.mode = "REF" THEN "extents" ELSE "meta"
      /\ ids' = Append(ids, next_fileid) /\ calls' = calls + 1 /\ calls < Len(files)
  BY DEF Begin
<1>3. p.type = "FILE" /\ p.file = next_fileid /\ p.mode = f.mode
  BY DEF FilePacket
<1>4. fileid' = next_fileid
  <2>1. next_fileid \in Nat /\ Len(ids) = calls /\ ids \in Seq(Nat)
    BY <1>1, PlanOfCalls DEF Control, WriterType
  <2>2. ids'[Len(ids) + 1] = next_fileid
    BY <1>2, <2>1
  <2> QED
    BY <1>2, <2>1, <2>2 DEF fileid
<1>5. \E S : f.metas \in Seq(S) /\ "END" \notin S
  <2>1. calls + 1 \in DOMAIN files
    BY <1>1, <1>2, PlanOfCalls DEF Control, WriterType, IsPlan
  <2> DEFINE S == {f.metas[m] : m \in DOMAIN f.metas} \ {"END"}
  <2>2. f.metas \in Seq(S) /\ "END" \notin S
    BY <1>2, <2>1 DEF IsTransfer
  <2> HIDE DEF S
  <2> QED
    BY <2>2
<1> HIDE DEF p, f
<1>6. Opens(p) <=> pc' = "meta"
  BY <1>2, <1>3 DEF Opens
<1>7. pc' = "meta" => p.file = fileid' /\ \E S : metas' \in Seq(S) /\ "END" \notin S
  BY <1>2, <1>3, <1>4, <1>5
<1> QED
  BY <1>1, <1>2, <1>3, <1>6, <1>7, PutFollows

\* Every step of the writer keeps to the protocol.
LEMMA NextProtocol == ASSUME Order, Protocol, IsTransfer(files), [Next]_vars PROVE Protocol'
<1>1. Control /\ CallFits
  BY DEF Order, Control
<1>2. CASE WriteHeader
  <2>1. stream = <<>> /\ Put(Header) /\ pc' = "idle"
    BY <1>2 DEF WriteHeader, Protocol
  <2>2. stream' = <<Header>>
    BY <2>1 DEF Put
  <2>3. KnownAt(1)' /\ DOMAIN stream' = {1} /\ Len(stream') = 1 /\ ~ Opens(stream'[1])
    BY <2>2 DEF KnownAt, Header, Is, Opens
  <2> HIDE DEF Header
  <2> QED
    BY <2>1, <2>2, <2>3 DEF Protocol, Opens
<1>3. CASE Begin
  BY <1>3, BeginProtocol
<1>4. CASE WriteHardlink
  <2> DEFINE f == files[calls + 1]
             p == FilePacket(ids[f.of], "HARD", f.size)
  <2>1. p.type = "FILE" /\ p.mode = "HARD"
    BY DEF FilePacket
  <2>2. Put(p) /\ pc = "idle" /\ pc' = pc
    BY <1>4 DEF WriteHardlink
  <2> HIDE DEF p
  <2> QED
    BY <1>1, <2>1, <2>2, PutFollows DEF Opens
<1>5. CASE SendMeta
  <2> DEFINE p == MetaPacket(fileid, Head(metas))
  <2>1. p.type = "FILE_META" /\ p.file = fileid /\ p.meta = Head(metas)
    BY DEF MetaPacket
  <2>2. pc = "meta" /\ pc' = "meta" /\ Put(p) /\ metas # <<>> /\ metas' = Tail(metas) /\ fileid' = fileid
    BY <1>5 DEF SendMeta, fileid
  <2>3. PICK S : metas \in Seq(S) /\ "END" \notin S
    BY <2>2 DEF Protocol, MetaLeft
  <2>4. Head(metas) \in S /\ metas' \in Seq(S)
    BY <2>2, <2>3
  <2>5. Opens(p)
    BY <2>1, <2>3, <2>4 DEF Opens
  <2> HIDE DEF p
  <2> QED
    BY <1>1, <2>1, <2>2, <2>3, <2>4, <2>5, PutFollows
<1>6. CASE SendMetaEnd
  <2> DEFINE p == MetaPacket(fileid, "END")
  <2>1. p.type = "FILE_META" /\ p.file = fileid /\ p.meta = "END"
    BY DEF MetaPacket
  <2>2. pc = "meta" /\ pc' \in {"extents", "end"} /\ Put(p)
    BY <1>6 DEF SendMetaEnd
  <2> HIDE DEF p
  <2> QED
    BY <1>1, <2>1, <2>2, PutFollows DEF Opens
<1>7. CASE PutsOne
  <2>1. InCall /\ pc \notin {"new", "meta", "failed"} /\ pc' \notin {"new", "meta"}
    <3>1. CASE SendShared
      BY <3>1 DEF SendShared, SendNewShared, SendAvailShared, InCall
    <3>2. CASE ~ SendShared
      BY <1>7, <3>2 DEF PutsOne, SendHole, SendExplicitCopy, SendUnshared, SendTrailingHole,
                        AtExtent, NoMoreExtents, InCall
    <3> QED
      BY <3>1, <3>2
  <2>2. CASE UNCHANGED stream
    BY <2>1, <2>2, QuietFollows DEF InCall
  <2>3. ASSUME NEW p, PutsExtent(p) PROVE Protocol'
    <3>1. Put(p) /\ p.type = "EXTENT"
      BY <2>3 DEF PutsExtent
    <3> QED
      BY <1>1, <2>1, <3>1, PutFollows DEF Opens
  <2> QED
    BY <1>7, <2>1, <2>2, <2>3, ExtentsPut
<1>8. CASE SendFileEnd
  <2> DEFINE p == EndPacket(fileid)
  <2>1. p.type = "FILE_END"
    BY DEF EndPacket
  <2>2. Put(p) /\ pc \in {"extents", "end"} /\ pc' = "idle"
    BY <1>8 DEF SendFileEnd, NoMoreExtents
  <2> HIDE DEF p
  <2> QED
    BY <1>1, <2>1, <2>2, PutFollows DEF Opens
<1>9. CASE SendSnapshots
  <2> DEFINE p == SnapshotPacket(fileid)
  <2>1. p.type = "SNAPSHOT_LIST" /\ p.file = fileid
    BY DEF SnapshotPacket
  <2>2. Put(p) /\ pc = "idle" /\ pc' = pc /\ calls > 0 /\ IsNew(calls)
    BY <1>9 DEF SendSnapshots, IsNew, file
  <2> HIDE DEF p
  <2>3. \E j \in DOMAIN stream : Announces(j) /\ stream[j].file = p.file
    BY <2>1, <2>2, BeganAnnounced
  <2> QED
    BY <1>1, <2>1, <2>2, <2>3, PutFollows DEF Opens
<1>10. CASE NextExtents \/ AskMap \/ SharedDone \/ LoseTrailingHole \/ Fail
  <2>1. /\ UNCHANGED stream
        /\ pc' = "failed" \/ (pc \notin {"new", "meta", "failed"} /\ pc' \notin {"meta", "new"})
    BY <1>10 DEF NextExtents, AskMap, AtExtent, SharedDone, LoseTrailingHole, NoMoreExtents, Fail
  <2> QED
    BY <2>1, QuietFollows
<1>11. CASE UNCHANGED vars
  <2>1. UNCHANGED <<stream, pc, metas, ids, calls>>
    BY <1>11 DEF vars
  <2>2. \A i : (KnownAt(i)' <=> KnownAt(i)) /\ (FollowsAt(i)' <=> FollowsAt(i))
    BY <2>1 DEF KnownAt, AnnouncedBefore, Announces, FollowsAt, Is, Opens
  <2>3. (Opens(stream[Len(stream)])' <=> Opens(stream[Len(stream)])) /\ (MetaLeft' <=> MetaLeft)
    BY <2>1 DEF Opens, MetaLeft, fileid
  <2> QED
    BY <2>1, <2>2, <2>3 DEF Protocol
<1> QED
  BY <1>2, <1>3, <1>4, <1>5, <1>6, <1>7, <1>8, <1>9, <1>10, <1>11 DEF Next, Step, PutsOne

\* And the empty stream does.
LEMMA InitProtocol == Init => Protocol
<1> SUFFICES ASSUME Init PROVE Protocol
  OBVIOUS
<1>1. stream = <<>> /\ pc = "new" /\ DOMAIN stream = {} /\ Len(stream) = 0
  BY DEF Init
<1> QED
  BY <1>1 DEF Protocol

------------------------------------------------------------------------------
\* What is known of the writer.
WriterIsRight == Laid /\ Sending /\ Copying /\ Meaning /\ Protocol

\* No two files have the same id, but for hard links.
LEMMA UniqueIds ==
    ASSUME Order, NEW i \in 1 .. calls, NEW k \in 1 .. calls, IsNew(i), IsNew(k), ids[i] = ids[k]
    PROVE  i = k
<1>1. i \in Nat /\ k \in Nat /\ ids[i] \in Nat
  BY PlanOfCalls DEF Order, Control
<1>2. ~ (i < k) /\ ~ (k < i)
  BY <1>1 DEF Order, IdsGrow
<1> QED
  BY <1>1, <1>2

\* Packets belong to the files that the stream has announced.
LEMMA PacketsKnown ==
    ASSUME WriterIsRight, NEW n \in DOMAIN stream
    PROVE  /\ KnownAt(n)
           /\ Is(n, "EXTENT") \/ Is(n, "FILE_END") \/ Is(n, "SNAPSHOT_LIST") => AnnouncedBefore(stream[n].file, n)
           /\ Is(n, "FILE") => (AnnouncedBefore(stream[n].file, n) <=> stream[n].mode = "HARD")
<1>1. WholeAt(n) /\ KnownAt(n)
  BY WholeIsWholeAt DEF WriterIsRight, Laid, Order, AllWhole, Protocol
<1> QED
  BY <1>1 DEF WholeAt, AnnouncedBefore, KnownAt, Is

\* What the stream has announced are files of the plan.
LEMMA AnnouncedIs ==
    ASSUME WriterIsRight, NEW j \in DOMAIN stream, Announces(j)
    PROVE  \E i \in 1 .. calls :
             /\ IsNew(i) /\ stream[j].file = ids[i] /\ ids[i] \in File
             /\ stream[j].mode = files[i].mode /\ stream[j].size = files[i].size
<1>1. PICK i \in 1 .. calls : IsNew(i) /\ stream[j] = FilePacket(ids[i], files[i].mode, files[i].size)
  BY DEF WriterIsRight, Laid, Order, Announced
<1>2. ids[i] \in File
  BY IdsAreFiles DEF WriterIsRight, Laid
<1> QED
  BY <1>1, <1>2 DEF FilePacket

\* The stream is a sequence.
LEMMA StreamLength == ASSUME WriterIsRight PROVE Len(stream) \in Nat /\ DOMAIN stream = 1 .. Len(stream)
  BY LenProperties DEF WriterIsRight, Laid, Order, WriterType

\* The source of a copy is announced before it.
LEMMA SourceIsAnnounced ==
    ASSUME WriterIsRight, NEW n \in DOMAIN stream, Is(n, "EXTENT"), stream[n].flags = "COPY"
    PROVE  AnnouncedBefore(stream[n].source, n)
<1>1. PICK i \in 1 .. calls : Gives(stream[n], i)
  BY DEF WriterIsRight, Meaning, AllGiven
<1>2. stream[n].length > 0 /\ stream[n].length \in Nat
  BY <1>1 DEF Gives, GivesBytes
<1>3. 0 \in 0 .. stream[n].length - 1
  BY <1>2
<1>4. IsThere(stream[n].source, stream[n].source_offset + 0, n)
  BY <1>3 DEF WriterIsRight, Copying, CopiesReferBack
<1>5. PICK j \in 1 .. n - 1 : ThereBy(j, stream[n].source, stream[n].source_offset + 0)
  BY <1>4, ThereIs DEF ThereIsThere
<1>6. j \in DOMAIN stream /\ j < n /\ n \in Nat
  BY StreamLength
<1>7. CASE Is(j, "FILE")
  <2>1. Announces(j) /\ stream[j].file = stream[n].source
    BY <1>5, <1>7 DEF ThereBy, Announces, Is, Covers, Ends
  <2> QED
    BY <2>1 DEF AnnouncedBefore
<1>8. CASE ~ Is(j, "FILE")
  <2>1. stream[j].file = stream[n].source /\ (Is(j, "EXTENT") \/ Is(j, "FILE_END"))
    BY <1>5, <1>8 DEF ThereBy, Covers, Ends, Is
  <2>2. AnnouncedBefore(stream[j].file, j)
    BY <1>6, <2>1, PacketsKnown
  <2>3. PICK h \in 1 .. j - 1 : Announces(h) /\ stream[h].file = stream[j].file
    BY <2>2 DEF AnnouncedBefore
  <2>4. h \in 1 .. n - 1
    BY <1>6
  <2> QED
    BY <2>1, <2>3, <2>4 DEF AnnouncedBefore
<1> QED
  BY <1>7, <1>8
------------------------------------------------------------------------------
\* The packets that the reader is done with, and those that its state takes.
Handled == IF state \in {"Header", "Begin"} THEN pos ELSE pos - 1

\* State s is one for packet p.
Takes(s, p) ==
    /\ s = "NewFile_Get" => p.type = "FILE"
    /\ s = "FileMeta_Get" => p.type = "FILE_META"
    /\ s = "FileEnd" => p.type = "FILE_END"
    /\ s = "SnapshotList" => p.type = "SNAPSHOT_LIST"
    /\ s \in {"Extent_Get", "Extent_GetCopyInfo", "Extent_Read", "Extent_ZeroOut", "Extent_PunchHole"} =>
         p.type = "EXTENT"
    /\ s = "Extent_GetCopyInfo" => p.flags = "COPY"
    /\ s = "Extent_Read" => p.flags = "DATA"
    /\ s = "Extent_ZeroOut" => p.flags = "ZERO"
    /\ s = "Extent_PunchHole" => p.flags = "HOLE"

\* The state is one for the packet the reader is at.
StateFits ==
    /\ pos \in 0 .. Len(stream)
    /\ state \in {"Header", "Begin", "NewFile_Get", "FileMeta_Get", "FileEnd", "SnapshotList", "Extent_Get",
                  "Extent_GetCopyInfo", "Extent_Read", "Extent_ZeroOut", "Extent_PunchHole"}
    /\ state = "Header" <=> pos = 0
    /\ pos > 0 => Takes(state, stream[pos])
    /\ extent_at \in Nat
    /\ state \in {"Extent_Read", "Extent_ZeroOut"} => extent_at <= stream[pos].length

\* The reader knows the files that were announced up to there,
OpenedRight ==
    /\ \A f : f \in DOMAIN opened <=> AnnouncedBefore(f, Handled + 1)
    /\ \A j \in 1 .. Handled : Announces(j) =>
         opened[stream[j].file].size = stream[j].size /\ opened[stream[j].file].handle \in BOOLEAN

\* waits for meta data when some come next,
MetaRight ==
    IF Handled > 0 /\ Opens(stream[Handled]) THEN newfile = stream[Handled].file /\ newfile # Nothing
                                             ELSE newfile = Nothing

\* has finished what has ended,
DoneRight == \A f : f \in done <=> \E j \in 1 .. Handled : Ends(j, f)

\* and comes to the end of a whole stream behind its last packet.
EndRight ==
    /\ err # "stream"
    /\ eof /\ closed = "whole" => pos = Len(stream) /\ state \in {"Header", "Begin"}
    /\ IF closed = "open" THEN Reader!Start ELSE closed \in {"whole", "cut"} /\ stream # <<>>

\* Where the reader is in the stream.
ReaderIsRight == StateFits /\ OpenedRight /\ MetaRight /\ DoneRight /\ EndRight

\* At the start it is nowhere.
LEMMA StartIsRight ==
    ASSUME WriterIsRight, Reader!Start, closed = "open" \/ (closed \in {"whole", "cut"} /\ stream # <<>>)
    PROVE  ReaderIsRight
<1>1. /\ pos = 0 /\ state = "Header" /\ newfile = Nothing /\ DOMAIN opened = {} /\ extent_at = 0
      /\ err = "none" /\ eof = FALSE /\ done = {}
  BY DEF Reader!Start
<1>2. Handled = 0
  BY <1>1 DEF Handled
<1>3. StateFits
  BY <1>1, StreamLength DEF StateFits
<1>4. OpenedRight /\ MetaRight /\ DoneRight
  BY <1>1, <1>2 DEF OpenedRight, AnnouncedBefore, MetaRight, DoneRight
<1> QED
  BY <1>1, <1>3, <1>4 DEF ReaderIsRight, EndRight

------------------------------------------------------------------------------
\* The writer's side stays as it is while the stream is read.
LEMMA WriterStays ==
    ASSUME UNCHANGED vars
    PROVE  /\ stream' = stream
           /\ \A i : /\ Announces(i)' <=> Announces(i)
                     /\ \A f : Ends(i, f)' <=> Ends(i, f)
                     /\ \A f : AnnouncedBefore(f, i)' <=> AnnouncedBefore(f, i)
                     /\ \A type : Is(i, type)' <=> Is(i, type)
  BY DEF vars, Announces, Ends, AnnouncedBefore, Is

\* An iterate that only waits, or fails.
LEMMA QuietRight ==
    ASSUME ReaderIsRight, UNCHANGED <<vars, closed, pos, state, newfile, opened, extent_at, eof, done>>,
           err' # "stream", closed # "open"
    PROVE  ReaderIsRight'
<1>1. Handled' = Handled /\ Opens(stream[Handled])' = Opens(stream[Handled]) /\ stream' = stream
  BY DEF Handled, Opens, vars
<1>2. StateFits'
  BY <1>1 DEF ReaderIsRight, StateFits, Takes
<1>3. OpenedRight'
  BY <1>1, WriterStays DEF ReaderIsRight, OpenedRight
<1>4. MetaRight'
  BY <1>1 DEF ReaderIsRight, MetaRight
<1>5. DoneRight'
  BY <1>1, WriterStays DEF ReaderIsRight, DoneRight
<1>6. EndRight'
  BY <1>1 DEF ReaderIsRight, EndRight
<1> QED
  BY <1>2, <1>3, <1>4, <1>5, <1>6 DEF ReaderIsRight

\* The reader goes on with the same packet.
LEMMA WithinRight ==
    ASSUME WriterIsRight, ReaderIsRight, pos > 0, state \notin {"Header", "Begin"},
           UNCHANGED <<vars, closed, pos, newfile, opened, eof, done>>,
           ~ eof, err' # "stream", closed # "open",
           state' \in {"Extent_GetCopyInfo", "Extent_Read", "Extent_ZeroOut", "Extent_PunchHole"},
           Takes(state', stream[pos]), extent_at' \in Nat,
           state' \in {"Extent_Read", "Extent_ZeroOut"} => extent_at' <= stream[pos].length
    PROVE  ReaderIsRight' /\ Handled' = Handled
<1>1. Handled' = Handled /\ stream' = stream
  BY DEF Handled, vars
<1>2. Opens(stream[Handled])' = Opens(stream[Handled])
  BY <1>1 DEF Opens
<1>3. StateFits'
  BY <1>1 DEF ReaderIsRight, StateFits, Takes
<1>4. OpenedRight'
  BY <1>1, WriterStays DEF ReaderIsRight, OpenedRight
<1>5. MetaRight'
  BY <1>1, <1>2 DEF ReaderIsRight, MetaRight
<1>6. DoneRight'
  BY <1>1, WriterStays DEF ReaderIsRight, DoneRight
<1>7. EndRight'
  BY <1>1 DEF ReaderIsRight, EndRight
<1> QED
  BY <1>1, <1>3, <1>4, <1>5, <1>6, <1>7 DEF ReaderIsRight

\* The reader is done with the packet.
LEMMA FinishRight ==
    ASSUME WriterIsRight, ReaderIsRight, pos > 0, state \notin {"Header", "Begin"},
           UNCHANGED <<vars, closed, pos, eof>>, ~ eof, err' # "stream", closed # "open",
           state' = "Begin", extent_at' \in Nat,
           \A f : f \in DOMAIN opened' <=> f \in DOMAIN opened \/ (Announces(pos) /\ stream[pos].file = f),
           \A f \in DOMAIN opened : opened'[f] = opened[f],
           Announces(pos) => /\ opened'[stream[pos].file].size = stream[pos].size
                             /\ opened'[stream[pos].file].handle \in BOOLEAN,
           IF Opens(stream[pos]) THEN newfile' = stream[pos].file /\ newfile' # Nothing ELSE newfile' = Nothing,
           \A f : f \in done' <=> f \in done \/ Ends(pos, f)
    PROVE  ReaderIsRight' /\ Handled' = pos /\ Handled = pos - 1
<1>1. pos \in Nat /\ pos \in DOMAIN stream /\ pos \in 1 .. Len(stream)
  BY StreamLength DEF ReaderIsRight, StateFits
<1>2. stream' = stream /\ Handled' = pos /\ Handled = pos - 1 /\ Handled + 1 = pos
  BY <1>1 DEF Handled, vars
<1>3. Opens(stream[Handled])' = Opens(stream[pos])
  BY <1>2 DEF Opens
<1>4. StateFits'
  BY <1>1, <1>2 DEF ReaderIsRight, StateFits, Takes
<1>5. \A f : f \in DOMAIN opened' <=> AnnouncedBefore(f, pos + 1)
  <2> SUFFICES ASSUME NEW f PROVE f \in DOMAIN opened' <=> AnnouncedBefore(f, pos + 1)
    OBVIOUS
  <2>1. f \in DOMAIN opened <=> AnnouncedBefore(f, pos)
    BY <1>2 DEF ReaderIsRight, OpenedRight
  <2>2. 1 .. (pos + 1) - 1 = (1 .. pos - 1) \cup {pos}
    BY <1>1
  <2> QED
    BY <2>1, <2>2 DEF AnnouncedBefore
<1>6. \A j \in 1 .. pos : Announces(j) =>
        opened'[stream[j].file].size = stream[j].size /\ opened'[stream[j].file].handle \in BOOLEAN
  <2> SUFFICES ASSUME NEW j \in 1 .. pos, Announces(j)
               PROVE  opened'[stream[j].file].size = stream[j].size /\ opened'[stream[j].file].handle \in BOOLEAN
    OBVIOUS
  <2>1. CASE j = pos
    BY <2>1
  <2>2. CASE j # pos
    <3>1. j \in 1 .. pos - 1
      BY <1>1, <2>2
    <3>2. stream[j].file \in DOMAIN opened
      BY <1>2, <3>1 DEF ReaderIsRight, OpenedRight, AnnouncedBefore
    <3> QED
      BY <1>2, <3>1, <3>2 DEF ReaderIsRight, OpenedRight
  <2> QED
    BY <2>1, <2>2
<1>7. OpenedRight'
  BY <1>2, <1>5, <1>6, WriterStays DEF OpenedRight
<1>8. MetaRight'
  BY <1>1, <1>2, <1>3 DEF MetaRight
<1>9. DoneRight'
  <2>1. \A f : f \in done <=> \E j \in 1 .. pos - 1 : Ends(j, f)
    BY <1>2 DEF ReaderIsRight, DoneRight
  <2>2. 1 .. pos = (1 .. pos - 1) \cup {pos}
    BY <1>1
  <2> QED
    BY <1>2, <2>1, <2>2, WriterStays DEF DoneRight
<1>10. EndRight'
  BY <1>2 DEF ReaderIsRight, EndRight
<1> QED
  BY <1>2, <1>4, <1>7, <1>8, <1>9, <1>10 DEF ReaderIsRight

\* The current packet follows what the reader expects: nothing but meta data when
\* it waits for them.
LEMMA CurrentExpected ==
    ASSUME WriterIsRight, ReaderIsRight, pos > 0, state \notin {"Header", "Begin"},
           ~ Is(pos, "FILE_META")
    PROVE  newfile = Nothing
<1>1. pos \in 1 .. Len(stream) /\ pos \in Nat /\ Len(stream) \in Nat
  BY StreamLength DEF ReaderIsRight, StateFits
<1>2. Handled = pos - 1
  BY DEF Handled
<1>3. CASE Handled > 0
  <2>1. Handled \in 1 .. Len(stream) - 1 /\ Handled + 1 = pos
    BY <1>1, <1>2, <1>3
  <2>2. FollowsAt(Handled)
    BY <2>1 DEF WriterIsRight, Protocol
  <2> QED
    BY <2>1, <2>2 DEF FollowsAt, ReaderIsRight, MetaRight
<1>4. CASE ~ (Handled > 0)
  BY <1>4 DEF ReaderIsRight, MetaRight
<1> QED
  BY <1>3, <1>4

------------------------------------------------------------------------------
\* What each of the reader's actions does.
LEMMA ReadHeaderRight ==
    ASSUME WriterIsRight, ReaderIsRight, closed # "open", UNCHANGED vars, Reader!doReadHeader
    PROVE  ReaderIsRight' /\ Handled = 0 /\ Handled' = 1 /\ Is(1, "HEADER") /\ UNCHANGED <<opened, data, extent_at>> /\ state' = "Begin"
<1>1. state = "Header" /\ pos = 0 /\ pos < Len(stream) /\ 1 \in DOMAIN stream /\ err = "none" /\ ~ eof
  BY StreamLength DEF Reader!doReadHeader, Reader!In, Reader!Running, ReaderIsRight, StateFits
<1>2. Is(1, "HEADER")
  BY <1>1, PacketsKnown DEF KnownAt, Is
<1>3. /\ pos' = 1 /\ state' = "Begin"
      /\ UNCHANGED <<stream, closed, newfile, opened, extent_at, err, eof, data, done>>
  BY <1>2 DEF Reader!doReadHeader, Reader!input_vars, Is
<1>4. Handled = 0 /\ Handled' = 1
  BY <1>1, <1>3 DEF Handled
<1>5. ~ Announces(1) /\ ~ Opens(stream[1]) /\ \A f : ~ Ends(1, f)
  BY <1>2 DEF Announces, Opens, Ends, Is
<1>6. StateFits'
  BY <1>1, <1>3, StreamLength DEF ReaderIsRight, StateFits, Takes
<1>7. \A f : ~ AnnouncedBefore(f, 1) /\ ~ AnnouncedBefore(f, 2)
  BY <1>5 DEF AnnouncedBefore
<1>8. DOMAIN opened = {} /\ newfile = Nothing
  <2>1. \A f : f \notin DOMAIN opened
    BY <1>4, <1>7 DEF ReaderIsRight, OpenedRight
  <2>2. newfile = Nothing
    BY <1>4 DEF ReaderIsRight, MetaRight
  <2>3. DOMAIN opened = {}
    BY <2>1
  <2> QED
    BY <2>2, <2>3
<1>9. OpenedRight'
  BY <1>3, <1>4, <1>5, <1>7, <1>8, WriterStays DEF OpenedRight
<1>10. MetaRight'
  BY <1>3, <1>4, <1>5, <1>8 DEF MetaRight, Opens
<1>11. DoneRight'
  BY <1>3, <1>4, <1>5, WriterStays DEF ReaderIsRight, DoneRight
<1>12. EndRight'
  BY <1>1, <1>3 DEF ReaderIsRight, EndRight
<1> QED
  BY <1>2, <1>3, <1>4, <1>6, <1>9, <1>10, <1>11, <1>12 DEF ReaderIsRight

\* The next packet's header is read.
LEMMA ReadPacketRight ==
    ASSUME WriterIsRight, ReaderIsRight, closed # "open", UNCHANGED vars, Reader!readPacket
    PROVE  /\ ReaderIsRight' /\ Handled' = Handled /\ UNCHANGED <<opened, data, extent_at>> /\ state = "Begin"
           /\ state' \notin {"Extent_Read", "Extent_ZeroOut"}
<1> DEFINE n == pos + 1
           t == stream[n].type
<1>1. state = "Begin" /\ pos < Len(stream) /\ pos \in Nat /\ pos > 0 /\ n \in DOMAIN stream /\ err = "none" /\ ~ eof
  BY StreamLength DEF Reader!readPacket, Reader!In, Reader!Running, ReaderIsRight, StateFits
<1>2. /\ pos' = n
      /\ state' = IF t = "END" /\ newfile = Nothing THEN "Botched" ELSE Reader!NextState(t)
      /\ eof' = (t = "END" /\ newfile = Nothing)
      /\ err' = IF state' = "Botched" /\ ~ eof' THEN "stream" ELSE err
      /\ UNCHANGED <<stream, closed, newfile, opened, extent_at, data, done>>
  BY DEF Reader!readPacket, Reader!input_vars
<1>3. t \in {"FILE", "FILE_META", "FILE_END", "EXTENT", "SNAPSHOT_LIST"}
  BY <1>1, PacketsKnown DEF KnownAt
<1>4. Handled = pos /\ pos \in 1 .. Len(stream) - 1
  BY <1>1, StreamLength DEF Handled
<1>5. (newfile # Nothing) <=> t = "FILE_META"
  <2>1. FollowsAt(pos)
    BY <1>4 DEF WriterIsRight, Protocol
  <2>2. Opens(stream[pos]) <=> t = "FILE_META"
    BY <2>1 DEF FollowsAt, Is
  <2> QED
    BY <1>1, <1>4, <2>2 DEF ReaderIsRight, MetaRight
<1> HIDE DEF t
<1>6. /\ t = "FILE" => state' = "NewFile_Get"
      /\ t = "FILE_META" => state' = "FileMeta_Get"
      /\ t = "FILE_END" => state' = "FileEnd"
      /\ t = "EXTENT" => state' = "Extent_Get"
      /\ t = "SNAPSHOT_LIST" => state' = "SnapshotList"
  <2>1. t # "END" /\ state' = Reader!NextState(t) /\ ~ ((newfile # Nothing) # (t = "FILE_META"))
    BY <1>2, <1>3, <1>5
  <2>2. CASE t = "FILE"
    BY <2>1, <2>2, Zenon DEF Reader!NextState
  <2>3. CASE t = "FILE_META"
    BY <2>1, <2>3, Zenon DEF Reader!NextState
  <2>4. CASE t = "FILE_END"
    BY <2>1, <2>4, Zenon DEF Reader!NextState
  <2>5. CASE t = "EXTENT"
    BY <2>1, <2>5, Zenon DEF Reader!NextState
  <2>6. CASE t = "SNAPSHOT_LIST"
    BY <2>1, <2>6, Zenon DEF Reader!NextState
  <2> QED
    BY <1>3, <2>2, <2>3, <2>4, <2>5, <2>6
<1>7. state' \in {"NewFile_Get", "FileMeta_Get", "FileEnd", "Extent_Get", "SnapshotList"} /\ Takes(state', stream[n])
  BY <1>3, <1>6 DEF Takes, t
<1>8. ~ eof' /\ err' = "none"
  BY <1>1, <1>2, <1>3, <1>7
<1>9. Handled' = pos
  BY <1>1, <1>2, <1>7 DEF Handled
<1>10. StateFits'
  <2>1. pos' \in 0 .. Len(stream) /\ pos' # 0
    BY <1>1, <1>2, StreamLength
  <2> QED
    BY <1>2, <1>7, <2>1 DEF ReaderIsRight, StateFits, Takes
<1>11. OpenedRight'
  BY <1>2, <1>4, <1>9, WriterStays DEF ReaderIsRight, OpenedRight
<1>12. MetaRight'
  <2> Opens(stream[Handled])' = Opens(stream[Handled])
    BY <1>2, <1>4, <1>9 DEF Opens
  <2> QED
    BY <1>2, <1>4, <1>9 DEF ReaderIsRight, MetaRight
<1>13. DoneRight'
  BY <1>2, <1>4, <1>9, WriterStays DEF ReaderIsRight, DoneRight
<1>14. EndRight'
  BY <1>2, <1>8 DEF ReaderIsRight, EndRight
<1> QED
  BY <1>1, <1>2, <1>4, <1>7, <1>9, <1>10, <1>11, <1>12, <1>13, <1>14 DEF ReaderIsRight

\* There is nothing left to be read.
LEMMA ReadsEndRight ==
    ASSUME WriterIsRight, ReaderIsRight, closed # "open", UNCHANGED vars, Reader!InputEnds
    PROVE  ReaderIsRight' /\ UNCHANGED <<opened, data, extent_at, state, pos>>
<1>1. UNCHANGED <<stream, closed, pos, state, newfile, opened, extent_at, err, data, done>>
  BY DEF Reader!InputEnds, Reader!input_vars
<1>2. closed = "whole" => pos = Len(stream) /\ state \in {"Header", "Begin"}
  BY DEF Reader!InputEnds, Reader!BodyThere
<1>3. Handled' = Handled /\ Opens(stream[Handled])' = Opens(stream[Handled])
  BY <1>1 DEF Handled, Opens
<1>4. StateFits' /\ OpenedRight' /\ MetaRight' /\ DoneRight'
  BY <1>1, <1>3, WriterStays DEF ReaderIsRight, StateFits, Takes, OpenedRight, MetaRight, DoneRight
<1>5. EndRight'
  BY <1>1, <1>2 DEF ReaderIsRight, EndRight
<1> QED
  BY <1>1, <1>4, <1>5 DEF ReaderIsRight

\* Nothing that matters to the data changes; the current packet is done.
Stays == UNCHANGED <<pos, state, opened, extent_at, data>>

\* The current packet is done.
Finishes ==
    /\ pos \in DOMAIN stream /\ pos' = pos /\ state' = "Begin"
    /\ Handled = pos - 1 /\ Handled' = pos /\ state \notin {"Header", "Begin"}

\* A file is created, referred to or linked, or its callback fails.
LEMMA NewFileRight ==
    ASSUME WriterIsRight, ReaderIsRight, closed # "open", UNCHANGED vars, Reader!newFileCreate
    PROVE  /\ ReaderIsRight' /\ Is(pos, "FILE")
           /\ \/ Stays
              \/ Finishes /\ stream[pos].mode = "HARD" /\ UNCHANGED <<opened, data>>
              \/ /\ Finishes /\ Announces(pos) /\ stream[pos].file \notin DOMAIN opened
                 /\ DOMAIN opened' = DOMAIN opened \cup {stream[pos].file}
                 /\ \A f \in DOMAIN opened : opened'[f] = opened[f]
                 /\ data' = IF opened'[stream[pos].file].handle
                            THEN [data EXCEPT ![stream[pos].file] =
                                    Reader!Fresh(stream[pos].file, stream[pos].mode, stream[pos].size)]
                            ELSE data
<1> DEFINE f == stream[pos].file
           mode == stream[pos].mode
<1>1. state = "NewFile_Get" /\ pos > 0 /\ err = "none" /\ ~ eof
  BY DEF Reader!newFileCreate, Reader!Get, Reader!In, Reader!Running, ReaderIsRight, StateFits
<1>2. pos \in DOMAIN stream /\ Is(pos, "FILE") /\ Handled + 1 = pos
  BY <1>1, StreamLength DEF ReaderIsRight, StateFits, Takes, Is, Handled
<1>3. newfile = Nothing
  BY <1>1, <1>2, CurrentExpected DEF Is
<1>4. f \in DOMAIN opened <=> mode = "HARD"
  BY <1>2, PacketsKnown DEF ReaderIsRight, OpenedRight
<1>5. ~ Ends(pos, f) /\ \A g : ~ Ends(pos, g)
  BY <1>2 DEF Ends, Is
<1>6. Reader!pkt = stream[pos]
  BY DEF Reader!pkt
<1>7. extent_at \in Nat
  BY DEF ReaderIsRight, StateFits
<1>8. CASE mode = "HARD"
  <2>1. ~ Announces(pos) /\ ~ Opens(stream[pos])
    BY <1>2, <1>8 DEF Announces, Opens, Is
  <2>2. CASE opened[f].handle
    <3>1. /\ Reader!Return("Begin", "more") /\ UNCHANGED <<newfile, opened, extent_at, data, done>>
      BY <1>4, <1>6, <1>8, <2>2 DEF Reader!newFileCreate, Reader!Known
    <3>2. state' = "Begin" /\ UNCHANGED <<closed, pos, eof>> /\ err' \in {"none", "botched"}
      BY <1>1, <3>1 DEF Reader!Return, Reader!input_vars
    <3> QED
      BY <1>1, <1>2, <1>3, <1>5, <1>7, <1>8, <2>1, <3>1, <3>2, FinishRight DEF Finishes
  <2>3. CASE ~ opened[f].handle
    <3>1. Reader!Throw("callback")
      BY <1>4, <1>6, <1>8, <2>3 DEF Reader!newFileCreate, Reader!Known
    <3>2. /\ UNCHANGED <<closed, pos, state, newfile, opened, extent_at, eof, done, data>> /\ err' # "stream"
      BY <3>1 DEF Reader!Throw, Reader!input_vars
    <3> QED
      BY <1>2, <3>2, QuietRight DEF Stays
  <2> QED
    BY <2>2, <2>3
<1>9. CASE mode # "HARD"
  <2>1. Announces(pos)
    BY <1>2, <1>9 DEF Announces
  <2>2. f \in File /\ f # Nothing
    BY <1>2, <2>1, AnnouncedIs, TransfersAssumption
  <2>3. PICK handle \in BOOLEAN :
          /\ opened' = [g \in DOMAIN opened \cup {f} |->
                          IF g = f THEN [size |-> stream[pos].size, handle |-> handle] ELSE opened[g]]
          /\ newfile' = IF mode = "REF" THEN newfile ELSE f
          /\ data' = IF handle THEN [data EXCEPT ![f] = Reader!Fresh(f, mode, stream[pos].size)] ELSE data
          /\ Reader!Return("Begin", "more")
          /\ UNCHANGED <<extent_at, done>>
    BY <1>4, <1>6, <1>9 DEF Reader!newFileCreate, Reader!Known
  <2>4. state' = "Begin" /\ UNCHANGED <<closed, pos, eof>> /\ err' \in {"none", "botched"}
    BY <1>1, <2>3 DEF Reader!Return, Reader!input_vars
  <2>5. Opens(stream[pos]) <=> mode # "REF"
    BY <1>2, <1>9 DEF Opens, Is
  <2>6. /\ DOMAIN opened' = DOMAIN opened \cup {f} /\ \A g \in DOMAIN opened : opened'[g] = opened[g]
        /\ opened'[f].size = stream[pos].size /\ opened'[f].handle = handle
    BY <1>4, <1>9, <2>3
  <2> QED
    BY <1>1, <1>2, <1>3, <1>4, <1>5, <1>7, <1>9, <2>1, <2>2, <2>3, <2>4, <2>5, <2>6, FinishRight DEF Finishes
<1> QED
  BY <1>8, <1>9

\* The meta data belong to the file that waits for them.
LEMMA FileMetaRight ==
    ASSUME WriterIsRight, ReaderIsRight, closed # "open", UNCHANGED vars, Reader!handleFileMeta
    PROVE  ReaderIsRight' /\ Finishes /\ Is(pos, "FILE_META") /\ UNCHANGED <<opened, data>>
<1>1. state = "FileMeta_Get" /\ pos > 0 /\ err = "none" /\ ~ eof
  BY DEF Reader!handleFileMeta, Reader!Get, Reader!In, Reader!Running, ReaderIsRight, StateFits
<1>2. pos \in DOMAIN stream /\ Is(pos, "FILE_META") /\ Handled + 1 = pos /\ Handled = pos - 1 /\ pos \in 1 .. Len(stream)
  BY <1>1, StreamLength DEF ReaderIsRight, StateFits, Takes, Is, Handled
<1>3. stream[pos].file = newfile /\ newfile # Nothing
  <2>1. KnownAt(pos)
    BY <1>2, PacketsKnown
  <2>2. pos # 1
    BY <1>2, <2>1 DEF KnownAt, Is
  <2>3. Handled \in 1 .. Len(stream) - 1 /\ Handled > 0
    BY <1>2, <2>2, StreamLength
  <2>4. FollowsAt(Handled)
    BY <2>3 DEF WriterIsRight, Protocol
  <2> QED
    BY <1>2, <2>3, <2>4 DEF FollowsAt, ReaderIsRight, MetaRight
<1>4. Reader!pkt = stream[pos] /\ ~ Announces(pos) /\ \A g : ~ Ends(pos, g)
  BY <1>2 DEF Reader!pkt, Announces, Ends, Is
<1>5. PICK r \in {"more", "again", "error"} :
        /\ newfile' = IF stream[pos].meta = "END" THEN Nothing ELSE newfile
        /\ Reader!Return("Begin", r) /\ UNCHANGED <<opened, extent_at, data, done>>
  BY <1>3, <1>4 DEF Reader!handleFileMeta
<1>6. state' = "Begin" /\ UNCHANGED <<closed, pos, eof>> /\ err' \in {"none", "botched"} /\ extent_at' \in Nat
  BY <1>1, <1>5 DEF Reader!Return, Reader!input_vars, ReaderIsRight, StateFits
<1>7. IF Opens(stream[pos]) THEN newfile' = stream[pos].file /\ newfile' # Nothing ELSE newfile' = Nothing
  BY <1>2, <1>3, <1>5 DEF Opens, Is
<1> QED
  BY <1>1, <1>2, <1>4, <1>5, <1>6, <1>7, FinishRight DEF Finishes

\* A file that ends is known.
LEMMA FileEndRight ==
    ASSUME WriterIsRight, ReaderIsRight, closed # "open", UNCHANGED vars, Reader!getFileEnd
    PROVE  ReaderIsRight' /\ Finishes /\ Is(pos, "FILE_END") /\ UNCHANGED <<opened, data>>
<1>1. state = "FileEnd" /\ pos > 0 /\ err = "none" /\ ~ eof
  BY DEF Reader!getFileEnd, Reader!Get, Reader!In, Reader!Running, ReaderIsRight, StateFits
<1>2. pos \in DOMAIN stream /\ Is(pos, "FILE_END") /\ Handled + 1 = pos
  BY <1>1, StreamLength DEF ReaderIsRight, StateFits, Takes, Is, Handled
<1>3. newfile = Nothing
  BY <1>1, <1>2, CurrentExpected DEF Is
<1>4. stream[pos].file \in DOMAIN opened
  BY <1>2, PacketsKnown DEF ReaderIsRight, OpenedRight
<1>5. Reader!pkt = stream[pos] /\ ~ Announces(pos) /\ ~ Opens(stream[pos]) /\ \A g : Ends(pos, g) <=> g = stream[pos].file
  BY <1>2 DEF Reader!pkt, Announces, Opens, Ends, Is
<1>6. /\ done' = done \cup {stream[pos].file}
      /\ Reader!Return("Begin", "more") /\ UNCHANGED <<newfile, opened, extent_at, data>>
  BY <1>4, <1>5 DEF Reader!getFileEnd, Reader!Known
<1>7. state' = "Begin" /\ UNCHANGED <<closed, pos, eof>> /\ err' \in {"none", "botched"} /\ extent_at' \in Nat
  BY <1>1, <1>6 DEF Reader!Return, Reader!input_vars, ReaderIsRight, StateFits
<1> QED
  BY <1>1, <1>2, <1>3, <1>5, <1>6, <1>7, FinishRight DEF Finishes

\* So is one with snapshots.
LEMMA SnapshotListRight ==
    ASSUME WriterIsRight, ReaderIsRight, closed # "open", UNCHANGED vars, Reader!getSnapshotList
    PROVE  ReaderIsRight' /\ Finishes /\ Is(pos, "SNAPSHOT_LIST") /\ UNCHANGED <<opened, data>>
<1>1. state = "SnapshotList" /\ pos > 0 /\ err = "none" /\ ~ eof
  BY DEF Reader!getSnapshotList, Reader!Get, Reader!In, Reader!Running, ReaderIsRight, StateFits
<1>2. pos \in DOMAIN stream /\ Is(pos, "SNAPSHOT_LIST") /\ Handled + 1 = pos
  BY <1>1, StreamLength DEF ReaderIsRight, StateFits, Takes, Is, Handled
<1>3. newfile = Nothing
  BY <1>1, <1>2, CurrentExpected DEF Is
<1>4. stream[pos].file \in DOMAIN opened
  BY <1>2, PacketsKnown DEF ReaderIsRight, OpenedRight
<1>5. Reader!pkt = stream[pos] /\ ~ Announces(pos) /\ ~ Opens(stream[pos]) /\ \A g : ~ Ends(pos, g)
  BY <1>2 DEF Reader!pkt, Announces, Opens, Ends, Is
<1>6. PICK r \in {"more", "again", "error"} : Reader!Return("Begin", r) /\ UNCHANGED <<newfile, opened, extent_at, data, done>>
  BY <1>4, <1>5 DEF Reader!getSnapshotList, Reader!Known
<1>7. state' = "Begin" /\ UNCHANGED <<closed, pos, eof>> /\ err' \in {"none", "botched"} /\ extent_at' \in Nat
  BY <1>1, <1>6 DEF Reader!Return, Reader!input_vars, ReaderIsRight, StateFits
<1> QED
  BY <1>1, <1>2, <1>3, <1>5, <1>6, <1>7, FinishRight DEF Finishes

------------------------------------------------------------------------------
\* The states of extents.
InExtent == state \in {"Extent_Get", "Extent_GetCopyInfo", "Extent_Read", "Extent_ZeroOut", "Extent_PunchHole"}

\* The current extent is one of a file that was announced, and fits into it.
LEMMA CurrentExtent ==
    ASSUME WriterIsRight, ReaderIsRight, InExtent
    PROVE  /\ pos \in DOMAIN stream /\ pos > 0 /\ Handled = pos - 1 /\ Is(pos, "EXTENT") /\ newfile = Nothing
           /\ Reader!pkt = stream[pos] /\ Reader!ExtentOK /\ stream[pos].file \in File
           /\ stream[pos].file \in DOMAIN opened /\ opened[stream[pos].file].handle \in BOOLEAN
           /\ stream[pos].flags = "COPY" => stream[pos].source \in DOMAIN opened
           /\ ~ Announces(pos) /\ ~ Opens(stream[pos]) /\ \A f : ~ Ends(pos, f)
           /\ \E i \in 1 .. calls : Gives(stream[pos], i) /\ IsNew(i) /\ ids[i] = stream[pos].file
<1>1. pos \in DOMAIN stream /\ pos > 0 /\ Handled = pos - 1 /\ Handled + 1 = pos /\ Is(pos, "EXTENT")
  BY StreamLength DEF InExtent, ReaderIsRight, StateFits, Takes, Is, Handled
<1>2. newfile = Nothing
  BY <1>1, CurrentExpected DEF InExtent, Is
<1>3. PICK i \in 1 .. calls : Gives(stream[pos], i)
  BY <1>1 DEF WriterIsRight, Meaning, AllGiven
<1>4. /\ ids[i] = stream[pos].file /\ IsNew(i) /\ files[i].mode = "REG"
      /\ stream[pos].flags \in {"DATA", "ZERO", "HOLE", "COPY"}
      /\ stream[pos].offset + stream[pos].length <= files[i].size
  BY <1>3 DEF Gives, GivesBytes, IsNew
<1>5. AnnouncedBefore(stream[pos].file, pos)
  BY <1>1, PacketsKnown
<1>6. PICK j \in 1 .. pos - 1 : Announces(j) /\ stream[j].file = stream[pos].file
  BY <1>5 DEF AnnouncedBefore
<1>7. j \in DOMAIN stream /\ j \in 1 .. Handled
  BY <1>1, <1>6, StreamLength
<1>8. PICK k \in 1 .. calls : IsNew(k) /\ stream[j].file = ids[k] /\ ids[k] \in File /\ stream[j].size = files[k].size
  BY <1>6, <1>7, AnnouncedIs
<1>9. k = i
  BY <1>4, <1>6, <1>8, UniqueIds DEF WriterIsRight, Laid
<1>10. opened[stream[pos].file].size = files[i].size /\ opened[stream[pos].file].handle \in BOOLEAN
  BY <1>6, <1>7, <1>8, <1>9 DEF ReaderIsRight, OpenedRight
<1>11. stream[pos].file \in DOMAIN opened /\ stream[pos].file \in File
  BY <1>1, <1>5, <1>6, <1>8 DEF ReaderIsRight, OpenedRight
<1>15. (stream[pos].offset + stream[pos].length) % Word = stream[pos].offset + stream[pos].length
  <2>1. stream[pos].offset + stream[pos].length \in Nat
    BY <1>3 DEF Gives
  <2>2. i \in DOMAIN files /\ IsTransfer(files)
    BY PlanOfCalls DEF WriterIsRight, Laid, Order, Control, Tiling, Tiled, Meaning
  <2>3. files[i].size \in Nat
    BY <1>4, PlanOfCalls DEF WriterIsRight, Laid, Order, Control, Tiling, Tiled, AreExtents
  <2>4. files[i].size <= LogSize
    BY <1>4, <2>2 DEF IsTransfer
  <2>5. Word \in Nat /\ LogSize < Word /\ LogSize \in Nat
    BY TransfersAssumption, SizeAssumption
  <2> QED
    BY <1>4, <2>1, <2>3, <2>4, <2>5
<1>12. Reader!pkt = stream[pos] /\ Reader!ExtentOK
  BY <1>4, <1>10, <1>11, <1>15 DEF Reader!pkt, Reader!ExtentOK, Reader!Known
<1>13. stream[pos].flags = "COPY" => stream[pos].source \in DOMAIN opened
  BY <1>1, SourceIsAnnounced DEF ReaderIsRight, OpenedRight
<1>14. ~ Announces(pos) /\ ~ Opens(stream[pos]) /\ \A f : ~ Ends(pos, f)
  BY <1>1 DEF Announces, Opens, Ends, Is
<1> QED
  BY <1>1, <1>2, <1>3, <1>4, <1>10, <1>11, <1>12, <1>13, <1>14

\* The extent is done, or its bytes up to there are.
GoesOnAt(n) ==
    /\ pos \in DOMAIN stream /\ pos' = pos /\ state' = state /\ Handled' = Handled /\ Handled = pos - 1
    /\ extent_at' = extent_at + n

\* An extent is done, at once or at last.
LEMMA ExtentDone ==
    ASSUME WriterIsRight, ReaderIsRight, closed # "open", UNCHANGED vars, InExtent, err = "none", ~ eof,
           Reader!Return("Begin", "more"), UNCHANGED <<newfile, opened, done>>, extent_at' \in Nat
    PROVE  ReaderIsRight' /\ Finishes
<1>1. state' = "Begin" /\ UNCHANGED <<closed, pos, eof>> /\ err' \in {"none", "botched"}
  BY DEF Reader!Return, Reader!input_vars
<1> QED
  BY <1>1, CurrentExtent, FinishRight DEF Finishes, InExtent

\* Some of an extent is done, or the rest of it.
LEMMA ExtentWrote ==
    ASSUME WriterIsRight, ReaderIsRight, closed # "open", UNCHANGED vars, state \in {"Extent_Read", "Extent_ZeroOut"},
           err = "none", ~ eof, NEW n \in Nat, n <= stream[pos].length - extent_at,
           NEW r, Reader!Wrote(n, r), UNCHANGED <<newfile, opened, done>>
    PROVE  ReaderIsRight' /\ \/ Finishes /\ n = stream[pos].length - extent_at
                             \/ GoesOnAt(n)
<1>1. /\ InExtent /\ extent_at \in Nat /\ pos > 0 /\ Takes(state, stream[pos])
  BY DEF InExtent, ReaderIsRight, StateFits
<1>2. Reader!remaining = stream[pos].length - extent_at
  BY DEF Reader!remaining, Reader!pkt
<1>3. stream[pos].length \in Nat
  BY <1>1, CurrentExtent DEF Gives
<1>4. CASE n = Reader!remaining
  <2>1. Reader!Return("Begin", "more") /\ UNCHANGED extent_at
    BY <1>4 DEF Reader!Wrote
  <2> QED
    BY <1>1, <1>2, <1>4, <2>1, ExtentDone
<1>5. CASE n # Reader!remaining
  <2>1. extent_at' = extent_at + n /\ Reader!Return(state, r)
    BY <1>5 DEF Reader!Wrote
  <2>2. state' = state /\ UNCHANGED <<closed, pos, eof>> /\ err' \in {"none", "botched"}
    BY <2>1 DEF Reader!Return, Reader!input_vars
  <2>3. extent_at' \in Nat /\ extent_at' <= stream[pos].length
    BY <1>1, <1>3, <2>1
  <2>4. ReaderIsRight' /\ Handled' = Handled
    BY <1>1, <2>2, <2>3, WithinRight
  <2> QED
    BY <1>1, <2>1, <2>2, <2>4, CurrentExtent DEF GoesOnAt
<1> QED
  BY <1>4, <1>5

\* An extent that was put is never refused.
LEMMA StartExtentRight ==
    ASSUME WriterIsRight, ReaderIsRight, closed # "open", UNCHANGED vars, Reader!startExtent
    PROVE  /\ ReaderIsRight' /\ Handled' = Handled /\ pos' = pos /\ UNCHANGED <<opened, data>>
           /\ state = "Extent_Get" /\ extent_at' = 0
<1>1. state = "Extent_Get" /\ InExtent /\ err = "none" /\ ~ eof
  BY DEF Reader!startExtent, Reader!In, Reader!Running, InExtent
<1>2. pos > 0 /\ Reader!pkt = stream[pos] /\ Reader!ExtentOK /\ stream[pos].flags \in {"DATA", "ZERO", "HOLE", "COPY"} /\ Is(pos, "EXTENT")
      /\ stream[pos].length \in Nat
  <2>1. pos > 0 /\ Reader!pkt = stream[pos] /\ Reader!ExtentOK /\ Is(pos, "EXTENT") /\ \E i \in 1 .. calls : Gives(stream[pos], i)
    BY <1>1, CurrentExtent
  <2> QED
    BY <2>1 DEF Reader!ExtentOK, Gives
<1>3. /\ extent_at' = 0
      /\ state' = CASE stream[pos].flags = "ZERO" -> "Extent_ZeroOut"
                    [] stream[pos].flags = "HOLE" -> "Extent_PunchHole"
                    [] stream[pos].flags = "COPY" -> "Extent_GetCopyInfo"
                    [] OTHER -> "Extent_Read"
      /\ UNCHANGED <<closed, pos, newfile, opened, err, eof, data, done>>
  BY <1>2, Zenon DEF Reader!startExtent, Reader!input_vars
<1>4. /\ state' \in {"Extent_GetCopyInfo", "Extent_Read", "Extent_ZeroOut", "Extent_PunchHole"}
      /\ Takes(state', stream[pos])
  <2>1. stream[pos].flags = "ZERO" => state' = "Extent_ZeroOut"
    BY <1>3, Zenon
  <2>2. stream[pos].flags = "HOLE" => state' = "Extent_PunchHole"
    BY <1>3, Zenon
  <2>3. stream[pos].flags = "COPY" => state' = "Extent_GetCopyInfo"
    BY <1>3, Zenon
  <2>4. stream[pos].flags = "DATA" => state' = "Extent_Read"
    BY <1>3, Zenon
  <2> QED
    BY <1>2, <2>1, <2>2, <2>3, <2>4 DEF Takes, Is
<1>5. ReaderIsRight' /\ Handled' = Handled
  BY <1>1, <1>2, <1>3, <1>4, WithinRight
<1> QED
  BY <1>1, <1>3, <1>5

\* Nor is one without bytes.
LEMMA SkipExtentRight ==
    ASSUME WriterIsRight, ReaderIsRight, closed # "open", UNCHANGED vars, Reader!skipExtent
    PROVE  ReaderIsRight' /\ Finishes /\ Is(pos, "EXTENT") /\ stream[pos].length = 0 /\ state = "Extent_Get" /\ UNCHANGED <<opened, data>>
<1>1. state = "Extent_Get" /\ InExtent /\ err = "none" /\ ~ eof
  BY DEF Reader!skipExtent, Reader!Get, Reader!In, Reader!Running, InExtent
<1>2. Reader!pkt = stream[pos] /\ Is(pos, "EXTENT")
  BY <1>1, CurrentExtent
<1>3. stream[pos].length = 0 /\ extent_at' = 0 /\ Reader!Return("Begin", "more") /\ UNCHANGED <<newfile, opened, data, done>>
  BY <1>2 DEF Reader!skipExtent
<1> QED
  BY <1>1, <1>2, <1>3, ExtentDone

------------------------------------------------------------------------------
\* What is done of the current extent.
Begun == IF state \in {"Extent_Read", "Extent_ZeroOut"} THEN extent_at ELSE 0

\* The byte that the current extent gives for position x.
Given(x) ==
    LET p == stream[pos]  n == x - p.offset IN
    CASE p.flags = "DATA" -> p.data[n]
      [] p.flags = "COPY" ->
           IF p.source_offset + n \in Log THEN data[p.source][p.source_offset + n] ELSE Nothing
      [] OTHER -> Zero

\* There are bytes for all positions of all files.
DataShape == DOMAIN data = File /\ \A f \in File : DOMAIN data[f] = Log

\* The next n bytes of the extent are written.
WritesNext(n) ==
    LET g == stream[pos].file  l == stream[pos].offset + Begun IN
    /\ InExtent /\ n \in Nat /\ UNCHANGED opened /\ DataShape'
    /\ IF opened[g].handle
       THEN \A f \in File, x \in Log :
              data'[f][x] = IF f = g /\ x \in l .. l + n - 1 THEN Given(x) ELSE data[f][x]
       ELSE data' = data
    /\ \/ Finishes /\ Begun + n = stream[pos].length
       \/ GoesOnAt(n) /\ state \in {"Extent_Read", "Extent_ZeroOut"}

\* Data are taken in parts, through the buffer or not.
LEMMA ReadExtentRight ==
    ASSUME WriterIsRight, ReaderIsRight, DataShape, closed # "open", UNCHANGED vars,
           Reader!In("Extent_Read"), Reader!BufferedData \/ Reader!sendExtent
    PROVE  ReaderIsRight' /\ \E n : WritesNext(n)
<1>1. state = "Extent_Read" /\ InExtent /\ err = "none" /\ ~ eof
  BY DEF Reader!In, Reader!Running, InExtent
<1>2. /\ Reader!pkt = stream[pos] /\ stream[pos].file \in File /\ stream[pos].flags = "DATA" /\ extent_at \in Nat
      /\ stream[pos].length \in Nat /\ stream[pos].offset \in Nat
  BY <1>1, CurrentExtent DEF ReaderIsRight, StateFits, Takes, Gives
<1>3. Reader!remaining = stream[pos].length - extent_at /\ Reader!offset = stream[pos].offset + extent_at /\ Begun = extent_at
  BY <1>1, <1>2 DEF Reader!remaining, Reader!offset, Begun
<1>4. PICK n \in Nat :
        /\ n <= Reader!remaining
        /\ data' = IF opened[stream[pos].file].handle
                   THEN [data EXCEPT ![stream[pos].file] =
                           [x \in DOMAIN @ |-> IF x \in Reader!offset .. Reader!offset + n - 1
                                               THEN stream[pos].data[extent_at + (x - Reader!offset)] ELSE @[x]]]
                   ELSE data
        /\ (\E r : Reader!Wrote(n, r)) /\ UNCHANGED <<newfile, opened, done>>
  <2>1. PICK n \in 0 .. Reader!remaining :
          /\ data' = IF Reader!handle
                     THEN [data EXCEPT ![Reader!pkt.file] =
                             [x \in DOMAIN @ |-> IF x \in Reader!offset .. Reader!offset + n - 1
                                                 THEN Reader!pkt.data[extent_at + (x - Reader!offset)] ELSE @[x]]]
                     ELSE data
          /\ (\E r : Reader!Wrote(n, r)) /\ UNCHANGED <<newfile, opened, done>>
    <3>1. CASE Reader!BufferedData
      <4>1. 1 .. Reader!remaining \subseteq 0 .. Reader!remaining
        BY <1>2, <1>3
      <4> QED
        BY <3>1, <4>1, Zenon DEF Reader!BufferedData, Reader!Set, Reader!Overwrite
    <3>2. CASE Reader!sendExtent
      <4>1. (IF Reader!BodyThere THEN 1 .. Reader!remaining ELSE 0 .. Reader!remaining - 1) \subseteq 0 .. Reader!remaining
        BY <1>2, <1>3
      <4> QED
        BY <3>2, <4>1, Zenon DEF Reader!sendExtent, Reader!Set, Reader!Overwrite
    <3> QED
      BY <3>1, <3>2
  <2>2. n \in Nat /\ n <= Reader!remaining
    BY <1>2, <1>3
  <2>3. data' = IF opened[stream[pos].file].handle
                THEN [data EXCEPT ![stream[pos].file] =
                           [x \in DOMAIN @ |-> IF x \in Reader!offset .. Reader!offset + n - 1
                                               THEN stream[pos].data[extent_at + (x - Reader!offset)] ELSE @[x]]]
                ELSE data
    BY <2>1 DEF Reader!handle, Reader!pkt
  <2> QED
    BY <2>1, <2>2, <2>3
<1>5. ReaderIsRight' /\ \/ Finishes /\ n = stream[pos].length - extent_at
                        \/ GoesOnAt(n)
  BY <1>1, <1>3, <1>4, ExtentWrote
<1>6. DataShape'
  BY <1>2, <1>4 DEF DataShape
<1>7. ASSUME opened[stream[pos].file].handle, NEW f \in File, NEW x \in Log
      PROVE  data'[f][x] = IF f = stream[pos].file /\ x \in stream[pos].offset + Begun .. stream[pos].offset + Begun + n - 1
                           THEN Given(x) ELSE data[f][x]
  <2>1. extent_at + (x - Reader!offset) = x - stream[pos].offset
    BY <1>2, <1>3, SizeAssumption DEF Log
  <2>2. Given(x) = stream[pos].data[x - stream[pos].offset]
    BY <1>2, Zenon DEF Given
  <2> QED
    BY <1>2, <1>3, <1>4, <1>7, <2>1, <2>2 DEF DataShape
<1>8. ~ opened[stream[pos].file].handle => data' = data
  BY <1>4
<1>9. \/ Finishes /\ Begun + n = stream[pos].length
      \/ GoesOnAt(n) /\ state \in {"Extent_Read", "Extent_ZeroOut"}
  BY <1>1, <1>2, <1>3, <1>5
<1>10. UNCHANGED opened /\ n \in Nat
  BY <1>4
<1>11. WritesNext(n)
  BY <1>1, <1>6, <1>7, <1>8, <1>9, <1>10 DEF WritesNext
<1> QED
  BY <1>5, <1>11

\* Zeroes are written in parts.
LEMMA ZeroExtentRight ==
    ASSUME WriterIsRight, ReaderIsRight, DataShape, closed # "open", UNCHANGED vars, Reader!zeroExtent
    PROVE  ReaderIsRight' /\ \E n : WritesNext(n)
<1>1. state = "Extent_ZeroOut" /\ InExtent /\ err = "none" /\ ~ eof
  BY DEF Reader!zeroExtent, Reader!In, Reader!Running, InExtent
<1>2. /\ Reader!pkt = stream[pos] /\ stream[pos].file \in File /\ stream[pos].flags = "ZERO"
      /\ stream[pos].length \in Nat /\ stream[pos].offset \in Nat /\ extent_at \in Nat /\ extent_at <= stream[pos].length
  BY <1>1, CurrentExtent DEF ReaderIsRight, StateFits, Takes, Gives
<1>3. Reader!remaining = stream[pos].length - extent_at /\ Reader!offset = stream[pos].offset + extent_at /\ Begun = extent_at
  BY <1>1, <1>2 DEF Reader!remaining, Reader!offset, Begun
<1>4. PICK n \in Nat :
        /\ n <= Reader!remaining
        /\ data' = IF opened[stream[pos].file].handle
                   THEN [data EXCEPT ![stream[pos].file] =
                           [x \in DOMAIN @ |-> IF x \in Reader!offset .. Reader!offset + n - 1 THEN Zero ELSE @[x]]]
                   ELSE data
        /\ (\E r : Reader!Wrote(n, r)) /\ UNCHANGED <<newfile, opened, done>>
  <2>1. PICK n \in (IF Reader!remaining = 0 THEN {0} ELSE 1 .. Reader!remaining) :
          /\ data' = IF Reader!handle
                     THEN [data EXCEPT ![Reader!pkt.file] =
                             [x \in DOMAIN @ |-> IF x \in Reader!offset .. Reader!offset + n - 1 THEN Zero ELSE @[x]]]
                     ELSE data
          /\ Reader!Wrote(n, "more") /\ UNCHANGED <<newfile, opened, done>>
    BY Zenon DEF Reader!zeroExtent, Reader!Set, Reader!Overwrite
  <2>2. n \in Nat /\ n <= Reader!remaining
    BY <1>2, <1>3
  <2>3. data' = IF opened[stream[pos].file].handle
                THEN [data EXCEPT ![stream[pos].file] =
                        [x \in DOMAIN @ |-> IF x \in Reader!offset .. Reader!offset + n - 1 THEN Zero ELSE @[x]]]
                ELSE data
    BY <2>1 DEF Reader!handle, Reader!pkt
  <2> QED
    BY <2>1, <2>2, <2>3
<1>5. ReaderIsRight' /\ \/ Finishes /\ n = stream[pos].length - extent_at
                        \/ GoesOnAt(n)
  BY <1>1, <1>3, <1>4, ExtentWrote
<1>6. DataShape'
  BY <1>2, <1>4 DEF DataShape
<1>7. ASSUME opened[stream[pos].file].handle, NEW f \in File, NEW x \in Log
      PROVE  data'[f][x] = IF f = stream[pos].file /\ x \in stream[pos].offset + Begun .. stream[pos].offset + Begun + n - 1
                           THEN Given(x) ELSE data[f][x]
  <2>1. Given(x) = Zero
    BY <1>2, Zenon DEF Given
  <2> QED
    BY <1>2, <1>3, <1>4, <1>7, <2>1 DEF DataShape
<1>8. ~ opened[stream[pos].file].handle => data' = data
  BY <1>4
<1>9. \/ Finishes /\ Begun + n = stream[pos].length
      \/ GoesOnAt(n) /\ state \in {"Extent_Read", "Extent_ZeroOut"}
  BY <1>1, <1>2, <1>3, <1>5
<1>10. UNCHANGED opened /\ n \in Nat
  BY <1>4
<1>11. WritesNext(n)
  BY <1>1, <1>6, <1>7, <1>8, <1>9, <1>10 DEF WritesNext
<1> QED
  BY <1>5, <1>11

\* A hole is made at once.
LEMMA PunchHoleRight ==
    ASSUME WriterIsRight, ReaderIsRight, DataShape, closed # "open", UNCHANGED vars, Reader!punchHole
    PROVE  ReaderIsRight' /\ \E n : WritesNext(n)
<1>1. state = "Extent_PunchHole" /\ InExtent /\ err = "none" /\ ~ eof
  BY DEF Reader!punchHole, Reader!In, Reader!Running, InExtent
<1>2. /\ Reader!pkt = stream[pos] /\ stream[pos].file \in File /\ stream[pos].flags = "HOLE"
      /\ stream[pos].length \in Nat /\ stream[pos].offset \in Nat /\ extent_at \in Nat /\ Begun = 0
  BY <1>1, CurrentExtent DEF ReaderIsRight, StateFits, Takes, Gives, Begun
<1>3. /\ data' = IF opened[stream[pos].file].handle
                 THEN [data EXCEPT ![stream[pos].file] =
                         [x \in DOMAIN @ |-> IF x \in stream[pos].offset .. stream[pos].offset + stream[pos].length - 1
                                             THEN Zero ELSE @[x]]]
                 ELSE data
      /\ Reader!Return("Begin", "more") /\ UNCHANGED <<newfile, opened, extent_at, done>>
  BY <1>2 DEF Reader!punchHole, Reader!Set, Reader!Overwrite, Reader!handle
<1>4. ReaderIsRight' /\ Finishes
  BY <1>1, <1>2, <1>3, ExtentDone
<1>5. DataShape'
  BY <1>2, <1>3 DEF DataShape
<1>6. ASSUME opened[stream[pos].file].handle, NEW f \in File, NEW x \in Log
      PROVE  data'[f][x] = IF f = stream[pos].file /\ x \in stream[pos].offset .. stream[pos].offset + stream[pos].length - 1
                           THEN Given(x) ELSE data[f][x]
  <2>1. Given(x) = Zero
    BY <1>2, Zenon DEF Given
  <2> QED
    BY <1>2, <1>3, <1>6, <2>1 DEF DataShape
<1>7. ~ opened[stream[pos].file].handle => data' = data
  BY <1>3
<1>8. stream[pos].offset + Begun = stream[pos].offset /\ Begun + stream[pos].length = stream[pos].length
  BY <1>2
<1>9. UNCHANGED opened /\ stream[pos].length \in Nat
  BY <1>2, <1>3
<1>10. WritesNext(stream[pos].length)
  BY <1>1, <1>4, <1>5, <1>6, <1>7, <1>8, <1>9 DEF WritesNext
<1> QED
  BY <1>4, <1>10

\* A copy has a source that is known.
LEMMA CopyExtentRight ==
    ASSUME WriterIsRight, ReaderIsRight, DataShape, closed # "open", UNCHANGED vars, Reader!getExtentCopyInfo
    PROVE  ReaderIsRight' /\ \E n : WritesNext(n)
<1>1. state = "Extent_GetCopyInfo" /\ InExtent /\ err = "none" /\ ~ eof
  BY DEF Reader!getExtentCopyInfo, Reader!Get, Reader!In, Reader!Running, InExtent
<1>2. /\ Reader!pkt = stream[pos] /\ stream[pos].file \in File /\ stream[pos].flags = "COPY"
      /\ stream[pos].source \in DOMAIN opened
      /\ stream[pos].length \in Nat /\ stream[pos].offset \in Nat /\ extent_at \in Nat /\ Begun = 0
  BY <1>1, CurrentExtent DEF ReaderIsRight, StateFits, Takes, Gives, Begun
<1>3. /\ data' = IF opened[stream[pos].file].handle
                 THEN [data EXCEPT ![stream[pos].file] =
                         [x \in DOMAIN @ |-> IF x \in stream[pos].offset .. stream[pos].offset + stream[pos].length - 1
                                             THEN IF stream[pos].source_offset + (x - stream[pos].offset) \in Log
                                                  THEN data[stream[pos].source][stream[pos].source_offset + (x - stream[pos].offset)]
                                                  ELSE Nothing
                                             ELSE @[x]]]
                 ELSE data
      /\ Reader!Return("Begin", "more") /\ UNCHANGED <<newfile, opened, extent_at, done>>
  BY <1>2 DEF Reader!getExtentCopyInfo, Reader!Set, Reader!Overwrite, Reader!handle, Reader!Known, Reader!Log, Log
<1>4. ReaderIsRight' /\ Finishes
  BY <1>1, <1>2, <1>3, ExtentDone
<1>5. DataShape'
  BY <1>2, <1>3 DEF DataShape
<1>6. ASSUME opened[stream[pos].file].handle, NEW f \in File, NEW x \in Log
      PROVE  data'[f][x] = IF f = stream[pos].file /\ x \in stream[pos].offset .. stream[pos].offset + stream[pos].length - 1
                           THEN Given(x) ELSE data[f][x]
  <2>1. Given(x) = IF stream[pos].source_offset + (x - stream[pos].offset) \in Log
                   THEN data[stream[pos].source][stream[pos].source_offset + (x - stream[pos].offset)]
                   ELSE Nothing
    BY <1>2, Zenon DEF Given
  <2> QED
    BY <1>2, <1>3, <1>6, <2>1 DEF DataShape
<1>7. ~ opened[stream[pos].file].handle => data' = data
  BY <1>3
<1>8. stream[pos].offset + Begun = stream[pos].offset /\ Begun + stream[pos].length = stream[pos].length
  BY <1>2
<1>9. UNCHANGED opened /\ stream[pos].length \in Nat
  BY <1>2, <1>3
<1>10. WritesNext(stream[pos].length)
  BY <1>1, <1>4, <1>5, <1>6, <1>7, <1>8, <1>9 DEF WritesNext
<1> QED
  BY <1>4, <1>10

------------------------------------------------------------------------------
\* Byte x of the file with id f was written by an extent.
Written(f, x) ==
    \/ \E j \in 1 .. Handled : Covers(j, f, x)
    \/ /\ state \in {"Extent_Read", "Extent_ZeroOut"} /\ stream[pos].file = f
       /\ x \in stream[pos].offset .. stream[pos].offset + extent_at - 1

\* The byte is that of the plan's file i there, or one of a reference file that
\* is the same.
Fits(byte, i, x) ==
    \/ byte \notin Holder /\ byte = Wanted[i][x]
    \/ \E s \in 1 .. calls : /\ IsNew(s) /\ byte \in Holder /\ byte.file = ids[s]
                             /\ Wanted[s][byte.logical] = Wanted[i][x]

\* Byte x of the plan's file i is what was sent of it up to now.
ByteRight(i, x) ==
    LET byte == data[ids[i]][x] IN
    /\ files[i].mode = "REF" => byte = [file |-> ids[i], logical |-> x]
    /\ files[i].mode = "REG" => IF Written(ids[i], x) THEN Fits(byte, i, x) ELSE byte = Zero

\* All files that the receiver has are right so far, if it wants all.
DataRight ==
    AllWanted =>
      \A i \in 1 .. calls : IsNew(i) /\ ids[i] \in DOMAIN opened =>
        \A x \in Log : x < files[i].size => ByteRight(i, x)

\* What the receiver has.
Holds == DataShape /\ DataRight

\* What fits does not depend on the reader.
LEMMA FitsStays ==
    ASSUME UNCHANGED vars, NEW byte, NEW i, NEW x
    PROVE  Fits(byte, i, x)' <=> Fits(byte, i, x)
<1>1. Wanted' = Wanted /\ files' = files /\ calls' = calls /\ ids' = ids
  BY WantedStays DEF vars
<1> QED
  BY <1>1 DEF Fits, IsNew

\* What is behind the extents of a file that has ended is zero.
LEMMA BehindIsZero ==
    ASSUME WriterIsRight, NEW i \in 1 .. calls, files[i].mode = "REG", NEW j \in DOMAIN stream, Ends(j, ids[i]),
           NEW x \in Nat, x < files[i].size, x >= SentUpTo(ids[i])
    PROVE  Wanted[i][x] = Zero
<1>1. WriterType /\ IsTransfer(files) /\ IsNew(i) /\ i \in DOMAIN ids /\ AllCovered /\ ExtentsTile /\ ids[i] \in Nat
  BY PlanOfCalls, LenProperties DEF WriterIsRight, Laid, Tiling, Tiled, Order, Control, Meaning, IsNew, WriterType
<1>2. SentUpTo(ids[i]) \in Nat /\ files[i].size \in Nat /\ AreExtents(files[i])
  <2>1. AreExtents(files[i])
    BY <1>1, PlanOfCalls DEF WriterIsRight, Laid, Order, Control
  <2> QED
    BY <1>1, <2>1 DEF AllCovered, AreExtents
<1>3. TilesAt(i)
  BY <1>1, ExtentsTileIs DEF AllTile
<1>4. ASSUME NEW k \in DOMAIN files[i].extents PROVE End(files[i].extents[k]) <= x
  <2>2. files[i].extents[k] \in FileExtent
    BY <1>2, ElementOfSeq, LenProperties DEF AreExtents
  <2>3. End(files[i].extents[k]) \in Nat
    BY <2>2, ExtentFields
  <2>4. SentUpTo(ids[i]) >= files[i].size \/ SentUpTo(ids[i]) >= End(files[i].extents[k])
    BY <1>3 DEF TilesAt
  <2> QED
    BY <1>2, <2>3, <2>4
<1> QED
  BY <1>1, <1>4, UnmappedIsZero

\* The file that is announced with an id is the one with that id.
LEMMA AnnouncedHere ==
    ASSUME WriterIsRight, NEW j \in DOMAIN stream, Announces(j), NEW i \in 1 .. calls, IsNew(i), stream[j].file = ids[i]
    PROVE  stream[j].mode = files[i].mode /\ stream[j].size = files[i].size
<1>1. PICK k \in 1 .. calls : /\ IsNew(k) /\ stream[j].file = ids[k] /\ ids[k] \in File
                              /\ stream[j].mode = files[k].mode /\ stream[j].size = files[k].size
  BY AnnouncedIs
<1>2. k = i
  BY <1>1, UniqueIds DEF WriterIsRight, Laid
<1> QED
  BY <1>1, <1>2

\* A byte that is the same as one the reader has already.
LEMMA HeldFits ==
    ASSUME WriterIsRight, ReaderIsRight, Holds, AllWanted, pos > 0, Handled = pos - 1,
           NEW s \in 1 .. calls, ids[s] \in DOMAIN opened, NEW y \in Nat, IsThere(ids[s], y, pos),
           NEW i, NEW x, SameByte(s, y, i, x)
    PROVE  y \in Log /\ Fits(data[ids[s]][y], i, x)
<1>1. /\ files[s].mode \in {"REG", "REF"} /\ y < files[s].size /\ Wanted[s][y] = Wanted[i][x] /\ IsNew(s)
  BY DEF SameByte, IsNew
<1>2. y \in Log /\ s \in DOMAIN files /\ ids[s] \in File
  BY <1>1, WantedFits, IdsAreFiles DEF WriterIsRight, Laid, Order, Meaning
<1>3. ByteRight(s, y)
  BY <1>1, <1>2 DEF Holds, DataRight
<1>4. CASE files[s].mode = "REF"
  <2>1. data[ids[s]][y] = [file |-> ids[s], logical |-> y]
    BY <1>3, <1>4 DEF ByteRight
  <2>2. data[ids[s]][y] \in Holder /\ data[ids[s]][y].file = ids[s] /\ data[ids[s]][y].logical = y
    BY <1>2, <2>1 DEF Holder
  <2> QED
    BY <1>1, <1>2, <2>2 DEF Fits
<1>5. CASE files[s].mode = "REG" /\ Written(ids[s], y)
  BY <1>1, <1>2, <1>3, <1>5 DEF ByteRight, Fits
<1>6. CASE files[s].mode = "REG" /\ ~ Written(ids[s], y)
  <2>1. data[ids[s]][y] = Zero
    BY <1>3, <1>6 DEF ByteRight
  <2>2. PICK j \in 1 .. pos - 1 : ThereBy(j, ids[s], y)
    BY ThereIs DEF ThereIsThere
  <2>3. j \in DOMAIN stream /\ j \in 1 .. Handled
    BY <2>2, StreamLength DEF ReaderIsRight, StateFits
  <2>4. ~ Covers(j, ids[s], y)
    BY <1>6, <2>3 DEF Written
  <2>5. ~ (Is(j, "FILE") /\ stream[j].file = ids[s] /\ stream[j].mode = "REF")
    BY <1>1, <1>6, <2>3, AnnouncedHere DEF Announces
  <2>6. Ends(j, ids[s]) /\ y >= SentUpTo(ids[s])
    BY <2>2, <2>4, <2>5 DEF ThereBy
  <2>7. Wanted[s][y] = Zero
    BY <1>1, <1>6, <2>3, <2>6, BehindIsZero
  <2>8. Zero \notin Holder
    BY ZeroAssumption
  <2> QED
    BY <1>1, <1>2, <2>1, <2>7, <2>8 DEF Fits
<1> QED
  BY <1>1, <1>4, <1>5, <1>6

\* The bytes that the current extent gives are right.
LEMMA GivenFits ==
    ASSUME WriterIsRight, ReaderIsRight, Holds, AllWanted, InExtent, NEW i \in 1 .. calls, Gives(stream[pos], i),
           NEW x \in stream[pos].offset .. stream[pos].offset + stream[pos].length - 1
    PROVE  Fits(Given(x), i, x)
<1> DEFINE p == stream[pos]
           n == x - stream[pos].offset
<1>1. /\ p.offset \in Nat /\ p.length \in Nat /\ GivesBytes(p, i)
  BY DEF Gives
<1>2. n \in 0 .. p.length - 1 /\ p.offset + n = x
  BY <1>1
<1>3. /\ pos \in DOMAIN stream /\ pos > 0 /\ Handled = pos - 1 /\ Is(pos, "EXTENT")
      /\ p.flags = "COPY" => p.source \in DOMAIN opened
  BY CurrentExtent
<1>4. CASE p.flags = "DATA"
  <2>1. Given(x) = p.data[n]
    BY <1>4, Zenon DEF Given
  <2>2. p.data[n] = Wanted[i][x] /\ p.data[n] \notin Holder
    BY <1>1, <1>2, <1>4 DEF GivesBytes
  <2> QED
    BY <2>1, <2>2 DEF Fits
<1>5. CASE p.flags \in {"ZERO", "HOLE"}
  <2>1. Given(x) = Zero
    BY <1>5, Zenon DEF Given
  <2>2. Wanted[i][x] = Zero
    BY <1>1, <1>2, <1>5 DEF GivesBytes
  <2> QED
    BY <2>1, <2>2, ZeroAssumption DEF Fits
<1>6. CASE p.flags = "COPY"
  <2> DEFINE y == p.source_offset + n
  <2>1. /\ p.source_offset \in Nat
        /\ \E s \in 1 .. calls : p.source = ids[s] /\ SameByte(s, y, i, x)
    BY <1>1, <1>2, <1>6 DEF GivesBytes
  <2>2. PICK s \in 1 .. calls : p.source = ids[s] /\ SameByte(s, y, i, x)
    BY <2>1
  <2>3. IsThere(p.source, y, pos)
    BY <1>2, <1>3, <1>6 DEF WriterIsRight, Copying, CopiesReferBack
  <2>4. y \in Nat
    BY <1>2, <2>1
  <2>5. y \in Log /\ Fits(data[p.source][y], i, x)
    <3> HIDE DEF y, p
    <3> QED
      BY <1>3, <1>6, <2>2, <2>3, <2>4, HeldFits
  <2>6. Given(x) = IF y \in Log THEN data[p.source][y] ELSE Nothing
    BY <1>6, Zenon DEF Given
  <2> HIDE DEF y, p
  <2> QED
    BY <2>5, <2>6
<1> QED
  BY <1>1, <1>4, <1>5, <1>6 DEF GivesBytes

------------------------------------------------------------------------------
\* The states in which extents are taken in parts.
InParts == {"Extent_Read", "Extent_ZeroOut"}

\* No byte was written by a step that goes on to a packet, or is done with one that
\* gives none.
LEMMA WrittenStays ==
    ASSUME UNCHANGED vars, Handled \in Nat, state \notin InParts,
           Handled' = Handled \/ (Handled' = Handled + 1 /\ \A f, x : ~ Covers(Handled + 1, f, x)),
           state' \notin InParts \/ (extent_at' = 0 /\ stream'[pos'].offset \in Nat)
    PROVE  \A f, x : Written(f, x)' <=> Written(f, x)
<1> SUFFICES ASSUME NEW f, NEW x PROVE Written(f, x)' <=> Written(f, x)
  OBVIOUS
<1>1. stream' = stream /\ \A j : Covers(j, f, x)' <=> Covers(j, f, x)
  BY DEF vars, Covers, Is
<1>2. Written(f, x) <=> \E j \in 1 .. Handled : Covers(j, f, x)
  BY DEF Written, InParts
<1>3. Written(f, x)' <=> \E j \in 1 .. Handled' : Covers(j, f, x)
  <2>1. extent_at' = 0 /\ stream'[pos'].offset \in Nat
          => x \notin stream'[pos'].offset .. stream'[pos'].offset + extent_at' - 1
    OBVIOUS
  <2>2. ~ (/\ state \in {"Extent_Read", "Extent_ZeroOut"} /\ stream[pos].file = f
           /\ x \in stream[pos].offset .. stream[pos].offset + extent_at - 1)'
    BY <2>1 DEF InParts
  <2> QED
    BY <1>1, <2>2 DEF Written
<1>4. CASE Handled' = Handled
  BY <1>2, <1>3, <1>4
<1>5. CASE Handled' = Handled + 1 /\ \A g, y : ~ Covers(Handled + 1, g, y)
  <2>1. 1 .. Handled + 1 = (1 .. Handled) \cup {Handled + 1}
    OBVIOUS
  <2> QED
    BY <1>2, <1>3, <1>5, <2>1
<1> QED
  BY <1>4, <1>5

\* A byte that is right is so after a step of the reader, if it is still what
\* counts as written.
LEMMA ByteStays ==
    ASSUME UNCHANGED vars, NEW i \in 1 .. calls, NEW x, NEW byte, byte = data'[ids[i]][x],
           files[i].mode = "REF" => byte = [file |-> ids[i], logical |-> x],
           files[i].mode = "REG" => IF Written(ids[i], x)' THEN Fits(byte, i, x) ELSE byte = Zero
    PROVE  ByteRight(i, x)'
<1>1. Wanted' = Wanted /\ files' = files /\ calls' = calls /\ ids' = ids
  BY WantedStays DEF vars
<1> QED
  BY <1>1 DEF ByteRight, Fits, IsNew

\* A step that writes no byte.
LEMMA HoldsStays ==
    ASSUME UNCHANGED vars, Holds, UNCHANGED <<opened, data>>, \A f, x : Written(f, x)' <=> Written(f, x)
    PROVE  Holds'
<1>1. files' = files /\ calls' = calls /\ ids' = ids
  BY DEF vars
<1>2. DataShape'
  BY DEF Holds, DataShape
<1>3. ASSUME AllWanted', NEW i \in 1 .. calls, IsNew(i), ids[i] \in DOMAIN opened, NEW x \in Log, x < files[i].size
      PROVE  ByteRight(i, x)'
  <2>1. ByteRight(i, x)
    BY <1>3 DEF Holds, DataRight, AllWanted
  <2>2. PICK byte : byte = data[ids[i]][x]
    OBVIOUS
  <2>3. PICK f : f = ids[i]
    OBVIOUS
  <2>4. Written(ids[i], x)' <=> Written(f, x)
    BY <1>1, <2>3
  <2> QED
    BY <2>1, <2>2, <2>3, <2>4, ByteStays DEF ByteRight
<1> QED
  BY <1>1, <1>2, <1>3 DEF Holds, DataRight, IsNew

\* A file that was just created has nothing but zeroes, and no extents before.
LEMMA NewFileHolds ==
    ASSUME WriterIsRight, ReaderIsRight, Holds, UNCHANGED vars, Finishes, Announces(pos), state \notin InParts,
           stream[pos].file \notin DOMAIN opened,
           DOMAIN opened' = DOMAIN opened \cup {stream[pos].file},
           \A f \in DOMAIN opened : opened'[f] = opened[f],
           data' = IF opened'[stream[pos].file].handle
                   THEN [data EXCEPT ![stream[pos].file] =
                           Reader!Fresh(stream[pos].file, stream[pos].mode, stream[pos].size)]
                   ELSE data
    PROVE  Holds'
<1> DEFINE f == stream[pos].file
           fresh == Reader!Fresh(stream[pos].file, stream[pos].mode, stream[pos].size)
<1>1. files' = files /\ calls' = calls /\ ids' = ids /\ stream' = stream
  BY DEF vars
<1>2. pos \in DOMAIN stream /\ Handled = pos - 1 /\ Handled' = pos /\ state' = "Begin" /\ pos \in Nat /\ Is(pos, "FILE")
  BY StreamLength DEF Finishes, Announces
<1>3. \A g, x : Written(g, x)' <=> Written(g, x)
  <2>1. Handled \in Nat /\ Handled + 1 = pos
    BY <1>2, StreamLength
  <2>2. \A g, x : ~ Covers(pos, g, x)
    BY <1>2 DEF Covers, Is
  <2>3. Handled' = Handled + 1 /\ state' \notin InParts
    BY <1>2, <2>1 DEF InParts
  <2> QED
    BY <2>1, <2>2, <2>3, WrittenStays
<1>4. fresh = [x \in Log |-> IF x >= stream[pos].size THEN Nothing
                             ELSE IF stream[pos].mode = "REF" THEN [file |-> f, logical |-> x] ELSE Zero]
  BY DEF Reader!Fresh, Reader!Log, Log
<1>5. f \in File
  BY <1>2, AnnouncedIs
<1>6. DataShape'
  BY <1>4, <1>5 DEF Holds, DataShape
<1>7. ASSUME AllWanted', NEW i \in 1 .. calls, IsNew(i), ids[i] \in DOMAIN opened', NEW x \in Log, x < files[i].size
      PROVE  ByteRight(i, x)'
  <2>1. PICK byte : byte = data'[ids[i]][x]
    OBVIOUS
  <2>2. PICK g : g = ids[i]
    OBVIOUS
  <2>3. Written(ids[i], x)' <=> Written(g, x)
    BY <1>1, <1>3, <2>2
  <2>4. CASE g # f
    <3>1. g \in DOMAIN opened /\ AllWanted /\ byte = data[ids[i]][x]
      BY <1>7, <2>1, <2>2, <2>4 DEF AllWanted
    <3>2. ByteRight(i, x)
      BY <1>7, <2>2, <3>1 DEF Holds, DataRight
    <3> QED
      BY <2>1, <2>2, <2>3, <3>1, <3>2, ByteStays DEF ByteRight
  <2>5. CASE g = f
    <3>1. stream[pos].mode = files[i].mode /\ stream[pos].size = files[i].size
      BY <1>2, <1>7, <2>2, <2>5, AnnouncedHere
    <3>2. byte = fresh[x]
      BY <1>5, <1>7, <2>1, <2>2, <2>5 DEF AllWanted, Holds, DataShape
    <3>3. files[i].size \in Nat /\ x \in Nat
      BY <1>7, PlanOfCalls, SizeAssumption DEF WriterIsRight, Laid, Order, Control, AreExtents, Log
    <3>4. byte = IF stream[pos].mode = "REF" THEN [file |-> f, logical |-> x] ELSE Zero
      <4> HIDE DEF f, fresh
      <4> QED
        BY <1>4, <1>7, <3>1, <3>2, <3>3
    <3>5. ~ Written(f, x)
      <4>1. ASSUME NEW j \in 1 .. Handled, Covers(j, f, x) PROVE FALSE
        <5>1. j \in DOMAIN stream /\ j \in 1 .. pos - 1
          BY <1>2, <4>1, StreamLength
        <5>2. AnnouncedBefore(f, j)
          BY <4>1, <5>1, PacketsKnown DEF Covers
        <5>3. AnnouncedBefore(f, pos)
          BY <1>2, <5>1, <5>2 DEF AnnouncedBefore
        <5>4. Handled + 1 = pos
          BY <1>2
        <5> QED
          BY <5>3, <5>4 DEF ReaderIsRight, OpenedRight
      <4> QED
        BY <4>1 DEF Written, InParts
    <3>6. files[i].mode = "REF" => byte = [file |-> ids[i], logical |-> x]
      BY <2>2, <2>5, <3>1, <3>4
    <3>7. files[i].mode = "REG" => byte = Zero
      BY <3>1, <3>4
    <3>8. ~ Written(ids[i], x)'
      BY <2>2, <2>3, <2>5, <3>5
    <3> HIDE DEF f, fresh
    <3> QED
      BY <2>1, <3>6, <3>7, <3>8, ByteStays
  <2> QED
    BY <2>4, <2>5
<1> QED
  BY <1>1, <1>6, <1>7 DEF Holds, DataRight, IsNew

\* The next bytes of an extent count as written when they are.
LEMMA WrittenNext ==
    ASSUME WriterIsRight, ReaderIsRight, UNCHANGED vars, NEW n, WritesNext(n)
    PROVE  LET l == stream[pos].offset + Begun IN
           \A f, x : Written(f, x)' <=> Written(f, x) \/ (f = stream[pos].file /\ x \in l .. l + n - 1)
<1> DEFINE p == stream[pos]
           l == p.offset + Begun
<1> SUFFICES ASSUME NEW f, NEW x
             PROVE  Written(f, x)' <=> Written(f, x) \/ (f = p.file /\ x \in l .. l + n - 1)
  OBVIOUS
<1>1. /\ stream' = stream /\ pos' = pos /\ pos \in DOMAIN stream /\ pos \in Nat /\ Handled = pos - 1 /\ pos > 0
      /\ Is(pos, "EXTENT") /\ p.offset \in Nat /\ p.length \in Nat /\ n \in Nat /\ Begun \in Nat /\ InExtent
  <2>1. stream' = stream /\ pos' = pos
    BY DEF vars, WritesNext, Finishes, GoesOnAt
  <2>2. /\ pos \in DOMAIN stream /\ Handled = pos - 1 /\ pos > 0 /\ Is(pos, "EXTENT")
        /\ \E i \in 1 .. calls : Gives(p, i)
    BY CurrentExtent DEF WritesNext
  <2>3. Begun \in Nat
    BY DEF Begun, ReaderIsRight, StateFits
  <2> QED
    BY <2>1, <2>2, <2>3, StreamLength DEF Gives, WritesNext
<1>2. \A j, g, y : Covers(j, g, y)' <=> Covers(j, g, y)
  BY <1>1 DEF Covers, Is
<1>3. Written(f, x) <=> (\E j \in 1 .. pos - 1 : Covers(j, f, x)) \/ (f = p.file /\ x \in p.offset .. p.offset + Begun - 1)
  <2>1. state \notin InParts => x \notin p.offset .. p.offset + Begun - 1
    BY <1>1 DEF Begun, InParts
  <2> QED
    BY <1>1, <2>1 DEF Written, Begun, InParts
<1>4. CASE Finishes /\ Begun + n = p.length
  <2>1. Handled' = pos /\ state' = "Begin"
    BY <1>4 DEF Finishes
  <2>2. Written(f, x)' <=> \E j \in 1 .. pos : Covers(j, f, x)
    BY <1>1, <1>2, <2>1 DEF Written
  <2>3. 1 .. pos = (1 .. pos - 1) \cup {pos}
    BY <1>1
  <2>4. Covers(pos, f, x) <=> f = p.file /\ x \in p.offset .. p.offset + p.length - 1
    BY <1>1 DEF Covers
  <2>5. x \in p.offset .. p.offset + p.length - 1 <=> x \in p.offset .. p.offset + Begun - 1 \/ x \in l .. l + n - 1
    <3> HIDE DEF p
    <3> QED
      BY <1>1, <1>4
  <2> QED
    BY <1>3, <2>2, <2>3, <2>4, <2>5
<1>5. CASE GoesOnAt(n) /\ state \in InParts
  <2>1. Handled' = pos - 1 /\ state' \in InParts /\ extent_at' = extent_at + n /\ Begun = extent_at
    BY <1>5 DEF GoesOnAt, Begun, InParts
  <2>2. Written(f, x)' <=> \/ \E j \in 1 .. pos - 1 : Covers(j, f, x)
                           \/ p.file = f /\ x \in p.offset .. p.offset + (extent_at + n) - 1
    BY <1>1, <1>2, <2>1 DEF Written, InParts
  <2>3. x \in p.offset .. p.offset + (extent_at + n) - 1 <=> x \in p.offset .. p.offset + Begun - 1 \/ x \in l .. l + n - 1
    <3> HIDE DEF p
    <3> QED
      BY <1>1, <2>1
  <2> QED
    BY <1>3, <2>2, <2>3
<1> QED
  BY <1>4, <1>5 DEF WritesNext, InParts

\* What is written is right, and the rest stays as it was.
LEMMA WritesHold ==
    ASSUME WriterIsRight, ReaderIsRight, ReaderIsRight', Holds, UNCHANGED vars, NEW n, WritesNext(n)
    PROVE  Holds'
<1> DEFINE f == stream[pos].file
           l == stream[pos].offset + Begun
           Now(x) == x \in l .. l + n - 1
<1>1. files' = files /\ calls' = calls /\ ids' = ids /\ stream' = stream
  BY DEF vars
<1>2. PICK k \in 1 .. calls : Gives(stream[pos], k) /\ IsNew(k) /\ ids[k] = f
  BY CurrentExtent DEF WritesNext
<1>3. DataShape' /\ opened' = opened /\ InExtent /\ f \in File /\ f \in DOMAIN opened
  BY CurrentExtent DEF WritesNext
<1>4. ASSUME NEW x, Now(x) PROVE x \in stream[pos].offset .. stream[pos].offset + stream[pos].length - 1
  <2>1. stream[pos].offset \in Nat /\ stream[pos].length \in Nat /\ Begun \in Nat /\ n \in Nat
    BY <1>2 DEF Gives, Begun, ReaderIsRight, StateFits, WritesNext
  <2>2. Begun + n <= stream[pos].length
    <3>1. CASE Finishes /\ Begun + n = stream[pos].length
      BY <2>1, <3>1
    <3>2. CASE GoesOnAt(n) /\ state \in {"Extent_Read", "Extent_ZeroOut"}
      BY <1>1, <2>1, <3>2 DEF GoesOnAt, Begun, ReaderIsRight, StateFits
    <3> QED
      BY <3>1, <3>2 DEF WritesNext
  <2> QED
    BY <1>4, <2>1, <2>2
<1>5. ASSUME AllWanted', NEW i \in 1 .. calls, IsNew(i), ids[i] \in DOMAIN opened, NEW x \in Log, x < files[i].size
      PROVE  ByteRight(i, x)'
  <2>1. PICK byte : byte = data'[ids[i]][x]
    OBVIOUS
  <2>2. PICK g : g = ids[i]
    OBVIOUS
  <2>3. AllWanted /\ opened[f].handle /\ g \in File
    BY <1>3, <1>5, <2>2, IdsAreFiles DEF AllWanted, WriterIsRight, Laid
  <2>4. Written(ids[i], x)' <=> Written(g, x) \/ (g = f /\ Now(x))
    BY <1>1, <2>2, WrittenNext
  <2>5. byte = IF g = f /\ Now(x) THEN Given(x) ELSE data[g][x]
    BY <1>5, <2>1, <2>2, <2>3 DEF WritesNext
  <2>6. ByteRight(i, x)
    BY <1>5, <2>3 DEF Holds, DataRight
  <2> HIDE DEF Now
  <2>7. CASE g = f /\ Now(x)
    <3>1. i = k
      BY <1>2, <1>5, <2>2, <2>7, UniqueIds DEF WriterIsRight, Laid
    <3>2. Fits(Given(x), i, x)
      BY <1>2, <1>3, <1>4, <2>3, <2>7, <3>1, GivenFits
    <3>3. files[i].mode = "REG"
      BY <1>2, <3>1 DEF Gives
    <3>4. Written(ids[i], x)' /\ byte = Given(x) /\ Fits(byte, i, x)
      BY <2>4, <2>5, <2>7, <3>2
    <3> HIDE DEF f
    <3> QED
      BY <2>1, <3>3, <3>4, ByteStays
  <2>8. CASE ~ (g = f /\ Now(x))
    <3>1. byte = data[ids[i]][x] /\ (Written(ids[i], x)' <=> Written(ids[i], x))
      BY <2>2, <2>4, <2>5, <2>8
    <3>2. /\ files[i].mode = "REF" => byte = [file |-> ids[i], logical |-> x]
          /\ files[i].mode = "REG" => IF Written(ids[i], x)' THEN Fits(byte, i, x) ELSE byte = Zero
      BY <2>6, <3>1 DEF ByteRight
    <3> QED
      BY <2>1, <3>2, ByteStays
  <2> QED
    BY <2>7, <2>8
<1> QED
  BY <1>1, <1>3, <1>5 DEF Holds, DataRight, IsNew

------------------------------------------------------------------------------
\* Whatever the reader does with the stream, it does right.
LEMMA ReadRight ==
    ASSUME WriterIsRight, ReaderIsRight, Holds, closed # "open", UNCHANGED vars, Reader!ReaderNext
    PROVE  ReaderIsRight' /\ Holds'
<1>1. Handled \in Nat /\ pos \in Nat
  BY StreamLength DEF ReaderIsRight, StateFits, Handled
<1>2. ASSUME Finishes, ~ Is(pos, "EXTENT") \/ stream[pos].length = 0, UNCHANGED <<opened, data>>, state \notin InParts
      PROVE  Holds'
  <2>1. pos \in DOMAIN stream /\ Handled = pos - 1 /\ Handled' = pos /\ Handled' = Handled + 1 /\ Handled + 1 = pos /\ state' = "Begin"
    BY <1>1, <1>2 DEF Finishes
  <2>2. ASSUME NEW f, NEW x, Covers(pos, f, x) PROVE FALSE
    <3>1. /\ Is(pos, "EXTENT") /\ stream[pos].length = 0
          /\ x \in stream[pos].offset .. stream[pos].offset + stream[pos].length - 1
      BY <1>2, <2>2 DEF Covers
    <3>2. PICK i \in 1 .. calls : Gives(stream[pos], i)
      BY <2>1, <3>1 DEF WriterIsRight, Meaning, AllGiven
    <3>3. stream[pos].offset \in Nat
      BY <3>2 DEF Gives
    <3> QED
      BY <3>1, <3>3
  <2> QED
    BY <1>1, <1>2, <2>1, <2>2, WrittenStays, HoldsStays DEF InParts
<1>3. ASSUME UNCHANGED <<pos, state, opened, extent_at, data>> PROVE Holds'
  <2>1. \A f, x : Written(f, x)' <=> Written(f, x)
    BY <1>3 DEF Written, Handled, Covers, Is, vars
  <2> QED
    BY <1>3, <2>1, HoldsStays
<1>4. CASE Reader!InputEnds
  BY <1>3, <1>4, ReadsEndRight
<1>5. CASE Reader!doReadHeader
  <2>1. ReaderIsRight' /\ Handled = 0 /\ Handled' = 1 /\ Is(1, "HEADER") /\ UNCHANGED <<opened, data>> /\ state' = "Begin"
    BY <1>5, ReadHeaderRight
  <2>2. \A f, x : ~ Covers(1, f, x)
    BY <2>1 DEF Covers, Is
  <2>3. state \notin InParts
    BY <1>5 DEF Reader!doReadHeader, Reader!In, InParts
  <2>4. Handled + 1 = 1
    BY <2>1
  <2> QED
    BY <1>1, <2>1, <2>2, <2>3, <2>4, WrittenStays, HoldsStays DEF InParts
<1>6. CASE Reader!readPacket
  <2>1. ReaderIsRight' /\ Handled' = Handled /\ UNCHANGED <<opened, data>> /\ state' \notin InParts
    BY <1>6, ReadPacketRight DEF InParts
  <2>2. state \notin InParts
    BY <1>6 DEF Reader!readPacket, Reader!In, InParts
  <2> QED
    BY <1>1, <2>1, <2>2, WrittenStays, HoldsStays
<1>7. CASE Reader!newFileCreate
  <2>1. state \notin InParts
    BY <1>7 DEF Reader!newFileCreate, Reader!Get, Reader!In, InParts
  <2>2. ReaderIsRight' /\ Is(pos, "FILE")
    BY <1>7, NewFileRight
  <2>3. ~ Is(pos, "EXTENT")
    BY <2>2 DEF Is
  <2>4. CASE Stays
    BY <1>3, <2>2, <2>4 DEF Stays
  <2>5. CASE Finishes /\ stream[pos].mode = "HARD" /\ UNCHANGED <<opened, data>>
    BY <1>2, <2>1, <2>2, <2>3, <2>5
  <2>6. CASE /\ Finishes /\ Announces(pos) /\ stream[pos].file \notin DOMAIN opened
             /\ DOMAIN opened' = DOMAIN opened \cup {stream[pos].file}
             /\ \A f \in DOMAIN opened : opened'[f] = opened[f]
             /\ data' = IF opened'[stream[pos].file].handle
                        THEN [data EXCEPT ![stream[pos].file] =
                                Reader!Fresh(stream[pos].file, stream[pos].mode, stream[pos].size)]
                        ELSE data
    BY <2>1, <2>2, <2>6, NewFileHolds
  <2> QED
    BY <1>7, <2>4, <2>5, <2>6, NewFileRight
<1>8. CASE Reader!handleFileMeta
  <2>1. state \notin InParts
    BY <1>8 DEF Reader!handleFileMeta, Reader!Get, Reader!In, InParts
  <2> QED
    BY <1>2, <1>8, <2>1, FileMetaRight DEF Is
<1>9. CASE Reader!getFileEnd
  <2>1. state \notin InParts
    BY <1>9 DEF Reader!getFileEnd, Reader!Get, Reader!In, InParts
  <2> QED
    BY <1>2, <1>9, <2>1, FileEndRight DEF Is
<1>10. CASE Reader!getSnapshotList
  <2>1. state \notin InParts
    BY <1>10 DEF Reader!getSnapshotList, Reader!Get, Reader!In, InParts
  <2> QED
    BY <1>2, <1>10, <2>1, SnapshotListRight DEF Is
<1>11. CASE Reader!startExtent
  <2>1. /\ ReaderIsRight' /\ Handled' = Handled /\ pos' = pos /\ UNCHANGED <<opened, data>>
        /\ state = "Extent_Get" /\ extent_at' = 0
    BY <1>11, StartExtentRight
  <2>2. stream'[pos'].offset \in Nat
    BY <2>1, CurrentExtent DEF InExtent, Gives, vars
  <2> QED
    BY <1>1, <2>1, <2>2, WrittenStays, HoldsStays DEF InParts
<1>12. CASE Reader!skipExtent
  BY <1>2, <1>12, SkipExtentRight DEF InParts
<1>13. CASE \/ Reader!In("Extent_Read") /\ (Reader!BufferedData \/ Reader!sendExtent)
            \/ Reader!zeroExtent \/ Reader!punchHole \/ Reader!getExtentCopyInfo
  BY <1>13, ReadExtentRight, ZeroExtentRight, PunchHoleRight, CopyExtentRight, WritesHold DEF Holds
<1>14. CASE Reader!Again \/ Reader!Fails \/ Reader!PastLastPosition
  <2>1. UNCHANGED <<closed, pos, state, newfile, opened, extent_at, eof, data, done>> /\ err' # "stream"
    BY <1>14 DEF Reader!Again, Reader!Fails, Reader!PastLastPosition, Reader!In, Reader!Throw,
                 Reader!input_vars, Reader!Running
  <2> QED
    BY <1>3, <2>1, QuietRight
<1> QED
  BY <1>4, <1>5, <1>6, <1>7, <1>8, <1>9, <1>10, <1>11, <1>12, <1>13, <1>14
     DEF Reader!ReaderNext, Reader!Iterate, Reader!Handle, Reader!ReadsEnd, Reader!readExtent,
         Reader!sendExtent, Reader!sendNotSupported

\* Only extents are started twice, and nothing else is refused for it.
StartedTwice ==
    /\ twice => InExtent
    /\ err = "botched" => pos > 0 /\ Is(pos, "EXTENT")

LEMMA StartedTwiceRight ==
    ASSUME ReaderIsRight, StartedTwice, UNCHANGED vars, Reader!ReaderNext PROVE StartedTwice'
<1>1. stream' = stream /\ err = "none" /\ (InExtent => pos > 0 /\ Is(pos, "EXTENT"))
  <2>1. err = "none"
    <3>1. CASE Reader!InputEnds \/ Reader!Again \/ Reader!Fails \/ Reader!PastLastPosition
      BY <3>1 DEF Reader!InputEnds, Reader!Again, Reader!Fails, Reader!PastLastPosition, Reader!In, Reader!Running
    <3>2. CASE Reader!doReadHeader \/ Reader!readPacket \/ Reader!newFileCreate \/ Reader!handleFileMeta
      BY <3>2 DEF Reader!doReadHeader, Reader!readPacket, Reader!newFileCreate, Reader!handleFileMeta,
                  Reader!Get, Reader!In, Reader!Running
    <3>3. CASE Reader!getFileEnd \/ Reader!getSnapshotList \/ Reader!startExtent \/ Reader!skipExtent
      BY <3>3 DEF Reader!getFileEnd, Reader!getSnapshotList, Reader!startExtent, Reader!skipExtent,
                  Reader!Get, Reader!In, Reader!Running
    <3>4. CASE Reader!readExtent \/ Reader!sendExtent \/ Reader!sendNotSupported \/ Reader!zeroExtent
      BY <3>4 DEF Reader!readExtent, Reader!sendExtent, Reader!sendNotSupported, Reader!zeroExtent,
                  Reader!In, Reader!Running
    <3>5. CASE Reader!punchHole \/ Reader!getExtentCopyInfo
      BY <3>5 DEF Reader!punchHole, Reader!getExtentCopyInfo, Reader!Get, Reader!In, Reader!Running
    <3> QED
      BY <3>1, <3>2, <3>3, <3>4, <3>5
         DEF Reader!ReaderNext, Reader!Iterate, Reader!Handle, Reader!ReadsEnd
  <2> QED
    BY <2>1 DEF vars, ReaderIsRight, StateFits, Takes, InExtent, Is
<1>2. ASSUME NEW s, NEW r, Reader!Return(s, r) PROVE StartedTwice'
  <2>1. pos' = pos /\ twice' = FALSE /\ err' = IF Reader!StartsTwice /\ r = "more" THEN "botched" ELSE err
    BY <1>2 DEF Reader!Return
  <2>2. Reader!StartsTwice => InExtent
    BY DEF StartedTwice, Reader!StartsTwice, InExtent
  <2> QED
    BY <1>1, <2>1, <2>2 DEF StartedTwice, Is
<1>3. ASSUME UNCHANGED <<pos, state>>, twice' = twice \/ twice' = FALSE, err' # "botched" PROVE StartedTwice'
  BY <1>3 DEF StartedTwice, InExtent
<1>4. ASSUME NEW why \in {"stream", "callback"}, Reader!Throw(why) PROVE StartedTwice'
  BY <1>3, <1>4 DEF Reader!Throw
<1>5. ASSUME NEW n, NEW r, Reader!Wrote(n, r) PROVE StartedTwice'
  BY <1>2, <1>5 DEF Reader!Wrote
<1>6. CASE Reader!InputEnds \/ Reader!Again
  BY <1>1, <1>3, <1>6 DEF Reader!InputEnds, Reader!Again
<1>7. CASE Reader!Fails \/ Reader!PastLastPosition
  BY <1>4, <1>7 DEF Reader!Fails, Reader!PastLastPosition
<1>8. CASE Reader!doReadHeader
  <2>1. CASE stream[1].type = "HEADER"
    BY <1>1, <1>8, <2>1 DEF Reader!doReadHeader, Reader!In, StartedTwice, InExtent
  <2>2. CASE stream[1].type # "HEADER"
    BY <1>4, <1>8, <2>2 DEF Reader!doReadHeader
  <2> QED
    BY <2>1, <2>2
<1>9. CASE Reader!readPacket
  <2>1. ~ twice' /\ err' \in {"stream", "none"}
    BY <1>1, <1>9 DEF Reader!readPacket, Reader!In, StartedTwice, InExtent
  <2> QED
    BY <2>1 DEF StartedTwice
<1>10. CASE Reader!newFileCreate \/ Reader!handleFileMeta \/ Reader!getFileEnd \/ Reader!getSnapshotList
  BY <1>2, <1>4, <1>10
     DEF Reader!newFileCreate, Reader!handleFileMeta, Reader!getFileEnd, Reader!getSnapshotList
<1>11. CASE Reader!startExtent
  <2>1. CASE ~ Reader!ExtentOK
    BY <1>4, <1>11, <2>1 DEF Reader!startExtent
  <2>2. CASE Reader!ExtentOK
    <3>1. /\ err' = err
          /\ state' = CASE Reader!pkt.flags = "ZERO" -> "Extent_ZeroOut"
                        [] Reader!pkt.flags = "HOLE" -> "Extent_PunchHole"
                        [] Reader!pkt.flags = "COPY" -> "Extent_GetCopyInfo"
                        [] OTHER -> "Extent_Read"
      BY <1>11, <2>2 DEF Reader!startExtent
    <3> QED
      BY <1>1, <3>1 DEF StartedTwice, InExtent
  <2> QED
    BY <2>1, <2>2
<1>12. CASE Reader!skipExtent \/ Reader!punchHole
  BY <1>2, <1>12 DEF Reader!skipExtent, Reader!punchHole
<1>13. CASE Reader!BufferedData \/ Reader!sendExtent \/ Reader!zeroExtent
  BY <1>5, <1>13 DEF Reader!BufferedData, Reader!sendExtent, Reader!zeroExtent
<1>14. CASE Reader!getExtentCopyInfo
  BY <1>2, <1>4, <1>14 DEF Reader!getExtentCopyInfo
<1> QED
  BY <1>6, <1>7, <1>8, <1>9, <1>10, <1>11, <1>12, <1>13, <1>14
     DEF Reader!ReaderNext, Reader!Iterate, Reader!Handle, Reader!ReadsEnd, Reader!readExtent,
         Reader!sendNotSupported

------------------------------------------------------------------------------
\* The invariant of a transfer.
Right == WriterIsRight /\ ReaderIsRight /\ Holds

\* The reader has not begun, and has nothing to begin with while the writer goes on.
NotBegun == Reader!Start /\ (closed = "open" \/ (closed \in {"whole", "cut"} /\ stream # <<>>))

\* Then the invariant holds if the writer is right.
LEMMA NotBegunIsRight == WriterIsRight /\ NotBegun => Right
<1> SUFFICES ASSUME WriterIsRight, NotBegun PROVE Right
  OBVIOUS
<1>1. ReaderIsRight
  BY StartIsRight DEF NotBegun
<1>2. DataShape /\ DOMAIN opened = {}
  BY DEF NotBegun, Reader!Start, DataShape, Reader!Log, Log
<1>3. Holds
  BY <1>2 DEF Holds, DataRight
<1> QED
  BY <1>1, <1>3 DEF Right

\* The same for the next state.
LEMMA NotBegunIsRightNext == WriterIsRight' /\ NotBegun' => Right'
  BY NotBegunIsRight, PTL

\* Every step of the writer keeps what is known of it.
LEMMA NextWriterIsRight == ASSUME WriterIsRight, [Next]_vars PROVE WriterIsRight'
<1>1. Laid /\ Sending /\ Copying /\ Meaning /\ Protocol /\ Order /\ IsTransfer(files)
  BY DEF WriterIsRight, Laid, Meaning
<1>2. Laid' /\ Sending' /\ Copying' /\ Meaning' /\ Protocol'
  BY <1>1, NextLaid, NextSending, NextCopying, NextMeaning, NextProtocol
<1> QED
  BY <1>2 DEF WriterIsRight

\* The invariant holds always.
LEMMA AlwaysRight == TransferSpec => []Right
<1>1. TransferInit => Right
  <2> SUFFICES ASSUME TransferInit PROVE Right
    OBVIOUS
  <2>1. Init /\ NotBegun
    BY DEF TransferInit, NotBegun
  <2>2. WriterIsRight
    BY <2>1, InitLaid, InitSending, InitCopying, InitMeaning, InitProtocol DEF WriterIsRight
  <2> QED
    BY <2>1, <2>2, NotBegunIsRight
<1>2. Right /\ [TransferNext]_<<vars, closed, send, reader_vars>> => Right'
  <2> SUFFICES ASSUME Right, [TransferNext]_<<vars, closed, send, reader_vars>> PROVE Right'
    OBVIOUS
  <2>1. WriterIsRight /\ ReaderIsRight /\ Holds /\ EndRight
    BY DEF Right, ReaderIsRight
  <2>2. CASE Write
    <3>1. WriterIsRight'
      BY <2>1, <2>2, NextWriterIsRight DEF Write
    <3>2. Reader!Start
      BY <2>1, <2>2 DEF EndRight, Write
    <3>3. NotBegun'
      BY <2>2, <3>2 DEF NotBegun, Write, Reader!Start, reader_vars
    <3> QED
      BY <3>1, <3>3, NotBegunIsRightNext
  <2>3. CASE Close
    <3>1. WriterIsRight'
      BY <2>1, <2>3, NextWriterIsRight DEF Close
    <3>2. Reader!Start
      BY <2>1, <2>3 DEF EndRight, Close
    <3>3. stream' # <<>> /\ closed' \in {"whole", "cut"}
      BY <2>3 DEF Close, vars
    <3>4. NotBegun'
      BY <2>3, <3>2, <3>3 DEF NotBegun, Close, Reader!Start, reader_vars
    <3> QED
      BY <3>1, <3>4, NotBegunIsRightNext
  <2>4. CASE Read
    <3>1. WriterIsRight'
      BY <2>1, <2>4, NextWriterIsRight DEF Read
    <3>2. closed # "open" /\ Reader!ReaderNext /\ UNCHANGED vars
      BY <2>4 DEF Read
    <3> QED
      BY <2>1, <3>1, <3>2, ReadRight DEF Right
  <2>5. CASE UNCHANGED <<vars, closed, send, reader_vars>>
    <3>1. WriterIsRight'
      BY <2>1, <2>5, NextWriterIsRight
    <3>2. UNCHANGED <<vars, closed, pos, state, newfile, opened, extent_at, err, eof, done, data>>
      BY <2>5 DEF reader_vars
    <3>3. CASE closed = "open"
      <4>1. Reader!Start
        BY <2>1, <3>3 DEF EndRight
      <4>2. NotBegun'
        BY <2>5, <3>3, <4>1 DEF NotBegun, Reader!Start, reader_vars
      <4> QED
        BY <3>1, <4>2, NotBegunIsRightNext
    <3>4. CASE closed # "open"
      <4>1. ReaderIsRight'
        BY <2>1, <3>2, <3>4, QuietRight DEF EndRight
      <4>2. \A f, x : Written(f, x)' <=> Written(f, x)
        BY <3>2 DEF Written, Handled, Covers, Is, vars
      <4> QED
        BY <2>1, <3>1, <3>2, <4>1, <4>2, HoldsStays DEF Right
    <3> QED
      BY <3>3, <3>4
  <2> QED
    BY <2>2, <2>3, <2>4, <2>5 DEF TransferNext
<1> QED
  BY <1>1, <1>2, PTL DEF TransferSpec

\* A byte that fits is the one that is meant.
LEMMA FitsIsMeant ==
    ASSUME WriterIsRight, NEW byte, NEW i, NEW x, Fits(byte, i, x)
    PROVE  Meant(byte) = Wanted[i][x]
<1>1. CASE byte \notin Holder /\ byte = Wanted[i][x]
  BY <1>1 DEF Meant
<1>2. ASSUME NEW s \in 1 .. calls, IsNew(s), byte \in Holder, byte.file = ids[s],
             Wanted[s][byte.logical] = Wanted[i][x]
      PROVE  Meant(byte) = Wanted[i][x]
  <2> DEFINE k == CHOOSE k \in DOMAIN ids : ids[k] = byte.file /\ files[k].mode # "HARD"
  <2>1. DOMAIN ids = 1 .. calls /\ Order
    BY LenProperties DEF WriterIsRight, Laid, Order, WriterType
  <2>2. k \in 1 .. calls /\ ids[k] = byte.file /\ IsNew(k)
    BY <1>2, <2>1 DEF IsNew
  <2>3. Meant(byte) = Wanted[k][byte.logical]
    BY <1>2 DEF Meant
  <2> HIDE DEF k
  <2>4. k = s
    BY <1>2, <2>1, <2>2, UniqueIds
  <2> QED
    BY <1>2, <2>3, <2>4
<1> QED
  BY <1>1, <1>2 DEF Fits

\* What a transfer makes of a file that its receiver is told to be finished has
\* all bytes of the source and no others, for every plan of files, all parts
\* that extents are mapped, shared, merged, sent and written in, and wherever
\* the stream ends.
THEOREM FinishedFilesAreAlwaysRight == TransferSpec => []FinishedFilesAreRight
<1>1. Right => FinishedFilesAreRight
  <2> SUFFICES ASSUME Right, AllWanted, NEW k \in DOMAIN ids, files[k].mode = "REG", ids[k] \in done,
                      NEW x \in 0 .. files[k].size - 1
               PROVE  Meant(data[ids[k]][x]) = Wanted[k][x]
    BY DEF FinishedFilesAreRight
  <2>1. /\ k \in 1 .. calls /\ IsNew(k) /\ ids[k] \in Nat /\ files[k].size \in Nat /\ AllCovered
        /\ WriterType /\ IsTransfer(files)
    <3>1. k \in 1 .. calls
      BY LenProperties DEF Right, WriterIsRight, Laid, Order, WriterType
    <3> QED
      BY <3>1, PlanOfCalls DEF Right, WriterIsRight, Laid, Order, Control, Tiling, Tiled, Meaning, IsNew, AreExtents
  <2>2. x \in Nat /\ x < files[k].size /\ x \in Log
    BY <2>1, WantedFits
  <2>3. PICK j \in 1 .. Handled : Ends(j, ids[k])
    BY DEF Right, ReaderIsRight, DoneRight
  <2>4. /\ Handled \in Nat /\ Len(stream) \in Nat /\ DOMAIN stream = 1 .. Len(stream) /\ Handled <= Len(stream)
    BY StreamLength DEF Right, ReaderIsRight, StateFits, Handled
  <2>5. j \in DOMAIN stream /\ j \in Nat
    BY <2>4
  <2>6. ids[k] \in DOMAIN opened
    <3>1. AnnouncedBefore(ids[k], j)
      BY <2>3, <2>5, PacketsKnown DEF Right, Ends
    <3>2. AnnouncedBefore(ids[k], Handled + 1)
      <4>1. 1 .. j - 1 \subseteq 1 .. (Handled + 1) - 1
        BY <2>4
      <4> QED
        BY <3>1, <4>1 DEF AnnouncedBefore
    <3> QED
      BY <3>2 DEF Right, ReaderIsRight, OpenedRight
  <2>7. ByteRight(k, x)
    BY <2>1, <2>2, <2>6 DEF Right, Holds, DataRight
  <2>8. CASE Written(ids[k], x)
    <3>1. Fits(data[ids[k]][x], k, x)
      BY <2>7, <2>8 DEF ByteRight
    <3> QED
      BY <3>1, FitsIsMeant DEF Right
  <2>9. CASE ~ Written(ids[k], x)
    <3>1. data[ids[k]][x] = Zero
      BY <2>7, <2>9 DEF ByteRight
    <3>2. x >= SentUpTo(ids[k])
      <4> SUFFICES ASSUME x < SentUpTo(ids[k]) PROVE FALSE
        BY <2>1, <2>2 DEF AllCovered
      <4>1. PICK h \in DOMAIN stream : Covers(h, ids[k], x)
        BY <2>1, <2>2 DEF AllCovered
      <4>2. ~ (h \in 1 .. Handled)
        BY <2>9, <4>1 DEF Written
      <4>3. j \in 1 .. h - 1
        BY <2>4, <4>2
      <4>4. WholeAt(h)
        BY <4>1, WholeIsWholeAt DEF Right, WriterIsRight, Laid, Order, AllWhole
      <4> QED
        BY <2>3, <4>1, <4>3, <4>4 DEF WholeAt, Covers, Ends
    <3>3. Wanted[k][x] = Zero
      BY <2>1, <2>2, <2>3, <2>5, <3>2, BehindIsZero DEF Right
    <3> QED
      BY <3>1, <3>3, ZeroAssumption DEF Meant
  <2> QED
    BY <2>8, <2>9
<1> QED
  BY <1>1, AlwaysRight, PTL

LEMMA AlwaysStartedTwice == TransferSpec => []StartedTwice
<1>1. TransferInit => StartedTwice
  BY DEF TransferInit, Reader!Start, StartedTwice
<1>2. Right /\ StartedTwice /\ [TransferNext]_<<vars, closed, send, reader_vars>> => StartedTwice'
  <2> SUFFICES ASSUME Right, StartedTwice, [TransferNext]_<<vars, closed, send, reader_vars>>
               PROVE  StartedTwice'
    OBVIOUS
  <2>1. CASE Write \/ Close
    <3>1. Reader!Start /\ UNCHANGED reader_vars
      BY <2>1 DEF Write, Close, Right, ReaderIsRight, EndRight
    <3>2. ~ twice' /\ err' = "none"
      BY <3>1 DEF Reader!Start, reader_vars
    <3> QED
      BY <3>2 DEF StartedTwice
  <2>2. CASE Read
    BY <2>2, StartedTwiceRight DEF Read, Right
  <2>3. CASE UNCHANGED <<vars, closed, send, reader_vars>>
    BY <2>3 DEF StartedTwice, InExtent, Is, vars, reader_vars
  <2> QED
    BY <2>1, <2>2, <2>3 DEF TransferNext
<1> QED
  BY <1>1, <1>2, AlwaysRight, PTL DEF TransferSpec

\* FiesReader_iterate finds nothing wrong in what FiesWriter puts: what it
\* refuses besides is an extent that it has started twice.
THEOREM WrittenIsAlwaysUnderstood == TransferSpec => []WrittenIsUnderstood
<1>1. Right /\ StartedTwice => WrittenIsUnderstood
  BY DEF Right, ReaderIsRight, EndRight, StartedTwice, WrittenIsUnderstood, Is
<1> QED
  BY <1>1, AlwaysRight, AlwaysStartedTwice, PTL

\* A receiver that is told the end of a whole stream has been told the end of
\* every file in it.
THEOREM NothingIsEverForgotten == TransferSpec => []NothingIsForgotten
<1>1. Right => NothingIsForgotten
  <2> SUFFICES ASSUME Right, eof, closed = "whole", pc = "idle", NEW k \in DOMAIN ids, files[k].mode # "HARD"
               PROVE  ids[k] \in done
    BY DEF NothingIsForgotten
  <2>1. k \in 1 .. calls /\ IsNew(k)
    BY LenProperties DEF Right, WriterIsRight, Laid, Order, WriterType, IsNew
  <2>2. PICK j \in DOMAIN stream : Ends(j, ids[k])
    BY <2>1 DEF Right, WriterIsRight, Laid, Order, Ended
  <2>3. Handled = Len(stream)
    BY DEF Right, ReaderIsRight, EndRight, Handled
  <2> QED
    BY <2>2, <2>3, StreamLength DEF Right, ReaderIsRight, DoneRight
<1> QED
  BY <1>1, AlwaysRight, PTL
==============================================================================
