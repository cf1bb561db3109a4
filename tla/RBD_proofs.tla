------------------------------ MODULE RBD_proofs -------------------------------
(***************************************************************************)
(* fies-rbd's incremental files, for all images, calls and sizes of        *)
(* batches: what a diff is taken from is the file that was sent before     *)
(* (Chain), files that only hold differences are right (Contents), and all *)
(* that was asked for is sent (Sends).                                     *)
(***************************************************************************)
EXTENDS RBD, SequenceTheorems, WellFoundedInduction, TLAPS

InFile == pc \in {"extents", "mapping"}
InImage == InFile \/ pc \in {"snapshots", "report"}

\* The images there are, and the volumes given, are those of a call.
Given ==
    \E c \in Cases : image = c.image /\ args = c.args

IsFile(f) ==
    /\ DOMAIN f = {"image", "version", "ref", "ended", "got"}
    /\ f.image \in DOMAIN image
    /\ f.version \in 1 .. Len(image[f.image])
    /\ DOMAIN f.got = 0 .. Version(f.image, f.version).size - 1

SentType ==
    /\ sent \in Seq(Range(sent))
    /\ \A f \in 1 .. Len(sent) : IsFile(sent[f])

IsImage(r) ==
    r = [include_self |-> r.include_self, snapshots |-> r.snapshots,
         last_file_id |-> r.last_file_id, lastsize |-> r.lastsize]

ImagesType ==
    /\ images = [m \in DOMAIN images |-> images[m]]
    /\ \A m \in DOMAIN images : IsImage(images[m])
    /\ DOMAIN images \subseteq DOMAIN image
    /\ todo \subseteq DOMAIN images
    /\ added \in Nat

\* Images that add_image was not called for have no parent yet.
FreshHaveNoParent ==
    /\ \A m \in todo : images[m].last_file_id = None
    /\ pc \in {"main", "args"} => \A m \in DOMAIN images : images[m].last_file_id = None

\* The current image, and how far add_image has come with it.
LoopType ==
    InImage =>
      /\ cur \in DOMAIN images \ todo
      /\ i \in 1 .. Len(image[cur])

\* The current file is the next snapshot or the last state.
CurrentFile ==
    InFile =>
      /\ sent # <<>>
      /\ file.image = cur /\ ~ file.ended
      /\ file.version = i \/ file.version = Len(image[cur])

\* The parent is the file of the snapshot the next diff is taken from, older
\* than the file that is or will be sent.
ParentIsDiffBase ==
    InFile \/ pc = "snapshots" =>
      IF parent = None THEN previous_snapshot = None
      ELSE /\ parent \in 1 .. Len(sent)
           /\ sent[parent].image = cur /\ sent[parent].ended
           /\ sent[parent].version < (IF InFile THEN file.version ELSE i)
           /\ previous_snapshot = Version(cur, sent[parent].version).name
           /\ lastsize = Version(cur, sent[parent].version).size

Chain ==
    /\ Given /\ SentType /\ ImagesType /\ FreshHaveNoParent
    /\ LoopType /\ CurrentFile /\ ParentIsDiffBase
------------------------------------------------------------------------------
Block(b) == Version(cur, file.version).blocks[b]

\* Files whose end was sent, and references, are right.
EndedAreRight ==
    \A f \in 1 .. Len(sent) :
      (sent[f].ended \/ sent[f].ref) /\ NeverGrown(sent[f].image) =>
        \A b \in DOMAIN sent[f].got :
          sent[f].got[b] = Version(sent[f].image, sent[f].version).blocks[b]

Extent == [flags : {"HOLE", "DATA", "COPY"}, logical : Nat, length : Nat]

MeansImage(e) ==
    /\ e.flags = "COPY" => parent # None
    /\ \A b \in e.logical .. End(e) - 1 : Received(e, b) = Block(b)

\* Extents that follow what was sent and each other without a gap, and mean what
\* the image has.
Goes(x) ==
    /\ x \in Seq(Extent)
    /\ x # <<>> => x[1].logical = at
    /\ \A k \in 1 .. Len(x) :
         /\ End(x[k]) <= filesize
         /\ k < Len(x) => x[k + 1].logical = End(x[k])
         /\ MeansImage(x[k])

GoesTo(x) == IF x = <<>> THEN at ELSE End(x[Len(x)])

\* Of the current file, what was sent is right, and what is to be sent.
BatchIsRight ==
    InFile /\ NeverGrown(cur) =>
      /\ at \in 0 .. filesize
      /\ \A b \in 0 .. at - 1 : file.got[b] = Block(b)
      /\ Goes(exs)

\* While there is room, all was put into the batch that librbd has given.
MappingIsRight ==
    pc = "mapping" /\ NeverGrown(cur) =>
      /\ lastend = GoesTo(exs)
      /\ iterated \in Nat /\ lastend <= iterated
      /\ Len(exs) <= BufSize
      /\ Len(exs) < BufSize => iterated = lastend

Contents == EndedAreRight /\ BatchIsRight /\ MappingIsRight
------------------------------------------------------------------------------
\* A sequence of anything with one more, and one of its elements replaced.
LEMMA Appended ==
  ASSUME NEW s, s \in Seq(Range(s)), NEW e
  PROVE  /\ Append(s, e) \in Seq(Range(Append(s, e)))
         /\ Len(s) \in Nat /\ Len(Append(s, e)) = Len(s) + 1
         /\ \A k \in 1 .. Len(s) : Append(s, e)[k] = s[k]
         /\ Append(s, e)[Len(s) + 1] = e
         /\ Append(s, e) # <<>>
<1> DEFINE S == Range(s) \cup {e}
<1>1. s \in Seq(S)
  BY SeqMonotonic
<1> HIDE DEF S
<1>2. e \in S
  BY DEF S
<1>3. /\ Append(s, e) \in Seq(S) /\ Append(s, e) # <<>>
      /\ Len(Append(s, e)) = Len(s) + 1
      /\ \A k \in 1 .. Len(s) : Append(s, e)[k] = s[k]
      /\ Append(s, e)[Len(s) + 1] = e
  BY <1>1, <1>2, AppendProperties
<1>4. Append(s, e) \in Seq(Range(Append(s, e)))
  BY <1>3, SeqOfRange
<1>5. Len(s) \in Nat
  BY <1>1, LenProperties
<1>6. QED
  BY <1>3, <1>4, <1>5

LEMMA Replaced ==
  ASSUME NEW s, s \in Seq(Range(s)), NEW n \in 1 .. Len(s), NEW e
  PROVE  /\ [s EXCEPT ![n] = e] \in Seq(Range([s EXCEPT ![n] = e]))
         /\ Len([s EXCEPT ![n] = e]) = Len(s)
         /\ \A k \in 1 .. Len(s) : [s EXCEPT ![n] = e][k] = IF k = n THEN e ELSE s[k]
<1> DEFINE S == Range(s) \cup {e}
<1>1. s \in Seq(S)
  BY SeqMonotonic
<1> HIDE DEF S
<1>2. e \in S
  BY DEF S
<1>3. /\ [s EXCEPT ![n] = e] \in Seq(S)
      /\ Len([s EXCEPT ![n] = e]) = Len(s)
      /\ \A k \in 1 .. Len(s) : [s EXCEPT ![n] = e][k] = IF k = n THEN e ELSE s[k]
  BY <1>1, <1>2, ExceptSeq
<1>4. [s EXCEPT ![n] = e] \in Seq(Range([s EXCEPT ![n] = e]))
  BY <1>3, SeqOfRange
<1>5. QED
  BY <1>3, <1>4

LEMMA LastOfNonEmpty ==
  ASSUME NEW s, s \in Seq(Range(s)), s # <<>>
  PROVE  Last(s) = s[Len(s)] /\ Len(s) \in Nat \ {0}
BY EmptySeq DEF Last

\* What CasesAssumption says of the images there are.
LEMMA GivenImages ==
  ASSUME Given, NEW m \in DOMAIN image
  PROVE  /\ Len(image[m]) \in Nat \ {0}
         /\ \A k \in 1 .. Len(image[m]) :
              /\ Version(m, k).size \in Nat
              /\ Version(m, k).name # None
              /\ Index(m, Version(m, k).name) = k
<1>1. /\ Len(image[m]) \in Nat \ {0}
      /\ \A k \in 1 .. Len(image[m]) : Version(m, k).size \in Nat /\ Version(m, k).name # None
      /\ \A k, l \in 1 .. Len(image[m]) : Version(m, k).name = Version(m, l).name => k = l
  BY CasesAssumption DEF Given, Version
<1>2. ASSUME NEW k \in 1 .. Len(image[m]) PROVE Index(m, Version(m, k).name) = k
  BY <1>1, <1>2 DEF Index
<1>3. QED
  BY <1>1, <1>2

LEMMA GivenArgs ==
  ASSUME Given
  PROVE  Len(args) \in Nat /\ \A a \in 1 .. Len(args) : args[a].image \in DOMAIN image
BY CasesAssumption DEF Given
------------------------------------------------------------------------------
LEMMA InitChain == Init => Chain
<1> SUFFICES ASSUME Init PROVE Chain
  OBVIOUS
<1>1. Given
  BY DEF Init, Given
<1>2. SentType
  <2>1. <<>> \in Seq(Range(<<>>)) /\ Len(<<>>) = 0
    BY EmptySeq
  <2>2. QED
    BY <2>1 DEF Init, SentType
<1>3. images = <<>> /\ DOMAIN images = {} /\ pc = "main"
  BY DEF Init
<1>4. ImagesType /\ FreshHaveNoParent
  BY <1>3 DEF Init, ImagesType, FreshHaveNoParent
<1>5. QED
  BY <1>1, <1>2, <1>3, <1>4 DEF Chain, InImage, InFile, LoopType, CurrentFile, ParentIsDiffBase

\* Steps outside of an image, or that leave it, and send nothing.
LEMMA OutsideChain ==
  ASSUME Chain, ~ InImage', pc' \notin {"main", "args"},
         UNCHANGED <<image, args, sent, images, added>>, todo' \subseteq todo
  PROVE  Chain'
<1>1. Given' /\ SentType' /\ ImagesType'
  BY DEF Chain, Given, SentType, IsFile, ImagesType, IsImage, Version
<1>2. QED
  BY <1>1 DEF Chain, FreshHaveNoParent, LoopType, CurrentFile, ParentIsDiffBase, InImage, InFile

\* Steps within a file that send nothing.
LEMMA MappingChain ==
  ASSUME Chain, InFile, InFile',
         UNCHANGED <<image, args, added, images, todo, loop_vars, sent>>
  PROVE  Chain'
<1>1. Given' /\ SentType' /\ ImagesType'
  BY DEF Chain, Given, SentType, IsFile, ImagesType, IsImage, Version
<1>2. UNCHANGED <<cur, i, previous_snapshot, file, parent, lastsize>>
  BY DEF loop_vars, file, parent, lastsize
<1>3. FreshHaveNoParent' /\ LoopType'
  BY <1>2 DEF Chain, FreshHaveNoParent, LoopType, InFile, InImage
<1>4. CurrentFile' /\ ParentIsDiffBase'
  BY <1>2 DEF Chain, CurrentFile, ParentIsDiffBase, InFile, Version
<1>5. QED
  BY <1>1, <1>3, <1>4 DEF Chain

\* What does not touch the parent of an image.
LEMMA ImageChanged ==
  ASSUME NEW r, IsImage(r), NEW e
  PROVE  /\ IsImage([r EXCEPT !.include_self = e])
         /\ [r EXCEPT !.include_self = e].last_file_id = r.last_file_id
         /\ IsImage([r EXCEPT !.snapshots = e])
         /\ [r EXCEPT !.snapshots = e].last_file_id = r.last_file_id
         /\ [r EXCEPT !.snapshots = e].lastsize = r.lastsize
BY DEF IsImage

\* What gPools is while main adds to it.
IsTable(t) ==
    /\ t = [m \in DOMAIN t |-> t[m]]
    /\ DOMAIN images \subseteq DOMAIN t /\ DOMAIN t \subseteq DOMAIN image
    /\ \A m \in DOMAIN t : IsImage(t[m]) /\ t[m].last_file_id = None

LEMMA TableChanged ==
  ASSUME NEW t, IsTable(t), NEW m \in DOMAIN t, NEW r, IsImage(r), r.last_file_id = None
  PROVE  IsTable([t EXCEPT ![m] = r])
<1> DEFINE u == [t EXCEPT ![m] = r]
<1>1. DOMAIN u = DOMAIN t /\ u = [x \in DOMAIN u |-> u[x]]
  BY DEF IsTable
<1>2. \A x \in DOMAIN t : u[x] = IF x = m THEN r ELSE t[x]
  BY DEF IsTable
<1> HIDE DEF u
<1>3. IsTable(u)
  BY <1>1, <1>2 DEF IsTable
<1>4. QED
  BY <1>3 DEF u

LEMMA AddChain == Chain /\ cephrbd_add => Chain'
<1> SUFFICES ASSUME Chain, cephrbd_add PROVE Chain'
  OBVIOUS
<1>1. /\ pc = "args" /\ pc' = "args" /\ added' = added + 1 /\ added \in Nat /\ added < Len(args)
      /\ UNCHANGED <<image, args, todo, sent>>
  BY DEF cephrbd_add, Chain, ImagesType, given
<1>2. Given' /\ SentType' /\ LoopType' /\ CurrentFile' /\ ParentIsDiffBase'
  BY <1>1 DEF Chain, Given, SentType, IsFile, Version, LoopType, CurrentFile, ParentIsDiffBase,
              InImage, InFile
<1> DEFINE a == args[added + 1]
           table == Pool_addImage(a.image, a.snap = Self /\ opt_to = None)
<1>3. a.image \in DOMAIN image
  BY <1>1, GivenArgs DEF Chain
<1>4. IsTable(images)
  BY <1>1 DEF Chain, ImagesType, FreshHaveNoParent, IsTable
<1>5. IsTable(table) /\ a.image \in DOMAIN table
  <2>1. CASE a.image \in DOMAIN images
    <3>1. table = [images EXCEPT ![a.image] = [images[a.image] EXCEPT !.include_self = TRUE]]
      BY <2>1 DEF Pool_addImage
    <3>2. IsImage([images[a.image] EXCEPT !.include_self = TRUE])
          /\ [images[a.image] EXCEPT !.include_self = TRUE].last_file_id = None
      <4> DEFINE q == images[a.image]
      <4>1. IsImage(q) /\ q.last_file_id = None
        BY <1>4, <2>1 DEF IsTable
      <4> HIDE DEF q
      <4>2. /\ IsImage([q EXCEPT !.include_self = TRUE])
            /\ [q EXCEPT !.include_self = TRUE].last_file_id = None
        BY <4>1, ImageChanged
      <4>3. QED
        BY <4>2 DEF q
    <3>3. QED
      <4> DEFINE r == [images[a.image] EXCEPT !.include_self = TRUE]
      <4>1. IsImage(r) /\ r.last_file_id = None /\ table = [images EXCEPT ![a.image] = r]
        BY <3>1, <3>2
      <4> HIDE DEF r, table
      <4>2. IsTable(table)
        BY <1>4, <2>1, <4>1, TableChanged
      <4>3. a.image \in DOMAIN table
        BY <2>1, <4>1
      <4>4. QED
        BY <4>2, <4>3
  <2>2. CASE a.image \notin DOMAIN images
    BY <1>3, <1>4, <2>2 DEF Pool_addImage, IsImage, Image_new, IsTable
  <2>3. QED
    BY <2>1, <2>2
<1> HIDE DEF table
<1>6. IsTable(Image_addSnapshot(table, a.image, a.snap))
  <2> DEFINE r == [table[a.image] EXCEPT !.snapshots = @ \cup {a.snap}]
  <2>1. Image_addSnapshot(table, a.image, a.snap) = [table EXCEPT ![a.image] = r]
    BY DEF Image_addSnapshot
  <2>2. IsImage(r) /\ r.last_file_id = None
    <3> DEFINE q == table[a.image]
               e == q.snapshots \cup {a.snap}
    <3>1. IsImage(q) /\ q.last_file_id = None
      BY <1>5 DEF IsTable
    <3> HIDE DEF q, e
    <3>2. IsImage([q EXCEPT !.snapshots = e]) /\ [q EXCEPT !.snapshots = e].last_file_id = None
      BY <3>1, ImageChanged
    <3>3. QED
      BY <3>2 DEF q, e
  <2> HIDE DEF r
  <2>3. QED
    BY <1>5, <2>1, <2>2, TableChanged
<1>7. images' = images \/ images' = table \/ images' = Image_addSnapshot(table, a.image, a.snap)
  BY DEF cephrbd_add, table
<1>8. IsTable(images')
  BY <1>4, <1>5, <1>6, <1>7
<1>9. ImagesType' /\ FreshHaveNoParent'
  BY <1>1, <1>8 DEF Chain, ImagesType, FreshHaveNoParent, IsImage, IsTable
<1>10. QED
  BY <1>2, <1>9 DEF Chain

LEMMA MainChain == Chain /\ (CheckOptions \/ AddFails \/ AllAdded) => Chain'
<1> SUFFICES ASSUME Chain, CheckOptions \/ AddFails \/ AllAdded PROVE Chain'
  OBVIOUS
<1>1. /\ pc \in {"main", "args"} /\ ~ InImage'
      /\ UNCHANGED <<image, args, added, images, sent>> /\ todo' \in {todo, DOMAIN images}
  BY DEF Exited, Status, CheckOptions, AddFails, AllAdded, given, InImage, InFile
<1>2. Given' /\ SentType' /\ ImagesType'
  BY <1>1 DEF Chain, Given, SentType, IsFile, ImagesType, IsImage, Version
<1>3. FreshHaveNoParent'
  BY <1>1 DEF Chain, FreshHaveNoParent
<1>4. QED
  BY <1>1, <1>2, <1>3 DEF Chain, LoopType, CurrentFile, ParentIsDiffBase, InImage, InFile

LEMMA AddImageChain == Chain /\ add_image => Chain'
<1> SUFFICES ASSUME Chain, add_image PROVE Chain'
  OBVIOUS
<1>1. /\ UNCHANGED <<image, args, added, images, sent>> /\ pc' = "snapshots"
      /\ previous_snapshot' = None
  BY DEF add_image, given
<1>2. PICK m \in todo : todo' = todo \ {m} /\ cur' = m /\ i' = StartIndex(m)
  BY DEF add_image
<1>3. m \in DOMAIN images /\ m \in DOMAIN image
  BY DEF Chain, ImagesType
<1>4. StartIndex(m) \in 1 .. Len(image[m])
  <2>1. Len(image[m]) \in Nat \ {0}
    BY <1>3, GivenImages DEF Chain
  <2>2. CASE Exists(m, opt_from)
    <3>1. PICK k \in 1 .. Len(image[m]) : Version(m, k).name = opt_from
      BY <2>1, <2>2 DEF Exists, SnapCount
    <3>2. Index(m, opt_from) \in 1 .. Len(image[m])
      BY <1>3, <3>1, GivenImages DEF Chain
    <3>3. QED
      BY <2>1, <3>2 DEF StartIndex
  <2>3. QED
    BY <2>1, <2>2 DEF StartIndex
<1>5. Given' /\ SentType' /\ ImagesType'
  BY <1>1, <1>2 DEF Chain, Given, SentType, IsFile, ImagesType, IsImage, Version
<1>6. FreshHaveNoParent' /\ LoopType'
  BY <1>1, <1>2, <1>3, <1>4 DEF Chain, FreshHaveNoParent, LoopType
<1>7. parent' = None
  BY <1>1, <1>2 DEF Chain, FreshHaveNoParent, parent
<1>8. CurrentFile' /\ ParentIsDiffBase'
  BY <1>1, <1>7 DEF CurrentFile, ParentIsDiffBase, InFile
<1>9. QED
  BY <1>5, <1>6, <1>8 DEF Chain

LEMMA PassOverChain == Chain /\ PassOver => Chain'
<1> SUFFICES ASSUME Chain, PassOver PROVE Chain'
  OBVIOUS
<1>1. /\ UNCHANGED <<image, args, added, images, todo, cur, previous_snapshot, sent>>
      /\ pc = "snapshots" /\ pc' = "snapshots" /\ i' = i + 1 /\ i <= Len(image[cur]) - 1
  BY DEF PassOver, given, AtSnapshot, SnapCount
<1>2. Given' /\ SentType' /\ ImagesType' /\ FreshHaveNoParent'
  BY <1>1 DEF Chain, Given, SentType, IsFile, ImagesType, IsImage, Version, FreshHaveNoParent
<1>3. cur \in DOMAIN images /\ cur \in DOMAIN image /\ i \in 1 .. Len(image[cur])
      /\ Len(image[cur]) \in Nat
  BY <1>1, GivenImages DEF Chain, LoopType, InImage, ImagesType
<1>4. LoopType'
  BY <1>1, <1>3 DEF Chain, LoopType, InImage
<1>5. UNCHANGED <<parent, lastsize>>
  BY <1>1 DEF parent, lastsize
<1>6. ParentIsDiffBase'
  <2>1. CASE parent = None
    BY <1>1, <1>5, <2>1 DEF Chain, ParentIsDiffBase, InFile
  <2>2. CASE parent # None
    <3>1. parent \in 1 .. Len(sent) /\ sent[parent].image = cur /\ sent[parent].version < i
      BY <1>1, <2>2 DEF Chain, ParentIsDiffBase, InFile
    <3>2. sent[parent].version \in Int
      <4>1. sent[parent].version \in 1 .. Len(image[sent[parent].image])
        BY <3>1 DEF Chain, SentType, IsFile
      <4>2. QED
        BY <1>3, <3>1, <4>1
    <3>3. QED
      BY <1>1, <1>3, <1>5, <2>2, <3>1, <3>2 DEF Chain, ParentIsDiffBase, InFile, Version
  <2>3. QED
    BY <2>1, <2>2
<1>7. QED
  BY <1>1, <1>2, <1>4, <1>6 DEF Chain, CurrentFile, InFile

\* The snapshots that are left to be sent do not matter to what was sent.
LEMMA TakenFromTable ==
  ASSUME Chain, NEW m \in DOMAIN images, NEW x,
         images' = images \/ images' = [images EXCEPT ![m].snapshots = x],
         UNCHANGED <<image, todo, added>>, pc' = pc \/ pc' \notin {"main", "args"}
  PROVE  /\ ImagesType' /\ FreshHaveNoParent'
         /\ DOMAIN images' = DOMAIN images
         /\ \A y \in DOMAIN images : /\ images'[y].last_file_id = images[y].last_file_id
                                     /\ images'[y].lastsize = images[y].lastsize
<1>1. \A y \in DOMAIN images : IsImage(images[y])
  BY DEF Chain, ImagesType
<1>2. /\ images' = [y \in DOMAIN images |-> images'[y]]
      /\ \A y \in DOMAIN images : /\ IsImage(images'[y])
                                  /\ images'[y].last_file_id = images[y].last_file_id
                                  /\ images'[y].lastsize = images[y].lastsize
  <2>1. CASE images' = images
    BY <1>1, <2>1 DEF Chain, ImagesType
  <2>2. CASE images' = [images EXCEPT ![m].snapshots = x]
    <3> DEFINE q == images[m]
    <3>1. /\ IsImage([q EXCEPT !.snapshots = x])
          /\ [q EXCEPT !.snapshots = x].last_file_id = q.last_file_id
          /\ [q EXCEPT !.snapshots = x].lastsize = q.lastsize
      <4>1. IsImage(q)
        BY <1>1
      <4> HIDE DEF q
      <4>2. QED
        BY <4>1, ImageChanged
    <3>2. images' = [images EXCEPT ![m] = [q EXCEPT !.snapshots = x]]
      BY <2>2
    <3> HIDE DEF q
    <3>3. \A y \in DOMAIN images : images'[y] = IF y = m THEN [q EXCEPT !.snapshots = x] ELSE images[y]
      BY <3>2
    <3>4. QED
      BY <1>1, <3>1, <3>2, <3>3 DEF q
  <2>3. QED
    BY <2>1, <2>2
<1>3. QED
  BY <1>2 DEF Chain, ImagesType, FreshHaveNoParent, IsImage

LEMMA BeginChain == Chain /\ (BeginSnapshot \/ BeginSelf) => Chain'
<1> SUFFICES ASSUME Chain, BeginSnapshot \/ BeginSelf PROVE Chain'
  OBVIOUS
<1>1. /\ pc = "snapshots" /\ pc' = "extents"
      /\ UNCHANGED <<image, args, added, todo, cur, i, previous_snapshot>>
  BY DEF BeginSnapshot, BeginSelf, AtSnapshot, SnapshotsDone, given, loop_vars
<1>2. cur \in DOMAIN images /\ cur \in DOMAIN image /\ i \in 1 .. Len(image[cur])
      /\ Len(image[cur]) \in Nat \ {0}
      /\ \A k \in 1 .. Len(image[cur]) : Version(cur, k).size \in Nat
  BY <1>1, GivenImages DEF Chain, LoopType, InImage, ImagesType
<1>3. PICK k \in 1 .. Len(image[cur]), ref \in BOOLEAN :
        /\ sent' = Append(sent, NewFile(k, ref))
        /\ k = i \/ k = Len(image[cur])
  <2>1. CASE BeginSnapshot
    BY <1>2, <2>1 DEF BeginSnapshot
  <2>2. CASE BeginSelf
    <3> DEFINE n == Len(image[cur])
    <3>1. sent' = Append(sent, NewFile(n, FALSE))
      BY <2>2 DEF BeginSelf
    <3>2. n \in 1 .. n /\ FALSE \in BOOLEAN
      BY <1>2
    <3> HIDE DEF n
    <3>3. \E k \in 1 .. n, ref \in BOOLEAN :
            sent' = Append(sent, NewFile(k, ref)) /\ (k = i \/ k = n)
      BY <3>1, <3>2
    <3>4. QED
      BY <3>3 DEF n
  <2>3. QED
    BY <2>1, <2>2
<1> DEFINE new == NewFile(k, ref)
<1>4. /\ new.image = cur /\ new.version = k /\ new.ended = FALSE /\ new.ref = ref /\ IsFile(new)
  BY <1>2 DEF NewFile, IsFile
<1> HIDE DEF new
<1>5. /\ sent' \in Seq(Range(sent')) /\ Len(sent') = Len(sent) + 1 /\ Len(sent) \in Nat
      /\ \A f \in 1 .. Len(sent) : sent'[f] = sent[f]
      /\ sent'[Len(sent')] = new /\ sent' # <<>>
  BY <1>3, Appended DEF Chain, SentType, new
<1>6. file' = new
  BY <1>5, LastOfNonEmpty DEF file
<1>7. SentType'
  <2>1. \A f \in 1 .. Len(sent') : IsFile(sent'[f])
    BY <1>4, <1>5 DEF Chain, SentType
  <2>2. QED
    BY <1>1, <1>5, <2>1 DEF SentType, IsFile, Version
<1>8. PICK x : images' = images \/ images' = [images EXCEPT ![cur].snapshots = x]
  BY DEF BeginSnapshot, BeginSelf
<1>9. /\ ImagesType' /\ FreshHaveNoParent' /\ DOMAIN images' = DOMAIN images
      /\ UNCHANGED <<parent, lastsize>>
  BY <1>1, <1>2, <1>8, TakenFromTable DEF parent, lastsize
<1>10. Given' /\ LoopType'
  BY <1>1, <1>9 DEF Chain, Given, LoopType, InImage
<1>11. CurrentFile'
  BY <1>1, <1>3, <1>4, <1>5, <1>6 DEF CurrentFile
<1>12. ParentIsDiffBase'
  <2>1. CASE parent = None
    BY <1>1, <1>9, <2>1 DEF Chain, ParentIsDiffBase
  <2>2. CASE parent # None
    <3>1. /\ parent \in 1 .. Len(sent) /\ sent[parent].image = cur /\ sent[parent].ended
          /\ sent[parent].version < i /\ lastsize = Version(cur, sent[parent].version).size
          /\ previous_snapshot = Version(cur, sent[parent].version).name
      BY <1>1, <2>2 DEF Chain, ParentIsDiffBase, InFile
    <3>2. sent[parent].version \in 1 .. Len(image[cur])
      BY <3>1 DEF Chain, SentType, IsFile
    <3>3. sent[parent].version < k
      BY <1>2, <1>3, <3>1, <3>2
    <3>4. sent'[parent] = sent[parent] /\ parent \in 1 .. Len(sent')
      BY <1>5, <3>1
    <3>5. QED
      BY <1>1, <1>4, <1>6, <1>9, <2>2, <3>1, <3>3, <3>4 DEF ParentIsDiffBase, InFile, Version
  <2>3. QED
    BY <2>1, <2>2
<1>13. QED
  BY <1>7, <1>9, <1>10, <1>11, <1>12 DEF Chain

\* The current file is not its own parent.
LEMMA ParentIsOther ==
  ASSUME Chain, InFile
  PROVE  /\ Len(sent) \in Nat \ {0} /\ file = sent[Len(sent)] /\ IsFile(file)
         /\ parent # None => parent \in 1 .. Len(sent) /\ parent # Len(sent)
<1>1. /\ Len(sent) \in Nat \ {0} /\ file = sent[Len(sent)] /\ ~ file.ended
  BY LastOfNonEmpty DEF Chain, CurrentFile, SentType, file
<1>2. QED
  BY <1>1 DEF Chain, SentType, ParentIsDiffBase

\* The current file is replaced by one that only differs in what was sent of it.
LEMMA FileReplaced ==
  ASSUME Chain, InFile, UNCHANGED image, NEW e,
         sent' = [sent EXCEPT ![Len(sent)] = e],
         IsFile(e), e.image = cur, e.version = file.version
  PROVE  /\ SentType' /\ Len(sent') = Len(sent) /\ file' = e
         /\ \A f \in 1 .. Len(sent) : sent'[f] = IF f = Len(sent) THEN e ELSE sent[f]
<1>1. Len(sent) \in 1 .. Len(sent)
  BY ParentIsOther
<1>2. /\ sent' \in Seq(Range(sent')) /\ Len(sent') = Len(sent)
      /\ \A f \in 1 .. Len(sent) : sent'[f] = IF f = Len(sent) THEN e ELSE sent[f]
  <2> DEFINE t == [sent EXCEPT ![Len(sent)] = e]
  <2>1. /\ t \in Seq(Range(t)) /\ Len(t) = Len(sent)
        /\ \A f \in 1 .. Len(sent) : t[f] = IF f = Len(sent) THEN e ELSE sent[f]
    <3>1. sent \in Seq(Range(sent))
      BY DEF Chain, SentType
    <3> QED
      BY ONLY <1>1, <3>1, Replaced
  <2>2. sent' = t
    OBVIOUS
  <2> HIDE DEF t
  <2>3. QED
    BY <2>1, <2>2
<1>3. sent' # <<>>
  BY <1>1, <1>2, EmptySeq
<1>4. file' = e
  BY <1>1, <1>2, <1>3, LastOfNonEmpty DEF file
<1>5. \A f \in 1 .. Len(sent') : IsFile(sent'[f])
  BY <1>2 DEF Chain, SentType
<1>6. SentType'
  BY <1>2, <1>5 DEF SentType, IsFile, Version
<1>7. QED
  BY <1>2, <1>4, <1>6

\* What SendExtent makes of the current file.
WithGot(g) == [file EXCEPT !.got = g]

LEMMA GotIsFile ==
  ASSUME Chain, InFile, NEW g, DOMAIN g = DOMAIN file.got
  PROVE  /\ IsFile(WithGot(g)) /\ WithGot(g).image = file.image /\ WithGot(g).version = file.version
         /\ WithGot(g).ended = file.ended /\ WithGot(g).ref = file.ref /\ WithGot(g).got = g
BY ParentIsOther DEF WithGot, IsFile, Version

GotAfter ==
    LET e   == Head(exs)
        end == Min({End(e), filesize})
    IN  [b \in DOMAIN file.got |->
           IF b \in e.logical .. end - 1 THEN Received(e, b) ELSE file.got[b]]

LEMMA SentIsReplaced ==
  ASSUME Chain, InFile, SendExtent
  PROVE  /\ sent' = IF file.ref THEN sent ELSE [sent EXCEPT ![Len(sent)] = WithGot(GotAfter)]
         /\ DOMAIN GotAfter = DOMAIN file.got
<1>1. file = sent[Len(sent)]
  BY ParentIsOther
<1>2. sent' = IF file.ref THEN sent ELSE [sent EXCEPT ![Len(sent)] = [file EXCEPT !.got = GotAfter]]
  BY <1>1 DEF SendExtent, GotAfter
<1>3. QED
  BY <1>2 DEF WithGot, GotAfter

LEMMA SendChain == Chain /\ SendExtent => Chain'
<1> SUFFICES ASSUME Chain, SendExtent PROVE Chain'
  OBVIOUS
<1>1. /\ pc = "extents" /\ pc' = pc /\ InFile /\ InFile'
      /\ UNCHANGED <<image, args, added, images, todo, loop_vars>>
  BY DEF SendExtent, given, InFile
<1>2. CASE sent' = sent
  BY <1>1, <1>2, MappingChain
<1>3. CASE sent' = [sent EXCEPT ![Len(sent)] = WithGot(GotAfter)]
  <2> DEFINE g == GotAfter
  <2>0. DOMAIN g = DOMAIN file.got
    BY <1>1, SentIsReplaced
  <2> HIDE DEF g
  <2>1. /\ file.image = cur /\ ~ file.ended /\ (file.version = i \/ file.version = Len(image[cur]))
    BY <1>1 DEF Chain, CurrentFile
  <2>2. /\ IsFile(WithGot(g)) /\ WithGot(g).image = cur /\ WithGot(g).version = file.version
        /\ ~ WithGot(g).ended
    BY <1>1, <2>0, <2>1, GotIsFile
  <2>3. /\ SentType' /\ Len(sent') = Len(sent) /\ file' = WithGot(g)
        /\ \A f \in 1 .. Len(sent) : sent'[f] = IF f = Len(sent) THEN WithGot(g) ELSE sent[f]
    BY <1>1, <1>3, <2>2, FileReplaced DEF g
  <2>4. Given' /\ ImagesType' /\ FreshHaveNoParent' /\ LoopType'
    BY <1>1 DEF Chain, Given, ImagesType, IsImage, FreshHaveNoParent, LoopType, InImage, InFile, loop_vars
  <2>5. sent' # <<>>
    BY <1>1, <2>3, ParentIsOther, EmptySeq
  <2>6. CurrentFile'
    BY <1>1, <2>1, <2>2, <2>3, <2>5 DEF CurrentFile, loop_vars
  <2>7. UNCHANGED <<cur, i, previous_snapshot, parent, lastsize>>
    BY <1>1 DEF loop_vars, parent, lastsize
  <2>8. ParentIsDiffBase'
    <3>1. parent # None => sent'[parent] = sent[parent]
      BY <1>1, <2>3, ParentIsOther
    <3>2. QED
      BY <1>1, <2>2, <2>3, <2>7, <3>1 DEF Chain, ParentIsDiffBase, Version
  <2>9. QED
    BY <2>3, <2>4, <2>6, <2>8 DEF Chain
<1>4. QED
  BY <1>1, <1>2, <1>3, SentIsReplaced

\* What IsParent makes of an image.
WithParent(q, d, e) == [q EXCEPT !.last_file_id = d, !.lastsize = e]

LEMMA ParentOfImage ==
  ASSUME NEW q, IsImage(q), NEW d, NEW e
  PROVE  /\ IsImage(WithParent(q, d, e))
         /\ WithParent(q, d, e).last_file_id = d /\ WithParent(q, d, e).lastsize = e
<1>1. q = [include_self |-> q.include_self, snapshots |-> q.snapshots,
           last_file_id |-> q.last_file_id, lastsize |-> q.lastsize]
  BY DEF IsImage
<1>2. WithParent(q, d, e) =
        [include_self |-> q.include_self, snapshots |-> q.snapshots, last_file_id |-> d, lastsize |-> e]
  <2> DEFINE p == [q EXCEPT !.last_file_id = d]
             x == [q EXCEPT !.last_file_id = d, !.lastsize = e]
  <2>1. p = [include_self |-> q.include_self, snapshots |-> q.snapshots, last_file_id |-> d,
             lastsize |-> q.lastsize]
    BY <1>1
  <2>2. x = [p EXCEPT !.lastsize = e]
    OBVIOUS
  <2> HIDE DEF p, x
  <2>3. x = [include_self |-> q.include_self, snapshots |-> q.snapshots, last_file_id |-> d,
             lastsize |-> e]
    BY <2>1, <2>2
  <2>4. QED
    BY <2>3 DEF x, WithParent
<1>3. QED
  BY <1>2 DEF IsImage

\* What is sent becomes the parent, of the same or of no file.
LEMMA ParentSet ==
  ASSUME Chain, IsParent, cur \in DOMAIN images \ todo, pc \notin {"main", "args"},
         UNCHANGED <<image, todo, added>>, pc' \notin {"main", "args"}
  PROVE  /\ ImagesType' /\ FreshHaveNoParent' /\ DOMAIN images' = DOMAIN images
         /\ images'[cur].last_file_id = Len(sent) /\ images'[cur].lastsize = filesize
<1> DEFINE r == WithParent(images[cur], Len(sent), filesize)
<1>1. images' = [images EXCEPT ![cur] = r]
  BY DEF IsParent, WithParent
<1>2. IsImage(images[cur])
  BY DEF Chain, ImagesType
<1>3. IsImage(r) /\ r.last_file_id = Len(sent) /\ r.lastsize = filesize
  BY <1>2, ParentOfImage
<1> HIDE DEF r
<1>4. /\ images' = [m \in DOMAIN images |-> images'[m]] /\ images'[cur] = r
      /\ \A m \in DOMAIN images : m # cur => images'[m] = images[m]
  BY <1>1 DEF Chain, ImagesType
<1>5. QED
  BY <1>3, <1>4 DEF Chain, ImagesType, IsImage, FreshHaveNoParent

EndedFile == [file EXCEPT !.ended = TRUE]

LEMMA EndedIsFile ==
  ASSUME Chain, InFile
  PROVE  /\ IsFile(EndedFile) /\ EndedFile.image = file.image /\ EndedFile.version = file.version
         /\ EndedFile.ended = TRUE /\ EndedFile.got = file.got /\ EndedFile.ref = file.ref
<1>1. IsFile(file)
  BY ParentIsOther
<1>2. /\ DOMAIN EndedFile = DOMAIN file /\ EndedFile.image = file.image
      /\ EndedFile.version = file.version /\ EndedFile.ended = TRUE
      /\ EndedFile.got = file.got /\ EndedFile.ref = file.ref
  BY <1>1 DEF EndedFile, IsFile
<1>3. QED
  BY <1>1, <1>2 DEF IsFile, Version

\* What EndFile does to the sequence of files.
LEMMA EndReplaces ==
  ASSUME Chain, EndFile
  PROVE  /\ SentType' /\ Len(sent') = Len(sent)
         /\ \A f \in 1 .. Len(sent) : sent'[f] = IF f = Len(sent) THEN EndedFile ELSE sent[f]
<1>1. InFile /\ UNCHANGED image /\ sent' = [sent EXCEPT ![Len(sent)].ended = TRUE]
  BY DEF EndFile, InFile, given
<1>2. sent' = [sent EXCEPT ![Len(sent)] = EndedFile]
  BY <1>1, ParentIsOther DEF EndedFile
<1>3. file.image = cur
  BY <1>1 DEF Chain, CurrentFile
<1>4. QED
  BY <1>1, <1>2, <1>3, EndedIsFile, FileReplaced

LEMMA EndChain == Chain /\ EndFile => Chain'
<1> SUFFICES ASSUME Chain, EndFile PROVE Chain'
  OBVIOUS
<1>1. /\ pc = "extents" /\ InFile /\ IsParent
      /\ UNCHANGED <<image, args, added, todo, cur>>
      /\ \/ pc' = "report" /\ i' = i
         \/ /\ file.version # Len(image[cur])
            /\ pc' = "snapshots" /\ i' = i + 1 /\ previous_snapshot' = Version(cur, i).name
  BY DEF EndFile, given, InFile
<1>2. /\ cur \in DOMAIN images \ todo /\ cur \in DOMAIN image /\ i \in 1 .. Len(image[cur])
  BY <1>1 DEF Chain, LoopType, InImage, ImagesType
<1>3. /\ Len(image[cur]) \in Nat \ {0}
      /\ \A k \in 1 .. Len(image[cur]) : Version(cur, k).name # None
  BY <1>2, GivenImages DEF Chain
<1>4. /\ ImagesType' /\ FreshHaveNoParent' /\ DOMAIN images' = DOMAIN images
      /\ parent' = Len(sent) /\ lastsize' = filesize
  <2>1. pc \notin {"main", "args"} /\ pc' \notin {"main", "args"}
    BY <1>1
  <2>2. QED
    BY <1>1, <1>2, <2>1, ParentSet DEF parent, lastsize
<1>5. /\ SentType' /\ Len(sent') = Len(sent)
      /\ \A f \in 1 .. Len(sent) : sent'[f] = IF f = Len(sent) THEN EndedFile ELSE sent[f]
  BY EndReplaces
<1>6. /\ file.image = cur /\ (file.version = i \/ file.version = Len(image[cur]))
      /\ Len(sent) \in Nat \ {0} /\ file = sent[Len(sent)]
  BY <1>1, ParentIsOther DEF Chain, CurrentFile
<1>7. Given' /\ LoopType'
  <2>1. i' \in 1 .. Len(image[cur])
    BY <1>1, <1>2, <1>3, <1>6
  <2>2. QED
    BY <1>1, <1>2, <1>4, <2>1 DEF Chain, Given, LoopType
<1>8. CurrentFile'
  BY <1>1 DEF CurrentFile, InFile
<1>9. ParentIsDiffBase'
  <2>1. CASE pc' = "report"
    BY <2>1 DEF ParentIsDiffBase, InFile
  <2>2. CASE pc' # "report"
    <3>1. file.version = i /\ i' = i + 1 /\ previous_snapshot' = Version(cur, i).name
          /\ pc' = "snapshots"
      BY <1>1, <1>6, <2>2
    <3>2. sent'[parent'] = EndedFile /\ parent' \in 1 .. Len(sent') /\ parent' # None
      <4>1. Len(sent) # None
        BY <1>6, CasesAssumption
      <4>2. QED
        BY <1>4, <1>5, <1>6, <4>1
    <3>3. EndedFile.image = cur /\ EndedFile.version = i /\ EndedFile.ended
      BY <1>1, <1>6, <3>1, EndedIsFile
    <3>4. lastsize' = Version(cur, i).size
      BY <1>4, <3>1 DEF filesize
    <3>5. UNCHANGED <<image, cur>>
      BY <1>1
    <3>6. ~ InFile' /\ i < i'
      BY <1>2, <3>1 DEF InFile
    <3>7. QED
      BY <3>1, <3>2, <3>3, <3>4, <3>5, <3>6 DEF ParentIsDiffBase, Version
  <2>3. QED
    BY <2>1, <2>2
<1>10. QED
  BY <1>4, <1>5, <1>7, <1>8, <1>9 DEF Chain

LEMMA FailChain == Chain /\ FileFails => Chain'
<1> SUFFICES ASSUME Chain, FileFails PROVE Chain'
  OBVIOUS
<1>1. /\ InFile /\ IsParent /\ pc = "extents" /\ pc' = "images"
      /\ UNCHANGED <<image, args, added, todo, cur, sent>>
  BY DEF FileFails, given, InFile, loop_vars
<1>2. cur \in DOMAIN images \ todo
  BY <1>1 DEF Chain, LoopType, InImage
<1>3. pc \notin {"main", "args"} /\ pc' \notin {"main", "args"}
  BY <1>1
<1>4. ImagesType' /\ FreshHaveNoParent'
  BY <1>1, <1>2, <1>3, ParentSet
<1>5. Given' /\ SentType'
  BY <1>1 DEF Chain, Given, SentType, IsFile, Version
<1>6. QED
  BY <1>1, <1>4, <1>5 DEF Chain, LoopType, CurrentFile, ParentIsDiffBase, InImage, InFile

LEMMA StepChain == Chain /\ [Next]_vars => Chain'
<1> SUFFICES ASSUME Chain, [Next]_vars PROVE Chain'
  OBVIOUS
<1>1. CASE cephrbd_add
  BY <1>1, AddChain
<1>2. CASE CheckOptions \/ AddFails \/ AllAdded
  BY <1>2, MainChain
<1>3. CASE add_image
  BY <1>3, AddImageChain
<1>4. CASE OpenFails \/ ListFails \/ ReadPastList \/ report_missing \/ BeginFails \/ Exit
  <2>1. /\ ~ InImage' /\ pc' \notin {"main", "args"}
        /\ UNCHANGED <<image, args, sent, images, added>> /\ todo' \subseteq todo
    BY <1>4 DEF Exited, Status, OpenFails, ListFails, ReadPastList, report_missing, BeginFails,
                Exit, given,
                InImage, InFile
  <2>2. QED
    BY <2>1, OutsideChain
<1>5. CASE PassOver
  BY <1>5, PassOverChain
<1>6. CASE BeginSnapshot \/ BeginSelf
  BY <1>6, BeginChain
<1>7. CASE RBDFile_nextExtents \/ RBDFile_extent_cb \/ FillToEnd
  <2>1. InFile /\ InFile' /\ UNCHANGED <<image, args, added, images, todo, loop_vars, sent>>
    BY <1>7 DEF RBDFile_nextExtents, RBDFile_extent_cb, FillToEnd, given, InFile
  <2>2. QED
    BY <2>1, MappingChain
<1>8. CASE SendExtent
  BY <1>8, SendChain
<1>9. CASE EndFile
  BY <1>9, EndChain
<1>10. CASE FileFails
  BY <1>10, FailChain
<1>11. CASE UNCHANGED vars
  <2>1. UNCHANGED <<image, args, sent, images, added, todo, cur, i, previous_snapshot, pc>>
    BY <1>11 DEF vars, given, loop_vars
  <2>2. Given' /\ SentType' /\ ImagesType'
    BY <2>1 DEF Chain, Given, SentType, IsFile, ImagesType, IsImage, Version
  <2>3. UNCHANGED <<file, parent, lastsize>>
    BY <2>1 DEF file, parent, lastsize
  <2>4. QED
    BY <2>1, <2>2, <2>3 DEF Chain, FreshHaveNoParent, LoopType, CurrentFile, ParentIsDiffBase,
                            InImage, InFile, Version
<1>12. QED
  BY <1>1, <1>2, <1>3, <1>4, <1>5, <1>6, <1>7, <1>8, <1>9, <1>10, <1>11 DEF Next

\* The files of an image form a chain: the one a copy refers to is the end of it,
\* which add_image and do_cephrbd_add note in two places.
THEOREM FilesFormChains == Spec => []Chain
<1>1. QED
  BY InitChain, StepChain, PTL DEF Spec

\* The snapshot each diff is taken from is the file that gaps are copied from
\* (the previous_snapshot of add_image and the last_file_id of do_cephrbd_add),
\* for all images, options and failures.
THEOREM SourceIsAlwaysDiffBase == Spec => []SourceIsDiffBase
<1>1. Chain => SourceIsDiffBase
  <2> SUFFICES ASSUME Chain, pc = "extents", parent # None
               PROVE  /\ previous_snapshot # None /\ sent[parent].image = cur /\ sent[parent].ended
                      /\ sent[parent].version = Index(cur, previous_snapshot)
    BY DEF Chain, ParentIsDiffBase, SourceIsDiffBase, InFile
  <2>1. /\ parent \in 1 .. Len(sent) /\ sent[parent].image = cur /\ sent[parent].ended
        /\ previous_snapshot = Version(cur, sent[parent].version).name
    BY DEF Chain, ParentIsDiffBase, InFile
  <2>2. cur \in DOMAIN image /\ sent[parent].version \in 1 .. Len(image[cur])
    BY <2>1 DEF Chain, SentType, IsFile
  <2>3. QED
    BY <2>1, <2>2, GivenImages DEF Chain
<1>2. QED
  BY <1>1, FilesFormChains, PTL
------------------------------------------------------------------------------
LEMMA InitContents == Init => Contents
<1> SUFFICES ASSUME Init PROVE Contents
  OBVIOUS
<1>1. Len(sent) = 0 /\ pc = "main"
  BY EmptySeq DEF Init
<1>2. QED
  BY <1>1 DEF Contents, EndedAreRight, BatchIsRight, MappingIsRight, InFile

\* Steps outside of files that send nothing.
LEMMA OutsideContents ==
  ASSUME Contents, ~ InFile', UNCHANGED <<image, sent>>
  PROVE  Contents'
BY DEF Contents, EndedAreRight, BatchIsRight, MappingIsRight, InFile, NeverGrown, Version

LEMMA FileFacts ==
  ASSUME Chain, InFile
  PROVE  /\ cur \in DOMAIN image /\ file.image = cur /\ ~ file.ended
         /\ file.version \in 1 .. Len(image[cur])
         /\ filesize = Version(cur, file.version).size /\ filesize \in Nat
         /\ DOMAIN file.got = 0 .. filesize - 1
<1>1. /\ file.image = cur /\ ~ file.ended /\ IsFile(file)
  BY ParentIsOther DEF Chain, CurrentFile
<1>2. /\ cur \in DOMAIN image /\ file.version \in 1 .. Len(image[cur])
      /\ DOMAIN file.got = 0 .. filesize - 1
  BY <1>1 DEF IsFile, filesize
<1>3. QED
  BY <1>1, <1>2, GivenImages DEF Chain, filesize

\* The parent has all of what the diff is taken from, and it is not smaller than
\* the current file.
LEMMA ParentIsRight ==
  ASSUME Chain, Contents, InFile, NeverGrown(cur), parent # None
  PROVE  /\ previous_snapshot # None
         /\ Version(cur, Index(cur, previous_snapshot)).size = lastsize
         /\ lastsize \in Nat /\ filesize <= lastsize
         /\ \A b \in 0 .. lastsize - 1 :
              sent[parent].got[b] = Version(cur, Index(cur, previous_snapshot)).blocks[b]
<1> DEFINE k == sent[parent].version
<1>1. /\ parent \in 1 .. Len(sent) /\ sent[parent].image = cur /\ sent[parent].ended
      /\ k < file.version /\ previous_snapshot = Version(cur, k).name
      /\ lastsize = Version(cur, k).size
  BY DEF Chain, ParentIsDiffBase
<1>2. /\ k \in 1 .. Len(image[cur]) /\ DOMAIN sent[parent].got = 0 .. lastsize - 1
      /\ file.version \in 1 .. Len(image[cur]) /\ cur \in DOMAIN image
      /\ filesize = Version(cur, file.version).size
  BY <1>1, FileFacts DEF Chain, SentType, IsFile
<1>3. Index(cur, previous_snapshot) = k /\ previous_snapshot # None /\ lastsize \in Nat
  BY <1>1, <1>2, GivenImages DEF Chain
<1>4. \A b \in 0 .. lastsize - 1 : sent[parent].got[b] = Version(cur, k).blocks[b]
  BY <1>1, <1>2 DEF Contents, EndedAreRight
<1>5. filesize <= lastsize
  BY <1>1, <1>2 DEF NeverGrown
<1>6. QED
  BY <1>1, <1>3, <1>4, <1>5

\* What librbd does not give is what fills the gaps: zeroes, or the parent's block.
LEMMA GapIsRight ==
  ASSUME Chain, Contents, InFile, NeverGrown(cur), NEW b \in 0 .. filesize - 1, ~ Differs(b), NEW e,
         e.flags = IF parent = None THEN "HOLE" ELSE "COPY"
  PROVE  Received(e, b) = Block(b)
<1>1. filesize \in Nat
  BY FileFacts
<1>2. CASE parent = None
  <2>1. previous_snapshot = None
    BY <1>2 DEF Chain, ParentIsDiffBase
  <2>2. Block(b) = Zero
    BY <2>1 DEF Differs, Block
  <2>3. QED
    BY <1>2, <2>2 DEF Received
<1>3. CASE parent # None
  <2> DEFINE old == Version(cur, Index(cur, previous_snapshot))
  <2>1. /\ previous_snapshot # None /\ old.size = lastsize /\ lastsize \in Nat
        /\ b \in 0 .. lastsize - 1 /\ b < lastsize
        /\ sent[parent].got[b] = old.blocks[b]
    BY <1>1, <1>3, ParentIsRight
  <2>2. ~ (b >= old.size)
    BY <2>1
  <2>3. Block(b) = old.blocks[b]
    BY <2>1, <2>2 DEF Differs, Block
  <2>4. QED
    BY <1>3, <2>1, <2>3 DEF Received
<1>4. QED
  BY <1>2, <1>3

\* What librbd gives is sent as what it is.
LEMMA GivenIsRight ==
  ASSUME NEW b, NEW e, e.flags = Kind(b)
  PROVE  Received(e, b) = Block(b)
BY DEF Kind, Received, Block

LEMMA EmptyGoes == Goes(<<>>) /\ GoesTo(<<>>) = at
<1>1. <<>> \in Seq(Extent) /\ Len(<<>>) = 0
  BY EmptySeq
<1>2. QED
  BY <1>1 DEF Goes, GoesTo

LEMMA GoesWithin ==
  ASSUME NEW x, Goes(x), filesize \in Nat, at \in 0 .. filesize
  PROVE  GoesTo(x) \in 0 .. filesize
<1>1. CASE x = <<>>
  BY <1>1 DEF GoesTo
<1>2. CASE x # <<>>
  <2>1. Len(x) \in Nat \ {0} /\ x[Len(x)] \in Extent
    BY <1>2, EmptySeq, ElementOfSeq DEF Goes
  <2>2. End(x[Len(x)]) <= filesize /\ End(x[Len(x)]) \in Nat
    <3>1. Len(x) \in 1 .. Len(x)
      BY <2>1
    <3>2. End(x[Len(x)]) <= filesize
      BY <3>1 DEF Goes
    <3>3. End(x[Len(x)]) \in Nat
      BY <2>1 DEF End, Extent
    <3>4. QED
      BY <3>2, <3>3
  <2>3. QED
    BY <1>2, <2>2 DEF GoesTo
<1>3. QED
  BY <1>1, <1>2

\* One extent more.
LEMMA GoesOn ==
  ASSUME NEW x, Goes(x), NEW e \in Extent, e.logical = GoesTo(x), End(e) <= filesize, MeansImage(e)
  PROVE  /\ Goes(Append(x, e)) /\ GoesTo(Append(x, e)) = End(e)
         /\ Len(x) \in Nat /\ Len(Append(x, e)) = Len(x) + 1
<1> DEFINE y == Append(x, e)
<1>1. /\ y \in Seq(Extent) /\ y # <<>> /\ Len(y) = Len(x) + 1 /\ Len(x) \in Nat
      /\ \A k \in 1 .. Len(x) : y[k] = x[k]
      /\ y[Len(x) + 1] = e
  BY AppendProperties, LenProperties DEF Goes
<1> HIDE DEF y
<1>2. GoesTo(y) = End(e)
  BY <1>1 DEF GoesTo
<1>3. y[1].logical = at
  <2>1. CASE x = <<>>
    <3>1. Len(x) = 0
      BY <2>1
    <3>2. QED
      BY <1>1, <2>1, <3>1 DEF GoesTo
  <2>2. CASE x # <<>>
    <3>1. Len(x) \in Nat \ {0}
      BY <2>2, EmptySeq DEF Goes
    <3>2. QED
      BY <1>1, <2>2, <3>1 DEF Goes
  <2>3. QED
    BY <2>1, <2>2
<1>4. ASSUME NEW k \in 1 .. Len(y)
      PROVE  /\ End(y[k]) <= filesize
             /\ k < Len(y) => y[k + 1].logical = End(y[k])
             /\ MeansImage(y[k])
  <2>1. CASE k = Len(y)
    BY <1>1, <2>1
  <2>2. CASE k # Len(y)
    <3>1. k \in 1 .. Len(x) /\ y[k] = x[k]
      BY <1>1, <1>4, <2>2
    <3>2. CASE k = Len(x)
      <4>1. x # <<>>
        BY <3>1, <3>2
      <4>2. e.logical = End(x[k])
        BY <3>2, <4>1 DEF GoesTo
      <4>3. QED
        BY <1>1, <3>1, <3>2, <4>2 DEF Goes
    <3>3. CASE k # Len(x)
      <4>1. k < Len(x) /\ k + 1 \in 1 .. Len(x) /\ y[k + 1] = x[k + 1]
        BY <1>1, <3>1, <3>3
      <4>2. QED
        BY <3>1, <4>1 DEF Goes
    <3>4. QED
      BY <3>2, <3>3
  <2>3. QED
    BY <2>1, <2>2
<1>5. Goes(y)
  BY <1>1, <1>3, <1>4 DEF Goes
<1>6. QED
  BY <1>1, <1>2, <1>5 DEF y

\* Steps that only change the batch.
LEMMA BatchChanged ==
  ASSUME Contents, InFile, InFile', UNCHANGED <<image, cur, sent, images, at>>,
         NeverGrown(cur) => Goes(exs')
  PROVE  EndedAreRight' /\ BatchIsRight' /\ (NeverGrown(cur))' = NeverGrown(cur)
<1>1. UNCHANGED <<file, filesize, parent, lastsize>>
  BY DEF file, filesize, parent, lastsize, Version
<1>2. (NeverGrown(cur))' = NeverGrown(cur)
  BY DEF NeverGrown, Version
<1>3. EndedAreRight'
  BY DEF Contents, EndedAreRight, NeverGrown, Version
<1>4. Goes(exs') => Goes(exs)'
  <2>1. \A e : MeansImage(e) => (MeansImage(e))'
    BY <1>1 DEF MeansImage, Received, Block, Version, End
  <2>2. QED
    BY <1>1, <2>1 DEF Goes, End
<1>5. BatchIsRight'
  <2>1. \A b : (Block(b))' = Block(b)
    BY <1>1 DEF Block, Version
  <2>2. QED
    BY <1>1, <1>2, <1>4, <2>1 DEF Contents, BatchIsRight
<1>6. QED
  BY <1>2, <1>3, <1>5

LEMMA NextExtentsContents == Chain /\ Contents /\ RBDFile_nextExtents => Contents'
<1> SUFFICES ASSUME Chain, Contents, RBDFile_nextExtents PROVE Contents'
  OBVIOUS
<1>1. /\ InFile /\ InFile' /\ exs = <<>> /\ exs' = exs /\ iterated' = at /\ lastend' = at
      /\ UNCHANGED <<image, cur, sent, images, at>>
  BY DEF RBDFile_nextExtents, given, loop_vars, InFile
<1>2. NeverGrown(cur) => Goes(exs')
  BY <1>1 DEF Contents, BatchIsRight
<1>3. EndedAreRight' /\ BatchIsRight' /\ (NeverGrown(cur))' = NeverGrown(cur)
  BY <1>1, <1>2, BatchChanged
<1>4. NeverGrown(cur) => at \in Nat
  BY <1>1, FileFacts DEF Contents, BatchIsRight
<1>5. MappingIsRight'
  <2>1. Len(exs) = 0 /\ GoesTo(exs') = at
    BY <1>1, EmptySeq DEF GoesTo
  <2>2. GoesTo(exs)' = at
    BY <1>1 DEF GoesTo
  <2>3. QED
    BY <1>1, <1>3, <1>4, <2>1, <2>2, BufSizeAssumption DEF MappingIsRight
<1>6. QED
  BY <1>3, <1>5 DEF Contents

LEMMA FillContents == Chain /\ Contents /\ FillToEnd => Contents'
<1> SUFFICES ASSUME Chain, Contents, FillToEnd PROVE Contents'
  OBVIOUS
<1>1. /\ InFile /\ InFile' /\ pc = "mapping" /\ pc' = "extents" /\ Differing = {}
      /\ UNCHANGED <<image, cur, sent, images, at>>
  BY DEF FillToEnd, given, loop_vars, InFile
<1>2. ASSUME NeverGrown(cur) PROVE Goes(exs')
  <2> DEFINE e == Ex(IF parent = None THEN "HOLE" ELSE "COPY", lastend, filesize - lastend)
  <2>1. Goes(exs) /\ filesize \in Nat /\ at \in 0 .. filesize /\ lastend = GoesTo(exs)
        /\ lastend \in 0 .. filesize /\ Len(exs) <= BufSize /\ Len(exs) \in Nat
    <3>1. Goes(exs) /\ filesize \in Nat /\ at \in 0 .. filesize /\ lastend = GoesTo(exs)
          /\ Len(exs) <= BufSize
      BY <1>1, <1>2, FileFacts DEF Contents, BatchIsRight, MappingIsRight
    <3>2. Len(exs) \in Nat
      BY <3>1, LenProperties DEF Goes
    <3>3. QED
      BY <3>1, <3>2, GoesWithin
  <2>2. CASE Len(exs) = BufSize \/ lastend = filesize
    BY <2>1, <2>2 DEF FillToEnd
  <2>3. CASE ~ (Len(exs) = BufSize \/ lastend = filesize)
    <3>1. exs' = Append(exs, e)
      BY <2>3 DEF FillToEnd
    <3>2. iterated = lastend
      BY <1>1, <1>2, <2>1, <2>3, BufSizeAssumption DEF Contents, MappingIsRight
    <3>3. e \in Extent /\ e.logical = GoesTo(exs) /\ End(e) = filesize
          /\ e.flags = IF parent = None THEN "HOLE" ELSE "COPY"
      BY <2>1 DEF Ex, Extent, End
    <3>4. ASSUME NEW b \in e.logical .. End(e) - 1 PROVE Received(e, b) = Block(b)
      <4>1. b \in lastend .. filesize - 1
        BY <2>1, <3>3, <3>4
      <4>2. ~ Differs(b)
        BY <1>1, <3>2, <4>1 DEF Differing
      <4>3. b \in 0 .. filesize - 1
        BY <2>1, <4>1
      <4> HIDE DEF e
      <4>4. QED
        BY <1>1, <1>2, <3>3, <4>2, <4>3, GapIsRight
    <3> HIDE DEF e
    <3>5. MeansImage(e)
      BY <3>3, <3>4 DEF MeansImage
    <3>6. QED
      BY <2>1, <3>1, <3>3, <3>5, GoesOn
  <2>4. QED
    BY <2>2, <2>3
<1>3. QED
  BY <1>1, <1>2, BatchChanged DEF Contents, MappingIsRight

\* Positions have a smallest one.
LEMMA MinOfPositions ==
  ASSUME NEW T, T \subseteq Nat, T # {}
  PROVE  Min(T) \in T /\ \A y \in T : Min(T) <= y
<1>1. \E x \in T : \A y \in T : ~ (<<y, x>> \in OpToRel(<, Nat))
  BY NatLessThanWellFounded, WFMin
<1>2. PICK x \in T : \A y \in T : ~ (<<y, x>> \in OpToRel(<, Nat))
  BY <1>1
<1>3. \A y \in T : ~ (y < x)
  BY <1>2 DEF OpToRel
<1>4. \A y \in T : x <= y
  BY <1>3
<1>5. QED
  BY <1>4 DEF Min

\* The last extent gets the next block, of the same kind.
LEMMA GoesOnMerged ==
  ASSUME NEW x, Goes(x), x # <<>>, NEW b \in Nat, GoesTo(x) = b, b < filesize, filesize \in Nat,
         x[Len(x)].flags = Kind(b)
  PROVE  LET y == [x EXCEPT ![Len(x)].length = @ + 1]
         IN  Goes(y) /\ GoesTo(y) = b + 1 /\ Len(y) = Len(x)
<1> DEFINE n == Len(x)
           e == [x[n] EXCEPT !.length = x[n].length + 1]
           y == [x EXCEPT ![n] = e]
<1>1. n \in Nat \ {0} /\ n \in 1 .. n /\ x \in Seq(Extent) /\ x[n] \in Extent
  BY EmptySeq, ElementOfSeq DEF Goes
<1>2. /\ e \in Extent /\ e.logical = x[n].logical /\ e.length = x[n].length + 1
      /\ e.flags = x[n].flags
  BY <1>1 DEF Extent
<1>3. End(x[n]) = b /\ End(e) = b + 1
  BY <1>1, <1>2 DEF GoesTo, End, Extent
<1>4. /\ y \in Seq(Extent) /\ Len(y) = n
      /\ \A k \in 1 .. n : y[k] = IF k = n THEN e ELSE x[k]
  <2> HIDE DEF e
  <2>1. QED
    BY <1>1, <1>2, ExceptSeq
<1>5. MeansImage(e)
  <2> SUFFICES ASSUME NEW c \in e.logical .. End(e) - 1 PROVE Received(e, c) = Block(c)
    BY <1>2 DEF MeansImage, Kind
  <2>1. CASE c = b
    BY <1>2, <2>1, GivenIsRight
  <2>2. CASE c # b
    <3>1. c \in x[n].logical .. End(x[n]) - 1
      BY <1>1, <1>2, <1>3, <2>2 DEF Extent
    <3>2. Received(x[n], c) = Block(c)
      BY <1>1, <3>1 DEF Goes, MeansImage
    <3>3. Received(e, c) = Received(x[n], c)
      BY <1>2 DEF Received
    <3>4. QED
      BY <3>2, <3>3
  <2>3. QED
    BY <2>1, <2>2
<1> HIDE DEF e, y
<1>6. y # <<>> /\ GoesTo(y) = b + 1
  <2>1. y # <<>>
    BY <1>1, <1>4, EmptySeq
  <2>2. QED
    BY <1>1, <1>3, <1>4, <2>1 DEF GoesTo
<1>7. y[1].logical = at
  <2>1. x[1].logical = at
    BY DEF Goes
  <2>2. QED
    BY <1>1, <1>2, <1>4, <2>1
<1>8. ASSUME NEW k \in 1 .. n
      PROVE  /\ End(y[k]) <= filesize
             /\ k < n => y[k + 1].logical = End(y[k])
             /\ MeansImage(y[k])
  <2>1. CASE k = n
    BY <1>3, <1>4, <1>5, <2>1
  <2>2. CASE k # n
    <3>1. y[k] = x[k] /\ k < n /\ k + 1 \in 1 .. n
      BY <1>1, <1>4, <1>8, <2>2
    <3>2. y[k + 1].logical = x[k + 1].logical
      BY <1>2, <1>4, <3>1
    <3>3. QED
      BY <3>1, <3>2 DEF Goes
  <2>3. QED
    BY <2>1, <2>2
<1>9. Goes(y)
  BY <1>4, <1>7, <1>8 DEF Goes
<1>10. y = [x EXCEPT ![Len(x)].length = @ + 1]
  BY DEF y, e
<1>11. QED
  BY <1>4, <1>6, <1>9, <1>10

\* What the callback adds for the gap before block b: nothing, or a single extent.
LEMMA GapOfSameSize ==
  ASSUME Chain, Contents, InFile, NeverGrown(cur), lastend \in Nat, NEW b \in Nat,
         lastend <= b, b < filesize, filesize \in Nat
  PROVE  Gap(b) = IF lastend = b THEN <<>>
                  ELSE <<Ex(IF parent = None THEN "HOLE" ELSE "COPY", lastend, b - lastend)>>
<1>1. CASE lastend = b
  BY <1>1 DEF Gap
<1>2. CASE lastend # b /\ parent = None
  BY <1>2 DEF Gap
<1>3. CASE lastend # b /\ parent # None
  <2>1. lastsize \in Nat /\ filesize <= lastsize
    BY <1>3, ParentIsRight
  <2>2. ~ (lastend >= lastsize) /\ lastend < lastsize /\ lastsize >= filesize
    BY <2>1
  <2>3. QED
    BY <1>3, <2>2 DEF Gap
<1>4. QED
  BY <1>1, <1>2, <1>3

\* Beginnings and ends of what is to be added: one extent, or two.
LEMMA One ==
  ASSUME NEW S, NEW d \in S
  PROVE  SubSeq(<<d>>, 1, 1) = <<d>> /\ <<>> \o <<d>> = <<d>> /\ Last(<<d>>) = d
<1>1. <<d>> \in Seq(S) /\ Len(<<d>>) = 1
  OBVIOUS
<1>2. QED
  BY <1>1, SubSeqFull, ConcatEmptySeq DEF Last

LEMMA Two ==
  ASSUME NEW S, NEW g \in S, NEW d \in S
  PROVE  /\ SubSeq(<<g, d>>, 1, 1) = <<g>> /\ SubSeq(<<g, d>>, 1, 2) = <<g, d>>
         /\ <<g>> \o <<d>> = <<g, d>> /\ Last(<<g, d>>) = d
<1> DEFINE y == <<g, d>>
           z == SubSeq(y, 1, 1)
<1>1. /\ y \in Seq(S) /\ Len(y) = 2 /\ y[1] = g /\ y[2] = d
      /\ <<g>> \in Seq(S) /\ Len(<<g>>) = 1 /\ <<g>>[1] = g
  OBVIOUS
<1> HIDE DEF y
<1>2. SubSeq(y, 1, 2) = y
  BY <1>1, SubSeqFull
<1>3. z \in Seq(S) /\ Len(z) = 1 /\ z[1] = y[1]
  <2>1. \A k \in 1 .. 1 : y[k] \in S
    BY <1>1
  <2>2. QED
    BY <2>1, SubSeqProperties
<1> HIDE DEF z
<1>4. z = <<g>>
  BY <1>1, <1>3, SeqEqual
<1>5. SubSeq(y, 1, 2) = SubSeq(y, 1, 1) \o <<y[2]>>
  BY <1>1, SubSeqRecursiveSecond
<1>6. Last(y) = d
  BY <1>1 DEF Last
<1>7. QED
  BY <1>1, <1>2, <1>4, <1>5, <1>6 DEF y, z

LEMMA TwoAppended ==
  ASSUME NEW S, NEW g \in S, NEW d \in S, NEW x \in Seq(S)
  PROVE  x \o <<g, d>> = Append(Append(x, g), d)
<1>1. Append(x, g) = x \o <<g>> /\ Append(x, g) \in Seq(S)
  BY AppendIsConcat, AppendProperties
<1>2. Append(Append(x, g), d) = (x \o <<g>>) \o <<d>>
  BY <1>1, AppendIsConcat
<1>3. <<g>> \in Seq(S) /\ <<d>> \in Seq(S)
  OBVIOUS
<1>4. (x \o <<g>>) \o <<d>> = x \o (<<g>> \o <<d>>)
  BY <1>3, ConcatAssociative
<1>5. QED
  BY <1>2, <1>4, Two

LEMMA MinOfTwo ==
  ASSUME NEW m \in Nat, NEW n \in Nat
  PROVE  Min({m, n}) = IF m <= n THEN m ELSE n
<1>1. Min({m, n}) \in {m, n} /\ \A y \in {m, n} : Min({m, n}) <= y
  <2>1. {m, n} \subseteq Nat /\ {m, n} # {}
    OBVIOUS
  <2>2. QED
    BY <2>1, MinOfPositions
<1> HIDE DEF Min
<1>2. QED
  BY <1>1

\* What RBDFile_extent_cb makes of the batch, if the image has not grown.
LEMMA CallbackGoes ==
  ASSUME Chain, Contents, pc = "mapping", RBDFile_extent_cb, NeverGrown(cur)
  PROVE  /\ Goes(exs') /\ lastend' = GoesTo(exs') /\ iterated' \in Nat /\ lastend' <= iterated'
         /\ Len(exs') <= BufSize
         /\ Len(exs') < BufSize => iterated' = lastend'
<1> DEFINE b == Min(Differing)
           g == Ex(IF parent = None THEN "HOLE" ELSE "COPY", lastend, b - lastend)
           d == Ex(Kind(b), b, 1)
           new == Gap(b) \o <<d>>
           room == BufSize - Len(exs)
           fit == SubSeq(new, 1, Min({room, Len(new)}))
<1>1. InFile
  BY DEF InFile
<1>2. /\ Goes(exs) /\ filesize \in Nat /\ at \in 0 .. filesize /\ lastend = GoesTo(exs)
      /\ Len(exs) <= BufSize /\ iterated \in Nat /\ lastend <= iterated
      /\ (Len(exs) < BufSize => iterated = lastend)
  BY <1>1, FileFacts DEF Contents, BatchIsRight, MappingIsRight
<1>3. lastend \in 0 .. filesize
  BY <1>2, GoesWithin
<1>4. Len(exs) \in Nat /\ BufSize \in Nat /\ exs \in Seq(Extent)
  BY <1>2, LenProperties, BufSizeAssumption DEF Goes
<1>5. b \in Differing /\ \A y \in Differing : b <= y
  <2>1. Differing \subseteq Nat /\ Differing # {}
    BY <1>2 DEF Differing, RBDFile_extent_cb
  <2>2. QED
    BY <2>1, MinOfPositions
<1>6. \/ /\ Continues(b)
         /\ exs' = [exs EXCEPT ![Len(exs)].length = @ + 1]
         /\ iterated' = b + 1 /\ lastend' = b + 1
      \/ /\ exs' = exs \o fit
         /\ iterated' = IF fit = new THEN b + 1 ELSE filesize
         /\ lastend' = IF fit = <<>> THEN lastend ELSE End(Last(fit))
  BY DEF RBDFile_extent_cb
<1> HIDE DEF b
<1>7. b \in Nat /\ b < filesize /\ lastend <= b
  <2>1. b \in Nat /\ b < filesize /\ iterated <= b
    BY <1>2, <1>5 DEF Differing
  <2>2. QED
    BY <1>2, <1>3, <2>1
<1>8. /\ d \in Extent /\ d.flags = Kind(b) /\ d.logical = b /\ End(d) = b + 1
      /\ lastend # b => /\ g \in Extent /\ End(g) = b /\ g.logical = lastend
                        /\ g.flags = IF parent = None THEN "HOLE" ELSE "COPY"
  BY <1>3, <1>7 DEF Ex, Extent, End, Kind
<1>9. Gap(b) = IF lastend = b THEN <<>> ELSE <<g>>
  BY <1>1, <1>2, <1>3, <1>7, GapOfSameSize
<1> HIDE DEF d, g
<1>10. new = IF lastend = b THEN <<d>> ELSE <<g, d>>
  <2>1. CASE lastend = b
    BY <1>8, <1>9, <2>1, One
  <2>2. CASE lastend # b
    <3>1. new = <<g>> \o <<d>>
      BY <1>9, <2>2
    <3>2. <<g>> \o <<d>> = <<g, d>>
      BY <1>8, <2>2, Two
    <3>3. QED
      BY <2>2, <3>1, <3>2
  <2>3. QED
    BY <2>1, <2>2
<1>11. MeansImage(d)
  <2> SUFFICES ASSUME NEW c \in d.logical .. End(d) - 1 PROVE Received(d, c) = Block(c)
    BY <1>8 DEF MeansImage, Kind
  <2>1. c = b
    BY <1>7, <1>8
  <2>2. QED
    BY <1>8, <2>1, GivenIsRight
<1>12. lastend # b /\ Len(exs) < BufSize => MeansImage(g)
  <2> SUFFICES ASSUME lastend # b, Len(exs) < BufSize, NEW c \in g.logical .. End(g) - 1
               PROVE  Received(g, c) = Block(c)
    BY <1>8 DEF MeansImage
  <2>1. c \in lastend .. b - 1
    BY <1>8
  <2>2. c \in 0 .. filesize - 1 /\ c \in iterated .. filesize - 1 /\ ~ (b <= c)
    BY <1>2, <1>3, <1>7, <2>1
  <2>3. ~ Differs(c)
    BY <1>5, <2>2 DEF Differing
  <2>4. QED
    BY <1>1, <1>8, <2>2, <2>3, GapIsRight
<1> HIDE DEF new, fit
<1>13. CASE /\ Continues(b)
            /\ exs' = [exs EXCEPT ![Len(exs)].length = @ + 1]
            /\ iterated' = b + 1 /\ lastend' = b + 1
  <2>1. exs # <<>> /\ GoesTo(exs) = b /\ exs[Len(exs)].flags = Kind(b)
    BY <1>2, <1>13 DEF Continues, Last
  <2>2. Goes(exs') /\ GoesTo(exs') = b + 1 /\ Len(exs') = Len(exs)
    BY <1>2, <1>7, <1>13, <2>1, GoesOnMerged
  <2>3. QED
    BY <1>2, <1>7, <1>13, <2>2
<1>14. CASE /\ exs' = exs \o fit
            /\ iterated' = IF fit = new THEN b + 1 ELSE filesize
            /\ lastend' = IF fit = <<>> THEN lastend ELSE End(Last(fit))
  <2>1. room \in Nat
    BY <1>2, <1>4
  <2>2. CASE Len(exs) = BufSize
    <3>1. fit = <<>> /\ new # <<>>
      <4>1. room = 0 /\ Len(new) \in {1, 2}
        BY <1>4, <1>10, <2>2
      <4>2. Min({room, Len(new)}) = 0
        BY <4>1, MinOfTwo
      <4>3. fit = <<>>
        BY <4>2, SubSeqEmpty DEF fit
      <4>4. new # <<>>
        BY <4>1
      <4>5. QED
        BY <4>3, <4>4
    <3>2. exs' = exs /\ lastend' = lastend /\ iterated' = filesize
      BY <1>4, <1>14, <3>1, ConcatEmptySeq
    <3>3. QED
      BY <1>2, <1>3, <2>2, <3>2
  <2>3. CASE Len(exs) < BufSize /\ lastend = b
    <3>1. new = <<d>> /\ Len(new) = 1
      BY <1>10, <2>3
    <3>2. Min({room, Len(new)}) = 1
      BY <1>4, <2>1, <2>3, <3>1, MinOfTwo
    <3>3. fit = <<d>>
      <4>1. SubSeq(<<d>>, 1, 1) = <<d>>
        BY <1>8, One
      <4>2. QED
        BY <3>1, <3>2, <4>1 DEF fit
    <3>4. exs' = Append(exs, d) /\ iterated' = b + 1
      BY <1>4, <1>8, <1>14, <3>1, <3>3, AppendIsConcat
    <3>5. lastend' = b + 1
      <4>1. Last(fit) = d /\ fit # <<>>
        BY <1>8, <3>3, One
      <4>2. QED
        BY <1>8, <1>14, <4>1
    <3>6. Goes(exs') /\ GoesTo(exs') = b + 1 /\ Len(exs') = Len(exs) + 1
      <4>1. d.logical = GoesTo(exs) /\ End(d) <= filesize /\ End(d) = b + 1
        BY <1>2, <1>7, <1>8, <2>3
      <4>2. QED
        BY <1>2, <1>8, <1>11, <3>4, <4>1, GoesOn
    <3>7. QED
      BY <1>4, <1>7, <2>3, <3>4, <3>5, <3>6
  <2>4. CASE Len(exs) < BufSize /\ lastend # b
    <3>1. new = <<g, d>> /\ Len(new) = 2 /\ g \in Extent
      BY <1>8, <1>10, <2>4
    <3>2. Goes(Append(exs, g)) /\ GoesTo(Append(exs, g)) = b /\ Len(Append(exs, g)) = Len(exs) + 1
      <4>1. g.logical = GoesTo(exs) /\ End(g) <= filesize /\ End(g) = b
        BY <1>2, <1>7, <1>8, <2>4
      <4>2. QED
        BY <1>2, <1>12, <2>4, <3>1, <4>1, GoesOn
    <3>3. CASE Len(exs) + 1 = BufSize
      <4>1. Min({room, Len(new)}) = 1
        BY <1>4, <2>1, <3>1, <3>3, MinOfTwo
      <4>2. fit = <<g>> /\ fit # new
        <5>1. SubSeq(<<g, d>>, 1, 1) = <<g>>
          BY <1>8, <3>1, Two
        <5>2. QED
          <6>1. fit = <<g>>
            BY <3>1, <4>1, <5>1 DEF fit
          <6>2. Len(fit) = 1
            BY <6>1
          <6>3. QED
            BY <3>1, <6>1, <6>2
      <4>3. exs' = Append(exs, g) /\ iterated' = filesize
        BY <1>4, <1>14, <3>1, <4>2, AppendIsConcat
      <4>4. lastend' = b
        <5>1. Last(fit) = g /\ fit # <<>>
          BY <3>1, <4>2, One
        <5>2. QED
          BY <1>8, <1>14, <2>4, <5>1
      <4>5. QED
        BY <1>2, <1>4, <1>7, <3>2, <3>3, <4>3, <4>4
    <3>4. CASE Len(exs) + 1 # BufSize
      <4>1. Min({room, Len(new)}) = 2
        BY <1>4, <2>1, <2>4, <3>1, <3>4, MinOfTwo
      <4>2. fit = <<g, d>>
        <5>1. SubSeq(<<g, d>>, 1, 2) = <<g, d>>
          BY <1>8, <3>1, Two
        <5>2. QED
          BY <3>1, <4>1, <5>1 DEF fit
      <4>3. exs' = Append(Append(exs, g), d) /\ iterated' = b + 1
        BY <1>4, <1>8, <1>14, <3>1, <4>2, TwoAppended
      <4>4. lastend' = b + 1
        <5>1. Last(fit) = d /\ fit # <<>>
          BY <1>8, <3>1, <4>2, Two
        <5>2. QED
          BY <1>8, <1>14, <5>1
      <4>5. Goes(exs') /\ GoesTo(exs') = b + 1 /\ Len(exs') = Len(exs) + 2
        <5>1. d.logical = GoesTo(Append(exs, g)) /\ End(d) <= filesize /\ End(d) = b + 1
          BY <1>2, <1>7, <1>8, <3>2
        <5>2. QED
          BY <1>4, <1>8, <1>11, <3>2, <4>3, <5>1, GoesOn
      <4>6. QED
        BY <1>4, <1>7, <2>4, <3>4, <4>3, <4>4, <4>5
    <3>5. QED
      BY <3>3, <3>4
  <2>5. QED
    BY <1>2, <1>4, <2>2, <2>3, <2>4
<1>15. QED
  BY <1>6, <1>13, <1>14 DEF new, fit

LEMMA CallbackContents == Chain /\ Contents /\ RBDFile_extent_cb => Contents'
<1> SUFFICES ASSUME Chain, Contents, RBDFile_extent_cb PROVE Contents'
  OBVIOUS
<1>1. /\ InFile /\ InFile' /\ pc = "mapping" /\ pc' = pc
      /\ UNCHANGED <<image, cur, sent, images, at>>
  BY DEF RBDFile_extent_cb, given, loop_vars, InFile
<1>2. NeverGrown(cur) =>
        /\ Goes(exs') /\ lastend' = GoesTo(exs') /\ iterated' \in Nat /\ lastend' <= iterated'
        /\ Len(exs') <= BufSize /\ (Len(exs') < BufSize => iterated' = lastend')
  BY <1>1, CallbackGoes
<1>3. EndedAreRight' /\ BatchIsRight' /\ (NeverGrown(cur))' = NeverGrown(cur)
  BY <1>1, <1>2, BatchChanged
<1>4. GoesTo(exs)' = GoesTo(exs')
  BY <1>1 DEF GoesTo, End
<1>5. MappingIsRight'
  BY <1>1, <1>2, <1>3, <1>4 DEF MappingIsRight
<1>6. QED
  BY <1>3, <1>5 DEF Contents

LEMMA BeginContents == Chain /\ Contents /\ (BeginSnapshot \/ BeginSelf) => Contents'
<1> SUFFICES ASSUME Chain, Contents, BeginSnapshot \/ BeginSelf PROVE Contents'
  OBVIOUS
<1>1. /\ pc = "snapshots" /\ pc' = "extents" /\ at' = 0 /\ exs' = <<>> /\ UNCHANGED <<image, cur>>
  BY DEF BeginSnapshot, BeginSelf, AtSnapshot, SnapshotsDone, given, loop_vars
<1>2. PICK k, ref : sent' = Append(sent, NewFile(k, ref))
  BY DEF BeginSnapshot, BeginSelf
<1> DEFINE new == NewFile(k, ref)
<1>3. /\ new.image = cur /\ new.version = k /\ new.ended = FALSE /\ new.ref = ref
      /\ ref => \A b \in DOMAIN new.got : new.got[b] = Version(cur, k).blocks[b]
  BY DEF NewFile
<1> HIDE DEF new
<1>4. /\ Len(sent') = Len(sent) + 1 /\ Len(sent) \in Nat
      /\ \A f \in 1 .. Len(sent) : sent'[f] = sent[f]
      /\ sent'[Len(sent')] = new
  BY <1>2, Appended DEF Chain, SentType, new
<1>5. EndedAreRight'
  <2> SUFFICES ASSUME NEW f \in 1 .. Len(sent'), sent'[f].ended \/ sent'[f].ref,
                      (NeverGrown(sent[f].image))', NEW b \in DOMAIN sent'[f].got
               PROVE  sent'[f].got[b] = Version(sent'[f].image, sent'[f].version).blocks[b]
    BY <1>1 DEF EndedAreRight, Version
  <2>1. CASE f = Len(sent')
    BY <1>3, <1>4, <2>1
  <2>2. CASE f # Len(sent')
    <3>1. f \in 1 .. Len(sent) /\ sent'[f] = sent[f]
      BY <1>4, <2>2
    <3>2. NeverGrown(sent[f].image)
      BY <1>1, <3>1 DEF NeverGrown, Version
    <3>3. QED
      BY <3>1, <3>2 DEF Contents, EndedAreRight
  <2>3. QED
    BY <2>1, <2>2
<1>6. BatchIsRight'
  <2>1. Chain' /\ InFile'
    BY <1>1, BeginChain DEF InFile
  <2>2. filesize' \in Nat
    <3>1. (Chain /\ InFile => filesize \in Nat)'
      BY FileFacts, PTL
    <3>2. QED
      BY <2>1, <3>1
  <2>3. Goes(exs)'
    <3>1. (Goes(<<>>))'
      BY EmptyGoes, PTL
    <3>2. QED
      BY <1>1, <3>1, EmptySeq DEF Goes
  <2>4. QED
    BY <1>1, <2>2, <2>3 DEF BatchIsRight
<1>7. MappingIsRight'
  BY <1>1 DEF MappingIsRight
<1>8. QED
  BY <1>5, <1>6, <1>7 DEF Contents

LEMMA EndContents == Chain /\ Contents /\ EndFile => Contents'
<1> SUFFICES ASSUME Chain, Contents, EndFile PROVE Contents'
  OBVIOUS
<1>1. /\ InFile /\ ~ InFile' /\ pc' # "mapping" /\ at = filesize /\ UNCHANGED image
  BY DEF EndFile, InFile, given
<1>2. /\ Len(sent') = Len(sent)
      /\ \A f \in 1 .. Len(sent) : sent'[f] = IF f = Len(sent) THEN EndedFile ELSE sent[f]
  BY EndReplaces
<1>3. /\ EndedFile.image = cur /\ EndedFile.version = file.version /\ EndedFile.got = file.got
      /\ DOMAIN file.got = 0 .. filesize - 1
  BY <1>1, EndedIsFile, FileFacts
<1>4. EndedAreRight'
  <2> SUFFICES ASSUME NEW f \in 1 .. Len(sent), sent'[f].ended \/ sent'[f].ref,
                      NeverGrown(sent'[f].image), NEW b \in DOMAIN sent'[f].got
               PROVE  sent'[f].got[b] = Version(sent'[f].image, sent'[f].version).blocks[b]
    BY <1>1, <1>2 DEF EndedAreRight, Version, NeverGrown
  <2>1. CASE f = Len(sent)
    <3>1. sent'[f] = EndedFile /\ NeverGrown(cur) /\ b \in 0 .. at - 1
      BY <1>1, <1>2, <1>3, <2>1
    <3>2. file.got[b] = Block(b)
      BY <1>1, <3>1 DEF Contents, BatchIsRight
    <3>3. QED
      BY <1>3, <3>1, <3>2 DEF Block
  <2>2. CASE f # Len(sent)
    BY <1>2, <2>2 DEF Contents, EndedAreRight
  <2>3. QED
    BY <2>1, <2>2
<1>5. QED
  BY <1>1, <1>4 DEF Contents, BatchIsRight, MappingIsRight

LEMMA SendContents == Chain /\ Contents /\ SendExtent => Contents'
<1> SUFFICES ASSUME Chain, Contents, SendExtent PROVE Contents'
  OBVIOUS
<1> DEFINE e == Head(exs)
           end == Min({End(e), filesize})
<1>1. /\ pc = "extents" /\ pc' = pc /\ InFile /\ InFile' /\ exs # <<>>
      /\ exs' = Tail(exs) /\ at' = end /\ UNCHANGED <<image, cur, images>>
  BY DEF SendExtent, given, loop_vars, InFile
<1>2. /\ Len(sent) \in Nat \ {0} /\ file = sent[Len(sent)]
      /\ file.image = cur /\ ~ file.ended /\ filesize \in Nat /\ DOMAIN file.got = 0 .. filesize - 1
      /\ parent # None => parent \in 1 .. Len(sent) /\ parent # Len(sent)
  BY <1>1, ParentIsOther, FileFacts
<1>3. /\ sent' = IF file.ref THEN sent ELSE [sent EXCEPT ![Len(sent)] = WithGot(GotAfter)]
      /\ DOMAIN GotAfter = DOMAIN file.got
  BY <1>1, SentIsReplaced
<1>4. /\ IsFile(WithGot(GotAfter)) /\ WithGot(GotAfter).image = file.image
      /\ WithGot(GotAfter).version = file.version /\ WithGot(GotAfter).ended = file.ended
      /\ WithGot(GotAfter).ref = file.ref /\ WithGot(GotAfter).got = GotAfter
  BY <1>1, <1>3, GotIsFile
<1>5. /\ Len(sent') = Len(sent) /\ file' = IF file.ref THEN file ELSE WithGot(GotAfter)
      /\ \A f \in 1 .. Len(sent) : f # Len(sent) => sent'[f] = sent[f]
      /\ sent'[Len(sent)] = file'
  <2>1. CASE file.ref
    BY <1>2, <1>3, <2>1 DEF file
  <2>2. CASE ~ file.ref
    <3>1. sent' = [sent EXCEPT ![Len(sent)] = WithGot(GotAfter)]
      BY <1>3, <2>2
    <3>2. /\ Len(sent') = Len(sent) /\ file' = WithGot(GotAfter)
          /\ \A f \in 1 .. Len(sent) : sent'[f] = IF f = Len(sent) THEN WithGot(GotAfter) ELSE sent[f]
      BY <1>1, <1>2, <1>4, <3>1, FileReplaced
    <3>3. QED
      BY <1>2, <2>2, <3>2
  <2>3. QED
    BY <2>1, <2>2
<1>6. /\ file'.image = cur /\ file'.version = file.version /\ ~ file'.ended /\ file'.ref = file.ref
      /\ parent' = parent /\ lastsize' = lastsize /\ filesize' = filesize
      /\ parent # None => sent'[parent] = sent[parent]
  <2>1. /\ file'.image = cur /\ file'.version = file.version /\ ~ file'.ended /\ file'.ref = file.ref
    BY <1>2, <1>4, <1>5
  <2>2. /\ parent' = parent /\ lastsize' = lastsize /\ filesize' = filesize
    BY <1>1, <2>1 DEF parent, lastsize, filesize, Version
  <2>3. QED
    BY <1>2, <1>5, <2>1, <2>2
<1>7. EndedAreRight'
  <2> SUFFICES ASSUME NEW f \in 1 .. Len(sent), sent'[f].ended \/ sent'[f].ref,
                      NeverGrown(sent'[f].image), NEW b \in DOMAIN sent'[f].got
               PROVE  sent'[f].got[b] = Version(sent'[f].image, sent'[f].version).blocks[b]
    BY <1>1, <1>5 DEF EndedAreRight, Version, NeverGrown
  <2>1. sent'[f] = sent[f]
    BY <1>2, <1>5, <1>6
  <2>2. QED
    BY <2>1 DEF Contents, EndedAreRight
<1>8. MappingIsRight'
  BY <1>1 DEF MappingIsRight
<1>9. ASSUME NeverGrown(cur)
      PROVE  /\ end \in 0 .. filesize
             /\ \A b \in 0 .. end - 1 : file'.got[b] = Block(b)
             /\ Goes(exs)'
  <2>1. Goes(exs) /\ at \in 0 .. filesize /\ \A b \in 0 .. at - 1 : file.got[b] = Block(b)
    BY <1>1, <1>9 DEF Contents, BatchIsRight
  <2>2. /\ exs \in Seq(Extent) /\ Len(exs) \in Nat \ {0} /\ e = exs[1] /\ e \in Extent
    BY <1>1, <2>1, EmptySeq, ElementOfSeq DEF Goes
  <2> HIDE DEF e
  <2>3. /\ e.logical = at /\ End(e) <= filesize /\ MeansImage(e) /\ End(e) \in Nat
        /\ at <= End(e) /\ end = End(e)
    <3>1. e.logical = at /\ End(e) <= filesize /\ MeansImage(e)
      BY <1>1, <2>1, <2>2 DEF Goes
    <3>2. End(e) \in Nat /\ at <= End(e)
      BY <2>2, <3>1 DEF End, Extent
    <3>3. end = End(e)
      BY <1>2, <3>1, <3>2, MinOfTwo
    <3>4. QED
      BY <3>1, <3>2, <3>3
  <2>4. end \in 0 .. filesize
    BY <1>2, <2>3
  <2>5. ASSUME NEW b \in 0 .. end - 1 PROVE file'.got[b] = Block(b)
    <3>1. b \in DOMAIN file.got
      BY <1>2, <2>4, <2>5
    <3>2. CASE file.ref
      <4>1. file.got[b] = Version(cur, file.version).blocks[b]
        BY <1>2, <1>9, <3>1, <3>2 DEF Contents, EndedAreRight
      <4>2. QED
        BY <1>5, <3>2, <4>1 DEF Block
    <3>3. CASE ~ file.ref
      <4>1. file'.got[b] = GotAfter[b]
        BY <1>4, <1>5, <3>3
      <4>2. GotAfter[b] = IF b \in e.logical .. end - 1 THEN Received(e, b) ELSE file.got[b]
        BY <3>1 DEF GotAfter, e
      <4> HIDE DEF end
      <4>3. CASE b \in at .. end - 1
        BY <2>3, <4>1, <4>2, <4>3 DEF MeansImage
      <4>4. CASE b \notin at .. end - 1
        <5>1. b \in 0 .. at - 1
          BY <2>1, <2>4, <2>5, <4>4
        <5>2. QED
          BY <2>1, <2>3, <4>1, <4>2, <4>4, <5>1
      <4>5. QED
        BY <4>3, <4>4
    <3>4. QED
      BY <3>2, <3>3
  <2>6. \A x : MeansImage(x) => (MeansImage(x))'
    <3> SUFFICES ASSUME NEW x, MeansImage(x) PROVE (MeansImage(x))'
      OBVIOUS
    <3>1. x.flags = "COPY" => parent' # None
      BY <1>6 DEF MeansImage
    <3>2. ASSUME NEW b \in x.logical .. End(x) - 1
          PROVE  (Received(x, b))' = (Block(b))'
      <4>1. Received(x, b) = Block(b)
        BY <3>2 DEF MeansImage
      <4>2. (Block(b))' = Block(b)
        BY <1>1, <1>6 DEF Block, Version
      <4>3. (Received(x, b))' = Received(x, b)
        <5>1. CASE x.flags = "COPY"
          BY <1>6, <5>1 DEF Received, MeansImage
        <5>2. CASE x.flags = "DATA"
          BY <1>1, <1>6, <5>2 DEF Received, Version
        <5>3. CASE x.flags = "HOLE"
          BY <5>3 DEF Received
        <5>4. CASE x.flags \notin {"COPY", "DATA", "HOLE"}
          BY <1>1, <1>6, <5>4 DEF Received, Version
        <5>5. QED
          BY <5>1, <5>2, <5>3, <5>4
      <4>4. QED
        BY <4>1, <4>2, <4>3
    <3>3. (End(x))' = End(x)
      BY DEF End
    <3>4. QED
      BY <3>1, <3>2, <3>3 DEF MeansImage
  <2>7. /\ exs' \in Seq(Extent) /\ Len(exs') = Len(exs) - 1
        /\ \A k \in 1 .. Len(exs') : exs'[k] = exs[k + 1]
    BY <1>1, <2>2, HeadTailProperties
  <2>8. exs' # <<>> => exs'[1].logical = end
    <3> SUFFICES ASSUME exs' # <<>> PROVE exs'[1].logical = end
      OBVIOUS
    <3>1. 1 \in 1 .. Len(exs') /\ 1 < Len(exs) /\ 1 \in 1 .. Len(exs)
      BY <2>2, <2>7, EmptySeq
    <3>2. exs[2].logical = End(exs[1])
      BY <2>1, <3>1 DEF Goes
    <3>3. QED
      BY <2>2, <2>3, <2>7, <3>1, <3>2
  <2>9. ASSUME NEW k \in 1 .. Len(exs')
        PROVE  /\ End(exs'[k]) <= filesize
               /\ k < Len(exs') => exs'[k + 1].logical = End(exs'[k])
               /\ MeansImage(exs'[k])
    <3>1. k + 1 \in 1 .. Len(exs) /\ exs'[k] = exs[k + 1]
      BY <2>2, <2>7, <2>9
    <3>2. k < Len(exs') => k + 1 < Len(exs) /\ exs'[k + 1] = exs[(k + 1) + 1]
      BY <2>2, <2>7, <2>9
    <3>3. QED
      BY <2>1, <3>1, <3>2 DEF Goes
  <2>10. Goes(exs)'
    BY <1>1, <1>6, <2>6, <2>7, <2>8, <2>9 DEF Goes, End
  <2>11. QED
    BY <2>4, <2>5, <2>10
<1>10. BatchIsRight'
  <2>1. (NeverGrown(cur))' = NeverGrown(cur)
    BY <1>1 DEF NeverGrown, Version
  <2>2. \A b : (Block(b))' = Block(b)
    BY <1>1, <1>6 DEF Block, Version
  <2>3. QED
    BY <1>1, <1>6, <1>9, <2>1, <2>2 DEF BatchIsRight
<1>11. QED
  BY <1>7, <1>8, <1>10 DEF Contents

LEMMA StepContents == Chain /\ Contents /\ [Next]_vars => Contents'
<1> SUFFICES ASSUME Chain, Contents, [Next]_vars PROVE Contents'
  OBVIOUS
<1>1. CASE CheckOptions \/ cephrbd_add \/ AddFails \/ AllAdded \/ add_image \/ OpenFails \/ ListFails
           \/ ReadPastList \/ PassOver \/ report_missing \/ BeginFails \/ FileFails \/ Exit
  <2>1. ~ InFile' /\ UNCHANGED <<image, sent>>
    BY <1>1 DEF Exited, Status, CheckOptions, cephrbd_add, AddFails, AllAdded, add_image,
                OpenFails, ListFails,
                ReadPastList, PassOver, report_missing, BeginFails, FileFails, Exit, AtSnapshot,
                given, InFile
  <2>2. QED
    BY <2>1, OutsideContents
<1>2. CASE BeginSnapshot \/ BeginSelf
  BY <1>2, BeginContents
<1>3. CASE RBDFile_nextExtents
  BY <1>3, NextExtentsContents
<1>4. CASE RBDFile_extent_cb
  BY <1>4, CallbackContents
<1>5. CASE FillToEnd
  BY <1>5, FillContents
<1>6. CASE SendExtent
  BY <1>6, SendContents
<1>7. CASE EndFile
  BY <1>7, EndContents
<1>8. CASE UNCHANGED vars
  <2>1. UNCHANGED <<image, cur, sent, images, at, exs, iterated, lastend, pc>>
    BY <1>8 DEF vars, given, loop_vars, iter_vars
  <2>2. CASE ~ InFile
    BY <2>1, <2>2, OutsideContents DEF InFile
  <2>3. CASE InFile
    <3>1. NeverGrown(cur) => Goes(exs')
      BY <2>1, <2>3 DEF Contents, BatchIsRight
    <3>2. EndedAreRight' /\ BatchIsRight' /\ (NeverGrown(cur))' = NeverGrown(cur)
      BY <2>1, <2>3, <3>1, BatchChanged DEF InFile
    <3>3. MappingIsRight'
      BY <2>1, <3>2 DEF Contents, MappingIsRight, GoesTo, End
    <3>4. QED
      BY <3>2, <3>3 DEF Contents
  <2>4. QED
    BY <2>2, <2>3
<1>9. QED
  BY <1>1, <1>2, <1>3, <1>4, <1>5, <1>6, <1>7, <1>8 DEF Next

\* Of a file whose image has never grown, all that was sent, and the batch that is to
\* be, is what the image has (RBDFile_extent_cb, RBDFile_nextExtents).
THEOREM ContentsFollowImage == Spec => []Contents
<1>1. Chain /\ Contents /\ [Next]_vars => Chain' /\ Contents'
  BY StepChain, StepContents
<1>2. QED
  BY InitChain, InitContents, <1>1, PTL DEF Spec

\* Files are right for a receiver, for all images, options and sizes of batches,
\* although only differences are sent and the iteration of librbd is broken off and
\* begun again wherever a batch is full.
THEOREM FilesAreAlwaysRight == Spec => []FilesAreRight
<1>1. Chain /\ Contents => FilesAreRight
  <2> SUFFICES ASSUME Chain, Contents PROVE FilesAreRight
    OBVIOUS
  <2>1. DOMAIN sent = 1 .. Len(sent)
    BY LenProperties DEF Chain, SentType
  <2>2. QED
    BY <2>1 DEF Contents, EndedAreRight, FilesAreRight
<1>2. QED
  BY <1>1, FilesFormChains, ContentsFollowImage, PTL
------------------------------------------------------------------------------
IsSent(m, k) ==
    \E f \in 1 .. Len(sent) : sent[f].image = m /\ sent[f].version = k /\ sent[f].ended

\* --from and --to are for all snapshots of one image.
OptionsAreChecked ==
    pc \notin {"main", "usage"} => opt_snapshots \/ (opt_from = None /\ opt_to = None)

\* What the volumes given ask for is in the table, until add_image takes it.
TableIsRight ==
    /\ pc = "main" => added = 0
    /\ pc \notin {"main", "usage"} => \A a \in 1 .. added :
         /\ args[a].snap = Self /\ opt_to = None =>
              /\ args[a].image \in DOMAIN images
              /\ images[args[a].image].include_self
         /\ args[a].snap # Self /\ opt_from = None /\ opt_to = None =>
              /\ args[a].image \in DOMAIN images
              /\ pc = "args" \/ args[a].image \in todo =>
                   args[a].snap \in images[args[a].image].snapshots
    /\ pc \in {"main", "args", "usage"} \/ retval # "none" \/ added = Len(args)

\* The snapshot k will be reached, and not passed over.
IsToCome(k) ==
    /\ k < Len(image[cur]) /\ k < desired_count
    /\ opt_snapshots \/ Version(cur, k).name \in images[cur].snapshots

\* What is asked for of the current image was sent, is the current file, or is to come.
LoopSends ==
    InImage =>
      \A k \in Asked(cur) :
        \/ IsSent(cur, k)
        \/ InFile /\ file.version = k
        \/ pc = "snapshots" /\ i <= k /\ IsToCome(k)
        \/ InFile /\ file.version = i /\ i < k /\ IsToCome(k)
        \/ /\ k = Len(image[cur]) /\ images[cur].include_self /\ opt_to = None
           /\ pc = "snapshots" \/ (InFile /\ file.version < k)

\* Of the images add_image is done with, all was sent.
DoneAreSent ==
    /\ (pc \in Exited \cup {"images"} \/ InImage) /\ retval = "none" =>
         \A m \in DOMAIN images \ (todo \cup skipped) :
           (InImage /\ m = cur) \/ \A k \in Asked(m) : IsSent(m, k)
    /\ pc \in Exited /\ retval = "none" => todo = {}

Sends == OptionsAreChecked /\ TableIsRight /\ LoopSends /\ DoneAreSent

\* What CasesAssumption says of the names of snapshots.
LEMMA GivenNames ==
  ASSUME Given
  PROVE  /\ DOMAIN args = 1 .. Len(args) /\ Len(args) \in Nat
         /\ \A m \in DOMAIN image : \A k \in 1 .. Len(image[m]) - 1 :
              /\ Version(m, k).name \notin {Self, None}
              /\ \A l \in 1 .. Len(image[m]) : Version(m, l).name = Version(m, k).name => k = l
<1>1. PICK c \in Cases : image = c.image /\ args = c.args
  BY DEF Given
<1>2. ASSUME NEW m \in DOMAIN image, NEW k \in 1 .. Len(image[m]) - 1
      PROVE  /\ image[m][k].name \notin {Self, None}
             /\ \A l \in 1 .. Len(image[m]) : image[m][l].name = image[m][k].name => k = l
  <2>1. Len(image[m]) \in Nat \ {0}
    BY <1>1, <1>2, CasesAssumption
  <2>2. k \in 1 .. Len(image[m]) /\ k < Len(image[m])
    BY <1>2, <2>1
  <2> QED
    BY <1>1, <1>2, <2>2, CasesAssumption
<1> QED
  BY <1>1, <1>2, CasesAssumption DEF Version

\* The index of a snapshot there is.
LEMMA IndexIsRight ==
  ASSUME Given, NEW m \in DOMAIN image, NEW s, Exists(m, s)
  PROVE  /\ Index(m, s) \in 1 .. SnapCount(m) /\ Version(m, Index(m, s)).name = s
         /\ s \notin {Self, None}
<1>1. PICK k \in 1 .. Len(image[m]) - 1 : Version(m, k).name = s
  BY DEF Exists, SnapCount
<1>2. Len(image[m]) \in Nat \ {0}
  BY GivenImages
<1>3. Index(m, Version(m, k).name) = k
  BY <1>1, <1>2, GivenImages
<1> QED
  BY <1>1, <1>3, GivenNames DEF SnapCount

\* Positions up to some n have a greatest one.
LEMMA MaxOfPositions ==
  ASSUME NEW n \in Nat, NEW T, T \subseteq 1 .. n, T # {}
  PROVE  Max(T) \in T /\ \A y \in T : y <= Max(T)
<1> DEFINE U == {n - x : x \in T}
<1>1. U \subseteq Nat /\ U # {}
  <2>1. \A x \in T : x \in 1 .. n
    OBVIOUS
  <2>2. \A x \in T : n - x \in Nat
    BY <2>1
  <2>3. PICK x \in T : TRUE
    OBVIOUS
  <2>4. n - x \in U
    BY <2>3
  <2> QED
    BY <2>2, <2>4
<1>2. PICK u \in U : \A y \in U : u <= y
  <2> HIDE DEF U
  <2> QED
    BY <1>1, MinOfPositions
<1>3. PICK x \in T : u = n - x
  BY <1>2
<1>4. \A y \in T : y <= x
  <2>1. \A y \in T : n - y \in U
    OBVIOUS
  <2>2. \A y \in T : u <= n - y
    BY <1>2, <2>1
  <2> QED
    BY <1>3, <2>2
<1> QED
  BY <1>4 DEF Max

\* Of the snapshots that are asked for, all are before the end that add_image has
\* set, and none before its beginning.
LEMMA DesiredIsReached ==
  ASSUME Given, NEW m \in DOMAIN image, NEW k \in 1 .. SnapCount(m),
         \/ opt_from = None /\ opt_to = None /\
            (opt_snapshots \/ Version(m, k).name \in images[m].snapshots)
         \/ ~ (opt_from = None /\ opt_to = None) /\
            Exists(m, opt_to) /\ k \in StartIndex(m) .. Index(m, opt_to)
  PROVE  StartIndex(m) <= k /\ k < DesiredCount(m)
<1>1. SnapCount(m) \in Nat
  BY GivenImages DEF SnapCount
<1>2. k \in Nat \ {0}
  BY <1>1
<1> DEFINE wanted == IF opt_from # None \/ opt_to # None THEN {opt_to} ELSE images[m].snapshots
           T == {1} \cup {Index(m, s) + 1 : s \in {x \in wanted : Exists(m, x)}}
<1>3. T \subseteq 1 .. SnapCount(m) + 1 /\ T # {}
  <2>1. \A x \in wanted : Exists(m, x) => Index(m, x) \in 1 .. SnapCount(m)
    BY IndexIsRight
  <2> HIDE DEF wanted
  <2> QED
    BY <1>1, <2>1
<1>4. Max(T) \in Nat /\ \A y \in T : y <= Max(T)
  <2> HIDE DEF T
  <2>1. SnapCount(m) + 1 \in Nat
    BY <1>1
  <2>2. Max(T) \in T /\ \A y \in T : y <= Max(T)
    BY <1>3, <2>1, MaxOfPositions
  <2>3. Max(T) \in 1 .. SnapCount(m) + 1
    BY <1>3, <2>2
  <2>4. Max(T) \in Nat
    BY <1>1, <2>3
  <2> QED
    BY <2>2, <2>4
<1>5. DesiredCount(m) = IF opt_from = None /\ opt_to = None /\ opt_snapshots THEN SnapCount(m) + 1
                        ELSE Max(T)
  BY DEF DesiredCount
<1>6. CASE opt_from = None /\ opt_to = None
  <2>1. StartIndex(m) = 1
    BY <1>6 DEF StartIndex
  <2>2. CASE opt_snapshots
    BY <1>1, <1>2, <1>5, <1>6, <2>1, <2>2
  <2>3. CASE ~ opt_snapshots
    <3> DEFINE s == Version(m, k).name
    <3>1. s \in images[m].snapshots /\ Exists(m, s)
      BY <1>6, <2>3 DEF Exists
    <3>2. k \in 1 .. Len(image[m])
      BY <1>1, GivenImages DEF SnapCount
    <3>3. Index(m, s) = k
      BY <3>2, GivenImages
    <3>4. s \in {x \in wanted : Exists(m, x)}
      BY <1>6, <3>1
    <3>5. k + 1 \in T
      <4> HIDE DEF s, wanted
      <4> QED
        BY <3>3, <3>4
    <3> HIDE DEF T
    <3>6. k + 1 <= Max(T)
      BY <1>4, <3>5
    <3> QED
      BY <1>2, <1>4, <1>5, <2>1, <2>3, <3>6
  <2> QED
    BY <2>2, <2>3
<1>7. CASE ~ (opt_from = None /\ opt_to = None)
  <2>1. /\ Exists(m, opt_to) /\ k \in StartIndex(m) .. Index(m, opt_to)
        /\ Index(m, opt_to) \in 1 .. SnapCount(m)
    BY <1>7, IndexIsRight
  <2>2. Index(m, opt_to) + 1 \in T
    BY <1>7, <2>1
  <2>3. StartIndex(m) \in Int
    <3>1. CASE Exists(m, opt_from)
      <4>1. Index(m, opt_from) \in 1 .. SnapCount(m)
        BY <3>1, IndexIsRight
      <4> QED
        BY <1>1, <4>1 DEF StartIndex
    <3>2. CASE ~ Exists(m, opt_from)
      BY <3>2 DEF StartIndex
    <3> QED
      BY <3>1, <3>2
  <2> HIDE DEF T
  <2>4. Index(m, opt_to) + 1 <= Max(T)
    BY <1>4, <2>2
  <2> QED
    BY <1>1, <1>2, <1>4, <1>5, <1>7, <2>1, <2>3, <2>4
<1> QED
  BY <1>6, <1>7

\* What is asked for of an image that add_image was not called for is in the
\* table, and between the ends of its loop.
LEMMA AskedIsToCome ==
  ASSUME Chain, Sends, pc = "images", retval = "none", NEW m \in todo, NEW k \in Asked(m)
  PROVE  /\ k \in 1 .. Len(image[m])
         /\ \/ /\ k < Len(image[m]) /\ StartIndex(m) <= k /\ k < DesiredCount(m)
               /\ opt_snapshots \/ Version(m, k).name \in images[m].snapshots
            \/ k = Len(image[m]) /\ images[m].include_self /\ opt_to = None
<1>1. /\ m \in DOMAIN image /\ Len(image[m]) \in Nat \ {0} /\ SnapCount(m) = Len(image[m]) - 1
  BY GivenImages DEF Chain, ImagesType, SnapCount
<1>2. opt_snapshots \/ (opt_from = None /\ opt_to = None)
  BY DEF Sends, OptionsAreChecked
<1>3. \A a \in 1 .. Len(args) :
        /\ args[a].snap = Self /\ opt_to = None =>
             args[a].image \in DOMAIN images /\ images[args[a].image].include_self
        /\ args[a].snap # Self /\ opt_from = None /\ opt_to = None /\ args[a].image \in todo =>
             args[a].snap \in images[args[a].image].snapshots
  BY DEF Sends, TableIsRight
<1> DEFINE named == {args[a].snap : a \in {x \in DOMAIN args : args[x].image = m}}
<1>4. Self \in named /\ opt_to = None => images[m].include_self
  BY <1>3, GivenNames DEF Chain
<1>5. ASSUME NEW s \in named, s # Self, opt_from = None, opt_to = None
      PROVE  s \in images[m].snapshots
  BY <1>3, <1>5, GivenNames DEF Chain
<1>6. \/ k = Len(image[m]) /\ Self \in named /\ opt_to = None
      \/ /\ opt_from = None /\ opt_to = None /\ k \in 1 .. SnapCount(m)
         /\ opt_snapshots \/ Version(m, k).name \in named
      \/ /\ ~ (opt_from = None /\ opt_to = None)
         /\ Exists(m, opt_to) /\ k \in StartIndex(m) .. Index(m, opt_to)
  <2> DEFINE wanted == IF opt_snapshots THEN 1 .. SnapCount(m)
                       ELSE {x \in 1 .. SnapCount(m) : Version(m, x).name \in named}
             range == IF Exists(m, opt_to) THEN StartIndex(m) .. Index(m, opt_to) ELSE {}
             self == IF Self \in named /\ opt_to = None THEN {Len(image[m])} ELSE {}
  <2>1. Asked(m) = (IF opt_from = None /\ opt_to = None THEN wanted ELSE range) \cup self
    BY DEF Asked
  <2>2. CASE k \in self
    BY <2>2
  <2>3. CASE k \notin self /\ opt_from = None /\ opt_to = None
    <3>1. k \in wanted
      BY <2>1, <2>3
    <3> QED
      BY <2>3, <3>1
  <2>4. CASE k \notin self /\ ~ (opt_from = None /\ opt_to = None)
    <3>1. k \in range
      BY <2>1, <2>4
    <3> QED
      BY <2>4, <3>1
  <2> QED
    BY <2>2, <2>3, <2>4
<1> HIDE DEF named
<1>7. CASE k = Len(image[m]) /\ Self \in named /\ opt_to = None
  BY <1>1, <1>4, <1>7
<1>8. CASE /\ opt_from = None /\ opt_to = None /\ k \in 1 .. SnapCount(m)
           /\ opt_snapshots \/ Version(m, k).name \in named
  <2>1. Version(m, k).name # Self
    BY <1>1, <1>8, GivenNames DEF Chain
  <2>2. opt_snapshots \/ Version(m, k).name \in images[m].snapshots
    BY <1>5, <1>8, <2>1
  <2>3. StartIndex(m) <= k /\ k < DesiredCount(m)
    BY <1>1, <1>8, <2>2, DesiredIsReached DEF Chain
  <2> QED
    BY <1>1, <1>8, <2>2, <2>3
<1>9. CASE /\ ~ (opt_from = None /\ opt_to = None)
           /\ Exists(m, opt_to) /\ k \in StartIndex(m) .. Index(m, opt_to)
  <2>1. Index(m, opt_to) \in 1 .. SnapCount(m)
    BY <1>1, <1>9, IndexIsRight DEF Chain
  <2>2. StartIndex(m) \in Nat \ {0}
    <3>1. CASE Exists(m, opt_from)
      <4>1. Index(m, opt_from) \in 1 .. SnapCount(m)
        BY <1>1, <3>1, IndexIsRight DEF Chain
      <4> QED
        BY <1>1, <4>1 DEF StartIndex
    <3>2. CASE ~ Exists(m, opt_from)
      BY <3>2 DEF StartIndex
    <3> QED
      BY <3>1, <3>2
  <2>3. k \in 1 .. SnapCount(m)
    BY <1>1, <1>9, <2>1, <2>2
  <2>4. StartIndex(m) <= k /\ k < DesiredCount(m)
    BY <1>1, <1>9, <2>3, DesiredIsReached DEF Chain
  <2> QED
    BY <1>1, <1>2, <1>9, <2>3, <2>4
<1> QED
  BY <1>6, <1>7, <1>8, <1>9

\* What is asked for does not change once the options are checked.
LEMMA SameIsAsked ==
  ASSUME UNCHANGED <<image, args, opt_snapshots, opt_from, opt_to>>
  PROVE  \A m : /\ Asked(m)' = Asked(m)
                /\ \A k : Version(m, k)' = Version(m, k)
BY DEF Asked, SnapCount, StartIndex, Index, Exists, Version

FilesKept == \A m, k : IsSent(m, k) => IsSent(m, k)'

LEMMA SameFilesKept == ASSUME sent' = sent PROVE FilesKept
BY DEF FilesKept, IsSent

LEMMA AppendedKeeps ==
  ASSUME SentType, NEW e, sent' = Append(sent, e)
  PROVE  FilesKept
<1>1. /\ Len(sent) \in Nat /\ Len(sent') = Len(sent) + 1
      /\ \A f \in 1 .. Len(sent) : sent'[f] = sent[f]
  BY Appended DEF SentType
<1> SUFFICES ASSUME NEW m, NEW k, IsSent(m, k) PROVE IsSent(m, k)'
  BY DEF FilesKept
<1>2. PICK f \in 1 .. Len(sent) : sent[f].image = m /\ sent[f].version = k /\ sent[f].ended
  BY DEF IsSent
<1>3. f \in 1 .. Len(sent')
  BY <1>1
<1> QED
  BY <1>1, <1>2, <1>3 DEF IsSent

LEMMA ReplacedKeeps ==
  ASSUME NEW e, sent # <<>>, Len(sent') = Len(sent),
         \A f \in 1 .. Len(sent) : sent'[f] = IF f = Len(sent) THEN e ELSE sent[f],
         e.image = sent[Len(sent)].image, e.version = sent[Len(sent)].version,
         sent[Len(sent)].ended => e.ended
  PROVE  FilesKept
<1> SUFFICES ASSUME NEW m, NEW k, IsSent(m, k) PROVE IsSent(m, k)'
  BY DEF FilesKept
<1>1. PICK f \in 1 .. Len(sent) : sent[f].image = m /\ sent[f].version = k /\ sent[f].ended
  BY DEF IsSent
<1>2. sent'[f].image = m /\ sent'[f].version = k /\ sent'[f].ended
  BY <1>1
<1> QED
  BY <1>2 DEF IsSent

\* What is done stays done while an image is worked at.
LEMMA DoneIsKept ==
  ASSUME DoneAreSent, InImage, InImage', FilesKept, DOMAIN images' = DOMAIN images,
         UNCHANGED <<image, args, opt_snapshots, opt_from, opt_to, cur, todo, skipped, retval>>
  PROVE  DoneAreSent'
<1>1. pc' \notin Exited
  BY DEF InImage, InFile, Exited
<1> SUFFICES ASSUME retval = "none", NEW m \in DOMAIN images \ (todo \cup skipped), m # cur
             PROVE  \A k \in Asked(m)' : IsSent(m, k)'
  BY <1>1 DEF DoneAreSent
<1>2. \A k \in Asked(m) : IsSent(m, k)
  BY DEF DoneAreSent
<1> QED
  BY <1>2, SameIsAsked DEF FilesKept

LEMMA TableIsKept ==
  ASSUME TableIsRight, {pc, pc'} \cap {"main", "args", "usage"} = {},
         UNCHANGED <<args, opt_from, opt_to, added>>, retval = "none" \/ retval' # "none",
         todo' \subseteq todo, DOMAIN images' = DOMAIN images,
         \A m \in DOMAIN images : /\ images'[m].include_self = images[m].include_self
                                  /\ m \in todo => images'[m].snapshots = images[m].snapshots
  PROVE  TableIsRight'
<1> SUFFICES ASSUME NEW a \in 1 .. added
             PROVE  /\ args[a].snap = Self /\ opt_to = None =>
                         /\ args[a].image \in DOMAIN images
                         /\ images'[args[a].image].include_self
                    /\ args[a].snap # Self /\ opt_from = None /\ opt_to = None =>
                         /\ args[a].image \in DOMAIN images
                         /\ args[a].image \in todo' =>
                              args[a].snap \in images'[args[a].image].snapshots
  BY DEF TableIsRight
<1> QED
  BY DEF TableIsRight

\* What is asked for are versions of the image.
LEMMA AskedAreVersions ==
  ASSUME Chain, InImage, NEW k \in Asked(cur)
  PROVE  k \in 1 .. Len(image[cur]) /\ Len(image[cur]) \in Nat
<1>1. /\ cur \in DOMAIN image /\ Len(image[cur]) \in Nat \ {0}
      /\ SnapCount(cur) = Len(image[cur]) - 1
  BY GivenImages DEF Chain, LoopType, ImagesType, SnapCount
<1>2. k \in 1 .. SnapCount(cur) \/ k = Len(image[cur])
      \/ (Exists(cur, opt_to) /\ k \in StartIndex(cur) .. Index(cur, opt_to))
  BY DEF Asked
<1>3. ASSUME Exists(cur, opt_to), k \in StartIndex(cur) .. Index(cur, opt_to)
      PROVE  k \in 1 .. SnapCount(cur)
  <2>1. Index(cur, opt_to) \in 1 .. SnapCount(cur)
    BY <1>1, <1>3, IndexIsRight DEF Chain
  <2>2. StartIndex(cur) \in Nat \ {0}
    <3>1. CASE Exists(cur, opt_from)
      <4>1. Index(cur, opt_from) \in 1 .. SnapCount(cur)
        BY <1>1, <3>1, IndexIsRight DEF Chain
      <4> QED
        BY <1>1, <4>1 DEF StartIndex
    <3>2. CASE ~ Exists(cur, opt_from)
      BY <3>2 DEF StartIndex
    <3> QED
      BY <3>1, <3>2
  <2> QED
    BY <1>1, <1>3, <2>1, <2>2
<1> QED
  BY <1>1, <1>2, <1>3
------------------------------------------------------------------------------
LEMMA InitSends == Init => Sends
<1> SUFFICES ASSUME Init PROVE Sends
  OBVIOUS
<1> QED
  BY DEF Init, Sends, OptionsAreChecked, TableIsRight, LoopSends, DoneAreSent, InImage, InFile

LEMMA MainSends == Sends /\ (CheckOptions \/ AddFails \/ AllAdded) => Sends'
<1> SUFFICES ASSUME Sends, CheckOptions \/ AddFails \/ AllAdded PROVE Sends'
  OBVIOUS
<1>1. CASE CheckOptions
  <2>1. /\ pc = "main" /\ pc' \in {"usage", "args"} /\ added' = added
        /\ pc' = "args" => opt_snapshots' \/ (opt_from' = None /\ opt_to' = None)
    BY <1>1 DEF CheckOptions
  <2>2. added' = 0
    BY <2>1 DEF Sends, TableIsRight
  <2>3. TableIsRight'
    BY <2>1, <2>2 DEF TableIsRight
  <2> QED
    BY <2>1, <2>3 DEF Exited, Status, Sends, OptionsAreChecked, LoopSends, DoneAreSent, InImage,
                      InFile
<1>2. CASE AddFails
  <2>1. /\ pc = "args" /\ pc' = "success" /\ retval' = "error"
        /\ UNCHANGED <<args, opt_snapshots, opt_from, opt_to, added, images, todo>>
    BY <1>2 DEF AddFails, Status, given
  <2>2. TableIsRight'
    BY <2>1 DEF Sends, TableIsRight
  <2> QED
    BY <2>1, <2>2 DEF Sends, OptionsAreChecked, LoopSends, DoneAreSent, InImage, InFile
<1>3. CASE AllAdded
  <2>1. /\ pc = "args" /\ pc' = "images" /\ added = Len(args) /\ todo' = DOMAIN images
        /\ UNCHANGED <<args, opt_snapshots, opt_from, opt_to, added, images>>
    BY <1>3 DEF AllAdded, given
  <2>2. TableIsRight'
    BY <2>1 DEF Sends, TableIsRight
  <2>3. DoneAreSent'
    BY <2>1 DEF Exited, Status, DoneAreSent
  <2> QED
    BY <2>1, <2>2, <2>3 DEF Sends, OptionsAreChecked, LoopSends, InImage, InFile
<1> QED
  BY <1>1, <1>2, <1>3

\* A volume that is added takes nothing from the table.
LEMMA TableGrows ==
  ASSUME Chain, pc = "args", NEW m, NEW self \in BOOLEAN, NEW s
  PROVE  LET table == Pool_addImage(m, self)
             added2 == Image_addSnapshot(table, m, s)
         IN  /\ DOMAIN table = DOMAIN images \cup {m}
             /\ self => table[m].include_self
             /\ \A x \in DOMAIN images : /\ table[x].snapshots = images[x].snapshots
                                         /\ images[x].include_self => table[x].include_self
             /\ DOMAIN added2 = DOMAIN table
             /\ s \in added2[m].snapshots
             /\ \A x \in DOMAIN images : /\ images[x].snapshots \subseteq added2[x].snapshots
                                         /\ images[x].include_self => added2[x].include_self
<1> DEFINE table == Pool_addImage(m, self)
           q == table[m]
           more == q.snapshots \cup {s}
           r == [q EXCEPT !.snapshots = more]
<1>1. \A x \in DOMAIN images : IsImage(images[x])
  BY DEF Chain, ImagesType
<1>2. /\ DOMAIN table = DOMAIN images \cup {m} /\ table = [x \in DOMAIN table |-> table[x]]
      /\ IsImage(q) /\ (self => q.include_self)
      /\ \A x \in DOMAIN images : /\ table[x].snapshots = images[x].snapshots
                                  /\ images[x].include_self => table[x].include_self
  <2>1. CASE m \in DOMAIN images
    <3> DEFINE o == images[m]
               p == [o EXCEPT !.include_self = TRUE]
    <3>1. IsImage(o)
      BY <1>1, <2>1
    <3>2. IsImage(p) /\ p.include_self /\ p.snapshots = o.snapshots
      <4> HIDE DEF o
      <4>1. IsImage([o EXCEPT !.include_self = TRUE])
        BY <3>1, ImageChanged
      <4>2. [o EXCEPT !.include_self = TRUE].include_self
            /\ [o EXCEPT !.include_self = TRUE].snapshots = o.snapshots
        BY <3>1 DEF IsImage
      <4> QED
        BY <4>1, <4>2
    <3>3. table = [images EXCEPT ![m] = p]
      BY <2>1 DEF Pool_addImage
    <3> HIDE DEF p, table
    <3>4. /\ table[m] = p /\ DOMAIN table = DOMAIN images
          /\ table = [x \in DOMAIN table |-> table[x]]
          /\ \A x \in DOMAIN images : x # m => table[x] = images[x]
      BY <2>1, <3>3
    <3> QED
      BY <2>1, <3>2, <3>4
  <2>2. CASE m \notin DOMAIN images
    <3>1. table = [x \in DOMAIN images \cup {m} |-> IF x = m THEN Image_new(self) ELSE images[x]]
      BY <2>2 DEF Pool_addImage
    <3>2. IsImage(Image_new(self)) /\ Image_new(self).include_self = self
      BY DEF Image_new, IsImage
    <3> HIDE DEF table
    <3> QED
      BY <2>2, <3>1, <3>2
  <2> QED
    BY <2>1, <2>2
<1>3. r.include_self = q.include_self /\ r.snapshots = q.snapshots \cup {s}
  <2> HIDE DEF q
  <2> QED
    BY <1>2 DEF IsImage
<1>4. Image_addSnapshot(table, m, s) = [table EXCEPT ![m] = r]
  BY DEF Image_addSnapshot
<1>5. m \in DOMAIN table
  BY <1>2
<1>6. q = table[m]
  OBVIOUS
<1> HIDE DEF table, q, r
<1>7. /\ DOMAIN Image_addSnapshot(table, m, s) = DOMAIN table
      /\ Image_addSnapshot(table, m, s)[m] = r
      /\ \A x \in DOMAIN table : x # m => Image_addSnapshot(table, m, s)[x] = table[x]
  BY <1>4, <1>5
<1>8. \A x \in DOMAIN images :
        /\ images[x].snapshots \subseteq Image_addSnapshot(table, m, s)[x].snapshots
        /\ images[x].include_self => Image_addSnapshot(table, m, s)[x].include_self
  BY <1>2, <1>3, <1>5, <1>6, <1>7
<1>9. /\ DOMAIN Image_addSnapshot(table, m, s) = DOMAIN table
      /\ s \in Image_addSnapshot(table, m, s)[m].snapshots
      /\ self => table[m].include_self
  BY <1>2, <1>3, <1>6, <1>7
<1> QED
  BY <1>2, <1>8, <1>9, Zenon DEF table

LEMMA AddSends == Chain /\ Sends /\ cephrbd_add => Sends'
<1> SUFFICES ASSUME Chain, Sends, cephrbd_add PROVE Sends'
  OBVIOUS
<1>1. /\ pc = "args" /\ pc' = "args" /\ added' = added + 1 /\ added \in Nat /\ added < Len(args)
      /\ UNCHANGED <<args, opt_snapshots, opt_from, opt_to, todo>>
  BY DEF cephrbd_add, Chain, ImagesType, given
<1> DEFINE m == args[added + 1].image
           s == args[added + 1].snap
           is_self == s = Self /\ opt_to = None
           table == Pool_addImage(m, is_self)
<1>2. is_self \in BOOLEAN
  OBVIOUS
<1>3. /\ s # Self /\ {opt_from, opt_to} # {None} => images' = images
      /\ s # Self /\ {opt_from, opt_to} = {None} => images' = Image_addSnapshot(table, m, s)
      /\ s = Self => images' = table
  <2>1. images' = CASE s # Self /\ {opt_from, opt_to} # {None} -> images
                    [] s # Self /\ {opt_from, opt_to} = {None} -> Image_addSnapshot(table, m, s)
                    [] OTHER -> table
    BY DEF cephrbd_add
  <2> DEFINE both == {opt_from, opt_to}
             more == Image_addSnapshot(table, m, s)
  <2> HIDE DEF table, m, s, both, more
  <2>2. images' = CASE s # Self /\ both # {None} -> images
                    [] s # Self /\ both = {None} -> more
                    [] OTHER -> table
    BY <2>1 DEF both, more
  <2>3. /\ s # Self /\ both # {None} => images' = images
        /\ s # Self /\ both = {None} => images' = more
        /\ s = Self => images' = table
    <3>1. CASE s # Self /\ both # {None}
      BY <2>2, <3>1
    <3>2. CASE s # Self /\ both = {None}
      BY <2>2, <3>2
    <3>3. CASE s = Self
      BY <2>2, <3>3
    <3> QED
      BY <3>1, <3>2, <3>3
  <2> QED
    BY <2>3 DEF both, more
<1>4. /\ DOMAIN images \subseteq DOMAIN images'
      /\ \A x \in DOMAIN images : /\ images[x].snapshots \subseteq images'[x].snapshots
                                  /\ images[x].include_self => images'[x].include_self
      /\ s = Self /\ opt_to = None => m \in DOMAIN images' /\ images'[m].include_self
      /\ s # Self /\ opt_from = None /\ opt_to = None =>
           m \in DOMAIN images' /\ s \in images'[m].snapshots
  <2>1. CASE s # Self /\ {opt_from, opt_to} # {None}
    <3>1. images' = images
      BY <1>3, <2>1
    <3>2. ~ (opt_from = None /\ opt_to = None)
      BY <2>1
    <3> HIDE DEF m, s
    <3> QED
      BY <2>1, <3>1, <3>2
  <2>2. CASE s # Self /\ {opt_from, opt_to} = {None}
    <3>1. images' = Image_addSnapshot(table, m, s)
      BY <1>3, <2>2
    <3>2. /\ DOMAIN Image_addSnapshot(table, m, s) = DOMAIN images \cup {m}
          /\ s \in Image_addSnapshot(table, m, s)[m].snapshots
          /\ \A x \in DOMAIN images :
               /\ images[x].snapshots \subseteq Image_addSnapshot(table, m, s)[x].snapshots
               /\ images[x].include_self => Image_addSnapshot(table, m, s)[x].include_self
      <4> HIDE DEF m, s, is_self
      <4> QED
        BY <1>1, <1>2, TableGrows
    <3> HIDE DEF m, s, table
    <3> QED
      BY <2>2, <3>1, <3>2
  <2>3. CASE s = Self
    <3>1. images' = table
      BY <1>3, <2>3
    <3>2. /\ DOMAIN table = DOMAIN images \cup {m} /\ (is_self => table[m].include_self)
          /\ \A x \in DOMAIN images : /\ table[x].snapshots = images[x].snapshots
                                      /\ images[x].include_self => table[x].include_self
      <4> HIDE DEF m, s, is_self
      <4> QED
        BY <1>1, <1>2, TableGrows
    <3>3. is_self <=> opt_to = None
      BY <2>3
    <3> HIDE DEF m, s, table, is_self
    <3> QED
      BY <2>3, <3>1, <3>2, <3>3
  <2> QED
    BY <2>1, <2>2, <2>3
<1>5. \A a \in 1 .. added' :
        /\ args[a].snap = Self /\ opt_to = None =>
             /\ args[a].image \in DOMAIN images' /\ images'[args[a].image].include_self
        /\ args[a].snap # Self /\ opt_from = None /\ opt_to = None =>
             /\ args[a].image \in DOMAIN images'
             /\ args[a].snap \in images'[args[a].image].snapshots
  <2> SUFFICES ASSUME NEW a \in 1 .. added'
               PROVE  /\ args[a].snap = Self /\ opt_to = None =>
                           /\ args[a].image \in DOMAIN images'
                           /\ images'[args[a].image].include_self
                      /\ args[a].snap # Self /\ opt_from = None /\ opt_to = None =>
                           /\ args[a].image \in DOMAIN images'
                           /\ args[a].snap \in images'[args[a].image].snapshots
    OBVIOUS
  <2>1. CASE a = added + 1
    BY <1>4, <2>1
  <2>2. CASE a # added + 1
    <3>1. a \in 1 .. added
      BY <1>1, <2>2
    <3>2. /\ args[a].snap = Self /\ opt_to = None =>
               args[a].image \in DOMAIN images /\ images[args[a].image].include_self
          /\ args[a].snap # Self /\ opt_from = None /\ opt_to = None =>
               /\ args[a].image \in DOMAIN images
               /\ args[a].snap \in images[args[a].image].snapshots
      BY <1>1, <3>1 DEF Sends, TableIsRight
    <3> HIDE DEF m, s
    <3> QED
      BY <1>4, <3>2
  <2> QED
    BY <2>1, <2>2
<1>6. TableIsRight'
  <2> HIDE DEF m, s
  <2> QED
    BY <1>1, <1>5 DEF TableIsRight
<1> QED
  BY <1>1, <1>6 DEF Exited, Status, Sends, OptionsAreChecked, LoopSends, DoneAreSent, InImage,
                    InFile

\* Becoming a parent changes nothing else of an image.
LEMMA ParentKeeps ==
  ASSUME Chain, IsParent, cur \in DOMAIN images
  PROVE  /\ DOMAIN images' = DOMAIN images
         /\ \A m \in DOMAIN images : /\ images'[m].include_self = images[m].include_self
                                     /\ images'[m].snapshots = images[m].snapshots
<1> DEFINE q == images[cur]
           n == Len(sent)
           z == filesize
           r == WithParent(q, n, z)
<1>1. images' = [images EXCEPT ![cur] = r]
  BY DEF IsParent, WithParent
<1>2. IsImage(q)
  BY DEF Chain, ImagesType
<1>3. r.include_self = q.include_self /\ r.snapshots = q.snapshots
  <2> HIDE DEF q, n, z
  <2>1. q = [include_self |-> q.include_self, snapshots |-> q.snapshots,
             last_file_id |-> q.last_file_id, lastsize |-> q.lastsize]
    BY <1>2 DEF IsImage
  <2> DEFINE p == [q EXCEPT !.last_file_id = n]
             x == [q EXCEPT !.last_file_id = n, !.lastsize = z]
  <2>2. p = [include_self |-> q.include_self, snapshots |-> q.snapshots,
             last_file_id |-> n, lastsize |-> q.lastsize]
    BY <2>1
  <2>3. x = [p EXCEPT !.lastsize = z]
    OBVIOUS
  <2> HIDE DEF p, x
  <2>4. x.include_self = q.include_self /\ x.snapshots = q.snapshots
    BY <2>2, <2>3
  <2> QED
    BY <2>4 DEF x, WithParent
<1> HIDE DEF r
<1>4. /\ DOMAIN images' = DOMAIN images /\ images'[cur] = r
      /\ \A m \in DOMAIN images : m # cur => images'[m] = images[m]
  BY <1>1
<1> QED
  BY <1>3, <1>4

LEMMA AddImageSends == Chain /\ Sends /\ add_image => Sends'
<1> SUFFICES ASSUME Chain, Sends, add_image PROVE Sends'
  OBVIOUS
<1>1. /\ pc = "images" /\ retval = "none" /\ pc' = "snapshots"
      /\ UNCHANGED <<image, args, opt_snapshots, opt_from, opt_to, added, images, sent, retval,
                     skipped>>
  BY DEF add_image, given
<1>2. PICK m \in todo : /\ todo' = todo \ {m} /\ cur' = m /\ i' = StartIndex(m)
                        /\ desired_count' = DesiredCount(m)
  BY DEF add_image
<1>3. TableIsRight' /\ OptionsAreChecked'
  <2>1. {pc, pc'} \cap {"main", "args", "usage"} = {} /\ todo' \subseteq todo
    BY <1>1, <1>2
  <2>2. TableIsRight'
    BY <1>1, <2>1, TableIsKept DEF Sends
  <2> QED
    BY <1>1, <2>2 DEF Sends, OptionsAreChecked
<1>4. /\ \A x : Asked(x)' = Asked(x) /\ \A k : Version(x, k)' = Version(x, k)
      /\ \A x, k : IsSent(x, k) => IsSent(x, k)'
  BY <1>1, SameIsAsked, SameFilesKept DEF FilesKept
<1>5. ~ InFile' /\ InImage' /\ ~ InImage
  BY <1>1 DEF InFile, InImage
<1>6. ASSUME NEW k \in Asked(m)
      PROVE  \/ i' <= k /\ IsToCome(k)'
             \/ k = Len(image[m]) /\ images[m].include_self /\ opt_to = None
  <2>1. \/ /\ k < Len(image[m]) /\ StartIndex(m) <= k /\ k < DesiredCount(m)
           /\ opt_snapshots \/ Version(m, k).name \in images[m].snapshots
        \/ k = Len(image[m]) /\ images[m].include_self /\ opt_to = None
    BY <1>1, AskedIsToCome
  <2>2. k < Len(image[m]) /\ k < DesiredCount(m)
           /\ (opt_snapshots \/ Version(m, k).name \in images[m].snapshots) => IsToCome(k)'
    BY <1>1, <1>2 DEF IsToCome, Version
  <2> QED
    BY <1>2, <2>1, <2>2
<1>7. LoopSends'
  <2>1. Asked(cur)' = Asked(m)
    BY <1>1, <1>2 DEF Asked, SnapCount, StartIndex, Index, Exists, Version
  <2> QED
    BY <1>1, <1>2, <1>6, <2>1 DEF LoopSends
<1>8. DoneAreSent'
  <2> SUFFICES ASSUME NEW x \in DOMAIN images \ (todo' \cup skipped), x # m
               PROVE  \A k \in Asked(x)' : IsSent(x, k)'
    BY <1>1, <1>2, <1>5 DEF Exited, Status, DoneAreSent
  <2>1. x \in DOMAIN images \ (todo \cup skipped)
    BY <1>2
  <2> QED
    BY <1>1, <1>4, <1>5, <2>1 DEF Sends, DoneAreSent
<1> QED
  BY <1>3, <1>7, <1>8 DEF Sends

\* Steps that leave an image or leave one out, or end the program.
LEMMA LeavingSends ==
  Chain /\ Sends /\ (OpenFails \/ ListFails \/ ReadPastList \/ BeginFails \/ FileFails \/ Exit)
    => Sends'
<1> SUFFICES ASSUME Chain, Sends, OpenFails \/ ListFails \/ ReadPastList \/ BeginFails \/ FileFails \/ Exit
             PROVE  Sends'
  OBVIOUS
<1>1. /\ {pc, pc'} \cap {"main", "args", "usage"} = {} /\ ~ InImage' /\ todo' \subseteq todo
      /\ retval = "none" \/ retval' # "none"
      /\ UNCHANGED <<image, args, opt_snapshots, opt_from, opt_to, added, sent>>
      /\ images' = images \/ FileFails
  BY DEF Exited, Status, OpenFails, ListFails, ReadPastList, BeginFails, FileFails, Exit, given,
         InImage, InFile,
         AtSnapshot, SnapshotsDone
<1>2. /\ DOMAIN images' = DOMAIN images
      /\ \A m \in DOMAIN images :
           /\ images'[m].include_self = images[m].include_self
           /\ m \in todo => images'[m].snapshots = images[m].snapshots
  <2>1. CASE images' = images
    BY <2>1
  <2>2. CASE FileFails
    <3>1. IsParent /\ InImage
      BY <2>2 DEF FileFails, InImage, InFile
    <3>2. cur \in DOMAIN images \ todo
      BY <3>1 DEF Chain, LoopType
    <3> QED
      BY <3>1, <3>2, ParentKeeps
  <2> QED
    BY <1>1, <2>1, <2>2
<1>3. TableIsRight' /\ OptionsAreChecked'
  <2>1. TableIsRight'
    BY <1>1, <1>2, TableIsKept DEF Sends
  <2> QED
    BY <1>1, <2>1 DEF Sends, OptionsAreChecked
<1>4. LoopSends'
  BY <1>1 DEF LoopSends
<1>5. DoneAreSent'
  <2>1. CASE retval' # "none" \/ pc' \notin Exited \cup {"images"}
    BY <1>1, <2>1 DEF DoneAreSent
  <2>2. CASE retval' = "none" /\ pc' \in Exited \cup {"images"}
    <3>1. /\ pc = "images" /\ retval = "none" /\ ~ InImage /\ images' = images
          /\ todo' \cup skipped' = todo \cup skipped
          /\ pc' \in Exited => todo' = {}
      BY <2>2 DEF OpenFails, ListFails, ReadPastList, BeginFails, FileFails, Exit, InImage, InFile,
                  Exited, Status
    <3>2. \A x : /\ Asked(x)' = Asked(x)
                 /\ \A k : IsSent(x, k) => IsSent(x, k)'
      BY <1>1, SameIsAsked, SameFilesKept DEF FilesKept
    <3>3. \A x \in DOMAIN images \ (todo \cup skipped) : \A k \in Asked(x) : IsSent(x, k)
      BY <3>1 DEF Sends, DoneAreSent
    <3> QED
      BY <1>1, <3>1, <3>2, <3>3 DEF DoneAreSent
  <2> QED
    BY <2>1, <2>2
<1> QED
  BY <1>3, <1>4, <1>5 DEF Sends

LEMMA ReportSends == Chain /\ Sends /\ report_missing => Sends'
<1> SUFFICES ASSUME Chain, Sends, report_missing PROVE Sends'
  OBVIOUS
<1>1. /\ pc \in {"snapshots", "report"} /\ pc' = "images" /\ InImage /\ ~ InImage' /\ ~ InFile
      /\ retval = "none" \/ retval' # "none"
      /\ UNCHANGED <<image, args, opt_snapshots, opt_from, opt_to, added, images, todo, cur, sent,
                     skipped>>
      /\ pc = "snapshots" => i = desired_count /\ ~ (images[cur].include_self /\ opt_to = None)
  BY DEF report_missing, given, loop_vars, SnapshotsDone, InImage, InFile
<1>2. TableIsRight' /\ OptionsAreChecked' /\ LoopSends'
  <2>1. {pc, pc'} \cap {"main", "args", "usage"} = {} /\ todo' \subseteq todo
    BY <1>1
  <2>2. TableIsRight'
    BY <1>1, <2>1, TableIsKept DEF Sends
  <2> QED
    BY <1>1, <2>2 DEF Sends, OptionsAreChecked, LoopSends
<1>3. cur \in DOMAIN image /\ i \in Int
  <2>1. cur \in DOMAIN image /\ i \in 1 .. Len(image[cur])
    BY <1>1 DEF Chain, LoopType, ImagesType
  <2> QED
    BY <2>1, GivenImages DEF Chain
<1>4. ASSUME NEW k \in Asked(cur) PROVE IsSent(cur, k)
  <2>1. ~ (pc = "snapshots" /\ i <= k /\ IsToCome(k))
    <3> SUFFICES ASSUME pc = "snapshots", i <= k, k < i PROVE FALSE
      BY <1>1 DEF IsToCome
    <3>1. k \in Int
      BY <1>1, <1>4, AskedAreVersions
    <3> QED
      BY <1>3, <3>1
  <2> QED
    BY <1>1, <1>4, <2>1 DEF Sends, LoopSends
<1>5. DoneAreSent'
  <2> SUFFICES ASSUME retval' = "none", NEW x \in DOMAIN images \ (todo \cup skipped)
               PROVE  \A k \in Asked(x)' : IsSent(x, k)'
    BY <1>1 DEF Exited, Status, DoneAreSent
  <2>1. \A k \in Asked(x) : IsSent(x, k)
    BY <1>1, <1>4 DEF Sends, DoneAreSent
  <2> QED
    BY <1>1, <2>1, SameIsAsked, SameFilesKept DEF FilesKept
<1> QED
  BY <1>2, <1>5 DEF Sends

\* What is in the loop is left to be: the conjuncts of Sends besides LoopSends.
LEMMA RestIsKept ==
  ASSUME Sends, InImage, InImage', FilesKept, DOMAIN images' = DOMAIN images,
         UNCHANGED <<image, args, opt_snapshots, opt_from, opt_to, added, cur, todo, skipped, retval>>,
         \A m \in DOMAIN images : /\ images'[m].include_self = images[m].include_self
                                  /\ m \in todo => images'[m].snapshots = images[m].snapshots
  PROVE  OptionsAreChecked' /\ TableIsRight' /\ DoneAreSent'
<1>1. {pc, pc'} \cap {"main", "args", "usage"} = {}
  BY DEF InImage, InFile
<1>2. TableIsRight'
  BY <1>1, TableIsKept DEF Sends
<1>3. DoneAreSent'
  BY DoneIsKept DEF Sends
<1> QED
  BY <1>1, <1>2, <1>3 DEF Sends, OptionsAreChecked

LEMMA PassOverSends == Chain /\ Sends /\ PassOver => Sends'
<1> SUFFICES ASSUME Chain, Sends, PassOver PROVE Sends'
  OBVIOUS
<1>1. /\ pc = "snapshots" /\ pc' = "snapshots" /\ i' = i + 1 /\ NotAskedFor
      /\ UNCHANGED <<image, args, opt_snapshots, opt_from, opt_to, added, cur, todo, skipped, retval,
                     images, sent, desired_count>>
  BY DEF PassOver, AtSnapshot, given
<1>2. InImage /\ InImage' /\ ~ InFile /\ ~ InFile' /\ FilesKept
  BY <1>1, SameFilesKept DEF InImage, InFile
<1>3. OptionsAreChecked' /\ TableIsRight' /\ DoneAreSent'
  BY <1>1, <1>2, RestIsKept
<1>4. i \in Int
  <2>1. cur \in DOMAIN image /\ i \in 1 .. Len(image[cur])
    BY <1>2 DEF Chain, LoopType, ImagesType
  <2> QED
    BY <2>1, GivenImages DEF Chain
<1>5. ASSUME NEW k \in Asked(cur), pc = "snapshots" /\ i <= k /\ IsToCome(k)
      PROVE  i' <= k /\ IsToCome(k)'
  <2>1. k # i
    BY <1>1, <1>5 DEF IsToCome, NotAskedFor
  <2>2. k \in Int
    BY <1>2, AskedAreVersions
  <2>3. i' <= k
    BY <1>1, <1>4, <1>5, <2>1, <2>2
  <2> QED
    BY <1>1, <1>5, <2>3 DEF IsToCome, Version
<1>6. LoopSends'
  <2> SUFFICES ASSUME NEW k \in Asked(cur)'
               PROVE  \/ IsSent(cur, k)'
                      \/ i' <= k /\ IsToCome(k)'
                      \/ k = Len(image[cur]) /\ images[cur].include_self /\ opt_to = None
    BY <1>1, <1>2 DEF LoopSends
  <2>1. k \in Asked(cur)
    BY <1>1 DEF Asked, SnapCount, StartIndex, Index, Exists, Version
  <2>2. IsSent(cur, k) => IsSent(cur, k)'
    BY <1>1 DEF IsSent
  <2> QED
    BY <1>1, <1>2, <1>5, <2>1, <2>2 DEF Sends, LoopSends
<1> QED
  BY <1>3, <1>6 DEF Sends

\* Steps of the current file's mapping, and of sending what it has.
LEMMA WithinFileSends ==
  ASSUME Sends, InFile, InFile', FilesKept, file'.version = file.version,
         UNCHANGED <<image, args, opt_snapshots, opt_from, opt_to, added, todo, skipped, retval,
                     images, loop_vars>>
  PROVE  Sends'
<1>1. InImage /\ InImage' /\ UNCHANGED <<cur, i, desired_count>> /\ pc # "snapshots"
  BY DEF InImage, loop_vars, InFile
<1>2. OptionsAreChecked' /\ TableIsRight' /\ DoneAreSent'
  BY <1>1, RestIsKept
<1>3. LoopSends'
  <2> SUFFICES ASSUME NEW k \in Asked(cur)'
               PROVE  \/ IsSent(cur, k)'
                      \/ file'.version = k
                      \/ file'.version = i' /\ i' < k /\ IsToCome(k)'
                      \/ /\ k = Len(image[cur]) /\ images[cur].include_self /\ opt_to = None
                         /\ file'.version < k
    BY <1>1 DEF LoopSends
  <2>1. k \in Asked(cur)
    BY <1>1 DEF Asked, SnapCount, StartIndex, Index, Exists, Version
  <2>2. PICK m : m = cur
    OBVIOUS
  <2>3. IsSent(m, k) => IsSent(m, k)'
    BY DEF FilesKept
  <2>4. IsSent(cur, k) => IsSent(cur, k)'
    BY <1>1, <2>2, <2>3
  <2>5. IsToCome(k) => IsToCome(k)'
    BY <1>1 DEF IsToCome, Version
  <2> QED
    BY <1>1, <2>1, <2>4, <2>5 DEF Sends, LoopSends
<1> QED
  BY <1>2, <1>3 DEF Sends

LEMMA SendExtentSends == Chain /\ Sends /\ SendExtent => Sends'
<1> SUFFICES ASSUME Chain, Sends, SendExtent PROVE Sends'
  OBVIOUS
<1>1. /\ InFile /\ InFile'
      /\ UNCHANGED <<image, args, opt_snapshots, opt_from, opt_to, added, todo, skipped, retval,
                     images, loop_vars>>
  BY DEF SendExtent, given, InFile
<1>2. CASE sent' = sent
  <2>1. FilesKept /\ file'.version = file.version
    BY <1>2, SameFilesKept DEF file
  <2> QED
    BY <1>1, <2>1, WithinFileSends
<1>3. CASE sent' # sent
  <2>1. /\ sent' = [sent EXCEPT ![Len(sent)] = WithGot(GotAfter)]
        /\ DOMAIN GotAfter = DOMAIN file.got
    BY <1>1, <1>3, SentIsReplaced
  <2>2. file = sent[Len(sent)] /\ IsFile(file) /\ Len(sent) \in Nat \ {0}
    BY <1>1, ParentIsOther
  <2>3. PICK e : e = WithGot(GotAfter)
    OBVIOUS
  <2>4. IsFile(e) /\ e.image = file.image /\ e.version = file.version /\ e.ended = file.ended
    <3>1. PICK got : got = GotAfter
      OBVIOUS
    <3> QED
      BY <1>1, <2>1, <2>2, <2>3, <3>1, GotIsFile
  <2>5. /\ SentType' /\ Len(sent') = Len(sent)
        /\ \A f \in 1 .. Len(sent) : sent'[f] = IF f = Len(sent) THEN e ELSE sent[f]
    BY <1>1, <2>1, <2>3, <2>4, FileReplaced DEF Chain, CurrentFile
  <2>6. sent # <<>>
    BY <1>1 DEF Chain, CurrentFile
  <2>7. FilesKept
    BY <2>2, <2>4, <2>5, <2>6, ReplacedKeeps
  <2>8. file' = e
    BY <2>2, <2>5, LastOfNonEmpty, EmptySeq DEF file, SentType
  <2> QED
    BY <1>1, <2>4, <2>7, <2>8, WithinFileSends
<1> QED
  BY <1>2, <1>3

\* Taking a snapshot from the table takes no other.
LEMMA TakenKeeps ==
  ASSUME Chain, cur \in DOMAIN images, NEW x,
         images' = [images EXCEPT ![cur].snapshots = @ \ {x}]
  PROVE  /\ DOMAIN images' = DOMAIN images
         /\ \A m \in DOMAIN images : /\ images'[m].include_self = images[m].include_self
                                     /\ m # cur => images'[m].snapshots = images[m].snapshots
         /\ images'[cur].snapshots = images[cur].snapshots \ {x}
<1> DEFINE q == images[cur]
           less == q.snapshots \ {x}
           r == [q EXCEPT !.snapshots = less]
<1>1. images' = [images EXCEPT ![cur] = r]
  OBVIOUS
<1>2. IsImage(q)
  BY DEF Chain, ImagesType
<1>3. r.include_self = q.include_self /\ r.snapshots = less
  <2> HIDE DEF q, less
  <2> QED
    BY <1>2 DEF IsImage
<1>4. q = images[cur]
  OBVIOUS
<1>5. less = images[cur].snapshots \ {x}
  OBVIOUS
<1> HIDE DEF r, less, q
<1>6. /\ DOMAIN images' = DOMAIN images /\ images'[cur] = r
      /\ \A m \in DOMAIN images : m # cur => images'[m] = images[m]
  BY <1>1
<1> QED
  BY <1>3, <1>4, <1>5, <1>6

LEMMA BeginSnapshotSends == Chain /\ Sends /\ BeginSnapshot => Sends'
<1> SUFFICES ASSUME Chain, Sends, BeginSnapshot PROVE Sends'
  OBVIOUS
<1>1. /\ pc = "snapshots" /\ pc' = "extents" /\ i <= SnapCount(cur) /\ InImage /\ InImage' /\ InFile'
      /\ ~ InFile
      /\ UNCHANGED <<image, args, opt_snapshots, opt_from, opt_to, added, cur, i, desired_count, todo,
                     skipped, retval>>
      /\ images' = IF opt_snapshots THEN images
                   ELSE [images EXCEPT ![cur].snapshots = @ \ {Version(cur, i).name}]
  BY DEF BeginSnapshot, AtSnapshot, given, loop_vars, InImage, InFile
<1>2. PICK e : sent' = Append(sent, e) /\ e.image = cur /\ e.version = i
  BY DEF BeginSnapshot, NewFile
<1>3. /\ FilesKept /\ file'.version = i
  <2>1. /\ sent' \in Seq(Range(sent')) /\ Len(sent') = Len(sent) + 1
        /\ sent'[Len(sent')] = e /\ sent' # <<>>
    BY <1>2, Appended DEF Chain, SentType
  <2>2. file' = e
    BY <2>1, LastOfNonEmpty DEF file
  <2> QED
    BY <1>2, <2>2, AppendedKeeps DEF Chain
<1>4. /\ cur \in DOMAIN images \ todo /\ cur \in DOMAIN image /\ i \in 1 .. Len(image[cur])
      /\ Len(image[cur]) \in Nat \ {0}
  BY <1>1, GivenImages DEF Chain, LoopType, ImagesType
<1>5. /\ DOMAIN images' = DOMAIN images
      /\ \A m \in DOMAIN images : /\ images'[m].include_self = images[m].include_self
                                  /\ m # cur => images'[m].snapshots = images[m].snapshots
      /\ opt_snapshots \/ images'[cur].snapshots = images[cur].snapshots \ {Version(cur, i).name}
  <2>1. CASE opt_snapshots
    BY <1>1, <2>1
  <2>2. CASE ~ opt_snapshots
    BY <1>1, <1>4, <2>2, TakenKeeps
  <2> QED
    BY <2>1, <2>2
<1>6. OptionsAreChecked' /\ TableIsRight' /\ DoneAreSent'
  BY <1>1, <1>3, <1>4, <1>5, RestIsKept
<1>7. ASSUME NEW k \in Asked(cur), i <= k, IsToCome(k)
      PROVE  k = i \/ (i < k /\ IsToCome(k)')
  <2>1. k \in 1 .. Len(image[cur]) - 1
    BY <1>1, <1>4, <1>7, AskedAreVersions DEF IsToCome
  <2>2. k # i => Version(cur, k).name # Version(cur, i).name
    BY <1>4, <2>1, GivenNames DEF Chain
  <2>3. k # i /\ ~ opt_snapshots => Version(cur, k).name \in images'[cur].snapshots
    BY <1>5, <1>7, <2>2 DEF IsToCome
  <2>4. k # i => i < k
    BY <1>4, <1>7, <2>1
  <2> QED
    BY <1>1, <1>7, <2>3, <2>4 DEF IsToCome, Version
<1>8. LoopSends'
  <2> SUFFICES ASSUME NEW k \in Asked(cur)'
               PROVE  \/ IsSent(cur, k)' \/ i = k
                      \/ i < k /\ IsToCome(k)'
                      \/ k = Len(image[cur]) /\ images'[cur].include_self /\ opt_to = None /\ i < k
    BY <1>1, <1>3 DEF LoopSends
  <2>1. k \in Asked(cur)
    BY <1>1 DEF Asked, SnapCount, StartIndex, Index, Exists, Version
  <2>2. PICK m : m = cur
    OBVIOUS
  <2>3. IsSent(m, k) => IsSent(m, k)'
    BY <1>3 DEF FilesKept
  <2>4. IsSent(cur, k) => IsSent(cur, k)'
    BY <1>1, <2>2, <2>3
  <2>5. i < Len(image[cur])
    BY <1>1, <1>4 DEF SnapCount
  <2> QED
    BY <1>1, <1>4, <1>5, <1>7, <2>1, <2>4, <2>5 DEF Sends, LoopSends
<1> QED
  BY <1>6, <1>8 DEF Sends

LEMMA BeginSelfSends == Chain /\ Sends /\ BeginSelf => Sends'
<1> SUFFICES ASSUME Chain, Sends, BeginSelf PROVE Sends'
  OBVIOUS
<1>1. /\ pc = "snapshots" /\ pc' = "extents" /\ i = desired_count
      /\ InImage /\ InImage' /\ InFile' /\ ~ InFile
      /\ UNCHANGED <<image, args, opt_snapshots, opt_from, opt_to, added, cur, i, desired_count, todo,
                     skipped, retval, images>>
  BY DEF BeginSelf, SnapshotsDone, given, loop_vars, InImage, InFile
<1>2. PICK e : sent' = Append(sent, e) /\ e.image = cur /\ e.version = Len(image[cur])
  BY DEF BeginSelf, NewFile
<1>3. /\ FilesKept /\ file'.version = Len(image[cur])
  <2>1. /\ sent' \in Seq(Range(sent')) /\ Len(sent') = Len(sent) + 1
        /\ sent'[Len(sent')] = e /\ sent' # <<>>
    BY <1>2, Appended DEF Chain, SentType
  <2>2. file' = e
    BY <2>1, LastOfNonEmpty DEF file
  <2> QED
    BY <1>2, <2>2, AppendedKeeps DEF Chain
<1>4. OptionsAreChecked' /\ TableIsRight' /\ DoneAreSent'
  BY <1>1, <1>3, RestIsKept
<1>5. i \in Int
  <2>1. cur \in DOMAIN image /\ i \in 1 .. Len(image[cur])
    BY <1>1 DEF Chain, LoopType, ImagesType
  <2> QED
    BY <2>1, GivenImages DEF Chain
<1>6. LoopSends'
  <2> SUFFICES ASSUME NEW k \in Asked(cur)'
               PROVE  IsSent(cur, k)' \/ k = Len(image[cur])
    BY <1>1, <1>3 DEF LoopSends
  <2>1. k \in Asked(cur)
    BY <1>1 DEF Asked, SnapCount, StartIndex, Index, Exists, Version
  <2>2. PICK m : m = cur
    OBVIOUS
  <2>3. IsSent(m, k) => IsSent(m, k)'
    BY <1>3 DEF FilesKept
  <2>4. IsSent(cur, k) => IsSent(cur, k)'
    BY <1>1, <2>2, <2>3
  <2>5. ~ (i <= k /\ IsToCome(k))
    <3>1. k \in Int
      BY <1>1, <2>1, AskedAreVersions
    <3> QED
      BY <1>1, <1>5, <3>1 DEF IsToCome
  <2> QED
    BY <1>1, <2>1, <2>4, <2>5 DEF Sends, LoopSends
<1> QED
  BY <1>4, <1>6 DEF Sends

LEMMA EndFileSends == Chain /\ Sends /\ EndFile => Sends'
<1> SUFFICES ASSUME Chain, Sends, EndFile PROVE Sends'
  OBVIOUS
<1>1. /\ InFile /\ InImage /\ InImage' /\ ~ InFile' /\ IsParent
      /\ UNCHANGED <<image, args, opt_snapshots, opt_from, opt_to, added, cur, desired_count, todo,
                     skipped, retval>>
      /\ \/ pc' = "report" /\ i' = i /\ file.version = Len(image[cur])
         \/ pc' = "snapshots" /\ i' = i + 1 /\ file.version # Len(image[cur])
  BY DEF EndFile, given, InFile, InImage
<1>2. /\ Len(sent') = Len(sent)
      /\ \A f \in 1 .. Len(sent) : sent'[f] = IF f = Len(sent) THEN EndedFile ELSE sent[f]
  BY EndReplaces
<1>3. /\ EndedFile.image = file.image /\ EndedFile.version = file.version /\ EndedFile.ended = TRUE
      /\ file.image = cur /\ (file.version = i \/ file.version = Len(image[cur]))
      /\ Len(sent) \in Nat \ {0} /\ file = sent[Len(sent)] /\ sent # <<>>
  BY <1>1, EndedIsFile, ParentIsOther DEF Chain, CurrentFile
<1>4. FilesKept
  BY <1>2, <1>3, ReplacedKeeps
<1>5. PICK m, v : m = cur /\ v = file.version
  OBVIOUS
<1>10. IsSent(m, v)'
  <2>1. /\ Len(sent) \in 1 .. Len(sent') /\ sent'[Len(sent)] = EndedFile
    BY <1>2, <1>3
  <2>2. /\ EndedFile.image = m /\ EndedFile.version = v /\ EndedFile.ended
    BY <1>3, <1>5
  <2> QED
    BY <2>1, <2>2 DEF IsSent
<1>6. /\ cur \in DOMAIN images \ todo /\ cur \in DOMAIN image /\ i \in 1 .. Len(image[cur])
      /\ Len(image[cur]) \in Nat \ {0}
  BY <1>1, GivenImages DEF Chain, LoopType, ImagesType
<1>7. /\ DOMAIN images' = DOMAIN images
      /\ \A x \in DOMAIN images : /\ images'[x].include_self = images[x].include_self
                                  /\ images'[x].snapshots = images[x].snapshots
  BY <1>1, <1>6, ParentKeeps
<1>8. OptionsAreChecked' /\ TableIsRight' /\ DoneAreSent'
  BY <1>1, <1>4, <1>7, RestIsKept
<1>9. LoopSends'
  <2> SUFFICES ASSUME NEW k \in Asked(cur)'
               PROVE  \/ IsSent(cur, k)'
                      \/ pc' = "snapshots" /\ i' <= k /\ IsToCome(k)'
                      \/ /\ k = Len(image[cur]) /\ images'[cur].include_self /\ opt_to = None
                         /\ pc' = "snapshots"
    BY <1>1 DEF LoopSends
  <2>1. k \in Asked(cur)
    BY <1>1 DEF Asked, SnapCount, StartIndex, Index, Exists, Version
  <2>2. k \in 1 .. Len(image[cur])
    BY <1>1, <2>1, AskedAreVersions
  <2>3. CASE IsSent(m, k) \/ k = v
    <3>1. IsSent(m, k)'
      BY <1>4, <1>10, <2>3 DEF FilesKept
    <3> QED
      BY <1>1, <1>5, <3>1
  <2>4. CASE ~ IsSent(m, k) /\ k # v
    <3>1. \/ file.version = i /\ i < k /\ IsToCome(k)
          \/ /\ k = Len(image[cur]) /\ images[cur].include_self /\ opt_to = None
             /\ file.version < k
      <4>1. ~ IsSent(cur, k)
        BY <1>5, <2>4
      <4> QED
        BY <1>1, <1>5, <2>1, <2>4, <4>1 DEF Sends, LoopSends, InFile
    <3>2. CASE file.version = i /\ i < k /\ IsToCome(k)
      <4>1. k < Len(image[cur])
        BY <3>2 DEF IsToCome
      <4>2. pc' = "snapshots" /\ i' = i + 1
        BY <1>1, <1>6, <2>2, <3>2, <4>1
      <4>3. i' <= k
        BY <1>6, <2>2, <3>2, <4>2
      <4>4. IsToCome(k)'
        BY <1>1, <1>6, <1>7, <3>2 DEF IsToCome, Version
      <4> QED
        BY <4>2, <4>3, <4>4
    <3>3. CASE /\ k = Len(image[cur]) /\ images[cur].include_self /\ opt_to = None
               /\ file.version < k
      <4>1. pc' = "snapshots"
        BY <1>1, <1>6, <3>3
      <4> QED
        BY <1>6, <1>7, <3>3, <4>1
    <3> QED
      BY <3>1, <3>2, <3>3
  <2> QED
    BY <2>3, <2>4
<1> QED
  BY <1>8, <1>9 DEF Sends

LEMMA StepSends == Chain /\ Sends /\ [Next]_vars => Sends'
<1> SUFFICES ASSUME Chain, Sends, [Next]_vars PROVE Sends'
  OBVIOUS
<1>1. CASE CheckOptions \/ AddFails \/ AllAdded
  BY <1>1, MainSends
<1>2. CASE cephrbd_add
  BY <1>2, AddSends
<1>3. CASE add_image
  BY <1>3, AddImageSends
<1>4. CASE OpenFails \/ ListFails \/ ReadPastList \/ BeginFails \/ FileFails \/ Exit
  BY <1>4, LeavingSends
<1>5. CASE report_missing
  BY <1>5, ReportSends
<1>6. CASE PassOver
  BY <1>6, PassOverSends
<1>7. CASE BeginSnapshot
  BY <1>7, BeginSnapshotSends
<1>8. CASE BeginSelf
  BY <1>8, BeginSelfSends
<1>9. CASE RBDFile_nextExtents \/ RBDFile_extent_cb \/ FillToEnd
  <2>1. /\ InFile /\ InFile' /\ sent' = sent
        /\ UNCHANGED <<image, args, opt_snapshots, opt_from, opt_to, added, todo, skipped, retval,
                       images, loop_vars>>
    BY <1>9 DEF RBDFile_nextExtents, RBDFile_extent_cb, FillToEnd, given, InFile
  <2>2. FilesKept /\ file'.version = file.version
    BY <2>1, SameFilesKept DEF file
  <2> QED
    BY <2>1, <2>2, WithinFileSends
<1>10. CASE SendExtent
  BY <1>10, SendExtentSends
<1>11. CASE EndFile
  BY <1>11, EndFileSends
<1>12. CASE UNCHANGED vars
  <2>1. UNCHANGED <<image, args, opt_snapshots, opt_from, opt_to, added, todo, skipped, retval, images,
                    cur, i, desired_count, pc, sent>>
    BY <1>12 DEF vars, given, loop_vars
  <2>2. /\ UNCHANGED <<InFile, InImage>> /\ file' = file
        /\ \A m : /\ Asked(m)' = Asked(m) /\ \A k : Version(m, k)' = Version(m, k)
                  /\ \A k : IsSent(m, k)' = IsSent(m, k)
    BY <2>1, SameIsAsked DEF InFile, InImage, file, IsSent
  <2>3. OptionsAreChecked' /\ TableIsRight' /\ DoneAreSent'
    BY <2>1, <2>2 DEF Sends, OptionsAreChecked, TableIsRight, DoneAreSent
  <2>4. LoopSends'
    <3> SUFFICES ASSUME InImage, NEW k \in Asked(cur)'
                 PROVE  \/ IsSent(cur, k)'
                        \/ InFile /\ file.version = k
                        \/ pc = "snapshots" /\ i <= k /\ IsToCome(k)'
                        \/ InFile /\ file.version = i /\ i < k /\ IsToCome(k)'
                        \/ /\ k = Len(image[cur]) /\ images[cur].include_self /\ opt_to = None
                           /\ pc = "snapshots" \/ (InFile /\ file.version < k)
      BY <2>1, <2>2 DEF LoopSends
    <3>1. k \in Asked(cur)
      BY <2>1 DEF Asked, SnapCount, StartIndex, Index, Exists, Version
    <3>2. (IsSent(cur, k) => IsSent(cur, k)') /\ (IsToCome(k) => IsToCome(k)')
      BY <2>1 DEF IsSent, IsToCome, Version
    <3> QED
      BY <3>1, <3>2 DEF Sends, LoopSends
  <2> QED
    BY <2>3, <2>4 DEF Sends
<1> QED
  BY <1>1, <1>2, <1>3, <1>4, <1>5, <1>6, <1>7, <1>8, <1>9, <1>10, <1>11, <1>12 DEF Next

\* What is asked for is sent, is being sent or will be.
THEOREM SendingGoesOn == Spec => []Sends
<1>1. Chain /\ Chain' /\ Sends /\ [Next]_vars => Sends'
  BY StepSends
<1> QED
  BY <1>1, InitSends, FilesFormChains, PTL DEF Spec

\* If fies-rbd reports no error, all that was asked of the images has been sent,
\* except of those whose snapshots could not be listed, for all images and calls.
THEOREM AskedIsAlwaysSent == Spec => []AskedIsSent
<1>1. Chain /\ Sends => AskedIsSent
  <2> SUFFICES ASSUME Chain, Sends, pc \in Exited, retval = "none", NEW m \in DOMAIN images \ skipped,
                      NEW k \in Asked(m)
               PROVE  \E f \in DOMAIN sent : sent[f].image = m /\ sent[f].version = k /\ sent[f].ended
    BY DEF AskedIsSent
  <2>1. IsSent(m, k)
    BY DEF Exited, Status, Sends, DoneAreSent, InImage, InFile
  <2>2. DOMAIN sent = 1 .. Len(sent)
    BY LenProperties DEF Chain, SentType
  <2> QED
    BY <2>1, <2>2 DEF IsSent
<1> QED
  BY <1>1, FilesFormChains, SendingGoesOn, PTL
==============================================================================
