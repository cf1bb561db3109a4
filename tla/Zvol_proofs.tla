----------------------------- MODULE Zvol_proofs ------------------------------
(***************************************************************************)
(* fies-zvol for all volumes and calls, and whatever the others write: its *)
(* care for the readonly property, that what is sent is what was asked     *)
(* for, once, that the extents found in the metadata are what is mapped,   *)
(* and that the receiver has what was in the volumes.                      *)
(***************************************************************************)
EXTENDS Zvol, TLAPS, SequenceTheorems, FiniteSetTheorems, WellFoundedInduction, NaturalsInduction

Reading == pc \in {"own", "file", "extents", "revert"}

\* The properties are those of the volumes given.
Properties ==
    /\ readonly = [v \in DOMAIN volume |-> readonly[v]]
    /\ \A v \in DOMAIN volume : readonly[v] \in BOOLEAN /\ volume[v].readonly \in BOOLEAN

\* A property that is not what it was is one that will be reverted.
ChangedIsCurrent ==
    \A v \in DOMAIN volume :
      readonly[v] # volume[v].readonly =>
        v \in left \/ (Reading /\ v = cur.vol /\ HasToRevert)

\* What will be set is what it was.
RemembersOriginal ==
    Reading /\ IsVol /\ opts.set_ro /\ cur.vol \in DOMAIN volume \ left =>
      was_ro = volume[cur.vol].readonly

Reverting == Properties /\ ChangedIsCurrent /\ RemembersOriginal
------------------------------------------------------------------------------
LEMMA InitReverting == Init => Reverting
<1> SUFFICES ASSUME Init PROVE Reverting
  OBVIOUS
<1>1. PICK c \in Cases : volume = c.volume /\ readonly = [v \in DOMAIN volume |-> volume[v].readonly]
  BY DEF Init
<1>2. \A v \in DOMAIN volume : readonly[v] = volume[v].readonly /\ volume[v].readonly \in BOOLEAN
  BY <1>1, CasesAssumption
<1>3. pc = "options"
  BY DEF Init
<1>4. QED
  BY <1>1, <1>2, <1>3 DEF Reverting, Properties, ChangedIsCurrent, RemembersOriginal, Reading

\* The steps before a volume is looked at, and the end of zvol_add.
LEMMA ElsewhereReverting ==
  ASSUME Reverting, ~ Reading, ~ Reading',
         UNCHANGED <<volume, readonly, left>>
  PROVE  Reverting'
BY DEF Reverting, Properties, ChangedIsCurrent, RemembersOriginal

\* The steps while it is owned.
LEMMA ReadingReverting ==
  ASSUME Reverting, Reading, Reading',
         UNCHANGED <<volume, opts, readonly, left, cur, was_ro>>
  PROVE  Reverting'
BY DEF Reverting, Properties, ChangedIsCurrent, RemembersOriginal, HasToRevert, IsVol

LEMMA CheckPropertyReverting == Reverting /\ CheckProperty => Reverting'
<1> SUFFICES ASSUME Reverting, CheckProperty PROVE Reverting'
  OBVIOUS
<1> USE DEF Reverting, Properties
<1>1. UNCHANGED <<volume, opts, left, cur>> /\ pc = "property"
  BY DEF CheckProperty, add_vars
<1>2. \A v \in DOMAIN volume : readonly[v] # volume[v].readonly => v \in left
  BY <1>1 DEF ChangedIsCurrent, Reading
<1>3. CASE IsVol /\ (opts.set_ro \/ ~ opts.rw)
  <2>1. was_ro' = readonly[cur.vol]
        /\ readonly' = [readonly EXCEPT ![cur.vol] = readonly[cur.vol] \/ opts.set_ro]
    BY <1>3 DEF CheckProperty
  <2>2. Properties'
    BY <1>1, <2>1
  <2>3. RemembersOriginal'
    BY <1>1, <1>2, <2>1 DEF RemembersOriginal
  <2>4. ASSUME NEW v \in DOMAIN volume, readonly'[v] # volume[v].readonly, v \notin left
        PROVE  Reading' /\ v = cur.vol /\ HasToRevert'
    <3>1. v = cur.vol /\ opts.set_ro /\ readonly[v] = FALSE
      BY <1>2, <2>1, <2>4
    <3>2. pc' = "own"
      BY <1>3, <2>1, <3>1 DEF CheckProperty
    <3>3. QED
      BY <1>1, <1>3, <2>1, <3>1, <3>2 DEF Reading, HasToRevert, IsVol
  <2>5. QED
    BY <1>1, <2>2, <2>3, <2>4 DEF ChangedIsCurrent
<1>4. CASE ~ (IsVol /\ (opts.set_ro \/ ~ opts.rw))
  <2>1. readonly' = readonly
    BY <1>4 DEF CheckProperty
  <2>2. QED
    BY <1>1, <1>2, <1>4, <2>1 DEF ChangedIsCurrent, RemembersOriginal, IsVol
<1>5. QED
  BY <1>3, <1>4

LEMMA RevertReverting == Reverting /\ (Revert \/ RevertFails) => Reverting'
<1> SUFFICES ASSUME Reverting, Revert \/ RevertFails PROVE Reverting'
  OBVIOUS
<1> USE DEF Reverting, Properties
<1>1. /\ UNCHANGED <<volume, opts, cur>> /\ pc = "revert" /\ Reading /\ ~ Reading'
  BY DEF Revert, RevertFails, add_vars, world, Reading
<1>2. CASE Revert /\ HasToRevert
  <2>1. readonly' = [readonly EXCEPT ![cur.vol] = FALSE] /\ left' = left
    BY <1>2 DEF Revert
  <2>2. ASSUME NEW v \in DOMAIN volume, v \notin left PROVE readonly'[v] = volume[v].readonly
    <3>1. CASE v = cur.vol
      BY <1>1, <1>2, <2>1, <2>2, <3>1 DEF RemembersOriginal, HasToRevert
    <3>2. CASE v # cur.vol
      BY <2>1, <2>2, <3>2 DEF ChangedIsCurrent
    <3>3. QED
      BY <3>1, <3>2
  <2>3. QED
    BY <1>1, <2>1, <2>2 DEF ChangedIsCurrent, RemembersOriginal
<1>3. CASE Revert /\ ~ HasToRevert
  <2>1. readonly' = readonly /\ left' = left
    BY <1>3 DEF Revert
  <2>2. QED
    BY <1>1, <1>3, <2>1 DEF ChangedIsCurrent, RemembersOriginal
<1>4. CASE RevertFails
  <2>1. readonly' = readonly /\ left' = left \cup {cur.vol}
    BY <1>4 DEF RevertFails, world
  <2>2. QED
    BY <1>1, <2>1 DEF ChangedIsCurrent, RemembersOriginal
<1>5. QED
  BY <1>2, <1>3, <1>4

LEMMA StepReverting == Reverting /\ [Next]_vars => Reverting'
<1> SUFFICES ASSUME Reverting, [Next]_vars PROVE Reverting'
  OBVIOUS
<1>1. CASE CheckOptions \/ zvol_add \/ AddFails \/ AllAdded \/ PassSnapshot \/ zvol_addsnap
           \/ ErrorIsKept \/ IterationEnds \/ SnapshotsDone \/ PropertyFails \/ Close
  <2>1. ~ Reading /\ ~ Reading' /\ UNCHANGED <<volume, readonly, left>>
    BY <1>1 DEF CheckOptions, zvol_add, AddFails, AllAdded, PassSnapshot, zvol_addsnap, HasSnapshot,
       ErrorIsKept, IterationEnds, SnapshotsDone, PropertyFails, Close, Reading, world
  <2>2. QED
    BY <2>1, ElsewhereReverting
<1>2. CASE dmu_objset_own \/ OwnFails \/ ZVOL_open \/ NextExtents \/ SendExtent \/ EndFile \/ FileFails
  <2>1. Reading /\ Reading' /\ UNCHANGED <<volume, opts, readonly, left, cur, was_ro>>
    BY <1>2 DEF dmu_objset_own, OwnFails, ZVOL_open, NextExtents, SendExtent, EndFile, FileFails,
       Reading, world, add_vars
  <2>2. QED
    BY <2>1, ReadingReverting
<1>3. CASE CheckProperty
  BY <1>3, CheckPropertyReverting
<1>4. CASE Revert \/ RevertFails
  BY <1>4, RevertReverting
<1>5. CASE OtherWrites
  <2>1. UNCHANGED <<volume, opts, readonly, left, cur, was_ro, pc>>
    BY <1>5 DEF OtherWrites, add_vars
  <2>2. QED
    BY <2>1, ReadingReverting, ElsewhereReverting DEF Reading
<1>6. CASE UNCHANGED vars
  <2>1. UNCHANGED <<volume, opts, readonly, left, cur, was_ro, pc>>
    BY <1>6 DEF vars, world, add_vars
  <2>2. QED
    BY <2>1, ReadingReverting, ElsewhereReverting DEF Reading
<1>7. QED
  BY <1>1, <1>2, <1>3, <1>4, <1>5, <1>6 DEF Next

\* The properties of volumes are as they were, or will be (set_zvol_ro and
\* out_restore in zvol_add).
THEOREM PropertiesReverted == Spec => []Reverting
<1>1. QED
  BY InitReverting, StepReverting, PTL DEF Spec

\* Whatever fails, and wherever the program is killed, no volume is read-only that
\* was not but the one being read, unless that was said (zvol_add).
THEOREM AllAreReverted == Spec => []ReadOnlyIsReverted
<1>1. Reverting => ReadOnlyIsReverted
  BY DEF Reverting, ChangedIsCurrent, ReadOnlyIsReverted, Reading
<1>2. QED
  BY <1>1, PropertiesReverted, PTL
------------------------------------------------------------------------------
------------------------------------------------------------------------------
\* The volumes and the options stay what they were given as.
Given == \E c \in Cases : volume = c.volume /\ opts = c.opts

\* What the program goes by, opt_from, is what --from says, unless it was lost.
FirstMeant(v) == CASE opt_from = None -> 1
                   [] opt_from # None /\ Exists(v, opt_from) -> Index(v, opt_from)
                   [] OTHER -> Len(Snaps(v)) + 1
MeantEnds(v)  == Exists(v, opts.to) /\ Index(v, opts.to) >= FirstMeant(v)
LastMeant(v)  == IF MeantEnds(v) THEN Index(v, opts.to) ELSE Len(Snaps(v))

Meant(name) ==
    IF name.snap # Self \/ ~ opts.snapshots THEN {name}
    ELSE {Snapshot(name.vol, k) : k \in FirstMeant(name.vol) .. LastMeant(name.vol)}
         \cup (IF MeantEnds(name.vol) THEN {} ELSE {name})

AllMeant == UNION {Meant(a) : a \in Range(opts.args)}

FromIsMeant ==
    pc # "options" => opt_from = IF FromIsLost THEN None ELSE From

Whole(v)       == [vol |-> v, snap |-> Self]
Finished(name) == \E f \in 1 .. Len(sent) : sent[f].name = name /\ sent[f].ended
Working        == pc \in {"property", "own", "file", "extents"}
Args           == opts.args

SentType ==
    /\ sent \in Seq(Range(sent))
    /\ \A f \in 1 .. Len(sent) : DOMAIN sent[f] = {"name", "ref", "map", "tree", "ended", "got"}

\* Where main is, and with what it was called.
Calls ==
    /\ added \in 0 .. Len(Args)
    /\ pc = "options" => added = 0 /\ zvols_done = {} /\ sent = <<>> /\ iter = None
    /\ pc # "options" => opt_from \in {None, opts.from}
    /\ pc \notin {"options", "usage"} =>
         {opt_from, opts.to} = {None} \/ (opts.snapshots /\ Len(Args) = 1)
    /\ pc = "args" => iter = None
    /\ pc = "snapshots" => iter # None
    /\ pc \in {"options", "usage", "args"} => retval = "none"
    /\ pc = "exited" /\ retval = "none" => added = Len(Args) /\ iter = None

\* Where the iteration of snapshots is.
Iterates(v) ==
    /\ iter = Iteration(iter.k, iter.from, iter.to, iter.last)
    /\ iter.last \in BOOLEAN
    /\ iter.k \in 1 .. Len(Snaps(v)) + 1
    /\ \A j \in FirstMeant(v) .. iter.k - 1 : Snapshot(v, j) \in zvols_done
    /\ iter.last => /\ iter.k > 1 /\ FirstMeant(v) <= iter.k - 1
                    /\ Snaps(v)[iter.k - 1] = opts.to
    /\ ~ iter.last =>
         /\ iter.to = opts.to
         /\ \A j \in FirstMeant(v) .. iter.k - 1 : Snaps(v)[j] # opts.to
         /\ IF iter.from = None THEN opt_from = None \/ FirstMeant(v) < iter.k
            ELSE iter.from = opt_from /\ FirstMeant(v) >= iter.k

IterationIsRight ==
    iter # None =>
      /\ pc \notin {"options", "usage", "args"}
      /\ added > 0 /\ opts.snapshots
      /\ cur = [vol |-> cur.vol, snap |-> cur.snap]
      /\ Args[added] = Whole(cur.vol)
      /\ Whole(cur.vol) \in zvols_done
      /\ \A f \in 1 .. Len(sent) : sent[f].name # Whole(cur.vol)
      /\ Iterates(cur.vol)

\* What zvol_add is called for.
CurrentIsRight ==
    /\ Working => cur \in AllMeant /\ cur \in zvols_done
    /\ pc \in {"property", "own", "file"} =>
         /\ \A f \in 1 .. Len(sent) : sent[f].name # cur
         /\ as_ref <=> cur.snap = opt_from /\ cur \notin Range(Args)
    /\ Working /\ iter # None => cur.snap # Self
    /\ pc = "extents" => sent # <<>> /\ sent[Len(sent)].name = cur

\* What was sent, and what is still to be sent.
SentIsAsked ==
    \A f \in 1 .. Len(sent) :
      /\ sent[f].name \in AllMeant /\ sent[f].name \in zvols_done
      /\ sent[f].ref <=> sent[f].name.snap = opt_from /\ sent[f].name \notin Range(Args)
      /\ \A g \in 1 .. f - 1 : sent[g].name # sent[f].name

DoneIsGiven == \A n \in zvols_done : n.snap = Self => \E a \in 1 .. added : Args[a] = n

GivenIsDone ==
    \A a \in 1 .. added :
      iter = None \/ Args[a] # Whole(cur.vol) => Meant(Args[a]) \subseteq zvols_done

DoneIsFinished ==
    retval = "none" =>
      \A n \in zvols_done \cap AllMeant :
        \/ Finished(n)
        \/ Working /\ n = cur
        \/ iter # None /\ n = Whole(cur.vol)

Asking == /\ Given /\ SentType /\ Calls /\ IterationIsRight /\ CurrentIsRight
          /\ SentIsAsked /\ DoneIsGiven /\ GivenIsDone /\ DoneIsFinished

\* The part of it that a step leaves alone which is not about main's progress.
SentKept ==
    /\ SentType' /\ Len(sent') = Len(sent)
    /\ \A f \in 1 .. Len(sent) :
         /\ sent'[f].name = sent[f].name /\ sent'[f].ref = sent[f].ref
         /\ sent[f].ended => sent'[f].ended

LEMMA GivenArgs ==
  ASSUME Given
  PROVE  /\ Len(Args) \in Nat /\ DOMAIN Args = 1 .. Len(Args)
         /\ \A a \in 1 .. Len(Args) : /\ Args[a].vol \in DOMAIN volume
                                      /\ Args[a] = [vol |-> Args[a].vol, snap |-> Args[a].snap]
         /\ Range(Args) = {Args[a] : a \in 1 .. Len(Args)}
         /\ opts.from # Self /\ Self # None
<1>1. PICK c \in Cases : volume = c.volume /\ opts = c.opts
  BY DEF Given
<1>2. /\ Self # None /\ c.opts.from # Self /\ Len(c.opts.args) \in Nat
      /\ \A a \in 1 .. Len(c.opts.args) :
           /\ c.opts.args[a].vol \in DOMAIN c.volume
           /\ c.opts.args[a] = [vol |-> c.opts.args[a].vol, snap |-> c.opts.args[a].snap]
      /\ DOMAIN c.opts.args = 1 .. Len(c.opts.args)
  BY NamesAssumption
<1> QED
  BY <1>1, <1>2 DEF Args, Range

\* Snapshots have names of their own.
LEMMA GivenSnapshots ==
  ASSUME Given, NEW v \in DOMAIN volume
  PROVE  /\ Len(Snaps(v)) \in Nat /\ DOMAIN Snaps(v) = 1 .. Len(Snaps(v))
         /\ \A k \in 1 .. Len(Snaps(v)) :
              /\ Snaps(v)[k] # Self /\ Snaps(v)[k] # None
              /\ Exists(v, Snaps(v)[k]) /\ Index(v, Snaps(v)[k]) = k
         /\ \A s : Exists(v, s) => Index(v, s) \in 1 .. Len(Snaps(v)) /\ Snaps(v)[Index(v, s)] = s
<1>1. PICK c \in Cases : volume = c.volume
  BY DEF Given
<1>2. /\ Len(c.volume[v].snaps) \in Nat /\ DOMAIN c.volume[v].snaps = 1 .. Len(c.volume[v].snaps)
      /\ \A k \in 1 .. Len(c.volume[v].snaps) : c.volume[v].snaps[k] \notin {Self, None}
      /\ \A k, l \in 1 .. Len(c.volume[v].snaps) :
           c.volume[v].snaps[k] = c.volume[v].snaps[l] => k = l
  BY <1>1, NamesAssumption
<1>3. /\ Len(Snaps(v)) \in Nat /\ DOMAIN Snaps(v) = 1 .. Len(Snaps(v))
      /\ \A k \in 1 .. Len(Snaps(v)) : Snaps(v)[k] # Self /\ Snaps(v)[k] # None
      /\ \A k, l \in 1 .. Len(Snaps(v)) : Snaps(v)[k] = Snaps(v)[l] => k = l
  BY <1>1, <1>2 DEF Snaps
<1>4. ASSUME NEW s, Exists(v, s)
      PROVE  Index(v, s) \in 1 .. Len(Snaps(v)) /\ Snaps(v)[Index(v, s)] = s
  <2>1. \E k \in DOMAIN Snaps(v) : Snaps(v)[k] = s
    BY <1>4 DEF Exists, Range
  <2> QED
    BY <1>3, <2>1 DEF Index
<1>5. ASSUME NEW k \in 1 .. Len(Snaps(v))
      PROVE  Exists(v, Snaps(v)[k]) /\ Index(v, Snaps(v)[k]) = k
  <2>1. Exists(v, Snaps(v)[k])
    BY <1>3 DEF Exists, Range
  <2> QED
    BY <1>3, <1>4, <2>1
<1> QED
  BY <1>3, <1>4, <1>5

\* The first snapshot asked for is the one of --from.
LEMMA FirstIsFrom ==
  ASSUME Given, NEW v \in DOMAIN volume
  PROVE  /\ FirstMeant(v) \in 1 .. Len(Snaps(v)) + 1
         /\ opt_from = None => FirstMeant(v) = 1
         /\ opt_from # None =>
              /\ FirstMeant(v) <= Len(Snaps(v)) => Snaps(v)[FirstMeant(v)] = opt_from
              /\ \A k \in 1 .. Len(Snaps(v)) : Snaps(v)[k] = opt_from => FirstMeant(v) = k
<1>1. CASE opt_from = None
  <2>1. FirstMeant(v) = 1
    BY <1>1 DEF FirstMeant
  <2> QED
    BY <1>1, <2>1, GivenSnapshots
<1>2. CASE opt_from # None /\ Exists(v, opt_from)
  <2>1. FirstMeant(v) = Index(v, opt_from)
    BY <1>2 DEF FirstMeant
  <2> QED
    BY <1>2, <2>1, GivenSnapshots
<1>3. CASE opt_from # None /\ ~ Exists(v, opt_from)
  <2>1. FirstMeant(v) = Len(Snaps(v)) + 1
    BY <1>3 DEF FirstMeant
  <2> QED
    BY <1>3, <2>1, GivenSnapshots
<1> QED
  BY <1>1, <1>2, <1>3

LEMMA LastIsTo ==
  ASSUME Given, NEW v \in DOMAIN volume
  PROVE  LastMeant(v) \in 0 .. Len(Snaps(v))
BY GivenSnapshots DEF LastMeant, MeantEnds

\* What is asked for does not change.
LEMMA SameAsked ==
  ASSUME UNCHANGED <<volume, opts, opt_from>>
  PROVE  /\ AllMeant' = AllMeant
         /\ \A n : Meant(n)' = Meant(n)
         /\ \A v : /\ Snaps(v)' = Snaps(v) /\ FirstMeant(v)' = FirstMeant(v)
                   /\ \A k : Snapshot(v, k)' = Snapshot(v, k)
<1>1. \A v : Snaps(v)' = Snaps(v)
  BY DEF Snaps
<1>2. \A v, s : (Exists(v, s)' <=> Exists(v, s)) /\ Index(v, s)' = Index(v, s)
  BY <1>1 DEF Exists, Index
<1>3. \A v : FirstMeant(v)' = FirstMeant(v)
  BY <1>1, <1>2 DEF FirstMeant
<1>4. \A v : (MeantEnds(v)' <=> MeantEnds(v)) /\ LastMeant(v)' = LastMeant(v)
  BY <1>1, <1>2, <1>3 DEF MeantEnds, LastMeant
<1>5. \A v, k : Snapshot(v, k)' = Snapshot(v, k)
  BY <1>1 DEF Snapshot
<1>6. \A n : Meant(n)' = Meant(n)
  BY <1>3, <1>4, <1>5 DEF Meant
<1>7. AllMeant' = AllMeant
  BY <1>6 DEF AllMeant
<1> QED
  BY <1>1, <1>3, <1>5, <1>6, <1>7

\* The steps that leave main, the iteration and the names alone.
LEMMA KeptAsking ==
  ASSUME Asking, SentKept,
         UNCHANGED <<volume, opts, opt_from, added, zvols_done, cur, iter, as_ref>>,
         iter # None => pc' \notin {"options", "usage", "args"}
  PROVE  /\ Given' /\ SentType' /\ IterationIsRight' /\ SentIsAsked' /\ DoneIsGiven' /\ GivenIsDone'
         /\ AllMeant' = AllMeant /\ Args' = Args
         /\ \A n : Finished(n) => Finished(n)'
<1> USE DEF Asking
<1>1. Given' /\ SentType' /\ Args' = Args
  BY DEF Given, SentKept, Args
<1>2. AllMeant' = AllMeant /\ \A n : Meant(n)' = Meant(n)
  BY SameAsked
<1>3. \A v : /\ Snaps(v)' = Snaps(v) /\ FirstMeant(v)' = FirstMeant(v)
             /\ \A k : Snapshot(v, k)' = Snapshot(v, k)
  BY SameAsked
<1>4. /\ Len(sent') = Len(sent)
      /\ \A f \in 1 .. Len(sent) :
           /\ sent'[f].name = sent[f].name /\ sent'[f].ref = sent[f].ref
           /\ sent[f].ended => sent'[f].ended
  BY DEF SentKept
<1>5. \A v : Iterates(v) => Iterates(v)'
  BY <1>3 DEF Iterates, Iteration
<1>6. IterationIsRight'
  BY <1>1, <1>4, <1>5 DEF IterationIsRight, Whole
<1>7. SentIsAsked'
  <2> SUFFICES ASSUME NEW f \in 1 .. Len(sent')
               PROVE  /\ sent'[f].name \in AllMeant' /\ sent'[f].name \in zvols_done'
                      /\ sent'[f].ref <=> sent'[f].name.snap = opt_from' /\ sent'[f].name \notin Range(Args')
                      /\ \A g \in 1 .. f - 1 : sent'[g].name # sent'[f].name
    BY DEF SentIsAsked
  <2>1. f \in 1 .. Len(sent) /\ sent'[f].name = sent[f].name /\ sent'[f].ref = sent[f].ref
    BY <1>4
  <2>2. /\ sent[f].name \in AllMeant /\ sent[f].name \in zvols_done
        /\ sent[f].ref <=> sent[f].name.snap = opt_from /\ sent[f].name \notin Range(Args)
        /\ \A g \in 1 .. f - 1 : sent[g].name # sent[f].name
    BY <2>1 DEF SentIsAsked
  <2>3. Len(sent) \in Nat
    BY LenProperties DEF SentType
  <2>4. \A g \in 1 .. f - 1 : sent'[g].name = sent[g].name
    BY <1>4, <2>1, <2>3
  <2> QED
    BY <1>1, <1>2, <2>1, <2>2, <2>4
<1>8. DoneIsGiven' /\ GivenIsDone'
  BY <1>1, <1>2 DEF DoneIsGiven, GivenIsDone, Whole
<1>9. ASSUME NEW n, Finished(n) PROVE Finished(n)'
  BY <1>4, <1>9 DEF Finished
<1> QED
  BY <1>1, <1>2, <1>6, <1>7, <1>8, <1>9

\* If nothing was sent meanwhile, all names are kept.
LEMMA SameIsKept == SentType /\ sent' = sent => SentKept
BY DEF SentType, SentKept

LEMMA InitAsking == Init => Asking
<1> SUFFICES ASSUME Init PROVE Asking
  OBVIOUS
<1>1. Given /\ pc = "options" /\ added = 0 /\ zvols_done = {} /\ sent = <<>> /\ iter = None /\ retval = "none"
  BY DEF Init, Given
<1>2. Len(sent) = 0 /\ sent \in Seq(Range(sent))
  BY <1>1, EmptySeq
<1>3. Len(Args) \in Nat
  BY <1>1, GivenArgs
<1> QED
  BY <1>1, <1>2, <1>3 DEF Asking, SentType, Calls, Working, IterationIsRight, CurrentIsRight,
     SentIsAsked, DoneIsGiven, GivenIsDone, DoneIsFinished

\* Before the first volume nothing was asked for or sent.
LEMMA CheckOptionsAsking == Asking /\ CheckOptions => Asking'
<1> SUFFICES ASSUME Asking, CheckOptions PROVE Asking'
  OBVIOUS
<1>1. /\ pc = "options" /\ added = 0 /\ zvols_done = {} /\ sent = <<>> /\ iter = None /\ retval = "none"
      /\ SentType /\ Given
  BY DEF Asking, Calls, CheckOptions
<1>2. UNCHANGED <<volume, opts, retval, added, zvols_done, iter, cur, as_ref, sent>>
  BY DEF CheckOptions, world, add_vars, send_vars
<1>3. /\ opt_from' \in {None, opts.from}
      /\ pc' \in {"usage", "args"}
      /\ pc' = "args" => {opt_from', opts.to} = {None} \/ (opts.snapshots /\ Len(opts.args) = 1)
  BY DEF CheckOptions
<1>4. Given' /\ SentType' /\ Len(sent') = 0
  BY <1>1, <1>2, EmptySeq DEF Given, SentType
<1>5. added' \in 0 .. Len(Args')
  BY <1>1, <1>2, GivenArgs DEF Args
<1>6. Calls'
  BY <1>1, <1>2, <1>3, <1>5 DEF Calls, Args, Working
<1> QED
  BY <1>1, <1>2, <1>3, <1>4, <1>6 DEF Asking, Working, IterationIsRight, CurrentIsRight,
     SentIsAsked, DoneIsGiven, GivenIsDone, DoneIsFinished

\* Any failure: nothing is promised then of what is still to be sent.
LEMMA FailureAsking ==
  ASSUME Asking, retval' # "none", pc' \in {"exited", "close", "revert"}, pc \notin {"options", "usage"},
         UNCHANGED <<volume, opts, opt_from, add_vars, sent>>
  PROVE  Asking'
<1>1. UNCHANGED <<volume, opts, opt_from, added, zvols_done, cur, iter, as_ref>>
  BY DEF add_vars
<1>2. SentKept
  BY SameIsKept DEF Asking
<1>3. /\ Given' /\ SentType' /\ IterationIsRight' /\ SentIsAsked' /\ DoneIsGiven' /\ GivenIsDone'
      /\ Args' = Args
  BY <1>1, <1>2, KeptAsking
<1>4. Calls'
  BY <1>1, <1>3 DEF Asking, Calls, Working
<1>5. CurrentIsRight' /\ DoneIsFinished'
  BY DEF CurrentIsRight, DoneIsFinished, Working
<1> QED
  BY <1>3, <1>4, <1>5 DEF Asking

\* The steps of zvol_add that go on with what it was called for, and those of others.
LEMMA GoOnAsking ==
  ASSUME Asking, SentKept, UNCHANGED <<volume, opts, opt_from, add_vars, retval>>,
         \/ pc' = pc
         \/ pc = "property" /\ pc' = "own"
         \/ pc = "own" /\ pc' = "file"
         \/ pc = "revert" /\ pc' = "close"
  PROVE  Asking'
<1>1. UNCHANGED <<volume, opts, opt_from, added, zvols_done, cur, iter, as_ref>>
  BY DEF add_vars
<1>2. iter # None => pc' \notin {"options", "usage", "args"}
  BY DEF Asking, IterationIsRight
<1>3. /\ Given' /\ SentType' /\ IterationIsRight' /\ SentIsAsked' /\ DoneIsGiven' /\ GivenIsDone'
      /\ AllMeant' = AllMeant /\ Args' = Args
      /\ \A n : Finished(n) => Finished(n)'
  BY <1>1, <1>2, KeptAsking
<1>4. /\ Len(sent') = Len(sent) /\ Len(sent) \in Nat
      /\ \A f \in 1 .. Len(sent) : sent'[f].name = sent[f].name
      /\ sent # <<>> => Len(sent) # 0 /\ sent' # <<>>
  BY LenProperties, EmptySeq DEF SentKept, Asking, SentType
<1>5. Calls'
  <2>1. sent = <<>> => sent' = <<>>
    BY <1>4, EmptySeq DEF SentKept, SentType
  <2> QED
    BY <1>1, <1>3, <2>1 DEF Asking, Calls, Working
<1>6. (Working' <=> Working) /\ (pc' \in {"property", "own", "file"} => pc \in {"property", "own", "file"})
      /\ (pc' = "extents" => pc = "extents")
  BY DEF Working
<1>7. CurrentIsRight'
  <2>1. Working' => cur' \in AllMeant' /\ cur' \in zvols_done'
    BY <1>1, <1>3, <1>6 DEF Asking, CurrentIsRight
  <2>2. pc' \in {"property", "own", "file"} =>
          /\ \A f \in 1 .. Len(sent') : sent'[f].name # cur'
          /\ as_ref' <=> cur'.snap = opt_from' /\ cur' \notin Range(Args')
    BY <1>1, <1>3, <1>4, <1>6 DEF Asking, CurrentIsRight
  <2>3. Working' /\ iter' # None => cur'.snap # Self
    BY <1>1, <1>6 DEF Asking, CurrentIsRight
  <2>4. pc' = "extents" => sent' # <<>> /\ sent'[Len(sent')].name = cur'
    <3> SUFFICES ASSUME pc' = "extents" PROVE sent' # <<>> /\ sent'[Len(sent')].name = cur'
      OBVIOUS
    <3>1. sent # <<>> /\ sent[Len(sent)].name = cur
      BY <1>6 DEF Asking, CurrentIsRight
    <3>2. Len(sent) \in 1 .. Len(sent)
      BY <1>4, <3>1
    <3> QED
      BY <1>1, <1>4, <3>1, <3>2
  <2> QED
    BY <2>1, <2>2, <2>3, <2>4 DEF CurrentIsRight
<1>8. DoneIsFinished'
  BY <1>1, <1>3, <1>6 DEF Asking, DoneIsFinished, Whole
<1> QED
  BY <1>3, <1>5, <1>7, <1>8 DEF Asking

LEMMA IterationIsSomething ==
  ASSUME Given, NEW k \in Nat, NEW from \in {None, opts.from, opts.to}, NEW to \in {None, opts.to},
         NEW last \in BOOLEAN
  PROVE  Iteration(k, from, to, last) # None
<1>1. None \notin [k : Nat, from : {None, opts.from, opts.to}, to : {None, opts.to}, last : BOOLEAN]
  BY NamesAssumption DEF Given
<1>2. [k |-> k, from |-> from, to |-> to, last |-> last]
        \in [k : Nat, from : {None, opts.from, opts.to}, to : {None, opts.to}, last : BOOLEAN]
  OBVIOUS
<1> QED
  BY <1>1, <1>2 DEF Iteration

\* What is called by its name is asked for as long as it is not taken apart.
LEMMA AskedIsInAll ==
  ASSUME Given, NEW a \in 1 .. Len(Args)
  PROVE  Meant(Args[a]) \subseteq AllMeant
BY GivenArgs DEF AllMeant, Args

LEMMA AllAddedAsking == Asking /\ AllAdded => Asking'
<1> SUFFICES ASSUME Asking, AllAdded PROVE Asking'
  OBVIOUS
<1>1. /\ UNCHANGED <<volume, opts, opt_from, added, zvols_done, cur, iter, as_ref, retval, sent>>
      /\ pc = "args" /\ pc' = "exited" /\ added = Len(opts.args) /\ iter = None
  BY DEF AllAdded, world, add_vars, send_vars, Asking, Calls
<1>2. /\ Given' /\ SentType' /\ IterationIsRight' /\ SentIsAsked' /\ DoneIsGiven' /\ GivenIsDone'
      /\ AllMeant' = AllMeant /\ Args' = Args
      /\ \A n : Finished(n) => Finished(n)'
  BY <1>1, KeptAsking, SameIsKept DEF Asking
<1>3. Calls'
  BY <1>1, <1>2 DEF Asking, Calls, Working, Args
<1>4. CurrentIsRight' /\ DoneIsFinished'
  BY <1>1, <1>2 DEF Asking, CurrentIsRight, DoneIsFinished, Working
<1> QED
  BY <1>2, <1>3, <1>4 DEF Asking

\* zvol_add returns: what it was called for is there, or it has failed.
LEMMA CloseAsking == Asking /\ Close => Asking'
<1> SUFFICES ASSUME Asking, Close PROVE Asking'
  OBVIOUS
<1>1. /\ UNCHANGED <<volume, opts, opt_from, added, zvols_done, cur, iter, as_ref, retval, sent>>
      /\ pc = "close"
      /\ pc' = CASE iter # None -> "snapshots"
                 [] iter = None /\ retval = "none" -> "args"
                 [] OTHER -> "exited"
  BY DEF Close, world, add_vars, send_vars
<1>2. /\ iter # None => pc' = "snapshots"
      /\ iter = None /\ retval # "none" => pc' = "exited"
      /\ iter = None /\ retval = "none" => pc' = "args"
  BY <1>1
<1>3. /\ Given' /\ SentType' /\ IterationIsRight' /\ SentIsAsked' /\ DoneIsGiven' /\ GivenIsDone'
      /\ AllMeant' = AllMeant /\ Args' = Args
      /\ \A n : Finished(n) => Finished(n)'
  BY <1>1, <1>2, KeptAsking, SameIsKept DEF Asking
<1>4. Calls'
  BY <1>1, <1>2, <1>3 DEF Asking, Calls, Working
<1>5. CurrentIsRight' /\ DoneIsFinished'
  BY <1>1, <1>2, <1>3 DEF Asking, CurrentIsRight, DoneIsFinished, Working, Whole
<1> QED
  BY <1>3, <1>4, <1>5 DEF Asking

\* A volume or snapshot given: it was done, or it is begun with.
LEMMA AddAsking == Asking /\ zvol_add => Asking'
<1> SUFFICES ASSUME Asking, zvol_add PROVE Asking'
  OBVIOUS
<1>0. PICK name : name = Args[added + 1]
  OBVIOUS
<1>1. /\ UNCHANGED <<volume, opts, opt_from, retval, sent>>
      /\ pc = "args" /\ added < Len(Args) /\ added' = added + 1 /\ as_ref' = FALSE
      /\ zvols_done' = zvols_done \cup {name}
      /\ name \in zvols_done => UNCHANGED <<cur, iter, pc>>
      /\ name \notin zvols_done =>
           /\ cur' = name
           /\ IF opts.snapshots /\ name.snap = Self
              THEN iter' = Iteration(1, opt_from, opts.to, FALSE) /\ pc' = "snapshots"
              ELSE iter' = None /\ pc' = "property"
  BY <1>0 DEF zvol_add, world, send_vars, Args
<1>2. /\ iter = None /\ retval = "none" /\ added \in Nat /\ added + 1 \in 1 .. Len(Args)
      /\ Len(Args) \in Nat /\ pc' # "options" /\ pc' # "usage" /\ opt_from \in {None, opts.from}
      /\ {opt_from, opts.to} = {None} \/ (opts.snapshots /\ Len(Args) = 1)
  <2>1. Len(Args) \in Nat /\ added \in 0 .. Len(Args)
    BY GivenArgs DEF Asking, Calls
  <2>2. iter = None /\ retval = "none" /\ opt_from \in {None, opts.from}
        /\ ({opt_from, opts.to} = {None} \/ (opts.snapshots /\ Len(Args) = 1))
    BY <1>1 DEF Asking, Calls
  <2>3. pc' \in {"args", "snapshots", "property"}
    BY <1>1
  <2>4. added \in Nat /\ added + 1 \in 1 .. Len(Args)
    BY <1>1, <2>1
  <2> QED
    BY <2>1, <2>2, <2>3, <2>4
<1>3. /\ name.vol \in DOMAIN volume /\ name = [vol |-> name.vol, snap |-> name.snap]
      /\ name \in Range(Args) /\ Meant(name) \subseteq AllMeant
  BY <1>0, <1>2, GivenArgs, AskedIsInAll DEF Asking
<1>4. /\ Given' /\ SentType' /\ Args' = Args
  BY <1>1 DEF Asking, Given, SentType, Args
<1>5. /\ AllMeant' = AllMeant /\ \A n : Meant(n)' = Meant(n)
      /\ \A v : /\ Snaps(v)' = Snaps(v) /\ FirstMeant(v)' = FirstMeant(v)
                /\ \A k : Snapshot(v, k)' = Snapshot(v, k)
  BY <1>1, SameAsked
<1>6. \A n : Finished(n)' <=> Finished(n)
  BY <1>1 DEF Finished
<1>7. \A f \in 1 .. Len(sent) : sent[f].name \in zvols_done
  BY DEF Asking, SentIsAsked
<1>8. SentIsAsked'
  BY <1>1, <1>4, <1>5 DEF Asking, SentIsAsked
<1>9. name.snap # Self \/ ~ opts.snapshots => Meant(name) = {name}
  BY DEF Meant
<1>9a. name.snap = Self => name = Whole(name.vol)
  BY <1>3 DEF Whole
<1>10. \A a \in 1 .. added : Meant(Args[a]) \subseteq zvols_done
  BY <1>2 DEF Asking, GivenIsDone
<1>11. CASE name \in zvols_done
  <2>1. zvols_done' = zvols_done /\ UNCHANGED <<cur, iter, pc>>
    BY <1>1, <1>11
  <2>2. Meant(name) \subseteq zvols_done
    <3>1. CASE name.snap # Self \/ ~ opts.snapshots
      BY <1>9, <1>11, <3>1
    <3>2. CASE name.snap = Self
      <4>1. PICK a \in 1 .. added : Args[a] = name
        BY <1>11, <3>2 DEF Asking, DoneIsGiven
      <4> QED
        BY <1>10, <4>1
    <3> QED
      BY <3>1, <3>2
  <2>3. Calls' /\ IterationIsRight'
    <3>1. added' \in 0 .. Len(Args') /\ retval' = "none" /\ pc' = "args" /\ iter' = None
      BY <1>1, <1>2, <1>4, <2>1
    <3>2. /\ opt_from' \in {None, opts'.from}
          /\ {opt_from', opts'.to} = {None} \/ (opts'.snapshots /\ Len(Args') = 1)
      BY <1>1, <1>2, <1>4
    <3> QED
      BY <3>1, <3>2 DEF Calls, Working, IterationIsRight
  <2>4. CurrentIsRight'
    BY <1>1, <2>1 DEF CurrentIsRight, Working
  <2>5. DoneIsGiven'
    BY <1>1, <1>2, <1>4, <2>1 DEF Asking, DoneIsGiven
  <2>6. GivenIsDone'
    <3> SUFFICES ASSUME NEW a \in 1 .. added + 1 PROVE Meant(Args[a]) \subseteq zvols_done
      BY <1>1, <1>4, <1>5, <2>1 DEF GivenIsDone
    <3>1. a \in 1 .. added \/ Args[a] = name
      BY <1>0, <1>2
    <3> QED
      BY <1>10, <2>2, <3>1
  <2>7. DoneIsFinished'
    BY <1>1, <1>2, <1>5, <1>6, <2>1 DEF Asking, DoneIsFinished, Working
  <2> QED
    BY <1>4, <1>8, <2>3, <2>4, <2>5, <2>6, <2>7 DEF Asking
<1>12. CASE name \notin zvols_done
  <2>1. cur' = name /\ zvols_done' = zvols_done \cup {name} /\ name \in zvols_done'
    BY <1>1, <1>12
  <2>2. \A f \in 1 .. Len(sent) : sent[f].name # name
    BY <1>7, <1>12
  <2>3. DoneIsGiven'
    <3> SUFFICES ASSUME NEW n \in zvols_done', n.snap = Self
                 PROVE  \E a \in 1 .. added + 1 : Args[a] = n
      BY <1>1, <1>4 DEF DoneIsGiven
    <3>1. CASE n = name
      BY <1>0, <1>2, <3>1
    <3>2. CASE n \in zvols_done
      <4>1. PICK a \in 1 .. added : Args[a] = n
        BY <3>2 DEF Asking, DoneIsGiven
      <4>2. a \in 1 .. added + 1
        BY <1>2
      <4> QED
        BY <4>1, <4>2
    <3> QED
      BY <2>1, <3>1, <3>2
  <2>4. CASE opts.snapshots /\ name.snap = Self
    <3>1. /\ iter' = Iteration(1, opt_from, opts.to, FALSE)
          /\ pc' = "snapshots" /\ name = Whole(name.vol)
      BY <1>1, <1>9a, <1>12, <2>4
    <3>2. iter' # None
      <4>1. opt_from \in {None, opts.from, opts.to}
        BY <1>1 DEF Asking, Calls
      <4> QED
        BY <3>1, <4>1, IterationIsSomething DEF Asking
    <3>3. Calls'
      <4>1. added' \in 0 .. Len(Args') /\ retval' = "none" /\ pc' = "snapshots"
        BY <1>1, <1>2, <1>4, <3>1
      <4>2. /\ opt_from' \in {None, opts'.from}
            /\ {opt_from', opts'.to} = {None} \/ (opts'.snapshots /\ Len(Args') = 1)
        BY <1>1, <1>2, <1>4
      <4> QED
        BY <3>2, <4>1, <4>2 DEF Calls, Working
    <3>4. PICK v : v = name.vol
      OBVIOUS
    <3>5. FirstMeant(v) \in 1 .. Len(Snaps(v)) + 1 /\ Len(Snaps(v)) \in Nat
          /\ (opt_from = None => FirstMeant(v) = 1)
      BY <1>3, <3>4, FirstIsFrom, GivenSnapshots DEF Asking
    <3>6. /\ iter'.k = 1 /\ iter'.from = opt_from /\ iter'.to = opts.to /\ iter'.last = FALSE
          /\ iter' = Iteration(iter'.k, iter'.from, iter'.to, iter'.last)
      BY <3>1 DEF Iteration
    <3>7. Iterates(v)'
      <4>1. \A j \in FirstMeant(v) .. iter'.k - 1 : FALSE
        BY <3>5, <3>6
      <4>2. FirstMeant(v)' = FirstMeant(v) /\ Snaps(v)' = Snaps(v) /\ opt_from' = opt_from /\ opts' = opts
        BY <1>1, <1>5
      <4> QED
        <5>1. iter'.k \in 1 .. Len(Snaps(v)') + 1
          BY <3>5, <3>6, <4>2
        <5>2. IF iter'.from = None THEN opt_from' = None \/ FirstMeant(v)' < iter'.k
              ELSE iter'.from = opt_from' /\ FirstMeant(v)' >= iter'.k
          BY <3>5, <3>6, <4>2
        <5>3. \A j \in FirstMeant(v)' .. iter'.k - 1 : FALSE
          BY <4>1, <4>2
        <5>4. iter'.to = opts'.to /\ iter'.last = FALSE
          BY <3>6, <4>2
        <5> QED
          BY <3>6, <5>1, <5>2, <5>3, <5>4 DEF Iterates
    <3>8. cur'.vol = v /\ Whole(v) = name /\ cur' = [vol |-> cur'.vol, snap |-> cur'.snap]
      BY <1>3, <2>1, <3>1, <3>4
    <3>9. IterationIsRight'
      BY <1>0, <1>1, <1>2, <1>4, <2>1, <2>2, <2>4, <3>1, <3>7, <3>8 DEF IterationIsRight, Whole
    <3>10. CurrentIsRight'
      BY <3>1 DEF CurrentIsRight, Working
    <3>11. GivenIsDone'
      <4> SUFFICES ASSUME NEW a \in 1 .. added + 1, Args[a] # name PROVE Meant(Args[a]) \subseteq zvols_done'
        BY <1>1, <1>4, <1>5, <3>2, <3>8 DEF GivenIsDone, Whole
      <4>1. a \in 1 .. added
        BY <1>0, <1>2
      <4> QED
        BY <1>10, <2>1, <4>1
    <3>12. DoneIsFinished'
      BY <1>1, <1>2, <1>5, <1>6, <2>1, <3>2, <3>8 DEF Asking, DoneIsFinished, Working, Whole
    <3> QED
      BY <1>4, <1>8, <2>3, <3>3, <3>9, <3>10, <3>11, <3>12 DEF Asking
  <2>5. CASE ~ (opts.snapshots /\ name.snap = Self)
    <3>1. iter' = None /\ pc' = "property" /\ Meant(name) = {name}
      BY <1>1, <1>9, <1>12, <2>5
    <3>2. Calls' /\ IterationIsRight'
      <4>1. added' \in 0 .. Len(Args') /\ retval' = "none" /\ pc' = "property"
        BY <1>1, <1>2, <1>4, <3>1
      <4>2. /\ opt_from' \in {None, opts'.from}
            /\ {opt_from', opts'.to} = {None} \/ (opts'.snapshots /\ Len(Args') = 1)
        BY <1>1, <1>2, <1>4
      <4> QED
        BY <3>1, <4>1, <4>2 DEF Calls, Working, IterationIsRight
    <3>3. CurrentIsRight'
      BY <1>1, <1>3, <1>4, <1>5, <2>1, <2>2, <3>1 DEF CurrentIsRight, Working
    <3>4. GivenIsDone'
      <4> SUFFICES ASSUME NEW a \in 1 .. added + 1 PROVE Meant(Args[a]) \subseteq zvols_done'
        BY <1>1, <1>4, <1>5 DEF GivenIsDone
      <4>1. a \in 1 .. added \/ Args[a] = name
        BY <1>0, <1>2
      <4> QED
        BY <1>10, <2>1, <3>1, <4>1
    <3>5. DoneIsFinished'
      BY <1>1, <1>2, <1>5, <1>6, <2>1, <3>1 DEF Asking, DoneIsFinished, Working
    <3> QED
      BY <1>4, <1>8, <2>3, <3>2, <3>3, <3>4, <3>5 DEF Asking
  <2> QED
    BY <2>4, <2>5
<1> QED
  BY <1>11, <1>12

\* What the iteration is for.
LEMMA Iterated ==
  ASSUME Asking, iter # None, NEW v, v = cur.vol
  PROVE  /\ v \in DOMAIN volume /\ added \in 1 .. Len(Args)
         /\ Args[added] = Whole(v) /\ Whole(v).snap = Self /\ Whole(v).vol = v
         /\ opts.snapshots /\ Iterates(v)
         /\ Whole(v) \in zvols_done /\ \A f \in 1 .. Len(sent) : sent[f].name # Whole(v)
         /\ Meant(Whole(v)) = {Snapshot(v, k) : k \in FirstMeant(v) .. LastMeant(v)}
                              \cup (IF MeantEnds(v) THEN {} ELSE {Whole(v)})
         /\ Meant(Whole(v)) \subseteq AllMeant
<1>1. /\ Args[added] = Whole(v) /\ opts.snapshots /\ Iterates(v) /\ added > 0
      /\ Whole(v) \in zvols_done /\ \A f \in 1 .. Len(sent) : sent[f].name # Whole(v)
  BY DEF Asking, IterationIsRight
<1>2. added \in 1 .. Len(Args)
  <2>1. added \in 0 .. Len(Args) /\ Len(Args) \in Nat
    BY GivenArgs DEF Asking, Calls
  <2> QED
    BY <1>1, <2>1
<1>3. Whole(v).snap = Self /\ Whole(v).vol = v
  BY DEF Whole
<1>4. v \in DOMAIN volume
  BY <1>1, <1>2, <1>3, GivenArgs DEF Asking
<1>5. Meant(Whole(v)) = {Snapshot(v, k) : k \in FirstMeant(v) .. LastMeant(v)}
                        \cup (IF MeantEnds(v) THEN {} ELSE {Whole(v)})
  BY <1>1, <1>3 DEF Meant
<1>6. Meant(Whole(v)) \subseteq AllMeant
  BY <1>1, <1>2, AskedIsInAll DEF Asking
<1> QED
  BY <1>1, <1>2, <1>3, <1>4, <1>5, <1>6

\* A snapshot that is not passed over was asked for; it is a reference if --from names it.
LEMMA ReachedIsAsked ==
  ASSUME Asking, HasSnapshot, iter.from \in {None, SnapshotNow}, NEW v, v = cur.vol
  PROVE  /\ Snapshot(v, iter.k) \in AllMeant
         /\ FirstMeant(v) <= iter.k
         /\ iter.from = SnapshotNow <=> SnapshotNow = opt_from
         /\ SnapshotNow # Self /\ SnapshotNow # None /\ SnapshotNow = Snaps(v)[iter.k]
<1>1. /\ pc = "snapshots" /\ ~ iter.last /\ iter.k <= Len(Snaps(v)) /\ iter # None
      /\ SnapshotNow = Snaps(v)[iter.k]
  BY DEF HasSnapshot, SnapshotNow, Asking, Calls
<1>2. v \in DOMAIN volume /\ Iterates(v)
  BY <1>1, Iterated
<1>3. /\ Len(Snaps(v)) \in Nat /\ iter.k \in 1 .. Len(Snaps(v))
      /\ SnapshotNow # Self /\ SnapshotNow # None
      /\ FirstMeant(v) \in 1 .. Len(Snaps(v)) + 1
  BY <1>1, <1>2, GivenSnapshots, FirstIsFrom DEF Iterates, Asking
<1>4. /\ \A j \in FirstMeant(v) .. iter.k - 1 : Snaps(v)[j] # opts.to
      /\ IF iter.from = None THEN opt_from = None \/ FirstMeant(v) < iter.k
         ELSE iter.from = opt_from /\ FirstMeant(v) >= iter.k
  BY <1>1, <1>2 DEF Iterates
<1>5. FirstMeant(v) <= iter.k /\ (iter.from = SnapshotNow <=> SnapshotNow = opt_from)
  <2>1. CASE iter.from = None /\ opt_from = None
    <3>1. FirstMeant(v) = 1
      BY <1>2, <2>1, FirstIsFrom DEF Asking
    <3> QED
      BY <1>3, <2>1, <3>1
  <2>2. CASE iter.from = None /\ opt_from # None
    <3>1. FirstMeant(v) < iter.k
      BY <1>4, <2>2
    <3>2. SnapshotNow = opt_from => FirstMeant(v) = iter.k
      BY <1>1, <1>2, <1>3, <2>2, FirstIsFrom DEF Asking
    <3> QED
      BY <1>3, <2>2, <3>1, <3>2
  <2>3. CASE iter.from # None
    <3>1. iter.from = SnapshotNow /\ SnapshotNow = opt_from /\ opt_from # None
      BY <1>4, <2>3
    <3>2. FirstMeant(v) = iter.k
      BY <1>1, <1>2, <1>3, <3>1, FirstIsFrom DEF Asking
    <3> QED
      BY <1>3, <3>1, <3>2
  <2> QED
    BY <2>1, <2>2, <2>3
<1>6. iter.k <= LastMeant(v)
  <2>1. CASE MeantEnds(v)
    <3>1. /\ LastMeant(v) = Index(v, opts.to) /\ Index(v, opts.to) \in 1 .. Len(Snaps(v))
          /\ Snaps(v)[Index(v, opts.to)] = opts.to /\ Index(v, opts.to) >= FirstMeant(v)
      BY <1>2, <2>1, GivenSnapshots DEF MeantEnds, LastMeant, Asking
    <3>2. Index(v, opts.to) \notin FirstMeant(v) .. iter.k - 1
      BY <1>4, <3>1
    <3> QED
      BY <1>3, <3>1, <3>2
  <2>2. CASE ~ MeantEnds(v)
    BY <1>3, <2>2 DEF LastMeant
  <2> QED
    BY <2>1, <2>2
<1>7. iter.k \in FirstMeant(v) .. LastMeant(v)
  BY <1>2, <1>3, <1>5, <1>6, LastIsTo DEF Asking
<1>8. Snapshot(v, iter.k) \in Meant(Whole(v)) /\ Meant(Whole(v)) \subseteq AllMeant
  BY <1>1, <1>7, Iterated
<1> QED
  BY <1>1, <1>3, <1>5, <1>8

\* What is before --from.
LEMMA PassAsking == Asking /\ PassSnapshot => Asking'
<1> SUFFICES ASSUME Asking, PassSnapshot PROVE Asking'
  OBVIOUS
<1>1. /\ UNCHANGED <<volume, opts, opt_from, added, zvols_done, cur, as_ref, retval, sent, pc>>
      /\ pc = "snapshots" /\ ~ iter.last /\ iter.k <= Len(Snaps(cur.vol)) /\ iter # None
      /\ iter.from # None /\ iter.from # SnapshotNow
      /\ iter' = [iter EXCEPT !.k = @ + 1]
  BY DEF PassSnapshot, HasSnapshot, world, send_vars, Asking, Calls
<1>2. PICK v : v = cur.vol
  OBVIOUS
<1>3. v \in DOMAIN volume /\ Iterates(v)
  BY <1>1, <1>2, Iterated
<1>4. /\ iter = [k |-> iter.k, from |-> iter.from, to |-> iter.to, last |-> iter.last]
      /\ iter.last \in BOOLEAN /\ iter.k \in 1 .. Len(Snaps(v)) + 1
      /\ iter.to = opts.to /\ iter.from = opt_from /\ FirstMeant(v) >= iter.k
  BY <1>1, <1>3 DEF Iterates, Iteration
<1>5. /\ iter' = Iteration(iter.k + 1, iter.from, iter.to, FALSE)
      /\ iter'.k = iter.k + 1 /\ iter'.from = iter.from /\ iter'.to = iter.to /\ iter'.last = FALSE
  BY <1>1, <1>4 DEF Iteration
<1>6. /\ Len(Snaps(v)) \in Nat /\ iter.k \in 1 .. Len(Snaps(v))
      /\ FirstMeant(v) \in 1 .. Len(Snaps(v)) + 1 /\ FirstMeant(v) # iter.k
  <2>1. Len(Snaps(v)) \in Nat /\ iter.k \in 1 .. Len(Snaps(v))
    BY <1>1, <1>2, <1>3, <1>4, GivenSnapshots DEF Asking
  <2>2. /\ FirstMeant(v) \in 1 .. Len(Snaps(v)) + 1
        /\ FirstMeant(v) <= Len(Snaps(v)) => Snaps(v)[FirstMeant(v)] = opt_from
    BY <1>1, <1>3, <1>4, FirstIsFrom DEF Asking
  <2>3. Snaps(v)[iter.k] # opt_from
    BY <1>1, <1>2, <1>4 DEF SnapshotNow
  <2> QED
    BY <2>1, <2>2, <2>3
<1>7. FirstMeant(v) >= iter.k + 1 /\ iter.k + 1 \in 1 .. Len(Snaps(v)) + 1
  BY <1>4, <1>6
<1>8. /\ \A n : Meant(n)' = Meant(n)
      /\ AllMeant' = AllMeant /\ Snaps(v)' = Snaps(v) /\ FirstMeant(v)' = FirstMeant(v)
  BY <1>1, SameAsked
<1>9. iter' # None
  <2>1. /\ iter.k + 1 \in Nat /\ iter.from \in {None, opts.from, opts.to} /\ iter.to \in {None, opts.to}
    BY <1>1, <1>4, <1>6 DEF Asking, Calls
  <2> QED
    BY <1>5, <2>1, IterationIsSomething DEF Asking
<1>10. Iterates(v)'
  <2>1. /\ iter'.k \in 1 .. Len(Snaps(v)') + 1 /\ iter'.to = opts'.to /\ iter'.from = opt_from'
        /\ FirstMeant(v)' >= iter'.k
    BY <1>1, <1>4, <1>5, <1>7, <1>8
  <2>2. \A j \in FirstMeant(v)' .. iter'.k - 1 : FALSE
    <3>1. iter'.k - 1 = iter.k /\ FirstMeant(v)' = FirstMeant(v) /\ iter.k \in Nat
          /\ FirstMeant(v) \in Nat /\ FirstMeant(v) >= iter.k + 1
      <4>1. iter.k \in Nat /\ FirstMeant(v) \in Nat
        BY <1>6
      <4>2. iter'.k = iter.k + 1 /\ FirstMeant(v)' = FirstMeant(v) /\ FirstMeant(v) >= iter.k + 1
        BY <1>5, <1>7, <1>8
      <4> QED
        BY <4>1, <4>2
    <3> QED
      BY <3>1
  <2> QED
    BY <1>1, <1>5, <2>1, <2>2 DEF Iterates
<1>11. Given' /\ SentType' /\ Args' = Args /\ SentIsAsked' /\ DoneIsGiven'
  BY <1>1, <1>8 DEF Asking, Given, SentType, Args, SentIsAsked, DoneIsGiven
<1>12. Calls' /\ CurrentIsRight'
  BY <1>1, <1>9, <1>11 DEF Asking, Calls, CurrentIsRight, Working
<1>13. IterationIsRight'
  BY <1>1, <1>2, <1>10, <1>11 DEF Asking, IterationIsRight, Whole
<1>14. GivenIsDone' /\ DoneIsFinished'
  BY <1>1, <1>8, <1>9, <1>11 DEF Asking, GivenIsDone, DoneIsFinished, Working, Whole, Finished
<1> QED
  BY <1>11, <1>12, <1>13, <1>14 DEF Asking

\* A snapshot that is added, or was given before.
LEMMA AddsnapAsking == Asking /\ zvol_addsnap => Asking'
<1> SUFFICES ASSUME Asking, zvol_addsnap PROVE Asking'
  OBVIOUS
<1>1. /\ UNCHANGED <<volume, opts, opt_from, added, retval, sent>>
      /\ pc = "snapshots" /\ ~ iter.last /\ iter.k <= Len(Snaps(cur.vol)) /\ iter # None
      /\ iter.from \in {None, SnapshotNow}
      /\ iter' = NextIteration(SnapshotNow)
      /\ (as_ref' <=> iter.from = SnapshotNow)
      /\ HasSnapshot
  BY DEF zvol_addsnap, HasSnapshot, world, send_vars, Asking, Calls
<1>2. PICK v : v = cur.vol
  OBVIOUS
<1>3. PICK name : name = Snapshot(v, iter.k)
  OBVIOUS
<1>4. /\ zvols_done' = zvols_done \cup {name}
      /\ IF name \in zvols_done THEN cur' = cur /\ pc' = pc ELSE cur' = name /\ pc' = "property"
  BY <1>2, <1>3 DEF zvol_addsnap, Snapshot, SnapshotNow
<1>5. /\ name \in AllMeant /\ FirstMeant(v) <= iter.k
      /\ (iter.from = SnapshotNow <=> SnapshotNow = opt_from)
      /\ SnapshotNow # Self /\ SnapshotNow # None /\ SnapshotNow = Snaps(v)[iter.k]
  BY <1>1, <1>2, <1>3, ReachedIsAsked
<1>6. name.vol = v /\ name.snap = SnapshotNow
  BY <1>3, <1>5 DEF Snapshot
<1>7. /\ v \in DOMAIN volume /\ added \in 1 .. Len(Args) /\ Iterates(v)
      /\ Args[added] = Whole(v) /\ Whole(v) \in zvols_done /\ Whole(v).snap = Self
      /\ \A f \in 1 .. Len(sent) : sent[f].name # Whole(v)
  BY <1>1, <1>2, Iterated
<1>8. cur'.vol = v /\ pc' \in {"snapshots", "property"} /\ cur' = [vol |-> cur'.vol, snap |-> cur'.snap]
  <2>1. cur = [vol |-> cur.vol, snap |-> cur.snap]
    BY <1>1 DEF Asking, IterationIsRight
  <2>2. name = [vol |-> name.vol, snap |-> name.snap]
    BY <1>3 DEF Snapshot
  <2> QED
    BY <1>1, <1>2, <1>4, <1>6, <2>1, <2>2
<1>9. /\ iter.k \in 1 .. Len(Snaps(v)) /\ Len(Snaps(v)) \in Nat
      /\ iter.to = opts.to /\ FirstMeant(v) \in Nat
      /\ \A j \in FirstMeant(v) .. iter.k - 1 :
           Snapshot(v, j) \in zvols_done /\ Snaps(v)[j] # opts.to
  BY <1>1, <1>2, <1>7, GivenSnapshots, FirstIsFrom DEF Iterates, Asking
<1>10. /\ iter'.k = iter.k + 1
       /\ iter'.last = (opts.to = SnapshotNow)
       /\ iter' = Iteration(iter'.k, iter'.from, iter'.to, iter'.last)
       /\ iter'.last => iter'.from = opts.to /\ iter'.to = None
       /\ ~ iter'.last => iter'.from = None /\ iter'.to = opts.to
  BY <1>1, <1>9 DEF NextIteration, Iteration
<1>11. /\ \A n : Meant(n)' = Meant(n)
       /\ AllMeant' = AllMeant /\ Snaps(v)' = Snaps(v) /\ FirstMeant(v)' = FirstMeant(v)
       /\ \A k : Snapshot(v, k)' = Snapshot(v, k)
  BY <1>1, SameAsked
<1>12. iter' # None
  <2>1. /\ iter'.k \in Nat /\ iter'.from \in {None, opts.from, opts.to} /\ iter'.to \in {None, opts.to}
        /\ iter'.last \in BOOLEAN
    BY <1>9, <1>10
  <2> QED
    BY <1>10, <2>1, IterationIsSomething DEF Asking
<1>13. ASSUME NEW j \in FirstMeant(v) .. iter.k
       PROVE  Snapshot(v, j) \in zvols_done' /\ (iter'.last = FALSE => Snaps(v)[j] # opts.to)
  <2>1. j = iter.k \/ j \in FirstMeant(v) .. iter.k - 1
    BY <1>9
  <2>2. CASE j = iter.k
    BY <1>3, <1>4, <1>5, <1>10, <2>2
  <2>3. CASE j \in FirstMeant(v) .. iter.k - 1
    BY <1>4, <1>9, <2>3
  <2> QED
    BY <2>1, <2>2, <2>3
<1>14. Iterates(v)'
  <2>1. /\ iter'.last \in BOOLEAN /\ iter'.k \in 1 .. Len(Snaps(v)') + 1 /\ iter'.k - 1 = iter.k
        /\ FirstMeant(v)' <= iter.k /\ FirstMeant(v)' < iter'.k /\ iter'.k > 1
    BY <1>5, <1>9, <1>10, <1>11
  <2>2. \A j \in FirstMeant(v)' .. iter'.k - 1 :
          Snapshot(v, j)' \in zvols_done' /\ (iter'.last = FALSE => Snaps(v)'[j] # opts'.to)
    BY <1>1, <1>11, <1>13, <2>1
  <2>3. iter'.last => Snaps(v)'[iter'.k - 1] = opts'.to
    BY <1>1, <1>5, <1>10, <1>11, <2>1
  <2> QED
    BY <1>1, <1>10, <2>1, <2>2, <2>3 DEF Iterates
<1>15. Given' /\ SentType' /\ Args' = Args
  BY <1>1 DEF Asking, Given, SentType, Args
<1>16. SentIsAsked'
  BY <1>1, <1>4, <1>11, <1>15 DEF Asking, SentIsAsked
<1>17. DoneIsGiven'
  BY <1>1, <1>4, <1>5, <1>6, <1>15 DEF Asking, DoneIsGiven
<1>18. GivenIsDone'
  BY <1>1, <1>2, <1>4, <1>8, <1>11, <1>12, <1>15 DEF Asking, GivenIsDone, Whole
<1>19. IterationIsRight'
  BY <1>1, <1>4, <1>7, <1>8, <1>14, <1>15 DEF Asking, IterationIsRight, Whole
<1>20. Calls'
  <2>1. added \in 0 .. Len(Args) /\ opt_from \in {None, opts.from}
        /\ ({opt_from, opts.to} = {None} \/ (opts.snapshots /\ Len(Args) = 1))
    BY <1>1 DEF Asking, Calls
  <2> QED
    BY <1>1, <1>8, <1>12, <1>15, <2>1 DEF Calls, Working
<1>21. \A n : Finished(n)' <=> Finished(n)
  BY <1>1 DEF Finished
<1>22. CASE name \in zvols_done
  <2>1. zvols_done' = zvols_done /\ cur' = cur /\ pc' = "snapshots" /\ pc = "snapshots"
    BY <1>1, <1>4, <1>22
  <2>2. CurrentIsRight'
    BY <2>1 DEF CurrentIsRight, Working
  <2>3. DoneIsFinished'
    BY <1>1, <1>11, <1>12, <1>21, <2>1 DEF Asking, DoneIsFinished, Working, Whole
  <2> QED
    BY <1>15, <1>16, <1>17, <1>18, <1>19, <1>20, <2>2, <2>3 DEF Asking
<1>23. CASE name \notin zvols_done
  <2>1. zvols_done' = zvols_done \cup {name} /\ cur' = name /\ pc' = "property"
    BY <1>4, <1>23
  <2>2. \A f \in 1 .. Len(sent) : sent[f].name # name
    BY <1>23 DEF Asking, SentIsAsked
  <2>3. as_ref' <=> name.snap = opt_from /\ name \notin Range(Args)
    <3>1. as_ref' <=> name.snap = opt_from
      BY <1>1, <1>5, <1>6
    <3>2. CASE opt_from = None
      BY <1>5, <1>6, <3>1, <3>2
    <3>3. CASE opt_from # None
      <4>1. Len(Args) = 1
        BY <1>1, <3>3 DEF Asking, Calls
      <4>2. Range(Args) = {Whole(v)}
        <5>1. added = 1 /\ \A a \in 1 .. Len(Args) : Args[a] = Whole(v)
          BY <1>7, <4>1
        <5> QED
          BY <4>1, <5>1, GivenArgs DEF Asking
      <4> QED
        BY <1>5, <1>6, <1>7, <3>1, <4>2
    <3> QED
      BY <3>2, <3>3
  <2>4. CurrentIsRight'
    BY <1>1, <1>5, <1>6, <1>11, <1>15, <2>1, <2>2, <2>3 DEF CurrentIsRight, Working
  <2>5. DoneIsFinished'
    BY <1>1, <1>2, <1>8, <1>11, <1>12, <1>21, <2>1 DEF Asking, DoneIsFinished, Working, Whole
  <2> QED
    BY <1>15, <1>16, <1>17, <1>18, <1>19, <1>20, <2>4, <2>5 DEF Asking
<1> QED
  BY <1>22, <1>23

\* The last snapshot asked for was the one of --to: the volume itself was not asked for.
LEMMA EndAsking == Asking /\ IterationEnds => Asking'
<1> SUFFICES ASSUME Asking, IterationEnds PROVE Asking'
  OBVIOUS
<1>1. /\ UNCHANGED <<volume, opts, opt_from, added, zvols_done, cur, as_ref, retval, sent>>
      /\ pc = "snapshots" /\ iter.last /\ iter # None /\ pc' = "args" /\ iter' = None
      /\ retval = "none"
  BY DEF IterationEnds, world, send_vars, Asking, Calls
<1>2. PICK v : v = cur.vol
  OBVIOUS
<1>3. /\ v \in DOMAIN volume /\ added \in 1 .. Len(Args) /\ Iterates(v)
      /\ Args[added] = Whole(v) /\ Whole(v).snap = Self /\ opts.snapshots
      /\ Meant(Whole(v)) = {Snapshot(v, k) : k \in FirstMeant(v) .. LastMeant(v)}
                           \cup (IF MeantEnds(v) THEN {} ELSE {Whole(v)})
  BY <1>1, <1>2, Iterated
<1>4. /\ iter.k \in 1 .. Len(Snaps(v)) + 1 /\ iter.k > 1 /\ FirstMeant(v) <= iter.k - 1
      /\ Snaps(v)[iter.k - 1] = opts.to
      /\ \A j \in FirstMeant(v) .. iter.k - 1 : Snapshot(v, j) \in zvols_done
  BY <1>1, <1>3 DEF Iterates
<1>5. MeantEnds(v) /\ LastMeant(v) = iter.k - 1
  <2>1. iter.k - 1 \in 1 .. Len(Snaps(v))
    BY <1>3, <1>4, GivenSnapshots DEF Asking
  <2>2. Exists(v, opts.to) /\ Index(v, opts.to) = iter.k - 1
    BY <1>3, <1>4, <2>1, GivenSnapshots DEF Asking
  <2>3. MeantEnds(v)
    BY <1>4, <2>2 DEF MeantEnds
  <2> QED
    BY <2>2, <2>3 DEF LastMeant
<1>6. Meant(Whole(v)) \subseteq zvols_done
  BY <1>3, <1>4, <1>5
<1>7. Whole(v) \notin AllMeant
  <2> SUFFICES ASSUME NEW a \in 1 .. Len(Args), Whole(v) \in Meant(Args[a])
               PROVE  FALSE
    BY GivenArgs DEF AllMeant, Asking, Args
  <2>1. Args[a].vol \in DOMAIN volume
    BY GivenArgs DEF Asking
  <2>2. CASE Args[a].snap # Self
    BY <1>3, <2>2 DEF Meant
  <2>3. CASE Args[a].snap = Self
    <3> DEFINE w == Args[a].vol
    <3>1. Args[a] = Whole(w)
      BY <2>3, GivenArgs DEF Asking, Whole
    <3>2. Meant(Args[a]) = {Snapshot(w, k) : k \in FirstMeant(w) .. LastMeant(w)}
                           \cup (IF MeantEnds(w) THEN {} ELSE {Args[a]})
      BY <1>3, <2>3 DEF Meant
    <3> HIDE DEF w
    <3>3. w \in DOMAIN volume
      BY <2>1 DEF w
    <3>4. ASSUME NEW k \in FirstMeant(w) .. LastMeant(w), Whole(v) = Snapshot(w, k)
          PROVE  FALSE
      <4>1. k \in 1 .. Len(Snaps(w))
        <5>1. FirstMeant(w) \in Nat \ {0} /\ LastMeant(w) \in 0 .. Len(Snaps(w)) /\ Len(Snaps(w)) \in Nat
          BY <3>3, FirstIsFrom, LastIsTo, GivenSnapshots DEF Asking
        <5> QED
          BY <5>1
      <4>2. Snaps(w)[k] # Self
        BY <3>3, <4>1, GivenSnapshots DEF Asking
      <4>3. Snapshot(w, k).snap = Snaps(w)[k]
        BY DEF Snapshot
      <4> QED
        BY <1>3, <3>4, <4>2, <4>3
    <3>5. ~ MeantEnds(w) /\ Whole(v) = Args[a]
      BY <3>2, <3>4
    <3>6. v = w
      BY <3>1, <3>5 DEF Whole
    <3> QED
      BY <1>5, <3>5, <3>6
  <2> QED
    BY <2>2, <2>3
<1>8. /\ \A n : Meant(n)' = Meant(n)
      /\ AllMeant' = AllMeant
  BY <1>1, SameAsked
<1>9. Given' /\ SentType' /\ Args' = Args /\ SentIsAsked' /\ DoneIsGiven'
  BY <1>1, <1>8 DEF Asking, Given, SentType, Args, SentIsAsked, DoneIsGiven
<1>10. Calls' /\ CurrentIsRight' /\ IterationIsRight'
  BY <1>1, <1>9 DEF Asking, Calls, CurrentIsRight, IterationIsRight, Working
<1>11. GivenIsDone'
  BY <1>1, <1>2, <1>6, <1>8, <1>9 DEF Asking, GivenIsDone
<1>12. DoneIsFinished'
  BY <1>1, <1>2, <1>7, <1>8 DEF Asking, DoneIsFinished, Working, Finished
<1> QED
  BY <1>9, <1>10, <1>11, <1>12 DEF Asking

\* All snapshots are there: the volume itself is next.
LEMMA DoneAsking == Asking /\ SnapshotsDone => Asking'
<1> SUFFICES ASSUME Asking, SnapshotsDone PROVE Asking'
  OBVIOUS
<1>1. /\ UNCHANGED <<volume, opts, opt_from, added, zvols_done, retval, sent>>
      /\ pc = "snapshots" /\ ~ iter.last /\ iter # None /\ iter.k > Len(Snaps(cur.vol))
      /\ retval = "none" /\ pc' = "property" /\ iter' = None /\ as_ref' = FALSE
      /\ cur' = [cur EXCEPT !.snap = Self]
  BY DEF SnapshotsDone, world, send_vars, Asking, Calls
<1>2. PICK v : v = cur.vol
  OBVIOUS
<1>3. /\ v \in DOMAIN volume /\ added \in 1 .. Len(Args) /\ Iterates(v)
      /\ Args[added] = Whole(v) /\ Whole(v).snap = Self /\ opts.snapshots
      /\ Whole(v) \in zvols_done /\ \A f \in 1 .. Len(sent) : sent[f].name # Whole(v)
      /\ Meant(Whole(v)) = {Snapshot(v, k) : k \in FirstMeant(v) .. LastMeant(v)}
                           \cup (IF MeantEnds(v) THEN {} ELSE {Whole(v)})
      /\ Meant(Whole(v)) \subseteq AllMeant
  BY <1>1, <1>2, Iterated
<1>4. /\ Len(Snaps(v)) \in Nat /\ iter.k = Len(Snaps(v)) + 1
      /\ \A j \in FirstMeant(v) .. iter.k - 1 :
           Snapshot(v, j) \in zvols_done /\ Snaps(v)[j] # opts.to
  <2>1. Len(Snaps(v)) \in Nat /\ iter.k \in 1 .. Len(Snaps(v)) + 1 /\ iter.k > Len(Snaps(v))
    BY <1>1, <1>2, <1>3, GivenSnapshots DEF Iterates, Asking
  <2>2. iter.k = Len(Snaps(v)) + 1
    BY <2>1
  <2> QED
    BY <1>1, <1>3, <2>1, <2>2 DEF Iterates
<1>5. ~ MeantEnds(v) /\ LastMeant(v) = iter.k - 1
  <2>1. ~ MeantEnds(v)
    <3> SUFFICES ASSUME MeantEnds(v) PROVE FALSE
      OBVIOUS
    <3>1. /\ Index(v, opts.to) \in 1 .. Len(Snaps(v)) /\ Snaps(v)[Index(v, opts.to)] = opts.to
          /\ Index(v, opts.to) >= FirstMeant(v) /\ FirstMeant(v) \in 1 .. Len(Snaps(v)) + 1
      BY <1>3, GivenSnapshots, FirstIsFrom DEF MeantEnds, Asking
    <3>2. Index(v, opts.to) \in FirstMeant(v) .. iter.k - 1
      BY <1>4, <3>1
    <3> QED
      BY <1>4, <3>1, <3>2
  <2> QED
    BY <1>4, <2>1 DEF LastMeant
<1>6. Meant(Whole(v)) \subseteq zvols_done /\ Whole(v) \in AllMeant
  BY <1>3, <1>4, <1>5
<1>7. cur' = Whole(v)
  <2>1. cur = [vol |-> v, snap |-> cur.snap]
    BY <1>1, <1>2 DEF Asking, IterationIsRight
  <2> QED
    BY <1>1, <2>1 DEF Whole
<1>8. /\ \A n : Meant(n)' = Meant(n)
      /\ AllMeant' = AllMeant
  BY <1>1, SameAsked
<1>9. Given' /\ SentType' /\ Args' = Args /\ SentIsAsked' /\ DoneIsGiven'
  BY <1>1, <1>8 DEF Asking, Given, SentType, Args, SentIsAsked, DoneIsGiven
<1>10. opt_from # Self /\ Whole(v) \in Range(Args)
  BY <1>1, <1>3, GivenArgs DEF Asking, Calls
<1>11. Calls' /\ IterationIsRight'
  BY <1>1, <1>9 DEF Asking, Calls, IterationIsRight, Working
<1>12. CurrentIsRight'
  BY <1>1, <1>3, <1>6, <1>7, <1>8, <1>9, <1>10 DEF CurrentIsRight, Working
<1>13. GivenIsDone'
  BY <1>1, <1>2, <1>6, <1>8, <1>9 DEF Asking, GivenIsDone
<1>14. DoneIsFinished'
  BY <1>1, <1>2, <1>7, <1>8 DEF Asking, DoneIsFinished, Working, Finished
<1> QED
  BY <1>9, <1>11, <1>12, <1>13, <1>14 DEF Asking
\* A sequence of anything with one more, and one of its elements replaced.
LEMMA Appended ==
  ASSUME NEW s, s \in Seq(Range(s)), NEW e
  PROVE  /\ Append(s, e) \in Seq(Range(Append(s, e)))
         /\ Len(s) \in Nat /\ Len(Append(s, e)) = Len(s) + 1
         /\ \A k \in 1 .. Len(s) : Append(s, e)[k] = s[k]
         /\ Append(s, e)[Len(s) + 1] = e
         /\ Append(s, e) # <<>>
<1> DEFINE S == Range(s) \cup {e}
<1>1. s \in Seq(S)
  BY SeqMonotonic
<1> HIDE DEF S
<1>2. e \in S
  BY DEF S
<1>3. /\ Append(s, e) \in Seq(S) /\ Append(s, e) # <<>>
      /\ Len(Append(s, e)) = Len(s) + 1
      /\ \A k \in 1 .. Len(s) : Append(s, e)[k] = s[k]
      /\ Append(s, e)[Len(s) + 1] = e
  BY <1>1, <1>2, AppendProperties
<1>4. Append(s, e) \in Seq(Range(Append(s, e)))
  BY <1>3, SeqOfRange
<1>5. Len(s) \in Nat
  BY <1>1, LenProperties
<1>6. QED
  BY <1>3, <1>4, <1>5

\* A file is begun, with the name of what zvol_add was called for.
LEMMA OpenAsking == Asking /\ ZVOL_open => Asking'
<1> SUFFICES ASSUME Asking, ZVOL_open PROVE Asking'
  OBVIOUS
<1>1. PICK rec : /\ sent' = Append(sent, rec) /\ rec.name = cur /\ rec.ref = as_ref
                 /\ DOMAIN rec = {"name", "ref", "map", "tree", "ended", "got"}
  BY DEF ZVOL_open
<1>2. /\ UNCHANGED <<volume, opts, opt_from, added, zvols_done, cur, iter, as_ref, retval>>
      /\ pc = "file" /\ pc' = "extents"
  BY DEF ZVOL_open, world, add_vars
<1>3. /\ sent' \in Seq(Range(sent')) /\ Len(sent) \in Nat /\ Len(sent') = Len(sent) + 1
      /\ \A k \in 1 .. Len(sent) : sent'[k] = sent[k]
      /\ sent'[Len(sent) + 1] = rec /\ sent' # <<>>
  BY <1>1, Appended DEF Asking, SentType
<1>4. \A f \in 1 .. Len(sent') : f \in 1 .. Len(sent) \/ f = Len(sent) + 1
  BY <1>3
<1>5. /\ \A n : Meant(n)' = Meant(n)
      /\ AllMeant' = AllMeant
      /\ \A v : /\ Snaps(v)' = Snaps(v) /\ FirstMeant(v)' = FirstMeant(v)
                /\ \A k : Snapshot(v, k)' = Snapshot(v, k)
  BY <1>2, SameAsked
<1>6. /\ Working /\ cur \in AllMeant /\ cur \in zvols_done
      /\ \A f \in 1 .. Len(sent) : sent[f].name # cur
      /\ (as_ref <=> cur.snap = opt_from /\ cur \notin Range(Args))
      /\ iter # None => cur.snap # Self
  BY <1>2 DEF Asking, CurrentIsRight, Working
<1>7. Given' /\ Args' = Args /\ DoneIsGiven' /\ GivenIsDone'
  BY <1>2, <1>5 DEF Asking, Given, Args, DoneIsGiven, GivenIsDone, Whole
<1>8. SentType'
  BY <1>1, <1>3, <1>4 DEF Asking, SentType
<1>9. SentIsAsked'
  <2> SUFFICES ASSUME NEW f \in 1 .. Len(sent')
               PROVE  /\ sent'[f].name \in AllMeant /\ sent'[f].name \in zvols_done
                      /\ (sent'[f].ref <=> sent'[f].name.snap = opt_from /\ sent'[f].name \notin Range(Args))
                      /\ \A g \in 1 .. f - 1 : sent'[g].name # sent'[f].name
    BY <1>2, <1>5, <1>7 DEF SentIsAsked
  <2>1. CASE f \in 1 .. Len(sent)
    <3>1. /\ sent[f].name \in AllMeant /\ sent[f].name \in zvols_done
          /\ (sent[f].ref <=> sent[f].name.snap = opt_from /\ sent[f].name \notin Range(Args))
          /\ \A g \in 1 .. f - 1 : sent[g].name # sent[f].name
      BY <2>1 DEF Asking, SentIsAsked
    <3>2. \A g \in 1 .. f - 1 : g \in 1 .. Len(sent)
      BY <1>3, <2>1
    <3> QED
      BY <1>3, <2>1, <3>1, <3>2
  <2>2. CASE f = Len(sent) + 1
    <3>1. \A g \in 1 .. f - 1 : g \in 1 .. Len(sent)
      BY <1>3, <2>2
    <3> QED
      BY <1>1, <1>3, <1>6, <2>2, <3>1
  <2> QED
    BY <1>4, <2>1, <2>2
<1>10. Calls'
  BY <1>2, <1>7 DEF Asking, Calls, Working
<1>11. \A v : Iterates(v) => Iterates(v)'
  BY <1>2, <1>5 DEF Iterates, Iteration
<1>12. IterationIsRight'
  <2>1. iter # None => Whole(cur.vol) # cur
    BY <1>6 DEF Whole
  <2>2. iter # None => \A f \in 1 .. Len(sent') : sent'[f].name # Whole(cur.vol)
    BY <1>1, <1>3, <1>4, <2>1 DEF Asking, IterationIsRight
  <2> QED
    BY <1>2, <1>7, <1>11, <2>2 DEF Asking, IterationIsRight, Whole
<1>13. CurrentIsRight'
  <2>1. sent'[Len(sent')].name = cur
    BY <1>1, <1>3
  <2> QED
    BY <1>2, <1>3, <1>5, <1>6, <2>1 DEF CurrentIsRight, Working
<1>14. \A n : Finished(n) => Finished(n)'
  <2> SUFFICES ASSUME NEW n, NEW f \in 1 .. Len(sent), sent[f].name = n, sent[f].ended
               PROVE  \E g \in 1 .. Len(sent') : sent'[g].name = n /\ sent'[g].ended
    BY DEF Finished
  <2>1. f \in 1 .. Len(sent') /\ sent'[f] = sent[f]
    BY <1>3
  <2> QED
    BY <2>1
<1>15. DoneIsFinished'
  BY <1>2, <1>5, <1>14 DEF Asking, DoneIsFinished, Working, Whole
<1> QED
  BY <1>7, <1>8, <1>9, <1>10, <1>12, <1>13, <1>15 DEF Asking

LEMMA LastIsOne ==
  ASSUME NEW s, s \in Seq(Range(s)), s # <<>>
  PROVE  Len(s) \in 1 .. Len(s)
<1>1. Len(s) \in Nat \ {0}
  BY EmptySeq, LenProperties
<1> QED
  BY <1>1

\* Sending changes no names.
LEMMA ReplacedIsKept ==
  ASSUME SentType, sent # <<>>, NEW r, sent' = [sent EXCEPT ![Len(sent)] = r],
         DOMAIN r = {"name", "ref", "map", "tree", "ended", "got"},
         r.name = sent[Len(sent)].name, r.ref = sent[Len(sent)].ref,
         sent[Len(sent)].ended => r.ended
  PROVE  SentKept
<1>1. Len(sent) \in Nat \ {0}
  BY EmptySeq, LenProperties DEF SentType
<1>2. Len(sent) \in 1 .. Len(sent)
  BY <1>1
<1>3. PICK s : s = sent
  OBVIOUS
<1>4. PICK n : n = Len(s)
  OBVIOUS
<1>5. PICK t : t = [s EXCEPT ![n] = r]
  OBVIOUS
<1>6. s \in Seq(Range(s)) /\ n \in 1 .. Len(s)
  BY <1>2, <1>3, <1>4 DEF SentType
<1>7. /\ t \in Seq(Range(t)) /\ Len(t) = Len(s)
      /\ \A k \in 1 .. Len(s) : t[k] = IF k = n THEN r ELSE s[k]
  <2> DEFINE S == Range(s) \cup {r}
  <2>1. s \in Seq(S)
    BY <1>6, SeqMonotonic
  <2> HIDE DEF S
  <2>2. r \in S
    BY DEF S
  <2>3. /\ [s EXCEPT ![n] = r] \in Seq(S) /\ Len([s EXCEPT ![n] = r]) = Len(s)
        /\ \A k \in 1 .. Len(s) : [s EXCEPT ![n] = r][k] = IF k = n THEN r ELSE s[k]
    BY <1>6, <2>1, <2>2, ExceptSeq
  <2>4. /\ t \in Seq(S) /\ Len(t) = Len(s)
        /\ \A k \in 1 .. Len(s) : t[k] = IF k = n THEN r ELSE s[k]
    BY <1>5, <2>3
  <2> QED
    BY <2>4, SeqOfRange
<1>8. t = sent'
  BY <1>3, <1>4, <1>5
<1>9. /\ sent' \in Seq(Range(sent')) /\ Len(sent') = Len(sent)
      /\ \A k \in 1 .. Len(sent) : sent'[k] = IF k = Len(sent) THEN r ELSE sent[k]
  BY <1>3, <1>4, <1>7, <1>8
<1> QED
  BY <1>9 DEF SentType, SentKept

LEMMA SendAsking == Asking /\ SendExtent => Asking'
<1> SUFFICES ASSUME Asking, SendExtent PROVE Asking'
  OBVIOUS
<1>1. /\ UNCHANGED <<volume, opts, opt_from, add_vars, retval, pc>> /\ pc = "extents"
      /\ sent # <<>> /\ SentType
  BY DEF SendExtent, world, Asking, CurrentIsRight
<1>2. sent' = sent \/ \E got : sent' = [sent EXCEPT ![Len(sent)].got = got]
  BY DEF SendExtent
<1>3. CASE sent' = sent
  BY <1>1, <1>3, SameIsKept, GoOnAsking
<1>4. CASE \E got : sent' = [sent EXCEPT ![Len(sent)].got = got]
  <2>1. PICK got : sent' = [sent EXCEPT ![Len(sent)].got = got]
    BY <1>4
  <2>2. PICK old : old = sent[Len(sent)]
    OBVIOUS
  <2>3. PICK r : r = [old EXCEPT !.got = got]
    OBVIOUS
  <2>4. sent' = [sent EXCEPT ![Len(sent)] = r]
    BY <2>1, <2>2, <2>3
  <2>5. DOMAIN old = {"name", "ref", "map", "tree", "ended", "got"}
    BY <1>1, <2>2, LastIsOne DEF SentType
  <2>6. /\ DOMAIN r = {"name", "ref", "map", "tree", "ended", "got"}
        /\ r.name = old.name /\ r.ref = old.ref /\ r.ended = old.ended
    BY <2>3, <2>5
  <2>7. SentKept
    BY <1>1, <2>2, <2>4, <2>6, ReplacedIsKept
  <2> QED
    BY <1>1, <2>7, GoOnAsking
<1> QED
  BY <1>2, <1>3, <1>4

\* A file that ends is the one zvol_add was called for.
LEMMA EndFileAsking == Asking /\ EndFile => Asking'
<1> SUFFICES ASSUME Asking, EndFile PROVE Asking'
  OBVIOUS
<1>1. /\ UNCHANGED <<volume, opts, opt_from, added, zvols_done, cur, iter, as_ref, retval>>
      /\ pc = "extents" /\ pc' = "revert" /\ sent # <<>> /\ SentType
      /\ sent[Len(sent)].name = cur
  BY DEF EndFile, world, add_vars, Asking, CurrentIsRight
<1>2. PICK got : sent' = [sent EXCEPT ![Len(sent)].ended = TRUE, ![Len(sent)].got = got]
  BY DEF EndFile
<1>3. PICK old : old = sent[Len(sent)]
  OBVIOUS
<1>4. PICK r : r = [[old EXCEPT !.ended = TRUE] EXCEPT !.got = got]
  OBVIOUS
<1>5. Len(sent) \in 1 .. Len(sent) /\ DOMAIN old = {"name", "ref", "map", "tree", "ended", "got"}
  BY <1>1, <1>3, LastIsOne DEF SentType
<1>6. sent' = [sent EXCEPT ![Len(sent)] = r]
  <2>1. sent' = [[sent EXCEPT ![Len(sent)].ended = TRUE] EXCEPT ![Len(sent)].got = got]
    BY <1>2
  <2>2. Len(sent) \in DOMAIN sent
    BY <1>1, <1>5, LenProperties DEF SentType
  <2>3. [sent EXCEPT ![Len(sent)].ended = TRUE][Len(sent)] = [old EXCEPT !.ended = TRUE]
    BY <1>3, <2>2
  <2> QED
    BY <1>3, <1>4, <2>1, <2>2, <2>3
<1>7. /\ DOMAIN r = {"name", "ref", "map", "tree", "ended", "got"}
      /\ r.name = old.name /\ r.ref = old.ref /\ r.ended = TRUE
  BY <1>4, <1>5
<1>8. SentKept
  BY <1>1, <1>3, <1>6, <1>7, ReplacedIsKept
<1>9. /\ Given' /\ SentType' /\ IterationIsRight' /\ SentIsAsked' /\ DoneIsGiven' /\ GivenIsDone'
      /\ AllMeant' = AllMeant /\ Args' = Args
      /\ \A n : Finished(n) => Finished(n)'
  BY <1>1, <1>8, KeptAsking
<1>10. Finished(cur)'
  <2>1. sent'[Len(sent)] = r /\ Len(sent') = Len(sent)
    BY <1>1, <1>5, <1>6, <1>8, LenProperties DEF SentKept, SentType
  <2> QED
    BY <1>1, <1>3, <1>5, <1>7, <2>1 DEF Finished
<1>11. Calls' /\ CurrentIsRight'
  BY <1>1, <1>9 DEF Asking, Calls, CurrentIsRight, Working
<1>12. DoneIsFinished'
  BY <1>1, <1>9, <1>10 DEF Asking, DoneIsFinished, Working, Whole
<1> QED
  BY <1>9, <1>11, <1>12 DEF Asking

LEMMA StepAsking == Asking /\ [Next]_vars => Asking'
<1> SUFFICES ASSUME Asking, [Next]_vars PROVE Asking'
  OBVIOUS
<1>1. CASE CheckOptions
  BY <1>1, CheckOptionsAsking
<1>2. CASE zvol_add
  BY <1>2, AddAsking
<1>3. CASE AllAdded \/ Close
  BY <1>3, AllAddedAsking, CloseAsking
<1>4. CASE PassSnapshot \/ zvol_addsnap \/ IterationEnds \/ SnapshotsDone
  BY <1>4, PassAsking, AddsnapAsking, EndAsking, DoneAsking
<1>5. CASE ZVOL_open \/ SendExtent \/ EndFile
  BY <1>5, OpenAsking, SendAsking, EndFileAsking
<1>6. CASE AddFails \/ ErrorIsKept \/ PropertyFails \/ OwnFails \/ FileFails
  <2>1. /\ retval' # "none" /\ pc' \in {"exited", "close", "revert"} /\ pc \notin {"options", "usage"}
        /\ UNCHANGED <<volume, opts, opt_from, add_vars, sent>>
    BY <1>6 DEF AddFails, ErrorIsKept, PropertyFails, OwnFails, FileFails, world, send_vars
  <2> QED
    BY <2>1, FailureAsking
<1>7. CASE CheckProperty
  <2>1. UNCHANGED <<volume, opts, opt_from, add_vars, sent>> /\ pc = "property"
    BY <1>7 DEF CheckProperty, send_vars
  <2>2. (pc' = "own" /\ retval' = retval) \/ (pc' = "close" /\ retval' = "error")
    BY <1>7 DEF CheckProperty
  <2>3. SentKept
    BY <2>1, SameIsKept DEF Asking
  <2> QED
    BY <2>1, <2>2, <2>3, GoOnAsking, FailureAsking
<1>8. CASE dmu_objset_own \/ NextExtents \/ Revert \/ RevertFails \/ OtherWrites \/ UNCHANGED vars
  <2>1. /\ UNCHANGED <<volume, opts, opt_from, add_vars, retval, sent>>
        /\ \/ pc' = pc
           \/ pc = "property" /\ pc' = "own"
           \/ pc = "own" /\ pc' = "file"
           \/ pc = "revert" /\ pc' = "close"
    BY <1>8 DEF dmu_objset_own, NextExtents, Revert, RevertFails, OtherWrites, world, send_vars, vars
  <2>2. SentKept
    BY <2>1, SameIsKept DEF Asking
  <2> QED
    BY <2>1, <2>2, GoOnAsking
<1> QED
  BY <1>1, <1>2, <1>3, <1>4, <1>5, <1>6, <1>7, <1>8 DEF Next

\* What was asked for and what is there, at any time.
THEOREM AskingIsKept == Spec => []Asking
<1> QED
  BY InitAsking, StepAsking, PTL DEF Spec

LEMMA StepMeant == FromIsMeant /\ [Next]_vars => FromIsMeant'
<1> SUFFICES ASSUME FromIsMeant, [Next]_vars PROVE FromIsMeant'
  OBVIOUS
<1>1. CASE CheckOptions
  <2>1. opts' = opts /\ opt_from' = IF opts.from = Empty \/ opts.to = Empty THEN None ELSE opts.from
    BY <1>1 DEF CheckOptions, world
  <2> QED
    BY <2>1 DEF FromIsMeant, FromIsLost, From
<1>2. CASE ~ CheckOptions
  <2>1. UNCHANGED <<opts, opt_from>> /\ (pc' # "options" => pc # "options")
    BY <1>2 DEF Next, vars, world, zvol_add, AddFails, AllAdded, PassSnapshot, zvol_addsnap, HasSnapshot,
       ErrorIsKept, IterationEnds, SnapshotsDone, CheckProperty, PropertyFails, dmu_objset_own, OwnFails,
       ZVOL_open, NextExtents, SendExtent, EndFile, FileFails, Revert, RevertFails, Close, OtherWrites
  <2> QED
    BY <2>1 DEF FromIsMeant, FromIsLost, From
<1> QED
  BY <1>1, <1>2

THEOREM FromStaysMeant == Spec => []FromIsMeant
<1>1. Init => FromIsMeant
  BY DEF Init, FromIsMeant
<1> QED
  BY <1>1, StepMeant, PTL DEF Spec

\* What the program goes by is what was asked for.
LEMMA MeantIsAsked ==
  ASSUME ~ FromIsLost, opt_from = From
  PROVE  AllMeant = AllAsked
<1>1. \A v : FirstMeant(v) = FirstAsked(v)
  BY DEF FirstMeant, FirstAsked
<1>2. \A v : (MeantEnds(v) <=> Ends(v)) /\ LastMeant(v) = LastAsked(v)
  BY <1>1 DEF MeantEnds, Ends, LastMeant, LastAsked
<1>3. \A n : Meant(n) = Asked(n)
  BY <1>1, <1>2 DEF Meant, Asked
<1> QED
  BY <1>3 DEF AllMeant, AllAsked

\* Without its --from it goes by all snapshots.
LEMMA LostIsMore ==
  ASSUME Given, FromIsLost, opt_from = None
  PROVE  AllAsked \subseteq AllMeant
<1>1. ASSUME NEW a \in 1 .. Len(Args) PROVE Asked(Args[a]) \subseteq Meant(Args[a])
  <2> DEFINE v == Args[a].vol
  <2>1. v \in DOMAIN volume
    BY <1>1, GivenArgs
  <2>2. /\ Len(Snaps(v)) \in Nat /\ \A s : Exists(v, s) => Index(v, s) \in 1 .. Len(Snaps(v))
        /\ ~ Exists(v, Empty)
    <3>1. PICK c \in Cases : volume = c.volume
      BY DEF Given
    <3>2. /\ DOMAIN c.volume[v].snaps = 1 .. Len(c.volume[v].snaps)
          /\ \A k \in 1 .. Len(c.volume[v].snaps) : c.volume[v].snaps[k] # Empty
      BY <2>1, <3>1, NamesAssumption
    <3>3. ~ Exists(v, Empty)
      BY <3>1, <3>2 DEF Exists, Snaps, Range
    <3> QED
      BY <2>1, <3>3, GivenSnapshots
  <2>3. ~ MeantEnds(v) /\ ~ Ends(v) /\ LastMeant(v) = Len(Snaps(v)) /\ LastAsked(v) = Len(Snaps(v))
    BY <2>2 DEF FromIsLost, MeantEnds, Ends, LastMeant, LastAsked
  <2>4. FirstMeant(v) = 1 /\ FirstAsked(v) \in 1 .. Len(Snaps(v)) + 1
    BY <2>2 DEF FirstMeant, FirstAsked
  <2>5. FirstAsked(v) .. LastAsked(v) \subseteq FirstMeant(v) .. LastMeant(v)
    BY <2>2, <2>3, <2>4
  <2> QED
    BY <2>3, <2>5 DEF Asked, Meant
<1> QED
  BY <1>1, GivenArgs DEF AllAsked, AllMeant, Args

\* A snapshot that was asked for has a name.
LEMMA MeantHasName ==
  ASSUME Given, NEW n \in AllMeant, n \notin Range(Args)
  PROVE  n.snap # None
<1>1. PICK a \in 1 .. Len(Args) : n \in Meant(Args[a])
  BY GivenArgs DEF AllMeant, Args
<1>2. n # Args[a]
  BY <1>1, GivenArgs
<1>3. PICK v : v = Args[a].vol
  OBVIOUS
<1>4. PICK k \in FirstMeant(v) .. LastMeant(v) : n = Snapshot(v, k)
  BY <1>1, <1>2, <1>3 DEF Meant
<1>5. v \in DOMAIN volume
  BY <1>3, GivenArgs
<1>6. FirstMeant(v) \in 1 .. Len(Snaps(v)) + 1 /\ LastMeant(v) \in 0 .. Len(Snaps(v)) /\ Len(Snaps(v)) \in Nat
  BY <1>5, FirstIsFrom, LastIsTo, GivenSnapshots
<1>7. k \in 1 .. Len(Snaps(v))
  BY <1>4, <1>6
<1> QED
  BY <1>4, <1>5, <1>7, GivenSnapshots DEF Snapshot

\* Nothing is sent that was not asked for, and nothing twice, only the snapshot of
\* --from is a reference, and when the program ends well all is there (zvol_add,
\* zvol_addsnap and zvols_done); with an empty --to the snapshots before --from are
\* sent, too, and none is a reference (main).
THEOREM AllAskedIsSentOnce == Spec => []AskedIsSentOnce
<1>1. Asking /\ FromIsMeant => AskedIsSentOnce
  <2> SUFFICES ASSUME Asking, FromIsMeant PROVE AskedIsSentOnce
    OBVIOUS
  <2>1. DOMAIN sent = 1 .. Len(sent) /\ Given
    BY LenProperties DEF Asking, SentType
  <2>2. pc # "options" /\ ~ FromIsLost => AllMeant = AllAsked /\ opt_from = From
    BY MeantIsAsked DEF FromIsMeant
  <2>3. pc # "options" /\ FromIsLost => AllAsked \subseteq AllMeant /\ opt_from = None
    BY <2>1, LostIsMore DEF FromIsMeant
  <2>4. ASSUME NEW f \in DOMAIN sent
        PROVE  /\ sent[f].name \in AllAsked \/ FromIsLost
               /\ (sent[f].ref <=> sent[f].name.snap = From /\ sent[f].name \notin Range(opts.args)
                                    /\ ~ FromIsLost)
               /\ \A g \in 1 .. f - 1 : sent[g].name # sent[f].name
    <3>1. /\ sent[f].name \in AllMeant
          /\ (sent[f].ref <=> sent[f].name.snap = opt_from /\ sent[f].name \notin Range(opts.args))
          /\ \A g \in 1 .. f - 1 : sent[g].name # sent[f].name
      BY <2>1 DEF Asking, SentIsAsked, Args
    <3>2. pc # "options"
      <4>1. sent = <<>> => DOMAIN sent = {}
        BY <2>1
      <4> QED
        BY <4>1 DEF Asking, Calls
    <3>3. CASE ~ FromIsLost
      BY <2>2, <3>1, <3>2, <3>3
    <3>4. CASE FromIsLost
      <4>1. sent[f].name \notin Range(opts.args) => sent[f].name.snap # opt_from
        BY <2>1, <2>3, <3>1, <3>2, <3>4, MeantHasName DEF Args
      <4> QED
        BY <3>1, <3>4, <4>1
    <3> QED
      BY <3>3, <3>4
  <2>5. ASSUME pc = "exited", retval = "none", NEW name \in AllAsked
        PROVE  \E f \in DOMAIN sent : sent[f].name = name /\ sent[f].ended
    <3>1. added = Len(Args) /\ iter = None /\ ~ Working
      BY <2>5 DEF Asking, Calls, Working
    <3>2. name \in AllMeant
      BY <2>2, <2>3, <2>5
    <3>3. PICK a \in 1 .. Len(Args) : name \in Meant(Args[a])
      BY <2>1, <3>2, GivenArgs DEF AllMeant, Args
    <3>4. name \in zvols_done
      BY <3>1, <3>3 DEF Asking, GivenIsDone
    <3>5. Finished(name)
      BY <2>5, <3>1, <3>2, <3>4 DEF Asking, DoneIsFinished
    <3> QED
      BY <2>1, <3>5 DEF Finished
  <2> QED
    BY <2>4, <2>5 DEF AskedIsSentOnce
<1> QED
  BY <1>1, AskingIsKept, FromStaysMeant, PTL
------------------------------------------------------------------------------
LEMMA LeastOf ==
    ASSUME NEW T, T \subseteq Nat, T # {}
    PROVE  \E x \in T : \A y \in T : x <= y
<1>1. PICK x \in T : \A y \in T : ~ (<<y, x>> \in OpToRel(<, Nat))
  BY NatLessThanWellFounded, WFMin
<1>2. \A y \in T : ~ (y < x)
  BY <1>1 DEF OpToRel
<1> QED
  BY <1>2

\* S, a step of a recursion as a function on functions, asks only for what the
\* measure mu of is less.
GoesDown(D, R, B, mu, S) ==
    /\ R # {} /\ B \in Nat /\ mu \in [D -> 0 .. B] /\ S \in [[D -> R] -> [D -> R]]
    /\ \A f, g \in [D -> R], x \in D :
         (\A y \in D : mu[y] < mu[x] => f[y] = g[y]) => S[f][x] = S[g][x]

LEMMA RecursionExists ==
    ASSUME NEW D, NEW R, NEW B, NEW mu, NEW S, GoesDown(D, R, B, mu, S)
    PROVE  \E f \in [D -> R] : f = S[f]
<1>0. /\ R # {} /\ B \in Nat /\ mu \in [D -> 0 .. B] /\ S \in [[D -> R] -> [D -> R]]
      /\ \A f, g \in [D -> R], x \in D :
           (\A y \in D : mu[y] < mu[x] => f[y] = g[y]) => S[f][x] = S[g][x]
  BY DEF GoesDown
<1> DEFINE Has(n) == \E f \in [D -> R] : \A x \in D : mu[x] < n => f[x] = S[f][x]
           T == {n \in Nat : ~ Has(n)}
<1>1. Has(0)
  <2>1. PICK r \in R : TRUE
    BY <1>0
  <2>2. [x \in D |-> r] \in [D -> R]
    OBVIOUS
  <2>3. \A x \in D : ~ (mu[x] < 0)
    BY <1>0
  <2> QED
    BY <2>2, <2>3
<1>2. ASSUME NEW n \in Nat, Has(n) PROVE Has(n + 1)
  <2>1. PICK f \in [D -> R] : \A x \in D : mu[x] < n => f[x] = S[f][x]
    BY <1>2
  <2>2. S[f] \in [D -> R]
    BY <1>0
  <2>3. PICK g \in [D -> R] : g = S[f]
    BY <2>2
  <2>4. ASSUME NEW x \in D, mu[x] < n + 1 PROVE g[x] = S[g][x]
    <3>1. \A y \in D : mu[y] < mu[x] => mu[y] < n
      BY <1>0, <2>4
    <3>2. \A y \in D : mu[y] < mu[x] => f[y] = g[y]
      BY <2>1, <2>3, <3>1
    <3> QED
      BY <1>0, <2>3, <3>2
  <2> QED
    BY <2>4
<1> HIDE DEF Has
<1>3. \A n \in Nat : Has(n)
  <2> SUFFICES ASSUME T # {} PROVE FALSE
    OBVIOUS
  <2>1. PICK m \in T : \A y \in T : m <= y
    BY LeastOf
  <2>2. m \in Nat /\ ~ Has(m) /\ m # 0 /\ \A y \in Nat : y < m => Has(y)
    BY <1>1, <2>1
  <2>3. m - 1 \in Nat /\ m - 1 < m /\ m - 1 + 1 = m
    BY <2>2
  <2> QED
    BY <1>2, <2>2, <2>3
<1>4. PICK f \in [D -> R] : \A x \in D : mu[x] < B + 1 => f[x] = S[f][x]
  BY <1>0, <1>3 DEF Has
<1>5. \A x \in D : f[x] = S[f][x]
  BY <1>0, <1>4
<1>6. S[f] \in [D -> R]
  BY <1>0
<1> QED
  BY <1>5, <1>6


\* What holds at the beginning and goes from one to the next holds for all.
LEMMA Upward ==
    ASSUME NEW a \in Int, NEW b \in Int, NEW T, a \in T,
           \A j \in a + 1 .. b : j - 1 \in T => j \in T
    PROVE  \A j \in a .. b : j \in T
<1> DEFINE M == {n \in Nat : a + n \in a .. b /\ a + n \notin T}
<1> SUFFICES ASSUME NEW j \in a .. b, j \notin T PROVE FALSE
  OBVIOUS
<1>1. j - a \in M
  BY DEF M
<1>2. PICK n \in M : \A m \in M : n <= m
  BY <1>1, LeastOf
<1>3. n # 0 /\ n \in Nat /\ a + n \in a + 1 .. b /\ a + n \notin T
  BY <1>2
<1>4. n - 1 \in Nat /\ a + (n - 1) = a + n - 1 /\ a + (n - 1) \in a .. b
  BY <1>3
<1>5. a + n - 1 \in T
  BY <1>2, <1>3, <1>4
<1> QED
  BY <1>3, <1>5

\* A recursion from each number to the next.
IsIteration(a, b, r0, step, f) ==
    f = [j \in a .. b |-> IF j = a THEN r0 ELSE step[j][f[j - 1]]]

LEMMA IterationExists ==
    ASSUME NEW a \in Int, NEW b \in Int, a <= b, NEW R, NEW r0 \in R[a], NEW step,
           \A j \in a + 1 .. b : step[j] \in [R[j - 1] -> R[j]]
    PROVE  \E f : IsIteration(a, b, r0, step, f) /\ \A j \in a .. b : f[j] \in R[j]
<1> DEFINE Has(c) == \E f : IsIteration(a, c, r0, step, f) /\ \A j \in a .. c : f[j] \in R[j]
           T == {c \in Int : Has(c)}
<1>1. Has(a)
  <2> DEFINE f == [j \in a .. a |-> r0]
  <2>1. IsIteration(a, a, r0, step, f) /\ \A j \in a .. a : f[j] \in R[j]
    BY DEF IsIteration
  <2> HIDE DEF f
  <2> QED
    BY <2>1
<1>2. ASSUME NEW c \in a + 1 .. b, Has(c - 1) PROVE Has(c)
  <2>1. PICK f : IsIteration(a, c - 1, r0, step, f) /\ \A j \in a .. c - 1 : f[j] \in R[j]
    BY <1>2
  <2> DEFINE g == [j \in a .. c |-> IF j = c THEN step[c][f[c - 1]] ELSE f[j]]
  <2>2. f[c - 1] \in R[c - 1] /\ c # a
    BY <2>1
  <2>3. step[c][f[c - 1]] \in R[c]
    BY <2>2
  <2>4. \A j \in a .. c : g[j] \in R[j]
    BY <2>1, <2>3
  <2>5. ASSUME NEW j \in a .. c PROVE g[j] = IF j = a THEN r0 ELSE step[j][g[j - 1]]
    <3>1. CASE j = c
      BY <2>2, <3>1
    <3>2. CASE j # c
      <4>1. j \in a .. c - 1 /\ (j # a => j - 1 \in a .. c - 1 /\ j - 1 # c)
        BY <3>2
      <4>2. f[j] = IF j = a THEN r0 ELSE step[j][f[j - 1]]
        BY <2>1, <4>1 DEF IsIteration
      <4> QED
        BY <3>2, <4>1, <4>2
    <3> QED
      BY <3>1, <3>2
  <2>6. IsIteration(a, c, r0, step, g)
    BY <2>5 DEF IsIteration
  <2> HIDE DEF g
  <2> QED
    BY <2>4, <2>6
<1> HIDE DEF Has
<1>3. \A j \in a .. b : j \in T
  <2>1. a \in T /\ \A j \in a + 1 .. b : j - 1 \in T => j \in T
    BY <1>1, <1>2
  <2> HIDE DEF T
  <2> QED
    BY <2>1, Upward
<1>4. Has(b)
  BY <1>3
<1> QED
  BY <1>4 DEF Has

\* Span is what it is said to be.
LEMMA SpanIs ==
    /\ Span[0] = 1 /\ \A l \in 0 .. MaxLevels : Span[l] \in Nat \ {0}
    /\ \A l \in 1 .. MaxLevels : Span[l] = Fanout * Span[l - 1]
<1> DEFINE Is(f) == f = [level \in 0 .. MaxLevels |-> IF level = 0 THEN 1 ELSE Fanout * f[level - 1]]
           step == [j \in 1 .. MaxLevels |-> [x \in Nat \ {0} |-> Fanout * x]]
           R == [j \in 0 .. MaxLevels |-> Nat \ {0}]
<1>0. Fanout \in Nat \ {0} /\ MaxLevels \in Nat
  BY ZvolMapAssumption
<1>1. \A x \in Nat \ {0} : Fanout * x \in Nat \ {0}
  BY <1>0
<1>2. PICK f : IsIteration(0, MaxLevels, 1, step, f) /\ \A j \in 0 .. MaxLevels : f[j] \in R[j]
  <2>1. \A j \in 0 + 1 .. MaxLevels : step[j] \in [R[j - 1] -> R[j]]
    BY <1>0, <1>1
  <2>2. 1 \in R[0]
    BY <1>0
  <2>3. 0 \in Int /\ MaxLevels \in Int /\ 0 <= MaxLevels
    BY <1>0
  <2> HIDE DEF step, R
  <2> QED
    BY <2>1, <2>2, <2>3, IterationExists, Zenon
<1>3. Is(f)
  <2>1. f = [j \in 0 .. MaxLevels |-> IF j = 0 THEN 1 ELSE step[j][f[j - 1]]]
    BY <1>2 DEF IsIteration
  <2>2. ASSUME NEW j \in 0 .. MaxLevels PROVE f[j] = IF j = 0 THEN 1 ELSE Fanout * f[j - 1]
    <3>1. CASE j = 0
      BY <2>1, <3>1
    <3>2. CASE j # 0
      <4>1. j \in 1 .. MaxLevels /\ j - 1 \in 0 .. MaxLevels
        BY <1>0, <3>2
      <4>2. f[j - 1] \in Nat \ {0}
        BY <1>2, <4>1
      <4>3. step[j][f[j - 1]] = Fanout * f[j - 1]
        BY <4>1, <4>2
      <4>4. f[j] = step[j][f[j - 1]]
        <5> HIDE DEF step
        <5> QED
          BY <2>1, <3>2
      <4> QED
        BY <3>2, <4>3, <4>4
    <3> QED
      BY <3>1, <3>2
  <2>3. f = [j \in 0 .. MaxLevels |-> f[j]]
    BY <2>1
  <2> HIDE DEF step
  <2> QED
    BY <2>2, <2>3
<1>4. Is(Span)
  BY <1>3 DEF Span
<1> DEFINE T == {l \in Int : Span[l] \in Nat \ {0}}
<1>5. \A l \in 0 .. MaxLevels : l \in T
  <2>1. 0 \in T /\ \A j \in 0 + 1 .. MaxLevels : j - 1 \in T => j \in T
    BY <1>0, <1>1, <1>4
  <2> HIDE DEF T
  <2> QED
    BY <1>0, <2>1, Upward
<1> QED
  BY <1>0, <1>4, <1>5
------------------------------------------------------------------------------
\* One round of the binary search, f being what the rounds after it find.
Pairs(n) == (0 .. n) \X (0 .. n)

BlockRound(offs, start, f, ab) ==
    LET a == ab[1]
        b == ab[2]
        i == (a + b) \div 2
    IN  IF b - a <= 1 THEN a
        ELSE IF start > offs[i] THEN f[<<i, b>>]
        ELSE IF start < offs[i] THEN f[<<a, i>>]
        ELSE i

IsBlockSearch(offs, n, start, f) == f = [ab \in Pairs(n) |-> BlockRound(offs, start, f, ab)]

LEMMA BlockSearchIsRounds ==
    ASSUME NEW offs, NEW n, NEW start
    PROVE  SearchBlock(offs, n, start) = (CHOOSE f : IsBlockSearch(offs, n, start, f))[<<0, n>>]
BY DEF SearchBlock, IsBlockSearch, BlockRound, Pairs

LEMMA BetweenHalves ==
    ASSUME NEW a \in Int, NEW b \in Int, b - a > 1, NEW i, i = (a + b) \div 2
    PROVE  i \in Int /\ a < i /\ i < b
OBVIOUS

LEMMA BlockRoundEnds ==
    ASSUME NEW offs, NEW start, NEW f, NEW a, NEW b, b - a <= 1
    PROVE  BlockRound(offs, start, f, <<a, b>>) = a
BY DEF BlockRound

LEMMA BlockRoundHalves ==
    ASSUME NEW offs, NEW start, NEW f, NEW a, NEW b, ~ (b - a <= 1), NEW i, i = (a + b) \div 2
    PROVE  BlockRound(offs, start, f, <<a, b>>) =
             IF start > offs[i] THEN f[<<i, b>>] ELSE IF start < offs[i] THEN f[<<a, i>>] ELSE i
BY DEF BlockRound

LEMMA BlockSearchExists ==
    ASSUME NEW offs, NEW n \in Nat, NEW start
    PROVE  \E f : IsBlockSearch(offs, n, start, f)
<1> DEFINE D == Pairs(n)
           R(f, ab) == BlockRound(offs, start, f, ab)
           mu == [ab \in D |-> IF ab[2] - ab[1] >= 0 THEN ab[2] - ab[1] ELSE 0]
           S == [f \in [D -> Int] |-> [ab \in D |-> R(f, ab)]]
<1>1. mu \in [D -> 0 .. n]
  BY DEF Pairs
<1>2. ASSUME NEW f \in [D -> Int], NEW g \in [D -> Int], NEW ab \in D,
             \A y \in D : mu[y] < mu[ab] => f[y] = g[y]
      PROVE  R(f, ab) \in Int /\ R(f, ab) = R(g, ab)
  <2>1. PICK a \in 0 .. n, b \in 0 .. n : ab = <<a, b>>
    BY DEF Pairs
  <2>2. CASE b - a <= 1
    BY <2>1, <2>2, BlockRoundEnds
  <2>3. CASE ~ (b - a <= 1)
    <3> DEFINE i == (a + b) \div 2
    <3>1. i \in Int /\ a < i /\ i < b /\ i = (a + b) \div 2
      BY <2>3, BetweenHalves
    <3> HIDE DEF i
    <3>2. <<a, i>> \in D /\ <<i, b>> \in D
      BY <3>1 DEF Pairs
    <3>3. mu[ab] = b - a /\ mu[<<a, i>>] = i - a /\ mu[<<i, b>>] = b - i
      BY <2>1, <2>3, <3>1, <3>2
    <3>4. f[<<a, i>>] = g[<<a, i>>] /\ f[<<i, b>>] = g[<<i, b>>]
      <4> HIDE DEF mu
      <4> QED
        BY <1>2, <3>1, <3>2, <3>3
    <3>5. R(f, ab) = IF start > offs[i] THEN f[<<i, b>>] ELSE IF start < offs[i] THEN f[<<a, i>>] ELSE i
      BY <2>1, <2>3, <3>1, BlockRoundHalves
    <3>6. R(g, ab) = IF start > offs[i] THEN g[<<i, b>>] ELSE IF start < offs[i] THEN g[<<a, i>>] ELSE i
      BY <2>1, <2>3, <3>1, BlockRoundHalves
    <3>7. f[<<a, i>>] \in Int /\ f[<<i, b>>] \in Int
      BY <3>2
    <3> HIDE DEF D, R
    <3> QED
      BY <3>1, <3>4, <3>5, <3>6, <3>7
  <2> QED
    BY <2>2, <2>3
<1> HIDE DEF R, D, mu
<1>3. \A f, g \in [D -> Int], ab \in D :
        (\A y \in D : mu[y] < mu[ab] => f[y] = g[y]) => R(f, ab) = R(g, ab)
  BY <1>2
<1>4. \A f \in [D -> Int], ab \in D : R(f, ab) \in Int
  BY <1>2
<1>5. S \in [[D -> Int] -> [D -> Int]] /\ \A f \in [D -> Int] : S[f] = [ab \in D |-> R(f, ab)]
  BY <1>4
<1> HIDE DEF S
<1>6. \A f, g \in [D -> Int], ab \in D :
        (\A y \in D : mu[y] < mu[ab] => f[y] = g[y]) => S[f][ab] = S[g][ab]
  <2> SUFFICES ASSUME NEW f \in [D -> Int], NEW g \in [D -> Int], NEW ab \in D,
                      \A y \in D : mu[y] < mu[ab] => f[y] = g[y]
               PROVE  S[f][ab] = S[g][ab]
    OBVIOUS
  <2>1. S[f][ab] = R(f, ab) /\ S[g][ab] = R(g, ab)
    <3>1. S[f] = [z \in D |-> R(f, z)] /\ S[g] = [z \in D |-> R(g, z)]
      BY <1>5
    <3> QED
      BY <3>1
  <2> QED
    BY <1>3, <2>1
<1>7. PICK f \in [D -> Int] : f = S[f]
  <2>1. GoesDown(D, Int, n, mu, S)
    BY <1>1, <1>5, <1>6 DEF GoesDown
  <2> QED
    BY <2>1, RecursionExists
<1>8. f = [ab \in D |-> R(f, ab)]
  BY <1>5, <1>7
<1> QED
  BY <1>8 DEF IsBlockSearch, R, D

\* The block that "start" is in, or the first.
IsAt(offs, n, start, r) ==
    /\ r \in 0 .. n - 1
    /\ r = 0 \/ offs[r] <= start
    /\ \A i \in r + 1 .. n - 1 : offs[i] > start

Increasing(offs, n) ==
    /\ \A i \in 0 .. n - 1 : offs[i] \in Int
    /\ \A i, j \in 0 .. n - 1 : i < j => offs[i] < offs[j]

LEMMA SearchBlockFinds ==
    ASSUME NEW n \in Nat \ {0}, NEW offs, Increasing(offs, n), NEW start \in Int
    PROVE  IsAt(offs, n, start, SearchBlock(offs, n, start))
<1> DEFINE f == CHOOSE f : IsBlockSearch(offs, n, start, f)
           Around(a, b) == /\ a \in 0 .. n /\ b \in 0 .. n /\ a < b
                           /\ a = 0 \/ offs[a] <= start
                           /\ b = n \/ offs[b] > start
           Bad == {w \in Nat : \E a, b \in 0 .. n : w = b - a /\ Around(a, b) /\ ~ IsAt(offs, n, start, f[<<a, b>>])}
<1>1. IsBlockSearch(offs, n, start, f)
  BY BlockSearchExists
<1>2. SearchBlock(offs, n, start) = f[<<0, n>>]
  BY BlockSearchIsRounds
<1> HIDE DEF f
<1>3. /\ \A i \in 0 .. n - 1 : offs[i] \in Int
      /\ \A i, j \in 0 .. n - 1 : i < j => offs[i] < offs[j]
  BY DEF Increasing
<1>4. Bad = {}
  <2> SUFFICES ASSUME Bad # {} PROVE FALSE
    OBVIOUS
  <2>1. PICK w \in Bad : \A x \in Bad : w <= x
    BY LeastOf
  <2>2. PICK a, b \in 0 .. n : w = b - a /\ Around(a, b) /\ ~ IsAt(offs, n, start, f[<<a, b>>])
    BY <2>1
  <2>3. ASSUME NEW c \in 0 .. n, NEW d \in 0 .. n, d - c \in Nat, d - c < w, Around(c, d)
        PROVE  IsAt(offs, n, start, f[<<c, d>>])
    <3> HIDE DEF Around
    <3>1. SUFFICES ASSUME ~ IsAt(offs, n, start, f[<<c, d>>]) PROVE FALSE
      OBVIOUS
    <3>2. d - c \in Bad
      BY <2>3, <3>1
    <3>3. w <= d - c /\ w \in Nat
      BY <2>1, <3>2
    <3> QED
      BY <2>3, <3>3
  <2> HIDE DEF Bad
  <2>4. f[<<a, b>>] = BlockRound(offs, start, f, <<a, b>>)
    BY <1>1 DEF IsBlockSearch, Pairs
  <2>5. CASE b - a <= 1
    <3>1. b = a + 1 /\ f[<<a, b>>] = a
      BY <2>2, <2>4, <2>5, BlockRoundEnds
    <3>2. ASSUME NEW i \in a + 1 .. n - 1 PROVE offs[i] > start
      <4>1. offs[b] > start /\ b \in 0 .. n - 1 /\ i \in 0 .. n - 1
        BY <2>2, <3>1
      <4>2. offs[b] \in Int /\ offs[i] \in Int
        BY <1>3, <4>1
      <4>3. CASE i = b
        BY <4>1, <4>3
      <4>4. CASE i # b
        <5>1. offs[b] < offs[i]
          BY <1>3, <3>1, <4>1, <4>4
        <5> QED
          BY <4>1, <4>2, <5>1
      <4> QED
        BY <4>3, <4>4
    <3>3. IsAt(offs, n, start, a)
      BY <2>2, <3>1, <3>2 DEF IsAt
    <3> QED
      BY <2>2, <3>1, <3>3
  <2>6. CASE ~ (b - a <= 1)
    <3> DEFINE i == (a + b) \div 2
    <3>1. i \in Int /\ a < i /\ i < b /\ i = (a + b) \div 2
      BY <2>6, BetweenHalves
    <3> HIDE DEF i
    <3>2. i \in 0 .. n - 1 /\ i \in 0 .. n /\ offs[i] \in Int
      BY <1>3, <3>1
    <3>3. f[<<a, b>>] = IF start > offs[i] THEN f[<<i, b>>] ELSE IF start < offs[i] THEN f[<<a, i>>] ELSE i
      BY <2>4, <2>6, <3>1, BlockRoundHalves
    <3>4. CASE start > offs[i]
      <4>1. Around(i, b) /\ b - i \in Nat /\ b - i < w
        BY <2>2, <3>1, <3>2, <3>4
      <4> QED
        BY <2>2, <2>3, <3>2, <3>3, <3>4, <4>1
    <3>5. CASE start < offs[i]
      <4>1. Around(a, i) /\ i - a \in Nat /\ i - a < w
        BY <2>2, <3>1, <3>2, <3>5
      <4>2. ~ (start > offs[i])
        BY <3>2, <3>5
      <4> QED
        BY <2>2, <2>3, <3>2, <3>3, <3>5, <4>1, <4>2
    <3>6. CASE start = offs[i]
      <4>1. f[<<a, b>>] = i
        BY <3>2, <3>3, <3>6
      <4>2. \A j \in i + 1 .. n - 1 : offs[j] > start
        BY <1>3, <3>2, <3>6
      <4>3. IsAt(offs, n, start, i)
        BY <3>2, <3>6, <4>2 DEF IsAt
      <4> QED
        BY <2>2, <4>1, <4>3
    <3> QED
      BY <3>2, <3>4, <3>5, <3>6
  <2> QED
    BY <2>5, <2>6
<1>5. Around(0, n) /\ n - 0 \in Nat /\ 0 \in 0 .. n /\ n \in 0 .. n
  OBVIOUS
<1> QED
  BY <1>2, <1>4, <1>5
------------------------------------------------------------------------------
LEMMA Products ==
    ASSUME NEW a \in Nat, NEW b \in Nat, NEW room \in Nat \ {0}
    PROVE  /\ a * room \in Nat
           /\ a < b => a * room < b * room
           /\ a <= b => a * room <= b * room
           /\ (a + 1) * room = a * room + room
<1>1. a * room \in Nat /\ b * room \in Nat /\ (a + 1) * room = a * room + room
  OBVIOUS
<1>2. ASSUME a < b PROVE a * room < b * room
  <2> DEFINE d == b - a
  <2>1. d \in Nat /\ d >= 1 /\ b = a + d
    BY <1>2
  <2> HIDE DEF d
  <2>2. b * room = a * room + d * room
    BY <2>1
  <2>3. d * room >= room
    BY <2>1
  <2>4. d * room \in Nat
    BY <2>1
  <2> QED
    BY <1>1, <2>2, <2>3, <2>4
<1>3. ASSUME a <= b PROVE a * room <= b * room
  <2>1. a = b \/ a < b
    BY <1>3
  <2> QED
    BY <1>1, <1>2, <2>1
<1> QED
  BY <1>1, <1>2, <1>3

\* Where a block begins.
Pos(b) == b * BlockSize

LEMMA SizeIsPositive == BlockSize \in Nat \ {0}
BY ZvolMapAssumption

LEMMA PosIs ==
    ASSUME NEW a \in Nat, NEW b \in Nat
    PROVE  /\ Pos(a) \in Nat /\ Pos(b) \in Nat /\ Pos(0) = 0
           /\ a <= b <=> Pos(a) <= Pos(b)
           /\ a < b <=> Pos(a) < Pos(b)
           /\ Pos(a + 1) = Pos(a) + BlockSize
<1>1. Pos(0) = 0
  BY SizeIsPositive DEF Pos
<1>2. Pos(a) \in Nat /\ Pos(b) \in Nat /\ Pos(a + 1) = Pos(a) + BlockSize
  BY SizeIsPositive, Products DEF Pos
<1>3. a < b => Pos(a) < Pos(b)
  BY SizeIsPositive, Products DEF Pos
<1>4. b < a => Pos(b) < Pos(a)
  BY SizeIsPositive, Products DEF Pos
<1> QED
  BY <1>1, <1>2, <1>3, <1>4

\* The block of a byte, and where in it the byte is.
BlockOf(l)  == l \div BlockSize
OffsetIn(l) == l % BlockSize

LEMMA BlockOfByte ==
    ASSUME NEW y \in Nat, NEW b \in Nat
    PROVE  /\ BlockOf(y) \in Nat /\ OffsetIn(y) \in 0 .. BlockSize - 1
           /\ y = Pos(BlockOf(y)) + OffsetIn(y)
           /\ b <= BlockOf(y) <=> Pos(b) <= y
<1>1. PICK d \in Nat, r \in 0 .. BlockSize - 1 :
        d = BlockOf(y) /\ r = OffsetIn(y) /\ y = d * BlockSize + r
  <2>1. BlockOf(y) \in Nat /\ OffsetIn(y) \in 0 .. BlockSize - 1 /\ y = BlockOf(y) * BlockSize + OffsetIn(y)
    BY SizeIsPositive DEF BlockOf, OffsetIn
  <2> QED
    BY <2>1
<1>2. y = Pos(d) + r
  BY <1>1 DEF Pos
<1>3. Pos(d) \in Nat /\ Pos(b) \in Nat /\ (b <= d => Pos(b) <= Pos(d))
  BY <1>1, PosIs
<1>4. ASSUME d < b PROVE y < Pos(b)
  <2>1. d + 1 \in Nat /\ d + 1 <= b
    BY <1>1, <1>4
  <2>2. Pos(d + 1) <= Pos(b) /\ Pos(d + 1) = Pos(d) + BlockSize
    BY <1>1, <2>1, PosIs
  <2> QED
    BY <1>1, <1>2, <1>3, <2>2, SizeIsPositive
<1>5. b <= d <=> Pos(b) <= y
  BY <1>1, <1>2, <1>3, <1>4
<1> QED
  BY <1>1, <1>2, <1>5

LEMMA ByteInBlock ==
    ASSUME NEW b \in Nat, NEW l \in Pos(b) .. Pos(b) + BlockSize - 1
    PROVE  /\ l \in Nat /\ BlockOf(l) = b /\ OffsetIn(l) = l - Pos(b)
<1>1. Pos(b) \in Nat /\ Pos(b + 1) = Pos(b) + BlockSize /\ b + 1 \in Nat
  BY PosIs
<1>2. l \in Nat /\ Pos(b) <= l /\ ~ (Pos(b + 1) <= l)
  BY <1>1, SizeIsPositive
<1>3. PICK d \in Nat, r \in 0 .. BlockSize - 1 :
        /\ d = BlockOf(l) /\ r = OffsetIn(l)
        /\ l = Pos(d) + r /\ (b <= d <=> Pos(b) <= l)
  BY <1>2, BlockOfByte
<1>4. b + 1 <= d <=> Pos(b + 1) <= l
  BY <1>1, <1>2, <1>3, BlockOfByte
<1>5. d = b
  BY <1>2, <1>3, <1>4
<1> QED
  BY <1>1, <1>2, <1>3, <1>5, SizeIsPositive

End(e) == e.logical + e.length

\* An extent says where its bytes are.
IsPlaceOf(map, e, l) ==
    LET bp == map[BlockOf(l)] IN
    /\ bp # Hole
    /\ e.shared => /\ bp.plain /\ e.device = LowestDVA(bp).vdev
                   /\ e.physical + (l - e.logical) = LowestDVA(bp).offset + OffsetIn(l)

IsExtent(map, e) ==
    /\ e \in Mapped /\ e.length > 0
    /\ e.shared <=> e.device # NoVdev
    /\ \A l \in e.logical .. End(e) - 1 : IsPlaceOf(map, e, l)

\* The extents of what is mapped from one byte on and before another.
IsMapped(map, start, upto, out) ==
    /\ out \in Seq(Mapped)
    /\ \A i \in 1 .. Len(out) : /\ IsExtent(map, out[i])
                                /\ start <= out[i].logical /\ End(out[i]) <= upto
                                /\ \E b \in Nat : End(out[i]) = Pos(b)
    /\ \A i, j \in 1 .. Len(out) : i < j => End(out[i]) <= out[j].logical
    /\ \A l \in start .. upto - 1 :
         map[BlockOf(l)] # Hole => \E i \in 1 .. Len(out) : l \in out[i].logical .. End(out[i]) - 1

LEMMA MappedIs ==
    ASSUME NEW e \in Mapped
    PROVE  /\ e.device \in Int /\ e.physical \in Nat /\ e.logical \in Nat /\ e.length \in Nat
           /\ e.shared \in BOOLEAN /\ End(e) \in Nat /\ e.logical <= End(e)
           /\ DOMAIN e = {"device", "physical", "logical", "length", "shared"}
BY DEF Mapped, End

LEMMA NothingMapped ==
    ASSUME NEW map, NEW s \in Nat
    PROVE  IsMapped(map, s, s, <<>>)
BY DEF IsMapped

LEMMA HolesAreMapped ==
    ASSUME NEW map, NEW s \in Nat, NEW p \in Nat, NEW q \in Nat, p <= q, NEW out, IsMapped(map, s, p, out),
           \A l \in p .. q - 1 : map[BlockOf(l)] = Hole
    PROVE  IsMapped(map, s, q, out)
<1>1. out \in Seq(Mapped) /\ Len(out) \in Nat
  BY DEF IsMapped
<1>2. ASSUME NEW i \in 1 .. Len(out) PROVE End(out[i]) <= q
  <2>1. End(out[i]) <= p /\ out[i] \in Mapped
    BY <1>1 DEF IsMapped
  <2> QED
    BY <2>1, MappedIs
<1>3. ASSUME NEW l \in s .. q - 1, map[BlockOf(l)] # Hole
      PROVE  \E i \in 1 .. Len(out) : l \in out[i].logical .. End(out[i]) - 1
  <2>1. l \in s .. p - 1
    BY <1>3
  <2> QED
    BY <1>3, <2>1 DEF IsMapped
<1> QED
  BY <1>2, <1>3 DEF IsMapped

LEMMA OneMoreIsMapped ==
    ASSUME NEW map, NEW s \in Nat, NEW k \in Nat, s <= Pos(k), NEW out, IsMapped(map, s, Pos(k), out),
           NEW e, IsExtent(map, e), e.logical = Pos(k), e.length = BlockSize
    PROVE  IsMapped(map, s, Pos(k + 1), Append(out, e))
<1> DEFINE n == Len(out)
           two == Append(out, e)
<1>0. Pos(k) \in Nat /\ Pos(k + 1) \in Nat /\ Pos(k + 1) = Pos(k) + BlockSize /\ k + 1 \in Nat
  BY PosIs, SizeIsPositive
<1>1. out \in Seq(Mapped) /\ n \in Nat /\ e \in Mapped
  BY DEF IsMapped, IsExtent
<1>2. two \in Seq(Mapped) /\ Len(two) = n + 1 /\ two[n + 1] = e /\ \A i \in 1 .. n : two[i] = out[i]
  BY <1>1
<1>3. End(e) = Pos(k + 1)
  BY <1>0, SizeIsPositive DEF End
<1> HIDE DEF two, n
<1>4. \A i \in 1 .. n : /\ IsExtent(map, out[i]) /\ s <= out[i].logical /\ End(out[i]) <= Pos(k)
                        /\ \E b \in Nat : End(out[i]) = Pos(b)
  BY DEF IsMapped, n
<1>5. ASSUME NEW i \in 1 .. n PROVE End(out[i]) \in Nat /\ End(out[i]) <= Pos(k + 1)
  <2>1. out[i] \in Mapped /\ End(out[i]) <= Pos(k)
    BY <1>1, <1>4 DEF n
  <2>2. End(out[i]) \in Nat
    BY <2>1, MappedIs
  <2> QED
    BY <1>0, <2>1, <2>2, SizeIsPositive
<1>6. ASSUME NEW i \in 1 .. n + 1
      PROVE  /\ IsExtent(map, two[i]) /\ s <= two[i].logical /\ End(two[i]) <= Pos(k + 1)
             /\ \E b \in Nat : End(two[i]) = Pos(b)
  <2>1. CASE i = n + 1
    <3>1. /\ IsExtent(map, e) /\ s <= e.logical /\ End(e) <= Pos(k + 1)
          /\ End(e) = Pos(k + 1)
      BY <1>0, <1>3
    <3> QED
      BY <1>0, <1>2, <2>1, <3>1
  <2>2. CASE i # n + 1
    BY <1>1, <1>2, <1>4, <1>5, <2>2
  <2> QED
    BY <2>1, <2>2
<1>7. ASSUME NEW i \in 1 .. n + 1, NEW j \in 1 .. n + 1, i < j PROVE End(two[i]) <= two[j].logical
  <2>1. i \in 1 .. n /\ two[i] = out[i]
    BY <1>1, <1>2, <1>7
  <2>2. CASE j = n + 1
    BY <1>2, <1>4, <2>1, <2>2
  <2>3. CASE j # n + 1
    <3>1. j \in 1 .. n /\ two[j] = out[j]
      BY <1>1, <1>2, <2>3
    <3> QED
      BY <1>7, <2>1, <3>1 DEF IsMapped, n
  <2> QED
    BY <2>2, <2>3
<1>8. ASSUME NEW l \in s .. Pos(k + 1) - 1, map[BlockOf(l)] # Hole
      PROVE  \E i \in 1 .. n + 1 : l \in two[i].logical .. End(two[i]) - 1
  <2>1. CASE l < Pos(k)
    <3>1. l \in s .. Pos(k) - 1
      BY <1>0, <2>1
    <3>2. PICK i \in 1 .. n : l \in out[i].logical .. End(out[i]) - 1
      BY <1>8, <3>1 DEF IsMapped, n
    <3> QED
      BY <1>1, <1>2, <3>2
  <2>2. CASE ~ (l < Pos(k))
    <3>1. l \in two[n + 1].logical .. End(two[n + 1]) - 1
      BY <1>0, <1>2, <1>3, <2>2
    <3> QED
      BY <1>1, <3>1
  <2> QED
    BY <2>1, <2>2
<1> QED
  BY <1>2, <1>6, <1>7, <1>8 DEF IsMapped, two

LEMMA LongerIsMapped ==
    ASSUME NEW map, NEW s \in Nat, NEW k \in Nat, NEW out, IsMapped(map, s, Pos(k), out), out # <<>>,
           NEW e, e = out[Len(out)], End(e) = Pos(k),
           NEW d, IsExtent(map, d), d.logical = e.logical, d.length = e.length + BlockSize,
           NEW two, two = [out EXCEPT ![Len(out)] = d]
    PROVE  IsMapped(map, s, Pos(k + 1), two) /\ Len(two) = Len(out)
<1> DEFINE n == Len(out)
<1>0. Pos(k) \in Nat /\ Pos(k + 1) \in Nat /\ Pos(k + 1) = Pos(k) + BlockSize /\ k + 1 \in Nat
  BY PosIs, SizeIsPositive
<1>1. out \in Seq(Mapped) /\ n \in Nat \ {0} /\ e \in Mapped /\ d \in Mapped
  BY DEF IsMapped, IsExtent
<1>2. two \in Seq(Mapped) /\ Len(two) = n /\ two[n] = d /\ \A i \in 1 .. n - 1 : two[i] = out[i]
  BY <1>1
<1>3. End(d) = Pos(k + 1) /\ e.logical \in Nat /\ End(e) \in Nat
  <2>1. e.logical \in Nat /\ e.length \in Nat /\ End(e) \in Nat
    BY <1>1, MappedIs
  <2> QED
    BY <1>0, <2>1, SizeIsPositive DEF End
<1>4. \A i \in 1 .. n : /\ IsExtent(map, out[i]) /\ s <= out[i].logical /\ End(out[i]) <= Pos(k)
                        /\ \E b \in Nat : End(out[i]) = Pos(b)
  BY DEF IsMapped
<1>4a. \A i, j \in 1 .. n : i < j => End(out[i]) <= out[j].logical
  BY DEF IsMapped
<1> HIDE DEF n
<1>5. ASSUME NEW i \in 1 .. n PROVE End(out[i]) \in Nat /\ End(out[i]) <= Pos(k + 1)
  <2>1. out[i] \in Mapped /\ End(out[i]) <= Pos(k)
    BY <1>1, <1>4 DEF n
  <2>2. End(out[i]) \in Nat
    BY <2>1, MappedIs
  <2> QED
    BY <1>0, <2>1, <2>2, SizeIsPositive
<1>6. ASSUME NEW i \in 1 .. n
      PROVE  /\ IsExtent(map, two[i]) /\ s <= two[i].logical /\ End(two[i]) <= Pos(k + 1)
             /\ \E b \in Nat : End(two[i]) = Pos(b)
  <2>1. CASE i = n
    <3>1. s <= e.logical
      BY <1>4, <1>1 DEF n
    <3> QED
      <4>1. IsExtent(map, d) /\ s <= d.logical /\ End(d) <= Pos(k + 1) /\ End(d) = Pos(k + 1)
        BY <1>0, <1>3, <3>1
      <4> QED
        BY <1>0, <1>2, <2>1, <4>1
  <2>2. CASE i # n
    BY <1>1, <1>2, <1>4, <1>5, <2>2
  <2> QED
    BY <2>1, <2>2
<1>7. ASSUME NEW i \in 1 .. n, NEW j \in 1 .. n, i < j PROVE End(two[i]) <= two[j].logical
  <2>1. i \in 1 .. n - 1 /\ two[i] = out[i] /\ End(out[i]) <= out[j].logical
    BY <1>1, <1>2, <1>4a, <1>7
  <2>2. CASE j = n
    BY <1>2, <2>1, <2>2 DEF n
  <2>3. CASE j # n
    BY <1>1, <1>2, <2>1, <2>3
  <2> QED
    BY <2>2, <2>3
<1>8. ASSUME NEW l \in s .. Pos(k + 1) - 1, map[BlockOf(l)] # Hole
      PROVE  \E i \in 1 .. n : l \in two[i].logical .. End(two[i]) - 1
  <2>1. CASE l < Pos(k)
    <3>1. l \in s .. Pos(k) - 1
      BY <1>0, <2>1
    <3>2. PICK i \in 1 .. n : l \in out[i].logical .. End(out[i]) - 1
      BY <1>8, <3>1 DEF IsMapped, n
    <3>3. CASE i = n
      <4>1. l \in e.logical .. End(e) - 1 /\ two[i] = d
        BY <1>2, <3>2, <3>3 DEF n
      <4> QED
        BY <1>0, <1>3, <2>1, <4>1
    <3>4. CASE i # n
      BY <1>1, <1>2, <3>2, <3>4
    <3> QED
      BY <3>3, <3>4
  <2>2. CASE ~ (l < Pos(k))
    <3>1. e.logical <= End(e)
      BY <1>1, MappedIs
    <3>2. l \in two[n].logical .. End(two[n]) - 1
      BY <1>0, <1>2, <1>3, <2>2, <3>1
    <3> QED
      BY <1>1, <3>2
  <2> QED
    BY <2>1, <2>2
<1> QED
  BY <1>2, <1>6, <1>7, <1>8 DEF IsMapped, n
------------------------------------------------------------------------------
\* A block pointer from which there are copies, if they have a place.
IsBlock(bp) == bp \in Pointer /\ (bp.plain => bp.dvas # <<>> /\ bp.asize > 0)

LEMMA LowestIs ==
    ASSUME NEW bp, IsBlock(bp), bp.plain
    PROVE  /\ \E i \in DOMAIN bp.dvas : LowestDVA(bp) = bp.dvas[i]
           /\ LowestDVA(bp).vdev \in Nat /\ LowestDVA(bp).offset \in Nat
<1> DEFINE D == bp.dvas
           V == {D[i].vdev : i \in 1 .. Len(D)}
<1>1. D \in Seq([vdev : Nat, offset : Nat]) /\ D # <<>>
  BY DEF IsBlock, Pointer
<1> HIDE DEF D
<1>2. DOMAIN D = 1 .. Len(D) /\ Len(D) \in Nat \ {0} /\ \A i \in 1 .. Len(D) : D[i].vdev \in Nat /\ D[i].offset \in Nat
  <2> DEFINE Copy == [vdev : Nat, offset : Nat]
  <2>1. D \in Seq(Copy)
    BY <1>1
  <2>2. \A c \in Copy : c.vdev \in Nat /\ c.offset \in Nat
    OBVIOUS
  <2> HIDE DEF Copy
  <2>3. DOMAIN D = 1 .. Len(D) /\ Len(D) \in Nat \ {0} /\ \A i \in 1 .. Len(D) : D[i] \in Copy
    BY <1>1, <2>1
  <2> QED
    BY <2>2, <2>3
<1>3. V \subseteq Nat /\ V # {}
  BY <1>2
<1>4. PICK v \in V : \A x \in V : v <= x
  BY <1>3, LeastOf
<1> DEFINE I == {i \in 1 .. Len(D) : D[i].vdev = v}
<1>5. I \subseteq Nat /\ I # {}
  BY <1>2, <1>4
<1>6. PICK m \in I : \A x \in I : m <= x
  BY <1>5, LeastOf
<1>7. m \in DOMAIN D /\ \A j \in DOMAIN D : \/ D[m].vdev < D[j].vdev
                                            \/ D[m].vdev = D[j].vdev /\ m <= j
  <2> SUFFICES ASSUME NEW j \in 1 .. Len(D), ~ (D[m].vdev < D[j].vdev)
               PROVE  D[m].vdev = D[j].vdev /\ m <= j
    BY <1>2
  <2>1. v <= D[j].vdev /\ D[m].vdev = v /\ v \in Nat /\ D[j].vdev \in Nat
    BY <1>2, <1>4, <1>6
  <2>2. D[j].vdev = v
    BY <2>1
  <2>3. j \in I
    BY <2>2
  <2> QED
    BY <1>6, <2>1, <2>2, <2>3
<1>8. \E i \in DOMAIN D : LowestDVA(bp) = D[i]
  BY <1>7 DEF LowestDVA, D
<1> QED
  BY <1>2, <1>8 DEF D

\* The extents from block s on are those of the blocks below p, or there is no room
\* for more.
IsReached(map, s, p, st) ==
    /\ st \in Progress
    /\ Len(st.out) <= ExtentRoom
    /\ \E q \in Nat : /\ s <= q /\ q <= p
                      /\ IsMapped(map, Pos(s), Pos(q), st.out)
                      /\ IF st.full THEN Len(st.out) = ExtentRoom ELSE q = p

LEMMA ReachedStays ==
    ASSUME NEW map, NEW s \in Nat, NEW p \in Nat, NEW r \in Nat, p <= r, NEW st, IsReached(map, s, p, st),
           st.full \/ \A b \in p .. r - 1 : map[b] = Hole
    PROVE  IsReached(map, s, r, st)
<1>1. PICK q \in Nat : /\ s <= q /\ q <= p
                       /\ IsMapped(map, Pos(s), Pos(q), st.out)
                       /\ IF st.full THEN Len(st.out) = ExtentRoom ELSE q = p
  BY DEF IsReached
<1>2. CASE st.full
  <2>1. q <= r
    BY <1>1
  <2> QED
    BY <1>1, <1>2, <2>1 DEF IsReached
<1>3. CASE ~ st.full
  <2>1. q = p /\ s <= r /\ r <= r
    BY <1>1, <1>3
  <2>2. Pos(s) \in Nat /\ Pos(p) \in Nat /\ Pos(r) \in Nat /\ Pos(p) <= Pos(r)
    BY PosIs
  <2>3. ASSUME NEW l \in Pos(p) .. Pos(r) - 1 PROVE map[BlockOf(l)] = Hole
    <3>1. l \in Nat /\ Pos(p) <= l /\ ~ (Pos(r) <= l)
      BY <2>2
    <3>2. BlockOf(l) \in Nat /\ p <= BlockOf(l) /\ ~ (r <= BlockOf(l))
      BY <3>1, BlockOfByte
    <3>3. BlockOf(l) \in p .. r - 1
      BY <3>2
    <3> QED
      BY <1>3, <3>3
  <2>4. IsMapped(map, Pos(s), Pos(r), st.out)
    BY <1>1, <2>1, <2>2, <2>3, HolesAreMapped
  <2> QED
    BY <1>3, <2>1, <2>4 DEF IsReached
<1> QED
  BY <1>2, <1>3

LEMMA ProgressIs ==
    ASSUME NEW st \in Progress
    PROVE  /\ st = [out |-> st.out, uniq |-> st.uniq, full |-> st.full]
           /\ st.out \in Seq(Mapped) /\ st.uniq \in Nat /\ st.full \in BOOLEAN
BY DEF Progress

\* Where the block of a pointer is said to be.
DeviceOf(bp)    == IF bp.plain THEN LowestDVA(bp).vdev ELSE NoVdev
PlaceIn(bp, st) == IF bp.plain THEN LowestDVA(bp).offset ELSE st.uniq
NextUniq(bp, st) == IF bp.plain THEN st.uniq ELSE st.uniq + BlockSize

LEMMA WhereBlockIs ==
    ASSUME NEW bp, IsBlock(bp), NEW st \in Progress
    PROVE  /\ DeviceOf(bp) \in Int /\ PlaceIn(bp, st) \in Nat /\ NextUniq(bp, st) \in Nat
           /\ bp.plain \in BOOLEAN
           /\ bp.plain <=> DeviceOf(bp) # NoVdev
<1>1. bp.plain \in BOOLEAN
  BY DEF IsBlock, Pointer
<1>2. CASE bp.plain
  BY <1>1, <1>2, LowestIs, ProgressIs DEF DeviceOf, PlaceIn, NextUniq, NoVdev
<1>3. CASE ~ bp.plain
  BY <1>1, <1>3, ProgressIs, SizeIsPositive DEF DeviceOf, PlaceIn, NextUniq, NoVdev
<1> QED
  BY <1>2, <1>3

LEMMA OffsetOfBlock ==
    ASSUME NEW k \in Nat
    PROVE  blkid2offset(0, k) = Pos(k)
<1>1. Span[0] = 1
  BY SpanIs
<1>2. k * Span[0] = k
  BY <1>1
<1> QED
  BY <1>2 DEF blkid2offset, Pos

NewExtent(bp, k, st) ==
    [device |-> DeviceOf(bp), physical |-> PlaceIn(bp, st), logical |-> Pos(k),
     length |-> BlockSize, shared |-> bp.plain]

Grown(e) == [e EXCEPT !.length = e.length + BlockSize]

LEMMA MapBPIs ==
    ASSUME NEW bp, IsBlock(bp), NEW k \in Nat, NEW st \in Progress
    PROVE  ZVOL_mapBP(bp, k, st) =
             IF Continues(st.out, DeviceOf(bp), PlaceIn(bp, st), Pos(k))
             THEN [out |-> [st.out EXCEPT ![Len(st.out)] = Grown(st.out[Len(st.out)])],
                   uniq |-> NextUniq(bp, st), full |-> st.full]
             ELSE IF Len(st.out) = ExtentRoom
             THEN [out |-> st.out, uniq |-> NextUniq(bp, st), full |-> TRUE]
             ELSE [out |-> Append(st.out, NewExtent(bp, k, st)), uniq |-> NextUniq(bp, st), full |-> st.full]
<1>1. blkid2offset(0, k) = Pos(k)
  BY OffsetOfBlock
<1>2. /\ st = [out |-> st.out, uniq |-> st.uniq, full |-> st.full]
      /\ st.out \in Seq(Mapped)
  BY ProgressIs
<1> DEFINE C == Continues(st.out, DeviceOf(bp), PlaceIn(bp, st), Pos(k))
           next == [st EXCEPT !.uniq = IF bp.plain THEN @ ELSE @ + BlockSize]
<1>3. next = [out |-> st.out, uniq |-> NextUniq(bp, st), full |-> st.full]
  BY <1>2 DEF NextUniq
<1>4. ZVOL_mapBP(bp, k, st) =
        CASE C -> [next EXCEPT !.out[Len(st.out)].length = @ + BlockSize]
          [] ~ C /\ Len(st.out) = ExtentRoom -> [next EXCEPT !.full = TRUE]
          [] OTHER -> [next EXCEPT !.out = Append(@, NewExtent(bp, k, st))]
  BY <1>1 DEF ZVOL_mapBP, DeviceOf, PlaceIn, NewExtent
<1> HIDE DEF next
<1>5. CASE C
  <2>1. C \in BOOLEAN
    BY DEF Continues
  <2>2. ZVOL_mapBP(bp, k, st) = [next EXCEPT !.out[Len(st.out)].length = @ + BlockSize]
    <3> HIDE DEF C
    <3> QED
      BY <1>4, <1>5
  <2>3. [next EXCEPT !.out[Len(st.out)].length = @ + BlockSize]
          = [out |-> [st.out EXCEPT ![Len(st.out)] = Grown(st.out[Len(st.out)])],
             uniq |-> NextUniq(bp, st), full |-> st.full]
    BY <1>3 DEF Grown
  <2> QED
    BY <1>5, <2>2, <2>3
<1>6. CASE ~ C /\ Len(st.out) = ExtentRoom
  <2>1. ZVOL_mapBP(bp, k, st) = [next EXCEPT !.full = TRUE]
    <3> HIDE DEF C
    <3> QED
      BY <1>4, <1>6
  <2> QED
    BY <1>3, <1>6, <2>1
<1>7. CASE ~ C /\ Len(st.out) # ExtentRoom
  <2>1. ZVOL_mapBP(bp, k, st) = [next EXCEPT !.out = Append(@, NewExtent(bp, k, st))]
    <3> HIDE DEF C
    <3> QED
      BY <1>4, <1>7
  <2> QED
    BY <1>3, <1>7, <2>1
<1> QED
  BY <1>5, <1>6, <1>7
------------------------------------------------------------------------------
LEMMA NewIsExtent ==
    ASSUME NEW map, NEW k \in Nat, NEW bp, bp = map[k], bp # Hole, IsBlock(bp), NEW st \in Progress
    PROVE  IsExtent(map, NewExtent(bp, k, st))
<1> DEFINE e == NewExtent(bp, k, st)
<1>1. /\ DeviceOf(bp) \in Int /\ PlaceIn(bp, st) \in Nat /\ bp.plain \in BOOLEAN
      /\ bp.plain <=> DeviceOf(bp) # NoVdev
  BY WhereBlockIs
<1>2. Pos(k) \in Nat /\ BlockSize \in Nat
  BY PosIs, SizeIsPositive
<1>3. /\ e.device = DeviceOf(bp) /\ e.physical = PlaceIn(bp, st) /\ e.logical = Pos(k)
      /\ e.length = BlockSize /\ e.shared = bp.plain /\ e \in Mapped
  BY <1>1, <1>2 DEF NewExtent, Mapped
<1> HIDE DEF e
<1>4. ASSUME NEW l \in e.logical .. End(e) - 1 PROVE IsPlaceOf(map, e, l)
  <2>1. l \in Pos(k) .. Pos(k) + BlockSize - 1
    BY <1>2, <1>3 DEF End
  <2>2. BlockOf(l) = k /\ OffsetIn(l) = l - Pos(k)
    BY <2>1, ByteInBlock
  <2>3. ASSUME e.shared
        PROVE  /\ e.device = LowestDVA(bp).vdev
               /\ e.physical + (l - e.logical) = LowestDVA(bp).offset + OffsetIn(l)
    BY <1>3, <2>2, <2>3 DEF DeviceOf, PlaceIn
  <2> QED
    BY <1>3, <2>2, <2>3 DEF IsPlaceOf
<1>5. e.length > 0
  BY <1>3, SizeIsPositive
<1> QED
  BY <1>1, <1>3, <1>4, <1>5 DEF IsExtent, e

LEMMA GrownIsExtent ==
    ASSUME NEW map, NEW k \in Nat, NEW bp, bp = map[k], bp # Hole, IsBlock(bp), NEW st \in Progress,
           NEW e, IsExtent(map, e), e.device = DeviceOf(bp), e.physical + e.length = PlaceIn(bp, st),
           End(e) = Pos(k)
    PROVE  /\ IsExtent(map, Grown(e)) /\ Grown(e).logical = e.logical
           /\ Grown(e).length = e.length + BlockSize
<1> DEFINE g == Grown(e)
<1>1. /\ DeviceOf(bp) \in Int /\ PlaceIn(bp, st) \in Nat /\ bp.plain \in BOOLEAN
      /\ bp.plain <=> DeviceOf(bp) # NoVdev
  BY WhereBlockIs
<1>2. Pos(k) \in Nat /\ BlockSize \in Nat
  BY PosIs, SizeIsPositive
<1>3. /\ e \in Mapped /\ e.device \in Int /\ e.physical \in Nat /\ e.logical \in Nat /\ e.length \in Nat
      /\ e.shared \in BOOLEAN /\ (e.shared <=> e.device # NoVdev)
  BY MappedIs DEF IsExtent
<1>4. /\ g.device = e.device /\ g.physical = e.physical /\ g.logical = e.logical
      /\ g.length = e.length + BlockSize /\ g.shared = e.shared /\ g \in Mapped
  BY <1>2, <1>3 DEF Grown, Mapped
<1> HIDE DEF g
<1>5. ASSUME NEW l \in g.logical .. End(g) - 1 PROVE IsPlaceOf(map, g, l)
  <2>0. l \in Int /\ e.logical <= l /\ End(e) = e.logical + e.length /\ l < End(e) + BlockSize
    BY <1>2, <1>3, <1>4 DEF End
  <2>1. CASE l < End(e)
    <3>1. l \in e.logical .. End(e) - 1
      BY <1>3, <2>0, <2>1
    <3>2. IsPlaceOf(map, e, l)
      BY <3>1 DEF IsExtent
    <3> QED
      BY <1>4, <3>2 DEF IsPlaceOf
  <2>2. CASE ~ (l < End(e))
    <3>1. l \in Pos(k) .. Pos(k) + BlockSize - 1
      BY <1>2, <2>0, <2>2
    <3>2. BlockOf(l) = k /\ OffsetIn(l) = l - Pos(k)
      BY <3>1, ByteInBlock
    <3>3. ASSUME g.shared
          PROVE  /\ bp.plain /\ g.device = LowestDVA(bp).vdev
                 /\ g.physical + (l - g.logical) = LowestDVA(bp).offset + OffsetIn(l)
      <4>1. bp.plain
        BY <1>1, <1>3, <1>4, <3>3
      <4>2. e.device = LowestDVA(bp).vdev /\ e.physical + e.length = LowestDVA(bp).offset
        BY <4>1 DEF DeviceOf, PlaceIn
      <4>3. ASSUME NEW phys \in Nat, NEW log \in Nat, NEW len \in Nat, NEW here \in Nat, NEW off \in Nat,
                   phys + len = off, log + len = here
            PROVE  phys + (l - log) = off + (l - here)
        BY <2>0, <4>3
      <4>4. e.physical + (l - e.logical) = LowestDVA(bp).offset + (l - Pos(k))
        <5>1. e.physical \in Nat /\ e.logical \in Nat /\ e.length \in Nat /\ LowestDVA(bp).offset \in Nat
          BY <1>3, <4>1, LowestIs
        <5>2. e.logical + e.length = Pos(k)
          BY DEF End
        <5> QED
          BY <1>2, <4>2, <4>3, <5>1, <5>2
      <4> QED
        BY <1>4, <3>2, <4>1, <4>2, <4>4
    <3> QED
      BY <3>2, <3>3 DEF IsPlaceOf
  <2> QED
    BY <2>1, <2>2
<1>6. g.length > 0
  BY <1>3, <1>4, SizeIsPositive
<1> QED
  BY <1>3, <1>4, <1>5, <1>6 DEF IsExtent, g

\* ZVOL_mapBP adds the block it is called for, or says that there is no room.
LEMMA MapBPReaches ==
    ASSUME NEW map, NEW s \in Nat, NEW k \in Nat, s <= k, NEW bp, bp = map[k], bp # Hole, IsBlock(bp),
           NEW st, IsReached(map, s, k, st), ~ st.full
    PROVE  IsReached(map, s, k + 1, ZVOL_mapBP(bp, k, st))
<1> DEFINE n == Len(st.out)
           e == st.out[n]
           r == ZVOL_mapBP(bp, k, st)
           C == Continues(st.out, DeviceOf(bp), PlaceIn(bp, st), Pos(k))
<1>0. /\ st \in Progress /\ n <= ExtentRoom
      /\ IsMapped(map, Pos(s), Pos(k), st.out)
  BY DEF IsReached
<1>1. /\ st.out \in Seq(Mapped) /\ n \in Nat /\ st.uniq \in Nat /\ st.full = FALSE
      /\ NextUniq(bp, st) \in Nat /\ ExtentRoom \in Nat
  BY <1>0, ProgressIs, WhereBlockIs, ZvolMapAssumption
<1>2. Pos(s) \in Nat /\ Pos(s) <= Pos(k) /\ k + 1 \in Nat /\ s <= k + 1 /\ k <= k + 1
  BY PosIs
<1>3. CASE C
  <2>1. /\ st.out # <<>> /\ e.device = DeviceOf(bp) /\ e.physical + e.length = PlaceIn(bp, st)
        /\ End(e) = Pos(k)
    BY <1>3 DEF Continues, Last, End
  <2>2. n \in 1 .. n /\ IsExtent(map, e)
    <3>1. n \in 1 .. n
      BY <1>1, <2>1
    <3> QED
      BY <1>0, <3>1 DEF IsMapped
  <2> DEFINE two == [st.out EXCEPT ![n] = Grown(e)]
  <2>3. r = [out |-> two, uniq |-> NextUniq(bp, st), full |-> st.full]
    BY <1>0, <1>3, MapBPIs
  <2>4. IsExtent(map, Grown(e)) /\ Grown(e).logical = e.logical /\ Grown(e).length = e.length + BlockSize
    BY <1>0, <2>1, <2>2, GrownIsExtent
  <2>5. IsMapped(map, Pos(s), Pos(k + 1), two) /\ Len(two) = n
    BY <1>0, <1>2, <2>1, <2>2, <2>4, LongerIsMapped
  <2> HIDE DEF two, r
  <2>6. r.out = two /\ r.full = FALSE /\ r \in Progress
    BY <1>1, <2>3, <2>5 DEF IsMapped, Progress
  <2>7. IsReached(map, s, k + 1, r)
    BY <1>0, <1>2, <2>5, <2>6 DEF IsReached
  <2> QED
    BY <2>7 DEF r
<1>4. CASE ~ C /\ n = ExtentRoom
  <2>1. r = [out |-> st.out, uniq |-> NextUniq(bp, st), full |-> TRUE]
    BY <1>0, <1>4, MapBPIs
  <2> HIDE DEF r
  <2>2. r.out = st.out /\ r.full = TRUE /\ r \in Progress
    BY <1>1, <2>1 DEF Progress
  <2>3. IsReached(map, s, k + 1, r)
    BY <1>0, <1>2, <1>4, <2>2 DEF IsReached
  <2> QED
    BY <2>3 DEF r
<1>5. CASE ~ C /\ n # ExtentRoom
  <2> DEFINE x == NewExtent(bp, k, st)
             two == Append(st.out, x)
  <2>1. r = [out |-> two, uniq |-> NextUniq(bp, st), full |-> st.full]
    BY <1>0, <1>5, MapBPIs
  <2>2. IsExtent(map, x) /\ x.logical = Pos(k) /\ x.length = BlockSize
    BY <1>0, NewIsExtent DEF NewExtent
  <2> HIDE DEF x
  <2>3. IsMapped(map, Pos(s), Pos(k + 1), two)
    BY <1>0, <1>2, <2>2, OneMoreIsMapped
  <2>4. Len(two) = n + 1 /\ n + 1 <= ExtentRoom
    <3>1. x \in Mapped
      BY <2>2 DEF IsExtent
    <3> QED
      BY <1>0, <1>1, <1>5, <3>1
  <2> HIDE DEF two, r
  <2>5. r.out = two /\ r.full = FALSE /\ r \in Progress
    BY <1>1, <2>1, <2>3 DEF IsMapped, Progress
  <2>6. IsReached(map, s, k + 1, r)
    BY <1>2, <2>3, <2>4, <2>5 DEF IsReached
  <2> QED
    BY <2>6 DEF r
<1> QED
  BY <1>3, <1>4, <1>5

\* In any case it goes on with a progress.
LEMMA MapBPGoesOn ==
    ASSUME NEW bp, IsBlock(bp), NEW k \in Nat, NEW st \in Progress
    PROVE  ZVOL_mapBP(bp, k, st) \in Progress
<1> DEFINE n == Len(st.out)
           e == st.out[n]
           r == ZVOL_mapBP(bp, k, st)
           C == Continues(st.out, DeviceOf(bp), PlaceIn(bp, st), Pos(k))
<1>1. /\ st.out \in Seq(Mapped) /\ n \in Nat /\ st.uniq \in Nat /\ st.full \in BOOLEAN
      /\ NextUniq(bp, st) \in Nat /\ DeviceOf(bp) \in Int /\ PlaceIn(bp, st) \in Nat /\ bp.plain \in BOOLEAN
  BY ProgressIs, WhereBlockIs
<1>2. CASE C
  <2>1. st.out # <<>>
    BY <1>2 DEF Continues
  <2>2. e \in Mapped /\ n \in 1 .. n
    BY <1>1, <2>1
  <2>3. Grown(e) \in Mapped
    BY <2>2, SizeIsPositive DEF Grown, Mapped
  <2>4. [st.out EXCEPT ![n] = Grown(e)] \in Seq(Mapped)
    BY <1>1, <2>2, <2>3
  <2>5. r = [out |-> [st.out EXCEPT ![n] = Grown(e)], uniq |-> NextUniq(bp, st), full |-> st.full]
    BY <1>2, MapBPIs
  <2> QED
    BY <1>1, <2>4, <2>5 DEF Progress
<1>3. CASE ~ C /\ n = ExtentRoom
  <2>1. r = [out |-> st.out, uniq |-> NextUniq(bp, st), full |-> TRUE]
    BY <1>3, MapBPIs
  <2> QED
    BY <1>1, <2>1 DEF Progress
<1>4. CASE ~ C /\ n # ExtentRoom
  <2>1. NewExtent(bp, k, st) \in Mapped
    BY <1>1, PosIs, SizeIsPositive DEF NewExtent, Mapped
  <2>2. Append(st.out, NewExtent(bp, k, st)) \in Seq(Mapped)
    BY <1>1, <2>1
  <2>3. r = [out |-> Append(st.out, NewExtent(bp, k, st)), uniq |-> NextUniq(bp, st), full |-> st.full]
    BY <1>4, MapBPIs
  <2> QED
    BY <1>1, <2>2, <2>3 DEF Progress
<1> QED
  BY <1>2, <1>3, <1>4
------------------------------------------------------------------------------
\* What each of them keeps, all keep.
LEMMA EachOfKeeps ==
    ASSUME NEW visit, NEW from \in Int, NEW to \in Int, from <= to, NEW I, NEW st \in I[from],
           \A j \in from .. to - 1 : \A x \in I[j] : visit[<<j, x>>] \in I[j + 1]
    PROVE  EachOf(visit, from, to, st) \in I[to]
<1> DEFINE Is(f) == f = [j \in from .. to |-> IF j = from THEN st ELSE visit[<<j - 1, f[j - 1]>>]]
           step == [j \in from + 1 .. to |-> [x \in I[j - 1] |-> visit[<<j - 1, x>>]]]
<1>1. ASSUME NEW j \in from + 1 .. to, NEW x \in I[j - 1] PROVE visit[<<j - 1, x>>] \in I[j]
  <2>1. j - 1 \in from .. to - 1 /\ (j - 1) + 1 = j
    OBVIOUS
  <2> QED
    BY <1>1, <2>1
<1>2. \A j \in from + 1 .. to : step[j] \in [I[j - 1] -> I[j]]
  BY <1>1
<1>3. \A j \in from + 1 .. to : \A x \in I[j - 1] : step[j][x] = visit[<<j - 1, x>>]
  OBVIOUS
<1> HIDE DEF step
<1>4. PICK f : IsIteration(from, to, st, step, f) /\ \A j \in from .. to : f[j] \in I[j]
  BY <1>2, IterationExists
<1>5. Is(f)
  <2>1. f = [j \in from .. to |-> IF j = from THEN st ELSE step[j][f[j - 1]]]
    BY <1>4 DEF IsIteration
  <2>2. ASSUME NEW j \in from .. to PROVE f[j] = IF j = from THEN st ELSE visit[<<j - 1, f[j - 1]>>]
    <3>1. CASE j = from
      BY <2>1, <3>1
    <3>2. CASE j # from
      <4>1. j \in from + 1 .. to /\ j - 1 \in from .. to
        BY <3>2
      <4>2. step[j][f[j - 1]] = visit[<<j - 1, f[j - 1]>>]
        BY <1>3, <1>4, <4>1
      <4> QED
        BY <2>1, <3>2, <4>2
    <3> QED
      BY <3>1, <3>2
  <2>3. f = [j \in from .. to |-> f[j]]
    BY <2>1
  <2> QED
    BY <2>2, <2>3
<1> DEFINE u == CHOOSE g : Is(g)
<1>6. Is(u)
  BY <1>5
<1>7. EachOf(visit, from, to, st) = u[to]
  BY DEF EachOf
<1> HIDE DEF u
<1>8. u[from] = st /\ \A j \in from + 1 .. to : u[j] = visit[<<j - 1, u[j - 1]>>]
  BY <1>6
<1> HIDE DEF Is
<1> DEFINE T == {j \in Int : u[j] \in I[j]}
<1>9. from \in T /\ \A j \in from + 1 .. to : j - 1 \in T => j \in T
  <2>1. u[from] \in I[from]
    BY <1>8
  <2>2. ASSUME NEW j \in from + 1 .. to, u[j - 1] \in I[j - 1] PROVE u[j] \in I[j]
    <3>1. visit[<<j - 1, u[j - 1]>>] \in I[j]
      BY <1>1, <2>2
    <3> QED
      BY <1>8, <3>1
  <2> QED
    BY <2>1, <2>2
<1>10. \A j \in from .. to : j \in T
  <2> HIDE DEF T
  <2> QED
    BY <1>9, Upward
<1>11. to \in T
  BY <1>10
<1> QED
  BY <1>7, <1>11
------------------------------------------------------------------------------
LEMMA ParametersAre ==
    /\ Fanout \in Nat \ {0} /\ MaxLevels \in Nat /\ MaxBlocks \in Nat /\ ExtentRoom \in Nat \ {0}
BY ZvolMapAssumption

LEMMA FanOutIs ==
    ASSUME NEW k \in Nat, NEW n \in Nat, NEW m \in Nat
    PROVE  /\ (k * n) * m = k * (n * m) /\ (k * n + n) * m = (k + 1) * (n * m)
           /\ k * n \in Nat /\ n * m \in Nat
OBVIOUS

\* Where the blocks below a block pointer begin, and end.
First(l, k) == k * Span[l]

LEMMA FirstIs ==
    ASSUME NEW l \in 0 .. MaxLevels, NEW a \in Nat, NEW b \in Nat
    PROVE  /\ First(l, a) \in Nat /\ (a < b => First(l, a) < First(l, b))
           /\ (a <= b => First(l, a) <= First(l, b))
           /\ First(l, 0) = 0
           /\ First(l, a) < First(l, a + 1)
           /\ a <= First(l, a)
<1>1. Span[l] \in Nat \ {0}
  BY SpanIs
<1>2. First(l, a) \in Nat /\ (a < b => First(l, a) < First(l, b)) /\ (a <= b => First(l, a) <= First(l, b))
  BY <1>1, Products DEF First
<1>3. First(l, a + 1) = First(l, a) + Span[l]
  BY <1>1, Products DEF First
<1>4. a <= First(l, a)
  <2>1. \A x \in Nat \ {0} : a <= a * x
    OBVIOUS
  <2> QED
    BY <1>1, <2>1 DEF First
<1>5. First(l, 0) = 0
  BY <1>1 DEF First
<1> QED
  BY <1>1, <1>2, <1>3, <1>4, <1>5

LEMMA LeafIsFirst ==
    ASSUME NEW k \in Nat
    PROVE  First(0, k) = k
BY SpanIs DEF First

\* The blocks below a block pointer are those below its children.
LEMMA ChildrenAre ==
    ASSUME NEW l \in 1 .. MaxLevels, NEW k \in Nat
    PROVE  /\ l - 1 \in 0 .. MaxLevels /\ k * Fanout \in Nat
           /\ First(l - 1, k * Fanout) = First(l, k)
           /\ First(l - 1, k * Fanout + Fanout) = First(l, k + 1)
<1>1. l - 1 \in 0 .. MaxLevels /\ Span[l - 1] \in Nat /\ Span[l] = Fanout * Span[l - 1] /\ Fanout \in Nat
  BY SpanIs, ParametersAre
<1> QED
  BY <1>1, FanOutIs DEF First

LEMMA NumbersAre ==
    ASSUME NEW l \in 0 .. MaxLevels, NEW k
    PROVE  k \in Numbers(l) <=> k \in Nat /\ First(l, k + 1) <= MaxBlocks
<1>1. ASSUME k \in Nat, First(l, k + 1) <= MaxBlocks PROVE k \in 0 .. MaxBlocks
  <2>1. k + 1 <= First(l, k + 1) /\ First(l, k + 1) \in Nat
    BY <1>1, FirstIs
  <2> QED
    BY <1>1, <2>1, ParametersAre
<1> QED
  BY <1>1, ParametersAre DEF Numbers, First

LEMMA ChildrenAreNumbers ==
    ASSUME NEW l \in 1 .. MaxLevels, NEW k \in Numbers(l), NEW j \in k * Fanout .. k * Fanout + Fanout - 1
    PROVE  j \in Numbers(l - 1)
<1>1. l \in 0 .. MaxLevels /\ l - 1 \in 0 .. MaxLevels
  BY ParametersAre
<1>2. k \in Nat /\ First(l, k + 1) <= MaxBlocks
  BY <1>1, NumbersAre
<1>3. k * Fanout \in Nat /\ First(l - 1, k * Fanout + Fanout) = First(l, k + 1)
  BY <1>2, ChildrenAre
<1>4. j \in Nat /\ j + 1 \in Nat /\ k * Fanout + Fanout \in Nat /\ j + 1 <= k * Fanout + Fanout
  BY <1>3, ParametersAre
<1>5. First(l - 1, j + 1) <= First(l - 1, k * Fanout + Fanout) /\ First(l - 1, j + 1) \in Nat
  BY <1>1, <1>4, FirstIs
<1>6. First(l, k + 1) \in Nat
  BY <1>1, <1>2, FirstIs
<1>7. First(l - 1, j + 1) <= MaxBlocks
  BY <1>2, <1>3, <1>5, <1>6, ParametersAre
<1> QED
  BY <1>1, <1>4, <1>7, NumbersAre

LEMMA OffsetIsFirst ==
    ASSUME NEW l \in 0 .. MaxLevels, NEW k \in Nat
    PROVE  blkid2offset(l, k) = Pos(First(l, k))
BY DEF blkid2offset, Pos, First

\* Where the mapping of some block pointers begins.
LEMMA BeginIs ==
    ASSUME NEW l \in 0 .. MaxLevels, NEW first \in Nat, NEW n \in Nat \ {0}, NEW start \in Nat
    PROVE  LET r == Begin(l, first, n, start) IN
           /\ r \in first .. first + n - 1
           /\ r = first \/ Pos(First(l, r)) <= start
           /\ r < first + n - 1 => start < Pos(First(l, r + 1))
<1> DEFINE offs == [i \in 0 .. n - 1 |-> blkid2offset(l, first + i)]
           x == SearchBlock(offs, n, start)
<1>1. \A i \in 0 .. n - 1 : offs[i] = Pos(First(l, first + i)) /\ first + i \in Nat
  BY OffsetIsFirst
<1>2. Begin(l, first, n, start) = first + x
  BY DEF Begin
<1> HIDE DEF offs
<1>3. \A i \in 0 .. n - 1 : offs[i] \in Nat
  BY <1>1, FirstIs, PosIs
<1>4. ASSUME NEW i \in 0 .. n - 1, NEW j \in 0 .. n - 1, i < j PROVE offs[i] < offs[j]
  <2>1. first + i \in Nat /\ first + j \in Nat /\ first + i < first + j
    BY <1>4
  <2>2. /\ First(l, first + i) \in Nat /\ First(l, first + j) \in Nat
        /\ First(l, first + i) < First(l, first + j)
    BY <2>1, FirstIs
  <2>3. Pos(First(l, first + i)) < Pos(First(l, first + j))
    BY <2>2, PosIs
  <2> QED
    BY <1>1, <2>3
<1>5. Increasing(offs, n)
  BY <1>3, <1>4 DEF Increasing
<1>6. IsAt(offs, n, start, x)
  BY <1>5, SearchBlockFinds
<1> HIDE DEF x
<1>7. /\ x \in 0 .. n - 1 /\ (x = 0 \/ offs[x] <= start)
      /\ \A i \in x + 1 .. n - 1 : offs[i] > start
  BY <1>6 DEF IsAt
<1> DEFINE r == first + x
<1>8. r \in first .. first + n - 1 /\ (r = first \/ Pos(First(l, r)) <= start)
  BY <1>1, <1>7
<1>9. ASSUME r < first + n - 1 PROVE start < Pos(First(l, r + 1))
  <2>1. x + 1 \in x + 1 .. n - 1 /\ x + 1 \in 0 .. n - 1 /\ first + (x + 1) = r + 1
    BY <1>7, <1>9
  <2>2. offs[x + 1] > start /\ offs[x + 1] = Pos(First(l, r + 1)) /\ offs[x + 1] \in Nat
    BY <1>1, <1>3, <1>7, <2>1
  <2> QED
    BY <2>2
<1> QED
  BY <1>2, <1>8, <1>9
------------------------------------------------------------------------------
\* ZVOL_mapLevel for one level, when "lower" is that of the level below.
LevelBody(bps, start, l, lower, ks) ==
    LET k == ks[1]
        st == ks[2]
        first == k * Fanout
        from == IF start = 0 THEN first ELSE Begin(l - 1, first, Fanout, start)
    IN  IF bps[l][k] = Hole \/ st.full THEN st
        ELSE IF l = 0 THEN ZVOL_mapBP(bps[l][k], k, st)
        ELSE EachOf(lower, from, first + Fanout, st)

Calling(l) == Numbers(l) \X Progress

IsLevels(bps, start, map) ==
    map = [l \in 0 .. MaxLevels |-> [ks \in Calling(l) |-> LevelBody(bps, start, l, map[l - 1], ks)]]

LEMMA LevelsAreBodies ==
    ASSUME NEW bps, NEW start
    PROVE  ZVOL_mapLevel(bps, start) = CHOOSE map : IsLevels(bps, start, map)
BY DEF ZVOL_mapLevel, IsLevels, LevelBody, Calling

\* The trees of the blocks bps[0].
IsTree(bps, top) ==
    /\ \A k \in Numbers(0) : bps[0][k] = Hole \/ IsBlock(bps[0][k])
    /\ \A l \in 1 .. top : \A k \in Numbers(l) :
         bps[l][k] = Hole => \A b \in First(l, k) .. First(l, k + 1) - 1 : bps[0][b] = Hole

\* Where the children to be mapped begin.
ChildrenFrom(l, k, start) == IF start = 0 THEN k * Fanout ELSE Begin(l - 1, k * Fanout, Fanout, start)

LEMMA FromIs ==
    ASSUME NEW l \in 1 .. MaxLevels, NEW k \in Nat, NEW start \in Nat
    PROVE  LET r == ChildrenFrom(l, k, start)
               first == k * Fanout
           IN  /\ r \in first .. first + Fanout - 1
               /\ r = first \/ Pos(First(l - 1, r)) <= start
               /\ r < first + Fanout - 1 => start < Pos(First(l - 1, r + 1))
<1> DEFINE first == k * Fanout
<1>1. l - 1 \in 0 .. MaxLevels /\ first \in Nat /\ Fanout \in Nat \ {0}
  BY ChildrenAre, ParametersAre
<1>2. CASE start = 0
  <2>1. ChildrenFrom(l, k, start) = first
    BY <1>2 DEF ChildrenFrom
  <2>2. /\ first + 1 \in Nat /\ First(l - 1, first) \in Nat /\ First(l - 1, first + 1) \in Nat
        /\ First(l - 1, first) < First(l - 1, first + 1)
    BY <1>1, FirstIs
  <2>3. 0 < First(l - 1, first + 1)
    BY <2>2
  <2>4. Pos(0) < Pos(First(l - 1, first + 1)) /\ Pos(0) = 0
    BY <2>2, <2>3, PosIs
  <2> HIDE DEF first
  <2>5. first \in first .. first + Fanout - 1
    BY <1>1
  <2> QED
    BY <1>2, <2>1, <2>4, <2>5 DEF first
<1>3. CASE start # 0
  <2>1. ChildrenFrom(l, k, start) = Begin(l - 1, first, Fanout, start)
    BY <1>3 DEF ChildrenFrom
  <2> HIDE DEF first
  <2>2. LET r == Begin(l - 1, first, Fanout, start) IN
           /\ r \in first .. first + Fanout - 1
           /\ r = first \/ Pos(First(l - 1, r)) <= start
           /\ r < first + Fanout - 1 => start < Pos(First(l - 1, r + 1))
    BY <1>1, BeginIs
  <2> QED
    BY <2>1, <2>2 DEF first
<1> QED
  BY <1>2, <1>3

LEMMA BodyIs ==
    ASSUME NEW bps, NEW start, NEW l, NEW lower, NEW k, NEW st
    PROVE  LevelBody(bps, start, l, lower, <<k, st>>) =
             IF bps[l][k] = Hole \/ st.full THEN st
             ELSE IF l = 0 THEN ZVOL_mapBP(bps[l][k], k, st)
             ELSE EachOf(lower, ChildrenFrom(l, k, start), k * Fanout + Fanout, st)
BY DEF LevelBody, ChildrenFrom

LEMMA BodyGoesOn ==
    ASSUME NEW bps, NEW top, IsTree(bps, top), NEW start \in Nat, NEW l \in 0 .. MaxLevels, NEW lower,
           l # 0 => lower \in [Calling(l - 1) -> Progress],
           NEW ks \in Calling(l)
    PROVE  LevelBody(bps, start, l, lower, ks) \in Progress
<1>1. PICK k \in Numbers(l), st \in Progress : ks = <<k, st>>
  BY DEF Calling
<1>2. k \in Nat
  BY NumbersAre
<1>3. CASE bps[l][k] = Hole \/ st.full
  BY <1>1, <1>3, BodyIs
<1>4. CASE ~ (bps[l][k] = Hole \/ st.full) /\ l = 0
  <2>1. IsBlock(bps[l][k])
    BY <1>4 DEF IsTree
  <2> QED
    BY <1>1, <1>2, <1>4, <2>1, BodyIs, MapBPGoesOn
<1>5. CASE ~ (bps[l][k] = Hole \/ st.full) /\ l # 0
  <2> DEFINE from == ChildrenFrom(l, k, start)
             to == k * Fanout + Fanout
             I == [j \in Nat |-> Progress]
  <2>1. l \in 1 .. MaxLevels /\ Fanout \in Nat \ {0}
    BY <1>5, ParametersAre
  <2>2. k * Fanout \in Nat /\ from \in k * Fanout .. k * Fanout + Fanout - 1
    BY <1>2, <2>1, FromIs, ChildrenAre
  <2> HIDE DEF from
  <2>3. from \in Nat /\ to \in Nat /\ from <= to
    BY <2>1, <2>2
  <2>4. ASSUME NEW j \in from .. to - 1, NEW x \in I[j] PROVE lower[<<j, x>>] \in I[j + 1]
    <3>1. j \in k * Fanout .. k * Fanout + Fanout - 1 /\ j \in Nat /\ j + 1 \in Nat
      BY <2>1, <2>2, <2>4
    <3>2. j \in Numbers(l - 1) /\ x \in Progress
      BY <2>1, <3>1, ChildrenAreNumbers
    <3>3. lower[<<j, x>>] \in Progress
      BY <1>5, <3>2 DEF Calling
    <3> QED
      BY <3>1, <3>3
  <2>5. st \in I[from] /\ I[to] = Progress
    BY <2>3
  <2> HIDE DEF I, to
  <2>6. EachOf(lower, from, to, st) \in I[to]
    <3>1. from \in Int /\ to \in Int /\ from <= to
      BY <2>3
    <3>2. \A j \in from .. to - 1 : \A x \in I[j] : lower[<<j, x>>] \in I[j + 1]
      BY <2>4
    <3>3. st \in I[from]
      BY <2>5
    <3> HIDE DEF from
    <3> QED
      BY <3>1, <3>2, <3>3, EachOfKeeps, Zenon
  <2>7. LevelBody(bps, start, l, lower, ks) = EachOf(lower, from, to, st)
    BY <1>1, <1>5, BodyIs DEF from, to
  <2> QED
    BY <2>5, <2>6, <2>7
<1> QED
  BY <1>3, <1>4, <1>5

LEMMA LevelsExist ==
    ASSUME NEW bps, NEW top, IsTree(bps, top), NEW start \in Nat
    PROVE  IsLevels(bps, start, ZVOL_mapLevel(bps, start))
<1> DEFINE B(l, lower) == [ks \in Calling(l) |-> LevelBody(bps, start, l, lower, ks)]
           R == [l \in 0 .. MaxLevels |-> [Calling(l) -> Progress]]
           r0 == B(0, <<>>)
           step == [l \in 1 .. MaxLevels |-> [g \in R[l - 1] |-> B(l, g)]]
<1>0. MaxLevels \in Nat /\ 0 \in Int /\ 0 <= MaxLevels /\ 0 \in 0 .. MaxLevels
  BY ParametersAre
<1>1. r0 \in R[0]
  <2>1. \A ks \in Calling(0) : LevelBody(bps, start, 0, <<>>, ks) \in Progress
    BY <1>0, BodyGoesOn
  <2> QED
    BY <1>0, <2>1
<1>2. ASSUME NEW l \in 1 .. MaxLevels, NEW g \in R[l - 1] PROVE B(l, g) \in R[l]
  <2>1. l \in 0 .. MaxLevels /\ l - 1 \in 0 .. MaxLevels /\ l # 0
    BY <1>0
  <2>2. g \in [Calling(l - 1) -> Progress]
    BY <2>1
  <2>3. \A ks \in Calling(l) : LevelBody(bps, start, l, g, ks) \in Progress
    BY <2>1, <2>2, BodyGoesOn
  <2> QED
    BY <2>1, <2>3
<1>3. \A l \in 1 .. MaxLevels : \A g \in R[l - 1] : step[l][g] = B(l, g)
  OBVIOUS
<1>4. \A l \in 0 + 1 .. MaxLevels : step[l] \in [R[l - 1] -> R[l]]
  <2> HIDE DEF B, R
  <2> QED
    BY <1>2
<1>5. ASSUME NEW x, NEW y PROVE B(0, x) = B(0, y)
  <2>1. \A ks : LevelBody(bps, start, 0, x, ks) = LevelBody(bps, start, 0, y, ks)
    BY DEF LevelBody
  <2> QED
    BY <2>1
<1> HIDE DEF B, R, r0, step
<1>6. PICK f : IsIteration(0, MaxLevels, r0, step, f) /\ \A j \in 0 .. MaxLevels : f[j] \in R[j]
  BY <1>0, <1>1, <1>4, IterationExists
<1>7. f = [j \in 0 .. MaxLevels |-> IF j = 0 THEN r0 ELSE step[j][f[j - 1]]]
  BY <1>6 DEF IsIteration
<1>8. ASSUME NEW l \in 0 .. MaxLevels PROVE f[l] = B(l, f[l - 1])
  <2>1. CASE l = 0
    <3>1. f[l] = B(0, <<>>)
      BY <1>7, <2>1 DEF r0
    <3> QED
      BY <1>5, <2>1, <3>1
  <2>2. CASE l # 0
    <3>1. l \in 1 .. MaxLevels /\ l - 1 \in 0 .. MaxLevels
      BY <1>0, <2>2
    <3> QED
      BY <1>3, <1>6, <1>7, <2>2, <3>1
  <2> QED
    BY <2>1, <2>2
<1>9. f = [l \in 0 .. MaxLevels |-> B(l, f[l - 1])]
  <2>1. f = [l \in 0 .. MaxLevels |-> f[l]]
    BY <1>7
  <2> QED
    BY <1>8, <2>1
<1>10. IsLevels(bps, start, f)
  BY <1>9 DEF IsLevels, B
<1> QED
  BY <1>10, LevelsAreBodies
------------------------------------------------------------------------------
\* How far it is when it comes to a block pointer: not before the block s.
Until(l, k, s) == IF First(l, k) < s THEN s ELSE First(l, k)

LEMMA UntilIs ==
    ASSUME NEW l \in 0 .. MaxLevels, NEW k \in Nat, NEW s \in Nat, s < First(l, k + 1)
    PROVE  /\ Until(l, k, s) \in Nat /\ s <= Until(l, k, s) /\ Until(l, k, s) <= First(l, k + 1)
           /\ First(l, k) <= Until(l, k, s)
           /\ Until(l, k + 1, s) = First(l, k + 1) /\ First(l, k + 1) \in Nat
<1>1. k + 1 \in Nat /\ First(l, k) \in Nat /\ First(l, k + 1) \in Nat /\ First(l, k) < First(l, k + 1)
  BY FirstIs
<1> QED
  BY <1>1 DEF Until

LevelIsRight(bps, s, map, l) ==
    \A k \in Numbers(l) : \A st :
      s < First(l, k + 1) /\ IsReached(bps[0], s, Until(l, k, s), st) =>
        IsReached(bps[0], s, First(l, k + 1), map[l][<<k, st>>])

LEMMA FullOrHole ==
    ASSUME NEW bps, NEW top \in 0 .. MaxLevels, IsTree(bps, top), NEW l \in 0 .. top, NEW k \in Numbers(l),
           NEW s \in Nat, s < First(l, k + 1), NEW st, IsReached(bps[0], s, Until(l, k, s), st),
           bps[l][k] = Hole \/ st.full
    PROVE  IsReached(bps[0], s, First(l, k + 1), st)
<1>0. l \in 0 .. MaxLevels
  BY ParametersAre
<1>1. k \in Nat
  BY <1>0, NumbersAre
<1>2. /\ Until(l, k, s) \in Nat /\ Until(l, k, s) <= First(l, k + 1) /\ First(l, k + 1) \in Nat
      /\ First(l, k) <= Until(l, k, s) /\ First(l, k) \in Nat
  BY <1>0, <1>1, UntilIs, FirstIs
<1>3. CASE st.full
  BY <1>2, <1>3, ReachedStays
<1>4. CASE bps[l][k] = Hole
  <2>1. \A b \in First(l, k) .. First(l, k + 1) - 1 : bps[0][b] = Hole
    <3>1. CASE l = 0
      <4>1. First(l, k) = k /\ First(l, k + 1) = k + 1
        BY <1>1, <3>1, LeafIsFirst
      <4>2. ASSUME NEW b \in First(l, k) .. First(l, k + 1) - 1 PROVE b = k
        BY <1>1, <4>1
      <4>3. bps[0][k] = Hole
        BY <1>4, <3>1
      <4> QED
        BY <4>2, <4>3
    <3>2. CASE l # 0
      <4>1. l \in 1 .. top
        BY <3>2
      <4> QED
        BY <1>4, <4>1 DEF IsTree
    <3> QED
      BY <3>1, <3>2
  <2>2. \A b \in Until(l, k, s) .. First(l, k + 1) - 1 : bps[0][b] = Hole
    BY <1>2, <2>1
  <2> QED
    BY <1>2, <2>2, ReachedStays
<1> QED
  BY <1>3, <1>4

LEMMA LeavesAreRight ==
    ASSUME NEW bps, NEW top \in 0 .. MaxLevels, IsTree(bps, top), NEW s \in Nat, NEW map,
           IsLevels(bps, Pos(s), map)
    PROVE  LevelIsRight(bps, s, map, 0)
<1> SUFFICES ASSUME NEW k \in Numbers(0), NEW st, s < First(0, k + 1), IsReached(bps[0], s, Until(0, k, s), st)
             PROVE  IsReached(bps[0], s, First(0, k + 1), map[0][<<k, st>>])
  BY DEF LevelIsRight
<1>0. 0 \in 0 .. MaxLevels /\ 0 \in 0 .. top
  BY ParametersAre
<1>1. k \in Nat /\ st \in Progress
  BY <1>0, NumbersAre DEF IsReached
<1>2. map[0][<<k, st>>] = LevelBody(bps, Pos(s), 0, map[-1], <<k, st>>)
  <2>1. <<k, st>> \in Calling(0)
    BY <1>1 DEF Calling
  <2>2. map[0] = [ks \in Calling(0) |-> LevelBody(bps, Pos(s), 0, map[0 - 1], ks)]
    BY <1>0 DEF IsLevels
  <2> QED
    BY <2>1, <2>2
<1>3. CASE bps[0][k] = Hole \/ st.full
  BY <1>0, <1>2, <1>3, BodyIs, FullOrHole
<1>4. CASE ~ (bps[0][k] = Hole \/ st.full)
  <2>1. First(0, k + 1) = k + 1 /\ First(0, k) = k /\ k + 1 \in Nat
    BY <1>1, LeafIsFirst
  <2>2. s <= k /\ Until(0, k, s) = k
    BY <1>1, <2>1 DEF Until
  <2>3. IsBlock(bps[0][k])
    BY <1>4 DEF IsTree
  <2>4. IsReached(bps[0], s, k + 1, ZVOL_mapBP(bps[0][k], k, st))
    BY <1>1, <1>4, <2>2, <2>3, MapBPReaches
  <2> QED
    BY <1>2, <1>4, <2>1, <2>4, BodyIs
<1> QED
  BY <1>3, <1>4

\* One level does it right if the one below does.
LEMMA LevelAbove ==
    ASSUME NEW bps, NEW top \in 0 .. MaxLevels, IsTree(bps, top), NEW s \in Nat, NEW map,
           IsLevels(bps, Pos(s), map), NEW l \in 1 .. top, LevelIsRight(bps, s, map, l - 1)
    PROVE  LevelIsRight(bps, s, map, l)
<1> SUFFICES ASSUME NEW k \in Numbers(l), NEW st, s < First(l, k + 1), IsReached(bps[0], s, Until(l, k, s), st)
             PROVE  IsReached(bps[0], s, First(l, k + 1), map[l][<<k, st>>])
  BY DEF LevelIsRight
<1>0. l \in 0 .. MaxLevels /\ l \in 0 .. top /\ l \in 1 .. MaxLevels /\ l # 0 /\ l - 1 \in 0 .. MaxLevels
  BY ParametersAre
<1>1. k \in Nat /\ st \in Progress
  BY <1>0, NumbersAre DEF IsReached
<1> DEFINE start == Pos(s)
           first == k * Fanout
           from == ChildrenFrom(l, k, start)
           to == k * Fanout + Fanout
           lower == map[l - 1]
           I == [j \in Nat |-> {x \in Progress : IsReached(bps[0], s, Until(l - 1, j, s), x)}]
<1>2. map[l][<<k, st>>] = LevelBody(bps, start, l, lower, <<k, st>>)
  <2>1. <<k, st>> \in Calling(l)
    BY <1>1 DEF Calling
  <2>2. map[l] = [ks \in Calling(l) |-> LevelBody(bps, Pos(s), l, map[l - 1], ks)]
    BY <1>0 DEF IsLevels
  <2> QED
    BY <2>1, <2>2
<1>3. CASE bps[l][k] = Hole \/ st.full
  BY <1>0, <1>2, <1>3, BodyIs, FullOrHole
<1>4. CASE ~ (bps[l][k] = Hole \/ st.full)
  <2>0. first \in Nat /\ Fanout \in Nat \ {0} /\ start \in Nat
    BY <1>0, <1>1, ChildrenAre, ParametersAre, PosIs
  <2>1. /\ from \in first .. first + Fanout - 1
        /\ from = first \/ Pos(First(l - 1, from)) <= start
        /\ from < first + Fanout - 1 => start < Pos(First(l - 1, from + 1))
    BY <1>0, <1>1, <2>0, FromIs
  <2>2. First(l - 1, first) = First(l, k) /\ First(l - 1, to) = First(l, k + 1)
    BY <1>0, <1>1, ChildrenAre
  <2> HIDE DEF from
  <2>3. from \in Nat /\ to \in Nat /\ from <= to /\ from + 1 \in Nat /\ from + 1 <= to /\ first <= from
    BY <2>0, <2>1
  <2>4. /\ First(l - 1, from) \in Nat /\ First(l - 1, from + 1) \in Nat /\ First(l - 1, first) \in Nat
        /\ First(l - 1, first) <= First(l - 1, from)
    BY <1>0, <2>0, <2>3, FirstIs
  <2>5. Until(l - 1, from, s) = Until(l, k, s)
    <3>1. CASE from = first
      BY <2>2, <3>1 DEF Until
    <3>2. CASE from # first
      <4>1. First(l - 1, from) <= s
        BY <2>1, <2>4, <3>2, PosIs
      <4>2. First(l, k) <= s
        BY <2>2, <2>4, <4>1
      <4> QED
        BY <2>2, <2>4, <4>1, <4>2 DEF Until
    <3> QED
      BY <3>1, <3>2
  <2>6. ASSUME NEW j \in from .. to - 1 PROVE j \in Nat /\ j + 1 \in Nat /\ s < First(l - 1, j + 1)
    <3>1. j \in Nat /\ j + 1 \in Nat /\ from + 1 <= j + 1
      BY <2>3
    <3>2. s < First(l - 1, from + 1)
      <4>1. CASE from < first + Fanout - 1
        BY <2>1, <2>4, <4>1, PosIs
      <4>2. CASE ~ (from < first + Fanout - 1)
        <5>1. from + 1 = to
          BY <2>0, <2>1, <4>2
        <5> QED
          BY <2>2, <5>1
      <4> QED
        BY <4>1, <4>2
    <3>3. First(l - 1, from + 1) <= First(l - 1, j + 1) /\ First(l - 1, j + 1) \in Nat
      BY <1>0, <2>3, <3>1, FirstIs
    <3> QED
      BY <2>4, <3>1, <3>2, <3>3
  <2>7. ASSUME NEW j \in from .. to - 1, NEW x \in I[j] PROVE lower[<<j, x>>] \in I[j + 1]
    <3>1. j \in Nat /\ j + 1 \in Nat /\ s < First(l - 1, j + 1)
      BY <2>6
    <3>2. j \in Numbers(l - 1)
      <4>1. j \in k * Fanout .. k * Fanout + Fanout - 1
        BY <2>0, <2>1, <2>3
      <4> QED
        BY <1>0, <4>1, ChildrenAreNumbers
    <3>3. IsReached(bps[0], s, Until(l - 1, j, s), x)
      BY <2>7, <3>1
    <3>4. IsReached(bps[0], s, First(l - 1, j + 1), lower[<<j, x>>])
      BY <3>1, <3>2, <3>3 DEF LevelIsRight
    <3>5. Until(l - 1, j + 1, s) = First(l - 1, j + 1)
      BY <1>0, <3>1, UntilIs
    <3>6. lower[<<j, x>>] \in Progress
      BY <3>4 DEF IsReached
    <3> HIDE DEF lower
    <3> QED
      BY <3>1, <3>4, <3>5, <3>6
  <2>8. st \in I[from]
    BY <1>1, <2>3, <2>5
  <2>9. EachOf(lower, from, to, st) \in I[to]
    <3>1. from \in Int /\ to \in Int /\ from <= to
      BY <2>3
    <3>2. \A j \in from .. to - 1 : \A x \in I[j] : lower[<<j, x>>] \in I[j + 1]
      BY <2>7
    <3> HIDE DEF I, to, lower
    <3> QED
      BY <2>8, <3>1, <3>2, EachOfKeeps, Zenon
  <2>10. Until(l - 1, to, s) = First(l, k + 1)
    <3>1. First(l, k + 1) \in Nat
      BY <1>0, <1>1, UntilIs
    <3> QED
      BY <2>2, <3>1 DEF Until
  <2>11. IsReached(bps[0], s, First(l, k + 1), EachOf(lower, from, to, st))
    BY <2>3, <2>9, <2>10
  <2>12. LevelBody(bps, start, l, lower, <<k, st>>) = EachOf(lower, from, to, st)
    BY <1>0, <1>4, BodyIs DEF from
  <2> QED
    BY <1>2, <2>11, <2>12
<1> QED
  BY <1>3, <1>4

LEMMA LevelsAreRight ==
    ASSUME NEW bps, NEW top \in 0 .. MaxLevels, IsTree(bps, top), NEW s \in Nat, NEW map,
           IsLevels(bps, Pos(s), map), NEW l \in 0 .. top
    PROVE  LevelIsRight(bps, s, map, l)
<1> DEFINE T == {x \in Int : LevelIsRight(bps, s, map, x)}
<1>1. 0 \in T
  BY LeavesAreRight
<1>2. ASSUME NEW j \in 0 + 1 .. top, j - 1 \in T PROVE j \in T
  <2>1. j \in 1 .. top
    OBVIOUS
  <2> QED
    BY <1>2, <2>1, LevelAbove
<1> HIDE DEF T
<1>3. \A j \in 0 .. top : j \in T
  BY <1>1, <1>2, Upward, ParametersAre
<1> QED
  BY <1>3 DEF T

\* ZVOL_nextExtents finds what is mapped from a block on, unless there is no room for it.
LEMMA NextExtentsAre ==
    ASSUME NEW dn, NEW top \in 0 .. MaxLevels, dn.nlevels - 1 = top, IsTree(dn.bps, top),
           dn.nblkptr \in Nat \ {0}, First(top, dn.nblkptr) <= MaxBlocks,
           NEW s \in Nat, s < First(top, dn.nblkptr), NEW u \in Nat
    PROVE  IsReached(dn.bps[0], s, First(top, dn.nblkptr), ZVOL_nextExtents(dn, Pos(s), u))
<1> DEFINE n == dn.nblkptr
           bps == dn.bps
           start == Pos(s)
           map == ZVOL_mapLevel(bps, start)
           from == Begin(top, 0, n, start)
           lower == map[top]
           st == [out |-> <<>>, uniq |-> u, full |-> FALSE]
           I == [j \in Nat |-> {x \in Progress : IsReached(bps[0], s, Until(top, j, s), x)}]
<1>0. start \in Nat /\ n \in Nat \ {0} /\ ExtentRoom \in Nat \ {0} /\ MaxBlocks \in Nat
  BY PosIs, ParametersAre
<1>1. IsLevels(bps, start, map)
  BY <1>0, LevelsExist
<1>2. LevelIsRight(bps, s, map, top)
  <2> HIDE DEF map
  <2>1. top \in 0 .. top
    BY ParametersAre
  <2> QED
    BY <1>1, <2>1, LevelsAreRight
<1>3. /\ from \in 0 .. 0 + n - 1
      /\ from = 0 \/ Pos(First(top, from)) <= start
      /\ from < 0 + n - 1 => start < Pos(First(top, from + 1))
  BY <1>0, BeginIs
<1> HIDE DEF map, from, n
<1>4. from \in Nat /\ from <= n /\ from + 1 \in Nat /\ from + 1 <= n
  BY <1>0, <1>3
<1>5. First(top, from) \in Nat /\ First(top, from + 1) \in Nat /\ First(top, 0) = 0
  BY <1>4, FirstIs
<1>6. Until(top, from, s) = s
  <2>1. First(top, from) <= s
    BY <1>3, <1>5, PosIs
  <2> QED
    BY <1>5, <2>1 DEF Until
<1>7. ASSUME NEW j \in from .. n - 1
      PROVE  j \in Nat /\ j + 1 \in Nat /\ s < First(top, j + 1) /\ j \in Numbers(top)
  <2>1. j \in Nat /\ j + 1 \in Nat /\ from + 1 <= j + 1 /\ j + 1 <= n
    BY <1>0, <1>4
  <2>2. s < First(top, from + 1)
    <3>1. CASE from < n - 1
      BY <1>0, <1>3, <1>5, <3>1, PosIs
    <3>2. CASE ~ (from < n - 1)
      <4>1. from + 1 = n
        BY <1>0, <1>3, <3>2
      <4> QED
        BY <4>1 DEF n
    <3> QED
      BY <3>1, <3>2
  <2>3. First(top, from + 1) <= First(top, j + 1) /\ First(top, j + 1) \in Nat /\ First(top, n) \in Nat
        /\ First(top, j + 1) <= First(top, n)
    BY <1>0, <1>4, <2>1, FirstIs
  <2>4. First(top, n) <= MaxBlocks
    BY DEF n
  <2>5. First(top, j + 1) <= MaxBlocks
    BY <1>0, <2>3, <2>4
  <2> QED
    BY <1>5, <2>1, <2>2, <2>3, <2>5, NumbersAre
<1>8. ASSUME NEW j \in from .. n - 1, NEW x \in I[j] PROVE lower[<<j, x>>] \in I[j + 1]
  <2>1. j \in Nat /\ j + 1 \in Nat /\ s < First(top, j + 1) /\ j \in Numbers(top)
    BY <1>7
  <2>2. IsReached(bps[0], s, Until(top, j, s), x)
    BY <1>8, <2>1
  <2>3. IsReached(bps[0], s, First(top, j + 1), lower[<<j, x>>])
    BY <1>2, <2>1, <2>2 DEF LevelIsRight
  <2>4. Until(top, j + 1, s) = First(top, j + 1)
    BY <2>1, UntilIs
  <2>5. lower[<<j, x>>] \in Progress
    BY <2>3 DEF IsReached
  <2> HIDE DEF lower
  <2> QED
    BY <2>1, <2>3, <2>4, <2>5
<1>9. st \in I[from]
  <2>1. st \in Progress /\ st.out = <<>> /\ st.full = FALSE
    BY DEF Progress
  <2>2. IsMapped(bps[0], Pos(s), Pos(s), <<>>)
    BY <1>0, NothingMapped
  <2>3. Len(st.out) <= ExtentRoom
    BY <1>0, <2>1
  <2> HIDE DEF st
  <2>4. IsReached(bps[0], s, s, st)
    BY <2>1, <2>2, <2>3 DEF IsReached
  <2> QED
    BY <1>4, <1>6, <2>1, <2>4
<1>10. EachOf(lower, from, n, st) \in I[n]
  <2>1. from \in Int /\ n \in Int /\ from <= n
    BY <1>0, <1>4
  <2>2. \A j \in from .. n - 1 : \A x \in I[j] : lower[<<j, x>>] \in I[j + 1]
    BY <1>8
  <2> HIDE DEF I, lower, st
  <2> QED
    BY <1>9, <2>1, <2>2, EachOfKeeps, Zenon
<1>11. Until(top, n, s) = First(top, n)
  <2>1. First(top, n) \in Nat /\ s < First(top, n)
    BY <1>0, FirstIs DEF n
  <2> QED
    BY <2>1 DEF Until
<1>12. IsReached(bps[0], s, First(top, n), EachOf(lower, from, n, st))
  <2> HIDE DEF st, lower
  <2> QED
    BY <1>0, <1>10, <1>11
<1>13. ZVOL_nextExtents(dn, start, u) = EachOf(lower, from, n, st)
  BY DEF ZVOL_nextExtents, map, from, n
<1> QED
  BY <1>12, <1>13 DEF n
------------------------------------------------------------------------------
\* What a volume of a given shape may map.
IsBlockMap(m, shape) ==
    /\ \E n \in 0 .. BlocksOf(shape) : m \in [0 .. n - 1 -> Pointer \cup {Hole}]
    /\ \A b \in DOMAIN m : m[b] # Hole => IsBlock(m[b])

IsShape(shape) ==
    /\ shape.nlevels \in 1 .. MaxLevels + 1 /\ shape.nblkptr \in Nat \ {0}
    /\ BlocksOf(shape) <= MaxBlocks

\* The blocks of a file, also those behind its end.
FileBlocks(m) == [b \in Numbers(0) |-> IF b \in DOMAIN m THEN m[b] ELSE Hole]

LEMMA RoomIs ==
    ASSUME NEW shape, IsShape(shape)
    PROVE  /\ shape.nlevels - 1 \in 0 .. MaxLevels
           /\ BlocksOf(shape) = First(shape.nlevels - 1, shape.nblkptr)
           /\ BlocksOf(shape) \in Nat
<1>1. shape.nlevels - 1 \in 0 .. MaxLevels /\ shape.nblkptr \in Nat
  BY ParametersAre DEF IsShape
<1>2. BlocksOf(shape) = First(shape.nlevels - 1, shape.nblkptr)
  BY DEF BlocksOf, First
<1> QED
  BY <1>1, <1>2, FirstIs

LEMMA BlockMapIs ==
    ASSUME NEW shape, IsShape(shape), NEW m, IsBlockMap(m, shape)
    PROVE  \E n \in Nat : /\ n <= BlocksOf(shape) /\ DOMAIN m = 0 .. n - 1
                          /\ Cardinality(DOMAIN m) = n
<1>1. BlocksOf(shape) \in Nat
  BY RoomIs
<1>2. PICK n \in 0 .. BlocksOf(shape) : m \in [0 .. n - 1 -> Pointer \cup {Hole}]
  BY DEF IsBlockMap
<1>3. n \in Nat /\ n <= BlocksOf(shape) /\ DOMAIN m = 0 .. n - 1
  BY <1>1, <1>2
<1>4. Cardinality(0 .. n - 1) = n
  <2>1. Cardinality(0 .. n - 1) = IF 0 <= n - 1 THEN (n - 1) - 0 + 1 ELSE 0
    BY <1>3, FS_Interval
  <2> QED
    BY <1>3, <2>1
<1> QED
  BY <1>3, <1>4

LEMMA LeafNumbers ==
    ASSUME NEW b
    PROVE  b \in Numbers(0) <=> b \in 0 .. MaxBlocks - 1
<1>1. b \in Numbers(0) <=> b \in Nat /\ First(0, b + 1) <= MaxBlocks
  BY NumbersAre, ParametersAre
<1>2. b \in Nat => First(0, b + 1) = b + 1
  BY LeafIsFirst
<1> QED
  BY <1>1, <1>2, ParametersAre

\* The blocks below a block pointer that are not holes.
TreeBlocks(m, l, n) == {b \in DOMAIN m \cap (First(l, n) .. First(l, n + 1) - 1) : m[b] # Hole}

TreeNode(m, l, n) ==
    CASE TreeBlocks(m, l, n) = {} -> Hole
      [] TreeBlocks(m, l, n) # {} /\ l = 0 -> m[n]
      [] OTHER -> "indirect"

LEMMA DNodeIs ==
    ASSUME NEW name
    PROVE  LET shape == volume[name.vol]
               dn == DNode(name)
           IN  /\ dn.nlevels = shape.nlevels /\ dn.nblkptr = shape.nblkptr
               /\ dn.bps = [l \in 0 .. shape.nlevels - 1 |->
                              [n \in Numbers(l) |-> TreeNode(Seen(name), l, n)]]
BY DEF DNode, TreeNode, TreeBlocks, First

LEMMA LeafNode ==
    ASSUME NEW m, NEW b \in Nat
    PROVE  TreeNode(m, 0, b) = IF b \in DOMAIN m THEN m[b] ELSE Hole
<1>1. First(0, b) = b /\ First(0, b + 1) = b + 1
  BY LeafIsFirst
<1>2. \A x : x \in First(0, b) .. First(0, b + 1) - 1 <=> x = b
  BY <1>1
<1>3. TreeBlocks(m, 0, b) = {x \in DOMAIN m : x = b /\ m[x] # Hole}
  BY <1>2 DEF TreeBlocks
<1>4. TreeBlocks(m, 0, b) = {} <=> b \notin DOMAIN m \/ m[b] = Hole
  BY <1>3
<1> QED
  BY <1>4 DEF TreeNode

LEMMA DNodeIsTree ==
    ASSUME NEW name, NEW shape, shape = volume[name.vol], IsShape(shape), NEW m, m = Seen(name),
           IsBlockMap(m, shape), NEW dn, dn = DNode(name)
    PROVE  /\ IsTree(dn.bps, shape.nlevels - 1)
           /\ dn.bps[0] = FileBlocks(m)
           /\ dn.nlevels = shape.nlevels /\ dn.nblkptr = shape.nblkptr
<1> DEFINE top == shape.nlevels - 1
<1>0. top \in 0 .. MaxLevels /\ top \in Nat /\ 0 \in 0 .. top
  BY RoomIs, ParametersAre
<1>1. /\ dn.nlevels = shape.nlevels /\ dn.nblkptr = shape.nblkptr
      /\ dn.bps = [l \in 0 .. top |-> [n \in Numbers(l) |-> TreeNode(m, l, n)]]
  BY DNodeIs
<1> HIDE DEF top
<1>2. \A b \in Numbers(0) : b \in Nat
  BY LeafNumbers, ParametersAre
<1>3. dn.bps[0] = [n \in Numbers(0) |-> TreeNode(m, 0, n)]
  BY <1>0, <1>1
<1>4. \A b \in Numbers(0) : TreeNode(m, 0, b) = IF b \in DOMAIN m THEN m[b] ELSE Hole
  BY <1>2, LeafNode
<1>5. dn.bps[0] = FileBlocks(m)
  BY <1>3, <1>4 DEF FileBlocks
<1>6. \A k \in Numbers(0) : dn.bps[0][k] = Hole \/ IsBlock(dn.bps[0][k])
  BY <1>5 DEF FileBlocks, IsBlockMap
<1>7. ASSUME NEW l \in 1 .. top, NEW k \in Numbers(l), dn.bps[l][k] = Hole,
             NEW b \in First(l, k) .. First(l, k + 1) - 1
      PROVE  dn.bps[0][b] = Hole
  <2>0. l \in 0 .. top /\ l \in 0 .. MaxLevels /\ l # 0
    BY <1>0, ParametersAre
  <2>1. k \in Nat /\ First(l, k + 1) <= MaxBlocks /\ First(l, k) \in Nat /\ First(l, k + 1) \in Nat
    BY <2>0, NumbersAre, FirstIs
  <2>2. b \in Numbers(0)
    BY <2>1, LeafNumbers, ParametersAre
  <2>3. TreeNode(m, l, k) = Hole
    BY <1>1, <1>7, <2>0
  <2>4. TreeBlocks(m, l, k) = {}
    <3>1. Hole # "indirect"
      BY VolumesAssumption
    <3> QED
      BY <2>0, <2>3, <3>1 DEF TreeNode
  <2>5. b \notin DOMAIN m \/ m[b] = Hole
    BY <1>7, <2>4 DEF TreeBlocks
  <2> QED
    BY <1>5, <2>2, <2>5 DEF FileBlocks
<1>8. IsTree(dn.bps, top)
  BY <1>6, <1>7 DEF IsTree
<1> QED
  BY <1>1, <1>5, <1>8 DEF top

\* The extents from block s on, and if there are none, there is nothing.
AreFound(m, shape, s, out) ==
    \E q \in Nat : /\ s <= q /\ q <= BlocksOf(shape)
                   /\ IsMapped(FileBlocks(m), Pos(s), Pos(q), out)
                   /\ out = <<>> => q = BlocksOf(shape)

\* The extents found for a file from one of its blocks on.
LEMMA ExtentsOfFile ==
    ASSUME NEW name, NEW shape, shape = volume[name.vol], IsShape(shape), NEW m, m = Seen(name),
           IsBlockMap(m, shape), NEW s \in Nat, s < Cardinality(DOMAIN m), NEW u \in Nat,
           NEW r, r = ZVOL_nextExtents(DNode(name), Pos(s), u)
    PROVE  r \in Progress /\ AreFound(m, shape, s, r.out)
<1> DEFINE dn == DNode(name)
           top == shape.nlevels - 1
           N == BlocksOf(shape)
<1>1. /\ IsTree(dn.bps, top) /\ dn.bps[0] = FileBlocks(m)
      /\ dn.nlevels = shape.nlevels /\ dn.nblkptr = shape.nblkptr
  BY DNodeIsTree
<1>2. top \in 0 .. MaxLevels /\ N = First(top, shape.nblkptr) /\ N \in Nat
  BY RoomIs
<1>3. shape.nblkptr \in Nat \ {0} /\ N <= MaxBlocks /\ shape.nlevels \in Int
  BY DEF IsShape
<1>4. PICK n \in Nat : n <= N /\ Cardinality(DOMAIN m) = n
  BY BlockMapIs
<1>5. s < N
  BY <1>2, <1>4
<1> HIDE DEF dn, N
<1>6. dn.nlevels - 1 = top
  BY <1>1
<1> HIDE DEF top
<1>7. IsReached(dn.bps[0], s, First(top, dn.nblkptr), ZVOL_nextExtents(dn, Pos(s), u))
  BY <1>1, <1>2, <1>3, <1>5, <1>6, NextExtentsAre
<1>8. IsReached(FileBlocks(m), s, N, r)
  BY <1>1, <1>2, <1>7 DEF dn
<1>9. /\ r \in Progress
      /\ \E q \in Nat : /\ s <= q /\ q <= N
                        /\ IsMapped(FileBlocks(m), Pos(s), Pos(q), r.out)
                        /\ IF r.full THEN Len(r.out) = ExtentRoom ELSE q = N
  BY <1>8 DEF IsReached
<1>10. r.out = <<>> => ~ r.full \/ Len(r.out) # ExtentRoom
  BY ParametersAre
<1> QED
  BY <1>9, <1>10 DEF N, AreFound
------------------------------------------------------------------------------
SizeOf(m) == Pos(Cardinality(DOMAIN m))

LEMMA ContentIs ==
    ASSUME NEW shape, IsShape(shape), NEW m, IsBlockMap(m, shape)
    PROVE  /\ SizeOf(m) \in Nat /\ DOMAIN Content(m) = 0 .. SizeOf(m) - 1
           /\ Cardinality(DOMAIN Content(m)) = SizeOf(m)
           /\ SizeOf(m) <= Pos(BlocksOf(shape))
           /\ \A l \in 0 .. SizeOf(m) - 1 :
                /\ l \in Nat /\ BlockOf(l) \in DOMAIN m /\ BlockOf(l) \in Numbers(0)
                /\ Content(m)[l] = IF m[BlockOf(l)] = Hole THEN Zero ELSE <<m[BlockOf(l)], OffsetIn(l)>>
           /\ \A l \in Nat : BlockOf(l) \in DOMAIN m => l < SizeOf(m)
<1>1. PICK n \in Nat : n <= BlocksOf(shape) /\ DOMAIN m = 0 .. n - 1 /\ Cardinality(DOMAIN m) = n
  BY BlockMapIs
<1>0. BlocksOf(shape) \in Nat /\ BlocksOf(shape) <= MaxBlocks
  BY RoomIs DEF IsShape
<1>2. SizeOf(m) = Pos(n) /\ Pos(n) \in Nat /\ Pos(n) = n * BlockSize
  BY <1>1, PosIs DEF SizeOf, Pos
<1> DEFINE size == SizeOf(m)
<1>3. DOMAIN Content(m) = 0 .. size - 1
  BY <1>1, <1>2 DEF Content
<1> HIDE DEF size
<1>3a. size \in Nat
  BY <1>2 DEF size
<1>4. Cardinality(0 .. size - 1) = size
  <2>1. Cardinality(0 .. size - 1) = IF 0 <= size - 1 THEN (size - 1) - 0 + 1 ELSE 0
    BY <1>3a, FS_Interval
  <2> QED
    BY <1>3a, <2>1
<1>5. size <= Pos(BlocksOf(shape))
  BY <1>0, <1>1, <1>2, PosIs DEF size
<1>6. ASSUME NEW l \in Nat PROVE BlockOf(l) \in DOMAIN m <=> l < size
  <2>1. BlockOf(l) \in Nat /\ (n <= BlockOf(l) <=> Pos(n) <= l)
    BY <1>1, BlockOfByte
  <2>2. BlockOf(l) \in 0 .. n - 1 <=> ~ (n <= BlockOf(l))
    BY <2>1
  <2> QED
    BY <1>1, <1>2, <2>1, <2>2 DEF size
<1>7. ASSUME NEW l \in 0 .. size - 1
      PROVE  /\ l \in Nat /\ BlockOf(l) \in DOMAIN m /\ BlockOf(l) \in Numbers(0)
             /\ Content(m)[l] = IF m[BlockOf(l)] = Hole THEN Zero ELSE <<m[BlockOf(l)], OffsetIn(l)>>
  <2>1. l \in Nat /\ l < size
    BY <1>3a
  <2>2. BlockOf(l) \in 0 .. n - 1
    BY <1>1, <1>6, <2>1
  <2>3. BlockOf(l) \in Numbers(0)
    BY <1>0, <1>1, <2>2, LeafNumbers, ParametersAre
  <2>4. Content(m) = [x \in 0 .. size - 1 |-> IF m[BlockOf(x)] = Hole THEN Zero ELSE <<m[BlockOf(x)], OffsetIn(x)>>]
    BY <1>1, <1>2 DEF Content, size, BlockOf, OffsetIn
  <2> QED
    BY <1>1, <2>1, <2>2, <2>3, <2>4
<1> QED
  BY <1>3, <1>3a, <1>4, <1>5, <1>6, <1>7 DEF size
------------------------------------------------------------------------------
\* The blocks of all volumes at some time, in the kernel or in libzpool: a block that a
\* volume or a snapshot of it has then.
Points(state, v, bp) ==
    /\ bp # Hole
    /\ \/ bp \in Range(state[v])
       \/ \E k \in DOMAIN Snaps(v) : bp \in Range(volume[v].maps[k])

\* No place is used for two blocks.
PlacesAreApart(state) ==
    \A v, w \in DOMAIN volume : volume[v].pool = volume[w].pool =>
      \A bp, bq : Points(state, v, bp) /\ Points(state, w, bq) /\ bp.plain /\ bq.plain /\ bp # bq =>
        Apart(bp, bq)

IsState(state) ==
    /\ state = [v \in DOMAIN volume |-> state[v]]
    /\ \A v \in DOMAIN volume : IsBlockMap(state[v], volume[v])
    /\ PlacesAreApart(state)

World ==
    /\ Given /\ writes \in Nat
    /\ IsState(live)
    /\ \A p \in DOMAIN opened : IsState(opened[p])

LEMMA GivenShapes ==
    ASSUME Given, NEW v \in DOMAIN volume
    PROVE  /\ IsShape(volume[v])
           /\ \A k \in DOMAIN Snaps(v) : k \in DOMAIN volume[v].maps
           /\ Last(volume[v].maps) = volume[v].maps[Len(Snaps(v)) + 1]
           /\ Len(Snaps(v)) + 1 \in DOMAIN volume[v].maps
           /\ \A k \in DOMAIN volume[v].maps : IsBlockMap(volume[v].maps[k], volume[v])
<1>1. PICK c \in Cases : volume = c.volume
  BY DEF Given
<1> DEFINE shape == c.volume[v]
<1>2. /\ shape.nlevels \in 1 .. MaxLevels + 1 /\ shape.nblkptr \in Nat \ {0}
      /\ BlocksOf(shape) <= MaxBlocks
      /\ DOMAIN shape.maps = 1 .. Len(shape.snaps) + 1
      /\ Last(shape.maps) = shape.maps[Len(shape.snaps) + 1]
      /\ \A k \in DOMAIN shape.maps :
              /\ \E n \in 0 .. BlocksOf(shape) : shape.maps[k] \in [0 .. n - 1 -> Pointer \cup {Hole}]
              /\ \A b \in DOMAIN shape.maps[k] :
                   LET bp == shape.maps[k][b] IN
                   bp # Hole /\ bp.plain => bp.dvas # <<>> /\ bp.asize > 0 /\ bp.birth = 0
  BY <1>1, VolumesAssumption
<1> HIDE DEF shape
<1>3. volume[v] = shape /\ Snaps(v) = shape.snaps
  BY <1>1 DEF shape, Snaps
<1>4. Len(Snaps(v)) \in Nat /\ DOMAIN Snaps(v) = 1 .. Len(Snaps(v))
  BY GivenSnapshots
<1>5. ASSUME NEW k \in DOMAIN shape.maps PROVE IsBlockMap(shape.maps[k], shape)
  <2> DEFINE m == shape.maps[k]
  <2>1. PICK n \in 0 .. BlocksOf(shape) : m \in [0 .. n - 1 -> Pointer \cup {Hole}]
    BY <1>2
  <2>2. ASSUME NEW b \in DOMAIN m, m[b] # Hole PROVE IsBlock(m[b])
    <3>1. m[b] \in Pointer
      BY <2>1, <2>2
    <3>2. m[b].plain => m[b].dvas # <<>> /\ m[b].asize > 0
      BY <1>2, <2>2
    <3> QED
      BY <3>1, <3>2 DEF IsBlock
  <2> QED
    BY <2>1, <2>2 DEF IsBlockMap
<1>6. IsShape(shape)
  BY <1>2 DEF IsShape
<1>7. \A k \in DOMAIN Snaps(v) : k \in DOMAIN shape.maps
  BY <1>2, <1>3, <1>4
<1>8. Len(Snaps(v)) + 1 \in DOMAIN shape.maps
  BY <1>2, <1>3, <1>4
<1> QED
  BY <1>2, <1>3, <1>5, <1>6, <1>7, <1>8

\* What volumes and snapshots are named.
Named(name) == name.vol \in DOMAIN volume /\ (name.snap = Self \/ Exists(name.vol, name.snap))

\* Its pool was opened.
IsOpen(name) == volume[name.vol].pool \in DOMAIN opened
Library(name) == opened[volume[name.vol].pool]

LEMMA NamedBlocks ==
    ASSUME World, NEW name, Named(name), IsOpen(name)
    PROVE  /\ IsShape(volume[name.vol]) /\ IsBlockMap(Seen(name), volume[name.vol])
           /\ \A b \in DOMAIN Seen(name) : Seen(name)[b] # Hole => Points(Library(name), name.vol, Seen(name)[b])
<1> DEFINE v == name.vol
           state == Library(name)
<1>0. Given /\ v \in DOMAIN volume /\ IsState(state)
  BY DEF World, Named, IsOpen, Library
<1>1. IsShape(volume[v])
  BY <1>0, GivenShapes
<1>2. CASE name.snap = Self
  <2>1. Seen(name) = state[v]
    BY <1>2 DEF Seen, Library
  <2> HIDE DEF state
  <2>2. \A b \in DOMAIN state[v] : state[v][b] # Hole => Points(state, v, state[v][b])
    BY DEF Points, Range
  <2> QED
    BY <1>0, <1>1, <2>1, <2>2 DEF IsState, state
<1>3. CASE name.snap # Self
  <2>1. Exists(v, name.snap)
    BY <1>3 DEF Named
  <2> DEFINE k == Index(v, name.snap)
             m == volume[v].maps[k]
  <2>2. k \in DOMAIN Snaps(v)
    BY <1>0, <2>1, GivenSnapshots
  <2>3. Seen(name) = m
    BY <1>3 DEF Seen, Blocks
  <2> HIDE DEF k, state
  <2>4. IsBlockMap(m, volume[v])
    BY <1>0, <2>2, GivenShapes
  <2>5. \A b \in DOMAIN m : m[b] # Hole => Points(state, v, m[b])
    BY <2>2 DEF Points, Range
  <2> QED
    BY <1>1, <2>3, <2>4, <2>5 DEF state
<1> QED
  BY <1>2, <1>3

LEMMA InitWorld == Init => World
<1> SUFFICES ASSUME Init PROVE World
  OBVIOUS
<1>1. PICK c \in Cases : volume = c.volume /\ opts = c.opts
  BY DEF Init
<1>2. Given /\ writes = 0 /\ live = [v \in DOMAIN volume |-> Last(volume[v].maps)]
  BY <1>1 DEF Init, Given
<1>3. ASSUME NEW v \in DOMAIN volume
      PROVE  /\ live[v] = volume[v].maps[Len(Snaps(v)) + 1] /\ Len(Snaps(v)) + 1 \in DOMAIN volume[v].maps
             /\ IsBlockMap(live[v], volume[v])
  <2> DEFINE k == Len(Snaps(v)) + 1
  <2>1. live[v] = volume[v].maps[k] /\ k \in DOMAIN volume[v].maps
    BY <1>2, GivenShapes
  <2> HIDE DEF k
  <2>2. IsBlockMap(volume[v].maps[k], volume[v])
    BY <1>2, <2>1, GivenShapes
  <2> QED
    BY <2>1, <2>2 DEF k
<1>4. ASSUME NEW v \in DOMAIN volume, NEW bp, Points(live, v, bp)
      PROVE  \E k \in DOMAIN volume[v].maps : bp \in Range(volume[v].maps[k]) \ {Hole}
  <2>1. CASE bp \in Range(live[v])
    BY <1>3, <1>4, <2>1 DEF Points
  <2>2. CASE bp \notin Range(live[v])
    BY <1>2, <1>4, <2>2, GivenShapes DEF Points
  <2> QED
    BY <2>1, <2>2
<1>5. PlacesAreApart(live)
  <2> SUFFICES ASSUME NEW v \in DOMAIN volume, NEW w \in DOMAIN volume, volume[v].pool = volume[w].pool,
                      NEW bp, NEW bq, Points(live, v, bp), Points(live, w, bq), bp.plain, bq.plain, bp # bq
               PROVE  Apart(bp, bq)
    BY DEF PlacesAreApart
  <2>1. PICK k \in DOMAIN volume[v].maps : bp \in Range(volume[v].maps[k]) \ {Hole}
    BY <1>4
  <2>2. PICK l \in DOMAIN volume[w].maps : bq \in Range(volume[w].maps[l]) \ {Hole}
    BY <1>4
  <2> QED
    BY <1>1, <2>1, <2>2, VolumesAssumption
<1>6. IsState(live)
  BY <1>2, <1>3, <1>5 DEF IsState
<1>7. DOMAIN opened = {}
  BY DEF Init
<1> QED
  BY <1>2, <1>6, <1>7 DEF World

\* What was there at one time was there, whatever is now.
LEMMA SameState ==
    ASSUME UNCHANGED volume
    PROVE  \A state : IsState(state)' <=> IsState(state)
<1>1. \A state : \A v, bp : Points(state, v, bp)' <=> Points(state, v, bp)
  BY DEF Points, Snaps
<1>2. \A state : PlacesAreApart(state)' <=> PlacesAreApart(state)
  BY <1>1 DEF PlacesAreApart
<1> QED
  BY <1>2 DEF IsState

\* The pools that are open stay as they are.
OpenedStays ==
    /\ DOMAIN opened \subseteq DOMAIN opened'
    /\ \A p \in DOMAIN opened : opened'[p] = opened[p]

LEMMA SameWorld ==
    ASSUME World, UNCHANGED <<volume, opts, live, opened, writes>>
    PROVE  World' /\ OpenedStays
<1>1. \A p \in DOMAIN opened : IsState(opened[p])'
  BY SameState DEF World
<1>2. Given' /\ IsState(live)'
  BY SameState DEF World, Given
<1> QED
  BY <1>1, <1>2 DEF World, OpenedStays

\* What is opened is as it is now.
LEMMA OpeningWorld ==
    ASSUME World, UNCHANGED <<volume, opts, live, writes>>, opened' \in {opened, Opening}
    PROVE  World' /\ OpenedStays
<1>1. CASE opened' = opened
  BY <1>1, SameWorld
<1>2. CASE opened' = Opening
  <2>1. /\ DOMAIN opened' = DOMAIN opened \cup {volume[cur.vol].pool}
        /\ \A p \in DOMAIN opened' : opened'[p] = IF p \in DOMAIN opened THEN opened[p] ELSE live
    BY <1>2 DEF Opening
  <2>2. \A p \in DOMAIN opened' : IsState(opened'[p])
    BY <2>1 DEF World
  <2>3. \A p \in DOMAIN opened' : IsState(opened[p])'
    BY <2>2, SameState
  <2>4. Given' /\ IsState(live)'
    BY SameState DEF World, Given
  <2>5. OpenedStays
    BY <2>1 DEF OpenedStays
  <2> QED
    BY <2>3, <2>4, <2>5 DEF World
<1> QED
  BY <1>1, <1>2
------------------------------------------------------------------------------
\* A block that others write.
Written(o) == [dvas |-> <<[vdev |-> 0, offset |-> o]>>, plain |-> TRUE, asize |-> BlockSize, birth |-> writes + 1]

\* They write it to a volume that may be written to, and is not being read.
WritesTo(v, o, b) ==
    /\ v \in DOMAIN volume /\ o \in Offsets /\ b \in DOMAIN live[v]
    /\ ~ readonly[v]
    /\ opts.set_ro \/ \A a \in DOMAIN opts.args : opts.args[a].vol # v
    /\ \A used \in Used(volume[v].pool) : used \cap (o .. o + BlockSize - 1) = {}
    /\ live' = [live EXCEPT ![v][b] = Written(o)]

LEMMA OtherWritesIs ==
    ASSUME OtherWrites
    PROVE  /\ \E v, o, b : WritesTo(v, o, b)
           /\ writes' = writes + 1
           /\ UNCHANGED <<volume, opts, readonly, opened, pc, cur, as_ref, uniq, at, exs, owner, sent>>
BY DEF OtherWrites, WritesTo, Written, send_vars, add_vars

LEMMA WrittenIs ==
    ASSUME World, NEW v, NEW o, NEW b, WritesTo(v, o, b)
    PROVE  /\ IsBlock(Written(o)) /\ Written(o) # Hole /\ Written(o).plain
           /\ Written(o).asize = BlockSize
           /\ DOMAIN Written(o).dvas = {1} /\ Written(o).dvas[1].vdev = 0 /\ Written(o).dvas[1].offset = o
           /\ o \in Nat
           /\ DOMAIN live' = DOMAIN volume
           /\ \A w \in DOMAIN volume : w # v => live'[w] = live[w]
           /\ live'[v] = [live[v] EXCEPT ![b] = Written(o)]
<1>1. o \in Nat /\ writes \in Nat /\ BlockSize \in Nat \ {0}
  BY VolumesAssumption, SizeIsPositive DEF World, WritesTo
<1>2. Written(o) \in Pointer
  BY <1>1 DEF Written, Pointer
<1>3. Written(o) # Hole
  BY <1>2, VolumesAssumption
<1>4. /\ Written(o).plain /\ Written(o).asize = BlockSize
      /\ DOMAIN Written(o).dvas = {1} /\ Written(o).dvas[1].vdev = 0 /\ Written(o).dvas[1].offset = o
      /\ Written(o).dvas # <<>>
  BY DEF Written
<1>5. IsBlock(Written(o))
  BY <1>1, <1>2, <1>4 DEF IsBlock
<1>6. DOMAIN live = DOMAIN volume /\ v \in DOMAIN volume
  BY DEF World, IsState, WritesTo
<1>7. live' = [live EXCEPT ![v][b] = Written(o)]
  BY DEF WritesTo
<1>8. /\ DOMAIN live' = DOMAIN volume
      /\ \A w \in DOMAIN volume : w # v => live'[w] = live[w]
      /\ live'[v] = [live[v] EXCEPT ![b] = Written(o)]
  BY <1>6, <1>7
<1> QED
  BY <1>1, <1>3, <1>4, <1>5, <1>8

\* What is written has a place for itself.
LEMMA WrittenIsApart ==
    ASSUME World, NEW v, NEW o, NEW b, WritesTo(v, o, b), NEW w \in DOMAIN volume,
           volume[w].pool = volume[v].pool, NEW bq, Points(live, w, bq), bq.plain, IsBlock(bq)
    PROVE  Apart(Written(o), bq) /\ Apart(bq, Written(o))
<1> DEFINE N == Written(o)
           p == volume[v].pool
<1> HIDE DEF N
<1>1. /\ DOMAIN N.dvas = {1} /\ N.dvas[1].vdev = 0 /\ N.dvas[1].offset = o /\ N.asize = BlockSize /\ o \in Nat
  BY WrittenIs DEF N
<1>2. bq \in Pointers(p)
  <2> DEFINE Of(x) == Range(live[x]) \cup UNION {Range(volume[x].maps[k]) : k \in DOMAIN Snaps(x)}
  <2>1. w \in {x \in DOMAIN volume : volume[x].pool = p}
    OBVIOUS
  <2>2. bq # Hole /\ bq \in Of(w)
    BY DEF Points
  <2> DEFINE Here == {x \in DOMAIN volume : volume[x].pool = p}
  <2> HIDE DEF Of, Here
  <2>3. bq \in (UNION {Of(x) : x \in Here}) \ {Hole}
    BY <2>1, <2>2 DEF Here
  <2> USE DEF Here
  <2> QED
    BY <2>3 DEF Pointers, Of
<1>3. bq.asize \in Nat \ {0} /\ bq.dvas \in Seq([vdev : Nat, offset : Nat])
  BY DEF IsBlock, Pointer
<1>4. ASSUME NEW j \in DOMAIN bq.dvas, bq.dvas[j].vdev = 0
      PROVE  \/ o + BlockSize <= bq.dvas[j].offset
             \/ bq.dvas[j].offset + bq.asize <= o
  <2> DEFINE d == bq.dvas[j]
             used == d.offset .. d.offset + bq.asize - 1
  <2>1. d \in [vdev : Nat, offset : Nat] /\ d \in {x \in Range(bq.dvas) : x.vdev = 0}
    <3> DEFINE Copy == [vdev : Nat, offset : Nat]
    <3>1. bq.dvas \in Seq(Copy)
      BY <1>3
    <3> HIDE DEF Copy
    <3>2. d \in Copy
      BY <1>4, <3>1
    <3>3. d \in Range(bq.dvas)
      BY <1>4 DEF Range
    <3> QED
      BY <1>4, <3>2, <3>3 DEF Copy
  <2>2. used \in Used(p)
    <3>1. used \in {x.offset .. x.offset + bq.asize - 1 : x \in {y \in Range(bq.dvas) : y.vdev = 0}}
      BY <2>1
    <3> HIDE DEF used, p
    <3> QED
      BY <1>2, <3>1 DEF Used
  <2>3. used \cap (o .. o + BlockSize - 1) = {}
    BY <2>2 DEF WritesTo
  <2>4. d.offset \in Nat
    BY <2>1
  <2>5. ASSUME NEW c \in Nat, NEW n \in Nat \ {0}, NEW e \in Nat, NEW m \in Nat \ {0},
               (c .. c + n - 1) \cap (e .. e + m - 1) = {}
        PROVE  e + m <= c \/ c + n <= e
    <3>1. ~ (c \in c .. c + n - 1 /\ c \in e .. e + m - 1)
      BY <2>5
    <3>2. ~ (e \in c .. c + n - 1 /\ e \in e .. e + m - 1)
      BY <2>5
    <3> QED
      BY <3>1, <3>2
  <2> HIDE DEF d
  <2>6. o + BlockSize <= d.offset \/ d.offset + bq.asize <= o
    BY <1>1, <1>3, <2>3, <2>4, <2>5, SizeIsPositive
  <2> QED
    BY <2>6 DEF d
<1>5. Apart(N, bq)
  BY <1>1, <1>4 DEF Apart
<1>6. Apart(bq, N)
  BY <1>1, <1>4 DEF Apart
<1> QED
  BY <1>5, <1>6 DEF N

LEMMA WritesWorld ==
    ASSUME World, OtherWrites
    PROVE  World'
<1>1. PICK v, o, b : WritesTo(v, o, b)
  BY OtherWritesIs
<1> DEFINE N == Written(o)
<1>2. /\ writes' = writes + 1 /\ volume' = volume /\ opts' = opts /\ writes \in Nat /\ v \in DOMAIN volume
      /\ b \in DOMAIN live[v]
  BY <1>1, OtherWritesIs DEF World, WritesTo
<1>3. /\ IsBlock(N) /\ N # Hole /\ N.plain
      /\ DOMAIN live' = DOMAIN volume
      /\ \A w \in DOMAIN volume : w # v => live'[w] = live[w]
      /\ live'[v] = [live[v] EXCEPT ![b] = N]
  <2>1. World /\ WritesTo(v, o, b)
    BY <1>1
  <2>2. /\ IsBlock(Written(o)) /\ Written(o) # Hole /\ Written(o).plain
        /\ DOMAIN live' = DOMAIN volume
    BY <2>1, WrittenIs
  <2>3. DOMAIN live = DOMAIN volume /\ live' = [live EXCEPT ![v][b] = Written(o)] /\ v \in DOMAIN volume
    BY <2>1 DEF World, IsState, WritesTo
  <2>4. /\ \A w \in DOMAIN volume : w # v => live'[w] = live[w]
        /\ live'[v] = [live[v] EXCEPT ![b] = Written(o)]
    BY <2>3
  <2> QED
    BY <2>2, <2>3, <2>4
<1> HIDE DEF N
<1>4. ASSUME NEW w \in DOMAIN volume
      PROVE  /\ DOMAIN live'[w] = DOMAIN live[w]
             /\ \A x \in DOMAIN live[w] : live'[w][x] = live[w][x] \/ (w = v /\ live'[w][x] = N)
  BY <1>2, <1>3
<1>5. ASSUME NEW w \in DOMAIN volume PROVE IsBlockMap(live'[w], volume[w])
  <2>1. IsBlockMap(live[w], volume[w])
    BY DEF World, IsState
  <2>2. PICK n \in 0 .. BlocksOf(volume[w]) : live[w] \in [0 .. n - 1 -> Pointer \cup {Hole}]
    BY <2>1 DEF IsBlockMap
  <2>3. live'[w] \in [0 .. n - 1 -> Pointer \cup {Hole}]
    <3>1. N \in Pointer
      BY <1>3 DEF IsBlock
    <3>2. CASE w = v
      BY <1>2, <1>3, <2>2, <3>1, <3>2
    <3>3. CASE w # v
      BY <1>3, <2>2, <3>3
    <3> QED
      BY <3>2, <3>3
  <2>4. ASSUME NEW x \in DOMAIN live'[w], live'[w][x] # Hole
        PROVE  IsBlock(live'[w][x])
    BY <1>3, <1>4, <2>1, <2>4 DEF IsBlockMap
  <2> QED
    BY <2>3, <2>4 DEF IsBlockMap
<1>6. ASSUME NEW w \in DOMAIN volume, NEW bp, Points(live, w, bp)'
      PROVE  bp # Hole /\ (Points(live, w, bp) \/ (w = v /\ bp = N))
  <2>1. CASE bp \in Range(live'[w])
    <3>1. PICK x \in DOMAIN live'[w] : bp = live'[w][x]
      BY <2>1 DEF Range
    <3>2. x \in DOMAIN live[w] /\ (bp = live[w][x] \/ (w = v /\ bp = N))
      BY <1>4, <3>1
    <3>3. bp # Hole
      BY <1>6 DEF Points
    <3> QED
      BY <3>2, <3>3 DEF Points, Range
  <2>2. CASE bp \notin Range(live'[w])
    BY <1>2, <1>6, <2>2 DEF Points, Snaps
  <2> QED
    BY <2>1, <2>2
<1>7. ASSUME NEW w \in DOMAIN volume, NEW bp, Points(live, w, bp) PROVE IsBlock(bp)
  <2>1. CASE bp \in Range(live[w])
    BY <1>7, <2>1 DEF World, IsState, IsBlockMap, Points, Range
  <2>2. CASE bp \notin Range(live[w])
    <3>1. PICK k \in DOMAIN Snaps(w) : bp \in Range(volume[w].maps[k])
      BY <1>7, <2>2 DEF Points
    <3>2. IsBlockMap(volume[w].maps[k], volume[w])
      BY <3>1, GivenShapes DEF World
    <3> QED
      BY <1>7, <3>1, <3>2 DEF IsBlockMap, Points, Range
  <2> QED
    BY <2>1, <2>2
<1>8. PlacesAreApart(live)'
  <2> SUFFICES ASSUME NEW u \in DOMAIN volume, NEW w \in DOMAIN volume, volume[u].pool = volume[w].pool,
                      NEW bp, NEW bq, Points(live, u, bp)', Points(live, w, bq)', bp.plain, bq.plain, bp # bq
               PROVE  Apart(bp, bq)
    BY <1>2 DEF PlacesAreApart
  <2>1. (Points(live, u, bp) \/ (u = v /\ bp = N)) /\ (Points(live, w, bq) \/ (w = v /\ bq = N))
    BY <1>6
  <2>2. CASE Points(live, u, bp) /\ Points(live, w, bq)
    BY <2>2 DEF World, IsState, PlacesAreApart
  <2>3. CASE u = v /\ bp = N /\ Points(live, w, bq)
    <3>1. IsBlock(bq)
      BY <1>7, <2>3
    <3> QED
      BY <1>1, <2>3, <3>1, WrittenIsApart DEF N
  <2>4. CASE w = v /\ bq = N /\ Points(live, u, bp)
    <3>1. IsBlock(bp)
      BY <1>7, <2>4
    <3> QED
      BY <1>1, <2>4, <3>1, WrittenIsApart DEF N
  <2> QED
    BY <2>1, <2>2, <2>3, <2>4
<1>9. live' = [w \in DOMAIN volume |-> live'[w]]
  BY <1>1, <1>3 DEF WritesTo
<1>10. Given' /\ writes' \in Nat
  BY <1>2 DEF World, Given
<1>11. IsState(live)'
  BY <1>2, <1>5, <1>8, <1>9 DEF IsState
<1>12. opened' = opened
  BY OtherWritesIs
<1>13. \A p \in DOMAIN opened' : IsState(opened[p])'
  BY <1>2, <1>12, SameState DEF World
<1> QED
  BY <1>10, <1>11, <1>13 DEF World
------------------------------------------------------------------------------
\* Files whose bytes, through all copies, come from what the program has had of them.
Trusted(f) == Uncompressed(f) /\ \A g \in 1 .. f : sent[g].tree = sent[g].map

RightUpto(f, n) ==
    Trusted(f) => \A l \in DOMAIN sent[f].got :
                    l < n => sent[f].got[l] = Content(sent[f].tree)[l]

\* A file is of a volume or a snapshot, as the pool was when it was opened.
IsFile(f) ==
    /\ Named(sent[f].name) /\ IsOpen(sent[f].name)
    /\ sent[f].tree = Seen(sent[f].name)
    /\ IsBlockMap(sent[f].tree, volume[sent[f].name.vol])
    /\ sent[f].got = [l \in 0 .. SizeOf(sent[f].tree) - 1 |-> sent[f].got[l]]

FilesAreRight ==
    \A f \in 1 .. Len(sent) :
      IsFile(f) /\ (sent[f].ended \/ sent[f].ref => RightUpto(f, SizeOf(sent[f].tree)))

\* A physical byte belongs to one that was sent before, which has the place.
IsOwner(x) ==
    LET o  == owner[x]
        f  == sent[o.file]
        bp == f.tree[BlockOf(o.logical)]
    IN  /\ o.file \in 1 .. Len(sent) /\ o.logical \in 0 .. SizeOf(f.tree) - 1
        /\ bp # Hole /\ bp.plain
        /\ x = <<volume[f.name.vol].pool, LowestDVA(bp).vdev, LowestDVA(bp).offset + OffsetIn(o.logical)>>
        /\ pc = "extents" /\ o.file = Len(sent) => o.logical < at
        /\ Trusted(o.file) => f.got[o.logical] = Content(f.tree)[o.logical]

OwnersAreRight == \A x \in DOMAIN owner : IsOwner(x)

\* The extents that are still to be sent are those of the blocks that are not sent.
ReadingIsRight ==
    pc = "extents" =>
      LET f == sent[Len(sent)] IN
      /\ f.map = Blocks(cur) /\ f.ref = as_ref /\ ~ f.ended
      /\ uniq \in Nat /\ at <= SizeOf(f.tree)
      /\ \E s \in Nat, q \in Nat :
           /\ at = Pos(s) /\ q <= BlocksOf(volume[cur.vol])
           /\ IsMapped(FileBlocks(f.tree), at, Pos(q), exs)
      /\ RightUpto(Len(sent), at)

\* What is being read is not written to.
CurrentStays ==
    /\ Working => Named(cur)
    /\ pc \in {"file", "extents"} => IsOpen(cur)
    /\ pc \in {"own", "file", "extents"} /\ IsVol /\ opts.set_ro => readonly[cur.vol]

Holding == World /\ FilesAreRight /\ OwnersAreRight /\ ReadingIsRight /\ CurrentStays
------------------------------------------------------------------------------
LEMMA InitHolding == Init => Holding
<1> SUFFICES ASSUME Init PROVE Holding
  OBVIOUS
<1>1. /\ World /\ sent = <<>> /\ pc = "options" /\ owner = <<>>
  BY InitWorld DEF Init
<1>2. Len(sent) = 0 /\ DOMAIN owner = {}
  BY <1>1
<1> QED
  BY <1>1, <1>2 DEF Holding, FilesAreRight, OwnersAreRight, ReadingIsRight, CurrentStays, Working

LEMMA SentIs ==
    ASSUME Asking
    PROVE  /\ DOMAIN sent = 1 .. Len(sent) /\ Len(sent) \in Nat
           /\ \A f \in 1 .. Len(sent) : DOMAIN sent[f] = {"name", "ref", "map", "tree", "ended", "got"}
           /\ pc = "extents" => Len(sent) \in 1 .. Len(sent) /\ sent[Len(sent)].name = cur
<1>1. sent \in Seq(Range(sent))
  BY DEF Asking, SentType
<1>2. DOMAIN sent = 1 .. Len(sent) /\ Len(sent) \in Nat
  BY <1>1, LenProperties
<1>3. pc = "extents" => sent # <<>> /\ sent[Len(sent)].name = cur
  BY DEF Asking, CurrentIsRight
<1>4. sent # <<>> => Len(sent) \in 1 .. Len(sent)
  BY <1>1, <1>2, LastIsOne
<1> QED
  BY <1>2, <1>3, <1>4 DEF Asking, SentType

LEMMA TrustedBefore ==
    ASSUME NEW f \in Nat, NEW g \in 1 .. f, Trusted(f)
    PROVE  Trusted(g)
<1>1. \A h : h \in 1 .. g => h \in 1 .. f
  OBVIOUS
<1> QED
  BY <1>1 DEF Trusted, Uncompressed

\* What is trusted does not depend on what the receiver has.
LEMMA SameTrust ==
    ASSUME NEW f \in Nat,
           \A g \in 1 .. f : sent'[g].map = sent[g].map /\ sent'[g].tree = sent[g].tree
    PROVE  Trusted(f)' <=> Trusted(f)
<1>1. Uncompressed(f)' <=> Uncompressed(f)
  BY DEF Uncompressed
<1> QED
  BY <1>1 DEF Trusted

LEMMA SameNames ==
    ASSUME UNCHANGED volume
    PROVE  \A name : Named(name)' <=> Named(name)
BY DEF Named, Exists, Snaps

\* What the program has of a volume or snapshot stays as it is.
LEMMA SameSeen ==
    ASSUME UNCHANGED volume, OpenedStays
    PROVE  \A name : IsOpen(name) => IsOpen(name)' /\ Seen(name)' = Seen(name)
BY DEF IsOpen, OpenedStays, Seen, Blocks, Index, Snaps

\* The files before the current one.
LEMMA SameFile ==
    ASSUME UNCHANGED volume, OpenedStays, NEW f \in Nat, f > 0, \A g \in 1 .. f : sent'[g] = sent[g]
    PROVE  /\ IsFile(f) => IsFile(f)'
           /\ Trusted(f)' <=> Trusted(f)
           /\ \A n : RightUpto(f, n)' <=> RightUpto(f, n)
<1>1. f \in 1 .. f /\ sent'[f] = sent[f]
  OBVIOUS
<1>2. Trusted(f)' <=> Trusted(f)
  BY <1>1, SameTrust
<1>3. \A name : Named(name)' <=> Named(name)
  BY SameNames
<1>4. \A name : IsOpen(name) => IsOpen(name)' /\ Seen(name)' = Seen(name)
  BY SameSeen
<1>5. IsFile(f) => IsFile(f)'
  BY <1>1, <1>3, <1>4 DEF IsFile
<1> QED
  BY <1>1, <1>2, <1>5 DEF RightUpto
------------------------------------------------------------------------------
\* A step that sends nothing.
LEMMA NothingSent ==
    ASSUME Asking, FilesAreRight, OwnersAreRight, UNCHANGED <<volume, sent, owner>>, OpenedStays,
           pc' = "extents" => pc = "extents" /\ at' = at
    PROVE  /\ FilesAreRight' /\ OwnersAreRight'
           /\ \A f \in 1 .. Len(sent) : \A n : RightUpto(f, n) => RightUpto(f, n)'
<1>1. \A f \in 1 .. Len(sent) : /\ IsFile(f)'
                                /\ Trusted(f)' <=> Trusted(f)
                                /\ \A n : RightUpto(f, n) => RightUpto(f, n)'
  <2> TAKE f \in 1 .. Len(sent)
  <2>1. f \in Nat /\ f > 0 /\ \A g \in 1 .. f : sent'[g] = sent[g]
    BY SentIs
  <2>2. /\ IsFile(f) => IsFile(f)'
        /\ Trusted(f)' <=> Trusted(f)
        /\ \A n : RightUpto(f, n)' <=> RightUpto(f, n)
    BY <2>1, SameFile
  <2> QED
    BY <2>2 DEF FilesAreRight
<1>2. FilesAreRight'
  BY <1>1 DEF FilesAreRight
<1>3. ASSUME NEW x \in DOMAIN owner PROVE IsOwner(x)'
  <2>1. IsOwner(x)
    BY DEF OwnersAreRight
  <2>2. owner[x].file \in 1 .. Len(sent)
    BY <2>1 DEF IsOwner
  <2>3. Trusted(owner[x].file)' => Trusted(owner[x].file)
    BY <1>1, <2>2
  <2> QED
    BY <2>1, <2>2, <2>3 DEF IsOwner
<1>4. OwnersAreRight'
  BY <1>3 DEF OwnersAreRight
<1> QED
  BY <1>1, <1>2, <1>4

\* The steps that have nothing to do with the current file, or leave it.
LEMMA ElsewhereHolding ==
    ASSUME Asking, Holding, UNCHANGED <<volume, sent, owner>>, World', OpenedStays,
           pc' # "extents", CurrentStays'
    PROVE  Holding'
<1>1. FilesAreRight' /\ OwnersAreRight'
  BY NothingSent DEF Holding
<1> QED
  BY <1>1 DEF Holding, ReadingIsRight

\* The steps that neither open nor read.
LEMMA SameHolding ==
    ASSUME Asking, Holding, UNCHANGED <<volume, opts, live, opened, writes, sent, owner>>,
           pc' # "extents", CurrentStays'
    PROVE  Holding'
<1>1. World' /\ OpenedStays
  BY SameWorld DEF Holding
<1> QED
  BY <1>1, ElsewhereHolding

\* What is open, and the blocks of what is being read, are the same.
LEMMA SameOpen ==
    ASSUME UNCHANGED <<volume, live, opened>>
    PROVE  \A name : /\ IsOpen(name)' <=> IsOpen(name)
                     /\ Blocks(name)' = Blocks(name) /\ Seen(name)' = Seen(name)
BY DEF IsOpen, Blocks, Seen, Index, Snaps

LEMMA UnchangedHolding ==
    ASSUME Asking, Holding, UNCHANGED vars
    PROVE  Holding'
<1>0. UNCHANGED <<volume, opts, live, opened, writes, readonly, sent, owner, pc, at, exs, uniq, cur, as_ref>>
  BY DEF vars, world, add_vars, send_vars
<1>1. /\ World' /\ FilesAreRight' /\ OwnersAreRight'
      /\ \A f \in 1 .. Len(sent) : \A n : RightUpto(f, n) => RightUpto(f, n)'
  BY <1>0, SameWorld, NothingSent DEF Holding
<1>2. ReadingIsRight'
  <2> SUFFICES ASSUME pc = "extents" PROVE ReadingIsRight'
    BY <1>0 DEF ReadingIsRight
  <2>1. Len(sent) \in 1 .. Len(sent)
    BY SentIs
  <2>2. RightUpto(Len(sent), at) => RightUpto(Len(sent), at)'
    BY <1>0, <1>1, <2>1
  <2>3. Blocks(cur)' = Blocks(cur)
    BY <1>0, SameOpen
  <2> QED
    BY <1>0, <2>2, <2>3 DEF Holding, ReadingIsRight
<1>3. CurrentStays'
  BY <1>0, SameNames, SameOpen DEF Holding, CurrentStays, Working, IsVol
<1> QED
  BY <1>1, <1>2, <1>3 DEF Holding
------------------------------------------------------------------------------
\* What is being read is given, and so it is not written to.
LEMMA CurrentIsNotWritten ==
    ASSUME Asking, Holding, OtherWrites, pc = "extents"
    PROVE  Blocks(cur)' = Blocks(cur)
<1>1. PICK v, o, b : WritesTo(v, o, b)
  BY OtherWritesIs
<1>2. volume' = volume /\ v \in DOMAIN volume /\ DOMAIN live = DOMAIN volume /\ cur' = cur
  BY <1>1, OtherWritesIs DEF Holding, World, IsState, WritesTo
<1>3. CASE ~ IsVol
  BY <1>2, <1>3 DEF Blocks, Index, Snaps, IsVol
<1>4. CASE IsVol /\ cur.vol = v
  <2>1. opts.set_ro => readonly[v]
    BY <1>4 DEF Holding, CurrentStays
  <2>2. \A a \in DOMAIN opts.args : opts.args[a].vol # v
    BY <1>1, <2>1 DEF WritesTo
  <2>3. PICK a \in 1 .. Len(Args) : cur \in Meant(Args[a])
    <3>1. cur \in AllMeant
      BY DEF Asking, CurrentIsRight, Working
    <3> QED
      BY <3>1, GivenArgs DEF AllMeant, Asking, Args
  <2>4. cur.vol = Args[a].vol
    BY <2>3 DEF Meant, Snapshot
  <2> QED
    BY <1>4, <2>2, <2>4, GivenArgs DEF Asking, Args
<1>5. CASE IsVol /\ cur.vol # v
  <2>1. cur.vol \in DOMAIN volume
    BY DEF Holding, CurrentStays, Working, Named
  <2>2. live'[cur.vol] = live[cur.vol]
    BY <1>1, <1>2, <1>5, <2>1 DEF WritesTo
  <2> QED
    BY <1>2, <1>5, <2>2 DEF Blocks, IsVol
<1> QED
  BY <1>3, <1>4, <1>5

LEMMA OtherWritesHolding ==
    ASSUME Asking, Holding, OtherWrites
    PROVE  Holding'
<1>1. UNCHANGED <<volume, opts, readonly, opened, pc, cur, as_ref, uniq, at, exs, owner, sent>>
  BY OtherWritesIs
<1>2. OpenedStays
  BY <1>1 DEF OpenedStays
<1>3. /\ FilesAreRight' /\ OwnersAreRight'
      /\ \A f \in 1 .. Len(sent) : \A n : RightUpto(f, n) => RightUpto(f, n)'
  BY <1>1, <1>2, NothingSent DEF Holding
<1>4. ReadingIsRight'
  <2> SUFFICES ASSUME pc = "extents" PROVE ReadingIsRight'
    BY <1>1 DEF ReadingIsRight
  <2>1. Len(sent) \in 1 .. Len(sent)
    BY SentIs
  <2>2. Blocks(cur)' = Blocks(cur)
    BY CurrentIsNotWritten
  <2>3. RightUpto(Len(sent), at)'
    <3>1. RightUpto(Len(sent), at)
      BY DEF Holding, ReadingIsRight
    <3>2. RightUpto(Len(sent), at) => RightUpto(Len(sent), at)'
      BY <1>1, <1>3, <2>1
    <3> QED
      BY <3>1, <3>2
  <2> QED
    BY <1>1, <2>2, <2>3 DEF Holding, ReadingIsRight
<1>5. CurrentStays'
  BY <1>1, SameNames DEF Holding, CurrentStays, Working, IsVol, IsOpen
<1> QED
  BY <1>3, <1>4, <1>5, WritesWorld DEF Holding
------------------------------------------------------------------------------
\* What is known of the current file.
LEMMA CurrentFile ==
    ASSUME Asking, Holding, pc = "extents", NEW m, m = sent[Len(sent)].tree
    PROVE  /\ Named(cur) /\ IsOpen(cur) /\ m = Seen(cur) /\ sent[Len(sent)].map = Blocks(cur)
           /\ IsShape(volume[cur.vol]) /\ IsBlockMap(m, volume[cur.vol])
           /\ Last(sent) = sent[Len(sent)] /\ Size = SizeOf(m) /\ SizeOf(m) \in Nat
           /\ DOMAIN sent[Len(sent)].got = 0 .. SizeOf(m) - 1
           /\ \E n \in Nat : SizeOf(m) = Pos(n) /\ Cardinality(DOMAIN m) = n /\ n <= BlocksOf(volume[cur.vol])
<1>1. Len(sent) \in 1 .. Len(sent) /\ sent[Len(sent)].name = cur
  BY SentIs
<1>2. Named(cur) /\ IsOpen(cur)
  BY DEF Holding, CurrentStays, Working
<1>6. IsFile(Len(sent))
  BY <1>1 DEF Holding, FilesAreRight
<1>3. m = Seen(cur) /\ sent[Len(sent)].map = Blocks(cur)
  BY <1>1, <1>6 DEF Holding, ReadingIsRight, IsFile
<1>4. IsShape(volume[cur.vol]) /\ IsBlockMap(m, volume[cur.vol])
  BY <1>2, <1>3, NamedBlocks DEF Holding
<1>5. Last(sent) = sent[Len(sent)]
  BY DEF Last
<1>7. DOMAIN sent[Len(sent)].got = 0 .. SizeOf(m) - 1
  BY <1>6 DEF IsFile
<1>8. SizeOf(m) \in Nat /\ Cardinality(0 .. SizeOf(m) - 1) = SizeOf(m)
  BY <1>4, ContentIs
<1>9. Size = SizeOf(m)
  BY <1>5, <1>7, <1>8 DEF Size
<1>10. PICK n \in Nat : n <= BlocksOf(volume[cur.vol]) /\ Cardinality(DOMAIN m) = n
  BY <1>4, BlockMapIs
<1>11. SizeOf(m) = Pos(n)
  BY <1>10 DEF SizeOf
<1> QED
  BY <1>2, <1>3, <1>4, <1>5, <1>7, <1>8, <1>9, <1>10, <1>11

LEMMA FileBlocksAre ==
    ASSUME NEW shape, IsShape(shape), NEW m, IsBlockMap(m, shape)
    PROVE  /\ \A l \in 0 .. SizeOf(m) - 1 :
                /\ FileBlocks(m)[BlockOf(l)] = m[BlockOf(l)]
                /\ m[BlockOf(l)] = Hole => Content(m)[l] = Zero
           /\ \A l \in Nat : l < Pos(BlocksOf(shape)) /\ FileBlocks(m)[BlockOf(l)] # Hole => l < SizeOf(m)
<1>1. ASSUME NEW l \in 0 .. SizeOf(m) - 1
      PROVE  /\ FileBlocks(m)[BlockOf(l)] = m[BlockOf(l)]
             /\ m[BlockOf(l)] = Hole => Content(m)[l] = Zero
  BY ContentIs DEF FileBlocks
<1>2. ASSUME NEW l \in Nat, l < Pos(BlocksOf(shape)), FileBlocks(m)[BlockOf(l)] # Hole
      PROVE  l < SizeOf(m)
  <2>1. BlocksOf(shape) \in Nat /\ BlocksOf(shape) <= MaxBlocks
    BY RoomIs DEF IsShape
  <2>2. BlockOf(l) \in Nat /\ (BlocksOf(shape) <= BlockOf(l) <=> Pos(BlocksOf(shape)) <= l)
    BY <2>1, BlockOfByte
  <2>3. Pos(BlocksOf(shape)) \in Nat
    BY <2>1, PosIs
  <2>4. BlockOf(l) \in Numbers(0)
    BY <1>2, <2>1, <2>2, <2>3, LeafNumbers, ParametersAre
  <2>5. BlockOf(l) \in DOMAIN m
    BY <1>2, <2>4 DEF FileBlocks
  <2> QED
    BY <2>5, ContentIs
<1> QED
  BY <1>1, <1>2

\* The next extents.
LEMMA MoreExtents ==
    ASSUME Asking, Holding, pc = "extents", NEW m, m = sent[Len(sent)].tree, at < Size,
           NEW r, r = ZVOL_nextExtents(DNode(cur), at, uniq)
    PROVE  /\ r.uniq \in Nat
           /\ \E s \in Nat, q \in Nat :
                /\ at = Pos(s) /\ q <= BlocksOf(volume[cur.vol])
                /\ IsMapped(FileBlocks(m), at, Pos(q), r.out)
                /\ r.out = <<>> => q = BlocksOf(volume[cur.vol])
<1>1. /\ m = Seen(cur) /\ IsShape(volume[cur.vol]) /\ IsBlockMap(m, volume[cur.vol])
      /\ Size = SizeOf(m)
      /\ \E n \in Nat : SizeOf(m) = Pos(n) /\ Cardinality(DOMAIN m) = n
  BY CurrentFile
<1>2. PICK n \in Nat : SizeOf(m) = Pos(n) /\ Cardinality(DOMAIN m) = n
  BY <1>1
<1>3. PICK s \in Nat : at = Pos(s)
  BY DEF Holding, ReadingIsRight
<1>4. uniq \in Nat
  BY DEF Holding, ReadingIsRight
<1>5. s < n
  BY <1>1, <1>2, <1>3, PosIs
<1>6. r = ZVOL_nextExtents(DNode(cur), Pos(s), uniq)
  BY <1>3
<1>7. r \in Progress /\ AreFound(m, volume[cur.vol], s, r.out)
  <2>1. PICK name : name = cur
    OBVIOUS
  <2>2. PICK shape : shape = volume[name.vol]
    OBVIOUS
  <2>3. PICK u \in Nat : u = uniq
    BY <1>4
  <2>4. IsShape(shape) /\ IsBlockMap(m, shape) /\ m = Seen(name)
    BY <1>1, <2>1, <2>2
  <2>5. s < Cardinality(DOMAIN m)
    BY <1>2, <1>5
  <2>6. r = ZVOL_nextExtents(DNode(name), Pos(s), u)
    BY <1>6, <2>1, <2>3
  <2>7. r \in Progress /\ AreFound(m, shape, s, r.out)
    BY <2>2, <2>4, <2>5, <2>6, ExtentsOfFile
  <2> QED
    BY <2>1, <2>2, <2>7
<1>8. r.uniq \in Nat
  BY <1>7 DEF Progress
<1>9. PICK q \in Nat : /\ q <= BlocksOf(volume[cur.vol])
                       /\ IsMapped(FileBlocks(m), Pos(s), Pos(q), r.out)
                       /\ r.out = <<>> => q = BlocksOf(volume[cur.vol])
  <2>1. BlocksOf(volume[cur.vol]) \in Nat
    BY <1>1, RoomIs
  <2>2. \A x \in Nat : Pos(x) \in Nat
    BY PosIs
  <2> QED
    BY <1>7, <2>1, <2>2 DEF AreFound
<1> QED
  BY <1>3, <1>8, <1>9

LEMMA NextExtentsHolding ==
    ASSUME Asking, Holding, NextExtents
    PROVE  Holding'
<1> DEFINE r == ZVOL_nextExtents(DNode(cur), at, uniq)
           m == sent[Len(sent)].tree
<1>1. /\ pc = "extents" /\ at < Size /\ exs' = r.out /\ uniq' = r.uniq
      /\ UNCHANGED <<volume, opts, live, opened, writes, readonly, sent, owner, pc, at, cur, as_ref>>
  BY DEF NextExtents, world, add_vars
<1> HIDE DEF r
<1>2. /\ r.uniq \in Nat
      /\ \E s \in Nat, q \in Nat :
           /\ at = Pos(s) /\ q <= BlocksOf(volume[cur.vol])
           /\ IsMapped(FileBlocks(m), at, Pos(q), r.out)
  BY <1>1, MoreExtents DEF r
<1>3. /\ World' /\ FilesAreRight' /\ OwnersAreRight'
      /\ \A f \in 1 .. Len(sent) : \A n : RightUpto(f, n) => RightUpto(f, n)'
  BY <1>1, SameWorld, NothingSent DEF Holding
<1>4. Blocks(cur)' = Blocks(cur) /\ (RightUpto(Len(sent), at) => RightUpto(Len(sent), at)')
  <2>1. Len(sent) \in 1 .. Len(sent)
    BY <1>1, SentIs
  <2> QED
    BY <1>1, <1>3, <2>1, SameOpen
<1>5. ReadingIsRight'
  BY <1>1, <1>2, <1>4 DEF Holding, ReadingIsRight
<1>6. CurrentStays'
  BY <1>1, SameNames, SameOpen DEF Holding, CurrentStays, Working, IsVol
<1> QED
  BY <1>3, <1>5, <1>6 DEF Holding
------------------------------------------------------------------------------
\* A file begins with nothing, or is a reference, of which all is known.
LEMMA OpenHolding ==
    ASSUME Asking, Holding, ZVOL_open
    PROVE  Holding'
<1> DEFINE shape == volume[cur.vol]
<1>m. PICK m : m = Seen(cur)
  OBVIOUS
<1>n. PICK n : n = Len(sent)
  OBVIOUS
<1>1. PICK file : /\ sent' = Append(sent, file)
                  /\ file = [name |-> cur, ref |-> as_ref, map |-> Blocks(cur), tree |-> m,
                             ended |-> FALSE,
                             got |-> IF as_ref THEN Content(m) ELSE [l \in DOMAIN Content(m) |-> None]]
  BY <1>m DEF ZVOL_open
<1>2. /\ UNCHANGED <<volume, opts, live, opened, writes, readonly, owner, cur, as_ref>>
      /\ pc = "file" /\ pc' = "extents" /\ uniq' = 0 /\ at' = 0 /\ exs' = <<>>
  BY DEF ZVOL_open, world, add_vars
<1>3. /\ n \in Nat /\ Len(sent') = n + 1
      /\ \A k \in 1 .. n : sent'[k] = sent[k]
      /\ sent'[n + 1] = file
  BY <1>1, <1>n, Appended DEF Asking, SentType
<1>4. Named(cur) /\ IsOpen(cur)
  BY <1>2 DEF Holding, CurrentStays, Working
<1>4a. World' /\ OpenedStays
  BY <1>2, SameWorld DEF Holding
<1>5. IsShape(shape) /\ IsBlockMap(m, shape)
  BY <1>m, <1>4, NamedBlocks DEF Holding
<1>6. SizeOf(m) \in Nat /\ DOMAIN Content(m) = 0 .. SizeOf(m) - 1
  BY <1>5, ContentIs
<1>7. file.name = cur /\ file.ref = as_ref /\ file.map = Blocks(cur) /\ file.tree = m /\ file.ended = FALSE
  BY <1>1
<1>8. /\ file.got = [l \in 0 .. SizeOf(m) - 1 |-> file.got[l]]
      /\ as_ref => file.got = Content(m)
  <2>1. Content(m) = [l \in DOMAIN Content(m) |-> Content(m)[l]]
    BY DEF Content
  <2>2. file.got = IF as_ref THEN Content(m) ELSE [l \in DOMAIN Content(m) |-> None]
    BY <1>1
  <2> QED
    BY <1>6, <2>1, <2>2
<1>9. Blocks(cur)' = Blocks(cur) /\ Seen(cur)' = m /\ IsOpen(cur)'
  <2>1. \A name : /\ IsOpen(name)' <=> IsOpen(name)
                  /\ Blocks(name)' = Blocks(name) /\ Seen(name)' = Seen(name)
    BY <1>2, SameOpen
  <2> QED
    BY <1>m, <1>2, <1>4, <2>1
<1>10. \A f \in 1 .. n + 1 : f \in 1 .. n \/ f = n + 1
  BY <1>3
<1>11. ASSUME NEW f \in 1 .. n
       PROVE  /\ sent'[f] = sent[f]
              /\ IsFile(f) => IsFile(f)'
              /\ Trusted(f)' <=> Trusted(f)
              /\ \A k : RightUpto(f, k)' <=> RightUpto(f, k)
  <2>1. f \in Nat /\ f > 0 /\ \A g \in 1 .. f : sent'[g] = sent[g]
    BY <1>3
  <2>2. /\ IsFile(f) => IsFile(f)'
        /\ Trusted(f)' <=> Trusted(f)
        /\ \A k : RightUpto(f, k)' <=> RightUpto(f, k)
    BY <1>2, <1>4a, <2>1, SameFile
  <2> QED
    BY <1>3, <2>2
<1>13. IsFile(n + 1)'
  <2>1. Named(cur)'
    BY <1>2, <1>4, SameNames
  <2> QED
    BY <1>2, <1>3, <1>5, <1>7, <1>8, <1>9, <2>1 DEF IsFile
<1>14. \A k : as_ref => RightUpto(n + 1, k)'
  BY <1>3, <1>7, <1>8 DEF RightUpto
<1>15. FilesAreRight'
  <2> SUFFICES ASSUME NEW f \in 1 .. n + 1
               PROVE  /\ IsFile(f)'
                      /\ sent'[f].ended \/ sent'[f].ref => RightUpto(f, SizeOf(sent[f].tree))'
    BY <1>3 DEF FilesAreRight
  <2>1. CASE f \in 1 .. n
    BY <1>n, <1>11, <2>1 DEF Holding, FilesAreRight
  <2>2. CASE f = n + 1
    <3>1. ~ sent'[f].ended /\ (sent'[f].ref => as_ref)
      BY <1>3, <1>7, <2>2
    <3> QED
      BY <1>13, <1>14, <2>2, <3>1
  <2> QED
    BY <1>10, <2>1, <2>2
<1>16. OwnersAreRight'
  <2> SUFFICES ASSUME NEW x \in DOMAIN owner PROVE IsOwner(x)'
    BY <1>2 DEF OwnersAreRight
  <2>1. IsOwner(x)
    BY DEF Holding, OwnersAreRight
  <2>2. owner[x].file \in 1 .. n
    BY <1>n, <2>1 DEF IsOwner
  <2>3. /\ sent'[owner[x].file] = sent[owner[x].file]
        /\ Trusted(owner[x].file)' <=> Trusted(owner[x].file)
    BY <1>2, <1>11, <2>2
  <2>4. owner[x].file \in 1 .. Len(sent') /\ owner[x].file # Len(sent')
    BY <1>3, <2>2
  <2> QED
    BY <1>2, <2>1, <2>3, <2>4 DEF IsOwner
<1>17. ReadingIsRight'
  <2>1. RightUpto(n + 1, 0)'
    <3>1. \A l \in DOMAIN file.got : ~ (l < 0)
      BY <1>6, <1>8
    <3> QED
      BY <1>3, <3>1 DEF RightUpto
  <2>2. IsMapped(FileBlocks(m), Pos(0), Pos(0), <<>>) /\ Pos(0) = 0
    BY NothingMapped, PosIs
  <2>3. 0 <= BlocksOf(shape)
    BY <1>5, RoomIs
  <2>4. \E s \in Nat, q \in Nat : /\ at' = Pos(s) /\ q <= BlocksOf(shape)
                                 /\ IsMapped(FileBlocks(m), at', Pos(q), exs')
    <3>1. 0 \in Nat
      OBVIOUS
    <3> QED
      BY <1>2, <2>2, <2>3, <3>1
  <2>5. at' <= SizeOf(m) /\ uniq' \in Nat
    BY <1>2, <1>6
  <2>6. Len(sent') = n + 1 /\ sent'[n + 1] = file
    BY <1>3
  <2> QED
    BY <1>2, <1>7, <1>9, <2>1, <2>4, <2>5, <2>6 DEF ReadingIsRight
<1>18. CurrentStays'
  <2>1. Named(cur)'
    BY <1>2, <1>4, SameNames
  <2> QED
    BY <1>2, <1>9, <2>1 DEF Holding, CurrentStays, Working, IsVol
<1> QED
  BY <1>4a, <1>15, <1>16, <1>17, <1>18 DEF Holding
------------------------------------------------------------------------------
\* What is left is a hole.
LEMMA RestIsHole ==
    ASSUME Asking, Holding, pc = "extents", NEW m, m = sent[Len(sent)].tree,
           at = Size \/ ZVOL_nextExtents(DNode(cur), at, uniq).out = <<>>
    PROVE  \A l \in 0 .. SizeOf(m) - 1 : l < at \/ Content(m)[l] = Zero
<1>1. /\ IsShape(volume[cur.vol]) /\ IsBlockMap(m, volume[cur.vol])
      /\ Size = SizeOf(m) /\ SizeOf(m) \in Nat
  BY CurrentFile
<1>2. at <= SizeOf(m)
  BY DEF Holding, ReadingIsRight
<1>3. PICK s \in Nat : at = Pos(s)
  BY DEF Holding, ReadingIsRight
<1>4. at \in Nat
  BY <1>3, PosIs
<1> SUFFICES ASSUME NEW l \in 0 .. SizeOf(m) - 1, ~ (l < at) PROVE Content(m)[l] = Zero
  OBVIOUS
<1>5. at < Size /\ l \in Nat
  BY <1>1, <1>4
<1> DEFINE r == ZVOL_nextExtents(DNode(cur), at, uniq)
<1>6. r.out = <<>>
  BY <1>1, <1>5
<1>7. \E p \in Nat, q \in Nat :
         /\ at = Pos(p) /\ q <= BlocksOf(volume[cur.vol])
         /\ IsMapped(FileBlocks(m), at, Pos(q), r.out)
         /\ r.out = <<>> => q = BlocksOf(volume[cur.vol])
  BY <1>5, MoreExtents
<1> HIDE DEF r
<1>8. IsMapped(FileBlocks(m), at, Pos(BlocksOf(volume[cur.vol])), <<>>)
  BY <1>6, <1>7
<1>9. Pos(BlocksOf(volume[cur.vol])) \in Nat /\ SizeOf(m) <= Pos(BlocksOf(volume[cur.vol]))
  <2>1. BlocksOf(volume[cur.vol]) \in Nat
    BY <1>1, RoomIs
  <2> QED
    BY <1>1, <2>1, PosIs, ContentIs
<1>10. l \in at .. Pos(BlocksOf(volume[cur.vol])) - 1
  BY <1>1, <1>4, <1>5, <1>9
<1>11. FileBlocks(m)[BlockOf(l)] = Hole
  BY <1>8, <1>10 DEF IsMapped
<1>12. m[BlockOf(l)] = Hole
  BY <1>1, <1>11, FileBlocksAre
<1> QED
  BY <1>1, <1>12, FileBlocksAre
------------------------------------------------------------------------------
\* A step that changes what the receiver has of the current file.
LEMMA FileChanged ==
    ASSUME Asking, Holding, pc = "extents", UNCHANGED volume, OpenedStays,
           NEW f, f = Len(sent), Len(sent') = f,
           \A g \in 1 .. f - 1 : sent'[g] = sent[g],
           sent'[f].name = sent[f].name, sent'[f].map = sent[f].map, sent'[f].tree = sent[f].tree,
           sent'[f].got = [l \in DOMAIN sent[f].got |-> sent'[f].got[l]]
    PROVE  /\ \A g \in 1 .. f : IsFile(g)' /\ (Trusted(g)' <=> Trusted(g))
           /\ \A g \in 1 .. f - 1 : \A k : RightUpto(g, k) => RightUpto(g, k)'
<1>1. f \in Nat /\ f \in 1 .. f /\ \A g \in 1 .. f : g \in 1 .. f - 1 \/ g = f
  BY SentIs
<1>2. \A g \in 1 .. f : /\ sent'[g].name = sent[g].name /\ sent'[g].map = sent[g].map
                        /\ sent'[g].tree = sent[g].tree
  BY <1>1
<1>3. ASSUME NEW g \in 1 .. f PROVE Trusted(g)' <=> Trusted(g)
  <2>1. g \in Nat /\ \A h \in 1 .. g : sent'[h].map = sent[h].map /\ sent'[h].tree = sent[h].tree
    BY <1>1, <1>2
  <2> QED
    BY <2>1, SameTrust
<1>4. ASSUME NEW g \in 1 .. f PROVE IsFile(g)'
  <2>1. IsFile(g)
    BY DEF Holding, FilesAreRight
  <2>2. sent'[g].got = [l \in DOMAIN sent[g].got |-> sent'[g].got[l]]
    <3>1. CASE g = f
      BY <3>1
    <3>2. CASE g \in 1 .. f - 1
      BY <2>1, <3>2 DEF IsFile
    <3> QED
      BY <1>1, <3>1, <3>2
  <2>3. DOMAIN sent[g].got = 0 .. SizeOf(sent[g].tree) - 1
    BY <2>1 DEF IsFile
  <2>4. \A name : Named(name)' <=> Named(name)
    BY SameNames
  <2>5. \A name : IsOpen(name) => IsOpen(name)' /\ Seen(name)' = Seen(name)
    BY SameSeen
  <2> QED
    BY <1>2, <2>1, <2>2, <2>3, <2>4, <2>5 DEF IsFile
<1>5. \A g \in 1 .. f - 1 : g \in 1 .. f
  BY <1>1
<1>6. \A g \in 1 .. f - 1 : \A k : RightUpto(g, k) => RightUpto(g, k)'
  BY <1>3, <1>5 DEF RightUpto
<1> QED
  BY <1>3, <1>4, <1>6

LEMMA SentLength ==
    ASSUME Asking', NEW f \in Nat, DOMAIN sent' = 1 .. f
    PROVE  Len(sent') = f
<1>1. sent' \in Seq(Range(sent'))
  BY DEF Asking, SentType
<1>2. Len(sent') \in Nat /\ 1 .. Len(sent') = 1 .. f
  BY <1>1, LenProperties
<1> QED
  BY <1>2

LEMMA EndFileHolding ==
    ASSUME Asking, Holding, EndFile
    PROVE  Holding'
<1> DEFINE got == sent[Len(sent)].got
<1>1. /\ UNCHANGED <<volume, opts, live, opened, writes, readonly, owner, cur, as_ref, at>>
      /\ pc = "extents" /\ pc' = "revert"
      /\ at = Size \/ ZVOL_nextExtents(DNode(cur), at, uniq).out = <<>>
      /\ sent' = [sent EXCEPT ![Len(sent)].ended = TRUE,
                              ![Len(sent)].got = [l \in DOMAIN @ |-> IF as_ref \/ l < at THEN @[l] ELSE Zero]]
  BY DEF EndFile, world, add_vars
<1>n. PICK f : f = Len(sent)
  OBVIOUS
<1>m. PICK m : m = sent[f].tree
  OBVIOUS
<1>2. /\ f \in 1 .. f /\ f \in Nat /\ DOMAIN sent = 1 .. f
      /\ DOMAIN sent[f] = {"name", "ref", "map", "tree", "ended", "got"}
  BY <1>1, <1>n, SentIs
<1>3. /\ DOMAIN sent' = 1 .. f
      /\ \A g \in 1 .. f - 1 : sent'[g] = sent[g]
      /\ sent'[f].name = sent[f].name /\ sent'[f].map = sent[f].map /\ sent'[f].tree = m
      /\ sent'[f].got = [l \in DOMAIN sent[f].got |-> IF as_ref \/ l < at THEN sent[f].got[l] ELSE Zero]
  <2> DEFINE old == sent[f]
             t   == [sent EXCEPT ![f].ended = TRUE]
             now == [l \in DOMAIN old.got |-> IF as_ref \/ l < at THEN old.got[l] ELSE Zero]
  <2>1. t = [sent EXCEPT ![f] = [old EXCEPT !.ended = TRUE]]
    OBVIOUS
  <2>2. DOMAIN t = 1 .. f /\ t[f] = [old EXCEPT !.ended = TRUE] /\ \A g \in 1 .. f - 1 : t[g] = sent[g]
    BY <1>2, <2>1
  <2>3. t[f].got = old.got
    BY <1>2, <2>2
  <2>4. sent' = [t EXCEPT ![f].got = [l \in DOMAIN t[f].got |-> IF as_ref \/ l < at THEN t[f].got[l] ELSE Zero]]
    BY <1>1, <1>n
  <2> HIDE DEF t
  <2>5. sent' = [t EXCEPT ![f] = [t[f] EXCEPT !.got = now]]
    BY <2>3, <2>4
  <2> HIDE DEF now
  <2>6. DOMAIN sent' = 1 .. f /\ sent'[f] = [t[f] EXCEPT !.got = now] /\ \A g \in 1 .. f - 1 : sent'[g] = t[g]
    BY <1>2, <2>2, <2>5
  <2>7. sent'[f] = [[old EXCEPT !.ended = TRUE] EXCEPT !.got = now]
    BY <2>2, <2>6
  <2>8. /\ sent'[f].name = old.name /\ sent'[f].map = old.map /\ sent'[f].tree = old.tree
        /\ sent'[f].got = now
    BY <1>2, <2>7
  <2> QED
    BY <1>m, <2>2, <2>6, <2>8 DEF now
<1>4. Len(sent') = f
  BY <1>2, <1>3, EndFileAsking, SentLength
<1>4a. World' /\ OpenedStays
  BY <1>1, SameWorld DEF Holding
<1>5. /\ \A g \in 1 .. f : IsFile(g)' /\ (Trusted(g)' <=> Trusted(g))
      /\ \A g \in 1 .. f - 1 : \A k : RightUpto(g, k) => RightUpto(g, k)'
  BY <1>1, <1>3, <1>4, <1>4a, <1>n, <1>m, FileChanged
<1>6. /\ SizeOf(m) \in Nat /\ DOMAIN sent[f].got = 0 .. SizeOf(m) - 1
  BY <1>1, <1>n, <1>m, CurrentFile
<1>7. \A l \in 0 .. SizeOf(m) - 1 : l < at \/ Content(m)[l] = Zero
  BY <1>1, <1>n, <1>m, RestIsHole
<1>8. ASSUME Trusted(f), NEW l \in 0 .. SizeOf(m) - 1
      PROVE  sent'[f].got[l] = Content(m)[l]
  <2>1. CASE l < at
    <3>1. sent[f].got[l] = Content(m)[l]
      BY <1>1, <1>6, <1>8, <1>m, <1>n, <2>1 DEF Holding, ReadingIsRight, RightUpto
    <3> QED
      BY <1>3, <1>6, <2>1, <3>1
  <2>2. CASE as_ref
    <3>1. RightUpto(f, SizeOf(m))
      BY <1>1, <1>2, <1>m, <1>n, <2>2 DEF Holding, ReadingIsRight, FilesAreRight
    <3>2. l < SizeOf(m)
      BY <1>6
    <3>3. sent[f].got[l] = Content(m)[l]
      BY <1>6, <1>8, <1>m, <3>1, <3>2 DEF RightUpto
    <3> QED
      BY <1>3, <1>6, <2>2, <3>3
  <2>3. CASE ~ (l < at) /\ ~ as_ref
    BY <1>3, <1>6, <1>7, <2>3
  <2> QED
    BY <2>1, <2>2, <2>3
<1>9. \A k : RightUpto(f, k)'
  BY <1>2, <1>3, <1>5, <1>6, <1>8 DEF RightUpto
<1>10. FilesAreRight'
  <2> SUFFICES ASSUME NEW g \in 1 .. f
               PROVE  /\ IsFile(g)'
                      /\ sent'[g].ended \/ sent'[g].ref => RightUpto(g, SizeOf(sent[g].tree))'
    BY <1>4 DEF FilesAreRight
  <2>1. CASE g = f
    BY <1>5, <1>9, <2>1
  <2>2. CASE g \in 1 .. f - 1
    BY <1>3, <1>5, <1>n, <2>2 DEF Holding, FilesAreRight
  <2> QED
    BY <1>2, <2>1, <2>2
<1>11. OwnersAreRight'
  <2> SUFFICES ASSUME NEW x \in DOMAIN owner PROVE IsOwner(x)'
    BY <1>1 DEF OwnersAreRight
  <2>1. IsOwner(x)
    BY DEF Holding, OwnersAreRight
  <2>2. owner[x].file \in 1 .. f
    BY <1>n, <2>1 DEF IsOwner
  <2>3. CASE owner[x].file = f
    <3>1. owner[x].logical \in 0 .. SizeOf(m) - 1 /\ owner[x].logical < at
      BY <1>1, <1>m, <1>n, <2>1, <2>3 DEF IsOwner
    <3>2. sent'[f].got[owner[x].logical] = sent[f].got[owner[x].logical]
      BY <1>3, <1>6, <3>1
    <3>3. /\ sent'[owner[x].file].tree = sent[owner[x].file].tree
          /\ sent'[owner[x].file].name = sent[owner[x].file].name
          /\ sent'[owner[x].file].got[owner[x].logical] = sent[owner[x].file].got[owner[x].logical]
      BY <1>3, <1>m, <2>3, <3>2
    <3>4. Trusted(owner[x].file)' <=> Trusted(owner[x].file)
      BY <1>1, <1>2, <1>5, <2>3
    <3>5. owner'[x] = owner[x] /\ volume' = volume /\ pc' # "extents" /\ Len(sent') = Len(sent)
      BY <1>1, <1>4, <1>n
    <3> QED
      BY <2>1, <3>3, <3>4, <3>5 DEF IsOwner
  <2>4. CASE owner[x].file \in 1 .. f - 1
    BY <1>1, <1>3, <1>4, <1>5, <1>n, <2>1, <2>2, <2>4 DEF IsOwner
  <2> QED
    BY <1>2, <2>2, <2>3, <2>4
<1>12. ReadingIsRight' /\ CurrentStays'
  BY <1>1 DEF Holding, ReadingIsRight, CurrentStays, Working
<1> QED
  BY <1>4a, <1>10, <1>11, <1>12 DEF Holding
------------------------------------------------------------------------------
\* The first of some extents, and the others.
LEMMA FirstIsMapped ==
    ASSUME NEW map, NEW start \in Nat, NEW upto \in Nat, NEW out, IsMapped(map, start, upto, out), out # <<>>,
           NEW e, e = Head(out)
    PROVE  /\ IsExtent(map, e) /\ start <= e.logical /\ End(e) <= upto
           /\ \E b \in Nat : End(e) = Pos(b)
           /\ \A l \in start .. e.logical - 1 : map[BlockOf(l)] = Hole
           /\ IsMapped(map, End(e), upto, Tail(out))
<1> DEFINE rest == Tail(out)
<1>1. out \in Seq(Mapped) /\ Len(out) \in Nat \ {0} /\ out[1] = e
  BY EmptySeq, LenProperties DEF IsMapped
<1>2. /\ rest \in Seq(Mapped) /\ Len(rest) = Len(out) - 1
      /\ \A i \in 1 .. Len(rest) : rest[i] = out[i + 1]
  <2> DEFINE S == Mapped
  <2> HIDE DEF S
  <2>1. out \in Seq(S) /\ out # <<>>
    BY <1>1 DEF S
  <2>2. /\ Tail(out) \in Seq(S) /\ Len(Tail(out)) = Len(out) - 1
        /\ \A i \in 1 .. Len(Tail(out)) : Tail(out)[i] = out[i + 1]
    BY <2>1, HeadTailProperties
  <2> QED
    BY <2>2 DEF S
<1> HIDE DEF rest
<1>3. 1 \in 1 .. Len(out) /\ \A i \in 1 .. Len(rest) : i + 1 \in 1 .. Len(out) /\ 1 < i + 1
  BY <1>1, <1>2
<1>4. /\ IsExtent(map, e) /\ start <= e.logical /\ End(e) <= upto
      /\ \E b \in Nat : End(e) = Pos(b)
  BY <1>1, <1>3 DEF IsMapped
<1>5. e \in Mapped /\ e.logical \in Nat /\ End(e) \in Nat /\ e.logical <= End(e)
  BY <1>4, MappedIs DEF IsExtent
<1>6. \A i \in 1 .. Len(out) : out[i] \in Mapped /\ out[i].logical \in Nat
  BY <1>1, MappedIs, ElementOfSeq
<1>7. \A i \in 1 .. Len(out) : i = 1 \/ End(e) <= out[i].logical
  BY <1>1, <1>3 DEF IsMapped
<1>8. ASSUME NEW l \in start .. e.logical - 1 PROVE map[BlockOf(l)] = Hole
  <2>1. l \in start .. upto - 1
    BY <1>4, <1>5
  <2>2. ASSUME NEW i \in 1 .. Len(out), l \in out[i].logical .. End(out[i]) - 1 PROVE FALSE
    <3>1. CASE i = 1
      BY <1>1, <1>5, <2>2, <3>1
    <3>2. CASE i # 1
      BY <1>5, <1>6, <1>7, <2>2, <3>2
    <3> QED
      BY <3>1, <3>2
  <2> QED
    BY <2>1, <2>2 DEF IsMapped
<1>9. IsMapped(map, End(e), upto, rest)
  <2>1. ASSUME NEW i \in 1 .. Len(rest)
        PROVE  /\ IsExtent(map, rest[i]) /\ End(e) <= rest[i].logical /\ End(rest[i]) <= upto
               /\ \E b \in Nat : End(rest[i]) = Pos(b)
    <3>1. i + 1 \in 1 .. Len(out) /\ rest[i] = out[i + 1] /\ i + 1 # 1
      BY <1>2, <1>3
    <3>2. End(e) <= out[i + 1].logical
      BY <1>7, <3>1
    <3> QED
      BY <3>1, <3>2 DEF IsMapped
  <2>2. ASSUME NEW i \in 1 .. Len(rest), NEW j \in 1 .. Len(rest), i < j
        PROVE  End(rest[i]) <= rest[j].logical
    <3>1. i + 1 \in 1 .. Len(out) /\ j + 1 \in 1 .. Len(out) /\ i + 1 < j + 1
      BY <1>3, <2>2
    <3>2. End(out[i + 1]) <= out[j + 1].logical
      BY <3>1 DEF IsMapped
    <3> QED
      BY <1>2, <3>2
  <2>3. ASSUME NEW l \in End(e) .. upto - 1, map[BlockOf(l)] # Hole
        PROVE  \E i \in 1 .. Len(rest) : l \in rest[i].logical .. End(rest[i]) - 1
    <3>1. l \in start .. upto - 1
      BY <1>4, <1>5
    <3>2. PICK i \in 1 .. Len(out) : l \in out[i].logical .. End(out[i]) - 1
      BY <2>3, <3>1 DEF IsMapped
    <3>3. i # 1
      BY <1>1, <1>5, <3>2
    <3>4. i - 1 \in 1 .. Len(rest) /\ rest[i - 1] = out[i]
      <4>1. i - 1 \in 1 .. Len(rest) /\ (i - 1) + 1 = i
        BY <1>1, <1>2, <3>3
      <4> QED
        BY <1>2, <4>1
    <3> QED
      BY <3>2, <3>4
  <2> QED
    BY <1>2, <2>1, <2>2, <2>3 DEF IsMapped
<1> QED
  BY <1>4, <1>8, <1>9 DEF rest

\* The extent that is sent next.
LEMMA HeadIs ==
    ASSUME Asking, Holding, pc = "extents", exs # <<>>, NEW m, m = sent[Len(sent)].tree, NEW e, e = Head(exs)
    PROVE  /\ at \in Nat /\ e.logical \in Nat /\ e.length \in Nat /\ e.physical \in Nat
           /\ at <= e.logical /\ e.logical < End(e) /\ End(e) <= SizeOf(m)
           /\ e.shared \in BOOLEAN
           /\ \A l \in at .. e.logical - 1 : Content(m)[l] = Zero
           /\ \A l \in e.logical .. End(e) - 1 : IsPlaceOf(m, e, l)
           /\ \E s \in Nat, q \in Nat :
                /\ End(e) = Pos(s) /\ q <= BlocksOf(volume[cur.vol])
                /\ IsMapped(FileBlocks(m), End(e), Pos(q), Tail(exs))
<1> DEFINE shape == volume[cur.vol]
<1>1. IsShape(shape) /\ IsBlockMap(m, shape) /\ SizeOf(m) \in Nat
  BY CurrentFile
<1>2. PICK s \in Nat, q \in Nat :
        /\ at = Pos(s) /\ q <= BlocksOf(shape)
        /\ IsMapped(FileBlocks(m), at, Pos(q), exs)
  BY DEF Holding, ReadingIsRight
<1> HIDE DEF shape
<1>3. BlocksOf(shape) \in Nat
  BY <1>1, RoomIs
<1>4. at \in Nat /\ Pos(q) \in Nat /\ Pos(BlocksOf(shape)) \in Nat /\ Pos(q) <= Pos(BlocksOf(shape))
  BY <1>2, <1>3, PosIs
<1>5. /\ IsExtent(FileBlocks(m), e) /\ at <= e.logical /\ End(e) <= Pos(q)
      /\ \E b \in Nat : End(e) = Pos(b)
      /\ \A l \in at .. e.logical - 1 : FileBlocks(m)[BlockOf(l)] = Hole
      /\ IsMapped(FileBlocks(m), End(e), Pos(q), Tail(exs))
  <2>1. PICK out : out = exs
    OBVIOUS
  <2>2. PICK a \in Nat : a = at
    BY <1>4
  <2>3. PICK u \in Nat : u = Pos(q)
    BY <1>4
  <2>4. IsMapped(FileBlocks(m), a, u, out) /\ out # <<>> /\ e = Head(out)
    BY <1>2, <2>1, <2>2, <2>3
  <2>5. /\ IsExtent(FileBlocks(m), e) /\ a <= e.logical /\ End(e) <= u
        /\ \E b \in Nat : End(e) = Pos(b)
        /\ \A l \in a .. e.logical - 1 : FileBlocks(m)[BlockOf(l)] = Hole
        /\ IsMapped(FileBlocks(m), End(e), u, Tail(out))
    BY <2>4, FirstIsMapped
  <2> QED
    BY <2>1, <2>2, <2>3, <2>5
<1>6. /\ e.logical \in Nat /\ e.length \in Nat /\ e.physical \in Nat /\ e.shared \in BOOLEAN /\ End(e) \in Nat
      /\ e.logical < End(e)
  BY <1>5, MappedIs DEF IsExtent, End
<1>7. End(e) <= SizeOf(m)
  <2> DEFINE l == End(e) - 1
  <2>1. l \in e.logical .. End(e) - 1 /\ l \in Nat /\ l < Pos(BlocksOf(shape))
    BY <1>4, <1>5, <1>6
  <2>2. FileBlocks(m)[BlockOf(l)] # Hole
    BY <1>5, <2>1 DEF IsExtent, IsPlaceOf
  <2> HIDE DEF l
  <2>3. l < SizeOf(m)
    BY <1>1, <2>1, <2>2, FileBlocksAre
  <2> QED
    BY <1>1, <1>6, <2>3 DEF l
<1>8. \A l \in at .. e.logical - 1 : l \in 0 .. SizeOf(m) - 1
  BY <1>1, <1>4, <1>6, <1>7
<1>9. \A l \in at .. e.logical - 1 : Content(m)[l] = Zero
  BY <1>1, <1>5, <1>8, FileBlocksAre
<1>10. ASSUME NEW l \in e.logical .. End(e) - 1 PROVE IsPlaceOf(m, e, l)
  <2>1. l \in 0 .. SizeOf(m) - 1
    BY <1>1, <1>6, <1>7
  <2>2. FileBlocks(m)[BlockOf(l)] = m[BlockOf(l)]
    BY <1>1, <2>1, FileBlocksAre
  <2>3. IsPlaceOf(FileBlocks(m), e, l)
    BY <1>5 DEF IsExtent
  <2> QED
    BY <2>2, <2>3 DEF IsPlaceOf
<1>11. \E b \in Nat, p \in Nat :
         /\ End(e) = Pos(b) /\ p <= BlocksOf(shape)
         /\ IsMapped(FileBlocks(m), End(e), Pos(p), Tail(exs))
  BY <1>2, <1>5
<1> QED
  BY <1>4, <1>5, <1>6, <1>7, <1>9, <1>10, <1>11 DEF shape
------------------------------------------------------------------------------
\* What is at one place is one byte of one block.
LEMMA SamePlace ==
    ASSUME NEW state, IsState(state), NEW v \in DOMAIN volume, NEW w \in DOMAIN volume,
           volume[v].pool = volume[w].pool,
           NEW bp, NEW bq, Points(state, v, bp), Points(state, w, bq), IsBlock(bp), IsBlock(bq), bp.plain, bq.plain,
           bp.asize = BlockSize, bq.asize = BlockSize,
           NEW i \in 0 .. BlockSize - 1, NEW j \in 0 .. BlockSize - 1,
           LowestDVA(bp).vdev = LowestDVA(bq).vdev,
           LowestDVA(bp).offset + i = LowestDVA(bq).offset + j
    PROVE  bp = bq /\ i = j
<1>1. PICK x \in DOMAIN bp.dvas : LowestDVA(bp) = bp.dvas[x]
  BY LowestIs
<1>2. PICK y \in DOMAIN bq.dvas : LowestDVA(bq) = bq.dvas[y]
  BY LowestIs
<1>3. LowestDVA(bp).offset \in Nat /\ LowestDVA(bq).offset \in Nat /\ BlockSize \in Nat
  BY LowestIs, SizeIsPositive
<1>4. ASSUME bp # bq PROVE FALSE
  <2>1. Apart(bp, bq)
    BY <1>4 DEF IsState, PlacesAreApart
  <2>2. \/ LowestDVA(bp).offset + BlockSize <= LowestDVA(bq).offset
        \/ LowestDVA(bq).offset + BlockSize <= LowestDVA(bp).offset
    BY <1>1, <1>2, <2>1 DEF Apart
  <2> QED
    BY <1>3, <2>2
<1> QED
  BY <1>3, <1>4

ByteOf(bp, k) == <<bp, k>>

\* A byte of a file of which the program had the blocks.
LEMMA ByteOfFile ==
    ASSUME Asking, Holding, NEW f \in 1 .. Len(sent), Trusted(f), NEW g \in 1 .. f,
           NEW m, m = sent[g].tree, NEW y \in 0 .. SizeOf(m) - 1,
           NEW bp, bp = m[BlockOf(y)], bp # Hole, bp.plain
    PROVE  /\ sent[g].name.vol \in DOMAIN volume /\ IsOpen(sent[g].name)
           /\ Points(Library(sent[g].name), sent[g].name.vol, bp) /\ IsBlock(bp) /\ bp.asize = BlockSize
           /\ OffsetIn(y) \in 0 .. BlockSize - 1
           /\ Content(m)[y] = ByteOf(bp, OffsetIn(y))
<1>1. g \in 1 .. Len(sent)
  BY SentIs
<1>2. IsFile(g)
  BY <1>1 DEF Holding, FilesAreRight
<1>3. Named(sent[g].name) /\ IsOpen(sent[g].name) /\ Seen(sent[g].name) = m
  BY <1>2 DEF IsFile
<1>4. /\ IsShape(volume[sent[g].name.vol]) /\ IsBlockMap(m, volume[sent[g].name.vol])
      /\ \A b \in DOMAIN m : m[b] # Hole => Points(Library(sent[g].name), sent[g].name.vol, m[b])
  BY <1>3, NamedBlocks DEF Holding
<1>5. /\ y \in Nat /\ BlockOf(y) \in DOMAIN m
      /\ Content(m)[y] = IF m[BlockOf(y)] = Hole THEN Zero ELSE <<m[BlockOf(y)], OffsetIn(y)>>
  BY <1>4, ContentIs
<1>6. OffsetIn(y) \in 0 .. BlockSize - 1
  BY <1>5, BlockOfByte
<1>7. bp.asize = BlockSize
  <2>1. sent[g].map = m /\ Uncompressed(f)
    BY DEF Trusted
  <2>2. bp \in Range(sent[g].map) \ {Hole}
    BY <1>5, <2>1 DEF Range
  <2> QED
    BY <2>1, <2>2 DEF Uncompressed
<1>8. Points(Library(sent[g].name), sent[g].name.vol, bp) /\ IsBlock(bp)
  BY <1>4, <1>5 DEF IsBlockMap
<1> QED
  BY <1>3, <1>5, <1>6, <1>7, <1>8 DEF Named, ByteOf
------------------------------------------------------------------------------
PlaceOf(e, l) == <<volume[cur.vol].pool, e.device, e.physical + l - e.logical>>
Bytes(e)      == e.logical .. e.logical + e.length - 1
Known(e)      == {l \in Bytes(e) : e.shared /\ PlaceOf(e, l) \in DOMAIN owner}
Fresh(e)      == {PlaceOf(e, l) : l \in {k \in Bytes(e) \ Known(e) : e.shared}}

OwnedByte(e, l) == sent[owner[PlaceOf(e, l)].file].got[owner[PlaceOf(e, l)].logical]

ReceivedByte(e, l) ==
    CASE l \in at .. e.logical - 1 -> Zero
      [] l \in Known(e) -> OwnedByte(e, l)
      [] l \in Bytes(e) \ Known(e) -> Content(Blocks(cur))[l]
      [] OTHER -> Last(sent).got[l]

LEMMA SendExtentIs ==
    ASSUME SendExtent
    PROVE  /\ pc = "extents" /\ exs # <<>>
           /\ owner' = [x \in DOMAIN owner \cup Fresh(Head(exs)) |->
                          IF x \in Fresh(Head(exs))
                          THEN [file |-> Len(sent), logical |-> Head(exs).logical + x[3] - Head(exs).physical]
                          ELSE owner[x]]
           /\ sent' = IF as_ref THEN sent
                      ELSE [sent EXCEPT ![Len(sent)].got = [l \in DOMAIN @ |-> ReceivedByte(Head(exs), l)]]
           /\ at' = Head(exs).logical + Head(exs).length /\ exs' = Tail(exs)
           /\ UNCHANGED <<volume, opts, live, opened, writes, readonly, pc, cur, as_ref, uniq>>
<1>1. /\ pc = "extents" /\ exs # <<>>
      /\ at' = Head(exs).logical + Head(exs).length /\ exs' = Tail(exs)
      /\ UNCHANGED <<volume, opts, live, opened, writes, readonly, pc, cur, as_ref, uniq>>
  BY DEF SendExtent, world, add_vars
<1>2. owner' = [x \in DOMAIN owner \cup Fresh(Head(exs)) |->
                  IF x \in Fresh(Head(exs))
                  THEN [file |-> Len(sent), logical |-> Head(exs).logical + x[3] - Head(exs).physical]
                  ELSE owner[x]]
  BY DEF SendExtent, Fresh, Known, Bytes, PlaceOf
<1>3. sent' = IF as_ref THEN sent
              ELSE [sent EXCEPT ![Len(sent)].got = [l \in DOMAIN @ |-> ReceivedByte(Head(exs), l)]]
  BY DEF SendExtent, Known, Bytes, PlaceOf, ReceivedByte, OwnedByte
<1> QED
  BY <1>1, <1>2, <1>3

\* What is copied from an owner is what is there.
LEMMA OwnedIsRight ==
    ASSUME Asking, Holding, pc = "extents", exs # <<>>, NEW e, e = Head(exs),
           NEW m, m = sent[Len(sent)].tree, Trusted(Len(sent)), NEW l \in Known(e)
    PROVE  OwnedByte(e, l) = Content(m)[l]
<1> DEFINE bp == m[BlockOf(l)]
<1>1. PICK f : f = Len(sent)
  OBVIOUS
<1>2. f \in Nat /\ f \in 1 .. f /\ sent[f].name = cur
  BY <1>1, SentIs
<1>3. PICK x : x = PlaceOf(e, l)
  OBVIOUS
<1>4. e.shared /\ x \in DOMAIN owner /\ l \in Bytes(e)
  BY <1>3 DEF Known
<1>5. PICK o : o = owner[x]
  OBVIOUS
<1>6. PICK g : g = o.file
  OBVIOUS
<1>7. PICK n : n = sent[g].tree
  OBVIOUS
<1>8. PICK y : y = o.logical
  OBVIOUS
<1>9. PICK bq : bq = n[BlockOf(y)]
  OBVIOUS
<1>10. /\ g \in 1 .. f /\ y \in 0 .. SizeOf(n) - 1
       /\ bq # Hole /\ bq.plain
       /\ x = <<volume[sent[g].name.vol].pool, LowestDVA(bq).vdev, LowestDVA(bq).offset + OffsetIn(y)>>
       /\ Trusted(g) => sent[g].got[y] = Content(n)[y]
  BY <1>1, <1>4, <1>5, <1>6, <1>7, <1>8, <1>9 DEF Holding, OwnersAreRight, IsOwner
<1>11. Trusted(f)
  BY <1>1
<1>12. sent[g].got[y] = Content(n)[y]
  BY <1>2, <1>10, <1>11, TrustedBefore
<1>15. /\ e.logical \in Nat /\ e.length \in Nat /\ e.physical \in Nat /\ End(e) <= SizeOf(m)
       /\ \A k \in e.logical .. End(e) - 1 : IsPlaceOf(m, e, k)
  BY HeadIs
<1>16. SizeOf(m) \in Nat
  BY CurrentFile
<1>17. l \in e.logical .. End(e) - 1 /\ l \in 0 .. SizeOf(m) - 1
  BY <1>4, <1>15, <1>16 DEF Bytes, End
<1>18. /\ bp # Hole /\ bp.plain /\ e.device = LowestDVA(bp).vdev
       /\ e.physical + (l - e.logical) = LowestDVA(bp).offset + OffsetIn(l)
  BY <1>4, <1>15, <1>17 DEF IsPlaceOf
<1>19. x = <<volume[cur.vol].pool, LowestDVA(bp).vdev, LowestDVA(bp).offset + OffsetIn(l)>>
  <2>1. e.physical + l - e.logical = e.physical + (l - e.logical)
    BY <1>15, <1>17
  <2> HIDE DEF bp
  <2> QED
    BY <1>3, <1>18, <2>1 DEF PlaceOf
<1> HIDE DEF bp
<1>20. /\ cur.vol \in DOMAIN volume /\ IsOpen(cur) /\ Points(Library(cur), cur.vol, bp)
       /\ IsBlock(bp) /\ bp.asize = BlockSize
       /\ OffsetIn(l) \in 0 .. BlockSize - 1 /\ Content(m)[l] = ByteOf(bp, OffsetIn(l))
  <2>1. bp = m[BlockOf(l)] /\ m = sent[f].tree
    BY <1>1 DEF bp
  <2>2. f \in 1 .. Len(sent) /\ Trusted(f) /\ l \in 0 .. SizeOf(m) - 1 /\ bp # Hole /\ bp.plain
    BY <1>1, <1>2, <1>11, <1>17, <1>18 DEF bp
  <2>3. /\ sent[f].name.vol \in DOMAIN volume /\ IsOpen(sent[f].name)
        /\ Points(Library(sent[f].name), sent[f].name.vol, bp) /\ IsBlock(bp) /\ bp.asize = BlockSize
        /\ OffsetIn(l) \in 0 .. BlockSize - 1 /\ Content(m)[l] = ByteOf(bp, OffsetIn(l))
    BY <1>2, <1>16, <2>1, <2>2, ByteOfFile
  <2> QED
    BY <1>2, <2>3
<1>21. /\ sent[g].name.vol \in DOMAIN volume /\ Points(Library(sent[g].name), sent[g].name.vol, bq)
       /\ IsBlock(bq) /\ bq.asize = BlockSize
       /\ OffsetIn(y) \in 0 .. BlockSize - 1 /\ Content(n)[y] = ByteOf(bq, OffsetIn(y))
  <2>1. f \in 1 .. Len(sent) /\ g \in 1 .. f /\ Trusted(f)
    BY <1>1, <1>2, <1>10, <1>11
  <2>2. n = sent[g].tree /\ y \in 0 .. SizeOf(n) - 1 /\ bq = n[BlockOf(y)] /\ bq # Hole /\ bq.plain
    BY <1>7, <1>9, <1>10
  <2> QED
    BY <2>1, <2>2, ByteOfFile
<1>22. bp = bq /\ OffsetIn(l) = OffsetIn(y)
  <2>1. /\ volume[cur.vol].pool = volume[sent[g].name.vol].pool
        /\ LowestDVA(bp).vdev = LowestDVA(bq).vdev
        /\ LowestDVA(bp).offset + OffsetIn(l) = LowestDVA(bq).offset + OffsetIn(y)
    BY <1>10, <1>19
  <2>2. PICK state : state = Library(cur)
    OBVIOUS
  <2>3. IsState(state) /\ Library(sent[g].name) = state
    BY <1>20, <2>1, <2>2 DEF Holding, World, IsOpen, Library
  <2>4. Points(state, cur.vol, bp) /\ Points(state, sent[g].name.vol, bq)
    BY <1>20, <1>21, <2>2, <2>3
  <2> QED
    BY <1>10, <1>18, <1>20, <1>21, <2>1, <2>3, <2>4, SamePlace
<1> QED
  BY <1>3, <1>5, <1>6, <1>8, <1>12, <1>20, <1>21, <1>22 DEF OwnedByte
------------------------------------------------------------------------------
\* What an extent changes of the current file.
LEMMA ExtentChanges ==
    ASSUME Asking, SendExtent, NEW f, f = Len(sent), NEW e, e = Head(exs)
    PROVE  /\ f \in Nat /\ f \in 1 .. f /\ Len(sent') = f
           /\ \A g \in 1 .. f - 1 : sent'[g] = sent[g]
           /\ sent'[f].name = sent[f].name /\ sent'[f].map = sent[f].map /\ sent'[f].tree = sent[f].tree
           /\ sent'[f].ref = sent[f].ref /\ sent'[f].ended = sent[f].ended
           /\ as_ref => sent'[f].got = sent[f].got
           /\ ~ as_ref => sent'[f].got = [l \in DOMAIN sent[f].got |-> ReceivedByte(e, l)]
<1>1. /\ pc = "extents"
      /\ sent' = IF as_ref THEN sent
                 ELSE [sent EXCEPT ![f].got = [l \in DOMAIN sent[f].got |-> ReceivedByte(e, l)]]
  BY SendExtentIs
<1>2. /\ f \in 1 .. f /\ f \in Nat /\ DOMAIN sent = 1 .. f
      /\ DOMAIN sent[f] = {"name", "ref", "map", "tree", "ended", "got"}
  BY <1>1, SentIs
<1>3. CASE as_ref
  BY <1>1, <1>2, <1>3
<1>4. CASE ~ as_ref
  <2> DEFINE now == [l \in DOMAIN sent[f].got |-> ReceivedByte(e, l)]
  <2> HIDE DEF now
  <2>1. sent' = [sent EXCEPT ![f] = [sent[f] EXCEPT !.got = now]]
    BY <1>1, <1>4 DEF now
  <2>2. DOMAIN sent' = 1 .. f /\ sent'[f] = [sent[f] EXCEPT !.got = now] /\ \A g \in 1 .. f - 1 : sent'[g] = sent[g]
    BY <1>2, <2>1
  <2>3. Len(sent') = f
    BY <1>2, <2>2, SendAsking, SentLength
  <2>4. /\ sent'[f].name = sent[f].name /\ sent'[f].map = sent[f].map /\ sent'[f].tree = sent[f].tree
        /\ sent'[f].ref = sent[f].ref /\ sent'[f].ended = sent[f].ended /\ sent'[f].got = now
    BY <1>2, <2>2
  <2> QED
    BY <1>2, <1>4, <2>2, <2>3, <2>4 DEF now
<1> QED
  BY <1>3, <1>4

\* The bytes before the extent, of the hole before it, and of the extent.
LEMMA ExtentReceived ==
    ASSUME Asking, Holding, SendExtent, NEW f, f = Len(sent), NEW e, e = Head(exs), NEW m, m = sent[f].tree,
           NEW l \in 0 .. SizeOf(m) - 1
    PROVE  /\ l < at => sent'[f].got[l] = sent[f].got[l]
           /\ Trusted(f) /\ l < End(e) => sent'[f].got[l] = Content(m)[l]
<1>1. pc = "extents" /\ exs # <<>>
  BY SendExtentIs
<1>2. /\ f \in 1 .. f /\ as_ref => sent'[f].got = sent[f].got
      /\ ~ as_ref => sent'[f].got = [k \in DOMAIN sent[f].got |-> ReceivedByte(e, k)]
  BY ExtentChanges
<1>3. /\ DOMAIN sent[f].got = 0 .. SizeOf(m) - 1 /\ SizeOf(m) \in Nat
      /\ Last(sent) = sent[f] /\ sent[f].map = Blocks(cur)
  BY <1>1, CurrentFile
<1>4. /\ at \in Nat /\ e.logical \in Nat /\ e.length \in Nat /\ at <= e.logical /\ e.logical < End(e)
      /\ \A k \in at .. e.logical - 1 : Content(m)[k] = Zero
  BY <1>1, HeadIs
<1>5. Bytes(e) = e.logical .. End(e) - 1 /\ Known(e) \subseteq Bytes(e) /\ l \in Nat /\ End(e) \in Nat
  BY <1>3, <1>4 DEF Bytes, End, Known
<1>6. ASSUME l < at PROVE sent'[f].got[l] = sent[f].got[l]
  <2>1. l \notin at .. e.logical - 1 /\ l \notin Bytes(e) /\ l \notin Known(e)
    BY <1>4, <1>5, <1>6
  <2>2. ReceivedByte(e, l) = sent[f].got[l]
    BY <1>3, <2>1 DEF ReceivedByte
  <2> QED
    BY <1>2, <1>3, <2>2, ExtentChanges
<1>7. ASSUME Trusted(f), l < End(e) PROVE sent'[f].got[l] = Content(m)[l]
  <2>1. CASE as_ref
    <3>1. RightUpto(f, SizeOf(m))
      <4>1. f \in 1 .. Len(sent) /\ sent[f].ref
        BY <1>1, <2>1, ExtentChanges DEF Holding, ReadingIsRight
      <4> QED
        BY <4>1 DEF Holding, FilesAreRight
    <3>2. l < SizeOf(m)
      BY <1>3
    <3>3. sent[f].got[l] = Content(m)[l]
      BY <1>3, <1>7, <3>1, <3>2 DEF RightUpto
    <3> QED
      BY <2>1, <3>3, ExtentChanges
  <2>2. CASE ~ as_ref
    <3>1. sent'[f].got[l] = ReceivedByte(e, l)
      BY <1>2, <1>3, <2>2
    <3>2. CASE l < at
      <4>1. sent[f].got[l] = Content(m)[l]
        BY <1>1, <1>3, <1>7, <3>2 DEF Holding, ReadingIsRight, RightUpto
      <4> QED
        BY <1>6, <3>2, <4>1
    <3>3. CASE l \in at .. e.logical - 1
      <4>1. l \notin Bytes(e) /\ l \notin Known(e)
        BY <1>4, <1>5, <3>3
      <4>2. ReceivedByte(e, l) = Zero
        BY <3>3, <4>1 DEF ReceivedByte
      <4> QED
        BY <1>4, <3>1, <3>3, <4>2
    <3>4. CASE l \in Known(e)
      <4>1. l \notin at .. e.logical - 1 /\ l \in Bytes(e)
        BY <1>4, <1>5, <3>4
      <4>2. OwnedByte(e, l) = Content(m)[l]
        BY <1>1, <1>7, <3>4, OwnedIsRight
      <4>3. ReceivedByte(e, l) = OwnedByte(e, l)
        BY <3>4, <4>1 DEF ReceivedByte
      <4> QED
        BY <3>1, <4>2, <4>3
    <3>5. CASE l \in Bytes(e) \ Known(e)
      <4>1. l \notin at .. e.logical - 1
        BY <1>4, <1>5, <3>5
      <4>2. ReceivedByte(e, l) = Content(Blocks(cur))[l]
        BY <3>5, <4>1 DEF ReceivedByte
      <4>3. f \in 1 .. f
        BY ExtentChanges
      <4>4. m = Blocks(cur)
        BY <1>3, <1>7, <4>3 DEF Trusted
      <4> QED
        BY <3>1, <4>2, <4>4
    <3>6. l < at \/ l \in at .. e.logical - 1 \/ l \in Bytes(e)
      BY <1>4, <1>5, <1>7
    <3> QED
      BY <3>2, <3>3, <3>4, <3>5, <3>6
  <2> QED
    BY <2>1, <2>2
<1> QED
  BY <1>6, <1>7
------------------------------------------------------------------------------
\* The owners there were.
LEMMA OldOwner ==
    ASSUME Asking, Holding, SendExtent, NEW x \in DOMAIN owner, owner'[x] = owner[x],
           NEW f, f = Len(sent), \A g \in 1 .. f : Trusted(g)' <=> Trusted(g)
    PROVE  IsOwner(x)'
<1> DEFINE e == Head(exs)
<1>0. /\ pc = "extents" /\ exs # <<>> /\ pc' = pc /\ volume' = volume
      /\ at' = e.logical + e.length
  BY SendExtentIs
<1>1. /\ f \in Nat /\ f \in 1 .. f /\ Len(sent') = f
      /\ \A g \in 1 .. f - 1 : sent'[g] = sent[g]
      /\ sent'[f].name = sent[f].name /\ sent'[f].tree = sent[f].tree
  BY ExtentChanges
<1>2. at \in Nat /\ at' \in Nat /\ at <= at'
  <2> HIDE DEF e
  <2>1. at \in Nat /\ e.logical \in Nat /\ e.length \in Nat /\ at <= e.logical
    BY <1>0, HeadIs DEF e
  <2> QED
    BY <1>0, <2>1
<1> HIDE DEF e
<1>3. IsOwner(x)
  BY DEF Holding, OwnersAreRight
<1>4. PICK o : o = owner[x]
  OBVIOUS
<1>5. o.file \in 1 .. f /\ o.logical \in 0 .. SizeOf(sent[o.file].tree) - 1 /\ (o.file = f => o.logical < at)
  BY <1>0, <1>3, <1>4 DEF IsOwner
<1>6. /\ sent'[o.file].tree = sent[o.file].tree /\ sent'[o.file].name = sent[o.file].name
      /\ sent'[o.file].got[o.logical] = sent[o.file].got[o.logical]
  <2>1. CASE o.file = f
    <3>1. sent'[f].got[o.logical] = sent[f].got[o.logical]
      BY <1>5, <2>1, ExtentReceived
    <3> QED
      BY <1>1, <2>1, <3>1
  <2>2. CASE o.file \in 1 .. f - 1
    BY <1>1, <2>2
  <2> QED
    BY <1>1, <1>5, <2>1, <2>2
<1>7. (o.file = f => o.logical < at') /\ (Trusted(o.file)' <=> Trusted(o.file))
  <2>1. Trusted(o.file)' <=> Trusted(o.file)
    BY <1>5
  <2>2. ASSUME o.file = f PROVE o.logical < at'
    <3>1. o.logical \in Int /\ o.logical < at
      BY <1>5, <2>2
    <3> QED
      BY <1>2, <3>1
  <2> QED
    BY <2>1, <2>2
<1>8. owner'[x] = o /\ volume' = volume /\ pc' = pc /\ Len(sent') = f
  BY <1>0, <1>1, <1>4
<1>9. LET f2 == sent[o.file]
          bp == f2.tree[BlockOf(o.logical)]
      IN  /\ bp # Hole /\ bp.plain
          /\ x = <<volume[f2.name.vol].pool, LowestDVA(bp).vdev, LowestDVA(bp).offset + OffsetIn(o.logical)>>
          /\ Trusted(o.file) => f2.got[o.logical] = Content(f2.tree)[o.logical]
  BY <1>3, <1>4 DEF IsOwner
<1> QED
  BY <1>5, <1>6, <1>7, <1>8, <1>9 DEF IsOwner

\* The owners that this extent makes.
LEMMA FreshOwner ==
    ASSUME Asking, Holding, SendExtent, NEW e, e = Head(exs), NEW x \in Fresh(e), NEW f, f = Len(sent),
           \A g \in 1 .. f : Trusted(g)' <=> Trusted(g)
    PROVE  IsOwner(x)'
<1>0. /\ pc = "extents" /\ exs # <<>> /\ pc' = pc /\ volume' = volume
      /\ at' = e.logical + e.length
      /\ owner'[x] = [file |-> f, logical |-> e.logical + x[3] - e.physical]
  BY SendExtentIs
<1>1. /\ f \in Nat /\ f \in 1 .. f /\ Len(sent') = f
      /\ sent'[f].name = sent[f].name /\ sent'[f].tree = sent[f].tree
  BY ExtentChanges
<1>m. PICK m : m = sent[f].tree
  OBVIOUS
<1>2. PICK l \in Bytes(e) : e.shared /\ x = PlaceOf(e, l)
  BY DEF Fresh
<1>3. /\ e.logical \in Nat /\ e.length \in Nat /\ e.physical \in Nat /\ End(e) <= SizeOf(m)
      /\ \A k \in e.logical .. End(e) - 1 : IsPlaceOf(m, e, k)
  BY <1>0, <1>m, HeadIs
<1>4. SizeOf(m) \in Nat /\ sent[f].name = cur
  BY <1>0, <1>m, CurrentFile, SentIs
<1>5. l \in e.logical .. End(e) - 1 /\ l \in 0 .. SizeOf(m) - 1 /\ l < at' /\ at' = End(e)
  BY <1>0, <1>2, <1>3, <1>4 DEF Bytes, End
<1>6. x[3] = e.physical + l - e.logical
  BY <1>2 DEF PlaceOf
<1>7. owner'[x] = [file |-> f, logical |-> l]
  <2>1. e.logical + x[3] - e.physical = l
    BY <1>3, <1>5, <1>6
  <2> QED
    BY <1>0, <2>1
<1> DEFINE bp == m[BlockOf(l)]
<1>8. /\ bp # Hole /\ bp.plain /\ e.device = LowestDVA(bp).vdev
      /\ e.physical + (l - e.logical) = LowestDVA(bp).offset + OffsetIn(l)
  BY <1>2, <1>3, <1>5 DEF IsPlaceOf
<1> HIDE DEF bp
<1>9. x = <<volume[cur.vol].pool, LowestDVA(bp).vdev, LowestDVA(bp).offset + OffsetIn(l)>>
  <2>1. e.physical + l - e.logical = e.physical + (l - e.logical)
    BY <1>3, <1>5
  <2> QED
    BY <1>2, <1>8, <2>1 DEF PlaceOf
<1>10. Trusted(f)' => sent'[f].got[l] = Content(m)[l]
  BY <1>1, <1>5, <1>m, ExtentReceived
<1>11. owner'[x].file = f /\ owner'[x].logical = l
  BY <1>7
<1>12. LET o  == owner'[x]
           f2 == sent'[o.file]
           b2 == f2.tree[BlockOf(o.logical)]
       IN  /\ o.file \in 1 .. Len(sent') /\ o.logical \in 0 .. SizeOf(f2.tree) - 1
           /\ b2 # Hole /\ b2.plain
           /\ x = <<volume'[f2.name.vol].pool, LowestDVA(b2).vdev, LowestDVA(b2).offset + OffsetIn(o.logical)>>
           /\ o.logical < at'
           /\ Trusted(f)' => f2.got[o.logical] = Content(f2.tree)[o.logical]
  <2>1. f \in 1 .. Len(sent') /\ sent'[f].tree = m /\ sent'[f].name.vol = cur.vol /\ volume' = volume
    BY <1>0, <1>1, <1>4, <1>m
  <2>2. bp = m[BlockOf(l)]
    BY DEF bp
  <2> QED
    BY <1>5, <1>8, <1>9, <1>10, <1>11, <2>1, <2>2
<1> QED
  BY <1>11, <1>12 DEF IsOwner
------------------------------------------------------------------------------
LEMMA SendExtentHolding ==
    ASSUME Asking, Holding, SendExtent
    PROVE  Holding'
<1>e. PICK e : e = Head(exs)
  OBVIOUS
<1>f. PICK f : f = Len(sent)
  OBVIOUS
<1>m. PICK m : m = sent[f].tree
  OBVIOUS
<1>1. /\ pc = "extents" /\ exs # <<>>
      /\ owner' = [x \in DOMAIN owner \cup Fresh(e) |->
                     IF x \in Fresh(e) THEN [file |-> f, logical |-> e.logical + x[3] - e.physical] ELSE owner[x]]
      /\ at' = e.logical + e.length /\ exs' = Tail(exs)
      /\ UNCHANGED <<volume, opts, live, opened, writes, readonly, pc, cur, as_ref, uniq>>
  BY <1>e, <1>f, SendExtentIs
<1>2. /\ f \in Nat /\ f \in 1 .. f /\ Len(sent') = f
      /\ \A g \in 1 .. f - 1 : sent'[g] = sent[g]
      /\ sent'[f].name = sent[f].name /\ sent'[f].map = sent[f].map /\ sent'[f].tree = sent[f].tree
      /\ sent'[f].ref = sent[f].ref /\ sent'[f].ended = sent[f].ended
      /\ as_ref => sent'[f].got = sent[f].got
      /\ ~ as_ref => sent'[f].got = [l \in DOMAIN sent[f].got |-> ReceivedByte(e, l)]
  BY <1>e, <1>f, ExtentChanges
<1>2a. World' /\ OpenedStays
  BY <1>1, SameWorld DEF Holding
<1>3. /\ DOMAIN sent[f].got = 0 .. SizeOf(m) - 1 /\ SizeOf(m) \in Nat
  BY <1>1, <1>f, <1>m, CurrentFile
<1>4. IsFile(f)
  BY <1>2, <1>f DEF Holding, FilesAreRight
<1>5. sent'[f].got = [l \in DOMAIN sent[f].got |-> sent'[f].got[l]]
  <2>1. CASE as_ref
    BY <1>2, <1>3, <1>4, <1>m, <2>1 DEF IsFile
  <2>2. CASE ~ as_ref
    BY <1>2, <2>2
  <2> QED
    BY <2>1, <2>2
<1>6. /\ \A g \in 1 .. f : IsFile(g)' /\ (Trusted(g)' <=> Trusted(g))
      /\ \A g \in 1 .. f - 1 : \A k : RightUpto(g, k) => RightUpto(g, k)'
  BY <1>1, <1>2, <1>2a, <1>5, <1>f, FileChanged
<1>7. at' = End(e) /\ End(e) <= SizeOf(m)
      /\ \E s \in Nat, q \in Nat :
           /\ End(e) = Pos(s) /\ q <= BlocksOf(volume[cur.vol])
           /\ IsMapped(FileBlocks(m), End(e), Pos(q), Tail(exs))
  BY <1>1, <1>e, <1>f, <1>m, HeadIs DEF End
<1>8. RightUpto(f, at)'
  <2>1. ASSUME Trusted(f), NEW l \in 0 .. SizeOf(m) - 1, l < End(e) PROVE sent'[f].got[l] = Content(m)[l]
    BY <1>e, <1>f, <1>m, <2>1, ExtentReceived
  <2>2. DOMAIN sent'[f].got = 0 .. SizeOf(m) - 1 /\ sent'[f].tree = m
    BY <1>2, <1>3, <1>5, <1>m
  <2>3. Trusted(f)' => Trusted(f)
    BY <1>2, <1>6
  <2> QED
    BY <1>7, <2>1, <2>2, <2>3 DEF RightUpto
<1>9. FilesAreRight'
  <2> SUFFICES ASSUME NEW g \in 1 .. f
               PROVE  /\ IsFile(g)'
                      /\ sent'[g].ended \/ sent'[g].ref => RightUpto(g, SizeOf(sent[g].tree))'
    BY <1>2 DEF FilesAreRight
  <2>1. CASE g = f
    <3>1. ~ sent'[f].ended /\ sent'[f].ref = as_ref
      BY <1>1, <1>2, <1>f DEF Holding, ReadingIsRight
    <3>2. ASSUME as_ref PROVE RightUpto(f, SizeOf(sent[f].tree))'
      <4>1. RightUpto(f, SizeOf(m))
        BY <1>1, <1>2, <1>f, <1>m, <3>2 DEF Holding, FilesAreRight, ReadingIsRight
      <4>2. sent'[f].got = sent[f].got /\ sent'[f].tree = m /\ (Trusted(f)' => Trusted(f))
        BY <1>2, <1>6, <1>m, <3>2
      <4> QED
        BY <1>m, <4>1, <4>2 DEF RightUpto
    <3> QED
      BY <1>6, <2>1, <3>1, <3>2
  <2>2. CASE g \in 1 .. f - 1
    BY <1>2, <1>6, <1>f, <2>2 DEF Holding, FilesAreRight
  <2> QED
    BY <1>2, <2>1, <2>2
<1>10. OwnersAreRight'
  <2> SUFFICES ASSUME NEW x \in DOMAIN owner' PROVE IsOwner(x)'
    BY DEF OwnersAreRight
  <2>1. CASE x \in Fresh(e)
    BY <1>6, <1>e, <1>f, <2>1, FreshOwner
  <2>2. CASE x \notin Fresh(e)
    <3>1. x \in DOMAIN owner /\ owner'[x] = owner[x]
      BY <1>1, <2>2
    <3> QED
      BY <1>6, <1>f, <3>1, OldOwner
  <2> QED
    BY <2>1, <2>2
<1>11. ReadingIsRight'
  <2>1. sent'[f].map = Blocks(cur)'
    <3>1. Blocks(cur)' = Blocks(cur)
      BY <1>1, SameOpen
    <3> QED
      BY <1>1, <1>2, <1>f, <3>1 DEF Holding, ReadingIsRight
  <2>2. sent'[f].ref = as_ref /\ ~ sent'[f].ended /\ uniq \in Nat
    BY <1>1, <1>2, <1>f DEF Holding, ReadingIsRight
  <2>3. Len(sent') = f /\ sent'[f].tree = m
    BY <1>2, <1>m
  <2> QED
    BY <1>1, <1>7, <1>8, <2>1, <2>2, <2>3 DEF ReadingIsRight
<1>12. CurrentStays'
  BY <1>1, SameNames, SameOpen DEF Holding, CurrentStays, Working, IsVol
<1> QED
  BY <1>2a, <1>9, <1>10, <1>11, <1>12 DEF Holding
------------------------------------------------------------------------------
\* What zvol_add is called for is there.
LEMMA AddHolding ==
    ASSUME Asking, Holding, zvol_add
    PROVE  Holding'
<1>1. /\ UNCHANGED <<volume, opts, live, opened, writes, readonly, sent, owner>> /\ pc = "args" /\ added < Len(Args)
      /\ \/ pc' = "args"
         \/ /\ pc' \in {"snapshots", "property"}
            /\ cur' = Args[added + 1]
            /\ cur'.snap = Self \/ Exists(cur'.vol, cur'.snap)
  BY DEF zvol_add, world, send_vars, Args
<1>2. added + 1 \in 1 .. Len(Args)
  BY <1>1, GivenArgs DEF Asking, Calls
<1>3. pc' = "property" => Named(cur')
  BY <1>1, <1>2, GivenArgs DEF Asking, Named
<1>4. \A name : Named(name)' <=> Named(name)
  BY <1>1, SameNames
<1>5. CurrentStays'
  BY <1>1, <1>3, <1>4 DEF CurrentStays, Working
<1> QED
  BY <1>1, <1>5, SameHolding

LEMMA SnapshotsHolding ==
    ASSUME Asking, Holding, zvol_addsnap \/ SnapshotsDone
    PROVE  Holding'
<1>1. /\ UNCHANGED <<volume, opts, live, opened, writes, readonly, sent, owner>> /\ pc = "snapshots"
      /\ pc' \in {"snapshots", "property"}
  BY DEF zvol_addsnap, SnapshotsDone, HasSnapshot, world, send_vars
<1>2. iter # None /\ Args[added] = Whole(cur.vol) /\ iter.k \in 1 .. Len(Snaps(cur.vol)) + 1
      /\ added \in 1 .. Len(Args) /\ cur = [vol |-> cur.vol, snap |-> cur.snap]
  <2>1. iter # None
    BY <1>1 DEF Asking, Calls
  <2> QED
    BY <2>1, GivenArgs DEF Asking, Calls, IterationIsRight, Iterates
<1>3. cur.vol \in DOMAIN volume
  <2>1. Args[added].vol \in DOMAIN volume
    BY <1>2, GivenArgs DEF Asking
  <2> QED
    BY <1>2, <2>1 DEF Whole
<1>4. PICK new : new = cur'
  OBVIOUS
<1>5. ASSUME zvol_addsnap, pc' = "property"
      PROVE  Named(new)
  <2>1. new = [vol |-> cur.vol, snap |-> SnapshotNow] /\ iter.k <= Len(Snaps(cur.vol))
    BY <1>1, <1>4, <1>5 DEF zvol_addsnap, HasSnapshot
  <2>2. Exists(cur.vol, SnapshotNow)
    <3>1. Len(Snaps(cur.vol)) \in Nat
      BY <1>3, GivenSnapshots DEF Asking
    <3>2. iter.k \in 1 .. Len(Snaps(cur.vol))
      BY <1>2, <2>1, <3>1
    <3> QED
      BY <1>3, <3>2, GivenSnapshots DEF Asking, SnapshotNow
  <2>3. new.vol = cur.vol /\ new.snap = SnapshotNow
    BY <2>1
  <2> QED
    BY <1>3, <2>2, <2>3 DEF Named
<1>6. ASSUME SnapshotsDone
      PROVE  Named(new)
  <2>1. new = [cur EXCEPT !.snap = Self]
    BY <1>4, <1>6 DEF SnapshotsDone
  <2>2. new.vol = cur.vol /\ new.snap = Self
    BY <1>2, <2>1
  <2> QED
    BY <1>3, <2>2 DEF Named
<1>6a. pc' = "property" => Named(new)
  BY <1>5, <1>6
<1>7. \A name : Named(name)' <=> Named(name)
  BY <1>1, SameNames
<1>8. CurrentStays'
  BY <1>1, <1>4, <1>6a, <1>7 DEF CurrentStays, Working
<1> QED
  BY <1>1, <1>8, SameHolding

LEMMA CheckPropertyHolding ==
    ASSUME Asking, Holding, CheckProperty
    PROVE  Holding'
<1>1. /\ UNCHANGED <<volume, opts, live, opened, writes, sent, owner, cur>> /\ pc = "property"
      /\ pc' \in {"own", "close"}
  BY DEF CheckProperty, send_vars, add_vars
<1>2. pc' = "own" /\ IsVol /\ opts.set_ro => readonly'[cur.vol]
  BY DEF CheckProperty
<1>3. \A name : Named(name)' <=> Named(name)
  BY <1>1, SameNames
<1>4. CurrentStays'
  BY <1>1, <1>2, <1>3 DEF Holding, CurrentStays, Working, IsVol
<1> QED
  BY <1>1, <1>4, SameHolding

LEMMA StepHolding ==
    ASSUME Asking, Holding, [Next]_vars
    PROVE  Holding'
<1>1. CASE zvol_add \/ zvol_addsnap \/ SnapshotsDone \/ CheckProperty
  BY <1>1, AddHolding, SnapshotsHolding, CheckPropertyHolding
<1>2. CASE ZVOL_open \/ NextExtents \/ SendExtent \/ EndFile
  BY <1>2, OpenHolding, NextExtentsHolding, SendExtentHolding, EndFileHolding
<1>3. CASE OtherWrites
  BY <1>3, OtherWritesHolding
<1>4. CASE CheckOptions \/ AddFails \/ AllAdded \/ PassSnapshot \/ ErrorIsKept \/ IterationEnds
           \/ PropertyFails \/ FileFails \/ Revert \/ RevertFails \/ Close
  <2>1. /\ UNCHANGED <<volume, opts, live, opened, writes, sent, owner>>
        /\ pc' \in {"usage", "exited", "args", "snapshots", "close", "revert"}
    BY <1>4 DEF CheckOptions, AddFails, AllAdded, PassSnapshot, HasSnapshot, ErrorIsKept, IterationEnds,
       PropertyFails, FileFails, Revert, RevertFails, Close, world, send_vars
  <2>2. CurrentStays'
    BY <2>1 DEF CurrentStays, Working
  <2> QED
    BY <2>1, <2>2, SameHolding
<1>5. CASE dmu_objset_own
  <2>1. /\ UNCHANGED <<volume, opts, live, writes, readonly, sent, owner, cur>> /\ pc = "own" /\ pc' = "file"
        /\ opened' = Opening
    BY <1>5 DEF dmu_objset_own, world, send_vars, add_vars
  <2>2. World' /\ OpenedStays
    BY <2>1, OpeningWorld DEF Holding
  <2>3. IsOpen(cur)'
    BY <2>1 DEF IsOpen, Opening
  <2>4. CurrentStays'
    BY <2>1, <2>3, SameNames DEF Holding, CurrentStays, Working, IsVol
  <2> QED
    BY <2>1, <2>2, <2>4, ElsewhereHolding
<1>5a. CASE OwnFails
  <2>1. /\ UNCHANGED <<volume, opts, live, writes, sent, owner>> /\ pc' = "revert"
        /\ opened' \in {opened, Opening}
    BY <1>5a DEF OwnFails, world, send_vars
  <2>2. World' /\ OpenedStays
    BY <2>1, OpeningWorld DEF Holding
  <2>3. CurrentStays'
    BY <2>1 DEF CurrentStays, Working
  <2> QED
    BY <2>1, <2>2, <2>3, ElsewhereHolding
<1>6. CASE UNCHANGED vars
  BY <1>6, UnchangedHolding
<1>7. QED
  BY <1>1, <1>2, <1>3, <1>4, <1>5, <1>5a, <1>6 DEF Next

\* What a receiver has of every file that ended is what was in the volume or snapshot,
\* of all shapes of trees, with all that is shared within a pool, and whatever others
\* write, if it was not written to between the opening of its pool and its own turn, and
\* none that was sent before was (do_zvol_add and ZVOL_nextExtents, through
\* FiesWriter_sendExtent).
THEOREM FilesAreAlwaysRight == Spec => []ContentsAreRight
<1>1. Spec => [](Asking /\ Holding)
  <2>1. Asking /\ Holding /\ [Next]_vars => (Asking /\ Holding)'
    BY StepAsking, StepHolding
  <2>2. Init => Asking /\ Holding
    BY InitAsking, InitHolding
  <2> QED
    BY <2>1, <2>2, PTL DEF Spec
<1>2. Asking /\ Holding => ContentsAreRight
  <2> SUFFICES ASSUME Asking, Holding, NEW f \in DOMAIN sent, Uncompressed(f), \A g \in 1 .. f : AsRead(g)
               PROVE  sent[f].got = Content(sent[f].map)
    BY DEF ContentsAreRight
  <2> DEFINE m == sent[f].tree
             got == sent[f].got
  <2>1. f \in 1 .. Len(sent) /\ f \in 1 .. f
    BY SentIs
  <2>1a. sent[f].ended /\ sent[f].map = m /\ Trusted(f)
    BY <2>1 DEF AsRead, Trusted
  <2>2. IsFile(f) /\ RightUpto(f, SizeOf(m))
    BY <2>1, <2>1a DEF Holding, FilesAreRight
  <2>3. IsShape(volume[sent[f].name.vol]) /\ IsBlockMap(m, volume[sent[f].name.vol])
    BY <2>2, GivenShapes DEF IsFile, Named, Holding, World
  <2>4. SizeOf(m) \in Nat /\ DOMAIN Content(m) = 0 .. SizeOf(m) - 1
    BY <2>3, ContentIs
  <2>5. got = [l \in 0 .. SizeOf(m) - 1 |-> got[l]]
    BY <2>2 DEF IsFile
  <2>6. \A l \in 0 .. SizeOf(m) - 1 : got[l] = Content(m)[l]
    <3>1. \A l \in 0 .. SizeOf(m) - 1 : l < SizeOf(m) /\ l \in DOMAIN got
      BY <2>4, <2>5
    <3> QED
      BY <2>1a, <2>2, <3>1 DEF RightUpto
  <2>7. Content(m) = [l \in DOMAIN Content(m) |-> Content(m)[l]]
    BY DEF Content
  <2> HIDE DEF m, got
  <2>8. got = Content(m)
    BY <2>4, <2>5, <2>6, <2>7
  <2> QED
    BY <2>1a, <2>8 DEF m, got
<1> QED
  BY <1>1, <1>2, PTL
==============================================================================
