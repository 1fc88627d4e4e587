------------------------ MODULE CollectArtifactProofs ------------------------
(***************************************************************************)
(* Proofs about CollectArtifact: whatever fails in whichever copy of       *)
(* whichever build, an artifact is faithful and no image is touched, for   *)
(* any number of disks and builds and any directories and names.           *)
(***************************************************************************)
EXTENDS CollectArtifact, FiniteSetTheorems, TLAPS

\* The copies go to places of their own, none of them a configured image.
LEMMA DestApart ==
    ASSUME TypeOK, Apart
    PROVE  /\ \A k \in Positions : Source(k) \in Paths /\ Dest(k) \in Paths
           /\ \A j, k \in Positions : Dest(j) # Source(k)
           /\ \A j, k \in Writable : Dest(j) = Dest(k) => j = k
  <1>1. ASSUME NEW k \in Positions
        PROVE  Source(k) \in Paths /\ disks[k].readonly \in BOOLEAN
    BY DEF TypeOK, Positions, Source
  <1>2. ASSUME NEW k \in Positions PROVE Dest(k) \in Paths
    BY <1>1, CollectAssumption DEF Dest, Paths
  <1>3. ASSUME NEW j \in Positions, NEW k \in Positions
        PROVE  Dest(j) # Source(k)
    BY <1>1 DEF Dest, Apart
  <1>4. ASSUME NEW j \in Writable, NEW k \in Writable, Dest(j) = Dest(k)
        PROVE  j = k
    BY <1>4 DEF Dest, Apart
  <1> QED
    BY <1>1, <1>2, <1>3, <1>4

\* No action changes the configuration or what is derived from it.
LEMMA DisksFixed ==
    ASSUME [Next]_collectVars
    PROVE  /\ disks' = disks
           /\ Positions' = Positions /\ Writable' = Writable
           /\ Apart' <=> Apart
           /\ \A k : Source(k)' = Source(k) /\ Dest(k)' = Dest(k)
  <1>1. disks' = disks
    BY DEF Next, RunVM, Run, Fails, MkdirAll, OpenSource, CreateDest, CopyData,
           CloseDest, PutArtifact, Destroy, Leave, Stopped, collectVars
  <1> QED
    BY <1>1 DEF Positions, Writable, Apart, Source, Dest

\* The positions are an initial part of the naturals: a loop over some of
\* them has exactly one current disk.
LEMMA OneCurrent ==
    ASSUME TypeOK, NEW j \in todo, NEW k \in todo, Current(j), Current(k)
    PROVE  j = k
  BY DEF TypeOK, Current, Writable, Positions

LEMMA ContentTypes ==
    /\ Absent \in Content /\ Empty \in Content /\ Torn \in Content
    /\ \A k \in 0..MaxDisks, b \in 0..MaxBuilds : Image(k, b) \in Content
    /\ \A k, b : Image(k, b) # Absent
  BY CollectAssumption DEF Content, Absent, Empty, Torn, Image

\* What a write to a destination leaves alone.
LEMMA DestWritten ==
    ASSUME TypeOK, Apart, NEW k \in Writable, NEW c \in Content,
           fs' = [fs EXCEPT ![Dest(k)] = c]
    PROVE  /\ fs' \in [Paths -> Content]
           /\ fs'[Dest(k)] = c
           /\ \A j \in Positions : fs'[Source(j)] = fs[Source(j)]
           /\ \A j \in Writable \ {k} : fs'[Dest(j)] = fs[Dest(j)]
  BY DestApart DEF TypeOK, Writable

-----------------------------------------------------------------------------

\* Every step preserves the types.
LEMMA TypeStep == TypeOK /\ [Next]_collectVars => TypeOK'
  <1> SUFFICES ASSUME TypeOK, [Next]_collectVars PROVE TypeOK'
    OBVIOUS
  <1>1. \A k \in Positions : Source(k) \in Paths /\ Dest(k) \in Paths
    BY CollectAssumption DEF TypeOK, Positions, Source, Dest, Paths
  <1>2. Positions \subseteq 0..MaxDisks
    BY CollectAssumption DEF TypeOK, Positions
  <1>3. Writable \subseteq Positions /\ todo \subseteq Positions
    BY DEF Writable, TypeOK
  <1> USE DisksFixed, ContentTypes, <1>1, <1>2, <1>3 DEF TypeOK, Busy
  <1>4. CASE RunVM
    <2>1. build' \in 0..MaxBuilds
      BY <1>4, CollectAssumption DEF RunVM
    <2>2. fs' \in [Paths -> Content]
      BY <1>4, <2>1 DEF RunVM
    <2>3. todo' = Writable /\ DOMAIN copied' = {}
      BY <1>4 DEF RunVM, NoFiles
    <2> QED
      BY <1>4, <2>1, <2>2, <2>3 DEF RunVM
  <1>5. CASE MkdirAll
    BY <1>5 DEF MkdirAll, Fails
  <1>6. CASE OpenSource
    BY <1>6 DEF OpenSource, Fails
  <1>7. CASE CreateDest
    BY <1>7 DEF CreateDest, Fails
  <1>8. CASE CopyData
    BY <1>8 DEF CopyData, Fails
  <1>9. CASE CloseDest
    <2>1. fs' \in [Paths -> Content]
      BY <1>9 DEF CloseDest, Fails
    <2>2. DOMAIN copied' \subseteq Writable /\ todo' \subseteq Writable
      BY <1>9 DEF CloseDest, Fails
    <2>3. pc' \in {"open", "returned"} /\ UNCHANGED <<build, artifact>>
      BY <1>9 DEF CloseDest, Fails
    <2> QED
      BY <2>1, <2>2, <2>3
  <1>10. CASE PutArtifact
    BY <1>10 DEF PutArtifact
  <1>11. CASE Destroy
    BY <1>11 DEF Destroy, NoArtifact
  <1>12. CASE Leave
    BY <1>12 DEF Leave, NoArtifact
  <1>13. CASE Stopped \/ UNCHANGED collectVars
    BY <1>13 DEF Stopped, collectVars
  <1> QED
    BY <1>4, <1>5, <1>6, <1>7, <1>8, <1>9, <1>10, <1>11, <1>12, <1>13
    DEF Next, Run

\* The images of the configuration change when a guest runs and only then.
LEMMA SourceStep == TypeOK /\ [Next]_collectVars => [SourcesLeftAlone]_collectVars
  <1> SUFFICES ASSUME TypeOK, Next, Apart, build' = build
               PROVE  \A k \in Positions : fs'[Source(k)] = fs[Source(k)]
    BY DEF SourcesLeftAlone
  <1>1. todo \subseteq Writable
    BY DEF TypeOK
  <1>2. \A k \in Positions : fs[Source(k)] \in Content
    BY DestApart DEF TypeOK
  <1> USE DestWritten, ContentTypes, <1>1, <1>2
  <1>3. CASE RunVM
    BY <1>3 DEF RunVM, TypeOK
  <1>4. CASE MkdirAll \/ OpenSource \/ PutArtifact \/ Leave \/ Stopped
    BY <1>4 DEF MkdirAll, OpenSource, PutArtifact, Leave, Stopped, collectVars
  <1>5. CASE CreateDest
    BY <1>5 DEF CreateDest
  <1>6. CASE CopyData
    BY <1>6 DEF CopyData, Writable
  <1>7. CASE CloseDest
    BY <1>7 DEF CloseDest
  <1>8. CASE Destroy
    BY <1>8, DestApart DEF Destroy, Apart, TypeOK
  <1> QED
    BY <1>3, <1>4, <1>5, <1>6, <1>7, <1>8 DEF Next, Run

\* The copy loop has copied what it says it has copied.
LEMMA LoopStep == TypeOK /\ LoopInv /\ [Next]_collectVars => LoopInv'
  <1> SUFFICES ASSUME TypeOK, LoopInv, [Next]_collectVars, Apart, pc' \in Busy
               PROVE  /\ DOMAIN copied' \cap todo' = {}
                      /\ DOMAIN copied' \cup todo' = Writable
                      /\ \A k \in Writable : fs'[Source(k)] = Image(k, build')
                      /\ \A k \in DOMAIN copied' :
                            /\ copied'[k] = Dest(k)
                            /\ fs'[Dest(k)] = Image(k, build')
                      /\ pc' = "close" =>
                            \A k \in todo' : Current(k)' =>
                                fs'[Dest(k)] = Image(k, build')
    BY DisksFixed DEF LoopInv
  <1>1. todo \subseteq Writable /\ DOMAIN copied \subseteq Writable
        /\ Writable \subseteq Positions
    BY DEF TypeOK, Writable
  <1>2. ASSUME NEW k \in Positions, NEW b \in 0..MaxBuilds
        PROVE  Image(k, b) \in Content
    BY ContentTypes, CollectAssumption DEF TypeOK, Positions
  <1> USE DEF Busy
  <1>3. CASE RunVM
    <2>1. ASSUME NEW k \in Writable PROVE fs'[Source(k)] = Image(k, build')
      <3>1. Source(k) \in Paths /\ \A j \in Writable : Source(j) = Source(k) => j = k
        BY <1>1, DestApart DEF Apart
      <3> QED
        BY <1>3, <3>1 DEF RunVM
    <2> QED
      BY <1>3, <2>1 DEF RunVM, NoFiles
  <1>4. CASE MkdirAll
    BY <1>4 DEF MkdirAll, Fails, LoopInv
  <1>5. CASE OpenSource
    BY <1>5 DEF OpenSource, Fails, LoopInv
  <1>6. CASE CreateDest
    <2>1. PICK k \in todo : Current(k) /\ fs' = [fs EXCEPT ![Dest(k)] = Empty]
      BY <1>6 DEF CreateDest, Fails
    <2>2. k \notin DOMAIN copied
      BY <1>6 DEF CreateDest, Fails, LoopInv
    <2>3. /\ \A j \in Positions : fs'[Source(j)] = fs[Source(j)]
          /\ \A j \in Writable \ {k} : fs'[Dest(j)] = fs[Dest(j)]
      BY <2>1, <1>1, DestWritten, ContentTypes
    <2> QED
      BY <1>6, <1>1, <2>2, <2>3 DEF CreateDest, Fails, LoopInv
  <1>7. CASE CopyData
    <2>1. PICK k \in todo :
             Current(k) /\ fs' = [fs EXCEPT ![Dest(k)] = fs[Source(k)]]
      BY <1>7 DEF CopyData, Fails
    <2>2. k \notin DOMAIN copied /\ fs[Source(k)] = Image(k, build)
      BY <1>7, <1>1 DEF CopyData, Fails, LoopInv
    <2>3. fs[Source(k)] \in Content
      BY <1>1, <1>2, <2>2 DEF TypeOK
    <2>4. /\ fs'[Dest(k)] = Image(k, build)
          /\ \A j \in Positions : fs'[Source(j)] = fs[Source(j)]
          /\ \A j \in Writable \ {k} : fs'[Dest(j)] = fs[Dest(j)]
      BY <2>1, <2>2, <2>3, <1>1, DestWritten
    <2>5. pc = "copy" /\ UNCHANGED <<build, todo, copied>>
      BY <1>7 DEF CopyData, Fails
    <2>6. \A j \in todo' : Current(j)' => j = k
      BY <2>1, <2>5, OneCurrent DEF Current
    <2> QED
      BY <1>1, <2>2, <2>4, <2>5, <2>6 DEF LoopInv
  <1>8. CASE CloseDest
    <2>1. PICK k \in todo :
             /\ Current(k)
             /\ copied' = [j \in DOMAIN copied \cup {k} |->
                               IF j = k THEN Dest(k) ELSE copied[j]]
             /\ todo' = todo \ {k}
      BY <1>8 DEF CloseDest, Fails
    <2>2. pc = "close" /\ pc' = "open" /\ UNCHANGED <<fs, build>>
      BY <1>8 DEF CloseDest, Fails
    <2> QED
      BY <1>1, <2>1, <2>2 DEF LoopInv
  <1>9. CASE PutArtifact \/ Destroy \/ Leave
    BY <1>9 DEF PutArtifact, Destroy, Leave
  <1>10. CASE Stopped \/ UNCHANGED collectVars
    BY <1>10 DEF Stopped, collectVars, LoopInv, Current
  <1> QED
    BY <1>3, <1>4, <1>5, <1>6, <1>7, <1>8, <1>9, <1>10 DEF Next, Run

\* The artifact is made of the finished loop, and outlives no step that
\* writes to the output directory.
LEMMA ArtifactStep == CollectInv /\ [Next]_collectVars => CollectInv'
  <1> SUFFICES ASSUME CollectInv, [Next]_collectVars PROVE CollectInv'
    OBVIOUS
  <1> USE DEF CollectInv
  <1>1. TypeOK' /\ Distinct' /\ LoopInv'
    BY TypeStep, LoopStep, DisksFixed DEF Distinct
  <1>2. artifact'.made =>
           pc' = "returned" /\ (Apart' =>
              /\ DOMAIN artifact'.files = Writable'
              /\ \A k \in Writable' : fs'[artifact'.files[k]] = Image(k, build'))
    <2> USE DisksFixed, DestApart DEF ArtifactFaithful, Busy
    <2>1. CASE RunVM \/ MkdirAll \/ OpenSource \/ CreateDest \/ CopyData \/ CloseDest
      BY <2>1 DEF RunVM, MkdirAll, OpenSource, CreateDest, CopyData, CloseDest,
                  Fails
    <2>2. CASE PutArtifact
      BY <2>2 DEF PutArtifact, LoopInv
    <2>3. CASE Destroy \/ Leave
      BY <2>3 DEF Destroy, Leave, NoArtifact
    <2>4. CASE Stopped \/ UNCHANGED collectVars
      BY <2>4 DEF Stopped, collectVars
    <2> QED
      BY <2>1, <2>2, <2>3, <2>4 DEF Next, Run
  <1>3. pc' \in {"create", "copy", "close"} => todo' # {}
    <2>1. CASE RunVM \/ MkdirAll \/ CloseDest \/ PutArtifact \/ Destroy \/ Leave
      BY <2>1 DEF RunVM, MkdirAll, CloseDest, PutArtifact, Destroy, Leave, Fails
    <2>2. CASE OpenSource \/ CreateDest \/ CopyData
      BY <2>2 DEF OpenSource, CreateDest, CopyData, Fails
    <2>3. CASE Stopped \/ UNCHANGED collectVars
      BY <2>3 DEF Stopped, collectVars
    <2> QED
      BY <2>1, <2>2, <2>3 DEF Next, Run
  <1> QED
    BY <1>1, <1>2, <1>3 DEF ArtifactFaithful

LEMMA InitCollect == Init => CollectInv
  <1> SUFFICES ASSUME Init PROVE CollectInv
    OBVIOUS
  <1> USE DEF Init
  <1>1. TypeOK
    <2>1. PICK n \in 0..MaxDisks :
             disks \in [1..n -> [path : Paths, readonly : BOOLEAN]]
      OBVIOUS
    <2>2. ASSUME NEW p \in Paths, \E k \in Positions : Source(k) = p
          PROVE  Image(CHOOSE k \in Positions : Source(k) = p, 0) \in Content
      <3> DEFINE c == CHOOSE k \in Positions : Source(k) = p
      <3>1. c \in Positions
        BY <2>2, Zenon
      <3>2. c \in 0..MaxDisks /\ 0 \in 0..MaxBuilds
        BY <2>1, <3>1, CollectAssumption DEF Positions
      <3> HIDE DEF c
      <3>3. Image(c, 0) \in Content
        BY <3>2, ContentTypes
      <3> QED
        BY <3>3 DEF c
    <2>3. fs \in [Paths -> Content]
      BY <2>2, ContentTypes
    <2>4. artifact.made \in BOOLEAN
      BY DEF NoArtifact
    <2>5. DOMAIN copied \subseteq Writable /\ todo \subseteq Writable
      BY DEF NoFiles
    <2>6. build \in 0..MaxBuilds /\ pc \in Busy \cup {"idle", "returned"}
      BY CollectAssumption
    <2> QED
      BY <2>1, <2>3, <2>4, <2>5, <2>6 DEF TypeOK
  <1>2. Distinct /\ LoopInv /\ ArtifactFaithful /\ ~artifact.made
    BY DEF LoopInv, Busy, ArtifactFaithful, NoArtifact
  <1> QED
    BY <1>1, <1>2 DEF CollectInv

\* The invariant of the copy loop, through any failures and any number of
\* builds into the same output directory.
THEOREM CollectInvariance == Spec => []CollectInv
  BY InitCollect, ArtifactStep, PTL DEF Spec

\* The types of the collecting step.
THEOREM CollectTypes == Spec => []TypeOK
  <1>1. CollectInv => TypeOK
    BY DEF CollectInv
  <1> QED
    BY CollectInvariance, <1>1, PTL

\* An artifact of StepCollectArtifact.Run holds exactly the writable images
\* as the guest left them, when no paths clash.
THEOREM ArtifactIsFaithful == Spec => []ArtifactFaithful
  <1>1. CollectInv => ArtifactFaithful
    BY DEF CollectInv
  <1> QED
    BY CollectInvariance, <1>1, PTL

\* Neither copyFile nor Artifact.Destroy touches a configured image, when no
\* paths clash.
THEOREM SourcesAreKept == Spec => SourcesKept
  <1>1. TypeOK /\ [Next]_collectVars => [SourcesLeftAlone]_collectVars
    BY SourceStep
  <1> QED
    BY CollectTypes, <1>1, PTL DEF Spec, SourcesKept

-----------------------------------------------------------------------------
(* The copies implement a single delivery.                                 *)

\* Between two runs of a guest the abstract images are constant.
LEMMA ImagesFixed ==
    ASSUME TypeOK, [Next]_collectVars, Apart, build' = build
    PROVE  Images' = Images /\ Writable' = Writable
  <1>1. \A k \in Positions : fs'[Source(k)] = fs[Source(k)]
    BY SourceStep DEF SourcesLeftAlone, collectVars
  <1> QED
    BY <1>1, DisksFixed DEF Images

\* A guest writes to the writable images and to no other.
LEMMA GuestRuns == CollectInv /\ Apart /\ RunVM => Atomic!Guest
  <1> SUFFICES ASSUME CollectInv, Apart, RunVM PROVE Atomic!Guest
    OBVIOUS
  <1>0. TypeOK /\ Distinct /\ ~artifact.made
    BY DEF CollectInv, RunVM
  <1>1. /\ disks' = disks /\ artifact' = artifact
        /\ Positions' = Positions /\ Writable' = Writable
        /\ \A k : Source(k)' = Source(k)
    BY DEF RunVM, Positions, Writable, Source
  <1>2. DOMAIN Images = Positions /\ DOMAIN Images' = Positions
    BY <1>1 DEF Images
  <1>3. ASSUME NEW k \in Positions \ Writable PROVE Images'[k] = Images[k]
    <2>1. Source(k) \in Paths /\ ~(\E j \in Writable : Source(j) = Source(k))
      BY <1>0, DestApart DEF Distinct, Writable
    <2> QED
      BY <1>1, <2>1 DEF RunVM, Images
  <1>4. Phase = "idle" /\ Phase' = IF Writable = {} THEN "returned" ELSE "collecting"
    BY DEF RunVM, Phase, Busy
  <1>5. Delivered' = Delivered
    BY <1>0, <1>1 DEF Delivered
  <1> QED
    BY <1>1, <1>2, <1>3, <1>4, <1>5 DEF Atomic!Guest, Images, Phase, Delivered

\* The end of the loop is the delivery of every writable image at once.
LEMMA LoopDelivers == CollectInv /\ Apart /\ PutArtifact => Atomic!Deliver
  <1> SUFFICES ASSUME CollectInv, Apart, PutArtifact PROVE Atomic!Deliver
    OBVIOUS
  <1>1. /\ Images' = Images /\ Writable' = Writable
        /\ Phase = "collecting" /\ Phase' = "returned"
    BY DEF PutArtifact, Images, Positions, Writable, Source, Phase, Busy
  <1>2. /\ DOMAIN copied = Writable
        /\ \A k \in Writable : fs[copied[k]] = fs[Source(k)]
    BY DEF CollectInv, LoopInv, PutArtifact, Busy
  <1>3. Delivered' = [k \in Writable |-> Images[k]]
    <2>1. Delivered' = [k \in Writable |-> fs[copied[k]]]
      BY <1>2 DEF PutArtifact, Delivered
    <2>2. \A k \in Writable : Images[k] = fs[copied[k]]
      BY <1>2 DEF Images, Writable
    <2> QED
      BY <2>1, <2>2
  <1> QED
    BY <1>1, <1>3 DEF Atomic!Deliver, Images, Phase, Delivered

\* An error, wherever it comes from, delivers nothing; the copies themselves
\* are not seen.
LEMMA CopyStutters ==
    ASSUME CollectInv, Apart,
           MkdirAll \/ OpenSource \/ CreateDest \/ CopyData \/ CloseDest
    PROVE  Atomic!DeliverNothing \/ UNCHANGED (Atomic!atomicVars)
  <1>1. /\ build' = build /\ artifact' = artifact
        /\ Phase = "collecting" /\ Phase' \in {"collecting", "returned"}
    BY DEF MkdirAll, OpenSource, CreateDest, CopyData, CloseDest, Fails, Phase, Busy
  <1>2. Images' = Images /\ Writable' = Writable
    BY <1>1, ImagesFixed DEF CollectInv, Next, Run
  <1>3. Delivered' = Delivered
    <2>1. ~artifact.made
      BY DEF CollectInv, MkdirAll, OpenSource, CreateDest, CopyData, CloseDest,
             Fails
    <2> QED
      BY <1>1, <2>1 DEF Delivered
  <1> QED
    BY <1>1, <1>2, <1>3
    DEF Atomic!DeliverNothing, Atomic!atomicVars, Images, Phase, Delivered

\* Destroying an artifact and keeping it are the same to the next build.
LEMMA ArtifactDiscarded ==
    CollectInv /\ Apart /\ (Destroy \/ Leave) => Atomic!Discard
  <1> SUFFICES ASSUME CollectInv, Apart, Destroy \/ Leave PROVE Atomic!Discard
    OBVIOUS
  <1>1. /\ build' = build
        /\ Phase = "returned" /\ Phase' = "idle"
    BY DEF Destroy, Leave, Phase, Busy
  <1>2. Images' = Images /\ Writable' = Writable
    BY <1>1, ImagesFixed DEF CollectInv, Next
  <1>3. Delivered' = NoFiles
    BY DEF Destroy, Leave, NoArtifact, Delivered
  <1> QED
    BY <1>1, <1>2, <1>3
    DEF Atomic!Discard, Atomic!Nothing, NoFiles, Images, Phase, Delivered

\* StepCollectArtifact over the file system implements AtomicCollect, as long
\* as no paths clash.
THEOREM CollectsAtomically == Spec => ImplementsCollect
  <1>1. Init => Atomic!AtomicInit
    <2> SUFFICES ASSUME Init PROVE Atomic!AtomicInit
      OBVIOUS
    <2>1. Writable \subseteq DOMAIN Images
      BY DEF Writable, Images
    <2> QED
      BY <2>1 DEF Init, NoArtifact, NoFiles, Busy, Images, Phase, Delivered,
                  Atomic!AtomicInit, Atomic!Nothing
  <1>2. CollectInv /\ [Next]_collectVars
            => [Apart => Atomic!AtomicNext]_(Atomic!atomicVars)
    <2> SUFFICES ASSUME CollectInv, [Next]_collectVars, Apart
                 PROVE  Atomic!AtomicNext \/ UNCHANGED (Atomic!atomicVars)
      OBVIOUS
    <2>1. CASE RunVM
      BY <2>1, GuestRuns DEF Atomic!AtomicNext
    <2>2. CASE MkdirAll \/ OpenSource \/ CreateDest \/ CopyData \/ CloseDest
      BY <2>2, CopyStutters DEF Atomic!AtomicNext
    <2>3. CASE PutArtifact
      BY <2>3, LoopDelivers DEF Atomic!AtomicNext
    <2>4. CASE Destroy \/ Leave
      BY <2>4, ArtifactDiscarded DEF Atomic!AtomicNext
    <2>5. CASE Stopped \/ UNCHANGED collectVars
      BY <2>5 DEF Stopped, collectVars, Positions, Writable, Source, Images,
                  Phase, Delivered, Atomic!atomicVars
    <2> QED
      BY <2>1, <2>2, <2>3, <2>4, <2>5 DEF Next, Run
  <1> QED
    BY CollectInvariance, <1>1, <1>2, PTL DEF Spec, ImplementsCollect

-----------------------------------------------------------------------------
(* The loop over the disks comes to its end.                               *)

\* The disks to be copied are finitely many, and one fewer when a copy has
\* been closed.
LEMMA TodoFinite ==
    ASSUME TypeOK
    PROVE  /\ IsFiniteSet(Writable) /\ Cardinality(Writable) \in Nat
           /\ Cardinality(todo) \in Nat
           /\ todo # {} => Cardinality(todo) > 0
           /\ \A k \in todo : Cardinality(todo \ {k}) = Cardinality(todo) - 1
  <1>1. PICK n \in 0..MaxDisks :
           disks \in [1..n -> [path : Paths, readonly : BOOLEAN]]
    BY DEF TypeOK
  <1>2. IsFiniteSet(1..n) /\ Writable \subseteq 1..n /\ todo \subseteq 1..n
    BY <1>1, FS_Interval, CollectAssumption DEF TypeOK, Writable, Positions
  <1>3. IsFiniteSet(Writable) /\ IsFiniteSet(todo)
    BY <1>2, FS_Subset
  <1>4. Cardinality(Writable) \in Nat /\ Cardinality(todo) \in Nat
    BY <1>3, FS_CardinalityType
  <1>5. Cardinality(todo) = 0 <=> todo = {}
    BY <1>3, FS_EmptySet
  <1>6. \A k \in todo : Cardinality(todo \ {k}) = Cardinality(todo) - 1
    BY <1>3, FS_RemoveElement
  <1> QED
    BY <1>3, <1>4, <1>5, <1>6

\* The calls left are a natural number, so that they cannot fall for ever.
THEOREM CallsLeftNatural == Spec => [](CallsLeft \in Nat)
  <1>1. CollectInv => CallsLeft \in Nat
    BY TodoFinite DEF CollectInv, CallsLeft
  <1> QED
    BY CollectInvariance, <1>1, PTL

\* Each call of the step leaves fewer to be made, and a build begins with
\* no more than four per writable disk and two.
THEOREM CopyMakesProgress == Spec => CopyProgress
  <1>1. CollectInv /\ [Next]_collectVars => [FewerCallsLeft]_collectVars
    <2> SUFFICES ASSUME CollectInv PROVE FewerCallsLeft
      OBVIOUS
    <2>1. /\ Cardinality(todo) \in Nat
          /\ pc \in {"create", "copy", "close"} => Cardinality(todo) > 0
          /\ \A k \in todo : Cardinality(todo \ {k}) = Cardinality(todo) - 1
          /\ Cardinality(Writable) \in Nat
      BY TodoFinite DEF CollectInv
    <2> USE <2>1 DEF CallsLeft
    <2>2. ASSUME Run PROVE CallsLeft' < CallsLeft
      <3>1. CASE MkdirAll
        BY <3>1 DEF MkdirAll, Fails
      <3>2. CASE OpenSource
        BY <3>2 DEF OpenSource, Fails
      <3>3. CASE CreateDest
        BY <3>3 DEF CreateDest, Fails
      <3>4. CASE CopyData
        BY <3>4 DEF CopyData, Fails
      <3>5. CASE CloseDest
        <4>1. CASE Fails("close")
          BY <4>1 DEF Fails
        <4>2. CASE pc = "close" /\ pc' = "open" /\ \E k \in todo : todo' = todo \ {k}
          BY <4>2
        <4> QED
          BY <3>5, <4>1, <4>2 DEF CloseDest
      <3>6. CASE PutArtifact
        BY <3>6 DEF PutArtifact
      <3> QED
        BY <2>2, <3>1, <3>2, <3>3, <3>4, <3>5, <3>6 DEF Run
    <2>3. ASSUME RunVM PROVE CallsLeft' <= 4 * Cardinality(Writable) + 2
      <3>1. todo' = Writable /\ pc' \in {"mkdir", "returned"}
        BY <2>3 DEF RunVM
      <3> QED
        BY <3>1
    <2> QED
      BY <2>2, <2>3 DEF FewerCallsLeft
  <1> QED
    BY CollectInvariance, <1>1, PTL DEF Spec, CopyProgress
=============================================================================
