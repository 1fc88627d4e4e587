--------------------------- MODULE CollectArtifact ---------------------------
(***************************************************************************)
(* StepCollectArtifact.Run and copyFile (step_collect_artifact.go) over a  *)
(* file system, the artifact they produce and Artifact.Destroy             *)
(* (artifact.go), for a user who builds again and again into the same      *)
(* output directory and may destroy an artifact or keep it.                *)
(*                                                                         *)
(* VmBuild counts the disks it copies; here every copy is the four system  *)
(* calls it is made of, each of which can fail.                            *)
(***************************************************************************)
EXTENDS Naturals, FiniteSets

CONSTANTS
    Dirs,       \* directories
    Bases,      \* file names within a directory
    OutputDir,  \* "output-" + PackerBuildName
    MaxDisks,   \* bound: disk images in the configuration
    MaxBuilds   \* bound: builds run one after the other

ASSUME CollectAssumption ==
    /\ OutputDir \in Dirs
    /\ MaxDisks \in Nat
    /\ MaxBuilds \in Nat

VARIABLES
    disks,     \* the configured disk images, by position
    fs,        \* what every file holds
    build,     \* the number of the current build
    pc,        \* where the step is
    todo,      \* positions of the writable disks still to be copied
    copied,    \* copiedFiles: the destination of each disk already copied
    artifact   \* the artifact in the state bag

collectVars == <<disks, fs, build, pc, todo, copied, artifact>>

-----------------------------------------------------------------------------

Paths == [dir : Dirs, base : Bases]

\* What a file can hold: nothing as it does not exist, nothing yet, part of
\* an image, or what the guest of a build left in a disk image.
Content == [kind : {"absent", "empty", "torn", "image"},
            disk : 0..MaxDisks, build : 0..MaxBuilds]

Absent == [kind |-> "absent", disk |-> 0, build |-> 0]
Empty  == [kind |-> "empty", disk |-> 0, build |-> 0]
Torn   == [kind |-> "torn", disk |-> 0, build |-> 0]

Image(k, b) == [kind |-> "image", disk |-> k, build |-> b]

NoFiles    == [k \in {} |-> {}]
NoArtifact == [made |-> FALSE, files |-> NoFiles]

Positions == DOMAIN disks
Writable  == {k \in Positions : ~disks[k].readonly}

Source(k) == disks[k].path

\* Mutant: the copy is put next to the image.
DestBesideSource(k) == Source(k)

\* filepath.Join(OutputDir, filepath.Base(src))
Dest(k) == [dir |-> OutputDir, base |-> Source(k).base]

\* No image is attached twice.
Distinct == \A j, k \in Positions : Source(j) = Source(k) => j = k

\* The disk of the current iteration of the copy loop.
Current(k) == k \in todo /\ \A j \in todo : k <= j

Init ==
    /\ \E n \in 0..MaxDisks :
          disks \in [1..n -> [path : Paths, readonly : BOOLEAN]]
    /\ Distinct
    /\ fs = [p \in Paths |->
                IF \E k \in Positions : Source(k) = p
                THEN Image(CHOOSE k \in Positions : Source(k) = p, 0)
                ELSE Absent]
    /\ build = 0
    /\ pc = "idle"
    /\ todo = {}
    /\ copied = NoFiles
    /\ artifact = NoArtifact

-----------------------------------------------------------------------------

\* Mutant: read-only disks are collected too.
RunVMAll ==
    /\ pc = "idle"
    /\ build < MaxBuilds
    /\ \A k \in Positions : fs[Source(k)] # Absent
    /\ build' = build + 1
    /\ todo' = Positions
    /\ copied' = NoFiles
    /\ pc' = IF Positions = {} THEN "returned" ELSE "mkdir"
    /\ UNCHANGED <<disks, fs, artifact>>

\* Steps 1 to 6 of a build: Config.Prepare has found every image, and the
\* guest has written to the writable ones and is gone.  The step then picks
\* the disks to copy, and is done at once when there are none.
RunVM ==
    /\ pc = "idle"
    /\ build < MaxBuilds
    /\ \A k \in Positions : fs[Source(k)] # Absent
    /\ build' = build + 1
    /\ fs' = [p \in Paths |->
                IF \E k \in Writable : Source(k) = p
                THEN Image(CHOOSE k \in Writable : Source(k) = p, build')
                ELSE fs[p]]
    /\ todo' = Writable
    /\ copied' = NoFiles
    /\ pc' = IF Writable = {} THEN "returned" ELSE "mkdir"
    /\ UNCHANGED <<disks, artifact>>

\* Any error ends the step: the files copied so far stay, without artifact.
Fails(at) ==
    /\ pc = at
    /\ pc' = "returned"
    /\ UNCHANGED <<disks, build, todo, copied, artifact>>

MkdirAll ==
    \/ /\ pc = "mkdir"
       /\ pc' = "open"
       /\ UNCHANGED <<disks, fs, build, todo, copied, artifact>>
    \/ Fails("mkdir") /\ UNCHANGED fs

\* copyFile: os.Open of the source.
OpenSource ==
    \/ /\ pc = "open"
       /\ \E k \in todo : Current(k) /\ fs[Source(k)] # Absent
       /\ pc' = "create"
       /\ UNCHANGED <<disks, fs, build, todo, copied, artifact>>
    \/ todo # {} /\ Fails("open") /\ UNCHANGED fs

\* copyFile: os.Create truncates the destination.
CreateDest ==
    \/ /\ pc = "create"
       /\ \E k \in todo : Current(k) /\ fs' = [fs EXCEPT ![Dest(k)] = Empty]
       /\ pc' = "copy"
       /\ UNCHANGED <<disks, build, todo, copied, artifact>>
    \/ Fails("create") /\ UNCHANGED fs

\* Mutant: a short copy is taken for the end of the file.
CopyShort ==
    /\ pc = "copy"
    /\ \E k \in todo :
          /\ Current(k)
          /\ fs' \in {[fs EXCEPT ![Dest(k)] = c] : c \in {fs[Source(k)], Torn}}
    /\ pc' = "close"
    /\ UNCHANGED <<disks, build, todo, copied, artifact>>

\* copyFile: io.Copy writes all of the source, or fails part of the way.
CopyData ==
    \/ /\ pc = "copy"
       /\ \E k \in todo :
             Current(k) /\ fs' = [fs EXCEPT ![Dest(k)] = fs[Source(k)]]
       /\ pc' = "close"
       /\ UNCHANGED <<disks, build, todo, copied, artifact>>
    \/ /\ Fails("copy")
       /\ \E k \in todo : Current(k) /\ fs' = [fs EXCEPT ![Dest(k)] = Torn]

\* Mutant: the loop copies the same disk again and again.
CloseRepeating ==
    /\ pc = "close"
    /\ \E k \in todo :
          /\ Current(k)
          /\ copied' = [j \in DOMAIN copied \cup {k} |->
                            IF j = k THEN Dest(k) ELSE copied[j]]
    /\ pc' = "open"
    /\ UNCHANGED <<disks, fs, build, todo, artifact>>

\* copyFile: out.Close; a delayed write error shows up here.  On success the
\* destination joins copiedFiles and the loop goes on.
CloseDest ==
    \/ /\ pc = "close"
       /\ \E k \in todo :
             /\ Current(k)
             /\ copied' = [j \in DOMAIN copied \cup {k} |->
                               IF j = k THEN Dest(k) ELSE copied[j]]
             /\ todo' = todo \ {k}
       /\ pc' = "open"
       /\ UNCHANGED <<disks, fs, build, artifact>>
    \/ /\ Fails("close")
       /\ \E k \in todo :
             /\ Current(k)
             /\ fs' \in {fs, [fs EXCEPT ![Dest(k)] = Torn]}

\* The loop is over: the artifact goes into the state bag.
PutArtifact ==
    /\ pc = "open"
    /\ todo = {}
    /\ artifact' = [made |-> TRUE, files |-> copied]
    /\ pc' = "returned"
    /\ UNCHANGED <<disks, fs, build, todo, copied>>

Run == MkdirAll \/ OpenSource \/ CreateDest \/ CopyData \/ CloseDest \/ PutArtifact

\* Artifact.Destroy: os.RemoveAll of the whole output directory.  When it
\* fails, with an error that Packer only reports, part of the copies stays.
Destroy ==
    /\ pc = "returned"
    /\ artifact.made
    /\ \E left \in SUBSET {p \in Paths : p.dir = OutputDir} :
          fs' = [p \in Paths |->
                    IF p.dir = OutputDir /\ p \notin left THEN Absent ELSE fs[p]]
    /\ artifact' = NoArtifact
    /\ pc' = "idle"
    /\ UNCHANGED <<disks, build, todo, copied>>

\* Packer exits; the files stay and the next build knows nothing of them.
Leave ==
    /\ pc = "returned"
    /\ artifact' = NoArtifact
    /\ pc' = "idle"
    /\ UNCHANGED <<disks, fs, build, todo, copied>>

\* The user is done building, or an image is gone and no build can start.
Stopped ==
    /\ pc = "idle"
    /\ build = MaxBuilds \/ \E k \in Positions : fs[Source(k)] = Absent
    /\ UNCHANGED collectVars

Next == RunVM \/ Run \/ Destroy \/ Leave \/ Stopped

Spec     == Init /\ [][Next]_collectVars
FairSpec == Spec /\ WF_collectVars(Run)

-----------------------------------------------------------------------------

Busy == {"mkdir", "open", "create", "copy", "close"}

TypeOK ==
    /\ \E n \in 0..MaxDisks :
          disks \in [1..n -> [path : Paths, readonly : BOOLEAN]]
    /\ fs \in [Paths -> Content]
    /\ build \in 0..MaxBuilds
    /\ pc \in Busy \cup {"idle", "returned"}
    /\ todo \subseteq Writable
    /\ DOMAIN copied \subseteq Writable
    /\ artifact.made \in BOOLEAN

\* No image lies in the output directory and no two writable images share a
\* file name: what Config.Prepare does not check.
Apart ==
    /\ \A k \in Positions : Source(k).dir # OutputDir
    /\ \A j, k \in Writable : Source(j).base = Source(k).base => j = k

\* An artifact holds every writable disk image, and none but those, as the
\* guest of this build left it: no copy of an earlier build, no torn copy of
\* one that failed, and nothing written over it by the copies that follow.
ArtifactFaithful ==
    Apart /\ artifact.made =>
        /\ DOMAIN artifact.files = Writable
        /\ \A k \in Writable : fs[artifact.files[k]] = Image(k, build)

\* Collecting, failing to, and destroying the artifact leave the images of
\* the configuration alone: only a guest writes to them.
SourcesLeftAlone ==
    Apart /\ build' = build
        => \A k \in Positions : fs'[Source(k)] = fs[Source(k)]

SourcesKept == [][SourcesLeftAlone]_collectVars

\* What the step shows of the files, of the loop and of the artifact.
Images    == [k \in Positions |-> fs[Source(k)]]
Phase     == IF pc \in Busy THEN "collecting" ELSE pc
Delivered == IF artifact.made
             THEN [k \in DOMAIN artifact.files |-> fs[artifact.files[k]]]
             ELSE NoFiles

Atomic == INSTANCE AtomicCollect WITH
    images <- Images, writable <- Writable, phase <- Phase, delivered <- Delivered

\* However many system calls the copies take, and whichever of them fails,
\* the step hands over all writable images at once or none: the file system
\* and the copy loop implement AtomicCollect.
ImplementsCollect ==
    /\ Atomic!AtomicInit
    /\ [][Apart => Atomic!AtomicNext]_(Atomic!atomicVars)

\* How many system calls the step still has to make if none of them fails:
\* MkdirAll, then open, create, copy and close for every disk, and the Put.
CallsLeft ==
    LET n == 4 * Cardinality(todo)
    IN  CASE pc = "mkdir"  -> n + 2
          [] pc = "open"   -> n + 1
          [] pc = "create" -> n
          [] pc = "copy"   -> n - 1
          [] pc = "close"  -> n - 2
          [] OTHER         -> 0

\* The loop over the disks comes to its end: whatever fails, each call brings
\* the step closer to its return, no disk is copied twice, and a build makes
\* at most four calls per writable disk and two more.
FewerCallsLeft ==
    /\ Run => CallsLeft' < CallsLeft
    /\ RunVM => CallsLeft' <= 4 * Cardinality(Writable) + 2

CopyProgress == [][FewerCallsLeft]_collectVars

\* The step returns, with an artifact or with an error.
CollectReturns == pc = "mkdir" ~> pc = "returned"

-----------------------------------------------------------------------------
(* The inductive invariant of the copy loop.                               *)

LoopInv ==
    Apart /\ pc \in Busy =>
        /\ DOMAIN copied \cap todo = {}
        /\ DOMAIN copied \cup todo = Writable
        /\ \A k \in Writable : fs[Source(k)] = Image(k, build)
        /\ \A k \in DOMAIN copied :
              copied[k] = Dest(k) /\ fs[Dest(k)] = Image(k, build)
        /\ pc = "close" =>
              \A k \in todo : Current(k) => fs[Dest(k)] = Image(k, build)

CollectInv ==
    /\ TypeOK
    /\ Distinct
    /\ LoopInv
    /\ ArtifactFaithful
    /\ artifact.made => pc = "returned"
    /\ pc \in {"create", "copy", "close"} => todo # {}
=============================================================================
