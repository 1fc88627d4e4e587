-------------------------- MODULE MCCollectArtifact --------------------------
(***************************************************************************)
(* Model checking CollectArtifact, with what a comment promises and the    *)
(* code does not keep when Config.Prepare lets the file names clash.       *)
(***************************************************************************)
EXTENDS CollectArtifact

\* step_collect_artifact.go:24 "Run copies non-readonly disk images to the
\* output directory": all of them, even when two have the same file name.
EveryDiskCollected ==
    (\A k \in Positions : Source(k).dir # OutputDir) /\ artifact.made
        => \A k \in Writable : fs[artifact.files[k]] = Image(k, build)
=============================================================================
