\* Two writable images with the same file name.
CONSTANTS
    Dirs = {"images", "backup", "output"}
    Bases = {"root", "data"}
    OutputDir = "output"
    MaxDisks = 2
    MaxBuilds = 1
SPECIFICATION Spec
INVARIANT
    EveryDiskCollected
