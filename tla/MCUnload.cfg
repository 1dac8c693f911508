SPECIFICATION Spec
CONSTANTS
    Libraries <- MCLibraries
    HighName = 99
    SrcBlksize = 264
    TrackCap = 280
    TrackOvh = 40
    TrackLen = 320
    TrkPerCyl = 2
    RecBase = 8
    DirBlk = 112
    MaxText = 130
INVARIANTS ReloadRecovers FoundByKey TracksHold SizeExact
