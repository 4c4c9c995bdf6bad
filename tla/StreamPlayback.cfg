SPECIFICATION FairSpec
CONSTANTS
    SampleBytes = 2
    ChunkSamples = 3
    FrameSamples = 2
    Lengths = {0, 1, 2, 3, 5}
    MaxEntries = 3
    Failures = {"decoder", "probe"}
    MaxFailures = 2
INVARIANTS
    TypeOK
    WholeChunks
    AudioIsAnnounced
    AnnouncedWhereHeard
PROPERTIES
    EmptyMeansEnded
    AppendedIsHeard
    PlaysTheProgramme
