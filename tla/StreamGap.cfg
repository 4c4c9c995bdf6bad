SPECIFICATION Spec
CONSTANTS
    SampleBytes = 2
    ChunkSamples = 3
    FrameSamples = 2
    Lengths = {2, 5}
    MaxEntries = 2
    Failures = {"probe"}
    MaxFailures = 1
INVARIANT Gapless
