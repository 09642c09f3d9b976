SPECIFICATION Spec
CONSTANT Jobs <- MCJobs
INVARIANTS CutsWholeCharacters ChunksKeepText PiecesKeepLines BestKept
PROPERTIES ReductionEnds
