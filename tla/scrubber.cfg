CONSTANTS
    Callers = {c1, c2}
    Corpora <- SampleCorpora
    CacheSize = 2
SPECIFICATION SSpec
INVARIANTS ScrubIsReference CacheIsLru BandIsRemovable ScrubIsFinal
