CONSTANT Limit = 8
SPECIFICATION TSpec
INVARIANTS CanonicalRanges QueriesExact
PROPERTY TracksByteSet
