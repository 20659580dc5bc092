SPECIFICATION Spec
CONSTANTS
  byReference = byReference
  withheld = withheld
  repeated = repeated
  byHypothesis = byHypothesis
  row = row
  d1 = d1
  d2 = d2
  Chunks <- MCChunks
  Rows <- MCRows
  DocOf <- MCDocOf
  Exactness <- MCExactness
  Tokens <- MCTokens
  Similar <- MCSimilar
  Scopes <- MCScopes
  NotProjected <- MCNotProjected
  Withheld <- MCWithheld
  NumVariants = 2
  Limit = 1
  CandidateLimit = 2
  MaxContext = 2
INVARIANTS ScopePreserved OnlyCriticalFailuresFail DirectEvidenceSurvives RunsAreStored
PROPERTIES RequestEnds
