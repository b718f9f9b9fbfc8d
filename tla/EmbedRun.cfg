\* Texts of eight tokens, in all paragraphs and values; inputs over
\* the target, over the model's limit and over the batch cap, full batches of
\* both kinds, and calls that fail at once, are retried and give up.
SPECIFICATION Spec
CONSTANTS
  Stops <- MCStops
  Target = 3
  OverlapPercent = 40
  PrefixTokens = 1
  ModelTokenLimit = 5
  Records <- MCRecords
  BatchChunkCap = 2
  BatchTokenCap = 6
  MaxAttempts = 2
  MaxTries = 2
  TextLength = 8
INVARIANTS ChunksKeepText SpendAsPreviewed VectorsMatchInputs
