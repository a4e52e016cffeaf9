SPECIFICATION StoreSpec
CONSTANTS
  Fields = {wifi}
  Values = {zero, v1}
  Zero = zero
  Editions = {claude, codex}
  EditionBytes = {claude, codex, other}
  Unset = claude
  FirstSeqs <- MCFirstSeqs
  MaxSeq = 4
INVARIANTS DurableOnSuccess StampIsWhole
PROPERTIES StampOnce ImplementsStoredRecord
