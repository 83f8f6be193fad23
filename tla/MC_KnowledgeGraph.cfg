CONSTANTS
  Entities <- MC_Entities
  Mentions <- MC_Mentions
  Extractions <- MC_Extractions
  Rememberers = {r}
  Consolidators = {c}
  Limit = 20
SPECIFICATION FairSpec
INVARIANTS RestsOnExtracted
PROPERTIES GraphOnlyGrows ConclusionsDrawn
