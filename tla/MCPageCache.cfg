\* Two blocks of two pages (page 0 is never cached), two slots: a third page
\* forces a flush, a flush finds blocks with one, two or no dirty pages.
CONSTANTS
  NumBlocks = 2
  BlockSize = 2
  CacheSize = 2
  Value = {a, b}
  Erased = Erased
SPECIFICATION FairSpec
INVARIANTS
  CleanMatchesCard
PROPERTIES
  OnlyDirtyBlocksTouched
  StoreSpec
  OperationReturns
