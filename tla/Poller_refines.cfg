\* SChains.js with its SChain cards refines Snapshot and eventually loads,
\* with error envelopes among the answers.
CONSTANTS
  View = "SChains"
  FirstChain <- MCFirstChain
  CfgSlots = {c1}
  None = None
  Slots = {s1, s2}
  MaxVersion <- MCMaxVersion
  Outcomes <- OkOrError
  Free = Free
  Empty = Empty
  NoData = NoData
SPECIFICATION Spec
INVARIANT TypeOK
PROPERTIES SnapshotRefinement EventuallyLoaded
