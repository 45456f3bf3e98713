\* Containers.js applies answers in completion order: does the shown version regress?
CONSTANTS
  View = "Containers"
  FirstChain <- MCFirstChain
  CfgSlots = {c1}
  None = None
  Slots = {s1, s2, s3}
  MaxVersion <- MCMaxVersion
  Outcomes <- OkOnly
  Free = Free
  Empty = Empty
  NoData = NoData
SPECIFICATION Spec
PROPERTY NoRegression
