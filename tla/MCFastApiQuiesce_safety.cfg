SPECIFICATION FairSpec
CONSTANTS
  i1 = i1
  i2 = i2
  i3 = i3
  o1 = o1
  o2 = o2
  Infer = {i1, i2, i3}
  Operator = {o1, o2}
INVARIANT TypeOK
INVARIANT InflightCounts
INVARIANT QuiescedIsIdle
PROPERTY QuiesceAnswers
