SPECIFICATION FlowTableSpec
CONSTANTS
  FlowIds = {f1, f2}
  Paths = {p1, p2}
  ZeroPath = zero
  NoPath = none
  Unseen = unseen
  FlowTime = 2
  Wrap = 6
  MaxGap = 9
INVARIANT FlowTableTypeOK
PROPERTIES
  FlowletKeepsPath
  PauseTakesOffer
