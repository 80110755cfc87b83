CONSTANTS
  Node = node
  Asset = asset
  Campaign = campaign
  Origin = edge
  Nodes = {node}
  Assets = {asset}
  Campaigns = {campaign}
  Origins = {edge}
  None = None
  MaxWindows = 3
  MaxSequence = 3
  SpoolSize = 2
  FlushLimit = 2
  Contents <- MCContents
SPECIFICATION Spec
INVARIANT NumberUsedOnce
