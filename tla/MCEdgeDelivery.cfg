CONSTANTS
  Node = node
  Asset = asset
  Campaign = campaign
  Origin = edge
  Nodes = {node}
  Assets = {asset}
  Campaigns = {campaign}
  Origins = {edge}
  None = None
  MaxWindows = 4
  MaxSequence = 4
  SpoolSize = 2
  FlushLimit = 2
  Contents <- MCContents
SPECIFICATION FairSpec
INVARIANTS TypeOK ToldTruth SpoolOrdered BlockedOnlyByReuse
PROPERTIES ImplementsDelivery SpoolDrains
