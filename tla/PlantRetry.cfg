CONSTANTS
  machine = machine
  stranger = stranger
  normal = normal
  worn = worn
  noise = noise
  None = None
  Nodes = {node, csv, campaign}
  Origins = {s1, s2, "bench", "csv", "campaign", "report"}
  Assets = {machine, stranger}
  Campaigns = {}
  Contents = {normal, worn, noise}
  MaxSequence = 1
  KnownAssets = {machine}
  SeededStatus <- MCSeededStatus
  Observations <- MCObservations
  AnalysisTools <- MCAnalysisTools
  PartsTool = "inventory.query"
  OrderTool = "work_order.issue"
  Stocked = TRUE
  MaxIncidents = 2
  MaxFaultCalls = 1
  Slots = {q1, q2}
  Sessions = {s1, s2}
  Mixes <- MCMixes
  LiveNodes = {node}
  BenchNodes = {node}
  CsvNode = csv
  CampaignNode = campaign
  CampaignAsset = machine
  CampaignSignals <- MCCampaignSignals
  CsvFiles <- MCCsvFiles
  Measurement <- MCMeasurement
VIEW Seen
SYMMETRY Symmetric
SPECIFICATION Spec
PROPERTY RetryChangesNothing
