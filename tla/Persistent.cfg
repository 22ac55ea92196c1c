SPECIFICATION Spec
CONSTANTS
  Params = {p, q}
  AutoSaved = {p}
  Given = {p}
  Values = {Initial, Factory, A}
  Exact = {Initial, Factory}
  Initial = Initial
  Factory = Factory
  Done = Done
  NoFile = NoFile
  Partial = Partial
  Poller = Poller
  Handlers = {h1}
  Nobody = Nobody
  MaxFaults = 1
  MaxStops = 1
  MaxRequests = 1
INVARIANTS
  
  KnownWhatIsSaved
PROPERTIES
  SavedWhenAlone
  SavedAtLast
