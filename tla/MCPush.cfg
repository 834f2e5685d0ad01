\* Two pushes with a layer and a tag in common, every kind of registry.
SPECIFICATION Spec
CONSTANTS
  p1 = p1
  p2 = p2
  layer = layer
  config1 = config1
  config2 = config2
  m1 = m1
  m2 = m2
  tag = tag
  NoTag = NoTag
  Pushes <- MCPushes
  LayerOf <- MCLayerOf
  ConfigOf <- MCConfigOf
  ManifestOf <- MCManifestOf
  TagOf <- MCTagOf
  Settings <- MCSettings
INVARIANTS ManifestsAreWhole PushedIsThere ExpiryIsAnswered
PROPERTY EveryPushEnds
\* Both pushes end.
CHECK_DEADLOCK FALSE
