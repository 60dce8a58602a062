SPECIFICATION FilesSpec
CONSTANTS
  Programs = {e1, e2}
  Providers = {"new", "old"}
  Pages = {g1, g2}
  Configs <- Repository
  Commands <- CommandLines
  MaxStarts = 3
  Placeholder = Placeholder
  Cut = Cut
  Nothing = Nothing
INVARIANT PinsBreakInKnownWays
PROPERTIES EnabledOnlyChecked EditsLostOnlyToRaces
SYMMETRY Alike
CHECK_DEADLOCK FALSE
