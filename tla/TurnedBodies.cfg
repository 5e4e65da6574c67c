SPECIFICATION DamageSpec
CONSTANTS
  Columns = 3
  Levels = 4
  Matter <- Stone
  Resistance <- Toughness
  BuildCost <- Toughness
  FullIntegrity = 1
  Blasts = {}
  Scenes <- OneScene
  Poses <- Quarter
  UnitsAtStart = 2
  MaxCommands = 2
CHECK_DEADLOCK FALSE
PROPERTIES BuildsAvoidBodies
