SPECIFICATION FairSpec
CONSTANTS
  Configurations <- MCConfigurations
  Explored <- MCExplored
  Present = {0, 1, 2}
  Conns = {c1}
  Engines = {e1, e2}
  None = None
  Lives = 2
CHECK_DEADLOCK FALSE
INVARIANTS
  OrchestratorTypeOK
  NamesResolve
  PinnedFitsIfIdsDiffer
  PathsApart
  ServingSurvivesRestart
  OwnEngineAnswers
  OnlyMissedSurvive
PROPERTIES
  ShutdownEnds
  TunnelsEnd
