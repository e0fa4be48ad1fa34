\* Two skills and two names, two memory sources, every surface.
SPECIFICATION FairFrontSpec
CONSTANTS
  Defaults <- MCDefaults
  Startups <- MCStartups
  Count = 2
  Names = 2
  FirstNames <- MCFirstNames
  PageSize = 1
  MaxEdits = 1
  Sources <- MCSources
INVARIANTS FrontTypeOK MemoryIsHonest SurfaceIsSound OutageIsIsolated MemoryIsAskedFor
INVARIANTS FreshAnswers DeniedSkillsWereAway PagesMissNothing
PROPERTIES CallsAnswered
