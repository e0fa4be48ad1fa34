\* An invalid memory option beside a search that would have been made.
SPECIFICATION FrontSpec
CONSTANTS
  Defaults <- MCDefaults
  Startups <- MCStartups
  Count = 2
  Names = 2
  FirstNames <- MCFirstNames
  PageSize = 1
  MaxEdits = 1
  Sources <- MCSources
INVARIANTS InvalidInputFails
