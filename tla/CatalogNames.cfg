\* Lists and calls, by name and by memory source, while three routes come and go, answer or fail.
SPECIFICATION Spec
CONSTANTS
  Size = 3
  Slug <- MCSlug
  Tools <- MCTools
  Offers <- MCOffers
  Sources <- MCSources
INVARIANTS TypeOK NamesKeepTheirMeaning OnlyRenamedIsDenied SourcesKeepTheirRoute
