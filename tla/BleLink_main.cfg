SPECIFICATION FairSpec
CONSTANTS
  QMax <- MCQMax
  MaxLinks <- MCMaxLinks
  Sent <- MCSent
INVARIANTS
  StatusFollowsLink
  NothingOutlivesLink
  ProtectedIsPaired
PROPERTIES
  UnpairedLinkEnds
