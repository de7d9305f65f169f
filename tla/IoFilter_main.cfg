SPECIFICATION IoFairSpec
CONSTANTS
  FilterQMax <- MCFilterQMax
  KeyMsgs <- MCKeyMsgs
  MaxRaces <- MCMaxRaces
INVARIANTS
  DisabledIsServed
  OnlyRacesStrand
PROPERTIES
  InputsComeBack
