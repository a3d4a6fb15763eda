\* One input of every family of rules, then its answer.
SPECIFICATION Spec

INVARIANTS
  
  PlaylistServable
  RangeExact
  FreshnessBounded
  AccessDecided
  RedirectsEnd
  ImageFits

\* A behaviour ends with its answer.
CHECK_DEADLOCK FALSE
