CONSTANTS
  p1 = p1
  p2 = p2
  Process = {p1, p2}
  MaxKey = 2
  MaxCrash = 1
SPECIFICATION Spec
SYMMETRY Symmetry
INVARIANTS
  ProfileOpens
  UnlockCleans
PROPERTIES
  RefinesSealedProfile
