SPECIFICATION Spec
CONSTANTS
  p1 = p1
  p2 = p2
  NoProfile = NoProfile
  Absent = Absent
  Torn = Torn
  Profiles <- MCProfiles
  CrashKinds <- OneKind
INVARIANT LanguageStaysClean
SYMMETRY Symmetry
