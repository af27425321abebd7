SPECIFICATION Spec
CONSTANTS
  Requests = {r1, r2}
  Kinds <- Shared
  Tenants = {t1}
  Prompts = {p1}
  Models = {m1, m2}
  Slug = slug
  None = None
SYMMETRY RequestSymmetry
INVARIANT ReplayedForItsModel
CHECK_DEADLOCK FALSE
