SPECIFICATION Spec
CONSTANTS
  Requests = {r1, r2}
  Kinds <- Every
  Tenants = {t1}
  Prompts = {p1}
  Models = {m1, m2}
  Slug = slug
  None = None
SYMMETRY RequestSymmetry
INVARIANT EveryRequestIsReported
CHECK_DEADLOCK FALSE
