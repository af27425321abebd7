SPECIFICATION Spec
CONSTANTS
  Requests = {r1, r2}
  Kinds <- Shared
  Tenants = {t1}
  Prompts = {p1}
  Models = {m1, m2}
  Slug = slug
  None = None
INVARIANT CachedBodiesAreClean
CHECK_DEADLOCK FALSE
