SPECIFICATION Spec
CONSTANTS
  Requests = {r1, r2}
  Kinds <- Every
  Tenants = {t1, t2}
  Prompts = {p1, p2}
  Models = {m1, m2}
  Slug = slug
  None = None
SYMMETRY RequestSymmetry
INVARIANTS
  TypeOK
  CachesKeepTenantAndModel
  AnswersDoNotDrift
  AnsweredAsAnnounced
PROPERTY ImplementsLifecycle
CHECK_DEADLOCK FALSE
