SPECIFICATION Spec
CONSTANTS
  c1 = c1
  c2 = c2
  Ctxs <- MCCtxs
  Ctx0 = ctx0
  NoCtx = NoCtx
  Subs <- MCSubs
  q1 = q1
  q2 = q2
  Queries <- MCQueries
  Targets <- MCTargets
  Timestamp = "GL_TIMESTAMP"
  MaxFences = 2
SYMMETRY MCSymmetry
INVARIANTS TypeOK CommandsInOwnContext CachesTrue AnsweredBeforeReport QueriesOfTheLiving OverlayIsTheClient
