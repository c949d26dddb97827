CONSTANTS
  flow = flow
  noid = noid
  Ids = {flow}
  NoId = noid
  MaxDepth = 2
  Towers <- MCTowers
  Installed = 2
SPECIFICATION Spec
INVARIANTS TypeOK EffectHasConsent OneOutcome OneSequence GuardedOnce
PROPERTIES RefusalsAreTheirOwn
