SPECIFICATION Spec
CONSTANTS
  c1 = c1  c2 = c2  c3 = c3  t1 = t1  t2 = t2  h1 = h1  h2 = h2
  Default <- MCDefault
  Conns = {c1, c2, c3}
  Tables <- SomeTables
  Topics = {t1, t2}
  Hashes = {h1, h2}
  MaxMismatches = 1
SYMMETRY Alike
CONSTRAINT Apart
INVARIANTS
  InForceIsSound
PROPERTIES
  RefusalChangesNothing
