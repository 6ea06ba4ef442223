SPECIFICATION Spec
CONSTANTS
  g0 = g0
  g1 = g1
  g2 = g2
  g3 = g3
  c0 = c0
  c1 = c1
  k0 = k0
  k1 = k1
  r1 = r1
  Generations = {g0, g1}
  SeedGen = g0
  Contents = {c0, c1}
  SeedContent = c0
  Catalogs = {k0}
  CatalogOf <- MCOneCatalog
  Readers = {r1}
  Packaged = FALSE
  MaxFaults = 1
  NoGen = NoGen
  NoContent = NoContent
  NoCatalog = NoCatalog
SYMMETRY Interchangeable
PROPERTIES SweepSparesReferences ImplementsRegister
