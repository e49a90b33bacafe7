CONSTANTS
  p1 = p1
  p2 = p2
  t1 = t1
  t2 = t2
  Ids = {i1, i2}
  Pages = {p1, p2}
  Tenants = {t1, t2}
  TenantOf <- TwoTenants
  Skus = {k1}
  NoSku = NoSku
  NoTenant = NoTenant
  NoId = NoId
  Unlisted = Unlisted
  NoRow = NoRow
  MaxSold = 1
  MaxCalls = 2
SPECIFICATION Spec
INVARIANTS TypeOK ListsAreOwn StockSurvivesEdits
SYMMETRY Symmetry
