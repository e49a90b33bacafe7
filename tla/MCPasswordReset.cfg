CONSTANTS
  Tenants = {t1, t2}
  Emails = {e1, e2}
  Signups = {c1, c2}
  Asked <- Offers
  NoTenant = NoTenant
  Forgots = {f1, f2}
  Resets = {r1, r2}
  NoToken = NoToken
  EmptyToken = EmptyToken
  NoUser = NoUser
  NoReset = NoReset
SPECIFICATION AccountsSpec
INVARIANTS TypeOK AccountsAreWhole OkMeansAccount ResetsStayApart
SYMMETRY MCSymmetry
CHECK_DEADLOCK FALSE
