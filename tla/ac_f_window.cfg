\* Two overlapping requests, one of which ends a reset late.
SPECIFICATION MCSpec
CONSTANTS
  None = None
  c1 = c1  c2 = c2  c3 = c3  t1 = t1  t2 = t2  p1 = p1  p2 = p2
  Codes = {c1, c2}
  Tokens = {t1, t2}
  Reqs = {p1, p2}
  Ops <- AllOps
  OtpLife = 2
  ShortLife = 1
  ResetLife = 3
  MaxTime = 5
  MaxUses = 2
  SlowRequests = TRUE
  MayFail = TRUE
  Parts = {"waiting"}
SYMMETRY Symmetry
INVARIANTS ResetTokenLasts
\* Clients may stop calling, and an instance has a last code and a last token.
CHECK_DEADLOCK FALSE
