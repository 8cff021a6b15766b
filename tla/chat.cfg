\* Two overlapping requests that may die, or one request at a time.
SPECIFICATION MCSpec
CONSTANTS
  None = None
  a = a  b = b  k1 = k1  k2 = k2  m1 = m1  m2 = m2  p1 = p1  p2 = p2
  Users = {a, b}
  Convs = {k1, k2}
  Messages = {m1, m2}
  Reqs = {p1, p2}
  Ops <- AllOps
  MaxClock = 8
  MayFail = TRUE
  Scenarios = {"overlap", "serial"}
SYMMETRY Symmetry
INVARIANTS TypeOK ReadByReader SerialUnreadExact SerialOneConversation SerialNewestFirst
PROPERTIES ReadCoversShown
\* Clients may stop calling, and an instance has a last conversation and a last message.
CHECK_DEADLOCK FALSE
