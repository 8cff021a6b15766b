\* Announcements with dates, published.
SPECIFICATION MCSpec
CONSTANTS
  None = None
  p1 = p1  p2 = p2
  Reqs = {p1, p2}
  Ids = {1, 2, 3}
  Limits = {1, 2}
  Lists <- AllLists
  Changes = 1
  AdIds = {1}  AdDates = {1, 2}  AdDays = 1  AdCalls = 4
  AnnIds = {"x"}  AnnChurches = {"c"}  AnnDates = {1, 2}  AnnDays = 1  AnnCalls = 3
  ToggledKind <- OneOfEach  ToggleUsers = {"u"}  ToggleCalls = 4
  PostIds = {"p"}  CommentIds = {"c", "d"}  ReplyIds = {"r"}  Authors = {"u"}  CommunityCalls = 5
  ReviewPairs = {"a"}  ReviewReplies = {"r", "s"}  FeedbackCalls = 5
  SkillWords = {"v", "w"}  SkillIds = {"k", "l"}  ProfileCalls = 3
  SocketIds = {1, 2, 3}  SocketOwner <- TwoTabs  CallNames = {"n", "o"}  RecordingIds = {"r"}  MaxChunks = 2
  MayDie = TRUE
  Parts = {"announcements"}
SYMMETRY Symmetry
INVARIANTS ActiveWithinDates
\* Clients may stop calling, and an instance has a last row and a last call.
CHECK_DEADLOCK FALSE
