------------------------------- MODULE MCContent -------------------------------
(***************************************************************************)
(* Small instances of Listings, Ads, Announcements, Toggles, Community,    *)
(* Feedback, Profile and Gateway for TLC.  The first state picks a part;   *)
(* only that part moves, so their state spaces add.                        *)
(*   lists: a client walks a paged list whose rows come and go             *)
(*   ads, counting: the life of an ad; the views of one over two days      *)
(*   announcements, toggles, community, feedback, profile: overlapping     *)
(*     requests, which may die                                             *)
(*   gateway: three sockets of two accounts, calls and a recording         *)
(***************************************************************************)
EXTENDS Listings, TLC

CONSTANTS
  p1, p2, Reqs, None, Parts,
  AdIds, AdDates, AdDays, AdCalls,
  AnnIds, AnnChurches, AnnDates, AnnDays, AnnCalls,
  ToggledKind, ToggleUsers, ToggleCalls,
  PostIds, CommentIds, ReplyIds, Authors, CommunityCalls,
  ReviewPairs, ReviewReplies, FeedbackCalls,
  SkillWords, SkillIds, ProfileCalls,
  SocketIds, SocketOwner, CallNames, RecordingIds, MaxChunks,
  MayDie
VARIABLES part,
  aAd, aFiles, aRows, aTotal, aMetrics, aReq, aToday, aCalls, aSpoiled, aDied,
  nRow, nMemberOf, nHidden, nReq, nToday, nCalls,
  tLive, tId, tNet, tReq, tCalls,
  cItem, cFiles, cMember, cBehind, cBroken, cReq, cCalls,
  fReview, fReply, fFiles, fSameChurch, fWrote, fLoose, fBroken, fReq, fCalls,
  pAvatar, pPortfolio, pSkill, pFiles, pDisturbed, pReq, pCalls,
  gOpen, gClosed, gClients, gActive, gNewest, gUnseen, gRooms, gSent,
  gChunks, gFile, gArrived, gCount

aVars == <<aAd, aFiles, aRows, aTotal, aMetrics, aReq, aToday, aCalls, aSpoiled, aDied>>
nVars == <<nRow, nMemberOf, nHidden, nReq, nToday, nCalls>>
tVars == <<tLive, tId, tNet, tReq, tCalls>>
cVars == <<cItem, cFiles, cMember, cBehind, cBroken, cReq, cCalls>>
fVars == <<fReview, fReply, fFiles, fSameChurch, fWrote, fLoose, fBroken, fReq, fCalls>>
pVars == <<pAvatar, pPortfolio, pSkill, pFiles, pDisturbed, pReq, pCalls>>
gVars == <<gOpen, gClosed, gClients, gActive, gNewest, gUnseen, gRooms, gSent,
           gChunks, gFile, gArrived, gCount>>

Ad == INSTANCE Ads WITH
  Dates <- AdDates, LastDay <- AdDays, MaxCalls <- AdCalls,
  ad <- aAd, files <- aFiles, rows <- aRows, total <- aTotal, metrics <- aMetrics,
  req <- aReq, today <- aToday, calls <- aCalls, spoiled <- aSpoiled, died <- aDied

An == INSTANCE Announcements WITH
  Ids <- AnnIds, Churches <- AnnChurches, Dates <- AnnDates, LastDay <- AnnDays, MaxCalls <- AnnCalls,
  row <- nRow, memberOf <- nMemberOf, hidden <- nHidden, req <- nReq,
  today <- nToday, calls <- nCalls

Tg == INSTANCE Toggles WITH
  Kind <- ToggledKind, Users <- ToggleUsers, MaxCalls <- ToggleCalls,
  live <- tLive, id <- tId, net <- tNet, req <- tReq, calls <- tCalls

Co == INSTANCE Community WITH
  Posts <- PostIds, Comments <- CommentIds, Replies <- ReplyIds, Users <- Authors,
  MaxCalls <- CommunityCalls,
  item <- cItem, files <- cFiles, member <- cMember, behind <- cBehind, broken <- cBroken,
  req <- cReq, calls <- cCalls

Fb == INSTANCE Feedback WITH
  Pairs <- ReviewPairs, Replies <- ReviewReplies, MaxCalls <- FeedbackCalls,
  review <- fReview, reply <- fReply, files <- fFiles, sameChurch <- fSameChurch,
  wrote <- fWrote, loose <- fLoose, broken <- fBroken, req <- fReq, calls <- fCalls

Pr == INSTANCE Profile WITH
  Words <- SkillWords, Skills <- SkillIds, MaxCalls <- ProfileCalls,
  avatar <- pAvatar, portfolio <- pPortfolio, skill <- pSkill, files <- pFiles,
  disturbed <- pDisturbed, req <- pReq, calls <- pCalls

Gw == INSTANCE Gateway WITH
  Sockets <- SocketIds, Owner <- SocketOwner, Names <- CallNames, Recordings <- RecordingIds,
  open <- gOpen, closed <- gClosed, clients <- gClients, activeUsers <- gActive,
  newest <- gNewest, unseen <- gUnseen, rooms <- gRooms, sent <- gSent,
  chunks <- gChunks, file <- gFile, arrived <- gArrived, count <- gCount

ASSUME ContentAssumption ==
  /\ ListingsAssumption /\ Ad!AdsAssumption /\ An!AnnouncementsAssumption
  /\ Tg!TogglesAssumption /\ Co!CommunityAssumption /\ Fb!FeedbackAssumption
  /\ Pr!ProfileAssumption /\ Gw!GatewayAssumption

(* Of the instance: a post, a review and an account to follow; two tabs of  *)
(* one account and one of another.                                          *)
OneOfEach == [t \in {"p", "r", "a"} |->
                CASE t = "p" -> "post" [] t = "r" -> "review" [] OTHER -> "account"]
TwoTabs == <<"u", "u", "v">>

(* The views of an ad that is there are counted while it may be removed.    *)
MCInit ==
  /\ part \in Parts
  /\ Init /\ (part # "lists" => list = Posts /\ newest /\ limit = 2)
  /\ aAd = [i \in AdIds |-> IF part = "counting" THEN [Ad!NoAd EXCEPT !.state = "live"] ELSE Ad!NoAd]
  /\ Ad!Uncounted
  /\ An!Init /\ (part # "announcements" => nMemberOf = None)
  /\ Tg!Init /\ Co!Init /\ Fb!Init /\ Pr!Init /\ Gw!Init

(* The requests of the life of an ad, one kind of each: a shown ad of one   *)
(* day, an update of what is given in the wrong order or in part, and no    *)
(* views; and the requests that count.                                      *)
Asked(r) ==
  CASE r.op = "insert" -> r.status = "ACTIVE" /\ r.from = 1
    [] r.op \in {"drop", "judge"} ->
         /\ <<r.from, r.until>> \in {<<0, 0>>, <<2, 1>>, <<0, 1>>} /\ r.status \in {"", "HIDDEN"}
    [] OTHER -> r.op # "count"
Counted(r) == r.op \in {"count", "unlink"}

AdsNext ==
  /\ part \in {"ads", "counting"} /\ Ad!Next
  /\ \A p \in Reqs : aReq[p] = Ad!Idle /\ aReq'[p] # Ad!Idle =>
       IF part = "ads" THEN Asked(aReq'[p]) ELSE Counted(aReq'[p])
  /\ UNCHANGED <<vars, nVars, tVars, cVars, fVars, pVars, gVars>>
ListsNext == part = "lists" /\ Next
             /\ UNCHANGED <<aVars, nVars, tVars, cVars, fVars, pVars, gVars>>
AnnouncementsNext == part = "announcements" /\ An!Next
                     /\ UNCHANGED <<vars, aVars, tVars, cVars, fVars, pVars, gVars>>
TogglesNext == part = "toggles" /\ Tg!Next
               /\ UNCHANGED <<vars, aVars, nVars, cVars, fVars, pVars, gVars>>
CommunityNext == part = "community" /\ Co!Next
                 /\ UNCHANGED <<vars, aVars, nVars, tVars, fVars, pVars, gVars>>
FeedbackNext == part = "feedback" /\ Fb!Next
                /\ UNCHANGED <<vars, aVars, nVars, tVars, cVars, pVars, gVars>>
ProfileNext == part = "profile" /\ Pr!Next
               /\ UNCHANGED <<vars, aVars, nVars, tVars, cVars, fVars, gVars>>
GatewayNext == part = "gateway" /\ Gw!Next
               /\ UNCHANGED <<vars, aVars, nVars, tVars, cVars, fVars, pVars>>

MCNext ==
  /\ \/ ListsNext \/ AdsNext \/ AnnouncementsNext \/ TogglesNext
     \/ CommunityNext \/ FeedbackNext \/ ProfileNext \/ GatewayNext
  /\ UNCHANGED part
allVars == <<part, vars, aVars, nVars, tVars, cVars, fVars, pVars, gVars>>
MCSpec == MCInit /\ [][MCNext]_allVars

Symmetry == Permutations(Reqs)
-----------------------------------------------------------------------------
(* The types of all parts. *)
ContentTypeOK ==
  /\ part = "lists" => TypeOK
  /\ part \in {"ads", "counting"} => Ad!TypeOK
  /\ part = "announcements" => An!TypeOK
  /\ part = "toggles" => Tg!TypeOK
  /\ part = "community" => Co!TypeOK
  /\ part = "feedback" => Fb!TypeOK
  /\ part = "profile" => Pr!TypeOK
  /\ part = "gateway" => Gw!TypeOK

(* Totals, rows and daily metrics of an ad's views and clicks agree.        *)
CountsAgree == part \in {"ads", "counting"} => Ad!CountsAgree

(* Pictures and rows agree: thumbnails of ads, pictures of the community,   *)
(* pictures of reviews and of the replies to them.                          *)
DiskAgrees ==
  /\ part = "ads" => Ad!ThumbnailKept
  /\ part = "community" => Co!DiskAgrees
  /\ part = "feedback" => Fb!ShownWithPictures

(* What a user was told of a toggle adds up to the row there is.            *)
AnswersAddUp == part = "toggles" => Tg!AnswersAddUp

(* No list of published announcements shows one that was unpublished last.  *)
UnpublishedStaysHidden == part = "announcements" => An!UnpublishedStaysHidden

(* A list of active announcements shows none outside of its dates.          *)
ActiveWithinDates == part = "announcements" => An!ActiveWithinDates

(* Nobody writes a second review after deleting the first.                  *)
ReviewedOnce == Fb!ReviewedOnce

(* Requests about different columns of an account do not disturb others.    *)
ColumnsKept == part = "profile" => Pr!ColumnsKept

(* The registered socket is the newest, calls find a socket, recordings     *)
(* keep every chunk in order.                                               *)
SocketsKept ==
  part = "gateway" => Gw!NewestRegistered /\ Gw!CallsFindSockets /\ Gw!RecordingsWhole
=============================================================================
