------------------------------- MODULE MCChat -------------------------------
(***************************************************************************)
(* Small instances of Chat for TLC, in two scenarios: overlapping requests *)
(* that may die, and one request at a time, where none dies and two        *)
(* instants are a millisecond apart.                                       *)
(***************************************************************************)
EXTENDS Chat, TLC

CONSTANTS a, b, k1, k2, m1, m2, p1, p2, Scenarios
VARIABLE scenario

Symmetry == Permutations(Messages) \cup Permutations(Reqs) \cup Permutations(Users)

(* Where requests overlap, one conversation is open from the start, no      *)
(* other is opened, and the clock is bounded by                             *)
OverlapClock == 3

OneOpen ==
  conv = [k \in Convs |-> IF k = k1 THEN [state |-> "there", pair |-> {a, b}, updated |-> 1]
                          ELSE NoConv]

MCInit ==
  /\ scenario \in Scenarios
  /\ IF scenario = "overlap" THEN Quiet /\ OneOpen ELSE Init

Timed == {"make", "stamp", "bump", "touch"}

Serially ==
  /\ \A p \in Reqs : req'[p] # Idle => \A q \in Reqs \ {p} : req[q] = Idle
  /\ (\E p \in Reqs : req[p].pc \in Timed) => clock' = clock + 1

Overlapping ==
  /\ clock' <= OverlapClock
  /\ \A p \in Reqs : req'[p].op # "open"

MCNext ==
  /\ \E p \in Reqs : \/ Arrive(p) \/ Step(p)
                     \/ scenario = "overlap" /\ Fail(p)
  /\ IF scenario = "overlap" THEN Overlapping ELSE Serially
  /\ UNCHANGED scenario

MCSpec == MCInit /\ [][MCNext]_<<vars, scenario>>
-----------------------------------------------------------------------------
(* One request at a time: whenever all are over, the unread list holds      *)
(* every message of the others that is not READ.                            *)
SerialUnreadExact == scenario = "serial" /\ AtRest => UnreadIsExact

(* One request at a time: two users have one conversation at most.          *)
SerialOneConversation == scenario = "serial" => OneConversationPerPair

(* One request at a time: the list of conversations is in the order of      *)
(* their newest messages.                                                   *)
SerialNewestFirst == scenario = "serial" /\ AtRest => UpdatedByNewest
=============================================================================
