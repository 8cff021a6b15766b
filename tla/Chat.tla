-------------------------------- MODULE Chat --------------------------------
(***************************************************************************)
(* Conversations of two users: opening one, sending and deleting messages, *)
(* marking them read, counting the unread, deleting the conversation.      *)
(* The services of chat/conversation and chat/message await the database   *)
(* between a check and the write it is for, and only readMessages writes   *)
(* inside a transaction.  A message's createdAt is chosen by the client    *)
(* library when the insert is issued; its row is visible later.            *)
(***************************************************************************)
EXTENDS Integers, FiniteSets

CONSTANTS
  Users,      \* the accounts that chat
  Convs,      \* the conversation rows an instance creates
  Messages,   \* the message rows it creates
  Reqs,       \* HTTP requests that can be in flight together
  Ops,        \* the endpoints the clients of an instance call
  MaxClock,   \* bound on the clock
  MayFail,    \* can a request die between two of its statements
  None        \* no value

AllOps == {"open", "send", "delete", "read", "remove"}

ASSUME ChatAssumption ==
  /\ MaxClock \in Nat \ {0}
  /\ Ops \subseteq AllOps
  /\ MayFail \in BOOLEAN
  /\ None \notin Users \cup Convs \cup Messages \cup AllOps

VARIABLES
  clock,      \* Date.now() of the one server process, in milliseconds
  conv,       \* conv[k]: its participants and updatedAt
  lastRead,   \* lastRead[k][u]: Participant.lastReadAt, 0 for null
  msg,        \* msg[m]: conversation, sender, createdAt and status
  req         \* req[p]: the handler request p runs and what it has read

vars == <<clock, conv, lastRead, msg, req>>
tables == <<conv, lastRead, msg>>

NoConv == [state |-> "new", pair |-> {}, updated |-> 0]
NoMessage == [state |-> "new", conv |-> None, sender |-> None, at |-> 0]
Idle == [pc |-> "idle", op |-> None, by |-> None, other |-> None, conv |-> None,
         msg |-> None, at |-> 0, seen |-> {}, shown |-> {}]

Pairs == {pair \in SUBSET Users : Cardinality(pair) = 2}

Open(k) == conv[k].state = "there"
InConv(u, k) == Open(k) /\ u \in conv[k].pair
Visible(m) == msg[m].state \in {"SENT", "READ"}
FromOthers(u, k) == {m \in Messages : Visible(m) /\ msg[m].conv = k /\ msg[m].sender # u}

(* The where clause of readMessages and of getUnreadMessage.                *)
UnreadSince(u, k, since) ==
  {m \in FromOthers(u, k) : msg[m].state # "READ" /\ msg[m].at > since}
Unread(u, k) == UnreadSince(u, k, lastRead[k][u])

Unmarked(u, k) == {m \in FromOthers(u, k) : msg[m].state # "READ"}

AtRest == \A p \in Reqs : req[p] = Idle

Finish(p) == req' = [req EXCEPT ![p] = Idle]
Start(p, r) ==
  /\ req' = [req EXCEPT ![p] = r]
  /\ UNCHANGED <<clock, tables>>

(* new Date(): calls in one millisecond get the same instant.               *)
Instants == {t \in {clock, clock + 1} : t <= MaxClock}

(* Rows the transaction of another request has updated and not committed.   *)
LockedRows(p) ==
  UNION {IF req[q].pc \in {"touch", "commit"} THEN req[q].seen ELSE {} : q \in Reqs \ {p}}

-----------------------------------------------------------------------------
(* conversation.create and openOrCreateConversation: look, then create.     *)

OpenConversation(p) ==
  /\ "open" \in Ops
  /\ \E u, other \in Users :
       /\ u # other
       /\ Start(p, [Idle EXCEPT !.pc = "look", !.op = "open", !.by = u,
                                !.other = other])

(* Mutant: an existing conversation is not looked for. *)
LookNowhere(p) ==
  /\ req[p].pc = "look"
  /\ req' = [req EXCEPT ![p].pc = "make"]
  /\ UNCHANGED <<clock, tables>>

Look(p) ==
  LET r == req[p] IN
  /\ r.pc = "look"
  /\ IF \E k \in Convs : InConv(r.by, k) /\ InConv(r.other, k) THEN Finish(p)
     ELSE req' = [req EXCEPT ![p].pc = "make"]
  /\ UNCHANGED <<clock, tables>>

Make(p) ==
  LET r == req[p] IN
  /\ r.pc = "make"
  /\ \E k \in Convs, t \in Instants :
       /\ conv[k] = NoConv
       /\ clock' = t
       /\ conv' = [conv EXCEPT ![k] = [state |-> "there", pair |-> {r.by, r.other},
                                       updated |-> t]]
  /\ Finish(p)
  /\ UNCHANGED <<lastRead, msg>>

-----------------------------------------------------------------------------
(* message.create *)

SendMessage(p) ==
  /\ "send" \in Ops
  /\ \E u \in Users, k \in Convs :
       /\ InConv(u, k)
       /\ Start(p, [Idle EXCEPT !.pc = "stamp", !.op = "send", !.by = u, !.conv = k])

(* The insert is issued: createdAt is fixed, the row is not visible yet.    *)
Stamp(p) ==
  LET r == req[p] IN
  /\ r.pc = "stamp"
  /\ \E m \in Messages, t \in Instants :
       /\ msg[m] = NoMessage
       /\ \A q \in Reqs : req[q].msg # m
       /\ clock' = t
       /\ req' = [req EXCEPT ![p].pc = "insert", ![p].msg = m, ![p].at = t]
  /\ UNCHANGED tables

(* The foreign key refuses the row of a conversation that is gone.          *)
Insert(p) ==
  LET r == req[p] IN
  /\ r.pc = "insert"
  /\ IF Open(r.conv)
     THEN /\ msg' = [msg EXCEPT ![r.msg] = [state |-> "SENT", conv |-> r.conv,
                                            sender |-> r.by, at |-> r.at]]
          /\ req' = [req EXCEPT ![p].pc = "bump"]
     ELSE Finish(p) /\ UNCHANGED msg
  /\ UNCHANGED <<clock, conv, lastRead>>

(* Mutant: updatedAt keeps its value. *)
BumpNothing(p) ==
  /\ req[p].pc = "bump"
  /\ clock' \in Instants
  /\ Finish(p)
  /\ UNCHANGED tables

(* conversation.update of updatedAt, which orders the list of conversations;*)
(* it throws when the conversation is gone.                                 *)
Bump(p) ==
  LET k == req[p].conv IN
  /\ req[p].pc = "bump"
  /\ \E t \in Instants :
       /\ clock' = t
       /\ conv' = IF Open(k) THEN [conv EXCEPT ![k].updated = t] ELSE conv
  /\ Finish(p)
  /\ UNCHANGED <<lastRead, msg>>

-----------------------------------------------------------------------------
(* deleteMessage: only its sender; the row is deleted by id.                *)

DeleteMessage(p) ==
  /\ "delete" \in Ops
  /\ \E m \in Messages :
       /\ Visible(m)
       /\ Start(p, [Idle EXCEPT !.pc = "erase", !.op = "delete",
                                !.by = msg[m].sender, !.msg = m])

Gone == [NoMessage EXCEPT !.state = "gone"]

Erase(p) ==
  LET m == req[p].msg IN
  /\ req[p].pc = "erase"
  /\ m \notin LockedRows(p)
  /\ msg' = [msg EXCEPT ![m] = Gone]
  /\ Finish(p)
  /\ UNCHANGED <<clock, conv, lastRead>>

-----------------------------------------------------------------------------
(* readMessages *)

(* The participant row is read first: `at` is its lastReadAt.  `shown` is a *)
(* history variable, the messages an unread list would show now.            *)
ReadMessages(p) ==
  /\ "read" \in Ops
  /\ \E u \in Users, k \in Convs :
       /\ InConv(u, k)
       /\ Start(p, [Idle EXCEPT !.pc = "mark", !.op = "read", !.by = u, !.conv = k,
                                !.at = lastRead[k][u], !.shown = Unread(u, k)])

(* Mutant: rows another transaction has locked are skipped. *)
MarkUnlocked(p) ==
  LET r == req[p]
      found == UnreadSince(r.by, r.conv, r.at) \ LockedRows(p)
  IN /\ r.pc = "mark"
     /\ req' = [req EXCEPT ![p].pc = "touch", ![p].seen = found]
     /\ UNCHANGED <<clock, tables>>

(* Mutant: the statements of readMessages are not in a transaction. *)
MarkAtOnce(p) ==
  LET r == req[p]
      found == UnreadSince(r.by, r.conv, r.at)
  IN /\ r.pc = "mark"
     /\ req' = [req EXCEPT ![p].pc = "touch"]
     /\ msg' = [m \in Messages |-> IF m \in found THEN [msg[m] EXCEPT !.state = "READ"]
                                   ELSE msg[m]]
     /\ UNCHANGED <<clock, conv, lastRead>>

(* message.updateMany: it waits for rows another transaction has updated,   *)
(* and then looks at them again.                                            *)
Mark(p) ==
  LET r == req[p]
      found == UnreadSince(r.by, r.conv, r.at)
  IN /\ r.pc = "mark"
     /\ found \cap LockedRows(p) = {}
     /\ req' = [req EXCEPT ![p].pc = "touch", ![p].seen = found]
     /\ UNCHANGED <<clock, tables>>

(* new Date(), the argument of participant.update.                          *)
Touch(p) ==
  /\ req[p].pc = "touch"
  /\ \E t \in Instants :
       /\ clock' = t
       /\ req' = [req EXCEPT ![p].pc = "commit", ![p].at = t]
  /\ UNCHANGED tables

(* Mutant: the messages are not updated. *)
MarkNothing(p) == msg

Marked(p) ==
  [m \in Messages |-> IF m \in req[p].seen /\ Visible(m)
                      THEN [msg[m] EXCEPT !.state = "READ"] ELSE msg[m]]

(* participant.update and the commit, unless the conversation is gone.      *)
Commit(p) ==
  LET r == req[p] IN
  /\ r.pc = "commit"
  /\ IF Open(r.conv)
     THEN /\ lastRead' = [lastRead EXCEPT ![r.conv][r.by] = r.at]
          /\ msg' = Marked(p)
     ELSE UNCHANGED <<lastRead, msg>>
  /\ Finish(p)
  /\ UNCHANGED <<clock, conv>>

-----------------------------------------------------------------------------
(* conversation.remove: by any participant; messages and participants go    *)
(* with it (onDelete: Cascade).                                             *)

RemoveConversation(p) ==
  /\ "remove" \in Ops
  /\ \E u \in Users, k \in Convs :
       /\ InConv(u, k)
       /\ Start(p, [Idle EXCEPT !.pc = "drop", !.op = "remove", !.by = u, !.conv = k])

(* Mutant: the messages stay. *)
DropConversationOnly(p) ==
  /\ req[p].pc = "drop"
  /\ conv' = [conv EXCEPT ![req[p].conv] = [NoConv EXCEPT !.state = "gone"]]
  /\ Finish(p)
  /\ UNCHANGED <<clock, lastRead, msg>>

Drop(p) ==
  LET k == req[p].conv
      rows == {m \in Messages : Visible(m) /\ msg[m].conv = k}
  IN /\ req[p].pc = "drop"
     /\ rows \cap LockedRows(p) = {}
     /\ conv' = [conv EXCEPT ![k] = [NoConv EXCEPT !.state = "gone"]]
     /\ lastRead' = [lastRead EXCEPT ![k] = [u \in Users |-> 0]]
     /\ msg' = [m \in Messages |-> IF m \in rows THEN Gone ELSE msg[m]]
     /\ Finish(p)
     /\ UNCHANGED clock

-----------------------------------------------------------------------------
(* The process dies or a statement fails: an open transaction rolls back,   *)
(* statements already run stay.                                             *)
Fail(p) ==
  /\ MayFail
  /\ req[p] # Idle
  /\ Finish(p)
  /\ UNCHANGED <<clock, tables>>

Quiet ==
  /\ clock = 1
  /\ lastRead = [k \in Convs |-> [u \in Users |-> 0]]
  /\ msg = [m \in Messages |-> NoMessage]
  /\ req = [p \in Reqs |-> Idle]

Init == Quiet /\ conv = [k \in Convs |-> NoConv]

Arrive(p) ==
  /\ req[p] = Idle
  /\ \/ OpenConversation(p) \/ SendMessage(p) \/ DeleteMessage(p)
     \/ ReadMessages(p) \/ RemoveConversation(p)

Step(p) ==
  \/ Look(p) \/ Make(p) \/ Stamp(p) \/ Insert(p) \/ Bump(p) \/ Erase(p)
  \/ Mark(p) \/ Touch(p) \/ Commit(p) \/ Drop(p)

Next == \E p \in Reqs : Arrive(p) \/ Step(p) \/ Fail(p)

Spec == Init /\ [][Next]_vars
-----------------------------------------------------------------------------
(* Properties *)

ConvRow == [state : {"new", "there", "gone"}, pair : SUBSET Users, updated : Nat]
MessageRow == [state : {"new", "SENT", "READ", "gone"}, conv : Convs \cup {None},
               sender : Users \cup {None}, at : Nat]
PCs == {"idle", "look", "make", "stamp", "insert", "bump", "erase", "mark", "touch",
        "commit", "drop"}
Request == [pc : PCs, op : AllOps \cup {None}, by : Users \cup {None},
            other : Users \cup {None}, conv : Convs \cup {None},
            msg : Messages \cup {None}, at : Nat, seen : SUBSET Messages,
            shown : SUBSET Messages]

(* Rows and requests are of their types, every message that is there hangs  *)
(* in a conversation that is there, and its sender takes part in it.        *)
TypeOK ==
  /\ clock \in Nat \ {0}
  /\ conv \in [Convs -> ConvRow]
  /\ lastRead \in [Convs -> [Users -> Nat]]
  /\ msg \in [Messages -> MessageRow]
  /\ req \in [Reqs -> Request]
  /\ \A m \in Messages : Visible(m) => msg[m].conv \in Convs /\ InConv(msg[m].sender, msg[m].conv)

(* When readMessages has answered, every message its caller could have seen *)
(* in the unread list before the call is READ or deleted: also when another *)
(* readMessages that had locked the rows dies                               *)
(* (message.service.ts:479).                                                *)
ReadCoversShown ==
  [][\A p \in Reqs : Commit(p) =>
       \A m \in req[p].shown : msg'[m].state \in {"READ", "gone"}]_vars

(* A message is only READ once its reader has a lastReadAt: the two are     *)
(* written together or not at all (message.service.ts:479-493).             *)
ReadByReader ==
  \A m \in Messages : msg[m].state = "READ" =>
    \A u \in conv[msg[m].conv].pair \ {msg[m].sender} : lastRead[msg[m].conv][u] # 0

(* message.controller.ts:182 "Returns the number of messages sent by others *)
(* that are not yet marked as read": a message the list has shown stays     *)
(* there until it is READ or deleted.                                       *)
UnreadStaysUntilRead ==
  [][\A k \in Convs, u \in Users : \A m \in Unread(u, k) :
       m \in Unread(u, k)' \/ msg'[m].state \in {"READ", "gone"}]_vars

(* What must hold of requests that do not overlap.                          *)

(* The unread list and the status of the messages agree.                    *)
UnreadIsExact == \A k \in Convs, u \in Users : Unread(u, k) = Unmarked(u, k)

(* message.controller.ts:107 "If a conversation between the current user    *)
(* and the given participant already exists, returns it".                   *)
OneConversationPerPair ==
  \A j, k \in Convs : Open(j) /\ Open(k) /\ conv[j].pair = conv[k].pair => j = k

(* The list of conversations is sorted by updatedAt: none has a message     *)
(* younger than its place in the list.                                      *)
UpdatedByNewest ==
  \A m \in Messages : Visible(m) => conv[msg[m].conv].updated >= msg[m].at
=============================================================================
