------------------------------ MODULE ChatProofs ------------------------------
(***************************************************************************)
(* Proofs about Chat, for any users, conversations, messages and requests. *)
(***************************************************************************)
EXTENDS MCChat, TLAPS

(* An open conversation has two participants.                               *)
PairsOK ==
  \A k \in Convs : Open(k) => \E u, v \in Users : u # v /\ conv[k].pair = {u, v}

(* The statements of a request that acts in a conversation.                 *)
InConversation == {"stamp", "insert", "bump", "mark", "touch", "commit", "drop"}

TakesPart(u, k) ==
  /\ u \in Users
  /\ k \in Convs
  /\ conv[k].state # "new"
  /\ Open(k) => u \in conv[k].pair

(* A message a reader u of k has marked: its row, while there, is in k and  *)
(* of somebody else.                                                        *)
SeenRow(m, u, k) ==
  /\ msg[m].state # "new"
  /\ Visible(m) => msg[m].conv = k /\ msg[m].sender # u

(* What request p, standing as r, relies on.                                *)
RequestOK(p, r) ==
  /\ r.pc \in {"look", "make"} => r.by \in Users /\ r.other \in Users /\ r.by # r.other
  /\ r.pc \in InConversation => TakesPart(r.by, r.conv)
  /\ r.pc \in {"insert", "erase"} => r.msg \in Messages
  /\ r.pc = "insert" => /\ msg[r.msg].state = "new"
                        /\ \A q \in Reqs \ {p} : req[q].msg # r.msg
  /\ r.pc = "commit" => r.at # 0
  /\ r.pc \in {"touch", "commit"} => \A m \in r.seen : SeenRow(m, r.by, r.conv)

RequestsOK == \A p \in Reqs : RequestOK(p, req[p])

(* The inductive invariant.                                                 *)
ChatInv == TypeOK /\ PairsOK /\ RequestsOK /\ ReadByReader

-----------------------------------------------------------------------------
LEMMA InitInv == Init => ChatInv
<1> SUFFICES ASSUME Init PROVE ChatInv
  OBVIOUS
<1> USE ChatAssumption DEF Init, Quiet
<1>1. TypeOK
  <2>1. NoConv \in ConvRow
    BY DEF NoConv, ConvRow
  <2>2. NoMessage \in MessageRow
    BY DEF NoMessage, MessageRow
  <2>3. Idle \in Request
    BY DEF Idle, Request, PCs
  <2>4. \A m \in Messages : ~Visible(m)
    BY DEF Visible, NoMessage
  <2> QED
    BY <2>1, <2>2, <2>3, <2>4 DEF TypeOK
<1>2. PairsOK
  BY DEF PairsOK, Open, NoConv
<1>3. RequestsOK
  BY DEF RequestsOK, RequestOK, Idle, InConversation
<1>4. ReadByReader
  BY DEF ReadByReader, NoMessage
<1> QED
  BY <1>1, <1>2, <1>3, <1>4 DEF ChatInv

(* A step of request p that leaves conversations, messages and lastReadAt   *)
(* alone keeps the invariant when what p relies on now holds.               *)
LEMMA RequestStep ==
  ASSUME ChatInv, UNCHANGED tables, clock' \in Nat \ {0},
         NEW p \in Reqs, NEW r \in Request, req' = [req EXCEPT ![p] = r],
         RequestOK(p, r),
         \A q \in Reqs \ {p} : req[q].pc = "insert" => r.msg # req[q].msg
  PROVE  ChatInv'
<1>1. TypeOK'
  <2> USE DEF ChatInv, TypeOK, tables
  <2>1. req' \in [Reqs -> Request]
    OBVIOUS
  <2>2. \A m \in Messages : Visible(m)' => msg'[m].conv \in Convs /\ InConv(msg[m].sender, msg[m].conv)'
    BY DEF Visible, InConv, Open
  <2> QED
    BY <2>1, <2>2
<1>2. PairsOK'
  BY DEF ChatInv, PairsOK, Open, tables
<1>3. RequestsOK'
  <2> SUFFICES ASSUME NEW q \in Reqs PROVE RequestOK(q, req[q])'
    BY DEF RequestsOK
  <2> USE DEF tables, RequestOK, TakesPart, SeenRow, Visible, Open
  <2>0. req \in [Reqs -> Request]
    BY DEF ChatInv, TypeOK
  <2>1. CASE q = p
    BY <2>0, <2>1
  <2>2. CASE q # p
    BY <2>0, <2>2 DEF ChatInv, RequestsOK
  <2> QED
    BY <2>1, <2>2
<1>4. ReadByReader'
  BY DEF ChatInv, ReadByReader, tables
<1> QED
  BY <1>1, <1>2, <1>3, <1>4 DEF ChatInv

(* In particular when p ends.                                               *)
LEMMA FinishStep ==
  ASSUME ChatInv, UNCHANGED tables, clock' \in Nat \ {0}, NEW p \in Reqs, Finish(p)
  PROVE  ChatInv'
<1>1. Idle \in Request /\ RequestOK(p, Idle)
  BY DEF Idle, Request, PCs, RequestOK, InConversation
<1>2. \A q \in Reqs \ {p} : req[q].pc = "insert" => Idle.msg # req[q].msg
  BY ChatAssumption DEF ChatInv, RequestsOK, RequestOK, Idle
<1> QED
  BY <1>1, <1>2, RequestStep DEF Finish

LEMMA InstantIsPositive == ASSUME ChatInv, NEW t \in Instants PROVE t \in Nat \ {0}
  BY DEF ChatInv, TypeOK, Instants

-----------------------------------------------------------------------------
(* The arrival of a request: r is what it starts as.                        *)
LEMMA StartStep ==
  ASSUME ChatInv, NEW p \in Reqs, NEW r \in Request, Start(p, r), RequestOK(p, r),
         r.msg = None \/ (r.msg \in Messages /\ Visible(r.msg))
  PROVE  ChatInv'
<1>1. clock' \in Nat \ {0} /\ UNCHANGED tables
  BY DEF ChatInv, TypeOK, Start, tables
<1>2. \A q \in Reqs \ {p} : req[q].pc = "insert" => r.msg # req[q].msg
  BY ChatAssumption DEF ChatInv, RequestsOK, RequestOK, Visible
<1> QED
  BY <1>1, <1>2, RequestStep DEF Start

LEMMA ArriveStep == ASSUME ChatInv, NEW p \in Reqs, Arrive(p) PROVE ChatInv'
<1> USE DEF RequestOK, InConversation
<1>1. CASE OpenConversation(p)
  <2>1. PICK u \in Users, other \in Users :
          /\ u # other
          /\ Start(p, [Idle EXCEPT !.pc = "look", !.op = "open", !.by = u, !.other = other])
    BY <1>1 DEF OpenConversation
  <2> DEFINE r == [Idle EXCEPT !.pc = "look", !.op = "open", !.by = u, !.other = other]
  <2>2. r \in Request /\ r.msg = None
    BY DEF Idle, Request, PCs, AllOps
  <2>3. RequestOK(p, r)
    BY <2>1 DEF Idle
  <2>4. Start(p, r)
    BY <2>1
  <2> HIDE DEF r
  <2> QED
    BY <2>2, <2>3, <2>4, StartStep
<1>2. CASE SendMessage(p)
  <2>1. PICK u \in Users, k \in Convs :
          /\ InConv(u, k)
          /\ Start(p, [Idle EXCEPT !.pc = "stamp", !.op = "send", !.by = u, !.conv = k])
    BY <1>2 DEF SendMessage
  <2> DEFINE r == [Idle EXCEPT !.pc = "stamp", !.op = "send", !.by = u, !.conv = k]
  <2>2. r \in Request /\ r.msg = None
    BY DEF Idle, Request, PCs, AllOps
  <2>3. RequestOK(p, r)
    BY <2>1 DEF Idle, TakesPart, InConv, Open
  <2>4. Start(p, r)
    BY <2>1
  <2> HIDE DEF r
  <2> QED
    BY <2>2, <2>3, <2>4, StartStep
<1>3. CASE DeleteMessage(p)
  <2>1. PICK m \in Messages :
          /\ Visible(m)
          /\ Start(p, [Idle EXCEPT !.pc = "erase", !.op = "delete",
                                   !.by = msg[m].sender, !.msg = m])
    BY <1>3 DEF DeleteMessage
  <2> DEFINE r == [Idle EXCEPT !.pc = "erase", !.op = "delete",
                               !.by = msg[m].sender, !.msg = m]
  <2>2. msg[m].sender \in Users \cup {None}
    BY DEF ChatInv, TypeOK, MessageRow
  <2>3. r \in Request /\ r.msg = m
    BY <2>2 DEF Idle, Request, PCs, AllOps
  <2>4. RequestOK(p, r)
    BY <2>1 DEF Idle
  <2>5. Start(p, r)
    BY <2>1
  <2> HIDE DEF r
  <2> QED
    BY <2>1, <2>3, <2>4, <2>5, StartStep
<1>4. CASE ReadMessages(p)
  <2>1. PICK u \in Users, k \in Convs :
          /\ InConv(u, k)
          /\ Start(p, [Idle EXCEPT !.pc = "mark", !.op = "read", !.by = u, !.conv = k,
                                   !.at = lastRead[k][u], !.shown = Unread(u, k)])
    BY <1>4 DEF ReadMessages
  <2> DEFINE r == [Idle EXCEPT !.pc = "mark", !.op = "read", !.by = u, !.conv = k,
                               !.at = lastRead[k][u], !.shown = Unread(u, k)]
  <2>2. lastRead[k][u] \in Nat /\ Unread(u, k) \in SUBSET Messages
    BY DEF ChatInv, TypeOK, Unread, UnreadSince, FromOthers
  <2>3. r \in Request /\ r.msg = None
    BY <2>2 DEF Idle, Request, PCs, AllOps
  <2>4. RequestOK(p, r)
    BY <2>1 DEF Idle, TakesPart, InConv, Open
  <2>5. Start(p, r)
    BY <2>1
  <2> HIDE DEF r
  <2> QED
    BY <2>3, <2>4, <2>5, StartStep
<1>5. CASE RemoveConversation(p)
  <2>1. PICK u \in Users, k \in Convs :
          /\ InConv(u, k)
          /\ Start(p, [Idle EXCEPT !.pc = "drop", !.op = "remove", !.by = u, !.conv = k])
    BY <1>5 DEF RemoveConversation
  <2> DEFINE r == [Idle EXCEPT !.pc = "drop", !.op = "remove", !.by = u, !.conv = k]
  <2>2. r \in Request /\ r.msg = None
    BY DEF Idle, Request, PCs, AllOps
  <2>3. RequestOK(p, r)
    BY <2>1 DEF Idle, TakesPart, InConv, Open
  <2>4. Start(p, r)
    BY <2>1
  <2> HIDE DEF r
  <2> QED
    BY <2>2, <2>3, <2>4, StartStep
<1> QED
  BY <1>1, <1>2, <1>3, <1>4, <1>5 DEF Arrive

-----------------------------------------------------------------------------
(* The steps that only move their own request.                              *)
LEMMA OwnStep ==
  ASSUME ChatInv, NEW p \in Reqs, Look(p) \/ Stamp(p) \/ Mark(p) \/ Touch(p)
  PROVE  ChatInv'
<1>0. /\ req \in [Reqs -> Request]
      /\ clock \in Nat \ {0}
      /\ RequestOK(p, req[p])
      /\ \A q \in Reqs \ {p} : req[q].pc = "insert" => req[p].msg # req[q].msg
  <2>1. req \in [Reqs -> Request] /\ clock \in Nat \ {0} /\ RequestOK(p, req[p])
    BY DEF ChatInv, TypeOK, RequestsOK
  <2>2. \A q \in Reqs \ {p} : req[q].pc = "insert" => req[p].msg # req[q].msg
    BY DEF ChatInv, RequestsOK, RequestOK
  <2> QED
    BY <2>1, <2>2
<1> USE DEF InConversation
<1>1. CASE Look(p)
  <2>1. CASE Finish(p)
    BY <1>0, <1>1, <2>1, FinishStep DEF Look
  <2>2. CASE ~Finish(p)
    <3> DEFINE r == [req[p] EXCEPT !.pc = "make"]
    <3>1. r \in Request /\ r.msg = req[p].msg
      BY <1>0 DEF Request, PCs
    <3>2. RequestOK(p, r)
      BY <1>0, <1>1 DEF Look, RequestOK, Request
    <3>3. req' = [req EXCEPT ![p] = r] /\ UNCHANGED tables /\ clock' = clock
      BY <1>1, <2>2 DEF Look
    <3> HIDE DEF r
    <3> QED
      BY <1>0, <3>1, <3>2, <3>3, RequestStep
  <2> QED
    BY <2>1, <2>2
<1>2. CASE Stamp(p)
  <2>1. PICK m \in Messages, t \in Instants :
          /\ msg[m] = NoMessage
          /\ \A q \in Reqs : req[q].msg # m
          /\ clock' = t
          /\ req' = [req EXCEPT ![p].pc = "insert", ![p].msg = m, ![p].at = t]
    BY <1>2 DEF Stamp
  <2> DEFINE r == [req[p] EXCEPT !.pc = "insert", !.msg = m, !.at = t]
  <2>2. t \in Nat \ {0}
    BY InstantIsPositive
  <2>3. r \in Request /\ r.msg = m
    BY <1>0, <2>2 DEF Request, PCs
  <2>4. RequestOK(p, r)
    <3>1. /\ r.pc = "insert" /\ r.msg = m
          /\ r.by = req[p].by /\ r.conv = req[p].conv
      BY <1>0 DEF Request
    <3>2. TakesPart(req[p].by, req[p].conv)
      BY <1>0, <1>2 DEF Stamp, RequestOK
    <3>3. msg[m].state = "new" /\ \A q \in Reqs : req[q].msg # m
      BY <2>1 DEF NoMessage
    <3> HIDE DEF r
    <3> QED
      BY <3>1, <3>2, <3>3 DEF RequestOK
  <2>5. req' = [req EXCEPT ![p] = r] /\ UNCHANGED tables /\ clock' = t
    BY <1>0, <1>2, <2>1 DEF Stamp
  <2> HIDE DEF r
  <2> QED
    BY <2>1, <2>2, <2>3, <2>4, <2>5, RequestStep
<1>3. CASE Mark(p)
  <2> DEFINE found == UnreadSince(req[p].by, req[p].conv, req[p].at)
             r == [req[p] EXCEPT !.pc = "touch", !.seen = found]
  <2>1. found \in SUBSET Messages /\ \A m \in found : SeenRow(m, req[p].by, req[p].conv)
    BY DEF UnreadSince, FromOthers, SeenRow, Visible
  <2>2. /\ req' = [req EXCEPT ![p] = r] /\ req[p].pc = "mark"
        /\ UNCHANGED tables /\ clock' = clock
    BY <1>0, <1>3 DEF Mark
  <2> HIDE DEF found
  <2>3. r \in Request /\ r.msg = req[p].msg
    BY <1>0, <2>1 DEF Request, PCs
  <2>4. RequestOK(p, r)
    <3>1. /\ r.pc = "touch" /\ r.seen = found
          /\ r.by = req[p].by /\ r.conv = req[p].conv
      BY <1>0 DEF Request
    <3>2. TakesPart(req[p].by, req[p].conv)
      BY <1>0, <2>2 DEF RequestOK
    <3> HIDE DEF r
    <3> QED
      BY <2>1, <3>1, <3>2 DEF RequestOK
  <2> HIDE DEF r
  <2> QED
    BY <1>0, <2>2, <2>3, <2>4, RequestStep
<1>4. CASE Touch(p)
  <2>1. PICK t \in Instants :
          clock' = t /\ req' = [req EXCEPT ![p].pc = "commit", ![p].at = t]
    BY <1>4 DEF Touch
  <2> DEFINE r == [req[p] EXCEPT !.pc = "commit", !.at = t]
  <2>2. t \in Nat \ {0}
    BY InstantIsPositive
  <2>3. r \in Request /\ r.msg = req[p].msg
    BY <1>0, <2>2 DEF Request, PCs
  <2>4. RequestOK(p, r)
    <3>1. /\ r.pc = "commit" /\ r.at = t /\ r.seen = req[p].seen
          /\ r.by = req[p].by /\ r.conv = req[p].conv
      BY <1>0 DEF Request
    <3>2. /\ TakesPart(req[p].by, req[p].conv)
          /\ \A m \in req[p].seen : SeenRow(m, req[p].by, req[p].conv)
      BY <1>0, <1>4 DEF Touch, RequestOK
    <3> HIDE DEF r
    <3> QED
      BY <2>2, <3>1, <3>2 DEF RequestOK
  <2>5. req' = [req EXCEPT ![p] = r] /\ UNCHANGED tables
    BY <1>0, <1>4, <2>1 DEF Touch
  <2> HIDE DEF r
  <2> QED
    BY <1>0, <2>1, <2>2, <2>3, <2>4, <2>5, RequestStep
<1> QED
  BY <1>1, <1>2, <1>3, <1>4

-----------------------------------------------------------------------------
(* The steps that change rows.  What p leaves behind is Idle or a request   *)
(* that relies on nothing but its conversation.                             *)
LEMMA OthersOK ==
  ASSUME ChatInv, NEW p \in Reqs, NEW r \in Request, req' = [req EXCEPT ![p] = r],
         RequestOK(p, r)',
         r.msg \in {None, req[p].msg},
         \A u \in Users, k \in Convs : TakesPart(u, k) => TakesPart(u, k)',
         \A q \in Reqs \ {p} : req[q].pc = "insert" => msg'[req[q].msg].state = "new",
         \A m \in Messages, u \in Users, k \in Convs : SeenRow(m, u, k) => SeenRow(m, u, k)'
  PROVE  RequestsOK' /\ req' \in [Reqs -> Request]
<1>0. req \in [Reqs -> Request]
  BY DEF ChatInv, TypeOK
<1>1. ASSUME NEW q \in Reqs PROVE RequestOK(q, req[q])'
  <2>1. CASE q = p
    BY <1>0, <2>1
  <2>2. CASE q # p
    <3>1. req'[q] = req[q] /\ RequestOK(q, req[q]) /\ req[q] \in Request
      BY <1>0, <2>2 DEF ChatInv, RequestsOK
    <3>2. /\ req[q].pc \in InConversation => TakesPart(req[q].by, req[q].conv)'
          /\ req[q].pc \in {"touch", "commit"} =>
               \A m \in req[q].seen : SeenRow(m, req[q].by, req[q].conv)'
      BY <1>0, <3>1 DEF RequestOK, Request, TakesPart, InConversation
    <3>3. req[q].pc = "insert" => \A s \in Reqs \ {q} : req'[s].msg # req[q].msg
      <4> SUFFICES ASSUME req[q].pc = "insert", NEW s \in Reqs \ {q}
                   PROVE  req'[s].msg # req[q].msg
        OBVIOUS
      <4>1. req[s].msg # req[q].msg /\ req[q].msg \in Messages
        BY <3>1 DEF RequestOK
      <4>2. req'[s].msg \in {None, req[s].msg}
        BY <1>0
      <4>3. None \notin Messages
        BY ChatAssumption
      <4> QED
        BY <4>1, <4>2, <4>3
    <3> QED
      BY <2>2, <3>1, <3>2, <3>3 DEF RequestOK
  <2> QED
    BY <2>1, <2>2
<1>2. req' \in [Reqs -> Request]
  BY <1>0
<1> QED
  BY <1>1, <1>2 DEF RequestsOK

LEMMA OthersOKAtFinish ==
  ASSUME ChatInv, NEW p \in Reqs, Finish(p),
         \A u \in Users, k \in Convs : TakesPart(u, k) => TakesPart(u, k)',
         \A q \in Reqs \ {p} : req[q].pc = "insert" => msg'[req[q].msg].state = "new",
         \A m \in Messages, u \in Users, k \in Convs : SeenRow(m, u, k) => SeenRow(m, u, k)'
  PROVE  RequestsOK' /\ req' \in [Reqs -> Request]
<1>1. Idle \in Request /\ Idle.msg = None
  BY DEF Idle, Request, PCs
<1>2. RequestOK(p, Idle)'
  BY DEF Idle, RequestOK, InConversation
<1>3. req' = [req EXCEPT ![p] = Idle]
  BY DEF Finish
<1> QED
  BY <1>1, <1>2, <1>3, OthersOK

LEMMA MakeStep == ASSUME ChatInv, NEW p \in Reqs, Make(p) PROVE ChatInv'
<1>1. PICK k \in Convs, t \in Instants :
        /\ conv[k] = NoConv
        /\ clock' = t
        /\ conv' = [conv EXCEPT ![k] = [state |-> "there",
                                        pair |-> {req[p].by, req[p].other},
                                        updated |-> t]]
  BY DEF Make
<1>2. t \in Nat \ {0}
  BY InstantIsPositive
<1>3. Finish(p) /\ lastRead' = lastRead /\ msg' = msg
  BY DEF Make
<1>4. req[p].by \in Users /\ req[p].other \in Users /\ req[p].by # req[p].other
  BY DEF ChatInv, RequestsOK, RequestOK, Make
<1>5. conv[k].state = "new"
  BY <1>1 DEF NoConv
<1>6. /\ conv'[k].state = "there" /\ conv'[k].pair = {req[p].by, req[p].other}
      /\ conv' \in [Convs -> ConvRow]
      /\ \A j \in Convs : j # k => conv'[j] = conv[j]
  BY <1>1, <1>2, <1>4 DEF ChatInv, TypeOK, ConvRow
<1>7. \A m \in Messages : Visible(m) => msg[m].conv \in Convs \ {k}
  BY <1>5 DEF ChatInv, TypeOK, InConv, Open
<1>8. RequestsOK' /\ req' \in [Reqs -> Request]
  <2>1. \A u \in Users, j \in Convs : TakesPart(u, j) => TakesPart(u, j)'
    BY <1>5, <1>6 DEF TakesPart, Open
  <2>2. \A q \in Reqs \ {p} : req[q].pc = "insert" => msg'[req[q].msg].state = "new"
    BY <1>3 DEF ChatInv, RequestsOK, RequestOK
  <2>3. \A m \in Messages, u \in Users, j \in Convs : SeenRow(m, u, j) => SeenRow(m, u, j)'
    BY <1>3 DEF SeenRow, Visible
  <2> QED
    BY <1>3, <2>1, <2>2, <2>3, OthersOKAtFinish
<1>9. TypeOK'
  <2>1. \A m \in Messages : Visible(m)' => msg'[m].conv \in Convs /\ InConv(msg[m].sender, msg[m].conv)'
    BY <1>3, <1>6, <1>7 DEF ChatInv, TypeOK, Visible, InConv, Open
  <2> QED
    BY <1>1, <1>2, <1>3, <1>6, <1>8, <2>1 DEF ChatInv, TypeOK
<1>10. PairsOK'
  BY <1>4, <1>6 DEF ChatInv, PairsOK, Open
<1>11. ReadByReader'
  BY <1>3, <1>6, <1>7 DEF ChatInv, ReadByReader, Visible
<1> QED
  BY <1>8, <1>9, <1>10, <1>11 DEF ChatInv

LEMMA BumpStep == ASSUME ChatInv, NEW p \in Reqs, Bump(p) PROVE ChatInv'
<1>1. PICK t \in Instants :
        /\ clock' = t
        /\ conv' = IF Open(req[p].conv) THEN [conv EXCEPT ![req[p].conv].updated = t] ELSE conv
  BY DEF Bump
<1>2. t \in Nat \ {0}
  BY InstantIsPositive
<1>3. Finish(p) /\ lastRead' = lastRead /\ msg' = msg
  BY DEF Bump
<1>4. req[p].conv \in Convs
  BY DEF ChatInv, RequestsOK, RequestOK, Bump, InConversation, TakesPart
<1>5. /\ conv' \in [Convs -> ConvRow]
      /\ \A k \in Convs : conv'[k].state = conv[k].state /\ conv'[k].pair = conv[k].pair
  <2>1. conv \in [Convs -> ConvRow]
    BY DEF ChatInv, TypeOK
  <2> QED
    BY <1>1, <1>2, <1>4, <2>1 DEF ConvRow
<1>6. RequestsOK' /\ req' \in [Reqs -> Request]
  <2>1. \A u \in Users, j \in Convs : TakesPart(u, j) => TakesPart(u, j)'
    BY <1>5 DEF TakesPart, Open
  <2>2. \A q \in Reqs \ {p} : req[q].pc = "insert" => msg'[req[q].msg].state = "new"
    BY <1>3 DEF ChatInv, RequestsOK, RequestOK
  <2>3. \A m \in Messages, u \in Users, j \in Convs : SeenRow(m, u, j) => SeenRow(m, u, j)'
    BY <1>3 DEF SeenRow, Visible
  <2> QED
    BY <1>3, <2>1, <2>2, <2>3, OthersOKAtFinish
<1>7. \A m \in Messages : Visible(m) => msg[m].conv \in Convs
  BY DEF ChatInv, TypeOK
<1>8. TypeOK'
  <2>1. \A m \in Messages : Visible(m)' => msg'[m].conv \in Convs /\ InConv(msg[m].sender, msg[m].conv)'
    BY <1>3, <1>5 DEF ChatInv, TypeOK, Visible, InConv, Open
  <2> QED
    BY <1>1, <1>2, <1>3, <1>5, <1>6, <2>1 DEF ChatInv, TypeOK
<1>9. PairsOK'
  BY <1>5 DEF ChatInv, PairsOK, Open
<1>10. ReadByReader'
  BY <1>3, <1>5, <1>7 DEF ChatInv, ReadByReader, Visible
<1> QED
  BY <1>6, <1>8, <1>9, <1>10 DEF ChatInv

(* Insert ends the request when the conversation is gone; else the new row  *)
(* is one that no other request knows of.                                   *)
LEMMA InsertStep == ASSUME ChatInv, NEW p \in Reqs, Insert(p) PROVE ChatInv'
<1>0. /\ req[p] \in Request /\ RequestOK(p, req[p]) /\ req[p].pc = "insert"
      /\ clock' = clock /\ conv' = conv /\ lastRead' = lastRead
      /\ clock \in Nat \ {0} /\ req \in [Reqs -> Request]
  BY DEF ChatInv, TypeOK, RequestsOK, Insert
<1>1. CASE ~Open(req[p].conv)
  BY <1>0, <1>1, FinishStep DEF Insert, tables
<1>2. CASE Open(req[p].conv)
  <2> DEFINE n == req[p].msg
             k == req[p].conv
             row == [state |-> "SENT", conv |-> k, sender |-> req[p].by, at |-> req[p].at]
  <2>1. PICK r \in Request : /\ r = [req[p] EXCEPT !.pc = "bump"]
                             /\ r.pc = "bump" /\ r.msg = n /\ r.by = req[p].by /\ r.conv = k
    <3> DEFINE next == [req[p] EXCEPT !.pc = "bump"]
    <3>1. /\ next \in Request /\ next.pc = "bump" /\ next.msg = n
          /\ next.by = req[p].by /\ next.conv = k
      BY <1>0 DEF Request, PCs
    <3> QED
      BY <3>1
  <2>2. msg' = [msg EXCEPT ![n] = row] /\ req' = [req EXCEPT ![p] = r]
    BY <1>0, <1>2, <2>1 DEF Insert
  <2>3. /\ n \in Messages /\ msg[n].state = "new"
        /\ \A q \in Reqs \ {p} : req[q].msg # n
        /\ TakesPart(req[p].by, k)
    BY <1>0 DEF RequestOK, InConversation
  <2>4. row \in MessageRow
    BY <1>0, <2>3 DEF MessageRow, Request, TakesPart
  <2>5. /\ msg' \in [Messages -> MessageRow] /\ msg'[n] = row
        /\ \A m \in Messages : m # n => msg'[m] = msg[m]
    BY <2>2, <2>3, <2>4 DEF ChatInv, TypeOK
  <2>6. row.state = "SENT" /\ row.conv = k /\ row.sender = req[p].by
    OBVIOUS
  <2> HIDE DEF row, n, k
  <2>7. RequestsOK' /\ req' \in [Reqs -> Request]
    <3>1. RequestOK(p, r)'
      BY <1>0, <2>3, <2>1 DEF RequestOK, InConversation, TakesPart, Open
    <3>2. \A u \in Users, j \in Convs : TakesPart(u, j) => TakesPart(u, j)'
      BY <1>0 DEF TakesPart, Open
    <3>3. \A q \in Reqs \ {p} : req[q].pc = "insert" => msg'[req[q].msg].state = "new"
      BY <2>3, <2>5 DEF ChatInv, RequestsOK, RequestOK
    <3>4. \A m \in Messages, u \in Users, j \in Convs : SeenRow(m, u, j) => SeenRow(m, u, j)'
      BY <2>3, <2>5 DEF SeenRow, Visible
    <3>5. r.msg \in {None, req[p].msg}
      BY <2>1 DEF n
    <3> QED
      BY <2>2, <2>1, <3>1, <3>2, <3>3, <3>4, <3>5, OthersOK
  <2>8. TypeOK'
    <3>1. ASSUME NEW m \in Messages, Visible(m)'
          PROVE  msg'[m].conv \in Convs /\ InConv(msg[m].sender, msg[m].conv)'
      <4>1. CASE m = n
        BY <1>0, <1>2, <2>3, <2>5, <2>6, <4>1 DEF TakesPart, InConv, Open, k
      <4>2. CASE m # n
        BY <1>0, <2>5, <3>1, <4>2 DEF ChatInv, TypeOK, Visible, InConv, Open
      <4> QED
        BY <4>1, <4>2
    <3> QED
      BY <1>0, <2>5, <2>7, <3>1 DEF ChatInv, TypeOK
  <2>9. PairsOK'
    BY <1>0 DEF ChatInv, PairsOK, Open
  <2>10. ReadByReader'
    BY <1>0, <2>5, <2>6 DEF ChatInv, ReadByReader
  <2> QED
    BY <2>7, <2>8, <2>9, <2>10 DEF ChatInv
<1> QED
  BY <1>1, <1>2

(* Rows that end up Gone, or READ without changing hands, keep what others  *)
(* rely on.                                                                 *)
LEMMA EraseStep == ASSUME ChatInv, NEW p \in Reqs, Erase(p) PROVE ChatInv'
<1> DEFINE n == req[p].msg
<1>1. /\ n \in Messages /\ msg' = [msg EXCEPT ![n] = Gone] /\ Finish(p)
      /\ clock' = clock /\ conv' = conv /\ lastRead' = lastRead
  BY DEF ChatInv, RequestsOK, RequestOK, Erase
<1>2. Gone \in MessageRow /\ Gone.state = "gone"
  BY DEF Gone, NoMessage, MessageRow
<1> HIDE DEF n
<1>3. /\ msg' \in [Messages -> MessageRow] /\ msg'[n] = Gone
      /\ \A m \in Messages : m # n => msg'[m] = msg[m]
  BY <1>1, <1>2 DEF ChatInv, TypeOK
<1>4. RequestsOK' /\ req' \in [Reqs -> Request]
  <2>1. \A u \in Users, j \in Convs : TakesPart(u, j) => TakesPart(u, j)'
    BY <1>1 DEF TakesPart, Open
  <2>2. \A q \in Reqs \ {p} : req[q].pc = "insert" => msg'[req[q].msg].state = "new"
    <3>1. p \in Reqs /\ req[p].pc = "erase"
      BY DEF Erase
    <3>2. \A q \in Reqs \ {p} : req[q].pc = "insert" => req[q].msg # n
      BY <3>1 DEF ChatInv, RequestsOK, RequestOK, n
    <3> QED
      BY <1>3, <3>2 DEF ChatInv, RequestsOK, RequestOK
  <2>3. \A m \in Messages, u \in Users, j \in Convs : SeenRow(m, u, j) => SeenRow(m, u, j)'
    BY <1>2, <1>3 DEF SeenRow, Visible
  <2> QED
    BY <1>1, <2>1, <2>2, <2>3, OthersOKAtFinish
<1>5. TypeOK'
  <2>1. \A m \in Messages : Visible(m)' => msg'[m].conv \in Convs /\ InConv(msg[m].sender, msg[m].conv)'
    BY <1>1, <1>2, <1>3 DEF ChatInv, TypeOK, Visible, InConv, Open
  <2> QED
    BY <1>1, <1>3, <1>4, <2>1 DEF ChatInv, TypeOK
<1>6. PairsOK'
  BY <1>1 DEF ChatInv, PairsOK, Open
<1>7. ReadByReader'
  BY <1>1, <1>2, <1>3 DEF ChatInv, ReadByReader
<1> QED
  BY <1>4, <1>5, <1>6, <1>7 DEF ChatInv

(* The rows a commit turns READ have one other participant: its caller, who *)
(* gets a lastReadAt in the same step.                                      *)
LEMMA CommitStep == ASSUME ChatInv, NEW p \in Reqs, Commit(p) PROVE ChatInv'
<1> DEFINE u == req[p].by
           k == req[p].conv
           at == req[p].at
           seen == req[p].seen
<1>0. /\ req[p] \in Request /\ RequestOK(p, req[p]) /\ req[p].pc = "commit"
      /\ clock' = clock /\ conv' = conv /\ Finish(p)
      /\ clock \in Nat \ {0} /\ req \in [Reqs -> Request]
  BY DEF ChatInv, TypeOK, RequestsOK, Commit
<1>1. CASE ~Open(k)
  BY <1>0, <1>1, FinishStep DEF Commit, tables
<1>2. CASE Open(k)
  <2>1. /\ lastRead' = [lastRead EXCEPT ![k][u] = at]
        /\ msg' = Marked(p)
    BY <1>2 DEF Commit
  <2>2. /\ u \in Users /\ k \in Convs /\ at \in Nat /\ at # 0 /\ seen \subseteq Messages
        /\ u \in conv[k].pair
        /\ \A m \in seen : SeenRow(m, u, k)
    BY <1>0, <1>2 DEF RequestOK, Request, InConversation, TakesPart
  <2>3. /\ lastRead' \in [Convs -> [Users -> Nat]] /\ lastRead'[k][u] = at
        /\ \A j \in Convs, v \in Users : lastRead[j][v] # 0 => lastRead'[j][v] # 0
    BY <2>1, <2>2 DEF ChatInv, TypeOK
  <2>4. /\ msg' \in [Messages -> MessageRow]
        /\ \A m \in Messages :
             /\ msg'[m].conv = msg[m].conv /\ msg'[m].sender = msg[m].sender
             /\ m \in seen /\ Visible(m) => msg'[m].state = "READ"
             /\ ~(m \in seen /\ Visible(m)) => msg'[m].state = msg[m].state
    BY <2>1 DEF ChatInv, TypeOK, Marked, MessageRow
  <2>5. \A m \in Messages : Visible(m)' <=> Visible(m)
    BY <2>4 DEF Visible
  <2> HIDE DEF u, k, at, seen
  <2>6. RequestsOK' /\ req' \in [Reqs -> Request]
    <3>1. \A v \in Users, j \in Convs : TakesPart(v, j) => TakesPart(v, j)'
      BY <1>0 DEF TakesPart, Open
    <3>2. \A q \in Reqs \ {p} : req[q].pc = "insert" => msg'[req[q].msg].state = "new"
      <4>1. \A q \in Reqs : req[q].pc = "insert" =>
              req[q].msg \in Messages /\ msg[req[q].msg].state = "new"
        BY DEF ChatInv, RequestsOK, RequestOK
      <4> QED
        BY <2>4, <4>1 DEF Visible
    <3>3. \A m \in Messages, v \in Users, j \in Convs : SeenRow(m, v, j) => SeenRow(m, v, j)'
      BY <2>4, <2>5 DEF SeenRow
    <3> QED
      BY <1>0, <3>1, <3>2, <3>3, OthersOKAtFinish
  <2>7. TypeOK'
    <3>1. \A m \in Messages : Visible(m)' => msg'[m].conv \in Convs /\ InConv(msg[m].sender, msg[m].conv)'
      BY <1>0, <2>4, <2>5 DEF ChatInv, TypeOK, InConv, Open
    <3> QED
      BY <1>0, <2>3, <2>4, <2>6, <3>1 DEF ChatInv, TypeOK
  <2>8. PairsOK'
    BY <1>0 DEF ChatInv, PairsOK, Open
  <2>9. ReadByReader'
    <3> SUFFICES ASSUME NEW m \in Messages, msg'[m].state = "READ",
                        NEW v \in conv[msg[m].conv].pair \ {msg[m].sender}
                 PROVE  lastRead'[msg[m].conv][v] # 0
      BY <1>0, <2>4 DEF ReadByReader
    <3>1. Visible(m)
      BY <2>5 DEF Visible
    <3>2. msg[m].conv \in Convs /\ InConv(msg[m].sender, msg[m].conv) /\ v \in Users
      BY <3>1 DEF ChatInv, TypeOK, PairsOK, InConv
    <3>3. CASE m \in seen
      <4>1. msg[m].conv = k /\ msg[m].sender # u
        BY <2>2, <3>1, <3>3 DEF SeenRow
      <4>2. v = u
        BY <2>2, <3>2, <4>1 DEF ChatInv, PairsOK, InConv
      <4> QED
        BY <2>2, <2>3, <4>1, <4>2
    <3>4. CASE m \notin seen
      <4>1. msg[m].state = "READ"
        BY <2>4, <3>4
      <4>2. lastRead[msg[m].conv][v] # 0
        BY <4>1 DEF ChatInv, ReadByReader
      <4> QED
        BY <2>3, <3>2, <4>2
    <3> QED
      BY <3>3, <3>4
  <2> QED
    BY <2>6, <2>7, <2>8, <2>9 DEF ChatInv
<1> QED
  BY <1>1, <1>2

(* Drop takes the messages with the conversation, so that no READ message is*)
(* left when its lastReadAt goes.                                           *)
LEMMA DropStep == ASSUME ChatInv, NEW p \in Reqs, Drop(p) PROVE ChatInv'
<1> DEFINE k == req[p].conv
           rows == {m \in Messages : Visible(m) /\ msg[m].conv = k}
<1>1. /\ conv' = [conv EXCEPT ![k] = [NoConv EXCEPT !.state = "gone"]]
      /\ lastRead' = [lastRead EXCEPT ![k] = [u \in Users |-> 0]]
      /\ msg' = [m \in Messages |-> IF m \in rows THEN Gone ELSE msg[m]]
      /\ Finish(p) /\ clock' = clock
  BY DEF Drop
<1>2. k \in Convs /\ conv[k].state # "new"
  BY DEF ChatInv, RequestsOK, RequestOK, Drop, InConversation, TakesPart
<1>3. Gone \in MessageRow /\ Gone.state = "gone"
  BY DEF Gone, NoMessage, MessageRow
<1>4. /\ msg' \in [Messages -> MessageRow]
      /\ \A m \in Messages : m \in rows => msg'[m].state = "gone"
      /\ \A m \in Messages : m \notin rows => msg'[m] = msg[m]
  BY <1>1, <1>3 DEF ChatInv, TypeOK
<1>5. /\ conv' \in [Convs -> ConvRow] /\ conv'[k].state = "gone"
      /\ \A j \in Convs : j # k => conv'[j] = conv[j]
  BY <1>1, <1>2 DEF ChatInv, TypeOK, ConvRow, NoConv
<1>6. /\ lastRead' \in [Convs -> [Users -> Nat]]
      /\ \A j \in Convs : j # k => lastRead'[j] = lastRead[j]
  BY <1>1, <1>2 DEF ChatInv, TypeOK
<1>7. \A m \in Messages : m \in rows <=> Visible(m) /\ msg[m].conv = k
  OBVIOUS
<1> HIDE DEF rows, k
<1>8. ASSUME NEW m \in Messages, Visible(m)'
      PROVE  msg'[m] = msg[m] /\ Visible(m) /\ msg[m].conv \in Convs /\ msg[m].conv # k
  <2>1. m \notin rows
    BY <1>4, <1>8 DEF Visible
  <2>2. msg'[m] = msg[m]
    BY <1>4, <2>1
  <2>3. Visible(m)
    BY <1>8, <2>2 DEF Visible
  <2> QED
    BY <1>7, <2>1, <2>2, <2>3 DEF ChatInv, TypeOK
<1>9. RequestsOK' /\ req' \in [Reqs -> Request]
  <2>1. \A v \in Users, j \in Convs : TakesPart(v, j) => TakesPart(v, j)'
    BY <1>5 DEF TakesPart, Open
  <2>2. \A q \in Reqs \ {p} : req[q].pc = "insert" => msg'[req[q].msg].state = "new"
    <3>1. \A q \in Reqs : req[q].pc = "insert" =>
            req[q].msg \in Messages /\ msg[req[q].msg].state = "new"
      BY DEF ChatInv, RequestsOK, RequestOK
    <3> QED
      BY <1>4, <1>7, <3>1 DEF Visible
  <2>3. \A m \in Messages, v \in Users, j \in Convs : SeenRow(m, v, j) => SeenRow(m, v, j)'
    <3> SUFFICES ASSUME NEW m \in Messages, NEW v \in Users, NEW j \in Convs, SeenRow(m, v, j)
                 PROVE  SeenRow(m, v, j)'
      OBVIOUS
    <3>1. msg'[m].state # "new"
      BY <1>4 DEF SeenRow
    <3>2. Visible(m)' => msg'[m].conv = j /\ msg'[m].sender # v
      BY <1>8 DEF SeenRow
    <3> QED
      BY <3>1, <3>2 DEF SeenRow
  <2> QED
    BY <1>1, <2>1, <2>2, <2>3, OthersOKAtFinish
<1>10. TypeOK'
  <2>1. \A m \in Messages : Visible(m)' => msg'[m].conv \in Convs /\ InConv(msg[m].sender, msg[m].conv)'
    BY <1>5, <1>8 DEF ChatInv, TypeOK, InConv, Open
  <2> QED
    BY <1>1, <1>4, <1>5, <1>6, <1>9, <2>1 DEF ChatInv, TypeOK
<1>11. PairsOK'
  BY <1>5 DEF ChatInv, PairsOK, Open
<1>12. ReadByReader'
  <2> SUFFICES ASSUME NEW m \in Messages, msg'[m].state = "READ",
                      NEW v \in conv'[msg'[m].conv].pair \ {msg'[m].sender}
               PROVE  lastRead'[msg'[m].conv][v] # 0
    BY DEF ReadByReader
  <2>1. Visible(m)'
    BY DEF Visible
  <2>2. msg'[m] = msg[m] /\ msg[m].conv \in Convs /\ msg[m].conv # k
    BY <1>8, <2>1
  <2>3. v \in conv[msg[m].conv].pair \ {msg[m].sender}
    BY <1>5, <2>2
  <2> QED
    BY <1>6, <2>2, <2>3 DEF ChatInv, ReadByReader
<1> QED
  BY <1>9, <1>10, <1>11, <1>12 DEF ChatInv

-----------------------------------------------------------------------------
LEMMA NextKeepsInv == ChatInv /\ [Next]_vars => ChatInv'
<1> SUFFICES ASSUME ChatInv, [Next]_vars PROVE ChatInv'
  OBVIOUS
<1>1. CASE UNCHANGED vars
  BY <1>1 DEF vars, ChatInv, TypeOK, PairsOK, RequestsOK, RequestOK, TakesPart, SeenRow,
              ReadByReader, Open, InConv, Visible
<1>2. CASE Next
  <2>1. PICK p \in Reqs : Arrive(p) \/ Step(p) \/ Fail(p)
    BY <1>2 DEF Next
  <2>2. CASE Arrive(p)
    BY <2>2, ArriveStep
  <2>3. CASE Step(p)
    BY <2>3, OwnStep, MakeStep, InsertStep, BumpStep, EraseStep, CommitStep, DropStep
    DEF Step
  <2>4. CASE Fail(p)
    <3>1. Finish(p) /\ UNCHANGED tables /\ clock' \in Nat \ {0}
      BY <2>4 DEF Fail, tables, ChatInv, TypeOK
    <3> QED
      BY <3>1, FinishStep
  <2> QED
    BY <2>1, <2>2, <2>3, <2>4
<1> QED
  BY <1>1, <1>2

LEMMA InvAlways == Spec => []ChatInv
  BY InitInv, NextKeepsInv, PTL DEF Spec

(* Rows and requests keep their types, and every message that is there hangs*)
(* in a conversation that is there and that its sender takes part in:       *)
(* neither an insert nor the deletion of the conversation under it leaves an*)
(* orphan.                                                                  *)
THEOREM TypeCorrect == Spec => []TypeOK
<1>1. ChatInv => TypeOK
  BY DEF ChatInv
<1> QED
  BY InvAlways, <1>1, PTL

(* readMessages: whatever overlaps it and wherever it dies, a message is    *)
(* only READ when everyone it was sent to has a lastReadAt.                 *)
THEOREM ReadMeansReaderHasRead == Spec => []ReadByReader
<1>1. ChatInv => ReadByReader
  BY DEF ChatInv
<1> QED
  BY InvAlways, <1>1, PTL

-----------------------------------------------------------------------------
(* What readMessages, standing as r, still owes a message m that its caller *)
(* could see before the call.                                               *)
Settled(m) == msg[m].state \in {"READ", "gone"}

Owed(m, r) ==
  /\ r.pc \in {"mark", "touch", "commit"} => msg[m].state # "new"
  /\ r.pc = "mark" => \/ Settled(m)
                     \/ m \in UnreadSince(r.by, r.conv, r.at)
  /\ r.pc \in {"touch", "commit"} => Settled(m) \/ m \in r.seen

ShownOwed == \A p \in Reqs : \A m \in req[p].shown : Owed(m, req[p])

(* A row is settled for good, and a message only changes to be settled.     *)
MovesOn(m) == msg'[m] = msg[m] \/ msg[m].state = "new" \/ Settled(m)'

LEMMA RowsMoveOn ==
  ASSUME ChatInv, NEW p \in Reqs, Arrive(p) \/ Step(p) \/ Fail(p), NEW m \in Messages
  PROVE  MovesOn(m)
<1> USE DEF MovesOn
<1>1. CASE Insert(p)
  <2>1. CASE Open(req[p].conv)
    <3>1. msg[req[p].msg].state = "new" /\ msg \in [Messages -> MessageRow]
      BY <1>1 DEF ChatInv, TypeOK, RequestsOK, RequestOK, Insert
    <3>2. m # req[p].msg => msg'[m] = msg[m]
      BY <1>1, <2>1, <3>1 DEF Insert
    <3> QED
      BY <3>1, <3>2
  <2>2. CASE ~Open(req[p].conv)
    BY <1>1, <2>2 DEF Insert
  <2> QED
    BY <2>1, <2>2
<1>2. CASE Erase(p)
  <2>1. msg \in [Messages -> MessageRow] /\ Gone.state = "gone"
    BY DEF ChatInv, TypeOK, Gone, NoMessage
  <2>2. msg'[m] = msg[m] \/ msg'[m] = Gone
    BY <1>2, <2>1 DEF Erase
  <2> QED
    BY <2>1, <2>2 DEF Settled
<1>3. CASE Commit(p)
  <2>1. msg'[m] = msg[m] \/ msg'[m] = [msg[m] EXCEPT !.state = "READ"]
    BY <1>3 DEF Commit, Marked
  <2>2. msg[m] \in MessageRow
    BY DEF ChatInv, TypeOK
  <2> QED
    BY <2>1, <2>2 DEF Settled, MessageRow
<1>4. CASE Drop(p)
  <2>1. msg'[m] = msg[m] \/ msg'[m] = Gone
    BY <1>4 DEF Drop
  <2> QED
    BY <2>1 DEF Settled, Gone, NoMessage
<1>5. CASE Make(p) \/ Bump(p)
  BY <1>5 DEF Make, Bump
<1>6. CASE Look(p) \/ Stamp(p) \/ Mark(p) \/ Touch(p) \/ Fail(p)
  BY <1>6 DEF Look, Stamp, Mark, Touch, Fail, tables
<1>7. CASE Arrive(p)
  BY <1>7 DEF Arrive, OpenConversation, SendMessage, DeleteMessage, ReadMessages,
              RemoveConversation, Start, tables
<1> QED
  BY <1>1, <1>2, <1>3, <1>4, <1>5, <1>6, <1>7 DEF Step

(* So what r is owed it stays owed, or is settled.                          *)
LEMMA OwedStays ==
  ASSUME ChatInv, NEW m \in Messages, NEW r \in Request, MovesOn(m), Owed(m, r)
  PROVE  Owed(m, r)'
  BY DEF Owed, MovesOn, Settled, UnreadSince, FromOthers, Visible

(* A step of p leaves the other requests alone, and p itself owed.          *)
LEMMA OwnOwed ==
  ASSUME ChatInv, ShownOwed, NEW p \in Reqs, Arrive(p) \/ Step(p) \/ Fail(p)
  PROVE  /\ \A q \in Reqs \ {p} : req'[q] = req[q]
         /\ \A m \in req'[p].shown : Owed(m, req[p])'
<1>0. req \in [Reqs -> Request] /\ req[p] \in Request
  BY DEF ChatInv, TypeOK
<1> DEFINE Others == \A q \in Reqs \ {p} : req'[q] = req[q]
           Own == \A m \in req'[p].shown : Owed(m, req[p])'
<1>1. CASE Finish(p)
  <2>1. Others
    BY <1>0, <1>1 DEF Finish
  <2>2. req'[p] = Idle
    BY <1>0, <1>1 DEF Finish
  <2>3. Own
    BY <2>2 DEF Idle
  <2> QED
    BY <2>1, <2>3
<1>2. CASE ReadMessages(p)
  <2>1. PICK u \in Users, k \in Convs :
          Start(p, [Idle EXCEPT !.pc = "mark", !.op = "read", !.by = u, !.conv = k,
                                !.at = lastRead[k][u], !.shown = Unread(u, k)])
    BY <1>2 DEF ReadMessages
  <2>2. Others
    BY <1>0, <2>1 DEF Start
  <2>3. /\ req'[p].pc = "mark" /\ req'[p].by = u /\ req'[p].conv = k
        /\ req'[p].at = lastRead[k][u] /\ req'[p].shown = Unread(u, k)
        /\ msg' = msg
    BY <1>0, <2>1 DEF Start, Idle, tables
  <2>4. Own
    BY <2>3 DEF Owed, Unread, UnreadSince, FromOthers, Visible
  <2> QED
    BY <2>2, <2>4
<1>3. CASE Mark(p)
  <2>1. /\ req' = [req EXCEPT ![p].pc = "touch",
                              ![p].seen = UnreadSince(req[p].by, req[p].conv, req[p].at)]
        /\ msg' = msg /\ req[p].pc = "mark"
    BY <1>3 DEF Mark, tables
  <2>2. Others
    BY <1>0, <2>1
  <2>3. /\ req'[p].pc = "touch" /\ req'[p].shown = req[p].shown
        /\ req'[p].seen = UnreadSince(req[p].by, req[p].conv, req[p].at)
    BY <1>0, <2>1 DEF Request
  <2>4. Own
    BY <2>1, <2>3 DEF ShownOwed, Owed, Settled
  <2> QED
    BY <2>2, <2>4
<1>4. CASE Touch(p)
  <2>1. PICK t \in Instants : req' = [req EXCEPT ![p].pc = "commit", ![p].at = t]
    BY <1>4 DEF Touch
  <2>2. Others
    BY <1>0, <2>1
  <2>3. /\ req'[p].pc = "commit" /\ req'[p].shown = req[p].shown
        /\ req'[p].seen = req[p].seen /\ req[p].pc = "touch" /\ msg' = msg
    BY <1>0, <1>4, <2>1 DEF Request, Touch, tables
  <2>4. Own
    BY <2>3 DEF ShownOwed, Owed, Settled
  <2> QED
    BY <2>2, <2>4
<1>5. CASE \E pc \in PCs \ {"mark", "touch", "commit"} : Others /\ req'[p].pc = pc
  BY <1>5 DEF Owed, PCs
<1>6. ASSUME Look(p) \/ Stamp(p) \/ Insert(p), ~Finish(p)
      PROVE  \E pc \in {"make", "insert", "bump"} : Others /\ req'[p].pc = pc
  <2>1. CASE Look(p)
    <3>1. req' = [req EXCEPT ![p].pc = "make"]
      BY <1>6, <2>1 DEF Look
    <3>2. Others
      BY <1>0, <3>1
    <3>3. req'[p].pc = "make"
      BY <1>0, <3>1 DEF Request
    <3> QED
      BY <3>2, <3>3
  <2>2. CASE Stamp(p)
    <3>1. PICK m \in Messages, t \in Instants :
            req' = [req EXCEPT ![p].pc = "insert", ![p].msg = m, ![p].at = t]
      BY <2>2 DEF Stamp
    <3>2. Others
      BY <1>0, <3>1
    <3>3. req'[p].pc = "insert"
      BY <1>0, <3>1 DEF Request
    <3> QED
      BY <3>2, <3>3
  <2>3. CASE Insert(p)
    <3>1. req' = [req EXCEPT ![p].pc = "bump"]
      BY <1>6, <2>3 DEF Insert
    <3>2. Others
      BY <1>0, <3>1
    <3>3. req'[p].pc = "bump"
      BY <1>0, <3>1 DEF Request
    <3> QED
      BY <3>2, <3>3
  <2> QED
    BY <1>6, <2>1, <2>2, <2>3
<1>7. ASSUME OpenConversation(p) \/ SendMessage(p) \/ DeleteMessage(p) \/ RemoveConversation(p)
      PROVE  \E pc \in {"look", "stamp", "erase", "drop"} : Others /\ req'[p].pc = pc
  <2>1. CASE OpenConversation(p)
    <3>1. PICK u \in Users, other \in Users :
            Start(p, [Idle EXCEPT !.pc = "look", !.op = "open", !.by = u, !.other = other])
      BY <2>1 DEF OpenConversation
    <3>2. Others
      BY <1>0, <3>1 DEF Start
    <3>3. req'[p].pc = "look"
      BY <1>0, <3>1 DEF Start, Idle
    <3> QED
      BY <3>2, <3>3
  <2>2. CASE SendMessage(p)
    <3>1. PICK u \in Users, k \in Convs :
            Start(p, [Idle EXCEPT !.pc = "stamp", !.op = "send", !.by = u, !.conv = k])
      BY <2>2 DEF SendMessage
    <3>2. Others
      BY <1>0, <3>1 DEF Start
    <3>3. req'[p].pc = "stamp"
      BY <1>0, <3>1 DEF Start, Idle
    <3> QED
      BY <3>2, <3>3
  <2>3. CASE DeleteMessage(p)
    <3>1. PICK m \in Messages :
            Start(p, [Idle EXCEPT !.pc = "erase", !.op = "delete", !.by = msg[m].sender,
                                  !.msg = m])
      BY <2>3 DEF DeleteMessage
    <3>2. Others
      BY <1>0, <3>1 DEF Start
    <3>3. req'[p].pc = "erase"
      BY <1>0, <3>1 DEF Start, Idle
    <3> QED
      BY <3>2, <3>3
  <2>4. CASE RemoveConversation(p)
    <3>1. PICK u \in Users, k \in Convs :
            Start(p, [Idle EXCEPT !.pc = "drop", !.op = "remove", !.by = u, !.conv = k])
      BY <2>4 DEF RemoveConversation
    <3>2. Others
      BY <1>0, <3>1 DEF Start
    <3>3. req'[p].pc = "drop"
      BY <1>0, <3>1 DEF Start, Idle
    <3> QED
      BY <3>2, <3>3
  <2> QED
    BY <1>7, <2>1, <2>2, <2>3, <2>4
<1> HIDE DEF Others, Own
<1>8. Make(p) \/ Bump(p) \/ Erase(p) \/ Commit(p) \/ Drop(p) \/ Fail(p) => Finish(p)
  BY DEF Make, Bump, Erase, Commit, Drop, Fail
<1> QED
  BY <1>1, <1>2, <1>3, <1>4, <1>5, <1>6, <1>7, <1>8 DEF Arrive, Step, PCs

LEMMA NextKeepsOwed == ChatInv /\ ShownOwed /\ [Next]_vars => ShownOwed'
<1> SUFFICES ASSUME ChatInv, ShownOwed, [Next]_vars PROVE ShownOwed'
  OBVIOUS
<1>1. CASE UNCHANGED vars
  BY <1>1 DEF vars, ShownOwed, Owed, Settled, UnreadSince, FromOthers, Visible
<1>2. CASE Next
  <2>1. PICK p \in Reqs : Arrive(p) \/ Step(p) \/ Fail(p)
    BY <1>2 DEF Next
  <2>2. ASSUME NEW q \in Reqs, NEW m \in req'[q].shown PROVE Owed(m, req[q])'
    <3>1. CASE q = p
      BY <2>1, <2>2, <3>1, OwnOwed
    <3>2. CASE q # p
      <4>1. req'[q] = req[q]
        BY <2>1, <3>2, OwnOwed
      <4>2. PICK r \in Request : r = req[q]
        BY DEF ChatInv, TypeOK
      <4>3. m \in Messages /\ Owed(m, r)
        BY <2>2, <4>1, <4>2 DEF ShownOwed, Request
      <4>4. Owed(m, r)'
        BY <2>1, <4>3, RowsMoveOn, OwedStays
      <4> QED
        BY <4>1, <4>2, <4>4
    <3> QED
      BY <3>1, <3>2
  <2> QED
    BY <2>2 DEF ShownOwed
<1> QED
  BY <1>1, <1>2

(* readMessages: when it has answered, every message its caller could see   *)
(* unread before the call is READ or deleted, whatever overlaps the call and*)
(* whoever dies holding the rows.                                           *)
THEOREM ReadingCoversWhatWasShown == Spec => ReadCoversShown
<1>1. Init => ShownOwed
  BY DEF Init, Quiet, ShownOwed, Idle
<1>2. ASSUME ChatInv, ShownOwed, NEW p \in Reqs, Commit(p), NEW m \in req[p].shown
      PROVE  msg'[m].state \in {"READ", "gone"}
  <2>1. /\ req[p] \in Request /\ req[p].pc = "commit" /\ m \in Messages
        /\ msg \in [Messages -> MessageRow]
    BY <1>2 DEF ChatInv, TypeOK, Commit, Request
  <2>2. /\ Settled(m) \/ m \in req[p].seen
        /\ msg[m].state # "new"
    BY <1>2, <2>1 DEF ShownOwed, Owed
  <2>3. msg[m].state \in {"SENT", "READ", "gone"}
    BY <2>1, <2>2 DEF MessageRow
  <2>4. CASE Open(req[p].conv)
    <3>1. msg' = Marked(p)
      BY <1>2, <2>4 DEF Commit
    <3>2. msg'[m] = IF m \in req[p].seen /\ Visible(m)
                    THEN [msg[m] EXCEPT !.state = "READ"] ELSE msg[m]
      BY <2>1, <3>1 DEF Marked
    <3> QED
      BY <2>1, <2>2, <2>3, <3>2 DEF Settled, Visible, MessageRow
  <2>5. CASE ~Open(req[p].conv)
    <3>1. msg' = msg
      BY <1>2, <2>5 DEF Commit
    <3>2. m \in req[p].seen => ~Visible(m)
      BY <1>2, <2>1, <2>5
      DEF ChatInv, TypeOK, RequestsOK, RequestOK, SeenRow, InConv, Open
    <3> QED
      BY <2>2, <2>3, <3>1, <3>2 DEF Settled, Visible
  <2> QED
    BY <2>4, <2>5
<1>3. ChatInv /\ ShownOwed => \A p \in Reqs : Commit(p) =>
        \A m \in req[p].shown : msg'[m].state \in {"READ", "gone"}
  BY <1>2
<1> QED
  BY InitInv, NextKeepsInv, NextKeepsOwed, <1>1, <1>3, PTL DEF Spec, ReadCoversShown

-----------------------------------------------------------------------------
(* One request at a time, as MCChat runs them.  p is the one that runs.     *)
Alone == \A p, q \in Reqs : req[p] # Idle /\ req[q] # Idle => p = q

(* Every instant on record has passed.                                      *)
Past ==
  /\ \A m \in Messages : Visible(m) => msg[m].at <= clock
  /\ \A k \in Convs, u \in Users : lastRead[k][u] <= clock

(* An unmarked message is younger than its reader's lastReadAt.             *)
UnmarkedYounger ==
  \A k \in Convs, u \in Users : \A m \in Unmarked(u, k) : msg[m].at > lastRead[k][u]

(* A conversation older than one of its messages is about to be bumped.     *)
BumpPending ==
  \A m \in Messages : Visible(m) =>
    \/ conv[msg[m].conv].updated >= msg[m].at
    \/ \E p \in Reqs : req[p].pc = "bump" /\ req[p].conv = msg[m].conv

(* What a request that nothing overlaps, standing as r, has read still holds.*)
Undisturbed(r) ==
  /\ r.pc = "make" => ~ \E k \in Convs : InConv(r.by, k) /\ InConv(r.other, k)
  /\ r.pc = "insert" => /\ r.at <= clock
                        /\ \A k \in Convs, u \in Users : lastRead[k][u] < r.at
  /\ r.pc = "mark" => r.at = lastRead[r.conv][r.by]
  /\ r.pc \in {"touch", "commit"} => Unmarked(r.by, r.conv) \subseteq r.seen
  /\ r.pc = "commit" => r.at <= clock

Tidy ==
  /\ Past
  /\ UnmarkedYounger
  /\ OneConversationPerPair
  /\ BumpPending
  /\ \A p \in Reqs : Undisturbed(req[p])

(* The inductive invariant of requests that do not overlap.                 *)
SerialInv == ChatInv /\ ShownOwed /\ Alone /\ Tidy

OthersIdle(p) == \A q \in Reqs \ {p} : req[q] = Idle

LEMMA IdleUndisturbed == Undisturbed(Idle) /\ Undisturbed(Idle)'
  BY DEF Undisturbed, Idle

(* A step that leaves the tables alone keeps them tidy when what p has read *)
(* holds.                                                                   *)
LEMMA TidyWithoutWrites ==
  ASSUME SerialInv, NEW p \in Reqs, UNCHANGED tables, clock' \in Nat, clock' >= clock,
         OthersIdle(p), OthersIdle(p)', req[p].pc # "bump", Undisturbed(req[p])'
  PROVE  Tidy'
<1> USE DEF SerialInv, Tidy, ChatInv, TypeOK, tables
<1>1. Past'
  <2>1. ASSUME NEW m \in Messages, Visible(m)' PROVE msg'[m].at <= clock'
    BY <2>1 DEF Past, Visible, MessageRow
  <2>2. ASSUME NEW k \in Convs, NEW u \in Users PROVE lastRead'[k][u] <= clock'
    <3>1. lastRead[k][u] \in Nat /\ lastRead[k][u] <= clock
      BY DEF Past
    <3> QED
      BY <3>1
  <2> QED
    BY <2>1, <2>2 DEF Past
<1>2. UnmarkedYounger'
  BY DEF UnmarkedYounger, Unmarked, FromOthers, Visible
<1>3. OneConversationPerPair'
  BY DEF OneConversationPerPair, Open
<1>4. BumpPending'
  <2>1. \A q \in Reqs : req[q].pc # "bump"
    BY DEF OthersIdle, Idle
  <2> QED
    BY <2>1 DEF BumpPending, Visible
<1>5. \A q \in Reqs : Undisturbed(req[q])'
  BY IdleUndisturbed DEF OthersIdle
<1> QED
  BY <1>1, <1>2, <1>3, <1>4, <1>5

(* The arrival of a request, and the steps that only move it.               *)
LEMMA TidyArrive ==
  ASSUME SerialInv, NEW p \in Reqs, Arrive(p), OthersIdle(p), OthersIdle(p)'
  PROVE  Tidy'
<1>0. req \in [Reqs -> Request] /\ req[p] = Idle /\ clock \in Nat
  BY DEF SerialInv, ChatInv, TypeOK, Arrive
<1>1. UNCHANGED tables /\ clock' = clock
  BY DEF Arrive, OpenConversation, SendMessage, DeleteMessage, ReadMessages,
         RemoveConversation, Start
<1>2. Undisturbed(req[p])'
  <2>1. CASE ReadMessages(p)
    <3>1. PICK u \in Users, k \in Convs :
            Start(p, [Idle EXCEPT !.pc = "mark", !.op = "read", !.by = u, !.conv = k,
                                  !.at = lastRead[k][u], !.shown = Unread(u, k)])
      BY <2>1 DEF ReadMessages
    <3>2. /\ req'[p].pc = "mark" /\ req'[p].by = u /\ req'[p].conv = k
          /\ req'[p].at = lastRead[k][u]
      BY <1>0, <3>1 DEF Start, Idle
    <3> QED
      BY <1>1, <3>2 DEF Undisturbed, tables
  <2>2. CASE ~ReadMessages(p)
    <3>1. req'[p].pc \in {"look", "stamp", "erase", "drop"}
      BY <1>0, <2>2 DEF Arrive, OpenConversation, SendMessage, DeleteMessage,
                        RemoveConversation, Start, Idle
    <3> QED
      BY <3>1 DEF Undisturbed
  <2> QED
    BY <2>1, <2>2
<1>3. req[p].pc # "bump"
  BY <1>0 DEF Idle
<1> QED
  BY <1>0, <1>1, <1>2, <1>3, TidyWithoutWrites

LEMMA TidyOwn ==
  ASSUME SerialInv, NEW p \in Reqs, Look(p) \/ Stamp(p) \/ Mark(p) \/ Touch(p),
         OthersIdle(p), OthersIdle(p)',
         req[p].pc \in Timed => clock' = clock + 1
  PROVE  Tidy'
<1>0. req \in [Reqs -> Request] /\ clock \in Nat /\ Undisturbed(req[p])
  BY DEF SerialInv, ChatInv, TypeOK, Tidy
<1>1. CASE Look(p)
  <2>1. UNCHANGED tables /\ clock' = clock
    BY <1>1 DEF Look
  <2>2. Undisturbed(req[p])'
    <3>1. CASE \E k \in Convs : InConv(req[p].by, k) /\ InConv(req[p].other, k)
      <4>1. req'[p] = Idle
        BY <1>0, <1>1, <3>1 DEF Look, Finish
      <4> QED
        BY <4>1, IdleUndisturbed
    <3>2. CASE ~ \E k \in Convs : InConv(req[p].by, k) /\ InConv(req[p].other, k)
      <4>1. /\ req'[p].pc = "make" /\ req'[p].by = req[p].by
            /\ req'[p].other = req[p].other
        BY <1>0, <1>1, <3>2 DEF Look, Request
      <4> QED
        BY <2>1, <3>2, <4>1 DEF Undisturbed, tables, InConv, Open
    <3> QED
      BY <3>1, <3>2
  <2> QED
    BY <1>0, <1>1, <2>1, <2>2, TidyWithoutWrites DEF Look
<1>2. CASE Stamp(p)
  <2>1. PICK m \in Messages, t \in Instants :
          clock' = t /\ req' = [req EXCEPT ![p].pc = "insert", ![p].msg = m, ![p].at = t]
    BY <1>2 DEF Stamp
  <2>2. UNCHANGED tables /\ req[p].pc = "stamp" /\ clock' = clock + 1
    BY <1>2 DEF Stamp, Timed
  <2>3. req'[p].pc = "insert" /\ req'[p].at = clock + 1
    BY <1>0, <2>1, <2>2 DEF Request
  <2>4. \A k \in Convs, u \in Users : lastRead[k][u] < clock + 1
    BY DEF SerialInv, Tidy, Past, ChatInv, TypeOK
  <2>5. Undisturbed(req[p])'
    BY <1>0, <2>2, <2>3, <2>4 DEF Undisturbed, tables
  <2> QED
    BY <1>0, <2>2, <2>5, TidyWithoutWrites
<1>3. CASE Mark(p)
  <2>1. /\ req' = [req EXCEPT ![p].pc = "touch",
                              ![p].seen = UnreadSince(req[p].by, req[p].conv, req[p].at)]
        /\ req[p].pc = "mark" /\ UNCHANGED tables /\ clock' = clock
    BY <1>3 DEF Mark
  <2>2. /\ req'[p].pc = "touch" /\ req'[p].by = req[p].by /\ req'[p].conv = req[p].conv
        /\ req'[p].seen = UnreadSince(req[p].by, req[p].conv, req[p].at)
    BY <1>0, <2>1 DEF Request
  <2>3. req[p].by \in Users /\ req[p].conv \in Convs
    BY <2>1 DEF SerialInv, ChatInv, RequestsOK, RequestOK, InConversation, TakesPart
  <2>4. Unmarked(req[p].by, req[p].conv) \subseteq UnreadSince(req[p].by, req[p].conv, req[p].at)
    BY <1>0, <2>1, <2>3
    DEF SerialInv, Tidy, UnmarkedYounger, Undisturbed, Unmarked, UnreadSince
  <2>5. Undisturbed(req[p])'
    BY <2>1, <2>2, <2>4 DEF Undisturbed, Unmarked, FromOthers, Visible, tables
  <2> QED
    BY <1>0, <2>1, <2>5, TidyWithoutWrites
<1>4. CASE Touch(p)
  <2>1. PICK t \in Instants : clock' = t /\ req' = [req EXCEPT ![p].pc = "commit", ![p].at = t]
    BY <1>4 DEF Touch
  <2>2. UNCHANGED tables /\ req[p].pc = "touch" /\ clock' = clock + 1
    BY <1>4 DEF Touch, Timed
  <2>3. /\ req'[p].pc = "commit" /\ req'[p].at = clock + 1 /\ req'[p].by = req[p].by
        /\ req'[p].conv = req[p].conv /\ req'[p].seen = req[p].seen
    BY <1>0, <2>1, <2>2 DEF Request
  <2>4. Undisturbed(req[p])'
    BY <1>0, <2>2, <2>3 DEF Undisturbed, Unmarked, FromOthers, Visible, tables
  <2> QED
    BY <1>0, <2>2, <2>4, TidyWithoutWrites
<1> QED
  BY <1>1, <1>2, <1>3, <1>4

(* When p ends, nothing is left to read or to bump.                         *)
LEMMA TidyAtEnd ==
  ASSUME SerialInv, NEW p \in Reqs, Finish(p), OthersIdle(p)
  PROVE  /\ \A q \in Reqs : req'[q] = Idle
         /\ \A q \in Reqs : Undisturbed(req[q])'
         /\ \A q \in Reqs \ {p} : req[q].pc # "bump"
<1>1. req \in [Reqs -> Request]
  BY DEF SerialInv, ChatInv, TypeOK
<1>2. \A q \in Reqs : req'[q] = Idle
  BY <1>1 DEF Finish, OthersIdle
<1>3. \A q \in Reqs : Undisturbed(req[q])'
  BY <1>2, IdleUndisturbed
<1> QED
  BY <1>2, <1>3 DEF OthersIdle, Idle

(* openConversation found none, and nothing has opened one since.           *)
LEMMA TidyMake ==
  ASSUME SerialInv, NEW p \in Reqs, Make(p), OthersIdle(p), clock' = clock + 1
  PROVE  Tidy'
<1>0. /\ clock \in Nat /\ msg \in [Messages -> MessageRow]
      /\ lastRead \in [Convs -> [Users -> Nat]] /\ conv \in [Convs -> ConvRow]
      /\ Past /\ UnmarkedYounger /\ OneConversationPerPair /\ BumpPending
      /\ Undisturbed(req[p]) /\ req[p].pc = "make"
      /\ \A m \in Messages : Visible(m) => InConv(msg[m].sender, msg[m].conv) /\ msg[m].conv \in Convs
  BY DEF SerialInv, ChatInv, TypeOK, Tidy, Make
<1>1. PICK k \in Convs, t \in Instants :
        /\ conv[k] = NoConv
        /\ clock' = t
        /\ conv' = [conv EXCEPT ![k] = [state |-> "there",
                                        pair |-> {req[p].by, req[p].other},
                                        updated |-> t]]
  BY DEF Make
<1>2. Finish(p) /\ lastRead' = lastRead /\ msg' = msg
  BY DEF Make
<1>3. /\ conv'[k].state = "there" /\ conv'[k].pair = {req[p].by, req[p].other}
      /\ \A j \in Convs : j # k => conv'[j] = conv[j]
      /\ ~Open(k)
  BY <1>0, <1>1 DEF Open, NoConv
<1>4. Past'
  <2>1. ASSUME NEW m \in Messages, Visible(m)' PROVE msg'[m].at <= clock'
    BY <1>0, <1>2, <2>1 DEF Past, Visible, MessageRow
  <2>2. ASSUME NEW j \in Convs, NEW u \in Users PROVE lastRead'[j][u] <= clock'
    <3>1. lastRead[j][u] \in Nat /\ lastRead[j][u] <= clock
      BY <1>0 DEF Past
    <3> QED
      BY <1>0, <1>2, <3>1
  <2> QED
    BY <2>1, <2>2 DEF Past
<1>5. UnmarkedYounger'
  BY <1>0, <1>2 DEF UnmarkedYounger, Unmarked, FromOthers, Visible
<1>6. OneConversationPerPair'
  <2>1. \A j \in Convs : Open(j) => conv[j].pair # {req[p].by, req[p].other}
    BY <1>0 DEF Undisturbed, InConv
  <2> QED
    BY <1>0, <1>3, <2>1 DEF OneConversationPerPair, Open
<1>7. BumpPending'
  <2>1. \A m \in Messages : Visible(m) => msg[m].conv # k
    BY <1>0, <1>3 DEF InConv
  <2>2. \A q \in Reqs : req[q].pc # "bump"
    BY <1>0 DEF OthersIdle, Idle
  <2> QED
    BY <1>0, <1>2, <1>3, <2>1, <2>2 DEF BumpPending, Visible
<1> QED
  BY <1>2, <1>4, <1>5, <1>6, <1>7, TidyAtEnd DEF Tidy

(* The new message is the youngest there is, and its conversation is still  *)
(* to be bumped.                                                            *)
LEMMA TidyInsert ==
  ASSUME SerialInv, NEW p \in Reqs, Insert(p), OthersIdle(p), OthersIdle(p)'
  PROVE  Tidy'
<1>0. /\ clock \in Nat /\ msg \in [Messages -> MessageRow] /\ req \in [Reqs -> Request]
      /\ lastRead \in [Convs -> [Users -> Nat]]
      /\ Past /\ UnmarkedYounger /\ OneConversationPerPair /\ BumpPending
      /\ Undisturbed(req[p]) /\ req[p].pc = "insert" /\ RequestOK(p, req[p])
      /\ clock' = clock /\ conv' = conv /\ lastRead' = lastRead
      /\ \A q \in Reqs : req[q].pc # "bump"
  BY DEF SerialInv, ChatInv, TypeOK, RequestsOK, Tidy, Insert, OthersIdle, Idle
<1>1. CASE ~Open(req[p].conv)
  <2>1. Finish(p) /\ UNCHANGED tables
    BY <1>0, <1>1 DEF Insert, tables
  <2> QED
    BY <1>0, <2>1, TidyAtEnd, TidyWithoutWrites
<1>2. CASE Open(req[p].conv)
  <2> DEFINE n == req[p].msg
             at == req[p].at
             k == req[p].conv
             row == [state |-> "SENT", conv |-> k, sender |-> req[p].by, at |-> at]
  <2>1. msg' = [msg EXCEPT ![n] = row] /\ req' = [req EXCEPT ![p].pc = "bump"]
    BY <1>2 DEF Insert
  <2>2. n \in Messages /\ at <= clock /\ \A j \in Convs, u \in Users : lastRead[j][u] < at
    BY <1>0 DEF RequestOK, Undisturbed
  <2>3. /\ msg'[n].at = at /\ msg'[n].conv = k
        /\ \A m \in Messages : m # n => msg'[m] = msg[m]
    BY <1>0, <2>1, <2>2
  <2>4. req'[p].pc = "bump" /\ req'[p].conv = k
    BY <1>0, <2>1 DEF Request
  <2> HIDE DEF n, at, k, row
  <2>5. Past'
    BY <1>0, <2>2, <2>3 DEF Past, Visible
  <2>6. UnmarkedYounger'
    <3> SUFFICES ASSUME NEW j \in Convs, NEW u \in Users, NEW m \in Unmarked(u, j)'
                 PROVE  msg'[m].at > lastRead[j][u]
      BY <1>0 DEF UnmarkedYounger
    <3>0. m \in Messages /\ at \in Nat /\ lastRead[j][u] \in Nat
      BY <1>0 DEF Unmarked, FromOthers, Request, at
    <3>1. CASE m = n
      BY <2>2, <2>3, <3>0, <3>1
    <3>2. CASE m # n
      <4>1. m \in Unmarked(u, j)
        BY <2>3, <3>0, <3>2 DEF Unmarked, FromOthers, Visible
      <4> QED
        BY <1>0, <2>3, <3>0, <3>2, <4>1 DEF UnmarkedYounger
    <3> QED
      BY <3>1, <3>2
  <2>7. OneConversationPerPair'
    BY <1>0 DEF OneConversationPerPair, Open
  <2>8. BumpPending'
    <3> SUFFICES ASSUME NEW m \in Messages, Visible(m)'
                 PROVE  \/ conv'[msg'[m].conv].updated >= msg'[m].at
                        \/ \E q \in Reqs : req'[q].pc = "bump" /\ req'[q].conv = msg'[m].conv
      BY DEF BumpPending
    <3>1. CASE m = n
      BY <2>3, <2>4, <3>1
    <3>2. CASE m # n
      BY <1>0, <2>3, <3>2 DEF BumpPending, Visible
    <3> QED
      BY <3>1, <3>2
  <2>9. \A q \in Reqs : Undisturbed(req[q])'
    <3>1. Undisturbed(req[p])'
      BY <2>4 DEF Undisturbed
    <3> QED
      BY <3>1, IdleUndisturbed DEF OthersIdle
  <2> QED
    BY <2>5, <2>6, <2>7, <2>8, <2>9 DEF Tidy
<1> QED
  BY <1>1, <1>2

(* The conversation gets an instant no message has reached.                 *)
LEMMA TidyBump ==
  ASSUME SerialInv, NEW p \in Reqs, Bump(p), OthersIdle(p), clock' = clock + 1
  PROVE  Tidy'
<1> DEFINE k == req[p].conv
<1>0. /\ clock \in Nat /\ msg \in [Messages -> MessageRow] /\ conv \in [Convs -> ConvRow]
      /\ lastRead \in [Convs -> [Users -> Nat]]
      /\ Past /\ UnmarkedYounger /\ OneConversationPerPair /\ BumpPending
      /\ \A m \in Messages : Visible(m) => InConv(msg[m].sender, msg[m].conv) /\ msg[m].conv \in Convs
  BY DEF SerialInv, ChatInv, TypeOK, Tidy
<1>1. /\ conv' = IF Open(k) THEN [conv EXCEPT ![k].updated = clock + 1] ELSE conv
      /\ Finish(p) /\ lastRead' = lastRead /\ msg' = msg
  BY DEF Bump
<1>2. \A q \in Reqs : req[q].pc = "bump" => q = p
  BY DEF OthersIdle, Idle
<1>3. /\ \A j \in Convs : conv'[j].state = conv[j].state /\ conv'[j].pair = conv[j].pair
      /\ \A j \in Convs : j # k => conv'[j].updated = conv[j].updated
      /\ k \in Convs /\ Open(k) => conv'[k].updated = clock + 1
  BY <1>0, <1>1 DEF ConvRow
<1>4. Past'
  <2>1. ASSUME NEW m \in Messages, Visible(m)' PROVE msg'[m].at <= clock'
    BY <1>0, <1>1, <2>1 DEF Past, Visible, MessageRow
  <2>2. ASSUME NEW j \in Convs, NEW u \in Users PROVE lastRead'[j][u] <= clock'
    <3>1. lastRead[j][u] \in Nat /\ lastRead[j][u] <= clock
      BY <1>0 DEF Past
    <3> QED
      BY <1>0, <1>1, <3>1
  <2> QED
    BY <2>1, <2>2 DEF Past
<1>5. UnmarkedYounger'
  BY <1>0, <1>1 DEF UnmarkedYounger, Unmarked, FromOthers, Visible
<1>6. OneConversationPerPair'
  BY <1>0, <1>3 DEF OneConversationPerPair, Open
<1>7. BumpPending'
  <2> SUFFICES ASSUME NEW m \in Messages, Visible(m)
               PROVE  conv'[msg[m].conv].updated >= msg[m].at
    BY <1>1 DEF BumpPending, Visible
  <2>0. msg[m].conv \in Convs /\ Open(msg[m].conv) /\ msg[m].at <= clock /\ msg[m].at \in Nat
    BY <1>0 DEF Past, InConv, MessageRow
  <2>1. CASE msg[m].conv = k
    BY <1>0, <1>3, <2>0, <2>1
  <2>2. CASE msg[m].conv # k
    <3>1. conv[msg[m].conv].updated >= msg[m].at
      BY <1>0, <1>2, <2>2 DEF BumpPending
    <3> QED
      BY <1>3, <2>0, <2>2, <3>1
  <2> QED
    BY <2>1, <2>2
<1> QED
  BY <1>1, <1>4, <1>5, <1>6, <1>7, TidyAtEnd DEF Tidy

LEMMA TidyErase ==
  ASSUME SerialInv, NEW p \in Reqs, Erase(p), OthersIdle(p)
  PROVE  Tidy'
<1> DEFINE n == req[p].msg
<1>0. /\ clock \in Nat /\ msg \in [Messages -> MessageRow]
      /\ Past /\ UnmarkedYounger /\ OneConversationPerPair /\ BumpPending
      /\ msg' = [msg EXCEPT ![n] = Gone] /\ Finish(p) /\ req[p].pc = "erase"
      /\ clock' = clock /\ conv' = conv /\ lastRead' = lastRead
      /\ \A q \in Reqs : req[q].pc # "bump"
  BY DEF SerialInv, ChatInv, TypeOK, Tidy, Erase, OthersIdle, Idle
<1>1. \A m \in Messages : Visible(m)' => Visible(m) /\ msg'[m] = msg[m]
  BY <1>0 DEF Visible, Gone, NoMessage
<1>2. Past'
  BY <1>0, <1>1 DEF Past
<1>3. UnmarkedYounger'
  BY <1>0, <1>1 DEF UnmarkedYounger, Unmarked, FromOthers
<1>4. OneConversationPerPair'
  BY <1>0 DEF OneConversationPerPair, Open
<1>5. BumpPending'
  BY <1>0, <1>1 DEF BumpPending
<1> QED
  BY <1>0, <1>2, <1>3, <1>4, <1>5, TidyAtEnd DEF Tidy

(* What p has not marked was not there for it: its caller has no unmarked   *)
(* message left, whatever its lastReadAt.                                   *)
LEMMA TidyCommit ==
  ASSUME SerialInv, NEW p \in Reqs, Commit(p), OthersIdle(p)
  PROVE  Tidy'
<1> DEFINE u == req[p].by
           k == req[p].conv
           at == req[p].at
           seen == req[p].seen
<1>0. /\ clock \in Nat /\ msg \in [Messages -> MessageRow]
      /\ lastRead \in [Convs -> [Users -> Nat]]
      /\ Past /\ UnmarkedYounger /\ OneConversationPerPair /\ BumpPending
      /\ Undisturbed(req[p]) /\ req[p].pc = "commit" /\ Finish(p)
      /\ clock' = clock /\ conv' = conv
      /\ \A q \in Reqs : req[q].pc # "bump"
  BY DEF SerialInv, ChatInv, TypeOK, Tidy, Commit, OthersIdle, Idle
<1>1. CASE ~Open(k)
  <2>1. UNCHANGED tables
    BY <1>0, <1>1 DEF Commit, tables
  <2>2. OthersIdle(p)' /\ Undisturbed(req[p])'
    BY <1>0, TidyAtEnd DEF OthersIdle
  <2> QED
    BY <1>0, <2>1, <2>2, TidyWithoutWrites
<1>2. CASE Open(k)
  <2>1. lastRead' = [lastRead EXCEPT ![k][u] = at] /\ msg' = Marked(p)
    BY <1>2 DEF Commit
  <2>2. at <= clock /\ Unmarked(u, k) \subseteq seen
    BY <1>0 DEF Undisturbed
  <2>3. /\ \A m \in Messages :
             /\ msg'[m].conv = msg[m].conv /\ msg'[m].sender = msg[m].sender
             /\ msg'[m].at = msg[m].at
             /\ m \in seen /\ Visible(m) => msg'[m].state = "READ"
             /\ ~(m \in seen /\ Visible(m)) => msg'[m].state = msg[m].state
    BY <1>0, <2>1 DEF Marked, MessageRow
  <2>4. \A j \in Convs, v \in Users :
          lastRead'[j][v] = IF j = k /\ v = u THEN at ELSE lastRead[j][v]
    BY <1>0, <2>1
  <2> HIDE DEF u, k, at, seen
  <2>5. \A m \in Messages : Visible(m)' <=> Visible(m)
    BY <2>3 DEF Visible
  <2>6. Past'
    BY <1>0, <2>2, <2>3, <2>4, <2>5 DEF Past
  <2>7. UnmarkedYounger'
    <3> SUFFICES ASSUME NEW j \in Convs, NEW v \in Users, NEW m \in Unmarked(v, j)'
                 PROVE  msg'[m].at > lastRead'[j][v]
      BY DEF UnmarkedYounger
    <3>1. m \in Messages /\ m \in Unmarked(v, j) /\ m \notin seen
      BY <2>3, <2>5 DEF Unmarked, FromOthers
    <3>2. ~(j = k /\ v = u)
      BY <2>2, <3>1
    <3> QED
      BY <1>0, <2>3, <2>4, <3>1, <3>2 DEF UnmarkedYounger
  <2>8. OneConversationPerPair'
    BY <1>0 DEF OneConversationPerPair, Open
  <2>9. BumpPending'
    BY <1>0, <2>3, <2>5 DEF BumpPending
  <2> QED
    BY <1>0, <2>6, <2>7, <2>8, <2>9, TidyAtEnd DEF Tidy
<1> QED
  BY <1>1, <1>2

LEMMA TidyDrop ==
  ASSUME SerialInv, NEW p \in Reqs, Drop(p), OthersIdle(p)
  PROVE  Tidy'
<1> DEFINE k == req[p].conv
           rows == {m \in Messages : Visible(m) /\ msg[m].conv = k}
<1>0. /\ clock \in Nat /\ msg \in [Messages -> MessageRow] /\ conv \in [Convs -> ConvRow]
      /\ lastRead \in [Convs -> [Users -> Nat]]
      /\ Past /\ UnmarkedYounger /\ OneConversationPerPair /\ BumpPending
      /\ req[p].pc = "drop" /\ Finish(p) /\ clock' = clock
      /\ \A q \in Reqs : req[q].pc # "bump"
  BY DEF SerialInv, ChatInv, TypeOK, Tidy, Drop, OthersIdle, Idle
<1>1. /\ conv' = [conv EXCEPT ![k] = [NoConv EXCEPT !.state = "gone"]]
      /\ lastRead' = [lastRead EXCEPT ![k] = [v \in Users |-> 0]]
      /\ msg' = [m \in Messages |-> IF m \in rows THEN Gone ELSE msg[m]]
  BY DEF Drop
<1>2. \A m \in Messages : Visible(m)' => Visible(m) /\ msg'[m] = msg[m] /\ msg[m].conv # k
  BY <1>1 DEF Visible, Gone, NoMessage
<1>3. /\ \A j \in Convs : j # k => conv'[j] = conv[j]
      /\ k \in Convs => conv'[k].state = "gone"
      /\ \A j \in Convs : j # k => lastRead'[j] = lastRead[j]
      /\ k \in Convs => \A v \in Users : lastRead'[k][v] = 0
  BY <1>0, <1>1 DEF NoConv
<1> HIDE DEF rows, k
<1>4. Past'
  BY <1>0, <1>2, <1>3 DEF Past
<1>5. UnmarkedYounger'
  BY <1>0, <1>2, <1>3 DEF UnmarkedYounger, Unmarked, FromOthers
<1>6. OneConversationPerPair'
  <2>1. \A j \in Convs : Open(j)' => conv'[j] = conv[j] /\ Open(j)
    BY <1>3 DEF Open
  <2> QED
    BY <1>0, <2>1 DEF OneConversationPerPair
<1>7. BumpPending'
  <2>1. \A m \in Messages : Visible(m) => msg[m].conv \in Convs
    BY DEF SerialInv, ChatInv, TypeOK
  <2> QED
    BY <1>0, <1>2, <1>3, <2>1 DEF BumpPending
<1> QED
  BY <1>0, <1>4, <1>5, <1>6, <1>7, TidyAtEnd DEF Tidy
-----------------------------------------------------------------------------
(* An arrival or a step of p moves no other request.                        *)
LEMMA MovesOnlyOwn ==
  ASSUME ChatInv, ShownOwed, NEW p \in Reqs, Arrive(p) \/ Step(p)
  PROVE  \A q \in Reqs \ {p} : req'[q] = req[q]
  BY OwnOwed

LEMMA SerialNext ==
  ASSUME SerialInv, NEW p \in Reqs, Arrive(p) \/ Step(p), Serially
  PROVE  SerialInv'
<1>0. ChatInv /\ ShownOwed /\ req \in [Reqs -> Request]
  BY DEF SerialInv, ChatInv, TypeOK
<1>1. ChatInv' /\ ShownOwed'
  BY <1>0, NextKeepsInv, NextKeepsOwed DEF Next
<1>2. \A q \in Reqs \ {p} : req'[q] = req[q]
  BY <1>0, MovesOnlyOwn
<1>3. OthersIdle(p)
  <2>1. CASE Arrive(p)
    <3>1. req'[p].pc # "idle"
      <4>1. CASE ReadMessages(p)
        BY <1>0, <4>1 DEF ReadMessages, Start, Idle
      <4>2. CASE ~ReadMessages(p)
        BY <1>0, <2>1, <4>2 DEF Arrive, OpenConversation, SendMessage, DeleteMessage,
                                RemoveConversation, Start, Idle
      <4> QED
        BY <4>1, <4>2
    <3> QED
      BY <3>1 DEF Serially, OthersIdle, Idle
  <2>2. CASE Step(p)
    <3>1. req[p].pc # "idle"
      BY <2>2 DEF Step, Look, Make, Stamp, Insert, Bump, Erase, Mark, Touch, Commit, Drop
    <3> QED
      BY <3>1 DEF SerialInv, Alone, OthersIdle, Idle
  <2> QED
    BY <2>1, <2>2
<1>4. OthersIdle(p)'
  BY <1>2, <1>3 DEF OthersIdle
<1>5. Alone'
  BY <1>4 DEF Alone, OthersIdle
<1>6. req[p].pc \in Timed => clock' = clock + 1
  BY DEF Serially
<1>7. Tidy'
  <2>1. CASE Arrive(p)
    BY <1>3, <1>4, <2>1, TidyArrive
  <2>2. CASE Look(p) \/ Stamp(p) \/ Mark(p) \/ Touch(p)
    BY <1>3, <1>4, <1>6, <2>2, TidyOwn
  <2>3. CASE Make(p)
    BY <1>3, <1>6, <2>3, TidyMake DEF Make, Timed
  <2>4. CASE Insert(p)
    BY <1>3, <1>4, <2>4, TidyInsert
  <2>5. CASE Bump(p)
    BY <1>3, <1>6, <2>5, TidyBump DEF Bump, Timed
  <2>6. CASE Erase(p)
    BY <1>3, <2>6, TidyErase
  <2>7. CASE Commit(p)
    BY <1>3, <2>7, TidyCommit
  <2>8. CASE Drop(p)
    BY <1>3, <2>8, TidyDrop
  <2> QED
    BY <2>1, <2>2, <2>3, <2>4, <2>5, <2>6, <2>7, <2>8 DEF Step
<1> QED
  BY <1>1, <1>5, <1>7 DEF SerialInv

ScenarioInv == scenario = "serial" => SerialInv

LEMMA ScenarioInvHolds == MCSpec => []ScenarioInv
<1>1. MCInit => ScenarioInv
  <2> SUFFICES ASSUME Init PROVE SerialInv
    BY DEF MCInit, ScenarioInv
  <2>1. ChatInv
    BY InitInv
  <2>2. \A p \in Reqs : req[p] = Idle
    BY DEF Init, Quiet
  <2>3. ShownOwed /\ Alone
    BY <2>2 DEF ShownOwed, Alone, Idle
  <2>4. \A m \in Messages : ~Visible(m)
    BY DEF Init, Quiet, Visible, NoMessage
  <2>5. \A k \in Convs : ~Open(k)
    BY DEF Init, Open, NoConv
  <2>6. Past
    BY <2>4 DEF Past, Init, Quiet
  <2>7. UnmarkedYounger
    BY <2>4 DEF UnmarkedYounger, Unmarked, FromOthers
  <2>8. OneConversationPerPair /\ BumpPending
    BY <2>4, <2>5 DEF OneConversationPerPair, BumpPending
  <2>9. \A p \in Reqs : Undisturbed(req[p])
    BY <2>2, IdleUndisturbed
  <2> QED
    BY <2>1, <2>3, <2>6, <2>7, <2>8, <2>9 DEF SerialInv, Tidy
<1>2. ScenarioInv /\ [MCNext]_<<vars, scenario>> => ScenarioInv'
  <2> SUFFICES ASSUME SerialInv, scenario = "serial", scenario' = scenario,
                      [MCNext]_<<vars, scenario>>
               PROVE  SerialInv'
    BY DEF ScenarioInv, MCNext
  <2>1. CASE MCNext
    BY <2>1, SerialNext DEF MCNext
  <2>2. CASE UNCHANGED vars
    <3>1. ChatInv' /\ ShownOwed'
      BY <2>2, NextKeepsInv, NextKeepsOwed DEF SerialInv
    <3>2. Alone' /\ Tidy'
      BY <2>2 DEF SerialInv, Alone, Tidy, vars, Past, UnmarkedYounger, OneConversationPerPair,
                  BumpPending, Undisturbed, Unmarked, FromOthers, Visible, Open, InConv
    <3> QED
      BY <3>1, <3>2 DEF SerialInv
  <2> QED
    BY <2>1, <2>2
<1> QED
  BY <1>1, <1>2, PTL DEF MCSpec

(* Requests that do not overlap: the unread list of every user holds every  *)
(* message of the others that is not READ, whatever they sent, read, deleted*)
(* and removed before: lastReadAt never hides one.                          *)
THEOREM UnreadExact == MCSpec => []SerialUnreadExact
<1>1. SerialInv => UnreadIsExact
  BY DEF SerialInv, Tidy, UnmarkedYounger, UnreadIsExact, Unread, UnreadSince, Unmarked
<1>2. ScenarioInv => SerialUnreadExact
  BY <1>1 DEF ScenarioInv, SerialUnreadExact
<1> QED
  BY <1>2, ScenarioInvHolds, PTL

(* Requests that do not overlap: two users never have two conversations open*)
(* between them.                                                            *)
THEOREM OneConversation == MCSpec => []SerialOneConversation
<1>1. ScenarioInv => SerialOneConversation
  BY DEF ScenarioInv, SerialInv, Tidy, SerialOneConversation
<1> QED
  BY <1>1, ScenarioInvHolds, PTL

(* Requests that do not overlap: at rest no conversation has a message      *)
(* younger than the updatedAt that gives it its place in the list.          *)
THEOREM NewestFirst == MCSpec => []SerialNewestFirst
<1>1. SerialInv /\ AtRest => UpdatedByNewest
  BY DEF SerialInv, Tidy, BumpPending, AtRest, UpdatedByNewest, Idle
<1>2. ScenarioInv => SerialNewestFirst
  BY <1>1 DEF ScenarioInv, SerialNewestFirst
<1> QED
  BY <1>2, ScenarioInvHolds, PTL
=============================================================================
