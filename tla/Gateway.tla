-------------------------------- MODULE Gateway --------------------------------
(***************************************************************************)
(* chat/message/message.gateway: what the socket server keeps in memory.   *)
(* clients maps an account to its last socket, activeUsers the name of a   *)
(* caller to a socket, chunks a recording to what has arrived of it.  A    *)
(* handler runs without an await and is one action; sockets of one account *)
(* come and go in any order, and a restart forgets everything but files.   *)
(***************************************************************************)
EXTENDS Naturals, Sequences, FiniteSets, Functions

CONSTANTS
  Sockets, Owner,       \* ids of connections, and the account of each one's token
  Names,                \* what callers call themselves
  Recordings, MaxChunks,  \* MaxChunks: bound of an instance
  None

Users == Range(Owner)
GatewayAssumption == Owner \in [Sockets -> Users] /\ MaxChunks \in Nat /\ None \notin Sockets

VARIABLES
  open, closed,   \* sockets; an id is not used twice
  clients, activeUsers,
  newest,         \* the last socket each account has connected
  unseen,         \* sockets that closed without a trace: not the one of clients then,
                  \* or known by a second name
  rooms,          \* rooms of each socket beside its account's
  sent,           \* the last event of a call or message: the socket it went to
  chunks, file,   \* buffered and written chunks of a recording
  arrived,        \* chunks received since the start that the file was read at
  count

vars == <<open, closed, clients, activeUsers, newest, unseen, rooms, sent, chunks, file, arrived, count>>
connections == <<open, closed, clients, activeUsers, newest, unseen, rooms>>
recorded == <<chunks, file, arrived, count>>

Nobody == [u \in Users |-> None]
NoNames == [n \in Names |-> None]
NoChunks == [r \in Recordings |-> <<>>]

Init ==
  /\ open = {} /\ closed = {} /\ clients = Nobody /\ activeUsers = NoNames /\ newest = Nobody
  /\ unseen = {} /\ rooms = [s \in Sockets |-> {}] /\ sent = None
  /\ chunks = NoChunks /\ file = NoChunks /\ arrived = NoChunks /\ count = 0
-----------------------------------------------------------------------------
(* With a token that verifies; without one the socket is closed again.      *)
handleConnection(s) ==
  /\ s \notin open \cup closed
  /\ open' = open \cup {s}
  /\ clients' = [clients EXCEPT ![Owner[s]] = s] /\ newest' = [newest EXCEPT ![Owner[s]] = s]
  /\ UNCHANGED <<closed, activeUsers, unseen, rooms, sent>> /\ UNCHANGED recorded

(* Mutant: the account of the socket that closed is forgotten. *)
ByOwner(s) == {Owner[s]}

(* The account is found by its socket: an older one is nobody's.            *)
Registered(s) == {u \in Users : clients[u] = s}
NamesOf(s) == {n \in Names : activeUsers[n] = s}

handleDisconnect(s) ==
  /\ s \in open /\ open' = open \ {s} /\ closed' = closed \cup {s}
  /\ rooms' = [rooms EXCEPT ![s] = {}]
  /\ IF Registered(s) = {}
     THEN unseen' = unseen \cup {s} /\ UNCHANGED <<clients, activeUsers>>
     ELSE /\ clients' = [u \in Users |-> IF u \in Registered(s) THEN None ELSE clients[u]]
          /\ IF NamesOf(s) = {}
             THEN UNCHANGED activeUsers
             ELSE \E n \in NamesOf(s) : activeUsers' = [activeUsers EXCEPT ![n] = None]
          /\ unseen' = IF Cardinality(NamesOf(s)) > 1 THEN unseen \cup {s} ELSE unseen
  /\ UNCHANGED <<newest, sent>> /\ UNCHANGED recorded

handleRoomJoin(s) ==
  /\ s \in open /\ rooms' = [rooms EXCEPT ![s] = @ \cup {"room"}]
  /\ UNCHANGED <<open, closed, clients, activeUsers, newest, unseen, sent>> /\ UNCHANGED recorded

(* sendMessage, typing and stopTyping go to the recipient's socket, if one  *)
(* is registered.                                                           *)
listenForMessages(u) ==
  /\ open # {} /\ clients[u] # None /\ sent' = clients[u]
  /\ UNCHANGED connections /\ UNCHANGED recorded
-----------------------------------------------------------------------------
handleJoin(s, n) ==
  /\ s \in open /\ activeUsers' = [activeUsers EXCEPT ![n] = s]
  /\ UNCHANGED <<open, closed, clients, newest, unseen, rooms, sent>> /\ UNCHANGED recorded

(* call, answer, iceCandidate and endCall: to whoever has the name.         *)
handleCall(n) ==
  /\ open # {} /\ activeUsers[n] # None /\ sent' = activeUsers[n]
  /\ UNCHANGED connections /\ UNCHANGED recorded
-----------------------------------------------------------------------------
(* The chunk's sequence number is not looked at. *)
handleRecordingChunk(r) ==
  /\ count < MaxChunks /\ count' = count + 1 /\ open # {}
  /\ chunks' = [chunks EXCEPT ![r] = Append(@, count + 1)]
  /\ arrived' = [arrived EXCEPT ![r] = Append(@, count + 1)]
  /\ UNCHANGED <<sent, file>> /\ UNCHANGED connections

(* Mutant: the buffer is kept after it was written. *)
KeptBuffer(r) == chunks[r]

AfterEnd(r) == <<>>

(* The buffer is appended to the file; a chunk that comes later waits for   *)
(* another end.                                                             *)
handleRecordingEnd(r) ==
  /\ open # {}
  /\ file' = [file EXCEPT ![r] = @ \o chunks[r]]
  /\ chunks' = [chunks EXCEPT ![r] = AfterEnd(r)]
  /\ UNCHANGED <<sent, arrived, count>> /\ UNCHANGED connections

(* The process ends: sockets close and the maps are gone; files stay.       *)
Restart ==
  /\ open # {}
  /\ open' = {} /\ closed' = closed \cup open /\ clients' = Nobody /\ activeUsers' = NoNames
  /\ rooms' = [s \in Sockets |-> {}]
  /\ chunks' = NoChunks /\ arrived' = file
  /\ UNCHANGED <<newest, unseen, sent, file, count>>

Next ==
  \/ \E s \in Sockets : \/ handleConnection(s) \/ handleDisconnect(s) \/ handleRoomJoin(s)
                        \/ \E n \in Names : handleJoin(s, n)
  \/ \E u \in Users : listenForMessages(u)
  \/ \E n \in Names : handleCall(n)
  \/ \E r \in Recordings : handleRecordingChunk(r) \/ handleRecordingEnd(r)
  \/ Restart

Spec == Init /\ [][Next]_vars
-----------------------------------------------------------------------------
TypeOK ==
  /\ open \cup closed \cup unseen \subseteq Sockets /\ open \cap closed = {}
  /\ clients \in [Users -> Sockets \cup {None}] /\ activeUsers \in [Names -> Sockets \cup {None}]
  /\ \A s \in Sockets : s \notin open => rooms[s] = {}

(* A message reaches the tab the account has opened last, or none: however  *)
(* tabs come and go, the registered socket is the newest one if that is     *)
(* still open, and there is none once it has closed, older tabs open or not *)
(* (message.gateway.ts:138, :152).                                          *)
NewestRegistered ==
  \A u \in Users : clients[u] = IF newest[u] \in open THEN newest[u] ELSE None

(* A call goes to an open socket, or to one that closed while a newer tab   *)
(* of its account was registered, or under one of its other names           *)
(* (message.gateway.ts:158).                                                *)
CallsFindSockets == \A n \in Names : activeUsers[n] \in open \cup unseen \cup {None}

(* The file and the buffer of a recording together hold every chunk since   *)
(* the last restart once, in the order they came (message.gateway.ts:314,   *)
(* :333).                                                                   *)
RecordingsWhole == \A r \in Recordings : file[r] \o chunks[r] = arrived[r]
=============================================================================
