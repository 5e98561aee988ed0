------------------------------ MODULE LobbyTables ------------------------------
(*****************************************************************************)
(* The tables of hh-lobby as values and the operations on them: the          *)
(* matchmaking queue and its pending matches (lobby/matchmaking.c), the      *)
(* pending private rooms and the room codes (lobby/rooms.c), the registry of *)
(* game servers (lobby/server_registry.c).                                   *)
(*                                                                           *)
(* Abstractions: a session token is the account it was drawn for; the slots  *)
(* of the two pending arrays and of the registry are sets, so where the code *)
(* takes the first slot that fits the model takes any; a registry has a slot *)
(* for every server; sqlite does not fail.                                   *)
(*****************************************************************************)
EXTENDS Integers, FiniteSets, FiniteSetsExt

CONSTANTS
  Clients,      \* client programs, each with the account of its key
  Servers,      \* game servers, by "addr:port"
  Conns,        \* indices of g_net.conns[]
  Codes,        \* room codes
  QueueSlots,   \* indices of g_queue[], 0..MM_MAX_QUEUE-1
  MatchSize,    \* MM_PLAYERS_PER_MATCH
  MaxMatches,   \* MM_MAX_PENDING
  MaxPending,   \* LOBBY_MAX_PENDING
  MaxRooms,     \* max_rooms of a game server
  NoEntry, NoServer, NoRow

ASSUME TableSizes ==
  /\ Conns \subseteq Nat /\ IsFiniteSet(Conns)
  /\ QueueSlots \subseteq Nat /\ IsFiniteSet(QueueSlots)
  /\ IsFiniteSet(Codes)
  /\ MatchSize \in Nat \ {0} /\ MaxMatches \in Nat /\ MaxPending \in Nat
  /\ MaxRooms \in Nat \ {0}

QueueEntry == [conn_id : Conns, account : Clients, order : Nat]
PendingRoom == [code : Codes, client : Conns, server : Conns]
PendingMatch == [code : Codes, conns : [1..MatchSize -> Conns], server : Conns]
CodeRow == [status : {"active", "finished", "expired"}, server : Servers]
RegisteredServer == [conn_id : Conns, current_rooms : Nat]

ASSUME AbsentEntry == NoEntry \notin QueueEntry
ASSUME AbsentRow == NoRow \notin CodeRow
ASSUME AbsentServer == NoServer \notin RegisteredServer

Tables == [ queue : [QueueSlots -> QueueEntry \cup {NoEntry}],
            enqueue_counter : Nat,
            matches : SUBSET PendingMatch,
            pending : SUBSET PendingRoom,
            codes : [Codes -> CodeRow \cup {NoRow}],
            servers : [Servers -> RegisteredServer \cup {NoServer}] ]

EmptyTables == [ queue |-> [s \in QueueSlots |-> NoEntry],
                 enqueue_counter |-> 0,
                 matches |-> {},
                 pending |-> {},
                 codes |-> [k \in Codes |-> NoRow],
                 servers |-> [g \in Servers |-> NoServer] ]

-----------------------------------------------------------------------------
(* The matchmaking queue.                                                    *)

Queued(t) == {s \in QueueSlots : t.queue[s] # NoEntry}

\* mm_queue_add returns a position: the account is not queued, a slot is free.
CanEnqueue(t, account) ==
  /\ Queued(t) # QueueSlots
  /\ \A s \in Queued(t) : t.queue[s].account # account

Enqueue(t, i, account) ==
  [t EXCEPT !.queue[Min(QueueSlots \ Queued(t))] =
              [conn_id |-> i, account |-> account, order |-> t.enqueue_counter],
            !.enqueue_counter = @ + 1]

\* mm_queue_remove: the first entry of the connection.
Dequeue(t, i) ==
  LET mine == {s \in Queued(t) : t.queue[s].conn_id = i}
  IN  IF mine = {} THEN t ELSE [t EXCEPT !.queue[Min(mine)] = NoEntry]

Before(t, s) == {r \in Queued(t) : t.queue[r].order < t.queue[s].order}

\* Slip: one player too many is waited for.
MatchFormsLate(t) == Cardinality(Queued(t)) > MatchSize

\* mm_try_form_match: the MatchSize entries with the lowest enqueue_order leave.
MatchForms(t) == Cardinality(Queued(t)) >= MatchSize
MatchedSlots(t) == {s \in Queued(t) : Cardinality(Before(t, s)) < MatchSize}
MatchedConns(t) ==
  [p \in 1..MatchSize |->
     t.queue[CHOOSE s \in Queued(t) : Cardinality(Before(t, s)) = p - 1].conn_id]
Unqueue(t, S) == [t EXCEPT !.queue = [s \in QueueSlots |-> IF s \in S THEN NoEntry ELSE @[s]]]

-----------------------------------------------------------------------------
(* Room codes and pending requests.                                          *)

\* Slip: no collision is looked for.
FreeCodesAny(t) == Codes

\* lobby_rooms_generate_code: not in the database, not in the pending rooms.
FreeCodes(t) ==
  {k \in Codes : t.codes[k] = NoRow /\ \A p \in t.pending : p.code # k}

InsertRow(t, k, g) == [t EXCEPT !.codes[k] = [status |-> "active", server |-> g]]

\* lobby_rooms_set_status: an UPDATE, which finds the row or does nothing.
SetStatus(t, k, status) ==
  IF t.codes[k] = NoRow THEN t ELSE [t EXCEPT !.codes[k].status = status]

ForgetClient(t, i) == [t EXCEPT !.pending = {p \in @ : p.client # i}]
ForgetServer(t, i) == [t EXCEPT !.pending = {p \in @ : p.server # i},
                                !.matches = {m \in @ : m.server # i}]
MatchesWith(t, i) == {m \in t.matches : \E p \in 1..MatchSize : m.conns[p] = i}

-----------------------------------------------------------------------------
(* The registry of game servers.                                             *)

Registered(t) == {g \in Servers : t.servers[g] # NoServer}
RegisteredOn(t, i) == {g \in Registered(t) : t.servers[g].conn_id = i}

\* Slip: a server that is found keeps the connection it had.
RegisterKeepingConn(t, g, i, rooms) ==
  [t EXCEPT !.servers[g] = IF @ = NoServer THEN [conn_id |-> i, current_rooms |-> rooms]
                           ELSE [@ EXCEPT !.current_rooms = rooms]]

\* svreg_register finds the server by its id, whatever connection it had before.
Register(t, g, i, rooms) ==
  [t EXCEPT !.servers[g] = [conn_id |-> i, current_rooms |-> rooms]]
Unregister(t, g) == [t EXCEPT !.servers[g] = NoServer]

\* svreg_pick_server: one with the most room left, by its last heartbeat.
Available(t, g) == MaxRooms - t.servers[g].current_rooms
PickServer(t) ==
  {g \in Registered(t) :
     /\ Available(t, g) > 0
     /\ \A h \in Registered(t) : Available(t, h) <= Available(t, g)}

=============================================================================
