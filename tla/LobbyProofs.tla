------------------------------ MODULE LobbyProofs ------------------------------
(*****************************************************************************)
(* What holds of Lobby for any number of clients, servers, connections and   *)
(* codes and any size of a match: the queue never holds a whole match, a     *)
(* room code is waited for by one request only, a game server whose          *)
(* connection is up is registered on it, and a client that waits is in the   *)
(* tables or about to be answered.                                           *)
(*                                                                           *)
(* The first two need nothing of the connections: the invariant is one of    *)
(* the tables, and most handlers only take something out of them.  The third *)
(* needs to know which of two connections of a server speaks when.  The      *)
(* fourth follows each request from the client's mouth to the lobby's        *)
(* answer, and needs to know what the game servers have said of the rooms.   *)
(*****************************************************************************)
EXTENDS Lobby, FiniteSetTheorems, TLAPS

\* A table has its fields.
Shaped(t) ==
  DOMAIN t = {"queue", "enqueue_counter", "matches", "pending", "codes", "servers"}

\* Entries are ordered by when they came.
Ordered(t) ==
  /\ DOMAIN t.queue = QueueSlots
  /\ t.enqueue_counter \in Nat
  /\ \A s \in Queued(t) : t.queue[s].order \in Nat /\ t.queue[s].order < t.enqueue_counter
  /\ \A r, s \in Queued(t) : t.queue[r].order = t.queue[s].order => r = s

\* They are fewer than a match needs.
QueueSafe(t) ==
  /\ Ordered(t)
  /\ Cardinality(Queued(t)) < MatchSize

\* Whatever waits for a room waits for a code that has a row, and alone.
CodesSafe(t) ==
  /\ t.codes \in [Codes -> CodeRow \cup {NoRow}]
  /\ \A p \in t.pending : p.code \in Codes /\ t.codes[p.code] # NoRow
  /\ \A m \in t.matches : m.code \in Codes /\ t.codes[m.code] # NoRow
  /\ \A m \in t.matches : DOMAIN m.conns = 1 .. MatchSize
  /\ \A p, q \in t.pending : p.code = q.code => p = q
  /\ \A m, n \in t.matches : m.code = n.code => m = n
  /\ \A p \in t.pending, m \in t.matches : p.code # m.code

Safe(t) == Shaped(t) /\ QueueSafe(t) /\ CodesSafe(t)

-----------------------------------------------------------------------------
(* The queue.                                                                *)

\* The slots in use are finitely many.
LEMMA QueuedFinite ==
  ASSUME NEW t
  PROVE  IsFiniteSet(Queued(t)) /\ Cardinality(Queued(t)) \in Nat
<1>1. Queued(t) \in SUBSET QueueSlots
  BY DEF Queued
<1>2. IsFiniteSet(Queued(t))
  BY <1>1, TableSizes, FS_Subset
<1> QED
  BY <1>2, FS_CardinalityType

\* A queue of which entries were only taken out stays safe.
LEMMA FewerEntries ==
  ASSUME NEW t, NEW u, QueueSafe(t),
         DOMAIN u.queue = QueueSlots, u.enqueue_counter = t.enqueue_counter,
         \A s \in Queued(u) : s \in Queued(t) /\ u.queue[s] = t.queue[s]
  PROVE  QueueSafe(u)
<1>1. Queued(u) \in SUBSET Queued(t)
  OBVIOUS
<1>2. Cardinality(Queued(u)) <= Cardinality(Queued(t))
  BY <1>1, QueuedFinite, FS_Subset
<1>3. Cardinality(Queued(u)) \in Nat /\ Cardinality(Queued(t)) \in Nat
  BY QueuedFinite
<1>4. Cardinality(Queued(u)) < MatchSize
  BY <1>2, <1>3, TableSizes DEF QueueSafe
<1> QED
  BY <1>1, <1>4 DEF QueueSafe, Ordered

\* mm_queue_add: the entries are ordered still; how many they are is for the caller.
LEMMA EnqueueOrdered ==
  ASSUME NEW t, NEW i, NEW a, Shaped(t), QueueSafe(t)
  PROVE  LET u == Enqueue(t, i, a)
         IN  /\ Shaped(u) /\ Ordered(u)
             /\ Cardinality(Queued(u)) <= Cardinality(Queued(t)) + 1
             /\ u.codes = t.codes /\ u.pending = t.pending /\ u.matches = t.matches
<1> DEFINE u == Enqueue(t, i, a)
           free == Min(QueueSlots \ Queued(t))
           e == [conn_id |-> i, account |-> a, order |-> t.enqueue_counter]
<1>1. /\ Shaped(u)
      /\ u.queue = [t.queue EXCEPT ![free] = e]
      /\ u.enqueue_counter = t.enqueue_counter + 1
      /\ u.codes = t.codes /\ u.pending = t.pending /\ u.matches = t.matches
  BY DEF Enqueue, Shaped
<1>9. e.order = t.enqueue_counter
  OBVIOUS
<1> HIDE DEF u, free, e
<1>2. DOMAIN u.queue = QueueSlots
  BY <1>1 DEF QueueSafe, Ordered
<1>3. \A s \in QueueSlots : u.queue[s] = IF s = free THEN e ELSE t.queue[s]
  BY <1>1 DEF QueueSafe, Ordered
<1>4. Ordered(u)
  <2>1. \A s \in Queued(u) : \/ s = free /\ u.queue[s].order = t.enqueue_counter
                             \/ s # free /\ s \in Queued(t) /\ u.queue[s] = t.queue[s]
    BY <1>3, <1>9 DEF Queued
  <2> QED
    BY <1>1, <1>2, <2>1 DEF QueueSafe, Ordered
<1>5. Queued(u) \in SUBSET (Queued(t) \cup {free})
  BY <1>3 DEF Queued
<1>6. /\ IsFiniteSet(Queued(t) \cup {free})
      /\ Cardinality(Queued(t) \cup {free}) <= Cardinality(Queued(t)) + 1
      /\ Cardinality(Queued(t) \cup {free}) \in Nat
  <2>1. IsFiniteSet(Queued(t)) /\ Cardinality(Queued(t)) \in Nat
    BY QueuedFinite
  <2>2. /\ IsFiniteSet(Queued(t) \cup {free})
        /\ Cardinality(Queued(t) \cup {free}) =
             IF free \in Queued(t) THEN Cardinality(Queued(t)) ELSE Cardinality(Queued(t)) + 1
    BY <2>1, FS_AddElement
  <2> QED
    BY <2>1, <2>2
<1>7. Cardinality(Queued(u)) <= Cardinality(Queued(t) \cup {free})
  BY <1>5, <1>6, FS_Subset
<1>8. Cardinality(Queued(u)) <= Cardinality(Queued(t)) + 1
  BY <1>6, <1>7, QueuedFinite
<1> QED
  BY <1>1, <1>4, <1>8 DEF u

\* mm_try_form_match: a match takes everyone there is.
LEMMA MatchTakesAll ==
  ASSUME NEW u,
         \A s \in Queued(u) : u.queue[s].order \in Nat,
         Cardinality(Queued(u)) <= MatchSize
  PROVE  MatchedSlots(u) = Queued(u)
<1> SUFFICES ASSUME NEW s \in Queued(u)
             PROVE  Cardinality(Before(u, s)) < MatchSize
  BY DEF MatchedSlots
<1>1. Before(u, s) \in SUBSET (Queued(u) \ {s})
  BY DEF Before
<1>2. /\ IsFiniteSet(Queued(u) \ {s})
      /\ Cardinality(Queued(u) \ {s}) = Cardinality(Queued(u)) - 1
      /\ Cardinality(Queued(u) \ {s}) \in Nat
  BY QueuedFinite, FS_RemoveElement, FS_CardinalityType
<1>3. /\ Cardinality(Before(u, s)) <= Cardinality(Queued(u) \ {s})
      /\ Cardinality(Before(u, s)) \in Nat
  BY <1>1, <1>2, FS_Subset, FS_CardinalityType
<1> QED
  BY <1>2, <1>3, QueuedFinite, TableSizes

\* mm_queue_remove.
LEMMA DequeueSafe ==
  ASSUME NEW t, NEW i, Safe(t)
  PROVE  Safe(Dequeue(t, i)) /\ Dequeue(t, i).matches = t.matches
<1> DEFINE u == Dequeue(t, i)
           mine == {s \in Queued(t) : t.queue[s].conn_id = i}
<1>1. CASE mine = {}
  BY <1>1 DEF Dequeue
<1>2. CASE mine # {}
  <2>1. /\ Shaped(u)
        /\ u.queue = [t.queue EXCEPT ![Min(mine)] = NoEntry]
        /\ u.enqueue_counter = t.enqueue_counter
        /\ u.codes = t.codes /\ u.pending = t.pending /\ u.matches = t.matches
    BY <1>2 DEF Dequeue, Safe, Shaped
  <2> HIDE DEF u, mine
  <2>2. DOMAIN u.queue = QueueSlots
    BY <2>1 DEF Safe, QueueSafe, Ordered
  <2>3. \A s \in Queued(u) : s \in Queued(t) /\ u.queue[s] = t.queue[s]
    BY <2>1, <2>2 DEF Queued, Safe, QueueSafe, Ordered
  <2>4. QueueSafe(u)
    BY <2>1, <2>2, <2>3, FewerEntries DEF Safe
  <2>5. CodesSafe(u)
    BY <2>1 DEF Safe, CodesSafe
  <2> QED
    BY <2>1, <2>4, <2>5 DEF Safe, u
<1> QED
  BY <1>1, <1>2

-----------------------------------------------------------------------------
(* The tables that only lose entries.                                        *)

\* Requests may go and rows may change, as long as no row goes.
LEMMA FewerRequests ==
  ASSUME NEW t, NEW u, Safe(t), Shaped(u),
         u.queue = t.queue, u.enqueue_counter = t.enqueue_counter,
         u.pending \subseteq t.pending, u.matches \subseteq t.matches,
         u.codes \in [Codes -> CodeRow \cup {NoRow}],
         \A k \in Codes : t.codes[k] # NoRow => u.codes[k] # NoRow
  PROVE  Safe(u)
<1>1. QueueSafe(u)
  BY FewerEntries DEF Safe, QueueSafe, Ordered, Queued
<1>2. CodesSafe(u)
  BY DEF Safe, CodesSafe
<1> QED
  BY <1>1, <1>2 DEF Safe

\* lobby_rooms_set_status changes no row into none.
LEMMA SetStatusSafe ==
  ASSUME NEW t, Safe(t), NEW k, NEW status \in {"active", "finished", "expired"}
  PROVE  LET u == SetStatus(t, k, status)
         IN  /\ Safe(u)
             /\ u.queue = t.queue /\ u.pending = t.pending /\ u.matches = t.matches
             /\ \A c \in Codes : t.codes[c] # NoRow => u.codes[c] # NoRow
<1> DEFINE u == SetStatus(t, k, status)
<1>1. CASE t.codes[k] = NoRow
  BY <1>1 DEF SetStatus
<1>2. CASE t.codes[k] # NoRow
  <2> DEFINE row == [t.codes[k] EXCEPT !.status = status]
  <2>1. /\ Shaped(u) /\ u.queue = t.queue /\ u.enqueue_counter = t.enqueue_counter
        /\ u.pending = t.pending /\ u.matches = t.matches
        /\ u.codes = [t.codes EXCEPT ![k].status = status]
    BY <1>2 DEF SetStatus, Safe, Shaped
  <2>2. t.codes \in [Codes -> CodeRow \cup {NoRow}]
    BY DEF Safe, CodesSafe
  <2>3. k \in Codes => row \in CodeRow /\ row # NoRow
    BY <1>2, <2>2, AbsentRow DEF CodeRow
  <2> HIDE DEF u
  <2>4. u.codes = [t.codes EXCEPT ![k] = row]
    BY <2>1
  <2> HIDE DEF row
  <2>5. /\ u.codes \in [Codes -> CodeRow \cup {NoRow}]
        /\ \A c \in Codes : t.codes[c] # NoRow => u.codes[c] # NoRow
    BY <2>2, <2>3, <2>4
  <2>6. Safe(u)
    BY <2>1, <2>5, FewerRequests
  <2> QED
    BY <2>1, <2>5, <2>6 DEF u
<1> QED
  BY <1>1, <1>2

\* An INSERT of a code lobby_rooms_generate_code has drawn.
LEMMA InsertRowSafe ==
  ASSUME NEW t, Safe(t), NEW k \in FreeCodes(t), NEW g \in Servers
  PROVE  LET u == InsertRow(t, k, g)
         IN  /\ Safe(u)
             /\ u.queue = t.queue /\ u.pending = t.pending /\ u.matches = t.matches
             /\ u.codes[k] # NoRow /\ k \in Codes /\ t.codes[k] = NoRow
             /\ \A c \in Codes : t.codes[c] # NoRow => u.codes[c] # NoRow
             /\ \A p \in t.pending : p.code # k
             /\ \A m \in t.matches : m.code # k
<1> DEFINE u == InsertRow(t, k, g)
           row == [status |-> "active", server |-> g]
<1>1. k \in Codes /\ t.codes[k] = NoRow
  BY DEF FreeCodes
<1>2. row \in CodeRow /\ row # NoRow
  BY AbsentRow DEF CodeRow
<1>3. /\ Shaped(u) /\ u.queue = t.queue /\ u.enqueue_counter = t.enqueue_counter
      /\ u.pending = t.pending /\ u.matches = t.matches
      /\ u.codes = [t.codes EXCEPT ![k] = row]
  BY DEF InsertRow, Safe, Shaped
<1> HIDE DEF u, row
<1>4. /\ u.codes \in [Codes -> CodeRow \cup {NoRow}]
      /\ \A c \in Codes : t.codes[c] # NoRow => u.codes[c] # NoRow
      /\ u.codes[k] = row
  BY <1>1, <1>2, <1>3 DEF Safe, CodesSafe
<1>5. Safe(u)
  BY <1>3, <1>4, FewerRequests
<1>6. /\ \A p \in t.pending : p.code # k
      /\ \A m \in t.matches : m.code # k
  BY <1>1 DEF Safe, CodesSafe
<1> QED
  BY <1>1, <1>2, <1>3, <1>4, <1>5, <1>6 DEF u

-----------------------------------------------------------------------------
(* The steps.                                                                *)

\* Init.
LEMMA SafeInit ==
  ASSUME Init
  PROVE  Safe(lobby)
<1>1. lobby = EmptyTables
  BY DEF Init
<1>2. Shaped(lobby) /\ CodesSafe(lobby)
  BY <1>1 DEF EmptyTables, Shaped, CodesSafe
<1>3. Queued(lobby) = {}
  BY <1>1 DEF EmptyTables, Queued
<1>4. Cardinality(Queued(lobby)) < MatchSize
  BY <1>3, FS_EmptySet, TableSizes
<1>5. QueueSafe(lobby)
  BY <1>1, <1>3, <1>4 DEF EmptyTables, QueueSafe, Ordered
<1> QED
  BY <1>2, <1>5 DEF Safe

\* lby_handle_create_room: the code it draws is not waited for.
LEMMA CreateRoomSafe ==
  ASSUME Safe(lobby), NEW i, CreateRoom(i)
  PROVE  Safe(lobby')
<1>1. PICK g \in PickServer(lobby), k \in FreeCodes(lobby) :
        lobby' = [InsertRow(lobby, k, g) EXCEPT
                    !.pending = @ \cup {[code |-> k, client |-> i,
                                         server |-> lobby.servers[g].conn_id]}]
  BY DEF CreateRoom, Handled
<1> DEFINE t == InsertRow(lobby, k, g)
           p == [code |-> k, client |-> i, server |-> lobby.servers[g].conn_id]
<1>2. g \in Servers
  BY DEF PickServer, Registered
<1>3. /\ Safe(t) /\ t.pending = lobby.pending /\ t.matches = lobby.matches
      /\ t.codes[k] # NoRow /\ k \in Codes
      /\ \A q \in lobby.pending : q.code # k
      /\ \A m \in lobby.matches : m.code # k
  BY <1>2, InsertRowSafe
<1>4. lobby' = [t EXCEPT !.pending = @ \cup {p}]
  BY <1>1
<1>5. p.code = k
  OBVIOUS
<1> HIDE DEF t, p
<1>6. /\ Shaped(lobby') /\ lobby'.queue = t.queue
      /\ lobby'.enqueue_counter = t.enqueue_counter
      /\ lobby'.codes = t.codes /\ lobby'.matches = t.matches
      /\ lobby'.pending = t.pending \cup {p}
  BY <1>3, <1>4 DEF Safe, Shaped
<1>7. QueueSafe(lobby')
  BY <1>3, <1>6, FewerEntries DEF Safe, QueueSafe, Ordered, Queued
<1>8. CodesSafe(lobby')
  BY <1>3, <1>5, <1>6 DEF Safe, CodesSafe
<1> QED
  BY <1>6, <1>7, <1>8 DEF Safe

\* lby_handle_queue, no match yet.
LEMMA QueueStepSafe ==
  ASSUME Safe(lobby), NEW i, Queue(i)
  PROVE  Safe(lobby')
<1> DEFINE u == Enqueue(lobby, i, peer[i])
<1>1. CASE lobby' = lobby
  BY <1>1
<1>2. CASE lobby' = u /\ ~MatchForms(u)
  <2>1. /\ Shaped(u) /\ Ordered(u)
        /\ u.codes = lobby.codes /\ u.pending = lobby.pending
        /\ u.matches = lobby.matches
    BY EnqueueOrdered DEF Safe
  <2> HIDE DEF u
  <2>2. Cardinality(Queued(u)) < MatchSize
    BY <1>2, QueuedFinite, TableSizes DEF MatchForms
  <2>3. QueueSafe(u) /\ CodesSafe(u)
    BY <2>1, <2>2 DEF Safe, QueueSafe, CodesSafe
  <2> QED
    BY <1>2, <2>1, <2>3 DEF Safe
<1> QED
  BY <1>1, <1>2 DEF Queue, Handled

\* A match that forms leaves the queue empty.
LEMMA MatchLeaves ==
  ASSUME Safe(lobby), NEW i, NEW a
  PROVE  LET t == Enqueue(lobby, i, a)
             left == Unqueue(t, MatchedSlots(t))
         IN  /\ Shaped(t) /\ Ordered(t) /\ Cardinality(Queued(t)) <= MatchSize
             /\ t.matches = lobby.matches
             /\ Safe(left)
             /\ left.codes = lobby.codes /\ left.pending = lobby.pending
             /\ left.matches = lobby.matches
<1> DEFINE t == Enqueue(lobby, i, a)
           left == Unqueue(t, MatchedSlots(t))
<1>1. /\ Shaped(t) /\ Ordered(t)
      /\ Cardinality(Queued(t)) <= Cardinality(Queued(lobby)) + 1
      /\ t.codes = lobby.codes /\ t.pending = lobby.pending
      /\ t.matches = lobby.matches
  BY EnqueueOrdered DEF Safe
<1>2. Cardinality(Queued(t)) <= MatchSize
  BY <1>1, QueuedFinite, TableSizes DEF Safe, QueueSafe
<1>3. MatchedSlots(t) = Queued(t)
  BY <1>1, <1>2, MatchTakesAll DEF Ordered
<1>4. /\ Shaped(left)
      /\ left.queue = [s \in QueueSlots |-> IF s \in Queued(t) THEN NoEntry ELSE t.queue[s]]
      /\ left.enqueue_counter = t.enqueue_counter
      /\ left.codes = t.codes /\ left.pending = t.pending /\ left.matches = t.matches
  BY <1>1, <1>3 DEF Unqueue, Shaped
<1> HIDE DEF t
<1>5. Safe(left)
  <2> HIDE DEF left
  <2>1. Queued(left) = {}
    BY <1>4 DEF Queued
  <2>2. Cardinality(Queued(left)) < MatchSize
    BY <2>1, FS_EmptySet, TableSizes
  <2>3. QueueSafe(left)
    BY <1>1, <1>4, <2>1, <2>2 DEF QueueSafe, Ordered
  <2>4. CodesSafe(left)
    BY <1>1, <1>4 DEF Safe, CodesSafe
  <2> QED
    BY <1>4, <2>3, <2>4 DEF Safe
<1> HIDE DEF left
<1> QED
  BY <1>1, <1>2, <1>4, <1>5 DEF t, left

\* lby_handle_queue, the last player of a match: whatever becomes of the match, the
\* queue is empty after it and its code was free.
LEMMA QueueMatchSafe ==
  ASSUME Safe(lobby), NEW i, QueueMatch(i)
  PROVE  Safe(lobby')
<1> DEFINE t == Enqueue(lobby, i, peer[i])
           left == Unqueue(t, MatchedSlots(t))
<1>5. /\ Safe(left)
      /\ left.codes = lobby.codes /\ left.pending = lobby.pending
      /\ left.matches = lobby.matches
  BY MatchLeaves
<1> HIDE DEF t, left
<1>6. FreeCodes(left) = FreeCodes(lobby)
  BY <1>5 DEF FreeCodes
<1>7. CASE lobby' = left
  BY <1>5, <1>7
<1>8. ASSUME NEW g \in PickServer(lobby), NEW k \in FreeCodes(lobby), NEW conns,
             DOMAIN conns = 1 .. MatchSize,
             LET room == InsertRow(left, k, g)
             IN  \/ lobby' = [room EXCEPT !.matches = @ \cup
                                {[code |-> k, conns |-> conns,
                                  server |-> lobby.servers[g].conn_id]}]
                 \/ lobby' = SetStatus(room, k, "expired")
      PROVE  Safe(lobby')
  <2> DEFINE room == InsertRow(left, k, g)
             m == [code |-> k, conns |-> conns, server |-> lobby.servers[g].conn_id]
  <2>1. g \in Servers
    BY DEF PickServer, Registered
  <2>2. /\ Safe(room) /\ room.pending = left.pending /\ room.matches = left.matches
        /\ room.codes[k] # NoRow /\ k \in Codes
        /\ \A q \in left.pending : q.code # k
        /\ \A n \in left.matches : n.code # k
    BY <1>5, <1>6, <2>1, InsertRowSafe
  <2>3. m.code = k /\ DOMAIN m.conns = 1 .. MatchSize
    BY <1>8
  <2>4. CASE lobby' = SetStatus(room, k, "expired")
    <3> HIDE DEF room
    <3> QED
      BY <2>2, <2>4, SetStatusSafe
  <2>5. CASE lobby' = [room EXCEPT !.matches = @ \cup {m}]
    <3> HIDE DEF room, m
    <3>1. /\ Shaped(lobby') /\ lobby'.queue = room.queue
          /\ lobby'.enqueue_counter = room.enqueue_counter
          /\ lobby'.codes = room.codes /\ lobby'.pending = room.pending
          /\ lobby'.matches = room.matches \cup {m}
      BY <2>2, <2>5 DEF Safe, Shaped
    <3>2. QueueSafe(lobby')
      BY <2>2, <3>1, FewerEntries DEF Safe, QueueSafe, Ordered, Queued
    <3>3. CodesSafe(lobby')
      BY <2>2, <2>3, <3>1 DEF Safe, CodesSafe
    <3> QED
      BY <3>1, <3>2, <3>3 DEF Safe
  <2> QED
    BY <1>8, <2>4, <2>5
<1>9. \/ lobby' = left
      \/ \E g \in PickServer(lobby), k \in FreeCodes(lobby), conns \in {MatchedConns(t)} :
           LET room == InsertRow(left, k, g)
           IN  \/ lobby' = [room EXCEPT !.matches = @ \cup
                              {[code |-> k, conns |-> conns,
                                server |-> lobby.servers[g].conn_id]}]
               \/ lobby' = SetStatus(room, k, "expired")
  BY DEF QueueMatch, Handled, left, t
<1>10. DOMAIN MatchedConns(t) = 1 .. MatchSize
  BY DEF MatchedConns
<1> QED
  BY <1>7, <1>8, <1>9, <1>10

\* svreg_register, svreg_heartbeat, svreg_unregister: the registry is apart.
LEMMA RegistrySafe ==
  ASSUME Safe(lobby), NEW i,
         \/ ServerRegister(i)
         \/ ServerHeartbeat(i)
  PROVE  Safe(lobby')
<1>1. PICK servers : lobby' = [lobby EXCEPT !.servers = servers]
  BY DEF ServerRegister, ServerHeartbeat, Register, Handled
<1>2. /\ Shaped(lobby') /\ lobby'.queue = lobby.queue
      /\ lobby'.enqueue_counter = lobby.enqueue_counter
      /\ lobby'.codes = lobby.codes /\ lobby'.pending = lobby.pending
      /\ lobby'.matches = lobby.matches
  BY <1>1 DEF Safe, Shaped
<1> QED
  BY <1>2, FewerRequests DEF Safe, CodesSafe

\* What answers a request takes it out of the tables.
LEMMA AnsweredSafe ==
  ASSUME Safe(lobby), NEW k
  PROVE  Safe(Answered(k))
<1> DEFINE u == Answered(k)
<1>1. /\ Shaped(u) /\ u.queue = lobby.queue
      /\ u.enqueue_counter = lobby.enqueue_counter
      /\ u.codes = lobby.codes
      /\ u.pending \subseteq lobby.pending /\ u.matches \subseteq lobby.matches
  BY DEF Answered, Safe, Shaped
<1> HIDE DEF u
<1>2. Safe(u)
  BY <1>1, FewerRequests DEF Safe, CodesSafe
<1> QED
  BY <1>2 DEF u

\* The messages of a game server about one of its rooms.
LEMMA RoomMessageSafe ==
  ASSUME Safe(lobby), NEW i,
         \/ ServerRoomCreated(i)
         \/ ServerRoomRefused(i)
         \/ ServerResult(i)
         \/ ServerRoomDestroyed(i)
  PROVE  Safe(lobby')
<1> DEFINE k == Code(i)
<1>1. CASE ServerRoomCreated(i)
  BY <1>1, AnsweredSafe DEF ServerRoomCreated, Handled
<1>2. CASE ServerRoomRefused(i)
  BY <1>2, AnsweredSafe, SetStatusSafe DEF ServerRoomRefused, Handled
<1>3. CASE ServerResult(i)
  BY <1>3, SetStatusSafe DEF ServerResult, Handled
<1>4. CASE ServerRoomDestroyed(i)
  <2> DEFINE t == SetStatus(lobby, k, "expired")
  <2>1. lobby' = [t EXCEPT !.pending = @ \ PendingOf(k)]
    BY <1>4 DEF ServerRoomDestroyed, Handled
  <2>2. Safe(t)
    BY SetStatusSafe
  <2> HIDE DEF t
  <2>3. /\ Shaped(lobby') /\ lobby'.queue = t.queue
        /\ lobby'.enqueue_counter = t.enqueue_counter
        /\ lobby'.codes = t.codes /\ lobby'.matches = t.matches
        /\ lobby'.pending \subseteq t.pending
    BY <2>1, <2>2 DEF Safe, Shaped
  <2> QED
    BY <2>2, <2>3, FewerRequests DEF Safe, CodesSafe
<1> QED
  BY <1>1, <1>2, <1>3, <1>4

\* ForgetClient and ForgetServer only remove.
LEMMA ForgetSafe ==
  ASSUME NEW t, Safe(t), NEW i
  PROVE  Safe(ForgetClient(t, i)) /\ Safe(ForgetServer(t, i))
<1> DEFINE u == ForgetClient(t, i)
           v == ForgetServer(t, i)
<1>1. /\ Shaped(u) /\ u.queue = t.queue /\ u.enqueue_counter = t.enqueue_counter
      /\ u.codes = t.codes /\ u.matches = t.matches /\ u.pending \subseteq t.pending
  BY DEF ForgetClient, Safe, Shaped
<1>2. /\ Shaped(v) /\ v.queue = t.queue /\ v.enqueue_counter = t.enqueue_counter
      /\ v.codes = t.codes /\ v.matches \subseteq t.matches
      /\ v.pending \subseteq t.pending
  BY DEF ForgetServer, Safe, Shaped
<1> HIDE DEF u, v
<1>3. Safe(u)
  BY <1>1, FewerRequests DEF Safe, CodesSafe
<1>4. Safe(v)
  BY <1>2, FewerRequests DEF Safe, CodesSafe
<1> QED
  BY <1>3, <1>4 DEF u, v

\* svreg_unregister.
LEMMA UnregisterSafe ==
  ASSUME NEW t, Safe(t), NEW g
  PROVE  Safe(Unregister(t, g))
<1> DEFINE u == Unregister(t, g)
<1>1. /\ Shaped(u) /\ u.queue = t.queue /\ u.enqueue_counter = t.enqueue_counter
      /\ u.codes = t.codes /\ u.matches = t.matches /\ u.pending = t.pending
  BY DEF Unregister, Safe, Shaped
<1> HIDE DEF u
<1>2. Safe(u)
  BY <1>1, FewerRequests DEF Safe, CodesSafe
<1> QED
  BY <1>2 DEF u

\* A match that leaves the tables.
LEMMA DropMatchSafe ==
  ASSUME NEW t, Safe(t), NEW S
  PROVE  Safe([t EXCEPT !.matches = @ \ S])
<1> DEFINE u == [t EXCEPT !.matches = @ \ S]
<1>1. /\ Shaped(u) /\ u.queue = t.queue /\ u.enqueue_counter = t.enqueue_counter
      /\ u.codes = t.codes /\ u.matches \subseteq t.matches /\ u.pending = t.pending
  BY DEF Safe, Shaped
<1> HIDE DEF u
<1>2. Safe(u)
  BY <1>1, FewerRequests DEF Safe, CodesSafe
<1> QED
  BY <1>2 DEF u

\* lby_cleanup_connection.
LEMMA CleanupSafe ==
  ASSUME Safe(lobby), NEW i, CleanupConnection(i)
  PROVE  Safe(lobby')
<1>1. CASE CleanupClient(i)
  <2> DEFINE t == Dequeue(ForgetClient(lobby, i), i)
  <2>1. Safe(t)
    BY ForgetSafe, DequeueSafe
  <2>2. \/ lobby' = t
        \/ \E m \in MatchesWith(t, i) : lobby' = [t EXCEPT !.matches = @ \ {m}]
    BY <1>1, Zenon DEF CleanupClient
  <2> HIDE DEF t
  <2>3. ASSUME NEW m \in MatchesWith(t, i), lobby' = [t EXCEPT !.matches = @ \ {m}]
        PROVE  Safe(lobby')
    <3>1. Safe([t EXCEPT !.matches = @ \ {m}])
      BY <2>1, DropMatchSafe
    <3> QED
      BY <2>3, <3>1
  <2> QED
    BY <2>1, <2>2, <2>3
<1>2. CASE CleanupServer(i)
  <2>1. \/ lobby' = ForgetServer(lobby, i)
        \/ \E g \in RegisteredOn(lobby, i) :
             lobby' = ForgetServer(Unregister(lobby, g), i)
    BY <1>2, Zenon DEF CleanupServer
  <2> QED
    BY <2>1, ForgetSafe, UnregisterSafe
<1>3. CASE lobby' = lobby
  BY <1>3
<1> QED
  BY <1>1, <1>2, <1>3 DEF CleanupConnection

\* What the maintenance of every 30 s takes out.
LEMMA TimeoutsSafe ==
  ASSUME Safe(lobby), Timeouts
  PROVE  Safe(lobby')
<1>1. ASSUME NEW m, ExpireMatch(m)
      PROVE  Safe(lobby')
  <2>1. lobby' = [lobby EXCEPT !.matches = @ \ {m}]
    BY <1>1 DEF ExpireMatch, Expires
  <2> QED
    BY <2>1, DropMatchSafe
<1>2. ASSUME NEW p, ExpirePending(p)
      PROVE  Safe(lobby')
  <2>1. lobby' = [lobby EXCEPT !.pending = @ \ {p}]
    BY <1>2 DEF ExpirePending, Expires
  <2>2. /\ Shaped(lobby') /\ lobby'.queue = lobby.queue
        /\ lobby'.enqueue_counter = lobby.enqueue_counter
        /\ lobby'.codes = lobby.codes /\ lobby'.matches = lobby.matches
        /\ lobby'.pending \subseteq lobby.pending
    BY <2>1 DEF Safe, Shaped
  <2> QED
    BY <2>2, FewerRequests DEF Safe, CodesSafe
<1>3. ASSUME NEW g, ExpireServer(g)
      PROVE  Safe(lobby')
  <2>1. PICK h, i : lobby' = ForgetServer(Unregister(lobby, h), i)
    BY <1>3 DEF ExpireServer, Expires
  <2> QED
    BY <2>1, ForgetSafe, UnregisterSafe
<1>4. ASSUME NEW k \in Codes, CleanupCode(k)
      PROVE  Safe(lobby')
  <2>1. /\ PendingOf(k) = {} /\ MatchOf(k) = {}
        /\ lobby' = [lobby EXCEPT !.codes[k] = NoRow]
    BY <1>4 DEF CleanupCode, Expires
  <2>2. /\ Shaped(lobby') /\ lobby'.queue = lobby.queue
        /\ lobby'.enqueue_counter = lobby.enqueue_counter
        /\ lobby'.codes = [lobby.codes EXCEPT ![k] = NoRow]
        /\ lobby'.matches = lobby.matches /\ lobby'.pending = lobby.pending
    BY <2>1 DEF Safe, Shaped
  <2>3. QueueSafe(lobby')
    BY <2>2, FewerEntries DEF Safe, QueueSafe, Ordered, Queued
  <2>4. /\ \A p \in lobby.pending : p.code # k
        /\ \A m \in lobby.matches : m.code # k
    BY <2>1 DEF PendingOf, MatchOf
  <2>5. CodesSafe(lobby')
    BY <2>2, <2>4 DEF Safe, CodesSafe
  <2> QED
    BY <2>2, <2>3, <2>5 DEF Safe
<1> QED
  BY <1>1, <1>2, <1>3, <1>4 DEF Timeouts

\* lby_handle_message.
LEMMA HandleSafe ==
  ASSUME Safe(lobby), NEW i, Handle(i)
  PROVE  Safe(lobby')
<1>1. CASE \/ Hello(i) \/ OldHello(i) \/ Login(i) \/ LoginResponse(i)
           \/ CreateRefused(i) \/ JoinRoom(i)
  BY <1>1 DEF Hello, OldHello, Login, LoginResponse, CreateRefused, JoinRoom, Handled
<1>2. CASE Farewell(i)
  BY <1>2, CleanupSafe DEF Farewell
<1>3. CASE QueueCancel(i)
  BY <1>3, DequeueSafe DEF QueueCancel, Handled
<1>4. CASE CreateRoom(i) \/ Queue(i) \/ QueueMatch(i)
  BY <1>4, CreateRoomSafe, QueueStepSafe, QueueMatchSafe
<1>5. CASE ServerRegister(i) \/ ServerHeartbeat(i)
  BY <1>5, RegistrySafe
<1>6. CASE \/ ServerRoomCreated(i) \/ ServerRoomRefused(i)
           \/ ServerResult(i) \/ ServerRoomDestroyed(i)
  BY <1>6, RoomMessageSafe
<1> QED
  BY <1>1, <1>2, <1>3, <1>4, <1>5, <1>6 DEF Handle

\* What the programs at the other end do changes no table.
LEMMA ProgramsLeaveTables ==
  ASSUME \/ \E c \in Clients : ClientStep(c)
         \/ \E g \in Servers : ServerStep(g)
  PROVE  lobby' = lobby
<1>1. ASSUME NEW c \in Clients, ClientStep(c)
      PROVE  lobby' = lobby
  BY <1>1 DEF ClientStep, ClientConnect, ClientLost, ClientHello, ClientAsks, ClientBack,
       ClientRead, ClientEnds, Connect, lobbyVars
<1>2. ASSUME NEW g \in Servers, ServerStep(g)
      PROVE  lobby' = lobby
  BY <1>2 DEF ServerStep, ServerConnect, ServerSkips, ServerRegisters, ServerBeats,
       ServerReports, ServerCreateRoom, ServerEnds, RoomStarts, RoomFinishes, RoomEmpties,
       RoomCloses, Connect, lobbyVars
<1> QED
  BY <1>1, <1>2

\* Every step of the lobby keeps its tables safe.
LEMMA SafeStep ==
  ASSUME Safe(lobby), [Next]_vars
  PROVE  Safe(lobby')
<1>1. CASE Update
  <2>1. CASE Poll \/ AcceptDone \/ RecvDone \/ DetectDone \/ MaintainDone
    BY <2>1 DEF Poll, AcceptDone, RecvDone, DetectDone, MaintainDone
  <2>2. CASE \E i \in Conns : Accept(i) \/ Handle(i) \/ DetectDrop(i)
    BY <2>2, HandleSafe, CleanupSafe DEF Accept, DetectDrop
  <2> QED
    BY <1>1, <2>1, <2>2 DEF Update
<1>2. CASE Timeouts
  BY <1>2, TimeoutsSafe
<1>3. CASE \/ \E c \in Clients : ClientStep(c)
           \/ \E g \in Servers : ServerStep(g)
  BY <1>3, ProgramsLeaveTables
<1>4. CASE UNCHANGED vars
  BY <1>4 DEF vars, lobbyVars
<1> QED
  BY <1>1, <1>2, <1>3, <1>4 DEF Next

\* The inductive invariant of the tables, in every reachable state.
LEMMA TablesStaySafe == Spec => []Safe(lobby)
<1>1. Init => Safe(lobby)
  BY SafeInit
<1>2. Safe(lobby) /\ [Next]_vars => Safe(lobby)'
  BY SafeStep
<1> QED
  BY <1>1, <1>2, PTL DEF Spec

-----------------------------------------------------------------------------
(* The registry and the connections.  A game server that comes back may be   *)
(* on two connections for a while: the old one, which it has closed and of   *)
(* which frames are still to be handled, and the new one.  It says nothing   *)
(* on the new one before those frames are gone, so the old connection never  *)
(* takes the place of the new one in the registry.                           *)

\* What a game server says and no client does.
ServerFrames == {"REGISTER", "HEARTBEAT", "ROOM_CREATED", "ROOM_REFUSED",
                 "RESULT", "ROOM_DESTROYED"}
Reports == {"REGISTER", "HEARTBEAT"}
SaidBy(p, ms) ==
  /\ ms \in Seq(Range(ms))
  /\ \A m \in Range(ms) : /\ m.type \in ServerFrames <=> p \in Servers
                          /\ m.type \in Reports => m.current_rooms \in Nat

ConnTypes ==
  /\ stage \in {"poll", "accept", "recv", "detect", "maintain"}
  /\ conn_state \in [Conns -> {"DISCONNECTED", "CONNECTED"}]
  /\ user_data \in [Conns -> ConnInfo \cup {NoInfo}]
  /\ DOMAIN inbox = Conns
  /\ peer \in [Conns -> Peers \cup {NoPeer}]
  /\ gone \in [Conns -> BOOLEAN]
  /\ backlog \in Seq(Peers)
  /\ lobby.servers \in [Servers -> RegisteredServer \cup {NoServer}]

\* An entry in use has a program at the other end and a LobbyConnInfo.
ConnsOK ==
  \A i \in Conns :
    /\ conn_state[i] = "DISCONNECTED" => peer[i] = NoPeer
    /\ peer[i] = NoPeer => inbox[i] = << >>
    /\ peer[i] # NoPeer => user_data[i] \in ConnInfo
    /\ peer[i] # NoPeer /\ user_data[i].type = "GAME_SERVER" => peer[i] \in Servers
    /\ SaidBy(peer[i], inbox[i])

\* A program has one connection that it has not closed, or waits for it.
LinksOK ==
  /\ \A p \in Peers : Knocking(p) => ~Linked(p)
  /\ \A m, n \in DOMAIN backlog : m # n => backlog[m] # backlog[n]
  /\ \A i, j \in Conns : i # j /\ peer[i] = peer[j] /\ peer[j] # NoPeer => gone[i] \/ gone[j]

\* Frames of a closed connection are handled before those of its successor.
FramesOK ==
  /\ stage \in {"detect", "maintain"} => \A i \in Conns : inbox[i] = << >>
  /\ \A i, j \in Conns :
       /\ i # j /\ peer[i] = peer[j] /\ peer[j] \in Servers
       /\ ~gone[j] /\ inbox[i] # << >>
       => /\ stage \in {"accept", "recv"}
          /\ inbox[j] = << >> /\ user_data[j].type = "UNKNOWN"

RegisteredOK ==
  \A i \in Conns :
    peer[i] \in Servers /\ ~gone[i] /\ user_data[i].type = "GAME_SERVER" =>
      peer[i] \in Registered(lobby) /\ lobby.servers[peer[i]].conn_id = i

LinksSafe == ConnTypes /\ ConnsOK /\ LinksOK /\ FramesOK /\ RegisteredOK

\* The operations on the queue, the codes and the pending requests are not about the
\* registry.
LEMMA RegistryApart ==
  ASSUME NEW t, Shaped(t), NEW i, NEW k, NEW a
  PROVE  /\ Shaped(Enqueue(t, i, a)) /\ Enqueue(t, i, a).servers = t.servers
         /\ Shaped(Dequeue(t, i)) /\ Dequeue(t, i).servers = t.servers
         /\ Shaped(Unqueue(t, a)) /\ Unqueue(t, a).servers = t.servers
         /\ Shaped(InsertRow(t, k, a)) /\ InsertRow(t, k, a).servers = t.servers
         /\ Shaped(SetStatus(t, k, a)) /\ SetStatus(t, k, a).servers = t.servers
         /\ Shaped(ForgetClient(t, i)) /\ ForgetClient(t, i).servers = t.servers
         /\ Shaped(ForgetServer(t, i)) /\ ForgetServer(t, i).servers = t.servers
         /\ [t EXCEPT !.pending = a].servers = t.servers
         /\ [t EXCEPT !.matches = a].servers = t.servers
<1>1. Shaped(Enqueue(t, i, a)) /\ Enqueue(t, i, a).servers = t.servers
  BY DEF Enqueue, Shaped
<1>2. Shaped(Dequeue(t, i)) /\ Dequeue(t, i).servers = t.servers
  BY DEF Dequeue, Shaped
<1>3. Shaped(Unqueue(t, a)) /\ Unqueue(t, a).servers = t.servers
  BY DEF Unqueue, Shaped
<1>4. /\ Shaped(InsertRow(t, k, a)) /\ InsertRow(t, k, a).servers = t.servers
      /\ Shaped(SetStatus(t, k, a)) /\ SetStatus(t, k, a).servers = t.servers
  BY DEF InsertRow, SetStatus, Shaped
<1>5. /\ Shaped(ForgetClient(t, i)) /\ ForgetClient(t, i).servers = t.servers
      /\ Shaped(ForgetServer(t, i)) /\ ForgetServer(t, i).servers = t.servers
  BY DEF ForgetClient, ForgetServer, Shaped
<1>6. /\ [t EXCEPT !.pending = a].servers = t.servers
      /\ [t EXCEPT !.matches = a].servers = t.servers
  BY DEF Shaped
<1> QED
  BY <1>1, <1>2, <1>3, <1>4, <1>5, <1>6

\* Nothing; and more frames of the same program.
LEMMA NothingSaid == ASSUME NEW p PROVE SaidBy(p, << >>)
<1>1. Range(<< >>) = {} /\ << >> \in Seq({})
  BY DEF Range
<1> QED
  BY <1>1 DEF SaidBy

LEMMA SaidTogether ==
  ASSUME NEW p, NEW ms, NEW ns, SaidBy(p, ms), SaidBy(p, ns)
  PROVE  SaidBy(p, ms \o ns)
<1> DEFINE both == ms \o ns
<1>1. /\ ms \in Seq(Range(ms)) /\ ns \in Seq(Range(ns))
  BY DEF SaidBy
<1>2. /\ Len(ms) \in Nat /\ Len(ns) \in Nat /\ Len(both) = Len(ms) + Len(ns)
      /\ DOMAIN both = 1 .. Len(both) /\ DOMAIN ms = 1 .. Len(ms) /\ DOMAIN ns = 1 .. Len(ns)
  BY <1>1
<1>3. ASSUME NEW n \in DOMAIN both
      PROVE  both[n] \in Range(ms) \cup Range(ns)
  <2>1. CASE n <= Len(ms)
    <3>1. n \in DOMAIN ms /\ both[n] = ms[n]
      BY <1>1, <1>2, <2>1
    <3> QED
      BY <3>1 DEF Range
  <2>2. CASE n > Len(ms)
    <3>1. n - Len(ms) \in DOMAIN ns /\ both[n] = ns[n - Len(ms)]
      BY <1>1, <1>2, <2>2
    <3> QED
      BY <3>1 DEF Range
  <2> QED
    BY <1>2, <2>1, <2>2
<1>4. ms \in Seq(Range(ms) \cup Range(ns)) /\ ns \in Seq(Range(ms) \cup Range(ns))
  BY <1>1
<1>5. both \in Seq(Range(ms) \cup Range(ns))
  BY <1>4
<1> HIDE DEF both
<1>6. both \in Seq(Range(both))
  BY <1>2, <1>5 DEF Range
<1>7. Range(both) \subseteq Range(ms) \cup Range(ns)
  BY <1>3 DEF Range
<1>8. SaidBy(p, both)
  BY <1>6, <1>7 DEF SaidBy
<1> QED
  BY <1>8 DEF both

\* The rest of a queue.
LEMMA Rest ==
  ASSUME NEW S, NEW s \in Seq(S), s # << >>
  PROVE  /\ Head(s) \in S /\ Head(s) = s[1] /\ 1 \in DOMAIN s
         /\ Tail(s) \in Seq(S) /\ DOMAIN Tail(s) = 1 .. Len(Tail(s))
         /\ \A n \in DOMAIN Tail(s) : n + 1 \in DOMAIN s /\ n + 1 # 1 /\ Tail(s)[n] = s[n + 1]
OBVIOUS

LEMMA SaidBefore ==
  ASSUME NEW p, NEW ms, SaidBy(p, ms), ms # << >>
  PROVE  /\ Head(ms).type \in ServerFrames <=> p \in Servers
         /\ Head(ms).type \in Reports => Head(ms).current_rooms \in Nat
         /\ SaidBy(p, Tail(ms))
<1> DEFINE rest == Tail(ms)
<1>1. ms \in Seq(Range(ms))
  BY DEF SaidBy
<1>2. /\ Head(ms) \in Range(ms)
      /\ rest \in Seq(Range(ms)) /\ DOMAIN rest = 1 .. Len(rest)
      /\ \A n \in DOMAIN rest : n + 1 \in DOMAIN ms /\ rest[n] = ms[n + 1]
  BY <1>1, Rest
<1> HIDE DEF rest
<1>3. rest \in Seq(Range(rest)) /\ Range(rest) \subseteq Range(ms)
  BY <1>2 DEF Range
<1>4. SaidBy(p, rest)
  BY <1>3 DEF SaidBy
<1> QED
  BY <1>2, <1>4 DEF SaidBy, rest

\* Init: nobody is there.
LEMMA LinksSafeInit ==
  ASSUME Init
  PROVE  LinksSafe
<1>1. ConnTypes
  BY DEF Init, ConnTypes, EmptyTables
<1>2. ConnsOK
  BY LobbyPrograms, NothingSaid DEF Init, ConnsOK, Peers
<1>3. \A i \in Conns : peer[i] \notin Servers
  BY LobbyPrograms DEF Init, Peers
<1>4. LinksOK /\ FramesOK /\ RegisteredOK
  BY <1>3 DEF Init, LinksOK, FramesOK, RegisteredOK, Knocking, Linked, Link
<1> QED
  BY <1>1, <1>2, <1>4 DEF LinksSafe

\* Steps that leave the connections and the registry alone.
LEMMA LinksSafeKept ==
  ASSUME LinksSafe, UNCHANGED <<stage, connVars, backlog>>, lobby'.servers = lobby.servers
  PROVE  LinksSafe'
<1>1. /\ stage' = stage /\ conn_state' = conn_state /\ user_data' = user_data
      /\ inbox' = inbox /\ peer' = peer /\ gone' = gone /\ backlog' = backlog
  BY DEF connVars
<1>2. ConnTypes' /\ ConnsOK'
  BY <1>1 DEF LinksSafe, ConnTypes, ConnsOK
<1>3. LinksOK' /\ FramesOK'
  BY <1>1 DEF LinksSafe, LinksOK, FramesOK, Knocking, Linked, Link
<1>4. RegisteredOK'
  BY <1>1 DEF LinksSafe, RegisteredOK, Registered
<1> QED
  BY <1>2, <1>3, <1>4 DEF LinksSafe

\* A program says something on its connection, or closes it, or both, before a poll.
LEMMA PeerActs ==
  ASSUME LinksSafe, stage = "poll", NEW p \in Peers, NEW i \in Conns, Link(p, i),
         NEW ms, SaidBy(p, ms),
         inbox' \in {inbox, [inbox EXCEPT ![i] = @ \o ms]},
         gone' \in {gone, [gone EXCEPT ![i] = TRUE]},
         UNCHANGED <<stage, conn_state, user_data, peer, lobby, backlog>>
  PROVE  LinksSafe'
<1>1. /\ peer[i] = p /\ ~gone[i] /\ peer[i] # NoPeer
      /\ SaidBy(p, inbox[i])
  BY LobbyPrograms DEF Link, LinksSafe, ConnTypes, ConnsOK
<1> DEFINE more == inbox[i] \o ms
<1>2. SaidBy(p, more)
  BY <1>1, SaidTogether
<1> HIDE DEF more
<1>3. \A j \in Conns : \/ inbox'[j] = inbox[j]
                       \/ j = i /\ inbox'[j] = more
  <2>1. CASE inbox' = inbox
    BY ONLY <2>1
  <2>2. CASE inbox' = [inbox EXCEPT ![i] = @ \o ms]
    <3>1. inbox' = [inbox EXCEPT ![i] = more] /\ DOMAIN inbox = Conns
      BY <2>2, Zenon DEF more, LinksSafe, ConnTypes
    <3> QED
      BY ONLY <3>1
  <2> QED
    BY <2>1, <2>2
<1>4. \A j \in Conns : gone[j] => gone'[j]
  BY DEF LinksSafe, ConnTypes
<1>5. ConnTypes'
  BY <1>2 DEF LinksSafe, ConnTypes
<1>6. ConnsOK'
  BY <1>1, <1>2, <1>3 DEF LinksSafe, ConnsOK
<1>7. LinksOK'
  BY <1>4 DEF LinksSafe, LinksOK, Knocking, Linked, Link
<1>8. FramesOK'
  BY <1>1, <1>3, <1>4 DEF LinksSafe, LinksOK, FramesOK
<1>9. RegisteredOK'
  BY <1>4 DEF LinksSafe, RegisteredOK, Registered
<1> QED
  BY <1>5, <1>6, <1>7, <1>8, <1>9 DEF LinksSafe

\* A program that has no connection asks for one.
LEMMA ConnectLinks ==
  ASSUME LinksSafe, NEW p \in Peers, Connect(p)
  PROVE  LinksSafe'
<1>1. /\ stage' = stage /\ conn_state' = conn_state /\ user_data' = user_data
      /\ inbox' = inbox /\ peer' = peer /\ gone' = gone /\ lobby' = lobby
      /\ ~Linked(p) /\ ~Knocking(p) /\ backlog' = Append(backlog, p) /\ backlog \in Seq(Peers)
  BY DEF Connect, connVars, LinksSafe, ConnTypes
<1>2. ConnTypes' /\ ConnsOK'
  <2>1. backlog' \in Seq(Peers)
    BY <1>1
  <2> QED
    BY ONLY <1>1, <2>1, LinksSafe DEF LinksSafe, ConnTypes, ConnsOK
<1>3. \A n \in DOMAIN backlog' : IF n \in DOMAIN backlog THEN backlog'[n] = backlog[n]
                                 ELSE n = Len(backlog) + 1 /\ backlog'[n] = p
  BY <1>1
<1>4. LinksOK'
  BY <1>1, <1>3 DEF LinksSafe, LinksOK, Knocking, Linked, Link
<1>5. FramesOK' /\ RegisteredOK'
  BY <1>1 DEF LinksSafe, FramesOK, RegisteredOK, Registered
<1> QED
  BY <1>2, <1>4, <1>5 DEF LinksSafe

\* net_socket_update sees some of the closes.
LEMMA PollLinks ==
  ASSUME LinksSafe, Poll
  PROVE  LinksSafe'
<1>1. PICK dropped \in SUBSET {i \in Conns : gone[i]} :
        /\ conn_state' = [i \in Conns |-> IF i \in dropped THEN "DISCONNECTED" ELSE conn_state[i]]
        /\ inbox' = [i \in Conns |-> IF i \in dropped THEN << >> ELSE inbox[i]]
        /\ peer' = [i \in Conns |-> IF i \in dropped THEN NoPeer ELSE peer[i]]
        /\ gone' = [i \in Conns |-> gone[i] /\ i \notin dropped]
  BY DEF Poll
<1>2. /\ stage = "poll" /\ stage' = "accept" /\ user_data' = user_data /\ lobby' = lobby
      /\ backlog' = backlog
  BY DEF Poll
<1>3. NoPeer \notin Servers
  BY LobbyPrograms DEF Peers
<1>4. \A i \in Conns : i \in dropped \/ (/\ inbox'[i] = inbox[i] /\ peer'[i] = peer[i]
                                         /\ gone'[i] = gone[i]
                                         /\ conn_state'[i] = conn_state[i])
  BY <1>1 DEF LinksSafe, ConnTypes
<1>5. \A i \in dropped : inbox'[i] = << >> /\ peer'[i] = NoPeer /\ i \in Conns
  BY <1>1
<1>6. ConnTypes'
  BY <1>1, <1>2 DEF LinksSafe, ConnTypes
<1>7. ConnsOK'
  BY <1>2, <1>3, <1>4, <1>5, NothingSaid DEF LinksSafe, ConnsOK
<1>8. \A i \in Conns : peer'[i] \in Servers =>
        inbox'[i] = inbox[i] /\ peer'[i] = peer[i] /\ gone'[i] = gone[i]
  BY <1>3, <1>4, <1>5
<1>9. LinksOK'
  <2>1. \A i \in Conns : peer'[i] # NoPeer => peer'[i] = peer[i] /\ gone'[i] = gone[i]
    BY <1>4, <1>5
  <2>2. \A p \in Peers : Linked(p)' => Linked(p)
    BY <2>1, LobbyPrograms DEF Linked, Link
  <2>3. \A p \in Peers : Knocking(p)' => ~Linked(p)'
    BY <1>2, <2>2 DEF LinksSafe, LinksOK, Knocking
  <2>4. \A i, j \in Conns : i # j /\ peer'[i] = peer'[j] /\ peer'[j] # NoPeer =>
                              gone'[i] \/ gone'[j]
    BY <2>1 DEF LinksSafe, LinksOK
  <2> QED
    BY <1>2, <2>3, <2>4 DEF LinksSafe, LinksOK
<1>10. FramesOK'
  BY <1>2, <1>8 DEF LinksSafe, FramesOK
<1>11. RegisteredOK'
  BY <1>2, <1>8 DEF LinksSafe, RegisteredOK, Registered
<1> QED
  BY <1>6, <1>7, <1>9, <1>10, <1>11 DEF LinksSafe

\* The first of those who wait gets the first free entry.
LEMMA AcceptLinks ==
  ASSUME LinksSafe, NEW i \in Conns, Accept(i)
  PROVE  LinksSafe'
<1> DEFINE p == Head(backlog)
           fresh == [type |-> "UNKNOWN", auth_state |-> "NONE"]
<1>1. /\ stage = "accept" /\ backlog # << >> /\ conn_state[i] = "DISCONNECTED"
      /\ conn_state' = [conn_state EXCEPT ![i] = "CONNECTED"]
      /\ user_data' = [user_data EXCEPT ![i] = fresh]
      /\ peer' = [peer EXCEPT ![i] = p]
      /\ backlog' = Tail(backlog)
      /\ stage' = stage /\ inbox' = inbox /\ gone' = gone /\ lobby' = lobby
  BY DEF Accept, IsFirst
<1>2. /\ p \in Peers /\ p = backlog[1] /\ 1 \in DOMAIN backlog
      /\ backlog' \in Seq(Peers)
      /\ \A n \in DOMAIN backlog' : n + 1 \in DOMAIN backlog /\ n + 1 # 1
                                     /\ backlog'[n] = backlog[n + 1]
  BY <1>1, Rest DEF LinksSafe, ConnTypes
<1>3. fresh \in ConnInfo /\ fresh.type = "UNKNOWN"
  BY DEF ConnInfo
<1> HIDE DEF p, fresh
<1>4. /\ peer[i] = NoPeer /\ inbox[i] = << >> /\ NoPeer \notin Servers
      /\ p # NoPeer
  BY <1>1, <1>2, LobbyPrograms DEF LinksSafe, ConnsOK, Peers
<1>5. /\ peer'[i] = p /\ user_data'[i] = fresh /\ conn_state'[i] = "CONNECTED"
      /\ \A j \in Conns : j # i => /\ peer'[j] = peer[j] /\ user_data'[j] = user_data[j]
                                   /\ conn_state'[j] = conn_state[j]
  BY <1>1 DEF LinksSafe, ConnTypes
<1>6. ConnTypes'
  BY <1>1, <1>2, <1>3 DEF LinksSafe, ConnTypes
<1>7. ConnsOK'
  BY <1>1, <1>3, <1>4, <1>5, NothingSaid DEF LinksSafe, ConnsOK
<1>8. \A j \in Conns : peer[j] = p => gone[j]
  BY <1>2 DEF LinksSafe, LinksOK, Knocking, Linked, Link
<1>9. LinksOK'
  <2>1. \A m, n \in DOMAIN backlog' :
          m # n => backlog'[m] # backlog'[n]
    <3> SUFFICES ASSUME NEW m \in DOMAIN backlog', NEW n \in DOMAIN backlog', m # n
                 PROVE  backlog'[m] # backlog'[n]
      OBVIOUS
    <3>1. m + 1 # n + 1
      BY <1>2
    <3> QED
      BY <1>2, <3>1 DEF LinksSafe, LinksOK
  <2>2. \A q \in Peers : Knocking(q)' => Knocking(q) /\ q # p
    BY <1>2 DEF LinksSafe, LinksOK, Knocking
  <2>3. \A q \in Peers : Knocking(q)' => ~Linked(q)'
    BY <1>1, <1>5, <2>2 DEF LinksSafe, LinksOK, Linked, Link
  <2>4. \A j, k \in Conns : j # k /\ peer'[j] = peer'[k] /\ peer'[k] # NoPeer =>
                              gone'[j] \/ gone'[k]
    BY <1>1, <1>5, <1>8 DEF LinksSafe, LinksOK
  <2> QED
    BY <2>1, <2>3, <2>4 DEF LinksOK, Knocking, Linked, Link
<1>10. FramesOK'
  BY <1>1, <1>3, <1>4, <1>5 DEF LinksSafe, FramesOK
<1>11. RegisteredOK'
  BY <1>1, <1>3, <1>5 DEF LinksSafe, RegisteredOK, Registered
<1> QED
  BY <1>6, <1>7, <1>9, <1>10, <1>11 DEF LinksSafe

\* The ends of the stages.
LEMMA StageLinks ==
  ASSUME LinksSafe, AcceptDone \/ RecvDone \/ DetectDone \/ MaintainDone
  PROVE  LinksSafe'
<1>1. /\ conn_state' = conn_state /\ user_data' = user_data /\ inbox' = inbox
      /\ peer' = peer /\ gone' = gone /\ lobby' = lobby
  BY DEF AcceptDone, RecvDone, DetectDone, MaintainDone, connVars
<1>2. \/ backlog' = backlog
      \/ backlog # << >> /\ backlog' = Tail(backlog)
  BY DEF AcceptDone, RecvDone, DetectDone, MaintainDone
<1>3. /\ stage' \in {"poll", "accept", "recv", "detect", "maintain"}
      /\ stage' = "recv" \/ \A i \in Conns : inbox[i] = << >>
  BY DEF LinksSafe, FramesOK, AcceptDone, RecvDone, DetectDone, MaintainDone
<1>4. backlog \in Seq(Peers)
  BY DEF LinksSafe, ConnTypes
<1>5. backlog' \in Seq(Peers) /\ LinksOK'
  <2>1. CASE backlog' = backlog
    BY <1>1, <1>4, <2>1 DEF LinksSafe, LinksOK, Knocking, Linked, Link
  <2>2. CASE backlog # << >> /\ backlog' = Tail(backlog)
    <3>1. /\ backlog' \in Seq(Peers)
          /\ \A n \in DOMAIN backlog' : n + 1 \in DOMAIN backlog
                                         /\ backlog'[n] = backlog[n + 1]
          /\ \A m, n \in DOMAIN backlog' : m # n => m + 1 # n + 1
      BY <1>4, <2>2, Rest
    <3> QED
      BY <1>1, <3>1 DEF LinksSafe, LinksOK, Knocking, Linked, Link
  <2> QED
    BY <1>2, <2>1, <2>2
<1>6. ConnTypes' /\ ConnsOK'
  BY <1>1, <1>3, <1>5 DEF LinksSafe, ConnTypes, ConnsOK
<1>7. FramesOK'
  BY <1>1, <1>3 DEF LinksSafe, FramesOK
<1>8. RegisteredOK'
  BY <1>1 DEF LinksSafe, RegisteredOK, Registered
<1> QED
  BY <1>5, <1>6, <1>7, <1>8 DEF LinksSafe

\* The message at the head of a connection.
LEMMA HeadOfInbox ==
  ASSUME LinksSafe, NEW i \in Conns, inbox[i] # << >>
  PROVE  /\ peer[i] # NoPeer /\ user_data[i] \in ConnInfo
         /\ Head(inbox[i]).type \in ServerFrames <=> peer[i] \in Servers
         /\ Head(inbox[i]).type \in Reports => Head(inbox[i]).current_rooms \in Nat
         /\ SaidBy(peer[i], Tail(inbox[i]))
BY SaidBefore DEF LinksSafe, ConnsOK

\* A handler takes a message and may note who the client is.
LEMMA ConsumedLinks ==
  ASSUME LinksSafe, NEW i \in Conns, inbox[i] # << >>, inbox' = Consumed(i),
         UNCHANGED <<stage, conn_state, peer, gone, backlog>>,
         lobby'.servers = lobby.servers,
         NEW info \in ConnInfo, user_data' = [user_data EXCEPT ![i] = info],
         info = user_data[i] \/ (peer[i] \notin Servers /\ info.type # "GAME_SERVER")
  PROVE  LinksSafe'
<1>1. /\ peer[i] # NoPeer
      /\ SaidBy(peer[i], Tail(inbox[i]))
  BY HeadOfInbox
<1>2. /\ inbox'[i] = Tail(inbox[i]) /\ user_data'[i] = info
      /\ \A j \in Conns : j # i => inbox'[j] = inbox[j] /\ user_data'[j] = user_data[j]
  BY DEF LinksSafe, ConnTypes, Consumed
<1>3. ConnTypes'
  BY <1>1 DEF LinksSafe, ConnTypes, Consumed
<1>4. ConnsOK'
  <2> SUFFICES ASSUME NEW j \in Conns
               PROVE  /\ conn_state'[j] = "DISCONNECTED" => peer'[j] = NoPeer
                      /\ peer'[j] = NoPeer => inbox'[j] = << >>
                      /\ peer'[j] # NoPeer => user_data'[j] \in ConnInfo
                      /\ peer'[j] # NoPeer /\ user_data'[j].type = "GAME_SERVER" =>
                           peer'[j] \in Servers
                      /\ SaidBy(peer'[j], inbox'[j])
    BY DEF ConnsOK
  <2>1. CASE j = i
    BY <1>1, <1>2, <2>1 DEF LinksSafe, ConnsOK
  <2>2. CASE j # i
    BY <1>2, <2>2 DEF LinksSafe, ConnsOK
  <2> QED
    BY <2>1, <2>2
<1>5. LinksOK'
  BY DEF LinksSafe, LinksOK, Knocking, Linked, Link
<1>6. \A j \in Conns : peer[j] \in Servers => user_data'[j] = user_data[j]
  BY <1>2
<1>7. \A j \in Conns : (inbox[j] = << >> => inbox'[j] = << >>)
  BY <1>2
<1>8. FramesOK'
  BY <1>6, <1>7 DEF LinksSafe, FramesOK
<1>9. RegisteredOK'
  BY <1>6 DEF LinksSafe, RegisteredOK, Registered
<1> QED
  BY <1>3, <1>4, <1>5, <1>8, <1>9 DEF LinksSafe

\* A server registers on the connection it says so on; if it has another one, that
\* one is closed or has not registered yet.
LEMMA RegisterLinks ==
  ASSUME LinksSafe, Safe(lobby), NEW i \in Conns, ServerRegister(i)
  PROVE  LinksSafe'
<1> DEFINE m == Head(inbox[i])
           info == [user_data[i] EXCEPT !.type = "GAME_SERVER"]
           row == [conn_id |-> i, current_rooms |-> m.current_rooms]
<1>1. /\ stage = "recv" /\ inbox[i] # << >> /\ m.type = "REGISTER"
      /\ inbox' = Consumed(i) /\ user_data' = [user_data EXCEPT ![i] = info]
      /\ stage' = stage /\ conn_state' = conn_state /\ peer' = peer /\ gone' = gone
      /\ backlog' = backlog /\ lobby' = Register(lobby, peer[i], i, m.current_rooms)
  BY DEF ServerRegister, Handling, Handled
<1>2. /\ peer[i] # NoPeer /\ user_data[i] \in ConnInfo
      /\ peer[i] \in Servers /\ m.current_rooms \in Nat
      /\ SaidBy(peer[i], Tail(inbox[i]))
  BY <1>1, HeadOfInbox DEF ServerFrames, Reports
<1>4. row \in RegisteredServer /\ row # NoServer /\ row.conn_id = i
  BY <1>2, AbsentServer DEF RegisteredServer
<1>5. info \in ConnInfo
  BY <1>2 DEF ConnInfo
<1>6. lobby'.servers = [lobby.servers EXCEPT ![peer[i]] = row]
  BY <1>1 DEF Register, Safe, Shaped
<1> HIDE DEF m, info, row
<1>7. /\ inbox'[i] = Tail(inbox[i])
      /\ \A j \in Conns : j # i => inbox'[j] = inbox[j] /\ user_data'[j] = user_data[j]
      /\ user_data'[i] = info
  BY <1>1 DEF LinksSafe, ConnTypes, Consumed
<1>8. ConnTypes'
  BY <1>1, <1>2, <1>4, <1>5, <1>6 DEF LinksSafe, ConnTypes, Consumed
<1>9. ConnsOK'
  BY <1>1, <1>2, <1>5, <1>7 DEF LinksSafe, ConnsOK
<1>10. LinksOK'
  BY <1>1 DEF LinksSafe, LinksOK, Knocking, Linked, Link
<1>11. \A j \in Conns : j # i /\ peer[j] = peer[i] /\ ~gone[j] => user_data[j].type = "UNKNOWN"
  BY <1>1, <1>2 DEF LinksSafe, FramesOK
<1>12. FramesOK'
  BY <1>1, <1>7 DEF LinksSafe, FramesOK
<1>13. RegisteredOK'
  <2>1. /\ \A g \in Servers : g # peer[i] => lobby'.servers[g] = lobby.servers[g]
        /\ lobby'.servers[peer[i]] = row
    BY <1>2, <1>6 DEF LinksSafe, ConnTypes
  <2> QED
    BY <1>1, <1>2, <1>4, <1>7, <1>11, <2>1 DEF LinksSafe, RegisteredOK, Registered
<1> QED
  BY <1>8, <1>9, <1>10, <1>12, <1>13 DEF LinksSafe

\* A heartbeat changes the number of rooms of a server and nothing else.
LEMMA HeartbeatLinks ==
  ASSUME LinksSafe, Safe(lobby), NEW i \in Conns, ServerHeartbeat(i)
  PROVE  LinksSafe'
<1> DEFINE m == Head(inbox[i])
           beat(g) == [lobby.servers[g] EXCEPT !.current_rooms = m.current_rooms]
<1>1. /\ stage = "recv" /\ inbox[i] # << >> /\ m.type = "HEARTBEAT"
      /\ inbox' = Consumed(i) /\ user_data' = user_data
      /\ stage' = stage /\ conn_state' = conn_state /\ peer' = peer /\ gone' = gone
      /\ backlog' = backlog
  BY DEF ServerHeartbeat, Handling, Handled
<1>2. lobby'.servers = [g \in Servers |-> IF g \in RegisteredOn(lobby, i) THEN beat(g)
                                          ELSE lobby.servers[g]]
  BY DEF ServerHeartbeat, Handled, Safe, Shaped
<1>3. /\ peer[i] # NoPeer /\ m.current_rooms \in Nat
      /\ SaidBy(peer[i], Tail(inbox[i]))
  BY <1>1, HeadOfInbox DEF Reports
<1>5. ASSUME NEW g \in RegisteredOn(lobby, i)
      PROVE  /\ beat(g) \in RegisteredServer /\ beat(g) # NoServer
             /\ beat(g).conn_id = lobby.servers[g].conn_id
  <2>1. g \in Servers /\ lobby.servers[g] \in RegisteredServer
    BY DEF RegisteredOn, Registered, LinksSafe, ConnTypes
  <2> QED
    BY <1>3, <2>1, AbsentServer DEF RegisteredServer
<1> HIDE DEF beat, m
<1>6. /\ lobby'.servers \in [Servers -> RegisteredServer \cup {NoServer}]
      /\ \A g \in Registered(lobby) : /\ g \in Registered(lobby')
                                      /\ lobby'.servers[g].conn_id = lobby.servers[g].conn_id
  BY <1>2, <1>5 DEF LinksSafe, ConnTypes, Registered
<1>7. /\ inbox'[i] = Tail(inbox[i])
      /\ \A j \in Conns : j # i => inbox'[j] = inbox[j]
  BY <1>1 DEF LinksSafe, ConnTypes, Consumed
<1>8. ConnTypes'
  BY <1>1, <1>3, <1>6 DEF LinksSafe, ConnTypes, Consumed
<1>9. ConnsOK'
  BY <1>1, <1>3, <1>7 DEF LinksSafe, ConnsOK
<1>10. LinksOK'
  BY <1>1 DEF LinksSafe, LinksOK, Knocking, Linked, Link
<1>11. FramesOK'
  BY <1>1, <1>7 DEF LinksSafe, FramesOK
<1>12. RegisteredOK'
  BY <1>1, <1>6 DEF LinksSafe, RegisteredOK
<1> QED
  BY <1>8, <1>9, <1>10, <1>11, <1>12 DEF LinksSafe

\* net_socket_close, whatever becomes of the LobbyConnInfo: only a server registered
\* on this connection may leave the registry.
LEMMA CloseLinks ==
  ASSUME LinksSafe, NEW i \in Conns, CloseConn(i), UNCHANGED <<stage, backlog>>,
         user_data' \in {user_data, [user_data EXCEPT ![i] = NoInfo]},
         lobby'.servers \in [Servers -> RegisteredServer \cup {NoServer}],
         \A g \in Servers : \/ lobby'.servers[g] = lobby.servers[g]
                            \/ g \in RegisteredOn(lobby, i)
  PROVE  LinksSafe'
<1>1. /\ conn_state' = [conn_state EXCEPT ![i] = "DISCONNECTED"]
      /\ inbox' = [inbox EXCEPT ![i] = << >>]
      /\ peer' = [peer EXCEPT ![i] = NoPeer]
      /\ gone' = [gone EXCEPT ![i] = FALSE]
  BY DEF CloseConn
<1>2. /\ inbox'[i] = << >> /\ peer'[i] = NoPeer /\ NoPeer \notin Servers
      /\ \A j \in Conns : j # i => /\ inbox'[j] = inbox[j] /\ peer'[j] = peer[j]
                                   /\ gone'[j] = gone[j] /\ conn_state'[j] = conn_state[j]
                                   /\ user_data'[j] = user_data[j]
  BY <1>1, LobbyPrograms DEF LinksSafe, ConnTypes, Peers
<1>3. ConnTypes'
  <2>1. /\ conn_state' \in [Conns -> {"DISCONNECTED", "CONNECTED"}]
        /\ user_data' \in [Conns -> ConnInfo \cup {NoInfo}]
    BY <1>1 DEF LinksSafe, ConnTypes
  <2>3. /\ DOMAIN inbox' = Conns
        /\ peer' \in [Conns -> Peers \cup {NoPeer}]
        /\ gone' \in [Conns -> BOOLEAN]
    BY <1>1 DEF LinksSafe, ConnTypes
  <2> QED
    BY <2>1, <2>3 DEF LinksSafe, ConnTypes
<1>4. ConnsOK'
  BY <1>2, NothingSaid DEF LinksSafe, ConnsOK
<1>5. LinksOK'
  <2>1. \A p \in Peers : Linked(p)' => Linked(p)
    BY <1>2, LobbyPrograms DEF Linked, Link
  <2>2. \A p \in Peers : Knocking(p)' => Knocking(p)
    BY DEF Knocking
  <2>3. \A p \in Peers : Knocking(p)' => ~Linked(p)'
    BY <2>1, <2>2 DEF LinksSafe, LinksOK
  <2>4. \A j, k \in Conns : j # k /\ peer'[j] = peer'[k] /\ peer'[k] # NoPeer =>
                              gone'[j] \/ gone'[k]
    BY <1>2 DEF LinksSafe, LinksOK
  <2> QED
    BY <2>3, <2>4 DEF LinksSafe, LinksOK, Knocking, Linked, Link
<1>6. FramesOK'
  BY <1>2 DEF LinksSafe, FramesOK
<1>7. ASSUME NEW j \in Conns, peer'[j] \in Servers, ~gone'[j],
             user_data'[j].type = "GAME_SERVER"
      PROVE  peer'[j] \in Registered(lobby') /\ lobby'.servers[peer'[j]].conn_id = j
  <2>1. /\ j # i /\ peer'[j] = peer[j]
        /\ peer[j] \in Registered(lobby) /\ lobby.servers[peer[j]].conn_id = j
    BY <1>2, <1>7 DEF LinksSafe, RegisteredOK
  <2>2. lobby'.servers[peer[j]] = lobby.servers[peer[j]]
    BY <1>7, <2>1 DEF RegisteredOn
  <2> QED
    BY <2>1, <2>2 DEF Registered
<1>8. RegisteredOK'
  BY <1>7 DEF RegisteredOK
<1> QED
  BY <1>3, <1>4, <1>5, <1>6, <1>8 DEF LinksSafe

-----------------------------------------------------------------------------
(* The steps.                                                                *)

\* One frame or two of a client's, one of a server's, which counts rooms if it is a
\* report.
LEMMA Frames ==
  ASSUME NEW p, NEW m, NEW n,
         m.type \in ServerFrames <=> p \in Servers, n.type \in ServerFrames <=> p \in Servers,
         m.type \in Reports => m.current_rooms \in Nat,
         n.type \in Reports => n.current_rooms \in Nat
  PROVE  SaidBy(p, << m >>) /\ SaidBy(p, << m, n >>)
<1>1. << m >> \in Seq({m}) /\ << m, n >> \in Seq({m, n})
  OBVIOUS
<1>2. Range(<< m >>) = {m} /\ Range(<< m, n >>) = {m, n}
  <2>1. DOMAIN << m >> = {1} /\ DOMAIN << m, n >> = {1, 2}
    OBVIOUS
  <2>2. << m >>[1] = m /\ << m, n >>[1] = m /\ << m, n >>[2] = n
    OBVIOUS
  <2> QED
    BY <2>1, <2>2 DEF Range
<1> QED
  BY <1>1, <1>2 DEF SaidBy

LEMMA Frame ==
  ASSUME NEW p, NEW m, m.type \in ServerFrames <=> p \in Servers,
         m.type \in Reports => m.current_rooms \in Nat
  PROVE  SaidBy(p, << m >>)
BY Frames

\* lc_send adds to what was said.
LEMMA AppendedLast ==
  ASSUME LinksSafe, NEW i \in Conns, NEW m
  PROVE  [inbox EXCEPT ![i] = Append(@, m)] = [inbox EXCEPT ![i] = @ \o << m >>]
<1>1. inbox[i] \in Seq(Range(inbox[i])) /\ DOMAIN inbox = Conns
  BY DEF LinksSafe, ConnTypes, ConnsOK, SaidBy
<1>2. Append(inbox[i], m) = inbox[i] \o << m >>
  BY <1>1
<1> QED
  BY <1>1, <1>2

\* A client says what clients say.
LEMMA ClientLinks ==
  ASSUME LinksSafe, NEW c \in Clients, ClientStep(c)
  PROVE  LinksSafe'
<1> c \in Peers /\ c \notin Servers
  BY LobbyPrograms DEF Peers
<1>1. CASE ClientConnect(c)
  BY <1>1, ConnectLinks DEF ClientConnect
<1>2. CASE ClientLost(c)
  BY <1>2, LinksSafeKept DEF ClientLost, lobbyVars
<1>3. ASSUME NEW i \in Conns, ClientHello(c, i)
      PROVE  LinksSafe'
  <2>1. PICK hello \in {"HELLO", "OLD_HELLO"} :
          inbox' = [inbox EXCEPT ![i] = @ \o << [type |-> hello], [type |-> "LOGIN"] >>]
    BY <1>3 DEF ClientHello, Says
  <2>2. SaidBy(c, << [type |-> hello], [type |-> "LOGIN"] >>)
    BY Frames DEF ServerFrames, Reports
  <2> QED
    BY <1>3, <2>1, <2>2, PeerActs DEF ClientHello, CanSay
<1>4. ASSUME NEW i \in Conns, ClientAsks(c, i)
      PROVE  LinksSafe'
  <2>1. \/ inbox' = [inbox EXCEPT ![i] = @ \o << [type |-> "CREATE_ROOM"] >>]
        \/ inbox' = [inbox EXCEPT ![i] = @ \o << [type |-> "QUEUE"] >>]
        \/ \E k \in Codes :
             inbox' = [inbox EXCEPT ![i] = @ \o << [type |-> "JOIN_ROOM", code |-> k] >>]
    BY <1>4, Zenon DEF ClientAsks, Says
  <2>2. PICK m : /\ inbox' = [inbox EXCEPT ![i] = @ \o << m >>]
                 /\ m.type \in {"CREATE_ROOM", "QUEUE", "JOIN_ROOM"}
    <3>1. /\ [type |-> "CREATE_ROOM"].type = "CREATE_ROOM"
          /\ [type |-> "QUEUE"].type = "QUEUE"
          /\ \A k : [type |-> "JOIN_ROOM", code |-> k].type = "JOIN_ROOM"
      OBVIOUS
    <3>2. /\ "CREATE_ROOM" \in {"CREATE_ROOM", "QUEUE", "JOIN_ROOM"}
          /\ "QUEUE" \in {"CREATE_ROOM", "QUEUE", "JOIN_ROOM"}
          /\ "JOIN_ROOM" \in {"CREATE_ROOM", "QUEUE", "JOIN_ROOM"}
      OBVIOUS
    <3> QED
      BY <2>1, <3>1, <3>2, Zenon
  <2>3. SaidBy(c, << m >>)
    BY <2>2, Frame DEF ServerFrames, Reports
  <2> QED
    BY <1>4, <2>2, <2>3, PeerActs DEF ClientAsks, CanSay
<1>5. ASSUME NEW i \in Conns, ClientBack(c, i)
      PROVE  LinksSafe'
  <2>1. PICK ms \in {<< >>, << [type |-> "QUEUE_CANCEL"] >>} :
          inbox' = [inbox EXCEPT ![i] = @ \o ms]
    BY <1>5 DEF ClientBack, Says
  <2>2. SaidBy(c, ms)
    BY Frame, NothingSaid DEF ServerFrames, Reports
  <2> QED
    BY <1>5, <2>1, <2>2, PeerActs DEF ClientBack, CanSay
<1>6. ASSUME NEW i \in Conns, ClientRead(c, i)
      PROVE  LinksSafe'
  <2>1. inbox' \in {inbox, [inbox EXCEPT ![i] = Append(@, [type |-> "LOGIN_RESPONSE"])]}
    BY <1>6 DEF ClientRead
  <2>2. inbox' \in {inbox, [inbox EXCEPT ![i] = @ \o << [type |-> "LOGIN_RESPONSE"] >>]}
    BY <2>1, AppendedLast
  <2>3. SaidBy(c, << [type |-> "LOGIN_RESPONSE"] >>)
    BY Frame DEF ServerFrames, Reports
  <2> QED
    BY <1>6, <2>2, <2>3, PeerActs DEF ClientRead
<1>7. ASSUME NEW i \in Conns, ClientEnds(c, i)
      PROVE  LinksSafe'
  <2>1. inbox' \in {inbox, [inbox EXCEPT ![i] = Append(@, [type |-> "DISCONNECT"])]}
    BY <1>7 DEF ClientEnds
  <2>2. inbox' \in {inbox, [inbox EXCEPT ![i] = @ \o << [type |-> "DISCONNECT"] >>]}
    BY <2>1, AppendedLast
  <2>3. SaidBy(c, << [type |-> "DISCONNECT"] >>)
    BY Frame DEF ServerFrames, Reports
  <2> QED
    BY <1>7, <2>2, <2>3, PeerActs DEF ClientEnds
<1> QED
  BY <1>1, <1>2, <1>3, <1>4, <1>5, <1>6, <1>7 DEF ClientStep

\* A game server says what servers say, and counts its rooms in Nat.
LEMMA ServerLinks ==
  ASSUME LinksSafe, NEW g \in Servers, ServerStep(g)
  PROVE  LinksSafe'
<1> g \in Peers
  BY DEF Peers
<1>1. CASE ServerConnect(g)
  BY <1>1, ConnectLinks DEF ServerConnect
<1>2. CASE ServerSkips(g)
  BY <1>2, LinksSafeKept DEF ServerSkips, lobbyVars
<1>3. ASSUME NEW i \in Conns, NEW type \in Reports, ServerReports(g, i, type)
      PROVE  LinksSafe'
  <2> DEFINE m == [type |-> type, current_rooms |-> Cardinality(RoomsOf(g))]
  <2>1. RoomsOf(g) \in SUBSET Codes
    BY DEF RoomsOf
  <2>2. Cardinality(RoomsOf(g)) \in Nat
    BY <2>1, TableSizes, FS_Subset, FS_CardinalityType
  <2>3. SaidBy(g, << m >>)
    BY <2>2, Frame DEF ServerFrames, Reports
  <2>4. inbox' = [inbox EXCEPT ![i] = @ \o << m >>]
    BY <1>3 DEF ServerReports, Says
  <2> HIDE DEF m
  <2> QED
    BY <1>3, <2>3, <2>4, PeerActs DEF ServerReports, CanSay
<1>4. ASSUME NEW i \in Conns, ServerCreateRoom(g, i)
      PROVE  LinksSafe'
  <2>1. PICK made \in BOOLEAN :
          inbox' = [inbox EXCEPT ![i] = @ \o
            << [type |-> IF made THEN "ROOM_CREATED" ELSE "ROOM_REFUSED",
                code |-> Head(mail[g]).code] >>]
    BY <1>4 DEF ServerCreateRoom, Says
  <2> DEFINE m == [type |-> IF made THEN "ROOM_CREATED" ELSE "ROOM_REFUSED",
                   code |-> Head(mail[g]).code]
  <2>2. SaidBy(g, << m >>)
    BY Frame DEF ServerFrames, Reports
  <2> HIDE DEF m
  <2>3. inbox' = [inbox EXCEPT ![i] = @ \o << m >>]
    BY <2>1 DEF m
  <2> QED
    BY <1>4, <2>2, <2>3, PeerActs DEF ServerCreateRoom
<1>5. ASSUME NEW i \in Conns, ServerEnds(g, i)
      PROVE  LinksSafe'
  BY <1>5, NothingSaid, PeerActs DEF ServerEnds
<1>6. ASSUME NEW k \in Codes, RoomStarts(g, k) \/ RoomCloses(g, k)
      PROVE  LinksSafe'
  BY <1>6, LinksSafeKept DEF RoomStarts, RoomCloses, lobbyVars
<1>7. ASSUME NEW k \in Codes, RoomFinishes(g, k) \/ RoomEmpties(g, k)
      PROVE  LinksSafe'
  <2>1. /\ stage = "poll"
        /\ UNCHANGED <<stage, conn_state, user_data, peer, gone, lobby, backlog>>
    BY <1>7 DEF RoomFinishes, RoomEmpties
  <2>2. PICK m : Tells(g, m) /\ m.type \in {"RESULT", "ROOM_DESTROYED"}
    BY <1>7 DEF RoomFinishes, RoomEmpties
  <2>3. SaidBy(g, << m >>)
    BY <2>2, Frame DEF ServerFrames, Reports
  <2>4. CASE UNCHANGED inbox
    BY <2>1, <2>4, LinksSafeKept DEF connVars
  <2>5. ASSUME NEW i \in Conns, CanSay(g, i), Says(i, << m >>)
        PROVE  LinksSafe'
    BY <2>1, <2>3, <2>5, PeerActs DEF CanSay, Says
  <2> QED
    BY <2>2, <2>4, <2>5 DEF Tells
<1> QED
  BY <1>1, <1>2, <1>3, <1>4, <1>5, <1>6, <1>7
  DEF ServerStep, ServerRegisters, ServerBeats, Reports

\* A message whose handler does not touch the registry.
LEMMA HandledLinks ==
  ASSUME LinksSafe, NEW i \in Conns, inbox[i] # << >>, NEW tables, NEW letters,
         Handled(i, tables, letters), tables.servers = lobby.servers, UNCHANGED user_data
  PROVE  LinksSafe'
<1>1. user_data[i] \in ConnInfo
  BY HeadOfInbox
<1>2. user_data' = [user_data EXCEPT ![i] = user_data[i]]
  BY DEF LinksSafe, ConnTypes
<1> QED
  BY <1>1, <1>2, ConsumedLinks DEF Handled

\* Who is there, and the login of a client.
LEMMA LoginLinks ==
  ASSUME LinksSafe, NEW i \in Conns, Hello(i) \/ Login(i) \/ LoginResponse(i)
  PROVE  LinksSafe'
<1>1. /\ inbox[i] # << >> /\ Head(inbox[i]).type \in {"HELLO", "LOGIN", "LOGIN_RESPONSE"}
      /\ inbox' = Consumed(i) /\ lobby' = lobby
      /\ UNCHANGED <<stage, conn_state, peer, gone, backlog>>
  BY DEF Hello, Login, LoginResponse, Handling, Handled
<1>2. peer[i] \notin Servers /\ user_data[i] \in ConnInfo
  BY <1>1, HeadOfInbox DEF ServerFrames
<1>3. \E info \in {[user_data[i] EXCEPT !.type = "CLIENT"],
                   [type |-> "CLIENT", auth_state |-> "CHALLENGE_SENT"],
                   [user_data[i] EXCEPT !.auth_state = "AUTHENTICATED"],
                   [user_data[i] EXCEPT !.auth_state = "NONE"]} :
        user_data' = [user_data EXCEPT ![i] = info]
  BY DEF Hello, Login, LoginResponse
<1>4. PICK info \in ConnInfo : /\ user_data' = [user_data EXCEPT ![i] = info]
                               /\ info.type # "GAME_SERVER"
  <2>1. user_data[i].type # "GAME_SERVER"
    BY <1>1, <1>2, HeadOfInbox DEF LinksSafe, ConnsOK
  <2>2. \A info \in {[user_data[i] EXCEPT !.type = "CLIENT"],
                     [type |-> "CLIENT", auth_state |-> "CHALLENGE_SENT"],
                     [user_data[i] EXCEPT !.auth_state = "AUTHENTICATED"],
                     [user_data[i] EXCEPT !.auth_state = "NONE"]} :
          info \in ConnInfo /\ info.type # "GAME_SERVER"
    BY <1>2, <2>1 DEF ConnInfo
  <2> QED
    BY <1>3, <2>2, Zenon
<1> QED
  BY <1>1, <1>2, <1>4, ConsumedLinks

\* svreg_unregister, and what waited for the server.
LEMMA UnregisteredServers ==
  ASSUME NEW t, Shaped(t), NEW g, NEW i
  PROVE  ForgetServer(Unregister(t, g), i).servers = [t.servers EXCEPT ![g] = NoServer]
<1>1. Shaped(Unregister(t, g)) /\ Unregister(t, g).servers = [t.servers EXCEPT ![g] = NoServer]
  BY DEF Unregister, Shaped
<1> QED
  BY <1>1, RegistryApart

\* The handlers of clients' requests and of servers' answers.
LEMMA RegistryUntouched ==
  ASSUME Safe(lobby), NEW i,
         \/ CreateRoom(i) \/ CreateRefused(i) \/ JoinRoom(i)
         \/ Queue(i) \/ QueueMatch(i) \/ QueueCancel(i)
         \/ ServerRoomCreated(i) \/ ServerRoomRefused(i) \/ ServerResult(i)
         \/ ServerRoomDestroyed(i)
  PROVE  lobby'.servers = lobby.servers
<1> Shaped(lobby)
  BY DEF Safe
<1>1. CASE CreateRoom(i)
  <2>1. PICK g \in PickServer(lobby), k \in FreeCodes(lobby) :
          lobby' = [InsertRow(lobby, k, g) EXCEPT
                      !.pending = @ \cup {[code |-> k, client |-> i,
                                           server |-> lobby.servers[g].conn_id]}]
    BY <1>1 DEF CreateRoom, Handled
  <2>2. Shaped(InsertRow(lobby, k, g)) /\ InsertRow(lobby, k, g).servers = lobby.servers
    BY RegistryApart
  <2> QED
    BY <2>1, <2>2 DEF Shaped
<1>2. CASE CreateRefused(i) \/ JoinRoom(i)
  BY <1>2 DEF CreateRefused, JoinRoom, Handled
<1>3. CASE Queue(i)
  BY <1>3, RegistryApart DEF Queue, Handled
<1>4. CASE QueueCancel(i)
  BY <1>4, RegistryApart DEF QueueCancel, Handled
<1>5. CASE QueueMatch(i)
  <2> DEFINE t == Enqueue(lobby, i, peer[i])
             left == Unqueue(t, MatchedSlots(t))
  <2>1. Shaped(t) /\ t.servers = lobby.servers
    BY RegistryApart
  <2>2. Shaped(left) /\ left.servers = lobby.servers
    BY <2>1, RegistryApart
  <2>3. \/ lobby' = left
        \/ \E g \in PickServer(lobby), k \in FreeCodes(lobby) :
             LET room == InsertRow(left, k, g)
             IN  \/ lobby' = [room EXCEPT !.matches = @ \cup
                                {[code |-> k, conns |-> MatchedConns(t),
                                  server |-> lobby.servers[g].conn_id]}]
                 \/ lobby' = SetStatus(room, k, "expired")
    BY <1>5 DEF QueueMatch, Handled
  <2> HIDE DEF t, left
  <2>4. \A g, k : Shaped(InsertRow(left, k, g)) /\ InsertRow(left, k, g).servers = lobby.servers
    BY <2>2, RegistryApart
  <2>5. \A g, k : SetStatus(InsertRow(left, k, g), k, "expired").servers = lobby.servers
    BY <2>4, RegistryApart
  <2>6. \A g, k, M : [InsertRow(left, k, g) EXCEPT !.matches = M].servers = lobby.servers
    BY <2>4, RegistryApart
  <2>7. \/ lobby' = left
        \/ \E g, k, M : lobby' = [InsertRow(left, k, g) EXCEPT !.matches = M]
        \/ \E g, k : lobby' = SetStatus(InsertRow(left, k, g), k, "expired")
    BY <2>3, Zenon
  <2> QED
    BY <2>2, <2>5, <2>6, <2>7, Zenon
<1>6. Shaped(Answered(Code(i))) /\ Answered(Code(i)).servers = lobby.servers
  BY DEF Answered, Shaped
<1>7. CASE ServerRoomCreated(i) \/ ServerRoomRefused(i)
  BY <1>6, <1>7, RegistryApart DEF ServerRoomCreated, ServerRoomRefused, Handled
<1>8. CASE ServerResult(i)
  BY <1>8, RegistryApart DEF ServerResult, Handled
<1>9. CASE ServerRoomDestroyed(i)
  <2> DEFINE t == SetStatus(lobby, Code(i), "expired")
  <2>1. lobby' = [t EXCEPT !.pending = @ \ PendingOf(Code(i))]
    BY <1>9 DEF ServerRoomDestroyed, Handled
  <2>2. Shaped(t) /\ t.servers = lobby.servers
    BY RegistryApart
  <2> HIDE DEF t
  <2> QED
    BY <2>1, <2>2 DEF Shaped
<1> QED
  BY <1>1, <1>2, <1>3, <1>4, <1>5, <1>7, <1>8, <1>9

\* lby_cleanup_connection: of the registry only a server on this connection leaves.
LEMMA CleanupLinks ==
  ASSUME LinksSafe, Safe(lobby), NEW i \in Conns, CleanupConnection(i)
  PROVE  LinksSafe'
<1>1. \/ lobby'.servers = lobby.servers
      \/ \E g \in RegisteredOn(lobby, i) :
           lobby'.servers = [lobby.servers EXCEPT ![g] = NoServer]
  <2>1. CASE CleanupClient(i)
    <3> DEFINE t == Dequeue(ForgetClient(lobby, i), i)
    <3>1. Shaped(ForgetClient(lobby, i)) /\ ForgetClient(lobby, i).servers = lobby.servers
      BY RegistryApart DEF Safe
    <3>2. Shaped(t) /\ t.servers = lobby.servers
      BY <3>1, RegistryApart
    <3>3. \/ lobby' = t
          \/ \E m \in MatchesWith(t, i) : lobby' = [t EXCEPT !.matches = @ \ {m}]
      BY <2>1, Zenon DEF CleanupClient
    <3> HIDE DEF t
    <3> QED
      BY <3>2, <3>3 DEF Shaped
  <2>2. CASE CleanupServer(i)
    <3>1. \/ lobby' = ForgetServer(lobby, i)
          \/ \E g \in RegisteredOn(lobby, i) :
               lobby' = ForgetServer(Unregister(lobby, g), i)
      BY <2>2, Zenon DEF CleanupServer
    <3>2. \A g : ForgetServer(Unregister(lobby, g), i).servers
                   = [lobby.servers EXCEPT ![g] = NoServer]
      BY UnregisteredServers DEF Safe
    <3>3. ForgetServer(lobby, i).servers = lobby.servers
      BY RegistryApart DEF Safe
    <3> QED
      BY <3>1, <3>2, <3>3
  <2>3. CASE lobby' = lobby
    BY <2>3
  <2> QED
    BY <2>1, <2>2, <2>3 DEF CleanupConnection
<1>2. lobby.servers \in [Servers -> RegisteredServer \cup {NoServer}]
  BY DEF LinksSafe, ConnTypes
<1>3. /\ lobby'.servers \in [Servers -> RegisteredServer \cup {NoServer}]
      /\ \A g \in Servers : \/ lobby'.servers[g] = lobby.servers[g]
                            \/ g \in RegisteredOn(lobby, i)
  BY <1>1, <1>2
<1> QED
  BY <1>3, CloseLinks DEF CleanupConnection

\* A time limit of the maintenance: only that of a game server closes a connection.
LEMMA TimeoutLinks ==
  ASSUME LinksSafe, Safe(lobby), Timeouts
  PROVE  LinksSafe'
<1>1. ASSUME NEW m \in lobby.matches, ExpireMatch(m)
      PROVE  LinksSafe'
  BY <1>1, LinksSafeKept, RegistryApart DEF ExpireMatch, Expires, Kept, connVars, Safe, Shaped
<1>2. ASSUME NEW p \in lobby.pending, ExpirePending(p)
      PROVE  LinksSafe'
  BY <1>2, LinksSafeKept, RegistryApart DEF ExpirePending, Expires, Kept, connVars, Safe, Shaped
<1>3. ASSUME NEW k \in Codes, CleanupCode(k)
      PROVE  LinksSafe'
  BY <1>3, LinksSafeKept DEF CleanupCode, Expires, Kept, connVars, Safe, Shaped
<1>4. ASSUME NEW g \in Servers, ExpireServer(g)
      PROVE  LinksSafe'
  <2> DEFINE i == lobby.servers[g].conn_id
  <2>1. g \in Registered(lobby) /\ i \in Conns
    BY <1>4 DEF ExpireServer, Registered, RegisteredServer, LinksSafe, ConnTypes
  <2>2. /\ \E h \in RegisteredOn(lobby, i) : lobby' = ForgetServer(Unregister(lobby, h), i)
        /\ CloseConn(i) /\ UNCHANGED <<stage, backlog, user_data>>
    BY <1>4 DEF ExpireServer, Expires
  <2> HIDE DEF i
  <2>3. PICK h \in RegisteredOn(lobby, i) : lobby' = ForgetServer(Unregister(lobby, h), i)
    BY <2>2
  <2>4. lobby'.servers = [lobby.servers EXCEPT ![h] = NoServer]
    BY <2>3, UnregisteredServers DEF Safe
  <2>5. /\ lobby'.servers \in [Servers -> RegisteredServer \cup {NoServer}]
        /\ \A s \in Servers : \/ lobby'.servers[s] = lobby.servers[s]
                              \/ s \in RegisteredOn(lobby, i)
    BY <2>4 DEF LinksSafe, ConnTypes
  <2> QED
    BY <2>1, <2>2, <2>5, CloseLinks
<1> QED
  BY <1>1, <1>2, <1>3, <1>4 DEF Timeouts

\* lby_handle_message.
LEMMA HandleLinks ==
  ASSUME LinksSafe, Safe(lobby), NEW i \in Conns, Handle(i)
  PROVE  LinksSafe'
<1>1. CASE Hello(i) \/ Login(i) \/ LoginResponse(i)
  BY <1>1, LoginLinks
<1>2. CASE OldHello(i)
  BY <1>2, CloseLinks DEF OldHello, LinksSafe, ConnTypes
<1>3. CASE Farewell(i)
  BY <1>3, CleanupLinks DEF Farewell
<1>4. CASE ServerRegister(i)
  BY <1>4, RegisterLinks
<1>5. CASE ServerHeartbeat(i)
  BY <1>5, HeartbeatLinks
<1>6. CASE \/ CreateRoom(i) \/ CreateRefused(i) \/ JoinRoom(i)
           \/ Queue(i) \/ QueueMatch(i) \/ QueueCancel(i)
           \/ ServerRoomCreated(i) \/ ServerRoomRefused(i) \/ ServerResult(i)
           \/ ServerRoomDestroyed(i)
  <2>1. inbox[i] # << >> /\ UNCHANGED user_data
    BY <1>6 DEF CreateRoom, CreateRefused, JoinRoom, Queue, QueueMatch, QueueCancel,
         ServerRoomCreated, ServerRoomRefused, ServerResult, ServerRoomDestroyed, Handling
  <2>2. PICK tables, letters : Handled(i, tables, letters)
    BY <1>6, Zenon
    DEF CreateRoom, CreateRefused, JoinRoom, Queue, QueueMatch, QueueCancel,
         ServerRoomCreated, ServerRoomRefused, ServerResult, ServerRoomDestroyed
  <2>3. lobby'.servers = lobby.servers
    BY <1>6, RegistryUntouched
  <2> QED
    BY <2>1, <2>2, <2>3, HandledLinks DEF Handled
<1> QED
  BY <1>1, <1>2, <1>3, <1>4, <1>5, <1>6 DEF Handle

\* Every step.
LEMMA LinksStep ==
  ASSUME LinksSafe, Safe(lobby), [Next]_vars
  PROVE  LinksSafe'
<1>1. CASE Update
  <2>1. CASE AcceptDone \/ RecvDone \/ DetectDone \/ MaintainDone
    BY <2>1, StageLinks
  <2>2. CASE \E i \in Conns : Accept(i) \/ Handle(i) \/ DetectDrop(i)
    BY <2>2, AcceptLinks, HandleLinks, CleanupLinks DEF DetectDrop
  <2> QED
    BY <1>1, <2>1, <2>2, PollLinks DEF Update
<1>2. CASE Timeouts
  BY <1>2, TimeoutLinks
<1>3. CASE \E c \in Clients : ClientStep(c)
  BY <1>3, ClientLinks
<1>4. CASE \E g \in Servers : ServerStep(g)
  BY <1>4, ServerLinks
<1>5. CASE UNCHANGED vars
  BY <1>5, LinksSafeKept DEF vars, lobbyVars
<1> QED
  BY <1>1, <1>2, <1>3, <1>4, <1>5 DEF Next

\* The inductive invariant of the connections and the registry, in every reachable state.
LEMMA LinksStaySafe == Spec => []LinksSafe
<1>1. Init => LinksSafe
  BY LinksSafeInit
<1>2. LinksSafe /\ Safe(lobby) /\ [Next]_vars => LinksSafe'
  BY LinksStep
<1> QED
  BY <1>1, <1>2, TablesStaySafe, PTL DEF Spec

-----------------------------------------------------------------------------
(* Frames on their way.                                                      *)

IsSeq(ms) == ms \in Seq(Range(ms))
Has(ms, type) == \E n \in DOMAIN ms : ms[n].type = type
Names(ms, type, k) == \E n \in DOMAIN ms : ms[n].type = type /\ ms[n].code = k

\* A room is not destroyed before it was created.
Announced(ms, k) ==
  \A n \in DOMAIN ms : ms[n].type = "ROOM_DESTROYED" /\ ms[n].code = k =>
    \E m \in DOMAIN ms : m < n /\ ms[m].type = "ROOM_CREATED" /\ ms[m].code = k

\* A request for a match that is not taken back.
Standing(ms) ==
  \E n \in DOMAIN ms : /\ ms[n].type = "QUEUE"
                       /\ \A m \in DOMAIN ms : m > n => ms[m].type # "QUEUE_CANCEL"

\* Nothing on its way.
LEMMA NoFrames ==
  /\ IsSeq(<< >>)
  /\ \A type : ~Has(<< >>, type)
  /\ \A type, k : ~Names(<< >>, type, k)
  /\ \A k : Announced(<< >>, k)
  /\ ~Standing(<< >>)
<1>1. DOMAIN << >> = {} /\ Range(<< >>) = {} /\ << >> \in Seq({})
  BY DEF Range
<1> QED
  BY <1>1 DEF IsSeq, Has, Names, Announced, Standing

\* One more frame.
LEMMA Appending ==
  ASSUME NEW ms, IsSeq(ms), NEW f
  PROVE  /\ DOMAIN Append(ms, f) = 1 .. Len(ms) + 1 /\ DOMAIN ms = 1 .. Len(ms) /\ Len(ms) \in Nat
         /\ \A n \in DOMAIN ms : Append(ms, f)[n] = ms[n]
         /\ Append(ms, f)[Len(ms) + 1] = f
         /\ Append(ms, f) = ms \o << f >>
         /\ IsSeq(Append(ms, f))
<1> DEFINE more == Append(ms, f)
<1>1. ms \in Seq(Range(ms) \cup {f})
  BY DEF IsSeq
<1>2. /\ DOMAIN more = 1 .. Len(ms) + 1 /\ DOMAIN ms = 1 .. Len(ms) /\ Len(ms) \in Nat
      /\ \A n \in DOMAIN ms : more[n] = ms[n]
      /\ more[Len(ms) + 1] = f
      /\ more \in Seq(Range(ms) \cup {f})
      /\ more = ms \o << f >>
  BY <1>1
<1> HIDE DEF more
<1>3. more \in Seq(Range(more))
  BY <1>2 DEF Range
<1> QED
  BY <1>2, <1>3 DEF IsSeq, more

\* What is known of one frame more.
Longer(ms, f, more) ==
  /\ IsSeq(more)
  /\ \A type : Has(more, type) <=> Has(ms, type) \/ f.type = type
  /\ \A type, k : Names(ms, type, k) => Names(more, type, k)
  /\ \A type, k : Names(more, type, k) => Names(ms, type, k) \/ (f.type = type /\ f.code = k)
  /\ f.type # "ROOM_CREATED" => \A k : Names(more, "ROOM_CREATED", k) => Names(ms, "ROOM_CREATED", k)
  /\ f.type # "ROOM_DESTROYED" =>
       \A k : Names(more, "ROOM_DESTROYED", k) => Names(ms, "ROOM_DESTROYED", k)
  /\ f.type = "ROOM_CREATED" => Names(more, "ROOM_CREATED", f.code)
  /\ \A k : Announced(ms, k)
              /\ (f.type = "ROOM_DESTROYED" /\ f.code = k => Names(ms, "ROOM_CREATED", k))
            => Announced(more, k)
  /\ f.type = "QUEUE" => Standing(more)
  /\ f.type # "QUEUE_CANCEL" /\ Standing(ms) => Standing(more)

LEMMA AppendedFrame ==
  ASSUME NEW ms, IsSeq(ms), NEW f, NEW more, more = Append(ms, f)
  PROVE  Longer(ms, f, more)
<1>1. /\ DOMAIN more = 1 .. Len(ms) + 1 /\ DOMAIN ms = 1 .. Len(ms) /\ Len(ms) \in Nat
      /\ \A n \in DOMAIN ms : more[n] = ms[n]
      /\ more[Len(ms) + 1] = f
      /\ IsSeq(more)
  <2>1. /\ DOMAIN Append(ms, f) = 1 .. Len(ms) + 1 /\ DOMAIN ms = 1 .. Len(ms)
        /\ Len(ms) \in Nat
        /\ \A n \in DOMAIN ms : Append(ms, f)[n] = ms[n]
        /\ Append(ms, f)[Len(ms) + 1] = f
        /\ IsSeq(Append(ms, f))
    BY Appending
  <2>2. more = Append(ms, f)
    OBVIOUS
  <2> QED
    BY ONLY <2>1, <2>2, Zenon
<1>2. \A n \in DOMAIN more : \/ n \in DOMAIN ms /\ more[n] = ms[n]
                             \/ n = Len(ms) + 1 /\ more[n] = f
  BY <1>1
<1>3. /\ Len(ms) + 1 \in DOMAIN more
      /\ DOMAIN ms \subseteq DOMAIN more
      /\ \A n \in DOMAIN ms : n < Len(ms) + 1
  BY <1>1
<1>4. \A type : Has(more, type) <=> Has(ms, type) \/ f.type = type
  BY <1>1, <1>2, <1>3 DEF Has
<1>5. \A type, k : Names(more, type, k) => Names(ms, type, k) \/ (f.type = type /\ f.code = k)
  BY <1>2 DEF Names
<1>9. \A type, k : Names(ms, type, k) => Names(more, type, k)
  BY <1>1, <1>3 DEF Names
<1>10. f.type = "ROOM_CREATED" => Names(more, "ROOM_CREATED", f.code)
  BY <1>1, <1>3 DEF Names
<1>6. ASSUME NEW k, Announced(ms, k),
             f.type = "ROOM_DESTROYED" /\ f.code = k => Names(ms, "ROOM_CREATED", k)
      PROVE  Announced(more, k)
  BY <1>1, <1>2, <1>3, <1>6 DEF Announced, Names
<1>7. f.type = "QUEUE" => Standing(more)
  <2>1. \A n \in DOMAIN more : ~(n > Len(ms) + 1)
    BY <1>1
  <2> QED
    BY <1>1, <1>3, <2>1 DEF Standing
<1>8. f.type # "QUEUE_CANCEL" /\ Standing(ms) => Standing(more)
  BY <1>1, <1>2, <1>3 DEF Standing
<1> QED
  BY <1>1, <1>4, <1>5, <1>6, <1>7, <1>8, <1>9, <1>10 DEF Longer

\* The first frame is handled.
LEMMA TakenFrame ==
  ASSUME NEW ms, IsSeq(ms), ms # << >>, NEW f, f = Head(ms), NEW rest, rest = Tail(ms)
  PROVE  /\ IsSeq(rest)
         /\ \A type : Has(ms, type) <=> f.type = type \/ Has(rest, type)
         /\ \A type, k : Names(ms, type, k) <=>
                           (f.type = type /\ f.code = k) \/ Names(rest, type, k)
         /\ \A k : Announced(ms, k) => ~(f.type = "ROOM_DESTROYED" /\ f.code = k)
         /\ \A k : Announced(ms, k) /\ ~(f.type = "ROOM_CREATED" /\ f.code = k)
                   => Announced(rest, k)
         /\ Standing(ms) => \/ Standing(rest)
                            \/ f.type = "QUEUE" /\ ~Has(rest, "QUEUE_CANCEL")
<1>1. /\ DOMAIN ms = 1 .. Len(ms) /\ Len(ms) \in Nat /\ 1 \in DOMAIN ms /\ f = ms[1]
      /\ DOMAIN rest = 1 .. Len(ms) - 1 /\ DOMAIN rest = 1 .. Len(rest)
      /\ \A n \in DOMAIN rest : rest[n] = ms[n + 1]
      /\ rest \in Seq(Range(ms))
  BY DEF IsSeq
<1>2. IsSeq(rest)
  <2>1. rest \in Seq(Range(rest))
    BY ONLY <1>1 DEF Range
  <2> QED
    BY <2>1 DEF IsSeq
<1>3. /\ \A n \in DOMAIN ms : \/ n = 1
                              \/ n > 1 /\ n - 1 \in DOMAIN rest /\ rest[n - 1] = ms[n]
      /\ \A n \in DOMAIN rest : n + 1 \in DOMAIN ms /\ n \in Nat
      /\ \A n \in DOMAIN ms : ~(n < 1) /\ n \in Nat
  BY <1>1
<1>4. \A type : Has(ms, type) <=> f.type = type \/ Has(rest, type)
  <2> SUFFICES ASSUME NEW type
               PROVE  (\E n \in DOMAIN ms : ms[n].type = type) <=>
                        (f.type = type \/ \E n \in DOMAIN rest : rest[n].type = type)
    BY Zenon DEF Has
  <2>1. ASSUME NEW n \in DOMAIN ms, ms[n].type = type
        PROVE  f.type = type \/ \E m \in DOMAIN rest : rest[m].type = type
    BY ONLY <1>1, <1>3, <2>1
  <2>2. ASSUME NEW n \in DOMAIN rest, rest[n].type = type
        PROVE  \E m \in DOMAIN ms : ms[m].type = type
    BY ONLY <1>1, <1>3, <2>2
  <2> QED
    BY <1>1, <2>1, <2>2, Zenon
<1>5. \A type, k : Names(ms, type, k) <=>
                     (f.type = type /\ f.code = k) \/ Names(rest, type, k)
  <2> SUFFICES ASSUME NEW type, NEW k
               PROVE  (\E n \in DOMAIN ms : ms[n].type = type /\ ms[n].code = k) <=>
                        ((f.type = type /\ f.code = k)
                         \/ \E n \in DOMAIN rest : rest[n].type = type /\ rest[n].code = k)
    BY Zenon DEF Names
  <2>1. ASSUME NEW n \in DOMAIN ms, ms[n].type = type, ms[n].code = k
        PROVE  \/ f.type = type /\ f.code = k
               \/ \E m \in DOMAIN rest : rest[m].type = type /\ rest[m].code = k
    BY ONLY <1>1, <1>3, <2>1
  <2>2. ASSUME NEW n \in DOMAIN rest, rest[n].type = type, rest[n].code = k
        PROVE  \E m \in DOMAIN ms : ms[m].type = type /\ ms[m].code = k
    BY ONLY <1>1, <1>3, <2>2
  <2> QED
    BY <1>1, <2>1, <2>2, Zenon
<1>6. \A k : Announced(ms, k) => ~(f.type = "ROOM_DESTROYED" /\ f.code = k)
  BY <1>1, <1>3 DEF Announced
<1>7. ASSUME NEW k, Announced(ms, k), ~(f.type = "ROOM_CREATED" /\ f.code = k)
      PROVE  Announced(rest, k)
  <2> SUFFICES ASSUME NEW n \in DOMAIN rest,
                      rest[n].type = "ROOM_DESTROYED", rest[n].code = k
               PROVE  \E m \in DOMAIN rest : m < n /\ rest[m].type = "ROOM_CREATED" /\ rest[m].code = k
    BY DEF Announced
  <2>1. PICK m \in DOMAIN ms : m < n + 1 /\ ms[m].type = "ROOM_CREATED" /\ ms[m].code = k
    BY <1>1, <1>3, <1>7 DEF Announced
  <2>2. m - 1 \in DOMAIN rest /\ rest[m - 1] = ms[m]
    BY <1>1, <1>3, <1>7, <2>1
  <2>3. m - 1 < n
    BY <1>3, <2>1
  <2> QED
    BY <2>1, <2>2, <2>3
<1>8. ASSUME Standing(ms), ~Standing(rest)
      PROVE  f.type = "QUEUE" /\ ~Has(rest, "QUEUE_CANCEL")
  <2>1. PICK n \in DOMAIN ms : /\ ms[n].type = "QUEUE"
                               /\ \A m \in DOMAIN ms : m > n => ms[m].type # "QUEUE_CANCEL"
    BY <1>8 DEF Standing
  <2>2. \A m \in DOMAIN rest : m + 1 > n => rest[m].type # "QUEUE_CANCEL"
    BY <1>1, <1>3, <2>1
  <2>3. n = 1
    <3> SUFFICES ASSUME n # 1 PROVE Standing(rest)
      BY <1>8
    <3>1. n - 1 \in DOMAIN rest /\ rest[n - 1].type = "QUEUE"
      BY <1>3, <2>1
    <3>2. \A m \in DOMAIN rest : m > n - 1 => m + 1 > n
      BY <1>3
    <3> QED
      BY <2>2, <3>1, <3>2 DEF Standing
  <2>4. \A m \in DOMAIN rest : m + 1 > 1
    BY <1>1
  <2> QED
    BY <1>1, <2>1, <2>2, <2>3, <2>4 DEF Has
<1> QED
  BY <1>2, <1>4, <1>5, <1>6, <1>7, <1>8

-----------------------------------------------------------------------------
(* The clients that wait.  As long as no game server loses its connection    *)
(* and no code is deleted, a code is drawn once: the room of it is created   *)
(* once and destroyed after that, and the ROOM_DESTROYED of a room that is   *)
(* waited for is behind its ROOM_CREATED.                                    *)

Sheltered == spent.server_drops = 0 /\ spent.cleanups = 0

HasAnswer(ms) == Has(ms, "ERROR") \/ Has(ms, "ROOM_ASSIGNED")
HasRoom(t, i) == \E p \in t.pending : p.client = i
InLine(t, i) == (\E s \in Queued(t) : t.queue[s].conn_id = i) \/ MatchesWith(t, i) # {}

\* What is known in any behaviour.
PlainOK ==
  /\ spent \in [DOMAIN Limit -> Nat]
  /\ DOMAIN mail = Peers
  /\ \A p \in Peers : IsSeq(mail[p])
  /\ client \in [Clients -> ClientState]
  /\ hosted \in [Servers -> [Codes -> RoomOnServer]]
  /\ \A c \in Clients : Knocking(c) => client[c].state = "CONNECTING"
  /\ \A i \in Conns : gone[i] => peer[i] # NoPeer

\* No game server has left the connection it is known by.
ServersStay ==
  /\ \A i \in Conns : peer[i] \in Servers => ~gone[i]
  /\ \A g \in Registered(lobby) : peer[lobby.servers[g].conn_id] = g
  /\ \A p \in lobby.pending : p.server \in Conns /\ peer[p.server] \in Servers
  /\ \A m \in lobby.matches : m.server \in Conns /\ peer[m.server] \in Servers

\* Nobody speaks of a code before it is drawn.
Unused(k) ==
  /\ \A g \in Servers : hosted[g][k] = "none"
  /\ \A p \in Peers : ~Names(mail[p], "SERVER_CREATE_ROOM", k)
  /\ \A i \in Conns : /\ ~Names(inbox[i], "ROOM_CREATED", k)
                      /\ ~Names(inbox[i], "ROOM_DESTROYED", k)

\* A room that a game server has and the lobby waits for is about to be announced.
Opening(k) ==
  /\ \A g \in Servers :
       hosted[g][k] # "none" =>
         \E i \in Conns : Link(g, i) /\ Names(inbox[i], "ROOM_CREATED", k)
  /\ \A i \in Conns : Announced(inbox[i], k)

CodesOK ==
  /\ \A k \in Codes : lobby.codes[k] = NoRow => Unused(k)
  /\ \A p \in lobby.pending : Opening(p.code)

\* A client that waits has asked and not been heard, has been answered, or is in the tables.
Waits(c, i) ==
  /\ client[c].state = "CREATING_ROOM" =>
       HasAnswer(mail[c]) \/ Has(inbox[i], "CREATE_ROOM") \/ HasRoom(lobby, i)
  /\ client[c].state = "QUEUED" =>
       \/ HasAnswer(mail[c]) \/ Standing(inbox[i])
       \/ ~Has(inbox[i], "QUEUE_CANCEL") /\ InLine(lobby, i)
WaitsOK == \A c \in Clients, i \in Conns : Link(c, i) => Waits(c, i)

Tended == ServersStay /\ CodesOK /\ WaitsOK
WaitsSafe == PlainOK /\ (Sheltered => Tended)

\* The clients a letter to a list of connections comes to.
MailGrows(letters) ==
  /\ DOMAIN letters = Peers
  /\ \A p \in Peers : /\ IsSeq(letters[p])
                      /\ \A type : Has(mail[p], type) => Has(letters[p], type)
NoOrders(letters) ==
  \A p \in Peers, k \in Codes :
    Names(letters[p], "SERVER_CREATE_ROOM", k) => Names(mail[p], "SERVER_CREATE_ROOM", k)
Reached(letters, i) == \A c \in Clients : Link(c, i) => HasAnswer(letters[c])

LEMMA Repeating ==
  ASSUME NEW ms, IsSeq(ms), NEW n \in Nat, NEW f,
         NEW more, more = ms \o [j \in 1 .. n |-> f]
  PROVE  /\ IsSeq(more)
         /\ \A type : Has(ms, type) => Has(more, type)
         /\ \A type, k : Names(more, type, k) => Names(ms, type, k) \/ (f.type = type /\ f.code = k)
         /\ n # 0 => Has(more, f.type)
<1> DEFINE copies == [j \in 1 .. n |-> f]
<1>1. copies \in Seq(Range(ms) \cup {f}) /\ Len(copies) = n
  OBVIOUS
<1>2. \A j \in 1 .. n : copies[j] = f
  OBVIOUS
<1>3. ms \in Seq(Range(ms) \cup {f})
  BY DEF IsSeq
<1> HIDE DEF copies
<1>4. more = ms \o copies
  BY DEF copies
<1>5. /\ more \in Seq(Range(ms) \cup {f})
      /\ Len(ms) \in Nat /\ Len(more) = Len(ms) + n
      /\ DOMAIN ms = 1 .. Len(ms) /\ DOMAIN more = 1 .. Len(more)
      /\ \A j \in DOMAIN ms : j \in DOMAIN more /\ more[j] = ms[j]
  BY <1>1, <1>3, <1>4
<1>6. \A j \in DOMAIN more : \/ j \in DOMAIN ms /\ more[j] = ms[j]
                             \/ j \notin DOMAIN ms /\ more[j] = f
  <2> SUFFICES ASSUME NEW j \in DOMAIN more, j \notin DOMAIN ms
               PROVE  more[j] = f
    BY <1>5
  <2>1. j - Len(ms) \in 1 .. n /\ more[j] = copies[j - Len(ms)]
    BY <1>1, <1>3, <1>4, <1>5
  <2> QED
    BY <1>2, <2>1
<1>7. IsSeq(more)
  <2>1. more \in Seq(Range(more))
    BY ONLY <1>5 DEF Range
  <2> QED
    BY <2>1 DEF IsSeq
<1>8. \A type : Has(ms, type) => Has(more, type)
  BY <1>5 DEF Has
<1>9. \A type, k : Names(more, type, k) => Names(ms, type, k) \/ (f.type = type /\ f.code = k)
  BY <1>6 DEF Names
<1>10. n # 0 => Has(more, f.type)
  <2> SUFFICES ASSUME n # 0 PROVE Has(more, f.type)
    OBVIOUS
  <2>1. Len(more) \in DOMAIN more /\ Len(more) \notin DOMAIN ms
    BY <1>5
  <2>2. more[Len(more)] = f
    BY <1>6, <2>1
  <2> QED
    BY <2>1, <2>2 DEF Has
<1> QED
  BY <1>7, <1>8, <1>9, <1>10

\* The sends: nobody loses a letter, and who is connected gets his.
LEMMA ToldMail ==
  ASSUME LinksSafe, PlainOK, NEW conns, IsFiniteSet(DOMAIN conns), NEW f
  PROVE  LET letters == Told(conns, f)
         IN  /\ MailGrows(letters)
             /\ \A p \in Peers, k \in Codes :
                  Names(letters[p], "SERVER_CREATE_ROOM", k) =>
                    \/ Names(mail[p], "SERVER_CREATE_ROOM", k)
                    \/ f.type = "SERVER_CREATE_ROOM" /\ f.code = k
             /\ \A q \in DOMAIN conns : \A p \in Peers :
                  conns[q] \in Conns /\ Link(p, conns[q]) => Has(letters[p], f.type)
<1> DEFINE letters == Told(conns, f)
           reached(p) == {q \in DOMAIN conns : Reaches(conns[q], p)}
           many(p) == Cardinality(reached(p))
<1>1. ASSUME NEW p
      PROVE  IsFiniteSet(reached(p)) /\ many(p) \in Nat
  <2>1. reached(p) \in SUBSET DOMAIN conns
    OBVIOUS
  <2> QED
    BY <2>1, FS_Subset, FS_CardinalityType
<1>2. /\ DOMAIN letters = Peers
      /\ \A p \in Peers : letters[p] = mail[p] \o [n \in 1 .. many(p) |-> f]
  BY Zenon DEF Told
<1>3. ASSUME NEW p, NEW q \in DOMAIN conns, Reaches(conns[q], p)
      PROVE  many(p) # 0
  <2>1. q \in reached(p)
    BY <1>3
  <2>2. many(p) = 0 <=> reached(p) = {}
    BY <1>1, FS_EmptySet
  <2> QED
    BY <2>1, <2>2
<1> HIDE DEF letters, many, reached
<1>4. ASSUME NEW p \in Peers
      PROVE  /\ IsSeq(letters[p])
             /\ \A type : Has(mail[p], type) => Has(letters[p], type)
             /\ \A type, k : Names(letters[p], type, k) =>
                               Names(mail[p], type, k) \/ (f.type = type /\ f.code = k)
             /\ many(p) # 0 => Has(letters[p], f.type)
  <2>1. IsSeq(mail[p])
    BY DEF PlainOK
  <2>2. many(p) \in Nat /\ letters[p] = mail[p] \o [n \in 1 .. many(p) |-> f]
    BY <1>1, <1>2
  <2> QED
    BY <2>1, <2>2, Repeating
<1>5. ASSUME NEW q \in DOMAIN conns, NEW p \in Peers, conns[q] \in Conns, Link(p, conns[q])
      PROVE  Has(letters[p], f.type)
  <2>1. Reaches(conns[q], p)
    BY <1>5, LobbyPrograms DEF Link, Reaches, LinksSafe, ConnTypes, ConnsOK
  <2> QED
    BY <1>3, <1>4, <2>1
<1>6. MailGrows(letters)
  BY <1>2, <1>4 DEF MailGrows
<1>7. \A p \in Peers, k \in Codes :
        Names(letters[p], "SERVER_CREATE_ROOM", k) =>
          \/ Names(mail[p], "SERVER_CREATE_ROOM", k)
          \/ f.type = "SERVER_CREATE_ROOM" /\ f.code = k
  BY <1>4
<1> QED
  BY <1>5, <1>6, <1>7 DEF letters

\* An error or an assignment is an answer.
LEMMA AnswerMail ==
  ASSUME LinksSafe, PlainOK, NEW conns, IsFiniteSet(DOMAIN conns), NEW f \in {Error, Assigned}
  PROVE  /\ MailGrows(Told(conns, f)) /\ NoOrders(Told(conns, f))
         /\ \A q \in DOMAIN conns : conns[q] \in Conns => Reached(Told(conns, f), conns[q])
<1> DEFINE letters == Told(conns, f)
<1>1. /\ MailGrows(letters)
      /\ \A p \in Peers, k \in Codes :
           Names(letters[p], "SERVER_CREATE_ROOM", k) =>
             \/ Names(mail[p], "SERVER_CREATE_ROOM", k)
             \/ f.type = "SERVER_CREATE_ROOM" /\ f.code = k
      /\ \A q \in DOMAIN conns : \A p \in Peers :
           conns[q] \in Conns /\ Link(p, conns[q]) => Has(letters[p], f.type)
  BY ToldMail
<1>2. f.type \in {"ERROR", "ROOM_ASSIGNED"}
  BY DEF Error, Assigned
<1> HIDE DEF letters
<1>3. NoOrders(letters)
  BY <1>1, <1>2 DEF NoOrders
<1>4. \A q \in DOMAIN conns : conns[q] \in Conns => Reached(letters, conns[q])
  BY <1>1, <1>2 DEF Reached, HasAnswer, Peers
<1> QED
  BY <1>1, <1>3, <1>4 DEF letters

-----------------------------------------------------------------------------
(* Who is in the tables.                                                     *)

\* The first slot of some is one of them.
LEMMA FirstSlot ==
  ASSUME NEW S, S \subseteq Nat, S # {}
  PROVE  Min(S) \in S
<1>1. PICK m \in S : \A n \in S : <<n, m>> \notin OpToRel(<, Nat)
  BY WFMin, NatLessThanWellFounded, Zenon
<1>2. \A n \in S : ~(n < m)
  BY <1>1, Zenon DEF OpToRel
<1>3. \A n \in S : m =< n
  BY <1>2
<1>4. \E n \in S : \A o \in S : n =< o
  BY <1>3
<1> QED
  BY <1>4, Zenon DEF Min

\* Tables that keep the queue and the matches, or the pending rooms.
LEMMA SameLine ==
  ASSUME NEW t, NEW u, u.queue = t.queue, t.matches \subseteq u.matches, NEW i
  PROVE  InLine(t, i) => InLine(u, i)
BY DEF InLine, Queued, MatchesWith

LEMMA SameRooms ==
  ASSUME NEW t, NEW u, t.pending \subseteq u.pending, NEW i
  PROVE  HasRoom(t, i) => HasRoom(u, i)
BY DEF HasRoom

\* mm_queue_add: nobody leaves the queue.
LEMMA EnqueueLine ==
  ASSUME NEW t, Safe(t), Queued(t) # QueueSlots, NEW i \in Conns, NEW a \in Clients
  PROVE  LET u == Enqueue(t, i, a)
         IN  /\ \A j : InLine(t, j) => InLine(u, j)
             /\ InLine(u, i)
<1> DEFINE u == Enqueue(t, i, a)
           free == Min(QueueSlots \ Queued(t))
           e == [conn_id |-> i, account |-> a, order |-> t.enqueue_counter]
<1>1. u.queue = [t.queue EXCEPT ![free] = e] /\ u.matches = t.matches
  BY DEF Enqueue, Safe, Shaped
<1>2. free \in QueueSlots \ Queued(t)
  <2>1. QueueSlots \ Queued(t) \subseteq Nat /\ QueueSlots \ Queued(t) # {}
    BY TableSizes DEF Queued
  <2> QED
    BY <2>1, FirstSlot
<1>3. e.conn_id = i /\ u.queue[free] = e
  BY <1>1, <1>2 DEF Safe, QueueSafe, Ordered
<1>4. free \in Queued(u)
  <2>1. e \in QueueEntry
    BY DEF Safe, QueueSafe, Ordered, QueueEntry
  <2> QED
    BY <1>2, <1>3, <2>1, AbsentEntry DEF Queued
<1> HIDE DEF u, free
<1>5. \A s \in Queued(t) : s \in Queued(u) /\ u.queue[s] = t.queue[s]
  BY <1>1, <1>2 DEF Queued, Safe, QueueSafe, Ordered
<1>6. \A j : InLine(t, j) => InLine(u, j)
  BY <1>1, <1>5 DEF InLine, MatchesWith
<1>7. InLine(u, i)
  BY <1>3, <1>4 DEF InLine
<1> QED
  BY <1>6, <1>7 DEF u

\* mm_queue_remove: only the connection's own entry leaves.
LEMMA DequeueLine ==
  ASSUME NEW t, Safe(t), NEW i
  PROVE  LET u == Dequeue(t, i)
         IN  /\ \A j : j # i /\ InLine(t, j) => InLine(u, j)
             /\ u.pending = t.pending /\ u.matches = t.matches
<1> DEFINE u == Dequeue(t, i)
           mine == {s \in Queued(t) : t.queue[s].conn_id = i}
<1>1. CASE mine = {}
  BY <1>1 DEF Dequeue
<1>2. CASE mine # {}
  <2>1. /\ u.queue = [t.queue EXCEPT ![Min(mine)] = NoEntry]
        /\ u.pending = t.pending /\ u.matches = t.matches
    BY <1>2 DEF Dequeue, Safe, Shaped
  <2>2. Min(mine) \in mine
    BY <1>2, FirstSlot, TableSizes DEF Queued
  <2>3. t.queue[Min(mine)].conn_id = i
    BY <2>2
  <2> HIDE DEF u, mine
  <2>4. \A s \in Queued(t) : t.queue[s].conn_id # i => s \in Queued(u) /\ u.queue[s] = t.queue[s]
    BY <2>1, <2>3 DEF Queued, Safe, QueueSafe, Ordered
  <2>5. \A j : j # i /\ InLine(t, j) => InLine(u, j)
    BY <2>1, <2>4 DEF InLine, MatchesWith
  <2> QED
    BY <2>1, <2>5 DEF u
<1> QED
  BY <1>1, <1>2

\* mm_try_form_match: everybody in the queue is in the match.
LEMMA MatchedLine ==
  ASSUME NEW t, Ordered(t), Cardinality(Queued(t)) <= MatchSize, NEW s \in Queued(t)
  PROVE  \E p \in DOMAIN MatchedConns(t) : MatchedConns(t)[p] = t.queue[s].conn_id
<1>1. ASSUME NEW r \in Queued(t)
      PROVE  IsFiniteSet(Before(t, r)) /\ Cardinality(Before(t, r)) \in Nat
  <2>1. Before(t, r) \in SUBSET Queued(t)
    BY DEF Before
  <2> QED
    BY <2>1, QueuedFinite, FS_Subset, FS_CardinalityType
<1>2. ASSUME NEW q \in Queued(t), NEW r \in Queued(t), t.queue[q].order < t.queue[r].order
      PROVE  Cardinality(Before(t, q)) # Cardinality(Before(t, r))
  <2>1. Before(t, q) \in SUBSET Before(t, r)
    BY <1>2 DEF Before, Ordered
  <2>2. q \in Before(t, r) /\ q \notin Before(t, q)
    BY <1>2 DEF Before, Ordered
  <2> QED
    BY <1>1, <2>1, <2>2, FS_Subset
<1>3. ASSUME NEW r \in Queued(t), Cardinality(Before(t, r)) = Cardinality(Before(t, s))
      PROVE  r = s
  <2>1. ~(t.queue[r].order < t.queue[s].order) /\ ~(t.queue[s].order < t.queue[r].order)
    BY <1>2, <1>3
  <2>2. t.queue[r].order = t.queue[s].order
    BY <2>1 DEF Ordered
  <2> QED
    BY <2>2 DEF Ordered
<1> DEFINE n == Cardinality(Before(t, s))
<1>4. s \in MatchedSlots(t)
  BY MatchTakesAll DEF Ordered
<1>5. n < MatchSize /\ n \in Nat
  BY <1>1, <1>4 DEF MatchedSlots
<1>6. n + 1 \in 1 .. MatchSize /\ (n + 1) - 1 = n
  BY <1>5, TableSizes
<1> DEFINE place(p) == CHOOSE r \in Queued(t) : Cardinality(Before(t, r)) = p - 1
<1>7. place(n + 1) = s
  <2>1. \A r \in Queued(t) : Cardinality(Before(t, r)) = (n + 1) - 1 <=> r = s
    BY <1>3, <1>6
  <2> QED
    BY <2>1
<1>8. /\ DOMAIN MatchedConns(t) = 1 .. MatchSize
      /\ \A p \in 1 .. MatchSize : MatchedConns(t)[p] = t.queue[place(p)].conn_id
  BY DEF MatchedConns
<1> HIDE DEF place, n
<1> QED
  BY <1>6, <1>7, <1>8

-----------------------------------------------------------------------------
(* What a step may do to those who wait.                                     *)

\* Frames are sequences.
LEMMA InboxSeq ==
  ASSUME LinksSafe
  PROVE  \A i \in Conns : IsSeq(inbox[i])
BY DEF LinksSafe, ConnsOK, SaidBy, IsSeq

\* A program is linked by one connection.
LEMMA OneLink ==
  ASSUME LinksSafe, NEW p \in Peers, NEW i \in Conns, NEW j \in Conns, Link(p, i), Link(p, j)
  PROVE  i = j
BY LobbyPrograms DEF LinksSafe, LinksOK, ConnTypes, Link

\* A bound is used up step by step.
LEMMA Spending ==
  ASSUME PlainOK, UNCHANGED spent \/ \E b \in DOMAIN Limit : Spend(b)
  PROVE  /\ spent' \in [DOMAIN Limit -> Nat]
         /\ Sheltered' => Sheltered
         /\ Spend("server_drops") \/ Spend("cleanups") => ~Sheltered'
<1>1. DOMAIN Limit = {"requests", "client_drops", "server_drops", "expiries",
                      "room_events", "cleanups"}
  BY DEF Limit
<1>2. spent \in [DOMAIN Limit -> Nat] /\ spent.server_drops \in Nat /\ spent.cleanups \in Nat
  BY <1>1 DEF PlainOK
<1>3. CASE UNCHANGED spent
  BY <1>1, <1>2, <1>3 DEF Sheltered, Spend
<1>4. ASSUME NEW b \in DOMAIN Limit, Spend(b)
      PROVE  /\ spent' \in [DOMAIN Limit -> Nat]
             /\ Sheltered' => Sheltered
             /\ b = "server_drops" \/ b = "cleanups" => ~Sheltered'
  <2>1. spent' = [spent EXCEPT ![b] = @ + 1]
    BY <1>4 DEF Spend
  <2> QED
    BY <1>1, <1>2, <2>1 DEF Sheltered
<1> QED
  BY <1>1, <1>3, <1>4

\* A message is handled: whoever had asked for a room or a match is served, refused or
\* still there.
LEMMA HandledWaits ==
  ASSUME LinksSafe, PlainOK, WaitsOK, NEW h \in Conns, inbox[h] # << >>,
         inbox' = Consumed(h), UNCHANGED <<peer, gone, client>>, MailGrows(mail'),
         \A i \in Conns : HasRoom(lobby, i) => HasRoom(lobby', i) \/ Reached(mail', i),
         \A i \in Conns : InLine(lobby, i) =>
           \/ InLine(lobby', i) \/ Reached(mail', i)
           \/ i = h /\ Head(inbox[h]).type = "QUEUE_CANCEL",
         Head(inbox[h]).type = "CREATE_ROOM" => HasRoom(lobby', h) \/ Reached(mail', h),
         Head(inbox[h]).type = "QUEUE" => InLine(lobby', h) \/ Reached(mail', h)
  PROVE  WaitsOK'
<1> SUFFICES ASSUME NEW c \in Clients, NEW i \in Conns, Link(c, i)'
             PROVE  Waits(c, i)'
  BY DEF WaitsOK
<1>1. Link(c, i) /\ Waits(c, i)
  BY DEF Link, WaitsOK
<1>2. HasAnswer(mail[c]) => HasAnswer(mail'[c])
  BY DEF MailGrows, HasAnswer, Peers
<1>3. Reached(mail', i) => HasAnswer(mail'[c])
  BY <1>1 DEF Reached
<1>4. CASE i # h
  <2>1. inbox'[i] = inbox[i]
    BY <1>4 DEF Consumed, LinksSafe, ConnTypes
  <2> QED
    BY <1>1, <1>2, <1>3, <1>4, <2>1 DEF Waits
<1>5. CASE i = h
  <2> DEFINE f == Head(inbox[h])
             rest == Tail(inbox[h])
  <2>1. inbox'[h] = rest
    BY DEF Consumed, LinksSafe, ConnTypes
  <2>2. /\ \A type : Has(inbox[h], type) <=> f.type = type \/ Has(rest, type)
        /\ Standing(inbox[h]) => \/ Standing(rest)
                                 \/ f.type = "QUEUE" /\ ~Has(rest, "QUEUE_CANCEL")
    BY InboxSeq, TakenFrame
  <2> HIDE DEF f, rest
  <2>3. f.type = "CREATE_ROOM" => HasRoom(lobby', h) \/ Reached(mail', h)
    BY DEF f
  <2>4. f.type = "QUEUE" => InLine(lobby', h) \/ Reached(mail', h)
    BY DEF f
  <2>5. f.type # "QUEUE_CANCEL" /\ InLine(lobby, h) => InLine(lobby', h) \/ Reached(mail', h)
    BY DEF f
  <2>6. client[c].state = "CREATING_ROOM" =>
          HasAnswer(mail'[c]) \/ Has(rest, "CREATE_ROOM") \/ HasRoom(lobby', h)
    BY <1>1, <1>2, <1>3, <1>5, <2>2, <2>3 DEF Waits
  <2>7. client[c].state = "QUEUED" =>
          \/ HasAnswer(mail'[c]) \/ Standing(rest)
          \/ ~Has(rest, "QUEUE_CANCEL") /\ InLine(lobby', h)
    BY <1>1, <1>2, <1>3, <1>5, <2>2, <2>4, <2>5 DEF Waits
  <2> QED
    BY <1>5, <2>1, <2>6, <2>7 DEF Waits
<1> QED
  BY <1>4, <1>5

\* A connection is closed: whoever waits on another is told or still there.
LEMMA ClosedWaits ==
  ASSUME LinksSafe, PlainOK, WaitsOK, NEW h \in Conns, CloseConn(h),
         UNCHANGED client, MailGrows(mail'),
         \A i \in Conns : i # h =>
           /\ HasRoom(lobby, i) => HasRoom(lobby', i) \/ Reached(mail', i)
           /\ InLine(lobby, i) => InLine(lobby', i) \/ Reached(mail', i)
  PROVE  WaitsOK'
<1> SUFFICES ASSUME NEW c \in Clients, NEW i \in Conns, Link(c, i)'
             PROVE  Waits(c, i)'
  BY DEF WaitsOK
<1>1. /\ inbox' = [inbox EXCEPT ![h] = << >>] /\ peer' = [peer EXCEPT ![h] = NoPeer]
      /\ gone' = [gone EXCEPT ![h] = FALSE]
  BY DEF CloseConn
<1>2. i # h /\ inbox'[i] = inbox[i] /\ Link(c, i)
  BY <1>1, LobbyPrograms DEF Link, LinksSafe, ConnTypes, Peers
<1>3. Waits(c, i)
  BY <1>2 DEF WaitsOK
<1>4. HasAnswer(mail[c]) => HasAnswer(mail'[c])
  BY DEF MailGrows, HasAnswer, Peers
<1>5. Reached(mail', i) => HasAnswer(mail'[c])
  BY <1>2 DEF Reached
<1> QED
  BY <1>2, <1>3, <1>4, <1>5 DEF Waits

\* The connections stay, or those of which a client has gone are forgotten.
LEMMA KeptWaits ==
  ASSUME LinksSafe, PlainOK, WaitsOK, UNCHANGED client, MailGrows(mail'),
         \A c \in Clients, i \in Conns : Link(c, i)' =>
           /\ inbox'[i] = inbox[i]
           /\ Link(c, i) \/ client[c].state = "CONNECTING",
         \A i \in Conns :
           /\ HasRoom(lobby, i) => HasRoom(lobby', i) \/ Reached(mail', i)
           /\ InLine(lobby, i) => InLine(lobby', i) \/ Reached(mail', i)
  PROVE  WaitsOK'
<1> SUFFICES ASSUME NEW c \in Clients, NEW i \in Conns, Link(c, i)'
             PROVE  Waits(c, i)'
  BY DEF WaitsOK
<1>1. CASE client[c].state = "CONNECTING"
  BY <1>1 DEF Waits
<1>2. CASE Link(c, i)
  <2>1. Waits(c, i) /\ inbox'[i] = inbox[i]
    BY <1>2 DEF WaitsOK
  <2>2. HasAnswer(mail[c]) => HasAnswer(mail'[c])
    BY DEF MailGrows, HasAnswer, Peers
  <2>3. Reached(mail', i) => HasAnswer(mail'[c])
    BY <1>2 DEF Reached
  <2> QED
    BY <2>1, <2>2, <2>3 DEF Waits
<1> QED
  BY <1>1, <1>2

\* A program does something on its connection: the others wait as before.
LEMMA ActsWaits ==
  ASSUME LinksSafe, WaitsOK, NEW p \in Peers, NEW i \in Conns, Link(p, i),
         UNCHANGED <<peer, lobby>>,
         \A j \in Conns : j # i => inbox'[j] = inbox[j] /\ gone'[j] = gone[j],
         \A c \in Clients : c # p => client'[c] = client[c] /\ mail'[c] = mail[c],
         p \in Clients /\ Link(p, i)' => Waits(p, i)'
  PROVE  WaitsOK'
<1> SUFFICES ASSUME NEW c \in Clients, NEW j \in Conns, Link(c, j)', ~(c = p /\ j = i)
             PROVE  Waits(c, j)'
  BY DEF WaitsOK
<1>1. j # i
  BY DEF Link
<1>2. Link(c, j) /\ inbox'[j] = inbox[j]
  BY <1>1 DEF Link
<1>3. c # p
  BY <1>1, <1>2, OneLink
<1> QED
  BY <1>2, <1>3 DEF WaitsOK, Waits

\* The servers stay where they are, and what waits waits for one of them.
LEMMA ServersKept ==
  ASSUME LinksSafe, ServersStay,
         \A i \in Conns : peer[i] \in Servers => peer'[i] = peer[i],
         \A i \in Conns : peer'[i] \in Servers => ~gone'[i],
         \A g \in Registered(lobby)' :
           \/ /\ g \in Registered(lobby)
              /\ lobby'.servers[g].conn_id = lobby.servers[g].conn_id
           \/ peer'[lobby'.servers[g].conn_id] = g,
         \A p \in lobby'.pending :
           p \in lobby.pending \/ (p.server \in Conns /\ peer[p.server] \in Servers),
         \A m \in lobby'.matches :
           m \in lobby.matches \/ (m.server \in Conns /\ peer[m.server] \in Servers)
  PROVE  ServersStay'
<1>1. \A g \in Registered(lobby) : g \in Servers /\ lobby.servers[g].conn_id \in Conns
  BY DEF LinksSafe, ConnTypes, Registered, RegisteredServer
<1>2. \A g \in Registered(lobby)' : peer'[lobby'.servers[g].conn_id] = g
  BY <1>1 DEF ServersStay
<1>3. \A p \in lobby'.pending : p.server \in Conns /\ peer'[p.server] \in Servers
  BY DEF ServersStay
<1>4. \A m \in lobby'.matches : m.server \in Conns /\ peer'[m.server] \in Servers
  BY DEF ServersStay
<1> QED
  BY <1>2, <1>3, <1>4 DEF ServersStay

\* What is known of a code after a step: a drawn one may be spoken of, a room that is
\* waited for was waited for or has its code from now on.
LEMMA CodesKept ==
  ASSUME CodesOK, Safe(lobby)',
         \A k \in Codes : lobby'.codes[k] = NoRow => lobby.codes[k] = NoRow,
         \A g \in Servers, k \in Codes : hosted'[g][k] # "none" => hosted[g][k] # "none",
         \A p \in Peers, k \in Codes : Names(mail'[p], "SERVER_CREATE_ROOM", k) =>
           Names(mail[p], "SERVER_CREATE_ROOM", k) \/ lobby'.codes[k] # NoRow,
         \A i \in Conns, k \in Codes :
           /\ Names(inbox'[i], "ROOM_CREATED", k) => Names(inbox[i], "ROOM_CREATED", k)
           /\ Names(inbox'[i], "ROOM_DESTROYED", k) => Names(inbox[i], "ROOM_DESTROYED", k),
         \A p \in lobby'.pending : p \in lobby.pending \/ lobby.codes[p.code] = NoRow,
         \A p \in lobby'.pending, i \in Conns :
           /\ Announced(inbox[i], p.code) => Announced(inbox'[i], p.code)
           /\ \A g \in Servers :
                Link(g, i) /\ Names(inbox[i], "ROOM_CREATED", p.code) =>
                  Link(g, i)' /\ Names(inbox'[i], "ROOM_CREATED", p.code)
  PROVE  CodesOK'
<1>1. ASSUME NEW k \in Codes, lobby'.codes[k] = NoRow
      PROVE  Unused(k)'
  <2>1. Unused(k)
    BY <1>1 DEF CodesOK
  <2> QED
    BY <1>1, <2>1 DEF Unused
<1>2. ASSUME NEW p \in lobby'.pending
      PROVE  Opening(p.code)'
  <2>1. p.code \in Codes
    BY DEF Safe, CodesSafe
  <2>2. Opening(p.code)
    <3>1. CASE p \in lobby.pending
      BY <3>1 DEF CodesOK
    <3>2. CASE lobby.codes[p.code] = NoRow
      <4>1. Unused(p.code)
        BY <2>1, <3>2 DEF CodesOK
      <4> QED
        BY <4>1 DEF Unused, Opening, Announced, Names
    <3> QED
      BY <3>1, <3>2
  <2>3. \A g \in Servers : hosted'[g][p.code] # "none" =>
          \E i \in Conns : Link(g, i)' /\ Names(inbox'[i], "ROOM_CREATED", p.code)
    BY <2>1, <2>2 DEF Opening
  <2>4. \A i \in Conns : Announced(inbox'[i], p.code)
    BY <2>2 DEF Opening
  <2> QED
    BY <2>3, <2>4 DEF Opening
<1> QED
  BY <1>1, <1>2 DEF CodesOK

\* A message is handled.
LEMMA HandledCodes ==
  ASSUME LinksSafe, Safe(lobby)', CodesOK, NEW h \in Conns, inbox[h] # << >>,
         inbox' = Consumed(h), UNCHANGED <<peer, gone, hosted>>,
         \A k \in Codes : lobby'.codes[k] = NoRow => lobby.codes[k] = NoRow,
         \A p \in Peers, k \in Codes : Names(mail'[p], "SERVER_CREATE_ROOM", k) =>
           Names(mail[p], "SERVER_CREATE_ROOM", k) \/ lobby'.codes[k] # NoRow,
         \A p \in lobby'.pending : p \in lobby.pending \/ lobby.codes[p.code] = NoRow,
         \A p \in lobby'.pending :
           ~(Head(inbox[h]).type = "ROOM_CREATED" /\ Head(inbox[h]).code = p.code)
  PROVE  CodesOK'
<1> DEFINE f == Head(inbox[h])
           rest == Tail(inbox[h])
<1>1. /\ inbox'[h] = rest
      /\ \A i \in Conns : i # h => inbox'[i] = inbox[i]
  BY DEF Consumed, LinksSafe, ConnTypes
<1>2. /\ \A type, k : Names(inbox[h], type, k) <=>
                        (f.type = type /\ f.code = k) \/ Names(rest, type, k)
      /\ \A k : Announced(inbox[h], k) /\ ~(f.type = "ROOM_CREATED" /\ f.code = k)
                => Announced(rest, k)
  BY InboxSeq, TakenFrame
<1>3. \A p \in lobby'.pending : ~(f.type = "ROOM_CREATED" /\ f.code = p.code)
  OBVIOUS
<1> HIDE DEF f, rest
<1>4. \A i \in Conns : \A type, k : Names(inbox'[i], type, k) => Names(inbox[i], type, k)
  BY <1>1, <1>2
<1>5. \A p \in lobby'.pending, i \in Conns :
        /\ Announced(inbox[i], p.code) => Announced(inbox'[i], p.code)
        /\ Names(inbox[i], "ROOM_CREATED", p.code) => Names(inbox'[i], "ROOM_CREATED", p.code)
  BY <1>1, <1>2, <1>3
<1>6. \A g, i : Link(g, i)' <=> Link(g, i)
  BY DEF Link
<1> QED
  BY <1>4, <1>5, <1>6, CodesKept

\* A connection is closed of which the lobby expects no room.
LEMMA ClosedCodes ==
  ASSUME LinksSafe, Safe(lobby)', CodesOK, NEW h \in Conns, CloseConn(h),
         peer[h] \notin Servers \/ inbox[h] = << >>, UNCHANGED hosted,
         \A k \in Codes : lobby'.codes[k] = NoRow => lobby.codes[k] = NoRow,
         NoOrders(mail'),
         lobby'.pending \subseteq lobby.pending
  PROVE  CodesOK'
<1>1. /\ inbox' = [inbox EXCEPT ![h] = << >>] /\ peer' = [peer EXCEPT ![h] = NoPeer]
      /\ gone' = [gone EXCEPT ![h] = FALSE]
  BY DEF CloseConn
<1>2. /\ inbox'[h] = << >>
      /\ \A i \in Conns : i # h =>
           inbox'[i] = inbox[i] /\ peer'[i] = peer[i] /\ gone'[i] = gone[i]
  BY <1>1 DEF LinksSafe, ConnTypes
<1>3. \A i \in Conns : \A type, k :
        /\ Names(inbox'[i], type, k) => Names(inbox[i], type, k)
        /\ Announced(inbox[i], k) => Announced(inbox'[i], k)
  BY <1>2, NoFrames
<1>4. ASSUME NEW i \in Conns, NEW k, NEW g \in Servers,
             Link(g, i), Names(inbox[i], "ROOM_CREATED", k)
      PROVE  Link(g, i)' /\ Names(inbox'[i], "ROOM_CREATED", k)
  <2>1. i # h
    BY <1>4, NoFrames DEF Link
  <2> QED
    BY <1>2, <1>4, <2>1 DEF Link
<1> QED
  BY <1>3, <1>4, CodesKept DEF NoOrders

\* The connections of the servers stay, and what they say.
LEMMA QuietCodes ==
  ASSUME LinksSafe, Safe(lobby)', CodesOK, UNCHANGED hosted,
         \A k \in Codes : lobby'.codes[k] = NoRow => lobby.codes[k] = NoRow,
         \A p \in Peers, k \in Codes : Names(mail'[p], "SERVER_CREATE_ROOM", k) =>
           Names(mail[p], "SERVER_CREATE_ROOM", k),
         lobby'.pending \subseteq lobby.pending,
         \A i \in Conns : inbox'[i] = inbox[i] \/ inbox'[i] = << >>,
         \A i \in Conns, g \in Servers :
           Link(g, i) => Link(g, i)' /\ inbox'[i] = inbox[i]
  PROVE  CodesOK'
<1>1. \A i \in Conns : \A type, k :
        /\ Names(inbox'[i], type, k) => Names(inbox[i], type, k)
        /\ Announced(inbox[i], k) => Announced(inbox'[i], k)
  BY NoFrames
<1> QED
  BY <1>1, CodesKept

\* A program says something that is neither of the two.
LEMMA SaidCodes ==
  ASSUME LinksSafe, Safe(lobby)', CodesOK, NEW i \in Conns, NEW f,
         f.type \notin {"ROOM_CREATED", "ROOM_DESTROYED"},
         inbox' \in {inbox, [inbox EXCEPT ![i] = Append(@, f)]},
         UNCHANGED <<peer, lobby>>,
         \A g \in Servers, j \in Conns : Link(g, j) => Link(g, j)',
         \A g \in Servers, k \in Codes : hosted'[g][k] # "none" => hosted[g][k] # "none",
         NoOrders(mail')
  PROVE  CodesOK'
<1> DEFINE more == Append(inbox[i], f)
<1>1. DOMAIN inbox = Conns
  BY DEF LinksSafe, ConnTypes
<1>3. inbox' \in {inbox, [inbox EXCEPT ![i] = more]} /\ more = Append(inbox[i], f)
  BY Zenon
<1> HIDE DEF more
<1>2. Longer(inbox[i], f, more)
  BY <1>3, InboxSeq, AppendedFrame
<1>4. \A j \in Conns : inbox'[j] = inbox[j] \/ (j = i /\ inbox'[j] = more)
  BY <1>1, <1>3
<1>5. \A j \in Conns : \A k :
        /\ Names(inbox'[j], "ROOM_CREATED", k) => Names(inbox[j], "ROOM_CREATED", k)
        /\ Names(inbox[j], "ROOM_CREATED", k) => Names(inbox'[j], "ROOM_CREATED", k)
        /\ Names(inbox'[j], "ROOM_DESTROYED", k) => Names(inbox[j], "ROOM_DESTROYED", k)
        /\ Announced(inbox[j], k) => Announced(inbox'[j], k)
  BY <1>2, <1>4 DEF Longer
<1> QED
  BY <1>5, CodesKept DEF NoOrders

\* Clients do not speak of rooms.
LEMMA ClientCodes ==
  ASSUME LinksSafe, LinksSafe', Safe(lobby)', CodesOK, NEW c \in Clients, NEW i \in Conns,
         Link(c, i), UNCHANGED <<peer, lobby, hosted>>,
         \A j \in Conns : j # i => inbox'[j] = inbox[j] /\ gone'[j] = gone[j],
         NoOrders(mail')
  PROVE  CodesOK'
<1>1. peer[i] = c /\ peer'[i] = c /\ c \notin Servers
  BY LobbyPrograms DEF Link
<1>2. \A n \in DOMAIN inbox'[i] : inbox'[i][n].type \notin ServerFrames
  <2>1. SaidBy(c, inbox'[i])
    BY <1>1 DEF LinksSafe, ConnsOK
  <2> QED
    BY <1>1, <2>1 DEF SaidBy, Range
<1>3. \A k : /\ ~Names(inbox'[i], "ROOM_CREATED", k) /\ ~Names(inbox'[i], "ROOM_DESTROYED", k)
             /\ Announced(inbox'[i], k)
  BY <1>2 DEF Names, Announced, ServerFrames
<1>4. \A g \in Servers, j \in Conns : Link(g, j) => j # i /\ Link(g, j)'
  BY <1>1 DEF Link
<1>5. \A j \in Conns : \A k :
        /\ Names(inbox'[j], "ROOM_CREATED", k) => Names(inbox[j], "ROOM_CREATED", k)
        /\ Names(inbox'[j], "ROOM_DESTROYED", k) => Names(inbox[j], "ROOM_DESTROYED", k)
        /\ Announced(inbox[j], k) => Announced(inbox'[j], k)
  BY <1>3
<1> QED
  BY <1>4, <1>5, CodesKept DEF NoOrders

-----------------------------------------------------------------------------
(* The programs.                                                             *)

\* What a program may do to its mail: forget it or read the first letter.
MailRead(p) ==
  \/ mail' = mail
  \/ mail' = [mail EXCEPT ![p] = << >>]
  \/ mail[p] # << >> /\ mail' = [mail EXCEPT ![p] = Tail(@)]

LEMMA ReadMail ==
  ASSUME PlainOK, NEW p \in Peers, MailRead(p)
  PROVE  /\ DOMAIN mail' = Peers
         /\ \A q \in Peers : IsSeq(mail'[q])
         /\ \A q \in Peers : q # p => mail'[q] = mail[q]
         /\ NoOrders(mail')
<1>1. DOMAIN mail = Peers /\ \A q \in Peers : IsSeq(mail[q])
  BY DEF PlainOK
<1>2. CASE mail' = mail
  BY <1>1, <1>2 DEF NoOrders
<1>3. CASE mail' = [mail EXCEPT ![p] = << >>]
  BY <1>1, <1>3, NoFrames DEF NoOrders
<1>4. CASE mail[p] # << >> /\ mail' = [mail EXCEPT ![p] = Tail(@)]
  <2> DEFINE rest == Tail(mail[p])
  <2>1. /\ IsSeq(rest)
        /\ \A type, k : Names(mail[p], type, k) <=>
             (Head(mail[p]).type = type /\ Head(mail[p]).code = k) \/ Names(rest, type, k)
    BY <1>1, <1>4, TakenFrame
  <2>2. mail' = [mail EXCEPT ![p] = rest]
    BY <1>4
  <2> HIDE DEF rest
  <2> QED
    BY <1>1, <2>1, <2>2 DEF NoOrders
<1> QED
  BY <1>2, <1>3, <1>4 DEF MailRead

LEMMA PlainKept ==
  ASSUME PlainOK, NEW p \in Peers, MailRead(p),
         UNCHANGED spent \/ \E b \in DOMAIN Limit : Spend(b),
         client' \in [Clients -> ClientState],
         hosted' \in [Servers -> [Codes -> RoomOnServer]],
         UNCHANGED peer,
         \A i \in Conns : gone'[i] => gone[i] \/ peer[i] # NoPeer,
         \A c \in Clients : Knocking(c)' => client'[c].state = "CONNECTING"
  PROVE  PlainOK'
<1>1. spent' \in [DOMAIN Limit -> Nat]
  BY Spending
<1>2. DOMAIN mail' = Peers /\ \A q \in Peers : IsSeq(mail'[q])
  BY ReadMail
<1>3. \A i \in Conns : gone'[i] => peer'[i] # NoPeer
  BY DEF PlainOK
<1> QED
  BY <1>1, <1>2, <1>3 DEF PlainOK

\* A client that does something on its connection.
ClientActs(c, i) ==
  /\ Link(c, i)
  /\ UNCHANGED <<peer, lobby, backlog, hosted>>
  /\ \A j \in Conns : j # i => inbox'[j] = inbox[j] /\ gone'[j] = gone[j]
  /\ MailRead(c)
  /\ client' \in [Clients -> ClientState]
  /\ \A d \in Clients : d # c => client'[d] = client[d]
  /\ UNCHANGED spent \/ \E b \in DOMAIN Limit : Spend(b)

LEMMA ActingPlain ==
  ASSUME LinksSafe, PlainOK, NEW c \in Clients, NEW i \in Conns, ClientActs(c, i)
  PROVE  PlainOK'
<1>1. c \in Peers /\ Linked(c) /\ peer[i] # NoPeer
  BY LobbyPrograms DEF Peers, Linked, ClientActs, Link
<1>2. \A d \in Clients : Knocking(d)' => client'[d].state = "CONNECTING"
  <2>1. \A d \in Clients : Knocking(d)' => Knocking(d) /\ d # c
    BY <1>1 DEF ClientActs, Knocking, LinksSafe, LinksOK, Peers
  <2> QED
    BY <2>1 DEF ClientActs, PlainOK
<1>3. \A j \in Conns : gone'[j] => gone[j] \/ peer[j] # NoPeer
  BY <1>1 DEF ClientActs
<1> QED
  BY <1>1, <1>2, <1>3, PlainKept DEF ClientActs, PlainOK

LEMMA ActingTended ==
  ASSUME LinksSafe, LinksSafe', Safe(lobby)', PlainOK, Tended,
         NEW c \in Clients, NEW i \in Conns, ClientActs(c, i),
         Link(c, i)' => Waits(c, i)'
  PROVE  Tended'
<1>1. c \in Peers /\ peer[i] = c /\ c \notin Servers
  BY LobbyPrograms DEF Peers, ClientActs, Link
<1>2. \A q \in Peers : q # c => mail'[q] = mail[q]
  BY <1>1, ReadMail DEF ClientActs
<1>3. WaitsOK'
  BY <1>1, <1>2, ActsWaits DEF ClientActs, Tended, Peers
<1>4. CodesOK'
  BY <1>1, ReadMail, ClientCodes DEF ClientActs, Tended
<1>5. ServersStay'
  <2>1. \A j \in Conns : peer'[j] \in Servers => ~gone'[j]
    BY <1>1 DEF ClientActs, Tended, ServersStay
  <2>2. /\ peer' = peer /\ lobby' = lobby
        /\ Registered(lobby)' = Registered(lobby)
    BY DEF ClientActs, Registered
  <2> QED
    BY <2>1, <2>2, ServersKept DEF Tended
<1> QED
  BY <1>3, <1>4, <1>5 DEF Tended

\* What each action of a client does of this.
LEMMA HelloActs ==
  ASSUME LinksSafe, PlainOK, NEW c \in Clients, NEW i \in Conns, ClientHello(c, i)
  PROVE  ClientActs(c, i) /\ Waits(c, i)'
<1>1. client' = [client EXCEPT ![c] = [state |-> "LOGGING_IN", subphase |-> "MENU"]]
  BY DEF ClientHello, Become
<1>2. [state |-> "LOGGING_IN", subphase |-> "MENU"] \in ClientState
  BY DEF ClientState
<1>3. client'[c].state = "LOGGING_IN"
  BY <1>1 DEF PlainOK
<1>4. \A j \in Conns : j # i => inbox'[j] = inbox[j]
  BY DEF ClientHello, Says, LinksSafe, ConnTypes
<1>5. /\ Link(c, i) /\ mail' = mail
      /\ UNCHANGED <<peer, lobby, backlog, hosted, gone, spent>>
  BY DEF ClientHello, CanSay
<1> QED
  BY <1>1, <1>2, <1>3, <1>4, <1>5 DEF ClientActs, MailRead, PlainOK, Waits

LEMMA AsksActs ==
  ASSUME LinksSafe, PlainOK, NEW c \in Clients, NEW i \in Conns, ClientAsks(c, i)
  PROVE  ClientActs(c, i) /\ Waits(c, i)'
<1>1. PICK m, state :
        /\ inbox' = [inbox EXCEPT ![i] = @ \o << m >>]
        /\ client' = [client EXCEPT ![c] = [state |-> state, subphase |-> state]]
        /\ \/ m.type = "CREATE_ROOM" /\ state = "CREATING_ROOM"
           \/ m.type = "QUEUE" /\ state = "QUEUED"
           \/ m.type = "JOIN_ROOM" /\ state = "JOINING_ROOM"
  <2>1. /\ [type |-> "CREATE_ROOM"].type = "CREATE_ROOM"
        /\ [type |-> "QUEUE"].type = "QUEUE"
        /\ \A k : [type |-> "JOIN_ROOM", code |-> k].type = "JOIN_ROOM"
    OBVIOUS
  <2>2. \/ /\ inbox' = [inbox EXCEPT ![i] = @ \o << [type |-> "CREATE_ROOM"] >>]
           /\ client' = [client EXCEPT ![c] = [state |-> "CREATING_ROOM", subphase |-> "CREATING_ROOM"]]
        \/ /\ inbox' = [inbox EXCEPT ![i] = @ \o << [type |-> "QUEUE"] >>]
           /\ client' = [client EXCEPT ![c] = [state |-> "QUEUED", subphase |-> "QUEUED"]]
        \/ \E k \in Codes :
             /\ inbox' = [inbox EXCEPT ![i] = @ \o << [type |-> "JOIN_ROOM", code |-> k] >>]
             /\ client' = [client EXCEPT ![c] = [state |-> "JOINING_ROOM", subphase |-> "JOINING_ROOM"]]
    BY Zenon DEF ClientAsks, Says, Become
  <2> QED
    BY <2>1, <2>2, Zenon
<1> DEFINE more == Append(inbox[i], m)
<1>2. inbox' = [inbox EXCEPT ![i] = more] /\ DOMAIN inbox = Conns /\ Longer(inbox[i], m, more)
  <2>1. inbox[i] \o << m >> = more
    BY InboxSeq, Appending
  <2>2. Longer(inbox[i], m, more)
    BY InboxSeq, AppendedFrame
  <2> QED
    BY <1>1, <2>1, <2>2 DEF LinksSafe, ConnTypes
<1> HIDE DEF more
<1>3. inbox'[i] = more /\ \A j \in Conns : j # i => inbox'[j] = inbox[j]
  BY <1>2
<1>4. [state |-> state, subphase |-> state] \in ClientState
  BY <1>1 DEF ClientState, Asking
<1>5. /\ client'[c].state = state
      /\ client' \in [Clients -> ClientState]
      /\ \A d \in Clients : d # c => client'[d] = client[d]
  BY <1>1, <1>4 DEF PlainOK
<1>6. Waits(c, i)'
  BY <1>1, <1>2, <1>3, <1>5 DEF Waits, Longer
<1>7. /\ Link(c, i) /\ mail' = mail /\ Spend("requests") /\ "requests" \in DOMAIN Limit
      /\ UNCHANGED <<peer, lobby, backlog, hosted, gone>>
  BY DEF ClientAsks, CanSay, Limit
<1> QED
  BY <1>3, <1>5, <1>6, <1>7 DEF ClientActs, MailRead

LEMMA BackActs ==
  ASSUME LinksSafe, PlainOK, NEW c \in Clients, NEW i \in Conns, ClientBack(c, i)
  PROVE  ClientActs(c, i) /\ (Waits(c, i) => Waits(c, i)')
<1> DEFINE cancels == client[c].state = client[c].subphase
           state == IF cancels THEN "AUTHENTICATED" ELSE client[c].state
<1>1. /\ client' = [client EXCEPT ![c] = [state |-> state, subphase |-> "MENU"]]
      /\ inbox' = [inbox EXCEPT ![i] = @ \o (IF cancels /\ client[c].state = "QUEUED"
                                             THEN << [type |-> "QUEUE_CANCEL"] >> ELSE << >>)]
  BY DEF ClientBack, Says, Become
<1>2. DOMAIN inbox = Conns /\ inbox[i] \o << >> = inbox[i]
  BY InboxSeq DEF IsSeq, LinksSafe, ConnTypes
<1>3. \A j \in Conns : j # i => inbox'[j] = inbox[j]
  BY <1>1, <1>2
<1>4. ~cancels => inbox'[i] = inbox[i]
  BY <1>1, <1>2
<1>5. [state |-> state, subphase |-> "MENU"] \in ClientState
  BY DEF ClientState, PlainOK
<1>6. /\ client'[c].state = state
      /\ client' \in [Clients -> ClientState]
      /\ \A d \in Clients : d # c => client'[d] = client[d]
  BY <1>1, <1>5 DEF PlainOK
<1>7. /\ Link(c, i) /\ mail' = mail
      /\ UNCHANGED <<peer, lobby, backlog, hosted, gone, spent>>
  BY DEF ClientBack, CanSay
<1>8. Waits(c, i) => Waits(c, i)'
  <2>1. CASE cancels
    BY <1>6, <2>1 DEF Waits
  <2>2. CASE ~cancels
    BY <1>4, <1>6, <1>7, <2>2 DEF Waits
  <2> QED
    BY <2>1, <2>2
<1> HIDE DEF state, cancels
<1> QED
  BY <1>3, <1>6, <1>7, <1>8 DEF ClientActs, MailRead

LEMMA ReadActs ==
  ASSUME LinksSafe, PlainOK, NEW c \in Clients, NEW i \in Conns, ClientRead(c, i)
  PROVE  ClientActs(c, i) /\ (Waits(c, i) => Waits(c, i)')
<1> c \in Peers
  BY DEF Peers
<1> DEFINE m == Head(mail[c])
           cl == client[c]
<1>1. /\ Link(c, i) /\ mail[c] # << >> /\ mail' = [mail EXCEPT ![c] = Tail(@)]
      /\ inbox' = IF m.type = "LOGIN_CHALLENGE" /\ cl.state = "LOGGING_IN"
                  THEN [inbox EXCEPT ![i] = Append(@, [type |-> "LOGIN_RESPONSE"])] ELSE inbox
      /\ client' = [client EXCEPT ![c] =
           CASE m.type = "LOGIN_CHALLENGE" /\ cl.state = "LOGGING_IN" ->
                  [cl EXCEPT !.state = "CHALLENGED"]
             [] m.type = "LOGIN_ACK" /\ cl.state = "CHALLENGED" ->
                  [cl EXCEPT !.state = "AUTHENTICATED"]
             [] m.type = "ROOM_ASSIGNED" ->
                  [state |-> "AUTHENTICATED",
                   subphase |-> IF cl.subphase = "MENU" THEN "MENU" ELSE "MATCH_FOUND"]
             [] m.type = "ERROR" /\ cl.state \in Asking ->
                  [state |-> "AUTHENTICATED", subphase |-> "MENU"]
             [] m.type = "ERROR" /\ cl.state \notin Asking -> [cl EXCEPT !.state = "ERROR"]
             [] OTHER -> cl]
      /\ UNCHANGED <<peer, gone, lobby, backlog, hosted, spent>>
  BY DEF ClientRead
<1>2. cl \in ClientState
  BY DEF PlainOK
<1> HIDE DEF m, cl
<1>3. PICK next \in ClientState :
        /\ client' = [client EXCEPT ![c] = next]
        /\ next.state \in {"CREATING_ROOM", "QUEUED"} =>
             next = cl /\ m.type \notin {"ERROR", "ROOM_ASSIGNED"}
  <2>1. CASE m.type = "LOGIN_CHALLENGE" /\ cl.state = "LOGGING_IN"
    <3>1. client' = [client EXCEPT ![c] = [cl EXCEPT !.state = "CHALLENGED"]]
      BY <1>1, <2>1
    <3>2. [cl EXCEPT !.state = "CHALLENGED"] \in ClientState
      BY <1>2 DEF ClientState
    <3>3. [cl EXCEPT !.state = "CHALLENGED"].state = "CHALLENGED"
      BY <1>2 DEF ClientState
    <3> QED
      BY <3>1, <3>2, <3>3
  <2>2. CASE m.type = "LOGIN_ACK" /\ cl.state = "CHALLENGED"
    <3>1. client' = [client EXCEPT ![c] = [cl EXCEPT !.state = "AUTHENTICATED"]]
      BY <1>1, <2>2
    <3>2. [cl EXCEPT !.state = "AUTHENTICATED"] \in ClientState
      BY <1>2 DEF ClientState
    <3>3. [cl EXCEPT !.state = "AUTHENTICATED"].state = "AUTHENTICATED"
      BY <1>2 DEF ClientState
    <3> QED
      BY <3>1, <3>2, <3>3
  <2>3. CASE m.type = "ROOM_ASSIGNED"
    <3> DEFINE x == [state |-> "AUTHENTICATED",
                     subphase |-> IF cl.subphase = "MENU" THEN "MENU" ELSE "MATCH_FOUND"]
    <3>1. client' = [client EXCEPT ![c] = x]
      BY <1>1, <2>3
    <3>2. x \in ClientState /\ x.state = "AUTHENTICATED"
      BY DEF ClientState
    <3> QED
      BY <3>1, <3>2
  <2>4. CASE m.type = "ERROR" /\ cl.state \in Asking
    <3>1. client' = [client EXCEPT ![c] = [state |-> "AUTHENTICATED", subphase |-> "MENU"]]
      BY <1>1, <2>4
    <3>2. [state |-> "AUTHENTICATED", subphase |-> "MENU"] \in ClientState
      BY DEF ClientState
    <3> QED
      BY <3>1, <3>2
  <2>5. CASE m.type = "ERROR" /\ cl.state \notin Asking
    <3>1. client' = [client EXCEPT ![c] = [cl EXCEPT !.state = "ERROR"]]
      BY <1>1, <2>5
    <3>2. [cl EXCEPT !.state = "ERROR"] \in ClientState
      BY <1>2 DEF ClientState
    <3>3. [cl EXCEPT !.state = "ERROR"].state = "ERROR"
      BY <1>2 DEF ClientState
    <3> QED
      BY <3>1, <3>2, <3>3
  <2>6. CASE /\ ~(m.type = "LOGIN_CHALLENGE" /\ cl.state = "LOGGING_IN")
             /\ ~(m.type = "LOGIN_ACK" /\ cl.state = "CHALLENGED")
             /\ m.type \notin {"ERROR", "ROOM_ASSIGNED"}
    <3>1. client' = [client EXCEPT ![c] = cl]
      BY <1>1, <2>6
    <3> QED
      BY <1>2, <2>6, <3>1
  <2> QED
    BY <2>1, <2>2, <2>3, <2>4, <2>5, <2>6
<1>4. /\ client'[c] = next
      /\ client' \in [Clients -> ClientState]
      /\ \A d \in Clients : d # c => client'[d] = client[d]
  BY <1>3 DEF PlainOK
<1>5. \A j \in Conns : j # i => inbox'[j] = inbox[j]
  BY <1>1 DEF LinksSafe, ConnTypes
<1>6. MailRead(c)
  BY <1>1 DEF MailRead
<1>7. Waits(c, i) => Waits(c, i)'
  <2> SUFFICES ASSUME Waits(c, i), next.state \in {"CREATING_ROOM", "QUEUED"}
               PROVE  Waits(c, i)'
    BY <1>4 DEF Waits
  <2>1. next = cl /\ m.type \notin {"ERROR", "ROOM_ASSIGNED"} /\ client'[c] = client[c]
    BY <1>3, <1>4 DEF cl
  <2>2. inbox' = inbox
    BY <1>1, <2>1
  <2> DEFINE rest == Tail(mail[c])
  <2>3. \A type : Has(mail[c], type) <=> m.type = type \/ Has(rest, type)
    BY <1>1, TakenFrame DEF m, PlainOK
  <2>4. mail'[c] = rest
    BY <1>1 DEF PlainOK
  <2> HIDE DEF rest
  <2>5. HasAnswer(mail[c]) => HasAnswer(mail'[c])
    BY <2>1, <2>3, <2>4 DEF HasAnswer
  <2> QED
    BY <1>1, <2>1, <2>2, <2>5 DEF Waits
<1> QED
  BY <1>1, <1>4, <1>5, <1>6, <1>7 DEF ClientActs

LEMMA EndsActs ==
  ASSUME LinksSafe, PlainOK, NEW c \in Clients, NEW i \in Conns, ClientEnds(c, i)
  PROVE  ClientActs(c, i) /\ ~Link(c, i)'
<1>1. client' = [client EXCEPT ![c] = [state |-> "DISCONNECTED", subphase |-> "MENU"]]
  BY DEF ClientEnds, Become
<1>2. [state |-> "DISCONNECTED", subphase |-> "MENU"] \in ClientState
  BY DEF ClientState
<1>3. \A j \in Conns : j # i => inbox'[j] = inbox[j] /\ gone'[j] = gone[j]
  BY DEF ClientEnds, LinksSafe, ConnTypes
<1>4. gone'[i]
  BY DEF ClientEnds, LinksSafe, ConnTypes
<1>5. /\ Link(c, i) /\ mail' = [mail EXCEPT ![c] = << >>]
      /\ UNCHANGED <<peer, lobby, backlog, hosted>>
      /\ Spend("client_drops") /\ "client_drops" \in DOMAIN Limit
  BY DEF ClientEnds, Limit
<1> QED
  BY <1>1, <1>2, <1>3, <1>4, <1>5 DEF ClientActs, MailRead, PlainOK, Link

\* A program without a connection, or a server that says nothing.
LEMMA AwayTended ==
  ASSUME LinksSafe, Safe(lobby)', PlainOK, Tended, NEW p \in Peers,
         p \in Clients => ~Linked(p),
         UNCHANGED <<inbox, peer, gone, lobby>>, MailRead(p),
         \A c \in Clients : c # p => client'[c] = client[c],
         \A g \in Servers, k \in Codes : hosted'[g][k] # "none" => hosted[g][k] # "none"
  PROVE  Tended'
<1>1. /\ \A q \in Peers : q # p => mail'[q] = mail[q]
      /\ NoOrders(mail')
  BY ReadMail
<1>2. \A q, i : Link(q, i)' <=> Link(q, i)
  BY DEF Link
<1>3. WaitsOK'
  <2> SUFFICES ASSUME NEW c \in Clients, NEW i \in Conns, Link(c, i)'
               PROVE  Waits(c, i)'
    BY DEF WaitsOK
  <2>1. Link(c, i) /\ c # p /\ c \in Peers
    BY <1>2 DEF Linked, Peers
  <2>2. Waits(c, i)
    BY <2>1 DEF Tended, WaitsOK
  <2> QED
    BY <1>1, <2>1, <2>2 DEF Waits
<1>4. CodesOK'
  BY <1>1, <1>2, CodesKept DEF Tended, NoOrders
<1>5. ServersStay'
  BY ServersKept DEF Tended, ServersStay, Registered
<1> QED
  BY <1>3, <1>4, <1>5 DEF Tended

\* A client's step.
LEMMA ClientWaits ==
  ASSUME LinksSafe, LinksSafe', Safe(lobby)', WaitsSafe, NEW c \in Clients, ClientStep(c)
  PROVE  WaitsSafe'
<1> c \in Peers /\ PlainOK
  BY DEF Peers, WaitsSafe
<1>1. ASSUME NEW i \in Conns, ClientActs(c, i),
             Waits(c, i) => (Link(c, i)' => Waits(c, i)')
      PROVE  WaitsSafe'
  <2>1. PlainOK'
    BY <1>1, ActingPlain
  <2>2. ASSUME Sheltered'
        PROVE  Tended'
    <3>1. Tended
      BY <1>1, <2>2, Spending DEF ClientActs, WaitsSafe
    <3>2. Waits(c, i)
      BY <1>1, <3>1 DEF ClientActs, Tended, WaitsOK
    <3> QED
      BY <1>1, <3>1, <3>2, ActingTended
  <2> QED
    BY <2>1, <2>2 DEF WaitsSafe
<1>2. ASSUME NEW i \in Conns, ClientHello(c, i)
      PROVE  WaitsSafe'
  BY <1>1, <1>2, HelloActs
<1>3. ASSUME NEW i \in Conns, ClientAsks(c, i)
      PROVE  WaitsSafe'
  BY <1>1, <1>3, AsksActs
<1>4. ASSUME NEW i \in Conns, ClientBack(c, i)
      PROVE  WaitsSafe'
  BY <1>1, <1>4, BackActs
<1>5. ASSUME NEW i \in Conns, ClientRead(c, i)
      PROVE  WaitsSafe'
  BY <1>1, <1>5, ReadActs
<1>6. ASSUME NEW i \in Conns, ClientEnds(c, i)
      PROVE  WaitsSafe'
  BY <1>1, <1>6, EndsActs
<1>7. CASE ClientConnect(c)
  <2>1. /\ ~Linked(c) /\ backlog' = Append(backlog, c) /\ MailRead(c)
        /\ client' = [client EXCEPT ![c] = [state |-> "CONNECTING", subphase |-> "MENU"]]
        /\ UNCHANGED <<inbox, peer, gone, lobby, hosted, spent>>
    BY <1>7 DEF ClientConnect, Connect, Become, MailRead, connVars
  <2>2. [state |-> "CONNECTING", subphase |-> "MENU"] \in ClientState
    BY DEF ClientState
  <2>3. \A d \in Clients : Knocking(d)' => d = c \/ Knocking(d)
    <3>1. backlog \in Seq(Peers)
      BY DEF LinksSafe, ConnTypes
    <3>2. \A n \in DOMAIN backlog' : \/ n \in DOMAIN backlog /\ backlog'[n] = backlog[n]
                                     \/ backlog'[n] = c
      BY <2>1, <3>1
    <3> QED
      BY <3>2 DEF Knocking
  <2>4. /\ client' \in [Clients -> ClientState] /\ client'[c].state = "CONNECTING"
        /\ \A d \in Clients : d # c => client'[d] = client[d]
    BY <2>1, <2>2 DEF PlainOK
  <2>5. \A d \in Clients : Knocking(d)' => client'[d].state = "CONNECTING"
    BY <2>3, <2>4 DEF PlainOK
  <2>6. PlainOK'
    BY <2>1, <2>4, <2>5, PlainKept DEF PlainOK
  <2>7. Sheltered' => Tended'
    BY <2>1, <2>4, AwayTended DEF Sheltered, WaitsSafe
  <2> QED
    BY <2>6, <2>7 DEF WaitsSafe
<1>8. CASE ClientLost(c)
  <2>1. /\ ~Linked(c) /\ ~Knocking(c) /\ MailRead(c)
        /\ client' = [client EXCEPT ![c] = [state |-> "DISCONNECTED", subphase |-> "MENU"]]
        /\ UNCHANGED <<inbox, peer, gone, lobby, backlog, hosted, spent>>
    BY <1>8 DEF ClientLost, Become, MailRead, lobbyVars, connVars
  <2>2. [state |-> "DISCONNECTED", subphase |-> "MENU"] \in ClientState
    BY DEF ClientState
  <2>4. /\ client' \in [Clients -> ClientState]
        /\ \A d \in Clients : d # c => client'[d] = client[d]
    BY <2>1, <2>2 DEF PlainOK
  <2>5. \A d \in Clients : Knocking(d)' => client'[d].state = "CONNECTING"
    BY <2>1, <2>4 DEF PlainOK, Knocking
  <2>6. PlainOK'
    BY <2>1, <2>4, <2>5, PlainKept DEF PlainOK
  <2>7. Sheltered' => Tended'
    BY <2>1, <2>4, AwayTended DEF Sheltered, WaitsSafe
  <2> QED
    BY <2>6, <2>7 DEF WaitsSafe
<1> QED
  BY <1>2, <1>3, <1>4, <1>5, <1>6, <1>7, <1>8 DEF ClientStep

\* A server says something on its connection.
LEMMA ServerSays ==
  ASSUME LinksSafe, PlainOK, Tended, NEW g \in Servers, NEW i \in Conns, Link(g, i),
         \A j \in Conns : j # i => inbox'[j] = inbox[j],
         UNCHANGED <<peer, gone, lobby, client>>, MailRead(g), CodesOK'
  PROVE  Tended'
<1>1. g \in Peers /\ g \notin Clients
  BY LobbyPrograms DEF Peers
<1>2. \A q \in Peers : q # g => mail'[q] = mail[q]
  BY <1>1, ReadMail
<1>3. WaitsOK'
  BY <1>1, <1>2, ActsWaits DEF Tended, Peers
<1>4. ServersStay'
  BY ServersKept DEF Tended, ServersStay, Registered
<1> QED
  BY <1>3, <1>4 DEF Tended

\* The frame a server says.
LEMMA SaidFrame ==
  ASSUME LinksSafe, NEW i \in Conns, NEW f, Says(i, << f >>)
  PROVE  /\ inbox' = [inbox EXCEPT ![i] = Append(@, f)]
         /\ Longer(inbox[i], f, inbox'[i])
         /\ \A j \in Conns : j # i => inbox'[j] = inbox[j]
<1> DEFINE more == Append(inbox[i], f)
<1>1. inbox[i] \o << f >> = more /\ Longer(inbox[i], f, more)
  BY InboxSeq, Appending, AppendedFrame
<1>2. DOMAIN inbox = Conns
  BY DEF LinksSafe, ConnTypes
<1>3. inbox' = [inbox EXCEPT ![i] = more]
  BY <1>1 DEF Says
<1> HIDE DEF more
<1>4. inbox'[i] = more /\ \A j \in Conns : j # i => inbox'[j] = inbox[j]
  BY <1>2, <1>3
<1> QED
  BY <1>1, <1>3, <1>4, Zenon DEF more

\* A room is created: it is announced at once.
LEMMA CreatedCodes ==
  ASSUME LinksSafe, PlainOK, Safe(lobby), CodesOK, NEW g \in Servers, NEW i \in Conns,
         ServerCreateRoom(g, i)
  PROVE  CodesOK'
<1> DEFINE k == Head(mail[g]).code
           rest == Tail(mail[g])
<1>1. PICK made \in BOOLEAN :
        /\ hosted' = IF made THEN [hosted EXCEPT ![g][k] = "waiting"] ELSE hosted
        /\ Says(i, << [type |-> IF made THEN "ROOM_CREATED" ELSE "ROOM_REFUSED", code |-> k] >>)
  BY DEF ServerCreateRoom
<1>2. /\ Link(g, i) /\ mail[g] # << >> /\ Head(mail[g]).type = "SERVER_CREATE_ROOM"
      /\ mail' = [mail EXCEPT ![g] = rest]
      /\ peer' = peer /\ gone' = gone /\ lobby' = lobby
  BY DEF ServerCreateRoom
<1>3. g \in Peers
  BY DEF Peers
<1>4. \A type, c : Names(mail[g], type, c) <=>
        (Head(mail[g]).type = type /\ Head(mail[g]).code = c) \/ Names(rest, type, c)
  BY <1>2, <1>3, TakenFrame DEF PlainOK
<1> DEFINE f == [type |-> IF made THEN "ROOM_CREATED" ELSE "ROOM_REFUSED", code |-> k]
<1>5. /\ f.code = k /\ f.type # "ROOM_DESTROYED"
      /\ f.type = "ROOM_CREATED" <=> made
  OBVIOUS
<1>6. /\ Longer(inbox[i], f, inbox'[i])
      /\ \A j \in Conns : j # i => inbox'[j] = inbox[j]
  BY <1>1, SaidFrame
<1>7. Names(mail[g], "SERVER_CREATE_ROOM", k)
  BY <1>2, <1>4
<1> HIDE DEF f, k, rest
<1>8. \A h \in Servers, c \in Codes :
        hosted'[h][c] # "none" => hosted[h][c] # "none" \/ (made /\ h = g /\ c = k)
  BY <1>1 DEF PlainOK
<1>9. \A p \in Peers : \A c : Names(mail'[p], "SERVER_CREATE_ROOM", c) =>
                            Names(mail[p], "SERVER_CREATE_ROOM", c)
  BY <1>2, <1>3, <1>4 DEF PlainOK
<1>10. \A j \in Conns : \A c :
         /\ Names(inbox[j], "ROOM_CREATED", c) => Names(inbox'[j], "ROOM_CREATED", c)
         /\ Names(inbox'[j], "ROOM_CREATED", c) => Names(inbox[j], "ROOM_CREATED", c) \/ c = k
         /\ Names(inbox'[j], "ROOM_DESTROYED", c) => Names(inbox[j], "ROOM_DESTROYED", c)
         /\ Announced(inbox[j], c) => Announced(inbox'[j], c)
  BY <1>5, <1>6 DEF Longer
<1>11. ASSUME NEW c \in Codes, lobby'.codes[c] = NoRow
       PROVE  Unused(c)'
  <2>1. Unused(c)
    BY <1>2, <1>11 DEF CodesOK
  <2>2. c # k
    BY <1>3, <1>7, <2>1 DEF Unused
  <2> QED
    BY <1>8, <1>9, <1>10, <2>1, <2>2 DEF Unused
<1>12. ASSUME NEW p \in lobby'.pending
       PROVE  Opening(p.code)'
  <2>1. Opening(p.code) /\ p.code \in Codes
    BY <1>2, <1>12 DEF CodesOK, Safe, CodesSafe
  <2>2. \A h, j : Link(h, j)' <=> Link(h, j)
    BY <1>2 DEF Link
  <2>3. made => Names(inbox'[i], "ROOM_CREATED", k)
    BY <1>5, <1>6 DEF Longer
  <2>4. ASSUME NEW h \in Servers, hosted'[h][p.code] # "none"
        PROVE  \E j \in Conns : Link(h, j)' /\ Names(inbox'[j], "ROOM_CREATED", p.code)
    <3>1. CASE hosted[h][p.code] # "none"
      BY <1>10, <2>1, <2>2, <3>1 DEF Opening
    <3>2. CASE made /\ h = g /\ p.code = k
      BY <1>2, <2>2, <2>3, <3>2
    <3> QED
      BY <1>8, <2>1, <2>4, <3>1, <3>2
  <2> QED
    BY <1>10, <2>1, <2>4 DEF Opening
<1> QED
  BY <1>11, <1>12 DEF CodesOK

\* A room is destroyed: if it is still waited for, its creation is told before.
LEMMA DestroyedCodes ==
  ASSUME LinksSafe, PlainOK, Safe(lobby), CodesOK, NEW g \in Servers, NEW i \in Conns,
         NEW k \in Codes, Link(g, i), hosted[g][k] # "none",
         Says(i, << [type |-> "ROOM_DESTROYED", code |-> k] >>),
         \A h \in Servers, c \in Codes : hosted'[h][c] # "none" => hosted[h][c] # "none",
         UNCHANGED <<peer, gone, lobby, mail>>
  PROVE  CodesOK'
<1> DEFINE f == [type |-> "ROOM_DESTROYED", code |-> k]
<1>1. f.code = k /\ f.type = "ROOM_DESTROYED"
  OBVIOUS
<1>2. /\ Longer(inbox[i], f, inbox'[i])
      /\ \A j \in Conns : j # i => inbox'[j] = inbox[j]
  BY SaidFrame
<1> HIDE DEF f
<1>3. \A j \in Conns : \A c :
        /\ Names(inbox[j], "ROOM_CREATED", c) => Names(inbox'[j], "ROOM_CREATED", c)
        /\ Names(inbox'[j], "ROOM_CREATED", c) => Names(inbox[j], "ROOM_CREATED", c)
        /\ Names(inbox'[j], "ROOM_DESTROYED", c) => Names(inbox[j], "ROOM_DESTROYED", c) \/ c = k
  BY <1>1, <1>2 DEF Longer
<1>4. \A j \in Conns : \A c :
        Announced(inbox[j], c) /\ (c # k \/ Names(inbox[i], "ROOM_CREATED", k))
          => Announced(inbox'[j], c)
  BY <1>1, <1>2 DEF Longer
<1>5. ASSUME NEW c \in Codes, lobby'.codes[c] = NoRow
      PROVE  Unused(c)'
  <2>1. Unused(c)
    BY <1>5 DEF CodesOK
  <2>2. c # k
    BY <2>1 DEF Unused
  <2> QED
    BY <1>3, <2>1, <2>2 DEF Unused
<1>6. ASSUME NEW p \in lobby'.pending
      PROVE  Opening(p.code)'
  <2>1. Opening(p.code) /\ p.code \in Codes
    BY <1>6 DEF CodesOK, Safe, CodesSafe
  <2>2. \A h, j : Link(h, j)' <=> Link(h, j)
    BY DEF Link
  <2>3. p.code # k \/ Names(inbox[i], "ROOM_CREATED", k)
    <3> SUFFICES ASSUME p.code = k PROVE Names(inbox[i], "ROOM_CREATED", k)
      OBVIOUS
    <3>1. PICK j \in Conns : Link(g, j) /\ Names(inbox[j], "ROOM_CREATED", k)
      BY <2>1 DEF Opening
    <3> QED
      BY <3>1, OneLink DEF Peers
  <2> QED
    BY <1>3, <1>4, <2>1, <2>2, <2>3 DEF Opening
<1> QED
  BY <1>5, <1>6 DEF CodesOK

\* A server's step.
LEMMA ServerPlain ==
  ASSUME LinksSafe, PlainOK, NEW g \in Servers, ServerStep(g)
  PROVE  PlainOK' /\ (UNCHANGED spent \/ \E b \in DOMAIN Limit : Spend(b))
<1> g \in Peers /\ g \notin Clients /\ NoPeer \notin Peers
  BY LobbyPrograms DEF Peers
<1>0. \A b \in {"server_drops", "room_events"} : b \in DOMAIN Limit
  BY DEF Limit
<1>1. ASSUME UNCHANGED <<client, peer, backlog, spent, hosted, gone>>, MailRead(g)
      PROVE  PlainOK'
  BY <1>1, PlainKept DEF PlainOK, Knocking
<1>2. CASE ServerConnect(g)
  <2>1. /\ backlog' = Append(backlog, g) /\ MailRead(g)
        /\ UNCHANGED <<client, peer, gone, hosted, spent>>
    BY <1>2 DEF ServerConnect, Connect, MailRead, connVars
  <2>2. \A c \in Clients : Knocking(c)' => Knocking(c)
    <3>1. backlog \in Seq(Peers)
      BY DEF LinksSafe, ConnTypes
    <3>2. \A n \in DOMAIN backlog' : \/ n \in DOMAIN backlog /\ backlog'[n] = backlog[n]
                                     \/ backlog'[n] = g
      BY <2>1, <3>1
    <3> QED
      BY <3>2 DEF Knocking
  <2>3. PlainOK'
    BY <2>1, <2>2, PlainKept DEF PlainOK
  <2> QED
    BY <2>1, <2>3
<1>3. CASE ServerSkips(g)
  BY <1>1, <1>3 DEF ServerSkips, MailRead, lobbyVars, connVars
<1>4. ASSUME NEW i \in Conns, NEW type, ServerReports(g, i, type)
      PROVE  PlainOK' /\ UNCHANGED spent
  BY <1>1, <1>4 DEF ServerReports, MailRead
<1>5. ASSUME NEW i \in Conns, ServerCreateRoom(g, i)
      PROVE  PlainOK' /\ UNCHANGED spent
  <2>1. /\ UNCHANGED <<client, peer, backlog, spent, gone>> /\ MailRead(g)
        /\ \E k : hosted' \in {hosted, [hosted EXCEPT ![g][k] = "waiting"]}
    BY <1>5 DEF ServerCreateRoom, MailRead
  <2>2. hosted' \in [Servers -> [Codes -> RoomOnServer]]
    BY <2>1 DEF PlainOK, RoomOnServer
  <2> QED
    BY <2>1, <2>2, PlainKept DEF PlainOK, Knocking
<1>6. ASSUME NEW i \in Conns, ServerEnds(g, i)
      PROVE  PlainOK' /\ Spend("server_drops")
  <2>1. /\ UNCHANGED <<client, peer, backlog>> /\ MailRead(g) /\ Spend("server_drops")
        /\ hosted' \in {hosted, [hosted EXCEPT ![g] = [k \in Codes |-> "none"]]}
        /\ gone' = [gone EXCEPT ![i] = TRUE] /\ peer[i] # NoPeer
    BY <1>6 DEF ServerEnds, MailRead, Link
  <2>2. hosted' \in [Servers -> [Codes -> RoomOnServer]]
    BY <2>1 DEF PlainOK, RoomOnServer
  <2>3. \A j \in Conns : gone'[j] => gone[j] \/ peer[j] # NoPeer
    BY <2>1 DEF LinksSafe, ConnTypes
  <2> QED
    BY <1>0, <2>1, <2>2, <2>3, PlainKept DEF PlainOK, Knocking
<1>7. ASSUME NEW k \in Codes,
             RoomStarts(g, k) \/ RoomFinishes(g, k) \/ RoomEmpties(g, k) \/ RoomCloses(g, k)
      PROVE  PlainOK' /\ Spend("room_events")
  <2>1. /\ UNCHANGED <<client, peer, backlog, gone>> /\ MailRead(g) /\ Spend("room_events")
        /\ \E x \in RoomOnServer : hosted' = [hosted EXCEPT ![g][k] = x]
    BY <1>7 DEF RoomStarts, RoomFinishes, RoomEmpties, RoomCloses, MailRead, RoomOnServer,
         lobbyVars, connVars
  <2>2. hosted' \in [Servers -> [Codes -> RoomOnServer]]
    BY <2>1 DEF PlainOK
  <2> QED
    BY <1>0, <2>1, <2>2, PlainKept DEF PlainOK, Knocking
<1> QED
  BY <1>0, <1>2, <1>3, <1>4, <1>5, <1>6, <1>7
  DEF ServerStep, ServerRegisters, ServerBeats, ServerSkips, ServerConnect, Connect

LEMMA ServerWaits ==
  ASSUME LinksSafe, Safe(lobby), Safe(lobby)', WaitsSafe, NEW g \in Servers, ServerStep(g)
  PROVE  WaitsSafe'
<1> g \in Peers /\ g \notin Clients /\ PlainOK
  BY LobbyPrograms DEF Peers, WaitsSafe
<1>1. PlainOK' /\ (UNCHANGED spent \/ \E b \in DOMAIN Limit : Spend(b))
  BY ServerPlain
<1> SUFFICES ASSUME Sheltered'
             PROVE  Tended'
  BY <1>1 DEF WaitsSafe
<1>2. Tended /\ ~Spend("server_drops")
  BY <1>1, Spending DEF WaitsSafe
<1>3. CASE ServerConnect(g)
  BY <1>2, <1>3, AwayTended DEF ServerConnect, Connect, MailRead, connVars
<1>4. CASE ServerSkips(g)
  BY <1>2, <1>4, AwayTended DEF ServerSkips, MailRead, lobbyVars, connVars
<1>5. ASSUME NEW i \in Conns, NEW f, Link(g, i), Says(i, << f >>),
             f.type \notin {"ROOM_CREATED", "ROOM_DESTROYED"},
             UNCHANGED <<peer, gone, lobby, client>>, MailRead(g),
             \A h \in Servers, k \in Codes : hosted'[h][k] # "none" => hosted[h][k] # "none"
      PROVE  Tended'
  <2>1. inbox' = [inbox EXCEPT ![i] = Append(@, f)] /\ \A j \in Conns : j # i => inbox'[j] = inbox[j]
    BY <1>5, SaidFrame
  <2>2. NoOrders(mail')
    BY <1>5, ReadMail
  <2>3. \A h \in Servers, j \in Conns : Link(h, j) => Link(h, j)'
    BY <1>5 DEF Link
  <2>4. CodesOK'
    BY <1>2, <1>5, <2>1, <2>2, <2>3, SaidCodes DEF Tended
  <2> QED
    BY <1>2, <1>5, <2>1, <2>4, ServerSays
<1>6. ASSUME NEW i \in Conns, NEW type \in {"REGISTER", "HEARTBEAT"}, ServerReports(g, i, type)
      PROVE  Tended'
  <2> DEFINE f == [type |-> type, current_rooms |-> Cardinality(RoomsOf(g))]
  <2>1. f.type \notin {"ROOM_CREATED", "ROOM_DESTROYED"}
    OBVIOUS
  <2>2. Link(g, i) /\ Says(i, << f >>) /\ UNCHANGED <<peer, gone, lobby, client, hosted>> /\ mail' = mail
    BY <1>6 DEF ServerReports, CanSay
  <2> HIDE DEF f
  <2> QED
    BY <1>5, <2>1, <2>2 DEF MailRead
<1>7. ASSUME NEW i \in Conns, ServerCreateRoom(g, i)
      PROVE  Tended'
  <2>1. CodesOK'
    BY <1>2, <1>7, CreatedCodes DEF Tended
  <2>2. PICK f : Says(i, << f >>)
    BY <1>7 DEF ServerCreateRoom
  <2>3. \A j \in Conns : j # i => inbox'[j] = inbox[j]
    BY <2>2, SaidFrame
  <2>4. Link(g, i) /\ UNCHANGED <<peer, gone, lobby, client>> /\ MailRead(g)
    BY <1>7 DEF ServerCreateRoom, MailRead
  <2> QED
    BY <1>2, <2>1, <2>3, <2>4, ServerSays
<1>8. ASSUME NEW i \in Conns, ServerEnds(g, i)
      PROVE  Tended'
  BY <1>2, <1>8 DEF ServerEnds
<1>9. ASSUME NEW k \in Codes, RoomStarts(g, k) \/ RoomCloses(g, k)
      PROVE  Tended'
  <2>1. /\ UNCHANGED <<inbox, peer, gone, lobby, client>> /\ mail' = mail
        /\ hosted[g][k] # "none"
        /\ \E x : hosted' = [hosted EXCEPT ![g][k] = x]
    BY <1>9 DEF RoomStarts, RoomCloses, lobbyVars, connVars
  <2>2. \A h \in Servers, c \in Codes : hosted'[h][c] # "none" => hosted[h][c] # "none"
    BY <2>1 DEF PlainOK
  <2> QED
    BY <1>2, <2>1, <2>2, AwayTended DEF MailRead
<1>10. ASSUME NEW k \in Codes, RoomFinishes(g, k) \/ RoomEmpties(g, k)
       PROVE  Tended'
  <2>1. /\ UNCHANGED <<peer, gone, lobby, client>> /\ mail' = mail
        /\ hosted[g][k] # "none"
        /\ \E x : hosted' = [hosted EXCEPT ![g][k] = x]
    BY <1>10 DEF RoomFinishes, RoomEmpties
  <2>2. \A h \in Servers, c \in Codes : hosted'[h][c] # "none" => hosted[h][c] # "none"
    BY <2>1 DEF PlainOK
  <2>3. MailRead(g)
    BY <2>1 DEF MailRead
  <2>4. CASE UNCHANGED inbox
    BY <1>2, <2>1, <2>2, <2>3, <2>4, AwayTended
  <2>5. ASSUME NEW i \in Conns, Link(g, i), Says(i, << [type |-> "RESULT", code |-> k] >>)
        PROVE  Tended'
    <3> DEFINE f == [type |-> "RESULT", code |-> k]
    <3>1. f.type \notin {"ROOM_CREATED", "ROOM_DESTROYED"} /\ Says(i, << f >>)
      BY <2>5
    <3> HIDE DEF f
    <3> QED
      BY <1>5, <2>1, <2>2, <2>3, <2>5, <3>1
  <2>6. ASSUME NEW i \in Conns, Link(g, i), Says(i, << [type |-> "ROOM_DESTROYED", code |-> k] >>)
        PROVE  Tended'
    <3>1. CodesOK'
      BY <1>2, <2>1, <2>2, <2>6, DestroyedCodes DEF Tended
    <3>2. \A j \in Conns : j # i => inbox'[j] = inbox[j]
      BY <2>6, SaidFrame
    <3> QED
      BY <1>2, <2>1, <2>3, <2>6, <3>1, <3>2, ServerSays
  <2> QED
    BY <1>10, <2>4, <2>5, <2>6, Zenon DEF RoomFinishes, RoomEmpties, Tells, CanSay
<1> QED
  BY <1>3, <1>4, <1>6, <1>7, <1>8, <1>9, <1>10 DEF ServerStep, ServerRegisters, ServerBeats

-----------------------------------------------------------------------------
(* The lobby: connections come and go.                                       *)

LEMMA MailStays == ASSUME PlainOK PROVE MailGrows(mail) /\ NoOrders(mail)
BY DEF PlainOK, MailGrows, NoOrders

LEMMA LobbyPlain ==
  ASSUME PlainOK, UNCHANGED <<client, hosted>>, MailGrows(mail'),
         UNCHANGED spent \/ \E b \in DOMAIN Limit : Spend(b),
         \A c \in Clients : Knocking(c)' => Knocking(c),
         \A i \in Conns : gone'[i] => peer'[i] # NoPeer
  PROVE  PlainOK'
<1>1. spent' \in [DOMAIN Limit -> Nat]
  BY Spending
<1>2. DOMAIN mail' = Peers /\ \A q \in Peers : IsSeq(mail'[q])
  BY DEF MailGrows
<1> QED
  BY <1>1, <1>2 DEF PlainOK

\* Entries that stay, are forgotten, or are given to who has waited.
LEMMA QuietTended ==
  ASSUME LinksSafe, Safe(lobby)', PlainOK, Tended, UNCHANGED <<lobby, mail, client, hosted>>,
         \A i \in Conns :
           \/ peer'[i] = peer[i] /\ gone'[i] = gone[i] /\ inbox'[i] = inbox[i]
           \/ gone[i] /\ peer'[i] = NoPeer /\ inbox'[i] = << >>
           \/ /\ peer[i] = NoPeer /\ ~gone'[i] /\ inbox'[i] = inbox[i]
              /\ peer'[i] \in Clients => client[peer'[i]].state = "CONNECTING"
  PROVE  Tended'
<1> NoPeer \notin Clients /\ NoPeer \notin Servers
  BY LobbyPrograms DEF Peers
<1>1. WaitsOK'
  <2>1. \A c \in Clients, i \in Conns : Link(c, i)' =>
          /\ inbox'[i] = inbox[i]
          /\ Link(c, i) \/ client[c].state = "CONNECTING"
    BY DEF Link
  <2> QED
    BY <2>1, MailStays, KeptWaits DEF Tended
<1>2. CodesOK'
  <2>1. \A i \in Conns, g \in Servers :
          Link(g, i) => Link(g, i)' /\ inbox'[i] = inbox[i]
    BY DEF Link
  <2>2. \A i \in Conns : inbox'[i] = inbox[i] \/ inbox'[i] = << >>
    OBVIOUS
  <2> QED
    BY <2>1, <2>2, QuietCodes DEF Tended
<1>3. ServersStay'
  <2>1. \A i \in Conns : peer[i] \in Servers => peer'[i] = peer[i]
    BY DEF Tended, ServersStay
  <2>2. \A i \in Conns : peer'[i] \in Servers => ~gone'[i]
    BY DEF Tended, ServersStay
  <2> QED
    BY <2>1, <2>2, ServersKept DEF Tended, Registered
<1> QED
  BY <1>1, <1>2, <1>3 DEF Tended

\* The stages between the handlers.
LEMMA StageWaits ==
  ASSUME LinksSafe, Safe(lobby)', WaitsSafe,
         \/ Poll \/ AcceptDone \/ RecvDone \/ DetectDone \/ MaintainDone
         \/ \E i \in Conns : Accept(i)
  PROVE  WaitsSafe'
<1> PlainOK /\ NoPeer \notin Peers
  BY LobbyPrograms DEF WaitsSafe
<1>1. ASSUME UNCHANGED <<lobby, mail, client, hosted, spent>>,
             \A c \in Clients : Knocking(c)' => Knocking(c),
             \A i \in Conns :
               \/ peer'[i] = peer[i] /\ gone'[i] = gone[i] /\ inbox'[i] = inbox[i]
               \/ gone[i] /\ peer'[i] = NoPeer /\ inbox'[i] = << >> /\ ~gone'[i]
               \/ /\ peer[i] = NoPeer /\ ~gone'[i] /\ inbox'[i] = inbox[i]
                  /\ peer'[i] \in Clients => client[peer'[i]].state = "CONNECTING"
      PROVE  WaitsSafe'
  <2>1. \A i \in Conns : gone'[i] => peer'[i] # NoPeer
    BY <1>1 DEF PlainOK
  <2>2. PlainOK'
    BY <1>1, <2>1, MailStays, LobbyPlain
  <2>3. Sheltered' => Tended'
    <3>1. \A i \in Conns :
           \/ peer'[i] = peer[i] /\ gone'[i] = gone[i] /\ inbox'[i] = inbox[i]
           \/ gone[i] /\ peer'[i] = NoPeer /\ inbox'[i] = << >>
           \/ /\ peer[i] = NoPeer /\ ~gone'[i] /\ inbox'[i] = inbox[i]
              /\ peer'[i] \in Clients => client[peer'[i]].state = "CONNECTING"
      BY <1>1
    <3> QED
      BY <1>1, <3>1, QuietTended DEF Sheltered, WaitsSafe
  <2> QED
    BY <2>2, <2>3 DEF WaitsSafe
<1>2. backlog \in Seq(Peers)
  BY DEF LinksSafe, ConnTypes
<1>3. ASSUME backlog # << >>
      PROVE  /\ Knocking(Head(backlog))
             /\ \A m \in DOMAIN Tail(backlog) : m + 1 \in DOMAIN backlog
                                                 /\ Tail(backlog)[m] = backlog[m + 1]
  BY <1>2, <1>3, Rest DEF Knocking
<1>4. backlog' = backlog \/ (backlog # << >> /\ backlog' = Tail(backlog)) =>
        \A c \in Clients : Knocking(c)' => Knocking(c)
  BY <1>3 DEF Knocking
<1>5. CASE Poll
  <2>1. PICK dropped \in SUBSET {i \in Conns : gone[i]} :
          /\ inbox' = [i \in Conns |-> IF i \in dropped THEN << >> ELSE inbox[i]]
          /\ peer' = [i \in Conns |-> IF i \in dropped THEN NoPeer ELSE peer[i]]
          /\ gone' = [i \in Conns |-> gone[i] /\ i \notin dropped]
    BY <1>5 DEF Poll
  <2>2. \A i \in Conns :
          \/ peer'[i] = peer[i] /\ gone'[i] = gone[i] /\ inbox'[i] = inbox[i]
          \/ gone[i] /\ peer'[i] = NoPeer /\ inbox'[i] = << >> /\ ~gone'[i]
    BY <2>1 DEF LinksSafe, ConnTypes
  <2>3. UNCHANGED <<lobby, mail, client, hosted, spent, backlog>>
    BY <1>5 DEF Poll
  <2> QED
    BY <1>1, <1>4, <2>2, <2>3
<1>6. CASE AcceptDone
  BY <1>1, <1>4, <1>6 DEF AcceptDone, connVars
<1>7. CASE RecvDone \/ DetectDone \/ MaintainDone
  BY <1>1, <1>4, <1>7 DEF RecvDone, DetectDone, MaintainDone, connVars
<1>8. ASSUME NEW i \in Conns, Accept(i)
      PROVE  WaitsSafe'
  <2>1. /\ backlog # << >> /\ conn_state[i] = "DISCONNECTED"
        /\ peer' = [peer EXCEPT ![i] = Head(backlog)] /\ backlog' = Tail(backlog)
        /\ UNCHANGED <<inbox, gone, lobby, mail, client, hosted, spent>>
    BY <1>8 DEF Accept, IsFirst
  <2>2. peer[i] = NoPeer /\ ~gone[i]
    BY <2>1 DEF LinksSafe, ConnsOK, PlainOK
  <2>3. peer'[i] = Head(backlog) /\ \A j \in Conns : j # i => peer'[j] = peer[j]
    BY <2>1 DEF LinksSafe, ConnTypes
  <2>4. peer'[i] \in Clients => client[peer'[i]].state = "CONNECTING"
    BY <1>3, <2>1, <2>3 DEF PlainOK
  <2>5. \A j \in Conns :
          \/ peer'[j] = peer[j] /\ gone'[j] = gone[j] /\ inbox'[j] = inbox[j]
          \/ /\ peer[j] = NoPeer /\ ~gone'[j] /\ inbox'[j] = inbox[j]
             /\ peer'[j] \in Clients => client[peer'[j]].state = "CONNECTING"
    BY <2>1, <2>2, <2>3, <2>4
  <2> QED
    BY <1>1, <1>4, <2>1, <2>5
<1> QED
  BY <1>5, <1>6, <1>7, <1>8

-----------------------------------------------------------------------------
(* The lobby: messages are handled.                                          *)

\* The tables and the mail after a step: no row is deleted, a room is ordered for a
\* code that has one, a request is an old one or is for a code just drawn, of a server
\* that is there.
TablesKept ==
  /\ \A k \in Codes : lobby'.codes[k] = NoRow => lobby.codes[k] = NoRow
  /\ \A p \in Peers, k \in Codes : Names(mail'[p], "SERVER_CREATE_ROOM", k) =>
       Names(mail[p], "SERVER_CREATE_ROOM", k) \/ lobby'.codes[k] # NoRow
  /\ \A g \in Registered(lobby)' :
       \/ /\ g \in Registered(lobby)
          /\ lobby'.servers[g].conn_id = lobby.servers[g].conn_id
       \/ peer'[lobby'.servers[g].conn_id] = g
  /\ \A p \in lobby'.pending :
       \/ p \in lobby.pending
       \/ lobby.codes[p.code] = NoRow /\ p.server \in Conns /\ peer[p.server] \in Servers
  /\ \A m \in lobby'.matches :
       m \in lobby.matches \/ (m.server \in Conns /\ peer[m.server] \in Servers)

\* Nobody else is taken out of the tables without an answer.
OthersServed(h) ==
  \A i \in Conns : i # h =>
    /\ HasRoom(lobby, i) => HasRoom(lobby', i) \/ Reached(mail', i)
    /\ InLine(lobby, i) => InLine(lobby', i) \/ Reached(mail', i)

\* Nor is the one whose message is handled, and its request is met or refused.
ServedToo(h) ==
  LET f == Head(inbox[h])
  IN  /\ HasRoom(lobby, h) => HasRoom(lobby', h) \/ Reached(mail', h)
      /\ InLine(lobby, h) =>
           InLine(lobby', h) \/ Reached(mail', h) \/ f.type = "QUEUE_CANCEL"
      /\ f.type = "CREATE_ROOM" => HasRoom(lobby', h) \/ Reached(mail', h)
      /\ f.type = "QUEUE" => InLine(lobby', h) \/ Reached(mail', h)
      /\ f.type = "ROOM_CREATED" => \A p \in lobby'.pending : p.code # f.code

LEMMA HandledStep ==
  ASSUME LinksSafe, Safe(lobby)', WaitsSafe, NEW h \in Conns, inbox[h] # << >>,
         inbox' = Consumed(h), UNCHANGED <<peer, gone, backlog, client, hosted, spent>>,
         MailGrows(mail'),
         Tended => TablesKept /\ OthersServed(h) /\ ServedToo(h)
  PROVE  WaitsSafe'
<1> PlainOK
  BY DEF WaitsSafe
<1>1. PlainOK'
  BY LobbyPlain DEF PlainOK, Knocking
<1> SUFFICES ASSUME Sheltered'
             PROVE  Tended'
  BY <1>1 DEF WaitsSafe
<1>2. Tended
  BY DEF WaitsSafe, Sheltered
<1>3. TablesKept /\ OthersServed(h) /\ ServedToo(h)
  BY <1>2
<1>4. WaitsOK'
  BY <1>2, <1>3, HandledWaits DEF Tended, OthersServed, ServedToo
<1>5. CodesOK'
  <2>1. \A p \in lobby'.pending :
          ~(Head(inbox[h]).type = "ROOM_CREATED" /\ Head(inbox[h]).code = p.code)
    BY <1>3 DEF ServedToo
  <2>2. \A p \in lobby'.pending : p \in lobby.pending \/ lobby.codes[p.code] = NoRow
    BY <1>3 DEF TablesKept
  <2> QED
    BY <1>2, <1>3, <2>1, <2>2, HandledCodes DEF Tended, TablesKept
<1>6. ServersStay'
  BY <1>2, <1>3, ServersKept DEF Tended, TablesKept, ServersStay
<1> QED
  BY <1>4, <1>5, <1>6 DEF Tended

\* Tables in which only servers and statuses of codes may differ.
LEMMA SameTables ==
  ASSUME MailGrows(mail'), NoOrders(mail'), lobby'.servers = lobby.servers,
         \A k \in Codes : lobby'.codes[k] = NoRow => lobby.codes[k] = NoRow,
         lobby'.pending \subseteq lobby.pending, lobby'.matches \subseteq lobby.matches
  PROVE  TablesKept
BY DEF TablesKept, NoOrders, Registered

LEMMA SameRequests ==
  ASSUME lobby'.queue = lobby.queue, lobby'.pending = lobby.pending,
         lobby'.matches = lobby.matches
  PROVE  \A i : /\ HasRoom(lobby, i) <=> HasRoom(lobby', i)
                /\ InLine(lobby, i) <=> InLine(lobby', i)
BY DEF HasRoom, InLine, Queued, MatchesWith

\* A letter to one connection.
LEMMA ToldOne ==
  ASSUME LinksSafe, PlainOK, NEW i \in Conns, NEW f, f.type # "SERVER_CREATE_ROOM"
  PROVE  /\ MailGrows(Told(<< i >>, f)) /\ NoOrders(Told(<< i >>, f))
         /\ f.type \in {"ERROR", "ROOM_ASSIGNED"} => Reached(Told(<< i >>, f), i)
<1> DEFINE letters == Told(<< i >>, f)
<1>1. DOMAIN << i >> = {1} /\ << i >>[1] = i
  OBVIOUS
<1>2. IsFiniteSet(DOMAIN << i >>)
  BY <1>1, FS_Singleton
<1>3. /\ MailGrows(letters)
      /\ \A p \in Peers, k \in Codes :
           Names(letters[p], "SERVER_CREATE_ROOM", k) =>
             \/ Names(mail[p], "SERVER_CREATE_ROOM", k)
             \/ f.type = "SERVER_CREATE_ROOM" /\ f.code = k
      /\ \A q \in DOMAIN << i >> : \A p \in Peers :
           << i >>[q] \in Conns /\ Link(p, << i >>[q]) => Has(letters[p], f.type)
  BY <1>2, ToldMail
<1> HIDE DEF letters
<1>4. \A p \in Peers : Link(p, i) => Has(letters[p], f.type)
  BY <1>1, <1>3
<1>5. NoOrders(letters)
  BY <1>3 DEF NoOrders
<1>6. f.type \in {"ERROR", "ROOM_ASSIGNED"} => Reached(letters, i)
  BY <1>4 DEF Reached, HasAnswer, Peers
<1> QED
  BY <1>3, <1>5, <1>6 DEF letters

\* Messages that do not touch the tables.
LEMMA TalkWaits ==
  ASSUME LinksSafe, Safe(lobby)', WaitsSafe, NEW i \in Conns,
         Hello(i) \/ Login(i) \/ LoginResponse(i) \/ CreateRefused(i) \/ JoinRoom(i)
  PROVE  WaitsSafe'
<1> PlainOK
  BY DEF WaitsSafe
<1>1. PICK letters :
        /\ inbox' = Consumed(i) /\ lobby' = lobby /\ mail' = letters
        /\ UNCHANGED <<peer, gone, backlog, client, hosted, spent>>
        /\ MailGrows(letters) /\ NoOrders(letters)
        /\ inbox[i] # << >>
        /\ \/ Head(inbox[i]).type \in {"HELLO", "LOGIN", "LOGIN_RESPONSE", "JOIN_ROOM"}
           \/ Head(inbox[i]).type = "CREATE_ROOM" /\ Reached(letters, i)
  <2>1. ASSUME NEW letters, Handled(i, lobby, letters), inbox[i] # << >>,
               \/ letters = mail
               \/ \E f : f.type # "SERVER_CREATE_ROOM" /\ letters = Told(<< i >>, f),
               Head(inbox[i]).type \in {"HELLO", "LOGIN", "LOGIN_RESPONSE", "JOIN_ROOM"}
        PROVE  /\ inbox' = Consumed(i) /\ lobby' = lobby /\ mail' = letters
               /\ UNCHANGED <<peer, gone, backlog, client, hosted, spent>>
               /\ MailGrows(letters) /\ NoOrders(letters)
    BY <2>1, MailStays, ToldOne DEF Handled
  <2>2. CASE Hello(i)
    BY <2>1, <2>2 DEF Hello, Handling
  <2>3. CASE Login(i)
    <3> DEFINE f == [type |-> "LOGIN_CHALLENGE"]
    <3>1. f.type # "SERVER_CREATE_ROOM" /\ Handled(i, lobby, Told(<< i >>, f))
      BY <2>3 DEF Login
    <3> HIDE DEF f
    <3> QED
      BY <2>1, <2>3, <3>1 DEF Login, Handling
  <2>4. CASE LoginResponse(i)
    <3>1. PICK f : f.type # "SERVER_CREATE_ROOM" /\ Handled(i, lobby, Told(<< i >>, f))
      <4>1. \/ Handled(i, lobby, Told(<< i >>, [type |-> "LOGIN_ACK"]))
            \/ Handled(i, lobby, Told(<< i >>, [type |-> "ERROR"]))
        BY <2>4, Zenon DEF LoginResponse, Error
      <4>2. [type |-> "LOGIN_ACK"].type # "SERVER_CREATE_ROOM" /\ [type |-> "ERROR"].type # "SERVER_CREATE_ROOM"
        OBVIOUS
      <4> QED
        BY <4>1, <4>2, Zenon
    <3> QED
      BY <2>1, <2>4, <3>1 DEF LoginResponse, Handling
  <2>5. CASE JoinRoom(i)
    <3>1. PICK f : f.type # "SERVER_CREATE_ROOM" /\ Handled(i, lobby, Told(<< i >>, f))
      <4> DEFINE joins == LoggedIn(i) /\ lobby.codes[Code(i)] # NoRow /\ lobby.codes[Code(i)].status = "active"
      <4>1. Handled(i, lobby, Told(<< i >>, IF joins THEN Assigned ELSE Error))
        BY <2>5, Zenon DEF JoinRoom
      <4>2. Assigned.type # "SERVER_CREATE_ROOM" /\ Error.type # "SERVER_CREATE_ROOM"
        BY DEF Assigned, Error
      <4> HIDE DEF joins
      <4>3. (IF joins THEN Assigned ELSE Error).type # "SERVER_CREATE_ROOM"
        BY <4>2
      <4> QED
        BY <4>1, <4>3, Zenon
    <3> QED
      BY <2>1, <2>5, <3>1 DEF JoinRoom, Handling
  <2>6. CASE CreateRefused(i)
    <3>1. Error.type = "ERROR"
      BY DEF Error
    <3>2. /\ inbox[i] # << >> /\ Head(inbox[i]).type = "CREATE_ROOM"
          /\ inbox' = Consumed(i) /\ lobby' = lobby /\ mail' = Told(<< i >>, Error)
          /\ UNCHANGED <<peer, gone, backlog, client, hosted, spent>>
      BY <2>6 DEF CreateRefused, Handled, Handling
    <3> QED
      BY <3>1, <3>2, ToldOne
  <2> QED
    BY <2>2, <2>3, <2>4, <2>5, <2>6
<1>2. TablesKept
  BY <1>1, SameTables
<1>3. \A j : /\ HasRoom(lobby, j) <=> HasRoom(lobby', j)
             /\ InLine(lobby, j) <=> InLine(lobby', j)
  BY <1>1, SameRequests
<1>4. OthersServed(i) /\ ServedToo(i)
  BY <1>1, <1>3 DEF OthersServed, ServedToo
<1> QED
  BY <1>1, <1>2, <1>4, HandledStep

\* A request that is not from a server comes from a client.
LEMMA AskedByClient ==
  ASSUME LinksSafe, NEW i \in Conns, inbox[i] # << >>,
         Head(inbox[i]).type \notin ServerFrames
  PROVE  peer[i] \in Clients
BY HeadOfInbox DEF LinksSafe, ConnTypes, Peers

\* A server that is registered is where a room can be asked for.
LEMMA PickedServer ==
  ASSUME LinksSafe, ServersStay, NEW g \in PickServer(lobby)
  PROVE  /\ g \in Servers
         /\ lobby.servers[g].conn_id \in Conns /\ peer[lobby.servers[g].conn_id] \in Servers
<1>1. g \in Registered(lobby) /\ g \in Servers
  BY DEF PickServer, Registered
<1> QED
  BY <1>1 DEF Registered, ServersStay, LinksSafe, ConnTypes, RegisteredServer

\* A letter that orders a room.
LEMMA OrderMail ==
  ASSUME LinksSafe, PlainOK, NEW i, NEW k
  PROVE  LET letters == Told(<< i >>, [type |-> "SERVER_CREATE_ROOM", code |-> k])
         IN  /\ MailGrows(letters)
             /\ \A p \in Peers, c \in Codes : Names(letters[p], "SERVER_CREATE_ROOM", c) =>
                  Names(mail[p], "SERVER_CREATE_ROOM", c) \/ c = k
<1> DEFINE f == [type |-> "SERVER_CREATE_ROOM", code |-> k]
<1>1. IsFiniteSet(DOMAIN << i >>)
  <2>1. DOMAIN << i >> = {1}
    OBVIOUS
  <2> QED
    BY <2>1, FS_Singleton
<1>2. f.code = k
  OBVIOUS
<1> HIDE DEF f
<1>3. /\ MailGrows(Told(<< i >>, f))
      /\ \A p \in Peers, c \in Codes :
           Names(Told(<< i >>, f)[p], "SERVER_CREATE_ROOM", c) =>
             \/ Names(mail[p], "SERVER_CREATE_ROOM", c)
             \/ f.type = "SERVER_CREATE_ROOM" /\ f.code = c
  BY <1>1, ToldMail
<1> QED
  BY <1>2, <1>3, Zenon DEF f

\* lby_handle_create_room.
LEMMA CreateWaits ==
  ASSUME LinksSafe, Safe(lobby), Safe(lobby)', WaitsSafe, NEW i \in Conns, CreateRoom(i)
  PROVE  WaitsSafe'
<1> PlainOK
  BY DEF WaitsSafe
<1>1. PICK g \in PickServer(lobby), k \in FreeCodes(lobby) :
        Handled(i, [InsertRow(lobby, k, g) EXCEPT
                      !.pending = @ \cup {[code |-> k, client |-> i,
                                           server |-> lobby.servers[g].conn_id]}],
                Told(<< lobby.servers[g].conn_id >>, [type |-> "SERVER_CREATE_ROOM", code |-> k]))
  BY DEF CreateRoom
<1> DEFINE t == InsertRow(lobby, k, g)
           p == [code |-> k, client |-> i, server |-> lobby.servers[g].conn_id]
<1>2. g \in Servers
  BY DEF PickServer, Registered
<1>3. /\ Safe(t) /\ t.queue = lobby.queue /\ t.pending = lobby.pending /\ t.matches = lobby.matches
      /\ t.codes[k] # NoRow /\ k \in Codes /\ lobby.codes[k] = NoRow
      /\ \A c \in Codes : lobby.codes[c] # NoRow => t.codes[c] # NoRow
  BY <1>2, InsertRowSafe
<1>4. p.code = k /\ p.client = i /\ p.server = lobby.servers[g].conn_id
  OBVIOUS
<1>5. /\ inbox' = Consumed(i) /\ UNCHANGED <<peer, gone, backlog, client, hosted, spent>>
      /\ lobby' = [t EXCEPT !.pending = @ \cup {p}]
      /\ MailGrows(mail')
      /\ \A q \in Peers, c \in Codes : Names(mail'[q], "SERVER_CREATE_ROOM", c) =>
           Names(mail[q], "SERVER_CREATE_ROOM", c) \/ c = k
  BY <1>1, OrderMail DEF Handled
<1>6. inbox[i] # << >> /\ Head(inbox[i]).type = "CREATE_ROOM"
  BY DEF CreateRoom, Handling
<1>7. lobby'.servers = lobby.servers
  BY RegistryUntouched
<1> HIDE DEF t, p
<1>8. /\ lobby'.queue = lobby.queue /\ lobby'.codes = t.codes /\ lobby'.matches = lobby.matches
      /\ lobby'.pending = lobby.pending \cup {p}
  BY <1>3, <1>5 DEF Safe, Shaped
<1>9. ASSUME Tended
      PROVE  TablesKept
  <2>1. lobby.servers[g].conn_id \in Conns /\ peer[lobby.servers[g].conn_id] \in Servers
    BY <1>9, PickedServer DEF Tended
  <2> QED
    BY <1>3, <1>4, <1>5, <1>7, <1>8, <2>1 DEF TablesKept, Registered
<1>10. \A j : HasRoom(lobby, j) => HasRoom(lobby', j)
  BY <1>8, SameRooms
<1>11. \A j : InLine(lobby, j) => InLine(lobby', j)
  BY <1>8, SameLine
<1>12. HasRoom(lobby', i)
  BY <1>4, <1>8 DEF HasRoom
<1>13. OthersServed(i) /\ ServedToo(i)
  BY <1>6, <1>10, <1>11, <1>12 DEF OthersServed, ServedToo
<1> QED
  BY <1>5, <1>6, <1>9, <1>13, HandledStep

\* lby_handle_queue, when the player waits on or is refused.
LEMMA QueueWaits ==
  ASSUME LinksSafe, Safe(lobby), Safe(lobby)', WaitsSafe, NEW i \in Conns, Queue(i)
  PROVE  WaitsSafe'
<1> PlainOK
  BY DEF WaitsSafe
<1>1. inbox[i] # << >> /\ Head(inbox[i]).type = "QUEUE" /\ peer[i] \in Clients
  BY AskedByClient DEF Queue, Handling, ServerFrames
<1>2. lobby'.servers = lobby.servers
  BY RegistryUntouched
<1>3. CASE CanEnqueue(lobby, peer[i]) /\ Handled(i, Enqueue(lobby, i, peer[i]), mail)
  <2>1. /\ \A j : InLine(lobby, j) => InLine(lobby', j)
        /\ InLine(lobby', i)
    BY <1>1, <1>3, EnqueueLine DEF CanEnqueue, Handled
  <2>2. /\ lobby'.codes = lobby.codes /\ lobby'.pending = lobby.pending
        /\ lobby'.matches = lobby.matches
    BY <1>3, EnqueueOrdered DEF Handled, Safe
  <2>3. /\ inbox' = Consumed(i) /\ UNCHANGED <<peer, gone, backlog, client, hosted, spent>>
        /\ MailGrows(mail') /\ NoOrders(mail')
    BY <1>3, MailStays DEF Handled
  <2>4. TablesKept
    BY <1>2, <2>2, <2>3, SameTables
  <2>5. OthersServed(i) /\ ServedToo(i)
    BY <1>1, <2>1, <2>2 DEF OthersServed, ServedToo, HasRoom
  <2> QED
    BY <1>1, <2>3, <2>4, <2>5, HandledStep
<1>4. CASE Handled(i, lobby, Told(<< i >>, Error))
  <2>1. Error.type = "ERROR"
    BY DEF Error
  <2>2. /\ inbox' = Consumed(i) /\ UNCHANGED <<peer, gone, backlog, client, hosted, spent>>
        /\ lobby' = lobby /\ MailGrows(mail') /\ NoOrders(mail') /\ Reached(mail', i)
    BY <1>4, <2>1, ToldOne DEF Handled
  <2>3. TablesKept
    BY <2>2, SameTables
  <2>4. OthersServed(i) /\ ServedToo(i)
    BY <1>1, <2>2 DEF OthersServed, ServedToo
  <2> QED
    BY <1>1, <2>2, <2>3, <2>4, HandledStep
<1> QED
  BY <1>3, <1>4 DEF Queue

\* lby_handle_queue, when the player completes a match: everybody in the queue is in
\* the match or told that there is none.
LEMMA QueueMatchWaits ==
  ASSUME LinksSafe, Safe(lobby), Safe(lobby)', WaitsSafe, NEW i \in Conns, QueueMatch(i)
  PROVE  WaitsSafe'
<1> PlainOK
  BY DEF WaitsSafe
<1> DEFINE t == Enqueue(lobby, i, peer[i])
           conns == MatchedConns(t)
           left == Unqueue(t, MatchedSlots(t))
<1>1. inbox[i] # << >> /\ Head(inbox[i]).type = "QUEUE" /\ peer[i] \in Clients
  BY AskedByClient DEF QueueMatch, Handling, ServerFrames
<1>2. lobby'.servers = lobby.servers
  BY RegistryUntouched
<1>3. /\ Ordered(t) /\ Cardinality(Queued(t)) <= MatchSize
      /\ t.matches = lobby.matches
      /\ Safe(left)
      /\ left.codes = lobby.codes /\ left.pending = lobby.pending
      /\ left.matches = lobby.matches
  BY MatchLeaves
<1>4. /\ \A j : InLine(lobby, j) => InLine(t, j)
      /\ InLine(t, i)
  BY <1>1, EnqueueLine DEF QueueMatch, CanEnqueue
<1>5. DOMAIN conns = 1 .. MatchSize /\ IsFiniteSet(DOMAIN conns)
  <2>1. 1 \in Int /\ MatchSize \in Int
    BY TableSizes
  <2>2. IsFiniteSet(1 .. MatchSize)
    BY <2>1, FS_Interval
  <2> QED
    BY <2>2 DEF MatchedConns
<1>6. \/ lobby' = left /\ mail' = Told(conns, Error)
      \/ \E g \in PickServer(lobby), k \in FreeCodes(lobby) :
           \/ /\ lobby' = [InsertRow(left, k, g) EXCEPT !.matches = @ \cup
                             {[code |-> k, conns |-> conns, server |-> lobby.servers[g].conn_id]}]
              /\ mail' = Told(<< lobby.servers[g].conn_id >>,
                              [type |-> "SERVER_CREATE_ROOM", code |-> k])
           \/ /\ lobby' = SetStatus(InsertRow(left, k, g), k, "expired")
              /\ mail' = Told(conns, Error)
  BY DEF QueueMatch, Handled
<1>7. inbox' = Consumed(i) /\ UNCHANGED <<peer, gone, backlog, client, hosted, spent>>
  BY DEF QueueMatch, Handled
<1>8. \A j : InLine(t, j) =>
        MatchesWith(lobby, j) # {} \/ \E q \in DOMAIN conns : conns[q] = j
  BY <1>3, MatchedLine DEF InLine, MatchesWith
<1> HIDE DEF t, conns, left
<1>9. FreeCodes(left) = FreeCodes(lobby)
  BY <1>3 DEF FreeCodes
<1>10. ASSUME NEW g \in PickServer(lobby), NEW k \in FreeCodes(lobby)
       PROVE  LET u == InsertRow(left, k, g)
              IN  /\ Safe(u) /\ u.pending = lobby.pending /\ u.matches = lobby.matches
                  /\ u.codes[k] # NoRow
                  /\ \A c \in Codes : lobby.codes[c] # NoRow => u.codes[c] # NoRow
  <2>1. g \in Servers
    BY DEF PickServer, Registered
  <2> QED
    BY <1>3, <1>9, <2>1, InsertRowSafe
<1>11. ASSUME mail' = Told(conns, Error), lobby'.pending = lobby.pending,
              lobby'.matches = lobby.matches,
              \A c \in Codes : lobby.codes[c] # NoRow => lobby'.codes[c] # NoRow
       PROVE  WaitsSafe'
  <2>1. /\ MailGrows(mail') /\ NoOrders(mail')
        /\ \A q \in DOMAIN conns : conns[q] \in Conns => Reached(mail', conns[q])
    BY <1>5, <1>11, AnswerMail
  <2>2. TablesKept
    BY <1>2, <1>11, <2>1, SameTables
  <2>3. \A j \in Conns : InLine(t, j) => InLine(lobby', j) \/ Reached(mail', j)
    BY <1>8, <1>11, <2>1 DEF InLine, MatchesWith
  <2>4. OthersServed(i) /\ ServedToo(i)
    BY <1>1, <1>4, <1>11, <2>3 DEF OthersServed, ServedToo, HasRoom
  <2> QED
    BY <1>1, <1>7, <2>1, <2>2, <2>4, HandledStep
<1>12. CASE lobby' = left /\ mail' = Told(conns, Error)
  BY <1>3, <1>11, <1>12
<1>13. ASSUME NEW g \in PickServer(lobby), NEW k \in FreeCodes(lobby),
              lobby' = SetStatus(InsertRow(left, k, g), k, "expired"), mail' = Told(conns, Error)
       PROVE  WaitsSafe'
  <2> DEFINE u == InsertRow(left, k, g)
  <2>1. /\ Safe(u) /\ u.pending = lobby.pending /\ u.matches = lobby.matches
        /\ \A c \in Codes : lobby.codes[c] # NoRow => u.codes[c] # NoRow
    BY <1>10
  <2>2. lobby' = SetStatus(u, k, "expired")
    BY <1>13
  <2> HIDE DEF u
  <2>3. /\ lobby'.pending = u.pending /\ lobby'.matches = u.matches
        /\ \A c \in Codes : u.codes[c] # NoRow => lobby'.codes[c] # NoRow
    BY <2>1, <2>2, SetStatusSafe
  <2> QED
    BY <1>11, <1>13, <2>1, <2>3
<1>14. ASSUME NEW g \in PickServer(lobby), NEW k \in FreeCodes(lobby),
              lobby' = [InsertRow(left, k, g) EXCEPT !.matches = @ \cup
                          {[code |-> k, conns |-> conns, server |-> lobby.servers[g].conn_id]}],
              mail' = Told(<< lobby.servers[g].conn_id >>, [type |-> "SERVER_CREATE_ROOM", code |-> k])
       PROVE  WaitsSafe'
  <2> DEFINE u == InsertRow(left, k, g)
             m == [code |-> k, conns |-> conns, server |-> lobby.servers[g].conn_id]
  <2>1. /\ Safe(u) /\ u.pending = lobby.pending /\ u.matches = lobby.matches
        /\ u.codes[k] # NoRow
        /\ \A c \in Codes : lobby.codes[c] # NoRow => u.codes[c] # NoRow
    BY <1>10
  <2>2. lobby' = [u EXCEPT !.matches = @ \cup {m}]
    BY <1>14
  <2>3. m.conns = conns /\ m.server = lobby.servers[g].conn_id
    OBVIOUS
  <2> HIDE DEF u, m
  <2>4. /\ lobby'.pending = lobby.pending /\ lobby'.matches = lobby.matches \cup {m}
        /\ lobby'.codes = u.codes
    BY <2>1, <2>2 DEF Safe, Shaped
  <2>5. /\ MailGrows(mail')
        /\ \A q \in Peers, c \in Codes : Names(mail'[q], "SERVER_CREATE_ROOM", c) =>
             Names(mail[q], "SERVER_CREATE_ROOM", c) \/ c = k
    BY <1>14, OrderMail
  <2>6. ASSUME Tended
        PROVE  TablesKept
    <3>1. lobby.servers[g].conn_id \in Conns /\ peer[lobby.servers[g].conn_id] \in Servers
      BY <2>6, PickedServer DEF Tended
    <3> QED
      BY <1>2, <2>1, <2>3, <2>4, <2>5, <3>1 DEF TablesKept, Registered
  <2>7. ASSUME NEW j, InLine(t, j)
        PROVE  InLine(lobby', j)
    <3>1. MatchesWith(lobby', j) # {}
      <4>1. CASE MatchesWith(lobby, j) # {}
        BY <2>4, <4>1 DEF MatchesWith
      <4>2. CASE MatchesWith(lobby, j) = {}
        <5>1. \E q \in 1..MatchSize : conns[q] = j
          BY <1>5, <1>8, <2>7, <4>2
        <5>2. m \in lobby'.matches /\ \E q \in 1..MatchSize : m.conns[q] = j
          BY <2>3, <2>4, <5>1
        <5> QED
          BY <5>2 DEF MatchesWith
      <4> QED
        BY <4>1, <4>2
    <3> QED
      BY <3>1 DEF InLine
  <2>8. OthersServed(i) /\ ServedToo(i)
    BY <1>1, <1>4, <2>4, <2>7 DEF OthersServed, ServedToo, HasRoom
  <2> QED
    BY <1>1, <1>7, <2>5, <2>6, <2>8, HandledStep
<1> QED
  BY <1>6, <1>12, <1>13, <1>14

\* lby_handle_queue_cancel: the player's own entry leaves, or it is told off.
LEMMA CancelWaits ==
  ASSUME LinksSafe, Safe(lobby), Safe(lobby)', WaitsSafe, NEW i \in Conns, QueueCancel(i)
  PROVE  WaitsSafe'
<1> PlainOK
  BY DEF WaitsSafe
<1>1. inbox[i] # << >> /\ Head(inbox[i]).type = "QUEUE_CANCEL"
  BY DEF QueueCancel, Handling
<1>2. lobby'.servers = lobby.servers
  BY RegistryUntouched
<1>3. /\ inbox' = Consumed(i) /\ UNCHANGED <<peer, gone, backlog, client, hosted, spent>>
      /\ lobby' \in {lobby, Dequeue(lobby, i)}
      /\ mail' \in {mail, Told(<< i >>, Error)}
  BY DEF QueueCancel, Handled
<1>4. MailGrows(mail') /\ NoOrders(mail')
  <2>1. Error.type # "SERVER_CREATE_ROOM"
    BY DEF Error
  <2> QED
    BY <1>3, <2>1, MailStays, ToldOne
<1>5. /\ \A j : j # i /\ InLine(lobby, j) => InLine(lobby', j)
      /\ lobby'.pending = lobby.pending /\ lobby'.matches = lobby.matches
      /\ lobby'.codes = lobby.codes
  <2>1. Dequeue(lobby, i).codes = lobby.codes
    BY DEF Dequeue, Safe, Shaped
  <2> QED
    BY <1>3, <2>1, DequeueLine
<1>6. TablesKept
  BY <1>2, <1>4, <1>5, SameTables
<1>7. OthersServed(i) /\ ServedToo(i)
  BY <1>1, <1>5 DEF OthersServed, ServedToo, HasRoom
<1> QED
  BY <1>1, <1>3, <1>4, <1>6, <1>7, HandledStep

\* svreg_register and svreg_heartbeat: a server that registers is on this connection.
LEMMA ReportWaits ==
  ASSUME LinksSafe, Safe(lobby), Safe(lobby)', WaitsSafe, NEW i \in Conns,
         ServerRegister(i) \/ ServerHeartbeat(i)
  PROVE  WaitsSafe'
<1> PlainOK
  BY DEF WaitsSafe
<1> DEFINE m == Head(inbox[i])
<1>1. /\ inbox[i] # << >> /\ m.type \in Reports
      /\ inbox' = Consumed(i) /\ UNCHANGED <<peer, gone, backlog, client, hosted, spent>>
      /\ mail' = mail
  BY DEF ServerRegister, ServerHeartbeat, Handling, Handled, Reports
<1>2. /\ lobby'.queue = lobby.queue /\ lobby'.pending = lobby.pending
      /\ lobby'.matches = lobby.matches /\ lobby'.codes = lobby.codes
  BY DEF ServerRegister, ServerHeartbeat, Handled, Register, Safe, Shaped
<1>3. \A g \in Registered(lobby)' :
        \/ g \in Registered(lobby) /\ lobby'.servers[g].conn_id = lobby.servers[g].conn_id
        \/ peer'[lobby'.servers[g].conn_id] = g
  <2>1. CASE ServerRegister(i)
    <3> DEFINE row == [conn_id |-> i, current_rooms |-> m.current_rooms]
    <3>1. lobby'.servers = [lobby.servers EXCEPT ![peer[i]] = row]
      BY <2>1 DEF ServerRegister, Handled, Register, Safe, Shaped
    <3>2. row.conn_id = i
      OBVIOUS
    <3> HIDE DEF row
    <3> QED
      BY <1>1, <3>1, <3>2 DEF LinksSafe, ConnTypes, Registered
  <2>2. CASE ServerHeartbeat(i)
    <3> DEFINE beat(g) == [lobby.servers[g] EXCEPT !.current_rooms = m.current_rooms]
    <3>1. lobby'.servers = [g \in Servers |-> IF g \in RegisteredOn(lobby, i) THEN beat(g)
                                              ELSE lobby.servers[g]]
      BY <2>2 DEF ServerHeartbeat, Handled, Safe, Shaped
    <3>2. \A g \in RegisteredOn(lobby, i) :
            g \in Registered(lobby) /\ beat(g).conn_id = lobby.servers[g].conn_id
      BY DEF RegisteredOn, Registered, LinksSafe, ConnTypes, RegisteredServer
    <3> HIDE DEF beat
    <3> QED
      BY <3>1, <3>2 DEF Registered
  <2> QED
    BY <2>1, <2>2
<1>4. MailGrows(mail') /\ NoOrders(mail')
  BY <1>1, MailStays
<1>5. TablesKept
  BY <1>2, <1>3, <1>4 DEF TablesKept, NoOrders
<1>6. \A j : /\ HasRoom(lobby, j) <=> HasRoom(lobby', j)
             /\ InLine(lobby, j) <=> InLine(lobby', j)
  BY <1>2, SameRequests
<1>7. OthersServed(i) /\ ServedToo(i)
  BY <1>1, <1>6 DEF OthersServed, ServedToo, Reports
<1> QED
  BY <1>1, <1>4, <1>5, <1>7, HandledStep

\* The statuses of the codes are changed, and the server may be written to.
LEMMA ResultWaits ==
  ASSUME LinksSafe, Safe(lobby), Safe(lobby)', WaitsSafe, NEW i \in Conns, ServerResult(i)
  PROVE  WaitsSafe'
<1> PlainOK
  BY DEF WaitsSafe
<1>1. /\ inbox[i] # << >> /\ Head(inbox[i]).type = "RESULT"
      /\ inbox' = Consumed(i) /\ UNCHANGED <<peer, gone, backlog, client, hosted, spent>>
      /\ mail' \in {mail, Told(<< i >>, [type |-> "ELO_RESULT"])}
      /\ lobby' = SetStatus(lobby, Code(i), "finished")
  BY DEF ServerResult, Handling, Handled
<1>2. /\ lobby'.queue = lobby.queue /\ lobby'.pending = lobby.pending
      /\ lobby'.matches = lobby.matches
      /\ \A c \in Codes : lobby.codes[c] # NoRow => lobby'.codes[c] # NoRow
  BY <1>1, SetStatusSafe
<1>3. lobby'.servers = lobby.servers
  BY RegistryUntouched
<1>4. MailGrows(mail') /\ NoOrders(mail')
  <2> DEFINE f == [type |-> "ELO_RESULT"]
  <2>1. f.type # "SERVER_CREATE_ROOM" /\ mail' \in {mail, Told(<< i >>, f)}
    BY <1>1
  <2> HIDE DEF f
  <2> QED
    BY <2>1, MailStays, ToldOne
<1>5. TablesKept
  BY <1>2, <1>3, <1>4, SameTables
<1>6. \A j : /\ HasRoom(lobby, j) <=> HasRoom(lobby', j)
             /\ InLine(lobby, j) <=> InLine(lobby', j)
  BY <1>2, SameRequests
<1>7. OthersServed(i) /\ ServedToo(i)
  BY <1>1, <1>6 DEF OthersServed, ServedToo
<1> QED
  BY <1>1, <1>4, <1>5, <1>7, HandledStep

\* lby_handle_server_room_destroyed: nobody waits for a room that is destroyed, as its
\* creation was told before.
LEMMA RoomDestroyedWaits ==
  ASSUME LinksSafe, Safe(lobby), Safe(lobby)', WaitsSafe, NEW i \in Conns,
         ServerRoomDestroyed(i)
  PROVE  WaitsSafe'
<1> PlainOK
  BY DEF WaitsSafe
<1> DEFINE t == SetStatus(lobby, Code(i), "expired")
<1>1. /\ inbox[i] # << >> /\ Head(inbox[i]).type = "ROOM_DESTROYED"
      /\ inbox' = Consumed(i) /\ UNCHANGED <<peer, gone, backlog, client, hosted, spent>>
      /\ mail' = mail
      /\ lobby' = [t EXCEPT !.pending = @ \ PendingOf(Code(i))]
  BY DEF ServerRoomDestroyed, Handling, Handled
<1>2. /\ Safe(t) /\ t.queue = lobby.queue /\ t.pending = lobby.pending
      /\ t.matches = lobby.matches
      /\ \A c \in Codes : lobby.codes[c] # NoRow => t.codes[c] # NoRow
  BY SetStatusSafe
<1> HIDE DEF t
<1>3. /\ lobby'.queue = lobby.queue /\ lobby'.pending = lobby.pending \ PendingOf(Code(i))
      /\ lobby'.matches = lobby.matches
      /\ \A c \in Codes : lobby.codes[c] # NoRow => lobby'.codes[c] # NoRow
  BY <1>1, <1>2 DEF Safe, Shaped
<1>4. lobby'.servers = lobby.servers
  BY RegistryUntouched
<1>5. MailGrows(mail') /\ NoOrders(mail')
  BY <1>1, MailStays
<1>6. TablesKept
  BY <1>3, <1>4, <1>5, SameTables
<1>7. ASSUME Tended
      PROVE  OthersServed(i) /\ ServedToo(i)
  <2>1. \A k : Announced(inbox[i], k) => Code(i) # k
    <3>1. IsSeq(inbox[i])
      BY InboxSeq
    <3> QED
      BY <1>1, <3>1, TakenFrame DEF Code
  <2>2. \A p \in lobby.pending : Announced(inbox[i], p.code)
    BY <1>7 DEF Tended, CodesOK, Opening
  <2>3. lobby'.pending = lobby.pending
    BY <1>3, <2>1, <2>2 DEF PendingOf
  <2>4. \A j : /\ HasRoom(lobby, j) <=> HasRoom(lobby', j)
               /\ InLine(lobby, j) <=> InLine(lobby', j)
    BY <1>3, <2>3, SameRequests
  <2> QED
    BY <1>1, <2>4 DEF OthersServed, ServedToo
<1> QED
  BY <1>1, <1>5, <1>6, <1>7, HandledStep

\* Whoever waits for the room of a code is told, and waits no more.
LEMMA AnsweredAll ==
  ASSUME LinksSafe, PlainOK, Safe(lobby), NEW k, NEW f \in {Error, Assigned}
  PROVE  LET letters == Told(Waiting(k), f)
             t == Answered(k)
         IN  /\ MailGrows(letters) /\ NoOrders(letters)
             /\ Safe(t) /\ t.queue = lobby.queue /\ t.codes = lobby.codes
             /\ t.pending \subseteq lobby.pending /\ t.matches \subseteq lobby.matches
             /\ \A p \in t.pending : p.code # k
             /\ \A j \in Conns :
                  /\ HasRoom(lobby, j) => HasRoom(t, j) \/ Reached(letters, j)
                  /\ InLine(lobby, j) => InLine(t, j) \/ Reached(letters, j)
<1> DEFINE letters == Told(Waiting(k), f)
           t == Answered(k)
<1>1. /\ Shaped(t) /\ t.queue = lobby.queue /\ t.codes = lobby.codes
      /\ t.enqueue_counter = lobby.enqueue_counter
      /\ IF MatchOf(k) # {} THEN t.pending = lobby.pending /\ t.matches = lobby.matches \ MatchOf(k)
         ELSE t.pending = lobby.pending \ PendingOf(k) /\ t.matches = lobby.matches
  BY DEF Answered, Safe, Shaped
<1> HIDE DEF t
<1>2. /\ t.pending \subseteq lobby.pending /\ t.matches \subseteq lobby.matches
      /\ lobby.codes \in [Codes -> CodeRow \cup {NoRow}]
  BY <1>1 DEF Safe, CodesSafe
<1>3. Safe(t)
  BY <1>1, <1>2, FewerRequests
<1>4. \A p \in t.pending : p.code # k
  BY <1>1 DEF MatchOf, PendingOf, Safe, CodesSafe
<1>5. CASE MatchOf(k) # {}
  <2>1. PICK m \in MatchOf(k) : Waiting(k) = m.conns
    BY <1>5 DEF Waiting
  <2>2. DOMAIN m.conns = 1 .. MatchSize /\ \A n \in MatchOf(k) : n = m
    BY <2>1 DEF MatchOf, Safe, CodesSafe
  <2>3. IsFiniteSet(1 .. MatchSize)
    <3>1. 1 \in Int /\ MatchSize \in Int
      BY TableSizes
    <3> QED
      BY <3>1, FS_Interval
  <2>4. /\ MailGrows(letters) /\ NoOrders(letters)
        /\ \A q \in DOMAIN m.conns : m.conns[q] \in Conns => Reached(letters, m.conns[q])
    BY <2>1, <2>2, <2>3, AnswerMail
  <2> HIDE DEF letters
  <2>5. ASSUME NEW j \in Conns, InLine(lobby, j), ~InLine(t, j)
        PROVE  Reached(letters, j)
    <3>1. PICK n \in lobby.matches : \E q \in 1 .. MatchSize : n.conns[q] = j
      BY <1>1, <2>5 DEF InLine, Queued, MatchesWith
    <3>2. n = m
      BY <1>1, <1>5, <2>2, <2>5, <3>1 DEF InLine, MatchesWith
    <3> QED
      BY <2>2, <2>4, <3>1, <3>2
  <2>6. \A j : HasRoom(lobby, j) => HasRoom(t, j)
    BY <1>1, <1>5 DEF HasRoom
  <2> QED
    BY <1>1, <1>2, <1>3, <1>4, <2>4, <2>5, <2>6 DEF letters, t
<1>6. CASE MatchOf(k) = {} /\ PendingOf(k) # {}
  <2>1. PICK p \in PendingOf(k) : Waiting(k) = << p.client >>
    BY <1>6 DEF Waiting
  <2>2. \A q \in PendingOf(k) : q = p
    BY <2>1 DEF PendingOf, Safe, CodesSafe
  <2>3. f.type \in {"ERROR", "ROOM_ASSIGNED"}
    BY DEF Error, Assigned
  <2>4. /\ MailGrows(letters) /\ NoOrders(letters)
        /\ p.client \in Conns => Reached(letters, p.client)
    <3>1. DOMAIN << p.client >> = {1} /\ << p.client >>[1] = p.client
      OBVIOUS
    <3>2. IsFiniteSet(DOMAIN << p.client >>)
      BY <3>1, FS_Singleton
    <3> QED
      BY <2>1, <3>1, <3>2, AnswerMail
  <2> HIDE DEF letters
  <2>5. \A j \in Conns : HasRoom(lobby, j) => HasRoom(t, j) \/ Reached(letters, j)
    BY <1>1, <1>6, <2>2, <2>4 DEF HasRoom
  <2>6. \A j : InLine(lobby, j) => InLine(t, j)
    BY <1>1, <1>6, SameLine
  <2> QED
    BY <1>1, <1>2, <1>3, <1>4, <2>4, <2>5, <2>6 DEF letters, t
<1>7. CASE MatchOf(k) = {} /\ PendingOf(k) = {}
  <2>1. DOMAIN << >> = {} /\ Waiting(k) = << >>
    BY <1>7 DEF Waiting
  <2>2. IsFiniteSet(DOMAIN << >>)
    BY <2>1, FS_EmptySet
  <2>3. MailGrows(letters) /\ NoOrders(letters)
    BY <2>1, <2>2, AnswerMail
  <2> HIDE DEF letters
  <2>4. \A j : /\ HasRoom(lobby, j) => HasRoom(t, j)
               /\ InLine(lobby, j) => InLine(t, j)
    BY <1>1, <1>7, SameRooms, SameLine
  <2> QED
    BY <1>1, <1>2, <1>3, <1>4, <2>3, <2>4 DEF letters, t
<1> QED
  BY <1>5, <1>6, <1>7

\* lby_handle_server_room_created and lby_handle_server_room_refused.
LEMMA RoomAnswerWaits ==
  ASSUME LinksSafe, Safe(lobby), Safe(lobby)', WaitsSafe, NEW i \in Conns,
         ServerRoomCreated(i) \/ ServerRoomRefused(i)
  PROVE  WaitsSafe'
<1> PlainOK
  BY DEF WaitsSafe
<1> DEFINE k == Code(i)
           t == Answered(k)
<1>1. PICK f \in {Error, Assigned} :
        /\ inbox[i] # << >> /\ mail' = Told(Waiting(k), f)
        /\ inbox' = Consumed(i) /\ UNCHANGED <<peer, gone, backlog, client, hosted, spent>>
        /\ \/ Head(inbox[i]).type = "ROOM_CREATED" /\ lobby' = t
           \/ Head(inbox[i]).type = "ROOM_REFUSED" /\ lobby' \in {lobby, SetStatus(t, k, "expired")}
  BY DEF ServerRoomCreated, ServerRoomRefused, Handling, Handled
<1>2. /\ MailGrows(mail') /\ NoOrders(mail')
      /\ Safe(t) /\ t.queue = lobby.queue /\ t.codes = lobby.codes
      /\ t.pending \subseteq lobby.pending /\ t.matches \subseteq lobby.matches
      /\ \A p \in t.pending : p.code # k
      /\ \A j \in Conns : /\ HasRoom(lobby, j) => HasRoom(t, j) \/ Reached(mail', j)
                          /\ InLine(lobby, j) => InLine(t, j) \/ Reached(mail', j)
  BY <1>1, AnsweredAll
<1>3. lobby'.servers = lobby.servers
  BY RegistryUntouched
<1>4. Head(inbox[i]).code = k
  BY DEF Code
<1> HIDE DEF t, k
<1>5. /\ \A c \in Codes : lobby.codes[c] # NoRow => lobby'.codes[c] # NoRow
      /\ \/ lobby' = lobby
         \/ lobby'.queue = t.queue /\ lobby'.pending = t.pending /\ lobby'.matches = t.matches
  BY <1>1, <1>2, SetStatusSafe
<1>6. TablesKept
  BY <1>2, <1>3, <1>5, SameTables
<1>7. \A j \in Conns : /\ HasRoom(lobby, j) => HasRoom(lobby', j) \/ Reached(mail', j)
                       /\ InLine(lobby, j) => InLine(lobby', j) \/ Reached(mail', j)
  BY <1>2, <1>5 DEF HasRoom, InLine, Queued, MatchesWith
<1>8. OthersServed(i) /\ ServedToo(i)
  BY <1>1, <1>2, <1>4, <1>7 DEF OthersServed, ServedToo
<1> QED
  BY <1>1, <1>2, <1>6, <1>8, HandledStep

-----------------------------------------------------------------------------
(* The lobby: connections are closed.                                        *)

LEMMA ClosedStep ==
  ASSUME LinksSafe, Safe(lobby)', WaitsSafe, NEW h \in Conns, CloseConn(h),
         UNCHANGED <<backlog, client, hosted, spent>>, MailGrows(mail'),
         peer[h] \notin Servers,
         Tended => /\ TablesKept /\ OthersServed(h) /\ NoOrders(mail')
                   /\ lobby'.pending \subseteq lobby.pending
  PROVE  WaitsSafe'
<1> PlainOK
  BY DEF WaitsSafe
<1>1. /\ peer'[h] = NoPeer /\ NoPeer \notin Servers /\ ~gone'[h]
      /\ \A i \in Conns : i # h => peer'[i] = peer[i] /\ gone'[i] = gone[i]
  BY LobbyPrograms DEF CloseConn, LinksSafe, ConnTypes, Peers
<1>2. PlainOK'
  BY <1>1, LobbyPlain DEF PlainOK, Knocking
<1> SUFFICES ASSUME Sheltered'
             PROVE  Tended'
  BY <1>2 DEF WaitsSafe
<1>3. Tended
  BY DEF WaitsSafe, Sheltered
<1>4. /\ TablesKept /\ OthersServed(h) /\ NoOrders(mail')
      /\ lobby'.pending \subseteq lobby.pending
  BY <1>3
<1>5. WaitsOK'
  BY <1>3, <1>4, ClosedWaits DEF Tended, OthersServed
<1>6. CodesOK'
  BY <1>3, <1>4, ClosedCodes DEF Tended, TablesKept
<1>7. ServersStay'
  BY <1>1, <1>3, <1>4, ServersKept DEF Tended, TablesKept, ServersStay
<1> QED
  BY <1>5, <1>6, <1>7 DEF Tended

\* A client leaves the tables, and the players it was matched with are told.
LEMMA ClientLeaves ==
  ASSUME LinksSafe, PlainOK, Safe(lobby), NEW h \in Conns, CleanupClient(h)
  PROVE  /\ MailGrows(mail') /\ NoOrders(mail') /\ OthersServed(h)
         /\ lobby'.pending \subseteq lobby.pending /\ lobby'.matches \subseteq lobby.matches
         /\ lobby'.codes = lobby.codes /\ lobby'.servers = lobby.servers
<1> DEFINE left == ForgetClient(lobby, h)
           t == Dequeue(left, h)
           others(m) == Restrict(m.conns, {q \in 1 .. MatchSize : m.conns[q] # h})
<1>1. /\ Shaped(left) /\ left.queue = lobby.queue /\ left.enqueue_counter = lobby.enqueue_counter
      /\ left.pending = {p \in lobby.pending : p.client # h} /\ left.matches = lobby.matches
      /\ left.codes = lobby.codes /\ left.servers = lobby.servers
  BY DEF ForgetClient, Safe, Shaped
<1> HIDE DEF left
<1>2. Safe(left)
  BY <1>1, FewerRequests DEF Safe, CodesSafe
<1>3. /\ Safe(t) /\ t.servers = left.servers
      /\ \A j : j # h /\ InLine(left, j) => InLine(t, j)
      /\ t.pending = left.pending /\ t.matches = left.matches
  BY <1>2, DequeueSafe, DequeueLine, RegistryApart DEF Safe
<1>4. t.codes = left.codes
  BY <1>2 DEF Dequeue, Safe, Shaped
<1>5. \/ lobby' = t /\ mail' = mail
      \/ \E m \in MatchesWith(t, h) :
           lobby' = [t EXCEPT !.matches = @ \ {m}] /\ mail' = Told(others(m), Error)
  BY Zenon DEF CleanupClient, left
<1> HIDE DEF t
<1>6. \A j \in Conns : j # h =>
        /\ HasRoom(lobby, j) => HasRoom(t, j)
        /\ InLine(lobby, j) => InLine(t, j)
  BY <1>1, <1>3, SameLine DEF HasRoom
<1>7. CASE lobby' = t /\ mail' = mail
  BY <1>1, <1>3, <1>4, <1>6, <1>7, MailStays DEF OthersServed
<1>8. ASSUME NEW m \in MatchesWith(t, h), lobby' = [t EXCEPT !.matches = @ \ {m}],
             mail' = Told(others(m), Error)
      PROVE  /\ MailGrows(mail') /\ NoOrders(mail') /\ OthersServed(h)
             /\ lobby'.pending \subseteq lobby.pending /\ lobby'.matches \subseteq lobby.matches
             /\ lobby'.codes = lobby.codes /\ lobby'.servers = lobby.servers
  <2> DEFINE told == others(m)
  <2>1. /\ DOMAIN told = {q \in 1 .. MatchSize : m.conns[q] # h}
        /\ \A q \in DOMAIN told : told[q] = m.conns[q]
    BY DEF Restrict
  <2>2. IsFiniteSet(DOMAIN told)
    <3>1. 1 \in Int /\ MatchSize \in Int
      BY TableSizes
    <3>2. IsFiniteSet(1 .. MatchSize)
      BY <3>1, FS_Interval
    <3>3. DOMAIN told \in SUBSET (1 .. MatchSize)
      BY <2>1
    <3> QED
      BY <3>2, <3>3, FS_Subset
  <2>3. mail' = Told(told, Error)
    BY <1>8
  <2> HIDE DEF told, others
  <2>4. /\ MailGrows(mail') /\ NoOrders(mail')
        /\ \A q \in DOMAIN told : told[q] \in Conns => Reached(mail', told[q])
    BY <2>2, <2>3, AnswerMail
  <2>5. /\ lobby'.queue = t.queue /\ lobby'.pending = t.pending
        /\ lobby'.matches = t.matches \ {m}
        /\ lobby'.codes = t.codes /\ lobby'.servers = t.servers
    BY <1>3, <1>8 DEF Safe, Shaped
  <2>6. ASSUME NEW j \in Conns, j # h, InLine(t, j), ~InLine(lobby', j)
        PROVE  Reached(mail', j)
    <3>1. PICK n \in t.matches : \E q \in 1 .. MatchSize : n.conns[q] = j
      BY <2>5, <2>6 DEF InLine, Queued, MatchesWith
    <3>2. n = m
      BY <2>5, <2>6, <3>1 DEF InLine, MatchesWith
    <3> QED
      BY <2>1, <2>4, <2>6, <3>1, <3>2
  <2>7. OthersServed(h)
    BY <1>6, <2>5, <2>6 DEF OthersServed, HasRoom
  <2> QED
    BY <1>1, <1>3, <1>4, <2>4, <2>5, <2>7
<1> QED
  BY <1>5, <1>7, <1>8

\* A connection that is no server's is cleaned up.
LEMMA CleanupWaits ==
  ASSUME LinksSafe, Safe(lobby), Safe(lobby)', WaitsSafe, NEW h \in Conns,
         CleanupConnection(h), peer[h] \notin Servers
  PROVE  WaitsSafe'
<1> PlainOK
  BY DEF WaitsSafe
<1>1. CloseConn(h) /\ UNCHANGED <<backlog, client, hosted, spent>>
  BY DEF CleanupConnection
<1>2. CASE CleanupClient(h)
  <2>1. /\ MailGrows(mail') /\ NoOrders(mail') /\ OthersServed(h)
        /\ lobby'.pending \subseteq lobby.pending /\ lobby'.matches \subseteq lobby.matches
        /\ lobby'.codes = lobby.codes /\ lobby'.servers = lobby.servers
    BY <1>2, ClientLeaves
  <2>2. TablesKept
    BY <2>1, SameTables
  <2> QED
    BY <1>1, <2>1, <2>2, ClosedStep
<1>3. ASSUME mail' = mail,
             Tended => /\ lobby'.queue = lobby.queue /\ lobby'.pending = lobby.pending
                       /\ lobby'.matches = lobby.matches /\ lobby'.codes = lobby.codes
                       /\ lobby'.servers = lobby.servers
      PROVE  WaitsSafe'
  <2>1. MailGrows(mail') /\ NoOrders(mail')
    BY <1>3, MailStays
  <2>2. ASSUME Tended
        PROVE  /\ TablesKept /\ OthersServed(h) /\ NoOrders(mail')
               /\ lobby'.pending \subseteq lobby.pending
    BY <1>3, <2>1, <2>2, SameTables, SameRequests DEF OthersServed
  <2> QED
    BY <1>1, <2>1, <2>2, ClosedStep
<1>4. CASE CleanupServer(h)
  <2>1. \/ lobby' = ForgetServer(lobby, h)
        \/ \E g \in RegisteredOn(lobby, h) : lobby' = ForgetServer(Unregister(lobby, g), h)
    BY <1>4, Zenon DEF CleanupServer
  <2>2. mail' = mail
    BY <1>4, Zenon DEF CleanupServer
  <2>3. ASSUME Tended
        PROVE  /\ lobby'.queue = lobby.queue /\ lobby'.pending = lobby.pending
               /\ lobby'.matches = lobby.matches /\ lobby'.codes = lobby.codes
               /\ lobby'.servers = lobby.servers
    <3>1. RegisteredOn(lobby, h) = {}
      BY <2>3 DEF Tended, ServersStay, RegisteredOn, Registered
    <3>2. /\ {p \in lobby.pending : p.server # h} = lobby.pending
          /\ {m \in lobby.matches : m.server # h} = lobby.matches
      BY <2>3 DEF Tended, ServersStay
    <3> QED
      BY <2>1, <3>1, <3>2 DEF ForgetServer, Safe, Shaped
  <2> QED
    BY <1>3, <2>2, <2>3
<1>5. CASE lobby' = lobby /\ mail' = mail
  BY <1>3, <1>5
<1> QED
  BY <1>2, <1>4, <1>5 DEF CleanupConnection

\* The last message of a connection, and a drop that is found.
LEMMA GoneWaits ==
  ASSUME LinksSafe, Safe(lobby), Safe(lobby)', WaitsSafe, NEW h \in Conns,
         Farewell(h) \/ OldHello(h) \/ DetectDrop(h)
  PROVE  WaitsSafe'
<1> PlainOK
  BY DEF WaitsSafe
<1>1. peer[h] \notin Servers
  <2>1. CASE DetectDrop(h)
    BY <2>1, LobbyPrograms DEF DetectDrop, IsFirst, Dropped, LinksSafe, ConnsOK, Peers
  <2>2. CASE Farewell(h) \/ OldHello(h)
    BY <2>2, HeadOfInbox DEF Farewell, OldHello, Handling, ServerFrames
  <2> QED
    BY <2>1, <2>2
<1>2. CASE Farewell(h) \/ DetectDrop(h)
  BY <1>1, <1>2, CleanupWaits DEF Farewell, DetectDrop
<1>3. CASE OldHello(h)
  <2>1. /\ CloseConn(h) /\ UNCHANGED <<backlog, client, hosted, spent>>
        /\ lobby' = lobby /\ MailGrows(mail') /\ NoOrders(mail')
    BY <1>3, MailStays DEF OldHello
  <2>2. TablesKept /\ OthersServed(h)
    BY <2>1, SameTables DEF OthersServed
  <2> QED
    BY <1>1, <2>1, <2>2, ClosedStep
<1> QED
  BY <1>2, <1>3

-----------------------------------------------------------------------------
(* The lobby: time limits.                                                   *)

LEMMA ExpiredStep ==
  ASSUME LinksSafe, Safe(lobby)', WaitsSafe,
         UNCHANGED <<inbox, peer, gone, backlog, client, hosted, spent>>,
         MailGrows(mail'), NoOrders(mail'),
         lobby'.codes = lobby.codes, lobby'.servers = lobby.servers,
         lobby'.pending \subseteq lobby.pending, lobby'.matches \subseteq lobby.matches,
         \A j \in Conns : /\ HasRoom(lobby, j) => HasRoom(lobby', j) \/ Reached(mail', j)
                          /\ InLine(lobby, j) => InLine(lobby', j) \/ Reached(mail', j)
  PROVE  WaitsSafe'
<1> PlainOK
  BY DEF WaitsSafe
<1>1. PlainOK'
  BY LobbyPlain DEF PlainOK, Knocking
<1> SUFFICES ASSUME Sheltered'
             PROVE  Tended'
  BY <1>1 DEF WaitsSafe
<1>2. Tended
  BY DEF WaitsSafe, Sheltered
<1>3. \A c, j : Link(c, j)' <=> Link(c, j)
  BY DEF Link
<1>4. WaitsOK'
  BY <1>2, <1>3, KeptWaits DEF Tended
<1>5. CodesOK'
  BY <1>2, <1>3, QuietCodes DEF Tended, NoOrders
<1>6. ServersStay'
  BY <1>2, ServersKept DEF Tended, ServersStay, Registered
<1> QED
  BY <1>4, <1>5, <1>6 DEF Tended

\* mm_pending_expire and lobby_pending_expire: who waited for it is told.
LEMMA ExpireWaits ==
  ASSUME LinksSafe, Safe(lobby), Safe(lobby)', WaitsSafe,
         \/ \E m \in lobby.matches : ExpireMatch(m)
         \/ \E p \in lobby.pending : ExpirePending(p)
  PROVE  WaitsSafe'
<1> PlainOK
  BY DEF WaitsSafe
<1>1. ASSUME NEW m \in lobby.matches, ExpireMatch(m)
      PROVE  WaitsSafe'
  <2>1. /\ lobby' = [lobby EXCEPT !.matches = @ \ {m}] /\ mail' = Told(m.conns, Error)
        /\ UNCHANGED <<inbox, peer, gone, backlog, client, hosted, spent>>
    BY <1>1 DEF ExpireMatch, Expires, Kept
  <2>2. /\ lobby'.queue = lobby.queue /\ lobby'.pending = lobby.pending
        /\ lobby'.matches = lobby.matches \ {m}
        /\ lobby'.codes = lobby.codes /\ lobby'.servers = lobby.servers
    BY <2>1 DEF Safe, Shaped
  <2>3. DOMAIN m.conns = 1 .. MatchSize /\ IsFiniteSet(1 .. MatchSize)
    <3>1. 1 \in Int /\ MatchSize \in Int
      BY TableSizes
    <3> QED
      BY <3>1, FS_Interval DEF Safe, CodesSafe
  <2>4. /\ MailGrows(mail') /\ NoOrders(mail')
        /\ \A q \in 1 .. MatchSize : m.conns[q] \in Conns => Reached(mail', m.conns[q])
    BY <2>1, <2>3, AnswerMail
  <2>5. ASSUME NEW j \in Conns, InLine(lobby, j), ~InLine(lobby', j)
        PROVE  Reached(mail', j)
    <3>1. PICK n \in lobby.matches : \E q \in 1 .. MatchSize : n.conns[q] = j
      BY <2>2, <2>5 DEF InLine, Queued, MatchesWith
    <3>2. n = m
      BY <2>2, <2>5, <3>1 DEF InLine, MatchesWith
    <3> QED
      BY <2>4, <3>1, <3>2
  <2> QED
    BY <2>1, <2>2, <2>4, <2>5, ExpiredStep DEF HasRoom
<1>2. ASSUME NEW p \in lobby.pending, ExpirePending(p)
      PROVE  WaitsSafe'
  <2>1. /\ lobby' = [lobby EXCEPT !.pending = @ \ {p}] /\ mail' = Told(<< p.client >>, Error)
        /\ UNCHANGED <<inbox, peer, gone, backlog, client, hosted, spent>>
    BY <1>2 DEF ExpirePending, Expires, Kept
  <2>2. /\ lobby'.queue = lobby.queue /\ lobby'.pending = lobby.pending \ {p}
        /\ lobby'.matches = lobby.matches
        /\ lobby'.codes = lobby.codes /\ lobby'.servers = lobby.servers
    BY <2>1 DEF Safe, Shaped
  <2>3. /\ MailGrows(mail') /\ NoOrders(mail')
        /\ p.client \in Conns => Reached(mail', p.client)
    <3>1. DOMAIN << p.client >> = {1} /\ << p.client >>[1] = p.client
      OBVIOUS
    <3>2. IsFiniteSet(DOMAIN << p.client >>)
      BY <3>1, FS_Singleton
    <3> QED
      BY <2>1, <3>1, <3>2, AnswerMail
  <2>4. \A j \in Conns : /\ HasRoom(lobby, j) => HasRoom(lobby', j) \/ Reached(mail', j)
                         /\ InLine(lobby, j) => InLine(lobby', j)
    BY <2>2, <2>3, SameLine DEF HasRoom
  <2> QED
    BY <2>1, <2>2, <2>3, <2>4, ExpiredStep
<1> QED
  BY <1>1, <1>2

\* svreg_expire_dead and lby_on_dead_server: who waited for the server is told.
LEMMA ExpireServerWaits ==
  ASSUME LinksSafe, Safe(lobby), Safe(lobby)', WaitsSafe, NEW g \in Servers, ExpireServer(g)
  PROVE  WaitsSafe'
<1> PlainOK
  BY DEF WaitsSafe
<1> DEFINE i == lobby.servers[g].conn_id
           waits(j) == \/ \E p \in {p \in lobby.pending : p.server = i} : p.client = j
                       \/ \E m \in {m \in lobby.matches : m.server = i} :
                            \E q \in 1 .. MatchSize : m.conns[q] = j
           told == [j \in {j \in Conns : waits(j)} |-> j]
<1>1. PICK h \in RegisteredOn(lobby, i) :
        /\ stage = "maintain" /\ CloseConn(i) /\ Spend("expiries")
        /\ lobby' = ForgetServer(Unregister(lobby, h), i) /\ mail' = Told(told, Error)
        /\ UNCHANGED <<backlog, client, hosted>>
        /\ g \in Registered(lobby)
  BY Zenon DEF ExpireServer, Expires
<1>2. i \in Conns
  BY <1>1 DEF Registered, LinksSafe, ConnTypes, RegisteredServer
<1>3. /\ DOMAIN told \subseteq Conns /\ \A j \in DOMAIN told : told[j] = j
      /\ \A j \in Conns : waits(j) => j \in DOMAIN told
  OBVIOUS
<1>4. /\ lobby'.queue = lobby.queue /\ lobby'.codes = lobby.codes
      /\ lobby'.servers = [lobby.servers EXCEPT ![h] = NoServer]
      /\ lobby'.pending = {p \in lobby.pending : p.server # i}
      /\ lobby'.matches = {m \in lobby.matches : m.server # i}
  BY <1>1 DEF ForgetServer, Unregister, Safe, Shaped
<1> HIDE DEF told
<1>5. /\ MailGrows(mail') /\ NoOrders(mail')
      /\ \A j \in DOMAIN told : Reached(mail', j)
  <2>1. IsFiniteSet(DOMAIN told)
    BY <1>3, TableSizes, FS_Subset
  <2> QED
    BY <1>1, <1>3, <2>1, AnswerMail
<1>6. ASSUME NEW j \in Conns
      PROVE  /\ HasRoom(lobby, j) => HasRoom(lobby', j) \/ Reached(mail', j)
             /\ InLine(lobby, j) => InLine(lobby', j) \/ Reached(mail', j)
  <2>1. HasRoom(lobby, j) => HasRoom(lobby', j) \/ waits(j)
    BY <1>4 DEF HasRoom
  <2>2. InLine(lobby, j) => InLine(lobby', j) \/ waits(j)
    BY <1>4 DEF InLine, Queued, MatchesWith
  <2> QED
    BY <1>3, <1>5, <2>1, <2>2
<1> HIDE DEF i, waits
<1>7. /\ peer'[i] = NoPeer /\ NoPeer \notin Servers /\ ~gone'[i]
      /\ \A j \in Conns : j # i => peer'[j] = peer[j] /\ gone'[j] = gone[j]
  BY <1>1, <1>2, LobbyPrograms DEF CloseConn, LinksSafe, ConnTypes, Peers
<1>8. "expiries" \in DOMAIN Limit
  BY DEF Limit
<1>9. PlainOK'
  BY <1>1, <1>5, <1>7, <1>8, LobbyPlain DEF PlainOK, Knocking
<1> SUFFICES ASSUME Sheltered'
             PROVE  Tended'
  BY <1>9 DEF WaitsSafe
<1>10. Tended
  BY <1>1, <1>8, Spending DEF WaitsSafe
<1>11. WaitsOK'
  BY <1>1, <1>2, <1>5, <1>6, <1>10, ClosedWaits DEF Tended
<1>12. CodesOK'
  <2>1. inbox[i] = << >>
    BY <1>1, <1>2 DEF LinksSafe, FramesOK
  <2> QED
    BY <1>1, <1>2, <1>4, <1>5, <1>10, <2>1, ClosedCodes DEF Tended
<1>13. ServersStay'
  <2>1. h = g /\ peer[i] = g
    BY <1>1, <1>10 DEF Tended, ServersStay, RegisteredOn, i
  <2>2. \A s \in Registered(lobby') :
          s \in Registered(lobby) /\ s # g /\ lobby'.servers[s] = lobby.servers[s]
    BY <1>4, <2>1 DEF Registered, LinksSafe, ConnTypes
  <2>3. \A s \in Registered(lobby) : lobby.servers[s].conn_id \in Conns
    BY DEF Registered, LinksSafe, ConnTypes, RegisteredServer
  <2>4. \A s \in Registered(lobby') : peer'[lobby'.servers[s].conn_id] = s
    BY <1>7, <1>10, <2>1, <2>2, <2>3 DEF Tended, ServersStay
  <2>5. /\ \A p \in lobby'.pending : p.server \in Conns /\ peer'[p.server] \in Servers
        /\ \A m \in lobby'.matches : m.server \in Conns /\ peer'[m.server] \in Servers
    BY <1>4, <1>7, <1>10 DEF Tended, ServersStay
  <2>6. \A j \in Conns : peer'[j] \in Servers => ~gone'[j]
    BY <1>7, <1>10 DEF Tended, ServersStay
  <2> QED
    BY <2>4, <2>5, <2>6 DEF ServersStay
<1> QED
  BY <1>11, <1>12, <1>13 DEF Tended

\* A code is deleted: of what follows nothing is said.
LEMMA CleanupCodeWaits ==
  ASSUME WaitsSafe, NEW k \in Codes, CleanupCode(k)
  PROVE  WaitsSafe'
<1> PlainOK
  BY DEF WaitsSafe
<1>1. /\ Spend("cleanups") /\ "cleanups" \in DOMAIN Limit
      /\ UNCHANGED <<backlog, client, hosted, mail, peer, gone>>
  BY DEF CleanupCode, Expires, Kept, Limit
<1>2. ~Sheltered'
  BY <1>1, Spending
<1>3. PlainOK'
  BY <1>1, MailStays, LobbyPlain DEF PlainOK, Knocking
<1> QED
  BY <1>2, <1>3 DEF WaitsSafe

-----------------------------------------------------------------------------
(* The clients that wait, in every reachable state.                          *)

\* Init.
LEMMA WaitsInit ==
  ASSUME Init
  PROVE  WaitsSafe
<1>1. PlainOK
  <2>1. Offline \in ClientState
    BY DEF Offline, ClientState, Asking
  <2>2. /\ DOMAIN mail = Peers /\ \A p \in Peers : mail[p] = << >>
        /\ \A i \in Conns : ~gone[i]
        /\ spent \in [DOMAIN Limit -> Nat]
        /\ hosted \in [Servers -> [Codes -> RoomOnServer]]
        /\ \A c : ~Knocking(c)
    BY DEF Init, RoomOnServer, Knocking
  <2>3. client \in [Clients -> ClientState]
    BY <2>1 DEF Init
  <2> QED
    BY <2>2, <2>3, NoFrames DEF PlainOK
<1>2. /\ \A i \in Conns : peer[i] \notin Peers /\ inbox[i] = << >>
      /\ \A g \in Servers, k \in Codes : hosted[g][k] = "none"
      /\ \A p \in Peers : mail[p] = << >>
      /\ lobby.pending = {} /\ lobby.matches = {} /\ Registered(lobby) = {}
  BY LobbyPrograms DEF Init, EmptyTables, Registered
<1>3. ServersStay
  BY <1>2 DEF ServersStay, Peers
<1>4. CodesOK
  BY <1>2, NoFrames DEF CodesOK, Unused
<1>5. WaitsOK
  BY <1>2 DEF WaitsOK, Link, Peers
<1> QED
  BY <1>1, <1>3, <1>4, <1>5 DEF WaitsSafe, Tended

\* Every step.
LEMMA WaitsStep ==
  ASSUME LinksSafe, LinksSafe', Safe(lobby), Safe(lobby)', WaitsSafe, [Next]_vars
  PROVE  WaitsSafe'
<1>1. CASE Update
  <2>1. ASSUME NEW i \in Conns, Handle(i)
        PROVE  WaitsSafe'
    BY <2>1, TalkWaits, CreateWaits, QueueWaits, QueueMatchWaits, CancelWaits, ReportWaits,
       RoomAnswerWaits, ResultWaits, RoomDestroyedWaits, GoneWaits DEF Handle
  <2>2. CASE \E i \in Conns : Accept(i) \/ Handle(i) \/ DetectDrop(i)
    BY <2>1, <2>2, StageWaits, GoneWaits
  <2>3. CASE Poll \/ AcceptDone \/ RecvDone \/ DetectDone \/ MaintainDone
    BY <2>3, StageWaits
  <2> QED
    BY <1>1, <2>2, <2>3 DEF Update
<1>2. CASE Timeouts
  BY <1>2, ExpireWaits, ExpireServerWaits, CleanupCodeWaits DEF Timeouts
<1>3. CASE \E c \in Clients : ClientStep(c)
  BY <1>3, ClientWaits
<1>4. CASE \E g \in Servers : ServerStep(g)
  BY <1>4, ServerWaits
<1>5. CASE UNCHANGED vars
  <2>1. /\ stage' = stage /\ inbox' = inbox /\ peer' = peer /\ gone' = gone /\ lobby' = lobby
        /\ backlog' = backlog /\ mail' = mail /\ client' = client /\ hosted' = hosted
        /\ spent' = spent
    BY <1>5 DEF vars, lobbyVars, connVars
  <2>2. MailGrows(mail') /\ NoOrders(mail')
    BY <2>1, MailStays DEF WaitsSafe
  <2> QED
    BY <2>1, <2>2, ExpiredStep
<1> QED
  BY <1>1, <1>2, <1>3, <1>4, <1>5 DEF Next

LEMMA WaitsStaySafe == Spec => []WaitsSafe
<1>1. Init => WaitsSafe
  BY WaitsInit
<1>2. LinksSafe /\ LinksSafe' /\ Safe(lobby) /\ Safe(lobby)' /\ WaitsSafe /\ [Next]_vars
        => WaitsSafe'
  BY WaitsStep
<1> QED
  BY <1>1, <1>2, TablesStaySafe, LinksStaySafe, PTL DEF Spec

-----------------------------------------------------------------------------
(* The results.                                                              *)

\* However players queue, cancel and vanish, lby_handle_queue leaves fewer of them
\* waiting than a match needs: nobody is refused because the queue is full.
THEOREM QueueIsShort == Spec => []QueueNeverFills
<1>1. Safe(lobby) => QueueNeverFills
  BY DEF Safe, QueueSafe, QueueNeverFills
<1> QED
  BY <1>1, TablesStaySafe, PTL

\* A room code is waited for by one request, for any number of codes, servers and
\* requests, also when codes are deleted and drawn again: the answer of a game
\* server reaches those who asked for that room.
THEOREM CodesAreOneRequests == Spec => []CodesNameOneRequest
<1>1. Safe(lobby) => CodesNameOneRequest
  BY DEF Safe, CodesSafe, CodesNameOneRequest
<1> QED
  BY <1>1, TablesStaySafe, PTL

\* A game server whose connection is up is registered, on that connection, however
\* often it lost one and came back before the lobby had noticed: neither the frames of
\* its old connection nor the cleanup of that connection take it out of the registry.
THEOREM LinksAreRegistered == Spec => []LinkIsRegistered
<1>1. LinksSafe => LinkIsRegistered
  BY DEF LinksSafe, RegisteredOK, LinkIsRegistered, Link
<1> QED
  BY <1>1, LinksStaySafe, PTL

\* A client that waits for a room or for a match, with nothing under way to or from it, is
\* in the lobby's tables, for any number of clients, servers and codes and any size of a
\* match, as long as no game server loses its connection and no code is deleted: every
\* handler, cleanup and time limit that takes it out of the tables writes to it.
THEOREM WaitersStayTracked == Spec => []WaitersAreTracked
<1>1. WaitsSafe => WaitersAreTracked
  <2> SUFFICES ASSUME WaitsSafe, Sheltered, NEW c \in Clients, NEW i \in Conns,
                      Link(c, i), inbox[i] = << >>, mail[c] = << >>
               PROVE  /\ client[c].state = "CREATING_ROOM" => HasRoom(lobby, i)
                      /\ client[c].state = "QUEUED" => InLine(lobby, i)
    BY DEF WaitersAreTracked, Sheltered, HasRoom, InLine
  <2>1. Waits(c, i)
    BY DEF WaitsSafe, Tended, WaitsOK
  <2> QED
    BY <2>1, NoFrames DEF Waits, HasAnswer
<1> QED
  BY <1>1, WaitsStaySafe, PTL

=============================================================================
