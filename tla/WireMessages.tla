---------------------------- MODULE WireMessages ----------------------------
(* Every type of message, with the smallest and the largest counts the      *)
(* program sends: lobby/friends.c stops at 20 friends and 10 requests,      *)
(* lobby/db.c at 10 results and 100 places, and a hand at 13 cards; and,    *)
(* for the views, the counts on both sides of the sizes at which the        *)
(* checks of deser_player_view change their answer.                         *)
EXTENDS Protocol

Numbers == {-1, 0, 3, 17, 51}

ArgCount(cmd) == CASE cmd \in CardCommands \cup {"APPLY_TRANSMUTATION"} -> 3
                   [] cmd = "ROGUE_REVEAL" -> 2
                   [] cmd \in {"SELECT_CONTRACT", "SELECT_TRANSMUTATION", "DUEL_PICK", "DUEL_GIVE",
                               "DEALER_DIR", "DEALER_AMT"} -> 1
                   [] OTHER -> 0

CommandsOf(cmd) == { [type |-> "INPUT_CMD", cmd |-> cmd, args |-> a] : a \in [1..ArgCount(cmd) -> Numbers] }

Plain == { [type |-> t] : t \in Bare \cup
    {"REQUEST_START_GAME", "HANDSHAKE", "HANDSHAKE_ACK", "HANDSHAKE_REJECT", "PING", "PONG", "DISCONNECT",
     "ERROR", "CHAT", "ROOM_STATUS", "ROUND_START", "TRICK_RESULT", "PHASE_CHANGE", "REGISTER", "LOGIN",
     "LOGIN_CHALLENGE", "LOGIN_RESPONSE", "LOGIN_BY_KEY", "LOBBY_HELLO", "CREATE_ROOM", "JOIN_ROOM",
     "ROOM_ASSIGNED", "QUEUE_MATCHMAKE", "QUEUE_STATUS", "CHANGE_USERNAME", "STATS_REQUEST",
     "STATS_RESPONSE", "LEADERBOARD_REQUEST", "SERVER_REGISTER", "SERVER_CREATE_ROOM", "SERVER_RESULT",
     "SERVER_HEARTBEAT", "SERVER_ROOM_CREATED", "SERVER_ROOM_DESTROYED", "SERVER_ELO_RESULT",
     "PASS_CONFIRMED", "FRIEND_SEARCH", "FRIEND_REQUEST", "FRIEND_ACCEPT", "FRIEND_REJECT",
     "FRIEND_REMOVE", "FRIEND_LIST_REQUEST", "FRIEND_UPDATE", "FRIEND_REQUEST_NOTIFY", "ROOM_INVITE",
     "ROOM_INVITE_NOTIFY", "ROOM_INVITE_EXPIRED"} }

\* A view with phase2_enabled FALSE is one of the classic mode: its other counts are not sent.
Views == { [type |-> "STATE_UPDATE", phase2_enabled |-> TRUE, hand_count |-> h, my_num_contracts |-> c,
            transmute_inv_count |-> i, num_persistent_effects |-> e, rogue_revealed_count |-> r] :
           h \in {0, 3, 4, 5, 13}, c \in {0, 3}, i \in {0, 18}, e \in {0, 32}, r \in {0, 1, 13} }
    \cup { [type |-> "STATE_UPDATE", phase2_enabled |-> FALSE, hand_count |-> h] : h \in 0..13 }

AllMessages == Plain \cup Views \cup UNION { CommandsOf(c) : c \in Relevant }
    \cup [type: {"GAME_OVER"}, has_elo: BOOLEAN]
    \cup [type: {"LOGIN_ACK"}, has_username: {TRUE}]
    \cup [type: {"LEADERBOARD_RESPONSE"}, entry_count: {0, 1, 100}]
    \cup [type: {"FRIEND_SEARCH_RESULT"}, count: {0, 1, 10}]
    \cup [type: {"FRIEND_LIST"}, friend_count: {0, 1, 20}, request_count: {0, 1, 10}]

=============================================================================
