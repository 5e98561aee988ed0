------------------------------ MODULE Protocol ------------------------------
(***************************************************************************)
(* The messages of net/protocol.c, each with the function that writes it   *)
(* and the function that reads it, the dispatch on the type byte, and the  *)
(* conversion of a player's command to and from its wire form.             *)
(*                                                                         *)
(* A message is a record: its type, and the counts and flags its layout    *)
(* depends on.                                                             *)
(***************************************************************************)
EXTENDS ViewPacking

NetMaxMsgSizeSmall == 4096
NET_MAX_MSG_SIZE == 8192
NET_FRAME_HEADER_SIZE == 4
NET_MAX_CHAT_LEN == 128
NET_MAX_NAME_LEN == 32
NET_AUTH_TOKEN_LEN == 32
NET_ROOM_CODE_LEN == 8
NET_ADDR_LEN == 64
NET_ED25519_PK_LEN == 32
NET_ED25519_SIG_LEN == 64
NET_CHALLENGE_LEN == 32
LEADERBOARD_MAX_ENTRIES == 100

-----------------------------------------------------------------------------
(* Connection messages.                                                     *)

SerHandshake == Need(2 + NET_AUTH_TOKEN_LEN + NET_ROOM_CODE_LEN + NET_MAX_NAME_LEN)
    \o F("protocol_version", 2) \o Token("auth_token") \o Code("room_code") \o Text("username")
DeserHandshake == Need(2 + NET_AUTH_TOKEN_LEN + NET_ROOM_CODE_LEN + NET_MAX_NAME_LEN)
    \o F("protocol_version", 2) \o Token("auth_token") \o Code("room_code") \o Text("username")

SerHandshakeAck == Need(3 + NET_AUTH_TOKEN_LEN)
    \o F("protocol_version", 2) \o F("assigned_seat", 1) \o Token("session_token")
DeserHandshakeAck == Need(3 + NET_AUTH_TOKEN_LEN)
    \o F("protocol_version", 2) \o F("assigned_seat", 1) \o Token("session_token")

SerHandshakeReject == Need(3) \o F("server_version", 2) \o F("reason", 1)
DeserHandshakeReject == Need(3) \o F("server_version", 2) \o F("reason", 1)

SerPing == Need(8) \o F("sequence", 4) \o F("timestamp_ms", 4)
DeserPing == Need(8) \o F("sequence", 4) \o F("timestamp_ms", 4)

SerPong == Need(12) \o F("sequence", 4) \o F("echo_timestamp_ms", 4) \o F("server_timestamp_ms", 4)
DeserPong == Need(12) \o F("sequence", 4) \o F("echo_timestamp_ms", 4) \o F("server_timestamp_ms", 4)

SerDisconnect == Need(1) \o F("reason", 1)
DeserDisconnect == Need(1) \o F("reason", 1)

SerError == Need(1 + NET_MAX_CHAT_LEN) \o F("code", 1) \o F("message", NET_MAX_CHAT_LEN)
DeserError == Need(1 + NET_MAX_CHAT_LEN) \o F("code", 1) \o F("message", NET_MAX_CHAT_LEN)

SerChat == Need(1 + NET_MAX_CHAT_LEN + 3 + 2 + 32) \o F("seat", 1) \o F("text", NET_MAX_CHAT_LEN)
    \o F("color_r", 1) \o F("color_g", 1) \o F("color_b", 1) \o F("transmute_id", 2) \o F("highlight", 32)
DeserChatUnchecked == Need(1 + NET_MAX_CHAT_LEN + 3) \o F("seat", 1) \o F("text", NET_MAX_CHAT_LEN)
    \o F("color_r", 1) \o F("color_g", 1) \o F("color_b", 1) \o F("transmute_id", 2) \o F("highlight", 32)
DeserChat == Need(1 + NET_MAX_CHAT_LEN + 3 + 2 + 32) \o F("seat", 1) \o F("text", NET_MAX_CHAT_LEN)
    \o F("color_r", 1) \o F("color_g", 1) \o F("color_b", 1) \o F("transmute_id", 2) \o F("highlight", 32)

SerRoomStatus == Need(1 + NET_MAX_PLAYERS * NET_MAX_NAME_LEN + NET_MAX_PLAYERS * 2)
    \o F("player_count", 1) \o Arr("player_names", NET_MAX_PLAYERS, NET_MAX_NAME_LEN)
    \o Arr("slot_occupied", NET_MAX_PLAYERS, 1) \o Arr("slot_is_ai", NET_MAX_PLAYERS, 1)
DeserRoomStatus == Need(1 + NET_MAX_PLAYERS * NET_MAX_NAME_LEN + NET_MAX_PLAYERS * 2)
    \o F("player_count", 1) \o Arr("player_names", NET_MAX_PLAYERS, NET_MAX_NAME_LEN)
    \o Arr("slot_occupied", NET_MAX_PLAYERS, 1) \o Arr("slot_is_ai", NET_MAX_PLAYERS, 1)

-----------------------------------------------------------------------------
(* Game messages.  A command's payload depends on its type, m.cmd.          *)

CardCommands == {"SELECT_CARD", "PLAY_CARD"}

SerInputCmd(m) == Need(2) \o F("type", 1) \o F("source_player", 1) \o
    CASE m.cmd \in CardCommands -> Need(3) \o F("card_index", 1) \o At(<<"card">>, Card)
      [] m.cmd = "SELECT_CONTRACT" -> Need(2) \o F("pair_index", 2)
      [] m.cmd = "SELECT_TRANSMUTATION" -> Need(1) \o F("inv_slot", 1)
      [] m.cmd = "APPLY_TRANSMUTATION" ->
           Need(3) \o F("hand_index", 1) \o F("card_suit", 1) \o F("card_rank", 1)
      [] m.cmd = "ROGUE_REVEAL" -> Need(2) \o F("target_player", 1) \o F("suit", 1)
      [] m.cmd = "DUEL_PICK" -> Need(1) \o F("target_player", 1)
      [] m.cmd = "DUEL_GIVE" -> Need(1) \o F("hand_index", 1)
      [] m.cmd = "DEALER_DIR" -> Need(1) \o F("direction", 1)
      [] m.cmd = "DEALER_AMT" -> Need(1) \o F("amount", 1)
      [] OTHER -> << >>
DeserInputCmd(m) == Need(2) \o F("type", 1) \o F("source_player", 1) \o
    CASE m.cmd \in CardCommands -> Need(3) \o F("card_index", 1) \o At(<<"card">>, Card)
      [] m.cmd = "SELECT_CONTRACT" -> Need(2) \o F("pair_index", 2)
      [] m.cmd = "SELECT_TRANSMUTATION" -> Need(1) \o F("inv_slot", 1)
      [] m.cmd = "APPLY_TRANSMUTATION" ->
           Need(3) \o F("hand_index", 1) \o F("card_suit", 1) \o F("card_rank", 1)
      [] m.cmd = "ROGUE_REVEAL" -> Need(2) \o F("target_player", 1) \o F("suit", 1)
      [] m.cmd = "DUEL_PICK" -> Need(1) \o F("target_player", 1)
      [] m.cmd = "DUEL_GIVE" -> Need(1) \o F("hand_index", 1)
      [] m.cmd = "DEALER_DIR" -> Need(1) \o F("direction", 1)
      [] m.cmd = "DEALER_AMT" -> Need(1) \o F("amount", 1)
      [] OTHER -> << >>

SerRoundStart == Need(5) \o F("round_number", 2) \o F("pass_direction", 1) \o F("pass_count", 1)
    \o F("dealer_seat", 1)
DeserRoundStart == Need(5) \o F("round_number", 2) \o F("pass_direction", 1) \o F("pass_count", 1)
    \o F("dealer_seat", 1)

SerTrickResult == Need(3) \o F("winner_seat", 1) \o F("points", 1) \o F("trick_num", 1)
DeserTrickResult == Need(3) \o F("winner_seat", 1) \o F("points", 1) \o F("trick_num", 1)

GameOverBase == NET_MAX_PLAYERS * 2 + NET_MAX_PLAYERS + 1 + 1
SerGameOver(m) == Need(GameOverBase + (IF m.has_elo THEN NET_MAX_PLAYERS * 4 * 2 ELSE 0))
    \o Arr("final_scores", NET_MAX_PLAYERS, 2) \o Arr("winners", NET_MAX_PLAYERS, 1)
    \o F("winner_count", 1) \o F("has_elo", 1)
    \o IF m.has_elo THEN Arr("prev_elo", NET_MAX_PLAYERS, 4) \o Arr("new_elo", NET_MAX_PLAYERS, 4)
                    ELSE << >>
DeserGameOver(m) == Need(GameOverBase)
    \o Arr("final_scores", NET_MAX_PLAYERS, 2) \o Arr("winners", NET_MAX_PLAYERS, 1)
    \o F("winner_count", 1) \o F("has_elo", 1)
    \o IF m.has_elo THEN Need(NET_MAX_PLAYERS * 4 * 2)   \* len < base + 32, and base bytes are read
                         \o Arr("prev_elo", NET_MAX_PLAYERS, 4) \o Arr("new_elo", NET_MAX_PLAYERS, 4)
                    ELSE << >>

SerPhaseChange == Need(1) \o F("new_phase", 1)
DeserPhaseChange == Need(1) \o F("new_phase", 1)

StartGameFields == Need(4) \o F("ai_difficulty", 1) \o F("timer_option", 1) \o F("point_goal_idx", 1)
    \o F("gamemode", 1)
ReadStartGame == Need(4) \o F("ai_difficulty", 1) \o F("timer_option", 1) \o F("point_goal_idx", 1)
    \o F("gamemode", 1)

SerPassConfirmed == Need(1) \o F("seat", 1)
DeserPassConfirmed == Need(1) \o F("seat", 1)

-----------------------------------------------------------------------------
(* Messages between a client and the lobby.                                 *)

SerRegister == Need(NET_MAX_NAME_LEN + NET_ED25519_PK_LEN) \o Text("username") \o F("public_key", NET_ED25519_PK_LEN)
DeserRegister == Need(NET_MAX_NAME_LEN + NET_ED25519_PK_LEN) \o Text("username") \o F("public_key", NET_ED25519_PK_LEN)

SerLogin == Need(NET_MAX_NAME_LEN) \o Text("username")
DeserLogin == Need(NET_MAX_NAME_LEN) \o Text("username")

SerLoginChallenge == Need(NET_CHALLENGE_LEN) \o F("nonce", NET_CHALLENGE_LEN)
DeserLoginChallenge == Need(NET_CHALLENGE_LEN) \o F("nonce", NET_CHALLENGE_LEN)

SerLoginResponse == Need(NET_ED25519_SIG_LEN) \o F("signature", NET_ED25519_SIG_LEN)
DeserLoginResponse == Need(NET_ED25519_SIG_LEN) \o F("signature", NET_ED25519_SIG_LEN)

\* A lobby of an earlier build sends no username: m.has_username is whether
\* the payload is long enough to hold one.
LoginAckBase == NET_AUTH_TOKEN_LEN + 4 + 4 + 4
SerLoginAck == Need(LoginAckBase + NET_MAX_NAME_LEN) \o Token("auth_token") \o F("elo_rating", 4)
    \o F("games_played", 4) \o F("games_won", 4) \o Text("username")
DeserLoginAck(m) == Need(LoginAckBase) \o Token("auth_token") \o F("elo_rating", 4)
    \o F("games_played", 4) \o F("games_won", 4)
    \o IF m.has_username THEN Need(NET_MAX_NAME_LEN) \o Text("username") ELSE << >>

SerLoginByKey == Need(NET_ED25519_PK_LEN) \o F("public_key", NET_ED25519_PK_LEN)
DeserLoginByKey == Need(NET_ED25519_PK_LEN) \o F("public_key", NET_ED25519_PK_LEN)

VersionBytes == 32
SerLobbyHello == Need(VersionBytes) \o F("version", VersionBytes)
DeserLobbyHello == Need(VersionBytes) \o F("version", VersionBytes)

SerCreateRoom == Need(NET_AUTH_TOKEN_LEN) \o Token("auth_token")
DeserCreateRoom == Need(NET_AUTH_TOKEN_LEN) \o Token("auth_token")

SerJoinRoom == Need(NET_AUTH_TOKEN_LEN + NET_ROOM_CODE_LEN) \o Token("auth_token") \o Code("room_code")
DeserJoinRoom == Need(NET_AUTH_TOKEN_LEN + NET_ROOM_CODE_LEN) \o Token("auth_token") \o Code("room_code")

SerRoomAssigned == Need(NET_ADDR_LEN + 2 + NET_ROOM_CODE_LEN + NET_AUTH_TOKEN_LEN)
    \o F("server_addr", NET_ADDR_LEN) \o F("server_port", 2) \o Code("room_code") \o Token("auth_token")
DeserRoomAssigned == Need(NET_ADDR_LEN + 2 + NET_ROOM_CODE_LEN + NET_AUTH_TOKEN_LEN)
    \o F("server_addr", NET_ADDR_LEN) \o F("server_port", 2) \o Code("room_code") \o Token("auth_token")

SerQueueMatchmake == Need(NET_AUTH_TOKEN_LEN) \o Token("auth_token")
DeserQueueMatchmake == Need(NET_AUTH_TOKEN_LEN) \o Token("auth_token")

SerQueueStatus == Need(4) \o F("position", 2) \o F("estimated_wait_secs", 2)
DeserQueueStatus == Need(4) \o F("position", 2) \o F("estimated_wait_secs", 2)

SerChangeUsername == Need(NET_AUTH_TOKEN_LEN + NET_MAX_NAME_LEN) \o Token("auth_token") \o Text("new_username")
DeserChangeUsername == Need(NET_AUTH_TOKEN_LEN + NET_MAX_NAME_LEN) \o Token("auth_token") \o Text("new_username")

SerStatsRequest == Need(NET_AUTH_TOKEN_LEN) \o Token("auth_token")
DeserStatsRequest == Need(NET_AUTH_TOKEN_LEN) \o Token("auth_token")

SerStatsResponse == Need(50) \o F("elo_rating", 4) \o F("games_played", 4) \o F("games_won", 4)
    \o F("total_score", 4) \o F("moon_shots", 4) \o F("qos_caught", 4) \o F("contracts_fulfilled", 4)
    \o F("perfect_rounds", 4) \o F("hearts_collected", 4) \o F("tricks_won", 4)
    \o F("best_score", 4) \o F("worst_score", 4) \o F("avg_placement_x100", 2)
DeserStatsResponse == Need(50) \o F("elo_rating", 4) \o F("games_played", 4) \o F("games_won", 4)
    \o F("total_score", 4) \o F("moon_shots", 4) \o F("qos_caught", 4) \o F("contracts_fulfilled", 4)
    \o F("perfect_rounds", 4) \o F("hearts_collected", 4) \o F("tricks_won", 4)
    \o F("best_score", 4) \o F("worst_score", 4) \o F("avg_placement_x100", 2)

SerLeaderboardRequest == Need(NET_AUTH_TOKEN_LEN) \o Token("auth_token")
DeserLeaderboardRequest == Need(NET_AUTH_TOKEN_LEN) \o Token("auth_token")

LeaderboardEntry == Text("username") \o F("elo_rating", 4) \o F("games_played", 4) \o F("games_won", 4)
SerLeaderboardResponse(m) == Need(1 + m.entry_count * (NET_MAX_NAME_LEN + 12) + 6)
    \o F("entry_count", 1) \o Each("entries", m.entry_count, LeaderboardEntry)
    \o F("player_rank", 2) \o F("player_elo", 4)
DeserLeaderboardResponse(m) == Need(1) \o F("entry_count", 1)
    \o Refuse(m.entry_count > LEADERBOARD_MAX_ENTRIES)
    \o Need(m.entry_count * (NET_MAX_NAME_LEN + 12) + 6)  \* one byte is read
    \o Each("entries", m.entry_count, LeaderboardEntry)
    \o F("player_rank", 2) \o F("player_elo", 4)

-----------------------------------------------------------------------------
(* Messages between the lobby and a game server.                            *)

SerServerRegister == Need(NET_ADDR_LEN + 6) \o F("addr", NET_ADDR_LEN) \o F("port", 2)
    \o F("max_rooms", 2) \o F("current_rooms", 2)
DeserServerRegister == Need(NET_ADDR_LEN + 6) \o F("addr", NET_ADDR_LEN) \o F("port", 2)
    \o F("max_rooms", 2) \o F("current_rooms", 2)

SerServerCreateRoom == Need(NET_ROOM_CODE_LEN + NET_MAX_PLAYERS * NET_AUTH_TOKEN_LEN)
    \o Code("room_code") \o Arr("player_tokens", NET_MAX_PLAYERS, NET_AUTH_TOKEN_LEN)
DeserServerCreateRoom == Need(NET_ROOM_CODE_LEN + NET_MAX_PLAYERS * NET_AUTH_TOKEN_LEN)
    \o Code("room_code") \o Arr("player_tokens", NET_MAX_PLAYERS, NET_AUTH_TOKEN_LEN)

ServerResultNeed == NET_ROOM_CODE_LEN + 8 + 4 + 1 + 2 + NET_MAX_PLAYERS * NET_AUTH_TOKEN_LEN
    + 6 * NET_MAX_PLAYERS * 2
SerServerResult == Need(ServerResultNeed) \o Code("room_code") \o Arr("final_scores", NET_MAX_PLAYERS, 2)
    \o Arr("winner_seats", NET_MAX_PLAYERS, 1) \o F("winner_count", 1) \o F("rounds_played", 2)
    \o Arr("player_tokens", NET_MAX_PLAYERS, NET_AUTH_TOKEN_LEN)
    \o Arr("moon_shots", NET_MAX_PLAYERS, 2) \o Arr("qos_caught", NET_MAX_PLAYERS, 2)
    \o Arr("contracts_fulfilled", NET_MAX_PLAYERS, 2) \o Arr("perfect_rounds", NET_MAX_PLAYERS, 2)
    \o Arr("hearts_collected", NET_MAX_PLAYERS, 2) \o Arr("tricks_won", NET_MAX_PLAYERS, 2)
DeserServerResult == Need(ServerResultNeed) \o Code("room_code") \o Arr("final_scores", NET_MAX_PLAYERS, 2)
    \o Arr("winner_seats", NET_MAX_PLAYERS, 1) \o F("winner_count", 1) \o F("rounds_played", 2)
    \o Arr("player_tokens", NET_MAX_PLAYERS, NET_AUTH_TOKEN_LEN)
    \o Arr("moon_shots", NET_MAX_PLAYERS, 2) \o Arr("qos_caught", NET_MAX_PLAYERS, 2)
    \o Arr("contracts_fulfilled", NET_MAX_PLAYERS, 2) \o Arr("perfect_rounds", NET_MAX_PLAYERS, 2)
    \o Arr("hearts_collected", NET_MAX_PLAYERS, 2) \o Arr("tricks_won", NET_MAX_PLAYERS, 2)

SerServerHeartbeat == Need(4) \o F("current_rooms", 2) \o F("current_players", 2)
DeserServerHeartbeat == Need(4) \o F("current_rooms", 2) \o F("current_players", 2)

SerServerRoomCreated == Need(NET_ROOM_CODE_LEN + 1) \o Code("room_code") \o F("success", 1)
DeserServerRoomCreated == Need(NET_ROOM_CODE_LEN + 1) \o Code("room_code") \o F("success", 1)

SerServerRoomDestroyed == Need(NET_ROOM_CODE_LEN) \o Code("room_code")
DeserServerRoomDestroyed == Need(NET_ROOM_CODE_LEN) \o Code("room_code")

SerServerEloResult == Need(NET_ROOM_CODE_LEN + NET_MAX_PLAYERS * 4 * 2) \o Code("room_code")
    \o Arr("prev_elo", NET_MAX_PLAYERS, 4) \o Arr("new_elo", NET_MAX_PLAYERS, 4)
DeserServerEloResult == Need(NET_ROOM_CODE_LEN + NET_MAX_PLAYERS * 4 * 2) \o Code("room_code")
    \o Arr("prev_elo", NET_MAX_PLAYERS, 4) \o Arr("new_elo", NET_MAX_PLAYERS, 4)

-----------------------------------------------------------------------------
(* Messages about friends.                                                  *)

SerFriendSearch == Need(64) \o Token("auth_token") \o Text("query")
DeserFriendSearch == Need(64) \o Token("auth_token") \o Text("query")

SearchEntry == Text("username") \o F("account_id", 4) \o F("status", 1)
SerFriendSearchResult(m) == Need(1 + m.count * 37) \o F("count", 1) \o Each("results", m.count, SearchEntry)
DeserFriendSearchResult(m) == Need(1) \o F("count", 1)
    \o Each("results", AtMost(m.count, 10), Need(37) \o SearchEntry)

SerFriendRequest == Need(36) \o Token("auth_token") \o F("target_account_id", 4)
DeserFriendRequest == Need(36) \o Token("auth_token") \o F("target_account_id", 4)

SerFriendAccept == Need(36) \o Token("auth_token") \o F("from_account_id", 4)
DeserFriendAccept == Need(36) \o Token("auth_token") \o F("from_account_id", 4)

SerFriendReject == Need(36) \o Token("auth_token") \o F("from_account_id", 4)
DeserFriendReject == Need(36) \o Token("auth_token") \o F("from_account_id", 4)

SerFriendRemove == Need(36) \o Token("auth_token") \o F("target_account_id", 4)
DeserFriendRemove == Need(36) \o Token("auth_token") \o F("target_account_id", 4)

SerFriendListRequest == Need(32) \o Token("auth_token")
DeserFriendListRequest == Need(32) \o Token("auth_token")

FriendEntry == Text("username") \o F("account_id", 4) \o F("presence", 1)
RequestEntry == Text("username") \o F("account_id", 4)
SerFriendList(m) == Need(1 + m.friend_count * 37 + 1 + m.request_count * 36)
    \o F("friend_count", 1) \o Each("friends", m.friend_count, FriendEntry)
    \o F("request_count", 1) \o Each("incoming_requests", m.request_count, RequestEntry)
DeserFriendList(m) == Need(2)
    \o F("friend_count", 1) \o Each("friends", AtMost(m.friend_count, 20), Need(37) \o FriendEntry)
    \o Need(1) \o F("request_count", 1)
    \o Each("incoming_requests", AtMost(m.request_count, 10), Need(36) \o RequestEntry)

SerFriendUpdate == Need(5) \o F("account_id", 4) \o F("presence", 1)
DeserFriendUpdate == Need(5) \o F("account_id", 4) \o F("presence", 1)

SerFriendRequestNotify == Need(36) \o Text("username") \o F("account_id", 4)
DeserFriendRequestNotify == Need(36) \o Text("username") \o F("account_id", 4)

SerRoomInvite == Need(44) \o Token("auth_token") \o F("target_account_id", 4) \o Code("room_code")
DeserRoomInvite == Need(44) \o Token("auth_token") \o F("target_account_id", 4) \o Code("room_code")

SerRoomInviteNotify == Need(40) \o Text("from_username") \o Code("room_code")
DeserRoomInviteNotify == Need(40) \o Text("from_username") \o Code("room_code")

SerRoomInviteExpired == Need(8) \o Code("room_code")
DeserRoomInviteExpired == Need(8) \o Code("room_code")

-----------------------------------------------------------------------------
(* The dispatch: net_msg_serialize and net_msg_deserialize.                 *)

Bare == {"REQUEST_ADD_AI", "REQUEST_REMOVE_AI", "LOGOUT", "QUEUE_CANCEL", "REGISTER_ACK"}

Serialize(m) == Need(1) \o F("type", 1) \o
    CASE m.type \in Bare -> << >>
      [] m.type = "REQUEST_START_GAME" -> StartGameFields
      [] m.type = "HANDSHAKE" -> SerHandshake
      [] m.type = "HANDSHAKE_ACK" -> SerHandshakeAck
      [] m.type = "HANDSHAKE_REJECT" -> SerHandshakeReject
      [] m.type = "PING" -> SerPing
      [] m.type = "PONG" -> SerPong
      [] m.type = "DISCONNECT" -> SerDisconnect
      [] m.type = "ERROR" -> SerError
      [] m.type = "CHAT" -> SerChat
      [] m.type = "ROOM_STATUS" -> SerRoomStatus
      [] m.type = "INPUT_CMD" -> SerInputCmd(m)
      [] m.type = "STATE_UPDATE" -> SerPlayerView(m)
      [] m.type = "ROUND_START" -> SerRoundStart
      [] m.type = "TRICK_RESULT" -> SerTrickResult
      [] m.type = "GAME_OVER" -> SerGameOver(m)
      [] m.type = "PHASE_CHANGE" -> SerPhaseChange
      [] m.type = "REGISTER" -> SerRegister
      [] m.type = "LOGIN" -> SerLogin
      [] m.type = "LOGIN_ACK" -> SerLoginAck
      [] m.type = "LOGIN_CHALLENGE" -> SerLoginChallenge
      [] m.type = "LOGIN_RESPONSE" -> SerLoginResponse
      [] m.type = "LOGIN_BY_KEY" -> SerLoginByKey
      [] m.type = "LOBBY_HELLO" -> SerLobbyHello
      [] m.type = "CREATE_ROOM" -> SerCreateRoom
      [] m.type = "JOIN_ROOM" -> SerJoinRoom
      [] m.type = "ROOM_ASSIGNED" -> SerRoomAssigned
      [] m.type = "QUEUE_MATCHMAKE" -> SerQueueMatchmake
      [] m.type = "QUEUE_STATUS" -> SerQueueStatus
      [] m.type = "CHANGE_USERNAME" -> SerChangeUsername
      [] m.type = "STATS_REQUEST" -> SerStatsRequest
      [] m.type = "STATS_RESPONSE" -> SerStatsResponse
      [] m.type = "LEADERBOARD_REQUEST" -> SerLeaderboardRequest
      [] m.type = "LEADERBOARD_RESPONSE" -> SerLeaderboardResponse(m)
      [] m.type = "SERVER_REGISTER" -> SerServerRegister
      [] m.type = "SERVER_CREATE_ROOM" -> SerServerCreateRoom
      [] m.type = "SERVER_RESULT" -> SerServerResult
      [] m.type = "SERVER_HEARTBEAT" -> SerServerHeartbeat
      [] m.type = "SERVER_ROOM_CREATED" -> SerServerRoomCreated
      [] m.type = "SERVER_ROOM_DESTROYED" -> SerServerRoomDestroyed
      [] m.type = "SERVER_ELO_RESULT" -> SerServerEloResult
      [] m.type = "PASS_CONFIRMED" -> SerPassConfirmed
      [] m.type = "FRIEND_SEARCH" -> SerFriendSearch
      [] m.type = "FRIEND_SEARCH_RESULT" -> SerFriendSearchResult(m)
      [] m.type = "FRIEND_REQUEST" -> SerFriendRequest
      [] m.type = "FRIEND_ACCEPT" -> SerFriendAccept
      [] m.type = "FRIEND_REJECT" -> SerFriendReject
      [] m.type = "FRIEND_REMOVE" -> SerFriendRemove
      [] m.type = "FRIEND_LIST_REQUEST" -> SerFriendListRequest
      [] m.type = "FRIEND_LIST" -> SerFriendList(m)
      [] m.type = "FRIEND_UPDATE" -> SerFriendUpdate
      [] m.type = "FRIEND_REQUEST_NOTIFY" -> SerFriendRequestNotify
      [] m.type = "ROOM_INVITE" -> SerRoomInvite
      [] m.type = "ROOM_INVITE_NOTIFY" -> SerRoomInviteNotify
      [] m.type = "ROOM_INVITE_EXPIRED" -> SerRoomInviteExpired
      [] OTHER -> Refuse(TRUE)

Deserialize(m) == Need(1) \o F("type", 1) \o
    CASE m.type \in Bare -> << >>
      [] m.type = "REQUEST_START_GAME" -> ReadStartGame
      [] m.type = "HANDSHAKE" -> DeserHandshake
      [] m.type = "HANDSHAKE_ACK" -> DeserHandshakeAck
      [] m.type = "HANDSHAKE_REJECT" -> DeserHandshakeReject
      [] m.type = "PING" -> DeserPing
      [] m.type = "PONG" -> DeserPong
      [] m.type = "DISCONNECT" -> DeserDisconnect
      [] m.type = "ERROR" -> DeserError
      [] m.type = "CHAT" -> DeserChat
      [] m.type = "ROOM_STATUS" -> DeserRoomStatus
      [] m.type = "INPUT_CMD" -> DeserInputCmd(m)
      [] m.type = "STATE_UPDATE" -> DeserPlayerView(m)
      [] m.type = "ROUND_START" -> DeserRoundStart
      [] m.type = "TRICK_RESULT" -> DeserTrickResult
      [] m.type = "GAME_OVER" -> DeserGameOver(m)
      [] m.type = "PHASE_CHANGE" -> DeserPhaseChange
      [] m.type = "REGISTER" -> DeserRegister
      [] m.type = "LOGIN" -> DeserLogin
      [] m.type = "LOGIN_ACK" -> DeserLoginAck(m)
      [] m.type = "LOGIN_CHALLENGE" -> DeserLoginChallenge
      [] m.type = "LOGIN_RESPONSE" -> DeserLoginResponse
      [] m.type = "LOGIN_BY_KEY" -> DeserLoginByKey
      [] m.type = "LOBBY_HELLO" -> DeserLobbyHello
      [] m.type = "CREATE_ROOM" -> DeserCreateRoom
      [] m.type = "JOIN_ROOM" -> DeserJoinRoom
      [] m.type = "ROOM_ASSIGNED" -> DeserRoomAssigned
      [] m.type = "QUEUE_MATCHMAKE" -> DeserQueueMatchmake
      [] m.type = "QUEUE_STATUS" -> DeserQueueStatus
      [] m.type = "CHANGE_USERNAME" -> DeserChangeUsername
      [] m.type = "STATS_REQUEST" -> DeserStatsRequest
      [] m.type = "STATS_RESPONSE" -> DeserStatsResponse
      [] m.type = "LEADERBOARD_REQUEST" -> DeserLeaderboardRequest
      [] m.type = "LEADERBOARD_RESPONSE" -> DeserLeaderboardResponse(m)
      [] m.type = "SERVER_REGISTER" -> DeserServerRegister
      [] m.type = "SERVER_CREATE_ROOM" -> DeserServerCreateRoom
      [] m.type = "SERVER_RESULT" -> DeserServerResult
      [] m.type = "SERVER_HEARTBEAT" -> DeserServerHeartbeat
      [] m.type = "SERVER_ROOM_CREATED" -> DeserServerRoomCreated
      [] m.type = "SERVER_ROOM_DESTROYED" -> DeserServerRoomDestroyed
      [] m.type = "SERVER_ELO_RESULT" -> DeserServerEloResult
      [] m.type = "PASS_CONFIRMED" -> DeserPassConfirmed
      [] m.type = "FRIEND_SEARCH" -> DeserFriendSearch
      [] m.type = "FRIEND_SEARCH_RESULT" -> DeserFriendSearchResult(m)
      [] m.type = "FRIEND_REQUEST" -> DeserFriendRequest
      [] m.type = "FRIEND_ACCEPT" -> DeserFriendAccept
      [] m.type = "FRIEND_REJECT" -> DeserFriendReject
      [] m.type = "FRIEND_REMOVE" -> DeserFriendRemove
      [] m.type = "FRIEND_LIST_REQUEST" -> DeserFriendListRequest
      [] m.type = "FRIEND_LIST" -> DeserFriendList(m)
      [] m.type = "FRIEND_UPDATE" -> DeserFriendUpdate
      [] m.type = "FRIEND_REQUEST_NOTIFY" -> DeserFriendRequestNotify
      [] m.type = "ROOM_INVITE" -> DeserRoomInvite
      [] m.type = "ROOM_INVITE_NOTIFY" -> DeserRoomInviteNotify
      [] m.type = "ROOM_INVITE_EXPIRED" -> DeserRoomInviteExpired
      [] OTHER -> Refuse(TRUE)


-----------------------------------------------------------------------------
(* A command on its way from a client's InputCmd to the server's: the       *)
(* integers of a local command are narrowed to the fields of NetInputCmd,   *)
(* and widened again.                                                       *)

Signed(w, n)   == LET b == n % (2 ^ w) IN IF b >= 2 ^ (w - 1) THEN b - 2 ^ w ELSE b
Unsigned(w, n) == n % (2 ^ w)

\* INPUT_RELEVANT: the commands a client sends and a server obeys.
Relevant == {"CONFIRM", "SELECT_CARD", "PLAY_CARD", "START_GAME", "SELECT_CONTRACT",
             "SELECT_TRANSMUTATION", "APPLY_TRANSMUTATION", "ROGUE_REVEAL", "DUEL_PICK",
             "DUEL_GIVE", "DUEL_RETURN", "DEALER_DIR", "DEALER_AMT", "DEALER_CONFIRM"}

\* net_input_cmd_from_local; args are the numbers of the command in the order
\* of its fields.
FromLocal(cmd, args) ==
    CASE cmd \in CardCommands -> <<Signed(8, Unsigned(8, args[1])), Signed(8, args[2]), Signed(8, args[3])>>
      [] cmd = "SELECT_CONTRACT" -> <<Signed(16, args[1])>>
      [] cmd = "APPLY_TRANSMUTATION" -> <<Signed(8, args[1]), Signed(8, args[2]), Signed(8, args[3])>>
      [] cmd = "ROGUE_REVEAL" -> <<Signed(8, args[1]), Signed(8, args[2])>>
      [] cmd \in {"SELECT_TRANSMUTATION", "DUEL_PICK", "DUEL_GIVE", "DEALER_DIR", "DEALER_AMT"} ->
           <<Signed(8, args[1])>>
      [] OTHER -> << >>

ToLocalUnsigned(cmd, net) ==
    CASE cmd \in CardCommands -> <<Unsigned(8, net[1]), net[2], net[3]>>
      [] cmd = "ROGUE_REVEAL" -> <<net[1], net[2]>>
      [] OTHER -> net

\* net_input_cmd_to_local, of what the bytes of the fields hold.
ToLocal(cmd, net) ==
    CASE cmd \in CardCommands -> <<Signed(8, net[1]), net[2], net[3]>>
      [] cmd = "SELECT_CONTRACT" -> <<net[1]>>
      [] cmd = "APPLY_TRANSMUTATION" -> <<net[1], net[2], net[3]>>
      [] cmd = "ROGUE_REVEAL" -> <<net[1], net[2]>>
      [] cmd \in {"SELECT_TRANSMUTATION", "DUEL_PICK", "DUEL_GIVE", "DEALER_DIR", "DEALER_AMT"} -> <<net[1]>>
      [] OTHER -> << >>

=============================================================================
