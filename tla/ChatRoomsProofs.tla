--------------------------- MODULE ChatRoomsProofs --------------------------
(***************************************************************************)
(* Theorems about ChatRooms, for every set of sockets and nicks, every     *)
(* width of the room index and every choice of ClientRules they name.      *)
(***************************************************************************)
EXTENDS ChatRooms, SequenceFacts

(* NULL and NoEntry are told apart from rooms, so an entry of the table    *)
(* that is a room has the fields of one.                                   *)
LEMMA RoomFields ==
    ASSUME TypeOK, NEW i \in Index, IsRoom(i)
    PROVE  /\ m_RoomInfo[i] \in RoomInfo
           /\ m_RoomInfo[i].m_Status \in {ROOM_PUBLIC, ROOM_WHISPER}
           /\ m_RoomInfo[i].m_Account \in Seq(Socks)
           /\ m_RoomInfo[i].m_MasterAccount \in Socks \cup {NULL}
           /\ m_RoomInfo[i].m_WhisperAccount \in Seq(Nick)
           /\ m_RoomInfo[i].m_banAccount \in SUBSET Nick
<1>1. m_RoomInfo[i] \in RoomInfo
  BY DEF TypeOK, IsRoom
<1> QED
  BY <1>1 DEF RoomInfo

(* Those inside a room are sockets.                                        *)
LEMMA MembersAreSocks ==
    ASSUME TypeOK, NEW i \in Index
    PROVE  Members(i) \subseteq Socks
BY RoomFields, RangeOfSeq DEF Members

(* The key of two nicks is a key.                                          *)
LEMMA KeysAreKeys ==
    ASSUME TypeOK
    PROVE  /\ NoName \in Nick
           /\ \A s, t \in Socks : WhisperKey(s, t) \in WhispKey
<1>1. NoName \in Nick
  BY DEF Nick
<1>2. ASSUME NEW s \in Socks, NEW t \in Socks PROVE WhisperKey(s, t) \in WhispKey
  <2>1. m_UserName[s] \in Nick /\ m_UserName[t] \in Nick
    BY DEF TypeOK
  <2>2. \A x, y \in Nick : x \o y \in WhispKey
    BY DEF WhispKey
  <2> QED
    BY <2>1, <2>2 DEF WhisperKey
<1> QED
  BY <1>1, <1>2

(* Index arithmetic stays within the width of m_RoomIndex.                 *)
LEMMA IndexArithmetic ==
    /\ 1 % IndexSpace \in Index
    /\ TypeOK => NextIndex \in Index
BY IndexAssumption DEF Index, NextIndex, TypeOK

(* Leaving touches nobody's entry but the leaver's, and only the master.   *)
LEMMA LeftFields ==
    ASSUME NEW r \in RoomInfo, NEW s \in Socks
    PROVE  /\ Left(r, s) \in RoomInfo
           /\ Left(r, s).m_Account = RemoveFirst(r.m_Account, s)
           /\ Left(r, s).m_Status = r.m_Status
           /\ Left(r, s).m_WhisperAccount = r.m_WhisperAccount
           /\ Left(r, s).m_banAccount = r.m_banAccount
           /\ Left(r, s).m_MasterAccount =
                IF r.m_MasterAccount = s /\ RemoveFirst(r.m_Account, s) # <<>>
                THEN Head(RemoveFirst(r.m_Account, s))
                ELSE r.m_MasterAccount
<1> DEFINE rest == RemoveFirst(r.m_Account, s)
<1>1. r.m_Account \in Seq(Socks)
  BY DEF RoomInfo
<1>2. rest \in Seq(Socks)
  BY <1>1, RemoveFirstMembers
<1>3. rest # <<>> => Head(rest) \in Socks
  BY <1>2, HeadMember
<1> HIDE DEF rest
<1>4. Left(r, s) = [r EXCEPT !.m_Account = rest,
                             !.m_MasterAccount =
                                 IF @ = s /\ rest # <<>> THEN Head(rest) ELSE @]
  BY DEF Left, rest
<1>5. /\ Left(r, s) \in RoomInfo
      /\ Left(r, s).m_Account = rest
      /\ Left(r, s).m_Status = r.m_Status
      /\ Left(r, s).m_WhisperAccount = r.m_WhisperAccount
      /\ Left(r, s).m_banAccount = r.m_banAccount
      /\ Left(r, s).m_MasterAccount =
           IF r.m_MasterAccount = s /\ rest # <<>>
           THEN Head(rest)
           ELSE r.m_MasterAccount
  BY <1>2, <1>3, <1>4 DEF RoomInfo
<1> QED
  BY <1>5 DEF rest

(* The leaving loop yields tables of the right type.                       *)
LEMMA LeaveRoomsType ==
    ASSUME TypeOK, NEW s \in Socks, NEW D \in SUBSET Index
    PROVE  /\ RoomsWithout(s, D) \in [Index -> RoomInfo \cup {NULL, NoEntry}]
           /\ WhispersWithout(s, D) \in [WhispKey -> Index \cup {NULL}]
<1>1. ASSUME NEW i \in Index, IsRoom(i) PROVE Left(m_RoomInfo[i], s) \in RoomInfo
  BY <1>1, RoomFields, LeftFields
<1>2. RoomsWithout(s, D) \in [Index -> RoomInfo \cup {NULL, NoEntry}]
  BY <1>1 DEF RoomsWithout, TypeOK
<1>3. WhispersWithout(s, D) \in [WhispKey -> Index \cup {NULL}]
  BY DEF WhispersWithout, TypeOK
<1> QED
  BY <1>2, <1>3

(* A lookup may turn an absent entry into a NULL one, nothing else.        *)
LEMMA LookedType ==
    ASSUME TypeOK, NEW i \in Index
    PROVE  Looked(i) \in [Index -> RoomInfo \cup {NULL, NoEntry}]
BY DEF Looked, TypeOK

(* A new room is a room.                                                   *)
LEMMA NewRoomType ==
    ASSUME NEW st \in {ROOM_PUBLIC, ROOM_WHISPER}, NEW s \in Socks
    PROVE  NewRoom(st, s) \in RoomInfo
BY DEF NewRoom, RoomInfo

LEMMA WhisperRoomFields ==
    ASSUME TypeOK, NEW s \in Socks, NEW t \in Socks
    PROVE  /\ WhisperRoom(s, t) \in RoomInfo
           /\ WhisperRoom(s, t).m_Status = ROOM_WHISPER
           /\ WhisperRoom(s, t).m_Account = <<s, t>>
           /\ WhisperRoom(s, t).m_Account # <<>>
           /\ WhisperRoom(s, t).m_WhisperAccount =
                <<m_UserName[s], m_UserName[t]>>
           /\ WhisperRoom(s, t).m_WhisperAccount # <<>>
           /\ WhisperRoom(s, t).m_MasterAccount = NULL
           /\ WhisperRoom(s, t).m_banAccount = {}
<1> DEFINE pair == <<m_UserName[s], m_UserName[t]>>
<1>1. m_UserName[s] \in Nick /\ m_UserName[t] \in Nick
  BY DEF TypeOK
<1>2. pair \in Seq(Nick) /\ pair # <<>>
  BY <1>1
<1>3. <<s, t>> \in Seq(Socks) /\ <<s, t>> # <<>>
  OBVIOUS
<1>4. NewRoom(ROOM_WHISPER, s) \in RoomInfo
  BY NewRoomType
<1> HIDE DEF pair
<1>5. WhisperRoom(s, t) = [NewRoom(ROOM_WHISPER, s) EXCEPT
                              !.m_Account = <<s, t>>,
                              !.m_WhisperAccount = pair,
                              !.m_MasterAccount = NULL]
  BY DEF WhisperRoom, pair
<1>6. /\ WhisperRoom(s, t) \in RoomInfo
      /\ WhisperRoom(s, t).m_Status = ROOM_WHISPER
      /\ WhisperRoom(s, t).m_Account = <<s, t>>
      /\ WhisperRoom(s, t).m_WhisperAccount = pair
      /\ WhisperRoom(s, t).m_MasterAccount = NULL
      /\ WhisperRoom(s, t).m_banAccount = {}
  BY <1>2, <1>3, <1>4, <1>5 DEF RoomInfo, NewRoom
<1> QED
  BY <1>2, <1>3, <1>6 DEF pair

(* A process that has just ended holds empty tables.                       *)
LEMMA GoneType ==
    ASSUME NEW how \in {"hung", "crashed"}, ProcessGone(how)
    PROVE  TypeOK'
BY IndexArithmetic DEF ProcessGone, TypeOK, Nick

(* "/w" addresses the first entry with the given nick: somebody inside.    *)
LEMMA WhisperTarget ==
    ASSUME TypeOK, NEW s \in Socks, NEW i \in Index, NEW n, Whisper(s, i, n)
    PROVE  \E t \in Members(i) :
              t \in Socks /\ m_UserName[t] = n /\ StartWhisper(s, t)
<1> DEFINE q == m_RoomInfo[i].m_Account
           I == {j \in 1 .. Len(q) : m_UserName[q[j]] = n}
           found == SelectInSeq(q, LAMBDA t : m_UserName[t] = n)
<1>1. IsRoom(i) /\ q \in Seq(Socks) /\ Members(i) = Range(q)
  BY RoomFields DEF Whisper, IsOpen, Members
<1>2. Range(q) = {q[j] : j \in 1 .. Len(q)} /\ Len(q) \in Nat
  BY <1>1, RangeEquality, LenProperties
<1>3. I # {} /\ I \in SUBSET Nat
  BY <1>1, <1>2 DEF Whisper
<1>4. found = Min(I)
  BY <1>3 DEF SelectInSeq
<1>5. Min(I) \in I
  BY <1>3, LeastNatural
<1>6. StartWhisper(s, q[found])
  BY DEF Whisper
<1> HIDE DEF found, I
<1>7. found \in 1 .. Len(q) /\ m_UserName[q[found]] = n
  BY <1>4, <1>5 DEF I
<1>8. q[found] \in Members(i)
  BY <1>1, <1>2, <1>7
<1> QED
  BY <1>6, <1>7, <1>8, MembersAreSocks

-----------------------------------------------------------------------------
(* Type correctness.                                                       *)

(* The steps of the loop that lets a socket leave the rooms of D.          *)
LEMMA LeaveRoomsKeepType ==
    ASSUME TypeOK, NEW s \in Socks, NEW D \in SUBSET Index, LeaveRooms(s, D)
    PROVE  /\ m_RoomInfo' \in [Index -> RoomInfo \cup {NULL, NoEntry}]
           /\ m_WhispRoomInfo' \in [WhispKey -> Index \cup {NULL}]
BY LeaveRoomsType DEF LeaveRooms

LEMMA OpenWhisperKeepsType ==
    ASSUME TypeOK, NEW s \in Socks, NEW t \in Socks, OpenWhisper(s, t)
    PROVE  TypeOK'
<1>1. CASE ProcessGone("crashed")
  BY <1>1, GoneType
<1>2. CASE /\ m_RoomInfo' = [m_RoomInfo EXCEPT ![m_RoomIndex] = WhisperRoom(s, t)]
           /\ m_WhispRoomInfo' =
                 [m_WhispRoomInfo EXCEPT ![WhisperKey(s, t)] = m_RoomIndex]
           /\ m_RoomIndex' = NextIndex
           /\ UNCHANGED <<status, m_UserList, m_UserName>>
  BY <1>2, WhisperRoomFields, KeysAreKeys, IndexArithmetic DEF TypeOK
<1> QED
  BY <1>1, <1>2 DEF OpenWhisper

LEMMA RejoinWhisperKeepsType ==
    ASSUME TypeOK, NEW s \in Socks, NEW t \in Socks, RejoinWhisper(s, t)
    PROVE  TypeOK'
<1> DEFINE key == WhisperKey(s, t)
           i == m_WhispRoomInfo[key]
           inside == IF IsRoom(i) THEN m_RoomInfo[i].m_Account ELSE <<>>
           who == Missing(s, t, inside)
<1>1. i \in Index
  BY KeysAreKeys DEF TypeOK, RejoinWhisper
<1>2. who \in Socks
  BY DEF Missing
<1>3. CASE ProcessGone("crashed")
  BY <1>3, GoneType
<1>4. CASE /\ m_RoomInfo' =
                 IF Len(inside) = 1
                 THEN [m_RoomInfo EXCEPT ![i].m_Account = Append(@, who)]
                 ELSE m_RoomInfo
           /\ m_WhispRoomInfo' =
                 [m_WhispRoomInfo EXCEPT ![key] =
                     IF inside = <<>> THEN NULL ELSE @]
           /\ UNCHANGED <<status, m_UserList, m_UserName, m_RoomIndex>>
  <2>1. Len(inside) = 1 => IsRoom(i)
    OBVIOUS
  <2>2. ASSUME IsRoom(i)
        PROVE  [m_RoomInfo[i] EXCEPT !.m_Account = Append(@, who)] \in RoomInfo
    <3>1. m_RoomInfo[i] \in RoomInfo /\ m_RoomInfo[i].m_Account \in Seq(Socks)
      BY <1>1, <2>2, RoomFields
    <3>2. Append(m_RoomInfo[i].m_Account, who) \in Seq(Socks)
      BY <1>2, <3>1, AppendProperties
    <3> QED
      BY <3>1, <3>2 DEF RoomInfo
  <2>3. m_RoomInfo' \in [Index -> RoomInfo \cup {NULL, NoEntry}]
    BY <1>1, <1>4, <2>1, <2>2 DEF TypeOK
  <2>4. m_WhispRoomInfo' \in [WhispKey -> Index \cup {NULL}]
    BY <1>4 DEF TypeOK
  <2> QED
    BY <1>4, <2>3, <2>4 DEF TypeOK
<1> QED
  BY <1>3, <1>4 DEF RejoinWhisper

(* Every step of the server keeps the types of the tables.                 *)
LEMMA NextKeepsType ==
    ASSUME TypeOK, [Next]_vars
    PROVE  TypeOK'
<1>1. ASSUME NEW s \in Socks, AcceptClient(s) PROVE TypeOK'
  BY <1>1 DEF AcceptClient, TypeOK
<1>2. ASSUME NEW s \in Socks, OnClose(s) PROVE TypeOK'
  <2>1. CASE ProcessGone("crashed")
    BY <2>1, GoneType
  <2>2. CASE /\ LeaveRooms(s, RoomsSwept(s))
             /\ m_UserName' = NamesWithout(s)
             /\ m_UserList' = m_UserList \ {s}
             /\ UNCHANGED <<status, m_RoomIndex>>
    <3>1. m_UserName' \in [Socks -> Nick]
      BY <2>2 DEF NamesWithout, TypeOK, Nick
    <3> QED
      BY <2>2, <3>1, LeaveRoomsKeepType DEF TypeOK, RoomsSwept
  <2> QED
    BY <1>2, <2>1, <2>2 DEF OnClose
<1>3. ASSUME NEW s \in Socks, NEW n \in Names, LoginData(s, n) PROVE TypeOK'
  <2>1. CASE \E how \in {"hung", "crashed"} : ProcessGone(how)
    BY <2>1, GoneType
  <2>2. CASE /\ m_UserName' = [m_UserName EXCEPT ![s] = n]
             /\ UNCHANGED <<status, m_UserList, m_RoomInfo, m_WhispRoomInfo,
                            m_RoomIndex>>
    BY <2>2 DEF TypeOK, Nick
  <2>3. ASSUME NEW t \in SignedInAs(n),
               LeaveRooms(t, RoomsSwept(t)),
               m_UserName' = [NamesWithout(t) EXCEPT ![s] = n],
               m_UserList' = m_UserList \ {t},
               UNCHANGED <<status, m_RoomIndex>>
        PROVE  TypeOK'
    <3>1. t \in Socks
      BY DEF SignedInAs, Named
    <3>2. m_UserName' \in [Socks -> Nick]
      BY <2>3 DEF NamesWithout, TypeOK, Nick
    <3> QED
      BY <2>3, <3>1, <3>2, LeaveRoomsKeepType DEF TypeOK, RoomsSwept
  <2> QED
    BY <1>3, <2>1, <2>2, <2>3 DEF LoginData, SignIn, TakeOver, Hang
<1>4. ASSUME NEW s \in Socks, NEW st \in {ROOM_PUBLIC, ROOM_WHISPER},
             CreateOpenRoom(s, st)
      PROVE  TypeOK'
  <2>1. CASE ProcessGone("crashed")
    BY <2>1, GoneType
  <2>2. CASE /\ m_RoomInfo' = [m_RoomInfo EXCEPT ![m_RoomIndex] = NewRoom(st, s)]
             /\ m_RoomIndex' = NextIndex
             /\ UNCHANGED <<status, m_UserList, m_UserName, m_WhispRoomInfo>>
    BY <2>2, NewRoomType, IndexArithmetic DEF TypeOK
  <2> QED
    BY <1>4, <2>1, <2>2 DEF CreateOpenRoom
<1>5. ASSUME NEW s \in Socks, NEW i \in Index, EnterRoom(s, i) PROVE TypeOK'
  <2>1. CASE ~IsRoom(i)
    BY <1>5, <2>1, LookedType DEF EnterRoom, TypeOK
  <2>2. CASE IsRoom(i)
    <3>1. m_RoomInfo[i] \in RoomInfo /\ m_RoomInfo[i].m_Account \in Seq(Socks)
      BY <2>2, RoomFields
    <3>2. Append(m_RoomInfo[i].m_Account, s) \in Seq(Socks)
      BY <3>1, AppendProperties
    <3>3. [m_RoomInfo[i] EXCEPT !.m_Account = Append(@, s)] \in RoomInfo
      BY <3>1, <3>2 DEF RoomInfo
    <3> QED
      BY <1>5, <2>2, <3>3 DEF EnterRoom, TypeOK
  <2> QED
    BY <2>1, <2>2
<1>6. ASSUME NEW s \in Socks, NEW i \in Index, CloseRoom(s, i) PROVE TypeOK'
  <2>1. CASE ~IsRoom(i)
    BY <1>6, <2>1, LookedType DEF CloseRoom, TypeOK
  <2>2. CASE ProcessGone("crashed")
    BY <2>2, GoneType
  <2>3. CASE /\ LeaveRooms(s, {i})
             /\ UNCHANGED <<status, m_UserList, m_UserName, m_RoomIndex>>
    BY <2>3, LeaveRoomsKeepType DEF TypeOK
  <2> QED
    BY <1>6, <2>1, <2>2, <2>3 DEF CloseRoom
<1>7. ASSUME SendRoomList PROVE TypeOK'
  BY <1>7, GoneType DEF SendRoomList
<1>8. ASSUME NEW s \in Socks, NEW t \in Socks, StartWhisper(s, t) PROVE TypeOK'
  BY <1>8, OpenWhisperKeepsType, RejoinWhisperKeepsType DEF StartWhisper
<1>9. ASSUME NEW s \in Socks, NEW i \in Index, NEW n \in Addressed,
             Whisper(s, i, n)
      PROVE  TypeOK'
  BY <1>8, <1>9, WhisperTarget
<1>10. ASSUME NEW s \in Socks, NEW n \in Addressed, FriendTalk(s, n)
       PROVE  TypeOK'
  BY <1>8, <1>10 DEF FriendTalk, TypeOK
<1>11. ASSUME NEW s \in Socks, NEW i \in Index, Say(s, i) PROVE TypeOK'
  <2>1. CASE ProcessGone("crashed")
    BY <2>1, GoneType
  <2>2. CASE /\ m_RoomInfo' = Looked(i)
             /\ UNCHANGED <<status, m_UserList, m_UserName, m_WhispRoomInfo,
                            m_RoomIndex>>
    BY <2>2, LookedType DEF TypeOK
  <2> QED
    BY <1>11, <2>1, <2>2 DEF Say
<1>12. ASSUME NEW s \in Socks, NEW i \in Index, NEW n \in Addressed,
              Kick(s, i, n)
       PROVE  TypeOK'
  BY <1>12, GoneType DEF Kick
<1>13. ASSUME NEW s \in Socks, NEW i \in Index, NEW n \in Addressed,
              NEW bans \in SUBSET Nick, IsMaster(s, i),
              m_RoomInfo' = [m_RoomInfo EXCEPT ![i].m_banAccount = bans],
              UNCHANGED <<status, m_UserList, m_UserName, m_WhispRoomInfo,
                          m_RoomIndex>>
       PROVE  TypeOK'
  <2>1. m_RoomInfo[i] \in RoomInfo
    BY <1>13, RoomFields DEF IsMaster, IsOpen
  <2>2. [m_RoomInfo[i] EXCEPT !.m_banAccount = bans] \in RoomInfo
    BY <2>1 DEF RoomInfo
  <2> QED
    BY <1>13, <2>2 DEF TypeOK
<1>14. ASSUME NEW s \in Socks, NEW i \in Index, NEW n \in Addressed,
              Ban(s, i, n) \/ Unban(s, i, n)
       PROVE  TypeOK'
  <2>1. /\ IsMaster(s, i)
        /\ m_RoomInfo[i].m_banAccount \in SUBSET Nick
    BY <1>14, RoomFields DEF Ban, Unban, IsMaster, IsOpen
  <2>2. n \in Nick
    BY DEF Addressed, Nick
  <2> QED
    BY <1>13, <1>14, <2>1, <2>2 DEF Ban, Unban
<1>15. ASSUME Restart PROVE TypeOK'
  BY <1>15 DEF Restart, TypeOK, tables
<1>16. ASSUME UNCHANGED vars PROVE TypeOK'
  BY <1>16 DEF vars, TypeOK
<1> QED
  BY <1>1, <1>2, <1>3, <1>4, <1>5, <1>6, <1>7, <1>9, <1>10, <1>11, <1>12,
     <1>14, <1>15, <1>16
  DEF Next, ServerStep, LobbyRequest, RoomRequest

(* ChatSer.h, the members of CChatSerApp: whatever clients do, every table *)
(* of the server holds values of its type.                                 *)
THEOREM TypeCorrect == Spec => []TypeOK
<1>1. Init => TypeOK
  BY IndexArithmetic DEF Init, TypeOK, Nick
<1> QED
  BY <1>1, NextKeepsType, PTL DEF Spec

-----------------------------------------------------------------------------
(* One socket per nick.                                                    *)

(* Only logging in, closing and the end of the process touch m_UserName.   *)
LEMMA NamesUntouched ==
    ASSUME TypeOK, [Next]_vars
    PROVE  \/ \E how : ProcessGone(how)
           \/ \E s \in Socks : OnClose(s)
           \/ \E s \in Socks, n \in Names : LoginData(s, n)
           \/ UNCHANGED m_UserName
<1>1. ASSUME NEW s \in Socks, LobbyRequest(s)
      PROVE  (\E how : ProcessGone(how)) \/ UNCHANGED m_UserName
  BY <1>1 DEF LobbyRequest, CreateOpenRoom, EnterRoom, CloseRoom, SendRoomList
<1>2. ASSUME NEW s \in Socks, NEW t, StartWhisper(s, t)
      PROVE  (\E how : ProcessGone(how)) \/ UNCHANGED m_UserName
  BY <1>2 DEF StartWhisper, OpenWhisper, RejoinWhisper
<1>3. ASSUME NEW s \in Socks, NEW i, NEW n, Whisper(s, i, n)
      PROVE  (\E how : ProcessGone(how)) \/ UNCHANGED m_UserName
  BY <1>2, <1>3 DEF Whisper
<1>4. ASSUME NEW s \in Socks, RoomRequest(s)
      PROVE  (\E how : ProcessGone(how)) \/ UNCHANGED m_UserName
  BY <1>3, <1>4 DEF RoomRequest, Say, Kick, Ban, Unban
<1>5. ASSUME NEW s \in Socks, NEW n, FriendTalk(s, n)
      PROVE  (\E how : ProcessGone(how)) \/ UNCHANGED m_UserName
  BY <1>2, <1>5 DEF FriendTalk
<1> QED
  BY <1>1, <1>4, <1>5 DEF Next, ServerStep, AcceptClient, Restart, tables, vars

LEMMA NextKeepsOneSocketPerName ==
    ASSUME TypeOK, OneSocketPerName, [Next]_vars
    PROVE  OneSocketPerName'
<1>1. ASSUME NEW how, ProcessGone(how) PROVE OneSocketPerName'
  BY <1>1 DEF ProcessGone, OneSocketPerName
<1>2. ASSUME NEW s \in Socks, OnClose(s) PROVE OneSocketPerName'
  <2>1. CASE m_UserName' = NamesWithout(s)
    BY <2>1 DEF OneSocketPerName, NamesWithout, TypeOK
  <2> QED
    BY <1>1, <1>2, <2>1 DEF OnClose
<1>3. ASSUME NEW s \in Socks, NEW n \in Names, LoginData(s, n)
      PROVE  OneSocketPerName'
  <2>1. CASE MayFindNobody(n) /\ m_UserName' = [m_UserName EXCEPT ![s] = n]
    BY <2>1 DEF OneSocketPerName, MayFindNobody, SignedInAs, Named, TypeOK
  <2>2. ASSUME NEW t \in SignedInAs(n),
               m_UserName' = [NamesWithout(t) EXCEPT ![s] = n]
        PROVE  OneSocketPerName'
    <3>1. t \in Socks /\ m_UserName[t] = n
      BY DEF SignedInAs, Named
    <3>2. n = NoName \/ \A u \in Socks \ {t} : m_UserName[u] # n
      BY <3>1 DEF OneSocketPerName
    <3> QED
      BY <2>2, <3>1, <3>2 DEF OneSocketPerName, NamesWithout, TypeOK
  <2> QED
    BY <1>1, <1>3, <2>1, <2>2 DEF LoginData, SignIn, TakeOver, Hang
<1>4. CASE UNCHANGED m_UserName
  BY <1>4 DEF OneSocketPerName
<1> QED
  BY <1>1, <1>2, <1>3, <1>4, NamesUntouched

(* LoginData, the takeover loop, with CloseClient: in every reachable      *)
(* state a nick is signed in on at most one socket.                        *)
THEOREM NamesUnique == Spec => []OneSocketPerName
<1>1. Init => OneSocketPerName
  BY DEF Init, OneSocketPerName
<1> QED
  BY <1>1, TypeCorrect, NextKeepsOneSocketPerName, PTL DEF Spec

LEMMA NextKeepsNamesConnected ==
    ASSUME "logged_in" \in ClientRules, TypeOK, NamesConnected, [Next]_vars
    PROVE  NamesConnected'
<1>1. ASSUME NEW how, ProcessGone(how) PROVE NamesConnected'
  BY <1>1 DEF ProcessGone, NamesConnected
<1>2. CASE UNCHANGED m_UserName /\ m_UserList \subseteq m_UserList'
  BY <1>2 DEF NamesConnected
<1>3. ASSUME NEW s \in Socks, OnClose(s) PROVE NamesConnected'
  <2>1. CASE m_UserName' = NamesWithout(s) /\ m_UserList' = m_UserList \ {s}
    BY <2>1 DEF NamesConnected, NamesWithout, TypeOK
  <2> QED
    BY <1>1, <1>3, <2>1 DEF OnClose
<1>4. ASSUME NEW s \in Socks, NEW n \in Names, MayLogin(s, n), LoginData(s, n)
      PROVE  NamesConnected'
  <2>1. n # NoName /\ m_UserName[s] = NoName /\ s \in m_UserList
    BY <1>4 DEF MayLogin, Keeps, LoginData
  <2>2. CASE /\ m_UserName' = [m_UserName EXCEPT ![s] = n]
             /\ UNCHANGED m_UserList
    BY <2>1, <2>2 DEF NamesConnected, TypeOK
  <2>3. ASSUME NEW t \in SignedInAs(n),
               m_UserName' = [NamesWithout(t) EXCEPT ![s] = n],
               m_UserList' = m_UserList \ {t}
        PROVE  NamesConnected'
    <3>1. t \in Socks /\ t # s
      BY <2>1 DEF SignedInAs, Named
    <3> QED
      BY <2>1, <2>3, <3>1 DEF NamesConnected, NamesWithout, TypeOK
  <2> QED
    BY <1>1, <1>4, <2>2, <2>3 DEF LoginData, SignIn, TakeOver, Hang
<1>5. ASSUME NEW s \in Socks, LobbyRequest(s)
      PROVE  (\E how : ProcessGone(how)) \/ UNCHANGED <<m_UserName, m_UserList>>
  BY <1>5 DEF LobbyRequest, CreateOpenRoom, EnterRoom, CloseRoom, SendRoomList
<1>6. ASSUME NEW s \in Socks, NEW t, StartWhisper(s, t)
      PROVE  (\E how : ProcessGone(how)) \/ UNCHANGED <<m_UserName, m_UserList>>
  BY <1>6 DEF StartWhisper, OpenWhisper, RejoinWhisper
<1>7. ASSUME NEW s \in Socks, RoomRequest(s)
      PROVE  (\E how : ProcessGone(how)) \/ UNCHANGED <<m_UserName, m_UserList>>
  BY <1>6, <1>7 DEF RoomRequest, Whisper, Say, Kick, Ban, Unban
<1> QED
  BY <1>1, <1>2, <1>3, <1>4, <1>5, <1>6, <1>7
  DEF Next, ServerStep, FriendTalk, AcceptClient, Restart, tables, vars

(* LoginData and CloseClient: if clients log in once, then in every        *)
(* reachable state a nick belongs to a connected socket.                   *)
THEOREM NamesAreConnected ==
    ASSUME "logged_in" \in ClientRules
    PROVE  Spec => []NamesConnected
<1>1. Init => NamesConnected
  BY DEF Init, NamesConnected
<1> QED
  BY <1>1, TypeCorrect, NextKeepsNamesConnected, PTL DEF Spec

-----------------------------------------------------------------------------
(* Rooms have somebody inside, and their master.                           *)

(* A room that is there after somebody has left rooms of D was there       *)
(* before; in D it has lost an entry and not its last one.                 *)
LEMMA RoomAfterLeaving ==
    ASSUME TypeOK, NEW s \in Socks, NEW D \in SUBSET Index, NEW i \in Index,
           m_RoomInfo' = RoomsWithout(s, D), IsRoom(i)'
    PROVE  /\ IsRoom(i)
           /\ i \in D => /\ m_RoomInfo'[i] = Left(m_RoomInfo[i], s)
                         /\ m_RoomInfo'[i].m_Account # <<>>
           /\ i \notin D => m_RoomInfo'[i] = m_RoomInfo[i]
<1>1. m_RoomInfo'[i] = IF i \in Emptied(s, D) THEN NoEntry
                       ELSE IF i \in D /\ IsRoom(i) THEN Left(m_RoomInfo[i], s)
                       ELSE m_RoomInfo[i]
  BY DEF RoomsWithout
<1>2. i \notin Emptied(s, D)
  BY <1>1 DEF IsRoom
<1>3. IsRoom(i)
  BY <1>1, <1>2 DEF IsRoom
<1> QED
  BY <1>1, <1>2, <1>3 DEF Emptied

(* The part of the invariant that concerns room i.                         *)
RoomSound(i) ==
    IsRoom(i) =>
        /\ m_RoomInfo[i].m_Account # <<>>
        /\ IF m_RoomInfo[i].m_WhisperAccount = <<>>
           THEN m_RoomInfo[i].m_MasterAccount \in Members(i)
           ELSE m_RoomInfo[i].m_MasterAccount = NULL

RoomsSound == \A i \in Index : RoomSound(i)

LEMMA LeaveRoomsKeepSound ==
    ASSUME TypeOK, RoomsSound, NEW s \in Socks, NEW D \in SUBSET Index,
           LeaveRooms(s, D)
    PROVE  RoomsSound'
<1> SUFFICES ASSUME NEW i \in Index, IsRoom(i)'
             PROVE  RoomSound(i)'
  BY DEF RoomsSound, RoomSound
<1> DEFINE r == m_RoomInfo[i]
           rest == RemoveFirst(r.m_Account, s)
<1>1. /\ IsRoom(i)
      /\ i \in D => /\ m_RoomInfo'[i] = Left(r, s)
                    /\ m_RoomInfo'[i].m_Account # <<>>
      /\ i \notin D => m_RoomInfo'[i] = r
  BY RoomAfterLeaving DEF LeaveRooms
<1>2. RoomSound(i)
  BY DEF RoomsSound
<1>3. CASE i \notin D
  BY <1>1, <1>2, <1>3 DEF RoomSound, Members, IsRoom
<1>4. CASE i \in D
  <2>1. /\ r \in RoomInfo
        /\ r.m_Account \in Seq(Socks)
    BY <1>1, RoomFields
  <2>2. /\ Left(r, s).m_Account = rest
        /\ Left(r, s).m_WhisperAccount = r.m_WhisperAccount
        /\ Left(r, s).m_MasterAccount =
             IF r.m_MasterAccount = s /\ rest # <<>> THEN Head(rest)
             ELSE r.m_MasterAccount
    BY <2>1, LeftFields
  <2>3. rest # <<>>
    BY <1>1, <1>4, <2>2
  <2>4. rest \in Seq(Socks)
    BY <2>1, RemoveFirstMembers
  <2>5. Head(rest) \in Range(rest)
    BY <2>3, <2>4, HeadMember
  <2>6. \A x \in Range(r.m_Account) : x # s => x \in Range(rest)
    BY <2>1, RemoveFirstMembers
  <2>7. Members(i)' = Range(rest) /\ Members(i) = Range(r.m_Account)
    BY <1>1, <1>4, <2>2 DEF Members
  <2> HIDE DEF rest, r
  <2>8. CASE r.m_WhisperAccount = <<>>
    BY <1>1, <1>2, <1>4, <2>2, <2>3, <2>5, <2>6, <2>7, <2>8 DEF RoomSound, r
  <2>9. CASE r.m_WhisperAccount # <<>>
    BY <1>1, <1>2, <1>4, <2>2, <2>3, <2>9, NullAssumption DEF RoomSound, r
  <2> QED
    BY <2>8, <2>9
<1> QED
  BY <1>3, <1>4

(* A lookup makes no room and changes none.                                *)
LEMMA LookingKeepsSound ==
    ASSUME TypeOK, RoomsSound, NEW i \in Index, m_RoomInfo' = Looked(i)
    PROVE  RoomsSound'
<1> SUFFICES ASSUME NEW j \in Index, IsRoom(j)'
             PROVE  RoomSound(j)'
  BY DEF RoomsSound, RoomSound
<1>1. m_RoomInfo'[j] = m_RoomInfo[j] /\ IsRoom(j)
  BY DEF Looked, TypeOK, IsRoom
<1> QED
  BY <1>1 DEF RoomsSound, RoomSound, Members, IsRoom

(* A room put into the table is sound, and the others stay as they are.    *)
LEMMA PuttingKeepsSound ==
    ASSUME TypeOK, RoomsSound, NEW i \in Index, NEW r \in RoomInfo,
           m_RoomInfo' = [m_RoomInfo EXCEPT ![i] = r],
           r.m_Account # <<>>,
           IF r.m_WhisperAccount = <<>>
           THEN r.m_MasterAccount \in Range(r.m_Account)
           ELSE r.m_MasterAccount = NULL
    PROVE  RoomsSound'
<1> SUFFICES ASSUME NEW j \in Index, IsRoom(j)'
             PROVE  RoomSound(j)'
  BY DEF RoomsSound, RoomSound
<1>1. CASE j = i
  <2>1. m_RoomInfo'[i] = r
    BY DEF TypeOK
  <2> QED
    BY <1>1, <2>1 DEF RoomSound, Members
<1>2. CASE j # i
  <2>1. m_RoomInfo'[j] = m_RoomInfo[j]
    BY <1>2 DEF TypeOK
  <2> QED
    BY <2>1 DEF RoomsSound, RoomSound, Members, IsRoom
<1> QED
  BY <1>1, <1>2

LEMMA JoiningKeepsSound ==
    ASSUME TypeOK, RoomsSound, NEW i \in Index, NEW s \in Socks, IsRoom(i),
           m_RoomInfo' = [m_RoomInfo EXCEPT ![i].m_Account = Append(@, s)]
    PROVE  RoomsSound'
<1> DEFINE r == m_RoomInfo[i]
           joined == [r EXCEPT !.m_Account = Append(@, s)]
<1>1. r \in RoomInfo /\ r.m_Account \in Seq(Socks) /\ Members(i) = Range(r.m_Account)
  BY RoomFields DEF Members
<1>2. /\ Append(r.m_Account, s) \in Seq(Socks)
      /\ Append(r.m_Account, s) # <<>>
      /\ Range(r.m_Account) \subseteq Range(Append(r.m_Account, s))
  BY <1>1, AppendMembers
<1> HIDE DEF r
<1>3. /\ joined \in RoomInfo
      /\ joined.m_Account = Append(r.m_Account, s)
      /\ joined.m_WhisperAccount = r.m_WhisperAccount
      /\ joined.m_MasterAccount = r.m_MasterAccount
  BY <1>1, <1>2 DEF RoomInfo
<1>4. m_RoomInfo' = [m_RoomInfo EXCEPT ![i] = joined]
  BY DEF r
<1> HIDE DEF joined
<1>5. IF joined.m_WhisperAccount = <<>>
      THEN joined.m_MasterAccount \in Range(joined.m_Account)
      ELSE joined.m_MasterAccount = NULL
  BY <1>1, <1>2, <1>3 DEF RoomsSound, RoomSound, r
<1> QED
  BY <1>2, <1>3, <1>4, <1>5, PuttingKeepsSound

LEMMA BanningKeepsSound ==
    ASSUME TypeOK, RoomsSound, NEW i \in Index, NEW bans, IsRoom(i),
           m_RoomInfo' = [m_RoomInfo EXCEPT ![i].m_banAccount = bans]
    PROVE  RoomsSound'
<1> SUFFICES ASSUME NEW j \in Index, IsRoom(j)'
             PROVE  RoomSound(j)'
  BY DEF RoomsSound, RoomSound
<1> DEFINE r == m_RoomInfo[j]
<1>1. CASE j = i
  <2>1. r \in RoomInfo
    BY <1>1, RoomFields
  <2>2. m_RoomInfo'[j] = [r EXCEPT !.m_banAccount = bans]
    BY <1>1 DEF TypeOK
  <2>3. /\ m_RoomInfo'[j].m_Account = r.m_Account
        /\ m_RoomInfo'[j].m_WhisperAccount = r.m_WhisperAccount
        /\ m_RoomInfo'[j].m_MasterAccount = r.m_MasterAccount
    BY <2>1, <2>2 DEF RoomInfo
  <2> QED
    BY <1>1, <2>3 DEF RoomsSound, RoomSound, Members
<1>2. CASE j # i
  <2>1. m_RoomInfo'[j] = r
    BY <1>2 DEF TypeOK
  <2> QED
    BY <2>1 DEF RoomsSound, RoomSound, Members, IsRoom
<1> QED
  BY <1>1, <1>2

LEMMA WhisperingKeepsSound ==
    ASSUME TypeOK, RoomsSound, NEW s \in Socks, NEW t \in Socks,
           StartWhisper(s, t)
    PROVE  RoomsSound'
<1>1. CASE ProcessGone("crashed")
  BY <1>1 DEF ProcessGone, RoomsSound, RoomSound, IsRoom
<1>2. CASE OpenWhisper(s, t) /\ ~ProcessGone("crashed")
  <2>1. m_RoomInfo' = [m_RoomInfo EXCEPT ![m_RoomIndex] = WhisperRoom(s, t)]
    BY <1>2 DEF OpenWhisper
  <2>2. m_RoomIndex \in Index
    BY DEF TypeOK
  <2> QED
    BY <2>1, <2>2, WhisperRoomFields, PuttingKeepsSound
<1>3. CASE RejoinWhisper(s, t) /\ ~ProcessGone("crashed")
  <2> DEFINE i == m_WhispRoomInfo[WhisperKey(s, t)]
             inside == IF IsRoom(i) THEN m_RoomInfo[i].m_Account ELSE <<>>
  <2>1. i \in Index
    BY <1>3, KeysAreKeys DEF TypeOK, RejoinWhisper
  <2>2. Missing(s, t, inside) \in Socks
    BY DEF Missing
  <2>3. \/ UNCHANGED m_RoomInfo
        \/ /\ IsRoom(i)
           /\ m_RoomInfo' = [m_RoomInfo EXCEPT
                ![i].m_Account = Append(@, Missing(s, t, inside))]
    BY <1>3 DEF RejoinWhisper
  <2> HIDE DEF i, inside
  <2>4. CASE UNCHANGED m_RoomInfo
    BY <2>4 DEF RoomsSound, RoomSound, Members, IsRoom
  <2> QED
    BY <2>1, <2>2, <2>3, <2>4, JoiningKeepsSound
<1> QED
  BY <1>1, <1>2, <1>3 DEF StartWhisper

LEMMA NextKeepsRoomsSound ==
    ASSUME TypeOK, RoomsSound, [Next]_vars
    PROVE  RoomsSound'
<1>1. ASSUME NEW how, ProcessGone(how) PROVE RoomsSound'
  BY <1>1 DEF ProcessGone, RoomsSound, RoomSound, IsRoom
<1>2. CASE UNCHANGED m_RoomInfo
  BY <1>2 DEF RoomsSound, RoomSound, Members, IsRoom
<1>3. ASSUME NEW s \in Socks, OnClose(s) PROVE RoomsSound'
  BY <1>1, <1>3, LeaveRoomsKeepSound DEF OnClose, RoomsSwept
<1>4. ASSUME NEW s \in Socks, NEW n \in Names, LoginData(s, n) PROVE RoomsSound'
  BY <1>1, <1>2, <1>4, LeaveRoomsKeepSound
  DEF LoginData, SignIn, TakeOver, Hang, RoomsSwept, SignedInAs, Named
<1>5. ASSUME NEW s \in Socks, NEW st \in {ROOM_PUBLIC, ROOM_WHISPER},
             CreateOpenRoom(s, st)
      PROVE  RoomsSound'
  <2> DEFINE made == NewRoom(st, s)
  <2>1. /\ made \in RoomInfo
        /\ made.m_Account = <<s>>
        /\ made.m_WhisperAccount = <<>>
        /\ made.m_MasterAccount = s
    BY NewRoomType DEF NewRoom
  <2>2. Range(<<s>>) = {s} /\ <<s>> # <<>>
    BY DEF Range
  <2>3. CASE m_RoomInfo' = [m_RoomInfo EXCEPT ![m_RoomIndex] = made]
    <3>1. m_RoomIndex \in Index
      BY DEF TypeOK
    <3> HIDE DEF made
    <3> QED
      BY <2>1, <2>2, <2>3, <3>1, PuttingKeepsSound
  <2> QED
    BY <1>1, <1>5, <2>3 DEF CreateOpenRoom
<1>6. ASSUME NEW s \in Socks, NEW i \in Index, EnterRoom(s, i) PROVE RoomsSound'
  BY <1>6, JoiningKeepsSound, LookingKeepsSound DEF EnterRoom
<1>7. ASSUME NEW s \in Socks, NEW i \in Index, CloseRoom(s, i) PROVE RoomsSound'
  BY <1>1, <1>7, LeaveRoomsKeepSound, LookingKeepsSound DEF CloseRoom
<1>8. ASSUME NEW s \in Socks, NEW i \in Index, NEW n \in Addressed,
             Whisper(s, i, n)
      PROVE  RoomsSound'
  BY <1>8, WhisperTarget, WhisperingKeepsSound
<1>9. ASSUME NEW s \in Socks, NEW n \in Addressed, FriendTalk(s, n)
      PROVE  RoomsSound'
  BY <1>9, WhisperingKeepsSound DEF FriendTalk, TypeOK
<1>10. ASSUME NEW s \in Socks, NEW i \in Index, Say(s, i) PROVE RoomsSound'
  BY <1>1, <1>10, LookingKeepsSound DEF Say
<1>11. ASSUME NEW s \in Socks, NEW i \in Index, NEW n \in Addressed,
              Ban(s, i, n) \/ Unban(s, i, n)
       PROVE  RoomsSound'
  BY <1>11, BanningKeepsSound DEF Ban, Unban, IsMaster, IsOpen
<1> QED
  BY <1>1, <1>2, <1>3, <1>4, <1>5, <1>6, <1>7, <1>8, <1>9, <1>10, <1>11
  DEF Next, ServerStep, LobbyRequest, RoomRequest, AcceptClient, SendRoomList,
      Kick, Restart, tables, vars

LEMMA RoomsAlwaysSound == Spec => []RoomsSound
<1>1. Init => RoomsSound
  BY DEF Init, RoomsSound, RoomSound, IsRoom
<1> QED
  BY <1>1, TypeCorrect, NextKeepsRoomsSound, PTL DEF Spec

(* CloseRoom and CloseClient, dellist: in every reachable state each room  *)
(* has somebody inside.                                                    *)
THEOREM RoomsNeverEmpty == Spec => []RoomsInhabited
<1>1. RoomsSound => RoomsInhabited
  BY DEF RoomsSound, RoomSound, RoomsInhabited
<1> QED
  BY <1>1, RoomsAlwaysSound, PTL

(* m_MasterAccount: in every reachable state a room that clients made has  *)
(* its master inside, and a room made for a pair has none.                 *)
THEOREM MastersInside == Spec => []MasterPresent
<1>1. RoomsSound => MasterPresent
  BY DEF RoomsSound, RoomSound, MasterPresent
<1> QED
  BY <1>1, RoomsAlwaysSound, PTL

-----------------------------------------------------------------------------
(***************************************************************************)
(* When clients keep enter_once, rooms hold connected sockets only.  The   *)
(* invariant needs more than that: CloseClient erases one entry of the     *)
(* leaver from each room, so nobody may have two.                          *)
(***************************************************************************)

(* The part of the invariant that concerns room i.                         *)
RoomConnected(i) ==
    IsRoom(i) => /\ IsInjective(m_RoomInfo[i].m_Account)
                 /\ Range(m_RoomInfo[i].m_Account) \subseteq m_UserList

RoomsConnected == \A i \in Index : RoomConnected(i)

(* Shorter lists: of one socket, and of a pair.                            *)
LEMMA OneMember ==
    ASSUME NEW s \in Socks
    PROVE  IsInjective(<<s>>) /\ Range(<<s>>) = {s}
BY DEF IsInjective, Range

LEMMA TwoMembers ==
    ASSUME NEW s \in Socks, NEW t \in Socks, s # t
    PROVE  IsInjective(<<s, t>>) /\ Range(<<s, t>>) = {s, t}
BY DEF IsInjective, Range

(* Whoever leaves D is in no room of D any more.                           *)
LEMMA LeavingDisconnects ==
    ASSUME TypeOK, RoomsConnected, NEW s \in Socks, NEW D \in SUBSET Index,
           m_RoomInfo' = RoomsWithout(s, D), NEW i \in Index, IsRoom(i)'
    PROVE  /\ IsRoom(i)
           /\ IsInjective(m_RoomInfo'[i].m_Account)
           /\ Range(m_RoomInfo'[i].m_Account) \subseteq Members(i)
           /\ i \in D => s \notin Range(m_RoomInfo'[i].m_Account)
<1> DEFINE r == m_RoomInfo[i]
<1>1. /\ IsRoom(i)
      /\ i \in D => m_RoomInfo'[i] = Left(r, s)
      /\ i \notin D => m_RoomInfo'[i] = r
  BY RoomAfterLeaving
<1>2. r \in RoomInfo /\ r.m_Account \in Seq(Socks)
  BY <1>1, RoomFields
<1>3. IsInjective(r.m_Account) /\ Members(i) = Range(r.m_Account)
  BY <1>1 DEF RoomsConnected, RoomConnected, Members
<1>4. Left(r, s).m_Account = RemoveFirst(r.m_Account, s)
  BY <1>2, LeftFields
<1> HIDE DEF r
<1>5. /\ IsInjective(RemoveFirst(r.m_Account, s))
      /\ s \notin Range(RemoveFirst(r.m_Account, s))
      /\ Range(RemoveFirst(r.m_Account, s)) \subseteq Range(r.m_Account)
  BY <1>2, <1>3, RemoveFirstDistinct, RemoveFirstMembers
<1> QED
  BY <1>1, <1>3, <1>4, <1>5

(* A client that is disconnected is first taken out of every room.         *)
LEMMA SweepingKeepsConnected ==
    ASSUME TypeOK, RoomsConnected, NEW s \in Socks,
           LeaveRooms(s, RoomsSwept(s)), m_UserList' = m_UserList \ {s}
    PROVE  RoomsConnected'
<1> SUFFICES ASSUME NEW i \in Index, IsRoom(i)'
             PROVE  RoomConnected(i)'
  BY DEF RoomsConnected, RoomConnected
<1>1. /\ IsRoom(i)
      /\ IsInjective(m_RoomInfo'[i].m_Account)
      /\ Range(m_RoomInfo'[i].m_Account) \subseteq Members(i)
      /\ s \notin Range(m_RoomInfo'[i].m_Account)
  BY LeavingDisconnects DEF LeaveRooms, RoomsSwept
<1>2. Members(i) \subseteq m_UserList
  BY <1>1 DEF RoomsConnected, RoomConnected, Members
<1> QED
  BY <1>1, <1>2 DEF RoomConnected

(* Leaving one room by request keeps the socket.                           *)
LEMMA ClosingKeepsConnected ==
    ASSUME TypeOK, RoomsConnected, NEW s \in Socks, NEW i \in Index,
           LeaveRooms(s, {i}), UNCHANGED m_UserList
    PROVE  RoomsConnected'
<1> SUFFICES ASSUME NEW j \in Index, IsRoom(j)'
             PROVE  RoomConnected(j)'
  BY DEF RoomsConnected, RoomConnected
<1>1. /\ IsRoom(j)
      /\ IsInjective(m_RoomInfo'[j].m_Account)
      /\ Range(m_RoomInfo'[j].m_Account) \subseteq Members(j)
  BY LeavingDisconnects DEF LeaveRooms
<1>2. Members(j) \subseteq m_UserList
  BY <1>1 DEF RoomsConnected, RoomConnected, Members
<1> QED
  BY <1>1, <1>2 DEF RoomConnected

(* A room that is put into the table with connected entries only.          *)
LEMMA PuttingKeepsConnected ==
    ASSUME TypeOK, RoomsConnected, NEW i \in Index, NEW r \in RoomInfo,
           m_RoomInfo' = [m_RoomInfo EXCEPT ![i] = r],
           IsInjective(r.m_Account),
           Range(r.m_Account) \subseteq m_UserList,
           UNCHANGED m_UserList
    PROVE  RoomsConnected'
<1> SUFFICES ASSUME NEW j \in Index, IsRoom(j)'
             PROVE  RoomConnected(j)'
  BY DEF RoomsConnected, RoomConnected
<1>1. CASE j = i
  <2>1. m_RoomInfo'[i] = r
    BY DEF TypeOK
  <2> QED
    BY <1>1, <2>1 DEF RoomConnected
<1>2. CASE j # i
  <2>1. m_RoomInfo'[j] = m_RoomInfo[j]
    BY <1>2 DEF TypeOK
  <2> QED
    BY <2>1 DEF RoomsConnected, RoomConnected, IsRoom
<1> QED
  BY <1>1, <1>2

(* A connected socket that is not in a room joins it.                      *)
LEMMA JoiningKeepsConnected ==
    ASSUME TypeOK, RoomsConnected, NEW i \in Index, NEW s \in Socks,
           IsRoom(i), s \in m_UserList, s \notin Members(i),
           m_RoomInfo' = [m_RoomInfo EXCEPT ![i].m_Account = Append(@, s)],
           UNCHANGED m_UserList
    PROVE  RoomsConnected'
<1> DEFINE r == m_RoomInfo[i]
           joined == [r EXCEPT !.m_Account = Append(@, s)]
<1>1. /\ r \in RoomInfo
      /\ r.m_Account \in Seq(Socks)
      /\ Members(i) = Range(r.m_Account)
      /\ IsInjective(r.m_Account)
      /\ Range(r.m_Account) \subseteq m_UserList
  BY RoomFields DEF Members, RoomsConnected, RoomConnected
<1> HIDE DEF r
<1>2. /\ Append(r.m_Account, s) \in Seq(Socks)
      /\ Range(Append(r.m_Account, s)) = Range(r.m_Account) \cup {s}
      /\ IsInjective(Append(r.m_Account, s))
  BY <1>1, AppendMembers
<1>3. joined \in RoomInfo /\ joined.m_Account = Append(r.m_Account, s)
  BY <1>1, <1>2 DEF RoomInfo
<1>4. m_RoomInfo' = [m_RoomInfo EXCEPT ![i] = joined]
  BY DEF r
<1> HIDE DEF joined
<1>5. Range(joined.m_Account) \subseteq m_UserList /\ IsInjective(joined.m_Account)
  BY <1>1, <1>2, <1>3
<1> QED
  BY <1>3, <1>4, <1>5, PuttingKeepsConnected

(* A lookup, and a change of the ban list, leave the entries alone.        *)
LEMMA SameEntriesKeepConnected ==
    ASSUME RoomsConnected, m_UserList \subseteq m_UserList',
           \A i \in Index : IsRoom(i)' =>
               IsRoom(i) /\ m_RoomInfo'[i].m_Account = m_RoomInfo[i].m_Account
    PROVE  RoomsConnected'
BY DEF RoomsConnected, RoomConnected

LEMMA LookingKeepsEntries ==
    ASSUME TypeOK, NEW i \in Index, m_RoomInfo' = Looked(i), NEW j \in Index,
           IsRoom(j)'
    PROVE  IsRoom(j) /\ m_RoomInfo'[j] = m_RoomInfo[j]
BY DEF Looked, TypeOK, IsRoom

LEMMA BanningKeepsEntries ==
    ASSUME TypeOK, NEW i \in Index, NEW bans, IsRoom(i),
           m_RoomInfo' = [m_RoomInfo EXCEPT ![i].m_banAccount = bans],
           NEW j \in Index, IsRoom(j)'
    PROVE  /\ IsRoom(j)
           /\ m_RoomInfo'[j].m_Account = m_RoomInfo[j].m_Account
           /\ m_RoomInfo'[j].m_MasterAccount = m_RoomInfo[j].m_MasterAccount
<1>1. m_RoomInfo[i] \in RoomInfo
  BY RoomFields
<1>2. m_RoomInfo'[j] = IF j = i THEN [m_RoomInfo[i] EXCEPT !.m_banAccount = bans]
                       ELSE m_RoomInfo[j]
  BY DEF TypeOK
<1> QED
  BY <1>1, <1>2 DEF RoomInfo, IsRoom

-----------------------------------------------------------------------------
(* Steps.                                                                  *)

(* A pair's room: two different sockets, both connected.                   *)
LEMMA WhisperingKeepsConnected ==
    ASSUME TypeOK, RoomsConnected, NEW s \in m_UserList, NEW t \in m_UserList,
           StartWhisper(s, t), ~ProcessGone("crashed")
    PROVE  RoomsConnected'
<1>1. s \in Socks /\ t \in Socks /\ m_UserName[s] # m_UserName[t] /\ s # t
  BY DEF TypeOK, StartWhisper
<1>2. CASE OpenWhisper(s, t)
  <2>1. /\ m_RoomInfo' = [m_RoomInfo EXCEPT ![m_RoomIndex] = WhisperRoom(s, t)]
        /\ UNCHANGED m_UserList
        /\ m_RoomIndex \in Index
    BY <1>2 DEF OpenWhisper, TypeOK
  <2>2. /\ WhisperRoom(s, t) \in RoomInfo
        /\ IsInjective(WhisperRoom(s, t).m_Account)
        /\ Range(WhisperRoom(s, t).m_Account) \subseteq m_UserList
    <3>1. /\ WhisperRoom(s, t) \in RoomInfo
          /\ WhisperRoom(s, t).m_Account = <<s, t>>
      BY <1>1, WhisperRoomFields
    <3>2. IsInjective(<<s, t>>) /\ Range(<<s, t>>) \subseteq m_UserList
      BY <1>1, TwoMembers
    <3> QED
      BY <3>1, <3>2
  <2> QED
    BY <2>1, <2>2, PuttingKeepsConnected
<1>3. CASE RejoinWhisper(s, t)
  <2> DEFINE i == m_WhispRoomInfo[WhisperKey(s, t)]
             inside == IF IsRoom(i) THEN m_RoomInfo[i].m_Account ELSE <<>>
             who == Missing(s, t, inside)
  <2>1. i \in Index
    BY <1>1, <1>3, KeysAreKeys DEF TypeOK, RejoinWhisper
  <2>2. UNCHANGED m_UserList
    BY <1>3 DEF RejoinWhisper
  <2>3. CASE m_RoomInfo' = m_RoomInfo
    BY <2>2, <2>3, SameEntriesKeepConnected DEF IsRoom
  <2>4. CASE m_RoomInfo' # m_RoomInfo
    <3>1. /\ Len(inside) = 1
          /\ m_RoomInfo' = [m_RoomInfo EXCEPT ![i].m_Account = Append(@, who)]
      BY <1>3, <2>4 DEF RejoinWhisper
    <3>2. IsRoom(i) /\ inside = m_RoomInfo[i].m_Account
      BY <3>1
    <3>3. inside \in Seq(Socks) /\ Members(i) = Range(inside)
      BY <2>1, <3>2, RoomFields DEF Members
    <3> HIDE DEF inside, i
    <3>4. Members(i) = {Head(inside)}
      BY <3>1, <3>3 DEF Range
    <3>5. who \in m_UserList /\ who \in Socks /\ who # Head(inside)
      BY <1>1 DEF Missing
    <3>6. who \notin Members(i)
      BY <3>4, <3>5
    <3> HIDE DEF who
    <3> QED
      BY <2>1, <2>2, <3>1, <3>2, <3>5, <3>6, JoiningKeepsConnected
  <2> QED
    BY <2>3, <2>4
<1> QED
  BY <1>2, <1>3 DEF StartWhisper

LEMMA NextKeepsConnected ==
    ASSUME "enter_once" \in ClientRules, TypeOK, RoomsConnected, [Next]_vars
    PROVE  RoomsConnected'
<1>1. ASSUME NEW how, ProcessGone(how) PROVE RoomsConnected'
  BY <1>1 DEF ProcessGone, RoomsConnected, RoomConnected, IsRoom
<1>2. CASE UNCHANGED m_RoomInfo /\ m_UserList \subseteq m_UserList'
  BY <1>2, SameEntriesKeepConnected DEF IsRoom
<1>3. ASSUME NEW s \in Socks, OnClose(s) PROVE RoomsConnected'
  BY <1>1, <1>3, SweepingKeepsConnected DEF OnClose
<1>4. ASSUME NEW s \in Socks, NEW n \in Names, LoginData(s, n)
      PROVE  RoomsConnected'
  BY <1>1, <1>2, <1>4, SweepingKeepsConnected
  DEF LoginData, SignIn, TakeOver, Hang, SignedInAs, Named
<1>5. ASSUME NEW s \in m_UserList, NEW st \in {ROOM_PUBLIC, ROOM_WHISPER},
             CreateOpenRoom(s, st), ~ProcessGone("crashed")
      PROVE  RoomsConnected'
  <2>1. s \in Socks /\ m_RoomIndex \in Index
    BY DEF TypeOK
  <2>2. /\ m_RoomInfo' = [m_RoomInfo EXCEPT ![m_RoomIndex] = NewRoom(st, s)]
        /\ UNCHANGED m_UserList
    BY <1>5 DEF CreateOpenRoom
  <2>3. NewRoom(st, s).m_Account = <<s>> /\ NewRoom(st, s) \in RoomInfo
    BY <2>1, NewRoomType DEF NewRoom
  <2>4. /\ IsInjective(NewRoom(st, s).m_Account)
        /\ Range(NewRoom(st, s).m_Account) \subseteq m_UserList
    BY <2>1, <2>3, OneMember
  <2> QED
    BY <2>1, <2>2, <2>3, <2>4, PuttingKeepsConnected
<1>6. ASSUME NEW i \in Index, m_RoomInfo' = Looked(i), UNCHANGED m_UserList
      PROVE  RoomsConnected'
  BY <1>6, LookingKeepsEntries, SameEntriesKeepConnected
<1>7. ASSUME NEW s \in m_UserList, NEW i \in Index, MayEnter(s, i), EnterRoom(s, i)
      PROVE  RoomsConnected'
  <2>1. s \in Socks /\ s \notin Members(i)
    BY <1>7 DEF TypeOK, MayEnter, Keeps
  <2> QED
    BY <1>6, <1>7, <2>1, JoiningKeepsConnected DEF EnterRoom
<1>8. ASSUME NEW s \in Socks, NEW i \in Index, CloseRoom(s, i)
      PROVE  RoomsConnected'
  BY <1>1, <1>6, <1>8, ClosingKeepsConnected DEF CloseRoom
<1>9. ASSUME NEW s \in m_UserList, NEW t \in m_UserList, StartWhisper(s, t)
      PROVE  RoomsConnected'
  BY <1>1, <1>9, WhisperingKeepsConnected
<1>10. ASSUME NEW s \in m_UserList, NEW i \in Index, NEW n, Whisper(s, i, n)
       PROVE  RoomsConnected'
  <2>1. s \in Socks
    BY DEF TypeOK
  <2>2. PICK t \in Members(i) : StartWhisper(s, t)
    BY <1>10, <2>1, WhisperTarget
  <2>3. t \in m_UserList
    BY DEF RoomsConnected, RoomConnected, Members
  <2> QED
    BY <1>9, <2>2, <2>3
<1>11. ASSUME NEW s \in m_UserList, NEW n, FriendTalk(s, n)
       PROVE  RoomsConnected'
  BY <1>9, <1>11 DEF FriendTalk
<1>12. ASSUME NEW s \in Socks, NEW i \in Index, Say(s, i) PROVE RoomsConnected'
  BY <1>1, <1>6, <1>12 DEF Say
<1>13. ASSUME NEW s \in Socks, NEW i \in Index, NEW n,
              Ban(s, i, n) \/ Unban(s, i, n)
       PROVE  RoomsConnected'
  <2>1. /\ IsRoom(i)
        /\ UNCHANGED m_UserList
        /\ \E bans : m_RoomInfo' = [m_RoomInfo EXCEPT ![i].m_banAccount = bans]
    BY <1>13 DEF Ban, Unban, IsMaster, IsOpen
  <2> QED
    BY <2>1, BanningKeepsEntries, SameEntriesKeepConnected
<1>14. ASSUME NEW s \in Socks, MayAsk(s), LobbyRequest(s) PROVE RoomsConnected'
  BY <1>1, <1>5, <1>7, <1>8, <1>14 DEF MayAsk, LobbyRequest, SendRoomList
<1>15. ASSUME NEW s \in Socks, MayAsk(s), RoomRequest(s) PROVE RoomsConnected'
  BY <1>1, <1>10, <1>12, <1>13, <1>15 DEF MayAsk, RoomRequest, Kick
<1> QED
  BY <1>1, <1>2, <1>3, <1>4, <1>11, <1>14, <1>15
  DEF Next, ServerStep, AcceptClient, MayAsk, Restart, tables, vars

LEMMA RoomsAlwaysConnected ==
    ASSUME "enter_once" \in ClientRules
    PROVE  Spec => []RoomsConnected
<1>1. Init => RoomsConnected
  BY DEF Init, RoomsConnected, RoomConnected, IsRoom
<1> QED
  BY <1>1, TypeCorrect, NextKeepsConnected, PTL DEF Spec

(* CloseClient erases one entry per room: if no client enters a room it is *)
(* in, then in every reachable state every entry of every room is a socket *)
(* that is connected, and no message goes through a deleted one.           *)
THEOREM MembersAreConnected ==
    ASSUME "enter_once" \in ClientRules
    PROVE  Spec => []MembersConnected
<1>1. RoomsConnected => MembersConnected
  BY DEF RoomsConnected, RoomConnected, MembersConnected, Members
<1> QED
  BY <1>1, RoomsAlwaysConnected, PTL

-----------------------------------------------------------------------------
(***************************************************************************)
(* m_WhispRoomInfo and the whisper rooms of m_RoomInfo describe each       *)
(* other, whatever clients do.  WhisperIndexExact is inductive beside the  *)
(* types and RoomsSound: a key is dropped by StartWhisper only when nobody *)
(* is inside its room, which RoomsSound excludes.                          *)
(***************************************************************************)

(* The two halves of WhisperIndexExact.                                    *)
KeyExact(k) ==
    m_WhispRoomInfo[k] # NULL =>
        /\ IsWhisper(m_WhispRoomInfo[k])
        /\ Len(m_RoomInfo[m_WhispRoomInfo[k]].m_WhisperAccount) = 2
        /\ KeyOf(m_RoomInfo[m_WhispRoomInfo[k]]) = k

PairExact(i) ==
    IsRoom(i) /\ m_RoomInfo[i].m_WhisperAccount # <<>> =>
        /\ IsWhisper(i)
        /\ Len(m_RoomInfo[i].m_WhisperAccount) = 2
        /\ m_WhispRoomInfo[KeyOf(m_RoomInfo[i])] = i

LEMMA ExactByHalves ==
    /\ WhisperIndexExact <=> /\ \A k \in WhispKey : KeyExact(k)
                             /\ \A i \in Index : PairExact(i)
    /\ WhisperIndexExact' <=> /\ \A k \in WhispKey : KeyExact(k)'
                              /\ \A i \in Index : PairExact(i)'
BY DEF WhisperIndexExact, KeyExact, PairExact

(* The key of a pair's room is a key of m_WhispRoomInfo.                   *)
LEMMA KeyOfPair ==
    ASSUME TypeOK, NEW i \in Index, IsRoom(i),
           Len(m_RoomInfo[i].m_WhisperAccount) = 2
    PROVE  KeyOf(m_RoomInfo[i]) \in WhispKey
<1> DEFINE pair == m_RoomInfo[i].m_WhisperAccount
<1>1. pair \in Seq(Nick) /\ Len(pair) = 2
  BY RoomFields
<1>2. pair[1] \in Nick /\ pair[2] \in Nick
  BY <1>1
<1>3. \A x, y \in Nick : x \o y \in WhispKey
  BY DEF WhispKey
<1> QED
  BY <1>2, <1>3 DEF KeyOf

(* The leaving loop erases exactly the keys of the pairs' rooms it erases. *)
LEMMA LeaveRoomsKeepExact ==
    ASSUME TypeOK, WhisperIndexExact, NEW s \in Socks, NEW D \in SUBSET Index,
           LeaveRooms(s, D)
    PROVE  WhisperIndexExact'
<1> DEFINE erased == {j \in Emptied(s, D) : IsWhisper(j)}
           gone == {KeyOf(m_RoomInfo[j]) : j \in erased}
<1>1. \A k \in WhispKey : m_WhispRoomInfo'[k] =
          IF k \in gone THEN NULL ELSE m_WhispRoomInfo[k]
  BY DEF LeaveRooms, WhispersWithout
<1>2. ASSUME NEW i \in Index, IsRoom(i), i \notin Emptied(s, D)
      PROVE  /\ IsRoom(i)'
             /\ m_RoomInfo'[i].m_Status = m_RoomInfo[i].m_Status
             /\ m_RoomInfo'[i].m_WhisperAccount = m_RoomInfo[i].m_WhisperAccount
  <2>1. m_RoomInfo[i] \in RoomInfo
    BY <1>2, RoomFields
  <2>2. m_RoomInfo'[i] \in {Left(m_RoomInfo[i], s), m_RoomInfo[i]}
    BY <1>2 DEF LeaveRooms, RoomsWithout
  <2>3. Left(m_RoomInfo[i], s) \in RoomInfo
    BY <2>1, LeftFields
  <2> QED
    BY <2>1, <2>2, <2>3, LeftFields, NullAssumption DEF IsRoom
<1>3. ASSUME NEW i \in Index, IsRoom(i)'
      PROVE  IsRoom(i) /\ i \notin Emptied(s, D)
  BY <1>3, RoomAfterLeaving DEF LeaveRooms, RoomsWithout, IsRoom
<1>4. ASSUME NEW j \in erased
      PROVE  /\ j \in Index /\ IsRoom(j)
             /\ m_WhispRoomInfo[KeyOf(m_RoomInfo[j])] = j
  <2>1. j \in Index /\ j \in Emptied(s, D) /\ IsWhisper(j) /\ IsRoom(j)
    BY DEF Emptied
  <2>2. ~(Len(m_RoomInfo[j].m_WhisperAccount) < 2)
    BY <2>1 DEF LeaveRooms, LeavingFaults
  <2>3. m_RoomInfo[j].m_WhisperAccount # <<>>
    BY <2>2
  <2> QED
    BY <2>1, <2>3, ExactByHalves DEF PairExact
<1>5. ASSUME NEW k \in WhispKey PROVE KeyExact(k)'
  <2> SUFFICES ASSUME m_WhispRoomInfo'[k] # NULL
               PROVE  KeyExact(k)'
    BY DEF KeyExact
  <2>1. PICK i \in Index :
           k \notin gone /\ m_WhispRoomInfo'[k] = i /\ m_WhispRoomInfo[k] = i
    BY <1>1 DEF TypeOK
  <2>2. /\ IsWhisper(i)
        /\ Len(m_RoomInfo[i].m_WhisperAccount) = 2
        /\ KeyOf(m_RoomInfo[i]) = k
    BY <2>1, NullAssumption, ExactByHalves DEF KeyExact
  <2>3. i \notin Emptied(s, D)
    BY <2>1, <2>2
  <2>4. /\ IsRoom(i)'
        /\ m_RoomInfo'[i].m_Status = m_RoomInfo[i].m_Status
        /\ m_RoomInfo'[i].m_WhisperAccount = m_RoomInfo[i].m_WhisperAccount
    BY <1>2, <2>2, <2>3 DEF IsWhisper
  <2> QED
    BY <2>1, <2>2, <2>4 DEF KeyExact, IsWhisper, KeyOf
<1>6. ASSUME NEW i \in Index PROVE PairExact(i)'
  <2> SUFFICES ASSUME IsRoom(i)', m_RoomInfo'[i].m_WhisperAccount # <<>>
               PROVE  PairExact(i)'
    BY DEF PairExact
  <2>1. /\ IsRoom(i) /\ i \notin Emptied(s, D)
        /\ m_RoomInfo'[i].m_Status = m_RoomInfo[i].m_Status
        /\ m_RoomInfo'[i].m_WhisperAccount = m_RoomInfo[i].m_WhisperAccount
    BY <1>2, <1>3
  <2>2. /\ IsWhisper(i)
        /\ Len(m_RoomInfo[i].m_WhisperAccount) = 2
        /\ m_WhispRoomInfo[KeyOf(m_RoomInfo[i])] = i
    BY <2>1, ExactByHalves DEF PairExact
  <2>3. KeyOf(m_RoomInfo[i]) \in WhispKey
    BY <2>1, <2>2, KeyOfPair
  <2>4. KeyOf(m_RoomInfo[i]) \notin gone
    BY <1>4, <2>1, <2>2
  <2> HIDE DEF gone
  <2>5. m_WhispRoomInfo'[KeyOf(m_RoomInfo[i])] = i
    BY <1>1, <2>2, <2>3, <2>4
  <2> QED
    BY <2>1, <2>2, <2>5 DEF PairExact, IsWhisper, KeyOf
<1> QED
  BY <1>5, <1>6, ExactByHalves

(* A step that leaves the pairs of all rooms and the keys alone.           *)
LEMMA SamePairsKeepExact ==
    ASSUME WhisperIndexExact, TypeOK, UNCHANGED m_WhispRoomInfo,
           \A i \in Index :
               /\ IsRoom(i)' <=> IsRoom(i)
               /\ IsRoom(i) =>
                    /\ m_RoomInfo'[i].m_Status = m_RoomInfo[i].m_Status
                    /\ m_RoomInfo'[i].m_WhisperAccount =
                         m_RoomInfo[i].m_WhisperAccount
    PROVE  WhisperIndexExact'
<1>1. ASSUME NEW k \in WhispKey PROVE KeyExact(k)'
  <2>1. KeyExact(k) /\ (m_WhispRoomInfo[k] # NULL => m_WhispRoomInfo[k] \in Index)
    BY ExactByHalves DEF TypeOK
  <2> QED
    BY <2>1 DEF KeyExact, IsWhisper, KeyOf
<1>2. ASSUME NEW i \in Index PROVE PairExact(i)'
  <2>1. PairExact(i)
    BY ExactByHalves
  <2> QED
    BY <2>1 DEF PairExact, IsWhisper, KeyOf
<1> QED
  BY <1>1, <1>2, ExactByHalves

LEMMA LookingKeepsPairs ==
    ASSUME TypeOK, WhisperIndexExact, NEW i \in Index, m_RoomInfo' = Looked(i),
           UNCHANGED m_WhispRoomInfo
    PROVE  WhisperIndexExact'
<1>1. ASSUME NEW j \in Index
      PROVE  /\ IsRoom(j)' <=> IsRoom(j)
             /\ IsRoom(j) => m_RoomInfo'[j] = m_RoomInfo[j]
  BY DEF Looked, TypeOK, IsRoom
<1> QED
  BY <1>1, SamePairsKeepExact

(* Entries and bans are not part of a pair.                                *)
LEMMA ChangingKeepsPairs ==
    ASSUME TypeOK, WhisperIndexExact, NEW i \in Index, IsRoom(i),
           NEW r \in RoomInfo, m_RoomInfo' = [m_RoomInfo EXCEPT ![i] = r],
           r.m_Status = m_RoomInfo[i].m_Status,
           r.m_WhisperAccount = m_RoomInfo[i].m_WhisperAccount,
           UNCHANGED m_WhispRoomInfo
    PROVE  WhisperIndexExact'
<1>1. \A j \in Index : m_RoomInfo'[j] = IF j = i THEN r ELSE m_RoomInfo[j]
  BY DEF TypeOK
<1>2. IsRoom(i)'
  BY <1>1, NullAssumption DEF IsRoom
<1> QED
  BY <1>1, <1>2, SamePairsKeepExact DEF IsRoom

LEMMA JoiningKeepsPairs ==
    ASSUME TypeOK, WhisperIndexExact, NEW i \in Index, IsRoom(i),
           NEW s \in Socks,
           m_RoomInfo' = [m_RoomInfo EXCEPT ![i].m_Account = Append(@, s)],
           UNCHANGED m_WhispRoomInfo
    PROVE  WhisperIndexExact'
<1> DEFINE r == m_RoomInfo[i]
           joined == [r EXCEPT !.m_Account = Append(@, s)]
<1>1. r \in RoomInfo /\ r.m_Account \in Seq(Socks)
  BY RoomFields
<1>2. Append(r.m_Account, s) \in Seq(Socks)
  BY <1>1, AppendMembers
<1>3. m_RoomInfo' = [m_RoomInfo EXCEPT ![i] = joined]
  OBVIOUS
<1>4. /\ joined \in RoomInfo
      /\ joined.m_Status = r.m_Status
      /\ joined.m_WhisperAccount = r.m_WhisperAccount
  BY <1>1, <1>2 DEF RoomInfo
<1> HIDE DEF joined
<1> QED
  BY <1>3, <1>4, ChangingKeepsPairs

LEMMA BanningKeepsPairs ==
    ASSUME TypeOK, WhisperIndexExact, NEW i \in Index, IsRoom(i),
           NEW bans \in SUBSET Nick,
           m_RoomInfo' = [m_RoomInfo EXCEPT ![i].m_banAccount = bans],
           UNCHANGED m_WhispRoomInfo
    PROVE  WhisperIndexExact'
<1> DEFINE r == m_RoomInfo[i]
           banned == [r EXCEPT !.m_banAccount = bans]
<1>1. r \in RoomInfo
  BY RoomFields
<1>2. m_RoomInfo' = [m_RoomInfo EXCEPT ![i] = banned]
  OBVIOUS
<1>3. /\ banned \in RoomInfo
      /\ banned.m_Status = r.m_Status
      /\ banned.m_WhisperAccount = r.m_WhisperAccount
  BY <1>1 DEF RoomInfo
<1> HIDE DEF banned
<1> QED
  BY <1>2, <1>3, ChangingKeepsPairs

(* A room put at a free index: no key led there.                           *)
LEMMA CreatingKeepsPairs ==
    ASSUME TypeOK, WhisperIndexExact, SlotFree, NEW r \in RoomInfo,
           m_RoomInfo' = [m_RoomInfo EXCEPT ![m_RoomIndex] = r],
           r.m_WhisperAccount = <<>>,
           UNCHANGED m_WhispRoomInfo
    PROVE  WhisperIndexExact'
<1>1. \A j \in Index : j # m_RoomIndex => m_RoomInfo'[j] = m_RoomInfo[j]
  BY DEF TypeOK
<1>2. m_RoomInfo'[m_RoomIndex] = r
  BY DEF TypeOK
<1>3. ASSUME NEW k \in WhispKey PROVE KeyExact(k)'
  <2>1. KeyExact(k) /\ (m_WhispRoomInfo[k] # NULL => m_WhispRoomInfo[k] \in Index)
    BY ExactByHalves DEF TypeOK
  <2>2. m_WhispRoomInfo[k] # NULL => m_WhispRoomInfo[k] # m_RoomIndex
    BY <2>1 DEF KeyExact, SlotFree, IsWhisper
  <2> QED
    BY <1>1, <2>1, <2>2 DEF KeyExact, IsWhisper, IsRoom, KeyOf
<1>4. ASSUME NEW i \in Index PROVE PairExact(i)'
  <2>1. PairExact(i)
    BY ExactByHalves
  <2> QED
    BY <1>1, <1>2, <2>1 DEF PairExact, IsWhisper, IsRoom, KeyOf
<1> QED
  BY <1>3, <1>4, ExactByHalves

(* A pair's room put at a free index, under a key that was free.           *)
LEMMA OpeningKeepsPairs ==
    ASSUME TypeOK, WhisperIndexExact, SlotFree, NEW r \in RoomInfo,
           m_RoomInfo' = [m_RoomInfo EXCEPT ![m_RoomIndex] = r],
           r.m_Status = ROOM_WHISPER, Len(r.m_WhisperAccount) = 2,
           NEW key \in WhispKey, KeyOf(r) = key, m_WhispRoomInfo[key] = NULL,
           m_WhispRoomInfo' = [m_WhispRoomInfo EXCEPT ![key] = m_RoomIndex]
    PROVE  WhisperIndexExact'
<1>1. /\ \A j \in Index : j # m_RoomIndex => m_RoomInfo'[j] = m_RoomInfo[j]
      /\ \A k \in WhispKey : k # key => m_WhispRoomInfo'[k] = m_WhispRoomInfo[k]
  BY DEF TypeOK
<1>2. PICK new \in Index :
         /\ new = m_RoomIndex
         /\ m_RoomInfo'[new] = r
         /\ m_WhispRoomInfo'[key] = new
  BY DEF TypeOK
<1>3. ~IsRoom(new) /\ IsRoom(new)'
  BY <1>2, NullAssumption DEF SlotFree, IsRoom
<1>4. ASSUME NEW k \in WhispKey PROVE KeyExact(k)'
  <2>1. CASE k = key
    <3>1. IsWhisper(new)' /\ KeyOf(m_RoomInfo'[new]) = key
      BY <1>2, <1>3 DEF IsWhisper
    <3> QED
      BY <1>2, <2>1, <3>1 DEF KeyExact, IsWhisper, IsRoom, KeyOf
  <2>2. CASE k # key
    <3>1. KeyExact(k) /\ (m_WhispRoomInfo[k] # NULL => m_WhispRoomInfo[k] \in Index)
      BY ExactByHalves DEF TypeOK
    <3>2. m_WhispRoomInfo[k] # NULL => m_WhispRoomInfo[k] # new
      BY <1>3, <3>1 DEF KeyExact, IsWhisper
    <3> QED
      BY <1>1, <1>2, <2>2, <3>1, <3>2 DEF KeyExact, IsWhisper, IsRoom, KeyOf
  <2> QED
    BY <2>1, <2>2
<1>5. ASSUME NEW i \in Index PROVE PairExact(i)'
  <2>1. CASE i = new
    BY <1>2, <1>3, <2>1 DEF PairExact, IsWhisper, IsRoom, KeyOf
  <2>2. CASE i # new
    <3> SUFFICES ASSUME IsRoom(i), m_RoomInfo[i].m_WhisperAccount # <<>>
                 PROVE  PairExact(i)'
      BY <1>1, <1>2, <2>2 DEF PairExact, IsRoom
    <3>1. /\ IsWhisper(i)
          /\ Len(m_RoomInfo[i].m_WhisperAccount) = 2
          /\ m_WhispRoomInfo[KeyOf(m_RoomInfo[i])] = i
      BY ExactByHalves DEF PairExact
    <3>2. KeyOf(m_RoomInfo[i]) \in WhispKey /\ KeyOf(m_RoomInfo[i]) # key
      BY <3>1, KeyOfPair, NullAssumption
    <3>3. m_WhispRoomInfo'[KeyOf(m_RoomInfo[i])] = i
      BY <1>1, <3>1, <3>2
    <3>4. m_RoomInfo'[i] = m_RoomInfo[i]
      BY <1>1, <1>2, <2>2
    <3> QED
      BY <3>1, <3>3, <3>4 DEF PairExact, IsWhisper, IsRoom
  <2> QED
    BY <2>1, <2>2
<1> QED
  BY <1>4, <1>5, ExactByHalves

-----------------------------------------------------------------------------
(* Steps.                                                                  *)

LEMMA WhisperingKeepsExact ==
    ASSUME TypeOK, RoomsSound, WhisperIndexExact, NEW s \in Socks,
           NEW t \in Socks, StartWhisper(s, t), ~ProcessGone("crashed")
    PROVE  WhisperIndexExact'
<1> DEFINE key == WhisperKey(s, t)
<1>1. key \in WhispKey
  BY KeysAreKeys
<1>2. CASE OpenWhisper(s, t)
  <2> DEFINE r == WhisperRoom(s, t)
  <2>1. /\ SlotFree
        /\ m_WhispRoomInfo[key] = NULL
        /\ m_RoomInfo' = [m_RoomInfo EXCEPT ![m_RoomIndex] = r]
        /\ m_WhispRoomInfo' = [m_WhispRoomInfo EXCEPT ![key] = m_RoomIndex]
    BY <1>2 DEF OpenWhisper
  <2>2. /\ r \in RoomInfo
        /\ r.m_Status = ROOM_WHISPER
        /\ r.m_WhisperAccount = <<m_UserName[s], m_UserName[t]>>
    BY WhisperRoomFields
  <2> HIDE DEF r
  <2>3. Len(r.m_WhisperAccount) = 2 /\ KeyOf(r) = key
    <3>1. /\ Len(r.m_WhisperAccount) = 2
          /\ r.m_WhisperAccount[1] = m_UserName[s]
          /\ r.m_WhisperAccount[2] = m_UserName[t]
      BY <2>2
    <3> QED
      BY <3>1 DEF KeyOf, WhisperKey
  <2> HIDE DEF key
  <2> QED
    BY <1>1, <2>1, <2>2, <2>3, OpeningKeepsPairs
<1>3. CASE RejoinWhisper(s, t)
  <2>1. PICK i \in Index : m_WhispRoomInfo[key] = i
    BY <1>1, <1>3 DEF RejoinWhisper, TypeOK
  <2> DEFINE inside == IF IsRoom(i) THEN m_RoomInfo[i].m_Account ELSE <<>>
             who == Missing(s, t, inside)
  <2>2. IsRoom(i) /\ m_RoomInfo[i].m_Account # <<>>
    BY <1>1, <2>1, NullAssumption, ExactByHalves
    DEF KeyExact, IsWhisper, RoomsSound, RoomSound
  <2>3. inside # <<>>
    BY <2>2
  <2>4. m_WhispRoomInfo' = [m_WhispRoomInfo EXCEPT ![key] = @]
    BY <1>3, <2>1, <2>3 DEF RejoinWhisper
  <2>5. UNCHANGED m_WhispRoomInfo
    BY <1>1, <2>4 DEF TypeOK
  <2>6. CASE UNCHANGED m_RoomInfo
    BY <2>5, <2>6, SamePairsKeepExact DEF IsRoom
  <2>7. CASE m_RoomInfo' = [m_RoomInfo EXCEPT ![i].m_Account = Append(@, who)]
    <3>1. who \in Socks
      BY DEF Missing
    <3> HIDE DEF who
    <3> QED
      BY <2>2, <2>5, <2>7, <3>1, JoiningKeepsPairs
  <2> QED
    BY <1>3, <2>1, <2>6, <2>7 DEF RejoinWhisper
<1> QED
  BY <1>2, <1>3 DEF StartWhisper

LEMMA NextKeepsExact ==
    ASSUME TypeOK, RoomsSound, WhisperIndexExact, [Next]_vars
    PROVE  WhisperIndexExact'
<1>1. ASSUME NEW how, ProcessGone(how) PROVE WhisperIndexExact'
  BY <1>1, NullAssumption DEF ProcessGone, WhisperIndexExact, IsRoom
<1>2. CASE UNCHANGED <<m_RoomInfo, m_WhispRoomInfo>>
  BY <1>2, SamePairsKeepExact DEF IsRoom
<1>3. ASSUME NEW s \in Socks, OnClose(s) PROVE WhisperIndexExact'
  BY <1>1, <1>3, LeaveRoomsKeepExact DEF OnClose, RoomsSwept
<1>4. ASSUME NEW s \in Socks, NEW n \in Names, LoginData(s, n)
      PROVE  WhisperIndexExact'
  BY <1>1, <1>2, <1>4, LeaveRoomsKeepExact
  DEF LoginData, SignIn, TakeOver, Hang, RoomsSwept, SignedInAs, Named
<1>5. ASSUME NEW s \in Socks, NEW st \in {ROOM_PUBLIC, ROOM_WHISPER},
             CreateOpenRoom(s, st)
      PROVE  WhisperIndexExact'
  <2>1. NewRoom(st, s) \in RoomInfo /\ NewRoom(st, s).m_WhisperAccount = <<>>
    BY NewRoomType DEF NewRoom
  <2> QED
    BY <1>1, <1>5, <2>1, CreatingKeepsPairs DEF CreateOpenRoom
<1>6. ASSUME NEW s \in Socks, NEW i \in Index, EnterRoom(s, i)
      PROVE  WhisperIndexExact'
  BY <1>6, JoiningKeepsPairs, LookingKeepsPairs DEF EnterRoom
<1>7. ASSUME NEW s \in Socks, NEW i \in Index, CloseRoom(s, i)
      PROVE  WhisperIndexExact'
  BY <1>1, <1>7, LeaveRoomsKeepExact, LookingKeepsPairs DEF CloseRoom
<1>8. ASSUME NEW s \in Socks, NEW t \in Socks, StartWhisper(s, t)
      PROVE  WhisperIndexExact'
  BY <1>1, <1>8, WhisperingKeepsExact
<1>9. ASSUME NEW s \in Socks, NEW i \in Index, NEW n, Whisper(s, i, n)
      PROVE  WhisperIndexExact'
  BY <1>8, <1>9, WhisperTarget
<1>10. ASSUME NEW s \in Socks, NEW n, FriendTalk(s, n) PROVE WhisperIndexExact'
  BY <1>8, <1>10 DEF FriendTalk, TypeOK
<1>11. ASSUME NEW s \in Socks, NEW i \in Index, Say(s, i)
       PROVE  WhisperIndexExact'
  BY <1>1, <1>11, LookingKeepsPairs DEF Say
<1>12. ASSUME NEW s \in Socks, NEW i \in Index, NEW n \in Addressed,
              Ban(s, i, n) \/ Unban(s, i, n)
       PROVE  WhisperIndexExact'
  <2>1. IsRoom(i) /\ m_RoomInfo[i].m_banAccount \in SUBSET Nick /\ n \in Nick
    BY <1>12, RoomFields DEF Ban, Unban, IsMaster, IsOpen, Addressed, Nick
  <2>2. /\ UNCHANGED m_WhispRoomInfo
        /\ \E bans \in SUBSET Nick :
              m_RoomInfo' = [m_RoomInfo EXCEPT ![i].m_banAccount = bans]
    BY <1>12, <2>1 DEF Ban, Unban, TypeOK
  <2> QED
    BY <2>1, <2>2, BanningKeepsPairs
<1> QED
  BY <1>1, <1>2, <1>3, <1>4, <1>5, <1>6, <1>7, <1>9, <1>10, <1>11, <1>12
  DEF Next, ServerStep, LobbyRequest, RoomRequest, AcceptClient, SendRoomList,
      Kick, Restart, tables, vars

(* RoomData "/w", FriendData "talk" and CloseRoom: in every reachable      *)
(* state a key of m_WhispRoomInfo leads to the room of its pair, and the   *)
(* room of a pair is found under its key.                                  *)
THEOREM WhisperIndexIsExact == Spec => []WhisperIndexExact
<1>1. Init => WhisperIndexExact
  BY NullAssumption DEF Init, WhisperIndexExact, IsRoom
<1> QED
  BY <1>1, TypeCorrect, RoomsAlwaysSound, NextKeepsExact, PTL DEF Spec
=============================================================================
