------------------------- MODULE ChatRoomsStepProofs ------------------------
(***************************************************************************)
(* What one step may do to a room that is there before and after it, and   *)
(* the action properties of ChatRooms that follow; that no step ends the   *)
(* process when clients keep all the rules; and what clients see of the    *)
(* rooms, step by step (RoomList).                                         *)
(***************************************************************************)
EXTENDS RoomList, ChatRoomsProofs

Joined(r, s) == [r EXCEPT !.m_Account = Append(@, s)]

Banned(r, bans) == [r EXCEPT !.m_banAccount = bans]

(* Nothing, or one leaves and is not the last, or one comes in that is not *)
(* banned (a whisper room brings in whom it misses), or the bans change.   *)
RoomStep(i) ==
    IsRoom(i) /\ IsRoom(i)' =>
        \/ m_RoomInfo'[i] = m_RoomInfo[i]
        \/ \E s \in Socks : /\ m_RoomInfo'[i] = Left(m_RoomInfo[i], s)
                            /\ m_RoomInfo'[i].m_Account # <<>>
        \/ \E s \in Socks : /\ Admits(s, i) \/ IsWhisper(i)
                            /\ m_RoomInfo'[i] = Joined(m_RoomInfo[i], s)
        \/ \E bans \in SUBSET Nick : m_RoomInfo'[i] = Banned(m_RoomInfo[i], bans)

LEMMA LeavingIsStep ==
    ASSUME TypeOK, NEW s \in Socks, NEW D \in SUBSET Index, LeaveRooms(s, D),
           NEW i \in Index
    PROVE  RoomStep(i)
BY RoomAfterLeaving DEF LeaveRooms, RoomStep

LEMMA LookingIsStep ==
    ASSUME TypeOK, NEW j \in Index, m_RoomInfo' = Looked(j), NEW i \in Index
    PROVE  RoomStep(i)
BY LookingKeepsEntries DEF RoomStep

(* A new room takes a free index: no room that was there is concerned.     *)
LEMMA CreatingIsStep ==
    ASSUME TypeOK, SlotFree, NEW r,
           m_RoomInfo' = [m_RoomInfo EXCEPT ![m_RoomIndex] = r],
           NEW i \in Index
    PROVE  RoomStep(i)
<1>1. IsRoom(i) => m_RoomInfo'[i] = m_RoomInfo[i]
  BY DEF TypeOK, SlotFree
<1> QED
  BY <1>1 DEF RoomStep

LEMMA JoiningIsStep ==
    ASSUME TypeOK, NEW j \in Index, NEW s \in Socks, Admits(s, j) \/ IsWhisper(j),
           m_RoomInfo' = [m_RoomInfo EXCEPT ![j].m_Account = Append(@, s)],
           NEW i \in Index
    PROVE  RoomStep(i)
<1>1. m_RoomInfo'[i] = IF i = j THEN Joined(m_RoomInfo[j], s) ELSE m_RoomInfo[i]
  BY DEF TypeOK, Joined
<1> QED
  BY <1>1 DEF RoomStep

LEMMA BanningIsStep ==
    ASSUME TypeOK, NEW j \in Index, NEW bans \in SUBSET Nick,
           m_RoomInfo' = [m_RoomInfo EXCEPT ![j].m_banAccount = bans],
           NEW i \in Index
    PROVE  RoomStep(i)
<1>1. m_RoomInfo'[i] = IF i = j THEN Banned(m_RoomInfo[j], bans) ELSE m_RoomInfo[i]
  BY DEF TypeOK, Banned
<1> QED
  BY <1>1 DEF RoomStep

(* A whisper request brings somebody into a whisper room only, because     *)
(* m_WhispRoomInfo leads nowhere else.                                     *)
LEMMA WhisperingIsStep ==
    ASSUME TypeOK, WhisperIndexExact, NEW s \in Socks, NEW t \in Socks,
           StartWhisper(s, t), ~ProcessGone("crashed"), NEW i \in Index
    PROVE  RoomStep(i)
<1>1. CASE OpenWhisper(s, t)
  BY <1>1, CreatingIsStep DEF OpenWhisper
<1>2. CASE RejoinWhisper(s, t)
  <2> DEFINE key == WhisperKey(s, t)
  <2>1. key \in WhispKey
    BY KeysAreKeys
  <2>2. PICK k \in Index : m_WhispRoomInfo[key] = k
    BY <1>2, <2>1 DEF RejoinWhisper, TypeOK
  <2> DEFINE inside == IF IsRoom(k) THEN m_RoomInfo[k].m_Account ELSE <<>>
             who == Missing(s, t, inside)
  <2>3. IsWhisper(k)
    BY <2>1, <2>2, NullAssumption, ExactByHalves DEF KeyExact
  <2>4. who \in Socks
    BY DEF Missing
  <2>5. \/ UNCHANGED m_RoomInfo
        \/ m_RoomInfo' = [m_RoomInfo EXCEPT ![k].m_Account = Append(@, who)]
    BY <1>2, <2>2 DEF RejoinWhisper
  <2> HIDE DEF who
  <2> QED
    BY <2>3, <2>4, <2>5, JoiningIsStep DEF RoomStep
<1> QED
  BY <1>1, <1>2 DEF StartWhisper

LEMMA NextIsStep ==
    ASSUME TypeOK, WhisperIndexExact, [Next]_vars, NEW i \in Index
    PROVE  RoomStep(i)
<1>1. ASSUME NEW how, ProcessGone(how) PROVE RoomStep(i)
  BY <1>1 DEF ProcessGone, RoomStep, IsRoom
<1>2. CASE UNCHANGED m_RoomInfo
  BY <1>2 DEF RoomStep
<1>3. ASSUME NEW s \in Socks, OnClose(s) PROVE RoomStep(i)
  BY <1>1, <1>3, LeavingIsStep DEF OnClose, RoomsSwept
<1>4. ASSUME NEW s \in Socks, NEW n \in Names, LoginData(s, n) PROVE RoomStep(i)
  BY <1>1, <1>2, <1>4, LeavingIsStep
  DEF LoginData, SignIn, TakeOver, Hang, RoomsSwept, SignedInAs, Named
<1>5. ASSUME NEW s, NEW st, CreateOpenRoom(s, st) PROVE RoomStep(i)
  BY <1>1, <1>5, CreatingIsStep DEF CreateOpenRoom
<1>6. ASSUME NEW s \in Socks, NEW j \in Index, EnterRoom(s, j) PROVE RoomStep(i)
  BY <1>6, LookingIsStep, JoiningIsStep DEF EnterRoom
<1>7. ASSUME NEW s \in Socks, NEW j \in Index, CloseRoom(s, j) PROVE RoomStep(i)
  BY <1>1, <1>7, LeavingIsStep, LookingIsStep DEF CloseRoom
<1>8. ASSUME NEW s \in Socks, NEW t \in Socks, StartWhisper(s, t)
      PROVE  RoomStep(i)
  BY <1>1, <1>8, WhisperingIsStep
<1>9. ASSUME NEW s \in Socks, NEW j \in Index, NEW n, Whisper(s, j, n)
      PROVE  RoomStep(i)
  BY <1>8, <1>9, WhisperTarget
<1>10. ASSUME NEW s \in Socks, NEW n, FriendTalk(s, n) PROVE RoomStep(i)
  BY <1>8, <1>10 DEF FriendTalk, TypeOK
<1>11. ASSUME NEW s \in Socks, NEW j \in Index, Say(s, j) PROVE RoomStep(i)
  BY <1>1, <1>11, LookingIsStep DEF Say
<1>12. ASSUME NEW s \in Socks, NEW j \in Index, NEW n \in Addressed,
              Ban(s, j, n) \/ Unban(s, j, n)
       PROVE  RoomStep(i)
  <2>1. m_RoomInfo[j].m_banAccount \in SUBSET Nick /\ n \in Nick
    BY <1>12, RoomFields DEF Ban, Unban, IsMaster, IsOpen, Addressed, Nick
  <2>2. \E bans \in SUBSET Nick :
            m_RoomInfo' = [m_RoomInfo EXCEPT ![j].m_banAccount = bans]
    BY <1>12, <2>1 DEF Ban, Unban, TypeOK
  <2> QED
    BY <2>2, BanningIsStep
<1> QED
  BY <1>1, <1>2, <1>3, <1>4, <1>5, <1>6, <1>7, <1>9, <1>10, <1>11, <1>12
  DEF Next, ServerStep, LobbyRequest, RoomRequest, AcceptClient, SendRoomList,
      Kick, Restart, tables, vars

(* The fields of a room that one has joined or whose bans have changed.    *)
LEMMA JoinedFields ==
    ASSUME TypeOK, NEW i \in Index, IsRoom(i), NEW s \in Socks
    PROVE  /\ Joined(m_RoomInfo[i], s).m_Status = m_RoomInfo[i].m_Status
           /\ Joined(m_RoomInfo[i], s).m_WhisperAccount =
                m_RoomInfo[i].m_WhisperAccount
           /\ Joined(m_RoomInfo[i], s).m_MasterAccount =
                m_RoomInfo[i].m_MasterAccount
           /\ Range(Joined(m_RoomInfo[i], s).m_Account) = Members(i) \cup {s}
<1>1. m_RoomInfo[i] \in RoomInfo /\ m_RoomInfo[i].m_Account \in Seq(Socks)
  BY RoomFields
<1>2. Range(Append(m_RoomInfo[i].m_Account, s)) = Members(i) \cup {s}
  BY <1>1, AppendMembers DEF Members
<1> QED
  BY <1>1, <1>2 DEF Joined, RoomInfo

LEMMA BannedFields ==
    ASSUME TypeOK, NEW i \in Index, IsRoom(i), NEW bans
    PROVE  /\ Banned(m_RoomInfo[i], bans).m_Status = m_RoomInfo[i].m_Status
           /\ Banned(m_RoomInfo[i], bans).m_WhisperAccount =
                m_RoomInfo[i].m_WhisperAccount
           /\ Banned(m_RoomInfo[i], bans).m_MasterAccount =
                m_RoomInfo[i].m_MasterAccount
           /\ Banned(m_RoomInfo[i], bans).m_Account = m_RoomInfo[i].m_Account
BY RoomFields DEF Banned, RoomInfo

-----------------------------------------------------------------------------
(* Masters.                                                                *)

(* What one step may do to the master of room i.                           *)
MasterHandedOn(i) ==
    IsOpen(i) /\ IsOpen(i)' =>
        LET old == m_RoomInfo[i].m_MasterAccount
            new == m_RoomInfo'[i].m_MasterAccount
        IN  new # old => old \notin Members(i)' /\ new \in Members(i)

(* The loop hands a room over only when its master is the one that leaves, *)
(* and then to an entry that remains.                                      *)
LEMMA LeavingHandsOn ==
    ASSUME TypeOK, RoomsConnected, NEW i \in Index, IsRoom(i), NEW s \in Socks,
           m_RoomInfo'[i] = Left(m_RoomInfo[i], s), IsRoom(i)',
           m_RoomInfo'[i].m_Account # <<>>
    PROVE  MasterHandedOn(i)
<1> DEFINE r == m_RoomInfo[i]
           rest == RemoveFirst(r.m_Account, s)
<1>1. r \in RoomInfo /\ r.m_Account \in Seq(Socks) /\ IsInjective(r.m_Account)
  BY RoomFields DEF RoomsConnected, RoomConnected
<1>2. /\ Left(r, s).m_Account = rest
      /\ Left(r, s).m_MasterAccount =
           IF r.m_MasterAccount = s /\ rest # <<>> THEN Head(rest)
           ELSE r.m_MasterAccount
  BY <1>1, LeftFields
<1>3. /\ rest \in Seq(Socks)
      /\ Range(rest) \subseteq Members(i)
      /\ s \notin Range(rest)
  BY <1>1, RemoveFirstMembers, RemoveFirstDistinct DEF Members
<1>4. rest # <<>> /\ Head(rest) \in Range(rest) /\ Members(i)' = Range(rest)
  BY <1>2, <1>3, HeadMember DEF Members
<1> HIDE DEF rest, r
<1> QED
  BY <1>2, <1>3, <1>4 DEF MasterHandedOn, r

LEMMA NextHandsOn ==
    ASSUME TypeOK, RoomsConnected, WhisperIndexExact, [Next]_vars, NEW i \in Index
    PROVE  MasterHandedOn(i)
<1> SUFFICES ASSUME IsRoom(i), IsRoom(i)'
             PROVE  MasterHandedOn(i)
  BY DEF MasterHandedOn, IsOpen
<1>1. CASE m_RoomInfo'[i].m_MasterAccount = m_RoomInfo[i].m_MasterAccount
  BY <1>1 DEF MasterHandedOn
<1>2. CASE m_RoomInfo'[i].m_MasterAccount # m_RoomInfo[i].m_MasterAccount
  BY <1>2, NextIsStep, JoinedFields, BannedFields, LeavingHandsOn DEF RoomStep
<1> QED
  BY <1>1, <1>2

(* CloseRoom and CloseClient, m_MasterAccount: if no client enters a room  *)
(* it is in, a room changes masters only when its master leaves it, and    *)
(* the new master was inside before.                                       *)
THEOREM MastersHandedOn ==
    ASSUME "enter_once" \in ClientRules
    PROVE  Spec => MasterKeptWhileInside
<1> DEFINE Step == \A i \in Index :
                     IsOpen(i) /\ IsOpen(i)' =>
                       LET old == m_RoomInfo[i].m_MasterAccount
                           new == m_RoomInfo'[i].m_MasterAccount
                       IN  new # old => old \notin Members(i)' /\ new \in Members(i)
<1>1. TypeOK /\ RoomsConnected /\ WhisperIndexExact /\ [Next]_vars => Step
  BY NextHandsOn DEF MasterHandedOn
<1>2. MasterKeptWhileInside <=> [][Step]_vars
  BY DEF MasterKeptWhileInside
<1> HIDE DEF Step
<1> QED
  BY <1>1, <1>2, TypeCorrect, RoomsAlwaysConnected, WhisperIndexIsExact, PTL
  DEF Spec

-----------------------------------------------------------------------------
(* Bans, and the index that wraps.                                         *)

(* Whoever appears in room i is not banned there.                          *)
BanKept(i, s) ==
    IsOpen(i) /\ IsOpen(i)' /\ s \notin Members(i) /\ s \in Members(i)' =>
        m_UserName[s] \notin m_RoomInfo[i].m_banAccount

LEMMA NextKeepsBans ==
    ASSUME TypeOK, WhisperIndexExact, [Next]_vars, NEW i \in Index, NEW s \in Socks
    PROVE  BanKept(i, s)
<1> SUFFICES ASSUME IsOpen(i), IsOpen(i)', s \notin Members(i), s \in Members(i)'
             PROVE  m_UserName[s] \notin m_RoomInfo[i].m_banAccount
  BY DEF BanKept
<1>1. IsRoom(i) /\ IsRoom(i)' /\ ~IsWhisper(i)
  BY DEF IsOpen, IsWhisper
<1>2. /\ Members(i) = Range(m_RoomInfo[i].m_Account)
      /\ Members(i)' = Range(m_RoomInfo'[i].m_Account)
  BY <1>1 DEF Members
<1>3. ASSUME NEW t \in Socks, m_RoomInfo'[i] = Left(m_RoomInfo[i], t)
      PROVE  FALSE
  <2>1. m_RoomInfo[i] \in RoomInfo /\ m_RoomInfo[i].m_Account \in Seq(Socks)
    BY <1>1, RoomFields
  <2>2. m_RoomInfo'[i].m_Account = RemoveFirst(m_RoomInfo[i].m_Account, t)
    BY <1>3, <2>1, LeftFields
  <2>3. Members(i)' \subseteq Members(i)
    BY <1>2, <2>1, <2>2, RemoveFirstMembers
  <2> QED
    BY <2>3
<1>4. m_RoomInfo'[i].m_Account # m_RoomInfo[i].m_Account
  BY <1>2
<1>5. ~ \E bans \in SUBSET Nick : m_RoomInfo'[i] = Banned(m_RoomInfo[i], bans)
  BY <1>1, <1>4, BannedFields
<1>6. PICK t \in Socks : Admits(t, i) /\ m_RoomInfo'[i] = Joined(m_RoomInfo[i], t)
  BY <1>1, <1>3, <1>4, <1>5, NextIsStep DEF RoomStep
<1>7. s = t
  BY <1>1, <1>2, <1>6, JoinedFields
<1> QED
  BY <1>6, <1>7 DEF Admits

(* LobbyData "enter" and RoomData "/w": whoever gets into an open room is  *)
(* not on its ban list; a whisper request is no way around it.             *)
THEOREM BansHold == Spec => BannedStayOut
<1> DEFINE Step == \A i \in Index, s \in Socks :
                     IsOpen(i) /\ IsOpen(i)' /\ s \notin Members(i)
                               /\ s \in Members(i)' =>
                       m_UserName[s] \notin m_RoomInfo[i].m_banAccount
<1>1. TypeOK /\ WhisperIndexExact /\ [Next]_vars => Step
  BY NextKeepsBans DEF BanKept
<1>2. BannedStayOut <=> [][Step]_vars
  BY DEF BannedStayOut
<1> HIDE DEF Step
<1> QED
  BY <1>1, <1>2, TypeCorrect, WhisperIndexIsExact, PTL DEF Spec

(* Index i leads to the same room as before.                               *)
SameRoom(i) ==
    /\ m_RoomInfo'[i].m_Status = m_RoomInfo[i].m_Status
    /\ m_RoomInfo'[i].m_WhisperAccount = m_RoomInfo[i].m_WhisperAccount
    /\ Members(i) \cap Members(i)' # {}

LEMMA NextKeepsIndex ==
    ASSUME TypeOK, RoomsSound, WhisperIndexExact, [Next]_vars, NEW i \in Index,
           IsRoom(i), IsRoom(i)'
    PROVE  SameRoom(i)
<1> DEFINE r == m_RoomInfo[i]
<1>1. /\ r \in RoomInfo /\ r.m_Account \in Seq(Socks)
      /\ Members(i) = Range(r.m_Account)
      /\ Members(i)' = Range(m_RoomInfo'[i].m_Account)
  BY RoomFields DEF Members
<1>2. Members(i) # {}
  BY <1>1, EmptyMembers DEF RoomsSound, RoomSound
<1>3. ASSUME NEW s \in Socks, m_RoomInfo'[i] = Left(r, s),
             m_RoomInfo'[i].m_Account # <<>>
      PROVE  SameRoom(i)
  <2>1. m_RoomInfo'[i].m_Account = RemoveFirst(r.m_Account, s)
    BY <1>1, <1>3, LeftFields
  <2>2. /\ RemoveFirst(r.m_Account, s) \in Seq(Socks)
        /\ Members(i)' \subseteq Members(i)
    BY <1>1, <2>1, RemoveFirstMembers
  <2>3. Members(i)' # {}
    BY <1>1, <1>3, <2>1, <2>2, EmptyMembers
  <2> QED
    BY <1>1, <1>3, <2>2, <2>3, LeftFields DEF SameRoom
<1>4. CASE m_RoomInfo'[i] = r
  BY <1>1, <1>2, <1>4 DEF SameRoom
<1>5. ASSUME NEW s \in Socks, m_RoomInfo'[i] = Joined(r, s)
      PROVE  SameRoom(i)
  BY <1>1, <1>2, <1>5, JoinedFields DEF SameRoom
<1>6. ASSUME NEW bans, m_RoomInfo'[i] = Banned(r, bans)
      PROVE  SameRoom(i)
  BY <1>1, <1>2, <1>6, BannedFields DEF SameRoom
<1> HIDE DEF r
<1> QED
  BY <1>3, <1>4, <1>5, <1>6, NextIsStep DEF RoomStep, r

(* CreateRoom and m_RoomIndex++: whatever the width of the index, an index *)
(* that leads to a room before and after a step leads to the same room.    *)
THEOREM RoomsKeepTheirIndex == Spec => RoomsNotRecycled
<1> DEFINE Step == \A i \in Index : IsRoom(i) /\ IsRoom(i)' =>
                     /\ m_RoomInfo'[i].m_Status = m_RoomInfo[i].m_Status
                     /\ m_RoomInfo'[i].m_WhisperAccount =
                          m_RoomInfo[i].m_WhisperAccount
                     /\ Members(i) \cap Members(i)' # {}
<1>1. TypeOK /\ RoomsSound /\ WhisperIndexExact /\ [Next]_vars => Step
  BY NextKeepsIndex DEF SameRoom
<1>2. RoomsNotRecycled <=> [][Step]_vars
  BY DEF RoomsNotRecycled
<1> HIDE DEF Step
<1> QED
  BY <1>1, <1>2, TypeCorrect, RoomsAlwaysSound, WhisperIndexIsExact, PTL DEF Spec

-----------------------------------------------------------------------------
(* Only the entry of an absent room ends the process.                      *)

(* What a handler would trip over besides deleted sockets and NULL         *)
(* entries: whisper rooms that name no pair.                               *)
PairsNamed ==
    \A i \in Index : IsWhisper(i) => m_RoomInfo[i].m_WhisperAccount # <<>>

Survives ==
    /\ PairsNamed'
    /\ status' = "crashed" => status = "crashed" \/ ListFaults(m_RoomInfo)

(* An end that the table excuses.                                          *)
LEMMA EndingSurvives ==
    ASSUME NEW how, ProcessGone(how),
           how = "crashed" => ListFaults(m_RoomInfo)
    PROVE  Survives
BY DEF ProcessGone, Survives, PairsNamed, IsWhisper, IsRoom

LEMMA LeavingIsSafe ==
    ASSUME TypeOK, RoomsConnected, WhisperIndexExact, PairsNamed,
           NEW s \in Socks, NEW D \in SUBSET Index
    PROVE  /\ LeavingMayKill(s, D) => ListFaults(m_RoomInfo)
           /\ LeaveRooms(s, D) => PairsNamed'
<1>1. ASSUME NEW i \in Index, IsRoom(i)
      PROVE  /\ Left(m_RoomInfo[i], s) \in RoomInfo
             /\ Left(m_RoomInfo[i], s).m_Status = m_RoomInfo[i].m_Status
             /\ Left(m_RoomInfo[i], s).m_WhisperAccount =
                  m_RoomInfo[i].m_WhisperAccount
             /\ Range(Left(m_RoomInfo[i], s).m_Account) \subseteq m_UserList
  <2>1. m_RoomInfo[i] \in RoomInfo /\ m_RoomInfo[i].m_Account \in Seq(Socks)
    BY <1>1, RoomFields
  <2>2. Range(RemoveFirst(m_RoomInfo[i].m_Account, s)) \subseteq m_UserList
    BY <1>1, <2>1, RemoveFirstMembers DEF RoomsConnected, RoomConnected
  <2> QED
    BY <2>1, <2>2, LeftFields
<1>2. LeavingFaults(s, D) => ListFaults(m_RoomInfo)
  <2>1. ListFaults(RoomsWithout(s, D)) => ListFaults(m_RoomInfo)
    BY <1>1, NullAssumption DEF RoomsWithout, ListFaults
  <2>2. ASSUME NEW i \in Emptied(s, D), IsWhisper(i)
        PROVE  ~(Len(m_RoomInfo[i].m_WhisperAccount) < 2)
    <3>1. i \in Index /\ PairExact(i)
      BY ExactByHalves DEF Emptied
    <3>2. Len(m_RoomInfo[i].m_WhisperAccount) = 2
      BY <2>2, <3>1 DEF PairExact, PairsNamed, IsWhisper
    <3> QED
      BY <3>2
  <2> QED
    BY <2>1, <2>2 DEF LeavingFaults
<1>3. ~Dangling(ToldOfLeaving(s, D))
  <2>1. ASSUME NEW i \in D, s \in Members(i)
        PROVE  Range(Left(m_RoomInfo[i], s).m_Account) \subseteq m_UserList
    BY <1>1, <2>1 DEF Members
  <2> QED
    BY <2>1 DEF Dangling, ToldOfLeaving
<1>4. ASSUME LeaveRooms(s, D) PROVE PairsNamed'
  <2>1. m_RoomInfo' = RoomsWithout(s, D)
    BY <1>4 DEF LeaveRooms
  <2> SUFFICES ASSUME NEW i \in Index, IsWhisper(i)'
               PROVE  m_RoomInfo'[i].m_WhisperAccount # <<>>
    BY DEF PairsNamed
  <2>2. IsRoom(i) /\ m_RoomInfo'[i] \in {m_RoomInfo[i], Left(m_RoomInfo[i], s)}
    BY <2>1, RoomAfterLeaving DEF IsWhisper
  <2> QED
    BY <1>1, <2>2 DEF IsWhisper, PairsNamed
<1> QED
  BY <1>2, <1>3, <1>4 DEF LeavingMayKill

LEMMA PuttingIsSafe ==
    ASSUME TypeOK, PairsNamed, NEW i \in Index, NEW r,
           m_RoomInfo' = [m_RoomInfo EXCEPT ![i] = r],
           r \in RoomInfo /\ r.m_Status = ROOM_WHISPER =>
                r.m_WhisperAccount # <<>>,
           r \in RoomInfo \cup {NULL, NoEntry}
    PROVE  PairsNamed'
<1>1. \A j \in Index : m_RoomInfo'[j] = IF j = i THEN r ELSE m_RoomInfo[j]
  BY DEF TypeOK
<1> QED
  BY <1>1 DEF PairsNamed, IsWhisper, IsRoom

(* The entry that a lookup adds is no room.                                *)
LEMMA LookingIsSafe ==
    ASSUME TypeOK, PairsNamed, NEW i \in Index, ~IsRoom(i),
           m_RoomInfo' = Looked(i)
    PROVE  PairsNamed'
<1>1. PICK r \in {NULL, NoEntry} : m_RoomInfo' = [m_RoomInfo EXCEPT ![i] = r]
  BY DEF Looked, IsRoom
<1> QED
  BY <1>1, NullAssumption, PuttingIsSafe

(* Another entry or another ban does not concern the pair.                 *)
LEMMA ChangingIsSafe ==
    ASSUME TypeOK, PairsNamed, NEW i \in Index, IsRoom(i),
           \/ \E s \in Socks :
                 m_RoomInfo' = [m_RoomInfo EXCEPT ![i].m_Account = Append(@, s)]
           \/ \E bans \in SUBSET Nick :
                 m_RoomInfo' = [m_RoomInfo EXCEPT ![i].m_banAccount = bans]
    PROVE  PairsNamed'
<1> DEFINE r == m_RoomInfo[i]
<1>1. r \in RoomInfo /\ r.m_Account \in Seq(Socks)
  BY RoomFields
<1>2. r.m_Status = ROOM_WHISPER => r.m_WhisperAccount # <<>>
  BY DEF PairsNamed, IsWhisper
<1>3. ASSUME NEW s \in Socks,
             m_RoomInfo' = [m_RoomInfo EXCEPT ![i].m_Account = Append(@, s)]
      PROVE  PairsNamed'
  <2>1. Append(r.m_Account, s) \in Seq(Socks)
    BY <1>1, AppendMembers
  <2>2. Joined(r, s) \in RoomInfo
    BY <1>1, <2>1 DEF Joined, RoomInfo
  <2>3. m_RoomInfo' = [m_RoomInfo EXCEPT ![i] = Joined(r, s)]
    BY <1>3 DEF Joined
  <2> QED
    BY <1>2, <2>2, <2>3, JoinedFields, PuttingIsSafe
<1>4. ASSUME NEW bans \in SUBSET Nick,
             m_RoomInfo' = [m_RoomInfo EXCEPT ![i].m_banAccount = bans]
      PROVE  PairsNamed'
  <2>1. Banned(r, bans) \in RoomInfo
    BY <1>1 DEF Banned, RoomInfo
  <2>2. m_RoomInfo' = [m_RoomInfo EXCEPT ![i] = Banned(r, bans)]
    BY <1>4 DEF Banned
  <2> QED
    <3>1. /\ Banned(r, bans).m_Status = r.m_Status
          /\ Banned(r, bans).m_WhisperAccount = r.m_WhisperAccount
      BY BannedFields
    <3> HIDE DEF r
    <3> QED
      BY <1>2, <2>1, <2>2, <3>1, PuttingIsSafe
<1> QED
  BY <1>3, <1>4

LEMMA WhisperingIsSafe ==
    ASSUME TypeOK, PairsNamed, RoomsConnected, WhisperIndexExact,
           NEW s \in m_UserList, NEW t \in m_UserList, StartWhisper(s, t)
    PROVE  Survives
<1>1. s \in Socks /\ t \in Socks
  BY DEF TypeOK
<1>2. CASE OpenWhisper(s, t)
  <2>1. /\ m_RoomInfo' = [m_RoomInfo EXCEPT ![m_RoomIndex] = WhisperRoom(s, t)]
        /\ UNCHANGED status
    BY <1>2 DEF OpenWhisper, Dangling
  <2>2. WhisperRoom(s, t) \in RoomInfo /\ WhisperRoom(s, t).m_WhisperAccount # <<>>
    BY <1>1, WhisperRoomFields
  <2>3. m_RoomIndex \in Index
    BY DEF TypeOK
  <2>4. PairsNamed'
    BY <2>1, <2>2, <2>3, PuttingIsSafe
  <2> QED
    BY <2>1, <2>4 DEF Survives
<1>3. CASE RejoinWhisper(s, t)
  <2> DEFINE key == WhisperKey(s, t)
  <2>1. key \in WhispKey
    BY <1>1, KeysAreKeys
  <2>2. PICK i \in Index : m_WhispRoomInfo[key] = i
    BY <1>3, <2>1 DEF RejoinWhisper, TypeOK
  <2> DEFINE inside == IF IsRoom(i) THEN m_RoomInfo[i].m_Account ELSE <<>>
             who == Missing(s, t, inside)
  <2>3. IsRoom(i)
    BY <2>1, <2>2, NullAssumption, ExactByHalves DEF KeyExact, IsWhisper
  <2>4. who \in m_UserList /\ who \in Socks
    BY <1>1 DEF Missing
  <2>5. /\ UNCHANGED status
        /\ \/ UNCHANGED m_RoomInfo
           \/ m_RoomInfo' = [m_RoomInfo EXCEPT ![i].m_Account = Append(@, who)]
    BY <1>3, <2>2, <2>4 DEF RejoinWhisper, Dangling
  <2> HIDE DEF who
  <2>6. PairsNamed'
    BY <2>3, <2>4, <2>5, ChangingIsSafe DEF PairsNamed, IsWhisper, IsRoom
  <2> QED
    BY <2>5, <2>6 DEF Survives
<1> QED
  BY <1>2, <1>3 DEF StartWhisper

LEMMA NextIsSafe ==
    ASSUME ClientRules = AllRules, TypeOK, PairsNamed, RoomsConnected,
           WhisperIndexExact, [Next]_vars
    PROVE  Survives
<1>1. CASE UNCHANGED m_RoomInfo /\ status' \in {status, "running"}
  BY <1>1 DEF Survives, PairsNamed, IsWhisper, IsRoom
<1>2. CASE PairsNamed' /\ UNCHANGED status
  BY <1>2 DEF Survives
<1>3. ASSUME NEW s \in Socks, OnClose(s) PROVE Survives
  BY <1>2, <1>3, LeavingIsSafe, EndingSurvives DEF OnClose, RoomsSwept
<1>4. ASSUME NEW s \in Socks, NEW n \in Names, MayLogin(s, n), LoginData(s, n)
      PROVE  Survives
  <2>1. s \notin SignedInAs(n)
    BY <1>4 DEF MayLogin, Keeps, AllRules, SignedInAs, Named
  <2>2. CASE SignIn(s, n)
    BY <1>1, <2>2 DEF SignIn
  <2>3. ASSUME NEW t \in SignedInAs(n), TakeOver(s, n, t) PROVE Survives
    BY <1>2, <2>1, <2>3, LeavingIsSafe, EndingSurvives
    DEF TakeOver, RoomsSwept, SignedInAs, Named
  <2>4. CASE Hang(n)
    BY <2>4, EndingSurvives DEF Hang
  <2> QED
    BY <1>4, <2>2, <2>3, <2>4 DEF LoginData
<1>5. ASSUME NEW s \in Socks, CreateOpenRoom(s, ROOM_PUBLIC) PROVE Survives
  <2> DEFINE rooms == [m_RoomInfo EXCEPT ![m_RoomIndex] = NewRoom(ROOM_PUBLIC, s)]
  <2>1. /\ NewRoom(ROOM_PUBLIC, s) \in RoomInfo
        /\ NewRoom(ROOM_PUBLIC, s).m_Status # ROOM_WHISPER
    BY NewRoomType DEF NewRoom, ROOM_PUBLIC, ROOM_WHISPER
  <2>2. ListFaults(rooms) => ListFaults(m_RoomInfo)
    BY <2>1, NullAssumption DEF ListFaults, TypeOK
  <2>3. m_RoomIndex \in Index
    BY DEF TypeOK
  <2>4. CASE m_RoomInfo' = rooms /\ UNCHANGED status
    BY <1>2, <2>1, <2>3, <2>4, PuttingIsSafe
  <2>5. CASE ListFaults(rooms) /\ ProcessGone("crashed")
    BY <2>2, <2>5, EndingSurvives
  <2> QED
    BY <1>5, <2>4, <2>5 DEF CreateOpenRoom
<1>6. ASSUME NEW i \in Index, ~IsRoom(i), m_RoomInfo' = Looked(i),
             UNCHANGED status
      PROVE  Survives
  BY <1>2, <1>6, LookingIsSafe
<1>7. ASSUME NEW s \in Socks, NEW i \in Index, EnterRoom(s, i) PROVE Survives
  BY <1>2, <1>6, <1>7, ChangingIsSafe DEF EnterRoom
<1>8. ASSUME NEW s \in Socks, NEW i \in Index, CloseRoom(s, i) PROVE Survives
  BY <1>2, <1>6, <1>8, LeavingIsSafe, EndingSurvives DEF CloseRoom
<1>9. ASSUME NEW s \in m_UserList, NEW t \in m_UserList, StartWhisper(s, t)
      PROVE  Survives
  BY <1>9, WhisperingIsSafe
<1>10. \A i \in Index : Members(i) \subseteq m_UserList
  BY DEF RoomsConnected, RoomConnected, Members
<1>11. ASSUME NEW s \in m_UserList, NEW i \in Index, NEW n, Whisper(s, i, n)
       PROVE  Survives
  <2>1. s \in Socks
    BY DEF TypeOK
  <2> QED
    BY <1>9, <1>10, <1>11, <2>1, WhisperTarget
<1>12. ASSUME NEW s \in m_UserList, NEW n, FriendTalk(s, n) PROVE Survives
  BY <1>9, <1>12 DEF FriendTalk
<1>13. ASSUME NEW s \in Socks, NEW i \in Index, Say(s, i) PROVE Survives
  BY <1>6, <1>10, <1>13 DEF Say, Dangling
<1>14. ASSUME NEW s \in Socks, NEW i \in Index, NEW n PROVE ~Kick(s, i, n)
  BY <1>10 DEF Kick, Dangling
<1>15. ASSUME NEW s \in Socks, NEW i \in Index, NEW n \in Addressed,
              Ban(s, i, n) \/ Unban(s, i, n)
       PROVE  Survives
  <2>1. m_RoomInfo[i].m_banAccount \in SUBSET Nick /\ n \in Nick /\ IsRoom(i)
    BY <1>15, RoomFields DEF Ban, Unban, IsMaster, IsOpen, Addressed, Nick
  <2>2. /\ UNCHANGED status
        /\ \E bans \in SUBSET Nick :
              m_RoomInfo' = [m_RoomInfo EXCEPT ![i].m_banAccount = bans]
    BY <1>15, <2>1 DEF Ban, Unban, TypeOK
  <2> QED
    BY <1>2, <2>1, <2>2, ChangingIsSafe
<1>16. ASSUME NEW s \in Socks, MayAsk(s), LobbyRequest(s) PROVE Survives
  <2>1. \A st : MayCreate(st) => st = ROOM_PUBLIC
    BY DEF MayCreate, Keeps, AllRules
  <2>2. SendRoomList => Survives
    BY EndingSurvives DEF SendRoomList
  <2> QED
    BY <1>5, <1>7, <1>8, <1>16, <2>1, <2>2 DEF LobbyRequest
<1>17. ASSUME NEW s \in Socks, MayAsk(s), RoomRequest(s) PROVE Survives
  BY <1>11, <1>13, <1>14, <1>15, <1>17 DEF RoomRequest, MayAsk
<1>18. ASSUME Restart PROVE Survives
  BY <1>1, <1>18 DEF Restart, tables
<1> QED
  BY <1>1, <1>3, <1>4, <1>12, <1>16, <1>17, <1>18
  DEF Next, ServerStep, AcceptClient, MayAsk, vars

(* All handlers: with clients that enter once, leave whisper rooms to the  *)
(* server and log in once, a handler ends the process only when it lists a *)
(* table that a late request for an absent room has put a NULL entry in.   *)
THEOREM OnlyAbsentRoomsAreDeadly ==
    ASSUME ClientRules = AllRules
    PROVE  Spec => OnlyAbsentRoomsKill
<1> DEFINE A == status # "crashed" /\ status' = "crashed" => ListFaults(m_RoomInfo)
<1>1. Init => PairsNamed
  BY DEF Init, PairsNamed, IsWhisper, IsRoom
<1>2. "enter_once" \in ClientRules
  BY DEF AllRules
<1>3. Spec => []RoomsConnected
  BY <1>2, RoomsAlwaysConnected
<1>4. TypeOK /\ PairsNamed /\ RoomsConnected /\ WhisperIndexExact /\ [Next]_vars
        => PairsNamed' /\ A
  BY NextIsSafe DEF Survives
<1>5. OnlyAbsentRoomsKill <=> [][A]_vars
  BY DEF OnlyAbsentRoomsKill
<1> HIDE DEF A
<1> QED
  BY <1>1, <1>3, <1>4, <1>5, TypeCorrect, WhisperIndexIsExact, PTL DEF Spec

-----------------------------------------------------------------------------
(* Whisper rooms are for the two.                                          *)

(* The nicks under which clients log in that keep logged_in.               *)
Nicks == Names \ {NoName}

(* No two pairs of them spell one key.                                     *)
Unambiguous ==
    \A x1, x2, y1, y2 \in Nicks :
        x1 # x2 /\ y1 # y2 /\ x1 \o x2 = y1 \o y2
        => x1 \in {y1, y2} /\ x2 \in {y1, y2}

LEMMA OnePairOfAKey ==
    ASSUME Unambiguous, NEW x1 \in Nicks, NEW x2 \in Nicks,
           NEW y1 \in Nicks, NEW y2 \in Nicks,
           x1 # x2, y1 # y2, x1 \o x2 = y1 \o y2
    PROVE  x1 \in {y1, y2} /\ x2 \in {y1, y2}
BY DEF Unambiguous

PairOf(r) == {r.m_WhisperAccount[1], r.m_WhisperAccount[2]}

PairInside(i) ==
    IsWhisper(i) =>
        /\ Len(m_RoomInfo[i].m_WhisperAccount) = 2
        /\ PairOf(m_RoomInfo[i]) \subseteq Nicks
        /\ m_RoomInfo[i].m_WhisperAccount[1] # m_RoomInfo[i].m_WhisperAccount[2]
        /\ \A s \in Members(i) : m_UserName[s] \in PairOf(m_RoomInfo[i])

PairsInside == \A i \in Index : PairInside(i)

(* The pair is as it was, and so is everybody inside or else of the pair.  *)
LEMMA SamePairInside ==
    ASSUME NEW i \in Index, PairInside(i), IsRoom(i)' => IsRoom(i),
           m_RoomInfo'[i].m_Status = m_RoomInfo[i].m_Status,
           m_RoomInfo'[i].m_WhisperAccount = m_RoomInfo[i].m_WhisperAccount,
           \A s \in Members(i)' :
              \/ s \in Members(i) /\ m_UserName'[s] = m_UserName[s]
              \/ m_UserName'[s] \in PairOf(m_RoomInfo[i])
    PROVE  PairInside(i)'
BY DEF PairInside, PairOf, IsWhisper

LEMMA SameRoomInside ==
    ASSUME NEW i \in Index, PairInside(i), IsRoom(i)' => IsRoom(i),
           m_RoomInfo'[i] = m_RoomInfo[i],
           \A s \in Members(i) : m_UserName'[s] = m_UserName[s]
    PROVE  PairInside(i)'
<1>1. Members(i)' \subseteq Members(i)
  BY DEF Members
<1> QED
  BY <1>1, SamePairInside

(* Leaving, by request or with one's nick.                                 *)
LEMMA LeavingKeepsInside ==
    ASSUME TypeOK, RoomsConnected, PairsInside, NEW t \in Socks,
           NEW D \in SUBSET Index, LeaveRooms(t, D),
           \A i \in Index, s \in Socks :
              IsWhisper(i) /\ s \in Members(i) /\ m_UserName'[s] # m_UserName[s]
              => s = t /\ i \in D
    PROVE  PairsInside'
<1> SUFFICES ASSUME NEW i \in Index, IsWhisper(i)'
             PROVE  PairInside(i)'
  BY DEF PairsInside, PairInside
<1>1. IsRoom(i) /\ m_RoomInfo'[i] \in {m_RoomInfo[i], Left(m_RoomInfo[i], t)}
  BY RoomAfterLeaving DEF LeaveRooms, IsWhisper
<1>2. m_RoomInfo[i] \in RoomInfo
  BY <1>1, RoomFields
<1>3. /\ m_RoomInfo'[i].m_Status = m_RoomInfo[i].m_Status
      /\ m_RoomInfo'[i].m_WhisperAccount = m_RoomInfo[i].m_WhisperAccount
  BY <1>1, <1>2, LeftFields
<1>4. /\ Members(i)' \subseteq Members(i)
      /\ i \in D => t \notin Members(i)'
  BY LeavingDisconnects DEF LeaveRooms, IsWhisper, Members
<1>5. IsWhisper(i) /\ Members(i) \subseteq Socks
  BY <1>1, <1>3, MembersAreSocks DEF IsWhisper
<1>6. \A s \in Members(i)' : s \in Members(i) /\ m_UserName'[s] = m_UserName[s]
  BY <1>4, <1>5
<1> QED
  BY <1>1, <1>3, <1>6, SamePairInside DEF PairsInside

LEMMA PuttingKeepsInside ==
    ASSUME TypeOK, PairsInside, NEW j \in Index, NEW r, UNCHANGED m_UserName,
           m_RoomInfo' = [m_RoomInfo EXCEPT ![j] = r], PairInside(j)'
    PROVE  PairsInside'
<1>1. \A i \in Index : i # j => m_RoomInfo'[i] = m_RoomInfo[i]
  BY DEF TypeOK
<1>2. \A i \in Index : i # j => PairInside(i)'
  BY <1>1, SameRoomInside DEF PairsInside, IsRoom
<1> QED
  BY <1>2 DEF PairsInside

LEMMA WhisperingKeepsInside ==
    ASSUME Unambiguous, TypeOK, PairsInside, WhisperIndexExact,
           NEW s \in Socks, NEW t \in Socks,
           m_UserName[s] \in Nicks, m_UserName[t] \in Nicks,
           StartWhisper(s, t), ~ProcessGone("crashed")
    PROVE  PairsInside'
<1>1. m_UserName[s] # m_UserName[t]
  BY DEF StartWhisper
<1>2. CASE OpenWhisper(s, t)
  <2> DEFINE r == WhisperRoom(s, t)
  <2>1. PICK j \in Index : j = m_RoomIndex
    BY DEF TypeOK
  <2>2. /\ m_RoomInfo' = [m_RoomInfo EXCEPT ![j] = r] /\ m_RoomInfo'[j] = r
        /\ UNCHANGED m_UserName
    BY <1>2, <2>1 DEF OpenWhisper, TypeOK
  <2>3. /\ r.m_WhisperAccount = <<m_UserName[s], m_UserName[t]>>
        /\ r.m_Account = <<s, t>>
    BY WhisperRoomFields
  <2> HIDE DEF r
  <2>4. Members(j)' \subseteq {s, t}
    <3>1. Range(<<s, t>>) = {s, t}
      BY DEF Range
    <3> QED
      BY <2>2, <2>3, <3>1 DEF Members
  <2>5. PairInside(j)'
    BY <1>1, <2>2, <2>3, <2>4 DEF PairInside, PairOf
  <2> QED
    BY <2>2, <2>5, PuttingKeepsInside
<1>3. CASE RejoinWhisper(s, t)
  <2> DEFINE key == WhisperKey(s, t)
  <2>1. key \in WhispKey
    BY KeysAreKeys
  <2>2. PICK i \in Index : m_WhispRoomInfo[key] = i
    BY <1>3, <2>1 DEF RejoinWhisper, TypeOK
  <2> DEFINE inside == IF IsRoom(i) THEN m_RoomInfo[i].m_Account ELSE <<>>
             who == Missing(s, t, inside)
             r == m_RoomInfo[i]
  <2>3. IsWhisper(i) /\ KeyOf(r) = key
    BY <2>1, <2>2, NullAssumption, ExactByHalves DEF KeyExact
  <2>4. PairInside(i)
    BY DEF PairsInside
  <2>5. PairOf(r) = {m_UserName[s], m_UserName[t]}
    <3>1. /\ r.m_WhisperAccount[1] \in Nicks /\ r.m_WhisperAccount[2] \in Nicks
          /\ r.m_WhisperAccount[1] # r.m_WhisperAccount[2]
          /\ r.m_WhisperAccount[1] \o r.m_WhisperAccount[2]
                = m_UserName[s] \o m_UserName[t]
      BY <2>3, <2>4 DEF PairInside, PairOf, KeyOf, WhisperKey
    <3>2. PICK x1 \in Nicks, x2 \in Nicks :
             x1 = r.m_WhisperAccount[1] /\ x2 = r.m_WhisperAccount[2]
      BY <3>1
    <3>3. x1 # x2 /\ x1 \o x2 = m_UserName[s] \o m_UserName[t]
      BY <3>1, <3>2
    <3>4. PICK y1 \in Nicks, y2 \in Nicks :
             y1 = m_UserName[s] /\ y2 = m_UserName[t]
      BY <1>1
    <3>5. y1 # y2 /\ x1 \o x2 = y1 \o y2
      BY <1>1, <3>3, <3>4
    <3>6. x1 \in {y1, y2} /\ x2 \in {y1, y2}
      <4> HIDE DEF r, key, inside, who
      <4> QED
        BY <3>3, <3>5, OnePairOfAKey
    <3> QED
      BY <3>2, <3>3, <3>4, <3>6 DEF PairOf
  <2>6. who \in {s, t}
    BY DEF Missing
  <2>7. /\ UNCHANGED m_UserName
        /\ \/ UNCHANGED m_RoomInfo
           \/ m_RoomInfo' = [m_RoomInfo EXCEPT ![i].m_Account = Append(@, who)]
    BY <1>3, <2>2 DEF RejoinWhisper
  <2> HIDE DEF who, inside
  <2>8. CASE UNCHANGED m_RoomInfo
    BY <2>7, <2>8, SameRoomInside DEF PairsInside, IsRoom
  <2>9. CASE m_RoomInfo' = [m_RoomInfo EXCEPT ![i].m_Account = Append(@, who)]
    <3>1. IsRoom(i) /\ who \in Socks
      BY <2>3, <2>6 DEF IsWhisper
    <3>2. /\ m_RoomInfo' = [m_RoomInfo EXCEPT ![i] = Joined(r, who)]
          /\ m_RoomInfo'[i] = Joined(r, who)
      BY <2>9 DEF Joined, TypeOK
    <3>3. /\ Joined(r, who).m_Status = r.m_Status
          /\ Joined(r, who).m_WhisperAccount = r.m_WhisperAccount
          /\ Range(Joined(r, who).m_Account) = Members(i) \cup {who}
      BY <3>1, JoinedFields
    <3>4. \A c \in Members(i)' :
             \/ c \in Members(i) /\ m_UserName'[c] = m_UserName[c]
             \/ m_UserName'[c] \in PairOf(r)
      BY <2>5, <2>6, <2>7, <3>2, <3>3 DEF Members
    <3>5. PairInside(i)'
      BY <2>4, <3>1, <3>2, <3>3, <3>4, SamePairInside
    <3> QED
      BY <2>7, <3>2, <3>5, PuttingKeepsInside
  <2> QED
    BY <2>7, <2>8, <2>9
<1> QED
  BY <1>2, <1>3 DEF StartWhisper

LEMMA NextKeepsInside ==
    ASSUME ClientRules = AllRules, Unambiguous, TypeOK, RoomsConnected,
           WhisperIndexExact, PairsInside, [Next]_vars
    PROVE  PairsInside'
<1>1. ASSUME NEW how, ProcessGone(how) PROVE PairsInside'
  BY <1>1 DEF ProcessGone, PairsInside, PairInside, IsWhisper, IsRoom
<1>2. CASE UNCHANGED <<m_RoomInfo, m_UserName>>
  BY <1>2, SameRoomInside DEF PairsInside, IsRoom
<1>3. ASSUME NEW j \in Index, m_RoomInfo' = Looked(j), UNCHANGED m_UserName
      PROVE  PairsInside'
  BY <1>3, LookingKeepsEntries, SameRoomInside
  DEF PairsInside, PairInside, IsWhisper
<1>4. ASSUME NEW s \in Socks, OnClose(s) PROVE PairsInside'
  <2>1. CASE LeaveRooms(s, Index) /\ m_UserName' = NamesWithout(s)
    BY <2>1, LeavingKeepsInside DEF NamesWithout, TypeOK
  <2> QED
    BY <1>1, <1>4, <2>1 DEF OnClose, RoomsSwept
<1>5. ASSUME NEW s \in Socks, NEW n \in Names, MayLogin(s, n), LoginData(s, n)
      PROVE  PairsInside'
  <2>1. m_UserName[s] = NoName
    BY <1>5 DEF MayLogin, Keeps, AllRules
  <2>2. \A i \in Index : IsWhisper(i) => s \notin Members(i)
    BY <2>1 DEF PairsInside, PairInside, Nicks
  <2>3. CASE m_UserName' = [m_UserName EXCEPT ![s] = n] /\ UNCHANGED m_RoomInfo
    <3>1. ASSUME NEW i \in Index, IsWhisper(i) PROVE PairInside(i)'
      <4>1. \A c \in Members(i) : m_UserName'[c] = m_UserName[c]
        BY <2>2, <2>3, <3>1, MembersAreSocks DEF TypeOK
      <4> QED
        BY <2>3, <4>1, SameRoomInside DEF PairsInside, IsRoom
    <3> QED
      BY <2>3, <3>1 DEF PairsInside, PairInside, IsWhisper, IsRoom
  <2>4. ASSUME NEW t \in Socks, LeaveRooms(t, Index),
               m_UserName' = [NamesWithout(t) EXCEPT ![s] = n]
        PROVE  PairsInside'
    <3>1. \A c \in Socks : c # s /\ c # t => m_UserName'[c] = m_UserName[c]
      BY <2>4 DEF NamesWithout, TypeOK
    <3> QED
      BY <2>2, <2>4, <3>1, LeavingKeepsInside
  <2> QED
    BY <1>1, <1>5, <2>3, <2>4
    DEF LoginData, SignIn, TakeOver, Hang, RoomsSwept, SignedInAs, Named
<1>6. ASSUME NEW s \in Socks, CreateOpenRoom(s, ROOM_PUBLIC) PROVE PairsInside'
  <2>1. CASE /\ m_RoomInfo' = [m_RoomInfo EXCEPT ![m_RoomIndex] = NewRoom(ROOM_PUBLIC, s)]
             /\ UNCHANGED m_UserName
    <3>1. PICK j \in Index : j = m_RoomIndex
      BY DEF TypeOK
    <3>2. m_RoomInfo' = [m_RoomInfo EXCEPT ![j] = NewRoom(ROOM_PUBLIC, s)]
      BY <2>1, <3>1
    <3>3. ~IsWhisper(j)'
      BY <3>2 DEF TypeOK, IsWhisper, NewRoom, ROOM_PUBLIC, ROOM_WHISPER
    <3> QED
      BY <2>1, <3>2, <3>3, PuttingKeepsInside DEF PairInside
  <2> QED
    BY <1>1, <1>6, <2>1 DEF CreateOpenRoom
<1>7. ASSUME NEW s \in Socks, NEW i \in Index, MayEnter(s, i), EnterRoom(s, i)
      PROVE  PairsInside'
  <2>1. ~IsWhisper(i)
    BY <1>7 DEF MayEnter, Keeps, AllRules
  <2>2. CASE /\ IsRoom(i) /\ UNCHANGED m_UserName
             /\ m_RoomInfo' = [m_RoomInfo EXCEPT ![i].m_Account = Append(@, s)]
    <3>1. /\ m_RoomInfo' = [m_RoomInfo EXCEPT ![i] = Joined(m_RoomInfo[i], s)]
          /\ m_RoomInfo'[i] = Joined(m_RoomInfo[i], s)
      BY <2>2 DEF Joined, TypeOK
    <3>2. ~IsWhisper(i)'
      BY <2>1, <2>2, <3>1, JoinedFields DEF IsWhisper
    <3> QED
      BY <2>2, <3>1, <3>2, PuttingKeepsInside DEF PairInside
  <2> QED
    BY <1>3, <1>7, <2>2 DEF EnterRoom
<1>8. ASSUME NEW s \in Socks, NEW i \in Index, CloseRoom(s, i) PROVE PairsInside'
  <2>1. CASE LeaveRooms(s, {i}) /\ UNCHANGED m_UserName
    BY <2>1, LeavingKeepsInside
  <2> QED
    BY <1>1, <1>3, <1>8, <2>1 DEF CloseRoom
<1>9. ASSUME NEW s \in Socks, NEW t \in Socks, m_UserName[s] \in Nicks,
             m_UserName[t] \in Nicks, StartWhisper(s, t)
      PROVE  PairsInside'
  BY <1>1, <1>9, WhisperingKeepsInside
<1>10. Addressed = Nicks
  BY DEF Addressed, Keeps, AllRules, Nicks
<1>11. ASSUME NEW s \in Socks, MayAsk(s) PROVE m_UserName[s] \in Nicks
  BY <1>11 DEF MayAsk, Keeps, AllRules, TypeOK, Nick, Nicks
<1>12. ASSUME NEW s \in Socks, MayAsk(s), NEW i \in Index, NEW n \in Addressed,
              Whisper(s, i, n)
       PROVE  PairsInside'
  BY <1>9, <1>10, <1>11, <1>12, WhisperTarget
<1>13. ASSUME NEW s \in Socks, MayAsk(s), NEW n \in Addressed, FriendTalk(s, n)
       PROVE  PairsInside'
  BY <1>9, <1>10, <1>11, <1>13 DEF FriendTalk, TypeOK
<1>14. ASSUME NEW s \in Socks, NEW i \in Index, Say(s, i) PROVE PairsInside'
  BY <1>1, <1>3, <1>14 DEF Say
<1>15. ASSUME NEW s \in Socks, NEW i \in Index, NEW n \in Addressed,
              Ban(s, i, n) \/ Unban(s, i, n)
       PROVE  PairsInside'
  <2>1. IsRoom(i) /\ ~IsWhisper(i) /\ UNCHANGED m_UserName
    BY <1>15 DEF Ban, Unban, IsMaster, IsOpen, IsWhisper
  <2>2. PICK bans : m_RoomInfo' = [m_RoomInfo EXCEPT ![i].m_banAccount = bans]
    BY <1>15 DEF Ban, Unban
  <2>3. /\ m_RoomInfo' = [m_RoomInfo EXCEPT ![i] = Banned(m_RoomInfo[i], bans)]
        /\ m_RoomInfo'[i] = Banned(m_RoomInfo[i], bans)
    BY <2>2 DEF Banned, TypeOK
  <2>4. ~IsWhisper(i)'
    BY <2>1, <2>3, BannedFields DEF IsWhisper
  <2> QED
    BY <2>1, <2>3, <2>4, PuttingKeepsInside DEF PairInside
<1>16. ASSUME NEW s \in Socks, MayAsk(s), LobbyRequest(s) PROVE PairsInside'
  <2>1. \A st : MayCreate(st) => st = ROOM_PUBLIC
    BY DEF MayCreate, Keeps, AllRules
  <2> QED
    BY <1>1, <1>6, <1>7, <1>8, <1>16, <2>1 DEF LobbyRequest, SendRoomList
<1>17. ASSUME NEW s \in Socks, MayAsk(s), RoomRequest(s) PROVE PairsInside'
  BY <1>1, <1>12, <1>14, <1>15, <1>17 DEF RoomRequest, Kick
<1> QED
  BY <1>2, <1>4, <1>5, <1>13, <1>16, <1>17
  DEF Next, ServerStep, AcceptClient, Restart, tables, vars

(* A nick is on one socket: two nicks, two members.                        *)
LEMMA TwoNicksTwoMembers ==
    ASSUME TypeOK, OneSocketPerName, RoomsConnected, PairsInside
    PROVE  WhisperPairOnly
<1> SUFFICES ASSUME NEW i \in Index, IsWhisper(i)
             PROVE  /\ \A s \in Members(i) :
                          m_UserName[s] \in Range(m_RoomInfo[i].m_WhisperAccount)
                    /\ Len(m_RoomInfo[i].m_Account) <= 2
  BY DEF WhisperPairOnly
<1> DEFINE pair == m_RoomInfo[i].m_WhisperAccount
           q == m_RoomInfo[i].m_Account
<1>1. pair \in Seq(Nick) /\ q \in Seq(Socks) /\ Members(i) = Range(q)
  BY RoomFields DEF IsWhisper, Members
<1>2. /\ Len(pair) = 2 /\ pair[1] \in Nicks /\ pair[2] \in Nicks
      /\ \A s \in Members(i) : m_UserName[s] \in {pair[1], pair[2]}
  BY DEF PairsInside, PairInside, PairOf
<1>3. IsInjective(q)
  BY DEF RoomsConnected, RoomConnected, IsWhisper
<1> HIDE DEF pair, q
<1>4. pair[1] \in Range(pair) /\ pair[2] \in Range(pair)
  BY <1>1, <1>2 DEF Range
<1>5. Len(q) \in Nat /\ DOMAIN q = 1 .. Len(q)
  BY <1>1, LenProperties
<1>6. ASSUME ~(Len(q) <= 2) PROVE FALSE
  <2>1. 1 \in DOMAIN q /\ 2 \in DOMAIN q /\ 3 \in DOMAIN q
    BY <1>5, <1>6
  <2>2. q[1] # q[2] /\ q[1] # q[3] /\ q[2] # q[3]
    BY <1>3, <2>1 DEF IsInjective
  <2>3. /\ q[1] \in Members(i) /\ q[2] \in Members(i) /\ q[3] \in Members(i)
        /\ q[1] \in Socks /\ q[2] \in Socks /\ q[3] \in Socks
    BY <1>1, <2>1 DEF Range
  <2>4. NoName \notin Nicks
    BY DEF Nicks
  <2>5. \A s, t \in {q[1], q[2], q[3]} : s # t => m_UserName[s] # m_UserName[t]
    BY <1>2, <2>3, <2>4 DEF OneSocketPerName
  <2> QED
    BY <1>2, <2>2, <2>3, <2>5
<1> QED
  BY <1>2, <1>4, <1>6 DEF pair, q

(* RoomData "/w", FriendData "talk": if clients enter open rooms only,     *)
(* once, after one login, and no two pairs of nicks spell one key, nobody  *)
(* but the pair is ever inside its room, nor one of the two twice.         *)
THEOREM WhisperRoomsAreForTwo ==
    ASSUME ClientRules = AllRules, Unambiguous
    PROVE  Spec => []WhisperPairOnly
<1>1. Init => PairsInside
  BY DEF Init, PairsInside, PairInside, IsWhisper, IsRoom
<1>2. "enter_once" \in ClientRules
  BY DEF AllRules
<1>3. Spec => []RoomsConnected
  BY <1>2, RoomsAlwaysConnected
<1>4. TypeOK /\ RoomsConnected /\ WhisperIndexExact /\ PairsInside /\ [Next]_vars
        => PairsInside'
  BY NextKeepsInside
<1>5. TypeOK /\ OneSocketPerName /\ RoomsConnected /\ PairsInside => WhisperPairOnly
  BY TwoNicksTwoMembers
<1> QED
  BY <1>1, <1>3, <1>4, <1>5, TypeCorrect, NamesUnique, WhisperIndexIsExact, PTL
  DEF Spec

-----------------------------------------------------------------------------
(***************************************************************************)
(* ChatRooms implements Membership when clients keep enter_once: each of   *)
(* its steps maps to a step of Membership or to a stutter.                 *)
(***************************************************************************)

LEMMA InsidersOf ==
    ASSUME NEW i \in Index
    PROVE  /\ Insiders[i] = Members(i)
           /\ Insiders'[i] = Members(i)'
           /\ Masters[i] = MasterOf(i)
           /\ Masters'[i] = MasterOf(i)'
BY DEF Insiders, Masters

(* A step that leaves entries and masters alone stutters.                  *)
LEMMA SameRoomsStutter ==
    ASSUME UNCHANGED m_UserList,
           \A i \in Index : /\ Members(i)' = Members(i)
                            /\ MasterOf(i)' = MasterOf(i)
    PROVE  UNCHANGED Promised!vars
<1>1. Insiders' = Insiders /\ Masters' = Masters
  BY DEF Insiders, Masters
<1> QED
  BY <1>1 DEF Promised!vars

(* The end of the process is the end of everything.                        *)
LEMMA GoneIsEnd ==
    ASSUME NEW how, ProcessGone(how)
    PROVE  Promised!Next
<1>1. \A i \in Index : Members(i)' = {} /\ MasterOf(i)' = NULL
  BY DEF ProcessGone, Members, MasterOf, IsRoom
<1>2. Insiders' = [i \in Index |-> {}] /\ Masters' = [i \in Index |-> NULL]
  BY <1>1 DEF Insiders, Masters
<1>3. Promised!End
  BY <1>2 DEF Promised!End, ProcessGone
<1> QED
  BY <1>3 DEF Promised!Next

-----------------------------------------------------------------------------
(* Leaving.                                                                *)

(* A place without insiders has no host, and a host is inside.             *)
HostsInside ==
    \A i \in Index : MasterOf(i) # NULL => MasterOf(i) \in Members(i)

LEMMA SoundHosts ==
    ASSUME TypeOK, RoomsSound
    PROVE  /\ HostsInside
           /\ \A i \in Index : IsRoom(i) => Members(i) # {}
<1>1. \A i \in Index : IsRoom(i) => Members(i) # {}
  <2> SUFFICES ASSUME NEW i \in Index, IsRoom(i) PROVE Members(i) # {}
    OBVIOUS
  <2> QED
    BY RoomFields, EmptyMembers DEF RoomsSound, RoomSound, Members
<1> QED
  BY <1>1 DEF HostsInside, RoomsSound, RoomSound, MasterOf

(* Room i, where it survives s leaving the rooms of D.                     *)
LEMMA RoomLeft ==
    ASSUME TypeOK, RoomsConnected, RoomsSound, NEW s \in Socks,
           NEW D \in SUBSET Index, LeaveRooms(s, D), NEW i \in Index, IsRoom(i)'
    PROVE  /\ Members(i)' = IF i \in D THEN Members(i) \ {s} ELSE Members(i)
           /\ Members(i)' # {}
           /\ IF i \in D /\ MasterOf(i) = s
              THEN MasterOf(i)' \in Members(i)'
              ELSE MasterOf(i)' = MasterOf(i)
<1> DEFINE r == m_RoomInfo[i]
           rest == RemoveFirst(r.m_Account, s)
<1>1. /\ IsRoom(i)
      /\ i \in D => /\ m_RoomInfo'[i] = Left(r, s)
                    /\ m_RoomInfo'[i].m_Account # <<>>
      /\ i \notin D => m_RoomInfo'[i] = r
  BY RoomAfterLeaving DEF LeaveRooms
<1>2. r \in RoomInfo /\ r.m_Account \in Seq(Socks)
  BY <1>1, RoomFields
<1>3. IsInjective(r.m_Account) /\ Members(i) = Range(r.m_Account)
  BY <1>1 DEF RoomsConnected, RoomConnected, Members
<1>4. MasterOf(i) = r.m_MasterAccount /\ MasterOf(i)' = m_RoomInfo'[i].m_MasterAccount
  BY <1>1 DEF MasterOf
<1>5. Members(i)' = Range(m_RoomInfo'[i].m_Account)
  BY DEF Members
<1>6. CASE i \in D
  <2>1. /\ m_RoomInfo'[i].m_Account = rest
        /\ m_RoomInfo'[i].m_MasterAccount =
             IF r.m_MasterAccount = s /\ rest # <<>> THEN Head(rest)
             ELSE r.m_MasterAccount
    BY <1>1, <1>2, <1>6, LeftFields
  <2> HIDE DEF r
  <2>2. /\ rest \in Seq(Socks)
        /\ Range(rest) = Members(i) \ {s}
    BY <1>2, <1>3, RemoveFirstMembers, RemoveFirstDistinct
  <2>3. rest # <<>> /\ Head(rest) \in Range(rest)
    BY <1>1, <1>6, <2>1, <2>2, HeadMember
  <2> HIDE DEF rest
  <2> QED
    BY <1>4, <1>5, <1>6, <2>1, <2>2, <2>3
<1>7. CASE i \notin D
  <2>1. Members(i)' = Members(i) /\ MasterOf(i)' = MasterOf(i)
    BY <1>1, <1>3, <1>4, <1>5, <1>7
  <2> QED
    BY <1>1, <1>7, <2>1, SoundHosts
<1> QED
  BY <1>6, <1>7

(* Room i, where there is none after s has left the rooms of D.            *)
LEMMA NoRoomLeft ==
    ASSUME TypeOK, NEW s \in Socks,
           NEW D \in SUBSET Index, LeaveRooms(s, D), NEW i \in Index, ~IsRoom(i)'
    PROVE  /\ Members(i)' = {} /\ MasterOf(i)' = NULL
           /\ IF i \in D THEN Members(i) \subseteq {s} ELSE Members(i) = {}
<1>1. Members(i)' = {} /\ MasterOf(i)' = NULL
  BY DEF Members, MasterOf
<1>2. m_RoomInfo'[i] = IF i \in Emptied(s, D) THEN NoEntry
                       ELSE IF i \in D /\ IsRoom(i) THEN Left(m_RoomInfo[i], s)
                       ELSE m_RoomInfo[i]
  BY DEF LeaveRooms, RoomsWithout
<1>3. CASE i \in Emptied(s, D)
  <2>1. i \in D /\ IsRoom(i) /\ Left(m_RoomInfo[i], s).m_Account = <<>>
    BY <1>3 DEF Emptied
  <2>2. m_RoomInfo[i] \in RoomInfo /\ m_RoomInfo[i].m_Account \in Seq(Socks)
    BY <2>1, RoomFields
  <2>3. RemoveFirst(m_RoomInfo[i].m_Account, s) = <<>>
    BY <2>1, <2>2, LeftFields
  <2>4. Range(<<>>) = {}
    BY DEF Range
  <2>5. Range(m_RoomInfo[i].m_Account) \subseteq {s}
    BY <2>2, <2>3, <2>4, RemoveFirstMembers
  <2> QED
    BY <1>1, <2>1, <2>5 DEF Members
<1>4. CASE i \notin Emptied(s, D)
  <2>1. ~IsRoom(i)
    <3>1. SUFFICES ASSUME IsRoom(i) PROVE FALSE
      OBVIOUS
    <3>2. m_RoomInfo[i] \in RoomInfo
      BY <3>1, RoomFields
    <3>3. Left(m_RoomInfo[i], s) \in RoomInfo
      BY <3>2, LeftFields
    <3>4. m_RoomInfo'[i] \in RoomInfo
      BY <1>2, <1>4, <3>2, <3>3
    <3> QED
      BY <3>4, NullAssumption DEF IsRoom
  <2> QED
    BY <1>1, <2>1 DEF Members
<1> QED
  BY <1>3, <1>4

LEMMA LeavingVacates ==
    ASSUME TypeOK, TypeOK', RoomsConnected, RoomsSound, NEW s \in Socks,
           NEW D \in SUBSET Index, LeaveRooms(s, D)
    PROVE  Promised!Vacate(s, D)
<1>1. \A i \in Index :
         /\ Members(i)' = IF i \in D THEN Members(i) \ {s} ELSE Members(i)
         /\ IF Members(i)' = {} THEN MasterOf(i)' = NULL
            ELSE IF i \in D /\ MasterOf(i) = s THEN MasterOf(i)' \in Members(i)'
            ELSE MasterOf(i)' = MasterOf(i)
  <2> SUFFICES ASSUME NEW i \in Index
               PROVE  /\ Members(i)' = IF i \in D THEN Members(i) \ {s} ELSE Members(i)
                      /\ IF Members(i)' = {} THEN MasterOf(i)' = NULL
                         ELSE IF i \in D /\ MasterOf(i) = s
                              THEN MasterOf(i)' \in Members(i)'
                              ELSE MasterOf(i)' = MasterOf(i)
    OBVIOUS
  <2>1. CASE IsRoom(i)'
    BY <2>1, RoomLeft
  <2>2. CASE ~IsRoom(i)'
    BY <2>2, NoRoomLeft
  <2> QED
    BY <2>1, <2>2
<1>2. \A i \in Index : MasterOf(i)' \in Socks \cup {NULL}
  BY RoomFields, NullAssumption DEF MasterOf, RoomInfo, IsRoom, TypeOK
<1>3. Insiders' = [i \in Index |-> IF i \in D THEN Insiders[i] \ {s} ELSE Insiders[i]]
  BY <1>1 DEF Insiders
<1>4. Masters' \in [Index -> Socks \cup {NULL}]
  BY <1>2 DEF Masters
<1>5. \A i \in Index :
         IF Insiders'[i] = {} THEN Masters'[i] = NULL
         ELSE IF i \in D /\ Masters[i] = s THEN Masters'[i] \in Insiders'[i]
         ELSE Masters'[i] = Masters[i]
  BY <1>1, InsidersOf
<1> QED
  BY <1>3, <1>4, <1>5 DEF Promised!Vacate

(* Leaving rooms that one is not in is no step at all.                     *)
LEMMA VacatingNothing ==
    ASSUME TypeOK, RoomsSound, NEW s \in Socks, NEW D \in SUBSET Index,
           Promised!Vacate(s, D), UNCHANGED m_UserList,
           \A i \in D : s \notin Members(i)
    PROVE  UNCHANGED Promised!vars
<1>1. \A i \in Index : Members(i)' = Members(i)
  BY InsidersOf DEF Promised!Vacate
<1>2. \A i \in Index :
         IF Members(i)' = {} THEN MasterOf(i)' = NULL
         ELSE IF i \in D /\ MasterOf(i) = s THEN MasterOf(i)' \in Members(i)'
         ELSE MasterOf(i)' = MasterOf(i)
  BY InsidersOf DEF Promised!Vacate
<1>3. \A i \in Index : MasterOf(i)' = MasterOf(i)
  BY <1>1, <1>2, SoundHosts, NullAssumption DEF HostsInside
<1> QED
  BY <1>1, <1>3, SameRoomsStutter

-----------------------------------------------------------------------------
(* Coming in.                                                              *)

(* A room put at a free index.                                             *)
LEMMA PuttingOpens ==
    ASSUME TypeOK, NEW i \in Index, ~IsRoom(i), NEW r \in RoomInfo,
           m_RoomInfo' = [m_RoomInfo EXCEPT ![i] = r]
    PROVE  /\ Insiders[i] = {} /\ Masters[i] = NULL
           /\ Insiders' = [Insiders EXCEPT ![i] = Range(r.m_Account)]
           /\ Masters' = [Masters EXCEPT ![i] = r.m_MasterAccount]
<1>1. \A j \in Index : m_RoomInfo'[j] = IF j = i THEN r ELSE m_RoomInfo[j]
  BY DEF TypeOK
<1>2. \A j \in Index :
         /\ Members(j)' = IF j = i THEN Range(r.m_Account) ELSE Members(j)
         /\ MasterOf(j)' = IF j = i THEN r.m_MasterAccount ELSE MasterOf(j)
  BY <1>1, NullAssumption DEF Members, MasterOf, IsRoom
<1>3. Insiders[i] = {} /\ Masters[i] = NULL
  BY DEF Insiders, Masters, Members, MasterOf
<1> QED
  BY <1>2, <1>3 DEF Insiders, Masters

LEMMA CreatingOpens ==
    ASSUME TypeOK, NEW s \in m_UserList, NEW st \in {ROOM_PUBLIC, ROOM_WHISPER},
           CreateOpenRoom(s, st)
    PROVE  Promised!Next
<1>1. s \in Socks /\ m_RoomIndex \in Index /\ ~IsRoom(m_RoomIndex)
  BY DEF TypeOK, CreateOpenRoom, SlotFree
<1>2. CASE ProcessGone("crashed")
  BY <1>2, GoneIsEnd
<1>3. CASE ~ProcessGone("crashed")
  <2>1. /\ m_RoomInfo' = [m_RoomInfo EXCEPT ![m_RoomIndex] = NewRoom(st, s)]
        /\ UNCHANGED m_UserList
    BY <1>3 DEF CreateOpenRoom
  <2>2. /\ NewRoom(st, s) \in RoomInfo
        /\ Range(NewRoom(st, s).m_Account) = {s}
        /\ NewRoom(st, s).m_MasterAccount = s
    BY <1>1, NewRoomType, OneMember DEF NewRoom
  <2>3. Promised!Open(s, m_RoomIndex)
    BY <1>1, <2>1, <2>2, PuttingOpens DEF Promised!Open
  <2> QED
    BY <1>1, <2>3 DEF Promised!Next
<1> QED
  BY <1>2, <1>3

LEMMA AppendingJoins ==
    ASSUME TypeOK, RoomsSound, NEW i \in Index, IsRoom(i), NEW x \in m_UserList,
           x \notin Members(i), UNCHANGED m_UserList,
           m_RoomInfo' = [m_RoomInfo EXCEPT ![i].m_Account = Append(@, x)]
    PROVE  Promised!Next
<1>1. x \in Socks
  BY DEF TypeOK
<1>2. \A j \in Index :
         m_RoomInfo'[j] = IF j = i THEN Joined(m_RoomInfo[i], x) ELSE m_RoomInfo[j]
  BY DEF TypeOK, Joined
<1>3. /\ Range(Joined(m_RoomInfo[i], x).m_Account) = Members(i) \cup {x}
      /\ Joined(m_RoomInfo[i], x).m_MasterAccount = m_RoomInfo[i].m_MasterAccount
  BY <1>1, JoinedFields
<1>4. IsRoom(i)'
  <2>1. Joined(m_RoomInfo[i], x) \in RoomInfo
    BY <1>1, RoomFields, AppendMembers DEF Joined, RoomInfo
  <2> QED
    BY <1>2, <2>1, NullAssumption DEF IsRoom
<1>5. \A j \in Index :
         /\ Members(j)' = IF j = i THEN Members(i) \cup {x} ELSE Members(j)
         /\ MasterOf(j)' = MasterOf(j)
  <2> SUFFICES ASSUME NEW j \in Index
               PROVE  /\ Members(j)' = IF j = i THEN Members(i) \cup {x} ELSE Members(j)
                      /\ MasterOf(j)' = MasterOf(j)
    OBVIOUS
  <2>1. CASE j = i
    <3>1. m_RoomInfo'[i] = Joined(m_RoomInfo[i], x)
      BY <1>2
    <3>2. Members(i)' = Members(i) \cup {x}
      BY <1>3, <1>4, <3>1 DEF Members
    <3>3. MasterOf(i)' = MasterOf(i)
      BY <1>3, <1>4, <3>1 DEF MasterOf
    <3> QED
      BY <2>1, <3>2, <3>3
  <2>2. CASE j # i
    BY <1>2, <2>2 DEF Members, MasterOf, IsRoom
  <2> QED
    BY <2>1, <2>2
<1>6. /\ Insiders' = [Insiders EXCEPT ![i] = @ \cup {x}]
      /\ UNCHANGED Masters
  BY <1>5 DEF Insiders, Masters
<1>7. x \notin Insiders[i] /\ Insiders[i] # {}
  BY SoundHosts, InsidersOf
<1>8. Promised!Join(x, i)
  BY <1>6, <1>7 DEF Promised!Join
<1> QED
  BY <1>1, <1>8 DEF Promised!Next

(* A whisper request opens the pair's room or brings one of them back in.  *)
LEMMA WhisperingJoins ==
    ASSUME TypeOK, RoomsSound, NEW s \in m_UserList, NEW t \in m_UserList,
           StartWhisper(s, t)
    PROVE  [Promised!Next]_(Promised!vars)
<1>1. s \in Socks /\ t \in Socks /\ m_UserName[s] # m_UserName[t] /\ s # t
  BY DEF TypeOK, StartWhisper
<1>2. CASE ProcessGone("crashed")
  BY <1>2, GoneIsEnd
<1>3. CASE OpenWhisper(s, t) /\ ~ProcessGone("crashed")
  <2>1. /\ m_RoomInfo' = [m_RoomInfo EXCEPT ![m_RoomIndex] = WhisperRoom(s, t)]
        /\ UNCHANGED m_UserList
        /\ m_RoomIndex \in Index /\ ~IsRoom(m_RoomIndex)
    BY <1>3 DEF OpenWhisper, TypeOK, SlotFree
  <2>2. /\ WhisperRoom(s, t) \in RoomInfo
        /\ WhisperRoom(s, t).m_Account = <<s, t>>
        /\ WhisperRoom(s, t).m_MasterAccount = NULL
    BY <1>1, WhisperRoomFields
  <2>3. Range(<<s, t>>) = {s, t}
    BY <1>1, TwoMembers
  <2>4. /\ Insiders[m_RoomIndex] = {} /\ Masters[m_RoomIndex] = NULL
        /\ Insiders' = [Insiders EXCEPT ![m_RoomIndex] = {s, t}]
        /\ Masters' = [Masters EXCEPT ![m_RoomIndex] = NULL]
    <3> DEFINE r == WhisperRoom(s, t)
    <3>1. /\ r \in RoomInfo /\ m_RoomInfo' = [m_RoomInfo EXCEPT ![m_RoomIndex] = r]
          /\ Range(r.m_Account) = {s, t} /\ r.m_MasterAccount = NULL
      BY <2>1, <2>2, <2>3
    <3> HIDE DEF r
    <3>2. /\ Insiders[m_RoomIndex] = {} /\ Masters[m_RoomIndex] = NULL
          /\ Insiders' = [Insiders EXCEPT ![m_RoomIndex] = Range(r.m_Account)]
          /\ Masters' = [Masters EXCEPT ![m_RoomIndex] = r.m_MasterAccount]
      BY ONLY TypeOK, <2>1, <3>1, PuttingOpens
    <3> QED
      BY ONLY <3>1, <3>2
  <2>5. UNCHANGED Masters
    BY <2>4 DEF Masters
  <2>6. Promised!OpenForTwo(s, t, m_RoomIndex)
    BY <1>1, <2>1, <2>4, <2>5 DEF Promised!OpenForTwo
  <2> QED
    BY <1>1, <2>1, <2>6 DEF Promised!Next
<1>4. CASE RejoinWhisper(s, t) /\ ~ProcessGone("crashed")
  <2> DEFINE i == m_WhispRoomInfo[WhisperKey(s, t)]
             inside == IF IsRoom(i) THEN m_RoomInfo[i].m_Account ELSE <<>>
             who == Missing(s, t, inside)
  <2>1. i \in Index /\ UNCHANGED m_UserList
    BY <1>1, <1>4, KeysAreKeys DEF TypeOK, RejoinWhisper
  <2>2. CASE m_RoomInfo' = m_RoomInfo
    BY <2>1, <2>2, SameRoomsStutter DEF Members, MasterOf, IsRoom
  <2>3. CASE m_RoomInfo' # m_RoomInfo
    <3>1. /\ Len(inside) = 1
          /\ m_RoomInfo' = [m_RoomInfo EXCEPT ![i].m_Account = Append(@, who)]
      BY <1>4, <2>3 DEF RejoinWhisper
    <3>2. IsRoom(i) /\ inside = m_RoomInfo[i].m_Account
      BY <3>1
    <3>3. inside \in Seq(Socks) /\ Members(i) = Range(inside)
      BY <2>1, <3>2, RoomFields DEF Members
    <3> HIDE DEF inside, i
    <3>4. Members(i) = {Head(inside)}
      BY <3>1, <3>3 DEF Range
    <3>5. who \in m_UserList /\ who # Head(inside)
      BY <1>1 DEF Missing
    <3> HIDE DEF who
    <3> QED
      BY <2>1, <3>1, <3>2, <3>4, <3>5, AppendingJoins
  <2> QED
    BY <2>2, <2>3
<1> QED
  BY <1>2, <1>3, <1>4 DEF StartWhisper

-----------------------------------------------------------------------------
(* All handlers.                                                           *)

(* One client is disconnected, by itself or by a takeover.                 *)
LEMMA SweepingDeparts ==
    ASSUME TypeOK, TypeOK', RoomsConnected, RoomsSound, NEW s \in Socks,
           LeaveRooms(s, RoomsSwept(s)), m_UserList' = m_UserList \ {s}
    PROVE  [Promised!Next]_(Promised!vars)
<1>1. Promised!Vacate(s, Index)
  BY LeavingVacates DEF RoomsSwept
<1>2. CASE s \in m_UserList
  <2>1. Promised!Depart(s)
    BY <1>1, <1>2 DEF Promised!Depart
  <2> QED
    BY <2>1 DEF Promised!Next
<1>3. CASE s \notin m_UserList
  <2>1. \A i \in Index : s \notin Members(i)
    BY <1>3 DEF RoomsConnected, RoomConnected, Members
  <2>2. UNCHANGED m_UserList
    BY <1>3
  <2> QED
    BY <1>1, <2>1, <2>2, VacatingNothing
<1> QED
  BY <1>2, <1>3

LEMMA ClosingLeaves ==
    ASSUME TypeOK, TypeOK', RoomsConnected, RoomsSound, NEW s \in Socks,
           NEW i \in Index, LeaveRooms(s, {i}), UNCHANGED m_UserList
    PROVE  [Promised!Next]_(Promised!vars)
<1>1. Promised!Vacate(s, {i})
  BY LeavingVacates
<1>2. CASE s \in Members(i)
  <2>1. Promised!Leave(s, i)
    BY <1>1, <1>2, InsidersOf DEF Promised!Leave
  <2> QED
    BY <2>1 DEF Promised!Next
<1>3. CASE s \notin Members(i)
  BY <1>1, <1>3, VacatingNothing
<1> QED
  BY <1>2, <1>3

LEMMA NextIsPromised ==
    ASSUME "enter_once" \in ClientRules, TypeOK, TypeOK', RoomsConnected,
           RoomsSound, [Next]_vars
    PROVE  [Promised!Next]_(Promised!vars)
<1> DEFINE Kept == [Promised!Next]_(Promised!vars)
<1>1. ASSUME NEW how, ProcessGone(how) PROVE Kept
  BY <1>1, GoneIsEnd
<1>2. CASE UNCHANGED <<m_UserList, m_RoomInfo>>
  BY <1>2, SameRoomsStutter DEF Members, MasterOf, IsRoom
<1>3. ASSUME NEW s \in Socks, AcceptClient(s) PROVE Kept
  <2>1. Insiders' = Insiders /\ Masters' = Masters
    BY <1>3 DEF AcceptClient, Insiders, Masters, Members, MasterOf, IsRoom
  <2>2. Promised!Arrive(s)
    BY <1>3, <2>1 DEF AcceptClient, Promised!Arrive
  <2> QED
    BY <2>2 DEF Promised!Next
<1>4. ASSUME NEW s \in Socks, OnClose(s) PROVE Kept
  BY <1>1, <1>4, SweepingDeparts DEF OnClose
<1>5. ASSUME NEW s \in Socks, NEW n \in Names, LoginData(s, n) PROVE Kept
  BY <1>1, <1>2, <1>5, SweepingDeparts
  DEF LoginData, SignIn, TakeOver, Hang, SignedInAs, Named
<1>6. ASSUME NEW i \in Index, m_RoomInfo' = Looked(i), UNCHANGED m_UserList
      PROVE  Kept
  <2>1. \A j \in Index : /\ IsRoom(j)' <=> IsRoom(j)
                         /\ IsRoom(j) => m_RoomInfo'[j] = m_RoomInfo[j]
    BY <1>6 DEF Looked, TypeOK, IsRoom
  <2> QED
    BY <1>6, <2>1, SameRoomsStutter DEF Members, MasterOf
<1>7. ASSUME NEW s \in m_UserList, NEW i \in Index, MayEnter(s, i), EnterRoom(s, i)
      PROVE  Kept
  <2>1. s \notin Members(i)
    BY <1>7 DEF MayEnter, Keeps
  <2> QED
    BY <1>6, <1>7, <2>1, AppendingJoins DEF EnterRoom
<1>8. ASSUME NEW s \in Socks, NEW i \in Index, CloseRoom(s, i) PROVE Kept
  BY <1>1, <1>6, <1>8, ClosingLeaves DEF CloseRoom
<1>9. ASSUME NEW s \in m_UserList, NEW i \in Index, NEW n, Whisper(s, i, n)
      PROVE  Kept
  <2>1. s \in Socks
    BY DEF TypeOK
  <2>2. PICK t \in Members(i) : StartWhisper(s, t)
    BY <1>9, <2>1, WhisperTarget
  <2>3. t \in m_UserList
    BY DEF RoomsConnected, RoomConnected, Members
  <2> QED
    BY <2>2, <2>3, WhisperingJoins
<1>10. ASSUME NEW s \in m_UserList, NEW n, FriendTalk(s, n) PROVE Kept
  BY <1>10, WhisperingJoins DEF FriendTalk
<1>11. ASSUME NEW s \in Socks, NEW i \in Index, Say(s, i) PROVE Kept
  BY <1>1, <1>6, <1>11 DEF Say
<1>12. ASSUME NEW s \in Socks, NEW i \in Index, NEW n \in Addressed,
              Ban(s, i, n) \/ Unban(s, i, n)
       PROVE  Kept
  <2>1. /\ IsRoom(i) /\ UNCHANGED m_UserList
        /\ \E bans \in SUBSET Nick :
              m_RoomInfo' = [m_RoomInfo EXCEPT ![i].m_banAccount = bans]
    <3>1. m_RoomInfo[i].m_banAccount \in SUBSET Nick /\ n \in Nick
      BY <1>12, RoomFields DEF Ban, Unban, IsMaster, IsOpen, Addressed, Nick
    <3> QED
      BY <1>12, <3>1 DEF Ban, Unban, IsMaster, IsOpen, TypeOK
  <2>2. PICK bans \in SUBSET Nick :
           m_RoomInfo' = [m_RoomInfo EXCEPT ![i].m_banAccount = bans]
    BY <2>1
  <2>3. \A j \in Index :
           m_RoomInfo'[j] = IF j = i THEN Banned(m_RoomInfo[i], bans) ELSE m_RoomInfo[j]
    BY <2>2 DEF TypeOK, Banned
  <2>4. IsRoom(i)' /\ \A j \in Index : j # i => (IsRoom(j)' <=> IsRoom(j))
    <3>2. \A j \in Index : j # i => (IsRoom(j)' <=> IsRoom(j))
      BY <2>3 DEF IsRoom
    <3>4. IsRoom(i)'
      BY <2>1, <2>3, RoomFields, NullAssumption DEF Banned, RoomInfo, IsRoom
    <3> QED
      BY <3>2, <3>4
  <2>5. \A j \in Index : Members(j)' = Members(j) /\ MasterOf(j)' = MasterOf(j)
    BY <2>1, <2>3, <2>4, BannedFields DEF Members, MasterOf
  <2> QED
    BY <2>1, <2>5, SameRoomsStutter
<1>13. ASSUME NEW s \in Socks, MayAsk(s), LobbyRequest(s) PROVE Kept
  BY <1>1, <1>7, <1>8, <1>13, CreatingOpens DEF MayAsk, LobbyRequest, SendRoomList
<1>14. ASSUME NEW s \in Socks, MayAsk(s), RoomRequest(s) PROVE Kept
  BY <1>1, <1>9, <1>11, <1>12, <1>14 DEF MayAsk, RoomRequest, Kick
<1> QED
  BY <1>2, <1>3, <1>4, <1>5, <1>10, <1>13, <1>14
  DEF Next, ServerStep, MayAsk, Restart, tables, vars

(* All handlers: if no client enters a room it is in, the tables behave as *)
(* Membership says, for any number of sockets, nicks and room indexes.     *)
THEOREM MembershipImplemented ==
    ASSUME "enter_once" \in ClientRules
    PROVE  Spec => MembershipKept
<1>1. Init => Promised!Init
  BY DEF Init, Promised!Init, Insiders, Masters, Members, MasterOf, IsRoom
<1>2. TypeOK /\ TypeOK' /\ RoomsConnected /\ RoomsSound /\ [Next]_vars
        => [Promised!Next]_(Promised!vars)
  BY NextIsPromised
<1>3. Spec => []RoomsConnected
  BY RoomsAlwaysConnected
<1> QED
  BY <1>1, <1>2, <1>3, TypeCorrect, RoomsAlwaysSound, PTL
  DEF Spec, MembershipKept, Promised!Spec

-----------------------------------------------------------------------------
(* What clients see of the rooms, whatever rules they keep.  The proofs    *)
(* rest on one fact about every handler: it leaves the open rooms as they  *)
(* are, or sends everyone the table as it leaves it, or ends the process.  *)

SameOpen == \A i \in Index : IsOpen(i)' <=> IsOpen(i)

Unsent == NotSent /\ SameOpen

SentToAll ==
    /\ SendRoomListTo(m_UserList, m_RoomInfo')
    /\ m_UserList' \subseteq m_UserList
    /\ ~ListFaults(m_RoomInfo')

AllGone == m_UserList' = {} /\ \A s \in Socks : seen'[s] = NotSeen

(* With the process its clients are gone, whatever else is sent.           *)
LEMMA GoneUnsent ==
    ASSUME NEW how, ProcessGone(how), NEW users, NEW rooms,
           SendRoomListTo(users, rooms)
    PROVE  AllGone
BY DEF ProcessGone, SendRoomListTo, AllGone

(* Tables that differ in one entry show the same open rooms when that      *)
(* entry is an open room in both of them or in neither.                    *)
LEMMA OneEntrySameOpen ==
    ASSUME TypeOK, NEW i \in Index, NEW r,
           m_RoomInfo' = [m_RoomInfo EXCEPT ![i] = r],
           IsOpen(i) <=> /\ r \notin {NULL, NoEntry}
                         /\ r.m_Status # ROOM_WHISPER
    PROVE  SameOpen
BY DEF TypeOK, SameOpen, IsOpen, IsRoom

LEMMA LookingShowsNothing ==
    ASSUME TypeOK, NEW i \in Index, ~IsRoom(i), m_RoomInfo' = Looked(i)
    PROVE  SameOpen
<1>1. PICK r \in {NULL, NoEntry} : m_RoomInfo' = [m_RoomInfo EXCEPT ![i] = r]
  BY DEF Looked, IsRoom
<1> QED
  BY <1>1, OneEntrySameOpen DEF IsOpen

LEMMA ChangingShowsNothing ==
    ASSUME TypeOK, NEW i \in Index, IsRoom(i), NEW r \in RoomInfo,
           r.m_Status = m_RoomInfo[i].m_Status,
           m_RoomInfo' = [m_RoomInfo EXCEPT ![i] = r]
    PROVE  SameOpen
BY NullAssumption, OneEntrySameOpen DEF IsOpen

LEMMA JoiningShowsNothing ==
    ASSUME TypeOK, NEW i \in Index, IsRoom(i), NEW s \in Socks,
           m_RoomInfo' = [m_RoomInfo EXCEPT ![i].m_Account = Append(@, s)]
    PROVE  SameOpen
<1> DEFINE q == Append(m_RoomInfo[i].m_Account, s)
           r == [m_RoomInfo[i] EXCEPT !.m_Account = q]
<1>1. q \in Seq(Socks) /\ m_RoomInfo[i] \in RoomInfo
  BY RoomFields, AppendMembers
<1>2. m_RoomInfo' = [m_RoomInfo EXCEPT ![i] = r]
  BY DEF TypeOK
<1> HIDE DEF q
<1>3. r \in RoomInfo /\ r.m_Status = m_RoomInfo[i].m_Status
  BY <1>1 DEF RoomInfo
<1> HIDE DEF r
<1> QED
  BY <1>2, <1>3, ChangingShowsNothing

LEMMA BanningShowsNothing ==
    ASSUME TypeOK, NEW i \in Index, IsRoom(i), NEW bans \in SUBSET Nick,
           m_RoomInfo' = [m_RoomInfo EXCEPT ![i].m_banAccount = bans]
    PROVE  SameOpen
<1> DEFINE r == [m_RoomInfo[i] EXCEPT !.m_banAccount = bans]
<1>1. r \in RoomInfo /\ r.m_Status = m_RoomInfo[i].m_Status
  BY RoomFields DEF RoomInfo
<1>2. m_RoomInfo' = [m_RoomInfo EXCEPT ![i] = r]
  BY DEF TypeOK
<1> HIDE DEF r
<1> QED
  BY <1>1, <1>2, ChangingShowsNothing

(* A whisper room may come or fill up: nobody is shown it.                 *)
LEMMA WhisperingShowsNothing ==
    ASSUME TypeOK, NEW s \in Socks, NEW t \in Socks, StartWhisper(s, t),
           ~ProcessGone("crashed")
    PROVE  SameOpen
<1>1. CASE OpenWhisper(s, t)
  <2>1. m_RoomIndex \in Index /\ ~IsRoom(m_RoomIndex)
    BY <1>1 DEF OpenWhisper, SlotFree, TypeOK
  <2>2. m_RoomInfo' = [m_RoomInfo EXCEPT ![m_RoomIndex] = WhisperRoom(s, t)]
    BY <1>1 DEF OpenWhisper
  <2>3. WhisperRoom(s, t).m_Status = ROOM_WHISPER
    BY WhisperRoomFields
  <2> QED
    BY <2>1, <2>2, <2>3, OneEntrySameOpen DEF IsOpen
<1>2. CASE RejoinWhisper(s, t)
  <2> DEFINE key == WhisperKey(s, t)
  <2>1. key \in WhispKey
    BY KeysAreKeys
  <2>2. PICK k \in Index : m_WhispRoomInfo[key] = k
    BY <1>2, <2>1 DEF RejoinWhisper, TypeOK
  <2> DEFINE inside == IF IsRoom(k) THEN m_RoomInfo[k].m_Account ELSE <<>>
             who == Missing(s, t, inside)
  <2>3. who \in Socks
    BY DEF Missing
  <2>4. \/ UNCHANGED m_RoomInfo
        \/ /\ Len(inside) = 1
           /\ m_RoomInfo' = [m_RoomInfo EXCEPT ![k].m_Account = Append(@, who)]
    BY <1>2, <2>2 DEF RejoinWhisper
  <2>5. Len(inside) = 1 => IsRoom(k)
    OBVIOUS
  <2> HIDE DEF who, inside
  <2>6. CASE UNCHANGED m_RoomInfo
    BY <2>6 DEF SameOpen, IsOpen, IsRoom
  <2> QED
    BY <2>3, <2>4, <2>5, <2>6, JoiningShowsNothing
<1> QED
  BY <1>1, <1>2 DEF StartWhisper

(* Leaving rooms without emptying one changes nothing that is shown; when  *)
(* one has emptied, the list goes out and no entry of it is NULL.          *)
LEMMA LeavingIsShown ==
    ASSUME TypeOK, NEW s \in Socks, NEW D \in SUBSET Index, LeaveRooms(s, D),
           m_UserList' \subseteq m_UserList, ListAfterLeaving(s, D)
    PROVE  Unsent \/ SentToAll
<1>1. CASE Emptied(s, D) # {}
  BY <1>1 DEF LeaveRooms, LeavingFaults, ListAfterLeaving, SentToAll
<1>2. CASE Emptied(s, D) = {}
  <2>1. ASSUME NEW i \in Index PROVE IsOpen(i)' <=> IsOpen(i)
    <3>1. m_RoomInfo'[i] =
             IF i \in D /\ IsRoom(i) THEN Left(m_RoomInfo[i], s)
             ELSE m_RoomInfo[i]
      BY <1>2 DEF LeaveRooms, RoomsWithout
    <3>2. IsRoom(i) => /\ Left(m_RoomInfo[i], s) \notin {NULL, NoEntry}
                       /\ Left(m_RoomInfo[i], s).m_Status = m_RoomInfo[i].m_Status
      BY RoomFields, LeftFields, NullAssumption
    <3> QED
      BY <3>1, <3>2 DEF IsOpen, IsRoom
  <2> QED
    BY <1>2, <2>1 DEF ListAfterLeaving, Unsent, SameOpen
<1> QED
  BY <1>1, <1>2

LEMMA SameTableSameOpen ==
    ASSUME UNCHANGED m_RoomInfo
    PROVE  SameOpen
BY DEF SameOpen, IsOpen, IsRoom

(* LoginData: the list goes out when closing the other one has emptied a   *)
(* room.                                                                   *)
LEMMA LoginIsShown ==
    ASSUME TypeOK, NEW s \in Socks, NEW n \in Names, ListedLogin(s, n)
    PROVE  Unsent \/ SentToAll \/ AllGone
<1>1. ASSUME NEW how, ProcessGone(how), NEW users, NEW rooms,
             SendRoomListTo(users, rooms)
      PROVE  AllGone
  BY <1>1, GoneUnsent
<1>2. CASE SignIn(s, n) /\ NotSent
  BY <1>2, SameTableSameOpen DEF SignIn, Unsent
<1>3. ASSUME NEW t \in SignedInAs(n), TakeOver(s, n, t),
             ListAfterLeaving(t, RoomsSwept(t))
      PROVE  Unsent \/ SentToAll \/ AllGone
  <2>1. t \in Socks
    BY DEF SignedInAs, Named
  <2>2. CASE ProcessGone("crashed")
    BY <1>1, <1>3, <2>2 DEF ListAfterLeaving, NotSent
  <2>3. CASE LeaveRooms(t, RoomsSwept(t)) /\ m_UserList' = m_UserList \ {t}
    BY <1>3, <2>1, <2>3, LeavingIsShown DEF RoomsSwept
  <2> QED
    BY <1>3, <2>2, <2>3 DEF TakeOver
<1>4. CASE Hang(n) /\ NotSent
  BY <1>1, <1>4 DEF Hang, NotSent
<1> QED
  BY <1>2, <1>3, <1>4 DEF ListedLogin

(* The one fact about handlers.                                            *)
LEMMA StepIsShown ==
    ASSUME TypeOK, ListNext
    PROVE  Unsent \/ SentToAll \/ AllGone
<1>1. ASSUME NEW s \in Socks, AcceptClient(s), NotSent PROVE Unsent
  BY <1>1, SameTableSameOpen DEF AcceptClient, Unsent
<1>2. ASSUME NEW s \in Socks, OnClose(s), ListAfterLeaving(s, RoomsSwept(s))
      PROVE  Unsent \/ SentToAll \/ AllGone
  <2>1. CASE ProcessGone("crashed")
    BY <1>2, <2>1, GoneUnsent DEF ListAfterLeaving, NotSent
  <2>2. CASE ~ProcessGone("crashed")
    BY <1>2, <2>2, LeavingIsShown DEF OnClose, RoomsSwept
  <2> QED
    BY <2>1, <2>2
<1>3. ASSUME NEW s \in Socks, NEW st, CreateOpenRoom(s, st),
             SendRoomListTo(m_UserList, m_RoomInfo')
      PROVE  SentToAll \/ AllGone
  BY <1>3, GoneUnsent DEF CreateOpenRoom, SentToAll
<1>4. ASSUME NEW s \in Socks, NEW i \in Index, EnterRoom(s, i), NotSent
      PROVE  Unsent
  BY <1>4, JoiningShowsNothing, LookingShowsNothing DEF EnterRoom, Unsent
<1>5. ASSUME NEW s \in Socks, NEW i \in Index, CloseRoom(s, i),
             ListAfterLeaving(s, {i})
      PROVE  Unsent \/ SentToAll \/ AllGone
  <2>1. CASE ProcessGone("crashed")
    BY <1>5, <2>1, GoneUnsent DEF ListAfterLeaving, NotSent
  <2>2. CASE ~IsRoom(i) /\ m_RoomInfo' = Looked(i)
    <3>1. Emptied(s, {i}) = {}
      BY <2>2 DEF Emptied
    <3> QED
      BY <1>5, <2>2, <3>1, LookingShowsNothing DEF ListAfterLeaving, Unsent
  <2>3. CASE LeaveRooms(s, {i}) /\ UNCHANGED m_UserList
    BY <1>5, <2>3, LeavingIsShown
  <2> QED
    BY <1>5, <2>1, <2>2, <2>3 DEF CloseRoom
<1>6. ASSUME RequestRoomList PROVE SentToAll \/ AllGone
  <2>1. CASE SendRoomList /\ NotSent
    BY <2>1, GoneUnsent DEF SendRoomList, NotSent
  <2>2. CASE /\ ~ListFaults(m_RoomInfo) /\ UNCHANGED vars
             /\ SendRoomListTo(m_UserList, m_RoomInfo)
    BY <2>2 DEF vars, SentToAll
  <2> QED
    BY <1>6, <2>1, <2>2 DEF RequestRoomList
<1>7. ASSUME NEW s \in Socks, NEW t \in Socks, StartWhisper(s, t), NotSent
      PROVE  Unsent \/ AllGone
  BY <1>7, GoneUnsent, WhisperingShowsNothing DEF Unsent, NotSent
<1>8. ASSUME NEW s \in Socks, NEW i \in Index, NEW n, Whisper(s, i, n), NotSent
      PROVE  Unsent \/ AllGone
  BY <1>7, <1>8, WhisperTarget
<1>9. ASSUME NEW s \in Socks, NEW n, FriendTalk(s, n), NotSent
      PROVE  Unsent \/ AllGone
  BY <1>7, <1>9 DEF FriendTalk, TypeOK
<1>10. ASSUME NEW s \in Socks, NEW i \in Index, Say(s, i), NotSent
       PROVE  Unsent \/ AllGone
  BY <1>10, GoneUnsent, LookingShowsNothing DEF Say, Unsent, NotSent
<1>11. ASSUME NEW s \in Socks, NEW i \in Index, NEW n \in Addressed, NotSent,
              Ban(s, i, n) \/ Unban(s, i, n)
       PROVE  Unsent
  <2>1. IsRoom(i) /\ m_RoomInfo[i].m_banAccount \in SUBSET Nick /\ n \in Nick
    BY <1>11, RoomFields DEF Ban, Unban, IsMaster, IsOpen, Addressed, Nick
  <2>2. \E bans \in SUBSET Nick :
            m_RoomInfo' = [m_RoomInfo EXCEPT ![i].m_banAccount = bans]
    BY <1>11, <2>1 DEF Ban, Unban, TypeOK
  <2> QED
    BY <1>11, <2>1, <2>2, BanningShowsNothing DEF Unsent
<1>12. ASSUME NEW s \in Socks, NEW i \in Index, NEW n, Kick(s, i, n), NotSent
       PROVE  AllGone
  BY <1>12, GoneUnsent DEF Kick, NotSent
<1>13. ASSUME NEW s \in Socks, RoomRequest(s), NotSent PROVE Unsent \/ AllGone
  BY <1>8, <1>10, <1>11, <1>12, <1>13 DEF RoomRequest
<1>14. ASSUME NEW s \in Socks, ListedLobbyRequest(s)
       PROVE  Unsent \/ SentToAll \/ AllGone
  BY <1>3, <1>4, <1>5, <1>6, <1>14 DEF ListedLobbyRequest
<1>15. ASSUME Restart, NotSent PROVE Unsent
  BY <1>15, SameTableSameOpen DEF Restart, tables, Unsent
<1> QED
  BY <1>1, <1>2, <1>9, <1>13, <1>14, <1>15, LoginIsShown DEF ListNext, ListedStep

(* Every step of ListNext is one of ChatRooms, so what is proved of the    *)
(* tables holds here.                                                      *)
LEMMA ListStepIsStep == [ListNext]_listVars => [Next]_vars
<1>1. ASSUME NEW s \in Socks, ListedLobbyRequest(s)
      PROVE  LobbyRequest(s) \/ UNCHANGED vars
  BY <1>1 DEF ListedLobbyRequest, LobbyRequest, RequestRoomList
<1>2. ASSUME NEW s \in Socks, ListedStep(s)
      PROVE  ServerStep(s) \/ UNCHANGED vars
  BY <1>1, <1>2 DEF ListedStep, ServerStep, ListedLogin, LoginData
<1> QED
  BY <1>2 DEF ListNext, Next, listVars

LEMMA ListSpecIsSpec == ListSpec => Spec
BY ListStepIsStep, PTL DEF ListSpec, ListInit, Spec

-----------------------------------------------------------------------------
(* The lists are current.                                                  *)

(* An address that is not connected has not been sent anything, so that a  *)
(* newcomer there does not start with the list of whoever had it before.   *)
SeenSound ==
    /\ \A s \in Socks : s \notin m_UserList => seen[s] = NotSeen
    /\ ListsCurrent

(* What everyone who is sent a table with no NULL entry has then seen.     *)
LEMMA SentIsCurrent ==
    ASSUME SentToAll, NEW s \in m_UserList', s \in Socks
    PROVE  (\E i \in Index : IsOpen(i)') =>
                seen'[s].rooms = {i \in Index : IsOpen(i)'}
<1> DEFINE open == {i \in Index : IsOpen(i)'}
<1>1. Shown(m_RoomInfo') = open
  BY DEF Shown, Entries, SentToAll, ListFaults, IsOpen, IsRoom
<1>2. CASE Entries(m_RoomInfo') = {}
  BY <1>1, <1>2 DEF Shown
<1>3. CASE Entries(m_RoomInfo') # {}
  <2>1. seen'[s] = ListOf(m_RoomInfo')
    BY <1>3 DEF SentToAll, SendRoomListTo
  <2> QED
    BY <1>1, <2>1 DEF ListOf
<1> QED
  BY <1>2, <1>3

LEMMA StepKeepsSeenSound ==
    TypeOK /\ SeenSound /\ [ListNext]_listVars => SeenSound'
<1> SUFFICES ASSUME TypeOK, SeenSound, [ListNext]_listVars
             PROVE  SeenSound'
  OBVIOUS
<1>1. CASE Unsent
  <2>1. ASSUME NEW s \in Socks
        PROVE  seen'[s] = IF s \notin m_UserList' THEN NotSeen ELSE seen[s]
    BY <1>1 DEF Unsent, NotSent, SendRoomListTo
  <2>2. ASSUME NEW s \in m_UserList', s \in Socks,
               seen'[s] # NotSeen, NEW i \in Index, IsOpen(i)'
        PROVE  seen'[s].rooms = {j \in Index : IsOpen(j)'}
    <3>1. seen'[s] = seen[s] /\ s \in m_UserList /\ seen[s] # NotSeen
      BY <2>1, <2>2 DEF SeenSound
    <3>2. {j \in Index : IsOpen(j)'} = {j \in Index : IsOpen(j)} /\ IsOpen(i)
      BY <1>1, <2>2 DEF Unsent, SameOpen
    <3> QED
      BY <3>1, <3>2 DEF SeenSound, ListsCurrent
  <2> QED
    BY <2>1, <2>2, NextKeepsType, ListStepIsStep DEF SeenSound, ListsCurrent, TypeOK
<1>2. CASE SentToAll
  <2>1. ASSUME NEW s \in Socks, s \notin m_UserList' PROVE seen'[s] = NotSeen
    BY <1>2, <2>1 DEF SentToAll, SendRoomListTo
  <2>2. m_UserList' \subseteq Socks
    BY <1>2 DEF SentToAll, TypeOK
  <2> QED
    BY <1>2, <2>1, <2>2, SentIsCurrent DEF SeenSound, ListsCurrent
<1>3. CASE AllGone
  BY <1>3 DEF AllGone, SeenSound, ListsCurrent
<1>4. CASE UNCHANGED listVars
  BY <1>4 DEF listVars, vars, SeenSound, ListsCurrent, IsOpen, IsRoom
<1> QED
  BY <1>1, <1>2, <1>3, <1>4, StepIsShown

(* ListsCurrent: as long as any room is open, whoever has been sent a list *)
(* sees exactly the open rooms.  No rule of the clients is assumed.        *)
THEOREM ListsFollowTheRooms == ListSpec => []ListsCurrent
<1>1. ListInit => SeenSound
  BY DEF ListInit, Init, SeenSound, ListsCurrent
<1>2. SeenSound => ListsCurrent
  BY DEF SeenSound
<1> QED
  BY <1>1, <1>2, StepKeepsSeenSound, ListSpecIsSpec, TypeCorrect, PTL
  DEF ListSpec

-----------------------------------------------------------------------------
(* Lists are whole.                                                        *)

(* A table with entries that are all open rooms is listed whole.           *)
LEMMA OpenTableIsWhole ==
    ASSUME NEW rooms, Entries(rooms) # {}, Shown(rooms) = Entries(rooms)
    PROVE  Whole(ListOf(rooms))
<1>1. PICK i \in Entries(rooms) : \A j \in Entries(rooms) : j <= i
  <2>1. IndexSpace - 1 \in Nat /\ Entries(rooms) \in SUBSET (0 .. IndexSpace - 1)
    BY IndexAssumption DEF Entries, Index
  <2> QED
    BY <2>1, GreatestNatural
<1> QED
  BY <1>1 DEF Whole, ListOf, EndsAfter

(* ListsWholeWithoutWhispers: with no whisper room in the table, a list    *)
(* that is sent counts the rooms it names and has its end, whichever       *)
(* indexes between them have been given up.                                *)
THEOREM ListsAreWhole == ListSpec => ListsWholeWithoutWhispers
<1> DEFINE A == \A s \in Socks :
                   seen'[s] \notin {seen[s], NotSeen} /\ (\A i \in Index : ~IsWhisper(i)') =>
                       Whole(seen'[s])
<1>1. TypeOK /\ [ListNext]_listVars => [A]_listVars
  <2> SUFFICES ASSUME TypeOK, ListNext, NEW s \in Socks,
                      seen'[s] \notin {seen[s], NotSeen},
                      \A i \in Index : ~IsWhisper(i)'
               PROVE  Whole(seen'[s])
    OBVIOUS
  <2>1. SentToAll
    BY StepIsShown DEF Unsent, NotSent, SendRoomListTo, AllGone
  <2>2. Entries(m_RoomInfo') # {} /\ seen'[s] = ListOf(m_RoomInfo')
    BY <2>1 DEF SentToAll, SendRoomListTo
  <2>3. Shown(m_RoomInfo') = Entries(m_RoomInfo')
    BY <2>1 DEF SentToAll, ListFaults, Shown, Entries, IsWhisper, IsRoom
  <2> QED
    BY <2>2, <2>3, OpenTableIsWhole
<1>2. ListsWholeWithoutWhispers <=> [][A]_listVars
  BY DEF ListsWholeWithoutWhispers
<1> HIDE DEF A
<1> QED
  BY <1>1, <1>2, ListSpecIsSpec, TypeCorrect, PTL DEF ListSpec
=============================================================================
