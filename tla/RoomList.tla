------------------------------ MODULE RoomList ------------------------------
(***************************************************************************)
(* The list of open rooms as clients see it: SendRoomList, which is called *)
(* when a client creates a room, when a room has gone with its last member *)
(* and when a client asks -- and each time sends everyone the whole table, *)
(* unless the table is empty.  Whisper rooms are skipped.                  *)
(*                                                                         *)
(* The module adds to ChatRooms what each connected client has last been   *)
(* sent.  Titles and masters' nicks are left out.                          *)
(***************************************************************************)
EXTENDS ChatRooms, FiniteSets

CONSTANT NotSeen            \* a client that has not yet been sent a list

ASSUME NotSeenAssumption ==
    NotSeen \notin [count : Nat, rooms : SUBSET Index, ended : BOOLEAN]

VARIABLE seen               \* the list last sent to the client at a socket

listVars == <<vars, seen>>

Entries(rooms) == {i \in Index : rooms[i] # NoEntry}

Shown_All(rooms) == Entries(rooms)

(* Whisper rooms are not to be listed.                                     *)
Shown(rooms) == {i \in Entries(rooms) : rooms[i].m_Status # ROOM_WHISPER}

EndsAfter_Next(i, rooms) == i = Cardinality(Entries(rooms))

(* The end is written behind the last entry of the map, (cnt + 1) == size. *)
EndsAfter(i, rooms) == \A j \in Entries(rooms) : j <= i

ListOf(rooms) ==
    [ count |-> Cardinality(Entries(rooms)),
      rooms |-> Shown(rooms),
      ended |-> \E i \in Shown(rooms) : EndsAfter(i, rooms) ]

(* Everyone on m_UserList is sent the table, if there is anything in it.   *)
SendRoomListTo(users, rooms) ==
    seen' = [s \in Socks |->
                IF s \notin m_UserList' THEN NotSeen
                ELSE IF s \in users /\ Entries(rooms) # {} THEN ListOf(rooms)
                ELSE seen[s]]

NotSent == SendRoomListTo({}, m_RoomInfo)

ListAfterLeaving_Forgotten(s, D) == NotSent

(* CloseRoom and CloseClient: sent when some room had to go.               *)
ListAfterLeaving(s, D) ==
    IF Emptied(s, D) # {} THEN SendRoomListTo(m_UserList, m_RoomInfo') ELSE NotSent

(* LobbyData "room list".                                                  *)
RequestRoomList ==
    \/ SendRoomList /\ NotSent
    \/ /\ ~ListFaults(m_RoomInfo)
       /\ UNCHANGED vars
       /\ SendRoomListTo(m_UserList, m_RoomInfo)

ListedLobbyRequest(s) ==
    \/ \E st \in {ROOM_PUBLIC, ROOM_WHISPER} :
          /\ MayCreate(st)
          /\ CreateOpenRoom(s, st)
          /\ SendRoomListTo(m_UserList, m_RoomInfo')
    \/ \E i \in Index : MayEnter(s, i) /\ EnterRoom(s, i) /\ NotSent
    \/ \E i \in Index :
          CloseRoom(s, i) /\ ListAfterLeaving(s, {i})
    \/ RequestRoomList

(* LoginData, with the list that closing the other client may bring about. *)
ListedLogin(s, n) ==
    /\ s \in m_UserList
    /\ \/ SignIn(s, n) /\ NotSent
       \/ \E t \in SignedInAs(n) :
             TakeOver(s, n, t) /\ ListAfterLeaving(t, RoomsSwept(t))
       \/ Hang(n) /\ NotSent

ListedStep(s) ==
    \/ AcceptClient(s) /\ NotSent
    \/ OnClose(s) /\ ListAfterLeaving(s, RoomsSwept(s))
    \/ \E n \in Names : MayLogin(s, n) /\ ListedLogin(s, n)
    \/ MayAsk(s) /\ ListedLobbyRequest(s)
    \/ MayAsk(s) /\ RoomRequest(s) /\ NotSent
    \/ MayAsk(s) /\ (\E n \in Addressed : FriendTalk(s, n)) /\ NotSent

ListInit == Init /\ seen = [s \in Socks |-> NotSeen]

ListNext ==
    \/ status = "running" /\ \E s \in Socks : ListedStep(s)
    \/ Restart /\ NotSent

ListSpec == ListInit /\ [][ListNext]_listVars

-----------------------------------------------------------------------------
(* What clients see.                                                       *)

(* As long as any room is open, every client that has ever been sent a     *)
(* list sees exactly the rooms that are open: none is created, emptied or  *)
(* swept away with a lost client without everybody's list following.       *)
(* (When the table empties nothing is sent, and the last list stays until  *)
(* a room is opened again.)                                                *)
ListsCurrent ==
    \A s \in m_UserList :
        seen[s] # NotSeen /\ (\E i \in Index : IsOpen(i)) =>
            seen[s].rooms = {i \in Index : IsOpen(i)}

Whole(list) == list.count = Cardinality(list.rooms) /\ list.ended

(* With no whisper room in the table, every list that is sent counts the   *)
(* rooms that it names and has an end.                                     *)
ListsWholeWithoutWhispers ==
    [][\A s \in Socks :
         seen'[s] \notin {seen[s], NotSeen} /\ (\A i \in Index : ~IsWhisper(i)') =>
             Whole(seen'[s])]_listVars
=============================================================================
