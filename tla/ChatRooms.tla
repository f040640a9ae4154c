----------------------------- MODULE ChatRooms -----------------------------
(***************************************************************************)
(* The tables of the chat server (CChatSerApp, ChatSer.cpp): who is        *)
(* connected, under which nick, which rooms exist and who is inside.       *)
(*                                                                         *)
(* The server is one Windows message loop, and every socket callback       *)
(* (OnAccept, OnReceive, OnClose) runs to its end before the next, so one  *)
(* handler is one action.  What makes it hard is what one handler leaves   *)
(* behind for a later one: pointers to sockets that have been deleted,     *)
(* map entries that a mere lookup has inserted, a room index that wraps.   *)
(*                                                                         *)
(* Using a deleted socket is undefined behaviour: the process may die or   *)
(* the handler may go on.  Dereferencing NULL and vector::at beyond the    *)
(* end always kill the process.  Handlers that only read the tables and    *)
(* reply to a live socket (/h, /l, /ll, /bl, a refused login or entry)     *)
(* change nothing here and are not listed.                                 *)
(*                                                                         *)
(* A definition named X_Y is a slip Y that X could have contained; nothing *)
(* uses it, and README.md says which property it would break.              *)
(***************************************************************************)
EXTENDS Integers, Sequences, SequencesExt

CONSTANTS
    Socks,          \* addresses of CClientSock objects; a freed one is reused
    Letters,        \* what nicks are spelt with
    Names,          \* the registered nicks; RegisterQuery takes the empty one too
    IndexSpace,     \* the number of values of m_RoomIndex, 2^32 in the build
    MaxEntries,     \* bound of the model: entries in one m_Account
    ClientRules,    \* which of AllRules the client programs keep
    NULL,           \* the null pointer
    NoEntry         \* a key that the map m_RoomInfo does not hold

NoName == <<>>
Nick == Names \cup {NoName}
Index == 0 .. IndexSpace - 1
WhispKey == {a \o b : a \in Nick, b \in Nick}

ROOM_PUBLIC == 0
ROOM_WHISPER == 2

(* What a client program may be written to respect.  The server enforces   *)
(* none of it: a rule restricts the requests that Next offers, never what  *)
(* a handler does with them.                                               *)
(*   enter_once:  a client does not enter a room it is in                  *)
(*   open_rooms:  a client creates and enters open rooms only              *)
(*   logged_in:   a client logs in once, before its other requests, under  *)
(*                a nick that is not empty, and addresses others by theirs *)
(* No rule keeps a client from naming a room that is gone by the time its  *)
(* request is heard: it cannot know.                                       *)
AllRules == {"enter_once", "open_rooms", "logged_in"}

RoomInfo ==
    [ m_Status        : {ROOM_PUBLIC, ROOM_WHISPER},  \* private is as public
      m_Account       : Seq(Socks),
      m_MasterAccount : Socks \cup {NULL},
      m_WhisperAccount: Seq(Nick),
      m_banAccount    : SUBSET Nick ]

ASSUME NamesAssumption == Names \subseteq Seq(Letters)
ASSUME IndexAssumption == IndexSpace \in Nat \ {0}
ASSUME EntriesAssumption == MaxEntries \in Nat \ {0, 1}
ASSUME RulesAssumption == ClientRules \subseteq AllRules
ASSUME NullAssumption ==
    /\ NULL \notin Socks
    /\ NULL # NoEntry
    /\ NULL \notin RoomInfo
    /\ NoEntry \notin RoomInfo
    /\ NULL \notin Index

VARIABLES
    status,             \* the process: "running", "hung" or "crashed"
    m_UserList,         \* the sockets accepted and not deleted
    m_UserName,         \* nick of a socket address, NoName when not in the map
    m_RoomInfo,         \* the room, a NULL entry or NoEntry, by index
    m_WhispRoomInfo,    \* index of the pair's room by key, NULL when not held
    m_RoomIndex         \* index of the next room

vars == <<status, m_UserList, m_UserName, m_RoomInfo, m_WhispRoomInfo,
          m_RoomIndex>>

tables == <<m_UserList, m_UserName, m_RoomInfo, m_WhispRoomInfo, m_RoomIndex>>

-----------------------------------------------------------------------------
(* Reading the tables.                                                     *)

IsRoom(i) == m_RoomInfo[i] \notin {NULL, NoEntry}

Members(i) == IF IsRoom(i) THEN Range(m_RoomInfo[i].m_Account) ELSE {}

IsOpen(i) == IsRoom(i) /\ m_RoomInfo[i].m_Status # ROOM_WHISPER

(* operator[] on m_RoomInfo adds a NULL entry for an index it lacks.       *)
Looked(i) ==
    [m_RoomInfo EXCEPT ![i] = IF @ = NoEntry THEN NULL ELSE @]

(* SendRoomList reads m_Status through every entry of the table.           *)
ListFaults(rooms) == \E i \in Index : rooms[i] = NULL

Dangling(used) == ~(used \subseteq m_UserList)

Named(n) == {t \in Socks : m_UserName[t] = n}

(* The process is gone and with it everything it held in memory.           *)
ProcessGone(how) ==
    /\ status' = how
    /\ m_UserList' = {}
    /\ m_UserName' = [t \in Socks |-> NoName]
    /\ m_RoomInfo' = [i \in Index |-> NoEntry]
    /\ m_WhispRoomInfo' = [k \in WhispKey |-> NULL]
    /\ m_RoomIndex' = 1 % IndexSpace

-----------------------------------------------------------------------------
(* Leaving rooms: the loop that CloseRoom runs over one index and          *)
(* CloseClient over all of them.                                           *)

Left_NoHandOver(r, s) ==
    [r EXCEPT !.m_Account = RemoveFirst(@, s)]

Left_AlwaysHandsOver(r, s) ==
    LET rest == RemoveFirst(r.m_Account, s)
    IN  [r EXCEPT !.m_Account = rest,
                  !.m_MasterAccount = IF rest # <<>> THEN Last(rest) ELSE @]

(* Room r after socket s: one entry of s is erased, and a departing master *)
(* is followed by the member that has been inside the longest.             *)
Left(r, s) ==
    LET rest == RemoveFirst(r.m_Account, s)
    IN  [r EXCEPT !.m_Account = rest,
                  !.m_MasterAccount =
                      IF @ = s /\ rest # <<>> THEN Head(rest) ELSE @]

Emptied_Never(s, D) == {}

(* dellist: the rooms of D that nobody is inside any more.                 *)
Emptied(s, D) ==
    {i \in D : IsRoom(i) /\ Left(m_RoomInfo[i], s).m_Account = <<>>}

RoomsWithout_NullsEntry(s, D) ==
    [i \in Index |->
        IF i \in Emptied(s, D) THEN NULL
        ELSE IF i \in D /\ IsRoom(i) THEN Left(m_RoomInfo[i], s)
        ELSE m_RoomInfo[i]]

RoomsWithout(s, D) ==
    [i \in Index |->
        IF i \in Emptied(s, D) THEN NoEntry
        ELSE IF i \in D /\ IsRoom(i) THEN Left(m_RoomInfo[i], s)
        ELSE m_RoomInfo[i]]

IsWhisper(i) == IsRoom(i) /\ m_RoomInfo[i].m_Status = ROOM_WHISPER

(* m_WhisperAccount.at(0) + m_WhisperAccount.at(1)                         *)
KeyOf(r) == r.m_WhisperAccount[1] \o r.m_WhisperAccount[2]

WhispersWithout_KeepsKey(s, D) == m_WhispRoomInfo

WhispersWithout(s, D) ==
    LET gone == {KeyOf(m_RoomInfo[i]) : i \in {j \in Emptied(s, D) : IsWhisper(j)}}
    IN  [k \in WhispKey |-> IF k \in gone THEN NULL ELSE m_WhispRoomInfo[k]]

(* at(0), at(1) of a whisper room that names no pair throw out_of_range,   *)
(* and a room list sent over a NULL entry faults.                          *)
LeavingFaults(s, D) ==
    \/ \E i \in Emptied(s, D) :
          IsWhisper(i) /\ Len(m_RoomInfo[i].m_WhisperAccount) < 2
    \/ Emptied(s, D) # {} /\ ListFaults(RoomsWithout(s, D))

(* Those who are told that s has left.                                     *)
ToldOfLeaving(s, D) ==
    UNION {Range(Left(m_RoomInfo[i], s).m_Account) :
              i \in {j \in D : s \in Members(j)}}

(* The loop as it affects the tables ...                                   *)
LeaveRooms(s, D) ==
    /\ ~LeavingFaults(s, D)
    /\ m_RoomInfo' = RoomsWithout(s, D)
    /\ m_WhispRoomInfo' = WhispersWithout(s, D)

(* ... and as it may end the process.                                      *)
LeavingMayKill(s, D) ==
    LeavingFaults(s, D) \/ Dangling(ToldOfLeaving(s, D))

-----------------------------------------------------------------------------
(* CServerSock::OnAccept -> AcceptClient.  `new CClientSock` returns an    *)
(* address that is not in use; it may have been in use before.             *)
AcceptClient(s) ==
    /\ s \notin m_UserList
    /\ m_UserList' = m_UserList \cup {s}
    /\ UNCHANGED <<status, m_UserName, m_RoomInfo, m_WhispRoomInfo, m_RoomIndex>>

NamesWithout_Kept(t) == m_UserName

NamesWithout(t) == [m_UserName EXCEPT ![t] = NoName]

RoomsSwept_OwnRoomsOnly(s) ==
    {i \in Index : IsRoom(i) /\ m_RoomInfo[i].m_MasterAccount \in {s, NULL}}

(* The rooms a disconnecting client is looked for in: all of them.         *)
RoomsSwept(s) == Index

(* CClientSock::OnClose -> CloseClient: the peer has closed or been lost.  *)
OnClose(s) ==
    /\ s \in m_UserList
    /\ \/ /\ LeaveRooms(s, RoomsSwept(s))
          /\ m_UserName' = NamesWithout(s)
          /\ m_UserList' = m_UserList \ {s}
          /\ UNCHANGED <<status, m_RoomIndex>>
       \/ /\ LeavingMayKill(s, RoomsSwept(s))
          /\ ProcessGone("crashed")

SignedInAs_Nobody(n) == {}

(* The sockets the takeover loop of LoginData would find under nick n.     *)
SignedInAs(n) == Named(n)

(* The empty nick stands in the map for whoever a mere lookup has entered, *)
(* so that a login under it may find any socket without a nick, or none.   *)
MayFindNobody(n) == SignedInAs(n) = {} \/ n = NoName

SignIn(s, n) ==
    /\ MayFindNobody(n)
    /\ m_UserName' = [m_UserName EXCEPT ![s] = n]
    /\ UNCHANGED <<status, m_UserList, m_RoomInfo, m_WhispRoomInfo, m_RoomIndex>>

(* Whoever is found under the nick is disconnected first (CloseClient) --  *)
(* which deletes the very socket of a client that repeats its own login;   *)
(* the handler then goes on, sending its reply to a deleted socket.        *)
TakeOver(s, n, t) ==
    \/ /\ LeaveRooms(t, RoomsSwept(t))
       /\ m_UserName' = [NamesWithout(t) EXCEPT ![s] = n]
       /\ m_UserList' = m_UserList \ {t}
       /\ UNCHANGED <<status, m_RoomIndex>>
    \/ /\ LeavingMayKill(t, RoomsSwept(t)) \/ t = s
       /\ ProcessGone("crashed")

(* Key generation may loop forever (rsa.cpp), and the message loop with it. *)
Hang(n) ==
    /\ \/ MayFindNobody(n)
       \/ \E t \in SignedInAs(n) : ~LeavingFaults(t, RoomsSwept(t))
    /\ ProcessGone("hung")

(* LoginData with a correct password.                                      *)
LoginData(s, n) ==
    /\ s \in m_UserList
    /\ \/ SignIn(s, n)
       \/ \E t \in SignedInAs(n) : TakeOver(s, n, t)
       \/ Hang(n)

-----------------------------------------------------------------------------
(* The lobby.                                                              *)

NextIndex_NoWrap == m_RoomIndex + 1

NextIndex == (m_RoomIndex + 1) % IndexSpace

SlotFree_Unchecked == TRUE

(* CreateRoom refuses an index that is taken, and nothing then moves the   *)
(* index on: after a wrap, creation waits for that room to empty.          *)
SlotFree == ~IsRoom(m_RoomIndex)

NewRoom(st, s) ==
    [ m_Status |-> st, m_Account |-> <<s>>, m_MasterAccount |-> s,
      m_WhisperAccount |-> <<>>, m_banAccount |-> {} ]

(* LobbyData "create": the room, the next index, and the list to everyone. *)
CreateOpenRoom(s, st) ==
    LET rooms == [m_RoomInfo EXCEPT ![m_RoomIndex] = NewRoom(st, s)]
    IN  /\ SlotFree
        /\ \/ /\ ~ListFaults(rooms)
              /\ m_RoomInfo' = rooms
              /\ m_RoomIndex' = NextIndex
              /\ UNCHANGED <<status, m_UserList, m_UserName, m_WhispRoomInfo>>
           \/ /\ ListFaults(rooms)
              /\ ProcessGone("crashed")

Admits_Anyone(s, i) == TRUE

(* The only condition on entering is the ban list.                         *)
Admits(s, i) == m_UserName[s] \notin m_RoomInfo[i].m_banAccount

(* LobbyData "enter": the ban list is consulted, m_Account is not.         *)
EnterRoom(s, i) ==
    \/ /\ IsRoom(i) /\ Admits(s, i)
       /\ Len(m_RoomInfo[i].m_Account) < MaxEntries
       /\ m_RoomInfo' = [m_RoomInfo EXCEPT ![i].m_Account = Append(@, s)]
       /\ UNCHANGED <<status, m_UserList, m_UserName, m_WhispRoomInfo, m_RoomIndex>>
    \/ /\ ~IsRoom(i)
       /\ m_RoomInfo' = Looked(i)
       /\ UNCHANGED <<status, m_UserList, m_UserName, m_WhispRoomInfo, m_RoomIndex>>

(* LobbyData "leave" -> CloseRoom.                                         *)
CloseRoom(s, i) ==
    \/ /\ ~IsRoom(i)
       /\ m_RoomInfo' = Looked(i)
       /\ UNCHANGED <<status, m_UserList, m_UserName, m_WhispRoomInfo, m_RoomIndex>>
    \/ /\ IsRoom(i)
       /\ LeaveRooms(s, {i})
       /\ UNCHANGED <<status, m_UserList, m_UserName, m_RoomIndex>>
    \/ /\ IsRoom(i)
       /\ LeavingMayKill(s, {i})
       /\ ProcessGone("crashed")

(* LobbyData "room list": served from the table, to everyone.              *)
SendRoomList ==
    /\ ListFaults(m_RoomInfo)
    /\ ProcessGone("crashed")

-----------------------------------------------------------------------------
(* Whisper rooms: "/w nick" in an open room, and FriendData "talk".        *)

Missing_Other(s, t, inside) == t

(* Whom a whisper request brings back into the pair's room: the target if  *)
(* the one inside has the caller's nick, else the caller.                  *)
Missing(s, t, inside) ==
    IF m_UserName[Head(inside)] = m_UserName[s] THEN t ELSE s

WhisperKey(s, t) == m_UserName[s] \o m_UserName[t]

(* The room of a pair: CreateRoom, then both inside, both named, no master. *)
WhisperRoom(s, t) ==
    [NewRoom(ROOM_WHISPER, s) EXCEPT
        !.m_Account = <<s, t>>,
        !.m_WhisperAccount = <<m_UserName[s], m_UserName[t]>>,
        !.m_MasterAccount = NULL]

(* No room is held under the key: one is created for the two.              *)
OpenWhisper(s, t) ==
    /\ m_WhispRoomInfo[WhisperKey(s, t)] = NULL
    /\ SlotFree
    /\ \/ /\ m_RoomInfo' =
                [m_RoomInfo EXCEPT ![m_RoomIndex] = WhisperRoom(s, t)]
          /\ m_WhispRoomInfo' =
                [m_WhispRoomInfo EXCEPT ![WhisperKey(s, t)] = m_RoomIndex]
          /\ m_RoomIndex' = NextIndex
          /\ UNCHANGED <<status, m_UserList, m_UserName>>
       \/ /\ Dangling({t})
          /\ ProcessGone("crashed")

(* A room is held under the key: the one who is not inside is brought in.  *)
(* With both inside nothing happens; with nobody inside ("a bug?" says the *)
(* code) the key is dropped.                                               *)
RejoinWhisper(s, t) ==
    LET key == WhisperKey(s, t)
        i == m_WhispRoomInfo[key]
        inside == IF IsRoom(i) THEN m_RoomInfo[i].m_Account ELSE <<>>
        alone == Len(inside) = 1
    IN  /\ i # NULL
        /\ \/ /\ m_RoomInfo' =
                    IF alone
                    THEN [m_RoomInfo EXCEPT ![i].m_Account =
                            Append(@, Missing(s, t, inside))]
                    ELSE m_RoomInfo
              /\ m_WhispRoomInfo' =
                    [m_WhispRoomInfo EXCEPT ![key] =
                        IF inside = <<>> THEN NULL ELSE @]
              /\ UNCHANGED <<status, m_UserList, m_UserName, m_RoomIndex>>
           \/ /\ alone
              /\ Dangling({Missing(s, t, inside)})
              /\ ProcessGone("crashed")

StartWhisper(s, t) ==
    /\ m_UserName[s] # m_UserName[t]
    /\ OpenWhisper(s, t) \/ RejoinWhisper(s, t)

(* RoomData "/w n" in room i: the first entry of the room with that nick.  *)
Whisper(s, i, n) ==
    LET found == SelectInSeq(m_RoomInfo[i].m_Account,
                             LAMBDA t : m_UserName[t] = n)
    IN  /\ IsOpen(i)
        /\ \E t \in Members(i) : m_UserName[t] = n
        /\ StartWhisper(s, m_RoomInfo[i].m_Account[found])

(* FriendData "talk" to n: a connected client with that nick.              *)
FriendTalk(s, n) ==
    \E t \in m_UserList : m_UserName[t] = n /\ StartWhisper(s, t)

-----------------------------------------------------------------------------
(* Room messages.                                                          *)

(* RoomData with a line of talk, or with anything for an absent room: the  *)
(* lookup adds the entry; a message goes to every other entry of the room. *)
Say(s, i) ==
    \/ /\ ~IsRoom(i)
       /\ m_RoomInfo' = Looked(i)
       /\ UNCHANGED <<status, m_UserList, m_UserName, m_WhispRoomInfo, m_RoomIndex>>
    \/ /\ Dangling(Members(i) \ {s})
       /\ ProcessGone("crashed")

IsMaster(s, i) == IsOpen(i) /\ m_RoomInfo[i].m_MasterAccount = s

(* "/k n": the target is told to leave; the tables stay as they are.       *)
Kick(s, i, n) ==
    /\ IsMaster(s, i)
    /\ \E t \in Members(i) : m_UserName[t] = n /\ Dangling({t})
    /\ ProcessGone("crashed")

(* "/b n": a nick that is inside goes on the ban list.                     *)
Ban(s, i, n) ==
    /\ IsMaster(s, i)
    /\ \E t \in Members(i) : m_UserName[t] = n
    /\ m_RoomInfo' = [m_RoomInfo EXCEPT ![i].m_banAccount = @ \cup {n}]
    /\ UNCHANGED <<status, m_UserList, m_UserName, m_WhispRoomInfo, m_RoomIndex>>

(* "/c n": a nick is taken off the ban list.                               *)
Unban(s, i, n) ==
    /\ IsMaster(s, i)
    /\ n \in m_RoomInfo[i].m_banAccount
    /\ m_RoomInfo' = [m_RoomInfo EXCEPT ![i].m_banAccount = @ \ {n}]
    /\ UNCHANGED <<status, m_UserList, m_UserName, m_WhispRoomInfo, m_RoomIndex>>

-----------------------------------------------------------------------------
(* The system: what clients ask for, within the rules they keep.           *)

Keeps(rule) == rule \in ClientRules

MayLogin(s, n) ==
    Keeps("logged_in") => m_UserName[s] = NoName /\ n # NoName
MayAsk(s) == s \in m_UserList /\ (Keeps("logged_in") => m_UserName[s] # NoName)
Addressed == IF Keeps("logged_in") THEN Names \ {NoName} ELSE Nick
MayCreate(st) == Keeps("open_rooms") => st = ROOM_PUBLIC
MayEnter(s, i) ==
    /\ Keeps("enter_once") => s \notin Members(i)
    /\ Keeps("open_rooms") => ~IsWhisper(i)

LobbyRequest(s) ==
    \/ \E st \in {ROOM_PUBLIC, ROOM_WHISPER} : MayCreate(st) /\ CreateOpenRoom(s, st)
    \/ \E i \in Index : MayEnter(s, i) /\ EnterRoom(s, i)
    \/ \E i \in Index : CloseRoom(s, i)
    \/ SendRoomList

RoomRequest(s) ==
    \/ \E i \in Index : Say(s, i)
    \/ \E i \in Index, n \in Addressed :
          Whisper(s, i, n) \/ Kick(s, i, n) \/ Ban(s, i, n) \/ Unban(s, i, n)

(* The process is started again after its end.                             *)
Restart ==
    /\ status # "running"
    /\ status' = "running"
    /\ UNCHANGED tables

Init ==
    /\ status = "running"
    /\ m_UserList = {}
    /\ m_UserName = [t \in Socks |-> NoName]
    /\ m_RoomInfo = [i \in Index |-> NoEntry]
    /\ m_WhispRoomInfo = [k \in WhispKey |-> NULL]
    /\ m_RoomIndex = 1 % IndexSpace

ServerStep(s) ==
    \/ AcceptClient(s)
    \/ OnClose(s)
    \/ \E n \in Names : MayLogin(s, n) /\ LoginData(s, n)
    \/ MayAsk(s) /\ LobbyRequest(s)
    \/ MayAsk(s) /\ RoomRequest(s)
    \/ MayAsk(s) /\ \E n \in Addressed : FriendTalk(s, n)

Next ==
    \/ status = "running" /\ \E s \in Socks : ServerStep(s)
    \/ Restart

Spec == Init /\ [][Next]_vars

-----------------------------------------------------------------------------
(* What the tables promise.                                                *)

(* Every table holds values of the type its declaration in ChatSer.h gives *)
(* it; the room index stays within its width.                              *)
TypeOK ==
    /\ status \in {"running", "hung", "crashed"}
    /\ m_UserList \subseteq Socks
    /\ m_UserName \in [Socks -> Nick]
    /\ m_RoomInfo \in [Index -> RoomInfo \cup {NULL, NoEntry}]
    /\ m_WhispRoomInfo \in [WhispKey -> Index \cup {NULL}]
    /\ m_RoomIndex \in Index

(* No room outlives its last member: whatever way the last one leaves, by  *)
(* request, by disconnecting or by a second login, the room goes with it.  *)
RoomsInhabited == \A i \in Index : IsRoom(i) => m_RoomInfo[i].m_Account # <<>>

(* A room that clients made always has a master, and the master is inside; *)
(* a room the server made for a pair never has one, so that nobody can     *)
(* ban or command there.                                                   *)
MasterPresent ==
    \A i \in Index : IsRoom(i) =>
        IF m_RoomInfo[i].m_WhisperAccount = <<>>
        THEN m_RoomInfo[i].m_MasterAccount \in Members(i)
        ELSE m_RoomInfo[i].m_MasterAccount = NULL

(* m_WhispRoomInfo and the whisper rooms of m_RoomInfo describe each       *)
(* other: no key leads to a deleted or foreign room (the "0 inside" case   *)
(* that StartWhisper's code calls a bug), and no pair's room is lost.      *)
WhisperIndexExact ==
    /\ \A k \in WhispKey : m_WhispRoomInfo[k] # NULL =>
          /\ IsWhisper(m_WhispRoomInfo[k])
          /\ Len(m_RoomInfo[m_WhispRoomInfo[k]].m_WhisperAccount) = 2
          /\ KeyOf(m_RoomInfo[m_WhispRoomInfo[k]]) = k
    /\ \A i \in Index :
          IsRoom(i) /\ m_RoomInfo[i].m_WhisperAccount # <<>> =>
              /\ IsWhisper(i)
              /\ Len(m_RoomInfo[i].m_WhisperAccount) = 2
              /\ m_WhispRoomInfo[KeyOf(m_RoomInfo[i])] = i

(* A nick is signed in on at most one socket, whatever the order in which  *)
(* clients log in, take each other over, repeat their login and vanish.    *)
OneSocketPerName ==
    \A s, t \in Socks : m_UserName[s] = m_UserName[t] /\ s # t =>
        m_UserName[s] = NoName

(* Every entry of every room is a socket that is still connected: no       *)
(* message is ever sent through a deleted socket, and no newcomer at a     *)
(* reused address finds itself inside a room.  Needs enter_once.           *)
MembersConnected == \A i \in Index : Members(i) \subseteq m_UserList

(* Every nick that is signed in belongs to a connected socket.  Needs      *)
(* logged_in: repeating one's login breaks it.                             *)
NamesConnected == \A s \in Socks : m_UserName[s] # NoName => s \in m_UserList

(* Only a list made over the entry of an absent room ends the process: no  *)
(* request, however late, brings a deleted socket, a missing pair or a key *)
(* that leads nowhere into any handler's way.  A late request for a room   *)
(* that has gone leaves such an entry (EnterRoom, CloseRoom, Say), and no  *)
(* client can help that.  Needs all of AllRules.                           *)
OnlyAbsentRoomsKill ==
    [][status # "crashed" /\ status' = "crashed" => ListFaults(m_RoomInfo)]_vars

(* Only the two whose room it is are ever inside a whisper room.  Needs    *)
(* open_rooms, logged_in and nicks whose pairs spell different keys.       *)
WhisperPairOnly ==
    \A i \in Index : IsWhisper(i) =>
        /\ \A s \in Members(i) :
              m_UserName[s] \in Range(m_RoomInfo[i].m_WhisperAccount)
        /\ Len(m_RoomInfo[i].m_Account) <= 2

(* While a nick is on the ban list of a room, no socket that bears it      *)
(* gets in, not even by logging in again from elsewhere.                   *)
BannedStayOut ==
    [][\A i \in Index, s \in Socks :
         IsOpen(i) /\ IsOpen(i)' /\ s \notin Members(i) /\ s \in Members(i)' =>
             m_UserName[s] \notin m_RoomInfo[i].m_banAccount]_vars

(* A room changes masters only when its master has left it, and then to    *)
(* somebody who was inside before.  Needs enter_once.                      *)
MasterKeptWhileInside ==
    [][\A i \in Index :
         IsOpen(i) /\ IsOpen(i)' =>
           LET old == m_RoomInfo[i].m_MasterAccount
               new == m_RoomInfo'[i].m_MasterAccount
           IN  new # old => old \notin Members(i)' /\ new \in Members(i)]_vars

(* When m_RoomIndex has wrapped, a room still in use is never overwritten: *)
(* an index that leads to a room before and after a step leads to the same *)
(* room, with the same pair and at least one of its members.               *)
RoomsNotRecycled ==
    [][\A i \in Index : IsRoom(i) /\ IsRoom(i)' =>
         /\ m_RoomInfo'[i].m_Status = m_RoomInfo[i].m_Status
         /\ m_RoomInfo'[i].m_WhisperAccount = m_RoomInfo[i].m_WhisperAccount
         /\ Members(i) \cap Members(i)' # {}]_vars

(* Membership, seen in the tables.                                         *)
MasterOf(i) == IF IsRoom(i) THEN m_RoomInfo[i].m_MasterAccount ELSE NULL
Insiders == [i \in Index |-> Members(i)]
Masters == [i \in Index |-> MasterOf(i)]

Promised == INSTANCE Membership
    WITH Person <- Socks, Place <- Index, NOBODY <- NULL,
         present <- m_UserList, inside <- Insiders, host <- Masters

(* Whatever a handler does to lists, entries and indexes comes down to one *)
(* step of Membership, or to none: users arrive, open a room, join, leave  *)
(* a room or the server, or all is lost with the process.  Needs           *)
(* enter_once.                                                             *)
MembershipKept == Promised!Spec

-----------------------------------------------------------------------------
(* What comments say of the tables and the code does not keep.             *)

(* ChatSer.cpp:640, of a repeated whisper: "if a room exists, invite only  *)
(* the one who is not inside" -- one room per pair of nicks.               *)
OneRoomPerPair ==
    \A i, j \in Index :
        /\ IsWhisper(i) /\ IsWhisper(j)
        /\ Range(m_RoomInfo[i].m_WhisperAccount) =
             Range(m_RoomInfo[j].m_WhisperAccount)
        => i = j

=============================================================================
