# MessengerServ in TLA+

MessengerServ is a chat server: one MFC application (`ChatSer/ChatSer.cpp`) that
accepts TCP connections, signs users in against a MySQL database, and keeps rooms,
private ("whisper") rooms and friend lists for them. This directory holds a
specification of it, the TLC configurations that check small instances, and proofs
that TLAPS checks for every value of the constants.

    tlc -workers 2 -config ChatRoomsAllRules.cfg MCRoomList.tla
    tlapm ChatRoomsStepProofs.tla

The client program is not in the repository. What clients do is an assumption of the
models, and every property says which assumption it needs.

## 1. Inventory

One Windows message loop drives everything. `CAsyncSocket` turns socket events into
`OnAccept`, `OnReceive` and `OnClose`; each runs to its end before the next, so no two
handlers interleave. What interleaves is the clients: their requests arrive in any
order, and each handler finds whatever the handlers of others have left behind. That
is where this code is hard: raw pointers outlive the sockets they point to, map
lookups insert entries, two maps describe the same whisper room, the database
outlives the process, and nothing a client sends is checked against what it may do.

| Component | Code | State | Operations |
|---|---|---|---|
| Connections | `ServerSock.cpp`, `ClientSock.cpp`, `AcceptClient`, `CloseClient` | `m_UserList` | accept, receive, close |
| Sessions | `LoginData` | `m_UserName` | login, takeover of a nick, logout by closing |
| Rooms | `LobbyData`, `RoomData`, `CreateRoom`, `CloseRoom` | `m_RoomInfo`, `m_RoomIndex` | create, enter, leave, list, talk, kick, ban, unban |
| Whisper rooms | `RoomData` `/w`, `FriendData` `2` | `m_WhispRoomInfo`, `m_WhisperAccount` | start, bring back, remove |
| Accounts and friends | the `*Query` functions, `MySqlManger.cpp` | tables `account`, `friend` | register, flag, befriend, list, delete |
| RSA keys | `encrypt/rsa.cpp` | `n`, one `crypt` per session | generate, encipher, decipher |
| Session keys and framing | `SendData`, `ReceiveData`, `strsplit` | `m_CryptInfo`, the byte stream | choose the key, cut the stream into messages |
| Room list | `SendRoomList` | what clients last received | send to everyone |
| Server window | `ChatSerDlg.cpp`, `DeleteUserList` | two list boxes | show events and users |
| SHA-1, HMAC | `encrypt/sha1.cpp`, `hmac_sha1.cpp` | `SHA1Context` | reset, input, result; the server calls none of them |
| DES | `encrypt/des.cpp` | `dRoundKey`, global | make a key, encrypt, decrypt; the server calls none of them |
| MySQL headers | `include/` | third-party | |

How they interact: `LoginData` closes the previous session of the nick
(`CloseClient`, which sweeps all rooms and clears the login flag), then sets the flag,
enters the nick and makes a key. Rooms hold socket pointers and ban nicks. Whisper
rooms hold both, and are found under the two nicks put together. Friend requests look
up a nick in `m_UserName`, write two rows and tell both sockets. Every message goes
through `SendData`, which reads the key of the address it sends to.

What makes each part correct, and what is hard about it:

- *Sessions*: a nick is signed in once, on a live socket; takeovers, repeated logins
  and reused addresses are the hard cases.
- *Rooms*: a room exists exactly while somebody is inside; it has a master who is
  inside; bans hold; an index means one room, also behind the wrap of 2^32; entries
  are live sockets. Members go by request, by disconnecting and by being taken over,
  out of several rooms at once.
- *Whisper rooms*: the key table and the rooms agree; only the pair is inside; a pair
  has one room. The two leave and return independently.
- *Accounts and friends*: the login column says who is signed in; friendship goes
  both ways; notices are true. Statements fail one by one, the process may end in
  between, and nothing is rolled back or reset.
- *Keys*: key generation ends, and what is enciphered is deciphered to the same bytes.
- *Framing and session keys*: a message is read under the key it was written under,
  whole and once. TCP cuts and joins as it likes; messages carry no length.
- *Room list*: what clients show follows the table.
- *Server window*: a nick is shown once while it is signed in; lines are found by
  prefix.
- *SHA-1 and HMAC*: a digest is that of the whole message, however it was cut into
  calls, and of nothing else; contexts, counters and padding are the hard part.
- *DES*: decryption undoes encryption; the key schedule is one global table, and
  `char` is signed.

`PROJECT.json` lists the hazards of the code one by one, at the lines where they bite.

## 2. Modules

| Module | Role |
|---|---|
| `ChatRooms` | sessions, rooms and whisper rooms: the tables in memory |
| `Membership` | abstract: who is present, who is inside which room, who is its host |
| `RoomList` | `ChatRooms` with the lists that clients were last sent |
| `AccountStore` | the database tables, with faults |
| `UserWindow` | `AccountStore` with the list of users in the window |
| `Wire` | blocks, session keys and handlers between server and clients |
| `Delivery` | abstract: a pipe that yields what was put in, in order |
| `Rsa` | key generation and one byte across |
| `Sha1`, `Hmac` | the hash with its context, and the keyed hash above it |
| `Des` | the cipher, bit by bit, and its one key schedule |
| `MC...` | model values, symmetry and small sets for TLC |
| `SequenceFacts` | lemmas on the sequence operators `ChatRooms` uses; least numbers, and what is proved with them: induction over indices, existence of functions defined by recursion |
| `ChatRoomsProofs` | types, unique nicks, inhabited rooms, masters inside, live nicks and members, the key table |
| `ChatRoomsStepProofs` | masters, bans, indexes; what can end the process; whisper rooms are for two; `ChatRooms` implements `Membership`; the room lists |
| `AccountStoreProofs` | types, login flags, friendships and notices, the window |
| `WireProofs` | types, keys in step; `Wire` implements `Delivery` |
| `RsaProofs` | every byte arrives |
| `HashProofs` | contexts, digests, errors, keyed digests |
| `DesProofs` | every block is recovered, keys are told apart |

Composition: `RoomList` EXTENDS `ChatRooms` and joins every one of its actions with
what it makes clients see; `UserWindow` does the same with `AccountStore`, `Hmac` with
`Sha1`. `ChatRooms`, `AccountStore` and `Wire` model `LoginData` and `CloseClient`
from three sides: the tables in memory, the tables in the database, and the keys and
messages. They are kept apart because none reads the state of another: rooms and
whisper rooms never look at keys or rows, friend rows only at nicks, keys at neither.

### ChatRooms

A handler is one action, with everything it calls. The correspondence is by name:
`AcceptClient`, `OnClose` (= `CloseClient`), `LoginData`, `CreateOpenRoom`,
`EnterRoom`, `CloseRoom`, `SendRoomList`, `Whisper`, `FriendTalk`, `Say`, `Kick`,
`Ban`, `Unban`. `LeaveRooms` is the loop that `CloseRoom` runs over one room and
`CloseClient` over all, including the removal of emptied rooms and their keys.
`Restart` is a new process after a crash or a hang.

- **Pointers.** A socket is an address from `Socks`. Deleting it takes it out of
  `m_UserList`; `AcceptClient` may return the same address later, so an entry that
  was left behind comes to denote a stranger. `m_WhispRoomInfo` holds room pointers,
  modelled by the index of the room.
- **Undefined behaviour.** Sending through a deleted socket may end the process or
  pass unnoticed: both successors exist. Reading through NULL and `at()` beyond the
  end always end it.
- **operator[].** A lookup in `m_RoomInfo` inserts NULL for an index it lacks
  (`Looked`), and `SendRoomList` faults on such an entry (`ListFaults`). This is why
  `m_RoomInfo` distinguishes `NULL` from `NoEntry`. No rule for clients prevents it: a
  request for a room may be under way while the last member leaves.
- **Nicks.** A nick is any sequence of letters. The empty one may be registered too
  (`RegisterQuery` never refuses it); it is also what lookups leave in `m_UserName` for
  those who are not signed in, so that a login under it may find any of them
  (`MayFindNobody`).
- **Whisper requests.** The two copies of the code (lines 643-703, 964-1023) are one
  definition, `StartWhisper`.
- **Left out.** Titles, passwords of rooms (stored, never compared), the text of
  messages, and requests that only reply.

`ClientRules` says what client programs keep to; the server enforces none of it:

| Rule | Meaning | Without it |
|---|---|---|
| `enter_once` | no second entry into a room | a room keeps a deleted socket |
| `open_rooms` | whisper rooms are left to the server | strangers inside; `at(0)` throws |
| `logged_in` | one login, before all else; others are addressed by nick | the client's own socket is deleted under it |

### AccountStore

`account`, `login` and `friend` survive the process; `m_UserList` and `m_UserName`
do not. `Faults` switches on failing UPDATEs and INSERTs and ends of the process
(`Restart` between handlers, `EndsWithin` between the statements of one). An account
with the empty id, which the tables would take, is left out here.
`WellBehaved` says that clients log in once and before they ask for anything else.
`told` and `asked` are history: whom a client was told it is friends with, and which
deletions were requested.

### Rsa

The limits of `rand()` are the build's own (`% 100`), so TLC goes through every key
the server can make. Powers are computed by squaring, which leaves the remainders of
the code's loop, C's signed ones. The client's half is the same two functions under
the other key.

### Wire

A connection is a sequence of messages each way (`up`, `down`), each with the key it
was written under. `ReceiveData` takes some of what has arrived, reads it with the key
`m_CryptInfo` holds at that moment and leaves a list of requests (`token`), which
`Dispatch` serves one by one; no other handler runs in between (`reading`). What a
request does to rooms and tables is left out; what it does to keys is not: `Login`
sends the reply under the old key and then stores the new one, `TakeOver` first closes
the previous session of the nick, and any request may send others any number of
messages (`Audience`; `CloseClient` sends one for every room and then the list).

Any address may be that of any peer, one after the other. Two variables say what can
be relied on where:

- **`intact`**: connections that are followed message by message. Their peers use the
  key they were last given, log in once and wait for the answer. `AcceptClient` may or
  may not begin one. TCP cuts and joins as it likes, and ciphertexts follow each other
  without a separator; only `SendRoomList` sleeps between two messages. So at any
  moment a block may turn out to cut a message, to join enciphered ones or to hold
  more plain ones than `strsplit` has parts for, whether the server reads it
  (`ReceiveNoise`) or the peer (`Mishear`). Nothing in the code finds the way back: the
  connection ceases to be intact, and from then on, as from peers that were never
  followed, the server may hear anything (`Noise`).
- **`keyLeft`**: addresses for which a key was stored after their socket was deleted.
  A login over a connection that has signed in already finds its own nick, deletes the
  reader (line 369) and stores a key for it all the same (405). `AcceptClient` does not
  clear it, so that whoever connects there next is read under a key it was never
  given. Closing that connection takes the address out of `keyLeft`.

The properties speak of `Followed` connections, intact ones at addresses without such
a key; any well-behaved client at such an address is lost, which is what the
counterexample of `WireKeysDeleted` begins.

`Delivery` is what the peer of a followed connection may rely on: a pipe that is open
and stays open is left alone, put into at its end or served from its front; it is
emptied only with the connection. `RequestsKept` is the refinement, with the requests
that are cut off but not yet served put before those under way.

### RoomList and UserWindow

`seen[s]` is the list last sent to the client at `s`. `SendRoomList` sends the whole
table to everyone, and nothing when the table is empty; the count is that of the map,
whisper rooms included, and the end is written behind the last entry of the map.

`users` is the list box. `DeleteUserList` removes the first line that begins with the
nick. `Extended` says which nicks begin with which others. It follows one life of the
process, since the window goes with it.

### Sha1 and Hmac

The compression of a block is ideal: the hash is the sequence of blocks compressed so
far, so two digests are equal exactly when the same blocks went in. Everything around
it is the code's: the context and its index, the two words of the length with their
carry, padding into one or two blocks, errors that stick. Block and length are scaled
down, each length word to one cell.

`Hmac` takes text and key as C strings, cut at the first zero octet. A cell of a digest
is named by its place and the digest it belongs to, and is an octet like any other: it
may be part of a text or of a key. That such octets are never zero, and equal only
where the digests are, is part of the compression being ideal. `BlockOfKey` fills
`SHA1_Key` with a short key or with the digest of a long one, so that a key longer than
a block and the key that is its digest are one secret (`SameSecret`).

### Des

Bits are modelled as bits and tables as tables. Octets of the key are signed, so that
one above 127 inverts the bits before it in its half (`KeyBits`). The halves are not
exchanged before the last permutation, which is why `Round_Decrypt` is another
function than `Round`, and why the result is not that of standard DES. `layers`
remembers which keys a block was encrypted and decrypted under since the start.

### Slips

A definition named `X_Y`, next to `X`, is what `X` could be after a plausible slip
(`Left_NoHandOver`: the master leaves and nobody follows). No specification uses
them. Putting one in the place of `X` makes the property listed beside it in
`PROJECT.json` fail, which shows that the property says something about that code.

## 3. What TLC checks

| Run | States | Question | Holds |
|---|---|---|---|
| `ChatRoomsAnyClient` | 59,212 | what do the tables promise to any clients? | `TypeOK`, `RoomsInhabited`, `MasterPresent`, `WhisperIndexExact`, `OneSocketPerName`, `RoomsNotRecycled`, `BannedStayOut` |
| `ChatRoomsEnterOnce` | 18,054 | and to clients that enter once? | `MembersConnected`, `MasterKeptWhileInside`, `MembershipKept` |
| `ChatRoomsAllRules` | 109,906 | and to clients that keep every rule? do their lists follow the table? | `NamesConnected`, `OnlyAbsentRoomsKill`, `WhisperPairOnly`, `ListsCurrent`, `ListsWholeWithoutWhispers` |
| `AccountStoreFaults` | 123,803 | what survives failures and ends of the process? | `TypeOK`, `FriendsRegistered` |
| `AccountStoreCalm` | 324,656 | what holds when nothing fails, in the window too? | `SignedInIsFlagged`, `FlaggedIsSignedIn`, `FriendsMutual`, `FriendNoticesTrue`, `UsersShown` |
| `WirePeers` | 31,776 | are messages read under their key, and requests served? | `TypeOK`, `KeysInStep`, `RequestsKept`, `LoginAnswered` |
| `RsaKeys` | 106,640 | do keys come about, and do bytes arrive? | `RoundTrip`, `KeysMade` |
| `Hashes` | 81,725 | is a digest that of the message, and a keyed one that of text and secret? | `TypeOK`, `DigestOfMessage`, `MacsTellApart`, `DigestStands` |
| `DesLayers` | 860 | is a block recovered through layers of keys? | `Recovered`, `KeysTellApart` |

Three runs end in a counterexample: what a comment in the source says of the program,
and the shortest way it comes not to be so.

| Run | Comment | What happens |
|---|---|---|
| `ChatRoomsWhisperTwice` | an existing whisper room is used again | the other of the pair asks: a second room |
| `AccountStoreDelete` | "delete a friend" | the row is found, therefore the deletion is given up |
| `WireKeysDeleted` | closing a client: "delete the public key" | a second login over one connection: its socket is deleted with the key, and a new key stored for it |

`OnlyAbsentRoomsKill` says as much as can be said of crashes. A request for a room that
has gone while it was under way leaves a NULL entry, and the next room list ends the
process; this happens in the run, and no client can help it. The property is that, to
clients that keep the rules, nothing else does.

**Bounds.**

- *ChatRooms.* `IndexSpace` is 2, so room indexes wrap within a few creations and
  collide with rooms in use; 2^32 in the build. `MaxEntries` (3) allows double entry
  and a third member. Two or three sockets let addresses be reused, nicks be taken
  over and a bystander be present; one to three nicks give a pair and a stranger.
  `ChatRoomsAnyClient` and `ChatRoomsEnterOnce` use one nick and the empty one, under
  which one may be registered too; its properties are about one room or one nick at
  a time, and the theorems below remove the bound.
  `ChatRoomsAllRules`, which is an instance of `RoomList`, has a pair and a stranger.
- *AccountStore.* Three ids make a friend, a requester and a bystander. In
  `AccountStoreCalm` two of them are a nick and a longer one that begins with it;
  `MaxLines` bounds the window, where a line may stay behind whenever `FindString`
  takes out another in its place.
- *Wire.* Two addresses, so that one takes over from the other and either is reused;
  two keys (an old and a new one); two messages under way in each direction: the reply
  and something behind or before it. `MaxTokens` is 3, so that a block is cut into two
  parts at most; 20 in the code. `MaxQueue` bounds the messages under way. The bounds
  on keys, queues and parts are removed by the theorems.
- *Rsa.* The limits of `rand()` are the build's own. Bytes are the two ends of
  `char`, -1 and a letter; the theorem removes both bounds.
- *Sha1.* A block of 6 cells leaves 4 before the length, and parts of up to 3 octets
  stop at every index. `LowSpace` 24 and `HighSpace` 4 make the low word carry every
  three octets and the whole length overflow with the twelfth, which ends the second
  block. Keys of `Hmac` lie on both sides of a block, with and without a zero octet in
  them, and one is the digest of another. Two digests are compared at a time.
- *Des.* The tables have their full size. Keys differ from each other in a lowest bit,
  a highest one (a negative `char`, at either place that matters) and one inner bit.
  Two layers on a block, of five keys in any order.

The theorems about `Rsa`, `Sha1`, `Hmac` and `Des` hold for all limits, sizes, keys and
blocks; TLC's instances show that the cases they speak of come about.

Sockets, ids in `AccountStoreFaults` and letters in `ChatRoomsAllRules` are
interchangeable; the runs that use that symmetry check no liveness.

**Fairness.** The chat tables state no liveness: what must eventually happen there
depends on what people do. Two modules do:

- `Rsa`: a loop that draws again and again draws every value again and again: `rand()`
  has a full period and the loops do not reseed.
- `Wire`: `Dispatch` is weakly fair, since a handler that has begun runs on.
  `ReceiveData(s)` is strongly fair for intact connections: `CAsyncSocket` posts a
  notification for data that waits, and the message loop takes notifications in turn,
  but it is busy again and again with other sockets. `Read(s)` is weakly fair, because
  a client reads what it is sent. No fairness makes anybody send, and none keeps
  a login from making keys for ever (`Hang`), so `LoginAnswered` excepts it.

## 4. What TLAPS proves

For every set of sockets, nicks, ids and keys, every index width, every bound:

| Theorem | States | Assumes of clients |
|---|---|---|
| `TypeCorrect` | `TypeOK` | nothing |
| `NamesUnique` | `OneSocketPerName` | nothing |
| `RoomsNeverEmpty` | `RoomsInhabited` | nothing |
| `MastersInside` | `MasterPresent` | nothing |
| `WhisperIndexIsExact` | `WhisperIndexExact` | nothing |
| `BansHold` | `BannedStayOut` | nothing |
| `RoomsKeepTheirIndex` | `RoomsNotRecycled` | nothing |
| `MembersAreConnected` | `MembersConnected` | `enter_once` |
| `MastersHandedOn` | `MasterKeptWhileInside` | `enter_once` |
| `NamesAreConnected` | `NamesConnected` | `logged_in` |
| `OnlyAbsentRoomsAreDeadly` | `OnlyAbsentRoomsKill` | all three rules; requests may come late |
| `WhisperRoomsAreForTwo` | `WhisperPairOnly` | `enter_once`, `open_rooms`, `logged_in`; no two pairs of nicks spell one key |
| `MembershipImplemented` | `MembershipKept` | `enter_once` |
| `TablesTyped` | `TypeOK` of `AccountStore` | nothing |
| `SignedInAreFlagged` | `SignedInIsFlagged` | nothing; UPDATEs succeed, the process may end at any point |
| `FriendshipMutual` | `FriendsMutual` | nothing; no faults |
| `FriendsAreRegistered` | `FriendsRegistered` | `WellBehaved`; any faults |
| `FlaggedAreSignedIn` | `FlaggedIsSignedIn` | `WellBehaved`; no faults |
| `FriendNoticesAreTrue` | `FriendNoticesTrue` | `WellBehaved`; statements succeed |
| `WireTyped` | `TypeOK` of `Wire` | nothing |
| `KeysStayInStep` | `KeysInStep` | speaks of a connection while it is intact, at an address where no key was left |
| `RequestsAreKept` | `RequestsKept` | the same; no fairness |
| `ListsFollowTheRooms` | `ListsCurrent` | nothing |
| `ListsAreWhole` | `ListsWholeWithoutWhispers` | nothing |
| `WindowShowsUsers` | `UsersShown` | `WellBehaved`; any failing statements |
| `BytesArrive` | `RoundTrip` | nothing; any limit of `rand()` |
| `ContextsAreTyped` | `TypeOK` of `Sha1` | nothing, callers do as they like |
| `DigestIsOfMessage` | `DigestOfMessage` | the same |
| `DigestsStand` | `DigestStands` | the same |
| `MacsAreTold` | `MacsTellApart` | the same; an ideal compression, no octet of a digest zero |
| `BlocksRecovered` | `Recovered` | nothing |
| `KeysAreTold` | `KeysTellApart` | nothing |

The argument:

- **Types** are inductive by themselves. The work is in `Left`: erasing an entry of a
  sequence gives a sequence over the same set (`SequenceFacts`, where `RemoveFirst`
  and `SelectInSeq` are reduced to what the proofs need).
- **`RoomsSound`** (`ChatRoomsProofs`) puts `RoomsInhabited` and `MasterPresent`
  together, room by room (`RoomSound(i)`). With the types it is inductive: a room
  that `Left` has emptied is in `Emptied` and goes in the same step, and where
  somebody is left, the master is the one who was there or the head of the rest.
- **`RoomsConnected`** (`ChatRoomsProofs`) adds that entries are distinct.
  `MembersConnected` is not inductive without it: erasing one entry of a socket that
  is there twice leaves a dangling one. `enter_once` is used exactly there, and for
  whisper rooms, whose two members are distinct because their nicks are.
- **`WhisperIndexExact`** is inductive with `RoomsSound`, and is proved in its two
  halves: each key leads to its room, each pair's room is found under its key. The
  first half is what makes erasing by a rebuilt key safe.
- **`RoomStep`** (`ChatRoomsStepProofs`) says what one step can do to a room that is
  there before and after it: keep it, drop one member, append one socket, or change
  its bans. In particular no step puts another room in its place. The three action
  properties follow from it by cases.
- **`OnlyAbsentRoomsAreDeadly`** goes through every guard of a crash. With
  `MembersConnected` no handler sends through a deleted socket, with `WhisperIndexExact`
  no key leads nowhere, and no whisper room is without its pair (`PairsNamed`). What is
  left is a NULL entry that was there before the step: removing rooms makes none, and a
  request that makes one sends no list itself.
- **`SignedInAreFlagged`** needs, beside the flag, that a nick is on one socket;
  otherwise closing one session would clear the flag of another.

- **`WhisperRoomsAreForTwo`**: `PairsInside` says of every whisper room that whoever is
  inside bears one of its two nicks, and is inductive for clients that stay out of
  whisper rooms and keep their nick. That no two pairs spell one key is needed where a
  pair is brought back into the room found under its key. At most two members follow
  from entries being distinct and nicks being on one socket each.
- **`MembershipImplemented`** maps the members of each room to a set and every handler
  to one step of `Membership`: taking a nick over is `Depart`, leaving a room one is
  not in a stutter, and the end of the process, from whatever state, is `End`. It needs
  `RoomsConnected`, since with double entries leaving once would not be leaving.
- **Friends**: `FriendsAreRegistered` is inductive with "who is signed in has an
  account". `FriendNoticesAreTrue` also needs that a notice is only kept for somebody
  signed in.
- **`WireSound`** (`WireProofs`) says of each followed connection in which of three
  phases it is: *Idle*, the keys of peer and server are the same and so are those of all
  messages under way; *Asked*, one login is under way or being served, there is no key
  yet and all is in plain text; *Answered*, the reply is under way, and what is before
  it is plain, what is behind it under the new key. Each action is shown to lead from
  phase to phase over plain values (key of the server, key of the peer, what is under
  way); `KeysInStep` is read off the phases. `KeysKept`, the other part, says that a key
  for an address without a connection is in `keyLeft`, so that a newcomer anywhere else
  begins *Idle*. With it every block that comes apart is legible, so nothing is garbled
  and nothing cut off, and each step of `Wire` is a step of `Delivery` or a stutter.

- **Room lists**: `ListsCurrent` becomes inductive once it is known that an address
  without a connection has not been sent anything (`SeenSound`): a newcomer there does
  not begin with the list of whoever had it before. Every step then either leaves table
  and lists alone, empties the table, or sends the new table to all (`StepIsShown`).
- **The window**: for a plain nick (no prefix of another, none of it) `FindString` finds
  that nick's own line or none. `LinesSound` says that it has one line at most, and one
  exactly while it is signed in. It needs that a nick is on one socket, which holds
  whichever statements fail, and `WellBehaved`, because a second login under another
  nick leaves the line of the first.
- **RSA** (`RsaProofs`): the remainders of C take the sign of the dividend, so `Leaves`
  describes them by size, remainder and sign, and `PowerIs` says that squaring leaves
  what multiplying leaves. `Fermat` is proved from `Euclid` by orbits: multiplication by
  `a` cuts 1 .. p-1 into orbits as long as the order of `a`. Both primes then divide the
  difference between a byte and what comes back, so their product does, and a number
  below it in size on the same side of zero is the byte. Both exponents are odd because
  `e_pi` is even, which is what keeps the sign. The invariant `KeysSound` only says how
  the parts of a key belong together.
- **SHA-1** (`HashProofs`): `ShaInvariant` says of a context without error that it
  `Holds` the message so far: in the blocks compressed, in the block that is being
  filled and in the two words that count. `Input` keeps it cell by cell, `Result` adds
  the padding in one block or two.
- **HMAC**: padding can be undone, so that equal digests are of equal messages; the
  two pads keep the blocks of inner and outer key apart, and the outer digest gives back
  the inner one. A block gives back its secret: zeros are stripped, which neither a C
  string nor a digest has, and what is left is a short key, or a digest, and with it the
  one long key it is of.
- **DES** (`DesProofs`): one round undoes the other whatever `Mixed` does, `IIP` and
  `IP` undo each other, and so sixteen rounds are undone from the last to the first
  (`CipherUndone`). `CipherSound` says that a chain of blocks leads through `layers` from
  the first block to the one in hand. Two keys with the same schedule have the same
  upper seven bits in every octet: `PC_1` covers all of them, rounds 1 and 2 together
  choose every place of a half through `PC_2`, and since a sign is folded only into the
  octets before it in its half, the octets are recovered from the last to the first.

The library's induction theorems take an operator as a parameter, which none of the
provers can instantiate. What these proofs need of induction is derived from the least
element of a set of numbers (`LeastNatural`, `IndexInduction`), and recursive functions
are shown to exist in the same way (`RecursionExists`).

Only model-checked: `LoginAnswered` and `KeysMade`. Both are liveness under fairness,
which is out of the provers' reach.

## 5. Seen while modelling

Beyond the three runs above:

- A client that enters a room twice and disconnects leaves one entry of its deleted
  socket in `m_Account` (`ChatSer.h:29` calls it the list of the connected).
- Entering the number of a room that has gone inserts NULL under it
  (`ChatSer.cpp:537`, `:1223`), and the room list then reads through it. It takes no more
  than an "enter" that is under way while the last member leaves.
- A third client that knows the number of a whisper room may enter it
  (`ChatSer.cpp:538`, `:639`).
- `rsa.cpp` counts 1 as a prime; with it phi is 0 and the loop that looks for the
  public key never ends (`rsa.cpp:92`, `:51`, `:77`).
- A room list is counted with its whisper rooms, and has no end when the last room is
  one (`ChatSer.cpp:1351`). When the table empties nobody is told, and clients go on
  showing the last room.
- The key of a session goes out before it is stored. Whatever the client has sent
  meanwhile is read under the new key and becomes noise: safe only with clients that
  wait.
- Ciphertexts are not separated, so that two that arrive together are read as one.
- The window loses the line of `anna` when `ann` leaves, if `anna` came first.
- `SHA1Input` returns success for the very call that makes a message too long, and the
  error it leaves has the value of `shaNull`, not of `shaInputTooLong`.
- DES is not the standard one, keys of signed octets are folded into each other, and the
  lowest bit of each octet is ignored, as in the standard.
- With nicks such as `a`, `ba` and `ab`, `a` the two pairs (`a`, `ba`) and (`ab`, `a`)
  spell one key, and the second request brings its sender into the first pair's room.
  `WhisperPairOnly` is checked with nicks that cannot collide.
- The lobby's "create" takes the status of a whisper room. Its maker is its master,
  it names no pair, and the process ends when it empties.
- A repeated login deletes the client's own socket; the nick and the key
  (`WireKeysDeleted`) stay behind for the next connection at that address.
- A key longer than a block and the key that is its digest give the same HMAC, as in the
  standard.
- Kicking sends a message and removes nobody. `/h` is answered and then said aloud
  to the room as well.
- The login column is never reset: whoever was signed in at the end of a process
  stays marked until the next login and logout.
- A friendship whose second INSERT fails goes one way, and cannot be repaired: the
  first row makes the next request fail.
- The two primes may be equal, and then hardly any byte survives; if their product
  is below 128, bytes that differ by it cannot be told apart.

## 6. Not modelled, and the plan

Most of the repository's lines are not its own: `include/` holds the headers of the
MySQL client library, about 20,000 of 23,500 lines of code. They declare and implement
nothing that the server's behaviour turns on; what the calls to it do is in the actions
of `AccountStore`. The models cover most of what is left.

Not modelled for good: the dialog's painting, menus and the list of events; memory that
is never freed; the text of messages and their lengths (fixed buffers of 4096, and
what an uninitialised one holds); results of `Send` and failing `Accept`, which the
code ignores; the compression function of SHA-1, taken to be ideal.

Not modelled yet, in the order in which it would be taken up:

1. `ChatServer`: `ChatRooms`, `AccountStore` and `Wire` over one set of sessions, and
   what the requests behind a repeated login in one block do to the tables, after the
   socket they came from has been deleted.
2. The client's part in a kick: the server only sends a message, and the member goes
   when its client does.
3. Creation while the index is taken: refused, without the index moving on, until that
   room empties. A liveness property under the assumption that people leave.
