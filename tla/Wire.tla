-------------------------------- MODULE Wire --------------------------------
(***************************************************************************)
(* Requests and replies on their way (ReceiveData and SendData), and the   *)
(* session keys (m_CryptInfo) that LoginData and CloseClient change while  *)
(* messages are under way.                                                 *)
(*                                                                         *)
(* A connection is a stream of characters: one Receive takes as many of    *)
(* the messages that have arrived as it finds.  Plain messages begin with  *)
(* a delimiter and come apart again; enciphered ones are numbers between   *)
(* spaces, with none between the last number of one message and the first  *)
(* of the next.  A login is answered with the key, under the key that held *)
(* before, and from then on the server expects and uses the new one.       *)
(*                                                                         *)
(* Of a peer the server may hear anything.  One that uses the key it was   *)
(* last given, logs in once and waits for the answer is followed, message  *)
(* by message, for as long as its connection is intact: until a block cuts *)
(* a message, joins enciphered ones or holds more plain ones than fit,     *)
(* which nothing in the program prevents (only SendRoomList sleeps, 1365). *)
(* An address is reused, whatever peer it belonged to before.  Whoever     *)
(* logs in over its own connection is deleted in the middle of the login   *)
(* (369), which stores a key for the free address all the same (405); it   *)
(* is there when the next peer is accepted, and keyLeft tells where.       *)
(* A definition named X_Y is a slip Y of X.                                *)
(***************************************************************************)
EXTENDS Integers, Sequences, FiniteSets

CONSTANTS
    Socks,      \* addresses of CClientSock objects; a freed one is reused
    Keys,       \* what key generation may return
    NoKey,      \* m_publicKey = 0
    NoSock,     \* no socket is being served
    MaxTokens,  \* the parts strsplit cuts a block into, 20 in the code
    MaxQueue    \* bound of the model: messages under way in one direction

Requests == {"login", "other"}
Reply == {"text", "refused"} \cup Keys
Message == [key : Keys \cup {NoKey}, body : Requests \cup Reply]
Question == [key : Keys \cup {NoKey}, body : Requests]

ASSUME KeysAssumption ==
    /\ NoKey \notin Keys
    /\ Keys \cap {"text", "refused", "login", "other"} = {}
ASSUME NoSockAssumption == NoSock \notin Socks
ASSUME BoundsAssumption == MaxTokens \in Nat \ {0, 1} /\ MaxQueue \in Nat \ {0}

VARIABLES
    status,         \* "running" or "hung"
    m_UserList,     \* the sockets accepted and not deleted
    m_CryptInfo,    \* the server's key for a socket address
    reading,        \* the socket whose block ReceiveData is going through
    token,          \* the parts of that block that are not yet served
    intact,         \* the connections that are followed
    up, down,       \* messages under way from and to the peer of one
    peerKey,        \* the key that peer uses
    waiting,        \* the peers of those that wait for the answer to a login
    keyLeft         \* addresses for which a key was stored after the deletion

server == <<status, m_UserList, m_CryptInfo, reading, token>>
peers == <<intact, up, down, peerKey, waiting>>
vars == <<server, peers, keyLeft>>

-----------------------------------------------------------------------------
(* Blocks.                                                                 *)

Bodies(q) == [i \in DOMAIN q |-> q[i].body]

(* What a block says to one who reads it with the given key: messages      *)
(* under that key, and no two of them if they are enciphered.              *)
Legible(block, key) ==
    /\ \A i \in DOMAIN block : block[i].key = key
    /\ key = NoKey \/ Len(block) = 1

(* A plain message read under a key: no part of it is a number, and what   *)
(* is deciphered is empty.                                                 *)
Illegible == <<"garbled">>

Split_OneShort(q) == SubSeq(q, 1, MaxTokens - 2)

(* strsplit at the delimiters: what precedes the first is a part, and the  *)
(* rest is dropped when there are too many.                                *)
Split(q) == IF Len(q) < MaxTokens THEN q ELSE SubSeq(q, 1, MaxTokens - 1)

ReadWith(block, key) ==
    IF Legible(block, key) THEN Split(Bodies(block)) ELSE Illegible

(* The first n messages make a block that comes apart again.               *)
Whole(q, n) ==
    /\ n \in 1 .. Len(q)
    /\ n = 1 \/ \A i \in 1 .. n : q[i].key = NoKey

Rest(q, n) == SubSeq(q, n + 1, Len(q))

(* What the server may make of any other block, and of whatever is sent by *)
(* a peer that is not followed.                                            *)
Noise == UNION {[1 .. n -> Requests] : n \in 1 .. MaxTokens - 1}

-----------------------------------------------------------------------------
(* Sending.                                                                *)

SendData(t, body) == [key |-> m_CryptInfo[t], body |-> body]

(* How many messages a handler may send to each: one for every room they   *)
(* share, and the list of rooms.                                           *)
Audience ==
    {news \in [Socks -> 0 .. MaxQueue] :
        \A t \in Socks : news[t] > 0 =>
            t \in intact /\ Len(down[t]) + news[t] <= MaxQueue}

Told(news) ==
    [t \in Socks |-> down[t] \o [i \in 1 .. news[t] |-> SendData(t, "text")]]

-----------------------------------------------------------------------------
(* Connections.                                                            *)

Cut(wire, t) == [wire EXCEPT ![t] = <<>>]

(* The key of the address is left as it is; whatever peer has connected.   *)
AcceptClient(s) ==
    /\ reading = NoSock
    /\ s \notin m_UserList
    /\ m_UserList' = m_UserList \cup {s}
    /\ intact' \in {intact, intact \cup {s}}
    /\ UNCHANGED <<status, m_CryptInfo, reading, token, up, down, peerKey,
                   waiting, keyLeft>>

KeysWithout_Kept(t) == m_CryptInfo

KeysWithout(t) == [m_CryptInfo EXCEPT ![t] = NoKey]

(* The connection is gone or no longer intact; what is under way to t is   *)
(* cut with it, by the action.                                             *)
Unfollowed(t) ==
    /\ intact' = intact \ {t}
    /\ up' = Cut(up, t)
    /\ peerKey' = [peerKey EXCEPT ![t] = NoKey]
    /\ waiting' = waiting \ {t}

(* CloseClient, but for the key.                                           *)
Closed(t) ==
    /\ m_UserList' = m_UserList \ {t}
    /\ Unfollowed(t)

(* OnClose -> CloseClient; others are told.                                *)
OnClose(s) ==
    /\ reading = NoSock
    /\ s \in m_UserList
    /\ Closed(s)
    /\ m_CryptInfo' = KeysWithout(s)
    /\ \E news \in Audience : down' = Cut(Told(news), s)
    /\ keyLeft' = keyLeft \ {s}
    /\ UNCHANGED <<status, reading, token>>

(* The process is gone, and started again.                                 *)
Restart ==
    /\ status' = "running"
    /\ m_UserList' = {}
    /\ m_CryptInfo' = [t \in Socks |-> NoKey]
    /\ reading' = NoSock
    /\ token' = <<>>
    /\ intact' = {}
    /\ up' = [t \in Socks |-> <<>>]
    /\ down' = [t \in Socks |-> <<>>]
    /\ peerKey' = [t \in Socks |-> NoKey]
    /\ waiting' = {}
    /\ keyLeft' = {}

-----------------------------------------------------------------------------
(* Receiving.                                                              *)

(* One block that comes apart, read with the key that m_CryptInfo holds.   *)
Receive(s) ==
    /\ s \in intact
    /\ \E n \in 1 .. Len(up[s]) :
          /\ Whole(up[s], n)
          /\ n < MaxTokens
          /\ token' = ReadWith(SubSeq(up[s], 1, n), m_CryptInfo[s])
          /\ up' = [up EXCEPT ![s] = Rest(@, n)]
    /\ UNCHANGED <<intact, down, peerKey, waiting>>

(* Any other block.                                                        *)
ReceiveNoise(s) ==
    /\ s \in intact => up[s] # <<>>
    /\ token' \in Noise
    /\ down' = Cut(down, s)
    /\ Unfollowed(s)

(* OnReceive -> ReceiveData, up to the loop.                               *)
ReceiveData(s) ==
    /\ reading = NoSock
    /\ s \in m_UserList
    /\ reading' = s
    /\ Receive(s) \/ ReceiveNoise(s)
    /\ UNCHANGED <<status, m_UserList, m_CryptInfo, keyLeft>>

NextToken_OneLeft ==
    /\ reading # NoSock
    /\ IF Len(token) > 0
       THEN token' = Tail(token) /\ UNCHANGED reading
       ELSE token' = <<>> /\ reading' = NoSock

(* The loop: each part is handed to its handler in turn.                   *)
NextToken ==
    /\ reading # NoSock
    /\ IF Len(token) > 1
       THEN token' = Tail(token) /\ UNCHANGED reading
       ELSE token' = <<>> /\ reading' = NoSock

(* An empty part is nobody's.                                              *)
Ignore ==
    /\ Head(token) = "garbled"
    /\ NextToken
    /\ UNCHANGED <<status, m_UserList, m_CryptInfo, peers, keyLeft>>

(* Any request but a login: somebody may be told something.                *)
Other ==
    /\ Head(token) = "other"
    /\ NextToken
    /\ \E news \in Audience : down' = Told(news)
    /\ UNCHANGED <<status, m_UserList, m_CryptInfo, intact, up, peerKey,
                   waiting, keyLeft>>

KeyOfReply_New(k) == k

(* The reply is sent before the key is stored: under the key of before.    *)
KeyOfReply(k) == m_CryptInfo[reading]

Answer(wire, key, body) ==
    IF reading \in intact
    THEN [wire EXCEPT ![reading] = Append(@, [key |-> key, body |-> body])]
    ELSE wire

(* LoginData "0" with a wrong password.                                    *)
Refuse ==
    /\ Head(token) = "login"
    /\ NextToken
    /\ down' = Answer(down, m_CryptInfo[reading], "refused")
    /\ UNCHANGED <<status, m_UserList, m_CryptInfo, intact, up, peerKey,
                   waiting, keyLeft>>

(* LoginData "0" of a nick that nobody has signed in with.                 *)
Login(k) ==
    /\ Head(token) = "login"
    /\ NextToken
    /\ down' = Answer(down, KeyOfReply(k), k)
    /\ m_CryptInfo' = [m_CryptInfo EXCEPT ![reading] = k]
    /\ UNCHANGED <<status, m_UserList, intact, up, peerKey, waiting, keyLeft>>

(* LoginData "0" of a nick signed in at t, which is closed first: t has a  *)
(* key, as whoever has signed in.  That may be the reader itself, and the  *)
(* handler goes on with a deleted socket and stores a key for it.          *)
TakeOver(t, k) ==
    /\ Head(token) = "login"
    /\ m_CryptInfo[t] # NoKey
    /\ NextToken
    /\ Closed(t)
    /\ \E news \in Audience :
          down' = Cut(Answer(Told(news), KeyOfReply(k), k), t)
    /\ m_CryptInfo' = [KeysWithout(t) EXCEPT ![reading] = k]
    /\ keyLeft' = IF t = reading THEN keyLeft \cup {t} ELSE keyLeft \ {t}
    /\ UNCHANGED status

(* Making the keys may never end (rsa.cpp).                                *)
Hang ==
    /\ Head(token) = "login"
    /\ status' = "hung"
    /\ UNCHANGED <<m_UserList, m_CryptInfo, reading, token, peers, keyLeft>>

Dispatch ==
    /\ reading # NoSock
    /\ \/ Ignore
       \/ Other
       \/ Refuse
       \/ \E k \in Keys : Login(k) \/ \E t \in Socks : TakeOver(t, k)
       \/ Hang

-----------------------------------------------------------------------------
(* The peers of intact connections.                                        *)

Send(s, body) ==
    /\ s \in intact
    /\ s \notin waiting
    /\ body = "login" => peerKey[s] = NoKey
    /\ Len(up[s]) < MaxQueue
    /\ up' = [up EXCEPT ![s] = Append(@, [key |-> peerKey[s], body |-> body])]
    /\ waiting' = IF body = "login" THEN waiting \cup {s} ELSE waiting
    /\ UNCHANGED <<server, intact, down, peerKey, keyLeft>>

(* A peer reads a block with the key it had; a new key counts from then on. *)
Hear(s) ==
    /\ s \in intact
    /\ \E n \in 1 .. Len(down[s]) :
          LET block == SubSeq(down[s], 1, n)
              heard == IF Legible(block, peerKey[s])
                       THEN {block[i].body : i \in 1 .. n} ELSE {}
          IN  /\ Whole(down[s], n)
              /\ down' = [down EXCEPT ![s] = Rest(@, n)]
              /\ waiting' = IF heard \subseteq {"text"} THEN waiting
                            ELSE waiting \ {s}
              /\ \/ \E k \in Keys \cap heard : peerKey' = [peerKey EXCEPT ![s] = k]
                 \/ Keys \cap heard = {} /\ UNCHANGED peerKey
    /\ UNCHANGED <<intact, up>>

(* Or a block that does not come apart: the connection is not intact.      *)
Mishear(s) ==
    /\ down[s] # <<>>
    /\ down' = Cut(down, s)
    /\ Unfollowed(s)

Read(s) ==
    /\ Hear(s) \/ Mishear(s)
    /\ UNCHANGED <<server, keyLeft>>

Init ==
    /\ status = "running"
    /\ m_UserList = {}
    /\ m_CryptInfo = [t \in Socks |-> NoKey]
    /\ reading = NoSock
    /\ token = <<>>
    /\ intact = {}
    /\ up = [t \in Socks |-> <<>>]
    /\ down = [t \in Socks |-> <<>>]
    /\ peerKey = [t \in Socks |-> NoKey]
    /\ waiting = {}
    /\ keyLeft = {}

Next ==
    \/ /\ status = "running"
       /\ \/ \E s \in Socks : AcceptClient(s) \/ OnClose(s) \/ ReceiveData(s)
          \/ Dispatch
    \/ \E s \in Socks, body \in Requests : Send(s, body)
    \/ \E s \in Socks : Read(s)
    \/ Restart

(* The message loop serves every socket in turn and handlers end unless    *)
(* they hang; a peer reads what it is sent.                                *)
Fairness ==
    /\ WF_vars(status = "running" /\ Dispatch)
    /\ \A s \in Socks :
          /\ SF_vars(status = "running" /\ s \in intact /\ ReceiveData(s))
          /\ WF_vars(Read(s))

Spec == Init /\ [][Next]_vars /\ Fairness

-----------------------------------------------------------------------------
(* What both ends may rely on.                                             *)

(* Keys are keys and messages are messages; the loop is over exactly when  *)
(* no part of the block is left, and nothing is under way to or from a     *)
(* connection that is closed or not followed.                              *)
TypeOK ==
    /\ status \in {"running", "hung"}
    /\ m_UserList \subseteq Socks
    /\ m_CryptInfo \in [Socks -> Keys \cup {NoKey}]
    /\ reading \in Socks \cup {NoSock}
    /\ token \in Seq(Requests \cup {"garbled"})
    /\ token = <<>> <=> reading = NoSock
    /\ waiting \subseteq intact /\ intact \subseteq m_UserList
    /\ up \in [Socks -> Seq(Question)]
    /\ down \in [Socks -> Seq(Message)]
    /\ peerKey \in [Socks -> Keys \cup {NoKey}]
    /\ \A s \in Socks \ intact :
          up[s] = <<>> /\ down[s] = <<>> /\ peerKey[s] = NoKey
    /\ keyLeft \subseteq Socks

(* The connections of which the server started without a key.              *)
Followed == intact \ keyLeft

(* The key peer s uses once it has read the first n messages under way.    *)
KeyAfter(s, n) ==
    LET news == {i \in 1 .. n : down[s][i].body \in Keys}
    IN  IF news = {} THEN peerKey[s]
        ELSE down[s][CHOOSE i \in news : \A j \in news : j <= i].body

(* Every message under way on an intact connection will be read with the   *)
(* key it was written with, through logins, takeovers, disconnections and  *)
(* reused addresses, whatever the other peers do, but for addresses where  *)
(* a login over its own connection (369, 405) has left a key.              *)
KeysInStep ==
    \A s \in Followed :
        /\ \A i \in DOMAIN up[s] : up[s][i].key = m_CryptInfo[s]
        /\ \A i \in DOMAIN down[s] : down[s][i].key = KeyAfter(s, i - 1)
        /\ m_CryptInfo[s] = KeyAfter(s, Len(down[s]))

(* "Delete the public key" (comment at CloseClient, 1315): no key is kept  *)
(* for a socket that is closed.  False: see keyLeft.                       *)
KeysDeleted == \A s \in Socks \ m_UserList : m_CryptInfo[s] = NoKey

(* Requests of the peers followed that are not yet served.                 *)
Unserved ==
    [s \in Socks |->
        IF s \in Followed
        THEN (IF reading = s THEN token ELSE <<>>) \o Bodies(up[s]) ELSE <<>>]

Promised == INSTANCE Delivery
    WITH Client <- Socks, Request <- Requests, open <- Followed, pipe <- Unserved

(* What is asked over an intact connection is served, all of it, unaltered *)
(* and in order, until the connection ends.                                *)
RequestsKept == Promised!Spec

(* A peer that has sent a login gets its answer, unless it is disconnected *)
(* or its connection is not intact, making the keys never ends, or a key   *)
(* was left at its address.                                                *)
LoginAnswered ==
    \A s \in Socks :
        s \in waiting ~> s \notin waiting \/ status = "hung" \/ s \in keyLeft
=============================================================================
