---------------------------- MODULE LobbyMembership ----------------------------
(***************************************************************************)
(* lobby.service.ts: how the players of one room come and go.  The         *)
(* handlers of different sockets, the host's kicks and the grace timers    *)
(* run interleaved at every await; each step below is what one of them     *)
(* does between two awaits.  The registry is ConnectionRegistry's, the     *)
(* clients table is kept here.                                             *)
(***************************************************************************)
EXTENDS ConnectionRegistry, Naturals

CONSTANTS
  Room,        \* the room
  MaxPlayers,  \* ROOM.MAX_PLAYERS
  MinPlayers,  \* ROOM.MIN_PLAYERS_TO_START
  NameOf,      \* client id -> the display name it joins with
  MaxDrops     \* bound: how many sockets may close

ASSUME LobbyAssumption ==
  /\ Room \in Rooms
  /\ MaxPlayers \in Nat /\ MinPlayers \in Nat
  /\ MaxDrops \in Nat

VARIABLES
  socket,   \* socket -> "fresh" (has sent nothing), "open" or "closed"
  present,  \* clients table: the players that have a row
  online,   \* clients.isConnected
  used,     \* client ids taken by the joins so far
  tokens,   \* _reconnectTokens: players whose token is known
  armed,    \* _graceTimers: players with a stored handle
  pending,  \* player -> grace timeouts that will still fire
  join,     \* socket -> its joinClient() in flight
  leave,    \* socket -> its leaveClient() or handleDisconnect() in flight
  expire,   \* player -> its expireGrace() in flight
  kick,     \* player -> its kickPlayerByRoom() in flight
  status,   \* room.status: "lobby" (and "counted" during startGame()) or "active"
  drops,    \* sockets that may still close
  left,     \* history: players gone for good: left, kicked or expired, none back yet
  hasty     \* history: sockets that closed while their join was in flight

tableVars == <<present, online, used>>
timerVars == <<armed, pending>>
callVars == <<join, leave, expire, kick>>
roomVars == <<status, drops, left, hasty>>
vars == <<registryVars, socket, tableVars, tokens, timerVars, callVars, roomVars>>

JoinSteps == {"idle", "enter", "room", "find", "back", "roster", "insert"}
LeaveSteps == {"idle", "leave", "find", "save", "arm"}
ExpireSteps == {"idle", "find", "remove"}
KickSteps == {"idle", "find", "remove"}
NoJoin == [at |-> "idle", client |-> None, open |-> FALSE]
NoLeave == [at |-> "idle", client |-> None]

(* Every variable holds what its comment says; a stored handle stands for a
   timeout that will fire. *)
MembershipTypeOK ==
  /\ RegistryTypeOK
  /\ socket \in [Sockets -> {"fresh", "open", "closed"}]
  /\ online \subseteq present /\ present \subseteq used /\ used \subseteq Clients
  /\ tokens \subseteq Clients /\ armed \subseteq Clients
  /\ pending \in [Clients -> Nat]
  /\ \A c \in armed : pending[c] > 0
  /\ join \in [Sockets -> [at : JoinSteps, client : Clients \cup {None}, open : BOOLEAN]]
  /\ leave \in [Sockets -> [at : LeaveSteps, client : Clients \cup {None}]]
  /\ expire \in [Clients -> ExpireSteps]
  /\ kick \in [Clients -> KickSteps]
  /\ left \subseteq Clients /\ hasty \subseteq Sockets
  /\ status \in {"lobby", "counted", "active"}
  /\ drops \in 0..MaxDrops

Init ==
  /\ RegistryInit
  /\ socket = [s \in Sockets |-> "fresh"]
  /\ present = {} /\ online = {} /\ used = {} /\ tokens = {} /\ armed = {}
  /\ pending = [c \in Clients |-> 0]
  /\ join = [s \in Sockets |-> NoJoin]
  /\ leave = [s \in Sockets |-> NoLeave]
  /\ expire = [c \in Clients |-> "idle"]
  /\ kick = [c \in Clients |-> "idle"]
  /\ left = {} /\ hasty = {}
  /\ status = "lobby"
  /\ drops = MaxDrops

InRoom(c) == ClientOf(Room, c)
InLobby == status # "active"
Rejoining(c) == \E s \in Sockets : join[s].at = "back" /\ join[s].client = c

\* clients.save() of an entity read earlier inserts the row again if it is gone.
SaveRow(c, isConnected) ==
  /\ present' = present \cup {c}
  /\ online' = IF isConnected THEN online \cup {c} ELSE online \ {c}

RemoveRow(c) ==
  /\ present' = present \ {c}
  /\ online' = online \ {c}

\* Slip: a timeout is taken off although no handle is stored.
ClearTimerBlindly(c) ==
  /\ armed' = armed \ {c}
  /\ pending' = [pending EXCEPT ![c] = @ - 1]

\* clearGraceTimer() and clearTimeout() on what it returns.
ClearTimer(c) ==
  /\ armed' = armed \ {c}
  /\ pending' = [pending EXCEPT ![c] = IF c \in armed THEN @ - 1 ELSE @]

\* setGraceTimer() over a stored handle: that timeout can no longer be cleared.
ArmTimer(c) ==
  /\ armed' = armed \cup {c}
  /\ pending' = [pending EXCEPT ![c] = @ + 1]

NoteGone(c) == left' = IF Rejoining(c) THEN left ELSE left \cup {c}

\* A disconnect that saves its row late takes a player that is back for offline.
BackAlready(c) == \E s \in Sockets : membership[s] = InRoom(c)

-------------------------------------------------------------------------------
(* joinClient() *)

JoinGoes(s, call) ==
  /\ join' = [join EXCEPT ![s] = call]
  /\ UNCHANGED <<leave, expire, kick, roomVars>>

JoinEnds(s) == JoinGoes(s, NoJoin)

\* PLAYER_JOIN, once on each socket: with the id of an earlier join, or as a
\* newcomer, who gets a new id.
SendJoin(s, c) ==
  /\ socket[s] = "fresh"
  /\ socket' = [socket EXCEPT ![s] = "open"]
  /\ used' = used \cup {c}
  /\ JoinGoes(s, [at |-> IF c \in used THEN "room" ELSE "enter",
                  client |-> c, open |-> FALSE])
  /\ UNCHANGED <<registryVars, present, online, tokens, timerVars>>

\* The room is read.  Its status counts for newcomers only, but as read here.
FindRoom(s) ==
  /\ \/ /\ join[s].at = "room"
        /\ JoinGoes(s, [join[s] EXCEPT !.at = "find", !.open = InLobby])
     \/ /\ join[s].at = "enter" /\ InLobby
        /\ JoinGoes(s, [join[s] EXCEPT !.at = "roster"])
     \/ /\ join[s].at = "enter" /\ ~InLobby
        /\ JoinEnds(s)
  /\ UNCHANGED <<registryVars, socket, tableVars, tokens, timerVars>>

\* Slip: the timer is stopped before the token is verified.
FindClientTimerFirst(s) ==
  LET c == join[s].client IN
  /\ join[s].at = "find"
  /\ c \in present
  /\ ClearTimer(c)
  /\ \/ c \in tokens /\ JoinGoes(s, [join[s] EXCEPT !.at = "back"])
     \/ JoinEnds(s)
  /\ UNCHANGED <<registryVars, socket, tableVars, tokens>>

\* attemptReconnect() for a player that has a row: with its token it comes
\* back, and its timer is stopped; with another one it is refused.
FindClient(s) ==
  LET c == join[s].client IN
  /\ join[s].at = "find"
  /\ c \in present
  /\ \/ /\ c \in tokens
        /\ ClearTimer(c)
        /\ JoinGoes(s, [join[s] EXCEPT !.at = "back"])
     \/ /\ JoinEnds(s)
        /\ UNCHANGED timerVars
  /\ UNCHANGED <<registryVars, socket, tableVars, tokens>>

\* Without a row the player is a newcomer, under the status read before.
FindNobody(s) ==
  /\ join[s].at = "find"
  /\ join[s].client \notin present
  /\ \/ /\ join[s].open
        /\ \E d \in Clients \ used :
             /\ JoinGoes(s, [at |-> "roster", client |-> d, open |-> TRUE])
             /\ used' = used \cup {d}
     \/ /\ ~join[s].open \/ Clients \subseteq used
        /\ JoinEnds(s)
        /\ UNCHANGED used
  /\ UNCHANGED <<registryVars, socket, present, online, tokens, timerVars>>

\* ensureRosterAllows(), on the roster just read.
RosterAllows(c) ==
  /\ Cardinality(present) < MaxPlayers
  /\ \A d \in present : NameOf[d] # NameOf[c]

ReadRoster(s) ==
  /\ join[s].at = "roster"
  /\ \/ /\ RosterAllows(join[s].client)
        /\ JoinGoes(s, [join[s] EXCEPT !.at = "insert"])
     \/ /\ ~RosterAllows(join[s].client)
        /\ JoinEnds(s)
  /\ UNCHANGED <<registryVars, socket, tableVars, tokens, timerVars>>

\* The row is saved, by addClient() or updateSocket(): the socket is registered
\* under a new token, whether it is still open or not.
Admit(s) ==
  LET c == join[s].client IN
  /\ join[s].at \in {"insert", "back"}
  /\ SaveRow(c, TRUE)
  /\ tokens' = tokens \cup {c}
  /\ RegisterClient(Room, c, s)
  /\ JoinEnds(s)
  /\ UNCHANGED <<socket, used, timerVars>>

-------------------------------------------------------------------------------
(* leaveClient() and handleDisconnect() *)

LeaveGoes(s, call) ==
  /\ leave' = [leave EXCEPT ![s] = call]
  /\ UNCHANGED <<join, expire, kick, status>>

Playing(s) == membership[s].role = "client"

\* Slip: the token outlives the membership.
LeaveKeepsToken(s) ==
  LET c == membership[s].client IN
  /\ socket[s] = "open"
  /\ Playing(s)
  /\ leave[s].at = "idle"
  /\ Unregister(s)
  /\ LeaveGoes(s, [at |-> "leave", client |-> c])
  /\ NoteGone(c)
  /\ UNCHANGED <<socket, tableVars, tokens, timerVars, drops, hasty>>

\* PLAYER_LEAVE: the socket and the token go at once, the row after a query.
Leave(s) ==
  LET c == membership[s].client IN
  /\ socket[s] = "open"
  /\ Playing(s)
  /\ leave[s].at = "idle"
  /\ Unregister(s)
  /\ tokens' = tokens \ {c}
  /\ LeaveGoes(s, [at |-> "leave", client |-> c])
  /\ NoteGone(c)
  /\ UNCHANGED <<socket, tableVars, timerVars, drops, hasty>>

RemoveLeaver(s) ==
  /\ leave[s].at = "leave"
  /\ RemoveRow(leave[s].client)
  /\ LeaveGoes(s, NoLeave)
  /\ UNCHANGED <<registryVars, socket, used, tokens, timerVars, drops, left, hasty>>

\* Slip: the disconnect leaves the registry alone.
DropKeepsEntry(s) ==
  /\ socket[s] = "open"
  /\ drops > 0
  /\ drops' = drops - 1
  /\ socket' = [socket EXCEPT ![s] = "closed"]
  /\ hasty' = IF join[s].at = "idle" THEN hasty ELSE hasty \cup {s}
  /\ \/ /\ Playing(s)
        /\ LeaveGoes(s, [at |-> "find", client |-> membership[s].client])
     \/ /\ ~Playing(s)
        /\ UNCHANGED <<callVars, status>>
  /\ UNCHANGED <<registryVars, tableVars, tokens, timerVars, left>>

\* The socket closes.  A handler that waits on its behalf goes on.
Drop(s) ==
  /\ socket[s] = "open"
  /\ drops > 0
  /\ drops' = drops - 1
  /\ socket' = [socket EXCEPT ![s] = "closed"]
  /\ hasty' = IF join[s].at = "idle" THEN hasty ELSE hasty \cup {s}
  /\ \/ /\ Playing(s)
        /\ Unregister(s)
        /\ LeaveGoes(s, [at |-> "find", client |-> membership[s].client])
     \/ /\ ~Playing(s)
        /\ UNCHANGED <<registryVars, callVars, status>>
  /\ UNCHANGED <<tableVars, tokens, timerVars, left>>

DropGoes(s, at) ==
  /\ LeaveGoes(s, [leave[s] EXCEPT !.at = at])
  /\ UNCHANGED <<registryVars, socket, used, tokens, drops, left, hasty>>

FindDropped(s) ==
  /\ leave[s].at = "find"
  /\ \/ leave[s].client \in present /\ DropGoes(s, "save")
     \/ leave[s].client \notin present /\ DropGoes(s, "idle")
  /\ UNCHANGED <<present, online, timerVars>>

SaveDropped(s) ==
  /\ leave[s].at = "save"
  /\ SaveRow(leave[s].client, FALSE)
  /\ DropGoes(s, "arm")
  /\ UNCHANGED timerVars

ArmGrace(s) ==
  /\ leave[s].at = "arm"
  /\ ArmTimer(leave[s].client)
  /\ DropGoes(s, "idle")
  /\ UNCHANGED <<present, online>>

-------------------------------------------------------------------------------
(* expireGrace() *)

ExpireGoes(c, at) ==
  /\ expire' = [expire EXCEPT ![c] = at]
  /\ UNCHANGED <<registryVars, socket, used, join, leave, kick>>
  /\ UNCHANGED <<status, drops, hasty>>

\* A timeout fires: the stored one, or one whose handle was overwritten, which
\* clears the stored one.  One expiry of a player runs at a time.
GraceFires(c) ==
  /\ expire[c] = "idle"
  /\ pending[c] > 0
  /\ armed' = armed \ {c}
  /\ \/ pending' = [pending EXCEPT ![c] = @ - 1]
     \/ /\ c \in armed /\ pending[c] > 1
        /\ pending' = [pending EXCEPT ![c] = @ - 2]
  /\ ExpireGoes(c, "find")
  /\ UNCHANGED <<present, online, tokens, left>>

\* The token of an offline player goes at once, its row after a query.
FindExpired(c) ==
  /\ expire[c] = "find"
  /\ \/ /\ c \in present \ online
        /\ tokens' = tokens \ {c}
        /\ ExpireGoes(c, "remove")
        /\ IF BackAlready(c) THEN UNCHANGED left ELSE NoteGone(c)
     \/ /\ c \notin present \ online
        /\ ExpireGoes(c, "idle")
        /\ UNCHANGED <<tokens, left>>
  /\ UNCHANGED <<present, online, timerVars>>

RemoveExpired(c) ==
  /\ expire[c] = "remove"
  /\ RemoveRow(c)
  /\ ExpireGoes(c, "idle")
  /\ UNCHANGED <<tokens, timerVars, left>>

-------------------------------------------------------------------------------
(* The host: kickPlayerByRoom(), in the lobby only, and startGame() *)

KickGoes(c, at) ==
  /\ kick' = [kick EXCEPT ![c] = at]
  /\ UNCHANGED <<used, join, leave, expire, status, drops, hasty>>

\* The room is read; a game that starts from now on does not stop the kick.
AskKick(c) ==
  /\ InLobby
  /\ kick[c] = "idle" /\ c \in used
  /\ KickGoes(c, "find")
  /\ UNCHANGED <<registryVars, socket, present, online, tokens, timerVars, left>>

\* The player has a row: its socket, its token and its timer go at once.
Kick(c) ==
  /\ kick[c] = "find"
  /\ c \in present
  /\ \/ /\ SocketsByClientId(c) = {}
        /\ UNCHANGED <<registryVars, socket>>
     \/ \E s \in SocketsByClientId(c) :
          /\ socket' = [socket EXCEPT ![s] = "closed"]
          /\ Unregister(s)
  /\ tokens' = tokens \ {c}
  /\ ClearTimer(c)
  /\ KickGoes(c, "remove")
  /\ NoteGone(c)
  /\ UNCHANGED <<present, online>>

KickNobody(c) ==
  /\ kick[c] = "find"
  /\ c \notin present
  /\ KickGoes(c, "idle")
  /\ UNCHANGED <<registryVars, socket, present, online, tokens, timerVars, left>>

RemoveKicked(c) ==
  /\ kick[c] = "remove"
  /\ RemoveRow(c)
  /\ KickGoes(c, "idle")
  /\ UNCHANGED <<registryVars, socket, tokens, timerVars, left>>

StatusGoes(new) ==
  /\ status' = new
  /\ UNCHANGED <<registryVars, socket, tableVars, tokens, timerVars, callVars>>
  /\ UNCHANGED <<drops, left, hasty>>

\* The roster is counted before the room is saved as ACTIVE.
CountPlayers ==
  /\ status = "lobby"
  /\ Cardinality(online) >= MinPlayers
  /\ StatusGoes("counted")

StartGame ==
  /\ status = "counted"
  /\ StatusGoes("active")

-------------------------------------------------------------------------------
Resume(s) ==
  \/ FindRoom(s) \/ FindClient(s) \/ FindNobody(s) \/ ReadRoster(s) \/ Admit(s)
  \/ RemoveLeaver(s) \/ FindDropped(s) \/ SaveDropped(s) \/ ArmGrace(s)

ResumeExpiry(c) == GraceFires(c) \/ FindExpired(c) \/ RemoveExpired(c)

ResumeKick(c) == Kick(c) \/ KickNobody(c) \/ RemoveKicked(c)

Next ==
  \/ \E s \in Sockets :
       Resume(s) \/ Leave(s) \/ Drop(s) \/ \E c \in Clients : SendJoin(s, c)
  \/ \E c \in Clients : ResumeExpiry(c) \/ AskKick(c) \/ ResumeKick(c)
  \/ CountPlayers \/ StartGame

\* Queries come back and timeouts fire; nobody has to join, leave or drop.
Spec ==
  /\ Init /\ [][Next]_vars
  /\ \A s \in Sockets : WF_vars(Resume(s))
  /\ \A c \in Clients : WF_vars(ResumeExpiry(c)) /\ WF_vars(ResumeKick(c))

-------------------------------------------------------------------------------
(* Properties *)

\* Calls of c that are past a read of its row, or that will still arm a timer.
Handled(c) ==
  \/ Rejoining(c)
  \/ \E s \in Sockets : leave[s].at # "idle" /\ leave[s].client = c
  \/ expire[c] # "idle"
  \/ kick[c] = "remove"

(* handleDisconnect(), attemptReconnect(), expireGrace() and the kick set and
   clear one handle per player and save the same row, in any order: an offline
   player nobody is busy with always has a timeout that will fire, so its name
   and its place in the room are never taken for good. *)
OfflineHasTimer ==
  \A c \in present \ online : Handled(c) \/ pending[c] > 0

(* A player that left, was kicked or has expired is never registered again: its
   token goes before the next await, so a rejoin that still finds the row is
   refused (leaveClient, kickPlayerByRoom, expireGrace). *)
LeftForGood ==
  \A c \in left, s \in Sockets : membership[s] # InRoom(c)

(* The registry knows a closed socket only if it closed while its own join was
   in flight, when there was no membership for the disconnect to remove. *)
GhostsAreHasty ==
  \A s \in Sockets : Playing(s) /\ socket[s] = "closed" => s \in hasty

(* A player that is offline is removed or comes back in the end. *)
OfflineResolves ==
  \A c \in Clients : c \in present \ online ~> c \notin present \ online
===============================================================================
