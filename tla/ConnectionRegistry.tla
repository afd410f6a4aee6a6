-------------------------- MODULE ConnectionRegistry --------------------------
(***************************************************************************)
(* The in-memory registry of live sockets (room/lobby/connection-          *)
(* registry.ts).  Three maps have to tell one story: which socket is a     *)
(* room's host, which socket is each player of a room, and what a socket   *)
(* is registered as.  Nothing in the gateway stops a socket that already   *)
(* has a membership from registering again, so the specification lets any  *)
(* socket register at any time.                                            *)
(*                                                                         *)
(* The module is used twice: alone, where Spec calls the operations in any *)
(* order, and inside LobbyMembership, whose handlers call the same         *)
(* operations as conjuncts of their own actions.                           *)
(***************************************************************************)
EXTENDS FiniteSets

CONSTANTS
  Rooms,    \* room ids
  Clients,  \* client (player) ids
  Sockets,  \* WebSocket objects
  None      \* absent map entry

ASSUME NoneAssumption == None \notin Rooms \cup Clients \cup Sockets

VARIABLES
  hosts,       \* _hosts: room -> socket
  clients,     \* _clients: room -> client -> socket
  membership,  \* _membership: socket -> what it is registered as
  reused       \* history: a socket was registered while it was something else

registryVars == <<hosts, clients, membership, reused>>

HostOf(r) == [role |-> "host", room |-> r, client |-> None]
ClientOf(r, c) == [role |-> "client", room |-> r, client |-> c]
NoMembership == [role |-> "none", room |-> None, client |-> None]

Memberships ==
  {HostOf(r) : r \in Rooms} \cup {ClientOf(r, c) : r \in Rooms, c \in Clients}

RegistryTypeOK ==
  /\ hosts \in [Rooms -> Sockets \cup {None}]
  /\ clients \in [Rooms -> [Clients -> Sockets \cup {None}]]
  /\ membership \in [Sockets -> Memberships \cup {NoMembership}]
  /\ reused \in BOOLEAN

RegistryInit ==
  /\ hosts = [r \in Rooms |-> None]
  /\ clients = [r \in Rooms |-> [c \in Clients |-> None]]
  /\ membership = [s \in Sockets |-> NoMembership]
  /\ reused = FALSE

----------------------------------------------------------------------------
\* getSocketByClientId scans _membership, not _clients.
SocketsByClientId(c) ==
  {s \in Sockets : membership[s].role = "client" /\ membership[s].client = c}

----------------------------------------------------------------------------
(* Operations *)

\* Slip: the displaced socket keeps its membership.
DisplaceKeepsPrevious(previous, s, m) == [membership EXCEPT ![s] = m]

\* The membership map after socket s takes the place of the socket "previous".
Displace(previous, s, m) ==
  [t \in Sockets |-> IF t = s THEN m
                     ELSE IF t = previous THEN NoMembership
                     ELSE membership[t]]

NoteReuse(s, m) == reused' = (reused \/ membership[s] \notin {m, NoMembership})

RegisterHost(r, s) ==
  /\ membership' = Displace(hosts[r], s, HostOf(r))
  /\ hosts' = [hosts EXCEPT ![r] = s]
  /\ NoteReuse(s, HostOf(r))
  /\ UNCHANGED clients

RegisterClient(r, c, s) ==
  /\ membership' = Displace(clients[r][c], s, ClientOf(r, c))
  /\ clients' = [clients EXCEPT ![r][c] = s]
  /\ NoteReuse(s, ClientOf(r, c))
  /\ UNCHANGED hosts

\* Slip: the host entry outlives its socket.
UnregisterHostKeepsEntry(s) ==
  /\ membership[s].role = "host"
  /\ UNCHANGED <<hosts, clients>>

UnregisterHost(s) ==
  LET m == membership[s] IN
  /\ m.role = "host"
  /\ hosts' = [hosts EXCEPT ![m.room] = IF @ = s THEN None ELSE @]
  /\ UNCHANGED clients

\* The client branch deletes by client id, whichever socket is stored there.
UnregisterClient(s) ==
  LET m == membership[s] IN
  /\ m.role = "client"
  /\ clients' = [clients EXCEPT ![m.room][m.client] = None]
  /\ UNCHANGED hosts

Unregister(s) ==
  /\ \/ UnregisterHost(s)
     \/ UnregisterClient(s)
  /\ membership' = [membership EXCEPT ![s] = NoMembership]
  /\ UNCHANGED reused

----------------------------------------------------------------------------
RegistryNext ==
  \E s \in Sockets :
     \/ \E r \in Rooms : RegisterHost(r, s)
     \/ \E r \in Rooms, c \in Clients : RegisterClient(r, c, s)
     \/ Unregister(s)

RegistrySpec == RegistryInit /\ [][RegistryNext]_registryVars

----------------------------------------------------------------------------
(* Every membership is backed by the map entry it names, whatever the order
   of registrations.  unregister() relies on it: its client branch deletes the
   entry without looking at the socket stored there, and a broadcast that walks
   the maps reaches every socket the gateway still serves. *)
MembershipBacked ==
  \A s \in Sockets :
     /\ \A r \in Rooms : membership[s] = HostOf(r) => hosts[r] = s
     /\ \A r \in Rooms, c \in Clients :
           membership[s] = ClientOf(r, c) => clients[r][c] = s

(* As long as no socket was registered under a second identity, the maps hold
   no ghosts: each entry's socket knows that it is that host or player, so its
   disconnect removes the entry.  A ghost entry is never removed and counts as
   a connected player for ever. *)
EntriesOwned ==
  \/ reused
  \/ /\ \A r \in Rooms : hosts[r] # None => membership[hosts[r]] = HostOf(r)
     /\ \A r \in Rooms, c \in Clients :
           clients[r][c] # None => membership[clients[r][c]] = ClientOf(r, c)

(* A player's entry disappears only when the socket stored in it is the one that
   unregisters.  unregister() deletes the entry of its client id whichever socket
   is stored there, so a displaced socket that had kept its membership would take
   its successor out of the room in its own late close event. *)
OnlyOwnerRemoves ==
  [][\A r \in Rooms, c \in Clients :
        clients[r][c] # None /\ clients'[r][c] = None
          => /\ membership[clients[r][c]] = ClientOf(r, c)
             /\ \A s \in Sockets :
                   membership'[s] # membership[s] <=> s = clients[r][c]]_registryVars

===============================================================================
