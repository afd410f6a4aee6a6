--------------------------- MODULE GatewayProofs ---------------------------
(***************************************************************************)
(* Proofs about ConnectionRegistry and Gateway for every set of rooms,     *)
(* players and sockets.  First the registry under its own specification,   *)
(* any sequence of calls: the type invariant and MembershipBacked are      *)
(* inductive together, EntriesOwned relative to them.  Then the gateway:   *)
(* what it keeps for a socket ends with the socket, and its handlers use   *)
(* the registry as the registry's specification allows, so that what is    *)
(* proved of the registry holds behind the gateway.                        *)
(***************************************************************************)
EXTENDS Gateway, TLAPS

(* Identities are told apart by their fields. *)
LEMMA IdentitiesDiffer ==
  ASSUME NEW r \in Rooms, NEW q \in Rooms, NEW c \in Clients, NEW d \in Clients
  PROVE  /\ HostOf(r) # ClientOf(q, d)
         /\ HostOf(r) = HostOf(q) => r = q
         /\ ClientOf(r, c) = ClientOf(q, d) => r = q /\ c = d
         /\ HostOf(r) # NoMembership
         /\ ClientOf(r, c) # NoMembership
<1>1. /\ HostOf(r).role = "host" /\ HostOf(r).room = r
      /\ HostOf(q).room = q
      /\ ClientOf(q, d).role = "client" /\ ClientOf(q, d).room = q
      /\ ClientOf(q, d).client = d
      /\ ClientOf(r, c).role = "client" /\ ClientOf(r, c).room = r
      /\ ClientOf(r, c).client = c
      /\ NoMembership.role = "none"
  BY DEF HostOf, ClientOf, NoMembership
<1>2. "host" # "client" /\ "host" # "none" /\ "client" # "none"
  OBVIOUS
<1>3. QED
  BY <1>1, <1>2

(* A membership is a host's, a player's or none, and says which. *)
LEMMA MembershipCases ==
  ASSUME RegistryTypeOK, NEW s \in Sockets
  PROVE  \/ membership[s] = NoMembership
         \/ \E r \in Rooms : membership[s] = HostOf(r)
         \/ \E r \in Rooms, c \in Clients : membership[s] = ClientOf(r, c)
BY DEF RegistryTypeOK, Memberships

LEMMA HostRole ==
  ASSUME RegistryTypeOK, NEW s \in Sockets, membership[s].role = "host"
  PROVE  /\ membership[s].room \in Rooms
         /\ membership[s] = HostOf(membership[s].room)
<1>1. CASE membership[s] = NoMembership
  BY <1>1 DEF NoMembership
<1>2. CASE \E r \in Rooms : membership[s] = HostOf(r)
  BY <1>2 DEF HostOf
<1>3. CASE \E r \in Rooms, c \in Clients : membership[s] = ClientOf(r, c)
  BY <1>3 DEF ClientOf
<1>4. QED
  BY <1>1, <1>2, <1>3, MembershipCases

LEMMA ClientRole ==
  ASSUME RegistryTypeOK, NEW s \in Sockets, membership[s].role = "client"
  PROVE  /\ membership[s].room \in Rooms
         /\ membership[s].client \in Clients
         /\ membership[s] = ClientOf(membership[s].room, membership[s].client)
<1>1. CASE membership[s] = NoMembership
  BY <1>1 DEF NoMembership
<1>2. CASE \E r \in Rooms : membership[s] = HostOf(r)
  BY <1>2 DEF HostOf
<1>3. CASE \E r \in Rooms, c \in Clients : membership[s] = ClientOf(r, c)
  BY <1>3 DEF ClientOf
<1>4. QED
  BY <1>1, <1>2, <1>3, MembershipCases

----------------------------------------------------------------------------
LEMMA TypeInit == RegistryInit => RegistryTypeOK
BY DEF RegistryInit, RegistryTypeOK

LEMMA TypeStep == RegistryTypeOK /\ [RegistryNext]_registryVars => RegistryTypeOK'
<1>1. SUFFICES ASSUME RegistryTypeOK, [RegistryNext]_registryVars
               PROVE  RegistryTypeOK'
  OBVIOUS
<1>2. ASSUME NEW s \in Sockets, NEW r \in Rooms, RegisterHost(r, s)
      PROVE  RegistryTypeOK'
  <2>1. HostOf(r) \in Memberships
    BY DEF Memberships
  <2>2. membership' \in [Sockets -> Memberships \cup {NoMembership}]
    BY <1>1, <1>2, <2>1 DEF RegisterHost, Displace, RegistryTypeOK
  <2>3. QED
    BY <1>1, <1>2, <2>2 DEF RegisterHost, NoteReuse, RegistryTypeOK
<1>3. ASSUME NEW s \in Sockets, NEW r \in Rooms, NEW c \in Clients,
             RegisterClient(r, c, s)
      PROVE  RegistryTypeOK'
  <2>1. ClientOf(r, c) \in Memberships
    BY DEF Memberships
  <2>2. membership' \in [Sockets -> Memberships \cup {NoMembership}]
    BY <1>1, <1>3, <2>1 DEF RegisterClient, Displace, RegistryTypeOK
  <2>3. clients' \in [Rooms -> [Clients -> Sockets \cup {None}]]
    BY <1>1, <1>3 DEF RegisterClient, RegistryTypeOK
  <2>4. QED
    BY <1>1, <1>3, <2>2, <2>3 DEF RegisterClient, NoteReuse, RegistryTypeOK
<1>4. ASSUME NEW s \in Sockets, Unregister(s)
      PROVE  RegistryTypeOK'
  <2>1. membership' \in [Sockets -> Memberships \cup {NoMembership}]
    BY <1>1, <1>4 DEF Unregister, RegistryTypeOK
  <2>2. CASE UnregisterHost(s)
    BY <1>1, <1>4, <2>1, <2>2 DEF Unregister, UnregisterHost, RegistryTypeOK
  <2>3. CASE UnregisterClient(s)
    BY <1>1, <1>4, <2>1, <2>3 DEF Unregister, UnregisterClient, RegistryTypeOK
  <2>4. QED
    BY <1>4, <2>2, <2>3 DEF Unregister
<1>5. CASE UNCHANGED registryVars
  BY <1>1, <1>5 DEF registryVars, RegistryTypeOK
<1>6. QED
  BY <1>1, <1>2, <1>3, <1>4, <1>5 DEF RegistryNext

(* Every map and every membership always holds what its declaration says. *)
THEOREM RegistryTypeCorrect == RegistrySpec => []RegistryTypeOK
BY TypeInit, TypeStep, PTL DEF RegistrySpec
----------------------------------------------------------------------------
LEMMA BackedInit == RegistryInit => MembershipBacked
<1>1. ASSUME NEW r \in Rooms, NEW c \in Clients
      PROVE  NoMembership # HostOf(r) /\ NoMembership # ClientOf(r, c)
  BY IdentitiesDiffer
<1>2. ASSUME NEW r \in Rooms PROVE NoMembership # HostOf(r)
  BY DEF NoMembership, HostOf
<1>3. QED
  BY <1>1, <1>2 DEF RegistryInit, MembershipBacked

(* A registration takes the identity m away from the socket that held it, so
   the new owner is the only socket that claims m. *)
LEMMA DisplaceEffect ==
  ASSUME RegistryTypeOK, NEW s \in Sockets, NEW m, NEW previous,
         membership' = Displace(previous, s, m)
  PROVE  /\ membership'[s] = m
         /\ \A t \in Sockets \ {s} :
               membership'[t] = IF t = previous THEN NoMembership ELSE membership[t]
BY DEF Displace, RegistryTypeOK

LEMMA BackedStep ==
  RegistryTypeOK /\ MembershipBacked /\ [RegistryNext]_registryVars => MembershipBacked'
<1>1. SUFFICES ASSUME RegistryTypeOK, MembershipBacked, [RegistryNext]_registryVars
               PROVE  MembershipBacked'
  OBVIOUS
<1>2. ASSUME NEW s \in Sockets, NEW r \in Rooms, RegisterHost(r, s)
      PROVE  MembershipBacked'
  <2>1. /\ membership'[s] = HostOf(r)
        /\ \A t \in Sockets \ {s} :
              membership'[t] = IF t = hosts[r] THEN NoMembership ELSE membership[t]
    BY <1>1, <1>2, DisplaceEffect DEF RegisterHost
  <2>2. /\ hosts'[r] = s
        /\ \A q \in Rooms \ {r} : hosts'[q] = hosts[q]
        /\ clients' = clients
    BY <1>1, <1>2 DEF RegisterHost, RegistryTypeOK
  <2>3. ASSUME NEW t \in Sockets, NEW q \in Rooms, membership'[t] = HostOf(q)
        PROVE  hosts'[q] = t
    <3>1. CASE t = s
      <4>1. q = r
        BY <2>1, <2>3, <3>1 DEF HostOf
      <4>2. QED
        BY <2>2, <3>1, <4>1
    <3>2. CASE t # s
      <4>1. NoMembership # HostOf(q)
        BY DEF NoMembership, HostOf
      <4>2. t # hosts[r] /\ membership[t] = HostOf(q)
        BY <2>1, <2>3, <3>2, <4>1
      <4>3. hosts[q] = t
        BY <1>1, <4>2 DEF MembershipBacked
      <4>4. QED
        BY <2>2, <4>2, <4>3
    <3>3. QED
      BY <3>1, <3>2
  <2>4. ASSUME NEW t \in Sockets, NEW q \in Rooms, NEW c \in Clients,
               membership'[t] = ClientOf(q, c)
        PROVE  clients'[q][c] = t
    <3>1. t # s /\ membership[t] = ClientOf(q, c)
      BY <2>1, <2>4, IdentitiesDiffer
    <3>2. QED
      BY <1>1, <2>2, <3>1 DEF MembershipBacked
  <2>5. QED
    BY <2>3, <2>4 DEF MembershipBacked
<1>3. ASSUME NEW s \in Sockets, NEW r \in Rooms, NEW c \in Clients,
             RegisterClient(r, c, s)
      PROVE  MembershipBacked'
  <2>1. /\ membership'[s] = ClientOf(r, c)
        /\ \A t \in Sockets \ {s} :
              membership'[t] = IF t = clients[r][c] THEN NoMembership ELSE membership[t]
    BY <1>1, <1>3, DisplaceEffect DEF RegisterClient
  <2>2. /\ clients'[r][c] = s
        /\ \A q \in Rooms, d \in Clients :
              q # r \/ d # c => clients'[q][d] = clients[q][d]
        /\ hosts' = hosts
    BY <1>1, <1>3 DEF RegisterClient, RegistryTypeOK
  <2>3. ASSUME NEW t \in Sockets, NEW q \in Rooms, membership'[t] = HostOf(q)
        PROVE  hosts'[q] = t
    <3>1. HostOf(q) # ClientOf(r, c) /\ HostOf(q) # NoMembership
      BY IdentitiesDiffer
    <3>2. membership[t] = HostOf(q)
      BY <2>1, <2>3, <3>1
    <3>3. QED
      BY <1>1, <2>2, <3>2 DEF MembershipBacked
  <2>4. ASSUME NEW t \in Sockets, NEW q \in Rooms, NEW d \in Clients,
               membership'[t] = ClientOf(q, d)
        PROVE  clients'[q][d] = t
    <3>1. CASE t = s
      <4>1. q = r /\ d = c
        BY <2>1, <2>4, <3>1, IdentitiesDiffer
      <4>2. QED
        BY <2>2, <3>1, <4>1
    <3>2. CASE t # s
      <4>1. NoMembership # ClientOf(q, d)
        BY IdentitiesDiffer
      <4>2. t # clients[r][c] /\ membership[t] = ClientOf(q, d)
        BY <2>1, <2>4, <3>2, <4>1
      <4>3. clients[q][d] = t
        BY <1>1, <4>2 DEF MembershipBacked
      <4>4. QED
        BY <2>2, <4>2, <4>3
    <3>3. QED
      BY <3>1, <3>2
  <2>5. QED
    BY <2>3, <2>4 DEF MembershipBacked
<1>4. ASSUME NEW s \in Sockets, Unregister(s)
      PROVE  MembershipBacked'
  <2>1. /\ membership'[s] = NoMembership
        /\ \A t \in Sockets \ {s} : membership'[t] = membership[t]
    BY <1>1, <1>4 DEF Unregister, RegistryTypeOK
  <2>2. ASSUME NEW t \in Sockets, NEW q \in Rooms, membership'[t] = HostOf(q)
        PROVE  hosts'[q] = t
    <3>1. NoMembership # HostOf(q)
      BY DEF NoMembership, HostOf
    <3>2. t # s /\ hosts[q] = t
      BY <1>1, <2>1, <2>2, <3>1 DEF MembershipBacked
    <3>3. QED
      BY <1>1, <1>4, <3>2 DEF Unregister, UnregisterHost, UnregisterClient, RegistryTypeOK
  <2>3. ASSUME NEW t \in Sockets, NEW q \in Rooms, NEW d \in Clients,
               membership'[t] = ClientOf(q, d)
        PROVE  clients'[q][d] = t
    <3>1. NoMembership # ClientOf(q, d)
      BY IdentitiesDiffer
    <3>2. t # s /\ clients[q][d] = t
      BY <1>1, <2>1, <2>3, <3>1 DEF MembershipBacked
    <3>3. CASE UnregisterHost(s)
      BY <3>2, <3>3 DEF UnregisterHost
    <3>4. CASE UnregisterClient(s)
      <4>1. /\ membership[s].room \in Rooms /\ membership[s].client \in Clients
            /\ membership[s] = ClientOf(membership[s].room, membership[s].client)
        BY <1>1, <3>4, ClientRole DEF UnregisterClient
      <4>2. clients[membership[s].room][membership[s].client] = s
        BY <1>1, <4>1 DEF MembershipBacked
      <4>3. q # membership[s].room \/ d # membership[s].client
        BY <3>2, <4>2
      <4>4. QED
        BY <1>1, <3>2, <3>4, <4>1, <4>3 DEF UnregisterClient, RegistryTypeOK
    <3>5. QED
      BY <1>4, <3>3, <3>4 DEF Unregister
  <2>4. QED
    BY <2>2, <2>3 DEF MembershipBacked
<1>5. CASE UNCHANGED registryVars
  BY <1>1, <1>5 DEF registryVars, MembershipBacked
<1>6. QED
  BY <1>1, <1>2, <1>3, <1>4, <1>5 DEF RegistryNext

(* Whatever the order of registrations, a socket that holds a membership is the
   socket the room's maps hold for it: getSocketByClientId and the room
   broadcast agree, and unregister() can delete by client id. *)
THEOREM RegistryBacked == RegistrySpec => []MembershipBacked
<1>1. RegistrySpec => []RegistryTypeOK
  BY RegistryTypeCorrect
<1>2. QED
  BY <1>1, BackedInit, BackedStep, PTL DEF RegistrySpec
----------------------------------------------------------------------------
(* What EntriesOwned says of the two maps, without the history variable. *)
HostsOwned == \A r \in Rooms : hosts[r] # None => membership[hosts[r]] = HostOf(r)

ClientsOwned ==
  \A r \in Rooms, c \in Clients :
     clients[r][c] # None => membership[clients[r][c]] = ClientOf(r, c)

LEMMA OwnedInit == RegistryInit => EntriesOwned
BY DEF RegistryInit, EntriesOwned

(* A registration of a socket that was nothing else, or already that identity,
   leaves the owner of every other entry alone. *)
LEMMA RegisterHostOwned ==
  ASSUME RegistryTypeOK, HostsOwned, ClientsOwned,
         NEW s \in Sockets, NEW r \in Rooms, RegisterHost(r, s), ~reused'
  PROVE  HostsOwned' /\ ClientsOwned'
<1>1. /\ membership'[s] = HostOf(r)
      /\ \A t \in Sockets \ {s} :
            membership'[t] = IF t = hosts[r] THEN NoMembership ELSE membership[t]
  BY DisplaceEffect DEF RegisterHost
<1>2. /\ hosts'[r] = s
      /\ \A q \in Rooms \ {r} : hosts'[q] = hosts[q]
      /\ clients' = clients
  BY DEF RegisterHost, RegistryTypeOK
<1>3. membership[s] \in {HostOf(r), NoMembership}
  BY DEF RegisterHost, NoteReuse
<1>4. ASSUME NEW q \in Rooms, hosts'[q] # None
      PROVE  membership'[hosts'[q]] = HostOf(q)
  <2>1. CASE q = r
    BY <1>1, <1>2, <2>1
  <2>2. CASE q # r
    <3>1. hosts[q] \in Sockets /\ membership[hosts[q]] = HostOf(q)
      BY <1>2, <1>4, <2>2 DEF HostsOwned, RegistryTypeOK
    <3>2. HostOf(q) # HostOf(r) /\ HostOf(q) # NoMembership
      BY <2>2 DEF HostOf, NoMembership
    <3>3. hosts[q] # s
      BY <1>3, <3>1, <3>2
    <3>4. hosts[q] # hosts[r]
      BY <3>1, <3>2, NoneAssumption DEF HostsOwned
    <3>5. QED
      BY <1>1, <1>2, <2>2, <3>1, <3>3, <3>4
  <2>3. QED
    BY <2>1, <2>2
<1>5. ASSUME NEW q \in Rooms, NEW c \in Clients, clients'[q][c] # None
      PROVE  membership'[clients'[q][c]] = ClientOf(q, c)
  <2>1. clients[q][c] \in Sockets /\ membership[clients[q][c]] = ClientOf(q, c)
    BY <1>2, <1>5 DEF ClientsOwned, RegistryTypeOK
  <2>2. ClientOf(q, c) # HostOf(r) /\ ClientOf(q, c) # NoMembership
    BY IdentitiesDiffer
  <2>3. clients[q][c] # s
    BY <1>3, <2>1, <2>2
  <2>4. clients[q][c] # hosts[r]
    BY <2>1, <2>2, NoneAssumption DEF HostsOwned
  <2>5. QED
    BY <1>1, <1>2, <2>1, <2>3, <2>4
<1>6. QED
  BY <1>4, <1>5 DEF HostsOwned, ClientsOwned

LEMMA RegisterClientOwned ==
  ASSUME RegistryTypeOK, HostsOwned, ClientsOwned,
         NEW s \in Sockets, NEW r \in Rooms, NEW c \in Clients,
         RegisterClient(r, c, s), ~reused'
  PROVE  HostsOwned' /\ ClientsOwned'
<1>1. /\ membership'[s] = ClientOf(r, c)
      /\ \A t \in Sockets \ {s} :
            membership'[t] = IF t = clients[r][c] THEN NoMembership ELSE membership[t]
  BY DisplaceEffect DEF RegisterClient
<1>2. /\ clients'[r][c] = s
      /\ \A q \in Rooms, d \in Clients :
            q # r \/ d # c => clients'[q][d] = clients[q][d]
      /\ hosts' = hosts
  BY DEF RegisterClient, RegistryTypeOK
<1>3. membership[s] \in {ClientOf(r, c), NoMembership}
  BY DEF RegisterClient, NoteReuse
<1>4. ASSUME NEW q \in Rooms, hosts'[q] # None
      PROVE  membership'[hosts'[q]] = HostOf(q)
  <2>1. hosts[q] \in Sockets /\ membership[hosts[q]] = HostOf(q)
    BY <1>2, <1>4 DEF HostsOwned, RegistryTypeOK
  <2>2. HostOf(q) # ClientOf(r, c) /\ HostOf(q) # NoMembership
    BY IdentitiesDiffer
  <2>3. hosts[q] # s
    BY <1>3, <2>1, <2>2
  <2>4. hosts[q] # clients[r][c]
    BY <2>1, <2>2, NoneAssumption DEF ClientsOwned
  <2>5. QED
    BY <1>1, <1>2, <2>1, <2>3, <2>4
<1>5. ASSUME NEW q \in Rooms, NEW d \in Clients, clients'[q][d] # None
      PROVE  membership'[clients'[q][d]] = ClientOf(q, d)
  <2>1. CASE q = r /\ d = c
    BY <1>1, <1>2, <2>1
  <2>2. CASE q # r \/ d # c
    <3>1. clients[q][d] \in Sockets /\ membership[clients[q][d]] = ClientOf(q, d)
      BY <1>2, <1>5, <2>2 DEF ClientsOwned, RegistryTypeOK
    <3>2. ClientOf(q, d) # ClientOf(r, c) /\ ClientOf(q, d) # NoMembership
      BY <2>2, IdentitiesDiffer
    <3>3. clients[q][d] # s
      BY <1>3, <3>1, <3>2
    <3>4. clients[q][d] # clients[r][c]
      BY <3>1, <3>2, NoneAssumption DEF ClientsOwned
    <3>5. QED
      BY <1>1, <1>2, <2>2, <3>1, <3>3, <3>4
  <2>3. QED
    BY <2>1, <2>2
<1>6. QED
  BY <1>4, <1>5 DEF HostsOwned, ClientsOwned

LEMMA UnregisterOwned ==
  ASSUME RegistryTypeOK, MembershipBacked, HostsOwned, ClientsOwned,
         NEW s \in Sockets, Unregister(s)
  PROVE  HostsOwned' /\ ClientsOwned'
<1>1. /\ membership'[s] = NoMembership
      /\ \A t \in Sockets \ {s} : membership'[t] = membership[t]
  BY DEF Unregister, RegistryTypeOK
<1>2. CASE UnregisterHost(s)
  <2>1. /\ membership[s].room \in Rooms
        /\ membership[s] = HostOf(membership[s].room)
    BY <1>2, HostRole DEF UnregisterHost
  <2>2. hosts[membership[s].room] = s
    BY <2>1 DEF MembershipBacked
  <2>3. /\ hosts'[membership[s].room] = None
        /\ \A q \in Rooms \ {membership[s].room} : hosts'[q] = hosts[q]
        /\ clients' = clients
    BY <1>2, <2>1, <2>2 DEF UnregisterHost, RegistryTypeOK
  <2>4. ASSUME NEW q \in Rooms, hosts'[q] # None
        PROVE  membership'[hosts'[q]] = HostOf(q)
    <3>1. /\ q # membership[s].room /\ hosts'[q] = hosts[q]
          /\ hosts[q] \in Sockets /\ membership[hosts[q]] = HostOf(q)
      BY <2>3, <2>4 DEF HostsOwned, RegistryTypeOK
    <3>2. HostOf(q) # HostOf(membership[s].room)
      BY <3>1 DEF HostOf
    <3>3. QED
      BY <1>1, <2>1, <3>1, <3>2
  <2>5. ASSUME NEW q \in Rooms, NEW c \in Clients, clients'[q][c] # None
        PROVE  membership'[clients'[q][c]] = ClientOf(q, c)
    <3>1. clients[q][c] \in Sockets /\ membership[clients[q][c]] = ClientOf(q, c)
      BY <2>3, <2>5 DEF ClientsOwned, RegistryTypeOK
    <3>2. ClientOf(q, c) # HostOf(membership[s].room)
      BY <2>1, IdentitiesDiffer
    <3>3. QED
      BY <1>1, <2>1, <2>3, <3>1, <3>2
  <2>6. QED
    BY <2>4, <2>5 DEF HostsOwned, ClientsOwned
<1>3. CASE UnregisterClient(s)
  <2>1. /\ membership[s].room \in Rooms /\ membership[s].client \in Clients
        /\ membership[s] = ClientOf(membership[s].room, membership[s].client)
    BY <1>3, ClientRole DEF UnregisterClient
  <2>2. /\ clients'[membership[s].room][membership[s].client] = None
        /\ \A q \in Rooms, d \in Clients :
              q # membership[s].room \/ d # membership[s].client
                => clients'[q][d] = clients[q][d]
        /\ hosts' = hosts
    BY <1>3, <2>1 DEF UnregisterClient, RegistryTypeOK
  <2>3. ASSUME NEW q \in Rooms, hosts'[q] # None
        PROVE  membership'[hosts'[q]] = HostOf(q)
    <3>1. hosts[q] \in Sockets /\ membership[hosts[q]] = HostOf(q)
      BY <2>2, <2>3 DEF HostsOwned, RegistryTypeOK
    <3>2. HostOf(q) # ClientOf(membership[s].room, membership[s].client)
      BY <2>1, IdentitiesDiffer
    <3>3. QED
      BY <1>1, <2>1, <2>2, <3>1, <3>2
  <2>4. ASSUME NEW q \in Rooms, NEW d \in Clients, clients'[q][d] # None
        PROVE  membership'[clients'[q][d]] = ClientOf(q, d)
    <3>1. /\ q # membership[s].room \/ d # membership[s].client
          /\ clients'[q][d] = clients[q][d]
          /\ clients[q][d] \in Sockets /\ membership[clients[q][d]] = ClientOf(q, d)
      BY <2>2, <2>4 DEF ClientsOwned, RegistryTypeOK
    <3>2. ClientOf(q, d) # ClientOf(membership[s].room, membership[s].client)
      BY <2>1, <3>1, IdentitiesDiffer
    <3>3. QED
      BY <1>1, <2>1, <3>1, <3>2
  <2>5. QED
    BY <2>3, <2>4 DEF HostsOwned, ClientsOwned
<1>4. QED
  BY <1>2, <1>3 DEF Unregister

LEMMA OwnedStep ==
  RegistryTypeOK /\ MembershipBacked /\ EntriesOwned /\ [RegistryNext]_registryVars
    => EntriesOwned'
<1>1. SUFFICES ASSUME RegistryTypeOK, MembershipBacked, EntriesOwned,
                      [RegistryNext]_registryVars, ~reused'
               PROVE  HostsOwned' /\ ClientsOwned'
  BY DEF EntriesOwned, HostsOwned, ClientsOwned
<1>2. ~reused
  BY <1>1 DEF RegistryNext, registryVars, RegisterHost, RegisterClient, Unregister,
              NoteReuse, RegistryTypeOK
<1>3. HostsOwned /\ ClientsOwned
  BY <1>1, <1>2 DEF EntriesOwned, HostsOwned, ClientsOwned
<1>4. CASE UNCHANGED registryVars
  BY <1>3, <1>4 DEF registryVars, HostsOwned, ClientsOwned
<1>5. QED
  BY <1>1, <1>3, <1>4, RegisterHostOwned, RegisterClientOwned, UnregisterOwned
  DEF RegistryNext

(* Without a socket registered twice, the registry holds no ghost: every entry's
   socket will clean it up when it disconnects. *)
THEOREM RegistryOwned == RegistrySpec => []EntriesOwned
<1>1. RegistrySpec => []RegistryTypeOK
  BY RegistryTypeCorrect
<1>2. RegistrySpec => []MembershipBacked
  BY RegistryBacked
<1>3. QED
  BY <1>1, <1>2, OwnedInit, OwnedStep, PTL DEF RegistrySpec

----------------------------------------------------------------------------
LEMMA OnlyOwnerRemovesStep ==
  ASSUME RegistryTypeOK, MembershipBacked, [RegistryNext]_registryVars
  PROVE  [\A r \in Rooms, c \in Clients :
            clients[r][c] # None /\ clients'[r][c] = None
              => /\ membership[clients[r][c]] = ClientOf(r, c)
                 /\ \A s \in Sockets :
                       membership'[s] # membership[s] <=> s = clients[r][c]]_registryVars
<1> DEFINE Owner(r, c) ==
             /\ membership[clients[r][c]] = ClientOf(r, c)
             /\ \A s \in Sockets : membership'[s] # membership[s] <=> s = clients[r][c]
<1>1. SUFFICES ASSUME RegistryNext, NEW r \in Rooms, NEW c \in Clients,
                      clients[r][c] # None, clients'[r][c] = None
               PROVE  Owner(r, c)
  OBVIOUS
<1>2. ASSUME NEW s \in Sockets, NEW q \in Rooms, RegisterHost(q, s)
      PROVE  FALSE
  BY <1>1, <1>2 DEF RegisterHost
<1>3. ASSUME NEW s \in Sockets, NEW q \in Rooms, NEW d \in Clients,
             RegisterClient(q, d, s)
      PROVE  FALSE
  BY <1>1, <1>3, NoneAssumption DEF RegisterClient, RegistryTypeOK
<1>4. ASSUME NEW s \in Sockets, Unregister(s)
      PROVE  Owner(r, c)
  <2>1. UnregisterClient(s)
    BY <1>1, <1>4 DEF Unregister, UnregisterHost
  <2>2. /\ membership[s].room \in Rooms /\ membership[s].client \in Clients
        /\ membership[s] = ClientOf(membership[s].room, membership[s].client)
    BY <2>1, ClientRole DEF UnregisterClient
  <2>3. r = membership[s].room /\ c = membership[s].client
    BY <1>1, <2>1, <2>2 DEF UnregisterClient, RegistryTypeOK
  <2>4. clients[r][c] = s
    BY <2>2, <2>3 DEF MembershipBacked
  <2>5. membership[s] # NoMembership
    BY <2>1 DEF UnregisterClient, NoMembership
  <2>6. \A t \in Sockets : membership'[t] # membership[t] <=> t = s
    BY <1>4, <2>5 DEF Unregister, RegistryTypeOK
  <2>7. QED
    BY <2>2, <2>3, <2>4, <2>6
<1>5. QED
  BY <1>1, <1>2, <1>3, <1>4 DEF RegistryNext

(* A player's entry is dropped only when the socket stored in it unregisters, never
   by a displaced one: MembershipBacked makes the socket that unregisters the stored
   one. *)
THEOREM RegistryOnlyOwnerRemoves == RegistrySpec => OnlyOwnerRemoves
<1>1. RegistrySpec => []RegistryTypeOK
  BY RegistryTypeCorrect
<1>2. RegistrySpec => []MembershipBacked
  BY RegistryBacked
<1>3. QED
  BY <1>1, <1>2, OnlyOwnerRemovesStep, PTL DEF RegistrySpec, OnlyOwnerRemoves
-------------------------------------------------------------------------------
(* The gateway. *)

ConnStates == {"none", "open", "closing", "gone"}

GatewayTypeOK ==
  /\ RegistryTypeOK
  /\ conn \in [Sockets -> ConnStates]
  /\ auth \in [Sockets -> Rooms \cup {None}]
  /\ tracked \subseteq Sockets /\ idle \subseteq Sockets

-------------------------------------------------------------------------------
(* Calls on the registry. *)

LEMMA GatewayCallsRegistry ==
  ASSUME GatewayTypeOK, [Next]_vars
  PROVE  [RegistryNext]_registryVars
<1>1. ASSUME NEW s \in Sockets, AnswerHost(s) PROVE [RegistryNext]_registryVars
  <2>1. auth[s] \in Rooms
    BY <1>1 DEF AnswerHost, GatewayTypeOK
  <2>2. QED
    BY <1>1, <2>1 DEF AnswerHost, RegistryNext
<1>2. ASSUME NEW s \in Sockets, AnswerJoin(s) PROVE [RegistryNext]_registryVars
  BY <1>2 DEF AnswerJoin, RegistryNext
<1>3. ASSUME NEW s \in Sockets, LeavePlayer(s) \/ CloseEvent(s)
      PROVE  [RegistryNext]_registryVars
  BY <1>3 DEF LeavePlayer, CloseEvent, RegistryNext
<1>4. ASSUME NEW s \in Sockets,
             \/ Connect(s) \/ JoinPlayer(s) \/ IdleTimer(s) \/ Pong(s) \/ Vanish(s)
             \/ Renew(s)
      PROVE  UNCHANGED registryVars
  BY <1>4 DEF Connect, JoinPlayer, IdleTimer, Pong, Vanish, Renew
<1>5. CASE Reap \/ UNCHANGED vars
  BY <1>5 DEF Reap, vars
<1>6. QED
  BY <1>1, <1>2, <1>3, <1>4, <1>5 DEF Next

LEMMA GatewayTypeKept ==
  ASSUME GatewayTypeOK, [Next]_vars
  PROVE  GatewayTypeOK'
<1>1. RegistryTypeOK'
  BY GatewayCallsRegistry, TypeStep DEF GatewayTypeOK
<1>2. /\ conn \in [Sockets -> ConnStates]
      /\ auth \in [Sockets -> Rooms \cup {None}]
      /\ tracked \subseteq Sockets /\ idle \subseteq Sockets
  BY DEF GatewayTypeOK
<1> DEFINE OthersOK == /\ conn' \in [Sockets -> ConnStates]
                       /\ auth' \in [Sockets -> Rooms \cup {None}]
                       /\ tracked' \subseteq Sockets /\ idle' \subseteq Sockets
<1>3. ASSUME NEW s \in Sockets, Connect(s) PROVE OthersOK
  BY <1>2, <1>3 DEF Connect, ConnStates
<1>4. ASSUME NEW s \in Sockets, AnswerHost(s) PROVE OthersOK
  BY <1>2, <1>4 DEF AnswerHost, ConnStates
<1>5. ASSUME NEW s \in Sockets,
             IdleTimer(s) \/ CloseEvent(s) \/ Renew(s)
      PROVE  OthersOK
  BY <1>2, <1>5 DEF IdleTimer, CloseEvent, Renew, ConnStates
<1>6. ASSUME NEW s \in Sockets,
             JoinPlayer(s) \/ AnswerJoin(s) \/ LeavePlayer(s) \/ Pong(s) \/ Vanish(s)
      PROVE  OthersOK
  BY <1>2, <1>6 DEF JoinPlayer, AnswerJoin, LeavePlayer, Pong, Vanish, socketVars
<1>7. ASSUME Reap PROVE OthersOK
  BY <1>2, <1>7 DEF Reap, ConnStates
<1>8. ASSUME UNCHANGED vars PROVE OthersOK
  BY <1>2, <1>8 DEF vars, socketVars
<1>9. OthersOK
  BY <1>3, <1>4, <1>5, <1>6, <1>7, <1>8 DEF Next
<1>10. QED
  BY <1>1, <1>9 DEF GatewayTypeOK

LEMMA GatewayInit ==
  Init => /\ GatewayTypeOK /\ RegistryInit
          /\ OnlyLateOnesAreGhosts /\ NothingOutlives
<1> SUFFICES ASSUME Init
             PROVE  /\ GatewayTypeOK /\ RegistryInit
                    /\ OnlyLateOnesAreGhosts /\ NothingOutlives
  OBVIOUS
<1>1. /\ RegistryInit /\ RegistryTypeOK
      /\ conn = [s \in Sockets |-> "none"] /\ auth = [s \in Sockets |-> None]
      /\ tracked = {} /\ idle = {}
  BY TypeInit DEF Init
<1>2. QED
  BY <1>1 DEF GatewayTypeOK, ConnStates, OnlyLateOnesAreGhosts, NothingOutlives

LEMMA GatewaySteps == FairSpec => Init /\ [][Next]_vars
BY PTL DEF FairSpec, Spec

LEMMA GatewayTyped == FairSpec => []GatewayTypeOK
<1>1. GatewayTypeOK /\ [Next]_vars => GatewayTypeOK'
  BY GatewayTypeKept
<1>2. QED
  BY <1>1, GatewayInit, GatewaySteps, PTL

(* The gateway calls the registry as the registry's specification allows: every
   theorem about RegistrySpec holds of the registry behind the gateway, with
   sockets that authenticate, join, are displaced and close in any order. *)
THEOREM GatewayKeepsRegistry == FairSpec => RegistrySpec
<1>1. GatewayTypeOK /\ [Next]_vars => [RegistryNext]_registryVars
  BY GatewayCallsRegistry
<1>2. QED
  BY <1>1, GatewayInit, GatewaySteps, GatewayTyped, PTL DEF RegistrySpec

(* Behind the gateway too, every membership is backed by the map entry it
   names, an entry is a ghost only after a socket was reused, and only the socket
   stored in a player's entry removes it. *)
THEOREM GatewayKeepsOwners ==
  FairSpec => /\ []MembershipBacked
              /\ []EntriesOwned
              /\ OnlyOwnerRemoves
BY GatewayKeepsRegistry, RegistryBacked, RegistryOwned, RegistryOnlyOwnerRemoves, PTL

-------------------------------------------------------------------------------
(* What outlives its socket. *)

\* A socket is registered by the answer to its own request.
LEMMA RegisteredMoves ==
  ASSUME GatewayTypeOK, [Next]_vars, NEW t \in Sockets, Registered(t)', ~Registered(t)
  PROVE  (AnswerHost(t) \/ AnswerJoin(t)) /\ late' = Belated(t)
<1>1. membership \in [Sockets -> Memberships \cup {NoMembership}]
  BY DEF GatewayTypeOK, RegistryTypeOK
<1>2. ASSUME NEW s \in Sockets, NEW m, NEW previous, s # t,
             membership' = Displace(previous, s, m)
      PROVE  FALSE
  BY <1>1, <1>2 DEF Displace, Registered
<1>3. ASSUME NEW s \in Sockets, Unregister(s) PROVE FALSE
  BY <1>1, <1>3 DEF Unregister, Registered
<1>4. ~UNCHANGED registryVars
  BY DEF registryVars, Registered
<1>5. ASSUME NEW s \in Sockets, AnswerHost(s)
      PROVE  s = t /\ late' = Belated(t)
  BY <1>2, <1>4, <1>5 DEF AnswerHost, RegisterHost
<1>6. ASSUME NEW s \in Sockets, AnswerJoin(s)
      PROVE  s = t /\ late' = Belated(t)
  BY <1>2, <1>4, <1>6 DEF AnswerJoin, RegisterClient
<1>7. ASSUME NEW s \in Sockets,
             \/ Connect(s) \/ JoinPlayer(s) \/ LeavePlayer(s) \/ IdleTimer(s)
             \/ Pong(s) \/ Vanish(s) \/ CloseEvent(s) \/ Renew(s)
      PROVE  FALSE
  BY <1>3, <1>4, <1>7 DEF Connect, JoinPlayer, LeavePlayer, IdleTimer, Pong, Vanish,
                          CloseEvent, Renew
<1>8. ~Reap /\ ~UNCHANGED vars
  BY <1>4 DEF Reap, vars
<1>9. QED
  BY <1>5, <1>6, <1>7, <1>8 DEF Next

\* A socket goes in its own close event, which leaves nothing registered,
\* tracked or timed.
LEMMA GoneMoves ==
  ASSUME GatewayTypeOK, [Next]_vars, NEW t \in Sockets,
         conn'[t] = "gone", conn[t] # "gone"
  PROVE  CloseEvent(t) /\ ~Registered(t)' /\ t \notin tracked' \cup idle'
<1>1. /\ conn \in [Sockets -> ConnStates]
      /\ membership \in [Sockets -> Memberships \cup {NoMembership}]
  BY DEF GatewayTypeOK, RegistryTypeOK
<1>2. ASSUME NEW s \in Sockets, CloseEvent(s) PROVE s = t
  BY <1>1, <1>2 DEF CloseEvent
<1>3. ASSUME NEW s \in Sockets,
             \/ Connect(s) \/ AnswerHost(s) \/ JoinPlayer(s) \/ AnswerJoin(s)
             \/ LeavePlayer(s) \/ IdleTimer(s) \/ Pong(s) \/ Vanish(s) \/ Renew(s)
      PROVE  FALSE
  <2>1. CASE Connect(s) \/ AnswerHost(s)
    BY <1>1, <2>1 DEF Connect, AnswerHost
  <2>2. CASE IdleTimer(s) \/ Renew(s)
    BY <1>1, <2>2 DEF IdleTimer, Renew
  <2>3. CASE JoinPlayer(s) \/ AnswerJoin(s) \/ LeavePlayer(s) \/ Pong(s) \/ Vanish(s)
    BY <2>3 DEF JoinPlayer, AnswerJoin, LeavePlayer, Pong, Vanish, socketVars
  <2>4. QED
    BY <1>3, <2>1, <2>2, <2>3
<1>4. ~Reap /\ ~UNCHANGED vars
  BY <1>1 DEF Reap, vars, socketVars
<1>5. CloseEvent(t)
  BY <1>2, <1>3, <1>4 DEF Next
<1>6. ~Registered(t)'
  <2>1. Unregister(t) => membership'[t] = NoMembership
    BY <1>1 DEF Unregister
  <2>2. QED
    BY <1>5, <2>1 DEF CloseEvent, Registered, registryVars
<1>7. QED
  BY <1>5, <1>6 DEF CloseEvent

LEMMA GhostsKept ==
  ASSUME GatewayTypeOK, OnlyLateOnesAreGhosts, [Next]_vars
  PROVE  OnlyLateOnesAreGhosts'
<1> SUFFICES ASSUME NEW t \in Sockets, Registered(t)', conn'[t] = "gone"
             PROVE  t \in late'
  BY DEF OnlyLateOnesAreGhosts
<1>1. conn[t] = "gone"
  BY GoneMoves
<1>2. CASE ~Registered(t)
  BY <1>1, <1>2, RegisteredMoves DEF Belated
<1>3. CASE Registered(t)
  <2>1. t \in late
    BY <1>1, <1>3 DEF OnlyLateOnesAreGhosts
  <2>2. ASSUME NEW s \in Sockets, Renew(s) PROVE s # t
    BY <1>3, <2>2 DEF Renew
  <2>3. late \subseteq late' \/ \E s \in Sockets : Renew(s)
    BY DEF Next, Reap, Connect, AnswerHost, JoinPlayer, AnswerJoin, LeavePlayer,
           IdleTimer, Pong, Vanish, CloseEvent, Belated, vars, socketVars
  <2>4. QED
    BY <2>1, <2>2, <2>3 DEF Renew
<1>4. QED
  BY <1>2, <1>3

(* A registered socket that has gone is one whose own request was answered
   after its close: the disconnect removes every membership there is. *)
THEOREM GhostsAreLate == FairSpec => []OnlyLateOnesAreGhosts
<1>1. GatewayTypeOK /\ OnlyLateOnesAreGhosts /\ [Next]_vars => OnlyLateOnesAreGhosts'
  BY GhostsKept
<1>2. QED
  BY <1>1, GatewayInit, GatewaySteps, GatewayTyped, PTL

LEMMA OutlivesKept ==
  ASSUME GatewayTypeOK, NothingOutlives, [Next]_vars
  PROVE  NothingOutlives'
<1> SUFFICES ASSUME NEW t \in tracked' \cup idle'
             PROVE  conn'[t] \in {"open", "closing"}
  BY DEF NothingOutlives
<1>1. t \in Sockets /\ conn' \in [Sockets -> ConnStates]
  BY GatewayTypeKept DEF GatewayTypeOK
<1>2. conn \in [Sockets -> ConnStates]
  BY DEF GatewayTypeOK
<1>3. CASE t \notin tracked \cup idle
  <2>1. PICK s \in Sockets : Connect(s)
    BY <1>3 DEF Next, Reap, AnswerHost, JoinPlayer, AnswerJoin, LeavePlayer,
                IdleTimer, Pong, Vanish, CloseEvent, Renew, vars, socketVars
  <2>2. s = t /\ conn'[s] \in {"open", "closing"}
    BY <1>2, <1>3, <2>1 DEF Connect
  <2>3. QED
    BY <2>2
<1>4. CASE t \in tracked \cup idle
  <2>1. conn[t] \in {"open", "closing"}
    BY <1>4 DEF NothingOutlives
  <2>2. conn'[t] # "gone"
    BY <1>1, <2>1, GoneMoves
  <2>3. conn'[t] = "none" => \E s \in Sockets : Renew(s) /\ s = t
    <3> SUFFICES ASSUME conn'[t] = "none" PROVE \E s \in Sockets : Renew(s) /\ s = t
      OBVIOUS
    <3>1. ASSUME NEW s \in Sockets,
                 Connect(s) \/ AnswerHost(s) \/ IdleTimer(s) \/ CloseEvent(s)
          PROVE  FALSE
      BY <1>1, <1>2, <2>1, <3>1 DEF Connect, AnswerHost, IdleTimer, CloseEvent
    <3>2. ASSUME NEW s \in Sockets,
                 \/ JoinPlayer(s) \/ AnswerJoin(s) \/ LeavePlayer(s) \/ Pong(s)
                 \/ Vanish(s)
          PROVE  FALSE
      BY <2>1, <3>2 DEF JoinPlayer, AnswerJoin, LeavePlayer, Pong, Vanish, socketVars
    <3>3. ~Reap /\ ~UNCHANGED vars
      BY <1>1, <1>2, <2>1 DEF Reap, vars, socketVars
    <3>4. ASSUME NEW s \in Sockets, Renew(s) PROVE s = t
      BY <1>1, <1>2, <2>1, <3>4 DEF Renew
    <3>5. QED
      BY <3>1, <3>2, <3>3, <3>4 DEF Next
  <2>4. conn'[t] # "none"
    BY <2>1, <2>3 DEF Renew
  <2>5. QED
    BY <1>1, <2>2, <2>4 DEF ConnStates
<1>5. QED
  BY <1>3, <1>4

(* Neither the sweep nor an idle timer ever meets a socket that has gone. *)
THEOREM NothingIsLeft == FairSpec => []NothingOutlives
<1>1. GatewayTypeOK /\ NothingOutlives /\ [Next]_vars => NothingOutlives'
  BY OutlivesKept
<1>2. QED
  BY <1>1, GatewayInit, GatewaySteps, GatewayTyped, PTL
===============================================================================
