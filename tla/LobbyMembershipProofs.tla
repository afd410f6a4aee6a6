--------------------------- MODULE LobbyMembershipProofs ---------------------------
(***************************************************************************)
(* Proofs about LobbyMembership for every set of players and sockets and   *)
(* every bound.  The calls in flight are the hard part: each property      *)
(* needs to know what a call that has read the tables or the registry may  *)
(* still do, and for whom it does it.                                      *)
(***************************************************************************)
EXTENDS LobbyMembership, TLAPS

(* The strengthening: an id that is somewhere has been given to a join, and a
   socket is registered as nothing but a player of the room. *)
IdsAreUsed ==
  /\ tokens \subseteq used
  /\ \A s \in Sockets :
       /\ join[s].at # "idle" => join[s].client \in used
       /\ leave[s].at # "idle" => leave[s].client \in used
       /\ membership[s] # NoMembership =>
            /\ membership[s].client \in used
            /\ membership[s] = InRoom(membership[s].client)

-------------------------------------------------------------------------------
(* Calls on the registry. *)

LEMMA PlayerKnown ==
  ASSUME MembershipTypeOK, IdsAreUsed, NEW s \in Sockets, Playing(s)
  PROVE  /\ membership[s].client \in used /\ membership[s].client \in Clients
         /\ membership[s] = InRoom(membership[s].client)
BY DEF MembershipTypeOK, IdsAreUsed, Playing, NoMembership

\* Every step calls the registry as its own specification allows, or not at all.
LEMMA RegistryCalls ==
  ASSUME [Next]_vars
  PROVE  UNCHANGED registryVars \/ \E s \in Sockets : Admit(s) \/ Unregister(s)
<1>1. ASSUME NEW s \in Sockets,
             Resume(s) \/ Leave(s) \/ Drop(s) \/ \E c \in Clients : SendJoin(s, c)
      PROVE  UNCHANGED registryVars \/ Admit(s) \/ Unregister(s)
  BY <1>1
     DEF Resume, FindRoom, FindClient, FindNobody, ReadRoster, RemoveLeaver,
         FindDropped, SaveDropped, ArmGrace, DropGoes, Leave, Drop, SendJoin
<1>2. ASSUME NEW c \in Clients, ResumeExpiry(c) \/ AskKick(c) \/ ResumeKick(c)
      PROVE  UNCHANGED registryVars \/ \E s \in Sockets : Unregister(s)
  <2>1. CASE Kick(c)
    BY <2>1 DEF Kick, SocketsByClientId
  <2>2. CASE ~Kick(c)
    BY <1>2, <2>2
       DEF ResumeExpiry, GraceFires, FindExpired, RemoveExpired, ExpireGoes,
           AskKick, ResumeKick, KickNobody, RemoveKicked
  <2>3. QED
    BY <2>1, <2>2
<1>3. CASE CountPlayers \/ StartGame \/ UNCHANGED vars
  BY <1>3 DEF CountPlayers, StartGame, StatusGoes, vars
<1>4. QED
  BY <1>1, <1>2, <1>3 DEF Next

LEMMA LobbyCallsRegistry ==
  ASSUME MembershipTypeOK, IdsAreUsed, [Next]_vars
  PROVE  [RegistryNext]_registryVars
<1>1. ASSUME NEW s \in Sockets, Admit(s) PROVE RegistryNext
  <2>1. join[s].client \in Clients /\ Room \in Rooms
    BY <1>1, LobbyAssumption DEF Admit, MembershipTypeOK, IdsAreUsed
  <2>2. QED
    BY <1>1, <2>1 DEF Admit, RegistryNext
<1>2. ASSUME NEW s \in Sockets, Unregister(s) PROVE RegistryNext
  BY <1>2 DEF RegistryNext
<1>3. QED
  BY <1>1, <1>2, RegistryCalls

-------------------------------------------------------------------------------
(* The type invariant. *)


\* The conjuncts of MembershipTypeOK, by the variables they are about.
CallsTypeOK ==
  /\ join \in [Sockets -> [at : JoinSteps, client : Clients \cup {None}, open : BOOLEAN]]
  /\ leave \in [Sockets -> [at : LeaveSteps, client : Clients \cup {None}]]
  /\ expire \in [Clients -> ExpireSteps]
  /\ kick \in [Clients -> KickSteps]

RowsTypeOK ==
  /\ online \subseteq present /\ present \subseteq used /\ used \subseteq Clients

TimersTypeOK ==
  /\ armed \subseteq Clients
  /\ pending \in [Clients -> Nat]
  /\ \A c \in armed : pending[c] > 0

RoomTypeOK ==
  /\ socket \in [Sockets -> {"fresh", "open", "closed"}]
  /\ tokens \subseteq Clients
  /\ left \subseteq Clients /\ hasty \subseteq Sockets
  /\ status \in {"lobby", "counted", "active"}
  /\ drops \in 0..MaxDrops

LEMMA TypeParts ==
  MembershipTypeOK <=>
    RegistryTypeOK /\ CallsTypeOK /\ RowsTypeOK /\ TimersTypeOK /\ RoomTypeOK
BY DEF MembershipTypeOK, CallsTypeOK, RowsTypeOK, TimersTypeOK, RoomTypeOK

LEMMA JoinCallType ==
  ASSUME CallsTypeOK, IdsAreUsed, RowsTypeOK, NEW s \in Sockets,
         \/ FindRoom(s) \/ FindClient(s) \/ FindNobody(s) \/ ReadRoster(s)
         \/ Admit(s) \/ \E c \in Clients : SendJoin(s, c)
  PROVE  CallsTypeOK'
<1> DEFINE Calls == [at : JoinSteps, client : Clients \cup {None}, open : BOOLEAN]
<1>1. /\ join \in [Sockets -> Calls] /\ join[s] \in Calls /\ NoJoin \in Calls
  BY DEF CallsTypeOK, NoJoin, JoinSteps
<1>2. ASSUME NEW call \in Calls, JoinGoes(s, call) PROVE CallsTypeOK'
  BY <1>1, <1>2 DEF JoinGoes, CallsTypeOK
<1>3. ASSUME NEW at \in JoinSteps, NEW open \in BOOLEAN
      PROVE  /\ [join[s] EXCEPT !.at = at] \in Calls
             /\ [join[s] EXCEPT !.at = at, !.open = open] \in Calls
             /\ \A c \in Clients : [at |-> at, client |-> c, open |-> open] \in Calls
  BY <1>1, <1>3
<1>4. /\ {"enter", "room", "find", "back", "roster", "insert"} \subseteq JoinSteps
      /\ InLobby \in BOOLEAN
  BY DEF JoinSteps, InLobby
<1> HIDE DEF Calls
<1>5. QED
  BY <1>1, <1>2, <1>3, <1>4
     DEF FindRoom, FindClient, FindNobody, ReadRoster, Admit, SendJoin, JoinEnds

LEMMA LeaveCallType ==
  ASSUME MembershipTypeOK, IdsAreUsed, NEW s \in Sockets,
         \/ RemoveLeaver(s) \/ FindDropped(s) \/ SaveDropped(s) \/ ArmGrace(s)
         \/ Leave(s) \/ Drop(s)
  PROVE  CallsTypeOK'
<1> DEFINE Calls == [at : LeaveSteps, client : Clients \cup {None}]
<1>1. /\ leave \in [Sockets -> Calls] /\ leave[s] \in Calls /\ NoLeave \in Calls
  BY DEF MembershipTypeOK, NoLeave, LeaveSteps
<1>2. ASSUME NEW call \in Calls, LeaveGoes(s, call) PROVE CallsTypeOK'
  BY <1>1, <1>2 DEF LeaveGoes, CallsTypeOK, MembershipTypeOK
<1>3. ASSUME NEW at \in LeaveSteps
      PROVE  /\ [leave[s] EXCEPT !.at = at] \in Calls
             /\ \A c \in Clients : [at |-> at, client |-> c] \in Calls
  BY <1>1, <1>3
<1>4. {"leave", "find", "save", "arm", "idle"} \subseteq LeaveSteps
  BY DEF LeaveSteps
<1>5. Playing(s) => membership[s].client \in Clients
  BY PlayerKnown
<1>6. UNCHANGED callVars => CallsTypeOK'
  BY DEF MembershipTypeOK, CallsTypeOK, callVars
<1> HIDE DEF Calls
<1>7. QED
  BY <1>1, <1>2, <1>3, <1>4, <1>5, <1>6
     DEF RemoveLeaver, FindDropped, SaveDropped, ArmGrace, DropGoes, Leave, Drop

LEMMA CallsTypeKept ==
  ASSUME MembershipTypeOK, IdsAreUsed, [Next]_vars
  PROVE  CallsTypeOK'
<1>1. CallsTypeOK /\ RowsTypeOK
  BY TypeParts
<1>2. ASSUME NEW s \in Sockets,
             Resume(s) \/ Leave(s) \/ Drop(s) \/ \E c \in Clients : SendJoin(s, c)
      PROVE  CallsTypeOK'
  BY <1>1, <1>2, JoinCallType, LeaveCallType DEF Resume
<1>3. ASSUME NEW c \in Clients, ResumeExpiry(c) \/ AskKick(c) \/ ResumeKick(c)
      PROVE  CallsTypeOK'
  BY <1>1, <1>3
     DEF ResumeExpiry, GraceFires, FindExpired, RemoveExpired, ExpireGoes, AskKick,
         ResumeKick, Kick, KickNobody, RemoveKicked, KickGoes, CallsTypeOK,
         ExpireSteps, KickSteps
<1>4. CASE CountPlayers \/ StartGame \/ UNCHANGED vars
  BY <1>1, <1>4 DEF CountPlayers, StartGame, StatusGoes, vars, callVars, CallsTypeOK
<1>5. QED
  BY <1>2, <1>3, <1>4 DEF Next

LEMMA RowsTypeKept ==
  ASSUME MembershipTypeOK, IdsAreUsed, [Next]_vars
  PROVE  RowsTypeOK' /\ used \subseteq used'
<1>1. RowsTypeOK
  BY TypeParts
<1>2. CASE UNCHANGED tableVars
  BY <1>1, <1>2 DEF RowsTypeOK, tableVars
<1>3. ASSUME NEW s \in Sockets,
             Resume(s) \/ Leave(s) \/ Drop(s) \/ \E c \in Clients : SendJoin(s, c)
      PROVE  RowsTypeOK' /\ used \subseteq used'
  BY <1>1, <1>2, <1>3
     DEF Resume, FindRoom, FindClient, FindNobody, ReadRoster, Admit, RemoveLeaver,
         FindDropped, SaveDropped, ArmGrace, DropGoes, Leave, Drop, SendJoin,
         SaveRow, RemoveRow, RowsTypeOK, IdsAreUsed
<1>4. ASSUME NEW c \in Clients, ResumeExpiry(c) \/ AskKick(c) \/ ResumeKick(c)
      PROVE  RowsTypeOK' /\ used \subseteq used'
  BY <1>1, <1>2, <1>4
     DEF ResumeExpiry, GraceFires, FindExpired, RemoveExpired, ExpireGoes, AskKick,
         ResumeKick, Kick, KickNobody, RemoveKicked, KickGoes, RemoveRow, RowsTypeOK
<1>5. CASE CountPlayers \/ StartGame \/ UNCHANGED vars
  BY <1>2, <1>5 DEF CountPlayers, StartGame, StatusGoes, vars
<1>6. QED
  BY <1>3, <1>4, <1>5 DEF Next

LEMMA TimersTypeKept ==
  ASSUME MembershipTypeOK, IdsAreUsed, [Next]_vars
  PROVE  TimersTypeOK'
<1>1. TimersTypeOK
  BY TypeParts
<1>2. CASE UNCHANGED timerVars
  BY <1>1, <1>2 DEF TimersTypeOK, timerVars
<1>3. ASSUME NEW c \in Clients, ClearTimer(c) \/ ArmTimer(c) \/ GraceFires(c)
      PROVE  TimersTypeOK'
  BY <1>1, <1>3 DEF TimersTypeOK, ClearTimer, ArmTimer, GraceFires
<1>4. ASSUME NEW s \in Sockets
      PROVE  /\ join[s].at # "idle" => join[s].client \in Clients
             /\ leave[s].at # "idle" => leave[s].client \in Clients
  BY DEF MembershipTypeOK, IdsAreUsed
<1>5. ASSUME NEW s \in Sockets,
             Resume(s) \/ Leave(s) \/ Drop(s) \/ \E c \in Clients : SendJoin(s, c)
      PROVE  TimersTypeOK'
  BY <1>2, <1>3, <1>4, <1>5
     DEF Resume, FindRoom, FindClient, FindNobody, ReadRoster, Admit, RemoveLeaver,
         FindDropped, SaveDropped, ArmGrace, Leave, Drop, SendJoin
<1>6. ASSUME NEW c \in Clients, ResumeExpiry(c) \/ AskKick(c) \/ ResumeKick(c)
      PROVE  TimersTypeOK'
  BY <1>2, <1>3, <1>6
     DEF ResumeExpiry, FindExpired, RemoveExpired, AskKick, ResumeKick, Kick,
         KickNobody, RemoveKicked
<1>7. CASE CountPlayers \/ StartGame \/ UNCHANGED vars
  BY <1>2, <1>7 DEF CountPlayers, StartGame, StatusGoes, vars
<1>8. QED
  BY <1>5, <1>6, <1>7 DEF Next

LEMMA RoomTypeKept ==
  ASSUME MembershipTypeOK, IdsAreUsed, [Next]_vars
  PROVE  RoomTypeOK'
<1>1. RoomTypeOK
  BY TypeParts
<1>2. ASSUME NEW s \in Sockets
      PROVE  /\ join[s].at # "idle" => join[s].client \in Clients
             /\ Playing(s) => membership[s].client \in Clients
  BY PlayerKnown DEF MembershipTypeOK, IdsAreUsed
<1>3. ASSUME NEW s \in Sockets,
             Resume(s) \/ \E c \in Clients : SendJoin(s, c)
      PROVE  RoomTypeOK'
  <2>1. UNCHANGED roomVars
    BY <1>3
       DEF Resume, FindRoom, FindClient, FindNobody, ReadRoster, Admit,
           RemoveLeaver, FindDropped, SaveDropped, ArmGrace, DropGoes, SendJoin,
           JoinEnds, JoinGoes, LeaveGoes, roomVars
  <2>2. /\ socket' \in [Sockets -> {"fresh", "open", "closed"}]
        /\ tokens' \subseteq Clients
    <3>1. CASE Admit(s)
      BY <1>1, <1>2, <3>1 DEF Admit, RoomTypeOK
    <3>2. CASE \E c \in Clients : SendJoin(s, c)
      BY <1>1, <3>2 DEF SendJoin, RoomTypeOK
    <3>3. CASE ~Admit(s) /\ Resume(s)
      BY <1>1, <3>3
         DEF Resume, FindRoom, FindClient, FindNobody, ReadRoster, RemoveLeaver,
             FindDropped, SaveDropped, ArmGrace, DropGoes, RoomTypeOK
    <3>4. QED
      BY <1>3, <3>1, <3>2, <3>3
  <2>3. QED
    BY <1>1, <2>1, <2>2 DEF roomVars, RoomTypeOK
<1>4. ASSUME NEW s \in Sockets, Leave(s) \/ Drop(s) PROVE RoomTypeOK'
  BY <1>1, <1>2, <1>4, LobbyAssumption
     DEF Leave, Drop, LeaveGoes, NoteGone, RoomTypeOK
<1>5. ASSUME NEW c \in Clients, ResumeExpiry(c) \/ AskKick(c) \/ ResumeKick(c)
      PROVE  RoomTypeOK'
  <2>1. CASE ResumeExpiry(c)
    BY <1>1, <2>1
       DEF ResumeExpiry, GraceFires, FindExpired, RemoveExpired, ExpireGoes, NoteGone,
           RoomTypeOK
  <2>2. CASE AskKick(c) \/ ResumeKick(c)
    BY <1>1, <2>2
       DEF AskKick, ResumeKick, Kick, KickNobody, RemoveKicked, KickGoes, NoteGone,
           SocketsByClientId, RoomTypeOK
  <2>3. QED
    BY <1>5, <2>1, <2>2
<1>6. CASE CountPlayers \/ StartGame \/ UNCHANGED vars
  BY <1>1, <1>6 DEF CountPlayers, StartGame, StatusGoes, vars, roomVars, RoomTypeOK
<1>7. QED
  BY <1>3, <1>4, <1>5, <1>6 DEF Next

LEMMA RegistryTypeKept ==
  ASSUME MembershipTypeOK, IdsAreUsed, [Next]_vars
  PROVE  RegistryTypeOK'
<1>1. RegistryTypeOK
  BY TypeParts
<1>2. ASSUME NEW s \in Sockets, Admit(s) PROVE RegistryTypeOK'
  <2>1. join[s].client \in Clients /\ Room \in Rooms
    BY <1>2, LobbyAssumption DEF Admit, MembershipTypeOK, IdsAreUsed
  <2>2. RegisterClient(Room, join[s].client, s)
    BY <1>2 DEF Admit
  <2>3. ClientOf(Room, join[s].client) \in Memberships
    BY <2>1 DEF Memberships
  <2>4. membership' \in [Sockets -> Memberships \cup {NoMembership}]
    BY <1>1, <2>2, <2>3 DEF RegisterClient, Displace, RegistryTypeOK
  <2>5. clients' \in [Rooms -> [Clients -> Sockets \cup {None}]]
    BY <1>1, <2>1, <2>2 DEF RegisterClient, RegistryTypeOK
  <2>6. QED
    BY <1>1, <2>2, <2>4, <2>5 DEF RegisterClient, NoteReuse, RegistryTypeOK
<1>3. ASSUME NEW s \in Sockets, Unregister(s) PROVE RegistryTypeOK'
  <2>1. membership[s] # NoMembership
    BY <1>3 DEF Unregister, UnregisterHost, UnregisterClient, NoMembership
  <2>2. UnregisterClient(s)
    <3>1. membership[s] = InRoom(membership[s].client)
      BY <2>1 DEF IdsAreUsed
    <3>2. membership[s].role = "client"
      BY <3>1 DEF InRoom, ClientOf
    <3>3. QED
      BY <1>3, <3>2 DEF Unregister, UnregisterHost
  <2>3. membership' \in [Sockets -> Memberships \cup {NoMembership}]
    BY <1>1, <1>3 DEF Unregister, RegistryTypeOK
  <2>4. QED
    BY <1>1, <1>3, <2>2, <2>3 DEF Unregister, UnregisterClient, RegistryTypeOK
<1>4. CASE UNCHANGED registryVars
  BY <1>1, <1>4 DEF registryVars, RegistryTypeOK
<1>5. QED
  BY <1>2, <1>3, <1>4, RegistryCalls

LEMMA MembershipTypeKept ==
  ASSUME MembershipTypeOK, IdsAreUsed, [Next]_vars
  PROVE  MembershipTypeOK'
<1>1. RegistryTypeOK'
  BY RegistryTypeKept
<1>2. QED
  BY <1>1, CallsTypeKept, RowsTypeKept, TimersTypeKept, RoomTypeKept
     DEF MembershipTypeOK, CallsTypeOK, RowsTypeOK, TimersTypeOK, RoomTypeOK

-------------------------------------------------------------------------------
(* Who a call is for. *)

\* A socket gets a membership only when it is admitted.
LEMMA MembershipMoves ==
  ASSUME MembershipTypeOK, [Next]_vars, NEW t \in Sockets
  PROVE  \/ membership'[t] = membership[t]
         \/ membership'[t] = NoMembership
         \/ Admit(t) /\ membership'[t] = InRoom(join[t].client)
<1>1. RegistryTypeOK
  BY TypeParts
<1>2. CASE membership' = membership
  BY <1>2
<1>3. ASSUME NEW s \in Sockets, Unregister(s)
      PROVE  membership'[t] \in {membership[t], NoMembership}
  BY <1>1, <1>3 DEF Unregister, RegistryTypeOK
<1>4. ASSUME NEW s \in Sockets, Admit(s)
      PROVE  \/ membership'[t] = membership[t]
             \/ membership'[t] = NoMembership
             \/ Admit(t) /\ membership'[t] = InRoom(join[t].client)
  BY <1>1, <1>4 DEF Admit, RegisterClient, Displace, InRoom
<1>5. ASSUME NEW s \in Sockets,
             Resume(s) \/ Leave(s) \/ Drop(s) \/ \E c \in Clients : SendJoin(s, c)
      PROVE  \/ membership'[t] = membership[t]
             \/ membership'[t] = NoMembership
             \/ Admit(t) /\ membership'[t] = InRoom(join[t].client)
  BY <1>2, <1>3, <1>4, <1>5
     DEF Resume, FindRoom, FindClient, FindNobody, ReadRoster, RemoveLeaver,
         FindDropped, SaveDropped, ArmGrace, DropGoes, Leave, Drop, SendJoin,
         registryVars
<1>6. ASSUME NEW c \in Clients, ResumeExpiry(c) \/ AskKick(c) \/ ResumeKick(c)
      PROVE  membership'[t] \in {membership[t], NoMembership}
  BY <1>2, <1>3, <1>6
     DEF ResumeExpiry, GraceFires, FindExpired, RemoveExpired, ExpireGoes, AskKick,
         ResumeKick, Kick, KickNobody, RemoveKicked, SocketsByClientId, registryVars
<1>7. CASE CountPlayers \/ StartGame \/ UNCHANGED vars
  BY <1>2, <1>7 DEF CountPlayers, StartGame, StatusGoes, vars, registryVars
<1>8. QED
  BY <1>5, <1>6, <1>7 DEF Next

\* A join keeps its player until it ends, except for a newcomer's new id.
LEMMA JoinMoves ==
  ASSUME MembershipTypeOK, [Next]_vars, NEW t \in Sockets, join'[t] # join[t]
  PROVE  \/ join'[t].at = "idle"
         \/ /\ join[t].at # "idle" /\ join'[t].client = join[t].client
            /\ FindRoom(t) \/ FindClient(t) \/ ReadRoster(t)
         \/ join[t].at = "find" /\ FindNobody(t) /\ join'[t].client \in used' \ used
         \/ \E c \in Clients : SendJoin(t, c) /\ join'[t].client = c
<1> DEFINE Moves ==
      \/ join'[t].at = "idle"
      \/ /\ join[t].at # "idle" /\ join'[t].client = join[t].client
         /\ FindRoom(t) \/ FindClient(t) \/ ReadRoster(t)
      \/ join[t].at = "find" /\ FindNobody(t) /\ join'[t].client \in used' \ used
      \/ \E c \in Clients : SendJoin(t, c) /\ join'[t].client = c
<1>1. /\ join \in [Sockets -> [at : JoinSteps, client : Clients \cup {None},
                               open : BOOLEAN]]
      /\ join[t] \in [at : JoinSteps, client : Clients \cup {None}, open : BOOLEAN]
  BY DEF MembershipTypeOK
<1>2. ASSUME NEW s \in Sockets, NEW call, JoinGoes(s, call) PROVE s = t /\ join'[t] = call
  BY <1>1, <1>2 DEF JoinGoes
<1>3. ASSUME NEW s \in Sockets, JoinEnds(s) PROVE join'[t].at = "idle"
  BY <1>2, <1>3 DEF JoinEnds, NoJoin
<1>4. ASSUME NEW s \in Sockets, NEW c \in Clients, SendJoin(s, c) PROVE Moves
  <2>1. s = t /\ join'[t].client = c
    BY <1>2, <1>4 DEF SendJoin
  <2>2. QED
    BY <1>4, <2>1
<1>5. ASSUME NEW s \in Sockets, FindRoom(s) \/ FindClient(s) \/ ReadRoster(s)
      PROVE  Moves
  <2>1. \/ join'[t].at = "idle"
        \/ s = t /\ join[t].at # "idle" /\ join'[t].client = join[t].client
    <3>1. CASE FindRoom(s)
      BY <1>1, <1>2, <1>3, <3>1 DEF FindRoom
    <3>2. CASE FindClient(s)
      BY <1>1, <1>2, <1>3, <3>2 DEF FindClient
    <3>3. CASE ReadRoster(s)
      BY <1>1, <1>2, <1>3, <3>3 DEF ReadRoster
    <3>4. QED
      BY <1>5, <3>1, <3>2, <3>3
  <2>2. QED
    BY <1>5, <2>1
<1>6. ASSUME NEW s \in Sockets, FindNobody(s) PROVE Moves
  <2>1. \/ join'[t].at = "idle"
        \/ s = t /\ join[t].at = "find" /\ join'[t].client \in used' \ used
    <3>1. CASE JoinEnds(s)
      BY <1>3, <3>1
    <3>2. CASE ~JoinEnds(s)
      <4>1. PICK d \in Clients \ used :
              /\ JoinGoes(s, [at |-> "roster", client |-> d, open |-> TRUE])
              /\ used' = used \cup {d}
        BY <1>6, <3>2 DEF FindNobody
      <4>2. QED
        BY <1>2, <1>6, <4>1 DEF FindNobody
    <3>3. QED
      BY <3>1, <3>2
  <2>2. QED
    BY <1>6, <2>1
<1>7. ASSUME NEW s \in Sockets,
             Resume(s) \/ Leave(s) \/ Drop(s) \/ \E c \in Clients : SendJoin(s, c)
      PROVE  Moves
  BY <1>3, <1>4, <1>5, <1>6, <1>7
     DEF Resume, Admit, RemoveLeaver, FindDropped, SaveDropped, ArmGrace, DropGoes,
         LeaveGoes, Leave, Drop, callVars
<1>8. ASSUME NEW c \in Clients, ResumeExpiry(c) \/ AskKick(c) \/ ResumeKick(c)
      PROVE  FALSE
  BY <1>8 DEF ResumeExpiry, GraceFires, FindExpired, RemoveExpired, ExpireGoes,
              AskKick, ResumeKick, Kick, KickNobody, RemoveKicked, KickGoes
<1>9. CASE CountPlayers \/ StartGame \/ UNCHANGED vars
  BY <1>9 DEF CountPlayers, StartGame, StatusGoes, vars, callVars
<1>10. QED
  BY <1>7, <1>8, <1>9 DEF Next

\* A leave is begun by a registered socket for its player, and keeps to it.
LEMMA LeaveMoves ==
  ASSUME MembershipTypeOK, [Next]_vars, NEW t \in Sockets, leave'[t] # leave[t]
  PROVE  \/ leave'[t].at = "idle" /\ (RemoveLeaver(t) \/ FindDropped(t) \/ ArmGrace(t))
         \/ /\ leave[t].at # "idle" /\ leave'[t].client = leave[t].client
            /\ FindDropped(t) \/ SaveDropped(t)
         \/ /\ Playing(t) /\ leave'[t].client = membership[t].client
            /\ Leave(t) \/ Drop(t)
<1> DEFINE Moves ==
      \/ leave'[t].at = "idle" /\ (RemoveLeaver(t) \/ FindDropped(t) \/ ArmGrace(t))
      \/ /\ leave[t].at # "idle" /\ leave'[t].client = leave[t].client
         /\ FindDropped(t) \/ SaveDropped(t)
      \/ /\ Playing(t) /\ leave'[t].client = membership[t].client
         /\ Leave(t) \/ Drop(t)
<1>1. /\ leave \in [Sockets -> [at : LeaveSteps, client : Clients \cup {None}]]
      /\ leave[t] \in [at : LeaveSteps, client : Clients \cup {None}]
  BY DEF MembershipTypeOK
<1>2. ASSUME NEW s \in Sockets, NEW call, LeaveGoes(s, call)
      PROVE  s = t /\ leave'[t] = call
  BY <1>1, <1>2 DEF LeaveGoes
<1>3. ASSUME NEW s \in Sockets, RemoveLeaver(s) \/ ArmGrace(s) PROVE Moves
  <2>1. s = t /\ leave'[t].at = "idle"
    BY <1>1, <1>2, <1>3 DEF RemoveLeaver, ArmGrace, DropGoes, NoLeave
  <2>2. QED
    BY <1>3, <2>1
<1>4. ASSUME NEW s \in Sockets, FindDropped(s) \/ SaveDropped(s) PROVE Moves
  <2>1. s = t /\ leave[t].at # "idle" /\ leave'[t].client = leave[t].client
    <3>1. \E at \in {"idle", "save", "arm"} :
            LeaveGoes(s, [leave[s] EXCEPT !.at = at]) /\ leave[s].at # "idle"
      BY <1>4 DEF FindDropped, SaveDropped, DropGoes
    <3>2. QED
      BY <1>1, <1>2, <3>1
  <2>2. QED
    BY <1>4, <2>1
<1>5. ASSUME NEW s \in Sockets, Leave(s) \/ Drop(s) PROVE Moves
  <2>1. s = t /\ Playing(t) /\ leave'[t].client = membership[t].client
    BY <1>2, <1>5 DEF Leave, Drop, callVars
  <2>2. QED
    BY <1>5, <2>1
<1>6. ASSUME NEW s \in Sockets,
             Resume(s) \/ Leave(s) \/ Drop(s) \/ \E c \in Clients : SendJoin(s, c)
      PROVE  Moves
  BY <1>3, <1>4, <1>5, <1>6
     DEF Resume, FindRoom, FindClient, FindNobody, ReadRoster, Admit, SendJoin,
         JoinEnds, JoinGoes
<1>7. ASSUME NEW c \in Clients, ResumeExpiry(c) \/ AskKick(c) \/ ResumeKick(c)
      PROVE  FALSE
  BY <1>7 DEF ResumeExpiry, GraceFires, FindExpired, RemoveExpired, ExpireGoes,
              AskKick, ResumeKick, Kick, KickNobody, RemoveKicked, KickGoes
<1>8. CASE CountPlayers \/ StartGame \/ UNCHANGED vars
  BY <1>8 DEF CountPlayers, StartGame, StatusGoes, vars, callVars
<1>9. QED
  BY <1>6, <1>7, <1>8 DEF Next

\* A token is given with an admission.
LEMMA TokensMove ==
  ASSUME [Next]_vars, NEW c \in tokens' \ tokens
  PROVE  \E s \in Sockets : Admit(s) /\ join[s].client = c
<1>1. ASSUME NEW s \in Sockets,
             Resume(s) \/ Leave(s) \/ Drop(s) \/ \E d \in Clients : SendJoin(s, d)
      PROVE  \E t \in Sockets : Admit(t) /\ join[t].client = c
  BY <1>1
     DEF Resume, FindRoom, FindClient, FindNobody, ReadRoster, Admit, RemoveLeaver,
         FindDropped, SaveDropped, ArmGrace, DropGoes, Leave, Drop, SendJoin
<1>2. ASSUME NEW d \in Clients, ResumeExpiry(d) \/ AskKick(d) \/ ResumeKick(d)
      PROVE  FALSE
  BY <1>2 DEF ResumeExpiry, GraceFires, FindExpired, RemoveExpired, ExpireGoes,
              AskKick, ResumeKick, Kick, KickNobody, RemoveKicked
<1>3. CASE CountPlayers \/ StartGame \/ UNCHANGED vars
  BY <1>3 DEF CountPlayers, StartGame, StatusGoes, vars
<1>4. QED
  BY <1>1, <1>2, <1>3 DEF Next

LEMMA IdsAreUsedKept ==
  ASSUME MembershipTypeOK, IdsAreUsed, [Next]_vars
  PROVE  IdsAreUsed'
<1>1. used \subseteq used' /\ used \subseteq Clients
  BY RowsTypeKept DEF MembershipTypeOK
<1>2. tokens' \subseteq used'
  <2>1. ASSUME NEW c \in tokens' \ tokens PROVE c \in used
    BY TokensMove DEF IdsAreUsed, Admit
  <2>2. QED
    BY <1>1, <2>1 DEF IdsAreUsed
<1>3. ASSUME NEW t \in Sockets, join'[t].at # "idle" PROVE join'[t].client \in used'
  BY <1>1, <1>3, JoinMoves DEF IdsAreUsed, SendJoin
<1>4. ASSUME NEW t \in Sockets, leave'[t].at # "idle" PROVE leave'[t].client \in used'
  BY <1>1, <1>4, LeaveMoves, PlayerKnown DEF IdsAreUsed
<1>5. ASSUME NEW t \in Sockets, membership'[t] # NoMembership
      PROVE  /\ membership'[t].client \in used'
             /\ membership'[t] = InRoom(membership'[t].client)
  <2>1. CASE membership'[t] = membership[t]
    BY <1>1, <1>5, <2>1 DEF IdsAreUsed
  <2>2. CASE Admit(t) /\ membership'[t] = InRoom(join[t].client)
    <3>1. join[t].client \in used
      BY <2>2 DEF IdsAreUsed, Admit
    <3>2. InRoom(join[t].client).client = join[t].client
      BY DEF InRoom, ClientOf
    <3>3. QED
      BY <1>1, <2>2, <3>1, <3>2
  <2>3. QED
    BY <1>5, <2>1, <2>2, MembershipMoves
<1>6. QED
  BY <1>2, <1>3, <1>4, <1>5 DEF IdsAreUsed

LEMMA LobbyInit == Init => MembershipTypeOK /\ IdsAreUsed /\ RegistryInit
<1>1. RegistryInit => RegistryTypeOK
  BY DEF RegistryInit, RegistryTypeOK
<1>2. QED
  BY <1>1, LobbyAssumption
     DEF Init, MembershipTypeOK, IdsAreUsed, RegistryInit, NoJoin, NoLeave, JoinSteps,
         LeaveSteps, ExpireSteps, KickSteps

(* Every variable holds what its comment says, whichever handlers interleave;
   a stored handle stands for a timeout that will fire. *)
THEOREM MembershipTypeCorrect == Spec => []MembershipTypeOK
<1>1. Spec => Init /\ [][Next]_vars
  BY PTL DEF Spec
<1>2. MembershipTypeOK /\ IdsAreUsed /\ [Next]_vars => (MembershipTypeOK /\ IdsAreUsed)'
  BY MembershipTypeKept, IdsAreUsedKept
<1>3. QED
  BY <1>1, <1>2, LobbyInit, PTL

(* The lobby uses the registry as its own specification allows, so whatever is
   proved of the registry alone holds of the lobby's. *)
THEOREM LobbyKeepsRegistry == Spec => RegistrySpec
<1>1. Spec => Init /\ [][Next]_vars
  BY PTL DEF Spec
<1>2. MembershipTypeOK /\ IdsAreUsed /\ [Next]_vars =>
        /\ (MembershipTypeOK /\ IdsAreUsed)'
        /\ [RegistryNext]_registryVars
  BY MembershipTypeKept, IdsAreUsedKept, LobbyCallsRegistry
<1>3. QED
  BY <1>1, <1>2, LobbyInit, PTL DEF RegistrySpec

-------------------------------------------------------------------------------
(* Sockets that closed. *)

(* A socket joins once, and only then leaves or drops: its calls do not
   overlap, and while it is registered none of them runs. *)
OneCall ==
  \A s \in Sockets :
    /\ socket[s] = "fresh" =>
         join[s].at = "idle" /\ leave[s].at = "idle" /\ ~Playing(s)
    /\ Playing(s) => join[s].at = "idle" /\ leave[s].at = "idle"
    /\ leave[s].at # "idle" => join[s].at = "idle"

(* The strengthening of GhostsAreHasty: a join that outlives its socket. *)
HastyJoins ==
  \A s \in Sockets : socket[s] = "closed" /\ join[s].at # "idle" => s \in hasty

\* A socket is closed by its own end or by a kick, and is unregistered with it.
LEMMA SocketMoves ==
  ASSUME MembershipTypeOK, [Next]_vars, NEW t \in Sockets
  PROVE  /\ hasty \subseteq hasty'
         /\ \/ socket'[t] = socket[t]
            \/ /\ socket[t] = "fresh" /\ socket'[t] = "open"
               /\ UNCHANGED membership
            \/ /\ socket[t] = "open" /\ socket'[t] = "closed"
               /\ Drop(t) /\ (Playing(t) => membership'[t] = NoMembership)
            \/ /\ socket'[t] = "closed" /\ UNCHANGED join
               /\ Playing(t) /\ membership'[t] = NoMembership
<1> DEFINE Moves ==
      \/ socket'[t] = socket[t]
      \/ /\ socket[t] = "fresh" /\ socket'[t] = "open"
         /\ UNCHANGED membership
      \/ /\ socket[t] = "open" /\ socket'[t] = "closed"
         /\ Drop(t) /\ (Playing(t) => membership'[t] = NoMembership)
      \/ /\ socket'[t] = "closed" /\ UNCHANGED join
         /\ Playing(t) /\ membership'[t] = NoMembership
<1>1. /\ socket \in [Sockets -> {"fresh", "open", "closed"}]
      /\ DOMAIN membership = Sockets
  BY DEF MembershipTypeOK, RegistryTypeOK
<1>2. ASSUME NEW s \in Sockets, Unregister(s) PROVE membership'[s] = NoMembership
  BY <1>1, <1>2 DEF Unregister
<1>3. CASE UNCHANGED <<socket, hasty>>
  BY <1>3
<1>4. ASSUME NEW s \in Sockets, NEW c \in Clients, SendJoin(s, c)
      PROVE  hasty \subseteq hasty' /\ Moves
  <2>1. /\ socket' = [socket EXCEPT ![s] = "open"] /\ socket[s] = "fresh"
        /\ UNCHANGED <<hasty, membership>>
    BY <1>4 DEF SendJoin, JoinGoes, roomVars, registryVars
  <2>2. QED
    BY <1>1, <2>1
<1>5. ASSUME NEW s \in Sockets, Drop(s) PROVE hasty \subseteq hasty' /\ Moves
  <2>1. /\ socket' = [socket EXCEPT ![s] = "closed"] /\ socket[s] = "open"
        /\ hasty \subseteq hasty'
        /\ Playing(s) => membership'[s] = NoMembership
    BY <1>2, <1>5 DEF Drop
  <2>2. QED
    BY <1>1, <1>5, <2>1
<1>6. ASSUME NEW c \in Clients, Kick(c) PROVE hasty \subseteq hasty' /\ Moves
  <2>1. UNCHANGED <<hasty, join>>
    BY <1>6 DEF Kick, KickGoes
  <2>2. CASE UNCHANGED socket
    BY <2>1, <2>2
  <2>3. CASE ~UNCHANGED socket
    <3>1. PICK s \in Sockets :
            /\ membership[s].role = "client" /\ Unregister(s)
            /\ socket' = [socket EXCEPT ![s] = "closed"]
      BY <1>6, <2>3 DEF Kick, SocketsByClientId
    <3>2. QED
      BY <1>1, <1>2, <2>1, <3>1 DEF Playing
  <2>4. QED
    BY <2>2, <2>3
<1>7. ASSUME NEW s \in Sockets, Resume(s) \/ Leave(s)
      PROVE  hasty \subseteq hasty' /\ Moves
  BY <1>3, <1>7
     DEF Resume, FindRoom, FindClient, FindNobody, ReadRoster, Admit, RemoveLeaver,
         FindDropped, SaveDropped, ArmGrace, DropGoes, Leave, JoinEnds, JoinGoes,
         roomVars
<1>8. ASSUME NEW c \in Clients, ResumeExpiry(c) \/ AskKick(c) \/ ResumeKick(c)
      PROVE  hasty \subseteq hasty' /\ Moves
  BY <1>3, <1>6, <1>8
     DEF ResumeExpiry, GraceFires, FindExpired, RemoveExpired, ExpireGoes, AskKick,
         ResumeKick, KickNobody, RemoveKicked, KickGoes, roomVars
<1>9. CASE CountPlayers \/ StartGame \/ UNCHANGED vars
  BY <1>3, <1>9 DEF CountPlayers, StartGame, StatusGoes, vars, roomVars
<1>10. QED
  BY <1>4, <1>5, <1>7, <1>8, <1>9 DEF Next

LEMMA OneCallKept ==
  ASSUME MembershipTypeOK, OneCall, [Next]_vars
  PROVE  OneCall'
<1> SUFFICES ASSUME NEW t \in Sockets
             PROVE  /\ socket'[t] = "fresh" =>
                         /\ join'[t].at = "idle" /\ leave'[t].at = "idle"
                         /\ ~Playing(t)'
                    /\ Playing(t)' => join'[t].at = "idle" /\ leave'[t].at = "idle"
                    /\ leave'[t].at # "idle" => join'[t].at = "idle"
  BY DEF OneCall
<1>1. join'[t].at # "idle" =>
        \/ join[t].at # "idle"
        \/ socket[t] = "fresh" /\ socket'[t] = "open" /\ UNCHANGED leave
  BY JoinMoves DEF SendJoin, JoinGoes, MembershipTypeOK
<1>2. leave'[t].at # "idle" =>
        \/ leave[t].at # "idle"
        \/ /\ Playing(t) /\ UNCHANGED join
           /\ ~Playing(t)'
  <2>1. ASSUME Leave(t) \/ Drop(t), Playing(t)
        PROVE  UNCHANGED join /\ membership'[t] = NoMembership
    BY <2>1 DEF Leave, Drop, LeaveGoes, Unregister, MembershipTypeOK, RegistryTypeOK
  <2>2. QED
    BY <2>1, LeaveMoves DEF Playing, NoMembership
<1>3. Playing(t)' =>
        \/ Playing(t)
        \/ join[t].at # "idle" /\ join'[t].at = "idle" /\ UNCHANGED <<leave, socket>>
  <2>1. Admit(t) => /\ join[t].at # "idle" /\ join'[t].at = "idle"
                    /\ UNCHANGED <<leave, socket>>
    BY DEF Admit, JoinEnds, JoinGoes, NoJoin, MembershipTypeOK
  <2>2. QED
    BY <2>1, MembershipMoves DEF Playing, NoMembership
<1>4. socket'[t] = "fresh" => socket[t] = "fresh"
  BY SocketMoves
<1>5. QED
  BY <1>1, <1>2, <1>3, <1>4 DEF OneCall

LEMMA GhostsAreHastyKept ==
  ASSUME MembershipTypeOK, OneCall, HastyJoins, GhostsAreHasty, [Next]_vars
  PROVE  HastyJoins' /\ GhostsAreHasty'
<1> SUFFICES ASSUME NEW t \in Sockets, socket'[t] = "closed",
                    join'[t].at # "idle" \/ Playing(t)'
             PROVE  t \in hasty'
  BY DEF HastyJoins, GhostsAreHasty
<1>1. join'[t].at # "idle" => join[t].at # "idle"
  BY JoinMoves DEF SendJoin, JoinGoes, MembershipTypeOK
<1>2. Playing(t)' => Playing(t) \/ join[t].at # "idle"
  <2>1. Admit(t) => join[t].at # "idle"
    BY DEF Admit
  <2>2. QED
    BY <2>1, MembershipMoves DEF Playing, NoMembership
<1>3. CASE socket'[t] = socket[t]
  BY <1>1, <1>2, <1>3, SocketMoves DEF HastyJoins, GhostsAreHasty
<1>4. CASE Drop(t) /\ (Playing(t) => membership'[t] = NoMembership)
  <2>1. join[t].at # "idle" => t \in hasty'
    BY <1>4 DEF Drop
  <2>2. Playing(t)' => ~Playing(t)
    BY <1>4 DEF Playing, NoMembership
  <2>3. QED
    BY <1>1, <1>2, <2>1, <2>2
<1>5. CASE UNCHANGED join /\ Playing(t) /\ membership'[t] = NoMembership
  BY <1>5 DEF OneCall, Playing, NoMembership
<1>6. QED
  BY <1>3, <1>4, <1>5, SocketMoves

(* The registry knows a closed socket only if it closed while its own join was
   in flight, when there was no membership for the disconnect to remove. *)
THEOREM GhostsOnlyFromHaste == Spec => []GhostsAreHasty
<1>1. Spec => Init /\ [][Next]_vars
  BY PTL DEF Spec
<1>2. Init => OneCall /\ HastyJoins /\ GhostsAreHasty
  <2> SUFFICES ASSUME Init PROVE OneCall /\ HastyJoins /\ GhostsAreHasty
    OBVIOUS
  <2>1. \A s \in Sockets :
          join[s].at = "idle" /\ leave[s].at = "idle" /\ ~Playing(s)
    BY DEF Init, RegistryInit, NoJoin, NoLeave, Playing, NoMembership
  <2>2. QED
    BY <2>1 DEF OneCall, HastyJoins, GhostsAreHasty
<1>3. /\ MembershipTypeOK /\ OneCall /\ HastyJoins /\ GhostsAreHasty /\ [Next]_vars
      => (OneCall /\ HastyJoins /\ GhostsAreHasty)'
  BY OneCallKept, GhostsAreHastyKept
<1>4. QED
  BY <1>1, <1>2, <1>3, MembershipTypeCorrect, PTL

-------------------------------------------------------------------------------
(* Players gone for good. *)

Entering == {"enter", "roster", "insert"}

\* A player nothing is known of but its id.
Untouched(c) ==
  /\ c \notin present /\ c \notin tokens /\ c \notin left
  /\ \A s \in Sockets :
       /\ membership[s] # InRoom(c)
       /\ leave[s].client = c => leave[s].at = "idle"
       /\ ~(join[s].at = "back" /\ join[s].client = c)

(* A newcomer's join is the only trace of its id: a join that is past the
   checks admits nobody who has already been there. *)
NewcomersAreNew ==
  \A s \in Sockets : join[s].at \in Entering =>
    /\ Untouched(join[s].client)
    /\ \A t \in Sockets \ {s} :
         join[t].at \in Entering => join[t].client # join[s].client

(* The strengthening of LeftForGood: who has left holds no token, and no
   rejoin that has found one is under way. *)
GoneStayGone ==
  /\ left \subseteq used
  /\ \A c \in left :
       /\ c \notin tokens /\ ~Rejoining(c)
       /\ \A s \in Sockets : membership[s] # InRoom(c)

\* A row is inserted by an admission, or by a disconnect that had read it.
LEMMA PresentMoves ==
  ASSUME [Next]_vars, NEW c \in present' \ present
  PROVE  \E s \in Sockets :
           \/ Admit(s) /\ join[s].client = c
           \/ SaveDropped(s) /\ leave[s].client = c
<1>1. ASSUME NEW s \in Sockets, Admit(s) PROVE join[s].client = c
  BY <1>1 DEF Admit, SaveRow
<1>2. ASSUME NEW s \in Sockets, SaveDropped(s) PROVE leave[s].client = c
  BY <1>2 DEF SaveDropped, SaveRow
<1>3. ASSUME NEW s \in Sockets,
             Resume(s) \/ Leave(s) \/ Drop(s) \/ \E d \in Clients : SendJoin(s, d)
      PROVE  Admit(s) \/ SaveDropped(s)
  BY <1>3
     DEF Resume, FindRoom, FindClient, FindNobody, ReadRoster, RemoveLeaver,
         FindDropped, ArmGrace, Leave, Drop, SendJoin, RemoveRow, tableVars
<1>4. ASSUME NEW d \in Clients, ResumeExpiry(d) \/ AskKick(d) \/ ResumeKick(d)
      PROVE  FALSE
  BY <1>4 DEF ResumeExpiry, GraceFires, FindExpired, RemoveExpired, AskKick,
              ResumeKick, Kick, KickNobody, RemoveKicked, RemoveRow, tableVars
<1>5. CASE CountPlayers \/ StartGame \/ UNCHANGED vars
  BY <1>5 DEF CountPlayers, StartGame, StatusGoes, vars, tableVars
<1>6. QED
  BY <1>1, <1>2, <1>3, <1>4, <1>5 DEF Next

LEMMA NotInRoom ==
  ASSUME NEW c \in Clients
  PROVE  /\ NoMembership # InRoom(c)
         /\ \A d \in Clients : InRoom(c) = InRoom(d) => c = d
<1>1. InRoom(c).client = c /\ InRoom(c).role = "client" /\ NoMembership.role = "none"
  BY DEF InRoom, ClientOf, NoMembership
<1>2. \A d \in Clients : InRoom(d).client = d
  BY DEF InRoom, ClientOf
<1>3. QED
  BY <1>1, <1>2

(* MembershipBacked, as far as the lobby needs it: a socket registered as a
   player is the one stored for the player. *)
PlayersBacked ==
  \A s \in Sockets, c \in Clients : membership[s] = InRoom(c) => clients[Room][c] = s

LEMMA PlayersBackedKept ==
  ASSUME MembershipTypeOK, IdsAreUsed, PlayersBacked, [Next]_vars
  PROVE  PlayersBacked'
<1>1. RegistryTypeOK /\ Room \in Rooms
  BY TypeParts, LobbyAssumption
<1>2. ASSUME NEW s \in Sockets, Admit(s) PROVE PlayersBacked'
  <2>1. PICK c \in Clients : c = join[s].client
    BY <1>2 DEF Admit, MembershipTypeOK, IdsAreUsed
  <2>2. /\ membership' = Displace(clients[Room][c], s, InRoom(c))
        /\ clients' = [clients EXCEPT ![Room][c] = s]
    BY <1>2, <2>1 DEF Admit, RegisterClient, InRoom
  <2>3. /\ clients'[Room][c] = s
        /\ \A d \in Clients \ {c} : clients'[Room][d] = clients[Room][d]
    BY <1>1, <2>1, <2>2 DEF RegistryTypeOK
  <2>4. ASSUME NEW t \in Sockets, NEW d \in Clients, membership'[t] = InRoom(d)
        PROVE  clients'[Room][d] = t
    <3>1. CASE t = s
      BY <2>1, <2>2, <2>3, <2>4, <3>1, NotInRoom DEF Displace
    <3>2. CASE t # s
      <4>1. t # clients[Room][c] /\ membership[t] = InRoom(d)
        BY <2>2, <2>4, <3>2, NotInRoom DEF Displace
      <4>2. QED
        BY <2>3, <4>1 DEF PlayersBacked
    <3>3. QED
      BY <3>1, <3>2
  <2>5. QED
    BY <2>4 DEF PlayersBacked
<1>3. ASSUME NEW s \in Sockets, Unregister(s) PROVE PlayersBacked'
  <2>1. membership[s] # NoMembership
    BY <1>3 DEF Unregister, UnregisterHost, UnregisterClient, NoMembership
  <2>2. PICK c \in Clients : membership[s] = InRoom(c)
    BY <2>1 DEF IdsAreUsed, MembershipTypeOK
  <2>3. /\ membership' = [membership EXCEPT ![s] = NoMembership]
        /\ clients' = [clients EXCEPT ![Room][c] = None]
    BY <1>3, <2>2 DEF Unregister, UnregisterHost, UnregisterClient, InRoom, ClientOf
  <2>4. \A d \in Clients \ {c} : clients'[Room][d] = clients[Room][d]
    BY <1>1, <2>3 DEF RegistryTypeOK
  <2>5. ASSUME NEW t \in Sockets, NEW d \in Clients, membership'[t] = InRoom(d)
        PROVE  clients'[Room][d] = t
    <3>1. t # s /\ membership[t] = InRoom(d)
      BY <1>1, <2>3, <2>5, NotInRoom DEF RegistryTypeOK
    <3>2. d # c
      BY <2>2, <3>1 DEF PlayersBacked
    <3>3. QED
      BY <2>4, <3>1, <3>2 DEF PlayersBacked
  <2>6. QED
    BY <2>5 DEF PlayersBacked
<1>4. CASE UNCHANGED registryVars
  BY <1>4 DEF registryVars, PlayersBacked
<1>5. QED
  BY <1>2, <1>3, <1>4, RegistryCalls

\* One socket at most is registered as a player.
LEMMA OnePlayerSocket ==
  ASSUME PlayersBacked, NEW c \in Clients, NEW s \in Sockets, NEW t \in Sockets,
         membership[s] = InRoom(c), membership[t] = InRoom(c)
  PROVE  s = t
BY DEF PlayersBacked

\* Who leaves, is kicked or expires loses everything at once.
LEMMA LeftMoves ==
  ASSUME MembershipTypeOK, IdsAreUsed, PlayersBacked, [Next]_vars,
         NEW c \in left' \ left
  PROVE  /\ c \in used /\ c \notin tokens' /\ ~Rejoining(c) /\ UNCHANGED join
         /\ \A t \in Sockets : membership'[t] # InRoom(c)
         /\ c \in present \/ \E s \in Sockets : membership[s] = InRoom(c)
<1> DEFINE Gone ==
      /\ c \in used /\ c \notin tokens' /\ ~Rejoining(c) /\ UNCHANGED join
      /\ \A t \in Sockets : membership'[t] # InRoom(c)
      /\ c \in present \/ \E s \in Sockets : membership[s] = InRoom(c)
<1>1. ASSUME NEW d, NoteGone(d) PROVE c = d /\ ~Rejoining(c)
  BY <1>1 DEF NoteGone
<1>2. /\ membership \in [Sockets -> Memberships \cup {NoMembership}]
      /\ present \subseteq used /\ used \subseteq Clients
  BY DEF MembershipTypeOK, RegistryTypeOK
<1>3. ASSUME NEW s \in Sockets, membership[s] = InRoom(c), Unregister(s),
             c \in Clients
      PROVE  \A t \in Sockets : membership'[t] # InRoom(c)
  <2>1. membership' = [membership EXCEPT ![s] = NoMembership]
    BY <1>3 DEF Unregister
  <2>2. QED
    BY <1>2, <1>3, <2>1, OnePlayerSocket, NotInRoom
<1>4. ASSUME NEW s \in Sockets, Leave(s) PROVE Gone
  <2>1. c = membership[s].client /\ ~Rejoining(c)
    BY <1>1, <1>4 DEF Leave
  <2>2. c \in used /\ c \in Clients /\ membership[s] = InRoom(c)
    BY <1>4, <2>1, PlayerKnown DEF Leave
  <2>3. Unregister(s) /\ c \notin tokens' /\ UNCHANGED join
    BY <1>4, <2>1 DEF Leave, LeaveGoes
  <2>4. QED
    BY <1>3, <2>1, <2>2, <2>3
<1>5. ASSUME NEW d \in Clients, Kick(d) PROVE Gone
  <2>1. c = d /\ ~Rejoining(c)
    BY <1>1, <1>5 DEF Kick
  <2>2. c \in present /\ c \notin tokens' /\ UNCHANGED join
    BY <1>5, <2>1 DEF Kick, KickGoes
  <2>3. InRoom(c).role = "client" /\ InRoom(c).client = c
    BY DEF InRoom, ClientOf
  <2>4. CASE SocketsByClientId(c) = {} /\ UNCHANGED registryVars
    <3>1. \A t \in Sockets : membership'[t] # InRoom(c)
      BY <2>3, <2>4 DEF SocketsByClientId, registryVars
    <3>2. QED
      BY <1>2, <2>1, <2>2, <3>1
  <2>5. ASSUME NEW s \in SocketsByClientId(c), Unregister(s) PROVE Gone
    <3>1. s \in Sockets /\ membership[s] = InRoom(c)
      BY <2>5, PlayerKnown DEF SocketsByClientId, Playing
    <3>2. QED
      BY <1>2, <1>3, <2>1, <2>2, <2>5, <3>1
  <2>6. QED
    BY <1>5, <2>1, <2>4, <2>5 DEF Kick
<1>6. ASSUME NEW d \in Clients, FindExpired(d) PROVE Gone
  <2>1. /\ d \in present /\ tokens' = tokens \ {d} /\ ~BackAlready(d) /\ NoteGone(d)
        /\ UNCHANGED <<join, registryVars>>
    BY <1>6 DEF FindExpired, ExpireGoes
  <2>2. c = d /\ ~Rejoining(c)
    BY <1>1, <2>1
  <2>3. \A t \in Sockets : membership'[t] # InRoom(c)
    BY <2>1, <2>2 DEF BackAlready, registryVars
  <2>4. QED
    BY <1>2, <2>1, <2>2, <2>3
<1>7. ASSUME NEW s \in Sockets,
             Resume(s) \/ Leave(s) \/ Drop(s) \/ \E d \in Clients : SendJoin(s, d)
      PROVE  Leave(s)
  BY <1>7
     DEF Resume, FindRoom, FindClient, FindNobody, ReadRoster, Admit, RemoveLeaver,
         FindDropped, SaveDropped, ArmGrace, DropGoes, Drop, SendJoin, JoinEnds,
         JoinGoes, roomVars
<1>8. ASSUME NEW d \in Clients, ResumeExpiry(d) \/ AskKick(d) \/ ResumeKick(d)
      PROVE  Kick(d) \/ FindExpired(d)
  BY <1>8 DEF ResumeExpiry, GraceFires, RemoveExpired, AskKick, ResumeKick,
              KickNobody, RemoveKicked, KickGoes
<1>9. CASE CountPlayers \/ StartGame \/ UNCHANGED vars
  BY <1>9 DEF CountPlayers, StartGame, StatusGoes, vars, roomVars
<1>10. QED
  BY <1>4, <1>5, <1>6, <1>7, <1>8, <1>9 DEF Next

\* A rejoin gets past the check only with a row and a token.
LEMMA BackMoves ==
  ASSUME MembershipTypeOK, [Next]_vars, NEW t \in Sockets, join'[t].at = "back"
  PROVE  \/ join'[t] = join[t]
         \/ /\ join'[t].client \in present /\ join'[t].client \in tokens
<1>1. join[t] \in [at : JoinSteps, client : Clients \cup {None}, open : BOOLEAN]
      /\ DOMAIN join = Sockets
  BY DEF MembershipTypeOK
<1>2. ~ReadRoster(t)
  BY <1>1 DEF ReadRoster, JoinEnds, JoinGoes, NoJoin
<1>3. ~FindRoom(t)
  <2>1. ~JoinEnds(t)
    BY <1>1 DEF JoinEnds, JoinGoes, NoJoin
  <2>2. ~JoinGoes(t, [join[t] EXCEPT !.at = "find", !.open = InLobby])
    BY <1>1 DEF JoinGoes
  <2>3. ~JoinGoes(t, [join[t] EXCEPT !.at = "roster"])
    BY <1>1 DEF JoinGoes
  <2>4. QED
    BY <2>1, <2>2, <2>3 DEF FindRoom
<1>4. ~FindNobody(t)
  BY <1>1 DEF FindNobody, JoinEnds, JoinGoes, NoJoin
<1>5. \A c \in Clients : ~SendJoin(t, c)
  BY <1>1 DEF SendJoin, JoinGoes
<1>6. FindClient(t) => join[t].client \in present /\ join[t].client \in tokens
  BY <1>1 DEF FindClient, JoinEnds, JoinGoes, NoJoin
<1>7. QED
  BY <1>2, <1>3, <1>4, <1>5, <1>6, JoinMoves

\* An entering join goes on for its player, or has just got an id nobody has had.
LEMMA NewcomerMoves ==
  ASSUME MembershipTypeOK, [Next]_vars, NEW s \in Sockets, join'[s].at \in Entering
  PROVE  \/ join[s].at \in Entering /\ join'[s].client = join[s].client
         \/ /\ join'[s].client \in Clients \ used
            /\ \A t \in Sockets \ {s} : join'[t] = join[t]
<1>1. /\ join[s] \in [at : JoinSteps, client : Clients \cup {None}, open : BOOLEAN]
      /\ DOMAIN join = Sockets
      /\ used \subseteq Clients
  BY DEF MembershipTypeOK
<1>2. join'[s].at \in {"enter", "roster", "insert"}
  BY DEF Entering
<1>3. CASE join'[s] = join[s]
  BY <1>3
<1>4. CASE FindRoom(s) /\ join'[s].client = join[s].client
  <2>1. join[s].at = "enter"
    BY <1>1, <1>2, <1>4 DEF FindRoom, JoinGoes
  <2>2. QED
    BY <1>4, <2>1 DEF Entering
<1>5. CASE FindClient(s)
  BY <1>1, <1>2, <1>5 DEF FindClient, JoinEnds, JoinGoes, NoJoin
<1>6. CASE ReadRoster(s) /\ join'[s].client = join[s].client
  BY <1>6 DEF ReadRoster, Entering
<1>7. CASE FindNobody(s)
  <2>1. ~JoinEnds(s)
    BY <1>1, <1>2 DEF JoinEnds, JoinGoes, NoJoin
  <2>2. PICK d \in Clients \ used :
          JoinGoes(s, [at |-> "roster", client |-> d, open |-> TRUE])
    BY <1>7, <2>1 DEF FindNobody
  <2>3. QED
    BY <1>1, <2>2 DEF JoinGoes
<1>8. ASSUME NEW c \in Clients, SendJoin(s, c)
      PROVE  /\ join'[s].client \in Clients \ used
             /\ \A t \in Sockets \ {s} : join'[t] = join[t]
  BY <1>1, <1>2, <1>8 DEF SendJoin, JoinGoes
<1>9. join'[s].at # "idle"
  BY <1>2
<1>10. QED
  BY <1>3, <1>4, <1>5, <1>6, <1>7, <1>8, <1>9, JoinMoves

\* Only its own admission touches a player of whom nothing is known.
LEMMA UntouchedKept ==
  ASSUME MembershipTypeOK, IdsAreUsed, PlayersBacked, [Next]_vars,
         NEW c \in Clients, Untouched(c),
         \A s \in Sockets : Admit(s) => join[s].client # c
  PROVE  Untouched(c)'
<1>1. c \notin present'
  BY PresentMoves DEF Untouched, SaveDropped
<1>2. c \notin tokens'
  BY TokensMove DEF Untouched
<1>3. c \notin left'
  BY LeftMoves DEF Untouched
<1>4. ASSUME NEW t \in Sockets PROVE membership'[t] # InRoom(c)
  <2>1. Admit(t) => join[t].client \in Clients
    BY DEF Admit, IdsAreUsed, MembershipTypeOK
  <2>2. QED
    BY <2>1, MembershipMoves, NotInRoom DEF Untouched
<1>5. ASSUME NEW t \in Sockets, leave'[t].client = c PROVE leave'[t].at = "idle"
  BY <1>5, LeaveMoves, PlayerKnown DEF Untouched
<1>6. ASSUME NEW t \in Sockets PROVE ~(join'[t].at = "back" /\ join'[t].client = c)
  BY BackMoves DEF Untouched
<1>7. QED
  BY <1>1, <1>2, <1>3, <1>4, <1>5, <1>6 DEF Untouched

\* Nobody else is admitted under the id of a newcomer, or of one who left.
LEMMA AdmitsAreApart ==
  ASSUME NewcomersAreNew, NEW t \in Sockets, Admit(t)
  PROVE  /\ join[t].client \in left => Rejoining(join[t].client)
         /\ \A s \in Sockets \ {t} :
              join[s].at \in Entering => join[s].client # join[t].client
<1>1. join[t].at = "back" \/ join[t].at \in Entering
  BY DEF Admit, Entering
<1>2. CASE join[t].at = "back"
  BY <1>2 DEF NewcomersAreNew, Untouched, Rejoining
<1>3. CASE join[t].at \in Entering
  BY <1>3 DEF NewcomersAreNew, Untouched
<1>4. QED
  BY <1>1, <1>2, <1>3

LEMMA NewcomersKept ==
  ASSUME MembershipTypeOK, IdsAreUsed, PlayersBacked, GoneStayGone,
         NewcomersAreNew, [Next]_vars
  PROVE  NewcomersAreNew'
<1>1. /\ \A t \in Sockets : join[t].at # "idle" => join[t].client \in used
      /\ join \in [Sockets -> [at : JoinSteps, client : Clients \cup {None},
                             open : BOOLEAN]]
      /\ used \subseteq Clients /\ present \subseteq used /\ tokens \subseteq used
      /\ left \subseteq used
  BY DEF IdsAreUsed, MembershipTypeOK, GoneStayGone
<1>2. ASSUME NEW c \in Clients \ used PROVE Untouched(c)'
  <2>1. c \notin present /\ c \notin tokens /\ c \notin left
    BY <1>1
  <2>2. ASSUME NEW t \in Sockets PROVE membership[t] # InRoom(c)
    <3>1. InRoom(c).client = c /\ c \notin used
      BY DEF InRoom, ClientOf
    <3>2. CASE membership[t] = NoMembership
      BY <3>2, NotInRoom
    <3>3. CASE membership[t] # NoMembership
      BY <3>1, <3>3 DEF IdsAreUsed
    <3>4. QED
      BY <3>2, <3>3
  <2>3. Untouched(c)
    BY <1>1, <2>1, <2>2 DEF Untouched, IdsAreUsed
  <2>4. \A s \in Sockets : Admit(s) => join[s].client # c
    BY <1>1 DEF Admit
  <2>5. QED
    BY <2>3, <2>4, UntouchedKept
<1>3. ASSUME NEW s \in Sockets, NEW c, join[s].at \in Entering, join[s].client = c,
             join'[s].at \in Entering
      PROVE  c \in Clients /\ Untouched(c)'
  <2>1. join[s].at # "idle" /\ join'[s].at # "idle"
    BY <1>3 DEF Entering
  <2>2. Untouched(c) /\ c \in Clients
    BY <1>1, <1>3, <2>1 DEF NewcomersAreNew
  <2>3. ~Admit(s)
    <3>1. JoinEnds(s) => join'[s] = NoJoin
      BY <1>1 DEF JoinEnds, JoinGoes
    <3>2. Admit(s) => JoinEnds(s)
      BY DEF Admit
    <3>3. QED
      BY <2>1, <3>1, <3>2 DEF NoJoin
  <2>4. \A t \in Sockets : Admit(t) => join[t].client # c
    BY <1>3, <2>3, AdmitsAreApart
  <2>5. QED
    BY <2>2, <2>4, UntouchedKept
<1>4. ASSUME NEW s \in Sockets, NEW c, join'[s].at \in Entering, join'[s].client = c
      PROVE  /\ Untouched(c)'
             /\ \A t \in Sockets \ {s} :
                  join'[t].at \in Entering => join'[t].client # c
  <2>1. CASE join[s].at \in Entering /\ join[s].client = c
    <3>1. c \in Clients /\ c \in used /\ Untouched(c)'
      BY <1>1, <1>3, <1>4, <2>1 DEF Entering
    <3>2. ASSUME NEW t \in Sockets \ {s}, join'[t].at \in Entering
          PROVE  join'[t].client # c
      <4>1. CASE join[t].at \in Entering /\ join'[t].client = join[t].client
        BY <2>1, <4>1 DEF NewcomersAreNew
      <4>2. CASE join'[t].client \in Clients \ used
        BY <3>1, <4>2
      <4>3. QED
        BY <3>2, <4>1, <4>2, NewcomerMoves
    <3>3. QED
      BY <3>1, <3>2
  <2>2. CASE /\ c \in Clients \ used
             /\ \A t \in Sockets \ {s} : join'[t] = join[t]
    <3>1. Untouched(c)'
      BY <1>2, <2>2
    <3>2. \A t \in Sockets : join[t].at \in Entering => join[t].client # c
      BY <1>1, <2>2 DEF Entering
    <3>3. QED
      BY <2>2, <3>1, <3>2
  <2>3. QED
    BY <1>4, <2>1, <2>2, NewcomerMoves
<1>5. QED
  BY <1>4 DEF NewcomersAreNew, Untouched

LEMMA GoneStayGoneKept ==
  ASSUME MembershipTypeOK, IdsAreUsed, PlayersBacked, NewcomersAreNew,
         GoneStayGone, [Next]_vars
  PROVE  GoneStayGone'
<1>1. left' \subseteq used'
  BY LeftMoves, RowsTypeKept DEF GoneStayGone
<1>2. ASSUME NEW c \in left, c \in left'
      PROVE  /\ c \notin tokens' /\ ~Rejoining(c)'
             /\ \A t \in Sockets : membership'[t] # InRoom(c)
  <2>1. c \in Clients
    BY DEF GoneStayGone, MembershipTypeOK
  <2>2. ASSUME NEW t \in Sockets, Admit(t)
        PROVE  join[t].client # c /\ join[t].client \in Clients
    BY <2>2, AdmitsAreApart DEF GoneStayGone, Admit, IdsAreUsed, MembershipTypeOK
  <2>3. c \notin tokens'
    BY <2>2, TokensMove DEF GoneStayGone
  <2>4. ~Rejoining(c)'
    BY BackMoves DEF GoneStayGone, Rejoining
  <2>5. \A t \in Sockets : membership'[t] # InRoom(c)
    BY <2>1, <2>2, MembershipMoves, NotInRoom DEF GoneStayGone
  <2>6. QED
    BY <2>3, <2>4, <2>5
<1>3. ASSUME NEW c \in left' \ left
      PROVE  /\ c \notin tokens' /\ ~Rejoining(c)'
             /\ \A t \in Sockets : membership'[t] # InRoom(c)
  BY LeftMoves DEF Rejoining
<1>4. ASSUME NEW c \in left'
      PROVE  /\ c \notin tokens' /\ ~Rejoining(c)'
             /\ \A t \in Sockets : membership'[t] # InRoom(c)
  BY <1>2, <1>3
<1>5. QED
  BY <1>1, <1>4 DEF GoneStayGone, InRoom

(* A player that left, was kicked or has expired is never registered again,
   whatever rejoin, expiry or disconnect of it is still under way. *)
THEOREM GoneForGood == Spec => []LeftForGood
<1>1. Spec => Init /\ [][Next]_vars
  BY PTL DEF Spec
<1>2. Init => PlayersBacked
  BY NotInRoom DEF Init, RegistryInit, PlayersBacked
<1>3. Init => NewcomersAreNew /\ GoneStayGone
  BY DEF Init, NoJoin, NewcomersAreNew, GoneStayGone, Entering
<1>4. /\ MembershipTypeOK /\ IdsAreUsed /\ PlayersBacked
      /\ NewcomersAreNew /\ GoneStayGone /\ [Next]_vars
      => (NewcomersAreNew /\ GoneStayGone)'
  BY NewcomersKept, GoneStayGoneKept
<1>5. /\ MembershipTypeOK /\ IdsAreUsed /\ PlayersBacked /\ [Next]_vars
      => (MembershipTypeOK /\ IdsAreUsed /\ PlayersBacked)'
  BY MembershipTypeKept, IdsAreUsedKept, PlayersBackedKept
<1>6. GoneStayGone => LeftForGood
  BY DEF GoneStayGone, LeftForGood
<1>7. QED
  BY <1>1, <1>2, <1>3, <1>4, <1>5, <1>6, LobbyInit, PTL
-------------------------------------------------------------------------------
(* Offline players and their timers. *)

\* A player goes offline when its disconnect saves the row, and only then.
LEMMA OfflineMoves ==
  ASSUME [Next]_vars, NEW c \in present' \ online', c \notin present \ online
  PROVE  \E s \in Sockets : SaveDropped(s) /\ leave[s].client = c
<1>1. ASSUME NEW s \in Sockets, Admit(s) PROVE FALSE
  BY <1>1 DEF Admit, SaveRow
<1>2. ASSUME NEW s \in Sockets, SaveDropped(s) PROVE leave[s].client = c
  BY <1>2 DEF SaveDropped, SaveRow
<1>3. ASSUME NEW s \in Sockets,
             Resume(s) \/ Leave(s) \/ Drop(s) \/ \E d \in Clients : SendJoin(s, d)
      PROVE  SaveDropped(s)
  BY <1>1, <1>3
     DEF Resume, FindRoom, FindClient, FindNobody, ReadRoster, RemoveLeaver,
         FindDropped, ArmGrace, Leave, Drop, SendJoin, RemoveRow, tableVars
<1>4. ASSUME NEW d \in Clients, ResumeExpiry(d) \/ AskKick(d) \/ ResumeKick(d)
      PROVE  FALSE
  BY <1>4 DEF ResumeExpiry, GraceFires, FindExpired, RemoveExpired, AskKick,
              ResumeKick, Kick, KickNobody, RemoveKicked, RemoveRow, tableVars
<1>5. CASE CountPlayers \/ StartGame \/ UNCHANGED vars
  BY <1>5 DEF CountPlayers, StartGame, StatusGoes, vars, tableVars
<1>6. QED
  BY <1>2, <1>3, <1>4, <1>5 DEF Next

\* A rejoin that has been let through comes to its admission.
LEMMA BackEnds ==
  ASSUME MembershipTypeOK, OneCall, [Next]_vars, NEW t \in Sockets,
         join[t].at = "back"
  PROVE  join'[t] = join[t] \/ Admit(t)
<1>1. /\ join \in [Sockets -> [at : JoinSteps, client : Clients \cup {None},
                               open : BOOLEAN]]
      /\ socket[t] # "fresh"
  BY DEF MembershipTypeOK, OneCall
<1>2. ASSUME NEW s \in Sockets, NEW call, JoinGoes(s, call), s # t
      PROVE  join'[t] = join[t]
  BY <1>1, <1>2 DEF JoinGoes
<1>3. ASSUME NEW s \in Sockets, JoinEnds(s), s # t PROVE join'[t] = join[t]
  BY <1>2, <1>3 DEF JoinEnds
<1>4. ASSUME NEW s \in Sockets, NEW c \in Clients, SendJoin(s, c)
      PROVE  join'[t] = join[t]
  BY <1>1, <1>2, <1>4 DEF SendJoin
<1>5. ASSUME NEW s \in Sockets,
             FindRoom(s) \/ FindClient(s) \/ FindNobody(s) \/ ReadRoster(s)
      PROVE  join'[t] = join[t]
  <2>1. s # t
    BY <1>5 DEF FindRoom, FindClient, FindNobody, ReadRoster
  <2>2. (\E call : JoinGoes(s, call)) \/ JoinEnds(s)
    BY <1>5 DEF FindRoom, FindClient, FindNobody, ReadRoster
  <2>3. QED
    BY <1>2, <1>3, <2>1, <2>2
<1>6. ASSUME NEW s \in Sockets, Admit(s) PROVE join'[t] = join[t] \/ Admit(t)
  BY <1>3, <1>6 DEF Admit
<1>7. ASSUME NEW s \in Sockets,
             Resume(s) \/ Leave(s) \/ Drop(s) \/ \E c \in Clients : SendJoin(s, c)
      PROVE  join'[t] = join[t] \/ Admit(t)
  BY <1>4, <1>5, <1>6, <1>7
     DEF Resume, RemoveLeaver, FindDropped, SaveDropped, ArmGrace, DropGoes,
         LeaveGoes, Leave, Drop, callVars
<1>8. ASSUME NEW c \in Clients, ResumeExpiry(c) \/ AskKick(c) \/ ResumeKick(c)
      PROVE  join'[t] = join[t]
  BY <1>8 DEF ResumeExpiry, GraceFires, FindExpired, RemoveExpired, ExpireGoes,
              AskKick, ResumeKick, Kick, KickNobody, RemoveKicked, KickGoes
<1>9. CASE CountPlayers \/ StartGame \/ UNCHANGED vars
  BY <1>9 DEF CountPlayers, StartGame, StatusGoes, vars, callVars
<1>10. QED
  BY <1>7, <1>8, <1>9 DEF Next

\* Timeouts are lost to a rejoin or a kick, or by firing.
LEMMA PendingMoves ==
  ASSUME MembershipTypeOK, [Next]_vars, NEW c \in Clients, pending[c] > 0
  PROVE  \/ pending'[c] > 0
         \/ Rejoining(c)'
         \/ expire'[c] = "find"
         \/ kick'[c] = "remove"
<1>1. /\ pending \in [Clients -> Nat] /\ expire \in [Clients -> ExpireSteps]
      /\ kick \in [Clients -> KickSteps]
      /\ join \in [Sockets -> [at : JoinSteps, client : Clients \cup {None},
                               open : BOOLEAN]]
      /\ leave \in [Sockets -> [at : LeaveSteps, client : Clients \cup {None}]]
  BY DEF MembershipTypeOK
<1>2. ASSUME NEW d, ClearTimer(d), d # c PROVE pending'[c] = pending[c]
  BY <1>1, <1>2 DEF ClearTimer
<1>3. ASSUME NEW d, ArmTimer(d) PROVE pending'[c] > 0
  BY <1>1, <1>3 DEF ArmTimer
<1>4. ASSUME NEW s \in Sockets, FindClient(s)
      PROVE  pending'[c] = pending[c] \/ Rejoining(c)'
  <2>1. CASE JoinEnds(s) /\ UNCHANGED timerVars
    BY <2>1 DEF timerVars
  <2>2. CASE /\ ClearTimer(join[s].client)
             /\ JoinGoes(s, [join[s] EXCEPT !.at = "back"])
    <3>1. join'[s].at = "back" /\ join'[s].client = join[s].client
      BY <1>1, <2>2 DEF JoinGoes
    <3>2. QED
      BY <1>2, <2>2, <3>1 DEF Rejoining
  <2>3. QED
    BY <1>4, <2>1, <2>2 DEF FindClient
<1>5. ASSUME NEW d \in Clients, GraceFires(d)
      PROVE  pending'[c] = pending[c] \/ expire'[c] = "find"
  BY <1>1, <1>5 DEF GraceFires, ExpireGoes
<1>6. ASSUME NEW d \in Clients, Kick(d)
      PROVE  pending'[c] = pending[c] \/ kick'[c] = "remove"
  <2>1. ClearTimer(d) /\ KickGoes(d, "remove")
    BY <1>6 DEF Kick
  <2>2. kick'[d] = "remove"
    BY <1>1, <2>1 DEF KickGoes
  <2>3. QED
    BY <1>2, <2>1, <2>2
<1>7. ASSUME NEW s \in Sockets, ArmGrace(s) PROVE pending'[c] > 0
  BY <1>3, <1>7 DEF ArmGrace
<1>8. ASSUME NEW s \in Sockets,
             Resume(s) \/ Leave(s) \/ Drop(s) \/ \E d \in Clients : SendJoin(s, d)
      PROVE  UNCHANGED pending \/ FindClient(s) \/ ArmGrace(s)
  BY <1>8 DEF Resume, FindRoom, FindNobody, ReadRoster, Admit, RemoveLeaver,
              FindDropped, SaveDropped, Leave, Drop, SendJoin, timerVars
<1>9. ASSUME NEW d \in Clients, ResumeExpiry(d) \/ AskKick(d) \/ ResumeKick(d)
      PROVE  UNCHANGED pending \/ GraceFires(d) \/ Kick(d)
  BY <1>9 DEF ResumeExpiry, FindExpired, RemoveExpired, AskKick, ResumeKick,
              KickNobody, RemoveKicked, timerVars
<1>10. CASE CountPlayers \/ StartGame \/ UNCHANGED vars
  BY <1>10 DEF CountPlayers, StartGame, StatusGoes, vars, timerVars
<1>11. QED
  BY <1>4, <1>5, <1>6, <1>7, <1>8, <1>9, <1>10 DEF Next

\* An expiry or a kick of a player with a row ends by removing the row.
LEMMA RemovalEnds ==
  ASSUME MembershipTypeOK, [Next]_vars, NEW c \in present \ online, c \in present',
         c \in Clients
  PROVE  /\ expire[c] # "idle" => expire'[c] # "idle"
         /\ kick[c] = "remove" => kick'[c] = "remove"
<1>1. /\ expire \in [Clients -> ExpireSteps] /\ kick \in [Clients -> KickSteps]
  BY DEF MembershipTypeOK
<1>2. ASSUME NEW d \in Clients, NEW at, ExpireGoes(d, at)
      PROVE  UNCHANGED kick /\ expire'[c] = IF d = c THEN at ELSE expire[c]
  BY <1>1, <1>2 DEF ExpireGoes
<1>3. ASSUME NEW d \in Clients, NEW at, KickGoes(d, at)
      PROVE  UNCHANGED expire /\ kick'[c] = IF d = c THEN at ELSE kick[c]
  BY <1>1, <1>3 DEF KickGoes
<1>4. ASSUME NEW d \in Clients, GraceFires(d) \/ FindExpired(d)
      PROVE  UNCHANGED kick /\ (expire[c] # "idle" => expire'[c] # "idle")
  BY <1>2, <1>4 DEF GraceFires, FindExpired
<1>5. ASSUME NEW d \in Clients, RemoveExpired(d)
      PROVE  UNCHANGED kick /\ expire'[c] = expire[c]
  BY <1>2, <1>5 DEF RemoveExpired, RemoveRow
<1>6. ASSUME NEW d \in Clients, AskKick(d) \/ Kick(d) \/ KickNobody(d)
      PROVE  UNCHANGED expire /\ (kick[c] = "remove" => kick'[c] = "remove")
  <2>1. CASE AskKick(d)
    BY <1>3, <2>1 DEF AskKick
  <2>2. CASE Kick(d)
    BY <1>3, <2>2 DEF Kick
  <2>3. CASE KickNobody(d)
    BY <1>3, <2>3 DEF KickNobody
  <2>4. QED
    BY <1>6, <2>1, <2>2, <2>3
<1>7. ASSUME NEW d \in Clients, RemoveKicked(d)
      PROVE  UNCHANGED expire /\ kick'[c] = kick[c]
  BY <1>3, <1>7 DEF RemoveKicked, RemoveRow
<1>8. ASSUME NEW s \in Sockets,
             Resume(s) \/ Leave(s) \/ Drop(s) \/ \E d \in Clients : SendJoin(s, d)
      PROVE  UNCHANGED <<expire, kick>>
  BY <1>8
     DEF Resume, FindRoom, FindClient, FindNobody, ReadRoster, Admit, JoinEnds,
         JoinGoes, RemoveLeaver, FindDropped, SaveDropped, ArmGrace, DropGoes,
         LeaveGoes, Leave, Drop, SendJoin, callVars
<1>9. CASE CountPlayers \/ StartGame \/ UNCHANGED vars
  BY <1>9 DEF CountPlayers, StartGame, StatusGoes, vars, callVars
<1>10. QED
  BY <1>4, <1>5, <1>6, <1>7, <1>8, <1>9 DEF Next, ResumeExpiry, ResumeKick

\* A leave or a disconnect of an offline player goes on, removes its row or
\* arms its timer.
LEMMA LeaveEnds ==
  ASSUME MembershipTypeOK, OneCall, [Next]_vars, NEW t \in Sockets,
         NEW c \in present, leave[t].at # "idle", leave[t].client = c, c \in Clients
  PROVE  \/ leave'[t].at # "idle" /\ leave'[t].client = c
         \/ c \notin present'
         \/ pending'[c] > 0
<1>1. leave \in [Sockets -> [at : LeaveSteps, client : Clients \cup {None}]]
      /\ pending \in [Clients -> Nat]
  BY DEF MembershipTypeOK
<1>2. ~Playing(t)
  BY DEF OneCall
<1>3. CASE FindDropped(t)
  <2>1. DropGoes(t, "save")
    BY <1>3 DEF FindDropped
  <2>2. leave'[t] = [leave[t] EXCEPT !.at = "save"]
    BY <1>1, <2>1 DEF DropGoes, LeaveGoes
  <2>3. QED
    BY <1>1, <2>2
<1>4. CASE SaveDropped(t)
  <2>1. leave'[t] = [leave[t] EXCEPT !.at = "arm"]
    BY <1>1, <1>4 DEF SaveDropped, DropGoes, LeaveGoes
  <2>2. QED
    BY <1>1, <2>1
<1>5. CASE ArmGrace(t)
  BY <1>1, <1>5 DEF ArmGrace, ArmTimer
<1>6. CASE RemoveLeaver(t)
  BY <1>6 DEF RemoveLeaver, RemoveRow
<1>7. QED
  BY <1>2, <1>3, <1>4, <1>5, <1>6, LeaveMoves

LEMMA OfflineHasTimerKept ==
  ASSUME MembershipTypeOK, OneCall, OfflineHasTimer, [Next]_vars
  PROVE  OfflineHasTimer'
<1> SUFFICES ASSUME NEW c \in present' \ online'
             PROVE  Handled(c)' \/ pending'[c] > 0
  BY DEF OfflineHasTimer
<1>1. /\ leave \in [Sockets -> [at : LeaveSteps, client : Clients \cup {None}]]
      /\ present \subseteq Clients
  BY DEF MembershipTypeOK
<1>2. CASE c \notin present \ online
  <2>1. PICK s \in Sockets : SaveDropped(s) /\ leave[s].client = c
    BY <1>2, OfflineMoves
  <2>2. leave'[s] = [leave[s] EXCEPT !.at = "arm"]
    BY <1>1, <2>1 DEF SaveDropped, DropGoes, LeaveGoes
  <2>3. QED
    BY <1>1, <2>1, <2>2 DEF Handled
<1>3. CASE c \in present \ online
  <2>1. c \in Clients /\ c \in present
    BY <1>1, <1>3
  <2>2. CASE pending[c] > 0
    BY <2>1, <2>2, PendingMoves DEF Handled
  <2>3. CASE expire[c] # "idle" \/ kick[c] = "remove"
    BY <1>3, <2>1, <2>3, RemovalEnds DEF Handled
  <2>4. ASSUME NEW s \in Sockets, join[s].at = "back", join[s].client = c
        PROVE  Rejoining(c)'
    <3>1. ~Admit(s)
      BY <2>4 DEF Admit, SaveRow
    <3>2. QED
      BY <2>4, <3>1, BackEnds DEF Rejoining
  <2>5. ASSUME NEW s \in Sockets, leave[s].at # "idle", leave[s].client = c
        PROVE  Handled(c)' \/ pending'[c] > 0
    BY <2>1, <2>5, LeaveEnds DEF Handled
  <2>6. QED
    BY <1>3, <2>2, <2>3, <2>4, <2>5 DEF OfflineHasTimer, Handled, Rejoining
<1>4. QED
  BY <1>2, <1>3

(* An offline player nobody is busy with has a timeout that will fire: its name
   and its place in the room are never taken for good. *)
THEOREM OfflineAreTimed == Spec => []OfflineHasTimer
<1>1. Spec => Init /\ [][Next]_vars
  BY PTL DEF Spec
<1>2. Init => OneCall /\ OfflineHasTimer
  <2> SUFFICES ASSUME Init PROVE OneCall /\ OfflineHasTimer
    OBVIOUS
  <2>1. \A s \in Sockets :
          join[s].at = "idle" /\ leave[s].at = "idle" /\ ~Playing(s)
    BY DEF Init, RegistryInit, NoJoin, NoLeave, Playing, NoMembership
  <2>2. present = {}
    BY DEF Init
  <2>3. QED
    BY <2>1, <2>2 DEF OneCall, OfflineHasTimer
<1>3. MembershipTypeOK /\ OneCall /\ OfflineHasTimer /\ [Next]_vars
      => (OneCall /\ OfflineHasTimer)'
  BY OneCallKept, OfflineHasTimerKept
<1>4. QED
  BY <1>1, <1>2, <1>3, MembershipTypeCorrect, PTL
===============================================================================
