------------------------------- MODULE Gateway -------------------------------
(***************************************************************************)
(* The WebSocket gateway (socket/socket.gateway.ts) with the heartbeat     *)
(* monitor, the idle timer and the registry of connections: how a socket   *)
(* comes, authenticates as a host or joins, falls silent, is closed by     *)
(* either end and is forgotten.                                            *)
(*                                                                         *)
(* What the lobby decides is a choice here, made some queries after the    *)
(* request: a join or an authentication succeeds or not.  So is what the   *)
(* throttles decide: whether a message is dropped and whether an address is *)
(* locked out.  A socket that is gone and has nothing under way stands for *)
(* the next one to come.                                                   *)
(***************************************************************************)
EXTENDS ConnectionRegistry

VARIABLES
  conn,     \* "none", "open", "closing" (close() was called), "gone"
  silent,   \* sockets whose peer has vanished without a close
  tracked,  \* _sockets of the heartbeat monitor
  alive,    \* sockets with isAlive
  idle,     \* sockets whose idle timer is armed
  auth,     \* the room whose host a socket is being authenticated as, or None
  joining,  \* sockets with a PLAYER_JOIN before the lobby
  late      \* history: sockets registered after they had gone

socketVars == <<conn, silent, tracked, alive, idle, auth, joining, late>>
vars == <<registryVars, socketVars>>

Init ==
  /\ RegistryInit
  /\ conn = [s \in Sockets |-> "none"]
  /\ auth = [s \in Sockets |-> None]
  /\ silent = {} /\ tracked = {} /\ alive = {} /\ idle = {} /\ late = {}
  /\ joining = {}

Registered(s) == membership[s] # NoMembership

----------------------------------------------------------------------------
\* handleConnection(): an origin that is not allowed is turned away before the
\* socket is tracked, a bad host request after it.  A host's request without a
\* code leaves the socket open, like a player's.
Connect(s) ==
  /\ conn[s] = "none"
  /\ \/ /\ conn' = [conn EXCEPT ![s] = "closing"]
        /\ UNCHANGED <<tracked, alive, idle, auth>>
     \/ /\ tracked' = tracked \cup {s} /\ alive' = alive \cup {s}
        /\ idle' = idle \cup {s}
        /\ \/ conn' = [conn EXCEPT ![s] = "closing"] /\ UNCHANGED auth
           \/ conn' = [conn EXCEPT ![s] = "open"] /\ UNCHANGED auth
           \/ /\ conn' = [conn EXCEPT ![s] = "open"]
              /\ \E r \in Rooms : auth' = [auth EXCEPT ![s] = r]
  /\ UNCHANGED <<registryVars, silent, joining, late>>

Belated(s) == IF conn[s] = "gone" THEN late \cup {s} ELSE late

\* connectHost(), once the lobby has answered: a host it accepts is registered,
\* whatever has become of the socket meanwhile.
AnswerHost(s) ==
  /\ auth[s] # None /\ auth' = [auth EXCEPT ![s] = None]
  /\ \/ /\ RegisterHost(auth[s], s)
        /\ late' = Belated(s)
        /\ UNCHANGED conn
     \/ /\ conn' = [conn EXCEPT ![s] = IF @ = "open" THEN "closing" ELSE @]
        /\ UNCHANGED <<registryVars, late>>
  /\ UNCHANGED <<silent, tracked, alive, idle, joining>>

\* handlePlayerJoin(), handlePlayerLeave(): a socket that is being closed is
\* still read.
Heard(s) == conn[s] \in {"open", "closing"} /\ s \notin silent

JoinPlayer(s) ==
  /\ Heard(s) /\ joining' = joining \cup {s}
  /\ UNCHANGED <<registryVars, conn, silent, tracked, alive, idle, auth, late>>

\* joinClient(), once its queries are answered
AnswerJoin(s) ==
  /\ s \in joining /\ joining' = joining \ {s}
  /\ \/ /\ \E r \in Rooms, c \in Clients : RegisterClient(r, c, s)
        /\ late' = Belated(s)
     \/ UNCHANGED <<registryVars, late>>
  /\ UNCHANGED <<conn, silent, tracked, alive, idle, auth>>

LeavePlayer(s) ==
  /\ Heard(s) /\ membership[s].role = "client" /\ Unregister(s)
  /\ UNCHANGED socketVars

\* closeIfIdle()
IdleTimerKeepsAll(s) ==
  /\ s \in idle /\ idle' = idle \ {s}
  /\ UNCHANGED <<registryVars, conn, silent, tracked, alive, auth, joining, late>>

IdleTimer(s) ==
  /\ s \in idle /\ idle' = idle \ {s}
  /\ conn' = [conn EXCEPT ![s] =
                IF @ = "open" /\ ~Registered(s) THEN "closing" ELSE @]
  /\ UNCHANGED <<registryVars, silent, tracked, alive, auth, joining, late>>

----------------------------------------------------------------------------
\* Slip: the sweep pings, and never terminates.
ReapOnlyPings ==
  /\ tracked # {} /\ alive' = alive \ tracked
  /\ UNCHANGED <<registryVars, conn, silent, tracked, idle, auth, joining, late>>

\* reap()
Reap ==
  /\ tracked # {}
  /\ LET dead == tracked \ alive
     IN  /\ tracked' = tracked \ dead
         /\ conn' = [s \in Sockets |-> IF s \in dead THEN "closing"
                                       ELSE conn[s]]
         /\ alive' = alive \ tracked
  /\ UNCHANGED <<registryVars, silent, idle, auth, joining, late>>

Pong(s) ==
  /\ s \in tracked \ alive /\ Heard(s)
  /\ alive' = alive \cup {s}
  /\ UNCHANGED <<registryVars, conn, silent, tracked, idle, auth, joining, late>>

Vanish(s) ==
  /\ Heard(s) /\ silent' = silent \cup {s}
  /\ UNCHANGED <<registryVars, conn, tracked, alive, idle, auth, joining, late>>

\* Slip: the disconnect leaves the membership to the registry's next user.
CloseEventForgets(s) ==
  /\ conn[s] = "closing" \/ (conn[s] = "open" /\ s \notin silent)
  /\ conn' = [conn EXCEPT ![s] = "gone"]
  /\ idle' = idle \ {s} /\ tracked' = tracked \ {s}
  /\ UNCHANGED <<registryVars, silent, alive, auth, joining, late>>

\* Slip: the sweep goes on with a socket that has closed.
CloseEventTracked(s) ==
  /\ conn[s] = "closing" \/ (conn[s] = "open" /\ s \notin silent)
  /\ conn' = [conn EXCEPT ![s] = "gone"]
  /\ idle' = idle \ {s}
  /\ IF Registered(s) THEN Unregister(s) ELSE UNCHANGED registryVars
  /\ UNCHANGED <<silent, tracked, alive, auth, joining, late>>

\* handleDisconnect(), when either end's close is done
CloseEvent(s) ==
  /\ conn[s] = "closing" \/ (conn[s] = "open" /\ s \notin silent)
  /\ conn' = [conn EXCEPT ![s] = "gone"]
  /\ idle' = idle \ {s} /\ tracked' = tracked \ {s}
  /\ IF Registered(s) THEN Unregister(s) ELSE UNCHANGED registryVars
  /\ UNCHANGED <<silent, alive, auth, joining, late>>

\* Another socket takes the name of one of which nothing is left.
Renew(s) ==
  /\ conn[s] = "gone" /\ auth[s] = None /\ s \notin joining
  /\ ~Registered(s)
  /\ s \notin {hosts[r] : r \in Rooms}
              \cup {clients[r][c] : r \in Rooms, c \in Clients}
  /\ conn' = [conn EXCEPT ![s] = "none"]
  /\ silent' = silent \ {s} /\ alive' = alive \ {s} /\ late' = late \ {s}
  /\ UNCHANGED <<registryVars, tracked, idle, auth, joining>>

Next ==
  \/ Reap
  \/ \E s \in Sockets :
        \/ Connect(s) \/ AnswerHost(s) \/ JoinPlayer(s) \/ AnswerJoin(s)
        \/ LeavePlayer(s) \/ IdleTimer(s) \/ Pong(s)
        \/ Vanish(s) \/ CloseEvent(s) \/ Renew(s)

Spec == Init /\ [][Next]_vars

\* Intervals and timeouts fire, and a socket on which close() or terminate()
\* was called closes.
FairSpec ==
  /\ Spec /\ WF_vars(Reap)
  /\ \A s \in Sockets :
        /\ WF_vars(IdleTimer(s))
        /\ WF_vars(conn[s] = "closing" /\ CloseEvent(s))

----------------------------------------------------------------------------
(* A registered socket is one the gateway still serves: a broadcast goes to
   sockets that have not gone, but for one that went while its host was being
   authenticated or its player admitted (connectHost, joinClient). *)
OnlyLateOnesAreGhosts ==
  \A s \in Sockets : Registered(s) /\ conn[s] = "gone" => s \in late

(* What is kept for a socket ends with it: neither the sweep nor an idle timer
   ever meets one that has gone (untrack, clearTimeout). *)
NothingOutlives ==
  \A s \in tracked \cup idle : conn[s] \in {"open", "closing"}

(* A phone that goes out of range without a close frees its place: the sweep
   ends its socket, and the disconnect takes it from the registry. *)
ZombiesAreFreed ==
  \A s \in Sockets :
     (conn[s] = "open" /\ s \in silent) ~> (~Registered(s) \/ s \in late)

(* A socket that never joins is closed: one whose idle timer is armed is
   registered in time, or it closes. *)
IdleAreClosed ==
  \A s \in Sockets : (conn[s] = "open" /\ s \in idle)
                        ~> (conn[s] # "open" \/ Registered(s))
==============================================================================
