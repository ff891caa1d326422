----------------------------- MODULE TrackingGateway -----------------------------
(***************************************************************************)
(* The entrances of the tracking service: updates come over HTTP or over a *)
(* websocket, and those that come over a websocket are sent on to the      *)
(* clients that watch the driver, or all drivers.                          *)
(*                                                                         *)
(* Whether a sample is the current one is decided by Redis; it is sent on  *)
(* after the history job has been queued, when other updates may have gone *)
(* by.  One socket delivers in order, so a client is shown what is sent to *)
(* its rooms at once.                                                      *)
(***************************************************************************)
EXTENDS Tracking

CONSTANTS
  Clients,         \* websocket connections there may be at one time
  Http,            \* who sends an update without one
  Gone             \* who has sent an update and closed the connection

ASSUME SendersAssumption == {Http, Gone} \cap Clients = {}

VARIABLES
  rooms,           \* the drivers a client watches; all of them in "operations"
  sender,          \* the client each update in progress has come from
  acceptedAsCurrent, \* what Redis has said of it
  shown,           \* recordedAt of what a client was sent last of a driver
  accepted,        \* history variable: samples that have been the current one
  expired          \* history variable: drivers whose hash has expired

watchVars == <<rooms, shown>>
gatewayVars == <<vars, watchVars, sender, acceptedAsCurrent, accepted, expired>>

GatewayTypeOK ==
  /\ TypeOK
  /\ rooms \in [Clients -> SUBSET Drivers]
  /\ sender \in [Calls -> Clients \cup {Http, Gone}]
  /\ acceptedAsCurrent \in [Calls -> BOOLEAN]
  /\ shown \in [Clients -> [Drivers -> MaybeTime]]
  /\ accepted \subseteq Samples
  /\ expired \subseteq Drivers

GatewayInit ==
  /\ Init
  /\ rooms = [w \in Clients |-> {}]
  /\ sender = [c \in Calls |-> Http]
  /\ acceptedAsCurrent = [c \in Calls |-> FALSE]
  /\ shown = [w \in Clients |-> [d \in Drivers |-> NoTime]]
  /\ accepted = {}
  /\ expired = {}

-------------------------------------------------------------------------------
(* Socket.IO takes the client out of its rooms.  The next connection is a  *)
(* new client, which has been shown nothing.                               *)
Disconnect(w) ==
  /\ rooms' = [rooms EXCEPT ![w] = {}]
  /\ shown' = [shown EXCEPT ![w] = [d \in Drivers |-> NoTime]]
  /\ sender' = [c \in Calls |-> IF sender[c] = w THEN Gone ELSE sender[c]]
  /\ UNCHANGED <<vars, acceptedAsCurrent, accepted, expired>>

(* To one driver, or to the operations.                                    *)
Subscribe(w, watched) ==
  /\ rooms' = [rooms EXCEPT ![w] = @ \cup watched]
  /\ UNCHANGED <<vars, sender, acceptedAsCurrent, shown, accepted, expired>>

(* The console does so whenever its socket is connected.                   *)
ConsoleConnects(w) == rooms[w] = {} /\ Subscribe(w, Drivers)

(* The first half of an update, over HTTP or over a websocket.             *)
ReceiveUpdate(w, c, d, t) ==
  /\ Upsert(c, d, t)
  /\ sender' = [sender EXCEPT ![c] = w]
  /\ acceptedAsCurrent' = [acceptedAsCurrent EXCEPT ![c] = ~IsLate(d, t)]
  /\ accepted' = IF IsLate(d, t) THEN accepted ELSE accepted \cup {<<d, t>>}
  /\ UNCHANGED <<watchVars, expired>>

(* Mutation of SentOn: a late sample is sent on like any other.            *)
SentOnAlways(c) == sender[c] # Http

SentOn(c) == sender[c] # Http /\ acceptedAsCurrent[c]

Forget(c) ==
  /\ sender' = [sender EXCEPT ![c] = Http]
  /\ acceptedAsCurrent' = [acceptedAsCurrent EXCEPT ![c] = FALSE]

(* The second half: the sender joins the room of the driver, unless it has *)
(* gone, and the sample is sent to those who watch.                        *)
FinishUpdate(c) ==
  /\ Enqueue(c)
  /\ \E s \in call[c] :
       LET joined == [w \in Clients |->
             IF w = sender[c] THEN rooms[w] \cup {s[1]} ELSE rooms[w]]
       IN
       /\ rooms' = joined
       /\ shown' = [w \in Clients |->
            IF SentOn(c) /\ s[1] \in joined[w] THEN [shown[w] EXCEPT ![s[1]] = s[2]]
            ELSE shown[w]]
  /\ Forget(c)
  /\ UNCHANGED <<accepted, expired>>

FailUpdate(c) ==
  /\ Interrupt(c)
  /\ Forget(c)
  /\ UNCHANGED <<watchVars, accepted, expired>>

ExpireLive(d) ==
  /\ Expire(d)
  /\ expired' = expired \cup {d}
  /\ UNCHANGED <<watchVars, sender, acceptedAsCurrent, accepted>>

RunHistoryJob(s) ==
  /\ Persist(s) \/ FailJob(s) \/ RemoveJob(s)
  /\ UNCHANGED <<watchVars, sender, acceptedAsCurrent, accepted, expired>>

GatewayNext ==
  \/ \E w \in Clients : Disconnect(w) \/ ConsoleConnects(w)
  \/ \E w \in Clients, d \in Drivers : Subscribe(w, {d})
  \/ \E w \in Clients \cup {Http}, c \in Calls, d \in Drivers, t \in Times :
       ReceiveUpdate(w, c, d, t)
  \/ \E c \in Calls : FinishUpdate(c) \/ FailUpdate(c)
  \/ \E d \in Drivers : ExpireLive(d)
  \/ \E s \in Samples : RunHistoryJob(s)

GatewaySpec == GatewayInit /\ [][GatewayNext]_gatewayVars

-------------------------------------------------------------------------------
(* A watcher is only sent samples that Redis has accepted as current, late *)
(* ones never.  It goes back in time only when the sample has been         *)
(* overtaken by a newer one between the two halves of its update, or when  *)
(* the live position of the driver has expired at some time.               *)
WatchersFollowLive ==
  [][\A w \in Clients, d \in Drivers :
       shown'[w][d] \notin {shown[w][d], NoTime} =>
         /\ <<d, shown'[w][d]>> \in accepted
         /\ \/ shown'[w][d] > shown[w][d]
            \/ hash[d] > shown'[w][d]
            \/ d \in expired]_gatewayVars
===============================================================================
