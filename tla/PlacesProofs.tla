------------------------------ MODULE PlacesProofs ------------------------------
(***************************************************************************)
(* Safety of the components that deal with places, and of the gateway they *)
(* are asked through, for any drivers, clients, times, waypoints and calls.*)
(* The candidate search and the route planner have modules of their own;   *)
(* here are the tracking service with its watchers, the map and the calls, *)
(* and last the five of them next to each other, as the run has them.      *)
(***************************************************************************)
EXTENDS MCPlaces, CandidateSearchProofs, RoutePlannerProofs

(***************************************************************************)
(* The tracking service: its history and its latest positions for any      *)
(* number of updates in progress; what watchers are sent; and that the     *)
(* service with its gateway is still the tracking service.                 *)
(***************************************************************************)
(* HistoryIsComplete is not inductive by itself: an update may find a job  *)
(* that is done and add none.  DoneIsStored is what then vouches for the   *)
(* sample.                                                                 *)
TrackingInv ==
  TypeOK /\ HistoryIsComplete /\ LatestRow /\ DoneIsStored /\ LiveIsIndexed

-------------------------------------------------------------------------------
LEMMA TrackingInit == Init => TrackingInv
<1> SUFFICES ASSUME Init PROVE TrackingInv
  OBVIOUS
<1> USE TimesAssumption DEF Init, MaybeTime, NoTime
<1>1. TypeOK  BY DEF TypeOK
<1>2. HistoryIsComplete  BY DEF HistoryIsComplete
<1>3. LatestRow  BY DEF LatestRow
<1>4. DoneIsStored  BY DEF DoneIsStored
<1>5. LiveIsIndexed  BY DEF LiveIsIndexed
<1>6. QED  BY <1>1, <1>2, <1>3, <1>4, <1>5 DEF TrackingInv

(* The update: the live position and the jobs.                             *)
LEMMA UpsertInv ==
  ASSUME TrackingInv, NEW c \in Calls, NEW d \in Drivers, NEW t \in Times, Upsert(c, d, t)
  PROVE  TrackingInv'
<1> USE DEF TrackingInv, Upsert
<1>1. TypeOK'  BY DEF TypeOK, MaybeTime, Samples
<1>2. HistoryIsComplete'
  <2> SUFFICES ASSUME NEW s \in received', s \notin history \cup lost,
                      job[s] \notin {"waiting", "failed"}
               PROVE  \E c2 \in Calls : s \in call'[c2]
    BY DEF HistoryIsComplete
  <2>1. CASE s = <<d, t>>
    BY <2>1 DEF TypeOK
  <2>2. CASE s # <<d, t>>
    <3>1. PICK c2 \in Calls : s \in call[c2]
      BY <2>2 DEF HistoryIsComplete
    <3>2. c2 # c
      BY <3>1
    <3>3. QED  BY <3>1, <3>2 DEF TypeOK
  <2>3. QED  BY <2>1, <2>2
<1>3. LatestRow'  BY DEF LatestRow
<1>4. DoneIsStored'  BY DEF DoneIsStored
<1>5. LiveIsIndexed'  BY DEF LiveIsIndexed, TypeOK
<1>6. QED  BY <1>1, <1>2, <1>3, <1>4, <1>5

LEMMA EnqueueInv ==
  ASSUME TrackingInv, NEW c \in Calls, Enqueue(c)
  PROVE  TrackingInv'
<1> USE DEF TrackingInv, Enqueue
<1>1. TypeOK'  BY DEF TypeOK
<1>2. HistoryIsComplete'
  <2> SUFFICES ASSUME NEW s \in received, s \notin history \cup lost,
                      job'[s] \notin {"waiting", "failed"}
               PROVE  \E c2 \in Calls : s \in call'[c2]
    BY DEF HistoryIsComplete
  <2>1. s \in Samples
    BY DEF TypeOK
  <2>2. job[s] \notin {"waiting", "failed"}
    BY <2>1
  <2>3. job[s] = "none"
    BY <2>1, <2>2 DEF TypeOK, DoneIsStored
  <2>4. s \notin call[c]
    BY <2>1, <2>3
  <2>5. PICK c2 \in Calls : s \in call[c2]
    BY <2>2 DEF HistoryIsComplete
  <2>6. QED  BY <2>4, <2>5 DEF TypeOK
<1>3. LatestRow'  BY DEF LatestRow
<1>4. DoneIsStored'  BY DEF DoneIsStored
<1>5. LiveIsIndexed'  BY DEF LiveIsIndexed
<1>6. QED  BY <1>1, <1>2, <1>3, <1>4, <1>5

LEMMA InterruptInv ==
  ASSUME TrackingInv, NEW c \in Calls, Interrupt(c)
  PROVE  TrackingInv'
<1> USE DEF TrackingInv, Interrupt
<1>1. TypeOK'  BY DEF TypeOK
<1>2. HistoryIsComplete'  BY DEF HistoryIsComplete, TypeOK
<1>3. LatestRow'  BY DEF LatestRow
<1>4. DoneIsStored'  BY DEF DoneIsStored
<1>5. LiveIsIndexed'  BY DEF LiveIsIndexed
<1>6. QED  BY <1>1, <1>2, <1>3, <1>4, <1>5

LEMMA ExpireInv ==
  ASSUME TrackingInv, NEW d \in Drivers, Expire(d)
  PROVE  TrackingInv'
<1> USE DEF TrackingInv, Expire
<1>1. TypeOK'  BY DEF TypeOK, MaybeTime
<1>2. HistoryIsComplete'  BY DEF HistoryIsComplete
<1>3. LatestRow'  BY DEF LatestRow
<1>4. DoneIsStored'  BY DEF DoneIsStored
<1>5. LiveIsIndexed'  BY DEF LiveIsIndexed, TypeOK
<1>6. QED  BY <1>1, <1>2, <1>3, <1>4, <1>5

(* A sample is the pair of its driver and its time.                        *)
LEMMA SamplePair ==
  ASSUME NEW s \in Samples
  PROVE  s[1] \in Drivers /\ s[2] \in Times /\ s[2] \in Nat /\ s = <<s[1], s[2]>>
<1>1. PICK d \in Drivers, t \in Times : s = <<d, t>>
  BY DEF Samples
<1>2. t \in Nat
  BY TimesAssumption DEF TimesAssumption
<1>3. QED  BY <1>1, <1>2

(* Values of latest are numbers.                                           *)
LEMMA LatestNumbers ==
  ASSUME TypeOK
  PROVE  \A d \in Drivers : latest[d] \in Nat
<1>1. MaybeTime \subseteq Nat
  BY TimesAssumption DEF TimesAssumption, MaybeTime, NoTime
<1>2. QED  BY <1>1 DEF TypeOK

(* The jobs: the history, its newest row and what is left to do.           *)
LEMMA PersistInv ==
  ASSUME TrackingInv, NEW s \in Samples, Persist(s)
  PROVE  TrackingInv'
<1> USE DEF TrackingInv, Persist
<1>1. TypeOK'  BY DEF TypeOK, Samples, MaybeTime
<1>2. HistoryIsComplete'  BY DEF HistoryIsComplete, TypeOK
<1>3. LatestRow'
  <2>1. s[1] \in Drivers /\ s[2] \in Nat /\ s = <<s[1], s[2]>>
    BY SamplePair
  <2>2. \A e \in Drivers : latest[e] \in Nat
    BY LatestNumbers
  <2>3. latest' = IF latest[s[1]] <= s[2] THEN [latest EXCEPT ![s[1]] = s[2]] ELSE latest
    BY DEF Supersedes
  <2>4. ASSUME NEW r \in history' PROVE r[2] <= latest'[r[1]]
    <3>1. r \in Samples
      BY <1>1 DEF TypeOK
    <3>2. r[1] \in Drivers /\ r[2] \in Nat
      BY <3>1, SamplePair
    <3>3. CASE r = s
      BY <2>1, <2>2, <2>3, <3>3 DEF TypeOK
    <3>4. CASE r # s
      <4>1. r[2] <= latest[r[1]]
        BY <3>4 DEF LatestRow
      <4>2. QED  BY <2>1, <2>2, <2>3, <3>2, <4>1 DEF TypeOK
    <3>5. QED  BY <3>3, <3>4
  <2>5. ASSUME NEW e \in Drivers, latest'[e] # NoTime PROVE <<e, latest'[e]>> \in history'
    <3>1. CASE latest'[e] = latest[e]
      BY <2>5, <3>1 DEF LatestRow
    <3>2. CASE latest'[e] # latest[e]
      BY <2>1, <2>3, <3>2 DEF TypeOK
    <3>3. QED  BY <3>1, <3>2
  <2>6. QED  BY <2>4, <2>5 DEF LatestRow
<1>4. DoneIsStored'  BY DEF DoneIsStored, TypeOK
<1>5. LiveIsIndexed'  BY DEF LiveIsIndexed
<1>6. QED  BY <1>1, <1>2, <1>3, <1>4, <1>5

LEMMA FailJobInv ==
  ASSUME TrackingInv, NEW s \in Samples, FailJob(s)
  PROVE  TrackingInv'
<1> USE DEF TrackingInv, FailJob
<1>1. TypeOK'  BY DEF TypeOK
<1>2. HistoryIsComplete'  BY DEF HistoryIsComplete, TypeOK
<1>3. LatestRow'  BY DEF LatestRow
<1>4. DoneIsStored'  BY DEF DoneIsStored, TypeOK
<1>5. LiveIsIndexed'  BY DEF LiveIsIndexed
<1>6. QED  BY <1>1, <1>2, <1>3, <1>4, <1>5

LEMMA RemoveJobInv ==
  ASSUME TrackingInv, NEW s \in Samples, RemoveJob(s)
  PROVE  TrackingInv'
<1> USE DEF TrackingInv, RemoveJob
<1>1. TypeOK'  BY DEF TypeOK
<1>2. HistoryIsComplete'
  <2>1. job[s] = "done" => s \in history
    BY DEF DoneIsStored
  <2>2. s \in history' \cup lost'
    BY <2>1
  <2>3. QED  BY <2>2 DEF HistoryIsComplete, TypeOK
<1>3. LatestRow'  BY DEF LatestRow
<1>4. DoneIsStored'  BY DEF DoneIsStored, TypeOK
<1>5. LiveIsIndexed'  BY DEF LiveIsIndexed
<1>6. QED  BY <1>1, <1>2, <1>3, <1>4, <1>5

LEMMA TrackingNext ==
  ASSUME TrackingInv, [Next]_vars
  PROVE  TrackingInv'
<1>1. CASE \E c \in Calls : Enqueue(c) \/ Interrupt(c)
  BY <1>1, EnqueueInv, InterruptInv
<1>2. CASE \E c \in Calls, d \in Drivers, t \in Times : Upsert(c, d, t)
  BY <1>2, UpsertInv
<1>3. CASE \E d \in Drivers : Expire(d)
  BY <1>3, ExpireInv
<1>4. CASE \E s \in Samples : Persist(s) \/ FailJob(s) \/ RemoveJob(s)
  BY <1>4, PersistInv, FailJobInv, RemoveJobInv
<1>5. CASE UNCHANGED vars
  BY <1>5 DEF vars, TrackingInv, TypeOK, HistoryIsComplete, LatestRow,
              DoneIsStored, LiveIsIndexed
<1>6. QED  BY <1>1, <1>2, <1>3, <1>4, <1>5 DEF Next

-------------------------------------------------------------------------------
(* The inductive invariant.                                                *)
THEOREM TrackingInvariance == Spec => []TrackingInv
<1>1. TrackingInv /\ [Next]_vars => TrackingInv'
  BY TrackingNext
<1>2. QED  BY TrackingInit, <1>1, PTL DEF Spec

(* Types are kept, and searches by GEO entry find a live driver where its  *)
(* hash says it is.                                                        *)
THEOREM LiveIsWhereIndexed == Spec => [](TypeOK /\ LiveIsIndexed)
<1>1. TrackingInv => TypeOK /\ LiveIsIndexed
  BY DEF TrackingInv
<1>2. QED  BY TrackingInvariance, <1>1, PTL

(* Every sample that has reached Redis is in the history, on its way, or   *)
(* counted as given up: upsert, enqueue and the worker together forget     *)
(* none, the repeated ones that BullMQ ignores included.                   *)
THEOREM HistoryKeepsSamples == Spec => []HistoryIsComplete
<1>1. TrackingInv => HistoryIsComplete
  BY DEF TrackingInv
<1>2. QED  BY TrackingInvariance, <1>1, PTL

(* GET latest falls back on the newest row of the history, whatever the    *)
(* order in which the workers of the service write the samples.            *)
THEOREM LatestFollowsHistory == Spec => []LatestIsNewest
<1>1. TrackingInv => LatestIsNewest
  BY DEF TrackingInv, LatestRow, LatestIsNewest, GetLatest, GetHistory
<1>2. QED  BY TrackingInvariance, <1>1, PTL

(* Until its hash expires, a live position does not go back in time, for   *)
(* any order in which samples arrive: the guard compares with the hash,    *)
(* and the GEO entry is in step with it.                                   *)
THEOREM LivePositionsAdvance == Spec => LiveMovesForward
<1>1. ASSUME TrackingInv, [Next]_vars, NEW d \in Drivers, hash[d] # NoTime
      PROVE  geo'[d] >= geo[d]
  <2> USE TimesAssumption DEF TrackingInv, TypeOK, MaybeTime, NoTime
  <2>1. geo[d] \in Nat /\ hash[d] = geo[d]
    BY <1>1 DEF LiveIsIndexed
  <2>2. CASE geo' = geo
    BY <2>1, <2>2
  <2>3. ASSUME NEW c \in Calls, NEW e \in Drivers, NEW t \in Times, Upsert(c, e, t)
        PROVE  geo'[d] >= geo[d]
    BY <1>1, <2>1, <2>3 DEF Upsert, IsLate
  <2>4. QED
    BY <1>1, <2>2, <2>3
    DEF Next, vars, Enqueue, Interrupt, Expire, Persist, FailJob, RemoveJob
<1>2. TrackingInv /\ [Next]_vars =>
        [\A d \in Drivers : hash[d] # NoTime => geo'[d] >= geo[d]]_vars
  BY <1>1
<1>3. QED  BY TrackingInvariance, <1>2, PTL DEF Spec, LiveMovesForward

-------------------------------------------------------------------------------
(* The gateway.                                                            *)

(* The hash of a driver is not older than this, or has expired once.       *)
NotAfterLive(d, t) == t <= hash[d] \/ d \in expired

(* Between the two halves of an update, what Redis said of it stays true.  *)
AcceptedStays ==
  \A c \in Calls : acceptedAsCurrent[c] =>
    \A s \in call[c] : s \in accepted /\ NotAfterLive(s[1], s[2])

ShownStays == \A w \in Clients, d \in Drivers : NotAfterLive(d, shown[w][d])

(* WatchersFollowLive speaks of a step; these are what it finds.           *)
WatchInv == GatewayTypeOK /\ AcceptedStays /\ ShownStays

-------------------------------------------------------------------------------
LEMMA WatchInit == GatewayInit => WatchInv
<1> SUFFICES ASSUME GatewayInit PROVE WatchInv
  OBVIOUS
<1> USE TimesAssumption DEF GatewayInit, Init
<1>1. GatewayTypeOK  BY DEF GatewayTypeOK, TypeOK, MaybeTime, NoTime
<1>2. AcceptedStays /\ ShownStays
  BY DEF AcceptedStays, ShownStays, NotAfterLive, NoTime
<1>3. QED  BY <1>1, <1>2 DEF WatchInv

LEMMA TimesAreNumbers == MaybeTime \subseteq Nat
BY TimesAssumption DEF MaybeTime, NoTime

(* Clients come and go; a new one has been sent nothing.                   *)
LEMMA ClientsWatch ==
  ASSUME WatchInv, NEW w \in Clients,
         Disconnect(w) \/ ConsoleConnects(w) \/ \E d \in Drivers : Subscribe(w, {d})
  PROVE  WatchInv'
<1> USE TimesAreNumbers DEF WatchInv, Disconnect, ConsoleConnects, Subscribe, vars
<1>1. GatewayTypeOK'
  <2>1. TypeOK'  BY DEF GatewayTypeOK, TypeOK
  <2>2. /\ rooms' \in [Clients -> SUBSET Drivers]
        /\ sender' \in [Calls -> Clients \cup {Http, Gone}]
    BY DEF GatewayTypeOK
  <2>3. shown' \in [Clients -> [Drivers -> MaybeTime]]
    BY DEF GatewayTypeOK, MaybeTime
  <2>4. QED  BY <2>1, <2>2, <2>3 DEF GatewayTypeOK
<1>2. AcceptedStays'  BY DEF AcceptedStays, NotAfterLive
<1>3. ShownStays'
  <2>1. \A v \in Clients, d \in Drivers : shown'[v][d] = shown[v][d] \/ shown'[v][d] = 0
    BY DEF GatewayTypeOK, NoTime
  <2>2. \A d \in Drivers : hash[d] \in Nat  BY DEF GatewayTypeOK, TypeOK
  <2>3. QED  BY <2>1, <2>2 DEF ShownStays, NotAfterLive
<1>4. QED  BY <1>1, <1>2, <1>3

(* An accepted sample moves the hash on, a late one leaves it.             *)
LEMMA ReceiveWatch ==
  ASSUME WatchInv, NEW w \in Clients \cup {Http}, NEW c \in Calls, NEW d \in Drivers,
         NEW t \in Times, ReceiveUpdate(w, c, d, t)
  PROVE  WatchInv'
<1> USE TimesAreNumbers DEF WatchInv, ReceiveUpdate, Upsert, watchVars
<1>1. GatewayTypeOK'
  <2>1. <<d, t>> \in Samples /\ t \in MaybeTime  BY DEF Samples, MaybeTime
  <2>2. TypeOK'  BY <2>1 DEF GatewayTypeOK, TypeOK
  <2>3. /\ sender' \in [Calls -> Clients \cup {Http, Gone}]
        /\ acceptedAsCurrent' \in [Calls -> BOOLEAN]
    BY DEF GatewayTypeOK, IsLate
  <2>4. accepted' \subseteq Samples  BY <2>1 DEF GatewayTypeOK
  <2>5. QED  BY <2>2, <2>3, <2>4 DEF GatewayTypeOK
<1>2. t \in Nat /\ \A e \in Drivers : hash[e] \in Nat
  BY DEF GatewayTypeOK, TypeOK, MaybeTime
<1>3. \A e \in Drivers, u \in Nat : NotAfterLive(e, u) => NotAfterLive(e, u)'
  BY <1>2 DEF NotAfterLive, IsLate, GatewayTypeOK, TypeOK
<1>4. AcceptedStays'
  <2> SUFFICES ASSUME NEW b \in Calls, acceptedAsCurrent'[b], NEW s \in call'[b]
               PROVE  s \in accepted' /\ NotAfterLive(s[1], s[2])'
    BY DEF AcceptedStays
  <2>1. CASE b = c
    <3>1. s = <<d, t>> /\ ~IsLate(d, t)
      BY <2>1 DEF GatewayTypeOK, TypeOK
    <3>2. hash'[d] = t /\ s \in accepted'
      BY <3>1 DEF GatewayTypeOK, TypeOK
    <3>3. QED  BY <1>2, <3>1, <3>2 DEF NotAfterLive
  <2>2. CASE b # c
    <3>1. acceptedAsCurrent[b] /\ s \in call[b] /\ s \in Samples
      BY <2>2 DEF GatewayTypeOK, TypeOK
    <3>2. s[1] \in Drivers /\ s[2] \in Nat  BY <3>1 DEF Samples, MaybeTime
    <3>3. QED  BY <1>3, <3>1, <3>2 DEF AcceptedStays
  <2>3. QED  BY <2>1, <2>2
<1>5. ShownStays'
  <2>1. \A v \in Clients, e \in Drivers : shown[v][e] \in Nat  BY DEF GatewayTypeOK
  <2>2. QED  BY <1>3, <2>1 DEF ShownStays
<1>6. QED  BY <1>1, <1>4, <1>5

(* What is sent was accepted when the update began.                        *)
LEMMA FinishWatch ==
  ASSUME WatchInv, NEW c \in Calls, FinishUpdate(c)
  PROVE  WatchInv'
<1> USE DEF WatchInv, FinishUpdate, Enqueue, Forget
<1>1. PICK s \in call[c] :
        LET joined == [w \in Clients |->
              IF w = sender[c] THEN rooms[w] \cup {s[1]} ELSE rooms[w]]
        IN /\ rooms' = joined
           /\ shown' = [w \in Clients |->
                IF SentOn(c) /\ s[1] \in joined[w] THEN [shown[w] EXCEPT ![s[1]] = s[2]]
                ELSE shown[w]]
  OBVIOUS
<1>2. s \in Samples /\ s[1] \in Drivers /\ s[2] \in Times
  BY DEF GatewayTypeOK, TypeOK, Samples
<1>3. GatewayTypeOK'
  <2>1. TypeOK'  BY DEF GatewayTypeOK, TypeOK
  <2>2. rooms' \in [Clients -> SUBSET Drivers]  BY <1>1, <1>2 DEF GatewayTypeOK
  <2>3. shown' \in [Clients -> [Drivers -> MaybeTime]]
    BY <1>1, <1>2 DEF GatewayTypeOK, MaybeTime
  <2>4. sender' \in [Calls -> Clients \cup {Http, Gone}]
        /\ acceptedAsCurrent' \in [Calls -> BOOLEAN]
    BY DEF GatewayTypeOK
  <2>5. QED  BY <2>1, <2>2, <2>3, <2>4 DEF GatewayTypeOK
<1>4. AcceptedStays'
  BY DEF AcceptedStays, NotAfterLive, GatewayTypeOK, TypeOK
<1>5. ShownStays'
  <2> SUFFICES ASSUME NEW w \in Clients, NEW d \in Drivers
               PROVE  NotAfterLive(d, shown'[w][d])
    BY DEF ShownStays, NotAfterLive
  <2>1. CASE shown'[w][d] = shown[w][d]  BY <2>1 DEF ShownStays
  <2>2. CASE shown'[w][d] # shown[w][d]
    <3>1. SentOn(c) /\ d = s[1] /\ shown'[w][d] = s[2]
      BY <1>1, <2>2 DEF GatewayTypeOK
    <3>2. QED  BY <3>1 DEF AcceptedStays, SentOn
  <2>3. QED  BY <2>1, <2>2
<1>6. QED  BY <1>3, <1>4, <1>5

LEMMA RestWatch ==
  ASSUME WatchInv,
         \/ \E c \in Calls : FailUpdate(c)
         \/ \E d \in Drivers : ExpireLive(d)
         \/ \E s \in Samples : RunHistoryJob(s)
  PROVE  WatchInv'
<1>1. ASSUME NEW c \in Calls, FailUpdate(c) PROVE WatchInv'
  <2> USE <1>1 DEF WatchInv, FailUpdate, Interrupt, Forget, watchVars
  <2>1. GatewayTypeOK'  BY DEF GatewayTypeOK, TypeOK
  <2>2. AcceptedStays'  BY DEF AcceptedStays, NotAfterLive, GatewayTypeOK, TypeOK
  <2>3. ShownStays'  BY DEF ShownStays, NotAfterLive
  <2>4. QED  BY <2>1, <2>2, <2>3
<1>2. ASSUME NEW d \in Drivers, ExpireLive(d) PROVE WatchInv'
  <2> USE <1>2 DEF WatchInv, ExpireLive, Expire, watchVars
  <2>1. GatewayTypeOK'  BY DEF GatewayTypeOK, TypeOK, MaybeTime
  <2>2. \A e \in Drivers : e \in expired' \/ hash'[e] = hash[e]
    BY DEF GatewayTypeOK, TypeOK
  <2>3. AcceptedStays'
    BY <2>2 DEF AcceptedStays, NotAfterLive, GatewayTypeOK, TypeOK, Samples
  <2>4. ShownStays'  BY <2>2 DEF ShownStays, NotAfterLive
  <2>5. QED  BY <2>1, <2>3, <2>4
<1>3. ASSUME NEW s \in Samples, RunHistoryJob(s) PROVE WatchInv'
  <2> USE <1>3 DEF WatchInv, RunHistoryJob, Persist, FailJob, RemoveJob, watchVars
  <2>1. TypeOK'
    <3>1. latest' \in [Drivers -> MaybeTime]
      BY DEF GatewayTypeOK, TypeOK, Samples, MaybeTime
    <3>2. job' \in [Samples -> {"none", "waiting", "done", "failed"}]
      BY DEF GatewayTypeOK, TypeOK
    <3>3. QED  BY <3>1, <3>2 DEF GatewayTypeOK, TypeOK
  <2>2. GatewayTypeOK'  BY <2>1 DEF GatewayTypeOK
  <2>3. AcceptedStays' /\ ShownStays'  BY DEF AcceptedStays, ShownStays, NotAfterLive
  <2>4. QED  BY <2>2, <2>3
<1>4. QED  BY <1>1, <1>2, <1>3

-------------------------------------------------------------------------------
(* The inductive invariant of the gateway: of what Redis has accepted, and *)
(* of what a client was sent last, nothing is newer than the live position *)
(* unless that has expired.                                                *)
THEOREM WatchInvariance == GatewaySpec => []WatchInv
<1>1. GatewayInit => WatchInv  BY WatchInit
<1>2. WatchInv /\ [GatewayNext]_gatewayVars => WatchInv'
  <2> SUFFICES ASSUME WatchInv, [GatewayNext]_gatewayVars PROVE WatchInv'
    OBVIOUS
  <2>1. ASSUME NEW w \in Clients,
               Disconnect(w) \/ ConsoleConnects(w) \/ \E d \in Drivers : Subscribe(w, {d})
        PROVE  WatchInv'
    BY <2>1, ClientsWatch
  <2>2. ASSUME NEW w \in Clients \cup {Http}, NEW c \in Calls, NEW d \in Drivers,
               NEW t \in Times, ReceiveUpdate(w, c, d, t)
        PROVE  WatchInv'
    BY <2>2, ReceiveWatch
  <2>3. ASSUME NEW c \in Calls, FinishUpdate(c) PROVE WatchInv'
    BY <2>3, FinishWatch
  <2>4. ASSUME \/ \E c \in Calls : FailUpdate(c)
               \/ \E d \in Drivers : ExpireLive(d)
               \/ \E s \in Samples : RunHistoryJob(s)
        PROVE  WatchInv'
    BY <2>4, RestWatch
  <2>5. CASE UNCHANGED gatewayVars
    BY <2>5 DEF gatewayVars, vars, watchVars, WatchInv, GatewayTypeOK, TypeOK,
       AcceptedStays, ShownStays, NotAfterLive
  <2>6. QED  BY <2>1, <2>2, <2>3, <2>4, <2>5 DEF GatewayNext
<1>3. QED  BY <1>1, <1>2, PTL DEF GatewaySpec

(* However updates, clients and expiries interleave: a watcher is only     *)
(* sent what was the current sample when it came, and goes back in time    *)
(* only behind a newer one that is live, or after an expiry.               *)
THEOREM WatchersAreNotMisled == GatewaySpec => WatchersFollowLive
<1>1. WatchInv /\ [GatewayNext]_gatewayVars =>
        [\A w \in Clients, d \in Drivers :
           shown'[w][d] \notin {shown[w][d], NoTime} =>
             /\ <<d, shown'[w][d]>> \in accepted
             /\ \/ shown'[w][d] > shown[w][d]
                \/ hash[d] > shown'[w][d]
                \/ d \in expired]_gatewayVars
  <2> SUFFICES ASSUME WatchInv, GatewayNext, NEW w \in Clients, NEW d \in Drivers,
                      shown'[w][d] \notin {shown[w][d], NoTime}
               PROVE  /\ <<d, shown'[w][d]>> \in accepted
                      /\ \/ shown'[w][d] > shown[w][d]
                         \/ hash[d] > shown'[w][d]
                         \/ d \in expired
    OBVIOUS
  <2>1. PICK c \in Calls : FinishUpdate(c)
    <3>1. ~ \E v \in Clients : Disconnect(v)
      BY DEF Disconnect, WatchInv, GatewayTypeOK
    <3>2. QED
      BY <3>1 DEF GatewayNext, ConsoleConnects, Subscribe, ReceiveUpdate, FailUpdate,
         ExpireLive, RunHistoryJob, watchVars
  <2>2. PICK s \in call[c] : SentOn(c) /\ s[1] = d /\ s[2] = shown'[w][d]
    BY <2>1 DEF FinishUpdate, WatchInv, GatewayTypeOK
  <2>3. s \in accepted /\ s = <<d, shown'[w][d]>> /\ NotAfterLive(d, shown'[w][d])
    BY <2>2 DEF WatchInv, AcceptedStays, SentOn, GatewayTypeOK, TypeOK, Samples
  <2>4. NotAfterLive(d, shown[w][d])  BY DEF WatchInv, ShownStays
  <2>5. {shown[w][d], hash[d], shown'[w][d]} \subseteq Nat
    BY <2>2, TimesAreNumbers DEF WatchInv, GatewayTypeOK, TypeOK, Samples, MaybeTime
  <2>6. QED  BY <2>3, <2>4, <2>5 DEF NotAfterLive
<1>2. QED  BY <1>1, WatchInvariance, PTL DEF GatewaySpec, WatchersFollowLive

-------------------------------------------------------------------------------
(* The entrances add nothing to the tracking service: every step of theirs *)
(* is one of its own, or a stutter, so that what is proved of it holds of  *)
(* the two together.                                                       *)
THEOREM GatewayTracks == GatewaySpec => Spec
<1>1. GatewayInit => Init  BY DEF GatewayInit
<1>2. [GatewayNext]_gatewayVars => [Next]_vars
  <2> SUFFICES ASSUME GatewayNext PROVE [Next]_vars
    BY DEF gatewayVars
  <2>1. CASE \E w \in Clients :
               Disconnect(w) \/ ConsoleConnects(w) \/ \E d \in Drivers : Subscribe(w, {d})
    BY <2>1 DEF Disconnect, ConsoleConnects, Subscribe
  <2>2. CASE \E w \in Clients \cup {Http}, c \in Calls, d \in Drivers, t \in Times :
               ReceiveUpdate(w, c, d, t)
    BY <2>2 DEF ReceiveUpdate, Next
  <2>3. CASE \E c \in Calls : FinishUpdate(c) \/ FailUpdate(c)
    BY <2>3 DEF FinishUpdate, FailUpdate, Next
  <2>4. CASE \E d \in Drivers : ExpireLive(d)
    BY <2>4 DEF ExpireLive, Next
  <2>5. CASE \E s \in Samples : RunHistoryJob(s)
    BY <2>5 DEF RunHistoryJob, Next
  <2>6. QED  BY <2>1, <2>2, <2>3, <2>4, <2>5 DEF GatewayNext
<1>3. QED  BY <1>1, <1>2, PTL DEF GatewaySpec, Spec

(* For one: whoever an update comes from and whoever watches, no sample is *)
(* forgotten, and the latest position is the newest there is.              *)
THEOREM GatewayForgetsNothing == GatewaySpec => [](HistoryIsComplete /\ LatestIsNewest)
BY GatewayTracks, HistoryKeepsSamples, LatestFollowsHistory, PTL

(***************************************************************************)
(* The line on the map, for any lists of waypoints and any number of       *)
(* requests to the routing service.                                        *)
(***************************************************************************)
(* Only the request for the stops shown is open, for the effect aborts the *)
(* one before it.                                                          *)
OpenIsCurrent ==
  \A f \in Fetches : fetch[f].state = "open" => fetch[f].route = waypoints

(* RoadIsCurrent is not inductive: an answer is drawn as the route that was *)
(* asked for, so that has to be the one shown; and between two answers the *)
(* ETA by road may be of another route only while the line is direct.      *)
MapInv ==
  /\ MapTypeOK
  /\ OpenIsCurrent
  /\ geometry = waypoints
  /\ source = "road" => roadEta \in {waypoints, NoRoute}
  /\ source = "none" => roadEta = NoRoute

-------------------------------------------------------------------------------
LEMMA MapInvInit == MapInit => MapInv
BY DEF MapInit, MapInv, MapTypeOK, OpenIsCurrent, NoFetch

(* After the cleanup of the effect no request is open.                     *)
LEMMA CleanupAborts ==
  ASSUME MapTypeOK
  PROVE  /\ Aborted \in [Fetches -> [state : {"none", "open", "aborted"},
                                     route : Waypoints \cup {NoRoute}]]
         /\ \A f \in Fetches : Aborted[f].state # "open"
BY DEF MapTypeOK, Aborted

LEMMA ClearRouteInv == MapInv /\ ClearRoute => MapInv'
BY CleanupAborts DEF MapInv, ClearRoute, MapTypeOK, OpenIsCurrent

LEMMA ShowRouteInv ==
  ASSUME MapInv, NEW w \in Waypoints, ShowRoute(w)
  PROVE  MapInv'
<1> USE DEF MapInv, ShowRoute
<1>1. PICK f \in Fetches :
        fetch' = [Aborted EXCEPT ![f] = [state |-> "open", route |-> w]]
  OBVIOUS
<1>2. MapTypeOK'  BY <1>1, CleanupAborts DEF MapTypeOK
<1>3. OpenIsCurrent'  BY <1>1, CleanupAborts DEF OpenIsCurrent
<1>4. QED  BY <1>2, <1>3

(* The answer of an open request is about the stops shown.                 *)
LEMMA AnswerInv ==
  ASSUME MapInv, NEW f \in Fetches, RoadAnswered(f) \/ RoadFailed(f)
  PROVE  MapInv'
<1> USE DEF MapInv, RoadAnswered, RoadFailed
<1>1. fetch[f].route = waypoints  BY DEF OpenIsCurrent
<1>2. MapTypeOK'  BY <1>1 DEF MapTypeOK, NoFetch
<1>3. OpenIsCurrent'  BY DEF MapTypeOK, OpenIsCurrent, NoFetch
<1>4. QED  BY <1>1, <1>2, <1>3

LEMMA AbortInv ==
  ASSUME MapInv, NEW f \in Fetches, RoadTimeout(f) \/ AbortSettled(f)
  PROVE  MapInv'
<1> USE DEF MapInv, RoadTimeout, AbortSettled
<1>1. MapTypeOK'  BY DEF MapTypeOK, NoFetch
<1>2. OpenIsCurrent'  BY DEF MapTypeOK, OpenIsCurrent, NoFetch
<1>3. QED  BY <1>1, <1>2

-------------------------------------------------------------------------------
(* The inductive invariant of the map: types, and that the one request to  *)
(* the routing service which can still be answered (the effect aborts the  *)
(* others) is about the stops shown.                                       *)
THEOREM MapInvariance == MapSpec => []MapInv
<1>1. MapInit => MapInv  BY MapInvInit
<1>2. MapInv /\ [MapNext]_mapVars => MapInv'
  <2> SUFFICES ASSUME MapInv, [MapNext]_mapVars PROVE MapInv'
    OBVIOUS
  <2>1. CASE ClearRoute  BY <2>1, ClearRouteInv
  <2>2. ASSUME NEW w \in Waypoints, ShowRoute(w) PROVE MapInv'
    BY <2>2, ShowRouteInv
  <2>3. ASSUME NEW f \in Fetches, RoadAnswered(f) \/ RoadFailed(f) PROVE MapInv'
    BY <2>3, AnswerInv
  <2>4. ASSUME NEW f \in Fetches, RoadTimeout(f) \/ AbortSettled(f) PROVE MapInv'
    BY <2>4, AbortInv
  <2>5. CASE UNCHANGED mapVars
    BY <2>5 DEF mapVars, MapInv, MapTypeOK, OpenIsCurrent
  <2>6. QED  BY <2>1, <2>2, <2>3, <2>4, <2>5 DEF MapNext
<1>3. QED  BY <1>1, <1>2, PTL DEF MapSpec

(* Whatever the routing service answers and when, the map draws the stops  *)
(* shown and never puts the ETA of another route next to a line by road.   *)
THEOREM RoadFollowsStops == MapSpec => []RoadIsCurrent
<1>1. MapInv => RoadIsCurrent
  BY DEF MapInv, MapTypeOK, RoadIsCurrent, Drawn, DisplayEta
<1>2. QED  BY <1>1, MapInvariance, PTL

(***************************************************************************)
(* What the console is told of its calls, for any number of them.          *)
(***************************************************************************)
(* The parts of the inductive invariant.                                   *)

UnmadeIsUnknown ==
  \A c \in ConsoleCalls : op[c] = "none" =>
    c \notin sent /\ told[c] = "nothing" /\ reply[c] = "none"

(* The gateway refuses some bodies itself, and does not pass them on.      *)
Screened(c) ==
  body[c] = "malformed" /\ op[c] \in {"create driver", "set availability", "cancel dispatch"}

ScreenedIsNotSent == \A c \in sent : ~Screened(c)

(* A service answers a call once, when it has changed what it will change. *)
AnsweredOnce ==
  \A c \in ConsoleCalls :
    /\ reply[c] # "none" => c \in sent \ working
    /\ reply[c] = "none" => c \notin changed

CancelHasBegun ==
  \A c \in working : op[c] = "cancel dispatch" => dispatch # "SEARCHING_DRIVER"

IsCancelled == dispatch \in {"COMPENSATING", "CANCELLED"}

(* The answers are true when they are given, and stay so.                  *)
RepliesAreTrue ==
  \A c \in ConsoleCalls :
    /\ reply[c] = "ok" /\ op[c] \in Writes => c \in changed
    /\ reply[c] = "ok" /\ op[c] = "cancel dispatch" => IsCancelled
    /\ reply[c] = "refused" => c \notin changed

(* The console is told what a service has answered, or what no service     *)
(* will ever be asked.                                                     *)
ToldIsAnswered ==
  \A c \in ConsoleCalls :
    /\ told[c] = "ok" => reply[c] = "ok"
    /\ told[c] = "refused" => reply[c] = "refused" \/ Screened(c)

(* The first compensation is the only one.                                 *)
CancelledOnce ==
  \A b, c \in changed :
    op[b] = "cancel dispatch" => IsCancelled /\ (op[c] = "cancel dispatch" => b = c)

CallInv ==
  /\ CallTypeOK /\ UnmadeIsUnknown /\ ScreenedIsNotSent /\ AnsweredOnce
  /\ CancelHasBegun /\ RepliesAreTrue /\ ToldIsAnswered /\ CancelledOnce

-------------------------------------------------------------------------------
LEMMA CallInvInit == CallInit => CallInv
<1> SUFFICES ASSUME CallInit PROVE CallInv
  OBVIOUS
<1> USE DEF CallInit
<1>1. CallTypeOK  BY DEF CallTypeOK
<1>2. UnmadeIsUnknown /\ ScreenedIsNotSent /\ AnsweredOnce /\ CancelHasBegun
  BY DEF UnmadeIsUnknown, ScreenedIsNotSent, AnsweredOnce, CancelHasBegun
<1>3. RepliesAreTrue /\ ToldIsAnswered /\ CancelledOnce
  BY DEF RepliesAreTrue, ToldIsAnswered, CancelledOnce
<1>4. QED  BY <1>1, <1>2, <1>3 DEF CallInv

LEMMA MakeCallInv ==
  ASSUME CallInv, NEW c \in ConsoleCalls, NEW o \in Operations,
         NEW f \in {"fine", "malformed", "odd"}, MakeCall(c, o, f)
  PROVE  CallInv'
<1> USE DEF CallInv, MakeCall, servedState
<1>1. c \notin sent /\ c \notin changed /\ c \notin working
      /\ told[c] = "nothing" /\ reply[c] = "none"
  BY DEF UnmadeIsUnknown, CallTypeOK
<1>2. CallTypeOK'  BY DEF CallTypeOK
<1>3. \A b \in ConsoleCalls \ {c} : op'[b] = op[b] /\ body'[b] = body[b]
  BY DEF CallTypeOK
<1>4. op'[c] # "none"
  BY DEF CallTypeOK, Operations, Writes, Cancels, Queries
<1>5. UnmadeIsUnknown'  BY <1>3, <1>4 DEF UnmadeIsUnknown
<1>6. ScreenedIsNotSent'
  BY <1>1, <1>3 DEF ScreenedIsNotSent, Screened, CallTypeOK
<1>10. AnsweredOnce'  BY <1>1, <1>3 DEF AnsweredOnce
<1>11. CancelHasBegun'  BY <1>1, <1>3 DEF CancelHasBegun, CallTypeOK
<1>7. RepliesAreTrue' /\ ToldIsAnswered'
  BY <1>1, <1>3 DEF RepliesAreTrue, ToldIsAnswered, Screened, IsCancelled
<1>8. CancelledOnce'
  <2>1. changed' = changed /\ dispatch' = dispatch
    OBVIOUS
  <2>2. \A b \in changed : op'[b] = op[b]
    BY <1>1, <1>3 DEF CallTypeOK
  <2>3. CancelledOnce
    OBVIOUS
  <2> HIDE DEF CallInv, MakeCall, servedState
  <2>4. QED  BY <2>1, <2>2, <2>3 DEF CancelledOnce, IsCancelled
<1>9. QED  BY <1>2, <1>5, <1>6, <1>7, <1>8, <1>10, <1>11

(* Any word of the gateway that is not a promise, or that is true.         *)
LEMMA TellInv ==
  ASSUME CallInv, NEW c \in ConsoleCalls,
         NEW what \in {"ok", "refused", "failed", "unavailable", "lost"}, Tell(c, what),
         what = "ok" => reply[c] = "ok",
         what = "refused" => reply[c] = "refused" \/ Screened(c)
  PROVE  CallInv'
<1> USE DEF CallInv, Tell, servedState
<1>1. CallTypeOK'  BY DEF CallTypeOK
<1>2. UnmadeIsUnknown'  BY DEF UnmadeIsUnknown, Waiting, CallTypeOK
<1>3. ScreenedIsNotSent' /\ AnsweredOnce' /\ CancelHasBegun'
  BY DEF ScreenedIsNotSent, Screened, AnsweredOnce, CancelHasBegun
<1>4. RepliesAreTrue' /\ CancelledOnce'
  BY DEF RepliesAreTrue, CancelledOnce, IsCancelled
<1>5. ToldIsAnswered'  BY DEF ToldIsAnswered, Screened, CallTypeOK
<1>6. QED  BY <1>1, <1>2, <1>3, <1>4, <1>5

LEMMA PassOnInv ==
  ASSUME CallInv, NEW c \in ConsoleCalls, PassOn(c), ~Screened(c), op[c] # "none"
  PROVE  CallInv'
<1> USE DEF CallInv, PassOn, servedState
<1>1. CallTypeOK'  BY DEF CallTypeOK
<1>2. UnmadeIsUnknown' /\ ScreenedIsNotSent' /\ AnsweredOnce' /\ CancelHasBegun'
  BY DEF UnmadeIsUnknown, ScreenedIsNotSent, Screened, AnsweredOnce, CancelHasBegun
<1>3. RepliesAreTrue' /\ ToldIsAnswered' /\ CancelledOnce'
  BY DEF RepliesAreTrue, ToldIsAnswered, Screened, CancelledOnce, IsCancelled
<1>4. QED  BY <1>1, <1>2, <1>3

(* The gateway and the browser.                                            *)
LEMMA GatewayInv ==
  ASSUME CallInv, NEW c \in ConsoleCalls,
         \/ DriversController(c) \/ DispatchController(c) \/ OrdersController(c)
         \/ TrackingController(c) \/ OptimizationController(c)
         \/ TakeReply(c) \/ GiveUp(c) \/ LoseAnswer(c)
  PROVE  CallInv'
<1>1. CASE PassOn(c) /\ ~Screened(c) /\ op[c] # "none"
  BY <1>1, PassOnInv
<1>2. CASE Screened(c) /\ Tell(c, "refused")
  BY <1>2, TellInv
<1>3. CASE TakeReply(c)
  <2>1. Forwarded(op[c], reply[c]) \in {"ok", "refused", "failed"}
        /\ Forwarded(op[c], reply[c]) \in {reply[c], "failed"}
    BY <1>3 DEF CallInv, CallTypeOK, TakeReply, Forwarded
  <2>2. QED  BY <1>3, <2>1, TellInv DEF TakeReply
<1>4. CASE GiveUp(c) \/ LoseAnswer(c)
  BY <1>4, TellInv DEF GiveUp, LoseAnswer
<1>5. QED
  BY <1>1, <1>2, <1>3, <1>4
     DEF DriversController, DispatchController, OrdersController, TrackingController,
         OptimizationController, PassOnValid, Screened

-------------------------------------------------------------------------------
(* A service answers a call it has not answered before.                    *)
LEMMA ServeInv ==
  ASSUME CallInv, NEW c \in sent, reply[c] = "none",
         UNCHANGED callState,
         working' = working \ {c},
         NEW what \in {"ok", "refused", "failed"},
         reply' = [reply EXCEPT ![c] = what],
         changed' \in {changed, changed \cup {c}},
         what = "refused" => changed' = changed,
         what = "ok" /\ op[c] \in Writes => changed' = changed \cup {c},
         what = "ok" /\ op[c] = "cancel dispatch" => IsCancelled',
         dispatch' = dispatch \/ (dispatch = "ASSIGNED" /\ dispatch' = "COMPENSATING"),
         op[c] = "cancel dispatch" /\ changed' # changed =>
           dispatch = "ASSIGNED" /\ dispatch' = "COMPENSATING"
  PROVE  CallInv'
<1> USE DEF CallInv, callState
<1>1. c \in ConsoleCalls  BY DEF CallTypeOK
<1>2. CallTypeOK'  BY <1>1 DEF CallTypeOK
<1>3. \A b \in ConsoleCalls \ {c} :
        reply'[b] = reply[b] /\ (b \in changed' <=> b \in changed)
  BY DEF CallTypeOK
<1>4. reply'[c] = what  BY <1>1 DEF CallTypeOK
<1>5. UnmadeIsUnknown'  BY <1>3 DEF UnmadeIsUnknown, CallTypeOK
<1>6. ScreenedIsNotSent'  BY DEF ScreenedIsNotSent, Screened
<1>7. AnsweredOnce'
  BY <1>1, <1>3, <1>4 DEF AnsweredOnce
<1>8. CancelHasBegun'  BY DEF CancelHasBegun
<1>9. IsCancelled => IsCancelled'  BY DEF IsCancelled
<1>10. RepliesAreTrue'
  <2>1. c \notin changed /\ op' = op
    BY <1>1 DEF AnsweredOnce
  <2>2. /\ reply'[c] = "ok" /\ op[c] \in Writes => c \in changed'
        /\ reply'[c] = "ok" /\ op[c] = "cancel dispatch" => IsCancelled'
        /\ reply'[c] = "refused" => c \notin changed'
    BY <1>4, <2>1
  <2>3. RepliesAreTrue
    OBVIOUS
  <2>4. ASSUME NEW b \in ConsoleCalls \ {c}
        PROVE  /\ reply'[b] = "ok" /\ op[b] \in Writes => b \in changed'
               /\ reply'[b] = "ok" /\ op[b] = "cancel dispatch" => IsCancelled'
               /\ reply'[b] = "refused" => b \notin changed'
    <3> HIDE DEF CallInv
    <3>1. QED  BY <1>3, <1>9, <2>3 DEF RepliesAreTrue
  <2> HIDE DEF CallInv
  <2>5. QED  BY <2>1, <2>2, <2>4 DEF RepliesAreTrue
<1>11. ToldIsAnswered'
  BY <1>1, <1>3 DEF ToldIsAnswered, Screened, ScreenedIsNotSent
<1>12. CancelledOnce'
  <2>1. CASE changed' = changed  BY <1>9, <2>1 DEF CancelledOnce
  <2>2. CASE op[c] # "cancel dispatch"  BY <1>9, <2>2 DEF CancelledOnce
  <2>3. CASE changed' # changed /\ op[c] = "cancel dispatch"
    <3>1. \A b \in changed : op[b] # "cancel dispatch"
      BY <2>3 DEF CancelledOnce, IsCancelled
    <3>2. QED  BY <2>3, <3>1 DEF CancelledOnce, IsCancelled
  <2>4. QED  BY <2>1, <2>2, <2>3
<1>13. QED  BY <1>2, <1>5, <1>6, <1>7, <1>8, <1>10, <1>11, <1>12

LEMMA ServicesInv ==
  ASSUME CallInv, NEW c \in ConsoleCalls,
         \/ CreateDriver(c) \/ SetAvailability(c) \/ UpdateLocation(c)
         \/ QueryDrivers(c) \/ QueryOrders(c) \/ QueryDispatches(c) \/ QueryTracking(c)
         \/ PlanRoute(c) \/ ServiceFails(c)
  PROVE  CallInv'
<1>1. ASSUME NEW what \in {"ok", "refused"}, AnswerOnly(c, what),
             c \in sent \ working, reply[c] = "none",
             what = "ok" => op[c] \notin Writes \cup {"cancel dispatch"}
      PROVE  CallInv'
  BY <1>1, ServeInv DEF AnswerOnly, Answer
<1>2. ASSUME Change(c), c \in sent \ working, reply[c] = "none", op[c] \in Writes
      PROVE  CallInv'
  BY <1>2, ServeInv DEF Change, Answer, Writes
<1>3. CASE CreateDriver(c) \/ SetAvailability(c) \/ UpdateLocation(c)
  BY <1>1, <1>2, <1>3 DEF CreateDriver, SetAvailability, UpdateLocation, Arrived, Writes
<1>4. CASE \/ QueryDrivers(c) \/ QueryOrders(c) \/ QueryDispatches(c)
           \/ QueryTracking(c) \/ PlanRoute(c)
  BY <1>1, <1>4 DEF QueryDrivers, QueryOrders, QueryDispatches, QueryTracking, PlanRoute,
     Arrived, Writes
<1>5. CASE ServiceFails(c)
  <2>1. c \in sent /\ reply[c] = "none"
    BY <1>5 DEF ServiceFails, Arrived, CallInv, CallTypeOK, AnsweredOnce
  <2>2. op[c] = "cancel dispatch" => changed' = changed
    BY <1>5 DEF ServiceFails, Writes
  <2>3. QED  BY <1>5, <2>1, <2>2, ServeInv DEF ServiceFails, Answer
<1>6. QED  BY <1>3, <1>4, <1>5

(* The two halves of a cancel.                                             *)
LEMMA CancelsInv ==
  ASSUME CallInv, NEW c \in ConsoleCalls,
         LoadForCancel(c) \/ SaveCancelled(c) \/ ReadForCancel(c) \/ CommitCancel(c)
  PROVE  CallInv'
<1>1. ASSUME c \in sent \ working, reply[c] = "none",
             op[c] = "cancel dispatch" => dispatch = "ASSIGNED",
             working' = working \cup {c}, UNCHANGED <<callState, reply, changed, dispatch>>
      PROVE  CallInv'
  <2> USE <1>1 DEF CallInv, callState
  <2>1. CallTypeOK'  BY DEF CallTypeOK
  <2>2. UnmadeIsUnknown' /\ ScreenedIsNotSent' /\ AnsweredOnce' /\ CancelHasBegun'
    BY DEF UnmadeIsUnknown, ScreenedIsNotSent, Screened, AnsweredOnce, CancelHasBegun
  <2>3. RepliesAreTrue' /\ ToldIsAnswered' /\ CancelledOnce'
    BY DEF RepliesAreTrue, ToldIsAnswered, Screened, CancelledOnce, IsCancelled
  <2>4. QED  BY <2>1, <2>2, <2>3
<1>2. ASSUME NEW what \in {"ok", "refused"}, AnswerOnly(c, what),
             c \in sent \ working, reply[c] = "none",
             what = "ok" => op[c] \notin Writes /\ IsCancelled
      PROVE  CallInv'
  BY <1>2, ServeInv DEF AnswerOnly, Answer, IsCancelled
<1>3. CASE LoadForCancel(c)
  BY <1>1, <1>2, <1>3 DEF LoadForCancel, Arrived
<1>4. CASE ReadForCancel(c)
  BY <1>1, <1>2, <1>4 DEF ReadForCancel, Arrived, Writes, IsCancelled
<1>5. c \in working => c \in sent /\ reply[c] = "none"
  BY DEF CallInv, CallTypeOK, AnsweredOnce
<1>6. CASE SaveCancelled(c)
  BY <1>5, <1>6, ServeInv DEF SaveCancelled, Answer
<1>7. CASE CommitCancel(c)
  <2>1. dispatch' \in {"COMPENSATING", "CANCELLED"} /\ op[c] \notin Writes
    BY <1>7 DEF CommitCancel, CallInv, CallTypeOK, CancelHasBegun, Writes
  <2>2. QED  BY <1>5, <1>7, <2>1, ServeInv DEF CommitCancel, Answer, IsCancelled
<1>8. QED  BY <1>3, <1>4, <1>6, <1>7

LEMMA SagaMovesInv == CallInv /\ SagaMoves => CallInv'
<1> SUFFICES ASSUME CallInv, SagaMoves PROVE CallInv'
  OBVIOUS
<1> USE DEF CallInv, SagaMoves, callState
<1>1. CallTypeOK'  BY DEF CallTypeOK
<1>2. UnmadeIsUnknown' /\ ScreenedIsNotSent' /\ AnsweredOnce' /\ CancelHasBegun'
  BY DEF UnmadeIsUnknown, ScreenedIsNotSent, Screened, AnsweredOnce, CancelHasBegun
<1>3. RepliesAreTrue' /\ ToldIsAnswered' /\ CancelledOnce'
  BY DEF RepliesAreTrue, ToldIsAnswered, Screened, CancelledOnce, IsCancelled
<1>4. QED  BY <1>1, <1>2, <1>3

-------------------------------------------------------------------------------
(* The inductive invariant of the calls: a service answers once, truly,    *)
(* and what its answer says stays so; the gateway tells no more than that. *)
THEOREM CallInvariance == CallSpec => []CallInv
<1>1. CallInit => CallInv  BY CallInvInit
<1>2. CallInv /\ [CallNext]_callVars => CallInv'
  <2> SUFFICES ASSUME CallInv, [CallNext]_callVars PROVE CallInv'
    OBVIOUS
  <2>1. ASSUME NEW c \in ConsoleCalls, NEW o \in Operations,
               NEW f \in {"fine", "malformed", "odd"}, MakeCall(c, o, f)
        PROVE  CallInv'
    BY <2>1, MakeCallInv
  <2>2. ASSUME NEW c \in ConsoleCalls,
               \/ DriversController(c) \/ DispatchController(c) \/ OrdersController(c)
               \/ TrackingController(c) \/ OptimizationController(c)
               \/ TakeReply(c) \/ GiveUp(c) \/ LoseAnswer(c)
        PROVE  CallInv'
    BY <2>2, GatewayInv
  <2>3. ASSUME NEW c \in ConsoleCalls,
               \/ CreateDriver(c) \/ SetAvailability(c) \/ UpdateLocation(c)
               \/ QueryDrivers(c) \/ QueryOrders(c) \/ QueryDispatches(c)
               \/ QueryTracking(c) \/ PlanRoute(c) \/ ServiceFails(c)
        PROVE  CallInv'
    BY <2>3, ServicesInv
  <2>4. ASSUME NEW c \in ConsoleCalls,
               LoadForCancel(c) \/ SaveCancelled(c) \/ ReadForCancel(c) \/ CommitCancel(c)
        PROVE  CallInv'
    BY <2>4, CancelsInv
  <2>5. CASE SagaMoves  BY <2>5, SagaMovesInv
  <2>6. CASE UNCHANGED callVars
    <3> USE <2>6 DEF callVars, callState, servedState, CallInv
    <3>1. CallTypeOK'  BY DEF CallTypeOK
    <3>2. UnmadeIsUnknown' /\ ScreenedIsNotSent' /\ AnsweredOnce' /\ CancelHasBegun'
      BY DEF UnmadeIsUnknown, ScreenedIsNotSent, Screened, AnsweredOnce, CancelHasBegun
    <3>3. RepliesAreTrue' /\ ToldIsAnswered' /\ CancelledOnce'
      BY DEF RepliesAreTrue, ToldIsAnswered, Screened, CancelledOnce, IsCancelled
    <3>4. QED  BY <3>1, <3>2, <3>3
  <2>7. QED  BY <2>1, <2>2, <2>3, <2>4, <2>5, <2>6 DEF CallNext
<1>3. QED  BY <1>1, <1>2, PTL DEF CallSpec

(* However calls are repeated, overtaken, answered late or not at all: the *)
(* console can take an answer at its word, and a dispatch is compensated   *)
(* once.                                                                   *)
THEOREM AnswersHold == CallSpec => []AnswersAreTrue
<1>1. CallInv => AnswersAreTrue
  <2> SUFFICES ASSUME CallInv PROVE AnswersAreTrue
    OBVIOUS
  <2> DEFINE cancels == {c \in changed : op[c] = "cancel dispatch"}
  <2>1. Cardinality(cancels) <= 1
    <3>1. CASE cancels = {}
      <4>1. Cardinality({}) = 0  BY FS_EmptySet
      <4>2. Cardinality(cancels) = 0  BY <3>1, <4>1, Zenon
      <4> HIDE DEF cancels
      <4>3. QED  BY <4>2
    <3>2. CASE cancels # {}
      <4>1. PICK c \in cancels : cancels = {c}
        BY <3>2 DEF CallInv, CancelledOnce
      <4>2. Cardinality({c}) = 1  BY FS_Singleton
      <4>3. Cardinality(cancels) = 1  BY <4>1, <4>2, Zenon
      <4> HIDE DEF cancels
      <4>4. QED  BY <4>3
    <3>3. QED  BY <3>1, <3>2
  <2>2. \A c \in ConsoleCalls : told[c] = "refused" => c \notin changed
    BY DEF CallInv, CallTypeOK, ToldIsAnswered, RepliesAreTrue, ScreenedIsNotSent
  <2>3. QED
    BY <2>1, <2>2 DEF CallInv, AnswersAreTrue, ToldIsAnswered, RepliesAreTrue, IsCancelled
<1>2. QED  BY <1>1, CallInvariance, PTL

(***************************************************************************)
(* The five components next to each other.  Each of them takes steps of    *)
(* its own only, so what is proved of one holds of its part of the whole.  *)
(***************************************************************************)
LEMMA PlacesStep ==
  ASSUME [PlacesNext]_placesVars
  PROVE  /\ component' = component
         /\ [SearchNext]_searchVars
         /\ [GatewayNext]_gatewayVars /\ [MapNext]_mapVars /\ [CallNext]_callVars
         /\ IF component = "route" THEN [RouteNext]_routeVars ELSE UNCHANGED routeVars
BY DEF PlacesNext, placesVars

LEMMA PlacesAreComponents == PlacesSpec => GatewaySpec /\ MapSpec /\ CallSpec
<1>1. PlacesInit => GatewayInit /\ MapInit /\ CallInit
  BY DEF PlacesInit
<1>2. [PlacesNext]_placesVars =>
        [GatewayNext]_gatewayVars /\ [MapNext]_mapVars /\ [CallNext]_callVars
  BY PlacesStep
<1>3. QED  BY <1>1, <1>2, PTL DEF PlacesSpec, GatewaySpec, MapSpec, CallSpec

LEMMA PlacesSearch == PlacesSpec => []SearchInv
<1>1. PlacesInit => SearchInv
  <2> SUFFICES ASSUME PlacesInit PROVE SearchInv
    OBVIOUS
  <2>1. CASE SearchInit
    BY <2>1, SearchInvInit
  <2>2. CASE ~ SearchInit
    <3>1. /\ load = [d \in Pool |-> 0] /\ position = [d \in Pool |-> Away]
          /\ age = [d \in Pool |-> TooOld]
          /\ search = Idle /\ steady = {} /\ lapsed = {} /\ budget = FullBudget
      BY <2>2 DEF PlacesInit
    <3>2. Away \in 0..Away /\ TooOld \in 0..TooOld
      BY SearchConstants DEF Away, TooOld
    <3>3. /\ load \in [Pool -> Nat] /\ position \in [Pool -> 0..Away]
          /\ age \in [Pool -> 0..TooOld]
      BY <3>1, <3>2
    <3>4. QED  BY <3>1, <3>3, IdleInv
  <2>3. QED  BY <2>1, <2>2
<1>2. SearchInv /\ [PlacesNext]_placesVars => SearchInv'
  BY PlacesStep, SearchInvNext
<1>3. QED  BY <1>1, <1>2, PTL DEF PlacesSpec

(* Where the planner does not run, its variables keep their first values.  *)
PlanIsSound == IF component = "route" THEN RouteInv ELSE RouteTypeOK

LEMMA PlacesRoute == PlacesSpec => []PlanIsSound
<1>1. PlacesInit => PlanIsSound
  <2> SUFFICES ASSUME PlacesInit PROVE PlanIsSound
    OBVIOUS
  <2>1. CASE component = "route"
    <3>1. RouteInit
      BY <2>1 DEF PlacesInit
    <3>2. QED  BY <2>1, <3>1, RouteInvInit DEF PlanIsSound
  <2>2. CASE component # "route"
    <3>1. /\ input = Call(2, <<>>) /\ planning = "refused"
          /\ considered = 0 /\ route = <<>> /\ rejected = {}
      BY <2>2 DEF PlacesInit
    <3>2. input.orders = <<>>
      BY <3>1 DEF Call
    <3>3. considered \in 0..Len(input.orders)
      BY <3>1, <3>2
    <3>4. RouteTypeOK
      BY <3>1, <3>3 DEF RouteTypeOK
    <3>5. QED  BY <2>2, <3>4 DEF PlanIsSound
  <2>3. QED  BY <2>1, <2>2
<1>2. PlanIsSound /\ [PlacesNext]_placesVars => PlanIsSound'
  <2> SUFFICES ASSUME PlanIsSound, [PlacesNext]_placesVars PROVE PlanIsSound'
    OBVIOUS
  <2>1. CASE component = "route"
    <3>1. component' = component /\ [RouteNext]_routeVars
      BY <2>1, PlacesStep
    <3>2. RouteInv'
      BY <2>1, <3>1, RouteInvNext DEF PlanIsSound
    <3>3. QED  BY <2>1, <3>1, <3>2 DEF PlanIsSound
  <2>2. CASE component # "route"
    <3>1. component' = component /\ UNCHANGED routeVars
      BY <2>2, PlacesStep
    <3>2. QED  BY <2>2, <3>1 DEF PlanIsSound, RouteTypeOK, routeVars
  <2>3. QED  BY <2>1, <2>2
<1>3. QED  BY <1>1, <1>2, PTL DEF PlacesSpec

(* All variables of the five keep their types.                             *)
THEOREM PlacesTypes == PlacesSpec => []PlacesTypeOK
<1>1. SearchInv /\ PlanIsSound /\ WatchInv /\ MapInv /\ CallInv => PlacesTypeOK
  BY SearchInvTypes, RouteInvTypes DEF PlanIsSound, WatchInv, MapInv, CallInv, PlacesTypeOK
<1>2. QED
  BY <1>1, PlacesSearch, PlacesRoute, PlacesAreComponents, WatchInvariance, MapInvariance,
     CallInvariance, PTL

Searching == component = "search"

Planning == component = "route"

NothingSearched == search = Idle /\ lapsed = {}

(* A search or a plan of the composition is one of the component ...       *)
LEMMA SearchOrIdle ==
  /\ PlacesSpec /\ Searching => SearchSpec
  /\ PlacesSpec /\ ~ Searching => []NothingSearched
<1>1. PlacesInit /\ Searching => SearchInit
  BY DEF PlacesInit, Searching
<1>2. PlacesInit /\ ~ Searching => NothingSearched
  BY DEF PlacesInit, Searching, NothingSearched
<1>3. [PlacesNext]_placesVars => [SearchNext]_searchVars
  BY PlacesStep
<1>4. ~ Searching /\ [PlacesNext]_placesVars => ~ Searching'
  BY PlacesStep DEF Searching
<1>5. ~ Searching /\ NothingSearched /\ [PlacesNext]_placesVars => NothingSearched'
  BY DEF PlacesNext, placesVars, searchVars, Searching, NothingSearched
<1>6. QED  BY <1>1, <1>2, <1>3, <1>4, <1>5, PTL DEF PlacesSpec, SearchSpec

NothingPlanned ==
  input.orders = <<>> /\ considered = 0 /\ route = <<>> /\ rejected = {}

LEMMA RouteOrNothing ==
  /\ PlacesSpec /\ Planning => RouteSpec
  /\ PlacesSpec /\ ~ Planning => []NothingPlanned /\ [][FALSE]_routeVars
<1>1. PlacesInit /\ Planning => RouteInit
  BY DEF PlacesInit, Planning
<1>2. PlacesInit /\ ~ Planning => NothingPlanned
  BY DEF PlacesInit, Planning, Call, NothingPlanned
<1>3. Planning /\ [PlacesNext]_placesVars => Planning' /\ [RouteNext]_routeVars
  BY PlacesStep DEF Planning
<1>4. ~ Planning /\ [PlacesNext]_placesVars => ~ Planning' /\ [FALSE]_routeVars
  BY PlacesStep DEF Planning
<1>5. NothingPlanned /\ [FALSE]_routeVars => NothingPlanned'
  BY DEF NothingPlanned, routeVars
<1>6. QED  BY <1>1, <1>2, <1>3, <1>4, <1>5, PTL DEF PlacesSpec, RouteSpec

(* ... so that what is proved of the search holds of the whole that TLC    *)
(* checks: live drivers only, nobody missed, the nearer first.             *)
THEOREM PlacesSearches == PlacesSpec => [](RankedAreLive /\ NobodyIsMissed /\ NearerIsTriedFirst)
<1>1. NothingSearched => RankedAreLive /\ NobodyIsMissed /\ NearerIsTriedFirst
  BY DEF NothingSearched, Idle, RankedAreLive, NobodyIsMissed, NearerIsTriedFirst
<1>2. QED
  BY <1>1, SearchOrIdle, RankingIsLive, NearbyAreFound, NearerFirst, PTL

(* And so does what is proved of the planner: accepted orders are served,  *)
(* within capacity, and each is put where it costs least.                  *)
THEOREM PlacesPlans ==
  PlacesSpec => /\ [](RouteServesAccepted /\ VehicleNeverOverloaded /\ OnlyImpossibleRejected)
                /\ InsertionIsShortest
<1>1. NothingPlanned =>
        RouteServesAccepted /\ VehicleNeverOverloaded /\ OnlyImpossibleRejected
  <2> SUFFICES ASSUME NothingPlanned
               PROVE  RouteServesAccepted /\ VehicleNeverOverloaded /\ OnlyImpossibleRejected
    OBVIOUS
  <2>1. Accepted = {} /\ Len(route) = 0 /\ DOMAIN route = {} /\ Cardinality({}) = 0
    BY FS_EmptySet DEF NothingPlanned, Accepted
  <2>2. RouteServesAccepted
    BY <2>1 DEF RouteServesAccepted
  <2>3. VehicleNeverOverloaded
    BY <2>1 DEF VehicleNeverOverloaded, NeverOverloaded
  <2>4. OnlyImpossibleRejected
    BY DEF NothingPlanned, OnlyImpossibleRejected
  <2>5. QED  BY <2>2, <2>3, <2>4
<1>2. [][FALSE]_routeVars => InsertionIsShortest
  BY PTL DEF InsertionIsShortest
<1>3. QED
  BY <1>1, <1>2, RouteOrNothing, AcceptedAreServed, VehicleHasRoom, OnlyTooLargeRejected,
     NoInsertionIsShorter, PTL
===============================================================================
