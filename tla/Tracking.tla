-------------------------------- MODULE Tracking --------------------------------
(***************************************************************************)
(* The tracking service: where a driver is, and where it has been.         *)
(*                                                                         *)
(* A sample is told apart by its driver and by the time the device has     *)
(* recorded it at; samples arrive late and repeatedly.  UpdateDriverLocation *)
(* first updates the live position in Redis, by a script that Redis runs   *)
(* without a break, and then queues a job that writes the sample to        *)
(* PostGIS.  The hash with the live position expires, its entry in the GEO *)
(* set does not.                                                           *)
(***************************************************************************)
EXTENDS Naturals

CONSTANTS
  Drivers,     \* driver ids
  Times,       \* what recordedAt may be
  Calls        \* slots for updates in progress at one time

ASSUME TimesAssumption == Times \subseteq Nat \ {0}

VARIABLES
  hash,        \* recordedAt of the live position, or NoTime
  geo,         \* recordedAt of the position in the GEO set, or NoTime
  call,        \* the sample of an update between its two steps, {} if none
  job,         \* state of the history job of each sample
  history,     \* the rows of driver_location_history
  latest,      \* recorded_at in driver_latest_locations, or NoTime
  received,    \* history variable: the samples that have reached Redis
  lost         \* history variable: samples that nobody will write any more

vars == <<hash, geo, call, job, history, latest, received, lost>>

NoTime == 0

MaybeTime == Times \cup {NoTime}

Samples == Drivers \X Times

TypeOK ==
  /\ hash \in [Drivers -> MaybeTime]
  /\ geo \in [Drivers -> MaybeTime]
  /\ call \in [Calls -> SUBSET Samples]
  /\ job \in [Samples -> {"none", "waiting", "done", "failed"}]
  /\ history \subseteq Samples
  /\ latest \in [Drivers -> MaybeTime]
  /\ received \subseteq Samples
  /\ lost \subseteq Samples

Init ==
  /\ hash = [d \in Drivers |-> NoTime]
  /\ geo = [d \in Drivers |-> NoTime]
  /\ call = [c \in Calls |-> {}]
  /\ job = [s \in Samples |-> "none"]
  /\ history = {}
  /\ latest = [d \in Drivers |-> NoTime]
  /\ received = {}
  /\ lost = {}

-------------------------------------------------------------------------------
(* UpdateDriverLocation.                                                   *)

(* Mutation of IsLate: the last sample to arrive is the current one.       *)
IsLateNever(d, t) == FALSE

(* The guard of the script; a repeated sample is not late.                 *)
IsLate(d, t) == hash[d] > t

(* liveStore.upsert: GEO entry and hash together, or nothing.              *)
Upsert(c, d, t) ==
  /\ call[c] = {}
  /\ IF IsLate(d, t)
     THEN UNCHANGED <<hash, geo>>
     ELSE hash' = [hash EXCEPT ![d] = t] /\ geo' = [geo EXCEPT ![d] = t]
  /\ call' = [call EXCEPT ![c] = {<<d, t>>}]
  /\ received' = received \cup {<<d, t>>}
  /\ UNCHANGED <<job, history, latest, lost>>

(* Mutation of Enqueue: only the current position is worth a job.          *)
EnqueueCurrent(c) ==
  /\ call[c] # {}
  /\ job' = [s \in Samples |->
       IF s \in call[c] /\ job[s] = "none" /\ ~IsLate(s[1], s[2]) THEN "waiting" ELSE job[s]]
  /\ call' = [call EXCEPT ![c] = {}]
  /\ UNCHANGED <<hash, geo, history, latest, received, lost>>

(* persistenceQueue.enqueue, for late samples too.  BullMQ ignores a job   *)
(* whose id it still has, whatever has become of that job.                 *)
Enqueue(c) ==
  /\ call[c] # {}
  /\ job' = [s \in Samples |->
       IF s \in call[c] /\ job[s] = "none" THEN "waiting" ELSE job[s]]
  /\ call' = [call EXCEPT ![c] = {}]
  /\ UNCHANGED <<hash, geo, history, latest, received, lost>>

(* The process dies after upsert, or Redis refuses the job.                *)
Interrupt(c) ==
  /\ call[c] # {}
  /\ lost' = lost \cup call[c]
  /\ call' = [call EXCEPT ![c] = {}]
  /\ UNCHANGED <<hash, geo, job, history, latest, received>>

(* EXPIRE of the hash.                                                     *)
Expire(d) ==
  /\ hash[d] # NoTime
  /\ hash' = [hash EXCEPT ![d] = NoTime]
  /\ UNCHANGED <<geo, call, job, history, latest, received, lost>>

-------------------------------------------------------------------------------
(* The history jobs.                                                       *)

(* Mutation of Supersedes: the last row to be written wins.                *)
SupersedesAlways(s) == TRUE

(* The WHERE clause of the upsert.                                         *)
Supersedes(s) == latest[s[1]] <= s[2]

(* repository.append is one transaction.  The job is done then, or was     *)
(* taken from a stalled worker and runs once more, or has stalled too      *)
(* often and counts as failed.                                             *)
Persist(s) ==
  /\ job[s] = "waiting"
  /\ history' = history \cup {s}
  /\ latest' = IF Supersedes(s) THEN [latest EXCEPT ![s[1]] = s[2]] ELSE latest
  /\ \E state \in {"done", "waiting", "failed"} : job' = [job EXCEPT ![s] = state]
  /\ UNCHANGED <<hash, geo, call, received, lost>>

(* All attempts have thrown.                                               *)
FailJob(s) ==
  /\ job[s] = "waiting"
  /\ job' = [job EXCEPT ![s] = "failed"]
  /\ UNCHANGED <<hash, geo, call, history, latest, received, lost>>

(* removeOnComplete and removeOnFail: the id may be used again.            *)
RemoveJob(s) ==
  /\ job[s] \in {"done", "failed"}
  /\ job' = [job EXCEPT ![s] = "none"]
  /\ lost' = IF job[s] = "failed" THEN lost \cup {s} ELSE lost
  /\ UNCHANGED <<hash, geo, call, history, latest, received>>

-------------------------------------------------------------------------------
(* The queries.                                                            *)
GetHistory(d) == {s \in history : s[1] = d}

GetLatest(d) == IF hash[d] # NoTime THEN hash[d] ELSE latest[d]

-------------------------------------------------------------------------------
Next ==
  \/ \E c \in Calls : Enqueue(c) \/ Interrupt(c)
  \/ \E c \in Calls, d \in Drivers, t \in Times : Upsert(c, d, t)
  \/ \E d \in Drivers : Expire(d)
  \/ \E s \in Samples : Persist(s) \/ FailJob(s) \/ RemoveJob(s)

Spec == Init /\ [][Next]_vars

-------------------------------------------------------------------------------
(* "A late GPS packet is still queued to PostGIS history": every sample    *)
(* that has reached Redis is in the history, on its way there, or counted  *)
(* among those given up, late and repeated ones included.                  *)
HistoryIsComplete ==
  \A s \in received :
    \/ s \in history \cup lost
    \/ job[s] \in {"waiting", "failed"}
    \/ \E c \in Calls : s \in call[c]

(* GET latest answers from Redis or, when the hash has expired, with the   *)
(* row of driver_latest_locations.  That is the newest row GET history     *)
(* has, in whatever order the jobs have run.                               *)
LatestIsNewest ==
  \A d \in Drivers : hash[d] = NoTime =>
    /\ \A s \in GetHistory(d) : s[2] <= GetLatest(d)
    /\ GetLatest(d) # NoTime => <<d, GetLatest(d)>> \in GetHistory(d)

(* What that rests on: the row follows the history, the hash there or not. *)
LatestRow ==
  /\ \A s \in history : s[2] <= latest[s[1]]
  /\ \A d \in Drivers : latest[d] # NoTime => <<d, latest[d]>> \in history

(* A job that is done has left its row; the next job with its id may be    *)
(* ignored on the strength of that.                                        *)
DoneIsStored == \A s \in Samples : job[s] = "done" => s \in history

(* A driver that is live is found where it is: the GEO set, which searches *)
(* go by, and the hash, which they answer with, hold the same sample.      *)
LiveIsIndexed == \A d \in Drivers : hash[d] # NoTime => geo[d] = hash[d]

(* While a live position lasts, it only moves forward in time.  ("It       *)
(* cannot rewind the current Redis GEO position" is not true of the code   *)
(* once the hash has expired.)                                             *)
LiveMovesForward ==
  [][\A d \in Drivers : hash[d] # NoTime => geo'[d] >= geo[d]]_vars
===============================================================================
