-------------------------------- MODULE Health --------------------------------
(***************************************************************************)
(* How the API knows that somebody consumes a queue: each worker of        *)
(* analytics writes a heartbeat with an expiry in Redis                    *)
(* (analytics/queue_worker.py) and GET /health/deep looks for one          *)
(* (apps/api/src/routes/health.ts, workers() of jobs/*.ts).  Time passes   *)
(* in units of the period of the heartbeat.                                *)
(***************************************************************************)
EXTENDS Naturals, FiniteSets

CONSTANTS Workers,    \* processes that consume one queue
          MaxMissed,  \* bound: heartbeats in a row that Redis does not take
          MaxStarts   \* bound: starts of processes

\* A slip: an expiry shorter than two periods.
ShortTtl == 2

\* heartbeat_ttl_s over heartbeat_s: 30 and 10.
Ttl == 3

VARIABLES
  worker,     \* off, running, or closing: it takes no more jobs
  due,        \* whether the next heartbeat is due
  missed,     \* heartbeats in a row that failed
  key,        \* the time left of each heartbeat in Redis; 0: there is none
  announced,  \* history: the workers whose heartbeat was once stored
  quiet,      \* history: how long no worker has been running, up to Ttl
  starts      \* bound

vars == <<worker, due, missed, key, announced, quiet, starts>>

TypeOK ==
  /\ worker \in [Workers -> {"off", "running", "closing"}]
  /\ due \in [Workers -> BOOLEAN]
  /\ missed \in [Workers -> 0..MaxMissed]
  /\ key \in [Workers -> 0..Ttl]
  /\ announced \subseteq Workers
  /\ quiet \in 0..Ttl /\ starts \in 0..MaxStarts

Init ==
  /\ worker = [w \in Workers |-> "off"]
  /\ due = [w \in Workers |-> FALSE]
  /\ missed = [w \in Workers |-> 0]
  /\ key = [w \in Workers |-> 0]
  /\ announced = {} /\ quiet = Ttl /\ starts = 0

Becomes(w, state) == worker' = [worker EXCEPT ![w] = state]

Start(w) ==
  /\ worker[w] = "off" /\ starts < MaxStarts
  /\ starts' = starts + 1
  /\ Becomes(w, "running")
  /\ due' = [due EXCEPT ![w] = TRUE]
  /\ missed' = [missed EXCEPT ![w] = 0]
  /\ announced' = announced \ {w}
  /\ quiet' = 0
  /\ UNCHANGED key

\* A slip: the key is written without an expiry, and so outlives its worker.
NeverExpires(w) == key[w]

\* Redis lets a key go when its time is over.
Expires(w) == IF key[w] = 0 THEN 0 ELSE key[w] - 1

\* _beat writes the key again each time; a failure waits for the next one.
Beat(w) ==
  /\ worker[w] = "running" /\ due[w]
  /\ due' = [due EXCEPT ![w] = FALSE]
  /\ \/ /\ key' = [key EXCEPT ![w] = Ttl]
        /\ missed' = [missed EXCEPT ![w] = 0]
        /\ announced' = announced \cup {w}
     \/ /\ missed[w] < MaxMissed
        /\ missed' = [missed EXCEPT ![w] = @ + 1]
        /\ UNCHANGED <<key, announced>>
  /\ UNCHANGED <<worker, quiet, starts>>

\* stop: no more heartbeats, and the job in progress is waited for.
Close(w) ==
  /\ worker[w] = "running"
  /\ Becomes(w, "closing")
  /\ due' = [due EXCEPT ![w] = FALSE]
  /\ UNCHANGED <<missed, key, announced, quiet, starts>>

Stop(w) ==
  /\ worker[w] = "closing"
  /\ Becomes(w, "off")
  /\ key' = [key EXCEPT ![w] = 0]
  /\ UNCHANGED <<due, missed, announced, quiet, starts>>

\* The process dies and its heartbeat stays.
Kill(w) ==
  /\ worker[w] # "off"
  /\ Becomes(w, "off")
  /\ due' = [due EXCEPT ![w] = FALSE]
  /\ UNCHANGED <<missed, key, announced, quiet, starts>>

Tick ==
  /\ \A w \in Workers : ~due[w]
  /\ due' = [w \in Workers |-> worker[w] = "running"]
  /\ key' = [w \in Workers |-> Expires(w)]
  /\ quiet' = IF \E w \in Workers : worker[w] = "running" THEN 0
              ELSE IF quiet < Ttl THEN quiet + 1 ELSE quiet
  /\ UNCHANGED <<worker, missed, announced, starts>>

Next ==
  \/ \E w \in Workers : Start(w) \/ Beat(w) \/ Close(w) \/ Stop(w) \/ Kill(w)
  \/ Tick

\* The check of /health/deep: it counts the keys, whoever wrote them.
Up == \E w \in Workers : key[w] > 0

(***************************************************************************)
(* Properties                                                              *)
(***************************************************************************)

\* A queue with a worker that was once heard is not reported down because of
\* MaxMissed heartbeats in a row that failed (queue_worker.py:110, health.ts:60).
ConsumedIsUp == (\E w \in announced : worker[w] = "running") => Up

\* When no worker has been running for the time of a heartbeat, however they
\* went, the check says so (health.ts:60).
UnconsumedIsDown == quiet = Ttl => ~Up

===============================================================================
