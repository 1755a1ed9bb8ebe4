---------------------------- MODULE EventStreams ----------------------------
(***************************************************************************)
(* The events that tell a browser its chart data are ready: the Celery     *)
(* tasks that compute them (superset/tasks/async_queries.py), the manager  *)
(* that publishes them (superset/async_events/async_query_manager.py), and *)
(* the two Redis streams they go to, `scoped' to the channel of a session  *)
(* and `full' for the whole deployment.  Each XADD asks Redis for the id,  *)
(* "*", so one event has two ids, of two moments.                          *)
(***************************************************************************)
EXTENDS Naturals, Sequences, SequencesExt

CONSTANTS Jobs,      \* the jobs of one channel, numbered as they are made
          MaxTime,   \* bound: the last millisecond of the Redis clock
          Faults,    \* what may go wrong: "timeout" of a task, "link", "server",
                     \* "pong", "cache", "api"
          Refused,   \* the jobs whose XADDs Redis may refuse
          None       \* JavaScript's null

VARIABLES now,       \* Redis's clock, in milliseconds
          scoped,    \* the stream of the channel
          full,      \* the global stream
          worker     \* where the task of each job stands

streamVars == <<now, scoped, full, worker>>

EventStreamsAssumption ==
    /\ Jobs \subseteq Nat /\ Refused \subseteq Jobs
    /\ MaxTime \in Nat
    /\ None \notin Nat \X Nat
ASSUME EventStreamsAssumption

Ids == Nat \X Nat
Statuses == {"done", "error"}
Events == [id : Ids, job : Jobs, status : Statuses]
WorkerStates == {"none", "queued", "failing", "half_done", "half_error",
                 "finished", "silent"}

(* Ids compare by millisecond, then by sequence number. *)
Before(a, b) == a[1] < b[1] \/ (a[1] = b[1] /\ a[2] < b[2])
AtOrBefore(a, b) == a = b \/ Before(a, b)
Origin == <<0, 0>>
LastId(stream) == IF stream = <<>> THEN Origin ELSE Last(stream).id

(* XADD with id "*": the clock's millisecond, or the next number in it. *)
NextId(stream, ms) ==
    IF LastId(stream)[1] = ms THEN <<ms, LastId(stream)[2] + 1>> ELSE <<ms, 0>>

(* Both increments of an id, TypeScript's and, below ten events a
   millisecond, Python's; and Redis's own. *)
IncrementId(id) == <<id[1], id[2] + 1>>

(* A stream is ordered by id: how many entries come before one. *)
Position(stream, id) ==
    CHOOSE n \in 0 .. Len(stream) :
        \A i \in 1 .. Len(stream) : n < i <=> AtOrBefore(id, stream[i].id)

(* XRANGE from an id to another, or to the end; XREAD, after an id. *)
Entries(stream, start, end) ==
    SubSeq(stream, Position(stream, start) + 1,
           IF end = None THEN Len(stream) ELSE Position(stream, IncrementId(end)))
EntriesAfter(stream, id) == Entries(stream, IncrementId(id), None)

StreamsInit ==
    /\ now = 1
    /\ scoped = <<>>
    /\ full = <<>>
    /\ worker = [j \in Jobs |-> "none"]

(* init_job and delay: a new job is queued and its metadata are answered. *)
SubmitJob(j) ==
    /\ worker[j] = "none"
    /\ \A i \in Jobs : i < j => worker[i] # "none"
    /\ worker' = [worker EXCEPT ![j] = "queued"]
    /\ UNCHANGED <<now, scoped, full>>

(* update_job, first XADD.  An exception turns "done" into "error". *)
XAddScoped(j, status) ==
    /\ worker[j] = "queued" \/ (worker[j] = "failing" /\ status = "error")
    /\ \E ms \in now .. MaxTime :
          /\ ms <= now + 1
          /\ now' = ms
          /\ scoped' = Append(scoped, [id |-> NextId(scoped, ms), job |-> j,
                                       status |-> status])
    /\ worker' = [worker EXCEPT ![j] = IF status = "done" THEN "half_done"
                                                          ELSE "half_error"]
    /\ UNCHANGED full

(* update_job, second XADD. *)
XAddFull(j) ==
    /\ worker[j] \in {"half_done", "half_error"}
    /\ \E ms \in now .. MaxTime :
          /\ ms <= now + 1
          /\ now' = ms
          /\ full' = Append(full, [id |-> NextId(full, ms), job |-> j,
                 status |-> IF worker[j] = "half_done" THEN "done" ELSE "error"])
    /\ worker' = [worker EXCEPT ![j] = "finished"]
    /\ UNCHANGED scoped

(* Redis refuses an XADD.  While publishing "done" this is one more exception
   of the task, which then publishes "error"; while publishing "error" it ends
   the task. *)
XAddFails(j) ==
    /\ j \in Refused
    /\ \/ /\ worker[j] \in {"queued", "half_done"}
          /\ worker' = [worker EXCEPT ![j] = "failing"]
       \/ /\ worker[j] \in {"failing", "half_error"}
          /\ worker' = [worker EXCEPT ![j] = "silent"]
    /\ UNCHANGED <<now, scoped, full>>

(* SoftTimeLimitExceeded is re-raised and publishes nothing. *)
SoftTimeLimit(j) ==
    /\ "timeout" \in Faults
    /\ worker[j] \notin {"none", "finished", "silent"}
    /\ worker' = [worker EXCEPT ![j] = "silent"]
    /\ UNCHANGED <<now, scoped, full>>

WorkerStep(j) ==
    \/ \E status \in Statuses : XAddScoped(j, status)
    \/ XAddFull(j)
    \/ XAddFails(j)
    \/ SoftTimeLimit(j)

(* What the channel's stream says of a job. *)
Published(j) == {e.status : e \in {f \in ToSet(scoped) : f.job = j}}
=============================================================================
