-------------------------- MODULE EventsInvariant --------------------------
(***************************************************************************)
(* Why no event is lost: the inductive invariant of AsyncEvents.           *)
(***************************************************************************)
EXTENDS AsyncEvents

(* Both streams are ordered, and the clock is not behind them. *)
Ordered(stream) ==
    \A i, k \in 1 .. Len(stream) : i < k => Before(stream[i].id, stream[k].id)
Dated(stream) ==
    \A i \in 1 .. Len(stream) :
        Before(Origin, stream[i].id) /\ stream[i].id[1] <= now
StreamsOK ==
    /\ now > 0
    /\ Ordered(scoped) /\ Dated(scoped)
    /\ Ordered(full) /\ Dated(full)

(* A worker publishes to the channel first; whatever is anywhere on its way says
   what the channel's stream says. *)
WorkersOK ==
    \A j \in Jobs :
        /\ worker[j] = "none" => Published(j) = {}
        /\ worker[j] = "half_done" => "done" \in Published(j)
        /\ worker[j] = "half_error" => "error" \in Published(j)
        /\ promise[j] = "fetching" => "done" \in Published(j)
Everywhere == ToSet(full) \cup ToSet(wire) \cup BagToSet(timers)
EventsPublished == \A e \in Everywhere : e.status \in Published(e.job)

(* The two ends of a connection, and who polls. *)
LinkOK ==
    /\ link = 0 => wire = <<>> /\ covered = {}
    /\ link # 0 => conn = "open" /\ ready[link] = "open"
    /\ covered # {} => firehose # None
    /\ transport \in Transports
    /\ transport = "polling" => conn = "off"
    /\ OpenSocketTracked

(* The server stands in the stream it reads. *)
ReaderOK ==
    /\ firehose # None => AtOrBefore(firehose, LastId(full))
    /\ firehose # None /\ reading # None => reading = firehose

(* The tab still waits, and has not even heard of the job's event. *)
Unheard(j) ==
    /\ promise[j] \in {"requested", "waiting"}
    /\ j \notin dropped
    /\ EventsOf(j, BagToSet(timers)) = {}

ForwardedInTime ==
    \A e \in ToSet(full) :
        e.job \in covered /\ Unheard(e.job) =>
            Before(firehose, e.id) \/ EventsOf(e.job, ToSet(wire)) # {}

(* The ids that a poll may start from, now or after a retry. *)
KnownIds == ({lastId, askedId} \ {None}) \cup {e.id : e \in BagToSet(timers)}

PolledInTime ==
    transport = "polling" =>
        /\ \A id \in KnownIds : AtOrBefore(id, LastId(scoped))
        /\ \A e \in ToSet(scoped), id \in KnownIds :
              Unheard(e.job) => Before(id, e.id)

EventsInv ==
    /\ TypeOK
    /\ StreamsOK
    /\ WorkersOK
    /\ EventsPublished
    /\ LinkOK
    /\ ReaderOK
    /\ ForwardedInTime
    /\ PolledInTime
=============================================================================
