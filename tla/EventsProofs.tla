---------------------------- MODULE EventsProofs ----------------------------
(***************************************************************************)
(* No event is lost and no promise is settled but by what was published,   *)
(* for any jobs, faults and bounds.                                        *)
(***************************************************************************)
EXTENDS EventsLemmas

(* The tab after the steps that process events, E, compared with before. *)
Moved(E) ==
    /\ TabOK(Tab')
    /\ \A j \in Jobs : promise'[j] # promise[j] =>
          /\ promise[j] \in {"waiting", "fetching"}
          /\ \E e \in E : e.job = j /\ promise'[j] = Heard(promise[j], e.status)
    /\ dropped \subseteq dropped'
    /\ BagToSet(timers') \subseteq BagToSet(timers) \cup E
    /\ lastId' \in {lastId} \cup {e.id : e \in E}
    /\ \A j \in Jobs : ~Unheard(j) => ~Unheard(j)'
    /\ \A e \in E : ~Unheard(e.job)'

LEMMA ProcessEventsMoves ==
    ASSUME TypeOK, NEW events \in Seq(Events), ProcessEvents(Tab, events)
    PROVE  Moved(ToSet(events))
  <1>1. TabOK(Tab)
    BY DEF TabOK, Tab, TypeOK
  <1> DEFINE new == AfterEvents(Tab, events)
  <1>2. TabOK(new) /\ Follows(Tab, new, ToSet(events))
    BY <1>1, AfterEventsFollows
  <1>3. /\ promise' = new.promise /\ timers' = new.timers /\ retries' = new.retries
        /\ lastId' = new.lastId /\ dropped' = new.dropped
    BY DEF ProcessEvents, SetTab
  <1> HIDE DEF new
  <1>4. \A e \in ToSet(events) : e.job \in Jobs
    BY StreamEntry DEF Events
  <1>5. /\ Tab.promise = promise /\ Tab.timers = timers
        /\ Tab.lastId = lastId /\ Tab.dropped = dropped
    BY DEF Tab
  <1>6. \A j \in Jobs : HeardOf(new, j) => ~Unheard(j)'
    BY <1>3 DEF HeardOf, Unheard, EventsOf
  <1>7. \A j \in Jobs : ~Unheard(j) => HeardOf(new, j)
    BY <1>2, <1>5 DEF Follows, HeardOf, Unheard, EventsOf, Heard
  <1>8. TabOK(Tab')
    BY <1>2, <1>3 DEF TabOK, Tab
  <1> QED
    BY <1>2, <1>3, <1>4, <1>5, <1>6, <1>7, <1>8 DEF Moved, Follows

(* The timer takes one copy of its event away and processes the event. *)
LEMMA RetryMoves ==
    ASSUME TypeOK, NEW e, Retry(e)
    PROVE  e \in BagToSet(timers) /\ e \in Events /\ Moved({e})
  <1> DEFINE left == [Tab EXCEPT !.timers = @ (-) SetToBag({e})]
             new == AfterEvents(left, <<e>>)
  <1>1. e \in BagToSet(timers) /\ e \in Events
    BY DEF Retry, BagIn, TypeOK
  <1>2. /\ DOMAIN left = {"promise", "timers", "retries", "lastId", "dropped"}
        /\ left.promise = promise /\ left.retries = retries
        /\ left.lastId = lastId /\ left.dropped = dropped
        /\ left.timers = timers (-) SetToBag({e})
    BY DEF Tab
  <1>3. /\ BagToSet(timers (-) SetToBag({e})) \subseteq BagToSet(timers)
    BY DEF BagToSet, (-)
  <1>4. /\ IsABag(timers (-) SetToBag({e}))
        /\ BagToSet(timers) \subseteq BagToSet(timers (-) SetToBag({e})) \cup {e}
    BY DEF BagToSet, IsABag, (-), SetToBag, TypeOK
  <1>5. TabOK(left)
    BY <1>2, <1>3, <1>4 DEF TabOK, TypeOK
  <1>6. <<e>> \in Seq(Events) /\ ToSet(<<e>>) = {e}
    BY <1>1 DEF ToSet
  <1>7. TabOK(new) /\ Follows(left, new, {e})
    BY <1>5, <1>6, AfterEventsFollows
  <1>8. /\ promise' = new.promise /\ timers' = new.timers /\ retries' = new.retries
        /\ lastId' = new.lastId /\ dropped' = new.dropped
    BY DEF Retry, ProcessEvents, SetTab
  <1> HIDE DEF new, left
  <1>9. \A j \in Jobs : HeardOf(new, j) => ~Unheard(j)'
    BY <1>8 DEF HeardOf, Unheard, EventsOf
  <1>10. HeardOf(new, e.job) /\ e.job \in Jobs
    BY <1>1, <1>7 DEF Follows, Events
  <1>11. \A j \in Jobs : ~Unheard(j) => HeardOf(new, j)
    <2> SUFFICES ASSUME NEW j \in Jobs, ~Unheard(j), j # e.job PROVE HeardOf(new, j)
      BY <1>10
    <2>1. \/ left.promise[j] \notin {"requested", "waiting"}
          \/ j \in left.dropped
          \/ \E f \in BagToSet(left.timers) : f.job = j
      BY <1>2, <1>4 DEF Unheard, EventsOf
    <2> QED BY <1>7, <2>1 DEF Follows, HeardOf, Heard
  <1>12. TabOK(Tab')
    BY <1>7, <1>8 DEF TabOK, Tab
  <1> QED
    BY <1>1, <1>2, <1>3, <1>7, <1>8, <1>9, <1>10, <1>11, <1>12 DEF Moved, Follows

-----------------------------------------------------------------------------
(* The initial states. *)
LEMMA InitEventsInv == Init => EventsInv
  <1> SUFFICES ASSUME Init PROVE EventsInv
    OBVIOUS
  <1> USE DEF Init, StreamsInit, ServerInit, ClientInit
  <1>1. /\ <<>> \in Seq(Events) /\ Len(<<>>) = 0 /\ ToSet(<<>>) = {}
        /\ <<>> \in Seq(Ranges)
    BY DEF ToSet
  <1>2. IsABag(EmptyBag) /\ BagToSet(EmptyBag) = {}
    BY DEF IsABag, EmptyBag, SetToBag, BagToSet
  <1>3. Origin \in Ids
    BY DEF Origin, Ids
  <1>4. TypeOK
    BY <1>1, <1>2, <1>3, EventClientAssumption, EventServerAssumption
    DEF TypeOK, WorkerStates, PromiseStates, EventClientAssumption,
        EventServerAssumption, Conns
  <1>5. StreamsOK
    BY <1>1 DEF StreamsOK, Ordered, Dated
  <1>6. \A j \in Jobs : Published(j) = {} /\ promise[j] = "none"
    BY <1>1 DEF Published
  <1>7. WorkersOK
    BY <1>6 DEF WorkersOK
  <1>8. EventsPublished
    BY <1>1, <1>2 DEF EventsPublished, Everywhere
  <1>9. LinkOK
    BY DEF LinkOK, OpenSocketTracked
  <1>10. ReaderOK
    BY DEF ReaderOK, LastId, AtOrBefore
  <1>11. ForwardedInTime
    BY <1>1 DEF ForwardedInTime
  <1>12. PolledInTime
    BY <1>1, <1>2 DEF PolledInTime, KnownIds
  <1> QED
    BY <1>4, <1>5, <1>7, <1>8, <1>9, <1>10, <1>11, <1>12 DEF EventsInv

-----------------------------------------------------------------------------
(* The workers. *)

LEMMA EverywhereEvents ==
    ASSUME TypeOK
    PROVE  Everywhere \subseteq Events
  <1>1. ToSet(full) \subseteq Events /\ ToSet(wire) \subseteq Events
    BY StreamEntry DEF TypeOK
  <1> QED BY <1>1 DEF Everywhere, TypeOK

(* XADD keeps a stream ordered and the clock ahead of it. *)
LEMMA XAddKeeps ==
    ASSUME NEW s \in Seq(Events), Ordered(s), Dated(s), now \in Nat, now > 0,
           NEW ms \in Nat, now <= ms, NEW e \in Events, e.id = NextId(s, ms)
    PROVE  /\ Ordered(Append(s, e))
           /\ \A i \in 1 .. Len(s) + 1 : /\ Before(Origin, Append(s, e)[i].id)
                                         /\ Append(s, e)[i].id[1] <= ms
           /\ Before(LastId(s), e.id)
  <1>1. Len(s) \in Nat /\ \A i \in 1 .. Len(s) : s[i].id \in Ids
    BY StreamEntry
  <1>2. \A i \in 1 .. Len(s) : s[i].id[1] <= ms /\ Before(Origin, s[i].id)
    BY <1>1 DEF Dated, Ids
  <1>3. e.id \in Ids /\ e.id[1] = ms /\ Before(LastId(s), e.id)
    BY <1>2, NextIdIs
  <1>4. Before(Origin, e.id)
    BY <1>3 DEF Origin, Before, Ids
  <1>5. \A i \in 1 .. Len(s) : Before(s[i].id, e.id)
    <2> SUFFICES ASSUME NEW i \in 1 .. Len(s) PROVE Before(s[i].id, e.id)
      OBVIOUS
    <2>1. s[i] \in ToSet(s)
      BY StreamEntry
    <2> QED BY <1>1, <1>3, <2>1, LastIsLast, IdTransitive
  <1>6. /\ \A i \in 1 .. Len(s) : Append(s, e)[i] = s[i]
        /\ Append(s, e)[Len(s) + 1] = e
        /\ Len(Append(s, e)) = Len(s) + 1
    BY AppendedSet
  <1>7. \A i \in 1 .. Len(s) + 1 : i \in 1 .. Len(s) \/ i = Len(s) + 1
    BY <1>1
  <1>8. Ordered(Append(s, e))
    <2> SUFFICES ASSUME NEW i \in 1 .. Len(s) + 1, NEW k \in 1 .. Len(s) + 1, i < k
                 PROVE  Before(Append(s, e)[i].id, Append(s, e)[k].id)
      BY <1>6 DEF Ordered
    <2>1. i \in 1 .. Len(s)
      BY <1>1
    <2>2. CASE k \in 1 .. Len(s)
      BY <1>6, <2>1, <2>2 DEF Ordered
    <2>3. CASE k = Len(s) + 1
      BY <1>5, <1>6, <2>1, <2>3
    <2> QED BY <1>7, <2>2, <2>3
  <1> QED BY <1>2, <1>3, <1>4, <1>6, <1>7, <1>8

LEMMA XAddScopedKeeps ==
    ASSUME EventsInv, NEW j \in Jobs, NEW status \in Statuses,
           XAddScoped(j, status), UNCHANGED <<serverVars, clientVars, history>>
    PROVE  EventsInv'
  <1> USE DEF EventsInv
  <1>1. PICK ms \in now .. MaxTime :
           /\ now' = ms
           /\ scoped' = Append(scoped, [id |-> NextId(scoped, ms), job |-> j,
                                        status |-> status])
    BY DEF XAddScoped
  <1> DEFINE e == [id |-> NextId(scoped, ms), job |-> j, status |-> status]
  <1>2. now \in Nat /\ now > 0 /\ ms \in Nat /\ now <= ms /\ scoped \in Seq(Events)
    BY EventStreamsAssumption DEF TypeOK, StreamsOK, EventStreamsAssumption
  <1>3. Ordered(scoped) /\ Dated(scoped)
    BY DEF StreamsOK
  <1>4. e \in Events
    <2>1. \A i \in 1 .. Len(scoped) : scoped[i].id[1] <= ms
      BY <1>2, <1>3, StreamEntry DEF Dated, Ids
    <2>2. NextId(scoped, ms) \in Ids
      BY <1>2, <2>1, NextIdIs
    <2> QED BY <2>2 DEF Events
  <1>5. e.id = NextId(scoped, ms) /\ e.job = j /\ e.status = status
    OBVIOUS
  <1>6. scoped' = Append(scoped, e)
    BY <1>1
  <1> HIDE DEF e
  <1>7. /\ Ordered(scoped') /\ Before(LastId(scoped), e.id)
        /\ \A i \in 1 .. Len(scoped) + 1 :
              Before(Origin, scoped'[i].id) /\ scoped'[i].id[1] <= now'
    BY <1>1, <1>2, <1>3, <1>4, <1>5, <1>6, XAddKeeps
  <1>8. /\ scoped' \in Seq(Events) /\ Len(scoped') = Len(scoped) + 1
        /\ ToSet(scoped') = ToSet(scoped) \cup {e} /\ LastId(scoped') = e.id
    BY <1>2, <1>4, <1>6, AppendedSet
  <1>9. \A k \in Jobs : Published(k)' = Published(k) \cup
                                         (IF k = j THEN {status} ELSE {})
    BY <1>5, <1>8 DEF Published
  <1>10. TypeOK'
    BY <1>1, <1>2, <1>8 DEF TypeOK, XAddScoped, WorkerStates, serverVars, clientVars,
        tabVars, connVars, history
  <1>11. StreamsOK'
    <2>1. Ordered(full)' /\ full' = full /\ full \in Seq(Events)
      BY DEF StreamsOK, Ordered, XAddScoped, TypeOK
    <2>2. Dated(full)'
      BY <1>1, <1>2, <2>1, StreamEntry DEF StreamsOK, Dated, Ids
    <2>3. Ordered(scoped)' /\ Dated(scoped)'
      BY <1>7, <1>8 DEF Ordered, Dated
    <2> QED BY <1>1, <1>2, <2>1, <2>2, <2>3 DEF StreamsOK
  <1>12. WorkersOK'
    <2> SUFFICES ASSUME NEW k \in Jobs
                 PROVE  /\ worker'[k] = "none" => Published(k)' = {}
                        /\ worker'[k] = "half_done" => "done" \in Published(k)'
                        /\ worker'[k] = "half_error" => "error" \in Published(k)'
                        /\ promise'[k] = "fetching" => "done" \in Published(k)'
      BY DEF WorkersOK
    <2>1. promise' = promise /\ worker \in [Jobs -> WorkerStates]
      BY DEF clientVars, tabVars, TypeOK
    <2>2. worker'[k] = IF k = j THEN IF status = "done" THEN "half_done" ELSE "half_error"
                                ELSE worker[k]
      BY <2>1 DEF XAddScoped
    <2> QED BY <1>9, <2>1, <2>2 DEF WorkersOK, Statuses
  <1>13. EventsPublished'
    <2>1. Everywhere' = Everywhere
      BY DEF Everywhere, XAddScoped, serverVars, clientVars, tabVars
    <2> QED BY <1>9, <2>1, EverywhereEvents DEF EventsPublished, Events
  <1>14. LinkOK'
    BY DEF LinkOK, OpenSocketTracked, serverVars, clientVars, tabVars, connVars, history
  <1>15. ReaderOK'
    BY DEF ReaderOK, XAddScoped, serverVars
  <1>16. ForwardedInTime'
    BY DEF ForwardedInTime, Unheard, EventsOf, XAddScoped, serverVars, clientVars,
        tabVars, history
  <1>17. PolledInTime'
    <2> SUFFICES ASSUME transport = "polling"
                 PROVE  /\ \A id \in KnownIds : AtOrBefore(id, e.id)
                        /\ \A f \in ToSet(scoped) \cup {e}, id \in KnownIds :
                              Unheard(f.job) => Before(id, f.id)
      BY <1>8 DEF PolledInTime, KnownIds, Unheard, EventsOf, clientVars, tabVars
    <2>1. KnownIds \subseteq Ids /\ e.id \in Ids
      BY <1>4 DEF KnownIds, TypeOK, Events
    <2>2. \A id \in KnownIds : Before(id, e.id)
      BY <1>2, <1>3, <1>7, <2>1, LastIsLast, IdTransitive DEF PolledInTime
    <2> QED BY <2>2 DEF PolledInTime, AtOrBefore
  <1> HIDE DEF EventsInv
  <1> QED
    BY <1>10, <1>11, <1>12, <1>13, <1>14, <1>15, <1>16, <1>17 DEF EventsInv

LEMMA XAddFullKeeps ==
    ASSUME EventsInv, NEW j \in Jobs, XAddFull(j),
           UNCHANGED <<serverVars, clientVars, history>>
    PROVE  EventsInv'
  <1> USE DEF EventsInv
  <1> DEFINE status == IF worker[j] = "half_done" THEN "done" ELSE "error"
  <1>1. PICK ms \in now .. MaxTime :
           /\ now' = ms
           /\ full' = Append(full, [id |-> NextId(full, ms), job |-> j,
                                    status |-> status])
    BY DEF XAddFull
  <1> DEFINE e == [id |-> NextId(full, ms), job |-> j, status |-> status]
  <1>2. now \in Nat /\ now > 0 /\ ms \in Nat /\ now <= ms /\ full \in Seq(Events)
    BY EventStreamsAssumption DEF TypeOK, StreamsOK, EventStreamsAssumption
  <1>3. Ordered(full) /\ Dated(full)
    BY DEF StreamsOK
  <1>4. e \in Events
    <2>1. \A i \in 1 .. Len(full) : full[i].id[1] <= ms
      BY <1>2, <1>3, StreamEntry DEF Dated, Ids
    <2>2. NextId(full, ms) \in Ids
      BY <1>2, <2>1, NextIdIs
    <2> QED BY <2>2 DEF Events, Statuses
  <1>5. e.id = NextId(full, ms) /\ e.job = j /\ e.status \in Published(j)
    BY DEF WorkersOK, XAddFull
  <1>6. full' = Append(full, e)
    BY <1>1
  <1> HIDE DEF e
  <1>7. /\ Ordered(full') /\ Before(LastId(full), e.id)
        /\ \A i \in 1 .. Len(full) + 1 :
              Before(Origin, full'[i].id) /\ full'[i].id[1] <= now'
    BY <1>1, <1>2, <1>3, <1>4, <1>5, <1>6, XAddKeeps
  <1>8. /\ full' \in Seq(Events) /\ Len(full') = Len(full) + 1
        /\ ToSet(full') = ToSet(full) \cup {e} /\ LastId(full') = e.id
    BY <1>2, <1>4, <1>6, AppendedSet
  <1>9. scoped' = scoped /\ \A k \in Jobs : Published(k)' = Published(k)
    BY DEF Published, XAddFull
  <1>10. TypeOK'
    BY <1>1, <1>2, <1>8 DEF TypeOK, XAddFull, WorkerStates, serverVars, clientVars,
        tabVars, connVars, history
  <1>11. StreamsOK'
    <2>1. Ordered(scoped)' /\ scoped \in Seq(Events)
      BY <1>9 DEF StreamsOK, Ordered, TypeOK
    <2>2. Dated(scoped)'
      BY <1>1, <1>2, <1>9, <2>1, StreamEntry DEF StreamsOK, Dated, Ids
    <2>3. Ordered(full)' /\ Dated(full)'
      BY <1>7, <1>8 DEF Ordered, Dated
    <2> QED BY <1>1, <1>2, <2>1, <2>2, <2>3 DEF StreamsOK
  <1>12. WorkersOK'
    BY <1>9 DEF WorkersOK, XAddFull, TypeOK, clientVars, tabVars
  <1>13. EventsPublished'
    <2>1. Everywhere' = Everywhere \cup {e}
      BY <1>8 DEF Everywhere, serverVars, clientVars, tabVars
    <2> QED BY <1>5, <1>9, <2>1, EverywhereEvents DEF EventsPublished, Events
  <1>14. LinkOK'
    BY DEF LinkOK, OpenSocketTracked, serverVars, clientVars, tabVars, connVars, history
  <1>15. firehose # None => Before(firehose, e.id) /\ AtOrBefore(firehose, e.id)
    <2>1. e.id \in Ids /\ LastId(full) \in Ids
      BY <1>2, <1>3, <1>4, LastIsLast DEF Events
    <2> QED BY <1>7, <2>1, IdTransitive DEF ReaderOK, TypeOK, AtOrBefore
  <1>16. ReaderOK'
    BY <1>8, <1>15 DEF ReaderOK, serverVars
  <1>17. ForwardedInTime'
    BY <1>8, <1>15 DEF ForwardedInTime, LinkOK, Unheard, EventsOf, serverVars, clientVars,
        tabVars, history
  <1>18. PolledInTime'
    BY <1>9 DEF PolledInTime, KnownIds, Unheard, EventsOf, clientVars, tabVars
  <1> HIDE DEF EventsInv
  <1> QED
    BY <1>10, <1>11, <1>12, <1>13, <1>14, <1>16, <1>17, <1>18 DEF EventsInv

(* A worker that fails publishes nothing. *)
LEMMA SilentKeeps ==
    ASSUME EventsInv, NEW j \in Jobs, XAddFails(j) \/ SoftTimeLimit(j),
           UNCHANGED <<serverVars, clientVars, history>>
    PROVE  EventsInv'
  <1> USE DEF EventsInv
  <1> USE DEF serverVars, clientVars, tabVars, connVars, history
  <1>1. /\ now' = now /\ scoped' = scoped /\ full' = full
        /\ \/ worker' = [worker EXCEPT ![j] = "failing"]
           \/ worker' = [worker EXCEPT ![j] = "silent"]
    BY DEF XAddFails, SoftTimeLimit
  <1>2. TypeOK'
    BY <1>1 DEF TypeOK, WorkerStates
  <1>3. StreamsOK'
    BY <1>1 DEF StreamsOK, Ordered, Dated
  <1>4. WorkersOK'
    BY <1>1 DEF WorkersOK, TypeOK, Published
  <1>5. EventsPublished'
    BY <1>1 DEF EventsPublished, Everywhere, Published
  <1>6. LinkOK' /\ ReaderOK'
    BY <1>1 DEF LinkOK, OpenSocketTracked, ReaderOK
  <1>7. ForwardedInTime' /\ PolledInTime'
    BY <1>1 DEF ForwardedInTime, PolledInTime, KnownIds, Unheard, EventsOf
  <1> QED BY <1>2, <1>3, <1>4, <1>5, <1>6, <1>7

LEMMA WorkKeeps ==
    ASSUME EventsInv, NEW j \in Jobs, Work(j)
    PROVE  EventsInv'
  BY XAddScopedKeeps, XAddFullKeeps, SilentKeeps DEF Work, WorkerStep

-----------------------------------------------------------------------------
(* Requests: a job that was never published is owed nothing yet. *)
LEMMA SubmitKeeps ==
    ASSUME EventsInv, NEW j \in Jobs, SubmitJob(j), UNCHANGED serverVars,
           UNCHANGED <<transport, timers, retries, lastId, dropped, connVars,
                       askedId, poll>>,
           promise' = promise \/ promise' = [promise EXCEPT ![j] = "requested"],
           covered' = covered \/ (covered' = covered \cup {j} /\ Connected /\ firehose # None)
    PROVE  EventsInv'
  <1> USE DEF EventsInv
  <1> USE DEF serverVars, connVars
  <1>1. /\ now' = now /\ scoped' = scoped /\ full' = full
        /\ worker' = [worker EXCEPT ![j] = "queued"] /\ Published(j) = {}
    BY DEF SubmitJob, WorkersOK
  <1>2. TypeOK'
    BY <1>1 DEF TypeOK, WorkerStates, PromiseStates
  <1>3. StreamsOK'
    BY <1>1 DEF StreamsOK, Ordered, Dated
  <1>4. WorkersOK'
    BY <1>1 DEF WorkersOK, TypeOK, Published
  <1>5. EventsPublished'
    BY <1>1 DEF EventsPublished, Everywhere, Published
  <1>6. LinkOK' /\ ReaderOK'
    BY <1>1 DEF LinkOK, OpenSocketTracked, ReaderOK, Connected
  <1>7. \A e \in ToSet(full) \cup ToSet(scoped) : e.job # j
    <2>1. \A e \in ToSet(scoped) : e.job # j
      BY <1>1 DEF Published
    <2>2. \A e \in ToSet(full) : e.status \in Published(e.job)
      BY DEF EventsPublished, Everywhere
    <2> HIDE DEF EventsInv
    <2>3. \A e \in ToSet(full) : e.job # j
      BY <1>1, <2>2
    <2> QED BY <2>1, <2>3
  <1>8. \A k \in Jobs : k # j /\ Unheard(k)' => Unheard(k)
    BY DEF Unheard, EventsOf, TypeOK
  <1>9. ToSet(full) \subseteq Events /\ ToSet(scoped) \subseteq Events
    BY StreamEntry DEF TypeOK
  <1>10. ForwardedInTime'
    BY <1>1, <1>7, <1>8, <1>9 DEF ForwardedInTime, EventsOf, Events
  <1>11. PolledInTime'
    BY <1>1, <1>7, <1>8, <1>9 DEF PolledInTime, KnownIds, Events
  <1> QED BY <1>2, <1>3, <1>4, <1>5, <1>6, <1>10, <1>11

LEMMA RequestKeeps ==
    ASSUME EventsInv, NEW j \in Jobs, RequestData(j) \/ RequestElsewhere(j)
    PROVE  EventsInv'
  <1>1. CASE RequestData(j)
    BY <1>1, SubmitKeeps DEF RequestData, Request
  <1>2. CASE RequestElsewhere(j)
    BY <1>2, SubmitKeeps DEF RequestElsewhere, clientVars, tabVars, history, connVars, serverVars
  <1> QED BY <1>1, <1>2

-----------------------------------------------------------------------------
(* The server. *)

(* A batch that is sent to the channel reaches the one live connection, if there
   is one, and cleaning the channel spares the open sockets. *)
LEMMA SendToChannelSends ==
    ASSUME TypeOK, LinkOK, NEW batch \in Seq(Events), SendToChannel(batch)
    PROVE  /\ wire' \in Seq(Events) /\ ToSet(wire) \subseteq ToSet(wire')
           /\ ToSet(wire') \subseteq ToSet(wire) \cup ToSet(batch)
           /\ link # 0 => ToSet(batch) \subseteq ToSet(wire')
           /\ link = 0 => wire' = <<>>
           /\ members' \subseteq members
           /\ \A c \in Conns : ready[c] = "open" => c \in members'
  <1>1. wire \in Seq(Events) /\ members \subseteq Conns /\ registry \subseteq Conns
    BY DEF TypeOK
  <1>2. 0 \notin Conns
    BY EventServerAssumption DEF Conns, EventServerAssumption
  <1>3. link # 0 => link \in members \cap registry
    BY DEF LinkOK, OpenSocketTracked, TypeOK
  <1>4. /\ wire \o batch \in Seq(Events)
        /\ ToSet(wire \o batch) = ToSet(wire) \cup ToSet(batch)
    BY <1>1, ConcatenatedSet
  <1>5. /\ link # 0 => wire' = wire \o batch
        /\ link = 0 => wire' = wire /\ wire = <<>>
    BY <1>1, <1>2, <1>3 DEF SendToChannel, LinkOK
  <1>6. members' = members \/ members' = CleanChannel(members)
    BY DEF SendToChannel
  <1> QED
    BY <1>1, <1>4, <1>5, <1>6 DEF LinkOK, OpenSocketTracked, CleanChannel

(* A step of the server that changes neither the streams nor the tab keeps the
   invariant when it keeps the server's own part of it. *)
LEMMA ServerSideKeeps ==
    ASSUME EventsInv, UNCHANGED <<streamVars, clientVars>>, TypeOK', LinkOK', ReaderOK',
           ForwardedInTime',
           ToSet(wire') \subseteq ToSet(wire) \cup ToSet(full) \cup ToSet(scoped)
    PROVE  EventsInv'
  <1> USE DEF streamVars, clientVars, tabVars
  <1>1. EventsPublished'
    BY DEF EventsInv, EventsPublished, Everywhere, Published
  <1>2. StreamsOK'
    BY DEF EventsInv, StreamsOK, Ordered, Dated
  <1>3. WorkersOK'
    BY DEF EventsInv, WorkersOK, Published
  <1>4. PolledInTime'
    BY DEF EventsInv, PolledInTime, KnownIds, Unheard, EventsOf
  <1> QED BY <1>1, <1>2, <1>3, <1>4 DEF EventsInv

LEMMA ReadReplyKeeps ==
    ASSUME EventsInv, ReadReply, KeepCovered, UNCHANGED <<streamVars, clientVars>>
    PROVE  EventsInv'
  <1> USE DEF EventsInv
  <1> DEFINE new == EntriesAfter(full, reading)
  <1>1. reading # None /\ reading \in Ids /\ full \in Seq(Events) /\ Ordered(full)
    BY DEF ReadReply, TypeOK, StreamsOK
  <1>2. PICK n \in {1, Len(new)} : /\ SendToChannel(SubSeq(new, 1, n))
                                   /\ firehose' = new[n].id
    BY DEF ReadReply
  <1> DEFINE batch == SubSeq(new, 1, n)
  <1>3. new # <<>>
    BY DEF ReadReply
  <1>4. /\ batch \in Seq(Events) /\ ToSet(batch) \subseteq ToSet(full)
        /\ new[n] \in ToSet(batch) /\ new[n].id \in Ids
        /\ \A e \in ToSet(full) :
              Before(reading, e.id) => e \in ToSet(batch) \/ Before(new[n].id, e.id)
    BY <1>1, <1>3, BatchIs
  <1>5. SendToChannel(batch) /\ firehose' = new[n].id
    BY <1>2
  <1> HIDE DEF new, batch
  <1>6. /\ wire' \in Seq(Events) /\ ToSet(wire) \subseteq ToSet(wire')
        /\ ToSet(wire') \subseteq ToSet(wire) \cup ToSet(batch)
        /\ link # 0 => ToSet(batch) \subseteq ToSet(wire')
        /\ link = 0 => wire' = <<>>
        /\ members' \subseteq members
        /\ \A c \in Conns : ready[c] = "open" => c \in members'
    BY <1>4, <1>5, SendToChannelSends
  <1>7. /\ link' = link /\ reading' = None /\ ready' = ready /\ registry' = registry
        /\ ranges' = ranges /\ covered' = IF link = 0 THEN {} ELSE covered
    BY DEF ReadReply, KeepCovered
  <1> USE DEF streamVars, clientVars, tabVars, connVars
  <1>8. firehose' \in Ids /\ firehose' # None
    BY <1>4, <1>5, EventStreamsAssumption DEF EventStreamsAssumption, Ids
  <1>9. TypeOK'
    BY <1>6, <1>7, <1>8 DEF TypeOK
  <1>10. LinkOK'
    BY <1>6, <1>7, <1>8 DEF LinkOK, OpenSocketTracked
  <1>11. ReaderOK'
    <2>1. new[n] \in ToSet(full)
      BY <1>4
    <2>2. AtOrBefore(firehose', LastId(full))
      BY <1>1, <1>5, <2>1, LastIsLast
    <2> QED BY <1>7, <2>2 DEF ReaderOK
  <1>12. ForwardedInTime'
    <2> SUFFICES ASSUME NEW e \in ToSet(full), e.job \in covered, link # 0,
                        Unheard(e.job)
                 PROVE  Before(firehose', e.id) \/ EventsOf(e.job, ToSet(wire')) # {}
      BY <1>7 DEF ForwardedInTime, Unheard, EventsOf
    <2>1. reading = firehose
      BY <1>1 DEF LinkOK, ReaderOK
    <2>2. CASE EventsOf(e.job, ToSet(wire)) # {}
      BY <1>6, <2>2 DEF EventsOf
    <2>3. CASE Before(reading, e.id)
      BY <1>4, <1>5, <1>6, <2>3 DEF EventsOf
    <2> QED BY <2>1, <2>2, <2>3 DEF ForwardedInTime
  <1>13. ToSet(wire') \subseteq ToSet(wire) \cup ToSet(full) \cup ToSet(scoped)
    BY <1>4, <1>6
  <1> HIDE DEF EventsInv
  <1> QED BY <1>9, <1>10, <1>11, <1>12, <1>13, ServerSideKeeps

LEMMA RangeReplyKeeps ==
    ASSUME EventsInv, RangeReply, KeepCovered, UNCHANGED <<streamVars, clientVars>>
    PROVE  EventsInv'
  <1> USE DEF EventsInv
  <1> DEFINE range == Head(ranges)
             batch == Entries(scoped, range.start, range.end)
  <1>1. range \in Ranges /\ Tail(ranges) \in Seq(Ranges)
    BY DEF RangeReply, TypeOK
  <1>2. range.start \in Ids /\ range.end \in Ids \cup {None}
    BY <1>1 DEF Ranges
  <1>3. batch \in Seq(Events) /\ ToSet(batch) \subseteq ToSet(scoped)
    BY <1>2, EntriesOfStream DEF TypeOK, StreamsOK
  <1>4. SendToChannel(batch)
    BY DEF RangeReply
  <1>5. /\ link' = link /\ reading' = reading /\ ready' = ready /\ registry' = registry
        /\ ranges' = Tail(ranges) /\ covered' = IF link = 0 THEN {} ELSE covered
        /\ firehose' = firehose
    BY DEF RangeReply, KeepCovered
  <1> HIDE DEF batch, range
  <1>6. /\ wire' \in Seq(Events) /\ ToSet(wire) \subseteq ToSet(wire')
        /\ ToSet(wire') \subseteq ToSet(wire) \cup ToSet(batch)
        /\ link = 0 => wire' = <<>>
        /\ members' \subseteq members
        /\ \A c \in Conns : ready[c] = "open" => c \in members'
    BY <1>3, <1>4, SendToChannelSends
  <1> USE DEF streamVars, clientVars, tabVars, connVars
  <1>7. TypeOK'
    BY <1>1, <1>5, <1>6 DEF TypeOK
  <1>8. LinkOK'
    BY <1>5, <1>6 DEF LinkOK, OpenSocketTracked
  <1>9. ReaderOK'
    BY <1>5 DEF ReaderOK
  <1>10. ForwardedInTime'
    BY <1>5, <1>6 DEF ForwardedInTime, Unheard, EventsOf
  <1> HIDE DEF EventsInv
  <1> QED BY <1>3, <1>6, <1>7, <1>8, <1>9, <1>10, ServerSideKeeps

(* The other steps send nothing. *)
LEMMA QuietReadKeeps ==
    ASSUME EventsInv, StartRead \/ ReadTimeout \/ CollectChannel, KeepCovered,
           UNCHANGED <<streamVars, clientVars>>
    PROVE  EventsInv'
  <1> USE DEF EventsInv
  <1>1. /\ link' = link /\ ready' = ready /\ registry' = registry /\ wire' = wire
        /\ ranges' = ranges /\ covered' = IF link = 0 THEN {} ELSE covered
        /\ firehose' = firehose
    BY DEF StartRead, ReadTimeout, CollectChannel, KeepCovered
  <1>2. \/ reading' = IF firehose = None THEN LastId(full) ELSE firehose
        \/ reading' = None
        \/ reading' = reading
    BY DEF StartRead, ReadTimeout, CollectChannel
  <1>3. members' = members \/ members' = CleanChannel(members)
    BY DEF StartRead, ReadTimeout, CollectChannel
  <1>4. LastId(full) \in Ids
    BY LastIsLast DEF TypeOK, StreamsOK
  <1> USE DEF streamVars, clientVars, tabVars, connVars
  <1>5. TypeOK'
    BY <1>1, <1>2, <1>3, <1>4 DEF TypeOK, CleanChannel
  <1>6. LinkOK'
    BY <1>1, <1>3 DEF LinkOK, OpenSocketTracked, CleanChannel
  <1>7. ReaderOK'
    BY <1>1, <1>2 DEF ReaderOK
  <1>8. ForwardedInTime'
    BY <1>1 DEF ForwardedInTime, Unheard, EventsOf
  <1> HIDE DEF EventsInv
  <1> QED BY <1>1, <1>5, <1>6, <1>7, <1>8, ServerSideKeeps

(* A socket is closed, by a check, by the network or with the process. *)
LEMMA CutKeeps ==
    ASSUME EventsInv, (\E c \in Conns : CheckSocket(c)) \/ LinkBreaks \/ ServerRestart,
           KeepCovered, UNCHANGED <<streamVars, clientVars>>
    PROVE  EventsInv'
  <1> USE DEF EventsInv
  <1> USE DEF streamVars, clientVars, tabVars, connVars
  <1>1. /\ link' \in {0, link} /\ (link' = 0 => wire' = <<>>)
        /\ link' # 0 => wire' = wire /\ firehose' = firehose
        /\ reading' \in {None, reading} /\ firehose' \in {None, firehose}
        /\ firehose' = None => link' = 0 \/ firehose = None
        /\ reading' # None => firehose' = firehose
    BY DEF CheckSocket, LinkBreaks, ServerRestart, LinkOK
  <1>2. /\ ready' \in [Conns -> {"none", "open", "closed"}]
        /\ registry' \subseteq Conns /\ members' \subseteq Conns
        /\ ranges' \in Seq(Ranges)
    <2>1. <<>> \in Seq(Ranges)
      OBVIOUS
    <2>2. CASE \E c \in Conns : CheckSocket(c)
      BY <2>2 DEF CheckSocket, TypeOK
    <2>3. CASE LinkBreaks
      BY <2>3 DEF LinkBreaks, TypeOK
    <2>4. CASE ServerRestart
      BY <2>1, <2>4 DEF ServerRestart, TypeOK
    <2> QED BY <2>2, <2>3, <2>4
  <1>3. \A c \in Conns : ready'[c] = "open" =>
           ready[c] = "open" /\ c \in registry' /\ c \in members'
    BY DEF CheckSocket, LinkBreaks, ServerRestart, TypeOK, LinkOK, OpenSocketTracked
  <1>4. link' # 0 => ready'[link'] = "open"
    BY DEF CheckSocket, LinkBreaks, ServerRestart, TypeOK, LinkOK
  <1>5. covered' = IF link' = 0 THEN {} ELSE covered
    BY DEF KeepCovered
  <1>6. <<>> \in Seq(Events) /\ ToSet(<<>>) = {}
    BY DEF ToSet
  <1>7. TypeOK'
    BY <1>1, <1>2, <1>6 DEF TypeOK
  <1>8. LinkOK'
    BY <1>1, <1>3, <1>4, <1>5 DEF LinkOK, OpenSocketTracked
  <1>9. ReaderOK'
    BY <1>1 DEF ReaderOK
  <1>10. ForwardedInTime'
    BY <1>1, <1>5 DEF ForwardedInTime, Unheard, EventsOf
  <1>11. ToSet(wire') \subseteq ToSet(wire)
    BY <1>1, <1>6
  <1> HIDE DEF EventsInv
  <1> QED BY <1>7, <1>8, <1>9, <1>10, <1>11, ServerSideKeeps

LEMMA ServeKeeps ==
    ASSUME EventsInv, Serve(ServerStep) \/ Disturb
    PROVE  EventsInv'
  BY ReadReplyKeeps, RangeReplyKeeps, QuietReadKeeps, CutKeeps
  DEF Serve, ServerStep, GlobalRead, Disturb

-----------------------------------------------------------------------------
(* The tab. *)

(* What processing published events does to the parts of the invariant that
   speak of the tab. *)
LEMMA ProcessedKeeps ==
    ASSUME EventsInv, NEW E, E \subseteq Everywhere \cup ToSet(scoped), Moved(E),
           UNCHANGED streamVars, ToSet(wire') \subseteq ToSet(wire)
    PROVE  StreamsOK' /\ WorkersOK' /\ EventsPublished'
  <1> USE DEF EventsInv, streamVars
  <1>1. ToSet(scoped) \subseteq Events
    BY StreamEntry DEF TypeOK
  <1>2. \A e \in E : e \in Events /\ e.status \in Published(e.job)
    BY <1>1, EverywhereEvents DEF EventsPublished, Published
  <1>3. \A j \in Jobs : Published(j)' = Published(j)
    BY DEF Published
  <1>4. StreamsOK'
    BY DEF StreamsOK, Ordered, Dated
  <1>5. ASSUME NEW j \in Jobs, promise'[j] = "fetching" PROVE "done" \in Published(j)
    <2>1. CASE promise'[j] = promise[j]
      BY <1>5, <2>1 DEF WorkersOK
    <2>2. CASE promise'[j] # promise[j]
      <3>1. PICK e \in E : e.job = j /\ promise'[j] = Heard(promise[j], e.status)
        BY <2>2 DEF Moved
      <3>2. e.status = "done"
        BY <1>2, <1>5, <3>1 DEF Heard, Events, Statuses
      <3> QED BY <1>2, <3>1, <3>2
    <2> QED BY <2>1, <2>2
  <1>6. WorkersOK'
    BY <1>3, <1>5 DEF WorkersOK
  <1>7. Everywhere' \subseteq Everywhere \cup E
    BY DEF Everywhere, Moved
  <1>8. EventsPublished'
    BY <1>1, <1>2, <1>3, <1>7, EverywhereEvents DEF EventsPublished, Events
  <1> QED BY <1>4, <1>6, <1>8

LEMMA DeliverKeeps ==
    ASSUME EventsInv, Deliver
    PROVE  EventsInv'
  <1> USE DEF EventsInv
  <1> DEFINE e == Head(wire)
  <1>1. /\ wire \in Seq(Events) /\ wire # <<>> /\ conn = "open" /\ wire' = Tail(wire)
        /\ ProcessEvents(Tab, <<e>>)
    BY DEF Deliver, Message, TypeOK
  <1>2. /\ e \in Events /\ wire' \in Seq(Events)
        /\ ToSet(wire) = {e} \cup ToSet(wire')
    BY <1>1, HeadAndTail
  <1> HIDE DEF e
  <1>3. Moved({e})
    <2>1. <<e>> \in Seq(Events) /\ ToSet(<<e>>) = {e}
      BY <1>2 DEF ToSet
    <2> QED BY <1>1, <2>1, ProcessEventsMoves
  <1>4. /\ UNCHANGED <<streamVars, firehose, reading, ready, registry, members,
                       ranges, link, history>>
        /\ UNCHANGED <<transport, connVars, askedId, poll>>
    BY DEF Deliver, Message
  <1>5. StreamsOK' /\ WorkersOK' /\ EventsPublished'
    <2>1. {e} \subseteq Everywhere
      BY <1>2 DEF Everywhere
    <2> QED BY <1>2, <1>3, <1>4, <2>1, ProcessedKeeps
  <1> USE DEF streamVars, history, connVars
  <1>6. TypeOK'
    BY <1>2, <1>3, <1>4 DEF TypeOK, Moved, TabOK, Tab
  <1>7. LinkOK' /\ ReaderOK'
    BY <1>1, <1>2, <1>4 DEF LinkOK, OpenSocketTracked, ReaderOK
  <1>8. ForwardedInTime'
    <2> SUFFICES ASSUME NEW f \in ToSet(full), f.job \in covered, Unheard(f.job)'
                 PROVE  Before(firehose, f.id) \/ EventsOf(f.job, ToSet(wire')) # {}
      BY <1>4 DEF ForwardedInTime
    <2>1. f.job \in Jobs
      BY StreamEntry DEF TypeOK, Events
    <2>2. Unheard(f.job) /\ f.job # e.job
      BY <1>3, <2>1 DEF Moved
    <2> QED BY <1>2, <2>2 DEF ForwardedInTime, EventsOf
  <1>9. PolledInTime'
    BY <1>1, <1>4 DEF PolledInTime, LinkOK
  <1> HIDE DEF EventsInv
  <1> QED BY <1>5, <1>6, <1>7, <1>8, <1>9 DEF EventsInv

LEMMA ConnectKeeps ==
    ASSUME EventsInv, NEW c \in Conns, Connect(c)
    PROVE  EventsInv'
  <1> USE DEF EventsInv, streamVars, tabVars, history
  <1>1. /\ conn = "connecting" /\ conn' = "open" /\ link' = c /\ wire' = <<>>
        /\ ready' = [ready EXCEPT ![c] = "open"] /\ registry' = registry \cup {c}
        /\ members' = members \cup {c} /\ wsRetries' = 0
        /\ UNCHANGED <<streamVars, history, tabVars, transport, askedId, poll,
                       firehose, reading>>
    BY DEF Connect, Open, Accept
  <1>2. link = 0 /\ covered = {} /\ transport # "polling"
    BY <1>1 DEF LinkOK
  <1>3. ranges' \in Seq(Ranges)
    <2> DEFINE missing == [start |-> IncrementId(askedId), end |-> firehose]
    <2>1. ranges' = ranges \/ (askedId \in Ids /\ ranges' = Append(ranges, missing))
      BY DEF Connect, Accept, TypeOK
    <2>2. askedId \in Ids => missing \in Ranges
      BY IdOrder DEF TypeOK, Ranges
    <2>3. ranges \in Seq(Ranges)
      BY DEF TypeOK
    <2> HIDE DEF missing
    <2>4. missing \in Ranges => Append(ranges, missing) \in Seq(Ranges)
      BY <2>3, AppendProperties
    <2> QED BY <2>1, <2>2, <2>3, <2>4
  <1>4. <<>> \in Seq(Events) /\ ToSet(<<>>) = {}
    BY DEF ToSet
  <1>5. TypeOK'
    BY <1>1, <1>3, <1>4 DEF TypeOK
  <1>6. LinkOK' /\ ReaderOK'
    BY <1>1, <1>2, EventServerAssumption
    DEF LinkOK, ReaderOK, OpenSocketTracked, TypeOK, Conns, EventServerAssumption
  <1>7. StreamsOK' /\ WorkersOK' /\ EventsPublished'
    BY <1>1, <1>4 DEF StreamsOK, Ordered, Dated, WorkersOK, Published, EventsPublished,
       Everywhere
  <1>8. ForwardedInTime' /\ PolledInTime'
    BY <1>1, <1>2 DEF ForwardedInTime, PolledInTime
  <1> HIDE DEF EventsInv
  <1> QED BY <1>5, <1>6, <1>7, <1>8 DEF EventsInv

(* Steps of the tab in which no event is processed. *)
LEMMA IdleTabKeeps ==
    ASSUME EventsInv, UNCHANGED <<streamVars, serverVars, history>>,
           Answered \/ Close \/ Reconnect \/ PollSend \/ PollFails
    PROVE  EventsInv'
  <1> USE DEF EventsInv, streamVars, serverVars, tabVars, history, connVars
  <1>1. /\ UNCHANGED <<transport, timers, retries, lastId, dropped>>
        /\ askedId' \in {askedId, lastId}
        /\ promise' \in [Jobs -> PromiseStates]
        /\ \A j \in Jobs : promise'[j] = "fetching" => promise[j] = "fetching"
        /\ \A j \in Jobs : promise'[j] \in {"requested", "waiting"} =>
              promise[j] \in {"requested", "waiting"}
    BY DEF Answered, WaitForAsyncData, Fetched, Close, Reconnect, PollSend, PollFails,
       TypeOK, PromiseStates
  <1>2. /\ conn' \in {"connecting", "open", "closed", "off"} /\ wsRetries' \in Nat
        /\ poll' \in {"timer", "sent", "none"}
    BY DEF Answered, WaitForAsyncData, Fetched, Close, Reconnect, PollSend, PollFails,
       TypeOK, NextPoll
  <1>3. conn' = conn \/ (link = 0 /\ transport # "polling")
    BY DEF Answered, WaitForAsyncData, Fetched, Close, Reconnect, PollSend, PollFails,
       LinkOK
  <1>4. TypeOK'
    BY <1>1, <1>2 DEF TypeOK
  <1>5. StreamsOK' /\ WorkersOK' /\ EventsPublished'
    BY <1>1 DEF StreamsOK, Ordered, Dated, WorkersOK, Published, EventsPublished,
       Everywhere
  <1>6. LinkOK' /\ ReaderOK'
    BY <1>1, <1>3 DEF LinkOK, OpenSocketTracked, ReaderOK
  <1>7. \A j \in Jobs : Unheard(j)' => Unheard(j)
    BY <1>1 DEF Unheard, EventsOf
  <1>8. ToSet(full) \subseteq Events /\ ToSet(scoped) \subseteq Events
    BY StreamEntry DEF TypeOK
  <1>9. ForwardedInTime'
    BY <1>7, <1>8 DEF ForwardedInTime, EventsOf, Events
  <1>10. KnownIds' \subseteq KnownIds
    BY <1>1 DEF KnownIds
  <1>11. PolledInTime'
    BY <1>1, <1>7, <1>8, <1>10 DEF PolledInTime, Events
  <1> HIDE DEF EventsInv
  <1> QED BY <1>4, <1>5, <1>6, <1>9, <1>11 DEF EventsInv

(* Steps of the tab that process events and leave its connection alone. *)
LEMMA BusyTabKeeps ==
    ASSUME EventsInv, NEW E, E \subseteq Everywhere \cup ToSet(scoped), Moved(E),
           UNCHANGED <<streamVars, serverVars, history, transport, connVars, askedId>>,
           poll' \in {"timer", "sent", "none"}, PolledInTime'
    PROVE  EventsInv'
  <1> USE DEF EventsInv, streamVars, serverVars, history, connVars
  <1>1. StreamsOK' /\ WorkersOK' /\ EventsPublished'
    BY ProcessedKeeps
  <1>2. TypeOK'
    BY DEF TypeOK, Moved, TabOK, Tab
  <1>3. LinkOK' /\ ReaderOK'
    BY DEF LinkOK, OpenSocketTracked, ReaderOK
  <1>4. ForwardedInTime'
    <2>1. \A f \in ToSet(full) : f.job \in Jobs
      BY StreamEntry DEF TypeOK, Events
    <2> QED BY <2>1 DEF ForwardedInTime, Moved, EventsOf
  <1> HIDE DEF EventsInv
  <1> QED BY <1>1, <1>2, <1>3, <1>4 DEF EventsInv

LEMMA RetryKeeps ==
    ASSUME EventsInv, NEW e, Retry(e), UNCHANGED <<streamVars, serverVars, history>>
    PROVE  EventsInv'
  <1>1. e \in BagToSet(timers) /\ e \in Events /\ Moved({e})
    BY RetryMoves DEF EventsInv
  <1>2. {e} \subseteq Everywhere
    BY <1>1 DEF Everywhere
  <1>3. UNCHANGED <<transport, connVars, askedId, poll>>
    BY DEF Retry
  <1>4. PolledInTime'
    <2>1. KnownIds' \subseteq KnownIds
      BY <1>1, <1>3, EventStreamsAssumption DEF KnownIds, Moved
    <2>2. \A f \in ToSet(scoped) : f.job \in Jobs
      BY StreamEntry DEF EventsInv, TypeOK, Events
    <2> QED BY <1>1, <1>3, <2>1, <2>2 DEF EventsInv, PolledInTime, Moved, streamVars
  <1>5. poll' \in {"timer", "sent", "none"}
    BY <1>3 DEF EventsInv, TypeOK
  <1> QED BY <1>1, <1>2, <1>3, <1>4, <1>5, BusyTabKeeps

(* After a poll that was answered no published event is unheard. *)
LEMMA PollReplyKeeps ==
    ASSUME EventsInv, PollReply, UNCHANGED <<streamVars, serverVars, history>>
    PROVE  EventsInv'
  <1> DEFINE list == IF askedId = None THEN scoped ELSE EntriesAfter(scoped, askedId)
  <1>1. /\ scoped \in Seq(Events) /\ Ordered(scoped) /\ TypeOK
        /\ askedId = None \/ askedId \in Ids
    BY DEF EventsInv, TypeOK, StreamsOK
  <1>2. /\ list \in Seq(Events) /\ ToSet(list) \subseteq ToSet(scoped)
        /\ \A e \in ToSet(scoped) :
              askedId = None \/ Before(askedId, e.id) => e \in ToSet(list)
    BY <1>1, EntriesAfterSet
  <1>3. ProcessEvents(Tab, list)
    BY DEF PollReply
  <1> HIDE DEF list
  <1>4. Moved(ToSet(list))
    BY <1>1, <1>2, <1>3, ProcessEventsMoves
  <1>5. /\ UNCHANGED <<transport, connVars, askedId>>
        /\ poll' \in {"timer", "sent", "none"}
    BY DEF PollReply, NextPoll
  <1>6. PolledInTime'
    <2> SUFFICES ASSUME transport = "polling"
                 PROVE  /\ \A id \in KnownIds' : AtOrBefore(id, LastId(scoped))
                        /\ \A e \in ToSet(scoped) : ~Unheard(e.job)'
      BY <1>5 DEF PolledInTime, streamVars
    <2>1. KnownIds' \subseteq KnownIds \cup {e.id : e \in ToSet(scoped)}
      BY <1>2, <1>4, <1>5 DEF KnownIds, Moved
    <2>2. \A id \in KnownIds' : AtOrBefore(id, LastId(scoped))
      BY <1>1, <2>1, LastIsLast DEF EventsInv, PolledInTime
    <2>3. ASSUME NEW e \in ToSet(scoped) PROVE ~Unheard(e.job)'
      <3>1. e.job \in Jobs
        BY <1>1, StreamEntry DEF Events
      <3>2. CASE e \in ToSet(list)
        BY <1>4, <3>2 DEF Moved
      <3>3. CASE e \notin ToSet(list)
        <4>1. askedId # None /\ ~Before(askedId, e.id) /\ askedId \in KnownIds
          BY <1>2, <3>3 DEF KnownIds
        <4>2. ~Unheard(e.job)
          BY <4>1 DEF EventsInv, PolledInTime
        <4> QED BY <1>4, <3>1, <4>2 DEF Moved
      <3> QED BY <3>2, <3>3
    <2> QED BY <2>2, <2>3
  <1> QED BY <1>2, <1>4, <1>5, <1>6, BusyTabKeeps

LEMMA BrowseKeeps ==
    ASSUME EventsInv, Browse(TabStep)
    PROVE  EventsInv'
  BY IdleTabKeeps, RetryKeeps, PollReplyKeeps DEF Browse, TabStep, TimerFires

LEMMA StutterKeeps ==
    ASSUME EventsInv, UNCHANGED vars
    PROVE  EventsInv'
  <1> USE DEF vars, streamVars, serverVars, clientVars, tabVars, connVars, history
  <1>1. TypeOK'
    BY DEF EventsInv, TypeOK
  <1>2. StreamsOK' /\ WorkersOK' /\ EventsPublished'
    BY DEF EventsInv, StreamsOK, Ordered, Dated, WorkersOK, Published, EventsPublished,
       Everywhere
  <1>3. LinkOK' /\ ReaderOK'
    BY DEF EventsInv, LinkOK, OpenSocketTracked, ReaderOK
  <1>4. ForwardedInTime' /\ PolledInTime'
    BY DEF EventsInv, ForwardedInTime, PolledInTime, KnownIds, Unheard, EventsOf
  <1> QED BY <1>1, <1>2, <1>3, <1>4 DEF EventsInv

LEMMA NextEventsInv == EventsInv /\ [Next]_vars => EventsInv'
  <1> SUFFICES ASSUME EventsInv, [Next]_vars PROVE EventsInv'
    OBVIOUS
  <1>1. CASE Next
    BY <1>1, RequestKeeps, WorkKeeps, ConnectKeeps, DeliverKeeps, ServeKeeps, BrowseKeeps
    DEF Next
  <1>2. CASE UNCHANGED vars
    BY <1>2, StutterKeeps
  <1> QED BY <1>1, <1>2

-----------------------------------------------------------------------------
(* The streams stay ordered, what is under way anywhere was published, and no
   event that a live connection or a poll still owes is behind the server's or
   the tab's last id. *)
THEOREM SpecEventsInv == Spec => []EventsInv
  BY InitEventsInv, NextEventsInv, PTL DEF Spec

(* Every variable keeps its type: the steps of async_query_manager.py,
   superset-websocket's index.ts and asyncEvent.ts. *)
THEOREM SpecTypeOK == Spec => []TypeOK
  <1>1. EventsInv => TypeOK
    BY DEF EventsInv
  <1> QED BY <1>1, SpecEventsInv, PTL

(* The collectors of sockets and channels (index.ts) never lose a socket that is
   open, whatever connections come and go beside them. *)
THEOREM SpecOpenSocketTracked == Spec => []OpenSocketTracked
  <1>1. EventsInv => OpenSocketTracked
    BY DEF EventsInv, LinkOK
  <1> QED BY <1>1, SpecEventsInv, PTL

(* The event of a job requested over a socket that still lives, or by a polling
   tab, is ahead, under way, or waiting for its listener. *)
THEOREM SpecLiveEventNotLost == Spec => []LiveEventNotLost
  <1>1. EventsInv => LiveEventNotLost
    <2> SUFFICES ASSUME EventsInv, NEW j \in Jobs,
                        promise[j] \in {"requested", "waiting"}, ~OnItsWay(j)
                 PROVE  /\ j \in covered /\ EventsOf(j, ToSet(full)) # {} =>
                              \E e \in EventsOf(j, ToSet(full)) : Before(firehose, e.id)
                        /\ transport = "polling" /\ Published(j) # {} =>
                              lastId = None \/
                              \E e \in EventsOf(j, ToSet(scoped)) : Before(lastId, e.id)
      BY DEF LiveEventNotLost
    <2>1. Unheard(j) /\ EventsOf(j, ToSet(wire)) = {}
      BY DEF OnItsWay, Unheard, EventsOf
    <2>2. j \in covered /\ EventsOf(j, ToSet(full)) # {} =>
             \E e \in EventsOf(j, ToSet(full)) : Before(firehose, e.id)
      BY <2>1 DEF EventsInv, ForwardedInTime, EventsOf
    <2>3. transport = "polling" /\ Published(j) # {} =>
             lastId = None \/ \E e \in EventsOf(j, ToSet(scoped)) : Before(lastId, e.id)
      BY <2>1 DEF EventsInv, PolledInTime, KnownIds, EventsOf, Published
    <2> QED BY <2>2, <2>3
  <1> QED BY <1>1, SpecEventsInv, PTL

-----------------------------------------------------------------------------
(* The refinement of EventDelivery: XADD to the channel is Say, every other step
   settles promises, if anything. *)
PendingOr(p) == IF p \in {"resolved", "rejected"} THEN p ELSE "pending"

LEMMA PromiseMoves ==
    ASSUME EventsInv, NEW E, E \subseteq Everywhere \cup ToSet(scoped), Moved(E)
    PROVE  \A j \in Jobs : PendingOr(promise'[j]) # PendingOr(promise[j]) =>
              /\ PendingOr(promise[j]) = "pending"
              /\ Published(j) \cap Delivery!Grounds(PendingOr(promise'[j])) # {}
  <1> SUFFICES ASSUME NEW j \in Jobs, PendingOr(promise'[j]) # PendingOr(promise[j])
               PROVE  /\ PendingOr(promise[j]) = "pending"
                      /\ Published(j) \cap Delivery!Grounds(PendingOr(promise'[j])) # {}
    OBVIOUS
  <1>1. PICK e \in E : e.job = j /\ promise'[j] = Heard(promise[j], e.status)
    BY DEF Moved
  <1>2. promise[j] \in {"waiting", "fetching"}
    BY DEF Moved
  <1>3. e \in Events /\ e.status \in Published(j)
    <2>1. ToSet(scoped) \subseteq Events
      BY StreamEntry DEF EventsInv, TypeOK
    <2> QED BY <1>1, <2>1, EverywhereEvents DEF EventsInv, EventsPublished, Published
  <1>4. promise'[j] = "rejected" /\ e.status = "error"
    BY <1>1, <1>2 DEF Heard, PendingOr
  <1> QED BY <1>2, <1>3, <1>4 DEF PendingOr, Delivery!Grounds

LEMMA StepDelivers ==
    ASSUME EventsInv, [Next]_vars
    PROVE  [Delivery!DeliveryNext]_(Delivery!deliveryVars)
  <1> DEFINE Settles ==
               \A j \in Jobs : PendingOr(promise'[j]) # PendingOr(promise[j]) =>
                  /\ PendingOr(promise[j]) = "pending"
                  /\ Published(j) \cap Delivery!Grounds(PendingOr(promise'[j])) # {}
  <1>1. Delivery!DeliveryNext <=>
           \/ \E j \in Jobs, status \in {"done", "error"} : Delivery!Say(j, status)
           \/ Delivery!Settle
    BY DEF Delivery!DeliveryNext
  <1>2. ASSUME scoped' = scoped, Settles PROVE Delivery!Settle
    BY <1>2 DEF Delivery!Settle, PendingOr, Published
  <1>3. CASE \E j \in Jobs : Work(j)
    <2>1. PICK j \in Jobs : Work(j)
      BY <1>3
    <2>2. promise' = promise
      BY <2>1 DEF Work, clientVars, tabVars
    <2>3. CASE \E status \in Statuses : XAddScoped(j, status)
      <3>1. PICK status \in Statuses : XAddScoped(j, status)
        BY <2>3
      <3>2. PICK e \in Events : e.job = j /\ e.status = status /\ scoped' = Append(scoped, e)
        <4>1. PICK ms \in now .. MaxTime :
                 scoped' = Append(scoped, [id |-> NextId(scoped, ms), job |-> j,
                                           status |-> status])
          BY <3>1 DEF XAddScoped
        <4>2. ms \in Nat /\ \A i \in 1 .. Len(scoped) : scoped[i].id[1] <= ms
          BY EventStreamsAssumption, StreamEntry
          DEF EventsInv, TypeOK, StreamsOK, Dated, Ids, EventStreamsAssumption
        <4>3. NextId(scoped, ms) \in Ids
          BY <4>2, NextIdIs DEF EventsInv, TypeOK, StreamsOK
        <4> QED BY <4>1, <4>3 DEF Events
      <3>3. ToSet(scoped') = ToSet(scoped) \cup {e}
        BY <3>2, AppendedSet DEF EventsInv, TypeOK
      <3>4. \A k \in Jobs : Published(k)' = Published(k) \cup
                                               (IF k = j THEN {status} ELSE {})
        BY <3>2, <3>3 DEF Published
      <3>5. Delivery!Say(j, status)
        BY <2>2, <3>4 DEF Delivery!Say
      <3> QED BY <1>1, <3>5 DEF Statuses
    <2>4. CASE ~\E status \in Statuses : XAddScoped(j, status)
      <3>1. scoped' = scoped
        BY <2>1, <2>4 DEF Work, WorkerStep, XAddFull, XAddFails, SoftTimeLimit
      <3> QED BY <1>1, <1>2, <2>2, <3>1
    <2> QED BY <2>3, <2>4
  <1>4. CASE Deliver
    <2>1. /\ wire \in Seq(Events) /\ wire # <<>> /\ ProcessEvents(Tab, <<Head(wire)>>)
          /\ scoped' = scoped
      BY <1>4 DEF Deliver, Message, EventsInv, TypeOK, streamVars
    <2>2. Head(wire) \in Events /\ {Head(wire)} \subseteq Everywhere
      BY <2>1, HeadAndTail DEF Everywhere
    <2>3. <<Head(wire)>> \in Seq(Events) /\ ToSet(<<Head(wire)>>) = {Head(wire)}
      BY <2>2 DEF ToSet
    <2>4. Moved({Head(wire)})
      BY <2>1, <2>3, ProcessEventsMoves DEF EventsInv
    <2>5. Settles
      BY <2>2, <2>4, PromiseMoves
    <2> QED BY <1>1, <1>2, <2>1, <2>5
  <1>5. CASE Browse(TimerFires)
    <2>1. PICK e : Retry(e)
      BY <1>5 DEF Browse, TimerFires
    <2>2. e \in BagToSet(timers) /\ Moved({e})
      BY <2>1, RetryMoves DEF EventsInv
    <2>3. Settles
      BY <2>2, PromiseMoves DEF Everywhere
    <2> QED BY <1>1, <1>2, <1>5, <2>3 DEF Browse, streamVars
  <1>6. CASE Browse(PollReply)
    <2> DEFINE list == IF askedId = None THEN scoped ELSE EntriesAfter(scoped, askedId)
    <2>1. /\ scoped \in Seq(Events) /\ Ordered(scoped) /\ TypeOK
          /\ askedId = None \/ askedId \in Ids
      BY DEF EventsInv, TypeOK, StreamsOK
    <2>2. list \in Seq(Events) /\ ToSet(list) \subseteq ToSet(scoped)
      BY <2>1, EntriesAfterSet
    <2>3. ProcessEvents(Tab, list)
      BY <1>6 DEF Browse, PollReply
    <2> HIDE DEF list
    <2>4. Moved(ToSet(list))
      BY <2>1, <2>2, <2>3, ProcessEventsMoves
    <2>5. Settles
      BY <2>2, <2>4, PromiseMoves
    <2> QED BY <1>1, <1>2, <1>6, <2>5 DEF Browse, streamVars
  <1>7. CASE \E j \in Jobs : Browse(Fetched(j))
    <2>1. PICK j \in Jobs : Browse(Fetched(j))
      BY <1>7
    <2>2. PICK p \in {"resolved", "rejected"} : promise' = [promise EXCEPT ![j] = p]
      BY <2>1 DEF Browse, Fetched
    <2>3. promise[j] = "fetching" /\ "done" \in Published(j) /\ promise \in [Jobs -> PromiseStates]
      BY <2>1 DEF Browse, Fetched, EventsInv, WorkersOK, TypeOK
    <2>4. Settles
      BY <2>2, <2>3 DEF PendingOr, Delivery!Grounds
    <2> QED BY <1>1, <1>2, <2>1, <2>4 DEF Browse, streamVars
  <1>8. ASSUME scoped' = scoped, promise \in [Jobs -> PromiseStates],
               \/ promise' = promise
               \/ \E j \in Jobs : /\ promise[j] \in {"none", "requested"}
                                  /\ \E p \in {"requested", "waiting"} :
                                        promise' = [promise EXCEPT ![j] = p]
        PROVE  Delivery!Settle
    <2>1. Settles
      BY <1>8 DEF PendingOr
    <2> QED BY <1>2, <1>8, <2>1
  <1>9. promise \in [Jobs -> PromiseStates]
    BY DEF EventsInv, TypeOK
  <1>10. CASE \/ \E j \in Jobs : RequestData(j) \/ RequestElsewhere(j)
              \/ \E c \in Conns : Connect(c)
              \/ Serve(ServerStep) \/ Disturb \/ UNCHANGED vars
              \/ \E j \in Jobs : Browse(WaitForAsyncData(j))
              \/ Browse(Close) \/ Browse(Reconnect) \/ Browse(PollSend) \/ Browse(PollFails)
    <2>1. scoped' = scoped
      BY <1>10 DEF RequestData, RequestElsewhere, SubmitJob, Connect, Serve, Disturb,
         Browse, vars, streamVars
    <2>2. \/ promise' = promise
          \/ \E j \in Jobs : /\ promise[j] \in {"none", "requested"}
                             /\ \E p \in {"requested", "waiting"} :
                                   promise' = [promise EXCEPT ![j] = p]
      BY <1>10 DEF RequestData, Request, RequestElsewhere, Connect, Open, Serve, Disturb,
         Browse, WaitForAsyncData, Close, Reconnect, PollSend, PollFails, vars,
         clientVars, tabVars
    <2> QED BY <1>1, <1>8, <1>9, <2>1, <2>2
  <1> HIDE DEF Settles
  <1> QED
    BY <1>3, <1>4, <1>5, <1>6, <1>7, <1>10 DEF Next, Browse, TabStep, Answered

(* A promise is settled once, and by what the worker published: the code of the
   workers, the server and the tab implements EventDelivery. *)
THEOREM SpecSettledAsPublished == Spec => SettledAsPublished
  <1>1. Init => Delivery!DeliveryInit
    <2> SUFFICES ASSUME Init PROVE Delivery!DeliveryInit
      OBVIOUS
    <2>1. scoped = <<>> /\ ToSet(<<>>) = {} /\ promise = [j \in Jobs |-> "none"]
      BY DEF Init, StreamsInit, ClientInit, ToSet
    <2>2. \A j \in Jobs : Published(j) = {} /\ promise[j] = "none"
      BY <2>1 DEF Published
    <2> QED BY <2>2 DEF Delivery!DeliveryInit
  <1>2. EventsInv /\ [Next]_vars => [Delivery!DeliveryNext]_(Delivery!deliveryVars)
    BY StepDelivers
  <1> QED
    BY <1>1, <1>2, SpecEventsInv, PTL DEF Spec, SettledAsPublished, Delivery!DeliverySpec
=============================================================================
