----------------------------- MODULE EventClient -----------------------------
(***************************************************************************)
(* The browser's side, superset-frontend/src/middleware/asyncEvent.ts: one *)
(* tab.  waitForAsyncData turns the answer 202 to a request for data into  *)
(* a promise that a listener settles when the event of the job arrives,    *)
(* over a WebSocket or by polling, as `transport' says.                    *)
(***************************************************************************)
EXTENDS EventServer, Bags

CONSTANTS Transports,    \* GLOBAL_ASYNC_QUERIES_TRANSPORT: "ws", "polling"
          MAX_RETRIES,          \* for an event without a listener
          wsConnectMaxRetries   \* for a connection

VARIABLES transport,  \* never changes
          promise,    \* of each job's data
          timers,     \* the events that wait to be processed again
          retries,    \* retriesByJobId
          lastId,     \* lastReceivedEventId
          dropped,    \* jobs with an event given up: "listener not found"
          conn,       \* the socket, as the tab knows it
          askedId,    \* the last_id of the connection or of the poll under way
          wsRetries,  \* wsConnectRetries
          poll        \* loadEventsFromApi: "timer", "sent" or "none"

tabVars == <<promise, timers, retries, lastId, dropped>>
connVars == <<conn, wsRetries>>
clientVars == <<transport, tabVars, connVars, askedId, poll>>

EventClientAssumption ==
    MAX_RETRIES \in Nat /\ wsConnectMaxRetries \in Nat /\ Transports \subseteq {"ws", "polling"}
ASSUME EventClientAssumption

PromiseStates == {"none", "requested", "waiting", "fetching", "resolved",
                  "rejected"}

ClientInit ==
    /\ transport \in Transports
    /\ promise = [j \in Jobs |-> "none"]
    /\ timers = EmptyBag
    /\ retries = [j \in Jobs |-> 0]
    /\ lastId = None
    /\ dropped = {}
    /\ conn = IF transport = "ws" THEN "connecting" ELSE "off"
    /\ askedId = None
    /\ wsRetries = 0
    /\ poll = IF transport = "polling" THEN "timer" ELSE "none"

(* Faulty variant: the listener is never removed. *)
StillListening(p) == p \in {"waiting", "fetching", "resolved", "rejected"}

Listening(p) == p \in {"waiting", "fetching"}
Listeners == {j \in Jobs : Listening(promise[j])}

Tab == [promise |-> promise, timers |-> timers, retries |-> retries,
        lastId |-> lastId, dropped |-> dropped]

(* Faulty variant: the status is not looked at. *)
HeardAny(p, status) == "fetching"

(* The listener: "done" begins the fetch of the cached data, "error" rejects. *)
Heard(p, status) == IF status = "error" THEN "rejected" ELSE "fetching"

(* Faulty variant: one retry more than MAX_RETRIES. *)
ProcessEventOnceMore(tab, e) ==
    LET j == e.job IN
    IF Listening(tab.promise[j])
    THEN [tab EXCEPT !.promise[j] = Heard(@, e.status), !.retries[j] = 0,
                     !.lastId = e.id]
    ELSE IF tab.retries[j] <= MAX_RETRIES
    THEN [tab EXCEPT !.timers = @ (+) SetToBag({e}), !.retries[j] = @ + 1,
                     !.lastId = e.id]
    ELSE [tab EXCEPT !.dropped = @ \cup {j}, !.retries[j] = 0, !.lastId = e.id]

(* processEvents, for one event. *)
ProcessEvent(tab, e) ==
    LET j == e.job
        n == tab.retries[j] + 1 IN
    IF Listening(tab.promise[j])
    THEN [tab EXCEPT !.promise[j] = Heard(@, e.status), !.retries[j] = 0,
                     !.lastId = e.id]
    ELSE IF n <= MAX_RETRIES
    THEN [tab EXCEPT !.timers = @ (+) SetToBag({e}), !.retries[j] = n,
                     !.lastId = e.id]
    ELSE [tab EXCEPT !.dropped = @ \cup {j}, !.retries[j] = 0, !.lastId = e.id]

SetTab(tab) ==
    /\ promise' = tab.promise
    /\ timers' = tab.timers
    /\ retries' = tab.retries
    /\ lastId' = tab.lastId
    /\ dropped' = tab.dropped

AfterEvents(tab, events) ==
    LET after[n \in 0 .. Len(events)] ==
            IF n = 0 THEN tab ELSE ProcessEvent(after[n - 1], events[n])
    IN  after[Len(events)]

ProcessEvents(tab, events) == SetTab(AfterEvents(tab, events))

(* A chart asks for its data; the server queues a job. *)
Request(j) ==
    /\ promise[j] = "none"
    /\ promise' = [promise EXCEPT ![j] = "requested"]
    /\ UNCHANGED <<transport, timers, retries, lastId, dropped, connVars, askedId, poll>>

(* The answer 202 arrives: waitForAsyncData adds the listener. *)
WaitForAsyncData(j) ==
    /\ promise[j] = "requested"
    /\ promise' = [promise EXCEPT ![j] = "waiting"]
    /\ UNCHANGED <<transport, timers, retries, lastId, dropped, connVars, askedId, poll>>

(* fetchCachedData returns, with the data or, the cache entry gone, not. *)
Fetched(j) ==
    /\ promise[j] = "fetching"
    /\ \E p \in {"resolved", "rejected"} :
          /\ p = "rejected" => "cache" \in Faults
          /\ promise' = [promise EXCEPT ![j] = p]
    /\ UNCHANGED <<transport, timers, retries, lastId, dropped, connVars, askedId, poll>>

(* The timer of an event that had no listener. *)
Retry(e) ==
    /\ BagIn(e, timers)
    /\ ProcessEvents([Tab EXCEPT !.timers = @ (-) SetToBag({e})], <<e>>)
    /\ UNCHANGED <<transport, connVars, askedId, poll>>

(* A frame arrives. *)
Message ==
    /\ conn = "open"
    /\ wire # <<>>
    /\ ProcessEvents(Tab, <<Head(wire)>>)
    /\ UNCHANGED <<transport, connVars, askedId, poll>>

(* The open event, of a connection the server has accepted. *)
Open ==
    /\ conn = "connecting"
    /\ conn' = "open"
    /\ wsRetries' = 0
    /\ UNCHANGED <<transport, tabVars, askedId, poll>>

(* The close event: of a connection that broke, or was refused. *)
Close ==
    /\ \/ conn = "open" /\ link = 0
       \/ conn = "connecting" /\ "link" \in Faults
    /\ conn' = "closed"
    /\ UNCHANGED <<transport, tabVars, askedId, wsRetries, poll>>

(* Its timer: connect again, or fall back, with one call of
   loadEventsFromApi. *)
Reconnect ==
    /\ conn = "closed"
    /\ wsRetries' = wsRetries + 1
    /\ IF wsRetries' <= wsConnectMaxRetries
       THEN conn' = "connecting" /\ UNCHANGED poll
       ELSE conn' = "off" /\ poll' = IF Listeners = {} THEN "none" ELSE "sent"
    /\ askedId' = lastId
    /\ UNCHANGED <<transport, tabVars>>

(* loadEventsFromApi comes up: nothing to ask for without a listener. *)
PollSend ==
    /\ poll = "timer"
    /\ Listeners # {}
    /\ poll' = "sent"
    /\ askedId' = lastId
    /\ UNCHANGED <<transport, tabVars, connVars>>

(* Faulty variant: the timer is not set again. *)
NeverPollAgain == "none"

NextPoll == IF transport = "polling" THEN "timer" ELSE "none"

(* read_events answers from the last id on, and the tab processes the list. *)
PollReply ==
    /\ poll = "sent"
    /\ ProcessEvents(Tab, IF askedId = None THEN scoped
                          ELSE EntriesAfter(scoped, askedId))
    /\ poll' = NextPoll
    /\ UNCHANGED <<transport, connVars, askedId>>

PollFails ==
    /\ "api" \in Faults
    /\ poll = "sent"
    /\ poll' = NextPoll
    /\ UNCHANGED <<transport, tabVars, connVars, askedId>>

Answered == \E j \in Jobs : WaitForAsyncData(j) \/ Fetched(j)
TimerFires == \E e \in DOMAIN timers : Retry(e)

(* The steps that touch nothing but the tab. *)
TabStep ==
    Answered \/ TimerFires \/ Close \/ Reconnect \/ PollSend \/ PollReply \/ PollFails
=============================================================================
