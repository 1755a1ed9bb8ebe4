----------------------------- MODULE AsyncEvents -----------------------------
(***************************************************************************)
(* Workers, Redis, the WebSocket server and one tab together: how the      *)
(* event of a job reaches the promise that waits for it.                   *)
(***************************************************************************)
EXTENDS EventClient

(* Two auxiliary variables, read by no action: the jobs that were requested over
   a socket the server knew, and has known since, with the server past "$"; and
   the jobs whose event the server has sent to a dead socket only. *)
VARIABLES covered, missed

history == <<covered, missed>>
vars == <<streamVars, serverVars, clientVars, history>>

Init ==
    /\ StreamsInit /\ ServerInit /\ ClientInit
    /\ transport = "polling" => firehose = None
    /\ covered = {} /\ missed = {}

Connected == conn = "open" /\ link # 0
KeepCovered == covered' = IF link' = 0 THEN {} ELSE covered
ReadNow == {e \in ToSet(full) : reading # None /\ firehose' # firehose
                               /\ firehose' # None /\ Before(reading, e.id)
                               /\ AtOrBefore(e.id, firehose')}

RequestData(j) ==
    /\ Request(j)
    /\ SubmitJob(j)
    /\ covered' = IF Connected /\ firehose # None THEN covered \cup {j}
                                                  ELSE covered
    /\ UNCHANGED <<serverVars, missed>>

(* Another tab of the session shares its channel: its jobs have no promise
   here, and their events come all the same. *)
RequestElsewhere(j) ==
    /\ promise[j] = "none"
    /\ SubmitJob(j)
    /\ UNCHANGED <<serverVars, clientVars, history>>

Work(j) == WorkerStep(j) /\ UNCHANGED <<serverVars, clientVars, history>>

Connect(c) ==
    /\ Open
    /\ Accept(c, askedId)
    /\ UNCHANGED <<streamVars, history>>

Deliver ==
    /\ Message
    /\ wire' = Tail(wire)
    /\ UNCHANGED <<streamVars, firehose, reading, ready, registry, members,
                   ranges, link, history>>

(* With polling for a transport no server runs. *)
Serve(step) ==
    /\ transport = "ws"
    /\ step
    /\ KeepCovered
    /\ missed' = IF link = 0 /\ members # {}
                 THEN missed \cup {e.job : e \in ReadNow} ELSE missed
    /\ UNCHANGED <<streamVars, clientVars>>

Disturb ==
    /\ LinkBreaks \/ ServerRestart
    /\ KeepCovered
    /\ UNCHANGED <<streamVars, clientVars, missed>>

Browse(step) == step /\ UNCHANGED <<streamVars, serverVars, history>>

Next ==
    \/ \E j \in Jobs : RequestData(j) \/ RequestElsewhere(j) \/ Work(j)
    \/ \E c \in Conns : Connect(c)
    \/ Deliver
    \/ Serve(ServerStep)
    \/ Disturb
    \/ Browse(TabStep)

Spec == Init /\ [][Next]_vars

(* The server's reads and the tab's callbacks run on: frames and answers arrive,
   timers fire.  A poll that is sent again and again is answered once.  Workers
   and the network owe nothing.  Of the four reads at most one is enabled, and
   frames, answers 202 and cached data come finitely often, so one condition for
   each group asks no less than one for each action; timers may rearm each other
   for ever, and have theirs. *)
Fairness ==
    /\ WF_vars(Serve(GlobalRead))
    /\ WF_vars(Deliver \/ Browse(Answered))
    /\ WF_vars(Browse(TimerFires))
    /\ WF_vars(Browse(PollSend))
    /\ SF_vars(Browse(PollReply))

FairSpec == Spec /\ Fairness

-----------------------------------------------------------------------------

(* Every variable keeps its type. *)
TypeOK ==
    /\ now \in Nat
    /\ scoped \in Seq(Events) /\ full \in Seq(Events)
    /\ worker \in [Jobs -> WorkerStates]
    /\ firehose \in Ids \cup {None} /\ reading \in Ids \cup {None}
    /\ ready \in [Conns -> {"none", "open", "closed"}]
    /\ registry \subseteq Conns /\ members \subseteq Conns
    /\ ranges \in Seq(Ranges)
    /\ link \in Conns \cup {0}
    /\ wire \in Seq(Events)
    /\ promise \in [Jobs -> PromiseStates]
    /\ IsABag(timers) /\ BagToSet(timers) \subseteq Events
    /\ retries \in [Jobs -> 0 .. MAX_RETRIES]
    /\ lastId \in Ids \cup {None} /\ askedId \in Ids \cup {None}
    /\ dropped \subseteq Jobs
    /\ conn \in {"connecting", "open", "closed", "off"}
    /\ wsRetries \in Nat
    /\ poll \in {"timer", "sent", "none"}

(* The collectors of sockets and channels, which run beside connections coming
   and going, never lose a socket that is open: it stays in both registries,
   so events keep being forwarded to it. *)
OpenSocketTracked ==
    \A c \in Conns : ready[c] = "open" => c \in registry \cap members

EventsOf(j, events) == {e \in events : e.job = j}
OnItsWay(j) ==
    \/ EventsOf(j, ToSet(wire) \cup BagToSet(timers)) # {}
    \/ j \in dropped

(* As long as the socket over which a job was requested lives, the event of the
   job is ahead of the server, under way, or waiting for its listener; and when
   polling, ahead of the last id the tab knows, although retries move that id
   backwards. *)
LiveEventNotLost ==
    \A j \in Jobs : promise[j] \in {"requested", "waiting"} =>
        /\ j \in covered /\ EventsOf(j, ToSet(full)) # {} =>
              OnItsWay(j) \/ \E e \in EventsOf(j, ToSet(full)) :
                                 Before(firehose, e.id)
        /\ transport = "polling" /\ Published(j) # {} =>
              OnItsWay(j) \/ lastId = None \/
              \E e \in EventsOf(j, ToSet(scoped)) : Before(lastId, e.id)

Delivery == INSTANCE EventDelivery WITH
    said <- [j \in Jobs |-> Published(j)],
    outcome <- [j \in Jobs |-> IF promise[j] \in {"resolved", "rejected"}
                               THEN promise[j] ELSE "pending"]

(* A promise is settled once, by what the worker published: whatever is lost,
   repeated or late. *)
SettledAsPublished == Delivery!DeliverySpec

PromiseSettled(j) == promise[j] \in {"resolved", "rejected"}
Owed(j) ==
    \/ transport = "polling" /\ Published(j) # {}
    \/ j \in covered /\ EventsOf(j, ToSet(full)) # {}

(* What a worker published settles the promise in the end: by polling always,
   over a socket as long as that socket lives; but for an event that was given
   up before its listener was there. *)
PublishedSettles ==
    \A j \in Jobs :
        (promise[j] = "waiting" /\ Owed(j)) ~>
            (PromiseSettled(j) \/ j \in dropped \/
             (transport = "ws" /\ j \notin covered))

Quiet ==
    /\ reading # None /\ EntriesAfter(full, reading) = <<>>
    /\ ranges = <<>> /\ wire = <<>> /\ timers = EmptyBag

(* "If a connection includes a valid last_id value, events that may have already
   been received and sent unsuccessfully are read from the channel-based Redis
   Stream and re-sent to the new WebSocket connection"
   (superset-websocket/README.md:48): once all is quiet after a reconnection, no
   promise waits for an event the server has read. *)
ReconnectionResends ==
    Connected /\ askedId # None /\ Quiet =>
        \A j \in missed : promise[j] = "waiting" => j \in dropped
=============================================================================
