----------------------------- MODULE EventServer -----------------------------
(***************************************************************************)
(* The WebSocket server, superset-websocket/src/index.ts, as one channel   *)
(* sees it.  It reads the global stream from where it stands, starting     *)
(* with "$", whatever comes after the read is issued; it forwards each     *)
(* event to the sockets of its channel; and it re-sends to a client that   *)
(* comes back what the channel's own stream holds since the client's last  *)
(* id.  XREAD BLOCK and XRANGE go through one Redis connection, so a range *)
(* waits for a blocked read to return.                                     *)
(***************************************************************************)
EXTENDS EventStreams

CONSTANT MaxConns    \* bound: how many connections are ever accepted

VARIABLES firehose,  \* lastFirehoseId; None is "$"
          reading,   \* the id a blocked XREAD reads after; None when idle
          ready,     \* readyState of the server's end of each connection
          registry,  \* the keys of `sockets'
          members,   \* channels[channel].sockets
          ranges,    \* XRANGE calls queued behind the read
          link,      \* the connection whose two ends still reach each other
          wire       \* the frames under way on it

serverVars == <<firehose, reading, ready, registry, members, ranges, link, wire>>

EventServerAssumption == MaxConns \in Nat
ASSUME EventServerAssumption

Conns == 1 .. MaxConns
Ranges == [start : Ids, end : Ids \cup {None}]

(* The firehose stands at "$" or, when others have had events, at the last. *)
ServerInit ==
    /\ firehose \in {None, Origin}
    /\ reading = None
    /\ ready = [c \in Conns |-> "none"]
    /\ registry = {}
    /\ members = {}
    /\ ranges = <<>>
    /\ link = 0
    /\ wire = <<>>

(* Faulty variant: one forgotten socket ends the channel. *)
CleanChannelOfAll(ms) == IF ms \subseteq registry THEN ms ELSE {}

(* cleanChannel: the sockets that are known and open. *)
CleanChannel(ms) == {c \in ms : c \in registry /\ ready[c] = "open"}

(* sendToChannel, for each event of a batch: a known socket gets the frame,
   and loses it if the link is broken; an unknown one has the channel
   cleaned. *)
SendToChannel(batch) ==
    /\ wire' = IF link \in members \cap registry THEN wire \o batch ELSE wire
    /\ members' = IF batch # <<>> /\ ~(members \subseteq registry)
                  THEN CleanChannel(members) ELSE members

(* Faulty variant: each read starts at "$". *)
StartReadAtEnd ==
    /\ reading = None
    /\ ranges = <<>>
    /\ reading' = LastId(full)
    /\ UNCHANGED <<firehose, ready, registry, members, ranges, link, wire>>

(* subscribeToGlobalStream, up to its await. *)
StartRead ==
    /\ reading = None
    /\ ranges = <<>>
    /\ reading' = IF firehose = None THEN LastId(full) ELSE firehose
    /\ UNCHANGED <<firehose, ready, registry, members, ranges, link, wire>>

(* The blocked read returns nothing within redisStreamReadBlockMs. *)
ReadTimeout ==
    /\ reading # None
    /\ EntriesAfter(full, reading) = <<>>
    /\ reading' = None
    /\ UNCHANGED <<firehose, ready, registry, members, ranges, link, wire>>

(* It returns with the first new entry, or with all that were there. *)
ReadReply ==
    /\ reading # None
    /\ LET new == EntriesAfter(full, reading) IN
       /\ new # <<>>
       /\ \E n \in {1, Len(new)} :
             /\ SendToChannel(SubSeq(new, 1, n))
             /\ firehose' = new[n].id
    /\ reading' = None
    /\ UNCHANGED <<ready, registry, ranges, link>>

(* wsConnection: trackClient, then the range the client may have missed. *)
Accept(c, lastId) ==
    /\ ready[c] = "none"
    /\ \A d \in Conns : d < c => ready[d] # "none"
    /\ ready' = [ready EXCEPT ![c] = "open"]
    /\ registry' = registry \cup {c}
    /\ members' = members \cup {c}
    /\ ranges' = IF lastId = None THEN ranges
                 ELSE Append(ranges, [start |-> IncrementId(lastId),
                                      end |-> firehose])
    /\ link' = c
    /\ wire' = <<>>
    /\ UNCHANGED <<firehose, reading>>

(* fetchRangeFromStream: the reply goes to the whole channel. *)
RangeReply ==
    /\ ranges # <<>>
    /\ reading = None
    /\ LET range == Head(ranges) IN
       SendToChannel(Entries(scoped, range.start, range.end))
    /\ ranges' = Tail(ranges)
    /\ UNCHANGED <<firehose, reading, ready, registry, link>>

(* The network drops a connection: the server may see it close, or hear of
   it no more. *)
LinkBreaks ==
    /\ "link" \in Faults
    /\ link # 0
    /\ link < MaxConns
    /\ link' = 0
    /\ wire' = <<>>
    /\ \/ ready' = [ready EXCEPT ![link] = "closed"]
       \/ UNCHANGED ready
    /\ UNCHANGED <<firehose, reading, registry, members, ranges>>

(* checkSockets, for one socket: a closed one is forgotten, one that answers
   no ping in time is terminated too, dead or only slow. *)
CheckSocket(c) ==
    /\ c \in registry
    /\ ready[c] = "closed" \/ c # link \/ ("pong" \in Faults /\ c < MaxConns)
    /\ registry' = registry \ {c}
    /\ ready' = [ready EXCEPT ![c] = "closed"]
    /\ link' = IF c = link THEN 0 ELSE link
    /\ wire' = IF c = link THEN <<>> ELSE wire
    /\ UNCHANGED <<firehose, reading, members, ranges>>

(* The collector of channels. *)
CollectChannel ==
    /\ members # CleanChannel(members)
    /\ members' = CleanChannel(members)
    /\ UNCHANGED <<firehose, reading, ready, registry, ranges, link, wire>>

(* The process dies and starts again. *)
ServerRestart ==
    /\ "server" \in Faults
    /\ link < MaxConns
    /\ firehose' = None
    /\ reading' = None
    /\ ready' = [c \in Conns |-> IF ready[c] = "open" THEN "closed" ELSE ready[c]]
    /\ registry' = {}
    /\ members' = {}
    /\ ranges' = <<>>
    /\ link' = 0
    /\ wire' = <<>>

(* Of these four at most one is enabled. *)
GlobalRead == StartRead \/ ReadTimeout \/ ReadReply \/ RangeReply

ServerStep == GlobalRead \/ CollectChannel \/ \E c \in Conns : CheckSocket(c)
=============================================================================
