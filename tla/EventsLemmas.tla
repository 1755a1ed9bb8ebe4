---------------------------- MODULE EventsLemmas ----------------------------
(***************************************************************************)
(* What the operators of the events' model do: the order of ids, slices of *)
(* a stream, and a list of events processed one after the other.           *)
(***************************************************************************)
EXTENDS EventsInvariant, LeastNumber, SequenceTheorems

(* Ids are in a strict total order, and an increment goes to the next. *)
LEMMA IdOrder ==
    ASSUME NEW a \in Ids, NEW b \in Ids
    PROVE  /\ ~Before(a, a)
           /\ Before(a, b) \/ AtOrBefore(b, a)
           /\ ~(Before(a, b) /\ AtOrBefore(b, a))
           /\ AtOrBefore(IncrementId(a), b) <=> Before(a, b)
           /\ IncrementId(a) \in Ids
  BY DEF Ids, Before, AtOrBefore, IncrementId

LEMMA IdTransitive ==
    ASSUME NEW a \in Ids, NEW b \in Ids, NEW c \in Ids
    PROVE  /\ AtOrBefore(a, b) /\ Before(b, c) => Before(a, c)
           /\ Before(a, b) /\ AtOrBefore(b, c) => Before(a, c)
           /\ AtOrBefore(a, b) /\ AtOrBefore(b, c) => AtOrBefore(a, c)
  BY DEF Ids, Before, AtOrBefore

LEMMA StreamEntry ==
    ASSUME NEW stream \in Seq(Events)
    PROVE  /\ Len(stream) \in Nat
           /\ \A i \in 1 .. Len(stream) : stream[i] \in Events /\ stream[i].id \in Ids
           /\ ToSet(stream) = {stream[i] : i \in 1 .. Len(stream)}
           /\ ToSet(stream) \subseteq Events
  <1>1. Len(stream) \in Nat /\ stream \in [1 .. Len(stream) -> Events]
    OBVIOUS
  <1> QED BY <1>1 DEF Events, ToSet

(* XRANGE's first entry is found: the entries from an id on are the last ones. *)
LEMMA PositionIs ==
    ASSUME NEW stream \in Seq(Events), Ordered(stream), NEW id \in Ids
    PROVE  /\ Position(stream, id) \in 0 .. Len(stream)
           /\ \A i \in 1 .. Len(stream) :
                 Position(stream, id) < i <=> AtOrBefore(id, stream[i].id)
  <1> DEFINE T == {i \in 1 .. Len(stream) : AtOrBefore(id, stream[i].id)}
  <1>1. Len(stream) \in Nat /\ \A i \in 1 .. Len(stream) : stream[i].id \in Ids
    BY StreamEntry
  <1>2. \E n \in 0 .. Len(stream) :
           \A i \in 1 .. Len(stream) : n < i <=> AtOrBefore(id, stream[i].id)
    <2>1. CASE T = {}
      <3>1. \A i \in 1 .. Len(stream) : Len(stream) < i <=> AtOrBefore(id, stream[i].id)
        BY <1>1, <2>1
      <3> QED BY <1>1, <3>1
    <2>2. CASE T # {}
      <3>1. PICK m \in T : \A k \in T : m <= k
        <4>1. T \in SUBSET Nat
          BY <1>1
        <4> HIDE DEF T
        <4> QED BY <2>2, <4>1, LeastNat
      <3>2. \A i \in 1 .. Len(stream) : m < i => AtOrBefore(id, stream[i].id)
        <4>1. \A i \in 1 .. Len(stream) : m < i => Before(id, stream[i].id)
          BY <1>1, <3>1, IdTransitive DEF Ordered
        <4> QED BY <4>1 DEF AtOrBefore
      <3>3. \A i \in 1 .. Len(stream) : m - 1 < i <=> AtOrBefore(id, stream[i].id)
        BY <1>1, <3>1, <3>2
      <3>4. m - 1 \in 0 .. Len(stream)
        BY <1>1, <3>1
      <3> QED BY <3>3, <3>4
    <2> QED BY <2>1, <2>2
  <1> QED BY <1>2 DEF Position

(* A slice of a stream holds entries of the stream. *)
LEMMA EntriesOfStream ==
    ASSUME NEW stream \in Seq(Events), Ordered(stream),
           NEW start \in Ids, NEW end \in Ids \cup {None}
    PROVE  /\ Entries(stream, start, end) \in Seq(Events)
           /\ ToSet(Entries(stream, start, end)) \subseteq ToSet(stream)
  <1> DEFINE m == Position(stream, start) + 1
             n == IF end = None THEN Len(stream)
                                ELSE Position(stream, IncrementId(end))
  <1>1. m \in 1 .. Len(stream) + 1 /\ n \in 0 .. Len(stream)
    <2>1. IncrementId(end) \in Ids \/ end = None
      BY IdOrder
    <2> QED BY <2>1, PositionIs, StreamEntry
  <1>2. Entries(stream, start, end) = SubSeq(stream, m, n)
    BY DEF Entries
  <1> HIDE DEF m, n
  <1>3. SubSeq(stream, m, n) \in Seq(Events)
    BY <1>1
  <1>4. \A i \in 1 .. Len(SubSeq(stream, m, n)) :
           SubSeq(stream, m, n)[i] = stream[m + i - 1] /\ m + i - 1 \in 1 .. Len(stream)
    BY <1>1
  <1>5. ToSet(SubSeq(stream, m, n)) =
           {SubSeq(stream, m, n)[i] : i \in 1 .. Len(SubSeq(stream, m, n))}
    BY <1>3, StreamEntry
  <1>6. ToSet(stream) = {stream[i] : i \in 1 .. Len(stream)}
    BY StreamEntry
  <1>7. ToSet(SubSeq(stream, m, n)) \subseteq ToSet(stream)
    BY <1>4, <1>5, <1>6
  <1> QED BY <1>2, <1>3, <1>7

(* XREAD after an id gives the entries after it, in their order. *)
LEMMA EntriesAfterAre ==
    ASSUME NEW stream \in Seq(Events), Ordered(stream), NEW id \in Ids
    PROVE  LET p == Position(stream, IncrementId(id)) IN
           /\ p \in 0 .. Len(stream)
           /\ EntriesAfter(stream, id) = SubSeq(stream, p + 1, Len(stream))
           /\ \A i \in 1 .. Len(stream) : p < i <=> Before(id, stream[i].id)
  <1>1. IncrementId(id) \in Ids
    BY IdOrder
  <1>2. \A i \in 1 .. Len(stream) :
           AtOrBefore(IncrementId(id), stream[i].id) <=> Before(id, stream[i].id)
    BY IdOrder, StreamEntry
  <1> QED BY <1>1, <1>2, PositionIs DEF EntriesAfter, Entries

(* A batch of XREAD, all of it or its first entry: whatever comes after the id is
   in the batch or after its last. *)
LEMMA BatchIs ==
    ASSUME NEW stream \in Seq(Events), Ordered(stream), NEW id \in Ids,
           NEW n \in {1, Len(EntriesAfter(stream, id))},
           EntriesAfter(stream, id) # <<>>
    PROVE  LET new == EntriesAfter(stream, id)
               batch == SubSeq(new, 1, n) IN
           /\ batch \in Seq(Events) /\ batch # <<>>
           /\ ToSet(batch) \subseteq ToSet(stream)
           /\ new[n] \in ToSet(batch) /\ new[n].id \in Ids
           /\ \A e \in ToSet(stream) :
                 Before(id, e.id) => e \in ToSet(batch) \/ Before(new[n].id, e.id)
  <1> DEFINE new == EntriesAfter(stream, id)
             batch == SubSeq(new, 1, n)
             p == Position(stream, IncrementId(id))
  <1>1. /\ p \in 0 .. Len(stream) /\ new = SubSeq(stream, p + 1, Len(stream))
        /\ \A i \in 1 .. Len(stream) : p < i <=> Before(id, stream[i].id)
    BY EntriesAfterAre
  <1>2. Len(stream) \in Nat /\ \A i \in 1 .. Len(stream) : stream[i] \in Events
    BY StreamEntry
  <1> HIDE DEF p
  <1>3. /\ new \in Seq(Events) /\ Len(new) = Len(stream) - p
        /\ \A i \in 1 .. Len(new) : new[i] = stream[p + i]
    BY <1>1, <1>2
  <1>4. new # <<>>
    OBVIOUS
  <1>5. n \in {1, Len(new)}
    OBVIOUS
  <1> HIDE DEF new
  <1>6. Len(new) > 0 /\ n \in 1 .. Len(new)
    BY <1>3, <1>4, <1>5
  <1>7. /\ batch \in Seq(Events) /\ Len(batch) = n
        /\ \A i \in 1 .. n : batch[i] = new[i]
    BY <1>3, <1>6
  <1> HIDE DEF batch
  <1>8. /\ ToSet(batch) = {batch[i] : i \in 1 .. n}
        /\ ToSet(stream) = {stream[i] : i \in 1 .. Len(stream)}
    BY <1>7, StreamEntry
  <1>9. batch # <<>> /\ ToSet(batch) \subseteq ToSet(stream) /\ new[n] \in ToSet(batch)
    <2>1. batch # <<>>
      BY <1>6, <1>7
    <2>2. \A i \in 1 .. n : p + i \in 1 .. Len(stream) /\ batch[i] = stream[p + i]
      BY <1>1, <1>2, <1>3, <1>6, <1>7
    <2>3. ToSet(batch) \subseteq ToSet(stream)
      BY <1>8, <2>2
    <2>4. n \in 1 .. n /\ batch[n] = new[n]
      BY <1>6, <1>7
    <2> QED BY <1>8, <2>1, <2>3, <2>4
  <1>10. ASSUME NEW i \in 1 .. Len(stream), Before(id, stream[i].id)
         PROVE  stream[i] \in ToSet(batch) \/ Before(new[n].id, stream[i].id)
    <2>1. p < i
      BY <1>1, <1>10
    <2>2. CASE i <= p + n
      <3>1. i - p \in 1 .. n /\ batch[i - p] = stream[i]
        BY <1>1, <1>2, <1>3, <1>6, <1>7, <2>1, <2>2
      <3> QED BY <1>8, <3>1
    <2>3. CASE p + n < i
      <3>1. new[n] = stream[p + n] /\ p + n \in 1 .. Len(stream)
        BY <1>1, <1>2, <1>3, <1>6
      <3> QED BY <2>3, <3>1 DEF Ordered
    <2> QED BY <1>1, <1>2, <1>6, <2>2, <2>3
  <1>11. new[n].id \in Ids
    BY <1>3, <1>6, StreamEntry
  <1> QED BY <1>7, <1>8, <1>9, <1>10, <1>11 DEF new, batch

(* An entry comes no later than the last. *)
LEMMA LastIsLast ==
    ASSUME NEW stream \in Seq(Events), Ordered(stream)
    PROVE  /\ LastId(stream) \in Ids
           /\ \A e \in ToSet(stream) : e \in Events /\ AtOrBefore(e.id, LastId(stream))
  <1>1. Len(stream) \in Nat /\ \A i \in 1 .. Len(stream) : stream[i].id \in Ids
    BY StreamEntry
  <1>2. CASE stream = <<>>
    <2>1. Len(stream) = 0
      BY <1>2
    <2>2. ToSet(stream) = {stream[i] : i \in 1 .. Len(stream)}
      BY StreamEntry
    <2>3. LastId(stream) \in Ids
      BY <1>2 DEF LastId, Origin, Ids
    <2> QED BY <2>1, <2>2, <2>3
  <1>3. CASE stream # <<>>
    <2>1. LastId(stream) = stream[Len(stream)].id /\ Len(stream) \in 1 .. Len(stream)
      BY <1>1, <1>3 DEF LastId, Last
    <2>2. \A i \in 1 .. Len(stream) : AtOrBefore(stream[i].id, LastId(stream))
      <3> SUFFICES ASSUME NEW i \in 1 .. Len(stream)
                   PROVE  AtOrBefore(stream[i].id, LastId(stream))
        OBVIOUS
      <3>1. i = Len(stream) \/ i < Len(stream)
        BY <1>1
      <3> QED BY <2>1, <3>1 DEF Ordered, AtOrBefore
    <2> QED BY <1>1, <2>1, <2>2, StreamEntry
  <1> QED BY <1>2, <1>3

(* XREAD after an id: the entries after it and no others. *)
LEMMA EntriesAfterSet ==
    ASSUME NEW stream \in Seq(Events), Ordered(stream), NEW id \in Ids
    PROVE  /\ EntriesAfter(stream, id) \in Seq(Events)
           /\ ToSet(EntriesAfter(stream, id)) \subseteq ToSet(stream)
           /\ \A e \in ToSet(stream) :
                 Before(id, e.id) => e \in ToSet(EntriesAfter(stream, id))
  <1>1. IncrementId(id) \in Ids
    BY IdOrder
  <1>2. /\ EntriesAfter(stream, id) \in Seq(Events)
        /\ ToSet(EntriesAfter(stream, id)) \subseteq ToSet(stream)
    BY <1>1, EntriesOfStream DEF EntriesAfter
  <1> DEFINE p == Position(stream, IncrementId(id))
             new == EntriesAfter(stream, id)
  <1>3. /\ p \in 0 .. Len(stream) /\ new = SubSeq(stream, p + 1, Len(stream))
        /\ \A i \in 1 .. Len(stream) : p < i <=> Before(id, stream[i].id)
    BY EntriesAfterAre
  <1>4. Len(stream) \in Nat /\ \A i \in 1 .. Len(stream) : stream[i] \in Events
    BY StreamEntry
  <1> HIDE DEF p
  <1>5. /\ new \in Seq(Events) /\ Len(new) = Len(stream) - p
        /\ \A i \in 1 .. Len(new) : new[i] = stream[p + i]
    BY <1>3, <1>4
  <1> HIDE DEF new
  <1>6. /\ ToSet(new) = {new[i] : i \in 1 .. Len(new)}
        /\ ToSet(stream) = {stream[i] : i \in 1 .. Len(stream)}
    BY <1>5, StreamEntry
  <1>7. ASSUME NEW i \in 1 .. Len(stream), Before(id, stream[i].id)
        PROVE  stream[i] \in ToSet(new)
    <2>1. i - p \in 1 .. Len(new) /\ new[i - p] = stream[i]
      BY <1>3, <1>4, <1>5, <1>7
    <2> QED BY <1>6, <2>1
  <1> QED BY <1>2, <1>6, <1>7 DEF new

(* The sets of entries of the sequences that an action makes. *)
LEMMA AppendedSet ==
    ASSUME NEW s \in Seq(Events), NEW e \in Events
    PROVE  /\ Append(s, e) \in Seq(Events) /\ Append(s, e) # <<>>
           /\ Len(Append(s, e)) = Len(s) + 1
           /\ \A i \in 1 .. Len(s) : Append(s, e)[i] = s[i]
           /\ Append(s, e)[Len(s) + 1] = e
           /\ ToSet(Append(s, e)) = ToSet(s) \cup {e}
           /\ LastId(Append(s, e)) = e.id
  <1>1. /\ Append(s, e) \in Seq(Events) /\ Append(s, e) # <<>> /\ Len(s) \in Nat
        /\ Len(Append(s, e)) = Len(s) + 1
        /\ \A i \in 1 .. Len(s) : Append(s, e)[i] = s[i]
        /\ Append(s, e)[Len(s) + 1] = e
    BY AppendProperties
  <1>2. ToSet(Append(s, e)) = {Append(s, e)[i] : i \in 1 .. Len(s) + 1}
    BY <1>1, StreamEntry
  <1>3. ToSet(s) = {s[i] : i \in 1 .. Len(s)}
    BY StreamEntry
  <1>4. ToSet(Append(s, e)) = ToSet(s) \cup {e}
    BY <1>1, <1>2, <1>3
  <1> QED BY <1>1, <1>4 DEF LastId, Last

LEMMA ConcatenatedSet ==
    ASSUME NEW s \in Seq(Events), NEW t \in Seq(Events)
    PROVE  s \o t \in Seq(Events) /\ ToSet(s \o t) = ToSet(s) \cup ToSet(t)
  <1>1. s \o t \in Seq(Events)
    OBVIOUS
  <1>2. Range(s \o t) = Range(s) \cup Range(t)
    BY RangeConcatenation
  <1> QED BY <1>1, <1>2 DEF Range, ToSet

LEMMA HeadAndTail ==
    ASSUME NEW s \in Seq(Events), s # <<>>
    PROVE  /\ Head(s) \in Events /\ Tail(s) \in Seq(Events)
           /\ ToSet(s) = {Head(s)} \cup ToSet(Tail(s))
  <1>1. /\ Len(s) \in Nat /\ Len(s) > 0 /\ Head(s) = s[1] /\ Head(s) \in Events
        /\ Tail(s) \in Seq(Events) /\ Len(Tail(s)) = Len(s) - 1
        /\ \A i \in 1 .. Len(s) - 1 : Tail(s)[i] = s[i + 1]
    BY HeadTailProperties, StreamEntry
  <1> DEFINE t == Tail(s)
  <1>2. ToSet(t) = {t[i] : i \in 1 .. Len(t)} /\ ToSet(s) = {s[i] : i \in 1 .. Len(s)}
    BY <1>1, StreamEntry
  <1>3. Len(t) = Len(s) - 1 /\ \A i \in 1 .. Len(s) - 1 : t[i] = s[i + 1]
    BY <1>1
  <1> HIDE DEF t
  <1>4. ASSUME NEW i \in 1 .. Len(s) PROVE s[i] \in {s[1]} \cup ToSet(t)
    <2>1. CASE i = 1
      BY <2>1
    <2>2. CASE i # 1
      <3>1. i - 1 \in 1 .. Len(t) /\ t[i - 1] = s[i]
        BY <1>1, <1>3, <2>2
      <3> QED BY <1>2, <3>1
    <2> QED BY <2>1, <2>2
  <1>5. ASSUME NEW i \in 1 .. Len(t) PROVE t[i] \in ToSet(s)
    <2>1. i + 1 \in 1 .. Len(s) /\ t[i] = s[i + 1]
      BY <1>1, <1>3
    <2> QED BY <1>2, <2>1
  <1>6. s[1] \in ToSet(s)
    BY <1>1, <1>2
  <1>7. ToSet(s) = {s[1]} \cup ToSet(t)
    BY <1>2, <1>4, <1>5, <1>6
  <1> QED BY <1>1, <1>7 DEF t

(* XADD's new id comes after all there are. *)
LEMMA NextIdIs ==
    ASSUME NEW s \in Seq(Events), NEW ms \in Nat, ms > 0,
           \A i \in 1 .. Len(s) : s[i].id[1] <= ms
    PROVE  /\ NextId(s, ms) \in Ids /\ NextId(s, ms)[1] = ms
           /\ LastId(s) \in Ids /\ Before(LastId(s), NextId(s, ms))
  <1>1. Len(s) \in Nat /\ \A i \in 1 .. Len(s) : s[i].id \in Ids
    BY StreamEntry
  <1>2. LastId(s) \in Ids /\ LastId(s)[1] <= ms
    <2>1. CASE s = <<>>
      BY <2>1 DEF LastId, Origin, Ids
    <2>2. CASE s # <<>>
      BY <1>1, <2>2 DEF LastId, Last
    <2> QED BY <2>1, <2>2
  <1> QED BY <1>2 DEF NextId, Ids, Before

-----------------------------------------------------------------------------
(* The tab as one value, and what processing a list of events may do to it: a
   promise that changes was listened to and heard one of the events, no event is
   forgotten, and no job of an event is left unheard. *)
TabOK(tab) ==
    /\ DOMAIN tab = {"promise", "timers", "retries", "lastId", "dropped"}
    /\ tab.promise \in [Jobs -> PromiseStates]
    /\ IsABag(tab.timers) /\ BagToSet(tab.timers) \subseteq Events
    /\ tab.retries \in [Jobs -> 0 .. MAX_RETRIES]
    /\ tab.lastId \in Ids \cup {None}
    /\ tab.dropped \subseteq Jobs

HeardOf(tab, j) ==
    \/ tab.promise[j] \notin {"requested", "waiting"}
    \/ j \in tab.dropped
    \/ \E e \in BagToSet(tab.timers) : e.job = j

Follows(old, new, events) ==
    /\ \A j \in Jobs : new.promise[j] # old.promise[j] =>
          /\ old.promise[j] \in {"waiting", "fetching"}
          /\ \E e \in events :
                e.job = j /\ new.promise[j] = Heard(old.promise[j], e.status)
    /\ old.dropped \subseteq new.dropped
    /\ BagToSet(old.timers) \subseteq BagToSet(new.timers)
    /\ BagToSet(new.timers) \subseteq BagToSet(old.timers) \cup events
    /\ new.lastId \in {old.lastId} \cup {e.id : e \in events}
    /\ \A e \in events : HeardOf(new, e.job)

(* processEvents, one event. *)
LEMMA ProcessEventFollows ==
    ASSUME NEW tab, TabOK(tab), NEW e \in Events
    PROVE  TabOK(ProcessEvent(tab, e)) /\ Follows(tab, ProcessEvent(tab, e), {e})
  <1> DEFINE j == e.job
             new == ProcessEvent(tab, e)
  <1>1. j \in Jobs /\ e.id \in Ids /\ e.status \in {"done", "error"}
    BY DEF Events, Statuses
  <1>2. CASE Listening(tab.promise[j])
    BY <1>1, <1>2, EventClientAssumption
    DEF ProcessEvent, TabOK, Follows, HeardOf, Heard, Listening, PromiseStates,
        EventClientAssumption, BagToSet
  <1>3. CASE ~Listening(tab.promise[j]) /\ tab.retries[j] + 1 <= MAX_RETRIES
    BY <1>1, <1>3, EventClientAssumption
    DEF ProcessEvent, TabOK, Follows, HeardOf, Heard, Listening, PromiseStates,
        EventClientAssumption, BagToSet, IsABag, SetToBag, (+)
  <1>4. CASE ~Listening(tab.promise[j]) /\ ~(tab.retries[j] + 1 <= MAX_RETRIES)
    BY <1>1, <1>4, EventClientAssumption
    DEF ProcessEvent, TabOK, Follows, HeardOf, Heard, Listening, PromiseStates,
        EventClientAssumption, BagToSet
  <1> QED BY <1>2, <1>3, <1>4

LEMMA FollowsChains ==
    ASSUME NEW t0, NEW t1, NEW t2, NEW E, NEW e, e.job \in Jobs,
           TabOK(t0), TabOK(t1), TabOK(t2),
           \A f \in E : f.job \in Jobs,
           Follows(t0, t1, E), Follows(t1, t2, {e})
    PROVE  Follows(t0, t2, E \cup {e})
  BY DEF Follows, HeardOf, Heard

(* A list of events is processed one after the other: there is a function from
   how many were processed to the tab at that moment, and it is the one that
   AfterEvents takes the last value of. *)
IsRun(tab, events, m, f) ==
    f = [n \in 0 .. m |-> IF n = 0 THEN tab ELSE ProcessEvent(f[n - 1], events[n])]

LEMMA RunExists ==
    ASSUME NEW tab, NEW events, NEW k \in Nat
    PROVE  \E f : IsRun(tab, events, k, f)
  <1> DEFINE T == {m \in Nat : ~\E f : IsRun(tab, events, m, f)}
  <1>1. CASE T = {}
    BY <1>1
  <1>2. CASE T # {}
    <2>1. PICK m \in T : \A n \in T : m <= n
      <3>1. T \in SUBSET Nat
        OBVIOUS
      <3> HIDE DEF T
      <3> QED BY <1>2, <3>1, LeastNat
    <2>2. m # 0
      <3>1. IsRun(tab, events, 0, [n \in 0 .. 0 |-> tab])
        BY DEF IsRun
      <3> QED BY <2>1, <3>1
    <2>3. PICK f : IsRun(tab, events, m - 1, f)
      <3>1. m - 1 \in Nat /\ m - 1 \notin T
        BY <2>1, <2>2
      <3> QED BY <3>1
    <2> DEFINE g == [n \in 0 .. m |-> IF n = m THEN ProcessEvent(f[m - 1], events[m])
                                               ELSE f[n]]
    <2>4. \A n \in 0 .. m - 1 :
             g[n] = IF n = 0 THEN tab ELSE ProcessEvent(f[n - 1], events[n])
      <3>1. \A n \in 0 .. m - 1 : g[n] = f[n]
        BY <2>1, <2>2
      <3> QED BY <2>1, <2>3, <3>1 DEF IsRun
    <2>5. IsRun(tab, events, m, g)
      <3>1. \A n \in 0 .. m :
               g[n] = IF n = 0 THEN tab ELSE ProcessEvent(g[n - 1], events[n])
        <4> SUFFICES ASSUME NEW n \in 0 .. m
                     PROVE  g[n] = IF n = 0 THEN tab
                                   ELSE ProcessEvent(g[n - 1], events[n])
          OBVIOUS
        <4>1. CASE n = m
          BY <2>1, <2>2, <4>1
        <4>2. CASE n # m
          <5>1. n \in 0 .. m - 1 /\ (n # 0 => g[n - 1] = f[n - 1])
            BY <2>1, <4>2
          <5> HIDE DEF g
          <5> QED BY <2>4, <5>1
        <4> QED BY <4>1, <4>2
      <3>2. g = [n \in 0 .. m |-> g[n]]
        OBVIOUS
      <3> HIDE DEF g
      <3> QED BY <3>1, <3>2 DEF IsRun
    <2> QED BY <2>1, <2>5
  <1> QED BY <1>1, <1>2

LEMMA AfterEventsIs ==
    ASSUME NEW tab, NEW events, Len(events) \in Nat
    PROVE  \E f : /\ AfterEvents(tab, events) = f[Len(events)]
                  /\ f[0] = tab
                  /\ \A n \in 1 .. Len(events) :
                        f[n] = ProcessEvent(f[n - 1], events[n])
  <1> DEFINE f == CHOOSE g : IsRun(tab, events, Len(events), g)
  <1>1. IsRun(tab, events, Len(events), f)
    BY RunExists
  <1>2. AfterEvents(tab, events) = f[Len(events)]
    BY DEF AfterEvents, IsRun
  <1> HIDE DEF f
  <1>3. \A n \in 0 .. Len(events) :
           f[n] = IF n = 0 THEN tab ELSE ProcessEvent(f[n - 1], events[n])
    BY <1>1 DEF IsRun
  <1> QED BY <1>2, <1>3

(* processEvents, of a list: by induction on how many of it were processed. *)
LEMMA AfterEventsFollows ==
    ASSUME NEW tab, TabOK(tab), NEW events \in Seq(Events)
    PROVE  /\ TabOK(AfterEvents(tab, events))
           /\ Follows(tab, AfterEvents(tab, events), ToSet(events))
  <1>0. Len(events) \in Nat /\ \A n \in 1 .. Len(events) : events[n] \in Events
    BY StreamEntry
  <1>1. PICK f : /\ AfterEvents(tab, events) = f[Len(events)]
                 /\ f[0] = tab
                 /\ \A n \in 1 .. Len(events) :
                       f[n] = ProcessEvent(f[n - 1], events[n])
    BY <1>0, AfterEventsIs
  <1> DEFINE First(n) == {events[i] : i \in 1 .. n}
             Good(n) == TabOK(f[n]) /\ Follows(tab, f[n], First(n))
             T == {n \in 0 .. Len(events) : ~Good(n)}
  <1>2. Good(0)
    BY <1>1 DEF Follows
  <1>3. ASSUME NEW n \in 1 .. Len(events), Good(n - 1) PROVE Good(n)
    <2>1. f[n] = ProcessEvent(f[n - 1], events[n]) /\ events[n] \in Events
      BY <1>0, <1>1
    <2>2. TabOK(f[n]) /\ Follows(f[n - 1], f[n], {events[n]})
      BY <1>3, <2>1, ProcessEventFollows
    <2>3. First(n) = First(n - 1) \cup {events[n]}
      <3>1. 1 .. n = (1 .. n - 1) \cup {n}
        OBVIOUS
      <3> QED BY <3>1
    <2>4. \A e \in First(n) : e.job \in Jobs
      BY <1>0 DEF Events
    <2> HIDE DEF First
    <2>5. Follows(tab, f[n], First(n - 1) \cup {events[n]})
      BY <1>3, <2>2, <2>3, <2>4, FollowsChains
    <2> QED BY <2>2, <2>3, <2>5
  <1>4. T = {}
    <2> SUFFICES ASSUME T # {} PROVE FALSE
      OBVIOUS
    <2>1. PICK m \in T : \A k \in T : m <= k
      <3>1. T \in SUBSET Nat
        OBVIOUS
      <3> HIDE DEF T
      <3> QED BY <3>1, LeastNat
    <2> HIDE DEF Good
    <2>2. m # 0 /\ m - 1 \in 0 .. Len(events) /\ m - 1 \notin T
      BY <1>2, <2>1
    <2>3. Good(m - 1) /\ m \in 1 .. Len(events)
      BY <2>1, <2>2
    <2> QED BY <1>3, <2>1, <2>3
  <1>5. Good(Len(events))
    <2> HIDE DEF Good
    <2> QED BY <1>0, <1>4
  <1>6. First(Len(events)) = ToSet(events)
    BY StreamEntry
  <1> QED BY <1>1, <1>5, <1>6
=============================================================================
