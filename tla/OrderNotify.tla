---------------------------- MODULE OrderNotify ----------------------------
(***************************************************************************)
(* The SSE stream of order statuses: Kafka's order.events, read by a       *)
(* broadcast consumer on every instance into an in-memory history          *)
(* (OrderNotifyService), and the clients of GET /orders/:id/events, which  *)
(* reconnect, to any instance, with the id of the last event they saw.     *)
(*                                                                         *)
(* The topic is fed by the outbox relay, module OutboxRelay; its log       *)
(* stands for one partition.  A row is one event: the status it tells is   *)
(* the status its order had when the row was written.                      *)
(***************************************************************************)
EXTENDS Naturals, Sequences, FiniteSets

CONSTANTS Rows, Aggregate, Relays, BatchSize, MaxFaults,  \* see OutboxRelay
          Instances, Clients, NoInstance,
          Watched,       \* Watched[c]: the order client c follows
          HistoryLimit,  \* ORDER_EVENT_HISTORY_LIMIT
          MaxRestarts    \* bound: instance restarts

ASSUME NotifyAssumption ==
  /\ NoInstance \notin Instances
  /\ Watched \in [Clients -> {Aggregate[r] : r \in Rows}]
  /\ HistoryLimit \in Nat \ {0} /\ MaxRestarts \in Nat

VARIABLES row, phase, claimed, sent, log, faults,  \* see OutboxRelay
          since,     \* where each instance's consumer started: the latest offset
          position,  \* offset of the next message it gets
          history,   \* OrderNotifyService.history
          at,        \* the instance each client's stream is open at
          received,  \* what each client got, its Last-Event-ID being the last id
          restarts

Relay == INSTANCE OutboxRelay

ASSUME RelayAssumption == Relay!OutboxAssumption

relayVars == <<row, phase, claimed, sent, log, faults>>
vars == <<relayVars, since, position, history, at, received, restarts>>

Orders == {Aggregate[r] : r \in Rows}

Init ==
  /\ Relay!Init
  /\ since = [i \in Instances |-> 0]
  /\ position = [i \in Instances |-> 0]
  /\ history = [i \in Instances |-> [o \in Orders |-> << >>]]
  /\ at = [c \in Clients |-> NoInstance]
  /\ received = [c \in Clients |-> << >>]
  /\ restarts = 0

-----------------------------------------------------------------------------
\* The SSE id of the message at an offset.
EventId(offset) == offset + 1

EventAt(offset) == [id |-> EventId(offset), row |-> log[offset + 1]]

LastId(events) == IF events = << >> THEN 0 ELSE events[Len(events)].id

\* Variant: record has no early return.
IsNewAlways(h, e) == TRUE

\* The early return of record, negated.
IsNew(h, e) == h = << >> \/ LastId(h) < e.id

Capped(h) == IF Len(h) > HistoryLimit THEN Tail(h) ELSE h

\* Variant: writeEvent does not compare ids.
WrittenAlways(events, e) == Append(events, e)

\* writeEvent: lastSentId is the last id received, or the Last-Event-ID sent.
Written(events, e) == IF e.id <= LastId(events) THEN events ELSE Append(events, e)

\* handle and record: to the history and to the listeners of the order.
Handle(i, offset) ==
  LET e == EventAt(offset)
      o == Aggregate[e.row]
  IN  \/ /\ IsNew(history[i][o], e)
         /\ history' = [history EXCEPT ![i][o] = Capped(Append(@, e))]
         /\ received' = [c \in Clients |->
              IF at[c] = i /\ Watched[c] = o THEN Written(received[c], e) ELSE received[c]]
      \/ /\ ~IsNew(history[i][o], e)
         /\ UNCHANGED <<history, received>>

Consume(i) ==
  /\ position[i] < Len(log)
  /\ Handle(i, position[i])
  /\ position' = [position EXCEPT ![i] = @ + 1]
  /\ UNCHANGED <<relayVars, since, at, restarts>>

\* The consumer gets the last message again.
Redeliver(i) ==
  /\ position[i] > since[i]
  /\ Handle(i, position[i] - 1)
  /\ UNCHANGED <<relayVars, since, position, at, restarts>>

\* Variant: ids are compared as if Last-Event-ID were an offset.
IsAfterOffset(e, lastEventId) == e.id > lastEventId + 1

\* What getAfter filters the history by.
IsAfter(e, lastEventId) == e.id > lastEventId

\* The loop over getAfter: its events are written one by one, oldest first.
Replayed(events, h) ==
  LET written[n \in 0 .. Len(h)] ==
        IF n = 0 THEN events
        ELSE IF IsAfter(h[n], LastId(events)) THEN Written(written[n - 1], h[n])
        ELSE written[n - 1]
  IN  written[Len(h)]

\* events: subscribe and replay, in one turn of the event loop.
Connect(c, i) ==
  /\ at[c] = NoInstance
  /\ at' = [at EXCEPT ![c] = i]
  /\ received' = [received EXCEPT ![c] = Replayed(@, history[i][Watched[c]])]
  /\ UNCHANGED <<relayVars, since, position, history, restarts>>

\* The connection ends.  What was written to it and never arrived was written
\* after this step.
Disconnect(c) ==
  /\ at[c] # NoInstance
  /\ at' = [at EXCEPT ![c] = NoInstance]
  /\ UNCHANGED <<relayVars, since, position, history, received, restarts>>

\* An instance restarts: a new consumer group at the latest offset.
Restart(i) ==
  /\ restarts < MaxRestarts
  /\ restarts' = restarts + 1
  /\ since' = [since EXCEPT ![i] = Len(log)]
  /\ position' = [position EXCEPT ![i] = Len(log)]
  /\ history' = [history EXCEPT ![i] = [o \in Orders |-> << >>]]
  /\ at' = [c \in Clients |-> IF at[c] = i THEN NoInstance ELSE at[c]]
  /\ UNCHANGED <<relayVars, received>>

Next ==
  \/ Relay!Next /\ UNCHANGED <<since, position, history, at, received, restarts>>
  \/ \E i \in Instances :
       \/ Consume(i) \/ Redeliver(i) \/ Restart(i)
       \/ \E c \in Clients : Connect(c, i)
  \/ \E c \in Clients : Disconnect(c)

Spec == Init /\ [][Next]_vars

-----------------------------------------------------------------------------
\* The ids of order o's events among those from offset `from` to before `to`.
EventIds(o, from, to) == {k \in from + 1 .. to : Aggregate[log[k]] = o}

\* Events with these ids, as they are in the log, oldest first and each once.
InOrder(events, ids) ==
  /\ \A j \in DOMAIN events : events[j].id \in ids /\ events[j].row = log[events[j].id]
  /\ \A j, k \in DOMAIN events : j < k => events[j].id < events[k].id

Has(events, id) == \E j \in DOMAIN events : events[j].id = id

\* README: the service "keeps the last 100 per order" and rebuilds "from new
\* events after a restart": an instance holds the newest events of an order it
\* has consumed, each once, redeliveries notwithstanding.
HistoryIsLog ==
  \A i \in Instances : \A o \in Orders :
    LET h == history[i][o]
        ids == EventIds(o, since[i], position[i])
    IN  /\ InOrder(h, ids) /\ Len(h) <= HistoryLimit
        /\ \A k \in ids : Has(h, k) \/ (Len(h) = HistoryLimit /\ k < h[1].id)

\* README: "a reconnect with Last-Event-ID resumes correctly on any instance":
\* until an instance restarts, or an order has more events than the history
\* keeps, a client has the order's events from the first to its last, none
\* missing and none twice.
ResumesOnAnyInstance ==
  \A c \in Clients :
    LET ids == EventIds(Watched[c], 0, Len(log))
    IN  restarts = 0 /\ Cardinality(ids) <= HistoryLimit =>
          /\ InOrder(received[c], ids)
          /\ \A k \in ids : k <= LastId(received[c]) => Has(received[c], k)

\* README: "ids only grow per order and are the same on every instance": a
\* client that moves between instances, one behind the other, gets no event
\* twice and none older than the last.  Nor, with one relay, does a status follow
\* one the order had later, unless a relay run failed: record deduplicates by
\* offset, and what such a run sends again has a new one.
StreamMovesForward ==
  \A c \in Clients : \A j, k \in DOMAIN received[c] : j < k =>
    /\ received[c][j].id < received[c][k].id
    /\ faults = 0 => received[c][j].row < received[c][k].row

=============================================================================
