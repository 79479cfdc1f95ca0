-------------------------------- MODULE Events --------------------------------
(* The events of the system, from whoever publishes them to whoever        *)
(* follows them over HTTP: events.py (Bus) and api/routes/admin/events.py. *)
(*                                                                         *)
(* Each instance has an outbox and a writer, which puts batches into one   *)
(* stream in Redis; the stream is trimmed at its head. A client follows    *)
(* the stream, and comes back with the id of the last event it was sent.   *)
(* An event is an id of the stream; who published it and as which of its   *)
(* events is kept beside it.                                               *)
EXTENDS Naturals, Sequences, SequencesExt, FiniteSets

CONSTANTS
    Instances,
    MaxEvents,   \* bound of the model: events of one instance
    Queue,       \* settings.events_queue
    Batch,       \* settings.events_batch
    Keep,        \* settings.events_buffer
    MaxConnects  \* bound of the model: connections of the client

VARIABLES
    pub,      \* the instances
    stream,   \* the entries, each its id and the event
    trimmed,  \* entries that were trimmed
    client,   \* the client and its connection
    got,      \* the entries it was sent
    unseen    \* history: entries trimmed under an open connection

vars == <<pub, stream, trimmed, client, got, unseen>>

Event == [from : Instances, n : 1..MaxEvents]
Entry == [id : Nat, event : Event]
Entries == trimmed + Len(stream)

TypeOK ==
    /\ pub \in [Instances -> [said : 0..MaxEvents, outbox : Seq(Event), flight : Seq(Event),
                              lost : SUBSET (1..MaxEvents), on : BOOLEAN]]
    /\ \A i \in Instances : Len(pub[i].outbox) <= Queue /\ Len(pub[i].flight) <= Batch
    /\ stream \in Seq(Entry) /\ trimmed \in Nat
    /\ client \in [at : {"off", "opening", "open"}, cursor : Nat, after : Nat, gap : SUBSET Nat,
                   count : 0..MaxConnects]
    /\ got \in Seq(Entry)
    /\ unseen \subseteq Nat

Init ==
    /\ pub = [i \in Instances |->
                 [said |-> 0, outbox |-> <<>>, flight |-> <<>>, lost |-> {}, on |-> TRUE]]
    /\ stream = <<>> /\ trimmed = 0
    /\ client = [at |-> "off", cursor |-> 0, after |-> 0, gap |-> {}, count |-> 0]
    /\ got = <<>>
    /\ unseen = {}

-----------------------------------------------------------------------------
(* Publishing.                                                             *)

\* publish: an event that finds the outbox full is dropped.
Publish(i) ==
    LET n == pub[i].said + 1
    IN  /\ pub[i].on /\ pub[i].said < MaxEvents
        /\ pub' = IF Len(pub[i].outbox) < Queue
                  THEN [pub EXCEPT ![i].said = n,
                                   ![i].outbox = Append(@, [from |-> i, n |-> n])]
                  ELSE [pub EXCEPT ![i].said = n, ![i].lost = @ \cup {n}]
        /\ UNCHANGED <<stream, trimmed, client, got, unseen>>

\* _pump takes a batch,
Take(i) ==
    LET n == IF Len(pub[i].outbox) < Batch THEN Len(pub[i].outbox) ELSE Batch
    IN  /\ pub[i].flight = <<>> /\ n > 0
        /\ pub' = [pub EXCEPT ![i].flight = SubSeq(pub[i].outbox, 1, n),
                              ![i].outbox = SubSeq(@, n + 1, Len(@))]
        /\ UNCHANGED <<stream, trimmed, client, got, unseen>>

\* XADD of one event. The length of the stream is approximate: it is trimmed
\* at some time when it is longer.
Add(event) ==
    LET all == Append(stream, [id |-> Entries + 1, event |-> event])
    IN  \E cut \in 0..(IF Len(all) > Keep THEN Len(all) - Keep ELSE 0) :
            /\ stream' = SubSeq(all, cut + 1, Len(all))
            /\ trimmed' = trimmed + cut
            /\ unseen' = unseen \cup IF client.at # "off"
                                     THEN {id \in (trimmed + 1)..trimmed' : id > client.cursor}
                                     ELSE {}

\* ... and writes it, one command after the other, with those of others between.
Write(i) ==
    /\ pub[i].flight # <<>>
    /\ Add(Head(pub[i].flight))
    /\ pub' = [pub EXCEPT ![i].flight = Tail(@)]
    /\ UNCHANGED <<client, got>>

\* The pipeline fails: what was not written of the batch is lost.
Fail(i) ==
    /\ pub[i].flight # <<>>
    /\ pub' = [pub EXCEPT ![i].lost = @ \cup {pub[i].flight[k].n : k \in DOMAIN pub[i].flight},
                          ![i].flight = <<>>]
    /\ UNCHANGED <<stream, trimmed, client, got, unseen>>

\* stop, whose two seconds pass: whatever waits is lost with the instance.
Stop(i) ==
    LET left == pub[i].flight \o pub[i].outbox
    IN  /\ pub[i].on
        /\ pub' = [pub EXCEPT ![i] = [@ EXCEPT !.on = FALSE, !.outbox = <<>>, !.flight = <<>>,
                                               !.lost = @ \cup {left[k].n : k \in DOMAIN left}]]
        /\ UNCHANGED <<stream, trimmed, client, got, unseen>>

-----------------------------------------------------------------------------
(* Following.                                                              *)

\* The client connects, with the id of the last event it was sent, if any.
Connect ==
    /\ client.at = "off" /\ client.count < MaxConnects
    /\ client' = [client EXCEPT !.at = "opening", !.cursor = client.after, !.count = @ + 1]
    /\ UNCHANGED <<pub, stream, trimmed, got, unseen>>

\* subscribe: a client that has stopped before the first entry is told of a gap.
Open ==
    /\ client.at = "opening"
    /\ client' = [client EXCEPT !.at = "open",
                     !.gap = IF client.cursor # 0 /\ stream # <<>> /\ client.cursor < stream[1].id
                             THEN @ \cup {id \in 1..trimmed : id > client.cursor} ELSE @]
    /\ UNCHANGED <<pub, stream, trimmed, got, unseen>>

\* xread after the cursor, one entry at a time.
Read ==
    LET new == SelectSeq(stream, LAMBDA entry : entry.id > client.cursor)
    IN  /\ client.at = "open" /\ new # <<>>
        /\ got' = Append(got, new[1])
        /\ client' = [client EXCEPT !.cursor = new[1].id, !.after = new[1].id]
        /\ UNCHANGED <<pub, stream, trimmed, unseen>>

\* The connection ends; events between xread and the client are read again.
Disconnect ==
    /\ client.at # "off"
    /\ client' = [client EXCEPT !.at = "off"]
    /\ UNCHANGED <<pub, stream, trimmed, got, unseen>>

Next ==
    \/ \E i \in Instances : Publish(i) \/ Take(i) \/ Write(i) \/ Fail(i) \/ Stop(i)
    \/ Connect \/ Open \/ Read \/ Disconnect

Spec == Init /\ [][Next]_vars

-----------------------------------------------------------------------------
(* Properties.                                                             *)

\* subscribe: through any number of connections a client is sent every entry
\* once and in order, from its first one on; it misses only what it was told
\* of as a gap, and what was trimmed while it was connected and had not read it.
NoSilentGap ==
    /\ \A k \in 1..(Len(got) - 1) : got[k].id < got[k + 1].id
    /\ got # <<>> => \A id \in got[1].id..Last(got).id :
           \/ \E k \in DOMAIN got : got[k].id = id
           \/ id \in client.gap \cup unseen

\* publish and _pump: what an instance publishes is in the stream in its order,
\* each event at most once, or counted as lost.
InOrderOrLost ==
    \A i \in Instances :
        LET own == SelectSeq(got, LAMBDA entry : entry.event.from = i)
        IN  /\ \A k \in 1..(Len(own) - 1) : own[k].event.n < own[k + 1].event.n
            /\ \A k \in DOMAIN own : own[k].event.n \notin pub[i].lost
=============================================================================
