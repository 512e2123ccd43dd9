----------------------------- MODULE EventStream -----------------------------
(***************************************************************************)
(* packages/api/src/routes/sse.ts: server-sent events.  GET /events opens  *)
(* a connection and registers it under the clientId its query names, in    *)
(* place of an older one; POST /emit writes an event to every registered   *)
(* connection of its topic and keeps it in a buffer, which is replayed to  *)
(* a browser that connects with a Last-Event-ID.                           *)
(*                                                                         *)
(* The server is told that a connection is gone at any time, often long    *)
(* after the browser has opened the next one.  An event is known by the    *)
(* number of its emission.                                                 *)
(***************************************************************************)
EXTENDS Integers, Sequences, Subsequences

CONSTANTS
    Clients,        \* clientIds
    Topics,
    TopicSets,      \* what a query may subscribe to
    MAX_BUFFER_SIZE,
    MaxConns, MaxEmits      \* bounds

Every == "*"

ASSUME StreamAssumption ==
    /\ TopicSets \subseteq SUBSET (Topics \cup {Every})
    /\ MAX_BUFFER_SIZE \in Nat \ {0} /\ MaxConns \in Nat /\ MaxEmits \in Nat

VARIABLES
    clients,        \* clientId -> the connection it is registered with, or 0
    eventBuffer,
    topic,          \* history: the topic of each event
    conns           \* history: the connections, in the order they were opened

streamVars == <<clients, eventBuffer, topic, conns>>

StreamInit ==
    /\ clients = [k \in Clients |-> 0]
    /\ eventBuffer = <<>> /\ topic = <<>> /\ conns = <<>>

Matches(topics, t) == t \in topics \/ Every \in topics

\* The time in Last-Event-ID is read and not used.
Replay(topics) == Retain(eventBuffer, {e \in DOMAIN topic : Matches(topics, topic[e])})

Connect(k, topics, resumes) ==
    /\ Len(conns) < MaxConns
    /\ conns' = Append(conns,
           [id |-> k, topics |-> topics, closed |-> FALSE, resumed |-> resumes,
            openedAt |-> Len(topic), written |-> IF resumes THEN Replay(topics) ELSE <<>>])
    /\ clients' = [clients EXCEPT ![k] = Len(conns) + 1]
    /\ UNCHANGED <<eventBuffer, topic>>

\* Mutant: the buffer is cut when it is full, not when it is over its size.
BufferedLess(e) ==
    LET pushed == Append(eventBuffer, e)
    IN  IF Len(pushed) >= MAX_BUFFER_SIZE THEN Tail(pushed) ELSE pushed

\* push and shift
Buffered(e) ==
    LET pushed == Append(eventBuffer, e)
    IN  IF Len(pushed) > MAX_BUFFER_SIZE THEN Tail(pushed) ELSE pushed

Listed(c) == clients[conns[c].id] = c

\* broadcastToTopic()
Emit(t) ==
    /\ Len(topic) < MaxEmits
    /\ LET e == Len(topic) + 1
       IN  /\ eventBuffer' = Buffered(e)
           /\ conns' = [c \in DOMAIN conns |->
                   IF Listed(c) /\ Matches(conns[c].topics, t)
                   THEN [conns[c] EXCEPT !.written = Append(@, e)] ELSE conns[c]]
    /\ topic' = Append(topic, t)
    /\ UNCHANGED clients

\* req.on('close'): whichever connection the clientId is registered with goes.
Close(c) ==
    /\ ~conns[c].closed
    /\ conns' = [conns EXCEPT ![c].closed = TRUE]
    /\ clients' = [clients EXCEPT ![conns[c].id] = 0]
    /\ UNCHANGED <<eventBuffer, topic>>

StreamNext ==
    \/ \E k \in Clients, topics \in TopicSets, resumes \in BOOLEAN : Connect(k, topics, resumes)
    \/ \E t \in Topics : Emit(t)
    \/ \E c \in DOMAIN conns : Close(c)

StreamSpec == StreamInit /\ [][StreamNext]_streamVars
-----------------------------------------------------------------------------
StreamTypeOK ==
    /\ clients \in [Clients -> 0 .. Len(conns)]
    /\ topic \in Seq(Topics)
    /\ Len(eventBuffer) <= MAX_BUFFER_SIZE
    /\ \A c \in DOMAIN conns :
        conns[c].id \in Clients /\ conns[c].topics \in TopicSets

\* The events a connection is owed: what is emitted once it is open, and if
\* it resumes the last MAX_BUFFER_SIZE ones before.
Owed(c) ==
    LET first == conns[c].openedAt - (IF conns[c].resumed THEN MAX_BUFFER_SIZE ELSE 0)
    IN  Retain([e \in DOMAIN topic |-> e],
               {e \in DOMAIN topic : e > first /\ Matches(conns[c].topics, topic[e])})

(* A registered connection is written every event it is owed, each one once*)
(* and in the order they were emitted, so that a browser that reconnects   *)
(* misses nothing while the buffer holds what it missed; one that is no    *)
(* longer registered has got the first of them.  It loses its place only to*)
(* a later connection of its clientId, or because another one of the same  *)
(* clientId was closed, perhaps long after it opened (sse.ts:87).          *)
StreamComplete ==
    /\ StreamTypeOK
    /\ \A c \in DOMAIN conns :
        IF Listed(c)
        THEN ~conns[c].closed /\ conns[c].written = Owed(c)
        ELSE /\ \E n \in 0 .. Len(topic) : conns[c].written = SubSeq(Owed(c), 1, n)
             /\ \/ conns[c].closed
                \/ \E d \in DOMAIN conns \ {c} :
                    conns[d].id = conns[c].id /\ (d > c \/ conns[d].closed)
=============================================================================
