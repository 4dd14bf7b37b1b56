------------------------------- MODULE Server -------------------------------
(***************************************************************************)
(* The coordinator's server and its clients (server.cpp, client.cpp,       *)
(* socket.cpp): the accept loop, one thread per connection, shutdown asked *)
(* for by another thread, clients that call, send frames that are not      *)
(* theirs, say nothing or go away, and a process that can be killed.       *)
(*                                                                         *)
(* A connection stands for its two sockets, the server's thread for it and *)
(* the client on the other side.  The runtime behind dispatch is the       *)
(* module Coordinator; here it does one whole operation at a time.         *)
(***************************************************************************)
EXTENDS Wire, FiniteSets

CONSTANTS
  Connections,      \* every connection made in a behaviour, each used once
  MaxSessions,      \* ServerConfig::max_sessions
  Scenarios         \* what may happen in a behaviour, and its bounds: records of
                    \*   stoppers  threads other than the serving one that stop the server
                    \*   strays    connections whose clients send what is not in the protocol
                    \*   calls     bound: calls of one client
                    \*   boots     bound: processes started one after the other

ASSUME ServerAssumption ==
  /\ MaxSessions \in Nat \ {0}
  /\ \A s \in Scenarios : /\ "serve" \notin s.stoppers /\ s.strays \subseteq Connections
                          /\ s.calls \in Nat /\ s.boots \in Nat

VARIABLES
  scenario,         \* the one this behaviour follows
  epoch,            \* the runtime's epoch: open() advances it
  alive,            \* the server process exists
  serve,            \* the serving thread: where it is, and the socket it is registering
  shutdown,         \* each caller of request_shutdown: where it is, its two local copies
  shutting_down, listening, backlog, sockets, threads, session_counter,
  session,          \* the session threads
  open,             \* the server's sockets that are not shut down
  client,           \* the clients
  toServer, toClient,  \* bytes under way
  handled           \* history: what dispatch was called with on each connection

process == <<scenario, epoch, alive>>
listener == <<listening, backlog>>
peers == <<client, toServer, toClient, handled>>
vars == <<process, serve, shutdown, shutting_down, listener, sockets, threads, session_counter,
          session, open, peers>>

Callers == {"serve"} \cup UNION {s.stoppers : s \in Scenarios}
Operations == {"operate", "shutdown"}      \* fifteen of them, and the one that ends its session

NoSession == [at |-> "none", id |-> 0, last |-> 0, stream |-> NewStream, request |-> <<>>]
NoCaller == [at |-> "idle", copied |-> {}, pending |-> {}]
NewClient == [at |-> "new", id |-> 0, epoch |-> 0, sequence |-> 0, stream |-> NewStream,
              acked |-> {}]

Init ==
  /\ scenario \in Scenarios
  /\ epoch = 0 /\ alive = FALSE /\ serve = [at |-> "accept", socket |-> {}]
  /\ shutdown = [k \in Callers |-> NoCaller]
  /\ shutting_down = FALSE /\ listening = FALSE /\ backlog = <<>>
  /\ sockets = {} /\ threads = {} /\ session_counter = 0 /\ open = {}
  /\ session = [c \in Connections |-> NoSession]
  /\ client = [c \in Connections |-> NewClient]
  /\ toServer = [c \in Connections |-> <<>>] /\ toClient = [c \in Connections |-> <<>>]
  /\ handled = [c \in Connections |-> <<>>]

-----------------------------------------------------------------------------
(* The process. *)

\* CoordinatorServer::start opens the runtime, which takes the next epoch, then binds; when
\* the port cannot be bound the epoch is used up all the same.
Start ==
  /\ ~alive /\ epoch < scenario.boots /\ epoch' = epoch + 1
  /\ \/ alive' = TRUE /\ listening' = TRUE
     \/ UNCHANGED <<alive, listening>>
  /\ UNCHANGED <<scenario, serve, shutdown, shutting_down, backlog, sockets, threads,
                 session_counter, session, open, peers>>

\* The process ends, at the configured crash points or anywhere else: its memory is gone and
\* its sockets are closed.
Kill ==
  /\ alive /\ alive' = FALSE /\ listening' = FALSE /\ backlog' = <<>>
  /\ serve' = [at |-> "accept", socket |-> {}]
  /\ shutdown' = [k \in Callers |-> NoCaller] /\ shutting_down' = FALSE
  /\ sockets' = {} /\ threads' = {} /\ session_counter' = 0 /\ open' = {}
  /\ session' = [c \in Connections |-> NoSession]
  /\ toServer' = [c \in Connections |-> <<>>]
  /\ UNCHANGED <<scenario, epoch, client, toClient, handled>>

-----------------------------------------------------------------------------
(* serve() *)

Ended(c) == session[c].at = "end"

\* Mutant: every thread is taken for finished.
ReapEverything == {}

\* reap_finished_threads: what it leaves in the table.
ReapFinishedThreads == {c \in threads : ~Ended(c)}

\* Listener::accept returns a connection, or Interrupted once the listener is shut down.  The
\* flag the loop looks at before is raised in the same step as the listener is closed.
Accept ==
  /\ alive /\ serve.at = "accept"
  /\ \/ /\ listening /\ backlog # <<>>
        /\ serve' = [at |-> "spawn", socket |-> {Head(backlog)}]
        /\ backlog' = Tail(backlog) /\ open' = open \cup {Head(backlog)}
        /\ threads' = ReapFinishedThreads
     \/ /\ ~listening /\ serve' = [serve EXCEPT !.at = "stop"]
        /\ UNCHANGED <<backlog, open, threads>>
  /\ UNCHANGED <<process, shutdown, shutting_down, listening, sockets, session_counter,
                 session, peers>>

\* The socket enters its table and the thread starts; the thread enters its own table later.
Spawn ==
  /\ alive /\ serve.at = "spawn" /\ serve' = [serve EXCEPT !.at = "register"]
  /\ sockets' = sockets \cup serve.socket
  /\ session' = [c \in Connections |-> IF c \in serve.socket
                                       THEN [NoSession EXCEPT !.at = "hello"] ELSE session[c]]
  /\ UNCHANGED <<process, shutdown, shutting_down, listener, threads, session_counter, open,
                 peers>>
RegisterThread ==
  /\ alive /\ serve.at = "register" /\ serve' = [at |-> "accept", socket |-> {}]
  /\ threads' = threads \cup serve.socket
  /\ UNCHANGED <<process, shutdown, shutting_down, listener, sockets, session_counter,
                 session, open, peers>>

Serve == Accept \/ Spawn \/ RegisterThread

-----------------------------------------------------------------------------
(* request_shutdown(), by the serving thread when its loop is over and by others.  Steps     *)
(* that no other thread can tell from one are one step: the flag and the listener, the       *)
(* sockets of the copy, the threads that are joined.                                         *)

At(k, place) == alive /\ shutdown[k].at = place
Move(k, place) == shutdown' = [shutdown EXCEPT ![k].at = place]

\* Mutant: the flag alone is to stop the accept loop.
FlagOnly(k) ==
  /\ At(k, "idle") /\ (IF k = "serve" THEN serve.at = "stop" ELSE k \in scenario.stoppers)
  /\ shutting_down' = TRUE /\ Move(k, "copy")
  /\ UNCHANGED <<process, serve, listener, sockets, threads, session_counter, session, open,
                 peers>>

\* The flag is set and the listener closed; connections not accepted yet are reset.
CloseListener(k) ==
  /\ At(k, "idle") /\ (IF k = "serve" THEN serve.at = "stop" ELSE k \in scenario.stoppers)
  /\ shutting_down' = TRUE /\ listening' = FALSE /\ backlog' = <<>> /\ Move(k, "copy")
  /\ UNCHANGED <<process, serve, sockets, threads, session_counter, session, open, peers>>

CopySockets(k) ==
  /\ At(k, "copy") /\ shutdown' = [shutdown EXCEPT ![k].at = "close", ![k].copied = sockets]
  /\ UNCHANGED <<process, serve, shutting_down, listener, sockets, threads, session_counter,
                 session, open, peers>>

CloseSockets(k) ==
  /\ At(k, "close") /\ open' = open \ shutdown[k].copied
  /\ toServer' = [c \in Connections |-> IF c \in open' THEN toServer[c] ELSE <<>>]
  /\ shutdown' = [shutdown EXCEPT ![k].at = "take", ![k].copied = {}]
  /\ UNCHANGED <<process, serve, shutting_down, listener, sockets, threads, session_counter,
                 session, client, toClient, handled>>

\* Mutant: only the threads that have ended are taken out and joined.
TakenWhenEnded == {c \in threads : Ended(c)}

\* The thread table is emptied into a local one.
Taken == threads

TakeThreads(k) ==
  /\ At(k, "take") /\ threads' = {}
  /\ shutdown' = [shutdown EXCEPT ![k].at = "join", ![k].pending = Taken]
  /\ UNCHANGED <<process, serve, shutting_down, listener, sockets, session_counter, session,
                 open, peers>>

\* Every thread taken is joined, then the socket table is cleared.
Join(k) ==
  /\ At(k, "join") /\ \A c \in shutdown[k].pending : Ended(c)
  /\ sockets' = {} /\ shutdown' = [shutdown EXCEPT ![k].at = "done", ![k].pending = {}]
  /\ UNCHANGED <<process, serve, shutting_down, listener, threads, session_counter, session,
                 open, peers>>

RequestShutdown(k) ==
  CloseListener(k) \/ CopySockets(k) \/ CloseSockets(k) \/ TakeThreads(k) \/ Join(k)
Returned(k) == shutdown[k].at = "done"

-----------------------------------------------------------------------------
(* run_session *)

Running(c, place) == alive /\ session[c].at = place
Goto(c, place) == session' = [session EXCEPT ![c].at = place]
Closed(c) == client[c].at = "closed"

\* Socket::write_all.  A peer that has gone may or may not be noticed by the write.
Reply(c, frame) ==
  toClient' = IF c \in open /\ ~Closed(c) THEN [toClient EXCEPT ![c] = @ \o Sound(frame)]
              ELSE toClient
WriteMayFail(c) == c \notin open \/ Closed(c)
WriteMaySucceed(c) == c \in open

HelloAck(id, verdict) ==
  [type |-> "HelloAck", session |-> id, sequence |-> 0, epoch |-> epoch, payload |-> verdict]

\* Mutant: a refusal keeps the code a response starts with.
ResponseOk(request, code) == [request EXCEPT !.type = "Response", !.payload = "ok"]

Response(request, code) == [request EXCEPT !.type = "Response", !.payload = code]

\* read_more: any part of what has arrived, or the end when a side has closed.
ReadMore(c) ==
  /\ \/ Running(c, "hello") /\ NextOutcome(session[c].stream).status = "NeedMore"
     \/ Running(c, "read")
  /\ \/ /\ c \in open /\ toServer[c] # <<>>
        /\ \E n \in 1..Len(toServer[c]) :
             LET fed == Feed(session[c].stream, SubSeq(toServer[c], 1, n))
             IN /\ toServer' = [toServer EXCEPT ![c] = SubSeq(@, n + 1, Len(@))]
                /\ session' = [session EXCEPT ![c].stream = fed,
                     ![c].at = IF fed.poisoned THEN "close" ELSE IF @ = "read" THEN "loop" ELSE @]
     \/ (c \notin open \/ Closed(c)) /\ Goto(c, "close") /\ UNCHANGED toServer
  /\ UNCHANGED <<process, serve, shutdown, shutting_down, listener, sockets, threads,
                 session_counter, open, client, toClient, handled>>

\* The first frame must be a hello that can be decoded and carries the token; a hello that
\* cannot be decoded gets no answer.
Handshake(c) ==
  LET outcome == NextOutcome(session[c].stream)
      greeted == outcome.status = "Complete" /\ outcome.frame.type = "Hello"
  IN /\ Running(c, "hello") /\ outcome.status # "NeedMore"
     /\ session' = [session EXCEPT ![c].stream = AfterNext(@),
          ![c].at = IF greeted /\ outcome.frame.payload = "token" THEN "admit" ELSE "close"]
     /\ IF greeted /\ outcome.frame.payload # "wrong token" THEN UNCHANGED toClient
        ELSE Reply(c, HelloAck(0, "refused"))
     /\ UNCHANGED <<process, serve, shutdown, shutting_down, listener, sockets, threads,
                    session_counter, open, client, toServer, handled>>

\* Mutant: the session does not count itself.
TableHasMoreRoom == Cardinality(sockets) <= MaxSessions

\* The table already holds this connection, and every one that is not a session yet.
TableHasRoom == Cardinality(sockets) < MaxSessions

Admit(c) ==
  /\ Running(c, "admit")
  /\ \/ TableHasRoom /\ Goto(c, "welcome") /\ UNCHANGED toClient
     \/ ~TableHasRoom /\ Goto(c, "close") /\ Reply(c, HelloAck(0, "refused"))
  /\ UNCHANGED <<process, serve, shutdown, shutting_down, listener, sockets, threads,
                 session_counter, open, client, toServer, handled>>

\* Mutant: the id goes to the client and is not kept.
WelcomeUnnumbered(c) ==
  /\ Running(c, "welcome") /\ session_counter' = session_counter + 1
  /\ Goto(c, "loop") /\ Reply(c, HelloAck(session_counter', "accepted"))
  /\ UNCHANGED <<process, serve, shutdown, shutting_down, listener, sockets, threads,
                 open, client, toServer, handled>>

Welcome(c) ==
  /\ Running(c, "welcome") /\ session_counter' = session_counter + 1
  /\ \/ WriteMaySucceed(c) /\ session' = [session EXCEPT ![c].at = "loop", ![c].id = session_counter']
     \/ WriteMayFail(c) /\ Goto(c, "close")
  /\ Reply(c, HelloAck(session_counter', "accepted"))
  /\ UNCHANGED <<process, serve, shutdown, shutting_down, listener, sockets, threads,
                 open, client, toServer, handled>>

\* Mutant: the epoch of the frame is not looked at.
RequestStandsInAnyEpoch(c, frame) ==
  /\ frame.type = "Request" /\ frame.session = session[c].id
  /\ session[c].last < frame.sequence
  /\ frame.payload \in Operations

\* What a frame has to be to reach the runtime: a request of this session, in sequence, of
\* this epoch, that can be decoded.
RequestStands(c, frame) ==
  /\ frame.type = "Request" /\ frame.session = session[c].id
  /\ session[c].last < frame.sequence /\ frame.epoch = epoch
  /\ frame.payload \in Operations

\* The top of the request loop.  Anything that is not a request in good order is answered
\* with an error and ends the session.
LoopTop(c) ==
  LET outcome == NextOutcome(session[c].stream)
      stands == outcome.status = "Complete" /\ RequestStands(c, outcome.frame)
      refused == IF outcome.status = "Complete" THEN outcome.frame
                 ELSE [type |-> "Request", session |-> session[c].id,
                       sequence |-> session[c].last, epoch |-> 0, payload |-> "none"]
  IN /\ Running(c, "loop")
     /\ \/ shutting_down /\ Goto(c, "close") /\ UNCHANGED toClient
        \/ ~shutting_down /\ outcome.status = "NeedMore" /\ Goto(c, "read") /\ UNCHANGED toClient
        \/ /\ ~shutting_down /\ stands
           /\ session' = [session EXCEPT ![c].stream = AfterNext(@), ![c].at = "dispatch",
                ![c].request = <<outcome.frame>>, ![c].last = outcome.frame.sequence]
           /\ UNCHANGED toClient
        \/ /\ ~shutting_down /\ outcome.status # "NeedMore" /\ ~stands
           /\ session' = [session EXCEPT ![c].stream = AfterNext(@), ![c].at = "close"]
           /\ Reply(c, Response(refused, "error"))
     /\ UNCHANGED <<process, serve, shutdown, shutting_down, listener, sockets, threads,
                    session_counter, open, client, toServer, handled>>

\* dispatch: one operation of the runtime, which does it or refuses it.
Dispatch(c) ==
  /\ Running(c, "dispatch")
  /\ \E code \in {"ok", "refused"} :
       /\ session' = [session EXCEPT ![c].at = "answer", ![c].request = <<@[1], code>>]
       /\ handled' = [handled EXCEPT ![c] = Append(@, [frame |-> session[c].request[1],
                                                      epoch |-> epoch, code |-> code])]
  /\ UNCHANGED <<process, serve, shutdown, shutting_down, listener, sockets, threads,
                 session_counter, open, client, toServer, toClient>>

\* send_response.  The Shutdown operation ends its own session and nothing else.
Answer(c) ==
  LET request == session[c].request[1]
  IN /\ Running(c, "answer") /\ Reply(c, Response(request, session[c].request[2]))
     /\ session' = [session EXCEPT ![c].request = <<>>,
                    ![c].at = IF request.payload = "shutdown" THEN "close" ELSE "loop"]
     /\ UNCHANGED <<process, serve, shutdown, shutting_down, listener, sockets, threads,
                    session_counter, open, client, toServer, handled>>

\* Mutant: the thread ends without shutting its socket down.
LeaveOpen(c) == /\ Running(c, "close") /\ Goto(c, "erase")
                /\ UNCHANGED <<process, serve, shutdown, shutting_down, listener, sockets, threads,
                               session_counter, open, peers>>

\* The end of run_session, then of the thread: the socket leaves the table.
CloseSocket(c) ==
  /\ Running(c, "close") /\ open' = open \ {c}
  /\ toServer' = [toServer EXCEPT ![c] = <<>>]
  /\ session' = [session EXCEPT ![c] = [NoSession EXCEPT !.at = "erase"]]
  /\ UNCHANGED <<process, serve, shutdown, shutting_down, listener, sockets, threads,
                 session_counter, client, toClient, handled>>
EraseSocket(c) ==
  /\ Running(c, "erase") /\ sockets' = sockets \ {c} /\ Goto(c, "end")
  /\ UNCHANGED <<process, serve, shutdown, shutting_down, listener, threads, session_counter,
                 open, peers>>

SessionThread(c) ==
  \/ ReadMore(c) \/ Handshake(c) \/ Admit(c) \/ Welcome(c) \/ LoopTop(c)
  \/ Dispatch(c) \/ Answer(c) \/ CloseSocket(c) \/ EraseSocket(c)

-----------------------------------------------------------------------------
(* The clients. *)

Become(c, place) == client' = [client EXCEPT ![c].at = place]
Leave(c) == client' = [client EXCEPT ![c].at = "closed", ![c].stream = NewStream]
ServerHolds(c) == c \in open \/ \E i \in DOMAIN backlog : backlog[i] = c
Send(c, units) ==
  toServer' = IF ServerHolds(c) THEN [toServer EXCEPT ![c] = @ \o units] ELSE toServer

Connect(c) ==
  /\ client[c].at = "new"
  /\ \/ listening /\ backlog' = Append(backlog, c) /\ Become(c, "connected")
     \/ ~listening /\ Become(c, "closed") /\ UNCHANGED backlog
  /\ UNCHANGED <<process, serve, shutdown, shutting_down, listening, sockets, threads,
                 session_counter, session, open, toServer, toClient, handled>>

\* What a client may send first: its hello, one that is refused, or bytes that are no hello.
Hello(payload) ==
  [type |-> "Hello", session |-> 0, sequence |-> 0, epoch |-> 0, payload |-> payload]
Greetings ==
  {Sound(Hello(p)) : p \in {"token", "wrong token", "undecodable"}}
    \cup {Sound([Hello("token") EXCEPT !.type = "Request"]),
          EncodeFrame(Hello("token"), "Oversized", "Complete")}
Greet(c) ==
  /\ client[c].at = "connected" /\ Become(c, "greeting")
  /\ \E units \in IF c \in scenario.strays THEN Greetings ELSE {Sound(Hello("token"))} : Send(c, units)
  /\ UNCHANGED <<process, serve, shutdown, shutting_down, listener, sockets, threads,
                 session_counter, session, open, toClient, handled>>

\* CoordinatorClient::call under the handshake of connection d.
Request(d, sequence, operation) ==
  [type |-> "Request", session |-> client[d].id, sequence |-> sequence,
   epoch |-> client[d].epoch, payload |-> operation, by |-> d]

\* A call in good order.
Call(c) ==
  /\ client[c].at = "ready" /\ client[c].sequence < scenario.calls
  /\ client' = [client EXCEPT ![c].at = "calling", ![c].sequence = @ + 1]
  /\ \E operation \in Operations :
       Send(c, Sound(Request(c, client[c].sequence + 1, operation)))
  /\ UNCHANGED <<process, serve, shutdown, shutting_down, listener, sockets, threads,
                 session_counter, session, open, toClient, handled>>

\* A frame that should not get through: the last one again, one made under the handshake of
\* another connection, an operation outside the domain, damaged bytes, not a request.
Strays(c) ==
  {Sound(Request(c, client[c].sequence, "operate")),
   Sound(Request(c, scenario.calls + 1, "unknown")),
   Sound([Request(c, scenario.calls + 1, "operate") EXCEPT !.type = "Goodbye"]),
   EncodeFrame(Request(c, scenario.calls + 1, "operate"), "Complete", "Corrupt")}
    \cup {Sound(Request(d, scenario.calls, "operate")) :
             d \in {d \in Connections \ {c} : client[d].id # 0}}
Stray(c) ==
  /\ c \in scenario.strays /\ client[c].at = "ready" /\ Become(c, "calling")
  /\ \E units \in Strays(c) : Send(c, units)
  /\ UNCHANGED <<process, serve, shutdown, shutting_down, listener, sockets, threads,
                 session_counter, session, open, toClient, handled>>

\* What call() accepts as the answer to its request.
IsAnswer(c, frame) ==
  /\ frame.type = "Response" /\ frame.session = client[c].id
  /\ frame.sequence = client[c].sequence

\* The read loops of connect() and call().  call() leaves the connection open whatever came.
Receive(c) ==
  LET fed == Feed(client[c].stream, toClient[c])
      outcome == NextOutcome(fed)
      complete == outcome.status = "Complete"
  IN /\ client[c].at \in {"greeting", "calling"}
     /\ \/ /\ toClient[c] # <<>> /\ toClient' = [toClient EXCEPT ![c] = <<>>]
           /\ \/ /\ client[c].at = "greeting"
                 /\ LET in == complete /\ outcome.frame.type = "HelloAck"
                             /\ outcome.frame.payload = "accepted"
                    IN client' = [client EXCEPT ![c].stream = AfterNext(fed),
                         ![c].at = IF in THEN "ready" ELSE "closed",
                         ![c].id = IF in THEN outcome.frame.session ELSE @,
                         ![c].epoch = IF in THEN outcome.frame.epoch ELSE @]
              \/ /\ client[c].at = "calling"
                 /\ LET ok == complete /\ IsAnswer(c, outcome.frame) /\ outcome.frame.payload = "ok"
                    IN client' = [client EXCEPT ![c].stream = AfterNext(fed), ![c].at = "ready",
                         ![c].acked = IF ok THEN @ \cup {client[c].sequence} ELSE @]
        \/ toClient[c] = <<>> /\ ~ServerHolds(c) /\ Leave(c) /\ UNCHANGED toClient
     /\ UNCHANGED <<process, serve, shutdown, shutting_down, listener, sockets, threads,
                    session_counter, session, open, toServer, handled>>

\* close(), between calls.
Close(c) ==
  /\ client[c].at \in {"connected", "ready"} /\ Leave(c)
  /\ toClient' = [toClient EXCEPT ![c] = <<>>]
  /\ UNCHANGED <<process, serve, shutdown, shutting_down, listener, sockets, threads,
                 session_counter, session, open, toServer, handled>>

\* The client process dies in the middle of a handshake or a call.
Die(c) ==
  /\ client[c].at \in {"greeting", "calling"} /\ Leave(c)
  /\ toClient' = [toClient EXCEPT ![c] = <<>>]
  /\ UNCHANGED <<process, serve, shutdown, shutting_down, listener, sockets, threads,
                 session_counter, session, open, toServer, handled>>

-----------------------------------------------------------------------------
\* The steps of threads that are running: the server's, a stopper's that has begun, and a
\* client's that waits for an answer.
ThreadStep ==
  \/ Serve
  \/ \E k \in Callers : RequestShutdown(k) /\ (k = "serve" \/ shutdown[k].at # "idle")
  \/ \E c \in Connections : SessionThread(c) \/ Receive(c)

Next ==
  \/ Start \/ Kill \/ Serve
  \/ \E k \in Callers : RequestShutdown(k)
  \/ \E c \in Connections :
       \/ SessionThread(c)
       \/ Connect(c) \/ Greet(c) \/ Call(c) \/ Stray(c) \/ Receive(c) \/ Close(c) \/ Die(c)

\* While some thread can go on, one does.  Nothing more is asked of the scheduler: every
\* connection and every thread takes finitely many steps, so each gets its turn.
Spec == Init /\ [][Next]_vars /\ WF_vars(ThreadStep)

\* Clients, moreover, end: one that is not waiting for an answer closes some day.
SpecWithEndingClients ==
  Init /\ [][Next]_vars /\ WF_vars(ThreadStep \/ \E c \in Connections : Close(c))

-----------------------------------------------------------------------------
(* What is claimed. *)

SessionPlaces == {"none", "hello", "read", "admit", "welcome", "loop", "dispatch", "answer",
                  "close", "erase", "end"}

\* Types, and what belongs together: a thread that serves requests has a session id.
TypeOK ==
  /\ epoch \in 0..scenario.boots /\ alive \in BOOLEAN
  /\ shutting_down \in BOOLEAN /\ listening \in BOOLEAN
  /\ sockets \subseteq Connections /\ threads \subseteq Connections /\ open \subseteq Connections
  /\ session_counter \in Nat
  /\ \A c \in Connections :
       /\ session[c].at \in SessionPlaces
       /\ session[c].at \in {"loop", "read", "dispatch", "answer"} => session[c].id # 0
       /\ session[c].id <= session_counter

\* A request reaches the runtime only on the connection whose client made it, in the
\* incarnation it was made for, once and in the order of the calls: not when it is sent again,
\* not on another connection, and not after a restart that gave the same session id again
\* (the checks of run_session, server.cpp:599-621).
OwnRequestsOnce ==
  \A c \in Connections :
    /\ \A i \in DOMAIN handled[c] :
         LET done == handled[c][i]
         IN done.frame.by = c /\ done.frame.epoch = done.epoch /\ done.frame.epoch = client[c].epoch
    /\ \A i, j \in DOMAIN handled[c] :
         i < j => handled[c][i].frame.sequence < handled[c][j].frame.sequence

\* A client that was told "ok" for a call had that very call done (client.cpp:131-147),
\* whatever else was sent on its connection and whenever the server died.
AcknowledgedWasDone ==
  \A c \in Connections : \A n \in client[c].acked :
    \E i \in DOMAIN handled[c] : handled[c][i].frame.sequence = n /\ handled[c][i].code = "ok"

Established(c) == session[c].at \in {"loop", "read", "dispatch", "answer"}

\* A session that waits for a request or serves one.
Serving(c) == session[c].at \in {"read", "dispatch", "answer"}

\* There are fewer than max_sessions sessions, and not just at most so many: a connection
\* stands in the table when its own admission is decided (server.cpp:545).  A shutdown empties
\* the table while threads are still deciding; those it lets in past the limit find the flag
\* at the top of their loop, so the bound on the sessions that serve stands even then.
SessionLimit ==
  /\ Cardinality({c \in Connections : Serving(c)}) < MaxSessions
  /\ ~shutting_down => Cardinality({c \in Connections : Established(c) \/ session[c].at = "welcome"})
                         < MaxSessions

\* A stream is poisoned by damaged bytes only: the frames of a client that waits for its
\* answers pass the bound on buffered bytes however the network cuts them (frame.cpp:266).
GoodFramesPass ==
  \A c \in Connections :
    (session[c].stream.poisoned \/ client[c].stream.poisoned)
      => \E i \in DOMAIN session[c].stream.buffer :
           session[c].stream.buffer[i].verdict # "Complete"

\* No session thread is lost: while it runs it is in the table, in the hands of a thread that
\* joins it, or about to be registered, whatever accept loop and shutdown do to the table.
NoThreadLost ==
  alive => \A c \in Connections :
    session[c].at \notin {"none", "end"} =>
      \/ c \in threads
      \/ \E k \in Callers : c \in shutdown[k].pending
      \/ serve.at = "register" /\ c \in serve.socket

\* When everybody who asked for the shutdown, the serving thread included, is back, no session
\* runs and the table is empty: the last check of the test that stops a server from a
\* second thread (tests/concurrency/locks_and_lifecycle.cpp:322).
QuietAfterShutdown ==
  alive /\ (\A k \in {"serve"} \cup scenario.stoppers : Returned(k)) =>
    /\ \A c \in Connections : session[c].at \in {"none", "end"}
    /\ sockets = {}

\* Clients that wait get their answers or see their connections end, until none is waiting:
\* connect() and call() have no timeout, so every path of run_session has to answer or to
\* close, and a connection that is never accepted has to be reset.
Waiting(c) == client[c].at \in {"greeting", "calling"}
CallsEnd == (\E c \in Connections : Waiting(c)) ~> (\A c \in Connections : ~Waiting(c))

\* Once a shutdown is asked for serve() returns (server.hpp:57), unless the process is killed.
ShutdownEnds == shutting_down ~> Returned("serve") \/ ~alive
=============================================================================
