-------------------------- MODULE ServerWireProofs --------------------------
(***************************************************************************)
(* Proofs about what crosses the connections of the coordinator's server:  *)
(* whose requests reach the runtime, what an acknowledgement stands for,   *)
(* and that no frame in good order poisons a stream.                       *)
(***************************************************************************)
EXTENDS ServerProofs

-----------------------------------------------------------------------------
(* A connection is accepted once *)

\* A connection waits in the backlog once, from its connect() to its thread's start, and has
\* no history before.
Untouched(c) == client[c].at # "new" /\ session[c].at = "none" /\ handled[c] = <<>>
AcceptedOnce ==
  /\ \A i \in 1..Len(backlog) : Untouched(backlog[i]) /\ backlog[i] \notin serve.socket
  /\ \A i, j \in 1..Len(backlog) : backlog[i] = backlog[j] => i = j
  /\ \A c \in serve.socket : client[c].at # "new" /\ (serve.at = "spawn" => Untouched(c))
  /\ \A c \in Connections :
       /\ client[c].at = "new" => session[c].at = "none" /\ handled[c] = <<>>
       /\ session[c].at = "none" => session[c] = NoSession

-----------------------------------------------------------------------------
(* Whose frame it is *)

\* Session id and epoch stand for connection c: while that epoch lasts, no other connection
\* has the id and the counter is past it.
Names(c, id, e) ==
  /\ id # 0 /\ e <= epoch
  /\ alive /\ e = epoch => id <= session_counter /\ \A d \in Connections : session[d].id = id => d = c

\* A frame that asks for an operation carries what its maker was told in the handshake.
Genuine(f) ==
  f.payload \in Operations => /\ f \in CallFrame /\ f.session # 0
                              /\ f.session = client[f.by].id /\ f.epoch = client[f.by].epoch
GenuineUnit == {u \in Unit : Genuine(u.frame)}

\* The runtime did call n of connection c and said ok.
WasDone(c, n) == \E i \in 1..Len(handled[c]) :
                   handled[c][i].frame.sequence = n /\ handled[c][i].code = "ok"

\* A frame for the client of c: a grant that names c, or an answer to something done.
Owed(c, f) ==
  /\ f.type = "HelloAck" /\ f.payload = "accepted" => Names(c, f.session, f.epoch)
  /\ f.type = "Response" /\ f.payload = "ok" => WasDone(c, f.sequence)
OwedUnit(c) == {u \in Unit : u.verdict = "Complete" /\ Owed(c, u.frame)}

Before(c) == client[c].at \in {"new", "connected", "greeting"}
Contents(c) ==
  /\ toServer[c] \in Seq(GenuineUnit) /\ session[c].stream.buffer \in Seq(GenuineUnit)
  /\ toClient[c] \in Seq(OwedUnit(c)) /\ client[c].stream.buffer \in Seq(OwedUnit(c))
ClientInOrder(c) ==
  /\ Before(c) => client[c].id = 0 /\ client[c].stream = NewStream
  /\ client[c].at \in {"ready", "calling"} => client[c].id # 0
  /\ client[c].id # 0 => Names(c, client[c].id, client[c].epoch)
  /\ \A n \in client[c].acked : WasDone(c, n)
WireContents == \A c \in Connections : Contents(c) /\ ClientInOrder(c)

\* A frame that was let through on c was made by the client of c in this epoch.
Own(c, f, e) == /\ f \in CallFrame /\ f.by = c /\ f.epoch = e
                /\ e = client[c].epoch /\ client[c].id # 0
SequencesUpTo(c, n) == \A i \in 1..Len(handled[c]) : handled[c][i].frame.sequence <= n
HandledUpTo(c) ==
  /\ session[c].at \in {"hello", "admit", "welcome"} => handled[c] = <<>>
  /\ session[c].at \in {"loop", "read", "answer"} => SequencesUpTo(c, session[c].last)
  /\ session[c].at = "dispatch" =>
       /\ Own(c, session[c].request[1], epoch)
       /\ session[c].request[1].sequence = session[c].last
       /\ \A i \in 1..Len(handled[c]) : handled[c][i].frame.sequence < session[c].last
  /\ session[c].at = "answer" /\ session[c].request[2] = "ok" =>
       WasDone(c, session[c].request[1].sequence)
History(c) ==
  /\ \A i \in 1..Len(handled[c]) : Own(c, handled[c][i].frame, handled[c][i].epoch)
  /\ \A i, j \in 1..Len(handled[c]) :
       i < j => handled[c][i].frame.sequence < handled[c][j].frame.sequence
HandledInOrder == \A c \in Connections : HandledUpTo(c) /\ History(c)

WireInvariant == LifeInvariant /\ AcceptedOnce /\ WireContents /\ HandledInOrder

-----------------------------------------------------------------------------
(* One frame at a time *)

\* Units on their way to the server or in its stream, not consumed yet.
Held(c) == Len(toServer[c]) + Len(Remaining(session[c].stream))
Busy(c) == session[c].at \in {"admit", "welcome", "dispatch", "answer"}
Over(c) == session[c].at \in {"close", "erase", "end"}

\* A client sends one frame and waits; until it is answered the server has it, holds nothing
\* else, and sends nothing else.  Only a damaged unit poisons a stream.
Damaged(c) == \E i \in 1..Len(session[c].stream.buffer) :
                session[c].stream.buffer[i].verdict # "Complete"
OneFrameOf(c) ==
  /\ ~Over(c) => Held(c) <= 2
  /\ Busy(c) => Held(c) = 0 /\ toClient[c] = <<>>
  /\ toClient[c] # <<>> => /\ Len(toClient[c]) = 2 /\ client[c].at \in {"greeting", "calling"}
                           /\ ~Over(c) => Held(c) = 0
  /\ client[c].at \in {"new", "connected", "ready"} => ~Busy(c) /\ (~Over(c) => Held(c) = 0)
  /\ ~client[c].stream.poisoned /\ Len(Remaining(client[c].stream)) = 0
  /\ session[c].stream.poisoned => session[c].at = "close" /\ Damaged(c)
OneFrame == \A c \in Connections : OneFrameOf(c)

-----------------------------------------------------------------------------
(* Sequences *)

LEMMA SeqMonotone ==
  ASSUME NEW S, NEW T, S \subseteq T, NEW s \in Seq(S)
  PROVE  s \in Seq(T)
<1>1. Len(s) \in Nat /\ s \in [1..Len(s) -> S]
  BY LenProperties
<1>2. s \in [1..Len(s) -> T]
  BY <1>1
<1> QED
  BY <1>1, <1>2, SeqDef

\* A part of a sequence has its elements.
LEMMA PartOf ==
  ASSUME NEW S, NEW s \in Seq(S), NEW n \in 1..Len(s)
  PROVE  /\ SubSeq(s, 1, n) \in Seq(S) /\ Len(SubSeq(s, 1, n)) = n
         /\ SubSeq(s, n + 1, Len(s)) \in Seq(S) /\ Len(SubSeq(s, n + 1, Len(s))) = Len(s) - n
<1>1. Len(s) \in Nat /\ n \in Nat
  BY LenProperties
<1>2. \A i \in 1..Len(s) : s[i] \in S
  BY ElementOfSeq
<1>3. (\A i \in 1..n : s[i] \in S) /\ (\A i \in (n + 1)..Len(s) : s[i] \in S)
  BY <1>1, <1>2
<1> QED
  BY <1>1, <1>3, SubSeqProperties

\* What is left of a stream's buffer has the buffer's units.
LEMMA RemainingOf ==
  ASSUME NEW G, NEW s \in Stream, s.buffer \in Seq(G)
  PROVE  Remaining(s) \in Seq(G)
<1>1. PICK b \in Seq(G), o \in Nat : s.buffer = b /\ s.offset = o /\ o <= Len(b)
  BY DEF Stream
<1>2. Len(b) \in Nat
  BY LenProperties
<1>3. \A i \in (o + 1)..Len(b) : b[i] \in G
  BY <1>2, ElementOfSeq
<1>4. SubSeq(b, o + 1, Len(b)) \in Seq(G)
  BY <1>1, <1>2, <1>3, SubSeqProperties
<1> QED
  BY <1>1, <1>4 DEF Remaining

\* A stream that is fed holds nothing but what it held and what it was fed.
LEMMA FeedOf ==
  ASSUME NEW G, NEW s \in Stream, s.buffer \in Seq(G), NEW u \in Seq(Unit), u \in Seq(G)
  PROVE  Feed(s, u).buffer \in Seq(G)
<1>1. Remaining(s) \in Seq(G)
  BY RemainingOf
<1>2. Remaining(s) \o u \in Seq(G)
  BY <1>1, ConcatProperties
<1>3. s.poisoned \in BOOLEAN
  BY DEF Stream
<1> QED
  BY <1>1, <1>2, <1>3, FeedType

\* The frame next() returns is one of the buffer's.
LEMMA OutcomeOf ==
  ASSUME NEW G, NEW s \in Stream, s.buffer \in Seq(G), NextOutcome(s).status = "Complete"
  PROVE  \E u \in G : NextOutcome(s).frame = u.frame
<1>1. Remaining(s) \in Seq(G) /\ Len(Remaining(s)) >= 2 /\ NextOutcome(s).frame = Remaining(s)[1].frame
  BY RemainingOf, OutcomeType
<1>2. Remaining(s)[1] \in G
  <2>1. Len(Remaining(s)) \in Nat /\ 1 \in 1..Len(Remaining(s))
    BY <1>1, LenProperties
  <2> QED
    BY <1>1, <2>1, ElementOfSeq
<1> QED
  BY <1>1, <1>2

-----------------------------------------------------------------------------
(* What stays true of a name, an answer and a frame *)

\* Ids are handed out upwards within an epoch, so a name keeps standing for its connection.
LEMMA NamesKept ==
  ASSUME Types, Types', epoch <= epoch',
         alive' => \/ epoch < epoch'
                   \/ /\ alive /\ session_counter <= session_counter'
                      /\ \A d \in Connections : \/ session'[d].id \in {session[d].id, 0}
                                                \/ session'[d].id > session_counter
  PROVE  \A c \in Connections : \A id, e \in Nat : Names(c, id, e) => Names(c, id, e)'
<1> SUFFICES ASSUME NEW c \in Connections, NEW id \in Nat, NEW e \in Nat, Names(c, id, e)
             PROVE  Names(c, id, e)'
  OBVIOUS
<1>1. epoch \in Nat /\ epoch' \in Nat /\ session_counter \in Nat /\ session_counter' \in Nat
  BY ServerAssumption DEF Types, ProcessType, SessionsType
<1>2. \A d \in Connections : session[d].id \in Nat /\ session'[d].id \in Nat
  BY DEF Types, SessionsType, SessionRecord
<1>3. id # 0 /\ e <= epoch
  BY DEF Names
<1>4. e <= epoch'
  BY <1>1, <1>3
<1>5. ASSUME alive', e = epoch'
      PROVE  id <= session_counter' /\ \A d \in Connections : session'[d].id = id => d = c
  <2>1. alive /\ session_counter <= session_counter' /\ e = epoch
        /\ \A d \in Connections : \/ session'[d].id \in {session[d].id, 0}
                                  \/ session'[d].id > session_counter
    BY <1>1, <1>3, <1>5
  <2>2. id <= session_counter /\ \A d \in Connections : session[d].id = id => d = c
    BY <2>1 DEF Names
  <2>3. id <= session_counter'
    BY <1>1, <2>1, <2>2
  <2>4. ASSUME NEW d \in Connections, session'[d].id = id PROVE d = c
    <3>1. session'[d].id = session[d].id
      BY <1>1, <1>2, <1>3, <2>1, <2>2, <2>4
    <3> QED
      BY <2>2, <2>4, <3>1
  <2> QED
    BY <2>3, <2>4
<1> QED
  BY <1>3, <1>4, <1>5 DEF Names

\* What was done stays done.
LEMMA DoneKept ==
  ASSUME Types, NEW c \in Connections, NEW h \in Done,
         handled'[c] = handled[c] \/ handled'[c] = Append(handled[c], h)
  PROVE  /\ \A n : WasDone(c, n) => WasDone(c, n)'
         /\ \A i \in 1..Len(handled[c]) : i \in 1..Len(handled'[c]) /\ handled'[c][i] = handled[c][i]
<1>1. handled[c] \in Seq(Done) /\ Len(handled[c]) \in Nat
  BY LenProperties DEF Types, PeersType
<1>2. \A i \in 1..Len(handled[c]) : i \in 1..Len(handled'[c]) /\ handled'[c][i] = handled[c][i]
  <2>1. CASE handled'[c] = handled[c]
    BY <2>1
  <2>2. CASE handled'[c] = Append(handled[c], h)
    BY <1>1, <2>2, AppendProperties
  <2> QED
    BY <2>1, <2>2
<1> QED
  BY <1>2 DEF WasDone

\* What a session thread does to the ids and to the history.
LEMMA SessionIds ==
  ASSUME Types, NEW c \in Connections, SessionThread(c)
  PROVE  /\ session_counter <= session_counter'
         /\ \A d \in Connections : \/ session'[d].id \in {session[d].id, 0}
                                   \/ session'[d].id > session_counter
         /\ UNCHANGED client
         /\ \/ handled' = handled
            \/ /\ session[c].at = "dispatch"
               /\ \E h \in Done : handled' = [handled EXCEPT ![c] = Append(@, h)]
<1>1. session \in [Connections -> SessionRecord] /\ session[c] \in SessionRecord
      /\ session_counter \in Nat /\ epoch \in Nat
  BY ServerAssumption DEF Types, SessionsType, ProcessType
<1>2. \A d \in Connections : d # c => session'[d] = session[d]
  BY SessionMoves
<1>3. ASSUME NEW p, Goto(c, p) PROVE session'[c].id = session[c].id
  BY <1>1, <1>3 DEF Goto, SessionRecord
<1>4. CASE ReadMore(c)
  <2>1. session_counter' = session_counter /\ UNCHANGED client /\ handled' = handled
    BY <1>4 DEF ReadMore
  <2>2. session'[c].id = session[c].id
    <3>1. CASE Goto(c, "close")
      BY <1>3, <3>1
    <3>2. CASE \E n \in 1..Len(toServer[c]) :
                 LET fed == Feed(session[c].stream, SubSeq(toServer[c], 1, n))
                 IN session' = [session EXCEPT ![c].stream = fed,
                      ![c].at = IF fed.poisoned THEN "close" ELSE IF @ = "read" THEN "loop" ELSE @]
      <4>1. PICK fed : session' = [session EXCEPT ![c].stream = fed,
                      ![c].at = IF fed.poisoned THEN "close" ELSE IF @ = "read" THEN "loop" ELSE @]
        BY <3>2
      <4> QED
        BY <1>1, <4>1 DEF SessionRecord
    <3> QED
      BY <1>4, <3>1, <3>2 DEF ReadMore
  <2> QED
    BY <1>1, <1>2, <2>1, <2>2
<1>5. CASE Handshake(c)
  <2>1. session_counter' = session_counter /\ UNCHANGED client /\ handled' = handled
    BY <1>5 DEF Handshake
  <2>2. PICK p \in {"admit", "close"} :
          session' = [session EXCEPT ![c].stream = AfterNext(@), ![c].at = p]
    BY <1>5 DEF Handshake
  <2>3. session'[c].id = session[c].id
    BY <1>1, <2>2 DEF SessionRecord
  <2> QED
    BY <1>1, <1>2, <2>1, <2>3
<1>6. CASE Admit(c)
  <2>1. session_counter' = session_counter /\ UNCHANGED client /\ handled' = handled
        /\ (Goto(c, "welcome") \/ Goto(c, "close"))
    BY <1>6 DEF Admit
  <2> QED
    BY <1>1, <1>2, <1>3, <2>1
<1>7. CASE Welcome(c)
  <2>1. session_counter' = session_counter + 1 /\ UNCHANGED client /\ handled' = handled
    BY <1>7 DEF Welcome
  <2>2. session'[c].id = session[c].id \/ session'[c].id = session_counter + 1
    <3>1. CASE Goto(c, "close")
      BY <1>3, <3>1
    <3>2. CASE session' = [session EXCEPT ![c].at = "loop", ![c].id = session_counter']
      BY <1>1, <2>1, <3>2 DEF SessionRecord
    <3> QED
      BY <1>7, <3>1, <3>2 DEF Welcome
  <2>3. session_counter <= session_counter' /\ session_counter + 1 > session_counter
    BY <1>1, <2>1
  <2>4. ASSUME NEW d \in Connections
        PROVE  session'[d].id \in {session[d].id, 0} \/ session'[d].id > session_counter
    <3>1. CASE session'[d].id = session[d].id
      BY <3>1
    <3>2. CASE session'[d].id = session_counter + 1
      BY <2>3, <3>2
    <3> QED
      BY <1>2, <2>2, <3>1, <3>2
  <2>5. session_counter <= session_counter'
    BY <2>3
  <2>6. UNCHANGED client /\ handled' = handled
    BY <2>1
  <2> QED
    BY <2>4, <2>5, <2>6
<1>8. CASE LoopTop(c)
  <2>1. session_counter' = session_counter /\ UNCHANGED client /\ handled' = handled
    BY <1>8 DEF LoopTop
  <2>2. session'[c].id = session[c].id
    <3>1. CASE Goto(c, "close") \/ Goto(c, "read")
      BY <1>3, <3>1
    <3> DEFINE f == NextOutcome(session[c].stream).frame
    <3>2. CASE session' = [session EXCEPT ![c].stream = AfterNext(@),
                 ![c].at = "dispatch", ![c].request = <<f>>, ![c].last = f.sequence]
      <4> HIDE DEF f
      <4> QED
        BY <1>1, <3>2 DEF SessionRecord
    <3>3. CASE session' = [session EXCEPT ![c].stream = AfterNext(@), ![c].at = "close"]
      BY <1>1, <3>3 DEF SessionRecord
    <3> QED
      BY <1>8, <3>1, <3>2, <3>3 DEF LoopTop
  <2> QED
    BY <1>1, <1>2, <2>1, <2>2
<1>9. CASE Dispatch(c)
  <2>1. session_counter' = session_counter /\ UNCHANGED client /\ session[c].at = "dispatch"
    BY <1>9 DEF Dispatch, Running
  <2>2. PICK code \in {"ok", "refused"} :
          /\ session' = [session EXCEPT ![c].at = "answer", ![c].request = <<@[1], code>>]
          /\ handled' = [handled EXCEPT ![c] = Append(@, [frame |-> session[c].request[1],
                                                         epoch |-> epoch, code |-> code])]
    BY <1>9 DEF Dispatch
  <2>3. session'[c].id = session[c].id
    BY <1>1, <2>2 DEF SessionRecord
  <2>4. session[c].request[1] \in Frame
    <3>1. session[c].request \in Seq(Frame) /\ Len(session[c].request) = 1
      BY <2>1 DEF SessionOK, Types, SessionsType
    <3> QED
      BY <3>1, ElementOfSeq
  <2>5. [frame |-> session[c].request[1], epoch |-> epoch, code |-> code] \in Done
    BY <1>1, <2>4 DEF Done, Codes
  <2>6. \E h \in Done : handled' = [handled EXCEPT ![c] = Append(@, h)]
    BY <2>2, <2>5
  <2>7. session_counter <= session_counter'
    BY <1>1, <2>1
  <2>8. \A d \in Connections : session'[d].id = session[d].id
    BY <1>2, <2>3
  <2> QED
    BY <2>1, <2>6, <2>7, <2>8
<1>10. CASE Answer(c)
  <2>1. session_counter' = session_counter /\ UNCHANGED client /\ handled' = handled
    BY <1>10 DEF Answer
  <2>2. PICK p \in {"close", "loop"} : session' = [session EXCEPT ![c].request = <<>>, ![c].at = p]
    BY <1>10 DEF Answer
  <2>3. session'[c].id = session[c].id
    BY <1>1, <2>2 DEF SessionRecord
  <2> QED
    BY <1>1, <1>2, <2>1, <2>3
<1>11. CASE CloseSocket(c)
  <2>1. session_counter' = session_counter /\ UNCHANGED client /\ handled' = handled
        /\ session'[c].id = 0
    BY <1>1, <1>11 DEF CloseSocket, NoSession
  <2> QED
    BY <1>1, <1>2, <2>1
<1>12. CASE EraseSocket(c)
  <2>1. session_counter' = session_counter /\ UNCHANGED client /\ handled' = handled /\ Goto(c, "end")
    BY <1>12 DEF EraseSocket, peers
  <2> QED
    BY <1>1, <1>2, <1>3, <2>1
<1> QED
  BY <1>4, <1>5, <1>6, <1>7, <1>8, <1>9, <1>10, <1>11, <1>12 DEF SessionThread

\* What a client does to its record: its name is given once, in the handshake.
LEMMA ClientMoves ==
  ASSUME Types, NEW c \in Connections, ClientStep(c)
  PROVE  /\ UNCHANGED <<process, serve, shutdown, shutting_down, listening, sockets, threads,
                        session_counter, session, open, handled>>
         /\ \A d \in Connections : d # c => /\ client'[d] = client[d] /\ toServer'[d] = toServer[d]
                                            /\ toClient'[d] = toClient[d]
         /\ client'[c].at # "new"
         /\ backlog' = backlog \/ (client[c].at = "new" /\ backlog' = Append(backlog, c))
         /\ \/ client'[c].id = client[c].id /\ client'[c].epoch = client[c].epoch
            \/ client[c].at = "greeting"
<1>1. client \in [Connections -> ClientRecord] /\ toServer \in [Connections -> Seq(Unit)]
      /\ toClient \in [Connections -> Seq(Unit)]
  BY DEF Types, PeersType
<1>2. UNCHANGED <<process, serve, shutdown, shutting_down, listening, sockets, threads,
                  session_counter, session, open, handled>>
  BY DEF ClientStep, Connect, Greet, Call, Stray, Receive, Close, Die, listener
<1>3. backlog' = backlog \/ (client[c].at = "new" /\ backlog' = Append(backlog, c))
  BY DEF ClientStep, Connect, Greet, Call, Stray, Receive, Close, Die, listener
<1>4. ASSUME NEW u, Send(c, u) PROVE \A d \in Connections : d # c => toServer'[d] = toServer[d]
  BY <1>1, <1>4 DEF Send
<1>5. ASSUME NEW p, Become(c, p)
      PROVE  /\ client'[c].at = p /\ client'[c].id = client[c].id /\ client'[c].epoch = client[c].epoch
             /\ \A d \in Connections : d # c => client'[d] = client[d]
  BY <1>1, <1>5 DEF Become, ClientRecord
<1>6. ASSUME Leave(c)
      PROVE  /\ client'[c].at = "closed" /\ client'[c].id = client[c].id
             /\ client'[c].epoch = client[c].epoch
             /\ \A d \in Connections : d # c => client'[d] = client[d]
  BY <1>1, <1>6 DEF Leave, ClientRecord
<1>7. CASE Connect(c)
  <2>1. (Become(c, "connected") \/ Become(c, "closed")) /\ toServer' = toServer /\ toClient' = toClient
    BY <1>7 DEF Connect
  <2> QED
    BY <1>2, <1>3, <1>5, <2>1
<1>8. CASE Greet(c)
  <2>1. Become(c, "greeting") /\ toClient' = toClient /\ \E u : Send(c, u)
    BY <1>8 DEF Greet
  <2> QED
    BY <1>2, <1>3, <1>4, <1>5, <2>1
<1>9. CASE Call(c)
  <2>1. /\ client' = [client EXCEPT ![c].at = "calling", ![c].sequence = @ + 1]
        /\ toClient' = toClient /\ \E u : Send(c, u)
    BY <1>9 DEF Call
  <2>2. /\ client'[c].at = "calling" /\ client'[c].id = client[c].id /\ client'[c].epoch = client[c].epoch
        /\ \A d \in Connections : d # c => client'[d] = client[d]
    BY <1>1, <2>1 DEF ClientRecord
  <2> QED
    BY <1>2, <1>3, <1>4, <2>1, <2>2
<1>10. CASE Stray(c)
  <2>1. Become(c, "calling") /\ toClient' = toClient /\ \E u : Send(c, u)
    BY <1>10 DEF Stray
  <2> QED
    BY <1>2, <1>3, <1>4, <1>5, <2>1
<1>11. CASE Receive(c)
  <2>1. toServer' = toServer /\ (toClient' = toClient \/ toClient' = [toClient EXCEPT ![c] = <<>>])
    BY <1>11 DEF Receive
  <2> DEFINE fed == Feed(client[c].stream, toClient[c])
             outcome == NextOutcome(fed)
             in == /\ outcome.status = "Complete" /\ outcome.frame.type = "HelloAck"
                   /\ outcome.frame.payload = "accepted"
             ok == /\ outcome.status = "Complete" /\ IsAnswer(c, outcome.frame)
                   /\ outcome.frame.payload = "ok"
  <2>2. \/ /\ client[c].at = "greeting"
           /\ client' = [client EXCEPT ![c].stream = AfterNext(fed),
                           ![c].at = IF in THEN "ready" ELSE "closed",
                           ![c].id = IF in THEN outcome.frame.session ELSE @,
                           ![c].epoch = IF in THEN outcome.frame.epoch ELSE @]
        \/ client' = [client EXCEPT ![c].stream = AfterNext(fed), ![c].at = "ready",
                        ![c].acked = IF ok THEN @ \cup {client[c].sequence} ELSE @]
        \/ Leave(c)
    BY <1>11, Zenon DEF Receive
  <2> HIDE DEF fed, in, ok
  <2>3. /\ client'[c].at # "new" /\ \A d \in Connections : d # c => client'[d] = client[d]
        /\ \/ client'[c].id = client[c].id /\ client'[c].epoch = client[c].epoch
           \/ client[c].at = "greeting"
    <3>1. CASE client[c].at = "greeting"
               /\ client' = [client EXCEPT ![c].stream = AfterNext(fed),
                           ![c].at = IF in THEN "ready" ELSE "closed",
                           ![c].id = IF in THEN outcome.frame.session ELSE @,
                           ![c].epoch = IF in THEN outcome.frame.epoch ELSE @]
      BY <1>1, <3>1 DEF ClientRecord
    <3>2. CASE client' = [client EXCEPT ![c].stream = AfterNext(fed), ![c].at = "ready",
                        ![c].acked = IF ok THEN @ \cup {client[c].sequence} ELSE @]
      BY <1>1, <3>2 DEF ClientRecord
    <3> QED
      BY <1>6, <2>2, <3>1, <3>2
  <2> QED
    BY <1>1, <1>2, <1>3, <2>1, <2>3
<1>12. CASE Close(c) \/ Die(c)
  <2>1. Leave(c) /\ toServer' = toServer /\ toClient' = [toClient EXCEPT ![c] = <<>>]
    BY <1>12 DEF Close, Die
  <2> QED
    BY <1>1, <1>2, <1>3, <1>6, <2>1
<1> QED
  BY <1>7, <1>8, <1>9, <1>10, <1>11, <1>12 DEF ClientStep

\* No step takes a name, an answer or a frame's maker away.
Remembered ==
  /\ \A c \in Connections : \A id, e \in Nat : Names(c, id, e) => Names(c, id, e)'
  /\ \A c \in Connections : \A n : WasDone(c, n) => WasDone(c, n)'
  /\ \A c \in Connections :
       client[c].id # 0 => client'[c].id = client[c].id /\ client'[c].epoch = client[c].epoch
  /\ \A c \in Connections : \A i \in 1..Len(handled[c]) :
       i \in 1..Len(handled'[c]) /\ handled'[c][i] = handled[c][i]

LEMMA NextRemembers ==
  ASSUME Types, Types', WireContents, Next
  PROVE  Remembered
<1>1. epoch \in Nat /\ session_counter \in Nat /\ session_counter' \in Nat /\ session \in [Connections -> SessionRecord]
  BY ServerAssumption DEF Types, ProcessType, SessionsType
<1>2. ASSUME UNCHANGED <<client, handled>>,
             \A c \in Connections : \A id, e \in Nat : Names(c, id, e) => Names(c, id, e)'
      PROVE  Remembered
  BY <1>2 DEF Remembered, WasDone
<1>3. CASE Start
  <2>1. epoch' = epoch + 1 /\ UNCHANGED <<client, handled>>
    BY <1>3 DEF Start, peers
  <2>2. epoch <= epoch' /\ epoch < epoch'
    BY <1>1, <2>1
  <2> QED
    BY <1>2, <2>1, <2>2, NamesKept
<1>4. CASE Kill
  <2>1. epoch' = epoch /\ ~alive' /\ UNCHANGED <<client, handled>> /\ epoch <= epoch'
    BY <1>1, <1>4 DEF Kill
  <2> QED
    BY <1>2, <2>1, NamesKept
<1>5. CASE Serve \/ \E k \in Callers : RequestShutdown(k)
  <2>1. UNCHANGED <<epoch, alive, session_counter, client, handled>> /\ alive
    BY <1>5 DEF Serve, Accept, Spawn, RegisterThread, RequestShutdown, CloseListener, CopySockets,
                CloseSockets, TakeThreads, Join, At, process, peers
  <2>2. \A d \in Connections : session'[d].id \in {session[d].id, 0}
    <3>1. CASE Spawn
      BY <3>1 DEF Spawn, NoSession
    <3>2. CASE session' = session
      BY <3>2
    <3> QED
      BY <1>5, <3>1, <3>2 DEF Serve, Accept, RegisterThread, RequestShutdown, CloseListener,
                CopySockets, CloseSockets, TakeThreads, Join
  <2>3. epoch <= epoch' /\ session_counter <= session_counter'
    BY <1>1, <2>1
  <2> QED
    BY <1>2, <2>1, <2>2, <2>3, NamesKept
<1>6. ASSUME NEW c \in Connections, SessionThread(c) PROVE Remembered
  <2>1. /\ alive /\ epoch' = epoch /\ session_counter <= session_counter' /\ UNCHANGED client
        /\ \A d \in Connections : \/ session'[d].id \in {session[d].id, 0}
                                  \/ session'[d].id > session_counter
    BY <1>6, SessionMoves, SessionIds DEF process
  <2>2. epoch <= epoch'
    BY <1>1, <2>1
  <2>3. \A d \in Connections : \A id, e \in Nat : Names(d, id, e) => Names(d, id, e)'
    BY <2>1, <2>2, NamesKept
  <2>4. CASE handled' = handled
    BY <1>2, <2>1, <2>3, <2>4
  <2>5. CASE \E h \in Done : handled' = [handled EXCEPT ![c] = Append(@, h)]
    <3>1. PICK h \in Done : handled' = [handled EXCEPT ![c] = Append(@, h)]
      BY <2>5
    <3>2. \A d \in Connections : handled'[d] = handled[d] \/ handled'[d] = Append(handled[d], h)
      BY <3>1 DEF Types, PeersType
    <3>3. /\ \A d \in Connections : \A n : WasDone(d, n) => WasDone(d, n)'
          /\ \A d \in Connections : \A i \in 1..Len(handled[d]) :
               i \in 1..Len(handled'[d]) /\ handled'[d][i] = handled[d][i]
      BY <3>2, DoneKept
    <3> QED
      BY <2>1, <2>3, <3>3 DEF Remembered
  <2> QED
    BY <1>6, <2>4, <2>5, SessionIds
<1>7. ASSUME NEW c \in Connections, ClientStep(c) PROVE Remembered
  <2>1. /\ UNCHANGED <<process, session_counter, session, handled>>
        /\ \A d \in Connections : d # c => client'[d] = client[d]
        /\ \/ client'[c].id = client[c].id /\ client'[c].epoch = client[c].epoch
           \/ client[c].at = "greeting"
    BY <1>7, ClientMoves
  <2>2. \A d \in Connections : \A id, e \in Nat : Names(d, id, e) => Names(d, id, e)'
    BY <2>1 DEF Names, process
  <2>3. client[c].at = "greeting" => client[c].id = 0
    BY DEF WireContents, ClientInOrder, Before
  <2> QED
    BY <2>1, <2>2, <2>3 DEF Remembered, WasDone
<1> QED
  BY <1>3, <1>4, <1>5, <1>6, <1>7 DEF Next, ClientStep

\* Hence what a wire may carry it may carry after every step.
LEMMA CarriedStays ==
  ASSUME Types, Types', Remembered
  PROVE  /\ GenuineUnit \subseteq GenuineUnit'
         /\ \A c \in Connections : OwedUnit(c) \subseteq OwedUnit(c)'
         /\ \A c \in Connections : \A f, e : Own(c, f, e) => Own(c, f, e)'
<1>1. ASSUME NEW u \in GenuineUnit PROVE u \in GenuineUnit'
  <2>1. u \in Unit /\ Genuine(u.frame)
    BY DEF GenuineUnit
  <2>2. u.frame.payload \in Operations => /\ u.frame \in CallFrame /\ u.frame.session # 0
                              /\ u.frame.session = client[u.frame.by].id
                              /\ u.frame.epoch = client[u.frame.by].epoch
                              /\ u.frame.by \in Connections
    BY <2>1 DEF Genuine, CallFrame
  <2>3. Genuine(u.frame)'
    BY <2>2 DEF Genuine, Remembered
  <2> QED
    BY <2>1, <2>3 DEF GenuineUnit
<1>2. ASSUME NEW c \in Connections, NEW u \in OwedUnit(c) PROVE u \in OwedUnit(c)'
  <2>1. u \in Unit /\ u.verdict = "Complete" /\ Owed(c, u.frame)
    BY DEF OwedUnit
  <2>2. u.frame.session \in Nat /\ u.frame.epoch \in Nat
    BY <2>1 DEF Unit, Frame, PlainFrame, CallFrame
  <2>3. Owed(c, u.frame)'
    BY <2>1, <2>2 DEF Owed, Remembered
  <2> QED
    BY <2>1, <2>3 DEF OwedUnit
<1>3. ASSUME NEW c \in Connections, NEW f, NEW e, Own(c, f, e) PROVE Own(c, f, e)'
  BY <1>3 DEF Own, Remembered
<1> QED
  BY <1>1, <1>2, <1>3

-----------------------------------------------------------------------------
(* Each connection is accepted once *)

LEMMA AcceptedOnceStep ==
  ASSUME LifeInvariant, Types', AcceptedOnce, Next
  PROVE  AcceptedOnce'
<1>1. /\ backlog \in Seq(Connections) /\ Len(backlog) \in Nat
      /\ \A i \in 1..Len(backlog) : backlog[i] \in Connections
      /\ session \in [Connections -> SessionRecord] /\ serve.socket \subseteq Connections
      /\ handled \in [Connections -> Seq(Done)]
  BY LenProperties, ElementOfSeq DEF LifeInvariant, Types, ThreadsType, SessionsType, PeersType
<1>2. CASE Start
  <2>1. UNCHANGED <<serve, backlog, session, client, handled>>
    BY <1>2 DEF Start, peers
  <2> QED
    BY <2>1 DEF AcceptedOnce, Untouched
<1>3. CASE Kill
  <2>1. UNCHANGED <<client, handled>> /\ backlog' = <<>> /\ serve'.socket = {}
        /\ \A c \in Connections : session'[c] = NoSession
    BY <1>3 DEF Kill
  <2>2. Len(backlog') = 0
    BY <2>1
  <2> QED
    BY <2>1, <2>2 DEF AcceptedOnce, Untouched, NoSession
<1>4. CASE Accept
  <2>1. UNCHANGED <<session, client, handled>>
    BY <1>4 DEF Accept, peers
  <2>2. CASE UNCHANGED backlog /\ serve' = [serve EXCEPT !.at = "stop"]
    <3>1. serve'.socket = serve.socket /\ serve'.at = "stop"
      BY <2>2 DEF LifeInvariant, Types, ThreadsType
    <3> QED
      BY <2>1, <2>2, <3>1 DEF AcceptedOnce, Untouched
  <2>3. CASE backlog # <<>> /\ backlog' = Tail(backlog)
             /\ serve' = [at |-> "spawn", socket |-> {Head(backlog)}]
    <3>1. Len(backlog) >= 1 /\ Head(backlog) = backlog[1]
      BY <1>1, <2>3, EmptySeq, HeadTailProperties
    <3>2. Len(backlog') = Len(backlog) - 1 /\ \A i \in 1..Len(backlog') : backlog'[i] = backlog[i + 1]
      BY <1>1, <2>3, HeadTailProperties
    <3>3. \A i \in 1..Len(backlog') : i + 1 \in 1..Len(backlog) /\ i + 1 # 1
      BY <1>1, <3>1, <3>2
    <3>4. serve'.socket = {backlog[1]} /\ 1 \in 1..Len(backlog)
      BY <1>1, <2>3, <3>1
    <3>5. \A i \in 1..Len(backlog') : (Untouched(backlog'[i]) /\ backlog'[i] \notin serve'.socket)
      BY <3>2, <3>3, <3>4 DEF AcceptedOnce
    <3>6. ASSUME NEW i \in 1..Len(backlog'), NEW j \in 1..Len(backlog'), backlog'[i] = backlog'[j]
          PROVE  i = j
      <4>1. i + 1 = j + 1
        BY <3>2, <3>3, <3>6 DEF AcceptedOnce
      <4>2. i \in Nat /\ j \in Nat
        BY <1>1, <3>2
      <4> QED
        BY <4>1, <4>2
    <3>7. Untouched(backlog[1])
      BY <3>4 DEF AcceptedOnce
    <3>8. \A c \in Connections : Untouched(c)' <=> Untouched(c)
      BY <2>1 DEF Untouched
    <3>9. \A i \in 1..Len(backlog') : backlog'[i] \in Connections
      BY <1>1, <3>2, <3>3
    <3>10. \A i \in 1..Len(backlog') : (Untouched(backlog[i]) /\ backlog[i] \notin serve.socket)'
      BY <3>5, <3>8, <3>9
    <3>11. \A c \in serve'.socket : client'[c].at # "new" /\ Untouched(c)'
      BY <1>1, <2>1, <3>4, <3>7, <3>8 DEF Untouched
    <3>12. \A c \in Connections :
             /\ client'[c].at = "new" => session'[c].at = "none" /\ handled'[c] = <<>>
             /\ session'[c].at = "none" => session'[c] = NoSession
      BY <2>1 DEF AcceptedOnce
    <3> QED
      BY <3>6, <3>10, <3>11, <3>12 DEF AcceptedOnce
  <2> QED
    BY <1>4, <2>2, <2>3 DEF Accept
<1>5. CASE Spawn
  <2>1. /\ UNCHANGED <<backlog, client, handled>> /\ serve'.socket = serve.socket /\ serve'.at = "register"
        /\ \A c \in Connections : IF c \in serve.socket THEN session'[c].at = "hello"
                                  ELSE session'[c] = session[c]
    BY <1>5 DEF Spawn, listener, peers, NoSession, LifeInvariant, Types, ThreadsType
  <2>2. \A i \in 1..Len(backlog) : session'[backlog[i]] = session[backlog[i]]
    BY <1>1, <2>1 DEF AcceptedOnce
  <2> QED
    BY <2>1, <2>2 DEF AcceptedOnce, Untouched
<1>6. CASE RegisterThread
  <2>1. UNCHANGED <<backlog, session, client, handled>> /\ serve'.socket = {}
    BY <1>6 DEF RegisterThread, listener, peers
  <2> QED
    BY <2>1 DEF AcceptedOnce, Untouched
<1>7. ASSUME NEW k \in Callers, RequestShutdown(k) PROVE AcceptedOnce'
  <2>1. UNCHANGED <<serve, session, client, handled>> /\ (backlog' = backlog \/ backlog' = <<>>)
    BY <1>7 DEF RequestShutdown, CloseListener, CopySockets, CloseSockets, TakeThreads, Join,
                listener, peers
  <2>2. CASE backlog' = backlog
    BY <2>1, <2>2 DEF AcceptedOnce, Untouched
  <2>3. CASE backlog' = <<>>
    <3>1. Len(backlog') = 0
      BY <2>3
    <3> QED
      BY <2>1, <3>1 DEF AcceptedOnce, Untouched
  <2> QED
    BY <2>1, <2>2, <2>3
<1>8. ASSUME NEW c \in Connections, SessionThread(c) PROVE AcceptedOnce'
  <2>1. /\ UNCHANGED <<serve, backlog, client>> /\ session[c].at # "none" /\ session'[c].at # "none"
        /\ \A d \in Connections : d # c => session'[d] = session[d]
    BY <1>8, SessionMoves, SessionIds DEF LifeInvariant, listener
  <2>2. \A d \in Connections : d # c => handled'[d] = handled[d]
    <3>1. handled' = handled \/ \E h \in Done : handled' = [handled EXCEPT ![c] = Append(@, h)]
      BY <1>8, SessionIds DEF LifeInvariant
    <3> QED
      BY <1>1, <3>1
  <2>3. (\A i \in 1..Len(backlog) : backlog[i] # c) /\ (serve.at = "spawn" => c \notin serve.socket)
        /\ client[c].at # "new"
    BY <2>1 DEF AcceptedOnce, Untouched
  <2>4. \A d \in Connections : d # c /\ Untouched(d) => Untouched(d)'
    BY <2>1, <2>2 DEF Untouched
  <2>5. \A i \in 1..Len(backlog') : (Untouched(backlog[i]) /\ backlog[i] \notin serve.socket)'
    BY <1>1, <2>1, <2>3, <2>4 DEF AcceptedOnce
  <2>6. \A d \in serve'.socket : client'[d].at # "new" /\ (serve'.at = "spawn" => Untouched(d)')
    BY <1>1, <2>1, <2>3, <2>4 DEF AcceptedOnce
  <2>7. \A d \in Connections :
          /\ client'[d].at = "new" => session'[d].at = "none" /\ handled'[d] = <<>>
          /\ session'[d].at = "none" => session'[d] = NoSession
    BY <2>1, <2>2, <2>3 DEF AcceptedOnce
  <2>8. \A i, j \in 1..Len(backlog') : backlog'[i] = backlog'[j] => i = j
    BY <2>1 DEF AcceptedOnce
  <2> QED
    BY <2>5, <2>6, <2>7, <2>8 DEF AcceptedOnce
<1>9. ASSUME NEW c \in Connections, ClientStep(c) PROVE AcceptedOnce'
  <2>1. /\ UNCHANGED <<serve, session, handled>> /\ client'[c].at # "new"
        /\ \A d \in Connections : d # c => client'[d] = client[d]
        /\ backlog' = backlog \/ (client[c].at = "new" /\ backlog' = Append(backlog, c))
    BY <1>9, ClientMoves DEF LifeInvariant
  <2>2. \A d \in Connections : Untouched(d) => Untouched(d)'
    BY <2>1 DEF Untouched
  <2>3. \A d \in serve'.socket : client'[d].at # "new" /\ (serve'.at = "spawn" => Untouched(d)')
    BY <1>1, <2>1, <2>2 DEF AcceptedOnce
  <2>4. \A d \in Connections :
          /\ client'[d].at = "new" => session'[d].at = "none" /\ handled'[d] = <<>>
          /\ session'[d].at = "none" => session'[d] = NoSession
    BY <2>1 DEF AcceptedOnce
  <2>5. CASE backlog' = backlog
    <3>1. \A i \in 1..Len(backlog') : (Untouched(backlog[i]) /\ backlog[i] \notin serve.socket)'
      BY <1>1, <2>1, <2>2, <2>5 DEF AcceptedOnce
    <3>2. \A i, j \in 1..Len(backlog') : backlog'[i] = backlog'[j] => i = j
      BY <2>5 DEF AcceptedOnce
    <3> QED
      BY <2>3, <2>4, <3>1, <3>2 DEF AcceptedOnce
  <2>6. CASE client[c].at = "new" /\ backlog' = Append(backlog, c)
    <3>1. Len(backlog') = Len(backlog) + 1 /\ backlog'[Len(backlog) + 1] = c
          /\ \A i \in 1..Len(backlog) : backlog'[i] = backlog[i]
      BY <1>1, <2>6, AppendProperties
    <3>2. (\A i \in 1..Len(backlog) : backlog[i] # c) /\ c \notin serve.socket
          /\ session[c].at = "none" /\ handled[c] = <<>>
      BY <2>6 DEF AcceptedOnce, Untouched
    <3>3. Untouched(c)' /\ c \notin serve'.socket
      BY <2>1, <3>2 DEF Untouched
    <3>4. \A i \in 1..Len(backlog') : i \in 1..Len(backlog) \/ i = Len(backlog) + 1
      BY <1>1, <3>1
    <3>5. \A i \in 1..Len(backlog) : Untouched(backlog[i])' /\ backlog[i] \notin serve'.socket
      <4>1. \A i \in 1..Len(backlog) : Untouched(backlog[i]) /\ backlog[i] \notin serve.socket
        BY DEF AcceptedOnce
      <4>2. \A i \in 1..Len(backlog) : client'[backlog[i]].at # "new"
        BY <1>1, <2>1, <3>2, <4>1 DEF Untouched
      <4>3. \A i \in 1..Len(backlog) : Untouched(backlog'[i]) /\ backlog'[i] \notin serve'.socket
        BY <2>1, <3>1, <4>1
      <4> QED
        BY <2>1, <3>1, <4>1, <4>2, <4>3 DEF Untouched
    <3>6. \A i \in 1..Len(backlog') : (Untouched(backlog[i]) /\ backlog[i] \notin serve.socket)'
      BY <3>1, <3>3, <3>4, <3>5 DEF Untouched
    <3>7. \A i, j \in 1..Len(backlog') : backlog'[i] = backlog'[j] => i = j
      BY <3>1, <3>2, <3>4 DEF AcceptedOnce
    <3> QED
      BY <2>3, <2>4, <3>6, <3>7 DEF AcceptedOnce
  <2> QED
    BY <2>1, <2>5, <2>6
<1> QED
  BY <1>2, <1>3, <1>4, <1>5, <1>6, <1>7, <1>8, <1>9 DEF Next, ClientStep, Serve

-----------------------------------------------------------------------------
(* What the wires carry *)

\* A connection whose buffers hold what they may.
LEMMA ContentsKept ==
  ASSUME Types, Types', Remembered, NEW c \in Connections,
         toServer'[c] \in Seq(GenuineUnit), session'[c].stream.buffer \in Seq(GenuineUnit),
         toClient'[c] \in Seq(OwedUnit(c)'), client'[c].stream.buffer \in Seq(OwedUnit(c))
  PROVE  Contents(c)'
<1>1. GenuineUnit \subseteq GenuineUnit' /\ OwedUnit(c) \subseteq OwedUnit(c)'
  BY CarriedStays
<1>2. toServer'[c] \in Seq(GenuineUnit') /\ session'[c].stream.buffer \in Seq(GenuineUnit')
  BY <1>1, SeqMonotone
<1>3. client'[c].stream.buffer \in Seq(OwedUnit(c)')
  BY <1>1, SeqMonotone
<1> QED
  BY <1>2, <1>3 DEF Contents

LEMMA ClientKept ==
  ASSUME Types, Remembered, NEW c \in Connections, ClientInOrder(c), client'[c] = client[c]
  PROVE  ClientInOrder(c)'
<1>1. client[c].id \in Nat /\ client[c].epoch \in Nat
  BY DEF Types, PeersType, ClientRecord
<1>2. client[c].id # 0 => Names(c, client[c].id, client[c].epoch)'
  BY <1>1 DEF ClientInOrder, Remembered
<1>3. \A n \in client[c].acked : WasDone(c, n)'
  BY DEF ClientInOrder, Remembered
<1> QED
  BY <1>2, <1>3 DEF ClientInOrder, Before, Names, WasDone

\* A reply the client is owed.
LEMMA ReplyOwed ==
  ASSUME Types, Types', Remembered, NEW c \in Connections, toClient[c] \in Seq(OwedUnit(c)),
         NEW f \in Frame, Owed(c, f)', Reply(c, f)
  PROVE  /\ toClient'[c] \in Seq(OwedUnit(c)')
         /\ \A d \in Connections : d # c => toClient'[d] = toClient[d]
<1>1. toClient \in [Connections -> Seq(Unit)]
  BY DEF Types, PeersType
<1>2. toClient[c] \in Seq(OwedUnit(c)')
  BY CarriedStays, SeqMonotone
<1>3. Sound(f) \in Seq(OwedUnit(c)')
  <2>1. Sound(f) \in Seq(Unit) /\ Len(Sound(f)) = 2
        /\ \A i \in 1..2 : Sound(f)[i].frame = f /\ Sound(f)[i].verdict = "Complete"
    BY EncodeFrameType DEF HeaderVerdicts, PayloadVerdicts
  <2>2. \A i \in 1..2 : Sound(f)[i] \in Unit
    BY <2>1, ElementOfSeq
  <2>3. \A i \in 1..2 : Sound(f)[i] \in OwedUnit(c)'
    BY <2>1, <2>2 DEF OwedUnit
  <2>4. Sound(f) \in [1..2 -> OwedUnit(c)']
    BY <2>1, <2>3, LenProperties
  <2> QED
    BY <2>4, SeqDef
<1>4. toClient[c] \o Sound(f) \in Seq(OwedUnit(c)')
  BY <1>2, <1>3, ConcatProperties
<1> QED
  BY <1>1, <1>2, <1>4 DEF Reply

\* The answer to a hello, as a value.
LEMMA AckFrame ==
  ASSUME epoch \in Nat, NEW id \in Nat, NEW verdict \in {"refused", "accepted"}
  PROVE  \E f \in Frame : /\ f = HelloAck(id, verdict) /\ f.type = "HelloAck" /\ f.session = id
                          /\ f.payload = verdict /\ f.epoch = epoch
<1>1. verdict \in Payloads
  BY DEF Payloads
<1> QED
  BY <1>1, HelloAckType

\* What a session thread leaves in its connection's buffers, and what it replies.
LEMMA SessionContents ==
  ASSUME LifeInvariant, Types', WireContents, HandledInOrder, NEW c \in Connections, SessionThread(c)
  PROVE  /\ toServer'[c] \in Seq(GenuineUnit) /\ session'[c].stream.buffer \in Seq(GenuineUnit)
         /\ \A d \in Connections : d # c => toServer'[d] = toServer[d]
         /\ \/ toClient' = toClient
            \/ \E f \in Frame : Reply(c, f) /\ Owed(c, f)'
<1>1. /\ session \in [Connections -> SessionRecord] /\ session[c] \in SessionRecord
      /\ session[c].stream \in Stream /\ session_counter \in Nat /\ epoch \in Nat
      /\ SessionOK(session[c], session_counter)
  BY ServerAssumption DEF LifeInvariant, Types, SessionsType, SessionRecord, ProcessType
<1>2. /\ toServer \in [Connections -> Seq(Unit)] /\ toServer[c] \in Seq(GenuineUnit)
      /\ session[c].stream.buffer \in Seq(GenuineUnit)
  BY DEF LifeInvariant, Types, PeersType, WireContents, Contents
<1>3. AfterNext(session[c].stream).buffer \in Seq(GenuineUnit)
  BY <1>1, <1>2, AfterNextType
<1>4. ASSUME NEW p, Goto(c, p) PROVE session'[c].stream = session[c].stream
  BY <1>1, <1>4 DEF Goto, SessionRecord
<1>5. ASSUME Reply(c, HelloAck(0, "refused"))
      PROVE  \E f \in Frame : Reply(c, f) /\ Owed(c, f)'
  <2>1. PICK f \in Frame : f = HelloAck(0, "refused") /\ f.type = "HelloAck" /\ f.payload = "refused"
    BY <1>1, AckFrame
  <2>2. Owed(c, f)'
    BY <2>1 DEF Owed
  <2> QED
    BY <1>5, <2>1, <2>2
<1>6. CASE ReadMore(c)
  <2>1. toClient' = toClient
    BY <1>6 DEF ReadMore
  <2>2. CASE Goto(c, "close") /\ UNCHANGED toServer
    BY <1>2, <1>4, <2>1, <2>2
  <2>3. CASE \E n \in 1..Len(toServer[c]) :
               LET fed == Feed(session[c].stream, SubSeq(toServer[c], 1, n))
               IN /\ toServer' = [toServer EXCEPT ![c] = SubSeq(@, n + 1, Len(@))]
                  /\ session' = [session EXCEPT ![c].stream = fed,
                       ![c].at = IF fed.poisoned THEN "close" ELSE IF @ = "read" THEN "loop" ELSE @]
    <3>1. PICK n \in 1..Len(toServer[c]) :
               LET fed == Feed(session[c].stream, SubSeq(toServer[c], 1, n))
               IN /\ toServer' = [toServer EXCEPT ![c] = SubSeq(@, n + 1, Len(@))]
                  /\ session' = [session EXCEPT ![c].stream = fed,
                       ![c].at = IF fed.poisoned THEN "close" ELSE IF @ = "read" THEN "loop" ELSE @]
      BY <2>3
    <3>2. SubSeq(toServer[c], 1, n) \in Seq(Unit) /\ SubSeq(toServer[c], 1, n) \in Seq(GenuineUnit)
          /\ SubSeq(toServer[c], n + 1, Len(toServer[c])) \in Seq(GenuineUnit)
      BY <1>2, PartOf
    <3> DEFINE fed == Feed(session[c].stream, SubSeq(toServer[c], 1, n))
    <3>3. fed.buffer \in Seq(GenuineUnit)
      BY <1>1, <1>2, <3>2, FeedOf
    <3> HIDE DEF fed
    <3>4. session'[c].stream = fed
      BY <1>1, <3>1 DEF SessionRecord, fed
    <3> QED
      BY <1>2, <2>1, <3>1, <3>2, <3>3, <3>4
  <2> QED
    BY <1>6, <2>2, <2>3 DEF ReadMore
<1>7. CASE Handshake(c)
  <2>1. /\ UNCHANGED toServer
        /\ UNCHANGED toClient \/ Reply(c, HelloAck(0, "refused"))
    BY <1>7 DEF Handshake
  <2>2. PICK p \in {"admit", "close"} :
          session' = [session EXCEPT ![c].stream = AfterNext(@), ![c].at = p]
    BY <1>7 DEF Handshake
  <2>3. session'[c].stream = AfterNext(session[c].stream)
    BY <1>1, <2>2 DEF SessionRecord
  <2> QED
    BY <1>2, <1>3, <1>5, <2>1, <2>3
<1>8. CASE Admit(c)
  <2>1. /\ UNCHANGED toServer /\ (Goto(c, "welcome") \/ Goto(c, "close"))
        /\ UNCHANGED toClient \/ Reply(c, HelloAck(0, "refused"))
    BY <1>8 DEF Admit
  <2> QED
    BY <1>2, <1>4, <1>5, <2>1
<1>9. CASE Welcome(c)
  <2>1. PICK n \in Nat : n = session_counter + 1
    BY <1>1
  <2>2. PICK f \in Frame : /\ f = HelloAck(n, "accepted") /\ f.type = "HelloAck" /\ f.session = n
                           /\ f.epoch = epoch
    BY <1>1, AckFrame
  <2>3. UNCHANGED toServer /\ session_counter' = n /\ Reply(c, f) /\ n # 0 /\ n > session_counter
    BY <1>1, <1>9, <2>1, <2>2 DEF Welcome
  <2>4. session'[c].stream = session[c].stream
    <3>1. CASE session' = [session EXCEPT ![c].at = "loop", ![c].id = session_counter']
      BY <1>1, <3>1 DEF SessionRecord
    <3> QED
      BY <1>4, <1>9, <3>1 DEF Welcome
  <2>5. epoch' = epoch /\ \A d \in Connections : d # c => session'[d] = session[d]
    BY SessionMoves DEF LifeInvariant, process
  <2>6. \A d \in Connections : session[d].id \in Nat /\ session[d].id <= session_counter
    BY DEF LifeInvariant, Types, SessionsType, SessionOK, SessionRecord
  <2>7. \A d \in Connections : session'[d].id = n => d = c
    <3>1. \A m \in Nat : m <= session_counter => m # n
      BY <1>1, <2>3
    <3> QED
      BY <2>5, <2>6, <3>1
  <2>8. f.session # 0 /\ f.epoch <= epoch' /\ f.session <= session_counter'
    BY <1>1, <2>2, <2>3, <2>5
  <2>9. Owed(c, f)'
    BY <2>2, <2>7, <2>8 DEF Owed, Names
  <2> QED
    BY <1>2, <2>3, <2>4, <2>9
<1>10. CASE LoopTop(c)
  <2> DEFINE outcome == NextOutcome(session[c].stream)
             stands == outcome.status = "Complete" /\ RequestStands(c, outcome.frame)
             refused == IF outcome.status = "Complete" THEN outcome.frame
                        ELSE [type |-> "Request", session |-> session[c].id,
                              sequence |-> session[c].last, epoch |-> 0, payload |-> "none"]
             g == NextOutcome(session[c].stream).frame
  <2>1. UNCHANGED toServer
    BY <1>10 DEF LoopTop
  <2>2. CASE (Goto(c, "close") \/ Goto(c, "read")) /\ UNCHANGED toClient
    BY <1>2, <1>4, <2>1, <2>2
  <2>3. CASE /\ session' = [session EXCEPT ![c].stream = AfterNext(@), ![c].at = "dispatch",
                  ![c].request = <<g>>, ![c].last = g.sequence]
             /\ UNCHANGED toClient
    <3> HIDE DEF g
    <3>1. session'[c].stream = AfterNext(session[c].stream)
      BY <1>1, <2>3 DEF SessionRecord
    <3> QED
      BY <1>2, <1>3, <2>1, <2>3, <3>1
  <2>4. CASE /\ session' = [session EXCEPT ![c].stream = AfterNext(@), ![c].at = "close"]
             /\ Reply(c, Response(refused, "error"))
    <3>1. session'[c].stream = AfterNext(session[c].stream)
      BY <1>1, <2>4 DEF SessionRecord
    <3>2. refused \in Frame
      <4>1. outcome.status = "Complete" => outcome.frame \in Frame
        BY <1>1, OutcomeType
      <4>2. session[c].id \in Nat /\ session[c].last \in Nat
        BY <1>1 DEF SessionRecord
      <4> QED
        BY <4>1, <4>2 DEF Frame, PlainFrame, MessageTypes, Payloads
    <3> HIDE DEF refused
    <3>3. "error" \in Payloads
      BY DEF Payloads
    <3>4. PICK f \in Frame : f = Response(refused, "error") /\ f.type = "Response" /\ f.payload = "error"
      BY <3>2, <3>3, ResponseType
    <3>5. Owed(c, f)'
      BY <3>4 DEF Owed
    <3> QED
      BY <1>2, <1>3, <2>1, <2>4, <3>1, <3>4, <3>5
  <2> QED
    BY <1>10, <2>2, <2>3, <2>4 DEF LoopTop
<1>11. CASE Dispatch(c)
  <2>1. UNCHANGED <<toServer, toClient>>
    BY <1>11 DEF Dispatch
  <2>2. PICK q : session' = [session EXCEPT ![c].at = "answer", ![c].request = q]
    BY <1>11 DEF Dispatch
  <2>3. session'[c].stream = session[c].stream
    BY <1>1, <2>2 DEF SessionRecord
  <2> QED
    BY <1>2, <2>1, <2>3
<1>12. CASE Answer(c)
  <2>1. UNCHANGED toServer /\ session[c].at = "answer"
        /\ Reply(c, Response(session[c].request[1], session[c].request[2])) /\ UNCHANGED handled
    BY <1>12 DEF Answer, Running
  <2>2. PICK p \in {"close", "loop"} : session' = [session EXCEPT ![c].request = <<>>, ![c].at = p]
    BY <1>12 DEF Answer
  <2>3. session'[c].stream = session[c].stream
    BY <1>1, <2>2 DEF SessionRecord
  <2>4. PICK g \in Frame, code \in Codes : session[c].request = <<g, code>>
    BY <1>1, <2>1 DEF SessionOK
  <2>5. session[c].request[1] = g /\ session[c].request[2] = code /\ code \in Payloads
    <3>1. code \in Payloads
      BY DEF Codes, Payloads
    <3> QED
      BY <2>4, <3>1
  <2>6. PICK f \in Frame : /\ f = Response(g, code) /\ f.type = "Response" /\ f.payload = code
                           /\ f.sequence = g.sequence
    BY <2>5, ResponseType
  <2>7. code = "ok" => WasDone(c, g.sequence)
    BY <2>1, <2>5 DEF HandledInOrder, HandledUpTo
  <2>8. code = "ok" => WasDone(c, f.sequence)'
    BY <2>1, <2>6, <2>7 DEF WasDone
  <2>9. Owed(c, f)'
    BY <2>6, <2>8 DEF Owed
  <2> QED
    BY <1>2, <2>1, <2>3, <2>5, <2>6, <2>9
<1>13. CASE CloseSocket(c)
  <2>1. toServer' = [toServer EXCEPT ![c] = <<>>] /\ UNCHANGED toClient /\ session'[c].stream = NewStream
    BY <1>1, <1>13 DEF CloseSocket, NoSession
  <2>2. toServer'[c] \in Seq(GenuineUnit) /\ NewStream.buffer \in Seq(GenuineUnit)
    BY <1>2, <2>1, EmptySeq DEF NewStream
  <2> QED
    BY <1>2, <2>1, <2>2
<1>14. CASE EraseSocket(c)
  <2>1. UNCHANGED <<toServer, toClient>> /\ Goto(c, "end")
    BY <1>14 DEF EraseSocket, peers
  <2> QED
    BY <1>2, <1>4, <2>1
<1> QED
  BY <1>6, <1>7, <1>8, <1>9, <1>10, <1>11, <1>12, <1>13, <1>14 DEF SessionThread

\* What a client sends is genuine: it has its name by then.
LEMMA GreetingsGenuine ==
  ASSUME NEW u \in Greetings \cup {Sound(Hello("token"))}
  PROVE  u \in Seq(GenuineUnit)
<1>1. u \in Seq(Unit) /\ Len(u) = 2
  BY GreetingsType
<1> DEFINE Known == {"token", "wrong token", "undecodable"}
<1>2. u[1].frame.payload \in Known /\ u[2].frame = u[1].frame
  <2>1. ASSUME NEW f, NEW h, NEW p, u = EncodeFrame(f, h, p) PROVE u[1].frame = f /\ u[2].frame = f
    BY <2>1 DEF EncodeFrame
  <2>2. ASSUME NEW f, u = Sound(f) PROVE u[1].frame = f /\ u[2].frame = f
    BY <2>1, <2>2 DEF Sound
  <2>3. CASE \E p \in Known : u = Sound(Hello(p))
    <3>1. PICK p \in Known : u = Sound(Hello(p))
      BY <2>3
    <3>2. PICK f : f = Hello(p) /\ u = Sound(f)
      BY <3>1
    <3>3. f.payload = p
      BY <3>2 DEF Hello
    <3> QED
      BY <2>2, <3>2, <3>3
  <2>4. CASE u = Sound([Hello("token") EXCEPT !.type = "Request"])
    <3>1. PICK f : f = [Hello("token") EXCEPT !.type = "Request"] /\ u = Sound(f)
      BY <2>4
    <3>2. f.payload = "token"
      BY <3>1 DEF Hello
    <3> QED
      BY <2>2, <3>1, <3>2
  <2>5. CASE u = EncodeFrame(Hello("token"), "Oversized", "Complete")
    <3>1. PICK f : f = Hello("token") /\ u = EncodeFrame(f, "Oversized", "Complete")
      BY <2>5
    <3>2. f.payload = "token"
      BY <3>1 DEF Hello
    <3> QED
      BY <2>1, <3>1, <3>2
  <2> QED
    BY <2>3, <2>4, <2>5 DEF Greetings
<1>3. \A i \in 1..2 : u[i] \in Unit /\ u[i].frame = u[1].frame
  <2>1. u[1] \in Unit /\ u[2] \in Unit
    BY <1>1, ElementOfSeq
  <2>2. \A i \in 1..2 : i = 1 \/ i = 2
    OBVIOUS
  <2> QED
    BY <1>2, <2>1, <2>2
<1>4. \A i \in 1..2 : u[i] \in GenuineUnit
  BY <1>2, <1>3 DEF GenuineUnit, Genuine, Operations
<1>5. u \in [1..2 -> GenuineUnit]
  BY <1>1, <1>4, LenProperties
<1> QED
  BY <1>5, SeqDef

\* A frame made by a client that has a name.
LEMMA MadeGenuine ==
  ASSUME NEW f \in CallFrame, NEW d \in Connections, client[d].id # 0, f.by = d,
         f.session = client[d].id, f.epoch = client[d].epoch,
         NEW u, u \in Seq(Unit), Len(u) = 2, u[1].frame = f, u[2].frame = f
  PROVE  u \in Seq(GenuineUnit)
<1>1. \A i \in 1..2 : u[i] \in Unit /\ u[i].frame = f
  <2>1. u[1] \in Unit /\ u[2] \in Unit
    BY ElementOfSeq
  <2>2. \A i \in 1..2 : i = 1 \/ i = 2
    OBVIOUS
  <2> QED
    BY <2>1, <2>2
<1>2. Genuine(f)
  BY DEF Genuine
<1>3. \A i \in 1..2 : u[i] \in GenuineUnit
  BY <1>1, <1>2 DEF GenuineUnit
<1>4. u \in [1..2 -> GenuineUnit]
  BY <1>3, LenProperties
<1> QED
  BY <1>4, SeqDef

LEMMA RequestGenuine ==
  ASSUME PeersType, NEW d \in Connections, client[d].id # 0, NEW n \in Nat,
         NEW operation \in {"operate", "shutdown", "unknown"}
  PROVE  /\ Sound(Request(d, n, operation)) \in Seq(GenuineUnit)
         /\ Sound([Request(d, n, operation) EXCEPT !.type = "Goodbye"]) \in Seq(GenuineUnit)
         /\ EncodeFrame(Request(d, n, operation), "Complete", "Corrupt") \in Seq(GenuineUnit)
<1> DEFINE f == Request(d, n, operation)
           g == [Request(d, n, operation) EXCEPT !.type = "Goodbye"]
<1>1. f \in CallFrame /\ g \in CallFrame /\ f \in Frame /\ g \in Frame
  BY RequestType
<1>2. /\ f.by = d /\ f.session = client[d].id /\ f.epoch = client[d].epoch
      /\ g.by = d /\ g.session = client[d].id /\ g.epoch = client[d].epoch
  BY DEF Request
<1> HIDE DEF f, g
<1>3. /\ Sound(f) \in Seq(Unit) /\ Len(Sound(f)) = 2 /\ Sound(f)[1].frame = f /\ Sound(f)[2].frame = f
      /\ Sound(g) \in Seq(Unit) /\ Len(Sound(g)) = 2 /\ Sound(g)[1].frame = g /\ Sound(g)[2].frame = g
  BY <1>1, EncodeFrameType DEF HeaderVerdicts, PayloadVerdicts
<1>4. PICK u : u = EncodeFrame(f, "Complete", "Corrupt")
  OBVIOUS
<1>5. u \in Seq(Unit) /\ Len(u) = 2 /\ u[1].frame = f /\ u[2].frame = f
  BY <1>1, <1>4, EncodeFrameType DEF HeaderVerdicts, PayloadVerdicts
<1>6. u \in Seq(GenuineUnit)
  BY <1>1, <1>2, <1>5, MadeGenuine
<1>7. Sound(f) \in Seq(GenuineUnit) /\ Sound(g) \in Seq(GenuineUnit)
  BY <1>1, <1>2, <1>3, MadeGenuine
<1> QED
  BY <1>4, <1>6, <1>7 DEF f, g

\* What a client leaves in its buffers and in its record.
LEMMA ClientContents ==
  ASSUME LifeInvariant, Types', WireContents, Remembered, NEW c \in Connections, ClientStep(c)
  PROVE  /\ toServer'[c] \in Seq(GenuineUnit) /\ toClient'[c] \in Seq(OwedUnit(c))
         /\ client'[c].stream.buffer \in Seq(OwedUnit(c)) /\ ClientInOrder(c)'
<1>1. /\ client \in [Connections -> ClientRecord] /\ client[c] \in ClientRecord
      /\ client[c].stream \in Stream /\ scenario.calls \in Nat /\ PeersType
  BY ServerAssumption DEF LifeInvariant, Types, PeersType, ClientRecord, ProcessType
<1>2. /\ toServer \in [Connections -> Seq(Unit)] /\ toServer[c] \in Seq(GenuineUnit)
      /\ toClient \in [Connections -> Seq(Unit)] /\ toClient[c] \in Seq(OwedUnit(c))
      /\ client[c].stream.buffer \in Seq(OwedUnit(c)) /\ ClientInOrder(c)
  BY DEF LifeInvariant, Types, PeersType, WireContents, Contents
<1>3. client[c].id \in Nat /\ client[c].epoch \in Nat
  BY <1>1 DEF ClientRecord
<1>4. client[c].id # 0 => Names(c, client[c].id, client[c].epoch)'
  BY <1>2, <1>3 DEF ClientInOrder, Remembered
<1>5. \A n \in client[c].acked : WasDone(c, n)'
  BY <1>2 DEF ClientInOrder, Remembered
<1>6. ASSUME NEW u \in Seq(GenuineUnit), Send(c, u) PROVE toServer'[c] \in Seq(GenuineUnit)
  <2>1. toServer[c] \o u \in Seq(GenuineUnit)
    BY <1>2, ConcatProperties
  <2> QED
    BY <1>2, <1>6, <2>1 DEF Send
<1>7. ASSUME NEW p, Become(c, p)
      PROVE  /\ client'[c].at = p /\ client'[c].id = client[c].id /\ client'[c].epoch = client[c].epoch
             /\ client'[c].stream = client[c].stream /\ client'[c].acked = client[c].acked
  BY <1>1, <1>7 DEF Become, ClientRecord
<1>8. ASSUME Leave(c)
      PROVE  client'[c].stream.buffer \in Seq(OwedUnit(c)) /\ ClientInOrder(c)'
  <2>1. /\ client'[c].at = "closed" /\ client'[c].id = client[c].id
        /\ client'[c].epoch = client[c].epoch /\ client'[c].acked = client[c].acked
        /\ client'[c].stream = NewStream
    BY <1>1, <1>8 DEF Leave, ClientRecord
  <2>2. <<>> \in Seq(OwedUnit(c))
    BY EmptySeq
  <2> QED
    BY <1>4, <1>5, <2>1, <2>2 DEF ClientInOrder, Before, NewStream
<1>9. /\ client[c].at \in {"ready", "calling"} => client[c].id # 0
      /\ Before(c) => client[c].id = 0 /\ client[c].stream = NewStream
  BY <1>2 DEF ClientInOrder
<1>10. CASE Connect(c)
  <2>1. /\ client[c].at = "new" /\ (Become(c, "connected") \/ Become(c, "closed"))
        /\ toServer' = toServer /\ toClient' = toClient
    BY <1>10 DEF Connect
  <2>2. Before(c)
    BY <2>1 DEF Before
  <2>3. /\ client'[c].at \in {"connected", "closed"}
        /\ client'[c].id = client[c].id /\ client'[c].epoch = client[c].epoch
        /\ client'[c].stream = client[c].stream /\ client'[c].acked = client[c].acked
    BY <1>7, <2>1
  <2>4. ClientInOrder(c)'
    BY <1>4, <1>5, <1>9, <2>2, <2>3 DEF ClientInOrder
  <2> QED
    BY <1>2, <2>1, <2>3, <2>4
<1>11. CASE Greet(c)
  <2>1. client[c].at = "connected" /\ Become(c, "greeting") /\ toClient' = toClient
    BY <1>11 DEF Greet
  <2>2. PICK u \in Greetings \cup {Sound(Hello("token"))} : Send(c, u)
    BY <1>11 DEF Greet
  <2>3. toServer'[c] \in Seq(GenuineUnit)
    BY <1>6, <2>2, GreetingsGenuine
  <2>4. Before(c)
    BY <2>1 DEF Before
  <2> QED
    BY <1>2, <1>4, <1>5, <1>7, <1>9, <2>1, <2>3, <2>4 DEF ClientInOrder
<1>12. CASE Call(c)
  <2>1. /\ client[c].at = "ready" /\ toClient' = toClient
        /\ client' = [client EXCEPT ![c].at = "calling", ![c].sequence = @ + 1]
    BY <1>12 DEF Call
  <2>2. /\ client'[c].at = "calling" /\ client'[c].id = client[c].id /\ client'[c].epoch = client[c].epoch
        /\ client'[c].stream = client[c].stream /\ client'[c].acked = client[c].acked
    BY <1>1, <2>1 DEF ClientRecord
  <2>3. PICK operation \in Operations : Send(c, Sound(Request(c, client[c].sequence + 1, operation)))
    BY <1>12 DEF Call
  <2>4. client[c].sequence + 1 \in Nat /\ client[c].id # 0
        /\ operation \in {"operate", "shutdown", "unknown"}
    BY <1>1, <1>9, <2>1 DEF ClientRecord, Operations
  <2>5. PICK u : u = Sound(Request(c, client[c].sequence + 1, operation))
    OBVIOUS
  <2>6. u \in Seq(GenuineUnit)
    BY <1>1, <2>4, <2>5, RequestGenuine
  <2>7. toServer'[c] \in Seq(GenuineUnit)
    BY <1>6, <2>3, <2>5, <2>6
  <2> QED
    BY <1>2, <1>4, <1>5, <2>1, <2>2, <2>4, <2>7 DEF ClientInOrder, Before
<1>13. CASE Stray(c)
  <2>1. client[c].at = "ready" /\ toClient' = toClient /\ Become(c, "calling") /\ client[c].id # 0
    BY <1>9, <1>13 DEF Stray
  <2>2. PICK u \in Strays(c) : Send(c, u)
    BY <1>13 DEF Stray
  <2>3. client[c].sequence \in Nat /\ scenario.calls + 1 \in Nat
    BY <1>1 DEF ClientRecord
  <2>4. u \in Seq(GenuineUnit)
    <3>1. CASE u = Sound(Request(c, client[c].sequence, "operate"))
      BY <1>1, <2>1, <2>3, <3>1, RequestGenuine
    <3>2. CASE u = Sound(Request(c, scenario.calls + 1, "unknown"))
      BY <1>1, <2>1, <2>3, <3>2, RequestGenuine
    <3>3. CASE u = Sound([Request(c, scenario.calls + 1, "operate") EXCEPT !.type = "Goodbye"])
      BY <1>1, <2>1, <2>3, <3>3, RequestGenuine
    <3>4. CASE u = EncodeFrame(Request(c, scenario.calls + 1, "operate"), "Complete", "Corrupt")
      BY <1>1, <2>1, <2>3, <3>4, RequestGenuine
    <3>5. CASE \E d \in Connections : client[d].id # 0 /\ u = Sound(Request(d, scenario.calls, "operate"))
      BY <1>1, <3>5, RequestGenuine
    <3> QED
      BY <3>1, <3>2, <3>3, <3>4, <3>5 DEF Strays
  <2>5. toServer'[c] \in Seq(GenuineUnit)
    BY <1>6, <2>2, <2>4
  <2>6. /\ client'[c].at = "calling"
        /\ client'[c].id = client[c].id /\ client'[c].epoch = client[c].epoch
        /\ client'[c].stream = client[c].stream /\ client'[c].acked = client[c].acked
    BY <1>7, <2>1
  <2>7. ClientInOrder(c)'
    BY <1>4, <1>5, <2>1, <2>6 DEF ClientInOrder, Before
  <2> QED
    BY <1>2, <2>1, <2>5, <2>6, <2>7
<1>14. CASE Receive(c)
  <2>1. toServer' = toServer /\ (toClient' = toClient \/ toClient' = [toClient EXCEPT ![c] = <<>>])
    BY <1>14 DEF Receive
  <2>2. toClient'[c] \in Seq(OwedUnit(c))
    BY <1>2, <2>1, EmptySeq
  <2> DEFINE fed == Feed(client[c].stream, toClient[c])
             outcome == NextOutcome(fed)
             in == /\ outcome.status = "Complete" /\ outcome.frame.type = "HelloAck"
                   /\ outcome.frame.payload = "accepted"
             ok == /\ outcome.status = "Complete" /\ IsAnswer(c, outcome.frame)
                   /\ outcome.frame.payload = "ok"
  <2>3. \/ /\ client[c].at = "greeting"
           /\ client' = [client EXCEPT ![c].stream = AfterNext(fed),
                           ![c].at = IF in THEN "ready" ELSE "closed",
                           ![c].id = IF in THEN outcome.frame.session ELSE @,
                           ![c].epoch = IF in THEN outcome.frame.epoch ELSE @]
        \/ /\ client[c].at = "calling"
           /\ client' = [client EXCEPT ![c].stream = AfterNext(fed), ![c].at = "ready",
                           ![c].acked = IF ok THEN @ \cup {client[c].sequence} ELSE @]
        \/ Leave(c)
    BY <1>14, Zenon DEF Receive
  <2>4. fed \in Stream /\ fed.buffer \in Seq(OwedUnit(c)) /\ AfterNext(fed).buffer \in Seq(OwedUnit(c))
    <3>1. fed \in Stream
      BY <1>1, <1>2, FeedType
    <3>2. fed.buffer \in Seq(OwedUnit(c))
      <4>1. toClient[c] \in Seq(Unit)
        BY <1>2
      <4> QED
        BY <1>1, <1>2, <4>1, FeedOf
    <3> HIDE DEF fed
    <3> QED
      BY <3>1, <3>2, AfterNextType
  <2>5. outcome.status = "Complete" =>
          /\ outcome.frame.session \in Nat /\ outcome.frame.epoch \in Nat /\ Owed(c, outcome.frame)
    <3>1. SUFFICES ASSUME outcome.status = "Complete"
                   PROVE  outcome.frame.session \in Nat /\ outcome.frame.epoch \in Nat /\ Owed(c, outcome.frame)
      OBVIOUS
    <3>2. outcome.frame \in Frame
      BY <2>4, <3>1, OutcomeType
    <3>3. PICK u \in OwedUnit(c) : outcome.frame = u.frame
      BY <2>4, <3>1, OutcomeOf
    <3> QED
      BY <3>2, <3>3 DEF OwedUnit, Frame, PlainFrame, CallFrame
  <2>6. CASE /\ client[c].at = "greeting"
             /\ client' = [client EXCEPT ![c].stream = AfterNext(fed),
                           ![c].at = IF in THEN "ready" ELSE "closed",
                           ![c].id = IF in THEN outcome.frame.session ELSE @,
                           ![c].epoch = IF in THEN outcome.frame.epoch ELSE @]
    <3>1. PICK id, e : id = outcome.frame.session /\ e = outcome.frame.epoch
      OBVIOUS
    <3>2. in => id \in Nat /\ e \in Nat /\ Names(c, id, e)
      BY <2>5, <3>1 DEF Owed
    <3>3. in => id # 0 /\ Names(c, id, e)'
      BY <3>2 DEF Remembered, Names
    <3>4. /\ client'[c].stream = AfterNext(fed) /\ client'[c].acked = client[c].acked
          /\ client'[c].at = (IF in THEN "ready" ELSE "closed")
          /\ client'[c].id = (IF in THEN id ELSE client[c].id)
          /\ client'[c].epoch = (IF in THEN e ELSE client[c].epoch)
      <4> HIDE DEF fed, in
      <4> QED
        BY <1>1, <2>6, <3>1 DEF ClientRecord
    <3> HIDE DEF fed, in
    <3>5. ClientInOrder(c)'
      <4>1. CASE in
        BY <1>5, <3>3, <3>4, <4>1 DEF ClientInOrder, Before
      <4>2. CASE ~in
        BY <1>4, <1>5, <3>4, <4>2 DEF ClientInOrder, Before
      <4> QED
        BY <4>1, <4>2
    <3> QED
      BY <1>2, <2>1, <2>2, <2>4, <3>4, <3>5
  <2>7. CASE /\ client[c].at = "calling"
             /\ client' = [client EXCEPT ![c].stream = AfterNext(fed), ![c].at = "ready",
                             ![c].acked = IF ok THEN @ \cup {client[c].sequence} ELSE @]
    <3>1. ok => WasDone(c, client[c].sequence)
      BY <2>5 DEF Owed, IsAnswer
    <3>2. ok => WasDone(c, client[c].sequence)'
      <4>1. PICK n : n = client[c].sequence
        OBVIOUS
      <4>2. ok => WasDone(c, n)'
        BY <3>1, <4>1 DEF Remembered
      <4>3. client'[c].sequence = n
        <5> HIDE DEF fed, ok
        <5> QED
          BY <1>1, <2>7, <4>1 DEF ClientRecord
      <4> QED
        BY <4>2, <4>3 DEF WasDone
    <3> HIDE DEF fed, ok
    <3>3. /\ client'[c].stream = AfterNext(fed) /\ client'[c].at = "ready"
          /\ client'[c].id = client[c].id /\ client'[c].epoch = client[c].epoch
          /\ client'[c].acked \subseteq client[c].acked \cup {client[c].sequence}
          /\ ~ok => client'[c].acked = client[c].acked
          /\ client'[c].sequence = client[c].sequence
      BY <1>1, <2>7 DEF ClientRecord
    <3>4. \A n \in client'[c].acked : WasDone(c, n)'
      BY <1>5, <3>2, <3>3 DEF WasDone
    <3>5. ClientInOrder(c)'
      BY <1>4, <1>9, <2>7, <3>3, <3>4 DEF ClientInOrder, Before
    <3> QED
      BY <1>2, <2>1, <2>2, <2>4, <3>3, <3>5
  <2> QED
    BY <1>2, <1>8, <2>1, <2>2, <2>3, <2>6, <2>7
<1>15. CASE Close(c) \/ Die(c)
  <2>1. Leave(c) /\ toServer' = toServer /\ toClient' = [toClient EXCEPT ![c] = <<>>]
    BY <1>15 DEF Close, Die
  <2>2. toClient'[c] \in Seq(OwedUnit(c))
    BY <1>2, <2>1, EmptySeq
  <2> QED
    BY <1>2, <1>8, <2>1, <2>2
<1> QED
  BY <1>10, <1>11, <1>12, <1>13, <1>14, <1>15 DEF ClientStep

\* A connection that is left alone, or whose server side is gone.
LEMMA WireKept ==
  ASSUME Types, Types', Remembered, NEW c \in Connections, Contents(c), ClientInOrder(c),
         client'[c] = client[c], toClient'[c] = toClient[c],
         toServer'[c] = toServer[c] \/ toServer'[c] = <<>>,
         session'[c].stream = session[c].stream \/ session'[c].stream = NewStream
  PROVE  Contents(c)' /\ ClientInOrder(c)'
<1>1. toServer[c] \in Seq(GenuineUnit) /\ session[c].stream.buffer \in Seq(GenuineUnit)
      /\ toClient[c] \in Seq(OwedUnit(c)) /\ client[c].stream.buffer \in Seq(OwedUnit(c))
  BY DEF Contents
<1>2. <<>> \in Seq(GenuineUnit) /\ NewStream.buffer = <<>>
  BY EmptySeq DEF NewStream
<1>3. toServer'[c] \in Seq(GenuineUnit) /\ session'[c].stream.buffer \in Seq(GenuineUnit)
  BY <1>1, <1>2
<1>4. toClient'[c] \in Seq(OwedUnit(c)')
  <2>1. OwedUnit(c) \subseteq OwedUnit(c)'
    BY CarriedStays
  <2> QED
    BY <1>1, <2>1, SeqMonotone
<1>5. client'[c].stream.buffer \in Seq(OwedUnit(c))
  BY <1>1
<1> QED
  BY <1>3, <1>4, <1>5, ContentsKept, ClientKept

LEMMA WireContentsStep ==
  ASSUME LifeInvariant, Types', WireContents, HandledInOrder, Remembered, Next
  PROVE  WireContents'
<1>1. Types /\ \A c \in Connections : Contents(c) /\ ClientInOrder(c)
  BY DEF LifeInvariant, WireContents
<1>2. /\ toServer \in [Connections -> Seq(Unit)] /\ toClient \in [Connections -> Seq(Unit)]
      /\ session \in [Connections -> SessionRecord]
  BY <1>1 DEF Types, PeersType, SessionsType
<1>3. ASSUME UNCHANGED <<client, toClient>>,
             \A c \in Connections : toServer'[c] = toServer[c] \/ toServer'[c] = <<>>,
             \A c \in Connections : \/ session'[c].stream = session[c].stream
                                    \/ session'[c].stream = NewStream
      PROVE  WireContents'
  <2>1. ASSUME NEW c \in Connections PROVE Contents(c)' /\ ClientInOrder(c)'
    <3>1. /\ Contents(c) /\ ClientInOrder(c) /\ client'[c] = client[c] /\ toClient'[c] = toClient[c]
          /\ toServer'[c] = toServer[c] \/ toServer'[c] = <<>>
          /\ session'[c].stream = session[c].stream \/ session'[c].stream = NewStream
      BY <1>1, <1>3
    <3> QED
      BY <1>1, <3>1, WireKept
  <2> QED
    BY <2>1 DEF WireContents
<1>4. CASE Start
  <2>1. UNCHANGED <<client, toClient, toServer, session>>
    BY <1>4 DEF Start, peers
  <2> QED
    BY <1>3, <2>1
<1>5. CASE Kill
  <2>1. UNCHANGED <<client, toClient>>
        /\ \A c \in Connections : toServer'[c] = <<>> /\ session'[c].stream = NewStream
    BY <1>5 DEF Kill, NoSession
  <2> QED
    BY <1>3, <2>1
<1>6. CASE Serve
  <2>1. UNCHANGED <<client, toClient, toServer>>
    BY <1>6 DEF Serve, Accept, Spawn, RegisterThread, peers
  <2>2. \A c \in Connections : \/ session'[c].stream = session[c].stream
                               \/ session'[c].stream = NewStream
    <3>1. CASE Spawn
      BY <3>1 DEF Spawn, NoSession
    <3>2. CASE session' = session
      BY <3>2
    <3> QED
      BY <1>6, <3>1, <3>2 DEF Serve, Accept, RegisterThread
  <2> QED
    BY <1>3, <2>1, <2>2
<1>7. ASSUME NEW k \in Callers, RequestShutdown(k) PROVE WireContents'
  <2>1. UNCHANGED <<client, toClient, session>>
    BY <1>7 DEF RequestShutdown, CloseListener, CopySockets, CloseSockets, TakeThreads, Join, peers
  <2>2. \A c \in Connections : toServer'[c] = toServer[c] \/ toServer'[c] = <<>>
    <3>1. CASE CloseSockets(k)
      BY <3>1 DEF CloseSockets
    <3>2. CASE toServer' = toServer
      BY <3>2
    <3> QED
      BY <1>7, <3>1, <3>2 DEF RequestShutdown, CloseListener, CopySockets, TakeThreads, Join, peers
  <2> QED
    BY <1>3, <2>1, <2>2
<1>8. ASSUME NEW c \in Connections, SessionThread(c) PROVE WireContents'
  <2>1. /\ toServer'[c] \in Seq(GenuineUnit) /\ session'[c].stream.buffer \in Seq(GenuineUnit)
        /\ \A d \in Connections : d # c => toServer'[d] = toServer[d]
        /\ \/ toClient' = toClient
           \/ \E f \in Frame : Reply(c, f) /\ Owed(c, f)'
    BY <1>8, SessionContents
  <2>2. UNCHANGED client /\ \A d \in Connections : d # c => session'[d] = session[d]
    BY <1>1, <1>8, SessionMoves, SessionIds
  <2>3. /\ toClient'[c] \in Seq(OwedUnit(c)')
        /\ \A d \in Connections : d # c => toClient'[d] = toClient[d]
    <3>1. toClient[c] \in Seq(OwedUnit(c))
      BY <1>1 DEF Contents
    <3>2. CASE toClient' = toClient
      <4>1. OwedUnit(c) \subseteq OwedUnit(c)'
        BY <1>1, CarriedStays
      <4>2. toClient[c] \in Seq(OwedUnit(c)')
        BY <3>1, <4>1, SeqMonotone
      <4> QED
        BY <3>2, <4>2
    <3>3. CASE \E f \in Frame : Reply(c, f) /\ Owed(c, f)'
      BY <1>1, <3>1, <3>3, ReplyOwed
    <3> QED
      BY <2>1, <3>2, <3>3
  <2>4. Contents(c)' /\ ClientInOrder(c)'
    <3>1. client'[c].stream.buffer \in Seq(OwedUnit(c)) /\ client'[c] = client[c]
      BY <1>1, <2>2 DEF Contents
    <3> QED
      BY <1>1, <2>1, <2>3, <3>1, ContentsKept, ClientKept
  <2>5. ASSUME NEW d \in Connections, d # c PROVE Contents(d)' /\ ClientInOrder(d)'
    <3>1. /\ Contents(d) /\ ClientInOrder(d) /\ client'[d] = client[d] /\ toClient'[d] = toClient[d]
          /\ toServer'[d] = toServer[d] /\ session'[d].stream = session[d].stream
      BY <1>1, <2>1, <2>2, <2>3, <2>5
    <3> QED
      BY <1>1, <3>1, WireKept
  <2> QED
    BY <2>4, <2>5 DEF WireContents
<1>9. ASSUME NEW c \in Connections, ClientStep(c) PROVE WireContents'
  <2>1. /\ toServer'[c] \in Seq(GenuineUnit) /\ toClient'[c] \in Seq(OwedUnit(c))
        /\ client'[c].stream.buffer \in Seq(OwedUnit(c)) /\ ClientInOrder(c)'
    BY <1>9, ClientContents
  <2>2. /\ UNCHANGED session
        /\ \A d \in Connections : d # c => /\ client'[d] = client[d] /\ toServer'[d] = toServer[d]
                                           /\ toClient'[d] = toClient[d]
    BY <1>1, <1>9, ClientMoves
  <2>3. Contents(c)'
    <3>1. session'[c].stream.buffer \in Seq(GenuineUnit)
      BY <1>1, <2>2 DEF Contents
    <3>2. OwedUnit(c) \subseteq OwedUnit(c)'
      BY <1>1, CarriedStays
    <3>3. toClient'[c] \in Seq(OwedUnit(c)')
      BY <2>1, <3>2, SeqMonotone
    <3> QED
      BY <1>1, <2>1, <3>1, <3>3, ContentsKept
  <2>4. ASSUME NEW d \in Connections, d # c PROVE Contents(d)' /\ ClientInOrder(d)'
    <3>1. /\ Contents(d) /\ ClientInOrder(d) /\ client'[d] = client[d] /\ toClient'[d] = toClient[d]
          /\ toServer'[d] = toServer[d] /\ session'[d].stream = session[d].stream
      BY <1>1, <2>2, <2>4
    <3> QED
      BY <1>1, <3>1, WireKept
  <2> QED
    BY <2>1, <2>3, <2>4 DEF WireContents
<1> QED
  BY <1>4, <1>5, <1>6, <1>7, <1>8, <1>9 DEF Next, ClientStep

-----------------------------------------------------------------------------
(* What the runtime was asked *)

\* A history nobody adds to.
LEMMA HistoryKept ==
  ASSUME Types, Types', Remembered, NEW c \in Connections, History(c), handled'[c] = handled[c]
  PROVE  History(c)'
<1>1. \A f, e : Own(c, f, e) => Own(c, f, e)'
  BY CarriedStays
<1>2. \A i \in 1..Len(handled'[c]) : Own(c, handled[c][i].frame, handled[c][i].epoch)'
  <2>1. ASSUME NEW i \in 1..Len(handled[c]) PROVE Own(c, handled[c][i].frame, handled[c][i].epoch)'
    <3>1. PICK f, e : f = handled[c][i].frame /\ e = handled[c][i].epoch
      OBVIOUS
    <3>2. Own(c, f, e)
      BY <3>1 DEF History
    <3>3. Own(c, f, e)'
      BY <1>1, <3>2
    <3> QED
      BY <3>1, <3>3 DEF Own
  <2> QED
    BY <2>1
<1>3. \A i, j \in 1..Len(handled'[c]) :
        i < j => handled'[c][i].frame.sequence < handled'[c][j].frame.sequence
  BY DEF History
<1> QED
  BY <1>2, <1>3 DEF History

\* A session that nobody touches.
LEMMA SessionKept ==
  ASSUME Types, Types', Remembered, NEW c \in Connections, HandledUpTo(c),
         handled'[c] = handled[c], session'[c] = session[c], epoch' = epoch
  PROVE  HandledUpTo(c)'
<1>1. PICK f, n : f = session[c].request[1] /\ n = session[c].last
  OBVIOUS
<1>2. session[c].at = "dispatch" => Own(c, f, epoch)'
  <2>1. session[c].at = "dispatch" => Own(c, f, epoch)
    BY <1>1 DEF HandledUpTo
  <2>2. PICK e : e = epoch
    OBVIOUS
  <2>3. session[c].at = "dispatch" => Own(c, f, e)'
    BY <2>1, <2>2, CarriedStays
  <2> QED
    BY <2>2, <2>3 DEF Own
<1>3. session'[c].at = "dispatch" => Own(c, session[c].request[1], epoch)'
  BY <1>1, <1>2 DEF Own
<1> QED
  BY <1>3 DEF HandledUpTo, SequencesUpTo, WasDone

\* A session that goes on without a request in hand.
LEMMA SessionMovesOn ==
  ASSUME NEW c \in Connections, handled'[c] = handled[c], session'[c].last = session[c].last,
         \/ session'[c].at \in {"none", "close", "erase", "end"}
         \/ session'[c].at \in {"hello", "admit", "welcome"} /\ handled[c] = <<>>
         \/ session'[c].at \in {"loop", "read"} /\ SequencesUpTo(c, session[c].last)
  PROVE  HandledUpTo(c)'
<1>1. session'[c].at \notin {"dispatch", "answer"}
  OBVIOUS
<1>2. session'[c].at \in {"hello", "admit", "welcome"} => handled'[c] = <<>>
  OBVIOUS
<1>3. session'[c].at \in {"loop", "read"} => SequencesUpTo(c, session[c].last)'
  BY DEF SequencesUpTo
<1> QED
  BY <1>1, <1>2, <1>3 DEF HandledUpTo

\* The frame a session takes for a request is its own client's, of this epoch.
LEMMA StandsIsOwn ==
  ASSUME LifeInvariant, WireContents, alive, NEW c \in Connections, session[c].at = "loop",
         NextOutcome(session[c].stream).status = "Complete",
         NEW f, f = NextOutcome(session[c].stream).frame, RequestStands(c, f)
  PROVE  Own(c, f, epoch)
<1>1. session[c].stream \in Stream
  BY DEF LifeInvariant, Types, SessionsType, SessionRecord
<1>2. session[c].stream.buffer \in Seq(GenuineUnit)
  BY DEF WireContents, Contents
<1>3. PICK u \in GenuineUnit : f = u.frame
  BY <1>1, <1>2, OutcomeOf
<1>4. f.payload \in Operations /\ f.session = session[c].id /\ f.epoch = epoch
  BY DEF RequestStands
<1>5. f \in CallFrame /\ f.session # 0 /\ f.session = client[f.by].id /\ f.epoch = client[f.by].epoch
  BY <1>3, <1>4 DEF GenuineUnit, Genuine
<1>6. f.by \in Connections
  BY <1>5 DEF CallFrame
<1>7. Names(f.by, client[f.by].id, client[f.by].epoch)
  BY <1>5, <1>6 DEF WireContents, ClientInOrder
<1>8. f.by = c
  BY <1>4, <1>5, <1>7 DEF Names
<1> QED
  BY <1>4, <1>5, <1>8 DEF Own

\* A session thread's step, seen from its own connection.
LEMMA SessionHandles ==
  ASSUME LifeInvariant, Types', WireContents, HandledInOrder, Remembered,
         NEW c \in Connections, SessionThread(c)
  PROVE  HandledUpTo(c)' /\ History(c)'
<1>1. /\ session \in [Connections -> SessionRecord] /\ session[c] \in SessionRecord
      /\ handled \in [Connections -> Seq(Done)] /\ SessionOK(session[c], session_counter)
      /\ alive /\ Types /\ epoch' = epoch /\ Len(handled[c]) \in Nat
  BY SessionMoves, LenProperties DEF LifeInvariant, Types, SessionsType, PeersType, process
<1>2. HandledUpTo(c) /\ History(c)
  BY DEF HandledInOrder
<1>3. handled' = handled => History(c)'
  BY <1>1, <1>2, HistoryKept
<1>4. ASSUME NEW p, Goto(c, p)
      PROVE  session'[c].at = p /\ session'[c].last = session[c].last
  BY <1>1, <1>4 DEF Goto, SessionRecord
<1>5. CASE ReadMore(c)
  <2>1. handled' = handled /\ session[c].at \in {"hello", "read"}
    BY <1>5 DEF ReadMore, Running
  <2>2. /\ session'[c].last = session[c].last
        /\ \/ session'[c].at = "close"
           \/ session[c].at = "hello" /\ session'[c].at = "hello"
           \/ session[c].at = "read" /\ session'[c].at = "loop"
    <3>1. CASE Goto(c, "close")
      BY <1>4, <3>1
    <3>2. CASE \E n \in 1..Len(toServer[c]) :
                 LET fed == Feed(session[c].stream, SubSeq(toServer[c], 1, n))
                 IN session' = [session EXCEPT ![c].stream = fed,
                      ![c].at = IF fed.poisoned THEN "close" ELSE IF @ = "read" THEN "loop" ELSE @]
      <4>1. PICK fed : session' = [session EXCEPT ![c].stream = fed,
                      ![c].at = IF fed.poisoned THEN "close" ELSE IF @ = "read" THEN "loop" ELSE @]
        BY <3>2
      <4>2. session'[c].last = session[c].last
        BY <1>1, <4>1 DEF SessionRecord
      <4>3. session'[c].at = IF fed.poisoned THEN "close"
                             ELSE IF session[c].at = "read" THEN "loop" ELSE session[c].at
        BY <1>1, <4>1 DEF SessionRecord
      <4> QED
        BY <2>1, <4>2, <4>3
    <3> QED
      BY <1>5, <3>1, <3>2 DEF ReadMore
  <2>3. HandledUpTo(c)'
    BY <1>2, <2>1, <2>2, SessionMovesOn DEF HandledUpTo
  <2> QED
    BY <1>3, <2>1, <2>3
<1>6. CASE Handshake(c)
  <2>1. handled' = handled /\ session[c].at = "hello"
    BY <1>6 DEF Handshake, Running
  <2>2. PICK p \in {"admit", "close"} :
          session' = [session EXCEPT ![c].stream = AfterNext(@), ![c].at = p]
    BY <1>6 DEF Handshake
  <2>3. session'[c].at \in {"admit", "close"} /\ session'[c].last = session[c].last
    BY <1>1, <2>2 DEF SessionRecord
  <2>4. HandledUpTo(c)'
    BY <1>2, <2>1, <2>3, SessionMovesOn DEF HandledUpTo
  <2> QED
    BY <1>3, <2>1, <2>4
<1>7. CASE Admit(c)
  <2>1. handled' = handled /\ session[c].at = "admit" /\ (Goto(c, "welcome") \/ Goto(c, "close"))
    BY <1>7 DEF Admit, Running
  <2>2. session'[c].at \in {"welcome", "close"} /\ session'[c].last = session[c].last
    BY <1>4, <2>1
  <2>3. HandledUpTo(c)'
    BY <1>2, <2>1, <2>2, SessionMovesOn DEF HandledUpTo
  <2> QED
    BY <1>3, <2>1, <2>3
<1>8. CASE Welcome(c)
  <2>1. handled' = handled /\ session[c].at = "welcome"
    BY <1>8 DEF Welcome, Running
  <2>2. session'[c].at \in {"loop", "close"} /\ session'[c].last = session[c].last
    <3>1. CASE session' = [session EXCEPT ![c].at = "loop", ![c].id = session_counter']
      BY <1>1, <3>1 DEF SessionRecord
    <3> QED
      BY <1>4, <1>8, <3>1 DEF Welcome
  <2>3. SequencesUpTo(c, session[c].last)
    <3>1. handled[c] = <<>>
      BY <1>2, <2>1 DEF HandledUpTo
    <3>2. Len(handled[c]) = 0
      BY <3>1
    <3> QED
      BY <3>2 DEF SequencesUpTo
  <2>4. HandledUpTo(c)'
    BY <2>1, <2>2, <2>3, SessionMovesOn
  <2> QED
    BY <1>3, <2>1, <2>4
<1>9. CASE LoopTop(c)
  <2>1. handled' = handled /\ session[c].at = "loop"
    BY <1>9 DEF LoopTop, Running
  <2>2. SequencesUpTo(c, session[c].last)
    BY <1>2, <2>1 DEF HandledUpTo
  <2> DEFINE g == NextOutcome(session[c].stream).frame
  <2>3. CASE session'[c].at \in {"close", "read"} /\ session'[c].last = session[c].last
    <3>1. HandledUpTo(c)'
      BY <2>1, <2>2, <2>3, SessionMovesOn
    <3> QED
      BY <1>3, <2>1, <3>1
  <2>4. CASE /\ NextOutcome(session[c].stream).status = "Complete" /\ RequestStands(c, g)
             /\ session' = [session EXCEPT ![c].stream = AfterNext(@), ![c].at = "dispatch",
                  ![c].request = <<g>>, ![c].last = g.sequence]
    <3>1. PICK f : f = g
      OBVIOUS
    <3>2. Own(c, f, epoch) /\ f \in CallFrame
      BY <1>1, <2>1, <2>4, <3>1, StandsIsOwn DEF Own
    <3>3. session[c].last < f.sequence /\ f.sequence \in Nat /\ session[c].last \in Nat
      BY <1>1, <2>4, <3>1, <3>2 DEF RequestStands, CallFrame, SessionRecord
    <3>4. session' = [session EXCEPT ![c].stream = AfterNext(@), ![c].at = "dispatch",
                  ![c].request = <<f>>, ![c].last = f.sequence]
      BY <2>4, <3>1
    <3> HIDE DEF g
    <3>5. session'[c].at = "dispatch" /\ session'[c].request = <<f>> /\ session'[c].last = f.sequence
      BY <1>1, <3>4 DEF SessionRecord
    <3>6. \A i \in 1..Len(handled[c]) : handled[c][i].frame.sequence \in Nat
      <4>1. \A i \in 1..Len(handled[c]) : handled[c][i] \in Done
        BY <1>1, ElementOfSeq
      <4> QED
        BY <4>1 DEF Done, Frame, PlainFrame, CallFrame
    <3>7. \A i \in 1..Len(handled'[c]) : handled'[c][i].frame.sequence < session'[c].last
      BY <2>1, <2>2, <3>3, <3>5, <3>6 DEF SequencesUpTo
    <3>8. Own(c, f, epoch)'
      <4>1. PICK e : e = epoch
        OBVIOUS
      <4>2. Own(c, f, e)'
        BY <1>1, <3>2, <4>1, CarriedStays
      <4> QED
        BY <1>1, <4>1, <4>2 DEF Own
    <3>9. Own(c, session[c].request[1], epoch)'
      BY <3>5, <3>8 DEF Own
    <3>10. HandledUpTo(c)'
      BY <3>5, <3>7, <3>9 DEF HandledUpTo
    <3> QED
      BY <1>3, <2>1, <3>10
  <2>5. CASE session' = [session EXCEPT ![c].stream = AfterNext(@), ![c].at = "close"]
    <3>1. session'[c].at = "close" /\ session'[c].last = session[c].last
      BY <1>1, <2>5 DEF SessionRecord
    <3> QED
      BY <2>3, <3>1
  <2>6. CASE Goto(c, "close") \/ Goto(c, "read")
    BY <1>4, <2>3, <2>6
  <2> QED
    BY <1>9, <2>4, <2>5, <2>6 DEF LoopTop
<1>10. CASE CloseSocket(c)
  <2>1. handled' = handled /\ session'[c].at = "erase"
    BY <1>1, <1>10 DEF CloseSocket, NoSession
  <2> QED
    BY <1>3, <2>1 DEF HandledUpTo
<1>11. CASE EraseSocket(c)
  <2>1. handled' = handled /\ Goto(c, "end")
    BY <1>11 DEF EraseSocket, peers
  <2>2. session'[c].at = "end"
    BY <1>4, <2>1
  <2> QED
    BY <1>3, <2>1, <2>2 DEF HandledUpTo
<1>12. CASE Answer(c)
  <2>1. handled' = handled /\ session[c].at = "answer"
    BY <1>12 DEF Answer, Running
  <2>2. PICK p \in {"close", "loop"} : session' = [session EXCEPT ![c].request = <<>>, ![c].at = p]
    BY <1>12 DEF Answer
  <2>3. session'[c].at \in {"close", "loop"} /\ session'[c].last = session[c].last
    BY <1>1, <2>2 DEF SessionRecord
  <2>4. HandledUpTo(c)'
    BY <1>2, <2>1, <2>3, SessionMovesOn DEF HandledUpTo
  <2> QED
    BY <1>3, <2>1, <2>4
<1>13. CASE Dispatch(c)
  <2>1. session[c].at = "dispatch"
    BY <1>13 DEF Dispatch, Running
  <2>2. PICK code \in {"ok", "refused"} :
          /\ session' = [session EXCEPT ![c].at = "answer", ![c].request = <<@[1], code>>]
          /\ handled' = [handled EXCEPT ![c] = Append(@, [frame |-> session[c].request[1],
                                                         epoch |-> epoch, code |-> code])]
    BY <1>13 DEF Dispatch
  <2>3. PICK f, e, n : f = session[c].request[1] /\ e = epoch /\ n = session[c].last
    OBVIOUS
  <2>4. PICK h : h = [frame |-> f, epoch |-> e, code |-> code]
    OBVIOUS
  <2>5. h.frame = f /\ h.epoch = e /\ h.code = code
    BY <2>4
  <2>6. PICK q : q = <<f, code>>
    OBVIOUS
  <2>7. q[1] = f /\ q[2] = code
    BY <2>6
  <2>8. session' = [session EXCEPT ![c].at = "answer", ![c].request = q]
    BY <1>1, <2>2, <2>3, <2>6
  <2>9. session'[c].at = "answer" /\ session'[c].request = q /\ session'[c].last = n
    BY <1>1, <2>3, <2>8 DEF SessionRecord
  <2>10. handled'[c] = Append(handled[c], h)
    BY <1>1, <2>2, <2>3, <2>4
  <2>11. Own(c, f, e) /\ f.sequence = n /\ \A i \in 1..Len(handled[c]) : handled[c][i].frame.sequence < n
    BY <1>2, <2>1, <2>3 DEF HandledUpTo
  <2>12. h \in Done
    <3>1. f \in Frame /\ e \in Nat /\ code \in Codes
      BY <1>1, <2>3, <2>11, ServerAssumption DEF Own, Frame, Codes, Types, ProcessType
    <3> QED
      BY <2>4, <3>1 DEF Done
  <2>13. PICK s \in Seq(Done) : s = handled[c]
    BY <1>1
  <2>14. Len(s) \in Nat
    BY LenProperties
  <2>15. PICK t : t = handled'[c] /\ t = Append(s, h)
    BY <2>10, <2>13
  <2>16. Len(t) = Len(s) + 1 /\ t[Len(s) + 1] = h /\ \A i \in 1..Len(s) : t[i] = s[i]
    BY <2>12, <2>15, AppendProperties
  <2>17. \A i \in 1..Len(t) : i \in 1..Len(s) \/ i = Len(s) + 1
    BY <2>14, <2>16
  <2>18. \A i \in 1..Len(s) : Own(c, s[i].frame, s[i].epoch) /\ s[i].frame.sequence < n
    BY <1>2, <2>11, <2>13 DEF History
  <2>19. \A i \in 1..Len(t) : Own(c, t[i].frame, t[i].epoch) /\ (t[i].frame.sequence < n \/ i = Len(s) + 1)
    BY <2>5, <2>11, <2>16, <2>17, <2>18
  <2>20. \A i \in 1..Len(t) : Own(c, t[i].frame, t[i].epoch)'
    BY <1>1, <2>19, CarriedStays
  <2>21. \A i, j \in 1..Len(s) : i < j => s[i].frame.sequence < s[j].frame.sequence
    BY <1>2, <2>13 DEF History
  <2>22. ASSUME NEW i \in 1..Len(t), NEW j \in 1..Len(t), i < j
         PROVE  t[i].frame.sequence < t[j].frame.sequence
    <3>1. i \in 1..Len(s)
      BY <2>14, <2>16, <2>22
    <3>2. CASE j \in 1..Len(s)
      BY <2>16, <2>21, <2>22, <3>1, <3>2
    <3>3. CASE j = Len(s) + 1
      BY <2>5, <2>11, <2>16, <2>18, <3>1, <3>3
    <3> QED
      BY <2>17, <3>2, <3>3
  <2>23. History(c)'
    <3>1. \A i \in 1..Len(handled'[c]) : Own(c, handled[c][i].frame, handled[c][i].epoch)'
      BY <2>15, <2>20 DEF Own
    <3> QED
      BY <2>15, <2>22, <3>1 DEF History
  <2>24. n \in Nat /\ \A i \in 1..Len(t) : t[i].frame.sequence <= n
    <3>1. n \in Nat
      BY <1>1, <2>3 DEF SessionRecord
    <3>2. \A i \in 1..Len(s) : s[i].frame.sequence \in Nat
      <4>1. \A i \in 1..Len(s) : s[i] \in Done
        BY ElementOfSeq
      <4> QED
        BY <4>1 DEF Done, Frame, PlainFrame, CallFrame
    <3> QED
      BY <2>5, <2>11, <2>16, <2>17, <2>18, <3>1, <3>2
  <2>25. code = "ok" => \E i \in 1..Len(t) : t[i].frame.sequence = f.sequence /\ t[i].code = "ok"
    <3>1. Len(s) + 1 \in 1..Len(t)
      BY <2>14, <2>16
    <3> QED
      BY <2>5, <2>16, <3>1
  <2>26. code = "ok" => WasDone(c, session[c].request[1].sequence)'
    BY <2>7, <2>9, <2>15, <2>25 DEF WasDone
  <2>27. SequencesUpTo(c, session[c].last)'
    BY <2>9, <2>15, <2>24 DEF SequencesUpTo
  <2>28. HandledUpTo(c)'
    BY <2>7, <2>9, <2>26, <2>27 DEF HandledUpTo
  <2> QED
    BY <2>23, <2>28
<1> QED
  BY <1>5, <1>6, <1>7, <1>8, <1>9, <1>10, <1>11, <1>12, <1>13 DEF SessionThread

LEMMA HandledInOrderStep ==
  ASSUME LifeInvariant, Types', AcceptedOnce, WireContents, HandledInOrder, Remembered, Next
  PROVE  HandledInOrder'
<1>1. Types /\ \A c \in Connections : HandledUpTo(c) /\ History(c)
  BY DEF LifeInvariant, HandledInOrder
<1>2. /\ handled \in [Connections -> Seq(Done)] /\ serve.socket \subseteq Connections
      /\ session \in [Connections -> SessionRecord]
  BY <1>1 DEF Types, PeersType, SessionsType, ThreadsType
<1>3. ASSUME UNCHANGED handled,
             \A c \in Connections : \/ session'[c] = session[c] /\ epoch' = epoch
                                    \/ session'[c].at = "none"
                                    \/ session'[c].at = "hello" /\ handled[c] = <<>>
      PROVE  HandledInOrder'
  <2>1. ASSUME NEW c \in Connections PROVE HandledUpTo(c)' /\ History(c)'
    <3>1. HandledUpTo(c) /\ History(c) /\ handled'[c] = handled[c]
      BY <1>1, <1>3
    <3>2. History(c)'
      BY <1>1, <3>1, HistoryKept
    <3>3. CASE session'[c] = session[c] /\ epoch' = epoch
      BY <1>1, <3>1, <3>2, <3>3, SessionKept
    <3>4. CASE session'[c].at = "none" \/ (session'[c].at = "hello" /\ handled[c] = <<>>)
      BY <3>1, <3>2, <3>4 DEF HandledUpTo
    <3> QED
      BY <1>3, <3>3, <3>4
  <2> QED
    BY <2>1 DEF HandledInOrder
<1>4. CASE Start
  <2>1. UNCHANGED <<session, handled>> /\ ~alive
    BY <1>4 DEF Start, peers
  <2>2. \A c \in Connections : session'[c].at = "none"
    BY <2>1 DEF LifeInvariant, NothingWithoutProcess, NoSession
  <2> QED
    BY <1>3, <2>1, <2>2
<1>5. CASE Kill
  <2>1. UNCHANGED handled /\ \A c \in Connections : session'[c].at = "none"
    BY <1>5 DEF Kill, NoSession
  <2> QED
    BY <1>3, <2>1
<1>6. CASE Accept \/ RegisterThread \/ \E k \in Callers : RequestShutdown(k)
  <2>1. UNCHANGED <<session, handled, epoch>>
    BY <1>6 DEF Accept, RegisterThread, RequestShutdown, CloseListener, CopySockets, CloseSockets,
                TakeThreads, Join, peers, process
  <2> QED
    BY <1>3, <2>1
<1>7. CASE Spawn
  <2>1. /\ UNCHANGED <<handled, epoch>> /\ serve.at = "spawn"
        /\ \A c \in Connections : IF c \in serve.socket THEN session'[c].at = "hello"
                                  ELSE session'[c] = session[c]
    BY <1>7 DEF Spawn, process, peers, NoSession
  <2>2. \A c \in serve.socket : handled[c] = <<>>
    BY <2>1 DEF AcceptedOnce, Untouched
  <2> QED
    BY <1>3, <2>1, <2>2
<1>8. ASSUME NEW c \in Connections, SessionThread(c) PROVE HandledInOrder'
  <2>1. HandledUpTo(c)' /\ History(c)'
    BY <1>8, SessionHandles
  <2>2. epoch' = epoch /\ \A d \in Connections : d # c => session'[d] = session[d]
    BY <1>1, <1>8, SessionMoves DEF process
  <2>3. \A d \in Connections : d # c => handled'[d] = handled[d]
    <3>1. handled' = handled \/ \E h \in Done : handled' = [handled EXCEPT ![c] = Append(@, h)]
      BY <1>1, <1>8, SessionIds
    <3> QED
      BY <1>2, <3>1
  <2>4. ASSUME NEW d \in Connections, d # c PROVE HandledUpTo(d)' /\ History(d)'
    <3>1. /\ HandledUpTo(d) /\ History(d) /\ handled'[d] = handled[d] /\ session'[d] = session[d]
          /\ epoch' = epoch
      BY <1>1, <2>2, <2>3, <2>4
    <3> QED
      BY <1>1, <3>1, HistoryKept, SessionKept
  <2> QED
    BY <2>1, <2>4 DEF HandledInOrder
<1>9. ASSUME NEW c \in Connections, ClientStep(c) PROVE HandledInOrder'
  <2>1. UNCHANGED <<session, handled, epoch>>
    BY <1>1, <1>9, ClientMoves DEF process
  <2> QED
    BY <1>3, <2>1
<1> QED
  BY <1>4, <1>5, <1>6, <1>7, <1>8, <1>9 DEF Next, ClientStep, Serve

-----------------------------------------------------------------------------
(* The invariant *)

LEMMA InitWire == Init => WireInvariant
<1> SUFFICES ASSUME Init PROVE WireInvariant
  OBVIOUS
<1>1. LifeInvariant
  BY InitLife
<1>2. /\ backlog = <<>> /\ serve.socket = {}
      /\ \A c \in Connections :
           /\ session[c] = NoSession /\ client[c] = NewClient /\ handled[c] = <<>>
           /\ toServer[c] = <<>> /\ toClient[c] = <<>>
  BY DEF Init
<1>3. Len(<<>>) = 0 /\ NoSession.at = "none" /\ NoSession.stream.buffer = <<>>
      /\ NewClient.at = "new" /\ NewClient.id = 0 /\ NewClient.acked = {}
      /\ NewClient.stream = NewStream /\ NewStream.buffer = <<>>
  BY DEF NoSession, NewClient, NewStream
<1>4. AcceptedOnce
  BY <1>2, <1>3 DEF AcceptedOnce
<1>5. WireContents
  <2>1. ASSUME NEW c \in Connections PROVE Contents(c) /\ ClientInOrder(c)
    <3>1. Contents(c)
      BY <1>2, <1>3, EmptySeq DEF Contents
    <3>2. ClientInOrder(c)
      BY <1>2, <1>3 DEF ClientInOrder, Before
    <3> QED
      BY <3>1, <3>2
  <2> QED
    BY <2>1 DEF WireContents
<1>6. HandledInOrder
  BY <1>2, <1>3 DEF HandledInOrder, HandledUpTo, History
<1> QED
  BY <1>1, <1>4, <1>5, <1>6 DEF WireInvariant

LEMMA NextWire == WireInvariant /\ [Next]_vars => WireInvariant'
<1> SUFFICES ASSUME WireInvariant, [Next]_vars PROVE WireInvariant'
  OBVIOUS
<1>1. LifeInvariant /\ Types /\ AcceptedOnce /\ WireContents /\ HandledInOrder
  BY DEF WireInvariant, LifeInvariant
<1>2. LifeInvariant' /\ Types'
  BY <1>1, NextLife DEF LifeInvariant
<1>3. CASE Next
  <2>1. Remembered
    BY <1>1, <1>2, <1>3, NextRemembers
  <2>2. AcceptedOnce'
    BY <1>1, <1>2, <1>3, AcceptedOnceStep
  <2>3. WireContents'
    BY <1>1, <1>2, <1>3, <2>1, WireContentsStep
  <2>4. HandledInOrder'
    BY <1>1, <1>2, <1>3, <2>1, HandledInOrderStep
  <2> QED
    BY <1>2, <2>2, <2>3, <2>4 DEF WireInvariant
<1>4. CASE UNCHANGED vars
  <2>1. UNCHANGED <<epoch, alive, serve, backlog, session_counter, session, client, toServer,
                    toClient, handled>>
    BY <1>4 DEF vars, process, listener, peers
  <2>2. \A c \in Connections : \A n : WasDone(c, n)' <=> WasDone(c, n)
    BY <2>1 DEF WasDone
  <2>3. \A c, id, e : Names(c, id, e)' <=> Names(c, id, e)
    BY <2>1 DEF Names
  <2>4. Remembered
    BY <2>1, <2>2, <2>3 DEF Remembered
  <2>5. AcceptedOnce'
    BY <1>1, <2>1 DEF AcceptedOnce, Untouched
  <2>6. WireContents'
    <3>1. ASSUME NEW c \in Connections PROVE Contents(c)' /\ ClientInOrder(c)'
      <4>1. Contents(c) /\ ClientInOrder(c)
        BY <1>1 DEF WireContents
      <4> QED
        BY <1>1, <1>2, <2>1, <2>4, <4>1, WireKept
    <3> QED
      BY <3>1 DEF WireContents
  <2>7. HandledInOrder'
    <3>1. ASSUME NEW c \in Connections PROVE HandledUpTo(c)' /\ History(c)'
      <4>1. HandledUpTo(c) /\ History(c)
        BY <1>1 DEF HandledInOrder
      <4> QED
        BY <1>1, <1>2, <2>1, <2>4, <4>1, HistoryKept, SessionKept
    <3> QED
      BY <3>1 DEF HandledInOrder
  <2> QED
    BY <1>2, <2>5, <2>6, <2>7 DEF WireInvariant
<1> QED
  BY <1>3, <1>4

\* The invariant holds throughout, whatever is assumed of the scheduler and the clients.
LEMMA WireHolds == Init /\ [][Next]_vars => []WireInvariant
BY InitWire, NextWire, PTL

\* A request reaches the runtime only on its maker's connection, in the epoch it was made for,
\* once and in the order of the calls, for every number of connections, restarts and calls and
\* whatever frames the clients send under each other's handshakes.
THEOREM OwnRequestsTheorem == (Spec \/ SpecWithEndingClients) => []OwnRequestsOnce
<1>1. WireInvariant => OwnRequestsOnce
  <2> SUFFICES ASSUME WireInvariant, NEW c \in Connections
               PROVE  /\ \A i \in DOMAIN handled[c] :
                           /\ handled[c][i].frame.by = c
                           /\ handled[c][i].frame.epoch = handled[c][i].epoch
                           /\ handled[c][i].frame.epoch = client[c].epoch
                      /\ \A i, j \in DOMAIN handled[c] :
                           i < j => handled[c][i].frame.sequence < handled[c][j].frame.sequence
    BY DEF OwnRequestsOnce
  <2>1. handled[c] \in Seq(Done)
    BY DEF WireInvariant, LifeInvariant, Types, PeersType
  <2>2. DOMAIN handled[c] = 1..Len(handled[c])
    BY <2>1, LenProperties
  <2>3. History(c)
    BY DEF WireInvariant, HandledInOrder
  <2> QED
    BY <2>2, <2>3 DEF History, Own
<1> QED
  BY <1>1, WireHolds, PTL DEF Spec, SpecWithEndingClients

\* A client that was told "ok" for a call had that very call done by the runtime.
THEOREM AcknowledgedTheorem == (Spec \/ SpecWithEndingClients) => []AcknowledgedWasDone
<1>1. WireInvariant => AcknowledgedWasDone
  <2> SUFFICES ASSUME WireInvariant, NEW c \in Connections, NEW n \in client[c].acked
               PROVE  \E i \in DOMAIN handled[c] :
                        handled[c][i].frame.sequence = n /\ handled[c][i].code = "ok"
    BY DEF AcknowledgedWasDone
  <2>1. handled[c] \in Seq(Done)
    BY DEF WireInvariant, LifeInvariant, Types, PeersType
  <2>2. DOMAIN handled[c] = 1..Len(handled[c])
    BY <2>1, LenProperties
  <2>3. WasDone(c, n)
    BY DEF WireInvariant, WireContents, ClientInOrder
  <2> QED
    BY <2>2, <2>3 DEF WasDone
<1> QED
  BY <1>1, WireHolds, PTL DEF Spec, SpecWithEndingClients

-----------------------------------------------------------------------------
(* No good frame poisons a stream *)

LEMMA UnitsCount ==
  ASSUME NEW u \in Seq(Unit), NEW s \in Stream
  PROVE  Len(u) \in Nat /\ Len(Remaining(s)) \in Nat /\ Len(u) + Len(Remaining(s)) \in Nat
<1>1. PICK r \in Seq(Unit) : r = Remaining(s)
  BY RemainingType
<1>2. Len(u) \in Nat /\ Len(r) \in Nat
  BY LenProperties
<1> QED
  BY <1>1, <1>2

LEMMA HeldType ==
  ASSUME Types, NEW c \in Connections
  PROVE  /\ Len(toServer[c]) \in Nat /\ Len(Remaining(session[c].stream)) \in Nat /\ Held(c) \in Nat
         /\ toServer[c] \in Seq(Unit) /\ session[c].stream \in Stream /\ client[c].stream \in Stream
<1>1. toServer[c] \in Seq(Unit) /\ session[c].stream \in Stream /\ client[c].stream \in Stream
  BY DEF Types, PeersType, SessionsType, SessionRecord, ClientRecord
<1>2. /\ Len(toServer[c]) \in Nat /\ Len(Remaining(session[c].stream)) \in Nat
      /\ Len(toServer[c]) + Len(Remaining(session[c].stream)) \in Nat
  BY <1>1, UnitsCount
<1>3. Held(c) \in Nat
  BY <1>2 DEF Held
<1> QED
  BY <1>1, <1>2, <1>3

\* A session that takes nothing new in, and its client.
LEMMA FrameKept ==
  ASSUME Types, Types', NEW c \in Connections, OneFrameOf(c), client'[c] = client[c],
         toClient'[c] = toClient[c], Held(c)' <= Held(c) \/ Over(c)', Busy(c)' => Busy(c),
         Over(c) => Over(c)' \/ Held(c)' = 0,
         session'[c].stream.poisoned => session'[c] = session[c]
  PROVE  OneFrameOf(c)'
<1>1. Held(c) \in Nat
  BY HeldType
<1>2. Held(c)' \in Nat
  <2>1. toServer'[c] \in Seq(Unit) /\ session'[c].stream \in Stream
    BY DEF Types, PeersType, SessionsType, SessionRecord
  <2>2. Len(toServer'[c]) + Len(Remaining(session'[c].stream)) \in Nat
    BY <2>1, UnitsCount
  <2> QED
    BY <2>2 DEF Held
<1>3. Busy(c)' => ~Over(c)'
  BY DEF Busy, Over
<1>4. (~Over(c) => Held(c) <= 2) /\ (Busy(c) => Held(c) = 0 /\ toClient[c] = <<>>)
  BY DEF OneFrameOf
<1>5. (~Over(c) => Held(c) <= 2)'
  BY <1>1, <1>2, <1>4
<1>6. (Busy(c) => Held(c) = 0 /\ toClient[c] = <<>>)'
  BY <1>1, <1>2, <1>3, <1>4
<1>7. ASSUME ~Over(c) => Held(c) = 0 PROVE ~Over(c)' => Held(c)' = 0
  BY <1>1, <1>2, <1>7
<1>8. (toClient[c] # <<>> => /\ Len(toClient[c]) = 2 /\ client[c].at \in {"greeting", "calling"}
                             /\ ~Over(c) => Held(c) = 0)'
  BY <1>7 DEF OneFrameOf
<1>9. (client[c].at \in {"new", "connected", "ready"} => ~Busy(c) /\ (~Over(c) => Held(c) = 0))'
  BY <1>7 DEF OneFrameOf
<1>10. (~client[c].stream.poisoned /\ Len(Remaining(client[c].stream)) = 0)'
  BY DEF OneFrameOf
<1>11. (session[c].stream.poisoned => session[c].at = "close" /\ Damaged(c))'
  BY DEF OneFrameOf, Damaged
<1> QED
  BY <1>5, <1>6, <1>8, <1>9, <1>10, <1>11 DEF OneFrameOf

\* A session that has taken its client's frame in, or has answered it.
LEMMA FrameServed ==
  ASSUME NEW c \in Connections, OneFrameOf(c), client'[c] = client[c],
         client[c].at \notin {"new", "connected", "ready"}, client[c].at \in ClientPlaces,
         toClient'[c] = <<>> \/ (Len(toClient'[c]) = 2 /\ ~Closed(c) /\ ~Busy(c)'),
         Over(c)' \/ Held(c)' = 0,
         session'[c].stream.poisoned => session'[c].at = "close" /\ Damaged(c)'
  PROVE  OneFrameOf(c)'
<1>1. Busy(c)' => ~Over(c)'
  BY DEF Busy, Over
<1>2. (~Over(c) => Held(c) <= 2)' /\ (Busy(c) => Held(c) = 0 /\ toClient[c] = <<>>)'
  BY <1>1
<1>3. toClient'[c] # <<>> => client'[c].at \in {"greeting", "calling"}
  BY DEF ClientPlaces, Closed
<1>4. (toClient[c] # <<>> => /\ Len(toClient[c]) = 2 /\ client[c].at \in {"greeting", "calling"}
                             /\ ~Over(c) => Held(c) = 0)'
  BY <1>3
<1>5. (client[c].at \in {"new", "connected", "ready"} => ~Busy(c) /\ (~Over(c) => Held(c) = 0))'
  OBVIOUS
<1>6. (~client[c].stream.poisoned /\ Len(Remaining(client[c].stream)) = 0)'
  BY DEF OneFrameOf
<1> QED
  BY <1>2, <1>4, <1>5, <1>6 DEF OneFrameOf

\* A reply to a client that has nothing to read yet.
LEMMA ReplyOne ==
  ASSUME Types, NEW c \in Connections, NEW f \in Frame, Reply(c, f), toClient[c] = <<>>
  PROVE  toClient'[c] = <<>> \/ (Len(toClient'[c]) = 2 /\ ~Closed(c))
<1>1. toClient \in [Connections -> Seq(Unit)]
  BY DEF Types, PeersType
<1>2. PICK u : u = Sound(f) /\ u \in Seq(Unit) /\ Len(u) = 2
  BY EncodeFrameType DEF HeaderVerdicts, PayloadVerdicts
<1>3. <<>> \in Seq(Unit) /\ Len(<<>>) = 0
  BY EmptySeq
<1>4. Len(<<>> \o u) = 2
  BY <1>2, <1>3, ConcatProperties
<1>5. CASE c \in open /\ ~Closed(c)
  <2>1. toClient'[c] = <<>> \o u
    BY <1>1, <1>2, <1>5 DEF Reply
  <2> QED
    BY <1>4, <1>5, <2>1
<1>6. CASE ~(c \in open /\ ~Closed(c))
  BY <1>6 DEF Reply
<1> QED
  BY <1>5, <1>6

\* next() of a session that waits for a frame.
LEMMA FrameTaken ==
  ASSUME Types, NEW c \in Connections, OneFrameOf(c), session[c].at \in {"hello", "loop"},
         NextOutcome(session[c].stream).status # "NeedMore", toServer'[c] = toServer[c],
         session'[c].stream = AfterNext(session[c].stream)
  PROVE  /\ toClient[c] = <<>> /\ client[c].at \notin {"new", "connected", "ready"}
         /\ NextOutcome(session[c].stream).status = "Complete" =>
              Held(c)' = 0 /\ ~session'[c].stream.poisoned
         /\ session'[c].stream.poisoned => Damaged(c)'
<1>1. PICK s \in Stream : s = session[c].stream
  BY HeldType
<1>2. PICK m, r \in Nat : m = Len(toServer[c]) /\ r = Len(Remaining(s)) /\ Held(c) = m + r
  BY <1>1, HeldType DEF Held
<1>3. ~Over(c) /\ ~s.poisoned /\ m + r <= 2
  BY <1>1, <1>2 DEF OneFrameOf, Over
<1>4. r >= 1
  BY <1>1, <1>2, <1>3, OutcomeType
<1>5. Held(c) # 0
  BY <1>2, <1>4
<1>6. toClient[c] = <<>> /\ client[c].at \notin {"new", "connected", "ready"}
  BY <1>3, <1>5 DEF OneFrameOf
<1>7. ASSUME NextOutcome(s).status = "Complete" PROVE Held(c)' = 0 /\ ~AfterNext(s).poisoned
  <2>1. Len(Remaining(AfterNext(s))) = r - 2 /\ ~AfterNext(s).poisoned /\ r >= 2
    BY <1>2, <1>7, AfterNextType, OutcomeType
  <2>2. Held(c)' = m + Len(Remaining(AfterNext(s)))
    BY <1>1, <1>2 DEF Held
  <2>3. m + (r - 2) = 0
    BY <1>3, <2>1
  <2> QED
    BY <2>1, <2>2, <2>3
<1>8. ASSUME AfterNext(s).poisoned PROVE Damaged(c)'
  <2>1. NextOutcome(s).status \notin {"Complete", "NeedMore"}
    BY <1>1, <1>8, AfterNextType
  <2>2. PICK i \in 1..r : Remaining(s)[i].verdict # "Complete"
    <3>1. \/ r >= 1 /\ Remaining(s)[1].verdict # "Complete"
          \/ r >= 2 /\ Remaining(s)[2].verdict # "Complete"
      BY <1>2, <1>3, <2>1, OutcomeType
    <3> QED
      BY <1>2, <3>1
  <2>3. s.offset + i \in 1..Len(s.buffer) /\ s.buffer[s.offset + i].verdict # "Complete"
    BY <1>2, <2>2, RemainingType
  <2>4. session'[c].stream.buffer = s.buffer
    BY <1>1, AfterNextType
  <2> QED
    BY <2>3, <2>4 DEF Damaged
<1> QED
  BY <1>1, <1>6, <1>7, <1>8

\* A session thread's step, seen from its own connection.
LEMMA SessionFrames ==
  ASSUME LifeInvariant, Types', NEW c \in Connections, OneFrameOf(c), SessionThread(c)
  PROVE  OneFrameOf(c)' /\ \A d \in Connections : d # c => toClient'[d] = toClient[d]
<1>1. /\ Types /\ session \in [Connections -> SessionRecord] /\ session[c] \in SessionRecord
      /\ toClient \in [Connections -> Seq(Unit)] /\ toServer \in [Connections -> Seq(Unit)]
      /\ client[c].at \in ClientPlaces /\ epoch \in Nat /\ session_counter \in Nat
      /\ SessionOK(session[c], session_counter) /\ session[c].stream \in Stream
  <2>1. /\ Types /\ session \in [Connections -> SessionRecord] /\ session[c] \in SessionRecord
        /\ toClient \in [Connections -> Seq(Unit)] /\ toServer \in [Connections -> Seq(Unit)]
        /\ client[c] \in ClientRecord /\ session_counter \in Nat
        /\ SessionOK(session[c], session_counter)
    BY DEF LifeInvariant, Types, SessionsType, PeersType
  <2>2. client[c].at \in ClientPlaces /\ session[c].stream \in Stream
    BY <2>1 DEF ClientRecord, SessionRecord
  <2>3. epoch \in Nat
    BY <2>1, ServerAssumption DEF Types, ProcessType
  <2> QED
    BY <2>1, <2>2, <2>3
<1>2. UNCHANGED client
  BY <1>1, SessionIds
<1>3. ASSUME NEW p, Goto(c, p)
      PROVE  session'[c].at = p /\ session'[c].stream = session[c].stream
  BY <1>1, <1>3 DEF Goto, SessionRecord
<1>4. Busy(c) => /\ Held(c) = 0 /\ toClient[c] = <<>> /\ ~session[c].stream.poisoned
                 /\ client[c].at \notin {"new", "connected", "ready"}
  BY DEF OneFrameOf, Busy
<1>5. session[c].at # "close" => ~session[c].stream.poisoned
  BY DEF OneFrameOf
<1>6. ASSUME toServer'[c] = toServer[c], session'[c].stream = session[c].stream
      PROVE  Held(c)' = Held(c) /\ Held(c)' <= Held(c)
  <2>1. Held(c)' = Held(c) /\ Held(c) \in Nat
    BY <1>1, <1>6, HeldType DEF Held
  <2> QED
    BY <2>1
<1>7. \A f \in Frame : Reply(c, f) => \A d \in Connections : d # c => toClient'[d] = toClient[d]
  BY <1>1 DEF Reply
<1>8. HelloAck(0, "refused") \in Frame
  BY <1>1, AckFrame
<1>9. ASSUME UNCHANGED <<toServer, toClient>>, session'[c].stream = session[c].stream,
             session[c].at # "close", Busy(c)' => Busy(c), Over(c) => Over(c)'
      PROVE  OneFrameOf(c)' /\ \A d \in Connections : d # c => toClient'[d] = toClient[d]
  <2>1. OneFrameOf(c)'
    BY <1>1, <1>2, <1>5, <1>6, <1>9, FrameKept
  <2> QED
    BY <1>9, <2>1
<1>10. ASSUME NEW f \in Frame, Busy(c), toServer'[c] = toServer[c], session'[c].stream = session[c].stream,
              session'[c].at \in {"loop", "close"}, toClient' = toClient \/ Reply(c, f)
       PROVE  OneFrameOf(c)' /\ \A d \in Connections : d # c => toClient'[d] = toClient[d]
  <2>1. toClient'[c] = <<>> \/ (Len(toClient'[c]) = 2 /\ ~Closed(c))
    BY <1>1, <1>4, <1>10, ReplyOne
  <2>2. ~Busy(c)' /\ Held(c)' = 0 /\ ~session'[c].stream.poisoned
    BY <1>4, <1>6, <1>10 DEF Busy
  <2>3. OneFrameOf(c)'
    BY <1>1, <1>2, <1>4, <1>10, <2>1, <2>2, FrameServed
  <2> QED
    BY <1>7, <1>10, <2>3
<1>11. ASSUME NEW f \in Frame, session[c].at \in {"hello", "loop"}, toServer' = toServer,
              NextOutcome(session[c].stream).status # "NeedMore",
              session'[c].stream = AfterNext(session[c].stream),
              \/ session'[c].at = "close" /\ (toClient' = toClient \/ Reply(c, f))
              \/ /\ session'[c].at \in {"admit", "dispatch"} /\ toClient' = toClient
                 /\ NextOutcome(session[c].stream).status = "Complete"
       PROVE  OneFrameOf(c)' /\ \A d \in Connections : d # c => toClient'[d] = toClient[d]
  <2>1. /\ toClient[c] = <<>> /\ client[c].at \notin {"new", "connected", "ready"}
        /\ NextOutcome(session[c].stream).status = "Complete" =>
             Held(c)' = 0 /\ ~session'[c].stream.poisoned
        /\ session'[c].stream.poisoned => Damaged(c)'
    BY <1>1, <1>11, FrameTaken
  <2>2. CASE session'[c].at = "close" /\ (toClient' = toClient \/ Reply(c, f))
    <3>1. toClient'[c] = <<>> \/ (Len(toClient'[c]) = 2 /\ ~Closed(c))
      BY <1>1, <2>1, <2>2, ReplyOne
    <3>2. ~Busy(c)' /\ Over(c)'
      BY <2>2 DEF Busy, Over
    <3>3. OneFrameOf(c)'
      BY <1>1, <1>2, <2>1, <2>2, <3>1, <3>2, FrameServed
    <3> QED
      BY <1>7, <2>2, <3>3
  <2>3. CASE /\ session'[c].at \in {"admit", "dispatch"} /\ toClient' = toClient
             /\ NextOutcome(session[c].stream).status = "Complete"
    <3>1. OneFrameOf(c)'
      BY <1>1, <1>2, <2>1, <2>3, FrameServed
    <3> QED
      BY <2>3, <3>1
  <2> QED
    BY <1>11, <2>2, <2>3
<1>12. CASE ReadMore(c)
  <2>1. toClient' = toClient /\ session[c].at \in {"hello", "read"}
    BY <1>12 DEF ReadMore, Running
  <2>2. CASE Goto(c, "close") /\ UNCHANGED toServer
    <3>1. session'[c].stream = session[c].stream /\ session[c].at # "close" /\ (Busy(c)' => Busy(c))
          /\ (Over(c) => Over(c)')
      BY <1>3, <2>1, <2>2 DEF Busy, Over
    <3> QED
      BY <1>9, <2>1, <2>2, <3>1
  <2>3. CASE \E n \in 1..Len(toServer[c]) :
               LET fed == Feed(session[c].stream, SubSeq(toServer[c], 1, n))
               IN /\ toServer' = [toServer EXCEPT ![c] = SubSeq(@, n + 1, Len(@))]
                  /\ session' = [session EXCEPT ![c].stream = fed,
                       ![c].at = IF fed.poisoned THEN "close" ELSE IF @ = "read" THEN "loop" ELSE @]
    <3>1. PICK n \in 1..Len(toServer[c]) :
               LET fed == Feed(session[c].stream, SubSeq(toServer[c], 1, n))
               IN /\ toServer' = [toServer EXCEPT ![c] = SubSeq(@, n + 1, Len(@))]
                  /\ session' = [session EXCEPT ![c].stream = fed,
                       ![c].at = IF fed.poisoned THEN "close" ELSE IF @ = "read" THEN "loop" ELSE @]
      BY <2>3
    <3>2. PICK s \in Stream, t \in Seq(Unit) : s = session[c].stream /\ t = toServer[c]
      BY <1>1
    <3>3. PICK u, v : u = SubSeq(t, 1, n) /\ v = SubSeq(t, n + 1, Len(t))
      OBVIOUS
    <3>4. u \in Seq(Unit) /\ Len(u) = n /\ Len(v) = Len(t) - n
      BY <3>2, <3>3, PartOf
    <3>5. Len(t) \in Nat /\ Len(Remaining(s)) \in Nat /\ n \in Nat /\ Remaining(s) \in Seq(Unit)
      BY <3>2, LenProperties, RemainingType
    <3>6. ~s.poisoned /\ Len(t) + Len(Remaining(s)) <= 2 /\ n <= Len(t)
      <4>1. ~s.poisoned /\ ~Over(c)
        BY <2>1, <3>2 DEF OneFrameOf, Over
      <4>2. Held(c) = Len(t) + Len(Remaining(s)) /\ Held(c) <= 2
        BY <3>2, <4>1 DEF OneFrameOf, Held
      <4>3. n <= Len(t)
        BY <3>2, <3>5
      <4> QED
        BY <4>1, <4>2, <4>3
    <3>7. PICK fed : fed = Feed(s, u)
      OBVIOUS
    <3>8. Len(Remaining(s)) + Len(u) <= MaxBuffered
      BY <3>4, <3>5, <3>6, MaxBufferedAssumption
    <3>9. ~(Len(Remaining(s)) + Len(u) > MaxBuffered)
      BY <3>4, <3>5, <3>8, MaxBufferedAssumption
    <3>10. fed \in Stream /\ ~fed.poisoned /\ fed.offset = 0 /\ fed.buffer = Remaining(s) \o u
      BY <3>4, <3>6, <3>7, <3>9, FeedType
    <3>11. Len(Remaining(fed)) = Len(Remaining(s)) + n
      <4>1. Len(Remaining(s) \o u) = Len(Remaining(s)) + Len(u)
        BY <3>4, <3>5, ConcatProperties
      <4>2. Len(Remaining(fed)) = Len(fed.buffer) - 0
        BY <3>10, RemainingType
      <4> QED
        BY <3>4, <3>5, <3>10, <4>1, <4>2
    <3>12. session' = [session EXCEPT ![c].stream = fed,
                       ![c].at = IF fed.poisoned THEN "close" ELSE IF @ = "read" THEN "loop" ELSE @]
           /\ toServer'[c] = v
      BY <1>1, <3>1, <3>2, <3>3, <3>7
    <3>13. session'[c].stream = fed /\ session'[c].at \in {"hello", "loop"}
      <4>1. session'[c].stream = fed
        BY <1>1, <3>12 DEF SessionRecord
      <4>2. session'[c].at = IF session[c].at = "read" THEN "loop" ELSE session[c].at
        BY <1>1, <3>10, <3>12 DEF SessionRecord
      <4> QED
        BY <2>1, <4>1, <4>2
    <3>14. Held(c)' = Len(v) + Len(Remaining(fed)) /\ Held(c) = Len(t) + Len(Remaining(s))
      BY <3>2, <3>12, <3>13 DEF Held
    <3>15. Held(c)' <= Held(c)
      BY <3>4, <3>5, <3>11, <3>14
    <3>16. ~Busy(c)' /\ ~Over(c) /\ ~session'[c].stream.poisoned
      BY <2>1, <3>10, <3>13 DEF Busy, Over
    <3>17. OneFrameOf(c)'
      BY <1>1, <1>2, <2>1, <3>15, <3>16, FrameKept
    <3> QED
      BY <2>1, <3>17
  <2> QED
    BY <1>12, <2>2, <2>3 DEF ReadMore
<1>13. CASE Handshake(c)
  <2>1. session[c].at = "hello" /\ toServer' = toServer /\ NextOutcome(session[c].stream).status # "NeedMore"
    BY <1>13 DEF Handshake, Running
  <2> DEFINE outcome == NextOutcome(session[c].stream)
             greeted == outcome.status = "Complete" /\ outcome.frame.type = "Hello"
  <2>2. PICK p : /\ p = IF greeted /\ outcome.frame.payload = "token" THEN "admit" ELSE "close"
                 /\ session' = [session EXCEPT ![c].stream = AfterNext(@), ![c].at = p]
    BY <1>13 DEF Handshake
  <2>3. IF greeted /\ outcome.frame.payload # "wrong token" THEN UNCHANGED toClient
        ELSE Reply(c, HelloAck(0, "refused"))
    BY <1>13 DEF Handshake
  <2>4. session'[c].stream = AfterNext(session[c].stream) /\ session'[c].at = p
    BY <1>1, <2>2 DEF SessionRecord
  <2>5. PICK f \in Frame : f = HelloAck(0, "refused")
    BY <1>8
  <2>6. \/ session'[c].at = "close" /\ (toClient' = toClient \/ Reply(c, f))
        \/ session'[c].at = "admit" /\ toClient' = toClient /\ outcome.status = "Complete"
    BY <2>2, <2>3, <2>4, <2>5
  <2> QED
    BY <1>11, <2>1, <2>4, <2>6
<1>14. CASE Admit(c)
  <2>1. toServer' = toServer /\ session[c].at = "admit" /\ Busy(c)
    BY <1>14 DEF Admit, Running, Busy
  <2>2. CASE Goto(c, "welcome") /\ UNCHANGED toClient
    <3>1. session'[c].stream = session[c].stream /\ session[c].at # "close" /\ ~Over(c)
      BY <1>3, <2>1, <2>2 DEF Over
    <3> QED
      BY <1>9, <2>1, <2>2, <3>1
  <2>3. CASE Goto(c, "close") /\ Reply(c, HelloAck(0, "refused"))
    <3>1. PICK f \in Frame : f = HelloAck(0, "refused")
      BY <1>8
    <3>2. session'[c].stream = session[c].stream /\ session'[c].at = "close" /\ Reply(c, f)
      BY <1>3, <2>3, <3>1
    <3> QED
      BY <1>10, <2>1, <3>2
  <2> QED
    BY <1>14, <2>2, <2>3 DEF Admit
<1>15. CASE Welcome(c)
  <2>1. toServer' = toServer /\ session[c].at = "welcome" /\ Busy(c)
    BY <1>15 DEF Welcome, Running, Busy
  <2>2. PICK n \in Nat : n = session_counter + 1
    BY <1>1
  <2>3. PICK f \in Frame : f = HelloAck(n, "accepted")
    BY <1>1, AckFrame
  <2>4. Reply(c, f)
    BY <1>15, <2>2, <2>3 DEF Welcome
  <2>5. session'[c].stream = session[c].stream /\ session'[c].at \in {"loop", "close"}
    <3>1. CASE session' = [session EXCEPT ![c].at = "loop", ![c].id = session_counter']
      BY <1>1, <3>1 DEF SessionRecord
    <3> QED
      BY <1>3, <1>15, <3>1 DEF Welcome
  <2> QED
    BY <1>10, <2>1, <2>4, <2>5
<1>16. CASE LoopTop(c)
  <2> DEFINE outcome == NextOutcome(session[c].stream)
             stands == outcome.status = "Complete" /\ RequestStands(c, outcome.frame)
             refused == IF outcome.status = "Complete" THEN outcome.frame
                        ELSE [type |-> "Request", session |-> session[c].id,
                              sequence |-> session[c].last, epoch |-> 0, payload |-> "none"]
             g == NextOutcome(session[c].stream).frame
  <2>1. toServer' = toServer /\ session[c].at = "loop"
    BY <1>16 DEF LoopTop, Running
  <2>2. PICK f \in Frame : f = Response(refused, "error")
    <3>1. refused \in Frame
      <4>1. outcome.status = "Complete" => outcome.frame \in Frame
        BY <1>1, OutcomeType
      <4>2. session[c].id \in Nat /\ session[c].last \in Nat
        BY <1>1 DEF SessionRecord
      <4> QED
        BY <4>1, <4>2 DEF Frame, PlainFrame, MessageTypes, Payloads
    <3> HIDE DEF refused
    <3>2. "error" \in Payloads
      BY DEF Payloads
    <3> QED
      BY <3>1, <3>2, ResponseType
  <2>3. CASE (Goto(c, "close") \/ Goto(c, "read")) /\ UNCHANGED toClient
    <3>1. session'[c].stream = session[c].stream /\ session[c].at # "close" /\ ~Over(c) /\ ~Busy(c)'
      BY <1>3, <2>1, <2>3 DEF Over, Busy
    <3> QED
      BY <1>9, <2>1, <2>3, <3>1
  <2>4. CASE /\ outcome.status = "Complete" /\ UNCHANGED toClient
             /\ session' = [session EXCEPT ![c].stream = AfterNext(@), ![c].at = "dispatch",
                  ![c].request = <<g>>, ![c].last = g.sequence]
    <3>1. PICK h : h = g
      OBVIOUS
    <3>2. session' = [session EXCEPT ![c].stream = AfterNext(@), ![c].at = "dispatch",
                  ![c].request = <<h>>, ![c].last = h.sequence]
      BY <2>4, <3>1
    <3>3. session'[c].stream = AfterNext(session[c].stream) /\ session'[c].at = "dispatch"
      BY <1>1, <3>2 DEF SessionRecord
    <3> QED
      BY <1>8, <1>11, <2>1, <2>4, <3>3
  <2>5. CASE /\ outcome.status # "NeedMore" /\ Reply(c, Response(refused, "error"))
             /\ session' = [session EXCEPT ![c].stream = AfterNext(@), ![c].at = "close"]
    <3>1. session'[c].stream = AfterNext(session[c].stream) /\ session'[c].at = "close"
      BY <1>1, <2>5 DEF SessionRecord
    <3>2. Reply(c, f)
      BY <2>2, <2>5
    <3> QED
      BY <1>11, <2>1, <2>5, <3>1, <3>2
  <2> QED
    BY <1>16, <2>3, <2>4, <2>5 DEF LoopTop
<1>17. CASE Dispatch(c)
  <2>1. UNCHANGED <<toServer, toClient>> /\ session[c].at = "dispatch" /\ Busy(c) /\ ~Over(c)
    BY <1>17 DEF Dispatch, Running, Busy, Over
  <2>2. PICK q : session' = [session EXCEPT ![c].at = "answer", ![c].request = q]
    BY <1>17 DEF Dispatch
  <2>3. session'[c].stream = session[c].stream
    BY <1>1, <2>2 DEF SessionRecord
  <2> QED
    BY <1>9, <2>1, <2>3
<1>18. CASE Answer(c)
  <2>1. toServer' = toServer /\ session[c].at = "answer" /\ Busy(c)
        /\ Reply(c, Response(session[c].request[1], session[c].request[2]))
    BY <1>18 DEF Answer, Running, Busy
  <2>2. PICK p \in {"close", "loop"} : session' = [session EXCEPT ![c].request = <<>>, ![c].at = p]
    BY <1>18 DEF Answer
  <2>3. session'[c].stream = session[c].stream /\ session'[c].at \in {"loop", "close"}
    BY <1>1, <2>2 DEF SessionRecord
  <2>4. PICK g \in Frame, code \in Codes : session[c].request = <<g, code>>
    BY <1>1, <2>1 DEF SessionOK
  <2>5. session[c].request[1] = g /\ session[c].request[2] = code /\ code \in Payloads
    <3>1. code \in Payloads
      BY DEF Codes, Payloads
    <3> QED
      BY <2>4, <3>1
  <2>6. PICK f \in Frame : f = Response(g, code)
    BY <2>5, ResponseType
  <2> QED
    BY <1>10, <2>1, <2>3, <2>5, <2>6
<1>19. CASE CloseSocket(c)
  <2>1. toClient' = toClient /\ session'[c].at = "erase" /\ session'[c].stream = NewStream
    BY <1>1, <1>19 DEF CloseSocket, NoSession
  <2>2. ~session'[c].stream.poisoned /\ Over(c)' /\ ~Busy(c)'
    BY <2>1 DEF NewStream, Over, Busy
  <2>3. OneFrameOf(c)'
    BY <1>1, <1>2, <2>1, <2>2, FrameKept
  <2> QED
    BY <2>1, <2>3
<1>20. CASE EraseSocket(c)
  <2>1. UNCHANGED <<toServer, toClient>> /\ Goto(c, "end") /\ session[c].at = "erase"
    BY <1>20 DEF EraseSocket, Running, peers
  <2>2. session'[c].stream = session[c].stream /\ ~Busy(c)' /\ Over(c)'
    BY <1>3, <2>1 DEF Busy, Over
  <2> QED
    BY <1>9, <2>1, <2>2
<1> QED
  BY <1>12, <1>13, <1>14, <1>15, <1>16, <1>17, <1>18, <1>19, <1>20 DEF SessionThread

\* Two sound units are a frame.
LEMMA WholeFrame ==
  ASSUME NEW s \in Stream, ~s.poisoned, Len(Remaining(s)) = 2,
         \A i \in 1..2 : Remaining(s)[i].verdict = "Complete"
  PROVE  NextOutcome(s).status = "Complete"
<1>1. PICK r \in Seq(Unit) : r = Remaining(s) /\ Len(r) = 2
  BY RemainingType
<1>2. r # <<>> /\ Len(r) # 1
  <2>1. Len(<<>>) = 0 /\ 0 # 2 /\ 1 # 2
    OBVIOUS
  <2> QED
    BY <1>1, <2>1, Zenon
<1>3. 1 \in 1..2 /\ 2 \in 1..2
  OBVIOUS
<1>4. r[1].verdict = "Complete" /\ r[2].verdict = "Complete"
  BY <1>1, <1>3
<1>5. DecodeFrame(r).status = "Complete"
  BY <1>2, <1>4 DEF DecodeFrame
<1> QED
  BY <1>1, <1>5 DEF NextOutcome

\* A client that has read what there was, and may have sent a frame while the server held none.
LEMMA ClientMovesOn ==
  ASSUME NEW c \in Connections, OneFrameOf(c), session'[c] = session[c], toClient'[c] = <<>>,
         ~client'[c].stream.poisoned, Len(Remaining(client'[c].stream)) = 0,
         \/ /\ Held(c)' = Held(c)
            /\ client'[c].at \in {"new", "connected", "ready"} =>
                 ~Busy(c) /\ (~Over(c) => Held(c) = 0)
         \/ /\ ~Busy(c) /\ (~Over(c) => Held(c)' <= 2)
            /\ client'[c].at \notin {"new", "connected", "ready"}
  PROVE  OneFrameOf(c)'
<1>1. (Busy(c)' <=> Busy(c)) /\ (Over(c)' <=> Over(c)) /\ (Damaged(c)' <=> Damaged(c))
  BY DEF Busy, Over, Damaged
<1>2. /\ ~Over(c) => Held(c) <= 2
      /\ Busy(c) => Held(c) = 0
      /\ session[c].stream.poisoned => session[c].at = "close" /\ Damaged(c)
  BY DEF OneFrameOf
<1>3. (~Over(c) => Held(c) <= 2)' /\ (Busy(c) => Held(c) = 0 /\ toClient[c] = <<>>)'
  BY <1>1, <1>2
<1>4. (client[c].at \in {"new", "connected", "ready"} => ~Busy(c) /\ (~Over(c) => Held(c) = 0))'
  BY <1>1
<1>5. (session[c].stream.poisoned => session[c].at = "close" /\ Damaged(c))'
  BY <1>1, <1>2
<1> QED
  BY <1>3, <1>4, <1>5 DEF OneFrameOf

\* A client's step, seen from its own connection.
LEMMA ClientFrames ==
  ASSUME LifeInvariant, Types', WireContents, NEW c \in Connections, OneFrameOf(c), ClientStep(c)
  PROVE  OneFrameOf(c)'
<1>1. /\ Types /\ client \in [Connections -> ClientRecord] /\ client[c] \in ClientRecord
      /\ toClient \in [Connections -> Seq(Unit)] /\ toServer \in [Connections -> Seq(Unit)]
      /\ scenario.calls \in Nat /\ PeersType
  <2>1. Types /\ PeersType /\ scenario \in Scenarios
    BY DEF LifeInvariant, Types, ProcessType
  <2> QED
    BY <2>1, ServerAssumption DEF PeersType
<1>2. UNCHANGED session
  BY <1>1, ClientMoves
<1>3. ~client[c].stream.poisoned /\ Len(Remaining(client[c].stream)) = 0
      /\ client[c].stream \in Stream /\ Held(c) \in Nat
  BY <1>1, HeldType DEF OneFrameOf
<1>4. /\ client[c].at \in {"new", "connected", "ready"} =>
           toClient[c] = <<>> /\ ~Busy(c) /\ (~Over(c) => Held(c) = 0)
      /\ toClient[c] # <<>> => ~Busy(c) /\ Len(toClient[c]) = 2 /\ (~Over(c) => Held(c) = 0)
  BY DEF OneFrameOf
<1>5. toServer'[c] = toServer[c] => Held(c)' = Held(c)
  BY <1>2 DEF Held
<1>6. ASSUME NEW u \in Seq(Unit), Len(u) = 2, Send(c, u), ~Over(c) => Held(c) = 0
      PROVE  ~Over(c) => Held(c)' <= 2
  <2>1. PICK t \in Seq(Unit) : t = toServer[c]
    BY <1>1
  <2>2. toServer'[c] = t \/ toServer'[c] = t \o u
    BY <1>1, <1>6, <2>1 DEF Send
  <2>3. Len(t) \in Nat /\ Len(t \o u) = Len(t) + 2
    <3>1. Len(t) \in Nat
      BY LenProperties
    <3>2. Len(t \o u) = Len(t) + Len(u)
      BY ConcatProperties
    <3> QED
      BY <1>6, <3>1, <3>2
  <2>4. PICK r \in Nat : r = Len(Remaining(session[c].stream))
    BY <1>1, HeldType
  <2>5. Held(c) = Len(t) + r /\ Held(c)' = Len(toServer'[c]) + r
    BY <1>2, <2>1, <2>4 DEF Held
  <2> QED
    BY <1>6, <2>2, <2>3, <2>5
<1>7. ASSUME NEW p, Become(c, p) PROVE client'[c].at = p /\ client'[c].stream = client[c].stream
  BY <1>1, <1>7 DEF Become, ClientRecord
<1>8. ASSUME Leave(c) PROVE client'[c].at = "closed" /\ ~client'[c].stream.poisoned
                            /\ Len(Remaining(client'[c].stream)) = 0
  <2>1. client'[c].at = "closed" /\ client'[c].stream = NewStream
    BY <1>1, <1>8 DEF Leave, ClientRecord
  <2>2. ~NewStream.poisoned
    BY DEF NewStream
  <2> QED
    BY <2>1, <2>2, NewStreamType
<1>9. CASE Connect(c)
  <2>1. /\ client[c].at = "new" /\ (Become(c, "connected") \/ Become(c, "closed"))
        /\ toServer' = toServer /\ toClient' = toClient
    BY <1>9 DEF Connect
  <2>2. client'[c].stream = client[c].stream
    BY <1>7, <2>1
  <2> QED
    BY <1>2, <1>3, <1>4, <1>5, <2>1, <2>2, ClientMovesOn
<1>10. CASE Greet(c)
  <2>1. client[c].at = "connected" /\ Become(c, "greeting") /\ toClient' = toClient
    BY <1>10 DEF Greet
  <2>2. PICK u \in Greetings \cup {Sound(Hello("token"))} : Send(c, u)
    BY <1>10 DEF Greet
  <2>3. ~Over(c) => Held(c)' <= 2
    BY <1>4, <1>6, <2>1, <2>2, GreetingsType
  <2>4. client'[c].at = "greeting" /\ client'[c].stream = client[c].stream
    BY <1>7, <2>1
  <2> QED
    BY <1>2, <1>3, <1>4, <2>1, <2>3, <2>4, ClientMovesOn
<1>11. CASE Call(c)
  <2>1. /\ client[c].at = "ready" /\ toClient' = toClient
        /\ client' = [client EXCEPT ![c].at = "calling", ![c].sequence = @ + 1]
    BY <1>11 DEF Call
  <2>2. client'[c].at = "calling" /\ client'[c].stream = client[c].stream
    BY <1>1, <2>1 DEF ClientRecord
  <2>3. PICK operation \in Operations : Send(c, Sound(Request(c, client[c].sequence + 1, operation)))
    BY <1>11 DEF Call
  <2>4. client[c].sequence + 1 \in Nat /\ operation \in {"operate", "shutdown", "unknown"}
    BY <1>1 DEF ClientRecord, Operations
  <2>5. PICK f \in Frame : f = Request(c, client[c].sequence + 1, operation)
    BY <1>1, <2>4, RequestType
  <2>6. Sound(f) \in Seq(Unit) /\ Len(Sound(f)) = 2
    BY EncodeFrameType DEF HeaderVerdicts, PayloadVerdicts
  <2>7. ~Over(c) => Held(c)' <= 2
    BY <1>4, <1>6, <2>1, <2>3, <2>5, <2>6
  <2> QED
    BY <1>2, <1>3, <1>4, <2>1, <2>2, <2>7, ClientMovesOn
<1>12. CASE Stray(c)
  <2>1. client[c].at = "ready" /\ toClient' = toClient /\ Become(c, "calling")
    BY <1>12 DEF Stray
  <2>2. PICK u \in Strays(c) : Send(c, u)
    BY <1>12 DEF Stray
  <2>3. ~Over(c) => Held(c)' <= 2
    BY <1>1, <1>4, <1>6, <2>1, <2>2, StraysType
  <2>4. client'[c].at = "calling" /\ client'[c].stream = client[c].stream
    BY <1>7, <2>1
  <2> QED
    BY <1>2, <1>3, <1>4, <2>1, <2>3, <2>4, ClientMovesOn
<1>13. CASE Receive(c)
  <2>1. toServer' = toServer
    BY <1>13 DEF Receive
  <2>2. CASE toClient[c] = <<>> /\ Leave(c) /\ UNCHANGED toClient
    BY <1>2, <1>5, <1>8, <2>1, <2>2, ClientMovesOn
  <2> DEFINE fed == Feed(client[c].stream, toClient[c])
             outcome == NextOutcome(fed)
             in == /\ outcome.status = "Complete" /\ outcome.frame.type = "HelloAck"
                   /\ outcome.frame.payload = "accepted"
             ok == /\ outcome.status = "Complete" /\ IsAnswer(c, outcome.frame)
                   /\ outcome.frame.payload = "ok"
  <2>3. CASE /\ toClient[c] # <<>> /\ toClient' = [toClient EXCEPT ![c] = <<>>]
             /\ \/ client' = [client EXCEPT ![c].stream = AfterNext(fed),
                                ![c].at = IF in THEN "ready" ELSE "closed",
                                ![c].id = IF in THEN outcome.frame.session ELSE @,
                                ![c].epoch = IF in THEN outcome.frame.epoch ELSE @]
                \/ client' = [client EXCEPT ![c].stream = AfterNext(fed), ![c].at = "ready",
                                ![c].acked = IF ok THEN @ \cup {client[c].sequence} ELSE @]
    <3>1. toClient'[c] = <<>> /\ ~Busy(c) /\ Len(toClient[c]) = 2 /\ (~Over(c) => Held(c) = 0)
      BY <1>1, <1>4, <2>3
    <3>2. PICK u \in Seq(Unit) : u = toClient[c] /\ Len(u) = 2
      BY <1>1, <3>1
    <3>3. \A i \in 1..2 : u[i].verdict = "Complete"
      <4>1. u \in Seq(OwedUnit(c))
        BY <3>2 DEF WireContents, Contents
      <4>2. \A i \in 1..2 : u[i] \in OwedUnit(c)
        BY <3>2, <4>1, ElementOfSeq
      <4> QED
        BY <4>2 DEF OwedUnit
    <3>4. Remaining(client[c].stream) = <<>>
      BY <1>3, RemainingType, EmptySeq
    <3>5. PICK f : f = fed
      OBVIOUS
    <3>6. f \in Stream /\ ~f.poisoned /\ f.offset = 0 /\ f.buffer = <<>> \o u
      <4>1. ~(0 + Len(u) > MaxBuffered)
        BY <3>2, MaxBufferedAssumption
      <4> QED
        BY <1>3, <3>2, <3>4, <3>5, <4>1, FeedType
    <3>7. f.buffer = u
      BY <3>6, ConcatProperties
    <3>8. Len(Remaining(f)) = 2 /\ \A i \in 1..2 : Remaining(f)[i] = u[i]
      BY <3>2, <3>6, <3>7, RemainingType
    <3>9. NextOutcome(f).status = "Complete"
      BY <3>3, <3>6, <3>8, WholeFrame
    <3>10. ~AfterNext(f).poisoned /\ Len(Remaining(AfterNext(f))) = 0
      <4>1. ~AfterNext(f).poisoned /\ Len(Remaining(AfterNext(f))) = Len(Remaining(f)) - 2
        BY <3>6, <3>9, AfterNextType
      <4> QED
        BY <3>8, <4>1
    <3>11. client'[c].stream = AfterNext(f)
      <4> HIDE DEF fed, in, ok
      <4>1. CASE client' = [client EXCEPT ![c].stream = AfterNext(fed),
                                ![c].at = IF in THEN "ready" ELSE "closed",
                                ![c].id = IF in THEN outcome.frame.session ELSE @,
                                ![c].epoch = IF in THEN outcome.frame.epoch ELSE @]
        BY <1>1, <3>5, <4>1 DEF ClientRecord
      <4>2. CASE client' = [client EXCEPT ![c].stream = AfterNext(fed), ![c].at = "ready",
                                ![c].acked = IF ok THEN @ \cup {client[c].sequence} ELSE @]
        BY <1>1, <3>5, <4>2 DEF ClientRecord
      <4> QED
        BY <2>3, <4>1, <4>2
    <3> HIDE DEF fed, in, ok
    <3> QED
      BY <1>2, <1>5, <2>1, <3>1, <3>10, <3>11, ClientMovesOn
  <2> QED
    BY <1>13, <2>2, <2>3, Zenon DEF Receive
<1>14. CASE Close(c) \/ Die(c)
  <2>1. Leave(c) /\ toServer' = toServer /\ toClient' = [toClient EXCEPT ![c] = <<>>]
    BY <1>14 DEF Close, Die
  <2>2. toClient'[c] = <<>>
    BY <1>1, <2>1
  <2> QED
    BY <1>2, <1>5, <1>8, <2>1, <2>2, ClientMovesOn
<1> QED
  BY <1>9, <1>10, <1>11, <1>12, <1>13, <1>14 DEF ClientStep

LEMMA OneFrameStep ==
  ASSUME LifeInvariant, Types', AcceptedOnce, WireContents, OneFrame, Next
  PROVE  OneFrame'
<1>1. Types /\ \A c \in Connections : OneFrameOf(c)
  BY DEF LifeInvariant, OneFrame
<1>2. ASSUME NEW c \in Connections, client'[c] = client[c], toClient'[c] = toClient[c],
             session'[c] = session[c], toServer'[c] = toServer[c] \/ toServer'[c] = <<>>
      PROVE  OneFrameOf(c)'
  <2>1. Held(c)' <= Held(c)
    <3>1. PICK t \in Seq(Unit), r \in Nat : t = toServer[c] /\ r = Len(Remaining(session[c].stream))
      BY <1>1, HeldType
    <3>2. Len(t) \in Nat /\ Len(<<>>) = 0
      BY LenProperties
    <3>3. Held(c) = Len(t) + r /\ Held(c)' = Len(toServer'[c]) + r
      BY <1>2, <3>1 DEF Held
    <3> QED
      BY <1>2, <3>1, <3>2, <3>3
  <2>2. (Busy(c)' => Busy(c)) /\ (Over(c) => Over(c)')
    BY <1>2 DEF Busy, Over
  <2> QED
    BY <1>1, <1>2, <2>1, <2>2, FrameKept
<1>3. ASSUME NEW c \in Connections, client'[c] = client[c], toClient'[c] = toClient[c],
             session'[c].stream = NewStream, session'[c].at \in {"none", "hello"},
             toServer'[c] = <<>> \/ (toServer'[c] = toServer[c] /\ session[c] = NoSession)
      PROVE  OneFrameOf(c)'
  <2>1. ~session'[c].stream.poisoned /\ ~Busy(c)' /\ Len(Remaining(NewStream)) = 0
    BY <1>3, NewStreamType DEF NewStream, Busy
  <2>2. CASE toServer'[c] = <<>>
    <3>1. Held(c)' = Len(<<>>) + 0 /\ Len(<<>>) = 0
      BY <1>3, <2>1, <2>2 DEF Held
    <3>2. Held(c)' = 0 /\ Held(c) \in Nat
      BY <1>1, <3>1, HeldType
    <3>3. Held(c)' <= Held(c)
      BY <3>2
    <3> QED
      BY <1>1, <1>3, <2>1, <3>2, <3>3, FrameKept
  <2>3. CASE toServer'[c] = toServer[c] /\ session[c] = NoSession
    <3>1. session[c].stream = NewStream /\ session[c].at = "none"
      BY <2>3 DEF NoSession
    <3>2. Held(c)' = Held(c) /\ Held(c) \in Nat /\ ~Over(c)
      BY <1>1, <1>3, <2>3, <3>1, HeldType DEF Held, Over
    <3>3. Held(c)' <= Held(c)
      BY <3>2
    <3> QED
      BY <1>1, <1>3, <2>1, <3>2, <3>3, FrameKept
  <2> QED
    BY <1>3, <2>2, <2>3
<1>4. CASE Start
  <2>1. UNCHANGED <<session, client, toServer, toClient>>
    BY <1>4 DEF Start, peers
  <2> QED
    BY <1>2, <2>1 DEF OneFrame
<1>5. CASE Kill
  <2>1. UNCHANGED <<client, toClient>> /\ \A c \in Connections :
          toServer'[c] = <<>> /\ session'[c].stream = NewStream /\ session'[c].at = "none"
    BY <1>5 DEF Kill, NoSession
  <2> QED
    BY <1>3, <2>1 DEF OneFrame
<1>6. CASE Accept \/ RegisterThread
  <2>1. UNCHANGED <<session, client, toServer, toClient>>
    BY <1>6 DEF Accept, RegisterThread, peers
  <2> QED
    BY <1>2, <2>1 DEF OneFrame
<1>7. CASE Spawn
  <2>1. /\ UNCHANGED <<client, toServer, toClient>> /\ serve.at = "spawn"
        /\ \A c \in Connections : IF c \in serve.socket
             THEN session'[c].at = "hello" /\ session'[c].stream = NewStream
             ELSE session'[c] = session[c]
    BY <1>7 DEF Spawn, peers, NoSession
  <2>2. \A c \in Connections : c \in serve.socket => session[c] = NoSession
    BY <2>1 DEF AcceptedOnce, Untouched
  <2> QED
    BY <1>2, <1>3, <2>1, <2>2 DEF OneFrame
<1>8. ASSUME NEW k \in Callers, RequestShutdown(k) PROVE OneFrame'
  <2>1. UNCHANGED <<client, toClient, session>>
    BY <1>8 DEF RequestShutdown, CloseListener, CopySockets, CloseSockets, TakeThreads, Join, peers
  <2>2. \A c \in Connections : toServer'[c] = toServer[c] \/ toServer'[c] = <<>>
    <3>1. CASE CloseSockets(k)
      BY <3>1 DEF CloseSockets
    <3>2. CASE toServer' = toServer
      BY <3>2
    <3> QED
      BY <1>8, <3>1, <3>2 DEF RequestShutdown, CloseListener, CopySockets, TakeThreads, Join, peers
  <2> QED
    BY <1>2, <2>1, <2>2 DEF OneFrame
<1>9. ASSUME NEW c \in Connections, SessionThread(c) PROVE OneFrame'
  <2>1. OneFrameOf(c)' /\ \A d \in Connections : d # c => toClient'[d] = toClient[d]
    BY <1>1, <1>9, SessionFrames
  <2>2. UNCHANGED client /\ \A d \in Connections : d # c => session'[d] = session[d]
    BY <1>1, <1>9, SessionMoves, SessionIds
  <2>3. \A d \in Connections : d # c => toServer'[d] = toServer[d]
    <3>1. toServer' = toServer \/ \E v : toServer' = [toServer EXCEPT ![c] = v]
      BY <1>9 DEF SessionThread, ReadMore, Handshake, Admit, Welcome, LoopTop, Dispatch, Answer,
                  CloseSocket, EraseSocket, peers
    <3>2. toServer \in [Connections -> Seq(Unit)]
      BY <1>1 DEF Types, PeersType
    <3> QED
      BY <3>1, <3>2
  <2>4. \A d \in Connections : d # c => OneFrameOf(d)'
    BY <1>2, <2>1, <2>2, <2>3
  <2> QED
    BY <2>1, <2>4 DEF OneFrame
<1>10. ASSUME NEW c \in Connections, ClientStep(c) PROVE OneFrame'
  <2>1. OneFrameOf(c)'
    BY <1>1, <1>10, ClientFrames
  <2>2. /\ UNCHANGED session
        /\ \A d \in Connections : d # c => /\ client'[d] = client[d] /\ toServer'[d] = toServer[d]
                                           /\ toClient'[d] = toClient[d]
    BY <1>1, <1>10, ClientMoves
  <2>3. \A d \in Connections : d # c => OneFrameOf(d)'
    BY <1>2, <2>2
  <2> QED
    BY <2>1, <2>3 DEF OneFrame
<1> QED
  BY <1>4, <1>5, <1>6, <1>7, <1>8, <1>9, <1>10 DEF Next, ClientStep, Serve

LEMMA InitOneFrame == Init => OneFrame
<1> SUFFICES ASSUME Init, NEW c \in Connections PROVE OneFrameOf(c)
  BY DEF OneFrame
<1>1. session[c] = NoSession /\ client[c] = NewClient /\ toServer[c] = <<>> /\ toClient[c] = <<>>
  BY DEF Init
<1>2. /\ NoSession.at = "none" /\ NoSession.stream = NewStream /\ NewClient.stream = NewStream
      /\ NewClient.at = "new" /\ ~NewStream.poisoned
  BY DEF NoSession, NewClient, NewStream
<1>3. Held(c) = Len(<<>>) + 0 /\ Len(<<>>) = 0
  BY <1>1, <1>2, NewStreamType DEF Held
<1>4. Held(c) = 0 /\ Held(c) <= 2 /\ ~Busy(c) /\ ~Over(c)
  BY <1>1, <1>2, <1>3 DEF Busy, Over
<1> QED
  BY <1>1, <1>2, <1>4, NewStreamType DEF OneFrameOf

\* A stream is poisoned by damaged bytes only: however the network cuts the frames and
\* whatever the bound on buffered units, provided that one frame of the largest size fits.
THEOREM GoodFramesTheorem == (Spec \/ SpecWithEndingClients) => []GoodFramesPass
<1>1. WireInvariant /\ OneFrame /\ [Next]_vars => OneFrame'
  <2> SUFFICES ASSUME WireInvariant, OneFrame, [Next]_vars PROVE OneFrame'
    OBVIOUS
  <2>1. CASE Next
    <3>1. LifeInvariant /\ AcceptedOnce /\ WireContents
      BY DEF WireInvariant
    <3>2. Types'
      BY <3>1, NextLife DEF LifeInvariant
    <3> QED
      BY <2>1, <3>1, <3>2, OneFrameStep
  <2>2. CASE UNCHANGED vars
    <3>1. UNCHANGED <<session, client, toServer, toClient>>
      BY <2>2 DEF vars, peers
    <3> QED
      BY <3>1 DEF OneFrame, OneFrameOf, Held, Busy, Over, Damaged
  <2> QED
    BY <2>1, <2>2
<1>2. WireInvariant /\ OneFrame => GoodFramesPass
  <2> SUFFICES ASSUME WireInvariant, OneFrame, NEW c \in Connections,
                      session[c].stream.poisoned \/ client[c].stream.poisoned
               PROVE  \E i \in DOMAIN session[c].stream.buffer :
                        session[c].stream.buffer[i].verdict # "Complete"
    BY DEF GoodFramesPass
  <2>1. Damaged(c)
    BY DEF OneFrame, OneFrameOf
  <2>2. session[c].stream.buffer \in Seq(Unit)
    BY DEF WireInvariant, LifeInvariant, Types, SessionsType, SessionRecord, Stream
  <2>3. DOMAIN session[c].stream.buffer = 1..Len(session[c].stream.buffer)
    BY <2>2, LenProperties
  <2> QED
    BY <2>1, <2>3 DEF Damaged
<1> QED
  BY <1>1, <1>2, InitOneFrame, WireHolds, PTL DEF Spec, SpecWithEndingClients
=============================================================================
