---------------------------- MODULE ServerProofs ----------------------------
(***************************************************************************)
(* Proofs about the coordinator's server, for every set of connections,    *)
(* clients, stopping threads and processes started one after the other:    *)
(* what each piece of state holds, and the threads from accept to join.    *)
(***************************************************************************)
EXTENDS Server, FiniteSetTheorems, SequenceTheorems, TLAPS

-----------------------------------------------------------------------------
(* What each piece of state holds *)

\* A frame as it is built by the server or as a hello, and one made by a call.
MessageTypes == {"Hello", "HelloAck", "Request", "Response", "Goodbye"}
Payloads == {"token", "wrong token", "undecodable", "accepted", "refused", "ok", "error", "none",
             "operate", "shutdown", "unknown"}
PlainFrame ==
  [type : MessageTypes, session : Nat, sequence : Nat, epoch : Nat, payload : Payloads]
CallFrame ==
  [type : MessageTypes, session : Nat, sequence : Nat, epoch : Nat, payload : Payloads,
   by : Connections]
Frame == PlainFrame \cup CallFrame
Unit == [part : {"header", "payload"}, verdict : HeaderVerdicts, frame : Frame]
Stream == {s \in [buffer : Seq(Unit), offset : Nat, poisoned : BOOLEAN] :
             s.offset <= Len(s.buffer)}
Codes == {"ok", "refused"}
Done == [frame : Frame, epoch : Nat, code : Codes]

CallerPlaces == {"idle", "copy", "close", "take", "join", "done"}
ClientPlaces == {"new", "connected", "greeting", "ready", "calling", "closed"}

ProcessType ==
  /\ scenario \in Scenarios /\ epoch \in 0..scenario.boots /\ alive \in BOOLEAN
ThreadsType ==
  /\ serve \in [at : {"accept", "spawn", "register", "stop"}, socket : SUBSET Connections]
  /\ shutdown \in [Callers -> [at : CallerPlaces, copied : SUBSET Connections,
                               pending : SUBSET Connections]]
  /\ shutting_down \in BOOLEAN /\ listening \in BOOLEAN /\ backlog \in Seq(Connections)
  /\ sockets \subseteq Connections /\ threads \subseteq Connections /\ open \subseteq Connections
SessionRecord == [at : SessionPlaces, id : Nat, last : Nat, stream : Stream,
                  request : (Frame \X Codes) \cup Seq(Frame)]
\* A thread that serves has a session id, and the request it serves in hand.
SessionOK(r, counter) ==
  /\ r \in SessionRecord /\ r.id <= counter
  /\ r.at \in {"loop", "read", "dispatch", "answer"} => r.id # 0
  /\ r.at = "dispatch" => r.request \in Seq(Frame) /\ Len(r.request) = 1
  /\ r.at = "answer" => r.request \in Frame \X Codes
SessionsType ==
  /\ session_counter \in Nat /\ session \in [Connections -> SessionRecord]
  /\ \A c \in Connections : SessionOK(session[c], session_counter)
ClientRecord == [at : ClientPlaces, id : Nat, epoch : Nat, sequence : Nat, stream : Stream,
                 acked : SUBSET Nat]
PeersType ==
  /\ client \in [Connections -> ClientRecord]
  /\ toServer \in [Connections -> Seq(Unit)] /\ toClient \in [Connections -> Seq(Unit)]
  /\ handled \in [Connections -> Seq(Done)]

Types == ProcessType /\ ThreadsType /\ SessionsType /\ PeersType

-----------------------------------------------------------------------------
(* The life of a thread *)

\* A process that does not exist has no memory and no sockets.
NothingWithoutProcess ==
  ~alive => /\ serve = [at |-> "accept", socket |-> {}] /\ shutdown = [k \in Callers |-> NoCaller]
            /\ ~shutting_down /\ ~listening /\ backlog = <<>>
            /\ sockets = {} /\ threads = {} /\ session_counter = 0 /\ open = {}
            /\ session = [c \in Connections |-> NoSession]
            /\ toServer = [c \in Connections |-> <<>>]

\* A caller of request_shutdown is one of the scenario, holds threads only while it joins them,
\* and the serving thread is one only when its loop is over, with nothing left to register.
CallersInOrder ==
  /\ \A k \in Callers :
       /\ shutdown[k].at # "join" => shutdown[k].pending = {}
       /\ shutdown[k].at # "idle" => k = "serve" \/ k \in scenario.stoppers
       /\ shutdown[k].at # "idle" => shutting_down
  /\ shutdown["serve"].at # "idle" => serve.at = "stop"
  /\ shutdown["serve"].at \in {"join", "done"} => threads = {}
  /\ shutdown["serve"].at = "done" => sockets = {}
  /\ shutting_down => ~listening

\* Until a shutdown, every thread's socket is in the table, and the table is finite.
TableHoldsThreads ==
  /\ IsFiniteSet(sockets) /\ IsFiniteSet(serve.socket)
  /\ IsFiniteSet({c \in Connections : Serving(c)})
  /\ ~shutting_down =>
       \A c \in Connections : session[c].at \notin {"none", "end"} => c \in sockets

LifeInvariant ==
  /\ Types /\ NothingWithoutProcess /\ CallersInOrder /\ TableHoldsThreads
  /\ NoThreadLost /\ SessionLimit

-----------------------------------------------------------------------------
(* Frames and streams *)

\* What is left of a buffer when its first `offset` units are consumed.
LEMMA RemainingType ==
  ASSUME NEW s \in Stream
  PROVE  /\ Remaining(s) \in Seq(Unit) /\ Len(Remaining(s)) = Len(s.buffer) - s.offset
         /\ \A i \in 1..Len(Remaining(s)) : /\ s.offset + i \in 1..Len(s.buffer)
                                            /\ Remaining(s)[i] = s.buffer[s.offset + i]
<1>1. PICK b \in Seq(Unit), o \in Nat : s.buffer = b /\ s.offset = o /\ o <= Len(b)
  BY DEF Stream
<1>2. Len(b) \in Nat
  BY LenProperties
<1>3. Remaining(s) = SubSeq(b, o + 1, Len(b))
  BY <1>1 DEF Remaining
<1>4. \A i \in (o + 1)..Len(b) : b[i] \in Unit
  BY <1>2, ElementOfSeq
<1>5. /\ SubSeq(b, o + 1, Len(b)) \in Seq(Unit)
      /\ Len(SubSeq(b, o + 1, Len(b))) = Len(b) - o
  BY <1>1, <1>2, <1>4, SubSeqProperties
<1>6. ASSUME NEW i \in 1..(Len(b) - o)
      PROVE  o + i \in 1..Len(b) /\ SubSeq(b, o + 1, Len(b))[i] = b[o + i]
  BY <1>1, <1>2, <1>4, SubSeqProperties
<1> QED
  BY <1>1, <1>3, <1>5, <1>6

\* feed() keeps a stream a stream: it gains units that were fed, or is poisoned.
LEMMA FeedType ==
  ASSUME NEW s \in Stream, NEW u \in Seq(Unit)
  PROVE  /\ Feed(s, u) \in Stream
         /\ s.poisoned => Feed(s, u) = s
         /\ ~s.poisoned => /\ Feed(s, u).offset = 0
                           /\ Feed(s, u).buffer \in {Remaining(s), Remaining(s) \o u}
                           /\ Feed(s, u).poisoned <=> Len(Remaining(s)) + Len(u) > MaxBuffered
                           /\ ~Feed(s, u).poisoned => Feed(s, u).buffer = Remaining(s) \o u
<1>1. PICK r \in Seq(Unit) : r = Remaining(s)
  BY RemainingType
<1>2. r \o u \in Seq(Unit) /\ Len(r) \in Nat /\ Len(u) \in Nat /\ Len(r \o u) \in Nat
  BY ConcatProperties, LenProperties
<1>3. CASE s.poisoned
  BY <1>3 DEF Feed
<1>4. CASE ~s.poisoned /\ Len(r) + Len(u) > MaxBuffered
  <2>1. Feed(s, u) = [buffer |-> r, offset |-> 0, poisoned |-> TRUE]
    BY <1>1, <1>4 DEF Feed
  <2> QED
    BY <1>1, <1>2, <1>4, <2>1 DEF Stream
<1>5. CASE ~s.poisoned /\ ~(Len(r) + Len(u) > MaxBuffered)
  <2>1. Feed(s, u) = [buffer |-> r \o u, offset |-> 0, poisoned |-> FALSE]
    BY <1>1, <1>5 DEF Feed
  <2> QED
    BY <1>1, <1>2, <1>5, <2>1 DEF Stream
<1>6. s.poisoned \in BOOLEAN
  BY DEF Stream
<1> QED
  BY <1>3, <1>4, <1>5, <1>6

\* next() decodes the two units at the front of what is left.
LEMMA OutcomeType ==
  ASSUME NEW s \in Stream
  PROVE  /\ NextOutcome(s).status \in {"NeedMore"} \cup HeaderVerdicts
         /\ NextOutcome(s).status = "Complete" =>
              /\ ~s.poisoned /\ Len(Remaining(s)) >= 2
              /\ NextOutcome(s).frame = Remaining(s)[1].frame
              /\ NextOutcome(s).frame \in Frame
              /\ Remaining(s)[1].verdict = "Complete" /\ Remaining(s)[2].verdict = "Complete"
         /\ NextOutcome(s).status = "NeedMore" => ~s.poisoned
         /\ ~s.poisoned /\ NextOutcome(s).status \notin {"Complete", "NeedMore"} =>
              \/ Len(Remaining(s)) >= 1 /\ Remaining(s)[1].verdict # "Complete"
              \/ Len(Remaining(s)) >= 2 /\ Remaining(s)[2].verdict # "Complete"
<1>1. PICK r \in Seq(Unit) : r = Remaining(s)
  BY RemainingType
<1>2. Len(r) \in Nat /\ (r # <<>> => Len(r) >= 1) /\ \A i \in 1..Len(r) : r[i] \in Unit
  BY LenProperties, EmptySeq, ElementOfSeq
<1>3. CASE s.poisoned
  BY <1>3 DEF NextOutcome, HeaderVerdicts
<1>4. CASE ~s.poisoned /\ (r = <<>> \/ (r[1].verdict = "Complete" /\ Len(r) = 1))
  BY <1>1, <1>4 DEF NextOutcome, DecodeFrame
<1>5. CASE ~s.poisoned /\ r # <<>> /\ ~(r[1].verdict = "Complete" /\ Len(r) = 1)
  <2> DEFINE v == IF r[1].verdict # "Complete" THEN r[1].verdict ELSE r[2].verdict
  <2>1. NextOutcome(s) = [status |-> v, frame |-> r[1].frame]
    BY <1>1, <1>5 DEF NextOutcome, DecodeFrame
  <2>2. r[1] \in Unit /\ Len(r) >= 1
    BY <1>2, <1>5
  <2>3. r[1].verdict = "Complete" => Len(r) >= 2 /\ r[2] \in Unit
    <3>1. \A n \in Nat : n >= 1 /\ n # 1 => n >= 2 /\ 2 \in 1..n
      OBVIOUS
    <3>2. r[1].verdict = "Complete" => Len(r) # 1
      BY <1>5
    <3> QED
      BY <1>2, <2>2, <3>1, <3>2
  <2>4. v \in HeaderVerdicts /\ r[1].frame \in Frame /\ "NeedMore" \notin HeaderVerdicts
    BY <2>2, <2>3 DEF Unit, HeaderVerdicts
  <2>5. v = "Complete" => Len(r) >= 2 /\ r[1].verdict = "Complete" /\ r[2].verdict = "Complete"
    BY <2>3
  <2>6. v # "Complete" => \/ Len(r) >= 1 /\ r[1].verdict # "Complete"
                          \/ Len(r) >= 2 /\ r[2].verdict # "Complete"
    BY <2>2, <2>3
  <2>7. NextOutcome(s).status = v /\ NextOutcome(s).frame = r[1].frame
    BY <2>1
  <2> HIDE DEF v
  <2>8. v # "NeedMore"
    BY <2>4
  <2> QED
    BY <1>1, <1>5, <2>4, <2>5, <2>6, <2>7, <2>8
<1>6. \/ s.poisoned
      \/ ~s.poisoned /\ (r = <<>> \/ (r[1].verdict = "Complete" /\ Len(r) = 1))
      \/ ~s.poisoned /\ r # <<>> /\ ~(r[1].verdict = "Complete" /\ Len(r) = 1)
  BY Zenon
<1> QED
  BY <1>3, <1>4, <1>5, <1>6, Zenon

\* What next() does to its stream: one frame is consumed, nothing, or it is poisoned.
LEMMA AfterNextType ==
  ASSUME NEW s \in Stream
  PROVE  /\ AfterNext(s) \in Stream /\ AfterNext(s).buffer = s.buffer
         /\ NextOutcome(s).status = "Complete" =>
              /\ AfterNext(s).offset = s.offset + 2 /\ ~AfterNext(s).poisoned
              /\ Len(Remaining(AfterNext(s))) = Len(Remaining(s)) - 2
         /\ NextOutcome(s).status = "NeedMore" => AfterNext(s) = s
         /\ NextOutcome(s).status \notin {"Complete", "NeedMore"} =>
              AfterNext(s).poisoned /\ AfterNext(s).offset = s.offset
<1>1. PICK b \in Seq(Unit), o \in Nat, p \in BOOLEAN :
        s = [buffer |-> b, offset |-> o, poisoned |-> p] /\ o <= Len(b)
  BY DEF Stream
<1>2. Len(b) \in Nat /\ Len(Remaining(s)) = Len(b) - o
  BY <1>1, LenProperties, RemainingType
<1>3. CASE NextOutcome(s).status = "Complete"
  <2>1. ~p /\ o + 2 <= Len(b)
    <3>1. ~p /\ Len(Remaining(s)) >= 2
      BY <1>1, <1>3, OutcomeType
    <3> QED
      BY <1>2, <3>1
  <2>2. AfterNext(s) = [buffer |-> b, offset |-> o + 2, poisoned |-> p]
    BY <1>1, <1>3 DEF AfterNext
  <2>3. AfterNext(s) \in Stream
    BY <1>2, <2>1, <2>2 DEF Stream
  <2>4. Len(Remaining(AfterNext(s))) = Len(b) - (o + 2)
    BY <2>2, <2>3, RemainingType
  <2> QED
    BY <1>1, <1>2, <1>3, <2>1, <2>2, <2>3, <2>4
<1>4. CASE NextOutcome(s).status = "NeedMore"
  BY <1>4 DEF AfterNext
<1>5. CASE NextOutcome(s).status \notin {"Complete", "NeedMore"}
  <2>1. AfterNext(s) = [buffer |-> b, offset |-> o, poisoned |-> TRUE]
    BY <1>1, <1>5 DEF AfterNext
  <2>2. AfterNext(s) \in [buffer : Seq(Unit), offset : Nat, poisoned : BOOLEAN]
    BY <2>1
  <2>3. AfterNext(s).offset = o /\ AfterNext(s).buffer = b /\ o <= Len(b)
    BY <1>1, <2>1
  <2>4. AfterNext(s) \in Stream
    BY <2>2, <2>3 DEF Stream
  <2> QED
    BY <1>1, <1>5, <2>1, <2>4
<1> QED
  BY <1>3, <1>4, <1>5

LEMMA NewStreamType == NewStream \in Stream /\ Len(Remaining(NewStream)) = 0
<1>1. <<>> \in Seq(Unit) /\ Len(<<>>) = 0
  BY EmptySeq
<1>2. NewStream \in Stream /\ Len(NewStream.buffer) = 0 /\ NewStream.offset = 0
  BY <1>1 DEF NewStream, Stream
<1> QED
  BY <1>2, RemainingType

\* A frame on the wire is two units.
LEMMA EncodeFrameType ==
  ASSUME NEW f \in Frame, NEW h \in HeaderVerdicts, NEW p \in PayloadVerdicts
  PROVE  /\ EncodeFrame(f, h, p) \in Seq(Unit) /\ Len(EncodeFrame(f, h, p)) = 2
         /\ \A i \in 1..2 : EncodeFrame(f, h, p)[i].frame = f
         /\ Sound(f) \in Seq(Unit) /\ Len(Sound(f)) = 2
         /\ \A i \in 1..2 : Sound(f)[i].frame = f /\ Sound(f)[i].verdict = "Complete"
<1>1. /\ [part |-> "header", verdict |-> h, frame |-> f] \in Unit
      /\ [part |-> "payload", verdict |-> p, frame |-> f] \in Unit
      /\ [part |-> "header", verdict |-> "Complete", frame |-> f] \in Unit
      /\ [part |-> "payload", verdict |-> "Complete", frame |-> f] \in Unit
  BY DEF Unit, HeaderVerdicts, PayloadVerdicts
<1> QED
  BY <1>1 DEF EncodeFrame, Sound

LEMMA ResponseType ==
  ASSUME NEW f \in Frame, NEW code \in Payloads
  PROVE  /\ Response(f, code) \in Frame
         /\ Response(f, code).type = "Response" /\ Response(f, code).payload = code
         /\ Response(f, code).sequence = f.sequence
<1>1. CASE f \in PlainFrame
  BY <1>1 DEF Response, Frame, PlainFrame, MessageTypes
<1>2. CASE f \in CallFrame
  BY <1>2 DEF Response, Frame, CallFrame, MessageTypes
<1> QED
  BY <1>1, <1>2 DEF Frame

LEMMA HelloAckType ==
  ASSUME NEW id \in Nat, NEW verdict \in Payloads, epoch \in Nat
  PROVE  /\ HelloAck(id, verdict) \in Frame
         /\ HelloAck(id, verdict).type = "HelloAck" /\ HelloAck(id, verdict).session = id
         /\ HelloAck(id, verdict).payload = verdict /\ HelloAck(id, verdict).epoch = epoch
BY DEF HelloAck, Frame, PlainFrame, MessageTypes

-----------------------------------------------------------------------------
(* Types are kept: what the actions have in common *)

\* A step of one session that leaves it a session.
LEMMA OneSession ==
  ASSUME SessionsType, NEW c \in Connections, NEW r,
         session_counter' \in Nat, session_counter <= session_counter',
         SessionOK(r, session_counter'), session' = [session EXCEPT ![c] = r]
  PROVE  SessionsType'
<1>1. session' \in [Connections -> SessionRecord]
  BY DEF SessionsType, SessionOK
<1>2. ASSUME NEW d \in Connections PROVE SessionOK(session'[d], session_counter')
  <2>1. CASE d = c
    BY <2>1 DEF SessionsType
  <2>2. CASE d # c
    <3>1. session'[d] = session[d] /\ SessionOK(session[d], session_counter)
      BY <2>2 DEF SessionsType
    <3>2. session[d].id \in Nat /\ session[d].id <= session_counter /\ session_counter \in Nat
      BY <3>1 DEF SessionOK, SessionRecord, SessionsType
    <3>3. session[d].id <= session_counter'
      BY <3>2
    <3> QED
      BY <3>1, <3>3 DEF SessionOK
  <2> QED
    BY <2>1, <2>2
<1> QED
  BY <1>1, <1>2 DEF SessionsType

\* The same, when the counter is left alone.
LEMMA OneSessionSameCounter ==
  ASSUME SessionsType, NEW c \in Connections, NEW r, session_counter' = session_counter,
         SessionOK(r, session_counter), session' = [session EXCEPT ![c] = r]
  PROVE  SessionsType'
<1>1. session_counter' \in Nat /\ session_counter <= session_counter'
  BY DEF SessionsType
<1>2. SessionOK(r, session_counter')
  OBVIOUS
<1> QED
  BY <1>1, <1>2, OneSession

\* A thread that goes somewhere it needs no request in hand.
LEMMA GotoType ==
  ASSUME SessionsType, NEW c \in Connections, NEW place \in SessionPlaces, Goto(c, place),
         UNCHANGED session_counter, place \notin {"dispatch", "answer"},
         place \in {"loop", "read"} => session[c].id # 0
  PROVE  SessionsType'
<1>1. session[c] \in SessionRecord /\ session[c].id <= session_counter /\ session_counter \in Nat
  BY DEF SessionsType, SessionOK
<1> DEFINE r == [session[c] EXCEPT !.at = place]
<1>2. r \in SessionRecord /\ r.id = session[c].id /\ r.at = place
  BY <1>1 DEF SessionRecord
<1>3. SessionOK(r, session_counter)
  BY <1>1, <1>2 DEF SessionOK
<1>4. session' = [session EXCEPT ![c] = r]
  BY DEF Goto, SessionsType
<1> HIDE DEF r
<1>5. SessionOK(r, session_counter') /\ session_counter' \in Nat
      /\ session_counter <= session_counter'
  BY <1>1, <1>3
<1> QED
  BY <1>4, <1>5, OneSession

\* A thread that goes where it serves nobody.
LEMMA LeavingType ==
  ASSUME SessionsType, NEW c \in Connections, NEW place \in {"welcome", "close", "end"},
         Goto(c, place), session_counter' = session_counter
  PROVE  SessionsType'
<1>1. place \in SessionPlaces /\ place \notin {"dispatch", "answer", "loop", "read"}
  BY DEF SessionPlaces
<1> QED
  BY <1>1, GotoType

LEMMA ReplyType ==
  ASSUME toClient \in [Connections -> Seq(Unit)], NEW c \in Connections, NEW f \in Frame,
         Reply(c, f)
  PROVE  toClient' \in [Connections -> Seq(Unit)]
<1>1. toClient[c] \o Sound(f) \in Seq(Unit)
  BY EncodeFrameType, ConcatProperties DEF HeaderVerdicts, PayloadVerdicts
<1> QED
  BY <1>1 DEF Reply

LEMMA SendType ==
  ASSUME toServer \in [Connections -> Seq(Unit)], NEW c \in Connections, NEW u \in Seq(Unit),
         Send(c, u)
  PROVE  toServer' \in [Connections -> Seq(Unit)]
<1>1. toServer[c] \o u \in Seq(Unit)
  BY ConcatProperties
<1> QED
  BY <1>1 DEF Send

LEMMA NoSessionType == SessionOK(NoSession, 0)
<1>1. <<>> \in Seq(Frame)
  BY EmptySeq
<1>2. NoSession \in SessionRecord /\ NoSession.at = "none" /\ NoSession.id = 0
  BY <1>1, NewStreamType DEF NoSession, SessionRecord, SessionPlaces
<1> QED
  BY <1>2 DEF SessionOK

\* Every connection without a session.
LEMMA NoSessionsType ==
  session_counter' \in Nat /\ session' = [c \in Connections |-> NoSession] => SessionsType'
<1>1. SUFFICES ASSUME session_counter' \in Nat, session' = [c \in Connections |-> NoSession]
               PROVE  SessionsType'
  OBVIOUS
<1>2. NoSession \in SessionRecord /\ NoSession.id = 0 /\ NoSession.at = "none"
  BY NoSessionType DEF SessionOK, NoSession
<1>3. SessionOK(NoSession, session_counter')
  BY <1>1, <1>2 DEF SessionOK
<1>4. session' \in [Connections -> SessionRecord]
  BY <1>1, <1>2
<1>5. \A c \in Connections : SessionOK(session'[c], session_counter')
  BY <1>1, <1>3
<1> QED
  BY <1>1, <1>4, <1>5 DEF SessionsType

LEMMA NoCallerType ==
  [k \in Callers |-> NoCaller] \in [Callers -> [at : CallerPlaces, copied : SUBSET Connections,
                                               pending : SUBSET Connections]]
BY DEF NoCaller, CallerPlaces

\* Conjuncts whose variables a step leaves alone.
LEMMA TypesUnchanged ==
  /\ ProcessType /\ UNCHANGED process => ProcessType'
  /\ SessionsType /\ UNCHANGED <<session, session_counter>> => SessionsType'
  /\ ThreadsType /\ UNCHANGED <<serve, shutdown, shutting_down, listener, sockets, threads, open>>
       => ThreadsType'
  /\ PeersType /\ UNCHANGED peers => PeersType'
BY DEF ProcessType, SessionsType, ThreadsType, PeersType, process, listener, peers

-----------------------------------------------------------------------------
(* Types are kept: the process, the serving thread and the callers of request_shutdown *)

LEMMA InitTypes == Init => Types
<1> SUFFICES ASSUME Init PROVE Types
  OBVIOUS
<1>1. scenario.boots \in Nat /\ 0 \in 0..scenario.boots
  BY ServerAssumption DEF Init
<1>2. ProcessType
  BY <1>1 DEF Init, ProcessType
<1>3. ThreadsType
  BY NoCallerType, EmptySeq DEF Init, ThreadsType
<1>4. SessionsType
  <2>1. NoSession \in SessionRecord /\ SessionOK(NoSession, 0)
    BY NoSessionType DEF SessionOK
  <2> QED
    BY <2>1 DEF Init, SessionsType
<1>5. PeersType
  <2>1. NewClient \in ClientRecord
    BY NewStreamType DEF NewClient, ClientRecord, ClientPlaces
  <2>2. <<>> \in Seq(Unit) /\ <<>> \in Seq(Done)
    BY EmptySeq
  <2> QED
    BY <2>1, <2>2 DEF Init, PeersType
<1> QED
  BY <1>2, <1>3, <1>4, <1>5 DEF Types

LEMMA StartTypes == Types /\ Start => Types'
<1> SUFFICES ASSUME Types, Start PROVE Types'
  OBVIOUS
<1>1. ProcessType'
  <2>1. scenario.boots \in Nat /\ epoch \in 0..scenario.boots
    BY ServerAssumption DEF Types, ProcessType
  <2>2. epoch + 1 \in 0..scenario.boots
    BY <2>1 DEF Start
  <2> QED
    BY <2>2 DEF Types, ProcessType, Start
<1>2. ThreadsType'
  BY DEF Types, ThreadsType, Start
<1> QED
  BY <1>1, <1>2, TypesUnchanged DEF Types, Start

LEMMA KillTypes == Types /\ Kill => Types'
<1> SUFFICES ASSUME Types, Kill PROVE Types'
  OBVIOUS
<1>1. ProcessType'
  BY DEF Types, ProcessType, Kill
<1>2. ThreadsType'
  <2>1. <<>> \in Seq(Connections)
    BY EmptySeq
  <2>2. shutdown' = [k \in Callers |-> NoCaller] /\ backlog' = <<>>
        /\ serve' = [at |-> "accept", socket |-> {}]
        /\ shutting_down' = FALSE /\ listening' = FALSE /\ sockets' = {} /\ threads' = {} /\ open' = {}
    BY DEF Kill
  <2> QED
    BY <2>1, <2>2, NoCallerType DEF ThreadsType
<1>3. SessionsType'
  BY NoSessionsType DEF Kill
<1>4. PeersType'
  BY EmptySeq DEF Types, PeersType, Kill
<1> QED
  BY <1>1, <1>2, <1>3, <1>4 DEF Types

LEMMA ServeTypes == Types /\ Serve => Types'
<1> SUFFICES ASSUME Types, Serve PROVE Types'
  OBVIOUS
<1>1. CASE Accept
  <2>1. CASE listening /\ backlog # <<>> /\ serve' = [at |-> "spawn", socket |-> {Head(backlog)}]
             /\ backlog' = Tail(backlog) /\ open' = open \cup {Head(backlog)}
             /\ threads' = ReapFinishedThreads
    <3>1. Head(backlog) \in Connections /\ Tail(backlog) \in Seq(Connections)
      BY <2>1, HeadTailProperties DEF Types, ThreadsType
    <3>2. ThreadsType'
      BY <1>1, <2>1, <3>1 DEF Types, ThreadsType, Accept, ReapFinishedThreads
    <3> QED
      BY <1>1, <3>2, TypesUnchanged DEF Types, Accept
  <2>2. CASE ~listening /\ serve' = [serve EXCEPT !.at = "stop"]
             /\ UNCHANGED <<backlog, open, threads>>
    <3>1. ThreadsType'
      BY <1>1, <2>2 DEF Types, ThreadsType, Accept
    <3> QED
      BY <1>1, <3>1, TypesUnchanged DEF Types, Accept
  <2> QED
    BY <1>1, <2>1, <2>2 DEF Accept
<1>2. CASE Spawn
  <2>1. ThreadsType'
    BY <1>2 DEF Types, ThreadsType, Spawn, listener
  <2>2. SessionsType'
    <3> DEFINE r == [NoSession EXCEPT !.at = "hello"]
    <3>1. r \in SessionRecord /\ r.id = 0 /\ r.at = "hello"
      BY NoSessionType DEF SessionOK, NoSession, SessionRecord, SessionPlaces
    <3>2. SessionOK(r, session_counter)
      BY <3>1 DEF SessionOK, Types, SessionsType
    <3>3. session' = [c \in Connections |-> IF c \in serve.socket THEN r ELSE session[c]]
          /\ session_counter' = session_counter
      BY <1>2 DEF Spawn
    <3> HIDE DEF r
    <3>4. session' \in [Connections -> SessionRecord]
      BY <3>1, <3>3 DEF Types, SessionsType
    <3>5. \A c \in Connections : SessionOK(session'[c], session_counter)
      BY <3>2, <3>3 DEF Types, SessionsType
    <3> QED
      BY <3>3, <3>4, <3>5 DEF Types, SessionsType
  <2> QED
    BY <1>2, <2>1, <2>2, TypesUnchanged DEF Types, Spawn
<1>3. CASE RegisterThread
  <2>1. ThreadsType'
    BY <1>3 DEF Types, ThreadsType, RegisterThread, listener
  <2> QED
    BY <1>3, <2>1, TypesUnchanged DEF Types, RegisterThread
<1> QED
  BY <1>1, <1>2, <1>3 DEF Serve

LEMMA RequestShutdownTypes ==
  ASSUME Types, NEW k \in Callers, RequestShutdown(k)
  PROVE  Types'
<1>1. CASE CloseListener(k)
  <2>1. ThreadsType'
    BY <1>1, EmptySeq DEF Types, ThreadsType, CloseListener, Move, CallerPlaces
  <2> QED
    BY <1>1, <2>1, TypesUnchanged DEF Types, CloseListener
<1>2. CASE CopySockets(k)
  <2>1. ThreadsType'
    BY <1>2 DEF Types, ThreadsType, CopySockets, CallerPlaces, listener
  <2> QED
    BY <1>2, <2>1, TypesUnchanged DEF Types, CopySockets
<1>3. CASE CloseSockets(k)
  <2>1. ThreadsType'
    BY <1>3 DEF Types, ThreadsType, CloseSockets, CallerPlaces, listener
  <2>2. PeersType'
    BY <1>3, EmptySeq DEF Types, PeersType, CloseSockets
  <2> QED
    BY <1>3, <2>1, <2>2, TypesUnchanged DEF Types, CloseSockets
<1>4. CASE TakeThreads(k)
  <2>1. ThreadsType'
    BY <1>4 DEF Types, ThreadsType, TakeThreads, CallerPlaces, Taken, listener
  <2> QED
    BY <1>4, <2>1, TypesUnchanged DEF Types, TakeThreads
<1>5. CASE Join(k)
  <2>1. ThreadsType'
    BY <1>5 DEF Types, ThreadsType, Join, CallerPlaces, listener
  <2> QED
    BY <1>5, <2>1, TypesUnchanged DEF Types, Join
<1> QED
  BY <1>1, <1>2, <1>3, <1>4, <1>5 DEF RequestShutdown

-----------------------------------------------------------------------------
(* Types are kept: the session threads *)

LEMMA SessionThreadTypes ==
  ASSUME Types, NEW c \in Connections, SessionThread(c)
  PROVE  Types'
<1>1. /\ session[c] \in SessionRecord /\ SessionOK(session[c], session_counter)
      /\ session_counter \in Nat /\ epoch \in Nat
  BY ServerAssumption DEF Types, SessionsType, ProcessType
<1>2. session[c].stream \in Stream
  BY <1>1 DEF SessionRecord
<1>3. /\ NextOutcome(session[c].stream).status = "Complete" => NextOutcome(session[c].stream).frame \in Frame
      /\ AfterNext(session[c].stream) \in Stream
  BY <1>2, OutcomeType, AfterNextType
<1>4. toClient \in [Connections -> Seq(Unit)] /\ toServer \in [Connections -> Seq(Unit)]
      /\ client \in [Connections -> ClientRecord] /\ handled \in [Connections -> Seq(Done)]
  BY DEF Types, PeersType
<1>5. session \in [Connections -> SessionRecord] /\ SessionsType
  BY DEF Types, SessionsType
<1>6. \A v \in {"refused", "accepted"} : \A n \in Nat : HelloAck(n, v) \in Frame
  BY <1>1, HelloAckType DEF Payloads
<1>7. CASE ReadMore(c)
  <2>1. CASE \E n \in 1..Len(toServer[c]) :
               LET fed == Feed(session[c].stream, SubSeq(toServer[c], 1, n))
               IN /\ toServer' = [toServer EXCEPT ![c] = SubSeq(@, n + 1, Len(@))]
                  /\ session' = [session EXCEPT ![c].stream = fed,
                       ![c].at = IF fed.poisoned THEN "close" ELSE IF @ = "read" THEN "loop" ELSE @]
    <3>1. PICK n \in 1..Len(toServer[c]) :
               LET fed == Feed(session[c].stream, SubSeq(toServer[c], 1, n))
               IN /\ toServer' = [toServer EXCEPT ![c] = SubSeq(@, n + 1, Len(@))]
                  /\ session' = [session EXCEPT ![c].stream = fed,
                       ![c].at = IF fed.poisoned THEN "close" ELSE IF @ = "read" THEN "loop" ELSE @]
      BY <2>1
    <3>2. SubSeq(toServer[c], 1, n) \in Seq(Unit)
      <4>1. toServer[c] \in Seq(Unit) /\ Len(toServer[c]) \in Nat
        BY <1>4, LenProperties
      <4>2. \A i \in 1..n : toServer[c][i] \in Unit
        BY <4>1, ElementOfSeq
      <4> QED
        BY <4>1, <4>2, SubSeqProperties
    <3>3. SubSeq(toServer[c], n + 1, Len(toServer[c])) \in Seq(Unit)
      <4>1. toServer[c] \in Seq(Unit) /\ Len(toServer[c]) \in Nat
        BY <1>4, LenProperties
      <4>2. \A i \in (n + 1)..Len(toServer[c]) : toServer[c][i] \in Unit
        BY <4>1, ElementOfSeq
      <4> QED
        BY <4>1, <4>2, SubSeqProperties
    <3> DEFINE fed == Feed(session[c].stream, SubSeq(toServer[c], 1, n))
               place == IF fed.poisoned THEN "close"
                        ELSE IF session[c].at = "read" THEN "loop" ELSE session[c].at
               r == [session[c] EXCEPT !.stream = fed, !.at = place]
    <3>4. fed \in Stream
      BY <1>2, <3>2, FeedType
    <3>5. session[c].at \in {"hello", "read"}
      BY <1>7 DEF ReadMore, Running
    <3>6. place \in SessionPlaces /\ place \in {"close", "loop", "hello"} /\ (place = "loop" => session[c].at = "read")
      BY <3>5 DEF SessionPlaces
    <3>7. session' = [session EXCEPT ![c] = r]
      BY <3>1, <1>5
    <3> HIDE DEF fed, place
    <3>8. r \in SessionRecord /\ r.id = session[c].id /\ r.at = place
      BY <1>1, <3>4, <3>6 DEF SessionRecord
    <3> HIDE DEF r
    <3>9. SessionOK(r, session_counter) /\ session_counter' = session_counter
      BY <1>1, <1>7, <3>6, <3>8 DEF SessionOK, ReadMore
    <3>10. SessionsType'
      BY <1>5, <3>7, <3>9, OneSessionSameCounter
    <3>11. PeersType'
      BY <1>4, <1>7, <3>1, <3>3 DEF ReadMore, PeersType
    <3> QED
      BY <1>7, <3>10, <3>11, TypesUnchanged DEF ReadMore, Types
  <2>2. CASE Goto(c, "close") /\ UNCHANGED toServer
    <3>1. SessionsType'
      <4>1. session_counter' = session_counter
        BY <1>7 DEF ReadMore
      <4> QED
        BY <1>5, <2>2, <4>1, LeavingType
    <3> QED
      BY <1>7, <2>2, <3>1, TypesUnchanged DEF ReadMore, Types, peers
  <2> QED
    BY <1>7, <2>1, <2>2 DEF ReadMore
<1>8. CASE Handshake(c)
  <2> DEFINE place == IF NextOutcome(session[c].stream).status = "Complete"
                         /\ NextOutcome(session[c].stream).frame.type = "Hello"
                         /\ NextOutcome(session[c].stream).frame.payload = "token"
                      THEN "admit" ELSE "close"
             r == [session[c] EXCEPT !.stream = AfterNext(session[c].stream), !.at = place]
  <2>1. session' = [session EXCEPT ![c] = r]
    BY <1>5, <1>8 DEF Handshake
  <2>2. place \in {"admit", "close"}
    OBVIOUS
  <2> HIDE DEF place
  <2>3. r \in SessionRecord /\ r.id = session[c].id /\ r.at = place
    BY <1>1, <1>3, <2>2 DEF SessionRecord, SessionPlaces
  <2> HIDE DEF r
  <2>4. SessionOK(r, session_counter) /\ session_counter' = session_counter
    BY <1>1, <1>8, <2>2, <2>3 DEF SessionOK, Handshake
  <2>5. SessionsType'
    BY <1>5, <2>1, <2>4, OneSessionSameCounter
  <2>6. UNCHANGED toClient \/ Reply(c, HelloAck(0, "refused"))
    BY <1>8 DEF Handshake
  <2>7. toClient' \in [Connections -> Seq(Unit)]
    BY <1>4, <1>6, <2>6, ReplyType
  <2>8. PeersType'
    BY <1>4, <1>8, <2>7 DEF Handshake, PeersType
  <2> QED
    BY <1>8, <2>5, <2>8, TypesUnchanged DEF Handshake, Types
<1>9. CASE Admit(c)
  <2>1. SessionsType'
    <3>1. session_counter' = session_counter /\ (Goto(c, "welcome") \/ Goto(c, "close"))
      BY <1>9 DEF Admit
    <3> QED
      BY <1>5, <3>1, LeavingType
  <2>2. UNCHANGED toClient \/ Reply(c, HelloAck(0, "refused"))
    BY <1>9 DEF Admit
  <2>3. toClient' \in [Connections -> Seq(Unit)]
    BY <1>4, <1>6, <2>2, ReplyType
  <2>4. PeersType'
    BY <1>4, <1>9, <2>3 DEF Admit, PeersType
  <2> QED
    BY <1>9, <2>1, <2>4, TypesUnchanged DEF Admit, Types
<1>10. CASE Welcome(c)
  <2>1. session_counter' = session_counter + 1 /\ session_counter' \in Nat
        /\ session_counter <= session_counter' /\ session_counter' # 0
    BY <1>1, <1>10 DEF Welcome
  <2>2. SessionsType'
    <3>1. CASE session' = [session EXCEPT ![c].at = "loop", ![c].id = session_counter']
      <4> DEFINE r == [session[c] EXCEPT !.at = "loop", !.id = session_counter']
      <4>1. session' = [session EXCEPT ![c] = r]
        BY <1>5, <3>1
      <4>2. r \in SessionRecord /\ r.id = session_counter' /\ r.at = "loop"
        BY <1>1, <2>1 DEF SessionRecord, SessionPlaces
      <4> HIDE DEF r
      <4>3. SessionOK(r, session_counter')
        BY <2>1, <4>2 DEF SessionOK
      <4> QED
        BY <1>5, <2>1, <4>1, <4>3, OneSession
    <3>2. CASE Goto(c, "close")
      <4> DEFINE r == [session[c] EXCEPT !.at = "close"]
      <4>1. session' = [session EXCEPT ![c] = r]
        BY <1>5, <3>2 DEF Goto
      <4>2. r \in SessionRecord /\ r.id = session[c].id /\ r.at = "close"
        BY <1>1, <2>1 DEF SessionRecord, SessionPlaces
      <4> HIDE DEF r
      <4>3. session[c].id \in Nat /\ session[c].id <= session_counter
        BY <1>1 DEF SessionOK, SessionRecord
      <4>4. session[c].id <= session_counter'
        BY <1>1, <2>1, <4>3
      <4>5. SessionOK(r, session_counter')
        BY <4>2, <4>4 DEF SessionOK
      <4> QED
        BY <1>5, <2>1, <4>1, <4>5, OneSession
    <3> QED
      BY <1>10, <3>1, <3>2 DEF Welcome
  <2>3. toClient' \in [Connections -> Seq(Unit)]
    BY <1>4, <1>6, <1>10, <2>1, ReplyType DEF Welcome
  <2>4. ThreadsType'
    BY <1>10, TypesUnchanged DEF Welcome, Types
  <2>5. PeersType'
    BY <1>4, <1>10, <2>3 DEF Welcome, PeersType
  <2> QED
    BY <1>10, <2>2, <2>4, <2>5, TypesUnchanged DEF Welcome, Types
<1>11. CASE LoopTop(c)
  <2> DEFINE outcome == NextOutcome(session[c].stream)
             refused == IF outcome.status = "Complete" THEN outcome.frame
                        ELSE [type |-> "Request", session |-> session[c].id,
                              sequence |-> session[c].last, epoch |-> 0, payload |-> "none"]
             stands == outcome.status = "Complete" /\ RequestStands(c, outcome.frame)
  <2>1. session[c].id \in Nat /\ session[c].last \in Nat /\ session[c].id # 0
        /\ session_counter' = session_counter
    BY <1>1, <1>11 DEF SessionOK, SessionRecord, LoopTop, Running
  <2>2. CASE shutting_down /\ Goto(c, "close") /\ UNCHANGED toClient
    <3>1. SessionsType'
      BY <1>5, <2>1, <2>2, LeavingType
    <3> QED
      BY <1>11, <2>2, <3>1, TypesUnchanged DEF LoopTop, Types, peers
  <2>3. CASE ~shutting_down /\ outcome.status = "NeedMore" /\ Goto(c, "read") /\ UNCHANGED toClient
    <3>1. SessionsType'
      BY <1>5, <2>1, <2>3, GotoType DEF SessionPlaces
    <3> QED
      BY <1>11, <2>3, <3>1, TypesUnchanged DEF LoopTop, Types, peers
  <2>4. CASE /\ ~shutting_down /\ stands
             /\ session' = [session EXCEPT ![c].stream = AfterNext(@), ![c].at = "dispatch",
                  ![c].request = <<outcome.frame>>, ![c].last = outcome.frame.sequence]
             /\ UNCHANGED toClient
    <3>1. outcome.frame \in Frame
      BY <1>3, <2>4
    <3>2. outcome.frame.sequence \in Nat
      BY <3>1 DEF Frame, PlainFrame, CallFrame
    <3> DEFINE f == outcome.frame
               r == [session[c] EXCEPT !.stream = AfterNext(session[c].stream),
                       !.at = "dispatch", !.request = <<f>>, !.last = f.sequence]
    <3>3. session' = [session EXCEPT ![c] = r]
      BY <1>5, <2>4
    <3> HIDE DEF f
    <3>4. <<f>> \in Seq(Frame) /\ Len(<<f>>) = 1
      BY <3>1 DEF f
    <3>5. /\ r \in SessionRecord /\ r.id = session[c].id /\ r.at = "dispatch"
          /\ r.request = <<f>>
      BY <1>1, <1>3, <3>2, <3>4 DEF SessionRecord, SessionPlaces, f
    <3> HIDE DEF r
    <3>6. SessionOK(r, session_counter)
      BY <1>1, <2>1, <3>4, <3>5 DEF SessionOK
    <3>7. SessionsType'
      BY <1>5, <2>1, <3>3, <3>6, OneSessionSameCounter
    <3> QED
      BY <1>11, <2>4, <3>7, TypesUnchanged DEF LoopTop, Types, peers
  <2>5. CASE /\ ~shutting_down /\ outcome.status # "NeedMore" /\ ~stands
             /\ session' = [session EXCEPT ![c].stream = AfterNext(@), ![c].at = "close"]
             /\ Reply(c, Response(refused, "error"))
    <3> DEFINE r == [session[c] EXCEPT !.stream = AfterNext(session[c].stream), !.at = "close"]
    <3>1. session' = [session EXCEPT ![c] = r]
      BY <1>5, <2>5
    <3>2. r \in SessionRecord /\ r.id = session[c].id /\ r.at = "close"
      BY <1>1, <1>3 DEF SessionRecord, SessionPlaces
    <3> HIDE DEF r
    <3>3. SessionOK(r, session_counter)
      BY <1>1, <3>2 DEF SessionOK
    <3>4. SessionsType'
      BY <1>5, <2>1, <3>1, <3>3, OneSessionSameCounter
    <3>5. refused \in Frame
      BY <1>3, <2>1 DEF Frame, PlainFrame, MessageTypes, Payloads
    <3>6. toClient' \in [Connections -> Seq(Unit)]
      BY <1>4, <2>5, <3>5, ReplyType, ResponseType DEF Payloads
    <3>7. PeersType'
      BY <1>4, <1>11, <3>6 DEF LoopTop, PeersType
    <3> QED
      BY <1>11, <3>4, <3>7, TypesUnchanged DEF LoopTop, Types
  <2> QED
    BY <1>11, <2>2, <2>3, <2>4, <2>5 DEF LoopTop
<1>12. CASE Dispatch(c)
  <2>1. PICK code \in {"ok", "refused"} :
          /\ session' = [session EXCEPT ![c].at = "answer", ![c].request = <<@[1], code>>]
          /\ handled' = [handled EXCEPT ![c] = Append(@, [frame |-> session[c].request[1],
                                                         epoch |-> epoch, code |-> code])]
    BY <1>12 DEF Dispatch
  <2>2. session[c].request[1] \in Frame
    <3>1. session[c].request \in Seq(Frame) /\ Len(session[c].request) = 1
      BY <1>1, <1>12 DEF SessionOK, Dispatch, Running
    <3> QED
      BY <3>1, ElementOfSeq
  <2> DEFINE f == session[c].request[1]
             r == [session[c] EXCEPT !.at = "answer", !.request = <<f, code>>]
  <2>3. session' = [session EXCEPT ![c] = r]
    BY <1>5, <2>1
  <2> HIDE DEF f
  <2>4. <<f, code>> \in Frame \X Codes
    BY <2>2 DEF f, Codes
  <2>5. /\ r \in SessionRecord /\ r.id = session[c].id /\ r.at = "answer"
        /\ r.request = <<f, code>>
    BY <1>1, <2>4 DEF SessionRecord, SessionPlaces
  <2> HIDE DEF r
  <2>6. session[c].id # 0
    BY <1>1, <1>12 DEF SessionOK, Dispatch, Running
  <2>7. SessionOK(r, session_counter)
    BY <1>1, <2>4, <2>5, <2>6 DEF SessionOK
  <2>8. session_counter' = session_counter
    BY <1>12 DEF Dispatch
  <2>9. SessionsType'
    BY <1>5, <2>3, <2>7, <2>8, OneSessionSameCounter
  <2>10. handled' \in [Connections -> Seq(Done)]
    <3>1. [frame |-> f, epoch |-> epoch, code |-> code] \in Done
      BY <1>1, <2>2 DEF Done, Codes, f
    <3>2. Append(handled[c], [frame |-> f, epoch |-> epoch, code |-> code]) \in Seq(Done)
      BY <1>4, <3>1, AppendProperties
    <3> QED
      BY <1>4, <2>1, <3>2 DEF f
  <2>11. PeersType'
    BY <1>4, <1>12, <2>10 DEF Dispatch, PeersType
  <2> QED
    BY <1>12, <2>9, <2>11, TypesUnchanged DEF Dispatch, Types
<1>13. CASE Answer(c)
  <2>1. session[c].request \in Frame \X Codes /\ session[c].id # 0
    BY <1>1, <1>13 DEF SessionOK, Answer, Running
  <2>2. PICK f \in Frame, code \in Codes : session[c].request = <<f, code>>
    BY <2>1
  <2>3. f = session[c].request[1] /\ code = session[c].request[2]
    BY <2>2
  <2>4. Response(f, code) \in Frame
    BY ResponseType DEF Codes, Payloads
  <2>5. toClient' \in [Connections -> Seq(Unit)]
    BY <1>4, <1>13, <2>3, <2>4, ReplyType DEF Answer
  <2> DEFINE place == IF f.payload = "shutdown" THEN "close" ELSE "loop"
             r == [session[c] EXCEPT !.request = <<>>, !.at = place]
  <2>6. session' = [session EXCEPT ![c] = r]
    BY <1>5, <1>13, <2>3 DEF Answer
  <2>7. place \in {"close", "loop"}
    OBVIOUS
  <2> HIDE DEF place
  <2>8. r \in SessionRecord /\ r.id = session[c].id /\ r.at = place
    BY <1>1, <2>7, EmptySeq DEF SessionRecord, SessionPlaces
  <2> HIDE DEF r
  <2>9. SessionOK(r, session_counter)
    BY <1>1, <2>1, <2>7, <2>8 DEF SessionOK
  <2>10. session_counter' = session_counter
    BY <1>13 DEF Answer
  <2>11. SessionsType'
    BY <1>5, <2>6, <2>9, <2>10, OneSessionSameCounter
  <2>12. PeersType'
    BY <1>4, <1>13, <2>5 DEF Answer, PeersType
  <2> QED
    BY <1>13, <2>11, <2>12, TypesUnchanged DEF Answer, Types
<1>14. CASE CloseSocket(c)
  <2> DEFINE r == [NoSession EXCEPT !.at = "erase"]
  <2>1. session' = [session EXCEPT ![c] = r] /\ session_counter' = session_counter
    BY <1>14 DEF CloseSocket
  <2>2. r \in SessionRecord /\ r.id = 0 /\ r.at = "erase"
    BY NoSessionType DEF SessionOK, NoSession, SessionRecord, SessionPlaces
  <2> HIDE DEF r
  <2>3. SessionOK(r, session_counter)
    BY <1>1, <2>2 DEF SessionOK
  <2>4. SessionsType'
    BY <1>5, <2>1, <2>3, OneSessionSameCounter
  <2>5. ThreadsType'
    BY <1>14 DEF CloseSocket, Types, ThreadsType, listener
  <2>6. PeersType'
    BY <1>4, <1>14, EmptySeq DEF CloseSocket, PeersType
  <2> QED
    BY <1>14, <2>4, <2>5, <2>6, TypesUnchanged DEF CloseSocket, Types
<1>15. CASE EraseSocket(c)
  <2>1. Goto(c, "end") /\ session_counter' = session_counter
    BY <1>15 DEF EraseSocket
  <2>2. SessionsType'
    BY <1>5, <2>1, LeavingType
  <2>3. ThreadsType'
    BY <1>15 DEF EraseSocket, Types, ThreadsType, listener
  <2> QED
    BY <1>15, <2>2, <2>3, TypesUnchanged DEF EraseSocket, Types
<1> QED
  BY <1>7, <1>8, <1>9, <1>10, <1>11, <1>12, <1>13, <1>14, <1>15 DEF SessionThread

-----------------------------------------------------------------------------
(* Types are kept: the clients *)

ClientStep(c) ==
  Connect(c) \/ Greet(c) \/ Call(c) \/ Stray(c) \/ Receive(c) \/ Close(c) \/ Die(c)

\* What the client of connection c may put on the wire as a request.
LEMMA RequestType ==
  ASSUME PeersType, NEW d \in Connections, NEW n \in Nat,
         NEW operation \in {"operate", "shutdown", "unknown"}
  PROVE  /\ Request(d, n, operation) \in CallFrame /\ Request(d, n, operation) \in Frame
         /\ [Request(d, n, operation) EXCEPT !.type = "Goodbye"] \in CallFrame
         /\ [Request(d, n, operation) EXCEPT !.type = "Goodbye"] \in Frame
<1>1. client[d].id \in Nat /\ client[d].epoch \in Nat
  BY DEF PeersType, ClientRecord
<1> QED
  BY <1>1 DEF Request, Frame, CallFrame, MessageTypes, Payloads

LEMMA GreetingsType ==
  ASSUME NEW u \in Greetings \cup {Sound(Hello("token"))}
  PROVE  u \in Seq(Unit) /\ Len(u) = 2
<1>1. \A p \in {"token", "wrong token", "undecodable"} : Hello(p) \in Frame
  BY DEF Hello, Frame, PlainFrame, MessageTypes, Payloads
<1>2. [Hello("token") EXCEPT !.type = "Request"] \in Frame
  BY DEF Hello, Frame, PlainFrame, MessageTypes, Payloads
<1>3. \A f \in Frame : Sound(f) \in Seq(Unit) /\ Len(Sound(f)) = 2
  BY EncodeFrameType DEF HeaderVerdicts, PayloadVerdicts
<1>4. /\ EncodeFrame(Hello("token"), "Oversized", "Complete") \in Seq(Unit)
      /\ Len(EncodeFrame(Hello("token"), "Oversized", "Complete")) = 2
  BY <1>1, EncodeFrameType DEF HeaderVerdicts, PayloadVerdicts
<1>5. CASE u \in {Sound(Hello(p)) : p \in {"token", "wrong token", "undecodable"}}
  BY <1>1, <1>3, <1>5
<1>6. CASE u = Sound([Hello("token") EXCEPT !.type = "Request"])
  BY <1>2, <1>3, <1>6
<1>7. CASE u = Sound(Hello("token"))
  BY <1>1, <1>3, <1>7
<1> QED
  BY <1>4, <1>5, <1>6, <1>7 DEF Greetings

\* What a stray client sends, one frame at a time.
LEMMA StraysType ==
  ASSUME PeersType, scenario.calls \in Nat, NEW c \in Connections, NEW u \in Strays(c)
  PROVE  u \in Seq(Unit) /\ Len(u) = 2
<1>1. client[c].sequence \in Nat /\ scenario.calls + 1 \in Nat
  BY DEF PeersType, ClientRecord
<1>2. \A f \in Frame : Sound(f) \in Seq(Unit) /\ Len(Sound(f)) = 2
  BY EncodeFrameType DEF HeaderVerdicts, PayloadVerdicts
<1>3. CASE u = Sound(Request(c, client[c].sequence, "operate"))
  BY <1>1, <1>2, <1>3, RequestType
<1>4. CASE u = Sound(Request(c, scenario.calls + 1, "unknown"))
  BY <1>1, <1>2, <1>4, RequestType
<1>5. CASE u = Sound([Request(c, scenario.calls + 1, "operate") EXCEPT !.type = "Goodbye"])
  BY <1>1, <1>2, <1>5, RequestType
<1>6. CASE u = EncodeFrame(Request(c, scenario.calls + 1, "operate"), "Complete", "Corrupt")
  <2>1. Request(c, scenario.calls + 1, "operate") \in Frame
    BY <1>1, RequestType
  <2> QED
    BY <1>6, <2>1, EncodeFrameType DEF HeaderVerdicts, PayloadVerdicts
<1>7. CASE \E d \in Connections : u = Sound(Request(d, scenario.calls, "operate"))
  BY <1>2, <1>7, RequestType
<1> QED
  BY <1>3, <1>4, <1>5, <1>6, <1>7 DEF Strays

LEMMA ClientStepTypes ==
  ASSUME Types, NEW c \in Connections, ClientStep(c)
  PROVE  Types'
<1>1. scenario.calls \in Nat /\ PeersType
  BY ServerAssumption DEF Types, ProcessType
<1>2. toClient \in [Connections -> Seq(Unit)] /\ toServer \in [Connections -> Seq(Unit)]
      /\ client \in [Connections -> ClientRecord] /\ handled \in [Connections -> Seq(Done)]
  BY DEF Types, PeersType
<1>3. client[c] \in ClientRecord /\ client[c].stream \in Stream
  BY <1>2 DEF ClientRecord
<1>4. CASE Connect(c)
  <2>1. backlog' \in Seq(Connections)
    BY <1>4, AppendProperties DEF Connect, Types, ThreadsType
  <2>2. ThreadsType'
    BY <1>4, <2>1 DEF Connect, Types, ThreadsType
  <2>3. client' \in [Connections -> ClientRecord]
    <3>1. client' = [client EXCEPT ![c].at = "connected"]
          \/ client' = [client EXCEPT ![c].at = "closed"]
      BY <1>4 DEF Connect, Become
    <3>2. CASE client' = [client EXCEPT ![c].at = "connected"]
      BY <1>2, <3>2 DEF ClientRecord, ClientPlaces
    <3>3. CASE client' = [client EXCEPT ![c].at = "closed"]
      BY <1>2, <3>3 DEF ClientRecord, ClientPlaces
    <3> QED
      BY <3>1, <3>2, <3>3
  <2>4. PeersType'
    BY <1>2, <1>4, <2>3 DEF Connect, PeersType
  <2> QED
    BY <1>4, <2>2, <2>4, TypesUnchanged DEF Connect, Types
<1>5. CASE Greet(c)
  <2>1. PICK u \in Greetings \cup {Sound(Hello("token"))} : Send(c, u)
    BY <1>5 DEF Greet
  <2>2. toServer' \in [Connections -> Seq(Unit)]
    BY <1>2, <2>1, GreetingsType, SendType
  <2>3. client' \in [Connections -> ClientRecord]
    BY <1>2, <1>5 DEF Greet, Become, ClientRecord, ClientPlaces
  <2>4. PeersType'
    BY <1>2, <1>5, <2>2, <2>3 DEF Greet, PeersType
  <2> QED
    BY <1>5, <2>4, TypesUnchanged DEF Greet, Types
<1>6. CASE Call(c)
  <2>1. client[c].sequence + 1 \in Nat
    BY <1>3 DEF ClientRecord
  <2>2. PICK operation \in Operations : Send(c, Sound(Request(c, client[c].sequence + 1, operation)))
    BY <1>6 DEF Call
  <2>3. Request(c, client[c].sequence + 1, operation) \in Frame
    BY <1>1, <2>1, RequestType DEF Operations
  <2>4. Sound(Request(c, client[c].sequence + 1, operation)) \in Seq(Unit)
    BY <2>3, EncodeFrameType DEF HeaderVerdicts, PayloadVerdicts
  <2>5. toServer' \in [Connections -> Seq(Unit)]
    BY <1>2, <2>2, <2>4, SendType
  <2>6. client' \in [Connections -> ClientRecord]
    <3>1. client' = [client EXCEPT ![c].at = "calling", ![c].sequence = @ + 1]
      BY <1>6 DEF Call
    <3> QED
      BY <1>2, <2>1, <3>1 DEF ClientRecord, ClientPlaces
  <2>7. PeersType'
    BY <1>2, <1>6, <2>5, <2>6 DEF Call, PeersType
  <2> QED
    BY <1>6, <2>7, TypesUnchanged DEF Call, Types
<1>7. CASE Stray(c)
  <2>1. PICK u \in Strays(c) : Send(c, u)
    BY <1>7 DEF Stray
  <2>2. toServer' \in [Connections -> Seq(Unit)]
    BY <1>1, <1>2, <2>1, StraysType, SendType
  <2>3. client' \in [Connections -> ClientRecord]
    BY <1>2, <1>7 DEF Stray, Become, ClientRecord, ClientPlaces
  <2>4. PeersType'
    BY <1>2, <1>7, <2>2, <2>3 DEF Stray, PeersType
  <2> QED
    BY <1>7, <2>4, TypesUnchanged DEF Stray, Types
<1>8. CASE Receive(c)
  <2> DEFINE fed == Feed(client[c].stream, toClient[c])
             outcome == NextOutcome(fed)
             in == /\ outcome.status = "Complete" /\ outcome.frame.type = "HelloAck"
                   /\ outcome.frame.payload = "accepted"
             ok == /\ outcome.status = "Complete" /\ IsAnswer(c, outcome.frame)
                   /\ outcome.frame.payload = "ok"
  <2>1. /\ AfterNext(fed) \in Stream
        /\ outcome.status = "Complete" => outcome.frame.session \in Nat /\ outcome.frame.epoch \in Nat
    <3>1. fed \in Stream
      BY <1>2, <1>3, FeedType
    <3>2. AfterNext(fed) \in Stream /\ (outcome.status = "Complete" => outcome.frame \in Frame)
      BY <3>1, AfterNextType, OutcomeType
    <3> QED
      BY <3>2 DEF Frame, PlainFrame, CallFrame
  <2> HIDE DEF fed
  <2>2. client' \in [Connections -> ClientRecord]
    <3>1. CASE client' = [client EXCEPT ![c].stream = AfterNext(fed),
                            ![c].at = IF in THEN "ready" ELSE "closed",
                            ![c].id = IF in THEN outcome.frame.session ELSE @,
                            ![c].epoch = IF in THEN outcome.frame.epoch ELSE @]
      <4> DEFINE place == IF in THEN "ready" ELSE "closed"
                 id == IF in THEN outcome.frame.session ELSE client[c].id
                 e == IF in THEN outcome.frame.epoch ELSE client[c].epoch
                 r == [client[c] EXCEPT !.stream = AfterNext(fed), !.at = place, !.id = id, !.epoch = e]
      <4>1. client' = [client EXCEPT ![c] = r]
        BY <1>2, <3>1
      <4>2. place \in ClientPlaces /\ id \in Nat /\ e \in Nat
        BY <1>3, <2>1 DEF ClientRecord, ClientPlaces
      <4> HIDE DEF place, id, e
      <4>3. r \in ClientRecord
        BY <1>3, <2>1, <4>2 DEF ClientRecord
      <4> HIDE DEF r
      <4> QED
        BY <1>2, <4>1, <4>3
    <3>2. CASE client' = [client EXCEPT ![c].stream = AfterNext(fed), ![c].at = "ready",
                            ![c].acked = IF ok THEN @ \cup {client[c].sequence} ELSE @]
      <4>1. /\ client[c].acked \in SUBSET Nat
            /\ (IF ok THEN client[c].acked \cup {client[c].sequence} ELSE client[c].acked) \in SUBSET Nat
        BY <1>3 DEF ClientRecord
      <4> DEFINE a == IF ok THEN client[c].acked \cup {client[c].sequence} ELSE client[c].acked
                 r == [client[c] EXCEPT !.stream = AfterNext(fed), !.at = "ready", !.acked = a]
      <4>2. client' = [client EXCEPT ![c] = r]
        BY <1>2, <3>2
      <4> HIDE DEF a
      <4>3. r \in ClientRecord
        BY <1>3, <2>1, <4>1 DEF ClientRecord, ClientPlaces, a
      <4> HIDE DEF r
      <4> QED
        BY <1>2, <4>2, <4>3
    <3>3. CASE Leave(c)
      BY <1>2, <3>3, NewStreamType DEF Leave, ClientRecord, ClientPlaces
    <3>4. \/ client' = [client EXCEPT ![c].stream = AfterNext(fed),
                          ![c].at = IF in THEN "ready" ELSE "closed",
                          ![c].id = IF in THEN outcome.frame.session ELSE @,
                          ![c].epoch = IF in THEN outcome.frame.epoch ELSE @]
          \/ client' = [client EXCEPT ![c].stream = AfterNext(fed), ![c].at = "ready",
                          ![c].acked = IF ok THEN @ \cup {client[c].sequence} ELSE @]
          \/ Leave(c)
      BY <1>8, Zenon DEF Receive, fed
    <3> QED
      BY <3>1, <3>2, <3>3, <3>4
  <2>3. toClient' \in [Connections -> Seq(Unit)]
    <3>1. toClient' = [toClient EXCEPT ![c] = <<>>] \/ toClient' = toClient
      BY <1>8 DEF Receive
    <3> QED
      BY <1>2, <3>1, EmptySeq
  <2>4. PeersType'
    BY <1>2, <1>8, <2>2, <2>3 DEF Receive, PeersType
  <2> QED
    BY <1>8, <2>4, TypesUnchanged DEF Receive, Types
<1>9. CASE Close(c) \/ Die(c)
  <2>1. Leave(c) /\ toClient' = [toClient EXCEPT ![c] = <<>>]
    BY <1>9 DEF Close, Die
  <2>2. client' \in [Connections -> ClientRecord]
    BY <1>2, <2>1, NewStreamType DEF Leave, ClientRecord, ClientPlaces
  <2>3. PeersType'
    BY <1>2, <1>9, <2>1, <2>2, EmptySeq DEF Close, Die, PeersType
  <2> QED
    BY <1>9, <2>3, TypesUnchanged DEF Close, Die, Types
<1> QED
  BY <1>4, <1>5, <1>6, <1>7, <1>8, <1>9 DEF ClientStep

\* Every step keeps the types.
LEMMA NextTypes == Types /\ [Next]_vars => Types'
<1> SUFFICES ASSUME Types, [Next]_vars PROVE Types'
  OBVIOUS
<1>1. CASE Next
  BY <1>1, StartTypes, KillTypes, ServeTypes, RequestShutdownTypes, SessionThreadTypes,
     ClientStepTypes DEF Next, ClientStep
<1>2. CASE UNCHANGED vars
  BY <1>2, TypesUnchanged DEF vars, Types
<1> QED
  BY <1>1, <1>2

-----------------------------------------------------------------------------
(* The life of a thread *)

\* The parts of the invariant that are about threads.
Life == CallersInOrder /\ TableHoldsThreads /\ NoThreadLost /\ SessionLimit

\* A process that has just started.
Blank ==
  /\ serve = [at |-> "accept", socket |-> {}] /\ shutdown = [k \in Callers |-> NoCaller]
  /\ ~shutting_down /\ sockets = {} /\ threads = {}
  /\ session = [c \in Connections |-> NoSession]

LEMMA BlankLife == Blank => Life
<1> SUFFICES ASSUME Blank PROVE Life
  OBVIOUS
<1>1. "serve" \in Callers
  BY DEF Callers
<1>2. \A c \in Connections : session[c].at = "none"
  BY DEF Blank, NoSession
<1>3. {c \in Connections : Serving(c)} = {}
      /\ {c \in Connections : Established(c) \/ session[c].at = "welcome"} = {}
  BY <1>2 DEF Serving, Established
<1>4. CallersInOrder
  BY <1>1 DEF CallersInOrder, Blank, NoCaller
<1>5. TableHoldsThreads
  BY <1>2, <1>3, FS_EmptySet DEF TableHoldsThreads, Blank
<1>6. NoThreadLost
  BY <1>2 DEF NoThreadLost
<1>7. SessionLimit
  BY <1>3, FS_EmptySet, ServerAssumption DEF SessionLimit
<1> QED
  BY <1>4, <1>5, <1>6, <1>7 DEF Life

\* Steps that touch neither threads nor sessions.
LEMMA LifeUnchanged ==
  /\ Life /\ UNCHANGED <<process, serve, shutdown, shutting_down, listening, sockets, threads, session>>
  => Life'
<1> SUFFICES ASSUME Life, UNCHANGED <<process, serve, shutdown, shutting_down, listening, sockets,
                                      threads, session>>
             PROVE  Life'
  OBVIOUS
<1>1. CallersInOrder'
  BY DEF Life, CallersInOrder, process
<1>2. TableHoldsThreads'
  BY DEF Life, TableHoldsThreads, Serving
<1>3. NoThreadLost'
  BY DEF Life, NoThreadLost, process
<1>4. SessionLimit'
  BY DEF Life, SessionLimit, Serving, Established
<1> QED
  BY <1>1, <1>2, <1>3, <1>4 DEF Life

\* What a session thread does to the state of threads.
LEMMA SessionMoves ==
  ASSUME Types, NEW c \in Connections, SessionThread(c)
  PROVE  /\ alive /\ UNCHANGED <<process, serve, shutdown, shutting_down, listener, threads>>
         /\ \A d \in Connections : d # c => session'[d] = session[d]
         /\ session[c].at \notin {"none", "end"} /\ session'[c].at # "none"
         /\ \/ sockets' = sockets
            \/ sockets' = sockets \ {c} /\ session'[c].at = "end"
         /\ session'[c].at = "end" => session[c].at = "erase"
         /\ session'[c].at \in {"read", "dispatch", "answer"} =>
              Serving(c) \/ (session[c].at = "loop" /\ ~shutting_down)
         /\ session'[c].at \in {"welcome", "loop", "read", "dispatch", "answer"} =>
              \/ Established(c) \/ session[c].at = "welcome"
              \/ session[c].at = "admit" /\ TableHasRoom
<1>1. session \in [Connections -> SessionRecord] /\ session[c] \in SessionRecord
  BY DEF Types, SessionsType
<1>2. ASSUME NEW p, Goto(c, p)
      PROVE  session'[c].at = p /\ \A d \in Connections : d # c => session'[d] = session[d]
  BY <1>1, <1>2 DEF Goto, SessionRecord
<1>3. CASE ReadMore(c)
  <2>1. UNCHANGED <<process, serve, shutdown, shutting_down, listener, threads, sockets>> /\ alive
        /\ session[c].at \in {"hello", "read"}
    BY <1>3 DEF ReadMore, Running
  <2>2. /\ session'[c].at \in {"close", "loop", "hello"}
        /\ session'[c].at = "loop" => session[c].at = "read"
        /\ \A d \in Connections : d # c => session'[d] = session[d]
    <3>1. CASE Goto(c, "close")
      BY <1>2, <3>1
    <3>2. CASE \E n \in 1..Len(toServer[c]) :
                 LET fed == Feed(session[c].stream, SubSeq(toServer[c], 1, n))
                 IN session' = [session EXCEPT ![c].stream = fed,
                      ![c].at = IF fed.poisoned THEN "close" ELSE IF @ = "read" THEN "loop" ELSE @]
      <4>1. PICK fed : session' = [session EXCEPT ![c].stream = fed,
                      ![c].at = IF fed.poisoned THEN "close" ELSE IF @ = "read" THEN "loop" ELSE @]
        BY <3>2
      <4> QED
        BY <1>1, <2>1, <4>1 DEF SessionRecord
    <3> QED
      BY <1>3, <3>1, <3>2 DEF ReadMore
  <2> QED
    BY <2>1, <2>2 DEF Established
<1>4. CASE Handshake(c)
  <2>1. UNCHANGED <<process, serve, shutdown, shutting_down, listener, threads, sockets>> /\ alive
        /\ session[c].at = "hello"
    BY <1>4 DEF Handshake, Running
  <2>2. PICK p \in {"admit", "close"} :
          session' = [session EXCEPT ![c].stream = AfterNext(@), ![c].at = p]
    BY <1>4 DEF Handshake
  <2>3. session'[c].at \in {"admit", "close"} /\ \A d \in Connections : d # c => session'[d] = session[d]
    BY <1>1, <2>2 DEF SessionRecord
  <2> QED
    BY <2>1, <2>3
<1>5. CASE Admit(c)
  <2>1. UNCHANGED <<process, serve, shutdown, shutting_down, listener, threads, sockets>> /\ alive
        /\ session[c].at = "admit" /\ ((TableHasRoom /\ Goto(c, "welcome")) \/ Goto(c, "close"))
    BY <1>5 DEF Admit, Running
  <2> QED
    BY <1>2, <2>1
<1>6. CASE Welcome(c)
  <2>1. UNCHANGED <<process, serve, shutdown, shutting_down, listener, threads, sockets>> /\ alive
        /\ session[c].at = "welcome"
    BY <1>6 DEF Welcome, Running
  <2>2. session'[c].at \in {"loop", "close"} /\ \A d \in Connections : d # c => session'[d] = session[d]
    <3>1. CASE Goto(c, "close")
      BY <1>2, <3>1
    <3>2. CASE session' = [session EXCEPT ![c].at = "loop", ![c].id = session_counter']
      BY <1>1, <3>2 DEF SessionRecord
    <3> QED
      BY <1>6, <3>1, <3>2 DEF Welcome
  <2> QED
    BY <2>1, <2>2
<1>7. CASE LoopTop(c)
  <2>1. UNCHANGED <<process, serve, shutdown, shutting_down, listener, threads, sockets>> /\ alive
        /\ session[c].at = "loop"
    BY <1>7 DEF LoopTop, Running
  <2>2. /\ session'[c].at \in {"close", "read", "dispatch"} /\ (session'[c].at # "close" => ~shutting_down)
        /\ \A d \in Connections : d # c => session'[d] = session[d]
    <3>1. CASE shutting_down /\ Goto(c, "close")
      BY <1>2, <3>1
    <3>2. CASE ~shutting_down /\ Goto(c, "read")
      BY <1>2, <3>2
    <3> DEFINE f == NextOutcome(session[c].stream).frame
    <3>3. CASE ~shutting_down /\ session' = [session EXCEPT ![c].stream = AfterNext(@),
                 ![c].at = "dispatch", ![c].request = <<f>>, ![c].last = f.sequence]
      <4> HIDE DEF f
      <4> QED
        BY <1>1, <3>3 DEF SessionRecord
    <3>4. CASE session' = [session EXCEPT ![c].stream = AfterNext(@), ![c].at = "close"]
      BY <1>1, <3>4 DEF SessionRecord
    <3> QED
      BY <1>7, <3>1, <3>2, <3>3, <3>4 DEF LoopTop
  <2> QED
    BY <2>1, <2>2 DEF Established
<1>8. CASE Dispatch(c)
  <2>1. UNCHANGED <<process, serve, shutdown, shutting_down, listener, threads, sockets>> /\ alive
        /\ session[c].at = "dispatch"
    BY <1>8 DEF Dispatch, Running
  <2>2. PICK q : session' = [session EXCEPT ![c].at = "answer", ![c].request = q]
    BY <1>8 DEF Dispatch
  <2>3. session'[c].at = "answer" /\ \A d \in Connections : d # c => session'[d] = session[d]
    BY <1>1, <2>2 DEF SessionRecord
  <2> QED
    BY <2>1, <2>3 DEF Serving, Established
<1>9. CASE Answer(c)
  <2>1. UNCHANGED <<process, serve, shutdown, shutting_down, listener, threads, sockets>> /\ alive
        /\ session[c].at = "answer"
    BY <1>9 DEF Answer, Running
  <2>2. PICK p \in {"close", "loop"} : session' = [session EXCEPT ![c].request = <<>>, ![c].at = p]
    BY <1>9 DEF Answer
  <2>3. session'[c].at \in {"close", "loop"} /\ \A d \in Connections : d # c => session'[d] = session[d]
    BY <1>1, <2>2 DEF SessionRecord
  <2> QED
    BY <2>1, <2>3 DEF Established
<1>10. CASE CloseSocket(c)
  <2>1. UNCHANGED <<process, serve, shutdown, shutting_down, listener, threads, sockets>> /\ alive
        /\ session[c].at = "close"
    BY <1>10 DEF CloseSocket, Running
  <2>2. session'[c].at = "erase" /\ \A d \in Connections : d # c => session'[d] = session[d]
    BY <1>1, <1>10 DEF CloseSocket, NoSession
  <2> QED
    BY <2>1, <2>2
<1>11. CASE EraseSocket(c)
  <2>1. UNCHANGED <<process, serve, shutdown, shutting_down, listener, threads>> /\ alive
        /\ session[c].at = "erase" /\ sockets' = sockets \ {c} /\ Goto(c, "end")
    BY <1>11 DEF EraseSocket, Running
  <2> QED
    BY <1>2, <2>1
<1> QED
  BY <1>3, <1>4, <1>5, <1>6, <1>7, <1>8, <1>9, <1>10, <1>11 DEF SessionThread

\* A session thread keeps the invariant: it lets itself in only while the table, which holds
\* every session, has room, and starts to serve only while nobody asked for a shutdown.
LEMMA SessionThreadLife ==
  ASSUME Types, Life, NEW c \in Connections, SessionThread(c)
  PROVE  Life'
<1> DEFINE S == {d \in Connections : Serving(d)}
           E == {d \in Connections : Established(d) \/ session[d].at = "welcome"}
<1>1. /\ alive /\ UNCHANGED <<process, serve, shutdown, shutting_down, listener, threads>>
      /\ \A d \in Connections : d # c => session'[d] = session[d]
      /\ session[c].at \notin {"none", "end"} /\ session'[c].at # "none"
      /\ \/ sockets' = sockets
         \/ sockets' = sockets \ {c} /\ session'[c].at = "end"
  BY SessionMoves
<1>2. session'[c].at \in {"read", "dispatch", "answer"} =>
        Serving(c) \/ (session[c].at = "loop" /\ ~shutting_down)
  BY SessionMoves
<1>3. session'[c].at \in {"welcome", "loop", "read", "dispatch", "answer"} =>
        \/ Established(c) \/ session[c].at = "welcome"
        \/ session[c].at = "admit" /\ TableHasRoom
  BY SessionMoves
<1>4. IsFiniteSet(sockets) /\ IsFiniteSet(S) /\ sockets \subseteq Connections
  BY DEF Life, TableHoldsThreads, Types, ThreadsType
<1>5. MaxSessions \in Nat
  BY ServerAssumption
<1>6. CallersInOrder'
  <2>1. sockets = {} => sockets' = {}
    BY <1>1
  <2> QED
    BY <1>1, <2>1 DEF Life, CallersInOrder, process, listener
<1>7. ~shutting_down => E \cup {c} \subseteq sockets
  BY <1>1 DEF Life, TableHoldsThreads, Established
<1>8. NoThreadLost'
  <2> SUFFICES ASSUME NEW d \in Connections, session'[d].at \notin {"none", "end"}
               PROVE  \/ d \in threads'
                      \/ \E k \in Callers : d \in shutdown'[k].pending
                      \/ serve'.at = "register" /\ d \in serve'.socket
    BY DEF NoThreadLost
  <2>1. session[d].at \notin {"none", "end"}
    BY <1>1
  <2> QED
    BY <1>1, <2>1 DEF Life, NoThreadLost
<1>9. (S)' \subseteq S \/ (~shutting_down /\ (S)' \subseteq E)
  <2>1. CASE Serving(c)
    <3>1. \A d \in Connections : d # c => (Serving(d)' <=> Serving(d))
      BY <1>1 DEF Serving
    <3> QED
      BY <2>1, <3>1
  <2>2. CASE ~(session'[c].at \in {"read", "dispatch", "answer"})
    <3>1. \A d \in Connections : Serving(d)' => Serving(d)
      BY <1>1, <2>2 DEF Serving
    <3> QED
      BY <3>1
  <2>3. CASE session[c].at = "loop" /\ ~shutting_down
    <3>1. c \in E
      BY <2>3 DEF Established
    <3>2. \A d \in Connections : d # c /\ Serving(d)' => Established(d)
      BY <1>1 DEF Serving, Established
    <3> QED
      BY <2>3, <3>1, <3>2
  <2> QED
    BY <1>2, <2>1, <2>2, <2>3
<1>10. (E)' \subseteq E \/ (TableHasRoom /\ (E)' \subseteq E \cup {c})
  <2>1. \A d \in Connections : d # c =>
          ((Established(d) \/ session[d].at = "welcome")' <=> (Established(d) \/ session[d].at = "welcome"))
    BY <1>1 DEF Established
  <2>2. (Established(c) \/ session[c].at = "welcome")' => c \in E \/ TableHasRoom
    BY <1>3 DEF Established
  <2>3. (E)' \subseteq E \cup {c} /\ (c \in (E)' => c \in E \/ TableHasRoom)
    BY <2>1, <2>2
  <2> QED
    BY <2>3
<1>11. Cardinality(S) < MaxSessions /\ (~shutting_down => Cardinality(E) < MaxSessions)
  BY DEF Life, SessionLimit
<1> HIDE DEF S, E
<1>12. ~shutting_down => IsFiniteSet(E)
  BY <1>4, <1>7, FS_Subset
<1>13. IsFiniteSet((S)') /\ Cardinality((S)') < MaxSessions
  <2>1. CASE (S)' \subseteq S
    <3>1. IsFiniteSet((S)') /\ Cardinality((S)') <= Cardinality(S) /\ Cardinality((S)') \in Nat
          /\ Cardinality(S) \in Nat
      BY <1>4, <2>1, FS_Subset, FS_CardinalityType
    <3> QED
      BY <1>5, <1>11, <3>1
  <2>2. CASE ~shutting_down /\ (S)' \subseteq E
    <3>1. IsFiniteSet((S)') /\ Cardinality((S)') <= Cardinality(E) /\ Cardinality((S)') \in Nat
          /\ Cardinality(E) \in Nat
      BY <1>12, <2>2, FS_Subset, FS_CardinalityType
    <3> QED
      BY <1>5, <1>11, <2>2, <3>1
  <2> QED
    BY <1>9, <2>1, <2>2
<1>14. ~shutting_down' => Cardinality((E)') < MaxSessions
  <2> SUFFICES ASSUME ~shutting_down' PROVE Cardinality((E)') < MaxSessions
    OBVIOUS
  <2>1. ~shutting_down
    BY <1>1
  <2>2. CASE (E)' \subseteq E
    <3>1. Cardinality((E)') <= Cardinality(E) /\ Cardinality((E)') \in Nat /\ Cardinality(E) \in Nat
      BY <1>12, <2>1, <2>2, FS_Subset, FS_CardinalityType
    <3> QED
      BY <1>5, <1>11, <2>1, <3>1
  <2>3. CASE TableHasRoom /\ (E)' \subseteq E \cup {c}
    <3>1. (E)' \subseteq sockets
      BY <1>7, <2>1, <2>3
    <3>2. Cardinality((E)') <= Cardinality(sockets) /\ Cardinality((E)') \in Nat
          /\ Cardinality(sockets) \in Nat
      BY <1>4, <3>1, FS_Subset, FS_CardinalityType
    <3> QED
      BY <1>5, <2>3, <3>2 DEF TableHasRoom
  <2> QED
    BY <1>10, <2>2, <2>3
<1>15. SessionLimit'
  BY <1>13, <1>14 DEF SessionLimit, S, E
<1>16. TableHoldsThreads'
  <2>1. IsFiniteSet(sockets') /\ IsFiniteSet(serve'.socket)
    BY <1>1, <1>4, FS_Subset DEF Life, TableHoldsThreads
  <2>2. ASSUME ~shutting_down', NEW d \in Connections, session'[d].at \notin {"none", "end"}
        PROVE  d \in sockets'
    <3>1. d \in sockets
      <4>1. session[d].at \notin {"none", "end"} /\ ~shutting_down
        BY <1>1, <2>2
      <4> QED
        BY <4>1 DEF Life, TableHoldsThreads
    <3> QED
      BY <1>1, <2>2, <3>1
  <2> QED
    BY <1>13, <2>1, <2>2 DEF TableHoldsThreads, S
<1> QED
  BY <1>6, <1>8, <1>15, <1>16 DEF Life

\* A step after which no session serves or is let in that did not or was not before.
LEMMA LimitKept ==
  ASSUME Life, ~shutting_down' => ~shutting_down,
         \A d \in Connections : session'[d] = session[d] \/ session'[d].at \in {"none", "hello"}
  PROVE  SessionLimit' /\ IsFiniteSet({d \in Connections : Serving(d)})'
<1> DEFINE S == {d \in Connections : Serving(d)}
           E == {d \in Connections : Established(d) \/ session[d].at = "welcome"}
<1>1. (S)' \subseteq S /\ (E)' \subseteq E
  BY DEF Serving, Established
<1>2. IsFiniteSet(S) /\ IsFiniteSet(sockets) /\ (~shutting_down => E \subseteq sockets)
  BY DEF Life, TableHoldsThreads, Established
<1>3. Cardinality(S) < MaxSessions /\ (~shutting_down => Cardinality(E) < MaxSessions)
      /\ MaxSessions \in Nat
  BY ServerAssumption DEF Life, SessionLimit
<1> HIDE DEF S, E
<1>4. IsFiniteSet((S)') /\ Cardinality((S)') < MaxSessions
  <2>1. IsFiniteSet((S)') /\ Cardinality((S)') <= Cardinality(S) /\ Cardinality((S)') \in Nat
        /\ Cardinality(S) \in Nat
    BY <1>1, <1>2, FS_Subset, FS_CardinalityType
  <2> QED
    BY <1>3, <2>1
<1>5. ~shutting_down' => Cardinality((E)') < MaxSessions
  <2> SUFFICES ASSUME ~shutting_down' PROVE Cardinality((E)') < MaxSessions
    OBVIOUS
  <2>1. IsFiniteSet(E)
    BY <1>2, FS_Subset
  <2>2. Cardinality((E)') <= Cardinality(E) /\ Cardinality((E)') \in Nat /\ Cardinality(E) \in Nat
    BY <1>1, <2>1, FS_Subset, FS_CardinalityType
  <2> QED
    BY <1>3, <2>2
<1> QED
  BY <1>4, <1>5 DEF SessionLimit, S, E

LEMMA ServeLife == Types /\ Life /\ Serve => Life'
<1> SUFFICES ASSUME Types, Life, Serve PROVE Life'
  OBVIOUS
<1>1. "serve" \in Callers /\ serve \in [at : {"accept", "spawn", "register", "stop"}, socket : SUBSET Connections]
      /\ session \in [Connections -> SessionRecord]
  BY DEF Callers, Types, ThreadsType, SessionsType
<1>2. UNCHANGED <<process, shutdown, shutting_down, listening>>
      /\ serve.at # "stop" /\ shutdown["serve"].at = "idle"
  BY DEF Serve, Accept, Spawn, RegisterThread, Life, CallersInOrder, listener
<1>3. CallersInOrder'
  BY <1>2 DEF Life, CallersInOrder, process
<1>4. IsFiniteSet(sockets) /\ IsFiniteSet(serve.socket)
  BY DEF Life, TableHoldsThreads
<1>5. CASE Accept
  <2>1. UNCHANGED <<sockets, session>> /\ serve.at = "accept" /\ serve'.at # "register"
    BY <1>1, <1>5 DEF Accept
  <2>2. IsFiniteSet(serve'.socket)
    <3>1. serve'.socket = {Head(backlog)} \/ serve'.socket = serve.socket
      BY <1>1, <1>5 DEF Accept
    <3> QED
      BY <1>4, <3>1, FS_Singleton
  <2>3. SessionLimit' /\ IsFiniteSet({d \in Connections : Serving(d)})'
    BY <1>2, <2>1, LimitKept
  <2>4. TableHoldsThreads'
    BY <1>2, <1>4, <2>1, <2>2, <2>3 DEF Life, TableHoldsThreads
  <2>5. \A c \in threads : session[c].at # "end" => c \in threads'
    BY <1>5 DEF Accept, ReapFinishedThreads, Ended
  <2>6. NoThreadLost'
    BY <1>2, <2>1, <2>5 DEF Life, NoThreadLost, process
  <2> QED
    BY <1>3, <2>3, <2>4, <2>6 DEF Life
<1>6. CASE Spawn
  <2>1. /\ UNCHANGED threads /\ serve.at = "spawn" /\ serve'.at = "register"
        /\ serve'.socket = serve.socket /\ sockets' = sockets \cup serve.socket
    BY <1>1, <1>6 DEF Spawn
  <2>2. \A d \in Connections : IF d \in serve.socket THEN session'[d].at = "hello"
                               ELSE session'[d] = session[d]
    BY <1>6 DEF Spawn, NoSession
  <2>3. SessionLimit' /\ IsFiniteSet({d \in Connections : Serving(d)})'
    <3>1. \A d \in Connections : session'[d] = session[d] \/ session'[d].at \in {"none", "hello"}
      BY <2>2
    <3> QED
      BY <1>2, <3>1, LimitKept
  <2>4. IsFiniteSet(sockets')
    BY <1>4, <2>1, FS_Union
  <2>5. TableHoldsThreads'
    BY <1>2, <1>4, <2>1, <2>2, <2>3, <2>4 DEF Life, TableHoldsThreads
  <2>6. NoThreadLost'
    BY <1>2, <2>1, <2>2 DEF Life, NoThreadLost, process
  <2> QED
    BY <1>3, <2>3, <2>5, <2>6 DEF Life
<1>7. CASE RegisterThread
  <2>1. /\ UNCHANGED <<sockets, session>> /\ serve.at = "register" /\ serve'.socket = {}
        /\ threads' = threads \cup serve.socket
    BY <1>1, <1>7 DEF RegisterThread
  <2>2. SessionLimit' /\ IsFiniteSet({d \in Connections : Serving(d)})'
    BY <1>2, <2>1, LimitKept
  <2>3. TableHoldsThreads'
    BY <1>2, <1>4, <2>1, <2>2, FS_EmptySet DEF Life, TableHoldsThreads
  <2>4. NoThreadLost'
    BY <1>2, <2>1 DEF Life, NoThreadLost, process
  <2> QED
    BY <1>3, <2>2, <2>3, <2>4 DEF Life
<1> QED
  BY <1>5, <1>6, <1>7 DEF Serve

LEMMA RequestShutdownLife ==
  ASSUME Types, Life, NEW k \in Callers, RequestShutdown(k)
  PROVE  Life'
<1>1. "serve" \in Callers /\ alive
      /\ shutdown \in [Callers -> [at : CallerPlaces, copied : SUBSET Connections,
                                   pending : SUBSET Connections]]
  BY DEF Callers, Types, ThreadsType, RequestShutdown, CloseListener, CopySockets, CloseSockets,
         TakeThreads, Join, At
<1>2. UNCHANGED <<process, serve, session>> /\ (~shutting_down' => ~shutting_down)
  BY DEF RequestShutdown, CloseListener, CopySockets, CloseSockets, TakeThreads, Join
<1>3. SessionLimit' /\ IsFiniteSet({d \in Connections : Serving(d)})'
  BY <1>2, LimitKept
<1>4. CASE CloseListener(k)
  <2>1. /\ UNCHANGED <<sockets, threads>> /\ shutting_down' = TRUE /\ listening' = FALSE
        /\ shutdown[k].at = "idle" /\ shutdown' = [shutdown EXCEPT ![k].at = "copy"]
    BY <1>4 DEF CloseListener, At, Move
  <2>2. k = "serve" \/ k \in scenario.stoppers
    BY <1>4 DEF CloseListener
  <2>3. k = "serve" => serve.at = "stop"
    BY <1>4 DEF CloseListener
  <2>4. /\ shutdown'[k].at = "copy" /\ shutdown'[k].pending = shutdown[k].pending
        /\ \A j \in Callers : j # k => shutdown'[j] = shutdown[j]
    BY <1>1, <2>1
  <2>5. CallersInOrder'
    BY <1>1, <1>2, <2>1, <2>2, <2>3, <2>4 DEF Life, CallersInOrder, process
  <2>6. TableHoldsThreads'
    BY <1>2, <1>3, <2>1 DEF Life, TableHoldsThreads
  <2>7. NoThreadLost'
    BY <1>1, <1>2, <2>1, <2>4 DEF Life, NoThreadLost, process
  <2> QED
    BY <1>3, <2>5, <2>6, <2>7 DEF Life
<1>5. CASE CopySockets(k) \/ CloseSockets(k)
  <2>1. /\ UNCHANGED <<sockets, threads, shutting_down, listening>>
        /\ shutdown[k].at \in {"copy", "close"} /\ shutdown'[k].at \in {"close", "take"}
        /\ shutdown'[k].pending = shutdown[k].pending
        /\ \A j \in Callers : j # k => shutdown'[j] = shutdown[j]
    BY <1>1, <1>5 DEF CopySockets, CloseSockets, At, listener
  <2>2. CallersInOrder'
    BY <1>1, <1>2, <2>1 DEF Life, CallersInOrder, process
  <2>3. TableHoldsThreads'
    BY <1>2, <1>3, <2>1 DEF Life, TableHoldsThreads
  <2>4. NoThreadLost'
    BY <1>1, <1>2, <2>1 DEF Life, NoThreadLost, process
  <2> QED
    BY <1>3, <2>2, <2>3, <2>4 DEF Life
<1>6. CASE TakeThreads(k)
  <2>1. /\ UNCHANGED <<sockets, shutting_down, listening>> /\ threads' = {}
        /\ shutdown[k].at = "take" /\ shutdown'[k].at = "join" /\ shutdown'[k].pending = threads
        /\ \A j \in Callers : j # k => shutdown'[j] = shutdown[j]
    BY <1>1, <1>6 DEF TakeThreads, Taken, At, listener
  <2>2. CallersInOrder'
    BY <1>1, <1>2, <2>1 DEF Life, CallersInOrder, process
  <2>3. TableHoldsThreads'
    BY <1>2, <1>3, <2>1 DEF Life, TableHoldsThreads
  <2>4. shutdown[k].pending = {}
    BY <2>1 DEF Life, CallersInOrder
  <2>5. NoThreadLost'
    BY <1>1, <1>2, <2>1, <2>4 DEF Life, NoThreadLost, process
  <2> QED
    BY <1>3, <2>2, <2>3, <2>5 DEF Life
<1>7. CASE Join(k)
  <2>1. /\ UNCHANGED <<threads, shutting_down, listening>> /\ sockets' = {}
        /\ shutdown[k].at = "join" /\ shutdown'[k].at = "done" /\ shutdown'[k].pending = {}
        /\ \A c \in shutdown[k].pending : session[c].at = "end"
        /\ \A j \in Callers : j # k => shutdown'[j] = shutdown[j]
    BY <1>1, <1>7 DEF Join, At, Ended, listener
  <2>2. shutting_down
    BY <2>1 DEF Life, CallersInOrder
  <2>3. CallersInOrder'
    BY <1>1, <1>2, <2>1 DEF Life, CallersInOrder, process
  <2>4. TableHoldsThreads'
    BY <1>2, <1>3, <2>1, <2>2, FS_EmptySet DEF Life, TableHoldsThreads
  <2>5. NoThreadLost'
    BY <1>1, <1>2, <2>1 DEF Life, NoThreadLost, process
  <2> QED
    BY <1>3, <2>3, <2>4, <2>5 DEF Life
<1> QED
  BY <1>4, <1>5, <1>6, <1>7 DEF RequestShutdown

-----------------------------------------------------------------------------
(* The invariant and what follows from it *)

LEMMA NothingWithoutProcessStep ==
  Types /\ NothingWithoutProcess /\ Next => NothingWithoutProcess'
<1> SUFFICES ASSUME Types, NothingWithoutProcess, Next PROVE NothingWithoutProcess'
  OBVIOUS
<1>1. CASE Start
  BY <1>1 DEF Start, NothingWithoutProcess, peers
<1>2. CASE Kill
  BY <1>2 DEF Kill, NothingWithoutProcess
<1>3. CASE Serve
  <2>1. alive /\ alive' = alive
    BY <1>3 DEF Serve, Accept, Spawn, RegisterThread, process
  <2> QED
    BY <2>1 DEF NothingWithoutProcess
<1>4. ASSUME NEW k \in Callers, RequestShutdown(k) PROVE NothingWithoutProcess'
  <2>1. alive /\ alive' = alive
    BY <1>4 DEF RequestShutdown, CloseListener, CopySockets, CloseSockets, TakeThreads, Join, At,
                process
  <2> QED
    BY <2>1 DEF NothingWithoutProcess
<1>5. ASSUME NEW c \in Connections, SessionThread(c) PROVE NothingWithoutProcess'
  <2>1. alive /\ alive' = alive
    BY <1>5, SessionMoves DEF process
  <2> QED
    BY <2>1 DEF NothingWithoutProcess
<1>6. ASSUME NEW c \in Connections, ClientStep(c) PROVE NothingWithoutProcess'
  <2>1. UNCHANGED <<process, serve, shutdown, shutting_down, listening, sockets, threads,
                    session_counter, session, open>>
    BY <1>6 DEF ClientStep, Connect, Greet, Call, Stray, Receive, Close, Die, listener
  <2>2. ~listening => UNCHANGED backlog
    BY <1>6 DEF ClientStep, Connect, Greet, Call, Stray, Receive, Close, Die, listener
  <2>3. ~ServerHolds(c) => UNCHANGED toServer
    BY <1>6 DEF ClientStep, Connect, Greet, Call, Stray, Receive, Close, Die, Send
  <2>4. ~alive => ~listening /\ ~ServerHolds(c)
    BY EmptySeq DEF NothingWithoutProcess, ServerHolds
  <2> QED
    BY <2>1, <2>2, <2>3, <2>4 DEF NothingWithoutProcess, process
<1> QED
  BY <1>1, <1>2, <1>3, <1>4, <1>5, <1>6 DEF Next, ClientStep

LEMMA InitLife == Init => LifeInvariant
<1> SUFFICES ASSUME Init PROVE LifeInvariant
  OBVIOUS
<1>1. Blank /\ NothingWithoutProcess
  BY DEF Init, Blank, NothingWithoutProcess
<1> QED
  BY <1>1, InitTypes, BlankLife DEF LifeInvariant, Life

LEMMA NextLife == LifeInvariant /\ [Next]_vars => LifeInvariant'
<1> SUFFICES ASSUME LifeInvariant, [Next]_vars PROVE LifeInvariant'
  OBVIOUS
<1>1. Types /\ NothingWithoutProcess /\ Life
  BY DEF LifeInvariant, Life
<1>2. Types'
  BY <1>1, NextTypes
<1>3. CASE Next
  <2>1. NothingWithoutProcess'
    BY <1>1, <1>3, NothingWithoutProcessStep
  <2>2. CASE Start
    <3>1. (Blank)'
      BY <1>1, <2>2 DEF Start, NothingWithoutProcess, Blank
    <3>2. (Life)'
      BY <3>1, BlankLife, PTL
    <3> QED
      BY <1>2, <2>1, <3>2 DEF LifeInvariant, Life
  <2>3. CASE Kill
    <3>1. (Blank)'
      BY <2>3 DEF Kill, Blank
    <3>2. (Life)'
      BY <3>1, BlankLife, PTL
    <3> QED
      BY <1>2, <2>1, <3>2 DEF LifeInvariant, Life
  <2>4. ASSUME NEW c \in Connections, ClientStep(c) PROVE Life'
    <3>1. UNCHANGED <<process, serve, shutdown, shutting_down, listening, sockets, threads, session>>
      BY <2>4 DEF ClientStep, Connect, Greet, Call, Stray, Receive, Close, Die, listener
    <3> QED
      BY <1>1, <3>1, LifeUnchanged
  <2>5. CASE Serve \/ (\E k \in Callers : RequestShutdown(k))
             \/ (\E c \in Connections : SessionThread(c) \/ ClientStep(c))
    <3>1. Life'
      BY <1>1, <2>4, <2>5, ServeLife, RequestShutdownLife, SessionThreadLife
    <3> QED
      BY <1>2, <2>1, <3>1 DEF LifeInvariant, Life
  <2> QED
    BY <1>3, <2>2, <2>3, <2>5 DEF Next, ClientStep
<1>4. CASE UNCHANGED vars
  <2>1. Life'
    BY <1>1, <1>4, LifeUnchanged DEF vars, listener
  <2>2. NothingWithoutProcess'
    BY <1>1, <1>4 DEF NothingWithoutProcess, vars, process, listener, peers
  <2> QED
    BY <1>2, <2>1, <2>2 DEF LifeInvariant, Life
<1> QED
  BY <1>3, <1>4

\* The invariant holds throughout, whatever is assumed of the scheduler and the clients.
LEMMA LifeHolds == Init /\ [][Next]_vars => []LifeInvariant
BY InitLife, NextLife, PTL

\* Every variable of the server, its sessions and its clients keeps its type, and a thread
\* that serves requests has a session id that was handed out.
THEOREM ServerTypes == (Spec \/ SpecWithEndingClients) => []TypeOK
<1>1. LifeInvariant => TypeOK
  BY DEF LifeInvariant, Types, ProcessType, ThreadsType, SessionsType, SessionOK, SessionRecord,
         TypeOK
<1> QED
  BY <1>1, LifeHolds, PTL DEF Spec, SpecWithEndingClients

\* No session thread is lost between accept loop, thread table and the threads that stop the
\* server, however many of them there are.
THEOREM NoThreadLostTheorem == (Spec \/ SpecWithEndingClients) => []NoThreadLost
<1>1. LifeInvariant => NoThreadLost
  BY DEF LifeInvariant
<1> QED
  BY <1>1, LifeHolds, PTL DEF Spec, SpecWithEndingClients

\* Fewer than max_sessions sessions serve, and while no shutdown was asked for fewer than that
\* are admitted, for every number of connections that race for admission.
THEOREM SessionLimitTheorem == (Spec \/ SpecWithEndingClients) => []SessionLimit
<1>1. LifeInvariant => SessionLimit
  BY DEF LifeInvariant
<1> QED
  BY <1>1, LifeHolds, PTL DEF Spec, SpecWithEndingClients

\* When the serving thread and every thread that asked for the shutdown are back, no session
\* thread runs and the socket table is empty: the serving thread takes the thread table last,
\* when nothing enters it any more, and whoever holds a thread has joined it.
THEOREM QuietTheorem == (Spec \/ SpecWithEndingClients) => []QuietAfterShutdown
<1>1. LifeInvariant => QuietAfterShutdown
  <2> SUFFICES ASSUME LifeInvariant, alive, \A k \in {"serve"} \cup scenario.stoppers : Returned(k)
               PROVE  /\ \A c \in Connections : session[c].at \in {"none", "end"}
                      /\ sockets = {}
    BY DEF QuietAfterShutdown
  <2>1. shutdown["serve"].at = "done" /\ "serve" \in Callers
    BY DEF Returned, Callers
  <2>2. threads = {} /\ sockets = {} /\ serve.at = "stop"
    BY <2>1 DEF LifeInvariant, CallersInOrder
  <2>3. \A k \in Callers : shutdown[k].at \in {"idle", "done"}
    BY DEF Returned, LifeInvariant, CallersInOrder
  <2>4. \A k \in Callers : shutdown[k].pending = {}
    BY <2>3 DEF LifeInvariant, CallersInOrder
  <2> QED
    BY <2>2, <2>4 DEF LifeInvariant, NoThreadLost
<1> QED
  BY <1>1, LifeHolds, PTL DEF Spec, SpecWithEndingClients
=============================================================================
