-------------------------------- MODULE Rcon --------------------------------
(***************************************************************************)
(* The RCON client of src/factoriorl/rcon.py, on one connection shared by  *)
(* several threads, and the server it talks to.                            *)
(*                                                                         *)
(* A call sends its command and a sentinel and reads packets until it has  *)
(* seen both ids; a packet with a lower id answers a call that gave up and *)
(* is drained.  The server is external: it answers in order, or, with a    *)
(* player connected, may answer a sentinel before its command, and it may  *)
(* take longer than the socket timeout.                                    *)
(***************************************************************************)
EXTENDS Naturals, Sequences, SequencesExt

CONSTANTS
  Threads,     \* the threads that share the client
  NoThread,    \* the lock is free
  FirstId,     \* FIRST_REQUEST_ID
  MaxId,       \* MAX_REQUEST_ID
  Chunks,      \* packets the server answers a command with (1 on this build)
  Players,     \* BOOLEAN: is a player connected
  Torn,        \* BOOLEAN: may a reply arrive in two pieces
  MaxCalls,    \* bound: calls made
  MaxDelays    \* bound: times the server outlasts a timeout

ASSUME NoThreadAssumption == NoThread \notin Threads
ASSUME IdAssumption == FirstId \in Nat /\ MaxId \in Nat /\ FirstId + 2 < MaxId
ASSUME ChunksAssumption == Chunks \in Nat \ {0}
ASSUME ModeAssumption == Players \in BOOLEAN /\ Torn \in BOOLEAN
ASSUME BoundsAssumption == MaxCalls \in Nat /\ MaxDelays \in Nat

VARIABLES
  nextId,   \* self._next_request_id
  holder,   \* the thread that holds self._lock
  call,     \* the exchange each thread is in, Idle when it is in none
  answer,   \* what the last call of each thread returned
  queue,    \* commands the server has not answered, in order
  stream,   \* packets on their way to the client
  calls,    \* how many calls were made; the number of a call is its serial
  delays,   \* history: how often the server outlasted a timeout
  failed    \* history: how many calls did not return

vars == <<nextId, holder, call, answer, queue, stream, calls, delays, failed>>

(* A packet is "whole", or only its "first" piece has arrived, or its      *)
(* first piece was read and thrown away and its "rest" is all there is.    *)
Packet(id, serial, part) == [id |-> id, serial |-> serial, part |-> part]

Idle == [id |-> 0, serial |-> 0, request |-> FALSE, sentinel |-> FALSE,
         reordered |-> FALSE, draining |-> FALSE, body |-> << >>]

NoAnswer == [serial |-> 0, body |-> << >>]

Init ==
  /\ nextId = FirstId
  /\ holder = NoThread
  /\ call = [t \in Threads |-> Idle]
  /\ answer = [t \in Threads |-> NoAnswer]
  /\ queue = << >>
  /\ stream = << >>
  /\ calls = 0
  /\ delays = 0
  /\ failed = 0

-----------------------------------------------------------------------------
(* with self._lock                                                         *)
LockedBy(t) == holder = NoThread

(* _allocate_ids: a pair, and the counter starts over before the maximum.  *)
FollowingId == IF nextId + 2 >= MaxId THEN FirstId ELSE nextId + 2

(* _exchange sends the command and its sentinel ...                        *)
Begin(t) ==
  /\ LockedBy(t)
  /\ calls < MaxCalls
  /\ calls' = calls + 1
  /\ nextId' = FollowingId
  /\ holder' = t
  /\ call' = [call EXCEPT ![t].id = nextId, ![t].serial = calls + 1]
  /\ queue' = queue \o <<[id |-> nextId, serial |-> calls + 1, sentinel |-> FALSE],
                         [id |-> nextId + 1, serial |-> calls + 1, sentinel |-> TRUE]>>
  /\ answer' = [answer EXCEPT ![t] = NoAnswer]
  /\ UNCHANGED <<stream, delays, failed>>

(* ... or, for expect_response = False, the command alone, and returns.    *)
BeginQuiet(t) ==
  /\ LockedBy(t)
  /\ calls < MaxCalls
  /\ calls' = calls + 1
  /\ nextId' = FollowingId
  /\ queue' = Append(queue, [id |-> nextId, serial |-> calls + 1, sentinel |-> FALSE])
  /\ answer' = [answer EXCEPT ![t] = NoAnswer]
  /\ UNCHANGED <<holder, call, stream, delays, failed>>

-----------------------------------------------------------------------------
(* The server answers a command with its chunks, a sentinel with one empty *)
(* packet; the last packet of an answer may still be on its way.           *)
Reply(c, part) ==
  [i \in 1 .. IF c.sentinel THEN 1 ELSE Chunks |->
     Packet(c.id, c.serial, IF i = Chunks \/ c.sentinel THEN part ELSE "whole")]

Arrived == \A i \in 1 .. Len(stream) : stream[i].part # "first"

Answered(i) ==
  /\ Arrived
  /\ \E part \in {"whole"} \cup (IF Torn THEN {"first"} ELSE {}) :
       stream' = stream \o Reply(queue[i], part)
  /\ queue' = RemoveAt(queue, i)
  /\ UNCHANGED <<nextId, holder, call, answer, calls, delays, failed>>

Serve == queue # << >> /\ Answered(1)

(* With a player connected a sentinel may overtake its own command.        *)
Overtake ==
  /\ Players
  /\ Len(queue) > 1
  /\ ~ queue[1].sentinel /\ queue[2].sentinel /\ queue[1].serial = queue[2].serial
  /\ Answered(2)

Arrive ==
  /\ ~ Arrived
  /\ stream' = [stream EXCEPT ![Len(stream)].part = "whole"]
  /\ UNCHANGED <<nextId, holder, call, answer, queue, calls, delays, failed>>

-----------------------------------------------------------------------------
Return(t, c) ==
  /\ answer' = [answer EXCEPT ![t] = [serial |-> c.serial, body |-> c.body]]
  /\ holder' = NoThread
  /\ call' = [call EXCEPT ![t] = Idle]

Fail(t) ==
  /\ failed' = failed + 1
  /\ holder' = NoThread
  /\ call' = [call EXCEPT ![t] = Idle]
  /\ UNCHANGED answer

(* Mutation: a sentinel counts only after its command's reply.             *)
SeenInOrder(c, p) ==
  IF p.id = c.id + 1
  THEN [c EXCEPT !.sentinel = c.request]
  ELSE [c EXCEPT !.request = TRUE, !.body = Append(@, p.serial)]

(* The call after one more packet: what _exchange and _drain_late_chunks   *)
(* note of the two ids they await.                                         *)
Seen(c, p) ==
  IF p.id = c.id + 1
  THEN [c EXCEPT !.sentinel = TRUE, !.reordered = @ \/ ~ c.request]
  ELSE [c EXCEPT !.request = TRUE, !.body = Append(@, p.serial)]

(* Mutation: a late answer to an earlier call is taken for this one's.     *)
AwaitedOrEarlier(c, p) == p.id <= c.id + 1

Awaited(c, p) == p.id \in {c.id, c.id + 1}

(* Mutation: no packet is recognised as a late answer.                     *)
NeverStale(c, p) == FALSE

Stale(c, p) == p.id < c.id

MustDrain(c) == c.reordered

(* One packet read by the holder.                                          *)
Read(t) ==
  /\ call[t] # Idle
  /\ stream # << >>
  /\ Head(stream).part = "whole"
  /\ stream' = Tail(stream)
  /\ LET p == Head(stream)
         c == Seen(call[t], p)
         whole == c.request /\ c.sentinel
     IN  \/ /\ Awaited(call[t], p)
            /\ \/ /\ whole /\ ~ MustDrain(c)
                  /\ Return(t, c)
               \/ /\ ~ whole \/ MustDrain(c)
                  /\ call' = [call EXCEPT ![t] = [c EXCEPT !.draining = whole]]
                  /\ UNCHANGED <<holder, answer>>
            /\ UNCHANGED failed
         \/ /\ ~ Awaited(call[t], p) /\ Stale(call[t], p)
            /\ UNCHANGED <<holder, call, answer, failed>>
         \/ /\ ~ Awaited(call[t], p) /\ ~ Stale(call[t], p)
            /\ Fail(t)
  /\ UNCHANGED <<nextId, queue, calls, delays>>

(* What is left of a torn packet is no header: the read raises, or waits   *)
(* for a length that never comes.                                          *)
ReadRest(t) ==
  /\ call[t] # Idle
  /\ stream # << >>
  /\ Head(stream).part = "rest"
  /\ Fail(t)
  /\ UNCHANGED <<nextId, queue, stream, calls, delays>>

(* The socket times out: there is nothing to read, or only a first piece,  *)
(* which _read_exact has taken and gives up.                               *)
Nothing == IF stream = << >> THEN TRUE ELSE Head(stream).part = "first"

WithoutFirstPiece ==
  IF stream = << >> THEN stream ELSE [stream EXCEPT ![1].part = "rest"]

TimeOut(t) ==
  /\ call[t] # Idle
  /\ ~ call[t].draining
  /\ Nothing
  /\ delays < MaxDelays
  /\ delays' = delays + 1
  /\ stream' = WithoutFirstPiece
  /\ Fail(t)
  /\ UNCHANGED <<nextId, queue, calls>>

(* _drain_late_chunks waits a moment for further chunks, then returns what *)
(* there is; this short timeout is part of a normal call.                  *)
DrainEnds(t) ==
  /\ call[t].draining
  /\ Nothing
  /\ stream' = WithoutFirstPiece
  /\ Return(t, call[t])
  /\ UNCHANGED <<nextId, queue, calls, delays, failed>>

Next ==
  \/ \E t \in Threads : \/ Begin(t) \/ BeginQuiet(t)
                        \/ Read(t) \/ ReadRest(t) \/ TimeOut(t) \/ DrainEnds(t)
  \/ Serve \/ Overtake \/ Arrive

Spec == Init /\ [][Next]_vars

(* The server keeps answering, pieces keep arriving, the lock's holder     *)
(* keeps reading, and a wait on the socket ends.                           *)
FairSpec ==
  /\ Spec
  /\ WF_vars(Serve) /\ WF_vars(Arrive)
  /\ \A t \in Threads : WF_vars(Read(t)) /\ WF_vars(ReadRest(t)) /\ WF_vars(DrainEnds(t))

-----------------------------------------------------------------------------
(* Every variable keeps its shape; a thread is in a call exactly if it     *)
(* holds the lock; only the last packet can still be on its way.           *)
Commands == [id : Nat, serial : Nat, sentinel : BOOLEAN]
Packets == [id : Nat, serial : Nat, part : {"whole", "first", "rest"}]
Exchanges == [id : Nat, serial : Nat, request : BOOLEAN, sentinel : BOOLEAN,
              reordered : BOOLEAN, draining : BOOLEAN, body : Seq(Nat)]

TypeOK ==
  /\ nextId \in FirstId .. MaxId
  /\ holder \in Threads \cup {NoThread}
  /\ call \in [Threads -> Exchanges]
  /\ \A t \in Threads : call[t] # Idle <=> holder = t
  /\ answer \in [Threads -> [serial : Nat, body : Seq(Nat)]]
  /\ queue \in Seq(Commands)
  /\ stream \in Seq(Packets)
  /\ \A i \in 1 .. Len(stream) - 1 : stream[i].part # "first"
  /\ calls \in 0 .. MaxCalls /\ delays \in 0 .. MaxDelays /\ failed \in 0 .. MaxCalls

(* No piece of a packet was thrown away: the stream is still in step.      *)
Aligned == \A i \in 1 .. Len(stream) : stream[i].part # "rest"

(* A call returns the answer to its own command and nothing else, and all  *)
(* of it while the stream is in step, whoever else uses the connection,    *)
(* whatever late answers it finds there and in whichever order the server  *)
(* answers (rcon.py command, _exchange).                                   *)
AnswersAreOwn ==
  \A t \in Threads : answer[t].serial # 0 =>
    /\ \A i \in 1 .. Len(answer[t].body) : answer[t].body[i] = answer[t].serial
    /\ Aligned => Len(answer[t].body) = Chunks

(* While the stream is in step every call that fails does so because the   *)
(* server outlasted its timeout, and one such delay costs no other call    *)
(* its answer: the late one is recognised (rcon.py command, _exchange).    *)
DelaysAccounted == Aligned => failed <= delays

(* A call holds the lock only until its answer: the server's answering is  *)
(* enough for it to end, and so for the other threads to get their turn.   *)
CallsEnd == \A t \in Threads : (call[t] # Idle) ~> (call[t] = Idle)
=============================================================================
