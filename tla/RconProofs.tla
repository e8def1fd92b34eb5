----------------------------- MODULE RconProofs -----------------------------
(***************************************************************************)
(* Proofs about Rcon, for every set of threads, every number of chunks and *)
(* of calls, with or without players and torn packets.                     *)
(*                                                                         *)
(* What is promised of the answers holds until the ids come round: then a  *)
(* packet of the first round passes for one of this.  MAX_REQUEST_ID makes *)
(* a round half a billion calls.                                           *)
(***************************************************************************)
EXTENDS Rcon, SequenceTheorems, TLAPS

FirstRound == FirstId + 2 * calls < MaxId

(* The id of the n-th call's command; its sentinel has the next one.       *)
IdOf(n) == FirstId + 2 * (n - 1)

Commanded == \A i \in 1 .. Len(queue) :
  /\ queue[i].serial \in 1 .. calls
  /\ queue[i].id = IdOf(queue[i].serial) + (IF queue[i].sentinel THEN 1 ELSE 0)

Sent == \A i \in 1 .. Len(stream) :
  /\ stream[i].serial \in 1 .. calls
  /\ stream[i].id \in {IdOf(stream[i].serial), IdOf(stream[i].serial) + 1}

(* An exchange under way is the last one begun.                            *)
Begun(c) ==
  /\ c.serial = calls /\ calls >= 1 /\ c.id = IdOf(calls)
  /\ \A i \in 1 .. Len(c.body) : c.body[i] = calls

(* The packets of the last call, and those of the calls before it.         *)
Command  == [id |-> IdOf(calls), serial |-> calls, sentinel |-> FALSE]
Sentinel == [id |-> IdOf(calls) + 1, serial |-> calls, sentinel |-> TRUE]

Chunk(i)   == stream[i].id = IdOf(calls)
Mark(i)    == stream[i].id = IdOf(calls) + 1
Earlier(i) == stream[i].serial < calls

Left(c) == Chunks - Len(c.body)

(* Where the answer to an exchange can be, in a stream that is in step.    *)
Unserved(c) ==
  /\ Len(queue) >= 2 /\ queue[Len(queue) - 1] = Command /\ queue[Len(queue)] = Sentinel
  /\ \A i \in 1 .. Len(queue) - 2 : queue[i].serial < calls
  /\ \A i \in 1 .. Len(stream) : Earlier(i)
  /\ ~ c.sentinel /\ c.body = << >>

(* The command is answered, the sentinel not yet.                          *)
Answering(c) ==
  /\ queue = <<Sentinel>>
  /\ Left(c) <= Len(stream)
  /\ \A i \in 1 .. Len(stream) : IF i > Len(stream) - Left(c) THEN Chunk(i) ELSE Earlier(i)
  /\ ~ c.sentinel

InOrder(c) ==
  /\ queue = << >>
  /\ Left(c) < Len(stream)
  /\ \A i \in 1 .. Len(stream) - 1 : IF i >= Len(stream) - Left(c) THEN Chunk(i) ELSE Earlier(i)
  /\ Mark(Len(stream))
  /\ ~ c.sentinel

(* The sentinel has overtaken the command, which waits.                    *)
MarkFirst(c) ==
  /\ queue = <<Command>> /\ c.body = << >>
  /\ IF c.sentinel
     THEN stream = << >>
     ELSE /\ stream # << >> /\ Mark(Len(stream))
          /\ \A i \in 1 .. Len(stream) - 1 : Earlier(i)

(* Both are answered, the sentinel first.                                  *)
Overtaken(c) ==
  /\ queue = << >>
  /\ IF c.sentinel
     THEN Len(stream) = Left(c) /\ \A i \in 1 .. Len(stream) : Chunk(i)
     ELSE /\ c.body = << >> /\ Chunks < Len(stream)
          /\ \A i \in 1 .. Len(stream) :
               IF i > Len(stream) - Chunks THEN Chunk(i)
               ELSE IF i = Len(stream) - Chunks THEN Mark(i) ELSE Earlier(i)

OnItsWay(c) == Unserved(c) \/ Answering(c) \/ InOrder(c) \/ MarkFirst(c) \/ Overtaken(c)

Expects(c) ==
  /\ Len(c.body) <= Chunks
  /\ c.request <=> c.body # << >>
  /\ c.reordered <=> c.sentinel
  /\ c.draining => c.request /\ c.sentinel
  /\ OnItsWay(c)

(* Each call fails at most once.                                           *)
FailsOnce == failed + (IF holder = NoThread THEN 0 ELSE 1) <= calls

Exchanging ==
  \A t \in Threads : call[t] # Idle => Begun(call[t]) /\ (Aligned => Expects(call[t]))

RoundInv ==
  /\ nextId = FirstId + 2 * calls /\ Commanded /\ Sent
  /\ Exchanging /\ AnswersAreOwn /\ DelaysAccounted

IInv == TypeOK /\ FailsOnce /\ (FirstRound => RoundInv)

USE NoThreadAssumption, IdAssumption, ChunksAssumption, ModeAssumption, BoundsAssumption

-----------------------------------------------------------------------------
LEMMA TailAt ==
  ASSUME NEW S, NEW s \in Seq(S), s # << >>
  PROVE  /\ Len(s) \in Nat \ {0} /\ Head(s) = s[1] /\ s[1] \in S
         /\ Tail(s) \in Seq(S) /\ Len(Tail(s)) = Len(s) - 1
         /\ \A i \in 1 .. Len(s) - 1 : Tail(s)[i] = s[i + 1]
BY HeadTailProperties

(* RemoveAt of the first or the second element.                            *)
LEMMA RemovedFirst ==
  ASSUME NEW S, NEW s \in Seq(S), Len(s) >= 1
  PROVE  /\ RemoveAt(s, 1) \in Seq(S) /\ Len(RemoveAt(s, 1)) = Len(s) - 1
         /\ \A i \in 1 .. Len(s) - 1 : RemoveAt(s, 1)[i] = s[i + 1]
<1>1. Len(s) \in Nat /\ \A i \in 1 .. Len(s) : s[i] \in S
  OBVIOUS
<1>2. SubSeq(s, 1, 0) = << >>
  BY SubSeqEmpty
<1>3. /\ SubSeq(s, 2, Len(s)) \in Seq(S) /\ Len(SubSeq(s, 2, Len(s))) = Len(s) - 1
      /\ \A i \in 1 .. Len(s) - 1 : SubSeq(s, 2, Len(s))[i] = s[i + 1]
  <2>1. \A i \in 2 .. Len(s) : s[i] \in S
    BY <1>1
  <2> DEFINE t == SubSeq(s, 2, Len(s))
  <2>2. /\ t \in Seq(S) /\ Len(t) = IF 2 <= Len(s) THEN Len(s) - 2 + 1 ELSE 0
        /\ \A i \in 1 .. Len(s) - 2 + 1 : t[i] = s[2 + i - 1]
    BY <1>1, <2>1, SubSeqProperties
  <2>3. \A i \in 1 .. Len(s) - 1 : 2 + i - 1 = i + 1 /\ i \in 1 .. Len(s) - 2 + 1
    BY <1>1
  <2> HIDE DEF t
  <2>4. Len(t) = Len(s) - 1
    <3>1. Len(t) = IF 2 <= Len(s) THEN Len(s) - 2 + 1 ELSE 0
      BY <2>2
    <3>2. \A n \in Nat : n >= 1 => (IF 2 <= n THEN n - 2 + 1 ELSE 0) = n - 1
      OBVIOUS
    <3>3. QED  BY <1>1, <3>1, <3>2
  <2>5. \A i \in 1 .. Len(s) - 1 : t[i] = s[i + 1]
    <3> SUFFICES ASSUME NEW i \in 1 .. Len(s) - 1 PROVE t[i] = s[i + 1]
      OBVIOUS
    <3>1. t[i] = s[2 + i - 1] /\ 2 + i - 1 = i + 1
      BY <2>2, <2>3
    <3>2. QED  BY <3>1
  <2>6. QED  BY <2>2, <2>4, <2>5 DEF t
<1>4. RemoveAt(s, 1) = SubSeq(s, 2, Len(s))
  <2>1. RemoveAt(s, 1) = SubSeq(s, 1, 0) \o SubSeq(s, 2, Len(s))
    BY DEF RemoveAt
  <2>2. QED  BY <1>2, <1>3, <2>1, ConcatEmptySeq
<1>5. QED  BY <1>3, <1>4

LEMMA RemovedSecond ==
  ASSUME NEW S, NEW s \in Seq(S), Len(s) >= 2
  PROVE  /\ RemoveAt(s, 2) \in Seq(S) /\ Len(RemoveAt(s, 2)) = Len(s) - 1
         /\ RemoveAt(s, 2)[1] = s[1]
         /\ \A i \in 2 .. Len(s) - 1 : RemoveAt(s, 2)[i] = s[i + 1]
<1> DEFINE a == SubSeq(s, 1, 1)
           b == SubSeq(s, 3, Len(s))
<1>1. Len(s) \in Nat /\ \A i \in 1 .. Len(s) : s[i] \in S
  OBVIOUS
<1>2. a \in Seq(S) /\ Len(a) = 1 /\ a[1] = s[1]
  <2>1. \A i \in 1 .. 1 : s[i] \in S
    BY <1>1
  <2>2. /\ a \in Seq(S) /\ Len(a) = IF 1 <= 1 THEN 1 - 1 + 1 ELSE 0
        /\ \A i \in 1 .. 1 - 1 + 1 : a[i] = s[1 + i - 1]
    BY <2>1, SubSeqProperties
  <2> HIDE DEF a
  <2>3. QED  BY <2>2
<1>3. /\ b \in Seq(S) /\ Len(b) = Len(s) - 2
      /\ \A i \in 1 .. Len(s) - 2 : b[i] = s[i + 2]
  <2>1. \A i \in 3 .. Len(s) : s[i] \in S
    BY <1>1
  <2>2. /\ b \in Seq(S) /\ Len(b) = IF 3 <= Len(s) THEN Len(s) - 3 + 1 ELSE 0
        /\ \A i \in 1 .. Len(s) - 3 + 1 : b[i] = s[3 + i - 1]
    BY <1>1, <2>1, SubSeqProperties
  <2>3. \A i \in 1 .. Len(s) - 2 : 3 + i - 1 = i + 2 /\ i \in 1 .. Len(s) - 3 + 1
    BY <1>1
  <2> HIDE DEF b
  <2>4. Len(b) = Len(s) - 2
    <3>1. Len(b) = IF 3 <= Len(s) THEN Len(s) - 3 + 1 ELSE 0
      BY <2>2
    <3>2. \A n \in Nat : n >= 2 => (IF 3 <= n THEN n - 3 + 1 ELSE 0) = n - 2
      OBVIOUS
    <3>3. QED  BY <1>1, <3>1, <3>2
  <2>5. \A i \in 1 .. Len(s) - 2 : b[i] = s[i + 2]
    <3> SUFFICES ASSUME NEW i \in 1 .. Len(s) - 2 PROVE b[i] = s[i + 2]
      OBVIOUS
    <3>1. b[i] = s[3 + i - 1] /\ 3 + i - 1 = i + 2
      BY <2>2, <2>3
    <3>2. QED  BY <3>1
  <2>6. QED  BY <2>2, <2>4, <2>5 DEF b
<1>4. RemoveAt(s, 2) = a \o b
  BY DEF RemoveAt
<1> HIDE DEF a, b
<1>5. /\ a \o b \in Seq(S) /\ Len(a \o b) = Len(s) - 1
      /\ \A i \in 1 .. Len(s) - 1 : (a \o b)[i] = IF i <= 1 THEN a[i] ELSE b[i - 1]
  <2>1. /\ a \o b \in Seq(S) /\ Len(a \o b) = Len(a) + Len(b)
        /\ \A i \in 1 .. Len(a) + Len(b) : (a \o b)[i] = IF i <= Len(a) THEN a[i] ELSE b[i - Len(a)]
    BY <1>2, <1>3, ConcatProperties
  <2>2. Len(a) + Len(b) = Len(s) - 1
    BY <1>1, <1>2, <1>3
  <2>3. QED  BY <1>2, <2>1, <2>2
<1>6. (a \o b)[1] = s[1]
  BY <1>1, <1>2, <1>5
<1>7. ASSUME NEW i \in 2 .. Len(s) - 1 PROVE (a \o b)[i] = s[i + 1]
  <2>1. i - 1 \in 1 .. Len(s) - 2 /\ i - 1 + 2 = i + 1 /\ ~ (i <= 1) /\ i \in 1 .. Len(s) - 1
    BY <1>1
  <2>2. (a \o b)[i] = b[i - 1] /\ b[i - 1] = s[i - 1 + 2]
    BY <1>3, <1>5, <2>1
  <2>3. QED  BY <2>1, <2>2
<1>8. QED  BY <1>4, <1>5, <1>6, <1>7

(* What the server answers a command or a sentinel with.                   *)
LEMMA ReplyIs ==
  ASSUME NEW c \in Commands, NEW part \in {"whole", "first"}
  PROVE  /\ Reply(c, part) \in Seq(Packets)
         /\ Len(Reply(c, part)) = IF c.sentinel THEN 1 ELSE Chunks
         /\ \A i \in 1 .. Len(Reply(c, part)) :
              /\ Reply(c, part)[i].id = c.id /\ Reply(c, part)[i].serial = c.serial
              /\ Reply(c, part)[i].part # "rest"
              /\ i < Len(Reply(c, part)) => Reply(c, part)[i].part # "first"
<1> DEFINE n == IF c.sentinel THEN 1 ELSE Chunks
           e(i) == Packet(c.id, c.serial, IF i = Chunks \/ c.sentinel THEN part ELSE "whole")
<1>1. n \in Nat
  OBVIOUS
<1>2. \A i : /\ e(i) \in Packets /\ e(i).id = c.id /\ e(i).serial = c.serial /\ e(i).part # "rest"
             /\ i # Chunks /\ ~ c.sentinel => e(i).part = "whole"
  BY DEF Packet, Packets, Commands
<1>3. Reply(c, part) = [i \in 1 .. n |-> e(i)]
  BY DEF Reply
<1> HIDE DEF n, e
<1>4. Reply(c, part) \in Seq(Packets) /\ Len(Reply(c, part)) = n
      /\ \A i \in 1 .. n : Reply(c, part)[i] = e(i)
  BY <1>1, <1>2, <1>3
<1>5. \A i \in 1 .. n : i < n => i # Chunks /\ ~ c.sentinel
  BY DEF n
<1>6. QED  BY <1>2, <1>4, <1>5 DEF n

LEMMA TwoMore ==
  ASSUME NEW S, NEW s \in Seq(S), NEW a \in S, NEW b \in S
  PROVE  /\ s \o <<a, b>> \in Seq(S) /\ Len(s \o <<a, b>>) = Len(s) + 2
         /\ \A i \in 1 .. Len(s) : (s \o <<a, b>>)[i] = s[i]
         /\ (s \o <<a, b>>)[Len(s) + 1] = a /\ (s \o <<a, b>>)[Len(s) + 2] = b
OBVIOUS

(* Only the holder of the lock is in an exchange.                          *)
LEMMA OneExchange ==
  ASSUME TypeOK
  PROVE  /\ holder = NoThread => \A t \in Threads : call[t] = Idle
         /\ \A t \in Threads : call[t] # Idle =>
              holder = t /\ t # NoThread /\ \A s \in Threads \ {t} : call[s] = Idle
BY DEF TypeOK

LEMMA IdleIs ==
  /\ Idle \in Exchanges /\ Idle.serial = 0
  /\ NoAnswer \in [serial : Nat, body : Seq(Nat)] /\ NoAnswer.serial = 0
BY DEF Idle, Exchanges, NoAnswer

-----------------------------------------------------------------------------
(* A call takes a pair of ids, and nothing on the way has one of them.     *)
LEMMA Numbering ==
  ASSUME IInv, calls' = calls + 1, calls < MaxCalls, nextId' = FollowingId
  PROVE  /\ nextId' \in FirstId .. MaxId /\ calls' \in 0 .. MaxCalls /\ nextId \in Nat
         /\ FirstRound' => /\ FirstRound /\ RoundInv
                           /\ nextId' = FirstId + 2 * calls' /\ nextId = IdOf(calls')
<1>1. /\ nextId \in Nat /\ FirstId <= nextId /\ nextId <= MaxId
      /\ calls \in Nat /\ FirstId \in Nat /\ MaxId \in Nat
  BY DEF IInv, TypeOK
<1>2. nextId' \in FirstId .. MaxId /\ calls' \in 0 .. MaxCalls
  BY <1>1 DEF FollowingId
<1>3. ASSUME FirstRound' PROVE /\ FirstRound /\ RoundInv /\ nextId' = FirstId + 2 * calls'
                               /\ nextId = IdOf(calls')
  <2>1. FirstRound
    BY <1>1, <1>3 DEF FirstRound
  <2>2. RoundInv /\ nextId = FirstId + 2 * calls
    BY <2>1 DEF IInv, RoundInv
  <2>3. nextId + 2 = FirstId + 2 * calls' /\ ~ (nextId + 2 >= MaxId)
    BY <1>1, <1>3, <2>2 DEF FirstRound
  <2>4. nextId = IdOf(calls')
    BY <1>1, <2>2 DEF IdOf
  <2>5. QED  BY <2>1, <2>2, <2>3, <2>4 DEF FollowingId
<1>4. QED  BY <1>1, <1>2, <1>3

(* The packets on the way are of earlier calls once another one begins.    *)
LEMMA SentBefore ==
  ASSUME TypeOK, Sent, calls' = calls + 1, stream' = stream
  PROVE  Sent' /\ \A i \in 1 .. Len(stream) : Earlier(i)'
BY DEF TypeOK, Sent, IdOf, Earlier

LEMMA BeginOK ==
  ASSUME IInv, NEW t \in Threads, Begin(t)
  PROVE  IInv'
<1> DEFINE new == [Idle EXCEPT !.id = nextId, !.serial = calls + 1]
           a == [id |-> nextId, serial |-> calls + 1, sentinel |-> FALSE]
           b == [id |-> nextId + 1, serial |-> calls + 1, sentinel |-> TRUE]
<1>1. /\ holder = NoThread /\ calls < MaxCalls /\ calls' = calls + 1 /\ nextId' = FollowingId
      /\ holder' = t /\ call' = [call EXCEPT ![t].id = nextId, ![t].serial = calls + 1]
      /\ queue' = queue \o <<a, b>> /\ answer' = [answer EXCEPT ![t] = NoAnswer]
      /\ UNCHANGED <<stream, delays, failed>>
  BY DEF Begin, LockedBy
<1>2. TypeOK /\ FailsOnce /\ calls \in Nat /\ failed \in Nat
  BY DEF IInv, TypeOK
<1>3. /\ nextId' \in FirstId .. MaxId /\ calls' \in 0 .. MaxCalls /\ nextId \in Nat
      /\ FirstRound' => /\ FirstRound /\ RoundInv
                        /\ nextId' = FirstId + 2 * calls' /\ nextId = IdOf(calls')
  BY <1>1, Numbering
<1>4. /\ a \in Commands /\ a.id = nextId /\ a.serial = calls' /\ ~ a.sentinel
      /\ b \in Commands /\ b.id = nextId + 1 /\ b.serial = calls' /\ b.sentinel
  BY <1>1, <1>2, <1>3 DEF Commands
<1>5. /\ new \in Exchanges /\ new # Idle /\ new.id = nextId /\ new.serial = calls'
      /\ ~ new.request /\ ~ new.sentinel /\ ~ new.reordered /\ ~ new.draining /\ new.body = << >>
  <2>1. << >> \in Seq(Nat) /\ calls' \in Nat /\ calls' # 0 /\ calls' = calls + 1
    BY <1>1, <1>2
  <2>2. /\ new \in Exchanges /\ new.id = nextId /\ new.serial = calls + 1
        /\ new.request = Idle.request /\ new.sentinel = Idle.sentinel /\ new.body = Idle.body
        /\ new.reordered = Idle.reordered /\ new.draining = Idle.draining
    <3>1. nextId \in Nat /\ calls + 1 \in Nat /\ Idle \in Exchanges
      BY <1>2, <1>3, IdleIs
    <3>2. new \in Exchanges
      BY <3>1 DEF Exchanges
    <3>3. QED  BY <3>1, <3>2 DEF Exchanges
  <2> HIDE DEF new
  <2>3. new.serial # Idle.serial
    BY <2>1, <2>2, IdleIs
  <2>4. /\ ~ Idle.request /\ ~ Idle.sentinel /\ ~ Idle.reordered /\ ~ Idle.draining
        /\ Idle.body = << >>
    BY DEF Idle
  <2>5. QED  BY <2>1, <2>2, <2>3, <2>4
<1>6. call' = [call EXCEPT ![t] = new] /\ \A s \in Threads : call[s] = Idle
  BY <1>1, <1>2, OneExchange
<1> HIDE DEF new, a, b
<1>7. /\ call' \in [Threads -> Exchanges] /\ call'[t] = new
      /\ \A s \in Threads \ {t} : call'[s] = Idle
  BY <1>2, <1>5, <1>6 DEF TypeOK
<1>8. /\ queue' \in Seq(Commands) /\ Len(queue') = Len(queue) + 2 /\ Len(queue) \in Nat
      /\ \A i \in 1 .. Len(queue) : queue'[i] = queue[i]
      /\ queue'[Len(queue) + 1] = a /\ queue'[Len(queue) + 2] = b
  <2>1. queue \in Seq(Commands) /\ a \in Commands /\ b \in Commands
    BY <1>2, <1>4 DEF TypeOK
  <2>2. QED  BY <1>1, <2>1, TwoMore
<1>9. /\ answer' \in [Threads -> [serial : Nat, body : Seq(Nat)]]
      /\ answer'[t].serial = 0 /\ \A s \in Threads \ {t} : answer'[s] = answer[s]
  BY <1>1, <1>2, IdleIs DEF TypeOK
<1>10. TypeOK'
  BY <1>1, <1>2, <1>3, <1>5, <1>7, <1>8, <1>9 DEF TypeOK
<1>11. FailsOnce'
  BY <1>1, <1>2 DEF FailsOnce
<1>12. ASSUME FirstRound' PROVE RoundInv'
  <2>1. /\ FirstRound /\ RoundInv /\ nextId' = FirstId + 2 * calls' /\ nextId = IdOf(calls')
    BY <1>3, <1>12
  <2>2. Sent' /\ \A i \in 1 .. Len(stream) : Earlier(i)'
    BY <1>1, <1>2, <2>1, SentBefore DEF RoundInv
  <2>3. \A i \in 1 .. Len(queue) : queue[i].serial \in 1 .. calls
          /\ queue[i].id = IdOf(queue[i].serial) + (IF queue[i].sentinel THEN 1 ELSE 0)
    BY <2>1 DEF RoundInv, Commanded
  <2>4. Commanded'
    <3> SUFFICES ASSUME NEW i \in 1 .. Len(queue) + 2
                 PROVE  /\ queue'[i].serial \in 1 .. calls'
                        /\ queue'[i].id = IdOf(queue'[i].serial) + (IF queue'[i].sentinel THEN 1 ELSE 0)
      BY <1>8 DEF Commanded, IdOf
    <3>1. CASE i \in 1 .. Len(queue)
      BY <1>1, <1>2, <1>8, <2>3, <3>1
    <3>2. CASE i = Len(queue) + 1
      <4>1. queue'[i] = a
        BY <1>8, <3>2
      <4>2. a.id = IdOf(a.serial) + (IF a.sentinel THEN 1 ELSE 0) /\ a.serial \in 1 .. calls'
        <5>1. IdOf(a.serial) = nextId /\ (IF a.sentinel THEN 1 ELSE 0) = 0
          BY <1>4, <2>1
        <5>2. a.serial = calls' /\ a.id = nextId /\ nextId = nextId + 0
          BY <1>3, <1>4
        <5>3. a.serial \in 1 .. calls'
          BY <1>1, <1>2, <5>2
        <5>4. QED  BY <5>1, <5>2, <5>3
      <4>3. QED  BY <4>1, <4>2
    <3>3. CASE i = Len(queue) + 2
      <4>1. queue'[i] = b
        BY <1>8, <3>3
      <4>2. b.id = IdOf(b.serial) + (IF b.sentinel THEN 1 ELSE 0) /\ b.serial \in 1 .. calls'
        <5>1. b.serial = calls' /\ b.sentinel /\ b.id = nextId + 1
          BY <1>4
        <5>2. IdOf(b.serial) = nextId /\ (IF b.sentinel THEN 1 ELSE 0) = 1
          BY <2>1, <5>1
        <5>3. b.serial \in 1 .. calls'
          BY <1>1, <1>2, <5>1
        <5>4. QED  BY <5>1, <5>2, <5>3
      <4>3. QED  BY <4>1, <4>2
    <3>4. QED  BY <1>8, <3>1, <3>2, <3>3
  <2>5. Begun(call[t])'
    <3>1. \A i \in 1 .. Len(call'[t].body) : FALSE
      BY <1>5, <1>7
    <3>2. call'[t].serial = calls' /\ calls' >= 1 /\ call'[t].id = IdOf(calls')
      BY <1>1, <1>2, <1>5, <1>7, <2>1
    <3>3. QED  BY <3>1, <3>2 DEF Begun, IdOf
  <2>6. Unserved(call[t])'
    <3>1. a = Command' /\ b = Sentinel'
      BY <1>1, <2>1 DEF a, b, Command, Sentinel, IdOf
    <3>2. Len(queue') >= 2 /\ queue'[Len(queue') - 1] = a /\ queue'[Len(queue')] = b
      BY <1>8
    <3>3. \A i \in 1 .. Len(queue') - 2 : queue'[i].serial < calls'
      BY <1>1, <1>2, <1>8, <2>3
    <3>4. QED  BY <1>1, <1>5, <1>7, <2>2, <3>1, <3>2, <3>3 DEF Unserved
  <2>7. Exchanging'
    <3>1. Expects(call[t])'
      BY <1>5, <1>7, <2>6 DEF Expects, OnItsWay
    <3>2. QED  BY <1>7, <2>5, <3>1 DEF Exchanging
  <2>8. AnswersAreOwn' /\ DelaysAccounted'
    BY <1>1, <1>9, <2>1 DEF RoundInv, AnswersAreOwn, DelaysAccounted, Aligned
  <2>9. QED  BY <2>1, <2>2, <2>4, <2>7, <2>8 DEF RoundInv
<1>13. QED  BY <1>10, <1>11, <1>12 DEF IInv

(* A command nobody waits for takes a pair of ids as well.                 *)
LEMMA BeginQuietOK ==
  ASSUME IInv, NEW t \in Threads, BeginQuiet(t)
  PROVE  IInv'
<1> DEFINE a == [id |-> nextId, serial |-> calls + 1, sentinel |-> FALSE]
<1>1. /\ holder = NoThread /\ calls < MaxCalls /\ calls' = calls + 1 /\ nextId' = FollowingId
      /\ queue' = Append(queue, a) /\ answer' = [answer EXCEPT ![t] = NoAnswer]
      /\ UNCHANGED <<holder, call, stream, delays, failed>>
  BY DEF BeginQuiet, LockedBy
<1>2. TypeOK /\ FailsOnce /\ calls \in Nat /\ failed \in Nat
  BY DEF IInv, TypeOK
<1>3. /\ nextId' \in FirstId .. MaxId /\ calls' \in 0 .. MaxCalls /\ nextId \in Nat
      /\ FirstRound' => /\ FirstRound /\ RoundInv
                        /\ nextId' = FirstId + 2 * calls' /\ nextId = IdOf(calls')
  BY <1>1, Numbering
<1>4. a \in Commands /\ a.id = nextId /\ a.serial = calls' /\ ~ a.sentinel
  BY <1>1, <1>2, <1>3 DEF Commands
<1> HIDE DEF a
<1>5. \A s \in Threads : call'[s] = Idle
  BY <1>1, <1>2, OneExchange
<1>6. /\ queue' \in Seq(Commands) /\ Len(queue') = Len(queue) + 1 /\ Len(queue) \in Nat
      /\ \A i \in 1 .. Len(queue) : queue'[i] = queue[i]
      /\ queue'[Len(queue) + 1] = a
  BY <1>1, <1>2, <1>4, AppendProperties DEF TypeOK
<1>7. /\ answer' \in [Threads -> [serial : Nat, body : Seq(Nat)]]
      /\ answer'[t].serial = 0 /\ \A s \in Threads \ {t} : answer'[s] = answer[s]
  BY <1>1, <1>2, IdleIs DEF TypeOK
<1>8. TypeOK'
  BY <1>1, <1>2, <1>3, <1>6, <1>7 DEF TypeOK
<1>9. FailsOnce'
  BY <1>1, <1>2 DEF FailsOnce
<1>10. ASSUME FirstRound' PROVE RoundInv'
  <2>1. /\ FirstRound /\ RoundInv /\ nextId' = FirstId + 2 * calls' /\ nextId = IdOf(calls')
    BY <1>3, <1>10
  <2>2. Sent'
    BY <1>1, <1>2, <2>1, SentBefore DEF RoundInv
  <2>3. Commanded'
    <3> SUFFICES ASSUME NEW i \in 1 .. Len(queue) + 1
                 PROVE  /\ queue'[i].serial \in 1 .. calls'
                        /\ queue'[i].id = IdOf(queue'[i].serial) + (IF queue'[i].sentinel THEN 1 ELSE 0)
      BY <1>6 DEF Commanded, IdOf
    <3>1. CASE i \in 1 .. Len(queue)
      <4>1. /\ queue[i].serial \in 1 .. calls
            /\ queue[i].id = IdOf(queue[i].serial) + (IF queue[i].sentinel THEN 1 ELSE 0)
        BY <2>1, <3>1 DEF RoundInv, Commanded
      <4>2. QED  BY <1>1, <1>2, <1>6, <3>1, <4>1
    <3>2. CASE i = Len(queue) + 1
      <4>1. queue'[i] = a
        BY <1>6, <3>2
      <4>2. a.id = IdOf(a.serial) + (IF a.sentinel THEN 1 ELSE 0) /\ a.serial \in 1 .. calls'
        <5>1. IdOf(a.serial) = nextId /\ (IF a.sentinel THEN 1 ELSE 0) = 0
          BY <1>4, <2>1
        <5>2. a.serial = calls' /\ a.id = nextId /\ nextId = nextId + 0
          BY <1>3, <1>4
        <5>3. a.serial \in 1 .. calls'
          BY <1>1, <1>2, <5>2
        <5>4. QED  BY <5>1, <5>2, <5>3
      <4>3. QED  BY <4>1, <4>2
    <3>3. QED  BY <1>6, <3>1, <3>2
  <2>4. Exchanging'
    BY <1>5 DEF Exchanging
  <2>5. AnswersAreOwn' /\ DelaysAccounted'
    BY <1>1, <1>7, <2>1 DEF RoundInv, AnswersAreOwn, DelaysAccounted, Aligned
  <2>6. QED  BY <2>1, <2>2, <2>3, <2>4, <2>5 DEF RoundInv
<1>11. QED  BY <1>8, <1>9, <1>10 DEF IInv

-----------------------------------------------------------------------------
(* The server puts n packets behind the stream, which answer c.            *)
Added(c, n) ==
  /\ n = IF c.sentinel THEN 1 ELSE Chunks
  /\ stream' \in Seq(Packets) /\ Len(stream') = Len(stream) + n
  /\ \A j \in 1 .. Len(stream) : stream'[j] = stream[j]
  /\ \A j \in Len(stream) + 1 .. Len(stream) + n :
       stream'[j].id = c.id /\ stream'[j].serial = c.serial /\ stream'[j].part # "rest"
  /\ \A j \in 1 .. Len(stream) + n - 1 : stream'[j].part # "first"
  /\ UNCHANGED <<nextId, holder, call, answer, calls, delays, failed>>

LEMMA AnsweredAdds ==
  ASSUME TypeOK, NEW i \in 1 .. Len(queue), Answered(i)
  PROVE  /\ queue[i] \in Commands /\ queue' = RemoveAt(queue, i)
         /\ \E n \in Nat \ {0} : Added(queue[i], n)
<1> DEFINE c == queue[i]
<1>1. c \in Commands /\ stream \in Seq(Packets) /\ Len(stream) \in Nat
  BY DEF TypeOK
<1>2. PICK part \in {"whole", "first"} : stream' = stream \o Reply(c, part)
  BY DEF Answered
<1>3. /\ queue' = RemoveAt(queue, i) /\ Arrived
      /\ UNCHANGED <<nextId, holder, call, answer, calls, delays, failed>>
  BY DEF Answered
<1> HIDE DEF c
<1> DEFINE r == Reply(c, part)
           n == Len(r)
<1>4. /\ r \in Seq(Packets) /\ n = IF c.sentinel THEN 1 ELSE Chunks
      /\ \A j \in 1 .. n : /\ r[j].id = c.id /\ r[j].serial = c.serial /\ r[j].part # "rest"
                           /\ j < n => r[j].part # "first"
  BY <1>1, ReplyIs
<1>5. n \in Nat \ {0}
  BY <1>4
<1> HIDE DEF r
<1>6. /\ stream' \in Seq(Packets) /\ Len(stream') = Len(stream) + n
      /\ \A j \in 1 .. Len(stream) + n :
           stream'[j] = IF j <= Len(stream) THEN stream[j] ELSE r[j - Len(stream)]
  <2>1. stream' = stream \o r
    BY <1>2 DEF r
  <2>2. QED  BY <1>1, <1>4, <2>1, ConcatProperties
<1> HIDE DEF n
<1>7. \A j \in 1 .. Len(stream) : stream'[j] = stream[j] /\ stream[j].part # "first"
  BY <1>1, <1>3, <1>5, <1>6 DEF Arrived
<1>8. ASSUME NEW j \in Len(stream) + 1 .. Len(stream) + n
      PROVE  /\ stream'[j].id = c.id /\ stream'[j].serial = c.serial /\ stream'[j].part # "rest"
             /\ j < Len(stream) + n => stream'[j].part # "first"
  <2>1. j - Len(stream) \in 1 .. n /\ j \in 1 .. Len(stream) + n /\ ~ (j <= Len(stream))
    BY <1>1, <1>5
  <2>2. j < Len(stream) + n => j - Len(stream) < n
    BY <1>1, <1>5
  <2>3. stream'[j] = r[j - Len(stream)]
    BY <1>6, <2>1
  <2>4. QED  BY <1>4, <2>1, <2>2, <2>3 DEF n
<1>9. \A j \in 1 .. Len(stream) + n - 1 : stream'[j].part # "first"
  <2> SUFFICES ASSUME NEW j \in 1 .. Len(stream) + n - 1 PROVE stream'[j].part # "first"
    OBVIOUS
  <2>1. j \in 1 .. Len(stream) \/ (j \in Len(stream) + 1 .. Len(stream) + n /\ j < Len(stream) + n)
    BY <1>1, <1>5
  <2>2. QED  BY <1>7, <1>8, <2>1
<1>10. n = IF c.sentinel THEN 1 ELSE Chunks
  BY <1>4 DEF n
<1>11. Added(c, n)
  BY <1>3, <1>6, <1>7, <1>8, <1>9, <1>10 DEF Added
<1>12. QED  BY <1>1, <1>3, <1>5, <1>11 DEF c

(* What every answer of the server keeps, if the exchange still finds its  *)
(* own where it looks for it.                                              *)
LEMMA AddedOK ==
  ASSUME IInv, NEW c \in Commands, NEW n \in Nat \ {0}, Added(c, n),
         \E i \in 1 .. Len(queue) : queue[i] = c,
         queue' \in Seq(Commands),
         \A i \in 1 .. Len(queue') : \E j \in 1 .. Len(queue) : queue'[i] = queue[j],
         \A t \in Threads : call[t] # Idle /\ FirstRound /\ RoundInv /\ Expects(call[t])
                              => OnItsWay(call[t])'
  PROVE  IInv'
<1>1. TypeOK /\ FailsOnce /\ UNCHANGED <<nextId, holder, call, answer, calls, delays, failed>>
      /\ Len(stream) \in Nat /\ stream \in Seq(Packets)
  BY DEF IInv, Added, TypeOK
<1>2. TypeOK'
  BY <1>1 DEF TypeOK, Added
<1>3. FailsOnce'
  BY <1>1 DEF FailsOnce
<1>4. Aligned' <=> Aligned
  <2>1. \A j \in 1 .. Len(stream') : j \in 1 .. Len(stream) \/ j \in Len(stream) + 1 .. Len(stream) + n
    BY <1>1 DEF Added
  <2>2. \A j \in 1 .. Len(stream) : j \in 1 .. Len(stream')
    BY <1>1 DEF Added
  <2>3. QED  BY <2>1, <2>2 DEF Added, Aligned
<1>5. ASSUME FirstRound' PROVE RoundInv'
  <2>1. FirstRound /\ RoundInv
    BY <1>1, <1>5 DEF FirstRound, IInv
  <2>2. Commanded'
    BY <1>1, <2>1 DEF RoundInv, Commanded, IdOf
  <2>3. Sent'
    <3> SUFFICES ASSUME NEW j \in 1 .. Len(stream')
                 PROVE  /\ stream'[j].serial \in 1 .. calls
                        /\ stream'[j].id \in {IdOf(stream'[j].serial), IdOf(stream'[j].serial) + 1}
      BY <1>1 DEF Sent, IdOf
    <3>1. CASE j \in 1 .. Len(stream)
      BY <2>1, <3>1 DEF Added, RoundInv, Sent
    <3>2. CASE j \in Len(stream) + 1 .. Len(stream) + n
      <4>1. stream'[j].id = c.id /\ stream'[j].serial = c.serial
        BY <3>2 DEF Added
      <4>2. /\ c.serial \in 1 .. calls /\ c.id = IdOf(c.serial) + (IF c.sentinel THEN 1 ELSE 0)
        BY <2>1 DEF RoundInv, Commanded
      <4>3. c.id \in {IdOf(c.serial), IdOf(c.serial) + 1}
        BY <1>1, <4>2 DEF IdOf, TypeOK
      <4>4. QED  BY <4>1, <4>2, <4>3
    <3>3. QED  BY <1>1, <3>1, <3>2 DEF Added
  <2>4. Exchanging'
    <3> SUFFICES ASSUME NEW t \in Threads, call[t] # Idle
                 PROVE  Begun(call[t])' /\ (Aligned' => Expects(call[t])')
      BY <1>1 DEF Exchanging
    <3>1. Begun(call[t])'
      BY <1>1, <2>1 DEF RoundInv, Exchanging, Begun, IdOf
    <3>2. ASSUME Aligned' PROVE Expects(call[t])'
      <4>1. Expects(call[t])
        BY <1>4, <2>1, <3>2 DEF RoundInv, Exchanging
      <4>2. QED  BY <1>1, <2>1, <4>1 DEF Expects
    <3>3. QED  BY <3>1, <3>2
  <2>5. AnswersAreOwn' /\ DelaysAccounted'
    BY <1>1, <1>4, <2>1 DEF RoundInv, AnswersAreOwn, DelaysAccounted
  <2>6. nextId' = FirstId + 2 * calls'
    BY <1>1, <2>1 DEF RoundInv
  <2>7. QED  BY <2>2, <2>3, <2>4, <2>5, <2>6 DEF RoundInv
<1>6. QED  BY <1>2, <1>3, <1>5 DEF IInv

(* A sequence of one, told by its length and its element.                  *)
LEMMA Single ==
  ASSUME NEW S, NEW s \in Seq(S), NEW e \in S, Len(s) = 1, s[1] = e
  PROVE  s = <<e>>
BY SeqEqual

LEMMA OwnPackets ==
  ASSUME TypeOK, calls >= 1
  PROVE  /\ Command \in Commands /\ Sentinel \in Commands
         /\ Command.id = IdOf(calls) /\ Command.serial = calls /\ ~ Command.sentinel
         /\ Sentinel.id = IdOf(calls) + 1 /\ Sentinel.serial = calls /\ Sentinel.sentinel
         /\ IdOf(calls) \in Nat /\ calls \in Nat
BY DEF TypeOK, Command, Sentinel, Commands, IdOf

LEMMA LastTwo ==
  ASSUME NEW q \in Nat, q > 2
  PROVE  q - 2 \in 1 .. q - 1 /\ q - 1 \in 1 .. q - 1 /\ q - 2 + 1 = q - 1 /\ q - 1 + 1 = q
         /\ q - 1 - 1 = q - 2
OBVIOUS

(* The server answers the front of its queue.                              *)
LEMMA ServedOnItsWay ==
  ASSUME TypeOK, NEW t \in Threads, Begun(call[t]), Commanded,
         Len(call[t].body) <= Chunks, OnItsWay(call[t]),
         queue # << >>, NEW n \in Nat \ {0}, Added(queue[1], n), queue' = RemoveAt(queue, 1)
  PROVE  OnItsWay(call[t])'
<1> DEFINE c == call[t]
           L == Len(stream)
           Q == Len(queue)
<1>1. /\ L \in Nat /\ Q \in Nat /\ Q >= 1 /\ queue \in Seq(Commands) /\ stream \in Seq(Packets)
      /\ calls >= 1 /\ Len(c.body) \in Nat /\ call'[t] = c /\ calls' = calls
  <2>1. queue \in Seq(Commands) /\ stream \in Seq(Packets) /\ c \in Exchanges
    BY DEF TypeOK
  <2>2. L \in Nat /\ Q \in Nat /\ Q >= 1 /\ c.body \in Seq(Nat)
    BY <2>1 DEF Exchanges
  <2>3. calls >= 1 /\ call'[t] = c /\ calls' = calls
    BY DEF Begun, Added
  <2>4. QED  BY <2>1, <2>2, <2>3
<1>2. /\ queue' \in Seq(Commands) /\ Len(queue') = Q - 1
      /\ \A i \in 1 .. Q - 1 : queue'[i] = queue[i + 1]
  BY <1>1, RemovedFirst
<1>3. /\ n = IF queue[1].sentinel THEN 1 ELSE Chunks
      /\ Len(stream') = L + n
      /\ \A j \in 1 .. L : stream'[j] = stream[j]
      /\ \A j \in L + 1 .. L + n :
           stream'[j].id = queue[1].id /\ stream'[j].serial = queue[1].serial
  BY DEF Added
<1>4. /\ Command' = Command /\ Sentinel' = Sentinel /\ Left(c)' = Left(c') /\ c' = c
      /\ Command \in Commands /\ Sentinel \in Commands
      /\ Command.id = IdOf(calls) /\ Command.serial = calls /\ ~ Command.sentinel
      /\ Sentinel.id = IdOf(calls) + 1 /\ Sentinel.serial = calls /\ Sentinel.sentinel
      /\ Left(c) \in Nat /\ Left(c) = Chunks - Len(c.body) /\ IdOf(calls) \in Nat /\ calls \in Nat
  BY <1>1, OwnPackets DEF Command, Sentinel, IdOf, Left
<1>5. \A j : /\ Chunk(j)' <=> stream'[j].id = IdOf(calls)
             /\ Mark(j)' <=> stream'[j].id = IdOf(calls) + 1
             /\ Earlier(j)' <=> stream'[j].serial < calls
  BY <1>1 DEF Chunk, Mark, Earlier, IdOf
<1> HIDE DEF c, L, Q
<1>6. CASE Unserved(c)
  <2>1. /\ Q >= 2 /\ queue[Q - 1] = Command /\ queue[Q] = Sentinel
        /\ \A i \in 1 .. Q - 2 : queue[i].serial < calls
        /\ \A j \in 1 .. L : Earlier(j)
        /\ ~ c.sentinel /\ c.body = << >>
    BY <1>6 DEF Unserved, L, Q
  <2>2. CASE Q > 2
    <3>1. queue[1].serial < calls
      BY <1>1, <2>1, <2>2
    <3>2. \A j \in 1 .. L + n : Earlier(j)'
      BY <1>1, <1>3, <1>5, <2>1, <3>1 DEF Earlier
    <3>3. Len(queue') >= 2 /\ queue'[Len(queue') - 1] = Command /\ queue'[Len(queue')] = Sentinel
      <4>0. Q \in Nat /\ Q > 2
        BY <1>1, <2>2
      <4>1. Q - 2 \in 1 .. Q - 1 /\ Q - 1 \in 1 .. Q - 1 /\ Q - 2 + 1 = Q - 1 /\ Q - 1 + 1 = Q
            /\ Q - 1 - 1 = Q - 2
        BY <4>0, LastTwo
      <4>2. queue'[Q - 2] = Command /\ queue'[Q - 1] = Sentinel
        BY <1>2, <2>1, <4>1
      <4>3. Len(queue') = Q - 1
        BY <1>2
      <4>4. Len(queue') - 1 = Q - 2
        BY <4>1, <4>3
      <4>5. Len(queue') >= 2
        BY <1>1, <2>2, <4>3
      <4>6. QED  BY <4>2, <4>3, <4>4, <4>5, Zenon
    <3>4. \A i \in 1 .. Len(queue') - 2 : queue'[i].serial < calls
      <4>1. \A i \in 1 .. Q - 3 : i \in 1 .. Q - 1 /\ i + 1 \in 1 .. Q - 2
        BY <1>1, <2>2
      <4>2. Len(queue') - 2 = Q - 3
        BY <1>1, <1>2
      <4>3. QED  BY <1>2, <2>1, <4>1, <4>2
    <3>5. Unserved(c)'
      BY <1>1, <1>3, <1>4, <2>1, <3>2, <3>3, <3>4 DEF Unserved
    <3>6. QED  BY <3>5 DEF OnItsWay, c
  <2>3. CASE Q = 2
    <3>1. queue[1] = Command /\ n = Chunks
      BY <1>3, <1>4, <2>1, <2>3
    <3>2. queue' = <<Sentinel>>
      <4>1. Len(queue') = 1 /\ queue'[1] = Sentinel
        BY <1>2, <2>1, <2>3
      <4>2. QED  BY <1>2, <1>4, <4>1, Single
    <3>3. Left(c) = Chunks
      BY <1>4, <2>1
    <3>4. \A j \in 1 .. L + n : IF j > L + n - Chunks THEN Chunk(j)' ELSE Earlier(j)'
      <4> SUFFICES ASSUME NEW j \in 1 .. L + n
                   PROVE  IF j > L + n - Chunks THEN Chunk(j)' ELSE Earlier(j)'
        OBVIOUS
      <4>1. L + n - Chunks = L
        BY <1>1, <3>1
      <4>2. CASE j > L
        BY <1>1, <1>3, <1>4, <1>5, <3>1, <4>1, <4>2
      <4>3. CASE ~ (j > L)
        <5>1. j \in 1 .. L
          BY <1>1, <4>3
        <5>2. Earlier(j)'
          BY <1>3, <1>5, <2>1, <5>1 DEF Earlier
        <5>3. QED  BY <4>1, <4>3, <5>2
      <4>4. QED  BY <4>2, <4>3
    <3>5. Answering(c)'
      BY <1>1, <1>3, <1>4, <2>1, <3>1, <3>2, <3>3, <3>4 DEF Answering
    <3>6. QED  BY <3>5 DEF OnItsWay, c
  <2>4. QED  BY <1>1, <2>1, <2>2, <2>3
<1>7. CASE Answering(c)
  <2>1. /\ queue = <<Sentinel>> /\ Left(c) <= L /\ ~ c.sentinel
        /\ \A j \in 1 .. L : IF j > L - Left(c) THEN Chunk(j) ELSE Earlier(j)
    BY <1>7 DEF Answering, L
  <2>2. queue[1] = Sentinel /\ n = 1 /\ queue' = << >>
    <3>1. Len(queue') = 0
      BY <1>2, <2>1 DEF Q
    <3>2. QED  BY <1>2, <1>3, <1>4, <2>1, <3>1
  <2>3. stream'[L + 1].id = IdOf(calls) + 1
    <3>1. L + 1 \in L + 1 .. L + n
      BY <1>1, <2>2
    <3>2. QED  BY <1>3, <1>4, <2>2, <3>1
  <2>4. \A j \in 1 .. L : IF j >= L + 1 - Left(c) THEN Chunk(j)' ELSE Earlier(j)'
    <3> SUFFICES ASSUME NEW j \in 1 .. L
                 PROVE  IF j >= L + 1 - Left(c) THEN Chunk(j)' ELSE Earlier(j)'
      OBVIOUS
    <3>1. j >= L + 1 - Left(c) <=> j > L - Left(c)
      <4>1. \A l, k, m \in Nat : m >= l + 1 - k <=> m > l - k
        OBVIOUS
      <4>2. j \in Nat /\ L \in Nat /\ Left(c) \in Nat
        BY <1>1, <1>4
      <4>3. QED  BY <4>1, <4>2
    <3>2. stream'[j] = stream[j]
      BY <1>3
    <3>3. QED  BY <1>5, <2>1, <3>1, <3>2 DEF Chunk, Earlier
  <2>5. InOrder(c)'
    <3>1. Len(stream') = L + 1 /\ Len(stream') - 1 = L /\ Left(c) < L + 1
      BY <1>1, <1>3, <1>4, <2>1, <2>2
    <3>2. Left(c)' < Len(stream') /\ ~ c'.sentinel
      BY <1>4, <2>1, <3>1
    <3> DEFINE k == Len(stream)
    <3>3. Mark(k)'
      BY <1>5, <2>3, <3>1 DEF k, Mark
    <3>4. \A i \in 1 .. Len(stream') - 1 :
            IF i >= Len(stream') - Left(c)' THEN Chunk(i)' ELSE Earlier(i)'
      BY <1>4, <2>4, <3>1
    <3>5. QED  BY <2>2, <3>2, <3>3, <3>4 DEF InOrder
  <2>6. QED  BY <2>5 DEF OnItsWay, c
<1>8. CASE MarkFirst(c)
  <2>1. queue = <<Command>> /\ c.body = << >> /\ Left(c) = Chunks
    BY <1>4, <1>8 DEF MarkFirst
  <2>2. queue[1] = Command /\ n = Chunks /\ queue' = << >>
    <3>1. Len(queue') = 0
      BY <1>2, <2>1 DEF Q
    <3>2. QED  BY <1>2, <1>3, <1>4, <2>1, <3>1
  <2>3. \A j \in L + 1 .. L + n : Chunk(j)'
    BY <1>3, <1>4, <1>5, <2>2
  <2>4. CASE c.sentinel
    <3>1. stream = << >>
      BY <1>8, <2>4 DEF MarkFirst
    <3>2. L = 0
      BY <3>1 DEF L
    <3>3. Overtaken(c)'
      BY <1>1, <1>3, <1>4, <2>1, <2>2, <2>3, <2>4, <3>2 DEF Overtaken
    <3>4. QED  BY <3>3 DEF OnItsWay, c
  <2>5. CASE ~ c.sentinel
    <3>1. L >= 1 /\ Mark(L) /\ \A j \in 1 .. L - 1 : Earlier(j)
      BY <1>1, <1>8, <2>5 DEF MarkFirst, L
    <3>2. \A j \in 1 .. L + n : IF j > L THEN Chunk(j)' ELSE IF j = L THEN Mark(j)' ELSE Earlier(j)'
      BY <1>1, <1>3, <1>5, <2>3, <3>1 DEF Mark, Earlier
    <3>3. Overtaken(c)'
      BY <1>1, <1>3, <1>4, <2>1, <2>2, <2>5, <3>1, <3>2 DEF Overtaken
    <3>4. QED  BY <3>3 DEF OnItsWay, c
  <2>6. QED  BY <2>4, <2>5
<1>9. CASE InOrder(c) \/ Overtaken(c)
  BY <1>9 DEF InOrder, Overtaken
<1>10. QED  BY <1>6, <1>7, <1>8, <1>9 DEF OnItsWay, c

LEMMA ServeOK ==
  ASSUME IInv, Serve
  PROVE  IInv'
<1>1. TypeOK /\ queue # << >> /\ Answered(1) /\ queue \in Seq(Commands) /\ 1 \in 1 .. Len(queue)
  BY DEF IInv, Serve, TypeOK
<1>2. queue[1] \in Commands /\ queue' = RemoveAt(queue, 1)
  BY <1>1, AnsweredAdds
<1>3. PICK n \in Nat \ {0} : Added(queue[1], n)
  BY <1>1, AnsweredAdds
<1>4. /\ queue' \in Seq(Commands) /\ Len(queue') = Len(queue) - 1 /\ Len(queue) \in Nat
      /\ \A i \in 1 .. Len(queue) - 1 : queue'[i] = queue[i + 1]
  BY <1>1, <1>2, RemovedFirst
<1>5. \A i \in 1 .. Len(queue') : \E j \in 1 .. Len(queue) : queue'[i] = queue[j]
  BY <1>4
<1>6. ASSUME NEW t \in Threads, call[t] # Idle, FirstRound, RoundInv, Expects(call[t])
      PROVE  OnItsWay(call[t])'
  <2>1. Begun(call[t]) /\ Commanded /\ Len(call[t].body) <= Chunks /\ OnItsWay(call[t])
    BY <1>6 DEF RoundInv, Exchanging, Expects
  <2>2. QED  BY <1>1, <1>2, <1>3, <2>1, ServedOnItsWay
<1>7. \E i \in 1 .. Len(queue) : queue[i] = queue[1]
  BY <1>1
<1>8. QED  BY <1>2, <1>3, <1>4, <1>5, <1>6, <1>7, AddedOK

(* With a player connected, a sentinel overtakes its own command only.     *)
LEMMA OvertakenOnItsWay ==
  ASSUME TypeOK, NEW t \in Threads, Begun(call[t]), OnItsWay(call[t]),
         Len(queue) > 1, ~ queue[1].sentinel, queue[2].sentinel,
         NEW n \in Nat \ {0}, Added(queue[2], n), queue' = RemoveAt(queue, 2)
  PROVE  OnItsWay(call[t])'
<1> DEFINE c == call[t]
           L == Len(stream)
           Q == Len(queue)
<1>1. /\ L \in Nat /\ Q \in Nat /\ Q >= 2 /\ queue \in Seq(Commands) /\ stream \in Seq(Packets)
      /\ calls >= 1 /\ call'[t] = c /\ calls' = calls
  BY DEF TypeOK, Begun, Added
<1>2. /\ queue' \in Seq(Commands) /\ Len(queue') = Q - 1 /\ queue'[1] = queue[1]
      /\ \A i \in 2 .. Q - 1 : queue'[i] = queue[i + 1]
  BY <1>1, RemovedSecond
<1>3. /\ n = 1 /\ Len(stream') = L + 1
      /\ \A j \in 1 .. L : stream'[j] = stream[j]
      /\ stream'[L + 1].id = queue[2].id /\ stream'[L + 1].serial = queue[2].serial
  BY <1>1 DEF Added
<1>4. /\ Command' = Command /\ Sentinel' = Sentinel /\ c' = c
      /\ Command \in Commands /\ Sentinel \in Commands
      /\ ~ Command.sentinel /\ Sentinel.sentinel
      /\ Sentinel.id = IdOf(calls) + 1 /\ IdOf(calls) \in Nat /\ calls \in Nat
  BY <1>1, OwnPackets DEF Command, Sentinel, IdOf
<1>5. \A j : Earlier(j)' <=> stream'[j].serial < calls
  BY <1>1 DEF Earlier
<1> HIDE DEF c, L, Q
<1>6. Unserved(c)
  <2>1. ~ Answering(c) /\ ~ InOrder(c) /\ ~ MarkFirst(c) /\ ~ Overtaken(c)
    BY <1>1 DEF Answering, InOrder, MarkFirst, Overtaken, Q
  <2>2. QED  BY <2>1 DEF OnItsWay, c
<1>7. /\ queue[Q - 1] = Command /\ queue[Q] = Sentinel
      /\ \A i \in 1 .. Q - 2 : queue[i].serial < calls
      /\ \A j \in 1 .. L : Earlier(j)
      /\ ~ c.sentinel /\ c.body = << >>
  BY <1>6 DEF Unserved, L, Q
<1>8. CASE Q = 2
  <2>1. queue[1] = Command /\ queue[2] = Sentinel
    BY <1>7, <1>8
  <2>2. queue' = <<Command>>
    <3>1. Len(queue') = 1 /\ queue'[1] = Command
      BY <1>2, <1>8, <2>1
    <3>2. QED  BY <1>2, <1>4, <3>1, Single
  <2>3. stream' # << >> /\ stream'[Len(stream')].id = IdOf(calls) + 1
    BY <1>1, <1>3, <1>4, <2>1
  <2>4. \A j \in 1 .. Len(stream') - 1 : Earlier(j)'
    BY <1>1, <1>3, <1>5, <1>7 DEF Earlier
  <2> DEFINE k == Len(stream)
  <2>5. Mark(k)'
    BY <1>1, <2>3 DEF Mark, IdOf
  <2>6. MarkFirst(c)'
    BY <1>4, <1>7, <2>2, <2>3, <2>4, <2>5 DEF MarkFirst
  <2>7. QED  BY <2>6 DEF OnItsWay, c
<1>9. CASE Q > 2
  <2>1. Q > 3
    BY <1>1, <1>4, <1>7, <1>9
  <2>2. queue[2].serial < calls
    BY <1>1, <1>7, <2>1
  <2>3. \A j \in 1 .. Len(stream') : Earlier(j)'
    BY <1>1, <1>3, <1>5, <1>7, <2>2 DEF Earlier
  <2>4. Len(queue') >= 2 /\ queue'[Len(queue') - 1] = Command /\ queue'[Len(queue')] = Sentinel
    <3>1. Q - 2 \in 2 .. Q - 1 /\ Q - 1 \in 2 .. Q - 1 /\ Q - 2 + 1 = Q - 1 /\ Q - 1 + 1 = Q
          /\ Q - 1 - 1 = Q - 2
      BY <1>1, <2>1
    <3>2. queue'[Q - 2] = Command /\ queue'[Q - 1] = Sentinel
      BY <1>2, <1>7, <3>1
    <3>3. QED  BY <1>1, <1>2, <2>1, <3>1, <3>2
  <2>5. \A i \in 1 .. Len(queue') - 2 : queue'[i].serial < calls
    <3> SUFFICES ASSUME NEW i \in 1 .. Len(queue') - 2 PROVE queue'[i].serial < calls
      OBVIOUS
    <3>1. Len(queue') - 2 = Q - 3
      BY <1>1, <1>2
    <3>2. i = 1 \/ (i \in 2 .. Q - 1 /\ i + 1 \in 1 .. Q - 2)
      BY <1>1, <2>1, <3>1
    <3>3. 1 \in 1 .. Q - 2
      BY <1>1, <2>1
    <3>4. QED  BY <1>2, <1>7, <3>2, <3>3
  <2>6. Unserved(c)'
    BY <1>1, <1>4, <1>7, <2>3, <2>4, <2>5 DEF Unserved
  <2>7. QED  BY <2>6 DEF OnItsWay, c
<1>10. QED  BY <1>1, <1>8, <1>9

LEMMA OvertakeOK ==
  ASSUME IInv, Overtake
  PROVE  IInv'
<1>1. /\ TypeOK /\ Len(queue) > 1 /\ ~ queue[1].sentinel /\ queue[2].sentinel /\ Answered(2)
      /\ queue \in Seq(Commands) /\ 2 \in 1 .. Len(queue)
  BY DEF IInv, Overtake, TypeOK
<1>2. queue[2] \in Commands /\ queue' = RemoveAt(queue, 2)
  BY <1>1, AnsweredAdds
<1>3. PICK n \in Nat \ {0} : Added(queue[2], n)
  BY <1>1, AnsweredAdds
<1>4. /\ queue' \in Seq(Commands) /\ Len(queue') = Len(queue) - 1 /\ Len(queue) \in Nat
      /\ queue'[1] = queue[1] /\ \A i \in 2 .. Len(queue) - 1 : queue'[i] = queue[i + 1]
  BY <1>1, <1>2, RemovedSecond
<1>5. \A i \in 1 .. Len(queue') : \E j \in 1 .. Len(queue) : queue'[i] = queue[j]
  <2> SUFFICES ASSUME NEW i \in 1 .. Len(queue') PROVE \E j \in 1 .. Len(queue) : queue'[i] = queue[j]
    OBVIOUS
  <2>1. (i = 1 /\ 1 \in 1 .. Len(queue)) \/ (i \in 2 .. Len(queue) - 1 /\ i + 1 \in 1 .. Len(queue))
    BY <1>1, <1>4
  <2>2. QED  BY <1>4, <2>1
<1>6. ASSUME NEW t \in Threads, call[t] # Idle, FirstRound, RoundInv, Expects(call[t])
      PROVE  OnItsWay(call[t])'
  <2>1. Begun(call[t]) /\ OnItsWay(call[t])
    BY <1>6 DEF RoundInv, Exchanging, Expects
  <2>2. QED  BY <1>1, <1>2, <1>3, <2>1, OvertakenOnItsWay
<1>7. \E i \in 1 .. Len(queue) : queue[i] = queue[2]
  BY <1>1
<1>8. QED  BY <1>2, <1>3, <1>4, <1>5, <1>6, <1>7, AddedOK

(* The rest of a packet arrives.                                           *)
LEMMA ArriveOK ==
  ASSUME IInv, Arrive
  PROVE  IInv'
<1> DEFINE L == Len(stream)
           p == [stream[L] EXCEPT !.part = "whole"]
<1>1. /\ ~ Arrived /\ stream' = [stream EXCEPT ![L].part = "whole"]
      /\ UNCHANGED <<nextId, holder, call, answer, queue, calls, delays, failed>>
  BY DEF Arrive
<1>2. TypeOK /\ FailsOnce /\ stream \in Seq(Packets) /\ L \in Nat
  BY DEF IInv, TypeOK
<1>3. L \in 1 .. L /\ stream[L].part = "first" /\ stream[L] \in Packets
  <2>1. PICK i \in 1 .. L : stream[i].part = "first"
    BY <1>1 DEF Arrived
  <2>2. i = L
    BY <1>2, <2>1 DEF TypeOK
  <2>3. QED  BY <1>2, <2>1, <2>2
<1>4. p \in Packets /\ p.id = stream[L].id /\ p.serial = stream[L].serial /\ p.part = "whole"
  BY <1>3 DEF Packets
<1>5. stream' = [stream EXCEPT ![L] = p]
  BY <1>1
<1> HIDE DEF p
<1>6. /\ stream' \in Seq(Packets) /\ Len(stream') = L /\ stream'[L] = p
      /\ \A j \in 1 .. L : j # L => stream'[j] = stream[j]
  BY <1>2, <1>3, <1>4, <1>5, ExceptSeq
<1>7. \A j \in 1 .. L : stream'[j].id = stream[j].id /\ stream'[j].serial = stream[j].serial
  BY <1>4, <1>6
<1>8. Aligned' <=> Aligned
  BY <1>3, <1>4, <1>6 DEF Aligned
<1>9. TypeOK'
  BY <1>1, <1>2, <1>6 DEF TypeOK
<1>10. FailsOnce'
  BY <1>1, <1>2 DEF FailsOnce
<1>11. ASSUME FirstRound' PROVE RoundInv'
  <2>1. FirstRound /\ RoundInv
    BY <1>1, <1>11 DEF FirstRound, IInv
  <2>2. Sent' /\ Commanded'
    BY <1>1, <1>6, <1>7, <2>1 DEF RoundInv, Sent, Commanded, IdOf
  <2>3. ASSUME NEW t \in Threads, OnItsWay(call[t]) PROVE OnItsWay(call[t])'
    <3>1. /\ \A j \in 1 .. L : (Chunk(j)' <=> Chunk(j)) /\ (Earlier(j)' <=> Earlier(j))
                              /\ (stream'[j].id = stream[j].id)
          /\ Command' = Command /\ Sentinel' = Sentinel /\ IdOf(calls)' = IdOf(calls)
          /\ call'[t] = call[t] /\ stream # << >> /\ stream' # << >>
      BY <1>1, <1>3, <1>6, <1>7 DEF Chunk, Earlier, Command, Sentinel, IdOf
    <3>2. /\ Unserved(call[t]) => Unserved(call[t])'
          /\ Answering(call[t]) => Answering(call[t])'
      BY <1>1, <1>6, <3>1 DEF Unserved, Answering, Left
    <3>3. /\ InOrder(call[t]) => InOrder(call[t])'
          /\ MarkFirst(call[t]) => MarkFirst(call[t])'
      BY <1>1, <1>2, <1>3, <1>6, <3>1 DEF InOrder, MarkFirst, Left, Mark, IdOf
    <3>4. Overtaken(call[t]) => Overtaken(call[t])'
      BY <1>1, <1>6, <3>1 DEF Overtaken, Left, Mark, IdOf
    <3>5. QED  BY <2>3, <3>2, <3>3, <3>4 DEF OnItsWay
  <2>4. Exchanging'
    <3> SUFFICES ASSUME NEW t \in Threads, call[t] # Idle
                 PROVE  Begun(call[t])' /\ (Aligned' => Expects(call[t])')
      BY <1>1 DEF Exchanging
    <3>1. Begun(call[t])'
      BY <1>1, <2>1 DEF RoundInv, Exchanging, Begun, IdOf
    <3>2. ASSUME Aligned' PROVE Expects(call[t])'
      <4>1. Expects(call[t])
        BY <1>8, <2>1, <3>2 DEF RoundInv, Exchanging
      <4>2. QED  BY <1>1, <2>3, <4>1 DEF Expects
    <3>3. QED  BY <3>1, <3>2
  <2>5. AnswersAreOwn' /\ DelaysAccounted'
    BY <1>1, <1>8, <2>1 DEF RoundInv, AnswersAreOwn, DelaysAccounted
  <2>6. QED  BY <1>1, <2>1, <2>2, <2>4, <2>5 DEF RoundInv
<1>12. QED  BY <1>9, <1>10, <1>11 DEF IInv

-----------------------------------------------------------------------------
(* What may be returned to a thread.                                       *)
Own(a) ==
  a.serial # 0 =>
    /\ \A i \in 1 .. Len(a.body) : a.body[i] = a.serial
    /\ Aligned' => Len(a.body) = Chunks

(* An exchange is over, answered or failed.                                *)
Ends(t) ==
  /\ call[t] # Idle
  /\ holder' = NoThread /\ call' = [call EXCEPT ![t] = Idle]
  /\ UNCHANGED <<nextId, queue, calls>>
  /\ stream' \in Seq(Packets)
  /\ \A i \in 1 .. Len(stream') - 1 : stream'[i].part # "first"
  /\ answer' \in [Threads -> [serial : Nat, body : Seq(Nat)]]
  /\ Aligned' => Aligned

LEMMA EndsOK ==
  ASSUME IInv, NEW t \in Threads, Ends(t), Sent => Sent',
         FirstRound /\ RoundInv => \A s \in Threads : answer'[s] = answer[s] \/ Own(answer'[s]),
         \/ UNCHANGED <<failed, delays>>
         \/ failed' = failed + 1 /\ delays < MaxDelays /\ delays' = delays + 1
         \/ failed' = failed + 1 /\ delays' = delays /\ (FirstRound /\ RoundInv => ~ Aligned')
  PROVE  IInv'
<1>1. TypeOK /\ FailsOnce /\ calls \in Nat /\ failed \in Nat /\ delays \in Nat
      /\ holder = t /\ t # NoThread /\ calls <= MaxCalls
  BY OneExchange DEF IInv, TypeOK, Ends
<1>2. call' \in [Threads -> Exchanges] /\ \A s \in Threads : call'[s] = Idle
  BY <1>1, OneExchange, IdleIs DEF TypeOK, Ends
<1>3. failed' + 0 <= calls' /\ failed' \in Nat /\ delays' \in 0 .. MaxDelays
  BY <1>1 DEF FailsOnce, Ends, TypeOK
<1>4. FailsOnce'
  BY <1>3 DEF FailsOnce, Ends
<1>5. failed' \in 0 .. MaxCalls
  <2>1. \A m, n, k \in Nat : m + 0 <= n /\ n <= k => m \in 0 .. k
    OBVIOUS
  <2>2. calls' = calls
    BY DEF Ends
  <2>3. QED  BY <1>1, <1>3, <2>1, <2>2
<1>6. TypeOK'
  BY <1>1, <1>2, <1>3, <1>5 DEF TypeOK, Ends
<1>7. ASSUME FirstRound' PROVE RoundInv'
  <2>1. FirstRound /\ RoundInv
    BY <1>7 DEF FirstRound, IInv, Ends
  <2>2. Commanded' /\ Sent' /\ nextId' = FirstId + 2 * calls'
    BY <2>1 DEF RoundInv, Commanded, IdOf, Ends
  <2>3. Exchanging'
    BY <1>2 DEF Exchanging
  <2>4. AnswersAreOwn'
    BY <2>1 DEF RoundInv, AnswersAreOwn, Own, Ends
  <2>5. DelaysAccounted'
    BY <1>1, <2>1 DEF RoundInv, DelaysAccounted, Ends
  <2>6. QED  BY <2>2, <2>3, <2>4, <2>5 DEF RoundInv
<1>8. QED  BY <1>4, <1>6, <1>7 DEF IInv

(* A packet is gone from the front of the stream.                          *)
LEMMA HeadRead ==
  ASSUME TypeOK, stream # << >>, stream' = Tail(stream), calls' = calls
  PROVE  /\ Len(stream) \in Nat \ {0} /\ Head(stream) = stream[1] /\ stream[1] \in Packets
         /\ stream' \in Seq(Packets) /\ Len(stream') = Len(stream) - 1
         /\ \A i \in 1 .. Len(stream) - 1 : stream'[i] = stream[i + 1]
         /\ \A i \in 1 .. Len(stream') - 1 : stream'[i].part # "first"
         /\ Sent => Sent'
         /\ stream[1].part # "rest" => (Aligned' <=> Aligned)
<1>1. /\ Len(stream) \in Nat \ {0} /\ Head(stream) = stream[1] /\ stream[1] \in Packets
      /\ stream' \in Seq(Packets) /\ Len(stream') = Len(stream) - 1
      /\ \A i \in 1 .. Len(stream) - 1 : stream'[i] = stream[i + 1]
  BY TailAt DEF TypeOK
<1>2. \A i \in 1 .. Len(stream) - 1 : i + 1 \in 1 .. Len(stream)
  BY <1>1
<1>3. \A i \in 1 .. Len(stream') - 1 : stream'[i].part # "first"
  <2> SUFFICES ASSUME NEW i \in 1 .. Len(stream') - 1 PROVE stream'[i].part # "first"
    OBVIOUS
  <2>1. i \in 1 .. Len(stream) - 1 /\ i + 1 \in 1 .. Len(stream) - 1
    BY <1>1
  <2>2. QED  BY <1>1, <2>1 DEF TypeOK
<1>4. Sent => Sent'
  BY <1>1, <1>2 DEF Sent, IdOf
<1>5. ASSUME stream[1].part # "rest" PROVE Aligned' <=> Aligned
  <2>1. \A i \in 1 .. Len(stream) : i = 1 \/ (i - 1 \in 1 .. Len(stream) - 1 /\ i - 1 + 1 = i)
    BY <1>1
  <2>2. Aligned' => Aligned
    BY <1>1, <1>5, <2>1 DEF Aligned
  <2>3. Aligned => Aligned'
    BY <1>1, <1>2 DEF Aligned
  <2>4. QED  BY <2>2, <2>3
<1>6. QED  BY <1>1, <1>3, <1>4, <1>5

(* The packets of an earlier call have lower ids than this one's.          *)
LEMMA HeadIds ==
  ASSUME TypeOK, Sent, calls >= 1, stream # << >>
  PROVE  /\ Earlier(1) <=> stream[1].id < IdOf(calls)
         /\ Chunk(1) => stream[1].serial = calls /\ ~ Mark(1) /\ ~ Earlier(1)
         /\ Mark(1) => ~ Earlier(1)
         /\ Chunk(1) \/ Mark(1) \/ Earlier(1)
         /\ stream[1].id \in Nat /\ stream[1].serial \in Nat
<1>1. 1 \in 1 .. Len(stream) /\ stream[1] \in Packets
  BY DEF TypeOK
<1>2. /\ stream[1].serial \in 1 .. calls
      /\ stream[1].id \in {IdOf(stream[1].serial), IdOf(stream[1].serial) + 1}
  BY <1>1 DEF Sent
<1> DEFINE n == stream[1].serial
           m == stream[1].id
<1>3. /\ n \in Nat /\ calls \in Nat /\ n <= calls /\ n >= 1 /\ FirstId \in Nat
      /\ m = FirstId + 2 * (n - 1) \/ m = FirstId + 2 * (n - 1) + 1
      /\ m \in Nat
  BY <1>1, <1>2 DEF TypeOK, IdOf, Packets
<1> HIDE DEF n, m
<1>4. /\ n < calls <=> m < FirstId + 2 * (calls - 1)
      /\ m = FirstId + 2 * (calls - 1) => n = calls
      /\ m = FirstId + 2 * (calls - 1) + 1 => n = calls
      /\ n = calls => m = FirstId + 2 * (calls - 1) \/ m = FirstId + 2 * (calls - 1) + 1
  BY <1>3
<1>5. QED  BY <1>3, <1>4 DEF Chunk, Mark, Earlier, IdOf, n, m

-----------------------------------------------------------------------------
LEMMA SeenIs ==
  ASSUME NEW c \in Exchanges, NEW p \in Packets
  PROVE  /\ Seen(c, p) \in Exchanges
         /\ Seen(c, p).id = c.id /\ Seen(c, p).serial = c.serial
         /\ p.id = c.id + 1 =>
              /\ Seen(c, p).sentinel /\ Seen(c, p).request = c.request
              /\ Seen(c, p).body = c.body
              /\ Seen(c, p).reordered <=> c.reordered \/ ~ c.request
         /\ p.id # c.id + 1 =>
              /\ Seen(c, p).request /\ Seen(c, p).sentinel = c.sentinel
              /\ Seen(c, p).reordered = c.reordered
              /\ Seen(c, p).body = Append(c.body, p.serial)
<1>1. Append(c.body, p.serial) \in Seq(Nat)
  BY DEF Exchanges, Packets
<1>2. CASE p.id = c.id + 1
  BY <1>2 DEF Seen, Exchanges
<1>3. CASE p.id # c.id + 1
  <2>1. Seen(c, p) = [c EXCEPT !.request = TRUE, !.body = Append(c.body, p.serial)]
    BY <1>3 DEF Seen
  <2>2. QED  BY <1>1, <1>3, <2>1 DEF Exchanges
<1>4. QED  BY <1>2, <1>3

(* What is left of the stream once its first packet is read.               *)
LEMMA Shifted ==
  ASSUME TypeOK, stream # << >>, stream' = Tail(stream), calls' = calls
  PROVE  /\ Command' = Command /\ Sentinel' = Sentinel
         /\ \A i \in 1 .. Len(stream) - 1 :
              /\ Chunk(i)' <=> Chunk(i + 1)
              /\ Earlier(i)' <=> Earlier(i + 1)
              /\ Mark(i)' <=> Mark(i + 1)
         /\ Len(stream) > 1 /\ Mark(Len(stream)) => Mark(Len(stream))'
<1>1. /\ Len(stream) \in Nat \ {0} /\ Len(stream') = Len(stream) - 1
      /\ \A i \in 1 .. Len(stream) - 1 : stream'[i] = stream[i + 1]
  BY HeadRead
<1>2. Command' = Command /\ Sentinel' = Sentinel /\ IdOf(calls') = IdOf(calls)
  BY DEF Command, Sentinel, IdOf
<1>3. \A i \in 1 .. Len(stream) - 1 :
        (Chunk(i)' <=> Chunk(i + 1)) /\ (Earlier(i)' <=> Earlier(i + 1)) /\ (Mark(i)' <=> Mark(i + 1))
  BY <1>1, <1>2 DEF Chunk, Earlier, Mark, IdOf
<1>4. ASSUME Len(stream) > 1, Mark(Len(stream)) PROVE Mark(Len(stream))'
  <2> DEFINE k == Len(stream) - 1
  <2>1. k \in 1 .. Len(stream) - 1 /\ k + 1 = Len(stream) /\ Len(stream') = k
    BY <1>1, <1>4
  <2>2. stream'[k] = stream[Len(stream)]
    BY <1>1, <2>1
  <2>3. stream'[Len(stream')].id = IdOf(calls) + 1
    BY <1>4, <2>1, <2>2 DEF Mark
  <2>4. QED  BY <1>2, <2>3 DEF Mark, IdOf
<1>5. QED  BY <1>2, <1>3, <1>4

(* The three kinds of packet a holder in step can find at the front.       *)
LEMMA EarlierRead ==
  ASSUME TypeOK, Sent, calls >= 1, stream # << >>, stream' = Tail(stream),
         UNCHANGED <<calls, queue>>, Earlier(1),
         NEW c \in Exchanges, Len(c.body) <= Chunks, OnItsWay(c)
  PROVE  OnItsWay(c)'
<1> DEFINE L == Len(stream)
<1>1. /\ L \in Nat \ {0} /\ Len(stream') = L - 1 /\ 1 \in 1 .. L
      /\ ~ Chunk(1) /\ ~ Mark(1) /\ Len(c.body) \in Nat /\ Left(c) \in Nat
  BY HeadRead, HeadIds DEF Exchanges, Left
<1>2. /\ Command' = Command /\ Sentinel' = Sentinel
      /\ \A i \in 1 .. L - 1 :
           /\ Chunk(i)' <=> Chunk(i + 1)
           /\ Earlier(i)' <=> Earlier(i + 1)
           /\ Mark(i)' <=> Mark(i + 1)
      /\ L > 1 /\ Mark(L) => Mark(Len(stream))'
  BY Shifted
<1>3. \A i \in 1 .. L - 1 : i + 1 \in 1 .. L
  BY <1>1
<1> HIDE DEF L
<1>4. CASE Unserved(c)
  <2>1. \A i \in 1 .. Len(stream') : Earlier(i)'
    BY <1>1, <1>2, <1>3, <1>4 DEF Unserved, L
  <2>2. Unserved(c)'
    BY <1>2, <1>4, <2>1 DEF Unserved
  <2>3. QED  BY <2>2 DEF OnItsWay
<1>5. CASE Answering(c)
  <2>1. /\ Left(c) <= L
        /\ \A i \in 1 .. L : IF i > L - Left(c) THEN Chunk(i) ELSE Earlier(i)
    BY <1>5 DEF Answering, L
  <2>2. Left(c) <= L - 1
    BY <1>1, <2>1
  <2>3. \A i \in 1 .. L - 1 : IF i > L - 1 - Left(c) THEN Chunk(i)' ELSE Earlier(i)'
    <3> SUFFICES ASSUME NEW i \in 1 .. L - 1
                 PROVE  IF i > L - 1 - Left(c) THEN Chunk(i)' ELSE Earlier(i)'
      OBVIOUS
    <3>1. i > L - 1 - Left(c) <=> i + 1 > L - Left(c)
      BY <1>1
    <3>2. IF i + 1 > L - Left(c) THEN Chunk(i + 1) ELSE Earlier(i + 1)
      BY <1>3, <2>1
    <3>3. QED  BY <1>2, <3>1, <3>2
  <2>4. Answering(c)'
    BY <1>1, <1>2, <1>5, <2>2, <2>3 DEF Answering, Left
  <2>5. QED  BY <2>4 DEF OnItsWay
<1>6. CASE InOrder(c)
  <2>1. /\ Left(c) < L /\ Mark(L)
        /\ \A i \in 1 .. L - 1 : IF i >= L - Left(c) THEN Chunk(i) ELSE Earlier(i)
    BY <1>6 DEF InOrder, L
  <2>2. L > 1
    BY <1>1, <2>1
  <2>3. Left(c) < L - 1
    BY <1>1, <2>1, <2>2
  <2>4. \A i \in 1 .. L - 1 - 1 : IF i >= L - 1 - Left(c) THEN Chunk(i)' ELSE Earlier(i)'
    <3> SUFFICES ASSUME NEW i \in 1 .. L - 1 - 1
                 PROVE  IF i >= L - 1 - Left(c) THEN Chunk(i)' ELSE Earlier(i)'
      OBVIOUS
    <3>1. (i >= L - 1 - Left(c) <=> i + 1 >= L - Left(c)) /\ i + 1 \in 1 .. L - 1 /\ i \in 1 .. L - 1
      BY <1>1
    <3>2. IF i + 1 >= L - Left(c) THEN Chunk(i + 1) ELSE Earlier(i + 1)
      BY <2>1, <3>1
    <3>3. QED  BY <1>2, <3>1, <3>2
  <2>5. InOrder(c)'
    BY <1>1, <1>2, <1>6, <2>1, <2>2, <2>3, <2>4 DEF InOrder, Left
  <2>6. QED  BY <2>5 DEF OnItsWay
<1>7. CASE MarkFirst(c)
  <2>1. ~ c.sentinel /\ Mark(L) /\ \A i \in 1 .. L - 1 : Earlier(i)
    BY <1>7 DEF MarkFirst, L
  <2>2. L > 1
    BY <1>1, <2>1
  <2>3. \A i \in 1 .. Len(stream') - 1 : Earlier(i)'
    <3>1. \A i \in 1 .. L - 1 - 1 : i + 1 \in 1 .. L - 1 /\ i \in 1 .. L - 1
      BY <1>1
    <3>2. QED  BY <1>1, <1>2, <2>1, <3>1
  <2>4. stream' # << >>
    BY <1>1, <2>2
  <2>5. MarkFirst(c)'
    BY <1>2, <1>7, <2>1, <2>2, <2>3, <2>4 DEF MarkFirst
  <2>6. QED  BY <2>5 DEF OnItsWay
<1>8. CASE Overtaken(c)
  <2>1. ~ c.sentinel
    BY <1>1, <1>8 DEF Overtaken, L
  <2>2. /\ c.body = << >> /\ Chunks < L
        /\ \A i \in 1 .. L : IF i > L - Chunks THEN Chunk(i)
                             ELSE IF i = L - Chunks THEN Mark(i) ELSE Earlier(i)
    BY <1>8, <2>1 DEF Overtaken, L
  <2>3. Chunks < L - 1
    BY <1>1, <2>2
  <2>4. \A i \in 1 .. L - 1 : IF i > L - 1 - Chunks THEN Chunk(i)'
                              ELSE IF i = L - 1 - Chunks THEN Mark(i)' ELSE Earlier(i)'
    <3> SUFFICES ASSUME NEW i \in 1 .. L - 1
                 PROVE  IF i > L - 1 - Chunks THEN Chunk(i)'
                        ELSE IF i = L - 1 - Chunks THEN Mark(i)' ELSE Earlier(i)'
      OBVIOUS
    <3>1. (i > L - 1 - Chunks <=> i + 1 > L - Chunks) /\ (i = L - 1 - Chunks <=> i + 1 = L - Chunks)
      BY <1>1
    <3>2. IF i + 1 > L - Chunks THEN Chunk(i + 1)
          ELSE IF i + 1 = L - Chunks THEN Mark(i + 1) ELSE Earlier(i + 1)
      BY <1>3, <2>2
    <3>3. QED  BY <1>2, <3>1, <3>2
  <2>5. Overtaken(c)'
    BY <1>1, <1>8, <2>1, <2>2, <2>3, <2>4 DEF Overtaken
  <2>6. QED  BY <2>5 DEF OnItsWay
<1>9. QED  BY <1>4, <1>5, <1>6, <1>7, <1>8 DEF OnItsWay

(* Chunks come while an answer is short of some, and after a sentinel that *)
(* overtook them.                                                          *)
LEMMA ChunkRead ==
  ASSUME TypeOK, Sent, calls >= 1, stream # << >>, stream' = Tail(stream),
         UNCHANGED <<calls, queue>>, Chunk(1),
         NEW c \in Exchanges, Len(c.body) <= Chunks, OnItsWay(c),
         NEW d \in Exchanges, Len(d.body) = Len(c.body) + 1, d.sentinel = c.sentinel
  PROVE  OnItsWay(d)' /\ Len(d.body) <= Chunks
<1> DEFINE L == Len(stream)
<1>1. /\ L \in Nat \ {0} /\ Len(stream') = L - 1 /\ 1 \in 1 .. L
      /\ ~ Earlier(1) /\ ~ Mark(1) /\ Len(c.body) \in Nat /\ Left(c) \in Nat
      /\ Left(d) = Left(c) - 1 /\ Left(d)' = Left(d)
      /\ Left(c) >= 1 => Len(d.body) <= Chunks
  BY HeadRead, HeadIds DEF Exchanges, Left
<1>2. /\ Command' = Command /\ Sentinel' = Sentinel
      /\ \A i \in 1 .. L - 1 :
           /\ Chunk(i)' <=> Chunk(i + 1)
           /\ Earlier(i)' <=> Earlier(i + 1)
           /\ Mark(i)' <=> Mark(i + 1)
      /\ L > 1 /\ Mark(L) => Mark(Len(stream))'
  BY Shifted
<1>3. \A i \in 1 .. L - 1 : i + 1 \in 1 .. L
  BY <1>1
<1> HIDE DEF L
<1>4. ~ Unserved(c)
  BY <1>1 DEF Unserved, L
<1>5. CASE Answering(c)
  <2>1. /\ Left(c) <= L
        /\ \A i \in 1 .. L : IF i > L - Left(c) THEN Chunk(i) ELSE Earlier(i)
    BY <1>5 DEF Answering, L
  <2>2. 1 > L - Left(c)
    BY <1>1, <2>1
  <2>3. Left(c) = L /\ Left(d) <= L - 1
    BY <1>1, <2>1, <2>2
  <2>4. \A i \in 1 .. L - 1 : i > L - 1 - Left(d) /\ Chunk(i)'
    <3> SUFFICES ASSUME NEW i \in 1 .. L - 1 PROVE i > L - 1 - Left(d) /\ Chunk(i)'
      OBVIOUS
    <3>1. i > L - 1 - Left(d) /\ i + 1 > L - Left(c)
      BY <1>1, <2>3
    <3>2. QED  BY <1>2, <1>3, <2>1, <3>1
  <2>5. Answering(d)'
    BY <1>1, <1>2, <1>5, <2>3, <2>4 DEF Answering
  <2>6. QED  BY <1>1, <2>3, <2>5 DEF OnItsWay
<1>6. CASE InOrder(c)
  <2>1. /\ Left(c) < L /\ Mark(L)
        /\ \A i \in 1 .. L - 1 : IF i >= L - Left(c) THEN Chunk(i) ELSE Earlier(i)
    BY <1>6 DEF InOrder, L
  <2>2. L > 1
    BY <1>1, <2>1
  <2>3. 1 >= L - Left(c)
    BY <1>1, <2>1, <2>2
  <2>4. Left(c) = L - 1 /\ Left(c) >= 1 /\ Left(d) < L - 1
    BY <1>1, <2>1, <2>2, <2>3
  <2>5. \A i \in 1 .. L - 1 - 1 : i >= L - 1 - Left(d) /\ Chunk(i)'
    <3> SUFFICES ASSUME NEW i \in 1 .. L - 1 - 1 PROVE i >= L - 1 - Left(d) /\ Chunk(i)'
      OBVIOUS
    <3>1. /\ i >= L - 1 - Left(d) /\ i + 1 >= L - Left(c)
          /\ i + 1 \in 1 .. L - 1 /\ i \in 1 .. L - 1
      BY <1>1, <2>4
    <3>2. QED  BY <1>2, <2>1, <3>1
  <2>6. InOrder(d)'
    BY <1>1, <1>2, <1>6, <2>1, <2>2, <2>4, <2>5 DEF InOrder
  <2>7. QED  BY <1>1, <2>4, <2>6 DEF OnItsWay
<1>7. ~ MarkFirst(c)
  <2> SUFFICES ASSUME MarkFirst(c) PROVE FALSE
    OBVIOUS
  <2>1. Mark(L) /\ \A i \in 1 .. L - 1 : Earlier(i)
    BY DEF MarkFirst, L
  <2>2. L # 1 /\ 1 \in 1 .. L - 1
    BY <1>1, <2>1
  <2>3. QED  BY <1>1, <2>1, <2>2
<1>8. CASE Overtaken(c)
  <2>1. c.sentinel
    <3> SUFFICES ASSUME ~ c.sentinel PROVE FALSE
      OBVIOUS
    <3>1. /\ Chunks < L
          /\ IF 1 > L - Chunks THEN Chunk(1)
             ELSE IF 1 = L - Chunks THEN Mark(1) ELSE Earlier(1)
      BY <1>1, <1>8 DEF Overtaken, L
    <3>2. ~ (1 > L - Chunks)
      BY <1>1, <3>1
    <3>3. QED  BY <1>1, <3>1, <3>2
  <2>2. L = Left(c) /\ \A i \in 1 .. L : Chunk(i)
    BY <1>8, <2>1 DEF Overtaken, L
  <2>3. Len(stream') = Left(d) /\ Left(c) >= 1
    BY <1>1, <2>2
  <2>4. \A i \in 1 .. Len(stream') : Chunk(i)'
    BY <1>1, <1>2, <1>3, <2>2
  <2>5. Overtaken(d)'
    BY <1>1, <1>8, <2>1, <2>3, <2>4 DEF Overtaken
  <2>6. QED  BY <1>1, <2>3, <2>5 DEF OnItsWay
<1>9. QED  BY <1>4, <1>5, <1>6, <1>7, <1>8 DEF OnItsWay

(* A sentinel ends an exchange whose answer is complete, or it is the      *)
(* first packet of all.                                                    *)
LEMMA MarkRead ==
  ASSUME TypeOK, Sent, calls >= 1, stream # << >>, stream' = Tail(stream),
         UNCHANGED <<calls, queue>>, Mark(1),
         NEW c \in Exchanges, Len(c.body) <= Chunks, OnItsWay(c),
         NEW d \in Exchanges, d.body = c.body, d.sentinel
  PROVE  /\ ~ c.sentinel
         /\ \/ Len(c.body) = Chunks
            \/ c.body = << >> /\ OnItsWay(d)'
<1> DEFINE L == Len(stream)
<1>1. /\ L \in Nat \ {0} /\ Len(stream') = L - 1 /\ 1 \in 1 .. L /\ stream' \in Seq(Packets)
      /\ ~ Earlier(1) /\ ~ Chunk(1) /\ Len(c.body) \in Nat /\ Left(c) \in Nat
      /\ Left(c) = Chunks - Len(c.body) /\ Left(d)' = Left(c)
  BY HeadRead, HeadIds DEF Exchanges, Left
<1>2. /\ Command' = Command
      /\ \A i \in 1 .. L - 1 : Chunk(i)' <=> Chunk(i + 1)
  BY Shifted
<1> HIDE DEF L
<1>3. ~ Unserved(c)
  BY <1>1 DEF Unserved, L
<1>4. ~ Answering(c)
  BY <1>1 DEF Answering, L
<1>5. CASE InOrder(c)
  <2>1. /\ Left(c) < L /\ ~ c.sentinel
        /\ \A i \in 1 .. L - 1 : IF i >= L - Left(c) THEN Chunk(i) ELSE Earlier(i)
    BY <1>5 DEF InOrder, L
  <2>2. L = 1
    BY <1>1, <2>1
  <2>3. QED  BY <1>1, <2>1, <2>2
<1>6. CASE MarkFirst(c)
  <2>1. ~ c.sentinel /\ c.body = << >> /\ \A i \in 1 .. L - 1 : Earlier(i)
    BY <1>1, <1>6 DEF MarkFirst, L
  <2>2. L = 1
    BY <1>1, <2>1
  <2>3. stream' = << >>
    BY <1>1, <2>2
  <2>4. MarkFirst(d)'
    BY <1>2, <1>6, <2>1, <2>3 DEF MarkFirst
  <2>5. QED  BY <2>1, <2>4 DEF OnItsWay
<1>7. CASE Overtaken(c)
  <2>1. ~ c.sentinel
    BY <1>1, <1>7 DEF Overtaken, L
  <2>2. /\ c.body = << >> /\ Chunks < L
        /\ \A i \in 1 .. L : IF i > L - Chunks THEN Chunk(i)
                             ELSE IF i = L - Chunks THEN Mark(i) ELSE Earlier(i)
    BY <1>7, <2>1 DEF Overtaken, L
  <2>3. 1 = L - Chunks
    BY <1>1, <2>2
  <2>4. Left(c) = Chunks /\ L - 1 = Chunks
    BY <1>1, <2>2, <2>3
  <2>5. \A i \in 1 .. Len(stream') : Chunk(i)'
    <3> SUFFICES ASSUME NEW i \in 1 .. L - 1 PROVE Chunk(i)'
      BY <1>1
    <3>1. i + 1 > L - Chunks /\ i + 1 \in 1 .. L
      BY <1>1, <2>3
    <3>2. QED  BY <1>2, <2>2, <3>1
  <2>6. Overtaken(d)'
    BY <1>1, <1>7, <2>4, <2>5 DEF Overtaken
  <2>7. QED  BY <2>1, <2>2, <2>6 DEF OnItsWay
<1>8. QED  BY <1>3, <1>4, <1>5, <1>6, <1>7 DEF OnItsWay

(* A packet is read and the exchange goes on.                              *)
LEMMA ContinuesOK ==
  ASSUME IInv, NEW t \in Threads, call[t] # Idle,
         stream # << >>, Head(stream).part = "whole", stream' = Tail(stream),
         UNCHANGED <<nextId, holder, answer, queue, calls, delays, failed>>,
         call' \in [Threads -> Exchanges], call'[t] # Idle,
         \A s \in Threads \ {t} : call'[s] = call[s],
         FirstRound /\ RoundInv => Begun(call[t])' /\ (Aligned => Expects(call[t])')
  PROVE  IInv'
<1>1. TypeOK /\ FailsOnce /\ holder = t /\ \A s \in Threads \ {t} : call[s] = Idle
  BY OneExchange DEF IInv
<1>2. /\ stream' \in Seq(Packets) /\ \A i \in 1 .. Len(stream') - 1 : stream'[i].part # "first"
      /\ Sent => Sent'
      /\ Aligned' <=> Aligned
  BY <1>1, HeadRead
<1>3. TypeOK'
  BY <1>1, <1>2 DEF TypeOK
<1>4. FailsOnce'
  BY <1>1 DEF FailsOnce
<1>5. ASSUME FirstRound' PROVE RoundInv'
  <2>1. FirstRound /\ RoundInv
    BY <1>5 DEF FirstRound, IInv
  <2>2. Commanded' /\ Sent' /\ nextId' = FirstId + 2 * calls'
    BY <1>2, <2>1 DEF RoundInv, Commanded, IdOf
  <2>3. Exchanging'
    <3> SUFFICES ASSUME NEW s \in Threads, call'[s] # Idle
                 PROVE  Begun(call[s])' /\ (Aligned' => Expects(call[s])')
      BY DEF Exchanging
    <3>1. s = t
      BY <1>1
    <3>2. QED  BY <1>2, <2>1, <3>1
  <2>4. AnswersAreOwn' /\ DelaysAccounted'
    BY <1>2, <2>1 DEF RoundInv, AnswersAreOwn, DelaysAccounted
  <2>5. QED  BY <2>2, <2>3, <2>4 DEF RoundInv
<1>6. QED  BY <1>3, <1>4, <1>5 DEF IInv

(* A packet is read and the exchange is answered or fails; without a late  *)
(* packet from another round it does not fail.                             *)
LEMMA ReadEnds ==
  ASSUME TypeOK, NEW t \in Threads, call[t] # Idle,
         stream # << >>, Head(stream).part = "whole", stream' = Tail(stream),
         UNCHANGED <<nextId, queue, calls>>,
         holder' = NoThread, call' = [call EXCEPT ![t] = Idle],
         answer' \in [Threads -> [serial : Nat, body : Seq(Nat)]]
  PROVE  Ends(t) /\ (Sent => Sent')
BY HeadRead DEF Ends

(* An awaited packet, noted by its kind.                                   *)
LEMMA AwaitedRead ==
  ASSUME FirstRound, RoundInv, TypeOK, NEW t \in Threads, call[t] # Idle,
         stream # << >>, Head(stream).part = "whole", stream' = Tail(stream),
         UNCHANGED <<queue, calls>>, Awaited(call[t], Head(stream)),
         NEW d \in Exchanges,
         LET e == Seen(call[t], Head(stream))
         IN  /\ d.id = e.id /\ d.serial = e.serial /\ d.request = e.request
             /\ d.sentinel = e.sentinel /\ d.reordered = e.reordered /\ d.body = e.body
             /\ d.draining => d.request /\ d.sentinel
  PROVE  /\ Begun(d)'
         /\ d.serial = calls /\ \A i \in 1 .. Len(d.body) : d.body[i] = calls
         /\ Aligned =>
              \/ Expects(d)'
              \/ d.request /\ d.sentinel /\ ~ d.reordered
         /\ Aligned /\ d.request /\ d.sentinel /\ ~ d.reordered => Len(d.body) = Chunks
<1> DEFINE c == call[t]
           p == Head(stream)
<1>1. /\ c \in Exchanges /\ p \in Packets /\ p = stream[1] /\ calls \in Nat
      /\ Begun(c) /\ Sent /\ calls >= 1 /\ (Aligned => Expects(c))
      /\ Len(c.body) \in Nat /\ c.body \in Seq(Nat)
  <2>1. c \in Exchanges /\ calls \in Nat
    BY DEF TypeOK
  <2>2. p \in Packets /\ p = stream[1]
    BY HeadRead
  <2>3. Sent /\ Begun(c) /\ (Aligned => Expects(c))
    BY DEF RoundInv, Exchanging
  <2>4. calls >= 1
    BY <2>3 DEF Begun
  <2>5. c.body \in Seq(Nat)
    BY <2>1 DEF Exchanges
  <2>6. QED  BY <2>1, <2>2, <2>3, <2>4, <2>5
<1>2. /\ Begun(c) <=> /\ c.serial = calls /\ calls >= 1 /\ c.id = IdOf(calls)
                      /\ \A i \in 1 .. Len(c.body) : c.body[i] = calls
      /\ Begun(d)' <=> /\ d.serial = calls /\ calls >= 1 /\ d.id = IdOf(calls)
                       /\ \A i \in 1 .. Len(d.body) : d.body[i] = calls
  BY DEF Begun, IdOf
<1> HIDE DEF c, p
<1>3. /\ d.id = c.id /\ d.serial = c.serial
      /\ p.id = c.id + 1 =>
           /\ d.sentinel /\ d.request = c.request /\ d.body = c.body
           /\ d.reordered <=> c.reordered \/ ~ c.request
      /\ p.id # c.id + 1 =>
           /\ d.request /\ d.sentinel = c.sentinel /\ d.reordered = c.reordered
           /\ d.body = Append(c.body, p.serial)
      /\ d.draining => d.request /\ d.sentinel
  <2> DEFINE e == Seen(c, p)
  <2>1. /\ d.id = e.id /\ d.serial = e.serial /\ d.request = e.request
        /\ d.sentinel = e.sentinel /\ d.reordered = e.reordered /\ d.body = e.body
        /\ d.draining => d.request /\ d.sentinel
    BY DEF c, p
  <2>2. /\ e.id = c.id /\ e.serial = c.serial
        /\ p.id = c.id + 1 =>
             /\ e.sentinel /\ e.request = c.request /\ e.body = c.body
             /\ e.reordered <=> c.reordered \/ ~ c.request
        /\ p.id # c.id + 1 =>
             /\ e.request /\ e.sentinel = c.sentinel /\ e.reordered = c.reordered
             /\ e.body = Append(c.body, p.serial)
    BY <1>1, SeenIs
  <2> HIDE DEF e
  <2>3. QED  BY <2>1, <2>2
<1>4. p.id = c.id \/ p.id = c.id + 1
  BY DEF Awaited, c, p
<1>5. CASE p.id = c.id + 1
  <2>1. Mark(1)
    BY <1>1, <1>2, <1>5 DEF Mark
  <2>2. /\ Begun(d)'
        /\ d.serial = calls /\ \A i \in 1 .. Len(d.body) : d.body[i] = calls
    BY <1>1, <1>2, <1>3, <1>5
  <2>3. ASSUME Aligned
        PROVE  /\ Expects(d)' \/ (d.request /\ d.sentinel /\ ~ d.reordered)
               /\ d.request /\ d.sentinel /\ ~ d.reordered => Len(d.body) = Chunks
    <3>1. /\ Len(c.body) <= Chunks /\ (c.request <=> c.body # << >>)
          /\ (c.reordered <=> c.sentinel) /\ OnItsWay(c)
      BY <1>1, <2>3 DEF Expects
    <3>2. /\ ~ c.sentinel
          /\ Len(c.body) = Chunks \/ (c.body = << >> /\ OnItsWay(d)')
      BY <1>1, <1>3, <1>5, <2>1, <3>1, MarkRead
    <3>3. CASE c.body # << >>
      <4>1. c.request /\ ~ c.reordered /\ Len(c.body) = Chunks
        BY <3>1, <3>2, <3>3
      <4>2. QED  BY <1>3, <1>5, <4>1
    <3>4. CASE c.body = << >>
      <4>1. ~ c.request /\ OnItsWay(d)'
        BY <3>1, <3>2, <3>4
      <4>2. d.reordered /\ d.sentinel /\ ~ d.request /\ d.body = << >>
        BY <1>3, <1>5, <3>4, <4>1
      <4>3. Expects(d)'
        BY <1>3, <3>1, <3>4, <4>1, <4>2 DEF Expects
      <4>4. QED  BY <4>2, <4>3
    <3>5. QED  BY <3>3, <3>4
  <2>4. QED  BY <2>2, <2>3
<1>6. CASE p.id = c.id
  <2>1. p.id # c.id + 1 /\ Chunk(1) /\ p.serial = calls
    <3>1. c.id \in Nat
      BY <1>1 DEF Exchanges
    <3>2. Chunk(1)
      BY <1>1, <1>2, <1>6 DEF Chunk
    <3>3. stream[1].serial = calls
      BY <1>1, <3>2, HeadIds
    <3>4. QED  BY <1>1, <1>6, <3>1, <3>2, <3>3
  <2>2. /\ d.body = Append(c.body, calls) /\ Len(d.body) = Len(c.body) + 1
        /\ \A i \in 1 .. Len(d.body) : d.body[i] = calls
        /\ d.body # << >>
    <3>1. d.body = Append(c.body, calls)
      BY <1>3, <2>1
    <3>2. \A i \in 1 .. Len(c.body) : c.body[i] = calls
      BY <1>1, <1>2
    <3> DEFINE b == c.body
    <3>3. /\ b \in Seq(Nat) /\ \A i \in 1 .. Len(b) : b[i] = calls
          /\ d.body = Append(b, calls) /\ calls \in Nat
      BY <1>1, <3>1, <3>2
    <3> HIDE DEF b
    <3>4. /\ Len(Append(b, calls)) = Len(b) + 1 /\ Append(b, calls) # << >>
          /\ \A i \in 1 .. Len(b) + 1 : Append(b, calls)[i] = calls
      <4>1. /\ Len(Append(b, calls)) = Len(b) + 1 /\ Append(b, calls)[Len(b) + 1] = calls
            /\ Append(b, calls) # << >> /\ Len(b) \in Nat
            /\ \A i \in 1 .. Len(b) : Append(b, calls)[i] = b[i]
        BY <3>3, AppendProperties
      <4>2. \A i \in 1 .. Len(b) + 1 : i \in 1 .. Len(b) \/ i = Len(b) + 1
        BY <4>1
      <4>3. QED  BY <3>3, <4>1, <4>2
    <3>5. QED  BY <3>3, <3>4 DEF b
  <2>3. /\ Begun(d)'
        /\ d.serial = calls /\ \A i \in 1 .. Len(d.body) : d.body[i] = calls
    <3>1. d.serial = calls /\ calls >= 1 /\ d.id = IdOf(calls)
      BY <1>1, <1>2, <1>3
    <3>2. \A i \in 1 .. Len(d.body) : d.body[i] = calls
      BY <2>2
    <3>3. QED  BY <1>2, <3>1, <3>2
  <2>4. ASSUME Aligned
        PROVE  /\ Expects(d)'
               /\ d.request /\ d.sentinel /\ ~ d.reordered => Len(d.body) = Chunks
    <3>1. /\ Len(c.body) <= Chunks /\ (c.reordered <=> c.sentinel) /\ OnItsWay(c)
      BY <1>1, <2>4 DEF Expects
    <3>2. OnItsWay(d)' /\ Len(d.body) <= Chunks
      BY <1>1, <1>3, <2>1, <2>2, <3>1, ChunkRead
    <3>3. Expects(d)'
      BY <1>3, <2>1, <2>2, <3>1, <3>2 DEF Expects
    <3>4. QED  BY <1>3, <2>1, <3>1, <3>3
  <2>5. QED  BY <2>3, <2>4
<1>7. QED  BY <1>4, <1>5, <1>6

LEMMA ReadOK ==
  ASSUME IInv, NEW t \in Threads, Read(t)
  PROVE  IInv'
<1> DEFINE p == Head(stream)
           c == Seen(call[t], p)
           whole == c.request /\ c.sentinel
           d == [c EXCEPT !.draining = whole]
<1>1. /\ call[t] # Idle /\ stream # << >> /\ p.part = "whole" /\ stream' = Tail(stream)
      /\ UNCHANGED <<nextId, queue, calls, delays>>
  BY DEF Read
<1>2. /\ TypeOK /\ holder = t /\ call \in [Threads -> Exchanges] /\ call[t] \in Exchanges
      /\ p \in Packets /\ p = stream[1] /\ c \in Exchanges
  <2>1. TypeOK
    BY DEF IInv
  <2>2. p \in Packets /\ p = stream[1]
    BY <1>1, <2>1, HeadRead
  <2>3. call \in [Threads -> Exchanges] /\ call[t] \in Exchanges
    BY <2>1 DEF TypeOK
  <2>4. QED  BY <1>1, <2>1, <2>2, <2>3, SeenIs, OneExchange
<1>3. \/ Awaited(call[t], p) /\ whole /\ ~ MustDrain(c) /\ Return(t, c) /\ UNCHANGED failed
      \/ /\ Awaited(call[t], p) /\ (~ whole \/ MustDrain(c))
         /\ call' = [call EXCEPT ![t] = d] /\ UNCHANGED <<holder, answer, failed>>
      \/ /\ ~ Awaited(call[t], p) /\ Stale(call[t], p)
         /\ UNCHANGED <<holder, call, answer, failed>>
      \/ ~ Awaited(call[t], p) /\ ~ Stale(call[t], p) /\ Fail(t)
  BY DEF Read
<1>4. /\ d \in Exchanges /\ d.id = c.id /\ d.serial = c.serial /\ d.request = c.request
      /\ d.sentinel = c.sentinel /\ d.reordered = c.reordered /\ d.body = c.body
      /\ d.draining = whole /\ c.sentinel \in BOOLEAN /\ c.request \in BOOLEAN
      /\ c.body \in Seq(Nat) /\ c.serial \in Nat
  BY <1>2 DEF Exchanges
<1>5. FirstRound /\ RoundInv =>
        Sent /\ Begun(call[t]) /\ calls >= 1 /\ calls \in Nat /\ (Aligned => Expects(call[t]))
  BY <1>1, <1>2 DEF RoundInv, Exchanging, Begun, TypeOK
<1>6. Sent => Sent'
  BY <1>1, <1>2, HeadRead
<1> HIDE DEF d, c, p
<1>7. CASE Awaited(call[t], p) /\ whole /\ ~ MustDrain(c) /\ Return(t, c) /\ UNCHANGED failed
  <2>1. /\ answer' = [answer EXCEPT ![t] = [serial |-> c.serial, body |-> c.body]]
        /\ holder' = NoThread /\ call' = [call EXCEPT ![t] = Idle]
    BY <1>7 DEF Return
  <2>2. /\ answer' \in [Threads -> [serial : Nat, body : Seq(Nat)]]
        /\ answer'[t] = [serial |-> c.serial, body |-> c.body]
        /\ \A s \in Threads \ {t} : answer'[s] = answer[s]
    BY <1>2, <1>4, <2>1 DEF TypeOK
  <2>3. Ends(t)
    BY <1>1, <1>2, <2>1, <2>2, ReadEnds DEF p
  <2>4. ASSUME FirstRound, RoundInv PROVE Own(answer'[t])
    <3>1. /\ d.serial = calls /\ \A i \in 1 .. Len(d.body) : d.body[i] = calls
          /\ Aligned /\ d.request /\ d.sentinel /\ ~ d.reordered => Len(d.body) = Chunks
      BY <1>1, <1>2, <1>4, <1>7, <2>4, AwaitedRead DEF c, p
    <3>2. Aligned' => Aligned
      BY <2>3 DEF Ends
    <3>3. Aligned' => Len(c.body) = Chunks
      BY <1>4, <1>7, <3>1, <3>2 DEF MustDrain
    <3>4. QED  BY <1>4, <2>2, <3>1, <3>3 DEF Own
  <2>5. QED  BY <1>1, <1>6, <1>7, <2>2, <2>3, <2>4, EndsOK
<1>8. CASE /\ Awaited(call[t], p) /\ (~ whole \/ MustDrain(c))
           /\ call' = [call EXCEPT ![t] = d] /\ UNCHANGED <<holder, answer, failed>>
  <2>1. /\ call' \in [Threads -> Exchanges] /\ call'[t] = d
        /\ \A s \in Threads \ {t} : call'[s] = call[s]
    BY <1>2, <1>4, <1>8
  <2>2. d # Idle
    <3>1. d.request \/ d.sentinel
      <4>1. c.request \/ c.sentinel
        BY <1>2, SeenIs DEF c
      <4>2. QED  BY <1>4, <4>1
    <3>2. ~ Idle.request /\ ~ Idle.sentinel
      BY DEF Idle
    <3>3. QED  BY <3>1, <3>2
  <2>3. ASSUME FirstRound, RoundInv
        PROVE  Begun(call[t])' /\ (Aligned => Expects(call[t])')
    <3>1. /\ Begun(call[t])'
          /\ Aligned => Expects(call[t])' \/ (d.request /\ d.sentinel /\ ~ d.reordered)
      BY <1>1, <1>2, <1>4, <1>8, <2>1, <2>3, AwaitedRead DEF c, p
    <3>2. ~ (d.request /\ d.sentinel /\ ~ d.reordered)
      BY <1>4, <1>8 DEF MustDrain
    <3>3. QED  BY <3>1, <3>2
  <2>4. QED  BY <1>1, <1>8, <2>1, <2>2, <2>3, ContinuesOK DEF p
<1>9. CASE /\ ~ Awaited(call[t], p) /\ Stale(call[t], p)
           /\ UNCHANGED <<holder, call, answer, failed>>
  <2>1. ASSUME FirstRound, RoundInv
        PROVE  Begun(call[t])' /\ (Aligned => Expects(call[t])')
    <3>1. Begun(call[t])'
      BY <1>1, <1>5, <1>9, <2>1 DEF Begun, IdOf
    <3>2. Earlier(1)
      <4>1. call[t].id = IdOf(calls) /\ stream[1].id < IdOf(calls)
        BY <1>2, <1>5, <1>9, <2>1 DEF Begun, Stale
      <4>2. QED  BY <1>1, <1>2, <1>5, <2>1, <4>1, HeadIds
    <3>3. ASSUME Aligned PROVE Expects(call[t])'
      <4>1. Expects(call[t])
        BY <1>5, <2>1, <3>3
      <4>2. /\ Len(call[t].body) <= Chunks /\ OnItsWay(call[t])
        BY <4>1 DEF Expects
      <4>3. call'[t] = call[t]
        BY <1>9
      <4>4. OnItsWay(call[t])'
        BY <1>1, <1>2, <1>5, <1>9, <2>1, <3>2, <4>2, <4>3, EarlierRead
      <4>5. QED  BY <1>9, <4>1, <4>4 DEF Expects
    <3>4. QED  BY <3>1, <3>3
  <2>2. QED  BY <1>1, <1>2, <1>9, <2>1, ContinuesOK DEF p
<1>10. CASE ~ Awaited(call[t], p) /\ ~ Stale(call[t], p) /\ Fail(t)
  <2>1. /\ failed' = failed + 1 /\ answer' = answer /\ holder' = NoThread
        /\ call' = [call EXCEPT ![t] = Idle]
    BY <1>10 DEF Fail
  <2>2. answer' \in [Threads -> [serial : Nat, body : Seq(Nat)]]
    BY <1>2, <2>1 DEF TypeOK
  <2>3. Ends(t)
    BY <1>1, <1>2, <2>1, <2>2, ReadEnds DEF p
  <2>4. ~ (FirstRound /\ RoundInv)
    <3> SUFFICES ASSUME FirstRound, RoundInv PROVE FALSE
      OBVIOUS
    <3>1. Chunk(1) \/ Mark(1) \/ stream[1].id < IdOf(calls)
      BY <1>1, <1>2, <1>5, HeadIds
    <3>2. call[t].id = IdOf(calls)
      BY <1>5 DEF Begun
    <3>3. QED  BY <1>2, <1>10, <3>1, <3>2 DEF Chunk, Mark, Awaited, Stale
  <2>5. QED  BY <1>1, <1>6, <2>1, <2>3, <2>4, EndsOK
<1>11. QED  BY <1>3, <1>7, <1>8, <1>9, <1>10

(* What is left of a torn packet: the stream is out of step and stays so.  *)
LEMMA ReadRestOK ==
  ASSUME IInv, NEW t \in Threads, ReadRest(t)
  PROVE  IInv'
<1>1. /\ call[t] # Idle /\ stream # << >> /\ Head(stream).part = "rest" /\ stream' = stream
      /\ UNCHANGED <<nextId, queue, calls, delays, answer>>
      /\ failed' = failed + 1 /\ holder' = NoThread /\ call' = [call EXCEPT ![t] = Idle]
      /\ TypeOK
  BY DEF ReadRest, Fail, IInv
<1>2. ~ Aligned'
  <2>1. stream \in Seq(Packets)
    BY <1>1 DEF TypeOK
  <2>2. Len(stream) \in Nat \ {0} /\ Head(stream) = stream[1]
    BY <1>1, <2>1, TailAt
  <2>3. QED  BY <1>1, <2>2 DEF Aligned
<1>3. Ends(t) /\ (Sent => Sent')
  BY <1>1, <1>2 DEF Ends, Sent, IdOf, TypeOK
<1>4. QED  BY <1>1, <1>2, <1>3, EndsOK

(* A first piece that is taken and thrown away puts the stream out of step.*)
LEMMA FirstPieceTaken ==
  ASSUME TypeOK, Nothing, stream' = WithoutFirstPiece, calls' = calls
  PROVE  /\ stream' \in Seq(Packets)
         /\ \A i \in 1 .. Len(stream') - 1 : stream'[i].part # "first"
         /\ Sent => Sent'
         /\ Aligned' => Aligned /\ stream = << >>
<1>1. CASE stream = << >>
  BY <1>1 DEF WithoutFirstPiece, TypeOK, Aligned, Sent
<1>2. CASE stream # << >>
  <2> DEFINE p == [stream[1] EXCEPT !.part = "rest"]
  <2>1. /\ stream \in Seq(Packets) /\ Len(stream) \in Nat \ {0}
        /\ stream[1] \in Packets /\ 1 \in 1 .. Len(stream)
    <3>1. stream \in Seq(Packets)
      BY DEF TypeOK
    <3>2. QED  BY <1>2, <3>1, TailAt
  <2>2. p \in Packets /\ p.id = stream[1].id /\ p.serial = stream[1].serial /\ p.part = "rest"
    BY <2>1 DEF Packets
  <2>3. stream' = [stream EXCEPT ![1] = p]
    BY <1>2 DEF WithoutFirstPiece
  <2> HIDE DEF p
  <2>4. /\ stream' \in Seq(Packets) /\ Len(stream') = Len(stream) /\ stream'[1] = p
        /\ \A j \in 1 .. Len(stream) : j # 1 => stream'[j] = stream[j]
    BY <2>1, <2>2, <2>3, ExceptSeq
  <2>5. \A i \in 1 .. Len(stream') - 1 : stream'[i].part # "first"
    <3> SUFFICES ASSUME NEW i \in 1 .. Len(stream') - 1 PROVE stream'[i].part # "first"
      OBVIOUS
    <3>1. i \in 1 .. Len(stream) /\ i \in 1 .. Len(stream) - 1
      BY <2>1, <2>4
    <3>2. QED  BY <2>2, <2>4, <3>1 DEF TypeOK
  <2>6. Sent => Sent'
    <3>1. \A j \in 1 .. Len(stream) : stream'[j].id = stream[j].id /\ stream'[j].serial = stream[j].serial
      BY <2>2, <2>4
    <3>2. QED  BY <2>4, <3>1 DEF Sent, IdOf
  <2>7. ~ Aligned'
    BY <2>1, <2>2, <2>4 DEF Aligned
  <2>8. QED  BY <2>4, <2>5, <2>6, <2>7
<1>3. QED  BY <1>1, <1>2

LEMMA TimeOutOK ==
  ASSUME IInv, NEW t \in Threads, TimeOut(t)
  PROVE  IInv'
<1>1. /\ call[t] # Idle /\ Nothing /\ stream' = WithoutFirstPiece
      /\ UNCHANGED <<nextId, queue, calls, answer>>
      /\ failed' = failed + 1 /\ holder' = NoThread /\ call' = [call EXCEPT ![t] = Idle]
      /\ delays < MaxDelays /\ delays' = delays + 1 /\ TypeOK
  BY DEF TimeOut, Fail, IInv
<1>2. Ends(t) /\ (Sent => Sent')
  BY <1>1, FirstPieceTaken DEF Ends, TypeOK
<1>3. QED  BY <1>1, <1>2, EndsOK

(* A drained exchange has every packet of its answer.                      *)
LEMMA DrainEndsOK ==
  ASSUME IInv, NEW t \in Threads, DrainEnds(t)
  PROVE  IInv'
<1> DEFINE c == call[t]
<1>1. /\ c.draining /\ Nothing /\ stream' = WithoutFirstPiece
      /\ UNCHANGED <<nextId, queue, calls, delays, failed>>
      /\ answer' = [answer EXCEPT ![t] = [serial |-> c.serial, body |-> c.body]]
      /\ holder' = NoThread /\ call' = [call EXCEPT ![t] = Idle] /\ TypeOK
  BY DEF DrainEnds, Return, IInv
<1>2. c # Idle /\ c \in Exchanges
  <2>1. ~ Idle.draining
    BY DEF Idle
  <2>2. QED  BY <1>1, <2>1 DEF TypeOK
<1>3. /\ answer' \in [Threads -> [serial : Nat, body : Seq(Nat)]]
      /\ answer'[t] = [serial |-> c.serial, body |-> c.body]
      /\ \A s \in Threads \ {t} : answer'[s] = answer[s]
  BY <1>1, <1>2 DEF TypeOK, Exchanges
<1>4. Ends(t) /\ (Sent => Sent')
  BY <1>1, <1>2, <1>3, FirstPieceTaken DEF Ends
<1>5. ASSUME FirstRound, RoundInv PROVE Own(answer'[t])
  <2>1. Begun(c) /\ (Aligned => Expects(c))
    BY <1>2, <1>5 DEF RoundInv, Exchanging
  <2>2. ASSUME Aligned' PROVE Len(c.body) = Chunks
    <3>1. stream = << >> /\ Expects(c)
      BY <1>1, <2>1, <2>2, FirstPieceTaken
    <3>2. c.sentinel /\ c.body # << >> /\ OnItsWay(c)
      BY <1>1, <3>1 DEF Expects
    <3> HIDE DEF c
    <3>3. Overtaken(c)
      BY <3>2 DEF OnItsWay, Unserved, Answering, InOrder, MarkFirst
    <3>4. Len(stream) = Chunks - Len(c.body)
      BY <3>2, <3>3 DEF Overtaken, Left
    <3>5. Len(stream) = 0 /\ Len(c.body) \in Nat
      BY <1>2, <3>1 DEF Exchanges
    <3>6. QED  BY <3>4, <3>5
  <2>3. c.serial = calls /\ \A i \in 1 .. Len(c.body) : c.body[i] = calls
    BY <2>1 DEF Begun
  <2>4. QED  BY <1>3, <2>2, <2>3 DEF Own
<1>6. QED  BY <1>1, <1>3, <1>4, <1>5, EndsOK

-----------------------------------------------------------------------------
LEMMA InitOK ==
  ASSUME Init
  PROVE  IInv
<1>1. /\ nextId = FirstId /\ holder = NoThread /\ queue = << >> /\ stream = << >>
      /\ calls = 0 /\ delays = 0 /\ failed = 0
      /\ call = [t \in Threads |-> Idle] /\ answer = [t \in Threads |-> NoAnswer]
  BY DEF Init
<1>2. TypeOK
  BY <1>1, IdleIs DEF TypeOK
<1>3. FailsOnce
  BY <1>1 DEF FailsOnce
<1>4. RoundInv
  <2>1. Commanded /\ Sent
    BY <1>1 DEF Commanded, Sent
  <2>2. Exchanging /\ DelaysAccounted
    BY <1>1 DEF Exchanging, DelaysAccounted
  <2>3. AnswersAreOwn
    BY <1>1, IdleIs DEF AnswersAreOwn
  <2>4. QED  BY <1>1, <2>1, <2>2, <2>3 DEF RoundInv
<1>5. QED  BY <1>2, <1>3, <1>4 DEF IInv

LEMMA StutterOK ==
  ASSUME IInv, UNCHANGED vars
  PROVE  IInv'
<1>1. UNCHANGED <<nextId, holder, call, answer, queue, stream, calls, delays, failed>>
  BY DEF vars
<1>2. TypeOK' /\ FailsOnce' /\ (FirstRound' => FirstRound)
  BY <1>1 DEF IInv, TypeOK, FailsOnce, FirstRound
<1>3. Commanded' = Commanded /\ Sent' = Sent
  BY <1>1 DEF Commanded, Sent, IdOf
<1>4. Exchanging' = Exchanging
  BY <1>1 DEF Exchanging, Begun, Aligned, Expects, OnItsWay, Unserved, Answering, InOrder,
              MarkFirst, Overtaken, Left, Command, Sentinel, Chunk, Mark, Earlier, IdOf
<1>5. AnswersAreOwn' = AnswersAreOwn /\ DelaysAccounted' = DelaysAccounted
  BY <1>1 DEF AnswersAreOwn, DelaysAccounted, Aligned
<1>6. QED  BY <1>1, <1>2, <1>3, <1>4, <1>5 DEF IInv, RoundInv

(* Numbered pairs, what is on the way and what an exchange still expects:  *)
(* together they are inductive, whatever the threads and the server do.    *)
THEOREM Invariant == Spec => []IInv
<1>1. ASSUME IInv, [Next]_vars PROVE IInv'
  <2>1. CASE UNCHANGED vars
    BY <1>1, <2>1, StutterOK
  <2>2. ASSUME NEW t \in Threads, Begin(t) \/ BeginQuiet(t) PROVE IInv'
    BY <1>1, <2>2, BeginOK, BeginQuietOK
  <2>3. ASSUME NEW t \in Threads, Read(t) \/ ReadRest(t) PROVE IInv'
    BY <1>1, <2>3, ReadOK, ReadRestOK
  <2>4. ASSUME NEW t \in Threads, TimeOut(t) \/ DrainEnds(t) PROVE IInv'
    BY <1>1, <2>4, TimeOutOK, DrainEndsOK
  <2>5. CASE Serve \/ Overtake \/ Arrive
    BY <1>1, <2>5, ServeOK, OvertakeOK, ArriveOK
  <2>6. QED  BY <1>1, <2>1, <2>2, <2>3, <2>4, <2>5 DEF Next
<1>2. QED  BY <1>1, InitOK, PTL DEF Spec

(* A thread is in a call exactly if it holds the lock, and only the last   *)
(* packet can still be on its way.                                         *)
THEOREM TypeCorrect == Spec => []TypeOK
<1>1. IInv => TypeOK
  BY DEF IInv
<1>2. QED  BY <1>1, Invariant, PTL

(* Until the ids come round, a call returns all of its own answer and      *)
(* nothing else (rcon.py command, _exchange).                              *)
THEOREM OwnAnswers == Spec => [](FirstRound => AnswersAreOwn)
<1>1. IInv => (FirstRound => AnswersAreOwn)
  BY DEF IInv, RoundInv
<1>2. QED  BY <1>1, Invariant, PTL

(* Until then a call fails only by a delay of the server, and one delay    *)
(* fails one call (rcon.py command, _exchange).                            *)
THEOREM DelaysCostOneCall == Spec => [](FirstRound => DelaysAccounted)
<1>1. IInv => (FirstRound => DelaysAccounted)
  BY DEF IInv, RoundInv
<1>2. QED  BY <1>1, Invariant, PTL
=============================================================================
