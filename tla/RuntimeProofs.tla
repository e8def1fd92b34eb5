---------------------------- MODULE RuntimeProofs ---------------------------
(***************************************************************************)
(* Proofs about Runtime, and about Session, which drives it, for every set *)
(* of requests and bodies, every ledger limit and number of episodes.      *)
(*                                                                         *)
(* First what the registry operators of Inflight preserve: each keeps a    *)
(* registry well typed and its slots in agreement, never disturbs the      *)
(* holder of the advance slot unless it ends that operation, and makes at  *)
(* most the operation it starts live.  Then the handlers and the tick, and *)
(* that the ledger tells the truth about what runs and that Runtime        *)
(* implements Mutations.  Last the session: its steps are the worker's, so *)
(* the worker's invariants hold of it, and its own tie what it has told    *)
(* its caller to what the ledger and the registry then hold.               *)
(***************************************************************************)
EXTENDS Session, SequenceTheorems, FiniteSetTheorems, TLAPS

(* Whoever holds the advance slot still does.                              *)
KeepsAdvance(g, h) == Occupied(g, "advance") => Occupied(h, "advance")

(* What runs in h ran in g as the same action, but for id, which may be    *)
(* newly running as action.                                                *)
RunsAtMost(g, h, id, action) ==
  \A i \in Running(h) :
    \/ i \in Running(g) /\ h.entries[i].action = g.entries[i].action
    \/ i = id /\ h.entries[i].action = action

(* Nothing runs in h that did not run in g.                                *)
RunsNoMore(g, h) ==
  \A i \in Running(h) :
    i \in Running(g) /\ h.entries[i].action = g.entries[i].action

USE NoneIsNoId

(* The registry a reset leaves is well typed and in agreement.             *)
LEMMA EmptyRegistryOK ==
  EmptyRegistry \in Registry /\ SlotsAgree(EmptyRegistry) /\ Running(EmptyRegistry) = {}
BY DEF EmptyRegistry, Registry, Entry, NoEntry, SlotsAgree, Running, Slots

(* Ending operations keeps the registry's type.                            *)
LEMMA FinishedType ==
  ASSUME NEW g \in Registry, NEW S
  PROVE  Finished(g, S) \in Registry
<1> DEFINE f == Finished(g, S)
<1>1. f.entries \in [Ids -> Entry]
  <2>1. \A e \in Entry : Ended(e) \in Entry
    BY DEF Entry, Ended
  <2>2. QED  BY <2>1 DEF Registry, Finished
<1>2. f.slots \in [Slots -> Ids \cup {None}]
  BY DEF Registry, Finished
<1>3. QED  BY <1>1, <1>2 DEF Registry, Finished

(* Ending operations keeps slots and entries in agreement, ends those it   *)
(* names and no other.                                                     *)
LEMMA FinishedAgrees ==
  ASSUME NEW g \in Registry, SlotsAgree(g), NEW S
  PROVE  /\ SlotsAgree(Finished(g, S))
         /\ RunsNoMore(g, Finished(g, S))
         /\ Running(Finished(g, S)) = Running(g) \ S
<1> DEFINE f == Finished(g, S)
<1>1. \A id \in Ids : /\ f.entries[id].action = g.entries[id].action
                      /\ f.entries[id].live <=> (g.entries[id].live /\ id \notin S)
  BY DEF Registry, Finished, Entry, Ended
<1>2. \A s \in Slots : f.slots[s] = IF g.slots[s] \in S /\ SlotOf(g.entries[g.slots[s]].action) = s
                                   THEN None ELSE g.slots[s]
  BY DEF Finished
<1>3. \A s \in Slots : g.slots[s] \in Ids \cup {None}
  BY DEF Registry
<1>4. ASSUME NEW s \in Slots, f.slots[s] # None
      PROVE  f.entries[f.slots[s]].live /\ SlotOf(f.entries[f.slots[s]].action) = s
  <2>1. g.slots[s] # None /\ g.slots[s] \in Ids
    BY <1>2, <1>3, <1>4
  <2>2. g.entries[g.slots[s]].live /\ SlotOf(g.entries[g.slots[s]].action) = s
    BY <2>1 DEF SlotsAgree
  <2>3. f.slots[s] = g.slots[s] /\ g.slots[s] \notin S
    BY <1>2, <1>4, <2>2
  <2>4. QED  BY <1>1, <2>1, <2>2, <2>3
<1>5. ASSUME NEW id \in Running(f), SlotOf(f.entries[id].action) \in Slots
      PROVE  f.slots[SlotOf(f.entries[id].action)] = id
  <2>1. id \in Running(g) /\ id \notin S /\ f.entries[id].action = g.entries[id].action
    BY <1>1 DEF Running
  <2>2. g.slots[SlotOf(g.entries[id].action)] = id
    BY <1>5, <2>1 DEF SlotsAgree
  <2>3. QED  BY <1>2, <1>5, <2>1, <2>2
<1>6. QED  BY <1>1, <1>4, <1>5 DEF SlotsAgree, Running, RunsNoMore

(* Starting an operation keeps the registry's type.                        *)
LEMMA StartedType ==
  ASSUME NEW g \in Registry, NEW id \in Ids, NEW action \in Ongoing, NEW left \in Nat
  PROVE  Started(g, id, action, left) \in Registry
BY DEF Registry, Started, Entry

(* Starting an operation in a free slot, under an id that holds no slot,   *)
(* keeps the agreement.                                                    *)
LEMMA StartedAgrees ==
  ASSUME NEW g \in Registry, SlotsAgree(g), NEW id \in Ids,
         NEW action \in Ongoing, NEW left \in Nat,
         SlotOf(action) \in Slots => ~ Occupied(g, SlotOf(action)),
         id \in Running(g) => SlotOf(g.entries[id].action) \notin Slots
  PROVE  /\ SlotsAgree(Started(g, id, action, left))
         /\ RunsAtMost(g, Started(g, id, action, left), id, action)
<1> DEFINE f == Started(g, id, action, left)
<1>1. /\ f.entries[id].action = action /\ f.entries[id].live
      /\ \A i \in Ids : i # id => f.entries[i] = g.entries[i]
  BY DEF Registry, Started, Entry
<1>2. \A s \in Slots : f.slots[s] = IF s = SlotOf(action) THEN id ELSE g.slots[s]
  BY DEF Started
<1>3. \A s \in Slots : g.slots[s] \in Ids \cup {None}
  BY DEF Registry
<1>4. \A s \in Slots : s # SlotOf(action) => g.slots[s] # id
  BY <1>3 DEF SlotsAgree, Running
<1>5. \A s \in Slots : f.slots[s] # None =>
        f.entries[f.slots[s]].live /\ SlotOf(f.entries[f.slots[s]].action) = s
  BY <1>1, <1>2, <1>3, <1>4 DEF SlotsAgree
<1>6. \A i \in Running(f) :
        SlotOf(f.entries[i].action) \in Slots => f.slots[SlotOf(f.entries[i].action)] = i
  <2> SUFFICES ASSUME NEW i \in Running(f), SlotOf(f.entries[i].action) \in Slots
               PROVE  f.slots[SlotOf(f.entries[i].action)] = i
    OBVIOUS
  <2>1. CASE i = id  BY <2>1, <1>1, <1>2
  <2>2. CASE i # id
    <3>1. i \in Running(g) /\ f.entries[i] = g.entries[i]
      BY <2>2, <1>1 DEF Running
    <3>2. g.slots[SlotOf(g.entries[i].action)] = i
      BY <3>1 DEF SlotsAgree
    <3>3. SlotOf(g.entries[i].action) # SlotOf(action)
      BY <3>1, <3>2 DEF Occupied, Running
    <3>4. QED  BY <3>1, <3>2, <3>3, <1>2
  <2>3. QED  BY <2>1, <2>2
<1>7. RunsAtMost(g, f, id, action)
  BY <1>1 DEF RunsAtMost, Running
<1>8. QED  BY <1>5, <1>6, <1>7 DEF SlotsAgree

(* Neither ending other operations nor starting one takes the advance slot *)
(* from its holder: the world of a running interval keeps ticking.         *)
LEMMA FinishedKeepsAdvance ==
  ASSUME NEW g \in Registry, NEW S, g.slots["advance"] \notin S
  PROVE  KeepsAdvance(g, Finished(g, S))
<1> DEFINE f == Finished(g, S)
<1>1. "advance" \in Slots /\ g.slots["advance"] \in Ids \cup {None}
  BY DEF Registry, Slots
<1>2. f.slots["advance"] = g.slots["advance"]
  BY <1>1 DEF Finished
<1>3. ASSUME g.slots["advance"] # None
      PROVE  f.entries[g.slots["advance"]] = g.entries[g.slots["advance"]]
  BY <1>1, <1>3 DEF Finished
<1>4. QED  BY <1>2, <1>3 DEF KeepsAdvance, Occupied

(* The same of starting an operation; an advance that starts holds it.     *)
LEMMA StartedKeepsAdvance ==
  ASSUME NEW g \in Registry, SlotsAgree(g), NEW id \in Ids,
         NEW action \in Ongoing, NEW left \in Nat,
         id \in Running(g) => SlotOf(g.entries[id].action) \notin Slots
  PROVE  /\ KeepsAdvance(g, Started(g, id, action, left))
         /\ action = "advance" => Occupied(Started(g, id, action, left), "advance")
<1> DEFINE f == Started(g, id, action, left)
<1>1. "advance" \in Slots /\ g.slots["advance"] \in Ids \cup {None}
  BY DEF Registry, Slots
<1>2. /\ f.entries[id].live
      /\ \A i \in Ids : i # id => f.entries[i] = g.entries[i]
  BY DEF Registry, Started, Entry
<1>3. f.slots["advance"] = IF "advance" = SlotOf(action) THEN id ELSE g.slots["advance"]
  BY <1>1 DEF Started
<1>4. CASE SlotOf(action) = "advance"
  BY <1>2, <1>3, <1>4 DEF KeepsAdvance, Occupied
<1>5. CASE SlotOf(action) # "advance"
  <2>1. action # "advance"
    BY <1>5 DEF SlotOf
  <2>2. ASSUME Occupied(g, "advance") PROVE g.slots["advance"] # id
    <3>1. g.slots["advance"] \in Ids /\ SlotOf(g.entries[g.slots["advance"]].action) = "advance"
      BY <1>1, <2>2 DEF Occupied, SlotsAgree
    <3>2. QED  BY <3>1, <2>2, <1>1 DEF Occupied, Running
  <2>3. QED  BY <1>1, <1>2, <1>3, <1>5, <2>1, <2>2 DEF KeepsAdvance, Occupied
<1>6. QED  BY <1>4, <1>5

(* A pending list is no part of the agreement.                             *)
LEMMA PendingIsFree ==
  ASSUME NEW g \in Registry, SlotsAgree(g), NEW h,
         h.entries = g.entries, h.slots = g.slots
  PROVE  SlotsAgree(h) /\ RunsNoMore(g, h) /\ Running(h) = Running(g)
         /\ (\A s \in Slots : Occupied(h, s) <=> Occupied(g, s))
BY DEF SlotsAgree, Running, RunsNoMore, Occupied

(* Taking over the body leaves nothing holding it and spares the advance.  *)
LEMMA TakenOverOK ==
  ASSUME NEW g \in Registry, SlotsAgree(g)
  PROVE  LET h == TakenOver(g)
         IN  /\ h \in Registry /\ SlotsAgree(h)
             /\ RunsNoMore(g, h) /\ KeepsAdvance(g, h)
             /\ ~ Occupied(h, "move") /\ ~ Occupied(h, "mine")
<1> DEFINE losers == Occupants(g, {"move", "mine"})
           f == Finished(g, losers)
           h == TakenOver(g)
<1>1. CASE losers = {}
  <2>1. ~ Occupied(g, "move") /\ ~ Occupied(g, "mine")
    BY <1>1 DEF Occupants
  <2>2. h = g
    BY <1>1 DEF TakenOver
  <2>3. QED  BY <2>1, <2>2 DEF RunsNoMore, KeepsAdvance
<1>2. CASE losers # {}
  <2>1. /\ f \in Registry /\ SlotsAgree(f) /\ RunsNoMore(g, f)
        /\ Running(f) = Running(g) \ losers
    BY FinishedType, FinishedAgrees
  <2>2. \A s \in Slots : g.slots[s] \in Ids \cup {None}
    BY DEF Registry
  <2>3. losers \subseteq Ids
    BY <2>2 DEF Occupants, Occupied, Slots
  <2>4. h = [f EXCEPT !.superseded = losers]
    BY <1>2 DEF TakenOver
  <2>5. h \in Registry /\ h.entries = f.entries /\ h.slots = f.slots
    BY <2>1, <2>3, <2>4 DEF Registry
  <2>6. /\ SlotsAgree(h) /\ RunsNoMore(f, h)
        /\ (\A s \in Slots : Occupied(h, s) <=> Occupied(f, s))
    BY <2>1, <2>5, PendingIsFree
  <2>7. g.slots["advance"] \notin losers
    <3>1. \A id \in losers : SlotOf(g.entries[id].action) # "advance"
      BY <2>2 DEF Occupants, Occupied, SlotsAgree, Slots
    <3>2. ASSUME g.slots["advance"] \in losers PROVE FALSE
      <4>1. g.slots["advance"] # None
        BY <2>3, <3>2
      <4>2. SlotOf(g.entries[g.slots["advance"]].action) = "advance"
        BY <4>1 DEF SlotsAgree, Slots
      <4>3. QED  BY <3>1, <3>2, <4>2
    <3>3. QED  BY <3>2
  <2>8. KeepsAdvance(g, h)
    BY <2>6, <2>7, FinishedKeepsAdvance DEF KeepsAdvance, Slots
  <2>9. ASSUME NEW s \in {"move", "mine"} PROVE ~ Occupied(f, s)
    <3>1. ASSUME Occupied(f, s) PROVE FALSE
      <4>1. f.slots[s] \in Running(f)
        BY <2>1, <3>1 DEF Occupied, Running, Registry, Slots
      <4>2. f.slots[s] = g.slots[s]
        BY <3>1 DEF Finished, Occupied, Slots
      <4>3. f.slots[s] \in Running(g) \ losers
        BY <2>1, <4>1
      <4>4. Occupied(g, s)
        BY <4>2, <4>3, <3>1 DEF Occupied, Running
      <4>5. QED  BY <4>2, <4>3, <4>4 DEF Occupants
    <3>2. QED  BY <3>1
  <2>10. RunsNoMore(g, h)
    BY <2>1, <2>6 DEF RunsNoMore
  <2>11. QED  BY <2>5, <2>6, <2>8, <2>9, <2>10 DEF Slots
<1>3. QED  BY <1>1, <1>2

(* A cancel ends one operation that is not the advance.                    *)
LEMMA CancelledByOK ==
  ASSUME NEW g \in Registry, SlotsAgree(g), NEW id \in Cancellable(g)
  PROVE  LET h == CancelledBy(g, id)
         IN  /\ h \in Registry /\ SlotsAgree(h)
             /\ RunsNoMore(g, h) /\ KeepsAdvance(g, h)
<1> DEFINE f == Finished(g, {id})
           h == CancelledBy(g, id)
<1>1. f \in Registry /\ SlotsAgree(f) /\ RunsNoMore(g, f)
  BY FinishedType, FinishedAgrees
<1>2. id \in Ids /\ g.entries[id].action # "advance" /\ g.entries[id].live
  BY DEF Cancellable, Running
<1>3. h \in Registry /\ h.entries = f.entries /\ h.slots = f.slots
  BY <1>1, <1>2 DEF CancelledBy, Registry
<1>4. /\ SlotsAgree(h) /\ RunsNoMore(f, h)
      /\ (\A s \in Slots : Occupied(h, s) <=> Occupied(f, s))
  BY <1>1, <1>3, PendingIsFree
<1>5. g.slots["advance"] \notin {id}
  <2>1. g.slots["advance"] # None => SlotOf(g.entries[g.slots["advance"]].action) = "advance"
    BY DEF SlotsAgree, Slots
  <2>2. SlotOf(g.entries[id].action) # "advance"
    BY <1>2 DEF SlotOf
  <2>3. QED  BY <1>2, <2>1, <2>2
<1>6. KeepsAdvance(g, h)
  BY <1>4, <1>5, FinishedKeepsAdvance DEF KeepsAdvance, Slots
<1>7. RunsNoMore(g, h)
  BY <1>1, <1>4 DEF RunsNoMore
<1>8. QED  BY <1>3, <1>4, <1>6, <1>7

(* A tick ends the operations it settles and no other.                     *)
LEMMA PolledOK ==
  ASSUME NEW g \in Registry, SlotsAgree(g), NEW out
  PROVE  LET h == Polled(g, out)
         IN  /\ h \in Registry /\ SlotsAgree(h) /\ RunsNoMore(g, h)
             /\ g.slots["advance"] \notin DOMAIN out => KeepsAdvance(g, h)
<1> DEFINE f == Finished(g, DOMAIN out)
           h == Polled(g, out)
<1>1. f \in Registry /\ SlotsAgree(f) /\ RunsNoMore(g, f)
  BY FinishedType, FinishedAgrees
<1>2. \A id \in Ids : /\ h.entries[id] \in Entry
                      /\ h.entries[id].action = f.entries[id].action
                      /\ h.entries[id].live <=> f.entries[id].live
  <2> SUFFICES ASSUME NEW id \in Ids
               PROVE  /\ h.entries[id] \in Entry
                      /\ h.entries[id].action = f.entries[id].action
                      /\ h.entries[id].live <=> f.entries[id].live
    OBVIOUS
  <2>1. f.entries[id] \in Entry
    BY <1>1 DEF Registry
  <2>2. h.entries[id] = IF f.entries[id].live /\ f.entries[id].left > 0
                        THEN [f.entries[id] EXCEPT !.left = @ - 1] ELSE f.entries[id]
    BY DEF Polled
  <2>3. QED  BY <2>1, <2>2 DEF Entry
<1>3. h.slots = f.slots /\ h.superseded = {} /\ h.cancelled = {}
  BY DEF Polled
<1>4. h \in Registry
  <2>1. h.entries \in [Ids -> Entry]
    BY <1>2 DEF Polled
  <2>2. QED  BY <1>1, <1>3, <2>1 DEF Polled, Registry
<1>5. \A s \in Slots : f.slots[s] \in Ids \cup {None}
  BY <1>1 DEF Registry
<1>6. SlotsAgree(h) /\ RunsNoMore(f, h) /\ KeepsAdvance(f, h)
  <2>1. \A s \in Slots : h.slots[s] # None =>
          h.entries[h.slots[s]].live /\ SlotOf(h.entries[h.slots[s]].action) = s
    BY <1>1, <1>2, <1>3, <1>5 DEF SlotsAgree
  <2>2. \A id \in Running(h) :
          SlotOf(h.entries[id].action) \in Slots => h.slots[SlotOf(h.entries[id].action)] = id
    BY <1>1, <1>2, <1>3 DEF SlotsAgree, Running
  <2>3. RunsNoMore(f, h)
    BY <1>2 DEF RunsNoMore, Running
  <2>4. KeepsAdvance(f, h)
    BY <1>2, <1>3, <1>5 DEF KeepsAdvance, Occupied, Slots
  <2>5. QED  BY <2>1, <2>2, <2>3, <2>4 DEF SlotsAgree
<1>7. g.slots["advance"] \notin DOMAIN out => KeepsAdvance(g, h)
  BY <1>6, FinishedKeepsAdvance DEF KeepsAdvance
<1>8. RunsNoMore(g, h)
  BY <1>1, <1>6 DEF RunsNoMore
<1>9. QED  BY <1>4, <1>6, <1>7, <1>8

-----------------------------------------------------------------------------
(* What the request of an id asked the registry to run: the interval of an *)
(* advance or a step under its own id, otherwise its action.               *)
AskedFor(id) ==
  IF id[2] = "top" /\ sent[id[1]].type \in {"advance", "step"}
  THEN "advance" ELSE sent[id[1]].action

(* What runs under an id is what its request asked for, in this episode.   *)
RunningAsAsked ==
  \A id \in Running(reg) :
    /\ sent[id[1]].type # "none"
    /\ reg.entries[id].action = AskedFor(id)

(* An applied request is from an earlier episode, or is still known, or    *)
(* was forgotten: handle_json can tell every delivery of it from a first.  *)
AppliedRemembered ==
  \A r \in Requests :
    /\ sent[r].ep <= episode
    /\ applied[r] > 0 =>
         /\ sent[r].type # "none"
         /\ \/ sent[r].ep < episode
            \/ Known(ledger, Top(r))
            \/ Top(r) \in forgotten

(* The inductive invariant: what the registry holds, why the world ticks,  *)
(* and what is remembered of each applied request.                         *)
RegistryInv == OneOperationPerSlot /\ RunningAsAsked /\ RunningBelongsToEpisode
MemoryInv   == AppliedRemembered /\ AtMostOnce

IInv == TypeOK /\ RegistryInv /\ PausedBetweenDecisions /\ MemoryInv

USE BodiesAssumption, LimitAssumption, EpisodeAssumption, ConfigurableAssumption

-----------------------------------------------------------------------------
(* ledger_store keeps the ledger's type and its record is then known; at   *)
(* most one other record is lost.                                          *)
LEMMA StoredOK ==
  ASSUME NEW L \in LedgerValue, NEW k \in Ids, NEW rec \in Record
  PROVE  /\ Stored(L, k, rec) \in LedgerValue
         /\ Stored(L, k, rec).of[k] = rec
<1> DEFINE M == Stored(L, k, rec)
<1>1. L.of \in [Ids -> Record] /\ L.order \in Seq(Ids)
  BY DEF LedgerValue
<1>2. CASE Known(L, k)
  BY <1>1, <1>2 DEF Stored, LedgerValue
<1>3. CASE ~ Known(L, k) /\ Len(L.order) < LedgerLimit
  <2>1. Append(L.order, k) \in Seq(Ids)
    BY <1>1
  <2>2. QED  BY <1>1, <1>3, <2>1 DEF Stored, LedgerValue
<1>4. CASE ~ Known(L, k) /\ ~ (Len(L.order) < LedgerLimit)
  <2>1. L.order # << >> /\ Head(L.order) \in Ids /\ Tail(L.order) \in Seq(Ids)
    BY <1>1, <1>4
  <2>2. Append(Tail(L.order), k) \in Seq(Ids)
    BY <2>1
  <2>3. NoRecord \in Record
    BY DEF NoRecord, Record, Types, States
  <2>4. [[L.of EXCEPT ![Head(L.order)] = NoRecord] EXCEPT ![k] = rec] \in [Ids -> Record]
    BY <1>1, <2>1, <2>3
  <2>5. QED  BY <1>1, <1>4, <2>2, <2>4 DEF Stored, LedgerValue
<1>5. QED  BY <1>2, <1>3, <1>4

(* The ledger a new episode starts with.                                   *)
LEMMA EmptyLedgerOK == EmptyLedger \in LedgerValue
<1>1. NoRecord \in Record
  BY DEF NoRecord, Record, Types, States
<1>2. << >> \in Seq(Ids)
  OBVIOUS
<1>3. QED  BY <1>1, <1>2 DEF EmptyLedger, LedgerValue

(* A fresh record is a record, and one that is not unknown is known.       *)
LEMMA FreshOK ==
  ASSUME NEW type \in Types, NEW state \in States
  PROVE  Fresh(type, state) \in Record
BY DEF Fresh, Record

(* Settling one record keeps its type and does not make it unknown.        *)
LEMMA SettleOK ==
  ASSUME NEW rec \in Record, NEW status \in States \ {"unknown"}
  PROVE  /\ Settle(rec, status) \in Record
         /\ Settle(rec, status).state = "unknown" <=> rec.state = "unknown"
<1>1. CASE rec.state = "unknown" \/ rec.settled
  BY <1>1 DEF Settle
<1>2. CASE ~ (rec.state = "unknown" \/ rec.settled)
  <2> DEFINE next == IF rec.state = "rejected" THEN rec.state ELSE status
  <2>1. Settle(rec, status) = [rec EXCEPT !.settled = TRUE, !.state = next]
    BY <1>2 DEF Settle
  <2>2. next \in States /\ next # "unknown"
    BY <1>2 DEF States
  <2> HIDE DEF next
  <2>3. QED  BY <1>2, <2>1, <2>2 DEF Record
<1>3. QED  BY <1>1, <1>2

(* Settling records keeps the ledger's type and forgets none of them.      *)
LEMMA SettledOK ==
  ASSUME NEW L \in LedgerValue, NEW out,
         \A k \in DOMAIN out : out[k] \in States \ {"unknown"}
  PROVE  /\ Settled(L, out) \in LedgerValue
         /\ \A k \in Ids : Known(Settled(L, out), k) <=> Known(L, k)
<1> DEFINE M == Settled(L, out)
<1>1. L.of \in [Ids -> Record] /\ L.order \in Seq(Ids)
  BY DEF LedgerValue
<1>2. ASSUME NEW k \in Ids
      PROVE  M.of[k] \in Record /\ (Known(M, k) <=> Known(L, k))
  <2>1. M.of[k] = IF k \in DOMAIN out THEN Settle(L.of[k], out[k]) ELSE L.of[k]
    BY DEF Settled
  <2>2. L.of[k] \in Record
    BY <1>1
  <2>3. CASE k \notin DOMAIN out
    BY <2>1, <2>2, <2>3 DEF Known
  <2>4. CASE k \in DOMAIN out
    <3>1. out[k] \in States \ {"unknown"}
      BY <2>4
    <3>2. QED  BY <2>1, <2>2, <2>4, <3>1, SettleOK DEF Known
  <2>5. QED  BY <2>3, <2>4
<1>3. M.of \in [Ids -> Record] /\ M.order \in Seq(Ids)
  BY <1>1, <1>2 DEF Settled
<1>4. QED  BY <1>2, <1>3 DEF Settled, LedgerValue

-----------------------------------------------------------------------------
(* A registry an action, dispatched under id, may leave behind: well typed *)
(* and in agreement, the interval's operation untouched, and nothing       *)
(* newly running but the action itself.                                    *)
Sound(g, h, id, action) ==
  /\ h \in Registry /\ SlotsAgree(h)
  /\ KeepsAdvance(g, h) /\ RunsAtMost(g, h, id, action)

SoundOutcome(g, o, id, action) ==
  /\ Sound(g, o.reg, id, action)
  /\ o.state \in States \ {"unknown"}
  /\ o.threw \in BOOLEAN

(* Soundness is kept along two changes made one after the other.           *)
LEMMA SoundSteps ==
  ASSUME NEW g, NEW h \in Registry, NEW k \in Registry, SlotsAgree(k),
         RunsNoMore(g, h), KeepsAdvance(g, h), KeepsAdvance(h, k),
         NEW id, NEW action, RunsAtMost(h, k, id, action)
  PROVE  Sound(g, k, id, action)
<1>1. KeepsAdvance(g, k)
  BY DEF KeepsAdvance
<1>2. RunsAtMost(g, k, id, action)
  <2> SUFFICES ASSUME NEW i \in Running(k)
               PROVE  \/ i \in Running(g) /\ k.entries[i].action = g.entries[i].action
                      \/ i = id /\ k.entries[i].action = action
    BY DEF RunsAtMost
  <2>1. CASE i = id /\ k.entries[i].action = action
    BY <2>1
  <2>2. CASE i \in Running(h) /\ k.entries[i].action = h.entries[i].action
    BY <2>2 DEF RunsNoMore
  <2>3. QED  BY <2>1, <2>2 DEF RunsAtMost
<1>3. QED  BY <1>1, <1>2 DEF Sound

LEMMA SoundAlone ==
  ASSUME NEW g, NEW h \in Registry, SlotsAgree(h), RunsNoMore(g, h), KeepsAdvance(g, h),
         NEW id, NEW action
  PROVE  Sound(g, h, id, action)
BY DEF Sound, RunsNoMore, RunsAtMost

(* A move or a navigation takes the body over and then starts.             *)
LEMMA TakeOverAndStart ==
  ASSUME NEW g \in Registry, SlotsAgree(g), NEW id \in Ids, NEW span \in Nat,
         NEW action \in {"move", "navigate"},
         id \in Running(g) => g.entries[id].action = action
  PROVE  Sound(g, Started(TakenOver(g), id, action, span), id, action)
<1> DEFINE h == TakenOver(g)
           k == Started(h, id, action, span)
<1>1. /\ h \in Registry /\ SlotsAgree(h)
      /\ RunsNoMore(g, h) /\ KeepsAdvance(g, h)
      /\ ~ Occupied(h, "move") /\ ~ Occupied(h, "mine")
  BY TakenOverOK
<1>2. SlotOf(action) = "move" /\ action \in Ongoing
  BY DEF SlotOf, Ongoing
<1>3. id \notin Running(h)
  <2> SUFFICES ASSUME id \in Running(h) PROVE FALSE
    OBVIOUS
  <2>1. h.entries[id].action = action
    BY <1>1 DEF RunsNoMore
  <2>2. h.slots["move"] = id
    BY <1>1, <1>2, <2>1 DEF SlotsAgree, Slots
  <2>3. QED  BY <1>1, <2>2, NoneIsNoId DEF Occupied, Running
<1> HIDE DEF h
<1>4. k \in Registry
  BY <1>1, <1>2, StartedType
<1>5. SlotsAgree(k) /\ RunsAtMost(h, k, id, action)
  BY <1>1, <1>2, <1>3, StartedAgrees
<1>6. KeepsAdvance(h, k)
  BY <1>1, <1>2, <1>3, StartedKeepsAdvance
<1>7. QED  BY <1>1, <1>4, <1>5, <1>6, SoundSteps DEF h

(* A mine or a craft starts in a free slot, or in none.                    *)
LEMMA StartInPlace ==
  ASSUME NEW g \in Registry, SlotsAgree(g), NEW id \in Ids,
         NEW action \in {"mine", "craft"},
         action = "mine" => ~ Occupied(g, "mine"),
         id \in Running(g) => g.entries[id].action = action
  PROVE  Sound(g, Started(g, id, action, 0), id, action)
<1> DEFINE k == Started(g, id, action, 0)
<1>1. /\ action \in Ongoing
      /\ action = "mine" => SlotOf(action) = "mine"
      /\ action = "craft" => SlotOf(action) \notin Slots
  BY DEF SlotOf, Ongoing, Slots
<1>2. SlotOf(action) \in Slots => ~ Occupied(g, SlotOf(action))
  BY <1>1
<1>3. id \in Running(g) => SlotOf(g.entries[id].action) \notin Slots
  <2> SUFFICES ASSUME id \in Running(g), action = "mine" PROVE FALSE
    BY <1>1
  <2>1. g.slots["mine"] = id
    BY <1>1 DEF SlotsAgree, Slots
  <2>2. QED  BY <2>1, NoneIsNoId DEF Occupied, Running
<1>4. k \in Registry
  BY <1>1, StartedType
<1>5. SlotsAgree(k) /\ RunsAtMost(g, k, id, action)
  BY <1>1, <1>2, <1>3, StartedAgrees
<1>6. KeepsAdvance(g, k)
  BY <1>1, <1>3, StartedKeepsAdvance
<1>7. QED  BY <1>4, <1>5, <1>6 DEF Sound

(* What one cancel, or a batch with up to two, leaves behind.              *)
LEMMA CancelledUpTo2OK ==
  ASSUME NEW g \in Registry, SlotsAgree(g), NEW h \in CancelledUpTo2(g)
  PROVE  h \in Registry /\ SlotsAgree(h) /\ RunsNoMore(g, h) /\ KeepsAdvance(g, h)
<1>1. CASE h = g
  BY <1>1 DEF RunsNoMore, KeepsAdvance
<1>2. CASE \E id \in Cancellable(g) : h = CancelledBy(g, id)
  BY <1>2, CancelledByOK
<1>3. CASE \E id \in Cancellable(g) :
             \E jd \in Cancellable(CancelledBy(g, id)) :
               h = CancelledBy(CancelledBy(g, id), jd)
  <2>1. PICK id \in Cancellable(g) :
          \E jd \in Cancellable(CancelledBy(g, id)) : h = CancelledBy(CancelledBy(g, id), jd)
    BY <1>3
  <2> DEFINE k == CancelledBy(g, id)
  <2>2. k \in Registry /\ SlotsAgree(k) /\ RunsNoMore(g, k) /\ KeepsAdvance(g, k)
    BY CancelledByOK
  <2>3. PICK jd \in Cancellable(k) : h = CancelledBy(k, jd)
    BY <2>1
  <2> HIDE DEF k
  <2>4. h \in Registry /\ SlotsAgree(h) /\ RunsNoMore(k, h) /\ KeepsAdvance(k, h)
    BY <2>2, <2>3, CancelledByOK
  <2>5. QED  BY <2>2, <2>4 DEF RunsNoMore, KeepsAdvance
<1>4. QED  BY <1>1, <1>2, <1>3 DEF CancelledUpTo2

(* Every outcome of a dispatched action is sound.                          *)
LEMMA DispatchSound ==
  ASSUME NEW g \in Registry, SlotsAgree(g), NEW id \in Ids, NEW body \in Sent,
         id \in Running(g) => g.entries[id].action = body.action,
         NEW o \in Dispatch(g, id, body)
  PROVE  SoundOutcome(g, o, id, body.action)
<1> DEFINE a == body.action
<1>0. a \in Actions \cup {"none"} /\ body.span \in Nat
  BY DEF Sent
<1>1. \A h, s : \A w \in BOOLEAN :
        (Sound(g, h, id, a) /\ s \in {"running", "completed", "rejected"})
          => SoundOutcome(g, Outcome(h, s, w), id, a)
  BY DEF SoundOutcome, Outcome, States
<1>2. Sound(g, g, id, a)
  BY SoundAlone DEF RunsNoMore, KeepsAdvance
<1>3. CASE o \in Unharmed(g)
  BY <1>1, <1>2, <1>3 DEF Unharmed, Refused, Raised
<1>4. CASE a = "move" /\ o \in MoveOutcomes(g, id, body.span)
  <2>1. Sound(g, Started(TakenOver(g), id, "move", body.span), id, a)
    BY <1>0, <1>4, TakeOverAndStart
  <2>2. QED  BY <1>1, <1>4, <2>1 DEF MoveOutcomes, Runs
<1>5. CASE a = "navigate" /\ o \in NavigateOutcomes(g, id, body.span)
  <2>1. Sound(g, Started(TakenOver(g), id, "navigate", body.span), id, a)
    BY <1>0, <1>5, TakeOverAndStart
  <2>2. Sound(g, TakenOver(g), id, a)
    BY TakenOverOK, SoundAlone
  <2>3. QED  BY <1>1, <1>2, <1>5, <2>1, <2>2 DEF NavigateOutcomes, Runs, Done, Raised
<1>6. CASE a = "mine" /\ o \in MineOutcomes(g, id)
  <2>1. ~ Occupied(g, "mine") /\ o = Runs(Started(g, id, "mine", 0))
    BY <1>6 DEF MineOutcomes
  <2>2. Sound(g, Started(g, id, "mine", 0), id, a)
    BY <1>6, <2>1, StartInPlace
  <2>3. QED  BY <1>1, <2>1, <2>2 DEF Runs
<1>7. CASE a = "craft" /\ o \in CraftOutcomes(g, id)
  <2>1. Sound(g, Started(g, id, "craft", 0), id, a)
    BY <1>7, StartInPlace
  <2>2. QED  BY <1>1, <1>7, <2>1 DEF CraftOutcomes, Runs
<1>8. CASE o \in CancelOutcomes(g)
  <2>1. \A i \in Cancellable(g) : Sound(g, CancelledBy(g, i), id, a)
    BY CancelledByOK, SoundAlone
  <2>2. QED  BY <1>1, <1>8, <2>1 DEF CancelOutcomes, Done
<1>9. CASE o \in BatchOutcomes(g)
  <2>1. \A h \in CancelledUpTo2(g) : Sound(g, h, id, a)
    BY CancelledUpTo2OK, SoundAlone
  <2>2. QED  BY <1>1, <1>9, <2>1 DEF BatchOutcomes, Done, Refused
<1>10. CASE o \in InstantOutcomes(g)
  BY <1>1, <1>2, <1>10 DEF InstantOutcomes, Done, Raised
<1>11. QED
  BY <1>0, <1>3, <1>4, <1>5, <1>6, <1>7, <1>8, <1>9, <1>10 DEF Dispatch, Actions

-----------------------------------------------------------------------------
(* Initially nothing runs, nothing is known and nothing was applied.       *)
LEMMA InitOK == Init => IInv
<1> SUFFICES ASSUME Init PROVE IInv
  OBVIOUS
<1>1. reg \in Registry /\ SlotsAgree(reg) /\ Running(reg) = {}
  BY EmptyRegistryOK DEF Init
<1>2. ledger \in LedgerValue
  BY EmptyLedgerOK DEF Init
<1>3. sent \in [Requests -> Sent]
  BY DEF Init, Unsent, Sent, Types
<1>4. TypeOK
  <2>1. paused \in BOOLEAN /\ freeRunning \in BOOLEAN /\ episode \in Nat
    BY DEF Init
  <2>2. applied \in [Requests -> 0 .. 2] /\ forgotten \subseteq Ids
    BY DEF Init
  <2>3. QED  BY <1>1, <1>2, <1>3, <2>1, <2>2 DEF TypeOK
<1>5. RegistryInv
  BY <1>1 DEF RegistryInv, OneOperationPerSlot, RunningAsAsked, RunningBelongsToEpisode
<1>6. PausedBetweenDecisions
  BY DEF Init, PausedBetweenDecisions
<1>7. MemoryInv
  BY DEF Init, MemoryInv, AppliedRemembered, AtMostOnce, Unsent
<1>8. QED  BY <1>4, <1>5, <1>6, <1>7 DEF IInv

(* A handler that ran and whose record is stored keeps the memory of it;   *)
(* every other request keeps its own or is forgotten.                      *)
LEMMA MemoryKept ==
  ASSUME TypeOK, MemoryInv, NEW r \in Requests, sent[r].type # "none",
         sent[r].ep = episode, ~ Known(ledger, Top(r)), Ran(r),
         NEW L \in LedgerValue, StoreAll(L), Known(L, Top(r)),
         episode' = episode, sent' = sent
  PROVE  /\ MemoryInv'
         /\ ledger' \in LedgerValue /\ forgotten' \subseteq Ids
         /\ applied' \in [Requests -> 0 .. 2]
<1>1. \A q \in Requests : Top(q) \in Ids
  BY DEF Top, Ids
<1>2. /\ ledger' = L /\ forgotten' \subseteq Ids
      /\ forgotten \subseteq forgotten'
      /\ \A k \in Ids : Known(ledger, k) => Known(L, k) \/ k \in forgotten'
  BY DEF StoreAll, TypeOK
<1>3. /\ applied' \in [Requests -> 0 .. 2]
      /\ \A q \in Requests : q # r => applied'[q] = applied[q]
      /\ applied'[r] > 1 => applied[r] > 0
  BY DEF Ran, TypeOK
<1>4. AppliedRemembered'
  BY <1>1, <1>2, <1>3 DEF MemoryInv, AppliedRemembered
<1>5. AtMostOnce'
  <2> SUFFICES ASSUME NEW q \in Requests, applied'[q] > 1
               PROVE  Top(q) \in forgotten'
    BY DEF AtMostOnce
  <2>1. CASE q # r
    BY <2>1, <1>2, <1>3 DEF MemoryInv, AtMostOnce
  <2>2. CASE q = r
    <3>1. applied[r] > 0
      BY <2>2, <1>3
    <3>2. episode \in Nat
      BY DEF TypeOK
    <3>3. Top(r) \in forgotten
      BY <3>1, <3>2 DEF MemoryInv, AppliedRemembered
    <3>4. QED  BY <2>2, <3>3, <1>2
  <2>3. QED  BY <2>1, <2>2
<1>6. QED  BY <1>2, <1>3, <1>4, <1>5 DEF MemoryInv

(* The same of one answer.                                                 *)
LEMMA AnswerKept ==
  ASSUME TypeOK, MemoryInv, NEW r \in Requests, NEW type \in Types \ {"none"},
         Accepted(r, type), Ran(r),
         NEW state \in States \ {"unknown"},
         Answer(r, type, state),
         episode' = episode, sent' = sent
  PROVE  /\ MemoryInv'
         /\ ledger' \in LedgerValue /\ forgotten' \subseteq Ids
         /\ applied' \in [Requests -> 0 .. 2]
<1> DEFINE rec == Fresh(type, state)
           L == Stored(ledger, Top(r), rec)
<1>1. Top(r) \in Ids
  BY DEF Top, Ids
<1>2. rec \in Record /\ rec.state # "unknown"
  BY FreshOK DEF Fresh
<1>3. L \in LedgerValue /\ L.of[Top(r)] = rec
  BY <1>1, <1>2, StoredOK DEF TypeOK
<1>4. Known(L, Top(r))
  BY <1>2, <1>3 DEF Known
<1>5. StoreAll(L)
  BY DEF Answer
<1> HIDE DEF L
<1>6. QED  BY <1>3, <1>4, <1>5, MemoryKept DEF Accepted

(* A registry that gained at most what an accepted request asked for.      *)
LEMMA RegistryKept ==
  ASSUME TypeOK, RegistryInv, NEW id \in Ids,
         sent[id[1]].type # "none", sent[id[1]].ep = episode,
         Sound(reg, reg', id, AskedFor(id)),
         episode' = episode, sent' = sent
  PROVE  reg' \in Registry /\ RegistryInv'
<1>1. reg' \in Registry /\ OneOperationPerSlot'
  BY DEF Sound, OneOperationPerSlot
<1>2. \A i \in Running(reg') :
        \/ i \in Running(reg) /\ reg'.entries[i].action = reg.entries[i].action
        \/ i = id /\ reg'.entries[i].action = AskedFor(i)
  BY DEF Sound, RunsAtMost
<1>3. \A i : AskedFor(i)' = AskedFor(i)
  BY DEF AskedFor
<1>4. RunningAsAsked'
  <2> SUFFICES ASSUME NEW i \in Running(reg')
               PROVE  sent[i[1]].type # "none" /\ reg'.entries[i].action = AskedFor(i)
    BY <1>3 DEF RunningAsAsked
  <2>1. CASE i = id
    <3>1. CASE reg'.entries[i].action = AskedFor(i)
      BY <2>1, <3>1
    <3>2. CASE i \in Running(reg) /\ reg'.entries[i].action = reg.entries[i].action
      BY <2>1, <3>2 DEF RegistryInv, RunningAsAsked
    <3>3. QED  BY <1>2, <3>1, <3>2
  <2>2. CASE i # id
    BY <1>2, <2>2 DEF RegistryInv, RunningAsAsked
  <2>3. QED  BY <2>1, <2>2
<1>5. RunningBelongsToEpisode'
  BY <1>2 DEF RegistryInv, RunningBelongsToEpisode
<1>6. QED  BY <1>1, <1>4, <1>5 DEF RegistryInv

(* A registry in which nothing new runs.                                   *)
LEMMA RegistryShrunk ==
  ASSUME RegistryInv, reg' \in Registry, SlotsAgree(reg'), RunsNoMore(reg, reg'),
         episode' = episode, sent' = sent
  PROVE  RegistryInv'
<1>1. \A i : AskedFor(i)' = AskedFor(i)
  BY DEF AskedFor
<1>2. RunningAsAsked'
  BY <1>1 DEF RegistryInv, RunningAsAsked, RunsNoMore
<1>3. QED
  BY <1>2 DEF RegistryInv, OneOperationPerSlot, RunningBelongsToEpisode, RunsNoMore

(* A new episode: nothing runs, the clock follows the free-running flag,   *)
(* and the one record known is the request's own.                          *)
LEMMA BeginEpisodeOK ==
  ASSUME IInv, NEW r \in Requests, NEW type \in Types \ {"none"},
         Accepted(r, type), Ran(r), BeginEpisode(r, type),
         reg' \in Registry, SlotsAgree(reg'), Running(reg') = {},
         UNCHANGED <<freeRunning, sent>>
  PROVE  IInv'
<1> DEFINE rec == Fresh(type, "completed")
           L == Stored(EmptyLedger, Top(r), rec)
<1>1. \A q \in Requests : Top(q) \in Ids
  BY DEF Top, Ids
<1>2. TypeOK /\ MemoryInv
  BY DEF IInv
<1>3. EmptyLedger \in LedgerValue /\ rec \in Record
  <2>1. "completed" \in States
    BY DEF States
  <2>2. QED  BY <2>1, EmptyLedgerOK, FreshOK
<1>4. ledger' \in LedgerValue
  BY <1>1, <1>3, StoredOK DEF BeginEpisode
<1>5. applied' \in [Requests -> 0 .. 2]
  BY <1>2 DEF Ran, TypeOK
<1>6. episode \in Nat /\ episode' = episode + 1 /\ forgotten' = forgotten
      /\ paused' = ~ freeRunning /\ freeRunning' = freeRunning /\ sent' = sent
  BY <1>2 DEF TypeOK, BeginEpisode
<1>7. TypeOK'
  BY <1>2, <1>4, <1>5, <1>6 DEF TypeOK
<1>8. RegistryInv'
  BY DEF RegistryInv, OneOperationPerSlot, RunningAsAsked, RunningBelongsToEpisode
<1>9. PausedBetweenDecisions'
  <2>1. CASE freeRunning = TRUE
    BY <1>6, <2>1 DEF PausedBetweenDecisions
  <2>2. CASE freeRunning = FALSE
    <3>1. paused' = TRUE
      BY <1>6, <2>2
    <3>2. QED  BY <3>1 DEF PausedBetweenDecisions
  <2>3. QED  BY <1>2, <2>1, <2>2 DEF TypeOK
<1>10. /\ \A q \in Requests : q # r => applied'[q] = applied[q]
       /\ applied'[r] > 1 => applied[r] > 0
  BY <1>2 DEF Ran, TypeOK
<1>11. sent \in [Requests -> Sent] /\ \A q \in Requests : sent[q].ep \in Nat
  BY <1>2 DEF TypeOK, Sent
<1>12. AppliedRemembered'
  <2> SUFFICES ASSUME NEW q \in Requests
               PROVE  /\ sent[q].ep <= episode + 1
                      /\ applied'[q] > 0 => sent[q].type # "none" /\ sent[q].ep < episode + 1
    BY <1>6 DEF AppliedRemembered
  <2>1. sent[q].ep <= episode
    BY <1>2 DEF MemoryInv, AppliedRemembered
  <2>2. applied'[q] > 0 => sent[q].type # "none"
    BY <1>2, <1>10 DEF MemoryInv, AppliedRemembered, Accepted
  <2>3. QED  BY <1>6, <1>11, <2>1, <2>2
<1>13. AtMostOnce'
  <2> SUFFICES ASSUME NEW q \in Requests, applied'[q] > 1
               PROVE  Top(q) \in forgotten
    BY <1>6 DEF AtMostOnce
  <2>1. CASE q # r
    BY <1>2, <1>10, <2>1 DEF MemoryInv, AtMostOnce
  <2>2. CASE q = r
    BY <1>2, <1>6, <1>10, <2>2 DEF MemoryInv, AppliedRemembered, Accepted
  <2>3. QED  BY <2>1, <2>2
<1>14. QED  BY <1>7, <1>8, <1>9, <1>12, <1>13 DEF IInv, MemoryInv

-----------------------------------------------------------------------------
(* A request is issued under an episode there has been: Issue names the    *)
(* current one, a session the one it last heard of.                        *)
Names(r, body, ep) ==
  /\ sent[r] = Unsent
  /\ sent' = [sent EXCEPT ![r] = [type |-> body.type, action |-> body.action,
                                  span |-> body.span, ticks |-> body.ticks,
                                  ep |-> ep]]
  /\ UNCHANGED <<episode, ledger, reg, paused, freeRunning, applied, forgotten>>

LEMMA IssueNames ==
  ASSUME NEW r, NEW body, Issue(r, body)
  PROVE  Names(r, body, episode)
BY DEF Issue, Names

(* Issuing a request runs nothing: the id it takes was never used.         *)
LEMMA IssueOK ==
  ASSUME IInv, NEW r \in Requests, NEW body \in Bodies, NEW ep \in Nat, ep <= episode,
         Names(r, body, ep)
  PROVE  IInv'
<1>1. body \in Body
  OBVIOUS
<1>2. /\ sent[r] = Unsent /\ episode \in Nat
      /\ sent' = [sent EXCEPT ![r] = [type |-> body.type, action |-> body.action,
                                      span |-> body.span, ticks |-> body.ticks,
                                      ep |-> ep]]
      /\ UNCHANGED <<episode, ledger, reg, paused, freeRunning, applied, forgotten>>
  BY DEF Names, IInv, TypeOK
<1>3. [type |-> body.type, action |-> body.action, span |-> body.span,
       ticks |-> body.ticks, ep |-> ep] \in Sent
  BY <1>1, <1>2 DEF Body, Sent
<1>4. sent' \in [Requests -> Sent]
  BY <1>2, <1>3 DEF IInv, TypeOK
<1>5. TypeOK'
  BY <1>2, <1>4 DEF IInv, TypeOK
<1>6. sent[r].type = "none"
  BY <1>2 DEF Unsent
<1>7. /\ \A q \in Requests : q # r => sent'[q] = sent[q]
      /\ sent'[r].ep = ep
  BY <1>2 DEF IInv, TypeOK
<1>8. \A i \in Running(reg) : i[1] \in Requests /\ i[1] # r /\ sent'[i[1]] = sent[i[1]]
  BY <1>6, <1>7 DEF IInv, RegistryInv, RunningAsAsked, Running, Ids
<1>9. RegistryInv'
  <2>1. \A i \in Running(reg) : AskedFor(i)' = AskedFor(i)
    BY <1>8 DEF AskedFor
  <2>2. RunningAsAsked'
    BY <1>2, <1>8, <2>1 DEF IInv, RegistryInv, RunningAsAsked
  <2>3. RunningBelongsToEpisode'
    BY <1>2, <1>8 DEF IInv, RegistryInv, RunningBelongsToEpisode
  <2>4. QED  BY <1>2, <2>2, <2>3 DEF IInv, RegistryInv, OneOperationPerSlot
<1>10. PausedBetweenDecisions'
  BY <1>2 DEF IInv, PausedBetweenDecisions
<1>11. AppliedRemembered'
  BY <1>2, <1>6, <1>7 DEF IInv, MemoryInv, AppliedRemembered
<1>12. AtMostOnce'
  BY <1>2 DEF IInv, MemoryInv, AtMostOnce
<1>13. QED  BY <1>5, <1>9, <1>10, <1>11, <1>12 DEF IInv, MemoryInv

(* An accepted request's ids, and what runs under them if anything does.   *)
LEMMA AcceptedRequest ==
  ASSUME IInv, NEW r \in Requests, NEW type \in Types \ {"none"}, Accepted(r, type)
  PROVE  /\ Top(r) \in Ids /\ Act(r) \in Ids /\ Top(r)[1] = r /\ Act(r)[1] = r
         /\ sent[r] \in Sent /\ sent[r].type = type
         /\ type # "none" /\ sent[r].ep = episode
         /\ AskedFor(Top(r)) = IF type \in {"step", "advance"} THEN "advance"
                               ELSE sent[r].action
         /\ AskedFor(Act(r)) = sent[r].action
         /\ \A id \in {Top(r), Act(r)} :
              id \in Running(reg) => reg.entries[id].action = AskedFor(id)
<1>1. Top(r) \in Ids /\ Act(r) \in Ids
  BY DEF Top, Act, Ids
<1>2. Top(r)[1] = r /\ Act(r)[1] = r /\ Top(r)[2] = "top" /\ Act(r)[2] = "act"
  BY DEF Top, Act
<1>3. sent[r] \in Sent
  BY DEF IInv, TypeOK
<1>4. \A id \in {Top(r), Act(r)} :
        id \in Running(reg) => reg.entries[id].action = AskedFor(id)
  BY DEF IInv, RegistryInv, RunningAsAsked
<1>5. QED  BY <1>1, <1>2, <1>3, <1>4 DEF Accepted, AskedFor

(* Starting an interval in a free advance slot.                            *)
LEMMA AdvanceStarts ==
  ASSUME NEW g \in Registry, SlotsAgree(g), ~ Occupied(g, "advance"),
         NEW id \in Ids, NEW ticks \in Nat,
         id \in Running(g) => g.entries[id].action = "advance"
  PROVE  /\ Sound(g, Started(g, id, "advance", ticks), id, "advance")
         /\ Occupied(Started(g, id, "advance", ticks), "advance")
<1> DEFINE k == Started(g, id, "advance", ticks)
<1>1. "advance" \in Ongoing /\ SlotOf("advance") = "advance" /\ "advance" \in Slots
  BY DEF Ongoing, SlotOf, Slots
<1>2. id \notin Running(g)
  <2> SUFFICES ASSUME id \in Running(g) PROVE FALSE
    OBVIOUS
  <2>1. g.slots["advance"] = id
    BY <1>1 DEF SlotsAgree
  <2>2. QED  BY <2>1, NoneIsNoId DEF Occupied, Running
<1>3. k \in Registry
  BY <1>1, StartedType
<1>4. SlotsAgree(k) /\ RunsAtMost(g, k, id, "advance")
  BY <1>1, <1>2, StartedAgrees
<1>5. KeepsAdvance(g, k) /\ Occupied(k, "advance")
  BY <1>1, <1>2, StartedKeepsAdvance
<1>6. QED  BY <1>3, <1>4, <1>5 DEF Sound

(* An action other than an advance leaves a free advance slot free.        *)
LEMMA AdvanceStaysFree ==
  ASSUME NEW g \in Registry, SlotsAgree(g), ~ Occupied(g, "advance"),
         NEW h, NEW id, NEW action, Sound(g, h, id, action), action # "advance"
  PROVE  ~ Occupied(h, "advance")
<1> SUFFICES ASSUME Occupied(h, "advance") PROVE FALSE
  OBVIOUS
<1> DEFINE i == h.slots["advance"]
<1>1. "advance" \in Slots /\ SlotOf("advance") = "advance"
  BY DEF Slots, SlotOf
<1>2. i # None /\ i \in Ids \cup {None}
  BY <1>1 DEF Occupied, Sound, Registry
<1>3. i \in Running(h) /\ SlotOf(h.entries[i].action) = "advance"
  BY <1>1, <1>2 DEF Occupied, Running, Sound, SlotsAgree
<1>4. h.entries[i].action = "advance"
  BY <1>3 DEF SlotOf
<1>5. i \in Running(g) /\ g.entries[i].action = "advance"
  BY <1>3, <1>4 DEF Sound, RunsAtMost
<1>6. g.slots["advance"] = i
  BY <1>1, <1>5 DEF SlotsAgree
<1>7. QED  BY <1>2, <1>5, <1>6 DEF Occupied, Running

(* The parts of the invariant put together after a handler's answer.       *)
LEMMA HandlerOK ==
  ASSUME IInv,
         reg' \in Registry /\ RegistryInv',
         MemoryInv' /\ ledger' \in LedgerValue /\ forgotten' \subseteq Ids
           /\ applied' \in [Requests -> 0 .. 2],
         paused' \in BOOLEAN, PausedBetweenDecisions',
         UNCHANGED <<episode, freeRunning, sent>>
  PROVE  IInv'
BY DEF IInv, TypeOK

(* handle_advance.                                                         *)
LEMMA AdvanceOK ==
  ASSUME IInv, NEW r \in Requests, Advance(r)
  PROVE  IInv'
<1> DEFINE id == Top(r)
<1>0. /\ TypeOK /\ RegistryInv /\ MemoryInv /\ PausedBetweenDecisions
      /\ reg \in Registry /\ SlotsAgree(reg) /\ paused \in BOOLEAN
  BY DEF IInv, RegistryInv, OneOperationPerSlot, TypeOK
<1>1. /\ Accepted(r, "advance") /\ Ran(r) /\ "advance" \in Types \ {"none"}
      /\ UNCHANGED <<episode, freeRunning, sent>>
  BY DEF Advance, Types
<1>2. /\ id \in Ids /\ id[1] = r /\ AskedFor(id) = "advance"
      /\ sent[r] \in Sent /\ sent[r].type # "none" /\ sent[r].ep = episode
      /\ id \in Running(reg) => reg.entries[id].action = "advance"
  BY <1>1, AcceptedRequest
<1>3. CASE /\ ~ Occupied(reg, "advance")
           /\ reg' = Started(reg, id, "advance", sent[r].ticks)
           /\ paused' = FALSE
           /\ Answer(r, "advance", "running")
  <2>1. sent[r].ticks \in Nat
    BY <1>2 DEF Sent
  <2>2. Sound(reg, reg', id, "advance") /\ Occupied(reg', "advance")
    BY <1>0, <1>2, <1>3, <2>1, AdvanceStarts
  <2>3. reg' \in Registry /\ RegistryInv'
    BY <1>0, <1>1, <1>2, <2>2, RegistryKept
  <2>4. MemoryInv' /\ ledger' \in LedgerValue /\ forgotten' \subseteq Ids
        /\ applied' \in [Requests -> 0 .. 2]
    <3>1. "running" \in States \ {"unknown"}
      BY DEF States
    <3>2. QED  BY <1>0, <1>1, <1>3, <3>1, AnswerKept
  <2>5. PausedBetweenDecisions'
    BY <2>2 DEF PausedBetweenDecisions
  <2>6. QED  BY <1>1, <1>3, <2>3, <2>4, <2>5, HandlerOK
<1>4. CASE /\ Answer(r, "advance", "rejected")
           /\ UNCHANGED <<reg, paused>>
  <2>1. MemoryInv' /\ ledger' \in LedgerValue /\ forgotten' \subseteq Ids
        /\ applied' \in [Requests -> 0 .. 2]
    <3>1. "rejected" \in States \ {"unknown"}
      BY DEF States
    <3>2. QED  BY <1>0, <1>1, <1>4, <3>1, AnswerKept
  <2>2. RegistryInv'
    BY <1>0, <1>1, <1>4, RegistryShrunk DEF RunsNoMore
  <2>3. PausedBetweenDecisions'
    BY <1>0, <1>1, <1>4 DEF PausedBetweenDecisions
  <2>4. QED  BY <1>0, <1>1, <1>4, <2>1, <2>2, <2>3, HandlerOK
<1>5. QED  BY <1>3, <1>4 DEF Advance

(* An action on its own, by act.                                           *)
LEMMA ActAloneOK ==
  ASSUME IInv, NEW r \in Requests, ActAlone(r)
  PROVE  IInv'
<1> DEFINE id == Top(r)
<1>0. /\ TypeOK /\ RegistryInv /\ MemoryInv /\ PausedBetweenDecisions
      /\ reg \in Registry /\ SlotsAgree(reg) /\ paused \in BOOLEAN
  BY DEF IInv, RegistryInv, OneOperationPerSlot, TypeOK
<1>1. /\ Accepted(r, "act") /\ Ran(r) /\ "act" \in Types \ {"none"}
      /\ UNCHANGED <<episode, paused, freeRunning, sent>>
  BY DEF ActAlone, Types
<1>2. /\ id \in Ids /\ id[1] = r /\ AskedFor(id) = sent[r].action
      /\ sent[r] \in Sent /\ sent[r].type # "none" /\ sent[r].ep = episode
      /\ id \in Running(reg) => reg.entries[id].action = sent[r].action
  BY <1>1, AcceptedRequest
<1>3. PICK o \in Dispatch(reg, id, sent[r]) :
        reg' = o.reg /\ Answer(r, "act", o.state)
  BY DEF ActAlone
<1>4. SoundOutcome(reg, o, id, sent[r].action)
  BY <1>0, <1>2, DispatchSound
<1>5. reg' \in Registry /\ RegistryInv'
  BY <1>0, <1>1, <1>2, <1>3, <1>4, RegistryKept DEF SoundOutcome
<1>6. MemoryInv' /\ ledger' \in LedgerValue /\ forgotten' \subseteq Ids
      /\ applied' \in [Requests -> 0 .. 2]
  BY <1>0, <1>1, <1>3, <1>4, AnswerKept DEF SoundOutcome
<1>7. PausedBetweenDecisions'
  BY <1>0, <1>1, <1>3, <1>4 DEF PausedBetweenDecisions, SoundOutcome, Sound, KeepsAdvance
<1>8. QED  BY <1>0, <1>1, <1>5, <1>6, <1>7, HandlerOK

(* A step that is refused changes its own record.                          *)
LEMMA StepRefusedOK ==
  ASSUME IInv, NEW r \in Requests, StepRefused(r)
  PROVE  IInv'
<1>0. /\ TypeOK /\ RegistryInv /\ MemoryInv /\ PausedBetweenDecisions
      /\ reg \in Registry /\ SlotsAgree(reg) /\ paused \in BOOLEAN
  BY DEF IInv, RegistryInv, OneOperationPerSlot, TypeOK
<1>1. /\ Accepted(r, "step") /\ Ran(r) /\ Answer(r, "step", "rejected")
      /\ "step" \in Types \ {"none"} /\ "rejected" \in States \ {"unknown"}
      /\ UNCHANGED <<episode, reg, paused, freeRunning, sent>>
  BY DEF StepRefused, Types, States
<1>2. MemoryInv' /\ ledger' \in LedgerValue /\ forgotten' \subseteq Ids
      /\ applied' \in [Requests -> 0 .. 2]
  BY <1>0, <1>1, AnswerKept
<1>3. RegistryInv'
  BY <1>0, <1>1, RegistryShrunk DEF RunsNoMore
<1>4. PausedBetweenDecisions'
  BY <1>0, <1>1 DEF PausedBetweenDecisions
<1>5. QED  BY <1>0, <1>1, <1>2, <1>3, <1>4, HandlerOK

(* A step: the action under its own id, then the interval under the        *)
(* request's.                                                              *)
LEMMA StepOK ==
  ASSUME IInv, NEW r \in Requests, Step(r)
  PROVE  IInv'
<1> DEFINE act == Act(r)
           top == Top(r)
<1>0. /\ TypeOK /\ RegistryInv /\ MemoryInv /\ PausedBetweenDecisions
      /\ reg \in Registry /\ SlotsAgree(reg) /\ paused \in BOOLEAN
      /\ ledger \in LedgerValue
  BY DEF IInv, RegistryInv, OneOperationPerSlot, TypeOK
<1>1. /\ Accepted(r, "step") /\ Ran(r) /\ "step" \in Types \ {"none"}
      /\ ~ Occupied(reg, "advance")
      /\ UNCHANGED <<episode, freeRunning, sent>>
  BY DEF Step, Types
<1>2. /\ act \in Ids /\ act[1] = r /\ AskedFor(act) = sent[r].action
      /\ top \in Ids /\ top[1] = r /\ AskedFor(top) = "advance"
      /\ sent[r] \in Sent /\ sent[r].type # "none" /\ sent[r].ep = episode
      /\ act \in Running(reg) => reg.entries[act].action = sent[r].action
      /\ top \in Running(reg) => reg.entries[top].action = "advance"
  BY <1>1, AcceptedRequest
<1>3. PICK o \in Dispatch(reg, act, sent[r]) :
        \/ /\ o.threw
           /\ reg' = o.reg
           /\ Answer(r, "step", "rejected")
           /\ UNCHANGED paused
        \/ /\ ~ o.threw
           /\ reg' = Started(o.reg, top, "advance", sent[r].ticks)
           /\ StoreAll(Stored(Stored(ledger, act, Fresh("act", o.state)),
                              top, Fresh("step", "running")))
           /\ paused' = FALSE
  BY DEF Step
<1>4. SoundOutcome(reg, o, act, sent[r].action)
  BY <1>0, <1>2, DispatchSound
<1>5. CASE /\ reg' = o.reg
           /\ Answer(r, "step", "rejected")
           /\ UNCHANGED paused
  <2>1. reg' \in Registry /\ RegistryInv'
    BY <1>0, <1>1, <1>2, <1>4, <1>5, RegistryKept DEF SoundOutcome
  <2>2. MemoryInv' /\ ledger' \in LedgerValue /\ forgotten' \subseteq Ids
        /\ applied' \in [Requests -> 0 .. 2]
    <3>1. "rejected" \in States \ {"unknown"}
      BY DEF States
    <3>2. QED  BY <1>0, <1>1, <1>4, <1>5, <3>1, AnswerKept DEF SoundOutcome
  <2>3. PausedBetweenDecisions'
    BY <1>0, <1>1, <1>4, <1>5 DEF PausedBetweenDecisions, SoundOutcome, Sound, KeepsAdvance
  <2>4. QED  BY <1>0, <1>1, <1>5, <2>1, <2>2, <2>3, HandlerOK
<1>6. CASE /\ reg' = Started(o.reg, top, "advance", sent[r].ticks)
           /\ StoreAll(Stored(Stored(ledger, act, Fresh("act", o.state)),
                              top, Fresh("step", "running")))
           /\ paused' = FALSE
  <2>1. sent[r].ticks \in Nat /\ sent[r].action # "advance"
    BY <1>2 DEF Sent, Actions
  <2>2. /\ o.reg \in Registry /\ SlotsAgree(o.reg)
        /\ RunsAtMost(reg, o.reg, act, sent[r].action)
        /\ o.state \in States \ {"unknown"}
    BY <1>4 DEF SoundOutcome, Sound
  <2>3. ~ Occupied(o.reg, "advance")
    BY <1>0, <1>1, <1>4, <2>1, AdvanceStaysFree DEF SoundOutcome
  <2>4. top \in Running(o.reg) => o.reg.entries[top].action = "advance"
    <3>1. top # act
      BY DEF Top, Act
    <3>2. QED  BY <1>2, <2>2, <3>1 DEF RunsAtMost
  <2>5. Sound(o.reg, reg', top, "advance") /\ Occupied(reg', "advance")
    BY <1>2, <1>6, <2>1, <2>2, <2>3, <2>4, AdvanceStarts
  <2>6. reg' \in Registry /\ RegistryInv'
    <3>1. reg' \in Registry /\ SlotsAgree(reg')
      BY <2>5 DEF Sound
    <3>2. \A i \in Running(reg') :
            \/ i \in Running(reg) /\ reg'.entries[i].action = reg.entries[i].action
            \/ i \in {act, top} /\ reg'.entries[i].action = AskedFor(i)
      BY <1>2, <2>2, <2>5 DEF Sound, RunsAtMost
    <3>3. \A i : AskedFor(i)' = AskedFor(i)
      BY <1>1 DEF AskedFor
    <3>4. RunningAsAsked'
      BY <1>0, <1>1, <1>2, <3>2, <3>3 DEF RegistryInv, RunningAsAsked
    <3>5. RunningBelongsToEpisode'
      BY <1>0, <1>1, <1>2, <3>2 DEF RegistryInv, RunningBelongsToEpisode
    <3>6. QED  BY <3>1, <3>4, <3>5 DEF RegistryInv, OneOperationPerSlot
  <2>7. MemoryInv' /\ ledger' \in LedgerValue /\ forgotten' \subseteq Ids
        /\ applied' \in [Requests -> 0 .. 2]
    <3> DEFINE first == Fresh("act", o.state)
               second == Fresh("step", "running")
               L == Stored(Stored(ledger, act, first), top, second)
    <3>1. first \in Record /\ second \in Record /\ second.state # "unknown"
      <4>1. "act" \in Types /\ "step" \in Types /\ "running" \in States
        BY DEF Types, States
      <4>2. QED  BY <2>2, <4>1, FreshOK DEF Fresh
    <3> HIDE DEF first, second
    <3>2. Stored(ledger, act, first) \in LedgerValue
      BY <1>0, <1>2, <3>1, StoredOK
    <3>3. L \in LedgerValue /\ L.of[top] = second
      BY <1>2, <3>1, <3>2, StoredOK
    <3>4. Known(L, top) /\ StoreAll(L)
      BY <1>6, <3>1, <3>3 DEF Known, first, second
    <3> HIDE DEF L
    <3>5. QED  BY <1>0, <1>1, <1>2, <3>3, <3>4, MemoryKept DEF Accepted
  <2>8. PausedBetweenDecisions'
    BY <2>5 DEF PausedBetweenDecisions
  <2>9. QED  BY <1>1, <1>6, <2>6, <2>7, <2>8, HandlerOK
<1>7. QED  BY <1>3, <1>5, <1>6

(* The pending lists dropped, by a reset that is then refused, or kept, by *)
(* a resumed world.                                                        *)
LEMMA PendingDroppedOK ==
  ASSUME NEW g \in Registry, SlotsAgree(g)
  PROVE  LET h == PendingDropped(g)
         IN  /\ h \in Registry /\ SlotsAgree(h) /\ RunsNoMore(g, h)
             /\ Occupied(g, "advance") => Occupied(h, "advance")
<1> DEFINE h == PendingDropped(g)
<1>1. h \in Registry /\ h.entries = g.entries /\ h.slots = g.slots
  BY DEF PendingDropped, Registry
<1>2. QED  BY <1>1, PendingIsFree DEF Slots

(* handle_reset.                                                           *)
LEMMA ResetOK ==
  ASSUME IInv, NEW r \in Requests, Reset(r)
  PROVE  IInv'
<1>0. /\ TypeOK /\ RegistryInv /\ MemoryInv /\ PausedBetweenDecisions
      /\ reg \in Registry /\ SlotsAgree(reg) /\ paused \in BOOLEAN
  BY DEF IInv, RegistryInv, OneOperationPerSlot, TypeOK
<1>1. /\ Accepted(r, "reset") /\ Ran(r) /\ "reset" \in Types \ {"none"}
      /\ UNCHANGED <<freeRunning, sent>>
  BY DEF Reset, Types
<1>2. CASE BeginEpisode(r, "reset") /\ reg' = EmptyRegistry
  BY <1>1, <1>2, EmptyRegistryOK, BeginEpisodeOK
<1>3. CASE /\ reg' \in {reg, PendingDropped(reg)}
           /\ Answer(r, "reset", "rejected")
           /\ UNCHANGED <<episode, paused>>
  <2>2. MemoryInv' /\ ledger' \in LedgerValue /\ forgotten' \subseteq Ids
        /\ applied' \in [Requests -> 0 .. 2]
    <3>1. "rejected" \in States \ {"unknown"}
      BY DEF States
    <3>2. QED  BY <1>0, <1>1, <1>3, <3>1, AnswerKept
  <2>3. /\ reg' \in Registry /\ SlotsAgree(reg') /\ RunsNoMore(reg, reg')
        /\ Occupied(reg, "advance") => Occupied(reg', "advance")
    <3>1. CASE reg' = PendingDropped(reg)  BY <1>0, <3>1, PendingDroppedOK
    <3>2. CASE reg' = reg  BY <1>0, <3>2 DEF RunsNoMore
    <3>3. QED  BY <1>3, <3>1, <3>2
  <2>4. RegistryInv'
    BY <1>0, <1>1, <1>3, <2>3, RegistryShrunk
  <2>5. PausedBetweenDecisions'
    BY <1>0, <1>1, <1>3, <2>3 DEF PausedBetweenDecisions
  <2>6. QED  BY <1>0, <1>1, <1>3, <2>2, <2>3, <2>4, <2>5, HandlerOK
<1>4. QED  BY <1>2, <1>3 DEF Reset

(* handle_open_world.                                                      *)
LEMMA OpenWorldOK ==
  ASSUME IInv, NEW r \in Requests, OpenWorld(r)
  PROVE  IInv'
<1> DEFINE kept == [EmptyRegistry EXCEPT !.superseded = reg.superseded,
                                         !.cancelled = reg.cancelled]
<1>0. /\ TypeOK /\ RegistryInv /\ MemoryInv /\ PausedBetweenDecisions
      /\ reg \in Registry /\ SlotsAgree(reg) /\ paused \in BOOLEAN
  BY DEF IInv, RegistryInv, OneOperationPerSlot, TypeOK
<1>1. /\ Accepted(r, "open_world") /\ Ran(r) /\ "open_world" \in Types \ {"none"}
      /\ UNCHANGED <<freeRunning, sent>>
  BY DEF OpenWorld, Types
<1>2. CASE BeginEpisode(r, "open_world") /\ (reg' = EmptyRegistry \/ reg' = kept)
  <2>1. /\ EmptyRegistry \in Registry /\ SlotsAgree(EmptyRegistry)
        /\ Running(EmptyRegistry) = {}
    BY EmptyRegistryOK
  <2>2. kept \in Registry
    BY <1>0, <2>1 DEF Registry
  <2>3. kept.entries = EmptyRegistry.entries /\ kept.slots = EmptyRegistry.slots
    BY DEF EmptyRegistry
  <2>4. SlotsAgree(kept) /\ Running(kept) = {}
    <3> HIDE DEF kept
    <3>1. QED  BY <2>1, <2>3, PendingIsFree
  <2> HIDE DEF kept
  <2>5. reg' \in Registry /\ SlotsAgree(reg') /\ Running(reg') = {}
    BY <1>2, <2>1, <2>2, <2>4
  <2>6. QED  BY <1>1, <1>2, <2>5, BeginEpisodeOK
<1>3. CASE /\ reg' \in {reg, PendingDropped(reg)}
           /\ Answer(r, "open_world", "rejected")
           /\ UNCHANGED <<episode, paused>>
  <2>2. MemoryInv' /\ ledger' \in LedgerValue /\ forgotten' \subseteq Ids
        /\ applied' \in [Requests -> 0 .. 2]
    <3>1. "rejected" \in States \ {"unknown"}
      BY DEF States
    <3>2. QED  BY <1>0, <1>1, <1>3, <3>1, AnswerKept
  <2>3. /\ reg' \in Registry /\ SlotsAgree(reg') /\ RunsNoMore(reg, reg')
        /\ Occupied(reg, "advance") => Occupied(reg', "advance")
    <3>1. CASE reg' = PendingDropped(reg)  BY <1>0, <3>1, PendingDroppedOK
    <3>2. CASE reg' = reg  BY <1>0, <3>2 DEF RunsNoMore
    <3>3. QED  BY <1>3, <3>1, <3>2
  <2>4. RegistryInv'
    BY <1>0, <1>1, <1>3, <2>3, RegistryShrunk
  <2>5. PausedBetweenDecisions'
    BY <1>0, <1>1, <1>3, <2>3 DEF PausedBetweenDecisions
  <2>6. QED  BY <1>0, <1>1, <1>3, <2>2, <2>3, <2>4, <2>5, HandlerOK
<1>4. QED  BY <1>2, <1>3 DEF OpenWorld

(* handle_disrupt and handle_save.                                         *)
LEMMA OtherMutationOK ==
  ASSUME IInv, NEW r \in Requests, OtherMutation(r)
  PROVE  IInv'
<1>0. /\ TypeOK /\ RegistryInv /\ MemoryInv /\ PausedBetweenDecisions
      /\ reg \in Registry /\ SlotsAgree(reg) /\ paused \in BOOLEAN
  BY DEF IInv, RegistryInv, OneOperationPerSlot, TypeOK
<1>1. /\ Accepted(r, "other") /\ Ran(r) /\ "other" \in Types \ {"none"}
      /\ UNCHANGED <<episode, reg, paused, freeRunning, sent>>
  BY DEF OtherMutation, Types
<1>2. PICK state \in {"completed", "rejected"} : Answer(r, "other", state)
  BY DEF OtherMutation
<1>3. MemoryInv' /\ ledger' \in LedgerValue /\ forgotten' \subseteq Ids
      /\ applied' \in [Requests -> 0 .. 2]
  <2>1. state \in States \ {"unknown"}
    BY DEF States
  <2>2. QED  BY <1>0, <1>1, <1>2, <2>1, AnswerKept
<1>4. RegistryInv'
  BY <1>0, <1>1, RegistryShrunk DEF RunsNoMore
<1>5. PausedBetweenDecisions'
  BY <1>0, <1>1 DEF PausedBetweenDecisions
<1>6. QED  BY <1>0, <1>1, <1>3, <1>4, <1>5, HandlerOK

(* handle_configure sets the clock to the flag it sets.                    *)
LEMMA ConfigureOK ==
  ASSUME IInv, NEW on \in BOOLEAN, Configure(on)
  PROVE  IInv'
<1>1. /\ freeRunning' = on /\ paused' = ~ on
      /\ UNCHANGED <<episode, ledger, reg, sent, applied, forgotten>>
  BY DEF Configure
<1>2. freeRunning' \in BOOLEAN /\ paused' \in BOOLEAN
  BY <1>1
<1>3. TypeOK'
  BY <1>1, <1>2 DEF IInv, TypeOK
<1>4. \A i : AskedFor(i)' = AskedFor(i)
  BY <1>1 DEF AskedFor
<1>5. RegistryInv'
  BY <1>1, <1>4 DEF IInv, RegistryInv, OneOperationPerSlot, RunningAsAsked,
                   RunningBelongsToEpisode
<1>6. PausedBetweenDecisions'
  <2>1. CASE on = TRUE
    BY <1>1, <2>1 DEF PausedBetweenDecisions
  <2>2. CASE on = FALSE
    <3>1. paused' = TRUE
      BY <1>1, <2>2
    <3>2. QED  BY <3>1 DEF PausedBetweenDecisions
  <2>3. QED  BY <2>1, <2>2
<1>7. MemoryInv'
  BY <1>1 DEF IInv, MemoryInv, AppliedRemembered, AtMostOnce
<1>8. QED  BY <1>3, <1>5, <1>6, <1>7 DEF IInv

(* on_tick: the advance slot keeps its holder, or its interval ended and   *)
(* the clock follows the flag.                                             *)
LEMMA TickOK ==
  ASSUME IInv, Tick
  PROVE  IInv'
<1>0. /\ TypeOK /\ RegistryInv /\ MemoryInv /\ PausedBetweenDecisions
      /\ reg \in Registry /\ SlotsAgree(reg) /\ paused \in BOOLEAN
      /\ ledger \in LedgerValue /\ freeRunning \in BOOLEAN
  BY DEF IInv, RegistryInv, OneOperationPerSlot, TypeOK
<1>1. ~ paused /\ UNCHANGED <<episode, freeRunning, sent, applied, forgotten>>
  BY DEF Tick
<1>2. PICK polls \in Pollable(Running(reg)) :
        LET ended == {id \in Running(reg) : polls[id] # "running"}
            out   == [id \in ended |-> polls[id]]
        IN  /\ reg' = Polled(reg, out)
            /\ ledger' = Settled(Settled(Settled(ledger, out),
                                         AllCancelled(reg.superseded)),
                                 AllCancelled(reg.cancelled))
            /\ paused' = IF \E id \in ended : reg.entries[id].action = "advance"
                         THEN ~ freeRunning ELSE paused
  BY DEF Tick
<1> DEFINE ended == {id \in Running(reg) : polls[id] # "running"}
           out   == [id \in ended |-> polls[id]]
           L1 == Settled(ledger, out)
           L2 == Settled(L1, AllCancelled(reg.superseded))
           L3 == Settled(L2, AllCancelled(reg.cancelled))
<1>3. \A k \in DOMAIN out : out[k] \in States \ {"unknown"}
  BY DEF Pollable, States
<1>4. \A S : \A k \in DOMAIN AllCancelled(S) : AllCancelled(S)[k] \in States \ {"unknown"}
  BY DEF AllCancelled, States
<1>5. DOMAIN out = ended
  OBVIOUS
<1>6. reg' = Polled(reg, out) /\ ledger' = L3
  BY <1>2
<1>7. paused' = IF \E id \in ended : reg.entries[id].action = "advance"
                THEN ~ freeRunning ELSE paused
  BY <1>2
<1> HIDE DEF out
<1>8. L1 \in LedgerValue /\ \A k \in Ids : Known(L1, k) <=> Known(ledger, k)
  BY <1>0, <1>3, SettledOK
<1> HIDE DEF L1
<1>9. L2 \in LedgerValue /\ \A k \in Ids : Known(L2, k) <=> Known(L1, k)
  BY <1>4, <1>8, SettledOK
<1> HIDE DEF L2
<1>10. L3 \in LedgerValue /\ \A k \in Ids : Known(L3, k) <=> Known(L2, k)
  BY <1>4, <1>9, SettledOK
<1> HIDE DEF L3
<1>11. /\ reg' \in Registry /\ SlotsAgree(reg') /\ RunsNoMore(reg, reg')
       /\ reg.slots["advance"] \notin ended => KeepsAdvance(reg, reg')
  BY <1>0, <1>5, <1>6, PolledOK
<1>12. RegistryInv'
  BY <1>0, <1>1, <1>11, RegistryShrunk
<1>13. MemoryInv'
  <2>1. \A q \in Requests : Top(q) \in Ids
    BY DEF Top, Ids
  <2>2. \A q \in Requests : Known(ledger', Top(q)) <=> Known(ledger, Top(q))
    BY <1>6, <1>8, <1>9, <1>10, <2>1
  <2>3. QED  BY <1>0, <1>1, <2>2 DEF MemoryInv, AppliedRemembered, AtMostOnce
<1>14. CASE \E id \in ended : reg.entries[id].action = "advance"
  <2>1. paused' = ~ freeRunning /\ freeRunning' = freeRunning
    BY <1>1, <1>7, <1>14
  <2>2. paused' \in BOOLEAN
    BY <2>1
  <2>3. PausedBetweenDecisions'
    <3>1. CASE freeRunning = TRUE
      BY <2>1, <3>1 DEF PausedBetweenDecisions
    <3>2. CASE freeRunning = FALSE
      <4>1. paused' = TRUE
        BY <2>1, <3>2
      <4>2. QED  BY <4>1 DEF PausedBetweenDecisions
    <3>3. QED  BY <1>0, <3>1, <3>2
  <2>4. QED  BY <1>0, <1>1, <1>6, <1>10, <1>11, <1>12, <1>13, <2>2, <2>3 DEF IInv, TypeOK
<1>15. CASE ~ \E id \in ended : reg.entries[id].action = "advance"
  <2>1. paused' = paused
    BY <1>7, <1>15
  <2>2. PausedBetweenDecisions'
    <3>1. freeRunning \/ Occupied(reg, "advance")
      BY <1>0, <1>1 DEF PausedBetweenDecisions
    <3>2. CASE Occupied(reg, "advance")
      <4>1. SlotOf(reg.entries[reg.slots["advance"]].action) = "advance"
        BY <1>0, <3>2 DEF SlotsAgree, Slots, Occupied
      <4>2. reg.entries[reg.slots["advance"]].action = "advance"
        BY <4>1 DEF SlotOf
      <4>3. reg.slots["advance"] \notin ended
        BY <1>15, <4>2
      <4>4. QED  BY <1>11, <3>2, <4>3 DEF KeepsAdvance, PausedBetweenDecisions
    <3>3. CASE freeRunning
      BY <1>1, <3>3 DEF PausedBetweenDecisions
    <3>4. QED  BY <3>1, <3>2, <3>3
  <2>3. QED  BY <1>0, <1>1, <1>6, <1>10, <1>11, <1>12, <1>13, <2>1, <2>2 DEF IInv, TypeOK
<1>16. QED  BY <1>14, <1>15

-----------------------------------------------------------------------------
(* The invariant is inductive: one case per action of Next.                *)
LEMMA NextOK == IInv /\ [Next]_vars => IInv'
<1> SUFFICES ASSUME IInv, [Next]_vars PROVE IInv'
  OBVIOUS
<1>1. CASE \E r \in Requests, body \in Bodies : Issue(r, body)
  BY <1>1, IssueNames, IssueOK DEF IInv, TypeOK
<1>2. CASE \E r \in Requests : Handle(r)
  <2> PICK r \in Requests : Handle(r)
    BY <1>2
  <2>1. CASE Advance(r)        BY <2>1, AdvanceOK
  <2>2. CASE ActAlone(r)       BY <2>2, ActAloneOK
  <2>3. CASE StepRefused(r)    BY <2>3, StepRefusedOK
  <2>4. CASE Step(r)           BY <2>4, StepOK
  <2>5. CASE Reset(r)          BY <2>5, ResetOK
  <2>6. CASE OpenWorld(r)      BY <2>6, OpenWorldOK
  <2>7. CASE OtherMutation(r)  BY <2>7, OtherMutationOK
  <2>8. QED  BY <2>1, <2>2, <2>3, <2>4, <2>5, <2>6, <2>7 DEF Handle
<1>3. CASE \E on \in BOOLEAN : Configure(on)
  BY <1>3, ConfigureOK
<1>4. CASE Tick
  BY <1>4, TickOK
<1>5. CASE UNCHANGED vars
  <2>1. \A i : AskedFor(i)' = AskedFor(i)
    BY <1>5 DEF AskedFor, vars
  <2>2. RegistryInv'
    BY <1>5, <2>1 DEF vars, IInv, RegistryInv, OneOperationPerSlot, RunningAsAsked,
                     RunningBelongsToEpisode
  <2>3. TypeOK' /\ PausedBetweenDecisions'
    BY <1>5 DEF vars, IInv, TypeOK, PausedBetweenDecisions
  <2>4. MemoryInv'
    BY <1>5 DEF vars, IInv, MemoryInv, AppliedRemembered, AtMostOnce
  <2>5. QED  BY <2>2, <2>3, <2>4 DEF IInv
<1>6. QED  BY <1>1, <1>2, <1>3, <1>4, <1>5 DEF Next

(* The inductive invariant holds in every reachable state.                 *)
THEOREM Invariant == Spec => []IInv
BY InitOK, NextOK, PTL DEF Spec

(* Type correctness of the worker.                                         *)
THEOREM TypeCorrect == Spec => []TypeOK
<1>1. IInv => TypeOK
  BY DEF IInv
<1>2. QED  BY Invariant, <1>1, PTL

(* No two operations ever drive the same slot, and none is orphaned        *)
(* (inflight.lua start, finish, occupant; actions.lua take_over_body).     *)
THEOREM SlotsExclusive == Spec => []OneOperationPerSlot
<1>1. IInv => OneOperationPerSlot
  BY DEF IInv, RegistryInv
<1>2. QED  BY Invariant, <1>1, PTL

(* The world ticks only for an interval in flight or a caller who asked    *)
(* for a free-running world (runtime.lua begin_episode, on_tick).          *)
THEOREM ClockControlled == Spec => []PausedBetweenDecisions
<1>1. IInv => PausedBetweenDecisions
  BY DEF IInv
<1>2. QED  BY Invariant, <1>1, PTL

(* Nothing asked for in an earlier episode still runs: a reset leaves no   *)
(* operation of the old world behind (runtime.lua begin_episode).          *)
THEOREM EpisodesIsolated == Spec => []RunningBelongsToEpisode
<1>1. IInv => RunningBelongsToEpisode
  BY DEF IInv, RegistryInv
<1>2. QED  BY Invariant, <1>1, PTL

(* Delivered any number of times, late, or across resets, a request is     *)
(* applied once, as long as the ledger was never forced to forget it       *)
(* (runtime.lua handle_json).                                              *)
THEOREM AppliedAtMostOnce == Spec => []AtMostOnce
<1>1. IInv => AtMostOnce
  BY DEF IInv, MemoryInv
<1>2. QED  BY Invariant, <1>1, PTL

-----------------------------------------------------------------------------
(* The order lists every stored id once and never exceeds the limit.       *)
Listed(L) ==
  /\ Len(L.order) <= LedgerLimit
  /\ \A k \in Ids : Known(L, k) <=> \E i \in 1 .. Len(L.order) : L.order[i] = k
  /\ \A i, j \in 1 .. Len(L.order) : L.order[i] = L.order[j] => i = j

(* Wherever a stands in the order, b stands behind it.                     *)
Followed(L, a, b) ==
  \A i \in 1 .. Len(L.order) :
    L.order[i] = a => \E j \in i + 1 .. Len(L.order) : L.order[j] = b

(* The inner action of a step leaves the ledger before the step does.      *)
InnerFirst(L) == \A r \in Requests : Followed(L, Act(r), Top(r))

LedgerInv == Listed(ledger) /\ InnerFirst(ledger)

(* An operation that waits to be settled was issued, and its record still  *)
(* says it runs, unless it was forgotten or belongs to an earlier episode, *)
(* of which nothing is stored any more.                                    *)
PendingRemembered ==
  \A id \in Pending :
    /\ sent[id[1]].type # "none"
    /\ id \notin forgotten =>
         /\ ledger.of[id].state \in {"running", "unknown"}
         /\ sent[id[1]].ep = episode => ledger.of[id].state = "running"

(* Only an id that was forgotten, and started again, is both.              *)
RunsOrWaits == Running(reg) \cap Pending \subseteq forgotten

PInv == LedgerInv /\ RunningIsStoredRunning /\ PendingRemembered /\ RunsOrWaits

USE LimitAssumption, NoneIsNoId

-----------------------------------------------------------------------------
(* A sequence with an element behind it, and without its head.             *)
LEMMA AppendIndexed ==
  ASSUME NEW S, NEW s \in Seq(S), NEW e \in S
  PROVE  LET t == Append(s, e)
         IN  /\ t \in Seq(S) /\ Len(t) = Len(s) + 1
             /\ \A i \in 1 .. Len(s) : t[i] = s[i]
             /\ t[Len(t)] = e
OBVIOUS

LEMMA ShiftIndexed ==
  ASSUME NEW S, NEW s \in Seq(S), NEW e \in S, Len(s) >= 1
  PROVE  LET t == Append(Tail(s), e)
         IN  /\ t \in Seq(S) /\ Len(t) = Len(s)
             /\ \A i \in 1 .. Len(s) - 1 : t[i] = s[i + 1]
             /\ t[Len(t)] = e
<1>1. s # << >>
  OBVIOUS
<1>2. /\ Tail(s) \in Seq(S) /\ Len(Tail(s)) = Len(s) - 1
      /\ \A i \in 1 .. Len(s) - 1 : Tail(s)[i] = s[i + 1]
  BY <1>1
<1>3. Len(s) \in Nat
  OBVIOUS
<1> DEFINE u == Tail(s)
<1> HIDE DEF u
<1>4. QED  BY <1>2, <1>3, AppendIndexed DEF u

(* What ledger_store does to the order.                                    *)
LEMMA StoredOrder ==
  ASSUME NEW L \in LedgerValue, NEW k \in Ids, NEW rec \in Record, Listed(L)
  PROVE  LET M == Stored(L, k, rec)
         IN  \/ Known(L, k) /\ M.order = L.order
             \/ /\ ~ Known(L, k) /\ Len(L.order) < LedgerLimit
                /\ M.order \in Seq(Ids) /\ Len(M.order) = Len(L.order) + 1
                /\ \A i \in 1 .. Len(L.order) : M.order[i] = L.order[i]
                /\ M.order[Len(M.order)] = k
                /\ \A j \in Ids \ {k} : M.of[j] = L.of[j]
             \/ /\ ~ Known(L, k) /\ Len(L.order) = LedgerLimit
                /\ M.order \in Seq(Ids) /\ Len(M.order) = Len(L.order)
                /\ \A i \in 1 .. Len(L.order) - 1 : M.order[i] = L.order[i + 1]
                /\ M.order[Len(M.order)] = k
                /\ L.order[1] \in Ids
                /\ \A j \in Ids \ {k} :
                     M.of[j] = IF j = L.order[1] THEN NoRecord ELSE L.of[j]
<1> DEFINE M == Stored(L, k, rec)
<1>1. L.of \in [Ids -> Record] /\ L.order \in Seq(Ids) /\ Len(L.order) \in Nat
      /\ Len(L.order) <= LedgerLimit
  BY DEF LedgerValue, Listed
<1>2. CASE Known(L, k)
  BY <1>2 DEF Stored
<1>3. CASE ~ Known(L, k) /\ Len(L.order) < LedgerLimit
  <2>1. M = [of |-> [L.of EXCEPT ![k] = rec], order |-> Append(L.order, k)]
    BY <1>3 DEF Stored
  <2>2. M.order = Append(L.order, k) /\ M.of = [L.of EXCEPT ![k] = rec]
    BY <2>1
  <2> HIDE DEF M
  <2>3. \A j \in Ids \ {k} : M.of[j] = L.of[j]
    BY <1>1, <2>2
  <2>4. /\ M.order \in Seq(Ids) /\ Len(M.order) = Len(L.order) + 1
        /\ \A i \in 1 .. Len(L.order) : M.order[i] = L.order[i]
        /\ M.order[Len(M.order)] = k
    BY <1>1, <2>2, AppendIndexed
  <2>5. QED  BY <1>3, <2>3, <2>4 DEF M
<1>4. CASE ~ Known(L, k) /\ ~ (Len(L.order) < LedgerLimit)
  <2>1. Len(L.order) = LedgerLimit /\ L.order # << >> /\ Len(L.order) >= 1
    BY <1>1, <1>4
  <2>2. M = [of |-> [[L.of EXCEPT ![Head(L.order)] = NoRecord] EXCEPT ![k] = rec],
             order |-> Append(Tail(L.order), k)]
    BY <1>4 DEF Stored
  <2>3. /\ M.order = Append(Tail(L.order), k)
        /\ M.of = [[L.of EXCEPT ![Head(L.order)] = NoRecord] EXCEPT ![k] = rec]
    BY <2>2
  <2> HIDE DEF M
  <2>4. Head(L.order) = L.order[1] /\ L.order[1] \in Ids
    BY <1>1, <2>1
  <2>5. \A j \in Ids \ {k} : M.of[j] = IF j = L.order[1] THEN NoRecord ELSE L.of[j]
    BY <1>1, <2>3, <2>4
  <2>6. /\ M.order \in Seq(Ids) /\ Len(M.order) = Len(L.order)
        /\ \A i \in 1 .. Len(L.order) - 1 : M.order[i] = L.order[i + 1]
        /\ M.order[Len(M.order)] = k
    BY <1>1, <2>1, <2>3, ShiftIndexed
  <2>7. QED  BY <1>4, <2>1, <2>4, <2>5, <2>6 DEF M
<1>5. QED  BY <1>2, <1>3, <1>4

(* ledger_store keeps the order exact.                                     *)
LEMMA StoredListed ==
  ASSUME NEW L \in LedgerValue, NEW k \in Ids, NEW rec \in Record, Listed(L),
         rec.state # "unknown"
  PROVE  Listed(Stored(L, k, rec))
<1> DEFINE M == Stored(L, k, rec)
<1>1. M \in LedgerValue /\ Known(M, k)
  BY StoredOK DEF Known
<1>2. L.order \in Seq(Ids) /\ Len(L.order) \in Nat /\ LedgerLimit \in Nat
  BY DEF LedgerValue
<1>3. CASE Known(L, k) /\ M.order = L.order
  <2>1. \A j \in Ids : Known(M, j) <=> Known(L, j)
    BY <1>1, <1>3 DEF Stored, Known, LedgerValue
  <2>2. QED  BY <1>3, <2>1 DEF Listed
<1>4. CASE /\ ~ Known(L, k) /\ Len(L.order) < LedgerLimit
           /\ M.order \in Seq(Ids) /\ Len(M.order) = Len(L.order) + 1
           /\ \A i \in 1 .. Len(L.order) : M.order[i] = L.order[i]
           /\ M.order[Len(M.order)] = k
           /\ \A j \in Ids \ {k} : M.of[j] = L.of[j]
  <2> HIDE DEF M
  <2>1. \A i \in 1 .. Len(L.order) : L.order[i] # k
    BY <1>4 DEF Listed
  <2>2. ASSUME NEW j \in Ids
        PROVE  Known(M, j) <=> \E i \in 1 .. Len(M.order) : M.order[i] = j
    <3>1. CASE j = k
      BY <1>1, <1>2, <1>4, <3>1
    <3>2. CASE j # k
      <4>1. Known(M, j) <=> Known(L, j)
        BY <1>4, <3>2 DEF Known
      <4>2. Known(L, j) <=> \E i \in 1 .. Len(L.order) : L.order[i] = j
        BY DEF Listed
      <4>3. ASSUME NEW i \in 1 .. Len(L.order), L.order[i] = j
            PROVE  i \in 1 .. Len(M.order) /\ M.order[i] = j
        BY <1>2, <1>4, <4>3
      <4>4. ASSUME NEW i \in 1 .. Len(M.order), M.order[i] = j
            PROVE  i \in 1 .. Len(L.order) /\ L.order[i] = j
        BY <1>2, <1>4, <3>2, <4>4
      <4>5. QED  BY <4>1, <4>2, <4>3, <4>4
    <3>3. QED  BY <3>1, <3>2
  <2>3. \A i, j \in 1 .. Len(M.order) : M.order[i] = M.order[j] => i = j
    <3>1. \A i, j \in 1 .. Len(L.order) : L.order[i] = L.order[j] => i = j
      BY DEF Listed
    <3>2. ASSUME NEW i \in 1 .. Len(M.order)
          PROVE  \/ i \in 1 .. Len(L.order) /\ M.order[i] = L.order[i] /\ M.order[i] # k
                 \/ i = Len(M.order) /\ M.order[i] = k
      BY <1>2, <1>4, <2>1
    <3>3. QED  BY <3>1, <3>2
  <2>4. QED  BY <1>2, <1>4, <2>2, <2>3 DEF Listed, M
<1>5. CASE /\ ~ Known(L, k) /\ Len(L.order) = LedgerLimit
           /\ M.order \in Seq(Ids) /\ Len(M.order) = Len(L.order)
           /\ \A i \in 1 .. Len(L.order) - 1 : M.order[i] = L.order[i + 1]
           /\ M.order[Len(M.order)] = k
           /\ L.order[1] \in Ids
           /\ \A j \in Ids \ {k} : M.of[j] = IF j = L.order[1] THEN NoRecord ELSE L.of[j]
  <2> HIDE DEF M
  <2>1. \A i \in 1 .. Len(L.order) : L.order[i] # k
    BY <1>5 DEF Listed
  <2>2. \A i, j \in 1 .. Len(L.order) : L.order[i] = L.order[j] => i = j
    BY DEF Listed
  <2>3. ASSUME NEW j \in Ids
        PROVE  Known(M, j) <=> \E i \in 1 .. Len(M.order) : M.order[i] = j
    <3>1. CASE j = k
      BY <1>1, <1>2, <1>5, <3>1
    <3>2. CASE j # k /\ j = L.order[1]
      <4>1. ~ Known(M, j)
        BY <1>5, <3>2 DEF Known, NoRecord
      <4>2. ASSUME NEW i \in 1 .. Len(M.order) PROVE M.order[i] # j
        BY <1>2, <1>5, <2>2, <3>2
      <4>3. QED  BY <4>1, <4>2
    <3>3. CASE j # k /\ j # L.order[1]
      <4>1. Known(M, j) <=> Known(L, j)
        BY <1>5, <3>3 DEF Known
      <4>2. Known(L, j) <=> \E i \in 1 .. Len(L.order) : L.order[i] = j
        BY DEF Listed
      <4>3. ASSUME NEW i \in 1 .. Len(L.order), L.order[i] = j
            PROVE  i - 1 \in 1 .. Len(M.order) /\ M.order[i - 1] = j
        BY <1>2, <1>5, <3>3, <4>3
      <4>4. ASSUME NEW i \in 1 .. Len(M.order), M.order[i] = j
            PROVE  i + 1 \in 1 .. Len(L.order) /\ L.order[i + 1] = j
        BY <1>2, <1>5, <3>3, <4>4
      <4>5. QED  BY <4>1, <4>2, <4>3, <4>4
    <3>4. QED  BY <3>1, <3>2, <3>3
  <2>4. \A i, j \in 1 .. Len(M.order) : M.order[i] = M.order[j] => i = j
    BY <1>2, <1>5, <2>1, <2>2
  <2>5. QED  BY <1>2, <1>5, <2>3, <2>4 DEF Listed, M
<1>6. QED  BY <1>3, <1>4, <1>5, StoredOrder

(* It keeps ids behind each other, and puts a new one last.                *)
LEMMA StoredFollowed ==
  ASSUME NEW L \in LedgerValue, NEW k \in Ids, NEW rec \in Record, Listed(L),
         NEW a, NEW b, a # k, Followed(L, a, b)
  PROVE  Followed(Stored(L, k, rec), a, b)
<1> DEFINE M == Stored(L, k, rec)
<1>1. Len(L.order) \in Nat
  BY DEF LedgerValue
<1>2. CASE M.order = L.order
  BY <1>2 DEF Followed
<1>3. CASE /\ Len(M.order) = Len(L.order) + 1
           /\ \A i \in 1 .. Len(L.order) : M.order[i] = L.order[i]
           /\ M.order[Len(M.order)] = k
  <2> HIDE DEF M
  <2> SUFFICES ASSUME NEW i \in 1 .. Len(M.order), M.order[i] = a
               PROVE  \E j \in i + 1 .. Len(M.order) : M.order[j] = b
    BY DEF Followed, M
  <2>1. i \in 1 .. Len(L.order) /\ L.order[i] = a
    BY <1>1, <1>3
  <2>2. PICK j \in i + 1 .. Len(L.order) : L.order[j] = b
    BY <2>1 DEF Followed
  <2>3. j \in i + 1 .. Len(M.order) /\ M.order[j] = b
    BY <1>1, <1>3, <2>2
  <2>4. QED  BY <2>3
<1>4. CASE /\ Len(M.order) = Len(L.order)
           /\ \A i \in 1 .. Len(L.order) - 1 : M.order[i] = L.order[i + 1]
           /\ M.order[Len(M.order)] = k
  <2> HIDE DEF M
  <2> SUFFICES ASSUME NEW i \in 1 .. Len(M.order), M.order[i] = a
               PROVE  \E j \in i + 1 .. Len(M.order) : M.order[j] = b
    BY DEF Followed, M
  <2>1. i + 1 \in 1 .. Len(L.order) /\ L.order[i + 1] = a
    BY <1>1, <1>4
  <2>2. PICK j \in (i + 1) + 1 .. Len(L.order) : L.order[j] = b
    BY <2>1 DEF Followed
  <2>3. j - 1 \in i + 1 .. Len(M.order) /\ M.order[j - 1] = b
    BY <1>1, <1>4, <2>2
  <2>4. QED  BY <2>3
<1>5. QED  BY <1>2, <1>3, <1>4, StoredOrder

(* A record that was not known is stored last; every other record is kept, *)
(* or dropped.                                                             *)
LEMMA StoredLast ==
  ASSUME NEW L \in LedgerValue, NEW k \in Ids, NEW rec \in Record, Listed(L),
         ~ Known(L, k)
  PROVE  LET M == Stored(L, k, rec)
         IN  /\ Len(M.order) \in Nat \ {0} /\ M.order[Len(M.order)] = k
             /\ \A j \in Ids \ {k} : M.of[j] = L.of[j] \/ ~ Known(M, j)
<1> DEFINE M == Stored(L, k, rec)
<1>1. Len(L.order) \in Nat
  BY DEF LedgerValue
<1>2. Len(M.order) \in Nat \ {0} /\ M.order[Len(M.order)] = k
  BY <1>1, StoredOrder
<1>3. \A j \in Ids \ {k} : M.of[j] = L.of[j] \/ M.of[j] = NoRecord
  BY StoredOrder
<1>4. \A j \in Ids \ {k} : M.of[j] = L.of[j] \/ ~ Known(M, j)
  BY <1>3 DEF Known, NoRecord
<1>5. QED  BY <1>2, <1>4

(* Of two records stored one after the other the second does not drop the  *)
(* first.                                                                  *)
LEMMA StoredTwice ==
  ASSUME NEW L \in LedgerValue, Listed(L),
         NEW a \in Ids, NEW b \in Ids, a # b, ~ Known(L, a),
         NEW ra \in Record, NEW rb \in Record, ra.state # "unknown"
  PROVE  Stored(Stored(L, a, ra), b, rb).of[a] = ra
<1> DEFINE M == Stored(L, a, ra)
           N == Stored(M, b, rb)
<1>1. M \in LedgerValue /\ M.of[a] = ra /\ Listed(M)
  BY StoredOK, StoredListed
<1>2. Len(M.order) \in Nat \ {0} /\ M.order[Len(M.order)] = a
  BY StoredLast
<1> SUFFICES N.of[a] = ra
  OBVIOUS
<1> HIDE DEF M
<1>3. CASE Known(M, b)
  <2>1. M.of \in [Ids -> Record] /\ N.of = [M.of EXCEPT ![b] = rb]
    BY <1>1, <1>3 DEF Stored, LedgerValue
  <2>2. QED  BY <1>1, <2>1
<1>4. CASE ~ Known(M, b) /\ \A j \in Ids \ {b} : N.of[j] = M.of[j]
  BY <1>1, <1>4
<1>5. CASE /\ Len(M.order) = LedgerLimit
           /\ \A j \in Ids \ {b} : N.of[j] = IF j = M.order[1] THEN NoRecord ELSE M.of[j]
  <2>1. 1 \in 1 .. Len(M.order) /\ Len(M.order) \in 1 .. Len(M.order) /\ Len(M.order) # 1
    BY <1>2, <1>5
  <2>2. M.order[1] # a
    BY <1>1, <1>2, <2>1 DEF Listed
  <2>3. QED  BY <1>1, <1>5, <2>2
<1>6. QED  BY <1>1, <1>3, <1>4, <1>5, StoredOrder

-----------------------------------------------------------------------------
(* The ids that wait for the next tick to settle them.                     *)
Waiting(g) == g.superseded \cup g.cancelled

(* What a registry may become when the ids of S are started: nothing else  *)
(* starts, only what ran begins to wait, and it does not run on.           *)
Follows(g, h, S) ==
  /\ Running(h) \subseteq Running(g) \cup S
  /\ Waiting(h) \subseteq Waiting(g) \cup Running(g)
  /\ Running(h) \cap Waiting(h) \subseteq Waiting(g) \cup S

(* A take-over and a cancel start nothing.                                 *)
LEMMA TakenOverFollows ==
  ASSUME NEW g \in Registry, SlotsAgree(g)
  PROVE  Follows(g, TakenOver(g), {})
<1> DEFINE losers == Occupants(g, {"move", "mine"})
           f == Finished(g, losers)
           h == TakenOver(g)
<1>1. CASE losers = {}
  BY <1>1 DEF TakenOver, Follows
<1>2. CASE losers # {}
  <2>1. f \in Registry /\ Running(f) = Running(g) \ losers
    BY FinishedType, FinishedAgrees
  <2>2. losers \subseteq Running(g)
    BY DEF Registry, Occupants, Occupied, Slots, Running
  <2>3. h = [f EXCEPT !.superseded = losers]
    BY <1>2 DEF TakenOver
  <2>4. h.entries = f.entries /\ h.superseded = losers /\ h.cancelled = g.cancelled
    BY <2>1, <2>3 DEF Registry, Finished
  <2> HIDE DEF h, f, losers
  <2>5. Running(h) = Running(g) \ losers /\ Waiting(h) = losers \cup g.cancelled
    BY <2>1, <2>4 DEF Running, Waiting
  <2>6. QED  BY <2>2, <2>5 DEF Follows, Waiting, h
<1>3. QED  BY <1>1, <1>2

LEMMA CancelledByFollows ==
  ASSUME NEW g \in Registry, SlotsAgree(g), NEW id \in Cancellable(g)
  PROVE  Follows(g, CancelledBy(g, id), {})
<1> DEFINE f == Finished(g, {id})
           h == CancelledBy(g, id)
<1>1. f \in Registry /\ Running(f) = Running(g) \ {id}
  BY FinishedType, FinishedAgrees
<1>2. h.entries = f.entries /\ h.superseded = g.superseded /\ h.cancelled = {id}
  BY <1>1 DEF CancelledBy, Registry, Finished
<1>3. id \in Running(g)
  BY DEF Cancellable
<1> HIDE DEF h, f
<1>4. Running(h) = Running(g) \ {id} /\ Waiting(h) = g.superseded \cup {id}
  BY <1>1, <1>2 DEF Running, Waiting
<1>5. QED  BY <1>3, <1>4 DEF Follows, Waiting, h

LEMMA FollowsTwice ==
  ASSUME NEW g, NEW h, NEW k, Follows(g, h, {}), Follows(h, k, {})
  PROVE  Follows(g, k, {})
BY DEF Follows

LEMMA CancelledUpTo2Follows ==
  ASSUME NEW g \in Registry, SlotsAgree(g), NEW h \in CancelledUpTo2(g)
  PROVE  Follows(g, h, {})
<1>1. CASE h = g
  BY <1>1 DEF Follows
<1>2. CASE \E id \in Cancellable(g) : h = CancelledBy(g, id)
  BY <1>2, CancelledByFollows
<1>3. CASE \E id \in Cancellable(g) :
             \E jd \in Cancellable(CancelledBy(g, id)) :
               h = CancelledBy(CancelledBy(g, id), jd)
  <2>1. PICK id \in Cancellable(g) :
          \E jd \in Cancellable(CancelledBy(g, id)) : h = CancelledBy(CancelledBy(g, id), jd)
    BY <1>3
  <2> DEFINE k == CancelledBy(g, id)
  <2>2. k \in Registry /\ SlotsAgree(k) /\ Follows(g, k, {})
    BY CancelledByOK, CancelledByFollows
  <2>3. PICK jd \in Cancellable(k) : h = CancelledBy(k, jd)
    BY <2>1
  <2> HIDE DEF k
  <2>4. Follows(k, h, {})
    BY <2>2, <2>3, CancelledByFollows
  <2>5. QED  BY <2>2, <2>4, FollowsTwice
<1>4. QED  BY <1>1, <1>2, <1>3 DEF CancelledUpTo2

(* Starting an operation starts it alone.                                  *)
LEMMA StartedFollows ==
  ASSUME NEW g, NEW h \in Registry, NEW S, Follows(g, h, S),
         NEW id \in Ids, NEW action, NEW left
  PROVE  Follows(g, Started(h, id, action, left), S \cup {id})
<1> DEFINE k == Started(h, id, action, left)
<1>1. \A i \in Ids \ {id} : k.entries[i] = h.entries[i]
  BY DEF Started, Registry
<1>2. Waiting(k) = Waiting(h)
  BY DEF Started, Waiting
<1> HIDE DEF k
<1>3. Running(k) \subseteq Running(h) \cup {id}
  BY <1>1 DEF Running
<1>4. QED  BY <1>2, <1>3 DEF Follows, k

(* An action starts at most itself, its answer then says that it runs, and *)
(* a handler that raises has started nothing.                              *)
Truthful(g, o, id) ==
  /\ Follows(g, o.reg, {id})
  /\ o.state # "running" \/ o.threw => Running(o.reg) \subseteq Running(g)

LEMMA DispatchTruthful ==
  ASSUME NEW g \in Registry, SlotsAgree(g), NEW id \in Ids, NEW body \in Sent,
         NEW o \in Dispatch(g, id, body)
  PROVE  Truthful(g, o, id)
<1> DEFINE a == body.action
<1>0. a \in Actions \cup {"none"}
  BY DEF Sent
<1>1. \A h, s : \A w \in BOOLEAN : Follows(g, h, {}) => Truthful(g, Outcome(h, s, w), id)
  BY DEF Truthful, Outcome, Follows
<1>2. \A h : Follows(g, h, {id}) => Truthful(g, Runs(h), id)
  BY DEF Truthful, Runs, Outcome
<1>3. Follows(g, g, {})
  BY DEF Follows
<1>4. TakenOver(g) \in Registry /\ Follows(g, TakenOver(g), {})
  BY TakenOverOK, TakenOverFollows
<1>5. \A action, left : Follows(g, Started(TakenOver(g), id, action, left), {id})
  BY <1>4, StartedFollows
<1>6. \A action, left : Follows(g, Started(g, id, action, left), {id})
  BY <1>3, StartedFollows
<1>7. CASE o \in Unharmed(g)
  BY <1>1, <1>3, <1>7 DEF Unharmed, Refused, Raised
<1>8. CASE o \in MoveOutcomes(g, id, body.span)
  BY <1>2, <1>5, <1>8 DEF MoveOutcomes
<1>9. CASE o \in NavigateOutcomes(g, id, body.span)
  BY <1>1, <1>2, <1>3, <1>4, <1>5, <1>9 DEF NavigateOutcomes, Done, Raised
<1>10. CASE o \in MineOutcomes(g, id)
  BY <1>2, <1>6, <1>10 DEF MineOutcomes
<1>11. CASE o \in CraftOutcomes(g, id)
  BY <1>2, <1>6, <1>11 DEF CraftOutcomes
<1>12. CASE o \in CancelOutcomes(g)
  BY <1>1, <1>12, CancelledByFollows DEF CancelOutcomes, Done
<1>13. CASE o \in BatchOutcomes(g)
  BY <1>1, <1>13, CancelledUpTo2Follows DEF BatchOutcomes, Done, Refused
<1>14. CASE o \in InstantOutcomes(g)
  BY <1>1, <1>3, <1>14 DEF InstantOutcomes, Done, Raised
<1>15. QED
  BY <1>0, <1>7, <1>8, <1>9, <1>10, <1>11, <1>12, <1>13, <1>14 DEF Dispatch, Actions

-----------------------------------------------------------------------------
(* A handler that answers within the episode: its request was not known,   *)
(* is known now, and every other record is kept or dropped; what it starts *)
(* is stored as running.                                                   *)
Answered(r) ==
  /\ sent[r].type # "none" /\ sent[r].ep = episode /\ ~ Known(ledger, Top(r))
  /\ UNCHANGED <<episode, sent>>
  /\ StoreAll(ledger')
  /\ ledger' \in LedgerValue /\ Known(ledger', Top(r))
  /\ \A j \in Ids \ {Top(r), Act(r)} : ledger'.of[j] = ledger.of[j] \/ ~ Known(ledger', j)
  /\ LedgerInv'
  /\ Follows(reg, reg', {Top(r), Act(r)})
  /\ \A i \in Running(reg') \ Running(reg) : ledger'.of[i].state = "running"

(* Top and act ids are ids, all of them different.                         *)
LEMMA OwnIds ==
  ASSUME NEW r \in Requests
  PROVE  /\ Top(r) \in Ids /\ Act(r) \in Ids /\ Top(r) # Act(r)
         /\ Top(r)[1] = r /\ Act(r)[1] = r
         /\ \A q \in Requests : Act(q) # Top(r) /\ (q # r => Act(q) # Act(r))
BY DEF Top, Act, Ids

(* While a request is not known, neither is its inner action.              *)
LEMMA InnerUnknown ==
  ASSUME LedgerInv, NEW r \in Requests, ~ Known(ledger, Top(r))
  PROVE  ~ Known(ledger, Act(r))
<1> SUFFICES ASSUME Known(ledger, Act(r)) PROVE FALSE
  OBVIOUS
<1>1. PICK i \in 1 .. Len(ledger.order) : ledger.order[i] = Act(r)
  BY OwnIds DEF LedgerInv, Listed
<1>2. PICK j \in i + 1 .. Len(ledger.order) : ledger.order[j] = Top(r)
  BY <1>1 DEF LedgerInv, InnerFirst, Followed
<1>3. CASE Len(ledger.order) \in Nat
  <2>1. j \in 1 .. Len(ledger.order)
    BY <1>2, <1>3
  <2>2. QED  BY <1>2, <2>1, OwnIds DEF LedgerInv, Listed
<1>4. QED  BY <1>3 DEF LedgerInv, Listed

(* One answer under the request's own id.                                  *)
LEMMA AnswerAnswered ==
  ASSUME IInv, LedgerInv, NEW r \in Requests, NEW type \in Types \ {"none"},
         Accepted(r, type), UNCHANGED <<episode, sent>>,
         NEW state \in States \ {"unknown"}, Answer(r, type, state),
         NEW S \in SUBSET {Top(r), Act(r)}, Follows(reg, reg', S),
         \A i \in Running(reg') \ Running(reg) : i = Top(r) /\ state = "running"
  PROVE  Answered(r)
<1> DEFINE rec == Fresh(type, state)
           M == Stored(ledger, Top(r), rec)
<1>1. rec \in Record /\ rec.state = state
  BY FreshOK DEF Fresh
<1>2. ledger \in LedgerValue /\ Listed(ledger) /\ ~ Known(ledger, Top(r))
  BY DEF IInv, TypeOK, LedgerInv, Accepted
<1> HIDE DEF rec
<1>3. M \in LedgerValue /\ M.of[Top(r)] = rec /\ Listed(M)
  BY <1>1, <1>2, OwnIds, StoredOK, StoredListed
<1>4. \A j \in Ids \ {Top(r)} : M.of[j] = ledger.of[j] \/ ~ Known(M, j)
  BY <1>1, <1>2, OwnIds, StoredLast
<1>5. InnerFirst(M)
  <2> SUFFICES ASSUME NEW q \in Requests PROVE Followed(M, Act(q), Top(q))
    BY DEF InnerFirst
  <2>1. Act(q) # Top(r) /\ Followed(ledger, Act(q), Top(q))
    BY OwnIds DEF LedgerInv, InnerFirst
  <2>2. QED  BY <1>1, <1>2, <2>1, OwnIds, StoredFollowed
<1>6. ledger' = M /\ StoreAll(ledger')
  BY DEF Answer, StoreAll, rec
<1> HIDE DEF M
<1>7. LedgerInv'
  <2>1. Listed(ledger')
    BY <1>3, <1>6
  <2>2. InnerFirst(ledger')
    BY <1>5, <1>6
  <2>3. QED  BY <2>1, <2>2 DEF LedgerInv
<1>8. Known(ledger', Top(r)) /\ ledger'.of[Top(r)].state = state
  BY <1>1, <1>3, <1>6 DEF Known
<1>9. Follows(reg, reg', {Top(r), Act(r)})
  BY DEF Follows
<1>10. \A i \in Running(reg') \ Running(reg) : ledger'.of[i].state = "running"
  BY <1>8
<1>11. QED
  BY <1>3, <1>4, <1>6, <1>7, <1>8, <1>9, <1>10 DEF Answered, Accepted

(* A handler that leaves the registry alone starts nothing.                *)
LEMMA StartsNothing ==
  ASSUME reg' = reg
  PROVE  Follows(reg, reg', {}) /\ Running(reg') \ Running(reg) = {}
BY DEF Follows

(* handle_advance.                                                         *)
LEMMA AdvanceAnswers ==
  ASSUME IInv, LedgerInv, NEW r \in Requests, Advance(r)
  PROVE  Answered(r)
<1>1. Accepted(r, "advance") /\ UNCHANGED <<episode, sent>> /\ "advance" \in Types \ {"none"}
      /\ reg \in Registry
  BY DEF Advance, Types, IInv, TypeOK
<1>2. CASE reg' = Started(reg, Top(r), "advance", sent[r].ticks)
           /\ Answer(r, "advance", "running")
  <2>1. Follows(reg, reg, {})
    BY DEF Follows
  <2>2. Follows(reg, reg', {Top(r)})
    <3>1. Follows(reg, reg', {} \cup {Top(r)})
      BY <1>1, <1>2, <2>1, OwnIds, StartedFollows
    <3>2. QED  BY <3>1
  <2>3. Running(reg') \ Running(reg) \subseteq {Top(r)} /\ "running" \in States \ {"unknown"}
    BY <2>2 DEF Follows, States
  <2>4. QED  BY <1>1, <1>2, <2>2, <2>3, AnswerAnswered
<1>3. CASE Answer(r, "advance", "rejected") /\ UNCHANGED reg
  <2>1. "rejected" \in States \ {"unknown"}
    BY DEF States
  <2>2. QED  BY <1>1, <1>3, <2>1, StartsNothing, AnswerAnswered
<1>4. QED  BY <1>2, <1>3 DEF Advance

(* An action on its own.                                                   *)
LEMMA ActAloneAnswers ==
  ASSUME IInv, LedgerInv, NEW r \in Requests, ActAlone(r)
  PROVE  Answered(r)
<1>1. Accepted(r, "act") /\ UNCHANGED <<episode, sent>> /\ "act" \in Types \ {"none"}
      /\ reg \in Registry /\ SlotsAgree(reg)
  BY DEF ActAlone, Types, IInv, TypeOK, RegistryInv, OneOperationPerSlot
<1>2. PICK o \in Dispatch(reg, Top(r), sent[r]) : reg' = o.reg /\ Answer(r, "act", o.state)
  BY DEF ActAlone
<1>3. /\ sent[r] \in Sent
      /\ Top(r) \in Running(reg) => reg.entries[Top(r)].action = sent[r].action
  BY <1>1, AcceptedRequest
<1>4. o.state \in States \ {"unknown"}
  BY <1>1, <1>2, <1>3, OwnIds, DispatchSound DEF SoundOutcome
<1>5. Truthful(reg, o, Top(r))
  BY <1>1, <1>2, <1>3, OwnIds, DispatchTruthful
<1>6. \A i \in Running(reg') \ Running(reg) : i = Top(r) /\ o.state = "running"
  BY <1>2, <1>5 DEF Truthful, Follows
<1>7. Follows(reg, reg', {Top(r)})
  BY <1>2, <1>5 DEF Truthful
<1>8. QED  BY <1>1, <1>2, <1>4, <1>6, <1>7, AnswerAnswered

(* A step that is refused.                                                 *)
LEMMA StepRefusedAnswers ==
  ASSUME IInv, LedgerInv, NEW r \in Requests, StepRefused(r)
  PROVE  Answered(r)
<1>1. /\ Accepted(r, "step") /\ UNCHANGED <<episode, sent, reg>> /\ "step" \in Types \ {"none"}
      /\ Answer(r, "step", "rejected") /\ "rejected" \in States \ {"unknown"}
  BY DEF StepRefused, Types, States
<1>2. QED  BY <1>1, StartsNothing, AnswerAnswered

(* A step: both records are stored, the action's first.                    *)
LEMMA StepAnswers ==
  ASSUME IInv, LedgerInv, NEW r \in Requests, Step(r)
  PROVE  Answered(r)
<1> DEFINE act == Act(r)
           top == Top(r)
<1>1. Accepted(r, "step") /\ UNCHANGED <<episode, sent>> /\ "step" \in Types \ {"none"}
      /\ reg \in Registry /\ SlotsAgree(reg)
      /\ ledger \in LedgerValue /\ Listed(ledger) /\ InnerFirst(ledger)
  BY DEF Step, Types, IInv, TypeOK, RegistryInv, OneOperationPerSlot, LedgerInv
<1>2. PICK o \in Dispatch(reg, act, sent[r]) :
        \/ /\ o.threw
           /\ reg' = o.reg
           /\ Answer(r, "step", "rejected")
           /\ UNCHANGED paused
        \/ /\ ~ o.threw
           /\ reg' = Started(o.reg, top, "advance", sent[r].ticks)
           /\ StoreAll(Stored(Stored(ledger, act, Fresh("act", o.state)),
                              top, Fresh("step", "running")))
           /\ paused' = FALSE
  BY DEF Step
<1>3. /\ sent[r] \in Sent /\ sent[r].type # "none" /\ sent[r].ep = episode
      /\ act \in Running(reg) => reg.entries[act].action = sent[r].action
  BY <1>1, AcceptedRequest
<1>4. o.state \in States \ {"unknown"} /\ o.reg \in Registry
  BY <1>1, <1>2, <1>3, OwnIds, DispatchSound DEF SoundOutcome, Sound
<1>5. Truthful(reg, o, act)
  BY <1>1, <1>2, <1>3, OwnIds, DispatchTruthful
<1>6. CASE /\ o.threw /\ reg' = o.reg
           /\ Answer(r, "step", "rejected")
  <2>1. Follows(reg, reg', {act}) /\ Running(reg') \ Running(reg) = {}
    BY <1>5, <1>6 DEF Truthful
  <2>2. "rejected" \in States \ {"unknown"}
    BY DEF States
  <2>3. QED  BY <1>1, <1>6, <2>1, <2>2, AnswerAnswered
<1>7. CASE /\ reg' = Started(o.reg, top, "advance", sent[r].ticks)
           /\ StoreAll(Stored(Stored(ledger, act, Fresh("act", o.state)),
                              top, Fresh("step", "running")))
  <2> DEFINE first == Fresh("act", o.state)
             second == Fresh("step", "running")
             M == Stored(ledger, act, first)
             N == Stored(M, top, second)
  <2>1. /\ first \in Record /\ first.state = o.state /\ first.state # "unknown"
        /\ second \in Record /\ second.state = "running"
    <3>1. "act" \in Types /\ "step" \in Types /\ "running" \in States
      BY DEF Types, States
    <3>2. QED  BY <1>4, <3>1, FreshOK DEF Fresh
  <2>2. /\ act \in Ids /\ top \in Ids /\ act # top
        /\ \A q \in Requests : Act(q) # top /\ (q # r => Act(q) # act)
    BY OwnIds
  <2>3. ~ Known(ledger, top) /\ ~ Known(ledger, act)
    BY <1>1, InnerUnknown DEF Accepted
  <2>4. ledger' = N /\ StoreAll(ledger')
    BY <1>7 DEF StoreAll
  <2> HIDE DEF first, second
  <2>5. M \in LedgerValue /\ M.of[act] = first /\ Listed(M)
    BY <1>1, <2>1, <2>2, StoredOK, StoredListed
  <2>6. \A j \in Ids \ {act} : M.of[j] = ledger.of[j] \/ ~ Known(M, j)
    BY <1>1, <2>1, <2>2, <2>3, StoredLast
  <2>7. N.of[act] = first
    BY <1>1, <2>1, <2>2, <2>3, StoredTwice
  <2>8. ASSUME NEW q \in Requests, q # r PROVE Followed(M, Act(q), Top(q))
    <3>1. Followed(ledger, Act(q), Top(q))
      BY <1>1 DEF InnerFirst
    <3>2. QED  BY <1>1, <2>1, <2>2, <2>8, <3>1, StoredFollowed
  <2> HIDE DEF M
  <2>9. ~ Known(M, top)
    BY <2>2, <2>3, <2>6 DEF Known
  <2>10. N \in LedgerValue /\ N.of[top] = second /\ Listed(N)
    BY <2>1, <2>2, <2>5, StoredOK, StoredListed
  <2>11. /\ Len(N.order) \in Nat \ {0} /\ N.order[Len(N.order)] = top
         /\ \A j \in Ids \ {top} : N.of[j] = M.of[j] \/ ~ Known(N, j)
    BY <2>1, <2>2, <2>5, <2>9, StoredLast
  <2>12. ASSUME NEW q \in Requests, q # r PROVE Followed(N, Act(q), Top(q))
    BY <2>1, <2>2, <2>5, <2>8, <2>12, StoredFollowed
  <2> HIDE DEF N
  <2>13. Followed(N, act, top)
    <3> SUFFICES ASSUME NEW i \in 1 .. Len(N.order), N.order[i] = act
                 PROVE  \E j \in i + 1 .. Len(N.order) : N.order[j] = top
      BY DEF Followed
    <3>1. Len(N.order) \in i + 1 .. Len(N.order)
      BY <2>2, <2>11
    <3>2. QED  BY <2>11, <3>1
  <2>14. LedgerInv'
    <3>1. InnerFirst(N)
      BY <2>12, <2>13 DEF InnerFirst
    <3>2. InnerFirst(ledger') /\ Listed(ledger')
      BY <2>4, <2>10, <3>1
    <3>3. QED  BY <3>2 DEF LedgerInv
  <2>15. \A j \in Ids \ {top, act} : N.of[j] = ledger.of[j] \/ ~ Known(N, j)
    BY <2>6, <2>11 DEF Known
  <2>16. Known(N, top) /\ N.of[top].state = "running" /\ N.of[act].state = o.state
    BY <2>1, <2>7, <2>10 DEF Known
  <2>17. Follows(reg, reg', {act} \cup {top})
    BY <1>4, <1>5, <1>7, <2>2, StartedFollows DEF Truthful
  <2>18. ASSUME NEW i \in Running(reg') \ Running(reg) PROVE N.of[i].state = "running"
    <3>1. i \in {act, top}
      BY <2>17 DEF Follows
    <3>2. CASE i = act
      <4>1. act \in Running(o.reg)
        BY <1>7, <2>2, <2>18, <3>2 DEF Started, Running
      <4>2. QED  BY <1>5, <2>16, <2>18, <3>2, <4>1 DEF Truthful
    <3>3. QED  BY <2>16, <3>1, <3>2
  <2>19. Follows(reg, reg', {top, act})
    <3>1. {act} \cup {top} = {top, act}
      OBVIOUS
    <3>2. QED  BY <2>17, <3>1
  <2>20. QED
    BY <1>1, <1>3, <2>3, <2>4, <2>10, <2>14, <2>15, <2>16, <2>18, <2>19 DEF Answered
<1>8. QED  BY <1>2, <1>6, <1>7

(* The requests that answer and nothing else.                              *)
LEMMA OtherMutationAnswers ==
  ASSUME IInv, LedgerInv, NEW r \in Requests, OtherMutation(r)
  PROVE  Answered(r)
<1>1. /\ Accepted(r, "other") /\ UNCHANGED <<episode, sent, reg>>
      /\ "other" \in Types \ {"none"}
  BY DEF OtherMutation, Types
<1>2. PICK state \in {"completed", "rejected"} : Answer(r, "other", state)
  BY DEF OtherMutation
<1>3. state \in States \ {"unknown"}
  BY DEF States
<1>4. QED  BY <1>1, <1>2, <1>3, StartsNothing, AnswerAnswered

(* A request that begins an episode: its own record is the only one, and   *)
(* nothing runs; what waited may wait on.                                  *)
Begun(r) ==
  /\ sent[r].type # "none" /\ sent[r].ep = episode /\ ~ Known(ledger, Top(r))
  /\ episode' = episode + 1 /\ UNCHANGED <<sent, forgotten>>
  /\ ledger'.of[Top(r)].state = "completed"
  /\ \A j \in Ids \ {Top(r)} : ledger'.of[j].state = "unknown"
  /\ LedgerInv'
  /\ Running(reg') = {} /\ Waiting(reg') \subseteq Waiting(reg)

LEMMA BeginEpisodeBegins ==
  ASSUME IInv, NEW r \in Requests, NEW type \in Types \ {"none"},
         Accepted(r, type), BeginEpisode(r, type), sent' = sent,
         Running(reg') = {}, Waiting(reg') \subseteq Waiting(reg)
  PROVE  Begun(r)
<1> DEFINE rec == Fresh(type, "completed")
           L == EmptyLedger
           M == Stored(L, Top(r), rec)
<1>1. rec \in Record /\ rec.state = "completed"
  <2>1. "completed" \in States
    BY DEF States
  <2>2. QED  BY <2>1, FreshOK DEF Fresh
<1>2. L \in LedgerValue /\ L.order = << >> /\ \A k \in Ids : ~ Known(L, k)
  BY EmptyLedgerOK DEF EmptyLedger, Known, NoRecord
<1>3. Len(L.order) = 0
  BY <1>2
<1>4. Listed(L)
  BY <1>2, <1>3 DEF Listed
<1>5. InnerFirst(L)
  BY <1>3 DEF InnerFirst, Followed
<1> HIDE DEF rec, L
<1>6. /\ M \in LedgerValue /\ M.of[Top(r)] = rec /\ Listed(M)
      /\ \A j \in Ids \ {Top(r)} : M.of[j] = L.of[j] \/ ~ Known(M, j)
  BY <1>1, <1>2, <1>4, OwnIds, StoredOK, StoredListed, StoredLast
<1>7. \A j \in Ids \ {Top(r)} : M.of[j].state = "unknown"
  BY <1>2, <1>6 DEF Known
<1>8. InnerFirst(M)
  <2> SUFFICES ASSUME NEW q \in Requests PROVE Followed(M, Act(q), Top(q))
    BY DEF InnerFirst
  <2>1. Act(q) # Top(r) /\ Followed(L, Act(q), Top(q))
    BY <1>5, OwnIds DEF InnerFirst
  <2>2. QED  BY <1>1, <1>2, <1>4, <2>1, OwnIds, StoredFollowed
<1>9. ledger' = M /\ episode' = episode + 1 /\ forgotten' = forgotten
  BY DEF BeginEpisode, rec, L
<1> HIDE DEF M
<1>10. LedgerInv'
  <2>1. Listed(ledger') /\ InnerFirst(ledger')
    BY <1>6, <1>8, <1>9
  <2>2. QED  BY <2>1 DEF LedgerInv
<1>11. QED  BY <1>1, <1>6, <1>7, <1>9, <1>10 DEF Begun, Accepted

LEMMA ResetAnswers ==
  ASSUME IInv, LedgerInv, NEW r \in Requests, Reset(r)
  PROVE  Answered(r) \/ Begun(r)
<1>1. Accepted(r, "reset") /\ sent' = sent /\ "reset" \in Types \ {"none"} /\ reg \in Registry
  BY DEF Reset, Types, IInv, TypeOK
<1>2. CASE BeginEpisode(r, "reset") /\ reg' = EmptyRegistry
  <2>1. Running(reg') = {} /\ Waiting(reg') = {}
    BY <1>2, EmptyRegistryOK DEF EmptyRegistry, Waiting
  <2>2. QED  BY <1>1, <1>2, <2>1, BeginEpisodeBegins
<1>3. CASE /\ reg' \in {reg, PendingDropped(reg)}
           /\ Answer(r, "reset", "rejected")
           /\ UNCHANGED episode
  <2>1. reg'.entries = reg.entries /\ Waiting(reg') \subseteq Waiting(reg)
    BY <1>1, <1>3 DEF PendingDropped, Waiting, Registry
  <2>2. Running(reg') = Running(reg) /\ Follows(reg, reg', {})
    BY <2>1 DEF Running, Follows
  <2>3. "rejected" \in States \ {"unknown"}
    BY DEF States
  <2>4. QED  BY <1>1, <1>3, <2>2, <2>3, AnswerAnswered
<1>4. QED  BY <1>2, <1>3 DEF Reset

LEMMA OpenWorldAnswers ==
  ASSUME IInv, LedgerInv, NEW r \in Requests, OpenWorld(r)
  PROVE  Answered(r) \/ Begun(r)
<1> DEFINE kept == [EmptyRegistry EXCEPT !.superseded = reg.superseded,
                                         !.cancelled = reg.cancelled]
<1>1. /\ Accepted(r, "open_world") /\ sent' = sent /\ "open_world" \in Types \ {"none"}
      /\ reg \in Registry
  BY DEF OpenWorld, Types, IInv, TypeOK
<1>2. CASE BeginEpisode(r, "open_world") /\ (reg' = EmptyRegistry \/ reg' = kept)
  <2>1. reg'.entries = EmptyRegistry.entries /\ Waiting(reg') \subseteq Waiting(reg)
    <3>1. kept.entries = EmptyRegistry.entries /\ Waiting(kept) = Waiting(reg)
      BY DEF EmptyRegistry, Waiting
    <3>2. Waiting(EmptyRegistry) = {}
      BY DEF EmptyRegistry, Waiting
    <3> HIDE DEF kept
    <3>3. QED  BY <1>2, <3>1, <3>2
  <2>2. Running(reg') = {}
    BY <2>1, EmptyRegistryOK DEF Running
  <2>3. QED  BY <1>1, <1>2, <2>1, <2>2, BeginEpisodeBegins
<1>3. CASE /\ reg' \in {reg, PendingDropped(reg)}
           /\ Answer(r, "open_world", "rejected")
           /\ UNCHANGED episode
  <2>1. reg'.entries = reg.entries /\ Waiting(reg') \subseteq Waiting(reg)
    BY <1>1, <1>3 DEF PendingDropped, Waiting, Registry
  <2>2. Running(reg') = Running(reg) /\ Follows(reg, reg', {})
    BY <2>1 DEF Running, Follows
  <2>3. "rejected" \in States \ {"unknown"}
    BY DEF States
  <2>4. QED  BY <1>1, <1>3, <2>2, <2>3, AnswerAnswered
<1>4. QED  BY <1>2, <1>3 DEF OpenWorld

(* Every handler either answers within the episode or begins the next.     *)
LEMMA HandleAnswers ==
  ASSUME IInv, LedgerInv, NEW r \in Requests, Handle(r)
  PROVE  Answered(r) \/ Begun(r)
<1>1. CASE Advance(r)        BY <1>1, AdvanceAnswers
<1>2. CASE ActAlone(r)       BY <1>2, ActAloneAnswers
<1>3. CASE StepRefused(r)    BY <1>3, StepRefusedAnswers
<1>4. CASE Step(r)           BY <1>4, StepAnswers
<1>5. CASE Reset(r)          BY <1>5, ResetAnswers
<1>6. CASE OpenWorld(r)      BY <1>6, OpenWorldAnswers
<1>7. CASE OtherMutation(r)  BY <1>7, OtherMutationAnswers
<1>8. QED  BY <1>1, <1>2, <1>3, <1>4, <1>5, <1>6, <1>7 DEF Handle

-----------------------------------------------------------------------------
(* What an answer and a new episode preserve.                              *)
LEMMA AnsweredOK ==
  ASSUME IInv, PInv, NEW r \in Requests, Answered(r)
  PROVE  PInv'
<1> DEFINE own == {Top(r), Act(r)}
<1>1. /\ Running(reg) \subseteq Ids /\ Running(reg') \subseteq Ids
      /\ Waiting(reg) \subseteq Ids /\ Waiting(reg') \subseteq Ids
  <2>1. Waiting(reg) \subseteq Ids
    BY DEF IInv, TypeOK, Registry, Waiting
  <2>2. QED  BY <2>1 DEF Running, Answered, Follows
<1>2. \A i \in own : ledger.of[i].state = "unknown" /\ sent[i[1]].ep = episode
  <2>1. ~ Known(ledger, Top(r)) /\ ~ Known(ledger, Act(r)) /\ sent[r].ep = episode
    BY InnerUnknown DEF PInv, Answered
  <2>2. QED  BY <2>1, OwnIds DEF Known
<1>3. /\ \A i \in Running(reg) : i \notin forgotten => ledger.of[i].state = "running"
      /\ \A i \in Waiting(reg) :
           /\ sent[i[1]].type # "none"
           /\ i \notin forgotten =>
                /\ ledger.of[i].state \in {"running", "unknown"}
                /\ sent[i[1]].ep = episode => ledger.of[i].state = "running"
      /\ Running(reg) \cap Waiting(reg) \subseteq forgotten
  BY DEF PInv, RunningIsStoredRunning, PendingRemembered, RunsOrWaits, Pending, Waiting
<1>4. \A i \in own : i \in Running(reg) \cup Waiting(reg) => i \in forgotten
  BY <1>2, <1>3
<1>5. /\ forgotten \subseteq forgotten'
      /\ \A j \in Ids : ledger.of[j].state # "unknown" /\ ledger'.of[j].state = "unknown"
                          => j \in forgotten'
      /\ \A j \in Ids \ own : \/ ledger'.of[j].state = ledger.of[j].state
                              \/ ledger'.of[j].state = "unknown"
  BY DEF Answered, StoreAll, Known
<1>6. /\ Running(reg') \subseteq Running(reg) \cup own
      /\ Waiting(reg') \subseteq Waiting(reg) \cup Running(reg)
      /\ Running(reg') \cap Waiting(reg') \subseteq Waiting(reg) \cup own
      /\ \A i \in Running(reg') \ Running(reg) : ledger'.of[i].state = "running"
  BY DEF Answered, Follows
<1> HIDE DEF own
<1>7. RunningIsStoredRunning'
  <2> SUFFICES ASSUME NEW i \in Running(reg'), i \notin forgotten'
               PROVE  ledger'.of[i].state = "running"
    BY DEF RunningIsStoredRunning
  <2>1. CASE i \in Running(reg)
    <3>1. ledger.of[i].state = "running" /\ i \notin own
      BY <1>3, <1>4, <1>5, <2>1
    <3>2. QED  BY <1>1, <1>5, <3>1
  <2>2. QED  BY <1>6, <2>1
<1>8. ASSUME NEW i \in Waiting(reg')
      PROVE  /\ sent[i[1]].type # "none"
             /\ i \notin forgotten' =>
                  /\ ledger'.of[i].state \in {"running", "unknown"}
                  /\ sent[i[1]].ep = episode => ledger'.of[i].state = "running"
  <2>1. i \in Waiting(reg) \/ i \in Running(reg)
    BY <1>6
  <2>2. sent[i[1]].type # "none"
    BY <1>3, <2>1 DEF IInv, RegistryInv, RunningAsAsked
  <2>3. ASSUME i \notin forgotten'
        PROVE  /\ ledger'.of[i].state \in {"running", "unknown"}
               /\ sent[i[1]].ep = episode => ledger'.of[i].state = "running"
    <3>1. i \notin own /\ i \notin forgotten
      BY <1>4, <1>5, <2>1, <2>3
    <3>2. /\ ledger.of[i].state \in {"running", "unknown"}
          /\ sent[i[1]].ep = episode => ledger.of[i].state = "running"
      BY <1>3, <2>1, <3>1
    <3>3. QED  BY <1>1, <1>5, <2>3, <3>1, <3>2
  <2>4. QED  BY <2>2, <2>3
<1>9. PendingRemembered'
  BY <1>8 DEF PendingRemembered, Pending, Waiting, Answered
<1>10. RunsOrWaits'
  <2> SUFFICES ASSUME NEW i \in Running(reg') \cap Waiting(reg')
               PROVE  i \in forgotten'
    BY DEF RunsOrWaits, Pending, Waiting
  <2>1. CASE i \in own
    BY <1>4, <1>5, <1>6, <2>1
  <2>2. CASE i \notin own
    BY <1>3, <1>5, <1>6, <2>2
  <2>3. QED  BY <2>1, <2>2
<1>11. QED  BY <1>7, <1>9, <1>10 DEF PInv, Answered

LEMMA BegunOK ==
  ASSUME IInv, PInv, NEW r \in Requests, Begun(r)
  PROVE  PInv'
<1>1. RunningIsStoredRunning' /\ RunsOrWaits'
  BY DEF Begun, RunningIsStoredRunning, RunsOrWaits
<1>2. episode \in Nat /\ \A q \in Requests : sent[q].ep \in Nat /\ sent[q].ep <= episode
  BY DEF IInv, TypeOK, Sent, MemoryInv, AppliedRemembered
<1>3. PendingRemembered'
  <2> SUFFICES ASSUME NEW i \in Waiting(reg')
               PROVE  /\ sent[i[1]].type # "none"
                      /\ i \notin forgotten =>
                           /\ ledger'.of[i].state \in {"running", "unknown"}
                           /\ sent[i[1]].ep # episode'
    BY DEF PendingRemembered, Pending, Waiting, Begun
  <2>1. /\ i \in Ids /\ i[1] \in Requests /\ sent[i[1]].type # "none"
        /\ i \notin forgotten /\ sent[i[1]].ep = episode => ledger.of[i].state = "running"
    BY DEF Begun, PInv, PendingRemembered, Pending, Waiting, IInv, TypeOK, Registry, Ids
  <2>2. sent[i[1]].ep # episode'
    BY <1>2, <2>1 DEF Begun
  <2>3. i = Top(r) => i \in forgotten
    BY <2>1, OwnIds DEF Begun, Known
  <2>4. i # Top(r) => ledger'.of[i].state = "unknown"
    BY <2>1 DEF Begun
  <2>5. QED  BY <2>1, <2>2, <2>3, <2>4
<1>4. QED  BY <1>1, <1>3 DEF PInv, Begun

(* Issuing a request disturbs no other: the id it takes was never used.    *)
LEMMA IssueKeeps ==
  ASSUME IInv, PInv, NEW r \in Requests, NEW body \in Bodies, NEW ep \in Nat,
         Names(r, body, ep)
  PROVE  PInv'
<1>1. /\ sent[r].type = "none" /\ UNCHANGED <<episode, ledger, reg, forgotten>>
      /\ \A q \in Requests \ {r} : sent'[q] = sent[q]
  BY DEF Names, Unsent, IInv, TypeOK
<1>2. LedgerInv'
  BY <1>1 DEF PInv, LedgerInv, Listed, InnerFirst, Followed, Known
<1>3. RunningIsStoredRunning' /\ RunsOrWaits'
  BY <1>1 DEF PInv, RunningIsStoredRunning, RunsOrWaits, Pending
<1>4. PendingRemembered'
  <2>1. \A i \in Pending : i[1] \in Requests \ {r} /\ sent'[i[1]] = sent[i[1]]
    BY <1>1 DEF PInv, PendingRemembered, Pending, IInv, TypeOK, Registry, Ids
  <2>2. QED  BY <1>1, <2>1 DEF PInv, PendingRemembered, Pending
<1>5. QED  BY <1>2, <1>3, <1>4 DEF PInv

(* One id of one settlement: its state stays, or becomes the status it is  *)
(* settled with, and an id that is not settled keeps its record.           *)
LEMMA SettledOne ==
  ASSUME NEW L, NEW out, NEW k \in Ids
  PROVE  /\ k \notin DOMAIN out => Settled(L, out).of[k] = L.of[k]
         /\ L.of[k].state = "unknown" => Settled(L, out).of[k] = L.of[k]
         /\ L \in LedgerValue =>
              \/ Settled(L, out).of[k].state = L.of[k].state
              \/ k \in DOMAIN out /\ Settled(L, out).of[k].state = out[k]
<1>1. Settled(L, out).of[k] = IF k \in DOMAIN out THEN Settle(L.of[k], out[k]) ELSE L.of[k]
  BY DEF Settled
<1>2. ASSUME L \in LedgerValue, k \in DOMAIN out
      PROVE  Settle(L.of[k], out[k]).state \in {L.of[k].state, out[k]}
  <2>1. L.of[k] \in Record
    BY <1>2 DEF LedgerValue
  <2>2. QED  BY <2>1 DEF Settle, Record
<1>3. QED  BY <1>1, <1>2 DEF Settle

(* What a tick does to the ledger: only ids that ended or that waited are  *)
(* settled, each with a final status.                                      *)
Finals == States \ {"unknown", "running"}

LEMMA TickSettles ==
  ASSUME IInv, PInv, Tick
  PROVE  /\ ledger'.order = ledger.order
         /\ \A k \in Ids : Known(ledger', k) <=> Known(ledger, k)
         /\ Waiting(reg') = {} /\ Running(reg') \subseteq Running(reg)
         /\ \A k \in Ids : ledger'.of[k].state \in States
         /\ \A k \in Ids : \/ ledger'.of[k].state = ledger.of[k].state
                           \/ /\ k \in (Running(reg) \ Running(reg')) \cup Waiting(reg)
                              /\ ledger.of[k].state # "unknown"
                              /\ ledger'.of[k].state \in Finals
<1>0. reg \in Registry /\ SlotsAgree(reg) /\ ledger \in LedgerValue
  BY DEF IInv, TypeOK, RegistryInv, OneOperationPerSlot
<1>1. PICK polls \in Pollable(Running(reg)) :
        LET ended == {id \in Running(reg) : polls[id] # "running"}
            out   == [id \in ended |-> polls[id]]
        IN  /\ reg' = Polled(reg, out)
            /\ ledger' = Settled(Settled(Settled(ledger, out),
                                         AllCancelled(reg.superseded)),
                                 AllCancelled(reg.cancelled))
  BY DEF Tick
<1> DEFINE ended == {id \in Running(reg) : polls[id] # "running"}
           out   == [id \in ended |-> polls[id]]
           L1 == Settled(ledger, out)
           L2 == Settled(L1, AllCancelled(reg.superseded))
           L3 == Settled(L2, AllCancelled(reg.cancelled))
<1>2. /\ DOMAIN out = ended /\ ended \subseteq Running(reg)
      /\ \A k \in ended : out[k] \in Finals
  BY DEF Pollable, Finals, States
<1>3. \A S : DOMAIN AllCancelled(S) = S /\ \A k \in S : AllCancelled(S)[k] \in Finals
  BY DEF AllCancelled, Finals, States
<1>4. reg' = Polled(reg, out) /\ ledger' = L3
  BY <1>1
<1> HIDE DEF out, ended
<1>5. Finals \subseteq States \ {"unknown"}
  BY DEF Finals
<1>6. L1 \in LedgerValue /\ \A k \in Ids : Known(L1, k) <=> Known(ledger, k)
  BY <1>0, <1>2, <1>5, SettledOK
<1>7. L1.order = ledger.order
  BY DEF Settled
<1>8. \A k \in Ids : \/ L1.of[k].state = ledger.of[k].state
                     \/ k \in ended /\ L1.of[k].state \in Finals
  BY <1>0, <1>2, SettledOne
<1> HIDE DEF L1
<1>9. L2 \in LedgerValue /\ \A k \in Ids : Known(L2, k) <=> Known(L1, k)
  BY <1>3, <1>5, <1>6, SettledOK
<1>10. L2.order = L1.order
  BY DEF Settled
<1>11. \A k \in Ids : \/ L2.of[k].state = L1.of[k].state
                      \/ k \in reg.superseded /\ L2.of[k].state \in Finals
  BY <1>3, <1>6, SettledOne
<1> HIDE DEF L2
<1>12. L3 \in LedgerValue /\ \A k \in Ids : Known(L3, k) <=> Known(L2, k)
  BY <1>3, <1>5, <1>9, SettledOK
<1>13. L3.order = L2.order
  BY DEF Settled
<1>14. \A k \in Ids : \/ L3.of[k].state = L2.of[k].state
                      \/ k \in reg.cancelled /\ L3.of[k].state \in Finals
  BY <1>3, <1>9, SettledOne
<1> HIDE DEF L3
<1>15. Running(reg') = Running(reg) \ ended /\ Waiting(reg') = {}
  <2>1. Running(Finished(reg, DOMAIN out)) = Running(reg) \ ended
    BY <1>0, <1>2, FinishedAgrees
  <2>2. \A id \in Ids : reg'.entries[id].live <=> Finished(reg, DOMAIN out).entries[id].live
    <3> SUFFICES ASSUME NEW id \in Ids
                 PROVE  reg'.entries[id].live <=> Finished(reg, DOMAIN out).entries[id].live
      OBVIOUS
    <3> DEFINE e == Finished(reg, DOMAIN out).entries[id]
    <3>1. e \in Entry
      BY <1>0, FinishedType DEF Registry
    <3>2. reg'.entries[id] = IF e.live /\ e.left > 0 THEN [e EXCEPT !.left = @ - 1] ELSE e
      BY <1>4 DEF Polled
    <3> HIDE DEF e
    <3>3. reg'.entries[id].live <=> e.live
      BY <3>1, <3>2 DEF Entry
    <3>4. QED  BY <3>3 DEF e
  <2>3. Waiting(reg') = {}
    BY <1>4 DEF Polled, Waiting
  <2>4. QED  BY <2>1, <2>2, <2>3 DEF Running
<1>16. ASSUME NEW k \in Ids
       PROVE  /\ ledger'.of[k].state \in States
              /\ \/ ledger'.of[k].state = ledger.of[k].state
                 \/ /\ k \in (Running(reg) \ Running(reg')) \cup Waiting(reg)
                    /\ ledger.of[k].state # "unknown"
                    /\ ledger'.of[k].state \in Finals
  <2>1. ledger'.of[k].state \in States
    BY <1>4, <1>12 DEF LedgerValue, Record
  <2>2. (ledger'.of[k].state # "unknown") <=> (ledger.of[k].state # "unknown")
    BY <1>4, <1>6, <1>9, <1>12 DEF Known
  <2>3. \/ ledger'.of[k].state = ledger.of[k].state
        \/ k \in ended \cup Waiting(reg) /\ ledger'.of[k].state \in Finals
    BY <1>4, <1>8, <1>11, <1>14 DEF Waiting
  <2>4. "unknown" \notin Finals
    BY DEF Finals
  <2>5. QED  BY <1>2, <1>15, <2>1, <2>2, <2>3, <2>4
<1>17. ledger'.order = ledger.order /\ \A k \in Ids : Known(ledger', k) <=> Known(ledger, k)
  BY <1>4, <1>6, <1>7, <1>9, <1>10, <1>12, <1>13
<1>18. QED  BY <1>15, <1>16, <1>17

(* A tick: what still runs was not settled, and nothing waits any more.    *)
LEMMA TickKeeps ==
  ASSUME IInv, PInv, Tick
  PROVE  PInv'
<1>1. /\ ledger'.order = ledger.order
      /\ \A k \in Ids : Known(ledger', k) <=> Known(ledger, k)
      /\ Waiting(reg') = {} /\ Running(reg') \subseteq Running(reg)
      /\ \A k \in Ids : \/ ledger'.of[k].state = ledger.of[k].state
                        \/ k \in (Running(reg) \ Running(reg')) \cup Waiting(reg)
  BY TickSettles
<1>2. forgotten' = forgotten
  BY DEF Tick
<1>3. LedgerInv'
  <2>1. Listed(ledger')
    BY <1>1 DEF PInv, LedgerInv, Listed
  <2>2. InnerFirst(ledger')
    BY <1>1 DEF PInv, LedgerInv, InnerFirst, Followed
  <2>3. QED  BY <2>1, <2>2 DEF LedgerInv
<1>4. RunningIsStoredRunning'
  <2> SUFFICES ASSUME NEW i \in Running(reg'), i \notin forgotten
               PROVE  ledger'.of[i].state = "running"
    BY <1>2 DEF RunningIsStoredRunning
  <2>1. i \in Running(reg) /\ i \in Ids /\ i \notin Waiting(reg)
    BY <1>1 DEF PInv, RunsOrWaits, Pending, Waiting, Running
  <2>2. ledger.of[i].state = "running"
    BY <2>1 DEF PInv, RunningIsStoredRunning
  <2>3. QED  BY <1>1, <2>1, <2>2
<1>5. PendingRemembered' /\ RunsOrWaits'
  BY <1>1 DEF PendingRemembered, RunsOrWaits, Pending, Waiting
<1>6. QED  BY <1>3, <1>4, <1>5 DEF PInv

(* The invariant of the ledger is inductive, given that of the registry.   *)
LEMMA InitTruthful == Init => PInv
<1> SUFFICES ASSUME Init PROVE PInv
  OBVIOUS
<1>1. /\ ledger.order = << >> /\ Len(ledger.order) = 0
      /\ \A k \in Ids : ~ Known(ledger, k)
  BY DEF Init, EmptyLedger, Known, NoRecord
<1>2. LedgerInv
  BY <1>1 DEF LedgerInv, Listed, InnerFirst, Followed
<1>3. Running(reg) = {} /\ Pending = {}
  BY EmptyRegistryOK DEF Init, Pending, EmptyRegistry
<1>4. QED  BY <1>2, <1>3 DEF PInv, RunningIsStoredRunning, PendingRemembered, RunsOrWaits

LEMMA NextTruthful == IInv /\ PInv /\ [Next]_vars => PInv'
<1> SUFFICES ASSUME IInv, PInv, [Next]_vars PROVE PInv'
  OBVIOUS
<1>1. CASE \E r \in Requests, body \in Bodies : Issue(r, body)
  BY <1>1, IssueNames, IssueKeeps DEF IInv, TypeOK
<1>2. CASE \E r \in Requests : Handle(r)
  BY <1>2, HandleAnswers, AnsweredOK, BegunOK DEF PInv
<1>3. CASE Tick
  BY <1>3, TickKeeps
<1>4. CASE (\E on \in BOOLEAN : Configure(on)) \/ UNCHANGED vars
  <2>1. UNCHANGED <<episode, ledger, reg, sent, forgotten>>
    BY <1>4 DEF Configure, vars
  <2>2. QED
    BY <2>1 DEF PInv, LedgerInv, RunningIsStoredRunning, PendingRemembered, RunsOrWaits, Pending
<1>5. QED  BY <1>1, <1>2, <1>3, <1>4 DEF Next

(* The ledger's order lists what is stored, once each and up to the limit, *)
(* a step behind its inner action, and what the records say is true.       *)
THEOREM LedgerTruthful == Spec => [](IInv /\ PInv)
BY InitOK, NextOK, InitTruthful, NextTruthful, PTL DEF Spec

(* What runs is stored as running, whatever was superseded, cancelled,     *)
(* polled, delivered again or dropped in between: request_status and       *)
(* collect never call an operation settled that still acts (runtime.lua    *)
(* ledger_store, ledger_settle, on_tick).                                  *)
THEOREM RunningIsRecorded == Spec => []RunningIsStoredRunning
<1>1. IInv /\ PInv => RunningIsStoredRunning
  BY DEF PInv
<1>2. QED  BY LedgerTruthful, <1>1, PTL

-----------------------------------------------------------------------------
(* Runtime implements Mutations: the initial state is one of its initial   *)
(* states, and every step is one of its steps or leaves it where it is.    *)
LEMMA InitImplements == Init => Promise!Init
BY DEF Init, Promise!Init, Unsent, EmptyLedger, NoRecord

LEMMA IssueImplements ==
  ASSUME IInv, NEW r \in Requests, NEW body \in Bodies, Issue(r, body)
  PROVE  Promise!Ask(r)
<1>1. sent \in [Requests -> Sent] /\ sent[r].ep = 0
  BY DEF Issue, Unsent, IInv, TypeOK
<1>2. [q \in Requests |-> sent'[q].ep]
        = [[q \in Requests |-> sent[q].ep] EXCEPT ![r] = episode]
  <2>1. \A q \in Requests : sent'[q].ep = IF q = r THEN episode ELSE sent[q].ep
    BY <1>1 DEF Issue
  <2>2. QED  BY <2>1
<1>3. UNCHANGED <<episode, ledger, forgotten>>
  BY DEF Issue
<1>4. QED  BY <1>1, <1>2, <1>3 DEF Promise!Ask

(* The states of the records are the promise's, and so is the request that *)
(* its first delivery finds unknown.                                       *)
LEMMA FreshImplements ==
  ASSUME NEW r \in Requests, sent[r].ep = episode, ~ Known(ledger, Top(r))
  PROVE  Promise!Fresh(r)
BY OwnIds DEF Promise!Fresh, Known

LEMMA AnsweredImplements ==
  ASSUME IInv, NEW r \in Requests, Answered(r)
  PROVE  Promise!Apply(r)
<1> DEFINE before == [id \in Ids |-> ledger.of[id].state]
           after  == [id \in Ids |-> ledger'.of[id].state]
<1>1. Promise!Fresh(r)
  BY FreshImplements DEF Answered
<1>2. after \in [Ids -> Promise!States]
  <2>1. States = Promise!States
    BY DEF Promise!States, States
  <2>2. \A id \in Ids : ledger'.of[id].state \in States
    BY DEF Answered, LedgerValue, Record
  <2>3. QED  BY <2>1, <2>2
<1>3. after[Top(r)] # "unknown"
  BY OwnIds DEF Answered, Known
<1>4. \A id \in Ids \ {Top(r), Act(r)} : after[id] \in {before[id], "unknown"}
  BY DEF Answered, Known
<1>5. forgotten' = forgotten \cup {id \in Ids : before[id] # "unknown" /\ after[id] = "unknown"}
  BY DEF Answered, StoreAll, Known
<1>6. episode' = episode /\ [q \in Requests |-> sent'[q].ep] = [q \in Requests |-> sent[q].ep]
  BY DEF Answered
<1>7. QED  BY <1>1, <1>2, <1>3, <1>4, <1>5, <1>6 DEF Promise!Apply

LEMMA BegunImplements ==
  ASSUME IInv, NEW r \in Requests, Begun(r)
  PROVE  Promise!Begin(r)
<1>1. Promise!Fresh(r)
  BY FreshImplements DEF Begun
<1>2. [id \in Ids |-> ledger'.of[id].state]
        = [id \in Ids |-> IF id = Top(r) THEN "completed" ELSE "unknown"]
  BY DEF Begun
<1>3. QED  BY <1>1, <1>2 DEF Promise!Begin, Begun

(* An id a tick settles was running, or was forgotten and known again.     *)
LEMMA TickImplements ==
  ASSUME IInv, PInv, Tick
  PROVE  Promise!Settle
<1> DEFINE before == [id \in Ids |-> ledger.of[id].state]
           after  == [id \in Ids |-> ledger'.of[id].state]
<1>1. after \in [Ids -> Promise!States]
  <2>1. States = Promise!States
    BY DEF Promise!States, States
  <2>2. QED  BY <2>1, TickSettles
<1>2. ASSUME NEW id \in Ids
      PROVE  \/ after[id] = before[id]
             \/ /\ before[id] = "running" \/ (id \in forgotten /\ before[id] # "unknown")
                /\ after[id] \in States \ {"unknown", "running"}
  <2>1. CASE after[id] = before[id]
    BY <2>1
  <2>2. CASE after[id] # before[id]
    <3>1. /\ id \in Running(reg) \cup Waiting(reg)
          /\ before[id] # "unknown" /\ after[id] \in Finals
      BY <2>2, TickSettles
    <3>2. id \in forgotten \/ before[id] = "running"
      BY <3>1 DEF PInv, RunningIsStoredRunning, PendingRemembered, Pending, Waiting
    <3>3. QED  BY <3>1, <3>2 DEF Finals
  <2>3. QED  BY <2>1, <2>2
<1>3. UNCHANGED <<episode, sent, forgotten>>
  BY DEF Tick
<1>4. QED  BY <1>1, <1>2, <1>3 DEF Promise!Settle

LEMMA NextImplements == IInv /\ PInv /\ [Next]_vars => [Promise!Next]_(Promise!vars)
<1> SUFFICES ASSUME IInv, PInv, [Next]_vars PROVE [Promise!Next]_(Promise!vars)
  OBVIOUS
<1>1. CASE \E r \in Requests, body \in Bodies : Issue(r, body)
  BY <1>1, IssueImplements DEF Promise!Next
<1>2. CASE \E r \in Requests : Handle(r)
  BY <1>2, HandleAnswers, AnsweredImplements, BegunImplements DEF PInv, Promise!Next
<1>3. CASE Tick
  BY <1>3, TickImplements DEF Promise!Next
<1>4. CASE (\E on \in BOOLEAN : Configure(on)) \/ UNCHANGED vars
  <2>1. UNCHANGED <<episode, ledger, sent, forgotten>>
    BY <1>4 DEF Configure, vars
  <2>2. QED  BY <2>1 DEF Promise!vars
<1>5. QED  BY <1>1, <1>2, <1>3, <1>4 DEF Next

(* Whatever is delivered, when and how often, the worker keeps its promise *)
(* to its clients: requests are applied one by one and once each, statuses *)
(* only move forward, and one is lost only to the ledger's limit or to the *)
(* end of its episode (runtime.lua handle_json, ledger_store,              *)
(* ledger_settle, begin_episode, on_tick).                                 *)
THEOREM PromiseKept == Spec => ImplementsMutations
<1>1. QED
  BY InitOK, NextOK, InitTruthful, NextTruthful, InitImplements, NextImplements, PTL
  DEF Spec, ImplementsMutations, Promise!Spec

-----------------------------------------------------------------------------
(* The session.  It never believes in an episode that has not begun, and   *)
(* no request of a session sets the world running.                         *)
Client == [at : {"idle", "waits", "answered", "polls"}, request : Requests \cup {None},
           polls : Nat, answer : [code : States \cup {"none", "stale"}, episode : Nat]]

SessionTypes ==
  /\ adopted \in Nat /\ adopted <= episode
  /\ read \in Nat /\ read <= episode
  /\ client \in Client
  /\ line \in Seq(Requests)
  /\ returned \in [Requests -> {"nothing", "failed", "stale", "refused", "settled"}]
  /\ stale \in SUBSET Requests
  /\ overtaken \in BOOLEAN
  /\ freeRunning = FALSE

(* What is stored or was forgotten of a request was applied, and is stored *)
(* as what was sent.                                                       *)
Recorded ==
  \A r \in Requests :
    /\ Known(ledger, Top(r)) \/ Top(r) \in forgotten => applied[r] > 0
    /\ Known(ledger, Top(r)) => ledger.of[Top(r)].type = sent[r].type
    /\ sent[r].type = "none" => returned[r] = "nothing"

(* A request that is still to be handled stands in the line once, and was  *)
(* neither applied nor reported on but for having failed.                  *)
Queued ==
  /\ \A i, j \in 1 .. Len(line) : line[i] = line[j] => i = j
  /\ \A i \in 1 .. Len(line) :
       /\ sent[line[i]].type # "none" /\ applied[line[i]] = 0
       /\ returned[line[i]] \in {"nothing", "failed"}

(* The call under way waits for the last request in the line; once it has  *)
(* the answer the line is empty, and stays so while it polls.              *)
Calling ==
  /\ client.at # "idle" =>
       /\ client.request \in Requests /\ sent[client.request].type # "none"
       /\ returned[client.request] = "nothing"
  /\ client.at = "waits" => line # << >> /\ line[Len(line)] = client.request
  /\ client.at \in {"answered", "polls"} => line = << >>

(* No other interval than that of r is in flight, and r was not forgotten. *)
Alone(r) == reg.slots["advance"] \in {Top(r), None} /\ Top(r) \notin forgotten

(* An answer in hand still holds: a refusal as stale was not applied; any  *)
(* other answer was, once, and an interval that was not rejected runs.     *)
AnswerHolds ==
  client.at = "answered" =>
    /\ client.answer.episode = episode
    /\ \/ /\ client.answer.code = "stale"
          /\ applied[client.request] = 0 /\ sent[client.request].ep # episode
       \/ /\ client.answer.code \in States \ {"unknown"}
          /\ applied[client.request] = 1
          /\ client.request \in Intervals /\ client.answer.code # "rejected" =>
               client.answer.code = "running" /\ Alone(client.request)

(* What is polled for is an interval, applied once, and no other is in     *)
(* flight; after it is reported as settled none is.                        *)
IntervalsAlone ==
  /\ client.at = "polls" =>
       /\ client.request \in Intervals /\ applied[client.request] = 1
       /\ Alone(client.request)
  /\ client.at = "idle" /\ client.request \in {r \in Intervals : returned[r] = "settled"}
       => line = << >> /\ ~ Occupied(reg, "advance")

(* What was reported of each request is so.                                *)
Reported ==
  \A r \in Requests :
    /\ returned[r] = "settled" => applied[r] = 1 /\ ~ IntervalRuns(r)
    /\ returned[r] = "stale" => applied[r] = 0

(* After one refusal as stale the session believes in the current episode, *)
(* and so does the request that is under way.                              *)
Heals ==
  ~ overtaken =>
    /\ Cardinality(stale) <= 1
    /\ stale # {} =>
         /\ adopted = episode
         /\ client.at \in {"waits", "answered"} => sent[client.request].ep = episode

SInv ==
  /\ IInv /\ PInv /\ SessionTypes /\ Recorded /\ Queued /\ Calling
  /\ AnswerHolds /\ IntervalsAlone /\ Reported /\ Heals

-----------------------------------------------------------------------------
(* What a handler does for its own request: it is stored as what was sent, *)
(* and an interval that is not rejected holds the advance slot.            *)
Handled(r) ==
  /\ Ran(r) /\ UNCHANGED <<sent, freeRunning>>
  /\ ledger'.of[Top(r)].type = sent[r].type
  /\ ledger'.of[Top(r)].state \in States \ {"unknown"}
  /\ r \in Intervals /\ ledger'.of[Top(r)].state # "rejected" =>
       ledger'.of[Top(r)].state = "running" /\ reg'.slots["advance"] = Top(r)

(* The record an answer leaves under the request's own id.                 *)
LEMMA AnswerStores ==
  ASSUME IInv, NEW r \in Requests, NEW type \in Types, NEW state \in States,
         Answer(r, type, state)
  PROVE  ledger'.of[Top(r)] = Fresh(type, state)
<1>1. ledger \in LedgerValue /\ Top(r) \in Ids /\ Fresh(type, state) \in Record
  BY OwnIds, FreshOK DEF IInv, TypeOK
<1>2. Stored(ledger, Top(r), Fresh(type, state)).of[Top(r)] = Fresh(type, state)
  BY <1>1, StoredOK
<1>3. QED  BY <1>2 DEF Answer, StoreAll

(* An answer of a request that is no interval, or that is rejected.        *)
LEMMA AnswerHandles ==
  ASSUME IInv, NEW r \in Requests, NEW type \in Types \ {"none"},
         sent[r].type = type, Ran(r), UNCHANGED <<sent, freeRunning>>,
         NEW state \in States \ {"unknown"}, Answer(r, type, state),
         type \in {"step", "advance"} => state = "rejected"
  PROVE  Handled(r)
<1>1. ledger'.of[Top(r)] = Fresh(type, state)
  BY AnswerStores
<1>2. QED  BY <1>1 DEF Handled, Fresh, Intervals

(* An interval that starts takes the advance slot.                         *)
LEMMA StartedSlot ==
  ASSUME NEW g, NEW id, NEW left
  PROVE  Started(g, id, "advance", left).slots["advance"] = id
BY DEF Started, Slots, SlotOf

LEMMA HandleHandles ==
  ASSUME IInv, NEW r \in Requests, Handle(r)
  PROVE  Handled(r)
<1>0. "running" \in States \ {"unknown"} /\ "rejected" \in States \ {"unknown"}
      /\ "completed" \in States \ {"unknown"}
  BY DEF States
<1>1. CASE Advance(r)
  <2>1. Accepted(r, "advance") /\ Ran(r) /\ UNCHANGED <<sent, freeRunning>>
        /\ "advance" \in Types \ {"none"}
    BY <1>1 DEF Advance, Types
  <2>2. CASE reg' = Started(reg, Top(r), "advance", sent[r].ticks)
             /\ Answer(r, "advance", "running")
    <3>1. ledger'.of[Top(r)] = Fresh("advance", "running")
      BY <1>0, <2>1, <2>2, AnswerStores
    <3>2. reg'.slots["advance"] = Top(r)
      BY <2>2, StartedSlot
    <3>3. QED  BY <1>0, <2>1, <3>1, <3>2 DEF Handled, Fresh, Accepted
  <2>3. CASE Answer(r, "advance", "rejected")
    BY <1>0, <2>1, <2>3, AnswerHandles DEF Accepted
  <2>4. QED  BY <1>1, <2>2, <2>3 DEF Advance
<1>2. CASE ActAlone(r)
  <2>1. Accepted(r, "act") /\ Ran(r) /\ UNCHANGED <<sent, freeRunning>>
        /\ "act" \in Types \ {"none"} /\ reg \in Registry /\ SlotsAgree(reg)
    BY <1>2 DEF ActAlone, Types, IInv, TypeOK, RegistryInv, OneOperationPerSlot
  <2>2. PICK o \in Dispatch(reg, Top(r), sent[r]) : Answer(r, "act", o.state)
    BY <1>2 DEF ActAlone
  <2>3. /\ sent[r] \in Sent
        /\ Top(r) \in Running(reg) => reg.entries[Top(r)].action = sent[r].action
    BY <2>1, AcceptedRequest
  <2>4. o.state \in States \ {"unknown"}
    BY <2>1, <2>2, <2>3, OwnIds, DispatchSound DEF SoundOutcome
  <2>5. QED  BY <2>1, <2>2, <2>4, AnswerHandles DEF Accepted
<1>3. CASE StepRefused(r)
  BY <1>0, <1>3, AnswerHandles DEF StepRefused, Accepted, Types
<1>4. CASE Step(r)
  <2>1. Accepted(r, "step") /\ Ran(r) /\ UNCHANGED <<sent, freeRunning>>
        /\ "step" \in Types \ {"none"} /\ "act" \in Types
        /\ reg \in Registry /\ SlotsAgree(reg) /\ ledger \in LedgerValue
    BY <1>4 DEF Step, Types, IInv, TypeOK, RegistryInv, OneOperationPerSlot
  <2>2. PICK o \in Dispatch(reg, Act(r), sent[r]) :
          \/ Answer(r, "step", "rejected")
          \/ /\ reg' = Started(o.reg, Top(r), "advance", sent[r].ticks)
             /\ ledger' = Stored(Stored(ledger, Act(r), Fresh("act", o.state)),
                                 Top(r), Fresh("step", "running"))
    BY <1>4 DEF Step, StoreAll
  <2>3. CASE Answer(r, "step", "rejected")
    BY <1>0, <2>1, <2>3, AnswerHandles DEF Accepted
  <2>4. CASE /\ reg' = Started(o.reg, Top(r), "advance", sent[r].ticks)
             /\ ledger' = Stored(Stored(ledger, Act(r), Fresh("act", o.state)),
                                 Top(r), Fresh("step", "running"))
    <3>1. /\ sent[r] \in Sent
          /\ Act(r) \in Running(reg) => reg.entries[Act(r)].action = sent[r].action
      BY <2>1, AcceptedRequest
    <3>2. o.state \in States \ {"unknown"}
      BY <2>1, <2>2, <3>1, OwnIds, DispatchSound DEF SoundOutcome
    <3>3. Fresh("act", o.state) \in Record /\ Fresh("step", "running") \in Record
      BY <1>0, <2>1, <3>2, FreshOK
    <3>4. Stored(ledger, Act(r), Fresh("act", o.state)) \in LedgerValue
      BY <2>1, <3>3, OwnIds, StoredOK
    <3>5. ledger'.of[Top(r)] = Fresh("step", "running")
      BY <2>4, <3>3, <3>4, OwnIds, StoredOK
    <3>6. reg'.slots["advance"] = Top(r)
      BY <2>4, StartedSlot
    <3>7. QED  BY <1>0, <2>1, <3>5, <3>6 DEF Handled, Fresh, Accepted
  <2>5. QED  BY <2>2, <2>3, <2>4
<1>5. ASSUME NEW type \in {"reset", "open_world"}, Accepted(r, type), Ran(r),
             UNCHANGED <<sent, freeRunning>>,
             BeginEpisode(r, type) \/ Answer(r, type, "rejected")
      PROVE  Handled(r)
  <2>1. type \in Types \ {"none"}
    BY DEF Types
  <2>2. CASE Answer(r, type, "rejected")
    BY <1>0, <1>5, <2>1, <2>2, AnswerHandles DEF Accepted
  <2>3. CASE BeginEpisode(r, type)
    <3>1. ledger'.of[Top(r)] = Fresh(type, "completed")
      BY <1>0, <2>1, <2>3, EmptyLedgerOK, OwnIds, FreshOK, StoredOK DEF BeginEpisode
    <3>2. QED  BY <1>0, <1>5, <2>1, <3>1 DEF Handled, Fresh, Accepted, Intervals
  <2>4. QED  BY <1>5, <2>2, <2>3
<1>6. CASE Reset(r)
  BY <1>5, <1>6 DEF Reset
<1>7. CASE OpenWorld(r)
  BY <1>5, <1>7 DEF OpenWorld
<1>8. CASE OtherMutation(r)
  <2>1. PICK state \in {"completed", "rejected"} : Answer(r, "other", state)
    BY <1>8 DEF OtherMutation
  <2>2. QED  BY <1>0, <1>8, <2>1, AnswerHandles DEF OtherMutation, Accepted, Types
<1>9. QED  BY <1>1, <1>2, <1>3, <1>4, <1>6, <1>7, <1>8 DEF Handle

-----------------------------------------------------------------------------
(* A tick changes no record's type, hands the advance slot to nobody and   *)
(* settles what runs.                                                      *)
LEMMA SettledTypes ==
  ASSUME NEW L \in LedgerValue, NEW out, NEW k \in Ids
  PROVE  Settled(L, out).of[k].type = L.of[k].type
<1>1. L.of[k] \in Record
  BY DEF LedgerValue
<1>2. Settle(L.of[k], out[k]).type = L.of[k].type
  BY <1>1 DEF Settle, Record
<1>3. Settled(L, out).of[k] = IF k \in DOMAIN out THEN Settle(L.of[k], out[k]) ELSE L.of[k]
  BY DEF Settled
<1>4. QED  BY <1>2, <1>3

LEMMA TickFrees ==
  ASSUME IInv, PInv, Tick
  PROVE  /\ UNCHANGED <<episode, freeRunning, sent, applied, forgotten>>
         /\ \A k \in Ids : /\ ledger'.of[k].type = ledger.of[k].type
                           /\ Known(ledger', k) <=> Known(ledger, k)
                           /\ ledger'.of[k].state = "running" => ledger.of[k].state = "running"
         /\ reg'.slots["advance"] \in {reg.slots["advance"], None}
         /\ Occupied(reg', "advance") => Occupied(reg, "advance")
<1>0. reg \in Registry /\ SlotsAgree(reg) /\ ledger \in LedgerValue
  BY DEF IInv, TypeOK, RegistryInv, OneOperationPerSlot
<1>1. PICK polls \in Pollable(Running(reg)) :
        LET ended == {id \in Running(reg) : polls[id] # "running"}
            out   == [id \in ended |-> polls[id]]
        IN  /\ reg' = Polled(reg, out)
            /\ ledger' = Settled(Settled(Settled(ledger, out),
                                         AllCancelled(reg.superseded)),
                                 AllCancelled(reg.cancelled))
  BY DEF Tick
<1> DEFINE ended == {id \in Running(reg) : polls[id] # "running"}
           out   == [id \in ended |-> polls[id]]
           L1 == Settled(ledger, out)
           L2 == Settled(L1, AllCancelled(reg.superseded))
           L3 == Settled(L2, AllCancelled(reg.cancelled))
<1>2. \A k \in DOMAIN out : out[k] \in States \ {"unknown"}
  BY DEF Pollable, States
<1>3. \A S : \A k \in DOMAIN AllCancelled(S) : AllCancelled(S)[k] \in States \ {"unknown"}
  BY DEF AllCancelled, States
<1>4. reg' = Polled(reg, out) /\ ledger' = L3
  BY <1>1
<1> HIDE DEF out, ended
<1>5. L1 \in LedgerValue /\ \A k \in Ids : L1.of[k].type = ledger.of[k].type
  BY <1>0, <1>2, SettledOK, SettledTypes
<1> HIDE DEF L1
<1>6. L2 \in LedgerValue /\ \A k \in Ids : L2.of[k].type = L1.of[k].type
  BY <1>3, <1>5, SettledOK, SettledTypes
<1> HIDE DEF L2
<1>7. \A k \in Ids : L3.of[k].type = L2.of[k].type
  BY <1>3, <1>6, SettledTypes
<1> HIDE DEF L3
<1>8. \A k \in Ids : ledger'.of[k].type = ledger.of[k].type
  BY <1>4, <1>5, <1>6, <1>7
<1>9. \A k \in Ids : /\ Known(ledger', k) <=> Known(ledger, k)
                     /\ ledger'.of[k].state = "running" => ledger.of[k].state = "running"
  BY TickSettles DEF Finals
<1>10. reg'.slots["advance"] \in {reg.slots["advance"], None}
  BY <1>4 DEF Polled, Finished, Slots
<1>11. Occupied(reg', "advance") => Occupied(reg, "advance")
  <2> SUFFICES ASSUME Occupied(reg', "advance") PROVE Occupied(reg, "advance")
    OBVIOUS
  <2>1. reg'.slots["advance"] = reg.slots["advance"] /\ reg.slots["advance"] # None
        /\ reg'.entries[reg.slots["advance"]].live
    BY <1>10 DEF Occupied
  <2>2. reg.slots["advance"] \in Ids
    BY <1>0, <2>1 DEF Registry, Slots
  <2>3. reg.slots["advance"] \in Running(reg)
    BY <2>1, <2>2, TickSettles DEF Running
  <2>4. QED  BY <2>1, <2>3 DEF Occupied, Running
<1>12. QED  BY <1>8, <1>9, <1>10, <1>11 DEF Tick

-----------------------------------------------------------------------------
(* The session's own invariants, one action after the other.               *)
LEMMA SessionStarts == SInit => SInv
<1> SUFFICES ASSUME SInit PROVE SInv
  OBVIOUS
<1>1. IInv /\ PInv
  BY InitOK, InitTruthful DEF SInit
<1>2. /\ episode = 1 /\ adopted = 0 /\ read = 0 /\ line = << >> /\ Len(line) = 0
      /\ freeRunning = FALSE /\ returned = [r \in Requests |-> "nothing"]
      /\ forgotten = {} /\ stale = {} /\ overtaken = FALSE /\ client.at = "idle"
      /\ \A r \in Requests : sent[r] = Unsent
      /\ \A k \in Ids : ~ Known(ledger, k)
  BY DEF SInit, Init, NoEpisode, EmptyLedger, Known, NoRecord
<1>3. client \in Client
  BY DEF SInit, Client, NoAnswer, NoEpisode
<1>4. SessionTypes
  <2>1. << >> \in Seq(Requests) /\ {} \in SUBSET Requests
    OBVIOUS
  <2>2. 0 \in Nat /\ 0 <= 1 /\ FALSE \in BOOLEAN
    OBVIOUS
  <2>3. returned \in [Requests -> {"nothing", "failed", "stale", "refused", "settled"}]
    BY <1>2
  <2>4. QED  BY <1>2, <1>3, <2>1, <2>2, <2>3 DEF SessionTypes
<1>5. Recorded
  BY <1>2, OwnIds DEF Recorded
<1>6. Queued /\ Calling /\ AnswerHolds /\ Reported
  BY <1>2 DEF Queued, Calling, AnswerHolds, Reported
<1>7. IntervalsAlone
  BY <1>2 DEF IntervalsAlone, Intervals, Unsent
<1>8. Heals
  BY <1>2, FS_EmptySet DEF Heals
<1>9. QED  BY <1>1, <1>4, <1>5, <1>6, <1>7, <1>8 DEF SInv

(* The worker's part when the worker does not move.                        *)
LEMMA WorkerStays ==
  ASSUME SInv, UNCHANGED vars
  PROVE  /\ IInv' /\ PInv' /\ episode' = episode /\ freeRunning' = freeRunning
         /\ \A r \in Requests : (IntervalRuns(r)' <=> IntervalRuns(r)) /\ (Alone(r)' <=> Alone(r))
         /\ Intervals' = Intervals /\ (Occupied(reg, "advance")' <=> Occupied(reg, "advance"))
         /\ sent' = sent /\ applied' = applied
<1>1. [Next]_vars
  OBVIOUS
<1>2. IInv' /\ PInv'
  BY <1>1, NextOK, NextTruthful DEF SInv
<1>3. QED  BY <1>2 DEF vars, IntervalRuns, Alone, Intervals, Occupied

(* Recorded and Reported say nothing of the session but returned.          *)
LEMMA RecordedStays ==
  ASSUME SInv, UNCHANGED vars, returned' = returned
  PROVE  Recorded' /\ Reported'
BY WorkerStays DEF SInv, Recorded, Reported, vars, Known

(* What is told of the request under way changes nothing that was told of  *)
(* the others.                                                             *)
LEMMA Told ==
  ASSUME SInv, UNCHANGED vars, client.at # "idle",
         NEW outcome \in {"failed", "stale", "refused", "settled"}, Returns(outcome),
         outcome = "settled" => applied[client.request] = 1 /\ ~ IntervalRuns(client.request),
         outcome = "stale" => applied[client.request] = 0
  PROVE  /\ Recorded' /\ Reported'
         /\ returned' \in [Requests -> {"nothing", "failed", "stale", "refused", "settled"}]
         /\ \A r \in Requests : returned'[r] = IF r = client.request THEN outcome ELSE returned[r]
         /\ client' \in Client /\ client'.at = "idle" /\ client'.request = client.request
<1>1. /\ client \in Client
      /\ returned \in [Requests -> {"nothing", "failed", "stale", "refused", "settled"}]
      /\ client.request \in Requests /\ sent[client.request].type # "none"
  BY DEF SInv, SessionTypes, Calling
<1>2. \A r \in Requests : returned'[r] = IF r = client.request THEN outcome ELSE returned[r]
  BY <1>1 DEF Returns
<1>3. returned' \in [Requests -> {"nothing", "failed", "stale", "refused", "settled"}]
  BY <1>1 DEF Returns
<1>4. client' \in Client /\ client'.at = "idle" /\ client'.request = client.request
  <2>1. client' = [client EXCEPT !.at = "idle", !.polls = 0, !.answer = NoAnswer]
    BY DEF Returns
  <2>2. QED  BY <1>1, <2>1 DEF Client, NoAnswer, NoEpisode
<1>5. Recorded' /\ Reported'
  BY <1>1, <1>2, WorkerStays DEF SInv, Recorded, Reported, vars, Known
<1>6. QED  BY <1>2, <1>3, <1>4, <1>5

-----------------------------------------------------------------------------
(* The caller asks: the id is new, so nothing is known of it yet.          *)
LEMMA AskOK ==
  ASSUME SInv, NEW r \in Requests, NEW body \in Bodies, Ask(r, body)
  PROVE  SInv'
<1>1. /\ IInv /\ PInv /\ SessionTypes /\ Recorded /\ Queued /\ Calling
      /\ AnswerHolds /\ IntervalsAlone /\ Reported /\ Heals
  BY DEF SInv
<1>2. Names(r, body, adopted) /\ adopted \in Nat /\ adopted <= episode
  BY <1>1 DEF Ask, NextRequest, Names, SessionTypes
<1>3. IInv' /\ PInv'
  BY <1>1, <1>2, IssueOK, IssueKeeps
<1>4. /\ sent[r].type = "none" /\ client.at = "idle"
      /\ sent'[r].type # "none" /\ sent'[r].ep = adopted
      /\ \A q \in Requests : q # r => sent'[q] = sent[q]
      /\ client' = [client EXCEPT !.at = "waits", !.request = r, !.polls = Polls]
      /\ line' = Append(line, r)
      /\ UNCHANGED <<episode, ledger, reg, paused, freeRunning, applied, forgotten,
                     adopted, read, returned, stale, overtaken>>
  <2>1. sent \in [Requests -> Sent] /\ body \in Body
    BY <1>1 DEF IInv, TypeOK
  <2>2. sent[r] = Unsent /\ sent' = [sent EXCEPT ![r] = [type |-> body.type,
          action |-> body.action, span |-> body.span, ticks |-> body.ticks, ep |-> adopted]]
    BY <1>2 DEF Names
  <2>3. QED  BY <2>1, <2>2 DEF Ask, Body, Unsent
<1>5. applied[r] = 0 /\ returned[r] = "nothing"
  <2>1. applied[r] \in 0 .. 2 /\ ~ (applied[r] > 0)
    BY <1>1, <1>4 DEF IInv, TypeOK, MemoryInv, AppliedRemembered
  <2>2. QED  BY <1>1, <1>4, <2>1 DEF Recorded
<1>6. ~ Known(ledger, Top(r))
  BY <1>1, <1>5 DEF Recorded
<1>7. client \in Client /\ line \in Seq(Requests)
  BY <1>1 DEF SessionTypes
<1>8. /\ client' \in Client /\ client'.at = "waits" /\ client'.request = r
  BY <1>4, <1>7, SessionAssumption DEF Client
<1>9. /\ line' \in Seq(Requests) /\ Len(line') = Len(line) + 1 /\ Len(line) \in Nat
      /\ \A i \in 1 .. Len(line) : line'[i] = line[i]
      /\ line'[Len(line')] = r
  BY <1>4, <1>7
<1>10. \A i \in 1 .. Len(line) : line[i] \in Requests /\ line[i] # r
  <2>1. \A i \in 1 .. Len(line) : line[i] \in Requests
    BY <1>7
  <2>2. QED  BY <1>1, <1>4, <2>1 DEF Queued
<1>11. SessionTypes'
  BY <1>1, <1>4, <1>8, <1>9 DEF SessionTypes
<1>12. Recorded'
  BY <1>1, <1>4, <1>5, <1>6 DEF Recorded, Known
<1>13. Queued'
  <2>1. \A i \in 1 .. Len(line') : i \in 1 .. Len(line) \/ i = Len(line')
    BY <1>9
  <2>2. \A i, j \in 1 .. Len(line') : line'[i] = line'[j] => i = j
    BY <1>1, <1>9, <1>10, <2>1 DEF Queued
  <2>3. \A i \in 1 .. Len(line') :
          /\ sent'[line'[i]].type # "none" /\ applied'[line'[i]] = 0
          /\ returned'[line'[i]] \in {"nothing", "failed"}
    BY <1>1, <1>4, <1>5, <1>9, <1>10, <2>1 DEF Queued
  <2>4. QED  BY <2>2, <2>3 DEF Queued
<1>14. Calling' /\ AnswerHolds' /\ IntervalsAlone'
  <2>1. line' # << >>
    BY <1>9
  <2>2. QED  BY <1>4, <1>5, <1>8, <1>9, <2>1 DEF Calling, AnswerHolds, IntervalsAlone
<1>15. Reported'
  BY <1>1, <1>4 DEF Reported, IntervalRuns
<1>16. Heals'
  BY <1>1, <1>4, <1>8 DEF Heals
<1>17. QED
  BY <1>3, <1>11, <1>12, <1>13, <1>14, <1>15, <1>16 DEF SInv

(* A query and a reading of the sampler: the session adopts what is so.    *)
LEMMA QueryOK ==
  ASSUME SInv, Query
  PROVE  SInv'
<1>1. /\ UNCHANGED vars /\ UNCHANGED <<client, read, line, returned, stale, overtaken>>
      /\ adopted' = episode /\ episode' = episode /\ episode \in Nat /\ client.at = "idle"
  BY DEF Query, vars, SInv, IInv, TypeOK
<1>2. IInv' /\ PInv' /\ Recorded' /\ Reported'
  BY <1>1, WorkerStays, RecordedStays
<1>3. SessionTypes'
  <2>1. adopted' \in Nat /\ adopted' <= episode' /\ read' = read /\ freeRunning' = freeRunning
    BY <1>1, WorkerStays
  <2>2. QED  BY <1>1, <2>1 DEF SInv, SessionTypes
<1>4. Queued' /\ Calling' /\ AnswerHolds' /\ IntervalsAlone'
  BY <1>1, WorkerStays DEF SInv, Queued, Calling, AnswerHolds, IntervalsAlone
<1>5. Heals'
  BY <1>1, WorkerStays DEF SInv, Heals
<1>6. QED  BY <1>2, <1>3, <1>4, <1>5 DEF SInv

LEMMA SamplerReadsOK ==
  ASSUME SInv, SamplerReads
  PROVE  SInv'
<1>1. /\ UNCHANGED vars /\ UNCHANGED <<adopted, client, line, returned, stale, overtaken>>
      /\ read' = episode /\ episode' = episode /\ episode \in Nat
  BY DEF SamplerReads, vars, SInv, IInv, TypeOK
<1>2. IInv' /\ PInv' /\ Recorded' /\ Reported'
  BY <1>1, WorkerStays, RecordedStays
<1>3. SessionTypes'
  <2>1. read' \in Nat /\ read' <= episode' /\ freeRunning' = freeRunning
    BY <1>1, WorkerStays
  <2>2. QED  BY <1>1, <2>1 DEF SInv, SessionTypes
<1>4. Queued' /\ Calling'
  BY <1>1, WorkerStays DEF SInv, Queued, Calling
<1>5. AnswerHolds' /\ IntervalsAlone'
  BY <1>1, WorkerStays DEF SInv, Calling, AnswerHolds, IntervalsAlone
<1>6. Heals'
  BY <1>1, WorkerStays DEF SInv, Heals
<1>7. QED  BY <1>2, <1>3, <1>4, <1>5, <1>6 DEF SInv

(* What the sampler adopts late is marked, unless it is still so.          *)
LEMMA SamplerAdoptsOK ==
  ASSUME SInv, SamplerAdopts
  PROVE  SInv'
<1>1. /\ UNCHANGED vars /\ UNCHANGED <<client, line, returned, stale>>
      /\ adopted' = read /\ read' = 0 /\ overtaken' = (overtaken \/ read # episode)
      /\ episode' = episode /\ episode \in Nat /\ read \in Nat /\ read <= episode
  BY DEF SamplerAdopts, vars, SInv, IInv, TypeOK, NoEpisode, SessionTypes
<1>2. IInv' /\ PInv' /\ Recorded' /\ Reported'
  BY <1>1, WorkerStays, RecordedStays
<1>3. SessionTypes'
  <2>1. overtaken' \in BOOLEAN /\ read' \in Nat /\ read' <= episode
    BY <1>1
  <2>2. QED  BY <1>1, <2>1, WorkerStays DEF SInv, SessionTypes
<1>4. Queued' /\ Calling'
  BY <1>1, WorkerStays DEF SInv, Queued, Calling
<1>5. AnswerHolds' /\ IntervalsAlone'
  BY <1>1, WorkerStays DEF SInv, Calling, AnswerHolds, IntervalsAlone
<1>6. Heals'
  <2> SUFFICES ASSUME ~ overtaken'
               PROVE  /\ Cardinality(stale') <= 1
                      /\ stale' # {} =>
                           /\ adopted' = episode'
                           /\ client'.at \in {"waits", "answered"} =>
                                sent'[client'.request].ep = episode'
    BY DEF Heals
  <2>1. ~ overtaken /\ read = episode
    BY <1>1
  <2>2. QED  BY <1>1, <2>1, WorkerStays DEF SInv, Heals
<1>7. QED  BY <1>2, <1>3, <1>4, <1>5, <1>6 DEF SInv

(* A call that times out: its request stays in the line.                   *)
LEMMA TimeOutOK ==
  ASSUME SInv, TimeOut
  PROVE  SInv'
<1>1. /\ UNCHANGED vars /\ UNCHANGED <<adopted, read, line, stale, overtaken>>
      /\ client.at \in {"waits", "polls"} /\ Returns("failed") /\ episode' = episode
  BY DEF TimeOut, vars
<1>2. /\ Recorded' /\ Reported'
      /\ returned' \in [Requests -> {"nothing", "failed", "stale", "refused", "settled"}]
      /\ \A r \in Requests : returned'[r] = IF r = client.request THEN "failed" ELSE returned[r]
      /\ client' \in Client /\ client'.at = "idle" /\ client'.request = client.request
  BY <1>1, Told
<1>3. IInv' /\ PInv'
  BY <1>1, WorkerStays
<1>4. SessionTypes'
  BY <1>1, <1>2, WorkerStays DEF SInv, SessionTypes
<1>5. Queued'
  <2>1. \A i \in 1 .. Len(line) : line[i] \in Requests
    BY DEF SInv, SessionTypes
  <2>2. QED  BY <1>1, <1>2, <2>1, WorkerStays DEF SInv, Queued
<1>6. Calling' /\ AnswerHolds' /\ IntervalsAlone'
  BY <1>2 DEF Calling, AnswerHolds, IntervalsAlone, Intervals
<1>7. Heals'
  BY <1>1, <1>2, WorkerStays DEF SInv, Heals
<1>8. QED  BY <1>2, <1>3, <1>4, <1>5, <1>6, <1>7 DEF SInv

(* The answer is taken: the call ends, or polls for its interval.          *)
LEMMA ReceiveOK ==
  ASSUME SInv, Receive
  PROVE  SInv'
<1> DEFINE q == client.request
           code == client.answer.code
<1>1. /\ UNCHANGED vars /\ UNCHANGED <<read, line, overtaken>>
      /\ client.at = "answered" /\ adopted' = client.answer.episode
  BY DEF Receive, Adopted, vars
<1>2. /\ client.answer.episode = episode /\ line = << >>
      /\ q \in Requests /\ sent[q].type # "none" /\ returned[q] = "nothing"
      /\ episode \in Nat /\ client \in Client
      /\ \/ code = "stale" /\ applied[q] = 0 /\ sent[q].ep # episode
         \/ /\ code \in States \ {"unknown"} /\ applied[q] = 1
            /\ q \in Intervals /\ code # "rejected" => code = "running" /\ Alone(q)
  BY <1>1 DEF SInv, AnswerHolds, Calling, SessionTypes, IInv, TypeOK
<1>3. /\ IInv' /\ PInv' /\ episode' = episode /\ freeRunning' = freeRunning
      /\ adopted' = episode /\ adopted' \in Nat /\ adopted' <= episode' /\ read' <= episode'
  <2>1. IInv' /\ PInv' /\ episode' = episode /\ freeRunning' = freeRunning
    BY <1>1, WorkerStays
  <2>2. read' <= episode
    BY <1>1 DEF SInv, SessionTypes
  <2>3. QED  BY <1>1, <1>2, <2>1, <2>2
<1>4. Queued'
  <2>1. Len(line') = 0
    BY <1>1, <1>2
  <2>2. QED  BY <2>1 DEF Queued
<1> HIDE DEF q, code
<1>5. CASE code = "stale" /\ Returns("stale") /\ stale' = stale \cup {q}
  <2>1. applied[q] = 0 /\ sent[q].ep # episode
    BY <1>2, <1>5 DEF States
  <2>2. /\ Recorded' /\ Reported'
        /\ returned' \in [Requests -> {"nothing", "failed", "stale", "refused", "settled"}]
        /\ \A r \in Requests : returned'[r] = IF r = q THEN "stale" ELSE returned[r]
        /\ client' \in Client /\ client'.at = "idle" /\ client'.request = q
    BY <1>1, <1>5, <2>1, Told DEF q
  <2>3. SessionTypes'
    <3>1. stale' \in SUBSET Requests
      BY <1>2, <1>5 DEF SInv, SessionTypes
    <3>2. QED  BY <1>1, <1>3, <2>2, <3>1 DEF SInv, SessionTypes
  <2>4. Calling' /\ AnswerHolds' /\ IntervalsAlone'
    BY <1>2, <2>2 DEF Calling, AnswerHolds, IntervalsAlone, Intervals
  <2>5. Heals'
    <3> SUFFICES ASSUME ~ overtaken PROVE Cardinality(stale') <= 1
      BY <1>1, <1>3, <2>2 DEF Heals
    <3>1. stale = {}
      BY <1>1, <2>1 DEF SInv, Heals, q
    <3>2. stale' = {q}
      BY <1>5, <3>1
    <3>3. Cardinality(stale') = 1
      BY <3>2, FS_Singleton
    <3>4. QED  BY <3>3
  <2>6. QED  BY <1>3, <1>4, <2>2, <2>3, <2>4, <2>5 DEF SInv
<1>6. CASE /\ Open(q, code)
           /\ client' = [client EXCEPT !.at = "polls", !.answer = NoAnswer]
           /\ UNCHANGED <<returned, stale>>
  <2>1. client' \in Client /\ client'.at = "polls" /\ client'.request = q
    BY <1>2, <1>6 DEF Client, NoAnswer, NoEpisode, q
  <2>2. q \in Intervals /\ applied[q] = 1 /\ Alone(q)
    BY <1>2, <1>6 DEF Open, States
  <2>3. Recorded' /\ Reported'
    BY <1>1, <1>6, RecordedStays
  <2>4. SessionTypes'
    BY <1>1, <1>3, <1>6, <2>1 DEF SInv, SessionTypes
  <2>5. Calling'
    BY <1>1, <1>2, <1>6, <2>1, WorkerStays DEF Calling
  <2>6. AnswerHolds' /\ IntervalsAlone'
    BY <1>1, <1>2, <2>1, <2>2, WorkerStays DEF AnswerHolds, IntervalsAlone
  <2>7. Heals'
    BY <1>1, <1>3, <1>6, <2>1, WorkerStays DEF SInv, Heals
  <2>8. QED  BY <1>3, <1>4, <2>3, <2>4, <2>5, <2>6, <2>7 DEF SInv
<1>7. CASE /\ code # "stale" /\ ~ Open(q, code)
           /\ Returns(IF code = "rejected" THEN "refused" ELSE "settled")
           /\ UNCHANGED stale
  <2> DEFINE outcome == IF code = "rejected" THEN "refused" ELSE "settled"
  <2>1. outcome \in {"refused", "settled"} /\ Returns(outcome)
    BY <1>7
  <2>2. applied[q] = 1 /\ (outcome = "settled" => q \notin Intervals)
    BY <1>2, <1>7 DEF Open
  <2> HIDE DEF outcome
  <2>3. outcome = "settled" => applied[q] = 1 /\ ~ IntervalRuns(q)
    <3> SUFFICES ASSUME outcome = "settled", IntervalRuns(q) PROVE FALSE
      BY <2>2
    <3>1. Known(ledger, Top(q))
      BY DEF IntervalRuns, Known
    <3>2. ledger.of[Top(q)].type = sent[q].type
      BY <1>2, <3>1 DEF SInv, Recorded
    <3>3. QED  BY <1>2, <2>2, <3>2 DEF IntervalRuns, Intervals
  <2>4. /\ Recorded' /\ Reported'
        /\ returned' \in [Requests -> {"nothing", "failed", "stale", "refused", "settled"}]
        /\ \A r \in Requests : returned'[r] = IF r = q THEN outcome ELSE returned[r]
        /\ client' \in Client /\ client'.at = "idle" /\ client'.request = q
    BY <1>1, <2>1, <2>3, Told DEF q
  <2>5. SessionTypes'
    BY <1>1, <1>3, <1>7, <2>4 DEF SInv, SessionTypes
  <2>6. Calling' /\ AnswerHolds'
    BY <2>4 DEF Calling, AnswerHolds
  <2>7. IntervalsAlone'
    <3>1. client'.request \in Intervals => outcome # "settled"
      BY <2>2, <2>4
    <3>2. Intervals' = Intervals
      BY <1>1, WorkerStays
    <3>3. QED  BY <1>2, <2>1, <2>4, <3>1, <3>2 DEF IntervalsAlone
  <2>8. Heals'
    BY <1>1, <1>3, <1>7, <2>4, WorkerStays DEF SInv, Heals
  <2>9. QED  BY <1>3, <1>4, <2>4, <2>5, <2>6, <2>7, <2>8 DEF SInv
<1>8. QED  BY <1>5, <1>6, <1>7 DEF Receive, q, code

(* A poll: while the record says that the interval runs, the call goes on. *)
LEMMA PollOK ==
  ASSUME SInv, Poll
  PROVE  SInv'
<1> DEFINE q == client.request
<1>1. /\ UNCHANGED vars /\ UNCHANGED <<read, line, stale, overtaken>>
      /\ client.at = "polls" /\ client.polls > 0 /\ line = << >> /\ adopted' = episode
  BY DEF Poll, vars
<1>2. /\ q \in Requests /\ sent[q].type # "none" /\ returned[q] = "nothing"
      /\ q \in Intervals /\ applied[q] = 1 /\ Alone(q)
      /\ episode \in Nat /\ client \in Client
  BY <1>1 DEF SInv, IntervalsAlone, Calling, SessionTypes, IInv, TypeOK
<1>3. /\ IInv' /\ PInv' /\ episode' = episode /\ freeRunning' = freeRunning
      /\ adopted' = episode /\ adopted' \in Nat /\ adopted' <= episode' /\ read' <= episode'
  <2>1. IInv' /\ PInv' /\ episode' = episode /\ freeRunning' = freeRunning
    BY <1>1, WorkerStays
  <2>2. read' <= episode
    BY <1>1 DEF SInv, SessionTypes
  <2>3. QED  BY <1>1, <1>2, <2>1, <2>2
<1>4. Queued'
  <2>1. Len(line') = 0
    BY <1>1
  <2>2. QED  BY <2>1 DEF Queued
<1> HIDE DEF q
<1>5. CASE client' = [client EXCEPT !.polls = @ - 1] /\ returned' = returned
  <2>1. /\ client' \in Client /\ client'.at = "polls" /\ client'.request = q
    <3>1. client.polls - 1 \in Nat
      BY <1>1, <1>2 DEF Client
    <3>2. client' = [client EXCEPT !.polls = client.polls - 1]
      BY <1>5
    <3>3. QED  BY <1>1, <1>2, <3>1, <3>2 DEF Client, q
  <2>2. Recorded' /\ Reported'
    BY <1>1, <1>5, RecordedStays
  <2>3. SessionTypes'
    BY <1>1, <1>3, <1>5, <2>1 DEF SInv, SessionTypes
  <2>4. Calling'
    BY <1>1, <1>2, <1>5, <2>1, WorkerStays DEF Calling
  <2>5. AnswerHolds' /\ IntervalsAlone'
    BY <1>1, <1>2, <2>1, WorkerStays DEF AnswerHolds, IntervalsAlone
  <2>6. Heals'
    BY <1>1, <1>3, <2>1, WorkerStays DEF SInv, Heals
  <2>7. QED  BY <1>3, <1>4, <2>2, <2>3, <2>4, <2>5, <2>6 DEF SInv
<1>6. CASE ~ Open(q, ledger.of[Top(q)].state) /\ Returns("settled")
  <2>1. ledger.of[Top(q)].state # "running"
    BY <1>2, <1>6 DEF Open
  <2>2. ~ IntervalRuns(q)
    BY <2>1 DEF IntervalRuns
  <2>3. /\ Recorded' /\ Reported'
        /\ returned' \in [Requests -> {"nothing", "failed", "stale", "refused", "settled"}]
        /\ client' \in Client /\ client'.at = "idle" /\ client'.request = q
    BY <1>1, <1>2, <1>6, <2>2, Told DEF q
  <2>4. ~ Occupied(reg, "advance")
    <3> SUFFICES ASSUME Occupied(reg, "advance") PROVE FALSE
      OBVIOUS
    <3>1. Top(q) \in Running(reg) /\ Top(q) \notin forgotten
      BY <1>2, OwnIds DEF Alone, Occupied, Running
    <3>2. QED  BY <2>1, <3>1 DEF SInv, PInv, RunningIsStoredRunning
  <2>5. SessionTypes'
    BY <1>1, <1>3, <2>3 DEF SInv, SessionTypes
  <2>6. Calling' /\ AnswerHolds' /\ IntervalsAlone'
    BY <1>1, <2>3, <2>4, WorkerStays DEF Calling, AnswerHolds, IntervalsAlone
  <2>7. Heals'
    BY <1>1, <1>3, <2>3, WorkerStays DEF SInv, Heals
  <2>8. QED  BY <1>3, <1>4, <2>3, <2>5, <2>6, <2>7 DEF SInv
<1>7. QED  BY <1>5, <1>6 DEF Poll, q

(* A tick: what was reported as over stays over, and no interval begins.   *)
LEMMA TicksOK ==
  ASSUME SInv, Ticks
  PROVE  SInv'
<1>1. /\ Tick /\ UNCHANGED <<adopted, client, read, line, returned, stale, overtaken>>
  BY DEF Ticks, svars
<1>2. /\ UNCHANGED <<episode, freeRunning, sent, applied, forgotten>>
      /\ \A k \in Ids : /\ ledger'.of[k].type = ledger.of[k].type
                        /\ Known(ledger', k) <=> Known(ledger, k)
                        /\ ledger'.of[k].state = "running" => ledger.of[k].state = "running"
      /\ reg'.slots["advance"] \in {reg.slots["advance"], None}
      /\ Occupied(reg', "advance") => Occupied(reg, "advance")
  BY <1>1, TickFrees DEF SInv
<1>3. IInv' /\ PInv'
  BY <1>1, TickOK, TickKeeps DEF SInv
<1>4. \A r \in Requests : /\ IntervalRuns(r)' => IntervalRuns(r)
                          /\ Alone(r) => Alone(r)'
  BY <1>2, OwnIds DEF IntervalRuns, Alone
<1>5. Intervals' = Intervals
  BY <1>2 DEF Intervals
<1>6. SessionTypes'
  BY <1>1, <1>2 DEF SInv, SessionTypes
<1>7. Recorded' /\ Reported'
  <2>1. \A r \in Requests : /\ Known(ledger', Top(r)) <=> Known(ledger, Top(r))
                            /\ ledger'.of[Top(r)].type = ledger.of[Top(r)].type
    BY <1>2, OwnIds
  <2>2. Recorded'
    BY <1>1, <1>2, <2>1 DEF SInv, Recorded
  <2>3. Reported'
    BY <1>1, <1>2, <1>4 DEF SInv, Reported
  <2>4. QED  BY <2>2, <2>3
<1>8. Queued' /\ Calling' /\ Heals'
  BY <1>1, <1>2 DEF SInv, Queued, Calling, Heals
<1>9. AnswerHolds' /\ IntervalsAlone'
  <2>1. client.at # "idle" => client.request \in Requests
    BY DEF SInv, Calling
  <2>2. AnswerHolds'
    BY <1>1, <1>2, <1>4, <1>5, <2>1 DEF SInv, AnswerHolds
  <2>3. IntervalsAlone'
    BY <1>1, <1>2, <1>4, <1>5, <2>1 DEF SInv, IntervalsAlone
  <2>4. QED  BY <2>2, <2>3
<1>10. QED  BY <1>3, <1>6, <1>7, <1>8, <1>9 DEF SInv

-----------------------------------------------------------------------------
(* The oldest mutation leaves the line: the others move up, none of them   *)
(* is it, and a call that waits waits for it or for one that stays.        *)
LEMMA LineMoves ==
  ASSUME SInv, line # << >>, line' = Tail(line)
  PROVE  LET r == Head(line)
         IN  /\ r \in Requests /\ sent[r].type # "none" /\ applied[r] = 0
             /\ returned[r] \in {"nothing", "failed"}
             /\ line' \in Seq(Requests)
             /\ \A i \in 1 .. Len(line') :
                  i + 1 \in 1 .. Len(line) /\ line'[i] = line[i + 1] /\ line'[i] # r
             /\ client.at = "waits" /\ client.request = r => line' = << >>
             /\ client.at = "waits" /\ client.request # r =>
                  line' # << >> /\ line'[Len(line')] = client.request
<1> DEFINE r == Head(line)
<1>1. /\ line \in Seq(Requests) /\ Len(line) \in Nat \ {0} /\ r = line[1]
      /\ line' \in Seq(Requests) /\ Len(line') = Len(line) - 1
      /\ \A i \in 1 .. Len(line') : line'[i] = line[i + 1]
  BY DEF SInv, SessionTypes
<1>2. 1 \in 1 .. Len(line) /\ Len(line) \in 1 .. Len(line)
  BY <1>1
<1>3. /\ r \in Requests /\ sent[r].type # "none" /\ applied[r] = 0
      /\ returned[r] \in {"nothing", "failed"}
  BY <1>1, <1>2 DEF SInv, Queued
<1>4. ASSUME NEW i \in 1 .. Len(line')
      PROVE  i + 1 \in 1 .. Len(line) /\ line'[i] = line[i + 1] /\ line'[i] # r
  <2>1. i + 1 \in 1 .. Len(line) /\ i + 1 # 1 /\ line'[i] = line[i + 1]
    BY <1>1
  <2>2. line[i + 1] # line[1]
    BY <1>2, <2>1 DEF SInv, Queued
  <2>3. QED  BY <1>1, <2>1, <2>2
<1>5. ASSUME client.at = "waits", client.request = r PROVE line' = << >>
  <2>1. line[Len(line)] = line[1]
    BY <1>1, <1>5 DEF SInv, Calling
  <2>2. Len(line) = 1
    BY <1>2, <2>1 DEF SInv, Queued
  <2>3. QED  BY <1>1, <2>2
<1>6. ASSUME client.at = "waits", client.request # r
      PROVE  line' # << >> /\ line'[Len(line')] = client.request
  <2>1. line[Len(line)] = client.request
    BY <1>6 DEF SInv, Calling
  <2>2. Len(line) # 1
    BY <1>1, <1>6, <2>1
  <2>3. /\ Len(line') \in 1 .. Len(line') /\ Len(line') + 1 = Len(line)
        /\ Len(line') # 0
    BY <1>1, <2>2
  <2>4. line'[Len(line')] = line[Len(line') + 1]
    BY <1>1, <2>3
  <2>5. line' # << >>
    BY <2>3
  <2>6. QED  BY <2>1, <2>3, <2>4, <2>5
<1>7. QED  BY <1>1, <1>3, <1>4, <1>5, <1>6

(* The answer reaches the call that waits for it, and no other.            *)
LEMMA AnswerArrives ==
  ASSUME SInv, line # << >>, NEW code \in States \cup {"stale"}, Answers(Head(line), code),
         episode' \in Nat
  PROVE  LET r == Head(line)
         IN  /\ client' \in Client /\ client'.request = client.request
             /\ UNCHANGED <<adopted, read, returned>> /\ line' = Tail(line)
             /\ \/ /\ client.at = "waits" /\ client.request = r
                   /\ client'.at = "answered" /\ line' = << >>
                   /\ client'.answer.code = code /\ client'.answer.episode = episode'
                \/ /\ client.at = "waits" /\ client.request # r /\ client' = client
                   /\ line' # << >> /\ line'[Len(line')] = client.request
                \/ client.at = "idle" /\ client' = client
<1> DEFINE r == Head(line)
<1>1. client \in Client /\ client.at \in {"idle", "waits"}
  BY DEF SInv, SessionTypes, Calling, Client
<1>2. line' = Tail(line) /\ UNCHANGED <<adopted, read, returned>>
  BY DEF Answers
<1>3. /\ client.at = "waits" /\ client.request = r => line' = << >>
      /\ client.at = "waits" /\ client.request # r =>
           line' # << >> /\ line'[Len(line')] = client.request
  BY <1>2, LineMoves
<1>4. CASE client.at = "waits" /\ client.request = r
  <2>1. client' = [client EXCEPT !.at = "answered",
                                 !.answer = [code |-> code, episode |-> episode']]
    BY <1>4 DEF Answers
  <2>2. /\ client' \in Client /\ client'.request = client.request /\ client'.at = "answered"
        /\ client'.answer.code = code /\ client'.answer.episode = episode'
    BY <1>1, <2>1 DEF Client
  <2>3. QED  BY <1>2, <1>3, <1>4, <2>2
<1>5. CASE ~ (client.at = "waits" /\ client.request = r)
  <2>1. client' = client
    BY <1>5 DEF Answers
  <2>2. QED  BY <1>1, <1>2, <1>3, <1>5, <2>1
<1>6. QED  BY <1>4, <1>5

(* The rest of the line is as it was.                                      *)
LEMMA LineKept ==
  ASSUME SInv, line # << >>, line' = Tail(line), UNCHANGED <<sent, returned>>,
         \A q \in Requests : q # Head(line) => applied'[q] = applied[q]
  PROVE  line' \in Seq(Requests) /\ Queued'
<1>1. \A i \in 1 .. Len(line) : line[i] \in Requests
  BY DEF SInv, SessionTypes
<1>2. line' \in Seq(Requests)
  BY LineMoves
<1>3. \A i \in 1 .. Len(line') :
        i + 1 \in 1 .. Len(line) /\ line'[i] = line[i + 1] /\ line'[i] # Head(line)
  BY LineMoves
<1>4. \A i, j \in 1 .. Len(line') : line'[i] = line'[j] => i = j
  <2> SUFFICES ASSUME NEW i \in 1 .. Len(line'), NEW j \in 1 .. Len(line'), line'[i] = line'[j]
               PROVE  i = j
    OBVIOUS
  <2>1. i + 1 = j + 1
    BY <1>3 DEF SInv, Queued
  <2>2. QED  BY <2>1
<1>5. \A i \in 1 .. Len(line') :
        /\ sent'[line'[i]].type # "none" /\ applied'[line'[i]] = 0
        /\ returned'[line'[i]] \in {"nothing", "failed"}
  BY <1>1, <1>3 DEF SInv, Queued
<1>6. QED  BY <1>2, <1>4, <1>5 DEF Queued

(* A refusal as stale touches nothing but the line and the call.           *)
LEMMA RefuseStaleOK ==
  ASSUME SInv, RefuseStale
  PROVE  SInv'
<1> DEFINE r == Head(line)
<1>1. /\ line # << >> /\ sent[r].ep # episode /\ UNCHANGED vars
      /\ UNCHANGED <<stale, overtaken>> /\ Answers(r, "stale") /\ episode' = episode
      /\ episode \in Nat
  BY DEF RefuseStale, vars, SInv, IInv, TypeOK
<1>2. /\ client' \in Client /\ client'.request = client.request
      /\ UNCHANGED <<adopted, read, returned>> /\ line' = Tail(line)
      /\ \/ /\ client.at = "waits" /\ client.request = r
            /\ client'.at = "answered" /\ line' = << >>
            /\ client'.answer.code = "stale" /\ client'.answer.episode = episode'
         \/ /\ client.at = "waits" /\ client.request # r /\ client' = client
            /\ line' # << >> /\ line'[Len(line')] = client.request
         \/ client.at = "idle" /\ client' = client
  BY <1>1, AnswerArrives
<1>3. r \in Requests /\ applied[r] = 0 /\ returned[r] \in {"nothing", "failed"}
  BY <1>1, <1>2, LineMoves
<1>4. IInv' /\ PInv' /\ Recorded' /\ Reported'
  BY <1>1, <1>2, WorkerStays, RecordedStays
<1>5. sent' = sent /\ applied' = applied /\ Intervals' = Intervals /\ freeRunning' = freeRunning
  BY <1>1, WorkerStays
<1>6. line' \in Seq(Requests) /\ Queued'
  BY <1>1, <1>2, <1>5, LineKept
<1>7. SessionTypes'
  BY <1>1, <1>2, <1>5, <1>6 DEF SInv, SessionTypes
<1>8. Calling'
  BY <1>2, <1>5 DEF SInv, Calling
<1>9. AnswerHolds' /\ IntervalsAlone'
  <2>1. AnswerHolds'
    BY <1>1, <1>2, <1>3, <1>5 DEF AnswerHolds
  <2>2. client'.at = "idle" => client'.request \notin {q \in Intervals : returned[q] = "settled"}
    BY <1>1, <1>2 DEF SInv, IntervalsAlone
  <2>3. IntervalsAlone'
    BY <1>2, <1>5, <2>2 DEF IntervalsAlone
  <2>4. QED  BY <2>1, <2>3
<1>10. Heals'
  BY <1>1, <1>2, <1>5 DEF SInv, Heals
<1>11. QED  BY <1>4, <1>6, <1>7, <1>8, <1>9, <1>10 DEF SInv

(* A mutation that is handled: applied for the first time, and stored.     *)
LEMMA HandleMutationOK ==
  ASSUME SInv, HandleMutation
  PROVE  SInv'
<1> DEFINE r == Head(line)
           code == ledger'.of[Top(r)].state
<1>1. /\ line # << >> /\ Handle(r) /\ Answers(r, code)
      /\ \/ episode' # episode /\ stale' = {} /\ overtaken' = FALSE
         \/ episode' = episode /\ UNCHANGED <<stale, overtaken>>
  BY DEF HandleMutation
<1>2. r \in Requests /\ applied[r] = 0 /\ returned[r] \in {"nothing", "failed"}
  BY <1>1, LineMoves DEF Answers
<1>3. IInv /\ PInv /\ LedgerInv /\ Next
  BY <1>1, <1>2 DEF SInv, PInv, Next
<1>4. IInv' /\ PInv'
  BY <1>3, NextOK, NextTruthful
<1>5. Handled(r)
  BY <1>1, <1>2, <1>3, HandleHandles
<1>6. /\ UNCHANGED <<sent, freeRunning>> /\ Intervals' = Intervals
      /\ code \in States \ {"unknown"} /\ ledger'.of[Top(r)].type = sent[r].type
      /\ r \in Intervals /\ code # "rejected" =>
           code = "running" /\ reg'.slots["advance"] = Top(r)
  BY <1>5 DEF Handled, Intervals
<1>7. /\ applied'[r] = 1 /\ \A q \in Requests : q # r => applied'[q] = applied[q]
  <2>1. applied \in [Requests -> 0 .. 2]
    BY <1>3 DEF IInv, TypeOK
  <2>2. QED  BY <1>2, <1>5, <2>1 DEF Handled, Ran
<1>8. /\ episode \in Nat /\ episode' \in Nat /\ episode <= episode'
      /\ ~ Known(ledger, Top(r))
      /\ forgotten' \subseteq forgotten \cup {k \in Ids : Known(ledger, k)}
      /\ \A q \in Requests : q # r =>
           ledger'.of[Top(q)] = ledger.of[Top(q)] \/ ~ Known(ledger', Top(q))
  <2>1. episode \in Nat
    BY <1>3 DEF IInv, TypeOK
  <2>2. \A q \in Requests : q # r => Top(q) \in Ids \ {Top(r), Act(r)}
    BY <1>2, OwnIds DEF Top
  <2>3. CASE Answered(r)
    BY <2>1, <2>2, <2>3 DEF Answered, StoreAll
  <2>4. CASE Begun(r)
    BY <2>1, <2>2, <2>4 DEF Begun, Known
  <2>5. QED  BY <1>1, <1>2, <1>3, <2>3, <2>4, HandleAnswers
<1>9. /\ client' \in Client /\ client'.request = client.request
      /\ UNCHANGED <<adopted, read, returned>> /\ line' = Tail(line)
      /\ \/ /\ client.at = "waits" /\ client.request = r
            /\ client'.at = "answered" /\ line' = << >>
            /\ client'.answer.code = code /\ client'.answer.episode = episode'
         \/ /\ client.at = "waits" /\ client.request # r /\ client' = client
            /\ line' # << >> /\ line'[Len(line')] = client.request
         \/ client.at = "idle" /\ client' = client
  BY <1>1, <1>6, <1>8, AnswerArrives
<1>10. line' \in Seq(Requests) /\ Queued'
  BY <1>1, <1>6, <1>7, <1>9, LineKept
<1> HIDE DEF r, code
<1>11. SessionTypes'
  <2>1. adopted' <= episode' /\ read' <= episode' /\ adopted' \in Nat /\ read' \in Nat
    BY <1>8, <1>9 DEF SInv, SessionTypes
  <2>2. stale' \in SUBSET Requests /\ overtaken' \in BOOLEAN
    BY <1>1 DEF SInv, SessionTypes
  <2>3. QED  BY <1>6, <1>9, <1>10, <2>1, <2>2 DEF SInv, SessionTypes
<1>12. Recorded'
  <2> SUFFICES ASSUME NEW q \in Requests
               PROVE  /\ Known(ledger', Top(q)) \/ Top(q) \in forgotten' => applied'[q] > 0
                      /\ Known(ledger', Top(q)) => ledger'.of[Top(q)].type = sent[q].type
                      /\ sent[q].type = "none" => returned[q] = "nothing"
    BY <1>6, <1>9 DEF Recorded
  <2>1. sent[q].type = "none" => returned[q] = "nothing"
    BY DEF SInv, Recorded
  <2>2. CASE q = r
    BY <1>6, <1>7, <2>1, <2>2
  <2>3. CASE q # r
    <3>1. Known(ledger', Top(q)) => Known(ledger, Top(q)) /\ ledger'.of[Top(q)] = ledger.of[Top(q)]
      BY <1>8, <2>3 DEF Known
    <3>2. Top(q) \in forgotten' => Top(q) \in forgotten \/ Known(ledger, Top(q))
      BY <1>8
    <3>3. QED  BY <1>7, <2>1, <2>3, <3>1, <3>2 DEF SInv, Recorded
  <2>4. QED  BY <2>2, <2>3
<1>13. Calling'
  BY <1>6, <1>9 DEF SInv, Calling
<1>14. AnswerHolds'
  <2> SUFFICES ASSUME client'.at = "answered"
               PROVE  /\ client'.answer.episode = episode' /\ client'.request = r
                      /\ client'.answer.code = code
                      /\ r \in Intervals /\ code # "rejected" =>
                           /\ code = "running"
                           /\ reg'.slots["advance"] = Top(r) /\ Top(r) \notin forgotten'
    BY <1>6, <1>7 DEF AnswerHolds, Alone
  <2>1. /\ client'.answer.episode = episode' /\ client'.request = r
        /\ client'.answer.code = code
    BY <1>9
  <2>2. Top(r) \notin forgotten'
    BY <1>2, <1>8 DEF SInv, Recorded
  <2>3. QED  BY <1>6, <2>1, <2>2
<1>15. IntervalsAlone'
  <2>1. client'.at = "idle" => client'.request \notin {q \in Intervals : returned[q] = "settled"}
    BY <1>1, <1>9 DEF SInv, IntervalsAlone
  <2>2. QED  BY <1>6, <1>9, <2>1 DEF SInv, IntervalsAlone, Calling
<1>16. Reported'
  <2> SUFFICES ASSUME NEW q \in Requests
               PROVE  /\ returned[q] = "settled" => applied'[q] = 1 /\ ~ IntervalRuns(q)'
                      /\ returned[q] = "stale" => applied'[q] = 0
    BY <1>9 DEF Reported
  <2>1. CASE q = r
    BY <1>2, <2>1
  <2>2. CASE q # r
    <3>1. IntervalRuns(q)' => IntervalRuns(q)
      BY <1>8, <2>2 DEF IntervalRuns, Known
    <3>2. QED  BY <1>7, <2>2, <3>1 DEF SInv, Reported
  <2>3. QED  BY <2>1, <2>2
<1>17. Heals'
  <2>1. CASE stale' = {}
    BY <2>1, FS_EmptySet DEF Heals
  <2>2. CASE episode' = episode /\ UNCHANGED <<stale, overtaken>>
    BY <1>6, <1>9, <2>2 DEF SInv, Heals
  <2>3. QED  BY <1>1, <2>1, <2>2
<1>18. QED
  BY <1>4, <1>10, <1>11, <1>12, <1>13, <1>14, <1>15, <1>16, <1>17 DEF SInv

-----------------------------------------------------------------------------
(* The session's invariant is inductive: one case per action of SNext.     *)
LEMMA SessionSteps == SInv /\ [SNext]_<<vars, svars>> => SInv'
<1> SUFFICES ASSUME SInv, [SNext]_<<vars, svars>> PROVE SInv'
  OBVIOUS
<1>1. CASE \E r \in Requests, body \in Bodies : Ask(r, body)
  BY <1>1, AskOK
<1>2. CASE Query          BY <1>2, QueryOK
<1>3. CASE TimeOut        BY <1>3, TimeOutOK
<1>4. CASE Worker         BY <1>4, HandleMutationOK, RefuseStaleOK DEF Worker
<1>5. CASE Ticks          BY <1>5, TicksOK
<1>6. CASE Receive        BY <1>6, ReceiveOK
<1>7. CASE Poll           BY <1>7, PollOK
<1>8. CASE SamplerReads   BY <1>8, SamplerReadsOK
<1>9. CASE SamplerAdopts  BY <1>9, SamplerAdoptsOK
<1>10. CASE UNCHANGED <<vars, svars>>
  <2>1. /\ UNCHANGED vars /\ UNCHANGED svars
        /\ UNCHANGED <<adopted, client, read, line, returned, stale, overtaken>>
    BY <1>10 DEF svars
  <2>2. /\ IInv' /\ PInv' /\ episode' = episode /\ freeRunning' = freeRunning
        /\ Recorded' /\ Reported' /\ sent' = sent /\ applied' = applied
    BY <2>1, WorkerStays, RecordedStays
  <2>3. SessionTypes' /\ Queued' /\ Calling' /\ Heals'
    BY <2>1, <2>2 DEF SInv, SessionTypes, Queued, Calling, Heals
  <2>4. AnswerHolds' /\ IntervalsAlone'
    BY <2>1, <2>2 DEF SInv, AnswerHolds, IntervalsAlone, Alone, Intervals, Occupied, vars
  <2>5. QED  BY <2>2, <2>3, <2>4 DEF SInv
<1>11. QED
  BY <1>1, <1>2, <1>3, <1>4, <1>5, <1>6, <1>7, <1>8, <1>9, <1>10 DEF SNext

(* The session's invariant holds in every reachable state, and with it     *)
(* that of the worker: whatever a session asks, under whatever episode it  *)
(* believes in, the worker's own theorems hold of it too.                  *)
THEOREM SessionInvariant == SSpec => []SInv
BY SessionStarts, SessionSteps, PTL DEF SSpec

(* What a call reports is so, whatever timed out before it and is handled  *)
(* late: a step that returns as settled was applied once and its interval  *)
(* is over, no world runs under the caller then, and a request refused as  *)
(* stale touched nothing (session.py dispatch_raw, _settle, _collect;      *)
(* runtime.lua handle_json, handle_step, on_tick).                         *)
THEOREM ReportsAreTrue == SSpec => []ReportsHold
<1>1. SInv => ReportsHold
  <2> SUFFICES ASSUME SInv PROVE ReportsHold
    OBVIOUS
  <2>1. \A r \in Requests :
          /\ returned[r] = "settled" => applied[r] = 1 /\ ~ IntervalRuns(r)
          /\ returned[r] = "stale" => applied[r] = 0
    BY DEF SInv, Reported
  <2>2. ASSUME client.at = "idle", client.request \in {r \in Intervals : returned[r] = "settled"}
        PROVE  paused /\ line = << >>
    <3>1. line = << >> /\ ~ Occupied(reg, "advance")
      BY <2>2 DEF SInv, IntervalsAlone
    <3>2. freeRunning = FALSE /\ PausedBetweenDecisions
      BY DEF SInv, SessionTypes, IInv
    <3>3. QED  BY <3>1, <3>2 DEF PausedBetweenDecisions
  <2>3. QED  BY <2>1, <2>2 DEF ReportsHold
<1>2. QED  BY SessionInvariant, <1>1, PTL

(* In one episode the caller is refused as stale at most once, unless the  *)
(* sampler adopted the episode of an answer older than the reset           *)
(* (session.py _adopt_episode, dispatch_raw).                              *)
THEOREM StaleEpisodeHeals == SSpec => []StaleHeals
<1>1. SInv => StaleHeals
  BY DEF SInv, Heals, StaleHeals
<1>2. QED  BY SessionInvariant, <1>1, PTL

-----------------------------------------------------------------------------
(* A caller that paces the world: it acts by steps alone and sends no      *)
(* batch, so that a tick comes between any two of its actions that end an  *)
(* operation.                                                              *)
Paced(body) == body.type # "act" /\ body.action # "batch"

PacedSent ==
  \A r \in Requests : sent[r].type # "none" =>
    sent[r].type # "act" /\ sent[r].action # "batch"

(* A pending list that is not empty cannot be replaced: nothing runs that  *)
(* a take-over, or a cancel, could end.                                    *)
NothingToLose(g) ==
  /\ g.superseded # {} => ~ Occupied(g, "move") /\ ~ Occupied(g, "mine")
  /\ g.cancelled # {} => Cancellable(g) = {}

(* A record that says its operation runs can still be settled.             *)
Unsettled(L) == \A k \in Ids : L.of[k].state = "running" => ~ L.of[k].settled

(* No interval waits in a pending list.                                    *)
NoIntervalWaits == \A r \in Intervals : Top(r) \notin Waiting(reg)

SettlementInv ==
  /\ NoLostSettlement /\ Unsettled(ledger) /\ PacedSent /\ NoIntervalWaits
  /\ ~ Occupied(reg, "advance") => NothingToLose(reg)

(* Requests are asked for, and handled, in the order of their numbers.     *)
AskedInOrder ==
  /\ \A p, q \in Requests : p < q /\ sent[q] # Unsent => sent[p] # Unsent
  /\ \A i, j \in 1 .. Len(line) : i < j => line[i] < line[j]
  /\ \A r \in Requests, i \in 1 .. Len(line) : applied[r] > 0 => r < line[i]

(* What is in flight or waits to be settled still does one or the other,   *)
(* and what begins to wait ran and is no interval.                         *)
KeepsAll(g, h) ==
  /\ Running(g) \cup Waiting(g) \subseteq Running(h) \cup Waiting(h)
  /\ \A id \in Waiting(h) :
       id \in Waiting(g) \/ (id \in Running(g) /\ g.entries[id].action # "advance")

LEMMA StartedKeepsAll ==
  ASSUME NEW g \in Registry, NEW id \in Ids, NEW action, NEW left
  PROVE  /\ KeepsAll(g, Started(g, id, action, left))
         /\ id \in Running(Started(g, id, action, left))
         /\ Waiting(Started(g, id, action, left)) = Waiting(g)
<1> DEFINE k == Started(g, id, action, left)
<1>1. /\ \A i \in Ids \ {id} : k.entries[i] = g.entries[i]
      /\ k.entries[id].live
  BY DEF Started, Registry
<1>2. Waiting(k) = Waiting(g)
  BY DEF Started, Waiting
<1> HIDE DEF k
<1>3. Running(g) \subseteq Running(k) /\ id \in Running(k)
  BY <1>1 DEF Running
<1>4. KeepsAll(g, k)
  BY <1>2, <1>3 DEF KeepsAll
<1>5. QED  BY <1>2, <1>3, <1>4 DEF k

(* A take-over lists whom it ends; the list it replaces is empty, or there *)
(* is nobody to end.                                                       *)
LEMMA TakenOverKeepsAll ==
  ASSUME NEW g \in Registry, SlotsAgree(g), NothingToLose(g)
  PROVE  KeepsAll(g, TakenOver(g)) /\ NothingToLose(TakenOver(g))
<1> DEFINE losers == Occupants(g, {"move", "mine"})
           f == Finished(g, losers)
           h == TakenOver(g)
<1>1. CASE losers = {}
  BY <1>1 DEF TakenOver, KeepsAll
<1>2. CASE losers # {}
  <2>1. f \in Registry /\ Running(f) = Running(g) \ losers
    BY FinishedType, FinishedAgrees
  <2>2. g.superseded = {}
    BY <1>2 DEF NothingToLose, Occupants
  <2>3. h = [f EXCEPT !.superseded = losers]
    BY <1>2 DEF TakenOver
  <2>4. h.entries = f.entries /\ h.superseded = losers /\ h.cancelled = g.cancelled
    BY <2>1, <2>3 DEF Registry, Finished
  <2>5. ~ Occupied(h, "move") /\ ~ Occupied(h, "mine") /\ RunsNoMore(g, h)
    BY TakenOverOK
  <2> HIDE DEF h, f, losers
  <2>6. Running(h) = Running(g) \ losers /\ Waiting(h) = losers \cup g.cancelled
    BY <2>1, <2>4 DEF Running, Waiting
  <2>7. KeepsAll(g, h)
    <3>1. \A id \in losers : id \in Running(g) /\ g.entries[id].action # "advance"
      BY DEF losers, Occupants, Occupied, SlotsAgree, Slots, SlotOf, Running, Registry
    <3>2. QED  BY <2>2, <2>6, <3>1 DEF KeepsAll, Waiting
  <2>8. Cancellable(g) = {} => Cancellable(h) = {}
    BY <2>5 DEF Cancellable, RunsNoMore
  <2>9. QED  BY <2>4, <2>5, <2>7, <2>8 DEF NothingToLose, h
<1>3. QED  BY <1>1, <1>2

(* A cancel replaces an empty list.                                        *)
LEMMA CancelledByKeepsAll ==
  ASSUME NEW g \in Registry, SlotsAgree(g), NothingToLose(g), NEW id \in Cancellable(g)
  PROVE  KeepsAll(g, CancelledBy(g, id))
<1> DEFINE f == Finished(g, {id})
           h == CancelledBy(g, id)
<1>1. f \in Registry /\ Running(f) = Running(g) \ {id}
  BY FinishedType, FinishedAgrees
<1>2. h.entries = f.entries /\ h.superseded = g.superseded /\ h.cancelled = {id}
  BY <1>1 DEF CancelledBy, Registry, Finished
<1>3. g.cancelled = {}
  BY DEF NothingToLose
<1> HIDE DEF h, f
<1>4. Running(h) = Running(g) \ {id} /\ Waiting(h) = g.superseded \cup {id}
  BY <1>1, <1>2 DEF Running, Waiting
<1>5. id \in Running(g) /\ g.entries[id].action # "advance"
  BY DEF Cancellable
<1>6. QED  BY <1>3, <1>4, <1>5 DEF KeepsAll, Waiting, h

(* An action other than a batch loses nothing, runs if its answer says so, *)
(* and if it raises leaves nothing to lose.                                *)
Careful(g, o, id) ==
  /\ KeepsAll(g, o.reg)
  /\ o.state = "running" => id \in Running(o.reg)
  /\ o.threw => NothingToLose(o.reg)

LEMMA DispatchCareful ==
  ASSUME NEW g \in Registry, SlotsAgree(g), NothingToLose(g), NEW id \in Ids,
         NEW body \in Sent, body.action # "batch", NEW o \in Dispatch(g, id, body)
  PROVE  Careful(g, o, id)
<1> DEFINE a == body.action
<1>0. a \in Actions \cup {"none"}
  BY DEF Sent
<1>1. Careful(g, Done(g), id) /\ Careful(g, Refused(g), id) /\ Careful(g, Raised(g), id)
  BY DEF Careful, Done, Refused, Raised, Outcome, KeepsAll
<1>2. \A h : KeepsAll(g, h) /\ id \in Running(h) => Careful(g, Runs(h), id)
  BY DEF Careful, Runs, Outcome
<1>3. TakenOver(g) \in Registry /\ KeepsAll(g, TakenOver(g)) /\ NothingToLose(TakenOver(g))
  BY TakenOverOK, TakenOverKeepsAll
<1>4. \A action, left : Careful(g, Runs(Started(TakenOver(g), id, action, left)), id)
  <2>1. \A action, left : /\ KeepsAll(TakenOver(g), Started(TakenOver(g), id, action, left))
                          /\ id \in Running(Started(TakenOver(g), id, action, left))
    BY <1>3, StartedKeepsAll
  <2>2. \A h : KeepsAll(TakenOver(g), h) => KeepsAll(g, h)
    <3>1. RunsNoMore(g, TakenOver(g))
      BY TakenOverOK
    <3>2. QED  BY <1>3, <3>1 DEF KeepsAll, RunsNoMore
  <2>3. QED  BY <1>2, <2>1, <2>2
<1>5. \A action, left : Careful(g, Runs(Started(g, id, action, left)), id)
  BY <1>2, StartedKeepsAll
<1>6. CASE o \in Unharmed(g)
  BY <1>1, <1>6 DEF Unharmed
<1>7. CASE o \in MoveOutcomes(g, id, body.span)
  BY <1>4, <1>7 DEF MoveOutcomes
<1>8. CASE o \in NavigateOutcomes(g, id, body.span)
  <2>1. Careful(g, Raised(TakenOver(g)), id)
    BY <1>3 DEF Careful, Raised, Outcome
  <2>2. QED  BY <1>1, <1>4, <1>8, <2>1 DEF NavigateOutcomes
<1>9. CASE o \in MineOutcomes(g, id)
  BY <1>5, <1>9 DEF MineOutcomes
<1>10. CASE o \in CraftOutcomes(g, id)
  BY <1>5, <1>10 DEF CraftOutcomes
<1>11. CASE o \in CancelOutcomes(g)
  <2>1. PICK i \in Cancellable(g) : o = Done(CancelledBy(g, i))
    BY <1>11 DEF CancelOutcomes
  <2>2. KeepsAll(g, CancelledBy(g, i))
    BY CancelledByKeepsAll
  <2>3. QED  BY <2>1, <2>2 DEF Careful, Done, Outcome
<1>12. CASE o \in InstantOutcomes(g)
  BY <1>1, <1>12 DEF InstantOutcomes
<1>13. QED
  BY <1>0, <1>6, <1>7, <1>8, <1>9, <1>10, <1>11, <1>12 DEF Dispatch, Actions

-----------------------------------------------------------------------------
(* A record stored under an id that was unknown: every other record that   *)
(* says it runs did so before.                                             *)
LEMMA StoredRunning ==
  ASSUME NEW L \in LedgerValue, Listed(L), Unsettled(L), NEW k \in Ids, ~ Known(L, k),
         NEW type \in Types, NEW state \in States
  PROVE  LET M == Stored(L, k, Fresh(type, state))
         IN  /\ Unsettled(M)
             /\ \A j \in Ids \ {k} : M.of[j].state = "running" => L.of[j].state = "running"
<1> DEFINE rec == Fresh(type, state)
           M == Stored(L, k, rec)
<1>1. rec \in Record /\ ~ rec.settled
  BY FreshOK DEF Fresh
<1> HIDE DEF rec
<1>2. M.of[k] = rec
  BY <1>1, StoredOK
<1>3. \A j \in Ids \ {k} : M.of[j] = L.of[j] \/ ~ Known(M, j)
  BY <1>1, StoredLast
<1> HIDE DEF M
<1>4. QED  BY <1>1, <1>2, <1>3 DEF Unsettled, Known, M, rec

(* Whom a failed begin cut off stays cut off in its episode.               *)
LEMMA CutOffStays ==
  ASSUME IInv, NEW id \in Ids, CutOff(id), NEW r \in Requests, Ran(r),
         UNCHANGED <<sent, episode>>
  PROVE  CutOff(id)'
<1>1. \A q \in Requests : applied[q] > 0 => applied'[q] > 0
  <2>1. applied \in [Requests -> 0 .. 2]
    BY DEF IInv, TypeOK
  <2>2. QED  BY <2>1 DEF Ran
<1>2. PICK q \in Requests : id[1] < q /\ FailedBegin(q)
  BY DEF CutOff
<1>3. FailedBegin(q)'
  BY <1>1, <1>2 DEF FailedBegin
<1>4. QED  BY <1>2, <1>3 DEF CutOff, Intervals

(* An answer that loses nothing: it runs if it says so, and what was       *)
(* running or waited still does.                                           *)
LEMMA AnswerLosesNothing ==
  ASSUME IInv, LedgerInv, SettlementInv, NEW r \in Requests, NEW type \in Types,
         ~ Known(ledger, Top(r)), NEW state \in States, Answer(r, type, state),
         state = "running" => Top(r) \in Running(reg'),
         KeepsAll(reg, reg'), Ran(r), UNCHANGED <<sent, episode>>
  PROVE  NoLostSettlement' /\ Unsettled(ledger')
<1>1. ledger' = Stored(ledger, Top(r), Fresh(type, state))
  BY DEF Answer, StoreAll
<1>2. ledger \in LedgerValue /\ Listed(ledger) /\ Unsettled(ledger) /\ Top(r) \in Ids
  BY OwnIds DEF IInv, TypeOK, LedgerInv, SettlementInv
<1>3. /\ Unsettled(ledger')
      /\ \A j \in Ids \ {Top(r)} : ledger'.of[j].state = "running" => ledger.of[j].state = "running"
  BY <1>1, <1>2, StoredRunning
<1>4. ledger'.of[Top(r)].state = state
  <2>1. ledger'.of[Top(r)] = Fresh(type, state)
    BY AnswerStores
  <2>2. QED  BY <2>1 DEF Fresh
<1>5. ASSUME NEW j \in Ids, ledger'.of[j].state = "running"
      PROVE  j \in Running(reg') \cup Waiting(reg') \/ CutOff(j)'
  <2>1. CASE j = Top(r)
    BY <1>4, <1>5, <2>1
  <2>2. CASE j # Top(r)
    <3>1. j \in Running(reg) \cup Waiting(reg) \/ CutOff(j)
      BY <1>3, <1>5, <2>2 DEF SettlementInv, NoLostSettlement, Pending, Waiting
    <3>2. CutOff(j) => CutOff(j)'
      BY CutOffStays
    <3>3. QED  BY <3>1, <3>2 DEF KeepsAll
  <2>3. QED  BY <2>1, <2>2
<1>6. NoLostSettlement'
  BY <1>5 DEF NoLostSettlement, Pending, Waiting
<1>7. QED  BY <1>3, <1>6

(* What begins to wait ran as its request asked: it is no interval.        *)
LEMMA WaitersAct ==
  ASSUME IInv, NoIntervalWaits, KeepsAll(reg, reg'), sent' = sent
  PROVE  NoIntervalWaits'
<1> SUFFICES ASSUME NEW r \in Intervals, Top(r) \in Waiting(reg') PROVE FALSE
  BY DEF NoIntervalWaits, Intervals
<1>1. Top(r) \in Running(reg) /\ reg.entries[Top(r)].action # "advance"
  BY DEF NoIntervalWaits, KeepsAll
<1>2. reg.entries[Top(r)].action = AskedFor(Top(r))
  BY <1>1 DEF IInv, RegistryInv, RunningAsAsked
<1>3. QED  BY <1>1, <1>2 DEF AskedFor, Intervals, Top

(* A handler that leaves the registry alone.                               *)
LEMMA AnswerAloneLosesNothing ==
  ASSUME IInv, LedgerInv, SettlementInv, NEW r \in Requests, NEW type \in Types,
         ~ Known(ledger, Top(r)), NEW state \in States \ {"running"}, Answer(r, type, state),
         Ran(r), UNCHANGED <<reg, sent, episode>>
  PROVE  SettlementInv'
<1>1. KeepsAll(reg, reg')
  BY DEF KeepsAll
<1>2. NoLostSettlement' /\ Unsettled(ledger')
  BY <1>1, AnswerLosesNothing
<1>3. PacedSent' /\ (~ Occupied(reg', "advance") => NothingToLose(reg'))
  BY DEF SettlementInv, PacedSent
<1>4. NoIntervalWaits'
  BY <1>1, WaitersAct DEF SettlementInv
<1>5. QED  BY <1>2, <1>3, <1>4 DEF SettlementInv

(* The handlers of a caller that paces the world.                          *)
LEMMA AdvanceLosesNothing ==
  ASSUME IInv, LedgerInv, SettlementInv, NEW r \in Requests, Advance(r)
  PROVE  SettlementInv'
<1>1. /\ ~ Known(ledger, Top(r)) /\ Ran(r) /\ UNCHANGED <<sent, episode>>
      /\ reg \in Registry /\ SlotsAgree(reg)
      /\ "advance" \in Types /\ "running" \in States /\ "rejected" \in States \ {"running"}
  BY DEF Advance, Accepted, Types, States, IInv, TypeOK, RegistryInv, OneOperationPerSlot
<1>2. CASE /\ reg' = Started(reg, Top(r), "advance", sent[r].ticks)
           /\ Answer(r, "advance", "running")
  <2>1. KeepsAll(reg, reg') /\ Top(r) \in Running(reg')
    BY <1>1, <1>2, OwnIds, StartedKeepsAll
  <2>2. NoLostSettlement' /\ Unsettled(ledger')
    BY <1>1, <1>2, <2>1, AnswerLosesNothing
  <2>3. Occupied(reg', "advance")
    BY <1>2, <2>1, StartedSlot, OwnIds DEF Occupied, Running
  <2>4. NoIntervalWaits'
    BY <1>1, <2>1, WaitersAct DEF SettlementInv
  <2>5. QED  BY <1>1, <2>2, <2>3, <2>4 DEF SettlementInv, PacedSent
<1>3. CASE Answer(r, "advance", "rejected") /\ UNCHANGED reg
  BY <1>1, <1>3, AnswerAloneLosesNothing
<1>4. QED  BY <1>2, <1>3 DEF Advance

LEMMA StepLosesNothing ==
  ASSUME IInv, LedgerInv, SettlementInv, NEW r \in Requests, Step(r)
  PROVE  SettlementInv'
<1> DEFINE act == Act(r)
           top == Top(r)
<1>1. /\ Accepted(r, "step") /\ ~ Known(ledger, top) /\ ~ Known(ledger, act)
      /\ Ran(r) /\ UNCHANGED <<sent, episode>>
      /\ "act" \in Types /\ "step" \in Types /\ "step" \in Types \ {"none"}
      /\ "running" \in States /\ "rejected" \in States /\ ~ Occupied(reg, "advance")
      /\ reg \in Registry /\ SlotsAgree(reg) /\ ledger \in LedgerValue /\ Listed(ledger)
  BY InnerUnknown
  DEF Step, Accepted, Types, States, IInv, TypeOK, RegistryInv, OneOperationPerSlot, LedgerInv
<1>2. PICK o \in Dispatch(reg, act, sent[r]) :
        \/ /\ o.threw
           /\ reg' = o.reg
           /\ Answer(r, "step", "rejected")
        \/ /\ reg' = Started(o.reg, top, "advance", sent[r].ticks)
           /\ ledger' = Stored(Stored(ledger, act, Fresh("act", o.state)),
                               top, Fresh("step", "running"))
  BY DEF Step, StoreAll
<1>3. /\ sent[r] \in Sent /\ sent[r].action # "batch" /\ NothingToLose(reg)
      /\ act \in Running(reg) => reg.entries[act].action = sent[r].action
  BY <1>1, AcceptedRequest DEF SettlementInv, PacedSent
<1>4. /\ act \in Ids /\ top \in Ids /\ act # top
  BY OwnIds
<1>5. Careful(reg, o, act)
  BY <1>1, <1>3, <1>4, DispatchCareful
<1>6. o.state \in States \ {"unknown"} /\ o.reg \in Registry
  BY <1>1, <1>2, <1>3, <1>4, DispatchSound DEF SoundOutcome, Sound
<1>7. PacedSent'
  BY <1>1 DEF SettlementInv, PacedSent
<1>8. CASE o.threw /\ reg' = o.reg /\ Answer(r, "step", "rejected")
  <2>1. KeepsAll(reg, reg') /\ NothingToLose(reg')
    BY <1>5, <1>8 DEF Careful
  <2>2. NoLostSettlement' /\ Unsettled(ledger')
    BY <1>1, <1>8, <2>1, AnswerLosesNothing
  <2>3. NoIntervalWaits'
    BY <1>1, <2>1, WaitersAct DEF SettlementInv
  <2>4. QED  BY <1>7, <2>1, <2>2, <2>3 DEF SettlementInv
<1>9. CASE /\ reg' = Started(o.reg, top, "advance", sent[r].ticks)
           /\ ledger' = Stored(Stored(ledger, act, Fresh("act", o.state)),
                               top, Fresh("step", "running"))
  <2> DEFINE M == Stored(ledger, act, Fresh("act", o.state))
             N == Stored(M, top, Fresh("step", "running"))
  <2>1. Fresh("act", o.state) \in Record /\ Fresh("act", o.state).state = o.state
    BY <1>1, <1>6, FreshOK DEF Fresh
  <2>2. /\ M \in LedgerValue /\ M.of[act].state = o.state /\ Listed(M)
        /\ ~ Known(M, top)
    <3>1. M \in LedgerValue /\ M.of[act] = Fresh("act", o.state) /\ Listed(M)
      BY <1>1, <1>4, <1>6, <2>1, StoredOK, StoredListed
    <3>2. M.of[top] = ledger.of[top] \/ ~ Known(M, top)
      BY <1>1, <1>4, <2>1, StoredLast
    <3>3. ~ Known(M, top)
      BY <1>1, <3>2 DEF Known
    <3>4. QED  BY <2>1, <3>1, <3>3
  <2>3. /\ Unsettled(M)
        /\ \A j \in Ids \ {act} : M.of[j].state = "running" => ledger.of[j].state = "running"
    BY <1>1, <1>4, <1>6, StoredRunning DEF SettlementInv
  <2> HIDE DEF M
  <2>4. /\ Unsettled(N)
        /\ \A j \in Ids \ {top} : N.of[j].state = "running" => M.of[j].state = "running"
    BY <1>1, <1>4, <2>2, <2>3, StoredRunning
  <2>5. ledger' = N
    BY <1>9 DEF M
  <2> HIDE DEF N
  <2>6. KeepsAll(o.reg, reg') /\ top \in Running(reg') /\ Waiting(reg') = Waiting(o.reg)
    BY <1>4, <1>6, <1>9, StartedKeepsAll
  <2>7. ASSUME NEW j \in Ids, N.of[j].state = "running"
        PROVE  j \in Running(reg') \cup Waiting(reg') \/ CutOff(j)'
    <3>1. CASE j = top
      BY <2>6, <3>1
    <3>2. CASE j = act
      <4>1. o.state = "running"
        BY <1>4, <2>2, <2>4, <2>7, <3>2
      <4>2. QED  BY <1>5, <2>6, <3>2, <4>1 DEF Careful, KeepsAll
    <3>3. CASE j # top /\ j # act
      <4>1. ledger.of[j].state = "running"
        BY <2>3, <2>4, <2>7, <3>3
      <4>2. j \in Running(reg) \cup Waiting(reg) \/ CutOff(j)
        BY <4>1 DEF SettlementInv, NoLostSettlement, Pending, Waiting
      <4>3. CutOff(j) => CutOff(j)'
        BY <1>1, CutOffStays
      <4>4. QED  BY <1>5, <2>6, <4>2, <4>3 DEF Careful, KeepsAll
    <3>4. QED  BY <3>1, <3>2, <3>3
  <2>8. NoLostSettlement' /\ Unsettled(ledger')
    BY <2>4, <2>5, <2>7 DEF NoLostSettlement, Pending, Waiting
  <2>9. Occupied(reg', "advance")
    BY <1>4, <1>9, <2>6, StartedSlot DEF Occupied, Running
  <2>10. NoIntervalWaits'
    <3>1. KeepsAll(reg, reg')
      BY <1>5, <2>6 DEF Careful, KeepsAll
    <3>2. QED  BY <1>1, <3>1, WaitersAct DEF SettlementInv
  <2>11. QED  BY <1>7, <2>8, <2>9, <2>10 DEF SettlementInv
<1>10. QED  BY <1>2, <1>8, <1>9

(* A reset or an open_world that is refused: what waited, if its list was  *)
(* dropped, was asked for before it and is cut off.                        *)
LEMMA FailedBeginCutsOff ==
  ASSUME IInv, LedgerInv, SettlementInv, NEW r \in Requests, NEW type \in {"reset", "open_world"},
         Accepted(r, type), Ran(r), Answer(r, type, "rejected"),
         reg' \in {reg, PendingDropped(reg)}, UNCHANGED <<sent, episode>>,
         \A k \in Ids : Known(ledger, k) => k[1] < r
  PROVE  SettlementInv'
<1>1. /\ ~ Known(ledger, Top(r)) /\ type \in Types /\ "rejected" \in States \ {"running"}
      /\ sent[r].type = type /\ sent[r].ep = episode
      /\ reg \in Registry /\ applied \in [Requests -> 0 .. 2]
  BY DEF Accepted, Types, States, IInv, TypeOK
<1>2. CASE reg' = reg
  BY <1>1, <1>2, AnswerAloneLosesNothing
<1>3. CASE reg' = PendingDropped(reg)
  <2>1. Running(reg') = Running(reg) /\ Waiting(reg') = {} /\ reg'.slots = reg.slots
        /\ reg'.entries = reg.entries
    BY <1>1, <1>3 DEF PendingDropped, Registry, Running, Waiting
  <2>2. FailedBegin(r)'
    BY <1>1 DEF FailedBegin, Ran
  <2>3. ledger' = Stored(ledger, Top(r), Fresh(type, "rejected"))
    BY DEF Answer, StoreAll
  <2>4. ledger \in LedgerValue /\ Listed(ledger) /\ Unsettled(ledger) /\ Top(r) \in Ids
    BY OwnIds DEF IInv, TypeOK, LedgerInv, SettlementInv
  <2>5. /\ Unsettled(ledger')
        /\ \A j \in Ids \ {Top(r)} : ledger'.of[j].state = "running" => ledger.of[j].state = "running"
    BY <1>1, <2>3, <2>4, StoredRunning
  <2>6. ledger'.of[Top(r)].state = "rejected"
    <3>1. ledger'.of[Top(r)] = Fresh(type, "rejected")
      BY <1>1, AnswerStores
    <3>2. QED  BY <3>1 DEF Fresh
  <2>7. ASSUME NEW j \in Ids, ledger'.of[j].state = "running"
        PROVE  j \in Running(reg') \/ CutOff(j)'
    <3>1. ledger.of[j].state = "running"
      BY <2>5, <2>6, <2>7
    <3>2. CASE j \in Running(reg)
      BY <2>1, <3>2
    <3>3. CASE CutOff(j)
      BY <3>3, CutOffStays
    <3>4. CASE j \in Waiting(reg)
      <4>1. j[1] < r
        BY <3>1 DEF Known
      <4>2. j \notin {Top(q) : q \in Intervals}
        BY <3>4 DEF SettlementInv, NoIntervalWaits
      <4>3. QED  BY <2>2, <4>1, <4>2 DEF CutOff, Intervals
    <3>5. QED  BY <3>1, <3>2, <3>3, <3>4 DEF SettlementInv, NoLostSettlement, Pending, Waiting
  <2>8. NoLostSettlement'
    BY <2>7 DEF NoLostSettlement
  <2>9. NoIntervalWaits'
    BY <2>1 DEF NoIntervalWaits
  <2>10. NothingToLose(reg')
    BY <1>3 DEF PendingDropped, NothingToLose, Registry
  <2>11. QED  BY <2>5, <2>8, <2>9, <2>10 DEF SettlementInv, PacedSent
<1>4. QED  BY <1>2, <1>3

(* A new episode has no record that says it runs.                          *)
LEMMA BegunLosesNothing ==
  ASSUME IInv, SettlementInv, NEW r \in Requests, NEW type \in {"reset", "open_world"},
         BeginEpisode(r, type), sent' = sent,
         reg' = EmptyRegistry \/ reg' = [EmptyRegistry EXCEPT !.superseded = reg.superseded,
                                                              !.cancelled = reg.cancelled]
  PROVE  SettlementInv'
<1>1. type \in Types /\ "completed" \in States
  BY DEF Types, States
<1>2. /\ reg'.entries = EmptyRegistry.entries /\ reg'.slots = EmptyRegistry.slots
      /\ Waiting(reg') \subseteq Waiting(reg)
  <2> DEFINE kept == [EmptyRegistry EXCEPT !.superseded = reg.superseded,
                                           !.cancelled = reg.cancelled]
  <2>1. /\ kept.entries = EmptyRegistry.entries /\ kept.slots = EmptyRegistry.slots
        /\ Waiting(kept) = Waiting(reg)
    BY DEF EmptyRegistry, Waiting
  <2>2. Waiting(EmptyRegistry) = {}
    BY DEF EmptyRegistry, Waiting
  <2>3. reg' = EmptyRegistry \/ reg' = kept
    OBVIOUS
  <2> HIDE DEF kept
  <2>4. QED  BY <2>1, <2>2, <2>3
<1>3. Running(reg') = {} /\ \A s \in Slots : reg'.slots[s] = None
  BY <1>2, EmptyRegistryOK DEF Running, EmptyRegistry
<1>4. NothingToLose(reg')
  BY <1>3 DEF NothingToLose, Occupied, Cancellable, Slots
<1>5. /\ EmptyLedger \in LedgerValue /\ Top(r) \in Ids /\ Len(EmptyLedger.order) = 0
      /\ \A k \in Ids : EmptyLedger.of[k] = NoRecord
  BY EmptyLedgerOK, OwnIds DEF EmptyLedger
<1>6. Listed(EmptyLedger) /\ Unsettled(EmptyLedger) /\ ~ Known(EmptyLedger, Top(r))
  BY <1>5 DEF Listed, Unsettled, Known, NoRecord
<1>7. ledger' = Stored(EmptyLedger, Top(r), Fresh(type, "completed"))
  BY DEF BeginEpisode
<1>8. /\ Unsettled(ledger')
      /\ \A j \in Ids \ {Top(r)} : ledger'.of[j].state = "running"
                                     => EmptyLedger.of[j].state = "running"
  BY <1>1, <1>5, <1>6, <1>7, StoredRunning
<1>9. ledger'.of[Top(r)].state = "completed"
  <2>1. ledger'.of[Top(r)] = Fresh(type, "completed")
    BY <1>1, <1>5, <1>7, FreshOK, StoredOK
  <2>2. QED  BY <2>1 DEF Fresh
<1>10. NoLostSettlement'
  BY <1>5, <1>8, <1>9 DEF NoLostSettlement, NoRecord
<1>11. NoIntervalWaits'
  BY <1>2 DEF SettlementInv, NoIntervalWaits, Intervals
<1>12. QED  BY <1>4, <1>8, <1>10, <1>11 DEF SettlementInv, PacedSent

LEMMA HandleLosesNothing ==
  ASSUME IInv, LedgerInv, SettlementInv, NEW r \in Requests, Handle(r),
         \A k \in Ids : Known(ledger, k) => k[1] < r
  PROVE  SettlementInv'
<1>1. sent[r].type # "act"
  BY DEF SettlementInv, PacedSent
<1>2. CASE Advance(r)        BY <1>2, AdvanceLosesNothing
<1>3. CASE Step(r)           BY <1>3, StepLosesNothing
<1>4. CASE Reset(r)
  BY <1>4, FailedBeginCutsOff, BegunLosesNothing DEF Reset
<1>5. CASE OpenWorld(r)
  BY <1>5, FailedBeginCutsOff, BegunLosesNothing DEF OpenWorld
<1>6. CASE StepRefused(r)
  <2>1. "step" \in Types /\ "rejected" \in States \ {"running"}
    BY DEF Types, States
  <2>2. QED  BY <1>6, <2>1, AnswerAloneLosesNothing DEF StepRefused, Accepted
<1>7. CASE OtherMutation(r)
  <2>1. "other" \in Types /\ {"completed", "rejected"} \subseteq States \ {"running"}
    BY DEF Types, States
  <2>2. PICK state \in {"completed", "rejected"} : Answer(r, "other", state)
    BY <1>7 DEF OtherMutation
  <2>3. QED  BY <1>7, <2>1, <2>2, AnswerAloneLosesNothing DEF OtherMutation, Accepted
<1>8. CASE ActAlone(r)
  BY <1>1, <1>8 DEF ActAlone, Accepted
<1>9. QED  BY <1>2, <1>3, <1>4, <1>5, <1>6, <1>7, <1>8 DEF Handle

(* A tick settles whatever ended or waited: a record that still says it    *)
(* runs afterwards did before, and was not among those settled.            *)
LEMMA SettledFinally ==
  ASSUME NEW L \in LedgerValue, Unsettled(L), NEW out, \A k \in DOMAIN out : out[k] \in Finals
  PROVE  /\ Unsettled(Settled(L, out))
         /\ \A k \in Ids : Settled(L, out).of[k].state = "running" =>
              L.of[k].state = "running" /\ k \notin DOMAIN out
<1> DEFINE M == Settled(L, out)
<1>1. ASSUME NEW k \in Ids, M.of[k].state = "running"
      PROVE  /\ L.of[k].state = "running" /\ k \notin DOMAIN out
             /\ ~ M.of[k].settled
  <2>1. M.of[k] = IF k \in DOMAIN out THEN Settle(L.of[k], out[k]) ELSE L.of[k]
    BY DEF Settled
  <2>2. L.of[k] \in Record /\ (L.of[k].state = "running" => ~ L.of[k].settled)
    BY DEF LedgerValue, Unsettled
  <2>3. CASE k \notin DOMAIN out
    BY <1>1, <2>1, <2>2, <2>3
  <2>4. CASE k \in DOMAIN out
    <3>1. Settle(L.of[k], out[k]).state # "running"
      <4>1. out[k] # "running"
        BY <2>4 DEF Finals
      <4>2. QED  BY <2>2, <4>1 DEF Settle, Record
    <3>2. QED  BY <1>1, <2>1, <2>4, <3>1
  <2>5. QED  BY <2>3, <2>4
<1>2. QED  BY <1>1 DEF Unsettled

LEMMA TickLosesNothing ==
  ASSUME IInv, PInv, SettlementInv, Tick
  PROVE  SettlementInv'
<1>0. reg \in Registry /\ SlotsAgree(reg) /\ ledger \in LedgerValue /\ Unsettled(ledger)
  BY DEF IInv, TypeOK, RegistryInv, OneOperationPerSlot, SettlementInv
<1>1. PICK polls \in Pollable(Running(reg)) :
        LET ended == {id \in Running(reg) : polls[id] # "running"}
            out   == [id \in ended |-> polls[id]]
        IN  /\ reg' = Polled(reg, out)
            /\ ledger' = Settled(Settled(Settled(ledger, out),
                                         AllCancelled(reg.superseded)),
                                 AllCancelled(reg.cancelled))
  BY DEF Tick
<1> DEFINE ended == {id \in Running(reg) : polls[id] # "running"}
           out   == [id \in ended |-> polls[id]]
           L1 == Settled(ledger, out)
           L2 == Settled(L1, AllCancelled(reg.superseded))
           L3 == Settled(L2, AllCancelled(reg.cancelled))
<1>2. DOMAIN out = ended /\ \A k \in ended : out[k] \in Finals
  BY DEF Pollable, Finals, States
<1>3. \A S : DOMAIN AllCancelled(S) = S /\ \A k \in S : AllCancelled(S)[k] \in Finals
  BY DEF AllCancelled, Finals, States
<1>4. Finals \subseteq States \ {"unknown"}
  BY DEF Finals
<1>5. reg' = Polled(reg, out) /\ ledger' = L3
  BY <1>1
<1> HIDE DEF out, ended
<1>6. /\ L1 \in LedgerValue /\ Unsettled(L1)
      /\ \A k \in Ids : L1.of[k].state = "running" => ledger.of[k].state = "running" /\ k \notin ended
  BY <1>0, <1>2, <1>4, SettledOK, SettledFinally
<1> HIDE DEF L1
<1>7. /\ L2 \in LedgerValue /\ Unsettled(L2)
      /\ \A k \in Ids : L2.of[k].state = "running" => L1.of[k].state = "running" /\ k \notin reg.superseded
  BY <1>3, <1>4, <1>6, SettledOK, SettledFinally
<1> HIDE DEF L2
<1>8. /\ Unsettled(L3)
      /\ \A k \in Ids : L3.of[k].state = "running" => L2.of[k].state = "running" /\ k \notin reg.cancelled
  BY <1>3, <1>7, SettledFinally
<1> HIDE DEF L3
<1>9. Running(reg) \ ended \subseteq Running(reg')
  <2> SUFFICES ASSUME NEW id \in Running(reg), id \notin ended PROVE id \in Running(reg')
    OBVIOUS
  <2> DEFINE e == Finished(reg, DOMAIN out).entries[id]
  <2>1. Running(Finished(reg, DOMAIN out)) = Running(reg) \ ended
    BY <1>0, <1>2, FinishedAgrees
  <2>2. id \in Ids /\ e.live
    BY <2>1 DEF Running
  <2>3. e \in Entry
    BY <1>0, <2>2, FinishedType DEF Registry
  <2>4. reg'.entries[id] = IF e.live /\ e.left > 0 THEN [e EXCEPT !.left = @ - 1] ELSE e
    BY <1>5, <2>2 DEF Polled
  <2> HIDE DEF e
  <2>5. reg'.entries[id].live
    BY <2>2, <2>3, <2>4 DEF Entry
  <2>6. QED  BY <2>2, <2>5 DEF Running
<1>10. NoLostSettlement'
  <2> SUFFICES ASSUME NEW k \in Ids, ledger'.of[k].state = "running"
               PROVE  k \in Running(reg') \/ CutOff(k)'
    BY DEF NoLostSettlement
  <2>1. ledger.of[k].state = "running" /\ k \notin ended
        /\ k \notin reg.superseded /\ k \notin reg.cancelled
    BY <1>5, <1>6, <1>7, <1>8
  <2>2. k \in Running(reg) \/ CutOff(k)
    BY <2>1 DEF SettlementInv, NoLostSettlement, Pending
  <2>3. CutOff(k) => CutOff(k)'
    BY DEF Tick, CutOff, FailedBegin, Intervals
  <2>4. QED  BY <1>9, <2>1, <2>2, <2>3
<1>11. NothingToLose(reg')
  BY <1>5 DEF Polled, NothingToLose
<1>12. PacedSent'
  BY DEF Tick, SettlementInv, PacedSent
<1>13. NoIntervalWaits'
  BY <1>5 DEF Polled, NoIntervalWaits, Waiting
<1>14. QED  BY <1>5, <1>8, <1>10, <1>11, <1>12, <1>13 DEF SettlementInv

-----------------------------------------------------------------------------
(* Requests are asked for in the order of their numbers, and the line      *)
(* keeps it.                                                               *)
LEMMA AskKeepsOrder ==
  ASSUME SInv, AskedInOrder, NEW r \in Requests, NEW body \in Bodies, Ask(r, body)
  PROVE  AskedInOrder'
<1>1. /\ sent \in [Requests -> Sent] /\ body \in Body /\ line \in Seq(Requests)
      /\ Requests \subseteq Nat
  BY SessionAssumption DEF SInv, IInv, TypeOK, SessionTypes
<1>2. /\ sent[r] = Unsent /\ \A q \in Requests : q < r => sent[q] # Unsent
      /\ applied' = applied /\ line' = Append(line, r)
      /\ sent' = [sent EXCEPT ![r] = [type |-> body.type, action |-> body.action,
                                      span |-> body.span, ticks |-> body.ticks,
                                      ep |-> adopted]]
  BY DEF Ask, NextRequest
<1>3. sent'[r] # Unsent /\ \A q \in Requests : q # r => sent'[q] = sent[q]
  BY <1>1, <1>2 DEF Body, Unsent
<1>4. \A q \in Requests : sent[q].type # "none" => q < r
  <2> SUFFICES ASSUME NEW q \in Requests, sent[q].type # "none", ~ (q < r) PROVE FALSE
    OBVIOUS
  <2>1. sent[q] # Unsent /\ q # r
    BY <1>2 DEF Unsent
  <2>2. r < q
    BY <1>1, <2>1
  <2>3. QED  BY <1>2, <2>1, <2>2 DEF AskedInOrder
<1>5. /\ \A p \in Requests : applied[p] > 0 => p < r
      /\ \A i \in 1 .. Len(line) : line[i] < r
  <2>1. \A p \in Requests : applied[p] > 0 => sent[p].type # "none"
    BY DEF SInv, IInv, MemoryInv, AppliedRemembered
  <2>2. \A i \in 1 .. Len(line) : line[i] \in Requests /\ sent[line[i]].type # "none"
    BY <1>1 DEF SInv, Queued
  <2>3. QED  BY <1>4, <2>1, <2>2
<1>6. /\ Len(line') = Len(line) + 1 /\ Len(line) \in Nat /\ line'[Len(line) + 1] = r
      /\ \A i \in 1 .. Len(line) : line'[i] = line[i]
  BY <1>1, <1>2
<1>7. \A i \in 1 .. Len(line') : i \in 1 .. Len(line) \/ i = Len(line) + 1
  BY <1>6
<1>8. \A p, q \in Requests : p < q /\ sent'[q] # Unsent => sent'[p] # Unsent
  BY <1>2, <1>3 DEF AskedInOrder
<1>9. \A i, j \in 1 .. Len(line') : i < j => line'[i] < line'[j]
  <2> SUFFICES ASSUME NEW i \in 1 .. Len(line'), NEW j \in 1 .. Len(line'), i < j
               PROVE  line'[i] < line'[j]
    OBVIOUS
  <2>1. i \in 1 .. Len(line)
    BY <1>6
  <2>2. QED  BY <1>5, <1>6, <1>7, <2>1 DEF AskedInOrder
<1>10. \A p \in Requests, i \in 1 .. Len(line') : applied'[p] > 0 => p < line'[i]
  BY <1>2, <1>5, <1>6, <1>7 DEF AskedInOrder
<1>11. QED  BY <1>8, <1>9, <1>10 DEF AskedInOrder, Unsent

LEMMA WorkerKeepsOrder ==
  ASSUME SInv, AskedInOrder, line # << >>, line' = Tail(line), sent' = sent,
         \A q \in Requests : q # Head(line) => applied'[q] = applied[q]
  PROVE  AskedInOrder'
<1>1. /\ line \in Seq(Requests) /\ Len(line) \in Nat \ {0} /\ Head(line) = line[1]
      /\ Len(line') = Len(line) - 1
      /\ \A i \in 1 .. Len(line') : line'[i] = line[i + 1] /\ i + 1 \in 1 .. Len(line)
  BY DEF SInv, SessionTypes
<1>2. 1 \in 1 .. Len(line)
  BY <1>1
<1>3. \A i, j \in 1 .. Len(line') : i < j => line'[i] < line'[j]
  <2> SUFFICES ASSUME NEW i \in 1 .. Len(line'), NEW j \in 1 .. Len(line'), i < j
               PROVE  line'[i] < line'[j]
    OBVIOUS
  <2>1. i + 1 < j + 1
    OBVIOUS
  <2>2. QED  BY <1>1, <2>1 DEF AskedInOrder
<1>4. ASSUME NEW q \in Requests, NEW i \in 1 .. Len(line'), applied'[q] > 0
      PROVE  q < line'[i]
  <2>1. CASE q = Head(line)
    <3>1. 1 < i + 1
      BY <1>1
    <3>2. QED  BY <1>1, <1>2, <2>1, <3>1 DEF AskedInOrder
  <2>2. CASE q # Head(line)
    BY <1>1, <1>4, <2>2 DEF AskedInOrder
  <2>3. QED  BY <2>1, <2>2
<1>5. QED  BY <1>3, <1>4 DEF AskedInOrder, Unsent

(* What is stored when the oldest request in the line is handled was asked *)
(* for before it.                                                          *)
LEMMA StoredBefore ==
  ASSUME SInv, AskedInOrder, line # << >>, NEW k \in Ids, Known(ledger, k)
  PROVE  k[1] < Head(line)
<1>1. /\ line \in Seq(Requests) /\ Head(line) = line[1] /\ 1 \in 1 .. Len(line)
      /\ LedgerInv
  BY DEF SInv, SessionTypes, PInv
<1>2. k[1] \in Requests /\ (k = Top(k[1]) \/ k = Act(k[1]))
  BY DEF Ids, Top, Act
<1>3. Known(ledger, Top(k[1]))
  <2>1. CASE k = Top(k[1])
    BY <2>1
  <2>2. CASE k = Act(k[1])
    <3>1. PICK i \in 1 .. Len(ledger.order) : ledger.order[i] = Act(k[1])
      BY <1>1, <2>2 DEF LedgerInv, Listed
    <3>2. PICK j \in i + 1 .. Len(ledger.order) : ledger.order[j] = Top(k[1])
      BY <1>1, <1>2, <3>1 DEF LedgerInv, InnerFirst, Followed
    <3>3. ledger.order \in Seq(Ids)
      BY DEF SInv, IInv, TypeOK, LedgerValue
    <3>4. j \in 1 .. Len(ledger.order)
      BY <3>3
    <3>5. QED  BY <1>1, <1>2, <3>2, <3>4, OwnIds DEF LedgerInv, Listed
  <2>3. QED  BY <1>2, <2>1, <2>2
<1>4. applied[k[1]] > 0
  BY <1>2, <1>3 DEF SInv, Recorded
<1>5. QED  BY <1>1, <1>2, <1>4 DEF AskedInOrder

(* No operation of a caller that paces the world is forgotten: a record    *)
(* that says it runs belongs to one that does, or that the next tick       *)
(* settles, or to an action that waited for its tick when a later reset or *)
(* open_world dropped the list and failed; whatever the caller and the     *)
(* sampler time out on, and whatever the ledger drops (actions.lua         *)
(* take_over_body, H.cancel, reset_state; runtime.lua on_tick,             *)
(* ledger_settle, handle_reset, handle_open_world).                        *)
THEOREM NothingIsLost ==
  ASSUME \A body \in Bodies : Paced(body)
  PROVE  SSpec => []NoLostSettlement
<1> DEFINE Inv == SettlementInv /\ AskedInOrder
<1>1. SInit => Inv
  <2> SUFFICES ASSUME SInit PROVE Inv
    OBVIOUS
  <2>1. /\ \A k \in Ids : ledger.of[k].state = "unknown"
        /\ \A r \in Requests : sent[r] = Unsent /\ sent[r].type = "none"
        /\ \A r \in Requests : ~ (applied[r] > 0)
        /\ Len(line) = 0 /\ Waiting(reg) = {}
    BY DEF SInit, Init, EmptyLedger, NoRecord, Unsent, EmptyRegistry, Waiting
  <2>2. NothingToLose(reg)
    BY DEF SInit, Init, EmptyRegistry, NothingToLose
  <2>3. AskedInOrder
    BY <2>1 DEF AskedInOrder
  <2>4. QED
    BY <2>1, <2>2, <2>3
    DEF SettlementInv, NoLostSettlement, Unsettled, PacedSent, NoIntervalWaits
<1>2. SInv /\ Inv /\ [SNext]_<<vars, svars>> => Inv'
  <2> SUFFICES ASSUME SInv, SettlementInv, AskedInOrder, [SNext]_<<vars, svars>>
               PROVE  SettlementInv' /\ AskedInOrder'
    OBVIOUS
  <2>1. IInv /\ PInv /\ LedgerInv
    BY DEF SInv, PInv
  <2>2. CASE \E r \in Requests, body \in Bodies : Ask(r, body)
    <3>1. PICK r \in Requests, body \in Bodies : Ask(r, body)
      BY <2>2
    <3>2. /\ UNCHANGED <<ledger, reg, episode, applied>>
          /\ body.type # "act" /\ body.action # "batch" /\ sent[r] = Unsent
          /\ sent' = [sent EXCEPT ![r] = [type |-> body.type, action |-> body.action,
                                          span |-> body.span, ticks |-> body.ticks,
                                          ep |-> adopted]]
      BY <3>1 DEF Ask, NextRequest, Paced
    <3>3. PacedSent'
      BY <2>1, <3>2 DEF SettlementInv, PacedSent, IInv, TypeOK
    <3>4. /\ sent[r].type = "none" /\ Intervals' \subseteq Intervals \cup {r}
          /\ Intervals \subseteq Intervals'
          /\ \A q \in Requests : q # r => sent'[q] = sent[q]
      BY <2>1, <3>2 DEF IInv, TypeOK, Unsent, Intervals
    <3>5. NoIntervalWaits'
      <4>1. Top(r) \notin Waiting(reg)
        BY <2>1, <3>4 DEF PInv, PendingRemembered, Pending, Waiting, Top
      <4>2. QED  BY <3>2, <3>4, <4>1 DEF SettlementInv, NoIntervalWaits
    <3>6. ASSUME NEW k \in Ids, ledger.of[k].state = "running", CutOff(k)
          PROVE  CutOff(k)'
      <4>1. k # Top(r)
        BY <3>4, <3>6 DEF SInv, Recorded, Known, IInv, MemoryInv, AppliedRemembered
      <4>2. \A q \in Requests : FailedBegin(q) => FailedBegin(q)'
        BY <3>2, <3>4 DEF FailedBegin
      <4>3. QED  BY <3>4, <3>6, <4>1, <4>2 DEF CutOff
    <3>7. NoLostSettlement'
      BY <3>2, <3>6 DEF SettlementInv, NoLostSettlement, Pending
    <3>8. AskedInOrder'
      BY <3>1, AskKeepsOrder
    <3>9. QED
      BY <3>2, <3>3, <3>5, <3>7, <3>8 DEF SettlementInv, Unsettled
  <2>3. CASE HandleMutation
    <3>1. Head(line) \in Requests /\ Handle(Head(line)) /\ line # << >> /\ line' = Tail(line)
      BY <2>3, LineMoves DEF HandleMutation, Answers
    <3>2. \A k \in Ids : Known(ledger, k) => k[1] < Head(line)
      BY <3>1, StoredBefore
    <3>3. SettlementInv'
      BY <2>1, <3>1, <3>2, HandleLosesNothing
    <3>4. sent' = sent /\ Ran(Head(line))
      BY <2>1, <3>1, HandleHandles DEF Handled
    <3>5. \A q \in Requests : q # Head(line) => applied'[q] = applied[q]
      BY <2>1, <3>4 DEF Ran, IInv, TypeOK
    <3>6. AskedInOrder'
      BY <3>1, <3>4, <3>5, WorkerKeepsOrder
    <3>7. QED  BY <3>3, <3>6
  <2>4. CASE Ticks
    <3>1. SettlementInv'
      BY <2>1, <2>4, TickLosesNothing DEF Ticks
    <3>2. QED  BY <2>4, <3>1 DEF Ticks, Tick, svars, AskedInOrder, Unsent
  <2>5. ASSUME UNCHANGED vars PROVE SettlementInv'
    BY <2>5 DEF vars, SettlementInv, NoLostSettlement, Pending, Unsettled, PacedSent,
                NoIntervalWaits, CutOff, FailedBegin, Intervals
  <2>6. CASE RefuseStale
    <3>1. UNCHANGED vars /\ line # << >> /\ line' = Tail(line)
      BY <2>6 DEF RefuseStale, Answers
    <3>2. AskedInOrder'
      BY <3>1, WorkerKeepsOrder DEF vars
    <3>3. QED  BY <2>5, <3>1, <3>2
  <2>7. CASE UNCHANGED <<vars, line>>
    BY <2>5, <2>7 DEF vars, AskedInOrder, Unsent
  <2>8. QED
    BY <2>2, <2>3, <2>4, <2>6, <2>7
    DEF SNext, Query, TimeOut, Worker, Receive, Poll, SamplerReads, SamplerAdopts, svars
<1>3. Inv => NoLostSettlement
  BY DEF SettlementInv
<1>4. QED  BY SessionInvariant, <1>1, <1>2, <1>3, PTL DEF SSpec
=============================================================================
