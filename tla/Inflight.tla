------------------------------ MODULE Inflight ------------------------------
(***************************************************************************)
(* The in-flight registry of mod/factoriorl/inflight.lua and the body      *)
(* take-over of actions.lua, as operators on one registry value.           *)
(*                                                                         *)
(* A registry is a record                                                  *)
(*   entries     storage.frrl_inflight.entries: the operations that were   *)
(*               started; "live" is the negation of the code's "terminal", *)
(*               and an id never started reads as NoEntry                  *)
(*   slots       storage.frrl_inflight.slots                               *)
(*   superseded  storage.frrl_superseded: ids to settle as cancelled       *)
(*   cancelled   storage.frrl_cancelled: the one id to settle as cancelled *)
(*               (a set with at most one member)                           *)
(* An entry keeps "left", the ticks to its deadline, where the code keeps  *)
(* the absolute deadline_tick: the difference is all a poll ever reads.    *)
(***************************************************************************)
EXTENDS Naturals

CONSTANTS
  Requests,  \* the request ids clients issue
  None       \* an empty slot

(* A step names its inner action request.request_id .. ":act".             *)
Top(r) == <<r, "top">>
Act(r) == <<r, "act">>
Ids == Requests \X {"top", "act"}

ASSUME NoneIsNoId == None \notin Ids

Slots == {"move", "mine", "advance"}

(* The operations a poller exists for; crafting occupies no slot.          *)
Ongoing == {"move", "navigate", "mine", "craft", "advance"}

SlotOf(a) ==
  IF a \in {"move", "navigate"} THEN "move"
  ELSE IF a \in {"mine", "advance"} THEN a ELSE "none"

Entry == [action : Ongoing \cup {"none"}, left : Nat, live : BOOLEAN]

NoEntry == [action |-> "none", left |-> 0, live |-> FALSE]

EmptyRegistry ==
  [entries    |-> [id \in Ids |-> NoEntry],
   slots      |-> [s \in Slots |-> None],
   superseded |-> {},
   cancelled  |-> {}]

Registry ==
  [entries    : [Ids -> Entry],
   slots      : [Slots -> Ids \cup {None}],
   superseded : SUBSET Ids,
   cancelled  : SUBSET Ids]

-----------------------------------------------------------------------------
Running(g) == {id \in Ids : g.entries[id].live}

(* A slot names a running operation of its own kind, and every running     *)
(* operation with a slot holds it.                                         *)
SlotsAgree(g) ==
  /\ \A s \in Slots : g.slots[s] # None =>
       g.entries[g.slots[s]].live /\ SlotOf(g.entries[g.slots[s]].action) = s
  /\ \A id \in Running(g) :
       SlotOf(g.entries[id].action) \in Slots =>
         g.slots[SlotOf(g.entries[id].action)] = id

(* inflight.occupant: the holder of a slot, if it is still running.        *)
Occupied(g, s) == g.slots[s] # None /\ g.entries[g.slots[s]].live

Occupants(g, S) == {g.slots[s] : s \in {x \in S : Occupied(g, x)}}

Ended(e) == [action |-> e.action, left |-> e.left, live |-> FALSE]

(* Mutation: an operation ends but keeps its slot.                         *)
FinishedKeepingSlot(g, S) ==
  [g EXCEPT !.entries = [id \in Ids |-> IF id \in S THEN Ended(@[id]) ELSE @[id]]]

(* inflight.finish for every id of a set: terminal, and its slot freed.    *)
Finished(g, S) ==
  [entries    |-> [id \in Ids |->
                     IF id \in S THEN Ended(g.entries[id]) ELSE g.entries[id]],
   slots      |-> [s \in Slots |->
                     IF /\ g.slots[s] \in S
                        /\ SlotOf(g.entries[g.slots[s]].action) = s
                     THEN None ELSE g.slots[s]],
   superseded |-> g.superseded,
   cancelled  |-> g.cancelled]

(* inflight.start: registers the operation and takes its slot.             *)
Started(g, id, action, left) ==
  [entries    |-> [g.entries EXCEPT
                     ![id] = [action |-> action, left |-> left, live |-> TRUE]],
   slots      |-> [s \in Slots |-> IF s = SlotOf(action) THEN id ELSE g.slots[s]],
   superseded |-> g.superseded,
   cancelled  |-> g.cancelled]

(* Mutation: the losers are listed as superseded but never ended.          *)
TakenOverOnPaper(g) ==
  [g EXCEPT !.superseded = Occupants(g, {"move", "mine"})]

(* take_over_body: whoever holds the body is cancelled, and the list of    *)
(* losers replaces the list left by an earlier take-over.                  *)
TakenOver(g) ==
  LET losers == Occupants(g, {"move", "mine"})
  IN  IF losers = {} THEN g
      ELSE [Finished(g, losers) EXCEPT !.superseded = losers]

(* What the cancel action accepts: a running operation of a cancellable    *)
(* kind, which is every kind but advance.                                  *)
Cancellable(g) == {id \in Running(g) : g.entries[id].action # "advance"}

(* H.cancel: the operation ends and its id replaces the pending one.       *)
CancelledBy(g, id) == [Finished(g, {id}) EXCEPT !.cancelled = {id}]

(* actions.reset_state drops both pending lists and stops the body; the    *)
(* entries stay.                                                           *)
PendingDropped(g) == [g EXCEPT !.superseded = {}, !.cancelled = {}]

(* One tick of the pollers: out says how each operation that settles ends; *)
(* the others are one tick nearer their deadline.                          *)
Polled(g, out) ==
  LET f == Finished(g, DOMAIN out)
  IN  [entries    |-> [id \in Ids |->
                         IF f.entries[id].live /\ f.entries[id].left > 0
                         THEN [f.entries[id] EXCEPT !.left = @ - 1]
                         ELSE f.entries[id]],
       slots      |-> f.slots,
       superseded |-> {},
       cancelled  |-> {}]

(* The ways one poll of a running entry can end: a move and an advance     *)
(* complete at their deadline and no earlier, a navigation arrives or      *)
(* fails by its own; a mine and a craft have no deadline.  Any poll but    *)
(* the advance's fails when the character is missing or the poll raises.   *)
PollResults(e) ==
  CASE e.action = "advance"  -> IF e.left <= 1 THEN {"completed"} ELSE {"running"}
    [] e.action = "move"     -> IF e.left <= 1 THEN {"completed", "failed"}
                                               ELSE {"running", "failed"}
    [] e.action = "navigate" -> IF e.left <= 1 THEN {"completed", "failed"}
                                ELSE {"running", "completed", "failed"}
    [] OTHER                 -> {"running", "completed", "failed"}
=============================================================================
