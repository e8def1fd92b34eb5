------------------------------- MODULE Ledger -------------------------------
(***************************************************************************)
(* The per-episode deduplication ledger of mod/factoriorl/runtime.lua, as  *)
(* operators on one ledger value: "of" maps an id to its record, with      *)
(* state "unknown" for an id that is not stored, and "order" is            *)
(* state.ledger_order, oldest first.                                       *)
(*                                                                         *)
(* A record's state is what ledger_state derives from the stored response. *)
(* "settled" says settled_tick is set.                                     *)
(***************************************************************************)
EXTENDS Naturals, Sequences

CONSTANTS
  Keys,         \* the ids a record can be stored under
  LedgerLimit   \* LEDGER_LIMIT

States == {"unknown", "running", "completed", "failed", "cancelled", "rejected"}

Types == {"none", "advance", "act", "step", "reset", "open_world", "other"}

Record == [type : Types, state : States, settled : BOOLEAN]

NoRecord == [type |-> "none", state |-> "unknown", settled |-> FALSE]

EmptyLedger == [of |-> [k \in Keys |-> NoRecord], order |-> << >>]

LedgerValue == [of : [Keys -> Record], order : Seq(Keys)]

Fresh(type, state) ==
  [type |-> type, state |-> state, settled |-> FALSE]

Known(L, k) == L.of[k].state # "unknown"

(* ledger_store: a new id joins the tail of the order, and the head leaves *)
(* when the order is over the limit (one insertion exceeds it by one).     *)
Stored(L, k, rec) ==
  IF Known(L, k) THEN [of |-> [L.of EXCEPT ![k] = rec], order |-> L.order]
  ELSE IF Len(L.order) < LedgerLimit
  THEN [of |-> [L.of EXCEPT ![k] = rec], order |-> Append(L.order, k)]
  ELSE [of    |-> [[L.of EXCEPT ![Head(L.order)] = NoRecord] EXCEPT ![k] = rec],
        order |-> Append(Tail(L.order), k)]

(* ledger_settle of one record: refused once settled_tick is set, and the  *)
(* stored response code is not rewritten, so a rejection stays one.        *)
Settle(rec, status) ==
  IF rec.state = "unknown" \/ rec.settled THEN rec
  ELSE [rec EXCEPT !.settled = TRUE,
                   !.state = IF @ = "rejected" THEN @ ELSE status]

(* ledger_settle for every id a tick settles, with its status.             *)
Settled(L, out) ==
  [of    |-> [k \in Keys |-> IF k \in DOMAIN out THEN Settle(L.of[k], out[k])
                                                 ELSE L.of[k]],
   order |-> L.order]
=============================================================================
