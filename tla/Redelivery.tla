----------------------------- MODULE Redelivery -----------------------------
(***************************************************************************)
(* What the queue of a frozen evaluation promises of each scene, without   *)
(* workers, slots or the order of the queue: it is owed until it is handed *)
(* out, comes back owed while attempts are left, and is done or gone for   *)
(* good.  Only what was dropped, or was out when the evaluation stopped,   *)
(* is gone before its attempts are spent.  Holdout implements this         *)
(* specification (Holdout!Retried).                                        *)
(***************************************************************************)
EXTENDS Naturals

CONSTANTS
  Items,    \* what is handed out
  Limit     \* how often at most

VARIABLES
  place,    \* "owed", "out", "ended", "done" or "gone", for each item
  tries,    \* how often each was handed out
  dropped,  \* the items given up before their attempts were spent
  stopped   \* no item is handed out any more

vars == <<place, tries, dropped, stopped>>

Places == {"owed", "out", "ended", "done", "gone"}

Init ==
  /\ place = [i \in Items |-> "owed"]
  /\ tries = [i \in Items |-> 0]
  /\ dropped = {}
  /\ stopped = FALSE

(* Where an item goes that did not get done.                               *)
BackFrom(n) == IF n < Limit THEN "owed" ELSE "gone"

(* Handing it out may fail at once.                                        *)
HandedOut(i) ==
  /\ place[i] = "owed" /\ tries[i] < Limit
  /\ tries'[i] = tries[i] + 1
  /\ place'[i] \in {"out", BackFrom(tries'[i])}

Ends(i) == place[i] = "out" /\ place'[i] = "ended" /\ tries'[i] = tries[i]

Settled(i) ==
  /\ place[i] = "ended"
  /\ place'[i] \in {"done", BackFrom(tries[i])}
  /\ tries'[i] = tries[i]

Lost(i) ==
  /\ place[i] \in {"out", "ended"} /\ place'[i] = "gone"
  /\ i \in dropped' \/ stopped'
  /\ tries'[i] = tries[i]

Stays(i) == place'[i] = place[i] /\ tries'[i] = tries[i]

(* Several items may move in one step, each as it may.                     *)
Next ==
  /\ ~ stopped
  /\ place' \in [Items -> Places] /\ tries' \in [Items -> 0 .. Limit]
  /\ dropped \subseteq dropped' /\ stopped' \in BOOLEAN
  /\ \A i \in dropped' \ dropped : Lost(i)
  /\ \A i \in Items : HandedOut(i) \/ Ends(i) \/ Settled(i) \/ Lost(i) \/ Stays(i)

Spec == Init /\ [][Next]_vars
=============================================================================
