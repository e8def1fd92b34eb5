------------------------------ MODULE Mutations -----------------------------
(***************************************************************************)
(* What the worker promises its clients about mutating requests, without   *)
(* the registry, the clock or the game: an id has no status, or runs, or   *)
(* ended in one way; applying a request gives its ids a status, and only   *)
(* an end of the episode or a forced drop takes it away.  Runtime          *)
(* implements this specification (Runtime!Promise).                        *)
(***************************************************************************)
EXTENDS Naturals

CONSTANTS
  Requests,    \* the request ids clients issue
  Ids,         \* the ids a status is kept for
  Own,         \* the two ids of each request, its own first
  Final        \* the ways an id can end

VARIABLES
  epoch,     \* the current episode
  asked,     \* the episode each request named, 0 before it was issued
  status,    \* "unknown", "running" or a member of Final, for each id
  dropped    \* ids whose status was given up within an episode

vars == <<epoch, asked, status, dropped>>

States == {"unknown", "running"} \cup Final

Init ==
  /\ epoch = 1
  /\ asked = [r \in Requests |-> 0]
  /\ status = [id \in Ids |-> "unknown"]
  /\ dropped = {}

Ask(r) ==
  /\ asked[r] = 0
  /\ asked' = [asked EXCEPT ![r] = epoch]
  /\ UNCHANGED <<epoch, status, dropped>>

Fresh(r) == asked[r] = epoch /\ status[Own[r][1]] = "unknown"

(* A first delivery: the request's own id gets a status, and so may the    *)
(* id of its inner action; no other id gets one or has it changed.         *)
Apply(r) ==
  /\ Fresh(r)
  /\ status' \in [Ids -> States]
  /\ status'[Own[r][1]] # "unknown"
  /\ \A id \in Ids \ {Own[r][1], Own[r][2]} : status'[id] \in {status[id], "unknown"}
  /\ dropped' = dropped \cup {id \in Ids : status[id] # "unknown" /\ status'[id] = "unknown"}
  /\ UNCHANGED <<epoch, asked>>

(* A request that begins an episode: every other status ends with the old. *)
Begin(r) ==
  /\ Fresh(r)
  /\ epoch' = epoch + 1
  /\ status' = [id \in Ids |-> IF id = Own[r][1] THEN "completed" ELSE "unknown"]
  /\ UNCHANGED <<asked, dropped>>

(* Running ids end, each in one way.  An id that was dropped may have been *)
(* applied twice, and its status may be rewritten once more.               *)
Settle ==
  /\ status' \in [Ids -> States]
  /\ \A id \in Ids :
       \/ status'[id] = status[id]
       \/ /\ status[id] = "running" \/ (id \in dropped /\ status[id] # "unknown")
          /\ status'[id] \in Final
  /\ UNCHANGED <<epoch, asked, dropped>>

Next == (\E r \in Requests : Ask(r) \/ Apply(r) \/ Begin(r)) \/ Settle

Spec == Init /\ [][Next]_vars
=============================================================================
