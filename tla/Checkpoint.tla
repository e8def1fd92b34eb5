----------------------------- MODULE Checkpoint -----------------------------
(***************************************************************************)
(* The checkpoints of an open world (agent/checkpoint.py) in the life of a *)
(* run (agent/runner.py, run_world and finalize): a save before the first  *)
(* decision, some between decisions, a last one of a world that is made to *)
(* pause, then the worker's directory is removed; a later run may resume.  *)
(*                                                                         *)
(* The engine defers a save to the end of a tick, which a paused world     *)
(* does not reach, writes the file piece by piece and tells nobody; the    *)
(* Checkpointer reads the file's size until it holds still.  Each save has *)
(* a name of its own, so one that was given up is never read again and     *)
(* only the file of the last save issued is modelled.                      *)
(***************************************************************************)
EXTENDS Naturals, Sequences

CONSTANTS
  Stable,   \* _STABLE_READINGS
  Polls,    \* the deadline of a save, timeout_seconds, in polls
  Pieces,   \* bound: the pieces a save is written in
  Delay,    \* how many polls the engine may need to the first piece
  Pause,    \* how many it may need from a piece to the next
  Saves,    \* bound: periodic saves of a run
  Runs,     \* bound: runs, each but the first a resume
  None

ASSUME CheckpointAssumption ==
  /\ Stable \in Nat \ {0} /\ Polls \in Nat /\ Pieces \in Nat \ {0}
  /\ Delay \in Nat /\ Pause \in Nat /\ Saves \in Nat /\ Runs \in Nat
  /\ None \notin Nat

VARIABLES
  at,       \* where run_world stands
  run,      \* which run it is
  periodic, \* periodic saves so far
  label,    \* the label of the save that is being made
  world,    \* the engine: is it paused, is a save deferred, does it hang
  file,     \* the save's file: its pieces, or None; polls since it grew
  poll,     \* _await_file: stable, previous, polls left
  kept,     \* the run directory's saves in the order of their times
  latest,   \* Checkpointer.latest
  cut       \* history: the last copy that was begun did not end

vars == <<at, run, periodic, label, world, file, poll, kept, latest, cut>>

NoFile == [pieces |-> None, idle |-> 0]

(* Before its first reading _await_file has seen the size -1.              *)
NewPoll == [stable |-> 0, previous |-> None, left |-> Polls]

(* A run begins: the world runs freely, or steps exactly and is paused.    *)
Fresh(paused) == [paused |-> paused, deferred |-> FALSE, hung |-> FALSE]

Init ==
  /\ at = "initial" /\ run = 1 /\ periodic = 0 /\ label = "initial"
  /\ \E paused \in BOOLEAN : world = Fresh(paused)
  /\ file = NoFile /\ poll = NewPoll
  /\ kept = << >> /\ latest = None /\ cut = FALSE

-----------------------------------------------------------------------------
(* What follows a save: the first decision, the next one, the teardown.    *)
After(l) == IF l = "final" THEN "close" ELSE "play"

(* save records the failure and goes on; `latest' stays what it was.       *)
GiveUp == at' = After(label)

(* save: the file of the save before is not read any more.                 *)
Begin(l) ==
  /\ label' = l /\ at' = "issue" /\ file' = NoFile /\ poll' = NewPoll
  /\ world' = [world EXCEPT !.deferred = FALSE]

Initial == /\ at = "initial" /\ Begin("initial")
           /\ UNCHANGED <<run, periodic, kept, latest, cut>>

(* on_decision: maybe_save, when the interval has elapsed.                 *)
Periodic == /\ at = "play" /\ periodic < Saves
            /\ periodic' = periodic + 1 /\ Begin("periodic")
            /\ UNCHANGED <<run, kept, latest, cut>>

(* finalize: what runs is cancelled, the world paused, the last save made. *)
(* A step that fails is recorded and the next is taken; a request that was *)
(* answered by an exception may yet have been executed.                    *)
Finalize == /\ at = "play" /\ at' = "final"
            /\ world' \in {world, [world EXCEPT !.paused = TRUE]}
            /\ UNCHANGED <<run, periodic, label, file, poll, kept, latest, cut>>

Final == /\ at = "final" /\ Begin("final")
         /\ UNCHANGED <<run, periodic, kept, latest, cut>>

(* loop.run raises: run_world goes to its finally, without finalize.       *)
LoopRaises == /\ at = "play" /\ at' = "close"
              /\ UNCHANGED <<run, periodic, label, world, file, poll, kept, latest, cut>>

-----------------------------------------------------------------------------
(* Mutation: the world is not asked for a tick.                            *)
AfterIssueWaiting == "await"

(* A paused world never ends the tick that the save waits for.             *)
AfterIssue == IF world.paused THEN "advance" ELSE "await"

(* session.save: the mod answers that the request was issued.              *)
Issue ==
  /\ at = "issue" /\ ~world.hung /\ at' = AfterIssue
  /\ world' = [world EXCEPT !.deferred = TRUE]
  /\ UNCHANGED <<run, periodic, label, file, poll, kept, latest, cut>>

(* A request that fails ends the save, whether or not it was executed: the *)
(* file that it may leave is not read.                                     *)
IssueFails ==
  /\ at = "issue" /\ GiveUp
  /\ UNCHANGED <<run, periodic, label, world, file, poll, kept, latest, cut>>

(* session.advance(1): the tick ends and the engine opens the file.        *)
Advance ==
  /\ at = "advance" /\ ~world.hung /\ at' = "await"
  /\ world' = [world EXCEPT !.deferred = FALSE]
  /\ file' = [file EXCEPT !.pieces = 0]
  /\ UNCHANGED <<run, periodic, label, poll, kept, latest, cut>>

AdvanceFails ==
  /\ at = "advance" /\ GiveUp
  /\ UNCHANGED <<run, periodic, label, world, file, poll, kept, latest, cut>>

-----------------------------------------------------------------------------
(* What the engine may have made of the file from one poll to the next: it *)
(* ends the tick of a running world, writes pieces, or needs longer.       *)
Slowest == IF file.pieces \in {None, 0} THEN Delay ELSE Pause

Grows(n) == [pieces |-> n, idle |-> 0]

Later ==
  IF world.hung \/ (world.deferred /\ world.paused) THEN {file}
  ELSE {Grows(n) : n \in {n \in 0 .. Pieces : file.pieces = None \/ n > file.pieces}}
         \cup (IF file.pieces = Pieces \/ file.idle < Slowest
               THEN {[file EXCEPT !.idle = IF file.pieces = Pieces THEN 0 ELSE @ + 1]}
               ELSE {})

(* Mutation: an empty file that stays empty has settled.                   *)
HeldStillEmpty(size) == size = poll.previous

(* A size that is the same as before, and not zero.                        *)
HeldStill(size) == size = poll.previous /\ size > 0

(* One round of _await_file: the file's size, if there is one.             *)
Read(size) ==
  LET stable == IF HeldStill(size) THEN poll.stable + 1 ELSE 0 IN
  /\ poll' = [stable |-> stable, previous |-> size, left |-> poll.left - 1]
  /\ at' = IF stable >= Stable THEN "copy" ELSE at

Poll ==
  /\ at = "await" /\ poll.left > 0
  /\ file' \in Later
  /\ IF file'.pieces = None
     THEN poll' = [poll EXCEPT !.left = @ - 1] /\ at' = at
     ELSE Read(file'.pieces)
  /\ world' = [world EXCEPT !.deferred = @ /\ file'.pieces = None]
  /\ UNCHANGED <<run, periodic, label, kept, latest, cut>>

(* The deadline: no verified save.                                         *)
TimeOut ==
  /\ at = "await" /\ poll.left = 0 /\ GiveUp
  /\ UNCHANGED <<run, periodic, label, world, file, poll, kept, latest, cut>>

-----------------------------------------------------------------------------
(* shutil.copy2 creates the copy under its name and fills it.              *)
CopyBegins ==
  /\ at = "copy" /\ at' = "copying" /\ cut' = TRUE
  /\ kept' = Append(kept, [label |-> label, pieces |-> 0])
  /\ UNCHANGED <<run, periodic, label, world, file, poll, latest>>

Filled(pieces) == [kept EXCEPT ![Len(kept)].pieces = pieces]

(* The copy is there: the record is verified, and the latest.              *)
CopyEnds ==
  /\ at = "copying" /\ at' = After(label) /\ cut' = FALSE
  /\ kept' = Filled(file.pieces) /\ latest' = kept'[Len(kept)]
  /\ UNCHANGED <<run, periodic, label, world, file, poll>>

(* It fails at some piece, and what was written stays.                     *)
CopyFails ==
  /\ at = "copying" /\ GiveUp
  /\ \E n \in 0 .. file.pieces : kept' = Filled(n)
  /\ UNCHANGED <<run, periodic, label, world, file, poll, latest, cut>>

-----------------------------------------------------------------------------
(* The engine stalls for longer than any deadline, or dies.                *)
Hang ==
  /\ ~world.hung /\ world' = [world EXCEPT !.hung = TRUE]
  /\ UNCHANGED <<at, run, periodic, label, file, poll, kept, latest, cut>>

(* The finally of run_world: the worker and its directory are removed.     *)
Close ==
  /\ at = "close" /\ at' = "closed" /\ file' = NoFile
  /\ UNCHANGED <<run, periodic, label, world, poll, kept, latest, cut>>

(* The process is killed: what it was doing stays where it is.             *)
Crash ==
  /\ at # "closed" /\ at' = "closed" /\ file' = NoFile
  /\ kept' \in {kept} \cup (IF at = "copying" THEN {Filled(n) : n \in 0 .. file.pieces} ELSE {})
  /\ UNCHANGED <<run, periodic, label, world, poll, latest, cut>>

(* Mutation: by name, where the label comes before the time.               *)
NewestByName ==
  LET rank   == [final |-> 1, initial |-> 2, periodic |-> 3]
      name(i) == 10 * rank[kept[i].label] + i
  IN IF kept = << >> THEN None
     ELSE kept[CHOOSE i \in DOMAIN kept : \A j \in DOMAIN kept : name(j) <= name(i)]

(* newest_checkpoint: the youngest file of the run directory.              *)
Newest == IF kept = << >> THEN None ELSE kept[Len(kept)]

(* world --resume: a new run, with a directory of its own, of that save.   *)
Resume ==
  /\ at = "closed" /\ run < Runs /\ Newest # None
  /\ at' = "initial" /\ run' = run + 1 /\ periodic' = 0 /\ label' = "initial"
  /\ \E paused \in BOOLEAN : world' = Fresh(paused)
  /\ file' = NoFile /\ poll' = NewPoll
  /\ kept' = << >> /\ latest' = None /\ cut' = FALSE

Next ==
  \/ Initial \/ Periodic \/ Finalize \/ Final \/ LoopRaises
  \/ Issue \/ IssueFails \/ Advance \/ AdvanceFails \/ Poll \/ TimeOut
  \/ CopyBegins \/ CopyEnds \/ CopyFails \/ Hang \/ Close \/ Crash \/ Resume

Spec == Init /\ [][Next]_vars

-----------------------------------------------------------------------------
(* What is reported as the latest verified save is in the run directory,   *)
(* after failures of later saves, the worker's removal and a crash too.    *)
(* It is whole if no pause of the engine within a file is as long as the   *)
(* readings that must agree: of a writer that hangs, half a file passes.   *)
ReportedIsWhole ==
  latest # None =>
    \E i \in DOMAIN kept : /\ kept[i].label = latest.label
                           /\ kept[i].pieces = latest.pieces
                           /\ Pause < Stable /\ ~world.hung => kept[i].pieces = Pieces

(* With a deadline that is long enough for the engine's delays, a save is  *)
(* given up for want of a file only if the engine hangs: in a running      *)
(* world, and in one that is paused as in exact stepping or for the final  *)
(* save.                                                                   *)
LongEnough == Polls >= 2 * (Delay + 1) + (Pieces - 1) * (Pause + 1) + Stable

SettlesInTime == LongEnough /\ at = "await" /\ poll.left = 0 => world.hung

(* checkpoint.py: a resume takes "the most recent verified save copied     *)
(* into run_dir".  So it does unless the copy begun last was cut short.    *)
ResumesLatest == at = "closed" /\ ~cut => Newest = latest
=============================================================================
