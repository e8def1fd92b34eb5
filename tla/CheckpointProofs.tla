-------------------------- MODULE CheckpointProofs --------------------------
(***************************************************************************)
(* What Checkpoint promises of the saves of a run, for any number of       *)
(* readings, pieces, polls, saves and runs.                                *)
(*                                                                         *)
(* While a save is being made the last reading is the file's size, and     *)
(* readings that agree on a file that is not finished were taken while the *)
(* engine, if it does not hang, wrote nothing for as many polls: more than *)
(* its pauses allow.  What is reported is in the run's directory, and not  *)
(* the file that is being copied.                                          *)
(***************************************************************************)
EXTENDS Checkpoint, SequenceTheorems, TLAPS

Labels == {"initial", "periodic", "final"}

Kept == [label : Labels, pieces : Nat]

Stages == {"initial", "play", "final", "issue", "advance", "await", "copy", "copying",
           "close", "closed"}

(* The types of the variables.                                             *)
TypeOK ==
  /\ at \in Stages /\ label \in Labels
  /\ world \in [paused : BOOLEAN, deferred : BOOLEAN, hung : BOOLEAN]
  /\ file \in [pieces : Nat \cup {None}, idle : Nat]
  /\ poll \in [stable : Nat, previous : Nat \cup {None}, left : Nat]
  /\ kept \in Seq(Kept) /\ latest \in Kept \cup {None} /\ cut \in BOOLEAN

(* A save that is deferred has no file yet, and one that is requested has  *)
(* not been read.                                                          *)
Requested ==
  /\ world.deferred => file.pieces = None
  /\ at \in {"issue", "advance"} => file = NoFile /\ poll = NewPoll

(* The file: never more than all of it, and a pause within it is bounded.  *)
Written ==
  file.pieces \in Nat =>
    /\ file.pieces <= Pieces
    /\ 0 < file.pieces /\ file.pieces < Pieces => file.idle <= Pause

(* The readings, while a save is being made.                               *)
Readings ==
  at \in {"await", "copy", "copying"} =>
    /\ poll.previous # None => poll.previous = file.pieces
    /\ 0 < poll.stable =>
         /\ poll.previous # None /\ 0 < file.pieces
         /\ ~world.hung /\ file.pieces < Pieces => poll.stable <= file.idle

Settled == at \in {"copy", "copying"} => Stable <= poll.stable

(* The copies: a last one that was cut short is not what is reported.      *)
Copies ==
  /\ at = "copying" => cut /\ 0 < Len(kept)
  /\ ~cut => Newest = latest

Whole(p) == Pause < Stable /\ ~world.hung => p = Pieces

Reported ==
  latest # None =>
    /\ Whole(latest.pieces)
    /\ \E i \in 1 .. Len(kept) : kept[i] = latest /\ (at = "copying" => i < Len(kept))

IInv == TypeOK /\ Requested /\ Written /\ Readings /\ Settled /\ Copies /\ Reported

-----------------------------------------------------------------------------
USE CheckpointAssumption

(* The copy being filled keeps the saves before it.                        *)
LEMMA FilledKeeps ==
  ASSUME kept \in Seq(Kept), 0 < Len(kept), NEW n \in Nat
  PROVE  /\ Filled(n) \in Seq(Kept) /\ Len(Filled(n)) = Len(kept)
         /\ Filled(n)[Len(kept)] \in Kept /\ Filled(n)[Len(kept)].pieces = n
         /\ \A i \in 1 .. Len(kept) : i < Len(kept) => Filled(n)[i] = kept[i]
  <1> DEFINE k == Len(kept)
             x == [label |-> kept[k].label, pieces |-> n]
  <1>1. kept[k] \in Kept /\ k \in 1 .. Len(kept)
    OBVIOUS
  <1>2. [kept[k] EXCEPT !.pieces = n] = x /\ x \in Kept /\ x.pieces = n
    BY <1>1 DEF Kept
  <1>3. Filled(n) = [kept EXCEPT ![k] = x]
    BY <1>2 DEF Filled
  <1> HIDE DEF x
  <1>4. [kept EXCEPT ![k] = x] \in Seq(Kept) /\ Len([kept EXCEPT ![k] = x]) = Len(kept)
    BY <1>1, <1>2, ExceptSeq
  <1> QED  BY <1>1, <1>2, <1>3, <1>4

LEMMA AppendKeeps ==
  ASSUME kept \in Seq(Kept), NEW x \in Kept
  PROVE  /\ Append(kept, x) \in Seq(Kept) /\ Len(Append(kept, x)) = Len(kept) + 1
         /\ \A i \in 1 .. Len(kept) : Append(kept, x)[i] = kept[i]
  OBVIOUS

LEMMA FreshType ==
  ASSUME NEW paused \in BOOLEAN
  PROVE  Fresh(paused) \in [paused : BOOLEAN, deferred : BOOLEAN, hung : BOOLEAN]
  BY DEF Fresh

LEMMA InitOK == Init => IInv
  <1> SUFFICES ASSUME Init PROVE IInv
    OBVIOUS
  <1>1. TypeOK
    <2>1. world \in [paused : BOOLEAN, deferred : BOOLEAN, hung : BOOLEAN]
      BY FreshType DEF Init
    <2>2. NoFile \in [pieces : Nat \cup {None}, idle : Nat]
          /\ NewPoll \in [stable : Nat, previous : Nat \cup {None}, left : Nat]
      BY DEF NoFile, NewPoll
    <2>3. << >> \in Seq(Kept)
      OBVIOUS
    <2> QED  BY <2>1, <2>2, <2>3 DEF Init, TypeOK, Stages, Labels
  <1>2. Requested /\ Written /\ Readings /\ Settled
    BY DEF Init, Requested, Written, Readings, Settled, Fresh, NoFile, NewPoll
  <1>3. Copies /\ Reported
    BY DEF Init, Copies, Reported, Newest
  <1> QED  BY <1>1, <1>2, <1>3 DEF IInv

(* What is reported depends on the copies and on whether the engine hangs. *)
LEMMA ReportKept ==
  ASSUME Reported, kept' = kept, latest' = latest, at' # "copying",
         world.hung => world'.hung, world.hung \in BOOLEAN, world'.hung \in BOOLEAN
  PROVE  Reported'
  BY DEF Reported, Whole

LEMMA FinalizeOK ==
  ASSUME IInv, Finalize
  PROVE  IInv'
  <1>1. TypeOK'
    BY DEF IInv, TypeOK, Stages, NoFile, Finalize
  <1>2. Requested' /\ Written'
    BY DEF IInv, TypeOK, Requested, Written, NoFile, Finalize
  <1>3. Readings' /\ Settled'
    BY DEF IInv, TypeOK, Requested, Written, Readings, Settled, NoFile, NewPoll, Finalize
  <1>4. Copies'
    BY DEF IInv, TypeOK, Copies, Newest, Finalize
  <1>5. Reported'
    BY ReportKept DEF IInv, TypeOK, Finalize
  <1> QED  BY <1>1, <1>2, <1>3, <1>4, <1>5 DEF IInv

LEMMA LoopRaisesOK ==
  ASSUME IInv, LoopRaises
  PROVE  IInv'
  <1>1. TypeOK'
    BY DEF IInv, TypeOK, Stages, NoFile, LoopRaises
  <1>2. Requested' /\ Written'
    BY DEF IInv, TypeOK, Requested, Written, NoFile, LoopRaises
  <1>3. Readings' /\ Settled'
    BY DEF IInv, TypeOK, Requested, Written, Readings, Settled, NoFile, NewPoll, LoopRaises
  <1>4. Copies'
    BY DEF IInv, TypeOK, Copies, Newest, LoopRaises
  <1>5. Reported'
    BY ReportKept DEF IInv, TypeOK, LoopRaises
  <1> QED  BY <1>1, <1>2, <1>3, <1>4, <1>5 DEF IInv

LEMMA IssueOK ==
  ASSUME IInv, Issue
  PROVE  IInv'
  <1>1. TypeOK'
    BY DEF IInv, TypeOK, Stages, NoFile, Issue, AfterIssue
  <1>2. Requested' /\ Written'
    BY DEF IInv, TypeOK, Requested, Written, NoFile, Issue, AfterIssue
  <1>3. Readings' /\ Settled'
    BY DEF IInv, TypeOK, Requested, Written, Readings, Settled, NoFile, NewPoll, Issue, AfterIssue
  <1>4. Copies'
    BY DEF IInv, TypeOK, Copies, Newest, Issue, AfterIssue
  <1>5. Reported'
    BY ReportKept DEF IInv, TypeOK, Issue, AfterIssue
  <1> QED  BY <1>1, <1>2, <1>3, <1>4, <1>5 DEF IInv

LEMMA IssueFailsOK ==
  ASSUME IInv, IssueFails
  PROVE  IInv'
  <1>1. TypeOK'
    BY DEF IInv, TypeOK, Stages, NoFile, IssueFails, GiveUp, After
  <1>2. Requested' /\ Written'
    BY DEF IInv, TypeOK, Requested, Written, NoFile, IssueFails, GiveUp, After
  <1>3. Readings' /\ Settled'
    BY DEF IInv, TypeOK, Requested, Written, Readings, Settled, NoFile, NewPoll, IssueFails, GiveUp, After
  <1>4. Copies'
    BY DEF IInv, TypeOK, Copies, Newest, IssueFails, GiveUp, After
  <1>5. Reported'
    BY ReportKept DEF IInv, TypeOK, IssueFails, GiveUp, After
  <1> QED  BY <1>1, <1>2, <1>3, <1>4, <1>5 DEF IInv

LEMMA AdvanceFailsOK ==
  ASSUME IInv, AdvanceFails
  PROVE  IInv'
  <1>1. TypeOK'
    BY DEF IInv, TypeOK, Stages, NoFile, AdvanceFails, GiveUp, After
  <1>2. Requested' /\ Written'
    BY DEF IInv, TypeOK, Requested, Written, NoFile, AdvanceFails, GiveUp, After
  <1>3. Readings' /\ Settled'
    BY DEF IInv, TypeOK, Requested, Written, Readings, Settled, NoFile, NewPoll, AdvanceFails, GiveUp, After
  <1>4. Copies'
    BY DEF IInv, TypeOK, Copies, Newest, AdvanceFails, GiveUp, After
  <1>5. Reported'
    BY ReportKept DEF IInv, TypeOK, AdvanceFails, GiveUp, After
  <1> QED  BY <1>1, <1>2, <1>3, <1>4, <1>5 DEF IInv

LEMMA TimeOutOK ==
  ASSUME IInv, TimeOut
  PROVE  IInv'
  <1>1. TypeOK'
    BY DEF IInv, TypeOK, Stages, NoFile, TimeOut, GiveUp, After
  <1>2. Requested' /\ Written'
    BY DEF IInv, TypeOK, Requested, Written, NoFile, TimeOut, GiveUp, After
  <1>3. Readings' /\ Settled'
    BY DEF IInv, TypeOK, Requested, Written, Readings, Settled, NoFile, NewPoll, TimeOut, GiveUp, After
  <1>4. Copies'
    BY DEF IInv, TypeOK, Copies, Newest, TimeOut, GiveUp, After
  <1>5. Reported'
    BY ReportKept DEF IInv, TypeOK, TimeOut, GiveUp, After
  <1> QED  BY <1>1, <1>2, <1>3, <1>4, <1>5 DEF IInv

LEMMA CloseOK ==
  ASSUME IInv, Close
  PROVE  IInv'
  <1>1. TypeOK'
    BY DEF IInv, TypeOK, Stages, NoFile, Close
  <1>2. Requested' /\ Written'
    BY DEF IInv, TypeOK, Requested, Written, NoFile, Close
  <1>3. Readings' /\ Settled'
    BY DEF IInv, TypeOK, Requested, Written, Readings, Settled, NoFile, NewPoll, Close
  <1>4. Copies'
    BY DEF IInv, TypeOK, Copies, Newest, Close
  <1>5. Reported'
    BY ReportKept DEF IInv, TypeOK, Close
  <1> QED  BY <1>1, <1>2, <1>3, <1>4, <1>5 DEF IInv

LEMMA HangOK ==
  ASSUME IInv, Hang
  PROVE  IInv'
  <1>1. TypeOK'
    BY DEF IInv, TypeOK, Stages, NoFile, Hang
  <1>2. Requested' /\ Written'
    BY DEF IInv, TypeOK, Requested, Written, NoFile, Hang
  <1>3. Readings' /\ Settled'
    BY DEF IInv, TypeOK, Requested, Written, Readings, Settled, NoFile, NewPoll, Hang
  <1>4. Copies'
    BY DEF IInv, TypeOK, Copies, Newest, Hang
  <1>5. Reported'
    BY DEF IInv, TypeOK, Reported, Whole, Hang
  <1> QED  BY <1>1, <1>2, <1>3, <1>4, <1>5 DEF IInv

LEMMA AdvanceOK ==
  ASSUME IInv, Advance
  PROVE  IInv'
  <1>1. TypeOK'
    BY DEF IInv, TypeOK, Stages, NoFile, Advance
  <1>2. Requested' /\ Written'
    BY DEF IInv, TypeOK, Requested, Written, NoFile, Advance
  <1>3. Readings' /\ Settled'
    BY DEF IInv, TypeOK, Requested, Written, Readings, Settled, NoFile, NewPoll, Advance
  <1>4. Copies'
    BY DEF IInv, TypeOK, Copies, Newest, Advance
  <1>5. Reported'
    BY ReportKept DEF IInv, TypeOK, Advance
  <1> QED  BY <1>1, <1>2, <1>3, <1>4, <1>5 DEF IInv

LEMMA BeginOK ==
  ASSUME IInv, NEW l \in Labels, Begin(l), at # "copying", UNCHANGED <<kept, latest, cut>>
  PROVE  IInv'
  <1>1. TypeOK'
    BY DEF IInv, TypeOK, Stages, NoFile, NewPoll, Begin
  <1>2. Requested' /\ Written'
    BY DEF IInv, TypeOK, Requested, Written, NoFile, Begin
  <1>3. Readings' /\ Settled'
    BY DEF Readings, Settled, Begin
  <1>4. Copies'
    BY DEF IInv, TypeOK, Copies, Newest, Begin
  <1>5. Reported'
    BY ReportKept DEF IInv, TypeOK, Begin
  <1> QED  BY <1>1, <1>2, <1>3, <1>4, <1>5 DEF IInv

LEMMA ResumeOK ==
  ASSUME IInv, Resume
  PROVE  IInv'
  <1>1. TypeOK'
    <2>1. world' \in [paused : BOOLEAN, deferred : BOOLEAN, hung : BOOLEAN]
      BY FreshType DEF Resume
    <2>2. NoFile \in [pieces : Nat \cup {None}, idle : Nat]
          /\ NewPoll \in [stable : Nat, previous : Nat \cup {None}, left : Nat]
      BY DEF NoFile, NewPoll
    <2>3. << >> \in Seq(Kept)
      OBVIOUS
    <2> QED  BY <2>1, <2>2, <2>3 DEF Resume, TypeOK, Stages, Labels
  <1>2. Requested' /\ Written' /\ Readings' /\ Settled'
    BY DEF Resume, Requested, Written, Readings, Settled, Fresh, NoFile, NewPoll
  <1>3. Copies' /\ Reported'
    BY DEF Resume, Copies, Reported, Newest
  <1> QED  BY <1>1, <1>2, <1>3 DEF IInv

(* One poll.  What the engine wrote meanwhile, and what is read of it.     *)
LEMMA LaterWritten ==
  ASSUME IInv, file' \in Later
  PROVE  /\ file' \in [pieces : Nat \cup {None}, idle : Nat]
         /\ Written'
         /\ file.pieces \in Nat => file'.pieces \in Nat
         /\ file.pieces \in Nat /\ file'.pieces = file.pieces /\ ~world.hung /\ file.pieces < Pieces
              => file'.idle = file.idle + 1
  <1>1. CASE file' = file
    <2>1. CASE world.hung
      BY <1>1, <2>1 DEF IInv, TypeOK, Written
    <2>2. CASE ~world.hung /\ world.deferred /\ world.paused
      BY <1>1, <2>2 DEF IInv, TypeOK, Written, Requested
    <2>3. CASE ~world.hung /\ ~(world.deferred /\ world.paused)
      <3>1. file'.idle # file.idle + 1
        BY <1>1 DEF IInv, TypeOK
      <3>2. file.pieces = Pieces \/ ~(file.pieces \in Nat)
        BY <1>1, <2>3, <3>1 DEF IInv, TypeOK, Later, Grows, Slowest
      <3> QED  BY <1>1, <3>2 DEF IInv, TypeOK, Written
    <2> QED  BY <2>1, <2>2, <2>3 DEF IInv, TypeOK
  <1>2. CASE \E n \in 0 .. Pieces : file' = Grows(n) /\ (file.pieces = None \/ n > file.pieces)
    BY <1>2 DEF IInv, TypeOK, Written, Grows
  <1>3. CASE /\ file.pieces = Pieces \/ file.idle < Slowest
             /\ file' = [file EXCEPT !.idle = IF file.pieces = Pieces THEN 0 ELSE @ + 1]
    <2>1. /\ file.pieces \in Nat \cup {None} /\ file.idle \in Nat
          /\ file' = [pieces |-> file.pieces,
                      idle |-> IF file.pieces = Pieces THEN 0 ELSE file.idle + 1]
      BY <1>3 DEF IInv, TypeOK
    <2>2. file' \in [pieces : Nat \cup {None}, idle : Nat] /\ file'.pieces = file.pieces
      BY <2>1
    <2>3. file.pieces \in Nat /\ 0 < file.pieces /\ file.pieces < Pieces => file.idle < Pause
      BY <1>3 DEF Slowest
    <2> QED  BY <2>1, <2>2, <2>3 DEF IInv, Written
  <1> QED  BY <1>1, <1>2, <1>3 DEF Later

LEMMA PollOK ==
  ASSUME IInv, Poll
  PROVE  IInv'
  <1> USE DEF Poll
  <1>1. /\ file' \in [pieces : Nat \cup {None}, idle : Nat] /\ Written'
        /\ file.pieces \in Nat => file'.pieces \in Nat
        /\ file.pieces \in Nat /\ file'.pieces = file.pieces /\ ~world.hung /\ file.pieces < Pieces
              => file'.idle = file.idle + 1
    BY LaterWritten
  <1>2. Requested'
    BY <1>1 DEF IInv, TypeOK, Requested, Read
  <1>3. CASE file'.pieces = None
    BY <1>1, <1>2, <1>3 DEF IInv, TypeOK, Readings, Settled, Copies, Reported, Newest, Whole
  <1>4. CASE file'.pieces \in Nat
    <2>1. TypeOK'
      <3>1. world' = [world EXCEPT !.deferred = FALSE]
        BY <1>4
      <3>2. poll' \in [stable : Nat, previous : Nat \cup {None}, left : Nat] /\ at' \in Stages
        BY <1>4 DEF IInv, TypeOK, Stages, Read
      <3> QED  BY <1>1, <3>1, <3>2 DEF IInv, TypeOK
    <2>2. Settled'
      BY <1>4 DEF IInv, TypeOK, Settled, Read
    <2>3. Readings'
      BY <1>1, <1>4 DEF IInv, TypeOK, Readings, Read, HeldStill
    <2>4. Copies' /\ Reported'
      BY <1>4 DEF IInv, TypeOK, Copies, Reported, Newest, Whole, Read
    <2> QED  BY <1>1, <1>2, <2>1, <2>2, <2>3, <2>4 DEF IInv
  <1> QED  BY <1>1, <1>3, <1>4

(* The copies.                                                             *)
LEMMA CopyBeginsOK ==
  ASSUME IInv, CopyBegins
  PROVE  IInv'
  <1> DEFINE x == [label |-> label, pieces |-> 0]
  <1>1. x \in Kept
    BY DEF IInv, TypeOK, Kept
  <1>2. kept' = Append(kept, x) /\ kept \in Seq(Kept)
    BY DEF CopyBegins, IInv, TypeOK
  <1> HIDE DEF x
  <1>3. /\ kept' \in Seq(Kept) /\ Len(kept') = Len(kept) + 1 /\ Len(kept) \in Nat
        /\ \A i \in 1 .. Len(kept) : kept'[i] = kept[i]
    BY <1>1, <1>2, AppendKeeps
  <1>4. TypeOK'
    BY <1>3 DEF CopyBegins, IInv, TypeOK, Stages
  <1>5. Requested' /\ Written' /\ Readings' /\ Settled'
    BY DEF CopyBegins, IInv, TypeOK, Requested, Written, Readings, Settled
  <1>6. Copies'
    BY <1>3 DEF CopyBegins, Copies
  <1>7. Reported'
    BY <1>3 DEF CopyBegins, IInv, Reported, Whole
  <1> QED  BY <1>4, <1>5, <1>6, <1>7 DEF IInv

LEMMA CopyEndsOK ==
  ASSUME IInv, CopyEnds
  PROVE  IInv'
  <1>1. kept \in Seq(Kept) /\ 0 < Len(kept) /\ file.pieces \in Nat /\ 0 < file.pieces
    BY DEF CopyEnds, IInv, TypeOK, Copies, Readings, Settled
  <1>2. /\ kept' \in Seq(Kept) /\ Len(kept') = Len(kept)
        /\ kept'[Len(kept)] \in Kept /\ kept'[Len(kept)].pieces = file.pieces
    BY <1>1, FilledKeeps DEF CopyEnds
  <1>3. latest' = kept'[Len(kept)] /\ ~cut' /\ at' \in {"play", "close"}
    BY DEF CopyEnds, After
  <1>4. Whole(file.pieces)
    BY <1>1 DEF CopyEnds, IInv, TypeOK, Written, Readings, Settled, Whole
  <1>5. TypeOK'
    BY <1>2, <1>3 DEF CopyEnds, IInv, TypeOK, Stages
  <1>6. Requested' /\ Written' /\ Readings' /\ Settled'
    BY <1>3 DEF CopyEnds, IInv, Requested, Written, Readings, Settled
  <1>7. Copies'
    BY <1>1, <1>2, <1>3 DEF Copies, Newest
  <1>8. Reported'
    <2>1. Len(kept) \in 1 .. Len(kept') /\ world' = world
      BY <1>1, <1>2 DEF CopyEnds
    <2> QED  BY <1>2, <1>3, <1>4, <2>1 DEF Reported, Whole
  <1> QED  BY <1>5, <1>6, <1>7, <1>8 DEF IInv

(* A copy that is cut short leaves the saves before it alone.              *)
LEMMA CutShort ==
  ASSUME IInv, at = "copying", NEW n \in 0 .. file.pieces, kept' = Filled(n),
         at' \in {"play", "close", "closed"}, UNCHANGED <<latest, cut, world>>
  PROVE  kept' \in Seq(Kept) /\ Copies' /\ Reported'
  <1>1. kept \in Seq(Kept) /\ 0 < Len(kept) /\ n \in Nat /\ cut
    BY DEF IInv, TypeOK, Copies
  <1>2. /\ kept' \in Seq(Kept) /\ Len(kept') = Len(kept)
        /\ \A i \in 1 .. Len(kept) : i < Len(kept) => kept'[i] = kept[i]
    BY <1>1, FilledKeeps
  <1> QED  BY <1>1, <1>2 DEF IInv, Copies, Reported, Whole

LEMMA CopyFailsOK ==
  ASSUME IInv, CopyFails
  PROVE  IInv'
  <1>1. PICK n \in 0 .. file.pieces : kept' = Filled(n)
    BY DEF CopyFails
  <1>2. at' \in {"play", "close"} /\ at = "copying" /\ UNCHANGED <<latest, cut, world>>
    BY DEF CopyFails, GiveUp, After
  <1>3. kept' \in Seq(Kept) /\ Copies' /\ Reported'
    BY <1>1, <1>2, CutShort
  <1>4. TypeOK'
    BY <1>2, <1>3 DEF CopyFails, IInv, TypeOK, Stages
  <1>5. Requested' /\ Written' /\ Readings' /\ Settled'
    BY <1>2 DEF CopyFails, IInv, Requested, Written, Readings, Settled
  <1> QED  BY <1>3, <1>4, <1>5 DEF IInv

LEMMA CrashOK ==
  ASSUME IInv, Crash
  PROVE  IInv'
  <1>1. kept' \in Seq(Kept) /\ Copies' /\ Reported'
    <2>1. CASE kept' = kept
      BY <2>1, ReportKept DEF Crash, IInv, TypeOK, Copies, Newest
    <2>2. CASE at = "copying" /\ \E n \in 0 .. file.pieces : kept' = Filled(n)
      BY <2>2, CutShort DEF Crash
    <2> QED  BY <2>1, <2>2 DEF Crash
  <1>2. TypeOK'
    BY <1>1 DEF Crash, IInv, TypeOK, Stages, NoFile
  <1>3. Requested' /\ Written' /\ Readings' /\ Settled'
    BY DEF Crash, IInv, Requested, Written, Readings, Settled, NoFile
  <1> QED  BY <1>1, <1>2, <1>3 DEF IInv

-----------------------------------------------------------------------------
(* The strengthened invariant holds of every reachable state.              *)
THEOREM Invariant == Spec => []IInv
  <1>1. ASSUME IInv, [Next]_vars
        PROVE  IInv'
    <2>1. CASE UNCHANGED vars
      BY <1>1, <2>1 DEF vars, IInv, TypeOK, Requested, Written, Readings, Settled, Copies, Reported,
         Newest, Whole, NoFile, NewPoll
    <2>2. CASE Initial
      BY <1>1, <2>2, BeginOK DEF Initial, Labels
    <2>3. CASE Periodic
      BY <1>1, <2>3, BeginOK DEF Periodic, Labels
    <2>4. CASE Final
      BY <1>1, <2>4, BeginOK DEF Final, Labels
    <2> QED
      BY <1>1, <2>1, <2>2, <2>3, <2>4, FinalizeOK, LoopRaisesOK, IssueOK, IssueFailsOK, AdvanceOK,
         AdvanceFailsOK, PollOK, TimeOutOK, CopyBeginsOK, CopyEndsOK, CopyFailsOK, HangOK, CloseOK,
         CrashOK, ResumeOK
      DEF Next
  <1> QED  BY <1>1, InitOK, PTL DEF Spec

(* Whatever fails, hangs or crashes: what is reported as the latest save   *)
(* is in the run's directory, and whole unless the engine paused within    *)
(* the file for as long as the readings that must agree.                   *)
THEOREM ReportsWholeSaves == Spec => []ReportedIsWhole
  <1>1. IInv => ReportedIsWhole
    <2> SUFFICES ASSUME IInv, latest # None PROVE ReportedIsWhole
      BY DEF ReportedIsWhole
    <2>1. PICK i \in 1 .. Len(kept) : kept[i] = latest
      BY DEF IInv, Reported
    <2>2. i \in DOMAIN kept /\ Whole(latest.pieces)
      BY DEF IInv, TypeOK, Reported
    <2> QED  BY <2>1, <2>2 DEF ReportedIsWhole, Whole
  <1> QED  BY <1>1, Invariant, PTL

(* A resume takes the save that was reported last, unless the copy that    *)
(* was begun last was cut short.                                           *)
THEOREM ResumesFromLatest == Spec => []ResumesLatest
  <1>1. IInv => ResumesLatest
    BY DEF IInv, Copies, ResumesLatest
  <1> QED  BY <1>1, Invariant, PTL

-----------------------------------------------------------------------------
(* The polls a save has taken while the engine does not hang: what its     *)
(* delays allow for the pieces there are, and the readings of the last.    *)
Took == Polls - poll.left

Before(p) == 2 * (Delay + 1) + (p - 1) * (Pause + 1)

Timely ==
  at = "await" =>
    /\ poll.stable < Stable /\ (world.deferred => ~world.paused)
    /\ file.pieces \in Nat /\ 0 < file.pieces => poll.previous = file.pieces
    /\ ~world.hung =>
         /\ file.pieces = None => file.idle <= Delay /\ Took <= file.idle
         /\ file.pieces = 0 => file.idle <= Delay /\ Took <= Delay + 1 + file.idle
         /\ file.pieces \in Nat /\ 0 < file.pieces /\ file.pieces < Pieces =>
              Took <= Before(file.pieces) + file.idle
         /\ file.pieces = Pieces => Took <= Before(Pieces) + poll.stable

LEMMA TimesMonotone ==
  ASSUME NEW m \in Int, NEW n \in Int, NEW k \in Nat, m <= n
  PROVE  m * k <= n * k
  <1>1. n * k = m * k + (n - m) * k /\ (n - m) * k >= 0 /\ m * k \in Int /\ n * k \in Int
    OBVIOUS
  <1> QED  BY <1>1

LEMMA BeforeMonotone ==
  ASSUME NEW p \in Nat, NEW n \in Nat, p < n
  PROVE  Before(p) \in Int /\ Before(n) \in Int /\ Before(p) + Pause + 1 <= Before(n)
  <1>1. p * (Pause + 1) <= (n - 1) * (Pause + 1)
    BY TimesMonotone
  <1>2. p * (Pause + 1) = (p - 1) * (Pause + 1) + Pause + 1
    OBVIOUS
  <1>3. p * (Pause + 1) \in Int /\ (n - 1) * (Pause + 1) \in Int /\ (p - 1) * (Pause + 1) \in Int
    OBVIOUS
  <1> QED  BY <1>1, <1>2, <1>3 DEF Before

LEMMA BeforeFirst == Before(1) = 2 * (Delay + 1)
  BY DEF Before

(* One poll of a save whose engine does not hang.                          *)
LEMMA PollTimely ==
  ASSUME IInv, Timely, Poll, at' = "await", ~world.hung
  PROVE  Timely'
  <1> USE DEF Poll
  <1>1. /\ file \in [pieces : Nat \cup {None}, idle : Nat]
        /\ poll \in [stable : Nat, previous : Nat \cup {None}, left : Nat]
        /\ poll'.left = poll.left - 1 /\ Took' = Took + 1 /\ Took \in Int
        /\ at = "await" /\ ~(world.deferred /\ world.paused)
    BY DEF IInv, TypeOK, Timely, Read, Took
  <1>2. /\ world'.hung = world.hung /\ world'.paused = world.paused
        /\ world'.deferred => world.deferred
    BY DEF IInv, TypeOK
  <1>3. CASE file'.pieces = None
    <2>1. file.pieces = None /\ file'.idle = file.idle + 1 /\ file.idle < Delay
      BY <1>1, <1>3 DEF Later, Grows, Slowest
    <2>2. poll'.stable = poll.stable
      BY <1>1, <1>3
    <2> QED  BY <1>1, <1>2, <1>3, <2>1, <2>2 DEF Timely
  <1>4. CASE file'.pieces # None
    <2>1. /\ poll'.previous = file'.pieces /\ poll'.stable < Stable
          /\ poll'.stable = IF HeldStill(file'.pieces) THEN poll.stable + 1 ELSE 0
      BY <1>1, <1>4 DEF Read
    <2>2. CASE \E n \in 0 .. Pieces : file' = Grows(n) /\ (file.pieces = None \/ n > file.pieces)
      <3>1. PICK n \in 0 .. Pieces : file' = Grows(n) /\ (file.pieces = None \/ n > file.pieces)
        BY <2>2
      <3>2. file'.pieces = n /\ file'.idle = 0 /\ n \in Nat /\ poll'.stable \in Nat
        BY <1>1, <2>1, <3>1 DEF Grows
      <3>3. CASE n = 0
        <4>1. Took <= Delay
          BY <1>1, <3>1, <3>3 DEF Timely
        <4> QED  BY <1>1, <1>2, <2>1, <3>2, <3>3, <4>1 DEF Timely
      <3>4. CASE 0 < n
        <4>1. Took + 1 <= Before(n)
          <5>1. Before(1) <= Before(n) /\ Before(n) \in Int /\ Before(1) = 2 * (Delay + 1)
            BY <3>2, <3>4, BeforeFirst, BeforeMonotone
          <5>2. CASE file.pieces = None \/ file.pieces = 0
            BY <1>1, <5>1, <5>2 DEF Timely
          <5>3. CASE file.pieces \in Nat /\ 0 < file.pieces
            <6>1. Before(file.pieces) \in Int /\ Before(file.pieces) + Pause + 1 <= Before(n)
              BY <3>1, <3>2, <5>3, BeforeMonotone
            <6>2. Took <= Before(file.pieces) + file.idle /\ file.idle <= Pause
              BY <1>1, <3>1, <5>3 DEF Timely, IInv, Written
            <6>3. file.idle \in Nat /\ Pause \in Nat /\ Took \in Int
              BY <1>1, CheckpointAssumption
            <6>4. Took <= Before(file.pieces) + Pause
              BY <6>1, <6>2, <6>3
            <6> QED  BY <5>1, <6>1, <6>3, <6>4
          <5> QED  BY <1>1, <5>2, <5>3
        <4>2. Before(n) \in Int
          BY <3>2, BeforeMonotone, <3>4
        <4> QED  BY <1>1, <1>2, <2>1, <3>2, <3>4, <4>1, <4>2 DEF Timely
      <3> QED  BY <3>2, <3>3, <3>4
    <2>3. CASE /\ file.pieces = Pieces \/ file.idle < Slowest
               /\ file' = [file EXCEPT !.idle = IF file.pieces = Pieces THEN 0 ELSE @ + 1]
      <3>1. /\ file'.pieces = file.pieces /\ file.pieces \in Nat
            /\ file.pieces # Pieces => file'.idle = file.idle + 1 /\ file.idle < Slowest
        BY <1>1, <1>4, <2>3
      <3>2. Before(file.pieces) \in Int /\ Before(Pieces) \in Int
        BY <3>1, BeforeMonotone
      <3>3. CASE file.pieces = 0
        BY <1>1, <1>2, <2>1, <3>1, <3>3 DEF Timely, Slowest
      <3>4. CASE 0 < file.pieces /\ file.pieces < Pieces
        BY <1>1, <1>2, <2>1, <3>1, <3>2, <3>4 DEF Timely
      <3>5. CASE file.pieces = Pieces
        <4>1. poll'.stable = poll.stable + 1
          BY <1>1, <2>1, <3>1, <3>5 DEF Timely, HeldStill
        <4> QED  BY <1>1, <1>2, <2>1, <3>1, <3>2, <3>5, <4>1 DEF Timely
      <3> QED  BY <3>1, <3>3, <3>4, <3>5, <1>1 DEF IInv, Written
    <2> QED  BY <1>1, <2>2, <2>3 DEF Later
  <1> QED  BY <1>3, <1>4

LEMMA StepTimely ==
  ASSUME IInv, Timely, [Next]_vars
  PROVE  Timely'
  <1> SUFFICES ASSUME at' = "await" PROVE Timely'
    BY DEF Timely
  <1>1. CASE UNCHANGED vars
    BY <1>1 DEF vars, Timely, Took
  <1>2. CASE Issue
    BY <1>2 DEF Issue, AfterIssue, IInv, TypeOK, Requested, Timely, Took, NoFile, NewPoll
  <1>3. CASE Advance
    BY <1>3 DEF Advance, IInv, TypeOK, Requested, Timely, Took, NoFile, NewPoll
  <1>4. CASE Hang
    BY <1>4 DEF Hang, IInv, TypeOK, Timely
  <1>5. CASE Poll /\ ~world.hung
    BY <1>5, PollTimely
  <1>6. CASE Poll /\ world.hung
    <2>1. file' = file /\ world'.hung /\ (world'.deferred => world.deferred) /\ world'.paused = world.paused
      BY <1>6 DEF Poll, Later, IInv, TypeOK
    <2>2. CASE file'.pieces = None
      BY <1>6, <2>1, <2>2 DEF Poll, IInv, TypeOK, Timely
    <2>3. CASE file'.pieces # None
      BY <1>6, <2>1, <2>3 DEF Poll, Read, IInv, TypeOK, Timely
    <2> QED  BY <2>2, <2>3
  <1>7. CASE Initial \/ Periodic \/ Finalize \/ Final \/ LoopRaises \/ IssueFails \/ AdvanceFails
    BY <1>7 DEF Initial, Periodic, Finalize, Final, LoopRaises, IssueFails, AdvanceFails, Begin,
       GiveUp, After
  <1>8. CASE TimeOut \/ CopyBegins \/ CopyEnds \/ CopyFails \/ Close \/ Crash \/ Resume
    BY <1>8 DEF TimeOut, CopyBegins, CopyEnds, CopyFails, Close, Crash, Resume, GiveUp, After
  <1> QED  BY <1>1, <1>2, <1>3, <1>4, <1>5, <1>6, <1>7, <1>8 DEF Next

(* A save is given up for want of a file only if the engine hangs, for any *)
(* delays and pauses that the deadline allows for.                         *)
THEOREM SavesInTime == Spec => []SettlesInTime
  <1>1. Init => Timely
    BY DEF Init, Timely
  <1>2. IInv /\ Timely => SettlesInTime
    <2> SUFFICES ASSUME IInv, Timely, LongEnough, at = "await", poll.left = 0, ~world.hung
                 PROVE  FALSE
      BY DEF SettlesInTime
    <2>1. /\ file.pieces \in Nat \cup {None} /\ file.idle \in Nat /\ poll.stable \in Nat
          /\ poll.stable < Stable /\ Took = Polls
      BY DEF IInv, TypeOK, Timely, Took
    <2>2. Before(Pieces) \in Int /\ Before(Pieces) + Stable <= Polls
      BY BeforeMonotone DEF LongEnough, Before
    <2>3. Before(1) = 2 * (Delay + 1) /\ Before(1) <= Before(Pieces)
      BY <2>2, BeforeFirst, BeforeMonotone
    <2>4. CASE file.pieces = None \/ file.pieces = 0
      BY <2>1, <2>2, <2>3, <2>4 DEF Timely
    <2>5. CASE file.pieces \in Nat /\ 0 < file.pieces /\ file.pieces < Pieces
      <3>1. Before(file.pieces) \in Int /\ Before(file.pieces) + Pause + 1 <= Before(Pieces)
        BY <2>5, BeforeMonotone
      <3>2. file.idle <= Pause
        BY <2>5 DEF IInv, Written
      <3> QED  BY <2>1, <2>2, <2>5, <3>1, <3>2 DEF Timely
    <2>6. CASE file.pieces = Pieces
      BY <2>1, <2>2, <2>6 DEF Timely
    <2> QED  BY <2>1, <2>4, <2>5, <2>6 DEF IInv, Written
  <1> QED  BY <1>1, <1>2, StepTimely, Invariant, PTL DEF Spec

=============================================================================
